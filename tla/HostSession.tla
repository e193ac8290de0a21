---------------------------- MODULE HostSession ----------------------------
(***************************************************************************)
(* The media sessions of the host (internal/host/host.go, and screenSource *)
(* .stream of source.go seen from the session that runs it).  Three kinds  *)
(* of goroutine share the holder of the at-most-one session: the signaling *)
(* loop of Run/connectAndServe, the state callbacks of each peer           *)
(* connection, and the goroutine that streams the source into a session.   *)
(* Sessions are numbered in the order newSession makes them.               *)
(***************************************************************************)
EXTENDS Integers

CONSTANTS MaxSession,  \* bound: how many sessions are built
          MaxConn      \* bound: how many times the host dials signaling

ASSUME BoundsAssumption == MaxSession \in Nat \ {0} /\ MaxConn \in Nat \ {0}

Sessions == 1..MaxSession
NoSession == 0           \* the nil *session

VARIABLES
    ctxDone,    \* the context of Run is cancelled
    \* the signaling loop
    sock,       \* its websocket: "up" or "down"
    conn,       \* how many sockets it has dialled
    loop,       \* where connectAndServe / Run is
    victim,     \* the session a set() has swapped out and is about to close
    built,      \* the last session newSession has started to make
    \* sessionHolder
    cur,        \* sess: the current session
    \* each session
    pc,         \* its peer connection
    remote,     \* whose answer it holds: none, its own or a stale one
    connected,  \* the connected channel: "open", or "closed" by the callback;
                \* "due" when pion has reached the state and not yet called
    cancelled,  \* its own context is cancelled
    reaper,     \* the failed-state callback and the endIf goroutine it starts
    \* the goroutine that streams, and the helper process it runs
    stream, helper,
    \* screenSource
    stdinOf     \* the session whose helper's stdin is hooked

sigVars  == <<sock, conn>>
loopVars == <<loop, victim, built>>
pcVars   == <<pc, remote, connected>>
pcRest   == <<remote, connected>>
srcVars  == <<helper, stdinOf>>
ctlVars  == <<ctxDone, sigVars, loopVars>>
sessVars == <<cur, pcVars, cancelled, reaper, stream, srcVars>>
vars == <<ctlVars, sessVars>>

-----------------------------------------------------------------------------
LoopStates == {"dial", "read", "ending", "building", "offering", "installing",
               "replacing", "stopping", "stopped"}
(* newSession has made session `built` and not handed it over yet.         *)
Building == loop \in {"offering", "installing"}
(* A set() has swapped the holder and has still to close what was there.   *)
Closing == loop \in {"ending", "replacing", "stopping"}

StreamStates == {"none", "waiting", "starting", "hooking", "streaming", "cleanup",
                 "reaping", "returned", "reporting", "ending", "closing", "done"}
(* Inside src.stream and on the way to reading frames, or reading them.    *)
InStream == {"starting", "hooking", "streaming"}
ReaperStates == {"idle", "due", "pending", "closing", "done"}
PcStates == {"none", "new", "connected", "failed", "closed"}
OpenPc == {"new", "connected", "failed"}

TypeOK ==
    /\ ctxDone \in BOOLEAN
    /\ sock \in {"up", "down"} /\ conn \in 0..MaxConn
    /\ loop \in LoopStates
    /\ victim \in 0..MaxSession /\ built \in 0..MaxSession /\ cur \in 0..MaxSession
    /\ pc \in [Sessions -> PcStates]
    /\ remote \in [Sessions -> {"none", "own", "stale"}]
    /\ connected \in [Sessions -> {"open", "due", "closed"}]
    /\ cancelled \in [Sessions -> BOOLEAN]
    /\ reaper \in [Sessions -> ReaperStates]
    /\ stream \in [Sessions -> StreamStates]
    /\ helper \in [Sessions -> {"none", "running", "exited"}]
    /\ stdinOf \in 0..MaxSession

(* ctx.Err() # nil: a session's context is a child of the context of Run.  *)
Cancelled(s) == cancelled[s] \/ ctxDone

(* The source feeds s: it is being streamed and nobody has called it off.  *)
Live(s) == ~Cancelled(s) /\ stream[s] \in InStream

-----------------------------------------------------------------------------
Init ==
    /\ ctxDone = FALSE
    /\ sock = "down" /\ conn = 0
    /\ loop = "dial" /\ victim = NoSession /\ built = 0
    /\ cur = NoSession
    /\ pc = [s \in Sessions |-> "none"]
    /\ remote = [s \in Sessions |-> "none"]
    /\ connected = [s \in Sessions |-> "open"]
    /\ cancelled = [s \in Sessions |-> FALSE]
    /\ reaper = [s \in Sessions |-> "idle"]
    /\ stream = [s \in Sessions |-> "none"]
    /\ helper = [s \in Sessions |-> "none"]
    /\ stdinOf = NoSession

(***************************************************************************)
(* The signaling loop.                                                     *)
(***************************************************************************)
Dial ==
    /\ loop = "dial" /\ ~ctxDone /\ conn < MaxConn
    /\ sock' = "up" /\ conn' = conn + 1 /\ loop' = "read"
    /\ UNCHANGED <<ctxDone, victim, built, sessVars>>

(* The server, the tunnel or the network drops the socket.                 *)
SocketDrop ==
    /\ sock = "up"
    /\ sock' = "down"
    /\ UNCHANGED <<ctxDone, conn, loopVars, sessVars>>

(* Mutant: the session ends with its socket.                               *)
ReadErrorEndsSession ==
    /\ loop = "read" /\ (sock = "down" \/ ctxDone)
    /\ sock' = "down" /\ loop' = "dial"
    /\ cur' = NoSession /\ victim' = cur
    /\ UNCHANGED <<ctxDone, conn, built, pcVars, cancelled, reaper, stream, srcVars>>

(* ws.Read fails: connectAndServe closes the socket and returns to Run's   *)
(* loop, and the holder is left alone on purpose.                          *)
ReadError ==
    /\ loop = "read" /\ (sock = "down" \/ ctxDone)
    /\ sock' = "down" /\ loop' = "dial"
    /\ UNCHANGED <<ctxDone, conn, victim, built, sessVars>>

(* Mutant: what was there is forgotten instead of closed.                  *)
SetForgetsOld(s, next) ==
    /\ victim' = NoSession
    /\ cur' = s
    /\ loop' = next

(* sessionHolder.set: install s; the caller goes on to close the old one.  *)
Set(s, next) ==
    /\ victim' = cur
    /\ cur' = s
    /\ loop' = next

(* Mutant: the current session is not ended first.                         *)
HandleReadyKeepsCurrent ==
    /\ loop = "read" /\ sock = "up" /\ ~ctxDone
    /\ built < MaxSession
    /\ loop' = "building"
    /\ UNCHANGED <<ctxDone, sigVars, victim, built, sessVars>>

(* "ready": sessions.end() first.                                          *)
HandleReady ==
    /\ loop = "read" /\ sock = "up" /\ ~ctxDone
    /\ built < MaxSession
    /\ Set(NoSession, "ending")
    /\ UNCHANGED <<ctxDone, sigVars, built, pcVars, cancelled, reaper, stream, srcVars>>

(* Mutant: close forgets s.cancel().                                       *)
CloseSessionKeepsContext(s) ==
    /\ pc' = [x \in Sessions |-> IF x = s THEN "closed" ELSE pc[x]]
    /\ UNCHANGED cancelled

(* session.close of s, where s may be nil.                                 *)
CloseSession(s) ==
    /\ pc' = [x \in Sessions |-> IF x = s THEN "closed" ELSE pc[x]]
    /\ cancelled' = [x \in Sessions |-> x = s \/ cancelled[x]]

(* The second half of set(): old.close(), after the unlock.                *)
CloseVictim ==
    /\ Closing
    /\ CloseSession(victim)
    /\ victim' = NoSession
    /\ loop' = CASE loop = "ending"    -> "building"
                 [] loop = "replacing" -> "read"
                 [] loop = "stopping"  -> "stopped"
    /\ UNCHANGED <<ctxDone, sigVars, built, cur, pcRest, reaper, stream, srcVars>>

(* newSession fails before there is a peer connection.                     *)
BuildFail ==
    /\ loop = "building"
    /\ loop' = "read"
    /\ UNCHANGED <<ctxDone, sigVars, victim, built, sessVars>>

(* newSession makes the peer connection, its context and its callbacks.    *)
BuildPC ==
    /\ loop = "building"
    /\ built' = built + 1
    /\ pc' = [pc EXCEPT ![built'] = "new"]
    /\ loop' = "offering"
    /\ UNCHANGED <<ctxDone, sigVars, victim, cur, remote, connected, cancelled, reaper,
                   stream, srcVars>>

(* A channel, a track, the offer or the send fails: newSession's fail().   *)
OfferFail ==
    /\ loop = "offering"
    /\ CloseSession(built)
    /\ loop' = "read"
    /\ UNCHANGED <<ctxDone, sigVars, victim, built, cur, pcRest, reaper, stream, srcVars>>

(* The offer is written (a write to a socket that is already lost may well *)
(* succeed) and the streaming goroutine is started.                        *)
OfferSent ==
    /\ loop = "offering" /\ ~ctxDone
    /\ stream' = [stream EXCEPT ![built] = "waiting"]
    /\ loop' = "installing"
    /\ UNCHANGED <<ctxDone, sigVars, victim, built, cur, pcVars, cancelled, reaper,
                   srcVars>>

Install ==
    /\ loop = "installing"
    /\ Set(built, "replacing")
    /\ UNCHANGED <<ctxDone, sigVars, built, pcVars, cancelled, reaper, stream, srcVars>>

(* "answer": applied to whatever session is current.  Answers carry no     *)
(* session, so one to an earlier offer may be applied to a later one.      *)
HandleAnswer(a) ==
    /\ loop = "read" /\ sock = "up" /\ ~ctxDone
    /\ stream[a] # "none"                      \* a's offer was sent
    /\ cur # NoSession
    /\ pc[cur] \in OpenPc /\ remote[cur] = "none"
    /\ remote' = [remote EXCEPT ![cur] = IF a = cur THEN "own" ELSE "stale"]
    /\ UNCHANGED <<ctlVars, cur, pc, connected, cancelled, reaper, stream, srcVars>>

(* Run returns: its deferred sessions.end().                               *)
StopRun ==
    /\ loop = "dial" /\ ctxDone
    /\ Set(NoSession, "stopping")
    /\ UNCHANGED <<ctxDone, sigVars, built, pcVars, cancelled, reaper, stream, srcVars>>

Shutdown ==
    /\ ~ctxDone
    /\ ctxDone' = TRUE
    /\ UNCHANGED <<sigVars, loopVars, sessVars>>

(***************************************************************************)
(* The peer connection of s: pion's state changes, and the callbacks pion  *)
(* runs for them in goroutines of their own.                               *)
(***************************************************************************)
PcConnects(s) ==
    /\ pc[s] = "new" /\ remote[s] = "own"
    /\ pc' = [pc EXCEPT ![s] = "connected"]
    /\ connected' = [connected EXCEPT ![s] = "due"]
    /\ UNCHANGED <<ctlVars, cur, remote, cancelled, reaper, stream, srcVars>>

(* The media path is lost, or a stale answer never gave one.               *)
PcFails(s) ==
    /\ pc[s] \in {"new", "connected"} /\ remote[s] # "none"
    /\ pc' = [pc EXCEPT ![s] = "failed"]
    /\ reaper' = [reaper EXCEPT ![s] = "due"]
    /\ UNCHANGED <<ctlVars, cur, pcRest, cancelled, stream, srcVars>>

(* The viewer closes its end and pion closes this one on the notice of it. *)
PcCloses(s) ==
    /\ pc[s] = "connected"
    /\ pc' = [pc EXCEPT ![s] = "closed"]
    /\ UNCHANGED <<ctlVars, cur, pcRest, cancelled, reaper, stream, srcVars>>

(* Mutant: without the sync.Once the channel is closed a second time.      *)
OnConnectedTwice(s) ==
    /\ connected[s] \in {"due", "closed"}
    /\ connected' = [connected EXCEPT ![s] = IF @ = "due" THEN "closed" ELSE "panic"]
    /\ UNCHANGED <<ctlVars, cur, pc, remote, cancelled, reaper, stream, srcVars>>

OnConnected(s) ==
    /\ connected[s] = "due"
    /\ connected' = [connected EXCEPT ![s] = "closed"]
    /\ UNCHANGED <<ctlVars, cur, pc, remote, cancelled, reaper, stream, srcVars>>

(* Mutant: the failed state only cancels.                                  *)
OnFailedOnlyCancels(s) ==
    /\ reaper[s] = "due"
    /\ cancelled' = [cancelled EXCEPT ![s] = TRUE]
    /\ reaper' = [reaper EXCEPT ![s] = "done"]
    /\ UNCHANGED <<ctlVars, cur, pcVars, stream, srcVars>>

OnFailed(s) ==
    /\ reaper[s] = "due"
    /\ cancelled' = [cancelled EXCEPT ![s] = TRUE]
    /\ reaper' = [reaper EXCEPT ![s] = "pending"]
    /\ UNCHANGED <<ctlVars, cur, pcVars, stream, srcVars>>

(* The closed state's callback, where close() had not cancelled before.    *)
OnClosed(s) ==
    /\ pc[s] = "closed" /\ ~cancelled[s]
    /\ cancelled' = [cancelled EXCEPT ![s] = TRUE]
    /\ UNCHANGED <<ctlVars, cur, pcVars, reaper, stream, srcVars>>

(* Mutant: whatever is current is swapped out.                             *)
SwapAny(s) == cur' = NoSession

(* endIf: the swap, under the lock.                                        *)
SwapIf(s) == cur' = IF cur = s THEN NoSession ELSE cur

ReaperEndIf(s) ==
    /\ reaper[s] = "pending"
    /\ SwapIf(s)
    /\ reaper' = [reaper EXCEPT ![s] = IF cur = s THEN "closing" ELSE "done"]
    /\ UNCHANGED <<ctlVars, pcVars, cancelled, stream, srcVars>>

ReaperClose(s) ==
    /\ reaper[s] = "closing"
    /\ CloseSession(s)
    /\ reaper' = [reaper EXCEPT ![s] = "done"]
    /\ UNCHANGED <<ctlVars, cur, pcRest, stream, srcVars>>

(***************************************************************************)
(* The streaming goroutine of s.                                           *)
(***************************************************************************)
StreamGiveUp(s) ==
    /\ stream[s] = "waiting" /\ Cancelled(s)
    /\ stream' = [stream EXCEPT ![s] = "done"]
    /\ UNCHANGED <<ctlVars, cur, pcVars, cancelled, reaper, srcVars>>

StreamBegin(s) ==
    /\ stream[s] = "waiting" /\ connected[s] = "closed"
    /\ stream' = [stream EXCEPT ![s] = "starting"]
    /\ UNCHANGED <<ctlVars, cur, pcVars, cancelled, reaper, srcVars>>

(* cmd.Start, which fails at once when the context is done.                *)
HelperStart(s) ==
    /\ stream[s] = "starting" /\ ~Cancelled(s)
    /\ helper' = [helper EXCEPT ![s] = "running"]
    /\ stream' = [stream EXCEPT ![s] = "hooking"]
    /\ UNCHANGED <<ctlVars, cur, pcVars, cancelled, reaper, stdinOf>>

HelperStartFail(s) ==
    /\ stream[s] = "starting"
    /\ stream' = [stream EXCEPT ![s] = "returned"]
    /\ UNCHANGED <<ctlVars, cur, pcVars, cancelled, reaper, srcVars>>

HookStdin(s) ==
    /\ stream[s] = "hooking"
    /\ stdinOf' = s
    /\ stream' = [stream EXCEPT ![s] = "streaming"]
    /\ UNCHANGED <<ctlVars, cur, pcVars, cancelled, reaper, helper>>

(* The helper's output has ended; helperFailure waits for the process.     *)
StreamEOF(s) ==
    /\ stream[s] = "streaming" /\ helper[s] = "exited"
    /\ stream' = [stream EXCEPT ![s] = "cleanup"]
    /\ UNCHANGED <<ctlVars, cur, pcVars, cancelled, reaper, srcVars>>

(* An unknown kind, a length out of range or a failed WriteSample: the     *)
(* frame loop returns while the helper is still running.                   *)
StreamBroken(s) ==
    /\ stream[s] = "streaming"
    /\ stream' = [stream EXCEPT ![s] = "cleanup"]
    /\ UNCHANGED <<ctlVars, cur, pcVars, cancelled, reaper, srcVars>>

(* Mutant: whatever is hooked is unhooked.                                 *)
UnhookWhatever(s) ==
    /\ stream[s] = "cleanup"
    /\ stdinOf' = NoSession
    /\ stream' = [stream EXCEPT ![s] = "reaping"]
    /\ UNCHANGED <<ctlVars, cur, pcVars, cancelled, reaper, helper>>

(* stream's deferred function up to cmd.Wait.                              *)
UnhookStdin(s) ==
    /\ stream[s] = "cleanup"
    /\ stdinOf' = IF stdinOf = s THEN NoSession ELSE stdinOf
    /\ stream' = [stream EXCEPT ![s] = "reaping"]
    /\ UNCHANGED <<ctlVars, cur, pcVars, cancelled, reaper, helper>>

(* cmd.Wait: nothing but the end of the process lets it return.            *)
Reap(s) ==
    /\ stream[s] = "reaping" /\ helper[s] = "exited"
    /\ stream' = [stream EXCEPT ![s] = "returned"]
    /\ UNCHANGED <<ctlVars, cur, pcVars, cancelled, reaper, srcVars>>

(* stream returned an error: is it the session's end or the source's?      *)
StreamReturns(s) ==
    /\ stream[s] = "returned"
    /\ stream' = [stream EXCEPT ![s] = IF Cancelled(s) THEN "done" ELSE "reporting"]
    /\ UNCHANGED <<ctlVars, cur, pcVars, cancelled, reaper, srcVars>>

(* send(error), by the closure newSession was given: it may be lost, and   *)
(* the goroutine goes on whatever becomes of it.                           *)
TellViewer(s) ==
    /\ stream[s] = "reporting"
    /\ stream' = [stream EXCEPT ![s] = "ending"]
    /\ UNCHANGED <<ctlVars, cur, pcVars, cancelled, reaper, srcVars>>

StreamEndIf(s) ==
    /\ stream[s] = "ending"
    /\ SwapIf(s)
    /\ stream' = [stream EXCEPT ![s] = IF cur = s THEN "closing" ELSE "done"]
    /\ UNCHANGED <<ctlVars, pcVars, cancelled, reaper, srcVars>>

StreamClose(s) ==
    /\ stream[s] = "closing"
    /\ CloseSession(s)
    /\ stream' = [stream EXCEPT ![s] = "done"]
    /\ UNCHANGED <<ctlVars, cur, pcRest, reaper, srcVars>>

(* exec kills the helper once the context is done ...                      *)
HelperKilled(s) ==
    /\ helper[s] = "running" /\ Cancelled(s)
    /\ helper' = [helper EXCEPT ![s] = "exited"]
    /\ UNCHANGED <<ctlVars, cur, pcVars, cancelled, reaper, stream, stdinOf>>

(* ... and it may die of itself at any time.                               *)
HelperDies(s) ==
    /\ helper[s] = "running"
    /\ helper' = [helper EXCEPT ![s] = "exited"]
    /\ UNCHANGED <<ctlVars, cur, pcVars, cancelled, reaper, stream, stdinOf>>

-----------------------------------------------------------------------------
LoopNext == \/ Dial \/ SocketDrop \/ ReadError \/ HandleReady \/ CloseVictim
            \/ BuildFail \/ BuildPC \/ OfferFail \/ OfferSent \/ Install
            \/ (\E a \in Sessions : HandleAnswer(a)) \/ StopRun \/ Shutdown
PcNext(s) == \/ PcConnects(s) \/ PcFails(s) \/ PcCloses(s)
             \/ OnConnected(s) \/ OnFailed(s) \/ OnClosed(s)
             \/ ReaperEndIf(s) \/ ReaperClose(s)
(* What the streaming goroutine does next when it is left to itself.       *)
StreamStep(s) == \/ StreamGiveUp(s) \/ StreamBegin(s) \/ HelperStart(s)
                 \/ HelperStartFail(s) \/ HookStdin(s) \/ StreamEOF(s)
                 \/ UnhookStdin(s) \/ Reap(s) \/ StreamReturns(s)
                 \/ TellViewer(s) \/ StreamEndIf(s) \/ StreamClose(s)
StreamNext(s) == StreamStep(s) \/ StreamBroken(s) \/ HelperKilled(s) \/ HelperDies(s)

Next == LoopNext \/ \E s \in Sessions : PcNext(s) \/ StreamNext(s)

Spec == Init /\ [][Next]_vars

(***************************************************************************)
(* Goroutines that can go on do.  Nothing is assumed of the network, of    *)
(* the viewer, of the server or of when a helper dies by itself.           *)
(***************************************************************************)
Fairness ==
    /\ WF_vars(CloseVictim) /\ WF_vars(Install) /\ WF_vars(ReadError) /\ WF_vars(StopRun)
    /\ WF_vars(BuildFail \/ BuildPC) /\ WF_vars(OfferFail \/ OfferSent)
    /\ \A s \in Sessions :
          /\ WF_vars(OnConnected(s)) /\ WF_vars(OnFailed(s)) /\ WF_vars(OnClosed(s))
          /\ WF_vars(ReaperEndIf(s)) /\ WF_vars(ReaperClose(s))
          /\ WF_vars(StreamStep(s)) /\ WF_vars(HelperKilled(s))

FairSpec == Spec /\ Fairness
-----------------------------------------------------------------------------
(***************************************************************************)
(* What a session's parts promise each other.                              *)
(***************************************************************************)
(* "the source can only feed one session at a time": the contexts of two   *)
(* sessions that are being streamed are never both alive.                  *)
SingleLive == \A s, t \in Sessions : Live(s) /\ Live(t) => s = t

(* Every session whose peer connection is open or whose context is alive   *)
(* is somebody's to end: it is current, or a goroutine has taken it from   *)
(* the holder and is closing it, or newSession is still making it.  (A     *)
(* leaked one would keep its tracks and its helper until the host exits.)  *)
Unreleased(s) == pc[s] # "none" /\ (pc[s] # "closed" \/ ~cancelled[s])
InCare(s) == \/ cur = s
             \/ victim = s /\ Closing
             \/ built = s /\ Building
             \/ reaper[s] = "closing"
             \/ stream[s] = "closing"
NoOrphan == \A s \in Sessions : Unreleased(s) => InCare(s)

(* A session leaves the holder only for a viewer's new request, for the    *)
(* end of the host, or for its own failure: "a signaling drop must never   *)
(* close it", and neither may the late callback of a session it replaced.  *)
LeavesForCause == \A s \in Sessions : cur = s /\ cur' # s =>
    \/ loop' \in {"ending", "stopping"}
    \/ pc[s] = "failed"
    \/ stream[s] = "ending"
HolderKept == [][LeavesForCause]_vars

(* The session that is streamed keeps its input: "a late teardown must not *)
(* unhook the NEXT session's helper" (source.go:361), however many earlier *)
(* sessions are still winding down.  One thing takes the hook from it: a   *)
(* session that was ended after its helper had been started and before it  *)
(* came to hook it (source.go:354-357, which look at nothing).             *)
HooksLate(t) == stream[t] = "hooking" /\ Cancelled(t)
HookTakenLate == \A s \in Sessions :
    stream[s] = "streaming" /\ Live(s) /\ stdinOf = s /\ stdinOf' # s =>
        \E t \in Sessions \ {s} : HooksLate(t) /\ stdinOf' = t
InputKept == [][HookTakenLate]_vars

(* Whatever ends a session ends all of it: the media path is lost ("THIS   *)
(* is what ends a session"), the viewer closes it, its helper dies and     *)
(* would leave it "connected, silent, showing nothing", the next "ready"   *)
(* replaces it, or the host is stopped.  In the end its peer connection is *)
(* closed, its goroutine has returned and its helper is gone.              *)
EndsOf(s) == pc[s] \in {"failed", "closed"} \/ Cancelled(s) \/ helper[s] = "exited"
Ended(s) == /\ pc[s] \in {"none", "closed"}
            /\ stream[s] \in {"none", "done"} /\ helper[s] # "running"
SessionEnds == \A s \in Sessions : EndsOf(s) ~> Ended(s)

(* The newest session has not been streamed yet and still may be.          *)
Waiting == \E s \in Sessions : s = built /\ ~Cancelled(s) /\ stream[s] \in {"none", "waiting"}
Feeding == {s \in Sessions : Live(s)}

(* The holder, the callbacks and the streaming goroutines together do no   *)
(* more than the abstract feed allows: sessions are fed in the order they  *)
(* are made, each at most once, and the next is not even begun before the  *)
(* last can no longer be fed.                                              *)
Feed == INSTANCE SourceFeed WITH newest <- built, waiting <- Waiting, feeding <- Feeding
ImplementsFeed == Feed!FeedSpec

(***************************************************************************)
(* Why SingleLive and NoOrphan hold: the inductive invariant.  Only the    *)
(* newest session is ever in the holder or being closed out of it, and one *)
(* that newSession has not handed over cannot have connected or failed.    *)
(***************************************************************************)
Unborn(s) == /\ pc[s] = "none" /\ remote[s] = "none" /\ connected[s] = "open"
             /\ ~cancelled[s] /\ reaper[s] = "idle" /\ stream[s] = "none"
             /\ helper[s] = "none"
BornInOrder == \A s \in Sessions : IF s <= built THEN pc[s] # "none" ELSE Unborn(s)

(* set and end keep the holder empty from "ready" until the new session.   *)
HolderInv ==
    /\ cur # NoSession => cur = built /\ loop \in {"dial", "read", "replacing"}
    /\ victim # NoSession => victim = built /\ loop \in {"ending", "stopping"}
    /\ loop \in {"ending", "building"} => built < MaxSession
    /\ Building => built # 0

CurrentInv(s) == /\ \/ reaper[s] = "idle"
                    \/ reaper[s] \in {"due", "pending"} /\ pc[s] = "failed"
                 /\ stream[s] # "closing"
FreshInv(s) == /\ pc[s] = "new" /\ remote[s] = "none" /\ connected[s] = "open"
               /\ ~cancelled[s] /\ reaper[s] = "idle"
               /\ \/ loop = "offering" /\ stream[s] = "none"
                  \/ loop = "installing" /\ stream[s] \in {"waiting", "done"}
EndedInv(s) == /\ reaper[s] \in {"pending", "closing", "done"} => cancelled[s]
               /\ reaper[s] # "idle" => pc[s] \in {"failed", "closed"}
               /\ connected[s] # "open" => pc[s] # "new"
               /\ stream[s] \in InStream => connected[s] = "closed"

(* The inductive invariant itself.                                         *)
SessionInv ==
    /\ TypeOK /\ BornInOrder /\ HolderInv /\ NoOrphan
    /\ \A s \in Sessions :
          /\ cur = s => CurrentInv(s)
          /\ Building /\ built = s => FreshInv(s)
          /\ EndedInv(s)

(***************************************************************************)
(* What the comments say and the code does not do.                         *)
(***************************************************************************)
(* host.go 437-441: a source that dies under a live connection must not be *)
(* left alone: the viewer is told, "then end the session".  A frame loop   *)
(* that breaks off with the helper alive waits for the helper instead.     *)
BrokenStreamEnds == \A s \in Sessions : stream[s] = "cleanup" ~> stream[s] = "done"
=============================================================================
