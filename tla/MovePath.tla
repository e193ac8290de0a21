------------------------------ MODULE MovePath ------------------------------
(***************************************************************************)
(* A mouse move from the browser (web/index.html) to the capture helper's  *)
(* stdin: the unreliable "move" channel and the reliable "input" channel,  *)
(* whose callbacks run in a goroutine each, the moveSeq and the moveSlot   *)
(* they share (internal/host/moveslot.go), and the two writers that empty  *)
(* the slot under wmu, pumpMoves and writeInput (internal/host/source.go). *)
(* Motion is along one axis.  A position is the number of the mouse event  *)
(* it comes from, so a later position is a greater number.  stdin is a     *)
(* FIFO and the injector handles one line after the other: what is written *)
(* is what is injected, in that order.                                     *)
(***************************************************************************)
EXTENDS Integers, FiniteSets, Sequences

CONSTANTS Modes,       \* the modes the user goes through: "game", "desk"
          Deltas,      \* what one mouse event may add to the motion
          MaxDelta,    \* maxDelta: the most one "r" line carries
          MaxEvents,   \* bound: mouse events
          MaxPress,    \* bound: presses in one session
          MaxRelease,  \* bound: how often the user lets go of the Mac
          MaxSession,  \* bound: sessions
          NetCap,      \* how many moves fit the move channel's send buffer
          PipeCap      \* how many lines fit the pipe before a write blocks

ASSUME MoveAssumption ==
    /\ Modes \subseteq {"game", "desk"} /\ Modes # {}
    /\ Deltas \subseteq Int
    /\ MaxDelta \in Nat \ {0}
    /\ MaxEvents \in Nat /\ MaxPress \in Nat /\ MaxRelease \in Nat
    /\ MaxSession \in Nat \ {0}
    /\ NetCap \in Nat \ {0} /\ PipeCap \in Nat \ {0}

VARIABLES
    \* the page
    engaged, mode,             \* the user controls the Mac, in this mode
    session, ch,               \* this session's channels: "closed", only the "input"
                               \* channel announced, or both "open"
    mseq, cum, sent,           \* cumX and sentX
    lastAbs, lastAbsSent,      \* 0 when null
    flush, settle,             \* the modes whose flush or settle timer runs
    events, presses, releases, \* mouse events, presses of this session, releases
    \* the channels
    net,                       \* moves on the move channel
    rel,                       \* messages on the input channel, in order
    \* the host
    qn, qcx,                   \* moveSeq: n and cx
    hold,                      \* what each callback has accepted and not yet put
    click,                     \* the press writeInput was called with
    slot, wake,                \* moveSlot: the pending move, its wake channel
    pump,                      \* pumpMoves is "idle" or has been "woken"
    wmu,                       \* who holds wmu: nobody, "pump" or "input"
    line,                      \* what the holder of wmu has taken and not written
    pipe,                      \* how many lines the helper has not read
    \* what has become of it
    moved,                     \* motion the user has made in this session
    early,                     \* what came before its move channel was announced:
                               \* the user "turned", a sequenced move was "sent"
    written,                   \* motion written to the helper
    dropped,                   \* motion an absolute position has replaced
    cursor,                    \* the last position written
    pressed                    \* presses written

sentVars == <<mseq, sent, lastAbs, lastAbsSent, flush, settle>>
countVars == <<events, presses, releases>>
pageVars == <<engaged, mode, session, ch, cum, sentVars, countVars>>
histVars == <<moved, early>>
chanVars == <<net, rel>>
seqVars  == <<qn, qcx, hold, click>>
slotVars == <<slot, wake>>
outVars  == <<pump, wmu, line, pipe>>
tallyVars == <<written, dropped, cursor, pressed>>
vars == <<pageVars, chanVars, seqVars, slotVars, outVars, tallyVars, histVars>>

Callbacks == {"move", "input"}
(* A move on its way from moveSeq to the helper; None is no move.          *)
None == [t |-> "none", v |-> 0]
Moves == {None} \cup [t : {"m", "r"}, v : Int]
Motion(mv) == IF mv.t = "r" THEN mv.v ELSE 0
(* A sequenced move on the wire: a position or running totals.             *)
Wire == [t : {"m", "c"}, n : Nat, v : Int]
(* A press, which in desktop mode carries its position; "x" lets go of what *)
(* is held.  No press is None.                                             *)
Presses == [t : {"none", "D", "d", "x"}, v : Int]

TypeOK ==
    /\ engaged \in BOOLEAN /\ mode \in Modes
    /\ session \in Nat /\ ch \in {"closed", "input", "open"}
    /\ mseq \in Nat /\ cum \in Int /\ sent \in Int /\ lastAbs \in Nat /\ lastAbsSent \in Nat
    /\ flush \subseteq Modes /\ settle \subseteq Modes
    /\ events \in Nat /\ presses \in Nat /\ releases \in Nat
    /\ net \subseteq Wire /\ rel \in Seq(Wire \cup Presses)
    /\ qn \in Nat /\ qcx \in Int /\ hold \in [Callbacks -> Moves] /\ click \in Presses
    /\ slot \in Moves /\ wake \in BOOLEAN
    /\ pump \in {"idle", "woken"} /\ wmu \in {"free", "pump", "input", "press"}
    /\ line \in Moves /\ pipe \in 0..PipeCap
    /\ moved \in Int /\ early \subseteq {"turned", "sent"} /\ written \in Int /\ dropped \in Int
    /\ cursor \in Int /\ pressed \in Nat

-----------------------------------------------------------------------------
Init ==
    /\ engaged = FALSE /\ mode \in Modes /\ session = 1 /\ ch = "input"
    /\ mseq = 0 /\ cum = 0 /\ sent = 0 /\ lastAbs = 0 /\ lastAbsSent = 0
    /\ flush = {} /\ settle = {}
    /\ events = 0 /\ presses = 0 /\ releases = 0
    /\ net = {} /\ rel = <<>>
    /\ qn = 0 /\ qcx = 0 /\ hold = [g \in Callbacks |-> None] /\ click = None
    /\ slot = None /\ wake = FALSE
    /\ pump = "idle" /\ wmu = "free" /\ line = None /\ pipe = 0
    /\ moved = 0 /\ early = {}
    /\ written = 0 /\ dropped = 0 /\ cursor = 0 /\ pressed = 0

(***************************************************************************)
(* The page.  Its listeners are bound when the first input channel is      *)
(* announced, and stay; its variables outlive the sessions.                *)
(***************************************************************************)
hostVars == <<seqVars, slotVars, outVars, tallyVars>>

(* send: what is not sent on an open input channel is gone.                *)
SendInput(msgs) ==
    /\ rel' = IF ch = "closed" THEN rel ELSE rel \o msgs
    /\ early' = IF ch = "input" /\ (\E i \in DOMAIN msgs : msgs[i].t \in {"m", "c"})
                THEN early \cup {"sent"} ELSE early

(* The stream is lost.  The next session's host state is new; the page     *)
(* keeps its own variables, and its timers run on.                         *)
StreamEnds ==
    /\ ch # "closed" /\ session < MaxSession
    /\ session' = session + 1 /\ ch' = "closed"
    /\ net' = {} /\ rel' = <<>>
    /\ qn' = 0 /\ qcx' = 0 /\ hold' = [g \in Callbacks |-> None] /\ click' = None
    /\ slot' = None /\ wake' = FALSE
    /\ pump' = "idle" /\ wmu' = "free" /\ line' = None /\ pipe' = 0
    /\ presses' = 0 /\ moved' = 0 /\ early' = {}
    /\ written' = 0 /\ dropped' = 0 /\ cursor' = 0 /\ pressed' = 0
    /\ UNCHANGED <<engaged, mode, cum, sentVars, events, releases>>

(* ondatachannel "input": the host makes this channel first.               *)
AnnounceInput ==
    /\ ch = "closed"
    /\ ch' = "input"
    /\ UNCHANGED <<engaged, mode, session, cum, sentVars, countVars, chanVars, hostVars, histVars>>

(* Mutant: only the sequence restarts.                                     *)
AnnounceKeepsTotals ==
    /\ ch = "input"
    /\ ch' = "open" /\ mseq' = 0
    /\ UNCHANGED <<engaged, mode, session, cum, sent, lastAbs, lastAbsSent, flush, settle,
                   countVars, chanVars, hostVars, histVars>>

(* ondatachannel "move": the sequence and the totals restart.              *)
AnnounceMove ==
    /\ ch = "input"
    /\ ch' = "open" /\ mseq' = 0 /\ cum' = 0 /\ sent' = 0
    /\ UNCHANGED <<engaged, mode, session, lastAbs, lastAbsSent, flush, settle, countVars,
                   chanVars, hostVars, histVars>>

(* A click on the video takes control; Esc, a lost focus or pointer lock   *)
(* gives it up; G switches the mode while the user has no control.         *)
Engage ==
    /\ ~engaged
    /\ engaged' = TRUE
    /\ UNCHANGED <<mode, session, ch, cum, sentVars, countVars, chanVars, hostVars, histVars>>

Release ==
    /\ engaged /\ releases < MaxRelease
    /\ engaged' = FALSE /\ releases' = releases + 1
    /\ SendInput(<<[t |-> "x", v |-> 0]>>)
    /\ UNCHANGED <<mode, session, ch, cum, sentVars, events, presses, net, hostVars, moved>>

SwitchMode ==
    /\ ~engaged
    /\ mode' \in Modes \ {mode}
    /\ UNCHANGED <<engaged, session, ch, cum, sentVars, countVars, chanVars, hostVars, histVars>>

(* A mouse event's number, for positions.                                  *)
Now == events + 1

(* addDelta: the flush runs at once or by its timer, here by the timer.    *)
(* Motion that no session can be told of is not counted.                   *)
MouseMotion(d) ==
    /\ engaged /\ mode = "game" /\ events < MaxEvents
    /\ cum' = cum + d /\ moved' = IF ch = "closed" THEN moved ELSE moved + d
    /\ early' = IF ch = "input" THEN early \cup {"turned"} ELSE early
    /\ flush' = flush \cup {"game"} /\ settle' = settle \cup {"game"}
    /\ events' = events + 1
    /\ UNCHANGED <<engaged, mode, session, ch, mseq, sent, lastAbs, lastAbsSent, presses,
                   releases, chanVars, hostVars>>

(* mousemove in desktop mode.                                              *)
MousePoint ==
    /\ engaged /\ mode = "desk" /\ events < MaxEvents
    /\ lastAbs' = Now
    /\ flush' = flush \cup {"desk"} /\ settle' = settle \cup {"desk"}
    /\ events' = events + 1
    /\ UNCHANGED <<engaged, mode, session, ch, cum, mseq, sent, lastAbsSent, presses,
                   releases, chanVars, hostVars, histVars>>

(* flushRel and flushAbs: what is not sent yet goes out by sendMove, on    *)
(* the move channel, or by send while that is not open.  Nothing goes out  *)
(* while the move channel is congested (the sequence number that uses up   *)
(* is a gap nobody sees), and what a user without control leaves behind,   *)
(* or send loses, counts as sent.                                          *)
Unsent(m) == IF m = "game" THEN cum # sent ELSE lastAbs # 0
Congested == engaged /\ ch = "open" /\ Cardinality(net) >= NetCap
Flushes(m) == Unsent(m) /\ ~Congested
FlushMsg(m) == IF m = "game" THEN [t |-> "c", n |-> mseq + 1, v |-> cum]
                             ELSE [t |-> "m", n |-> mseq + 1, v |-> lastAbs]
OnMove(m) == IF Flushes(m) /\ engaged /\ ch = "open" THEN {FlushMsg(m)} ELSE {}
OnInput(m) == IF Flushes(m) /\ engaged /\ ch # "open" THEN <<FlushMsg(m)>> ELSE <<>>
SeqAfter(m) == IF Flushes(m) THEN mseq + 1 ELSE mseq

Flush(m) ==
    /\ net' = net \cup OnMove(m)
    /\ sent' = IF m = "game" /\ Flushes(m) THEN cum ELSE sent
    /\ lastAbsSent' = IF m = "desk" /\ Flushes(m) THEN lastAbs ELSE lastAbsSent
    /\ lastAbs' = IF m = "desk" /\ Flushes(m) THEN 0 ELSE lastAbs
    /\ flush' = IF Unsent(m) /\ Congested THEN flush \cup {m} ELSE flush \ {m}

FlushTimer(m) ==
    /\ m \in flush /\ ~(Unsent(m) /\ Congested)
    /\ Flush(m)
    /\ mseq' = SeqAfter(m)
    /\ SendInput(OnInput(m))
    /\ UNCHANGED <<engaged, mode, session, ch, cum, settle, countVars, hostVars, moved>>

(* settleRel and settleAbs: the latest state once more, reliably, 60 ms    *)
(* after the last motion.  The flush of that motion is due after 4 or 8 ms *)
(* and timers run in the order they are due: one that is still pending has *)
(* been put off by congestion, and so has used a number before.            *)
SettleMsg(m, n) == IF m = "game" THEN [t |-> "c", n |-> n, v |-> cum]
                                 ELSE [t |-> "m", n |-> n, v |-> lastAbsSent]

(* Mutant: only what no flush has sent is sent again.                      *)
SettleOnlyUnsent(m) ==
    /\ m \in settle /\ (m \in flush => mseq > 0)
    /\ settle' = settle \ {m}
    /\ IF engaged /\ Unsent(m)
       THEN mseq' = mseq + 1 /\ SendInput(<<SettleMsg(m, mseq + 1)>>)
       ELSE UNCHANGED <<mseq, rel, early>>
    /\ UNCHANGED <<engaged, mode, session, ch, cum, sent, lastAbs, lastAbsSent, flush,
                   countVars, net, hostVars, moved>>

SettleTimer(m) ==
    /\ m \in settle /\ (m \in flush => mseq > 0)
    /\ settle' = settle \ {m}
    /\ IF engaged /\ ((m = "game" /\ mseq > 0) \/ (m = "desk" /\ lastAbsSent # 0))
       THEN mseq' = mseq + 1 /\ SendInput(<<SettleMsg(m, mseq + 1)>>)
       ELSE UNCHANGED <<mseq, rel, early>>
    /\ UNCHANGED <<engaged, mode, session, ch, cum, sent, lastAbs, lastAbsSent, flush,
                   countVars, net, hostVars, moved>>

(* mousedown: flush; in game mode the totals once more on the input        *)
(* channel; then the press, which in desktop mode carries its position.    *)
Press ==
    /\ engaged /\ events < MaxEvents /\ presses < MaxPress
    /\ events' = events + 1
    /\ presses' = IF ch = "closed" THEN presses ELSE presses + 1
    /\ Flush(mode)
    /\ LET n == SeqAfter(mode)
           again == mode = "game" /\ n > 0
       IN /\ mseq' = IF again THEN n + 1 ELSE n
          /\ SendInput(OnInput(mode)
                        \o (IF again THEN <<SettleMsg("game", n + 1)>> ELSE <<>>)
                        \o <<IF mode = "game" THEN [t |-> "D", v |-> 0]
                                             ELSE [t |-> "d", v |-> Now]>>)
    /\ UNCHANGED <<engaged, mode, session, ch, cum, settle, releases, hostVars, moved>>

Lose(m) ==
    /\ m \in net
    /\ net' = net \ {m}
    /\ UNCHANGED <<pageVars, rel, hostVars, histVars>>

(***************************************************************************)
(* The two callbacks.  accept and put are two calls: each takes its own    *)
(* lock, and the other callback may run in between.                        *)
(***************************************************************************)
(* moveSeq.accept in callback g: the move to inject, or nothing if stale.  *)
Accept(g, m) ==
    /\ hold' = [hold EXCEPT ![g] =
          IF m.n <= qn THEN None
          ELSE IF m.t = "m" THEN [t |-> "m", v |-> m.v]
          ELSE IF m.v = qcx THEN None ELSE [t |-> "r", v |-> m.v - qcx]]
    /\ qn' = IF m.n > qn THEN m.n ELSE qn
    /\ qcx' = IF m.n > qn /\ m.t = "c" THEN m.v ELSE qcx

RecvMove(m) ==
    /\ m \in net /\ hold["move"] = None
    /\ net' = net \ {m}
    /\ Accept("move", m)
    /\ UNCHANGED <<pageVars, rel, click, slotVars, outVars, tallyVars, histVars>>

RecvInput ==
    /\ rel # <<>> /\ hold["input"] = None /\ click = None
    /\ rel' = Tail(rel)
    /\ IF Head(rel).t \in {"m", "c"}
       THEN Accept("input", Head(rel)) /\ UNCHANGED click
       ELSE click' = Head(rel) /\ UNCHANGED <<qn, qcx, hold>>
    /\ UNCHANGED <<pageVars, net, slotVars, outVars, tallyVars, histVars>>

(* Mutant: the latest move wins, whatever is pending.                      *)
PutLatestWins(g) ==
    /\ hold[g] # None
    /\ slot' = hold[g]
    /\ dropped' = IF hold[g].t = "m" THEN dropped + Motion(slot) ELSE dropped
    /\ hold' = [hold EXCEPT ![g] = None]
    /\ wake' = TRUE
    /\ UNCHANGED <<pageVars, chanVars, qn, qcx, click, outVars, written, cursor, pressed, histVars>>

(* writeMove: moveSlot.put, which also wakes the pump.                     *)
Put(g) ==
    /\ hold[g] # None
    /\ slot' = IF slot.t = "r" /\ hold[g].t = "r" THEN [t |-> "r", v |-> slot.v + hold[g].v]
                                                  ELSE hold[g]
    /\ dropped' = IF hold[g].t = "m" THEN dropped + Motion(slot) ELSE dropped
    /\ hold' = [hold EXCEPT ![g] = None]
    /\ wake' = TRUE
    /\ UNCHANGED <<pageVars, chanVars, qn, qcx, click, outVars, written, cursor, pressed, histVars>>

(***************************************************************************)
(* The two writers.                                                        *)
(***************************************************************************)
PumpWake ==
    /\ pump = "idle" /\ wake
    /\ pump' = "woken" /\ wake' = FALSE
    /\ UNCHANGED <<pageVars, chanVars, seqVars, slot, wmu, line, pipe, tallyVars, histVars>>

(* wmu.Lock, by the pump once woken and by writeInput for its press.       *)
Lock(w) ==
    /\ wmu = "free"
    /\ IF w = "pump" THEN pump = "woken" ELSE click # None
    /\ wmu' = w
    /\ UNCHANGED <<pageVars, chanVars, seqVars, slotVars, pump, line, pipe, tallyVars, histVars>>

(* moveSlot.take: an oversized delta leaves in pieces of maxDelta.         *)
Clamp(d) == IF d > MaxDelta THEN MaxDelta ELSE IF d < -MaxDelta THEN -MaxDelta ELSE d

Take ==
    /\ wmu \in {"pump", "input"} /\ line = None /\ slot # None
    /\ IF slot.t = "r" /\ Clamp(slot.v) # slot.v
       THEN /\ line' = [t |-> "r", v |-> Clamp(slot.v)]
            /\ slot' = [t |-> "r", v |-> slot.v - Clamp(slot.v)]
       ELSE line' = slot /\ slot' = None
    /\ UNCHANGED <<pageVars, chanVars, seqVars, wake, pump, wmu, pipe, tallyVars, histVars>>

(* Mutant: the write does not wait for room in the pipe.                   *)
WriteNeverBlocks ==
    /\ line # None
    /\ written' = written + Motion(line)
    /\ cursor' = IF line.t = "m" THEN line.v ELSE cursor
    /\ line' = None /\ pipe' = pipe + 1
    /\ UNCHANGED <<pageVars, chanVars, seqVars, slotVars, pump, wmu, dropped, pressed, histVars>>

(* w.Write of what was taken; it blocks while the pipe is full.            *)
WriteMove ==
    /\ line # None /\ pipe < PipeCap
    /\ written' = written + Motion(line)
    /\ cursor' = IF line.t = "m" THEN line.v ELSE cursor
    /\ line' = None /\ pipe' = pipe + 1
    /\ UNCHANGED <<pageVars, chanVars, seqVars, slotVars, pump, wmu, dropped, pressed, histVars>>

(* Mutant: the pump goes back to sleep without the unlock.                 *)
PumpKeepsLock ==
    /\ wmu = "pump" /\ line = None /\ slot = None /\ pump = "woken"
    /\ pump' = "idle"
    /\ UNCHANGED <<pageVars, chanVars, seqVars, slotVars, wmu, line, pipe, tallyVars, histVars>>

(* The slot is empty: the pump goes back to sleep ...                      *)
PumpDone ==
    /\ wmu = "pump" /\ line = None /\ slot = None
    /\ wmu' = "free" /\ pump' = "idle"
    /\ UNCHANGED <<pageVars, chanVars, seqVars, slotVars, line, pipe, tallyVars, histVars>>

(* ... and writeInput goes on to its own line, which it writes whatever is *)
(* put into the slot by then.                                              *)
Drained ==
    /\ wmu = "input" /\ line = None /\ slot = None
    /\ wmu' = "press"
    /\ UNCHANGED <<pageVars, chanVars, seqVars, slotVars, pump, line, pipe, tallyVars, histVars>>

WritePress ==
    /\ wmu = "press" /\ pipe < PipeCap
    /\ cursor' = IF click.t = "d" THEN click.v ELSE cursor
    /\ pressed' = IF click.t = "x" THEN pressed ELSE pressed + 1
    /\ click' = None /\ wmu' = "free" /\ pipe' = pipe + 1
    /\ UNCHANGED <<pageVars, chanVars, qn, qcx, hold, slotVars, pump, line, written,
                   dropped, histVars>>

(* The helper reads a line.                                                *)
HelperReads ==
    /\ pipe > 0
    /\ pipe' = pipe - 1
    /\ UNCHANGED <<pageVars, chanVars, seqVars, slotVars, pump, wmu, line, tallyVars, histVars>>

-----------------------------------------------------------------------------
User == \/ \E d \in Deltas : MouseMotion(d)
        \/ MousePoint \/ Engage \/ Release \/ SwitchMode \/ Press \/ StreamEnds
Timers == AnnounceInput \/ AnnounceMove \/ \E m \in Modes : FlushTimer(m) \/ SettleTimer(m)
Network == \E m \in net : RecvMove(m) \/ Lose(m)
Host == \/ RecvInput \/ (\E g \in Callbacks : Put(g))
        \/ PumpWake \/ (\E w \in {"pump", "input"} : Lock(w))
        \/ Take \/ WriteMove \/ PumpDone \/ Drained \/ WritePress
        \/ HelperReads

Next == User \/ Timers \/ Network \/ Host

Spec == Init /\ [][Next]_vars
(***************************************************************************)
(* The page's timers fire, the input channel is reliable, goroutines that  *)
(* can go on do and the helper keeps reading.  Nothing is assumed of the   *)
(* user, and nothing of the move channel: it may lose everything.          *)
(***************************************************************************)
Fairness ==
    /\ \A m \in Modes : WF_vars(FlushTimer(m)) /\ WF_vars(SettleTimer(m))
    /\ WF_vars(RecvInput) /\ \A g \in Callbacks : WF_vars(Put(g))
    /\ WF_vars(PumpWake) /\ \A w \in {"pump", "input"} : WF_vars(Lock(w))
    /\ WF_vars(Take) /\ WF_vars(WriteMove) /\ WF_vars(PumpDone)
    /\ WF_vars(Drained) /\ WF_vars(WritePress) /\ WF_vars(HelperReads)

FairSpec == Spec /\ Fairness

-----------------------------------------------------------------------------
(* "Sum deltas so no motion is lost", "a lost packet's motion arrives with *)
(* the next one instead of vanishing", and an oversized delta leaves in    *)
(* pieces: the motion accepted so far is all either written, or in the     *)
(* hands of one goroutine or the slot, or replaced by an absolute move.    *)
Pending == Motion(line) + Motion(slot) + Motion(hold["move"]) + Motion(hold["input"])
MotionConserved == written + Pending + dropped = qcx

(* No line the helper is sent exceeds what one line may carry.             *)
LinesClamped == Motion(line) \in -MaxDelta..MaxDelta

(* The Mac is never turned further than the user has turned the mouse in   *)
(* this session, if no sequenced move was sent before the session's move   *)
(* channel had been announced (the user only turns one way here).          *)
NoPhantomMotion ==
    Deltas \subseteq Nat /\ "sent" \notin early => written + dropped <= moved

(* "even a lost LAST packet cannot leave the camera short": whatever the   *)
(* move channel loses or reorders, all motion reaches the helper, unless   *)
(* the user lets go of the Mac in between, or turns or has something sent  *)
(* before the session's move channel is announced.                         *)
MotionArrives == <>[](releases = 0 /\ early = {} => written + dropped = moved)

(* Every press of a session reaches its helper, however far the injector   *)
(* is behind.                                                              *)
PressesArrive == <>[](pressed = presses)

(***************************************************************************)
(* What the comments say and the code does not do.                         *)
(***************************************************************************)
(* moveslot.go 54: "a late old position must never yank the cursor back".  *)
CursorNeverYankedBack ==
    [][session' = session /\ pressed' = pressed => cursor' >= cursor]_vars

(* moveslot.go 60, and index.html 134-137: "the browser restarts N and the *)
(* totals on every new move channel", so that a session's totals are its   *)
(* own.  Between the announcements of its two channels they are not.       *)
TotalsPerSession == Deltas \subseteq Nat => written + dropped <= moved
=============================================================================
