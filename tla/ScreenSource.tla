---------------------------- MODULE ScreenSource ----------------------------
(***************************************************************************)
(* What is written to the helpers' stdin while sessions follow each other  *)
(* (internal/host/source.go: writeInput, requestKeyframe, pumpMoves and    *)
(* the hooks of stream; lowlatency.go: readRTCPForKeyframes).  The handle, *)
(* the pending moves and the write lock belong to the one screenSource;    *)
(* each session has a helper, a pump, an input callback and a keyframe     *)
(* goroutine of its own, and those of the last session may still be at it. *)
(***************************************************************************)
EXTENDS Integers

CONSTANTS MaxSession,  \* bound: sessions
          MaxInput     \* bound: moves, other input and keyframe requests that arrive

ASSUME SourceAssumption ==
    MaxSession \in Nat \ {0} /\ MaxInput \in Nat

Sessions == 1..MaxSession
None == 0
Threads == {"pump", "input", "kf"} \X Sessions
NoThread == <<"none", None>>

VARIABLES
    stage,      \* where each session's stream() is
    cancelled,  \* its context
    alive,      \* its helper runs
    stdin,      \* the session whose helper is hooked
    slot,       \* moves: the sessions whose motion is pending
    wake,       \* the wake channel holds one
    lock,       \* who holds wmu
    at, to,     \* where each thread is, and the pipe it has captured
    moving,     \* the motion each thread has taken and is writing
    kick,       \* the kick channel of each session holds one
    \* history
    got,        \* how many of those have arrived
    late,       \* sessions whose callback put a move when they were cancelled
    leaked,     \* <<f, t>>: motion of f was written to a later session's helper, of t
    wanted      \* sessions that wait for the keyframe they asked for

streamVars == <<stage, cancelled, alive, stdin>>
writeVars == <<lock, at, to, moving, leaked, wanted>>
moveVars == <<slot, wake, got, late>>
vars == <<streamVars, writeVars, moveVars, kick>>

TypeOK ==
    /\ stage \in [Sessions -> {"none", "started", "cleared", "hooked", "unhooked", "ended"}]
    /\ cancelled \in [Sessions -> BOOLEAN] /\ alive \in [Sessions -> BOOLEAN]
    /\ stdin \in 0..MaxSession /\ (stdin # None => stage[stdin] = "hooked")
    /\ slot \subseteq Sessions /\ wake \in BOOLEAN /\ lock \in Threads \cup {NoThread}
    /\ at \in [Threads -> {"idle", "locking", "moving", "line", "done"}]
    /\ to \in [Threads -> 0..MaxSession]
    /\ moving \in [Threads -> SUBSET Sessions]
    /\ kick \in [Sessions -> BOOLEAN]
    /\ got \in 0..MaxInput /\ late \subseteq Sessions /\ wanted \subseteq Sessions
    /\ leaked \subseteq Sessions \X Sessions

Init ==
    /\ stage = [s \in Sessions |-> "none"]
    /\ cancelled = [s \in Sessions |-> FALSE] /\ alive = [s \in Sessions |-> FALSE]
    /\ stdin = None /\ slot = {} /\ wake = FALSE /\ lock = NoThread
    /\ at = [t \in Threads |-> IF t[1] = "pump" THEN "done" ELSE "idle"]
    /\ to = [t \in Threads |-> None] /\ moving = [t \in Threads |-> {}]
    /\ kick = [s \in Sessions |-> FALSE]
    /\ got = 0 /\ late = {} /\ leaked = {} /\ wanted = {}

(* The session has begun, and is not over.                                 *)
Begun(s) == s > 1 => cancelled[s - 1]
Open(s) == Begun(s) /\ ~cancelled[s]

-----------------------------------------------------------------------------
(* stream(): the helper starts, what is pending is cleared, stdin hooked.  *)
Start(s) ==
    /\ stage[s] = "none" /\ Open(s)
    /\ stage' = [stage EXCEPT ![s] = "started"]
    /\ alive' = [alive EXCEPT ![s] = TRUE]
    /\ UNCHANGED <<cancelled, stdin, writeVars, moveVars, kick>>

(* Mutant: what is pending stays.                                          *)
ClearNothing(s) ==
    /\ stage[s] = "started"
    /\ stage' = [stage EXCEPT ![s] = "cleared"]
    /\ UNCHANGED <<cancelled, alive, stdin, writeVars, moveVars, kick>>

Clear(s) ==
    /\ stage[s] = "started"
    /\ stage' = [stage EXCEPT ![s] = "cleared"]
    /\ slot' = {}
    /\ UNCHANGED <<cancelled, alive, stdin, writeVars, wake, got, late, kick>>

Hook(s) ==
    /\ stage[s] = "cleared"
    /\ stage' = [stage EXCEPT ![s] = "hooked"]
    /\ stdin' = s
    /\ at' = [at EXCEPT ![<<"pump", s>>] = "idle"]
    /\ UNCHANGED <<cancelled, alive, lock, to, moving, leaked, wanted, moveVars, kick>>

(* Mutant: the handle stays when its session has torn down.                *)
UnhookNothing(s) ==
    /\ stage[s] = "hooked"
    /\ stage' = [stage EXCEPT ![s] = "unhooked"]
    /\ UNCHANGED <<cancelled, alive, stdin, writeVars, moveVars, kick>>

(* The frame loop has ended, with the helper or before it; only its own    *)
(* stdin is unhooked, and then closed.                                     *)
Unhook(s) ==
    /\ stage[s] = "hooked"
    /\ stage' = [stage EXCEPT ![s] = "unhooked"]
    /\ stdin' = IF stdin = s THEN None ELSE stdin
    /\ UNCHANGED <<cancelled, alive, writeVars, moveVars, kick>>

CloseStdin(s) ==
    /\ stage[s] = "unhooked"
    /\ stage' = [stage EXCEPT ![s] = "ended"]
    /\ UNCHANGED <<cancelled, alive, stdin, writeVars, moveVars, kick>>

(* The session is over; its helper is killed, or has died by itself.       *)
Cancel(s) ==
    /\ Open(s) /\ cancelled' = [cancelled EXCEPT ![s] = TRUE]
    /\ UNCHANGED <<stage, alive, stdin, writeVars, moveVars, kick>>

HelperGone(s) ==
    /\ alive[s] /\ alive' = [alive EXCEPT ![s] = FALSE]
    /\ UNCHANGED <<stage, cancelled, stdin, writeVars, moveVars, kick>>

-----------------------------------------------------------------------------
(* writeMove, in the callback of a session's channel.  A session's         *)
(* callbacks and its RTCP reader may still run when it has been cancelled: *)
(* its peer connection is closed only then.                                *)
MoveArrives(s) ==
    /\ Begun(s) /\ got < MaxInput /\ got' = got + 1
    /\ late' = IF cancelled[s] THEN late \cup {s} ELSE late
    /\ slot' = slot \cup {s} /\ wake' = TRUE
    /\ UNCHANGED <<streamVars, writeVars, kick>>

(* writeInput looks at stdin under one lock and writes under another.      *)
Capture(t) ==
    /\ at' = [at EXCEPT ![t] = IF stdin = None THEN "idle" ELSE "locking"]
    /\ to' = [to EXCEPT ![t] = stdin]
    /\ UNCHANGED <<lock, moving, leaked, wanted>>

InputArrives(s) ==
    /\ at[<<"input", s>>] = "idle" /\ Begun(s) /\ Capture(<<"input", s>>)
    /\ got < MaxInput /\ got' = got + 1
    /\ UNCHANGED <<streamVars, slot, wake, late, kick>>

(* Mutant: an unbuffered kick is lost while the goroutine is writing.      *)
RequestUnbuffered(s) ==
    /\ Begun(s) /\ got < MaxInput /\ got' = got + 1
    /\ kick' = [kick EXCEPT ![s] = @ \/ at[<<"kf", s>>] = "idle"]
    /\ wanted' = IF stdin = s THEN wanted \cup {s} ELSE wanted
    /\ UNCHANGED <<streamVars, lock, at, to, moving, leaked, slot, wake, late>>

(* The RTCP reader honours a request for a keyframe: it leaves a kick and  *)
(* never waits for the goroutine that writes.  That one is not honoured    *)
(* within keyframeMinGap of another is left to the environment.  Before    *)
(* the helper is hooked the request may be dropped: the stream starts with *)
(* a keyframe.                                                             *)
RequestArrives(s) ==
    /\ Begun(s) /\ got < MaxInput /\ got' = got + 1
    /\ kick' = [kick EXCEPT ![s] = TRUE]
    /\ wanted' = IF stdin = s THEN wanted \cup {s} ELSE wanted
    /\ UNCHANGED <<streamVars, lock, at, to, moving, leaked, slot, wake, late>>

KickTaken(s) ==
    /\ at[<<"kf", s>>] = "idle" /\ kick[s] /\ Capture(<<"kf", s>>)
    /\ kick' = [kick EXCEPT ![s] = FALSE]
    /\ UNCHANGED <<streamVars, moveVars>>

(* A pump that is called off while a wake is there may take the wake.      *)
PumpWakes(s) ==
    /\ at[<<"pump", s>>] = "idle" /\ wake
    /\ wake' = FALSE
    /\ at' = [at EXCEPT ![<<"pump", s>>] = "locking"] /\ to' = [to EXCEPT ![<<"pump", s>>] = s]
    /\ UNCHANGED <<streamVars, lock, moving, leaked, wanted, slot, got, late, kick>>

PumpEnds(s) ==
    /\ at[<<"pump", s>>] = "idle" /\ cancelled[s]
    /\ at' = [at EXCEPT ![<<"pump", s>>] = "done"]
    /\ UNCHANGED <<streamVars, lock, to, moving, leaked, wanted, moveVars, kick>>

(* A thread returns: from writeInput, or to the head of the pump's loop.   *)
Return(t) ==
    /\ lock' = NoThread
    /\ at' = [at EXCEPT ![t] = "idle"] /\ to' = [to EXCEPT ![t] = None]
    /\ moving' = [moving EXCEPT ![t] = {}]

(* The loop of take under wmu, shared by writeInput and pumpMoves.  What   *)
(* is pending is written before the thread's own line, if it has one.      *)
Take(t) ==
    IF slot # {}
    THEN /\ moving' = [moving EXCEPT ![t] = slot] /\ slot' = {}
         /\ lock' = t /\ at' = [at EXCEPT ![t] = "moving"] /\ UNCHANGED to
    ELSE /\ UNCHANGED slot
         /\ IF t[1] = "pump"
            THEN Return(t)
            ELSE /\ lock' = t /\ at' = [at EXCEPT ![t] = "line"]
                 /\ moving' = [moving EXCEPT ![t] = {}] /\ UNCHANGED to

Locks(t) ==
    /\ at[t] = "locking" /\ lock = NoThread
    /\ Take(t)
    /\ UNCHANGED <<streamVars, leaked, wanted, wake, got, late, kick>>

(* A write ends when the helper reads, or fails once it has gone or the    *)
(* pipe is closed: a full pipe is a write that has not ended.              *)
Dead(p) == ~alive[p] \/ stage[p] = "ended"

(* Mutant: the pump leaves without the lock's release.                     *)
WriteMoveKeepsLock(t) ==
    /\ at[t] = "moving"
    /\ leaked' = leaked
    /\ at' = [at EXCEPT ![t] = IF t[1] = "pump" THEN "idle" ELSE "line"]
    /\ moving' = [moving EXCEPT ![t] = {}]
    /\ UNCHANGED <<streamVars, lock, to, wanted, moveVars, kick>>

WriteMove(t) ==
    /\ at[t] = "moving"
    /\ leaked' = IF Dead(to[t]) THEN leaked
                 ELSE leaked \cup {<<f, to[t]>> : f \in {f \in moving[t] : f < to[t]}}
    /\ Take(t)
    /\ UNCHANGED <<streamVars, wanted, wake, got, late, kick>>

WriteLine(t) ==
    /\ at[t] = "line"
    /\ wanted' = IF t[1] = "kf" /\ ~Dead(to[t]) THEN wanted \ {to[t]} ELSE wanted
    /\ Return(t)
    /\ UNCHANGED <<streamVars, leaked, moveVars, kick>>

ThreadStep(t) == Locks(t) \/ WriteMove(t) \/ WriteLine(t)
StreamStep(s) == Clear(s) \/ Hook(s) \/ Unhook(s) \/ CloseStdin(s)
Next ==
    \/ \E s \in Sessions :
        \/ Start(s) \/ StreamStep(s) \/ Cancel(s) \/ HelperGone(s)
        \/ MoveArrives(s) \/ InputArrives(s) \/ RequestArrives(s)
        \/ KickTaken(s) \/ PumpWakes(s) \/ PumpEnds(s)
    \/ \E t \in Threads : ThreadStep(t)

Spec == Init /\ [][Next]_vars
(* The write lock is fair to those who wait for it, and the helpers read.  *)
FairSpec ==
    /\ Spec
    /\ \A s \in Sessions : WF_vars(KickTaken(s)) /\ SF_vars(Locks(<<"kf", s>>))
    /\ \A t \in Threads : WF_vars(ThreadStep(t))

-----------------------------------------------------------------------------
(* A move left over from an earlier session does not reach a later one's   *)
(* helper, unless its callback was still running when its session had been *)
(* cancelled (source.go:354).                                              *)
NoLeftover ==
    \A f, t \in Sessions : <<f, t>> \in leaked /\ f < t => f \in late

(* The write lock is never kept for good: a pump, a click or a keyframe    *)
(* request of one session does not wait for ever for another's, whichever  *)
(* of their helpers has gone (source.go:287).                              *)
WritersReturn == lock # NoThread ~> lock = NoThread

(* A request for a keyframe that is honoured becomes a line for the        *)
(* session's helper while that is hooked and alive; the requests dropped   *)
(* meanwhile are covered by it (lowlatency.go:115).                        *)
KeyframeComes ==
    \A s \in Sessions :
        (s \in wanted /\ stdin = s) ~> (s \notin wanted \/ stdin # s \/ ~alive[s])
=============================================================================
