------------------------- MODULE ScreenSource_proofs -------------------------
(***************************************************************************)
(* Proofs about what is written to the helpers' stdin: for every number of *)
(* sessions and inputs, motion of one session reaches the helper of a      *)
(* later one only through a callback that outlived its session.            *)
(***************************************************************************)
EXTENDS ScreenSource, TLAPS

(* A session begins, and is called off, only when all before it are over.  *)
Ordered ==
    \A f, t \in Sessions :
        f < t /\ (cancelled[t] \/ stage[t] # "none") => cancelled[f]

(* Once a session has cleared what is pending, only late callbacks of      *)
(* earlier sessions add to it.                                             *)
SlotInv ==
    \A f \in slot, t \in Sessions :
        f < t /\ stage[t] \in {"cleared", "hooked", "unhooked", "ended"} => f \in late

(* A thread writes to the pipe of a session that has been hooked.          *)
CapturedInv ==
    /\ \A t \in Threads : to[t] # None => stage[to[t]] \in {"hooked", "unhooked", "ended"}
    /\ \A s \in Sessions : at[<<"pump", s>>] # "done" => stage[s] \in {"hooked", "unhooked", "ended"}

(* What a thread is writing was pending when the lock was its own.         *)
MovingInv ==
    \A t \in Threads :
        /\ at[t] # "moving" => moving[t] = {}
        /\ \A f \in moving[t] : f < to[t] => f \in late

SourceInv == TypeOK /\ Ordered /\ SlotInv /\ CapturedInv /\ MovingInv /\ NoLeftover

LEMMA SessionFacts ==
    /\ MaxSession \in Nat /\ Sessions \subseteq Nat /\ None \notin Sessions
    /\ \A s \in 0..MaxSession : s # None => s \in Sessions
    /\ \A s \in Sessions : s - 1 # 0 => s - 1 \in Sessions
    /\ \A s \in Sessions : s \in 0..MaxSession
    /\ None \in 0..MaxSession
BY SourceAssumption DEF Sessions, None

ThreadStates == {"idle", "locking", "moving", "line", "done"}

(* The three threads of a session, and whose they are.                     *)
LEMMA ThreadFacts ==
    /\ \A s \in Sessions : <<"pump", s>> \in Threads /\ <<"input", s>> \in Threads
                           /\ <<"kf", s>> \in Threads
BY DEF Threads

(* No session has begun.                                                   *)
LEMMA SourceInit == Init => SourceInv
<1> SUFFICES ASSUME Init PROVE SourceInv
    OBVIOUS
<1> USE SessionFacts, SourceAssumption DEF Init
<1>0. /\ at \in [Threads -> {"idle", "locking", "moving", "line", "done"}]
      /\ to \in [Threads -> 0..MaxSession] /\ moving \in [Threads -> SUBSET Sessions]
    OBVIOUS
<1>b. /\ cancelled \in [Sessions -> BOOLEAN] /\ alive \in [Sessions -> BOOLEAN]
      /\ kick \in [Sessions -> BOOLEAN] /\ wake \in BOOLEAN
    BY Zenon
<1>1. TypeOK
    BY <1>0, <1>b DEF TypeOK
<1>2. Ordered /\ SlotInv
    BY DEF Ordered, SlotInv
<1>3. CapturedInv
    BY DEF CapturedInv, Threads
<1>4. MovingInv /\ NoLeftover
    BY DEF MovingInv, NoLeftover
<1> QED
    BY <1>1, <1>2, <1>3, <1>4 DEF SourceInv

(* A session that is open comes after sessions that are all over.          *)
LEMMA OpenOrder ==
    ASSUME SourceInv, NEW s \in Sessions, Open(s)
    PROVE  \A f \in Sessions : f < s => cancelled[f]
<1> SUFFICES ASSUME NEW f \in Sessions, f < s PROVE cancelled[f]
    OBVIOUS
<1> USE SessionFacts
<1>1. s > 1 /\ s - 1 \in Sessions
    BY DEF Sessions
<1>2. cancelled[s - 1]
    BY <1>1 DEF Open, Begun
<1>3. CASE f = s - 1
    BY <1>2, <1>3
<1>4. CASE f # s - 1
    <2>1. f < s - 1
        BY <1>4
    <2> QED
        BY <1>1, <1>2, <2>1 DEF SourceInv, Ordered
<1> QED
    BY <1>3, <1>4

(* A session's stage moves on, and everything about motion stays.          *)
LEMMA StartStep ==
    ASSUME SourceInv, NEW s \in Sessions, Start(s)
    PROVE  SourceInv'
<1> USE DEF Start
<1>1. /\ stage'[s] = "started" /\ stage[s] = "none"
      /\ \A t \in Sessions : t # s => stage'[t] = stage[t]
    BY DEF SourceInv, TypeOK
<1>2. TypeOK'
    BY <1>1, SessionFacts DEF SourceInv, TypeOK, writeVars, moveVars
<1>3. Ordered'
    BY <1>1, OpenOrder DEF SourceInv, Ordered
<1>4. SlotInv' /\ CapturedInv'
    BY <1>1, SessionFacts DEF SourceInv, TypeOK, SlotInv, CapturedInv, writeVars, moveVars
<1>5. MovingInv' /\ NoLeftover'
    BY DEF SourceInv, MovingInv, NoLeftover, writeVars, moveVars
<1> QED
    BY <1>2, <1>3, <1>4, <1>5 DEF SourceInv

LEMMA ClearStep ==
    ASSUME SourceInv, NEW s \in Sessions, Clear(s)
    PROVE  SourceInv'
<1> USE DEF Clear
<1>1. /\ stage'[s] = "cleared" /\ stage[s] = "started"
      /\ \A t \in Sessions : t # s => stage'[t] = stage[t]
    BY DEF SourceInv, TypeOK
<1>2. TypeOK'
    BY <1>1, SessionFacts DEF SourceInv, TypeOK, writeVars
<1>3. Ordered'
    BY <1>1 DEF SourceInv, Ordered
<1>4. SlotInv' /\ CapturedInv'
    BY <1>1, SessionFacts DEF SourceInv, TypeOK, SlotInv, CapturedInv, writeVars
<1>5. MovingInv' /\ NoLeftover'
    BY DEF SourceInv, MovingInv, NoLeftover, writeVars
<1> QED
    BY <1>2, <1>3, <1>4, <1>5 DEF SourceInv

LEMMA HookStep ==
    ASSUME SourceInv, NEW s \in Sessions, Hook(s)
    PROVE  SourceInv'
<1> USE DEF Hook
<1>1. /\ stage'[s] = "hooked" /\ stage[s] = "cleared"
      /\ \A t \in Sessions : t # s => stage'[t] = stage[t]
    BY DEF SourceInv, TypeOK
<1>2. TypeOK'
    BY <1>1, SessionFacts, ThreadFacts DEF SourceInv, TypeOK, moveVars
<1>3. Ordered'
    BY <1>1 DEF SourceInv, Ordered
<1>4. SlotInv'
    BY <1>1 DEF SourceInv, SlotInv, moveVars
<1>5. CapturedInv'
    <2>1. \A t \in Sessions : t # s => at'[<<"pump", t>>] = at[<<"pump", t>>]
        BY ThreadFacts DEF SourceInv, TypeOK
    <2> QED
        BY <1>1, <2>1, SessionFacts DEF SourceInv, TypeOK, CapturedInv
<1>6. MovingInv'
    <2>1. at[<<"pump", s>>] = "done"
        BY <1>1 DEF SourceInv, CapturedInv
    <2>2. \A t \in Threads : at'[t] # "moving" => at[t] # "moving"
        BY <2>1 DEF SourceInv, TypeOK
    <2> QED
        BY <2>2 DEF SourceInv, MovingInv, moveVars
<1>7. NoLeftover'
    BY DEF SourceInv, NoLeftover, moveVars
<1> QED
    BY <1>2, <1>3, <1>4, <1>5, <1>6, <1>7 DEF SourceInv

LEMMA UnhookStep ==
    ASSUME SourceInv, NEW s \in Sessions, Unhook(s)
    PROVE  SourceInv'
<1> USE DEF Unhook
<1>1. /\ stage'[s] = "unhooked" /\ stage[s] = "hooked"
      /\ \A t \in Sessions : t # s => stage'[t] = stage[t]
    BY DEF SourceInv, TypeOK
<1>2. TypeOK'
    BY <1>1, SessionFacts DEF SourceInv, TypeOK, writeVars, moveVars
<1>3. Ordered'
    BY <1>1 DEF SourceInv, Ordered
<1>4. SlotInv' /\ CapturedInv'
    BY <1>1, SessionFacts DEF SourceInv, TypeOK, SlotInv, CapturedInv, writeVars, moveVars
<1>5. MovingInv' /\ NoLeftover'
    BY DEF SourceInv, MovingInv, NoLeftover, writeVars, moveVars
<1> QED
    BY <1>2, <1>3, <1>4, <1>5 DEF SourceInv

LEMMA CloseStdinStep ==
    ASSUME SourceInv, NEW s \in Sessions, CloseStdin(s)
    PROVE  SourceInv'
<1> USE DEF CloseStdin
<1>1. /\ stage'[s] = "ended" /\ stage[s] = "unhooked"
      /\ \A t \in Sessions : t # s => stage'[t] = stage[t]
    BY DEF SourceInv, TypeOK
<1>2. TypeOK'
    BY <1>1, SessionFacts DEF SourceInv, TypeOK, writeVars, moveVars
<1>3. Ordered'
    BY <1>1 DEF SourceInv, Ordered
<1>4. SlotInv' /\ CapturedInv'
    BY <1>1, SessionFacts DEF SourceInv, TypeOK, SlotInv, CapturedInv, writeVars, moveVars
<1>5. MovingInv' /\ NoLeftover'
    BY DEF SourceInv, MovingInv, NoLeftover, writeVars, moveVars
<1> QED
    BY <1>2, <1>3, <1>4, <1>5 DEF SourceInv

(* A session is called off, or its helper dies.                            *)
LEMMA CancelStep ==
    ASSUME SourceInv, NEW s \in Sessions, Cancel(s)
    PROVE  SourceInv'
<1> USE DEF Cancel
<1>1. /\ cancelled' \in [Sessions -> BOOLEAN] /\ cancelled'[s]
      /\ \A t \in Sessions : t # s => cancelled'[t] = cancelled[t]
    BY DEF SourceInv, TypeOK
<1>2. TypeOK'
    BY <1>1 DEF SourceInv, TypeOK, writeVars, moveVars
<1>3. Ordered'
    BY <1>1, OpenOrder DEF SourceInv, Ordered
<1>4. SlotInv' /\ CapturedInv' /\ MovingInv' /\ NoLeftover'
    BY DEF SourceInv, SlotInv, CapturedInv, MovingInv, NoLeftover, writeVars, moveVars
<1> QED
    BY <1>2, <1>3, <1>4 DEF SourceInv

LEMMA HelperGoneStep ==
    ASSUME SourceInv, NEW s \in Sessions, HelperGone(s)
    PROVE  SourceInv'
<1> USE DEF HelperGone
<1>1. alive' \in [Sessions -> BOOLEAN]
    BY DEF SourceInv, TypeOK
<1>2. TypeOK'
    BY <1>1 DEF SourceInv, TypeOK, writeVars, moveVars
<1>3. Ordered' /\ SlotInv' /\ CapturedInv' /\ MovingInv' /\ NoLeftover'
    BY DEF SourceInv, Ordered, SlotInv, CapturedInv, MovingInv, NoLeftover, writeVars, moveVars
<1> QED
    BY <1>2, <1>3 DEF SourceInv

(* A callback of a session that others have followed is a late one.        *)
LEMMA MoveStep ==
    ASSUME SourceInv, NEW s \in Sessions, MoveArrives(s)
    PROVE  SourceInv'
<1> USE DEF MoveArrives
<1>1. late \subseteq late' /\ (cancelled[s] => s \in late')
    OBVIOUS
<1>2. TypeOK'
    BY SourceAssumption DEF SourceInv, TypeOK, streamVars, writeVars
<1>3. Ordered'
    BY DEF SourceInv, Ordered, streamVars
<1>4. SlotInv'
    <2> SUFFICES ASSUME NEW f \in slot', NEW t \in Sessions, f < t,
                        stage[t] \in {"cleared", "hooked", "unhooked", "ended"}
                 PROVE  f \in late'
        BY DEF SlotInv, streamVars
    <2>1. CASE f \in slot
        BY <1>1, <2>1 DEF SourceInv, SlotInv
    <2>2. CASE f = s
        BY <1>1, <2>2 DEF SourceInv, Ordered
    <2> QED
        BY <2>1, <2>2
<1>5. CapturedInv'
    BY DEF SourceInv, CapturedInv, streamVars, writeVars
<1>6. MovingInv' /\ NoLeftover'
    BY <1>1 DEF SourceInv, MovingInv, NoLeftover, writeVars
<1> QED
    BY <1>2, <1>3, <1>4, <1>5, <1>6 DEF SourceInv

(* A thread goes on: with the pipe p, and m of what is pending in hand.    *)
LEMMA ThreadMoves ==
    ASSUME SourceInv, NEW t \in Threads, at[t] # "done",
           NEW x \in ThreadStates, at' = [at EXCEPT ![t] = x],
           NEW p \in 0..MaxSession, to' = [to EXCEPT ![t] = p],
           p # None => stage[p] \in {"hooked", "unhooked", "ended"},
           NEW m \in SUBSET Sessions, moving' = [moving EXCEPT ![t] = m],
           x # "moving" => m = {},
           \A f \in m : f < p => f \in late,
           UNCHANGED <<streamVars, late>>, slot' \in {slot, {}},
           TypeOK /\ at' \in [Threads -> ThreadStates] /\ to' \in [Threads -> 0..MaxSession]
              /\ moving' \in [Threads -> SUBSET Sessions] => TypeOK',
           NoLeftover'
    PROVE  SourceInv'
<1>1. /\ at'[t] = x /\ to'[t] = p /\ moving'[t] = m
      /\ \A u \in Threads : u # t => at'[u] = at[u] /\ to'[u] = to[u] /\ moving'[u] = moving[u]
    BY DEF SourceInv, TypeOK
<1>2. TypeOK'
    BY DEF SourceInv, TypeOK, ThreadStates
<1>3. Ordered' /\ SlotInv'
    BY DEF SourceInv, Ordered, SlotInv, streamVars
<1>4. CapturedInv'
    BY <1>1, ThreadFacts DEF SourceInv, CapturedInv, streamVars
<1>5. MovingInv'
    BY <1>1 DEF SourceInv, MovingInv
<1> QED
    BY <1>2, <1>3, <1>4, <1>5 DEF SourceInv

(* A writer looks at stdin, and has to wait when it is hooked.             *)
LEMMA CaptureStep ==
    ASSUME SourceInv, NEW t \in Threads, at[t] = "idle", Capture(t),
           UNCHANGED <<streamVars, late, slot, wake>>,
           kick' \in [Sessions -> BOOLEAN], got' \in 0..MaxInput
    PROVE  SourceInv'
<1> DEFINE x == IF stdin = None THEN "idle" ELSE "locking"
<1>1. x \in ThreadStates /\ x # "moving" /\ stdin \in 0..MaxSession
    BY DEF ThreadStates, SourceInv, TypeOK
<1>2. moving[t] = {} /\ moving' = [moving EXCEPT ![t] = {}]
    BY DEF SourceInv, TypeOK, MovingInv, Capture
<1>3. at' = [at EXCEPT ![t] = x] /\ to' = [to EXCEPT ![t] = stdin]
    BY DEF Capture
<1>4. NoLeftover'
    BY DEF SourceInv, NoLeftover, Capture
<1>5. stdin # None => stage[stdin] \in {"hooked", "unhooked", "ended"}
    BY DEF SourceInv, TypeOK
<1>6. TypeOK /\ at' \in [Threads -> ThreadStates] /\ to' \in [Threads -> 0..MaxSession]
          /\ moving' \in [Threads -> SUBSET Sessions] => TypeOK'
    BY DEF TypeOK, ThreadStates, Capture, streamVars
<1> HIDE DEF x
<1> QED
    BY <1>1, <1>2, <1>3, <1>4, <1>5, <1>6, ThreadMoves

(* The holder of the lock takes what is pending, or is done with it.       *)
LEMMA TakeStep ==
    ASSUME SourceInv, NEW t \in Threads, at[t] \in {"locking", "moving"}, Take(t),
           UNCHANGED <<streamVars, wanted, wake, got, late, kick>>,
           leaked' \subseteq Sessions \X Sessions, NoLeftover'
    PROVE  SourceInv'
<1>1. TypeOK /\ at' \in [Threads -> ThreadStates] /\ to' \in [Threads -> 0..MaxSession]
          /\ moving' \in [Threads -> SUBSET Sessions] => TypeOK'
    BY DEF TypeOK, ThreadStates, Take, Return, streamVars
<1>2. to[t] \in 0..MaxSession /\ to' \in {to, [to EXCEPT ![t] = None]}
      /\ to = [to EXCEPT ![t] = to[t]] /\ slot \in SUBSET Sessions
    BY DEF SourceInv, TypeOK, Take, Return
<1>3. to[t] # None => stage[to[t]] \in {"hooked", "unhooked", "ended"}
    BY DEF SourceInv, CapturedInv
<1>9. /\ at[t] # "done" /\ UNCHANGED <<streamVars, late>>
      /\ "moving" \in ThreadStates /\ {"idle", "line"} \subseteq ThreadStates
    BY DEF ThreadStates
<1>4. CASE slot # {}
    <2>1. \A f \in slot : f < to[t] => f \in late
        <3> SUFFICES ASSUME NEW f \in slot, f < to[t] PROVE f \in late
            OBVIOUS
        <3>1. f \in Sessions /\ to[t] # None /\ to[t] \in Sessions
            BY <1>2, SessionFacts DEF None, Sessions
        <3> QED
            BY <1>3, <3>1 DEF SourceInv, SlotInv
    <2>2. /\ at' = [at EXCEPT ![t] = "moving"] /\ to' = [to EXCEPT ![t] = to[t]]
          /\ moving' = [moving EXCEPT ![t] = slot] /\ slot' = {}
        BY <1>2, <1>4 DEF Take
    <2> QED
        BY <1>1, <1>2, <1>3, <1>9, <2>1, <2>2, ThreadMoves
<1>5. CASE slot = {}
    <2>1. PICK x \in {"idle", "line"}, p \in {to[t], None} :
              at' = [at EXCEPT ![t] = x] /\ to' = [to EXCEPT ![t] = p]
        BY <1>2, <1>5 DEF Take, Return
    <2>2. moving' = [moving EXCEPT ![t] = {}] /\ slot' = slot
        BY <1>5 DEF Take, Return
    <2>3. x \in ThreadStates /\ x # "moving" /\ p \in 0..MaxSession
          /\ (p # None => stage[p] \in {"hooked", "unhooked", "ended"})
        BY <1>2, <1>3, <1>9, <2>1, SessionFacts
    <2>4. {} \in SUBSET Sessions /\ \A f \in {} : f < p => f \in late
        OBVIOUS
    <2>5. slot' \in {slot, {}}
        BY <2>2
    <2> QED
        BY <1>1, <1>9, <2>1, <2>2, <2>3, <2>4, <2>5, ThreadMoves
<1> QED
    BY <1>4, <1>5

(* Every step of a session, and of a thread, keeps the invariant.          *)
LEMMA SourceStep == SourceInv /\ [Next]_vars => SourceInv'
<1> SUFFICES ASSUME SourceInv, [Next]_vars PROVE SourceInv'
    OBVIOUS
<1>1. ASSUME NEW s \in Sessions,
             Start(s) \/ StreamStep(s) \/ Cancel(s) \/ HelperGone(s) \/ MoveArrives(s)
      PROVE  SourceInv'
    BY <1>1, StartStep, ClearStep, HookStep, UnhookStep, CloseStdinStep, CancelStep, HelperGoneStep, MoveStep
       DEF StreamStep
<1>2. ASSUME NEW s \in Sessions, InputArrives(s) PROVE SourceInv'
    <2>1. got' \in 0..MaxInput /\ kick' \in [Sessions -> BOOLEAN]
        BY <1>2, SourceAssumption DEF InputArrives, SourceInv, TypeOK
    <2> QED
        BY <1>2, <2>1, ThreadFacts, CaptureStep DEF InputArrives
<1>3. ASSUME NEW s \in Sessions, KickTaken(s) PROVE SourceInv'
    <2>1. got' \in 0..MaxInput /\ kick' \in [Sessions -> BOOLEAN]
        BY <1>3 DEF KickTaken, moveVars, SourceInv, TypeOK
    <2> QED
        BY <1>3, <2>1, ThreadFacts, CaptureStep DEF KickTaken, moveVars
<1>4. ASSUME NEW s \in Sessions, RequestArrives(s) PROVE SourceInv'
    <2> USE <1>4 DEF RequestArrives
    <2>1. got' \in 0..MaxInput /\ kick' \in [Sessions -> BOOLEAN]
        BY SourceAssumption DEF SourceInv, TypeOK
    <2>2. TypeOK'
        BY <2>1 DEF SourceInv, TypeOK, streamVars
    <2>3. Ordered' /\ SlotInv' /\ CapturedInv' /\ MovingInv' /\ NoLeftover'
        BY DEF SourceInv, Ordered, SlotInv, CapturedInv, MovingInv, NoLeftover, streamVars
    <2> QED
        BY <2>2, <2>3 DEF SourceInv
<1>5. ASSUME NEW s \in Sessions, PumpWakes(s) PROVE SourceInv'
    <2> USE <1>5 DEF PumpWakes
    <2> DEFINE t == <<"pump", s>>
    <2>1. t \in Threads /\ at[t] = "idle" /\ moving[t] = {} /\ stage[s] \in {"hooked", "unhooked", "ended"}
        BY ThreadFacts DEF SourceInv, MovingInv, CapturedInv
    <2>2. moving' = [moving EXCEPT ![t] = {}]
        BY <2>1 DEF SourceInv, TypeOK
    <2>3. NoLeftover'
        BY DEF SourceInv, NoLeftover
    <2>4. TypeOK /\ at' \in [Threads -> ThreadStates] /\ to' \in [Threads -> 0..MaxSession]
              /\ moving' \in [Threads -> SUBSET Sessions] => TypeOK'
        BY DEF TypeOK, ThreadStates, streamVars
    <2> HIDE DEF t
    <2> QED
        BY <2>1, <2>2, <2>3, <2>4, ThreadMoves, SessionFacts DEF ThreadStates, t
<1>6. ASSUME NEW s \in Sessions, PumpEnds(s) PROVE SourceInv'
    <2> USE <1>6 DEF PumpEnds
    <2> DEFINE t == <<"pump", s>>
    <2>1. t \in Threads /\ at[t] = "idle" /\ moving[t] = {}
        BY ThreadFacts DEF SourceInv, MovingInv
    <2>2. moving' = [moving EXCEPT ![t] = {}] /\ to' = [to EXCEPT ![t] = to[t]]
          /\ to[t] \in 0..MaxSession
        BY <2>1 DEF SourceInv, TypeOK
    <2>3. NoLeftover' /\ (to[t] # None => stage[to[t]] \in {"hooked", "unhooked", "ended"})
        BY <2>1 DEF SourceInv, NoLeftover, CapturedInv, moveVars
    <2>4. TypeOK /\ at' \in [Threads -> ThreadStates] /\ to' \in [Threads -> 0..MaxSession]
              /\ moving' \in [Threads -> SUBSET Sessions] => TypeOK'
        BY DEF TypeOK, ThreadStates, streamVars, moveVars
    <2> QED
        BY <2>1, <2>2, <2>3, <2>4, ThreadMoves DEF ThreadStates, moveVars
<1>7. ASSUME NEW t \in Threads, Locks(t) PROVE SourceInv'
    <2>1. NoLeftover' /\ leaked' \subseteq Sessions \X Sessions
        BY <1>7 DEF Locks, SourceInv, TypeOK, NoLeftover
    <2> QED
        BY <1>7, <2>1, TakeStep DEF Locks
<1>8. ASSUME NEW t \in Threads, WriteMove(t) PROVE SourceInv'
    <2> USE <1>8 DEF WriteMove
    <2>1. moving[t] \subseteq Sessions /\ to[t] \in 0..MaxSession
        BY DEF SourceInv, TypeOK
    <2>2. leaked' \subseteq Sessions \X Sessions
        BY <2>1, SessionFacts DEF SourceInv, TypeOK, Sessions
    <2>3. NoLeftover'
        BY DEF SourceInv, NoLeftover, MovingInv
    <2> QED
        BY <2>2, <2>3, TakeStep
<1>9. ASSUME NEW t \in Threads, WriteLine(t) PROVE SourceInv'
    <2> USE <1>9 DEF WriteLine, Return
    <2>1. NoLeftover'
        BY DEF SourceInv, NoLeftover, moveVars
    <2>2. wanted' \subseteq Sessions /\ slot' = slot
        BY DEF SourceInv, TypeOK, moveVars
    <2>3. TypeOK /\ at' \in [Threads -> ThreadStates] /\ to' \in [Threads -> 0..MaxSession]
              /\ moving' \in [Threads -> SUBSET Sessions] => TypeOK'
        BY <2>2 DEF TypeOK, ThreadStates, streamVars, moveVars
    <2> QED
        BY <2>1, <2>2, <2>3, ThreadMoves, SessionFacts DEF ThreadStates, moveVars
<1>10. CASE UNCHANGED vars
    BY <1>10 DEF vars, streamVars, writeVars, moveVars, SourceInv, TypeOK, Ordered, SlotInv,
                 CapturedInv, MovingInv, NoLeftover
<1> QED
    BY <1>1, <1>2, <1>3, <1>4, <1>5, <1>6, <1>7, <1>8, <1>9, <1>10 DEF Next, ThreadStep

LEMMA SourceInvariant == Spec => []SourceInv
<1>1. SourceInv /\ [Next]_vars => SourceInv'
    BY SourceStep
<1> QED
    BY <1>1, SourceInit, PTL DEF Spec

(* Every variable keeps its type, and the hooked stdin is that of a        *)
(* session that has been hooked and has not torn down (source.go:355,      *)
(* 361).                                                                   *)
THEOREM SourceTypes == Spec => []TypeOK
<1>1. SourceInv => TypeOK
    BY DEF SourceInv
<1> QED
    BY <1>1, SourceInvariant, PTL

(* Motion left over from one session does not reach the helper of a later  *)
(* one, except through a callback that was still running when its session  *)
(* had been cancelled: the slot is cleared before a session is hooked, and *)
(* nobody has its pipe before (source.go:354).                             *)
THEOREM NothingLeftOver == Spec => []NoLeftover
<1>1. SourceInv => NoLeftover
    BY DEF SourceInv
<1> QED
    BY <1>1, SourceInvariant, PTL
=============================================================================
