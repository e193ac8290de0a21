--------------------------- MODULE MovePath_proofs ---------------------------
(***************************************************************************)
(* What the move path does with motion, for every size of the mouse        *)
(* events, of the clamp and of the buffers, and whatever is lost or        *)
(* reordered on the way.                                                   *)
(***************************************************************************)
EXTENDS MovePath, SequenceTheorems, TLAPS

(* One invariant, by its own induction: conservation needs the types, and  *)
(* the clamp needs nothing but the one place where a line is taken.        *)
MoveInv == TypeOK /\ MotionConserved /\ LinesClamped

USE DEF Callbacks

-----------------------------------------------------------------------------
(* clampDelta returns what one line may carry.                             *)
LEMMA ClampBounds ==
    ASSUME NEW d \in Int
    PROVE  Clamp(d) \in Int /\ Clamp(d) \in -MaxDelta..MaxDelta
BY MoveAssumption DEF Clamp

(* A move's motion is a number, and no move has none.                      *)
LEMMA MotionTypes ==
    /\ None \in Moves /\ Motion(None) = 0 /\ None \in Presses
    /\ \A mv \in Moves : Motion(mv) \in Int
BY DEF None, Moves, Motion, Presses

(* The terms of the conservation law are numbers.                          *)
LEMMA Tallies ==
    ASSUME TypeOK
    PROVE  /\ written \in Int /\ dropped \in Int /\ qcx \in Int
           /\ Motion(line) \in Int /\ Motion(slot) \in Int
           /\ Motion(hold["move"]) \in Int /\ Motion(hold["input"]) \in Int
BY MotionTypes DEF TypeOK

(* The page starts with no control, nothing sent, and an idle host.        *)
LEMMA MoveInitially == Init => MoveInv
<1> SUFFICES ASSUME Init PROVE MoveInv
  OBVIOUS
<1>1. TypeOK
  <2>1. rel \in Seq(Wire \cup Presses)
    BY DEF Init
  <2>2. hold \in [Callbacks -> Moves] /\ slot \in Moves /\ line \in Moves /\ click \in Presses
    BY MotionTypes DEF Init
  <2>3. pipe \in 0..PipeCap
    BY MoveAssumption DEF Init
  <2>4. qcx \in Int /\ moved \in Int /\ written \in Int /\ dropped \in Int /\ cursor \in Int
        /\ cum \in Int /\ sent \in Int
    BY DEF Init
  <2>5. session \in Nat /\ mseq \in Nat /\ lastAbs \in Nat /\ lastAbsSent \in Nat /\ qn \in Nat
        /\ events \in Nat /\ presses \in Nat /\ releases \in Nat /\ pressed \in Nat
    BY DEF Init
  <2> QED
    BY <2>1, <2>2, <2>3, <2>4, <2>5 DEF Init, TypeOK
<1>2. MotionConserved
  BY MotionTypes DEF Init, MotionConserved, Pending
<1>3. LinesClamped
  BY MotionTypes, MoveAssumption DEF Init, LinesClamped
<1> QED
  BY <1>1, <1>2, <1>3 DEF MoveInv

-----------------------------------------------------------------------------
(* What is in a concatenation is in one of its parts.                      *)
LEMMA ConcatElements ==
    ASSUME NEW S, NEW r \in Seq(S), NEW s \in Seq(S), NEW i \in 1..Len(r \o s)
    PROVE  \/ i \in 1..Len(r) /\ (r \o s)[i] = r[i]
           \/ \E j \in 1..Len(s) : (r \o s)[i] = s[j]
<1>1. /\ Len(r) \in Nat /\ Len(s) \in Nat /\ Len(r \o s) = Len(r) + Len(s)
      /\ (r \o s)[i] = IF i <= Len(r) THEN r[i] ELSE s[i - Len(r)]
  BY ConcatProperties, LenProperties
<1>2. CASE i <= Len(r)
  BY <1>1, <1>2
<1>3. CASE i > Len(r)
  <2>1. i - Len(r) \in 1..Len(s) /\ (r \o s)[i] = s[i - Len(r)]
    BY <1>1, <1>3
  <2> QED
    BY <2>1
<1> QED
  BY <1>1, <1>2, <1>3

(* What the page puts on the wire is well-formed.                          *)
LEMMA PageMessages ==
    ASSUME TypeOK, NEW m \in Modes
    PROVE  /\ SeqAfter(m) \in Nat
           /\ OnMove(m) \subseteq Wire
           /\ OnInput(m) \in Seq(Wire \cup Presses)
           /\ \A n \in Nat : SettleMsg(m, n) \in Wire
<1>1. FlushMsg(m) \in Wire /\ \A n \in Nat : SettleMsg(m, n) \in Wire
  BY DEF TypeOK, FlushMsg, SettleMsg, Wire
<1>2. SeqAfter(m) \in Nat
  BY DEF TypeOK, SeqAfter
<1>3. <<FlushMsg(m)>> \in Seq(Wire \cup Presses) /\ <<>> \in Seq(Wire \cup Presses)
  BY <1>1
<1>4. OnInput(m) \in Seq(Wire \cup Presses)
  BY <1>3 DEF OnInput
<1> QED
  BY <1>1, <1>2, <1>4 DEF OnMove

(* Sending on the input channel keeps what is on it well-formed.           *)
LEMMA SendTypes ==
    ASSUME TypeOK, NEW msgs \in Seq(Wire \cup Presses), SendInput(msgs)
    PROVE  rel' \in Seq(Wire \cup Presses) /\ early' \subseteq {"turned", "sent"}
<1>1. rel \in Seq(Wire \cup Presses) /\ early \subseteq {"turned", "sent"}
  BY DEF TypeOK
<1>2. rel \o msgs \in Seq(Wire \cup Presses)
  BY <1>1, ConcatProperties
<1> QED
  BY <1>1, <1>2 DEF SendInput

(* The messages of a press: what its flush sends by the input channel, the *)
(* totals once more, and the press itself.                                 *)
PressTotals(n) == IF mode = "game" /\ n > 0 THEN <<SettleMsg("game", n + 1)>> ELSE <<>>
PressItself == IF mode = "game" THEN [t |-> "D", v |-> 0] ELSE [t |-> "d", v |-> Now]

LEMMA PressMessages ==
    ASSUME TypeOK, Press
    PROVE  LET n == SeqAfter(mode)
           IN /\ SendInput(OnInput(mode) \o PressTotals(n) \o <<PressItself>>)
              /\ OnInput(mode) \in Seq(Wire \cup Presses)
              /\ PressTotals(n) \in Seq(Wire \cup Presses)
              /\ OnInput(mode) \o PressTotals(n) \in Seq(Wire \cup Presses)
              /\ <<PressItself>> \in Seq(Wire \cup Presses) /\ PressItself \in Presses
              /\ OnInput(mode) \o PressTotals(n) \o <<PressItself>> \in Seq(Wire \cup Presses)
              /\ mseq' = IF mode = "game" /\ n > 0 THEN n + 1 ELSE n
<1> DEFINE n == SeqAfter(mode)
<1>1. mode \in Modes
  BY DEF TypeOK
<1>2. n \in Nat /\ OnInput(mode) \in Seq(Wire \cup Presses)
  BY <1>1, PageMessages
<1>3. PressTotals(n) \in Seq(Wire \cup Presses)
  <2>1. mode = "game" => SettleMsg("game", n + 1) \in Wire
    BY <1>1, <1>2, PageMessages
  <2>2. mode = "game" => <<SettleMsg("game", n + 1)>> \in Seq(Wire \cup Presses)
    BY <2>1
  <2>3. <<>> \in Seq(Wire \cup Presses)
    OBVIOUS
  <2> QED
    BY <2>2, <2>3 DEF PressTotals
<1>4. PressItself \in Presses
  BY DEF PressItself, Presses, Now, TypeOK
<1>5. <<PressItself>> \in Seq(Wire \cup Presses)
  BY <1>4
<1>6. SendInput(OnInput(mode) \o PressTotals(n) \o <<PressItself>>)
      /\ mseq' = IF mode = "game" /\ n > 0 THEN n + 1 ELSE n
  BY DEF Press, PressTotals, PressItself
<1>7. OnInput(mode) \o PressTotals(n) \in Seq(Wire \cup Presses)
  BY <1>2, <1>3, ConcatProperties
<1>8. OnInput(mode) \o PressTotals(n) \o <<PressItself>> \in Seq(Wire \cup Presses)
  BY <1>5, <1>7, ConcatProperties
<1> QED
  BY <1>2, <1>3, <1>4, <1>5, <1>6, <1>7, <1>8

(* The page's own steps leave the host alone.                              *)
LEMMA PageKeepsHost ==
    ASSUME MoveInv, UNCHANGED hostVars
    PROVE  MotionConserved' /\ LinesClamped'
BY DEF MoveInv, MotionConserved, LinesClamped, Pending, hostVars, seqVars, slotVars, outVars,
       tallyVars, Motion

(* Every step of the page keeps the types.                                 *)
LEMMA PageTypes ==
    ASSUME TypeOK, User \/ Timers
    PROVE  TypeOK'
<1> USE DEF TypeOK, hostVars, seqVars, slotVars, outVars, tallyVars, chanVars, countVars, sentVars,
           histVars
<1>1. ASSUME NEW d \in Deltas, MouseMotion(d) PROVE TypeOK'
  <2>1. cum' \in Int /\ moved' \in Int /\ early' \subseteq {"turned", "sent"}
    BY <1>1, MoveAssumption DEF MouseMotion
  <2>2. flush' \subseteq Modes /\ settle' \subseteq Modes /\ events' \in Nat
    BY <1>1 DEF MouseMotion
  <2> QED
    BY <1>1, <2>1, <2>2 DEF MouseMotion
<1>2. CASE MousePoint
  <2>1. lastAbs' \in Nat /\ events' \in Nat
    BY <1>2 DEF MousePoint, Now
  <2>2. flush' \subseteq Modes /\ settle' \subseteq Modes
    BY <1>2 DEF MousePoint
  <2> QED
    BY <1>2, <2>1, <2>2 DEF MousePoint
<1>3. CASE Engage
  BY <1>3 DEF Engage
<1>4. CASE Release
  <2>1. [t |-> "x", v |-> 0] \in Presses
    BY DEF Presses
  <2>2. rel' \in Seq(Wire \cup Presses) /\ early' \subseteq {"turned", "sent"}
    <3>1. <<[t |-> "x", v |-> 0]>> \in Seq(Wire \cup Presses)
      BY <2>1
    <3> QED
      BY <1>4, <3>1, SendTypes DEF Release
  <2>3. engaged' \in BOOLEAN
    BY <1>4 DEF Release
  <2>4. releases' \in Nat
    BY <1>4 DEF Release
  <2> QED
    BY <1>4, <2>2, <2>3, <2>4 DEF Release
<1>5. CASE SwitchMode
  BY <1>5 DEF SwitchMode
<1>6. CASE Press
  <2>1. SeqAfter(mode) \in Nat /\ OnMove(mode) \subseteq Wire
    BY PageMessages
  <2>2. rel' \in Seq(Wire \cup Presses) /\ early' \subseteq {"turned", "sent"} /\ mseq' \in Nat
    <3> DEFINE n == SeqAfter(mode)
               msgs == OnInput(mode) \o PressTotals(n) \o <<PressItself>>
    <3>1. /\ SendInput(msgs) /\ msgs \in Seq(Wire \cup Presses)
          /\ mseq' = IF mode = "game" /\ n > 0 THEN n + 1 ELSE n
      BY <1>6, PressMessages
    <3>2. mseq' \in Nat
      BY <2>1, <3>1
    <3> HIDE DEF msgs
    <3>3. rel' \in Seq(Wire \cup Presses) /\ early' \subseteq {"turned", "sent"}
      BY <3>1, SendTypes
    <3> QED
      BY <3>2, <3>3
  <2>3. net' \subseteq Wire /\ sent' \in Int /\ lastAbs' \in Nat /\ lastAbsSent' \in Nat
        /\ flush' \subseteq Modes /\ presses' \in Nat /\ events' \in Nat
    BY <1>6, <2>1 DEF Press, Flush
  <2> QED
    BY <1>6, <2>2, <2>3 DEF Press
<1>7. CASE StreamEnds
  <2>1. hold' \in [Callbacks -> Moves] /\ slot' \in Moves /\ line' \in Moves /\ click' \in Presses
    BY <1>7, MotionTypes DEF StreamEnds
  <2>2. net' \subseteq Wire /\ rel' \in Seq(Wire \cup Presses) /\ early' \subseteq {"turned", "sent"}
    BY <1>7 DEF StreamEnds
  <2>3. pipe' \in 0..PipeCap
    BY <1>7, MoveAssumption DEF StreamEnds
  <2>4. session' \in Nat /\ presses' \in Nat
    BY <1>7 DEF StreamEnds
  <2>5. qn' \in Nat /\ qcx' \in Int /\ moved' \in Int /\ written' \in Int /\ dropped' \in Int
        /\ cursor' \in Int /\ pressed' \in Nat
    BY <1>7 DEF StreamEnds
  <2> QED
    BY <1>7, <2>1, <2>2, <2>3, <2>4, <2>5 DEF StreamEnds
<1>8. CASE AnnounceInput \/ AnnounceMove
  <2>1. CASE AnnounceInput
    <3>1. ch' \in {"closed", "input", "open"}
      BY <2>1 DEF AnnounceInput
    <3> QED
      BY <2>1, <3>1 DEF AnnounceInput
  <2>2. CASE AnnounceMove
    <3>1. ch' \in {"closed", "input", "open"} /\ mseq' \in Nat /\ cum' \in Int /\ sent' \in Int
      BY <2>2 DEF AnnounceMove
    <3> QED
      BY <2>2, <3>1 DEF AnnounceMove
  <2> QED
    BY <1>8, <2>1, <2>2
<1>9. ASSUME NEW m \in Modes, FlushTimer(m) PROVE TypeOK'
  <2>1. SeqAfter(m) \in Nat /\ OnMove(m) \subseteq Wire /\ OnInput(m) \in Seq(Wire \cup Presses)
    BY PageMessages
  <2>2. rel' \in Seq(Wire \cup Presses) /\ early' \subseteq {"turned", "sent"}
    BY <1>9, <2>1, SendTypes DEF FlushTimer
  <2> QED
    BY <1>9, <2>1, <2>2 DEF FlushTimer, Flush
<1>10. ASSUME NEW m \in Modes, SettleTimer(m) PROVE TypeOK'
  <2>1. SettleMsg(m, mseq + 1) \in Wire
    BY PageMessages
  <2>2. <<SettleMsg(m, mseq + 1)>> \in Seq(Wire \cup Presses)
    BY <2>1
  <2>3. rel' \in Seq(Wire \cup Presses) /\ early' \subseteq {"turned", "sent"} /\ mseq' \in Nat
    <3>1. CASE mseq' = mseq + 1 /\ SendInput(<<SettleMsg(m, mseq + 1)>>)
      <4>1. rel' \in Seq(Wire \cup Presses) /\ early' \subseteq {"turned", "sent"}
        BY <2>2, <3>1, SendTypes
      <4> QED
        BY <3>1, <4>1
    <3>2. CASE UNCHANGED <<mseq, rel, early>>
      BY <3>2
    <3> QED
      BY <1>10, <3>1, <3>2 DEF SettleTimer
  <2> QED
    BY <1>10, <2>3 DEF SettleTimer
<1> QED
  BY <1>1, <1>2, <1>3, <1>4, <1>5, <1>6, <1>7, <1>8, <1>9, <1>10 DEF User, Timers

-----------------------------------------------------------------------------
(* moveSeq.accept hands on a well-formed move, and what it adds to the     *)
(* motion accepted so far is exactly the motion of the move it returns.    *)
LEMMA AcceptConserves ==
    ASSUME TypeOK, NEW g \in Callbacks, NEW m \in Wire, hold[g] = None, Accept(g, m)
    PROVE  /\ qn' \in Nat /\ qcx' \in Int /\ hold' \in [Callbacks -> Moves]
           /\ qcx' = qcx + Motion(hold'["move"]) + Motion(hold'["input"])
                         - Motion(hold["move"]) - Motion(hold["input"])
<1>1. m.n \in Nat /\ m.v \in Int /\ m.t \in {"m", "c"} /\ qn \in Nat /\ qcx \in Int
  BY DEF TypeOK, Wire
<1>2. hold \in [Callbacks -> Moves]
  BY DEF TypeOK
<1> DEFINE mv == IF m.n <= qn THEN None
                 ELSE IF m.t = "m" THEN [t |-> "m", v |-> m.v]
                 ELSE IF m.v = qcx THEN None ELSE [t |-> "r", v |-> m.v - qcx]
<1>3. hold' = [hold EXCEPT ![g] = mv]
  BY DEF Accept
<1>4. mv \in Moves
  BY <1>1, MotionTypes DEF Moves
<1>5. qcx' = qcx + Motion(mv) /\ qn' \in Nat
  BY <1>1, MotionTypes DEF Accept, Motion
<1> HIDE DEF mv
<1>6. Motion(hold[g]) = 0 /\ Motion(mv) \in Int /\ Motion(hold["move"]) \in Int
      /\ Motion(hold["input"]) \in Int
  BY <1>2, <1>4, MotionTypes
<1>7. hold' \in [Callbacks -> Moves]
  BY <1>2, <1>3, <1>4
<1>8. CASE g = "move"
  BY <1>1, <1>2, <1>3, <1>5, <1>6, <1>7, <1>8
<1>9. CASE g = "input"
  BY <1>1, <1>2, <1>3, <1>5, <1>6, <1>7, <1>9
<1> QED
  BY <1>8, <1>9

(* What moveSeq newly counts as accepted is in a callback's hands.         *)
LEMMA HandOver ==
    ASSUME TypeOK, MotionConserved, UNCHANGED <<written, dropped, slot, line>>,
           hold' \in [Callbacks -> Moves],
           qcx' = qcx + Motion(hold'["move"]) + Motion(hold'["input"])
                      - Motion(hold["move"]) - Motion(hold["input"])
    PROVE  MotionConserved'
<1>1. Motion(hold'["move"]) \in Int /\ Motion(hold'["input"]) \in Int
  BY MotionTypes
<1>2. Motion(slot') = Motion(slot) /\ Motion(line') = Motion(line)
  BY DEF Motion
<1>3. written + (Motion(line) + Motion(slot) + Motion(hold["move"]) + Motion(hold["input"]))
        + dropped = qcx
  BY DEF MotionConserved, Pending
<1>4. written' + (Motion(line') + Motion(slot') + Motion(hold'["move"]) + Motion(hold'["input"]))
        + dropped' = qcx'
  BY <1>1, <1>2, <1>3, Tallies
<1> QED
  BY <1>4 DEF MotionConserved, Pending

(* Between the channels and the slot: one step per callback.               *)
LEMMA ReceiveStep ==
    ASSUME MoveInv, (\E m \in net : RecvMove(m)) \/ RecvInput \/ (\E g \in Callbacks : Put(g))
    PROVE  MoveInv'
<1> USE DEF MoveInv, slotVars, outVars, tallyVars, pageVars, sentVars, countVars, chanVars, histVars
<1>1. ASSUME NEW m \in net, RecvMove(m) PROVE MoveInv'
  <2>1. m \in Wire /\ hold["move"] = None /\ Accept("move", m)
    BY <1>1 DEF RecvMove, TypeOK
  <2>2. /\ qn' \in Nat /\ qcx' \in Int /\ hold' \in [Callbacks -> Moves]
        /\ qcx' = qcx + Motion(hold'["move"]) + Motion(hold'["input"])
                      - Motion(hold["move"]) - Motion(hold["input"])
    BY <2>1, AcceptConserves
  <2>3. TypeOK'
    BY <1>1, <2>2 DEF RecvMove, TypeOK
  <2>4. UNCHANGED <<written, dropped, slot, line>>
    BY <1>1 DEF RecvMove
  <2>5. MotionConserved'
    BY <2>2, <2>4, Tallies, HandOver
  <2> QED
    BY <2>3, <2>4, <2>5 DEF LinesClamped
<1>2. CASE RecvInput
  <2>1. Head(rel) \in Wire \cup Presses /\ rel' \in Seq(Wire \cup Presses)
    BY <1>2 DEF RecvInput, TypeOK
  <2>2. CASE Head(rel).t \in {"m", "c"}
    <3>1. Head(rel) \in Wire
      BY <2>1, <2>2 DEF Presses
    <3>2. hold["input"] = None /\ Accept("input", Head(rel)) /\ UNCHANGED click
      BY <1>2, <2>2 DEF RecvInput
    <3>3. /\ qn' \in Nat /\ qcx' \in Int /\ hold' \in [Callbacks -> Moves]
          /\ qcx' = qcx + Motion(hold'["move"]) + Motion(hold'["input"])
                        - Motion(hold["move"]) - Motion(hold["input"])
      BY <3>1, <3>2, AcceptConserves
    <3>4. TypeOK'
      BY <1>2, <2>1, <3>2, <3>3 DEF RecvInput, TypeOK
    <3>5. UNCHANGED <<written, dropped, slot, line>>
      BY <1>2 DEF RecvInput
    <3>6. MotionConserved'
      BY <3>3, <3>5, Tallies, HandOver
    <3> QED
      BY <3>4, <3>5, <3>6 DEF LinesClamped
  <2>3. CASE Head(rel).t \notin {"m", "c"}
    <3>1. click' \in Presses /\ UNCHANGED <<qn, qcx, hold>>
      BY <1>2, <2>1, <2>3 DEF RecvInput, Wire
    <3>2. TypeOK'
      BY <1>2, <2>1, <3>1 DEF RecvInput, TypeOK
    <3> QED
      BY <1>2, <3>1, <3>2 DEF RecvInput, MotionConserved, Pending, LinesClamped
  <2> QED
    BY <2>2, <2>3
<1>3. ASSUME NEW g \in Callbacks, Put(g) PROVE MoveInv'
  <2>1. hold[g] \in Moves /\ slot \in Moves /\ line \in Moves /\ hold \in [Callbacks -> Moves]
        /\ hold[g] # None /\ hold' = [hold EXCEPT ![g] = None]
    BY <1>3 DEF Put, TypeOK
  <2> DEFINE both == slot.t = "r" /\ hold[g].t = "r"
             sum == [t |-> "r", v |-> slot.v + hold[g].v]
  <2>a. slot.v \in Int /\ hold[g].v \in Int /\ hold[g].t \in {"m", "r"} /\ dropped \in Int
    BY <2>1 DEF Moves, None, TypeOK
  <2>b. slot' = IF both THEN sum ELSE hold[g]
    BY <1>3 DEF Put
  <2>c. dropped' = IF hold[g].t = "m" THEN dropped + Motion(slot) ELSE dropped
    BY <1>3 DEF Put
  <2>d. slot' \in Moves
    BY <2>1, <2>a, <2>b DEF Moves
  <2>2. slot' \in Moves /\ dropped' \in Int
        /\ Motion(slot') + dropped' = Motion(slot) + dropped + Motion(hold[g])
    BY <2>a, <2>b, <2>c, <2>d DEF Motion
  <2>3. hold' \in [Callbacks -> Moves]
    BY <2>1, MotionTypes
  <2>4. TypeOK'
    BY <1>3, <2>2, <2>3 DEF Put, TypeOK
  <2>5. Motion(hold'["move"]) + Motion(hold'["input"])
          = Motion(hold["move"]) + Motion(hold["input"]) - Motion(hold[g])
    <3>1. CASE g = "move"
      BY <2>1, <3>1, MotionTypes
    <3>2. CASE g = "input"
      BY <2>1, <3>2, MotionTypes
    <3> QED
      BY <3>1, <3>2
  <2>6. Motion(hold["move"]) \in Int /\ Motion(hold["input"]) \in Int /\ Motion(hold[g]) \in Int
        /\ Motion(slot) \in Int /\ Motion(line) \in Int /\ Motion(slot') \in Int
        /\ Motion(hold'["move"]) \in Int /\ Motion(hold'["input"]) \in Int
    BY <2>1, <2>2, <2>3, MotionTypes
  <2>7. written' = written /\ line' = line /\ qcx' = qcx
    BY <1>3 DEF Put
  <2>8. written + (Motion(line) + Motion(slot) + Motion(hold["move"]) + Motion(hold["input"]))
          + dropped = qcx
    BY DEF MotionConserved, Pending
  <2>9. written' + (Motion(line') + Motion(slot') + Motion(hold'["move"]) + Motion(hold'["input"]))
          + dropped' = qcx'
    BY <2>2, <2>5, <2>6, <2>7, <2>8, Tallies
  <2>10. MotionConserved'
    BY <2>9 DEF MotionConserved, Pending
  <2> QED
    BY <2>4, <2>7, <2>10 DEF LinesClamped
<1> QED
  BY <1>1, <1>2, <1>3

(* The two writers: take and write move motion on and lose none of it.     *)
LEMMA WriterStep ==
    ASSUME MoveInv,
           PumpWake \/ (\E w \in {"pump", "input"} : Lock(w)) \/ Take \/ WriteMove
             \/ PumpDone \/ Drained \/ WritePress \/ HelperReads
    PROVE  MoveInv'
<1> USE DEF MoveInv, slotVars, outVars, tallyVars, pageVars, sentVars, countVars, chanVars, seqVars,
           histVars
<1>1. CASE PumpWake
  BY <1>1 DEF PumpWake, TypeOK, MotionConserved, Pending, LinesClamped
<1>2. ASSUME NEW w \in {"pump", "input"}, Lock(w) PROVE MoveInv'
  BY <1>2 DEF Lock, TypeOK, MotionConserved, Pending, LinesClamped
<1>3. CASE Take
  <2>1. slot \in Moves /\ line = None /\ slot.v \in Int /\ None \in Moves
    BY <1>3, MotionTypes DEF Take, TypeOK, Moves
  <2>2. Clamp(slot.v) \in Int /\ Clamp(slot.v) \in -MaxDelta..MaxDelta
    BY <2>1, ClampBounds
  <2>3. slot' \in Moves /\ line' \in Moves
    BY <1>3, <2>1, <2>2 DEF Take, Moves
  <2>4. Motion(slot') + Motion(line') = Motion(slot) /\ Motion(line) = 0
    BY <1>3, <2>1, <2>2, MotionTypes DEF Take, Motion
  <2>5. LinesClamped'
    BY <1>3, <2>1, <2>2, MoveAssumption DEF Take, Motion, LinesClamped
  <2>6. TypeOK'
    BY <1>3, <2>3 DEF Take, TypeOK
  <2>7. UNCHANGED <<hold, written, dropped, qcx>>
    BY <1>3 DEF Take
  <2>8. Motion(hold["move"]) \in Int /\ Motion(hold["input"]) \in Int /\ Motion(slot) \in Int
        /\ Motion(slot') \in Int /\ Motion(line') \in Int
    BY <2>1, <2>3, MotionTypes DEF TypeOK
  <2>9. MotionConserved'
    BY <2>4, <2>7, <2>8 DEF MotionConserved, Pending, TypeOK
  <2> QED
    BY <2>5, <2>6, <2>9
<1>4. CASE WriteMove
  <2>1. line \in Moves /\ Motion(line) \in Int /\ (line.t = "m" => line.v \in Int)
    BY MotionTypes DEF TypeOK, Moves, None
  <2>2. line' = None /\ Motion(line') = 0 /\ written' = written + Motion(line)
        /\ pipe' \in 0..PipeCap /\ cursor' \in Int
    BY <1>4, <2>1, MotionTypes, MoveAssumption DEF WriteMove, TypeOK
  <2>3. TypeOK'
    BY <1>4, <2>1, <2>2, MotionTypes DEF WriteMove, TypeOK
  <2>4. UNCHANGED <<hold, slot, dropped, qcx>>
    BY <1>4 DEF WriteMove
  <2>5. Motion(hold["move"]) \in Int /\ Motion(hold["input"]) \in Int /\ Motion(slot) \in Int
    BY MotionTypes DEF TypeOK
  <2>6. MotionConserved'
    BY <2>1, <2>2, <2>4, <2>5 DEF MotionConserved, Pending, TypeOK
  <2>7. LinesClamped'
    BY <2>2, MoveAssumption DEF LinesClamped
  <2> QED
    BY <2>3, <2>6, <2>7
<1>5. CASE PumpDone \/ Drained
  BY <1>5 DEF PumpDone, Drained, TypeOK, MotionConserved, Pending, LinesClamped
<1>6. CASE WritePress
  <2>1. click \in Presses /\ click.v \in Int /\ None \in Presses
    BY MotionTypes DEF TypeOK, Presses
  <2>2. pipe' \in 0..PipeCap /\ cursor' \in Int /\ pressed' \in Nat
    BY <1>6, <2>1, MoveAssumption DEF WritePress, TypeOK
  <2>3. TypeOK'
    BY <1>6, <2>1, <2>2 DEF WritePress, TypeOK
  <2> QED
    BY <1>6, <2>3 DEF WritePress, MotionConserved, Pending, LinesClamped
<1>7. CASE HelperReads
  <2>1. pipe' \in 0..PipeCap
    BY <1>7, MoveAssumption DEF HelperReads, TypeOK
  <2> QED
    BY <1>7, <2>1 DEF HelperReads, TypeOK, MotionConserved, Pending, LinesClamped
<1> QED
  BY <1>1, <1>2, <1>3, <1>4, <1>5, <1>6, <1>7

(* Every step keeps the invariant.                                         *)
LEMMA MoveStep == MoveInv /\ [Next]_vars => MoveInv'
<1> SUFFICES ASSUME MoveInv, [Next]_vars PROVE MoveInv'
  OBVIOUS
<1>1. ASSUME User \/ Timers PROVE MoveInv'
  <2>1. TypeOK'
    BY <1>1, PageTypes DEF MoveInv
  <2>2. CASE StreamEnds
    <3>1. written' = 0 /\ dropped' = 0 /\ qcx' = 0 /\ slot' = None /\ line' = None
          /\ hold'["move"] = None /\ hold'["input"] = None
      BY <2>2 DEF StreamEnds
    <3> QED
      BY <2>1, <3>1, MotionTypes, MoveAssumption
      DEF MoveInv, MotionConserved, Pending, LinesClamped
  <2>3. CASE ~StreamEnds
    <3>1. UNCHANGED hostVars
      BY <1>1, <2>3 DEF User, Timers, MouseMotion, MousePoint, Engage, Release, SwitchMode, Press,
                        AnnounceInput, AnnounceMove, FlushTimer, SettleTimer
    <3> QED
      BY <2>1, <3>1, PageKeepsHost DEF MoveInv
  <2> QED
    BY <2>2, <2>3
<1>2. ASSUME NEW m \in net, Lose(m) PROVE MoveInv'
  <2>1. UNCHANGED hostVars
    BY <1>2 DEF Lose
  <2>2. TypeOK'
    BY <1>2 DEF Lose, TypeOK, MoveInv, pageVars, sentVars, countVars, hostVars, seqVars, slotVars,
                outVars, tallyVars, histVars
  <2> QED
    BY <2>1, <2>2, PageKeepsHost DEF MoveInv
<1>3. CASE (\E m \in net : RecvMove(m)) \/ Host
  BY <1>3, ReceiveStep, WriterStep DEF Host
<1>4. CASE UNCHANGED vars
  BY <1>4 DEF vars, pageVars, sentVars, countVars, chanVars, seqVars, slotVars, outVars, tallyVars,
              histVars, MoveInv, TypeOK, MotionConserved, Pending, LinesClamped
<1> QED
  BY <1>1, <1>2, <1>3, <1>4 DEF Next, Network

-----------------------------------------------------------------------------
(* The types of the page's, the channels' and the host's state are right   *)
(* in every reachable state: no line waits on a full pipe.                 *)
THEOREM MoveTypes == Spec => []TypeOK
<1>1. MoveInv => TypeOK
  BY DEF MoveInv
<1> QED
  BY <1>1, MoveInitially, MoveStep, PTL DEF Spec

(* No motion the host has accepted is ever lost or doubled between         *)
(* moveSeq.accept and the helper's stdin: it is written, in one pair of    *)
(* hands, or replaced by an absolute position (moveSlot.put and take).     *)
THEOREM NoMotionLost == Spec => []MotionConserved
<1>1. MoveInv => MotionConserved
  BY DEF MoveInv
<1> QED
  BY <1>1, MoveInitially, MoveStep, PTL DEF Spec

(* However far deltas have added up while the injector was behind, what is *)
(* taken to be written fits one line (maxDelta).                           *)
THEOREM EveryLineClamped == Spec => []LinesClamped
<1>1. MoveInv => LinesClamped
  BY DEF MoveInv
<1> QED
  BY <1>1, MoveInitially, MoveStep, PTL DEF Spec

-----------------------------------------------------------------------------
(***************************************************************************)
(* No phantom motion.  Until a session's move channel is announced nothing *)
(* has been sent that carries totals, or the property claims nothing.      *)
(* From then on the messages that carry totals and have not been received  *)
(* agree with each other and with what the host has: a newer one never     *)
(* says less, and none that is still news says less than the host knows.   *)
(* So every difference moveSeq takes turns the way the user turned the     *)
(* mouse, and the sum of what is written is at most what the host has      *)
(* accepted, which is at most what the user has done.                      *)
(***************************************************************************)
InFlight == {m \in net : m.t = "c"} \cup {rel[i] : i \in {j \in 1..Len(rel) : rel[j].t = "c"}}

Fresh == InFlight = {} /\ qcx = 0 /\ moved >= 0

Agreed ==
    /\ cum <= moved /\ qcx <= cum
    /\ \A m \in InFlight : m.n <= mseq /\ m.v <= cum
    /\ \A a, b \in InFlight : a.n <= b.n => a.v <= b.v
    /\ \A m \in InFlight : m.n > qn => m.v >= qcx

Forward == /\ Motion(line) >= 0 /\ Motion(slot) >= 0
           /\ Motion(hold["move"]) >= 0 /\ Motion(hold["input"]) >= 0

Honest == Forward /\ IF ch = "open" THEN Agreed ELSE Fresh
Silent == "sent" \notin early
HonestInv == MoveInv /\ (Silent => Honest)

(* The user turns one way.                                                 *)
OneWay == Deltas \subseteq Nat

(* The invariant gives the property: the rest of what the host has         *)
(* accepted is still pending, and it is not negative.                      *)
LEMMA HonestGivesNoPhantom == HonestInv => NoPhantomMotion
<1> SUFFICES ASSUME HonestInv, Silent PROVE written + dropped <= moved
  BY DEF NoPhantomMotion, Silent
<1>1. qcx <= moved /\ moved \in Int
  <2>1. moved \in Int /\ qcx \in Int /\ cum \in Int
    BY DEF HonestInv, MoveInv, TypeOK
  <2> QED
    BY <2>1 DEF HonestInv, Honest, Fresh, Agreed
<1>2. written + (Motion(line) + Motion(slot) + Motion(hold["move"]) + Motion(hold["input"]))
        + dropped = qcx
  BY DEF HonestInv, MoveInv, MotionConserved, Pending
<1> QED
  BY <1>1, <1>2, Tallies DEF HonestInv, Honest, MoveInv, Forward

(* What is in flight are sequenced totals.                                 *)
LEMMA InFlightTypes ==
    /\ TypeOK => \A m \in InFlight : m \in Wire /\ m.n \in Nat /\ m.v \in Int /\ m.t = "c"
    /\ TypeOK' => \A m \in InFlight' : m \in Wire /\ m.n \in Nat /\ m.v \in Int /\ m.t = "c"
<1>1. ASSUME TypeOK, NEW m \in InFlight
      PROVE  m \in Wire /\ m.n \in Nat /\ m.v \in Int /\ m.t = "c"
  <2>1. m \in Wire \cup Presses /\ m.t = "c"
    BY <1>1 DEF TypeOK, InFlight, Wire
  <2> QED
    BY <2>1 DEF Wire, Presses
<1>2. ASSUME TypeOK', NEW m \in InFlight'
      PROVE  m \in Wire /\ m.n \in Nat /\ m.v \in Int /\ m.t = "c"
  <2>1. net' \subseteq Wire /\ rel' \in Seq(Wire \cup Presses)
    BY <1>2 DEF TypeOK
  <2>2. m \in Wire \cup Presses
    BY <1>2, <2>1 DEF InFlight
  <2>3. m.t = "c"
    BY <1>2 DEF InFlight
  <2> QED
    BY <2>2, <2>3 DEF Wire, Presses
<1> QED
  BY <1>1, <1>2

(* Nothing has been sent or received at the start.                         *)
LEMMA HonestInitially == Init => HonestInv
<1> SUFFICES ASSUME Init PROVE HonestInv
  OBVIOUS
<1>1. MoveInv
  BY MoveInitially
<1>2. Fresh /\ ch = "input"
  BY DEF Init, Fresh, InFlight
<1>3. Forward
  BY MotionTypes DEF Init, Forward
<1> QED
  BY <1>1, <1>2, <1>3 DEF HonestInv, Honest

-----------------------------------------------------------------------------
(* The page sends totals it has, under numbers it has not used yet.        *)
LEMMA PageSends ==
    ASSUME MoveInv, MoveInv', Honest, ch = "open", ch' = "open", UNCHANGED hostVars,
           cum' <= moved', cum' >= cum, mseq' >= mseq,
           \A m \in InFlight' : m \in InFlight \/ (m.n > mseq /\ m.n <= mseq' /\ m.v = cum')
    PROVE  Honest'
<1>1. TypeOK /\ TypeOK' /\ Agreed /\ Forward
  BY DEF Honest, MoveInv
<1>2. Forward' /\ qcx' = qcx /\ qn' = qn
  BY <1>1 DEF Forward, hostVars, seqVars, slotVars, outVars, Motion
<1>3. \A m \in InFlight : m.n \in Nat /\ m.v \in Int
  BY <1>1, InFlightTypes
<1>4. \A m \in InFlight' : m.n \in Nat /\ m.v \in Int
  BY <1>1, InFlightTypes
<1>5. cum \in Int /\ cum' \in Int /\ mseq \in Nat /\ mseq' \in Nat /\ qn \in Nat /\ qcx \in Int
  BY <1>1 DEF TypeOK
<1>6. Agreed'
  <2>1. cum' <= moved' /\ qcx' <= cum'
    BY <1>1, <1>2, <1>5 DEF Agreed
  <2>2. \A m \in InFlight' : m.n <= mseq' /\ m.v <= cum'
    BY <1>1, <1>3, <1>4, <1>5 DEF Agreed
  <2>3. \A a, b \in InFlight' : a.n <= b.n => a.v <= b.v
    BY <1>1, <1>3, <1>4, <1>5 DEF Agreed
  <2>4. \A m \in InFlight' : m.n > qn' => m.v >= qcx'
    BY <1>1, <1>2, <1>3, <1>4, <1>5 DEF Agreed
  <2> QED
    BY <2>1, <2>2, <2>3, <2>4 DEF Agreed
<1> QED
  BY <1>2, <1>6 DEF Honest

(* Before the move channel is announced nothing goes out that counts.      *)
LEMMA PageWaits ==
    ASSUME MoveInv, MoveInv', Honest, ch # "open", ch' # "open", UNCHANGED hostVars,
           moved' >= moved, InFlight' = {}
    PROVE  Honest'
<1>1. Forward' /\ qcx' = qcx
  BY DEF Honest, Forward, hostVars, seqVars, slotVars, outVars, Motion
<1>2. moved \in Int /\ moved' \in Int
  BY DEF MoveInv, TypeOK
<1> QED
  BY <1>1, <1>2 DEF Honest, Fresh

(* What is sent on the input channel adds its totals to what is in flight, *)
(* and none while it is alone and nothing sequenced is sent by it.         *)
LEMMA SentInFlight ==
    ASSUME TypeOK, NEW msgs \in Seq(Wire \cup Presses), SendInput(msgs)
    PROVE  /\ Silent' => Silent
           /\ \A m \in InFlight' :
                 \/ m \in InFlight \/ m \in net'
                 \/ \E j \in 1..Len(msgs) : m = msgs[j] /\ m.t = "c"
           /\ ch # "open" /\ Silent' => InFlight' \subseteq InFlight \cup net'
<1>1. rel \in Seq(Wire \cup Presses) /\ DOMAIN msgs = 1..Len(msgs)
  BY DEF TypeOK
<1>2. \A i \in 1..Len(rel') :
         \/ i \in 1..Len(rel) /\ rel'[i] = rel[i]
         \/ (ch # "closed") /\ (\E j \in 1..Len(msgs) : rel'[i] = msgs[j])
  <2>1. CASE ch = "closed"
    BY <2>1 DEF SendInput
  <2>2. CASE ch # "closed"
    <3>1. rel' = rel \o msgs
      BY <2>2 DEF SendInput
    <3>2. ASSUME NEW i \in 1..Len(rel \o msgs)
          PROVE  \/ i \in 1..Len(rel) /\ (rel \o msgs)[i] = rel[i]
                 \/ \E j \in 1..Len(msgs) : (rel \o msgs)[i] = msgs[j]
      BY <1>1, ConcatElements
    <3> QED
      BY <2>2, <3>1, <3>2
  <2> QED
    BY <2>1, <2>2
<1>3. \A m \in InFlight' :
         \/ m \in InFlight \/ m \in net'
         \/ (ch # "closed") /\ (\E j \in 1..Len(msgs) : m = msgs[j] /\ m.t = "c")
  BY <1>2 DEF InFlight
<1>4. ch = "input" /\ Silent' => \A j \in 1..Len(msgs) : msgs[j].t # "c"
  BY <1>1 DEF SendInput, Silent
<1>5. Silent' => Silent
  BY DEF SendInput, Silent
<1>6. ch \in {"closed", "input", "open"}
  BY DEF TypeOK
<1> QED
  BY <1>3, <1>4, <1>5, <1>6

(* With the move channel there, the flush uses the move channel only, and  *)
(* without it the move channel is not used.                                *)
LEMMA FlushOnMoveChannel ==
    ASSUME TypeOK, NEW m \in Modes
    PROVE  /\ SeqAfter(m) \in Nat /\ SeqAfter(m) >= mseq
           /\ ch = "open" => OnInput(m) = <<>>
           /\ ch # "open" => OnMove(m) = {}
           /\ \A w \in OnMove(m) : w.n = SeqAfter(m) /\ w.n > mseq /\ (w.t = "c" => w.v = cum)
<1>1. (ch = "open" => OnInput(m) = <<>>) /\ (ch # "open" => OnMove(m) = {})
  BY DEF OnInput, OnMove
<1>2. SeqAfter(m) \in Nat /\ SeqAfter(m) >= mseq
  BY DEF TypeOK, SeqAfter
<1>3. \A w \in OnMove(m) : w = FlushMsg(m) /\ Flushes(m)
  BY DEF OnMove
<1>4. ASSUME NEW w \in OnMove(m)
      PROVE  w.n = SeqAfter(m) /\ w.n > mseq /\ (w.t = "c" => w.v = cum)
  BY <1>3 DEF FlushMsg, SeqAfter, TypeOK
<1> QED
  BY <1>1, <1>2, <1>4

(* A step that sends on both channels: under the numbers it takes, the     *)
(* totals the page has.                                                    *)
LEMMA HonestSend ==
    ASSUME HonestInv, MoveInv', UNCHANGED <<ch, cum, moved>>, UNCHANGED hostVars,
           NEW out \in SUBSET Wire, net' = net \cup out, ch # "open" => out = {},
           NEW msgs \in Seq(Wire \cup Presses), SendInput(msgs),
           mseq' >= mseq,
           ch = "open" => \A w \in out \cup {msgs[j] : j \in 1..Len(msgs)} :
                             w.t = "c" => w.n > mseq /\ w.n <= mseq' /\ w.v = cum
    PROVE  HonestInv'
<1>1. TypeOK /\ TypeOK'
  BY DEF HonestInv, MoveInv
<1> SUFFICES ASSUME Silent' PROVE Honest'
  BY DEF HonestInv
<1>2. Honest /\ MoveInv
  BY <1>1, SentInFlight DEF HonestInv
<1>3. CASE ch = "open"
  <2>1. \A m \in InFlight' : m \in InFlight \/ (m.n > mseq /\ m.n <= mseq' /\ m.v = cum')
    <3>1. ASSUME NEW m \in InFlight', m \notin InFlight
          PROVE  m \in out \cup {msgs[j] : j \in 1..Len(msgs)} /\ m.t = "c"
      <4>1. m.t = "c"
        BY <1>1, InFlightTypes
      <4>2. m \in net' => m \in out
        BY <3>1, <4>1 DEF InFlight
      <4> QED
        BY <1>1, <3>1, <4>1, <4>2, SentInFlight
    <3> QED
      BY <1>3, <3>1
  <2>2. cum' <= moved' /\ cum' >= cum
    BY <1>1, <1>2, <1>3 DEF Honest, Agreed, TypeOK
  <2> QED
    BY <1>2, <1>3, <2>1, <2>2, PageSends
<1>4. CASE ch # "open"
  <2>1. InFlight' \subseteq InFlight \cup net /\ InFlight = {}
    BY <1>1, <1>2, <1>4, SentInFlight DEF Honest, Fresh
  <2>2. \A m \in InFlight' : m.t = "c"
    BY <1>1, InFlightTypes
  <2>3. InFlight' = {}
    BY <2>1, <2>2 DEF InFlight
  <2>4. moved' >= moved
    BY <1>1 DEF TypeOK
  <2> QED
    BY <1>2, <1>4, <2>3, <2>4, PageWaits
<1> QED
  BY <1>3, <1>4

(* Every step of the page.                                                 *)
LEMMA HonestPage ==
    ASSUME OneWay, HonestInv, MoveInv', User \/ Timers
    PROVE  HonestInv'
<1> USE DEF hostVars, chanVars, countVars, histVars
<1>0. TypeOK /\ TypeOK' /\ MoveInv /\ (Silent => Honest)
  BY DEF HonestInv, MoveInv
<1>00. /\ mseq \in Nat /\ cum \in Int /\ moved \in Int /\ ch \in {"closed", "input", "open"}
       /\ <<>> \in Seq(Wire \cup Presses)
  BY <1>0 DEF TypeOK
<1>1. ASSUME NEW d \in Deltas, MouseMotion(d) PROVE HonestInv'
  <2>1. /\ d \in Nat /\ ch' = ch /\ cum' = cum + d
        /\ moved' = IF ch = "closed" THEN moved ELSE moved + d
        /\ mseq' = mseq /\ net' = net /\ rel' = rel /\ UNCHANGED hostVars
        /\ Silent' = Silent
    BY <1>1 DEF MouseMotion, OneWay, Silent
  <2>2. InFlight' = InFlight
    BY <2>1 DEF InFlight
  <2>3. CASE ch = "open" /\ Silent
    <3>1. cum' <= moved' /\ cum' >= cum /\ mseq' >= mseq
      BY <1>0, <1>00, <2>1, <2>3 DEF Honest, Agreed
    <3>2. Honest'
      BY <1>0, <2>1, <2>2, <2>3, <3>1, PageSends
    <3> QED
      BY <3>2 DEF HonestInv
  <2>4. CASE ch # "open" /\ Silent
    <3>1. InFlight' = {} /\ moved' >= moved
      BY <1>0, <1>00, <2>1, <2>2, <2>4 DEF Honest, Fresh
    <3>2. Honest'
      BY <1>0, <2>1, <2>4, <3>1, PageWaits
    <3> QED
      BY <3>2 DEF HonestInv
  <2> QED
    BY <2>1, <2>3, <2>4 DEF HonestInv
<1>2. CASE MousePoint \/ Engage \/ SwitchMode \/ AnnounceInput
  <2>1. /\ (ch = "open") <=> (ch' = "open")
        /\ UNCHANGED <<cum, moved, mseq, net, rel, early>>
        /\ UNCHANGED hostVars
    <3>1. CASE MousePoint
      BY <3>1 DEF MousePoint
    <3>2. CASE Engage
      BY <3>2 DEF Engage, sentVars
    <3>3. CASE SwitchMode
      BY <3>3 DEF SwitchMode, sentVars
    <3>4. CASE AnnounceInput
      BY <3>4 DEF AnnounceInput, sentVars
    <3> QED
      BY <1>2, <3>1, <3>2, <3>3, <3>4
  <2>2. InFlight' = InFlight /\ Silent' = Silent
    BY <2>1 DEF InFlight, Silent
  <2>3. Honest => Honest'
    <3>1. Forward => Forward'
      BY <2>1 DEF Forward, seqVars, slotVars, outVars, Motion
    <3>2. Fresh => Fresh'
      BY <2>1, <2>2 DEF Fresh, seqVars
    <3>3. Agreed => Agreed'
      BY <2>1, <2>2 DEF Agreed, seqVars
    <3> QED
      BY <2>1, <3>1, <3>2, <3>3 DEF Honest
  <2> QED
    BY <1>0, <2>2, <2>3 DEF HonestInv
<1>3. CASE Release
  <2> DEFINE msg == [t |-> "x", v |-> 0]
  <2>1. UNCHANGED <<ch, cum, moved, mseq, net>> /\ UNCHANGED hostVars /\ SendInput(<<msg>>)
    BY <1>3 DEF Release, sentVars
  <2>2. msg \in Wire \cup Presses /\ msg.t # "c"
    BY DEF Presses
  <2> HIDE DEF msg
  <2>3. <<msg>> \in Seq(Wire \cup Presses) /\ \A j \in 1..Len(<<msg>>) : <<msg>>[j] = msg
    BY <2>2
  <2>4. net' = net \cup {} /\ mseq' >= mseq
    BY <1>00, <2>1
  <2>5. \A w \in {} \cup {<<msg>>[j] : j \in 1..Len(<<msg>>)} :
           w.t = "c" => w.n > mseq /\ w.n <= mseq' /\ w.v = cum
    BY <2>2, <2>3
  <2>6. {} \in SUBSET Wire
    OBVIOUS
  <2>7. (ch # "open") => ({} = {})
    OBVIOUS
  <2> QED
    BY <2>1, <2>3, <2>4, <2>5, <2>6, <2>7, HonestSend
<1>4. CASE Press
  <2> DEFINE n == SeqAfter(mode)
             stl == SettleMsg("game", n + 1)
             msgs == OnInput(mode) \o PressTotals(n) \o <<PressItself>>
  <2>1. mode \in Modes
    BY <1>0 DEF TypeOK
  <2>2. UNCHANGED <<ch, cum, moved>> /\ UNCHANGED hostVars /\ net' = net \cup OnMove(mode)
    BY <1>4 DEF Press, Flush
  <2>3. /\ n \in Nat /\ n >= mseq
        /\ ch = "open" => OnInput(mode) = <<>>
        /\ ch # "open" => OnMove(mode) = {}
        /\ \A w \in OnMove(mode) : w.n = n /\ w.n > mseq /\ (w.t = "c" => w.v = cum)
    BY <1>0, <2>1, FlushOnMoveChannel
  <2>4. OnMove(mode) \in SUBSET Wire
    BY <1>0, <2>1, PageMessages
  <2>5. /\ SendInput(msgs) /\ msgs \in Seq(Wire \cup Presses)
        /\ OnInput(mode) \in Seq(Wire \cup Presses) /\ PressTotals(n) \in Seq(Wire \cup Presses)
        /\ OnInput(mode) \o PressTotals(n) \in Seq(Wire \cup Presses)
        /\ <<PressItself>> \in Seq(Wire \cup Presses) /\ PressItself \in Presses
        /\ mseq' = IF mode = "game" /\ n > 0 THEN n + 1 ELSE n
    BY <1>0, <1>4, PressMessages
  <2>6. PressItself.t # "c"
    BY DEF PressItself
  <2>7. stl.n = n + 1 /\ stl.v = cum
    BY DEF SettleMsg
  <2> HIDE DEF n
  <2>8. mseq' >= mseq /\ (\A w \in OnMove(mode) : w.n <= mseq')
        /\ (mode = "game" /\ n > 0 => stl.n > mseq /\ stl.n <= mseq')
    BY <1>00, <2>3, <2>5, <2>7
  <2>9. \A j \in 1..Len(PressTotals(n)) : PressTotals(n)[j] = stl /\ mode = "game" /\ n > 0
    BY DEF PressTotals
  <2>10. \A j \in 1..Len(<<PressItself>>) : <<PressItself>>[j] = PressItself
    OBVIOUS
  <2>11. ASSUME ch = "open", NEW j \in 1..Len(msgs), msgs[j].t = "c"
         PROVE  msgs[j] = stl /\ mode = "game" /\ n > 0
    <3> HIDE DEF stl
    <3> DEFINE pre == OnInput(mode) \o PressTotals(n)
    <3>1. pre = PressTotals(n)
      BY <2>3, <2>5, <2>11, ConcatEmptySeq
    <3>2. (j \in 1..Len(pre) /\ msgs[j] = pre[j]) \/ \E k \in 1..Len(<<PressItself>>) : msgs[j] = <<PressItself>>[k]
      BY <2>5, <2>11, ConcatElements
    <3> QED
      BY <2>6, <2>9, <2>10, <2>11, <3>1, <3>2
  <2> HIDE DEF msgs, stl
  <2>12. ch = "open" => \A w \in OnMove(mode) \cup {msgs[j] : j \in 1..Len(msgs)} :
                           w.t = "c" => w.n > mseq /\ w.n <= mseq' /\ w.v = cum
    BY <2>3, <2>7, <2>8, <2>11
  <2> QED
    BY <2>2, <2>3, <2>4, <2>5, <2>8, <2>12, HonestSend
<1>5. CASE StreamEnds
  <2>1. Fresh' /\ ch' = "closed"
    BY <1>5 DEF StreamEnds, Fresh, InFlight
  <2>2. Forward'
    BY <1>5, MotionTypes DEF StreamEnds, Forward
  <2> QED
    BY <2>1, <2>2 DEF HonestInv, Honest
<1>6. CASE AnnounceMove
  <2>1. ch = "input" /\ ch' = "open" /\ cum' = 0 /\ UNCHANGED <<net, rel, early, moved>> /\ UNCHANGED hostVars
    BY <1>6 DEF AnnounceMove
  <2>2. InFlight' = InFlight /\ Silent' = Silent
    BY <2>1 DEF InFlight, Silent
  <2>3. Honest => Agreed' /\ Forward'
    <3>1. Fresh => Agreed'
      BY <2>1, <2>2 DEF Agreed, Fresh, seqVars
    <3>2. Forward => Forward'
      BY <2>1 DEF Forward, seqVars, slotVars, outVars, Motion
    <3> QED
      BY <2>1, <3>1, <3>2 DEF Honest
  <2> QED
    BY <1>0, <2>1, <2>2, <2>3 DEF HonestInv, Honest
<1>7. ASSUME NEW m \in Modes, FlushTimer(m) PROVE HonestInv'
  <2>1. UNCHANGED <<ch, cum, moved>> /\ UNCHANGED hostVars /\ net' = net \cup OnMove(m)
        /\ mseq' = SeqAfter(m) /\ SendInput(OnInput(m))
    BY <1>7 DEF FlushTimer, Flush
  <2>2. /\ SeqAfter(m) \in Nat /\ SeqAfter(m) >= mseq
        /\ ch = "open" => OnInput(m) = <<>>
        /\ ch # "open" => OnMove(m) = {}
        /\ \A w \in OnMove(m) : w.n = SeqAfter(m) /\ w.n > mseq /\ (w.t = "c" => w.v = cum)
    BY <1>0, FlushOnMoveChannel
  <2>3. OnMove(m) \in SUBSET Wire /\ OnInput(m) \in Seq(Wire \cup Presses)
    BY <1>0, PageMessages
  <2>4. ch = "open" => \A w \in OnMove(m) \cup {OnInput(m)[j] : j \in 1..Len(OnInput(m))} :
                          w.t = "c" => w.n > mseq /\ w.n <= mseq' /\ w.v = cum
    <3>1. ch = "open" => Len(OnInput(m)) = 0
      BY <2>2
    <3>2. \A w \in OnMove(m) : w.n <= mseq'
      BY <2>1, <2>2
    <3> QED
      BY <2>2, <3>1, <3>2
  <2> QED
    BY <2>1, <2>2, <2>3, <2>4, HonestSend
<1>8. ASSUME NEW m \in Modes, SettleTimer(m) PROVE HonestInv'
  <2> DEFINE stl == SettleMsg(m, mseq + 1)
  <2>1. UNCHANGED <<ch, cum, moved, net>> /\ UNCHANGED hostVars
    BY <1>8 DEF SettleTimer
  <2>2. CASE UNCHANGED <<mseq, rel, early>>
    <3>1. rel' = rel /\ rel' = rel /\ InFlight' = InFlight /\ Silent' = Silent
      BY <2>1, <2>2 DEF InFlight, Silent
    <3>2. Honest => Honest'
      BY <2>1, <2>2, <3>1 DEF Honest, Forward, Fresh, Agreed, seqVars, slotVars, outVars, Motion
    <3> QED
      BY <1>0, <3>1, <3>2 DEF HonestInv
  <2>3. CASE mseq' = mseq + 1 /\ SendInput(<<stl>>)
    <3>1. stl \in Wire /\ stl.n = mseq + 1 /\ (stl.t = "c" => stl.v = cum)
      BY <1>0, <1>00, PageMessages DEF SettleMsg
    <3> HIDE DEF stl
    <3>2. <<stl>> \in Seq(Wire \cup Presses) /\ \A j \in 1..Len(<<stl>>) : <<stl>>[j] = stl
      BY <3>1
    <3>3. net' = net \cup {} /\ mseq' >= mseq /\ mseq + 1 > mseq
      BY <1>00, <2>1, <2>3
    <3>4. \A w \in {} \cup {<<stl>>[j] : j \in 1..Len(<<stl>>)} :
             w.t = "c" => w.n > mseq /\ w.n <= mseq' /\ w.v = cum
      BY <1>00, <2>3, <3>1, <3>2, <3>3
    <3>5. {} \in SUBSET Wire
      OBVIOUS
    <3>6. (ch # "open") => ({} = {})
      OBVIOUS
    <3> QED
      BY <2>1, <2>3, <3>2, <3>3, <3>4, <3>5, <3>6, HonestSend
  <2> QED
    BY <1>8, <2>2, <2>3 DEF SettleTimer
<1> QED
  BY <1>1, <1>2, <1>3, <1>4, <1>5, <1>6, <1>7, <1>8 DEF User, Timers

(* A callback that accepts totals takes no difference against the user's   *)
(* direction, and leaves in flight what still agrees with what it took.    *)
LEMMA HonestAccept ==
    ASSUME HonestInv, MoveInv', NEW g \in Callbacks, NEW m \in Wire, hold[g] = None, Accept(g, m),
           m.t = "c" => m \in InFlight,
           UNCHANGED <<ch, cum, moved, mseq, line, slot, early>>,
           \A w \in InFlight' : w \in InFlight
    PROVE  HonestInv'
<1> SUFFICES ASSUME Silent PROVE Honest'
  BY DEF HonestInv, Silent
<1>1. TypeOK /\ TypeOK' /\ Forward /\ (ch = "open" => Agreed) /\ (ch # "open" => Fresh)
  BY DEF HonestInv, MoveInv, Honest
<1>2. m.n \in Nat /\ m.v \in Int /\ m.t \in {"m", "c"} /\ qn \in Nat /\ qcx \in Int /\ cum \in Int
  BY <1>1 DEF TypeOK, Wire
<1>3. \A w \in InFlight : w.n \in Nat /\ w.v \in Int
  BY <1>1, InFlightTypes
<1> DEFINE mv == IF m.n <= qn THEN None
                 ELSE IF m.t = "m" THEN [t |-> "m", v |-> m.v]
                 ELSE IF m.v = qcx THEN None ELSE [t |-> "r", v |-> m.v - qcx]
<1>4. hold' = [hold EXCEPT ![g] = mv] /\ hold \in [Callbacks -> Moves]
  BY <1>1 DEF Accept, TypeOK
<1>5. m.t = "c" /\ m.n > qn => m.v >= qcx /\ (ch = "open" => m.v <= cum)
  BY <1>1 DEF Agreed, Fresh
<1>9. m.t = "c" /\ m.n > qn => m.v >= qcx
  BY <1>5
<1>6. Motion(mv) >= 0
  BY <1>2, <1>5, MotionTypes DEF Motion
<1> HIDE DEF mv
<1>7. Forward'
  <2>1. Motion(line') >= 0 /\ Motion(slot') >= 0
    BY <1>1 DEF Forward, Motion
  <2>2. Motion(hold'["move"]) >= 0
    BY <1>1, <1>4, <1>6 DEF Forward
  <2>3. Motion(hold'["input"]) >= 0
    BY <1>1, <1>4, <1>6 DEF Forward
  <2> QED
    BY <2>1, <2>2, <2>3 DEF Forward
<1>8. ch = "open" => Agreed'
  <2> SUFFICES ASSUME ch = "open" PROVE Agreed'
    OBVIOUS
  <2>1. qcx' <= cum'
    BY <1>1, <1>2, <1>5 DEF Accept, Agreed
  <2>2. ASSUME NEW w \in InFlight', w.n > qn' PROVE w.v >= qcx'
    <3>1. w \in InFlight /\ w.n \in Nat /\ w.v \in Int
      BY <1>3
    <3>2. CASE m.n > qn /\ m.t = "c"
      <4>1. qn' = m.n /\ qcx' = m.v /\ m \in InFlight
        BY <3>2 DEF Accept
      <4>2. m.n <= w.n
        BY <1>2, <2>2, <3>1, <4>1
      <4> QED
        BY <1>1, <3>1, <4>1, <4>2 DEF Agreed
    <3>3. CASE ~(m.n > qn /\ m.t = "c")
      <4>1. qcx' = qcx /\ qn' >= qn /\ qn' \in Nat
        BY <1>2, <3>3 DEF Accept
      <4>2. w.n > qn
        BY <1>2, <2>2, <3>1, <4>1
      <4> QED
        BY <1>1, <3>1, <4>1, <4>2 DEF Agreed
    <3> QED
      BY <3>2, <3>3
  <2>3. cum' <= moved' /\ (\A w \in InFlight' : w.n <= mseq' /\ w.v <= cum')
        /\ (\A a, b \in InFlight' : a.n <= b.n => a.v <= b.v)
    BY <1>1 DEF Agreed
  <2> QED
    BY <2>1, <2>2, <2>3 DEF Agreed
<1>10. ch # "open" => Fresh'
  BY <1>1 DEF Fresh, Accept
<1> QED
  BY <1>7, <1>8, <1>10 DEF Honest

(* A step that changes no sequencing and adds nothing in flight keeps the  *)
(* agreement.                                                              *)
LEMMA HonestKeeps ==
    ASSUME HonestInv, MoveInv', Silent => Forward',
           UNCHANGED <<ch, cum, moved, mseq, qn, qcx, early>>,
           net' \subseteq net, rel' = rel \/ (rel # <<>> /\ rel' = Tail(rel))
    PROVE  HonestInv'
<1>1. rel \in Seq(Wire \cup Presses)
  BY DEF HonestInv, MoveInv, TypeOK
<1>2. \A i \in 1..Len(rel') : \E j \in 1..Len(rel) : rel'[i] = rel[j]
  <2>1. CASE rel' = rel
    BY <2>1
  <2>2. CASE rel # <<>> /\ rel' = Tail(rel)
    <3>1. Len(rel) \in Nat /\ Len(rel') = Len(rel) - 1 /\ \A i \in 1..Len(rel') : rel'[i] = rel[i + 1]
      BY <1>1, <2>2, HeadTailProperties, LenProperties
    <3>2. \A i \in 1..Len(rel') : i + 1 \in 1..Len(rel)
      BY <3>1
    <3> QED
      BY <3>1, <3>2
  <2> QED
    BY <2>1, <2>2
<1>3. InFlight' \subseteq InFlight
  BY <1>2 DEF InFlight
<1>4. Fresh => Fresh'
  BY <1>3 DEF Fresh
<1>5. Agreed => Agreed'
  BY <1>3 DEF Agreed
<1> QED
  BY <1>4, <1>5 DEF HonestInv, Honest, Silent

(* What is received, merged, taken and written keeps its direction.        *)
LEMMA HonestHost ==
    ASSUME HonestInv, MoveInv', Network \/ Host
    PROVE  HonestInv'
<1> USE DEF pageVars, sentVars, countVars, chanVars, seqVars, slotVars, outVars, hostVars,
           histVars
<1>0. TypeOK /\ TypeOK' /\ (Silent => Forward)
  BY DEF HonestInv, MoveInv, Honest
<1>1. ASSUME NEW m \in net, RecvMove(m) PROVE HonestInv'
  <2>1. m \in Wire /\ (m.t = "c" => m \in InFlight) /\ hold["move"] = None /\ Accept("move", m)
    BY <1>0, <1>1 DEF RecvMove, TypeOK, InFlight
  <2>3. UNCHANGED <<ch, cum, moved, mseq, line, slot, early>>
    BY <1>1 DEF RecvMove
  <2>4. \A w \in InFlight' : w \in InFlight
    BY <1>1 DEF RecvMove, InFlight
  <2> QED
    BY <2>1, <2>3, <2>4, HonestAccept
<1>2. ASSUME NEW m \in net, Lose(m) PROVE HonestInv'
  <2>1. net' \subseteq net /\ rel' = rel /\ UNCHANGED <<ch, cum, moved, mseq, qn, qcx, early>>
    BY <1>2 DEF Lose
  <2>2. Silent => Forward'
    BY <1>0, <1>2 DEF Lose, Forward, Motion
  <2> QED
    BY <2>1, <2>2, HonestKeeps
<1>3. CASE RecvInput
  <2>1. rel # <<>> /\ rel' = Tail(rel) /\ net' = net /\ rel \in Seq(Wire \cup Presses)
        /\ UNCHANGED <<ch, cum, moved, mseq, line, slot, early>>
    BY <1>0, <1>3 DEF RecvInput, TypeOK
  <2>3. Head(rel) \in Wire \cup Presses /\ Head(rel) = rel[1] /\ 1 \in 1..Len(rel)
    BY <2>1
  <2>4. CASE Head(rel).t \in {"m", "c"}
    <3>1. Head(rel) \in Wire
      BY <2>3, <2>4 DEF Presses
    <3>2. Head(rel).t = "c" => Head(rel) \in InFlight
      BY <2>3 DEF InFlight
    <3>3. hold["input"] = None /\ Accept("input", Head(rel))
      BY <1>3, <2>4 DEF RecvInput
    <3>4. \A w \in InFlight' : w \in InFlight
      <4>1. Len(rel) \in Nat /\ Len(rel') = Len(rel) - 1
            /\ \A i \in 1..Len(rel') : rel'[i] = rel[i + 1]
        BY <2>1, HeadTailProperties, LenProperties
      <4>2. \A i \in 1..Len(rel') : i + 1 \in 1..Len(rel)
        BY <4>1
      <4> QED
        BY <2>1, <4>1, <4>2 DEF InFlight
    <3> QED
      BY <2>1, <3>1, <3>2, <3>3, <3>4, HonestAccept
  <2>5. CASE Head(rel).t \notin {"m", "c"}
    <3>1. UNCHANGED <<qn, qcx, hold>>
      BY <1>3, <2>5 DEF RecvInput
    <3>2. Silent => Forward'
      BY <1>0, <2>1, <3>1 DEF Forward, Motion
    <3> QED
      BY <2>1, <3>1, <3>2, HonestKeeps
  <2> QED
    BY <2>4, <2>5
<1>4. ASSUME NEW g \in Callbacks, Put(g) PROVE HonestInv'
  <2>1. slot \in Moves /\ hold \in [Callbacks -> Moves] /\ hold' = [hold EXCEPT ![g] = None]
        /\ slot' = IF slot.t = "r" /\ hold[g].t = "r" THEN [t |-> "r", v |-> slot.v + hold[g].v]
                                                      ELSE hold[g]
    BY <1>0, <1>4 DEF Put, TypeOK
  <2>2. UNCHANGED <<ch, cum, moved, mseq, qn, qcx, early, net, rel, line>>
    BY <1>4 DEF Put
  <2>3. Silent => Motion(hold[g]) >= 0 /\ Motion(slot) >= 0
    BY <1>0 DEF Forward
  <2>4. hold[g] \in Moves /\ slot.v \in Int /\ hold[g].v \in Int
    BY <2>1 DEF Moves, None
  <2>5. Silent => Motion(slot') >= 0
    BY <2>1, <2>3, <2>4 DEF Motion
  <2>6. Silent => Motion(hold'["move"]) >= 0 /\ Motion(hold'["input"]) >= 0
    BY <1>0, <2>1, MotionTypes DEF Forward
  <2>7. Silent => Forward'
    BY <1>0, <2>2, <2>5, <2>6 DEF Forward, Motion
  <2> QED
    BY <2>2, <2>7, HonestKeeps
<1>5. CASE Take
  <2>a. slot \in Moves
    BY <1>0 DEF TypeOK
  <2>b. slot.v \in Int
    BY <2>a DEF Moves, None
  <2>1. slot \in Moves /\ slot.v \in Int /\ (Silent /\ slot.t = "r" => slot.v >= 0)
    BY <1>0, <2>a, <2>b DEF Forward, Motion
  <2>2. Silent /\ slot.t = "r" => Clamp(slot.v) >= 0 /\ slot.v - Clamp(slot.v) >= 0
    BY <2>1, MoveAssumption DEF Clamp
  <2>3. Silent => Motion(line') >= 0 /\ Motion(slot') >= 0
    BY <1>5, <2>1, <2>2, MotionTypes DEF Take, Motion
  <2>4. UNCHANGED <<ch, cum, moved, mseq, qn, qcx, early, net, rel, hold>>
    BY <1>5 DEF Take
  <2>5. Silent => Forward'
    BY <1>0, <2>3, <2>4 DEF Forward
  <2> QED
    BY <2>4, <2>5, HonestKeeps
<1>6. CASE WriteMove
  <2>1. UNCHANGED <<ch, cum, moved, mseq, qn, qcx, early, net, rel, hold, slot>> /\ line' = None
    BY <1>6 DEF WriteMove
  <2>2. Silent => Forward'
    BY <1>0, <2>1, MotionTypes DEF Forward
  <2> QED
    BY <2>1, <2>2, HonestKeeps
<1>7. CASE PumpWake \/ (\E w \in {"pump", "input"} : Lock(w)) \/ PumpDone \/ Drained \/ WritePress
           \/ HelperReads
  <2>1. UNCHANGED <<ch, cum, moved, mseq, qn, qcx, early, net, rel, hold, slot, line>>
    BY <1>7 DEF PumpWake, Lock, PumpDone, Drained, WritePress, HelperReads
  <2>2. Silent => Forward'
    BY <1>0, <2>1 DEF Forward
  <2> QED
    BY <2>1, <2>2, HonestKeeps
<1> QED
  BY <1>1, <1>2, <1>3, <1>4, <1>5, <1>6, <1>7 DEF Network, Host

(* The steps of both sides put together.                                   *)
LEMMA HonestStep == OneWay /\ HonestInv /\ [Next]_vars => HonestInv'
<1> SUFFICES ASSUME OneWay, HonestInv, [Next]_vars PROVE HonestInv'
  OBVIOUS
<1>1. MoveInv'
  BY MoveStep DEF HonestInv
<1>2. CASE User \/ Timers
  BY <1>1, <1>2, HonestPage
<1>3. CASE Network \/ Host
  BY <1>1, <1>3, HonestHost
<1>4. CASE UNCHANGED vars
  <2>1. Silent' = Silent /\ ch' = ch
    BY <1>4 DEF vars, histVars, pageVars, Silent
  <2>2. Honest => Honest'
    BY <1>4 DEF vars, pageVars, sentVars, countVars, chanVars, seqVars, slotVars, outVars, tallyVars,
                histVars, Honest, Forward, Fresh, Agreed, InFlight
  <2> QED
    BY <1>1, <2>1, <2>2 DEF HonestInv
<1> QED
  BY <1>2, <1>3, <1>4 DEF Next

(* Over any number of sessions, and whatever the move channel loses,       *)
(* doubles up with the reliable copies or reorders, the Mac is never       *)
(* turned further than the user has turned the mouse in this session, if   *)
(* nothing sequenced was sent in it before its move channel was announced  *)
(* (moveSeq.accept, and the page's counters that restart with each one).   *)
THEOREM NoPhantom == Spec => []NoPhantomMotion
<1>1. CASE OneWay
  <2>1. HonestInv /\ [Next]_vars => HonestInv'
    BY <1>1, HonestStep
  <2>2. HonestInv => NoPhantomMotion
    BY HonestGivesNoPhantom
  <2> QED
    BY <2>1, <2>2, HonestInitially, PTL DEF Spec
<1>2. CASE ~OneWay
  <2>1. NoPhantomMotion
    BY <1>2 DEF NoPhantomMotion, OneWay
  <2> QED
    BY <2>1, PTL
<1> QED
  BY <1>1, <1>2
=============================================================================
