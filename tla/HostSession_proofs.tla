------------------------- MODULE HostSession_proofs -------------------------
(***************************************************************************)
(* The invariants of HostSession, for any number of sessions and of        *)
(* signaling connections.                                                  *)
(***************************************************************************)
EXTENDS HostSession, TLAPS

USE DEF Sessions, NoSession

(***************************************************************************)
(* SessionInv is inductive.  A step changes the fields of one session, so  *)
(* most actions need no more than their definition; those that move a      *)
(* session between its keepers are taken conjunct by conjunct.             *)
(***************************************************************************)
THEOREM Initially == Init => SessionInv
<1> SUFFICES ASSUME Init PROVE SessionInv
  OBVIOUS
<1> USE BoundsAssumption DEF Init
<1>1. TypeOK
  <2>1. 0 \in 0..MaxSession /\ 0 \in 0..MaxConn
    OBVIOUS
  <2> QED
    BY <2>1 DEF TypeOK, LoopStates, StreamStates, ReaperStates, PcStates
<1>2. BornInOrder /\ HolderInv /\ NoOrphan
  BY DEF BornInOrder, Unborn, HolderInv, Building, NoOrphan, Unreleased
<1>3. \A s \in Sessions : EndedInv(s)
  BY DEF EndedInv, InStream
<1> QED
  BY <1>1, <1>2, <1>3 DEF SessionInv, Building

(* The streaming goroutine of s goes from one of its steps on the way out  *)
(* to the next, which changes nothing else that SessionInv speaks of.      *)
LEMMA StreamGoesOn ==
    ASSUME SessionInv, NEW s \in Sessions, NEW next \in StreamStates \ (InStream \cup {"closing"}),
           stream[s] \notin {"none", "waiting", "closing", "done"},
           stream' = [stream EXCEPT ![s] = next], stdinOf' \in 0..MaxSession,
           UNCHANGED <<ctlVars, cur, pcVars, cancelled, reaper, helper>>
    PROVE  SessionInv'
<1> USE BoundsAssumption DEF SessionInv, TypeOK, ctlVars, sigVars, loopVars, pcVars, Building
<1>1. TypeOK'
  <2>1. stream' \in [Sessions -> StreamStates]
    OBVIOUS
  <2>2. UNCHANGED <<ctxDone, sock, conn, loop, victim, built, cur, pc, remote, connected,
                    cancelled, reaper, helper>>
    OBVIOUS
  <2> QED
    BY <2>1, <2>2
<1>2. (BornInOrder /\ HolderInv)'
  BY DEF BornInOrder, Unborn, HolderInv
<1>3. NoOrphan'
  BY DEF NoOrphan, Unreleased, InCare, Closing, CurrentInv
<1>4. (\A x \in Sessions : cur = x => CurrentInv(x))'
  BY DEF CurrentInv
<1>5. (\A x \in Sessions : Building /\ built = x => FreshInv(x))'
  BY DEF FreshInv
<1>6. (\A x \in Sessions : EndedInv(x))'
  BY DEF EndedInv
<1> QED
  BY <1>1, <1>2, <1>3, <1>4, <1>5, <1>6

(* The four steps that are of this kind.                                   *)
LEMMA StreamGoesOnStep ==
    ASSUME SessionInv, NEW s \in Sessions,
           UnhookStdin(s) \/ Reap(s) \/ StreamReturns(s) \/ TellViewer(s)
    PROVE  SessionInv'
<1> DEFINE next == CASE stream[s] = "cleanup"   -> "reaping"
                     [] stream[s] = "reaping"   -> "returned"
                     [] stream[s] = "returned"  -> (IF Cancelled(s) THEN "done" ELSE "reporting")
                     [] stream[s] = "reporting" -> "ending"
<1>1. stream[s] \in {"cleanup", "reaping", "returned", "reporting"}
  BY DEF UnhookStdin, Reap, StreamReturns, TellViewer
<1>2. next \in StreamStates \ (InStream \cup {"closing"})
  BY <1>1 DEF StreamStates, InStream
<1>3. stream' = [stream EXCEPT ![s] = next]
  BY DEF UnhookStdin, Reap, StreamReturns, TellViewer
<1>4. stdinOf' \in 0..MaxSession
  BY BoundsAssumption DEF UnhookStdin, Reap, StreamReturns, TellViewer, srcVars, SessionInv, TypeOK
<1>5. UNCHANGED <<ctlVars, cur, pcVars, cancelled, reaper, helper>>
  BY DEF UnhookStdin, Reap, StreamReturns, TellViewer, srcVars
<1> HIDE DEF next
<1> QED
  BY <1>1, <1>2, <1>3, <1>4, <1>5, StreamGoesOn

(* session.close of s by the streaming goroutine of s, which has taken s   *)
(* out of the holder before.                                               *)
LEMMA StreamCloses ==
    ASSUME SessionInv, NEW s \in Sessions, StreamClose(s)
    PROVE  SessionInv'
<1> USE BoundsAssumption DEF SessionInv, TypeOK, ctlVars, sigVars, loopVars, pcVars, pcRest, srcVars,
        Building
<1>1. UNCHANGED <<ctlVars, cur, remote, connected, reaper, srcVars>>
  BY DEF StreamClose
<1>2. stream[s] = "closing" /\ stream' = [stream EXCEPT ![s] = "done"]
  BY DEF StreamClose
<1>3. \A x \in Sessions : /\ pc'[x] = IF x = s THEN "closed" ELSE pc[x]
                          /\ cancelled'[x] = (x = s \/ cancelled[x])
  BY ZenonT(30) DEF StreamClose, CloseSession
<1>4. pc' \in [Sessions -> PcStates] /\ cancelled' \in [Sessions -> BOOLEAN]
  BY DEF StreamClose, CloseSession, PcStates
<1>5. cur # s /\ ~(Building /\ built = s)
  BY <1>2 DEF CurrentInv, FreshInv
<1>6. s <= built
  BY <1>2 DEF BornInOrder, Unborn
<1>7. TypeOK'
  <2>1. stream' \in [Sessions -> StreamStates]
    BY <1>2 DEF StreamStates
  <2> QED
    BY <1>1, <1>4, <2>1
<1>8. (BornInOrder /\ HolderInv)'
  BY <1>1, <1>2, <1>3, <1>6 DEF BornInOrder, Unborn, HolderInv
<1>9. NoOrphan'
  BY <1>1, <1>2, <1>3 DEF NoOrphan, Unreleased, InCare, Closing
<1>10. (\A x \in Sessions : cur = x => CurrentInv(x))'
  BY <1>1, <1>2, <1>3, <1>5 DEF CurrentInv
<1>11. (\A x \in Sessions : Building /\ built = x => FreshInv(x))'
  BY <1>1, <1>2, <1>3, <1>5 DEF FreshInv
<1>12. (\A x \in Sessions : EndedInv(x))'
  BY <1>1, <1>2, <1>3 DEF EndedInv, InStream
<1> QED
  BY <1>7, <1>8, <1>9, <1>10, <1>11, <1>12

LEMMA SessionStep ==
    ASSUME SessionInv, [Next]_vars
    PROVE  SessionInv'
<1> USE BoundsAssumption DEF SessionInv, TypeOK, LoopStates, StreamStates, ReaperStates, PcStates,
        OpenPc, InStream, Closing, Building, BornInOrder, Unborn, HolderInv, NoOrphan, Unreleased, InCare,
        CurrentInv, FreshInv, EndedInv, Cancelled, sigVars, loopVars, pcVars, pcRest, srcVars,
        ctlVars, sessVars
<1>1. CASE Dial
  BY <1>1 DEF Dial
<1>2. CASE SocketDrop
  BY <1>2 DEF SocketDrop
<1>3. CASE ReadError
  BY <1>3 DEF ReadError
<1>4. CASE HandleReady
  BY <1>4 DEF HandleReady, Set
<1>5. CASE CloseVictim
  <2>1. TypeOK'
    BY <1>5 DEF CloseVictim, CloseSession, Closing
  <2>2. (BornInOrder /\ HolderInv)'
    BY <1>5 DEF CloseVictim, CloseSession, Closing
  <2>3. NoOrphan'
    BY <1>5 DEF CloseVictim, CloseSession, Closing
  <2>4. (\A x \in Sessions : cur = x => CurrentInv(x))'
    BY <1>5 DEF CloseVictim, CloseSession, Closing
  <2>5. (\A x \in Sessions : Building /\ built = x => FreshInv(x))'
    BY <1>5 DEF CloseVictim, CloseSession, Closing
  <2>6. (\A x \in Sessions : EndedInv(x))'
    BY <1>5 DEF CloseVictim, CloseSession, Closing
  <2> QED
    BY <2>1, <2>2, <2>3, <2>4, <2>5, <2>6
<1>6. CASE BuildFail
  BY <1>6 DEF BuildFail
<1>7. CASE BuildPC
  BY <1>7 DEF BuildPC
<1>8. CASE OfferFail
  <2>1. TypeOK'
    BY <1>8 DEF OfferFail, CloseSession
  <2>2. (BornInOrder /\ HolderInv)'
    BY <1>8 DEF OfferFail, CloseSession
  <2>3. NoOrphan'
    BY <1>8 DEF OfferFail, CloseSession
  <2>4. (\A x \in Sessions : cur = x => CurrentInv(x))'
    BY <1>8 DEF OfferFail, CloseSession
  <2>5. (\A x \in Sessions : Building /\ built = x => FreshInv(x))'
    BY <1>8 DEF OfferFail, CloseSession
  <2>6. (\A x \in Sessions : EndedInv(x))'
    BY <1>8 DEF OfferFail, CloseSession
  <2> QED
    BY <2>1, <2>2, <2>3, <2>4, <2>5, <2>6
<1>9. CASE OfferSent
  BY <1>9 DEF OfferSent
<1>10. CASE Install
  BY ZenonT(30), <1>10 DEF Install, Set
<1>11. CASE StopRun
  BY <1>11 DEF StopRun, Set
<1>12. CASE Shutdown
  BY <1>12 DEF Shutdown
<1>13. ASSUME NEW a \in Sessions, HandleAnswer(a) PROVE SessionInv'
  BY <1>13 DEF HandleAnswer
<1>14. ASSUME NEW s \in Sessions, PcConnects(s) PROVE SessionInv'
  BY <1>14 DEF PcConnects
<1>15. ASSUME NEW s \in Sessions, PcFails(s) PROVE SessionInv'
  <2>1. TypeOK'
    BY <1>15 DEF PcFails
  <2>2. (BornInOrder /\ HolderInv)'
    BY <1>15 DEF PcFails
  <2>3. NoOrphan'
    BY <1>15 DEF PcFails
  <2>4. (\A x \in Sessions : cur = x => CurrentInv(x))'
    BY <1>15 DEF PcFails
  <2>5. (\A x \in Sessions : Building /\ built = x => FreshInv(x))'
    BY <1>15 DEF PcFails
  <2>6. (\A x \in Sessions : EndedInv(x))'
    BY <1>15 DEF PcFails
  <2> QED
    BY <2>1, <2>2, <2>3, <2>4, <2>5, <2>6
<1>16. ASSUME NEW s \in Sessions, PcCloses(s) PROVE SessionInv'
  BY <1>16 DEF PcCloses
<1>17. ASSUME NEW s \in Sessions, OnConnected(s) PROVE SessionInv'
  BY <1>17 DEF OnConnected
<1>18. ASSUME NEW s \in Sessions, OnFailed(s) PROVE SessionInv'
  BY <1>18 DEF OnFailed
<1>19. ASSUME NEW s \in Sessions, OnClosed(s) PROVE SessionInv'
  BY <1>19 DEF OnClosed
<1>20. ASSUME NEW s \in Sessions, ReaperEndIf(s) PROVE SessionInv'
  BY <1>20 DEF ReaperEndIf, SwapIf
<1>21. ASSUME NEW s \in Sessions, ReaperClose(s) PROVE SessionInv'
  <2>1. TypeOK'
    BY <1>21 DEF ReaperClose, CloseSession
  <2>2. (BornInOrder /\ HolderInv)'
    BY <1>21 DEF ReaperClose, CloseSession
  <2>3. NoOrphan'
    BY <1>21 DEF ReaperClose, CloseSession
  <2>4. (\A x \in Sessions : cur = x => CurrentInv(x))'
    BY <1>21 DEF ReaperClose, CloseSession
  <2>5. (\A x \in Sessions : Building /\ built = x => FreshInv(x))'
    BY <1>21 DEF ReaperClose, CloseSession
  <2>6. (\A x \in Sessions : EndedInv(x))'
    BY <1>21 DEF ReaperClose, CloseSession
  <2> QED
    BY <2>1, <2>2, <2>3, <2>4, <2>5, <2>6
<1>22. ASSUME NEW s \in Sessions, StreamGiveUp(s) PROVE SessionInv'
  <2>1. TypeOK'
    BY <1>22 DEF StreamGiveUp
  <2>2. (BornInOrder /\ HolderInv)'
    BY <1>22 DEF StreamGiveUp
  <2>3. NoOrphan'
    BY <1>22 DEF StreamGiveUp
  <2>4. (\A x \in Sessions : cur = x => CurrentInv(x))'
    BY <1>22 DEF StreamGiveUp
  <2>5. (\A x \in Sessions : Building /\ built = x => FreshInv(x))'
    BY <1>22 DEF StreamGiveUp
  <2>6. (\A x \in Sessions : EndedInv(x))'
    BY <1>22 DEF StreamGiveUp
  <2> QED
    BY <2>1, <2>2, <2>3, <2>4, <2>5, <2>6
<1>23. ASSUME NEW s \in Sessions, StreamBegin(s) PROVE SessionInv'
  BY <1>23 DEF StreamBegin
<1>24. ASSUME NEW s \in Sessions, HelperStart(s) PROVE SessionInv'
  BY <1>24 DEF HelperStart
<1>25. ASSUME NEW s \in Sessions, HelperStartFail(s) PROVE SessionInv'
  BY <1>25 DEF HelperStartFail
<1>26. ASSUME NEW s \in Sessions, HookStdin(s) PROVE SessionInv'
  BY <1>26 DEF HookStdin
<1>27. ASSUME NEW s \in Sessions, StreamEOF(s) PROVE SessionInv'
  BY <1>27 DEF StreamEOF
<1>28. ASSUME NEW s \in Sessions, UnhookStdin(s) PROVE SessionInv'
  BY <1>28, StreamGoesOnStep
<1>29. ASSUME NEW s \in Sessions, Reap(s) PROVE SessionInv'
  BY <1>29, StreamGoesOnStep
<1>30. ASSUME NEW s \in Sessions, StreamReturns(s) PROVE SessionInv'
  BY <1>30, StreamGoesOnStep
<1>31. ASSUME NEW s \in Sessions, TellViewer(s) PROVE SessionInv'
  BY <1>31, StreamGoesOnStep
<1>32. ASSUME NEW s \in Sessions, StreamEndIf(s) PROVE SessionInv'
  <2>1. TypeOK'
    BY <1>32 DEF StreamEndIf, SwapIf
  <2>2. (BornInOrder /\ HolderInv)'
    BY <1>32 DEF StreamEndIf, SwapIf
  <2>3. NoOrphan'
    BY <1>32 DEF StreamEndIf, SwapIf
  <2>4. (\A x \in Sessions : cur = x => CurrentInv(x))'
    BY <1>32 DEF StreamEndIf, SwapIf
  <2>5. (\A x \in Sessions : Building /\ built = x => FreshInv(x))'
    BY <1>32 DEF StreamEndIf, SwapIf
  <2>6. (\A x \in Sessions : EndedInv(x))'
    BY <1>32 DEF StreamEndIf, SwapIf
  <2> QED
    BY <2>1, <2>2, <2>3, <2>4, <2>5, <2>6
<1>33. ASSUME NEW s \in Sessions, StreamClose(s) PROVE SessionInv'
  BY <1>33, StreamCloses
<1>34. ASSUME NEW s \in Sessions, StreamBroken(s) PROVE SessionInv'
  BY <1>34 DEF StreamBroken
<1>35. ASSUME NEW s \in Sessions, HelperKilled(s) PROVE SessionInv'
  BY <1>35 DEF HelperKilled
<1>36. ASSUME NEW s \in Sessions, HelperDies(s) PROVE SessionInv'
  BY <1>36 DEF HelperDies
<1>37. CASE UNCHANGED vars
  BY <1>37 DEF vars
<1> QED
  BY <1>1, <1>2, <1>3, <1>4, <1>5, <1>6, <1>7, <1>8, <1>9, <1>10, <1>11, <1>12,
     <1>13, <1>14, <1>15, <1>16, <1>17, <1>18, <1>19, <1>20, <1>21, <1>22, <1>23, <1>24,
     <1>25, <1>26, <1>27, <1>28, <1>29, <1>30, <1>31, <1>32, <1>33, <1>34, <1>35, <1>36, <1>37 DEF Next, LoopNext, PcNext, StreamNext, StreamStep

(* SessionInv holds in every reachable state.                              *)
THEOREM SessionInvariant == Spec => []SessionInv
<1> QED
  BY Initially, SessionStep, PTL DEF Spec

(* Every variable keeps its type, whatever the bounds are.                 *)
THEOREM TypeCorrect == Spec => []TypeOK
<1>1. SessionInv => TypeOK
  BY DEF SessionInv
<1> QED
  BY <1>1, SessionInvariant, PTL

(* Every session that is not released has somebody to release it.          *)
THEOREM NothingOrphaned == Spec => []NoOrphan
<1>1. SessionInv => NoOrphan
  BY DEF SessionInv
<1> QED
  BY <1>1, SessionInvariant, PTL

(* Whoever is fed is the newest session: it is not cancelled, so it is     *)
(* somebody's to end, and those who keep one keep only the newest.         *)
LEMMA LiveIsNewest == SessionInv => \A s \in Sessions : Live(s) => s = built
<1> SUFFICES ASSUME SessionInv, NEW s \in Sessions, Live(s)
             PROVE  s = built
  OBVIOUS
<1>1. pc[s] # "none" /\ ~cancelled[s] /\ stream[s] # "closing" /\ reaper[s] # "closing"
  BY DEF SessionInv, BornInOrder, Unborn, EndedInv, Live, InStream, Cancelled
<1>2. InCare(s)
  BY <1>1 DEF SessionInv, NoOrphan, Unreleased
<1> QED
  BY <1>1, <1>2 DEF InCare, SessionInv, HolderInv

(* The source feeds at most one session at any time.                       *)
THEOREM OneLive == Spec => []SingleLive
<1>1. SessionInv => SingleLive
  BY LiveIsNewest DEF SingleLive
<1> QED
  BY <1>1, SessionInvariant, PTL

-----------------------------------------------------------------------------
(* While newSession is about to make the next session, the last one is     *)
(* neither fed nor waiting to be: nobody keeps it any more.                *)
LEMMA QuietBeforeBuild ==
    ASSUME SessionInv, loop = "building"
    PROVE  Waiting = FALSE /\ Feeding = {}
<1>1. ASSUME NEW s \in Sessions, s = built, ~Cancelled(s), stream[s] # "closing"
      PROVE  FALSE
  <2>1. pc[s] # "none" /\ ~cancelled[s] /\ reaper[s] # "closing"
    BY <1>1 DEF SessionInv, BornInOrder, EndedInv, Cancelled, TypeOK
  <2>2. InCare(s)
    BY <2>1 DEF SessionInv, NoOrphan, Unreleased
  <2> QED
    BY <1>1, <2>1, <2>2 DEF InCare, SessionInv, HolderInv, Building, Closing
<1>2. Waiting = FALSE
  BY <1>1 DEF Waiting
<1>3. Feeding = {}
  BY <1>1, LiveIsNewest DEF Feeding, Live, InStream
<1> QED
  BY <1>2, <1>3
(* Apart from newSession and from StreamBegin no step adds to what is fed  *)
(* or waiting.                                                             *)
LEMMA OnlyBeginFeeds ==
    ASSUME SessionInv, [Next]_vars, ~BuildPC,
           \A s \in Sessions : ~(StreamBegin(s) /\ ~Cancelled(s))
    PROVE  /\ built' = built
           /\ Waiting' => Waiting
           /\ \A s \in Sessions : Live(s)' => Live(s)
<1> USE DEF SessionInv, TypeOK, Live, InStream, Cancelled, Waiting, sigVars, loopVars, pcVars, pcRest, srcVars, ctlVars, sessVars
<1>1. CASE LoopNext
  <2>1. built' = built
    BY <1>1 DEF LoopNext, Dial, SocketDrop, ReadError, HandleReady, Set, CloseVictim,
          CloseSession, BuildFail, OfferFail, OfferSent, Install, HandleAnswer, StopRun, Shutdown,
          Building, FreshInv
  <2>2. Waiting' => Waiting
    BY <1>1 DEF LoopNext, Dial, SocketDrop, ReadError, HandleReady, Set, CloseVictim,
          CloseSession, BuildFail, OfferFail, OfferSent, Install, HandleAnswer, StopRun, Shutdown,
          Building, FreshInv
  <2>3. ASSUME NEW x \in Sessions PROVE Live(x)' => Live(x)
    <3>1. CASE Dial \/ SocketDrop \/ ReadError \/ HandleReady \/ StopRun \/ Shutdown
      BY <3>1 DEF Dial, SocketDrop, ReadError, HandleReady, Set, StopRun, Shutdown
    <3>2. CASE CloseVictim \/ BuildFail \/ BuildPC
      BY <3>2 DEF CloseVictim, CloseSession, BuildFail
    <3>3. CASE OfferFail \/ OfferSent \/ Install \/ \E a \in Sessions : HandleAnswer(a)
      BY <3>3 DEF OfferFail, CloseSession, OfferSent, Install, Set, HandleAnswer, Building, FreshInv
    <3> QED
      BY <1>1, <3>1, <3>2, <3>3 DEF LoopNext
  <2> QED
    BY <2>1, <2>2, <2>3
<1>2. ASSUME NEW s \in Sessions, PcNext(s)
      PROVE  built' = built /\ (Waiting' => Waiting) /\ \A x \in Sessions : Live(x)' => Live(x)
  <2>1. CASE PcConnects(s) \/ PcFails(s) \/ PcCloses(s)
    BY ZenonT(30), <2>1 DEF PcConnects, PcFails, PcCloses
  <2>2. CASE OnConnected(s) \/ OnFailed(s) \/ OnClosed(s)
    BY ZenonT(30), <2>2 DEF OnConnected, OnFailed, OnClosed
  <2>3. CASE ReaperEndIf(s) \/ ReaperClose(s)
    BY ZenonT(30), <2>3 DEF ReaperEndIf, ReaperClose, CloseSession
  <2> QED
    BY <1>2, <2>1, <2>2, <2>3 DEF PcNext
<1>3. ASSUME NEW s \in Sessions, StreamNext(s)
      PROVE  built' = built /\ (Waiting' => Waiting) /\ \A x \in Sessions : Live(x)' => Live(x)
  <2>1. built' = built /\ ctxDone' = ctxDone
    BY <1>3 DEF StreamNext, StreamStep, StreamGiveUp, StreamBegin, HelperStart, HelperStartFail,
          HookStdin, StreamEOF, UnhookStdin, Reap, StreamReturns, TellViewer, StreamEndIf,
          StreamClose, CloseSession, StreamBroken, HelperKilled, HelperDies
  <2>2. \A x \in Sessions : cancelled[x] => cancelled'[x]
    BY <1>3 DEF StreamNext, StreamStep, StreamGiveUp, StreamBegin, HelperStart, HelperStartFail,
          HookStdin, StreamEOF, UnhookStdin, Reap, StreamReturns, TellViewer, StreamEndIf,
          StreamClose, CloseSession, StreamBroken, HelperKilled, HelperDies
  <2>3. \A x \in Sessions : x # s => stream'[x] = stream[x]
    BY <1>3 DEF StreamNext, StreamStep, StreamGiveUp, StreamBegin, HelperStart, HelperStartFail,
          HookStdin, StreamEOF, UnhookStdin, Reap, StreamReturns, TellViewer, StreamEndIf,
          StreamClose, CloseSession, StreamBroken, HelperKilled, HelperDies
  <2>4. \/ stream'[s] = stream[s]
        \/ stream'[s] \notin {"none", "waiting"} /\ (Live(s)' => Live(s))
    <3>1. CASE StreamGiveUp(s) \/ StreamBegin(s)
      BY <3>1 DEF StreamGiveUp, StreamBegin
    <3>2. CASE HelperStart(s) \/ HelperStartFail(s) \/ HookStdin(s) \/ StreamEOF(s)
      BY <3>2 DEF HelperStart, HelperStartFail, HookStdin, StreamEOF
    <3>3. CASE UnhookStdin(s) \/ Reap(s)
      BY <3>3 DEF UnhookStdin, Reap
    <3>6. CASE StreamReturns(s) \/ TellViewer(s)
      BY <3>6 DEF StreamReturns, TellViewer
    <3>4. CASE StreamEndIf(s) \/ StreamClose(s) \/ StreamBroken(s)
      BY ZenonT(30), <3>4 DEF StreamEndIf, StreamClose, CloseSession, StreamBroken
    <3>5. CASE HelperKilled(s) \/ HelperDies(s)
      BY <3>5 DEF HelperKilled, HelperDies
    <3> QED
      BY <1>3, <3>1, <3>2, <3>3, <3>4, <3>5, <3>6 DEF StreamNext, StreamStep
  <2> QED
    BY <2>1, <2>2, <2>3, <2>4
<1>4. CASE UNCHANGED vars
  BY <1>4 DEF vars
<1> QED
  BY <1>1, <1>2, <1>3, <1>4 DEF Next

LEMMA FeedStep ==
    ASSUME SessionInv, SessionInv', [Next]_vars
    PROVE  [Feed!FeedNext]_(Feed!feedVars)
<1> USE DEF Feed!FeedNext, Feed!Announce, Feed!Begin, Feed!Finish, Feed!feedVars
<1>1. Waiting \in BOOLEAN /\ Waiting' \in BOOLEAN
  BY DEF Waiting
<1>2. (\A s \in Sessions : Live(s) => s = built) /\ (\A s \in Sessions : Live(s) => s = built)'
  BY LiveIsNewest, PTL
<1>3. CASE BuildPC
  <2>1. Waiting = FALSE /\ Feeding = {}
    BY <1>3, QuietBeforeBuild DEF BuildPC
  <2>2. \A s \in Sessions : Live(s)' => Live(s)
    BY <1>3 DEF BuildPC, Live, Cancelled
  <2>3. Feeding' = {} /\ built' = built + 1
    BY <1>3, <2>1, <2>2 DEF Feeding, BuildPC
  <2> QED
    BY <1>1, <2>1, <2>3
<1>4. ASSUME NEW s \in Sessions, StreamBegin(s), ~Cancelled(s)
      PROVE  Feed!Begin
  <2>1. built' = built /\ Live(s)' /\ stream[s] = "waiting"
    BY <1>4 DEF StreamBegin, Live, InStream, Cancelled, SessionInv, TypeOK, loopVars, ctlVars
  <2>2. s = built'
    BY <1>2, <2>1
  <2>3. Waiting = TRUE
    BY <1>4, <2>1, <2>2 DEF Waiting
  <2>4. Waiting' = FALSE
    BY <1>4, <2>1, <2>2 DEF Waiting, StreamBegin, SessionInv, TypeOK
  <2>5. Feeding' = {built}
    BY <1>2, <2>1, <2>2 DEF Feeding
  <2> QED
    BY <2>1, <2>3, <2>4, <2>5
<1>5. CASE ~BuildPC /\ \A s \in Sessions : ~(StreamBegin(s) /\ ~Cancelled(s))
  <2>1. built' = built /\ (Waiting' => Waiting) /\ Feeding' \subseteq Feeding
    BY <1>5, OnlyBeginFeeds DEF Feeding
  <2>2. Waiting => Feeding = {}
    BY <1>2 DEF Waiting, Feeding, Live, InStream
  <2>3. Feeding' = Feeding \/ Feeding' = {}
    BY <1>2, <2>1 DEF Feeding
  <2> QED
    BY <1>1, <2>1, <2>2, <2>3
<1> QED
  BY <1>3, <1>4, <1>5

(* The sessions of the host implement the abstract feed.                   *)
THEOREM HostImplementsFeed == Spec => ImplementsFeed
<1>1. Init => Feed!FeedInit
  BY BoundsAssumption DEF Init, Feed!FeedInit, Waiting, Feeding, Live, InStream
<1> QED
  BY <1>1, FeedStep, SessionInvariant, PTL DEF Spec, ImplementsFeed, Feed!FeedSpec
-----------------------------------------------------------------------------
LEMMA HolderStep ==
    ASSUME SessionInv, [Next]_vars, NEW s \in Sessions, cur = s, cur' # s
    PROVE  loop' \in {"ending", "stopping"} \/ pc[s] = "failed" \/ stream[s] = "ending"
<1> USE DEF SessionInv, sigVars, loopVars, pcVars, pcRest, srcVars, ctlVars, sessVars
<1>1. CASE LoopNext
  BY <1>1 DEF LoopNext, Dial, SocketDrop, ReadError, HandleReady, Set, CloseVictim, BuildFail,
        BuildPC, OfferFail, OfferSent, Install, HandleAnswer, StopRun, Shutdown, HolderInv
<1>2. ASSUME NEW x \in Sessions, PcNext(x)
      PROVE  pc[s] = "failed"
  <2>1. x = s /\ reaper[s] = "pending"
    BY <1>2 DEF PcNext, PcConnects, PcFails, PcCloses, OnConnected, OnFailed,
        OnClosed, ReaperEndIf, SwapIf, ReaperClose
  <2> QED
    BY <2>1 DEF CurrentInv
<1>3. ASSUME NEW x \in Sessions, StreamNext(x)
      PROVE  stream[s] = "ending"
  BY <1>3 DEF StreamNext, StreamStep, StreamGiveUp, StreamBegin, HelperStart, HelperStartFail,
        HookStdin, StreamEOF, UnhookStdin, Reap, StreamReturns, TellViewer, StreamEndIf, SwapIf,
        StreamClose, StreamBroken, HelperKilled, HelperDies
<1>4. CASE UNCHANGED vars
  BY <1>4 DEF vars
<1> QED
  BY <1>1, <1>2, <1>3, <1>4 DEF Next

(* A session leaves the holder only for a reason of its own or the         *)
(* viewer's, never for the loss of signaling or another session's end.     *)
THEOREM HolderKeeps == Spec => HolderKept
<1>1. SessionInv /\ [Next]_vars => [LeavesForCause]_vars
  BY HolderStep DEF LeavesForCause
<1> QED
  BY <1>1, SessionInvariant, PTL DEF Spec, HolderKept
-----------------------------------------------------------------------------
(* Only a hook being set takes away the one of a session that streams, and *)
(* of two sessions that have come that far one has been called off.        *)
LEMMA HookStep ==
    ASSUME SessionInv, [Next]_vars, NEW s \in Sessions,
           stream[s] = "streaming", Live(s), stdinOf = s, stdinOf' # s
    PROVE  \E t \in Sessions \ {s} : HooksLate(t) /\ stdinOf' = t
<1> USE DEF sigVars, loopVars, pcVars, pcRest, srcVars, ctlVars, sessVars
<1>1. ~LoopNext
  BY DEF LoopNext, Dial, SocketDrop, ReadError, HandleReady, Set, CloseVictim, CloseSession,
         BuildFail, BuildPC, OfferFail, OfferSent, Install, HandleAnswer, StopRun, Shutdown
<1>2. \A x \in Sessions : ~PcNext(x)
  BY DEF PcNext, PcConnects, PcFails, PcCloses, OnConnected, OnFailed, OnClosed, ReaperEndIf,
         SwapIf, ReaperClose, CloseSession
<1>3. ASSUME NEW x \in Sessions, StreamNext(x)
      PROVE  HookStdin(x)
  <2>1. CASE UnhookStdin(x)
    BY <2>1 DEF UnhookStdin
  <2>2. CASE StreamGiveUp(x) \/ StreamBegin(x) \/ HelperStart(x) \/ HelperStartFail(x) \/ StreamEOF(x)
    BY <2>2 DEF StreamGiveUp, StreamBegin, HelperStart, HelperStartFail, StreamEOF
  <2>3. CASE Reap(x) \/ StreamReturns(x) \/ TellViewer(x) \/ StreamEndIf(x) \/ StreamClose(x)
    BY <2>3 DEF Reap, StreamReturns, TellViewer, StreamEndIf, StreamClose
  <2>4. CASE StreamBroken(x) \/ HelperKilled(x) \/ HelperDies(x)
    BY <2>4 DEF StreamBroken, HelperKilled, HelperDies
  <2> QED
    BY <1>3, <2>1, <2>2, <2>3, <2>4 DEF StreamNext, StreamStep
<1>4. PICK x \in Sessions : HookStdin(x)
  BY <1>1, <1>2, <1>3 DEF Next, vars
<1>5. stream[x] = "hooking" /\ stdinOf' = x /\ x # s
  BY <1>4 DEF HookStdin
<1>6. Cancelled(x)
  BY <1>5, LiveIsNewest DEF Live, InStream
<1> QED
  BY <1>5, <1>6 DEF HooksLate

(* The session that is streamed loses its input to no teardown, only to a  *)
(* hook set late by one that had been called off (source.go:355-364).      *)
THEOREM InputIsKept == Spec => InputKept
<1>1. SessionInv /\ [Next]_vars => [HookTakenLate]_vars
  BY HookStep DEF HookTakenLate
<1> QED
  BY <1>1, SessionInvariant, PTL DEF Spec, InputKept
=============================================================================
