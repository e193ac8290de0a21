--------------------------- MODULE LoginGate_proofs ---------------------------
(***************************************************************************)
(* Proofs about the login handler, for every number of handlers and        *)
(* addresses and every length of the limits and waits.                     *)
(***************************************************************************)
EXTENDS LoginGate, TLAPS

(* The counter of an address is its failures in a row until they lock it;  *)
(* a lockout runs out no later than a minute after the last of them.       *)
LockInv ==
    \A i \in Addresses :
        /\ fails[i] <= streak[i]
        /\ streak[i] < maxFails => fails[i] = streak[i]
        /\ until[i] > 0 => streak[i] = maxFails /\ until[i] + calm[i] <= minute

(* What has been counted in a window that is not over was counted since it *)
(* began.                                                                  *)
WindowInv == globalFails > 0 /\ age < minute => \E i \in Addresses : calm[i] <= age

(* The one who sleeps has had its sleep, but for what is left of it, since *)
(* the last comparison.                                                    *)
SleepInv ==
    /\ \A h \in Handlers : at[h] = "asleep" => gap + left[h] >= wait[h]
    /\ \A g, h \in Handlers : at[g] = "asleep" /\ at[h] = "asleep" => g = h

(* While the cap is reached, whoever waits has chosen the long wait, or was *)
(* there when it was.                                                      *)
SlowInv ==
    globalFails = globalFailsPerMin =>
        \A h \in Waiting \ ahead : wait[h] = throttleWait

(* Only a wrong password is on its way to being recorded.                  *)
WrongInv == \A h \in Handlers : at[h] = "wrong" => ~right[h]

GateInv == TypeOK /\ LockInv /\ WindowInv /\ SleepInv /\ SlowInv /\ WrongInv

USE GateAssumption DEF request, counters, history, Answers

LEMMA SomeAddress == AnyAddress \in Addresses
BY DEF AnyAddress

(* A program that has just started.                                        *)
LEMMA InitHolds == Init => GateInv
BY SomeAddress DEF Init, GateInv, TypeOK, LockInv, WindowInv, SleepInv,
    SlowInv, Waiting, WrongInv

LEMMA TypeStep == TypeOK /\ [Next]_vars => TypeOK'
<1> SUFFICES ASSUME TypeOK, [Next]_vars PROVE TypeOK'
    OBVIOUS
<1> USE DEF TypeOK
<1>1. ASSUME NEW h \in Handlers, NEW i \in Addresses, NEW p \in BOOLEAN, Post(h, i, p)
      PROVE TypeOK'
    BY <1>1 DEF Post
<1>2. ASSUME NEW h \in Handlers, ParseFails(h) \/ Return(h) PROVE TypeOK'
    BY <1>2, SomeAddress DEF ParseFails, Return, Idle
<1>3. ASSUME NEW h \in Handlers, Queue(h) PROVE TypeOK'
    BY <1>3 DEF Queue, globallyThrottled
<1>4. ASSUME NEW h \in Handlers, Sleep(h) PROVE TypeOK'
    BY <1>4 DEF Sleep
<1>5. ASSUME NEW h \in Handlers, Compare(h) PROVE TypeOK'
    BY <1>5 DEF Compare
<1>6. ASSUME NEW h \in Handlers, Fail(h) PROVE TypeOK'
    BY <1>6 DEF Fail, recordFailure, More, Waiting
<1>7. ASSUME NEW h \in Handlers, LetIn(h) PROVE TypeOK'
    BY <1>7 DEF LetIn, clearFailures
<1>8. CASE Tick
    BY <1>8 DEF Tick, Less, More
<1>9. CASE UNCHANGED vars
    BY <1>9 DEF vars
<1> QED
    BY <1>1, <1>2, <1>3, <1>4, <1>5, <1>6, <1>7, <1>8, <1>9 DEF Next, Finish

(* Only a failure, a success and the clock touch the lockouts.             *)
LEMMA LockStep == TypeOK /\ LockInv /\ [Next]_vars => LockInv'
<1> SUFFICES ASSUME TypeOK, LockInv, [Next]_vars PROVE LockInv'
    OBVIOUS
<1> USE DEF TypeOK, LockInv
<1>1. ASSUME UNCHANGED <<fails, until, streak, calm>> PROVE LockInv'
    BY <1>1
<1>2. ASSUME NEW h \in Handlers, Fail(h) PROVE LockInv'
    BY <1>2 DEF Fail, recordFailure, More
<1>3. ASSUME NEW h \in Handlers, LetIn(h) PROVE LockInv'
    BY <1>3 DEF LetIn, clearFailures
<1>4. CASE Tick
    BY <1>4 DEF Tick, Less, More
<1> QED
    BY <1>1, <1>2, <1>3, <1>4
    DEF Next, Finish, vars, Post, ParseFails, Return, Idle, Queue, Sleep, Compare

(* A failure is recent; a window that begins anew has counted none.        *)
LEMMA WindowStep == TypeOK /\ WindowInv /\ [Next]_vars => WindowInv'
<1> SUFFICES ASSUME TypeOK, WindowInv, [Next]_vars PROVE WindowInv'
    OBVIOUS
<1> USE DEF TypeOK, WindowInv
<1>1. ASSUME UNCHANGED <<globalFails, age, calm>> PROVE WindowInv'
    BY <1>1
<1>2. ASSUME NEW h \in Handlers, Fail(h) PROVE WindowInv'
    <2>1. ip[h] \in Addresses /\ calm'[ip[h]] = 0 /\ age' = age
        BY <1>2 DEF Fail
    <2> QED
        BY <2>1
<1>3. ASSUME NEW h \in Handlers, Queue(h) PROVE WindowInv'
    BY <1>3 DEF Queue, globallyThrottled
<1>4. CASE Tick
    BY <1>4 DEF Tick, More
<1> QED
    BY <1>1, <1>2, <1>3, <1>4
    DEF Next, Finish, vars, Post, ParseFails, Return, Idle, Sleep, Compare, LetIn

(* Nobody falls asleep before the last sleeper has gone, and the clock     *)
(* gives to the gap what it takes from the sleep.                          *)
LEMMA SleepStep == TypeOK /\ SleepInv /\ [Next]_vars => SleepInv'
<1> SUFFICES ASSUME TypeOK, SleepInv, [Next]_vars PROVE SleepInv'
    OBVIOUS
<1> USE DEF TypeOK, SleepInv
<1>1. ASSUME NEW h \in Handlers, NEW i \in Addresses, NEW p \in BOOLEAN, Post(h, i, p)
      PROVE SleepInv'
    BY <1>1 DEF Post
<1>2. ASSUME NEW h \in Handlers, ParseFails(h) \/ Return(h) PROVE SleepInv'
    BY <1>2 DEF ParseFails, Return, Idle
<1>3. ASSUME NEW h \in Handlers, Queue(h) PROVE SleepInv'
    BY <1>3 DEF Queue
<1>4. ASSUME NEW h \in Handlers, Sleep(h) PROVE SleepInv'
    BY <1>4 DEF Sleep, verifyMuFree
<1>5. ASSUME NEW h \in Handlers, Compare(h) PROVE SleepInv'
    BY <1>5 DEF Compare
<1>6. ASSUME NEW h \in Handlers, Fail(h) PROVE SleepInv'
    BY <1>6 DEF Fail
<1>7. ASSUME NEW h \in Handlers, LetIn(h) PROVE SleepInv'
    BY <1>7 DEF LetIn
<1>8. CASE Tick
    BY <1>8 DEF Tick, Less, More
<1>9. CASE UNCHANGED vars
    BY <1>9 DEF vars
<1> QED
    BY <1>1, <1>2, <1>3, <1>4, <1>5, <1>6, <1>7, <1>8, <1>9 DEF Next, Finish

(* Who joins the queue while the cap is reached chooses the long wait, and *)
(* who is there when it is reached is ahead of it.                         *)
LEMMA SlowStep == TypeOK /\ SlowInv /\ [Next]_vars => SlowInv'
<1> SUFFICES ASSUME TypeOK, SlowInv, [Next]_vars PROVE SlowInv'
    OBVIOUS
<1> USE DEF TypeOK, SlowInv, Waiting
<1>1. ASSUME NEW h \in Handlers, NEW i \in Addresses, NEW p \in BOOLEAN, Post(h, i, p)
      PROVE SlowInv'
    BY <1>1 DEF Post
<1>2. ASSUME NEW h \in Handlers, ParseFails(h) \/ Return(h) PROVE SlowInv'
    BY <1>2 DEF ParseFails, Return, Idle
<1>3. ASSUME NEW h \in Handlers, Queue(h) PROVE SlowInv'
    BY <1>3 DEF Queue, globallyThrottled
<1>4. ASSUME NEW h \in Handlers, Sleep(h) PROVE SlowInv'
    BY <1>4 DEF Sleep
<1>5. ASSUME NEW h \in Handlers, Compare(h) PROVE SlowInv'
    BY <1>5 DEF Compare
<1>6. ASSUME NEW h \in Handlers, Fail(h) PROVE SlowInv'
    <2>1. /\ globalFails' = IF globalFails < globalFailsPerMin THEN globalFails + 1
                                                             ELSE globalFailsPerMin
          /\ ahead' = IF globalFails < globalFailsPerMin /\ globalFails' = globalFailsPerMin
                      THEN ahead \cup Waiting ELSE ahead
          /\ wait' = wait /\ at' = [at EXCEPT ![h] = "failed"]
        BY <1>6 DEF Fail, recordFailure, More
    <2>2. Waiting' \subseteq Waiting
        BY <2>1
    <2>3. CASE globalFails < globalFailsPerMin
        BY <2>1, <2>2, <2>3
    <2>4. CASE globalFails = globalFailsPerMin
        BY <2>1, <2>2, <2>4
    <2> QED
        BY <2>3, <2>4
<1>7. ASSUME NEW h \in Handlers, LetIn(h) PROVE SlowInv'
    BY <1>7 DEF LetIn
<1>8. CASE Tick
    BY <1>8 DEF Tick
<1>9. CASE UNCHANGED vars
    BY <1>9 DEF vars
<1> QED
    BY <1>1, <1>2, <1>3, <1>4, <1>5, <1>6, <1>7, <1>8, <1>9 DEF Next, Finish

LEMMA WrongStep == TypeOK /\ WrongInv /\ [Next]_vars => WrongInv'
<1> SUFFICES ASSUME TypeOK, WrongInv, [Next]_vars PROVE WrongInv'
    OBVIOUS
<1> USE DEF TypeOK, WrongInv
<1>1. ASSUME NEW h \in Handlers, NEW i \in Addresses, NEW p \in BOOLEAN, Post(h, i, p)
      PROVE WrongInv'
    BY <1>1 DEF Post
<1>2. ASSUME NEW h \in Handlers, ParseFails(h) \/ Return(h) PROVE WrongInv'
    BY <1>2 DEF ParseFails, Return, Idle
<1>3. ASSUME NEW h \in Handlers, Queue(h) \/ Sleep(h) \/ Fail(h) \/ LetIn(h)
      PROVE WrongInv'
    BY <1>3 DEF Queue, Sleep, Fail, LetIn
<1>4. ASSUME NEW h \in Handlers, Compare(h) PROVE WrongInv'
    BY <1>4 DEF Compare
<1>5. CASE Tick
    BY <1>5 DEF Tick
<1>6. CASE UNCHANGED vars
    BY <1>6 DEF vars
<1> QED
    BY <1>1, <1>2, <1>3, <1>4, <1>5, <1>6 DEF Next, Finish

(* The inductive invariant of the gate.                                    *)
LEMMA GateInvariant == Spec => []GateInv
<1>1. Init => GateInv
    BY InitHolds
<1>2. GateInv /\ [Next]_vars => GateInv'
    BY TypeStep, LockStep, WindowStep, SleepStep, SlowStep, WrongStep DEF GateInv
<1> QED
    BY <1>1, <1>2, PTL DEF Spec

(* Type correctness: in particular no counter passes its limit, however    *)
(* many handlers record at once (auth.go:491).                             *)
THEOREM GateTypes == Spec => []TypeOK
BY GateInvariant, PTL DEF GateInv

(* Nobody is locked out by the failures of others (auth.go:63).            *)
THEOREM OwnFailuresOnly == Spec => RefusedForItsOwn
<1> DEFINE Own ==
        \A h \in Handlers :
          at'[h] \in {"refused", "failed"} /\ at'[h] # at[h] /\ right'[h] =>
            streak[ip'[h]] = maxFails /\ calm[ip'[h]] < minute
<1>1. GateInv /\ [Next]_vars => [Own]_vars
    <2> SUFFICES ASSUME TypeOK, LockInv, WrongInv, Next PROVE Own
        BY DEF GateInv
    <2> USE DEF TypeOK, LockInv
    <2>1. ASSUME NEW h \in Handlers, NEW i \in Addresses, NEW p \in BOOLEAN, Post(h, i, p)
          PROVE Own
        BY <2>1 DEF Post, locked
    <2>2. ASSUME NEW h \in Handlers, ParseFails(h) \/ Return(h) PROVE Own
        BY <2>2 DEF ParseFails, Return, Idle
    <2>3. ASSUME NEW h \in Handlers, Queue(h) \/ Sleep(h) \/ Compare(h) \/ LetIn(h)
          PROVE Own
        BY <2>3 DEF Queue, Sleep, Compare, LetIn
    <2>4. ASSUME NEW h \in Handlers, Fail(h) PROVE Own
        BY <2>4 DEF Fail, WrongInv
    <2>5. CASE Tick
        BY <2>5 DEF Tick
    <2> QED
        BY <2>1, <2>2, <2>3, <2>4, <2>5 DEF Next, Finish
<1> QED
    BY <1>1, GateInvariant, PTL DEF Spec, RefusedForItsOwn

(* maxFails failures in a row, by whichever handlers, lock the address for *)
(* a full minute (auth.go:491).                                            *)
THEOREM FailuresDoLock == Spec => FailuresLock
<1> DEFINE Lock ==
        \A i \in Addresses :
          streak[i] < maxFails /\ streak'[i] = maxFails => until'[i] = minute
<1>1. GateInv /\ [Next]_vars => [Lock]_vars
    <2> SUFFICES ASSUME TypeOK, LockInv, Next PROVE Lock
        BY DEF GateInv
    <2> USE DEF TypeOK, LockInv
    <2>1. CASE UNCHANGED streak
        BY <2>1
    <2>2. ASSUME NEW h \in Handlers, Fail(h) PROVE Lock
        BY <2>2 DEF Fail, recordFailure, More
    <2>3. ASSUME NEW h \in Handlers, LetIn(h) PROVE Lock
        BY <2>3 DEF LetIn
    <2> QED
        BY <2>1, <2>2, <2>3
        DEF Next, Finish, Post, ParseFails, Return, Idle, Queue, Sleep, Compare, Tick
<1> QED
    BY <1>1, GateInvariant, PTL DEF Spec, FailuresLock

(* The slowing ends: after a minute without failures the wait is short     *)
(* (auth.go:481).                                                          *)
THEOREM SlowingEnds == Spec => QuietIsFast
<1> DEFINE Fast ==
        \A h \in Handlers :
          /\ at[h] = "form" /\ at'[h] = "queued"
          /\ \A i \in Addresses : calm[i] = minute
          => wait'[h] = failWait
<1>1. GateInv /\ [Next]_vars => [Fast]_vars
    <2> SUFFICES ASSUME TypeOK, WindowInv, Next PROVE Fast
        BY DEF GateInv
    <2> USE DEF TypeOK
    <2>1. ASSUME NEW h \in Handlers, Queue(h) PROVE Fast
        BY <2>1 DEF Queue, globallyThrottled, WindowInv
    <2>2. ASSUME NEW h \in Handlers, NEW i \in Addresses, NEW p \in BOOLEAN, Post(h, i, p)
          PROVE Fast
        BY <2>2 DEF Post
    <2>3. ASSUME NEW h \in Handlers, ParseFails(h) \/ Return(h) PROVE Fast
        BY <2>3 DEF ParseFails, Return, Idle
    <2>4. ASSUME NEW h \in Handlers, Sleep(h) \/ Compare(h) \/ Fail(h) \/ LetIn(h)
          PROVE Fast
        BY <2>4 DEF Sleep, Compare, Fail, LetIn
    <2>5. CASE Tick
        BY <2>5 DEF Tick
    <2> QED
        BY <2>1, <2>2, <2>3, <2>4, <2>5 DEF Next, Finish
<1> QED
    BY <1>1, GateInvariant, PTL DEF Spec, QuietIsFast

(* Comparisons are paced one by one, for any number of handlers, and by    *)
(* the long wait once the cap is reached and those that were then waiting  *)
(* have gone (auth.go:67).                                                 *)
THEOREM ComparisonsPaced == Spec => GuessesPaced
<1> DEFINE Paced ==
        \A h \in Handlers :
          at[h] = "asleep" /\ at'[h] # "asleep" =>
            gap >= IF globalFails = globalFailsPerMin /\ h \notin ahead
                   THEN throttleWait ELSE failWait
<1>1. GateInv /\ [Next]_vars => [Paced]_vars
    <2> SUFFICES ASSUME TypeOK, SleepInv, SlowInv, Next PROVE Paced
        BY DEF GateInv
    <2> USE DEF TypeOK, SleepInv
    <2>1. ASSUME NEW h \in Handlers, Compare(h) PROVE Paced
        <3>1. at[h] = "asleep" /\ left[h] = 0 /\ gap >= wait[h] /\ wait[h] >= failWait
            BY <2>1 DEF Compare
        <3>2. globalFails = globalFailsPerMin /\ h \notin ahead => wait[h] = throttleWait
            BY <3>1 DEF SlowInv, Waiting
        <3>3. \A g \in Handlers : g # h => at'[g] = at[g]
            BY <2>1 DEF Compare
        <3> QED
            BY <3>1, <3>2, <3>3
    <2>2. ASSUME NEW h \in Handlers, NEW i \in Addresses, NEW p \in BOOLEAN, Post(h, i, p)
          PROVE Paced
        BY <2>2 DEF Post
    <2>3. ASSUME NEW h \in Handlers, ParseFails(h) \/ Return(h) PROVE Paced
        BY <2>3 DEF ParseFails, Return, Idle
    <2>4. ASSUME NEW h \in Handlers, Queue(h) \/ Sleep(h) \/ Fail(h) \/ LetIn(h)
          PROVE Paced
        BY <2>4 DEF Queue, Sleep, Fail, LetIn
    <2>5. CASE Tick
        BY <2>5 DEF Tick
    <2> QED
        BY <2>1, <2>2, <2>3, <2>4, <2>5 DEF Next, Finish
<1> QED
    BY <1>1, GateInvariant, PTL DEF Spec, GuessesPaced
=============================================================================
