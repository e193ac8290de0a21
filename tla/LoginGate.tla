------------------------------ MODULE LoginGate ------------------------------
(***************************************************************************)
(* The login handler (internal/auth/auth.go: handleLogin and the counters  *)
(* under mu and verifyMu).  Several handlers run at once; an address that  *)
(* fails often is locked out for a minute, and when logins fail often      *)
(* anywhere every attempt is slowed.  Instants are kept as what is left    *)
(* until them, or as the time since them up to the longest that matters,   *)
(* and move with Tick.                                                     *)
(***************************************************************************)
EXTENDS Integers

CONSTANTS Handlers,          \* handlers of POST /login that run at once
          Addresses,         \* what clientIP returns
          maxFails,
          globalFailsPerMin,
          minute,            \* lockoutFor and the global window, in ticks
          failWait, throttleWait

ASSUME GateAssumption ==
    /\ maxFails \in Nat \ {0} /\ globalFailsPerMin \in Nat \ {0}
    /\ minute \in Nat \ {0} /\ Addresses # {}
    /\ failWait \in Nat /\ throttleWait \in Nat /\ failWait <= throttleWait

VARIABLES
    at,     \* where each handler is
    ip,     \* whose request it handles
    right,  \* the password in it is the right one
    wait,   \* how long verifyPassword is to sleep, failWait outside it
    left,   \* how much of that is left
    fails,  \* attempts.n of each address, 0 when it has no entry
    until,  \* what is left until attempts.until, 0 when it is zero or past
    globalFails,  \* counted up to the cap
    age,    \* time since globalWindow, up to a minute
    \* history
    streak, \* failures of the address since it last got in, up to maxFails
    calm,   \* time since its last failure, up to a minute
    gap,    \* time since the last password was compared, up to the long wait
    ahead   \* handlers that were waiting to compare when the cap was reached

request == <<ip, right, wait>>
counters == <<fails, until, globalFails, age>>
history == <<streak, calm, gap, ahead>>
vars == <<at, request, left, counters, history>>

Answers == {"refused", "failed", "in"}

TypeOK ==
    /\ at \in [Handlers -> {"idle", "form", "queued", "asleep", "wrong", "passed"}
                           \cup Answers]
    /\ ip \in [Handlers -> Addresses] /\ right \in [Handlers -> BOOLEAN]
    /\ wait \in [Handlers -> {failWait, throttleWait}]
    /\ left \in [Handlers -> 0..throttleWait]
    /\ fails \in [Addresses -> 0..(maxFails - 1)]
    /\ until \in [Addresses -> 0..minute]
    /\ globalFails \in 0..globalFailsPerMin /\ age \in 0..minute
    /\ streak \in [Addresses -> 0..maxFails]
    /\ calm \in [Addresses -> 0..minute]
    /\ gap \in 0..throttleWait /\ ahead \subseteq Handlers

(* Idle handlers all look alike.                                           *)
AnyAddress == CHOOSE i \in Addresses : TRUE

Init ==
    /\ at = [h \in Handlers |-> "idle"]
    /\ ip = [h \in Handlers |-> AnyAddress] /\ right = [h \in Handlers |-> FALSE]
    /\ wait = [h \in Handlers |-> failWait] /\ left = [h \in Handlers |-> 0]
    /\ fails = [i \in Addresses |-> 0] /\ until = [i \in Addresses |-> 0]
    /\ globalFails = 0 /\ age = minute
    /\ streak = [i \in Addresses |-> 0] /\ calm = [i \in Addresses |-> minute]
    /\ gap = throttleWait /\ ahead = {}

-----------------------------------------------------------------------------
Less(n) == IF n = 0 THEN 0 ELSE n - 1
More(n, cap) == IF n < cap THEN n + 1 ELSE cap

(* Mutant: who is locked out depends on the failures of all.               *)
lockedGlobally(i) == until[i] > 0 \/ globalFails = globalFailsPerMin
locked(i) == until[i] > 0

(* handleLogin: the lockout is looked at before the form is read.          *)
Post(h, i, p) ==
    /\ at[h] = "idle"
    /\ at' = [at EXCEPT ![h] = IF locked(i) THEN "refused" ELSE "form"]
    /\ ip' = [ip EXCEPT ![h] = i] /\ right' = [right EXCEPT ![h] = p]
    /\ UNCHANGED <<wait, left, counters, history>>

(* The handler has answered, and is there for the next request.            *)
Idle(h) ==
    /\ at' = [at EXCEPT ![h] = "idle"]
    /\ ip' = [ip EXCEPT ![h] = AnyAddress] /\ right' = [right EXCEPT ![h] = FALSE]
    /\ UNCHANGED <<wait, left, counters, history>>

(* A form that cannot be read counts for nothing.                          *)
ParseFails(h) == at[h] = "form" /\ Idle(h)

(* Mutant: a new window starts with the failures of the last one.          *)
globallyThrottledForever ==
    /\ age' = (IF age = minute THEN 0 ELSE age) /\ UNCHANGED globalFails

(* globallyThrottled, which starts a new window when the last is over.     *)
globallyThrottled ==
    IF age = minute THEN age' = 0 /\ globalFails' = 0
                    ELSE UNCHANGED <<age, globalFails>>

(* Mutant: the failures of all are counted, and slow nobody.               *)
QueueUnslowed(h) ==
    /\ at[h] = "form"
    /\ globallyThrottled
    /\ at' = [at EXCEPT ![h] = "queued"]
    /\ UNCHANGED <<ip, right, wait, left, fails, until, history>>

(* verifyPassword, before verifyMu: the wait is chosen, then queued for.   *)
Queue(h) ==
    /\ at[h] = "form"
    /\ globallyThrottled
    /\ at' = [at EXCEPT ![h] = "queued"]
    /\ wait' = [wait EXCEPT ![h] = IF globalFails' >= globalFailsPerMin
                                   THEN throttleWait ELSE failWait]
    /\ UNCHANGED <<ip, right, left, fails, until, history>>

(* Mutant: several may sleep at once.                                      *)
verifyMuIgnored == TRUE
verifyMuFree == \A h \in Handlers : at[h] # "asleep"

Sleep(h) ==
    /\ at[h] = "queued" /\ verifyMuFree
    /\ at' = [at EXCEPT ![h] = "asleep"]
    /\ left' = [left EXCEPT ![h] = wait[h]]
    /\ UNCHANGED <<request, counters, history>>

(* Mutant: a slowed attempt is to come again.                              *)
CompareRetried(h) ==
    /\ at[h] = "asleep" /\ left[h] = 0
    /\ at' = [at EXCEPT ![h] = IF wait[h] = throttleWait THEN "queued"
                               ELSE IF right[h] THEN "passed" ELSE "wrong"]
    /\ wait' = [wait EXCEPT ![h] = IF @ = throttleWait THEN @ ELSE failWait]
    /\ gap' = 0 /\ ahead' = ahead \ {h}
    /\ UNCHANGED <<ip, right, left, counters, streak, calm>>

(* The sleep is over: the password is compared and verifyMu released.      *)
Compare(h) ==
    /\ at[h] = "asleep" /\ left[h] = 0
    /\ at' = [at EXCEPT ![h] = IF right[h] THEN "passed" ELSE "wrong"]
    /\ wait' = [wait EXCEPT ![h] = failWait]
    /\ gap' = 0 /\ ahead' = ahead \ {h}
    /\ UNCHANGED <<ip, right, left, counters, streak, calm>>

(* Mutant: the counter is not reset when it locks the address.             *)
recordFailureKept(i) ==
    /\ globalFails' = More(globalFails, globalFailsPerMin)
    /\ fails' = [fails EXCEPT ![i] = @ + 1]
    /\ until' = IF fails[i] + 1 >= maxFails THEN [until EXCEPT ![i] = minute] ELSE until

(* Mutant: a slowed attempt is not held against its address.               *)
recordFailureOnce(i) ==
    /\ globalFails' = More(globalFails, globalFailsPerMin)
    /\ IF globalFails < globalFailsPerMin /\ fails[i] + 1 >= maxFails
       THEN fails' = [fails EXCEPT ![i] = 0] /\ until' = [until EXCEPT ![i] = minute]
       ELSE fails' = [fails EXCEPT ![i] = More(@, maxFails - 1)] /\ UNCHANGED until

recordFailure(i) ==
    /\ globalFails' = More(globalFails, globalFailsPerMin)
    /\ IF fails[i] + 1 >= maxFails
       THEN fails' = [fails EXCEPT ![i] = 0] /\ until' = [until EXCEPT ![i] = minute]
       ELSE fails' = [fails EXCEPT ![i] = @ + 1] /\ UNCHANGED until

(* Whose wait has been chosen and who has not compared.                    *)
Waiting == {h \in Handlers : at[h] \in {"queued", "asleep"}}

Fail(h) ==
    /\ at[h] = "wrong"
    /\ recordFailure(ip[h])
    /\ at' = [at EXCEPT ![h] = "failed"]
    /\ streak' = [streak EXCEPT ![ip[h]] = More(@, maxFails)]
    /\ calm' = [calm EXCEPT ![ip[h]] = 0]
    /\ ahead' = IF globalFails < globalFailsPerMin /\ globalFails' = globalFailsPerMin
                THEN ahead \cup Waiting ELSE ahead
    /\ UNCHANGED <<request, left, age, gap>>

(* Mutant: a success only lifts the lockout.                               *)
clearLockout(i) == until' = [until EXCEPT ![i] = 0] /\ UNCHANGED fails

clearFailures(i) ==
    /\ fails' = [fails EXCEPT ![i] = 0]
    /\ until' = [until EXCEPT ![i] = 0]

LetIn(h) ==
    /\ at[h] = "passed"
    /\ clearFailures(ip[h])
    /\ at' = [at EXCEPT ![h] = "in"]
    /\ streak' = [streak EXCEPT ![ip[h]] = 0]
    /\ UNCHANGED <<request, left, globalFails, age, calm, gap, ahead>>

Return(h) == at[h] \in Answers /\ Idle(h)

Tick ==
    /\ left' = [h \in Handlers |-> Less(left[h])]
    /\ until' = [i \in Addresses |-> Less(until[i])]
    /\ age' = More(age, minute)
    /\ calm' = [i \in Addresses |-> More(calm[i], minute)]
    /\ gap' = More(gap, throttleWait)
    /\ UNCHANGED <<at, request, fails, globalFails, streak, ahead>>

Finish(h) == Compare(h) \/ Fail(h) \/ LetIn(h)

Next ==
    \/ \E h \in Handlers : \/ \E i \in Addresses, p \in BOOLEAN : Post(h, i, p)
                           \/ ParseFails(h) \/ Queue(h) \/ Sleep(h)
                           \/ Finish(h) \/ Return(h)
    \/ Tick

(* A waiter gets a mutex that is released again and again: sync.Mutex hands*)
(* it over to one that has waited for long.  Time passes.                  *)
Spec ==
    /\ Init /\ [][Next]_vars
    /\ \A h \in Handlers : SF_vars(Sleep(h)) /\ WF_vars(Finish(h))
    /\ WF_vars(Tick)

-----------------------------------------------------------------------------
(* A login with the right password is turned away only if its own address  *)
(* has failed maxFails times since it last got in, lately; whatever others *)
(* do, it is at most slowed (auth.go:63, auth_test.go:602).                *)
RefusedForItsOwn ==
    [][\A h \in Handlers :
         at'[h] \in {"refused", "failed"} /\ at'[h] # at[h] /\ right'[h] =>
           streak[ip'[h]] = maxFails /\ calm[ip'[h]] < minute]_vars

(* Handlers that fail at the same time are all counted: the failure that   *)
(* makes maxFails in a row locks its address for the full minute           *)
(* (auth.go:491).                                                          *)
FailuresLock ==
    [][\A i \in Addresses :
         streak[i] < maxFails /\ streak'[i] = maxFails => until'[i] = minute]_vars

(* After a minute without failures anywhere a login waits the short time,  *)
(* whatever was counted before (auth.go:481).                              *)
QuietIsFast ==
    [][\A h \in Handlers :
         /\ at[h] = "form" /\ at'[h] = "queued"
         /\ \A i \in Addresses : calm[i] = minute
         => wait'[h] = failWait]_vars

(* However many handlers run at once, a comparison comes a short wait      *)
(* after the one before it, and once the cap is reached a long one, but    *)
(* for those that were already waiting then (auth.go:67, auth_test.go:629). *)
GuessesPaced ==
    [][\A h \in Handlers :
         at[h] = "asleep" /\ at'[h] # "asleep" =>
           gap >= IF globalFails = globalFailsPerMin /\ h \notin ahead
                  THEN throttleWait ELSE failWait]_vars

(* Every login whose form has been read is answered (auth.go:465).         *)
LoginsAnswered ==
    \A h \in Handlers : at[h] = "queued" ~> at[h] \in {"failed", "in"}

(***************************************************************************)
(* What the comments say and the code does not do.                         *)
(***************************************************************************)
(* auth.go 61 and 67: "past the cap every attempt is SLOWED", "the ceiling *)
(* is one guess per wait across ALL clients, however many connections".    *)
(* The wait is chosen before the queue, not at its head.                   *)
EveryAttemptSlowed ==
    [][\A h \in Handlers :
         at[h] = "asleep" /\ at'[h] # "asleep" /\ globalFails = globalFailsPerMin =>
           gap >= throttleWait]_vars
=============================================================================
