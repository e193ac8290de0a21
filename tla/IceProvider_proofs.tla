------------------------- MODULE IceProvider_proofs -------------------------
(***************************************************************************)
(* Proofs about the provider of ICE servers: whatever the number of calls, *)
(* one mint is in flight at a time, everybody who waits has somebody to    *)
(* wake them, and failed mints are a cooldown apart.                       *)
(***************************************************************************)
EXTENDS IceProvider, TLAPS

(* A mint is begun only when no cooldown runs, and what ends it also ends  *)
(* or starts the cooldown.                                                 *)
MintsWarm == minting # NoCaller => ~cooling

(* What a mint has brought is credentials.                                 *)
MintedGranted == \A c \in Callers : call[c] = "minted" => got[c] \in Lives

ProviderInv == TypeOK /\ OneFlight /\ MintsWarm /\ FailuresSpaced /\ MintedGranted

(* Tuples and small sets that every step needs.                            *)
USE DEF Lives, Valid, flight, history, Deciding

(* No flight and no call: the provider of a program that has just started. *)
LEMMA InitHolds == Init => ProviderInv
<1> SUFFICES ASSUME Init PROVE ProviderInv
    OBVIOUS
<1> USE CallersAssumption DEF Init
<1>1. TypeOK
    BY DEF TypeOK
<1>2. OneFlight
    BY DEF OneFlight
<1>3. MintsWarm /\ FailuresSpaced /\ MintedGranted
    BY DEF MintsWarm, FailuresSpaced, MintedGranted
<1> QED
    BY <1>1, <1>2, <1>3 DEF ProviderInv

(* Type correctness: in particular a call has an answer exactly when it    *)
(* has one to return.                                                      *)
LEMMA TypeStep == TypeOK /\ [Next]_vars => TypeOK'
<1> SUFFICES ASSUME TypeOK, [Next]_vars PROVE TypeOK'
    OBVIOUS
<1> USE DEF TypeOK
<1>1. ASSUME NEW c \in Callers, Calls(c) PROVE TypeOK'
    BY <1>1 DEF Calls, Returns
<1>2. ASSUME NEW c \in Callers, Hit(c) PROVE TypeOK'
    BY <1>2 DEF Hit, Returns
<1>3. ASSUME NEW c \in Callers, Cool(c) PROVE TypeOK'
    BY <1>3 DEF Cool, Returns, Fallback
<1>4. ASSUME NEW c \in Callers, Wait(c) PROVE TypeOK'
    BY <1>4 DEF Wait
<1>5. ASSUME NEW c \in Callers, Begin(c) PROVE TypeOK'
    BY <1>5 DEF Begin
<1>6. ASSUME NEW c \in Callers, MintOK(c) PROVE TypeOK'
    <2>1. cooling' \in BOOLEAN /\ enabled' \in BOOLEAN
        BY <1>6, Zenon DEF MintOK
    <2>2. resets' \in Nat
        <3>1. resets' = resets + 1 \/ resets' = resets
            BY <1>6, Zenon DEF MintOK
        <3> QED
            BY <3>1
    <2>3. /\ cached' \in Lives /\ minting' = NoCaller
          /\ call' = [call EXCEPT ![c] = "minted"] /\ got' = [got EXCEPT ![c] = cached']
          /\ on' = on /\ ctx' = ctx /\ fails' = fails
        BY <1>6, Zenon DEF MintOK
    <2>4. call' \in [Callers -> {"idle", "called", "waiting", "woken", "minting",
                                 "minted", "failed", "returned"}]
        BY <2>3
    <2>5. got' \in [Callers -> Lives \cup {"none", "fallback"}]
        BY <2>3
    <2>6. \A d \in Callers : got'[d] = "none" <=> call'[d] \notin {"minted", "returned"}
        BY <2>3
    <2>7. cached' \in Lives \cup {"none"} /\ minting' \in Callers \cup {NoCaller}
          /\ on' \in [Callers -> Callers \cup {NoCaller}]
          /\ ctx' \in [Callers -> {"live", "done"}] /\ fails' \in Nat
        BY <2>3
    <2>8. held' \in [Callers -> Lives \cup {"none", "same"}]
        <3>1. held' = [d \in Callers |-> IF held[d] = "same" THEN cached ELSE held[d]]
            BY <1>6, Zenon DEF MintOK
        <3> QED
            BY <3>1
    <2> QED
        BY <2>1, <2>2, <2>4, <2>5, <2>6, <2>7, <2>8, Zenon
<1>7. ASSUME NEW c \in Callers, MintFails(c) PROVE TypeOK'
    BY <1>7 DEF MintFails
<1>8. ASSUME NEW c \in Callers, Close(c) PROVE TypeOK'
    BY <1>8 DEF Close, Lands, Held, Fallback
<1>9. ASSUME NEW c \in Callers, GiveUp(c) PROVE TypeOK'
    BY <1>9 DEF GiveUp, Returns
<1>10. ASSUME NEW c \in Callers, CtxDone(c) PROVE TypeOK'
    BY <1>10 DEF CtxDone
<1>11. ASSUME Ages \/ \E c \in Callers : HeldAges(c) PROVE TypeOK'
    BY <1>11 DEF Ages, HeldAges, Older
<1>12. CASE CooldownEnds
    <2>1. cooling' \in BOOLEAN /\ resets' = resets + 1
          /\ UNCHANGED <<enabled, cached, minting, call, on, held, ctx, got, fails>>
        BY <1>12, Zenon DEF CooldownEnds
    <2>2. resets' \in Nat
        BY <2>1
    <2> QED
        BY <2>1, <2>2, Zenon
<1>13. CASE UNCHANGED vars
    BY <1>13 DEF vars
<1> QED
    BY <1>1, <1>2, <1>3, <1>4, <1>5, <1>6, <1>7, <1>8, <1>9, <1>10, <1>11, <1>12, <1>13
    DEF Next, CallStep

(* The single flight: the lock is given up while the mint runs, but        *)
(* whoever finds minting empty has landed or never begun.                  *)
LEMMA FlightStep == TypeOK /\ OneFlight /\ [Next]_vars => OneFlight'
<1> SUFFICES ASSUME TypeOK, OneFlight, [Next]_vars PROVE OneFlight'
    OBVIOUS
<1> USE CallersAssumption DEF TypeOK, OneFlight
<1>1. ASSUME NEW c \in Callers, Calls(c) PROVE OneFlight'
    BY <1>1 DEF Calls, Returns
<1>2. ASSUME NEW c \in Callers, Hit(c) PROVE OneFlight'
    BY <1>2 DEF Hit, Returns
<1>3. ASSUME NEW c \in Callers, Cool(c) PROVE OneFlight'
    BY <1>3 DEF Cool, Returns
<1>4. ASSUME NEW c \in Callers, Wait(c) PROVE OneFlight'
    BY <1>4 DEF Wait
<1>5. ASSUME NEW c \in Callers, Begin(c) PROVE OneFlight'
    BY <1>5 DEF Begin
<1>6. ASSUME NEW c \in Callers, MintOK(c) PROVE OneFlight'
    BY <1>6 DEF MintOK
<1>7. ASSUME NEW c \in Callers, MintFails(c) PROVE OneFlight'
    BY <1>7 DEF MintFails
<1>8. ASSUME NEW c \in Callers, Close(c) PROVE OneFlight'
    BY <1>8 DEF Close, Lands
<1>9. ASSUME NEW c \in Callers, GiveUp(c) PROVE OneFlight'
    BY <1>9 DEF GiveUp, Returns
<1>10. ASSUME NEW c \in Callers, CtxDone(c) PROVE OneFlight'
    BY <1>10 DEF CtxDone
<1>11. ASSUME Ages \/ \E c \in Callers : HeldAges(c) PROVE OneFlight'
    BY <1>11 DEF Ages, HeldAges
<1>12. CASE CooldownEnds
    BY <1>12 DEF CooldownEnds
<1>13. CASE UNCHANGED vars
    BY <1>13 DEF vars
<1> QED
    BY <1>1, <1>2, <1>3, <1>4, <1>5, <1>6, <1>7, <1>8, <1>9, <1>10, <1>11, <1>12, <1>13
    DEF Next, CallStep

(* Only a mint in flight fails, and it was begun without a cooldown: so    *)
(* each failure adds a cooldown that was not there.                        *)
LEMMA CooldownStep ==
    TypeOK /\ OneFlight /\ MintsWarm /\ FailuresSpaced /\ [Next]_vars
    => MintsWarm' /\ FailuresSpaced'
<1> SUFFICES ASSUME TypeOK, OneFlight, MintsWarm, FailuresSpaced, [Next]_vars
             PROVE MintsWarm' /\ FailuresSpaced'
    OBVIOUS
<1> USE CallersAssumption DEF TypeOK, MintsWarm, FailuresSpaced
<1>1. ASSUME NEW c \in Callers, Calls(c) \/ Hit(c) \/ Cool(c) \/ Wait(c) \/ Close(c)
                                \/ GiveUp(c) \/ CtxDone(c)
      PROVE MintsWarm' /\ FailuresSpaced'
    BY <1>1 DEF Calls, Hit, Cool, Wait, Close, Lands, GiveUp, CtxDone
<1>2. ASSUME NEW c \in Callers, Begin(c) PROVE MintsWarm' /\ FailuresSpaced'
    BY <1>2 DEF Begin
<1>3. ASSUME NEW c \in Callers, MintOK(c) PROVE MintsWarm' /\ FailuresSpaced'
    <2>1. ~cooling
        BY <1>3 DEF MintOK, OneFlight
    <2> QED
        BY <1>3, <2>1 DEF MintOK
<1>4. ASSUME NEW c \in Callers, MintFails(c) PROVE MintsWarm' /\ FailuresSpaced'
    <2>1. ~cooling
        BY <1>4 DEF MintFails, OneFlight
    <2> QED
        BY <1>4, <2>1 DEF MintFails
<1>5. ASSUME Ages \/ \E c \in Callers : HeldAges(c) PROVE MintsWarm' /\ FailuresSpaced'
    BY <1>5 DEF Ages, HeldAges
<1>6. CASE CooldownEnds
    BY <1>6 DEF CooldownEnds
<1>7. CASE UNCHANGED vars
    BY <1>7 DEF vars
<1> QED
    BY <1>1, <1>2, <1>3, <1>4, <1>5, <1>6, <1>7 DEF Next, CallStep

(* Only a mint that succeeds gets anybody to "minted".                     *)
LEMMA MintedStep == TypeOK /\ MintedGranted /\ [Next]_vars => MintedGranted'
<1> SUFFICES ASSUME TypeOK, MintedGranted, [Next]_vars PROVE MintedGranted'
    OBVIOUS
<1> USE DEF TypeOK, MintedGranted
<1>1. ASSUME NEW c \in Callers, Calls(c) \/ Hit(c) \/ Cool(c) \/ GiveUp(c)
      PROVE MintedGranted'
    BY <1>1 DEF Calls, Hit, Cool, GiveUp, Returns
<1>2. ASSUME NEW c \in Callers, Wait(c) \/ Begin(c) \/ MintFails(c) \/ CtxDone(c)
      PROVE MintedGranted'
    <2>1. got' = got
        BY <1>2 DEF Wait, Begin, MintFails, CtxDone
    <2>2. call' = call \/ \E next \in {"waiting", "minting", "failed"} :
                            call' = [call EXCEPT ![c] = next]
        BY <1>2 DEF Wait, Begin, MintFails, CtxDone
    <2> QED
        BY <2>1, <2>2
<1>3. ASSUME NEW c \in Callers, MintOK(c) PROVE MintedGranted'
    BY <1>3 DEF MintOK
<1>4. ASSUME NEW c \in Callers, Close(c) PROVE MintedGranted'
    BY <1>4 DEF Close, Lands
<1>5. ASSUME Ages \/ CooldownEnds \/ \E c \in Callers : HeldAges(c) PROVE MintedGranted'
    BY <1>5 DEF Ages, CooldownEnds, HeldAges
<1>6. CASE UNCHANGED vars
    BY <1>6 DEF vars
<1> QED
    BY <1>1, <1>2, <1>3, <1>4, <1>5, <1>6 DEF Next, CallStep

(* The provider's inductive invariant.                                     *)
LEMMA ProviderInvariant == Spec => []ProviderInv
<1>1. Init => ProviderInv
    BY InitHolds
<1>2. ProviderInv /\ [Next]_vars => ProviderInv'
    BY TypeStep, FlightStep, CooldownStep, MintedStep DEF ProviderInv
<1> QED
    BY <1>1, <1>2, PTL DEF Spec

(* Type correctness of the provider, for every set of calls.               *)
THEOREM ProviderTypes == Spec => []TypeOK
BY ProviderInvariant, PTL DEF ProviderInv

(* Single flight: no two mints at once, and nobody waits for one that has  *)
(* already woken its waiters (ice.go:127).                                 *)
THEOREM SingleFlight == Spec => []OneFlight
BY ProviderInvariant, PTL DEF ProviderInv

(* Failed mints are a cooldown apart (ice.go:39).                          *)
THEOREM OutageIsCheap == Spec => []FailuresSpaced
BY ProviderInvariant, PTL DEF ProviderInv

(* What Servers answers is the best that is known when it decides, or when *)
(* its own mint has failed, unless the caller has gone; only what has just *)
(* been granted may be over (ice.go:84).                                   *)
THEOREM AnswersAreBest == Spec => BestAnswer
<1> DEFINE Best ==
        \A c \in Callers : call[c] # "returned" /\ call'[c] = "returned" =>
          /\ got'[c] = "expired" => call[c] = "minted"
          /\ got'[c] = "fallback" =>
                \/ ctx[c] = "done" \/ ~enabled
                \/ (IF call[c] = "failed" THEN Held(c) ELSE cached) \notin Valid
<1>1. TypeOK /\ MintedGranted /\ [Next]_vars => [Best]_vars
    <2> SUFFICES ASSUME TypeOK, MintedGranted, Next PROVE Best
        OBVIOUS
    <2> USE DEF TypeOK
    <2>1. ASSUME NEW c \in Callers, Calls(c) PROVE Best
        BY <2>1 DEF Calls, Returns
    <2>2. ASSUME NEW c \in Callers, Hit(c) PROVE Best
        BY <2>2 DEF Hit, Returns
    <2>3. ASSUME NEW c \in Callers, Cool(c) PROVE Best
        BY <2>3 DEF Cool, Returns, Fallback
    <2>4. ASSUME NEW c \in Callers, Wait(c) \/ Begin(c) \/ MintOK(c) \/ MintFails(c) \/ CtxDone(c)
          PROVE Best
        <3>1. call' = call \/ \E next \in {"waiting", "minting", "minted", "failed"} :
                                call' = [call EXCEPT ![c] = next]
            BY <2>4 DEF Wait, Begin, MintOK, MintFails, CtxDone
        <3> QED
            BY <3>1
    <2>5. ASSUME NEW c \in Callers, Close(c) PROVE Best
        <3>1. \A d \in Callers : call[d] # "returned" /\ call'[d] = "returned" => d = c
            BY <2>5 DEF Close
        <3>2. CASE call[c] = "minted"
            <4>1. got'[c] = got[c]
                BY <2>5, <3>2 DEF Close, Lands
            <4>2. got[c] # "fallback"
                BY <3>2 DEF MintedGranted
            <4> QED
                BY <3>1, <3>2, <4>1, <4>2
        <3>3. CASE call[c] = "failed"
            <4>1. got'[c] = Fallback(Held(c))
                BY <2>5, <3>3 DEF Close, Lands
            <4>2. Fallback(Held(c)) # "expired"
                BY DEF Fallback
            <4>3. Held(c) \in Valid => Fallback(Held(c)) # "fallback"
                BY DEF Fallback
            <4> QED
                BY <3>1, <3>3, <4>1, <4>2, <4>3
        <3> QED
            BY <2>5, <3>2, <3>3 DEF Close
    <2>6. ASSUME NEW c \in Callers, GiveUp(c) PROVE Best
        BY <2>6 DEF GiveUp, Returns
    <2>7. ASSUME Ages \/ CooldownEnds \/ \E c \in Callers : HeldAges(c) PROVE Best
        BY <2>7 DEF Ages, CooldownEnds, HeldAges
    <2> QED
        BY <2>1, <2>2, <2>3, <2>4, <2>5, <2>6, <2>7 DEF Next, CallStep
<1> QED
    BY <1>1, ProviderInvariant, PTL DEF ProviderInv, Spec, BestAnswer
=============================================================================
