---------------------------- MODULE IceProvider ----------------------------
(***************************************************************************)
(* The provider of ICE servers (internal/ice/ice.go): minted credentials   *)
(* are cached, one caller at a time mints, the others wait for it, and a   *)
(* failed mint is not repeated for a while.  A caller is one call of       *)
(* Servers: the prewarming at start (cmd/play/main.go:71), a request of    *)
(* the page (server.go:204) or a new session of the host.                  *)
(***************************************************************************)
EXTENDS Integers

CONSTANTS Callers,  \* the calls of Servers
          NoCaller

ASSUME CallersAssumption == NoCaller \notin Callers

VARIABLES
    enabled,  \* a TURN key is configured
    cached,   \* what is cached: nothing, or credentials of this much life;
              \* "near" is within refreshMargin of their expiry
    cooling,  \* now is before cooldown
    minting,  \* whose mint is in flight
    call,     \* where each call is
    on,       \* the flight a waiting call waits for
    held,     \* what a call whose mint has failed has read of the cache: what is
              \* cached still, or what was before another mint replaced it
    ctx,      \* its context: "live" or "done"
    got,      \* what it returns
    fails, resets  \* mints that failed, and ends of a cooldown

flight == <<cached, cooling, minting>>
history == <<fails, resets>>
vars == <<enabled, flight, call, on, held, ctx, got, history>>

Lives == {"fresh", "near", "expired"}
Valid == {"fresh", "near"}

TypeOK ==
    /\ enabled \in BOOLEAN /\ cached \in Lives \cup {"none"}
    /\ cooling \in BOOLEAN /\ minting \in Callers \cup {NoCaller}
    /\ call \in [Callers -> {"idle", "called", "waiting", "woken", "minting",
                             "minted", "failed", "returned"}]
    /\ on \in [Callers -> Callers \cup {NoCaller}]
    /\ held \in [Callers -> Lives \cup {"none", "same"}]
    /\ ctx \in [Callers -> {"live", "done"}]
    /\ got \in [Callers -> Lives \cup {"none", "fallback"}]
    /\ \A c \in Callers : got[c] = "none" <=> call[c] \notin {"minted", "returned"}
    /\ fails \in Nat /\ resets \in Nat

Init ==
    /\ enabled \in BOOLEAN
    /\ cached = "none" /\ cooling = FALSE /\ minting = NoCaller
    /\ call = [c \in Callers |-> "idle"]
    /\ on = [c \in Callers |-> NoCaller] /\ held = [c \in Callers |-> "none"]
    /\ ctx = [c \in Callers |-> "live"]
    /\ got = [c \in Callers |-> "none"]
    /\ fails = 0 /\ resets = 0

-----------------------------------------------------------------------------
Returns(c, answer) ==
    /\ call' = [call EXCEPT ![c] = "returned"]
    /\ got' = [got EXCEPT ![c] = answer]

(* Mutant: the nil check is forgotten.                                     *)
FallbackUnchecked(life) == IF life # "expired" THEN life ELSE "fallback"

(* Cached credentials while they are valid, STUN alone otherwise.          *)
Fallback(life) == IF life \in Valid THEN life ELSE "fallback"

Calls(c) ==
    /\ call[c] = "idle"
    /\ IF enabled THEN call' = [call EXCEPT ![c] = "called"] /\ UNCHANGED got
                  ELSE Returns(c, "fallback")
    /\ UNCHANGED <<enabled, flight, on, held, ctx, history>>

(* The switch of Servers looks at everything under one lock.               *)
Deciding(c) == call[c] \in {"called", "woken"}

Hit(c) ==
    /\ Deciding(c) /\ cached = "fresh"
    /\ Returns(c, cached)
    /\ UNCHANGED <<enabled, flight, on, held, ctx, history>>

(* Mutant: what is near its expiry is not looked at.                       *)
CoolGivesUp(c) ==
    /\ Deciding(c) /\ cached # "fresh" /\ cooling
    /\ Returns(c, "fallback")
    /\ UNCHANGED <<enabled, flight, on, held, ctx, history>>

Cool(c) ==
    /\ Deciding(c) /\ cached # "fresh" /\ cooling
    /\ Returns(c, Fallback(cached))
    /\ UNCHANGED <<enabled, flight, on, held, ctx, history>>

Wait(c) ==
    /\ Deciding(c) /\ cached # "fresh" /\ ~cooling /\ minting # NoCaller
    /\ call' = [call EXCEPT ![c] = "waiting"]
    /\ on' = [on EXCEPT ![c] = minting]
    /\ UNCHANGED <<enabled, flight, held, ctx, got, history>>

(* Mutant: whether another mint is in flight is not asked.                 *)
BeginAnyway(c) ==
    /\ Deciding(c) /\ cached # "fresh" /\ ~cooling
    /\ call' = [call EXCEPT ![c] = "minting"]
    /\ minting' = c
    /\ UNCHANGED <<enabled, cached, cooling, on, held, ctx, got, history>>

Begin(c) ==
    /\ Deciding(c) /\ cached # "fresh" /\ ~cooling /\ minting = NoCaller
    /\ call' = [call EXCEPT ![c] = "minting"]
    /\ minting' = c
    /\ UNCHANGED <<enabled, cached, cooling, on, held, ctx, got, history>>

(* The mint succeeds.  What is granted may be shorter than the margin, and *)
(* even be over when the answer has been read: it is cached and returned   *)
(* unlooked at.  A caller that goes away by then changes nothing.          *)
MintOK(c) ==
    /\ call[c] = "minting"
    /\ cached' \in Lives
    /\ cooling' = FALSE /\ minting' = NoCaller
    /\ call' = [call EXCEPT ![c] = "minted"]
    /\ got' = [got EXCEPT ![c] = cached']
    /\ held' = [d \in Callers |-> IF held[d] = "same" THEN cached ELSE held[d]]
    /\ resets' = IF cooling THEN resets + 1 ELSE resets
    /\ UNCHANGED <<enabled, on, ctx, fails>>

(* Mutant: a failed mint leaves no cooldown behind.                        *)
MintFailsQuietly(c) ==
    /\ call[c] = "minting"
    /\ minting' = NoCaller
    /\ call' = [call EXCEPT ![c] = "failed"]
    /\ held' = [held EXCEPT ![c] = "same"]
    /\ fails' = fails + 1
    /\ UNCHANGED <<enabled, cached, cooling, on, ctx, got, resets>>

(* The mint fails: the service, the network, the time-out, a bad answer or *)
(* the caller's own context.  What is cached is read under the lock.       *)
MintFails(c) ==
    /\ call[c] = "minting"
    /\ cooling' = TRUE /\ minting' = NoCaller
    /\ call' = [call EXCEPT ![c] = "failed"]
    /\ held' = [held EXCEPT ![c] = "same"]
    /\ fails' = fails + 1
    /\ UNCHANGED <<enabled, cached, on, ctx, got, resets>>

Held(c) == IF held[c] = "same" THEN cached ELSE held[c]

(* The call that has minted returns; what another has read of the cache is *)
(* good only while it is valid.                                            *)
Lands(c) ==
    /\ got' = [got EXCEPT ![c] = IF call[c] = "minted" THEN @ ELSE Fallback(Held(c))]
    /\ held' = [held EXCEPT ![c] = "none"]
    /\ UNCHANGED <<enabled, flight, on, ctx, history>>

(* Mutant: a failed flight wakes nobody.                                   *)
CloseOnlyMinted(c) ==
    /\ call[c] \in {"minted", "failed"}
    /\ call' = [d \in Callers |-> IF d = c THEN "returned"
                ELSE IF call[d] = "waiting" /\ on[d] = c /\ call[c] = "minted"
                     THEN "woken" ELSE call[d]]
    /\ Lands(c)

(* close(done), after the lock is given up: everybody who waits goes on.   *)
Close(c) ==
    /\ call[c] \in {"minted", "failed"}
    /\ call' = [d \in Callers |-> IF d = c THEN "returned"
                ELSE IF call[d] = "waiting" /\ on[d] = c THEN "woken" ELSE call[d]]
    /\ Lands(c)

(* A waiting caller goes away; the select may prefer that to the wake.     *)
GiveUp(c) ==
    /\ call[c] \in {"waiting", "woken"} /\ ctx[c] = "done"
    /\ on[c] # NoCaller
    /\ Returns(c, "fallback")
    /\ UNCHANGED <<enabled, flight, on, held, ctx, history>>

CtxDone(c) ==
    /\ call[c] \in {"called", "waiting", "woken", "minting"} /\ ctx[c] = "live"
    /\ ctx' = [ctx EXCEPT ![c] = "done"]
    /\ UNCHANGED <<enabled, flight, call, on, held, got, history>>

(* Time passes for credentials, and for the cooldown.                      *)
Older(life) == IF life = "fresh" THEN "near" ELSE "expired"

Ages ==
    /\ cached \in Valid /\ cached' = Older(cached)
    /\ UNCHANGED <<enabled, cooling, minting, call, on, held, ctx, got, history>>

HeldAges(c) ==
    /\ held[c] \in Valid /\ held' = [held EXCEPT ![c] = Older(held[c])]
    /\ UNCHANGED <<enabled, flight, call, on, ctx, got, history>>

CooldownEnds ==
    /\ cooling /\ cooling' = FALSE
    /\ resets' = resets + 1
    /\ UNCHANGED <<enabled, cached, minting, call, on, held, ctx, got, fails>>

CallStep(c) ==
    \/ Hit(c) \/ Cool(c) \/ Wait(c) \/ Begin(c)
    \/ MintOK(c) \/ MintFails(c) \/ Close(c) \/ GiveUp(c)
Next == (\E c \in Callers : Calls(c) \/ CallStep(c) \/ CtxDone(c) \/ HeldAges(c))
        \/ Ages \/ CooldownEnds

Spec == Init /\ [][Next]_vars
FairSpec == Spec /\ \A c \in Callers : WF_vars(CallStep(c))

-----------------------------------------------------------------------------
(* One mint at a time, though it runs outside the lock, and everybody who  *)
(* waits, waits for a flight that has still to land (ice.go:127).          *)
OneFlight ==
    \A c \in Callers :
        /\ call[c] = "minting" <=> minting = c
        /\ call[c] = "waiting" =>
              on[c] \in Callers /\ call[on[c]] \in {"minting", "minted", "failed"}

(* An outage does not turn every caller into a failing mint: between two   *)
(* failures a cooldown has ended (ice.go:39).                              *)
FailuresSpaced == fails <= resets + (IF cooling THEN 1 ELSE 0)

(* What a call returns is valid, unless it has just been granted for so    *)
(* short a time; and it is STUN alone only if the caller has gone or       *)
(* nothing valid is cached, or was when the call's own mint failed         *)
(* (ice.go:84).                                                            *)
BestAnswer ==
    [][\A c \in Callers : call[c] # "returned" /\ call'[c] = "returned" =>
          /\ got'[c] = "expired" => call[c] = "minted"
          /\ got'[c] = "fallback" =>
                \/ ctx[c] = "done" \/ ~enabled
                \/ (IF call[c] = "failed" THEN Held(c) ELSE cached) \notin Valid]_vars

(* Every call returns, whatever becomes of the mint it waits for           *)
(* (ice.go:84: it never fails and is never stuck).                         *)
CallsReturn == \A c \in Callers : call[c] = "called" ~> call[c] = "returned"
=============================================================================
