------------------------- MODULE Negotiation_proofs -------------------------
(***************************************************************************)
(* Proofs about the page and the host: however often their sockets drop,   *)
(* are evicted or come back, and however messages are lost and crossed on  *)
(* the way, requests do not multiply, and once nothing but notices is on   *)
(* its way a stream outlives its sockets.  The two are owners of           *)
(* connections like any others, so what is proved of the hub with          *)
(* arbitrary owners holds while they use it.                               *)
(***************************************************************************)
EXTENDS Negotiation, Hub_proofs, FiniteSetTheorems, TLAPS

(* What the two ends know of the sessions: their part of NegTypeOK.        *)
EndsInv ==
    /\ pc \in 0..MaxSession /\ cur \in 0..MaxSession /\ built \in 0..MaxSession
    /\ obj \in [Sessions -> {"none", "new", "local", "up", "broken", "closed"}]
    /\ hand \in [Sessions -> {"none", "setup", "voided", "answering", "done"}]
    /\ host \in [Sessions -> {"none", "offered", "answered", "stale", "up", "ended"}]

LEMMA SessionFacts ==
    /\ MaxSession \in Nat /\ None = 0 /\ None \in 0..MaxSession
    /\ \A s \in Sessions : s \in 0..MaxSession /\ s # None
    /\ \A s \in 0..MaxSession : s # None => s \in Sessions
    /\ \A b \in 0..MaxSession : b < MaxSession => b + 1 \in Sessions
BY NegotiationAssumption DEF Sessions, None

(* Closing the page's peer connection, and a new epoch.                    *)
LEMMA CloseFacts ==
    ASSUME EndsInv, closePC
    PROVE  /\ pc' = None
           /\ obj' \in [Sessions -> {"none", "new", "local", "up", "broken", "closed"}]
BY SessionFacts DEF EndsInv, closePC

LEMMA EpochFacts ==
    ASSUME EndsInv
    PROVE  NewEpoch(hand) \in [Sessions -> {"none", "setup", "voided", "answering", "done"}]
BY DEF EndsInv, NewEpoch

LEMMA EndsInit == NegInit => EndsInv
BY SessionFacts DEF NegInit, EndsInv

(* Whatever happens, each end knows a session, and only sessions.          *)
LEMMA EndsStep == EndsInv /\ [NegNext]_vars => EndsInv'
<1> SUFFICES ASSUME EndsInv, [NegNext]_vars PROVE EndsInv'
    OBVIOUS
<1> USE SessionFacts DEF EndsInv
<1>1. ASSUME NEW c \in Conns, HubWorks(c) \/ SocketFails(c) PROVE EndsInv'
    BY <1>1 DEF HubWorks, SocketFails, pageVars, hostVars
<1>2. ASSUME NEW r \in Roles, OwnerFindsOut(r) PROVE EndsInv'
    BY <1>2 DEF OwnerFindsOut, pageVars, hostVars
<1>3. CASE PageDials \/ requestOffer \/ ThrottleExpires \/ HostDials \/ HostNotice
    BY <1>3 DEF PageDials, requestOffer, ThrottleExpires, HostDials, HostNotice, pageVars, hostVars
<1>4. CASE PageError \/ PageNotice
    BY <1>4, CloseFacts, EpochFacts DEF PageError, PageNotice, hostVars
<1>5. ASSUME NEW s \in Sessions, PageOffer(s) PROVE EndsInv'
    BY <1>5, CloseFacts DEF PageOffer, hostVars
<1>6. ASSUME NEW s \in Sessions, SetupDone(s) \/ PageAnswer(s) PROVE EndsInv'
    BY <1>6 DEF SetupDone, PageAnswer, hostVars
<1>7. CASE HostReady
    <2> DEFINE ended == IF cur = None THEN host ELSE [host EXCEPT ![cur] = "ended"]
    <2>1. built + 1 \in Sessions /\ UNCHANGED pageVars
        BY <1>7 DEF HostReady
    <2>2. ended \in [Sessions -> {"none", "offered", "answered", "stale", "up", "ended"}]
        OBVIOUS
    <2>3. /\ built' = built + 1 /\ cur' \in {None, built + 1}
          /\ host' \in {[ended EXCEPT ![built + 1] = "ended"], [ended EXCEPT ![built + 1] = "offered"]}
        BY <1>7 DEF HostReady
    <2> HIDE DEF ended
    <2> QED
        BY <2>1, <2>2, <2>3 DEF pageVars
<1>8. ASSUME NEW a \in Sessions, HostAnswer(a) PROVE EndsInv'
    BY <1>8 DEF HostAnswer, pageVars
<1>9. ASSUME NEW s \in Sessions,
             Connects(s) \/ PageLoses(s) \/ HostLoses(s) \/ MediaFails(s) \/ SourceDies(s)
      PROVE  EndsInv'
    BY <1>9 DEF Connects, PageLoses, HostLoses, MediaFails, SourceDies, pageVars, hostVars
<1>10. CASE UNCHANGED vars
    BY <1>10 DEF vars, pageVars, hostVars
<1> QED
    BY <1>1, <1>2, <1>3, <1>4, <1>5, <1>6, <1>7, <1>8, <1>9, <1>10
       DEF NegNext, PageStep, OfferStep, HostStep, MediaStep

LEMMA EndsInvariant == NegSpec => []EndsInv
<1>1. EndsInv /\ [NegNext]_vars => EndsInv'
    BY EndsStep
<1> QED
    BY <1>1, EndsInit, PTL DEF NegSpec

-----------------------------------------------------------------------------
(* The signals are messages the hub carries, and are told apart by type.   *)
LEMMA SignalFacts ==
    /\ Ready \in Cargo /\ Error \in Cargo
    /\ \A s \in Sessions : Offer(s) \in Cargo /\ Answer(s) \in Cargo
    /\ {"host", "client"} = Roles
BY CargoAssumption DEF Signals, Roles

(* A step of the page, of the host or of the media is traffic on the       *)
(* connections the two hold, or nothing to the hub.                        *)
LEMMA PageTraffic ==
    ASSUME EndsInv,
           \/ requestOffer \/ PageError \/ PageNotice
           \/ \E s \in Sessions : PageOffer(s) \/ PageAnswer(s)
    PROVE  Traffic("client")
<1> USE SignalFacts, SessionFacts DEF Traffic, Takes, hubRest
<1>1. CASE requestOffer
    BY <1>1 DEF requestOffer
<1>2. CASE PageError \/ PageNotice
    BY <1>2 DEF PageError, PageNotice
<1>3. ASSUME NEW s \in Sessions, PageOffer(s) PROVE Traffic("client")
    BY <1>3 DEF PageOffer
<1>4. ASSUME NEW s \in Sessions, PageAnswer(s) PROVE Traffic("client")
    <2>1. pc # None => Answer(pc) \in Cargo
        BY DEF EndsInv
    <2> QED
        BY <1>4, <2>1 DEF PageAnswer
<1> QED
    BY <1>1, <1>2, <1>3, <1>4

LEMMA HostTraffic ==
    ASSUME EndsInv,
           \/ HostReady \/ HostNotice
           \/ \E s \in Sessions : HostAnswer(s) \/ SourceDies(s)
    PROVE  Traffic("host")
<1> USE SignalFacts, SessionFacts DEF Traffic, Takes, hubRest
<1>1. CASE HostReady
    <2>1. Offer(built + 1) \in Cargo
        BY <1>1 DEF HostReady, EndsInv
    <2> QED
        BY <1>1, <2>1 DEF HostReady
<1>2. CASE HostNotice
    BY <1>2 DEF HostNotice
<1>3. ASSUME NEW s \in Sessions, HostAnswer(s) \/ SourceDies(s) PROVE Traffic("host")
    BY <1>3 DEF HostAnswer, SourceDies
<1> QED
    BY <1>1, <1>2, <1>3

LEMMA NegHubStep == EndsInv /\ [NegNext]_vars => [OpenNext]_hubVars
<1> SUFFICES ASSUME EndsInv, [NegNext]_vars PROVE [OpenNext]_hubVars
    OBVIOUS
<1>1. ASSUME NEW c \in Conns, HubWorks(c) \/ SocketFails(c) PROVE OpenNext
    BY <1>1 DEF HubWorks, SocketFails, OpenNext
<1>2. ASSUME NEW r \in Roles, OwnerFindsOut(r) PROVE OpenNext
    BY <1>2 DEF OwnerFindsOut, OpenNext
<1>3. CASE PageDials \/ HostDials
    <2>1. <<>> \in Seq(Cargo) /\ <<Ready>> \in Seq(Cargo)
        BY SignalFacts
    <2>2. Dial("client", <<>>) \/ Dial("client", <<Ready>>) \/ Dial("host", <<>>)
        BY <1>3 DEF PageDials, HostDials
    <2>3. \E r \in Roles : \E hello \in Seq(Cargo) : Dial(r, hello)
        BY <2>1, <2>2, SignalFacts
    <2> QED
        BY <2>3 DEF OpenNext
<1>4. CASE \/ requestOffer \/ PageError \/ PageNotice
           \/ \E s \in Sessions : PageOffer(s) \/ PageAnswer(s)
    BY <1>4, PageTraffic, SignalFacts DEF OpenNext
<1>5. CASE \/ HostReady \/ HostNotice
           \/ \E s \in Sessions : HostAnswer(s) \/ SourceDies(s)
    BY <1>5, HostTraffic, SignalFacts DEF OpenNext
<1>6. CASE ThrottleExpires
    BY <1>6 DEF ThrottleExpires
<1>7. ASSUME NEW s \in Sessions,
             SetupDone(s) \/ Connects(s) \/ PageLoses(s) \/ HostLoses(s) \/ MediaFails(s)
      PROVE  UNCHANGED hubVars
    BY <1>7 DEF SetupDone, Connects, PageLoses, HostLoses, MediaFails
<1>8. CASE UNCHANGED vars
    BY <1>8 DEF vars
<1> QED
    BY <1>1, <1>2, <1>3, <1>4, <1>5, <1>6, <1>7, <1>8
       DEF NegNext, PageStep, OfferStep, HostStep, MediaStep

(* To the hub, the page and the host are owners like any others.           *)
THEOREM HubInUse == NegSpec => OpenSpec
<1>1. NegInit => Init
    BY DEF NegInit
<1> QED
    BY <1>1, NegHubStep, EndsInvariant, PTL DEF NegSpec, OpenSpec

(* So while the two negotiate, a role is held by a connection whose        *)
(* handler will give it up (server.go:120);                                *)
THEOREM HolderIsServedInUse == NegSpec => []HolderServed
BY HubInUse, OpenInvariant, PTL DEF HubInv

(* of two open connections of one side, one is about to be closed          *)
(* (server.go:115);                                                        *)
THEOREM OneIsServedInUse == NegSpec => []OneServed
BY HubInUse, OpenInvariant, PTL DEF HubInv

(* and a late departure takes no role from a successor (server.go:77).     *)
THEOREM RoleIsKeptInUse == NegSpec => RoleKept
BY HubInUse, OpenRoleIsKept, PTL

(* The bounds on what may go wrong, and where sessions were requested.     *)
RestOK ==
    /\ via \in [Sessions -> Conns \cup {NoConn}]
    /\ asked \in BOOLEAN /\ faults \in Nat /\ early \in Nat /\ faults + early <= MaxTrouble

LEMMA RestStep == TypeOK /\ EndsInv /\ RestOK /\ [NegNext]_vars => RestOK'
<1> SUFFICES ASSUME TypeOK, EndsInv, RestOK, [NegNext]_vars PROVE RestOK'
    OBVIOUS
<1> USE NegotiationAssumption DEF RestOK
<1>1. ASSUME Fault, UNCHANGED <<via, asked>> PROVE RestOK'
    <2>1. PICK f \in Nat, e \in Nat : f = faults /\ e = early
        OBVIOUS
    <2>2. f + e < MaxTrouble /\ faults' = f + 1 /\ early' = e
        BY <1>1, <2>1 DEF Fault, Trouble
    <2>3. faults' \in Nat /\ early' \in Nat /\ faults' + early' <= MaxTrouble
        BY <2>2
    <2>4. via' = via /\ asked' = asked
        BY <1>1
    <2> QED
        BY <2>3, <2>4
<1>2. ASSUME NEW c \in Conns, HubWorks(c) \/ SocketFails(c) PROVE RestOK'
    BY <1>1, <1>2 DEF HubWorks, SocketFails, pageVars, hostVars, envVars
<1>3. ASSUME NEW r \in Roles, OwnerFindsOut(r) PROVE RestOK'
    BY <1>3 DEF OwnerFindsOut, pageVars, hostVars, envVars
<1>4. CASE PageStep
    BY <1>4 DEF PageStep, PageDials, requestOffer, PageError, PageNotice, hostVars, envVars, mediaHealthy
<1>5. CASE ThrottleExpires
    <2>1. asked' = FALSE /\ UNCHANGED <<via, faults>>
        BY <1>5 DEF ThrottleExpires, hostVars
    <2>2. \/ UNCHANGED early
          \/ faults + early < MaxTrouble /\ early' = early + 1
        BY <1>5 DEF ThrottleExpires, Trouble
    <2>3. PICK f \in Nat, e \in Nat : f = faults /\ e = early
        OBVIOUS
    <2>4. early' \in Nat /\ f + early' <= MaxTrouble
        BY <2>2, <2>3
    <2>5. asked' \in BOOLEAN
        BY <2>1
    <2> QED
        BY <2>1, <2>3, <2>4, <2>5
<1>6. ASSUME NEW s \in Sessions, OfferStep(s) \/ MediaStep(s) PROVE RestOK'
    BY <1>6 DEF OfferStep, PageOffer, SetupDone, PageAnswer, MediaStep, Connects, PageLoses,
                HostLoses, hostVars, pageVars, envVars
<1>7. ASSUME NEW s \in Sessions, MediaFails(s) \/ SourceDies(s) PROVE RestOK'
    BY <1>1, <1>7 DEF MediaFails, SourceDies, hostVars, pageVars
<1>8. CASE HostReady
    <2>1. ws["host"] \in Conns \cup {NoConn}
        BY SignalFacts DEF TypeOK
    <2> QED
        BY <1>8, <2>1 DEF HostReady, pageVars, envVars
<1>9. CASE HostDials \/ HostNotice \/ \E a \in Sessions : HostAnswer(a)
    BY <1>9 DEF HostDials, HostNotice, HostAnswer, pageVars, hostVars, envVars
<1>10. CASE UNCHANGED vars
    BY <1>10 DEF vars, pageVars, hostVars, envVars
<1> QED
    BY <1>2, <1>3, <1>4, <1>5, <1>6, <1>7, <1>8, <1>9, <1>10 DEF NegNext, HostStep

(* Type correctness of the negotiation and the hub under it, for every set *)
(* of connections and every bound.                                         *)
THEOREM NegTypes == NegSpec => []NegTypeOK
<1>1. NegInit => RestOK
    <2> SUFFICES ASSUME NegInit PROVE RestOK
        OBVIOUS
    <2>1. via \in [Sessions -> Conns \cup {NoConn}] /\ asked \in BOOLEAN
        BY DEF NegInit
    <2>2. faults \in Nat /\ early \in Nat /\ faults + early <= MaxTrouble
        BY NegotiationAssumption DEF NegInit
    <2> QED
        BY <2>1, <2>2 DEF RestOK
<1>2. RestOK /\ TypeOK /\ EndsInv /\ [NegNext]_vars => RestOK'
    BY RestStep
<1>3. NegSpec => []TypeOK
    BY HubInUse, OpenInvariant, PTL DEF HubInv
<1>4. TypeOK /\ EndsInv /\ RestOK => NegTypeOK
    BY DEF EndsInv, RestOK, NegTypeOK
<1> QED
    BY <1>1, <1>2, <1>3, <1>4, EndsInvariant, PTL DEF NegSpec

(* What may end the stream of session s: its media, its source, a request  *)
(* at the host, or an offer or an error at the page.                       *)
Causes(s) ==
    \/ MediaFails(s) \/ SourceDies(s) \/ HostReady \/ PageError
    \/ \E o \in Sessions : PageOffer(o) \/ SetupDone(o)

LEMMA StreamStep ==
    ASSUME EndsInv, [NegNext]_vars, NEW s \in Sessions, Streaming(s), ~Causes(s)
    PROVE  Streaming(s)'
<1> USE SessionFacts DEF EndsInv, Streaming
<1>1. ASSUME NEW c \in Conns, HubWorks(c) \/ SocketFails(c) PROVE Streaming(s)'
    BY <1>1 DEF HubWorks, SocketFails, pageVars, hostVars
<1>2. ASSUME NEW r \in Roles, OwnerFindsOut(r) PROVE Streaming(s)'
    BY <1>2 DEF OwnerFindsOut, pageVars, hostVars
<1>3. CASE PageDials \/ requestOffer \/ ThrottleExpires \/ HostDials \/ HostNotice
    BY <1>3 DEF PageDials, requestOffer, ThrottleExpires, HostDials, HostNotice, pageVars, hostVars
<1>4. CASE PageNotice
    BY <1>4 DEF PageNotice, mediaHealthy, hostVars
<1>5. ASSUME NEW o \in Sessions, PageAnswer(o) PROVE Streaming(s)'
    BY <1>5 DEF PageAnswer, hostVars
<1>6. ASSUME NEW a \in Sessions, HostAnswer(a) PROVE Streaming(s)'
    BY <1>6 DEF HostAnswer, pageVars
<1>7. ASSUME NEW o \in Sessions,
             Connects(o) \/ PageLoses(o) \/ HostLoses(o) \/ MediaFails(o) \/ SourceDies(o)
      PROVE  Streaming(s)'
    <2>1. CASE o = s
        BY <1>7, <2>1 DEF Causes, Connects, PageLoses, HostLoses
    <2>2. CASE o # s
        BY <1>7, <2>2 DEF Connects, PageLoses, HostLoses, MediaFails, SourceDies, pageVars, hostVars
    <2> QED
        BY <2>1, <2>2
<1>8. CASE UNCHANGED vars
    BY <1>8 DEF vars, pageVars, hostVars
<1> QED
    BY <1>1, <1>2, <1>3, <1>4, <1>5, <1>6, <1>7, <1>8
       DEF NegNext, PageStep, OfferStep, HostStep, MediaStep, Causes

-----------------------------------------------------------------------------
(* FewRebuilds is not inductive: what it counts depends on what is on its  *)
(* way.  Every fault is worth three sessions, every request repeated too   *)
(* early two; every request on its way and every session built is paid     *)
(* with one, and so is, in advance, a dead connection of the page whose    *)
(* handler has still to run and will then close the page's open one.       *)
Late(c) ==
    /\ c \in PageConns /\ link[c] # "up"
    /\ \/ handler[c] = "accepted"
       \/ handler[c] = "evicting" /\ link[other[c]] = "up"

Due(place, c, i) ==
    \/ place = "inbox" /\ i \in DOMAIN inbox[c] /\ inbox[c][i] = Ready
    \/ place = "held" /\ i = 1 /\ handler[c] = "sending" /\ msg[c] = Ready
    \/ place = "outbox" /\ i \in DOMAIN outbox[c] /\ outbox[c][i] = Ready
    \/ place = "late" /\ i = 1 /\ Late(c)
Places == {"inbox", "held", "outbox", "late"}
Dues == {d \in Places \X Conns \X Nat : Due(d[1], d[2], d[3])}

(* There is room for n more sessions than are due.                         *)
Room(n) ==
    /\ IsFiniteSet(Dues)
    /\ built + Cardinality(Dues) + n <= 1 + 3 * faults + 2 * early

(* A step adds at most k to what is due.                                   *)
Grows(k) ==
    IsFiniteSet(Dues) => IsFiniteSet(Dues') /\ Cardinality(Dues') <= Cardinality(Dues) + k

LEMMA GrowsNot ==
    ASSUME \/ Dues' \subseteq Dues
           \/ \E f : f \in Injection(Dues', Dues)
           \/ \E x \in Dues : \E y : Dues' \subseteq (Dues \ {x}) \cup {y}
    PROVE  Grows(0)
<1> SUFFICES ASSUME IsFiniteSet(Dues)
             PROVE  IsFiniteSet(Dues') /\ Cardinality(Dues') <= Cardinality(Dues) + 0
    BY DEF Grows
<1>0. Cardinality(Dues) \in Nat
    BY FS_CardinalityType
<1>1. CASE Dues' \subseteq Dues
    <2>1. IsFiniteSet(Dues') /\ Cardinality(Dues') <= Cardinality(Dues)
        BY <1>1, FS_Subset
    <2> QED
        BY <1>0, <2>1
<1>2. ASSUME NEW f \in Injection(Dues', Dues)
      PROVE  IsFiniteSet(Dues') /\ Cardinality(Dues') <= Cardinality(Dues) + 0
    <2>1. IsFiniteSet(Dues') /\ Cardinality(Dues') <= Cardinality(Dues)
        BY <1>2, FS_Injection
    <2> QED
        BY <1>0, <2>1
<1>3. ASSUME NEW x \in Dues, NEW y, Dues' \subseteq (Dues \ {x}) \cup {y}
      PROVE  IsFiniteSet(Dues') /\ Cardinality(Dues') <= Cardinality(Dues) + 0
    <2> DEFINE rest == Dues \ {x}
               all == rest \cup {y}
    <2>1. IsFiniteSet(rest) /\ Cardinality(rest) = Cardinality(Dues) - 1
        BY <1>3, FS_RemoveElement
    <2>2. /\ IsFiniteSet(all)
          /\ Cardinality(all) = IF y \in rest THEN Cardinality(rest) ELSE Cardinality(rest) + 1
        BY <2>1, FS_AddElement
    <2>3. IsFiniteSet(Dues') /\ Cardinality(Dues') <= Cardinality(all)
        BY <1>3, <2>2, FS_Subset
    <2>4. Cardinality(Dues') \in Nat
        BY <2>3, FS_CardinalityType
    <2> HIDE DEF rest, all
    <2> QED
        BY <1>0, <2>1, <2>2, <2>3, <2>4
<1> QED
    BY <1>1, <1>2, <1>3

LEMMA GrowsByOne ==
    ASSUME NEW y, Dues' \subseteq Dues \cup {y}
    PROVE  Grows(1)
<1> SUFFICES ASSUME IsFiniteSet(Dues)
             PROVE  IsFiniteSet(Dues') /\ Cardinality(Dues') <= Cardinality(Dues) + 1
    BY DEF Grows
<1> DEFINE all == Dues \cup {y}
<1>1. /\ IsFiniteSet(all)
      /\ Cardinality(all) = IF y \in Dues THEN Cardinality(Dues) ELSE Cardinality(Dues) + 1
    BY FS_AddElement
<1>2. IsFiniteSet(Dues') /\ Cardinality(Dues') <= Cardinality(all)
    BY <1>1, FS_Subset
<1>3. Cardinality(Dues) \in Nat /\ Cardinality(Dues') \in Nat
    BY <1>2, FS_CardinalityType
<1> HIDE DEF all
<1> QED
    BY <1>1, <1>2, <1>3

LEMMA GrowsLess ==
    ASSUME NEW x \in Dues,
           \/ Dues' \subseteq Dues \ {x}
           \/ \E f : f \in Injection(Dues', Dues \ {x})
    PROVE  Grows(-1)
<1> SUFFICES ASSUME IsFiniteSet(Dues)
             PROVE  IsFiniteSet(Dues') /\ Cardinality(Dues') <= Cardinality(Dues) + -1
    BY DEF Grows
<1> DEFINE rest == Dues \ {x}
<1>1. IsFiniteSet(rest) /\ Cardinality(rest) = Cardinality(Dues) - 1
    BY FS_RemoveElement
<1>2. IsFiniteSet(Dues') /\ Cardinality(Dues') <= Cardinality(rest)
    <2>1. CASE Dues' \subseteq rest
        BY <1>1, <2>1, FS_Subset
    <2>2. ASSUME NEW f \in Injection(Dues', rest)
          PROVE  IsFiniteSet(Dues') /\ Cardinality(Dues') <= Cardinality(rest)
        BY <1>1, <2>2, FS_Injection
    <2> QED
        BY <2>1, <2>2
<1>3. Cardinality(Dues) \in Nat /\ Cardinality(Dues') \in Nat
    BY <1>2, FS_CardinalityType
<1> HIDE DEF rest
<1> QED
    BY <1>1, <1>2, <1>3

(* What is due, one at a time.                                             *)
LEMMA DueMember ==
    ASSUME NEW p \in Places, NEW c \in Conns, NEW i \in Nat
    PROVE  <<p, c, i>> \in Dues <=> Due(p, c, i)
BY DEF Dues

LEMMA DueNext ==
    ASSUME NEW S, \A p \in Places, c \in Conns, i \in Nat : Due(p, c, i)' => <<p, c, i>> \in S
    PROVE  Dues' \subseteq S
BY DEF Dues

(* What an owner says is due only if it is a request.                      *)
LEMMA DuesSend ==
    ASSUME TypeOK, NEW r \in Roles, NEW m, OwnerSends(r, m),
           UNCHANGED <<handler, other, msg, link, outbox>>
    PROVE  /\ Grows(1)
           /\ m # Ready => Grows(0)
<1> DEFINE x == <<"inbox", ws[r], Len(inbox[ws[r]]) + 1>>
<1>1. ASSUME NEW p \in Places, NEW c \in Conns, NEW i \in Nat, Due(p, c, i)'
      PROVE  Due(p, c, i) \/ (<<p, c, i>> = x /\ m = Ready)
    <2>1. CASE p # "inbox"
        BY <1>1, <2>1 DEF Due, Late, Places
    <2>2. CASE p = "inbox" /\ inbox'[c] = inbox[c]
        BY <1>1, <2>2 DEF Due
    <2>3. CASE p = "inbox" /\ inbox'[c] # inbox[c]
        <3>1. c = ws[r] /\ inbox'[c] = Append(inbox[c], m) /\ inbox[c] \in Seq(Cargo)
            BY <2>3 DEF OwnerSends, TypeOK
        <3>2. i \in 1..(Len(inbox[c]) + 1) /\ inbox'[c][i] = Ready
            BY <1>1, <2>3, <3>1 DEF Due
        <3>3. CASE i = Len(inbox[c]) + 1
            BY <2>3, <3>1, <3>2, <3>3
        <3>4. CASE i \in 1..Len(inbox[c])
            BY <2>3, <3>1, <3>2, <3>4 DEF Due
        <3> QED
            BY <3>2, <3>3, <3>4
    <2> QED
        BY <2>1, <2>2, <2>3
<1> HIDE DEF x
<1>2. Dues' \subseteq Dues \cup {x}
    <2>1. \A p \in Places, c \in Conns, i \in Nat : Due(p, c, i)' => <<p, c, i>> \in Dues \cup {x}
        BY <1>1, DueMember
    <2> QED
        BY <2>1, DueNext
<1>3. m # Ready => Dues' \subseteq Dues
    <2>1. m # Ready => \A p \in Places, c \in Conns, i \in Nat : Due(p, c, i)' => <<p, c, i>> \in Dues
        BY <1>1, DueMember
    <2> QED
        BY <2>1, DueNext
<1> QED
    BY <1>2, <1>3, GrowsByOne, GrowsNot

(* What an owner takes is no longer on its way; it may answer at once.     *)
LEMMA DuesTake ==
    ASSUME TypeOK, NEW r \in Roles, NEW m, Takes(r, m), UNCHANGED <<handler, other, msg, link>>,
           \/ UNCHANGED inbox
           \/ \E a \in Cargo \ {Ready} : OwnerSends(r, a)
    PROVE  /\ Grows(0)
           /\ m = Ready => Grows(-1)
<1> DEFINE w == ws[r]
           x == <<"outbox", w, 1>>
           f == [d \in Dues' |-> IF d[1] = "outbox" /\ d[2] = w THEN <<"outbox", w, d[3] + 1>> ELSE d]
<1>1. /\ w \in Conns /\ outbox[w] \in Seq(Cargo \cup {Notice}) /\ outbox[w] # <<>> /\ outbox[w][1] = m
      /\ outbox' = [outbox EXCEPT ![w] = Tail(outbox[w])]
    BY DEF Takes, TypeOK
<1>2. ASSUME NEW c \in Conns, NEW i \in Nat, Due("inbox", c, i)'
      PROVE  Due("inbox", c, i)
    <2>1. CASE inbox'[c] = inbox[c]
        BY <1>2, <2>1 DEF Due
    <2>2. CASE inbox'[c] # inbox[c]
        <3>1. PICK a \in Cargo \ {Ready} : OwnerSends(r, a)
            BY <2>2
        <3>2. inbox'[c] = Append(inbox[c], a) /\ inbox[c] \in Seq(Cargo)
            BY <2>2, <3>1 DEF OwnerSends, TypeOK
        <3>3. i \in 1..(Len(inbox[c]) + 1) /\ inbox'[c][i] = Ready
            BY <1>2, <3>2 DEF Due
        <3>4. i \in 1..Len(inbox[c])
            BY <3>1, <3>2, <3>3
        <3> QED
            BY <3>2, <3>3, <3>4 DEF Due
    <2> QED
        BY <2>1, <2>2
<1>3. ASSUME NEW c \in Conns, NEW i \in Nat, Due("outbox", c, i)'
      PROVE  IF c = w THEN Due("outbox", c, i + 1) /\ i # 0 ELSE Due("outbox", c, i)
    <2>1. CASE c # w
        BY <1>1, <1>3, <2>1 DEF Due, TypeOK
    <2>2. CASE c = w
        <3>1. outbox'[w] = Tail(outbox[w])
            BY <1>1 DEF TypeOK
        <3>2. i \in DOMAIN Tail(outbox[w]) /\ Tail(outbox[w])[i] = Ready
            BY <1>3, <2>2, <3>1 DEF Due
        <3>3. i \in 1..(Len(outbox[w]) - 1) /\ outbox[w][i + 1] = Ready
            BY <1>1, <3>2
        <3> QED
            BY <1>1, <2>2, <3>3 DEF Due
    <2> QED
        BY <2>1, <2>2
<1>4. ASSUME NEW p \in Places, NEW c \in Conns, NEW i \in Nat, p \notin {"inbox", "outbox"}, Due(p, c, i)'
      PROVE  Due(p, c, i)
    BY <1>4 DEF Due, Late, Places
<1>5. ASSUME NEW d \in Dues'
      PROVE  /\ f[d] \in Dues /\ f[d] # x
             /\ d = IF f[d][1] = "outbox" /\ f[d][2] = w THEN <<"outbox", w, f[d][3] - 1>> ELSE f[d]
    <2>1. PICK p \in Places, c \in Conns, i \in Nat : d = <<p, c, i>> /\ Due(p, c, i)'
        BY <1>5 DEF Dues
    <2>2. CASE p = "outbox" /\ c = w
        <3>1. f[d] = <<"outbox", w, i + 1>> /\ i # 0 /\ Due("outbox", w, i + 1)
            BY <1>3, <2>1, <2>2
        <3>2. "outbox" \in Places /\ i + 1 \in Nat /\ i + 1 # 1 /\ (i + 1) - 1 = i
            BY <3>1 DEF Places
        <3>3. f[d] \in Dues
            BY <1>1, <3>1, <3>2, DueMember
        <3> QED
            BY <2>1, <2>2, <3>1, <3>2, <3>3
    <2>3. CASE ~(p = "outbox" /\ c = w)
        <3>1. f[d] = d
            BY <2>1, <2>3
        <3>2. Due(p, c, i)
            BY <1>2, <1>3, <1>4, <2>1, <2>3
        <3> QED
            BY <2>1, <2>3, <3>1, <3>2, DueMember
    <2> QED
        BY <2>2, <2>3
<1> HIDE DEF x, w
<1>6. f \in [Dues' -> Dues] /\ f \in [Dues' -> Dues \ {x}]
    BY <1>5
<1>7. ASSUME NEW d \in Dues', NEW e \in Dues', f[d] = f[e] PROVE d = e
    BY <1>5, <1>7
<1> HIDE DEF f
<1>8. f \in Injection(Dues', Dues) /\ f \in Injection(Dues', Dues \ {x})
    BY <1>6, <1>7 DEF Injection, IsInjective
<1>9. m = Ready => x \in Dues
    BY <1>1, DueMember DEF Due, x, Places
<1> QED
    BY <1>8, <1>9, GrowsNot, GrowsLess

(* A handler that is still connected evicts what is already closed: its    *)
(* owner holds one connection.                                             *)
LEMMA EvictsClosed ==
    ASSUME HubInv, NEW c \in Conns, handler[c] = "evicting", link[c] = "up"
    PROVE  link[other[c]] # "up"
BY DEF HubInv, OwnedInv, DisplacedInv, HeldInv, Holding

(* No handler makes a connection of the page late.                         *)
LEMMA LateHub ==
    ASSUME HubInv, NEW c \in Conns, HandlerStep(c)
    PROVE  /\ \A d \in Conns : Late(d)' => Late(d)
           /\ Evict(c) => ~Late(c)'
<1> USE DEF HubInv, Late
<1>1. CASE Register(c)
    <2>1. /\ handler[c] = "accepted" /\ UNCHANGED link
          /\ \E next \in {"reading", "evicting"} : \E p : Goes(c, next, p, NoMsg)
        BY <1>1 DEF Register
    <2>2. \A d \in Conns \ {c} : handler'[d] = handler[d] /\ other'[d] = other[d]
        BY <2>1, OthersStay
    <2> QED
        BY <1>1, <2>1, <2>2 DEF Register, Evict
<1>2. CASE Evict(c)
    <2>1. /\ other[c] \in Conns /\ link' = [link EXCEPT ![other[c]] = "down"]
          /\ handler[other[c]] \notin {"none", "accepted"}
          /\ handler[c] = "evicting" /\ Goes(c, "reading", NoConn, NoMsg)
        BY <1>2 DEF Evict, CloseNow, HeldInv, Holding, DisplacedInv
    <2>2. handler'[c] = "reading" /\ \A d \in Conns \ {c} :
              handler'[d] = handler[d] /\ other'[d] = other[d]
        BY <2>1, OthersStay
    <2>3. \A d \in Conns : link'[d] = "up" => link[d] = "up"
        BY <2>1 DEF TypeOK
    <2>4. ASSUME NEW d \in Conns, Late(d)' PROVE Late(d)
        <3>1. d # c /\ d \in PageConns /\ link'[d] # "up"
            BY <2>2, <2>4
        <3>2. CASE handler[d] = "accepted"
            <4>1. d # other[c]
                BY <2>1, <3>2
            <4> QED
                BY <2>1, <3>1, <3>2, <4>1 DEF TypeOK
        <3>3. CASE handler[d] = "evicting"
            <4>1. other[d] \in Conns /\ link'[other[d]] = "up"
                BY <2>2, <2>4, <3>1, <3>3 DEF HeldInv, Holding
            <4>2. link[d] # "up"
                BY <2>3, <3>3, <4>1, EvictsClosed
            <4> QED
                BY <2>3, <3>1, <3>3, <4>1, <4>2
        <3> QED
            BY <2>2, <2>4, <3>1, <3>2, <3>3
    <2> QED
        BY <2>2, <2>4
<1>3. CASE ReadMsg(c) \/ Forward(c) \/ Leave(c) \/ LookUp(c) \/ Tell(c)
    <2>1. /\ UNCHANGED link /\ handler[c] \notin {"accepted", "evicting"}
          /\ \/ UNCHANGED <<handler, other>>
             \/ \E next \in {"reading", "sending", "noticing", "telling", "done"} :
                  \E p, m : Goes(c, next, p, m)
        BY <1>3 DEF ReadMsg, Forward, Leave, LookUp, Tell
    <2>2. /\ handler'[c] \notin {"accepted", "evicting"}
          /\ \A d \in Conns \ {c} : handler'[d] = handler[d] /\ other'[d] = other[d]
        BY <2>1, OthersStay
    <2> QED
        BY <2>1, <2>2 DEF Evict
<1>4. CASE KeepAlive(c)
    <2>1. /\ UNCHANGED <<handler, other>> /\ link[c] = "cut" /\ link' = [link EXCEPT ![c] = "down"]
          /\ handler[c] # "evicting"
        BY <1>4 DEF KeepAlive, CloseNow
    <2>2. \A d \in Conns : link'[d] = "up" <=> link[d] = "up"
        BY <2>1 DEF TypeOK
    <2>3. \A d \in Conns : handler[d] = "evicting" => other[d] \in Conns
        BY DEF HeldInv, Holding
    <2> QED
        BY <2>1, <2>2, <2>3 DEF Evict
<1> QED
    BY <1>1, <1>2, <1>3, <1>4 DEF HandlerStep

(* A handler passes requests on, or loses them.                            *)
LEMMA DuesHub ==
    ASSUME HubInv, NEW c \in Conns, HandlerStep(c)
    PROVE  /\ Grows(0)
           /\ Evict(c) /\ Late(c) => Grows(-1)
<1> USE DEF HubInv
<1>0. \A d \in Conns, i \in Nat : Due("late", d, i)' => Due("late", d, i)
    BY LateHub DEF Due
<1>1. CASE Register(c) \/ Evict(c) \/ Leave(c) \/ LookUp(c) \/ KeepAlive(c)
    <2>1. \/ UNCHANGED <<inbox, outbox>>
          \/ UNCHANGED outbox /\ \E e \in Conns : inbox' = [inbox EXCEPT ![e] = <<>>]
        BY <1>1 DEF Register, Evict, Leave, LookUp, KeepAlive, CloseNow, HeldInv, Holding
    <2>2. \A d \in Conns : outbox'[d] = outbox[d] /\ (inbox'[d] = inbox[d] \/ inbox'[d] = <<>>)
        BY <2>1 DEF TypeOK
    <2>3. \/ UNCHANGED <<handler, msg>>
          \/ \E next \in {"reading", "evicting", "noticing", "telling", "done"} : \E p, m : Goes(c, next, p, m)
        BY <1>1 DEF Register, Evict, Leave, LookUp, KeepAlive
    <2>4. \A d \in Conns : handler'[d] = "sending" => handler[d] = "sending" /\ msg'[d] = msg[d]
        BY <2>3, OthersStay
    <2>5. ASSUME NEW p \in Places, NEW d \in Conns, NEW i \in Nat, Due(p, d, i)' PROVE Due(p, d, i)
        BY <1>0, <2>2, <2>4, <2>5 DEF Due, Places
    <2>6. \A p \in Places, d \in Conns, i \in Nat : Due(p, d, i)' => <<p, d, i>> \in Dues
        BY <2>5, DueMember
    <2>7. Dues' \subseteq Dues
        BY <2>6, DueNext
    <2>8. Evict(c) /\ Late(c) => <<"late", c, 1>> \in Dues /\ Dues' \subseteq Dues \ {<<"late", c, 1>>}
        <3> SUFFICES ASSUME Evict(c), Late(c)
                     PROVE  <<"late", c, 1>> \in Dues /\ Dues' \subseteq Dues \ {<<"late", c, 1>>}
            OBVIOUS
        <3>1. <<"late", c, 1>> \in Dues
            BY DueMember DEF Due, Places
        <3>2. ~Due("late", c, 1)'
            BY LateHub DEF Due
        <3>3. \A p \in Places, d \in Conns, i \in Nat :
                  Due(p, d, i)' => <<p, d, i>> \in Dues \ {<<"late", c, 1>>}
            BY <2>6, <3>2
        <3> QED
            BY <3>1, <3>3, DueNext
    <2> QED
        BY <2>7, <2>8, GrowsNot, GrowsLess
<1>2. CASE ReadMsg(c)
    <2> DEFINE f == [d \in Dues' |-> IF d[1] = "inbox" /\ d[2] = c THEN <<"inbox", c, d[3] + 1>>
                                     ELSE IF d = <<"held", c, 1>> THEN <<"inbox", c, 1>> ELSE d]
    <2>1. /\ inbox[c] \in Seq(Cargo) /\ inbox[c] # <<>> /\ handler[c] = "reading"
          /\ inbox' = [inbox EXCEPT ![c] = Tail(inbox[c])] /\ UNCHANGED outbox
          /\ \/ UNCHANGED <<handler, other, msg>>
             \/ \E o : Goes(c, "sending", o, Head(inbox[c]))
        BY <1>2 DEF ReadMsg, TypeOK
    <2>2. ASSUME NEW e \in Conns, NEW i \in Nat, Due("inbox", e, i)'
          PROVE  IF e = c THEN Due("inbox", c, i + 1) /\ i # 0 ELSE Due("inbox", e, i)
        <3>1. CASE e # c
            BY <2>1, <2>2, <3>1 DEF Due, TypeOK
        <3>2. CASE e = c
            <4>1. inbox'[c] = Tail(inbox[c])
                BY <2>1 DEF TypeOK
            <4>2. i \in DOMAIN Tail(inbox[c]) /\ Tail(inbox[c])[i] = Ready
                BY <2>2, <3>2, <4>1 DEF Due
            <4>3. i \in 1..(Len(inbox[c]) - 1) /\ inbox[c][i + 1] = Ready
                BY <2>1, <4>2
            <4> QED
                BY <2>1, <3>2, <4>3 DEF Due
        <3> QED
            BY <3>1, <3>2
    <2>3. ASSUME NEW e \in Conns, NEW i \in Nat, Due("held", e, i)'
          PROVE  i = 1 /\ IF e = c THEN Due("inbox", c, 1) ELSE Due("held", e, i)
        <3>1. i = 1 /\ handler'[e] = "sending" /\ msg'[e] = Ready
            BY <2>3 DEF Due
        <3>2. CASE e = c
            <4>1. msg'[c] = Head(inbox[c])
                BY <2>1, <3>1, <3>2, OthersStay
            <4> QED
                BY <2>1, <3>1, <3>2, <4>1 DEF Due
        <3>3. CASE e # c
            BY <2>1, <3>1, <3>3, OthersStay DEF Due
        <3> QED
            BY <3>1, <3>2, <3>3
    <2>4. ASSUME NEW e \in Conns, NEW i \in Nat, Due("outbox", e, i)' PROVE Due("outbox", e, i)
        BY <2>1, <2>4 DEF Due
    <2>5. ASSUME NEW d \in Dues'
          PROVE  /\ f[d] \in Dues
                 /\ d = IF f[d][1] = "inbox" /\ f[d][2] = c
                        THEN IF f[d][3] = 1 THEN <<"held", c, 1>> ELSE <<"inbox", c, f[d][3] - 1>>
                        ELSE f[d]
        <3>1. PICK p \in Places, e \in Conns, i \in Nat : d = <<p, e, i>> /\ Due(p, e, i)'
            BY <2>5 DEF Dues
        <3>2. CASE p = "inbox" /\ e = c
            <4>1. f[d] = <<"inbox", c, i + 1>> /\ i # 0 /\ Due("inbox", c, i + 1)
                BY <2>2, <3>1, <3>2
            <4>2. "inbox" \in Places /\ i + 1 \in Nat /\ i + 1 # 1 /\ (i + 1) - 1 = i
                BY <4>1 DEF Places
            <4>3. f[d] \in Dues
                BY <4>1, <4>2, DueMember
            <4> QED
                BY <3>1, <3>2, <4>1, <4>2, <4>3
        <3>3. CASE p = "held" /\ e = c
            <4>1. i = 1 /\ Due("inbox", c, 1)
                BY <2>3, <3>1, <3>3
            <4>2. f[d] = <<"inbox", c, 1>> /\ d = <<"held", c, 1>>
                BY <3>1, <3>3, <4>1
            <4>3. f[d] \in Dues
                BY <4>1, <4>2, DueMember DEF Places
            <4> QED
                BY <4>2, <4>3
        <3>4. CASE ~(p \in {"inbox", "held"} /\ e = c)
            <4>1. f[d] = d
                BY <3>1, <3>4
            <4>2. Due(p, e, i)
                BY <1>0, <2>2, <2>3, <2>4, <3>1, <3>4 DEF Places
            <4> QED
                BY <3>1, <3>4, <4>1, <4>2, DueMember
        <3> QED
            BY <3>2, <3>3, <3>4
    <2>6. f \in [Dues' -> Dues]
        BY <2>5
    <2>7. ASSUME NEW d \in Dues', NEW e \in Dues', f[d] = f[e] PROVE d = e
        BY <2>5, <2>7
    <2> HIDE DEF f
    <2>8. f \in Injection(Dues', Dues)
        BY <2>6, <2>7 DEF Injection, IsInjective
    <2> QED
        BY <1>2, <2>8, GrowsNot DEF ReadMsg, Evict
<1>3. CASE Forward(c) \/ Tell(c)
    <2> DEFINE o == other[c]
               n == Len(outbox[o]) + 1
               f == [d \in Dues' |-> IF d = <<"outbox", o, n>> THEN <<"held", c, 1>> ELSE d]
    <2>1. /\ o \in Conns /\ outbox[o] \in Seq(Cargo \cup {Notice}) /\ UNCHANGED inbox
          /\ handler[c] \in {"sending", "telling"}
          /\ \E next \in {"reading", "done"} : Goes(c, next, NoConn, NoMsg)
          /\ Send(o, IF handler[c] = "sending" THEN msg[c] ELSE Notice)
        BY <1>3 DEF Forward, Tell, HeldInv, Holding, TypeOK
    <2>2. ASSUME NEW i \in Nat, NEW e \in Conns, Due("outbox", e, i)'
          PROVE  IF e = o /\ i = n THEN Due("held", c, 1) ELSE Due("outbox", e, i)
        <3>1. CASE outbox'[e] = outbox[e]
            <4>1. Due("outbox", e, i) /\ i \in DOMAIN outbox[e]
                BY <2>2, <3>1 DEF Due
            <4> QED
                BY <2>1, <4>1
        <3>2. CASE outbox'[e] # outbox[e]
            <4>1. /\ e = o
                  /\ outbox'[o] = Append(outbox[o], IF handler[c] = "sending" THEN msg[c] ELSE Notice)
                BY <2>1, <3>2 DEF Send, TypeOK
            <4>2. i \in 1..n /\ outbox'[o][i] = Ready
                BY <2>1, <2>2, <4>1 DEF Due
            <4>3. CASE i = n
                <5>1. Ready = IF handler[c] = "sending" THEN msg[c] ELSE Notice
                    BY <2>1, <4>1, <4>2, <4>3
                <5>2. handler[c] = "sending" /\ msg[c] = Ready
                    BY <5>1 DEF Ready, Notice
                <5> QED
                    BY <4>1, <4>3, <5>2 DEF Due
            <4>4. CASE i # n
                <5>1. i \in 1..Len(outbox[o])
                    BY <2>1, <4>2, <4>4
                <5> QED
                    BY <2>1, <4>1, <4>2, <4>4, <5>1 DEF Due
            <4> QED
                BY <4>3, <4>4
        <3> QED
            BY <3>1, <3>2
    <2>3. ASSUME NEW i \in Nat, NEW e \in Conns, Due("held", e, i)'
          PROVE  Due("held", e, i) /\ ~(e = c /\ i = 1)
        BY <2>1, <2>3, OthersStay DEF Due
    <2>4. ASSUME NEW i \in Nat, NEW e \in Conns, Due("inbox", e, i)' PROVE Due("inbox", e, i)
        BY <2>1, <2>4 DEF Due
    <2>5. ASSUME NEW d \in Dues'
          PROVE  /\ f[d] \in Dues
                 /\ d = IF f[d] = <<"held", c, 1>> THEN <<"outbox", o, n>> ELSE f[d]
        <3>1. PICK p \in Places, e \in Conns, i \in Nat : d = <<p, e, i>> /\ Due(p, e, i)'
            BY <2>5 DEF Dues
        <3>2. CASE p = "outbox" /\ e = o /\ i = n
            <4>1. Due("held", c, 1)
                BY <2>2, <3>1, <3>2
            <4>2. f[d] = <<"held", c, 1>>
                BY <3>1, <3>2
            <4> QED
                BY <3>1, <3>2, <4>1, <4>2, DueMember DEF Places
        <3>3. CASE ~(p = "outbox" /\ e = o /\ i = n)
            <4>1. f[d] = d
                BY <3>1, <3>3
            <4>2. Due(p, e, i) /\ d # <<"held", c, 1>>
                BY <1>0, <2>2, <2>3, <2>4, <3>1, <3>3 DEF Places
            <4> QED
                BY <3>1, <4>1, <4>2, DueMember
        <3> QED
            BY <3>2, <3>3
    <2>6. f \in [Dues' -> Dues]
        BY <2>5
    <2>7. ASSUME NEW d \in Dues', NEW e \in Dues', f[d] = f[e] PROVE d = e
        BY <2>5, <2>7
    <2> HIDE DEF f
    <2>8. f \in Injection(Dues', Dues)
        BY <2>6, <2>7 DEF Injection, IsInjective
    <2> QED
        BY <1>3, <2>8, GrowsNot DEF Forward, Tell, Evict
<1> QED
    BY <1>1, <1>2, <1>3 DEF HandlerStep

(* A connection that fails may become late.                                *)
LEMMA DuesFail ==
    ASSUME HubInv, NEW c \in Conns, LinkFails(c)
    PROVE  Grows(1)
<1> USE DEF HubInv
<1>1. /\ link[c] = "up" /\ UNCHANGED <<handler, other, msg, inbox, outbox>>
      /\ \E how \in {"cut", "down"} : link' = [link EXCEPT ![c] = how]
    BY DEF LinkFails
<1>2. \A d \in Conns : /\ link'[d] = "up" => link[d] = "up"
                       /\ d # c => link'[d] = link[d]
    BY <1>1 DEF TypeOK
<1>3. \A d \in Conns : handler[d] = "evicting" => other[d] \in Conns
    BY DEF HeldInv, Holding
<1>4. ASSUME NEW d \in Conns, Late(d)', d # c PROVE Late(d)
    BY <1>1, <1>2, <1>3, <1>4 DEF Late
<1> DEFINE y == <<"late", c, 1>>
<1>5. ASSUME NEW p \in Places, NEW d \in Conns, NEW i \in Nat, Due(p, d, i)'
      PROVE  Due(p, d, i) \/ <<p, d, i>> = y
    BY <1>1, <1>4, <1>5 DEF Due
<1> HIDE DEF y
<1>6. \A p \in Places, d \in Conns, i \in Nat : Due(p, d, i)' => <<p, d, i>> \in Dues \cup {y}
    BY <1>5, DueMember
<1> QED
    BY <1>6, DueNext, GrowsByOne

(* What a lost connection still held for its owner is lost with it.        *)
LEMMA DuesNotices ==
    ASSUME HubInv, NEW r \in Roles, OwnerNotices(r)
    PROVE  Grows(0)
<1>1. /\ UNCHANGED <<handler, other, msg, link, inbox>>
      /\ outbox' = [outbox EXCEPT ![ws[r]] = <<>>]
    BY DEF OwnerNotices
<1>2. \A d \in Conns : outbox'[d] = outbox[d] \/ outbox'[d] = <<>>
    BY <1>1 DEF HubInv, TypeOK
<1>3. ASSUME NEW p \in Places, NEW d \in Conns, NEW i \in Nat, Due(p, d, i)' PROVE Due(p, d, i)
    BY <1>1, <1>2, <1>3 DEF Due, Late
<1>4. \A p \in Places, d \in Conns, i \in Nat : Due(p, d, i)' => <<p, d, i>> \in Dues
    BY <1>3, DueMember
<1> QED
    BY <1>4, DueNext, GrowsNot

(* Whoever dials is not late, and a first word is due if it is a request.  *)
LEMMA DuesDial ==
    ASSUME HubInv, NEW r \in Roles, NEW hello \in {<<>>, <<Ready>>}, Dial(r, hello)
    PROVE  /\ Grows(1)
           /\ hello = <<>> => Grows(0)
<1> USE DEF HubInv
<1>1. PICK c \in Conns : /\ link[c] = "none" /\ UNCHANGED <<other, msg, outbox>>
                         /\ link' = [link EXCEPT ![c] = "up"] /\ inbox' = [inbox EXCEPT ![c] = hello]
                         /\ handler' = [handler EXCEPT ![c] = "accepted"]
    BY DEF Dial
<1>2. handler[c] = "none"
    BY <1>1 DEF LinkedInv
<1>3. \A d \in Conns \ {c} : handler'[d] = handler[d] /\ link'[d] = link[d] /\ inbox'[d] = inbox[d]
    BY <1>1 DEF TypeOK
<1>4. link'[c] = "up" /\ handler'[c] = "accepted" /\ inbox'[c] = hello
    BY <1>1 DEF TypeOK
<1>5. \A d \in Conns : handler[d] = "evicting" => other[d] \in Conns \ {c}
    BY <1>2 DEF HeldInv, Holding, DisplacedInv
<1>6. ASSUME NEW d \in Conns, Late(d)' PROVE Late(d)
    BY <1>1, <1>3, <1>4, <1>5, <1>6 DEF Late
<1> DEFINE x == <<"inbox", c, 1>>
<1>7. ASSUME NEW p \in Places, NEW d \in Conns, NEW i \in Nat, Due(p, d, i)'
      PROVE  Due(p, d, i) \/ (<<p, d, i>> = x /\ hello = <<Ready>>)
    <2>1. CASE p = "late"
        BY <1>6, <1>7, <2>1 DEF Due
    <2>2. CASE p = "inbox"
        BY <1>3, <1>4, <1>7, <2>2 DEF Due
    <2>3. CASE p \in {"held", "outbox"}
        BY <1>1, <1>3, <1>4, <1>7, <2>3 DEF Due
    <2> QED
        BY <2>1, <2>2, <2>3 DEF Places
<1> HIDE DEF x
<1>8. \A p \in Places, d \in Conns, i \in Nat : Due(p, d, i)' => <<p, d, i>> \in Dues \cup {x}
    BY <1>7, DueMember
<1>9. ASSUME hello = <<>> PROVE Dues' \subseteq Dues
    <2>1. \A p \in Places, d \in Conns, i \in Nat : Due(p, d, i)' => <<p, d, i>> \in Dues
        BY <1>7, <1>9, DueMember
    <2> QED
        BY <2>1, DueNext
<1> QED
    BY <1>8, <1>9, DueNext, GrowsByOne, GrowsNot

(* Nothing becomes due while the hub stands still.                         *)
LEMMA DuesStay ==
    ASSUME UNCHANGED <<handler, other, msg, link, inbox, outbox>>
    PROVE  Grows(0)
<1>1. Dues' = Dues
    BY DEF Dues, Due, Late
<1> QED
    BY <1>1, GrowsNot

-----------------------------------------------------------------------------
(* Owner r holds an open connection.                                       *)
Holds(r) == ws[r] # NoConn /\ link[ws[r]] = "up"

(* The hub closes an open connection of the page only late.                *)
LEMMA HoldsHub ==
    ASSUME HubInv, NEW c \in Conns, HandlerStep(c)
    PROVE  /\ Holds("client")' => Holds("client")
           /\ Holds("client") => Holds("client")' \/ (Evict(c) /\ Late(c))
<1> USE DEF HubInv
<1>1. ws["client"] \in Conns \cup {NoConn} /\ UNCHANGED ws
    BY SignalFacts DEF TypeOK, HandlerStep, Register, Evict, ReadMsg, Forward, Leave, LookUp, Tell, KeepAlive
<1>2. CASE Evict(c)
    <2>1. /\ other[c] \in Conns /\ link' = [link EXCEPT ![other[c]] = "down"]
          /\ handler[c] = "evicting" /\ other[c] # c /\ RoleOf(other[c]) = RoleOf(c)
        BY <1>2 DEF Evict, CloseNow, HeldInv, Holding, DisplacedInv
    <2>2. \A d \in Conns : link'[d] = IF d = other[c] THEN "down" ELSE link[d]
        BY <2>1 DEF TypeOK
    <2>3. CASE Holds("client") /\ ws["client"] = other[c]
        <3>1. RoleOf(c) = "client" /\ link[c] # "up" /\ link[other[c]] = "up"
            BY <1>1, <2>1, <2>3, SignalFacts DEF Holds, OwnedInv
        <3>2. c \in PageConns
            BY <3>1 DEF RoleOf, Conns
        <3> QED
            BY <1>1, <1>2, <2>1, <2>2, <2>3, <3>1, <3>2 DEF Holds, Late
    <2>4. CASE ~(Holds("client") /\ ws["client"] = other[c])
        BY <1>1, <2>2, <2>4 DEF Holds
    <2> QED
        BY <2>3, <2>4
<1>3. CASE Register(c) \/ ReadMsg(c) \/ Forward(c) \/ Leave(c) \/ LookUp(c) \/ Tell(c)
    <2>1. UNCHANGED link
        BY <1>3 DEF Register, ReadMsg, Forward, Leave, LookUp, Tell
    <2> QED
        BY <1>1, <2>1 DEF Holds
<1>4. CASE KeepAlive(c)
    <2>1. link[c] = "cut" /\ link' = [link EXCEPT ![c] = "down"]
        BY <1>4 DEF KeepAlive, CloseNow
    <2> QED
        BY <1>1, <2>1 DEF Holds, TypeOK
<1> QED
    BY <1>2, <1>3, <1>4 DEF HandlerStep

(* The hub is calm when nobody it serves is gone or on its way out.        *)
Calm ==
    \A c \in Conns :
        \/ handler[c] \in {"none", "done"}
        \/ link[c] = "up" /\ handler[c] \in {"accepted", "evicting", "reading", "sending"}

Serving(c) == link[c] = "up" /\ handler[c] \in {"evicting", "reading", "sending"}
Online == \A r \in Roles : ws[r] # NoConn /\ Serving(ws[r])

Empty == \A c \in Conns : inbox[c] = <<>> /\ outbox[c] = <<>> /\ handler[c] # "sending"

(* All that is on its way is one message m of owner r: on r's connection,  *)
(* in the hands of its handler, or on the other owner's connection.        *)
Alone(r, m) ==
    LET a == ws[r]
        b == ws[otherRole(r)] IN
    /\ Holds(r)
    /\ \/ /\ inbox[a] = <<m>>
          /\ \A c \in Conns : /\ c # a => inbox[c] = <<>>
                              /\ outbox[c] = <<>> /\ handler[c] # "sending"
       \/ /\ handler[a] = "sending" /\ msg[a] = m /\ other[a] = b
          /\ b # NoConn /\ Serving(b)
          /\ \A c \in Conns : /\ inbox[c] = <<>> /\ outbox[c] = <<>>
                              /\ c # a => handler[c] # "sending"
       \/ /\ outbox[b] = <<m>>
          /\ b # NoConn /\ Serving(a) /\ Serving(b)
          /\ \A c \in Conns : /\ inbox[c] = <<>> /\ handler[c] # "sending"
                              /\ c # b => outbox[c] = <<>>

(* The connection an owner holds.                                          *)
LEMMA WsFacts ==
    ASSUME HubInv
    PROVE  /\ \A r \in Roles : ws[r] # NoConn => ws[r] \in Conns /\ RoleOf(ws[r]) = r
           /\ \A c \in Conns : link[c] = "up" => ws[RoleOf(c)] = c
BY DEF HubInv, TypeOK, OwnedInv

(* When the hub is calm, a role is with the connection its owner holds.    *)
LEMMA CalmPeers ==
    ASSUME HubInv, Calm
    PROVE  /\ \A c \in Conns : Serving(c) => peers[RoleOf(c)] = c
           /\ \A r \in Roles : peers[r] # NoConn =>
                  peers[r] = ws[r] /\ Serving(ws[r])
<1>1. ASSUME NEW c \in Conns, Serving(c), peers[RoleOf(c)] # c PROVE FALSE
    <2>1. PICK d \in Conns \ {c} : handler[d] = "evicting" /\ RoleOf(d) = RoleOf(c)
        BY <1>1 DEF HubInv, OneServed, Serving
    <2>2. link[d] = "up"
        BY <2>1 DEF Calm
    <2> QED
        BY <1>1, <2>1, <2>2, WsFacts DEF Serving
<1>2. ASSUME NEW r \in Roles, peers[r] # NoConn PROVE peers[r] = ws[r] /\ Serving(ws[r])
    <2>1. /\ peers[r] \in Conns /\ RoleOf(peers[r]) = r
          /\ handler[peers[r]] \in {"evicting", "reading", "sending"}
        BY <1>2 DEF HubInv, TypeOK, HolderServed
    <2>2. link[peers[r]] = "up"
        BY <2>1 DEF Calm
    <2> QED
        BY <2>1, <2>2, WsFacts DEF Serving
<1> QED
    BY <1>1, <1>2

(* What a handler does while the hub is calm.                              *)
LEMMA CalmSteps ==
    ASSUME HubInv, Calm, NEW c \in Conns, HandlerStep(c)
    PROVE  /\ UNCHANGED ws /\ link[c] = "up"
           /\ \/ Register(c) \/ ReadMsg(c) \/ Forward(c)
              \/ Evict(c) /\ other[c] \in Conns /\ link[other[c]] # "up"
<1>1. Register(c) \/ Evict(c) \/ ReadMsg(c) \/ Forward(c)
    BY DEF HandlerStep, Calm, Leave, LookUp, Tell, KeepAlive
<1>2. link[c] = "up"
    BY <1>1 DEF Calm, Register, Evict, ReadMsg, Forward
<1>3. Evict(c) => other[c] \in Conns /\ link[other[c]] # "up"
    BY <1>2, EvictsClosed DEF Evict, HubInv, HeldInv, Holding
<1> QED
    BY <1>1, <1>2, <1>3 DEF Register, Evict, ReadMsg, Forward

LEMMA CalmStays ==
    ASSUME HubInv, Calm, NEW c \in Conns, HandlerStep(c)
    PROVE  /\ Calm'
           /\ \A d \in Conns : Serving(d) => Serving(d)'
           /\ \A d \in Conns : link[d] = "up" => link'[d] = "up"
           /\ Holds("client") => Holds("client")'
<1> USE DEF HubInv
<1>1. link[c] = "up" /\ UNCHANGED ws
    BY CalmSteps
<1>2. \E next \in {"evicting", "reading", "sending"} : handler' = [handler EXCEPT ![c] = next] \/ UNCHANGED handler
    BY CalmSteps DEF Register, ReadMsg, Forward, Evict, Goes
<1>3. UNCHANGED link \/ \E d \in Conns : link[d] # "up" /\ link' = [link EXCEPT ![d] = "down"]
    BY CalmSteps DEF Register, ReadMsg, Forward, Evict, CloseNow
<1>4. \A d \in Conns : /\ link[d] = "up" => link'[d] = "up"
                       /\ handler'[d] = handler[d] \/ (d = c /\ handler'[d] \in {"evicting", "reading", "sending"})
    BY <1>2, <1>3 DEF TypeOK
<1>5. ws["client"] # NoConn => ws["client"] \in Conns
    BY SignalFacts DEF TypeOK
<1> QED
    BY <1>1, <1>4, <1>5 DEF Calm, Serving, Holds

LEMMA EmptyStays ==
    ASSUME HubInv, Calm, Empty, NEW c \in Conns, HandlerStep(c)
    PROVE  Empty'
<1>1. CASE Register(c)
    BY <1>1 DEF Register, Goes, Empty, HubInv, TypeOK
<1>2. CASE Evict(c) /\ other[c] \in Conns
    BY <1>2 DEF Evict, CloseNow, Goes, Empty, HubInv, TypeOK
<1> QED
    BY <1>1, <1>2, CalmSteps DEF ReadMsg, Forward, Empty

(* The one message goes its way; it is lost only at an owner who is not    *)
(* there.                                                                  *)
LEMMA AloneStays ==
    ASSUME HubInv, Calm, NEW r \in Roles, NEW m, Alone(r, m), NEW c \in Conns, HandlerStep(c)
    PROVE  Alone(r, m)' \/ (Empty' /\ ~Online)
<1> DEFINE a == ws[r]
           b == ws[otherRole(r)]
<1> USE RoleFacts
<1>1. /\ a \in Conns /\ RoleOf(a) = r /\ link[a] = "up"
      /\ b # NoConn => b \in Conns /\ RoleOf(b) = otherRole(r)
      /\ a # b
    BY WsFacts DEF Alone, Holds
<1>2. /\ UNCHANGED ws /\ Holds(r)'
      /\ \A d \in Conns : Serving(d) => Serving(d)'
    BY <1>1, CalmSteps, CalmStays DEF Holds
<1>3. CASE Register(c) \/ Evict(c)
    <2>1. /\ UNCHANGED outbox
          /\ \/ UNCHANGED inbox
             \/ \E d \in Conns : link[d] # "up" /\ inbox' = [inbox EXCEPT ![d] = <<>>]
        BY <1>3, CalmSteps DEF Register, Evict, CloseNow, ReadMsg, Forward
    <2>2. \A d \in Conns : inbox'[d] = inbox[d] /\ outbox'[d] = outbox[d]
        BY <1>1, <2>1 DEF HubInv, TypeOK, Alone
    <2>3. /\ handler[c] # "sending"
          /\ \E next \in {"reading", "evicting"} : \E p, q : Goes(c, next, p, q)
        BY <1>3 DEF Register, Evict
    <2>4. \A d \in Conns : /\ handler[d] = "sending" => handler'[d] = "sending" /\ msg'[d] = msg[d] /\ other'[d] = other[d]
                           /\ handler'[d] = "sending" => handler[d] = "sending"
        BY <2>3, OthersStay DEF HubInv
    <2> QED
        BY <1>1, <1>2, <2>2, <2>4 DEF Alone
<1>4. CASE ReadMsg(c)
    <2>1. /\ c = a /\ inbox[a] = <<m>> /\ handler[a] = "reading"
          /\ \A d \in Conns : /\ d # a => inbox[d] = <<>>
                              /\ outbox[d] = <<>> /\ handler[d] # "sending"
        BY <1>1, <1>4 DEF ReadMsg, Alone
    <2>2. inbox' = [inbox EXCEPT ![a] = <<>>] /\ UNCHANGED outbox
        BY <1>4, <2>1 DEF ReadMsg
    <2>3. \A d \in Conns : inbox'[d] = <<>> /\ outbox'[d] = <<>>
        BY <1>1, <2>1, <2>2 DEF HubInv, TypeOK
    <2>4. CASE peers[otherRole(r)] = NoConn
        <3>1. UNCHANGED handler
            BY <1>1, <1>4, <2>1, <2>4 DEF ReadMsg
        <3>2. ~Online
            BY <1>1, <2>4, CalmPeers DEF Online
        <3> QED
            BY <2>1, <2>3, <3>1, <3>2 DEF Empty
    <2>5. CASE peers[otherRole(r)] # NoConn
        <3>1. peers[otherRole(r)] = b /\ b \in Conns /\ Serving(b)
            BY <1>1, <2>5, CalmPeers DEF HubInv, TypeOK
        <3>2. Goes(a, "sending", b, m)
            BY <1>1, <1>4, <2>1, <2>5, <3>1 DEF ReadMsg
        <3>3. /\ handler'[a] = "sending" /\ msg'[a] = m /\ other'[a] = b
              /\ \A d \in Conns \ {a} : handler'[d] = handler[d]
            BY <1>1, <3>2, OthersStay DEF HubInv
        <3> QED
            BY <1>1, <1>2, <2>1, <2>3, <3>1, <3>3, RoleFacts DEF Alone
    <2> QED
        BY <2>4, <2>5
<1>5. CASE Forward(c)
    <2>1. /\ c = a /\ handler[a] = "sending" /\ msg[a] = m /\ other[a] = b
          /\ b # NoConn /\ Serving(b)
          /\ \A d \in Conns : /\ inbox[d] = <<>> /\ outbox[d] = <<>>
                              /\ d # a => handler[d] # "sending"
        BY <1>1, <1>5 DEF Forward, Alone
    <2>2. /\ outbox' = [outbox EXCEPT ![b] = <<m>>] /\ UNCHANGED inbox
          /\ Goes(a, "reading", NoConn, NoMsg)
        <3>1. Send(b, m) /\ Goes(a, "reading", NoConn, NoMsg) /\ UNCHANGED inbox
            BY <1>5, <2>1 DEF Forward
        <3>2. outbox' = [outbox EXCEPT ![b] = Append(outbox[b], m)]
            BY <2>1, <3>1 DEF Send, Serving
        <3>3. outbox[b] = <<>> /\ Append(<<>>, m) = <<m>>
            BY <1>1, <2>1
        <3> QED
            BY <3>1, <3>2, <3>3
    <2>3. /\ outbox'[b] = <<m>>
          /\ \A d \in Conns : inbox'[d] = <<>> /\ (d # b => outbox'[d] = <<>>)
        BY <1>1, <2>1, <2>2 DEF HubInv, TypeOK
    <2>4. handler'[a] = "reading" /\ \A d \in Conns \ {a} : handler'[d] = handler[d]
        BY <1>1, <2>2, OthersStay DEF HubInv
    <2>5. Serving(a)
        BY <1>1, <2>1 DEF Serving
    <2> QED
        BY <1>1, <1>2, <2>1, <2>3, <2>4, <2>5 DEF Alone
<1> QED
    BY <1>3, <1>4, <1>5, CalmSteps

(* What the owners do to the one message, or to none.                      *)
LEMMA AloneTaken ==
    ASSUME HubInv, NEW r \in Roles, NEW m, Alone(r, m), NEW q \in Roles, NEW y, Takes(q, y)
    PROVE  /\ q = otherRole(r) /\ y = m /\ Holds(r) /\ Holds(q)
           /\ Serving(ws[r]) /\ Serving(ws[q])
           /\ \A c \in Conns : inbox[c] = <<>> /\ outbox'[c] = <<>> /\ handler[c] # "sending"
<1> DEFINE a == ws[r]
           b == ws[otherRole(r)]
<1> USE RoleFacts
<1>1. /\ a \in Conns /\ RoleOf(a) = r
      /\ b # NoConn => b \in Conns /\ RoleOf(b) = otherRole(r)
    BY WsFacts DEF Alone, Holds
<1>2. /\ ws[q] # NoConn /\ ws[q] \in Conns /\ RoleOf(ws[q]) = q
      /\ outbox[ws[q]] # <<>> /\ Head(outbox[ws[q]]) = y
      /\ outbox' = [outbox EXCEPT ![ws[q]] = Tail(outbox[ws[q]])]
    BY WsFacts DEF Takes
<1>3. /\ outbox[b] = <<m>> /\ b # NoConn /\ Serving(a) /\ Serving(b)
      /\ \A c \in Conns : /\ inbox[c] = <<>> /\ handler[c] # "sending"
                          /\ c # b => outbox[c] = <<>>
    BY <1>1, <1>2 DEF Alone
<1>4. ws[q] = b
    BY <1>2, <1>3
<1>5. Head(<<m>>) = m /\ Tail(<<m>>) = <<>>
    OBVIOUS
<1>6. \A c \in Conns : outbox'[c] = <<>>
    BY <1>2, <1>3, <1>4, <1>5 DEF HubInv, TypeOK
<1> QED
    BY <1>1, <1>2, <1>3, <1>4, <1>5, <1>6 DEF Serving, Holds

LEMMA EmptyTaken ==
    ASSUME HubInv, Empty, NEW q \in Roles, NEW y, Takes(q, y)
    PROVE  FALSE
BY WsFacts DEF Takes, Empty

LEMMA AloneSaid ==
    ASSUME HubInv, NEW r \in Roles, NEW m, Holds(r), OwnerSends(r, m),
           \A c \in Conns : inbox[c] = <<>> /\ outbox'[c] = <<>> /\ handler[c] # "sending",
           UNCHANGED <<handler, other, msg, link, ws>>
    PROVE  Alone(r, m)'
<1>1. ws[r] \in Conns
    BY WsFacts DEF Holds
<1>2. Append(<<>>, m) = <<m>>
    OBVIOUS
<1>3. inbox' = [inbox EXCEPT ![ws[r]] = <<m>>]
    BY <1>1, <1>2 DEF OwnerSends, Holds
<1>4. inbox'[ws[r]] = <<m>> /\ \A c \in Conns : c # ws[r] => inbox'[c] = <<>>
    BY <1>1, <1>3 DEF HubInv, TypeOK
<1> QED
    BY <1>4 DEF Alone, Holds

LEMMA CalmDial ==
    ASSUME HubInv, Calm, NEW r \in Roles, NEW hello, Dial(r, hello)
    PROVE  /\ Calm' /\ Holds(r)' /\ ~Online
           /\ \A q \in Roles : Holds(q) => Holds(q)'
           /\ Empty /\ hello = <<>> => Empty'
           /\ \A m : Empty /\ hello = <<m>> => Alone(r, m)'
           /\ \A q \in Roles : \A m : Alone(q, m) /\ hello = <<>> => Alone(q, m)'
<1> USE RoleFacts
<1>1. PICK c \in Conns : /\ RoleOf(c) = r /\ ws[r] = NoConn /\ link[c] = "none"
                         /\ ws' = [ws EXCEPT ![r] = c] /\ link' = [link EXCEPT ![c] = "up"]
                         /\ inbox' = [inbox EXCEPT ![c] = hello]
                         /\ handler' = [handler EXCEPT ![c] = "accepted"]
                         /\ UNCHANGED <<other, msg, outbox>>
    BY DEF Dial
<1>2. /\ ws'[r] = c /\ \A q \in Roles : q # r => ws'[q] = ws[q]
      /\ \A d \in Conns : /\ link'[d] = IF d = c THEN "up" ELSE link[d]
                          /\ handler'[d] = IF d = c THEN "accepted" ELSE handler[d]
                          /\ inbox'[d] = IF d = c THEN hello ELSE inbox[d]
    BY <1>1 DEF HubInv, TypeOK
<1>3. handler[c] = "none" /\ inbox[c] = <<>> /\ outbox[c] = <<>> /\ c # NoConn
    BY <1>1 DEF HubInv, LinkedInv, OwnedInv
<1>4. \A q \in Roles : ws[q] # NoConn => ws[q] \in Conns
    BY WsFacts
<1>5. Calm' /\ Holds(r)' /\ ~Online
    BY <1>1, <1>2, <1>3 DEF Calm, Holds, Online
<1>6. \A q \in Roles : Holds(q) => Holds(q)'
    BY <1>1, <1>2, <1>4 DEF Holds
<1>7. Empty /\ hello = <<>> => Empty'
    BY <1>1, <1>2 DEF Empty
<1>8. ASSUME NEW m, Empty, hello = <<m>> PROVE Alone(r, m)'
    BY <1>1, <1>2, <1>5, <1>8 DEF Empty, Alone
<1>9. ASSUME NEW q \in Roles, NEW m, Alone(q, m), hello = <<>> PROVE Alone(q, m)'
    <2>1. /\ ws[q] \in Conns /\ q # r /\ ws'[q] = ws[q] /\ ws[q] # c
        BY <1>1, <1>2, <1>4, <1>9 DEF Alone, Holds
    <2>2. \A p \in Roles : p # q => p = otherRole(q)
        BY DEF Roles, otherRole
    <2>3. ws[otherRole(q)] = NoConn
        BY <1>1, <2>1, <2>2
    <2>4. /\ inbox[ws[q]] = <<m>>
          /\ \A d \in Conns : /\ d # ws[q] => inbox[d] = <<>>
                              /\ outbox[d] = <<>> /\ handler[d] # "sending"
        BY <1>9, <2>3 DEF Alone
    <2> QED
        BY <1>1, <1>2, <1>6, <1>9, <2>1, <2>4 DEF Alone
<1> QED
    BY <1>5, <1>6, <1>7, <1>8, <1>9

(* Nothing is on its way but the hub's own notices.                        *)
OnlyNotices ==
    \A c \in Conns : /\ inbox[c] = <<>> /\ handler[c] # "sending"
                     /\ \A i \in DOMAIN outbox[c] : outbox[c][i] = Notice

(* An owner that finds its connection gone disturbs nothing.               *)
LEMMA NoticesStay ==
    ASSUME HubInv, NEW r \in Roles, OwnerNotices(r)
    PROVE  /\ Calm => Calm'
           /\ Empty => Empty'
           /\ ~Online
           /\ \A q \in Roles : Holds(q)' <=> Holds(q)
           /\ \A q \in Roles : \A m : Alone(q, m) => Alone(q, m)'
           /\ OnlyNotices => OnlyNotices'
<1> USE RoleFacts
<1>1. /\ ws[r] # NoConn /\ ws[r] \in Conns /\ link[ws[r]] # "up"
      /\ ws' = [ws EXCEPT ![r] = NoConn]
      /\ outbox' = [outbox EXCEPT ![ws[r]] = <<>>]
      /\ UNCHANGED <<handler, other, msg, link, inbox>>
    BY WsFacts DEF OwnerNotices
<1>2. /\ ws'[r] = NoConn /\ \A q \in Roles : q # r => ws'[q] = ws[q]
      /\ \A d \in Conns : outbox'[d] = outbox[d] \/ outbox'[d] = <<>>
    BY <1>1 DEF HubInv, TypeOK
<1>3. (Calm => Calm') /\ (Empty => Empty') /\ ~Online
    BY <1>1, <1>2 DEF Calm, Empty, Online, Serving
<1>6. OnlyNotices => OnlyNotices'
    <2>1. DOMAIN <<>> = {}
        OBVIOUS
    <2> QED
        BY <1>1, <1>2, <2>1 DEF OnlyNotices
<1>4. \A q \in Roles : Holds(q)' <=> Holds(q)
    BY <1>1, <1>2 DEF Holds
<1>5. ASSUME NEW q \in Roles, NEW m, Alone(q, m) PROVE Alone(q, m)'
    <2>1. q # r
        BY <1>1, <1>5 DEF Alone, Holds
    <2>2. r = otherRole(q)
        BY <2>1 DEF Roles, otherRole
    <2>3. /\ inbox[ws[q]] = <<m>>
          /\ \A d \in Conns : /\ d # ws[q] => inbox[d] = <<>>
                              /\ outbox[d] = <<>> /\ handler[d] # "sending"
        BY <1>1, <1>5, <2>2 DEF Alone, Serving
    <2> QED
        BY <1>1, <1>2, <1>4, <1>5, <2>1, <2>3 DEF Alone
<1> QED
    BY <1>3, <1>4, <1>5, <1>6

-----------------------------------------------------------------------------
(* Where a rebuild stands.  The stages that need no further session, from  *)
(* the request to the stream, are each written down; whatever is not one   *)
(* of them needs one more, and two more while the page may ask at any time *)
(* or has to dial.                                                         *)
Idle == \A s \in Sessions : hand[s] \in {"none", "done"}
IdleBut(s, h) ==
    \A x \in Sessions : IF x = s THEN hand[x] = h ELSE hand[x] \in {"none", "done"}

Quiet == Calm /\ Empty /\ Idle /\ Room(1)
Asking == Calm /\ Alone("client", Ready) /\ Idle /\ asked /\ Room(0)
(* Session s is under way: the last one built, and the host has got to h.  *)
OnTrack(s, h) ==
    /\ Calm /\ Online /\ asked /\ Room(0)
    /\ s \in Sessions /\ cur = s /\ built = s /\ host[s] = h
Offering(s) == OnTrack(s, "offered") /\ Alone("host", Offer(s)) /\ Idle
Preparing(s) == OnTrack(s, "offered") /\ Empty /\ pc = None /\ IdleBut(s, "setup")
Answering(s) ==
    OnTrack(s, "offered") /\ Empty /\ pc = s /\ obj[s] = "new" /\ IdleBut(s, "answering")
Answered(s) ==
    OnTrack(s, "offered") /\ Alone("client", Answer(s)) /\ pc = s /\ obj[s] = "local" /\ Idle
Connecting(s) == OnTrack(s, "answered") /\ Empty /\ pc = s /\ obj[s] = "local" /\ Idle
Steady(s) ==
    /\ s \in Sessions /\ Streaming(s) /\ Idle /\ OnlyNotices
    /\ IF Holds("client") THEN Room(0) ELSE Room(1)
Astray == IF Holds("client") /\ asked THEN Room(1) ELSE Room(2)

OnItsWay(s) ==
    \/ Offering(s) \/ Preparing(s) \/ Answering(s) \/ Answered(s)
    \/ Connecting(s) \/ Steady(s)
Stage == Quiet \/ Asking \/ Astray \/ \E s \in Sessions : OnItsWay(s)

(* The numbers that are counted with.                                      *)
Counts == built \in Nat /\ faults \in Nat /\ early \in Nat

LEMMA RoomIsLess ==
    ASSUME Counts, NEW n \in Int, NEW k \in Int, Room(n), k <= n
    PROVE  Room(k)
<1>1. IsFiniteSet(Dues) /\ Cardinality(Dues) \in Nat
    BY FS_CardinalityType DEF Room
<1> QED
    BY <1>1 DEF Room, Counts

Unpaid == UNCHANGED <<faults, early>>
Failed == faults' = faults + 1 /\ UNCHANGED early
Hasty == early' = early + 1 /\ UNCHANGED faults
Paid == Failed \/ Hasty

(* What a step builds, adds to what is due and leaves room for is taken    *)
(* from the room there was; a fault adds three, a request repeated too     *)
(* early two.                                                              *)
LEMMA RoomStep ==
    ASSUME Counts, NEW n \in Int, NEW k \in Int, NEW j \in Int, NEW new \in {0, 1}, NEW more \in {0, 2, 3},
           Room(n), Grows(k), built' = built + new, new + k + j <= n + more,
           more = 0 => Unpaid, more = 2 => Hasty, more = 3 => Failed
    PROVE  Room(j)'
<1>1. /\ IsFiniteSet(Dues) /\ Cardinality(Dues) \in Nat
      /\ IsFiniteSet(Dues') /\ Cardinality(Dues') <= Cardinality(Dues) + k
      /\ Cardinality(Dues') \in Nat
    BY FS_CardinalityType DEF Room, Grows
<1>2. PICK b \in Int, f \in Int, e \in Int, d \in Int, b1 \in Int, f1 \in Int, e1 \in Int, d1 \in Int :
          /\ b = built /\ f = faults /\ e = early /\ d = Cardinality(Dues)
          /\ b1 = built' /\ f1 = faults' /\ e1 = early' /\ d1 = Cardinality(Dues')
    BY <1>1 DEF Counts, Unpaid, Hasty, Failed
<1>3. b + d + n <= 1 + 3 * f + 2 * e /\ d1 <= d + k /\ b1 = b + new
    BY <1>1, <1>2 DEF Room
<1>4. \/ more = 0 /\ f1 = f /\ e1 = e
      \/ more = 3 /\ f1 = f + 1 /\ e1 = e
      \/ more = 2 /\ f1 = f /\ e1 = e + 1
    BY <1>2 DEF Unpaid, Hasty, Failed
<1>5. b1 + d1 + j <= 1 + 3 * f1 + 2 * e1
    BY <1>3, <1>4
<1> QED
    BY <1>1, <1>2, <1>5 DEF Room

LEMMA RoomKeeps ==
    ASSUME Counts, NEW n \in Int, NEW k \in Int, NEW j \in Int,
           Room(n), Grows(k), UNCHANGED <<built, faults, early>>, k + j <= n
    PROVE  Room(j)'
<1>1. /\ built' = built + 0 /\ 0 + k + j <= n + 0 /\ Unpaid
      /\ 0 \in {0, 1} /\ 0 \in {0, 2, 3} /\ 0 # 2 /\ 0 # 3
    BY DEF Counts, Unpaid
<1> QED
    BY <1>1, RoomStep

LEMMA RoomBuilds ==
    ASSUME Counts, NEW n \in Int, NEW k \in Int, NEW j \in Int,
           Room(n), Grows(k), built' = built + 1, UNCHANGED <<faults, early>>, 1 + k + j <= n
    PROVE  Room(j)'
<1>1. /\ 1 + k + j <= n + 0 /\ Unpaid
      /\ 1 \in {0, 1} /\ 0 \in {0, 2, 3} /\ 0 # 2 /\ 0 # 3
    BY DEF Unpaid
<1> QED
    BY <1>1, RoomStep

LEMMA RoomPaid ==
    ASSUME Counts, NEW n \in Int, NEW k \in Int, NEW j \in Int,
           Room(n), Grows(k), UNCHANGED built, Paid, k + j <= n + 2
    PROVE  Room(j)'
<1>1. /\ built' = built + 0 /\ 0 + k + j <= n + 2 /\ 0 + k + j <= n + 3 /\ 0 \in {0, 1}
      /\ 2 \in {0, 2, 3} /\ 3 \in {0, 2, 3} /\ 2 # 0 /\ 3 # 0 /\ 2 # 3
    BY DEF Counts
<1>2. CASE Hasty
    BY <1>1, <1>2, RoomStep
<1>3. CASE Failed
    BY <1>1, <1>3, RoomStep
<1> QED
    BY <1>2, <1>3 DEF Paid

LEMMA RoomFails ==
    ASSUME Counts, NEW n \in Int, NEW k \in Int, NEW j \in Int,
           Room(n), Grows(k), UNCHANGED built, Failed, k + j <= n + 3
    PROVE  Room(j)'
<1>1. /\ built' = built + 0 /\ 0 + k + j <= n + 3 /\ 0 \in {0, 1}
      /\ 3 \in {0, 2, 3} /\ 3 # 0 /\ 2 # 3
    BY DEF Counts
<1> QED
    BY <1>1, RoomStep

(* A step that adds nothing to what is due keeps the room there is.        *)
LEMMA RoomStays ==
    ASSUME Counts, NEW n \in Int, Room(n), Grows(0), UNCHANGED <<built, faults, early>>
    PROVE  Room(n)'
BY RoomKeeps

(* A fault, or a request repeated too early, buys what it may cost.        *)
LEMMA FaultIsPaid ==
    ASSUME Counts, NEW n \in Nat, Room(n), Grows(0), UNCHANGED built, Paid
    PROVE  Astray'
<1>1. 0 + 2 <= n + 2 /\ 0 + 1 <= n + 2 /\ 0 \in Int /\ 1 \in Int /\ 2 \in Int /\ n \in Int
    OBVIOUS
<1>2. Room(2)'
    BY <1>1, RoomPaid
<1>3. Room(1)'
    BY <1>1, RoomPaid
<1> QED
    BY <1>2, <1>3 DEF Astray

(* What is known in every state, whatever the stage.                       *)
Known == HubInv /\ EndsInv /\ Counts

(* The messages are told apart by type and session.                        *)
LEMMA MessageFacts ==
    /\ Ready # Notice /\ Error # Notice /\ Error # Ready
    /\ \A s \in Sessions : /\ Offer(s) \notin {Ready, Error, Notice}
                           /\ Answer(s) \notin {Ready, Error, Notice}
    /\ \A s, o \in Sessions : /\ Offer(s) # Answer(o)
                              /\ Offer(s) = Offer(o) => s = o
                              /\ Answer(s) = Answer(o) => s = o
BY DEF Ready, Error, Notice, Offer, Answer

(* A failure of the media or the source, or a request repeated too early,  *)
(* is paid for.                                                            *)
LEMMA FaultStep ==
    ASSUME Known, NEW n \in Nat, Room(n),
           \/ \E s \in Sessions : MediaFails(s) \/ SourceDies(s)
           \/ ThrottleExpires /\ ~Quiescent
    PROVE  Astray'
<1>1. CASE \E s \in Sessions : MediaFails(s)
    <2>1. UNCHANGED hubVars /\ UNCHANGED built /\ Paid
        BY <1>1 DEF MediaFails, Fault, Paid, Failed, hostVars
    <2>2. Grows(0)
        BY <2>1, DuesStay DEF hubVars
    <2> QED
        BY <2>1, <2>2, FaultIsPaid DEF Known
<1>2. ASSUME NEW s \in Sessions, SourceDies(s) PROVE Astray'
    <2>1. UNCHANGED built /\ Paid
        BY <1>2 DEF SourceDies, Fault, Paid, Failed
    <2>2. UNCHANGED <<handler, other, msg, link, outbox>>
        BY <1>2 DEF SourceDies, hubRest
    <2>3. OwnerSends("host", Error) \/ UNCHANGED inbox
        BY <1>2 DEF SourceDies
    <2>4. Grows(0)
        BY <2>2, <2>3, DuesSend, DuesStay, MessageFacts, SignalFacts DEF Known, HubInv
    <2> QED
        BY <2>1, <2>4, FaultIsPaid DEF Known
<1>3. CASE ThrottleExpires /\ ~Quiescent
    <2>1. UNCHANGED hubVars /\ UNCHANGED built /\ Paid
        BY <1>3 DEF ThrottleExpires, Paid, Hasty, hostVars
    <2>2. Grows(0)
        BY <2>1, DuesStay DEF hubVars
    <2> QED
        BY <2>1, <2>2, FaultIsPaid DEF Known
<1> QED
    BY <1>1, <1>2, <1>3

(* So is a drop, and the open connection that a dead one may close later.  *)
LEMMA SocketStep ==
    ASSUME Known, NEW n \in Nat, Room(n), NEW c \in Conns, SocketFails(c)
    PROVE  Astray'
<1>1. LinkFails(c) /\ UNCHANGED built /\ Failed
    BY DEF SocketFails, Fault, Failed, hostVars
<1>2. Grows(1) /\ 1 + 2 <= n + 3 /\ 1 + 1 <= n + 3 /\ n \in Int /\ 1 \in Int /\ 2 \in Int
    BY <1>1, DuesFail DEF Known
<1>3. Room(2)'
    BY <1>1, <1>2, RoomFails DEF Known
<1>4. Room(1)'
    BY <1>1, <1>2, RoomFails DEF Known
<1> QED
    BY <1>3, <1>4 DEF Astray

(* Who dials holds an open connection, which it did not before.            *)
LEMMA DialHolds ==
    ASSUME HubInv, NEW r \in Roles, NEW hello, Dial(r, hello)
    PROVE  /\ Holds(r)' /\ ~Holds(r)
           /\ \A q \in Roles \ {r} : Holds(q)' <=> Holds(q)
<1>1. PICK c \in Conns : /\ ws[r] = NoConn /\ link[c] = "none"
                         /\ ws' = [ws EXCEPT ![r] = c] /\ link' = [link EXCEPT ![c] = "up"]
    BY DEF Dial
<1>2. /\ ws'[r] = c /\ \A q \in Roles : q # r => ws'[q] = ws[q]
      /\ \A d \in Conns : link'[d] = IF d = c THEN "up" ELSE link[d]
    BY <1>1 DEF HubInv, TypeOK
<1>3. c # NoConn /\ \A q \in Roles : ws[q] # NoConn => ws[q] \in Conns /\ link[ws[q]] # "none"
    BY RoleFacts DEF HubInv, TypeOK, OwnedInv
<1> QED
    BY <1>1, <1>2, <1>3 DEF Holds

(* While something is on its way, a request is repeated too early.         *)
LEMMA AloneIsSomething ==
    ASSUME HubInv, NEW r \in Roles, NEW m, Alone(r, m)
    PROVE  ~Quiescent
<1> USE RoleFacts
<1>1. /\ ws[r] \in Conns
      /\ ws[otherRole(r)] # NoConn => ws[otherRole(r)] \in Conns
    BY WsFacts DEF Alone, Holds
<1>2. <<m>> # <<>>
    OBVIOUS
<1> QED
    BY <1>1, <1>2 DEF Alone, Quiescent

(* Nobody takes anything when there is nothing.                            *)
LEMMA EmptyIsSilent ==
    ASSUME HubInv, Empty
    PROVE  /\ ~PageError /\ ~PageNotice /\ ~HostReady /\ ~HostNotice
           /\ \A o \in Sessions : ~PageOffer(o) /\ ~HostAnswer(o)
BY EmptyTaken, SignalFacts DEF PageError, PageNotice, HostReady, HostNotice, PageOffer, HostAnswer

(* When one message is on its way, only who it is for takes it.            *)
LEMMA AloneIsHeard ==
    ASSUME HubInv, NEW r \in Roles, NEW m, Alone(r, m)
    PROVE  /\ PageError => r = "host" /\ m = Error
           /\ PageNotice => r = "host" /\ m = Notice
           /\ HostReady => r = "client" /\ m = Ready
           /\ HostNotice => r = "client" /\ m = Notice
           /\ \A o \in Sessions : /\ PageOffer(o) => r = "host" /\ m = Offer(o)
                                  /\ HostAnswer(o) => r = "client" /\ m = Answer(o)
<1>1. \A q \in Roles : \A y : Takes(q, y) => q = otherRole(r) /\ y = m
    BY AloneTaken
<1>2. "host" \in Roles /\ "client" \in Roles
    BY SignalFacts
<1>3. /\ "client" = otherRole(r) => r = "host"
      /\ "host" = otherRole(r) => r = "client"
    BY DEF otherRole, Roles
<1> QED
    BY <1>1, <1>2, <1>3 DEF PageError, PageNotice, HostReady, HostNotice, PageOffer, HostAnswer

(* Astray: there is room for one session more, and for two while the page  *)
(* may ask at any time or has to dial.                                     *)
LEMMA RoomOfAstray ==
    ASSUME Known, Astray
    PROVE  Room(1) /\ (~Holds("client") \/ ~asked => Room(2))
<1>1. 1 \in Int /\ 2 \in Int /\ 1 <= 2
    OBVIOUS
<1> QED
    BY <1>1, RoomIsLess DEF Astray, Known

(* What leaves the page's connection and its request alone, and adds       *)
(* nothing to what is due, leaves things astray.                           *)
LEMMA AstrayStays ==
    ASSUME Known, Astray, Grows(0), UNCHANGED <<built, faults, early, asked>>,
           Holds("client")' <=> Holds("client")
    PROVE  Astray'
<1>1. 1 \in Int /\ 2 \in Int
    OBVIOUS
<1> QED
    BY <1>1, RoomStays DEF Astray, Known

(* A handler that closes the page's open connection has been paid for.     *)
LEMMA AstrayHub ==
    ASSUME Known, Astray, NEW c \in Conns, HubWorks(c)
    PROVE  Astray'
<1>1. HandlerStep(c) /\ UNCHANGED <<built, faults, early, asked>>
    BY DEF HubWorks, pageVars, hostVars, envVars
<1>2. Grows(0) /\ (Evict(c) /\ Late(c) => Grows(-1))
    BY <1>1, DuesHub DEF Known
<1>3. CASE Holds("client")' <=> Holds("client")
    BY <1>1, <1>2, <1>3, AstrayStays
<1>4. CASE ~(Holds("client")' <=> Holds("client"))
    <2>1. ~Holds("client")' /\ Evict(c) /\ Late(c)
        BY <1>1, <1>4, HoldsHub DEF Known
    <2>2. /\ Room(1) /\ Grows(-1)
          /\ 1 \in Int /\ -1 \in Int /\ 2 \in Int /\ -1 + 2 <= 1
        BY <1>2, <2>1, RoomOfAstray
    <2>3. Room(2)'
        BY <1>1, <2>2, RoomKeeps DEF Known
    <2> QED
        BY <2>1, <2>3 DEF Astray
<1> QED
    BY <1>3, <1>4

(* The page asks, at once on a fresh connection or by its timer.           *)
LEMMA AstrayAsks ==
    ASSUME Known, Astray, PageDials \/ requestOffer
    PROVE  Astray'
<1>0. /\ 1 \in Int /\ 2 \in Int /\ 1 + 1 <= 2
      /\ UNCHANGED <<built, faults, early>> /\ "client" \in Roles
    BY SignalFacts DEF PageDials, requestOffer, hostVars, envVars
<1>1. CASE PageDials
    <2> DEFINE hello == IF mediaHealthy THEN <<>> ELSE <<Ready>>
    <2>1. Dial("client", hello) /\ asked' = ~mediaHealthy /\ hello \in {<<>>, <<Ready>>}
        BY <1>1 DEF PageDials
    <2>2. Holds("client")' /\ ~Holds("client") /\ Room(2)
        BY <1>0, <2>1, DialHolds, RoomOfAstray DEF Known
    <2>3. Grows(1) /\ (hello = <<>> => Grows(0))
        BY <1>0, <2>1, DuesDial DEF Known
    <2>4. CASE mediaHealthy
        <3>1. Room(2)' /\ ~asked'
            BY <1>0, <2>1, <2>2, <2>3, <2>4, RoomStays DEF Known
        <3> QED
            BY <3>1 DEF Astray
    <2>5. CASE ~mediaHealthy
        <3>1. Room(1)' /\ asked'
            BY <1>0, <2>1, <2>2, <2>3, <2>5, RoomKeeps DEF Known
        <3> QED
            BY <2>2, <3>1 DEF Astray
    <2> QED
        BY <2>4, <2>5
<1>2. CASE requestOffer
    <2>1. /\ Room(2) /\ asked' /\ OwnerSends("client", Ready)
          /\ UNCHANGED <<handler, other, msg, link, outbox, ws>>
        BY <1>2, RoomOfAstray DEF requestOffer, hubRest
    <2>2. Holds("client")' <=> Holds("client")
        BY <2>1 DEF Holds
    <2>3. CASE Holds("client")
        <3>1. Grows(1)
            BY <1>0, <2>1, DuesSend DEF Known, HubInv
        <3>2. Room(1)'
            BY <1>0, <2>1, <3>1, RoomKeeps DEF Known
        <3> QED
            BY <2>1, <2>2, <2>3, <3>2 DEF Astray
    <2>4. CASE ~Holds("client")
        <3>1. UNCHANGED inbox
            BY <2>1, <2>4 DEF OwnerSends, Holds
        <3>2. Room(2)'
            BY <1>0, <2>1, <3>1, DuesStay, RoomStays DEF Known
        <3> QED
            BY <2>2, <2>4, <3>2 DEF Astray
    <2> QED
        BY <2>3, <2>4
<1> QED
    BY <1>1, <1>2

(* Taking a message, and answering an offer.                               *)
LEMMA AstrayHears ==
    ASSUME Known, Astray,
           \/ PageError \/ PageNotice \/ HostReady \/ HostNotice
           \/ \E s \in Sessions : PageOffer(s) \/ PageAnswer(s) \/ HostAnswer(s)
    PROVE  Astray'
<1>0. /\ UNCHANGED <<handler, other, msg, link, ws, faults, early, asked>>
      /\ "client" \in Roles /\ "host" \in Roles
    BY SignalFacts DEF PageError, PageNotice, HostReady, HostNotice, PageOffer, PageAnswer,
                       HostAnswer, hubRest, pageVars, hostVars, envVars
<1>1. Holds("client")' <=> Holds("client")
    BY <1>0 DEF Holds
<1>2. CASE \/ PageError \/ PageNotice \/ HostNotice
           \/ \E s \in Sessions : PageOffer(s) \/ HostAnswer(s)
    <2>1. /\ UNCHANGED inbox /\ UNCHANGED built
          /\ \E q \in Roles : \E m : Takes(q, m)
        BY <1>0, <1>2 DEF PageError, PageNotice, HostNotice, PageOffer, HostAnswer, hostVars
    <2>2. Grows(0)
        BY <1>0, <2>1, DuesTake DEF Known, HubInv
    <2> QED
        BY <1>0, <1>1, <2>1, <2>2, AstrayStays
<1>3. ASSUME NEW s \in Sessions, PageAnswer(s) PROVE Astray'
    <2>1. /\ UNCHANGED outbox /\ UNCHANGED built
          /\ UNCHANGED inbox \/ (pc # None /\ OwnerSends("client", Answer(pc)))
        BY <1>3 DEF PageAnswer, hostVars
    <2>2. pc # None => pc \in Sessions
        BY SessionFacts DEF Known, EndsInv
    <2>3. Grows(0)
        BY <1>0, <2>1, <2>2, DuesSend, DuesStay, MessageFacts DEF Known, HubInv
    <2> QED
        BY <1>0, <1>1, <2>1, <2>3, AstrayStays
<1>4. CASE HostReady
    <2>1. /\ Takes("host", Ready) /\ OwnerSends("host", Offer(built + 1))
          /\ built' = built + 1 /\ built + 1 \in Sessions
        BY <1>4, SessionFacts DEF HostReady, Known, EndsInv
    <2>2. Offer(built + 1) \in Cargo \ {Ready}
        BY <2>1, SignalFacts, MessageFacts
    <2>3. Grows(-1)
        BY <1>0, <2>1, <2>2, DuesTake DEF Known, HubInv
    <2>4. 1 \in Int /\ 2 \in Int /\ -1 \in Int /\ 1 + -1 + 1 <= 1 /\ 1 + -1 + 2 <= 2
        OBVIOUS
    <2>5. Room(1) => Room(1)'
        BY <1>0, <2>1, <2>3, <2>4, RoomBuilds DEF Known
    <2>6. Room(2) => Room(2)'
        BY <1>0, <2>1, <2>3, <2>4, RoomBuilds DEF Known
    <2> QED
        BY <1>0, <1>1, <2>5, <2>6 DEF Astray
<1> QED
    BY <1>2, <1>3, <1>4

(* When nothing is under way, asking once more is the way back.            *)
LEMMA AstrayExpires ==
    ASSUME Known, Astray, ThrottleExpires
    PROVE  Astray' \/ Quiet'
<1>1. CASE ~Quiescent
    <2>1. Room(1) /\ 1 \in Nat
        BY RoomOfAstray
    <2> QED
        BY <1>1, <2>1, FaultStep
<1>2. CASE Quiescent
    <2>1. UNCHANGED hubVars /\ UNCHANGED hand /\ UNCHANGED <<built, faults, early>>
        BY <1>2 DEF ThrottleExpires, hostVars
    <2>2. Calm /\ Empty /\ Idle
        BY <1>2 DEF Quiescent, Calm, Empty, Idle
    <2>3. Calm' /\ Empty' /\ Idle'
        BY <2>1, <2>2 DEF hubVars, Calm, Empty, Idle
    <2>4. Room(1)'
        <3>1. 1 \in Int /\ Room(1) /\ Grows(0)
            BY <2>1, RoomOfAstray, DuesStay DEF hubVars
        <3> QED
            BY <2>1, <3>1, RoomStays DEF Known
    <2> QED
        BY <2>3, <2>4 DEF Quiet
<1> QED
    BY <1>1, <1>2

(* Nothing leads from astray but a request that comes when all is quiet.   *)
LEMMA AstrayStep ==
    ASSUME Known, [NegNext]_vars, Astray
    PROVE  Astray' \/ Quiet'
<1>1. ASSUME NEW c \in Conns, HubWorks(c) \/ SocketFails(c) PROVE Astray'
    <2>1. 1 \in Nat /\ Room(1)
        BY RoomOfAstray
    <2> QED
        BY <1>1, <2>1, AstrayHub, SocketStep
<1>2. ASSUME NEW r \in Roles, OwnerFindsOut(r) PROVE Astray'
    <2>1. OwnerNotices(r) /\ UNCHANGED <<built, faults, early, asked>>
        BY <1>2 DEF OwnerFindsOut, pageVars, hostVars, envVars
    <2> QED
        BY <2>1, NoticesStay, DuesNotices, AstrayStays, SignalFacts DEF Known
<1>3. CASE HostDials
    <2>1. Dial("host", <<>>) /\ UNCHANGED <<built, faults, early, asked>>
        BY <1>3 DEF HostDials, pageVars, hostVars, envVars
    <2>2. /\ "host" \in Roles /\ "client" \in Roles \ {"host"}
          /\ <<>> \in {<<>>, <<Ready>>}
        BY SignalFacts
    <2>3. Grows(0) /\ (Holds("client")' <=> Holds("client"))
        BY <2>1, <2>2, DuesDial, DialHolds DEF Known
    <2> QED
        BY <2>1, <2>3, AstrayStays
<1>4. CASE PageDials \/ requestOffer
    BY <1>4, AstrayAsks
<1>5. CASE \/ PageError \/ PageNotice \/ HostReady \/ HostNotice
           \/ \E s \in Sessions : PageOffer(s) \/ PageAnswer(s) \/ HostAnswer(s)
    BY <1>5, AstrayHears
<1>6. CASE \/ UNCHANGED vars
           \/ \E s \in Sessions : SetupDone(s) \/ Connects(s) \/ PageLoses(s) \/ HostLoses(s)
    <2>1. UNCHANGED hubVars /\ UNCHANGED <<built, faults, early, asked>>
        BY <1>6 DEF SetupDone, Connects, PageLoses, HostLoses, vars, pageVars, hostVars, envVars
    <2>2. Grows(0) /\ (Holds("client")' <=> Holds("client"))
        BY <2>1, DuesStay DEF hubVars, Holds
    <2> QED
        BY <2>1, <2>2, AstrayStays
<1>7. CASE \E s \in Sessions : MediaFails(s) \/ SourceDies(s)
    <2>1. 1 \in Nat /\ Room(1)
        BY RoomOfAstray
    <2> QED
        BY <1>7, <2>1, FaultStep
<1>8. CASE ThrottleExpires
    BY <1>8, AstrayExpires
<1> QED
    BY <1>1, <1>2, <1>3, <1>4, <1>5, <1>6, <1>7, <1>8
       DEF NegNext, PageStep, OfferStep, HostStep, MediaStep

(* Quiet: a request may start, and nothing else but a fault.               *)
LEMMA QuietStep ==
    ASSUME Known, [NegNext]_vars, Quiet
    PROVE  Quiet' \/ Asking' \/ Astray'
<1> USE DEF Known
<1>0. /\ 0 \in Int /\ 1 \in Int /\ 1 \in {0, 1} /\ 1 \in Nat /\ 1 + 0 <= 1
      /\ "client" \in Roles /\ "host" \in Roles
      /\ Calm /\ Empty /\ Idle /\ Room(1)
    BY SignalFacts DEF Quiet
<1>1. ASSUME Calm', Empty', Grows(0), UNCHANGED <<hand, built, faults, early>>
      PROVE  Quiet'
    BY <1>0, <1>1, RoomStays DEF Quiet, Idle
<1>2. ASSUME UNCHANGED <<handler, other, msg, link, inbox, outbox>>, UNCHANGED <<hand, built, faults, early>>
      PROVE  Quiet'
    BY <1>0, <1>1, <1>2, DuesStay DEF Calm, Empty
<1>3. ASSUME Alone("client", Ready)', Calm', asked', Grows(1), UNCHANGED <<hand, built, faults, early>>
      PROVE  Asking'
    BY <1>0, <1>3, RoomKeeps DEF Asking, Idle
<1>4. ASSUME NEW c \in Conns, HubWorks(c) PROVE Quiet'
    <2>1. HandlerStep(c) /\ UNCHANGED <<hand, built, faults, early>>
        BY <1>4 DEF HubWorks, pageVars, hostVars, envVars
    <2> QED
        BY <1>0, <1>1, <2>1, DuesHub, CalmStays, EmptyStays
<1>5. ASSUME NEW c \in Conns, SocketFails(c) PROVE Astray'
    BY <1>0, <1>5, SocketStep
<1>6. ASSUME NEW r \in Roles, OwnerFindsOut(r) PROVE Quiet'
    BY <1>0, <1>1, <1>6, NoticesStay, DuesNotices DEF OwnerFindsOut, pageVars, hostVars, envVars
<1>7. CASE \/ UNCHANGED vars
           \/ \E s \in Sessions : Connects(s) \/ PageLoses(s) \/ HostLoses(s)
    BY <1>2, <1>7 DEF Connects, PageLoses, HostLoses, vars, hubVars, pageVars, hostVars, envVars
<1>8. ASSUME NEW s \in Sessions PROVE ~SetupDone(s) /\ ~PageAnswer(s)
    BY <1>0 DEF Idle, SetupDone, PageAnswer
<1>9. ASSUME NEW s \in Sessions, MediaFails(s) \/ SourceDies(s) PROVE Astray'
    BY <1>0, <1>9, FaultStep
<1>10. CASE PageDials
    <2> DEFINE hello == IF mediaHealthy THEN <<>> ELSE <<Ready>>
    <2>1. /\ Dial("client", hello) /\ asked' = ~mediaHealthy /\ hello \in {<<>>, <<Ready>>}
          /\ UNCHANGED <<hand, built, faults, early>>
        BY <1>10 DEF PageDials, hostVars, envVars
    <2>2. CASE mediaHealthy
        BY <1>0, <1>1, <2>1, <2>2, CalmDial, DuesDial
    <2>3. CASE ~mediaHealthy
        <3>1. hello = <<Ready>> /\ asked'
            BY <2>1, <2>3
        <3> QED
            BY <1>0, <1>3, <2>1, <3>1, CalmDial, DuesDial
    <2> QED
        BY <2>2, <2>3
<1>11. CASE requestOffer
    <2>1. /\ asked' /\ OwnerSends("client", Ready)
          /\ UNCHANGED <<handler, other, msg, link, outbox, ws>>
          /\ UNCHANGED <<hand, built, faults, early>>
        BY <1>11 DEF requestOffer, hubRest, hostVars, envVars
    <2>2. CASE Holds("client")
        <3>1. \A c \in Conns : inbox[c] = <<>> /\ outbox'[c] = <<>> /\ handler[c] # "sending"
            BY <1>0, <2>1 DEF Empty
        <3>2. Alone("client", Ready)'
            BY <1>0, <2>1, <2>2, <3>1, AloneSaid
        <3>3. Calm' /\ Grows(1)
            BY <1>0, <2>1, DuesSend DEF Calm, HubInv
        <3> QED
            BY <1>3, <2>1, <3>2, <3>3
    <2>3. CASE ~Holds("client")
        BY <1>2, <2>1, <2>3 DEF OwnerSends, Holds
    <2> QED
        BY <2>2, <2>3
<1>12. CASE HostDials
    <2>1. Dial("host", <<>>) /\ UNCHANGED <<hand, built, faults, early>>
        BY <1>12 DEF HostDials, pageVars, hostVars, envVars
    <2>2. <<>> \in {<<>>, <<Ready>>}
        OBVIOUS
    <2> QED
        BY <1>0, <1>1, <2>1, <2>2, CalmDial, DuesDial
<1>13. CASE ThrottleExpires
    <2>1. CASE Quiescent
        BY <1>2, <1>13, <2>1 DEF ThrottleExpires, hubVars, hostVars
    <2>2. CASE ~Quiescent
        BY <1>0, <1>13, <2>2, FaultStep
    <2> QED
        BY <2>1, <2>2
<1> QED
    BY <1>0, <1>4, <1>5, <1>6, <1>7, <1>8, <1>9, <1>10, <1>11, <1>12, <1>13, EmptyIsSilent
       DEF NegNext, PageStep, OfferStep, HostStep, MediaStep

(* A request on its way is due.                                            *)
LEMMA RequestIsDue ==
    ASSUME HubInv, Alone("client", Ready)
    PROVE  \E x : x \in Dues
<1> DEFINE a == ws["client"]
           b == ws["host"]
<1>1. "client" \in Roles /\ otherRole("client") = "host" /\ "host" \in Roles
    BY SignalFacts DEF otherRole
<1>2. a \in Conns /\ (b # NoConn => b \in Conns)
    BY <1>1, WsFacts DEF Alone, Holds
<1>3. 1 \in DOMAIN <<Ready>> /\ <<Ready>>[1] = Ready /\ 1 \in Nat
    OBVIOUS
<1>4. \E p \in Places : \E c \in Conns : Due(p, c, 1)
    <2>1. CASE inbox[a] = <<Ready>>
        <3>1. Due("inbox", a, 1) /\ "inbox" \in Places
            BY <1>3, <2>1 DEF Due, Places
        <3> QED
            BY <1>2, <3>1
    <2>2. CASE handler[a] = "sending" /\ msg[a] = Ready
        <3>1. Due("held", a, 1) /\ "held" \in Places
            BY <2>2 DEF Due, Places
        <3> QED
            BY <1>2, <3>1
    <2>3. CASE outbox[b] = <<Ready>> /\ b # NoConn
        <3>1. Due("outbox", b, 1) /\ "outbox" \in Places
            BY <1>3, <2>3 DEF Due, Places
        <3> QED
            BY <1>2, <2>3, <3>1
    <2> QED
        BY <1>1, <2>1, <2>2, <2>3 DEF Alone
<1> QED
    BY <1>3, <1>4, DueMember

(* In a calm hub with nothing on its way, nothing is due.                  *)
LEMMA NothingIsDue == Calm /\ Empty => Dues = {}
<1> SUFFICES ASSUME Calm, Empty PROVE Dues = {}
    OBVIOUS
<1>1. ASSUME NEW p \in Places, NEW c \in Conns, NEW i \in Nat, Due(p, c, i) PROVE FALSE
    <2>1. p # "late"
        BY <1>1 DEF Due, Late, Calm, Conns
    <2>2. DOMAIN <<>> = {}
        OBVIOUS
    <2> QED
        BY <1>1, <2>1, <2>2 DEF Due, Empty, Places
<1> QED
    BY <1>1 DEF Dues

(* The host takes the request and builds the session asked for.            *)
LEMMA HostBuilds ==
    ASSUME Known, Asking, HostReady
    PROVE  \E s \in Sessions : Offering(s)'
<1>s. PICK s \in Sessions : s = built + 1
    BY SessionFacts DEF HostReady, Known, EndsInv
<1> DEFINE ended == IF cur = None THEN host ELSE [host EXCEPT ![cur] = "ended"]
<1> USE DEF Known
<1>0. /\ "client" \in Roles /\ "host" \in Roles /\ otherRole("client") = "host"
      /\ 0 \in Int /\ -1 \in Int /\ 1 + -1 + 0 <= 0
    BY SignalFacts DEF otherRole
<1>1. /\ Calm /\ Alone("client", Ready) /\ Idle /\ asked /\ Room(0)
    BY DEF Asking
<1>2. /\ built < MaxSession /\ Takes("host", Ready) /\ built' = s
      /\ OwnerSends("host", Offer(s))
      /\ IF link[ws["host"]] = "down" THEN cur' = None /\ host' = [ended EXCEPT ![s] = "ended"]
                                      ELSE cur' = s /\ host' = [ended EXCEPT ![s] = "offered"]
      /\ UNCHANGED <<peers, handler, other, msg, link, ws>>
      /\ UNCHANGED <<pc, obj, hand, asked, faults, early>>
    BY <1>s DEF HostReady, hubRest, pageVars, envVars
<1>4. /\ Holds("client") /\ Holds("host") /\ Serving(ws["client"]) /\ Serving(ws["host"])
      /\ \A c \in Conns : inbox[c] = <<>> /\ outbox'[c] = <<>> /\ handler[c] # "sending"
    BY <1>0, <1>1, <1>2, AloneTaken
<1>5. Alone("host", Offer(s))'
    BY <1>0, <1>2, <1>4, AloneSaid
<1>6. Calm' /\ Online' /\ Idle' /\ asked'
    <2>1. Online
        BY <1>4 DEF Online, Roles, Holds
    <2> QED
        BY <1>1, <1>2, <2>1 DEF Calm, Online, Serving, Idle
<1>7. Room(0)'
    <2>1. Offer(s) \in Cargo \ {Ready}
        BY SignalFacts, MessageFacts
    <2>2. Grows(-1)
        BY <1>0, <1>2, <2>1, DuesTake DEF HubInv
    <2> QED
        BY <1>0, <1>1, <1>2, <1>s, <2>2, RoomBuilds
<1>8. cur' = s /\ host'[s] = "offered"
    <2>1. ended \in [Sessions -> {"none", "offered", "answered", "stale", "up", "ended"}]
        BY SessionFacts DEF EndsInv
    <2>2. cur' = s /\ host' = [ended EXCEPT ![s] = "offered"]
        BY <1>2, <1>4 DEF Holds
    <2> HIDE DEF ended
    <2> QED
        BY <2>1, <2>2
<1> QED
    BY <1>2, <1>5, <1>6, <1>7, <1>8 DEF Offering, OnTrack

(* The request reaches the host, is dropped for want of a host, or fails.  *)
LEMMA AskingStep ==
    ASSUME Known, [NegNext]_vars, Asking
    PROVE  Asking' \/ Quiet' \/ Astray' \/ \E s \in Sessions : Offering(s)'
<1> USE DEF Known
<1>0. /\ "client" \in Roles /\ "host" \in Roles /\ otherRole("client") = "host"
      /\ Calm /\ Alone("client", Ready) /\ Idle /\ asked /\ Room(0)
      /\ 0 \in Int /\ 0 \in Nat /\ 0 \in {0, 1}
    BY SignalFacts DEF Asking, otherRole
<1>1. ASSUME Calm', Alone("client", Ready)', Grows(0), UNCHANGED <<hand, asked, built, faults, early>>
      PROVE  Asking'
    BY <1>0, <1>1, RoomStays DEF Asking, Idle
<1>2. ASSUME UNCHANGED hubVars, UNCHANGED <<hand, asked, built, faults, early>>
      PROVE  Asking'
    <2>1. Calm' /\ Alone("client", Ready)'
        BY <1>0, <1>2 DEF Calm, Alone, Holds, Serving, hubVars
    <2> QED
        BY <1>1, <1>2, <2>1, DuesStay DEF hubVars
<1>3. ASSUME NEW c \in Conns, HubWorks(c) PROVE Asking' \/ Quiet'
    <2>1. HandlerStep(c) /\ UNCHANGED <<hand, asked, built, faults, early>>
        BY <1>3 DEF HubWorks, pageVars, hostVars, envVars
    <2>2. Calm' /\ Grows(0)
        BY <1>0, <2>1, DuesHub, CalmStays
    <2>3. CASE Alone("client", Ready)'
        BY <1>1, <2>1, <2>2, <2>3
    <2>4. CASE Empty'
        <3>1. PICK x : x \in Dues
            BY <1>0, RequestIsDue
        <3>2. Dues' = {}
            <4>1. (Calm /\ Empty => Dues = {})'
                BY NothingIsDue, PTL
            <4> QED
                BY <2>2, <2>4, <4>1
        <3>3. Dues' \subseteq Dues \ {x}
            BY <3>2
        <3>4. Grows(-1)
            BY <3>1, <3>3, GrowsLess
        <3>5. 1 \in Int /\ -1 \in Int /\ -1 + 1 <= 0
            OBVIOUS
        <3>6. Room(1)'
            BY <1>0, <2>1, <3>4, <3>5, RoomKeeps
        <3> QED
            BY <1>0, <2>1, <2>2, <2>4, <3>6 DEF Quiet, Idle
    <2> QED
        BY <1>0, <2>1, <2>3, <2>4, AloneStays
<1>4. ASSUME NEW c \in Conns, SocketFails(c) PROVE Astray'
    <2>1. 0 \in Nat
        OBVIOUS
    <2> QED
        BY <1>0, <1>4, <2>1, SocketStep
<1>5. ASSUME NEW r \in Roles, OwnerFindsOut(r) PROVE Asking'
    <2>1. OwnerNotices(r) /\ UNCHANGED <<hand, asked, built, faults, early>>
        BY <1>5 DEF OwnerFindsOut, pageVars, hostVars, envVars
    <2>2. Calm' /\ Alone("client", Ready)'
        BY <1>0, <2>1, NoticesStay
    <2>3. Grows(0)
        BY <2>1, DuesNotices
    <2> QED
        BY <1>1, <2>1, <2>2, <2>3
<1>6. CASE \/ UNCHANGED vars
           \/ \E s \in Sessions : Connects(s) \/ PageLoses(s) \/ HostLoses(s)
    BY <1>2, <1>6 DEF Connects, PageLoses, HostLoses, vars, pageVars, hostVars, envVars
<1>7. ASSUME NEW s \in Sessions PROVE ~SetupDone(s) /\ ~PageAnswer(s)
    BY <1>0 DEF Idle, SetupDone, PageAnswer
<1>8. ASSUME NEW s \in Sessions, MediaFails(s) \/ SourceDies(s) PROVE Astray'
    BY <1>0, <1>8, FaultStep
<1>9. ~PageDials /\ ~requestOffer
    BY <1>0, DialHolds DEF PageDials, requestOffer, Alone
<1>10. /\ ~PageError /\ ~PageNotice /\ ~HostNotice
       /\ \A o \in Sessions : ~PageOffer(o) /\ ~HostAnswer(o)
    <2>1. "client" # "host"
        OBVIOUS
    <2> QED
        BY <1>0, <2>1, AloneIsHeard, MessageFacts
<1>11. CASE HostDials
    <2>1. Dial("host", <<>>) /\ UNCHANGED <<hand, asked, built, faults, early>>
        BY <1>11 DEF HostDials, pageVars, hostVars, envVars
    <2>2. <<>> \in {<<>>, <<Ready>>}
        OBVIOUS
    <2> QED
        BY <1>0, <1>1, <2>1, <2>2, CalmDial, DuesDial
<1>12. CASE HostReady
    BY <1>12, HostBuilds
<1>13. CASE ThrottleExpires
    BY <1>0, <1>13, AloneIsSomething, FaultStep
<1> QED
    BY <1>3, <1>4, <1>5, <1>6, <1>7, <1>8, <1>9, <1>10, <1>11, <1>12, <1>13
       DEF NegNext, PageStep, OfferStep, HostStep, MediaStep

(* While a session is under way, it is left alone by the hub and by the    *)
(* other sessions; nobody dials or asks.                                   *)
Kept(s, h) ==
    /\ OnTrack(s, h)' /\ UNCHANGED <<pc, hand>> /\ obj'[s] = obj[s]
    /\ Empty => Empty'
    /\ \A r \in Roles : \A m : Alone(r, m) => Alone(r, m)'

LEMMA TrackStep ==
    ASSUME Known, [NegNext]_vars, NEW s, NEW h, OnTrack(s, h), ~Quiescent,
           h = "offered" \/ (h = "answered" /\ obj[s] = "local")
    PROVE  \/ Astray' \/ Kept(s, h)
           \/ PageError \/ PageNotice \/ HostReady \/ HostNotice
           \/ \E o \in Sessions : HostAnswer(o) \/ OfferStep(o)
           \/ h = "answered" /\ Connects(s)
<1> USE DEF Known
<1>0. /\ "client" \in Roles /\ "host" \in Roles
      /\ Calm /\ Online /\ asked /\ Room(0)
      /\ s \in Sessions /\ cur = s /\ built = s /\ host[s] = h
      /\ 0 \in Int /\ 0 \in Nat
    BY SignalFacts DEF OnTrack
<1>1. ASSUME Calm', Online', Grows(0), UNCHANGED <<pc, cur, hand, asked, built, faults, early>>,
             obj'[s] = obj[s], host'[s] = host[s], Empty => Empty',
             \A r \in Roles : \A m : Alone(r, m) => Alone(r, m)'
      PROVE  Kept(s, h)
    BY <1>0, <1>1, RoomStays DEF Kept, OnTrack
<1>2. ASSUME NEW c \in Conns, HubWorks(c) PROVE Kept(s, h)
    <2>1. HandlerStep(c) /\ UNCHANGED <<pc, obj, cur, host, hand, asked, built, faults, early>>
        BY <1>2 DEF HubWorks, pageVars, hostVars, envVars
    <2>2. Calm' /\ Grows(0)
        BY <1>0, <2>1, DuesHub, CalmStays
    <2>3. Online'
        BY <1>0, <2>1, WsFacts, CalmSteps, CalmStays DEF Online
    <2> QED
        BY <1>0, <1>1, <2>1, <2>2, <2>3, EmptyStays, AloneStays
<1>3. ASSUME NEW c \in Conns, SocketFails(c) PROVE Astray'
    BY <1>0, <1>3, SocketStep
<1>4. ASSUME NEW r \in Roles PROVE ~OwnerFindsOut(r)
    BY <1>0, NoticesStay DEF OwnerFindsOut
<1>5. ASSUME UNCHANGED hubVars, UNCHANGED <<pc, cur, hand, asked, built, faults, early>>,
             obj'[s] = obj[s], host'[s] = host[s]
      PROVE  Kept(s, h)
    <2>1. Calm' /\ Online' /\ (Empty => Empty')
        BY <1>0, <1>5 DEF Calm, Online, Serving, Empty, hubVars
    <2>2. ASSUME NEW r \in Roles, NEW m, Alone(r, m) PROVE Alone(r, m)'
        BY <1>5, <2>2 DEF Alone, Holds, Serving, hubVars
    <2>3. Grows(0)
        BY <1>5, DuesStay DEF hubVars
    <2> QED
        BY <1>1, <1>5, <2>1, <2>2, <2>3
<1>6. ASSUME NEW o \in Sessions, Connects(o) \/ PageLoses(o) \/ HostLoses(o)
      PROVE  Kept(s, h) \/ (h = "answered" /\ Connects(s))
    <2>1. CASE o = s
        BY <1>0, <1>6, <2>1 DEF Connects, PageLoses, HostLoses
    <2>2. CASE o # s
        <3>1. /\ UNCHANGED hubVars /\ UNCHANGED <<pc, cur, hand, asked, built, faults, early>>
              /\ obj'[s] = obj[s] /\ host'[s] = host[s]
            BY <1>0, <1>6, <2>2 DEF Connects, PageLoses, HostLoses, pageVars, hostVars, envVars, EndsInv
        <3> QED
            BY <1>5, <3>1
    <2> QED
        BY <2>1, <2>2
<1>7. ASSUME NEW o \in Sessions, MediaFails(o) \/ SourceDies(o) PROVE Astray'
    BY <1>0, <1>7, FaultStep
<1>8. ~PageDials /\ ~requestOffer /\ ~HostDials
    BY <1>0, CalmDial DEF PageDials, requestOffer, HostDials
<1>9. CASE ThrottleExpires
    BY <1>0, <1>9, FaultStep
<1>10. CASE UNCHANGED vars
    BY <1>5, <1>10 DEF vars, pageVars, hostVars, envVars
<1> QED
    BY <1>2, <1>3, <1>4, <1>6, <1>7, <1>8, <1>9, <1>10
       DEF NegNext, PageStep, HostStep, MediaStep

(* The offer reaches the page.                                             *)
LEMMA OfferingStep ==
    ASSUME Known, [NegNext]_vars, NEW s \in Sessions, Offering(s)
    PROVE  Offering(s)' \/ Preparing(s)' \/ Astray'
<1> USE DEF Known
<1>0. /\ OnTrack(s, "offered") /\ Alone("host", Offer(s)) /\ Idle
      /\ "host" \in Roles /\ "client" \in Roles /\ 0 \in Int
    BY SignalFacts DEF Offering
<1>1. CASE Kept(s, "offered")
    BY <1>0, <1>1 DEF Offering, Kept, Idle
<1>2. /\ ~PageError /\ ~PageNotice /\ ~HostReady /\ ~HostNotice
      /\ \A o \in Sessions : ~HostAnswer(o) /\ (PageOffer(o) => o = s)
    <2>1. "client" # "host"
        OBVIOUS
    <2> QED
        BY <1>0, <2>1, AloneIsHeard, MessageFacts
<1>3. ASSUME NEW o \in Sessions PROVE ~SetupDone(o) /\ ~PageAnswer(o)
    BY <1>0 DEF Idle, SetupDone, PageAnswer
<1>4. CASE PageOffer(s)
    <2>1. /\ Takes("client", Offer(s)) /\ closePC /\ hand' = [hand EXCEPT ![s] = "setup"]
          /\ UNCHANGED <<peers, handler, other, msg, link, ws, inbox, asked, cur, built, host, faults, early>>
        BY <1>4 DEF PageOffer, hubRest, hostVars, envVars
    <2>2. Empty'
        BY <1>0, <2>1, AloneTaken DEF Empty
    <2>3. Room(0)'
        <3>1. Grows(0)
            BY <1>0, <2>1, DuesTake DEF HubInv
        <3> QED
            BY <1>0, <2>1, <3>1, RoomStays DEF OnTrack
    <2>4. OnTrack(s, "offered")'
        BY <1>0, <2>1, <2>3 DEF OnTrack, Calm, Online, Serving
    <2>5. pc' = None /\ IdleBut(s, "setup")'
        BY <1>0, <2>1 DEF closePC, Idle, IdleBut, EndsInv
    <2> QED
        BY <2>2, <2>4, <2>5 DEF Preparing
<1>5. ~Quiescent
    BY <1>0, AloneIsSomething
<1> QED
    BY <1>0, <1>1, <1>2, <1>3, <1>4, <1>5, TrackStep DEF OfferStep

(* The page makes its peer connection.                                     *)
LEMMA PreparingStep ==
    ASSUME Known, [NegNext]_vars, NEW s \in Sessions, Preparing(s)
    PROVE  Preparing(s)' \/ Answering(s)' \/ Astray'
<1> USE DEF Known
<1>0. OnTrack(s, "offered") /\ Empty /\ pc = None /\ IdleBut(s, "setup") /\ 0 \in Int
    BY DEF Preparing
<1>1. CASE Kept(s, "offered")
    BY <1>0, <1>1 DEF Preparing, Kept, IdleBut
<1>2. ASSUME NEW o \in Sessions PROVE ~PageAnswer(o) /\ (SetupDone(o) => o = s)
    BY <1>0 DEF IdleBut, SetupDone, PageAnswer
<1>3. CASE SetupDone(s)
    <2>1. /\ pc' = s /\ obj' = [obj EXCEPT ![s] = "new"] /\ hand' = [hand EXCEPT ![s] = "answering"]
          /\ UNCHANGED <<hubVars, asked, cur, built, host, faults, early>>
        BY <1>0, <1>3 DEF SetupDone, IdleBut, hostVars, envVars
    <2>2. Room(0)'
        BY <1>0, <2>1, DuesStay, RoomStays DEF OnTrack, hubVars
    <2>3. OnTrack(s, "offered")' /\ Empty'
        BY <1>0, <2>1, <2>2 DEF OnTrack, Calm, Online, Serving, Empty, hubVars
    <2>4. obj'[s] = "new" /\ IdleBut(s, "answering")'
        BY <1>0, <2>1 DEF IdleBut, EndsInv
    <2> QED
        BY <2>1, <2>3, <2>4 DEF Answering
<1>4. ~Quiescent
    BY <1>0 DEF Quiescent, IdleBut
<1> QED
    BY <1>0, <1>1, <1>2, <1>3, <1>4, EmptyIsSilent, TrackStep DEF OfferStep

(* The page answers with it.                                               *)
LEMMA AnsweringStep ==
    ASSUME Known, [NegNext]_vars, NEW s \in Sessions, Answering(s)
    PROVE  Answering(s)' \/ Answered(s)' \/ Astray'
<1> USE DEF Known
<1>0. /\ OnTrack(s, "offered") /\ Empty /\ pc = s /\ obj[s] = "new" /\ IdleBut(s, "answering")
      /\ "client" \in Roles /\ 0 \in Int
    BY SignalFacts DEF Answering
<1>1. CASE Kept(s, "offered")
    BY <1>0, <1>1 DEF Answering, Kept, IdleBut
<1>2. ASSUME NEW o \in Sessions PROVE ~SetupDone(o) /\ (PageAnswer(o) => o = s)
    BY <1>0 DEF IdleBut, SetupDone, PageAnswer
<1>3. CASE PageAnswer(s)
    <2>1. /\ hand' = [hand EXCEPT ![s] = "done"] /\ obj' = [obj EXCEPT ![s] = "local"]
          /\ OwnerSends("client", Answer(s))
          /\ UNCHANGED <<handler, other, msg, link, ws, outbox, pc, asked, cur, built, host, faults, early>>
        BY <1>0, <1>3 DEF PageAnswer, hubRest, hostVars, envVars
    <2>2. Holds("client")
        BY <1>0 DEF OnTrack, Online, Serving, Holds
    <2>3. \A c \in Conns : inbox[c] = <<>> /\ outbox'[c] = <<>> /\ handler[c] # "sending"
        BY <1>0, <2>1 DEF Empty
    <2>4. Alone("client", Answer(s))'
        BY <1>0, <2>1, <2>2, <2>3, AloneSaid
    <2>5. Room(0)'
        <3>1. Grows(0)
            BY <1>0, <2>1, DuesSend, MessageFacts DEF HubInv
        <3> QED
            BY <1>0, <2>1, <3>1, RoomStays DEF OnTrack
    <2>6. OnTrack(s, "offered")'
        BY <1>0, <2>1, <2>5 DEF OnTrack, Calm, Online, Serving
    <2>7. pc' = s /\ obj'[s] = "local" /\ Idle'
        BY <1>0, <2>1 DEF Idle, IdleBut, EndsInv
    <2> QED
        BY <2>4, <2>6, <2>7 DEF Answered
<1>4. ASSUME NEW o \in Sessions, PageOffer(o) PROVE FALSE
    BY <1>0, <1>4, EmptyIsSilent
<1>5. ~Quiescent
    BY <1>0 DEF Quiescent, IdleBut
<1> QED
    BY <1>0, <1>1, <1>2, <1>3, <1>4, <1>5, EmptyIsSilent, TrackStep DEF OfferStep

(* The answer reaches the host.                                            *)
LEMMA AnsweredStep ==
    ASSUME Known, [NegNext]_vars, NEW s \in Sessions, Answered(s)
    PROVE  Answered(s)' \/ Connecting(s)' \/ Astray'
<1> USE DEF Known
<1>0. /\ OnTrack(s, "offered") /\ Alone("client", Answer(s)) /\ pc = s /\ obj[s] = "local" /\ Idle
      /\ "host" \in Roles /\ "client" \in Roles /\ 0 \in Int
    BY SignalFacts DEF Answered
<1>1. CASE Kept(s, "offered")
    BY <1>0, <1>1 DEF Answered, Kept, Idle
<1>2. /\ ~PageError /\ ~PageNotice /\ ~HostReady /\ ~HostNotice
      /\ \A o \in Sessions : ~PageOffer(o) /\ (HostAnswer(o) => o = s)
    <2>1. "client" # "host"
        OBVIOUS
    <2> QED
        BY <1>0, <2>1, AloneIsHeard, MessageFacts
<1>3. ASSUME NEW o \in Sessions PROVE ~SetupDone(o) /\ ~PageAnswer(o)
    BY <1>0 DEF Idle, SetupDone, PageAnswer
<1>4. CASE HostAnswer(s)
    <2>1. /\ Takes("host", Answer(s))
          /\ UNCHANGED <<peers, handler, other, msg, link, ws, inbox, cur, built, pc, obj, hand, asked, faults, early>>
        BY <1>4 DEF HostAnswer, hubRest, pageVars, envVars
    <2>2. host'[s] = "answered"
        BY <1>0, <1>4, SessionFacts DEF HostAnswer, OnTrack, EndsInv
    <2>3. Empty'
        BY <1>0, <2>1, AloneTaken DEF Empty
    <2>4. Room(0)'
        <3>1. Grows(0)
            BY <1>0, <2>1, DuesTake DEF HubInv
        <3> QED
            BY <1>0, <2>1, <3>1, RoomStays DEF OnTrack
    <2>5. OnTrack(s, "answered")'
        BY <1>0, <2>1, <2>2, <2>4 DEF OnTrack, Calm, Online, Serving
    <2>6. pc' = s /\ obj'[s] = "local" /\ Idle'
        BY <1>0, <2>1 DEF Idle
    <2> QED
        BY <2>3, <2>5, <2>6 DEF Connecting
<1>5. ~Quiescent
    BY <1>0, AloneIsSomething
<1> QED
    BY <1>0, <1>1, <1>2, <1>3, <1>4, <1>5, TrackStep DEF OfferStep

(* The media connect.                                                      *)
LEMMA ConnectingStep ==
    ASSUME Known, [NegNext]_vars, NEW s \in Sessions, Connecting(s)
    PROVE  Connecting(s)' \/ Steady(s)' \/ Astray'
<1> USE DEF Known
<1>0. OnTrack(s, "answered") /\ Empty /\ pc = s /\ obj[s] = "local" /\ Idle /\ 0 \in Int
    BY DEF Connecting
<1>1. CASE Kept(s, "answered")
    BY <1>0, <1>1 DEF Connecting, Kept, Idle
<1>2. ASSUME NEW o \in Sessions PROVE ~SetupDone(o) /\ ~PageAnswer(o)
    BY <1>0 DEF Idle, SetupDone, PageAnswer
<1>3. CASE Connects(s)
    <2>1. /\ obj' = [obj EXCEPT ![s] = "up"] /\ host' = [host EXCEPT ![s] = "up"]
          /\ UNCHANGED <<hubVars, pc, hand, asked, cur, built, faults, early>>
        BY <1>3 DEF Connects, envVars
    <2>2. Streaming(s)'
        BY <1>0, <2>1 DEF Streaming, OnTrack, EndsInv
    <2>3. Room(0)' /\ Holds("client")' /\ Idle'
        <3>1. Room(0)'
            BY <1>0, <2>1, DuesStay, RoomStays DEF OnTrack, hubVars
        <3>2. "client" \in Roles
            BY SignalFacts
        <3> QED
            BY <1>0, <2>1, <3>1, <3>2 DEF OnTrack, Online, Serving, Holds, Idle, hubVars
    <2>4. OnlyNotices'
        <3>1. DOMAIN <<>> = {}
            OBVIOUS
        <3> QED
            BY <1>0, <2>1, <3>1 DEF Empty, OnlyNotices, hubVars
    <2> QED
        BY <2>2, <2>3, <2>4 DEF Steady
<1>4. ~Quiescent
    BY <1>0 DEF Quiescent, OnTrack
<1>5. ASSUME NEW o \in Sessions PROVE ~PageOffer(o) /\ ~HostAnswer(o)
    BY <1>0, EmptyIsSilent
<1> QED
    BY <1>0, <1>1, <1>2, <1>3, <1>4, <1>5, EmptyIsSilent, TrackStep DEF OfferStep

(* When all that is left on its way are notices, it stays so.              *)
LEMMA NoticesHub ==
    ASSUME HubInv, OnlyNotices, NEW c \in Conns, HandlerStep(c)
    PROVE  OnlyNotices'
<1> USE DEF HubInv, OnlyNotices
<1>0. DOMAIN <<>> = {}
    OBVIOUS
<1>1. ~ReadMsg(c) /\ ~Forward(c)
    BY DEF ReadMsg, Forward
<1>2. CASE Register(c) \/ Leave(c) \/ LookUp(c)
    BY <1>2 DEF Register, Leave, LookUp, Goes, TypeOK
<1>3. CASE Evict(c)
    <2>1. /\ inbox' = [inbox EXCEPT ![other[c]] = <<>>] /\ UNCHANGED outbox
          /\ handler' = [handler EXCEPT ![c] = "reading"]
        BY <1>3 DEF Evict, CloseNow, Goes
    <2> QED
        BY <1>0, <2>1 DEF TypeOK
<1>4. CASE KeepAlive(c)
    <2>1. /\ inbox' = [inbox EXCEPT ![c] = <<>>] /\ UNCHANGED outbox
          /\ UNCHANGED handler
        BY <1>4 DEF KeepAlive, CloseNow
    <2> QED
        BY <1>0, <2>1 DEF TypeOK
<1>5. CASE Tell(c)
    <2>1. /\ UNCHANGED inbox /\ handler' = [handler EXCEPT ![c] = "done"]
          /\ UNCHANGED outbox \/ outbox' = [outbox EXCEPT ![other[c]] = Append(@, Notice)]
        BY <1>5 DEF Tell, Send, Goes
    <2>2. ASSUME NEW d \in Conns, NEW i \in DOMAIN outbox'[d] PROVE outbox'[d][i] = Notice
        <3>1. CASE outbox'[d] = outbox[d]
            BY <2>2, <3>1
        <3>2. CASE outbox'[d] # outbox[d]
            <4>1. outbox'[d] = Append(outbox[d], Notice) /\ outbox[d] \in Seq(Cargo \cup {Notice})
                BY <2>1, <3>2 DEF TypeOK
            <4>2. i \in 1..(Len(outbox[d]) + 1)
                BY <2>2, <4>1
            <4>3. i \in DOMAIN outbox[d] => outbox[d][i] = Notice
                OBVIOUS
            <4> QED
                BY <4>1, <4>2, <4>3
        <3> QED
            BY <3>1, <3>2
    <2> QED
        BY <2>1, <2>2 DEF TypeOK
<1> QED
    BY <1>1, <1>2, <1>3, <1>4, <1>5 DEF HandlerStep

(* An owner then takes a notice, and leaves notices.                       *)
LEMMA NoticesTaken ==
    ASSUME HubInv, OnlyNotices, NEW q \in Roles, NEW m, Takes(q, m), UNCHANGED <<inbox, handler>>
    PROVE  m = Notice /\ OnlyNotices'
<1> DEFINE w == ws[q]
<1>1. /\ w \in Conns /\ outbox[w] \in Seq(Cargo \cup {Notice}) /\ outbox[w] # <<>>
      /\ Head(outbox[w]) = m /\ outbox' = [outbox EXCEPT ![w] = Tail(outbox[w])]
    BY DEF Takes, HubInv, TypeOK
<1>2. 1 \in DOMAIN outbox[w] /\ m = outbox[w][1]
    BY <1>1
<1>3. ASSUME NEW d \in Conns, NEW i \in DOMAIN outbox'[d] PROVE outbox'[d][i] = Notice
    <2>1. CASE d # w
        BY <1>1, <1>3, <2>1 DEF HubInv, TypeOK, OnlyNotices
    <2>2. CASE d = w
        <3>1. outbox'[d] = Tail(outbox[w])
            BY <1>1, <2>2 DEF HubInv, TypeOK
        <3>2. i + 1 \in DOMAIN outbox[w] /\ outbox'[d][i] = outbox[w][i + 1]
            <4>1. i \in DOMAIN Tail(outbox[w])
                BY <1>3, <3>1
            <4>2. i \in 1..(Len(outbox[w]) - 1) /\ Tail(outbox[w])[i] = outbox[w][i + 1]
                BY <1>1, <4>1
            <4>3. Len(outbox[w]) \in Nat /\ DOMAIN outbox[w] = 1..Len(outbox[w])
                BY <1>1
            <4>4. i + 1 \in 1..Len(outbox[w])
                BY <4>2, <4>3
            <4> QED
                BY <3>1, <4>2, <4>3, <4>4
        <3> QED
            BY <1>1, <3>2 DEF OnlyNotices
    <2> QED
        BY <2>1, <2>2
<1> QED
    BY <1>1, <1>2, <1>3 DEF OnlyNotices

(* An owner that has nothing to say adds nothing.                          *)
LEMMA NoticesDial ==
    ASSUME HubInv, OnlyNotices, NEW r \in Roles, Dial(r, <<>>)
    PROVE  OnlyNotices'
BY DEF HubInv, TypeOK, OnlyNotices, Dial

(* Where a stream is up and all that comes are notices, nobody hears a     *)
(* request, an offer, an answer or an error, and nobody makes one.         *)
LEMMA SettledIsSilent ==
    ASSUME HubInv, NEW s \in Sessions, Settled(s)
    PROVE  /\ ~PageError /\ ~HostReady /\ ~requestOffer
           /\ \A o \in Sessions : /\ ~PageOffer(o) /\ ~HostAnswer(o)
                                  /\ ~SetupDone(o) /\ ~PageAnswer(o)
<1>0. "client" \in Roles /\ "host" \in Roles /\ Idle /\ OnlyNotices /\ mediaHealthy
    BY SignalFacts, SessionFacts DEF Settled, Streaming, mediaHealthy, Idle, OnlyNotices
<1>1. ~PageError /\ \A o \in Sessions : ~PageOffer(o) /\ ~HostAnswer(o)
    BY <1>0, NoticesTaken, MessageFacts DEF PageError, PageOffer, HostAnswer, hubRest
<1>2. ~HostReady
    <2>1. ASSUME NEW m, Takes("host", m) PROVE m = Notice
        <3>1. /\ ws["host"] \in Conns /\ outbox[ws["host"]] \in Seq(Cargo \cup {Notice})
              /\ outbox[ws["host"]] # <<>> /\ Head(outbox[ws["host"]]) = m
            BY <1>0, <2>1 DEF Takes, HubInv, TypeOK
        <3>2. 1 \in DOMAIN outbox[ws["host"]] /\ m = outbox[ws["host"]][1]
            BY <3>1
        <3> QED
            BY <1>0, <3>1, <3>2 DEF OnlyNotices
    <2> QED
        BY <2>1, MessageFacts DEF HostReady
<1> QED
    BY <1>0, <1>1, <1>2 DEF requestOffer, Idle, SetupDone, PageAnswer

(* So it stays: sockets fail, are dialed again, evicted and reported.      *)
LEMMA SettledStep ==
    ASSUME HubInv, EndsInv, [NegNext]_vars, NEW s \in Sessions, Settled(s),
           ~MediaFails(s), ~SourceDies(s)
    PROVE  Settled(s)'
<1>0. /\ "client" \in Roles /\ "host" \in Roles
      /\ Streaming(s) /\ Idle /\ OnlyNotices /\ mediaHealthy
    BY SignalFacts, SessionFacts DEF Settled, Streaming, mediaHealthy, Idle, OnlyNotices
<1>1. Streaming(s)'
    BY <1>0, SettledIsSilent, StreamStep DEF Causes
<1>2. ASSUME UNCHANGED hand, OnlyNotices' PROVE Settled(s)'
    BY <1>0, <1>1, <1>2 DEF Settled, Idle, OnlyNotices
<1>3. ASSUME NEW c \in Conns, HubWorks(c) PROVE Settled(s)'
    BY <1>0, <1>2, <1>3, NoticesHub DEF HubWorks, pageVars
<1>4. ASSUME NEW c \in Conns, SocketFails(c) PROVE Settled(s)'
    <2>1. UNCHANGED <<handler, inbox, outbox, hand>>
        BY <1>4 DEF SocketFails, LinkFails, pageVars
    <2> QED
        BY <1>0, <1>2, <2>1 DEF OnlyNotices
<1>5. ASSUME NEW r \in Roles, OwnerFindsOut(r) PROVE Settled(s)'
    BY <1>0, <1>2, <1>5, NoticesStay DEF OwnerFindsOut, pageVars
<1>6. CASE PageDials \/ HostDials
    <2>1. (Dial("client", <<>>) \/ Dial("host", <<>>)) /\ UNCHANGED hand
        BY <1>0, <1>6 DEF PageDials, HostDials, pageVars
    <2> QED
        BY <1>0, <1>2, <2>1, NoticesDial
<1>7. CASE PageNotice \/ HostNotice
    <2>1. /\ Takes("client", Notice) \/ Takes("host", Notice)
          /\ UNCHANGED <<handler, inbox>> /\ UNCHANGED hand
        BY <1>0, <1>7 DEF PageNotice, HostNotice, hubRest, pageVars
    <2> QED
        BY <1>0, <1>2, <2>1, NoticesTaken
<1>8. CASE \/ UNCHANGED vars \/ ThrottleExpires
           \/ \E o \in Sessions : Connects(o) \/ PageLoses(o) \/ HostLoses(o) \/ MediaFails(o)
    <2>1. UNCHANGED hubVars /\ UNCHANGED hand
        BY <1>8 DEF Connects, PageLoses, HostLoses, MediaFails, ThrottleExpires, vars, pageVars, hostVars
    <2> QED
        BY <1>0, <1>2, <2>1 DEF OnlyNotices, hubVars
<1>9. ASSUME NEW o \in Sessions PROVE ~SourceDies(o)
    BY <1>0 DEF SourceDies, Streaming
<1> QED
    BY <1>3, <1>4, <1>5, <1>6, <1>7, <1>8, <1>9, SettledIsSilent
       DEF NegNext, PageStep, OfferStep, HostStep, MediaStep

(* A stream that has settled ends with its media or its source, and with   *)
(* nothing that becomes of the sockets (index.html:361, 378, 391;          *)
(* server.go:136): no request is sent, so none can reach the host late.    *)
THEOREM SettledStreamStays == NegSpec => SettledStays
<1>1. NegSpec => []HubInv
    BY HubInUse, OpenInvariant, PTL
<1>2. HubInv /\ EndsInv /\ [NegNext]_vars =>
        [\A s \in Sessions : Settled(s) => Settled(s)' \/ MediaFails(s) \/ SourceDies(s)]_vars
    BY SettledStep
<1> QED
    BY <1>1, <1>2, EndsInvariant, PTL DEF NegSpec, SettledStays

(* A stream that both ends have survives everything but a fault.           *)
LEMMA SteadyStep ==
    ASSUME Known, [NegNext]_vars, NEW s \in Sessions, Steady(s)
    PROVE  Steady(s)' \/ Astray'
<1> USE DEF Known
<1>0. /\ "client" \in Roles /\ "host" \in Roles
      /\ 0 \in Int /\ 1 \in Int /\ 0 \in Nat /\ 0 <= 1 /\ -1 \in Int /\ -1 + 1 <= 0
      /\ 0 \in Nat /\ Settled(s) /\ Streaming(s) /\ mediaHealthy
    BY SignalFacts, SessionFacts DEF Steady, Streaming, mediaHealthy, Settled, Idle, OnlyNotices
<1>1. Room(0) /\ (~Holds("client") => Room(1))
    BY <1>0, RoomIsLess DEF Steady
<1>2. CASE \E o \in Sessions : MediaFails(o) \/ SourceDies(o)
    BY <1>0, <1>1, <1>2, FaultStep
<1>3. CASE ThrottleExpires /\ ~Quiescent
    BY <1>0, <1>1, <1>3, FaultStep
<1>4. ASSUME NEW c \in Conns, SocketFails(c) PROVE Astray'
    BY <1>0, <1>1, <1>4, SocketStep
<1>5. CASE /\ ~\E o \in Sessions : MediaFails(o) \/ SourceDies(o)
           /\ ~(ThrottleExpires /\ ~Quiescent)
           /\ ~\E c \in Conns : SocketFails(c)
    <2>1. Streaming(s)' /\ Idle' /\ OnlyNotices'
        BY <1>0, <1>5, SettledStep DEF Settled, Idle, OnlyNotices
    <2>2. ASSUME Grows(0), UNCHANGED <<built, faults, early>>, Holds("client")' \/ ~Holds("client")
          PROVE  Steady(s)'
        <3>1. Room(0)' /\ (~Holds("client") => Room(1)')
            BY <1>0, <1>1, <2>2, RoomStays
        <3> QED
            BY <2>1, <2>2, <3>1 DEF Steady
    <2>3. ASSUME NEW c \in Conns, HubWorks(c) PROVE Steady(s)'
        <3>1. HandlerStep(c) /\ UNCHANGED <<built, faults, early>>
            BY <2>3 DEF HubWorks, hostVars, envVars
        <3>2. /\ Grows(0) /\ (Evict(c) /\ Late(c) => Grows(-1))
              /\ Holds("client") => Holds("client")' \/ (Evict(c) /\ Late(c))
            BY <1>0, <3>1, DuesHub, HoldsHub
        <3>3. CASE Holds("client")' \/ ~Holds("client")
            BY <2>2, <3>1, <3>2, <3>3
        <3>4. CASE ~Holds("client")' /\ Evict(c) /\ Late(c)
            <4>1. Room(1)'
                BY <1>0, <1>1, <3>1, <3>2, <3>4, RoomKeeps
            <4> QED
                BY <2>1, <3>4, <4>1 DEF Steady
        <3> QED
            BY <3>2, <3>3, <3>4
    <2>4. ASSUME NEW r \in Roles, OwnerFindsOut(r) PROVE Steady(s)'
        BY <1>0, <2>2, <2>4, DuesNotices, NoticesStay DEF OwnerFindsOut, hostVars, envVars
    <2>5. CASE PageDials \/ HostDials
        <3>1. /\ Dial("client", <<>>) \/ Dial("host", <<>>)
              /\ UNCHANGED <<built, faults, early>>
            BY <1>0, <2>5 DEF PageDials, HostDials, hostVars, envVars
        <3>2. <<>> \in {<<>>, <<Ready>>} /\ "client" \in Roles \ {"host"}
            BY <1>0
        <3> QED
            BY <1>0, <2>2, <3>1, <3>2, DuesDial, DialHolds
    <2>6. CASE PageNotice \/ HostNotice
        <3>1. /\ Takes("client", Notice) \/ Takes("host", Notice)
              /\ UNCHANGED <<handler, other, msg, link, ws, inbox>>
              /\ UNCHANGED <<built, faults, early>>
            BY <2>6 DEF PageNotice, HostNotice, hubRest, hostVars, envVars
        <3>2. Grows(0) /\ (Holds("client")' <=> Holds("client"))
            BY <1>0, <3>1, DuesTake DEF HubInv, Holds
        <3> QED
            BY <2>2, <3>1, <3>2
    <2>7. CASE \/ UNCHANGED vars \/ (ThrottleExpires /\ Quiescent)
               \/ \E o \in Sessions : Connects(o) \/ PageLoses(o) \/ HostLoses(o)
        <3>1. UNCHANGED hubVars /\ UNCHANGED <<built, faults, early>>
            BY <2>7 DEF Connects, PageLoses, HostLoses, ThrottleExpires, vars, hostVars, envVars
        <3>2. Grows(0) /\ (Holds("client")' <=> Holds("client"))
            BY <3>1, DuesStay DEF Holds, hubVars
        <3> QED
            BY <2>2, <3>1, <3>2
    <2> QED
        BY <1>0, <1>5, <2>3, <2>4, <2>5, <2>6, <2>7, SettledIsSilent
           DEF NegNext, PageStep, OfferStep, HostStep, MediaStep
<1> QED
    BY <1>2, <1>3, <1>4, <1>5

-----------------------------------------------------------------------------
(* Every state is in one of the stages, and in each there is room.         *)
LEMMA StageInit == NegInit => Stage
<1> SUFFICES ASSUME NegInit PROVE Quiet
    BY DEF Stage
<1>1. Calm /\ Empty /\ Idle
    BY DEF NegInit, Init, Calm, Empty, Idle
<1>2. Dues = {}
    BY <1>1, NothingIsDue
<1>3. IsFiniteSet(Dues) /\ Cardinality(Dues) = 0
    BY <1>2, FS_EmptySet
<1> QED
    BY <1>1, <1>3 DEF NegInit, Quiet, Room

LEMMA StageStep == Known /\ Stage /\ [NegNext]_vars => Stage'
<1> SUFFICES ASSUME Known, Stage, [NegNext]_vars PROVE Stage'
    OBVIOUS
<1>1. CASE Quiet
    BY <1>1, QuietStep DEF Stage
<1>2. CASE Asking
    BY <1>2, AskingStep DEF Stage, OnItsWay
<1>3. CASE Astray
    BY <1>3, AstrayStep DEF Stage
<1>4. ASSUME NEW s \in Sessions, OnItsWay(s) PROVE Stage'
    <2>1. OnItsWay(s)' \/ Astray'
        BY <1>4, OfferingStep, PreparingStep, AnsweringStep, AnsweredStep, ConnectingStep,
           SteadyStep DEF OnItsWay
    <2> QED
        BY <2>1 DEF Stage
<1> QED
    BY <1>1, <1>2, <1>3, <1>4 DEF Stage

LEMMA StageHasRoom ==
    ASSUME Stage
    PROVE  \E n \in Nat : Room(n)
<1>1. 0 \in Nat /\ 1 \in Nat /\ 2 \in Nat
    OBVIOUS
<1> QED
    BY <1>1 DEF Stage, Quiet, Asking, Astray, OnItsWay, Offering, Preparing, Answering,
                Answered, Connecting, Steady, OnTrack

LEMMA StageCounts == Counts /\ Stage => FewRebuilds
<1> SUFFICES ASSUME Counts, Stage PROVE FewRebuilds
    OBVIOUS
<1>1. PICK n \in Nat : Room(n)
    BY StageHasRoom
<1>2. IsFiniteSet(Dues) /\ Cardinality(Dues) \in Nat
    BY <1>1, FS_CardinalityType DEF Room
<1> QED
    BY <1>1, <1>2 DEF Room, Counts, FewRebuilds

LEMMA StageInvariant == NegSpec => [](Counts /\ Stage)
<1>1. NegSpec => []HubInv
    BY HubInUse, OpenInvariant, PTL
<1>2. NegTypeOK => Counts
    BY NegotiationAssumption DEF NegTypeOK, Counts
<1>3. HubInv /\ EndsInv /\ Counts => Known
    BY DEF Known
<1> QED
    BY <1>1, <1>2, <1>3, NegTypes, EndsInvariant, StageInit, StageStep, PTL DEF NegSpec

(* Each fault costs at most three more sessions, each request repeated too *)
(* early two, whatever drops, is evicted, is lost or crosses on the way    *)
(* (index.html:384).                                                       *)
THEOREM RebuildsAreFew == NegSpec => []FewRebuilds
BY StageInvariant, StageCounts, PTL

(* The bound on sessions is none: where it leaves three for each trouble   *)
(* and one for the first, a request that has reached the host is never     *)
(* refused for it.                                                         *)
NoneRefused ==
    \A c \in HostConns : outbox[c] # <<>> /\ Head(outbox[c]) = Ready => built < MaxSession

THEOREM BoundIsEnough ==
    ASSUME MaxSession >= 1 + 3 * MaxTrouble
    PROVE  NegSpec => []NoneRefused
<1>1. NegTypeOK /\ Counts /\ Stage => NoneRefused
    <2> SUFFICES ASSUME NegTypeOK, Counts, Stage, NEW c \in HostConns,
                        outbox[c] # <<>>, Head(outbox[c]) = Ready
                 PROVE  built < MaxSession
        BY DEF NoneRefused
    <2>1. PICK n \in Nat : Room(n)
        BY StageHasRoom
    <2>2. <<"outbox", c, 1>> \in Dues
        <3>1. c \in Conns /\ outbox[c] \in Seq(Cargo \cup {Notice})
            BY DEF NegTypeOK, TypeOK, Conns
        <3>2. 1 \in DOMAIN outbox[c] /\ outbox[c][1] = Ready
            BY <3>1
        <3> QED
            BY <3>1, <3>2, DueMember DEF Due, Places
    <2>3. IsFiniteSet(Dues) /\ Cardinality(Dues) \in Nat /\ Cardinality(Dues) # 0
        BY <2>1, <2>2, FS_CardinalityType, FS_EmptySet DEF Room
    <2>4. PICK b \in Nat, f \in Nat, e \in Nat, d \in Nat :
              b = built /\ f = faults /\ e = early /\ d = Cardinality(Dues)
        BY <2>3 DEF Counts
    <2>5. d # 0 /\ b + d + n <= 1 + 3 * f + 2 * e
        BY <2>1, <2>3, <2>4 DEF Room
    <2>6. f + e <= MaxTrouble /\ MaxTrouble \in Nat /\ MaxSession \in Nat
        BY <2>4, NegotiationAssumption DEF NegTypeOK
    <2>7. b < MaxSession
        BY <2>5, <2>6
    <2> QED
        BY <2>4, <2>7
<1> QED
    BY <1>1, NegTypes, StageInvariant, PTL
=============================================================================
