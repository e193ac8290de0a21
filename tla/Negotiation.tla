---------------------------- MODULE Negotiation ----------------------------
(***************************************************************************)
(* The page (web/index.html: setup, onSignal, requestOffer, connectWS) and *)
(* the host's signaling loop (internal/host/host.go, reduced to what       *)
(* HostSession shows of it), talking through the Hub.  A session has the   *)
(* number of the offer the host makes for it; the page's peer connection   *)
(* for that offer has the same number.                                     *)
(***************************************************************************)
EXTENDS Hub

CONSTANTS MaxSession,  \* bound: sessions the host builds
          MaxTrouble   \* bound: drops, media failures and deaths of the source,
                       \* and requests repeated while something is under way

ASSUME NegotiationAssumption ==
    MaxSession \in Nat \ {0} /\ MaxTrouble \in Nat

Sessions == 1..MaxSession
None == 0
Ready == [type |-> "ready", s |-> None]
Error == [type |-> "error", s |-> None]
Offer(s) == [type |-> "offer", s |-> s]
Answer(s) == [type |-> "answer", s |-> s]
(* What the two sides send, and the hub carries.                           *)
Signals == {Ready, Error} \cup {Offer(s) : s \in Sessions} \cup {Answer(s) : s \in Sessions}
ASSUME CargoAssumption == Signals \subseteq Cargo

VARIABLES
    \* the page
    pc,     \* the global peer connection, by its session
    obj,    \* the peer connections it has made
    hand,   \* the offer handlers, which await in the middle
    asked,  \* it has sent "ready" less than 9 s ago on this socket
    \* the host
    cur,    \* sessionHolder.sess
    built,  \* how many sessions it has built
    host,   \* its side of each session
    via,    \* the connection a session was requested on
    \* the environment
    faults, early

pageVars == <<pc, obj, hand, asked>>
hostVars == <<cur, built, host, via>>
envVars == <<faults, early>>
vars == <<hubVars, pageVars, hostVars, envVars>>
hubRest == <<peers, handler, other, msg, link, ws>>

NegTypeOK ==
    /\ TypeOK
    /\ pc \in 0..MaxSession /\ cur \in 0..MaxSession /\ built \in 0..MaxSession
    /\ obj \in [Sessions -> {"none", "new", "local", "up", "broken", "closed"}]
    /\ hand \in [Sessions -> {"none", "setup", "voided", "answering", "done"}]
    /\ host \in [Sessions -> {"none", "offered", "answered", "stale", "up", "ended"}]
    /\ via \in [Sessions -> Conns \cup {NoConn}]
    /\ asked \in BOOLEAN /\ faults \in Nat /\ early \in Nat
    /\ faults + early <= MaxTrouble

NegInit ==
    /\ Init
    /\ pc = None /\ asked = FALSE /\ cur = None /\ built = 0
    /\ obj = [s \in Sessions |-> "none"] /\ hand = [s \in Sessions |-> "none"]
    /\ host = [s \in Sessions |-> "none"] /\ via = [s \in Sessions |-> NoConn]
    /\ faults = 0 /\ early = 0

-----------------------------------------------------------------------------
mediaHealthy == pc # None /\ obj[pc] = "up"

(* Both ends agree that session s streams, and the page shows it.          *)
Streaming(s) == pc = s /\ cur = s /\ obj[s] = "up" /\ host[s] = "up"

(* Owner r takes message m off its socket.                                 *)
Takes(r, m) ==
    /\ ws[r] # NoConn /\ outbox[ws[r]] # <<>> /\ Head(outbox[ws[r]]) = m
    /\ outbox' = [outbox EXCEPT ![ws[r]] = Tail(@)]

(* closePC, in a step that leaves the other peer connections alone.        *)
closePC ==
    /\ pc' = None
    /\ obj' = IF pc = None THEN obj ELSE [obj EXCEPT ![pc] = "closed"]

(* epoch++: a handler still in setup finds out when it goes on.            *)
NewEpoch(h) == [s \in Sessions |-> IF h[s] = "setup" THEN "voided" ELSE h[s]]

Trouble == faults + early < MaxTrouble
Fault == Trouble /\ faults' = faults + 1 /\ UNCHANGED early

(* Nothing is under way that could still make the picture come.            *)
Quiescent ==
    /\ \A c \in Conns : /\ inbox[c] = <<>> /\ outbox[c] = <<>>
                        /\ handler[c] \in {"none", "reading", "done"}
                        /\ (handler[c] = "reading" => link[c] = "up" /\ peers[RoleOf(c)] = c)
    /\ \A r \in Roles : ws[r] # NoConn
    /\ \A s \in Sessions : /\ hand[s] \in {"none", "done"}
                           /\ ~(obj[s] = "local" /\ host[s] = "answered")

-----------------------------------------------------------------------------
(* Mutant: a fresh socket asks, whether the picture is there or not.       *)
DialAsks ==
    /\ Dial("client", <<Ready>>)
    /\ asked' = TRUE
    /\ UNCHANGED <<pc, obj, hand, hostVars, envVars>>

(* connectWS and its onopen: a fresh socket asks at once, unless the       *)
(* picture is there.                                                       *)
PageDials ==
    /\ Dial("client", IF mediaHealthy THEN <<>> ELSE <<Ready>>)
    /\ asked' = ~mediaHealthy
    /\ UNCHANGED <<pc, obj, hand, hostVars, envVars>>

(* Mutant: the page asks whenever its timer ticks.                         *)
RequestUnthrottled ==
    /\ ws["client"] # NoConn /\ ~mediaHealthy /\ built < MaxSession
    /\ Len(inbox[ws["client"]]) < 2
    /\ OwnerSends("client", Ready)
    /\ asked' = TRUE
    /\ UNCHANGED <<hubRest, outbox, pc, obj, hand, hostVars, envVars>>

(* Mutant: the timer asks for another picture where there is one.          *)
RequestAnyway ==
    /\ ws["client"] # NoConn /\ ~asked
    /\ OwnerSends("client", Ready)
    /\ asked' = TRUE
    /\ UNCHANGED <<hubRest, outbox, pc, obj, hand, hostVars, envVars>>

(* Mutant: the timer does not ask, only a fresh socket does.               *)
RequestOnlyOnOpen ==
    /\ ws["client"] # NoConn /\ ~mediaHealthy /\ ~asked
    /\ asked' = TRUE
    /\ UNCHANGED <<hubVars, pc, obj, hand, hostVars, envVars>>

(* Every 3 s: a page that has no picture asks, unless it has just asked.   *)
requestOffer ==
    /\ ws["client"] # NoConn /\ ~mediaHealthy /\ ~asked
    /\ OwnerSends("client", Ready)
    /\ asked' = TRUE
    /\ UNCHANGED <<hubRest, outbox, pc, obj, hand, hostVars, envVars>>

(* Nine seconds have passed since the last request.                        *)
ThrottleExpires ==
    /\ asked /\ asked' = FALSE
    /\ IF Quiescent THEN UNCHANGED early ELSE Trouble /\ early' = early + 1
    /\ UNCHANGED <<hubVars, pc, obj, hand, hostVars, faults>>

(* onSignal, offer, up to its first await: what was there is closed.       *)
PageOffer(s) ==
    /\ Takes("client", Offer(s))
    /\ closePC
    /\ hand' = [hand EXCEPT ![s] = "setup"]
    /\ UNCHANGED <<hubRest, inbox, asked, hostVars, envVars>>

(* setup() has fetched the ICE servers and puts its new peer connection in *)
(* pc, whatever another handler has put there; if the epoch has changed    *)
(* meanwhile, the new one is closed again.                                 *)
SetupDone(s) ==
    /\ hand[s] \in {"setup", "voided"}
    /\ IF hand[s] = "setup"
       THEN /\ pc' = s /\ obj' = [obj EXCEPT ![s] = "new"]
            /\ hand' = [hand EXCEPT ![s] = "answering"]
       ELSE /\ pc' = None /\ obj' = [obj EXCEPT ![s] = "closed"]
            /\ hand' = [hand EXCEPT ![s] = "done"]
    /\ UNCHANGED <<hubVars, asked, hostVars, envVars>>

(* The rest of the handler, which answers with the peer connection it then *)
(* finds in pc: usually its own.  If its own has been closed, pc is empty, *)
(* or pc has been answered for, an await rejects and the handler dies.     *)
PageAnswer(s) ==
    /\ hand[s] = "answering"
    /\ hand' = [hand EXCEPT ![s] = "done"]
    /\ \/ /\ obj[s] = "new" /\ pc # None /\ obj[pc] = "new"
          /\ obj' = [obj EXCEPT ![pc] = "local"]
          /\ OwnerSends("client", Answer(pc))
       \/ /\ ~(obj[s] = "new" /\ pc = s)
          /\ UNCHANGED <<obj, inbox>>
    /\ UNCHANGED <<hubRest, outbox, pc, asked, hostVars, envVars>>

PageError ==
    /\ Takes("client", Error)
    /\ closePC
    /\ hand' = NewEpoch(hand)
    /\ UNCHANGED <<hubRest, inbox, asked, hostVars, envVars>>

(* Mutant: the host's signaling is taken for the stream.                   *)
PageNoticeCloses ==
    /\ Takes("client", Notice)
    /\ closePC
    /\ hand' = NewEpoch(hand)
    /\ UNCHANGED <<hubRest, inbox, asked, hostVars, envVars>>

(* peer-disconnected: a healthy stream is kept.                            *)
PageNotice ==
    /\ Takes("client", Notice)
    /\ IF mediaHealthy THEN UNCHANGED <<pc, obj, hand>>
                       ELSE closePC /\ hand' = NewEpoch(hand)
    /\ UNCHANGED <<hubRest, inbox, asked, hostVars, envVars>>

-----------------------------------------------------------------------------
HostDials == Dial("host", <<>>) /\ UNCHANGED <<pageVars, hostVars, envVars>>

(* ready: the current session ends, the next is built, its offer goes out  *)
(* on the same socket; where that fails the new session ends too.          *)
HostReady ==
    LET s == built + 1
        c == ws["host"]
        ended == IF cur = None THEN host ELSE [host EXCEPT ![cur] = "ended"] IN
    /\ built < MaxSession
    /\ Takes("host", Ready)
    /\ built' = s
    /\ via' = [via EXCEPT ![s] = c]
    /\ OwnerSends("host", Offer(s))
    /\ IF link[c] = "down" THEN cur' = None /\ host' = [ended EXCEPT ![s] = "ended"]
                           ELSE cur' = s /\ host' = [ended EXCEPT ![s] = "offered"]
    /\ UNCHANGED <<hubRest, pageVars, envVars>>

(* answer: it is applied to the current session, whichever it is meant for;*)
(* a session that has one already refuses it.                              *)
HostAnswer(a) ==
    /\ Takes("host", Answer(a))
    /\ host' = IF cur # None /\ host[cur] = "offered"
               THEN [host EXCEPT ![cur] = IF a = cur THEN "answered" ELSE "stale"]
               ELSE host
    /\ UNCHANGED <<hubRest, inbox, cur, built, via, pageVars, envVars>>

(* peer-disconnected: the page's signaling says nothing about the stream.  *)
HostNotice ==
    /\ Takes("host", Notice)
    /\ UNCHANGED <<hubRest, inbox, hostVars, pageVars, envVars>>

-----------------------------------------------------------------------------
(* The media path of session s, between the two peer connections.          *)
Connects(s) ==
    /\ obj[s] = "local" /\ host[s] = "answered"
    /\ obj' = [obj EXCEPT ![s] = "up"]
    /\ host' = [host EXCEPT ![s] = "up"]
    /\ UNCHANGED <<hubVars, pc, hand, asked, cur, built, via, envVars>>

MediaFails(s) ==
    /\ obj[s] \in {"local", "up"} /\ host[s] \in {"answered", "up"} /\ Fault
    /\ obj' = [obj EXCEPT ![s] = "broken"]
    /\ UNCHANGED <<hubVars, pc, hand, asked, hostVars>>

(* Each end finds out by itself that the other has gone.                   *)
PageLoses(s) ==
    /\ obj[s] \in {"local", "up"} /\ host[s] = "ended"
    /\ obj' = [obj EXCEPT ![s] = "broken"]
    /\ UNCHANGED <<hubVars, pc, hand, asked, hostVars, envVars>>

HostLoses(s) ==
    /\ \/ host[s] \in {"answered", "up"} /\ obj[s] \in {"broken", "closed"}
       \/ host[s] = "stale"
    /\ host' = [host EXCEPT ![s] = "ended"]
    /\ cur' = IF cur = s THEN None ELSE cur
    /\ UNCHANGED <<hubVars, pageVars, built, via, envVars>>

(* The source dies under a live session: the page is told on the socket    *)
(* the session was requested on, if that is still there, and it ends.      *)
SourceDies(s) ==
    /\ host[s] = "up" /\ cur = s /\ Fault
    /\ host' = [host EXCEPT ![s] = "ended"] /\ cur' = None
    /\ IF ws["host"] = via[s] THEN OwnerSends("host", Error) ELSE UNCHANGED inbox
    /\ UNCHANGED <<hubRest, outbox, pageVars, built, via>>

HubWorks(c) == HandlerStep(c) /\ UNCHANGED <<pageVars, hostVars, envVars>>
OwnerFindsOut(r) == OwnerNotices(r) /\ UNCHANGED <<pageVars, hostVars, envVars>>
SocketFails(c) == LinkFails(c) /\ Fault /\ UNCHANGED <<pageVars, hostVars>>

PageStep == PageDials \/ requestOffer \/ PageError \/ PageNotice
OfferStep(s) == PageOffer(s) \/ SetupDone(s) \/ PageAnswer(s)
HostStep == HostDials \/ HostReady \/ HostNotice \/ \E a \in Sessions : HostAnswer(a)
MediaStep(s) == Connects(s) \/ PageLoses(s) \/ HostLoses(s)

NegNext ==
    \/ \E c \in Conns : HubWorks(c) \/ SocketFails(c)
    \/ \E r \in Roles : OwnerFindsOut(r)
    \/ \E s \in Sessions : OfferStep(s) \/ MediaStep(s) \/ MediaFails(s) \/ SourceDies(s)
    \/ PageStep \/ ThrottleExpires \/ HostStep

NegSpec == NegInit /\ [][NegNext]_vars
NegFairSpec ==
    /\ NegSpec
    /\ \A c \in Conns : WF_vars(HubWorks(c))
    /\ \A r \in Roles : WF_vars(OwnerFindsOut(r))
    /\ \A s \in Sessions : WF_vars(OfferStep(s)) /\ WF_vars(MediaStep(s))
    /\ WF_vars(PageStep) /\ WF_vars(ThrottleExpires) /\ WF_vars(HostStep)

-----------------------------------------------------------------------------
(* The stream of session s is up, and nothing is on its way but notices:   *)
(* no request, no answer, no handler of an earlier offer.                  *)
Settled(s) ==
    /\ Streaming(s)
    /\ \A x \in Sessions : hand[x] \in {"none", "done"}
    /\ \A c \in Conns : /\ inbox[c] = <<>> /\ handler[c] # "sending"
                        /\ \A i \in DOMAIN outbox[c] : outbox[c][i] = Notice

(* A stream that has settled stays so: whatever becomes of the sockets on  *)
(* either side, and however often they are dialed again, evicted, reported *)
(* and timed, no request goes out and nothing but its media or its source  *)
(* ends it (index.html:361, 378, 391; server.go:136).                      *)
SettledStays ==
    [][\A s \in Sessions : Settled(s) => Settled(s)' \/ MediaFails(s) \/ SourceDies(s)]_vars

(* Requests do not multiply: a failure costs at most three more sessions,  *)
(* a request repeated too early two (index.html:384).                      *)
FewRebuilds == built <= 1 + 3 * faults + 2 * early

(* Whatever fails, once failures stop there is a picture again and it      *)
(* stays (index.html:376, the retry loop).                                 *)
PictureReturns == <>[](\E s \in Sessions : Streaming(s))
=============================================================================
