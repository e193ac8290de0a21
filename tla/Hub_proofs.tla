----------------------------- MODULE Hub_proofs -----------------------------
(***************************************************************************)
(* Proofs about the hub: for every set of connections of the two owners, a *)
(* role is only ever in the hands of a connection that is served and whose *)
(* departure will free it, two connections of a role are never both left   *)
(* open, and nobody gives a role away but its holder and its successor.    *)
(* They are proofs about the hub alone, whatever its owners do with their  *)
(* connections (OpenSpec), so that they hold wherever the hub is used.     *)
(***************************************************************************)
EXTENDS Hub, TLAPS

(* What the owner of a role may do to its connection: write to it, take    *)
(* what has arrived on it, or both in one step.                            *)
Traffic(r) ==
    /\ UNCHANGED <<peers, handler, other, msg, link, ws>>
    /\ UNCHANGED inbox \/ \E m \in Cargo : OwnerSends(r, m)
    /\ \/ UNCHANGED outbox
       \/ /\ ws[r] # NoConn /\ outbox[ws[r]] # <<>>
          /\ outbox' = [outbox EXCEPT ![ws[r]] = Tail(@)]

(* The hub with owners of which nothing is known: they dial with anything  *)
(* to say first, and talk and listen as they like.                         *)
OpenNext ==
    \/ \E c \in Conns : HandlerStep(c) \/ LinkFails(c)
    \/ \E r \in Roles : OwnerNotices(r) \/ Traffic(r) \/ \E hello \in Seq(Cargo) : Dial(r, hello)
OpenSpec == Init /\ [][OpenNext]_hubVars

(* What a handler holds between two of its steps.                          *)
HeldInv ==
    \A c \in Conns :
        /\ handler[c] \in Holding => other[c] \in Conns
        /\ handler[c] = "sending" => msg[c] \in Cargo

(* A connection exists when its handler does.                              *)
LinkedInv == \A c \in Conns : link[c] = "none" => handler[c] = "none"

(* An open connection is the one its owner holds, one that was never open  *)
(* carries nothing, and an owner holds one that it has dialed.             *)
OwnedInv ==
    /\ \A c \in Conns : /\ link[c] = "up" => ws[RoleOf(c)] = c
                        /\ link[c] = "none" => inbox[c] = <<>> /\ outbox[c] = <<>>
    /\ \A r \in Roles : ws[r] # NoConn => RoleOf(ws[r]) = r /\ link[ws[r]] # "none"

(* Who is about to be evicted is another connection of the same owner, and *)
(* one that has been served.                                               *)
DisplacedInv ==
    \A c \in Conns : handler[c] = "evicting" =>
        /\ other[c] # c /\ RoleOf(other[c]) = RoleOf(c)
        /\ handler[other[c]] \notin {"none", "accepted"}

HubInv ==
    /\ TypeOK /\ HeldInv /\ LinkedInv /\ OwnedInv /\ DisplacedInv
    /\ HolderServed /\ OneServed

(* Roles and connections.                                                  *)
LEMMA RoleFacts ==
    /\ \A c \in Conns : RoleOf(c) \in Roles /\ c # NoConn
    /\ \A r \in Roles : otherRole(r) \in Roles /\ otherRole(r) # r
BY HubAssumption DEF Conns, RoleOf, Roles, otherRole, NoConn

(* Closing a connection keeps its queues what they are.                    *)
LEMMA CloseTypes ==
    ASSUME TypeOK, NEW c \in Conns, CloseNow(c)
    PROVE  /\ link' \in [Conns -> {"none", "up", "cut", "down"}]
           /\ inbox' \in [Conns -> Seq(Cargo)]
BY DEF CloseNow, TypeOK

(* A write adds to a queue, or nothing.                                    *)
LEMMA SendTypes ==
    ASSUME TypeOK, NEW c \in Conns, NEW m \in Cargo \cup {Notice}, Send(c, m)
    PROVE  outbox' \in [Conns -> Seq(Cargo \cup {Notice})]
BY DEF Send, TypeOK

(* A handler goes on.                                                      *)
LEMMA GoesTypes ==
    ASSUME TypeOK, NEW c \in Conns, NEW next \in HandlerStates,
           NEW p \in Conns \cup {NoConn}, NEW m \in Cargo \cup {NoMsg}, Goes(c, next, p, m)
    PROVE  /\ handler' \in [Conns -> HandlerStates]
           /\ other' \in [Conns -> Conns \cup {NoConn}]
           /\ msg' \in [Conns -> Cargo \cup {NoMsg}]
BY DEF Goes, TypeOK

(* Nobody is connected at the start.                                       *)
LEMMA HubInit == Init => HubInv
<1> SUFFICES ASSUME Init PROVE HubInv
    OBVIOUS
<1> USE HubAssumption DEF Init
<1>1. TypeOK
    BY DEF TypeOK, HandlerStates
<1>2. HeldInv /\ LinkedInv
    BY DEF HeldInv, LinkedInv, Holding
<1>3. HolderServed /\ OneServed /\ OwnedInv /\ DisplacedInv
    BY DEF HolderServed, OneServed, OwnedInv, DisplacedInv
<1> QED
    BY <1>1, <1>2, <1>3 DEF HubInv

(* What an owner writes and takes leaves the queues what they are.         *)
LEMMA TrafficTypes ==
    ASSUME TypeOK, NEW r \in Roles, Traffic(r)
    PROVE  /\ inbox' \in [Conns -> Seq(Cargo)]
           /\ outbox' \in [Conns -> Seq(Cargo \cup {Notice})]
<1>1. inbox' \in [Conns -> Seq(Cargo)]
    <2>1. CASE UNCHANGED inbox
        BY <2>1 DEF TypeOK
    <2>2. ASSUME NEW m \in Cargo, OwnerSends(r, m), ws[r] # NoConn PROVE inbox' \in [Conns -> Seq(Cargo)]
        <3>1. ws[r] \in Conns /\ inbox[ws[r]] \in Seq(Cargo)
            BY <2>2 DEF TypeOK
        <3>2. Append(inbox[ws[r]], m) \in Seq(Cargo)
            BY <3>1
        <3> QED
            BY <2>2, <3>1, <3>2 DEF OwnerSends, TypeOK
    <2>3. (\E m \in Cargo : OwnerSends(r, m)) /\ ws[r] = NoConn => UNCHANGED inbox
        BY DEF OwnerSends
    <2> QED
        BY <2>1, <2>2, <2>3 DEF Traffic
<1>2. outbox' \in [Conns -> Seq(Cargo \cup {Notice})]
    <2>1. CASE UNCHANGED outbox
        BY <2>1 DEF TypeOK
    <2>2. CASE /\ ws[r] # NoConn /\ outbox[ws[r]] # <<>>
               /\ outbox' = [outbox EXCEPT ![ws[r]] = Tail(@)]
        <3>1. ws[r] \in Conns /\ outbox[ws[r]] \in Seq(Cargo \cup {Notice})
            BY <2>2 DEF TypeOK
        <3>2. Tail(outbox[ws[r]]) \in Seq(Cargo \cup {Notice})
            BY <2>2, <3>1
        <3> QED
            BY <2>2, <3>1, <3>2 DEF TypeOK
    <2> QED
        BY <2>1, <2>2 DEF Traffic
<1> QED
    BY <1>1, <1>2

(* Type correctness: what a handler forwards is always a message its own   *)
(* connection has brought.                                                 *)
LEMMA HubTypeStep == TypeOK /\ HeldInv /\ [OpenNext]_hubVars => TypeOK'
<1> SUFFICES ASSUME TypeOK, HeldInv, [OpenNext]_hubVars PROVE TypeOK'
    OBVIOUS
<1> USE RoleFacts
<1>1. ASSUME NEW c \in Conns, Register(c) PROVE TypeOK'
    <2>1. PICK next \in HandlerStates, p \in Conns \cup {NoConn} : Goes(c, next, p, NoMsg)
        BY <1>1 DEF Register, TypeOK, HandlerStates
    <2> QED
        BY <1>1, <2>1, GoesTypes DEF Register, TypeOK
<1>2. ASSUME NEW c \in Conns, Evict(c) PROVE TypeOK'
    <2>1. other[c] \in Conns
        BY <1>2 DEF Evict, HeldInv, Holding
    <2>2. /\ CloseNow(other[c]) /\ Goes(c, "reading", NoConn, NoMsg)
          /\ UNCHANGED <<peers, outbox, ws>>
        BY <1>2 DEF Evict
    <2>3. "reading" \in HandlerStates
        BY DEF HandlerStates
    <2> QED
        BY <2>1, <2>2, <2>3, GoesTypes, CloseTypes DEF TypeOK
<1>3. ASSUME NEW c \in Conns, ReadMsg(c) PROVE TypeOK'
    <2>1. inbox' \in [Conns -> Seq(Cargo)] /\ Head(inbox[c]) \in Cargo
        BY <1>3 DEF ReadMsg, TypeOK
    <2>2. peers[otherRole(RoleOf(c))] \in Conns \cup {NoConn}
        BY DEF TypeOK
    <2>3. \/ UNCHANGED <<handler, other, msg>>
          \/ Goes(c, "sending", peers[otherRole(RoleOf(c))], Head(inbox[c]))
        BY <1>3 DEF ReadMsg
    <2>4. "sending" \in HandlerStates
        BY DEF HandlerStates
    <2>5. UNCHANGED <<peers, link, outbox, ws>>
        BY <1>3 DEF ReadMsg
    <2> QED
        BY <2>1, <2>2, <2>3, <2>4, <2>5, GoesTypes DEF TypeOK
<1>4. ASSUME NEW c \in Conns, Forward(c) PROVE TypeOK'
    <2>1. other[c] \in Conns /\ msg[c] \in Cargo \cup {Notice}
        BY <1>4 DEF Forward, HeldInv, Holding
    <2>2. "reading" \in HandlerStates
        BY DEF HandlerStates
    <2>3. Send(other[c], msg[c]) /\ Goes(c, "reading", NoConn, NoMsg)
          /\ UNCHANGED <<peers, link, inbox, ws>>
        BY <1>4 DEF Forward
    <2> QED
        BY <2>1, <2>2, <2>3, GoesTypes, SendTypes DEF TypeOK
<1>5. ASSUME NEW c \in Conns, Leave(c) PROVE TypeOK'
    <2>1. PICK next \in HandlerStates : Goes(c, next, NoConn, NoMsg)
        BY <1>5 DEF Leave, HandlerStates
    <2>2. inbox' \in [Conns -> Seq(Cargo)]
        BY <1>5 DEF Leave, TypeOK
    <2>3. peers' \in [Roles -> Conns \cup {NoConn}]
        BY <1>5 DEF Leave, TypeOK
    <2>4. UNCHANGED <<link, outbox, ws>>
        BY <1>5 DEF Leave
    <2> QED
        BY <2>1, <2>2, <2>3, <2>4, GoesTypes DEF TypeOK
<1>6. ASSUME NEW c \in Conns, LookUp(c) PROVE TypeOK'
    <2>1. PICK next \in HandlerStates, p \in Conns \cup {NoConn} : Goes(c, next, p, NoMsg)
        BY <1>6 DEF LookUp, TypeOK, HandlerStates
    <2> QED
        BY <1>6, <2>1, GoesTypes DEF LookUp, TypeOK
<1>7. ASSUME NEW c \in Conns, Tell(c) PROVE TypeOK'
    <2>1. other[c] \in Conns
        BY <1>7 DEF Tell, HeldInv, Holding
    <2>2. "done" \in HandlerStates
        BY DEF HandlerStates
    <2>3. Send(other[c], Notice) /\ Goes(c, "done", NoConn, NoMsg)
          /\ UNCHANGED <<peers, link, inbox, ws>>
        BY <1>7 DEF Tell
    <2> QED
        BY <2>1, <2>2, <2>3, GoesTypes, SendTypes DEF TypeOK
<1>8. ASSUME NEW c \in Conns, KeepAlive(c) PROVE TypeOK'
    BY <1>8, CloseTypes DEF KeepAlive, TypeOK
<1>9. ASSUME NEW c \in Conns, LinkFails(c) PROVE TypeOK'
    BY <1>9 DEF LinkFails, TypeOK
<1>10. ASSUME NEW r \in Roles, NEW hello \in Seq(Cargo), Dial(r, hello) PROVE TypeOK'
    BY <1>10 DEF Dial, TypeOK, HandlerStates
<1>11. ASSUME NEW r \in Roles, OwnerNotices(r) PROVE TypeOK'
    BY <1>11 DEF OwnerNotices, TypeOK
<1>12. ASSUME NEW r \in Roles, Traffic(r) PROVE TypeOK'
    BY <1>12, TrafficTypes DEF Traffic, TypeOK
<1>13. CASE UNCHANGED hubVars
    BY <1>13 DEF hubVars, TypeOK
<1> QED
    BY <1>1, <1>2, <1>3, <1>4, <1>5, <1>6, <1>7, <1>8, <1>9, <1>10, <1>11, <1>12, <1>13
    DEF OpenNext, HandlerStep

(* How a handler moves on: nobody else's place, peer or message changes.   *)
LEMMA OthersStay ==
    ASSUME TypeOK, NEW c \in Conns, NEW next, NEW p, NEW m, Goes(c, next, p, m)
    PROVE  /\ handler'[c] = next /\ other'[c] = p /\ msg'[c] = m
           /\ \A d \in Conns \ {c} :
                /\ handler'[d] = handler[d] /\ other'[d] = other[d] /\ msg'[d] = msg[d]
BY DEF Goes, TypeOK

(* What is held was looked up among the registered, and what is sent was   *)
(* read.                                                                   *)
LEMMA HeldStep == TypeOK /\ HeldInv /\ [OpenNext]_hubVars => HeldInv'
<1> SUFFICES ASSUME TypeOK, HeldInv, [OpenNext]_hubVars PROVE HeldInv'
    OBVIOUS
<1> USE RoleFacts DEF HeldInv, Holding
<1>1. ASSUME NEW c \in Conns, Register(c) PROVE HeldInv'
    <2>1. \/ Goes(c, "reading", NoConn, NoMsg)
          \/ \E p \in Conns : Goes(c, "evicting", p, NoMsg)
        BY <1>1 DEF Register, TypeOK
    <2> QED
        BY <2>1, OthersStay
<1>2. ASSUME NEW c \in Conns, Evict(c) \/ Forward(c) \/ Leave(c) \/ Tell(c) PROVE HeldInv'
    <2>1. \E next \in {"reading", "noticing", "done"} : Goes(c, next, NoConn, NoMsg)
        BY <1>2 DEF Evict, Forward, Leave, Tell
    <2> QED
        BY <2>1, OthersStay
<1>3. ASSUME NEW c \in Conns, ReadMsg(c) PROVE HeldInv'
    <2>1. Head(inbox[c]) \in Cargo
        BY <1>3 DEF ReadMsg, TypeOK
    <2>2. \/ UNCHANGED <<handler, other, msg>>
          \/ \E p \in Conns : Goes(c, "sending", p, Head(inbox[c]))
        BY <1>3 DEF ReadMsg, TypeOK
    <2> QED
        BY <2>1, <2>2, OthersStay
<1>4. ASSUME NEW c \in Conns, LookUp(c) PROVE HeldInv'
    <2>1. \/ Goes(c, "done", NoConn, NoMsg)
          \/ \E p \in Conns : Goes(c, "telling", p, NoMsg)
        BY <1>4 DEF LookUp, TypeOK
    <2> QED
        BY <2>1, OthersStay
<1>5. ASSUME NEW c \in Conns, KeepAlive(c) \/ LinkFails(c) PROVE HeldInv'
    BY <1>5 DEF KeepAlive, LinkFails
<1>6. ASSUME NEW r \in Roles, NEW hello \in Seq(Cargo), Dial(r, hello) PROVE HeldInv'
    BY <1>6 DEF Dial, TypeOK
<1>7. ASSUME NEW r \in Roles, OwnerNotices(r) \/ Traffic(r) PROVE HeldInv'
    BY <1>7 DEF OwnerNotices, Traffic
<1>8. CASE UNCHANGED hubVars
    BY <1>8 DEF hubVars
<1> QED
    BY <1>1, <1>2, <1>3, <1>4, <1>5, <1>6, <1>7, <1>8 DEF OpenNext, HandlerStep

(* A handler starts with its connection and never goes back to "none".     *)
LEMMA LinkedStep == TypeOK /\ HeldInv /\ LinkedInv /\ [OpenNext]_hubVars => LinkedInv'
<1> SUFFICES ASSUME TypeOK, HeldInv, LinkedInv, [OpenNext]_hubVars PROVE LinkedInv'
    OBVIOUS
<1> USE DEF LinkedInv
<1>1. ASSUME NEW c \in Conns, Register(c) \/ ReadMsg(c) \/ Forward(c) \/ Leave(c)
                              \/ LookUp(c) \/ Tell(c)
      PROVE LinkedInv'
    <2>1. UNCHANGED link /\ handler[c] # "none"
        BY <1>1 DEF Register, ReadMsg, Forward, Leave, LookUp, Tell
    <2>2. UNCHANGED handler \/ \E next, p, m : Goes(c, next, p, m)
        BY <1>1 DEF Register, ReadMsg, Forward, Leave, LookUp, Tell
    <2> QED
        BY <2>1, <2>2, OthersStay
<1>2. ASSUME NEW c \in Conns, Evict(c) PROVE LinkedInv'
    <2>1. other[c] \in Conns /\ handler[c] = "evicting"
        BY <1>2 DEF Evict, HeldInv, Holding
    <2>2. Goes(c, "reading", NoConn, NoMsg) /\ link' = [link EXCEPT ![other[c]] = "down"]
        BY <1>2 DEF Evict, CloseNow
    <2> QED
        BY <2>1, <2>2, OthersStay DEF TypeOK
<1>3. ASSUME NEW c \in Conns, KeepAlive(c) \/ LinkFails(c) PROVE LinkedInv'
    BY <1>3 DEF KeepAlive, LinkFails, CloseNow, TypeOK
<1>4. ASSUME NEW r \in Roles, NEW hello \in Seq(Cargo), Dial(r, hello) PROVE LinkedInv'
    BY <1>4 DEF Dial, TypeOK
<1>5. ASSUME NEW r \in Roles, OwnerNotices(r) \/ Traffic(r) PROVE LinkedInv'
    BY <1>5 DEF OwnerNotices, Traffic
<1>6. CASE UNCHANGED hubVars
    BY <1>6 DEF hubVars
<1> QED
    BY <1>1, <1>2, <1>3, <1>4, <1>5, <1>6 DEF OpenNext, HandlerStep

(* A role is held by a connection whose handler will give it up: only a    *)
(* handler that reads can leave, and it gives up what it has.              *)
LEMMA ServedStep == TypeOK /\ LinkedInv /\ HolderServed /\ [OpenNext]_hubVars => HolderServed'
<1> SUFFICES ASSUME TypeOK, LinkedInv, HolderServed, [OpenNext]_hubVars PROVE HolderServed'
    OBVIOUS
<1> USE RoleFacts DEF HolderServed
<1>1. ASSUME NEW c \in Conns, Register(c) PROVE HolderServed'
    <2>1. \E next \in {"reading", "evicting"} : \E p : Goes(c, next, p, NoMsg)
        BY <1>1 DEF Register
    <2>2. peers' = [peers EXCEPT ![RoleOf(c)] = c]
        BY <1>1 DEF Register
    <2>3. /\ peers'[RoleOf(c)] = c
          /\ \A r \in Roles : r # RoleOf(c) => peers'[r] = peers[r]
        BY <2>2 DEF TypeOK
    <2>4. handler'[c] \in {"reading", "evicting"}
          /\ \A d \in Conns \ {c} : handler'[d] = handler[d]
        BY <2>1, OthersStay
    <2>5. ASSUME NEW r \in Roles, peers'[r] # NoConn
          PROVE  /\ RoleOf(peers'[r]) = r
                 /\ handler'[peers'[r]] \in {"evicting", "reading", "sending"}
        <3>1. CASE r = RoleOf(c)
            BY <2>3, <2>4, <3>1
        <3>2. CASE r # RoleOf(c)
            <4>1. peers[r] \in Conns /\ peers'[r] = peers[r]
                BY <2>3, <2>5, <3>2 DEF TypeOK
            <4>2. RoleOf(peers[r]) = r /\ handler[peers[r]] \in {"evicting", "reading", "sending"}
                BY <2>5, <4>1
            <4> QED
                BY <2>4, <3>2, <4>1, <4>2
        <3> QED
            BY <3>1, <3>2
    <2> QED
        BY <2>5 DEF RoleOf
<1>2. ASSUME NEW c \in Conns, Evict(c) \/ Forward(c) \/ ReadMsg(c) PROVE HolderServed'
    <2>1. UNCHANGED peers
        BY <1>2 DEF Evict, Forward, ReadMsg
    <2>2. UNCHANGED handler \/ \E next \in {"reading", "sending"} : \E p, m : Goes(c, next, p, m)
        BY <1>2 DEF Evict, Forward, ReadMsg
    <2>3. \A d \in Conns : handler'[d] = handler[d] \/ handler'[d] \in {"reading", "sending"}
        BY <2>2, OthersStay
    <2>4. \A r \in Roles : peers[r] # NoConn => peers[r] \in Conns
        BY DEF TypeOK
    <2> QED
        BY <2>1, <2>3, <2>4
<1>3. ASSUME NEW c \in Conns, Leave(c) PROVE HolderServed'
    <2>1. PICK next \in {"noticing", "done"} : Goes(c, next, NoConn, NoMsg)
        BY <1>3 DEF Leave
    <2>2. \/ peers' = [peers EXCEPT ![RoleOf(c)] = NoConn]
          \/ peers[RoleOf(c)] # c /\ UNCHANGED peers
        BY <1>3 DEF Leave
    <2>3. \A r \in Roles : peers'[r] # NoConn => peers'[r] = peers[r] /\ peers[r] # c
        BY <2>2 DEF TypeOK
    <2> QED
        BY <2>1, <2>3, OthersStay DEF TypeOK
<1>4. ASSUME NEW c \in Conns, LookUp(c) \/ Tell(c) PROVE HolderServed'
    <2>1. UNCHANGED peers /\ handler[c] \in {"noticing", "telling"}
        BY <1>4 DEF LookUp, Tell
    <2>2. \E next, p, m : Goes(c, next, p, m)
        BY <1>4 DEF LookUp, Tell
    <2>3. \A d \in Conns \ {c} : handler'[d] = handler[d]
        BY <2>2, OthersStay
    <2>4. \A r \in Roles : peers[r] # NoConn => peers[r] \in Conns \ {c}
        BY <2>1 DEF TypeOK
    <2> QED
        BY <2>1, <2>3, <2>4
<1>5. ASSUME NEW c \in Conns, KeepAlive(c) \/ LinkFails(c) PROVE HolderServed'
    BY <1>5 DEF KeepAlive, LinkFails
<1>6. ASSUME NEW r \in Roles, NEW hello \in Seq(Cargo), Dial(r, hello) PROVE HolderServed'
    <2>1. PICK c \in Conns : link[c] = "none" /\ handler' = [handler EXCEPT ![c] = "accepted"]
                             /\ UNCHANGED peers
        BY <1>6 DEF Dial
    <2> QED
        BY <2>1 DEF TypeOK, LinkedInv
<1>7. ASSUME NEW r \in Roles, OwnerNotices(r) \/ Traffic(r) PROVE HolderServed'
    BY <1>7 DEF OwnerNotices, Traffic
<1>8. CASE UNCHANGED hubVars
    BY <1>8 DEF hubVars
<1> QED
    BY <1>1, <1>2, <1>3, <1>4, <1>5, <1>6, <1>7, <1>8 DEF OpenNext, HandlerStep

(* Whoever is displaced is closed by whoever displaced it: the new holder  *)
(* goes on to evict the old one, and closing is the last it does of that.  *)
LEMMA OneStep ==
    TypeOK /\ HeldInv /\ LinkedInv /\ HolderServed /\ OneServed /\ [OpenNext]_hubVars => OneServed'
<1> SUFFICES ASSUME TypeOK, HeldInv, LinkedInv, HolderServed, OneServed, [OpenNext]_hubVars
             PROVE OneServed'
    OBVIOUS
<1> DEFINE Open(c) == handler[c] \in {"evicting", "reading", "sending"} /\ link[c] \in {"up", "cut"}
           Evicts(d, c) == handler[d] = "evicting" /\ other[d] = c /\ RoleOf(d) = RoleOf(c)
<1>0. \A c \in Conns : Open(c) /\ peers[RoleOf(c)] # c => \E d \in Conns \ {c} : Evicts(d, c)
    BY DEF OneServed
<1> SUFFICES ASSUME NEW c \in Conns, Open(c)', (peers[RoleOf(c)] # c)'
             PROVE  \E d \in Conns \ {c} : Evicts(d, c)'
    BY DEF OneServed
<1> USE RoleFacts
<1>1. ASSUME NEW a \in Conns, Register(a) PROVE \E d \in Conns \ {c} : Evicts(d, c)'
    <2>1. /\ handler[a] = "accepted" /\ UNCHANGED link
          /\ peers'[RoleOf(a)] = a
          /\ \A r \in Roles : r # RoleOf(a) => peers'[r] = peers[r]
        BY <1>1 DEF Register, TypeOK
    <2>2. a # c
        BY <2>1
    <2>3. \E next, p : Goes(a, next, p, NoMsg)
        BY <1>1 DEF Register
    <2>4. \A d \in Conns \ {a} : handler'[d] = handler[d] /\ other'[d] = other[d]
        BY <2>3, OthersStay
    <2>5. Open(c)
        BY <2>1, <2>2, <2>4
    <2>6. CASE peers[RoleOf(c)] # c
        <3>1. PICK d \in Conns \ {c} : Evicts(d, c)
            BY <1>0, <2>5, <2>6
        <3> QED
            BY <3>1, <2>1, <2>4
    <2>7. CASE peers[RoleOf(c)] = c
        <3>1. RoleOf(a) = RoleOf(c)
            BY <2>1, <2>7
        <3>2. Goes(a, "evicting", c, NoMsg)
            BY <1>1, <2>7, <3>1 DEF Register
        <3>3. handler'[a] = "evicting" /\ other'[a] = c
            BY <3>2, OthersStay
        <3> QED
            BY <2>2, <3>1, <3>3
    <2> QED
        BY <2>6, <2>7
<1>2. ASSUME NEW a \in Conns, Evict(a) PROVE \E d \in Conns \ {c} : Evicts(d, c)'
    <2>1. /\ handler[a] = "evicting" /\ other[a] \in Conns /\ UNCHANGED peers
          /\ link' = [link EXCEPT ![other[a]] = "down"] /\ Goes(a, "reading", NoConn, NoMsg)
        BY <1>2 DEF Evict, CloseNow, HeldInv, Holding
    <2>2. handler'[a] = "reading" /\ \A d \in Conns \ {a} :
              handler'[d] = handler[d] /\ other'[d] = other[d]
        BY <2>1, OthersStay
    <2>3. c # other[a] /\ link'[c] = link[c]
        BY <2>1 DEF TypeOK
    <2>4. PICK d \in Conns \ {c} : Evicts(d, c)
        BY <1>0, <2>1, <2>2, <2>3
    <2> QED
        BY <2>2, <2>3, <2>4
<1>3. ASSUME NEW a \in Conns, ReadMsg(a) \/ Forward(a) PROVE \E d \in Conns \ {c} : Evicts(d, c)'
    <2>1. /\ handler[a] \in {"reading", "sending"} /\ UNCHANGED <<peers, link>>
          /\ UNCHANGED <<handler, other>> \/ \E next, p, m : Goes(a, next, p, m)
        BY <1>3 DEF ReadMsg, Forward
    <2>2. \A d \in Conns \ {a} : handler'[d] = handler[d] /\ other'[d] = other[d]
        BY <2>1, OthersStay
    <2>3. PICK d \in Conns \ {c} : Evicts(d, c)
        BY <1>0, <2>1, <2>2
    <2> QED
        BY <2>1, <2>2, <2>3
<1>4. ASSUME NEW a \in Conns, Leave(a) PROVE \E d \in Conns \ {c} : Evicts(d, c)'
    <2>1. /\ handler[a] = "reading" /\ UNCHANGED link
          /\ \E next \in {"noticing", "done"} : Goes(a, next, NoConn, NoMsg)
        BY <1>4 DEF Leave
    <2>2. handler'[a] \in {"noticing", "done"} /\ \A d \in Conns \ {a} :
              handler'[d] = handler[d] /\ other'[d] = other[d]
        BY <2>1, OthersStay
    <2>3. a # c /\ Open(c)
        BY <2>1, <2>2
    <2>4. \/ UNCHANGED peers
          \/ peers[RoleOf(a)] = a /\ peers' = [peers EXCEPT ![RoleOf(a)] = NoConn]
        BY <1>4 DEF Leave
    <2>5. peers[RoleOf(c)] # c
        BY <2>3, <2>4 DEF TypeOK
    <2>6. PICK d \in Conns \ {c} : Evicts(d, c)
        BY <1>0, <2>3, <2>5
    <2> QED
        BY <2>1, <2>2, <2>6
<1>5. ASSUME NEW a \in Conns, LookUp(a) \/ Tell(a) PROVE \E d \in Conns \ {c} : Evicts(d, c)'
    <2>1. /\ handler[a] \in {"noticing", "telling"} /\ UNCHANGED <<peers, link>>
          /\ \E next \in {"telling", "done"} : \E p : Goes(a, next, p, NoMsg)
        BY <1>5 DEF LookUp, Tell
    <2>2. handler'[a] \in {"telling", "done"} /\ \A d \in Conns \ {a} :
              handler'[d] = handler[d] /\ other'[d] = other[d]
        BY <2>1, OthersStay
    <2>3. PICK d \in Conns \ {c} : Evicts(d, c)
        BY <1>0, <2>1, <2>2
    <2> QED
        BY <2>1, <2>2, <2>3
<1>6. ASSUME NEW a \in Conns, KeepAlive(a) \/ LinkFails(a) PROVE \E d \in Conns \ {c} : Evicts(d, c)'
    <2>1. /\ UNCHANGED <<peers, handler, other>> /\ link[a] \in {"up", "cut"}
          /\ \E how \in {"cut", "down"} : link' = [link EXCEPT ![a] = how]
        BY <1>6 DEF KeepAlive, LinkFails, CloseNow
    <2>2. Open(c)
        BY <2>1 DEF TypeOK
    <2> QED
        BY <1>0, <2>1, <2>2
<1>7. ASSUME NEW r \in Roles, NEW hello \in Seq(Cargo), Dial(r, hello) PROVE \E d \in Conns \ {c} : Evicts(d, c)'
    <2>1. PICK a \in Conns : /\ link[a] = "none" /\ UNCHANGED <<peers, other>>
                             /\ handler' = [handler EXCEPT ![a] = "accepted"]
                             /\ link' = [link EXCEPT ![a] = "up"]
        BY <1>7 DEF Dial
    <2>2. handler[a] = "none"
        BY <2>1 DEF LinkedInv
    <2>3. a # c /\ Open(c)
        BY <2>1 DEF TypeOK
    <2>4. PICK d \in Conns \ {c} : Evicts(d, c)
        BY <1>0, <2>1, <2>3
    <2> QED
        BY <2>1, <2>2, <2>4 DEF TypeOK
<1>8. ASSUME NEW r \in Roles, OwnerNotices(r) \/ Traffic(r) PROVE \E d \in Conns \ {c} : Evicts(d, c)'
    <2>1. UNCHANGED <<peers, handler, other, link>>
        BY <1>8 DEF OwnerNotices, Traffic
    <2> QED
        BY <1>0, <2>1
<1>9. CASE UNCHANGED hubVars
    <2>1. UNCHANGED <<peers, handler, other, link>>
        BY <1>9 DEF hubVars
    <2> QED
        BY <1>0, <2>1
<1> QED
    BY <1>1, <1>2, <1>3, <1>4, <1>5, <1>6, <1>7, <1>8, <1>9 DEF OpenNext, HandlerStep

(* A connection is open only while its owner holds it: an owner lets go of *)
(* one that has failed, and then dials another.                            *)
LEMMA OwnedStep == TypeOK /\ HeldInv /\ OwnedInv /\ [OpenNext]_hubVars => OwnedInv'
<1> SUFFICES ASSUME TypeOK, HeldInv, OwnedInv, [OpenNext]_hubVars PROVE OwnedInv'
    OBVIOUS
<1> USE RoleFacts DEF OwnedInv
<1>0. \A r \in Roles : ws[r] \in Conns \cup {NoConn}
    BY DEF TypeOK
<1>1. ASSUME NEW c \in Conns, Register(c) \/ Leave(c) \/ LookUp(c) PROVE OwnedInv'
    BY <1>1 DEF Register, Leave, LookUp, TypeOK
<1>3. ASSUME NEW c \in Conns, Evict(c) PROVE OwnedInv'
    <2>1. other[c] \in Conns /\ CloseNow(other[c]) /\ UNCHANGED <<outbox, ws>>
        BY <1>3 DEF Evict, HeldInv, Holding
    <2> QED
        BY <1>0, <2>1 DEF CloseNow, TypeOK
<1>4. ASSUME NEW c \in Conns, KeepAlive(c) \/ LinkFails(c) PROVE OwnedInv'
    <2>1. /\ UNCHANGED <<outbox, ws>> /\ link[c] \in {"up", "cut"}
          /\ \E how \in {"cut", "down"} : link' = [link EXCEPT ![c] = how]
          /\ UNCHANGED inbox \/ inbox' = [inbox EXCEPT ![c] = <<>>]
        BY <1>4 DEF KeepAlive, LinkFails, CloseNow
    <2> QED
        BY <1>0, <2>1 DEF TypeOK
<1>5. ASSUME NEW c \in Conns, ReadMsg(c) PROVE OwnedInv'
    BY <1>5 DEF ReadMsg, TypeOK
<1>6. ASSUME NEW c \in Conns, Forward(c) \/ Tell(c) PROVE OwnedInv'
    <2>1. other[c] \in Conns /\ UNCHANGED <<link, inbox, ws>> /\ \E m : Send(other[c], m)
        BY <1>6 DEF Forward, Tell, HeldInv, Holding
    <2> QED
        BY <2>1 DEF Send, TypeOK
<1>7. ASSUME NEW r \in Roles, NEW hello \in Seq(Cargo), Dial(r, hello) PROVE OwnedInv'
    <2>1. PICK c \in Conns : /\ RoleOf(c) = r /\ ws[r] = NoConn /\ UNCHANGED outbox
                             /\ ws' = [ws EXCEPT ![r] = c] /\ link' = [link EXCEPT ![c] = "up"]
                             /\ inbox' = [inbox EXCEPT ![c] = hello]
        BY <1>7 DEF Dial
    <2> QED
        BY <2>1 DEF TypeOK
<1>8. ASSUME NEW r \in Roles, OwnerNotices(r) PROVE OwnedInv'
    BY <1>0, <1>8 DEF OwnerNotices, TypeOK
<1>9. ASSUME NEW r \in Roles, Traffic(r) PROVE OwnedInv'
    <2>1. \A c \in Conns : link[c] = "none" => inbox'[c] = <<>> /\ outbox'[c] = <<>>
        BY <1>0, <1>9 DEF Traffic, OwnerSends, TypeOK
    <2> QED
        BY <1>9, <2>1 DEF Traffic
<1>10. CASE UNCHANGED hubVars
    BY <1>10 DEF hubVars
<1> QED
    BY <1>1, <1>3, <1>4, <1>5, <1>6, <1>7, <1>8, <1>9, <1>10 DEF OpenNext, HandlerStep

(* A handler evicts who had the role before it, and no handler goes back   *)
(* to the beginning.                                                       *)
LEMMA DisplacedStep ==
    /\ TypeOK /\ HeldInv /\ LinkedInv /\ HolderServed /\ DisplacedInv
    /\ [OpenNext]_hubVars
    => DisplacedInv'
<1> SUFFICES ASSUME TypeOK, HeldInv, LinkedInv, HolderServed, DisplacedInv, [OpenNext]_hubVars
             PROVE  DisplacedInv'
    OBVIOUS
<1> USE RoleFacts DEF DisplacedInv
<1>0. \A d \in Conns : handler[d] = "evicting" => other[d] \in Conns
    BY DEF HeldInv, Holding
<1>1. ASSUME NEW c \in Conns, Register(c) PROVE DisplacedInv'
    <2>1. handler[c] = "accepted"
        BY <1>1 DEF Register
    <2>2. CASE Goes(c, "reading", NoConn, NoMsg)
        BY <1>0, <2>1, <2>2, OthersStay
    <2>3. CASE peers[RoleOf(c)] # NoConn /\ Goes(c, "evicting", peers[RoleOf(c)], NoMsg)
        <3>1. /\ peers[RoleOf(c)] \in Conns /\ RoleOf(peers[RoleOf(c)]) = RoleOf(c)
              /\ handler[peers[RoleOf(c)]] \in {"evicting", "reading", "sending"}
            BY <2>3 DEF HolderServed, TypeOK
        <3> QED
            BY <1>0, <2>1, <2>3, <3>1, OthersStay
    <2> QED
        BY <1>1, <2>2, <2>3 DEF Register
<1>2. ASSUME NEW c \in Conns, Evict(c) \/ ReadMsg(c) \/ Forward(c) \/ Leave(c) \/ LookUp(c) \/ Tell(c)
      PROVE  DisplacedInv'
    <2>1. \/ UNCHANGED <<handler, other>>
          \/ \E next \in {"reading", "sending", "noticing", "telling", "done"} :
                \E p, m : Goes(c, next, p, m)
        BY <1>2 DEF Evict, ReadMsg, Forward, Leave, LookUp, Tell
    <2> QED
        BY <1>0, <2>1, OthersStay
<1>3. ASSUME NEW r \in Roles, NEW hello \in Seq(Cargo), Dial(r, hello) PROVE DisplacedInv'
    <2>1. PICK c \in Conns : /\ link[c] = "none" /\ UNCHANGED other
                             /\ handler' = [handler EXCEPT ![c] = "accepted"]
        BY <1>3 DEF Dial
    <2>2. handler[c] = "none"
        BY <2>1 DEF LinkedInv
    <2> QED
        BY <1>0, <2>1, <2>2 DEF TypeOK
<1>4. CASE UNCHANGED <<handler, other>>
    BY <1>4
<1>5. ASSUME NEW c \in Conns, KeepAlive(c) \/ LinkFails(c) PROVE DisplacedInv'
    BY <1>4, <1>5 DEF KeepAlive, LinkFails
<1>6. ASSUME NEW r \in Roles, OwnerNotices(r) \/ Traffic(r) PROVE DisplacedInv'
    BY <1>4, <1>6 DEF OwnerNotices, Traffic
<1>7. CASE UNCHANGED hubVars
    BY <1>4, <1>7 DEF hubVars
<1> QED
    BY <1>1, <1>2, <1>3, <1>5, <1>6, <1>7 DEF OpenNext, HandlerStep

(* The hub's inductive invariant, whatever its owners do.                  *)
LEMMA OpenStep == HubInv /\ [OpenNext]_hubVars => HubInv'
BY HubTypeStep, HeldStep, LinkedStep, OwnedStep, DisplacedStep, ServedStep, OneStep DEF HubInv

LEMMA OpenInvariant == OpenSpec => []HubInv
BY HubInit, OpenStep, PTL DEF OpenSpec

(* The hub with its chatting owners is one case of it.                     *)
LEMMA ChatIsTraffic == [Next]_hubVars => [OpenNext]_hubVars
<1>1. ASSUME NEW r \in Roles, Chat(r) PROVE Traffic(r)
    BY <1>1 DEF Chat, Traffic
<1>2. <<>> \in Seq(Cargo)
    OBVIOUS
<1> QED
    BY <1>1, <1>2 DEF Next, OpenNext

(* So every behaviour of the hub is one of the hub with arbitrary owners.  *)
THEOREM HubIsOpen == Spec => OpenSpec
BY ChatIsTraffic, PTL DEF Spec, OpenSpec

LEMMA HubInvariant == Spec => []HubInv
BY HubIsOpen, OpenInvariant, PTL

(* Type correctness of the hub, for every set of connections and messages. *)
THEOREM HubTypes == Spec => []TypeOK
BY HubInvariant, PTL DEF HubInv

(* A role is held by a connection of that role whose handler will give it  *)
(* up (server.go:120).                                                     *)
THEOREM HolderIsServed == Spec => []HolderServed
BY HubInvariant, PTL DEF HubInv

(* Two connections of one role are never both left open (server.go:115).   *)
THEOREM OneIsServed == Spec => []OneServed
BY HubInvariant, PTL DEF HubInv

(* The departure of an evicted connection takes nothing from its successor *)
(* (server.go:77).                                                         *)
LEMMA OpenRoleIsKept == OpenSpec => RoleKept
<1> DEFINE Kept ==
        \A r \in Roles : peers'[r] # peers[r] =>
         \/ peers'[r] # NoConn /\ handler[peers'[r]] = "accepted"
         \/ /\ peers'[r] = NoConn
            /\ handler[peers[r]] = "reading" /\ link[peers[r]] = "down"
<1>1. TypeOK /\ [OpenNext]_hubVars => [Kept]_hubVars
    <2> SUFFICES ASSUME TypeOK, OpenNext PROVE Kept
        OBVIOUS
    <2>1. ASSUME NEW c \in Conns, Register(c) PROVE Kept
        BY <2>1, RoleFacts DEF Register, TypeOK
    <2>2. ASSUME NEW c \in Conns, Leave(c) PROVE Kept
        BY <2>2, RoleFacts DEF Leave, TypeOK
    <2>3. CASE UNCHANGED peers
        BY <2>3
    <2>4. \/ \E c \in Conns : Register(c) \/ Leave(c)
          \/ UNCHANGED peers
        BY DEF OpenNext, HandlerStep, Evict, ReadMsg, Forward, LookUp, Tell, KeepAlive, LinkFails,
               Dial, OwnerNotices, Traffic
    <2> QED
        BY <2>1, <2>2, <2>3, <2>4
<1> QED
    BY <1>1, OpenInvariant, PTL DEF OpenSpec, HubInv, RoleKept

(* So it is with owners that chat.                                         *)
THEOREM RoleIsKept == Spec => RoleKept
BY HubIsOpen, OpenRoleIsKept, PTL
=============================================================================
