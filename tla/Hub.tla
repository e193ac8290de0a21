-------------------------------- MODULE Hub --------------------------------
(***************************************************************************)
(* The signaling hub (internal/signaling/server.go): one websocket per     *)
(* role, the newest connection wins, and whatever one side sends goes to   *)
(* the other.  Every connection has a handler goroutine of its own, and a  *)
(* handler's lookup of the other side and its write to it are two steps.   *)
(* Connections are numbered by role in the order their owners dial them.   *)
(***************************************************************************)
EXTENDS Integers, Sequences

CONSTANTS HostConns, PageConns,  \* the connections the two owners may dial
          Cargo,                 \* what the owners send
          MaxQueue               \* bound: messages on their way over a connection

Conns == HostConns \cup PageConns
Roles == {"host", "client"}
NoConn == 0
Notice == [type |-> "peer-disconnected", s |-> 0]
NoMsg == [type |-> "none", s |-> 0]

ASSUME HubAssumption ==
    /\ HostConns \subseteq Nat \ {0} /\ PageConns \subseteq Nat \ {0}
    /\ HostConns \cap PageConns = {}
    /\ Notice \notin Cargo /\ NoMsg \notin Cargo
    /\ MaxQueue \in Nat

RoleOf(c) == IF c \in HostConns THEN "host" ELSE "client"
otherRole(r) == IF r = "host" THEN "client" ELSE "host"

VARIABLES
    peers,   \* hub.peers: the registered connection of each role
    handler, \* where each connection's handleWS is
    other,   \* the peer it holds: the one it evicts, or is about to write to
    msg,     \* the message it has read and not yet forwarded
    link,    \* the websocket: "up", "cut" (half-dead, nobody knows), "down"
    inbox,   \* on its way from the owner to the hub
    outbox,  \* on its way from the hub to the owner
    ws       \* the connection each owner holds, NoConn while it redials

hubVars == <<peers, handler, other, msg, link, inbox, outbox, ws>>

HandlerStates == {"none", "accepted", "evicting", "reading", "sending",
                  "noticing", "telling", "done"}
(* The handlers that hold a peer they looked up before.                    *)
Holding == {"evicting", "sending", "telling"}

TypeOK ==
    /\ peers \in [Roles -> Conns \cup {NoConn}]
    /\ handler \in [Conns -> HandlerStates]
    /\ other \in [Conns -> Conns \cup {NoConn}]
    /\ msg \in [Conns -> Cargo \cup {NoMsg}]
    /\ link \in [Conns -> {"none", "up", "cut", "down"}]
    /\ inbox \in [Conns -> Seq(Cargo)]
    /\ outbox \in [Conns -> Seq(Cargo \cup {Notice})]
    /\ ws \in [Roles -> Conns \cup {NoConn}]

Init ==
    /\ peers = [r \in Roles |-> NoConn]
    /\ handler = [c \in Conns |-> "none"]
    /\ other = [c \in Conns |-> NoConn]
    /\ msg = [c \in Conns |-> NoMsg]
    /\ link = [c \in Conns |-> "none"]
    /\ inbox = [c \in Conns |-> <<>>]
    /\ outbox = [c \in Conns |-> <<>>]
    /\ ws = [r \in Roles |-> NoConn]

-----------------------------------------------------------------------------
(* The server closes a connection (CloseNow): it reads no more from it;    *)
(* its owner may still read what has been sent.                            *)
CloseNow(c) ==
    /\ link' = [link EXCEPT ![c] = "down"]
    /\ inbox' = [inbox EXCEPT ![c] = <<>>]

(* peer.send: a write to a connection that is gone fails or vanishes, and  *)
(* the handler goes on either way.                                         *)
Send(c, m) ==
    outbox' = IF link[c] = "up" THEN [outbox EXCEPT ![c] = Append(@, m)] ELSE outbox

(* An owner writes to the connection it holds.                             *)
OwnerSends(r, m) ==
    inbox' = IF ws[r] # NoConn /\ link[ws[r]] = "up"
             THEN [inbox EXCEPT ![ws[r]] = Append(@, m)] ELSE inbox

(* The handler of c goes on to state `next`, holding peer p and message m. *)
Goes(c, next, p, m) ==
    /\ handler' = [handler EXCEPT ![c] = next]
    /\ other' = [other EXCEPT ![c] = p]
    /\ msg' = [msg EXCEPT ![c] = m]

-----------------------------------------------------------------------------
(* An owner without a connection dials, says `hello` first, and the server *)
(* accepts.                                                                *)
Dial(r, hello) ==
    \E c \in Conns :
        /\ RoleOf(c) = r /\ ws[r] = NoConn /\ link[c] = "none"
        /\ \A d \in Conns : RoleOf(d) = r /\ link[d] = "none" => c <= d
        /\ ws' = [ws EXCEPT ![r] = c]
        /\ link' = [link EXCEPT ![c] = "up"]
        /\ inbox' = [inbox EXCEPT ![c] = hello]
        /\ handler' = [handler EXCEPT ![c] = "accepted"]
        /\ UNCHANGED <<peers, other, msg, outbox>>

(* hub.add: the role is taken over, whoever has it.                        *)
Register(c) ==
    LET old == peers[RoleOf(c)] IN
    /\ handler[c] = "accepted"
    /\ peers' = [peers EXCEPT ![RoleOf(c)] = c]
    /\ IF old = NoConn THEN Goes(c, "reading", NoConn, NoMsg)
                       ELSE Goes(c, "evicting", old, NoMsg)
    /\ UNCHANGED <<link, inbox, outbox, ws>>

(* Mutant: the displaced connection is left open.                          *)
EvictForgets(c) ==
    /\ handler[c] = "evicting"
    /\ Goes(c, "reading", NoConn, NoMsg)
    /\ UNCHANGED <<peers, link, inbox, outbox, ws>>

Evict(c) ==
    /\ handler[c] = "evicting"
    /\ CloseNow(other[c])
    /\ Goes(c, "reading", NoConn, NoMsg)
    /\ UNCHANGED <<peers, outbox, ws>>

(* c.Read returns a message and the other side is looked up.               *)
ReadMsg(c) ==
    LET o == peers[otherRole(RoleOf(c))] IN
    /\ handler[c] = "reading" /\ inbox[c] # <<>>
    /\ inbox' = [inbox EXCEPT ![c] = Tail(@)]
    /\ IF o = NoConn THEN UNCHANGED <<handler, other, msg>>
                     ELSE Goes(c, "sending", o, Head(inbox[c]))
    /\ UNCHANGED <<peers, link, outbox, ws>>

(* Mutant: the message is forgotten before it is written.                  *)
ForwardNothing(c) ==
    /\ handler[c] = "sending"
    /\ Send(other[c], NoMsg)
    /\ Goes(c, "reading", NoConn, NoMsg)
    /\ UNCHANGED <<peers, link, inbox, ws>>

Forward(c) ==
    /\ handler[c] = "sending"
    /\ Send(other[c], msg[c])
    /\ Goes(c, "reading", NoConn, NoMsg)
    /\ UNCHANGED <<peers, link, inbox, ws>>

(* Mutant: hub.remove without its comparison.                              *)
LeaveAlways(c) ==
    /\ handler[c] = "reading" /\ link[c] = "down"
    /\ inbox' = [inbox EXCEPT ![c] = <<>>]
    /\ peers' = [peers EXCEPT ![RoleOf(c)] = NoConn]
    /\ Goes(c, "noticing", NoConn, NoMsg)
    /\ UNCHANGED <<link, outbox, ws>>

(* Mutant: the handler returns without hub.remove.                         *)
LeaveKeepsRole(c) ==
    /\ handler[c] = "reading" /\ link[c] = "down"
    /\ inbox' = [inbox EXCEPT ![c] = <<>>]
    /\ Goes(c, "done", NoConn, NoMsg)
    /\ UNCHANGED <<peers, link, outbox, ws>>

(* c.Read fails and hub.remove runs: only a connection that still has the  *)
(* role gives it up, and only then is its departure news.                  *)
Leave(c) ==
    /\ handler[c] = "reading" /\ link[c] = "down"
    /\ inbox' = [inbox EXCEPT ![c] = <<>>]
    /\ IF peers[RoleOf(c)] = c
       THEN /\ peers' = [peers EXCEPT ![RoleOf(c)] = NoConn]
            /\ Goes(c, "noticing", NoConn, NoMsg)
       ELSE /\ Goes(c, "done", NoConn, NoMsg)
            /\ UNCHANGED peers
    /\ UNCHANGED <<link, outbox, ws>>

LookUp(c) ==
    LET o == peers[otherRole(RoleOf(c))] IN
    /\ handler[c] = "noticing"
    /\ Goes(c, IF o = NoConn THEN "done" ELSE "telling", o, NoMsg)
    /\ UNCHANGED <<peers, link, inbox, outbox, ws>>

Tell(c) ==
    /\ handler[c] = "telling"
    /\ Send(other[c], Notice)
    /\ Goes(c, "done", NoConn, NoMsg)
    /\ UNCHANGED <<peers, link, inbox, ws>>

(* Mutant: only idle connections whose owner is still there are pinged.    *)
KeepAliveLazy(c) ==
    /\ handler[c] \in {"reading", "sending"} /\ link[c] = "cut"
    /\ ws[RoleOf(c)] = c
    /\ CloseNow(c)
    /\ UNCHANGED <<peers, handler, other, msg, outbox, ws>>

(* A ping goes unanswered: the half-dead connection is closed.             *)
KeepAlive(c) ==
    /\ handler[c] \in {"reading", "sending"} /\ link[c] = "cut"
    /\ CloseNow(c)
    /\ UNCHANGED <<peers, handler, other, msg, outbox, ws>>

(* The path closes a connection, or lets it die without a word.  What is   *)
(* on its way may still be read until the reader finds out.                *)
LinkFails(c) ==
    /\ link[c] = "up"
    /\ \E how \in {"cut", "down"} : link' = [link EXCEPT ![c] = how]
    /\ UNCHANGED <<peers, handler, other, msg, inbox, outbox, ws>>

(* An owner finds its connection gone.                                     *)
OwnerNotices(r) ==
    /\ ws[r] # NoConn /\ link[ws[r]] \in {"cut", "down"}
    /\ ws' = [ws EXCEPT ![r] = NoConn]
    /\ outbox' = [outbox EXCEPT ![ws[r]] = <<>>]
    /\ UNCHANGED <<peers, handler, other, msg, link, inbox>>

(* Owners that say anything and read everything.                           *)
Chat(r) ==
    LET c == ws[r] IN
    /\ c # NoConn
    /\ UNCHANGED <<peers, handler, other, msg, link, ws>>
    /\ \/ /\ \A d \in Conns : Len(inbox[d]) + Len(outbox[d]) < MaxQueue
          /\ \E m \in Cargo : OwnerSends(r, m)
          /\ UNCHANGED outbox
       \/ /\ outbox[c] # <<>>
          /\ outbox' = [outbox EXCEPT ![c] = Tail(@)]
          /\ UNCHANGED inbox

HandlerStep(c) ==
    \/ Register(c) \/ Evict(c) \/ ReadMsg(c) \/ Forward(c)
    \/ Leave(c) \/ LookUp(c) \/ Tell(c) \/ KeepAlive(c)

Next ==
    \/ \E c \in Conns : HandlerStep(c) \/ LinkFails(c)
    \/ \E r \in Roles : Dial(r, <<>>) \/ OwnerNotices(r) \/ Chat(r)

Spec == Init /\ [][Next]_hubVars
FairSpec == Spec /\ \A c \in Conns : WF_hubVars(HandlerStep(c))

-----------------------------------------------------------------------------
(* Who has a role will give it up: its handler has still to find out that  *)
(* the connection is gone, so a role never stays with a corpse             *)
(* (server.go:120, the deferred remove of a handler that has registered).  *)
HolderServed ==
    \A r \in Roles : peers[r] # NoConn =>
        /\ RoleOf(peers[r]) = r
        /\ handler[peers[r]] \in {"evicting", "reading", "sending"}

(* One connection of a role is served: any other one that is still open is *)
(* about to be closed by the handler that displaced it (server.go:115), so *)
(* two owners of one role never both stay connected.                       *)
OneServed ==
    \A c \in Conns :
        /\ handler[c] \in {"evicting", "reading", "sending"}
        /\ link[c] \in {"up", "cut"} /\ peers[RoleOf(c)] # c
        => \E d \in Conns \ {c} : /\ handler[d] = "evicting" /\ other[d] = c
                                  /\ RoleOf(d) = RoleOf(c)

(* A role passes only to a connection that is being added, and becomes     *)
(* vacant only through the handler of the connection that had it: the late *)
(* departure of an evicted connection takes nothing from its successor     *)
(* (server.go:77).                                                         *)
RoleKept ==
    [][\A r \in Roles : peers'[r] # peers[r] =>
         \/ peers'[r] # NoConn /\ handler[peers'[r]] = "accepted"
         \/ /\ peers'[r] = NoConn
            /\ handler[peers[r]] = "reading" /\ link[peers[r]] = "down"]_hubVars

(* A half-dead or closed connection does not keep its role: a ping times   *)
(* out, or a newer connection comes first (server.go:160).                 *)
RoleFreed ==
    \A c \in Conns :
        (peers[RoleOf(c)] = c /\ link[c] \in {"cut", "down"}) ~> (peers[RoleOf(c)] # c)
=============================================================================
