----------------------------- MODULE SourceFeed -----------------------------
(***************************************************************************)
(* What the host promises about its video source, with nothing of how:     *)
(* "the source can only feed one session at a time" (internal/host/host.go *)
(* line 207).  Sessions are numbered in the order they are announced.      *)
(* Only the newest one may be fed, it is fed at most once, and a newer one *)
(* is announced only when the one before it can never be fed again.        *)
(***************************************************************************)
EXTENDS Integers

VARIABLES newest,   \* number of the last session announced, 0 before the first
          waiting,  \* the newest session may still start to be fed
          feeding   \* the sessions the source feeds

feedVars == <<newest, waiting, feeding>>

FeedInit == newest = 0 /\ waiting = FALSE /\ feeding = {}

(* A session is announced; in a host that is stopping it is never fed.     *)
Announce ==
    /\ ~waiting
    /\ feeding = {}
    /\ newest' = newest + 1
    /\ waiting' \in BOOLEAN
    /\ UNCHANGED feeding

(* The source starts to feed the newest session.                           *)
Begin ==
    /\ waiting
    /\ waiting' = FALSE
    /\ feeding' = {newest}
    /\ UNCHANGED newest

(* The newest session is over, fed or not.                                 *)
Finish ==
    /\ waiting \/ feeding # {}
    /\ waiting' = FALSE
    /\ feeding' = {}
    /\ UNCHANGED newest

FeedNext == Announce \/ Begin \/ Finish

FeedSpec == FeedInit /\ [][FeedNext]_feedVars
=============================================================================
