------------------------- MODULE SecretsFile_proofs -------------------------
(***************************************************************************)
(* Proofs about the secrets file: however many commands are run, in        *)
(* whatever order, cut off wherever and undone by a loss of power, a       *)
(* session does not survive a change of password and what the owner relies *)
(* on is not lost silently.                                                *)
(***************************************************************************)
EXTENDS SecretsFile, TLAPS

(* A password's hash and the secret that signs its sessions are made by    *)
(* the same command, wherever they are kept.                               *)
MadeTogether(s) == s.hash # 0 /\ s.cookie # 0 => s.hash = s.cookie
Paired ==
    /\ Whole(file) => MadeTogether(file)
    /\ Whole(disk) => MadeTogether(disk)
    /\ MadeTogether(new)
    /\ server # NoServer => MadeTogether(server)
    /\ \A k \in cookies : k.secret = k.password

(* A start serves complete secrets only.                                   *)
StartsComplete == proc \in {"start", "telling start"} => hasAllCore(new)

(* Between two writes the file agrees with what the owner relies on; while *)
(* a command writes, the file is torn, and what it is going to write keeps *)
(* what it has to.                                                         *)
Relied ==
    /\ proc \in Commands => file = Torn
    /\ proc \notin Commands =>
          Contents.token = kept.token /\ Contents.turn = kept.turn
    /\ proc \in {"start", "new-password", "set-password"} => new.turn = kept.turn
    /\ proc = "set-password" /\ kept.token # 0 => new.token = kept.token
    /\ proc = "set-turn-key" => new.token = kept.token

SecretsInv == TypeOK /\ Paired /\ StartsComplete /\ Relied

USE DEF Commands, Core, hasAllCore, hasAnyCore

(* No version exceeds the bound, and neither does the next one.            *)
LEMMA VersionFacts ==
    /\ 0 \in Versions /\ Versions \subseteq Nat
    /\ issued \in Versions /\ issued < MaxIssued => issued + 1 \in Versions /\ issued + 1 # 0
BY SecretsAssumption DEF Versions

(* What the three changes of the secrets make of them.                     *)
LEMMA ChangeFacts ==
    ASSUME NEW s \in stored, NEW n \in Versions, n # 0
    PROVE  /\ Generate(s, n) \in stored /\ MadeTogether(Generate(s, n))
           /\ hasAllCore(Generate(s, n)) /\ Generate(s, n).turn = s.turn
           /\ SetPassword(s, n) \in stored /\ MadeTogether(SetPassword(s, n))
           /\ SetPassword(s, n).turn = s.turn
           /\ s.token # 0 => SetPassword(s, n).token = s.token
           /\ SetTurnKey(s, n) \in stored
           /\ MadeTogether(s) => MadeTogether(SetTurnKey(s, n))
           /\ SetTurnKey(s, n).token = s.token
BY DEF Generate, SetPassword, SetTurnKey, stored, MadeTogether

(* What a command reads is never a file half written.                      *)
LEMMA ContentsFacts ==
    ASSUME TypeOK, Paired
    PROVE  Contents \in stored /\ MadeTogether(Contents)
BY VersionFacts DEF Contents, TypeOK, Paired, Blank, stored, MadeTogether

(* What of a file the owner relies on.                                     *)
LEMMA ReliableFacts ==
    ASSUME NEW f, Whole(f) => f \in stored
    PROVE  Reliable(f) \in [token : Versions, turn : Versions]
BY VersionFacts DEF Reliable, stored

(* There is no file, no server and no session at the start.                *)
LEMMA SecretsInit == Init => SecretsInv
<1> SUFFICES ASSUME Init PROVE SecretsInv
    OBVIOUS
<1> USE VersionFacts, SecretsAssumption DEF Init
<1>1. Blank \in stored
    BY DEF Blank, stored
<1>2. TypeOK
    BY <1>1 DEF TypeOK, Whole
<1>3. Paired
    BY DEF Paired, Whole, MadeTogether, Blank
<1>4. StartsComplete /\ Relied
    BY DEF StartsComplete, Relied, Contents, Whole, Blank
<1> QED
    BY <1>2, <1>3, <1>4 DEF SecretsInv

(* A command has read the file and begins to write what it makes of it.    *)
LEMMA WritesStep ==
    ASSUME SecretsInv, NEW command \in Commands, NEW s \in stored, Writes(command, s),
           MadeTogether(s), command = "start" => hasAllCore(s),
           command # "set-turn-key" => s.turn = Contents.turn,
           command = "set-password" /\ Contents.token # 0 => s.token = Contents.token,
           command = "set-turn-key" => s.token = Contents.token
    PROVE  SecretsInv'
<1> USE DEF Writes
<1>1. TypeOK'
    BY VersionFacts DEF SecretsInv, TypeOK, Whole
<1>2. Paired'
    BY DEF SecretsInv, Paired, Whole
<1>3. StartsComplete'
    BY DEF StartsComplete
<1>4. Relied'
    BY DEF SecretsInv, Relied
<1> QED
    BY <1>1, <1>2, <1>3, <1>4 DEF SecretsInv

(* Every command and every accident keeps the invariant.                   *)
LEMMA SecretsStep == SecretsInv /\ [Next]_vars => SecretsInv'
<1> SUFFICES ASSUME SecretsInv, [Next]_vars PROVE SecretsInv'
    OBVIOUS
<1> USE SecretsAssumption
<1>0. Contents \in stored /\ MadeTogether(Contents)
    BY ContentsFacts DEF SecretsInv
<1>n. issued < MaxIssued => issued + 1 \in Versions /\ issued + 1 # 0
    BY VersionFacts DEF SecretsInv, TypeOK
<1>1. CASE StartAsIs
    <2> USE DEF StartAsIs
    <2>1. TypeOK'
        BY <1>1 DEF SecretsInv, TypeOK
    <2>2. Paired'
        BY <1>1 DEF SecretsInv, Paired
    <2>3. StartsComplete' /\ Relied'
        BY <1>1 DEF SecretsInv, StartsComplete, Relied, Contents
    <2> QED
        BY <2>1, <2>2, <2>3 DEF SecretsInv
<1>2. CASE StartGenerates \/ RunNewPassword
    <2>1. PICK command \in {"start", "new-password"} : Writes(command, Generate(Contents, issued + 1))
        BY <1>2 DEF StartGenerates, RunNewPassword
    <2>2. issued < MaxIssued
        BY <2>1 DEF Writes
    <2> QED
        BY <1>0, <1>n, <2>1, <2>2, ChangeFacts, WritesStep
<1>3. CASE RunSetPassword
    <2>1. Writes("set-password", SetPassword(Contents, issued + 1)) /\ issued < MaxIssued
        BY <1>3 DEF RunSetPassword, Writes
    <2> QED
        BY <1>0, <1>n, <2>1, ChangeFacts, WritesStep
<1>4. CASE RunSetTurnKey
    <2>1. Writes("set-turn-key", SetTurnKey(Contents, issued + 1)) /\ issued < MaxIssued
        BY <1>4 DEF RunSetTurnKey, Writes
    <2> QED
        BY <1>0, <1>n, <2>1, ChangeFacts, WritesStep
<1>5. CASE Finish
    <2> USE DEF Finish
    <2>1. Whole(new)
        BY DEF SecretsInv, TypeOK, Whole
    <2>2. TypeOK'
        BY <1>5 DEF SecretsInv, TypeOK, stored
    <2>3. Paired'
        BY <1>5 DEF SecretsInv, Paired
    <2>4. StartsComplete'
        BY <1>5 DEF SecretsInv, StartsComplete
    <2>5. Relied'
        <3>1. Contents' = new
            BY <1>5, <2>1 DEF Contents, Whole
        <3>2. new.turn = kept'.turn /\ new.token = kept'.token
            BY <1>5 DEF SecretsInv, Relied
        <3>3. proc' \notin Commands
            BY <1>5
        <3> QED
            BY <1>5, <3>1, <3>2, <3>3 DEF Relied
    <2> QED
        BY <2>2, <2>3, <2>4, <2>5 DEF SecretsInv
<1>6. CASE ShowPassword
    <2> USE DEF ShowPassword
    <2>1. TypeOK'
        BY <1>6 DEF SecretsInv, TypeOK, StartsComplete, stored
    <2>2. Paired'
        BY <1>6 DEF SecretsInv, Paired
    <2>3. StartsComplete' /\ Relied'
        BY <1>6 DEF SecretsInv, StartsComplete, Relied, Contents
    <2> QED
        BY <2>1, <2>2, <2>3 DEF SecretsInv
<1>7. CASE CutOff
    <2> USE DEF CutOff
    <2>1. TypeOK'
        BY <1>7, VersionFacts DEF SecretsInv, TypeOK, Reliable, Whole
    <2>2. Paired'
        BY <1>7 DEF SecretsInv, Paired
    <2>3. StartsComplete'
        BY <1>7 DEF StartsComplete
    <2>4. Relied'
        <3>1. CASE file = Torn
            BY <1>7, <3>1 DEF Relied, Reliable, Contents, Whole, Blank
        <3>2. CASE proc \notin Commands
            BY <1>7, <3>2 DEF SecretsInv, Relied, Reliable, Contents, Whole, Blank
        <3> QED
            BY <3>1, <3>2 DEF SecretsInv, Relied
    <2> QED
        BY <2>1, <2>2, <2>3, <2>4 DEF SecretsInv
<1>8. CASE ServerStops
    <2> USE DEF ServerStops
    <2>1. TypeOK'
        BY <1>8 DEF SecretsInv, TypeOK
    <2>2. Paired'
        BY <1>8 DEF SecretsInv, Paired
    <2>3. StartsComplete' /\ Relied'
        BY <1>8 DEF SecretsInv, StartsComplete, Relied, Contents
    <2> QED
        BY <2>1, <2>2, <2>3 DEF SecretsInv
<1>11. CASE Login
    <2> DEFINE session == [secret |-> server.cookie, password |-> server.hash]
    <2>1. server \in stored /\ hasAllCore(server) /\ MadeTogether(server)
        BY <1>11 DEF Login, SecretsInv, TypeOK, Paired
    <2>2. session \in [secret : Versions, password : Versions]
        BY <2>1 DEF stored
    <2>3. session.secret = session.password
        BY <2>1 DEF MadeTogether
    <2>4. TypeOK'
        BY <1>11, <2>2 DEF Login, SecretsInv, TypeOK
    <2>5. Paired'
        BY <1>11, <2>3 DEF Login, SecretsInv, Paired
    <2>6. StartsComplete' /\ Relied'
        BY <1>11 DEF Login, SecretsInv, StartsComplete, Relied, Contents
    <2> QED
        BY <2>4, <2>5, <2>6 DEF SecretsInv
<1>9. CASE EditByHand
    <2> USE DEF EditByHand
    <2>0. Whole(file') => file' \in stored /\ MadeTogether(file')
        <3>1. CASE file' = Absent
            BY <3>1 DEF Whole
        <3>2. ASSUME Whole(file), NEW k \in Core, file' = [file EXCEPT ![k] = 0]
              PROVE  file' \in stored /\ MadeTogether(file')
            <4>1. file \in stored /\ MadeTogether(file)
                BY <3>2 DEF SecretsInv, TypeOK, Paired
            <4> QED
                BY <3>2, <4>1, VersionFacts DEF stored, MadeTogether
        <3> QED
            BY <1>9, <3>1, <3>2
    <2>1. TypeOK'
        BY <1>9, <2>0, ReliableFacts DEF SecretsInv, TypeOK
    <2>2. Paired'
        BY <1>9, <2>0 DEF SecretsInv, Paired
    <2>3. StartsComplete'
        BY <1>9 DEF StartsComplete
    <2>4. kept' = [token |-> Contents'.token, turn |-> Contents'.turn]
        BY <1>9 DEF Reliable, Contents, Blank
    <2>5. Relied'
        BY <1>9, <2>4 DEF Relied
    <2> QED
        BY <2>1, <2>2, <2>3, <2>5 DEF SecretsInv
<1>12. CASE WriteBack
    <2> USE DEF WriteBack
    <2>1. TypeOK'
        BY <1>12 DEF SecretsInv, TypeOK
    <2>2. Paired'
        BY <1>12 DEF SecretsInv, Paired
    <2>3. StartsComplete' /\ Relied'
        BY <1>12 DEF SecretsInv, StartsComplete, Relied, Contents
    <2> QED
        BY <2>1, <2>2, <2>3 DEF SecretsInv
<1>13. CASE PowerLoss
    <2> USE DEF PowerLoss
    <2>0. /\ Whole(file') => file' \in stored /\ MadeTogether(file')
          /\ disk' = file' /\ server' = NoServer /\ proc' = "none"
        BY <1>13 DEF SecretsInv, TypeOK, Paired, Whole
    <2>1. known' \in Versions
        BY <1>13, <2>0 DEF SecretsInv, TypeOK, stored
    <2>2. kept' \in [token : Versions, turn : Versions]
        BY <1>13, <2>0, ReliableFacts DEF SecretsInv, TypeOK
    <2>3. TypeOK'
        BY <1>13, <2>0, <2>1, <2>2 DEF SecretsInv, TypeOK
    <2>4. Paired'
        BY <1>13, <2>0 DEF SecretsInv, Paired
    <2>5. StartsComplete'
        BY <2>0 DEF StartsComplete
    <2>6. kept'.token = Contents'.token /\ kept'.turn = Contents'.turn
        <3>1. CASE file' = file /\ file # Torn
            BY <1>13, <3>1 DEF SecretsInv, Relied, Contents
        <3>2. CASE ~(file' = file /\ file # Torn)
            BY <1>13, <3>2 DEF Reliable, Contents, Blank
        <3> QED
            BY <3>1, <3>2
    <2>7. Relied'
        BY <2>0, <2>6 DEF Relied
    <2> QED
        BY <2>3, <2>4, <2>5, <2>7 DEF SecretsInv
<1>10. CASE UNCHANGED vars
    BY <1>10 DEF vars, SecretsInv, TypeOK, Paired, StartsComplete, Relied, Contents, Whole
<1> QED
    BY <1>1, <1>2, <1>3, <1>4, <1>5, <1>6, <1>7, <1>8, <1>9, <1>10, <1>11, <1>12,
       <1>13 DEF Next

LEMMA SecretsInvariant == Spec => []SecretsInv
<1>1. SecretsInv /\ [Next]_vars => SecretsInv'
    BY SecretsStep
<1> QED
    BY <1>1, SecretsInit, PTL DEF Spec

(* Every variable keeps its type, and no server runs on incomplete         *)
(* secrets (auth.go:130-157).                                              *)
THEOREM SecretTypes == Spec => []TypeOK
<1>1. SecretsInv => TypeOK
    BY DEF SecretsInv
<1> QED
    BY <1>1, SecretsInvariant, PTL

(* A server accepts only the cookies handed out under the password it      *)
(* serves: SetPassword and the start make hash and cookie secret together, *)
(* so the secret that signed a session names its password (auth.go:196).   *)
THEOREM SessionsLoggedOut == Spec => []LoggedOut
<1>1. SecretsInv => LoggedOut
    <2> SUFFICES ASSUME SecretsInv, NEW k \in cookies, validCookie(k)
                 PROVE  k.password = server.hash
        BY DEF LoggedOut
    <2>1. MadeTogether(server) /\ hasAllCore(server)
        BY DEF SecretsInv, TypeOK, Paired, validCookie
    <2>2. k.password = k.secret /\ k.secret = server.cookie
        BY DEF SecretsInv, Paired, validCookie
    <2> QED
        BY <2>1, <2>2 DEF MadeTogether
<1> QED
    BY <1>1, SecretsInvariant, PTL

(* Between commands the file holds the token and the TURN key the owner    *)
(* relies on, whichever commands ran since (auth.go:172, 199).             *)
THEOREM NothingLost == Spec => []SecretsKept
<1>1. SecretsInv => SecretsKept
    BY DEF SecretsInv, Relied, SecretsKept, Contents
<1> QED
    BY <1>1, SecretsInvariant, PTL

(* A torn file is written over by -new-password only: the start and the    *)
(* other two commands stop at a file that does not parse (auth.go:128).    *)
THEOREM TornStays == Spec => TornRefused
<1> DEFINE Refused == file = Torn /\ proc = "none" /\ proc' # "none" => proc' = "new-password"
<1>1. [Next]_vars => [Refused]_vars
    <2> SUFFICES ASSUME Next, file = Torn, proc = "none", proc' # "none"
                 PROVE  proc' = "new-password"
        OBVIOUS
    <2>1. RunNewPassword
        BY DEF Next, StartAsIs, StartGenerates, RunSetPassword, RunSetTurnKey, Finish,
               ShowPassword, CutOff, WriteBack, PowerLoss, ServerStops, Login, EditByHand
    <2> QED
        BY <2>1 DEF RunNewPassword, Writes
<1> QED
    BY <1>1, PTL DEF Spec, TornRefused
=============================================================================
