---------------------------- MODULE SecretsFile ----------------------------
(***************************************************************************)
(* The secrets file (internal/auth/auth.go) and the commands that read and *)
(* rewrite it (cmd/play/main.go): the server's start, -new-password,       *)
(* -set-password and -set-turn-key.  The file is rewritten in place, a     *)
(* command may be cut off in the middle, and a running server keeps what   *)
(* it has read.  A secret is the number of the command that made it.       *)
(***************************************************************************)
EXTENDS Integers

CONSTANTS MaxIssued,  \* bound: commands that make secrets
          MaxEdit,    \* bound: deletions and edits by hand
          Absent,     \* no file
          Torn,       \* a file that holds a prefix of the JSON, never valid
          NoServer

Versions == 0..MaxIssued     \* 0: not there
stored == [hash : Versions, token : Versions, cookie : Versions, turn : Versions]
Blank == [hash |-> 0, token |-> 0, cookie |-> 0, turn |-> 0]

ASSUME SecretsAssumption ==
    /\ MaxIssued \in Nat \ {0} /\ MaxEdit \in Nat
    /\ Absent \notin stored /\ Torn \notin stored /\ NoServer \notin stored
    /\ Absent # Torn

Commands == {"start", "new-password", "set-password", "set-turn-key"}

VARIABLES
    file,    \* the secrets file
    disk,    \* what of it has reached the disk
    proc,    \* the command that is running, "none" between commands
    new,     \* what it writes
    server,  \* the secrets of the running server: the Auth of its start
    issued,  \* how many commands have made secrets
    cookies, \* session cookies: whose secret signed them, under which password
    kept,    \* the token and TURN key the owner relies on
    known,   \* the password the owner has chosen or been shown last
    edits

vars == <<file, disk, proc, new, server, issued, cookies, kept, known, edits>>

Whole(f) == f \notin {Absent, Torn}
Core == {"hash", "token", "cookie"}
hasAnyCore(s) == \E k \in Core : s[k] # 0
hasAllCore(s) == \A k \in Core : s[k] # 0

TypeOK ==
    /\ Whole(file) => file \in stored
    /\ Whole(disk) => disk \in stored
    /\ proc \in Commands \cup {"none", "telling start", "telling new-password"}
    /\ new \in stored
    /\ server # NoServer => server \in stored /\ hasAllCore(server)
    /\ issued \in Versions /\ known \in Versions /\ edits \in 0..MaxEdit
    /\ cookies \subseteq [secret : Versions, password : Versions]
    /\ kept \in [token : Versions, turn : Versions]

Init ==
    /\ file = Absent /\ disk = Absent /\ proc = "none" /\ new = Blank /\ server = NoServer
    /\ issued = 0 /\ cookies = {} /\ known = 0 /\ edits = 0
    /\ kept = [token |-> 0, turn |-> 0]

-----------------------------------------------------------------------------
Contents == IF Whole(file) THEN file ELSE Blank

(* Load, where it generates: all three core secrets, nothing else.         *)
Generate(s, n) == [s EXCEPT !.hash = n, !.token = n, !.cookie = n]

(* Mutant: a new password leaves the old sessions valid.                   *)
SetPasswordKeepsCookies(s, n) ==
    [s EXCEPT !.hash = n, !.token = IF @ = 0 THEN n ELSE @]

(* SetPassword: sessions are invalidated, an existing token stays.         *)
SetPassword(s, n) ==
    [s EXCEPT !.hash = n, !.cookie = n, !.token = IF @ = 0 THEN n ELSE @]

(* Mutant: the key is stored in a config of its own.                       *)
SetTurnKeyAlone(s, n) == [Blank EXCEPT !.turn = n]

SetTurnKey(s, n) == [s EXCEPT !.turn = n]

(* write truncates the file first: from here to Finish it is torn.         *)
Writes(command, s) ==
    /\ proc = "none" /\ issued < MaxIssued
    /\ proc' = command /\ new' = s
    /\ file' = Torn /\ issued' = issued + 1
    /\ UNCHANGED <<disk, server, cookies, kept, known, edits>>

(* Mutant: one core secret is enough for Load to use the file.             *)
StartPartial ==
    /\ proc = "none" /\ server = NoServer
    /\ Whole(file) /\ hasAnyCore(file)
    /\ server' = file
    /\ UNCHANGED <<file, disk, proc, new, issued, cookies, kept, known, edits>>

(* Load on a complete file: it is used as it is.                           *)
StartAsIs ==
    /\ proc = "none" /\ server = NoServer
    /\ Whole(file) /\ hasAllCore(file)
    /\ server' = file
    /\ UNCHANGED <<file, disk, proc, new, issued, cookies, kept, known, edits>>

(* Mutant: a file that does not parse is taken for one that is not there.  *)
StartOnTorn ==
    /\ server = NoServer /\ ~hasAnyCore(Contents)
    /\ Writes("start", Generate(Contents, issued + 1))

(* Load without core secrets: they are generated, a stored TURN key stays. *)
(* A file that is torn, or has some core secrets, is refused.              *)
StartGenerates ==
    /\ server = NoServer /\ file # Torn /\ ~hasAnyCore(Contents)
    /\ Writes("start", Generate(Contents, issued + 1))

(* -new-password generates even over a torn file, and says that the TURN   *)
(* key is lost with it.                                                    *)
RunNewPassword == Writes("new-password", Generate(Contents, issued + 1))

RunSetPassword == file # Torn /\ Writes("set-password", SetPassword(Contents, issued + 1))
RunSetTurnKey == file # Torn /\ Writes("set-turn-key", SetTurnKey(Contents, issued + 1))

(* The whole file is written.                                              *)
Finish ==
    /\ proc \in Commands
    /\ file' = new
    /\ proc' = IF proc = "start" THEN "telling start"
               ELSE IF proc = "new-password" THEN "telling new-password" ELSE "none"
    /\ known' = IF proc = "set-password" THEN new.hash ELSE known
    /\ kept' = [token |-> IF \/ proc = "set-turn-key"
                             \/ (proc = "set-password" /\ kept.token # 0)
                          THEN kept.token ELSE new.token,
                turn |-> IF proc = "set-turn-key" THEN new.turn ELSE kept.turn]
    /\ UNCHANGED <<disk, new, server, issued, cookies, edits>>

(* setupAuth shows the generated password; a start goes on to serve.       *)
ShowPassword ==
    /\ proc \in {"telling start", "telling new-password"}
    /\ known' = new.hash
    /\ server' = IF proc = "telling start" THEN new ELSE server
    /\ proc' = "none"
    /\ UNCHANGED <<file, disk, new, issued, cookies, kept, edits>>

Reliable(f) == IF Whole(f) THEN [token |-> f.token, turn |-> f.turn] ELSE [token |-> 0, turn |-> 0]

(* The command is killed.                                                  *)
CutOff ==
    /\ proc # "none"
    /\ proc' = "none"
    /\ kept' = IF file = Torn THEN Reliable(Torn) ELSE kept
    /\ UNCHANGED <<file, disk, new, server, issued, cookies, known, edits>>

(* Nothing is synced: a file reaches the disk when the system writes it    *)
(* back.  Until then a loss of power may undo the write or tear it; the    *)
(* owner then relies on what there is, and may know its password.          *)
WriteBack ==
    /\ disk # file /\ disk' = file
    /\ UNCHANGED <<file, proc, new, server, issued, cookies, kept, known, edits>>

PowerLoss ==
    /\ disk # file
    /\ file' \in {file, disk, Torn} /\ disk' = file'
    /\ proc' = "none" /\ server' = NoServer
    /\ kept' = IF file' = file /\ file # Torn THEN kept ELSE Reliable(file')
    /\ known' \in {known} \cup (IF Whole(file') THEN {file'.hash} ELSE {})
    /\ UNCHANGED <<new, issued, cookies, edits>>

ServerStops ==
    /\ server # NoServer /\ server' = NoServer
    /\ UNCHANGED <<file, disk, proc, new, issued, cookies, kept, known, edits>>

(* handleLogin and signSession: no session is stored but in the cookie.    *)
Login ==
    /\ server # NoServer /\ server.hash = known
    /\ cookies' = cookies \cup {[secret |-> server.cookie, password |-> server.hash]}
    /\ UNCHANGED <<file, disk, proc, new, server, issued, kept, known, edits>>

(* validCookie: the signature is the server's.                             *)
validCookie(k) == server # NoServer /\ k.secret = server.cookie

(* The owner deletes the file, or takes a core secret out of it.           *)
EditByHand ==
    /\ proc = "none" /\ edits < MaxEdit /\ file # Absent
    /\ edits' = edits + 1
    /\ \/ file' = Absent
       \/ Whole(file) /\ \E k \in Core : file' = [file EXCEPT ![k] = 0]
    /\ kept' = Reliable(file')
    /\ UNCHANGED <<disk, proc, new, server, issued, cookies, known>>

Next ==
    \/ StartAsIs \/ StartGenerates \/ RunNewPassword \/ RunSetPassword \/ RunSetTurnKey
    \/ Finish \/ ShowPassword \/ CutOff \/ WriteBack \/ PowerLoss \/ ServerStops
    \/ Login \/ EditByHand

Spec == Init /\ [][Next]_vars

-----------------------------------------------------------------------------
(* A session outlives no change of password: a server accepts only cookies *)
(* handed out under the password it serves, whatever commands, crashes,    *)
(* writes undone by a loss of power and restarts lie between (auth.go:196). *)
LoggedOut ==
    \A k \in cookies : validCookie(k) => k.password = server.hash

(* What the owner relies on stays in the file across all other changes:    *)
(* the TURN key through new passwords, the host's token through a new      *)
(* password of the owner's choice and a new TURN key (auth.go:172, 199).   *)
(* What a cut or a loss of power takes from the file is not relied on.     *)
SecretsKept ==
    proc = "none" /\ Whole(file) => file.token = kept.token /\ file.turn = kept.turn

(* A file left torn by a crash is not silently replaced: it stays until    *)
(* the owner deletes it or asks for a new password (auth.go:163).          *)
TornRefused ==
    [][file = Torn /\ proc = "none" /\ proc' # "none" => proc' = "new-password"]_vars
=============================================================================
