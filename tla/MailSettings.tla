----------------------------- MODULE MailSettings -----------------------------
(***************************************************************************)
(* The mail server: mail.rs, api/mail.rs, and the mails that go through it *)
(* (api/users.rs, api/courier.rs).  One row, with a password sealed beside *)
(* it if the server wants one.                                             *)
(*                                                                         *)
(* "Without a new one, the stored one stays while the user name does": a   *)
(* save reads it, row and password in two statements, and seals it again.  *)
(* A mail reads both the same way while the server is changed.             *)
(***************************************************************************)
EXTENDS Naturals

CONSTANTS
    User,           \* user names at mail servers
    Password,
    Slot,           \* requests of administrators under way at once
    Mail,           \* mails under way at once
    MaxId,          \* bound: rows that are ever made
    MaxVersion,     \* bound: versions of the password
    None

VARIABLES
    row,            \* the table mail: None or [id, user, tls, ver]
    sealed,         \* secret_fields: <<id, version, password>>
    slot, mail,     \* saves and mails under way
    made,           \* ids given out
    sent,           \* history: how the last mail went out, until the next save
                    \* or test begins: [user, pw, tls]
    entered,        \* history: <<user, password>> entered together
    meant,          \* history: the password the last save is to leave
    crossed,        \* history: two first saves overlapped
    reused          \* history: a version was given out again

settingsVars == <<row, sealed, slot, mail, made, sent, entered, meant, crossed, reused>>

Init ==
    /\ row = None /\ sealed = {} /\ made = 0
    /\ slot = [s \in Slot |-> None] /\ mail = [m \in Mail |-> None]
    /\ sent = None /\ entered = {} /\ meant = None
    /\ crossed = FALSE /\ reused = FALSE

At(s, at) == slot[s] # None /\ slot[s].at = at
Frees(s) == slot' = [slot EXCEPT ![s] = None]

Sealed(id, ver) == {x \in sealed : x[1] = id /\ x[2] = ver}

Loaded(id, ver) ==
    IF Sealed(id, ver) = {} THEN None ELSE (CHOOSE x \in Sealed(id, ver) : TRUE)[3]
-----------------------------------------------------------------------------
(* Fault: a user name goes over an unencrypted connection.                  *)
ValidAlways(i) == i.new # None => i.user # None

(* server(): "A password never goes over an unencrypted connection", and a  *)
(* password needs a user name.                                              *)
Valid(i) ==
    /\ ~i.tls => i.user = None /\ i.new = None
    /\ i.new # None => i.user # None

(* password_for: a new password, or none if nobody signs in, or a look at   *)
(* the stored row.                                                          *)
Begin(s, i, test) ==
    /\ slot[s] = None /\ Valid(i)
    /\ slot' = [slot EXCEPT ![s] =
                  [i |-> i, test |-> test, pw |-> i.new, id |-> 0, ver |-> 0, user |-> None,
                   at |-> IF i.new # None \/ i.user = None THEN "begin" ELSE "read"]]
    /\ entered' = IF i.new = None THEN entered ELSE entered \cup {<<i.user, i.new>>}
    /\ sent' = None
    /\ UNCHANGED <<row, sealed, mail, made, meant, crossed, reused>>

ReadRow(s) ==
    /\ At(s, "read")
    /\ slot' = IF row = None \/ row.ver = None THEN [slot EXCEPT ![s].at = "begin"]
               ELSE [slot EXCEPT ![s].id = row.id, ![s].ver = row.ver,
                                 ![s].user = row.user, ![s].at = "load"]
    /\ UNCHANGED <<row, sealed, mail, made, sent, entered, meant, crossed, reused>>

(* Fault: the stored password stays, whoever it is of.                      *)
KeepsAny(before, user) == TRUE

Keeps(before, user) == before = user

LoadPassword(s) ==
    /\ At(s, "load")
    /\ slot' = [slot EXCEPT ![s].at = "begin",
                            ![s].pw = IF Keeps(slot[s].user, slot[s].i.user)
                                      THEN Loaded(slot[s].id, slot[s].ver) ELSE None]
    /\ UNCHANGED <<row, sealed, mail, made, sent, entered, meant, crossed, reused>>
-----------------------------------------------------------------------------
(* Fault: a password that is not kept stays sealed.                         *)
SealMore(id, ver, pw) ==
    IF ver = None THEN sealed
    ELSE {x \in sealed : x[1] # id \/ x[2] >= ver} \cup {<<id, ver, pw>>}

(* The password in a version of its own; the older ones go, all of them if  *)
(* there is none.                                                           *)
Seal(id, ver, pw) ==
    IF ver = None THEN {x \in sealed : x[1] # id}
    ELSE {x \in sealed : x[1] # id \/ x[2] >= ver} \cup {<<id, ver, pw>>}

Server(id, i, ver) == [id |-> id, user |-> i.user, tls |-> i.tls, ver |-> ver]

(* What the save is to leave, by the comment on Input.                      *)
Meant(i) ==
    IF i.new # None THEN i.new
    ELSE IF row # None /\ i.user # None /\ row.user = i.user THEN meant ELSE None

(* mail::save with the row locked: the next version, the first one again    *)
(* after a time without a password.                                         *)
Replace(s) ==
    LET i   == slot[s].i
        pw  == slot[s].pw
        ver == IF pw = None THEN None ELSE 1 + IF row.ver = None THEN 0 ELSE row.ver
    IN  /\ At(s, "begin") /\ ~slot[s].test /\ row # None
        /\ ver \in (1 .. MaxVersion) \cup {None}
        /\ IF ver # None /\ Sealed(row.id, ver) # {}
           THEN UNCHANGED <<row, sealed, meant, reused>>
           ELSE /\ row' = Server(row.id, i, ver)
                /\ sealed' = Seal(row.id, ver, pw)
                /\ meant' = Meant(i)
                /\ reused' = (reused \/ (ver # None /\ row.ver = None))
        /\ Frees(s)
        /\ UNCHANGED <<mail, made, sent, entered, crossed>>

FindNone(s) ==
    /\ At(s, "begin") /\ ~slot[s].test /\ row = None
    /\ made < MaxId /\ made' = made + 1
    /\ slot' = [slot EXCEPT ![s].id = made + 1, ![s].at = "insert"]
    /\ UNCHANGED <<row, sealed, mail, sent, entered, meant, crossed, reused>>

(* INSERT ... ON CONFLICT (singleton) DO UPDATE: the id is not updated.     *)
Insert(s) ==
    /\ At(s, "insert")
    /\ \E ver \in {IF slot[s].pw = None THEN None ELSE 1} :
          /\ row' = Server(IF row = None THEN slot[s].id ELSE row.id, slot[s].i, ver)
          /\ sealed' = Seal(slot[s].id, ver, slot[s].pw)
    /\ meant' = Meant(slot[s].i)
    /\ crossed' = (crossed \/ row # None)
    /\ Frees(s)
    /\ UNCHANGED <<mail, made, sent, entered, reused>>

Remove(s) ==
    /\ slot[s] = None /\ row # None
    /\ row' = None /\ sealed' = {x \in sealed : x[1] # row.id} /\ meant' = None
    /\ UNCHANGED <<slot, mail, made, sent, entered, crossed, reused>>

(* The database fails, or the handler is dropped before it commits.         *)
Fails(s) ==
    /\ slot[s] # None /\ Frees(s)
    /\ UNCHANGED <<row, sealed, mail, made, sent, entered, meant, crossed, reused>>
-----------------------------------------------------------------------------
(* send: stored() reads the row and then its password.                      *)
ReadServer(m) ==
    /\ mail[m] = None /\ row # None
    /\ mail' = [mail EXCEPT ![m] = row]
    /\ UNCHANGED <<row, sealed, slot, made, sent, entered, meant, crossed, reused>>

(* send_with: credentials are a user name and a password.                   *)
Send(m) ==
    /\ mail[m] # None
    /\ sent' = [user |-> mail[m].user, tls |-> mail[m].tls,
                pw |-> IF mail[m].ver = None \/ mail[m].user = None THEN None
                       ELSE Loaded(mail[m].id, mail[m].ver)]
    /\ mail' = [mail EXCEPT ![m] = None]
    /\ UNCHANGED <<row, sealed, slot, made, entered, meant, crossed, reused>>

(* test: a mail through the server entered, stored or not.                  *)
Test(s) ==
    /\ At(s, "begin") /\ slot[s].test
    /\ sent' = [user |-> slot[s].i.user, tls |-> slot[s].i.tls, pw |-> slot[s].pw]
    /\ Frees(s)
    /\ UNCHANGED <<row, sealed, mail, made, entered, meant, crossed, reused>>

Next ==
    \/ \E s \in Slot :
          \/ \E user \in User \cup {None}, new \in Password \cup {None}, tls \in BOOLEAN :
                \E test \in BOOLEAN : Begin(s, [user |-> user, new |-> new, tls |-> tls], test)
          \/ ReadRow(s) \/ LoadPassword(s) \/ Replace(s) \/ FindNone(s) \/ Insert(s)
          \/ Remove(s) \/ Fails(s) \/ Test(s)
    \/ \E m \in Mail : ReadServer(m) \/ Send(m)
-----------------------------------------------------------------------------
Stored == IF row = None \/ row.ver = None THEN None ELSE Loaded(row.id, row.ver)

TypeOK ==
    /\ row \in {None} \cup [id : 1 .. MaxId, user : User \cup {None}, tls : BOOLEAN,
                            ver : (1 .. MaxVersion) \cup {None}]
    /\ sealed \subseteq (1 .. MaxId) \X (1 .. MaxVersion) \X Password
    /\ sent \in {None} \cup [user : User \cup {None}, pw : Password \cup {None}, tls : BOOLEAN]

(* A password is stored, and sent, only with the user name it was entered   *)
(* for, whatever saves and mails overlap, and never over an unencrypted     *)
(* connection.  Two first saves that overlap are left out, and for the user *)
(* name readers that meet a version given out again after a time without a  *)
(* password.                                                                *)
PasswordFitsUser ==
    \A x \in {[user |-> row.user, tls |-> row.tls, pw |-> Stored] : o \in {row} \ {None}}
             \cup ({sent} \ {None}) :
        x.pw # None =>
            /\ x.tls
            /\ crossed \/ reused \/ <<x.user, x.pw>> \in entered

(* The row's password is there and no other is left, unless two first saves *)
(* overlapped.                                                              *)
OnlyItsPassword ==
    ~crossed => sealed = IF row = None \/ row.ver = None THEN {}
                         ELSE {<<row.id, row.ver, Stored>>}

(* One administrator at a time: the stored password is the last one entered *)
(* for as long as the user name stayed, and none otherwise.                 *)
StaysWithItsUser == Stored = meant
=============================================================================
