--------------------------- MODULE MCOrganisation ---------------------------
(***************************************************************************)
(* What holds an installation together, for TLC: access asked for just in  *)
(* time with one request at a time (J1) and with two under way (J2), the   *)
(* recovery of a personal vault with two requests under way (R1) and with  *)
(* a vault set up twice (R2), accounts and roles of two identities with    *)
(* two requests under way (M1), of one with a group and a request for      *)
(* access (M2) and with a second setup code (M3), the audit log (L), the   *)
(* key ring and its backups (K), the certificate (C), and the settings of  *)
(* the directory and of the mail server with one request at a time (D1     *)
(* with a sign-in beside it, D3 with two passwords, E1) and with two under *)
(* way (D2, D4 with a sign-in beside them, E2).                            *)
(* A behaviour is about one of them, `part'; the variables of the others   *)
(* are None.                                                               *)
(***************************************************************************)
EXTENDS Permissions, TLC

CONSTANTS
    ann, bob, f1, d1, r1, s1, s2, i1, i2, g1, u1, u2, l1, m1, p1, p2, w1, w2, x, t1, t2, t3,
    Automatic, NotYet, None

VARIABLES
    part,
    there, grants, request, clock, slot,
    keys, made, wraps, gen, entries, recovery, handed, rSlot, stale,
    code, codes, admin, step, done, kratos, rows, signedIn, groups, mentions, asked,
    sessions, mSlot, mMade, late, swept,
    log, tx, lock, lDone, refused, walk,
    file, ring, sealed, kKeys, escrow, keeping, backup, excused, lost,
    row, files, caddy, up, cSlot, astray,
    dRow, dSealed, current, dSlot, login, dSessions, dMade, checked, dCrossed, dBroken,
    eRow, eSealed, eSlot, mail, eMade, sent, entered, meant, eCrossed, reused

Someone(p) == p :> [sids |-> {p}, admin |-> FALSE]
People == Someone(ann) @@ Someone(bob)

Given(p, role) == [on |-> f1, to |-> p, role |-> role, until |-> 0, req |-> None]
Granted0 == {Given(ann, List), Given(bob, Manage)}
Root == f1 :> Top
Tree == Root @@ d1 :> f1

\* Certificates of this host, of a wildcard for it that ends soon, of another
\* host, one that has expired, and one that is not its key's.
HostName == <<"hub", "example">>
Certificate(id, key, name, until) ==
    [id |-> id, key |-> key, names |-> {name}, from |-> 0, until |-> until]
Certificates0 ==
    {Certificate("c1", "c1", HostName, 9), Certificate("c2", "c2", <<"*", "example">>, 2),
     Certificate("c3", "c3", <<"*", "hub", "example">>, 9),
     Certificate("c4", "c4", HostName, 1), Certificate("c5", "c1", HostName, 9)}

Unasked == r1 :> None

Both == {ann, bob}
OnlyBob == {bob}
OneRequest == {r1}
OneMinute == {1}
Objects == {f1, d1}
OneObject == {f1}
ManageOnly == {Manage}
ConnectOnly == {Connect}
Nothing == {}
Slots == {s1, s2}
Identities == {i1, i2}
OneIdentity == {i1}
OneGroup == {g1}
OneTable == {"administrator"}
TwoTables == {"administrator", "grants"}
OneUser == {u1}
OneSlot == {s1}
Transactions == {t1, t2, t3}
OneApart == {t3}
Places == {p1, p2}
OneRest == {x}
Passwords == {w1, w2}
OnePassword == {w1}
OnePlace == {p1}
OneLogin == {l1}
MailUsers == {u1, u2}
OneMail == {m1}

\* Two requests under way differ in nothing.
Interchangeable == Permutations(Slots)

J1 == INSTANCE AccessRequests WITH
        Object <- Objects, Parent <- Tree, Person <- Both, Subject <- People, Named <- Both,
        First <- Granted0, Request <- OneRequest, MaxTime <- 1, MaxGrants <- 3,
        Minutes <- OneMinute, Granted <- ManageOnly, Slot <- Nothing

J2 == INSTANCE AccessRequests WITH
        Object <- OneObject, Parent <- Root, Person <- Both, Subject <- People,
        Named <- Both, First <- Granted0, Request <- OneRequest, MaxTime <- 1,
        MaxGrants <- 2, Minutes <- OneMinute, Granted <- ConnectOnly, Slot <- Slots

R1 == INSTANCE Recoveries WITH
        Admin <- Both, Officer <- OnlyBob, Recovery <- OneRequest, MaxKey <- 2, MaxGen <- 1,
        Slot <- Slots,
        slot <- rSlot

R2 == INSTANCE Recoveries WITH
        Admin <- Both, Officer <- OnlyBob, Recovery <- OneRequest, MaxKey <- 2, MaxGen <- 2,
        Slot <- OneSlot,
        slot <- rSlot

M1 == INSTANCE Administration WITH
        Identity <- Identities, Group <- Nothing, Tables <- OneTable, Slot <- Slots,
        MaxCodes <- 1, Asking <- Nothing,
        slot <- mSlot, made <- mMade

M3 == INSTANCE Administration WITH
        Identity <- Identities, Group <- Nothing, Tables <- OneTable, Slot <- OneSlot,
        MaxCodes <- 2, Asking <- Nothing,
        slot <- mSlot, made <- mMade

M2 == INSTANCE Administration WITH
        Identity <- OneIdentity, Group <- OneGroup, Tables <- TwoTables, Slot <- Slots,
        MaxCodes <- 1, Asking <- OneIdentity,
        slot <- mSlot, made <- mMade

L == INSTANCE AuditLog WITH
        User <- OneUser, Tx <- Transactions, Apart <- OneApart, Limit <- 2, MaxLog <- 4,
        done <- lDone

K == INSTANCE Keyring WITH
        MaxVersion <- 3, MaxKey <- 2,
        keys <- kKeys

C == INSTANCE Certificates WITH
        Uploads <- Certificates0, Host <- HostName, Today <- 1, Slot <- Slots,
        slot <- cSlot

D1 == INSTANCE DirectorySettings WITH
        Place <- Places, Rest <- OneRest, Password <- OnePassword, Slot <- OneSlot,
        Login <- OneLogin, MaxId <- 2, MaxVersion <- 2,
        row <- dRow, sealed <- dSealed, slot <- dSlot, sessions <- dSessions, made <- dMade,
        crossed <- dCrossed, broken <- dBroken

D3 == INSTANCE DirectorySettings WITH
        Place <- Places, Rest <- OneRest, Password <- Passwords, Slot <- OneSlot,
        Login <- Nothing, MaxId <- 2, MaxVersion <- 2,
        row <- dRow, sealed <- dSealed, slot <- dSlot, sessions <- dSessions, made <- dMade,
        crossed <- dCrossed, broken <- dBroken

D2 == INSTANCE DirectorySettings WITH
        Place <- OnePlace, Rest <- OneRest, Password <- OnePassword, Slot <- Slots,
        Login <- Nothing, MaxId <- 2, MaxVersion <- 2,
        row <- dRow, sealed <- dSealed, slot <- dSlot, sessions <- dSessions, made <- dMade,
        crossed <- dCrossed, broken <- dBroken

D4 == INSTANCE DirectorySettings WITH
        Place <- Places, Rest <- OneRest, Password <- OnePassword, Slot <- Slots,
        Login <- OneLogin, MaxId <- 1, MaxVersion <- 2,
        row <- dRow, sealed <- dSealed, slot <- dSlot, sessions <- dSessions, made <- dMade,
        crossed <- dCrossed, broken <- dBroken

E1 == INSTANCE MailSettings WITH
        User <- MailUsers, Password <- OnePassword, Slot <- OneSlot, Mail <- OneMail,
        MaxId <- 2, MaxVersion <- 2,
        row <- eRow, sealed <- eSealed, slot <- eSlot, made <- eMade, crossed <- eCrossed

E2 == INSTANCE MailSettings WITH
        User <- MailUsers, Password <- OnePassword, Slot <- Slots, Mail <- Nothing,
        MaxId <- 1, MaxVersion <- 2,
        row <- eRow, sealed <- eSealed, slot <- eSlot, made <- eMade, crossed <- eCrossed

jvars == <<there, grants, request, clock, slot>>
rvars == <<keys, made, wraps, gen, entries, recovery, handed, rSlot, stale>>
mvars == <<code, codes, admin, step, done, kratos, rows, signedIn, groups, mentions,
           asked, sessions, mSlot, mMade, late, swept>>
lvars == <<log, tx, lock, lDone, refused, walk>>
kvars == <<file, ring, sealed, kKeys, escrow, keeping, backup, excused, lost>>
cvars == <<row, files, caddy, up, cSlot, astray>>
dvars == <<dRow, dSealed, current, dSlot, login, dSessions, dMade, checked, dCrossed,
           dBroken>>
evars == <<eRow, eSealed, eSlot, mail, eMade, sent, entered, meant, eCrossed, reused>>
vars == <<part, jvars, rvars, mvars, lvars, kvars, cvars, dvars, evars>>

NoJ ==
    /\ there = None /\ grants = None /\ request = None /\ clock = None /\ slot = None
NoR ==
    /\ keys = None /\ made = None /\ wraps = None /\ gen = None /\ entries = None
    /\ recovery = None /\ handed = None /\ rSlot = None /\ stale = None
NoM ==
    /\ code = None /\ codes = None /\ admin = None /\ step = None /\ done = None
    /\ kratos = None /\ rows = None /\ signedIn = None /\ groups = None /\ mentions = None
    /\ asked = None /\ sessions = None /\ mSlot = None /\ mMade = None /\ late = None /\ swept = None
NoL ==
    /\ log = None /\ tx = None /\ lock = None /\ lDone = None /\ refused = None
    /\ walk = None
NoK ==
    /\ file = None /\ ring = None /\ sealed = None /\ kKeys = None /\ escrow = None
    /\ keeping = None /\ backup = None /\ excused = None /\ lost = None
NoC ==
    /\ row = None /\ files = None /\ caddy = None /\ up = None /\ cSlot = None
    /\ astray = None
NoD ==
    /\ dRow = None /\ dSealed = None /\ current = None /\ dSlot = None /\ login = None
    /\ dSessions = None /\ dMade = None /\ checked = None /\ dCrossed = None
    /\ dBroken = None
NoE ==
    /\ eRow = None /\ eSealed = None /\ eSlot = None /\ mail = None /\ eMade = None
    /\ sent = None /\ entered = None /\ meant = None /\ eCrossed = None /\ reused = None

Init ==
    \/ part = "J1" /\ J1!Init /\ NoR /\ NoM /\ NoL /\ NoK /\ NoC /\ NoD /\ NoE
    \/ part = "J2" /\ J2!Init /\ NoR /\ NoM /\ NoL /\ NoK /\ NoC /\ NoD /\ NoE
    \/ part = "R1" /\ R1!Init /\ NoJ /\ NoM /\ NoL /\ NoK /\ NoC /\ NoD /\ NoE
    \/ part = "R2" /\ R2!Init /\ NoJ /\ NoM /\ NoL /\ NoK /\ NoC /\ NoD /\ NoE
    \/ part = "M1" /\ M1!Init /\ NoJ /\ NoR /\ NoL /\ NoK /\ NoC /\ NoD /\ NoE
    \/ part = "M3" /\ M3!Init /\ NoJ /\ NoR /\ NoL /\ NoK /\ NoC /\ NoD /\ NoE
    \/ part = "M2" /\ M2!Init /\ NoJ /\ NoR /\ NoL /\ NoK /\ NoC /\ NoD /\ NoE
    \/ part = "L" /\ L!Init /\ NoJ /\ NoR /\ NoM /\ NoK /\ NoC /\ NoD /\ NoE
    \/ part = "K" /\ K!Init /\ NoJ /\ NoR /\ NoM /\ NoL /\ NoC /\ NoD /\ NoE
    \/ part = "C" /\ C!Init /\ NoJ /\ NoR /\ NoM /\ NoL /\ NoK /\ NoD /\ NoE
    \/ part = "D1" /\ D1!Init /\ NoJ /\ NoR /\ NoM /\ NoL /\ NoK /\ NoC /\ NoE
    \/ part = "D3" /\ D3!Init /\ NoJ /\ NoR /\ NoM /\ NoL /\ NoK /\ NoC /\ NoE
    \/ part = "D2" /\ D2!Init /\ NoJ /\ NoR /\ NoM /\ NoL /\ NoK /\ NoC /\ NoE
    \/ part = "D4" /\ D4!Init /\ NoJ /\ NoR /\ NoM /\ NoL /\ NoK /\ NoC /\ NoE
    \/ part = "E1" /\ E1!Init /\ NoJ /\ NoR /\ NoM /\ NoL /\ NoK /\ NoC /\ NoD
    \/ part = "E2" /\ E2!Init /\ NoJ /\ NoR /\ NoM /\ NoL /\ NoK /\ NoC /\ NoD

\* Nor do two identities nobody invited: the first is invited first.
FirstInvited == kratos'[i2] # "free" => kratos'[i1] # "free"

Next ==
    \/ part = "J1" /\ J1!Next /\ UNCHANGED <<part, rvars, mvars, lvars, kvars, cvars, dvars, evars>>
    \/ part = "J2" /\ J2!Next /\ UNCHANGED <<part, rvars, mvars, lvars, kvars, cvars, dvars, evars>>
    \/ part = "R1" /\ R1!Next /\ UNCHANGED <<part, jvars, mvars, lvars, kvars, cvars, dvars, evars>>
    \/ part = "R2" /\ R2!Next /\ UNCHANGED <<part, jvars, mvars, lvars, kvars, cvars, dvars, evars>>
    \/ /\ part = "M1" /\ M1!Next /\ FirstInvited
       /\ UNCHANGED <<part, jvars, rvars, lvars, kvars, cvars, dvars, evars>>
    \/ /\ part = "M3" /\ M3!Next /\ FirstInvited
       /\ UNCHANGED <<part, jvars, rvars, lvars, kvars, cvars, dvars, evars>>
    \/ part = "M2" /\ M2!Next /\ UNCHANGED <<part, jvars, rvars, lvars, kvars, cvars, dvars, evars>>
    \/ part = "L" /\ L!Next /\ UNCHANGED <<part, jvars, rvars, mvars, kvars, cvars, dvars, evars>>
    \/ part = "K" /\ K!Next /\ UNCHANGED <<part, jvars, rvars, mvars, lvars, cvars, dvars, evars>>
    \/ part = "C" /\ C!Next /\ UNCHANGED <<part, jvars, rvars, mvars, lvars, kvars, dvars, evars>>
    \/ part = "D1" /\ D1!Next /\ UNCHANGED <<part, jvars, rvars, mvars, lvars, kvars, cvars, evars>>
    \/ part = "D3" /\ D3!Next /\ UNCHANGED <<part, jvars, rvars, mvars, lvars, kvars, cvars, evars>>
    \/ part = "D2" /\ D2!Next /\ UNCHANGED <<part, jvars, rvars, mvars, lvars, kvars, cvars, evars>>
    \/ part = "D4" /\ D4!Next /\ UNCHANGED <<part, jvars, rvars, mvars, lvars, kvars, cvars, evars>>
    \/ part = "E1" /\ E1!Next /\ UNCHANGED <<part, jvars, rvars, mvars, lvars, kvars, cvars, dvars>>
    \/ part = "E2" /\ E2!Next /\ UNCHANGED <<part, jvars, rvars, mvars, lvars, kvars, cvars, dvars>>

Spec == Init /\ [][Next]_vars

-----------------------------------------------------------------------------
ASSUME ConstantsFit ==
    /\ J1!ConstantsOK /\ J2!ConstantsOK /\ R1!ConstantsOK /\ R2!ConstantsOK /\ L!ConstantsOK
    /\ M1!ConstantsOK /\ M2!ConstantsOK /\ M3!ConstantsOK

(* What takes two people, as an implementation of FourEyes: just-in-time    *)
(* access and the recovery of a personal vault.                             *)
Eyes == INSTANCE FourEyes WITH
    Item <- OneRequest, Person <- Both, Nobody <- None,
    asker <- CASE part = "J1" -> J1!Asker [] part = "J2" -> J2!Asker
               [] part = "R1" -> R1!Asker [] part = "R2" -> R2!Asker
               [] OTHER -> Unasked,
    second <- CASE part = "J1" -> J1!Second [] part = "J2" -> J2!Second
                [] part = "R1" -> R1!Second [] part = "R2" -> R2!Second
                [] OTHER -> Unasked,
    carried <- CASE part = "J1" -> J1!Carried [] part = "J2" -> J2!Carried
                 [] part = "R1" -> R1!Carried [] part = "R2" -> R2!Carried
                 [] OTHER -> {}

(* "Four eyes": one person asks, another agrees, once, and only then is it  *)
(* carried out, whatever overlaps.                                          *)
ImplementsFourEyes == Eyes!Spec

(* A grant that comes from a request is the one that was approved, and      *)
(* everyone may do what the grants in force say, no less and no more.       *)
GrantIsWhatWasApproved ==
    /\ part = "J1" => J1!TypeOK /\ J1!GrantIsWhatWasApproved /\ J1!AccessIsWhatGrantsSay
    /\ part = "J2" => J2!TypeOK /\ J2!GrantIsWhatWasApproved

(* What was decided, cancelled or completed stays so, and no step takes the *)
(* last way into a vault from its owner.                                    *)
DecidedForGood ==
    [][/\ part = "J1" => J1!DecidedForGoodStep
       /\ part = "J2" => J2!DecidedForGoodStep
       /\ part = "R1" => R1!EndedForGoodStep /\ R1!OwnWayStaysStep
       /\ part = "R2" => R2!EndedForGoodStep /\ R2!OwnWayStaysStep]_vars

(* Nobody gives themselves more (one request at a time).                    *)
NobodyRaisesThemselves == [][part = "J1" => J1!NobodyRaisesThemselvesStep]_vars

(* Secrets stay within reach: the key a vault's wrap names is there; with a *)
(* recovery key a backup opens without the host it comes from; and whatever *)
(* the server sealed it opens.                                              *)
BackupRestores ==
    /\ part = "R1" => R1!TypeOK /\ R1!CoveredByAKey
    /\ part = "R2" => R2!TypeOK /\ R2!CoveredByAKey
    /\ part = "K" => K!TypeOK /\ K!BackupRestores /\ K!RunningOpensAll


(* The audit log's chain holds, with no entry of what was not done and one  *)
(* of all that is recorded in its own transaction; paging shows each once,  *)
(* and nobody waits in a circle for it.                                     *)
ChainHolds ==
    part = "L" => L!TypeOK /\ L!ChainHolds /\ L!PagesShowAll /\ L!NobodyWaitsInACircle

(* What is set up is the same wherever it is kept: the certificate in the   *)
(* database, in the files and with Caddy; the directory as stored, as       *)
(* checked and as sign-ins use it; a password with the row and the user it  *)
(* was entered for.                                                         *)
PlacesAgree ==
    /\ part = "C" => C!TypeOK /\ C!PlacesAgree
    /\ part = "D1" => /\ D1!TypeOK /\ D1!StoredIsInUse
                      /\ D1!OnlyItsPassword /\ D1!SessionsOfTheDirectory
    /\ part = "D3" => D3!TypeOK /\ D3!StoredIsInUse /\ D3!OnlyItsPassword
    /\ part = "D2" => D2!TypeOK /\ D2!OnlyItsPassword
    /\ part = "D4" => D4!TypeOK /\ D4!OnlyItsPassword /\ D4!SessionsOfTheDirectory
    /\ part = "E1" => /\ E1!TypeOK /\ E1!StaysWithItsUser
                      /\ E1!OnlyItsPassword /\ E1!PasswordFitsUser
    /\ part = "E2" => E2!TypeOK /\ E2!OnlyItsPassword /\ E2!PasswordFitsUser
=============================================================================
