---------------------------- MODULE Administration ----------------------------
(***************************************************************************)
(* Who administers remotehub: the setup of a fresh installation (setup.rs, *)
(* api/setup.rs), the administrator role (api/roles.rs), groups of         *)
(* remotehub's own (api/groups.rs) and local accounts (api/users.rs,       *)
(* api/accounts.rs), which live in Kratos (kratos.rs); and of the requests *)
(* for access (api/requests.rs) whom they name.                            *)
(*                                                                         *)
(* Kratos and the database are two systems: a handler changes the one,     *)
(* then the other, and may fail in between.  Handlers that do so, or that  *)
(* check before their transaction, take several steps; a break-glass       *)
(* account may be the administrator who asks.                              *)
(***************************************************************************)
EXTENDS Naturals, FiniteSets

CONSTANTS
    Identity,   \* the identities Kratos gives out
    Group,      \* groups of remotehub's own
    Tables,     \* "administrator": role_assignments; "grants"; others that name
                \* principals
    Asking,     \* the identities that ask for access
    Slot,       \* requests under way at once
    MaxCodes,   \* bound: setup codes ever made
    None

VARIABLES
    code, codes,    \* instance.setup_code_hash (0: none), and how many there were
    admin,          \* instance.setup_administrator
    step, done,     \* instance.setup_step, setup_completed_at
    kratos,         \* [Identity -> how far the account is in Kratos]
    rows,           \* [Identity -> its row in users]; "again": a second one
    signedIn,       \* whose row has a last_sign_in_at
    groups,         \* [Group -> its row]
    mentions,       \* <<table or group, principal it names>>: role_assignments,
                    \* grants and rules, group_members
    asked,          \* access_requests that are pending: who asks (requester_sid)
    sessions,       \* <<identity, "own" or "again": the row it belongs to>>
    slot,
    made,           \* history: setup's administrators: <<identity, code, done>>
    late,           \* history: what was being entered, or deleted, when
                    \* another request or a failure came between, or was
                    \* granted access it had asked for before it was deleted
    swept           \* history: a deletion took the role from someone

instance == <<code, codes, admin, step, done>>
tables   == <<rows, signedIn, groups, mentions, asked, sessions>>
history  == <<made, late, swept>>
administrationVars == <<instance, kratos, tables, slot, history>>

Last == 6
Principal == Identity \cup Group

(* What a request under way holds.                                          *)
Tasks ==
    [at : {"checked", "dropped", "asked"}, code : 1 .. MaxCodes, id : Identity \cup {None}]
      \cup [at : {"assign"}, table : Tables \cup Group, id : Principal]
      \cup [at : {"revoke", "invite", "whoami", "delete", "gone"}, id : Principal]

(* Accounts and groups have ids of their own, and no table is one of them.  *)
ConstantsOK ==
    /\ MaxCodes \in Nat
    /\ Identity \cap Group = {}
    /\ "administrator" \in Tables /\ Tables \cap Principal = {}
    /\ Asking \subseteq Identity /\ (Asking # {} => "grants" \in Tables)
    /\ None \notin Principal \cup Tasks

Init ==
    /\ code = 0 /\ codes = 0 /\ admin = None /\ step = 0 /\ done = FALSE
    /\ kratos = [i \in Identity |-> "free"]
    /\ rows = [i \in Identity |-> "none"]
    /\ groups = [g \in Group |-> "none"]
    /\ signedIn = {} /\ mentions = {} /\ asked = {} /\ sessions = {}
    /\ slot = [s \in Slot |-> None]
    /\ made = {} /\ late = {} /\ swept = FALSE

Named(table) == {p \in Principal : <<table, p>> \in mentions}
Living(p) ==
    \/ p \in Group /\ groups[p] = "there"
    \/ p \in Identity /\ rows[p] = "there"

(* A deletion takes what names p with it.                                   *)
Sweep(p) ==
    /\ mentions' = {m \in mentions : p \notin {m[1], m[2]}}
    /\ swept' = (swept \/ <<"administrator", p>> \in mentions)

At(s, at) == slot[s] # None /\ slot[s].at = at
Frees(s) == slot' = [slot EXCEPT ![s] = None]
Moves(s, at) == slot' = [slot EXCEPT ![s].at = at]

(* The row of instance, locked by a request under way.                      *)
Locked == \E s \in Slot : \E at \in {"checked", "dropped", "asked", "revoke"} : At(s, at)

(* setup::gate: until there is an administrator only the wizard is open.    *)
Open == admin # None

-----------------------------------------------------------------------------
(* Setup.                                                                   *)

(* new_code, on the command line.                                           *)
NewCode ==
    /\ ~done /\ ~Locked /\ codes < MaxCodes
    /\ codes' = codes + 1 /\ code' = codes'
    /\ UNCHANGED <<admin, step, done, kratos, tables, slot, history>>

(* Fault: the row is read without a lock.                                   *)
CheckCodeUnlocked(s, c) ==
    /\ slot[s] = None
    /\ ~done /\ c = code /\ code # 0
    /\ slot' = [slot EXCEPT ![s] = [at |-> "checked", code |-> c, id |-> None]]
    /\ UNCHANGED <<instance, kratos, tables, history>>

(* administrator, up to check_code: SELECT ... FOR UPDATE.                  *)
CheckCode(s, c) ==
    /\ slot[s] = None
    /\ ~Locked
    /\ ~done /\ c = code /\ code # 0
    /\ slot' = [slot EXCEPT ![s] = [at |-> "checked", code |-> c, id |-> None]]
    /\ UNCHANGED <<instance, kratos, tables, history>>

(* The administrator of an earlier code, who never signed in, goes.         *)
DropPrevious(s) ==
    /\ At(s, "checked")
    /\ IF admin \in signedIn
       THEN Frees(s) /\ UNCHANGED kratos
       ELSE /\ Moves(s, "dropped")
            /\ kratos' = [i \in Identity |-> IF i = admin /\ Living(i) THEN "deleted" ELSE kratos[i]]
    /\ UNCHANGED <<instance, tables, history>>

(* kratos.invite: the identity is there from now on, whatever follows.      *)
InviteAdministrator(s, i) ==
    /\ At(s, "dropped")
    /\ kratos[i] = "free"
    /\ kratos' = [kratos EXCEPT ![i] = "invited"]
    /\ slot' = [slot EXCEPT ![s].at = "asked", ![s].id = i]
    /\ UNCHANGED <<instance, tables, history>>

(* The transaction's writes.                                                *)
MakeAdministrator(s) ==
    /\ At(s, "asked")
    /\ \E i \in {slot[s].id}, gone \in {{p \in {admin} : Living(p)}} :
       /\ rows' = [j \in Identity |-> CASE j = i -> "there"
                                        [] j \in gone -> "deleted"
                                        [] OTHER -> rows[j]]
       /\ mentions' = {m \in mentions : m \notin {"administrator"} \X gone}
                        \cup {<<"administrator", i>>}
       /\ late' = late \cup gone
       /\ admin' = i
       /\ made' = made \cup {<<i, slot[s].code, done>>}
    /\ code' = 0 /\ step' = 1
    /\ Frees(s)
    /\ UNCHANGED <<codes, done, kratos, signedIn, groups, asked, sessions, swept>>

(* require_setting_up is asked before the statement.                        *)
Step(n) ==
    /\ Open /\ ~done /\ ~Locked
    /\ step' = IF n > step THEN n ELSE step
    /\ UNCHANGED <<code, codes, admin, done, kratos, tables, slot, history>>

Complete ==
    /\ Open /\ ~done /\ ~Locked
    /\ done' = TRUE /\ code' = 0 /\ step' = Last
    /\ UNCHANGED <<codes, admin, kratos, tables, slot, history>>

-----------------------------------------------------------------------------
(* Roles, grants and groups.                                                *)

(* assign, add_member, and likewise add_grant and the rules:                *)
(* principal.check comes before the transaction.                            *)
Assign(s, table, p) ==
    /\ Open /\ slot[s] = None
    /\ Living(p)
    /\ table \in Group => groups[table] = "there" /\ p \in Identity
    /\ slot' = [slot EXCEPT ![s] = [at |-> "assign", table |-> table, id |-> p]]
    /\ UNCHANGED <<instance, kratos, tables, history>>

(* A group's row is locked, and must be there.                              *)
AssignTx(s) ==
    /\ At(s, "assign")
    /\ slot[s].table \in Group => groups[slot[s].table] = "there"
    /\ mentions' = mentions \cup {<<slot[s].table, slot[s].id>>}
    /\ late' = IF Living(slot[s].id) THEN late ELSE late \cup {slot[s].id}
    /\ Frees(s)
    /\ UNCHANGED <<instance, kratos, rows, signedIn, groups, asked, sessions, made, swept>>

(* remove_member, remove_grant.                                             *)
Remove(m) ==
    /\ Open /\ m[1] # "administrator"
    /\ mentions' = mentions \ {m}
    /\ UNCHANGED <<instance, kratos, rows, signedIn, groups, asked, sessions, slot, history>>

(* create: whoever is signed in asks, for the principal of their account.   *)
AskForAccess(i) ==
    /\ Open /\ <<i, "own">> \in sessions /\ i \notin asked
    /\ asked' = asked \cup {i}
    /\ UNCHANGED <<instance, kratos, rows, signedIn, groups, mentions, sessions, slot, history>>

(* decide: approved, the principal is granted it, whoever it still is.      *)
ApproveAccess(i) ==
    /\ Open /\ i \in asked
    /\ asked' = asked \ {i}
    /\ mentions' = mentions \cup {<<"grants", i>>}
    /\ late' = IF Living(i) THEN late ELSE late \cup {i}
    /\ UNCHANGED <<instance, kratos, rows, signedIn, groups, sessions, slot, made, swept>>

(* decide, denied, and cancel.                                              *)
EndRequest(i) ==
    /\ Open /\ i \in asked
    /\ asked' = asked \ {i}
    /\ UNCHANGED <<instance, kratos, rows, signedIn, groups, mentions, sessions, slot, history>>


(* revoke: deletes and counts under the lock ...                            *)
Revoke(s, p) ==
    /\ Open /\ slot[s] = None
    /\ ~Locked
    /\ p \in Named("administrator") /\ Named("administrator") # {p}
    /\ slot' = [slot EXCEPT ![s] = [at |-> "revoke", id |-> p]]
    /\ UNCHANGED <<instance, kratos, tables, history>>

(* ... and commits.                                                         *)
RevokeTx(s) ==
    /\ At(s, "revoke")
    /\ mentions' = mentions \ {<<"administrator", slot[s].id>>}
    /\ Frees(s)
    /\ UNCHANGED <<instance, kratos, rows, signedIn, groups, asked, sessions, history>>

CreateGroup(g) ==
    /\ Open /\ groups[g] = "none"
    /\ groups' = [groups EXCEPT ![g] = "there"]
    /\ UNCHANGED <<instance, kratos, rows, signedIn, mentions, asked, sessions, slot, history>>

(* Fault: what names the group stays.                                       *)
DeleteGroupOnly(g) ==
    /\ Open /\ groups[g] = "there"
    /\ groups' = [groups EXCEPT ![g] = "deleted"]
    /\ UNCHANGED <<instance, kratos, rows, signedIn, mentions, asked, sessions, slot, history>>

(* delete; the members go by CASCADE.                                       *)
DeleteGroup(g) ==
    /\ Open /\ groups[g] = "there"
    /\ groups' = [groups EXCEPT ![g] = "deleted"]
    /\ Sweep(g)
    /\ UNCHANGED <<instance, kratos, rows, signedIn, asked, sessions, slot, made, late>>

-----------------------------------------------------------------------------
(* Local accounts.                                                          *)

(* invite: Kratos, then the row.                                            *)
Invite(s, i) ==
    /\ Open /\ slot[s] = None
    /\ kratos[i] = "free"
    /\ kratos' = [kratos EXCEPT ![i] = "invited"]
    /\ slot' = [slot EXCEPT ![s] = [at |-> "invite", id |-> i]]
    /\ UNCHANGED <<instance, tables, history>>

InviteTx(s) ==
    /\ At(s, "invite")
    /\ rows' = [rows EXCEPT ![slot[s].id] = IF @ = "none" THEN "there" ELSE @]
    /\ Frees(s)
    /\ UNCHANGED <<instance, kratos, signedIn, groups, mentions, asked, sessions, history>>

(* External: the owner uses the code and sets a second factor up.           *)
UseInvitation(i) ==
    /\ kratos[i] = "invited"
    /\ kratos' = [kratos EXCEPT ![i] = "active"]
    /\ UNCHANGED <<instance, tables, slot, history>>

(* sign_in: whoami answers with a session after a second factor ...         *)
WhoAmI(s, i) ==
    /\ slot[s] = None
    /\ kratos[i] = "active"
    /\ slot' = [slot EXCEPT ![s] = [at |-> "whoami", id |-> i]]
    /\ UNCHANGED <<instance, kratos, tables, history>>

(* ... upsert_local_user finds the identity's row, or adds one.             *)
SignIn(s) ==
    /\ At(s, "whoami")
    /\ \E i \in {slot[s].id} :
       \E again \in {rows[i] \in {"deleted", "again"}} :
         /\ rows' = [rows EXCEPT ![i] = IF again THEN "again" ELSE "there"]
         /\ signedIn' = IF again THEN signedIn ELSE signedIn \cup {i}
         /\ sessions' = sessions \cup {<<i, IF again THEN "again" ELSE "own">>}
    /\ Frees(s)
    /\ UNCHANGED <<instance, kratos, groups, mentions, asked, history>>

(* end.                                                                     *)
EndSessions(i) ==
    /\ Open /\ rows[i] = "there"
    /\ sessions' = sessions \ {<<i, "own">>}
    /\ UNCHANGED <<instance, kratos, rows, signedIn, groups, mentions, asked, slot, history>>

(* recovery: the second factors go, a new code comes, the sessions end.     *)
Recover(i) ==
    /\ Open /\ rows[i] = "there" /\ kratos[i] \in {"invited", "active"}
    /\ kratos' = [kratos EXCEPT ![i] = "invited"]
    /\ sessions' = sessions \ {<<i, "own">>}
    /\ UNCHANGED <<instance, rows, signedIn, groups, mentions, asked, slot, history>>

(* delete: Kratos first.  One Kratos does not know is refused.              *)
Delete(s, i) ==
    /\ Open /\ slot[s] = None
    /\ rows[i] = "there" /\ kratos[i] \in {"invited", "active"}
    /\ kratos' = [kratos EXCEPT ![i] = "deleted"]
    /\ slot' = [slot EXCEPT ![s] = [at |-> "delete", id |-> i]]
    /\ UNCHANGED <<instance, tables, history>>

(* Fault: the sessions end before the account is gone.                      *)
DeleteTxLast(s) ==
    /\ \/ /\ At(s, "delete") /\ Moves(s, "ended")
          /\ sessions' = sessions \ {<<slot[s].id, "own">>}
          /\ UNCHANGED <<rows, signedIn, mentions, swept>>
       \/ /\ At(s, "ended") /\ Frees(s)
          /\ rows' = [rows EXCEPT ![slot[s].id] = "deleted"]
          /\ Sweep(slot[s].id)
          /\ UNCHANGED sessions
    /\ UNCHANGED <<instance, kratos, signedIn, groups, asked, made, late>>

(* What names the account goes; then its sessions end.                      *)
DeleteTx(s) ==
    /\ At(s, "delete") /\ Moves(s, "gone")
    /\ rows' = [rows EXCEPT ![slot[s].id] = "deleted"]
    /\ Sweep(slot[s].id)
    /\ UNCHANGED <<instance, kratos, signedIn, groups, asked, sessions, made, late>>

DeleteEnd(s) ==
    /\ At(s, "gone")
    /\ sessions' = sessions \ {<<slot[s].id, "own">>}
    /\ Frees(s)
    /\ UNCHANGED <<instance, kratos, rows, signedIn, groups, mentions, asked, history>>

(* Kratos or the database fails a request: what is not committed goes, what *)
(* Kratos did stays.                                                        *)
Fails(s) ==
    /\ slot[s] # None
    /\ late' = IF At(s, "gone") THEN late \cup {slot[s].id} ELSE late
    /\ Frees(s)
    /\ UNCHANGED <<instance, kratos, tables, made, swept>>

Next ==
    \/ NewCode \/ Complete \/ \E n \in 2 .. 2 : Step(n)
    \/ \E s \in Slot :
         \/ \E c \in 1 .. codes : CheckCode(s, c)
         \/ DropPrevious(s) \/ MakeAdministrator(s) \/ AssignTx(s) \/ RevokeTx(s)
         \/ InviteTx(s) \/ SignIn(s) \/ DeleteTx(s) \/ DeleteEnd(s) \/ Fails(s)
         \/ \E i \in Identity : \/ InviteAdministrator(s, i) \/ Invite(s, i)
                                \/ WhoAmI(s, i) \/ Delete(s, i)
         \/ \E p \in Principal : Revoke(s, p) \/ \E t \in Tables \cup Group : Assign(s, t, p)
    \/ \E i \in Identity : UseInvitation(i) \/ EndSessions(i) \/ Recover(i)
    \/ \E g \in Group : CreateGroup(g) \/ DeleteGroup(g)
    \/ \E m \in mentions : Remove(m)
    \/ \E i \in Asking : AskForAccess(i) \/ ApproveAccess(i) \/ EndRequest(i)

Spec == Init /\ [][Next]_administrationVars

-----------------------------------------------------------------------------
TypeOK ==
    /\ code \in 0 .. codes /\ codes <= MaxCodes /\ admin \in Identity \cup {None}
    /\ step \in 0 .. Last /\ done \in BOOLEAN
    /\ kratos \in [Identity -> {"free", "invited", "active", "deleted"}]
    /\ rows \in [Identity -> {"none", "there", "deleted", "again"}]
    /\ signedIn \subseteq Identity
    /\ mentions \subseteq (Tables \X Principal) \cup (Group \X Identity)
    /\ asked \subseteq Asking /\ sessions \subseteq Identity \X {"own", "again"}

(* A setup code makes one administrator, however many browsers send it, and *)
(* of setup's administrators one is left; once setup is completed, no code  *)
(* is left, and a request that came in time makes no administrator either.  *)
SetupMakesOne ==
    /\ done => code = 0 /\ step = Last
    /\ \A x \in made : ~x[3] /\ \A y \in made : x[2] = y[2] => x = y
    /\ Cardinality({i \in Identity : /\ rows[i] = "there"
                                     /\ \E x \in made : x[1] = i}) <= 1


(* No session of a deleted account is left when the deletion is through,    *)
(* whatever sign-in was under way: its row is locked until the session is   *)
(* there to be ended, or gone before it is looked for.                      *)
DeletedIsOut ==
    \A x \in sessions :
        x[2] = "own" /\ rows[x[1]] \in {"deleted", "again"} =>
            x[1] \in late \/ \E s \in Slot : At(s, "gone") /\ slot[s].id = x[1]

(* "The last user or group with the role keeps it": two administrators who  *)
(* take the role from each other at once do not both succeed.  Deleting the *)
(* account or the group that has it is another matter.                      *)
RevokingLeavesOne == made # {} /\ ~swept => Named("administrator") # {}

(* "... so there is always someone besides the break-glass accounts."       *)
SomeoneAdministers == made # {} => Named("administrator") # {}
=============================================================================
