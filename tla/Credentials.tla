----------------------------- MODULE Credentials -----------------------------
(***************************************************************************)
(* The shared credentials of the vault, the collections they lie in and    *)
(* the files kept with them (api/catalog.rs, collections.rs, fields.rs,    *)
(* attachments.rs, reveal.rs, secrets.rs).                                 *)
(*                                                                         *)
(* A sealed field is a value under <<owner, version, field>>.  As in       *)
(* Catalog, a handler decides from what it read and writes in a            *)
(* transaction later: one step with Slot empty, two steps otherwise, and a *)
(* third where credentials are purged: their sealed fields go in one       *)
(* statement and their rows in a later one.                                *)
(***************************************************************************)
EXTENDS Permissions

CONSTANTS
    Collection, Credential, File,
    Name,           \* names of protected fields
    Value,          \* what is entered into a secret field
    Actor, Subject, Grants,
    Slot,           \* requests under way at once, in two steps
    MaxVersion,     \* bound: versions of a credential
    NotYet, Gone,   \* a row that was never there, one that was deleted
    None,           \* nothing: removed, or NULL
    Keep            \* a field the request leaves as it is

VARIABLES
    collection,     \* [Collection -> where it lies]
    credential,     \* [Credential -> row]
    file,           \* [File -> the credential it is kept with]
    sealed,         \* secret_fields: <<owner, version, field, value>>
    entered,        \* history: [Credential -> the secrets last entered]
    shown,          \* what this step answers, <<credential, version, fields>>
    slot,           \* what requests under way decided
    late            \* history: what was sealed for a credential while it was
                    \* being purged

vaultVars == <<collection, credential, file, sealed, entered, shown, slot, late>>

(* With one request at a time nobody holds on to the name of a deleted row. *)
Deleted == IF Slot = {} THEN NotYet ELSE Gone

There(t) == {o \in DOMAIN t : t[o] \notin {NotYet, Gone}}

Field == {"password", "totp"} \cup Name

(* What a client may send: fields are those the credential has from now on. *)
Inputs ==
    [coll : Collection, password : Value \cup {Keep},
     fields : UNION {[n -> Value \cup {Keep}] : n \in SUBSET Name},
     totp : Value \cup {Keep, None}]

Rows ==
    [coll : Collection, ver : 1 .. MaxVersion, fields : SUBSET Name, totp : BOOLEAN,
     binned : BOOLEAN]

(* Rows of different tables have different ids, and a protected field is    *)
(* sealed under a name of its own (secret_name).                            *)
ConstantsOK ==
    /\ MaxVersion \in Nat \ {0}
    /\ Name \cap {"password", "totp"} = {}
    /\ Value \cap {Keep, None} = {} /\ Keep # None
    /\ Credential \cap (Collection \cup File) = {}
    /\ {NotYet, Gone} \cap (Credential \cup Rows \cup [up : Collection \cup {Top}]) = {}

TypeOK ==
    /\ collection \in [Collection -> {NotYet, Gone} \cup [up : Collection \cup {Top}]]
    /\ credential \in [Credential -> {NotYet, Gone} \cup Rows]
    /\ file \in [File -> Credential \cup {NotYet, Gone}]
    /\ sealed \subseteq (Credential \X (1 .. MaxVersion) \X Field \X Value)
                   \cup {<<a, 1, "content", a>> : a \in File}

Init ==
    /\ collection = [c \in Collection |-> NotYet]
    /\ credential = [k \in Credential |-> NotYet]
    /\ file = [a \in File |-> NotYet]
    /\ sealed = {}
    /\ entered = [k \in Credential |-> {}]
    /\ shown = None
    /\ slot = [s \in Slot |-> None]
    /\ late = {}

Now ==
    Load([o \in There(collection) \cup There(credential) |->
            IF o \in Collection THEN collection[o].up ELSE credential[o].coll], Grants, 0)

(* context(): the catalog as the request finds it.                          *)
Context(now, a) ==
    [admin |-> Subject[a].admin, now |-> now,
     role  |-> [o \in DOMAIN now.parent |-> EffectiveRole(now, Subject[a], o)]]

(* require().                                                               *)
Role(cx, o) == IF o \in DOMAIN cx.role THEN cx.role[o] ELSE NoRole

-----------------------------------------------------------------------------
(* secrets::store and load.                                                 *)
Stored(owner, ver, fields) == {<<owner, ver, f, fields[f]>> : f \in DOMAIN fields}

Loaded(owner, ver, fields) == {x \in sealed : x[1] = owner /\ x[2] = ver /\ x[3] \in fields}

(* carry: copies sealed fields into the new version.                        *)
Carry(k, from, to, fields) == {<<k, to, x[3], x[4]>> : x \in Loaded(k, from, fields)}

(* What a change seals: new values of the protected fields, the password    *)
(* and the one-time password.                                               *)
NewValues(in) ==
    LET given == {f \in {"password", "totp"} : in[f] \in Value}
        named == {n \in DOMAIN in.fields : in.fields[n] \in Value}
    IN  [f \in given \cup named |-> IF f \in given THEN in[f] ELSE in.fields[f]]

(* Fault: only what the change brings is sealed; nothing is carried over.   *)
KeptNothing(was, in) == {}

(* The fields a change keeps.                                               *)
Kept(was, in) ==
    {n \in DOMAIN in.fields : in.fields[n] = Keep}
      \cup (IF in.password = Keep THEN {"password"} ELSE {})
      \cup (IF in.totp = Keep /\ was.totp THEN {"totp"} ELSE {})

(* Fault: a field that is no longer there makes no new version.             *)
ChangesIfGiven(was, in) ==
    \/ in.password # Keep
    \/ \E n \in DOMAIN in.fields : in.fields[n] # Keep
    \/ in.totp \in Value \/ (was.totp /\ in.totp = None)

(* update_credential's `changed', with changes_secrets.                     *)
Changes(was, in) ==
    \/ in.password # Keep
    \/ \E n \in DOMAIN in.fields : in.fields[n] # Keep
    \/ DOMAIN in.fields # was.fields
    \/ in.totp \in Value \/ (was.totp /\ in.totp = None)

(* The fields a person expects after this change, from those before.        *)
Expected(before, in) ==
    {x \in before : x[1] \in Kept([totp |-> TRUE], in)}
      \cup {<<f, NewValues(in)[f]>> : f \in DOMAIN NewValues(in)}

CreateTx(r) ==
    /\ credential[r.k] = NotYet /\ r.in.coll \in There(collection)
    /\ credential' = [credential EXCEPT ![r.k] =
         [coll |-> r.in.coll, ver |-> 1, fields |-> DOMAIN r.in.fields,
          totp |-> r.in.totp \in Value, binned |-> FALSE]]
    /\ sealed' = sealed \cup Stored(r.k, 1, NewValues(r.in))
    /\ entered' = [entered EXCEPT ![r.k] = Expected({}, r.in)]
    /\ UNCHANGED <<collection, file>> /\ shown' = None

(* Fault: the next version is counted from the row that was read.           *)
UpdateFromRead(r) ==
    /\ r.k \in There(credential) /\ r.in.coll \in There(collection)
    /\ LET ver == r.was.ver + IF r.changed THEN 1 ELSE 0 IN
         /\ ver <= MaxVersion
         /\ credential' = [credential EXCEPT ![r.k] =
              [coll |-> r.in.coll, ver |-> ver, fields |-> DOMAIN r.in.fields,
               totp |-> IF r.in.totp = Keep THEN r.was.totp ELSE r.in.totp # None,
               binned |-> @.binned]]
         /\ sealed' = IF r.changed
                      THEN sealed \cup Carry(r.k, r.was.ver, ver, Kept(r.was, r.in))
                                  \cup Stored(r.k, ver, NewValues(r.in))
                      ELSE sealed
    /\ entered' = [entered EXCEPT ![r.k] = Expected(@, r.in)]
    /\ UNCHANGED <<collection, file>> /\ shown' = None

(* update_credential: `r.was' is the row read before the transaction; the   *)
(* version is counted in the UPDATE.                                        *)
UpdateTx(r) ==
    /\ r.k \in There(credential) /\ r.in.coll \in There(collection)
    /\ LET ver == credential[r.k].ver + IF r.changed THEN 1 ELSE 0 IN
         /\ ver <= MaxVersion
         /\ credential' = [credential EXCEPT ![r.k] =
              [coll |-> r.in.coll, ver |-> ver, fields |-> DOMAIN r.in.fields,
               totp |-> IF r.in.totp = Keep THEN r.was.totp ELSE r.in.totp # None,
               binned |-> @.binned]]
         /\ sealed' = IF r.changed
                      THEN sealed \cup Carry(r.k, r.was.ver, ver, Kept(r.was, r.in))
                                  \cup Stored(r.k, ver, NewValues(r.in))
                      ELSE sealed
    /\ entered' = [entered EXCEPT ![r.k] = Expected(@, r.in)]
    /\ UNCHANGED <<collection, file>> /\ shown' = None

(* Fault: the contents of the files stay.                                   *)
SealedOfRows(ks) == {x \in sealed : x[1] \in ks}

(* What purge_credentials deletes of secret_fields, in its first statements. *)
SealedOf(ks) == {x \in sealed : x[1] \in ks \cup {a \in File : file[a] \in ks}}

InBin(c) == {k \in There(credential) : credential[k].coll = c /\ credential[k].binned}

(* ... for delete_credential, or for collections::delete, with which goes   *)
(* what lies in the recycle bin.                                            *)
Purging(r) ==
    LET ks == IF r.op = "purge" THEN {r.k} \cap There(credential) ELSE InBin(r.c)
    IN  [op |-> "purge_rows", ks |-> ks, gone |-> SealedOf(ks),
         colls |-> IF r.op = "purge" THEN {} ELSE {r.c}]

(* Its last statement, and that of collections::delete: the rows of the     *)
(* files go with the credential's; anything else in a collection keeps it   *)
(* (ON DELETE RESTRICT).                                                    *)
PurgeRowsTx(r) ==
    /\ \A k \in There(credential) \ r.ks : credential[k].coll \notin r.colls
    /\ \A c \in There(collection) : collection[c].up \notin r.colls
    /\ sealed' = sealed \ r.gone
    /\ file' = [a \in File |-> IF file[a] \in r.ks THEN Deleted ELSE file[a]]
    /\ credential' = [k \in Credential |-> IF k \in r.ks THEN Deleted ELSE credential[k]]
    /\ entered' = [k \in Credential |-> IF k \in r.ks THEN {} ELSE entered[k]]
    /\ collection' = [c \in Collection |-> IF c \in r.colls THEN Deleted ELSE collection[c]]
    /\ shown' = None

BinTx(r) ==
    /\ r.k \in There(credential) /\ ~credential[r.k].binned
    /\ credential' = [credential EXCEPT ![r.k].binned = TRUE]
    /\ UNCHANGED <<collection, file, sealed, entered>> /\ shown' = None

RestoreTx(r) ==
    /\ r.k \in There(credential) /\ credential[r.k].binned
    /\ credential' = [credential EXCEPT ![r.k].binned = FALSE]
    /\ UNCHANGED <<collection, file, sealed, entered>> /\ shown' = None

CreateCollectionTx(r) ==
    /\ collection[r.c] = NotYet /\ r.up \in There(collection) \cup {Top}
    /\ collection' = [collection EXCEPT ![r.c] = [up |-> r.up]]
    /\ UNCHANGED <<credential, file, sealed, entered>> /\ shown' = None

UpdateCollectionTx(r) ==
    /\ r.c \in There(collection) /\ r.up \in There(collection) \cup {Top}
    /\ collection' = [collection EXCEPT ![r.c].up = r.up]
    /\ UNCHANGED <<credential, file, sealed, entered>> /\ shown' = None

(* attachments::upload; one name, so an older file is replaced.             *)
UploadTx(r) ==
    LET old == {a \in File : file[a] = r.k} IN
    /\ file[r.a] = NotYet /\ r.k \in There(credential)
    /\ file' = [a \in File |-> IF a = r.a THEN r.k ELSE IF a \in old THEN Deleted ELSE file[a]]
    /\ sealed' = {x \in sealed : x[1] \notin old} \cup {<<r.a, 1, "content", r.a>>}
    /\ UNCHANGED <<collection, credential, entered>> /\ shown' = None

DeleteFileTx(r) ==
    /\ file[r.a] = r.k
    /\ file' = [file EXCEPT ![r.a] = Deleted]
    /\ sealed' = {x \in sealed : x[1] # r.a}
    /\ UNCHANGED <<collection, credential, entered>> /\ shown' = None

(* Fault: the fields of the row are answered for an older version too.      *)
RevealRowTx(r) ==
    /\ shown' = <<r.k, r.ver,
         {<<x[3], x[4]>> : x \in Loaded(r.k, r.ver, {"password"} \cup credential[r.k].fields)}>>
    /\ UNCHANGED <<collection, credential, file, sealed, entered>>

(* reveal::credential, once the version is known: opened, then audited and  *)
(* answered.  Of an older version, the fields that were sealed then.        *)
RevealTx(r) ==
    /\ shown' = <<r.k, r.ver,
         {<<x[3], x[4]>> : x \in Loaded(r.k, r.ver,
            {"password"} \cup (IF r.ver = r.was.ver THEN r.was.fields ELSE Name))}>>
    /\ UNCHANGED <<collection, credential, file, sealed, entered>>

Transaction(r) ==
    \/ r.op = "create_credential"  /\ CreateTx(r)
    \/ r.op = "update_credential"  /\ UpdateTx(r)
    \/ r.op = "purge_rows"         /\ PurgeRowsTx(r)
    \/ r.op = "delete_credential"  /\ BinTx(r)
    \/ r.op = "restore_credential" /\ RestoreTx(r)
    \/ r.op = "create_collection"  /\ CreateCollectionTx(r)
    \/ r.op = "update_collection"  /\ UpdateCollectionTx(r)
    \/ r.op = "upload"             /\ UploadTx(r)
    \/ r.op = "delete_file"        /\ DeleteFileTx(r)
    \/ r.op = "reveal"             /\ RevealTx(r)

(* Whose sealed fields a purge under way has deleted already.               *)
BeingPurged == UNION {slot[s].ks : s \in {x \in Slot : slot[x] # None /\ slot[x].op = "purge_rows"}}

(* The credential a field, or the file it is the content of, belongs to.    *)
Owner(x) == IF x[1] \in File THEN file[x[1]] ELSE x[1]

Commit(r) ==
    /\ Transaction(r)
    /\ late' = late \cup {x \in sealed' \ sealed : Owner(x)' \in BeingPurged}

Purges(r) == r.op \in {"purge", "delete_collection"}

Serve(r) ==
    IF Slot = {} THEN Commit(IF Purges(r) THEN Purging(r) ELSE r) /\ UNCHANGED slot
    ELSE /\ \E s \in Slot : slot[s] = None /\ slot' = [slot EXCEPT ![s] = r]
         /\ UNCHANGED <<collection, credential, file, sealed, entered, late>> /\ shown' = None

PurgeBegins(s) ==
    /\ slot[s] # None /\ Purges(slot[s])
    /\ slot' = [slot EXCEPT ![s] = Purging(@)]
    /\ UNCHANGED <<collection, credential, file, sealed, entered, late>> /\ shown' = None

Finish(s) ==
    /\ slot[s] # None
    /\ Commit(slot[s])
    /\ slot' = [slot EXCEPT ![s] = None]

(* The transaction is rolled back, or the server goes away before it.       *)
Abandon(s) ==
    /\ slot[s] # None
    /\ slot' = [slot EXCEPT ![s] = None]
    /\ UNCHANGED <<collection, credential, file, sealed, entered, late>> /\ shown' = None

-----------------------------------------------------------------------------
(* The handlers.                                                            *)

MayPlace(cx, up) == IF up = Top THEN cx.admin ELSE Role(cx, up) >= Manage

CreateCollection(cx, c, up) ==
    /\ collection[c] = NotYet
    /\ MayPlace(cx, up)
    /\ Serve([op |-> "create_collection", c |-> c, up |-> up])

UpdateCollection(cx, c, up) ==
    /\ Role(cx, c) >= Manage
    /\ MayPlace(cx, up)
    /\ up # Top => ~Within(cx.now, up, c)
    /\ Serve([op |-> "update_collection", c |-> c, up |-> up])

DeleteCollection(cx, c) ==
    /\ Role(cx, c) >= Manage
    /\ Serve([op |-> "delete_collection", c |-> c])

CreateCredential(cx, k, in) ==
    /\ credential[k] = NotYet
    /\ in.password # Keep
    /\ \A n \in DOMAIN in.fields : in.fields[n] # Keep
    /\ Role(cx, in.coll) >= Edit
    /\ Serve([op |-> "create_credential", k |-> k, in |-> in])

UpdateCredential(cx, k, in) ==
    /\ Role(cx, k) >= Edit
    /\ in.coll # credential[k].coll => Role(cx, in.coll) >= Edit
    /\ \A n \in DOMAIN in.fields : in.fields[n] = Keep => n \in credential[k].fields
    /\ Serve([op |-> "update_credential", k |-> k, in |-> in, was |-> credential[k],
              changed |-> Changes(credential[k], in)])

DeleteCredential(cx, k) ==
    /\ Role(cx, k) >= Edit
    /\ \E op \in {"delete_credential", "purge"} : Serve([op |-> op, k |-> k])

RestoreCredential(cx, k) ==
    /\ Role(cx, k) >= Edit
    /\ Serve([op |-> "restore_credential", k |-> k])

Upload(cx, k, a) ==
    /\ file[a] = NotYet
    /\ Role(cx, k) >= Edit
    /\ Serve([op |-> "upload", k |-> k, a |-> a])

DeleteFile(cx, k, a) ==
    /\ Role(cx, k) >= Edit
    /\ Serve([op |-> "delete_file", k |-> k, a |-> a])

(* reveal::credential; `ver' 0: the current one.                            *)
RevealCredential(cx, k, ver) ==
    /\ Role(cx, k) >= Reveal
    /\ ver <= credential[k].ver
    /\ Serve([op |-> "reveal", k |-> k, was |-> credential[k],
              ver |-> IF ver = 0 THEN credential[k].ver ELSE ver])

By(a) ==
    \E now \in {Now} : \E cx \in {Context(now, a)} :
    \/ \E c \in Collection :
         \/ DeleteCollection(cx, c)
         \/ \E up \in Collection \cup {Top} :
              CreateCollection(cx, c, up) \/ UpdateCollection(cx, c, up)
    \/ \E k \in Credential :
         \/ \E in \in Inputs : CreateCredential(cx, k, in) \/ UpdateCredential(cx, k, in)
         \/ DeleteCredential(cx, k) \/ RestoreCredential(cx, k)
         \/ \E ver \in 0 .. MaxVersion : RevealCredential(cx, k, ver)
         \/ \E f \in File : DeleteFile(cx, k, f) \/ Upload(cx, k, f)

Next ==
    \/ \E a \in Actor : By(a)
    \/ \E s \in Slot : PurgeBegins(s) \/ Finish(s) \/ Abandon(s)

Spec == Init /\ [][Next]_vaultVars

-----------------------------------------------------------------------------
(* Properties.                                                              *)

(* "Every secret belongs to a version: one that changes makes a new one,    *)
(* and what did not change is copied into it": after any sequence of        *)
(* changes, one request at a time, the current version holds exactly what   *)
(* was entered last into each field the credential still has.               *)
CurrentIsWhatWasEntered ==
    \A k \in There(credential) :
        {<<x[3], x[4]>> : x \in Loaded(k, credential[k].ver, Field)} = entered[k]

(* The row and the vault agree: it says it has a one-time password or a     *)
(* protected field exactly if the current version has it sealed, so that    *)
(* `code' never fails with an internal error.  One request at a time.       *)
RowAgreesWithVault ==
    \A k \in There(credential) :
        {x[3] : x \in Loaded(k, credential[k].ver, Field)} =
          {"password"} \cup credential[k].fields
                       \cup (IF credential[k].totp THEN {"totp"} ELSE {})

(* The history of a credential is final: whatever requests overlap, no step *)
(* changes or adds to a version that was sealed before it.                  *)
HistoryIsFinalStep ==
    \A k \in Credential : \A ver \in 1 .. MaxVersion :
        Loaded(k, ver, Field) # {} /\ k \in There(credential') =>
            Loaded(k, ver, Field)' = Loaded(k, ver, Field)

HistoryIsFinal == [][HistoryIsFinalStep]_vaultVars

(* "It goes for good, with its sealed secrets and files": nothing is sealed *)
(* for a credential or a file that is not there, whatever overlaps, but for *)
(* what an update or an upload sealed while the purge was between its       *)
(* statements.                                                              *)
NothingLeftOfThePurged ==
    /\ \A x \in sealed \ late : x[1] \in There(credential) \cup There(file)
    /\ \A a \in There(file) : file[a] \in There(credential)
    /\ \A k \in There(credential) : credential[k].coll \in There(collection)

(* What a reveal of a version answers is what that version had when it was  *)
(* current: the same whenever it is asked for, one-time password aside.     *)
RevealedAsSealedStep ==
    shown' # None =>
        shown'[3] = {<<x[3], x[4]>> : x \in Loaded(shown'[1], shown'[2], Field \ {"totp"})}

RevealedAsSealed == [][RevealedAsSealedStep]_vaultVars
=============================================================================
