------------------------------ MODULE Recoveries ------------------------------
(***************************************************************************)
(* A personal vault (api/personal.rs) and its recovery by the organisation *)
(* (api/recovery.rs).                                                      *)
(*                                                                         *)
(* The server keeps ciphertext and wrapped keys only.  A wrap holds the    *)
(* vault key of a generation: the owner's browser makes a new one when it  *)
(* sets the vault up, for the first time or after a reset.  Recoveries are *)
(* carried out in several requests, each its own step, and an approval or  *)
(* completion reads the recovery before the transaction that changes it.   *)
(***************************************************************************)
EXTENDS Naturals, FiniteSets

CONSTANTS
    Admin, Officer,     \* who asks, and who approves; they may overlap
    Recovery,           \* ids of recoveries
    MaxKey,             \* bound: recovery keys of the organisation
    MaxGen,             \* bound: times the vault is set up
    Slot,               \* requests between reading and writing
    NotYet, None

VARIABLES
    keys,       \* recovery_keys, numbered in the order of their creation
    made,       \* how many there have been
    wraps,      \* personal_vault_unlocks: kind, gen, and the key or once
    gen,        \* the vault key the owner's browser holds, 0 for none
    entries,    \* personal_entries: the generations they are sealed with
    recovery,   \* [Recovery -> row]
    handed,     \* [Recovery -> the vault key its requester unwrapped]
    slot,
    stale       \* history: the owner's recovery wrap is of a recovery completed
                \* with the vault key of an earlier generation

vaultVars == <<keys, made, wraps, gen, entries, stale>>
recoveryVars == <<vaultVars, recovery, handed, slot>>

OwnKinds == {"passkey", "passphrase", "recovery"}

(* vault_recoveries; "expired" is approved, a day ago.                      *)
Row == [by : Admin, second : Officer \cup {None}, kind : {"passphrase", "handover"},
        status : {"pending", "approved", "expired", "cancelled", "completed"}]

(* What a request has decided before its transaction.                       *)
UnderWay ==
    [op : {"wrap"}, key : 1 .. MaxKey, gen : 1 .. MaxGen]
    \cup [op : {"approve"}, r : Recovery, by : Officer]
    \cup [op : {"complete"}, r : Recovery, gen : 0 .. MaxGen]

ConstantsOK ==
    /\ MaxKey \in Nat /\ MaxGen \in Nat
    /\ None \notin Admin \cup Officer \cup UnderWay
    /\ NotYet \notin Row

TypeOK ==
    /\ keys \subseteq 1 .. made /\ made \in 0 .. MaxKey
    /\ wraps \subseteq [kind : OwnKinds \cup {"organisation"}, gen : 1 .. MaxGen,
                        key : 0 .. MaxKey, once : BOOLEAN]
    /\ \A w \in wraps : w.kind = "organisation" <=> w.key > 0
    /\ \A v, w \in wraps : v.kind = w.kind => v = w
    /\ gen \in 0 .. MaxGen /\ entries \subseteq 1 .. MaxGen
    /\ recovery \in [Recovery -> Row \cup {NotYet}]
    /\ handed \in [Recovery -> 0 .. MaxGen]
    /\ slot \in [Slot -> UnderWay \cup {None}]
    /\ stale \in BOOLEAN

Init ==
    /\ keys = {} /\ made = 0 /\ wraps = {} /\ gen = 0 /\ entries = {}
    /\ recovery = [r \in Recovery |-> NotYet]
    /\ handed = [r \in Recovery |-> 0]
    /\ slot = [s \in Slot |-> None]
    /\ stale = FALSE

(* organisation_key: the newest.                                            *)
Newest == IF keys = {} THEN 0 ELSE CHOOSE k \in keys : \A j \in keys : j <= k

Own == {w \in wraps : w.kind # "organisation"}

(* The owner's wraps of the vault key their browser holds.                  *)
OwnOfNow == {w \in Own : w.gen = gen}

Wrap(kind, g, key, once) == [kind |-> kind, gen |-> g, key |-> key, once |-> once]

(* An unlock replaces the one of its kind; of the passkeys there is one.    *)
Replace(w) == {x \in wraps : x.kind # w.kind} \cup {w}

Others == <<recovery, handed, slot>>

-----------------------------------------------------------------------------
(* The owner.                                                               *)

(* The browser makes the vault key; the server learns of it by its wraps.   *)
SetUp ==
    /\ wraps = {} /\ gen < MaxGen
    /\ gen' = gen + 1
    /\ UNCHANGED <<keys, made, wraps, entries, stale, Others>>

AddUnlock(kind) ==
    /\ gen > 0
    /\ wraps' = Replace(Wrap(kind, gen, 0, FALSE))
    /\ stale' = (stale /\ kind # "recovery")
    /\ UNCHANGED <<keys, made, gen, entries, Others>>

(* add_unlock of kind organisation, up to its check: only for the newest    *)
(* key, with the table locked in share mode until the transaction ends.     *)
LockKeys(s) ==
    /\ gen > 0 /\ slot[s] = None /\ Newest > 0
    /\ slot' = [slot EXCEPT ![s] = [op |-> "wrap", key |-> Newest, gen |-> gen]]
    /\ UNCHANGED <<vaultVars, recovery, handed>>

WrapForOrganisation(s) ==
    /\ slot[s] # None /\ slot[s].op = "wrap"
    /\ wraps' = Replace(Wrap("organisation", slot[s].gen, slot[s].key, FALSE))
    /\ slot' = [slot EXCEPT ![s] = None]
    /\ UNCHANGED <<keys, made, gen, entries, stale, recovery, handed>>

(* Fault: any way to unlock may go.                                         *)
RemoveAnyUnlock(w) ==
    /\ w.kind # "organisation"
    /\ wraps' = wraps \ {w}
    /\ stale' = (stale /\ w.kind # "recovery")
    /\ UNCHANGED <<keys, made, gen, entries, Others>>

RemoveUnlock(w) ==
    /\ w.kind # "organisation"
    /\ Cardinality(Own) # 1
    /\ wraps' = wraps \ {w}
    /\ stale' = (stale /\ w.kind # "recovery")
    /\ UNCHANGED <<keys, made, gen, entries, Others>>

(* The browser seals with the key it holds: save_entry asks for a way to    *)
(* unlock it, ...                                                           *)
SaveEntry ==
    /\ gen > 0 /\ wraps # {}
    /\ entries' = entries \cup {gen}
    /\ UNCHANGED <<keys, made, wraps, gen, stale, Others>>

(* ... save_attachment and save_search do not.                              *)
SaveUnasked ==
    /\ gen > 0
    /\ entries' = entries \cup {gen}
    /\ UNCHANGED <<keys, made, wraps, gen, stale, Others>>

DeleteEntry(g) ==
    /\ entries' = entries \ {g}
    /\ UNCHANGED <<keys, made, wraps, gen, stale, Others>>

Reset ==
    /\ wraps' = {} /\ entries' = {} /\ stale' = FALSE
    /\ UNCHANGED <<keys, made, gen, Others>>

-----------------------------------------------------------------------------
(* The organisation's keys.                                                 *)

Locked == \E s \in Slot : slot[s] # None /\ slot[s].op = "wrap"

(* create_key: the row waits for the share lock to go.                      *)
CreateKey ==
    /\ made < MaxKey /\ ~Locked
    /\ made' = made + 1 /\ keys' = keys \cup {made + 1}
    /\ UNCHANGED <<wraps, gen, entries, stale, Others>>

(* Fault: whoever's vault names the key is not looked at.                   *)
DeleteKeyInUse(k) ==
    /\ ~Locked
    /\ k # Newest
    /\ keys' = keys \ {k}
    /\ UNCHANGED <<made, wraps, gen, entries, stale, Others>>

(* delete_key, under its exclusive lock.                                    *)
DeleteKey(k) ==
    /\ ~Locked
    /\ \A w \in wraps : w.key # k
    /\ k # Newest
    /\ keys' = keys \ {k}
    /\ UNCHANGED <<made, wraps, gen, entries, stale, Others>>

-----------------------------------------------------------------------------
(* Recoveries.  A row has who asked (by) and approved (second).             *)

Is(r, status) == recovery[r] # NotYet /\ recovery[r].status = status
Open == {r \in Recovery : Is(r, "pending") \/ Is(r, "approved") \/ Is(r, "expired")}

Create(r, p, kind) ==
    /\ recovery[r] = NotYet
    /\ p \in Admin
    /\ \E w \in wraps : w.kind = "organisation"
    /\ Open = {}                            \* the unique index
    /\ recovery' = [recovery EXCEPT ![r] =
         [by |-> p, second |-> None, kind |-> kind, status |-> "pending"]]
    /\ UNCHANGED <<vaultVars, handed, slot>>

(* Fault: whoever asked may approve.                                        *)
ApproveOwn(s, r, p) ==
    /\ p \in Officer /\ recovery[r] # NotYet /\ slot[s] = None
    /\ recovery[r].status # "cancelled"
    /\ slot' = [slot EXCEPT ![s] = [op |-> "approve", r |-> r, by |-> p]]
    /\ UNCHANGED <<vaultVars, recovery, handed>>

Approve(s, r, p) ==
    /\ p \in Officer /\ recovery[r] # NotYet /\ slot[s] = None
    /\ recovery[r].status # "cancelled" /\ recovery[r].by # p
    /\ slot' = [slot EXCEPT ![s] = [op |-> "approve", r |-> r, by |-> p]]
    /\ UNCHANGED <<vaultVars, recovery, handed>>

(* Where the row is no longer pending, the transaction is rolled back.      *)
ApproveTx(s) ==
    /\ slot[s] # None /\ slot[s].op = "approve"
    /\ LET r == slot[s].r IN
       recovery' = IF Is(r, "pending")
                   THEN [recovery EXCEPT ![r].status = "approved", ![r].second = slot[s].by]
                   ELSE recovery
    /\ slot' = [slot EXCEPT ![s] = None]
    /\ UNCHANGED <<vaultVars, handed>>

Cancel(r) ==
    /\ r \in Open
    /\ recovery' = [recovery EXCEPT ![r].status = "cancelled"]
    /\ UNCHANGED <<vaultVars, handed, slot>>

DayPasses(r) ==
    /\ Is(r, "approved")
    /\ recovery' = [recovery EXCEPT ![r].status = "expired"]
    /\ UNCHANGED <<vaultVars, handed, slot>>

(* Fault: a recovery nobody approved is ready too.                          *)
ReadyUnapproved(r) == r \in Open

Ready(r) == Is(r, "approved")

(* vault: the wrap for the organisation and the entries go to whoever asked, *)
(* who opens them with the key's other half.                                *)
OpenVault(r) ==
    /\ Ready(r)
    /\ \E w \in wraps : /\ w.kind = "organisation" /\ w.key \in keys
                        /\ handed' = [handed EXCEPT ![r] = w.gen]
    /\ UNCHANGED <<vaultVars, recovery, slot>>

(* complete, up to ready(); the browser sends what it unwrapped.            *)
Complete(s, r) ==
    /\ Ready(r) /\ slot[s] = None
    /\ recovery[r].kind = "passphrase" => handed[r] > 0
    /\ slot' = [slot EXCEPT ![s] = [op |-> "complete", r |-> r, gen |-> handed[r]]]
    /\ UNCHANGED <<vaultVars, recovery, handed>>

(* The one-time recovery key's wrap replaces the owner's recovery key.      *)
GiveOwner(r, g) ==
    IF recovery[r].kind = "passphrase"
    THEN /\ wraps' = Replace(Wrap("recovery", g, 0, TRUE))
         /\ stale' = (g # gen)
    ELSE UNCHANGED <<wraps, stale>>

(* Fault: the row is not looked at again.                                   *)
CompleteAnyway(s) ==
    /\ slot[s] # None /\ slot[s].op = "complete"
    /\ LET r == slot[s].r IN
       /\ recovery' = [recovery EXCEPT ![r].status = "completed"]
       /\ GiveOwner(r, slot[s].gen)
    /\ slot' = [slot EXCEPT ![s] = None]
    /\ UNCHANGED <<keys, made, gen, entries, handed>>

CompleteTx(s) ==
    /\ slot[s] # None /\ slot[s].op = "complete"
    /\ LET r == slot[s].r IN
       IF r \in Open
       THEN /\ recovery' = [recovery EXCEPT ![r].status = "completed"]
            /\ GiveOwner(r, slot[s].gen)
       ELSE UNCHANGED <<recovery, wraps, stale>>
    /\ slot' = [slot EXCEPT ![s] = None]
    /\ UNCHANGED <<keys, made, gen, entries, handed>>

Next ==
    \/ SetUp \/ SaveEntry \/ SaveUnasked \/ Reset \/ CreateKey
    \/ \E kind \in OwnKinds : AddUnlock(kind)
    \/ \E w \in wraps : RemoveUnlock(w)
    \/ \E g \in entries : DeleteEntry(g)
    \/ \E k \in keys : DeleteKey(k)
    \/ \E r \in Recovery :
         \/ Cancel(r) \/ DayPasses(r) \/ OpenVault(r)
         \/ \E p \in Admin, kind \in {"passphrase", "handover"} : Create(r, p, kind)
    \/ \E s \in Slot :
         \/ LockKeys(s) \/ WrapForOrganisation(s) \/ ApproveTx(s) \/ CompleteTx(s)
         \/ \E r \in Recovery : Complete(s, r) \/ \E p \in Officer : Approve(s, r, p)

Spec == Init /\ [][Next]_recoveryVars

-----------------------------------------------------------------------------
Asked(r) == recovery[r] # NotYet

Asker == [r \in Recovery |-> IF Asked(r) THEN recovery[r].by ELSE None]
Second == [r \in Recovery |-> IF Asked(r) THEN recovery[r].second ELSE None]
Carried == {r \in Recovery : handed[r] > 0 \/ Is(r, "completed")}

Eyes == INSTANCE FourEyes WITH
    Item <- Recovery, Person <- Admin \cup Officer, Nobody <- None,
    asker <- Asker, second <- Second, carried <- Carried

(* "Four eyes": no vault is handed out and no recovery completed before a   *)
(* security officer who did not ask approved it, whatever is cancelled,     *)
(* approved or completed at the same time: recovery implements FourEyes.    *)
ImplementsFourEyes == Eyes!Spec

(* "The administrators count a vault as covered by the key its wrap names,  *)
(* and recover with that key": the key is there for as long as the wrap,    *)
(* whatever keys are created and deleted while a vault is being wrapped.    *)
CoveredByAKey == \A w \in wraps : w.kind = "organisation" => w.key \in keys

(* "Never the last one of the owner's": once the owner has a way to unlock  *)
(* the vault, one that wraps its present key, neither a removal nor a       *)
(* recovery leaves them without any; unless the vault was reset and set up  *)
(* again while a recovery was under way, and that recovery was completed    *)
(* with the key of before.                                                  *)
OwnWayStaysStep ==
    OwnOfNow # {} /\ wraps' # {} => OwnOfNow' # {} \/ stale'

OwnWayStays == [][OwnWayStaysStep]_recoveryVars

(* What was cancelled or completed stays so.                                *)
EndedForGoodStep ==
    \A r \in Recovery : Asked(r) /\ r \notin Open => recovery'[r] = recovery[r]

EndedForGood == [][EndedForGoodStep]_recoveryVars
=============================================================================
