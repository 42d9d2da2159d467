------------------------------- MODULE Keyring -------------------------------
(***************************************************************************)
(* The master keys: the key file (keyring.rs of the vault), what is sealed *)
(* under which version (lib.rs of the vault, secrets.rs), the keys kept    *)
(* for the organisation recovery key (escrow.rs of both crates) and their  *)
(* recovery on a new host from a database backup.                          *)
(*                                                                         *)
(* Of a sealed value only the master key's version is kept: the value      *)
(* opens if that version is at hand.                                       *)
(***************************************************************************)
EXTENDS Naturals, FiniteSetsExt

CONSTANTS
    MaxVersion,     \* bound: master keys ever made
    MaxKey,         \* bound: recovery keys ever made
    None

(* There is a first version and a first recovery key; None is no set of     *)
(* versions.                                                                *)
ConstantsOK ==
    /\ {MaxVersion, MaxKey} \subseteq Nat \ {0}
    /\ \A versions \in SUBSET (1 .. MaxVersion) : versions # None

VARIABLES
    file,           \* the versions in the key file
    ring,           \* the versions the running server holds; None: it does not run
    sealed,         \* secret_fields: the versions values are sealed under
    keys,           \* recovery_keys, numbered in order of creation
    escrow,         \* master_key_escrow: <<recovery key, version>>
    keeping,        \* a recovery key was created, and keep is yet to run
    backup,         \* the database's last backup, or None
    excused,        \* history: since the last start a keep failed, or the command
                    \* line sealed under a version that start did not know
    lost            \* history: an excused backup was restored, or its key file
                    \* recovered with an older recovery key

data == <<sealed, keys, escrow>>
keyringVars == <<file, ring, data, keeping, backup, excused, lost>>

Init ==
    /\ file = {1} /\ ring = None
    /\ sealed = {} /\ keys = {} /\ escrow = {}
    /\ keeping = FALSE /\ backup = None /\ excused = FALSE /\ lost = FALSE

-----------------------------------------------------------------------------
(* A line of generate-key with the next version, appended to the file.      *)
AppendKey ==
    /\ file # {} /\ Max(file) < MaxVersion
    /\ file' = file \cup {Max(file) + 1}
    /\ UNCHANGED <<ring, data, keeping, backup, excused, lost>>

(* Fault: of the keys in the file, only the current one is kept.            *)
KeepCurrent(held) ==
    IF keys = {} THEN escrow ELSE escrow \cup {<<Max(keys), Max(held)>>}

(* keep: every master key the server holds, for the newest recovery key.    *)
Keep(held) ==
    IF keys = {} THEN escrow ELSE escrow \cup {<<Max(keys), v>> : v \in held}

(* A keep that fails at some version has kept the ones before it.           *)
KeepFails(held) ==
    \E n \in held : escrow' = Keep({v \in held : v < n})

(* serve: the key file is read, at least one key must be there; a keep that *)
(* fails is logged, and made up for at the next start.                      *)
Start ==
    /\ ring = None /\ file # {}
    /\ ring' = file
    /\ \/ escrow' = Keep(file) /\ excused' = FALSE
       \/ KeepFails(file) /\ excused' = TRUE
    /\ UNCHANGED <<file, sealed, keys, keeping, backup, lost>>

(* With the server go its requests under way.                               *)
Stop ==
    /\ ring # None
    /\ ring' = None
    /\ excused' = (excused \/ keeping) /\ keeping' = FALSE
    /\ UNCHANGED <<file, data, backup, lost>>

(* Vault::seal: under the current version, the highest one.                 *)
Seal ==
    /\ ring # None
    /\ sealed' = sealed \cup {Max(ring)}
    /\ UNCHANGED <<file, ring, keys, escrow, keeping, backup, excused, lost>>

(* Vault::open: under the version the row names, if the ring has it.        *)
Opens(v) == v \in ring

(* break-glass create and reset: the command line reads the file itself.    *)
SealOnCommandLine ==
    /\ file # {}
    /\ sealed' = sealed \cup {Max(file)}
    /\ excused' = (excused \/ (keys # {} /\ <<Max(keys), Max(file)>> \notin escrow)
                           \/ (ring # None /\ Max(file) \notin ring))
    /\ UNCHANGED <<file, ring, keys, escrow, keeping, backup, lost>>

(* create_key commits; keep comes after it.                                 *)
CreateKey ==
    /\ ring # None /\ ~keeping /\ MaxKey \notin keys
    /\ keys' = keys \cup {IF keys = {} THEN 1 ELSE Max(keys) + 1}
    /\ keeping' = TRUE
    /\ UNCHANGED <<file, ring, sealed, escrow, backup, excused, lost>>

KeepNew ==
    /\ keeping /\ keeping' = FALSE
    /\ \/ escrow' = Keep(ring) /\ excused' = excused
       \/ KeepFails(ring) /\ excused' = TRUE
    /\ UNCHANGED <<file, ring, sealed, keys, backup, lost>>

(* Fault: the newest key goes too.                                          *)
DeleteAnyKey(k) ==
    /\ ring # None /\ k \in keys
    /\ keys' = keys \ {k}
    /\ escrow' = {e \in escrow : e[1] # k}
    /\ UNCHANGED <<file, ring, sealed, keeping, backup, excused, lost>>

(* delete_key: an older one, which no vault is wrapped for any more         *)
(* (Recoveries); what it kept goes with it.                                 *)
DeleteKey(k) ==
    /\ ring # None /\ k \in keys /\ k # Max(keys)
    /\ keys' = keys \ {k}
    /\ escrow' = {e \in escrow : e[1] # k}
    /\ UNCHANGED <<file, ring, sealed, keeping, backup, excused, lost>>

-----------------------------------------------------------------------------
(* External: the host and its key file are lost; the backup comes back on a *)
(* new one.                                                                 *)
TakeBackup ==
    /\ backup' = [sealed |-> sealed, keys |-> keys, escrow |-> escrow,
                  excused |-> excused \/ keeping \/ lost]
    /\ UNCHANGED <<file, ring, data, keeping, excused, lost>>

RestoreBackup ==
    /\ backup # None
    /\ file' = {} /\ ring' = None /\ keeping' = FALSE
    /\ sealed' = backup.sealed /\ keys' = backup.keys /\ escrow' = backup.escrow
    /\ excused' = FALSE /\ lost' = backup.excused
    /\ UNCHANGED backup

(* What is kept for a recovery key.                                         *)
KeptFor(k) == {v \in 1 .. MaxVersion : <<k, v>> \in escrow}

(* recover-master-key with the private key of any recovery key there is:    *)
(* fails if none is kept for it.  An older one's file ends with the master  *)
(* keys of its time, and its next version is another key of the same number.*)
Recover(k) ==
    /\ file = {} /\ KeptFor(k) # {}
    /\ file' = KeptFor(k)
    /\ lost' = (lost \/ k # Max(keys))
    /\ UNCHANGED <<ring, data, keeping, backup, excused>>

Next ==
    \/ AppendKey \/ Start \/ Stop \/ Seal \/ SealOnCommandLine \/ CreateKey \/ KeepNew
    \/ TakeBackup \/ RestoreBackup
    \/ \E k \in keys : DeleteKey(k) \/ Recover(k)

Spec == Init /\ [][Next]_keyringVars

-----------------------------------------------------------------------------
TypeOK ==
    /\ file \subseteq 1 .. MaxVersion /\ sealed \subseteq 1 .. MaxVersion
    /\ ring = None \/ (ring # {} /\ ring \subseteq 1 .. MaxVersion)
    /\ escrow \subseteq keys \X (1 .. MaxVersion)

(* "A database backup and the recovery key's private key then restore the   *)
(* master key file": whatever was sealed when the backup was taken, under   *)
(* whichever versions, the newest recovery key's private key opens, unless  *)
(* a keep failed or had yet to run, or the command line sealed under a      *)
(* version no start had kept.                                               *)
BackupRestores ==
    backup # None /\ ~backup.excused /\ backup.keys # {} =>
        \A v \in backup.sealed : <<Max(backup.keys), v>> \in backup.escrow

(* And so a server that runs, on this host or restored on another with the  *)
(* newest recovery key's private key, opens every value there is.           *)
RunningOpensAll == ring # None /\ ~excused /\ ~lost => \A v \in sealed : Opens(v)
=============================================================================
