------------------------------- MODULE MCVault ------------------------------
(***************************************************************************)
(* Catalog and Credentials for TLC, each on an instance with one request   *)
(* at a time (1) and on one with two under way (2); in a third of Catalog  *)
(* (3) devices name their way themselves.                                  *)
(* A behaviour is about one of them, `part'; the variables of the others   *)
(* are None.                                                               *)
(***************************************************************************)
EXTENDS Permissions, TLC

CONSTANTS
    root, mg, f1, f2, d1, p1, k1, c1, c2, e1, a1, v1, v2, s1, s2, NotYet, Gone, None, Stay,
    Keep

VARIABLES
    part,
    folder, device, profile, sealed, slot, hung,
    collection, credential, file, vSealed, entered, shown, vSlot, late

Someone(p, admin) == p :> [sids |-> {p}, admin |-> admin]
People == Someone(root, TRUE) @@ Someone(mg, FALSE)

Manages == {[on |-> f2, to |-> mg, role |-> Manage, until |-> 0]}

Folders == {f1, f2}
OneFolder == {f2}
OneDevice == {d1}
OneProfile == {p1}
OneConnector == {k1}
Everyone == {root, mg}
Root == {root}
Inherited == {"inherit"}
Direct == {"direct", "connector"}
Nothing == {}
Slots == {s1, s2}
Collections == {c1, c2}
OneCollection == {c1}
OneCredential == {e1}
OneFile == {a1}
Names == {"pin"}
Values == {v1, v2}
OneValue == {v1}

C1 == INSTANCE Catalog WITH
        Folder <- Folders, Device <- OneDevice, Profile <- OneProfile,
        Connector <- OneConnector, Actor <- Everyone, Subject <- People, Grants <- Manages,
        ConnModes <- Inherited, Slot <- Nothing, MaxVersion <- 2

C2 == INSTANCE Catalog WITH
        Folder <- Folders, Device <- Nothing, Profile <- OneProfile, Connector <- Nothing,
        Actor <- Root, Subject <- People, Grants <- Nothing, ConnModes <- Inherited,
        Slot <- Slots, MaxVersion <- 1

C3 == INSTANCE Catalog WITH
        Folder <- OneFolder, Device <- OneDevice, Profile <- OneProfile,
        Connector <- OneConnector, Actor <- Everyone, Subject <- People, Grants <- Manages,
        ConnModes <- Direct, Slot <- Nothing, MaxVersion <- 2

V1 == INSTANCE Credentials WITH
        Collection <- Collections, Credential <- OneCredential, File <- OneFile,
        Name <- Names, Value <- Values, Actor <- Root, Subject <- People, Grants <- Nothing,
        Slot <- Nothing, MaxVersion <- 2,
        sealed <- vSealed, slot <- vSlot

V2 == INSTANCE Credentials WITH
        Collection <- OneCollection, Credential <- OneCredential, File <- OneFile,
        Name <- Nothing, Value <- OneValue, Actor <- Root, Subject <- People,
        Grants <- Nothing, Slot <- Slots, MaxVersion <- 2,
        sealed <- vSealed, slot <- vSlot

cvars == <<folder, device, profile, sealed, slot, hung>>
vvars == <<collection, credential, file, vSealed, entered, shown, vSlot, late>>
vars == <<part, cvars, vvars>>

NoC ==
    /\ folder = None /\ device = None /\ profile = None /\ sealed = None /\ slot = None
    /\ hung = None
NoV ==
    /\ collection = None /\ credential = None /\ file = None /\ vSealed = None
    /\ entered = None /\ shown = None /\ vSlot = None /\ late = None

Init ==
    \/ part = "C1" /\ C1!Init /\ NoV
    \/ part = "C2" /\ C2!Init /\ NoV
    \/ part = "C3" /\ C3!Init /\ NoV
    \/ part = "V1" /\ V1!Init /\ NoC
    \/ part = "V2" /\ V2!Init /\ NoC

Next ==
    \/ part = "C1" /\ C1!Next /\ UNCHANGED <<part, vvars>>
    \/ part = "C2" /\ C2!Next /\ UNCHANGED <<part, vvars>>
    \/ part = "C3" /\ C3!Next /\ UNCHANGED <<part, vvars>>
    \/ part = "V1" /\ V1!Next /\ UNCHANGED <<part, cvars>>
    \/ part = "V2" /\ V2!Next /\ UNCHANGED <<part, cvars>>

Spec == Init /\ [][Next]_vars

-----------------------------------------------------------------------------
(* Catalog, one request at a time: the tree has no loops and shows nobody   *)
(* an object out of its place; a device signs in with a profile of its      *)
(* folder or above, and with a key only over SSH.                           *)
TreeHangsTogether ==
    /\ part = "C1" => C1!TypeOK /\ C1!QueriesEnd /\ C1!TreeHangsTogether
                      /\ C1!ProfileWithinReach /\ C1!KeysOnlyForSsh
    /\ part = "C3" => C3!TypeOK /\ C3!QueriesEnd /\ C3!TreeHangsTogether
                      /\ C3!ProfileWithinReach /\ C3!KeysOnlyForSsh

(* One request at a time: a pinned key or certificate is that of the        *)
(* device's present address, of a device's secrets there is exactly the     *)
(* current one; a credential's current secrets are what was last entered,   *)
(* field by field, and its row says what is sealed.                         *)
CurrentIsWhatWasEntered ==
    /\ part = "C1" => C1!PinIsOfTheTarget /\ C1!OnlyTheCurrentSecret
    /\ part = "C3" => C3!PinIsOfTheTarget /\ C3!OnlyTheCurrentSecret
    /\ part = "V1" => V1!TypeOK /\ V1!CurrentIsWhatWasEntered /\ V1!RowAgreesWithVault

(* However requests interleave: what an object names is there, and of what  *)
(* was purged nothing is left but what was sealed during the purge.         *)
NothingDangles ==
    /\ part = "C1" => C1!NothingDangles
    /\ part = "C2" => C2!TypeOK /\ C2!NothingDangles
    /\ part = "V1" => V1!NothingLeftOfThePurged
    /\ part = "V2" => V2!TypeOK /\ V2!NothingLeftOfThePurged

(* One request at a time: nobody points a device that signs in with a       *)
(* profile elsewhere who may not use the profile.                           *)
ProfileGoesWithItsUser ==
    [][/\ part = "C1" => C1!ProfileGoesWithItsUserStep
       /\ part = "C3" => C3!ProfileGoesWithItsUserStep]_vars

(* A version, once sealed, is never sealed again, and what is revealed of   *)
(* it is what was sealed.                                                   *)
HistoryIsFinal ==
    [][/\ part = "V1" => V1!HistoryIsFinalStep /\ V1!RevealedAsSealedStep
       /\ part = "V2" => V2!HistoryIsFinalStep]_vars
=============================================================================
