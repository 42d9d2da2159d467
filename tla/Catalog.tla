------------------------------- MODULE Catalog -------------------------------
(***************************************************************************)
(* Folders, devices and the login profiles devices share (api/catalog.rs,  *)
(* api/profiles.rs).                                                       *)
(*                                                                         *)
(* A handler authorizes and decides from what it read, outside of any      *)
(* transaction, and writes in a transaction later.  With Slot empty, one   *)
(* request at a time, a handler is one step; otherwise it is two, and what *)
(* it decided waits in `slot' while others commit.  The statements of a    *)
(* transaction are one step; it is rolled back when a check in it or a     *)
(* foreign key refuses.                                                    *)
(***************************************************************************)
EXTENDS Permissions

CONSTANTS
    Folder, Device, Profile, Connector,
    Actor,          \* people, each a subject: sids and admin
    Subject,        \* [Actor -> their subject]
    Grants,         \* the grants on folders
    ConnModes,      \* of "inherit", "direct" and "connector", those asked for
    Slot,           \* requests under way at once, in two steps
    MaxVersion,     \* bound: versions of a secret
    NotYet, Gone,   \* a row that was never there, one that was deleted
    None,           \* a column that is NULL
    Stay            \* a column the request leaves as it is

VARIABLES
    folder, device, profile,    \* the tables
    sealed,                     \* secret_fields: <<owner, version, kind>>
    slot,                       \* what requests under way decided
    hung                        \* a transaction whose query never ends

tables == <<folder, device, profile, sealed>>
catalogVars == <<folder, device, profile, sealed, slot, hung>>

Protocols == {"ssh", "rdp"}
Kinds     == {"password", "ssh_key"}

(* DeviceInput::validate; the sign-in modes without a secret of their own   *)
(* are one, "ask".                                                          *)
Valid(in) ==
    /\ (in.cmode = "connector") = (in.conn # None)
    /\ (in.mode = "profile") = (in.profile # None)
    /\ in.kind = "ssh_key" => in.mode = "device" /\ in.proto = "ssh"
    /\ in.given => in.mode = "device"

DeviceInputs ==
    {in \in [up : Folder, proto : Protocols,
             cmode : ConnModes, conn : Connector \cup {None},
             mode : {"profile", "device", "ask"}, profile : Profile \cup {None},
             kind : Kinds, given : BOOLEAN] : Valid(in)}

(* With one request at a time nobody holds on to the name of a deleted row, *)
(* and a new row may as well have it.                                       *)
Deleted == IF Slot = {} THEN NotYet ELSE Gone

There(t) == {o \in DOMAIN t : t[o] \notin {NotYet, Gone}}

TypeOK ==
    /\ folder \in [Folder -> {NotYet, Gone}
                     \cup [up : Folder \cup {Top}, conn : Connector \cup {None}]]
    /\ \A d \in There(device) :
         device[d].ver \in 0 .. MaxVersion /\ device[d].up \in There(folder)
    /\ hung \in BOOLEAN
    /\ profile \in [Profile -> {NotYet, Gone}
                     \cup [up : Folder \cup {Top}, kind : Kinds, ver : 1 .. MaxVersion]]
    /\ sealed \subseteq (Device \cup Profile) \X (1 .. MaxVersion) \X Kinds

Init ==
    /\ folder = [f \in Folder |-> NotYet]
    /\ device = [d \in Device |-> NotYet]
    /\ profile = [p \in Profile |-> NotYet]
    /\ sealed = {}
    /\ slot = [s \in Slot |-> None]
    /\ hung = FALSE

-----------------------------------------------------------------------------
(* The tree, permissions, and where a device is reached.                    *)

TreeOf(fo, de, pr) ==
    [o \in There(fo) \cup There(de) \cup There(pr) |->
        IF o \in Folder THEN fo[o].up ELSE IF o \in Device THEN de[o].up ELSE pr[o].up]

Now == Load(TreeOf(folder, device, profile), Grants, 0)

(* Context::load: the catalog as it is when the request comes, and the role *)
(* the actor has on each object in it.                                      *)
Context(now, a) ==
    [now   |-> now,
     admin |-> Subject[a].admin,
     role  |-> [o \in DOMAIN now.parent |-> EffectiveRole(now, Subject[a], o)]]

(* Context::require.                                                        *)
Role(cx, o) == IF o \in DOMAIN cx.role THEN cx.role[o] ELSE NoRole

FolderTree(fo) == [parent |-> [f \in There(fo) |-> fo[f].up], grants |-> {}]

(* folder_connector: the nearest connector a folder on the path names.      *)
FolderConnector(fo, f) ==
    LET path  == ObjectPath(FolderTree(fo), f)
        named == SelectSeq(path, LAMBDA g : fo[g].conn # None)
    IN  IF named = <<>> THEN None ELSE fo[Head(named)].conn

(* device_connector.                                                        *)
ReachedThrough(fo, dev) ==
    CASE dev.cmode = "connector" -> dev.conn
      [] dev.cmode = "direct"    -> None
      [] dev.cmode = "inherit"   -> FolderConnector(fo, dev.up)

(* What a pin or a secret belongs to; host and port change as the protocol. *)
Target(fo, dev) == <<dev.proto, ReachedThrough(fo, dev)>>

InReachOf(fo, home, f) == home = Top \/ Within(FolderTree(fo), f, home)

(* in_reach, from the catalog that was loaded.                              *)
InReach(p, f) == InReachOf(folder, profile[p].up, f)

OutOfReach(fo, de, pr) ==
    {d \in There(de) : /\ de[d].profile # None
                       /\ ~InReachOf(fo, pr[de[d].profile].up, de[d].up)}

ProfileFits(p, proto) == profile[p].kind = "ssh_key" => proto = "ssh"

DevicesBelow(fo, f) == {d \in There(device) : Within(FolderTree(fo), device[d].up, f)}

Loops(fo) == {f \in There(fo) : fo[f].up # Top /\ Within(FolderTree(fo), fo[f].up, f)}

-----------------------------------------------------------------------------
(* The transactions.  `r' is what the handler decided before.               *)

CreateFolderTx(r) ==
    /\ folder[r.f] = NotYet /\ r.up \in There(folder) \cup {Top}
    /\ folder' = [folder EXCEPT ![r.f] = [up |-> r.up, conn |-> r.conn]]
    /\ UNCHANGED <<device, profile, sealed, hung>>

Changed(r) ==
    [folder EXCEPT ![r.f].up   = IF r.up = Stay THEN @ ELSE r.up,
                   ![r.f].conn = IF r.conn = Stay THEN @ ELSE r.conn]

Retargeted(r) ==
    {d \in DevicesBelow(folder, r.f) \cap DevicesBelow(Changed(r), r.f) :
        Target(folder, device[d]) # Target(Changed(r), device[d])}

(* Fault: what was pinned stays.                                            *)
ForgetNoPins(r) == device

(* FORGET_PINS.                                                             *)
ForgetPins(r) ==
    [d \in Device |-> IF d \in Retargeted(r) THEN [device[d] EXCEPT !.pin = None] ELSE device[d]]

(* Fault: the profiles of retargeted devices are not asked about.           *)
RetargetAnyone(r) == TRUE

RetargetAllowed(r) ==
    \A d \in Retargeted(r) : device[d].profile = None \/ device[d].profile \in r.usable

(* Fault: devices the move takes away from their profile are not looked at. *)
UpdateFolderStrands(r) ==
    /\ r.f \in There(folder) /\ r.up \in There(folder) \cup {Top, Stay}
    /\ RetargetAllowed(r)
    /\ folder' = Changed(r) /\ device' = ForgetPins(r)
    /\ UNCHANGED <<profile, sealed, hung>>

(* update_folder.  On a loop devices_below goes round without end.          *)
UpdateFolderTx(r) ==
    /\ r.f \in There(folder) /\ r.up \in There(folder) \cup {Top, Stay}
    /\ IF r.f \in Loops(Changed(r))
       THEN hung' = TRUE /\ UNCHANGED <<folder, device, profile, sealed>>
       ELSE /\ RetargetAllowed(r)
            /\ OutOfReach(Changed(r), device, profile) = {}
            /\ folder' = Changed(r) /\ device' = ForgetPins(r)
            /\ UNCHANGED <<profile, sealed, hung>>

(* Fault: the devices in it are not looked at.                              *)
DeleteFolderAnyway(r) ==
    /\ \A o \in There(folder) : folder[o].up # r.f
    /\ folder' = [folder EXCEPT ![r.f] = Deleted]
    /\ UNCHANGED <<device, profile, sealed, hung>>

(* ON DELETE RESTRICT.                                                      *)
DeleteFolderTx(r) ==
    /\ \A o \in There(folder) : folder[o].up # r.f
    /\ \A o \in There(device) : device[o].up # r.f
    /\ \A o \in There(profile) : profile[o].up # r.f
    /\ folder' = [folder EXCEPT ![r.f] = Deleted]
    /\ UNCHANGED <<device, profile, sealed, hung>>

Row(in, ver, pin) ==
    [up |-> in.up, proto |-> in.proto, cmode |-> in.cmode, conn |-> in.conn, mode |-> in.mode,
     profile |-> in.profile, kind |-> in.kind, ver |-> ver, pin |-> pin]

(* The foreign keys of a device.                                            *)
PointsAt(in) == in.up \in There(folder) /\ in.profile \in There(profile) \cup {None}

CreateDeviceTx(r) ==
    /\ device[r.d] = NotYet /\ PointsAt(r.in)
    /\ device' = [device EXCEPT ![r.d] = Row(r.in, IF r.in.given THEN 1 ELSE 0, None)]
    /\ sealed' = IF r.in.given THEN sealed \cup {<<r.d, 1, r.in.kind>>} ELSE sealed
    /\ UNCHANGED <<folder, profile, hung>>

(* Only the secrets of version `ver' are kept, with the new one if given.   *)
Reseal(o, ver, kind, given) ==
    {x \in sealed : x[1] # o \/ x[2] = ver} \cup (IF given THEN {<<o, ver, kind>>} ELSE {})

(* Fault: the older secrets stay.                                           *)
UpdateDeviceKeepsOld(r) ==
    /\ PointsAt(r.in)
    /\ r.in.given => <<r.d, r.ver, r.in.kind>> \notin sealed
    /\ sealed' = sealed \cup (IF r.in.given THEN {<<r.d, r.ver, r.in.kind>>} ELSE {})
    /\ device' = IF r.d \in There(device)
                 THEN [device EXCEPT ![r.d] = Row(r.in, r.ver, IF r.moved THEN None ELSE @.pin)]
                 ELSE device
    /\ UNCHANGED <<folder, profile, hung>>

(* update_device; the rows of secret_fields have no foreign key.            *)
UpdateDeviceTx(r) ==
    /\ PointsAt(r.in)
    /\ r.in.given => <<r.d, r.ver, r.in.kind>> \notin sealed
    /\ sealed' = Reseal(r.d, r.ver, r.in.kind, r.in.given)
    /\ device' = IF r.d \in There(device)
                 THEN [device EXCEPT ![r.d] = Row(r.in, r.ver, IF r.moved THEN None ELSE @.pin)]
                 ELSE device
    /\ UNCHANGED <<folder, profile, hung>>

MoveDeviceTx(r) ==
    /\ r.d \in There(device) /\ r.up \in There(folder)
    /\ device' = [device EXCEPT ![r.d].up = r.up, ![r.d].pin = IF r.moved THEN None ELSE @]
    /\ UNCHANGED <<folder, profile, sealed, hung>>

DeleteDeviceTx(r) ==
    /\ sealed' = {x \in sealed : x[1] # r.d}
    /\ device' = [device EXCEPT ![r.d] = Deleted]
    /\ UNCHANGED <<folder, profile, hung>>

ResetHostKeyTx(r) ==
    /\ r.d \in There(device)
    /\ device' = [device EXCEPT ![r.d].pin = None]
    /\ UNCHANGED <<folder, profile, sealed, hung>>

CreateProfileTx(r) ==
    /\ profile[r.p] = NotYet /\ r.up \in There(folder) \cup {Top}
    /\ profile' = [profile EXCEPT ![r.p] = [up |-> r.up, kind |-> r.kind, ver |-> 1]]
    /\ sealed' = sealed \cup {<<r.p, 1, r.kind>>}
    /\ UNCHANGED <<folder, device, hung>>

ChangedProfile(r) ==
    IF r.p \in There(profile)
    THEN [profile EXCEPT ![r.p] = [up |-> r.up, kind |-> r.kind, ver |-> r.ver]] ELSE profile

(* Fault: the devices that would sign in with a key are not looked at.      *)
UpdateProfileAnyKind(r) ==
    /\ r.up \in There(folder) \cup {Top}
    /\ r.given => <<r.p, r.ver, r.kind>> \notin sealed
    /\ OutOfReach(folder, device, ChangedProfile(r)) = {}
    /\ profile' = ChangedProfile(r)
    /\ sealed' = IF r.given THEN Reseal(r.p, r.ver, r.kind, TRUE) ELSE sealed
    /\ UNCHANGED <<folder, device, hung>>

(* profiles::update.                                                        *)
UpdateProfileTx(r) ==
    /\ r.up \in There(folder) \cup {Top}
    /\ r.given => <<r.p, r.ver, r.kind>> \notin sealed
    /\ r.kind = "ssh_key" =>
         \A d \in There(device) : device[d].profile = r.p => device[d].proto = "ssh"
    /\ OutOfReach(folder, device, ChangedProfile(r)) = {}
    /\ profile' = ChangedProfile(r)
    /\ sealed' = IF r.given THEN Reseal(r.p, r.ver, r.kind, TRUE) ELSE sealed
    /\ UNCHANGED <<folder, device, hung>>

(* profiles::delete: only a profile no device uses.                         *)
DeleteProfileTx(r) ==
    /\ \A d \in There(device) : device[d].profile # r.p
    /\ sealed' = {x \in sealed : x[1] # r.p}
    /\ profile' = [profile EXCEPT ![r.p] = Deleted]
    /\ UNCHANGED <<folder, device, hung>>

Transaction(r) ==
    \/ r.op = "create_folder"  /\ CreateFolderTx(r)
    \/ r.op = "update_folder"  /\ UpdateFolderTx(r)
    \/ r.op = "delete_folder"  /\ DeleteFolderTx(r)
    \/ r.op = "create_device"  /\ CreateDeviceTx(r)
    \/ r.op = "update_device"  /\ UpdateDeviceTx(r)
    \/ r.op = "move_device"    /\ MoveDeviceTx(r)
    \/ r.op = "delete_device"  /\ DeleteDeviceTx(r)
    \/ r.op = "reset_host_key" /\ ResetHostKeyTx(r)
    \/ r.op = "create_profile" /\ CreateProfileTx(r)
    \/ r.op = "update_profile" /\ UpdateProfileTx(r)
    \/ r.op = "delete_profile" /\ DeleteProfileTx(r)

(* What a handler does once its checks passed.                              *)
Serve(r) ==
    IF Slot = {} THEN Transaction(r) /\ UNCHANGED slot
    ELSE /\ \E s \in Slot : slot[s] = None /\ slot' = [slot EXCEPT ![s] = r]
         /\ UNCHANGED <<tables, hung>>

Finish(s) ==
    /\ slot[s] # None
    /\ Transaction(slot[s])
    /\ slot' = [slot EXCEPT ![s] = None]

(* The transaction is rolled back, or the server goes away before it.       *)
Abandon(s) ==
    /\ slot[s] # None
    /\ slot' = [slot EXCEPT ![s] = None]
    /\ UNCHANGED <<tables, hung>>

-----------------------------------------------------------------------------
(* The handlers.                                                            *)

MayPlace(cx, up, needed) ==
    IF up = Top THEN cx.admin ELSE Role(cx, up) >= needed

CreateFolder(cx, f, up, conn) ==
    /\ folder[f] = NotYet
    /\ MayPlace(cx, up, Manage)
    /\ Serve([op |-> "create_folder", f |-> f, up |-> up, conn |-> conn])

(* Fault: a folder may go into one of its own.                              *)
UpdateFolderAnywhere(cx, f, up, conn) ==
    /\ Role(cx, f) >= Manage
    /\ up # Stay => MayPlace(cx, up, Manage)
    /\ Serve([op |-> "update_folder", f |-> f, up |-> up, conn |-> conn,
              usable |-> {p \in Profile : Role(cx, p) >= Connect}])

UpdateFolder(cx, f, up, conn) ==
    /\ Role(cx, f) >= Manage
    /\ up # Stay => MayPlace(cx, up, Manage)
    /\ up \in Folder => ~Within(cx.now, up, f)
    /\ Serve([op |-> "update_folder", f |-> f, up |-> up, conn |-> conn,
              usable |-> {p \in Profile : Role(cx, p) >= Connect}])

DeleteFolder(cx, f) ==
    /\ Role(cx, f) >= Manage
    /\ Serve([op |-> "delete_folder", f |-> f])

(* Whoever points a login profile at a target may use that profile.         *)
MayUseProfile(cx, in) ==
    in.profile # None => Role(cx, in.profile) >= Connect

ProfileSuits(in) ==
    in.profile # None => InReach(in.profile, in.up) /\ ProfileFits(in.profile, in.proto)

CreateDevice(cx, d, in) ==
    /\ device[d] = NotYet
    /\ Role(cx, in.up) >= Edit
    /\ MayUseProfile(cx, in)
    /\ ProfileSuits(in)
    /\ in.mode = "device" => in.given
    /\ Serve([op |-> "create_device", d |-> d, in |-> in])

UpdateDevice(cx, d, in) ==
    /\ Role(cx, d) >= Edit
    /\ device[d].up # in.up => Role(cx, in.up) >= Edit
    /\ \E was \in {device[d]}, moved \in {Target(folder, device[d]) # Target(folder, in)} :
         LET keeps == /\ was.mode = "device" /\ was.ver > 0 /\ was.kind = in.kind
                      /\ moved => Role(cx, d) >= Reveal
             ver   == IF in.given THEN was.ver + 1
                      ELSE IF in.mode = "device" THEN was.ver ELSE 0
         IN  /\ was.profile # in.profile \/ moved => MayUseProfile(cx, in)
             /\ ProfileSuits(in)
             /\ in.mode = "device" /\ ~in.given => keeps
             /\ ver <= MaxVersion
             /\ Serve([op |-> "update_device", d |-> d, in |-> in, ver |-> ver, moved |-> moved])

MoveDevice(cx, d, up) ==
    /\ Role(cx, d) >= Edit /\ Role(cx, up) >= Edit
    /\ device[d].up # up
    /\ \E was \in {device[d]} :
         LET moved == Target(folder, was) # Target(folder, [was EXCEPT !.up = up])
         IN  /\ was.profile # None => InReach(was.profile, up)
             /\ moved => MayUseProfile(cx, was)
             /\ moved /\ was.mode = "device" /\ was.ver > 0 => Role(cx, d) >= Reveal
             /\ Serve([op |-> "move_device", d |-> d, up |-> up, moved |-> moved])

DeleteDevice(cx, d) ==
    /\ Role(cx, d) >= Edit
    /\ Serve([op |-> "delete_device", d |-> d])

ResetHostKey(cx, d) ==
    /\ Role(cx, d) >= Edit
    /\ Serve([op |-> "reset_host_key", d |-> d])

(* A first connection pins the key or certificate it met.                   *)
PinTarget(d) ==
    /\ d \in There(device)
    /\ device[d].pin = None
    /\ device' = [device EXCEPT ![d].pin = Target(folder, device[d])]
    /\ UNCHANGED <<folder, profile, sealed, slot, hung>>

CreateProfile(cx, p, up, kind) ==
    /\ profile[p] = NotYet
    /\ MayPlace(cx, up, Edit)
    /\ Serve([op |-> "create_profile", p |-> p, up |-> up, kind |-> kind])

UpdateProfile(cx, p, up, kind, given) ==
    /\ Role(cx, p) >= Edit
    /\ profile[p].up # up => MayPlace(cx, up, Edit)
    /\ given \/ kind = profile[p].kind
    /\ LET ver == profile[p].ver + IF given THEN 1 ELSE 0
       IN  /\ ver <= MaxVersion
           /\ Serve([op |-> "update_profile", p |-> p, up |-> up, kind |-> kind,
                     given |-> given, ver |-> ver])

DeleteProfile(cx, p) ==
    /\ Role(cx, p) >= Edit
    /\ Serve([op |-> "delete_profile", p |-> p])

By(a) ==
    \E now \in {Now} : \E cx \in {Context(now, a)} :
    \/ \E f \in Folder :
         \/ DeleteFolder(cx, f)
         \/ \E conn \in Connector \cup {None} :
              \E up \in Folder \cup {Top} : CreateFolder(cx, f, up, conn)
         \/ \E conn \in Connector \cup {None, Stay}, up \in Folder \cup {Top, Stay} :
              UpdateFolder(cx, f, up, conn)
    \/ \E d \in Device :
         \/ DeleteDevice(cx, d) \/ ResetHostKey(cx, d)
         \/ \E in \in DeviceInputs : CreateDevice(cx, d, in) \/ UpdateDevice(cx, d, in)
         \/ \E up \in Folder : MoveDevice(cx, d, up)
    \/ \E p \in Profile :
         \/ DeleteProfile(cx, p)
         \/ \E up \in Folder \cup {Top}, kind \in Kinds :
              \/ CreateProfile(cx, p, up, kind)
              \/ \E given \in BOOLEAN : UpdateProfile(cx, p, up, kind, given)

Next ==
    \/ \E a \in Actor : By(a)
    \/ \E d \in Device : PinTarget(d)
    \/ \E s \in Slot : Finish(s) \/ Abandon(s)

-----------------------------------------------------------------------------
(* Properties.  The first five are about one request at a time: with two    *)
(* under way each of them fails (README.md).                                *)

(* No move puts a folder into itself, directly or through others: every     *)
(* query over the tree comes to an end.                                     *)
QueriesEnd == ~hung

(* "A device may use only a profile within its reach": in its folder or     *)
(* above, whichever of device, folder and profile was moved.                *)
ProfileWithinReach == OutOfReach(folder, device, profile) = {}

(* "Keys are SSH's": no device of another protocol signs in with a profile  *)
(* that holds a key, whichever of the two was changed last.                 *)
KeysOnlyForSsh ==
    \A d \in There(device) :
        device[d].profile # None => ProfileFits(device[d].profile, device[d].proto)

(* "The same address behind another connector may be another machine": what *)
(* is pinned was met where the device is reached now, after any change of   *)
(* the device, of its folder or of a folder above it.                       *)
PinIsOfTheTarget ==
    \A d \in There(device) :
        device[d].pin # None => device[d].pin = Target(folder, device[d])

(* "Only the current secrets are kept; without own credentials, none", and  *)
(* the current one is there; nothing is left of what was deleted.           *)
OnlyTheCurrentSecret ==
    /\ \A d \in Device :
         {x \in sealed : x[1] = d} =
           IF d \in There(device) /\ device[d].mode = "device"
           THEN {<<d, device[d].ver, device[d].kind>>} ELSE {}
    /\ \A p \in Profile :
         {x \in sealed : x[1] = p} =
           IF p \in There(profile) THEN {<<p, profile[p].ver, profile[p].kind>>} ELSE {}

(* "Own credentials need their password or key from the start", and keep it *)
(* through every change: a device that signs in with its own has it sealed. *)
SecretAtHand ==
    \A d \in There(device) :
        device[d].mode = "device" => <<d, device[d].ver, device[d].kind>> \in sealed

(* "A login profile may only be linked, or sent to a changed target, by     *)
(* someone who may use it", however the target changed, one request at a    *)
(* time.                                                                    *)
ProfileGoesWithItsUserStep ==
    <<folder, device>>' # <<folder, device>> => \A d \in Device :
        (/\ device'[d] \notin {NotYet, Gone} /\ device'[d].profile # None
         /\ \/ device[d] = NotYet
            \/ device[d].profile # device'[d].profile
            \/ Target(folder, device[d]) # Target(folder', device'[d]))
        => \A a \in Actor : Role(Context(Now, a), device'[d].profile) < Connect => ~By(a)

ProfileGoesWithItsUser == [][ProfileGoesWithItsUserStep]_catalogVars

(* A container of what someone sees is shown to them too, up to the top,    *)
(* and a role on it holds for what it contains: the tree of visible() has   *)
(* no object without its way, and effective_role nothing that a folder      *)
(* gives and its contents lack.                                             *)
TreeHangsTogether ==
    \A a \in Actor : \E now \in {Now} :
        LET seen  == Visible(now, Subject[a])
            shown == seen.roles \cup seen.pathOnly
            cx    == Context(now, a)
        IN  \A o \in {x \in DOMAIN now.parent : now.parent[x] # Top} :
              /\ o \in shown => now.parent[o] \in shown
              /\ Role(cx, o) >= Role(cx, now.parent[o])

(* Whatever overlaps, nothing points at a row that is gone.                 *)
NothingDangles ==
    /\ \A f \in There(folder) : folder[f].up = Top \/ folder[f].up \in There(folder)
    /\ \A d \in There(device) : PointsAt(device[d])
    /\ \A p \in There(profile) : profile[p].up = Top \/ profile[p].up \in There(folder)
=============================================================================
