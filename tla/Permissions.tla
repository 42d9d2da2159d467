----------------------------- MODULE Permissions -----------------------------
(***************************************************************************)
(* The only place that decides permissions (crates/model): the trees of    *)
(* objects, the grants on them, and the highest role they give a subject.  *)
(*                                                                         *)
(* A catalog is a record: `parent' maps every object there is to what      *)
(* contains it (Top if nothing does), `grants' are the grants that       *)
(* count.  Roles are numbers in the order of enum Role; 0 is no role.      *)
(***************************************************************************)
EXTENDS Naturals, Sequences, FiniteSets
LOCAL INSTANCE FiniteSetsExt
LOCAL INSTANCE Functions

CONSTANT Top      \* what contains an object at the top level

NoRole  == 0
List    == 1
Connect == 2
Reveal  == 3
Edit    == 4
Manage  == 5
Roles   == List .. Manage

(* catalog::load: the objects and the grants as they are now; a grant that  *)
(* ran out grants nothing.  `until' 0: without end.                         *)
Load(parent, grants, now) ==
    [parent |-> parent,
     grants |-> {g \in grants : g.until = 0 \/ g.until > now}]

Exists(c, o) == o \in DOMAIN c.parent

Container(c, o) == IF Exists(c, o) THEN c.parent[o] ELSE Top

(* The object and everything above it, nearest first.  It stops at a loop,  *)
(* where a container comes a second time.                                   *)
ObjectPath(c, o) ==
    LET upTo[n \in 0 .. Cardinality(DOMAIN c.parent)] ==
          IF n = 0 THEN <<o>>
          ELSE LET path == upTo[n - 1]
                   next == Container(c, path[Len(path)])
               IN  IF next = Top \/ next \in Range(Tail(path)) THEN path
                   ELSE Append(path, next)
    IN  upTo[Cardinality(DOMAIN c.parent)]

Within(c, o, above) == above \in Range(ObjectPath(c, o))

(* grants_along and reasons: the grants on the path that name the subject.  *)
Reasons(c, subject, o) ==
    {g \in c.grants : g.on \in Range(ObjectPath(c, o)) /\ g.to \in subject.sids}

(* Fault: only the object's own grants are looked at.                       *)
EffectiveRoleOwn(c, subject, o) ==
    IF ~Exists(c, o) THEN NoRole
    ELSE IF subject.admin THEN Manage
    ELSE Max({NoRole} \cup {g.role : g \in {h \in c.grants : h.on = o /\ h.to \in subject.sids}})

EffectiveRole(c, subject, o) ==
    IF ~Exists(c, o) THEN NoRole
    ELSE IF subject.admin THEN Manage
    ELSE Max({NoRole} \cup {g.role : g \in Reasons(c, subject, o)})

Authorize(c, subject, needed, o) == EffectiveRole(c, subject, o) >= needed

MayRequest(c, subject, role, o) ==
    /\ role \in {Connect, Reveal}
    /\ EffectiveRole(c, subject, o) \in List .. role - 1

MayApprove(c, subject, o) == Authorize(c, subject, Manage, o)

MayCreateTopLevel(subject) == subject.admin

(* What the subject sees: the objects it has a role on, and the containers  *)
(* that are only the way to one of them.                                    *)
Visible(c, subject) ==
    LET roles == {o \in DOMAIN c.parent : EffectiveRole(c, subject, o) # NoRole}
    IN  [roles |-> roles,
         pathOnly |-> UNION {Range(Tail(ObjectPath(c, o))) : o \in roles} \ roles]
=============================================================================
