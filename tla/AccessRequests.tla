---------------------------- MODULE AccessRequests ---------------------------
(***************************************************************************)
(* Grants on objects (api/catalog.rs) and just-in-time access              *)
(* (api/requests.rs): someone asks for a role for a while, someone else    *)
(* who manages the object decides, and an approval becomes a grant that    *)
(* runs out by itself.                                                     *)
(*                                                                         *)
(* A handler reads the permissions first and writes in a transaction       *)
(* later: one step with Slot empty, two steps otherwise.                   *)
(***************************************************************************)
EXTENDS Permissions

CONSTANTS
    Object, Parent,     \* the tree: [Object -> what contains it]
    Person, Subject,    \* [Person -> their subject]
    Named,              \* those who have a principal of their own
    First,              \* the grants there are at first
    Request,            \* ids of requests
    MaxTime, MaxGrants, \* bounds: the clock, grants at a time
    Minutes,            \* how long access may be asked for
    Granted,            \* the roles add_grant is asked for
    Slot,               \* requests under way at once, in two steps
    NotYet, None

VARIABLES
    there,      \* the objects that were not deleted
    grants,     \* rows: on, to, role, until, and the request they come from
    request,    \* [Request -> row]
    clock,      \* the database's clock
    slot        \* what requests under way decided

accessVars == <<there, grants, request, clock, slot>>

Grant(o, p, role, until, r) == [on |-> o, to |-> p, role |-> role, until |-> until, req |-> r]

GrantRow == [on : Object, to : Person, role : Roles, until : Nat, req : Request \cup {None}]

(* access_requests; `min' is how long, `second' who decided, and `until' the *)
(* end an approval gave it.                                                  *)
Row == [by : Person, on : Object, role : Roles, min : Minutes,
        status : {"pending", "approved", "denied", "cancelled", "deleted"},
        second : Person \cup {None}, until : Nat]

(* What a request has read and decided before its transaction.              *)
UnderWay ==
    [op : {"create"}, p : Person, r : Request, o : Object, role : Roles, min : Minutes]
    \cup [op : {"decide"}, p : Person, r : Request, approve : BOOLEAN, manages : SUBSET Object]
    \cup [op : {"cancel"}, p : Person, r : Request]
    \cup [op : {"add_grant"}, p : Person, o : Object, to : Person, role : Granted,
          until : {0, MaxTime}]
    \cup [op : {"remove_grant"}, p : Person, g : GrantRow]
    \cup [op : {"delete_object"}, p : Person, o : Object]

ConstantsOK ==
    /\ MaxTime \in Nat /\ Minutes \subseteq Nat \ {0} /\ Granted \subseteq Roles
    /\ First \subseteq GrantRow /\ \A g \in First : g.req = None
    /\ None \notin Person \cup Request \cup UnderWay
    /\ NotYet \notin Row

TypeOK ==
    /\ there \subseteq Object
    /\ clock \in 0 .. MaxTime
    /\ grants \subseteq GrantRow /\ \A g \in grants : g.on \in there
    /\ request \in [Request -> Row \cup {NotYet}]
    /\ slot \in [Slot -> UnderWay \cup {None}]

Init ==
    /\ there = Object
    /\ grants = First
    /\ request = [r \in Request |-> NotYet]
    /\ clock = 0
    /\ slot = [s \in Slot |-> None]

Now == Load([o \in there |-> IF Parent[o] \in there THEN Parent[o] ELSE Top], grants, clock)

(* context(): the roles everyone has, as they are when a request comes.     *)
RolesIn(now) ==
    [p \in Person |-> [o \in DOMAIN now.parent |-> EffectiveRole(now, Subject[p], o)]]

Role(cx, o) == IF o \in DOMAIN cx THEN cx[o] ELSE NoRole

(* The object of the request, its role and who asked: a waiting request.    *)
Waiting(r, p, o, role) ==
    /\ request[r] # NotYet
    /\ request[r].status = "pending"
    /\ request[r].by = p /\ request[r].on = o /\ request[r].role = role

-----------------------------------------------------------------------------
(* The transactions.                                                        *)

CreateTx(t) ==
    /\ t.o \in there /\ request[t.r] = NotYet
    /\ request' = [request EXCEPT ![t.r] =
         [by |-> t.p, on |-> t.o, role |-> t.role, min |-> t.min, status |-> "pending",
          second |-> None, until |-> 0]]
    /\ UNCHANGED <<there, grants, clock>>

Decided(r, p, status, until) ==
    [request EXCEPT ![r].status = status, ![r].second = p, ![r].until = until]

(* Fault: whoever manages the object decides, the requester too.            *)
DecideOwn(t) ==
    /\ request[t.r] # NotYet
    /\ request[t.r].on \in t.manages
    /\ request[t.r].status = "pending"
    /\ IF t.approve
       THEN LET until == clock + request[t.r].min IN
            /\ request' = Decided(t.r, t.p, "approved", until)
            /\ grants' = grants \cup
                 {Grant(request[t.r].on, request[t.r].by, request[t.r].role, until, t.r)}
       ELSE request' = Decided(t.r, t.p, "denied", 0) /\ UNCHANGED grants
    /\ UNCHANGED <<there, clock>>

(* Fault: a request that was decided is decided again.                      *)
DecideAgain(t) ==
    /\ request[t.r] # NotYet /\ request[t.r].status # "deleted"
    /\ request[t.r].on \in t.manages
    /\ request[t.r].by # t.p
    /\ IF t.approve
       THEN LET until == clock + request[t.r].min IN
            /\ request' = Decided(t.r, t.p, "approved", until)
            /\ grants' = grants \cup
                 {Grant(request[t.r].on, request[t.r].by, request[t.r].role, until, t.r)}
       ELSE request' = Decided(t.r, t.p, "denied", 0) /\ UNCHANGED grants
    /\ UNCHANGED <<there, clock>>

(* decide: the row is locked, and looked at under the lock.                 *)
DecideTx(t) ==
    /\ request[t.r] # NotYet
    /\ request[t.r].on \in t.manages
    /\ request[t.r].by # t.p
    /\ request[t.r].status = "pending"
    /\ IF t.approve
       THEN LET until == clock + request[t.r].min IN
            /\ request' = Decided(t.r, t.p, "approved", until)
            /\ grants' = grants \cup
                 {Grant(request[t.r].on, request[t.r].by, request[t.r].role, until, t.r)}
       ELSE request' = Decided(t.r, t.p, "denied", 0) /\ UNCHANGED grants
    /\ UNCHANGED <<there, clock>>

(* cancel.                                                                  *)
CancelTx(t) ==
    /\ request[t.r] # NotYet
    /\ request[t.r].by = t.p /\ request[t.r].status = "pending"
    /\ request' = [request EXCEPT ![t.r].status = "cancelled"]
    /\ UNCHANGED <<there, grants, clock>>

(* add_grant: one without end replaces the role of one without end.         *)
AddGrantTx(t) ==
    /\ t.o \in there /\ Cardinality(grants) < MaxGrants
    /\ grants' = {g \in grants : ~(t.until = 0 /\ g.until = 0 /\ g.on = t.o /\ g.to = t.to)}
                   \cup {Grant(t.o, t.to, t.role, t.until, None)}
    /\ UNCHANGED <<there, request, clock>>

RemoveGrantTx(t) ==
    /\ grants' = grants \ {t.g}
    /\ UNCHANGED <<there, request, clock>>

(* An object is deleted: its grants and requests go with it (CASCADE).      *)
DeleteObjectTx(t) ==
    /\ t.o \in there /\ \A c \in there : Parent[c] # t.o
    /\ there' = there \ {t.o}
    /\ grants' = {g \in grants : g.on # t.o}
    /\ request' = [r \in Request |->
         IF request[r] # NotYet /\ request[r].on = t.o
         THEN [request[r] EXCEPT !.status = "deleted"] ELSE request[r]]
    /\ UNCHANGED clock

Transaction(t) ==
    \/ t.op = "create"        /\ CreateTx(t)
    \/ t.op = "decide"        /\ DecideTx(t)
    \/ t.op = "cancel"        /\ CancelTx(t)
    \/ t.op = "add_grant"     /\ AddGrantTx(t)
    \/ t.op = "remove_grant"  /\ RemoveGrantTx(t)
    \/ t.op = "delete_object" /\ DeleteObjectTx(t)

Serve(t) ==
    IF Slot = {} THEN Transaction(t) /\ UNCHANGED slot
    ELSE /\ \E s \in Slot : slot[s] = None /\ slot' = [slot EXCEPT ![s] = t]
         /\ UNCHANGED <<there, grants, request, clock>>

Finish(s) ==
    /\ slot[s] # None
    /\ Transaction(slot[s])
    /\ slot' = [slot EXCEPT ![s] = None]

Abandon(s) ==
    /\ slot[s] # None
    /\ slot' = [slot EXCEPT ![s] = None]
    /\ UNCHANGED <<there, grants, request, clock>>

-----------------------------------------------------------------------------
(* The handlers.                                                            *)

(* create; of the same role on the same object only one may wait.           *)
Create(now, cx, p, r, o, role, min) ==
    /\ p \in Named
    /\ request[r] = NotYet
    /\ Role(cx, o) # NoRole /\ MayRequest(now, Subject[p], role, o)
    /\ ~\E q \in Request : Waiting(q, p, o, role)
    /\ Serve([op |-> "create", p |-> p, r |-> r, o |-> o, role |-> role, min |-> min])

(* approve and deny.                                                        *)
Decide(cx, p, r, approve) ==
    /\ request[r] # NotYet
    /\ Serve([op |-> "decide", p |-> p, r |-> r, approve |-> approve,
              manages |-> {o \in there : Role(cx, o) >= Manage}])

Cancel(p, r) ==
    /\ request[r] # NotYet
    /\ Serve([op |-> "cancel", p |-> p, r |-> r])

(* Fault: whoever may edit an object may grant it.                          *)
AddGrantEditing(cx, p, o, to, role, until) ==
    /\ Role(cx, o) >= Connect
    /\ until = 0 \/ until > clock
    /\ Serve([op |-> "add_grant", p |-> p, o |-> o, to |-> to, role |-> role, until |-> until])

AddGrant(cx, p, o, to, role, until) ==
    /\ Role(cx, o) >= Manage
    /\ until = 0 \/ until > clock
    /\ Serve([op |-> "add_grant", p |-> p, o |-> o, to |-> to, role |-> role, until |-> until])

RemoveGrant(cx, p, g) ==
    /\ Role(cx, g.on) >= Manage
    /\ Serve([op |-> "remove_grant", p |-> p, g |-> g])

DeleteObject(cx, p, o) ==
    /\ Role(cx, o) >= Manage
    /\ Serve([op |-> "delete_object", p |-> p, o |-> o])

Tick ==
    /\ clock < MaxTime
    /\ clock' = clock + 1
    /\ UNCHANGED <<there, grants, request, slot>>

By(p) ==
    \E now \in {Now} : \E cx \in {RolesIn(now)[p]} :
    \/ \E r \in Request :
         \/ Cancel(p, r)
         \/ \E approve \in BOOLEAN : Decide(cx, p, r, approve)
         \/ \E o \in Object, role \in Roles, min \in Minutes : Create(now, cx, p, r, o, role, min)
    \/ \E o \in Object :
         \/ DeleteObject(cx, p, o)
         \/ \E to \in Person, role \in Granted, until \in {0, MaxTime} :
              AddGrant(cx, p, o, to, role, until)
    \/ \E g \in grants : RemoveGrant(cx, p, g)

Next ==
    \/ \E p \in Person : By(p)
    \/ Tick
    \/ \E s \in Slot : Finish(s) \/ Abandon(s)

Spec == Init /\ [][Next]_accessVars

-----------------------------------------------------------------------------
(* Properties.                                                              *)

Asked(r) == request[r] # NotYet

Asker == [r \in Request |-> IF Asked(r) THEN request[r].by ELSE None]
Second == [r \in Request |-> IF Asked(r) THEN request[r].second ELSE None]
Carried == {r \in Request : Asked(r) /\ request[r].until > 0}

Eyes == INSTANCE FourEyes WITH
    Item <- Request, Nobody <- None,
    asker <- Asker, second <- Second, carried <- Carried

(* "Four eyes: not even an administrator decides their own request", and a  *)
(* request is decided once, whatever requests overlap: just-in-time access  *)
(* implements FourEyes.                                                     *)
ImplementsFourEyes == Eyes!Spec

(* A grant that comes from a request is the one that was approved: to the   *)
(* person who asked, on that object, with that role, to the end the         *)
(* approval gave it; and no request has two.                                *)
GrantIsWhatWasApproved ==
    \A g \in grants : g.req # None =>
        /\ request[g.req].status = "approved"
        /\ g = Grant(request[g.req].on, request[g.req].by, request[g.req].role,
                     request[g.req].until, g.req)
        /\ \A h \in grants : h.req = g.req => h = g

(* Whatever set of objects has o and what contains each of its own, has on. *)
Reaches(on, o) ==
    \A s \in SUBSET there :
      o \in s /\ (\A x \in s : Parent[x] \in s \cup {Top}) => on \in s

(* Everyone has what the grants say, no less and no more: someone may do    *)
(* what a role allows exactly if a grant that has not ended gives them that *)
(* role or a higher one, on the object or on something it lies in           *)
(* (Catalog::authorize); so an approval works, and ends.                    *)
AccessIsWhatGrantsSay ==
    \E now \in {Now} :
    \A p \in Person, o \in there, role \in Roles :
      Authorize(now, Subject[p], role, o) <=>
        \E g \in grants : /\ g.to = p /\ g.role >= role /\ Reaches(g.on, o)
                          /\ g.until = 0 \/ clock < g.until

(* What was decided, taken back or deleted stays as it is: a decision and a *)
(* cancellation under way together cannot both count.                       *)
DecidedForGoodStep ==
    \A r \in Request : Asked(r) /\ request[r].status \notin {"pending", "deleted"} =>
      request'[r] = request[r] \/ request'[r].status = "deleted"

DecidedForGood == [][DecidedForGoodStep]_accessVars

(* Nobody gives themselves more: a step in which someone's role on an       *)
(* object rises is another person's (one request at a time).                *)
NobodyRaisesThemselvesStep ==
    <<there, grants>>' # <<there, grants>> =>
    \E now \in {Now}, next \in {Now'} :
    \E before \in {RolesIn(now)}, after \in {RolesIn(next)} :
      \A p \in Person : (\E o \in there' : after[p][o] > before[p][o]) => ~By(p)

NobodyRaisesThemselves == [][NobodyRaisesThemselvesStep]_accessVars
=============================================================================
