------------------------ MODULE AccessRequestsProofs ------------------------
(***************************************************************************)
(* Theorems about AccessRequests, for any objects, people, requests and    *)
(* number of transactions under way: just-in-time access implements        *)
(* FourEyes, a grant that comes from a request is the one that was         *)
(* approved, and a decision stands.                                        *)
(***************************************************************************)
EXTENDS AccessRequests, TLAPS

\* Nobody decided what is pending or was cancelled, and somebody what has an
\* end; an approval gives one.
DecidedBySecond ==
  \A r \in Request : request[r] # NotYet =>
    /\ request[r].status \in {"pending", "cancelled"} =>
         request[r].second = None /\ request[r].until = 0
    /\ request[r].until > 0 => request[r].second # None

\* What a request is about is there; when it goes, the request goes with it.
ObjectIsThere ==
  \A r \in Request : request[r] # NotYet =>
    (request[r].status # "deleted" <=> request[r].on \in there)

\* The request a grant comes from is there.
GrantsWereAsked == \A g \in grants : g.req # None => request[g.req] # NotYet

\* The inductive invariant.
Inv ==
  /\ TypeOK
  /\ DecidedBySecond
  /\ ObjectIsThere
  /\ GrantsWereAsked
  /\ GrantIsWhatWasApproved

LEMMA InitInv == ConstantsOK /\ Init => Inv
<1> SUFFICES ASSUME ConstantsOK, Init PROVE Inv
  OBVIOUS
<1>1. TypeOK
  BY DEF Init, TypeOK, ConstantsOK, GrantRow
<1> QED
  BY <1>1 DEF Init, Inv, DecidedBySecond, ObjectIsThere, GrantsWereAsked, GrantIsWhatWasApproved,
              ConstantsOK

\* What a handler passes on is well formed.
LEMMA HandlersServe ==
  ASSUME ConstantsOK, TypeOK, NEW p \in Person, By(p)
  PROVE  \E t \in UnderWay : Serve(t)
<1> USE DEF ConstantsOK
<1>1. PICK cx : \/ \E r \in Request :
                     \/ Cancel(p, r)
                     \/ \E approve \in BOOLEAN : Decide(cx, p, r, approve)
                     \/ \E o \in Object, role \in Roles, min \in Minutes :
                          Create(Now, cx, p, r, o, role, min)
                \/ \E o \in Object :
                     \/ DeleteObject(cx, p, o)
                     \/ \E to \in Person, role \in Granted, until \in {0, MaxTime} :
                          AddGrant(cx, p, o, to, role, until)
                \/ \E g \in grants : RemoveGrant(cx, p, g)
  BY DEF By
<1>2. ASSUME NEW r \in Request, Cancel(p, r)
      PROVE  \E t \in UnderWay : Serve(t)
  <2> DEFINE t == [op |-> "cancel", p |-> p, r |-> r]
  <2>1. t \in UnderWay
    BY DEF UnderWay
  <2>2. Serve(t)
    BY <1>2 DEF Cancel
  <2> QED
    BY <2>1, <2>2
<1>3. ASSUME NEW r \in Request, NEW approve \in BOOLEAN, Decide(cx, p, r, approve)
      PROVE  \E t \in UnderWay : Serve(t)
  <2> DEFINE m == {o \in there : Role(cx, o) >= Manage}
             t == [op |-> "decide", p |-> p, r |-> r, approve |-> approve, manages |-> m]
  <2>1. m \in SUBSET Object
    BY DEF TypeOK
  <2>2. Serve(t)
    BY <1>3 DEF Decide
  <2> HIDE DEF m
  <2>3. t \in UnderWay
    BY <2>1 DEF UnderWay
  <2> QED
    BY <2>2, <2>3
<1>4. ASSUME NEW r \in Request, NEW o \in Object, NEW role \in Roles, NEW min \in Minutes,
             Create(Now, cx, p, r, o, role, min)
      PROVE  \E t \in UnderWay : Serve(t)
  <2> DEFINE t == [op |-> "create", p |-> p, r |-> r, o |-> o, role |-> role, min |-> min]
  <2>1. t \in UnderWay
    BY DEF UnderWay
  <2>2. Serve(t)
    BY <1>4 DEF Create
  <2> QED
    BY <2>1, <2>2
<1>5. ASSUME NEW o \in Object, DeleteObject(cx, p, o)
      PROVE  \E t \in UnderWay : Serve(t)
  <2> DEFINE t == [op |-> "delete_object", p |-> p, o |-> o]
  <2>1. t \in UnderWay
    BY DEF UnderWay
  <2>2. Serve(t)
    BY <1>5 DEF DeleteObject
  <2> QED
    BY <2>1, <2>2
<1>6. ASSUME NEW o \in Object, NEW to \in Person, NEW role \in Granted,
             NEW until \in {0, MaxTime}, AddGrant(cx, p, o, to, role, until)
      PROVE  \E t \in UnderWay : Serve(t)
  <2> DEFINE t == [op |-> "add_grant", p |-> p, o |-> o, to |-> to, role |-> role,
                   until |-> until]
  <2>1. t \in UnderWay
    BY DEF UnderWay
  <2>2. Serve(t)
    BY <1>6 DEF AddGrant
  <2> QED
    BY <2>1, <2>2
<1>7. ASSUME NEW g \in grants, RemoveGrant(cx, p, g)
      PROVE  \E t \in UnderWay : Serve(t)
  <2> DEFINE t == [op |-> "remove_grant", p |-> p, g |-> g]
  <2>1. t \in UnderWay
    BY DEF UnderWay, TypeOK
  <2>2. Serve(t)
    BY <1>7 DEF RemoveGrant
  <2> QED
    BY <2>1, <2>2
<1> QED
  BY <1>1, <1>2, <1>3, <1>4, <1>5, <1>6, <1>7

\* Every step is a transaction, the clock's, or of the requests under way.
LEMMA StepKinds ==
  ASSUME ConstantsOK, TypeOK, [Next]_accessVars
  PROVE  /\ slot' \in [Slot -> UnderWay \cup {None}]
         /\ \/ \E t \in UnderWay : Transaction(t)
            \/ /\ UNCHANGED <<there, grants, request>>
               /\ clock' \in {clock, clock + 1} /\ clock' \in 0 .. MaxTime
<1> USE DEF ConstantsOK, TypeOK
<1>1. ASSUME NEW t \in UnderWay, Serve(t)
      PROVE  /\ slot' \in [Slot -> UnderWay \cup {None}]
             /\ Transaction(t) \/ UNCHANGED <<there, grants, request, clock>>
  BY <1>1 DEF Serve
<1>2. ASSUME NEW s \in Slot, Finish(s)
      PROVE  /\ slot' \in [Slot -> UnderWay \cup {None}]
             /\ slot[s] \in UnderWay /\ Transaction(slot[s])
  BY <1>2 DEF Finish
<1>3. ASSUME NEW s \in Slot, Abandon(s)
      PROVE  /\ slot' \in [Slot -> UnderWay \cup {None}]
             /\ UNCHANGED <<there, grants, request, clock>>
  BY <1>3 DEF Abandon
<1>4. CASE Tick
  BY <1>4 DEF Tick
<1>5. CASE UNCHANGED accessVars
  BY <1>5 DEF accessVars
<1>6. CASE \E p \in Person : By(p)
  BY <1>1, <1>6, HandlersServe
<1>7. CASE \E s \in Slot : Finish(s) \/ Abandon(s)
  BY <1>2, <1>3, <1>7
<1> QED
  BY <1>4, <1>5, <1>6, <1>7 DEF Next

\* What a transaction is given.
LEMMA UnderWayType ==
  ASSUME ConstantsOK, NEW t \in UnderWay
  PROVE  /\ t.op = "create" =>
              /\ t.p \in Person /\ t.r \in Request /\ t.o \in Object
              /\ t.role \in Roles /\ t.min \in Minutes
         /\ t.op = "decide" => t.p \in Person /\ t.r \in Request
         /\ t.op = "cancel" => t.p \in Person /\ t.r \in Request
         /\ t.op = "add_grant" =>
              t.o \in Object /\ t.to \in Person /\ t.role \in Roles /\ t.until \in Nat
  BY DEF UnderWay, ConstantsOK

-----------------------------------------------------------------------------
(* The transactions, one by one.                                           *)

\* The row of a request that has no grant changes, or gets its first grant.
LEMMA RowStep ==
  ASSUME ConstantsOK, Inv, NEW r \in Request, NEW row \in Row, NEW more \in SUBSET GrantRow,
         request' = [request EXCEPT ![r] = row], grants' = grants \cup more,
         UNCHANGED <<there, clock>>,
         request[r] # NotYet => request[r].status # "approved",
         row.status \in {"pending", "cancelled"} => row.second = None /\ row.until = 0,
         row.until = 0 \/ row.second # None,
         row.on \in there, row.status # "deleted",
         \/ more = {}
         \/ /\ more = {Grant(row.on, row.by, row.role, row.until, r)}
            /\ row.status = "approved",
         slot' \in [Slot -> UnderWay \cup {None}]
  PROVE  Inv'
<1> USE DEF Inv, ConstantsOK
<1>1. /\ request' \in [Request -> Row \cup {NotYet}] /\ request'[r] = row /\ row # NotYet
      /\ \A q \in Request : q # r => request'[q] = request[q]
  BY DEF TypeOK
<1>2. DecidedBySecond' /\ ObjectIsThere'
  BY <1>1 DEF DecidedBySecond, ObjectIsThere
<1>3. \A g \in grants : g.req \in Request \cup {None} /\ g.req # r
  BY DEF TypeOK, GrantRow, GrantIsWhatWasApproved, GrantsWereAsked
<1>4. CASE more = {}
  <2>1. grants' = grants
    BY <1>4
  <2>2. GrantsWereAsked' /\ GrantIsWhatWasApproved'
    BY <1>1, <1>3, <2>1 DEF GrantsWereAsked, GrantIsWhatWasApproved
  <2> QED
    BY <1>1, <1>2, <2>1, <2>2 DEF TypeOK
<1>5. CASE more # {}
  <2> DEFINE n == Grant(row.on, row.by, row.role, row.until, r)
  <2>1. /\ n \in GrantRow /\ n.on = row.on /\ n.req = r
    BY DEF Grant, GrantRow, Row
  <2>2. grants' = grants \cup {n} /\ row.status = "approved"
    BY <1>5
  <2>3. n = Grant(row.on, row.by, row.role, row.until, r)
    OBVIOUS
  <2> HIDE DEF n
  <2>4. TypeOK'
    BY <1>1, <2>1, <2>2 DEF TypeOK
  <2>5. GrantsWereAsked'
    BY <1>1, <1>3, <2>1, <2>2 DEF GrantsWereAsked
  <2>6. ASSUME NEW g \in grants', g.req # None
        PROVE  /\ request'[g.req].status = "approved"
               /\ g = Grant(request'[g.req].on, request'[g.req].by, request'[g.req].role,
                            request'[g.req].until, g.req)
               /\ \A h \in grants' : h.req = g.req => h = g
    <3>1. CASE g = n
      BY <1>1, <1>3, <2>1, <2>2, <2>3, <3>1
    <3>2. CASE g \in grants
      BY <1>1, <1>3, <2>1, <2>2, <2>6, <3>2 DEF GrantIsWhatWasApproved
    <3> QED
      BY <2>2, <3>1, <3>2
  <2>7. GrantIsWhatWasApproved'
    BY <2>6 DEF GrantIsWhatWasApproved
  <2> QED
    BY <1>2, <2>4, <2>5, <2>7
<1> QED
  BY <1>4, <1>5

LEMMA CreateTxStep ==
  ASSUME ConstantsOK, Inv, NEW t \in UnderWay, t.op = "create", CreateTx(t),
         slot' \in [Slot -> UnderWay \cup {None}]
  PROVE  Inv'
<1> DEFINE row == [by |-> t.p, on |-> t.o, role |-> t.role, min |-> t.min, status |-> "pending",
                   second |-> None, until |-> 0]
<1>1. t.r \in Request /\ row \in Row
  BY UnderWayType DEF Row
<1>2. row.status = "pending" /\ row.second = None /\ row.until = 0 /\ row.on \in there
  BY DEF CreateTx
<1>3. /\ request' = [request EXCEPT ![t.r] = row] /\ request[t.r] = NotYet
      /\ UNCHANGED <<there, clock>> /\ grants' = grants \cup {}
  BY DEF CreateTx
<1> DEFINE more == {}
<1>4. more = {} /\ more \in SUBSET GrantRow /\ grants' = grants \cup more
  BY <1>3
<1> HIDE DEF row, more
<1> QED
  BY <1>1, <1>2, <1>3, <1>4, RowStep

LEMMA CancelTxStep ==
  ASSUME ConstantsOK, Inv, NEW t \in UnderWay, t.op = "cancel", CancelTx(t),
         slot' \in [Slot -> UnderWay \cup {None}]
  PROVE  Inv'
<1> DEFINE row == [request[t.r] EXCEPT !.status = "cancelled"]
<1>1. t.r \in Request
  BY UnderWayType
<1>2. /\ request[t.r] \in Row /\ request[t.r].status = "pending"
      /\ request[t.r].second = None /\ request[t.r].until = 0 /\ request[t.r].on \in there
  BY <1>1 DEF CancelTx, Inv, TypeOK, DecidedBySecond, ObjectIsThere
<1>3. /\ row \in Row /\ row.status = "cancelled" /\ row.second = None /\ row.until = 0
      /\ row.on \in there
  BY <1>2 DEF Row
<1>4. /\ request' = [request EXCEPT ![t.r] = row]
      /\ UNCHANGED <<there, clock>> /\ grants' = grants \cup {}
  BY DEF CancelTx
<1> DEFINE more == {}
<1>5. more = {} /\ more \in SUBSET GrantRow /\ grants' = grants \cup more
  BY <1>4
<1> HIDE DEF row, more
<1> QED
  BY <1>1, <1>2, <1>3, <1>4, <1>5, RowStep

\* The row of a request when it is decided, and the grant of an approval.
LEMMA DecidedRow ==
  ASSUME ConstantsOK, Inv, NEW t \in UnderWay, t.op = "decide", DecideTx(t)
  PROVE  \E row \in Row :
           /\ request' = [request EXCEPT ![t.r] = row]
           /\ row.second = t.p /\ row.on = request[t.r].on /\ row.by = request[t.r].by
           /\ \/ /\ row.status = "approved"
                 /\ grants' = grants \cup {Grant(row.on, row.by, row.role, row.until, t.r)}
              \/ row.status = "denied" /\ grants' = grants
<1>1. t.r \in Request /\ t.p \in Person
  BY UnderWayType
<1>2. request[t.r] \in Row
  BY <1>1 DEF DecideTx, Inv, TypeOK
<1>3. ASSUME NEW status \in {"approved", "denied"}, NEW until \in Nat,
             request' = Decided(t.r, t.p, status, until)
      PROVE  \E row \in Row :
               /\ request' = [request EXCEPT ![t.r] = row]
               /\ row.second = t.p /\ row.on = request[t.r].on /\ row.by = request[t.r].by
               /\ row.status = status /\ row.until = until /\ row.role = request[t.r].role
  <2> DEFINE row == [request[t.r] EXCEPT !.status = status, !.second = t.p, !.until = until]
  <2>1. /\ row \in Row /\ row.status = status /\ row.second = t.p /\ row.until = until
        /\ row.on = request[t.r].on /\ row.by = request[t.r].by
        /\ row.role = request[t.r].role
    BY <1>1, <1>2 DEF Row
  <2>2. request' = [request EXCEPT ![t.r] = row]
    BY <1>1, <1>3 DEF Decided, Inv, TypeOK
  <2> HIDE DEF row
  <2> QED
    BY <2>1, <2>2
<1>4. CASE t.approve
  <2> DEFINE until == clock + request[t.r].min
  <2>1. until \in Nat
    <3>1. request[t.r].min \in Nat
      BY <1>2 DEF Row, ConstantsOK
    <3>2. clock \in Nat
      BY DEF Inv, TypeOK, ConstantsOK
    <3> QED
      BY <3>1, <3>2
  <2>2. /\ request' = Decided(t.r, t.p, "approved", until)
        /\ grants' = grants \cup
             {Grant(request[t.r].on, request[t.r].by, request[t.r].role, until, t.r)}
    BY <1>4 DEF DecideTx
  <2> HIDE DEF until
  <2>3. PICK row \in Row :
           /\ request' = [request EXCEPT ![t.r] = row]
           /\ row.second = t.p /\ row.on = request[t.r].on /\ row.by = request[t.r].by
           /\ row.status = "approved" /\ row.until = until /\ row.role = request[t.r].role
    BY <1>3, <2>1, <2>2
  <2> QED
    BY <2>2, <2>3
<1>5. CASE ~t.approve
  <2> DEFINE zero == 0
  <2>1. zero \in Nat
    OBVIOUS
  <2>2. request' = Decided(t.r, t.p, "denied", zero) /\ grants' = grants
    BY <1>5 DEF DecideTx
  <2> HIDE DEF zero
  <2> QED
    BY <1>3, <2>1, <2>2
<1> QED
  BY <1>4, <1>5

LEMMA DecideTxStep ==
  ASSUME ConstantsOK, Inv, NEW t \in UnderWay, t.op = "decide", DecideTx(t),
         slot' \in [Slot -> UnderWay \cup {None}]
  PROVE  Inv'
<1>1. t.r \in Request /\ t.p \in Person /\ t.p # None
  BY UnderWayType DEF ConstantsOK
<1>2. /\ request[t.r] \in Row /\ request[t.r].status = "pending"
      /\ request[t.r].on \in there /\ UNCHANGED <<there, clock>>
  BY <1>1 DEF DecideTx, Inv, TypeOK, ObjectIsThere
<1>3. PICK row \in Row :
         /\ request' = [request EXCEPT ![t.r] = row]
         /\ row.second = t.p /\ row.on = request[t.r].on /\ row.by = request[t.r].by
         /\ \/ /\ row.status = "approved"
               /\ grants' = grants \cup {Grant(row.on, row.by, row.role, row.until, t.r)}
            \/ row.status = "denied" /\ grants' = grants
  BY DecidedRow
<1>4. /\ request' = [request EXCEPT ![t.r] = row]
      /\ request[t.r].status # "approved"
      /\ row.status \notin {"pending", "cancelled", "deleted"}
      /\ row.second # None /\ row.on \in there
  BY <1>1, <1>2, <1>3
<1>5. CASE /\ row.status = "approved"
           /\ grants' = grants \cup {Grant(row.on, row.by, row.role, row.until, t.r)}
  <2> DEFINE more == {Grant(row.on, row.by, row.role, row.until, t.r)}
  <2>1. /\ more = {Grant(row.on, row.by, row.role, row.until, t.r)}
        /\ more \in SUBSET GrantRow
    BY <1>1 DEF Row, Grant, GrantRow
  <2>2. grants' = grants \cup more
    BY <1>5
  <2> HIDE DEF more
  <2> QED
    BY <1>1, <1>2, <1>4, <1>5, <2>1, <2>2, RowStep
<1>6. CASE row.status = "denied" /\ grants' = grants
  <2> DEFINE more == {}
  <2>1. more = {} /\ more \in SUBSET GrantRow /\ grants' = grants \cup more
    BY <1>6
  <2> HIDE DEF more
  <2> QED
    BY <1>1, <1>2, <1>4, <2>1, RowStep
<1> QED
  BY <1>3, <1>5, <1>6

\* Grants that nobody asked for come and go.
LEMMA GrantTxStep ==
  ASSUME ConstantsOK, Inv, NEW t \in UnderWay,
         \/ t.op = "add_grant" /\ AddGrantTx(t)
         \/ t.op = "remove_grant" /\ RemoveGrantTx(t),
         slot' \in [Slot -> UnderWay \cup {None}]
  PROVE  Inv'
<1> USE DEF Inv
<1>1. UNCHANGED <<there, request, clock>>
  BY DEF AddGrantTx, RemoveGrantTx
<1>2. PICK more \in SUBSET GrantRow :
           /\ grants' \subseteq grants \cup more
           /\ \A g \in more : g.on \in there /\ g.req = None
  <2>1. CASE t.op = "add_grant" /\ AddGrantTx(t)
    <3> DEFINE n == Grant(t.o, t.to, t.role, t.until, None)
    <3>1. n \in GrantRow /\ n.on \in there /\ n.req = None
      BY <2>1, UnderWayType DEF Grant, GrantRow, AddGrantTx
    <3>2. grants' \subseteq grants \cup {n}
      BY <2>1 DEF AddGrantTx
    <3> HIDE DEF n
    <3>3. {n} \in SUBSET GrantRow
      BY <3>1
    <3> QED
      BY <3>1, <3>2, <3>3
  <2>2. CASE t.op = "remove_grant" /\ RemoveGrantTx(t)
    <3>1. grants' \subseteq grants \cup {} /\ {} \in SUBSET GrantRow
      BY <2>2 DEF RemoveGrantTx
    <3> QED
      BY <3>1
  <2> QED
    BY <2>1, <2>2
<1>3. TypeOK'
  BY <1>1, <1>2 DEF TypeOK
<1>4. GrantsWereAsked' /\ GrantIsWhatWasApproved'
  BY <1>1, <1>2 DEF GrantsWereAsked, GrantIsWhatWasApproved
<1> QED
  BY <1>1, <1>3, <1>4 DEF DecidedBySecond, ObjectIsThere

\* What was on the object goes with it.
LEMMA DeleteObjectTxStep ==
  ASSUME ConstantsOK, Inv, NEW t \in UnderWay, DeleteObjectTx(t),
         slot' \in [Slot -> UnderWay \cup {None}]
  PROVE  Inv'
<1> USE DEF Inv
<1>1. /\ there' = there \ {t.o} /\ clock' = clock /\ grants' = {g \in grants : g.on # t.o}
      /\ request' = [r \in Request |->
           IF request[r] # NotYet /\ request[r].on = t.o
           THEN [request[r] EXCEPT !.status = "deleted"] ELSE request[r]]
  BY DEF DeleteObjectTx
<1>2. ASSUME NEW r \in Request, request[r] # NotYet
      PROVE  /\ request'[r] \in Row /\ request'[r] # NotYet
             /\ request'[r].on = request[r].on /\ request'[r].second = request[r].second
             /\ request'[r].until = request[r].until
             /\ request[r].on = t.o => request'[r].status = "deleted"
             /\ request[r].on # t.o => request'[r] = request[r]
  <2>1. request[r] \in Row
    BY <1>2 DEF TypeOK
  <2> DEFINE row == [request[r] EXCEPT !.status = "deleted"]
  <2>2. /\ row \in Row /\ row.on = request[r].on /\ row.second = request[r].second
        /\ row.until = request[r].until /\ row.status = "deleted"
    BY <2>1 DEF Row
  <2>3. request'[r] = IF request[r].on = t.o THEN row ELSE request[r]
    BY <1>1, <1>2
  <2> HIDE DEF row
  <2> QED
    BY <1>2, <2>1, <2>2, <2>3 DEF ConstantsOK
<1>3. \A r \in Request : request[r] = NotYet => request'[r] = NotYet
  BY <1>1
<1>4. TypeOK'
  <2>1. DOMAIN request' = Request /\ request' = [r \in Request |-> request'[r]]
    BY <1>1
  <2>2. request' \in [Request -> Row \cup {NotYet}]
    BY <1>2, <1>3, <2>1
  <2> QED
    BY <1>1, <2>2 DEF TypeOK
<1>5. DecidedBySecond' /\ ObjectIsThere'
  BY <1>1, <1>2, <1>3 DEF DecidedBySecond, ObjectIsThere
<1>6. ASSUME NEW g \in grants', g.req # None
      PROVE  g \in grants /\ request[g.req] # NotYet /\ request'[g.req] = request[g.req]
  <2>1. g \in grants /\ g.on # t.o
    BY <1>1
  <2>2. g.req \in Request /\ request[g.req] # NotYet
    BY <1>6, <2>1 DEF TypeOK, GrantRow, GrantsWereAsked
  <2>3. request[g.req].on = g.on
    BY <1>6, <2>1 DEF GrantIsWhatWasApproved, Grant
  <2> QED
    BY <1>2, <2>1, <2>2, <2>3
<1>7. GrantsWereAsked'
  BY <1>6 DEF GrantsWereAsked
<1>8. GrantIsWhatWasApproved'
  BY <1>6 DEF GrantIsWhatWasApproved
<1> QED
  BY <1>4, <1>5, <1>7, <1>8

LEMMA InvStep ==
  ASSUME ConstantsOK, Inv, [Next]_accessVars
  PROVE  Inv'
<1>1. slot' \in [Slot -> UnderWay \cup {None}]
  BY StepKinds DEF Inv
<1>2. ASSUME NEW t \in UnderWay, Transaction(t)
      PROVE  Inv'
  BY <1>1, <1>2, CreateTxStep, DecideTxStep, CancelTxStep, GrantTxStep, DeleteObjectTxStep
     DEF Transaction
<1>3. CASE UNCHANGED <<there, grants, request>> /\ clock' \in 0 .. MaxTime
  BY <1>1, <1>3 DEF Inv, TypeOK, DecidedBySecond, ObjectIsThere, GrantsWereAsked,
                    GrantIsWhatWasApproved
<1> QED
  BY <1>2, <1>3, StepKinds DEF Inv

LEMMA Invariant ==
  ASSUME ConstantsOK
  PROVE  Spec => []Inv
<1>1. Init => Inv
  BY InitInv
<1>2. Inv /\ [Next]_accessVars => Inv'
  BY InvStep
<1> QED
  BY <1>1, <1>2, PTL DEF Spec

-----------------------------------------------------------------------------
(* What follows of it.                                                     *)

\* decide locks the row and looks at it again, and deleting an object takes
\* its grants and requests: whatever overlaps, a grant that comes from a
\* request is the one that was approved, and no request has two.
THEOREM GrantsAreApproved ==
  ASSUME ConstantsOK
  PROVE  Spec => [](TypeOK /\ GrantIsWhatWasApproved)
<1>1. Inv => TypeOK /\ GrantIsWhatWasApproved
  BY DEF Inv
<1> QED
  BY <1>1, Invariant, PTL

\* A transaction, seen by the promise of four eyes.
LEMMA EyesTransaction ==
  ASSUME ConstantsOK, Inv, NEW t \in UnderWay, Transaction(t)
  PROVE  Eyes!Next \/ UNCHANGED Eyes!eyesVars
<1> USE DEF ConstantsOK, Inv
<1>1. CASE t.op = "create" /\ CreateTx(t)
  <2> DEFINE row == [by |-> t.p, on |-> t.o, role |-> t.role, min |-> t.min,
                     status |-> "pending", second |-> None, until |-> 0]
  <2>1. t.r \in Request /\ t.p \in Person /\ row \in Row
    BY <1>1, UnderWayType DEF Row
  <2>2. row.by = t.p /\ row.second = None /\ ~(row.until > 0)
    OBVIOUS
  <2>3. request' = [request EXCEPT ![t.r] = row] /\ request[t.r] = NotYet
    BY <1>1 DEF CreateTx
  <2> HIDE DEF row
  <2>4. /\ request'[t.r] = row /\ row # NotYet
        /\ \A q \in Request : q # t.r => request'[q] = request[q]
    BY <2>1, <2>3 DEF TypeOK
  <2>5. Asker' = [Asker EXCEPT ![t.r] = t.p] /\ Asker[t.r] = None
    <3>1. Asker[t.r] = None
      BY <2>1, <2>3 DEF Asker, Asked
    <3>2. Asker'[t.r] = t.p /\ \A q \in Request : q # t.r => Asker'[q] = Asker[q]
      BY <2>1, <2>2, <2>4 DEF Asker, Asked
    <3>3. Asker = [q \in Request |-> Asker[q]] /\ Asker' = [q \in Request |-> Asker'[q]]
      BY DEF Asker
    <3> HIDE DEF Asker
    <3> QED
      BY <3>1, <3>2, <3>3
  <2>6. Second' = Second
    BY <2>2, <2>3, <2>4 DEF Second, Asked
  <2>7. Carried' = Carried
    BY <2>2, <2>3, <2>4 DEF Carried, Asked
  <2>8. Eyes!Ask(t.r, t.p)
    BY <2>5, <2>6, <2>7 DEF Eyes!Ask
  <2> QED
    BY <2>1, <2>8 DEF Eyes!Next
<1>2. CASE t.op = "decide" /\ DecideTx(t)
  <2>1. /\ t.r \in Request /\ t.p \in Person /\ t.p # None
        /\ request[t.r] \in Row /\ request[t.r] # NotYet /\ request[t.r].by # t.p
        /\ request[t.r].second = None /\ request[t.r].until = 0
    BY <1>2, UnderWayType DEF DecideTx, TypeOK, DecidedBySecond
  <2>2. request[t.r].by \in Person
    BY <2>1 DEF Row
  <2>3. PICK row \in Row :
          /\ request' = [request EXCEPT ![t.r] = row]
          /\ row.by = request[t.r].by /\ row.second = t.p
    <3> HIDE DEF Inv, ConstantsOK
    <3> QED
      BY <1>2, DecidedRow
  <2>4. /\ request'[t.r] = row /\ row # NotYet
        /\ \A q \in Request : q # t.r => request'[q] = request[q]
    BY <2>1, <2>3 DEF TypeOK
  <2>5. Asker' = Asker /\ Asker[t.r] \notin {None, t.p}
    BY <2>1, <2>2, <2>3, <2>4 DEF Asker, Asked
  <2>6. Second' = [Second EXCEPT ![t.r] = t.p] /\ Second[t.r] = None
    BY <2>1, <2>3, <2>4 DEF Second, Asked
  <2>7. Carried' \in {Carried, Carried \cup {t.r}}
    <3>1. t.r \notin Carried
      BY <2>1 DEF Carried
    <3>2. \A q \in Request : q # t.r => (q \in Carried' <=> q \in Carried)
      BY <2>4 DEF Carried, Asked
    <3>3. Carried \subseteq Request /\ Carried' \subseteq Request
      BY DEF Carried
    <3> HIDE DEF Carried
    <3> QED
      BY <3>1, <3>2, <3>3
  <2>8. Eyes!Agree(t.r, t.p)
    BY <2>5, <2>6, <2>7 DEF Eyes!Agree
  <2> QED
    BY <2>1, <2>8 DEF Eyes!Next
<1>3. CASE t.op = "cancel" /\ CancelTx(t)
  <2> DEFINE row == [request[t.r] EXCEPT !.status = "cancelled"]
  <2>1. t.r \in Request /\ request[t.r] \in Row /\ request[t.r] # NotYet
    BY <1>3, UnderWayType DEF CancelTx, TypeOK
  <2>2. /\ row \in Row /\ row.by = request[t.r].by /\ row.second = request[t.r].second
        /\ row.until = request[t.r].until
    BY <2>1 DEF Row
  <2>3. request' = [request EXCEPT ![t.r] = row]
    BY <1>3 DEF CancelTx
  <2> HIDE DEF row
  <2>4. /\ request'[t.r] = row /\ row # NotYet
        /\ \A q \in Request : q # t.r => request'[q] = request[q]
    BY <2>1, <2>2, <2>3 DEF TypeOK
  <2>5. Asker' = Asker
    BY <2>1, <2>2, <2>4 DEF Asker, Asked
  <2>6. Second' = Second
    BY <2>1, <2>2, <2>4 DEF Second, Asked
  <2>7. Carried' = Carried
    BY <2>1, <2>2, <2>4 DEF Carried, Asked
  <2> QED
    BY <2>5, <2>6, <2>7 DEF Eyes!eyesVars
<1>4. CASE (t.op = "add_grant" /\ AddGrantTx(t)) \/ (t.op = "remove_grant" /\ RemoveGrantTx(t))
  <2>1. request' = request
    BY <1>4 DEF AddGrantTx, RemoveGrantTx
  <2> QED
    BY <2>1 DEF Eyes!eyesVars, Asker, Second, Carried, Asked
<1>5. CASE t.op = "delete_object" /\ DeleteObjectTx(t)
  <2>1. ASSUME NEW r \in Request
        PROVE  /\ request'[r] # NotYet <=> request[r] # NotYet
               /\ request[r] # NotYet =>
                    /\ request'[r].by = request[r].by /\ request'[r].second = request[r].second
                    /\ request'[r].until = request[r].until
    <3> DEFINE row == [request[r] EXCEPT !.status = "deleted"]
    <3>1. request[r] # NotYet =>
            /\ row \in Row /\ row.by = request[r].by /\ row.second = request[r].second
            /\ row.until = request[r].until
      BY DEF Row, TypeOK
    <3>2. request'[r] = IF request[r] # NotYet /\ request[r].on = t.o THEN row ELSE request[r]
      BY <1>5 DEF DeleteObjectTx
    <3> HIDE DEF row
    <3> QED
      BY <3>1, <3>2
  <2>2. Asker' = Asker
    BY <2>1 DEF Asker, Asked
  <2>3. Second' = Second
    BY <2>1 DEF Second, Asked
  <2>4. Carried' = Carried
    BY <2>1 DEF Carried, Asked
  <2> QED
    BY <2>2, <2>3, <2>4 DEF Eyes!eyesVars
<1> QED
  BY <1>1, <1>2, <1>3, <1>4, <1>5 DEF Transaction

\* api/requests.rs implements FourEyes, for any number of requests and of
\* transactions under way: nobody decides their own request, a request is
\* decided once, and access is given with the decision or not at all.
THEOREM AccessTakesTwo ==
  ASSUME ConstantsOK
  PROVE  Spec => ImplementsFourEyes
<1>1. Init => Eyes!Init
  BY DEF Init, Eyes!Init, Asker, Second, Carried, Asked
<1>2. Inv /\ [Next]_accessVars => [Eyes!Next]_(Eyes!eyesVars)
  <2> SUFFICES ASSUME Inv, [Next]_accessVars PROVE Eyes!Next \/ UNCHANGED Eyes!eyesVars
    OBVIOUS
  <2>1. CASE UNCHANGED request
    BY <2>1 DEF Eyes!eyesVars, Asker, Second, Carried, Asked
  <2> QED
    BY <2>1, StepKinds, EyesTransaction DEF Inv
<1> QED
  BY <1>1, <1>2, Invariant, PTL DEF Spec, ImplementsFourEyes, Eyes!Spec

\* A request that was decided or cancelled keeps its row for as long as its
\* object is there: a decision and a cancellation under way together cannot
\* both count.
THEOREM DecisionsStand ==
  ASSUME ConstantsOK
  PROVE  Spec => DecidedForGood
<1>1. ASSUME Inv, [Next]_accessVars, NEW q \in Request, Asked(q),
             request[q].status \notin {"pending", "deleted"}
      PROVE  request'[q] = request[q] \/ request'[q].status = "deleted"
  <2> USE DEF Inv
  <2>0. request \in [Request -> Row \cup {NotYet}] /\ request[q] # NotYet
    BY <1>1 DEF TypeOK, Asked
  <2>1. ASSUME NEW t \in UnderWay, Transaction(t)
        PROVE  request'[q] = request[q] \/ request'[q].status = "deleted"
    <3>1. CASE CreateTx(t) \/ CancelTx(t) \/ DecideTx(t)
      <4>1. t.r # q
        BY <1>1, <2>0, <3>1 DEF CreateTx, CancelTx, DecideTx
      <4> QED
        BY <2>0, <3>1, <4>1 DEF CreateTx, CancelTx, DecideTx, Decided
    <3>2. CASE AddGrantTx(t) \/ RemoveGrantTx(t)
      BY <3>2 DEF AddGrantTx, RemoveGrantTx
    <3>3. CASE DeleteObjectTx(t)
      <4>1. [request[q] EXCEPT !.status = "deleted"].status = "deleted"
        BY <2>0 DEF Row
      <4>2. request'[q] \in {[request[q] EXCEPT !.status = "deleted"], request[q]}
        BY <3>3 DEF DeleteObjectTx
      <4> QED
        BY <4>1, <4>2
    <3> QED
      BY <2>1, <3>1, <3>2, <3>3 DEF Transaction
  <2>2. CASE UNCHANGED request
    BY <2>2
  <2> QED
    BY <1>1, <2>1, <2>2, StepKinds
<1>2. Inv /\ [Next]_accessVars => DecidedForGoodStep
  BY <1>1 DEF DecidedForGoodStep
<1> QED
  BY <1>2, Invariant, PTL DEF Spec, DecidedForGood
=============================================================================
