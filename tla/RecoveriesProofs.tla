-------------------------- MODULE RecoveriesProofs --------------------------
(***************************************************************************)
(* Theorems about Recoveries, for any administrators, officers, recoveries *)
(* and requests under way: it implements FourEyes, the key a wrap names is *)
(* there, what ended stays so, and the owner keeps a way to unlock.        *)
(***************************************************************************)
EXTENDS Recoveries, FiniteSetTheorems, TLAPS

\* Nobody approved what is pending, and somebody what went further.
ApprovedBySecond ==
  \A r \in Recovery : recovery[r] # NotYet =>
    /\ recovery[r].status = "pending" => recovery[r].second = None
    /\ recovery[r].status \in {"approved", "expired", "completed"} => recovery[r].second # None

\* A vault is handed out after the approval.
HandedWasApproved ==
  \A r \in Recovery : handed[r] > 0 => recovery[r] # NotYet /\ recovery[r].second # None

\* A request under way is about a recovery that is there, was not asked for
\* by who approves it, is approved before it is completed, and has the vault
\* key it is to wrap.
UnderWayFits ==
  \A s \in Slot : slot[s] # None =>
    /\ slot[s].op = "wrap" => slot[s].key \in keys
    /\ slot[s].op = "approve" =>
         recovery[slot[s].r] # NotYet /\ recovery[slot[s].r].by # slot[s].by
    /\ slot[s].op = "complete" =>
         /\ recovery[slot[s].r] # NotYet /\ recovery[slot[s].r].second # None
         /\ recovery[slot[s].r].kind = "passphrase" => slot[s].gen > 0

\* The newest key is never deleted.
NewestIsThere == made > 0 => made \in keys

\* The owner's ways to unlock wrap the key their browser holds, but for the
\* one that a recovery with an earlier key left.
WaysFit == \A w \in wraps :
  w.kind # "organisation" => w.gen = gen \/ (stale /\ w.kind = "recovery")

\* The inductive invariant.
Inv ==
  /\ TypeOK
  /\ ApprovedBySecond
  /\ HandedWasApproved
  /\ UnderWayFits
  /\ NewestIsThere
  /\ CoveredByAKey
  /\ WaysFit

LEMMA NewestIsLast ==
  ASSUME ConstantsOK, Inv
  PROVE  Newest = made
<1> USE DEF Inv, TypeOK, NewestIsThere, ConstantsOK
<1>1. CASE made = 0
  BY <1>1 DEF Newest
<1>2. CASE made > 0
  <2>1. made \in keys /\ \A j \in keys : j \in Nat /\ j <= made
    BY <1>2
  <2>2. \E k \in keys : \A j \in keys : j <= k
    BY <2>1
  <2>3. \A k \in keys : (\A j \in keys : j <= k) => k = made
    BY <2>1
  <2> QED
    BY <2>1, <2>2, <2>3, Zenon DEF Newest
<1> QED
  BY <1>1, <1>2

LEMMA InitInv == ConstantsOK /\ Init => Inv
<1> SUFFICES ASSUME ConstantsOK, Init PROVE Inv
  OBVIOUS
<1>0. stale \in BOOLEAN
  BY Zenon DEF Init
<1>1. TypeOK
  BY <1>0 DEF Init, TypeOK, ConstantsOK
<1> QED
  BY <1>1 DEF Init, Inv, ApprovedBySecond, HandedWasApproved, UnderWayFits, NewestIsThere,
                     CoveredByAKey, WaysFit

\* An unlock replaces the one of its kind.
LEMMA ReplaceKeeps ==
  ASSUME TypeOK, NEW w \in [kind : OwnKinds \cup {"organisation"}, gen : 1 .. MaxGen,
                            key : 0 .. MaxKey, once : BOOLEAN],
         w.kind = "organisation" <=> w.key > 0
  PROVE  /\ Replace(w) \subseteq [kind : OwnKinds \cup {"organisation"}, gen : 1 .. MaxGen,
                                  key : 0 .. MaxKey, once : BOOLEAN]
         /\ \A v \in Replace(w) : v.kind = "organisation" <=> v.key > 0
         /\ \A v, x \in Replace(w) : v.kind = x.kind => v = x
  BY DEF TypeOK, Replace

\* What a request under way holds.
LEMMA UnderWayType ==
  ASSUME ConstantsOK, TypeOK, NEW s \in Slot, slot[s] # None
  PROVE  /\ slot[s].op \in {"wrap", "approve", "complete"}
         /\ slot[s].op = "wrap" =>
              slot[s].key \in 1 .. MaxKey /\ slot[s].gen \in 1 .. MaxGen
         /\ slot[s].op = "approve" => slot[s].r \in Recovery /\ slot[s].by \in Officer
         /\ slot[s].op = "complete" => slot[s].r \in Recovery /\ slot[s].gen \in 0 .. MaxGen
  BY DEF TypeOK, UnderWay

-----------------------------------------------------------------------------
(* The owner's steps.                                                      *)

LEMMA OwnerStep ==
  ASSUME ConstantsOK, Inv,
         \/ SetUp \/ SaveEntry \/ SaveUnasked \/ Reset
         \/ \E kind \in OwnKinds : AddUnlock(kind)
         \/ \E w \in wraps : RemoveUnlock(w)
         \/ \E g \in entries : DeleteEntry(g)
  PROVE  Inv'
<1>1. UNCHANGED <<keys, made, recovery, handed, slot>>
  BY Zenon DEF SetUp, SaveEntry, SaveUnasked, Reset, AddUnlock, RemoveUnlock, DeleteEntry, Others
<1>2. TypeOK' /\ CoveredByAKey' /\ WaysFit'
  <2> USE DEF Inv, TypeOK, CoveredByAKey, WaysFit, ConstantsOK
  <2>1. CASE SetUp
    <3>1. wraps = {} /\ wraps' = wraps /\ entries' = entries /\ gen' \in 0 .. MaxGen
      BY <2>1 DEF SetUp
    <3>2. stale' \in BOOLEAN
      BY <2>1, Zenon DEF SetUp
    <3> QED
      BY <1>1, <3>1, <3>2
  <2>2. CASE SaveEntry \/ SaveUnasked
    <3>1. wraps' = wraps /\ gen' = gen /\ gen \in 1 .. MaxGen /\ entries' = entries \cup {gen}
      BY <2>2 DEF SaveEntry, SaveUnasked
    <3>2. stale' = stale
      BY <2>2, Zenon DEF SaveEntry, SaveUnasked
    <3> QED
      BY <1>1, <3>1, <3>2
  <2>3. CASE Reset
    BY <1>1, <2>3 DEF Reset
  <2>4. ASSUME NEW kind \in OwnKinds, AddUnlock(kind)
        PROVE  TypeOK' /\ CoveredByAKey' /\ WaysFit'
    <3> DEFINE w == Wrap(kind, gen, 0, FALSE)
    <3>1. /\ w \in [kind : OwnKinds \cup {"organisation"}, gen : 1 .. MaxGen,
                    key : 0 .. MaxKey, once : BOOLEAN]
          /\ w.gen = gen /\ w.kind = kind /\ kind # "organisation" /\ ~(w.key > 0)
      BY <2>4 DEF AddUnlock, Wrap, OwnKinds
    <3>2. wraps' = Replace(w)
      BY <2>4 DEF AddUnlock
    <3> HIDE DEF w
    <3>3. /\ wraps' \subseteq [kind : OwnKinds \cup {"organisation"}, gen : 1 .. MaxGen,
                               key : 0 .. MaxKey, once : BOOLEAN]
          /\ \A v \in wraps' : v.kind = "organisation" <=> v.key > 0
          /\ \A v, x \in wraps' : v.kind = x.kind => v = x
      BY <3>1, <3>2, ReplaceKeeps
    <3>4. CoveredByAKey'
      BY <1>1, <3>1, <3>2 DEF Replace
    <3>5. gen' = gen /\ entries' = entries /\ stale' = (stale /\ kind # "recovery")
      BY <2>4 DEF AddUnlock
    <3>6. WaysFit'
      BY <3>1, <3>2, <3>5 DEF Replace
    <3>7. stale' \in BOOLEAN
      BY <3>5
    <3> QED
      BY <1>1, <3>3, <3>4, <3>5, <3>6, <3>7, Zenon
  <2>5. ASSUME NEW w \in wraps, RemoveUnlock(w)
        PROVE  TypeOK' /\ CoveredByAKey' /\ WaysFit'
    <3>1. wraps' = wraps \ {w} /\ w.kind # "organisation"
      BY <2>5 DEF RemoveUnlock
    <3>2. gen' = gen /\ entries' = entries /\ stale' = (stale /\ w.kind # "recovery")
      BY <2>5 DEF RemoveUnlock
    <3>3. WaysFit'
      BY <3>1, <3>2
    <3> QED
      BY <1>1, <3>1, <3>2, <3>3
  <2>6. ASSUME NEW g \in entries, DeleteEntry(g)
        PROVE  TypeOK' /\ CoveredByAKey' /\ WaysFit'
    BY <1>1, <2>6 DEF DeleteEntry
  <2> QED
    BY <2>1, <2>2, <2>3, <2>4, <2>5, <2>6
<1> QED
  BY <1>1, <1>2 DEF Inv, ApprovedBySecond, HandedWasApproved, UnderWayFits, NewestIsThere

\* add_unlock of kind organisation: the key it found is there until its
\* transaction ends, because keys wait for the lock.
LEMMA WrapStep ==
  ASSUME ConstantsOK, Inv, NEW s \in Slot, LockKeys(s) \/ WrapForOrganisation(s)
  PROVE  Inv'
<1> USE DEF Inv, ConstantsOK
<1>1. UNCHANGED <<keys, made, gen, entries, stale, recovery, handed>>
  BY Zenon DEF LockKeys, WrapForOrganisation, vaultVars
<1>2. \A t \in Slot : t # s => slot'[t] = slot[t]
  BY Zenon DEF LockKeys, WrapForOrganisation, TypeOK
<1>3. CASE LockKeys(s)
  <2>1. made \in keys /\ made \in 1 .. MaxKey /\ gen \in 1 .. MaxGen
    BY <1>3, NewestIsLast DEF LockKeys, TypeOK, NewestIsThere
  <2>2. slot' = [slot EXCEPT ![s] = [op |-> "wrap", key |-> made, gen |-> gen]]
    BY <1>3, NewestIsLast DEF LockKeys
  <2>3. [op |-> "wrap", key |-> made, gen |-> gen] \in UnderWay
    BY <2>1 DEF UnderWay
  <2>4. TypeOK'
    BY <1>1, <1>3, <2>2, <2>3 DEF TypeOK, LockKeys, vaultVars
  <2>5. slot'[s] = [op |-> "wrap", key |-> made, gen |-> gen]
    BY <2>2 DEF TypeOK
  <2>6. UnderWayFits'
    BY <1>1, <1>2, <2>1, <2>5 DEF UnderWayFits
  <2> QED
    BY <1>1, <1>3, <2>4, <2>6
       DEF ApprovedBySecond, HandedWasApproved, NewestIsThere, CoveredByAKey, WaysFit, LockKeys,
           vaultVars
<1>4. CASE WrapForOrganisation(s)
  <2> DEFINE w == Wrap("organisation", slot[s].gen, slot[s].key, FALSE)
  <2>1. slot[s].key \in 1 .. MaxKey /\ slot[s].key \in keys /\ slot[s].gen \in 1 .. MaxGen
    BY <1>4, UnderWayType DEF WrapForOrganisation, UnderWayFits, TypeOK
  <2>2. /\ w \in [kind : OwnKinds \cup {"organisation"}, gen : 1 .. MaxGen,
                  key : 0 .. MaxKey, once : BOOLEAN]
        /\ w.kind = "organisation" /\ w.key = slot[s].key
    BY <2>1 DEF Wrap
  <2>3. wraps' = Replace(w)
    BY <1>4 DEF WrapForOrganisation
  <2> HIDE DEF w
  <2>4. /\ wraps' \subseteq [kind : OwnKinds \cup {"organisation"}, gen : 1 .. MaxGen,
                             key : 0 .. MaxKey, once : BOOLEAN]
        /\ \A v \in wraps' : v.kind = "organisation" <=> v.key > 0
        /\ \A v, x \in wraps' : v.kind = x.kind => v = x
    BY <2>1, <2>2, <2>3, ReplaceKeeps
  <2>5. CoveredByAKey' /\ WaysFit'
    BY <1>1, <2>1, <2>2, <2>3 DEF Replace, CoveredByAKey, WaysFit
  <2>6. slot' \in [Slot -> UnderWay \cup {None}] /\ slot'[s] = None
    BY <1>4 DEF WrapForOrganisation, TypeOK
  <2>7. TypeOK'
    BY <1>1, <2>4, <2>6 DEF TypeOK
  <2>8. UnderWayFits'
    BY <1>1, <1>2, <2>6 DEF UnderWayFits
  <2> QED
    BY <1>1, <2>5, <2>7, <2>8 DEF ApprovedBySecond, HandedWasApproved, NewestIsThere
<1> QED
  BY <1>3, <1>4

(* The organisation's keys.                                                *)

LEMMA KeyStep ==
  ASSUME ConstantsOK, Inv, CreateKey \/ \E k \in keys : DeleteKey(k)
  PROVE  Inv'
<1> USE DEF Inv, ConstantsOK
<1>1. UNCHANGED <<wraps, gen, entries, stale, recovery, handed, slot>> /\ ~Locked
  BY DEF CreateKey, DeleteKey, Others
<1>2. \A s \in Slot : ~(slot[s] # None /\ slot[s].op = "wrap")
  BY <1>1 DEF Locked
<1>3. TypeOK' /\ NewestIsThere' /\ CoveredByAKey'
  <2>1. CASE CreateKey
    BY <1>1, <2>1 DEF CreateKey, TypeOK, NewestIsThere, CoveredByAKey
  <2>2. ASSUME NEW k \in keys, DeleteKey(k)
        PROVE  TypeOK' /\ NewestIsThere' /\ CoveredByAKey'
    <3>1. k # made
      BY <2>2, NewestIsLast DEF DeleteKey
    <3> QED
      BY <1>1, <2>2, <3>1 DEF DeleteKey, TypeOK, NewestIsThere, CoveredByAKey
  <2> QED
    BY <2>1, <2>2
<1>4. UnderWayFits'
  BY <1>1, <1>2 DEF UnderWayFits
<1> QED
  BY <1>1, <1>3, <1>4 DEF ApprovedBySecond, HandedWasApproved, WaysFit

-----------------------------------------------------------------------------
(* Recoveries.                                                             *)

\* The row of a recovery changes to one that keeps what requests under way
\* rely on.
LEMMA RowStep ==
  ASSUME ConstantsOK, Inv, NEW r \in Recovery, NEW row \in Row,
         recovery' = [recovery EXCEPT ![r] = row],
         recovery[r] # NotYet =>
           /\ row.by = recovery[r].by /\ row.kind = recovery[r].kind
           /\ recovery[r].second # None => row.second # None,
         row.status = "pending" => row.second = None,
         row.status \in {"approved", "expired", "completed"} => row.second # None,
         UNCHANGED <<keys, made, handed>>,
         slot' \in [Slot -> UnderWay \cup {None}],
         \A s \in Slot : slot'[s] \in {slot[s], None}
  PROVE  /\ recovery' \in [Recovery -> Row \cup {NotYet}]
         /\ ApprovedBySecond' /\ HandedWasApproved' /\ UnderWayFits' /\ NewestIsThere'
<1> USE DEF Inv, ConstantsOK
<1>1. recovery' \in [Recovery -> Row \cup {NotYet}]
  BY DEF TypeOK
<1>2. recovery'[r] = row /\ row # NotYet /\ \A q \in Recovery : q # r => recovery'[q] = recovery[q]
  BY DEF TypeOK
<1>3. ApprovedBySecond' /\ HandedWasApproved'
  BY <1>2 DEF ApprovedBySecond, HandedWasApproved
<1>4. \A q \in Recovery : recovery[q] # NotYet =>
        /\ recovery'[q] # NotYet
        /\ recovery'[q].by = recovery[q].by /\ recovery'[q].kind = recovery[q].kind
        /\ recovery[q].second # None => recovery'[q].second # None
  BY <1>2
<1>5. ASSUME NEW s \in Slot, slot'[s] # None
      PROVE  /\ slot'[s].op = "wrap" => slot'[s].key \in keys'
             /\ slot'[s].op = "approve" =>
                  recovery'[slot'[s].r] # NotYet /\ recovery'[slot'[s].r].by # slot'[s].by
             /\ slot'[s].op = "complete" =>
                  /\ recovery'[slot'[s].r] # NotYet /\ recovery'[slot'[s].r].second # None
                  /\ recovery'[slot'[s].r].kind = "passphrase" => slot'[s].gen > 0
  <2>1. slot'[s] = slot[s] /\ slot[s] # None
    BY <1>5
  <2>2. slot[s].op \in {"approve", "complete"} => slot[s].r \in Recovery
    BY <2>1, UnderWayType
  <2> QED
    BY <1>4, <2>1, <2>2 DEF UnderWayFits
<1>6. UnderWayFits'
  BY <1>5 DEF UnderWayFits
<1> QED
  BY <1>1, <1>3, <1>6 DEF NewestIsThere

LEMMA CreateStep ==
  ASSUME ConstantsOK, Inv, NEW r \in Recovery, NEW p \in Admin,
         NEW kind \in {"passphrase", "handover"}, Create(r, p, kind)
  PROVE  Inv'
<1> DEFINE row == [by |-> p, second |-> None, kind |-> kind, status |-> "pending"]
<1>1. row \in Row /\ row.status = "pending" /\ row.second = None
  BY DEF Row
<1>2. /\ recovery' = [recovery EXCEPT ![r] = row] /\ recovery[r] = NotYet
      /\ UNCHANGED <<vaultVars, handed, slot>>
  BY DEF Create
<1> HIDE DEF row
<1>3. \A s \in Slot : slot'[s] \in {slot[s], None}
  BY <1>2
<1>4. slot' \in [Slot -> UnderWay \cup {None}] /\ UNCHANGED <<keys, made, handed>>
  BY <1>2 DEF Inv, TypeOK, vaultVars
<1>5. /\ recovery' \in [Recovery -> Row \cup {NotYet}]
      /\ ApprovedBySecond' /\ HandedWasApproved' /\ UnderWayFits' /\ NewestIsThere'
  BY <1>1, <1>2, <1>3, <1>4, RowStep, Zenon
<1> QED
  BY <1>2, <1>5 DEF Inv, TypeOK, CoveredByAKey, WaysFit, vaultVars

LEMMA CancelStep ==
  ASSUME ConstantsOK, Inv, NEW r \in Recovery, Cancel(r) \/ DayPasses(r)
  PROVE  Inv'
<1> DEFINE row == [recovery[r] EXCEPT !.status = IF Cancel(r) THEN "cancelled" ELSE "expired"]
<1>1. recovery[r] \in Row /\ (recovery[r].status = "approved" => recovery[r].second # None)
  BY DEF Cancel, DayPasses, Open, Is, Inv, TypeOK, ApprovedBySecond
<1>2. /\ row \in Row /\ row.by = recovery[r].by /\ row.kind = recovery[r].kind
      /\ row.second = recovery[r].second
      /\ row.status = IF Cancel(r) THEN "cancelled" ELSE "expired"
  BY <1>1 DEF Row
<1>3. row.status = "expired" => row.second # None
  BY <1>1, <1>2 DEF DayPasses, Is
<1>4. recovery' = [recovery EXCEPT ![r] = row] /\ UNCHANGED <<vaultVars, handed, slot>>
  BY DEF Cancel, DayPasses
<1> HIDE DEF row
<1>5. \A s \in Slot : slot'[s] \in {slot[s], None}
  BY <1>4
<1>6. slot' \in [Slot -> UnderWay \cup {None}] /\ UNCHANGED <<keys, made, handed>>
  BY <1>4 DEF Inv, TypeOK, vaultVars
<1>7. /\ recovery' \in [Recovery -> Row \cup {NotYet}]
      /\ ApprovedBySecond' /\ HandedWasApproved' /\ UnderWayFits' /\ NewestIsThere'
  BY <1>2, <1>3, <1>4, <1>5, <1>6, RowStep, Zenon
<1> QED
  BY <1>4, <1>7 DEF Inv, TypeOK, CoveredByAKey, WaysFit, vaultVars

\* Reading a recovery before the transaction: approve and complete.
LEMMA ReadStep ==
  ASSUME ConstantsOK, Inv, NEW s \in Slot, NEW r \in Recovery,
         Complete(s, r) \/ \E p \in Officer : Approve(s, r, p)
  PROVE  Inv'
<1> USE DEF Inv, ConstantsOK
<1>1. UNCHANGED <<vaultVars, recovery, handed>>
  BY DEF Complete, Approve
<1>2. TypeOK' /\ UnderWayFits'
  <2>1. CASE Complete(s, r)
    <3> DEFINE u == [op |-> "complete", r |-> r, gen |-> handed[r]]
    <3>1. u \in UnderWay
      BY DEF UnderWay, TypeOK
    <3>2. slot' = [slot EXCEPT ![s] = u]
      BY <2>1 DEF Complete
    <3>3. slot'[s] = u /\ \A t \in Slot : t # s => slot'[t] = slot[t]
      BY <3>2 DEF TypeOK
    <3>4. u.op = "complete" /\ u.r = r /\ u.gen = handed[r]
      OBVIOUS
    <3> HIDE DEF u
    <3>5. slot' \in [Slot -> UnderWay \cup {None}]
      BY <3>1, <3>2 DEF TypeOK
    <3>6. /\ recovery[r] # NotYet /\ recovery[r].second # None
          /\ recovery[r].kind = "passphrase" => handed[r] > 0
      BY <2>1 DEF Complete, Ready, Is, ApprovedBySecond
    <3>7. UnderWayFits'
      BY <1>1, <3>3, <3>4, <3>6 DEF UnderWayFits, vaultVars
    <3> QED
      BY <1>1, <3>5, <3>7 DEF TypeOK, vaultVars
  <2>2. ASSUME NEW p \in Officer, Approve(s, r, p)
        PROVE  TypeOK' /\ UnderWayFits'
    <3> DEFINE u == [op |-> "approve", r |-> r, by |-> p]
    <3>1. u \in UnderWay
      BY DEF UnderWay
    <3>2. slot' = [slot EXCEPT ![s] = u]
      BY <2>2 DEF Approve
    <3>3. slot'[s] = u /\ \A t \in Slot : t # s => slot'[t] = slot[t]
      BY <3>2 DEF TypeOK
    <3>4. u.op = "approve" /\ u.r = r /\ u.by = p
      OBVIOUS
    <3> HIDE DEF u
    <3>5. slot' \in [Slot -> UnderWay \cup {None}]
      BY <3>1, <3>2 DEF TypeOK
    <3>6. recovery[r] # NotYet /\ recovery[r].by # p
      BY <2>2 DEF Approve
    <3>7. UnderWayFits'
      BY <1>1, <3>3, <3>4, <3>6 DEF UnderWayFits, vaultVars
    <3> QED
      BY <1>1, <3>5, <3>7 DEF TypeOK, vaultVars
  <2> QED
    BY <2>1, <2>2
<1> QED
  BY <1>1, <1>2 DEF ApprovedBySecond, HandedWasApproved, NewestIsThere, CoveredByAKey, WaysFit,
                    vaultVars

LEMMA OpenVaultStep ==
  ASSUME ConstantsOK, Inv, NEW r \in Recovery, OpenVault(r)
  PROVE  Inv'
<1> USE DEF Inv, ConstantsOK
<1>1. PICK w \in wraps : handed' = [handed EXCEPT ![r] = w.gen]
  BY Zenon DEF OpenVault
<1>2. UNCHANGED <<vaultVars, recovery, slot>>
  BY DEF OpenVault
<1>3. w.gen \in 1 .. MaxGen
  BY DEF TypeOK
<1>4. handed' \in [Recovery -> 0 .. MaxGen]
  BY <1>1, <1>3 DEF TypeOK
<1>5. recovery[r] # NotYet /\ recovery[r].second # None
  BY DEF OpenVault, Ready, Is, ApprovedBySecond
<1>6. HandedWasApproved'
  BY <1>1, <1>2, <1>5 DEF HandedWasApproved, TypeOK
<1> QED
  BY <1>2, <1>4, <1>6 DEF TypeOK, ApprovedBySecond, UnderWayFits, NewestIsThere, CoveredByAKey, WaysFit,
                         vaultVars

\* The transaction of approve; where the row is no longer pending, nothing
\* comes of it.
LEMMA ApproveTxStep ==
  ASSUME ConstantsOK, Inv, NEW s \in Slot, ApproveTx(s)
  PROVE  Inv'
<1> USE DEF Inv, ConstantsOK
<1> DEFINE r == slot[s].r
<1>1. r \in Recovery /\ slot[s].by \in Officer /\ slot[s].by # None
  BY UnderWayType DEF ApproveTx
<1>2. UNCHANGED <<vaultVars, handed>> /\ slot' = [slot EXCEPT ![s] = None]
  BY DEF ApproveTx
<1>3. /\ slot' \in [Slot -> UnderWay \cup {None}]
      /\ \A t \in Slot : slot'[t] \in {slot[t], None}
  BY <1>2 DEF TypeOK
<1>4. CASE Is(r, "pending")
  <2> DEFINE row == [recovery[r] EXCEPT !.status = "approved", !.second = slot[s].by]
  <2>1. recovery[r] \in Row
    BY <1>1, <1>4 DEF Is, TypeOK
  <2>2. /\ row \in Row /\ row.by = recovery[r].by /\ row.kind = recovery[r].kind
        /\ row.second = slot[s].by /\ row.status = "approved"
    BY <1>1, <2>1, Zenon DEF Row
  <2>3. recovery' = [recovery EXCEPT ![r].status = "approved", ![r].second = slot[s].by]
    BY <1>4 DEF ApproveTx
  <2>4. recovery' = [recovery EXCEPT ![r] = row]
    BY <1>1, <2>3, Zenon DEF TypeOK
  <2> HIDE DEF row, r
  <2>5. /\ recovery' \in [Recovery -> Row \cup {NotYet}]
        /\ ApprovedBySecond' /\ HandedWasApproved' /\ UnderWayFits' /\ NewestIsThere'
    BY <1>1, <1>2, <1>3, <2>2, <2>4, RowStep, Zenon DEF vaultVars
  <2> QED
    BY <1>2, <1>3, <2>5 DEF TypeOK, CoveredByAKey, WaysFit, vaultVars
<1>5. CASE ~Is(r, "pending")
  <2>1. recovery' = recovery
    BY <1>5 DEF ApproveTx
  <2>2. UnderWayFits'
    BY <1>2, <1>3, <2>1 DEF UnderWayFits, vaultVars
  <2> QED
    BY <1>2, <1>3, <2>1, <2>2
       DEF TypeOK, ApprovedBySecond, HandedWasApproved, NewestIsThere, CoveredByAKey, WaysFit,
           vaultVars
<1> QED
  BY <1>4, <1>5

\* The transaction of complete.
LEMMA CompleteTxStep ==
  ASSUME ConstantsOK, Inv, NEW s \in Slot, CompleteTx(s)
  PROVE  Inv'
<1> USE DEF Inv, ConstantsOK
<1> DEFINE r == slot[s].r
           w == Wrap("recovery", slot[s].gen, 0, TRUE)
<1>1. /\ r \in Recovery /\ slot[s].gen \in 0 .. MaxGen
      /\ recovery[r] # NotYet /\ recovery[r].second # None
      /\ recovery[r].kind = "passphrase" => slot[s].gen > 0
  BY UnderWayType DEF CompleteTx, UnderWayFits
<1>2. UNCHANGED <<keys, made, gen, entries, handed>> /\ slot' = [slot EXCEPT ![s] = None]
  BY DEF CompleteTx
<1>3. /\ slot' \in [Slot -> UnderWay \cup {None}]
      /\ \A t \in Slot : slot'[t] \in {slot[t], None}
  BY <1>2 DEF TypeOK
<1>4. CASE r \in Open
  <2> DEFINE row == [recovery[r] EXCEPT !.status = "completed"]
  <2>1. recovery[r] \in Row
    BY <1>1 DEF TypeOK
  <2>2. /\ row \in Row /\ row.by = recovery[r].by /\ row.kind = recovery[r].kind
        /\ row.second = recovery[r].second /\ row.status = "completed"
    BY <2>1 DEF Row
  <2>3. recovery' = [recovery EXCEPT ![r] = row]
    BY <1>4 DEF CompleteTx
  <2>4. /\ recovery' \in [Recovery -> Row \cup {NotYet}]
        /\ ApprovedBySecond' /\ HandedWasApproved' /\ UnderWayFits' /\ NewestIsThere'
    <3> HIDE DEF row, r
    <3> QED
      BY <1>1, <1>2, <1>3, <2>2, <2>3, RowStep, Zenon
  <2>5. IF recovery[r].kind = "passphrase"
        THEN wraps' = Replace(w) /\ stale' = (slot[s].gen # gen)
        ELSE UNCHANGED <<wraps, stale>>
    BY <1>4 DEF CompleteTx, GiveOwner
  <2>6. /\ wraps' \subseteq [kind : OwnKinds \cup {"organisation"}, gen : 1 .. MaxGen,
                             key : 0 .. MaxKey, once : BOOLEAN]
        /\ \A v \in wraps' : v.kind = "organisation" <=> v.key > 0
        /\ \A v, x \in wraps' : v.kind = x.kind => v = x
        /\ CoveredByAKey' /\ WaysFit' /\ stale' \in BOOLEAN
    <3>1. CASE recovery[r].kind = "passphrase"
      <4>1. /\ w \in [kind : OwnKinds \cup {"organisation"}, gen : 1 .. MaxGen,
                      key : 0 .. MaxKey, once : BOOLEAN]
            /\ w.kind = "recovery" /\ w.key = 0 /\ w.gen = slot[s].gen
        BY <1>1, <3>1 DEF OwnKinds, Wrap
      <4>2. wraps' = Replace(w) /\ stale' = (slot[s].gen # gen)
        BY <2>5, <3>1
      <4> HIDE DEF w
      <4>3. CoveredByAKey'
        BY <1>2, <4>1, <4>2 DEF Replace, CoveredByAKey
      <4>4. WaysFit'
        BY <1>2, <4>1, <4>2 DEF Replace, WaysFit
      <4>5. stale' \in BOOLEAN
        BY <4>2
      <4> QED
        BY <4>1, <4>2, <4>3, <4>4, <4>5, ReplaceKeeps
    <3>2. CASE recovery[r].kind # "passphrase"
      BY <1>2, <2>5, <3>2 DEF TypeOK, CoveredByAKey, WaysFit
    <3> QED
      BY <3>1, <3>2
  <2> QED
    BY <1>2, <1>3, <2>4, <2>6 DEF TypeOK
<1>5. CASE r \notin Open
  <2>1. UNCHANGED <<recovery, wraps, stale>>
    BY <1>5 DEF CompleteTx
  <2>2. UnderWayFits'
    BY <1>2, <1>3, <2>1 DEF UnderWayFits
  <2> QED
    BY <1>2, <1>3, <2>1, <2>2
       DEF TypeOK, ApprovedBySecond, HandedWasApproved, NewestIsThere, CoveredByAKey, WaysFit
<1> QED
  BY <1>4, <1>5

LEMMA InvStep ==
  ASSUME ConstantsOK, Inv, [Next]_recoveryVars
  PROVE  Inv'
<1>1. CASE \/ SetUp \/ SaveEntry \/ SaveUnasked \/ Reset
           \/ \E kind \in OwnKinds : AddUnlock(kind)
           \/ \E w \in wraps : RemoveUnlock(w)
           \/ \E g \in entries : DeleteEntry(g)
  BY <1>1, OwnerStep
<1>2. CASE CreateKey \/ \E k \in keys : DeleteKey(k)
  BY <1>2, KeyStep
<1>3. ASSUME NEW r \in Recovery,
             \/ Cancel(r) \/ DayPasses(r) \/ OpenVault(r)
             \/ \E p \in Admin, kind \in {"passphrase", "handover"} : Create(r, p, kind)
      PROVE  Inv'
  BY <1>3, CancelStep, OpenVaultStep, CreateStep
<1>4. ASSUME NEW s \in Slot,
             \/ LockKeys(s) \/ WrapForOrganisation(s) \/ ApproveTx(s) \/ CompleteTx(s)
             \/ \E r \in Recovery : Complete(s, r) \/ \E p \in Officer : Approve(s, r, p)
      PROVE  Inv'
  BY <1>4, WrapStep, ApproveTxStep, CompleteTxStep, ReadStep
<1>5. CASE UNCHANGED recoveryVars
  BY <1>5 DEF Inv, TypeOK, ApprovedBySecond, HandedWasApproved, UnderWayFits, NewestIsThere,
              CoveredByAKey, WaysFit, recoveryVars, vaultVars
<1> QED
  BY <1>1, <1>2, <1>3, <1>4, <1>5 DEF Next

LEMMA Invariant ==
  ASSUME ConstantsOK
  PROVE  Spec => []Inv
<1>1. Init => Inv
  BY InitInv
<1>2. Inv /\ [Next]_recoveryVars => Inv'
  BY InvStep
<1> QED
  BY <1>1, <1>2, PTL DEF Spec

-----------------------------------------------------------------------------
(* What follows of it.                                                     *)

\* delete_key leaves the newest key and every key a wrap names, under a lock
\* that add_unlock's check shares: in every state the key that a wrap for the
\* organisation names is there, so the vault can be recovered.
THEOREM WrapsHaveTheirKey ==
  ASSUME ConstantsOK
  PROVE  Spec => [](TypeOK /\ CoveredByAKey)
<1>1. Inv => TypeOK /\ CoveredByAKey
  BY DEF Inv
<1> QED
  BY <1>1, Invariant, PTL

\* The step that a recovery's row takes, seen by the promise of four eyes.
LEMMA EyesStep ==
  ASSUME ConstantsOK, Inv, [Next]_recoveryVars
  PROVE  [Eyes!Next]_(Eyes!eyesVars)
<1> USE DEF ConstantsOK, Inv
<1> DEFINE Steps == Eyes!Next \/ UNCHANGED Eyes!eyesVars
<1>0. /\ \A r \in Recovery : recovery[r] # NotYet => recovery[r] \in Row
      /\ \A r \in Recovery : handed[r] \in Nat
  BY DEF TypeOK
<1>1. CASE UNCHANGED <<recovery, handed>>
  BY <1>1 DEF Eyes!eyesVars, Asker, Second, Carried, Asked, Is
<1>2. ASSUME NEW r \in Recovery, NEW p \in Admin, NEW kind \in {"passphrase", "handover"},
             Create(r, p, kind)
      PROVE  Eyes!Ask(r, p)
  <2> DEFINE row == [by |-> p, second |-> None, kind |-> kind, status |-> "pending"]
  <2>1. row \in Row /\ row.by = p /\ row.second = None /\ row.status = "pending"
    BY DEF Row
  <2>2. recovery' = [recovery EXCEPT ![r] = row] /\ recovery[r] = NotYet /\ handed' = handed
    BY <1>2 DEF Create
  <2> HIDE DEF row
  <2>3. recovery'[r] = row /\ row # NotYet /\ \A q \in Recovery : q # r => recovery'[q] = recovery[q]
    BY <2>1, <2>2 DEF TypeOK
  <2>4. Asker' = [Asker EXCEPT ![r] = p] /\ Asker[r] = None
    <3>1. Asker[r] = None
      BY <2>2 DEF Asker, Asked
    <3>2. Asker'[r] = p /\ \A q \in Recovery : q # r => Asker'[q] = Asker[q]
      BY <2>1, <2>3 DEF Asker, Asked
    <3>3. Asker = [q \in Recovery |-> Asker[q]] /\ Asker' = [q \in Recovery |-> Asker'[q]]
      BY DEF Asker
    <3> HIDE DEF Asker
    <3> QED
      BY <3>1, <3>2, <3>3
  <2>5. Second' = Second
    BY <2>1, <2>2, <2>3 DEF Second, Asked
  <2>6. Carried' = Carried
    BY <2>1, <2>2, <2>3 DEF Carried, Is
  <2> QED
    BY <2>4, <2>5, <2>6 DEF Eyes!Ask
<1>3. ASSUME NEW r \in Recovery, Cancel(r) \/ DayPasses(r)
      PROVE  UNCHANGED Eyes!eyesVars
  <2> DEFINE row == [recovery[r] EXCEPT !.status = IF Cancel(r) THEN "cancelled" ELSE "expired"]
  <2>1. recovery[r] # NotYet /\ recovery[r].status # "completed"
    BY <1>3 DEF Cancel, DayPasses, Open, Is
  <2>2. /\ row \in Row /\ row.by = recovery[r].by /\ row.second = recovery[r].second
        /\ row.status # "completed"
    BY <1>0, <2>1 DEF Row
  <2>3. recovery' = [recovery EXCEPT ![r] = row] /\ handed' = handed
    BY <1>3 DEF Cancel, DayPasses
  <2> HIDE DEF row
  <2>4. recovery'[r] = row /\ row # NotYet /\ \A q \in Recovery : q # r => recovery'[q] = recovery[q]
    BY <2>2, <2>3 DEF TypeOK
  <2>5. Asker' = Asker
    BY <2>1, <2>2, <2>4 DEF Asker, Asked
  <2>6. Second' = Second
    BY <2>1, <2>2, <2>4 DEF Second, Asked
  <2>7. Carried' = Carried
    BY <2>1, <2>2, <2>3, <2>4 DEF Carried, Is
  <2> QED
    BY <2>5, <2>6, <2>7 DEF Eyes!eyesVars
<1>4. ASSUME NEW r \in Recovery, OpenVault(r)
      PROVE  Eyes!CarryOut(r)
  <2>1. PICK w \in wraps : handed' = [handed EXCEPT ![r] = w.gen]
    BY <1>4, Zenon DEF OpenVault
  <2>2. w.gen \in 1 .. MaxGen /\ recovery' = recovery
    BY <1>4 DEF TypeOK, OpenVault
  <2>3. recovery[r] # NotYet /\ recovery[r].second # None
    BY <1>4 DEF OpenVault, Ready, Is, ApprovedBySecond
  <2>4. Carried' = Carried \cup {r}
    BY <2>1, <2>2 DEF Carried, Is, TypeOK
  <2>5. Asker' = Asker /\ Second' = Second /\ Second[r] # None
    BY <2>2, <2>3 DEF Asker, Second, Asked
  <2> QED
    BY <2>4, <2>5 DEF Eyes!CarryOut
<1>5. ASSUME NEW s \in Slot, ApproveTx(s), recovery' # recovery
      PROVE  Eyes!Agree(slot[s].r, slot[s].by)
  <2> DEFINE r == slot[s].r
             p == slot[s].by
             row == [recovery[r] EXCEPT !.status = "approved", !.second = p]
  <2>1. /\ r \in Recovery /\ p \in Officer /\ p # None
        /\ recovery[r] # NotYet /\ recovery[r].by # p
    BY <1>5, UnderWayType DEF ApproveTx, UnderWayFits
  <2>2. recovery[r].status = "pending" /\ recovery[r].second = None
    BY <1>5, <2>1 DEF ApproveTx, Is, ApprovedBySecond
  <2>3. recovery' = [recovery EXCEPT ![r].status = "approved", ![r].second = p] /\ handed' = handed
    BY <1>5 DEF ApproveTx
  <2>4. recovery' = [recovery EXCEPT ![r] = row]
    BY <2>1, <2>3, Zenon DEF TypeOK
  <2>5. /\ row \in Row /\ row.by = recovery[r].by /\ row.second = p /\ row.status = "approved"
        /\ recovery[r].by \in Admin
    BY <1>0, <2>1, Zenon DEF Row
  <2> HIDE DEF row, r, p
  <2>6. recovery'[r] = row /\ row # NotYet /\ \A q \in Recovery : q # r => recovery'[q] = recovery[q]
    BY <2>1, <2>4, <2>5 DEF TypeOK
  <2>7. Asker' = Asker /\ Asker[r] \notin {None, p}
    BY <2>1, <2>5, <2>6 DEF Asker, Asked
  <2>8. Second' = [Second EXCEPT ![r] = p] /\ Second[r] = None
    BY <2>1, <2>2, <2>5, <2>6, Zenon DEF Second, Asked
  <2>9. Carried' = Carried
    BY <2>2, <2>3, <2>5, <2>6, Zenon DEF Carried, Is
  <2> QED
    BY <2>7, <2>8, <2>9 DEF Eyes!Agree, r, p
<1>6. ASSUME NEW s \in Slot, CompleteTx(s), recovery' # recovery
      PROVE  Eyes!CarryOut(slot[s].r)
  <2> DEFINE r == slot[s].r
             row == [recovery[r] EXCEPT !.status = "completed"]
  <2>1. r \in Recovery /\ recovery[r] # NotYet /\ recovery[r].second # None
    BY <1>6, UnderWayType DEF CompleteTx, UnderWayFits
  <2>2. recovery' = [recovery EXCEPT ![r] = row] /\ handed' = handed
    BY <1>6 DEF CompleteTx
  <2>3. /\ row \in Row /\ row.by = recovery[r].by /\ row.second = recovery[r].second
        /\ row.status = "completed"
    BY <1>0, <2>1 DEF Row
  <2> HIDE DEF row, r
  <2>4. recovery'[r] = row /\ row # NotYet /\ \A q \in Recovery : q # r => recovery'[q] = recovery[q]
    BY <2>1, <2>2, <2>3 DEF TypeOK
  <2>5. Asker' = Asker
    BY <2>1, <2>3, <2>4 DEF Asker, Asked
  <2>6. Second' = Second /\ Second[r] # None
    BY <2>1, <2>3, <2>4 DEF Second, Asked
  <2>7. Carried' = Carried \cup {r}
    BY <2>1, <2>2, <2>3, <2>4 DEF Carried, Is
  <2> QED
    BY <2>5, <2>6, <2>7 DEF Eyes!CarryOut, r
<1>7. CASE \/ SetUp \/ SaveEntry \/ SaveUnasked \/ Reset \/ CreateKey
           \/ \E kind \in OwnKinds : AddUnlock(kind)
           \/ \E w \in wraps : RemoveUnlock(w)
           \/ \E g \in entries : DeleteEntry(g)
           \/ \E k \in keys : DeleteKey(k)
  <2>1. UNCHANGED <<recovery, handed>>
    BY <1>7, Zenon DEF SetUp, SaveEntry, SaveUnasked, Reset, CreateKey, AddUnlock, RemoveUnlock,
                DeleteEntry, DeleteKey, Others
  <2> QED
    BY <1>1, <2>1
<1>8. ASSUME NEW r \in Recovery,
             \/ Cancel(r) \/ DayPasses(r) \/ OpenVault(r)
             \/ \E p \in Admin, kind \in {"passphrase", "handover"} : Create(r, p, kind)
      PROVE  Steps
  BY <1>2, <1>3, <1>4, <1>8 DEF Eyes!Next
<1>9. ASSUME NEW s \in Slot,
             \/ LockKeys(s) \/ WrapForOrganisation(s) \/ ApproveTx(s) \/ CompleteTx(s)
             \/ \E r \in Recovery : Complete(s, r) \/ \E p \in Officer : Approve(s, r, p)
      PROVE  Steps
  <2>1. CASE ApproveTx(s) /\ recovery' # recovery
    <3>1. slot[s].r \in Recovery /\ slot[s].by \in Officer
      BY <2>1, UnderWayType DEF ApproveTx
    <3> QED
      BY <1>5, <2>1, <3>1 DEF Eyes!Next
  <2>2. CASE CompleteTx(s) /\ recovery' # recovery
    <3>1. slot[s].r \in Recovery
      BY <2>2, UnderWayType DEF CompleteTx
    <3> QED
      BY <1>6, <2>2, <3>1 DEF Eyes!Next
  <2>3. CASE UNCHANGED recovery
    <3>1. handed' = handed
      BY <1>9, Zenon DEF LockKeys, WrapForOrganisation, ApproveTx, CompleteTx, Complete, Approve
    <3> QED
      BY <1>1, <2>3, <3>1
  <2>4. LockKeys(s) \/ WrapForOrganisation(s)
        \/ (\E r \in Recovery : Complete(s, r) \/ \E p \in Officer : Approve(s, r, p))
        => UNCHANGED recovery
    BY Zenon DEF LockKeys, WrapForOrganisation, Complete, Approve
  <2> QED
    BY <1>9, <2>1, <2>2, <2>3, <2>4
<1>10. CASE UNCHANGED recoveryVars
  BY <1>1, <1>10 DEF recoveryVars
<1> QED
  BY <1>7, <1>8, <1>9, <1>10 DEF Next

\* api/recovery.rs implements FourEyes, for any number of recoveries and of
\* requests under way: one administrator asks, an officer who did not ask
\* approves, once, and only then is the vault handed out or the recovery
\* completed.
THEOREM RecoveryTakesTwo ==
  ASSUME ConstantsOK
  PROVE  Spec => ImplementsFourEyes
<1>1. Init => Eyes!Init
  BY DEF Init, Eyes!Init, Asker, Second, Carried, Asked, Is
<1>2. Inv /\ [Next]_recoveryVars => [Eyes!Next]_(Eyes!eyesVars)
  BY EyesStep
<1> QED
  BY <1>1, <1>2, Invariant, PTL DEF Spec, ImplementsFourEyes, Eyes!Spec

-----------------------------------------------------------------------------
\* A transaction of approve or complete that comes after the recovery was
\* cancelled or completed changes nothing of it.
THEOREM EndedStaysEnded ==
  ASSUME ConstantsOK
  PROVE  Spec => EndedForGood
<1>1. ASSUME Inv, [Next]_recoveryVars, NEW q \in Recovery, Asked(q), q \notin Open
      PROVE  recovery'[q] = recovery[q]
  <2> USE DEF Inv
  <2>1. ~Is(q, "pending") /\ ~Is(q, "approved") /\ recovery[q] # NotYet
    BY <1>1 DEF Open, Asked
  <2>2. CASE UNCHANGED recovery
    BY <2>2
  <2>3. ASSUME NEW r \in Recovery, Cancel(r) \/ DayPasses(r)
        PROVE  recovery'[q] = recovery[q]
    <3>1. r # q
      BY <1>1, <2>1, <2>3 DEF Cancel, DayPasses
    <3> QED
      BY <1>1, <2>3, <3>1 DEF Cancel, DayPasses, TypeOK
  <2>4. ASSUME NEW r \in Recovery, NEW p \in Admin, NEW kind \in {"passphrase", "handover"},
               Create(r, p, kind)
        PROVE  recovery'[q] = recovery[q]
    BY <1>1, <2>1, <2>4 DEF Create, TypeOK
  <2>5. ASSUME NEW s \in Slot, ApproveTx(s)
        PROVE  recovery'[q] = recovery[q]
    <3>1. CASE Is(slot[s].r, "pending")
      <4>1. slot[s].r # q
        BY <2>1, <3>1
      <4>2. recovery' = [recovery EXCEPT ![slot[s].r].status = "approved",
                                         ![slot[s].r].second = slot[s].by]
        BY <2>5, <3>1 DEF ApproveTx
      <4> QED
        BY <1>1, <4>1, <4>2 DEF TypeOK
    <3>2. CASE ~Is(slot[s].r, "pending")
      BY <2>5, <3>2 DEF ApproveTx
    <3> QED
      BY <3>1, <3>2
  <2>6. ASSUME NEW s \in Slot, CompleteTx(s)
        PROVE  recovery'[q] = recovery[q]
    <3>1. CASE slot[s].r \in Open
      <4>1. slot[s].r # q
        BY <1>1, <3>1
      <4>2. recovery' = [recovery EXCEPT ![slot[s].r].status = "completed"]
        BY <2>6, <3>1 DEF CompleteTx
      <4> QED
        BY <1>1, <4>1, <4>2 DEF TypeOK
    <3>2. CASE slot[s].r \notin Open
      BY <2>6, <3>2 DEF CompleteTx
    <3> QED
      BY <3>1, <3>2
  <2>7. CASE UNCHANGED recoveryVars
    BY <2>7 DEF recoveryVars
  <2>8. CASE \/ SetUp \/ SaveEntry \/ SaveUnasked \/ Reset \/ CreateKey
             \/ \E kind \in OwnKinds : AddUnlock(kind)
             \/ \E w \in wraps : RemoveUnlock(w)
             \/ \E g \in entries : DeleteEntry(g)
             \/ \E k \in keys : DeleteKey(k)
             \/ \E r \in Recovery : OpenVault(r)
             \/ \E s \in Slot :
                  \/ LockKeys(s) \/ WrapForOrganisation(s)
                  \/ \E r \in Recovery : Complete(s, r) \/ \E p \in Officer : Approve(s, r, p)
    BY <2>2, <2>8, Zenon DEF SetUp, SaveEntry, SaveUnasked, Reset, CreateKey, AddUnlock, RemoveUnlock,
                      DeleteEntry, DeleteKey, OpenVault, LockKeys, WrapForOrganisation, Complete, Approve, Others
  <2> QED
    BY <1>1, <2>3, <2>4, <2>5, <2>6, <2>7, <2>8, Zenon DEF Next
<1>2. Inv /\ [Next]_recoveryVars => EndedForGoodStep
  BY <1>1 DEF EndedForGoodStep
<1> QED
  BY <1>2, Invariant, PTL DEF Spec, EndedForGood

\* remove_unlock refuses the owner's last way to unlock, add_unlock wraps the
\* vault key of now, and a recovery only adds a way: an owner who has one that
\* opens the vault keeps one until the vault is reset, unless the vault was
\* reset and set up anew while a recovery was under way, and the recovery's
\* wrap of the key of before stands in the place of the owner's.
THEOREM OwnerKeepsAWay ==
  ASSUME ConstantsOK
  PROVE  Spec => OwnWayStays
<1>1. ASSUME Inv, [Next]_recoveryVars, OwnOfNow # {}, wraps' # {}
      PROVE  OwnOfNow' # {} \/ stale'
  <2> USE DEF Inv
  <2>0. PICK o \in wraps : o.kind # "organisation" /\ o.gen = gen
    BY <1>1 DEF OwnOfNow, Own
  <2>1. CASE UNCHANGED <<wraps, gen>>
    BY <1>1, <2>1 DEF OwnOfNow, Own
  <2>2. ASSUME NEW kind \in OwnKinds, AddUnlock(kind)
        PROVE  OwnOfNow' # {}
    <3> DEFINE w == Wrap(kind, gen, 0, FALSE)
    <3>1. wraps' = Replace(w) /\ gen' = gen /\ w.kind # "organisation" /\ w.gen = gen
      BY <2>2 DEF AddUnlock, Wrap, OwnKinds
    <3> HIDE DEF w
    <3> QED
      BY <3>1 DEF OwnOfNow, Own, Replace
  <2>3. ASSUME NEW s \in Slot, WrapForOrganisation(s)
        PROVE  OwnOfNow' # {}
    <3> DEFINE w == Wrap("organisation", slot[s].gen, slot[s].key, FALSE)
    <3>1. wraps' = Replace(w) /\ gen' = gen /\ w.kind = "organisation"
      BY <2>3 DEF WrapForOrganisation, Wrap
    <3> HIDE DEF w
    <3> QED
      BY <2>0, <3>1 DEF OwnOfNow, Own, Replace
  <2>4. ASSUME NEW w \in wraps, RemoveUnlock(w)
        PROVE  OwnOfNow' # {} \/ stale'
    <3>1. /\ w \in Own /\ wraps' = wraps \ {w} /\ Cardinality(Own) # 1
          /\ gen' = gen /\ stale' = (stale /\ w.kind # "recovery")
      BY <2>4 DEF RemoveUnlock, Own
    <3>2. Own # {w}
      BY <3>1, FS_Singleton
    <3>3. PICK v \in Own : v # w
      BY <3>1, <3>2
    <3>4. v \in wraps /\ v.kind # "organisation" /\ v \in wraps'
      BY <3>1, <3>3 DEF Own
    <3>5. CASE v.gen = gen
      BY <3>1, <3>4, <3>5 DEF OwnOfNow, Own
    <3>6. CASE v.gen # gen
      <4>1. stale /\ v.kind = "recovery"
        BY <1>1, <3>4, <3>6, Zenon DEF WaysFit
      <4>2. w.kind # "recovery"
        <5>1. w \in wraps /\ \A x, y \in wraps : x.kind = y.kind => x = y
          BY <1>1, Zenon DEF TypeOK
        <5> QED
          BY <3>3, <3>4, <4>1, <5>1, Zenon
      <4> QED
        BY <3>1, <4>1, <4>2
    <3> QED
      BY <3>5, <3>6
  <2>5. ASSUME NEW s \in Slot, CompleteTx(s)
        PROVE  OwnOfNow' # {} \/ stale'
    <3> DEFINE w == Wrap("recovery", slot[s].gen, 0, TRUE)
    <3>1. /\ gen' = gen
          /\ wraps' = wraps \/ (wraps' = Replace(w) /\ stale' = (slot[s].gen # gen))
      BY <2>5 DEF CompleteTx, GiveOwner
    <3>2. w.kind # "organisation" /\ w.gen = slot[s].gen
      BY DEF Wrap
    <3> HIDE DEF w
    <3>3. CASE slot[s].gen = gen
      BY <2>1, <3>1, <3>2, <3>3 DEF OwnOfNow, Own, Replace
    <3>4. CASE slot[s].gen # gen
      BY <2>1, <3>1, <3>4
    <3> QED
      BY <3>3, <3>4
  <2>6. CASE Reset
    BY <1>1, <2>6 DEF Reset
  <2>7. CASE SetUp
    BY <2>0, <2>7 DEF SetUp
  <2>8. CASE UNCHANGED recoveryVars
    BY <2>1, <2>8 DEF recoveryVars, vaultVars
  <2>9. CASE \/ SaveEntry \/ SaveUnasked \/ CreateKey
             \/ \E g \in entries : DeleteEntry(g)
             \/ \E k \in keys : DeleteKey(k)
             \/ \E r \in Recovery :
                  \/ Cancel(r) \/ DayPasses(r) \/ OpenVault(r)
                  \/ \E p \in Admin, kind \in {"passphrase", "handover"} : Create(r, p, kind)
             \/ \E s \in Slot :
                  \/ LockKeys(s) \/ ApproveTx(s)
                  \/ \E r \in Recovery : Complete(s, r) \/ \E p \in Officer : Approve(s, r, p)
    BY <2>1, <2>9, Zenon DEF SaveEntry, SaveUnasked, CreateKey, DeleteEntry, DeleteKey, Cancel,
                      DayPasses, OpenVault, Create, LockKeys, ApproveTx, Complete, Approve, vaultVars
  <2> QED
    BY <1>1, <2>2, <2>3, <2>4, <2>5, <2>6, <2>7, <2>8, <2>9 DEF Next
<1>2. Inv /\ [Next]_recoveryVars => OwnWayStaysStep
  BY <1>1 DEF OwnWayStaysStep
<1> QED
  BY <1>2, Invariant, PTL DEF Spec, OwnWayStays
=============================================================================
