--------------------------- MODULE AuditLogProofs ---------------------------
(***************************************************************************)
(* Theorems about the audit log, for any number of users and transactions: *)
(* its chain holds, and nobody waits in a circle for it.                   *)
(***************************************************************************)
EXTENDS AuditLog, Integers, TLAPS

\* A sequence of entries that verify finds nothing wrong with.
Good(s) ==
  \A i \in 1 .. Len(s) :
    /\ s[i].seq = i
    /\ s[i].prev = IF i = 1 THEN Genesis ELSE s[i - 1].hash
    /\ s[i].hash = Digest(s[i].prev, s[i].by, s[i].seq)

\* Whoever has appended entries has the lock, and they continue the log.
OwnContinues ==
  \A t \in Tx : tx[t] # None /\ tx[t].own # <<>> =>
    /\ lock = t
    /\ Good(log \o tx[t].own)
    /\ \A j \in 1 .. Len(tx[t].own) : tx[t].own[j].by = t

\* A handler that records in its transaction is not done before it ends, and
\* none ends without an entry.
EntriesToCome ==
  \A t \in Tx : tx[t] # None =>
    /\ t \in done => t \in Apart
    /\ tx[t].more > 0 \/ tx[t].own # <<>>
    /\ tx[t].at = "insert" => tx[t].more > 0 /\ tx[t].own # <<>>

\* The lock is a running transaction's that has changed its rows.
LockIsHeld == lock # None => tx[lock] # None /\ tx[lock].at # "begin"

\* No entry of what was not done; what has none records apart.
EntriesFit == Recorded \subseteq done /\ done \subseteq Recorded \cup Apart

\* The inductive invariant.
Inv ==
  /\ TypeOK
  /\ Good(log)
  /\ ~refused
  /\ EntriesFit
  /\ OwnContinues
  /\ EntriesToCome
  /\ LockIsHeld

\* A sequence has its length as its domain, and its elements are of
\* its kind.
LEMMA LengthIs ==
  ASSUME NEW S, NEW s \in Seq(S)
  PROVE  /\ Len(s) \in Nat /\ DOMAIN s = 1 .. Len(s) /\ (s = <<>> <=> Len(s) = 0)
         /\ \A i \in 1 .. Len(s) : s[i] \in S
  OBVIOUS

\* One sequence after another.
LEMMA JoinedIs ==
  ASSUME NEW S, NEW s \in Seq(S), NEW t \in Seq(S)
  PROVE  /\ s \o t \in Seq(S) /\ Len(s \o t) = Len(s) + Len(t)
         /\ \A i \in 1 .. Len(s) + Len(t) :
              (s \o t)[i] = IF i <= Len(s) THEN s[i] ELSE t[i - Len(s)]
<1>1. s \o t \in Seq(S) /\ Len(s \o t) = Len(s) + Len(t)
  OBVIOUS
<1>2. \A i \in 1 .. Len(s) + Len(t) :
        (s \o t)[i] = IF i <= Len(s) THEN s[i] ELSE t[i - Len(s)]
  OBVIOUS
<1> QED
  BY <1>1, <1>2

\* Nothing before or after a sequence leaves it as it is.
LEMMA JoinedEmpty ==
  ASSUME NEW S, NEW s \in Seq(S)
  PROVE  <<>> \o s = s /\ s \o <<>> = s
  OBVIOUS

\* A sequence with one more element.
LEMMA OneMore ==
  ASSUME NEW S, NEW s \in Seq(S), NEW e \in S
  PROVE  /\ Append(s, e) \in Seq(S) /\ Append(s, e) # <<>> /\ Len(Append(s, e)) = Len(s) + 1
         /\ Append(s, e)[Len(s) + 1] = e
         /\ \A i \in 1 .. Len(s) : Append(s, e)[i] = s[i]
  OBVIOUS

\* What is appended to the second of two comes at the end of both.
LEMMA AppendLater ==
  ASSUME NEW S, NEW s \in Seq(S), NEW t \in Seq(S), NEW e \in S
  PROVE  s \o Append(t, e) = Append(s \o t, e)
  OBVIOUS

LEMMA InitInv ==
  ASSUME Init
  PROVE  Inv
<1>1. <<>> \in Seq(Entry) /\ Len(<<>>) = 0 /\ DOMAIN <<>> = {}
  OBVIOUS
<1>2. TypeOK
  BY <1>1, Zenon DEF Init, TypeOK
<1>3. Good(log)
  BY <1>1 DEF Init, Good
<1>4. EntriesFit
  BY <1>1 DEF Init, EntriesFit, Recorded
<1> QED
  BY <1>2, <1>3, <1>4 DEF Init, Inv, OwnContinues, EntriesToCome, LockIsHeld

\* The trigger audit_chain continues the chain.
LEMMA ChainOne ==
  ASSUME NEW s \in Seq(Entry), Good(s), NEW t \in Tx, NEW prev, NEW seq,
         prev = IF s = <<>> THEN Genesis ELSE s[Len(s)].hash,
         seq = IF s = <<>> THEN 1 ELSE s[Len(s)].seq + 1
  PROVE  LET e == [by |-> t, seq |-> seq, prev |-> prev, hash |-> Digest(prev, t, seq)]
         IN  e \in Entry /\ e.by = t /\ Good(Append(s, e))
<1> DEFINE e == [by |-> t, seq |-> seq, prev |-> prev, hash |-> Digest(prev, t, seq)]
<1>1. Len(s) \in Nat /\ (s = <<>> <=> Len(s) = 0)
  BY LengthIs
<1>2. s # <<>> => Len(s) \in 1 .. Len(s) /\ s[Len(s)] \in Entry
  BY <1>1, LengthIs
<1>3. seq = Len(s) + 1
  BY <1>1, <1>2 DEF Good
<1>4. prev = (IF Len(s) + 1 = 1 THEN Genesis ELSE s[Len(s)].hash)
  BY <1>1, <1>2
<1>5. prev \in Hash
  <2>1. Genesis \in Hash
    BY DEF Genesis, Hash
  <2>2. s # <<>> => s[Len(s)].hash \in Hash
    BY <1>2 DEF Entry
  <2> QED
    BY <1>1, <1>4, <2>1, <2>2
<1>6. Digest(prev, t, seq) \in Hash
  <2>1. <<t, seq>> \in Tx \X Nat
    BY <1>1, <1>3
  <2> QED
    BY <1>5, <2>1, OneMore DEF Digest, Hash
<1>7. /\ e \in Entry /\ e.by = t /\ e.seq = seq /\ e.prev = prev
      /\ e.hash = Digest(e.prev, e.by, e.seq)
  BY <1>1, <1>3, <1>5, <1>6 DEF Entry
<1> HIDE DEF e
<1>8. /\ Len(Append(s, e)) = Len(s) + 1
      /\ Append(s, e)[Len(s) + 1] = e
      /\ \A i \in 1 .. Len(s) : Append(s, e)[i] = s[i]
  BY <1>1, <1>7, OneMore
<1>9. ASSUME NEW i \in 1 .. Len(Append(s, e))
      PROVE  /\ Append(s, e)[i].seq = i
             /\ Append(s, e)[i].prev = IF i = 1 THEN Genesis ELSE Append(s, e)[i - 1].hash
             /\ Append(s, e)[i].hash =
                  Digest(Append(s, e)[i].prev, Append(s, e)[i].by, Append(s, e)[i].seq)
  <2>1. CASE i \in 1 .. Len(s)
    <3>1. i # 1 => i - 1 \in 1 .. Len(s)
      BY <1>1, <2>1
    <3> QED
      BY <1>8, <2>1, <3>1 DEF Good
  <2>2. CASE i = Len(s) + 1
    <3>1. Append(s, e)[i] = e
      BY <1>8, <2>2
    <3>2. e.prev = IF i = 1 THEN Genesis ELSE Append(s, e)[i - 1].hash
      <4>1. i # 1 => i - 1 = Len(s) /\ Len(s) \in 1 .. Len(s)
        BY <1>1, <2>2
      <4> QED
        BY <1>4, <1>7, <1>8, <2>2, <4>1
    <3> QED
      BY <1>3, <1>7, <2>2, <3>1, <3>2
  <2> QED
    BY <1>1, <1>8, <2>1, <2>2
<1>10. Good(Append(s, e))
  BY <1>9 DEF Good
<1> QED
  BY <1>7, <1>10 DEF e

\* What a transaction appended, were it committed, would still be a chain.
LEMMA SeenIsGood ==
  ASSUME Inv, NEW t \in Tx, tx[t] # None
  PROVE  /\ tx[t] \in Transaction
         /\ tx[t].own \in Seq(Entry)
         /\ log \o tx[t].own \in Seq(Entry)
         /\ Good(log \o tx[t].own)
<1>1. tx[t] \in Transaction /\ log \in Seq(Entry)
  BY DEF Inv, TypeOK
<1>2. tx[t].own \in Seq(Entry)
  BY <1>1 DEF Transaction
<1>3. log \o tx[t].own \in Seq(Entry)
  BY <1>1, <1>2, JoinedIs
<1>5. Good(log \o tx[t].own)
  <2>1. CASE tx[t].own = <<>>
    <3>1. log \o tx[t].own = log
      BY <1>1, <2>1, JoinedEmpty
    <3> QED
      BY <3>1 DEF Inv
  <2> QED
    BY <2>1 DEF Inv, OwnContinues
<1> QED
  BY <1>1, <1>2, <1>3, <1>5

\* A step of one transaction that leaves the log, its own entries and the lock
\* alone, and does not let go of the row it locked.
LEMMA OwnStep ==
  ASSUME Inv, NEW t \in Tx, NEW row \in Transaction, row # None,
         tx' = [tx EXCEPT ![t] = row],
         tx[t] # None => row.own = tx[t].own,
         tx[t] = None => row.own = <<>> /\ t \notin done,
         done' = done \/ (t \in Apart /\ done' = done \cup {t}),
         row.more > 0 \/ row.own # <<>>,
         row.at # "insert",
         tx[t] # None /\ tx[t].at # "begin" => row.at # "begin",
         UNCHANGED <<log, lock, refused>>
  PROVE  Inv'
<1>1. /\ tx'[t] = row
      /\ \A o \in Tx \ {t} : tx'[o] = tx[o]
      /\ tx' \in [Tx -> Transaction \cup {None}]
  BY DEF Inv, TypeOK
<1>2. TypeOK'
  BY <1>1 DEF Inv, TypeOK
<1>3. Good(log)' /\ (~refused)' /\ EntriesFit'
  BY DEF Inv, Good, EntriesFit, Recorded
<1>4. OwnContinues'
  <2> SUFFICES ASSUME NEW o \in Tx, tx'[o] # None, tx'[o].own # <<>>
               PROVE  /\ lock = o
                      /\ Good(log \o tx'[o].own)
                      /\ \A j \in 1 .. Len(tx'[o].own) : tx'[o].own[j].by = o
    BY DEF OwnContinues
  <2>1. tx[o] # None /\ tx'[o].own = tx[o].own
    BY <1>1
  <2> QED
    BY <2>1 DEF Inv, OwnContinues
<1>5. EntriesToCome'
  BY <1>1 DEF Inv, EntriesToCome
<1>6. LockIsHeld'
  BY <1>1 DEF Inv, LockIsHeld, TypeOK
<1> QED
  BY <1>2, <1>3, <1>4, <1>5, <1>6 DEF Inv

LEMMA BeginStep ==
  ASSUME ConstantsOK, Inv, NEW t \in Tx, NEW actor \in User, NEW row \in User \cup {None},
         NEW entries \in 1 .. 2, Begin(t, actor, row, entries)
  PROVE  Inv'
<1> DEFINE new == [at |-> "begin", actor |-> actor, row |-> row, own |-> <<>>, more |-> entries]
<1>1. <<>> \in Seq(Entry)
  OBVIOUS
<1>2. new \in Transaction /\ new.own = <<>> /\ new.more > 0 /\ new.at = "begin"
  BY <1>1 DEF Transaction
<1>3. new # None
  BY <1>2 DEF ConstantsOK
<1>4. /\ tx' = [tx EXCEPT ![t] = new] /\ tx[t] = None /\ t \notin done
      /\ UNCHANGED <<log, lock, done, refused>>
  BY DEF Begin
<1> HIDE DEF new
<1> QED
  BY <1>2, <1>3, <1>4, OwnStep, Zenon

LEMMA ChangeStep ==
  ASSUME ConstantsOK, Inv, NEW t \in Tx, Change(t) \/ ChangeApart(t)
  PROVE  Inv'
<1> DEFINE new == [tx[t] EXCEPT !.at = "changed"]
<1>1. tx[t] # None /\ tx[t] \in Transaction
  BY SeenIsGood DEF Change, ChangeApart, Is
<1>2. /\ new \in Transaction /\ new.own = tx[t].own /\ new.more = tx[t].more
      /\ new.at = "changed"
  BY <1>1 DEF Transaction
<1>3. new # None
  BY <1>2 DEF ConstantsOK
<1>4. /\ tx' = [tx EXCEPT ![t] = new] /\ UNCHANGED <<log, lock, refused>>
      /\ done' = done \/ (t \in Apart /\ done' = done \cup {t})
  BY DEF Change, ChangeApart, Goes
<1>5. tx[t].more > 0 \/ tx[t].own # <<>>
  BY <1>1 DEF Inv, EntriesToCome
<1> HIDE DEF new
<1> QED
  BY <1>1, <1>2, <1>3, <1>4, <1>5, OwnStep, Zenon

LEMMA InsertStep ==
  ASSUME ConstantsOK, Inv, NEW t \in Tx, Insert(t)
  PROVE  Inv'
<1> DEFINE new == [tx[t] EXCEPT !.at = "changed", !.more = @ - 1]
<1>1. tx[t] # None /\ tx[t] \in Transaction /\ tx[t].at = "insert"
  BY SeenIsGood DEF Insert, Is
<1>2. tx[t].more \in Int /\ tx[t].more - 1 \in 0 .. 2
  <2>1. tx[t].more \in 0 .. 2
    BY <1>1 DEF Transaction
  <2> QED
    BY <1>1, <2>1 DEF Inv, EntriesToCome
<1>3. new \in Transaction /\ new.own = tx[t].own /\ new.at = "changed"
  <2> DEFINE left == tx[t].more - 1
  <2>1. new = [tx[t] EXCEPT !.at = "changed", !.more = left]
    OBVIOUS
  <2>2. left \in 0 .. 2
    BY <1>2
  <2> HIDE DEF left
  <2> QED
    BY <1>1, <2>1, <2>2, Zenon DEF Transaction
<1>4. new # None
  BY <1>3 DEF ConstantsOK
<1>5. tx' = [tx EXCEPT ![t] = new] /\ UNCHANGED <<log, lock, done, refused>>
  BY Zenon DEF Insert
<1>6. tx[t].own # <<>>
  BY <1>1 DEF Inv, EntriesToCome
<1> HIDE DEF new
<1> QED
  BY <1>1, <1>3, <1>4, <1>5, <1>6, OwnStep, Zenon
LEMMA ChainStep ==
  ASSUME ConstantsOK, Inv, NEW t \in Tx, Chain(t)
  PROVE  Inv'
<1>1. tx[t] # None /\ tx[t].at = "changed" /\ tx[t].more > 0
  BY DEF Chain, Is
<1> DEFINE own == tx[t].own
           seen == log \o own
           e == Chained(t)
           new == [tx[t] EXCEPT !.at = "insert", !.own = Append(@, e)]
<1>2. tx[t] \in Transaction /\ own \in Seq(Entry) /\ seen \in Seq(Entry) /\ Good(seen)
  BY <1>1, SeenIsGood
<1>3. e \in Entry /\ e.by = t /\ Good(Append(seen, e))
  <2> DEFINE prev == IF seen = <<>> THEN Genesis ELSE seen[Len(seen)].hash
             seq == IF seen = <<>> THEN 1 ELSE seen[Len(seen)].seq + 1
  <2>1. e = [by |-> t, seq |-> seq, prev |-> prev, hash |-> Digest(prev, t, seq)]
    BY DEF Chained
  <2> HIDE DEF e, seen
  <2> QED
    BY <1>2, <2>1, ChainOne
<1> HIDE DEF e
<1>4. log \o Append(own, e) = Append(seen, e)
  <2>1. log \in Seq(Entry)
    BY DEF Inv, TypeOK
  <2> HIDE DEF own
  <2> QED
    BY <1>2, <1>3, <2>1, AppendLater
<1>5. /\ Append(own, e) \in Seq(Entry) /\ Append(own, e) # <<>>
      /\ Len(Append(own, e)) = Len(own) + 1
      /\ Append(own, e)[Len(own) + 1] = e
      /\ \A j \in 1 .. Len(own) : Append(own, e)[j] = own[j]
  BY <1>2, <1>3, OneMore
<1>6. \A j \in 1 .. Len(Append(own, e)) : Append(own, e)[j].by = t
  <2>1. \A j \in 1 .. Len(own) : own[j].by = t
    <3>1. CASE own = <<>>
      BY <3>1
    <3> QED
      BY <1>1, <3>1 DEF Inv, OwnContinues
  <2> QED
    BY <1>2, <1>3, <1>5, <2>1
<1>7. /\ new \in Transaction /\ new.own = Append(own, e) /\ new.at = "insert"
      /\ new.more = tx[t].more
  BY <1>2, <1>5, Zenon DEF Transaction
<1>8. new # None
  BY <1>7 DEF ConstantsOK
<1>9. /\ tx' = [tx EXCEPT ![t] = new] /\ lock \in {None, t} /\ lock' = t
      /\ UNCHANGED <<log, done, refused>>
  BY Zenon DEF Chain, e
<1> HIDE DEF new
<1>10. /\ tx'[t] = new
       /\ \A o \in Tx \ {t} : tx'[o] = tx[o]
       /\ tx' \in [Tx -> Transaction \cup {None}]
  BY <1>7, <1>9 DEF Inv, TypeOK
<1>11. TypeOK'
  BY <1>9, <1>10 DEF Inv, TypeOK
<1>12. Good(log)' /\ (~refused)' /\ EntriesFit'
  BY <1>9 DEF Inv, Good, EntriesFit, Recorded
<1>13. OwnContinues'
  <2> SUFFICES ASSUME NEW o \in Tx, tx'[o] # None, tx'[o].own # <<>>
               PROVE  /\ o = t
                      /\ Good(log \o tx'[o].own)
                      /\ \A j \in 1 .. Len(tx'[o].own) : tx'[o].own[j].by = o
    BY <1>9 DEF OwnContinues
  <2>1. o = t
    <3>1. ASSUME o # t
          PROVE  FALSE
      <4>1. lock = o
        BY <1>10, <3>1 DEF Inv, OwnContinues
      <4> QED
        BY <1>9, <3>1, <4>1 DEF ConstantsOK
    <3> QED
      BY <3>1
  <2>2. tx'[o].own = Append(own, e)
    BY <1>7, <1>10, <2>1
  <2> HIDE DEF own, seen
  <2> QED
    BY <1>3, <1>4, <1>6, <2>1, <2>2, Zenon
<1>14. EntriesToCome'
  <2>1. \A o \in Tx \ {t} : tx'[o] # None =>
          /\ o \in done' => o \in Apart
          /\ tx'[o].more > 0 \/ tx'[o].own # <<>>
          /\ tx'[o].at = "insert" => tx'[o].more > 0 /\ tx'[o].own # <<>>
    BY <1>9, <1>10 DEF Inv, EntriesToCome
  <2>2. (t \in done' => t \in Apart) /\ tx'[t].more > 0 /\ tx'[t].own # <<>>
    BY <1>1, <1>5, <1>7, <1>9, <1>10 DEF Inv, EntriesToCome
  <2> QED
    BY <2>1, <2>2 DEF EntriesToCome
<1>15. LockIsHeld'
  BY <1>7, <1>8, <1>9, <1>10 DEF LockIsHeld
<1> QED
  BY <1>11, <1>12, <1>13, <1>14, <1>15 DEF Inv

\* A transaction ends: what the others hold is not touched.
LEMMA EndStep ==
  ASSUME ConstantsOK, Inv, NEW t \in Tx, tx[t] # None,
         tx' = [tx EXCEPT ![t] = None], Release(t),
         done' \subseteq done \cup {t},
         log' = log \/ tx[t].own # <<>>
  PROVE  /\ tx' \in [Tx -> Transaction \cup {None}]
         /\ lock' \in Tx \cup {None}
         /\ OwnContinues' /\ EntriesToCome' /\ LockIsHeld'
<1>1. /\ tx'[t] = None
      /\ \A o \in Tx \ {t} : tx'[o] = tx[o]
      /\ tx' \in [Tx -> Transaction \cup {None}]
  BY DEF Inv, TypeOK
<1>2. lock' \in Tx \cup {None} /\ lock' \in {lock, None} /\ (lock # t => lock' = lock) /\ lock' # t
  BY DEF Inv, TypeOK, Release, ConstantsOK
<1>3. OwnContinues'
  <2> SUFFICES ASSUME NEW o \in Tx, tx'[o] # None, tx'[o].own # <<>>
               PROVE  /\ lock' = o
                      /\ Good(log' \o tx'[o].own)
                      /\ \A j \in 1 .. Len(tx'[o].own) : tx'[o].own[j].by = o
    BY DEF OwnContinues
  <2>1. o # t /\ tx'[o] = tx[o]
    BY <1>1
  <2>2. lock = o
    BY <2>1 DEF Inv, OwnContinues
  <2>3. log' = log
    BY <2>1, <2>2 DEF Inv, OwnContinues
  <2> QED
    BY <1>2, <2>1, <2>2, <2>3 DEF Inv, OwnContinues
<1>4. EntriesToCome'
  BY <1>1 DEF Inv, EntriesToCome
<1>5. LockIsHeld'
  BY <1>1, <1>2 DEF Inv, LockIsHeld, TypeOK
<1> QED
  BY <1>1, <1>2, <1>3, <1>4, <1>5

LEMMA RollbackStep ==
  ASSUME ConstantsOK, Inv, NEW t \in Tx, Rollback(t)
  PROVE  Inv'
<1>1. /\ tx' \in [Tx -> Transaction \cup {None}]
      /\ lock' \in Tx \cup {None}
      /\ OwnContinues' /\ EntriesToCome' /\ LockIsHeld'
  BY EndStep, Zenon DEF Rollback
<1>2. Good(log)' /\ (~refused)' /\ EntriesFit'
  BY DEF Rollback, Inv, Good, EntriesFit, Recorded
<1>3. TypeOK'
  BY <1>1 DEF Rollback, Inv, TypeOK
<1> QED
  BY <1>1, <1>2, <1>3 DEF Inv
\* No number that a transaction chained is taken when it commits, and its
\* entries make the log longer.
LEMMA CommitStep ==
  ASSUME ConstantsOK, Inv, NEW t \in Tx, Commit(t)
  PROVE  Inv'
<1>1. tx[t] # None /\ tx[t].at = "changed" /\ tx[t].more = 0
  BY DEF Commit, Is
<1> DEFINE own == tx[t].own
           seen == log \o own
<1>2. own \in Seq(Entry) /\ seen \in Seq(Entry) /\ Good(seen)
  BY <1>1, SeenIsGood
<1>3. own # <<>>
  BY <1>1 DEF Inv, EntriesToCome
<1>4. \A j \in 1 .. Len(own) : own[j].by = t
  BY <1>1, <1>3 DEF Inv, OwnContinues
<1>5. tx' = [tx EXCEPT ![t] = None] /\ Release(t)
  BY DEF Commit
<1>6. log \in Seq(Entry) /\ done \subseteq Tx /\ refused \in BOOLEAN
  BY DEF Inv, TypeOK
<1>7. /\ Len(log) \in Nat /\ DOMAIN log = 1 .. Len(log)
      /\ Len(own) \in Nat \ {0} /\ DOMAIN own = 1 .. Len(own)
  BY <1>2, <1>3, <1>6, LengthIs
<1> HIDE DEF own
<1>8. /\ Len(seen) = Len(log) + Len(own) /\ DOMAIN seen = 1 .. Len(log) + Len(own)
      /\ \A i \in 1 .. Len(log) : i \in 1 .. Len(seen) /\ seen[i] = log[i]
      /\ \A j \in 1 .. Len(own) :
           Len(log) + j \in 1 .. Len(seen) /\ seen[Len(log) + j] = own[j]
  <2>1. /\ Len(seen) = Len(log) + Len(own)
        /\ \A i \in 1 .. Len(log) + Len(own) :
             seen[i] = IF i <= Len(log) THEN log[i] ELSE own[i - Len(log)]
    BY <1>2, <1>6, JoinedIs
  <2>2. DOMAIN seen = 1 .. Len(log) + Len(own)
    BY <1>2, <2>1, LengthIs
  <2>3. ASSUME NEW j \in 1 .. Len(own)
        PROVE  Len(log) + j \in 1 .. Len(seen) /\ seen[Len(log) + j] = own[j]
    <3>1. /\ Len(log) + j \in 1 .. Len(log) + Len(own)
          /\ ~(Len(log) + j <= Len(log)) /\ (Len(log) + j) - Len(log) = j
      BY <1>7
    <3> QED
      BY <2>1, <3>1
  <2>4. ASSUME NEW i \in 1 .. Len(log)
        PROVE  i \in 1 .. Len(seen) /\ seen[i] = log[i]
    <3>1. i \in 1 .. Len(log) + Len(own) /\ i <= Len(log)
      BY <1>7
    <3> QED
      BY <2>1, <3>1
  <2> QED
    BY <2>1, <2>2, <2>3, <2>4
<1> HIDE DEF seen
<1>9. ~ \E i \in DOMAIN log, j \in DOMAIN own : log[i].seq = own[j].seq
  <2>1. \A i \in 1 .. Len(log) : log[i].seq = i
    BY DEF Inv, Good
  <2>2. \A j \in 1 .. Len(own) : own[j].seq = Len(log) + j
    BY <1>2, <1>8 DEF Good
  <2> QED
    BY <1>7, <2>1, <2>2
<1>10. log' = seen /\ done' = done \cup {t} /\ refused' = refused
  BY <1>9 DEF Commit, own, seen
<1>11. Good(log)' /\ (~refused)'
  BY <1>2, <1>10 DEF Inv, Good
<1>12. EntriesFit'
  <2>1. ASSUME NEW i \in DOMAIN seen
        PROVE  seen[i].by \in done \cup {t}
    <3>1. CASE i \in 1 .. Len(log)
      BY <1>7, <1>8, <3>1 DEF Inv, EntriesFit, Recorded
    <3>2. CASE i \notin 1 .. Len(log)
      <4>1. i - Len(log) \in 1 .. Len(own) /\ Len(log) + (i - Len(log)) = i
        BY <1>7, <1>8, <3>2
      <4>2. own[i - Len(log)].by = t
        BY <1>4, <4>1
      <4>3. seen[Len(log) + (i - Len(log))] = own[i - Len(log)]
        BY <1>8, <4>1
      <4> QED
        BY <4>1, <4>2, <4>3
    <3> QED
      BY <3>1, <3>2
  <2>2. ASSUME NEW o \in done, o \notin Apart
        PROVE  \E i \in DOMAIN seen : o = seen[i].by
    <3>1. PICK i \in DOMAIN log : o = log[i].by
      BY <2>2 DEF Inv, EntriesFit, Recorded
    <3> QED
      BY <1>7, <1>8, <3>1
  <2>3. \E i \in DOMAIN seen : t = seen[i].by
    <3>1. 1 \in 1 .. Len(own)
      BY <1>7
    <3>2. own[1].by = t
      BY <1>4, <3>1 DEF own
    <3> QED
      BY <1>8, <3>1, <3>2
  <2> QED
    BY <1>10, <2>1, <2>2, <2>3 DEF EntriesFit, Recorded
<1>13. /\ tx' \in [Tx -> Transaction \cup {None}]
       /\ lock' \in Tx \cup {None}
       /\ OwnContinues' /\ EntriesToCome' /\ LockIsHeld'
  BY <1>1, <1>3, <1>5, <1>10, EndStep, Zenon DEF own
<1>14. TypeOK'
  BY <1>2, <1>6, <1>10, <1>13 DEF TypeOK
<1> QED
  BY <1>11, <1>12, <1>13, <1>14 DEF Inv

\* Reading changes nothing of the log.
LEMMA UnchangedStep ==
  ASSUME Inv, UNCHANGED <<log, tx, lock, done, refused>>
  PROVE  Inv'
<1>1. TypeOK' /\ Good(log)' /\ (~refused)' /\ EntriesFit'
  BY DEF Inv, TypeOK, Good, EntriesFit, Recorded
<1>2. OwnContinues'
  <2>1. OwnContinues /\ UNCHANGED log /\ UNCHANGED tx /\ UNCHANGED lock
    BY DEF Inv
  <2> QED
    BY <2>1 DEF OwnContinues
<1>3. EntriesToCome' /\ LockIsHeld'
  BY DEF Inv, EntriesToCome, LockIsHeld
<1> QED
  BY <1>1, <1>2, <1>3 DEF Inv

LEMMA NextInv ==
  ASSUME ConstantsOK, Inv, [Next]_auditVars
  PROVE  Inv'
<1>1. CASE UNCHANGED auditVars
  BY <1>1, UnchangedStep DEF auditVars
<1>2. CASE Page \/ PageAgain
  BY <1>2, UnchangedStep DEF Page, PageAgain
<1>3. ASSUME NEW t \in Tx,
             \E actor \in User, row \in User \cup {None}, entries \in 1 .. 2 :
               Len(log) < MaxLog /\ Begin(t, actor, row, entries)
      PROVE  Inv'
  BY <1>3, BeginStep
<1>4. ASSUME NEW t \in Tx,
             Change(t) \/ ChangeApart(t) \/ Chain(t) \/ Insert(t) \/ Commit(t) \/ Rollback(t)
      PROVE  Inv'
  BY <1>4, ChangeStep, ChainStep, InsertStep, CommitStep, RollbackStep
<1> QED
  BY <1>1, <1>2, <1>3, <1>4 DEF Next

\* The chain of the audit log holds at any time, whatever transactions overlap,
\* commit and roll back: the trigger audit_chain reads the last entry under the
\* lock that the transaction keeps until it ends.  No entry is of something
\* that was not done, and of what is done and recorded in one transaction none
\* is missing; a handler that commits first and records through the pool may
\* leave its own out.
THEOREM ChainNeverBreaks ==
  ASSUME ConstantsOK
  PROVE  Spec => [](TypeOK /\ ChainHolds)
<1>1. Init => Inv
  BY InitInv
<1>2. Inv /\ [Next]_auditVars => Inv'
  BY NextInv
<1>3. Inv => TypeOK /\ ChainHolds
  <2> SUFFICES ASSUME Inv
               PROVE  TypeOK /\ ChainHolds
    OBVIOUS
  <2>1. DOMAIN log = 1 .. Len(log)
    BY LengthIs DEF Inv, TypeOK
  <2>2. Broken = {}
    BY <2>1 DEF Inv, Good, Broken
  <2> QED
    BY <2>2 DEF Inv, ChainHolds, EntriesFit
<1> QED
  BY <1>1, <1>2, <1>3, PTL DEF Spec

\* Whoever has the lock of the chain waits for nobody, since an entry refers to
\* no row; who waits for the lock waits for nobody else, and who waits for a row
\* waits for somebody that no longer does.  So no circle closes, of any length.
THEOREM NoCircle ==
  ASSUME ConstantsOK
  PROVE  Spec => []NobodyWaitsInACircle
<1>1. Init => Inv
  BY InitInv
<1>2. Inv /\ [Next]_auditVars => Inv'
  BY NextInv
<1>3. Inv => NobodyWaitsInACircle
  <2> SUFFICES ASSUME Inv, NEW circle \in SUBSET Tx, circle # {}
               PROVE  \E t \in circle : Waits(t) \cap circle = {}
    BY DEF NobodyWaitsInACircle
  <2>1. CASE lock \in circle
    <3>1. lock # None /\ lock \in Tx
      BY <2>1 DEF ConstantsOK
    <3>2. tx[lock] # None /\ tx[lock].at # "begin"
      BY <3>1 DEF Inv, LockIsHeld
    <3>3. Waits(lock) = {}
      BY <3>2 DEF Waits, Is, Refers
    <3> QED
      BY <2>1, <3>3
  <2>2. ASSUME lock \notin circle, NEW t \in circle, tx[t] # None, tx[t].at # "begin"
        PROVE  Waits(t) \cap circle = {}
    <3>1. Waits(t) \subseteq {lock}
      BY <2>2 DEF Waits, Is, Refers
    <3> QED
      BY <2>2, <3>1
  <2>3. ASSUME \A t \in circle : tx[t] = None \/ tx[t].at = "begin", NEW t \in circle
        PROVE  Waits(t) \cap circle = {}
    <3>1. \A o \in Waits(t) : tx[o] # None /\ tx[o].at # "begin"
      BY <2>3 DEF Waits, Is, Locks
    <3> QED
      BY <2>3, <3>1
  <2> QED
    BY <2>1, <2>2, <2>3
<1> QED
  BY <1>1, <1>2, <1>3, PTL DEF Spec
=============================================================================
