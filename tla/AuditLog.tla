------------------------------ MODULE AuditLog -------------------------------
(***************************************************************************)
(* The audit log: audit.rs, api/audit.rs and the triggers of the migration *)
(* audit_log.  Most handlers change their rows and append an entry in one  *)
(* transaction; some commit their change and then append the entry through *)
(* the pool, in a transaction of its own.  The trigger numbers and chains  *)
(* it under an advisory lock that is held until the transaction ends.      *)
(*                                                                         *)
(* A hash stands for all it was computed from: the hash of an entry is the *)
(* sequence of the entries up to it.                                       *)
(***************************************************************************)
EXTENDS Naturals, Sequences, FiniteSets

CONSTANTS
    User,       \* rows of users: the actors, and what some actions change
    Tx,         \* handlers, with the transaction of each
    Apart,      \* those that record through the pool, after their change:
                \* block, unblock, end, recovery and delete of a user, the
                \* break-glass accounts, a connector's report
    Limit,      \* a page of the log
    MaxLog,     \* bound
    None

VARIABLES
    log,        \* audit_log, as committed: [by, seq, prev, hash]
    tx,         \* [at, actor, row: the user's row it locks, own: entries not yet
                \*  committed, more: how many entries are to come]
    lock,       \* who has the advisory lock
    done,       \* those whose changes are committed
    refused,    \* history: an entry was refused because its number was taken
    walk        \* somebody pages through the log: [before, shown, size]

auditVars == <<log, tx, lock, done, refused, walk>>

Genesis == <<>>
Digest(prev, by, seq) == Append(prev, <<by, seq>>)

Hash == Seq(Tx \X Nat)
Entry == [by : Tx, seq : Nat, prev : Hash, hash : Hash]
Transaction == [at : {"begin", "changed", "insert"}, actor : User, row : User \cup {None},
                own : Seq(Entry), more : 0 .. 2]

ConstantsOK == Apart \subseteq Tx /\ None \notin Tx \cup User \cup Transaction

NoWalk == [before |-> None, shown |-> <<>>, size |-> 0, ended |-> FALSE]

Init ==
    /\ log = <<>>
    /\ tx = [t \in Tx |-> None]
    /\ lock = None /\ done = {} /\ refused = FALSE
    /\ walk = NoWalk

Is(t, at) == tx[t] # None /\ tx[t].at = at
Goes(t, at) == tx' = [tx EXCEPT ![t].at = at]
Locks(t, u) == t \notin Apart /\ tx[t] # None /\ tx[t].row = u /\ tx[t].at # "begin"
RowFree(t, u) == \A o \in Tx \ {t} : ~Locks(o, u)

-----------------------------------------------------------------------------
(* A handler begins.  A sign-in changes its own user's row, and appends two *)
(* entries if it also enrols; a block changes another's; many change no     *)
(* user's row.                                                              *)
Begin(t, actor, row, entries) ==
    /\ tx[t] = None /\ t \notin done
    /\ t \in Apart => entries = 1
    /\ tx' = [tx EXCEPT ![t] = [at |-> "begin", actor |-> actor, row |-> row,
                                own |-> <<>>, more |-> entries]]
    /\ UNCHANGED <<log, lock, done, refused, walk>>

Change(t) ==
    /\ t \notin Apart /\ Is(t, "begin")
    /\ tx[t].row # None => RowFree(t, tx[t].row)
    /\ Goes(t, "changed")
    /\ UNCHANGED <<log, lock, done, refused, walk>>

(* The change is committed, and its row free, before the entry is recorded. *)
ChangeApart(t) ==
    /\ t \in Apart /\ Is(t, "begin")
    /\ tx[t].row # None => RowFree(t, tx[t].row)
    /\ Goes(t, "changed")
    /\ done' = done \cup {t}
    /\ UNCHANGED <<log, lock, refused, walk>>

Chained(t) ==
    LET seen == log \o tx[t].own
        prev == IF seen = <<>> THEN Genesis ELSE seen[Len(seen)].hash
        seq == IF seen = <<>> THEN 1 ELSE seen[Len(seen)].seq + 1
    IN  [by |-> t, seq |-> seq, prev |-> prev, hash |-> Digest(prev, t, seq)]

(* Fault: nobody waits for anybody.                                         *)
ChainUnlocked(t) ==
    /\ Is(t, "changed") /\ tx[t].more > 0
    /\ tx' = [tx EXCEPT ![t].at = "insert", ![t].own = Append(@, Chained(t))]
    /\ UNCHANGED <<log, lock, done, refused, walk>>

(* record, and the trigger audit_chain before the insert.  The SELECT after *)
(* the lock sees what was committed meanwhile, and the transaction's own.   *)
Chain(t) ==
    /\ Is(t, "changed") /\ tx[t].more > 0
    /\ lock \in {None, t}
    /\ lock' = t
    /\ tx' = [tx EXCEPT ![t].at = "insert", ![t].own = Append(@, Chained(t))]
    /\ UNCHANGED <<log, done, refused, walk>>

(* Fault: an entry refers to its actor, as it did at first.                 *)
RefersToActor(t) == {tx[t].actor}

(* The rows an entry refers to, which its insert has to lock: none.         *)
Refers(t) == {}

Insert(t) ==
    /\ Is(t, "insert")
    /\ \A u \in Refers(t) : RowFree(t, u)
    /\ tx' = [tx EXCEPT ![t].at = "changed", ![t].more = @ - 1]
    /\ UNCHANGED <<log, lock, done, refused, walk>>

Release(t) == lock' = IF lock = t THEN None ELSE lock

(* What the transaction did is committed together; seq is the primary key.  *)
Commit(t) ==
    /\ Is(t, "changed") /\ tx[t].more = 0
    /\ tx' = [tx EXCEPT ![t] = None]
    /\ Release(t)
    /\ IF \E i \in DOMAIN log, j \in DOMAIN tx[t].own : log[i].seq = tx[t].own[j].seq
       THEN refused' = TRUE /\ UNCHANGED <<log, done>>
       ELSE log' = log \o tx[t].own /\ done' = done \cup {t} /\ UNCHANGED refused
    /\ UNCHANGED walk

(* Any statement may fail, or the handler ends with an error; what it had   *)
(* committed stays.                                                         *)
Rollback(t) ==
    /\ tx[t] # None
    /\ tx' = [tx EXCEPT ![t] = None]
    /\ Release(t)
    /\ UNCHANGED <<log, done, refused, walk>>

-----------------------------------------------------------------------------
(* ORDER BY seq DESC.                                                       *)
NewestFirst == [i \in 1 .. Len(log) |-> log[Len(log) + 1 - i]]

(* Fault: the last entry of a page comes again with the next.               *)
ListAgain(before) ==
    LET older == SelectSeq(NewestFirst, LAMBDA e : before = None \/ e.seq <= before)
    IN  SubSeq(older, 1, IF Len(older) < Limit THEN Len(older) ELSE Limit)

(* list: the newest entries first, those older than before.                 *)
List(before) ==
    LET older == SelectSeq(NewestFirst, LAMBDA e : before = None \/ e.seq < before)
    IN  SubSeq(older, 1, IF Len(older) < Limit THEN Len(older) ELSE Limit)

(* Whoever reads the log asks for the next page with the last one's last    *)
(* number, until a page is not full.                                        *)
Page ==
    /\ ~walk.ended
    /\ \E page \in {List(walk.before)} :
         walk' = [before |-> IF page = <<>> THEN walk.before ELSE page[Len(page)].seq,
                  shown |-> walk.shown \o [i \in DOMAIN page |-> page[i].seq],
                  size |-> IF walk.before = None THEN Len(log) ELSE walk.size,
                  ended |-> Len(page) < Limit]
    /\ UNCHANGED <<log, tx, lock, done, refused>>

PageAgain ==
    /\ walk.ended
    /\ walk' = NoWalk
    /\ UNCHANGED <<log, tx, lock, done, refused>>

(* verify: the entries whose hash, link or number does not match.           *)
Broken ==
    {i \in DOMAIN log :
        \/ log[i].hash # Digest(log[i].prev, log[i].by, log[i].seq)
        \/ log[i].prev # IF i = 1 THEN Genesis ELSE log[i - 1].hash
        \/ log[i].seq # i}

Next ==
    \/ Page \/ PageAgain
    \/ \E t \in Tx :
         \/ \E actor \in User, row \in User \cup {None}, entries \in 1 .. 2 :
              Len(log) < MaxLog /\ Begin(t, actor, row, entries)
         \/ Change(t) \/ ChangeApart(t) \/ Chain(t) \/ Insert(t) \/ Commit(t) \/ Rollback(t)

Spec == Init /\ [][Next]_auditVars

-----------------------------------------------------------------------------
TypeOK ==
    /\ log \in Seq(Entry)
    /\ tx \in [Tx -> Transaction \cup {None}]
    /\ lock \in Tx \cup {None}
    /\ done \subseteq Tx /\ refused \in BOOLEAN

Recorded == {log[i].by : i \in DOMAIN log}

(* "The numbers follow the commit order and have no gaps": whatever         *)
(* overlaps and rolls back, a check of the chain finds nothing broken at    *)
(* any time, and nothing was refused because of the log.  There is no entry *)
(* of what was not done; and what passes "the transaction of the action     *)
(* itself, so both are committed together or not at all" has its entry when *)
(* it was done.  Only of what is recorded through the pool, after the       *)
(* change, may the entry be missing.                                        *)
ChainHolds ==
    /\ Broken = {} /\ ~refused
    /\ Recorded \subseteq done /\ done \subseteq Recorded \cup Apart

(* Somebody who pages through the log while entries are appended has seen,  *)
(* at the end, every entry there was when they began, and each once.        *)
PagesShowAll ==
    walk.ended => walk.shown = [i \in 1 .. walk.size |-> walk.size - i + 1]

(* Who waits for whom: for a user's row, or for the chain's lock.           *)
Waits(t) ==
    {o \in Tx \ {t} :
        \/ Is(t, "begin") /\ tx[t].row # None /\ Locks(o, tx[t].row)
        \/ Is(t, "changed") /\ tx[t].more > 0 /\ lock = o
        \/ Is(t, "insert") /\ \E u \in Refers(t) : Locks(o, u)}

(* Nobody waits in a circle: a sign-in that holds its user's row while it   *)
(* waits for the chain, and an entry of the same user that holds the chain, *)
(* once did.                                                                *)
NobodyWaitsInACircle ==
    \A circle \in (SUBSET Tx) \ {{}} : \E t \in circle : Waits(t) \cap circle = {}
=============================================================================
