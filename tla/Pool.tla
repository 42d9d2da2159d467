-------------------------------- MODULE Pool --------------------------------
(***************************************************************************)
(* The pool of database connections, db.rs, and the two handlers that want *)
(* a second connection while their transaction holds one: a confirmation   *)
(* with a break-glass account's code (api/confirm.rs, break_glass.rs), and *)
(* a sign-in that hands out a challenge for a security key                 *)
(* (api/session.rs, second_factor.rs), which holds the user's row as well. *)
(*                                                                         *)
(* Nobody but the pool's own timeout sees who waits for whom then: neither *)
(* PostgreSQL, which knows of the row, nor the pool, which knows of the    *)
(* connections.                                                            *)
(***************************************************************************)
EXTENDS Naturals, FiniteSets

CONSTANTS
    Task,           \* requests under way at once
    User,           \* directory users who sign in
    Size,           \* max_connections
    None

VARIABLES
    doing,          \* None or [kind, user, at, left]
    first,          \* who holds the connection of its statement or transaction
    second,         \* who holds another one beside it
    holder          \* users: whose transaction holds each row

poolVars == <<doing, first, second, holder>>

Init ==
    /\ doing = [t \in Task |-> None]
    /\ first = {} /\ second = {}
    /\ holder = [u \in User |-> None]

Is(t, kind, at) == doing[t] # None /\ doing[t].kind = kind /\ doing[t].at = at

Goes(t, at) == doing' = [doing EXCEPT ![t].at = at]

(* Statements of verify_code and code_matches, one after the other.         *)
Statements == 3

Request(kind, user) == [kind |-> kind, user |-> user, at |-> "waits", left |-> Statements]

Begin(t, kind, u) ==
    /\ doing[t] = None
    /\ doing' = [doing EXCEPT ![t] = Request(kind, IF kind = "sign_in" THEN u ELSE None)]
    /\ UNCHANGED <<first, second, holder>>

(* Commit, rollback or drop: connections and rows are free.                 *)
Leave(t) ==
    /\ doing' = [doing EXCEPT ![t] = None]
    /\ first' = first \ {t} /\ second' = second \ {t}
    /\ holder' = [u \in User |-> IF holder[u] = t THEN None ELSE holder[u]]

Free == Cardinality(first) + Cardinality(second) < Size

Waits(t) == doing[t] # None /\ doing[t].at \in {"waits", "waits again"}

Take(t) ==
    /\ Waits(t) /\ Free
    /\ IF t \in first THEN second' = second \cup {t} /\ UNCHANGED first
       ELSE first' = first \cup {t} /\ UNCHANGED second
    /\ Goes(t, IF t \in first THEN "has both" ELSE "has one")
    /\ UNCHANGED holder

(* Fault: only who holds nothing gives up.                                  *)
GiveUpFirst(t) == Waits(t) /\ t \notin first /\ Leave(t)

(* acquire_timeout: an error, and the transaction goes with the handler.    *)
GiveUp(t) == Waits(t) /\ Leave(t)

(* A statement or a transaction on one connection.                          *)
Plain(t) == Is(t, "plain", "has one") /\ Leave(t)
-----------------------------------------------------------------------------
(* confirm: the transaction is open, and the code is checked beside it.     *)
Check(t) ==
    /\ Is(t, "confirm", "has one") /\ doing[t].left > 0
    /\ Goes(t, "waits again")
    /\ UNCHANGED <<first, second, holder>>

Checked(t) ==
    /\ Is(t, "confirm", "has both")
    /\ doing' = [doing EXCEPT ![t].at = "has one", ![t].left = @ - 1]
    /\ second' = second \ {t}
    /\ UNCHANGED <<first, holder>>

(* Without an account or for a wrong code the check ends sooner; the rest   *)
(* is the transaction's own.                                                *)
Confirm(t) ==
    /\ Is(t, "confirm", "has one") /\ doing[t].left < Statements
    /\ Leave(t)
-----------------------------------------------------------------------------
(* sign_in: the user's row first, which another sign-in may hold.           *)
Upsert(t) ==
    /\ Is(t, "sign_in", "has one") /\ holder[doing[t].user] = None
    /\ holder' = [holder EXCEPT ![doing[t].user] = t]
    /\ Goes(t, "has row")
    /\ UNCHANGED <<first, second>>

(* Nothing, a code or a key's answer is to be checked in the transaction;   *)
(* or the user has keys and sent no answer yet.                             *)
Finish(t) == Is(t, "sign_in", "has row") /\ Leave(t)

AskForKey(t) ==
    /\ Is(t, "sign_in", "has row")
    /\ Goes(t, "waits again")
    /\ UNCHANGED <<first, second, holder>>


(* challenge: "No foreign key on the user ... the key's check would wait    *)
(* for that transaction forever."  Then the transaction is dropped.         *)
Challenge(t) == Is(t, "sign_in", "has both") /\ Leave(t)

(* The browser goes away, and the handler is dropped where it waits.        *)
Gone(t) == doing[t] # None /\ Leave(t)

Own(t) ==
    \/ Plain(t) \/ Check(t) \/ Checked(t) \/ Confirm(t)
    \/ Finish(t) \/ AskForKey(t) \/ Challenge(t)

Next ==
    \E t \in Task :
        \/ \E kind \in {"plain", "confirm", "sign_in"}, u \in User : Begin(t, kind, u)
        \/ Take(t) \/ GiveUp(t) \/ Own(t) \/ Upsert(t) \/ Gone(t)

(* A handler that can go on does; five seconds pass; and who waits for a    *)
(* row gets it in turn.  Nothing is assumed of the order in which the pool  *)
(* hands out connections.                                                   *)
Fairness ==
    \A t \in Task : WF_poolVars(Own(t) \/ GiveUp(t)) /\ SF_poolVars(Upsert(t))
-----------------------------------------------------------------------------
TypeOK ==
    /\ first \subseteq Task /\ second \subseteq first
    /\ Cardinality(first) + Cardinality(second) <= Size
    /\ \A u \in User : holder[u] \in Task \cup {None}

(* Every request ends, with an answer or an error, however few connections  *)
(* there are: those who hold one and want another, and those who hold one   *)
(* and wait for a row, do not wait for each other for ever.                 *)
RequestEnds == \A t \in Task : doing[t] # None ~> doing[t] = None
=============================================================================
