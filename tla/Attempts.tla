------------------------------ MODULE Attempts ------------------------------
(***************************************************************************)
(* The limit on failed sign-ins: SignInLimiter in crates/server/src/       *)
(* auth.rs, used by the sign-ins of api/session.rs and by the forwarding   *)
(* to Kratos in api/accounts.rs.  Failures count per user name and per     *)
(* client address, in a window that the first of them opens.  A sign-in    *)
(* asks the limiter first and tells it of its failure when the directory   *)
(* or the database has answered: others may be let in meanwhile.           *)
(***************************************************************************)
EXTENDS Integers, FiniteSets, Sequences

CONSTANTS
    Slot,        \* sign-ins that can be under way at once
    Max,         \* max_failures of each limit: [user |-> ..., address |-> ...]
    Window,      \* the limiter's window
    MaxTime,     \* bound: the last moment
    MaxWrong,    \* bound: failures in a behaviour
    None

\* What the constants must be, as auth.rs has them: a limit lets at least
\* one failure through.
ConstantsOK ==
    /\ IsFiniteSet(Slot)
    /\ Max["user"] \in Nat \ {0} /\ Max["address"] \in Nat \ {0}
    /\ Window \in Nat /\ MaxTime \in Nat /\ MaxWrong \in Nat
    /\ None \notin {"directory", "break_glass", "kratos"}
    /\ None \notin [failures : 1..MaxWrong, since : 0..MaxTime]

VARIABLES
    now,
    windows,     \* [failures, since] of each limit, or None
    slot,        \* how a sign-in under way is tried, or None
    wrong        \* history: [at, open] of the failures of the address;
                 \* open: the first of its window

attemptVars == <<now, windows, slot, wrong>>

Limit == {"user", "address"}

\* A sign-in to Kratos is only counted against the address.
Ways == {"directory", "break_glass", "kratos"}

Keys(way) == IF way = "kratos" THEN {"address"} ELSE Limit

Init ==
    /\ now = 0
    /\ windows = [l \in Limit |-> None]
    /\ slot = [s \in Slot |-> None]
    /\ wrong = <<>>

Over(l) == windows[l] = None \/ now - windows[l].since >= Window

\* A fault: one failure too many is let in.
FullLate(l) == ~Over(l) /\ windows[l].failures > Max[l]

\* SignInLimiter::check, for one of the keys.
Full(l) == ~Over(l) /\ windows[l].failures >= Max[l]

Check(s, way) ==
    /\ slot[s] = None
    /\ \A l \in Keys(way) : ~Full(l)
    /\ slot' = [slot EXCEPT ![s] = way]
    /\ UNCHANGED <<now, windows, wrong>>

\* SignInLimiter::failed: a window that is over begins anew.
Counted(l) ==
    IF Over(l) THEN [failures |-> 1, since |-> now]
    ELSE [windows[l] EXCEPT !.failures = @ + 1]

\* A wrong password, a wrong code or a wrong answer of a key.
Failed(s) ==
    /\ slot[s] # None
    /\ Len(wrong) < MaxWrong
    /\ windows' = [l \in Limit |-> IF l \in Keys(slot[s]) THEN Counted(l) ELSE windows[l]]
    /\ wrong' = Append(wrong, [at |-> now, open |-> Over("address")])
    /\ slot' = [slot EXCEPT ![s] = None]
    /\ UNCHANGED now

\* A fault: a success clears the address too.
SucceededForAll(s) ==
    /\ slot[s] # None
    /\ windows' = [l \in Limit |-> IF l \in Keys(slot[s]) THEN None ELSE windows[l]]
    /\ slot' = [slot EXCEPT ![s] = None]
    /\ UNCHANGED <<now, wrong>>

\* SignInLimiter::succeeded clears the user's failures, not the address's;
\* Kratos' sign-ins clear nothing.
Succeeded(s) ==
    /\ slot[s] # None
    /\ windows' = IF slot[s] = "kratos" THEN windows ELSE [windows EXCEPT !["user"] = None]
    /\ slot' = [slot EXCEPT ![s] = None]
    /\ UNCHANGED <<now, wrong>>

\* The directory is away, or the right password still lacks its code:
\* nothing is counted and nothing is cleared.
Undecided(s) ==
    /\ slot[s] # None
    /\ slot' = [slot EXCEPT ![s] = None]
    /\ UNCHANGED <<now, windows, wrong>>

Tick ==
    /\ now < MaxTime
    /\ now' = now + 1
    /\ UNCHANGED <<windows, slot, wrong>>

Next ==
    \/ \E s \in Slot : \/ \E way \in Ways : Check(s, way)
                       \/ Failed(s) \/ Succeeded(s) \/ Undecided(s)
    \/ Tick

Spec == Init /\ [][Next]_attemptVars
-----------------------------------------------------------------------------
TypeOK ==
    /\ now \in 0..MaxTime
    /\ windows \in [Limit -> {None} \cup [failures : 1..MaxWrong, since : 0..MaxTime]]
    /\ slot \in [Slot -> {None} \cup Ways]
    /\ wrong \in Seq([at : 0..MaxTime, open : BOOLEAN])

\* From the failure that opens a window to the window's end, an address
\* fails at most as often as its limit says, and as often again as sign-ins
\* were let in while the last allowed one was under way; signing in with one
\* user's right password gives it no further guesses.
GuessesAreLimited ==
    \A i \in DOMAIN wrong :
        wrong[i].open =>
            Cardinality({j \in i..Len(wrong) : wrong[j].at < wrong[i].at + Window})
                <= Max["address"] - 1 + Cardinality(Slot)
=============================================================================
