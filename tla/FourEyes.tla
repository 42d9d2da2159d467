------------------------------- MODULE FourEyes ------------------------------
(***************************************************************************)
(* What remotehub promises of everything that takes two people, access     *)
(* asked for just in time and the recovery of a personal vault: one person *)
(* asks, another agrees, once and for good, and only then is it carried    *)
(* out.  AccessRequests and Recoveries implement it.                       *)
(***************************************************************************)
CONSTANTS Item, Person, Nobody

VARIABLES
    asker,      \* [Item -> who asked for it]
    second,     \* [Item -> who agreed]
    carried     \* the items that were carried out

eyesVars == <<asker, second, carried>>

Init ==
    /\ asker = [i \in Item |-> Nobody]
    /\ second = [i \in Item |-> Nobody]
    /\ carried = {}

Ask(i, p) ==
    /\ asker[i] = Nobody
    /\ asker' = [asker EXCEPT ![i] = p]
    /\ UNCHANGED <<second, carried>>

(* Someone else agrees; what they agree to may be carried out with it.      *)
Agree(i, p) ==
    /\ asker[i] \notin {Nobody, p} /\ second[i] = Nobody
    /\ second' = [second EXCEPT ![i] = p]
    /\ carried' \in {carried, carried \cup {i}}
    /\ UNCHANGED asker

CarryOut(i) ==
    /\ second[i] # Nobody
    /\ carried' = carried \cup {i}
    /\ UNCHANGED <<asker, second>>

Next ==
    \E i \in Item : CarryOut(i) \/ \E p \in Person : Ask(i, p) \/ Agree(i, p)

Spec == Init /\ [][Next]_eyesVars
=============================================================================
