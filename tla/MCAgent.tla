------------------------------ MODULE MCAgent ------------------------------
(* Agent on a small instance.                                              *)
EXTENDS Agent

\* Two devices of the list, each its own target.
Devices == [d1 |-> {"t1"}, d2 |-> {"t2"}]

OneGoal == [c \in {"c1"} |-> "t1"]
=============================================================================
