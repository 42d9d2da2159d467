------------------------------ MODULE MCSignIns ------------------------------
(***************************************************************************)
(* SignIns on a small instance, and two claims it refutes.                 *)
(***************************************************************************)
EXTENDS SignIns

(* Refuted (README.md tells the steps): a connection is authorized with the *)
(* groups its own question to the directory brought.                        *)
AnswerOfNow ==
    [][\A k \in Asker :
         LET s == ask[k].session IN
         (ask[k].at = "reload" /\ ask'[k] = Resting /\ There(s) /\ ~blocked
            /\ ask[k].answer.says = "groups")
           => sess[s].groups = ask[k].answer.groups]_vars

(* Refuted (README.md tells the steps): a block leaves no session of a      *)
(* break-glass account and none of an extension either.                     *)
BlockEndsEverySession == shut => ~Any
=============================================================================
