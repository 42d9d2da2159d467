------------------------ MODULE MCCustomerRequests ------------------------
(* Instances of CustomerRequests for TLC.                                  *)
EXTENDS CustomerRequests, TLC

CONSTANTS r1, r2, o1, o2

\* Two requests for two objects, or twice for the same one.
EachItsOwn == r1 :> o1 @@ r2 :> o2
BothTheSame == r1 :> o1 @@ r2 :> o1
OnlyOne == r1 :> o1

-----------------------------------------------------------------------------
(* Claims of comments and documents that the model refutes; README.md      *)
(* tells the steps.                                                        *)

\* "Answers to requests it no longer lists have arrived" (requests.rs,
\* Requests::listed): refuted by a withdrawal during the approval.
DroppedHaveArrived ==
  [][\A i \in DOMAIN answers :
       answers[i] \notin Range(answers')
       => status[answers[i].id] \in {"approved", "refused"}]_vars

\* "A request waits a day, then counts as expired" (docs/adr/0013): refuted by
\* an answer to a request the connector listed before its day was over.
ExpiredStays ==
  [][\A r \in Request :
       r \in aged /\ status[r] = "pending" => status'[r] \notin {"approved", "refused"}]_vars

\* "Both sides record it" (docs/adr/0013): refuted by two users of the
\* connector who answer at once.
BothSidesAgree == \A r \in Request : status[r] = "refused" => r \notin opened

\* "The same request is already waiting for a decision" (ErrorCode
\* RequestPending): refuted by two calls of create at once.
OneWaiting ==
  \A q, r \in Request : Waiting(q) /\ Waiting(r) /\ Asks[q] = Asks[r] => q = r
=============================================================================
