--------------------------- MODULE MCAccessStore ---------------------------
(***************************************************************************)
(* AccessStore for TLC, and claims of comments and documents that the      *)
(* model refutes; README.md tells the steps.                               *)
(***************************************************************************)
EXTENDS AccessStore

\* A constraint: no two writers are saving at once, so that what TLC finds
\* does not come from the name the temporary files share.
Apart ==
  Cardinality({w \in Writer : todo[w] # <<>> /\ Head(todo[w])[1] \in {"write", "rename"}}) <= 1

\* A change "stores `access` for `scope`" (access.rs:353) and no other scope:
\* what is closed in access.json opens only while an operation that opens it
\* is under way.
OpensOnlyItsScope ==
  [][NeverHalfAFile /\ NeverHalfAFile' =>
       \A s \in Scope :
         ~is_open(disk["access"][s], now) /\ is_open(disk'["access"][s], now) =>
           \E w \in Writer : op[w].scope = s /\ op[w].end # Closed]_vars

\* After a change the web interface made, the Gate has it: "Reads the files
\* again after a change made here" (access.rs:584), so that closing ends
\* running connections at once (docs/adr/0011). Said of an instance without the
\* command line, whose changes the Gate has a second later.
ChangedHereIsInTheGate ==
  Cli = {} /\ (\A w \in Web : todo[w] = <<>>) => gate["access"] = disk["access"]

\* "Adds a device to the list, closed" (access.rs:468).
AddedIsClosed ==
  [][NeverHalfAFile /\ NeverHalfAFile' =>
       \A d \in disk'["list"].devices \ disk["list"].devices : disk["access"][d] = Closed]_vars

\* Expiry "closes what is open when its time runs out" (access.rs:595): what
\* it overwrites is not open any more.
ExpiryClosesWhatRanOut ==
  At(Follow, "rename", "access") => ~is_open(disk["access"][op[Follow].scope], now)
=============================================================================
