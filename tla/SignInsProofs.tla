---------------------------- MODULE SignInsProofs ----------------------------
(***************************************************************************)
(* A block that was carried out leaves no session of the user but those of *)
(* requests that looked before it without the lock, for any number of      *)
(* sessions, sign-ins, extensions, administrators and refreshes under way. *)
(***************************************************************************)
EXTENDS SignIns, TLAPS

\* Whoever asks before they connect asks for a session of theirs.
AskedForOne == \A k \in Asker : ask[k] # Resting => ask[k].session \in Session

\* Only who does without the lock starts a session on a look before.
LookedUnlocked ==
  \A l \in Login : login[l] # Resting /\ login[l].at = "unblocked" => Unlocked(l)

\* The inductive invariant: a block that was carried out is still set.
Inv ==
  /\ TypeOK
  /\ AskedForOne
  /\ LookedUnlocked
  /\ shut => blocked
  /\ BlockEndsSessions

LEMMA InitInv == Init => Inv
<1> SUFFICES ASSUME Init PROVE Inv
  OBVIOUS
<1>1. 0 \in Groups /\ 0 \in 0 .. MaxChanges
  BY SignInsAssumption DEF Groups
<1>2. TypeOK
  BY <1>1, Zenon DEF Init, TypeOK
<1> QED
  BY <1>2 DEF Init, Inv, AskedForOne, Askers, LookedUnlocked, BlockEndsSessions

\* A session that is there.
LEMMA SessionRow ==
  ASSUME TypeOK, NEW s \in Session, There(s)
  PROVE  sess[s] \in Row
  BY DEF TypeOK, There

\* A sign-in that learned something.
LEMMA LoginRow ==
  ASSUME TypeOK, NEW l \in Login, login[l] # Resting
  PROVE  login[l] \in Knowing
  BY DEF TypeOK

\* A refresh that holds an answer.
LEMMA AskRow ==
  ASSUME TypeOK, NEW k \in Askers, ask[k].at = "apply"
  PROVE  /\ ask[k] \in [at : {"apply"}, answer : Answer, session : Session \cup {"all"}]
         /\ ask[k] # Resting /\ ask[k].answer \in Answer
         /\ ask[k].answer.says \in {"groups", "ended", "unavailable"}
         /\ ask[k].answer.says = "groups" => ask[k].answer.groups \in Groups
<1>1. Resting.at = "rest"
  BY DEF Resting
<1>2. ask[k] \in [at : {"apply"}, answer : Answer, session : Session \cup {"all"}]
  BY <1>1 DEF TypeOK
<1>3. ask[k].answer \in Answer
  BY <1>2
<1> QED
  BY <1>1, <1>2, <1>3 DEF Answer

-----------------------------------------------------------------------------
(* The steps: none but Start adds a session.                               *)

LEMMA AccountStep ==
  ASSUME Inv, NEW enabled \in BOOLEAN, NEW groups \in Groups, Change(enabled, groups)
  PROVE  Inv'
<1>1. home' \in [enabled : BOOLEAN, groups : Groups]
  BY DEF Change
<1>2. changes' \in 0 .. MaxChanges
  BY SignInsAssumption DEF Change, Inv, TypeOK
<1> QED
  BY <1>1, <1>2 DEF Change, blocks, Inv, TypeOK, AskedForOne, LookedUnlocked, Unlocked, BlockEndsSessions, There

LEMMA LoginStep ==
  ASSUME Inv, NEW l \in Login,
         \/ Authenticate(l) \/ LookAtBlock(l) \/ Refuse(l)
         \/ \E s \in Session : CreateCode(l, s)
  PROVE  Inv'
<1>1. \E x \in {Resting} \cup Knowing :
        /\ login' = [login EXCEPT ![l] = x]
        /\ x # Resting /\ x.at = "unblocked" =>
             kind = "break_glass" \/ x.client = "extension"
  <2>1. CASE Authenticate(l)
    <3> DEFINE x == [at |-> "known", groups |-> home.groups, client |-> "web"]
    <3>1. x \in Knowing /\ x.at # "unblocked"
      BY DEF Inv, TypeOK, Knowing, Client
    <3>2. login' = [login EXCEPT ![l] = x]
      BY <2>1 DEF Authenticate
    <3> HIDE DEF x
    <3> QED
      BY <3>1, <3>2
  <2>2. CASE LookAtBlock(l)
    <3>1. login[l] \in Knowing /\ Unlocked(l)
      BY <2>2, LoginRow DEF LookAtBlock, Inv
    <3> DEFINE x == [login[l] EXCEPT !.at = "unblocked"]
    <3>2. x \in Knowing /\ x.client = login[l].client
      BY <3>1 DEF Knowing
    <3>3. login' = [login EXCEPT ![l] = IF blocked THEN Resting ELSE x]
      BY <2>2 DEF LookAtBlock
    <3>4. kind = "break_glass" \/ x.client = "extension"
      BY <3>1, <3>2 DEF Unlocked
    <3> HIDE DEF x
    <3>5. CASE blocked
      BY <3>3, <3>5
    <3>6. CASE ~blocked
      BY <3>2, <3>3, <3>4, <3>6
    <3> QED
      BY <3>5, <3>6
  <2>3. CASE Refuse(l)
    BY <2>3 DEF Refuse
  <2>4. ASSUME NEW s \in Session, CreateCode(l, s)
        PROVE  \E x \in Knowing : x.at = "known" /\ login' = [login EXCEPT ![l] = x]
    <3> DEFINE x == [at |-> "known", groups |-> sess[s].groups, client |-> "extension"]
    <3>1. sess[s] \in Row
      BY <2>4, SessionRow DEF CreateCode, Inv
    <3>2. x \in Knowing /\ x.at = "known"
      BY <3>1 DEF Row, Knowing, Client
    <3>3. login' = [login EXCEPT ![l] = x]
      BY <2>4 DEF CreateCode
    <3> HIDE DEF x
    <3> QED
      BY <3>2, <3>3
  <2> QED
    BY <2>1, <2>2, <2>3, <2>4
<1>2. UNCHANGED <<kind, home, changes, blocked, shut, sess, admin, ask>>
  BY DEF Authenticate, LookAtBlock, Refuse, CreateCode, blocks
<1>3. PICK x \in {Resting} \cup Knowing :
        /\ login' = [login EXCEPT ![l] = x]
        /\ x # Resting /\ x.at = "unblocked" =>
             kind = "break_glass" \/ x.client = "extension"
  BY <1>1
<1>4. TypeOK'
  BY <1>2, <1>3 DEF Inv, TypeOK
<1>5. LookedUnlocked'
  BY <1>2, <1>3 DEF Inv, TypeOK, LookedUnlocked, Unlocked
<1> QED
  BY <1>2, <1>4, <1>5 DEF Inv, AskedForOne, BlockEndsSessions, There

LEMMA StartStep ==
  ASSUME Inv, NEW l \in Login, NEW s \in Session, Start(l, s)
  PROVE  Inv'
<1> DEFINE row == [groups |-> login[l].groups, due |-> FALSE, client |-> login[l].client,
                   late |-> blocked /\ login[l].at = "unblocked"]
<1>1. login[l] \in Knowing /\ login[l] # Resting /\ kind' = kind /\ blocked' = blocked /\ shut' = shut
  BY LoginRow DEF Start, MayStart, Inv, blocks
<1>2. row \in Row
  BY <1>1 DEF Row, Knowing
<1>3. sess' = [sess EXCEPT ![s] = row] /\ login' = [login EXCEPT ![l] = Resting]
  BY DEF Start
<1>4. shut => row.late /\ (kind = "break_glass" \/ row.client = "extension")
  <2> SUFFICES ASSUME shut
               PROVE  row.late /\ (kind = "break_glass" \/ row.client = "extension")
    OBVIOUS
  <2>1. blocked /\ login[l].at = "unblocked"
    BY DEF Start, MayStart, Inv
  <2>2. Unlocked(l)
    BY <1>1, <2>1 DEF Inv, LookedUnlocked
  <2> QED
    BY <2>1, <2>2 DEF Unlocked
<1> HIDE DEF row
<1>5. UNCHANGED <<home, changes, admin, ask>>
  BY DEF Start
<1>6. TypeOK'
  BY <1>1, <1>2, <1>3, <1>5 DEF Inv, TypeOK
<1>7. LookedUnlocked'
  BY <1>1, <1>3 DEF Inv, TypeOK, LookedUnlocked, Unlocked
<1>8. BlockEndsSessions'
  BY <1>1, <1>3, <1>4 DEF Inv, TypeOK, BlockEndsSessions, There
<1> QED
  BY <1>1, <1>5, <1>6, <1>7, <1>8 DEF Inv, AskedForOne

\* A step that starts no session and changes none but its groups and its due,
\* and what a block says does not grow, keeps what is said of sessions.
LEMMA SessionsKept ==
  ASSUME BlockEndsSessions, shut' => shut, kind' = kind,
         \A s \in Session : There(s)' =>
           There(s) /\ sess'[s].late = sess[s].late /\ sess'[s].client = sess[s].client
  PROVE  BlockEndsSessions'
  BY DEF BlockEndsSessions, There

LEMMA SessionStep ==
  ASSUME Inv, NEW s \in Session, Leave(s) \/ Age(s)
  PROVE  Inv'
<1>1. sess[s] \in Row
  BY SessionRow DEF Leave, Age, Inv
<1> DEFINE row == [sess[s] EXCEPT !.due = TRUE]
<1>2. row \in Row /\ row.late = sess[s].late /\ row.client = sess[s].client
  BY <1>1 DEF Row
<1>3. sess' = [sess EXCEPT ![s] = Gone] \/ sess' = [sess EXCEPT ![s] = row]
  BY DEF Leave, Age
<1> HIDE DEF row
<1>4. /\ UNCHANGED <<kind, home, changes, blocked, shut, login, admin, ask>>
      /\ There(s)
  BY DEF Leave, Age, blocks
<1>5. TypeOK'
  BY <1>2, <1>3, <1>4 DEF Inv, TypeOK
<1>6. ASSUME NEW q \in Session, There(q)'
      PROVE  There(q) /\ sess'[q].late = sess[q].late /\ sess'[q].client = sess[q].client
  <2>1. CASE q # s
    BY <1>3, <1>6, <2>1 DEF Inv, TypeOK, There
  <2>2. CASE q = s
    BY <1>2, <1>3, <1>4, <1>6, <2>2 DEF Inv, TypeOK, There
  <2> QED
    BY <2>1, <2>2
<1>7. BlockEndsSessions'
  BY <1>4, <1>6, SessionsKept DEF Inv
<1> QED
  BY <1>4, <1>5, <1>7 DEF Inv, AskedForOne, LookedUnlocked, Unlocked

LEMMA AdminStep ==
  ASSUME Inv, NEW a \in Admin,
         \/ Block(a) \/ SetBlocked(a) \/ EndSessions(a)
         \/ Unblock(a) \/ ClearBlocked(a) \/ AdminFails(a)
  PROVE  Inv'
<1> USE DEF Inv
<1>1. UNCHANGED <<kind, changes, login, ask>>
  BY DEF Block, SetBlocked, EndSessions, Unblock, ClearBlocked, AdminFails, blocks
<1>2. home' \in [enabled : BOOLEAN, groups : Groups]
  <2>1. \A b \in BOOLEAN : [home EXCEPT !.enabled = b] \in [enabled : BOOLEAN, groups : Groups]
    BY DEF TypeOK
  <2> QED
    BY <2>1, Zenon DEF TypeOK, Block, SetBlocked, EndSessions, Unblock, ClearBlocked, AdminFails
<1>3. admin' \in [Admin -> {"rest", "block", "end", "unblock"}]
  BY DEF TypeOK, Block, SetBlocked, EndSessions, Unblock, ClearBlocked, AdminFails
<1>4. CASE EndSessions(a)
  <2>1. sess' = AllGone /\ shut' \in {blocked, shut} /\ blocked' = blocked
    BY <1>4 DEF EndSessions
  <2>2. \A s \in Session : ~There(s)'
    BY <2>1 DEF AllGone, There
  <2>3. sess' \in [Session -> {NotYet, Gone} \cup Row]
    BY <2>1 DEF AllGone, TypeOK
  <2> QED
    <3>1. shut' \in BOOLEAN /\ blocked' \in BOOLEAN /\ (shut' => blocked')
      <4>1. shut \in BOOLEAN /\ blocked \in BOOLEAN /\ (shut => blocked)
        BY DEF TypeOK
      <4>2. CASE shut' = blocked /\ blocked' = blocked
        BY <4>1, <4>2
      <4>3. CASE shut' = shut /\ blocked' = blocked
        BY <4>1, <4>3
      <4> QED
        BY <2>1, <4>2, <4>3
    <3>2. TypeOK'
      BY <1>1, <1>2, <1>3, <2>3, <3>1 DEF TypeOK
    <3>3. AskedForOne' /\ BlockEndsSessions'
      BY <1>1, <2>2 DEF AskedForOne, BlockEndsSessions, There
    <3> QED
      BY <1>1, <3>1, <3>2, <3>3 DEF LookedUnlocked, Unlocked
<1>5. CASE ~EndSessions(a)
  <2>1. /\ sess' = sess
        /\ \/ UNCHANGED <<blocked, shut>>
           \/ blocked' = TRUE /\ shut' = shut
           \/ blocked' = FALSE /\ shut' = FALSE
    BY <1>5 DEF Block, SetBlocked, Unblock, ClearBlocked, AdminFails, blocks
  <2> QED
    <3>1. /\ shut' \in BOOLEAN /\ blocked' \in BOOLEAN /\ (shut' => blocked')
          /\ shut' => shut
      <4>1. shut \in BOOLEAN /\ blocked \in BOOLEAN /\ (shut => blocked)
        BY DEF TypeOK
      <4>2. CASE UNCHANGED <<blocked, shut>>
        BY <4>1, <4>2
      <4>3. CASE blocked' = TRUE /\ shut' = shut
        BY <4>1, <4>3
      <4>4. CASE blocked' = FALSE /\ shut' = FALSE
        BY <4>4, Zenon
      <4> QED
        BY <2>1, <4>2, <4>3, <4>4, Zenon
    <3>2. TypeOK'
      BY <1>1, <1>2, <1>3, <2>1, <3>1 DEF TypeOK
    <3>3. AskedForOne' /\ BlockEndsSessions'
      BY <1>1, <2>1, <3>1 DEF AskedForOne, BlockEndsSessions, There
    <3> QED
      BY <1>1, <3>1, <3>2, <3>3 DEF LookedUnlocked, Unlocked
<1> QED
  BY <1>4, <1>5

\* Asking only.
LEMMA AskStep ==
  ASSUME Inv, NEW answer \in Answer,
         AskDue(answer) \/ \E k \in Asker, s \in Session : AskFirst(k, s, answer)
  PROVE  Inv'
<1> USE DEF Inv
<1> DEFINE Rows == [at : {"apply"}, answer : Answer, session : Session \cup {"all"}]
<1>1. UNCHANGED <<kind, home, changes, blocked, shut, sess, login, admin>>
  BY DEF AskDue, AskFirst, blocks
<1>2. CASE AskDue(answer)
  <2> DEFINE row == [at |-> "apply", answer |-> answer, session |-> "all"]
  <2>1. row \in Rows
    OBVIOUS
  <2>2. ask' = [ask EXCEPT !["due"] = row]
    BY <1>2 DEF AskDue
  <2> HIDE DEF row
  <2>3. TypeOK'
    BY <1>1, <2>1, <2>2, Zenon DEF TypeOK
  <2>4. \A k \in Asker : k \in Askers /\ k # "due"
    BY SignInsAssumption DEF Askers
  <2>5. AskedForOne'
    BY <2>2, <2>4 DEF AskedForOne, TypeOK
  <2> QED
    BY <1>1, <2>3, <2>5 DEF LookedUnlocked, Unlocked, BlockEndsSessions, There
<1>3. ASSUME NEW k \in Asker, NEW s \in Session, AskFirst(k, s, answer)
      PROVE  Inv'
  <2> DEFINE row == [at |-> "apply", answer |-> answer, session |-> s]
  <2>1. row \in Rows /\ row.session = s
    OBVIOUS
  <2>2. ask' = [ask EXCEPT ![k] = row]
    BY <1>3 DEF AskFirst
  <2> HIDE DEF row
  <2>3. TypeOK'
    BY <1>1, <2>1, <2>2, Zenon DEF TypeOK
  <2>4. AskedForOne'
    BY <2>1, <2>2 DEF AskedForOne, TypeOK, Askers
  <2> QED
    BY <1>1, <2>3, <2>4 DEF LookedUnlocked, Unlocked, BlockEndsSessions, There
<1> QED
  BY <1>2, <1>3

\* An answer changes or ends sessions, and starts none.
LEMMA ApplyStep ==
  ASSUME Inv, NEW k \in Askers, Apply(k)
  PROVE  Inv'
<1> USE DEF Inv
<1> DEFINE answer == ask[k].answer
           Sessions == [Session -> {NotYet, Gone} \cup Row]
<1>1. /\ ask[k] \in [at : {"apply"}, answer : Answer, session : Session \cup {"all"}]
      /\ ask[k] # Resting
      /\ answer.says \in {"groups", "ended", "unavailable"}
      /\ answer.says = "groups" => answer.groups \in Groups
  BY AskRow DEF Apply
<1>2. UNCHANGED <<kind, home, changes, blocked, shut, login, admin>>
  BY DEF Apply, blocks
<1>3. \/ sess' = WithGroups(answer.groups) /\ answer.groups \in Groups
      \/ sess' = AllGone \/ sess' = sess
  BY <1>1 DEF Apply
<1>4. sess' \in Sessions
  <2>1. ASSUME answer.groups \in Groups
        PROVE  WithGroups(answer.groups) \in Sessions
    <3>1. ASSUME NEW s \in Session, There(s)
          PROVE  [sess[s] EXCEPT !.groups = answer.groups, !.due = FALSE] \in Row
      BY <2>1, <3>1, SessionRow DEF Row
    <3> QED
      BY <3>1 DEF WithGroups, TypeOK
  <2>2. AllGone \in Sessions /\ sess \in Sessions
    BY DEF AllGone, TypeOK
  <2> QED
    BY <1>3, <2>1, <2>2
<1>5. ASSUME NEW s \in Session, There(s)'
      PROVE  There(s) /\ sess'[s].late = sess[s].late /\ sess'[s].client = sess[s].client
  <2>1. CASE sess' = WithGroups(answer.groups)
    <3>1. There(s) /\ sess'[s] = [sess[s] EXCEPT !.groups = answer.groups, !.due = FALSE]
      BY <1>5, <2>1 DEF WithGroups, There
    <3>2. sess[s] \in Row
      BY <3>1, SessionRow
    <3> QED
      BY <3>1, <3>2 DEF Row
  <2>2. CASE sess' = AllGone \/ sess' = sess
    BY <1>5, <2>2 DEF AllGone, There
  <2> QED
    BY <1>3, <2>1, <2>2
<1>6. ask' = [ask EXCEPT ![k] = AfterAnswer(k, answer)]
  BY DEF Apply
<1>7. \/ AfterAnswer(k, answer) = Resting
      \/ /\ k \in Asker /\ ask[k].session \in Session
         /\ AfterAnswer(k, answer) = [ask[k] EXCEPT !.at = "reload"]
  BY <1>1 DEF AfterAnswer, Askers, AskedForOne
<1>8. ask[k].session \in Session =>
        /\ [ask[k] EXCEPT !.at = "reload"] \in [at : {"reload"}, answer : Answer, session : Session]
        /\ [ask[k] EXCEPT !.at = "reload"].session = ask[k].session
  BY <1>1
<1>9. TypeOK' /\ AskedForOne'
  <2> HIDE DEF Sessions
  <2>1. CASE AfterAnswer(k, answer) = Resting
    BY <1>2, <1>4, <1>6, <2>1 DEF TypeOK, AskedForOne, Askers, Sessions
  <2>2. CASE AfterAnswer(k, answer) # Resting
    <3> DEFINE row == [ask[k] EXCEPT !.at = "reload"]
    <3>1. /\ row \in [at : {"reload"}, answer : Answer, session : Session]
          /\ row.session \in Session /\ ask' = [ask EXCEPT ![k] = row]
      BY <1>6, <1>7, <1>8, <2>2, Zenon
    <3> HIDE DEF row
    <3> QED
      BY <1>2, <1>4, <3>1 DEF TypeOK, AskedForOne, Askers, Sessions
  <2> QED
    BY <2>1, <2>2
<1>10. BlockEndsSessions'
  BY <1>2, <1>5, SessionsKept
<1> QED
  BY <1>2, <1>9, <1>10 DEF LookedUnlocked, Unlocked

LEMMA ReloadStep ==
  ASSUME Inv, NEW k \in Asker, Reload(k)
  PROVE  Inv'
  BY DEF Inv, Reload, blocks, TypeOK, AskedForOne, Askers, LookedUnlocked, Unlocked, BlockEndsSessions, There

LEMMA InvStep ==
  ASSUME Inv, [Next]_vars
  PROVE  Inv'
<1>1. CASE UNCHANGED vars
  BY <1>1 DEF vars, blocks, Inv, TypeOK, AskedForOne, LookedUnlocked, Unlocked, BlockEndsSessions, There
<1> QED
  BY <1>1, AccountStep, LoginStep, StartStep, SessionStep, AdminStep, AskStep, ApplyStep, ReloadStep
     DEF Next

\* users::block sets users.blocked_at before it ends the sessions, and a
\* sign-in starts its session under the lock of the row it found unblocked:
\* whatever was under way, a block that was carried out leaves no session of
\* a directory or local account until it is lifted, but one of an extension
\* whose code extension::token found unblocked before the block; of a
\* break-glass account only one that began likewise.
THEOREM BlockLeavesNone == Spec => []BlockHolds
<1>1. Inv => BlockHolds
  BY DEF Inv, BlockHolds
<1>2. Inv /\ [Next]_vars => Inv'
  BY InvStep
<1> QED
  BY <1>1, <1>2, InitInv, PTL DEF Spec
=============================================================================
