---------------------------- MODULE SecondFactor ----------------------------
(***************************************************************************)
(* The second factor of one directory user: crates/server/src/             *)
(* second_factor.rs, webauthn.rs and api/second_factor.rs, and the sign-in *)
(* of api/session.rs that asks for it.  The user may have an               *)
(* authenticator app, whose secret is sealed under a version, and security *)
(* keys.  A rule of the administrators may ask for a factor.               *)
(*                                                                         *)
(* Time counts in the steps of the codes (30 seconds).  A code is the      *)
(* secret it is made of and its step; a key's answer is the challenge it   *)
(* signed, the key and its counter.  The browser may send either as often  *)
(* as it likes, and when an app is set up it sends the secret, a new one   *)
(* or one that was there before.                                           *)
(*                                                                         *)
(* A sign-in updates the user's row first, so two sign-ins of one user     *)
(* follow each other from there to their end; the account page and the     *)
(* administrators take no such lock and come between.                      *)
(***************************************************************************)
EXTENDS Integers, FiniteSets, Sequences

CONSTANTS
    Slot,        \* requests that can be under way at once
    Key,         \* security keys
    Counting,    \* the keys among them that count their signatures
    Challenge,   \* bound: challenges the server hands out
    MaxTime,     \* bound: the last step of the clock
    Secret,      \* secrets an app can be set up with
    MaxVersion,  \* bound: how often an app is set up
    None

VARIABLES
    now,
    app,         \* second_factors: [version, last], or None
    sealed,      \* secret_fields: the secret of each version of the user's app
    keys,        \* security_keys: the counter of each, or None
    challenge,   \* webauthn_challenges: their purpose, "free" or "gone"
    answers,     \* what the keys signed: [challenge, key, counter]
    rule,        \* second_factor_principals names the user
    slot,        \* requests under way
    taken,       \* history: how often each code was accepted since its secret
                 \* was set up last
    answered,    \* history: how often each challenge's answer was accepted
    sessions     \* history: [factor, owed, had] of every session

factorVars == <<now, app, sealed, keys, challenge, answers, rule, slot,
                taken, answered, sessions>>

Codes == [secret : Secret, step : 0..(MaxTime + 1)]

Answers == [challenge : Challenge, key : Key, counter : 0..(1 + Cardinality(Challenge))]

\* A sign-in remembers whether a rule asked for the factor, and whether the
\* user had one, ever since its password was right.
SignIns == [at : {"asked", "enrolled", "bare"}, owed : BOOLEAN, had : BOOLEAN]

Removal == [at : {"removing"}, owed : {FALSE}, had : {FALSE}]

\* What the constants must be.
ConstantsOK ==
    /\ IsFiniteSet(Challenge)
    /\ MaxTime \in Nat \ {0} /\ MaxVersion \in Nat
    /\ None \notin 0..(1 + Cardinality(Challenge))
    /\ None \notin [version : 1..MaxVersion, last : 0..(MaxTime + 1)]
    /\ None \notin SignIns \cup Removal

Init ==
    /\ now = 1
    /\ app = None
    /\ sealed = <<>>
    /\ keys = [k \in Key |-> None]
    /\ challenge = [c \in Challenge |-> "free"]
    /\ answers = {}
    /\ rule = FALSE
    /\ slot = [s \in Slot |-> None]
    /\ taken = [c \in Codes |-> 0]
    /\ answered = [c \in Challenge |-> 0]
    /\ sessions = {}

OwnKeys == {k \in Key : keys[k] # None}

Enrolled == app # None \/ OwnKeys # {}

Plus1(n) == IF n = 2 THEN 2 ELSE n + 1
-----------------------------------------------------------------------------
(* Codes and answers *)

\* totp::step: the step of a code, a step of drift allowed each way.
InTime(code) == code.step \in (now - 1)..(now + 1)

\* A fault: the step is not compared with the last one used.
VerifiesAnyTime(code) ==
    /\ app # None
    /\ code.secret = sealed[app.version]
    /\ InTime(code)

Verifies(code) ==
    /\ app # None
    /\ code.secret = sealed[app.version]
    /\ InTime(code)
    /\ app.last < code.step

\* second_factor::verify takes the row FOR UPDATE: nothing comes between the
\* check and the step's moving on.
UseCode(code) ==
    /\ app' = [app EXCEPT !.last = code.step]
    /\ taken' = [taken EXCEPT ![code] = Plus1(@)]

\* second_factor::enroll takes the secret the browser sends.
Enrolls(code) ==
    /\ Len(sealed) < MaxVersion
    /\ InTime(code)

SetUp(code) ==
    /\ sealed' = Append(sealed, code.secret)
    /\ app' = [version |-> Len(sealed'), last |-> code.step]
    /\ taken' = [c \in Codes |-> IF c = code THEN 1
                                 ELSE IF c.secret = code.secret THEN 0 ELSE taken[c]]

\* webauthn::verify: keys without a counter always send 0; one that has one
\* must count up.
CountsUp(a) ==
    (a.counter # 0 \/ keys[a.key] # 0) => a.counter > keys[a.key]

\* A fault: a challenge is looked up and stays.
TakesForGood(c, purpose) ==
    /\ challenge[c] = purpose
    /\ UNCHANGED challenge

\* second_factor::take_challenge: one statement deletes it and returns it.
Takes(c, purpose) ==
    /\ challenge[c] = purpose
    /\ challenge' = [challenge EXCEPT ![c] = "gone"]

UseAnswer(a) ==
    /\ Takes(a.challenge, "sign_in")
    /\ keys[a.key] # None
    /\ CountsUp(a)
    /\ keys' = [keys EXCEPT ![a.key] = a.counter]
    /\ answered' = [answered EXCEPT ![a.challenge] = Plus1(@)]

\* second_factor::challenge: a fresh one; the expired ones go with it.
NewChallenge(purpose) ==
    \E c \in Challenge :
        /\ challenge[c] = "free"
        /\ challenge' = [challenge EXCEPT ![c] = purpose]
-----------------------------------------------------------------------------
(* Signing in (api/session.rs sign_in, second_factor::at_sign_in) *)

Free(s) == slot[s] = None

\* The row of the user, which a sign-in holds from its upsert to its end.
RowFree == {s \in Slot : ~Free(s) /\ slot[s].at \in {"enrolled", "bare"}} = {}

\* What the sign-ins under way can no longer be held to.
Forgiven(owed, had) ==
    [s \in Slot |-> IF Free(s) THEN None
                    ELSE [slot[s] EXCEPT !.owed = @ /\ owed, !.had = @ /\ had]]

Ends(s) == slot' = [slot EXCEPT ![s] = None]

SignsIn(s, factor) ==
    /\ Ends(s)
    /\ sessions' = sessions \cup {[factor |-> factor, owed |-> slot[s].owed,
                                   had |-> slot[s].had]}

\* The directory accepted the password.
Password(s) ==
    /\ Free(s)
    /\ slot' = [slot EXCEPT ![s] = [at |-> "asked", owed |-> rule, had |-> Enrolled]]
    /\ UNCHANGED <<now, app, sealed, keys, challenge, answers, rule, taken,
                   answered, sessions>>

\* The transaction begins and reads whether there is a factor.
Reads(s) ==
    /\ ~Free(s)
    /\ slot[s].at = "asked"
    /\ RowFree
    /\ slot' = [slot EXCEPT ![s].at = IF Enrolled THEN "enrolled" ELSE "bare"]
    /\ UNCHANGED <<now, app, sealed, keys, challenge, answers, rule, taken,
                   answered, sessions>>

ByCode(s, code) ==
    /\ Verifies(code)
    /\ UseCode(code)
    /\ SignsIn(s, TRUE)
    /\ UNCHANGED <<now, sealed, keys, challenge, answers, rule, answered>>

ByKey(s, a) ==
    /\ UseAnswer(a)
    /\ SignsIn(s, TRUE)
    /\ UNCHANGED <<now, app, sealed, answers, rule, taken>>

\* A wrong code or answer ends the sign-in.  The transaction is rolled back,
\* and with it the taking of the challenge.
Wrong(s) ==
    /\ Ends(s)
    /\ UNCHANGED <<now, app, sealed, keys, challenge, answers, rule, taken,
                   answered, sessions>>

\* Nothing was sent along: the client learns what is asked for, and gets a
\* challenge for its keys, outside the transaction.
Ask(s) ==
    /\ Ends(s)
    /\ IF OwnKeys # {} THEN NewChallenge("sign_in") ELSE UNCHANGED challenge
    /\ UNCHANGED <<now, app, sealed, keys, answers, rule, taken, answered, sessions>>

SecondStep(s) ==
    /\ ~Free(s)
    /\ slot[s].at = "enrolled"
    /\ \/ \E code \in Codes : ByCode(s, code)
       \/ \E a \in answers : ByKey(s, a)
       \/ Wrong(s)
       \/ Ask(s)

\* A fault: whoever has no factor passes, whatever the rules ask for.
WithoutFactorAnyway(s) ==
    /\ SignsIn(s, FALSE)
    /\ UNCHANGED <<now, app, sealed, keys, challenge, answers, rule, taken, answered>>

\* Without a factor: refused with an offer to set one up if a rule asks for
\* it, or signed in.
WithoutFactor(s) ==
    /\ IF rule
       THEN Ends(s) /\ UNCHANGED sessions
       ELSE SignsIn(s, FALSE)
    /\ UNCHANGED <<now, app, sealed, keys, challenge, answers, rule, taken, answered>>

BareStep(s) ==
    /\ ~Free(s)
    /\ slot[s].at = "bare"
    /\ \/ \E code \in Codes :
              /\ Enrolls(code)
              /\ SetUp(code)
              /\ SignsIn(s, TRUE)
              /\ UNCHANGED <<now, keys, challenge, answers, rule, answered>>
       \/ Wrong(s)
       \/ WithoutFactor(s)
-----------------------------------------------------------------------------
(* The account page (api/second_factor.rs) *)

Enroll ==
    /\ \E code \in Codes : Enrolls(code) /\ SetUp(code)
    /\ UNCHANGED <<now, keys, challenge, answers, rule, slot, answered, sessions>>

\* remove: whether the app may go is decided before the transaction ...
RemoveBegin(s) ==
    /\ Free(s)
    /\ ~(rule /\ OwnKeys = {})
    /\ slot' = [slot EXCEPT ![s] = [at |-> "removing", owed |-> FALSE, had |-> FALSE]]
    /\ UNCHANGED <<now, app, sealed, keys, challenge, answers, rule, taken,
                   answered, sessions>>

\* ... which checks the code and deletes it.
RemoveEnd(s) ==
    /\ ~Free(s)
    /\ slot[s].at = "removing"
    /\ \/ \E code \in Codes :
              /\ Verifies(code)
              /\ app' = None
              /\ taken' = [taken EXCEPT ![code] = Plus1(@)]
              /\ slot' = [Forgiven(TRUE, OwnKeys # {}) EXCEPT ![s] = None]
       \/ Ends(s) /\ UNCHANGED <<app, taken>>
    /\ UNCHANGED <<now, sealed, keys, challenge, answers, rule, answered, sessions>>

OfferKey ==
    /\ NewChallenge("register")
    /\ UNCHANGED <<now, app, sealed, keys, answers, rule, slot, taken, answered, sessions>>

\* A counting key starts at the signature it made when it was registered.
AddKey(c, k) ==
    /\ Takes(c, "register")
    /\ keys[k] = None
    /\ keys' = [keys EXCEPT ![k] = IF k \in Counting THEN 1 ELSE 0]
    /\ answered' = [answered EXCEPT ![c] = Plus1(@)]
    /\ UNCHANGED <<now, app, sealed, answers, rule, slot, taken, sessions>>

RemoveKey(k) ==
    /\ keys[k] # None
    /\ (app = None /\ OwnKeys = {k}) => ~rule
    /\ keys' = [keys EXCEPT ![k] = None]
    /\ slot' = Forgiven(TRUE, app # None \/ OwnKeys # {k})
    /\ UNCHANGED <<now, app, sealed, challenge, answers, rule, taken, answered, sessions>>
-----------------------------------------------------------------------------
(* The administrators *)

Reset ==
    /\ Enrolled
    /\ app' = None
    /\ keys' = [k \in Key |-> None]
    /\ slot' = Forgiven(TRUE, FALSE)
    /\ UNCHANGED <<now, sealed, challenge, answers, rule, taken, answered, sessions>>

Require ==
    /\ ~rule
    /\ rule' = TRUE
    /\ UNCHANGED <<now, app, sealed, keys, challenge, answers, slot, taken,
                   answered, sessions>>

Waive ==
    /\ rule
    /\ rule' = FALSE
    /\ slot' = Forgiven(FALSE, TRUE)
    /\ UNCHANGED <<now, app, sealed, keys, challenge, answers, taken, answered, sessions>>
-----------------------------------------------------------------------------
(* The rest of the world *)

\* External: a key signs a challenge it is given; a counting one counts the
\* signatures it made.
Sign(c, k) ==
    /\ challenge[c] = "sign_in"
    /\ \A a \in answers : ~(a.challenge = c /\ a.key = k)
    /\ answers' = answers \cup
           {[challenge |-> c, key |-> k,
             counter |-> IF k \in Counting
                         THEN 2 + Cardinality({a \in answers : a.key = k}) ELSE 0]}
    /\ UNCHANGED <<now, app, sealed, keys, challenge, rule, slot, taken, answered, sessions>>

Expire(c) ==
    /\ challenge[c] \in {"register", "sign_in"}
    /\ challenge' = [challenge EXCEPT ![c] = "gone"]
    /\ UNCHANGED <<now, app, sealed, keys, answers, rule, slot, taken, answered, sessions>>

Tick ==
    /\ now < MaxTime
    /\ now' = now + 1
    /\ UNCHANGED <<app, sealed, keys, challenge, answers, rule, slot, taken,
                   answered, sessions>>

Next ==
    \/ \E s \in Slot : \/ Password(s) \/ Reads(s) \/ SecondStep(s) \/ BareStep(s)
                       \/ RemoveBegin(s) \/ RemoveEnd(s)
    \/ Enroll \/ OfferKey \/ Reset \/ Require \/ Waive \/ Tick
    \/ \E c \in Challenge : Expire(c) \/ \E k \in Key : AddKey(c, k) \/ Sign(c, k)
    \/ \E k \in Key : RemoveKey(k)

Spec == Init /\ [][Next]_factorVars
-----------------------------------------------------------------------------
TypeOK ==
    /\ now \in 1..MaxTime
    /\ app \in {None} \cup [version : 1..Len(sealed), last : 0..(MaxTime + 1)]
    /\ sealed \in Seq(Secret) /\ Len(sealed) <= MaxVersion
    /\ keys \in [Key -> {None} \cup 0..(1 + Cardinality(Challenge))]
    /\ challenge \in [Challenge -> {"free", "register", "sign_in", "gone"}]
    /\ answers \subseteq Answers
    /\ rule \in BOOLEAN
    /\ slot \in [Slot -> {None} \cup SignIns \cup Removal]
    /\ taken \in [Codes -> 0..2]
    /\ answered \in [Challenge -> 0..2]
    /\ sessions \subseteq [factor : BOOLEAN, owed : BOOLEAN, had : BOOLEAN]

\* Each code of the app and each challenge of a key works once, however often
\* the browser sends it and wherever: at two sign-ins at once, at a sign-in
\* and on the account page, or after another app came and went in between.
\* A code counts anew only when its very secret is set up again, which
\* second_factor::enroll neither notices nor refuses.
WorksOnce ==
    /\ \A c \in Codes : taken[c] <= 1
    /\ \A c \in Challenge : answered[c] <= 1

\* Nobody signs in by the password alone who had a factor ever since the
\* password was right, or whom a rule asked for one ever since.
FactorIsAsked == \A x \in sessions : (x.owed \/ x.had) => x.factor
=============================================================================
