------------------------------ MODULE MCGuards ------------------------------
(***************************************************************************)
(* What stands between a sign-in and a session, for TLC: the second factor *)
(* with two sign-ins at once, with a security key that is registered and   *)
(* signs (F1) and with an app and a key (F3), and with an app that is set  *)
(* up anew, with the secret of before or another (F2); break-glass         *)
(* accounts (B), the sign-in limiter (A), the connector's web interface    *)
(* (U), and a session with a connection and a security key (S1), with two  *)
(* requests and a key (S2) and with two requests and a connection (S3).    *)
(* A behaviour is about one of them, `part'; the variables of the others   *)
(* are None.                                                               *)
(***************************************************************************)
EXTENDS Integers

CONSTANTS
    s1, s2, k1, c1, c2, h1, h2, t1, None, Ended

VARIABLES
    part,
    now, app, sealed, keys, challenge, answers, rule, slot, taken, answered, sessions,
    bNow, account, created, secrets, bSlot, bSessions, bTaken,
    aNow, windows, aSlot, wrong,
    uNow, user, given, attempts, uSessions, uSlot, uWrong, used,
    sNow, row, req, conn, lastStep, offered, asked, sTaken, sUsed, over, missed

OneSlot == {s1}
Slots == {s1, s2}
OneKey == {k1}
Nothing == {}
Limits == [user |-> 1, address |-> 2]
OneToken == {t1}
OneRequest == {h1}
Requests == {h1, h2}
OneOf == {c1}
Two == {c1, c2}

F1 == INSTANCE SecondFactor WITH
        Slot <- Slots, Key <- OneKey, Counting <- OneKey, Challenge <- Two, MaxTime <- 1,
        Secret <- Nothing, MaxVersion <- 0

F2 == INSTANCE SecondFactor WITH
        Slot <- OneSlot, Key <- Nothing, Counting <- Nothing, Challenge <- Nothing,
        MaxTime <- 2, Secret <- Slots, MaxVersion <- 3

F3 == INSTANCE SecondFactor WITH
        Slot <- Slots, Key <- OneKey, Counting <- Nothing, Challenge <- OneOf, MaxTime <- 1,
        Secret <- OneToken, MaxVersion <- 1

B == INSTANCE BreakGlass WITH
        Slot <- Slots, MaxTime <- 1, MaxId <- 1, MaxVersion <- 2,
        now <- bNow, slot <- bSlot, sessions <- bSessions, taken <- bTaken

A == INSTANCE Attempts WITH
        Slot <- Slots, Max <- Limits, Window <- 2, MaxTime <- 3, MaxWrong <- 5,
        now <- aNow, slot <- aSlot

U == INSTANCE ConnectorUi WITH
        Slot <- Slots, Token <- OneToken, Attempts <- 2, LockedFor <- 2, Idle <- 2,
        Longest <- 3, Checks <- 1, MaxTime <- 4, MaxWrong <- 4, MaxVersion <- 2,
        Gone <- Ended,
        now <- uNow, sessions <- uSessions, slot <- uSlot, wrong <- uWrong

S1 == INSTANCE Sessions WITH
        Session <- OneSlot, Request <- OneRequest, Conn <- OneOf, Challenge <- OneKey,
        Minute <- 2, Idle <- 4, Lifetime <- 5, MaxFailures <- 2, MaxTime <- 5,
        now <- sNow, taken <- sTaken, used <- sUsed

S2 == INSTANCE Sessions WITH
        Session <- OneSlot, Request <- Requests, Conn <- Nothing, Challenge <- OneKey,
        Minute <- 2, Idle <- 4, Lifetime <- 5, MaxFailures <- 2, MaxTime <- 6,
        now <- sNow, taken <- sTaken, used <- sUsed

S3 == INSTANCE Sessions WITH
        Session <- OneSlot, Request <- Requests, Conn <- OneOf, Challenge <- Nothing,
        Minute <- 2, Idle <- 4, Lifetime <- 5, MaxFailures <- 2, MaxTime <- 5,
        now <- sNow, taken <- sTaken, used <- sUsed

fvars == <<now, app, sealed, keys, challenge, answers, rule, slot, taken, answered, sessions>>
bvars == <<bNow, account, created, secrets, bSlot, bSessions, bTaken>>
avars == <<aNow, windows, aSlot, wrong>>
uvars == <<uNow, user, given, attempts, uSessions, uSlot, uWrong, used>>
svars == <<sNow, row, req, conn, lastStep, offered, asked, sTaken, sUsed, over, missed>>
vars == <<part, fvars, bvars, avars, uvars, svars>>

NoF ==
    /\ now = None /\ app = None /\ sealed = None /\ keys = None /\ challenge = None
    /\ answers = None /\ rule = None /\ slot = None /\ taken = None /\ answered = None
    /\ sessions = None
NoB ==
    /\ bNow = None /\ account = None /\ created = None /\ secrets = None /\ bSlot = None
    /\ bSessions = None /\ bTaken = None
NoA ==
    /\ aNow = None /\ windows = None /\ aSlot = None /\ wrong = None
NoU ==
    /\ uNow = None /\ user = None /\ given = None /\ attempts = None /\ uSessions = None
    /\ uSlot = None /\ uWrong = None /\ used = None
NoS ==
    /\ sNow = None /\ row = None /\ req = None /\ conn = None /\ lastStep = None
    /\ offered = None /\ asked = None /\ sTaken = None /\ sUsed = None /\ over = None
    /\ missed = None

Init ==
    \/ part = "F1" /\ F1!Init /\ NoB /\ NoA /\ NoU /\ NoS
    \/ part = "F2" /\ F2!Init /\ NoB /\ NoA /\ NoU /\ NoS
    \/ part = "F3" /\ F3!Init /\ NoB /\ NoA /\ NoU /\ NoS
    \/ part = "B" /\ B!Init /\ NoF /\ NoA /\ NoU /\ NoS
    \/ part = "A" /\ A!Init /\ NoF /\ NoB /\ NoU /\ NoS
    \/ part = "U" /\ U!Init /\ NoF /\ NoB /\ NoA /\ NoS
    \/ part = "S1" /\ S1!Init /\ NoF /\ NoB /\ NoA /\ NoU
    \/ part = "S2" /\ S2!Init /\ NoF /\ NoB /\ NoA /\ NoU
    \/ part = "S3" /\ S3!Init /\ NoF /\ NoB /\ NoA /\ NoU

Next ==
    \/ part = "F1" /\ F1!Next /\ UNCHANGED <<part, bvars, avars, uvars, svars>>
    \/ part = "F2" /\ F2!Next /\ UNCHANGED <<part, bvars, avars, uvars, svars>>
    \/ part = "F3" /\ F3!Next /\ UNCHANGED <<part, bvars, avars, uvars, svars>>
    \/ part = "B" /\ B!Next /\ UNCHANGED <<part, fvars, avars, uvars, svars>>
    \/ part = "A" /\ A!Next /\ UNCHANGED <<part, fvars, bvars, uvars, svars>>
    \/ part = "U" /\ U!Next /\ UNCHANGED <<part, fvars, bvars, avars, svars>>
    \/ part = "S1" /\ S1!Next /\ UNCHANGED <<part, fvars, bvars, avars, uvars>>
    \/ part = "S2" /\ S2!Next /\ UNCHANGED <<part, fvars, bvars, avars, uvars>>
    \/ part = "S3" /\ S3!Next /\ UNCHANGED <<part, fvars, bvars, avars, uvars>>

Spec == Init /\ [][Next]_vars

-----------------------------------------------------------------------------
(* A code, a key's answer and a challenge work once, whatever sign-ins are  *)
(* under way; and who has a factor, or must have one, gets no session       *)
(* without it.                                                              *)
WorksOnce ==
    /\ part = "F1" => F1!TypeOK /\ F1!WorksOnce /\ F1!FactorIsAsked
    /\ part = "F2" => F2!TypeOK /\ F2!WorksOnce /\ F2!FactorIsAsked
    /\ part = "F3" => F3!TypeOK /\ F3!WorksOnce /\ F3!FactorIsAsked
    /\ part = "B" => B!TypeOK /\ B!PresentCodeOnce

(* Wrong guesses are limited: at remotehub's sign-in, at the connector's    *)
(* web interface, and where a session asks for a confirmation.              *)
GuessesAreLimited ==
    /\ part = "A" => A!TypeOK /\ A!GuessesAreLimited
    /\ part = "U" => U!TypeOK /\ U!UiGuessesAreLimited
    /\ part = "S1" => S1!AnswersAreLimited
    /\ part = "S2" => S2!AnswersAreLimited

(* Sessions end when they must: a break-glass account's with its secrets,   *)
(* the web interface's with their time; a session locks on time, and the    *)
(* input of its connections ends with it.                                   *)
LocksOnTime ==
    /\ part = "B" => B!ChangedEndsSessions
    /\ part = "U" => U!UiSessionsRunOut
    /\ part = "S1" => S1!TypeOK /\ S1!LocksOnTime /\ S1!InputEndsWithSession
    /\ part = "S2" => S2!TypeOK /\ S2!LocksOnTime
    /\ part = "S3" => S3!TypeOK /\ S3!LocksOnTime /\ S3!InputEndsWithSession

(* "A locked one stays locked", whatever requests and input were under way, *)
(* until it is confirmed itself.                                            *)
LockedStaysLocked ==
    [][/\ part = "S1" => S1!LockedStaysLockedStep
       /\ part = "S2" => S2!LockedStaysLockedStep
       /\ part = "S3" => S3!LockedStaysLockedStep]_vars
=============================================================================
