------------------------------- MODULE MCSites ------------------------------
(***************************************************************************)
(* Between browsers, remotehub and devices, for TLC: connections (K), the  *)
(* browser service (B), the relay of guacd's instructions from the browser *)
(* (G1) and to it (G2), the browser extension with two versions of an      *)
(* entry (E1) and with two requests at once (E2), and two requests to the  *)
(* customer for the same thing (Q).                                        *)
(* A behaviour is about one of them, `part'; the variables of the others   *)
(* are None.                                                               *)
(***************************************************************************)
EXTENDS Naturals, Sequences, TLC

CONSTANTS
    c1, c2, a1, a2, x1, x2, s1, s2, k1, t1, t2, r1, r2, o1, None, Gone

VARIABLES
    part,
    device, user, presents, site, conn, forwards, browsers, journal, log, missed, changes,
    client, pc, display, profile, xvnc, chromium, proxy, ready, page, typed,
    sent, wire, buffer, locked, read, forwarded, frames, ended,
    now, blocked, reveals, codes, tokens, entry, slot, audit, answered, tries, opened, pairs,
    status, order, asking, aged, pushed, listed, answers, received, ui, qOpened, given, reporting,
    flight, restarts

\* guacd's instructions: input, another one, one that is never passed on;
\* and values with the characters that make up the protocol.
Opcodes == ("k" :> "input") @@ ("s" :> "other") @@ ("" :> "barred")
Values == {<<>>, <<"<", ">">>, <<";", "1", ".">>}

\* Entries' addresses and pages: a site without a scheme and another host of
\* its domain; a device's name without a domain.
Login == [scheme |-> "https", host |-> "login.a", port |-> 443]
Urls1 == {[scheme |-> None, host |-> "portal.a", port |-> None],
          [scheme |-> "http", host |-> "box", port |-> None]}
Origins1 == {Login, [scheme |-> "http", host |-> "box", port |-> 80]}
Domain == [h \in {"portal.a", "login.a", "box"} |-> IF h = "box" THEN None ELSE "a"]

SameThing == r1 :> o1 @@ r2 :> o1

Conns == {c1, c2}
Addresses == {a1, a2}
Keys == {x1, x2}
Protocols == {"ssh", "rdp", "https"}
Modes == {"ask"}
Slots == {s1, s2}
OneDisplay == {1}
FromBrowser == [browser |-> 2, guacd |-> 0]
FromGuacd == [browser |-> 0, guacd |-> 2]
OneCode == {k1}
OneToken == {t1}
Tokens == {t1, t2}
OneUrl == {Login}
OneSlot == {s1}
Requests == {r1, r2}
OneUser == {"u1"}

K == INSTANCE Connection WITH
        Conn <- Conns, Address <- Addresses, Key <- Keys, Signed <- {x2},
        Protocol <- Protocols, Mode <- Modes, MaxChanges <- 1

B == INSTANCE BrowserService WITH
        Session <- Slots, Displays <- OneDisplay

G1 == INSTANCE Relay WITH
        Opcode <- Opcodes, Value <- Values, MaxSent <- FromBrowser, MaxBytes <- 8

G2 == INSTANCE Relay WITH
        Opcode <- Opcodes, Value <- Values, MaxSent <- FromGuacd, MaxBytes <- 8

E1 == INSTANCE Extension WITH
        Code <- OneCode, Token <- OneToken, Urls <- Urls1, Origins <- Origins1,
        Registrable <- Domain, Slot <- OneSlot, CodeLife <- 1, Idle <- 1, MaxTime <- 1,
        MaxVersion <- 2

E2 == INSTANCE Extension WITH
        Code <- OneCode, Token <- Tokens, Urls <- OneUrl, Origins <- OneUrl,
        Registrable <- Domain, Slot <- Slots, CodeLife <- 1, Idle <- 1, MaxTime <- 1,
        MaxVersion <- 1

Q == INSTANCE CustomerRequests WITH
        Request <- Requests, Asks <- SameThing, User <- OneUser, MaxRequests <- 1,
        MaxLate <- 1, MaxRestarts <- 0,
        opened <- qOpened

kvars == <<device, user, presents, site, conn, forwards, browsers, journal, log, missed, changes>>
bvars == <<client, pc, display, profile, xvnc, chromium, proxy, ready, page, typed>>
gvars == <<sent, wire, buffer, locked, read, forwarded, frames, ended>>
evars == <<now, blocked, reveals, codes, tokens, entry, slot, audit, answered, tries,
           opened, pairs>>
qvars == <<status, order, asking, aged, pushed, listed, answers, received, ui, qOpened, given,
           reporting, flight, restarts>>
vars == <<part, kvars, bvars, gvars, evars, qvars>>

NoK ==
    /\ device = None /\ user = None /\ presents = None /\ site = None /\ conn = None
    /\ forwards = None /\ browsers = None /\ journal = None /\ log = None /\ missed = None
    /\ changes = None
NoB ==
    /\ client = None /\ pc = None /\ display = None /\ profile = None /\ xvnc = None
    /\ chromium = None /\ proxy = None /\ ready = None /\ page = None /\ typed = None
NoG ==
    /\ sent = None /\ wire = None /\ buffer = None /\ locked = None /\ read = None
    /\ forwarded = None /\ frames = None /\ ended = None
NoE ==
    /\ now = None /\ blocked = None /\ reveals = None /\ codes = None /\ tokens = None
    /\ entry = None /\ slot = None /\ audit = None /\ answered = None /\ tries = None
    /\ opened = None /\ pairs = None
NoQ ==
    /\ status = None /\ order = None /\ asking = None /\ aged = None /\ pushed = None
    /\ listed = None /\ answers = None /\ received = None /\ ui = None /\ qOpened = None
    /\ given = None
    /\ reporting = None /\ flight = None /\ restarts = None

\* The two addresses differ in nothing, so the device begins at the first; one
\* that asks for a confirmation asks for a purpose too.
FirstDevice == device.addr = a1 /\ user.states = device.conf

Init ==
    \/ part = "K" /\ K!Init /\ FirstDevice /\ NoB /\ NoG /\ NoE /\ NoQ
    \/ part = "B" /\ B!Init /\ NoK /\ NoG /\ NoE /\ NoQ
    \/ part = "G1" /\ G1!Init /\ NoK /\ NoB /\ NoE /\ NoQ
    \/ part = "G2" /\ G2!Init /\ NoK /\ NoB /\ NoE /\ NoQ
    \/ part = "E1" /\ E1!Init /\ NoK /\ NoB /\ NoG /\ NoQ
    \/ part = "E2" /\ E2!Init /\ NoK /\ NoB /\ NoG /\ NoQ
    \/ part = "Q" /\ Q!Init /\ NoK /\ NoB /\ NoG /\ NoE

\* Nor do two connections, or two requests: the first begins first.
FirstConnects == conn'[c2] # conn[c2] => conn[c1].pc # "none"
FirstAsks == order' # <<r2>>

Next ==
    \/ part = "K" /\ K!Next /\ FirstConnects /\ UNCHANGED <<part, bvars, gvars, evars, qvars>>
    \/ part = "B" /\ B!Next /\ UNCHANGED <<part, kvars, gvars, evars, qvars>>
    \/ part = "G1" /\ G1!Next /\ UNCHANGED <<part, kvars, bvars, evars, qvars>>
    \/ part = "G2" /\ G2!Next /\ UNCHANGED <<part, kvars, bvars, evars, qvars>>
    \/ part = "E1" /\ E1!Next /\ UNCHANGED <<part, kvars, bvars, gvars, qvars>>
    \/ part = "E2" /\ E2!Next /\ UNCHANGED <<part, kvars, bvars, gvars, qvars>>
    \/ part = "Q" /\ Q!Next /\ FirstAsks /\ UNCHANGED <<part, kvars, bvars, gvars, evars>>

Spec == Init /\ [][Next]_vars

-----------------------------------------------------------------------------
(* Every connection that passed the checks is on record, once, with its     *)
(* end; what was refused left no trace; no forward or browser outlives its  *)
(* connection.                                                              *)
TrailIsComplete == part = "K" => K!TypeOK /\ K!TrailIsComplete

(* What a connection's engine talks to is what was pinned when it began or  *)
(* what it saw itself, and of first connections one pins: no connection     *)
(* replaces a pin.                                                          *)
TalksToThePinned == [][part = "K" => K!TalksToThePinned' /\ K!FirstOnePinsStep]_vars

(* Browsers for two admins share nothing, leave nothing behind, and type    *)
(* the password into the device's own pages alone.                          *)
DisplaysApart == part = "B" => B!TypeOK /\ B!DisplaysApart /\ B!PasswordStaysOnDevice

(* The relay reads what was sent, however it was cut into frames, passes on *)
(* whole instructions alone, and no input of a locked session.              *)
ReadsWhatWasSent ==
    /\ part = "G1" => G1!TypeOK /\ G1!ReadsWhatWasSent /\ G1!FramesAreWhole
    /\ part = "G2" => G2!TypeOK /\ G2!ReadsWhatWasSent /\ G2!FramesAreWhole

(* The extension's code is traded once, what is handed out is in the audit  *)
(* log before, and what is filled belongs to the page.                      *)
HandedOutIsAudited ==
    /\ part = "E1" => E1!TypeOK /\ E1!CodeTradedOnce /\ E1!HandedOutIsAudited /\ E1!FilledBelongs
    /\ part = "E2" => E2!TypeOK /\ E2!CodeTradedOnce /\ E2!HandedOutIsAudited /\ E2!FilledBelongs

(* Two requests of remotehub's users to the customer for the same thing:    *)
(* the first answer counts, only what the connector opened is approved, and *)
(* the customer is asked once for each.                                     *)
AskedOnce ==
    [][part = "Q" => /\ Q!ApprovedWasOpened' /\ Q!ReceivedOnce'
                     /\ Q!DecidedStaysStep /\ Q!AskedOnceStep /\ Q!AnswerKeptStep]_vars
=============================================================================
