------------------------------- MODULE MCLive -------------------------------
(***************************************************************************)
(* What is begun has to end, for TLC: the calls of the registry of         *)
(* connectors (a stream on two control sockets, R1; two checks on two, R2; *)
(* a stream and a check on one, R3), the browser service (B), one          *)
(* connection to a device (K) and requests that share the pool of database *)
(* connections (P).                                                        *)
(*                                                                         *)
(* A behaviour is about one of them, `part'; the others rest in Init.      *)
(***************************************************************************)
EXTENDS Naturals, Sequences

CONSTANTS s1, s2, k1, k2, a1, a2, x1, x2, c1, t1, t2, None

VARIABLES
    part,
    online, socket, queue, wire, back, asked, call, via, reply, far, on, carrying,
    client, pc, display, profile, xvnc, chromium, proxy, ready, page, typed,
    device, user, presents, site, conn, forwards, browsers, journal, log, missed, changes,
    doing, first, second, holder

R1 == INSTANCE Connectors WITH
        Socket <- {s1, s2}, Stream <- {k1}, Check <- {}, Capacity <- 1

R2 == INSTANCE Connectors WITH
        Socket <- {s1, s2}, Stream <- {}, Check <- {k1, k2}, Capacity <- 1

R3 == INSTANCE Connectors WITH
        Socket <- {s1}, Stream <- {k1}, Check <- {k2}, Capacity <- 1

B == INSTANCE BrowserService WITH Session <- {s1, s2}, Displays <- {1}

K == INSTANCE Connection WITH
        Conn <- {c1}, Address <- {a1, a2}, Key <- {x1, x2}, Signed <- {x2},
        Protocol <- {"ssh", "rdp", "https"}, Mode <- {"ask"}, MaxChanges <- 1

P == INSTANCE Pool WITH Task <- {t1, t2}, User <- {a1}, Size <- 2

ASSUME ConstantsFit == R1!ConstantsOK /\ R2!ConstantsOK /\ R3!ConstantsOK

rvars == <<online, socket, queue, wire, back, asked, call, via, reply, far, on, carrying>>
bvars == <<client, pc, display, profile, xvnc, chromium, proxy, ready, page, typed>>
kvars == <<device, user, presents, site, conn, forwards, browsers, journal, log, missed, changes>>
pvars == <<doing, first, second, holder>>
vars  == <<part, rvars, bvars, kvars, pvars>>

Init ==
    /\ part \in {"R1", "R2", "R3", "B", "K", "P"}
    /\ CASE part = "R2" -> R2!Init [] part = "R3" -> R3!Init [] OTHER -> R1!Init
    /\ B!Init /\ K!Init /\ P!Init
    /\ part # "K" =>
         /\ device.protocol = "ssh" /\ ~device.via /\ ~device.conf /\ device.addr = a1
         /\ ~user.states /\ presents[a1] = x1

OnlyR == UNCHANGED <<part, bvars, kvars, pvars>>
OnlyB == UNCHANGED <<part, rvars, kvars, pvars>>
OnlyK == UNCHANGED <<part, rvars, bvars, pvars>>
OnlyP == UNCHANGED <<part, rvars, bvars, kvars>>

Next ==
    \/ part = "R1" /\ R1!Next /\ OnlyR
    \/ part = "R2" /\ R2!Next /\ OnlyR
    \/ part = "R3" /\ R3!Next /\ OnlyR
    \/ part = "B" /\ B!Next /\ OnlyB
    \/ part = "K" /\ K!Next /\ OnlyK
    \/ part = "P" /\ P!Next /\ OnlyP

\* What is fair, as each part's module has it: the steps of the first and the
\* second socket, session or task by itself, ...
GoesOn(n) ==
    LET s == <<s1, s2>>[n]
        t == <<t1, t2>>[n]
    IN  \/ part = "R1" /\ R1!GoesOn(s) /\ OnlyR
        \/ part = "R2" /\ R2!GoesOn(s) /\ OnlyR
        \/ part = "R3" /\ n = 1 /\ R3!GoesOn(s) /\ OnlyR
        \/ part = "B" /\ B!Serve(s) /\ OnlyB
        \/ part = "K" /\ n = 1 /\ K!Step(c1) /\ OnlyK
        \/ part = "P" /\ (P!Own(t) \/ P!GiveUp(t)) /\ OnlyP

\* ... what it gets in turn, ...
InTurn(n) ==
    LET k == <<k1, k2>>[n]
    IN  \/ part = "R1" /\ n = 1 /\ R1!Send(k) /\ OnlyR
        \/ part = "R2" /\ R2!Send(k) /\ OnlyR
        \/ part = "R3" /\ R3!Send(k) /\ OnlyR
        \/ part = "P" /\ P!Upsert(<<t1, t2>>[n]) /\ OnlyP

\* ... and what a call does once it is sent, and a stream's upgrade.
Returns(n) ==
    LET k == <<k1, k2>>[n]
    IN  \/ part = "R1" /\ n = 1 /\ R1!Returns(k) /\ OnlyR
        \/ part = "R2" /\ R2!Returns(k) /\ OnlyR
        \/ part = "R3" /\ R3!Returns(k) /\ OnlyR

Upgrade ==
    \/ part = "R1" /\ R1!Upgrade(k1) /\ OnlyR
    \/ part = "R3" /\ R3!Upgrade(k1) /\ OnlyR

\* Only one part ever moves, so a disjunction is as fair as its members.
Fairness ==
    /\ \A n \in {1, 2} : WF_vars(GoesOn(n)) /\ SF_vars(InTurn(n)) /\ WF_vars(Returns(n))
    /\ WF_vars(Upgrade)

Spec == Init /\ [][Next]_vars /\ Fairness

-----------------------------------------------------------------------------
(* The page of connectors counts the streams that are carried, and a call   *)
(* that returned left no request behind; the pool is never overdrawn.       *)
CountsWhatItCarries ==
    /\ part = "R1" => R1!TypeOK /\ R1!NothingLeft /\ R1!CountsWhatItCarries
    /\ part = "R2" => R2!TypeOK
    /\ part = "R3" => R3!TypeOK /\ R3!NothingLeft /\ R3!CountsWhatItCarries
    /\ part = "P" => P!TypeOK

(* A connector goes offline only when its last control socket has ended.    *)
OnlyTheLastGoesOffline == R1!OnlyTheLastGoesOffline

(* What is begun and has to end.  A part's calls of one kind, its sockets,  *)
(* sessions and tasks are interchangeable, so what holds of one of them     *)
(* holds of each.                                                           *)
Begun ==
    CASE part \in {"R1", "R2", "R3"} -> R1!Pending(k1)
      [] part = "B" -> B!Over(s1)
      [] part = "K" -> K!Begun(c1)
      [] part = "P" -> doing[t1] # None

Ended ==
    CASE part \in {"R1", "R2", "R3"} -> R1!Returned(k1) \/ R1!Stalled(k1)
      [] part = "B" -> pc[s1] = "done"
      [] part = "K" -> K!Settled(c1)
      [] part = "P" -> doing[t1] = None

(* The older of two control sockets, and the check beside a stream.          *)
AlsoBegun ==
    CASE part \in {"R1", "R2"} -> socket[s1] = "up" /\ online # s1
      [] part = "R3" -> R3!Pending(k2)
      [] OTHER -> FALSE

AlsoEnded ==
    CASE part \in {"R1", "R2"} -> socket[s1] \in {"gone", "stalled"} \/ online = s1
      [] part = "R3" -> R3!Returned(k2) \/ R3!Stalled(k2)
      [] OTHER -> TRUE

=============================================================================
