----------------------------- MODULE Connection -----------------------------
(***************************************************************************)
(* Connections to one device, from the browser's handshake to the end of   *)
(* the relay: api/terminal.rs for SSH, api/display.rs for RDP, VNC and web *)
(* interfaces, api/connect.rs for what they share, and the engines of the  *)
(* gateway crate.                                                          *)
(*                                                                         *)
(* A connection works with the device as the handshake read it.  Meanwhile *)
(* the device is changed, its pin reset, another first connection pins it, *)
(* the machine is reinstalled, the customer's site closes or the server is *)
(* restarted.                                                              *)
(***************************************************************************)
EXTENDS Naturals, Sequences

CONSTANTS
    Conn,           \* connections
    Address, Key,   \* addresses, and the host keys or certificates there
    Signed,         \* the certificates an authority signed that Chromium trusts
    Protocol, Mode, \* the device's protocols and sign-in modes of the instance
    MaxChanges,     \* bound: changes of the surroundings
    None

VARIABLES
    device,     \* the row: protocol, mode, via (a connector), conf, addr, pin
    user,       \* connect: the role; confirmed: in the last minute;
                \* states: must state a purpose
    presents,   \* [Address -> the key the machine there presents]
    site,       \* the connector: "open", "shut" (open for others), "closed", "offline"
    conn,       \* [Conn -> how far it is]
    forwards,   \* the forwards through the connector: <<connection, for>>
    browsers,   \* connections with a browser at the browser service
    journal,    \* [Conn -> its entry in the device's journal]
    log,        \* [Conn -> its entries in the audit log]
    missed,     \* history: the writes of the two that failed, <<connection, what>>
    changes

place == <<device, user, presents, site>>
env  == <<place, changes>>
held == <<forwards, browsers>>
kept == <<journal, log, missed>>
connectionVars == <<env, conn, held, kept>>

Stages == {"none", "waiting", "probe", "probing", "route", "browser", "open", "pin",
           "opened", "live", "closing", "done", "lost"}

Target == [protocol : Protocol, mode : Mode, via : BOOLEAN, conf : BOOLEAN,
           addr : Address, pin : Key \cup {None}]

(* None is no device, no key and no state of the journal.                   *)
ConstantsOK ==
    MaxChanges \in Nat /\ Signed \subseteq Key /\ None \notin Target \cup Key \cup {"open", "ended"}

New == [pc |-> "none", target |-> None, confirmed |-> FALSE, seen |-> None,
        link |-> None, begun |-> FALSE]

TypeOK ==
    /\ device \in Target /\ presents \in [Address -> Key]
    /\ \A c \in Conn :
         /\ conn[c].pc \in Stages
         /\ conn[c].pc # "none" /\ conn[c].pc # "lost" => conn[c].target \in Target
         /\ {conn[c].seen, conn[c].link} \subseteq Key \cup {None}
         /\ journal[c] \in {None, "open", "ended"}
    /\ forwards \subseteq Conn \X {"probe", "route"} /\ browsers \subseteq Conn
    /\ missed \subseteq Conn \X {"failed", "opened", "entry", "end", "closed"}
    /\ changes \in 0 .. MaxChanges

Init ==
    /\ device \in {t \in Target : t.pin = None}
    /\ user \in [connect : {TRUE}, confirmed : {TRUE}, states : BOOLEAN]
    /\ \E k \in Key : presents = [a \in Address |-> k]
    /\ site = "open" /\ changes = 0
    /\ conn = [c \in Conn |-> New]
    /\ forwards = {} /\ browsers = {}
    /\ journal = [c \in Conn |-> None] /\ log = [c \in Conn |-> <<>>]
    /\ missed = {}

Is(c, stage) == conn[c].pc = stage
Go(c, stage) == conn' = [conn EXCEPT ![c].pc = stage]
Of(c) == conn[c].target
Shows(c) == Of(c) # None /\ Of(c).protocol # "ssh"
HasCertificate(c) == Of(c) # None /\ Of(c).protocol \in {"rdp", "https"}

DropForwards(c, uses) == forwards' = {f \in forwards : f[1] # c \/ f[2] \notin uses}

-----------------------------------------------------------------------------
(* target(): the role, and the device as it is now.                         *)
MayConnect == user.connect

(* terminal and display, up to the upgrade of the socket.                   *)
Handshake(c) ==
    /\ Is(c, "none") /\ MayConnect
    /\ conn' = [conn EXCEPT ![c] = [New EXCEPT !.pc = "waiting", !.target = device,
                                               !.confirmed = user.confirmed]]
    /\ UNCHANGED <<env, held, kept>>

(* own_account(): the password kept with the session, if it still opens.    *)
OwnAccount == {"password", "none"}

(* certificate(): issued by the certificate authority for five minutes,     *)
(* where one is set up.                                                     *)
Certificate == {"key", "none"}

(* credentials(): the device's own or the profile's, what was entered, or   *)
(* the password the directory keeps; none where there is none.              *)
Credentials(t, given) ==
    CASE t.mode = "ask"  -> {IF given THEN "password" ELSE "none"}
      [] t.mode = "laps" -> {"password", "none"}
      [] OTHER           -> {"password", "key", "none"}

Stated(purpose) == user.states => purpose

(* Nothing reaches the device before the confirmation, the purpose and the  *)
(* login.                                                                   *)
Starts(c, purpose, logins, stage) ==
    /\ Is(c, "waiting")
    /\ Of(c).conf => conn[c].confirmed
    /\ Stated(purpose)
    /\ logins \ {"none"} # {}
    /\ conn' = [conn EXCEPT ![c].begun = TRUE, ![c].pc = stage]
    /\ UNCHANGED <<env, held, kept>>

StartTerminal(c, purpose, given) ==
    /\ ~Shows(c)
    /\ Starts(c, purpose,
              CASE Of(c).mode = "own"         -> OwnAccount
                [] Of(c).mode = "certificate" -> Certificate
                [] OTHER                      -> Credentials(Of(c), given), "route")

(* A display takes passwords only.                                          *)
StartDisplay(c, purpose, given) ==
    /\ Shows(c)
    /\ Starts(c, purpose,
              (IF Of(c).mode = "own" THEN OwnAccount ELSE Credentials(Of(c), given)) \ {"key"},
              IF HasCertificate(c) THEN "probe" ELSE "route")

(* No first message in two minutes, another one, or one of the refusals.    *)
Refuse(c) == Is(c, "waiting") /\ Go(c, "done") /\ UNCHANGED <<env, held, kept>>

Change == changes < MaxChanges /\ changes' = changes + 1

(* Writes to the audit log and the journal go through the pool, and an      *)
(* error of either is passed over: those of `lost' fail.                    *)
Misses(c, lost) ==
    /\ missed' = missed \cup ({c} \X lost)
    /\ IF lost = {} THEN UNCHANGED changes ELSE Change

Record(c, what, lost) ==
    log' = IF what \in lost THEN log ELSE [log EXCEPT ![c] = Append(@, what)]

(* Fault: the route of a connection that fails stays.                       *)
FailHolding(c) ==
    /\ Go(c, "done")
    /\ \E lost \in SUBSET {"failed"} : Misses(c, lost) /\ Record(c, "failed", lost)
    /\ UNCHANGED <<place, forwards, browsers, journal>>

(* fail(): the audit log learns of it; the route and the browser are        *)
(* dropped with the function.                                               *)
Fail(c) ==
    /\ Go(c, "done")
    /\ \E lost \in SUBSET {"failed"} : Misses(c, lost) /\ Record(c, "failed", lost)
    /\ DropForwards(c, {"probe", "route"}) /\ browsers' = browsers \ {c}
    /\ UNCHANGED <<place, journal>>

(* route(): an offline or closed connector refuses; one open for some       *)
(* devices is asked, and without its answer the connector decides later.    *)
Ways(t) ==
    CASE ~t.via                          -> {"direct"}
      [] site \in {"offline", "closed"}  -> {"none"}
      [] OTHER                           -> {"forward", "none"}

TakeRoute(c, use, next) ==
    /\ Is(c, use)
    /\ \E way \in Ways(Of(c)) :
         \/ way = "none" /\ Fail(c)
         \/ /\ way # "none" /\ Go(c, next)
            /\ forwards' = IF way = "forward" THEN forwards \cup {<<c, use>>} ELSE forwards
            /\ UNCHANGED <<env, browsers, kept>>

(* The connector's own gate decides whether a stream reaches the device.    *)
Reaches(t) == t.via => site = "open"

Presented(c) == presents[Of(c).addr]

(* Fault: a certificate other than the pinned one passes.                   *)
AcceptsAny(c) == TRUE

(* Trust on first use: the pinned one, or any where nothing is pinned.      *)
Accepts(c) == Of(c).pin \in {None, Presented(c)}

(* rdp::certificate_fingerprint and tls::https_certificate: connect, shake  *)
(* hands and leave.                                                         *)
Probed(c) ==
    /\ Reaches(Of(c))
    /\ conn' = [conn EXCEPT ![c].seen = Presented(c), ![c].pc = "route"]

Probe(c) ==
    \/ Fail(c)
    \/ /\ Accepts(c) /\ Probed(c)
       /\ DropForwards(c, {"probe"})
       /\ UNCHANGED <<env, browsers, kept>>

OpenBrowser(c) ==
    \/ Fail(c)
    \/ /\ browsers' = browsers \cup {c} /\ Go(c, "open")
       /\ UNCHANGED <<env, forwards, kept>>

(* check_server_key: before anything is sent.                               *)
CheckServerKey(c) == Accepts(c)

(* ssh::open: connect, check the key, sign in, ask for a shell.             *)
ShellOpens(c) ==
    /\ Reaches(Of(c))
    /\ CheckServerKey(c)
    /\ conn' = [conn EXCEPT ![c].seen = Presented(c), ![c].link = Presented(c),
                            ![c].pc = IF Of(c).pin = None THEN "pin" ELSE "opened"]

OpenShell(c) == Fail(c) \/ (ShellOpens(c) /\ UNCHANGED <<env, held, kept>>)

(* guacamole::open: guacd is ready before it has connected to the device.   *)
EngineReady(c) == Go(c, "opened")

OpenDisplay(c) == Fail(c) \/ (EngineReady(c) /\ UNCHANGED <<env, held, kept>>)

(* guacd accepts the certificate that was probed and no other.  Chromium    *)
(* is told to overlook what is wrong with that one                          *)
(* (--ignore-certificate-errors-spki-list), and takes any other with which  *)
(* nothing is wrong.                                                        *)
Takes(c, k) == k = conn[c].seen \/ (Of(c).protocol = "https" /\ k \in Signed)

EngineConnects(c) ==
    /\ conn[c].pc \in {"opened", "pin", "live"} /\ HasCertificate(c) /\ conn[c].link = None
    /\ Reaches(Of(c)) /\ Takes(c, Presented(c))
    /\ conn' = [conn EXCEPT ![c].link = Presented(c)]
    /\ UNCHANGED <<env, held, kept>>

(* Fault: whatever is pinned is replaced.                                   *)
PinnedAnyway(c) ==
    /\ device' = [device EXCEPT !.pin = conn[c].seen]
    /\ UNCHANGED <<user, presents, site, changes, held, kept>>

(* UPDATE ... WHERE nothing is pinned; one that fails is passed over.       *)
Pinned(c) ==
    /\ \/ device.pin = None /\ device' = [device EXCEPT !.pin = conn[c].seen]
       \/ UNCHANGED device
    /\ UNCHANGED <<user, presents, site, changes, held, kept>>

PinHostKey(c) == Is(c, "pin") /\ ~Shows(c) /\ Pinned(c) /\ Go(c, "opened")
PinCertificate(c) == Is(c, "pin") /\ Shows(c) /\ Pinned(c) /\ Go(c, "live")

(* The audit entry, then the journal's.  A terminal has pinned before this, *)
(* a display pins after it.                                                 *)
Opened(c, next) ==
    /\ Is(c, "opened") /\ Go(c, next)
    /\ \E lost \in SUBSET {"opened", "entry"} :
         /\ Misses(c, lost) /\ Record(c, "opened", lost)
         /\ journal' = IF "entry" \in lost THEN journal ELSE [journal EXCEPT ![c] = "open"]
    /\ UNCHANGED <<place, held>>

TerminalOpened(c) == ~Shows(c) /\ Opened(c, "live")
DisplayOpened(c) ==
    /\ Shows(c)
    /\ Opened(c, IF HasCertificate(c) /\ Of(c).pin = None THEN "pin" ELSE "live")

(* One side left: the engine and the browser go, and the journal's entry    *)
(* ends, if there is one.                                                   *)
End(c) ==
    /\ Is(c, "live") /\ Go(c, "closing")
    /\ browsers' = browsers \ {c}
    /\ IF journal[c] = None THEN UNCHANGED <<changes, kept>>
       ELSE \E lost \in SUBSET {"end"} :
              /\ Misses(c, lost) /\ UNCHANGED log
              /\ journal' = IF lost = {} THEN [journal EXCEPT ![c] = "ended"] ELSE journal
    /\ UNCHANGED <<place, forwards>>

RelayEnds(c) == Shows(c) /\ End(c)
ShellEnds(c) == ~Shows(c) /\ End(c)

(* Fault: the end waits for the connector to be there.                      *)
ClosedOnceReachable(c) ==
    /\ Is(c, "closing") /\ site # "offline" /\ Go(c, "done")
    /\ \E lost \in SUBSET {"closed"} : Misses(c, lost) /\ Record(c, "closed", lost)
    /\ DropForwards(c, {"route"})
    /\ UNCHANGED <<place, browsers, journal>>

(* The last audit entry; the route goes with the end of run().              *)
Closed(c) ==
    /\ Is(c, "closing") /\ Go(c, "done")
    /\ \E lost \in SUBSET {"closed"} : Misses(c, lost) /\ Record(c, "closed", lost)
    /\ DropForwards(c, {"route"})
    /\ UNCHANGED <<place, browsers, journal>>

Step(c) ==
    \/ TakeRoute(c, "probe", "probing")
    \/ Is(c, "probing") /\ Probe(c)
    \/ TakeRoute(c, "route", IF Of(c).protocol = "https" THEN "browser" ELSE "open")
    \/ Is(c, "browser") /\ OpenBrowser(c)
    \/ Is(c, "open") /\ IF Shows(c) THEN OpenDisplay(c) ELSE OpenShell(c)
    \/ PinHostKey(c) \/ PinCertificate(c) \/ TerminalOpened(c) \/ DisplayOpened(c) \/ Closed(c)

-----------------------------------------------------------------------------
(* What happens around the connections, with failed writes MaxChanges       *)
(* times.                                                                   *)

(* update_device with another address forgets the pins.                     *)
Retarget(a) ==
    /\ Change /\ a # device.addr
    /\ device' = [device EXCEPT !.addr = a, !.pin = None]
    /\ UNCHANGED <<user, presents, site, conn, held, kept>>

(* reset_host_key, whatever is pinned.                                      *)
ResetPin ==
    /\ Change /\ device.pin # None
    /\ device' = [device EXCEPT !.pin = None]
    /\ UNCHANGED <<user, presents, site, conn, held, kept>>

Reinstall(a, k) ==
    /\ Change /\ presents[a] # k
    /\ presents' = [presents EXCEPT ![a] = k]
    /\ UNCHANGED <<device, user, site, conn, held, kept>>

SiteBecomes(s) ==
    /\ Change /\ device.via /\ site # s
    /\ site' = s
    /\ UNCHANGED <<device, user, presents, conn, held, kept>>

UserBecomes(u) ==
    /\ Change /\ user # u
    /\ user' = u
    /\ UNCHANGED <<device, presents, site, conn, held, kept>>

(* The server stops: sockets, forwards and browsers go, the database stays. *)
Restart ==
    /\ Change
    /\ conn' = [c \in Conn |-> IF conn[c].pc \in {"none", "done"} THEN conn[c]
                               ELSE [conn[c] EXCEPT !.pc = "lost"]]
    /\ forwards' = {} /\ browsers' = {}
    /\ UNCHANGED <<device, user, presents, site, kept>>

Next ==
    \/ \E c \in Conn :
         \/ Handshake(c) \/ Refuse(c) \/ Step(c) \/ EngineConnects(c)
         \/ RelayEnds(c) \/ ShellEnds(c)
         \/ \E purpose, given \in BOOLEAN :
               StartTerminal(c, purpose, given) \/ StartDisplay(c, purpose, given)
    \/ \E a \in Address : Retarget(a) \/ \E k \in Key : Reinstall(a, k)
    \/ \E s \in {"open", "shut", "closed", "offline"} : SiteBecomes(s)
    \/ \E u \in [connect : BOOLEAN, confirmed : BOOLEAN, states : {user.states}] : UserBecomes(u)
    \/ ResetPin \/ Restart

Spec == Init /\ [][Next]_connectionVars

(* Every step to the device has a timeout; run() is a task of its own.      *)
Fairness == \A c \in Conn : WF_connectionVars(Step(c))

-----------------------------------------------------------------------------
Running(c) == conn[c].pc \notin {"none", "done", "lost"}

Written(c, what) == <<c, what>> \notin missed
Entries(c, all) == SelectSeq(all, LAMBDA what : Written(c, what))

(* Every connection that passed the checks is on record, once and with its  *)
(* end, and the journal's entry ends with it; a write that fails costs that *)
(* one entry and nothing else, and an end that is not noted leaves the      *)
(* journal's entry open.  What was refused before left no trace, and a      *)
(* forward or browser never outlives its connection.  A restart alone also  *)
(* leaves entries without an end.                                           *)
TrailIsComplete ==
    \A c \in Conn :
        /\ Is(c, "done") =>
             \/ ~conn[c].begun /\ log[c] = <<>> /\ journal[c] = None
             \/ conn[c].begun /\ log[c] = Entries(c, <<"failed">>) /\ journal[c] = None
             \/ /\ conn[c].begun /\ log[c] = Entries(c, <<"opened", "closed">>)
                /\ journal[c] = CASE ~Written(c, "entry") -> None
                                  [] ~Written(c, "end")   -> "open"
                                  [] OTHER                -> "ended"
        /\ Is(c, "live") =>
             /\ log[c] = Entries(c, <<"opened">>)
             /\ journal[c] = IF Written(c, "entry") THEN "open" ELSE None
        /\ journal[c] = "open" => conn[c].pc \in {"pin", "live", "lost"} \/ ~Written(c, "end")
        /\ ~Running(c) => c \notin browsers /\ \A f \in forwards : f[1] # c

(* "The certificate the device presents must be the pinned one, or becomes  *)
(* it": whatever is pinned, reset, moved or reinstalled meanwhile, what was *)
(* pinned when a connection began is what it saw, and its engine talks to   *)
(* that or, if it is Chromium, to a certificate an authority vouches for    *)
(* that came after the look at it.                                          *)
TalksToThePinned ==
    \A c \in Conn : conn[c].link # None =>
        /\ conn[c].seen \in IF Of(c).pin = None THEN Key ELSE {Of(c).pin}
        /\ Takes(c, conn[c].link)

(* "False if another connection was first": of first connections at the     *)
(* same time one pins, and no connection ever replaces a pin.               *)
FirstOnePinsStep ==
    device.pin # None /\ device'.pin # device.pin =>
      device'.pin = None /\ conn' = conn

FirstOnePins == [][FirstOnePinsStep]_connectionVars

Begun(c) == conn[c].begun /\ Running(c)
Settled(c) == Is(c, "live") \/ ~Running(c)

(* A connection that passed the checks gets somewhere, or is told that it   *)
(* did not; and one that closes, which is live no more, comes to its end.   *)
AttemptEnds == \A c \in Conn : Begun(c) ~> Settled(c)
=============================================================================
