--------------------------- MODULE BrowserService ---------------------------
(***************************************************************************)
(* The browser service (crates/browser): one connection from remotehub is  *)
(* one session with a display, a fresh profile, a proxy that leads only to *)
(* the device and a Chromium, which may be signed in on the device's page. *)
(* "Everything ends with the connection, and the connection ends with      *)
(* Chromium or Xvnc."                                                      *)
(***************************************************************************)
EXTENDS Naturals

CONSTANTS
    Session,        \* connections from remotehub
    Displays,       \* numbers of displays
    None

VARIABLES
    client,     \* [Session -> remotehub's side: "idle", "asking", "holding", "left"]
    pc,         \* [Session -> how far serve() is]
    display,    \* [Session -> the display it holds]
    profile,    \* [Displays -> whose profile and password file lie there]
    xvnc,       \* [Displays -> whose Xvnc runs there]
    chromium,   \* the sessions whose Chromium runs
    proxy,      \* the sessions whose proxy listens
    ready,      \* the sessions that were told of their display
    page,       \* [Session -> what Chromium shows]
    typed       \* [Session -> the page the password was typed into]

processes == <<xvnc, chromium, proxy>>
browserVars == <<client, pc, display, profile, processes, ready, page, typed>>

Pages == {"form", "plain", "error", "foreign"}
Filling == {"look", "focus", "type", "enter"}
Stages == {"none", "reading", "taking", "preparing", "display", "browser", "idle",
           "ending", "tidying", "done"} \cup Filling

(* None is no session, no display and no page.                              *)
ConstantsOK == None \notin Session /\ None \notin Displays /\ None \notin Pages

TypeOK ==
    /\ client \in [Session -> {"idle", "asking", "holding", "left"}]
    /\ pc \in [Session -> Stages]
    /\ display \in [Session -> Displays \cup {None}]
    /\ profile \in [Displays -> Session \cup {None}]
    /\ xvnc \in [Displays -> Session \cup {None}]
    /\ chromium \subseteq Session /\ proxy \subseteq Session /\ ready \subseteq Session
    /\ page \in [Session -> Pages \cup {None}] /\ typed \in [Session -> Pages \cup {None}]

Init ==
    /\ client = [s \in Session |-> "idle"] /\ pc = [s \in Session |-> "none"]
    /\ display = [s \in Session |-> None]
    /\ profile = [n \in Displays |-> None] /\ xvnc = [n \in Displays |-> None]
    /\ chromium = {} /\ proxy = {} /\ ready = {}
    /\ page = [s \in Session |-> None] /\ typed = [s \in Session |-> None]

Go(s, from, to) == pc[s] = from /\ pc' = [pc EXCEPT ![s] = to]

-----------------------------------------------------------------------------
(* remotehub's side, client.rs.  Dropping the session closes the socket, a  *)
(* timeout while it waits does as well.                                     *)
Ask(s) ==
    /\ client[s] = "idle" /\ pc[s] = "none"
    /\ client' = [client EXCEPT ![s] = "asking"]
    /\ pc' = [pc EXCEPT ![s] = "reading"]
    /\ UNCHANGED <<display, profile, processes, ready, page, typed>>

GetReady(s) ==
    /\ client[s] = "asking" /\ s \in ready
    /\ client' = [client EXCEPT ![s] = "holding"]
    /\ UNCHANGED <<pc, display, profile, processes, ready, page, typed>>

(* The timeout, the user who leaves, a refusal or the service's end.        *)
Leave(s) ==
    /\ client[s] \in {"asking", "holding"}
    /\ client' = [client EXCEPT ![s] = "left"]
    /\ UNCHANGED <<pc, display, profile, processes, ready, page, typed>>

-----------------------------------------------------------------------------
(* serve() up to a free display; an unreadable request, or none free, ends  *)
(* it with nothing started.                                                 *)
ReadOpen(s) ==
    /\ Go(s, "reading", "taking") \/ Go(s, "reading", "done")
    /\ UNCHANGED <<client, display, profile, processes, ready, page, typed>>

(* Fault: a display is handed out whether it is in use or not.              *)
TakeAny(s) ==
    /\ Go(s, "taking", "preparing")
    /\ \E n \in Displays : display' = [display EXCEPT ![s] = n]
    /\ UNCHANGED <<client, profile, processes, ready, page, typed>>

(* Displays::take: the lowest number nobody holds.                          *)
Take(s) ==
    LET free == {n \in Displays : \A t \in Session : display[t] # n} IN
    /\ IF free = {}
       THEN Go(s, "taking", "done") /\ UNCHANGED display
       ELSE /\ Go(s, "taking", "preparing")
            /\ \E n \in free : /\ \A m \in free : n <= m
                               /\ display' = [display EXCEPT ![s] = n]
    /\ UNCHANGED <<client, profile, processes, ready, page, typed>>

(* A step of run() that fails drops what the steps before it started.       *)
GiveUp(s) ==
    /\ pc[s] \in {"preparing", "display", "browser"}
    /\ pc' = [pc EXCEPT ![s] = "ending"]
    /\ UNCHANGED <<client, display, profile, processes, ready, page, typed>>

(* The work directory made anew, with the password file.                    *)
Prepare(s) ==
    /\ Go(s, "preparing", "display")
    /\ profile' = [profile EXCEPT ![display[s]] = s]
    /\ UNCHANGED <<client, display, processes, ready, page, typed>>

(* start_xvnc.                                                              *)
StartDisplay(s) ==
    /\ Go(s, "display", "browser")
    /\ xvnc' = [xvnc EXCEPT ![display[s]] = s]
    /\ UNCHANGED <<client, display, profile, chromium, proxy, ready, page, typed>>

(* proxy::start, start_chromium and the reply, which nobody may read.       *)
StartBrowser(s, login) ==
    /\ Go(s, "browser", IF login THEN "look" ELSE "idle")
    /\ proxy' = proxy \cup {s} /\ chromium' = chromium \cup {s} /\ ready' = ready \cup {s}
    /\ UNCHANGED <<client, display, profile, xvnc, page, typed>>

(* Fault: the proxy leads anywhere.                                         *)
LeadsAnywhere(to) == TRUE

(* proxy::serve: CONNECT to the device and nothing else; Chromium shows its *)
(* own error page for the rest.                                             *)
Leads(to) == to # "foreign"

(* The page loads, moves on, or fails.                                      *)
Navigate(s, to) ==
    /\ s \in chromium /\ page[s] # to /\ Leads(to)
    /\ page' = [page EXCEPT ![s] = to]
    /\ UNCHANGED <<client, pc, display, profile, processes, ready, typed>>

(* fill::fill: look for the form, until patience ends or an error shows;    *)
(* find and focus the field again; type; press Enter.                       *)
Look(s) ==
    /\ \/ page[s] = "form" /\ Go(s, "look", "focus")
       \/ Go(s, "look", "idle")
    /\ UNCHANGED <<client, display, profile, processes, ready, page, typed>>

Focus(s) ==
    /\ Go(s, "focus", IF page[s] = "form" THEN "type" ELSE "idle")
    /\ UNCHANGED <<client, display, profile, processes, ready, page, typed>>

(* Keystrokes go wherever the focus is by now.                              *)
Type(s) ==
    /\ Go(s, "type", "enter")
    /\ typed' = [typed EXCEPT ![s] = page[s]]
    /\ UNCHANGED <<client, display, profile, processes, ready, page>>

Enter(s) ==
    /\ Go(s, "enter", "idle")
    /\ UNCHANGED <<client, display, profile, processes, ready, page, typed>>

(* Fault: only remotehub's leaving is waited for.                           *)
NoticeClient(s) ==
    /\ pc[s] \in Filling \cup {"idle"}
    /\ client[s] = "left"
    /\ pc' = [pc EXCEPT ![s] = "ending"]
    /\ UNCHANGED <<client, display, profile, processes, ready, page, typed>>

(* The select: remotehub closed the socket, or a process ended.             *)
Notice(s) ==
    /\ pc[s] \in Filling \cup {"idle"}
    /\ client[s] = "left" \/ s \notin chromium \/ xvnc[display[s]] # s
    /\ pc' = [pc EXCEPT ![s] = "ending"]
    /\ UNCHANGED <<client, display, profile, processes, ready, page, typed>>

ChromiumEnds(s) ==
    /\ s \in chromium /\ chromium' = chromium \ {s}
    /\ page' = [page EXCEPT ![s] = None]
    /\ UNCHANGED <<client, pc, display, profile, xvnc, proxy, ready, typed>>

XvncEnds(n) ==
    /\ xvnc[n] # None /\ xvnc' = [xvnc EXCEPT ![n] = None]
    /\ UNCHANGED <<client, pc, display, profile, chromium, proxy, ready, page, typed>>

(* run() returns: the process group, the proxy and Xvnc go with it.         *)
Kill(s) ==
    /\ Go(s, "ending", "tidying")
    /\ chromium' = chromium \ {s} /\ proxy' = proxy \ {s}
    /\ xvnc' = [n \in Displays |-> IF xvnc[n] = s THEN None ELSE xvnc[n]]
    /\ page' = [page EXCEPT ![s] = None]
    /\ UNCHANGED <<client, display, profile, ready, typed>>

(* Fault: the display is given back and its directory left.                 *)
GiveBackOnly(s) ==
    /\ Go(s, "tidying", "done")
    /\ display' = [display EXCEPT ![s] = None]
    /\ UNCHANGED <<client, profile, processes, ready, page, typed>>

(* The directory and the display's files, then the number.                  *)
TidyUp(s) ==
    /\ Go(s, "tidying", "done")
    /\ profile' = [profile EXCEPT ![display[s]] = None]
    /\ display' = [display EXCEPT ![s] = None]
    /\ UNCHANGED <<client, processes, ready, page, typed>>

Serve(s) ==
    \/ ReadOpen(s) \/ Take(s) \/ GiveUp(s) \/ Prepare(s) \/ StartDisplay(s)
    \/ \E login \in BOOLEAN : StartBrowser(s, login)
    \/ Look(s) \/ Focus(s) \/ Type(s) \/ Enter(s) \/ Notice(s) \/ Kill(s) \/ TidyUp(s)

Next ==
    \/ \E s \in Session :
         \/ Ask(s) \/ GetReady(s) \/ Leave(s) \/ Serve(s) \/ ChromiumEnds(s)
         \/ \E to \in Pages : Navigate(s, to)
    \/ \E n \in Displays : XvncEnds(n)

Spec == Init /\ [][Next]_browserVars

(* serve() is a task of its own: it runs whenever it can.                   *)
Fairness == \A s \in Session : WF_browserVars(Serve(s))

-----------------------------------------------------------------------------
(* Sessions share no display, and a display holds the profile, the password *)
(* file and the processes of the session that has it, or of none: what one  *)
(* admin's session left never meets the next.  Nothing outlives its session. *)
DisplaysApart ==
    /\ \A s, t \in Session : s # t => display[s] = None \/ display[s] # display[t]
    /\ \A n \in Displays : \A s \in {profile[n], xvnc[n]} \ {None} : display[s] = n
    /\ \A s \in Session : pc[s] = "done" => s \notin chromium \cup proxy

(* The password reaches the device's pages alone, however the page moves on *)
(* between finding the field and typing into it.                            *)
PasswordStaysOnDevice == \A s \in Session : typed[s] # "foreign"

Over(s) ==
    \/ client[s] = "left"
    \/ s \in ready /\ (s \notin chromium \/ \A n \in Displays : xvnc[n] # s)

(* "Everything ends with the connection, and the connection ends with       *)
(* Chromium or Xvnc."                                                       *)
EndsTogether == \A s \in Session : Over(s) ~> pc[s] = "done"
=============================================================================
