----------------------------- MODULE Certificates -----------------------------
(***************************************************************************)
(* A TLS certificate of one's own for Caddy of the ops package:            *)
(* api/certificate.rs, certificate.rs and caddy.rs.                        *)
(*                                                                         *)
(* A change goes through three places that have no transaction in common:  *)
(* the row in the database, the files Caddy imports, and what Caddy has    *)
(* loaded.  The handler keeps its transaction open while it writes the     *)
(* files and has Caddy load them, and commits once Caddy took them.  From  *)
(* its audit entry on the transaction has the lock of the audit log's      *)
(* chain, so one request at a time is at the files.                        *)
(***************************************************************************)
EXTENDS Naturals, Sequences, FiniteSets

CONSTANTS
    Uploads,    \* what administrators upload: [id, key, names, from, until]
    Host,       \* the host's name, as labels
    Today,      \* the day of the upload
    Slot,       \* requests under way at once
    Automatic,  \* Let's Encrypt or Caddy's own CA
    None

VARIABLES
    row,        \* the table certificate: an upload's id, or Automatic
    files,      \* [cert, key, own: what the snippet says]
    caddy,      \* what Caddy serves with
    up,         \* remotehub runs
    slot,
    astray      \* history: which of "files" and "caddy" a change that broke off,
                \* or a reset beside an upload, may have left behind

certificateVars == <<row, files, caddy, up, slot, astray>>

FilesOf(tls) ==
    IF tls = Automatic THEN [cert |-> None, key |-> None, own |-> FALSE]
    ELSE [cert |-> tls, key |-> tls, own |-> TRUE]

(* What Caddy may serve with.                                               *)
Certs == {Automatic} \cup {u.id : u \in Uploads}

AtFiles == {"cert", "key", "snippet", "load", "commit"}
Both == {"files", "caddy"}

(* What a request under way holds: whether its DELETE saw a row, whether it *)
(* holds the row or its place, whether an upload was committed after its    *)
(* DELETE, and the files as they were.                                      *)
Tasks ==
    [at : {"begin", "record"} \cup AtFiles, tls : Certs, saw : BOOLEAN, holds : BOOLEAN,
     missed : BOOLEAN,
     before : {None} \cup [cert : Certs \cup {None}, key : Certs \cup {None}, own : BOOLEAN]]

(* An upload is not Caddy's own certificate, and None is no request.        *)
ConstantsOK == Automatic \notin {u.id : u \in Uploads} /\ None \notin Tasks

Init ==
    /\ row = Automatic /\ files = FilesOf(Automatic) /\ caddy = Automatic /\ up = TRUE
    /\ slot = [s \in Slot |-> None]
    /\ astray = {}

-----------------------------------------------------------------------------
(* covers: exactly, or through a wildcard for one label.                    *)
Covers(names) ==
    \E name \in names :
        \/ name = Host
        \/ /\ Len(Host) > 1 /\ name # <<>> /\ Head(name) = "*"
           /\ Tail(name) = Tail(Host)

LeastLife == 1

(* check: the key belongs to the certificate, and it holds for a day more.  *)
Acceptable(u) ==
    /\ u.key = u.id
    /\ Covers(u.names)
    /\ u.from <= Today
    /\ u.until >= Today + LeastLife

Is(s, at) == slot[s] # None /\ slot[s].at = at
Goes(s, at) == slot' = [slot EXCEPT ![s].at = at]
Frees(s) == slot' = [slot EXCEPT ![s] = None]
Quiet == \A s \in Slot : slot[s] = None

(* What a request that ends now leaves as nobody meant it.                  *)
Touched(s) ==
    CASE Is(s, "key") \/ Is(s, "snippet") -> {"files"}
      [] Is(s, "load") \/ Is(s, "commit") -> Both
      [] OTHER -> {}

(* Whether another transaction has the row, or the place of the one row.    *)
Held(s) == \E t \in Slot \ {s} : slot[t] # None /\ slot[t].holds

(* upload, reset, up to the DELETE: it sees the row there is now, and waits *)
(* for whoever has it.                                                      *)
Begin(s, tls) ==
    /\ up /\ slot[s] = None
    /\ slot' = [slot EXCEPT ![s] = [at |-> "begin", tls |-> tls, saw |-> row # Automatic,
                                    holds |-> FALSE, missed |-> FALSE, before |-> None]]
    /\ UNCHANGED <<row, files, caddy, up, astray>>

Upload(s, u) == Acceptable(u) /\ Begin(s, u.id)
Reset(s) == Begin(s, Automatic)

(* remove and store.  The table takes one row: a second upload waits for    *)
(* the first one's end, and fails if that stored one.                       *)
Store(s) ==
    /\ Is(s, "begin")
    /\ slot[s].saw \/ slot[s].tls # Automatic => ~Held(s)
    /\ IF slot[s].tls # Automatic /\ ~slot[s].saw /\ row # Automatic
       THEN Frees(s)
       ELSE slot' = [slot EXCEPT ![s].at = "record",
                                 ![s].holds = slot[s].saw \/ slot[s].tls # Automatic]
    /\ UNCHANGED <<row, files, caddy, up, astray>>

(* audit::record waits for the chain's lock; then serve reads the files.    *)
Record(s) ==
    /\ Is(s, "record")
    /\ \A t \in Slot : \A at \in AtFiles : ~Is(t, at)
    /\ slot' = [slot EXCEPT ![s].at = "cert", ![s].before = files]
    /\ UNCHANGED <<row, files, caddy, up, astray>>

(* write_files, file by file.                                               *)
Write(s) ==
    /\ up /\ slot[s] # None
    /\ \E new \in {FilesOf(slot[s].tls)} :
         \/ Is(s, "cert") /\ Goes(s, "key") /\ files' = [files EXCEPT !.cert = new.cert]
         \/ Is(s, "key") /\ Goes(s, "snippet") /\ files' = [files EXCEPT !.key = new.key]
         \/ Is(s, "snippet") /\ Goes(s, "load") /\ files' = [files EXCEPT !.own = new.own]
    /\ UNCHANGED <<row, caddy, up, astray>>

(* A file cannot be written: serve ends before it would put any back.       *)
WriteFails(s) ==
    /\ \E at \in {"cert", "key", "snippet"} : Is(s, at)
    /\ Frees(s)
    /\ astray' = astray \cup Touched(s)
    /\ UNCHANGED <<row, files, caddy, up>>

(* External: Caddy loads its Caddyfile, and refuses a key that does not fit.*)
Loads(x) ==
    IF files.own THEN files.cert # None /\ files.key = files.cert /\ x = files.cert
    ELSE x = Automatic

(* Caddy took it.                                                           *)
Taken(s) ==
    /\ Is(s, "load")
    /\ Loads(slot[s].tls)
    /\ caddy' = slot[s].tls
    /\ Goes(s, "commit")
    /\ UNCHANGED <<row, files, up, astray>>

(* Fault: the files stay as they are.                                       *)
RefusedOnly(s) ==
    /\ Is(s, "load")
    /\ Frees(s)
    /\ UNCHANGED <<row, files, caddy, up, astray>>

(* Caddy refuses, or is not reachable: the files are put back and the       *)
(* transaction is dropped.                                                  *)
Refused(s) ==
    /\ Is(s, "load")
    /\ files' = slot[s].before
    /\ Frees(s)
    /\ UNCHANGED <<row, caddy, up, astray>>

(* What putting the files back comes to when one of them cannot be written. *)
PartlyBack(b) ==
    {files, [files EXCEPT !.own = b.own], [files EXCEPT !.own = b.own, !.cert = b.cert]}

RestoreFails(s) ==
    /\ Is(s, "load")
    /\ files' \in PartlyBack(slot[s].before)
    /\ Frees(s)
    /\ astray' = astray \cup {"files"}
    /\ UNCHANGED <<row, caddy, up>>

(* Caddy takes it, but its answer does not come in time.                    *)
AnswerLost(s) ==
    /\ Is(s, "load")
    /\ Loads(slot[s].tls)
    /\ caddy' = slot[s].tls
    /\ files' = slot[s].before
    /\ Frees(s)
    /\ astray' = astray \cup {"caddy"}
    /\ UNCHANGED <<row, up>>

(* The handler is dropped while it waits: for a row, for the chain, or for  *)
(* Caddy, which may take it all the same.                                   *)
Dropped(s) ==
    /\ \E at \in {"begin", "record", "load"} : Is(s, at)
    /\ \/ UNCHANGED caddy
       \/ Is(s, "load") /\ Loads(slot[s].tls) /\ caddy' = slot[s].tls
    /\ Frees(s)
    /\ astray' = astray \cup Touched(s)
    /\ UNCHANGED <<row, files, up>>

(* Whoever waits with a DELETE finds its row gone, and does not see the new *)
(* one; nor does a DELETE that came before.                                 *)
Commit(s) ==
    /\ Is(s, "commit")
    /\ row' = IF slot[s].holds THEN slot[s].tls ELSE row
    /\ slot' = [t \in Slot |-> IF t = s THEN None
                               ELSE IF slot[t] # None /\ slot[s].holds
                               THEN [slot[t] EXCEPT !.saw = @ /\ slot[t].at # "begin",
                                                    !.missed = @ \/ slot[s].tls # Automatic]
                               ELSE slot[t]]
    /\ astray' = IF slot[s].tls = Automatic /\ slot[s].missed THEN Both ELSE {}
    /\ UNCHANGED <<files, caddy, up>>

CommitFails(s) ==
    /\ Is(s, "commit")
    /\ Frees(s)
    /\ astray' = Both
    /\ UNCHANGED <<row, files, caddy, up>>

(* remotehub stops, with whatever was under way.                            *)
Crash ==
    /\ up
    /\ up' = FALSE
    /\ astray' = astray \cup UNION {Touched(s) : s \in Slot}
    /\ slot' = [s \in Slot |-> None]
    /\ UNCHANGED <<row, files, caddy>>

(* Fault: the files stay as they are.                                       *)
StartOnly ==
    /\ ~up
    /\ up' = TRUE
    /\ astray' = astray \ {"files"}
    /\ UNCHANGED <<row, files, caddy, slot>>

(* serve, at startup: the files are written from the database.  Nobody      *)
(* tells Caddy.                                                             *)
Start ==
    /\ ~up
    /\ up' = TRUE
    /\ files' = FilesOf(row)
    /\ astray' = astray \ {"files"}
    /\ UNCHANGED <<row, caddy, slot>>

(* The certificate cannot be read, or a file cannot be written: remotehub   *)
(* starts all the same.                                                     *)
StartFails ==
    /\ ~up
    /\ up' = TRUE
    /\ \E new \in {FilesOf(row)} :
         files' \in {files, [files EXCEPT !.cert = new.cert],
                     [files EXCEPT !.cert = new.cert, !.key = new.key]}
    /\ UNCHANGED <<row, caddy, slot, astray>>

(* External: Caddy starts again, by itself, and loads the files there are.  *)
CaddyStarts ==
    /\ \E x \in Certs : Loads(x) /\ caddy' = x
    /\ astray' = IF "files" \in astray \/ \E s \in Slot : Touched(s) # {}
                 THEN astray \cup {"caddy"} ELSE astray \ {"caddy"}
    /\ UNCHANGED <<row, files, up, slot>>

Next ==
    \/ Crash \/ Start \/ StartFails \/ CaddyStarts
    \/ \E s \in Slot : \/ Reset(s) \/ Store(s) \/ Record(s) \/ Write(s) \/ WriteFails(s)
                       \/ Taken(s) \/ Refused(s) \/ RestoreFails(s) \/ AnswerLost(s)
                       \/ Dropped(s) \/ Commit(s) \/ CommitFails(s)
                       \/ \E u \in Uploads : Upload(s, u)

Spec == Init /\ [][Next]_certificateVars

-----------------------------------------------------------------------------
TypeOK ==
    /\ row \in Certs /\ caddy \in Certs
    /\ files.own \in BOOLEAN /\ up \in BOOLEAN /\ astray \subseteq Both
    /\ \A s \in Slot : slot[s] # None => slot[s].at \in {"begin", "record"} \cup AtFiles

(* "Stored and audited only once Caddy took it", and "If Caddy refuses, its *)
(* configuration and remotehub's files stay as they were": when nothing is  *)
(* under way, the database, the files and Caddy agree, whichever uploads    *)
(* overlapped, whatever Caddy refused and whoever restarted.  A change that *)
(* broke off after it touched the files, and a reset whose DELETE came      *)
(* before an upload was committed, may leave the two others behind: until   *)
(* the next change that goes through; the files until remotehub starts and  *)
(* writes them, and Caddy until it then starts itself.                      *)
PlacesAgree ==
    Quiet => /\ "files" \in astray \/ files = FilesOf(row)
             /\ "caddy" \in astray \/ caddy = row
=============================================================================
