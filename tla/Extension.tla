------------------------------ MODULE Extension ------------------------------
(***************************************************************************)
(* Handing out what the vault keeps: the browser extension                 *)
(* (api/extension.rs, site.rs) and showing a credential (api/reveal.rs).   *)
(*                                                                         *)
(* One user and one login, which others change meanwhile.  A handler reads *)
(* the login's row, opens the sealed password, writes the audit log and    *)
(* answers; each of them is a step, and the database may fail it.          *)
(***************************************************************************)
EXTENDS Naturals, FiniteSets

CONSTANTS
    Code, Token,    \* codes the connect page asks for, tokens of the extension
    Urls,           \* what the login's URL may be: [scheme, host, port], None: not given
    Origins,        \* the pages the extension may name: [scheme, host, port]
    Registrable,    \* [host -> its registrable domain, or None]: the Public Suffix List
    Slot,           \* requests under way at once
    CodeLife, Idle, \* CODE_SECONDS, the session's idle time
    MaxTime, MaxVersion,
    None, Gone

(* There is a first version; a code that is gone is not one never made.     *)
ConstantsOK ==
    /\ MaxVersion \in Nat \ {0} /\ {MaxTime, CodeLife, Idle} \subseteq Nat
    /\ None # Gone

VARIABLES
    now,
    blocked, reveals,   \* the user is blocked; has reveal on the login
    codes,              \* extension_codes: [Code -> when it runs out]
    tokens,             \* sessions: [Token -> last_seen_at]
    entry,              \* credentials: [version, url, bin]
    slot,
    audit, answered,    \* the requests under way that are in the audit log,
                        \* and the answer that left last
    tries, opened,      \* history: answers to a code; sessions it opened
    pairs               \* history: every version and URL the row had at once

database == <<blocked, reveals, codes, tokens, entry>>
logs     == <<audit, answered>>
history  == <<tries, opened, pairs>>
extensionVars == <<now, database, slot, logs, history>>

Init ==
    /\ now = 0 /\ blocked = FALSE /\ reveals = TRUE
    /\ codes = [c \in Code |-> None] /\ tokens = [t \in Token |-> None]
    /\ \E u \in Urls : entry = [version |-> 1, url |-> u, bin |-> FALSE]
    /\ slot = [s \in Slot |-> None]
    /\ audit = {} /\ answered = None
    /\ tries = [c \in Code |-> 0] /\ opened = [c \in Code |-> 0]
    /\ pairs = {[version |-> 1, url |-> entry.url]}

Is(s, at) == slot[s] # None /\ slot[s].at = at
Frees(s) == slot' = [slot EXCEPT ![s] = None] /\ audit' = audit \ {s}

-----------------------------------------------------------------------------
(* site::matches.                                                           *)

Scheme(u) == IF u.scheme = None THEN "https" ELSE u.scheme
Port(u) == CASE u.port # None -> u.port
             [] Scheme(u) = "https" -> 443
             [] OTHER -> 80

Matches(u, origin) ==
    /\ Scheme(u) = Scheme(origin) /\ Port(u) = Port(origin)
    /\ \/ u.host = origin.host
       \/ /\ Scheme(u) = "https"
          /\ Registrable[u.host] # None
          /\ Registrable[u.host] = Registrable[origin.host]

-----------------------------------------------------------------------------
(* Connecting.                                                              *)

CreateCode(c) ==
    /\ ~blocked /\ codes[c] = None
    /\ codes' = [codes EXCEPT ![c] = now + CodeLife]
    /\ UNCHANGED <<now, blocked, reveals, tokens, entry, slot, logs, history>>

InUse(c) == \E s \in Slot : Is(s, "exchange") /\ slot[s].code = c

(* Fault: what is refused is rolled back, and the code with it.             *)
RefuseAndKeep(s, c) ==
    /\ tries' = [tries EXCEPT ![c] = @ + 1]
    /\ UNCHANGED <<codes, slot>>

(* "The deletion stands even when the exchange fails."                      *)
Refuse(s, c) ==
    /\ codes' = [codes EXCEPT ![c] = Gone]
    /\ tries' = [tries EXCEPT ![c] = @ + 1]
    /\ UNCHANGED slot

(* token: the DELETE locks the code's row, or waits for whoever has it.     *)
Exchange(s, c, right) ==
    /\ slot[s] = None
    /\ codes[c] \notin {None, Gone} /\ ~InUse(c)
    /\ IF codes[c] > now /\ right /\ ~blocked
       THEN /\ slot' = [slot EXCEPT ![s] = [at |-> "exchange", code |-> c]]
            /\ UNCHANGED <<codes, tries>>
       ELSE Refuse(s, c)
    /\ UNCHANGED <<now, blocked, reveals, tokens, entry, logs, opened, pairs>>

Connected(s, t) ==
    /\ Is(s, "exchange") /\ tokens[t] = None
    /\ tokens' = [tokens EXCEPT ![t] = now]
    /\ codes' = [codes EXCEPT ![slot[s].code] = Gone]
    /\ tries' = [tries EXCEPT ![slot[s].code] = @ + 1]
    /\ opened' = [opened EXCEPT ![slot[s].code] = @ + 1]
    /\ slot' = [slot EXCEPT ![s] = None]
    /\ UNCHANGED <<now, blocked, reveals, entry, logs, pairs>>

(* end, sign_out.                                                           *)
End(t) ==
    /\ tokens[t] \notin {None, Gone}
    /\ tokens' = [tokens EXCEPT ![t] = Gone]
    /\ UNCHANGED <<now, blocked, reveals, codes, entry, slot, logs, history>>

(* session::purge, between two clock ticks.                                 *)
Purge ==
    /\ codes' = [c \in Code |-> IF codes[c] \in {None, Gone} THEN codes[c]
                                ELSE IF codes[c] <= now /\ ~InUse(c) THEN Gone ELSE codes[c]]
    /\ tokens' = [t \in Token |-> IF tokens[t] \in {None, Gone} THEN tokens[t]
                                  ELSE IF tokens[t] + Idle <= now THEN Gone ELSE tokens[t]]
    /\ UNCHANGED <<now, blocked, reveals, entry, slot, logs, history>>

-----------------------------------------------------------------------------
(* Handing out.                                                             *)

(* by_hash: Sessions has the longest life of a session.                     *)
Valid(t) == tokens[t] \notin {None, Gone} /\ tokens[t] + Idle > now /\ ~blocked

Request(what, origin, version) ==
    [at |-> "read", what |-> what, origin |-> origin, version |-> version]

(* fill, copy and code, up to the row: ExtensionSession, revealable and     *)
(* belongs.  One that is not for this page, or not for the user, is refused.*)
Ask(s, t, what, origin) ==
    /\ slot[s] = None
    /\ Valid(t)
    /\ reveals /\ ~entry.bin
    /\ IF what \in {"fill", "fill code"} THEN origin # None /\ Matches(entry.url, origin) ELSE origin = None
    /\ tokens' = [tokens EXCEPT ![t] = now]
    /\ slot' = [slot EXCEPT ![s] = Request(what, origin, entry.version)]
    /\ UNCHANGED <<now, blocked, reveals, codes, entry, logs, history>>

(* reveal::credential in the browser, the session confirmed: an older       *)
(* version too, and also of a login in the recycle bin.                     *)
Show(s, version) ==
    /\ slot[s] = None
    /\ ~blocked /\ reveals
    /\ version <= entry.version
    /\ slot' = [slot EXCEPT ![s] = Request("show", None, version)]
    /\ UNCHANGED <<now, database, logs, history>>

(* Fault: the version is read with the secret.                              *)
OpenCurrent(s) ==
    /\ Is(s, "read")
    /\ slot' = [slot EXCEPT ![s].at = "opened", ![s].version = entry.version]
    /\ UNCHANGED <<now, database, logs, history>>

(* The version whose secret is opened: current_code reads it again.         *)
Opened(s) ==
    IF slot[s].what \in {"fill code", "copy code"} THEN entry.version ELSE slot[s].version

(* stored_text, and current_code for codes.                                 *)
Open(s) ==
    /\ Is(s, "read")
    /\ slot' = [slot EXCEPT ![s].at = "opened", ![s].version = Opened(s)]
    /\ UNCHANGED <<now, database, logs, history>>

(* Fault: the browser is answered, and then the log is written.             *)
RecordLater(s) ==
    /\ Is(s, "opened")
    /\ slot' = [slot EXCEPT ![s].at = "recorded"]
    /\ UNCHANGED <<now, database, logs, history>>

(* audit::record.                                                           *)
Record(s) ==
    /\ Is(s, "opened")
    /\ audit' = audit \cup {s}
    /\ slot' = [slot EXCEPT ![s].at = "recorded"]
    /\ UNCHANGED <<now, database, answered, history>>

Answer(s) ==
    /\ Is(s, "recorded")
    /\ answered' = [what |-> slot[s].what, origin |-> slot[s].origin,
                    version |-> slot[s].version, audited |-> s \in audit]
    /\ Frees(s)
    /\ UNCHANGED <<now, database, history>>

(* The database fails a step: nothing more is done, nothing is answered.    *)
Fails(s) ==
    /\ slot[s] # None /\ ~Is(s, "recorded")
    /\ Frees(s)
    /\ UNCHANGED <<now, database, answered, history>>

-----------------------------------------------------------------------------
(* Meanwhile: Credentials, Permissions and SignIns have these in full.      *)

Update(url, secret) ==
    /\ secret => entry.version < MaxVersion
    /\ entry' = [entry EXCEPT !.url = url, !.version = IF secret THEN @ + 1 ELSE @]
    /\ pairs' = pairs \cup {[version |-> entry'.version, url |-> url]}
    /\ UNCHANGED <<now, blocked, reveals, codes, tokens, slot, logs, tries, opened>>

Bin ==
    /\ entry' = [entry EXCEPT !.bin = ~@]
    /\ UNCHANGED <<now, blocked, reveals, codes, tokens, slot, logs, history>>

Regrant ==
    /\ reveals' = ~reveals
    /\ UNCHANGED <<now, blocked, codes, tokens, entry, slot, logs, history>>

Block ==
    /\ blocked' = ~blocked
    /\ tokens' = [t \in Token |-> IF tokens[t] = None THEN None ELSE Gone]
    /\ UNCHANGED <<now, reveals, codes, entry, slot, logs, history>>

Tick ==
    /\ now < MaxTime
    /\ now' = now + 1
    /\ UNCHANGED <<database, slot, logs, history>>

Whats == {"fill", "copy", "fill code", "copy code"}

Next ==
    \/ Purge \/ Bin \/ Regrant \/ Block \/ Tick
    \/ \E c \in Code : CreateCode(c)
    \/ \E t \in Token : End(t)
    \/ \E url \in Urls, secret \in BOOLEAN : Update(url, secret)
    \/ \E s \in Slot :
         \/ \E c \in Code, right \in BOOLEAN : Exchange(s, c, right)
         \/ \E t \in Token : \/ Connected(s, t)
                             \/ \E what \in Whats, origin \in Origins \cup {None} : Ask(s, t, what, origin)
         \/ \E version \in 1 .. MaxVersion : Show(s, version)
         \/ Open(s) \/ Record(s) \/ Answer(s) \/ Fails(s)

Spec == Init /\ [][Next]_extensionVars

-----------------------------------------------------------------------------
TypeOK ==
    /\ now \in 0 .. MaxTime /\ blocked \in BOOLEAN /\ reveals \in BOOLEAN
    /\ entry.version \in 1 .. MaxVersion /\ entry.url \in Urls /\ entry.bin \in BOOLEAN

(* "The code is used up by the first attempt, right or wrong": a code is    *)
(* answered once, and opens at most one session, whoever else has it.       *)
CodeTradedOnce == \A c \in Code : tries[c] <= 1 /\ opened[c] <= 1

(* "Every time audited before the value leaves the server", though each     *)
(* step may fail.                                                           *)
HandedOutIsAudited == answered # None => answered.audited

(* "A slip in the extension cannot send a password elsewhere": a password   *)
(* filled into a page is one that went with a URL the page belongs to, even *)
(* if the login's URL and password change while it is handed out.           *)
FilledBelongs ==
    answered # None /\ answered.what = "fill" =>
        \E p \in pairs : p.version = answered.version /\ Matches(p.url, answered.origin)
=============================================================================
