---------------------------- MODULE AccessStore ----------------------------
(***************************************************************************)
(* The customer's access (crates/connector/src/access.rs, inventory.rs,    *)
(* journal.rs): `access.json` and `inventory.json` in the connector's data *)
(* directory, the journal beside them, and the Gate through which the      *)
(* running connector follows the files.                                    *)
(*                                                                         *)
(* Three kinds of writers change the files with the same functions: the    *)
(* requests of the web interface, each on a thread of the connector, the   *)
(* command line, each time a process of its own, and the connector's       *)
(* follow loop, which closes what ran out. No lock is held across a load   *)
(* and a save, so every read and write of a file is a step here.           *)
(***************************************************************************)
EXTENDS Naturals, Sequences, FiniteSets

CONSTANTS
  Device, Group,  \* names the customer's list may hold
  Request,        \* requests of remotehub the customer may approve
  Web, Cli,       \* operations in flight: of the web interface, of the command line
  MaxTime,        \* bound on the clock; 0 leaves only openings without end
  MaxOps,         \* bound on the customer's operations
  OneAtATime,     \* whether the customer begins an operation only after the last
  Torn,           \* the content of a file that is truncated and not written yet
  Mixed,          \* a shorter content written over a longer one, whose tail is left
  Missing         \* the content of a file that does not exist

ASSUME BoundsAssumption == MaxTime \in Nat /\ MaxOps \in Nat /\ OneAtATime \in BOOLEAN

Follow == "follow"
Network == "network"
Running == Web \cup {Follow}    \* inside the connector's process
Writer == Running \cup Cli
Scope == {Network} \cup Device \cup Group \cup Request
File == {"access", "list"}
Broken == {Torn, Mixed}         \* what serde_json does not read

VARIABLES
  now,
  disk,      \* access.json and inventory.json
  temp,      \* access.json.new and inventory.json.new
  journal,   \* what the journal said last about each scope
  gate,      \* Gate.state
  op,        \* the operation each writer carries out
  todo,      \* the steps it has left
  copy,      \* the file contents it has read, with its change applied
  handle,    \* which file the temporary file it opened is now
  due,       \* the scopes the follow loop still has to close
  ops        \* how many operations the customer has begun

vars == <<now, disk, temp, journal, gate, op, todo, copy, handle, due, ops>>

Closed == 0
Never == MaxTime + 1
End == 0 .. Never

Access == [Scope -> End]
List == [devices : SUBSET Device, groups : SUBSET Group, member : SUBSET (Device \X Group)]
Content == Access \cup List

NoAccess == [s \in Scope |-> Closed]
NoList == [devices |-> {}, groups |-> {}, member |-> {}]
Empty == [f \in File |-> IF f = "access" THEN NoAccess ELSE NoList]

Kind == {"change", "approve", "add_device", "remove_device", "add_group", "remove_group"}
NoOp == [kind |-> "change", scope |-> Network, end |-> Closed, groups |-> {}]
Op == [kind : Kind, scope : Scope, end : End, groups : SUBSET Group]

ASSUME NamesAssumption ==
  /\ Follow \notin Web \cup Cli
  /\ Network \notin Device \cup Group \cup Request
  /\ Device \cap Group = {} /\ Device \cap Request = {} /\ Group \cap Request = {}
  /\ Torn \notin Content /\ Mixed \notin Content

\* Both files, each with its content or in one of the conditions X.
Files(X) ==
  {d \in [File -> Content \cup X] : d["access"] \in Access \cup X /\ d["list"] \in List \cup X}

TypeOK ==
  /\ now \in 0 .. MaxTime
  /\ disk \in Files(Broken)
  /\ temp \in Files(Broken \cup {Missing})
  /\ journal \in Access
  /\ gate \in Files({})
  /\ op \in [Writer -> Op]
  /\ DOMAIN todo = Writer
  /\ copy \in [Writer -> Files({})]
  /\ handle \in [Writer -> {"temp", "file", "gone"}]
  /\ due \in SUBSET Scope
  /\ ops \in 0 .. MaxOps

-----------------------------------------------------------------------------
(* What the operations do to the files' contents.                          *)

is_open(end, at) == end > at

\* Inventory::add_device, remove_device, add_group, remove_group; `change`
\* refuses a device or group that is not on the list.
list_error(o, l) ==
  \/ o.kind = "add_device" /\ (o.scope \in l.devices \/ ~(o.groups \subseteq l.groups))
  \/ o.kind = "add_group" /\ o.scope \in l.groups
  \/ o.kind \in {"remove_device", "change"} /\ o.scope \in Device \ l.devices
  \/ o.kind \in {"remove_group", "change"} /\ o.scope \in Group \ l.groups

edit_list(o, l) ==
  CASE o.kind = "add_device" ->
         [l EXCEPT !.devices = @ \cup {o.scope}, !.member = @ \cup ({o.scope} \X o.groups)]
    [] o.kind = "remove_device" ->
         [l EXCEPT !.devices = @ \ {o.scope}, !.member = {p \in @ : p[1] # o.scope}]
    [] o.kind = "add_group" -> [l EXCEPT !.groups = @ \cup {o.scope}]
    [] o.kind = "remove_group" ->
         [l EXCEPT !.groups = @ \ {o.scope}, !.member = {p \in @ : p[2] # o.scope}]
    [] OTHER -> l

\* `change` refuses a request that is not in the file: one that closed has
\* left it.
access_error(o, a) == o.kind = "change" /\ o.scope \in Request /\ a[o.scope] = Closed

\* Fault: an end is rounded up, not down.
EditAccessRoundsUp(o, a) == [a EXCEPT ![o.scope] = o.end + 1]

\* AccessFile::set, the insertion of `approve` and the removals of
\* remove_device and remove_group; what the file does not name is closed.
edit_access(o, a) == [a EXCEPT ![o.scope] = o.end]

content_error(f, o, x) == IF f = "list" THEN list_error(o, x) ELSE access_error(o, x)
edited(f, o, x) == IF f = "list" THEN edit_list(o, x) ELSE edit_access(o, x)

\* Fault: only the network's end is looked at.
RanOutNetworkOnly(a, at) == {s \in {Network} : a[s] \in 1 .. MaxTime /\ ~is_open(a[s], at)}

\* Snapshot::ran_out: scopes with an end that has passed.
ran_out(a, at) == {s \in Scope : a[s] \in 1 .. MaxTime /\ ~is_open(a[s], at)}

-----------------------------------------------------------------------------
(* The steps of each operation, in the order of the code.                  *)

load(f) == <<<<"load", f>>>>
save(f) == <<<<"create", f>>, <<"write", f>>, <<"rename", f>>>>
append == <<<<"append", "journal">>>>
reload == <<<<"read", "access">>, <<"read", "list">>, <<"publish", "gate">>>>

\* Fault: the list is saved before the access.
StepsListFirst(kind) ==
  CASE kind = "change" -> load("list") \o load("access") \o save("access") \o append
    [] kind = "approve" -> load("access") \o save("access") \o append
    [] kind \in {"add_device", "add_group"} -> load("list") \o save("list") \o append
    [] kind \in {"remove_device", "remove_group"} ->
         load("list") \o load("access") \o save("list") \o save("access") \o append

\* Fault: the journal is written before the file.
StepsJournalFirst(kind) ==
  CASE kind = "change" -> load("list") \o load("access") \o append \o save("access")
    [] kind = "approve" -> load("access") \o append \o save("access")
    [] kind \in {"add_device", "add_group"} -> load("list") \o append \o save("list")
    [] kind \in {"remove_device", "remove_group"} ->
         load("list") \o load("access") \o append \o save("access") \o save("list")

steps(kind) ==
  CASE kind = "change" -> load("list") \o load("access") \o save("access") \o append
    [] kind = "approve" -> load("access") \o save("access") \o append
    [] kind \in {"add_device", "add_group"} -> load("list") \o save("list") \o append
    [] kind \in {"remove_device", "remove_group"} ->
         load("list") \o load("access") \o save("access") \o save("list") \o append

\* The command line's process ends after the operation; the web interface
\* and the follow loop reload the Gate.
plan(w, kind) == steps(kind) \o (IF w \in Cli THEN <<>> ELSE reload)

\* After an error Gate::set returns at once; the web interface's other
\* operations reload the Gate either way.
after_error(w) == IF w \in Web /\ op[w].kind # "change" THEN reload ELSE <<>>

Init ==
  /\ now = 0
  /\ disk = Empty
  /\ temp = [f \in File |-> Missing]
  /\ journal = NoAccess
  /\ gate = Empty
  /\ op = [w \in Writer |-> NoOp]
  /\ todo = [w \in Writer |-> <<>>]
  /\ copy = [w \in Writer |-> Empty]
  /\ handle = [w \in Writer |-> "gone"]
  /\ due = {}
  /\ ops = 0

-----------------------------------------------------------------------------
(* Operations begin.                                                       *)

Tick ==
  /\ now < MaxTime
  /\ now' = now + 1
  /\ UNCHANGED <<disk, temp, journal, gate, op, todo, copy, handle, due, ops>>

\* What the web interface and the command line accept: an end ahead or none,
\* closing, an approval until a point in time, changes of the list. Only the
\* web interface knows the requests; it closes an approved one or approves.
Offered(w) ==
  {o \in Op :
     /\ o.kind # "add_device" => o.groups = {}
     /\ o.end # Closed => o.kind \in {"change", "approve"} /\ is_open(o.end, now)
     /\ CASE o.kind = "change" -> o.scope \in Request => w \in Web /\ o.end = Closed
          [] o.kind = "approve" -> w \in Web /\ o.scope \in Request /\ o.end \in 1 .. MaxTime
          [] o.kind \in {"add_device", "remove_device"} -> o.scope \in Device
          [] OTHER -> o.scope \in Group}

Begin(w) ==
  /\ ops < MaxOps
  /\ todo[w] = <<>>
  /\ OneAtATime => \A x \in Web \cup Cli : todo[x] = <<>>
  /\ \E o \in Offered(w) :
       /\ op' = [op EXCEPT ![w] = o]
       /\ todo' = [todo EXCEPT ![w] = plan(w, o.kind)]
  /\ ops' = ops + 1
  /\ UNCHANGED <<now, disk, temp, journal, gate, copy, handle, due>>

\* Fault: the follow loop does not read the files.
FollowTickBlind ==
  /\ todo[Follow] = <<>>
  /\ due = {}
  /\ todo' = [todo EXCEPT ![Follow] = <<<<"ran_out", "gate">>>>]
  /\ UNCHANGED <<now, disk, temp, journal, gate, op, copy, handle, due, ops>>

\* Gate::follow, every second: take over the files, then close what ran out.
FollowTick ==
  /\ todo[Follow] = <<>>
  /\ due = {}
  /\ todo' = [todo EXCEPT ![Follow] = reload \o <<<<"ran_out", "gate">>>>]
  /\ UNCHANGED <<now, disk, temp, journal, gate, op, copy, handle, due, ops>>

\* The follow loop closes one of the scopes it found.
Expire(s) ==
  /\ todo[Follow] = <<>>
  /\ s \in due
  /\ due' = due \ {s}
  /\ op' = [op EXCEPT ![Follow] = [NoOp EXCEPT !.scope = s]]
  /\ todo' = [todo EXCEPT ![Follow] = plan(Follow, "change")]
  /\ UNCHANGED <<now, disk, temp, journal, gate, copy, handle, ops>>

-----------------------------------------------------------------------------
(* The steps.                                                              *)

At(w, step, f) == todo[w] # <<>> /\ Head(todo[w]) = <<step, f>>

\* The writer goes on with the steps t and what it has read, c; with none
\* left its locals go out of scope.
Continue(w, t, c) ==
  /\ todo' = [todo EXCEPT ![w] = t]
  /\ op' = IF t = <<>> THEN [op EXCEPT ![w] = NoOp] ELSE op
  /\ copy' = [copy EXCEPT ![w] = IF t = <<>> THEN Empty ELSE c]

Goes(w, c) == Continue(w, Tail(todo[w]), c)
Fails(w) == Continue(w, after_error(w), Empty)

\* Reads a file to change it, and applies the change to what it read.
Load(w, f) ==
  /\ At(w, "load", f)
  /\ \/ /\ disk[f] \notin Broken
        /\ ~content_error(f, op[w], disk[f])
        /\ Goes(w, [copy[w] EXCEPT ![f] = edited(f, op[w], disk[f])])
     \/ /\ disk[f] \notin Broken => content_error(f, op[w], disk[f])
        /\ Fails(w)
  /\ UNCHANGED <<now, disk, temp, journal, gate, handle, due, ops>>

\* Fault: the file itself is written, without a temporary one.
CreateInPlace(w, f) ==
  /\ At(w, "create", f)
  /\ disk' = [disk EXCEPT ![f] = Torn]
  /\ temp' = [temp EXCEPT ![f] = copy[w][f]]
  /\ handle' = [handle EXCEPT ![w] = "temp"]
  /\ Goes(w, copy[w])
  /\ UNCHANGED <<now, journal, gate, due, ops>>

\* std::fs::write creates the temporary file, or truncates the one there.
Create(w, f) ==
  /\ At(w, "create", f)
  /\ temp' = [temp EXCEPT ![f] = Torn]
  /\ handle' = [handle EXCEPT ![w] = "temp"]
  /\ Goes(w, copy[w])
  /\ UNCHANGED <<now, disk, journal, gate, due, ops>>

\* What a file holds after x was written from its beginning over old: of what
\* another writer put there since both opened it, a longer one leaves its tail.
Over(old, x) == IF old = Torn THEN {x} ELSE {x, Mixed}

\* The content goes to the file that was opened, under the name it has now.
Write(w, f) ==
  /\ At(w, "write", f)
  /\ \/ /\ handle[w] = "temp"
        /\ \E x \in Over(temp[f], copy[w][f]) : temp' = [temp EXCEPT ![f] = x]
        /\ UNCHANGED disk
     \/ /\ handle[w] = "file"
        /\ \E x \in Over(disk[f], copy[w][f]) : disk' = [disk EXCEPT ![f] = x]
        /\ UNCHANGED temp
     \/ /\ handle[w] = "gone"
        /\ UNCHANGED <<temp, disk>>
  /\ Goes(w, copy[w])
  /\ UNCHANGED <<now, journal, gate, handle, due, ops>>

\* Whoever else has the temporary file open has the renamed one open now,
\* and whoever had the replaced file open writes to nowhere.
Renamed(f) ==
  [x \in Writer |->
     IF todo[x] # <<>> /\ Head(todo[x])[2] = f
       THEN CASE handle[x] = "temp" -> "file" [] OTHER -> "gone"
       ELSE handle[x]]

Rename(w, f) ==
  /\ At(w, "rename", f)
  /\ \/ /\ temp[f] # Missing
        /\ disk' = [disk EXCEPT ![f] = temp[f]]
        /\ temp' = [temp EXCEPT ![f] = Missing]
        /\ handle' = [Renamed(f) EXCEPT ![w] = "gone"]
        /\ Goes(w, copy[w])
     \/ /\ temp[f] = Missing
        /\ Fails(w)
        /\ UNCHANGED <<disk, temp, handle>>
  /\ UNCHANGED <<now, journal, gate, due, ops>>

\* Journal::append; adding or removing a device or group says it is closed.
Record(w) ==
  /\ At(w, "append", "journal")
  /\ journal' = [journal EXCEPT ![op[w].scope] = op[w].end]
  /\ Goes(w, copy[w])
  /\ UNCHANGED <<now, disk, temp, gate, handle, due, ops>>

\* access::load reads access.json, then inventory.json. On an error the
\* Gate keeps its snapshot; the follow loop goes on with it.
Read(w, f) ==
  /\ At(w, "read", f)
  /\ \/ /\ disk[f] \notin Broken
        /\ Goes(w, [copy[w] EXCEPT ![f] = disk[f]])
     \/ /\ disk[f] \in Broken
        /\ Continue(w, SelectSeq(todo[w], LAMBDA step : step[1] = "ran_out"), Empty)
  /\ UNCHANGED <<now, disk, temp, journal, gate, handle, due, ops>>

\* Gate::reload's send_replace and follow's send_if_modified.
Publish(w) ==
  /\ At(w, "publish", "gate")
  /\ gate' = copy[w]
  /\ Goes(w, Empty)
  /\ UNCHANGED <<now, disk, temp, journal, handle, due, ops>>

RanOut ==
  /\ At(Follow, "ran_out", "gate")
  /\ due' = ran_out(gate["access"], now)
  /\ Goes(Follow, Empty)
  /\ UNCHANGED <<now, disk, temp, journal, gate, handle, ops>>

\* A read or a write fails (a full disk, no permission).
IoError(w) ==
  /\ todo[w] # <<>>
  /\ Head(todo[w])[1] \in {"load", "create", "write", "rename"}
  /\ Fails(w)
  /\ UNCHANGED <<now, disk, temp, journal, gate, handle, due, ops>>

-----------------------------------------------------------------------------
(* Crashes.                                                                *)

\* The connector's process ends and starts again; Gate::new needs readable
\* files.
Restart ==
  /\ \A f \in File : disk[f] \notin Broken
  /\ todo' = [w \in Writer |-> IF w \in Running THEN <<>> ELSE todo[w]]
  /\ op' = [w \in Writer |-> IF w \in Running THEN NoOp ELSE op[w]]
  /\ copy' = [w \in Writer |-> IF w \in Running THEN Empty ELSE copy[w]]
  /\ gate' = disk
  /\ due' = {}
  /\ UNCHANGED <<now, disk, temp, journal, handle, ops>>

\* The command line's process is killed.
Kill(w) ==
  /\ todo[w] # <<>>
  /\ Continue(w, <<>>, Empty)
  /\ UNCHANGED <<now, disk, temp, journal, gate, handle, due, ops>>

-----------------------------------------------------------------------------
Step(w) ==
  \/ \E f \in File : Load(w, f) \/ Create(w, f) \/ Write(w, f) \/ Rename(w, f) \/ Read(w, f)
  \/ Record(w)
  \/ Publish(w)

FollowLoop ==
  \/ FollowTick
  \/ Step(Follow)
  \/ RanOut
  \/ \E s \in Scope : Expire(s)

Work ==
  \/ Tick
  \/ FollowLoop
  \/ \E w \in Web \cup Cli : Begin(w) \/ Step(w)

Next ==
  \/ Work
  \/ \E w \in Writer : IoError(w)
  \/ Restart
  \/ \E w \in Cli : Kill(w)

Spec == Init /\ [][Next]_vars

\* Without crashes and failing disks: what concurrency alone does.
WorkSpec == Init /\ [][Work]_vars

\* The interval ticks, and threads and processes that can go on do.
FairSpec ==
  /\ WorkSpec
  /\ WF_vars(FollowLoop)
  /\ \A w \in Web \cup Cli : WF_vars(Step(w))

-----------------------------------------------------------------------------
\* "Written beside it and renamed, so a reader never sees half a file"
\* (access.rs:333, inventory.rs:233).
NeverHalfAFile == \A f \in File : disk[f] \notin Broken

\* One writer at a time: the files are whole, and what is open in access.json
\* is on the list, whatever crashes in between: remove_device and remove_group
\* save the access before the list. Else a device or group added later under
\* the same name would not be closed.
OpenIsListed ==
  /\ NeverHalfAFile
  /\ \A s \in Device \cup Group :
      disk["access"][s] # Closed => s \in disk["list"].devices \cup disk["list"].groups

\* The journal records a change only when the files have it (access.rs:392).
JournalFollowsFile ==
  [][\A s \in Scope :
       journal'[s] # journal[s] => disk["access"] \notin Broken /\ disk["access"][s] = journal'[s]]_vars

Overdue(s) == disk["access"][s] \in 1 .. now
OffTheList(s) == s \in (Device \ disk["list"].devices) \cup (Group \ disk["list"].groups)

\* However stale the snapshots that overtake each other on their way into the
\* Gate, and whoever writes at the same time, once the files stop changing and
\* can be read the Gate has what they say, and nothing is open in them that ran
\* out and is still on the list. A file that two writers mixed stays as it is:
\* every operation reads it first and fails, and the Gate keeps what it had.
GateConverges ==
  <>[][FALSE]_disk =>
    <>[](NeverHalfAFile => gate = disk /\ \A s \in Scope : Overdue(s) => OffTheList(s))
=============================================================================
