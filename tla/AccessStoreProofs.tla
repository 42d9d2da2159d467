-------------------------- MODULE AccessStoreProofs --------------------------
(***************************************************************************)
(* Theorems about the customer's access, for any devices, groups and       *)
(* requests and any number of writers.  The types hold whoever writes at   *)
(* the same time.  With one writer at a time the files are whole, nothing  *)
(* is open that is not on the list, and the journal follows the files,     *)
(* whatever fails or crashes in between.                                   *)
(***************************************************************************)
EXTENDS AccessStore, TLAPS


\* Operations fit what they are about; only a change or an approval opens.
Fits(o) ==
  /\ o \in Op
  /\ o.end # Closed => o.kind \in {"change", "approve"}
  /\ o.kind \in {"add_device", "remove_device"} => o.scope \in Device
  /\ o.kind \in {"add_group", "remove_group"} => o.scope \in Group
  /\ o.kind = "approve" => o.scope \in Request

\* The types, with what the edits need to know of the operations.
Typed == TypeOK /\ \A w \in Writer : Fits(op[w])

\* A sequence has its length as its domain, and its elements are of
\* its kind.
LEMMA LengthIs ==
  ASSUME NEW S, NEW s \in Seq(S)
  PROVE  /\ Len(s) \in Nat /\ DOMAIN s = 1 .. Len(s) /\ (s = <<>> <=> Len(s) = 0)
         /\ \A i \in 1 .. Len(s) : s[i] \in S
  OBVIOUS

\* What is left of a queue once its first element is taken.
LEMMA FirstAndRest ==
  ASSUME NEW S, NEW s \in Seq(S), s # <<>>
  PROVE  /\ Head(s) = s[1] /\ Head(s) \in S /\ Tail(s) \in Seq(S)
         /\ Len(s) \in Nat \ {0} /\ Len(Tail(s)) = Len(s) - 1
         /\ \A i \in 1 .. Len(Tail(s)) : Tail(s)[i] = s[i + 1]
<1>1. Len(s) \in Nat \ {0}
  OBVIOUS
<1>2. Head(s) = s[1] /\ s[1] \in S
  BY <1>1
<1>3. Tail(s) \in Seq(S) /\ Len(Tail(s)) = Len(s) - 1
  BY <1>1
<1>4. \A i \in 1 .. Len(Tail(s)) : Tail(s)[i] = s[i + 1]
  BY <1>1, <1>3
<1> QED
  BY <1>1, <1>2, <1>3, <1>4

\* One sequence after another.
LEMMA JoinedIs ==
  ASSUME NEW S, NEW s \in Seq(S), NEW t \in Seq(S)
  PROVE  /\ s \o t \in Seq(S) /\ Len(s \o t) = Len(s) + Len(t)
         /\ \A i \in 1 .. Len(s) + Len(t) :
              (s \o t)[i] = IF i <= Len(s) THEN s[i] ELSE t[i - Len(s)]
<1>1. s \o t \in Seq(S) /\ Len(s \o t) = Len(s) + Len(t)
  OBVIOUS
<1>2. \A i \in 1 .. Len(s) + Len(t) :
        (s \o t)[i] = IF i <= Len(s) THEN s[i] ELSE t[i - Len(s)]
  OBVIOUS
<1> QED
  BY <1>1, <1>2

\* Nothing before or after a sequence leaves it as it is.
LEMMA JoinedEmpty ==
  ASSUME NEW S, NEW s \in Seq(S)
  PROVE  <<>> \o s = s /\ s \o <<>> = s
  OBVIOUS

LEMMA NoOpFits == Fits(NoOp)
  BY BoundsAssumption DEF Fits, NoOp, Op, Kind, Scope, End, Closed, Never

LEMMA EmptyIsFiles == Empty \in Files({}) /\ \A X : Empty \in Files(X)
<1>1. NoAccess \in Access
  BY BoundsAssumption DEF NoAccess, Access, End, Closed, Never
<1>2. NoList \in List
  BY DEF NoList, List
<1>3. Empty["access"] = NoAccess /\ Empty["list"] = NoList /\ DOMAIN Empty = File
  BY DEF Empty, File
<1>4. \A X : Empty \in [File -> Content \cup X]
  BY <1>1, <1>2 DEF Empty, File, Content
<1> QED
  BY <1>1, <1>2, <1>3, <1>4 DEF Files

\* What is stored of one file.
LEMMA StoreOne ==
  ASSUME NEW X, NEW d \in Files(X), NEW f \in File, NEW x,
         f = "access" => x \in Access \cup X,
         f = "list" => x \in List \cup X
  PROVE  [d EXCEPT ![f] = x] \in Files(X)
<1>1. x \in Content \cup X
  BY DEF File, Content
<1>2. d \in [File -> Content \cup X]
  BY DEF Files
<1>3. [d EXCEPT ![f] = x] \in [File -> Content \cup X]
  BY <1>1, <1>2
<1>4. /\ [d EXCEPT ![f] = x]["access"] \in Access \cup X
      /\ [d EXCEPT ![f] = x]["list"] \in List \cup X
  BY <1>2 DEF Files, File
<1> QED
  BY <1>3, <1>4, Zenon DEF Files

LEMMA OneOf ==
  ASSUME NEW X, NEW d \in Files(X)
  PROVE  /\ \A f \in File : f = "access" => d[f] \in Access \cup X
         /\ \A f \in File : f = "list" => d[f] \in List \cup X
  BY DEF Files, File

\* An operation makes of an access an access, and of a list a list.
LEMMA EditAccessType ==
  ASSUME NEW o, Fits(o), NEW a \in Access
  PROVE  edit_access(o, a) \in Access
  BY DEF Fits, Op, edit_access, Access

LEMMA EditListType ==
  ASSUME NEW o, Fits(o), NEW l \in List
  PROVE  edit_list(o, l) \in List
<1>1. o \in Op /\ o.groups \subseteq Group /\ o.kind \in Kind
  BY DEF Fits, Op
<1>2. l.devices \subseteq Device /\ l.groups \subseteq Group /\ l.member \subseteq Device \X Group
  BY DEF List
<1>3. CASE o.kind = "add_device"
  <2>1. o.scope \in Device
    BY <1>3 DEF Fits
  <2>2. {o.scope} \X o.groups \subseteq Device \X Group
    BY <1>1, <2>1
  <2> DEFINE dev == l.devices \cup {o.scope}
             mem == l.member \cup ({o.scope} \X o.groups)
  <2>3. dev \in SUBSET Device /\ mem \in SUBSET (Device \X Group)
    BY <1>2, <2>1, <2>2
  <2>4. edit_list(o, l) = [l EXCEPT !.devices = dev, !.member = mem]
    BY <1>3 DEF edit_list
  <2> HIDE DEF dev, mem
  <2> QED
    BY <2>3, <2>4, Zenon DEF List
<1>4. CASE o.kind = "remove_device"
  <2> DEFINE dev == l.devices \ {o.scope}
             mem == {p \in l.member : p[1] # o.scope}
  <2>1. dev \in SUBSET Device /\ mem \in SUBSET (Device \X Group)
    BY <1>2
  <2>2. edit_list(o, l) = [l EXCEPT !.devices = dev, !.member = mem]
    BY <1>4 DEF edit_list
  <2> HIDE DEF dev, mem
  <2> QED
    BY <2>1, <2>2, Zenon DEF List
<1>5. CASE o.kind = "add_group"
  <2> DEFINE grp == l.groups \cup {o.scope}
  <2>1. grp \in SUBSET Group
    BY <1>2, <1>5 DEF Fits
  <2>2. edit_list(o, l) = [l EXCEPT !.groups = grp]
    BY <1>5 DEF edit_list
  <2> HIDE DEF grp
  <2> QED
    BY <2>1, <2>2 DEF List
<1>6. CASE o.kind = "remove_group"
  <2> DEFINE grp == l.groups \ {o.scope}
             mem == {p \in l.member : p[2] # o.scope}
  <2>1. grp \in SUBSET Group /\ mem \in SUBSET (Device \X Group)
    BY <1>2
  <2>2. edit_list(o, l) = [l EXCEPT !.groups = grp, !.member = mem]
    BY <1>6 DEF edit_list
  <2> HIDE DEF grp, mem
  <2> QED
    BY <2>1, <2>2, Zenon DEF List
<1>7. CASE o.kind \in {"change", "approve"}
  BY <1>7 DEF edit_list
<1> QED
  BY <1>1, <1>3, <1>4, <1>5, <1>6, <1>7 DEF Kind

LEMMA EditedType ==
  ASSUME NEW o, Fits(o), NEW f \in File, NEW x,
         f = "access" => x \in Access,
         f = "list" => x \in List
  PROVE  /\ f = "access" => edited(f, o, x) \in Access
         /\ f = "list" => edited(f, o, x) \in List
  BY EditAccessType, EditListType DEF edited, File

-----------------------------------------------------------------------------
(* Type correctness.                                                       *)

\* What serde_json does not read is no content.
LEMMA WholeIsNotBroken == \A x \in Content : x \notin Broken
  BY NamesAssumption DEF Broken

LEMMA InitTyped ==
  ASSUME Init
  PROVE  Typed
<1>1. NoOp \in Op
  BY NoOpFits DEF Fits
<1>2. now \in 0 .. MaxTime /\ ops \in 0 .. MaxOps /\ due \in SUBSET Scope
  BY BoundsAssumption DEF Init
<1>3. disk \in Files(Broken) /\ gate \in Files({})
  BY EmptyIsFiles DEF Init
<1>4. temp \in Files(Broken \cup {Missing})
  <2>1. temp \in [File -> Content \cup (Broken \cup {Missing})]
    BY DEF Init
  <2> QED
    BY <2>1 DEF Init, Files, File
<1>5. journal \in Access
  BY BoundsAssumption DEF Init, NoAccess, Access, End, Closed, Never
<1>6. op \in [Writer -> Op] /\ \A w \in Writer : Fits(op[w])
  BY <1>1, NoOpFits DEF Init
<1>7. copy \in [Writer -> Files({})]
  BY EmptyIsFiles DEF Init
<1>8. handle \in [Writer -> {"temp", "file", "gone"}] /\ DOMAIN todo = Writer
  BY DEF Init
<1> QED
  BY <1>2, <1>3, <1>4, <1>5, <1>6, <1>7, <1>8 DEF Typed, TypeOK

LEMMA ContinueTyped ==
  ASSUME Typed, NEW w \in Writer, NEW t, NEW c \in Files({}), Continue(w, t, c)
  PROVE  /\ op' \in [Writer -> Op] /\ \A x \in Writer : Fits(op'[x])
         /\ DOMAIN todo' = Writer
         /\ copy' \in [Writer -> Files({})]
<1>1. DOMAIN todo' = Writer
  BY DEF Continue, Typed, TypeOK
<1>2. op' \in [Writer -> Op] /\ \A x \in Writer : Fits(op'[x])
  <2>1. CASE t = <<>>
    <3>1. op' = [op EXCEPT ![w] = NoOp]
      BY <2>1 DEF Continue
    <3>2. NoOp \in Op
      BY NoOpFits DEF Fits
    <3> QED
      BY <3>1, <3>2, NoOpFits DEF Typed, TypeOK
  <2>2. CASE t # <<>>
    BY <2>2 DEF Continue, Typed, TypeOK
  <2> QED
    BY <2>1, <2>2
<1>3. copy' \in [Writer -> Files({})]
  <2> DEFINE new == IF t = <<>> THEN Empty ELSE c
  <2>1. new \in Files({})
    BY EmptyIsFiles
  <2>2. copy' = [copy EXCEPT ![w] = new]
    BY DEF Continue
  <2> HIDE DEF new
  <2> QED
    BY <2>1, <2>2 DEF Typed, TypeOK
<1> QED
  BY <1>1, <1>2, <1>3

\* A step that continues a writer and changes nothing else.
LEMMA OnlyContinues ==
  ASSUME Typed, NEW w \in Writer, NEW t, NEW c \in Files({}), Continue(w, t, c),
         UNCHANGED <<now, disk, temp, journal, gate, handle, due, ops>>
  PROVE  Typed'
<1>1. /\ op' \in [Writer -> Op] /\ \A x \in Writer : Fits(op'[x])
      /\ DOMAIN todo' = Writer
      /\ copy' \in [Writer -> Files({})]
  BY ContinueTyped
<1> QED
  BY <1>1 DEF Typed, TypeOK

LEMMA CopyType ==
  ASSUME Typed, NEW w \in Writer
  PROVE  /\ copy[w] \in Files({}) /\ Fits(op[w])
         /\ \A f \in File : f = "access" => copy[w][f] \in Access
         /\ \A f \in File : f = "list" => copy[w][f] \in List
<1>1. copy[w] \in Files({}) /\ Fits(op[w])
  BY DEF Typed, TypeOK
<1> QED
  BY <1>1, OneOf

\* A file that is whole.
LEMMA WholeType ==
  ASSUME Typed, NEW f \in File, disk[f] \notin Broken
  PROVE  /\ f = "access" => disk[f] \in Access
         /\ f = "list" => disk[f] \in List
  BY OneOf DEF Typed, TypeOK

LEMMA LoadTyped ==
  ASSUME Typed, NEW w \in Writer, NEW f \in File, Load(w, f)
  PROVE  Typed'
<1>1. UNCHANGED <<now, disk, temp, journal, gate, handle, due, ops>>
  BY DEF Load
<1>2. CASE Fails(w)
  BY <1>1, <1>2, EmptyIsFiles, OnlyContinues DEF Fails
<1>3. CASE disk[f] \notin Broken /\ Goes(w, [copy[w] EXCEPT ![f] = edited(f, op[w], disk[f])])
  <2> DEFINE x == edited(f, op[w], disk[f])
             c == [copy[w] EXCEPT ![f] = x]
  <2>1. (f = "access" => x \in Access) /\ (f = "list" => x \in List)
    BY <1>3, WholeType, CopyType, EditedType
  <2> HIDE DEF x
  <2>2. c \in Files({})
    BY <2>1, CopyType, StoreOne, Zenon
  <2>3. Continue(w, Tail(todo[w]), c)
    BY <1>3 DEF Goes, x
  <2> HIDE DEF c
  <2> QED
    BY <1>1, <2>2, <2>3, OnlyContinues
<1> QED
  BY <1>2, <1>3 DEF Load

LEMMA ReadTyped ==
  ASSUME Typed, NEW w \in Writer, NEW f \in File, Read(w, f)
  PROVE  Typed'
<1>1. UNCHANGED <<now, disk, temp, journal, gate, handle, due, ops>>
  BY DEF Read
<1>2. CASE Continue(w, SelectSeq(todo[w], LAMBDA step : step[1] = "ran_out"), Empty)
  BY <1>1, <1>2, EmptyIsFiles, OnlyContinues
<1>3. CASE disk[f] \notin Broken /\ Goes(w, [copy[w] EXCEPT ![f] = disk[f]])
  <2> DEFINE c == [copy[w] EXCEPT ![f] = disk[f]]
  <2>1. c \in Files({})
    BY <1>3, WholeType, CopyType, StoreOne, Zenon
  <2>2. Continue(w, Tail(todo[w]), c)
    BY <1>3 DEF Goes
  <2> HIDE DEF c
  <2> QED
    BY <1>1, <2>1, <2>2, OnlyContinues
<1> QED
  BY <1>2, <1>3 DEF Read

LEMMA CreateTyped ==
  ASSUME Typed, NEW w \in Writer, NEW f \in File, Create(w, f)
  PROVE  Typed'
<1>1. /\ op' \in [Writer -> Op] /\ \A x \in Writer : Fits(op'[x])
      /\ DOMAIN todo' = Writer
      /\ copy' \in [Writer -> Files({})]
  BY CopyType, ContinueTyped DEF Create, Goes
<1>2. temp' \in Files(Broken \cup {Missing})
  <2>1. temp \in Files(Broken \cup {Missing}) /\ temp' = [temp EXCEPT ![f] = Torn]
    BY Zenon DEF Create, Typed, TypeOK
  <2>2. Torn \in Access \cup (Broken \cup {Missing}) /\ Torn \in List \cup (Broken \cup {Missing})
    BY DEF Broken
  <2> QED
    BY <2>1, <2>2, StoreOne, Zenon
<1>3. handle' \in [Writer -> {"temp", "file", "gone"}]
  BY DEF Create, Typed, TypeOK
<1> QED
  BY <1>1, <1>2, <1>3 DEF Create, Typed, TypeOK

LEMMA WriteTyped ==
  ASSUME Typed, NEW w \in Writer, NEW f \in File, Write(w, f)
  PROVE  Typed'
<1>1. /\ op' \in [Writer -> Op] /\ \A x \in Writer : Fits(op'[x])
      /\ DOMAIN todo' = Writer
      /\ copy' \in [Writer -> Files({})]
  BY CopyType, ContinueTyped DEF Write, Goes
<1>2. ASSUME NEW X, Broken \subseteq X, NEW d \in Files(X), NEW old, NEW x \in Over(old, copy[w][f])
      PROVE  [d EXCEPT ![f] = x] \in Files(X)
  <2>1. x = copy[w][f] \/ x \in X
    BY <1>2 DEF Over, Broken
  <2>2. (f = "access" => x \in Access \cup X) /\ (f = "list" => x \in List \cup X)
    BY <2>1, CopyType
  <2> QED
    BY <2>2, StoreOne, Zenon
<1>3. temp' \in Files(Broken \cup {Missing}) /\ disk' \in Files(Broken)
  <2>1. temp \in Files(Broken \cup {Missing}) /\ disk \in Files(Broken)
    BY DEF Typed, TypeOK
  <2>2. CASE /\ \E x \in Over(temp[f], copy[w][f]) : temp' = [temp EXCEPT ![f] = x]
             /\ UNCHANGED disk
    <3>1. Broken \subseteq Broken \cup {Missing}
      OBVIOUS
    <3>2. PICK x \in Over(temp[f], copy[w][f]) : temp' = [temp EXCEPT ![f] = x]
      BY <2>2
    <3>3. temp' \in Files(Broken \cup {Missing})
      BY <1>2, <2>1, <3>1, <3>2, Zenon
    <3> QED
      BY <2>1, <2>2, <3>3
  <2>3. CASE /\ \E x \in Over(disk[f], copy[w][f]) : disk' = [disk EXCEPT ![f] = x]
             /\ UNCHANGED temp
    <3>1. PICK x \in Over(disk[f], copy[w][f]) : disk' = [disk EXCEPT ![f] = x]
      BY <2>3
    <3>2. disk' \in Files(Broken)
      BY <1>2, <2>1, <3>1, Zenon
    <3> QED
      BY <2>1, <2>3, <3>2
  <2>4. CASE UNCHANGED <<temp, disk>>
    BY <2>1, <2>4
  <2> QED
    BY <2>2, <2>3, <2>4, Zenon DEF Write
<1> QED
  BY <1>1, <1>3 DEF Write, Typed, TypeOK

LEMMA RenameTyped ==
  ASSUME Typed, NEW w \in Writer, NEW f \in File, Rename(w, f)
  PROVE  Typed'
<1>1. CASE Fails(w) /\ UNCHANGED <<disk, temp, handle>>
  BY <1>1, EmptyIsFiles, OnlyContinues DEF Rename, Fails
<1>2. CASE /\ temp[f] # Missing
           /\ disk' = [disk EXCEPT ![f] = temp[f]]
           /\ temp' = [temp EXCEPT ![f] = Missing]
           /\ handle' = [Renamed(f) EXCEPT ![w] = "gone"]
           /\ Goes(w, copy[w])
  <2>1. /\ op' \in [Writer -> Op] /\ \A x \in Writer : Fits(op'[x])
        /\ DOMAIN todo' = Writer
        /\ copy' \in [Writer -> Files({})]
    BY <1>2, CopyType, ContinueTyped DEF Goes
  <2>2. disk' \in Files(Broken)
    <3>1. (f = "access" => temp[f] \in Access \cup Broken) /\ (f = "list" => temp[f] \in List \cup Broken)
      BY <1>2, OneOf DEF Typed, TypeOK
    <3> QED
      BY <1>2, <3>1, StoreOne, Zenon DEF Typed, TypeOK
  <2>3. temp' \in Files(Broken \cup {Missing})
    BY <1>2, StoreOne, Zenon DEF Typed, TypeOK
  <2>4. Renamed(f) \in [Writer -> {"temp", "file", "gone"}]
    BY DEF Renamed, Typed, TypeOK
  <2>5. handle' \in [Writer -> {"temp", "file", "gone"}]
    BY <1>2, <2>4
  <2> QED
    BY <2>1, <2>2, <2>3, <2>5 DEF Rename, Typed, TypeOK
<1> QED
  BY <1>1, <1>2 DEF Rename
LEMMA RecordTyped ==
  ASSUME Typed, NEW w \in Writer, Record(w)
  PROVE  Typed'
<1>1. /\ op' \in [Writer -> Op] /\ \A x \in Writer : Fits(op'[x])
      /\ DOMAIN todo' = Writer
      /\ copy' \in [Writer -> Files({})]
  BY CopyType, ContinueTyped DEF Record, Goes
<1>2. op[w].scope \in Scope /\ op[w].end \in End
  BY DEF Typed, TypeOK, Op
<1>3. journal' \in Access
  BY <1>2 DEF Record, Typed, TypeOK, Access
<1> QED
  BY <1>1, <1>3 DEF Record, Typed, TypeOK

LEMMA PublishTyped ==
  ASSUME Typed, NEW w \in Writer, Publish(w)
  PROVE  Typed'
<1>1. /\ op' \in [Writer -> Op] /\ \A x \in Writer : Fits(op'[x])
      /\ DOMAIN todo' = Writer
      /\ copy' \in [Writer -> Files({})]
  BY EmptyIsFiles, ContinueTyped DEF Publish, Goes
<1>2. gate' \in Files({})
  BY CopyType DEF Publish
<1> QED
  BY <1>1, <1>2 DEF Publish, Typed, TypeOK

LEMMA RanOutTyped ==
  ASSUME Typed, RanOut
  PROVE  Typed'
<1>1. Follow \in Writer
  BY DEF Writer, Running
<1>2. /\ op' \in [Writer -> Op] /\ \A x \in Writer : Fits(op'[x])
      /\ DOMAIN todo' = Writer
      /\ copy' \in [Writer -> Files({})]
  BY <1>1, EmptyIsFiles, ContinueTyped DEF RanOut, Goes
<1>3. due' \in SUBSET Scope
  BY DEF RanOut, ran_out
<1> QED
  BY <1>2, <1>3 DEF RanOut, Typed, TypeOK

LEMMA RestartTyped ==
  ASSUME Typed, Restart
  PROVE  Typed'
<1>1. op' \in [Writer -> Op] /\ \A x \in Writer : Fits(op'[x])
  <2>1. NoOp \in Op
    BY NoOpFits DEF Fits
  <2>2. op' = [w \in Writer |-> IF w \in Running THEN NoOp ELSE op[w]]
    BY DEF Restart
  <2> QED
    BY <2>1, <2>2, NoOpFits DEF Typed, TypeOK
<1>2. copy' \in [Writer -> Files({})] /\ DOMAIN todo' = Writer
  BY EmptyIsFiles DEF Restart, Typed, TypeOK
<1>3. gate' \in Files({})
  <2>1. disk["access"] \in Access /\ disk["list"] \in List
    BY WholeType DEF Restart, File
  <2>2. disk \in [File -> Content \cup Broken]
    BY DEF Typed, TypeOK, Files
  <2>3. \A f \in File : disk[f] \in Content
    BY <2>1 DEF File, Content
  <2>4. disk \in [File -> Content]
    BY <2>2, <2>3
  <2> QED
    BY <2>1, <2>4 DEF Restart, Files
<1> QED
  BY <1>1, <1>2, <1>3 DEF Restart, Typed, TypeOK

LEMMA BeginTyped ==
  ASSUME Typed, NEW w \in Web \cup Cli, Begin(w)
  PROVE  Typed' /\ \E o \in Offered(w) : /\ op' = [op EXCEPT ![w] = o]
                                         /\ todo' = [todo EXCEPT ![w] = plan(w, o.kind)]
<1>1. PICK o \in Offered(w) : /\ op' = [op EXCEPT ![w] = o]
                              /\ todo' = [todo EXCEPT ![w] = plan(w, o.kind)]
  BY Zenon DEF Begin
<1>2. w \in Writer
  BY DEF Writer, Running
<1>3. Fits(o)
  <2>1. o \in Op /\ o.kind \in Kind
    BY DEF Offered, Op
  <2>2. o.end # Closed => o.kind \in {"change", "approve"}
    BY DEF Offered
  <2>3. o.kind \in {"add_device", "remove_device"} => o.scope \in Device
    BY DEF Offered
  <2>4. o.kind \in {"add_group", "remove_group"} => o.scope \in Group
    BY DEF Offered
  <2>5. o.kind = "approve" => o.scope \in Request
    BY DEF Offered
  <2> QED
    BY <2>1, <2>2, <2>3, <2>4, <2>5 DEF Fits
<1>4. op' \in [Writer -> Op] /\ \A x \in Writer : Fits(op'[x])
  BY <1>1, <1>2, <1>3 DEF Fits, Typed, TypeOK
<1>5. DOMAIN todo' = Writer
  BY <1>1 DEF Typed, TypeOK
<1>6. ops' \in 0 .. MaxOps
  BY BoundsAssumption DEF Begin, Typed, TypeOK
<1>7. Typed'
  BY <1>4, <1>5, <1>6 DEF Begin, Typed, TypeOK
<1> QED
  BY <1>1, <1>7, Zenon

LEMMA ExpireTyped ==
  ASSUME Typed, NEW s \in Scope, Expire(s)
  PROVE  Typed'
<1>1. Follow \in Writer
  BY DEF Writer, Running
<1>2. Fits([NoOp EXCEPT !.scope = s])
  BY BoundsAssumption DEF Fits, NoOp, Op, Kind, Scope, End, Closed, Never
<1>3. [NoOp EXCEPT !.scope = s] \in Op
  BY <1>2 DEF Fits
<1>4. op' \in [Writer -> Op] /\ \A x \in Writer : Fits(op'[x])
  BY <1>1, <1>2, <1>3 DEF Expire, Typed, TypeOK
<1> QED
  BY <1>4 DEF Expire, Typed, TypeOK

LEMMA StepTyped ==
  ASSUME Typed, NEW w \in Writer, Step(w)
  PROVE  Typed'
  BY LoadTyped, CreateTyped, WriteTyped, RenameTyped, ReadTyped, RecordTyped, PublishTyped
     DEF Step

LEMMA NextTyped ==
  ASSUME Typed, [Next]_vars
  PROVE  Typed'
<1>1. CASE UNCHANGED vars
  BY <1>1 DEF vars, Typed, TypeOK
<1>2. CASE Tick
  <2>1. now' \in 0 .. MaxTime
    BY <1>2, BoundsAssumption DEF Tick, Typed, TypeOK
  <2> QED
    BY <1>2, <2>1 DEF Tick, Typed, TypeOK
<1>3. CASE FollowTick
  BY <1>3 DEF FollowTick, Typed, TypeOK
<1>4. CASE RanOut
  BY <1>4, RanOutTyped
<1>5. ASSUME NEW s \in Scope, Expire(s)
      PROVE  Typed'
  BY <1>5, ExpireTyped
<1>6. ASSUME NEW w \in Web \cup Cli, Begin(w)
      PROVE  Typed'
  BY <1>6, BeginTyped
<1>7. ASSUME NEW w \in Writer, Step(w)
      PROVE  Typed'
  BY <1>7, StepTyped
<1>8. ASSUME NEW w \in Writer, IoError(w)
      PROVE  Typed'
  BY <1>8, EmptyIsFiles, OnlyContinues DEF IoError, Fails
<1>9. CASE Restart
  BY <1>9, RestartTyped
<1>10. ASSUME NEW w \in Cli, Kill(w)
       PROVE  Typed'
  BY <1>10, EmptyIsFiles, OnlyContinues DEF Kill, Writer
<1>11. Follow \in Writer /\ Web \cup Cli \subseteq Writer
  BY DEF Writer, Running
<1> QED
  BY <1>1, <1>2, <1>3, <1>4, <1>5, <1>6, <1>7, <1>8, <1>9, <1>10, <1>11
     DEF Next, Work, FollowLoop

\* However many writers change the files at the same time: a file that is not
\* torn holds what the code can read, and the Gate and every copy always do.
THEOREM TypeCorrect == Spec => []TypeOK
<1>1. Init => Typed
  BY InitTyped
<1>2. Typed /\ [Next]_vars => Typed'
  BY NextTyped
<1>3. Typed => TypeOK
  BY DEF Typed
<1> QED
  BY <1>1, <1>2, <1>3, PTL DEF Spec
-----------------------------------------------------------------------------
(* The steps that a writer has left.                                       *)

\* Every operation takes its steps in the order of this list; the two saves are
\* made of three.
Steps ==
  {<<"load", "list">>, <<"load", "access">>, <<"create", "access">>, <<"write", "access">>,
   <<"rename", "access">>, <<"create", "list">>, <<"write", "list">>, <<"rename", "list">>,
   <<"append", "journal">>, <<"read", "access">>, <<"read", "list">>, <<"publish", "gate">>,
   <<"ran_out", "gate">>}

Rank(s) ==
  CASE s = <<"load", "list">> -> 1
    [] s = <<"load", "access">> -> 2
    [] s = <<"create", "access">> -> 3
    [] s = <<"write", "access">> -> 4
    [] s = <<"rename", "access">> -> 5
    [] s = <<"create", "list">> -> 6
    [] s = <<"write", "list">> -> 7
    [] s = <<"rename", "list">> -> 8
    [] s = <<"append", "journal">> -> 9
    [] s = <<"read", "access">> -> 10
    [] s = <<"read", "list">> -> 11
    [] s = <<"publish", "gate">> -> 12
    [] s = <<"ran_out", "gate">> -> 13

\* The steps t are in order, and what is written and renamed was created.
Ordered(t) ==
  /\ t \in Seq(Steps)
  /\ \A i, j \in 1 .. Len(t) : i < j => Rank(t[i]) < Rank(t[j])
  /\ \A i \in 1 .. Len(t), f \in File : i # 1 =>
       /\ t[i] = <<"write", f>> => t[i - 1] = <<"create", f>>
       /\ t[i] = <<"rename", f>> => t[i - 1] = <<"write", f>>

Pending(t, s) == \E i \in 1 .. Len(t) : t[i] = s

\* Steps from the a-th to the b-th of the list, from the start of a save.
Part(t, a, b) ==
  /\ Ordered(t)
  /\ \A i \in 1 .. Len(t) : Rank(t[i]) >= a /\ Rank(t[i]) <= b
  /\ t # <<>> => \A f \in File : t[1] # <<"write", f>> /\ t[1] # <<"rename", f>>

LEMMA Ranks ==
  /\ Rank(<<"load", "list">>) = 1
  /\ Rank(<<"load", "access">>) = 2
  /\ Rank(<<"create", "access">>) = 3
  /\ Rank(<<"write", "access">>) = 4
  /\ Rank(<<"rename", "access">>) = 5
  /\ Rank(<<"create", "list">>) = 6
  /\ Rank(<<"write", "list">>) = 7
  /\ Rank(<<"rename", "list">>) = 8
  /\ Rank(<<"append", "journal">>) = 9
  /\ Rank(<<"read", "access">>) = 10
  /\ Rank(<<"read", "list">>) = 11
  /\ Rank(<<"publish", "gate">>) = 12
  /\ Rank(<<"ran_out", "gate">>) = 13
  BY DEF Rank

LEMMA RankType == \A s \in Steps : Rank(s) \in 1 .. 13
  BY DEF Rank, Steps

LEMMA RankNat == \A s \in Steps : Rank(s) \in Nat
  BY RankType

\* Steps of the same rank are the same.
LEMMA RankOne == \A s, r \in Steps : Rank(s) = Rank(r) => s = r
  BY Ranks DEF Steps

LEMMA ConcatPart ==
  ASSUME NEW s, NEW t, NEW a \in Nat, NEW b \in Nat, NEW c \in Nat, NEW d \in Nat,
         Part(s, a, b), Part(t, c, d), a <= b, b < c, c <= d
  PROVE  /\ Part(s \o t, a, d)
         /\ \A x : Pending(s \o t, x) <=> Pending(s, x) \/ Pending(t, x)
<1> DEFINE u == s \o t
           m == Len(s)
           n == Len(t)
<1>1. s \in Seq(Steps) /\ t \in Seq(Steps)
  BY DEF Part, Ordered
<1>2. m \in Nat /\ n \in Nat
  BY <1>1, LengthIs
<1>3. /\ u \in Seq(Steps) /\ Len(u) = m + n
      /\ \A i \in 1 .. m + n : u[i] = IF i <= m THEN s[i] ELSE t[i - m]
  BY <1>1, JoinedIs
<1> HIDE DEF u, m, n
<1>4. \A i \in 1 .. m : i \in 1 .. m + n /\ u[i] = s[i] /\ s[i] \in Steps /\ Rank(s[i]) >= a /\ Rank(s[i]) <= b
  BY <1>1, <1>2, <1>3, LengthIs DEF Part, m
<1>5. ASSUME NEW j \in 1 .. n
      PROVE  /\ m + j \in 1 .. m + n /\ u[m + j] = t[j] /\ t[j] \in Steps
             /\ Rank(t[j]) >= c /\ Rank(t[j]) <= d
  <2>1. m + j \in 1 .. m + n /\ ~(m + j <= m) /\ (m + j) - m = j
    BY <1>2
  <2> QED
    BY <1>1, <1>3, <2>1, LengthIs DEF Part, n
<1>6. \A i \in 1 .. m + n : i \notin 1 .. m => i - m \in 1 .. n /\ m + (i - m) = i
  BY <1>2
<1>7. ASSUME NEW i \in 1 .. m + n, NEW j \in 1 .. m + n, i < j
      PROVE  Rank(u[i]) < Rank(u[j])
  <2>1. CASE i \in 1 .. m /\ j \in 1 .. m
    BY <1>4, <1>7, <2>1 DEF Part, Ordered, m
  <2>2. CASE i \in 1 .. m /\ j \notin 1 .. m
    <3>1. Rank(u[i]) <= b /\ Rank(u[j]) >= c
      BY <1>4, <1>5, <1>6, <2>2
    <3>2. Rank(u[i]) \in Nat /\ Rank(u[j]) \in Nat
      <4>1. u[i] \in Steps /\ u[j] \in Steps
        BY <1>4, <1>5, <1>6, <2>2
      <4> QED
        BY <4>1, RankType
    <3> QED
      BY <3>1, <3>2
  <2>3. CASE i \notin 1 .. m /\ j \notin 1 .. m
    <3>1. i - m < j - m
      BY <1>2, <1>7
    <3>2. u[i] = t[i - m] /\ u[j] = t[j - m] /\ i - m \in 1 .. n /\ j - m \in 1 .. n
      BY <1>5, <1>6, <2>3
    <3> QED
      BY <3>1, <3>2, SMTT(20) DEF Part, Ordered, n
  <2>4. CASE i \notin 1 .. m /\ j \in 1 .. m
    BY <1>2, <1>7, <2>4
  <2> QED
    BY <2>1, <2>2, <2>3, <2>4
<1>8. ASSUME NEW i \in 1 .. m + n, NEW f \in File, i # 1
      PROVE  /\ u[i] = <<"write", f>> => u[i - 1] = <<"create", f>>
             /\ u[i] = <<"rename", f>> => u[i - 1] = <<"write", f>>
  <2>1. CASE i \in 1 .. m
    <3>1. i - 1 \in 1 .. m
      BY <1>2, <1>8, <2>1
    <3>2. u[i] = s[i] /\ u[i - 1] = s[i - 1]
      BY <1>4, <2>1, <3>1
    <3> QED
      BY <1>8, <2>1, <3>2 DEF Part, Ordered, m
  <2>2. CASE i = m + 1
    <3>1. 1 \in 1 .. n /\ u[i] = t[1]
      BY <1>2, <1>5, <2>2
    <3>2. t # <<>>
      BY <1>1, <3>1, LengthIs DEF n
    <3> QED
      BY <3>1, <3>2 DEF Part
  <2>3. CASE i \notin 1 .. m /\ i # m + 1
    <3> DEFINE j == i - m
    <3>1. j \in 1 .. n /\ j # 1 /\ j - 1 \in 1 .. n /\ m + (j - 1) = i - 1
      BY <1>2, <2>3
    <3>2. u[i] = t[j] /\ u[i - 1] = t[j - 1]
      BY <1>5, <1>6, <2>3, <3>1
    <3> HIDE DEF j
    <3>3. /\ t[j] = <<"write", f>> => t[j - 1] = <<"create", f>>
          /\ t[j] = <<"rename", f>> => t[j - 1] = <<"write", f>>
      BY <3>1 DEF Part, Ordered, n
    <3> QED
      BY <3>2, <3>3
  <2> QED
    BY <2>1, <2>2, <2>3
<1>9. Ordered(u)
  BY <1>3, <1>7, <1>8 DEF Ordered
<1>10. \A i \in 1 .. Len(u) : Rank(u[i]) >= a /\ Rank(u[i]) <= d
  <2> SUFFICES ASSUME NEW i \in 1 .. m + n
               PROVE  Rank(u[i]) >= a /\ Rank(u[i]) <= d
    BY <1>3
  <2>1. u[i] \in Steps
    BY <1>4, <1>5, <1>6
  <2>2. Rank(u[i]) \in Nat
    BY <2>1, RankType
  <2>3. (Rank(u[i]) >= a /\ Rank(u[i]) <= b) \/ (Rank(u[i]) >= c /\ Rank(u[i]) <= d)
    BY <1>4, <1>5, <1>6
  <2> QED
    BY <2>2, <2>3
<1>11. u # <<>> => \A f \in File : u[1] # <<"write", f>> /\ u[1] # <<"rename", f>>
  <2>1. CASE s # <<>>
    <3>1. 1 \in 1 .. m
      BY <1>1, <1>2, <2>1, LengthIs DEF m
    <3> QED
      BY <1>4, <2>1, <3>1 DEF Part
  <2>2. CASE s = <<>>
    <3>1. u = t
      BY <1>1, <2>2, JoinedEmpty DEF u
    <3> QED
      BY <3>1 DEF Part
  <2> QED
    BY <2>1, <2>2
<1>12. ASSUME NEW x, Pending(s, x) \/ Pending(t, x)
       PROVE  Pending(u, x)
  <2>1. CASE Pending(s, x)
    BY <1>3, <1>4, <2>1 DEF Pending, m
  <2>2. CASE Pending(t, x)
    BY <1>3, <1>5, <2>2 DEF Pending, n
  <2> QED
    BY <1>12, <2>1, <2>2
<1>13. ASSUME NEW x, Pending(u, x)
       PROVE  Pending(s, x) \/ Pending(t, x)
  <2>1. PICK i \in 1 .. m + n : u[i] = x
    BY <1>3, <1>13 DEF Pending
  <2>2. CASE i \in 1 .. m
    BY <1>4, <2>1, <2>2 DEF Pending, m
  <2>3. CASE i \notin 1 .. m
    <3>1. i - m \in 1 .. n /\ t[i - m] = x
      BY <1>5, <1>6, <2>1, <2>3
    <3> QED
      BY <3>1 DEF Pending, n
  <2> QED
    BY <2>2, <2>3
<1>14. Part(u, a, d)
  BY <1>9, <1>10, <1>11 DEF Part
<1>15. \A x : Pending(u, x) <=> Pending(s, x) \/ Pending(t, x)
  BY <1>12, <1>13
<1> QED
  BY <1>14, <1>15 DEF u
LEMMA WiderPart ==
  ASSUME NEW t, NEW a \in Nat, NEW b \in Nat, NEW c \in Nat, NEW d \in Nat,
         Part(t, c, d), a <= c, d <= b
  PROVE  Part(t, a, b)
<1> SUFFICES ASSUME NEW i \in 1 .. Len(t)
             PROVE  Rank(t[i]) >= a /\ Rank(t[i]) <= b
  BY DEF Part
<1>1. t[i] \in Steps
  BY LengthIs DEF Part, Ordered
<1>2. Rank(t[i]) \in Nat
  BY <1>1, RankNat
<1>3. Rank(t[i]) >= c /\ Rank(t[i]) <= d
  BY DEF Part
<1> QED
  BY <1>2, <1>3

\* One step, and three that make a save or a reload.
LEMMA OnePart ==
  ASSUME NEW x \in Steps, NEW n \in Nat, Rank(x) = n,
         \A f \in File : x # <<"write", f>> /\ x # <<"rename", f>>
  PROVE  Part(<<x>>, n, n) /\ \A y : Pending(<<x>>, y) <=> y = x
<1>1. <<x>> \in Seq(Steps) /\ Len(<<x>>) = 1 /\ <<x>>[1] = x
  OBVIOUS
<1> DEFINE t == <<x>>
<1>2. t \in Seq(Steps) /\ Len(t) = 1 /\ t[1] = x
  BY <1>1
<1> HIDE DEF t
<1>3. Part(t, n, n)
  BY <1>2 DEF Part, Ordered
<1>4. \A y : Pending(t, y) <=> y = x
  BY <1>2 DEF Pending
<1> QED
  BY <1>3, <1>4 DEF t

LEMMA ThreePart ==
  ASSUME NEW x \in Steps, NEW y \in Steps, NEW z \in Steps, NEW n \in Nat,
         Rank(x) = n, Rank(y) = n + 1, Rank(z) = n + 2,
         \A f \in File : x # <<"write", f>> /\ x # <<"rename", f>>,
         \A f \in File : (y = <<"write", f>> => x = <<"create", f>>) /\ y # <<"rename", f>>,
         \A f \in File : z # <<"write", f>> /\ (z = <<"rename", f>> => y = <<"write", f>>)
  PROVE  Part(<<x, y, z>>, n, n + 2) /\ \A s : Pending(<<x, y, z>>, s) <=> s \in {x, y, z}
<1> DEFINE t == <<x, y, z>>
<1>1. t \in Seq(Steps) /\ Len(t) = 3 /\ t[1] = x /\ t[2] = y /\ t[3] = z
  OBVIOUS
<1> HIDE DEF t
<1>2. \A i \in 1 .. 3 : i = 1 \/ i = 2 \/ i = 3
  OBVIOUS
<1>3. \A i, j \in 1 .. Len(t) : i < j => Rank(t[i]) < Rank(t[j])
  BY <1>1, <1>2
<1>4. \A i \in 1 .. Len(t) : Rank(t[i]) >= n /\ Rank(t[i]) <= n + 2
  BY <1>1, <1>2
<1>5. ASSUME NEW i \in 1 .. Len(t), NEW f \in File, i # 1
      PROVE  /\ t[i] = <<"write", f>> => t[i - 1] = <<"create", f>>
             /\ t[i] = <<"rename", f>> => t[i - 1] = <<"write", f>>
  <2>1. CASE i = 2
    <3>1. t[i] = y /\ t[i - 1] = x
      BY <1>1, <2>1
    <3> QED
      BY <3>1
  <2>2. CASE i = 3
    <3>1. t[i] = z /\ t[i - 1] = y
      BY <1>1, <2>2
    <3> QED
      BY <3>1
  <2> QED
    BY <1>1, <1>2, <1>5, <2>1, <2>2
<1>6. Part(t, n, n + 2)
  BY <1>1, <1>3, <1>4, <1>5 DEF Part, Ordered
<1>7. \A s : Pending(t, s) <=> s \in {x, y, z}
  BY <1>1, <1>2 DEF Pending
<1> QED
  BY <1>6, <1>7 DEF t

\* The parts the operations are put together from.
LEMMA Parts ==
  /\ Part(load("list"), 1, 1) /\ \A s : Pending(load("list"), s) <=> s = <<"load", "list">>
  /\ Part(load("access"), 2, 2) /\ \A s : Pending(load("access"), s) <=> s = <<"load", "access">>
  /\ Part(save("access"), 3, 5)
  /\ \A s : Pending(save("access"), s) <=>
       s \in {<<"create", "access">>, <<"write", "access">>, <<"rename", "access">>}
  /\ Part(save("list"), 6, 8)
  /\ \A s : Pending(save("list"), s) <=>
       s \in {<<"create", "list">>, <<"write", "list">>, <<"rename", "list">>}
  /\ Part(append, 9, 9) /\ \A s : Pending(append, s) <=> s = <<"append", "journal">>
  /\ Part(reload, 10, 12)
  /\ Part(<<<<"ran_out", "gate">>>>, 13, 13)
  /\ Part(<<>>, 10, 12)
<1>1. Part(load("list"), 1, 1) /\ \A s : Pending(load("list"), s) <=> s = <<"load", "list">>
  <2> DEFINE x == <<"load", "list">>
  <2>1. x \in Steps /\ Rank(x) = 1 /\ \A f \in File : x # <<"write", f>> /\ x # <<"rename", f>>
    BY Ranks DEF Steps
  <2> HIDE DEF x
  <2> QED
    BY <2>1, OnePart DEF load, x
<1>2. Part(load("access"), 2, 2) /\ \A s : Pending(load("access"), s) <=> s = <<"load", "access">>
  <2> DEFINE x == <<"load", "access">>
  <2>1. x \in Steps /\ Rank(x) = 2 /\ \A f \in File : x # <<"write", f>> /\ x # <<"rename", f>>
    BY Ranks DEF Steps
  <2> HIDE DEF x
  <2> QED
    BY <2>1, OnePart DEF load, x
<1>3. ASSUME NEW g \in File, NEW n \in Nat, Rank(<<"create", g>>) = n,
             Rank(<<"write", g>>) = n + 1, Rank(<<"rename", g>>) = n + 2
      PROVE  /\ Part(save(g), n, n + 2)
             /\ \A s : Pending(save(g), s) <=>
                  s \in {<<"create", g>>, <<"write", g>>, <<"rename", g>>}
  <2> DEFINE x == <<"create", g>>
             y == <<"write", g>>
             z == <<"rename", g>>
  <2>1. x \in Steps /\ y \in Steps /\ z \in Steps
    BY DEF Steps, File
  <2>2. /\ \A f \in File : x # <<"write", f>> /\ x # <<"rename", f>>
        /\ \A f \in File : (y = <<"write", f>> => x = <<"create", f>>) /\ y # <<"rename", f>>
        /\ \A f \in File : z # <<"write", f>> /\ (z = <<"rename", f>> => y = <<"write", f>>)
    OBVIOUS
  <2>3. Rank(x) = n /\ Rank(y) = n + 1 /\ Rank(z) = n + 2
    BY <1>3
  <2>4. save(g) = <<x, y, z>>
    BY DEF save
  <2> HIDE DEF x, y, z
  <2>5. Part(<<x, y, z>>, n, n + 2) /\ \A s : Pending(<<x, y, z>>, s) <=> s \in {x, y, z}
    BY <2>1, <2>2, <2>3, ThreePart
  <2> QED
    BY <2>4, <2>5 DEF x, y, z
<1>4. /\ Part(save("access"), 3, 5)
      /\ \A s : Pending(save("access"), s) <=>
           s \in {<<"create", "access">>, <<"write", "access">>, <<"rename", "access">>}
  <2> DEFINE n == 3
  <2>1. n \in Nat /\ n = 3 /\ n + 1 = 4 /\ n + 2 = 5 /\ "access" \in File
    BY DEF File
  <2> HIDE DEF n
  <2>2. Part(save("access"), n, n + 2)
    BY <1>3, <2>1, Ranks
  <2> QED
    BY <1>3, <2>1, <2>2, Ranks
<1>5. /\ Part(save("list"), 6, 8)
      /\ \A s : Pending(save("list"), s) <=>
           s \in {<<"create", "list">>, <<"write", "list">>, <<"rename", "list">>}
  <2> DEFINE n == 6
  <2>1. n \in Nat /\ n = 6 /\ n + 1 = 7 /\ n + 2 = 8 /\ "list" \in File
    BY DEF File
  <2> HIDE DEF n
  <2>2. Part(save("list"), n, n + 2)
    BY <1>3, <2>1, Ranks
  <2> QED
    BY <1>3, <2>1, <2>2, Ranks
<1>6. Part(append, 9, 9) /\ \A s : Pending(append, s) <=> s = <<"append", "journal">>
  <2> DEFINE x == <<"append", "journal">>
  <2>1. x \in Steps /\ Rank(x) = 9 /\ \A f \in File : x # <<"write", f>> /\ x # <<"rename", f>>
    BY Ranks DEF Steps
  <2> HIDE DEF x
  <2> QED
    BY <2>1, OnePart DEF append, x
<1>7. Part(reload, 10, 12)
  <2> DEFINE x == <<"read", "access">>
             y == <<"read", "list">>
             z == <<"publish", "gate">>
             n == 10
  <2>1. x \in Steps /\ y \in Steps /\ z \in Steps
    BY DEF Steps
  <2>2. /\ \A f \in File : x # <<"write", f>> /\ x # <<"rename", f>>
        /\ \A f \in File : y # <<"write", f>> /\ y # <<"rename", f>>
        /\ \A f \in File : z # <<"write", f>> /\ z # <<"rename", f>>
    OBVIOUS
  <2>3. n \in Nat /\ Rank(x) = n /\ Rank(y) = n + 1 /\ Rank(z) = n + 2 /\ n = 10 /\ n + 2 = 12
    BY Ranks
  <2>4. reload = <<x, y, z>>
    BY DEF reload
  <2> HIDE DEF x, y, z, n
  <2>5. Part(<<x, y, z>>, n, n + 2)
    BY <2>1, <2>2, <2>3, ThreePart
  <2> QED
    BY <2>3, <2>4, <2>5
<1>8. Part(<<<<"ran_out", "gate">>>>, 13, 13)
  <2> DEFINE x == <<"ran_out", "gate">>
  <2>1. x \in Steps /\ Rank(x) = 13 /\ \A f \in File : x # <<"write", f>> /\ x # <<"rename", f>>
    BY Ranks DEF Steps
  <2> HIDE DEF x
  <2>2. Part(<<x>>, 13, 13)
    BY <2>1, OnePart
  <2> QED
    BY <2>2 DEF x
<1>9. Part(<<>>, 10, 12)
  <2>1. <<>> \in Seq(Steps) /\ Len(<<>>) = 0
    OBVIOUS
  <2> QED
    BY <2>1 DEF Part, Ordered
<1> QED
  BY <1>1, <1>2, <1>4, <1>5, <1>6, <1>7, <1>8, <1>9

\* What an operation's plan has.
LEMMA PlanParts ==
  ASSUME NEW w, NEW kind \in Kind
  PROVE  /\ Part(plan(w, kind), 1, 12)
         /\ kind # "approve" => Pending(plan(w, kind), <<"load", "list">>)
         /\ Pending(plan(w, kind), <<"rename", "access">>) =>
              Pending(plan(w, kind), <<"load", "access">>)
         /\ Pending(plan(w, kind), <<"rename", "list">>) =>
              Pending(plan(w, kind), <<"load", "list">>)
         /\ kind \notin {"add_device", "add_group"} =>
              Pending(plan(w, kind), <<"rename", "access">>)
<1> DEFINE end == IF w \in Cli THEN <<>> ELSE reload
           LL == <<"load", "list">>
           LA == <<"load", "access">>
           RA == <<"rename", "access">>
           RL == <<"rename", "list">>
           St(s) == /\ Part(s, 1, 9)
                    /\ kind # "approve" => Pending(s, LL)
                    /\ Pending(s, RA) => Pending(s, LA)
                    /\ Pending(s, RL) => Pending(s, LL)
                    /\ kind \notin {"add_device", "add_group"} => Pending(s, RA)
<1>1. Part(end, 10, 12)
  BY Parts
<1>2. \A x : Pending(end, x) => Rank(x) >= 10
  BY <1>1 DEF Part, Pending
<1> HIDE DEF end
<1>3. /\ LL \in Steps /\ LA \in Steps /\ RA \in Steps /\ RL \in Steps
      /\ Rank(LL) = 1 /\ Rank(LA) = 2 /\ Rank(RA) = 5 /\ Rank(RL) = 8
      /\ LL # LA /\ LL # RA /\ LL # RL /\ LA # RA /\ LA # RL /\ RA # RL
  BY Ranks DEF Steps
<1>4. /\ \A s : Pending(load("list"), s) <=> s = LL
      /\ \A s : Pending(load("access"), s) <=> s = LA
      /\ Pending(save("access"), RA) /\ ~Pending(save("access"), RL)
      /\ Pending(save("list"), RL) /\ ~Pending(save("list"), RA)
      /\ ~Pending(append, RL) /\ ~Pending(append, RA)
  BY Parts
<1> HIDE DEF LL, LA, RA, RL
<1>5. St(steps(kind))
  <2>1. CASE kind = "change"
    <3> DEFINE s1 == load("list") \o load("access")
               s2 == s1 \o save("access")
               s3 == s2 \o append
    <3>1. /\ Part(s1, 1, 2)
          /\ \A x : Pending(s1, x) <=> Pending(load("list"), x) \/ Pending(load("access"), x)
      BY Parts, ConcatPart
    <3> HIDE DEF s1
    <3>2. /\ Part(s2, 1, 5)
          /\ \A x : Pending(s2, x) <=> Pending(s1, x) \/ Pending(save("access"), x)
      BY <3>1, Parts, ConcatPart
    <3> HIDE DEF s2
    <3>3. /\ Part(s3, 1, 9)
          /\ \A x : Pending(s3, x) <=> Pending(s2, x) \/ Pending(append, x)
      BY <3>2, Parts, ConcatPart
    <3>4. steps(kind) = s3
      BY <2>1 DEF steps, s1, s2
    <3> HIDE DEF s3
    <3>5. Part(s3, 1, 9)
      BY <3>3, WiderPart
    <3>6. St(s3)
      BY <1>3, <1>4, <2>1, <3>1, <3>2, <3>3, <3>5
    <3> QED
      BY <3>4, <3>6
  <2>2. CASE kind = "approve"
    <3> DEFINE s1 == load("access") \o save("access")
               s2 == s1 \o append
    <3>1. /\ Part(s1, 2, 5)
          /\ \A x : Pending(s1, x) <=> Pending(load("access"), x) \/ Pending(save("access"), x)
      BY Parts, ConcatPart
    <3> HIDE DEF s1
    <3>2. /\ Part(s2, 2, 9)
          /\ \A x : Pending(s2, x) <=> Pending(s1, x) \/ Pending(append, x)
      BY <3>1, Parts, ConcatPart
    <3>3. steps(kind) = s2
      BY <2>2 DEF steps, s1
    <3> HIDE DEF s2
    <3>4. Part(s2, 1, 9)
      BY <3>2, WiderPart
    <3>5. St(s2)
      BY <1>3, <1>4, <2>2, <3>1, <3>2, <3>4
    <3> QED
      BY <3>3, <3>5
  <2>3. CASE kind \in {"add_device", "add_group"}
    <3> DEFINE s1 == load("list") \o save("list")
               s2 == s1 \o append
    <3>1. /\ Part(s1, 1, 8)
          /\ \A x : Pending(s1, x) <=> Pending(load("list"), x) \/ Pending(save("list"), x)
      BY Parts, ConcatPart
    <3> HIDE DEF s1
    <3>2. /\ Part(s2, 1, 9)
          /\ \A x : Pending(s2, x) <=> Pending(s1, x) \/ Pending(append, x)
      BY <3>1, Parts, ConcatPart
    <3>3. steps(kind) = s2
      BY <2>3 DEF steps, s1
    <3> HIDE DEF s2
    <3>4. Part(s2, 1, 9)
      BY <3>2, WiderPart
    <3>5. St(s2)
      BY <1>3, <1>4, <2>3, <3>1, <3>2, <3>4
    <3> QED
      BY <3>3, <3>5
  <2>4. CASE kind \in {"remove_device", "remove_group"}
    <3> DEFINE s1 == load("list") \o load("access")
               s2 == s1 \o save("access")
               s3 == s2 \o save("list")
               s4 == s3 \o append
    <3>1. /\ Part(s1, 1, 2)
          /\ \A x : Pending(s1, x) <=> Pending(load("list"), x) \/ Pending(load("access"), x)
      BY Parts, ConcatPart
    <3> HIDE DEF s1
    <3>2. /\ Part(s2, 1, 5)
          /\ \A x : Pending(s2, x) <=> Pending(s1, x) \/ Pending(save("access"), x)
      BY <3>1, Parts, ConcatPart
    <3> HIDE DEF s2
    <3>3. /\ Part(s3, 1, 8)
          /\ \A x : Pending(s3, x) <=> Pending(s2, x) \/ Pending(save("list"), x)
      BY <3>2, Parts, ConcatPart
    <3> HIDE DEF s3
    <3>4. /\ Part(s4, 1, 9)
          /\ \A x : Pending(s4, x) <=> Pending(s3, x) \/ Pending(append, x)
      BY <3>3, Parts, ConcatPart
    <3>5. steps(kind) = s4
      BY <2>4 DEF steps, s1, s2, s3
    <3> HIDE DEF s4
    <3>6. Part(s4, 1, 9)
      BY <3>4, WiderPart
    <3>7. St(s4)
      BY <1>3, <1>4, <2>4, <3>1, <3>2, <3>3, <3>4, <3>6
    <3> QED
      BY <3>5, <3>7
  <2> QED
    BY <2>1, <2>2, <2>3, <2>4 DEF Kind
<1>6. /\ Part(steps(kind) \o end, 1, 12)
      /\ \A x : Pending(steps(kind) \o end, x) <=> Pending(steps(kind), x) \/ Pending(end, x)
  BY <1>1, <1>5, ConcatPart
<1>7. ~Pending(end, RA) /\ ~Pending(end, RL)
  BY <1>2, <1>3
<1>8. plan(w, kind) = steps(kind) \o end
  BY DEF plan, end
<1> QED
  BY <1>5, <1>6, <1>7, <1>8 DEF LL, LA, RA, RL

LEMMA TailOrdered ==
  ASSUME NEW t, Ordered(t), t # <<>>
  PROVE  /\ Head(t) = t[1] /\ Head(t) \in Steps /\ Ordered(Tail(t))
         /\ \A s : Pending(Tail(t), s) => Pending(t, s) /\ s \in Steps /\ Rank(Head(t)) < Rank(s)
         /\ \A s : Pending(t, s) => s = Head(t) \/ Pending(Tail(t), s)
         /\ Tail(t) # <<>> =>
              \A f \in File :
                /\ Head(Tail(t)) = <<"write", f>> => Head(t) = <<"create", f>>
                /\ Head(Tail(t)) = <<"rename", f>> => Head(t) = <<"write", f>>
<1>1. t \in Seq(Steps)
  BY DEF Ordered
<1>2. /\ Head(t) = t[1] /\ Head(t) \in Steps /\ Tail(t) \in Seq(Steps)
      /\ Len(t) \in Nat \ {0} /\ Len(Tail(t)) = Len(t) - 1
      /\ \A i \in 1 .. Len(Tail(t)) : Tail(t)[i] = t[i + 1]
  BY <1>1, FirstAndRest
<1> DEFINE u == Tail(t)
           n == Len(t)
<1>3. /\ u \in Seq(Steps) /\ n \in Nat \ {0} /\ Len(u) = n - 1
      /\ \A i \in 1 .. n - 1 : i + 1 \in 1 .. n /\ u[i] = t[i + 1] /\ u[i] \in Steps
  BY <1>2, LengthIs
<1> HIDE DEF u, n
<1>4. \A i, j \in 1 .. n : i < j => Rank(t[i]) < Rank(t[j])
  BY DEF Ordered, n
<1>5. \A i \in 1 .. n, f \in File : i # 1 =>
        /\ t[i] = <<"write", f>> => t[i - 1] = <<"create", f>>
        /\ t[i] = <<"rename", f>> => t[i - 1] = <<"write", f>>
  BY DEF Ordered, n
<1>6. Ordered(u)
  <2>1. ASSUME NEW i \in 1 .. n - 1, NEW j \in 1 .. n - 1, i < j
        PROVE  Rank(u[i]) < Rank(u[j])
    <3>1. i + 1 < j + 1
      BY <2>1
    <3> QED
      BY <1>3, <1>4, <3>1
  <2>2. ASSUME NEW i \in 1 .. n - 1, NEW f \in File, i # 1
        PROVE  /\ u[i] = <<"write", f>> => u[i - 1] = <<"create", f>>
               /\ u[i] = <<"rename", f>> => u[i - 1] = <<"write", f>>
    <3>1. i - 1 \in 1 .. n - 1 /\ (i - 1) + 1 = i /\ (i + 1) - 1 = i /\ i + 1 # 1
      BY <1>3, <2>2
    <3>2. u[i] = t[i + 1] /\ u[i - 1] = t[(i + 1) - 1] /\ i + 1 \in 1 .. n
      BY <1>3, <3>1
    <3> QED
      BY <1>5, <3>1, <3>2
  <2> QED
    BY <1>3, <2>1, <2>2 DEF Ordered
<1>7. ASSUME NEW s, Pending(u, s)
      PROVE  Pending(t, s) /\ s \in Steps /\ Rank(Head(t)) < Rank(s)
  <2>1. PICK i \in 1 .. n - 1 : u[i] = s
    BY <1>3, <1>7 DEF Pending
  <2>2. i + 1 \in 1 .. n /\ t[i + 1] = s /\ s \in Steps /\ 1 \in 1 .. n /\ 1 < i + 1
    BY <1>3, <2>1
  <2> QED
    BY <1>2, <1>4, <2>2 DEF Pending, n
<1>8. ASSUME NEW s, Pending(t, s), s # Head(t)
      PROVE  Pending(u, s)
  <2>1. PICK i \in 1 .. n : t[i] = s
    BY <1>8 DEF Pending, n
  <2>2. i # 1
    BY <1>2, <1>8, <2>1
  <2>3. i - 1 \in 1 .. n - 1 /\ (i - 1) + 1 = i
    BY <1>3, <2>2
  <2> QED
    BY <1>3, <2>1, <2>3, Zenon DEF Pending
<1>9. ASSUME u # <<>>, NEW f \in File
      PROVE  /\ Head(u) = <<"write", f>> => Head(t) = <<"create", f>>
             /\ Head(u) = <<"rename", f>> => Head(t) = <<"write", f>>
  <2>1. Head(u) = u[1] /\ Len(u) # 0
    BY <1>3, <1>9, FirstAndRest
  <2>2. 1 \in 1 .. n - 1 /\ 1 + 1 = 2 /\ 2 - 1 = 1 /\ 2 # 1
    BY <1>3, <2>1
  <2>3. u[1] = t[2] /\ 2 \in 1 .. n
    BY <1>3, <2>2
  <2> QED
    BY <1>2, <1>5, <2>1, <2>2, <2>3
<1> QED
  BY <1>2, <1>6, <1>7, <1>8, <1>9 DEF u

-----------------------------------------------------------------------------
(* One writer at a time.                                                   *)

\* Only reading is left.
Passive(t) == \A i \in 1 .. Len(t) : Rank(t[i]) >= 10

Adds == {"add_device", "add_group"}

\* What a writer knows when it has the steps t left of the operation o and has
\* read c, with the files d, the temporary files m and its handle h: it writes
\* to the temporary file it made, which is empty; what it renames is what it
\* wrote, and what it wrote is its change of the file as the file still is;
\* before the list and the journal it saved the access.
Knows(t, o, c, d, m, h) ==
  /\ t # <<>> => \A f \in File :
       /\ Head(t) = <<"write", f>> => h = "temp" /\ m[f] = Torn
       /\ Head(t) = <<"rename", f>> => m[f] = c[f]
  /\ o.kind = "change" /\ Pending(t, <<"rename", "access">>) =>
       Pending(t, <<"load", "list">>) \/ ~list_error(o, d["list"])
  /\ Pending(t, <<"rename", "access">>) =>
       Pending(t, <<"load", "access">>) \/ c["access"] = edit_access(o, d["access"])
  /\ Pending(t, <<"rename", "list">>) =>
       Pending(t, <<"load", "list">>) \/ c["list"] = edit_list(o, d["list"])
  /\ o.kind \notin Adds
       /\ (Pending(t, <<"rename", "list">>) \/ Pending(t, <<"append", "journal">>)) =>
       Pending(t, <<"rename", "access">>) \/ d["access"][o.scope] = o.end
  /\ o.kind \in Adds /\ Pending(t, <<"append", "journal">>) =>
       Pending(t, <<"load", "list">>) \/ d["access"][o.scope] = o.end

\* The inductive invariant for one writer at a time.
Alone ==
  /\ Typed
  /\ OpenIsListed
  /\ due = {}
  /\ \A w \in Writer :
       Ordered(todo[w]) /\ Knows(todo[w], op[w], copy[w], disk, temp, handle[w])
  /\ Passive(todo[Follow])
  /\ \A x, y \in Web \cup Cli : x = y \/ todo[x] = <<>> \/ todo[y] = <<>>

LEMMA NothingPassive == Ordered(<<>>) /\ Passive(<<>>)
<1>1. <<>> \in Seq(Steps) /\ Len(<<>>) = 0
  OBVIOUS
<1> QED
  BY <1>1 DEF Ordered, Passive

LEMMA PassiveKnows ==
  ASSUME NEW t, Ordered(t), Passive(t)
  PROVE  \A o, c, d, m, h : Knows(t, o, c, d, m, h)
<1>1. \A s : Pending(t, s) => Rank(s) >= 10
  BY DEF Passive, Pending
<1>2. /\ ~Pending(t, <<"rename", "access">>) /\ ~Pending(t, <<"rename", "list">>)
      /\ ~Pending(t, <<"append", "journal">>)
  BY <1>1, Ranks
<1>3. t # <<>> => Rank(Head(t)) >= 10
  <2> SUFFICES ASSUME t # <<>>
               PROVE  Rank(Head(t)) >= 10
    OBVIOUS
  <2>1. Head(t) = t[1]
    BY TailOrdered
  <2>2. 1 \in 1 .. Len(t)
    BY LengthIs DEF Ordered
  <2> QED
    BY <2>1, <2>2 DEF Passive
<1>4. t # <<>> => \A f \in File : Head(t) # <<"write", f>> /\ Head(t) # <<"rename", f>>
  <2>1. \A f \in File : ~(Rank(<<"write", f>>) >= 10) /\ ~(Rank(<<"rename", f>>) >= 10)
    BY Ranks DEF File
  <2> QED
    BY <1>3, <2>1, Zenon
<1> QED
  BY <1>2, <1>4 DEF Knows

\* While a writer changes something, the others only read.
LEMMA OthersPassive ==
  ASSUME Alone, NEW w \in Writer, todo[w] # <<>>, Rank(Head(todo[w])) <= 9
  PROVE  w \in Web \cup Cli /\ \A x \in Writer \ {w} : Passive(todo[x])
<1>0. Ordered(todo[w])
  BY DEF Alone
<1>1. Head(todo[w]) = todo[w][1] /\ Head(todo[w]) \in Steps
  BY <1>0, TailOrdered
<1>2. 1 \in 1 .. Len(todo[w])
  BY <1>0, LengthIs DEF Ordered
<1>3. w # Follow
  <2>1. ASSUME w = Follow
        PROVE  FALSE
    <3>1. Rank(Head(todo[w])) >= 10
      BY <1>1, <1>2, <2>1 DEF Alone, Passive
    <3> QED
      BY <1>1, <3>1, RankType
  <2> QED
    BY <2>1
<1>4. w \in Web \cup Cli
  BY <1>3 DEF Writer, Running
<1>5. ASSUME NEW x \in Writer \ {w}
      PROVE  Passive(todo[x])
  <2>1. CASE x = Follow
    BY <2>1 DEF Alone
  <2>2. CASE x # Follow
    <3>1. x \in Web \cup Cli
      BY <2>2 DEF Writer, Running
    <3>2. todo[x] = <<>>
      BY <1>4, <3>1 DEF Alone
    <3> QED
      BY <3>2, NothingPassive
  <2> QED
    BY <2>1, <2>2
<1> QED
  BY <1>4, <1>5

\* A writer goes on.
LEMMA AloneStep ==
  ASSUME Alone, Typed', NEW w \in Writer, todo[w] # <<>>,
         NEW t, NEW c, Continue(w, t, c), Ordered(t),
         Knows(t, op[w], c, disk', temp', handle'[w]),
         w = Follow => Passive(t),
         OpenIsListed', due' = {},
         \/ UNCHANGED <<disk, temp, handle>>
         \/ \A x \in Writer \ {w} : Passive(todo[x])
  PROVE  Alone'
<1>1. /\ todo'[w] = t
      /\ \A x \in Writer \ {w} : todo'[x] = todo[x] /\ op'[x] = op[x] /\ copy'[x] = copy[x]
      /\ t # <<>> => op'[w] = op[w] /\ copy'[w] = c
  BY Zenon DEF Continue, Alone, Typed, TypeOK
<1>2. Ordered(todo'[w]) /\ Knows(todo'[w], op'[w], copy'[w], disk', temp', handle'[w])
  <2>1. CASE t = <<>>
    BY <1>1, <2>1, NothingPassive, PassiveKnows, ZenonT(30)
  <2>2. CASE t # <<>>
    BY <1>1, <2>2
  <2> QED
    BY <2>1, <2>2, ZenonT(30)
<1>3. ASSUME NEW x \in Writer \ {w}
      PROVE  Ordered(todo'[x]) /\ Knows(todo'[x], op'[x], copy'[x], disk', temp', handle'[x])
  <2>1. Ordered(todo[x]) /\ Knows(todo[x], op[x], copy[x], disk, temp, handle[x])
    BY ZenonT(30) DEF Alone
  <2>2. CASE UNCHANGED <<disk, temp, handle>>
    BY <1>1, <2>1, <2>2, Zenon
  <2>3. CASE Passive(todo[x])
    BY <1>1, <2>1, <2>3, PassiveKnows, Zenon
  <2> QED
    BY <2>2, <2>3, ZenonT(30)
<1>4. Passive(todo'[Follow])
  <2>1. Follow \in Writer
    BY ZenonT(30) DEF Writer, Running
  <2>2. CASE w = Follow
    BY <1>1, <2>2, Zenon
  <2>3. CASE w # Follow
    BY <1>1, <2>1, <2>3, ZenonT(30) DEF Alone
  <2> QED
    BY <2>2, <2>3, ZenonT(30)
<1>5. ASSUME NEW x \in Web \cup Cli, NEW y \in Web \cup Cli, x # y
      PROVE  todo'[x] = <<>> \/ todo'[y] = <<>>
  <2>1. x \in Writer /\ y \in Writer
    BY ZenonT(30) DEF Writer, Running
  <2>2. todo[x] = <<>> \/ todo[y] = <<>>
    BY <1>5, Zenon DEF Alone
  <2> QED
    BY <1>1, <1>5, <2>1, <2>2
<1>6. \A x \in Writer :
        Ordered(todo'[x]) /\ Knows(todo'[x], op'[x], copy'[x], disk', temp', handle'[x])
  BY <1>2, <1>3, Zenon
<1> QED
  BY <1>4, <1>5, <1>6, Zenon DEF Alone

LEMMA ListedStays ==
  ASSUME OpenIsListed, UNCHANGED disk
  PROVE  OpenIsListed'
  BY DEF OpenIsListed, NeverHalfAFile

\* A writer that goes on only to read, or ends.
LEMMA PassiveStep ==
  ASSUME Alone, Typed', NEW w \in Writer, todo[w] # <<>>,
         NEW t, NEW c, Continue(w, t, c), Ordered(t), Passive(t),
         UNCHANGED <<disk, temp, handle>>, due' = {}
  PROVE  Alone'
<1>1. Knows(t, op[w], c, disk', temp', handle'[w])
  BY PassiveKnows
<1>2. OpenIsListed'
  BY ListedStays DEF Alone
<1> QED
  BY <1>1, <1>2, AloneStep

LEMMA FailAlone ==
  ASSUME Alone, Typed', NEW w \in Writer, todo[w] # <<>>, Fails(w),
         UNCHANGED <<disk, temp, handle, due>>
  PROVE  Alone'
<1>1. Continue(w, after_error(w), Empty)
  BY DEF Fails
<1>2. Ordered(reload) /\ Passive(reload)
  BY Parts DEF Part, Passive
<1>3. Ordered(after_error(w)) /\ Passive(after_error(w))
  BY <1>2, NothingPassive DEF after_error
<1>4. due' = {}
  BY DEF Alone
<1> QED
  BY <1>1, <1>3, <1>4, PassiveStep

LEMMA ReadingAlone ==
  ASSUME Alone, Typed', NEW w \in Writer, todo[w] # <<>>, Rank(Head(todo[w])) >= 10,
         NEW c, Goes(w, c), UNCHANGED <<disk, temp, handle>>, due' = {}
  PROVE  Alone'
<1> DEFINE t == Tail(todo[w])
<1>1. Ordered(todo[w])
  BY DEF Alone
<1>2. /\ Ordered(t) /\ Head(todo[w]) \in Steps
      /\ \A s : Pending(t, s) => s \in Steps /\ Rank(Head(todo[w])) < Rank(s)
  BY <1>1, TailOrdered
<1>3. Continue(w, t, c)
  BY DEF Goes
<1> HIDE DEF t
<1>4. ASSUME NEW i \in 1 .. Len(t)
      PROVE  Rank(t[i]) >= 10
  <2>1. Pending(t, t[i])
    BY DEF Pending
  <2>2. t[i] \in Steps /\ Rank(Head(todo[w])) < Rank(t[i])
    BY <1>2, <2>1
  <2>3. Rank(t[i]) \in Nat
    BY <2>2, RankNat
  <2>4. Head(todo[w]) \in Steps
    BY <1>2
  <2>5. Rank(Head(todo[w])) \in Nat
    BY <2>4, RankNat
  <2> QED
    BY <2>2, <2>3, <2>5
<1>5. Passive(t)
  BY <1>4 DEF Passive
<1> QED
  BY <1>2, <1>3, <1>5, PassiveStep

LEMMA ReadAlone ==
  ASSUME Alone, Typed', NEW w \in Writer, NEW f \in File, Read(w, f)
  PROVE  Alone'
<1>1. disk[f] \notin Broken
  BY Zenon DEF Alone, OpenIsListed, NeverHalfAFile
<1>2. Goes(w, [copy[w] EXCEPT ![f] = disk[f]]) /\ UNCHANGED <<disk, temp, handle, due>>
  BY <1>1 DEF Read
<1>3. todo[w] # <<>> /\ Head(todo[w]) = <<"read", f>>
  BY DEF Read, At
<1>4. Rank(Head(todo[w])) >= 10
  BY <1>3, Ranks DEF File
<1>5. due' = {}
  BY <1>2, Zenon DEF Alone
<1> QED
  BY <1>2, <1>3, <1>4, <1>5, ReadingAlone

LEMMA PublishAlone ==
  ASSUME Alone, Typed', NEW w \in Writer, Publish(w)
  PROVE  Alone'
<1>1. /\ todo[w] # <<>> /\ Head(todo[w]) = <<"publish", "gate">>
      /\ Goes(w, Empty) /\ UNCHANGED <<disk, temp, handle, due>>
  BY DEF Publish, At
<1>2. Rank(Head(todo[w])) >= 10
  BY <1>1, Ranks
<1>3. due' = {}
  BY <1>1, ZenonT(30) DEF Alone
<1> QED
  BY <1>1, <1>2, <1>3, ReadingAlone

\* Without an end nothing runs out.
LEMMA RanOutAlone ==
  ASSUME MaxTime = 0, Alone, Typed', RanOut
  PROVE  Alone'
<1>1. Follow \in Writer
  BY DEF Writer, Running
<1>2. /\ todo[Follow] # <<>> /\ Head(todo[Follow]) = <<"ran_out", "gate">>
      /\ Goes(Follow, Empty) /\ UNCHANGED <<disk, temp, handle>>
  BY Zenon DEF RanOut, At
<1>3. Rank(Head(todo[Follow])) >= 10
  <2>1. Rank(<<"ran_out", "gate">>) >= 10
    BY Ranks
  <2> QED
    BY <1>2, <2>1
<1>4. due' = {}
  BY DEF RanOut, ran_out
<1> QED
  BY <1>1, <1>2, <1>3, <1>4, ReadingAlone, Zenon

\* What is on neither list is closed.
LEMMA OffIsClosed ==
  ASSUME Alone, NEW o, Fits(o), o.kind \in Adds, ~list_error(o, disk["list"])
  PROVE  disk["access"][o.scope] = o.end
<1>1. disk["list"] \in List
  BY WholeType, Zenon DEF Alone, OpenIsListed, NeverHalfAFile, File
<1>2. disk["list"].devices \subseteq Device /\ disk["list"].groups \subseteq Group
  BY <1>1 DEF List
<1>3. o.end = Closed
  BY DEF Fits, Adds
<1>4. CASE o.kind = "add_device"
  <2>1. o.scope \in Device /\ o.scope \notin disk["list"].devices
    BY <1>4 DEF Fits, list_error
  <2>2. o.scope \notin disk["list"].groups
    BY <1>2, <2>1, NamesAssumption
  <2> QED
    BY <1>3, <2>1, <2>2, Zenon DEF Alone, OpenIsListed
<1>5. CASE o.kind = "add_group"
  <2>1. o.scope \in Group /\ o.scope \notin disk["list"].groups
    BY <1>5 DEF Fits, list_error
  <2>2. o.scope \notin disk["list"].devices
    BY <1>2, <2>1, NamesAssumption
  <2> QED
    BY <1>3, <2>1, <2>2, Zenon DEF Alone, OpenIsListed
<1> QED
  BY <1>4, <1>5 DEF Adds

LEMMA LoadAlone ==
  ASSUME Alone, Typed', NEW w \in Writer, NEW f \in File, Load(w, f)
  PROVE  Alone'
<1>1. /\ todo[w] # <<>> /\ Head(todo[w]) = <<"load", f>>
      /\ UNCHANGED <<disk, temp, handle, due>>
  BY Zenon DEF Load, At
<1>2. CASE Fails(w)
  BY <1>1, <1>2, FailAlone
<1>3. CASE /\ disk[f] \notin Broken
           /\ ~content_error(f, op[w], disk[f])
           /\ Goes(w, [copy[w] EXCEPT ![f] = edited(f, op[w], disk[f])])
  <2> DEFINE t == todo[w]
             u == Tail(todo[w])
             c == [copy[w] EXCEPT ![f] = edited(f, op[w], disk[f])]
             o == op[w]
  <2>1. Ordered(t) /\ Knows(t, o, copy[w], disk, temp, handle[w]) /\ Fits(o)
    BY Zenon DEF Alone, Typed
  <2>2. /\ Ordered(u)
        /\ \A s : Pending(u, s) => Pending(t, s)
        /\ \A s : Pending(t, s) => s = Head(t) \/ Pending(u, s)
        /\ u # <<>> => \A g \in File :
             /\ Head(u) = <<"write", g>> => Head(t) = <<"create", g>>
             /\ Head(u) = <<"rename", g>> => Head(t) = <<"write", g>>
    BY <1>1, <2>1, TailOrdered, Zenon
  <2>3. Continue(w, u, c)
    BY <1>3 DEF Goes
  <2>4. copy[w] \in [File -> Content]
    BY Zenon DEF Alone, Typed, TypeOK, Files
  <2>5. /\ f = "list" => c["list"] = edit_list(o, disk["list"]) /\ c["access"] = copy[w]["access"]
        /\ f = "access" => c["access"] = edit_access(o, disk["access"]) /\ c["list"] = copy[w]["list"]
    BY <2>4, Zenon DEF edited, File
  <2>6. f = "list" => ~list_error(o, disk["list"])
    BY <1>3 DEF content_error
  <2>7. f = "list" /\ o.kind \in Adds => disk["access"][o.scope] = o.end
    BY <2>1, <2>6, OffIsClosed
  <2>8. f = "list" \/ f = "access"
    BY DEF File
  <2>9. u # <<>> => \A g \in File : Head(u) # <<"write", g>> /\ Head(u) # <<"rename", g>>
    <3>1. \A g \in File : Head(t) # <<"create", g>> /\ Head(t) # <<"write", g>>
      BY <1>1
    <3> QED
      BY <2>2, <3>1, Zenon
  <2> HIDE DEF c
  <2>10. Knows(u, o, c, disk, temp, handle[w])
    <3>1. CASE f = "list"
      <4>1. \A s : s = <<"load", "list">> \/ (Pending(t, s) <=> Pending(u, s))
        BY <1>1, <2>2, <3>1, Zenon
      <4>2. /\ Pending(t, <<"load", "access">>) <=> Pending(u, <<"load", "access">>)
            /\ Pending(t, <<"rename", "access">>) <=> Pending(u, <<"rename", "access">>)
            /\ Pending(t, <<"rename", "list">>) <=> Pending(u, <<"rename", "list">>)
            /\ Pending(t, <<"append", "journal">>) <=> Pending(u, <<"append", "journal">>)
        BY <4>1
      <4> QED
        BY <2>1, <2>5, <2>6, <2>7, <2>9, <3>1, <4>2, Zenon DEF Knows
    <3>2. CASE f = "access"
      <4>1. \A s : s = <<"load", "access">> \/ (Pending(t, s) <=> Pending(u, s))
        BY <1>1, <2>2, <3>2, Zenon
      <4>2. /\ Pending(t, <<"load", "list">>) <=> Pending(u, <<"load", "list">>)
            /\ Pending(t, <<"rename", "access">>) <=> Pending(u, <<"rename", "access">>)
            /\ Pending(t, <<"rename", "list">>) <=> Pending(u, <<"rename", "list">>)
            /\ Pending(t, <<"append", "journal">>) <=> Pending(u, <<"append", "journal">>)
        BY <4>1
      <4> QED
        BY <2>1, <2>5, <2>9, <3>2, <4>2, Zenon DEF Knows
    <3> QED
      BY <2>8, <3>1, <3>2
  <2>11. Knows(u, op[w], c, disk', temp', handle'[w])
    BY <1>1, <2>10
  <2>12. OpenIsListed' /\ due' = {}
    BY <1>1, ListedStays, Zenon DEF Alone
  <2>13. w # Follow
    <3>1. Head(todo[w]) = <<"load", "list">> \/ Head(todo[w]) = <<"load", "access">>
      BY <1>1, <2>8
    <3>2. Rank(Head(todo[w])) <= 9
      BY <3>1, Ranks
    <3> QED
      BY <1>1, <3>2, OthersPassive, NamesAssumption
  <2> HIDE DEF u
  <2> QED
    BY <1>1, <2>2, <2>3, <2>11, <2>12, <2>13, AloneStep, Zenon
<1> QED
  BY <1>2, <1>3, Zenon DEF Load

\* What a step at the head of the steps leaves, for the steps of a save.
LEMMA SavingStep ==
  ASSUME Alone, NEW w \in Writer, NEW f \in File, NEW step \in {"create", "write", "rename"},
         At(w, step, f)
  PROVE  LET t == todo[w]
             u == Tail(todo[w])
         IN  /\ t # <<>> /\ Head(t) = <<step, f>> /\ w # Follow
             /\ \A x \in Writer \ {w} : Passive(todo[x])
             /\ Knows(t, op[w], copy[w], disk, temp, handle[w]) /\ Fits(op[w])
             /\ Ordered(u)
             /\ \A s : s = <<step, f>> \/ (Pending(t, s) <=> Pending(u, s))
             /\ u # <<>> => \A g \in File :
                  /\ Head(u) = <<"write", g>> => step = "create" /\ f = g
                  /\ Head(u) = <<"rename", g>> => step = "write" /\ f = g
             /\ ~Pending(u, <<step, f>>) /\ ~Pending(u, <<"load", "list">>)
             /\ ~Pending(u, <<"load", "access">>) /\ ~Pending(t, <<"load", "list">>)
             /\ ~Pending(t, <<"load", "access">>)
             /\ f = "list" => ~Pending(u, <<"rename", "access">>)
<1> DEFINE t == todo[w]
           u == Tail(todo[w])
           h == <<step, f>>
<1>1. t # <<>> /\ Head(t) = h
  BY DEF At
<1>2. Ordered(t) /\ Knows(t, op[w], copy[w], disk, temp, handle[w]) /\ Fits(op[w])
  BY Zenon DEF Alone, Typed
<1>3. /\ Ordered(u)
      /\ \A s : Pending(u, s) => Pending(t, s) /\ s \in Steps /\ Rank(h) < Rank(s)
      /\ \A s : Pending(t, s) => s = h \/ Pending(u, s)
      /\ u # <<>> => \A g \in File :
           /\ Head(u) = <<"write", g>> => h = <<"create", g>>
           /\ Head(u) = <<"rename", g>> => h = <<"write", g>>
  BY <1>1, <1>2, TailOrdered, Zenon
<1>4. /\ Rank(h) \in 3 .. 8
      /\ f = "list" => Rank(h) \in 6 .. 8
      /\ h # <<"load", "list">> /\ h # <<"load", "access">>
  <2>1. h \in {<<"create", "access">>, <<"write", "access">>, <<"rename", "access">>,
               <<"create", "list">>, <<"write", "list">>, <<"rename", "list">>}
    BY DEF File
  <2>2. f = "list" => h \in {<<"create", "list">>, <<"write", "list">>, <<"rename", "list">>}
    OBVIOUS
  <2> HIDE DEF h
  <2> QED
    BY <2>1, <2>2, Ranks
<1>5. u # <<>> => \A g \in File :
        /\ Head(u) = <<"write", g>> => step = "create" /\ f = g
        /\ Head(u) = <<"rename", g>> => step = "write" /\ f = g
  BY <1>3
<1> HIDE DEF h, t, u
<1>6. w # Follow /\ \A x \in Writer \ {w} : Passive(todo[x])
  BY <1>1, <1>4, OthersPassive, NamesAssumption DEF t
<1>7. ~Pending(u, h) /\ ~Pending(u, <<"load", "list">>) /\ ~Pending(u, <<"load", "access">>)
  BY <1>3, <1>4, Ranks
<1>8. ~Pending(t, <<"load", "list">>) /\ ~Pending(t, <<"load", "access">>)
  BY <1>3, <1>4, <1>7
<1>9. f = "list" => ~Pending(u, <<"rename", "access">>)
  BY <1>3, <1>4, Ranks
<1>10. \A s : s = h \/ (Pending(t, s) <=> Pending(u, s))
  BY <1>3
<1> QED
  BY <1>1, <1>2, <1>3, <1>5, <1>6, <1>7, <1>8, <1>9, <1>10, Zenon DEF h, t, u

LEMMA CreateAlone ==
  ASSUME Alone, Typed', NEW w \in Writer, NEW f \in File, Create(w, f)
  PROVE  Alone'
<1> DEFINE t == todo[w]
           u == Tail(todo[w])
<1>1. /\ t # <<>> /\ w # Follow
      /\ \A x \in Writer \ {w} : Passive(todo[x])
      /\ Knows(t, op[w], copy[w], disk, temp, handle[w])
      /\ Ordered(u)
      /\ \A s : s = <<"create", f>> \/ (Pending(t, s) <=> Pending(u, s))
      /\ u # <<>> => \A g \in File : /\ Head(u) # <<"rename", g>>
                                     /\ Head(u) = <<"write", g>> => f = g
  BY SavingStep, Zenon DEF Create
<1>2. /\ Continue(w, u, copy[w])
      /\ UNCHANGED <<disk, due>>
  BY DEF Create, Goes
<1>3. handle'[w] = "temp" /\ temp'[f] = Torn
  BY Zenon DEF Create, Alone, Typed, TypeOK, Files
<1> HIDE DEF t, u
<1>4. Knows(u, op[w], copy[w], disk, temp', handle'[w])
  <2>1. /\ Pending(t, <<"load", "list">>) <=> Pending(u, <<"load", "list">>)
        /\ Pending(t, <<"load", "access">>) <=> Pending(u, <<"load", "access">>)
        /\ Pending(t, <<"rename", "access">>) <=> Pending(u, <<"rename", "access">>)
        /\ Pending(t, <<"rename", "list">>) <=> Pending(u, <<"rename", "list">>)
        /\ Pending(t, <<"append", "journal">>) <=> Pending(u, <<"append", "journal">>)
    BY <1>1
  <2> QED
    BY <1>1, <1>3, <2>1, Zenon DEF Knows
<1>5. OpenIsListed' /\ due' = {}
  BY <1>2, ListedStays, Zenon DEF Alone
<1> QED
  BY <1>1, <1>2, <1>4, <1>5, AloneStep, Zenon DEF t

LEMMA WriteAlone ==
  ASSUME Alone, Typed', NEW w \in Writer, NEW f \in File, Write(w, f)
  PROVE  Alone'
<1> DEFINE t == todo[w]
           u == Tail(todo[w])
<1>1. /\ t # <<>> /\ w # Follow /\ Head(t) = <<"write", f>>
      /\ \A x \in Writer \ {w} : Passive(todo[x])
      /\ Knows(t, op[w], copy[w], disk, temp, handle[w])
      /\ Ordered(u)
      /\ \A s : s = <<"write", f>> \/ (Pending(t, s) <=> Pending(u, s))
      /\ u # <<>> => \A g \in File : /\ Head(u) # <<"write", g>>
                                     /\ Head(u) = <<"rename", g>> => f = g
  BY SavingStep, ZenonT(30) DEF Write
<1>2. handle[w] = "temp" /\ temp[f] = Torn
  BY <1>1, Zenon DEF Knows
<1>3. /\ Continue(w, u, copy[w])
      /\ UNCHANGED <<disk, due>>
      /\ temp' = [temp EXCEPT ![f] = copy[w][f]]
  BY <1>2 DEF Write, Goes, Over
<1>4. temp'[f] = copy[w][f]
  BY <1>3, Zenon DEF Alone, Typed, TypeOK, Files
<1> HIDE DEF t, u
<1>5. Knows(u, op[w], copy[w], disk, temp', handle'[w])
  <2>1. /\ Pending(t, <<"load", "list">>) <=> Pending(u, <<"load", "list">>)
        /\ Pending(t, <<"load", "access">>) <=> Pending(u, <<"load", "access">>)
        /\ Pending(t, <<"rename", "access">>) <=> Pending(u, <<"rename", "access">>)
        /\ Pending(t, <<"rename", "list">>) <=> Pending(u, <<"rename", "list">>)
        /\ Pending(t, <<"append", "journal">>) <=> Pending(u, <<"append", "journal">>)
    BY <1>1, Zenon
  <2> QED
    BY <1>1, <1>4, <2>1, ZenonT(30) DEF Knows
<1>6. OpenIsListed' /\ due' = {}
  BY <1>3, ListedStays, Zenon DEF Alone
<1> QED
  BY <1>1, <1>3, <1>5, <1>6, AloneStep, Zenon DEF t

\* The change of the list leaves on it what is open.
LEMMA EditedListed ==
  ASSUME NEW o, Fits(o), NEW l \in List, NEW s \in l.devices \cup l.groups,
         o.kind \in {"remove_device", "remove_group"} => s # o.scope
  PROVE  s \in edit_list(o, l).devices \cup edit_list(o, l).groups
<1>1. CASE o.kind = "add_device"
  BY <1>1, Zenon DEF edit_list, List
<1>2. CASE o.kind = "remove_device"
  BY <1>2, Zenon DEF edit_list, List
<1>3. CASE o.kind = "add_group"
  BY <1>3 DEF edit_list, List
<1>4. CASE o.kind = "remove_group"
  BY <1>4, Zenon DEF edit_list, List
<1>5. CASE o.kind \in {"change", "approve"}
  BY <1>5 DEF edit_list
<1> QED
  BY <1>1, <1>2, <1>3, <1>4, <1>5 DEF Fits, Op, Kind

LEMMA RenameAlone ==
  ASSUME Alone, Typed', NEW w \in Writer, NEW f \in File, Rename(w, f)
  PROVE  Alone'
<1> DEFINE t == todo[w]
           u == Tail(todo[w])
           o == op[w]
           c == copy[w]
<1>1. /\ t # <<>> /\ w # Follow /\ Head(t) = <<"rename", f>>
      /\ \A x \in Writer \ {w} : Passive(todo[x])
      /\ Knows(t, o, c, disk, temp, handle[w]) /\ Fits(o)
      /\ Ordered(u)
      /\ \A s : s = <<"rename", f>> \/ (Pending(t, s) <=> Pending(u, s))
      /\ u # <<>> => \A g \in File : Head(u) # <<"write", g>> /\ Head(u) # <<"rename", g>>
      /\ ~Pending(u, <<"rename", f>>)
      /\ ~Pending(t, <<"load", "list">>) /\ ~Pending(t, <<"load", "access">>)
      /\ f = "list" => ~Pending(u, <<"rename", "access">>)
  BY SavingStep, ZenonT(30) DEF Rename
<1>2. CASE Fails(w) /\ UNCHANGED <<disk, temp, handle>>
  BY <1>1, <1>2, FailAlone, Zenon DEF Rename, t
<1>3. CASE /\ disk' = [disk EXCEPT ![f] = temp[f]]
           /\ Goes(w, copy[w])
  <2>1. temp[f] = c[f]
    BY <1>1, Zenon DEF Knows
  <2>2. Pending(t, <<"rename", f>>)
    <3>1. Ordered(t)
      BY DEF Alone
    <3> HIDE DEF t
    <3>2. Head(t) = t[1]
      BY <1>1, <3>1, TailOrdered
    <3>3. 1 \in 1 .. Len(t)
      <4>1. t \in Seq(Steps) /\ t # <<>>
        BY <1>1, <3>1 DEF Ordered
      <4> QED
        BY <4>1, LengthIs
    <3> QED
      BY <1>1, <3>2, <3>3 DEF Pending
  <2>3. Continue(w, u, c) /\ due' = {}
    BY <1>3 DEF Goes, Rename, Alone
  <2>4. /\ disk \in [File -> Content \cup Broken]
        /\ disk["access"] \in Access /\ disk["list"] \in List
    BY WholeType, Zenon DEF Alone, Typed, TypeOK, Files, OpenIsListed, NeverHalfAFile, File
  <2>5. c \in [File -> Content]
    BY Zenon DEF Alone, Typed, TypeOK, Files
  <2>6. disk'[f] = c[f] /\ \A g \in File \ {f} : disk'[g] = disk[g]
    BY <1>3, <2>1, <2>4, ZenonT(30)
  <2>7. NeverHalfAFile'
    <3>1. c[f] \notin Broken
      BY <2>5, WholeIsNotBroken
    <3> QED
      BY <2>6, <3>1, Zenon DEF Alone, OpenIsListed, NeverHalfAFile
  <2>8. \A s \in Device \cup Group :
          disk["access"][s] # Closed => s \in disk["list"].devices \cup disk["list"].groups
    BY Zenon DEF Alone, OpenIsListed
  <2>9. o.scope \in Scope /\ Device \cup Group \subseteq Scope
    BY Zenon DEF Alone, Typed, TypeOK, Op, Scope
  <2> HIDE DEF t, u, o, c
  <2>10. CASE f = "access"
    <3>1. c["access"] = edit_access(o, disk["access"])
      BY <1>1, <2>2, <2>10 DEF Knows
    <3>2. disk'["access"] = [disk["access"] EXCEPT ![o.scope] = o.end] /\ disk'["list"] = disk["list"]
      BY <2>6, <2>10, <3>1 DEF edit_access, File
    <3>3. /\ disk'["access"][o.scope] = o.end
          /\ \A s \in Scope \ {o.scope} : disk'["access"][s] = disk["access"][s]
      BY <2>4, <2>9, <3>2 DEF Access
    <3>4. ASSUME NEW s \in Device \cup Group, disk'["access"][s] # Closed
          PROVE  s \in disk["list"].devices \cup disk["list"].groups
      <4>1. CASE s # o.scope
        BY <2>8, <2>9, <3>3, <3>4, <4>1, Zenon
      <4>2. CASE s = o.scope
        <5>1. o.end # Closed
          BY <3>3, <3>4, <4>2
        <5>2. o.kind # "approve"
          BY <1>1, <4>2, NamesAssumption, Zenon DEF Fits
        <5>3. o.kind = "change"
          BY <1>1, <5>1, <5>2, ZenonT(30) DEF Fits
        <5>4. ~list_error(o, disk["list"])
          BY <1>1, <2>2, <2>10, <5>3, Zenon DEF Knows
        <5> QED
          BY <4>2, <5>3, <5>4 DEF list_error
      <4> QED
        BY <4>1, <4>2
    <3>5. OpenIsListed'
      BY <2>7, <3>2, <3>4 DEF OpenIsListed
    <3>6. Knows(u, o, c, disk', temp', handle'[w])
      <4>1. ~Pending(u, <<"rename", "access">>) /\ ~Pending(t, <<"load", "list">>)
        BY <1>1, <2>10, ZenonT(30)
      <4>2. Pending(u, <<"rename", "list">>) => Pending(t, <<"rename", "list">>)
        BY <1>1, <2>10
      <4>3. Pending(u, <<"rename", "list">>) => c["list"] = edit_list(o, disk'["list"])
        BY <1>1, <3>2, <4>1, <4>2, Zenon DEF Knows
      <4> QED
        BY <1>1, <3>3, <4>1, <4>3, ZenonT(30) DEF Knows
    <3> QED
      BY <1>1, <2>3, <3>5, <3>6, AloneStep, Zenon DEF t, o
  <2>11. CASE f = "list"
    <3>1. c["list"] = edit_list(o, disk["list"])
      BY <1>1, <2>2, <2>11, Zenon DEF Knows
    <3>2. disk'["access"] = disk["access"] /\ disk'["list"] = edit_list(o, disk["list"])
      BY <2>6, <2>11, <3>1 DEF File
    <3>3. ~Pending(u, <<"rename", "access">>) /\ ~Pending(t, <<"rename", "access">>)
      BY <1>1, <2>11
    <3>4. o.kind \notin Adds => disk["access"][o.scope] = o.end
      BY <1>1, <2>2, <2>11, <3>3, Zenon DEF Knows
    <3>5. ASSUME NEW s \in Device \cup Group, disk["access"][s] # Closed
          PROVE  s \in edit_list(o, disk["list"]).devices \cup edit_list(o, disk["list"]).groups
      <4>1. s \in disk["list"].devices \cup disk["list"].groups
        BY <2>8, <3>5
      <4>2. o.kind \in {"remove_device", "remove_group"} => s # o.scope
        BY <1>1, <3>4, <3>5, Zenon DEF Fits, Adds
      <4> QED
        BY <1>1, <2>4, <4>1, <4>2, EditedListed, Zenon
    <3>6. OpenIsListed'
      BY <2>7, <3>2, <3>5 DEF OpenIsListed
    <3>7. Knows(u, o, c, disk', temp', handle'[w])
      <4>1. ~Pending(u, <<"rename", "list">>) /\ ~Pending(t, <<"load", "list">>)
        BY <1>1, <2>11, ZenonT(30)
      <4>2. Pending(u, <<"append", "journal">>) => Pending(t, <<"append", "journal">>)
        BY <1>1
      <4>3. Pending(u, <<"append", "journal">>) => disk'["access"][o.scope] = o.end
        BY <1>1, <3>2, <3>4, <4>1, <4>2, Zenon DEF Knows
      <4> QED
        BY <1>1, <3>3, <4>1, <4>3, ZenonT(30) DEF Knows
    <3> QED
      BY <1>1, <2>3, <3>6, <3>7, AloneStep, Zenon DEF t, o
  <2> QED
    BY <2>10, <2>11 DEF File
<1> QED
  BY <1>2, <1>3 DEF Rename

\* The journal says what the file has.
LEMMA RecordedIsStored ==
  ASSUME Alone, NEW w \in Writer, Record(w)
  PROVE  disk["access"] \notin Broken /\ disk["access"][op[w].scope] = op[w].end
<1> DEFINE t == todo[w]
<1>1. t # <<>> /\ Head(t) = <<"append", "journal">>
  BY DEF Record, At
<1>2. Ordered(t) /\ Knows(t, op[w], copy[w], disk, temp, handle[w])
  BY DEF Alone
<1> HIDE DEF t
<1>3. /\ Head(t) = t[1]
      /\ \A s : Pending(t, s) => s = Head(t) \/ Pending(Tail(t), s)
      /\ \A s : Pending(Tail(t), s) => Rank(Head(t)) < Rank(s)
  BY <1>1, <1>2, TailOrdered
<1>4. Pending(t, <<"append", "journal">>)
  <2>1. 1 \in 1 .. Len(t)
    BY <1>1, <1>2, LengthIs DEF Ordered
  <2> QED
    BY <1>1, <1>3, <2>1 DEF Pending
<1>5. ~Pending(t, <<"rename", "access">>) /\ ~Pending(t, <<"load", "list">>)
  <2>1. \A s : Pending(t, s) => s = <<"append", "journal">> \/ 9 < Rank(s)
    BY <1>1, <1>3, Ranks
  <2> QED
    BY <2>1, Ranks
<1>6. disk["access"][op[w].scope] = op[w].end
  BY <1>2, <1>4, <1>5, Zenon DEF Knows
<1> QED
  BY <1>6, Zenon DEF Alone, OpenIsListed, NeverHalfAFile, File

LEMMA RecordAlone ==
  ASSUME Alone, Typed', NEW w \in Writer, Record(w)
  PROVE  Alone'
<1> DEFINE u == Tail(todo[w])
<1>1. /\ todo[w] # <<>> /\ Head(todo[w]) = <<"append", "journal">>
      /\ Continue(w, u, copy[w]) /\ UNCHANGED <<disk, temp, handle, due>>
  BY DEF Record, At, Goes
<1>2. Ordered(todo[w])
  BY DEF Alone
<1>3. /\ Ordered(u)
      /\ \A s : Pending(u, s) => s \in Steps /\ Rank(Head(todo[w])) < Rank(s)
  BY <1>1, <1>2, TailOrdered, Zenon
<1> HIDE DEF u
<1>4. ASSUME NEW i \in 1 .. Len(u)
      PROVE  Rank(u[i]) >= 10
  <2>1. Pending(u, u[i])
    BY DEF Pending
  <2>2. u[i] \in Steps /\ 9 < Rank(u[i])
    BY <1>1, <1>3, <2>1, Ranks, Zenon
  <2> QED
    BY <2>2, RankType
<1>5. Passive(u)
  BY <1>4 DEF Passive
<1>6. due' = {}
  BY <1>1, ZenonT(30) DEF Alone
<1> QED
  BY <1>1, <1>3, <1>5, <1>6, PassiveStep, Zenon

LEMMA InitAlone ==
  ASSUME Init
  PROVE  Alone
<1>1. Typed
  BY InitTyped
<1>2. OpenIsListed
  <2>1. NeverHalfAFile
    <3>1. \A f \in File : Empty[f] \in Content
      BY EmptyIsFiles DEF Files
    <3> QED
      BY <3>1, WholeIsNotBroken DEF Init, NeverHalfAFile
  <2>2. disk["access"] = NoAccess
    BY DEF Init, Empty, File
  <2>3. \A s \in Device \cup Group : disk["access"][s] = Closed
    BY <2>2 DEF NoAccess, Scope
  <2> QED
    BY <2>1, <2>3 DEF OpenIsListed
<1>3. Follow \in Writer /\ Web \cup Cli \subseteq Writer
  BY DEF Writer, Running
<1>4. \A w \in Writer : todo[w] = <<>>
  BY DEF Init
<1>5. \A w \in Writer :
        Ordered(todo[w]) /\ Knows(todo[w], op[w], copy[w], disk, temp, handle[w])
  BY <1>4, NothingPassive, PassiveKnows
<1>6. Passive(todo[Follow])
  BY <1>3, <1>4, NothingPassive
<1>7. \A x, y \in Web \cup Cli : x = y \/ todo[x] = <<>> \/ todo[y] = <<>>
  BY <1>3, <1>4
<1>8. due = {}
  BY DEF Init
<1> QED
  BY <1>1, <1>2, <1>5, <1>6, <1>7, <1>8 DEF Alone

LEMMA BeginAlone ==
  ASSUME OneAtATime, Alone, NEW w \in Web \cup Cli, Begin(w)
  PROVE  Alone'
<1>1. Typed' /\ \E o \in Offered(w) : /\ op' = [op EXCEPT ![w] = o]
                                      /\ todo' = [todo EXCEPT ![w] = plan(w, o.kind)]
  BY BeginTyped, Zenon DEF Alone
<1>2. PICK o \in Offered(w) : /\ op' = [op EXCEPT ![w] = o]
                              /\ todo' = [todo EXCEPT ![w] = plan(w, o.kind)]
  BY <1>1, Zenon
<1>3. /\ w \in Writer /\ Follow \in Writer /\ w # Follow /\ Web \cup Cli \subseteq Writer
  BY NamesAssumption DEF Writer, Running
<1>4. o.kind \in Kind
  BY DEF Offered, Op
<1> DEFINE t == plan(w, o.kind)
<1>5. /\ op'[w] = o /\ todo'[w] = t
      /\ \A x \in Writer \ {w} : op'[x] = op[x] /\ todo'[x] = todo[x]
  BY <1>2, <1>3, Zenon DEF Alone, Typed, TypeOK
<1>6. UNCHANGED <<disk, temp, copy, handle, due>>
  BY DEF Begin
<1>7. /\ Part(t, 1, 12)
      /\ o.kind # "approve" => Pending(t, <<"load", "list">>)
      /\ Pending(t, <<"rename", "access">>) => Pending(t, <<"load", "access">>)
      /\ Pending(t, <<"rename", "list">>) => Pending(t, <<"load", "list">>)
      /\ o.kind \notin Adds => Pending(t, <<"rename", "access">>)
  BY <1>4, PlanParts DEF Adds
<1> HIDE DEF t
<1>8. Ordered(t)
  BY <1>7 DEF Part
<1>9. t # <<>> => \A f \in File : Head(t) # <<"write", f>> /\ Head(t) # <<"rename", f>>
  BY <1>7, <1>8, TailOrdered DEF Part
<1>10. Knows(t, o, copy[w], disk, temp, handle[w])
  BY <1>7, <1>9 DEF Knows, Adds
<1>11. ASSUME NEW x \in Writer
       PROVE  Ordered(todo'[x]) /\ Knows(todo'[x], op'[x], copy'[x], disk', temp', handle'[x])
  <2>1. CASE x = w
    BY <1>5, <1>6, <1>8, <1>10, <2>1
  <2>2. CASE x # w
    <3>1. Ordered(todo[x]) /\ Knows(todo[x], op[x], copy[x], disk, temp, handle[x])
      BY Zenon DEF Alone
    <3> QED
      BY <1>5, <1>6, <2>2, <3>1
  <2> QED
    BY <2>1, <2>2, ZenonT(30)
<1>12. Passive(todo'[Follow])
  BY <1>3, <1>5, Zenon DEF Alone
<1>13. \A x, y \in Web \cup Cli : x = y \/ todo'[x] = <<>> \/ todo'[y] = <<>>
  <2>1. \A x \in Web \cup Cli : todo[x] = <<>>
    BY DEF Begin
  <2> QED
    BY <1>3, <1>5, <2>1, Zenon
<1>14. OpenIsListed' /\ due' = {}
  BY <1>6, ListedStays DEF Alone
<1> QED
  BY <1>1, <1>11, <1>12, <1>13, <1>14, Zenon DEF Alone

LEMMA FollowTickAlone ==
  ASSUME Alone, Typed', FollowTick
  PROVE  Alone'
<1> DEFINE t == reload \o <<<<"ran_out", "gate">>>>
<1>1. Part(t, 10, 13)
  <2>1. Part(reload, 10, 12) /\ Part(<<<<"ran_out", "gate">>>>, 13, 13)
    BY Parts
  <2> QED
    BY <2>1, ConcatPart
<1>2. todo' = [todo EXCEPT ![Follow] = t] /\ UNCHANGED <<disk, temp, op, copy, handle, due>>
  BY DEF FollowTick
<1> HIDE DEF t
<1>3. Ordered(t) /\ Passive(t)
  BY <1>1 DEF Part, Passive
<1>4. Follow \in Writer /\ Web \cup Cli \subseteq Writer /\ Follow \notin Web \cup Cli
  BY NamesAssumption DEF Writer, Running
<1>5. todo'[Follow] = t /\ \A x \in Writer \ {Follow} : todo'[x] = todo[x]
  BY <1>2, <1>4, ZenonT(30) DEF Alone, Typed, TypeOK
<1>6. ASSUME NEW x \in Writer
      PROVE  Ordered(todo'[x]) /\ Knows(todo'[x], op'[x], copy'[x], disk', temp', handle'[x])
  <2>1. CASE x = Follow
    BY <1>3, <1>5, <2>1, PassiveKnows
  <2>2. CASE x # Follow
    <3>1. Ordered(todo[x]) /\ Knows(todo[x], op[x], copy[x], disk, temp, handle[x])
      BY DEF Alone
    <3> QED
      BY <1>2, <1>5, <2>2, <3>1
  <2> QED
    BY <2>1, <2>2
<1>7. OpenIsListed' /\ due' = {}
  BY <1>2, ListedStays DEF Alone
<1>8. \A x, y \in Web \cup Cli : x = y \/ todo'[x] = <<>> \/ todo'[y] = <<>>
  BY <1>4, <1>5, Zenon DEF Alone
<1> QED
  BY <1>3, <1>5, <1>6, <1>7, <1>8, Zenon DEF Alone

LEMMA RestartAlone ==
  ASSUME Alone, Typed', Restart
  PROVE  Alone'
<1>1. Follow \in Running /\ Follow \in Writer /\ Web \cup Cli \subseteq Writer
  BY DEF Writer, Running
<1>2. /\ \A x \in Writer : x \in Running => todo'[x] = <<>>
      /\ \A x \in Writer : x \notin Running =>
           todo'[x] = todo[x] /\ op'[x] = op[x] /\ copy'[x] = copy[x]
      /\ UNCHANGED <<disk, temp, handle>> /\ due' = {}
  BY ZenonT(30) DEF Restart
<1>3. ASSUME NEW x \in Writer
      PROVE  Ordered(todo'[x]) /\ Knows(todo'[x], op'[x], copy'[x], disk', temp', handle'[x])
  <2>1. CASE x \in Running
    BY <1>2, <2>1, NothingPassive, PassiveKnows, Zenon
  <2>2. CASE x \notin Running
    <3>1. Ordered(todo[x]) /\ Knows(todo[x], op[x], copy[x], disk, temp, handle[x])
      BY DEF Alone
    <3> QED
      BY <1>2, <2>2, <3>1
  <2> QED
    BY <2>1, <2>2, Zenon
<1>4. Passive(todo'[Follow])
  BY <1>1, <1>2, NothingPassive
<1>5. \A x, y \in Web \cup Cli : x = y \/ todo'[x] = <<>> \/ todo'[y] = <<>>
  BY <1>1, <1>2, Zenon DEF Alone
<1>6. OpenIsListed'
  BY <1>2, ListedStays, Zenon DEF Alone
<1> QED
  BY <1>2, <1>3, <1>4, <1>5, <1>6, Zenon DEF Alone

\* Nothing of the files and the writers changes.
LEMMA SameAlone ==
  ASSUME Alone, Typed', UNCHANGED <<disk, temp, op, todo, copy, handle, due>>
  PROVE  Alone'
<1>1. OpenIsListed'
  BY ListedStays, Zenon DEF Alone
<1>2. ASSUME NEW x \in Writer
      PROVE  Ordered(todo'[x]) /\ Knows(todo'[x], op'[x], copy'[x], disk', temp', handle'[x])
  <2>1. Ordered(todo[x]) /\ Knows(todo[x], op[x], copy[x], disk, temp, handle[x])
    BY Zenon DEF Alone
  <2> QED
    BY <2>1
<1> QED
  BY <1>1, <1>2, ZenonT(30) DEF Alone

LEMMA NextAlone ==
  ASSUME OneAtATime, MaxTime = 0, Alone, [Next]_vars
  PROVE  Alone'
<1>1. Typed'
  BY NextTyped DEF Alone
<1>2. CASE UNCHANGED vars \/ Tick
  BY <1>1, <1>2, SameAlone DEF vars, Tick
<1>3. CASE FollowTick
  BY <1>1, <1>3, FollowTickAlone
<1>4. CASE RanOut
  BY <1>1, <1>4, RanOutAlone
<1>5. ASSUME NEW s \in Scope, Expire(s)
      PROVE  Alone'
  BY <1>5 DEF Expire, Alone
<1>6. ASSUME NEW w \in Web \cup Cli, Begin(w)
      PROVE  Alone'
  BY <1>6, BeginAlone
<1>7. ASSUME NEW w \in Writer, Step(w)
      PROVE  Alone'
  BY <1>1, <1>7, LoadAlone, CreateAlone, WriteAlone, RenameAlone, ReadAlone, RecordAlone,
     PublishAlone DEF Step
<1>8. ASSUME NEW w \in Writer, IoError(w)
      PROVE  Alone'
  BY <1>1, <1>8, FailAlone DEF IoError
<1>9. CASE Restart
  BY <1>1, <1>9, RestartAlone
<1>10. ASSUME NEW w \in Cli, Kill(w)
       PROVE  Alone'
  <2>1. /\ w \in Writer /\ todo[w] # <<>> /\ Continue(w, <<>>, Empty)
        /\ UNCHANGED <<disk, temp, handle>> /\ due' = {}
    BY <1>10, Zenon DEF Kill, Alone, Writer
  <2> DEFINE t == <<>>
  <2>2. Ordered(t) /\ Passive(t) /\ Continue(w, t, Empty)
    BY <2>1, NothingPassive
  <2> HIDE DEF t
  <2> QED
    BY <1>1, <2>1, <2>2, PassiveStep, Zenon
<1>11. Follow \in Writer /\ Web \cup Cli \subseteq Writer
  BY DEF Writer, Running
<1> QED
  BY <1>2, <1>3, <1>4, <1>5, <1>6, <1>7, <1>8, <1>9, <1>10, <1>11
     DEF Next, Work, FollowLoop

\* With one writer at a time - the customer begins an operation after the last,
\* and the follow loop has nothing to close, since openings have no end - a
\* reader never sees half a file, and nothing is open that is not on the list,
\* whatever write fails and whenever the connector or the command line dies.
THEOREM OpenStaysListed ==
  ASSUME OneAtATime, MaxTime = 0
  PROVE  Spec => []OpenIsListed
<1>1. Init => Alone
  BY InitAlone
<1>2. Alone /\ [Next]_vars => Alone'
  BY NextAlone
<1>3. Alone => OpenIsListed
  BY DEF Alone
<1> QED
  BY <1>1, <1>2, <1>3, PTL DEF Spec

\* With one writer at a time the journal records a change only when access.json
\* has it: change, approve and the removals append after the save, and what is
\* added to the list was closed.
THEOREM JournalIsTrue ==
  ASSUME OneAtATime, MaxTime = 0
  PROVE  Spec => JournalFollowsFile
<1> DEFINE Follows == \A s \in Scope :
             journal'[s] # journal[s] => disk["access"] \notin Broken /\ disk["access"][s] = journal'[s]
<1>1. Init => Alone
  BY InitAlone
<1>2. Alone /\ [Next]_vars => Alone'
  BY NextAlone
<1>3. Alone /\ [Next]_vars => [Follows]_vars
  <2> SUFFICES ASSUME Alone, Next
               PROVE  Follows
    OBVIOUS
  <2>1. CASE UNCHANGED journal
    BY <2>1
  <2>2. ASSUME NEW w \in Writer, Record(w)
        PROVE  Follows
    <3>1. disk["access"] \notin Broken /\ disk["access"][op[w].scope] = op[w].end
      BY <2>2, RecordedIsStored
    <3>2. journal' = [journal EXCEPT ![op[w].scope] = op[w].end]
      BY <2>2 DEF Record
    <3>3. journal \in Access
      BY Zenon DEF Alone, Typed, TypeOK
    <3> QED
      BY <3>1, <3>2, <3>3 DEF Access
  <2>3. UNCHANGED journal \/ \E w \in Writer : Record(w)
    <3>1. ASSUME NEW w \in Writer, Step(w)
          PROVE  UNCHANGED journal \/ Record(w)
      BY <3>1, Zenon DEF Step, Load, Create, Write, Rename, Read, Publish
    <3>2. CASE Tick \/ FollowTick \/ RanOut \/ \E s \in Scope : Expire(s)
      BY <3>2 DEF Tick, FollowTick, RanOut, Expire
    <3>3. CASE \/ \E w \in Web \cup Cli : Begin(w)
               \/ \E w \in Writer : IoError(w)
               \/ Restart
               \/ \E w \in Cli : Kill(w)
      BY <3>3 DEF Begin, IoError, Restart, Kill
    <3>4. Follow \in Writer /\ \A w \in Web \cup Cli : w \in Writer
      BY DEF Writer, Running
    <3>5. CASE \E w \in Writer : Step(w)
      BY <3>1, <3>5
    <3> QED
      BY <3>2, <3>3, <3>4, <3>5 DEF Next, Work, FollowLoop
  <2> QED
    BY <2>1, <2>2, <2>3
<1> QED
  BY <1>1, <1>2, <1>3, PTL DEF Spec, JournalFollowsFile
=============================================================================
