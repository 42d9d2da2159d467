-------------------------------- MODULE Relay --------------------------------
(***************************************************************************)
(* The relay of a display: crates/gateway/src/guacamole.rs and relay() in  *)
(* crates/server/src/api/display.rs.  Both sides send instructions encoded *)
(* as LENGTH.VALUE,...; where the length counts characters; what arrives   *)
(* at once is any number of bytes.  The server parses what the browser     *)
(* sends and passes on what it may send, and cuts what guacd sends into    *)
(* frames of whole instructions.                                           *)
(*                                                                         *)
(* A byte is a one-letter string: a digit, a sign, a letter, or the lead   *)
(* "<" and the trail ">" of a character of two bytes.                      *)
(***************************************************************************)
EXTENDS Integers, Sequences, SequencesExt

CONSTANTS
    Opcode,     \* [opcode -> its allowance: "input", "other" or "barred"]
    Value,      \* values of arguments, as sequences of bytes
    MaxSent,    \* bound: how many instructions each side sends
    MaxBytes    \* MAX_INSTRUCTION_BYTES

VARIABLES
    sent,       \* what the browser and guacd send: sequences of instructions
    wire,       \* the bytes of it that are still on their way
    buffer,     \* the parsers' buffers
    locked,     \* the session is locked
    read,       \* history: what was parsed from the browser, with its lock
    forwarded,  \* the instructions guacd got
    frames,     \* the frames the browser got
    ended       \* the relay returned

relayVars == <<sent, wire, buffer, locked, read, forwarded, frames, ended>>

Sides == {"browser", "guacd"}

Instructions == [op : DOMAIN Opcode, arg : Value]

Digits == <<"0", "1", "2", "3", "4", "5", "6", "7", "8", "9">>

Digit(n) == Digits[n + 1]

Bytes(text) == IF text = "" THEN <<>> ELSE <<text>>

Characters(value) == Len(SelectSeq(value, LAMBDA b : b # ">"))

\* push_element and encode_into: the length in characters.
Element(value) == <<Digit(Characters(value)), ".">> \o value

Encode(i) == Element(Bytes(i.op)) \o <<",">> \o Element(i.arg) \o <<";">>

EncodeAll(s) == FlattenSeq([k \in DOMAIN s |-> Encode(s[k])])

NoLength == [ok |-> FALSE, end |-> 0, elements |-> <<>>]

\* The position after so many characters; beyond the buffer if it ends before.
RECURSIVE Skip(_, _, _)
Skip(b, at, characters) ==
    IF characters = 0 \/ at > Len(b) THEN at
    ELSE Skip(b, at + (IF b[at] = "<" THEN 2 ELSE 1), characters - 1)

\* A fault: the length is taken for one in bytes.
SkipBytes(b, at, characters) == at + characters

After(b, at, characters) == Skip(b, at, characters)

\* scan, from a position: where the first instruction ends and its elements,
\* or not ok if it is not complete.  What the model sends is well-formed.
RECURSIVE ScanFrom(_, _, _)
ScanFrom(b, at, elements) ==
    IF at + 1 > Len(b) THEN NoLength
    ELSE LET start == at + 2
             stop  == After(b, start, CHOOSE n \in 0..9 : Digit(n) = b[at])
         IN IF stop > Len(b) THEN NoLength
            ELSE LET found == Append(elements, SubSeq(b, start, stop - 1))
                 IN CASE b[stop] = ";" -> [ok |-> TRUE, end |-> stop, elements |-> found]
                      [] b[stop] = "," -> ScanFrom(b, stop + 1, found)
                      [] OTHER         -> NoLength

Scan(b) == ScanFrom(b, 1, <<>>)

Rest(b, n) == SubSeq(b, n + 1, Len(b))

\* next_instruction until there is none: what was read, and what stays.
RECURSIVE ParseAll(_)
ParseAll(b) ==
    LET s == Scan(b)
    IN IF ~s.ok THEN [read |-> <<>>, rest |-> b]
       ELSE LET more == ParseAll(Rest(b, s.end))
                op   == IF s.elements[1] = <<>> THEN "" ELSE s.elements[1][1]
            IN [read |-> <<[op |-> op, arg |-> s.elements[2]]>> \o more.read,
                rest |-> more.rest]

\* take_complete: the length of all complete instructions.
RECURSIVE Complete(_)
Complete(b) ==
    LET s == Scan(b) IN IF s.ok THEN s.end + Complete(Rest(b, s.end)) ELSE 0

\* incomplete: more bytes than an instruction may have, and still no end.
TooLong(rest) == Len(rest) > MaxBytes
-----------------------------------------------------------------------------
Lists(side) == UNION {[1..n -> Instructions] : n \in 0..MaxSent[side]}

Init ==
    /\ \E b \in Lists("browser"), g \in Lists("guacd") :
          sent = [s \in Sides |-> IF s = "browser" THEN b ELSE g]
    /\ wire = [s \in Sides |-> EncodeAll(sent[s])]
    /\ buffer = [s \in Sides |-> <<>>]
    /\ locked = FALSE
    /\ read = <<>>
    /\ forwarded = <<>>
    /\ frames = <<>>
    /\ ended = FALSE

\* A fault: only what is not input is looked at.
PassesAll(i, lock) == Opcode[i.op] = "input" => ~lock

\* allowed_from_browser, and is_input while the session is locked.
Passes(i, lock) ==
    /\ Opcode[i.op] # "barred"
    /\ Opcode[i.op] = "input" => ~lock

\* One message of the browser: everything complete is parsed, what may pass
\* goes to guacd in one piece; an instruction that is too long ends it.
FromBrowser(n) ==
    \E parsed \in {ParseAll(buffer["browser"] \o SubSeq(wire["browser"], 1, n))} :
        /\ wire' = [wire EXCEPT !["browser"] = Rest(@, n)]
        /\ buffer' = [buffer EXCEPT !["browser"] = parsed.rest]
        /\ IF TooLong(parsed.rest)
           THEN ended' = TRUE /\ UNCHANGED <<read, forwarded>>
           ELSE /\ read' = read \o [k \in DOMAIN parsed.read |->
                                       [i |-> parsed.read[k], lock |-> locked]]
                /\ forwarded' = forwarded \o
                       SelectSeq(parsed.read, LAMBDA i : Passes(i, locked))
                /\ UNCHANGED ended
        /\ UNCHANGED <<sent, locked, frames>>

\* One read from guacd (Connection::receive).
FromGuacd(n) ==
    \E got \in {buffer["guacd"] \o SubSeq(wire["guacd"], 1, n)} :
    \E whole \in {Complete(got)} :
        /\ wire' = [wire EXCEPT !["guacd"] = Rest(@, n)]
        /\ buffer' = [buffer EXCEPT !["guacd"] = Rest(got, whole)]
        /\ IF whole = 0 THEN UNCHANGED frames
           ELSE frames' = Append(frames, SubSeq(got, 1, whole))
        /\ ended' = TooLong(Rest(got, whole))
        /\ UNCHANGED <<sent, locked, read, forwarded>>

Lock ==
    /\ ~ended
    /\ wire["browser"] # <<>>
    /\ locked' = ~locked
    /\ UNCHANGED <<sent, wire, buffer, read, forwarded, frames, ended>>

Next ==
    \/ ~ended /\ \E n \in 1..Len(wire["browser"]) : FromBrowser(n)
    \/ ~ended /\ \E n \in 1..Len(wire["guacd"]) : FromGuacd(n)
    \/ Lock
-----------------------------------------------------------------------------
TypeOK ==
    /\ sent \in [Sides -> Seq(Instructions)]
    /\ locked \in BOOLEAN /\ ended \in BOOLEAN
    /\ read \in Seq([i : Instructions, lock : BOOLEAN])
    /\ forwarded \in Seq(Instructions)
    /\ frames \in Seq(Seq(STRING))

\* However the bytes are cut, the server reads from the browser exactly the
\* instructions it sent, up to the last complete one, and guacd gets exactly
\* those the browser may send, input only from an unlocked session.
ReadsWhatWasSent ==
    ~ended =>
        /\ \E k \in 0..Len(sent["browser"]) :
              /\ read = [n \in 1..k |-> [i |-> sent["browser"][n], lock |-> read[n].lock]]
              /\ EncodeAll(SubSeq(sent["browser"], 1, k)) \o buffer["browser"] \o wire["browser"]
                     = EncodeAll(sent["browser"])
              /\ k < Len(sent["browser"]) =>
                     Len(buffer["browser"]) < Len(Encode(sent["browser"][k + 1]))
        /\ forwarded =
              LET may == SelectSeq(read, LAMBDA r : /\ Opcode[r.i.op] # "barred"
                                                    /\ Opcode[r.i.op] = "input" => ~r.lock)
              IN [n \in DOMAIN may |-> may[n].i]

\* Every frame the browser gets is of whole instructions, and together they
\* are what guacd sent, in order.  The relay ends by itself for nothing but an
\* instruction that is too long.
FramesAreWhole ==
    IF ended
    THEN \E side \in Sides : \E k \in DOMAIN sent[side] :
             Len(Encode(sent[side][k])) > MaxBytes + 1
    ELSE \E k \in 0..Len(sent["guacd"]) :
             /\ FlattenSeq(frames) = EncodeAll(SubSeq(sent["guacd"], 1, k))
             /\ \A f \in DOMAIN frames : Complete(frames[f]) = Len(frames[f])
             /\ k < Len(sent["guacd"]) =>
                    Len(buffer["guacd"]) < Len(Encode(sent["guacd"][k + 1]))
=============================================================================
