-------------------------------- MODULE Wire --------------------------------
(***************************************************************************)
(* The bytes on a connection (internal/protocol).  A message is a sequence *)
(* of cells: the integers the encoder writes, each with its width, and the *)
(* payloads of strings and byte arrays, each with its length.  The Decoder *)
(* is an interpreter of layouts: a layout is the sequence of reads that a  *)
(* Parse function makes.  A read that does not meet a cell of its own      *)
(* width takes bytes of two fields for one: the stream is garbled.         *)
(***************************************************************************)
EXTENDS Integers, Sequences, SequencesExt

CONSTANTS
    IntMax,    \* the largest int32
    MaxCount   \* the array length that Produce and ListOffsets refuse to exceed

(* A string, a byte array or an array: its length field and its contents.  *)
Payload(n, x) == [n |-> n, x |-> x]
Null == Payload(-1, "")
Empty == Payload(0, "")

(* What a layout is made of.  The client's layouts say with "in", "min"    *)
(* and "max" which values the clients of a model send.                     *)
Num(n, in) == [t |-> "int", n |-> n, in |-> in]
I8 == Num(1, {0})
I16 == Num(2, {0})
I32 == Num(4, {0})
I64 == Num(8, {0})
Text(in) == [t |-> "string", in |-> in]
Str == Text({Payload(2, "s")})
NullableStr == Text({Null, Payload(2, "s")})
Data(in) == [t |-> "bytes", in |-> in]
Batch == [t |-> "batch"]
Array(of, min, max) ==
    [t |-> "array", of |-> of, checked |-> FALSE, min |-> min, max |-> max]
Arr(of) == Array(of, 0, 1)
Checked(of) == [t |-> "array", of |-> of, checked |-> TRUE]
When(b, lay) == IF b THEN lay ELSE <<>>
-----------------------------------------------------------------------------
(* The Encoder. *)
WriteInt(n, v) == <<[n |-> n, v |-> v, raw |-> FALSE]>>
WriteBytes(p) == When(p.n > 0, <<[n |-> p.n, v |-> p.x, raw |-> TRUE]>>)
WriteString(p) == WriteInt(2, p.n) \o WriteBytes(p)

RECURSIVE Write(_, _)
Write(lay, vals) ==
    IF lay = <<>> THEN <<>>
    ELSE LET f == Head(lay)
             v == Head(vals)
             each == [i \in DOMAIN v.x |-> Write(f.of, v.x[i])]
         IN  (CASE f.t = "int" -> WriteInt(f.n, v)
                [] f.t = "string" -> WriteString(v)
                [] f.t \in {"bytes", "batch"} -> WriteInt(4, v.n) \o WriteBytes(v)
                [] f.t = "array" -> WriteInt(4, v.n)
                                      \o When(v.n > 0, FlattenSeq(each)))
             \o Write(Tail(lay), Tail(vals))

Width(cells) == FoldLeft(LAMBDA sum, c : sum + c.n, 0, cells)

Int32(x) == ((x + IntMax + 1) % (2 * (IntMax + 1))) - (IntMax + 1)

FullMessage(cells) == WriteInt(4, Width(cells)) \o cells
-----------------------------------------------------------------------------
(* The Decoder: a read ends with a value and the rest of the stream, or    *)
(* finds the stream at its end, or fails.                                  *)
Got(v, s) == [res |-> "ok", v |-> v, rest |-> s]
Stop(why) == [res |-> why, v |-> <<>>, rest |-> <<>>]
Then(r, K(_, _)) ==
    CHOOSE y \in {IF x.res = "ok" THEN K(x.v, x.rest) ELSE x : x \in {r}} : TRUE

ReadInt(n, s) ==
    IF s = <<>> THEN Stop("eof")
    ELSE IF Head(s).raw \/ Head(s).n # n THEN Stop("garbled")
    ELSE Got(Head(s).v, Tail(s))

ReadBytes(n, s) ==
    IF n <= 0 THEN Got(Empty, s)
    ELSE IF s = <<>> THEN Stop("eof")
    ELSE IF ~Head(s).raw \/ Head(s).n # n THEN Stop("garbled")
    ELSE Got(Payload(n, Head(s).v), Tail(s))

(* A null string is read as an empty one. *)
ReadString(s) == Then(ReadInt(2, s), LAMBDA n, r : ReadBytes(n, r))

(* make with a negative capacity panics; Produce and ListOffsets check the *)
(* count first.                                                            *)
Elements(f, n) ==
    IF f.checked /\ (n < 0 \/ n > MaxCount) THEN "error"
    ELSE IF n < 0 THEN "panic" ELSE "ok"

RECURSIVE Read(_, _), ReadEach(_, _, _)
ReadEach(of, n, s) ==
    IF n = 0 THEN Got(<<>>, s)
    ELSE Then(Read(of, s), LAMBDA v, r :
           Then(ReadEach(of, n - 1, r), LAMBDA vs, q : Got(<<v>> \o vs, q)))

ReadField(f, s) ==
    CASE f.t = "int" -> ReadInt(f.n, s)
      [] f.t = "string" -> ReadString(s)
      [] f.t = "bytes" -> Then(ReadInt(4, s), LAMBDA n, r : ReadBytes(n, r))
      [] f.t = "batch" -> Then(ReadInt(4, s), LAMBDA n, r :
                            IF n < 0 THEN Stop("error") ELSE ReadBytes(n, r))
      [] f.t = "array" -> Then(ReadInt(4, s), LAMBDA n, r :
                            IF Elements(f, n) # "ok" THEN Stop(Elements(f, n))
                            ELSE Then(ReadEach(f.of, n, r), LAMBDA x, q :
                                   Got(Payload(n, x), q)))

Read(lay, s) ==
    IF lay = <<>> THEN Got(<<>>, s)
    ELSE Then(ReadField(Head(lay), s), LAMBDA v, r :
           Then(Read(Tail(lay), r), LAMBDA vs, q : Got(<<v>> \o vs, q)))

(* The values that a client's layout allows. *)
RECURSIVE Values(_)
Values(lay) ==
    IF lay = <<>> THEN {<<>>}
    ELSE LET f == Head(lay)
             here == IF f.t = "array"
                     THEN UNION {{Payload(n, x) : x \in [1..n -> Values(f.of)]}
                                 : n \in f.min..f.max}
                     ELSE f.in
         IN  {<<v>> \o vs : v \in here, vs \in Values(Tail(lay))}
=============================================================================
