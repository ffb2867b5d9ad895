----------------------------- MODULE WireFormat -----------------------------
(***************************************************************************)
(* Bytes on the wire: the protocol buffers encoding as the generated code  *)
(* of raftpb, drummerpb, multiraftpb and client writes and reads it, and   *)
(* the Colfer encoding raftpb/raft_optimized.go has for Entry.             *)
(*                                                                         *)
(* A byte is a number of 0 .. 255.  A uint64 is the sequence of its 7-bit  *)
(* groups, the lowest first and the highest one not 0, so that all 64 bits *)
(* are there: zero is <<>>, 2^64 - 1 has ten groups.  Lengths are numbers. *)
(***************************************************************************)
EXTENDS Integers, Sequences, SequencesExt

Bigger(a, b) == IF a > b THEN a ELSE b
Smaller(a, b) == IF a < b THEN a ELSE b

\* Without the groups on top that are 0.
Normal(groups) ==
    LET n == CHOOSE k \in 0 .. Len(groups) :
                 /\ k > 0 => groups[k] # 0
                 /\ \A i \in k + 1 .. Len(groups) : groups[i] = 0
    IN  SubSeq(groups, 1, n)

\* A length, less than 2^21, as a uint64, and back.
Groups(n) == Normal(<<n % 128, (n \div 128) % 128, n \div 16384>>)
Number(groups) ==
    LET at(i) == IF i <= Len(groups) THEN groups[i] ELSE 0
    IN  at(1) + 128 * at(2) + 16384 * at(3)

\* What is left of a uint64 in a variable of 32 bits.
Low32(groups) ==
    Normal([i \in 1 .. (IF Len(groups) > 5 THEN 5 ELSE Len(groups)) |->
               IF i = 5 THEN groups[i] % 16 ELSE groups[i]])

-----------------------------------------------------------------------------
(* Writing.                                                                 *)

encodeVarint(v) ==
    IF v = <<>> THEN <<0>>
    ELSE [i \in 1 .. Len(v) |-> IF i < Len(v) THEN v[i] + 128 ELSE v[i]]

\* The number of bytes encodeVarint writes.
sov(v) == Bigger(1, Len(v))
sovLen(n) == sov(Groups(n))

Tag(tag) == encodeVarint(Groups(tag))
WithLength(bytes) == encodeVarint(Groups(Len(bytes))) \o bytes

-----------------------------------------------------------------------------
(* Reading: what was read and the bytes that are left, or failure.          *)

Got(value, rest) == [ok |-> TRUE, value |-> value, rest |-> rest]
Failed == [ok |-> FALSE, value |-> <<>>, rest |-> <<>>]

\* The loop that reads a varint: ErrUnexpectedEOF, ErrIntOverflow, or the value.
decodeVarint(bytes) ==
    LET ends == {i \in 1 .. Smaller(10, Len(bytes)) : bytes[i] < 128}
        n == CHOOSE i \in ends : \A j \in ends : i <= j
    IN  IF ends = {} THEN Failed
        ELSE Got(Normal([i \in 1 .. n |-> IF i = 10 THEN bytes[i] % 2 ELSE bytes[i] % 128]),
                 SubSeq(bytes, n + 1, Len(bytes)))

\* The first n bytes; a length and that many bytes.
Take(n, bytes) ==
    IF n > Len(bytes) THEN Failed ELSE Got(SubSeq(bytes, 1, n), SubSeq(bytes, n + 1, Len(bytes)))
TakeLength(l) == IF l.ok THEN Take(Number(l.value), l.rest) ELSE Failed
decodeBytes(bytes) == LET l == decodeVarint(bytes) IN TakeLength(l)

\* skipRaft and its like: pass over a field that the table does not have.
RECURSIVE SkipGroup(_)
SkipValue(type, tag) ==
    CASE type = 0 -> decodeVarint(tag.rest)
      [] type = 1 -> Take(8, tag.rest)
      [] type = 2 -> decodeBytes(tag.rest)
      [] type = 3 -> SkipGroup(tag.rest)
      [] type = 4 -> tag
      [] type = 5 -> Take(4, tag.rest)
      [] OTHER -> Failed
SkipTagged(tag) == IF tag.ok THEN SkipValue(Number(tag.value) % 8, tag) ELSE Failed
Skip(bytes) == LET tag == decodeVarint(bytes) IN SkipTagged(tag)
SkipOn(tag, inner) ==
    IF ~tag.ok \/ Number(tag.value) % 8 = 4 THEN tag
    ELSE IF inner.ok THEN SkipGroup(inner.rest)
    ELSE Failed
SkipGroup(bytes) ==
    LET tag == decodeVarint(bytes)
        inner == Skip(bytes)
    IN  SkipOn(tag, inner)

-----------------------------------------------------------------------------
(* The rows of the tables that describe a message's MarshalTo, Size and     *)
(* Unmarshal.  key is the tag MarshalTo writes, the bytes Size adds to the  *)
(* length of the value, or the field number Unmarshal looks for.            *)

Row(key, field, kind, of, many) ==
    [key |-> key, field |-> field, kind |-> kind, of |-> of, many |-> many]

Uint(key, field) == Row(key, field, "uint", "", FALSE)
Uint32(key, field) == Row(key, field, "uint32", "", FALSE)  \* or an enumeration
Bool(key, field) == Row(key, field, "bool", "", FALSE)
Str(key, field) == Row(key, field, "string", "", FALSE)
Bytes(key, field) == Row(key, field, "bytes", "", FALSE)     \* written unless nil
Msg(key, field, of) == Row(key, field, "message", of, FALSE)
Map(key, field, of) == Row(key, field, "map", of, FALSE)     \* keys are uint64
Many(row) == [row EXCEPT !.many = TRUE]
Fixed(n) == Row(n, "", "fixed", "", FALSE)

\* The three tables of a message.
Table(to, size, from) == [marshal |-> to, size |-> size, unmarshal |-> from]

=============================================================================
