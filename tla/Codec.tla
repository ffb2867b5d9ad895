------------------------------- MODULE Codec --------------------------------
(***************************************************************************)
(* A message is written by MarshalTo and read back by Unmarshal, field by  *)
(* field, for the messages Tables describes (those of RaftMessages and     *)
(* DrummerMessages) and for Entry (Colfer, raft_optimized.go).  The sender *)
(* may be of a later version and write a field the receiver does not know. *)
(*                                                                         *)
(* A message is a function from its fields: a uint64 as in WireFormat, a   *)
(* string its bytes, a []byte <<>> if nil and <<b>> otherwise, a repeated  *)
(* field a sequence, a map a function.                                     *)
(***************************************************************************)
EXTENDS WireFormat, FiniteSetsExt

CONSTANT Tables \* the tables of every message, by its name

-----------------------------------------------------------------------------
(* Entry, in Colfer.  The header of a field is its place, counted from 0; a *)
(* field that is zero is left out.                                          *)

EntryFields ==
    <<Uint(0, "Term"), Uint(1, "Index"), Uint32(2, "Type"), Uint(3, "Key"),
      Uint(4, "ClientID"), Uint(5, "SeriesID"), Uint(6, "RespondedTo"), Str(7, "Cmd")>>
EntryEnd == 127

\* The bit of a uint64 that is worth 2^i, and the eight bytes of
\* BigEndian.PutUint64, back and forth.
Bit(v, i) == IF i \div 7 < Len(v) THEN (v[i \div 7 + 1] \div 2^(i % 7)) % 2 ELSE 0
PutUint64(v) ==
    [b \in 1 .. 8 |-> SumSet({2^i * Bit(v, 8 * (8 - b) + i) : i \in 0 .. 7})]
Uint64(bytes) ==
    LET bit(i) == IF i < 64 THEN (bytes[8 - i \div 8] \div 2^(i % 8)) % 2 ELSE 0
    IN  Normal([g \in 1 .. 10 |-> SumSet({2^i * bit(7 * (g - 1) + i) : i \in 0 .. 6})])

\* Values of 2^49 and more are written in eight bytes.
Large(v) == Len(v) > 7

EntryField(row, e) ==
    LET v == e[row.field]
    IN  IF v = <<>> THEN <<>>
        ELSE IF row.kind = "string" THEN <<row.key>> \o WithLength(v)
        ELSE IF row.kind = "uint" /\ Large(v) THEN <<row.key + 128>> \o PutUint64(v)
        ELSE <<row.key>> \o encodeVarint(v)

EntryMarshalTo(e) ==
    FlattenSeq([i \in 1 .. Len(EntryFields) |-> EntryField(EntryFields[i], e)]) \o <<EntryEnd>>

EntrySize(e) ==
    LET size(row) == LET v == e[row.field]
                     IN  IF v = <<>> THEN 0
                         ELSE IF row.kind = "string" THEN 1 + sovLen(Len(v)) + Len(v)
                         ELSE IF row.kind = "uint" /\ Large(v) THEN 9
                         ELSE 1 + sov(v)
    IN  FoldLeft(LAMBDA n, row : n + size(row), 1, EntryFields)

\* The varint of Colfer: the ninth byte, if there is one, counts in full.
ColferVarint(bytes) ==
    LET ends == {i \in 1 .. Smaller(9, Len(bytes)) : bytes[i] < 128 \/ i = 9}
        n == Min(ends)
        big(i) == bytes[i] >= 128 /\ i = 9
    IN  IF ends = {} THEN Failed
        ELSE Got(Normal([i \in 1 .. n |-> bytes[i] % 128] \o (IF big(n) THEN <<1>> ELSE <<>>)),
                 SubSeq(bytes, n + 1, Len(bytes)))

\* unmarshal: a field whose header is there is read, and the next header must
\* follow it.
HeaderOf(row, byte) == byte = row.key \/ (row.kind = "uint" /\ byte = row.key + 128)
EntryUint64(read) == IF read.ok THEN Got(Uint64(read.value), read.rest) ELSE Failed
EntryValue(row, header, body) ==
    IF row.kind = "string" THEN decodeBytes(body)
    ELSE IF header = row.key THEN ColferVarint(body)
    ELSE LET read == Take(8, body) IN EntryUint64(read)

RECURSIVE EntryUnmarshal(_, _, _)
EntryOn(k, read, e) ==
    IF read.ok THEN EntryUnmarshal(k + 1, read.rest, [e EXCEPT ![EntryFields[k].field] = read.value])
    ELSE Failed
EntryUnmarshal(k, bytes, e) ==
    IF bytes = <<>> THEN Failed
    ELSE IF k > Len(EntryFields)
    THEN IF Head(bytes) = EntryEnd THEN Got(e, Tail(bytes)) ELSE Failed
    ELSE IF HeaderOf(EntryFields[k], Head(bytes))
    THEN LET read == EntryValue(EntryFields[k], Head(bytes), Tail(bytes))
         IN  EntryOn(k, read, e)
    ELSE EntryUnmarshal(k + 1, bytes, e)

-----------------------------------------------------------------------------
(* MarshalTo and Size.                                                      *)

\* A map is written in some order of its keys.
Keys(map) == SetToSeq(DOMAIN map)

\* An element of a map: key and value are its fields 1 and 2.
MapValue(of, v) ==
    CASE of = "string" -> Tag(18) \o WithLength(v)
      [] of = "bool" -> Tag(16) \o (IF v THEN <<1>> ELSE <<0>>)
      [] of = "uint" -> Tag(16) \o encodeVarint(v)
MapItem(of, k, v) == Tag(8) \o encodeVarint(k) \o MapValue(of, v)
MapItemSize(of, k, v) ==
    1 + sov(k) + 1 + CASE of = "string" -> Len(v) + sovLen(Len(v))
                       [] of = "bool" -> 1
                       [] of = "uint" -> sov(v)

RECURSIVE MarshalTo(_, _)
Item(row, v) ==
    Tag(row.key) \o
    CASE row.kind \in {"uint", "uint32"} -> encodeVarint(v)
      [] row.kind = "bool" -> (IF v THEN <<1>> ELSE <<0>>)
      [] row.kind = "string" -> WithLength(v)
      [] row.kind = "message" -> WithLength(MarshalTo(row.of, v))

FieldBytes(row, m) ==
    LET v == m[row.field]
    IN  IF row.many THEN FlattenSeq([i \in 1 .. Len(v) |-> Item(row, v[i])])
        ELSE IF row.kind = "bytes"
        THEN IF v = <<>> THEN <<>> ELSE Tag(row.key) \o WithLength(v[1])
        ELSE IF row.kind = "map"
        THEN FlattenSeq([i \in 1 .. Len(Keys(v)) |->
                 Tag(row.key) \o WithLength(MapItem(row.of, Keys(v)[i], v[Keys(v)[i]]))])
        ELSE Item(row, v)

AllFields(t, m) == FlattenSeq([i \in 1 .. Len(t) |-> FieldBytes(t[i], m)])
MarshalTo(name, m) ==
    IF name = "Entry" THEN EntryMarshalTo(m)
    ELSE LET t == Tables[name].marshal IN AllFields(t, m)

RECURSIVE Size(_, _)
ItemSize(row, v) ==
    row.key +
    CASE row.kind \in {"uint", "uint32"} -> sov(v)
      [] row.kind = "string" -> Len(v) + sovLen(Len(v))
      [] row.kind = "message" -> LET l == Size(row.of, v) IN l + sovLen(l)

FieldSize(row, m) ==
    LET v == m[row.field]
        sum(s) == FoldLeft(+, 0, s)
    IN  IF row.kind = "fixed" THEN row.key
        ELSE IF row.many THEN sum([i \in 1 .. Len(v) |-> ItemSize(row, v[i])])
        ELSE IF row.kind = "bytes"
        THEN IF v = <<>> THEN 0 ELSE row.key + Len(v[1]) + sovLen(Len(v[1]))
        ELSE IF row.kind = "map"
        THEN sum([i \in 1 .. Len(Keys(v)) |->
                 LET l == MapItemSize(row.of, Keys(v)[i], v[Keys(v)[i]])
                 IN  l + row.key + sovLen(l)])
        ELSE ItemSize(row, v)

Size(name, m) ==
    IF name = "Entry" THEN EntrySize(m)
    ELSE FoldLeft(LAMBDA n, row : n + FieldSize(row, m), 0, Tables[name].size)

\* SizeUpperLimit, by which transport and logdb allocate their buffers.
EntryLimit(e) == 16 * 7 + 16 + Len(e.Cmd)
EntryBatchLimit(m) == 16 + FoldLeft(LAMBDA n, e : n + EntryLimit(e) + 16, 0, m.Entries)
MessageLimit(m) ==
    16 * 12 + Size("Snapshot", m.Snapshot)
    + FoldLeft(LAMBDA n, e : n + 16 + EntryLimit(e), 0, m.Entries)
MessageBatchLimit(m) ==
    16 * 3 + Len(m.SourceAddress)
    + FoldLeft(LAMBDA n, r : n + 16 + MessageLimit(r), 0, m.Requests)

SizeUpperLimit(name, m) ==
    CASE name = "Entry" -> EntryLimit(m)
      [] name = "EntryBatch" -> EntryBatchLimit(m)
      [] name = "Message" -> MessageLimit(m)
      [] name = "MessageBatch" -> MessageBatchLimit(m)
      [] OTHER -> Size(name, m)

-----------------------------------------------------------------------------
(* Unmarshal.                                                               *)

NoField == Row(0, "", "none", "", FALSE)
NoMap == [k \in {} |-> <<>>]

FieldsOf(name) == IF name = "Entry" THEN EntryFields ELSE Tables[name].unmarshal
Fields(t) == {t[i].field : i \in 1 .. Len(t)}
RowOf(t, f) == t[CHOOSE i \in 1 .. Len(t) : t[i].field = f]

RECURSIVE ZeroOf(_)
Zero(row) ==
    CASE row.kind = "bool" -> FALSE
      [] row.kind = "message" /\ ~row.many -> ZeroOf(row.of)
      [] row.kind = "map" -> NoMap
      [] OTHER -> <<>>
ZeroIn(t) == [f \in Fields(t) |-> Zero(RowOf(t, f))]
ZeroOf(name) == LET t == FieldsOf(name) IN ZeroIn(t)

WireType(row) == IF row.kind \in {"uint", "uint32", "bool"} THEN 0 ELSE 2

RECURSIVE Packed(_, _), MapEntry(_, _, _, _), UnmarshalOne(_, _, _), UnmarshalAll(_, _, _)

\* A packed list of varints.
PackedOn(read, list) == IF read.ok THEN Packed(read.rest, Append(list, read.value)) ELSE Failed
Packed(bytes, list) ==
    IF bytes = <<>> THEN Got(list, <<>>)
    ELSE LET read == decodeVarint(bytes) IN PackedOn(read, list)

\* The element of a map; k and v are what has been read of it.
MapOn(of, num, read, k, v) ==
    IF ~read.ok THEN Failed
    ELSE MapEntry(of, read.rest, IF num = 1 THEN read.value ELSE k,
                  IF num # 2 THEN v ELSE IF of = "bool" THEN read.value # <<>> ELSE read.value)
MapTagged(of, bytes, tag, k, v) ==
    LET num == Number(tag.value) \div 8
        read == IF num \notin {1, 2} THEN Skip(bytes)
                ELSE IF num = 2 /\ of = "string" THEN decodeBytes(tag.rest)
                ELSE decodeVarint(tag.rest)
    IN  IF tag.ok THEN MapOn(of, num, read, k, v) ELSE Failed
MapEntry(of, bytes, k, v) ==
    IF bytes = <<>> THEN Got(<<k, v>>, <<>>)
    ELSE LET tag == decodeVarint(bytes) IN MapTagged(of, bytes, tag, k, v)

\* One value of a field, read into what the field holds.
WithRest(inner, rest) == IF inner.ok THEN Got(inner.value, rest) ELSE Failed
SetIn(map, element, rest) ==
    LET k == element.value[1]
    IN  IF ~element.ok THEN Failed
        ELSE Got([x \in DOMAIN map \cup {k} |-> IF x = k THEN element.value[2] ELSE map[x]], rest)
OfVarint(row, n) ==
    CASE row.kind = "uint" -> n
      [] row.kind = "uint32" -> [n EXCEPT !.value = Low32(@)]
      [] row.kind = "bool" -> [n EXCEPT !.value = @ # <<>>]
OfBytes(row, b, old) ==
    CASE ~b.ok -> Failed
      [] b.ok /\ row.kind = "string" -> b
      [] b.ok /\ row.kind = "bytes" -> [b EXCEPT !.value = <<@>>]
      [] b.ok /\ row.kind = "message" ->
            LET inner == UnmarshalAll(row.of, old, b.value) IN WithRest(inner, b.rest)
      [] b.ok /\ row.kind = "map" ->
            LET zero == IF row.of = "bool" THEN FALSE ELSE <<>>
                element == MapEntry(row.of, b.value, <<>>, zero)
            IN  SetIn(old, element, b.rest)
ReadValue(row, bytes, old) ==
    LET n == decodeVarint(bytes)
        b == decodeBytes(bytes)
    IN  IF row.kind \in {"uint", "uint32", "bool"} THEN OfVarint(row, n) ELSE OfBytes(row, b, old)

\* A repeated field grows; a list of varints may come packed.
Stored(row, old, read) ==
    IF row.many /\ read.ok THEN Got(Append(old, read.value), read.rest) ELSE read
ReadPacked(b, old) ==
    LET list == Packed(b.value, old) IN IF b.ok THEN WithRest(list, b.rest) ELSE Failed
ReadField(row, type, bytes, old) ==
    LET into == IF ~row.many THEN old ELSE IF row.kind = "message" THEN ZeroOf(row.of) ELSE <<>>
        read == ReadValue(row, bytes, into)
        b == decodeBytes(bytes)
    IN  IF type = WireType(row) THEN Stored(row, old, read)
        ELSE IF row.many /\ row.kind = "uint" /\ type = 2 THEN ReadPacked(b, old)
        ELSE Failed

\* The rows of the fields with this number: one, or none.
Numbered(t, num) == {t[i] : i \in {j \in 1 .. Len(t) : t[j].key = num}}
Known(name, num) ==
    LET t == Tables[name].unmarshal IN Numbered(t, num)

SetField(m, row, read) ==
    IF read.ok THEN Got([m EXCEPT ![row.field] = read.value], read.rest) ELSE Failed
ReadInto(m, row, type, bytes) ==
    LET read == ReadField(row, type, bytes, m[row.field]) IN SetField(m, row, read)

\* Mutant of Unknown: a field that is not known is taken for a mistake.
MutStrict_Unknown(m, bytes) == Failed

Unknown(m, bytes) == [Skip(bytes) EXCEPT !.value = m]

\* One round of the loop of Unmarshal.
OneOf(rows, m, bytes, type, rest) ==
    IF rows = {} THEN Unknown(m, bytes)
    ELSE LET row == CHOOSE r \in rows : TRUE IN ReadInto(m, row, type, rest)
UnmarshalTagged(name, m, bytes, tag) ==
    LET num == Number(tag.value) \div 8
        type == Number(tag.value) % 8
        rows == Known(name, num)
    IN  IF ~tag.ok \/ type = 4 \/ num = 0 THEN Failed
        ELSE OneOf(rows, m, bytes, type, tag.rest)
UnmarshalOne(name, m, bytes) ==
    LET tag == decodeVarint(bytes) IN UnmarshalTagged(name, m, bytes, tag)

UnmarshalOn(name, one) == IF one.ok THEN UnmarshalAll(name, one.value, one.rest) ELSE Failed
UnmarshalAll(name, m, bytes) ==
    IF name = "Entry" THEN EntryUnmarshal(1, bytes, m)
    ELSE IF bytes = <<>> THEN Got(m, <<>>)
    ELSE LET one == UnmarshalOne(name, m, bytes) IN UnmarshalOn(name, one)

-----------------------------------------------------------------------------
(* The messages tried: each field at its limits, the others set.            *)

Top(n, last) == [i \in 1 .. n |-> IF i = n THEN last ELSE 127]
Power(n) == [i \in 1 .. n \div 7 + 1 |-> IF i = n \div 7 + 1 THEN 2^(n % 7) ELSE 0]
Text(n) == [i \in 1 .. n |-> i % 256]

Limits(row) ==
    CASE row.kind = "uint" -> {<<>>, <<127>>, Power(7), Top(7, 127), Power(49), Top(10, 1)}
      [] row.kind = "uint32" -> {<<>>, <<127>>, Power(7), Top(5, 7)}
      [] row.kind = "bool" -> BOOLEAN
      [] row.kind = "string" -> {<<>>, Text(128)}
      [] row.kind = "bytes" -> {<<>>, <<<<>>>>, <<Text(128)>>}

\* A message with every field set, or with every field as long as it gets.
RECURSIVE Filled(_, _)
Value(row, long) ==
    CASE row.kind = "message" -> Filled(row.of, long)
      [] row.kind = "map" ->
            [k \in {<<1>>, Power(63)} |-> CASE row.of = "string" -> Text(2)
                                            [] row.of = "bool" -> TRUE
                                            [] row.of = "uint" -> Power(14)]
      [] row.kind = "uint" -> IF long THEN Top(10, 1) ELSE <<row.key + 1>>
      [] row.kind = "uint32" -> IF long THEN Top(5, 7) ELSE <<row.key + 1>>
      [] row.kind = "bool" -> TRUE
      [] row.kind = "string" -> Text(3)
      [] row.kind = "bytes" -> <<Text(3)>>
FilledField(row, long) ==
    LET v == Value(row, long) IN IF ~row.many THEN v ELSE IF long THEN <<v, v>> ELSE <<v>>
FilledIn(t, long) == [f \in Fields(t) |-> FilledField(RowOf(t, f), long)]
Filled(name, long) == LET t == FieldsOf(name) IN FilledIn(t, long)

Variants(row, usual) ==
    CASE row.kind = "message" /\ row.many -> {<<>>, <<usual, usual>>}
      [] row.kind \in {"message", "map"} /\ ~row.many -> {Zero(row)}
      [] row.kind \notin {"message", "map"} /\ row.many -> {<<>>} \cup {<<usual, v>> : v \in Limits(row)}
      [] OTHER -> Limits(row)
VariantsIn(t, m) ==
    {m} \cup UNION {LET usual == Value(t[i], FALSE)
                    IN  {[m EXCEPT ![t[i].field] = v] : v \in Variants(t[i], usual)} : i \in 1 .. Len(t)}

Messages == DOMAIN Tables \cup {"Entry"}
Tried(name) ==
    LET t == FieldsOf(name)
        m == Filled(name, FALSE)
    IN  {Filled(name, TRUE), ZeroOf(name)} \cup VariantsIn(t, m)

\* A field of a later version: number 30, of each wire type.
Later == {Tag(240) \o <<129, 1>>, Tag(241) \o Text(8), Tag(242) \o WithLength(Text(2)),
          Tag(243) \o Tag(8) \o <<5>> \o Tag(244), Tag(245) \o Text(4)}

-----------------------------------------------------------------------------
(* A message on its way.                                                    *)

VARIABLES name, message,
          extra,  \* the field of a later version, <<>> if there is none
          at,     \* "marshal", "unmarshal", "done" or "failed"
          bytes,  \* written
          parsed, \* what has been read
          total,  \* bytes MarshalTo has written
          room    \* the buffer Marshal, or a user of SizeUpperLimit, has allocated

codecVars == <<name, message, extra, at, bytes, parsed, total, room>>

CodecInit ==
    /\ name \in Messages
    /\ \/ message \in Tried(name) /\ extra = <<>>
       \/ message = Filled(name, FALSE) /\ name # "Entry" /\ extra \in Later
    /\ at = "marshal" /\ bytes = <<>> /\ parsed = ZeroOf(name) /\ total = 0
    /\ room = [size |-> Size(name, message), limit |-> SizeUpperLimit(name, message)]

\* A later version writes its field before or after the others.
Marshalled(written) ==
    total' = Len(written) /\ bytes' \in {written \o extra, extra \o written}
Marshal ==
    LET written == MarshalTo(name, message)
    IN  /\ at = "marshal" /\ at' = "unmarshal"
        /\ Marshalled(written)
        /\ UNCHANGED <<name, message, extra, parsed, room>>

Unmarshalled(read) ==
    IF read.ok THEN at' = "done" /\ parsed' = read.value ELSE at' = "failed" /\ UNCHANGED parsed
Unmarshal ==
    LET read == UnmarshalAll(name, parsed, bytes)
    IN  /\ at = "unmarshal"
        /\ Unmarshalled(read)
        /\ UNCHANGED <<name, message, extra, bytes, total, room>>

CodecNext == Marshal \/ Unmarshal

-----------------------------------------------------------------------------
(* Properties.                                                              *)

\* MarshalTo writes exactly the bytes that Size has counted: Marshal, and
\* every message this one is part of, allocates by it and writes lengths by
\* it.  The limits of SizeUpperLimit, by which transport and logdb allocate,
\* are never exceeded either.
SizeIsExact ==
    /\ total <= room.size /\ total <= room.limit
    /\ at # "marshal" => total = room.size

\* Whatever values the fields have, Unmarshal accepts what MarshalTo wrote
\* and rebuilds the message; a field of a later version is passed over.
ReadsBack == at # "failed" /\ (at = "done" => parsed = message)

\* What one NodeHost writes another one reads: sizes, limits and values.
RoundTrip == SizeIsExact /\ ReadsBack

=============================================================================
