----------------------------- MODULE HostProofs -----------------------------
(***************************************************************************)
(* Two things the threads of a host do for its clusters.                   *)
(*                                                                         *)
(* Delivery: what the step worker reads is what was delivered, and no      *)
(* delivery goes unnoticed, for every number of threads, every length of   *)
(* the queue and every number of messages.                                 *)
(*                                                                         *)
(* Lifecycle: no state machine is closed under its users, for every number *)
(* of clusters, kinds of worker and restarts.                              *)
(***************************************************************************)
EXTENDS Delivery, Lifecycle, TLAPS

-----------------------------------------------------------------------------
(* Delivery.                                                                *)


\* How many of the messages, and of the snapshots, that Get returned the
\* worker has still to handle.
MessagesLeft(r) ==
    IF r.at # "read" THEN 0
    ELSE IF r.next <= Len(r.first) THEN r.size ELSE r.size + Len(r.first) + 1 - r.next
SnapshotsLeft(r) ==
    IF r.at = "read" /\ r.next <= Len(r.first) THEN Len(r.first) + 1 - r.next ELSE 0

ReaderType ==
    [at : {"idle", "woken", "step", "read"}, side : Sides, size : 0 .. QueueLength,
     first : Seq(Int), next : Nat \ {0}]
HistoryType == [messages : Seq(Int), snapshots : Seq(Int)]

DeliveryTyped ==
    /\ buffer \in [Sides -> [1 .. QueueLength -> Int]]
    /\ write \in Sides /\ idx \in 0 .. QueueLength /\ oldIdx \in 0 .. QueueLength
    /\ snapshot \in Seq(Int)
    /\ marked \in [ready : 0 .. 1, maps : [0 .. 1 -> BOOLEAN]]
    /\ readyCh \in BOOLEAN
    /\ sender \in [Senders -> {"idle", "mark", "poke"}]
    /\ reader \in ReaderType
    /\ sent \in Int /\ added \in HistoryType /\ handled \in HistoryType
    /\ feedback \in [held : [age : Int, k : Int], pushing : [age : Int, k : Int], made : Int]

\* The worker reads one buffer while the threads write the other.
Apart == reader.at = "read" => /\ reader.side # write
                               /\ reader.next <= Len(reader.first) + reader.size + 1

\* The messages taken by the queue (a) are those handled (h), then the last n
\* of the z in the worker's buffer (d), then the i in the one written (w).
InPlace(a, h, b, d, z, n, w, i) ==
    /\ Len(a) = Len(h) + n + i
    /\ \A k \in 1 .. Len(h) : h[k] = a[k]
    /\ \A k \in 1 .. n : b[d][z - n + k] = a[Len(h) + k]
    /\ \A k \in 1 .. i : b[w][k] = a[Len(h) + n + k]

\* The same of the snapshots: those handled, those left of first, those
\* that wait.
SnapshotsInPlace(a, h, f, n, s) ==
    /\ Len(a) = Len(h) + n + Len(s)
    /\ \A k \in 1 .. Len(h) : h[k] = a[k]
    /\ \A k \in 1 .. n : f[Len(f) - n + k] = a[Len(h) + k]
    /\ \A k \in 1 .. Len(s) : s[k] = a[Len(h) + n + k]

\* The inductive invariant.
DeliveryInv ==
    /\ DeliveryTyped
    /\ Apart
    /\ InPlace(added.messages, handled.messages, buffer, reader.side, reader.size,
               MessagesLeft(reader), write, idx)
    /\ SnapshotsInPlace(added.snapshots, handled.snapshots, reader.first,
                        SnapshotsLeft(reader), snapshot)
    /\ NoLostWakeup

-----------------------------------------------------------------------------
(* The queue.                                                               *)

\* flip of message.go: the other buffer.
LEMMA FlipSide ==
    ASSUME NEW s \in Sides
    PROVE  Flip(s) \in Sides /\ Flip(s) # s
<1>1. \E x \in Sides : x # s
  BY Zenon DEF Sides
<1> QED
  BY <1>1, Zenon DEF Flip, Other

LEMMA AppendFacts ==
    ASSUME NEW a \in Seq(Int), NEW m \in Int
    PROVE  /\ Append(a, m) \in Seq(Int) /\ Len(Append(a, m)) = Len(a) + 1
           /\ \A k \in 1 .. Len(a) : Append(a, m)[k] = a[k]
           /\ Append(a, m)[Len(a) + 1] = m
  OBVIOUS

LEMMA LenNat == ASSUME NEW a \in Seq(Int) PROVE Len(a) \in Nat
  OBVIOUS

\* A sequence whose elements are the first ones of another is a prefix of it.
LEMMA PrefixByElements ==
    ASSUME NEW h \in Seq(Int), NEW a \in Seq(Int), Len(h) <= Len(a),
           \A k \in 1 .. Len(h) : h[k] = a[k]
    PROVE  BeginsWith(a, h)
<1>1. h = SubSeq(a, 1, Len(h))
  OBVIOUS
<1> QED
  BY <1>1, Zenon DEF BeginsWith

\* Add of message.go writes one slot of the buffer nobody reads.
LEMMA AddInPlace ==
    ASSUME NEW a \in Seq(Int), NEW h \in Seq(Int), NEW m \in Int,
           NEW b \in [Sides -> [1 .. QueueLength -> Int]],
           NEW d \in Sides, NEW w \in Sides, NEW z \in 0 .. QueueLength,
           NEW n \in 0 .. z, NEW i \in 0 .. QueueLength, i < QueueLength,
           n > 0 => d # w,
           InPlace(a, h, b, d, z, n, w, i)
    PROVE  InPlace(Append(a, m), h, [b EXCEPT ![w][i + 1] = m], d, z, n, w, i + 1)
<1> DEFINE c == [b EXCEPT ![w][i + 1] = m]
           e == Append(a, m)
<1>1. /\ e \in Seq(Int) /\ Len(e) = Len(a) + 1 /\ e[Len(a) + 1] = m
      /\ \A k \in 1 .. Len(a) : e[k] = a[k]
  BY AppendFacts, Zenon
<1>2. c[w][i + 1] = m /\ \A k \in 1 .. i : c[w][k] = b[w][k]
  BY QueueLengthAssumption
<1>3. d # w => c[d] = b[d]
  BY Zenon
<1> HIDE DEF c, e
<1>4. Len(a) \in Nat /\ Len(h) \in Nat
  BY LenNat, Zenon
<1>5. Len(a) = Len(h) + n + i
  BY Zenon DEF InPlace
<1>6. Len(e) = Len(h) + n + (i + 1)
  BY <1>1, <1>4, <1>5
<1>7. \A k \in 1 .. Len(h) : h[k] = e[k]
  BY <1>1, <1>4, <1>5 DEF InPlace
<1>8. ASSUME NEW k \in 1 .. n PROVE c[d][z - n + k] = e[Len(h) + k]
  <2>1. d # w /\ Len(h) + k \in 1 .. Len(a)
    BY <1>4, <1>5
  <2> QED
    BY <2>1, <1>1, <1>3, Zenon DEF InPlace
<1>9. ASSUME NEW k \in 1 .. i + 1 PROVE c[w][k] = e[Len(h) + n + k]
  <2>1. CASE k = i + 1
    BY <2>1, <1>1, <1>2, <1>4, <1>5
  <2>2. CASE k \in 1 .. i
    <3>1. Len(h) + n + k \in 1 .. Len(a)
      BY <2>2, <1>4, <1>5
    <3> QED
      BY <3>1, <2>2, <1>1, <1>2, Zenon DEF InPlace
  <2> QED
    BY <2>1, <2>2
<1> QED
  BY <1>6, <1>7, <1>8, <1>9, Zenon DEF InPlace, c, e

\* Handling the next message of the worker's buffer.
LEMMA HandleInPlace ==
    ASSUME NEW a \in Seq(Int), NEW h \in Seq(Int), NEW b, NEW d, NEW w,
           NEW z \in Nat, NEW n \in 1 .. z, NEW i \in Nat,
           b[d][z - n + 1] \in Int,
           InPlace(a, h, b, d, z, n, w, i)
    PROVE  InPlace(a, Append(h, b[d][z - n + 1]), b, d, z, n - 1, w, i)
<1> DEFINE m == b[d][z - n + 1]
           e == Append(h, m)
<1>1. /\ e \in Seq(Int) /\ Len(e) = Len(h) + 1 /\ e[Len(h) + 1] = m
      /\ \A k \in 1 .. Len(h) : e[k] = h[k]
  BY AppendFacts, Zenon
<1>2. m = a[Len(h) + 1]
  <2>1. 1 \in 1 .. n
    OBVIOUS
  <2> QED
    BY <2>1, Zenon DEF InPlace
<1>3. Len(a) \in Nat /\ Len(h) \in Nat /\ Len(a) = Len(h) + n + i
  BY LenNat, Zenon DEF InPlace
<1> HIDE DEF m, e
<1>4. Len(a) = Len(e) + (n - 1) + i
  BY <1>1, <1>3
<1>5. ASSUME NEW k \in 1 .. Len(e) PROVE e[k] = a[k]
  <2>1. CASE k = Len(h) + 1
    BY <2>1, <1>1, <1>2, Zenon
  <2>2. CASE k \in 1 .. Len(h)
    BY <2>2, <1>1, Zenon DEF InPlace
  <2> QED
    BY <2>1, <2>2, <1>1, <1>3
<1>6. ASSUME NEW k \in 1 .. n - 1 PROVE b[d][z - (n - 1) + k] = a[Len(e) + k]
  <2>1. k + 1 \in 1 .. n /\ z - (n - 1) + k = z - n + (k + 1)
    OBVIOUS
  <2>2. Len(e) + k = Len(h) + (k + 1)
    BY <1>1, <1>3
  <2> QED
    BY <2>1, <2>2, Zenon DEF InPlace
<1>7. ASSUME NEW k \in 1 .. i PROVE b[w][k] = a[Len(e) + (n - 1) + k]
  <2>1. Len(e) + (n - 1) + k = Len(h) + n + k
    BY <1>1, <1>3
  <2> QED
    BY <2>1, Zenon DEF InPlace
<1> QED
  BY <1>4, <1>5, <1>6, <1>7, Zenon DEF InPlace, e, m

\* What gc leaves of a buffer.
LEMMA ClearedSlots ==
    ASSUME NEW S, NEW g \in [S -> Int], NEW old
    PROVE  [i \in DOMAIN g |-> IF i <= old THEN 0 ELSE g[i]] \in [S -> Int]
<1>1. DOMAIN g = S
  BY Zenon
<1>2. \A i \in S : (IF i <= old THEN 0 ELSE g[i]) \in Int
  <2> SUFFICES ASSUME NEW i \in S PROVE (IF i <= old THEN 0 ELSE g[i]) \in Int
    BY Zenon
  <2>1. g[i] \in Int /\ 0 \in Int
    OBVIOUS
  <2> QED
    BY <2>1, Zenon
<1> QED
  BY <1>1, <1>2, Zenon

\* Get of message.go: what was written becomes what is read.
LEMMA GetInPlace ==
    ASSUME NEW a \in Seq(Int), NEW h \in Seq(Int),
           NEW b \in [Sides -> [1 .. QueueLength -> Int]],
           NEW d \in Sides, NEW w \in Sides, NEW z \in 0 .. QueueLength,
           NEW i \in 0 .. QueueLength, NEW old,
           InPlace(a, h, b, d, z, 0, w, i)
    PROVE  InPlace(a, h, Freed(b, Flip(w), old), w, i, i, Flip(w), 0)
<1>1. Flip(w) \in Sides /\ Flip(w) # w
  BY FlipSide, Zenon
<1>2. Freed(b, Flip(w), old)[w] = b[w]
  BY <1>1, Zenon DEF Freed
<1>3. Len(h) \in Nat
  BY LenNat, Zenon
<1> QED
  BY <1>2, <1>3 DEF InPlace

\* The three operations on the list of snapshots: AddSnapshot, Get, and the
\* worker that handles the next one.
LEMMA AddSnapshotInPlace ==
    ASSUME NEW a \in Seq(Int), NEW h \in Seq(Int), NEW m \in Int, NEW f \in Seq(Int),
           NEW n \in 0 .. Len(f), NEW s \in Seq(Int),
           SnapshotsInPlace(a, h, f, n, s)
    PROVE  SnapshotsInPlace(Append(a, m), h, f, n, Append(s, m))
<1> DEFINE e == Append(a, m)
           t == Append(s, m)
<1>1. /\ Len(e) = Len(a) + 1 /\ e[Len(a) + 1] = m
      /\ \A k \in 1 .. Len(a) : e[k] = a[k]
  BY AppendFacts, Zenon
<1>2. /\ t \in Seq(Int) /\ Len(t) = Len(s) + 1 /\ t[Len(s) + 1] = m
      /\ \A k \in 1 .. Len(s) : t[k] = s[k]
  BY AppendFacts, Zenon
<1>3. /\ Len(a) \in Nat /\ Len(h) \in Nat /\ Len(s) \in Nat /\ n \in Nat
      /\ Len(a) = Len(h) + n + Len(s)
  BY LenNat DEF SnapshotsInPlace
<1> HIDE DEF e, t
<1>4. Len(e) = Len(h) + n + Len(t)
  BY <1>1, <1>2, <1>3
<1>5. ASSUME NEW k \in 1 .. Len(h) PROVE h[k] = e[k]
  <2>1. k \in 1 .. Len(a)
    BY <1>3
  <2> QED
    BY <2>1, <1>1, Zenon DEF SnapshotsInPlace
<1>6. ASSUME NEW k \in 1 .. n PROVE f[Len(f) - n + k] = e[Len(h) + k]
  <2>1. Len(h) + k \in 1 .. Len(a)
    BY <1>3
  <2> QED
    BY <2>1, <1>1, Zenon DEF SnapshotsInPlace
<1>7. ASSUME NEW k \in 1 .. Len(t) PROVE t[k] = e[Len(h) + n + k]
  <2>1. CASE k = Len(s) + 1
    BY <2>1, <1>1, <1>2, <1>3
  <2>2. CASE k \in 1 .. Len(s)
    <3>1. Len(h) + n + k \in 1 .. Len(a)
      BY <2>2, <1>3
    <3> QED
      BY <3>1, <2>2, <1>1, <1>2, Zenon DEF SnapshotsInPlace
  <2>3. k = Len(s) + 1 \/ k \in 1 .. Len(s)
    BY <1>2, <1>3
  <2> QED
    BY <2>1, <2>2, <2>3, Zenon
<1> QED
  BY <1>4, <1>5, <1>6, <1>7, Zenon DEF SnapshotsInPlace, e, t

LEMMA GetSnapshotsInPlace ==
    ASSUME NEW a \in Seq(Int), NEW h \in Seq(Int), NEW f, NEW s \in Seq(Int),
           SnapshotsInPlace(a, h, f, 0, s)
    PROVE  SnapshotsInPlace(a, h, s, Len(s), <<>>)
<1>1. Len(h) \in Nat /\ Len(s) \in Nat /\ Len(<<>>) = 0
  BY LenNat, Zenon
<1> QED
  BY <1>1 DEF SnapshotsInPlace

LEMMA HandleSnapshotInPlace ==
    ASSUME NEW a \in Seq(Int), NEW h \in Seq(Int), NEW f \in Seq(Int),
           NEW n \in 1 .. Len(f), NEW s \in Seq(Int),
           SnapshotsInPlace(a, h, f, n, s)
    PROVE  SnapshotsInPlace(a, Append(h, f[Len(f) - n + 1]), f, n - 1, s)
<1> DEFINE m == f[Len(f) - n + 1]
           e == Append(h, m)
<1>1. Len(f) \in Nat /\ Len(f) - n + 1 \in 1 .. Len(f)
  BY LenNat
<1>2. m \in Int
  BY <1>1
<1>3. /\ e \in Seq(Int) /\ Len(e) = Len(h) + 1 /\ e[Len(h) + 1] = m
      /\ \A k \in 1 .. Len(h) : e[k] = h[k]
  BY <1>2, AppendFacts, Zenon
<1>4. m = a[Len(h) + 1]
  <2>1. 1 \in 1 .. n
    BY <1>1
  <2> QED
    BY <2>1, Zenon DEF SnapshotsInPlace
<1>5. /\ Len(a) \in Nat /\ Len(h) \in Nat /\ Len(s) \in Nat /\ n \in Nat
      /\ Len(a) = Len(h) + n + Len(s)
  BY <1>1, LenNat DEF SnapshotsInPlace
<1> HIDE DEF m, e
<1>6. Len(a) = Len(e) + (n - 1) + Len(s)
  BY <1>3, <1>5
<1>7. ASSUME NEW k \in 1 .. Len(e) PROVE e[k] = a[k]
  <2>1. CASE k = Len(h) + 1
    BY <2>1, <1>3, <1>4, Zenon
  <2>2. CASE k \in 1 .. Len(h)
    BY <2>2, <1>3, Zenon DEF SnapshotsInPlace
  <2> QED
    BY <2>1, <2>2, <1>3, <1>5
<1>8. ASSUME NEW k \in 1 .. n - 1 PROVE f[Len(f) - (n - 1) + k] = a[Len(e) + k]
  <2>1. k + 1 \in 1 .. n /\ Len(f) - (n - 1) + k = Len(f) - n + (k + 1)
    BY <1>1, <1>5
  <2>2. Len(e) + k = Len(h) + (k + 1)
    BY <1>3, <1>5
  <2> QED
    BY <2>1, <2>2, Zenon DEF SnapshotsInPlace
<1>9. ASSUME NEW k \in 1 .. Len(s) PROVE s[k] = a[Len(e) + (n - 1) + k]
  <2>1. Len(e) + (n - 1) + k = Len(h) + n + k
    BY <1>3, <1>5
  <2> QED
    BY <2>1, Zenon DEF SnapshotsInPlace
<1> QED
  BY <1>6, <1>7, <1>8, <1>9, Zenon DEF SnapshotsInPlace, e, m

-----------------------------------------------------------------------------
(* The invariant.                                                           *)

\* The parts of the invariant that steps leave alone or carry over.
Messages(a, h, b, r, w, i) ==
    InPlace(a.messages, h.messages, b, r.side, r.size, MessagesLeft(r), w, i)
Snapshots(a, h, r, s) ==
    SnapshotsInPlace(a.snapshots, h.snapshots, r.first, SnapshotsLeft(r), s)

LEMMA Lefts ==
    ASSUME NEW r \in ReaderType,
           r.at = "read" => r.next <= Len(r.first) + r.size + 1
    PROVE  /\ MessagesLeft(r) \in 0 .. r.size
           /\ SnapshotsLeft(r) \in 0 .. Len(r.first)
           /\ r.at # "read" => MessagesLeft(r) = 0 /\ SnapshotsLeft(r) = 0
<1>1. Len(r.first) \in Nat /\ r.size \in Nat /\ r.next \in Nat \ {0}
  BY QueueLengthAssumption DEF ReaderType
<1>2. CASE r.at # "read"
  BY <1>1, <1>2 DEF MessagesLeft, SnapshotsLeft
<1>3. CASE r.at = "read" /\ r.next <= Len(r.first)
  BY <1>1, <1>3 DEF MessagesLeft, SnapshotsLeft
<1>4. CASE r.at = "read" /\ ~ r.next <= Len(r.first)
  BY <1>1, <1>4 DEF MessagesLeft, SnapshotsLeft
<1> QED
  BY <1>2, <1>3, <1>4, Zenon

\* What is left, by what comes next.
LEMMA LeftOf ==
    ASSUME NEW r, r.at = "read", Len(r.first) \in Nat, r.size \in Nat, r.next \in Nat
    PROVE  /\ r.next <= Len(r.first) => /\ MessagesLeft(r) = r.size
                                       /\ SnapshotsLeft(r) = Len(r.first) + 1 - r.next
           /\ r.next > Len(r.first) =>
                  /\ MessagesLeft(r) = r.size + Len(r.first) + 1 - r.next
                  /\ SnapshotsLeft(r) = 0
<1>1. CASE r.next <= Len(r.first)
  BY <1>1 DEF MessagesLeft, SnapshotsLeft
<1>2. CASE r.next > Len(r.first)
  BY <1>2 DEF MessagesLeft, SnapshotsLeft
<1> QED
  BY <1>1, <1>2, Zenon

LEMMA DeliveryInvInit == DeliveryInit => DeliveryInv
<1> SUFFICES ASSUME DeliveryInit PROVE DeliveryInv
  BY Zenon
<1>1. "left" \in Sides /\ "right" \in Sides
  BY Zenon DEF Sides
<1>2. reader \in ReaderType /\ reader.at = "idle"
  BY <1>1, QueueLengthAssumption DEF DeliveryInit, ReaderType
<1>3. DeliveryTyped
  <2>1. Nothing \in HistoryType
    BY DEF Nothing, HistoryType
  <2>2. NoReport \in [age : Int, k : Int]
    BY DEF NoReport, Held
  <2>3. feedback \in [held : [age : Int, k : Int], pushing : [age : Int, k : Int], made : Int]
    BY <2>2 DEF DeliveryInit
  <2>4. marked \in [ready : 0 .. 1, maps : [0 .. 1 -> BOOLEAN]]
    BY DEF DeliveryInit
  <2>5. buffer \in [Sides -> [1 .. QueueLength -> Int]]
    BY DEF DeliveryInit, Empty
  <2>6. sender \in [Senders -> {"idle", "mark", "poke"}]
    BY Zenon DEF DeliveryInit
  <2>7. /\ write \in Sides /\ idx \in 0 .. QueueLength /\ oldIdx \in 0 .. QueueLength
        /\ snapshot \in Seq(Int) /\ sent \in Int
    BY <1>1, QueueLengthAssumption DEF DeliveryInit
  <2>8. readyCh \in BOOLEAN /\ added \in HistoryType /\ handled \in HistoryType
    BY <2>1, Zenon DEF DeliveryInit
  <2> QED
    BY <1>2, <2>3, <2>4, <2>5, <2>6, <2>7, <2>8, Zenon DEF DeliveryTyped
<1>4. Apart
  BY <1>2, Zenon DEF Apart
<1>5. InPlace(added.messages, handled.messages, buffer, reader.side, reader.size,
              MessagesLeft(reader), write, idx)
  BY <1>2 DEF DeliveryInit, Nothing, InPlace, MessagesLeft
<1>6. SnapshotsInPlace(added.snapshots, handled.snapshots, reader.first,
                       SnapshotsLeft(reader), snapshot)
  BY <1>2 DEF DeliveryInit, Nothing, SnapshotsInPlace, SnapshotsLeft
<1>7. NoLostWakeup
  BY DEF DeliveryInit, NoLostWakeup
<1> QED
  BY <1>3, <1>4, <1>5, <1>6, <1>7, Zenon DEF DeliveryInv

\* A thread, or the tick thread, puts a message into the queue.
LEMMA AddKeeps ==
    ASSUME DeliveryInv, NEW m \in Int, CanTake, Add(m),
           UNCHANGED <<write, oldIdx, snapshot, reader, handled>>
    PROVE  /\ buffer' \in [Sides -> [1 .. QueueLength -> Int]] /\ idx' \in 0 .. QueueLength
           /\ added' \in HistoryType
           /\ Messages(added, handled, buffer, reader, write, idx)'
           /\ Snapshots(added, handled, reader, snapshot)'
<1>1. /\ buffer \in [Sides -> [1 .. QueueLength -> Int]] /\ write \in Sides
      /\ idx \in 0 .. QueueLength /\ idx < QueueLength /\ added \in HistoryType
      /\ handled \in HistoryType /\ reader \in ReaderType
  BY Zenon DEF DeliveryInv, DeliveryTyped, CanTake
<1>2. buffer' = [buffer EXCEPT ![write][idx + 1] = m] /\ idx' = idx + 1
  BY Zenon DEF Add
<1>3. /\ added.messages \in Seq(Int) /\ added.snapshots \in Seq(Int)
      /\ handled.messages \in Seq(Int)
      /\ reader.side \in Sides /\ reader.size \in 0 .. QueueLength
  BY <1>1, Zenon DEF HistoryType, ReaderType
<1>4. /\ added' \in HistoryType /\ added'.messages = Append(added.messages, m)
      /\ added'.snapshots = added.snapshots
  <2>1. Append(added.messages, m) \in Seq(Int)
    BY <1>3, AppendFacts, Zenon
  <2> QED
    BY <1>1, <1>3, <2>1, Zenon DEF Add, HistoryType
<1>5. /\ MessagesLeft(reader) \in 0 .. reader.size
      /\ MessagesLeft(reader) > 0 => reader.side # write
  BY <1>1, Lefts DEF DeliveryInv, Apart
<1>6. InPlace(added.messages, handled.messages, buffer, reader.side, reader.size,
              MessagesLeft(reader), write, idx)
  BY Zenon DEF DeliveryInv
<1>7. InPlace(Append(added.messages, m), handled.messages,
              [buffer EXCEPT ![write][idx + 1] = m], reader.side, reader.size,
              MessagesLeft(reader), write, idx + 1)
  BY <1>1, <1>3, <1>5, <1>6, AddInPlace, Zenon
<1>8. Messages(added, handled, buffer, reader, write, idx)'
  BY <1>2, <1>4, <1>7, Zenon DEF Messages
<1>9. Snapshots(added, handled, reader, snapshot)'
  BY <1>4, Zenon DEF DeliveryInv, Snapshots
<1> QED
  BY <1>1, <1>2, <1>4, <1>8, <1>9, QueueLengthAssumption

\* A step that leaves the queue, what is read and what was handled alone.
LEMMA QueueKept ==
    ASSUME DeliveryInv,
           UNCHANGED <<buffer, write, idx, snapshot, reader, added, handled>>
    PROVE  /\ Apart' /\ Messages(added, handled, buffer, reader, write, idx)'
           /\ Snapshots(added, handled, reader, snapshot)'
  BY Zenon DEF DeliveryInv, Apart, Messages, Snapshots

LEMMA DeliverKeeps ==
    ASSUME DeliveryInv, NEW t \in Senders, Deliver(t)
    PROVE  DeliveryInv'
<1>1. DeliveryTyped /\ Apart /\ NoLostWakeup
  BY Zenon DEF DeliveryInv
<1>2. /\ sent' = sent + 1 /\ sent' \in Int /\ sender' = [sender EXCEPT ![t] = "mark"]
      /\ UNCHANGED <<write, oldIdx, marked, readyCh, reader, handled, feedback>>
  BY <1>1 DEF Deliver, DeliveryTyped
<1>3. sender' \in [Senders -> {"idle", "mark", "poke"}] /\ sender'[t] = "mark"
  BY <1>1, <1>2, Zenon DEF DeliveryTyped
<1>4. NoLostWakeup'
  <2>1. \A x \in Senders : sender[x] = "poke" => sender'[x] = "poke"
    BY <1>1, <1>2, Zenon DEF DeliveryTyped, Deliver
  <2> QED
    BY <1>1, <1>2, <1>3, <2>1, Zenon DEF NoLostWakeup
<1>5. /\ buffer' \in [Sides -> [1 .. QueueLength -> Int]] /\ idx' \in 0 .. QueueLength
      /\ added' \in HistoryType /\ snapshot' \in Seq(Int)
      /\ Messages(added, handled, buffer, reader, write, idx)'
      /\ Snapshots(added, handled, reader, snapshot)'
  <2>1. CASE CanTake /\ Add(sent') /\ UNCHANGED snapshot
    <3>1. snapshot' \in Seq(Int)
      BY <2>1, <1>1, Zenon DEF DeliveryTyped
    <3> QED
      BY <2>1, <3>1, <1>2, AddKeeps, Zenon
  <2>2. CASE ~ CanTake /\ UNCHANGED <<buffer, idx, added, snapshot>>
    <3>1. /\ Messages(added, handled, buffer, reader, write, idx)'
          /\ Snapshots(added, handled, reader, snapshot)'
      BY <2>2, <1>2, QueueKept, Zenon
    <3> QED
      BY <2>2, <3>1, <1>1, Zenon DEF DeliveryTyped
  <2>3. CASE /\ snapshot' = Append(snapshot, sent')
             /\ added' = [added EXCEPT !.snapshots = Append(@, sent')]
             /\ UNCHANGED <<buffer, idx>>
    <3>1. /\ added \in HistoryType /\ handled \in HistoryType /\ reader \in ReaderType
          /\ snapshot \in Seq(Int)
      BY <1>1, Zenon DEF DeliveryTyped
    <3>2. /\ added.snapshots \in Seq(Int) /\ handled.snapshots \in Seq(Int)
          /\ reader.first \in Seq(Int)
      BY <3>1, Zenon DEF HistoryType, ReaderType
    <3>3. /\ Append(added.snapshots, sent') \in Seq(Int)
          /\ Append(snapshot, sent') \in Seq(Int)
      BY <1>2, <3>1, <3>2, AppendFacts, Zenon
    <3>4. /\ added' \in HistoryType /\ added'.messages = added.messages
          /\ added'.snapshots = Append(added.snapshots, sent')
      BY <2>3, <3>1, <3>3, Zenon DEF HistoryType
    <3>5. SnapshotsLeft(reader) \in 0 .. Len(reader.first)
      BY <1>1, <3>1, Lefts, Zenon DEF Apart
    <3>6. SnapshotsInPlace(added.snapshots, handled.snapshots, reader.first,
                           SnapshotsLeft(reader), snapshot)
      BY Zenon DEF DeliveryInv
    <3>7. SnapshotsInPlace(Append(added.snapshots, sent'), handled.snapshots, reader.first,
                           SnapshotsLeft(reader), Append(snapshot, sent'))
      BY <1>2, <3>1, <3>2, <3>5, <3>6, AddSnapshotInPlace, Zenon
    <3>8. Snapshots(added, handled, reader, snapshot)'
      BY <1>2, <2>3, <3>4, <3>7, Zenon DEF Snapshots
    <3>9. Messages(added, handled, buffer, reader, write, idx)'
      BY <1>2, <2>3, <3>4, Zenon DEF DeliveryInv, Messages
    <3> QED
      BY <1>1, <2>3, <3>3, <3>4, <3>8, <3>9, Zenon DEF DeliveryTyped
  <2> QED
    BY <2>1, <2>2, <2>3, Zenon DEF Deliver
<1>6. DeliveryTyped'
  BY <1>1, <1>2, <1>3, <1>5, Zenon DEF DeliveryTyped
<1>7. Apart'
  BY <1>1, <1>2, Zenon DEF Apart
<1> QED
  BY <1>4, <1>5, <1>6, <1>7, Zenon DEF DeliveryInv, Messages, Snapshots

\* Marking the cluster and poking the worker.
LEMMA StepsKeep ==
    ASSUME DeliveryInv, NEW t \in Senders, DeliverySteps(t)
    PROVE  DeliveryInv'
<1>1. DeliveryTyped /\ NoLostWakeup
  BY Zenon DEF DeliveryInv
<1>2. /\ UNCHANGED <<buffer, write, idx, oldIdx, snapshot, reader, sent, added, handled,
                     feedback>>
  BY Zenon DEF DeliverySteps, SetClusterReady, Poke
<1>3. /\ Apart' /\ Messages(added, handled, buffer, reader, write, idx)'
      /\ Snapshots(added, handled, reader, snapshot)'
  BY <1>2, QueueKept, Zenon
<1>4. DeliveryTyped' /\ NoLostWakeup'
  <2>1. CASE SetClusterReady(t)
    <3>1. /\ marked' = Marked /\ sender' = [sender EXCEPT ![t] = "poke"]
          /\ UNCHANGED readyCh
      BY <2>1, Zenon DEF SetClusterReady
    <3>2. /\ marked' \in [ready : 0 .. 1, maps : [0 .. 1 -> BOOLEAN]]
          /\ marked'.ready = marked.ready /\ marked'.maps[marked'.ready]
      BY <3>1, <1>1, Zenon DEF DeliveryTyped, Marked
    <3>3. sender' \in [Senders -> {"idle", "mark", "poke"}] /\ sender'[t] = "poke"
      BY <3>1, <1>1, Zenon DEF DeliveryTyped
    <3>4. DeliveryTyped'
      BY <1>1, <1>2, <3>1, <3>2, <3>3, Zenon DEF DeliveryTyped
    <3> QED
      BY <3>2, <3>3, <3>4, Zenon DEF NoLostWakeup
  <2>2. CASE Poke(t)
    <3>1. /\ readyCh' /\ sender' = [sender EXCEPT ![t] = "idle"] /\ sender[t] = "poke"
          /\ readyCh' \in BOOLEAN /\ UNCHANGED marked
      BY <2>2, Zenon DEF Poke
    <3>2. /\ sender' \in [Senders -> {"idle", "mark", "poke"}]
          /\ \A x \in Senders : sender[x] = "mark" => sender'[x] = "mark"
      BY <3>1, <1>1, Zenon DEF DeliveryTyped
    <3>3. DeliveryTyped'
      BY <1>1, <1>2, <3>1, <3>2, Zenon DEF DeliveryTyped
    <3> QED
      BY <1>1, <1>2, <3>1, <3>2, <3>3, Zenon DEF NoLostWakeup
  <2> QED
    BY <2>1, <2>2, Zenon DEF DeliverySteps
<1> QED
  BY <1>3, <1>4, Zenon DEF DeliveryInv, Messages, Snapshots

FeedbackType ==
    [held : [age : Int, k : Int], pushing : [age : Int, k : Int], made : Int]

\* Keeping a report, and taking it up once it is old enough.
LEMMA ReportsKeep ==
    ASSUME DeliveryInv, GetReadyReports \/ \E age \in 0 .. MaxAge : AddStatus(age)
    PROVE  DeliveryInv'
<1>1. DeliveryTyped /\ NoLostWakeup /\ feedback \in FeedbackType
  BY Zenon DEF DeliveryInv, DeliveryTyped, FeedbackType
<1>2. UNCHANGED <<buffer, write, idx, oldIdx, snapshot, marked, readyCh, sender, reader,
                  sent, added, handled>>
  BY Zenon DEF AddStatus, GetReadyReports
<1>3. /\ Apart' /\ Messages(added, handled, buffer, reader, write, idx)'
      /\ Snapshots(added, handled, reader, snapshot)'
  BY <1>2, QueueKept, Zenon
<1>4. feedback' \in FeedbackType
  <2>1. CASE GetReadyReports
    <3>1. NoReport \in [age : Int, k : Int] /\ feedback.held \in [age : Int, k : Int]
      BY <1>1 DEF FeedbackType, NoReport, Held
    <3>2. [feedback EXCEPT !.held.age = @ - 1] \in FeedbackType
      BY <1>1, <3>1 DEF FeedbackType
    <3>3. [feedback EXCEPT !.held = NoReport, !.pushing = feedback.held] \in FeedbackType
      BY <1>1, <3>1, Zenon DEF FeedbackType
    <3> QED
      BY <2>1, <3>2, <3>3, Zenon DEF GetReadyReports
  <2>2. ASSUME NEW age \in 0 .. MaxAge, AddStatus(age) PROVE feedback' \in FeedbackType
    <3>1. age \in Int /\ feedback.made + 1 \in Int
      BY <1>1 DEF FeedbackType
    <3> QED
      BY <1>1, <2>2, <3>1, Zenon DEF FeedbackType, AddStatus, Held
  <2> QED
    BY <2>1, <2>2, Zenon
<1>5. DeliveryTyped'
  BY <1>1, <1>2, <1>4, Zenon DEF DeliveryTyped, FeedbackType
<1>6. NoLostWakeup'
  BY <1>1, <1>2, Zenon DEF NoLostWakeup
<1> QED
  BY <1>3, <1>5, <1>6, Zenon DEF DeliveryInv, Messages, Snapshots

LEMMA PushKeeps ==
    ASSUME DeliveryInv, NEW t \in Senders, PushReport(t)
    PROVE  DeliveryInv'
<1>1. DeliveryTyped /\ Apart /\ NoLostWakeup /\ feedback \in FeedbackType
  BY Zenon DEF DeliveryInv, DeliveryTyped, FeedbackType
<1>2. UNCHANGED <<write, oldIdx, snapshot, marked, readyCh, reader, sent, handled>>
  BY Zenon DEF PushReport
<1>3. /\ NoReport \in [age : Int, k : Int] /\ feedback.pushing.k \in Int
      /\ Held(1, feedback.pushing.k) \in [age : Int, k : Int]
  BY <1>1 DEF FeedbackType, NoReport, Held
<1>4. /\ [feedback EXCEPT !.pushing = NoReport] \in FeedbackType
      /\ [Retry(feedback) EXCEPT !.pushing = NoReport] \in FeedbackType
  BY <1>1, <1>3, Zenon DEF FeedbackType, Retry
<1>5. Apart'
  BY <1>1, <1>2, Zenon DEF Apart
<1>6. CASE CanTake
  <2>1. /\ Add(Report(feedback.pushing.k)) /\ sender' = [sender EXCEPT ![t] = "mark"]
        /\ feedback' = [feedback EXCEPT !.pushing = NoReport] /\ sender[t] = "idle"
    BY <1>6, Zenon DEF PushReport
  <2>2. Report(feedback.pushing.k) \in Int
    BY <1>3 DEF Report
  <2>3. /\ buffer' \in [Sides -> [1 .. QueueLength -> Int]] /\ idx' \in 0 .. QueueLength
        /\ added' \in HistoryType
        /\ Messages(added, handled, buffer, reader, write, idx)'
        /\ Snapshots(added, handled, reader, snapshot)'
    BY <1>2, <1>6, <2>1, <2>2, AddKeeps, Zenon
  <2>4. /\ sender' \in [Senders -> {"idle", "mark", "poke"}] /\ sender'[t] = "mark"
        /\ \A x \in Senders : sender[x] = "poke" => sender'[x] = "poke"
    BY <1>1, <2>1, Zenon DEF DeliveryTyped
  <2>5. DeliveryTyped'
    BY <1>1, <1>2, <1>4, <2>1, <2>3, <2>4, Zenon DEF DeliveryTyped, FeedbackType
  <2>6. NoLostWakeup'
    BY <1>1, <1>2, <2>4, Zenon DEF NoLostWakeup
  <2> QED
    BY <1>5, <2>3, <2>5, <2>6, Zenon DEF DeliveryInv, Messages, Snapshots
<1>7. CASE ~ CanTake
  <2>1. /\ UNCHANGED <<buffer, idx, added, sender>>
        /\ feedback' = [Retry(feedback) EXCEPT !.pushing = NoReport]
    BY <1>7, Zenon DEF PushReport
  <2>2. /\ Messages(added, handled, buffer, reader, write, idx)'
        /\ Snapshots(added, handled, reader, snapshot)'
    BY <1>2, <2>1, QueueKept, Zenon
  <2>3. DeliveryTyped'
    BY <1>1, <1>2, <1>4, <2>1, Zenon DEF DeliveryTyped, FeedbackType
  <2>4. NoLostWakeup'
    BY <1>1, <1>2, <2>1, Zenon DEF NoLostWakeup
  <2> QED
    BY <1>5, <2>2, <2>3, <2>4, Zenon DEF DeliveryInv, Messages, Snapshots
<1> QED
  BY <1>6, <1>7, Zenon

\* The worker wakes up and takes the marks; the queue is not touched.
LEMMA WakeKeeps ==
    ASSUME DeliveryInv, Wake \/ GetReadyClusters
    PROVE  DeliveryInv'
<1>1. DeliveryTyped /\ Apart /\ NoLostWakeup /\ reader \in ReaderType
  BY Zenon DEF DeliveryInv, DeliveryTyped
<1>2. /\ UNCHANGED <<buffer, write, idx, oldIdx, snapshot, sender, sent, added, handled,
                     feedback>>
      /\ reader.at # "read"
  BY Zenon DEF Wake, GetReadyClusters
<1>3. \E x \in {"woken", "step"} : reader' = [reader EXCEPT !.at = x]
  BY Zenon DEF Wake, GetReadyClusters
<1>4. /\ reader' \in ReaderType /\ reader'.at # "read" /\ reader'.side = reader.side
      /\ reader'.size = reader.size /\ reader'.first = reader.first
  BY <1>1, <1>3, Zenon DEF ReaderType
<1>5. /\ MessagesLeft(reader)' = MessagesLeft(reader)
      /\ SnapshotsLeft(reader)' = SnapshotsLeft(reader)
  BY <1>2, <1>4, Zenon DEF MessagesLeft, SnapshotsLeft
<1>6. /\ Messages(added, handled, buffer, reader, write, idx)'
      /\ Snapshots(added, handled, reader, snapshot)'
  BY <1>2, <1>4, <1>5, Zenon DEF DeliveryInv, Messages, Snapshots
<1>7. Apart'
  BY <1>4, Zenon DEF Apart
<1>8. DeliveryTyped' /\ NoLostWakeup'
  <2>1. CASE Wake
    <3>1. /\ ~ readyCh' /\ readyCh' \in BOOLEAN /\ UNCHANGED marked
          /\ reader.at = "idle" /\ reader'.at = "woken"
      BY <2>1, <1>1, Zenon DEF Wake, ReaderType
    <3>2. DeliveryTyped'
      BY <1>1, <1>2, <1>4, <3>1, Zenon DEF DeliveryTyped
    <3> QED
      BY <1>1, <1>2, <3>1, <3>2, Zenon DEF NoLostWakeup
  <2>2. CASE GetReadyClusters
    <3>1. /\ UNCHANGED readyCh /\ reader'.at = "step"
          /\ marked' = [ready |-> 1 - marked.ready,
                        maps |-> [marked.maps EXCEPT ![1 - marked.ready] = FALSE]]
      BY <2>2, <1>1, Zenon DEF GetReadyClusters, ReaderType
    <3>2. /\ marked.ready \in 0 .. 1 /\ 1 - marked.ready \in 0 .. 1
          /\ marked.maps \in [0 .. 1 -> BOOLEAN]
      BY <1>1 DEF DeliveryTyped
    <3>3. /\ marked' \in [ready : 0 .. 1, maps : [0 .. 1 -> BOOLEAN]]
          /\ ~ marked'.maps[marked'.ready]
      BY <3>1, <3>2, Zenon
    <3>4. DeliveryTyped'
      BY <1>1, <1>2, <1>4, <3>1, <3>3, Zenon DEF DeliveryTyped
    <3> QED
      BY <3>1, <3>3, <3>4, Zenon DEF NoLostWakeup
  <2> QED
    BY <2>1, <2>2, Zenon
<1> QED
  BY <1>6, <1>7, <1>8, Zenon DEF DeliveryInv, Messages, Snapshots

\* The worker takes what is in the queue; the buffer it frees is the one it
\* has read to the end.
LEMMA TakeKeeps ==
    ASSUME DeliveryInv, TakeMessages
    PROVE  DeliveryInv'
<1>1. DeliveryTyped /\ Apart /\ NoLostWakeup
  BY Zenon DEF DeliveryInv
<1>2. /\ reader.at = "step"
      /\ reader' = [at |-> "read", side |-> write, size |-> idx, first |-> snapshot,
                    next |-> 1]
      /\ write' = Flip(write) /\ buffer' = Freed(buffer, Flip(write), oldIdx)
      /\ oldIdx' = idx /\ idx' = 0 /\ snapshot' = <<>>
      /\ UNCHANGED <<marked, readyCh, sender, sent, added, handled, feedback>>
  BY Zenon DEF TakeMessages, Get
<1>3. /\ buffer \in [Sides -> [1 .. QueueLength -> Int]] /\ write \in Sides
      /\ idx \in 0 .. QueueLength /\ oldIdx \in 0 .. QueueLength
      /\ snapshot \in Seq(Int) /\ added \in HistoryType /\ handled \in HistoryType
      /\ reader \in ReaderType
  BY <1>1, Zenon DEF DeliveryTyped
<1>4. /\ added.messages \in Seq(Int) /\ added.snapshots \in Seq(Int)
      /\ handled.messages \in Seq(Int) /\ handled.snapshots \in Seq(Int)
      /\ reader.side \in Sides /\ reader.size \in 0 .. QueueLength
  BY <1>3, Zenon DEF HistoryType, ReaderType
<1>5. Flip(write) \in Sides /\ Flip(write) # write
  BY <1>3, FlipSide, Zenon
<1>6. /\ reader' \in ReaderType /\ reader'.at = "read" /\ reader'.side = write
      /\ reader'.size = idx /\ reader'.first = snapshot /\ reader'.next = 1
  BY <1>2, <1>3 DEF ReaderType
<1>7. Len(snapshot) \in Nat /\ idx \in Nat
  BY <1>3, LenNat, QueueLengthAssumption
<1>8. MessagesLeft(reader) = 0 /\ SnapshotsLeft(reader) = 0
  BY <1>2, Zenon DEF MessagesLeft, SnapshotsLeft
<1>9. MessagesLeft(reader)' = idx /\ SnapshotsLeft(reader)' = Len(snapshot)
  BY <1>6, <1>7 DEF MessagesLeft, SnapshotsLeft
<1>10. Messages(added, handled, buffer, reader, write, idx)'
  <2>1. InPlace(added.messages, handled.messages, buffer, reader.side, reader.size, 0,
                write, idx)
    BY <1>8, Zenon DEF DeliveryInv
  <2>2. InPlace(added.messages, handled.messages, Freed(buffer, Flip(write), oldIdx),
                write, idx, idx, Flip(write), 0)
    BY <1>3, <1>4, <2>1, GetInPlace, Zenon
  <2> QED
    BY <1>2, <1>6, <1>9, <2>2, Zenon DEF Messages
<1>11. Snapshots(added, handled, reader, snapshot)'
  <2>1. SnapshotsInPlace(added.snapshots, handled.snapshots, reader.first, 0, snapshot)
    BY <1>8, Zenon DEF DeliveryInv
  <2>2. SnapshotsInPlace(added.snapshots, handled.snapshots, snapshot, Len(snapshot), <<>>)
    BY <1>3, <1>4, <2>1, GetSnapshotsInPlace, Zenon
  <2> QED
    BY <1>2, <1>6, <1>9, <2>2, Zenon DEF Snapshots
<1>12. Apart'
  BY <1>2, <1>5, <1>6, <1>7 DEF Apart
<1>13. buffer' \in [Sides -> [1 .. QueueLength -> Int]]
  <2>1. buffer[Flip(write)] \in [1 .. QueueLength -> Int]
    BY <1>3, <1>5, Zenon
  <2> DEFINE f == [i \in DOMAIN buffer[Flip(write)] |->
                      IF i <= oldIdx THEN Empty ELSE buffer[Flip(write)][i]]
  <2>2. f \in [1 .. QueueLength -> Int]
    <3> DEFINE g == buffer[Flip(write)]
    <3>1. g \in [1 .. QueueLength -> Int]
      BY <2>1, Zenon
    <3>2. f = [i \in DOMAIN g |-> IF i <= oldIdx THEN 0 ELSE g[i]]
      BY Zenon DEF Empty
    <3> HIDE DEF f, g
    <3> QED
      BY <3>1, <3>2, ClearedSlots
  <2>3. buffer' = [buffer EXCEPT ![Flip(write)] = f]
    BY <1>2, <1>3, <1>5, Zenon DEF Freed
  <2> HIDE DEF f
  <2> QED
    BY <1>3, <1>5, <2>2, <2>3, Zenon
<1>14. /\ write' \in Sides /\ idx' \in 0 .. QueueLength /\ oldIdx' \in 0 .. QueueLength
       /\ snapshot' \in Seq(Int)
  BY <1>2, <1>3, <1>5, QueueLengthAssumption
<1>15. DeliveryTyped'
  BY <1>1, <1>2, <1>6, <1>13, <1>14, Zenon DEF DeliveryTyped
<1>16. NoLostWakeup'
  <2>1. ~ (idx' > 0 \/ snapshot' # <<>>)
    BY <1>2
  <2>2. /\ reader.at # "woken"
        /\ UNCHANGED <<marked, readyCh, sender>>
    BY <1>2, Zenon
  <2> QED
    BY <1>1, <2>1, <2>2, Zenon DEF NoLostWakeup
<1> QED
  BY <1>10, <1>11, <1>12, <1>15, <1>16, Zenon DEF DeliveryInv, Messages, Snapshots

\* The worker handles the next snapshot or message, or has come to the end.
LEMMA HandleKeeps ==
    ASSUME DeliveryInv, HandleNext
    PROVE  DeliveryInv'
<1> DEFINE l == Len(reader.first)
           z == reader.size
           x == reader.next
           k == x - l
<1>1. DeliveryTyped /\ Apart /\ NoLostWakeup
  BY Zenon DEF DeliveryInv
<1>2. /\ reader.at = "read"
      /\ UNCHANGED <<buffer, write, idx, oldIdx, snapshot, marked, readyCh, sender, sent,
                     added, feedback>>
  BY Zenon DEF HandleNext
<1>3. /\ buffer \in [Sides -> [1 .. QueueLength -> Int]] /\ idx \in 0 .. QueueLength
      /\ snapshot \in Seq(Int) /\ added \in HistoryType /\ handled \in HistoryType
      /\ reader \in ReaderType /\ QueueLength \in Nat
  BY <1>1, QueueLengthAssumption, Zenon DEF DeliveryTyped
<1>4. /\ added.messages \in Seq(Int) /\ added.snapshots \in Seq(Int)
      /\ handled.messages \in Seq(Int) /\ handled.snapshots \in Seq(Int)
      /\ reader.side \in Sides /\ reader.size \in 0 .. QueueLength
      /\ reader.first \in Seq(Int) /\ reader.next \in Nat \ {0}
  BY <1>3, Zenon DEF HistoryType, ReaderType
<1>5. /\ l \in Nat /\ x \in Nat \ {0} /\ z \in Nat
      /\ x <= l + z + 1 /\ reader.side # write
  BY <1>1, <1>2, <1>3, <1>4, LenNat DEF Apart
<1>6. /\ InPlace(added.messages, handled.messages, buffer, reader.side, reader.size,
                 MessagesLeft(reader), write, idx)
      /\ SnapshotsInPlace(added.snapshots, handled.snapshots, reader.first,
                          SnapshotsLeft(reader), snapshot)
  BY Zenon DEF DeliveryInv
<1>7. /\ x <= l => MessagesLeft(reader) = z /\ SnapshotsLeft(reader) = l + 1 - x
      /\ x > l => MessagesLeft(reader) = z + l + 1 - x /\ SnapshotsLeft(reader) = 0
  BY <1>2, <1>5, LeftOf, Zenon
<1>8. ASSUME reader'.at = "read", reader'.first = reader.first, reader'.size = reader.size,
              reader'.next = reader.next + 1
       PROVE  /\ x + 1 <= l => MessagesLeft(reader') = z /\ SnapshotsLeft(reader') = l - x
              /\ x + 1 > l => MessagesLeft(reader') = z + l - x /\ SnapshotsLeft(reader') = 0
  <2>1. x + 1 \in Nat /\ l + 1 - (x + 1) = l - x /\ z + l + 1 - (x + 1) = z + l - x
    BY <1>5
  <2> DEFINE r == reader'
  <2>2. /\ r.at = "read" /\ Len(r.first) = l /\ r.size = z /\ r.next = x + 1
    BY <1>8, Zenon
  <2> HIDE DEF r, l, x, z
  <2>3. /\ x + 1 <= l => MessagesLeft(r) = z /\ SnapshotsLeft(r) = l + 1 - (x + 1)
        /\ x + 1 > l => MessagesLeft(r) = z + l + 1 - (x + 1) /\ SnapshotsLeft(r) = 0
    BY <1>5, <2>1, <2>2, LeftOf, Zenon
  <2> QED
    BY <2>1, <2>3, Zenon DEF r
<1>9. CASE k > z
  <2>1. reader' = [reader EXCEPT !.at = "idle"] /\ UNCHANGED handled
    BY <1>9, Zenon DEF HandleNext
  <2>2. /\ reader' \in ReaderType /\ reader'.at = "idle" /\ reader'.side = reader.side
        /\ reader'.size = reader.size /\ reader'.first = reader.first
    BY <1>3, <2>1, Zenon DEF ReaderType
  <2>3. MessagesLeft(reader) = 0 /\ SnapshotsLeft(reader) = 0
    <3> HIDE DEF l, x, z
    <3>1. x > l /\ z + l + 1 - x = 0
      BY <1>5, <1>9
    <3> QED
      BY <1>7, <3>1, Zenon
  <2>4. MessagesLeft(reader)' = 0 /\ SnapshotsLeft(reader)' = 0
    BY <2>2, Zenon DEF MessagesLeft, SnapshotsLeft
  <2>5. /\ Messages(added, handled, buffer, reader, write, idx)'
        /\ Snapshots(added, handled, reader, snapshot)'
    BY <1>2, <1>6, <2>1, <2>2, <2>3, <2>4, Zenon DEF Messages, Snapshots
  <2>6. DeliveryTyped'
    BY <1>1, <1>2, <2>1, <2>2, Zenon DEF DeliveryTyped
  <2>7. Apart'
    BY <2>2, Zenon DEF Apart
  <2>8. NoLostWakeup'
    BY <1>1, <1>2, <2>2, Zenon DEF NoLostWakeup
  <2> QED
    BY <2>5, <2>6, <2>7, <2>8, Zenon DEF DeliveryInv, Messages, Snapshots
<1>10. CASE ~ k > z
  <2>1. /\ reader' = [reader EXCEPT !.next = @ + 1]
        /\ handled' = IF k <= 0
                      THEN [handled EXCEPT !.snapshots = Append(@, reader.first[reader.next])]
                      ELSE [handled EXCEPT !.messages = Append(@, buffer[reader.side][k])]
    BY <1>10, Zenon DEF HandleNext
  <2>2. reader.next + 1 \in Nat \ {0}
    BY <1>4
  <2>3. /\ reader' \in ReaderType /\ reader'.at = "read" /\ reader'.side = reader.side
        /\ reader'.size = reader.size /\ reader'.first = reader.first
        /\ reader'.next = reader.next + 1
    BY <1>2, <1>3, <2>1, <2>2, Zenon DEF ReaderType
  <2>4. Apart'
    BY <1>2, <1>4, <1>5, <1>10, <2>3 DEF Apart
  <2>5. NoLostWakeup'
    BY <1>1, <1>2, <2>3, Zenon DEF NoLostWakeup
  <2>6. /\ handled' \in HistoryType
        /\ Messages(added, handled, buffer, reader, write, idx)'
        /\ Snapshots(added, handled, reader, snapshot)'
    <3>1. CASE k <= 0
      <4> HIDE DEF l, x, z
      <4>1. x \in 1 .. l
        BY <1>5, <3>1
      <4>2. MessagesLeft(reader) = z /\ SnapshotsLeft(reader) = l + 1 - x
        BY <1>5, <1>7, <4>1
      <4>3. MessagesLeft(reader') = z /\ SnapshotsLeft(reader') = l - x
        BY <1>5, <1>8, <2>3, <4>1
      <4>4. /\ l + 1 - x \in 1 .. l /\ l - (l + 1 - x) + 1 = x /\ (l + 1 - x) - 1 = l - x
        BY <1>5, <4>1
      <4>5. SnapshotsInPlace(added.snapshots,
                             Append(handled.snapshots, reader.first[x]),
                             reader.first, l - x, snapshot)
        <5>1. SnapshotsInPlace(added.snapshots, handled.snapshots, reader.first,
                               l + 1 - x, snapshot)
          BY <1>6, <4>2, Zenon
        <5>2. SnapshotsInPlace(added.snapshots,
                               Append(handled.snapshots, reader.first[l - (l + 1 - x) + 1]),
                               reader.first, (l + 1 - x) - 1, snapshot)
          BY <1>3, <1>4, <4>4, <5>1, HandleSnapshotInPlace, Zenon DEF l
        <5> QED
          BY <4>4, <5>2, Zenon
      <4>6. Append(handled.snapshots, reader.first[x]) \in Seq(Int)
        <5>1. reader.first[x] \in Int
          BY <1>4, <4>1 DEF l
        <5> QED
          BY <1>4, <5>1, AppendFacts, Zenon
      <4>7. /\ handled' \in HistoryType /\ handled'.messages = handled.messages
            /\ handled'.snapshots = Append(handled.snapshots, reader.first[x])
        BY <1>3, <2>1, <3>1, <4>6, Zenon DEF HistoryType, x
      <4> QED
        BY <1>2, <1>6, <2>3, <4>2, <4>3, <4>5, <4>7, Zenon DEF Messages, Snapshots, z
    <3>2. CASE ~ k <= 0
      <4> HIDE DEF l, x, z
      <4>1. k \in 1 .. z /\ x > l
        BY <1>5, <1>10, <3>2
      <4>2. MessagesLeft(reader) = z + l + 1 - x /\ SnapshotsLeft(reader) = 0
        BY <1>7, <4>1, Zenon
      <4>3. MessagesLeft(reader') = z + l - x /\ SnapshotsLeft(reader') = 0
        <5>1. x + 1 > l
          BY <1>5, <4>1
        <5> QED
          BY <1>8, <2>3, <5>1, Zenon
      <4>4. /\ z + l + 1 - x \in 1 .. z /\ z - (z + l + 1 - x) + 1 = k
            /\ (z + l + 1 - x) - 1 = z + l - x
        BY <1>5, <4>1
      <4> HIDE DEF k
      <4>5. buffer[reader.side][k] \in Int /\ idx \in Nat
        <5>1. k \in 1 .. QueueLength
          BY <1>3, <1>4, <1>5, <4>1 DEF z
        <5> QED
          BY <1>3, <1>4, <5>1
      <4>6. InPlace(added.messages, Append(handled.messages, buffer[reader.side][k]),
                    buffer, reader.side, z, z + l - x, write, idx)
        <5>1. InPlace(added.messages, handled.messages, buffer, reader.side, z,
                      z + l + 1 - x, write, idx)
          BY <1>6, <4>2, Zenon DEF z
        <5>2. buffer[reader.side][z - (z + l + 1 - x) + 1] \in Int
          BY <4>4, <4>5, Zenon
        <5>3. InPlace(added.messages,
                      Append(handled.messages, buffer[reader.side][z - (z + l + 1 - x) + 1]),
                      buffer, reader.side, z, (z + l + 1 - x) - 1, write, idx)
          BY <1>4, <1>5, <4>4, <4>5, <5>1, <5>2, HandleInPlace, Zenon
        <5> QED
          BY <4>4, <5>3, Zenon
      <4>7. Append(handled.messages, buffer[reader.side][k]) \in Seq(Int)
        BY <1>4, <4>5, AppendFacts, Zenon
      <4>8. /\ handled' \in HistoryType /\ handled'.snapshots = handled.snapshots
            /\ handled'.messages = Append(handled.messages, buffer[reader.side][k])
        BY <1>3, <2>1, <3>2, <4>7, Zenon DEF HistoryType
      <4> QED
        BY <1>2, <1>6, <2>3, <4>2, <4>3, <4>6, <4>8, Zenon DEF Messages, Snapshots, z
    <3> QED
      BY <3>1, <3>2, Zenon
  <2>7. DeliveryTyped'
    BY <1>1, <1>2, <2>3, <2>6, Zenon DEF DeliveryTyped
  <2> QED
    BY <2>4, <2>5, <2>6, <2>7, Zenon DEF DeliveryInv, Messages, Snapshots
<1> QED
  BY <1>9, <1>10, Zenon

LEMMA DeliveryInvNext == DeliveryInv /\ [DeliveryNext]_deliveryVars => DeliveryInv'
<1> SUFFICES ASSUME DeliveryInv, [DeliveryNext]_deliveryVars PROVE DeliveryInv'
  BY Zenon
<1>1. CASE UNCHANGED deliveryVars
  BY <1>1, Zenon DEF deliveryVars, DeliveryInv, DeliveryTyped, Apart, NoLostWakeup
<1>2. CASE DeliveryNext
  BY <1>2, DeliverKeeps, StepsKeep, ReportsKeep, PushKeeps, WakeKeeps, TakeKeeps, HandleKeeps, Zenon
  DEF DeliveryNext, DeliveryPushes, DeliveryReads
<1> QED
  BY <1>1, <1>2, Zenon

LEMMA DeliveryInvIsEnough == DeliveryInv => DeliverySafe
<1> SUFFICES ASSUME DeliveryInv PROVE DeliverySafe
  BY Zenon
<1>1. /\ added \in HistoryType /\ handled \in HistoryType /\ reader \in ReaderType
      /\ idx \in 0 .. QueueLength /\ oldIdx \in 0 .. QueueLength
  BY Zenon DEF DeliveryInv, DeliveryTyped
<1>2. /\ added.messages \in Seq(Int) /\ added.snapshots \in Seq(Int)
      /\ handled.messages \in Seq(Int) /\ handled.snapshots \in Seq(Int)
      /\ reader.size \in 0 .. QueueLength
      /\ reader.at \in {"idle", "woken", "step", "read"}
  BY <1>1, Zenon DEF HistoryType, ReaderType
<1>3. DeliveryTypeOK
  BY <1>1, <1>2, QueueLengthAssumption DEF DeliveryTypeOK
<1>4. /\ MessagesLeft(reader) \in 0 .. reader.size
      /\ SnapshotsLeft(reader) \in 0 .. Len(reader.first)
  BY <1>1, Lefts, Zenon DEF DeliveryInv, Apart
<1>5. /\ Len(handled.messages) <= Len(added.messages)
      /\ \A k \in 1 .. Len(handled.messages) : handled.messages[k] = added.messages[k]
  <2>1. /\ Len(handled.messages) \in Nat /\ Len(added.messages) \in Nat
        /\ MessagesLeft(reader) \in Nat /\ idx \in Nat
    BY <1>1, <1>2, <1>4, LenNat, QueueLengthAssumption
  <2> QED
    BY <2>1 DEF DeliveryInv, InPlace
<1>6. /\ Len(handled.snapshots) <= Len(added.snapshots)
      /\ \A k \in 1 .. Len(handled.snapshots) : handled.snapshots[k] = added.snapshots[k]
  <2>1. /\ Len(handled.snapshots) \in Nat /\ Len(added.snapshots) \in Nat
        /\ SnapshotsLeft(reader) \in Nat /\ Len(snapshot) \in Nat
    BY <1>2, <1>4, LenNat, SMTT(30) DEF DeliveryInv, DeliveryTyped
  <2> QED
    BY <2>1 DEF DeliveryInv, SnapshotsInPlace
<1>7. HandledAsSent
  BY <1>2, <1>5, <1>6, PrefixByElements, Zenon DEF HandledAsSent
<1> QED
  BY <1>3, <1>7, Zenon DEF DeliverySafe, DeliveryInv

\* With any number of delivering threads, any queue length and any number of
\* messages, reports and snapshots: what MessageQueue's Get returns is what
\* Add and AddSnapshot took, each once and in order, whatever gc clears
\* meanwhile; and workReady never leaves a queue with messages in it without a
\* mark or a token that brings the step worker to it.
THEOREM DeliveryIsSafe == DeliverySpec => []DeliverySafe
<1>1. DeliveryInit => DeliveryInv
  BY DeliveryInvInit, Zenon
<1>2. DeliveryInv /\ [DeliveryNext]_deliveryVars => DeliveryInv'
  BY DeliveryInvNext, Zenon
<1>3. DeliveryInv => DeliverySafe
  BY DeliveryInvIsEnough, Zenon
<1> QED
  BY <1>1, <1>2, <1>3, PTL DEF DeliverySpec

-----------------------------------------------------------------------------
(* Lifecycle.                                                               *)


NodeMap == [Clusters -> {NoNode} \cup Incarnations]
NodeHostType == [clusters : NodeMap, stopped : BOOLEAN, engineStopped : BOOLEAN]
WorkerType == [nodes : NodeMap, stale : BOOLEAN, reading : BOOLEAN, changed : BOOLEAN]
StatusType == [loaded : SUBSET Workers, offloaded : SUBSET (Workers \cup {"nodehost"}),
               destroyed : BOOLEAN, stopc : BOOLEAN]

LifecycleTyped ==
    /\ nodehost \in NodeHostType /\ started \in Nat
    /\ worker \in [Workers -> WorkerType]
    /\ status \in [Incarnations -> StatusType]
    /\ \A w \in Workers : worker[w].changed => worker[w].reading

\* Incarnations are numbered as they start.
FreshAfter(st, last) == \A i \in Incarnations : i > last => st[i].offloaded = {}
UpTo(nodes, last) == \A c \in Clusters : nodes[c] <= last

\* An incarnation belongs to one cluster, in every map.
SameCluster(m, n) ==
    \A c, d \in Clusters : m[c] = n[d] /\ m[c] # NoNode => c = d

\* What holds of the nodes in the NodeHost's map (l), and in the map of worker
\* w (m): the worker has told that it loaded them and not that it let go of
\* them, and one that is in the NodeHost's map no more is offloaded there.
Listed(l, st) ==
    \A c \in Clusters : l[c] # NoNode => "nodehost" \notin st[l[c]].offloaded
HeldBack(w, m, l, st) ==
    \A c \in Clusters : m[c] # NoNode =>
        /\ w \in st[m[c]].loaded /\ w \notin st[m[c]].offloaded
        /\ l[c] = m[c] \/ "nodehost" \in st[m[c]].offloaded

\* The NodeHost lets go first, and everybody before the state machine closes.
InOrder(s) ==
    /\ \A w \in Workers : w \in s.offloaded => "nodehost" \in s.offloaded
    /\ s.destroyed => s.offloaded = Workers \cup {"nodehost"}

\* The inductive invariant.
LifecycleInv ==
    /\ LifecycleTyped
    /\ FreshAfter(status, started)
    /\ UpTo(nodehost.clusters, started) /\ \A w \in Workers : UpTo(worker[w].nodes, started)
    /\ SameCluster(nodehost.clusters, nodehost.clusters)
    /\ \A w \in Workers : SameCluster(worker[w].nodes, nodehost.clusters)
    /\ \A v, w \in Workers : SameCluster(worker[v].nodes, worker[w].nodes)
    /\ Listed(nodehost.clusters, status)
    /\ \A w \in Workers : HeldBack(w, worker[w].nodes, nodehost.clusters, status)
    /\ \A i \in Incarnations : InOrder(status[i])
    /\ nodehost.engineStopped =>
           nodehost.stopped /\ \A c \in Clusters : nodehost.clusters[c] = NoNode

-----------------------------------------------------------------------------
(* OffloadedStatus.                                                         *)

Everybody == Workers \cup {"nodehost"}

\* Who has let go once from does.
OffloadedWith(s, from) ==
    s.offloaded \cup {from} \cup (IF from = "nodehost" THEN Workers \ s.loaded ELSE {})

LEMMA OffloadFacts ==
    ASSUME NEW s \in StatusType, NEW from \in Everybody
    PROVE  /\ SetOffloaded(s, from) \in StatusType
           /\ SetOffloaded(s, from).loaded = s.loaded
           /\ SetOffloaded(s, from).stopc = s.stopc
           /\ SetOffloaded(s, from).offloaded = OffloadedWith(s, from)
           /\ SetOffloaded(s, from).destroyed =>
                  s.destroyed \/ OffloadedWith(s, from) = Everybody
<1> DEFINE off == OffloadedWith(s, from)
           t == [s EXCEPT !.offloaded = off,
                          !.destroyed = @ \/ off = Workers \cup {"nodehost"}]
<1>1. SetOffloaded(s, from) = t
  BY Zenon DEF SetOffloaded, OffloadedWith
<1>2. off \in SUBSET Everybody
  <2>1. s.offloaded \in SUBSET Everybody
    BY Zenon DEF StatusType, Everybody
  <2> QED
    BY <2>1, Zenon DEF Everybody, OffloadedWith
<1> HIDE DEF off
<1>3. t \in StatusType
  BY <1>2, Zenon DEF StatusType, Everybody
<1>4. t.loaded = s.loaded /\ t.stopc = s.stopc /\ t.offloaded = off
  BY Zenon DEF StatusType
<1>5. t.destroyed = (s.destroyed \/ off = Workers \cup {"nodehost"})
  <2>1. "destroyed" \in DOMAIN s
    BY Zenon DEF StatusType
  <2> QED
    BY <2>1, Zenon
<1> HIDE DEF t
<1>6. t.destroyed => s.destroyed \/ off = Everybody
  BY <1>5, Zenon DEF Everybody
<1> QED
  BY <1>1, <1>3, <1>4, <1>6, Zenon DEF off

\* SetOffloaded by the NodeHost, or by a worker when the NodeHost has let go.
LEMMA OffloadInOrder ==
    ASSUME NEW s \in StatusType, InOrder(s), NEW from \in Everybody,
           from = "nodehost" \/ "nodehost" \in s.offloaded
    PROVE  InOrder(SetOffloaded(s, from))
<1> DEFINE t == SetOffloaded(s, from)
<1>1. /\ t \in StatusType
      /\ t.offloaded = OffloadedWith(s, from)
      /\ t.destroyed => s.destroyed \/ OffloadedWith(s, from) = Everybody
  BY OffloadFacts, Zenon
<1>2. t.offloaded \subseteq Everybody
  BY <1>1, Zenon DEF StatusType, Everybody
<1> HIDE DEF t
<1>3. "nodehost" \in t.offloaded
  BY <1>1, Zenon DEF OffloadedWith
<1>4. t.destroyed => t.offloaded = Workers \cup {"nodehost"}
  <2>1. s.offloaded \subseteq t.offloaded
    BY <1>1, Zenon DEF OffloadedWith
  <2> QED
    BY <1>1, <1>2, <2>1, Zenon DEF InOrder, Everybody
<1> QED
  BY <1>3, <1>4, Zenon DEF InOrder, t

-----------------------------------------------------------------------------
(* The invariant.                                                           *)

LEMMA NodeFacts ==
    ASSUME NEW m \in NodeMap, NEW c \in Clusters, m[c] # NoNode
    PROVE  m[c] \in Incarnations
  BY Zenon DEF NodeMap, NoNode

LEMMA NoNodeFacts == NoNode \notin Incarnations
  BY LifecycleAssumption DEF NoNode, Incarnations

LEMMA LifecycleInvInit == LifecycleInit => LifecycleInv
<1> SUFFICES ASSUME LifecycleInit PROVE LifecycleInv
  BY Zenon
<1> DEFINE none == [c \in Clusters |-> NoNode]
<1>1. none \in NodeMap /\ \A c \in Clusters : none[c] = NoNode
  BY Zenon DEF NodeMap
<1>2. /\ nodehost \in NodeHostType /\ nodehost.clusters = none
      /\ ~ nodehost.engineStopped
  BY <1>1, Zenon DEF LifecycleInit, NodeHostType
<1>3. /\ NothingLoaded \in WorkerType /\ NothingLoaded.nodes = none
      /\ NothingLoaded.changed = FALSE
  BY <1>1, Zenon DEF NothingLoaded, WorkerType
<1>4. worker \in [Workers -> WorkerType] /\ \A w \in Workers : worker[w] = NothingLoaded
  BY <1>3, Zenon DEF LifecycleInit
<1>5. NewStatus \in StatusType /\ NewStatus.offloaded = {} /\ NewStatus.destroyed = FALSE
  BY Zenon DEF NewStatus, StatusType
<1>6. status \in [Incarnations -> StatusType] /\ \A i \in Incarnations : status[i] = NewStatus
  BY <1>5, Zenon DEF LifecycleInit
<1> HIDE DEF none
<1>7. LifecycleTyped
  BY <1>2, <1>3, <1>4, <1>6, Zenon DEF LifecycleInit, LifecycleTyped
<1>8. /\ FreshAfter(status, started) /\ Listed(nodehost.clusters, status)
      /\ \A i \in Incarnations : InOrder(status[i])
  BY <1>1, <1>2, <1>5, <1>6, Zenon DEF FreshAfter, Listed, InOrder
<1>9. started = 0 /\ NoNode = 0
  BY Zenon DEF LifecycleInit, NoNode
<1>10. UpTo(none, started) /\ SameCluster(none, none)
  BY <1>1, <1>9 DEF UpTo, SameCluster
<1>11. \A w \in Workers : worker[w].nodes = none
  BY <1>3, <1>4, Zenon
<1>12. \A w \in Workers : HeldBack(w, worker[w].nodes, nodehost.clusters, status)
  BY <1>1, <1>11, Zenon DEF HeldBack
<1> QED
  BY <1>2, <1>7, <1>8, <1>10, <1>11, <1>12, Zenon DEF LifecycleInv

\* clusterMu.csi++ leaves the maps of the workers alone.
LEMMA NextIndexFacts ==
    ASSUME worker \in [Workers -> WorkerType], NextClusterSetIndex
    PROVE  /\ worker' \in [Workers -> WorkerType]
           /\ \A w \in Workers : /\ worker'[w].nodes = worker[w].nodes
                                 /\ worker'[w].changed => worker'[w].reading
<1>1. ASSUME NEW w \in Workers
      PROVE  LET x == [worker[w] EXCEPT !.stale = TRUE, !.changed = worker[w].reading]
             IN  /\ x \in WorkerType /\ x.nodes = worker[w].nodes
                 /\ x.changed => x.reading
  BY Zenon DEF WorkerType
<1> QED
  BY <1>1, Zenon DEF NextClusterSetIndex

LEMMA StartKeeps ==
    ASSUME LifecycleInv, NEW c \in Clusters, StartCluster(c)
    PROVE  LifecycleInv'
<1> DEFINE l == nodehost.clusters
           n == started + 1
<1>1. /\ nodehost \in NodeHostType /\ started \in Nat /\ worker \in [Workers -> WorkerType]
      /\ status \in [Incarnations -> StatusType]
  BY Zenon DEF LifecycleInv, LifecycleTyped
<1>2. l \in NodeMap /\ \A w \in Workers : worker[w].nodes \in NodeMap
  BY <1>1, Zenon DEF NodeHostType, WorkerType
<1>3. /\ ~ nodehost.stopped /\ l[c] = NoNode /\ started < MaxStarts /\ started' = n
      /\ nodehost' = [nodehost EXCEPT !.clusters[c] = n] /\ NextClusterSetIndex
      /\ status' = status
  BY Zenon DEF StartCluster
<1>4. n \in Incarnations /\ n # NoNode /\ n > started /\ n \in Nat
  BY <1>1, <1>3, LifecycleAssumption DEF Incarnations, NoNode
<1>5. /\ nodehost' \in NodeHostType /\ nodehost'.clusters = [l EXCEPT ![c] = n]
      /\ nodehost'.stopped = nodehost.stopped
      /\ nodehost'.engineStopped = nodehost.engineStopped
  BY <1>1, <1>3, <1>4, Zenon DEF NodeHostType, NodeMap
<1>6. /\ worker' \in [Workers -> WorkerType]
      /\ \A w \in Workers : /\ worker'[w].nodes = worker[w].nodes
                            /\ worker'[w].changed => worker'[w].reading
  BY <1>1, <1>3, NextIndexFacts, Zenon
<1> DEFINE k == nodehost'.clusters
<1>7. k \in NodeMap /\ k[c] = n /\ \A d \in Clusters : d # c => k[d] = l[d]
  BY <1>2, <1>4, <1>5, Zenon DEF NodeMap
<1>8. /\ UpTo(l, started) /\ \A w \in Workers : UpTo(worker[w].nodes, started)
      /\ SameCluster(l, l) /\ \A w \in Workers : SameCluster(worker[w].nodes, l)
      /\ \A v, w \in Workers : SameCluster(worker[v].nodes, worker[w].nodes)
      /\ Listed(l, status) /\ \A w \in Workers : HeldBack(w, worker[w].nodes, l, status)
      /\ FreshAfter(status, started)
      /\ \A i \in Incarnations : InOrder(status[i])
  BY Zenon DEF LifecycleInv
<1>9. ~ nodehost.engineStopped
  BY <1>3, Zenon DEF LifecycleInv
<1> HIDE DEF k, l, n
<1>10. LifecycleTyped'
  BY <1>1, <1>3, <1>4, <1>5, <1>6, Zenon DEF LifecycleTyped
<1>11. FreshAfter(status, n)
  BY <1>1, <1>4, <1>8 DEF FreshAfter, Incarnations
<1>12. ASSUME NEW m \in NodeMap, UpTo(m, started) PROVE UpTo(m, n)
  <2>1. ASSUME NEW d \in Clusters PROVE m[d] <= n
    <3>1. m[d] \in Nat /\ m[d] <= started
      BY <1>12, LifecycleAssumption DEF UpTo, NodeMap, Incarnations, NoNode
    <3> QED
      BY <3>1, <1>1, <1>4
  <2> QED
    BY <2>1, Zenon DEF UpTo
<1>13. UpTo(k, n)
  <2>1. UpTo(l, n)
    BY <1>2, <1>8, <1>12, Zenon
  <2> QED
    BY <2>1, <1>4, <1>7 DEF UpTo
<1>14. ASSUME NEW m \in NodeMap, UpTo(m, started), SameCluster(m, l) PROVE SameCluster(m, k)
  <2>1. ASSUME NEW x \in Clusters, NEW y \in Clusters, m[x] = k[y], m[x] # NoNode
        PROVE  x = y
    <3>1. m[x] # n
      <4>1. m[x] \in Nat /\ m[x] <= started
        BY <1>14, LifecycleAssumption DEF UpTo, NodeMap, Incarnations, NoNode
      <4> QED
        BY <4>1, <1>1, <1>4
    <3> QED
      BY <2>1, <3>1, <1>7, <1>14, Zenon DEF SameCluster
  <2> QED
    BY <2>1, Zenon DEF SameCluster
<1>15. SameCluster(k, k)
  <2>1. SameCluster(l, k)
    BY <1>2, <1>8, <1>14, Zenon
  <2>2. ASSUME NEW x \in Clusters, NEW y \in Clusters, k[x] = k[y], k[x] # NoNode
        PROVE  x = y
    <3>1. CASE x # c
      BY <3>1, <2>1, <2>2, <1>7, Zenon DEF SameCluster
    <3>2. CASE y # c
      BY <3>2, <2>1, <2>2, <1>7, Zenon DEF SameCluster
    <3> QED
      BY <3>1, <3>2, Zenon
  <2> QED
    BY <2>2, Zenon DEF SameCluster
<1>16. Listed(k, status)
  <2>1. "nodehost" \notin status[n].offloaded
    BY <1>4, <1>8, Zenon DEF FreshAfter
  <2> QED
    BY <2>1, <1>7, <1>8, Zenon DEF Listed
<1>17. ASSUME NEW w \in Workers PROVE HeldBack(w, worker[w].nodes, k, status)
  <2>1. HeldBack(w, worker[w].nodes, l, status) /\ l[c] = NoNode
    BY <1>3, <1>8, Zenon
  <2> QED
    BY <2>1, <1>7, Zenon DEF HeldBack
<1> QED
  BY <1>2, <1>3, <1>5, <1>6, <1>8, <1>9, <1>10, <1>11, <1>12, <1>13, <1>14, <1>15, <1>16, <1>17, Zenon
  DEF LifecycleInv, k

\* stopNode takes one node out of the NodeHost's map.
LEMMA StopKeeps ==
    ASSUME LifecycleInv, NEW c \in Clusters, StopNode(c), started' = started
    PROVE  LifecycleInv'
<1> DEFINE l == nodehost.clusters
           i == l[c]
<1>1. /\ nodehost \in NodeHostType /\ started \in Nat /\ worker \in [Workers -> WorkerType]
      /\ status \in [Incarnations -> StatusType]
      /\ \A w \in Workers : worker[w].changed => worker[w].reading
  BY Zenon DEF LifecycleInv, LifecycleTyped
<1>2. l \in NodeMap /\ \A w \in Workers : worker[w].nodes \in NodeMap
  BY <1>1, Zenon DEF NodeHostType, WorkerType
<1>3. CASE i = NoNode
  BY <1>3 DEF StopNode, LifecycleInv, LifecycleTyped
<1>4. CASE i # NoNode
  <2>1. /\ nodehost' = [nodehost EXCEPT !.clusters[c] = NoNode] /\ NextClusterSetIndex
        /\ status' = [status EXCEPT ![i] = SetOffloaded([status[i] EXCEPT !.stopc = TRUE],
                                                        "nodehost")]
    BY <1>4, Zenon DEF StopNode
  <2>2. i \in Incarnations
    BY <1>2, <1>4, NodeFacts, Zenon
  <2>3. /\ nodehost' \in NodeHostType /\ nodehost'.clusters = [l EXCEPT ![c] = NoNode]
        /\ nodehost'.stopped = nodehost.stopped
        /\ nodehost'.engineStopped = nodehost.engineStopped
    BY <1>1, <2>1, Zenon DEF NodeHostType, NodeMap
  <2>4. /\ worker' \in [Workers -> WorkerType]
        /\ \A w \in Workers : /\ worker'[w].nodes = worker[w].nodes
                              /\ worker'[w].changed => worker'[w].reading
    BY <1>1, <2>1, NextIndexFacts, Zenon
  <2> DEFINE k == nodehost'.clusters
             s == [status[i] EXCEPT !.stopc = TRUE]
             t == SetOffloaded(s, "nodehost")
  <2>5. k \in NodeMap /\ k[c] = NoNode /\ \A d \in Clusters : d # c => k[d] = l[d]
    BY <1>2, <2>3, Zenon DEF NodeMap
  <2>6. /\ s \in StatusType /\ s.loaded = status[i].loaded
        /\ s.offloaded = status[i].offloaded /\ s.destroyed = status[i].destroyed
    BY <1>1, <2>2, Zenon DEF StatusType
  <2>7. /\ UpTo(l, started) /\ \A w \in Workers : UpTo(worker[w].nodes, started)
        /\ SameCluster(l, l) /\ \A w \in Workers : SameCluster(worker[w].nodes, l)
        /\ \A v, w \in Workers : SameCluster(worker[v].nodes, worker[w].nodes)
        /\ Listed(l, status) /\ \A w \in Workers : HeldBack(w, worker[w].nodes, l, status)
        /\ FreshAfter(status, started)
        /\ \A j \in Incarnations : InOrder(status[j])
        /\ nodehost.engineStopped => nodehost.stopped /\ \A d \in Clusters : l[d] = NoNode
    BY Zenon DEF LifecycleInv
  <2> HIDE DEF s
  <2>8. InOrder(s)
    BY <2>2, <2>6, <2>7, Zenon DEF InOrder
  <2>9. /\ t \in StatusType /\ t.loaded = s.loaded
        /\ t.offloaded = s.offloaded \cup {"nodehost"} \cup (Workers \ s.loaded)
    BY <2>6, OffloadFacts, Zenon DEF Everybody, OffloadedWith
  <2>10. InOrder(t)
    BY <2>6, <2>8, OffloadInOrder, Zenon DEF Everybody
  <2>11. status' = [status EXCEPT ![i] = t]
    BY <2>1, Zenon DEF s
  <2> HIDE DEF t, k, l, i
  <2>12. /\ status' \in [Incarnations -> StatusType] /\ status'[i] = t
         /\ \A j \in Incarnations : j # i => status'[j] = status[j]
    BY <1>1, <2>2, <2>9, <2>11, Zenon
  <2>13. LifecycleTyped'
    BY <1>1, <2>3, <2>4, <2>12, Zenon DEF LifecycleTyped
  <2>14. UpTo(k, started) /\ UpTo(l, started) /\ i <= started
    BY <1>1, <2>5, <2>7 DEF UpTo, NoNode, i
  <2>15. FreshAfter(status', started)
    <3>1. ~ i > started
      BY <1>1, <2>2, <2>14 DEF Incarnations
    <3> QED
      BY <3>1, <2>7, <2>12, Zenon DEF FreshAfter
  <2>16. /\ SameCluster(k, k)
         /\ \A w \in Workers : SameCluster(worker[w].nodes, k)
    BY <2>5, <2>7 DEF SameCluster
  <2>17. Listed(k, status')
    <3>1. ASSUME NEW d \in Clusters, k[d] # NoNode
          PROVE  "nodehost" \notin status'[k[d]].offloaded
      <4>1. d # c /\ k[d] = l[d] /\ l[d] \in Incarnations
        BY <3>1, <2>5, <1>2, NodeFacts, Zenon
      <4>2. l[d] # i
        BY <4>1, <3>1, <2>7, Zenon DEF SameCluster, i
      <4> QED
        BY <4>1, <4>2, <3>1, <2>7, <2>12, Zenon DEF Listed
    <3> QED
      BY <3>1, Zenon DEF Listed
  <2>18. ASSUME NEW w \in Workers PROVE HeldBack(w, worker[w].nodes, k, status')
    <3> DEFINE m == worker[w].nodes
    <3>1. m \in NodeMap /\ HeldBack(w, m, l, status)
      BY <1>2, <2>7, Zenon
    <3> HIDE DEF m
    <3>2. ASSUME NEW d \in Clusters, m[d] # NoNode
          PROVE  /\ w \in status'[m[d]].loaded /\ w \notin status'[m[d]].offloaded
                 /\ k[d] = m[d] \/ "nodehost" \in status'[m[d]].offloaded
      <4>1. /\ w \in status[m[d]].loaded /\ w \notin status[m[d]].offloaded
            /\ l[d] = m[d] \/ "nodehost" \in status[m[d]].offloaded
        BY <3>1, <3>2, Zenon DEF HeldBack
      <4>2. m[d] \in Incarnations
        BY <3>1, <3>2, NodeFacts, Zenon
      <4>3. CASE m[d] = i
        <5>1. w # "nodehost"
          BY LifecycleAssumption, Zenon
        <5> QED
          BY <4>1, <4>3, <5>1, <2>6, <2>9, <2>12, Zenon
      <4>4. CASE m[d] # i
        <5>1. d = c => l[d] # m[d]
          BY <4>4, Zenon DEF i
        <5> QED
          BY <4>1, <4>2, <4>4, <5>1, <2>5, <2>12, Zenon
      <4> QED
        BY <4>3, <4>4, Zenon
    <3> QED
      BY <3>2, Zenon DEF HeldBack, m
  <2>19. \A j \in Incarnations : InOrder(status'[j])
    BY <2>7, <2>10, <2>12, Zenon
  <2>20. nodehost'.engineStopped => nodehost'.stopped /\ \A d \in Clusters : k[d] = NoNode
    BY <2>3, <2>5, <2>7, Zenon
  <2> QED
    BY <2>4, <2>7, <2>13, <2>14, <2>15, <2>16, <2>17, <2>18, <2>19, <2>20, Zenon
    DEF LifecycleInv, k
<1> QED
  BY <1>3, <1>4, Zenon

\* Offloads, entry by entry.
LEMMA OffloadsFacts ==
    ASSUME NEW st \in [Incarnations -> StatusType], NEW w \in Workers, NEW nodes
    PROVE  /\ Offloads(st, w, nodes) \in [Incarnations -> StatusType]
           /\ \A i \in Incarnations :
                  /\ Offloads(st, w, nodes)[i].loaded = st[i].loaded
                  /\ i \notin nodes => Offloads(st, w, nodes)[i] = st[i]
                  /\ i \in nodes =>
                        /\ Offloads(st, w, nodes)[i] = SetOffloaded(st[i], w)
                        /\ Offloads(st, w, nodes)[i].offloaded = st[i].offloaded \cup {w}
<1> DEFINE os == Offloads(st, w, nodes)
<1>1. ASSUME NEW i \in Incarnations
      PROVE  /\ SetOffloaded(st[i], w) \in StatusType
             /\ SetOffloaded(st[i], w).loaded = st[i].loaded
             /\ SetOffloaded(st[i], w).offloaded = st[i].offloaded \cup {w}
  <2>1. st[i] \in StatusType /\ w \in Everybody /\ w # "nodehost"
    BY LifecycleAssumption, Zenon DEF Everybody
  <2>2. OffloadedWith(st[i], w) = st[i].offloaded \cup {w}
    BY <2>1, Zenon DEF OffloadedWith
  <2> QED
    BY <2>1, <2>2, OffloadFacts, Zenon
<1>2. os = [i \in Incarnations |-> IF i \in nodes THEN SetOffloaded(st[i], w) ELSE st[i]]
  BY Zenon DEF Offloads
<1> HIDE DEF os
<1> QED
  BY <1>1, <1>2, Zenon DEF os

\* A worker lets go of nodes the NodeHost has let go of.
LEMMA OffloadsKeep ==
    ASSUME NEW st \in [Incarnations -> StatusType], NEW w \in Workers, NEW nodes,
           \A i \in Incarnations : InOrder(st[i]),
           \A i \in Incarnations : i \in nodes => "nodehost" \in st[i].offloaded
    PROVE  \A i \in Incarnations : InOrder(Offloads(st, w, nodes)[i])
<1> SUFFICES ASSUME NEW i \in Incarnations PROVE InOrder(Offloads(st, w, nodes)[i])
  BY Zenon
<1>1. CASE i \in nodes
  <2>1. Offloads(st, w, nodes)[i] = SetOffloaded(st[i], w)
    BY <1>1, OffloadsFacts
  <2>2. st[i] \in StatusType /\ w \in Everybody /\ InOrder(st[i])
        /\ "nodehost" \in st[i].offloaded
    BY <1>1, Zenon DEF Everybody
  <2> QED
    BY <2>1, <2>2, OffloadInOrder, Zenon
<1>2. CASE i \notin nodes
  <2>1. Offloads(st, w, nodes)[i] = st[i]
    BY <1>2, OffloadsFacts
  <2> QED
    BY <2>1, Zenon
<1> QED
  BY <1>1, <1>2, Zenon

\* SetLoaded changes who has loaded the node, and nothing else.
LEMMA LoadedFacts ==
    ASSUME NEW s \in StatusType, NEW w \in Workers
    PROVE  /\ SetLoaded(s, w) \in StatusType /\ SetLoaded(s, w).loaded = s.loaded \cup {w}
           /\ SetLoaded(s, w).offloaded = s.offloaded
           /\ InOrder(s) => InOrder(SetLoaded(s, w))
<1> DEFINE t == [s EXCEPT !.loaded = @ \cup {w}]
<1>1. t = SetLoaded(s, w)
  BY Zenon DEF SetLoaded
<1>2. /\ t \in StatusType /\ t.loaded = s.loaded \cup {w}
      /\ t.offloaded = s.offloaded /\ t.destroyed = s.destroyed
  BY Zenon DEF StatusType
<1> HIDE DEF t
<1> QED
  BY <1>1, <1>2, Zenon DEF InOrder

\* What a step of worker w must show of the map it now holds: the statuses
\* only say more about w.
LEMMA WorkerKeeps ==
    ASSUME LifecycleInv, NEW w \in Workers, UNCHANGED <<nodehost, started>>,
           worker' \in [Workers -> WorkerType],
           \A v \in Workers : v # w => worker'[v] = worker[v],
           worker'[w].changed => worker'[w].reading,
           status' \in [Incarnations -> StatusType],
           \A i \in Incarnations : /\ InOrder(status'[i])
                                   /\ status[i].loaded \subseteq status'[i].loaded
                                   /\ status[i].offloaded \subseteq status'[i].offloaded
                                   /\ status'[i].offloaded \subseteq status[i].offloaded \cup {w}
                                   /\ i > started => status'[i].offloaded = {},
           UpTo(worker'[w].nodes, started),
           SameCluster(worker'[w].nodes, nodehost.clusters),
           \A v \in Workers : SameCluster(worker'[w].nodes, worker[v].nodes),
           SameCluster(worker'[w].nodes, worker'[w].nodes),
           HeldBack(w, worker'[w].nodes, nodehost.clusters, status')
    PROVE  LifecycleInv'
<1> DEFINE l == nodehost.clusters
           x == worker'[w]
           st == status'
<1>1. /\ nodehost \in NodeHostType /\ started \in Nat /\ worker \in [Workers -> WorkerType]
      /\ \A v \in Workers : worker[v].changed => worker[v].reading
  BY Zenon DEF LifecycleInv, LifecycleTyped
<1>2. l \in NodeMap /\ \A v \in Workers : worker[v].nodes \in NodeMap
  BY <1>1, Zenon DEF NodeHostType, WorkerType
<1>3. /\ worker' \in [Workers -> WorkerType] /\ worker'[w] = x
      /\ \A v \in Workers : v # w => worker'[v] = worker[v]
  BY Zenon
<1>4. LifecycleTyped'
  BY <1>1, <1>3, Zenon DEF LifecycleTyped
<1>5. /\ UpTo(l, started) /\ \A v \in Workers : UpTo(worker'[v].nodes, started)
      /\ FreshAfter(st, started)
  BY <1>3, Zenon DEF LifecycleInv, FreshAfter
<1>6. /\ SameCluster(l, l) /\ \A v \in Workers : SameCluster(worker'[v].nodes, l)
  BY <1>3, Zenon DEF LifecycleInv
<1>7. \A u, v \in Workers : SameCluster(worker'[u].nodes, worker'[v].nodes)
  <2>1. \A u, v \in Workers : SameCluster(worker[u].nodes, worker[v].nodes)
    BY Zenon DEF LifecycleInv
  <2>2. \A v \in Workers : SameCluster(worker[v].nodes, x.nodes)
    BY Zenon DEF SameCluster
  <2> QED
    BY <1>3, <2>1, <2>2, Zenon
<1>8. Listed(l, st)
  <2>1. ASSUME NEW c \in Clusters, l[c] # NoNode PROVE "nodehost" \notin st[l[c]].offloaded
    <3>1. l[c] \in Incarnations /\ w # "nodehost"
      BY <1>2, <2>1, NodeFacts, LifecycleAssumption, Zenon
    <3>2. "nodehost" \notin status[l[c]].offloaded
      BY <2>1, Zenon DEF LifecycleInv, Listed
    <3> QED
      BY <3>1, <3>2, Zenon
  <2> QED
    BY <2>1, Zenon DEF Listed
<1>9. ASSUME NEW v \in Workers PROVE HeldBack(v, worker'[v].nodes, l, st)
  <2>1. CASE v = w
    BY <2>1, <1>3, Zenon
  <2>2. CASE v # w
    <3> DEFINE m == worker[v].nodes
    <3>1. m \in NodeMap /\ HeldBack(v, m, l, status) /\ worker'[v].nodes = m
      BY <2>2, <1>2, <1>3, Zenon DEF LifecycleInv
    <3> HIDE DEF m
    <3>2. ASSUME NEW d \in Clusters, m[d] # NoNode
          PROVE  /\ v \in st[m[d]].loaded /\ v \notin st[m[d]].offloaded
                 /\ l[d] = m[d] \/ "nodehost" \in st[m[d]].offloaded
      <4>1. /\ v \in status[m[d]].loaded /\ v \notin status[m[d]].offloaded
            /\ l[d] = m[d] \/ "nodehost" \in status[m[d]].offloaded
        BY <3>1, <3>2, Zenon DEF HeldBack
      <4>2. m[d] \in Incarnations
        BY <3>1, <3>2, NodeFacts, Zenon
      <4> QED
        BY <4>1, <4>2, <2>2, ZenonT(60)
    <3> QED
      BY <3>1, <3>2, Zenon DEF HeldBack
  <2> QED
    BY <2>1, <2>2, Zenon
<1> QED
  BY <1>4, <1>5, <1>6, <1>7, <1>8, <1>9, Zenon DEF LifecycleInv

\* loadBucketNodes: the worker takes over the NodeHost's map.
LEMMA LoadKeeps ==
    ASSUME LifecycleInv, NEW w \in Workers, LoadNodes(w)
    PROVE  LifecycleInv'
<1> DEFINE l == nodehost.clusters
           m == worker[w].nodes
           loaded == {l[c] : c \in Clusters}
           gone == LetGo(m, l)
           mid == [i \in Incarnations |-> IF i \in loaded THEN SetLoaded(status[i], w)
                                          ELSE status[i]]
           st == Offloads(mid, w, gone)
           x == [NothingLoaded EXCEPT !.nodes = l, !.stale = worker[w].changed]
<1>1. /\ nodehost \in NodeHostType /\ started \in Nat /\ worker \in [Workers -> WorkerType]
      /\ status \in [Incarnations -> StatusType]
  BY Zenon DEF LifecycleInv, LifecycleTyped
<1>2. l \in NodeMap /\ m \in NodeMap
  BY <1>1, Zenon DEF NodeHostType, WorkerType
<1>3. status' = st /\ worker' = [worker EXCEPT ![w] = x] /\ UNCHANGED <<nodehost, started>>
  BY Zenon DEF LoadNodes
<1>4. x \in WorkerType /\ x.nodes = l /\ (x.changed => x.reading)
  <2>1. worker[w].changed \in BOOLEAN
    BY <1>1, Zenon DEF WorkerType
  <2> HIDE DEF l
  <2> QED
    BY <1>2, <2>1, Zenon DEF NothingLoaded, WorkerType
<1>5. /\ mid \in [Incarnations -> StatusType]
      /\ \A i \in Incarnations :
             /\ mid[i].offloaded = status[i].offloaded
             /\ mid[i].loaded = status[i].loaded \cup (IF i \in loaded THEN {w} ELSE {})
             /\ InOrder(mid[i])
  <2>1. ASSUME NEW i \in Incarnations
        PROVE  /\ SetLoaded(status[i], w) \in StatusType /\ status[i] \in StatusType
               /\ SetLoaded(status[i], w).loaded = status[i].loaded \cup {w}
               /\ SetLoaded(status[i], w).offloaded = status[i].offloaded
               /\ InOrder(status[i]) /\ InOrder(SetLoaded(status[i], w))
    <3>1. status[i] \in StatusType /\ InOrder(status[i])
      BY <1>1, Zenon DEF LifecycleInv
    <3> QED
      BY <3>1, LoadedFacts, Zenon
  <2> HIDE DEF loaded
  <2> QED
    BY <2>1, Zenon
<1>6. \A i \in Incarnations : i \in gone => "nodehost" \in mid[i].offloaded
  <2> SUFFICES ASSUME NEW i \in Incarnations, i \in gone
               PROVE  "nodehost" \in status[i].offloaded
    BY <1>5, Zenon
  <2>1. PICK c \in Clusters : l[c] = NoNode /\ m[c] = i
    BY Zenon DEF LetGo
  <2>2. HeldBack(w, m, l, status) /\ m[c] # NoNode
    BY <2>1, NoNodeFacts, Zenon DEF LifecycleInv
  <2> QED
    BY <2>1, <2>2, Zenon DEF HeldBack
<1>7. \A c \in Clusters : l[c] # NoNode => l[c] \notin gone
  <2> SUFFICES ASSUME NEW c \in Clusters, l[c] # NoNode, l[c] \in gone PROVE FALSE
    BY Zenon
  <2>1. PICK d \in Clusters : l[d] = NoNode /\ m[d] = l[c]
    BY Zenon DEF LetGo
  <2>2. SameCluster(m, l)
    BY Zenon DEF LifecycleInv
  <2> QED
    BY <2>1, <2>2, Zenon DEF SameCluster
<1> HIDE DEF mid, gone
<1>8. /\ st \in [Incarnations -> StatusType]
      /\ \A i \in Incarnations :
             /\ st[i].loaded = mid[i].loaded
             /\ i \notin gone => st[i] = mid[i]
             /\ i \in gone => st[i].offloaded = mid[i].offloaded \cup {w}
  BY <1>5, OffloadsFacts
<1>9. \A i \in Incarnations : InOrder(st[i])
  BY <1>5, <1>6, OffloadsKeep, Zenon
<1> HIDE DEF st
<1>10. \A i \in Incarnations : /\ status[i].loaded \subseteq st[i].loaded
                               /\ status[i].offloaded \subseteq st[i].offloaded
                               /\ st[i].offloaded \subseteq status[i].offloaded \cup {w}
  BY <1>5, <1>8, Zenon
<1>11. \A i \in Incarnations : i > started => st[i].offloaded = {}
  <2> SUFFICES ASSUME NEW i \in Incarnations, i > started PROVE st[i].offloaded = {}
    BY Zenon
  <2>1. status[i].offloaded = {}
    BY Zenon DEF LifecycleInv, FreshAfter
  <2>2. i \notin gone
    BY <2>1, <1>5, <1>6, Zenon
  <2> QED
    BY <2>1, <2>2, <1>5, <1>8, Zenon
<1>12. /\ UpTo(l, started) /\ SameCluster(l, l)
       /\ \A v \in Workers : SameCluster(worker[v].nodes, l)
  BY Zenon DEF LifecycleInv
<1>13. \A v \in Workers : SameCluster(l, worker[v].nodes)
  BY <1>12, Zenon DEF SameCluster
<1>14. HeldBack(w, l, l, st)
  <2>1. ASSUME NEW c \in Clusters, l[c] # NoNode
        PROVE  w \in st[l[c]].loaded /\ w \notin st[l[c]].offloaded
    <3>1. l[c] \in Incarnations /\ l[c] \in loaded
      BY <1>2, <2>1, NodeFacts, Zenon
    <3>2. "nodehost" \notin status[l[c]].offloaded /\ InOrder(status[l[c]])
      BY <2>1, <3>1, Zenon DEF LifecycleInv, Listed
    <3>3. w \notin status[l[c]].offloaded
      BY <3>2, Zenon DEF InOrder
    <3>4. st[l[c]] = mid[l[c]] /\ w \in mid[l[c]].loaded
      BY <3>1, <2>1, <1>5, <1>7, <1>8, Zenon
    <3> QED
      BY <3>1, <3>3, <3>4, <1>5, Zenon
  <2> QED
    BY <2>1, Zenon DEF HeldBack
<1> HIDE DEF x
<1>15. /\ worker' \in [Workers -> WorkerType] /\ worker'[w] = x
       /\ \A v \in Workers : v # w => worker'[v] = worker[v]
  BY <1>1, <1>3, <1>4, Zenon
<1> QED
  BY <1>3, <1>4, <1>8, <1>9, <1>10, <1>11, <1>12, <1>13, <1>14, <1>15, WorkerKeeps

\* offloadNodeMap: the engine is stopped after every node was.
LEMMA ExitKeeps ==
    ASSUME LifecycleInv, NEW w \in Workers, ExitWorker(w)
    PROVE  LifecycleInv'
<1> DEFINE l == nodehost.clusters
           m == worker[w].nodes
           nodes == {m[c] : c \in Clusters}
           st == Offloads(status, w, nodes)
           none == [c \in Clusters |-> NoNode]
<1>1. /\ nodehost \in NodeHostType /\ started \in Nat /\ worker \in [Workers -> WorkerType]
      /\ status \in [Incarnations -> StatusType]
  BY Zenon DEF LifecycleInv, LifecycleTyped
<1>2. l \in NodeMap /\ m \in NodeMap
  BY <1>1, Zenon DEF NodeHostType, WorkerType
<1>3. /\ nodehost.engineStopped /\ status' = st
      /\ worker' = [worker EXCEPT ![w] = NothingLoaded] /\ UNCHANGED <<nodehost, started>>
  BY Zenon DEF ExitWorker
<1>4. none \in NodeMap /\ \A c \in Clusters : none[c] = NoNode
  BY Zenon DEF NodeMap
<1>5. /\ NothingLoaded \in WorkerType /\ NothingLoaded.nodes = none
      /\ (NothingLoaded.changed => NothingLoaded.reading)
  BY <1>4, Zenon DEF NothingLoaded, WorkerType
<1>6. \A i \in Incarnations : i \in nodes => "nodehost" \in status[i].offloaded
  <2> SUFFICES ASSUME NEW c \in Clusters, m[c] \in Incarnations
               PROVE  "nodehost" \in status[m[c]].offloaded
    BY Zenon
  <2>1. HeldBack(w, m, l, status) /\ m[c] # NoNode /\ l[c] = NoNode
    BY <1>3, NoNodeFacts, Zenon DEF LifecycleInv
  <2> QED
    BY <2>1, Zenon DEF HeldBack
<1>7. \A i \in Incarnations : InOrder(status[i])
  BY Zenon DEF LifecycleInv
<1> HIDE DEF nodes, none
<1>8. /\ st \in [Incarnations -> StatusType]
      /\ \A i \in Incarnations :
             /\ st[i].loaded = status[i].loaded
             /\ i \notin nodes => st[i] = status[i]
             /\ i \in nodes => st[i].offloaded = status[i].offloaded \cup {w}
  BY <1>1, OffloadsFacts
<1>9. \A i \in Incarnations : InOrder(st[i])
  BY <1>1, <1>6, <1>7, OffloadsKeep, Zenon
<1> HIDE DEF st
<1>10. \A i \in Incarnations : /\ status[i].loaded \subseteq st[i].loaded
                               /\ status[i].offloaded \subseteq st[i].offloaded
                               /\ st[i].offloaded \subseteq status[i].offloaded \cup {w}
  BY <1>8, Zenon
<1>11. \A i \in Incarnations : i > started => st[i].offloaded = {}
  BY <1>6, <1>8, Zenon DEF LifecycleInv, FreshAfter
<1>12. /\ UpTo(none, started) /\ SameCluster(none, none) /\ SameCluster(none, l)
       /\ \A v \in Workers : SameCluster(none, worker[v].nodes)
       /\ HeldBack(w, none, l, st)
  BY <1>1, <1>4 DEF UpTo, SameCluster, HeldBack, NoNode
<1>13. /\ worker' \in [Workers -> WorkerType] /\ worker'[w] = NothingLoaded
       /\ \A v \in Workers : v # w => worker'[v] = worker[v]
  BY <1>1, <1>3, <1>5, Zenon
<1> QED
  BY <1>3, <1>5, <1>8, <1>9, <1>10, <1>11, <1>12, <1>13, WorkerKeeps, Zenon

\* closeStoppedClusters only finds clusters of the NodeHost.
MonitorTyped == monitor \subseteq Clusters

LEMMA MonitorNext == MonitorTyped /\ [LifecycleNext]_lifecycleVars => MonitorTyped'
  BY Zenon DEF MonitorTyped, LifecycleNext, lifecycleVars, StartCluster, StopCluster,
         RequestRemoval, StopNodeHost, MonitorStep, StopFound, FindStopped, WorkerStep,
         ReadClusterSetIndex, LoadNodes, ExitWorker, StepVote

LEMMA LifecycleInvNext ==
    LifecycleInv /\ MonitorTyped /\ [LifecycleNext]_lifecycleVars => LifecycleInv'
<1> SUFFICES ASSUME LifecycleInv, MonitorTyped, [LifecycleNext]_lifecycleVars
             PROVE  LifecycleInv'
  BY Zenon
<1>1. /\ nodehost \in NodeHostType /\ started \in Nat /\ worker \in [Workers -> WorkerType]
      /\ status \in [Incarnations -> StatusType]
  BY Zenon DEF LifecycleInv, LifecycleTyped
<1>2. ASSUME UNCHANGED <<nodehost, started, worker, status>> PROVE LifecycleInv'
  BY <1>2, Zenon DEF LifecycleInv, LifecycleTyped
<1>3. ASSUME NEW c \in Clusters, StopCluster(c) PROVE LifecycleInv'
  BY <1>3, StopKeeps, Zenon DEF StopCluster
<1>4. ASSUME NEW c \in Clusters, RequestRemoval(c) PROVE LifecycleInv'
  <2> DEFINE i == nodehost.clusters[c]
             t == [status[i] EXCEPT !.stopc = TRUE]
  <2>1. /\ status' = [status EXCEPT ![i] = t] /\ UNCHANGED <<nodehost, started, worker>>
        /\ i \in Incarnations
    <3>1. nodehost.clusters \in NodeMap
      BY <1>1, Zenon DEF NodeHostType
    <3> QED
      BY <1>1, <1>4, <3>1, NodeFacts, Zenon DEF RequestRemoval
  <2>2. /\ t \in StatusType /\ t.loaded = status[i].loaded
        /\ t.offloaded = status[i].offloaded /\ t.destroyed = status[i].destroyed
    BY <1>1, <2>1, Zenon DEF StatusType
  <2> HIDE DEF t, i
  <2>3. /\ status' \in [Incarnations -> StatusType]
        /\ \A j \in Incarnations : /\ status'[j].loaded = status[j].loaded
                                   /\ status'[j].offloaded = status[j].offloaded
                                   /\ status'[j].destroyed = status[j].destroyed
    BY <1>1, <2>1, <2>2, Zenon
  <2>4. LifecycleTyped'
    BY <2>1, <2>3, Zenon DEF LifecycleInv, LifecycleTyped
  <2>5. /\ FreshAfter(status', started)
        /\ \A j \in Incarnations : InOrder(status'[j])
    BY <2>3, Zenon DEF LifecycleInv, FreshAfter, InOrder
  <2>6. \A m \in NodeMap, d \in Clusters : m[d] # NoNode => m[d] \in Incarnations
    BY NodeFacts, Zenon
  <2>7. nodehost.clusters \in NodeMap /\ \A w \in Workers : worker[w].nodes \in NodeMap
    BY <1>1, Zenon DEF NodeHostType, WorkerType
  <2>8. Listed(nodehost.clusters, status')
    BY <2>3, <2>6, <2>7, Zenon DEF LifecycleInv, Listed
  <2>9. \A w \in Workers : HeldBack(w, worker[w].nodes, nodehost.clusters, status')
    BY <2>3, <2>6, <2>7, Zenon DEF LifecycleInv, HeldBack
  <2> QED
    BY <2>1, <2>4, <2>5, <2>8, <2>9, Zenon DEF LifecycleInv
<1>5. ASSUME StopNodeHost PROVE LifecycleInv'
  <2>1. /\ nodehost' \in NodeHostType /\ nodehost'.clusters = nodehost.clusters
        /\ nodehost'.engineStopped =>
               nodehost'.stopped /\ \A c \in Clusters : nodehost.clusters[c] = NoNode
    <3>1. CASE ~ nodehost.stopped /\ nodehost' = [nodehost EXCEPT !.stopped = TRUE]
      BY <1>1, <3>1, Zenon DEF NodeHostType, LifecycleInv
    <3>2. CASE /\ nodehost.stopped /\ \A c \in Clusters : nodehost.clusters[c] = NoNode
               /\ nodehost' = [nodehost EXCEPT !.engineStopped = TRUE]
      BY <1>1, <3>2, Zenon DEF NodeHostType, LifecycleInv
    <3> QED
      BY <1>5, <3>1, <3>2, Zenon DEF StopNodeHost
  <2>2. UNCHANGED <<started, worker, status>>
    BY <1>5, Zenon DEF StopNodeHost
  <2> QED
    BY <2>1, <2>2, Zenon DEF LifecycleInv, LifecycleTyped
<1>6. ASSUME StopFound PROVE LifecycleInv'
  <2>1. PICK c \in monitor : StopNode(c)
    BY <1>6, Zenon DEF StopFound
  <2>2. started' = started
    BY <1>6, Zenon DEF StopFound
  <2> QED
    BY <2>1, <2>2, StopKeeps, Zenon DEF MonitorTyped
<1>7. ASSUME NEW w \in Workers, ReadClusterSetIndex(w) PROVE LifecycleInv'
  <2> DEFINE x == [worker[w] EXCEPT !.reading = TRUE]
  <2>1. /\ worker' = [worker EXCEPT ![w] = x] /\ UNCHANGED <<nodehost, started, status>>
    BY <1>1, <1>7, Zenon DEF ReadClusterSetIndex
  <2>2. x \in WorkerType /\ x.nodes = worker[w].nodes /\ (x.changed => x.reading)
    BY <1>1, Zenon DEF WorkerType
  <2> HIDE DEF x
  <2>4. /\ worker' \in [Workers -> WorkerType] /\ worker'[w] = x
        /\ \A v \in Workers : v # w => worker'[v] = worker[v]
    BY <1>1, <2>1, <2>2, Zenon
  <2>3. /\ UpTo(x.nodes, started) /\ SameCluster(x.nodes, nodehost.clusters)
        /\ SameCluster(x.nodes, x.nodes)
        /\ \A v \in Workers : SameCluster(x.nodes, worker[v].nodes)
        /\ HeldBack(w, x.nodes, nodehost.clusters, status)
        /\ \A i \in Incarnations : InOrder(status[i])
        /\ \A i \in Incarnations : i > started => status[i].offloaded = {}
    BY <2>2, Zenon DEF LifecycleInv, FreshAfter
  <2> QED
    BY <1>1, <2>1, <2>2, <2>3, <2>4, WorkerKeeps
<1>8. CASE UNCHANGED lifecycleVars
  BY <1>2, <1>8, Zenon DEF lifecycleVars
<1>9. ASSUME NEW c \in Clusters, FindStopped(c) PROVE LifecycleInv'
  BY <1>2, <1>9, Zenon DEF FindStopped
<1>10. ASSUME NEW c \in Clusters, NEW v \in Candidates, StepVote(c, v) PROVE LifecycleInv'
  BY <1>2, <1>10, Zenon DEF StepVote
<1> QED
  BY <1>3, <1>4, <1>5, <1>6, <1>7, <1>8, <1>9, <1>10, StartKeeps, LoadKeeps, ExitKeeps, Zenon
  DEF LifecycleNext, MonitorStep, WorkerStep

LEMMA LifecycleInvIsEnough == LifecycleInv => LifecycleSafe
<1> SUFFICES ASSUME LifecycleInv PROVE LifecycleSafe
  BY Zenon
<1>1. /\ nodehost \in NodeHostType /\ worker \in [Workers -> WorkerType]
      /\ status \in [Incarnations -> StatusType]
      /\ \A w \in Workers : worker[w].changed => worker[w].reading
  BY Zenon DEF LifecycleInv, LifecycleTyped
<1>2. nodehost.clusters \in NodeMap /\ \A w \in Workers : worker[w].nodes \in NodeMap
  BY <1>1, Zenon DEF NodeHostType, WorkerType
<1>3. LifecycleTypeOK
  <2>1. \A i \in Incarnations : status[i].loaded \subseteq Workers
    BY <1>1, Zenon DEF StatusType
  <2> QED
    BY <1>1, <1>2, <2>1, Zenon DEF LifecycleTypeOK, NodeMap
<1>4. ClosedOnlyWhenUnused
  <2> SUFFICES ASSUME NEW i \in Incarnations, status[i].destroyed, NEW c \in Clusters
               PROVE  /\ nodehost.clusters[c] # i
                      /\ \A w \in Workers : worker[w].nodes[c] # i
    BY Zenon DEF ClosedOnlyWhenUnused
  <2>1. status[i].offloaded = Workers \cup {"nodehost"} /\ i # NoNode
    BY NoNodeFacts, Zenon DEF LifecycleInv, InOrder
  <2>2. nodehost.clusters[c] # i
    BY <2>1, Zenon DEF LifecycleInv, Listed
  <2>3. \A w \in Workers : worker[w].nodes[c] # i
    BY <2>1, Zenon DEF LifecycleInv, HeldBack
  <2> QED
    BY <2>2, <2>3, Zenon
<1>5. LoadedWhileListed
  BY Zenon DEF LifecycleInv, Listed, LoadedWhileListed
<1> QED
  BY <1>3, <1>4, <1>5, Zenon DEF LifecycleSafe

\* With any number of clusters, kinds of worker and restarts: OffloadedStatus
\* closes a user's state machine only when neither the NodeHost's map nor the
\* map of any worker has the node, however starts, stops, removals and the
\* workers' reloads interleave; and a worker only loads nodes the NodeHost
\* has not offloaded, so that SetLoaded does not panic.
THEOREM LifecycleIsSafe == LifecycleSpec => []LifecycleSafe
<1>1. LifecycleInit => LifecycleInv /\ MonitorTyped
  BY LifecycleInvInit, Zenon DEF LifecycleInit, MonitorTyped
<1>2. LifecycleInv /\ MonitorTyped /\ [LifecycleNext]_lifecycleVars
          => LifecycleInv' /\ MonitorTyped'
  BY LifecycleInvNext, MonitorNext, Zenon
<1>3. LifecycleInv => LifecycleSafe
  BY LifecycleInvIsEnough, Zenon
<1> QED
  BY <1>1, <1>2, <1>3, PTL DEF LifecycleSpec

=============================================================================
