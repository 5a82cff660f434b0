-------------------------- MODULE QueueClassProofs --------------------------
(***************************************************************************)
(* The queue class, for every size of ring, head and entries, any number   *)
(* of clients and entries, as long as an enqueue brings one entry: the     *)
(* ring, read through a listing, is a bounded first-in first-out queue.    *)
(*                                                                         *)
(* The bytes of the ring are counted from the front: byte d of the ring is *)
(* at MarkerAt(ring, d), where the wrap around the end of the object is.   *)
(* An inductive invariant says that entries lie in the ring one behind the *)
(* other (Layout), byte by byte and up to the tail (Holds), and that the   *)
(* marker a client keeps is where an entry starts, or behind the front.    *)
(* What a listing returns follows from these: its recursion over headers   *)
(* has exactly one solution on such a ring.                                *)
(***************************************************************************)
EXTENDS QueueClass, WellFoundedInduction, SequenceTheorems, TLAPS

\* The marker of the byte d bytes behind the front.
MarkerAt(ring, d) ==
    IF ring.front.offset + d < QueueSize
    THEN [gen |-> ring.front.gen, offset |-> ring.front.offset + d]
    ELSE [gen |-> ring.front.gen + 1, offset |-> ring.front.offset + d - queue_get_capacity]

\* Entries es one behind the other: entry i starts at byte p[i], and the free bytes
\* start at the last element of p.
Layout(es, p) ==
    /\ es \in Seq(Entry)
    /\ p \in [1 .. Len(es) + 1 -> Nat]
    /\ p[1] = 0
    /\ \A i \in 1 .. Len(es) : p[i + 1] = p[i] + RingLength(es[i])
    /\ \A i, k \in 1 .. Len(es) + 1 : i < k => p[i] < p[k]
    /\ \A d \in Nat : d < p[Len(es) + 1] => \E i \in 1 .. Len(es) : p[i] <= d /\ d < p[i + 1]

\* The ring has a front and holds used bytes of entries.
HasFront(ring) == ring \in Queue /\ ring.front.offset \in Offset
Uses(ring, used) ==
    /\ HasFront(ring)
    /\ used \in 0 .. queue_get_capacity
    /\ ring.tail = MarkerAt(ring, used)

\* Byte j of an entry.
CellOf(e, j) == [id |-> e.id, size |-> e.size, at |-> j]

\* The ring holds exactly the entries es.
Holds(ring, es, p) ==
    /\ Uses(ring, p[Len(es) + 1])
    /\ \A i \in 1 .. Len(es), j \in Nat : j < RingLength(es[i]) =>
           ring.data[MarkerAt(ring, p[i] + j).offset] = CellOf(es[i], j)

-----------------------------------------------------------------------------
(* Markers. *)

\* The sizes of the ring, for the provers.
LEMMA Sizes0 ==
    /\ MaxHeadSize \in Nat /\ MaxHeadSize > 0 /\ QueueSize \in Nat /\ QueueSize > MaxHeadSize
    /\ EntryOverhead \in Nat /\ EntryOverhead > 0
    /\ queue_get_capacity \in Nat /\ queue_get_capacity = QueueSize - MaxHeadSize
BY QueueSizes DEF queue_get_capacity

LEMMA FrontIs ==
    ASSUME NEW ring, HasFront(ring)
    PROVE  /\ ring.front.gen \in Nat /\ ring.front.offset \in Nat
           /\ MaxHeadSize <= ring.front.offset /\ ring.front.offset < QueueSize
           /\ ring.front = [gen |-> ring.front.gen, offset |-> ring.front.offset]
           /\ ring.data \in [Offset -> Cell] /\ ring.tail \in Marker
BY Sizes0 DEF HasFront, Queue, Marker, Offset

LEMMA MarkerFields ==
    ASSUME NEW ring, NEW d
    PROVE  /\ MarkerAt(ring, d).gen = IF ring.front.offset + d < QueueSize THEN ring.front.gen ELSE ring.front.gen + 1
           /\ MarkerAt(ring, d).offset = IF ring.front.offset + d < QueueSize THEN ring.front.offset + d
                                         ELSE ring.front.offset + d - queue_get_capacity
           /\ MarkerAt(ring, d) = [gen |-> MarkerAt(ring, d).gen, offset |-> MarkerAt(ring, d).offset]
<1>1. CASE ring.front.offset + d < QueueSize
  BY <1>1 DEF MarkerAt
<1>2. CASE ~(ring.front.offset + d < QueueSize)
  BY <1>2 DEF MarkerAt
<1> QED
  BY <1>1, <1>2

\* The bytes of the ring have markers, each its own.
LEMMA MarkerIs ==
    ASSUME NEW ring, HasFront(ring), NEW d \in 0 .. queue_get_capacity
    PROVE  /\ MarkerAt(ring, d) \in Marker /\ MarkerAt(ring, d).offset \in Offset
           /\ MarkerAt(ring, d).offset # 0
           /\ WrapMarker(MarkerAt(ring, d)) = MarkerAt(ring, d)
           /\ \A c \in 0 .. queue_get_capacity : MarkerAt(ring, c) = MarkerAt(ring, d) => c = d
<1> DEFINE fo == ring.front.offset
           fg == ring.front.gen
<1>1. d \in Nat /\ d <= queue_get_capacity
  BY Sizes0
<1>2. fg \in Nat /\ fo \in Nat /\ MaxHeadSize <= fo /\ fo < QueueSize
  BY FrontIs
<1>3. \A c : /\ MarkerAt(ring, c).gen = IF fo + c < QueueSize THEN fg ELSE fg + 1
             /\ MarkerAt(ring, c).offset = IF fo + c < QueueSize THEN fo + c ELSE fo + c - queue_get_capacity
  BY MarkerFields
<1> HIDE DEF fo, fg
<1>4. /\ MarkerAt(ring, d).gen \in Nat /\ MarkerAt(ring, d).offset \in Nat
      /\ MaxHeadSize <= MarkerAt(ring, d).offset /\ MarkerAt(ring, d).offset < QueueSize
  BY <1>1, <1>2, <1>3, Sizes0
<1>5. MarkerAt(ring, d) \in Marker
  BY <1>4, MarkerFields DEF Marker
<1>6. ASSUME NEW c \in 0 .. queue_get_capacity, MarkerAt(ring, c) = MarkerAt(ring, d)
      PROVE  c = d
  <2>1. MarkerAt(ring, c).gen = MarkerAt(ring, d).gen /\ MarkerAt(ring, c).offset = MarkerAt(ring, d).offset
    BY <1>6
  <2> QED
    BY <1>1, <1>2, <1>3, <2>1, Sizes0
<1> QED
  BY <1>4, <1>5, <1>6, Sizes0 DEF WrapMarker, Offset

\* The distance between two bytes, going round.
LEMMA DistanceIs ==
    ASSUME NEW ring, HasFront(ring), NEW a \in Nat, NEW b \in Nat,
           a < queue_get_capacity, b < queue_get_capacity
    PROVE  RingDistance(MarkerAt(ring, a).offset, MarkerAt(ring, b).offset) =
               IF b >= a THEN b - a ELSE queue_get_capacity - a + b
<1> DEFINE fo == ring.front.offset
<1>1. fo \in Nat /\ MaxHeadSize <= fo /\ fo < QueueSize
  BY FrontIs
<1>2. \A c : MarkerAt(ring, c).offset = IF fo + c < QueueSize THEN fo + c ELSE fo + c - queue_get_capacity
  BY MarkerFields
<1> HIDE DEF fo
<1> QED
  BY <1>1, <1>2, Sizes0 DEF RingDistance

\* The front is byte 0, and a ring that uses none is the empty one.
LEMMA EmptyIs ==
    ASSUME NEW ring, NEW used, Uses(ring, used)
    PROVE  /\ MarkerAt(ring, 0) = ring.front
           /\ IsEmpty(ring) <=> used = 0
           /\ IsFull(ring) <=> used = queue_get_capacity
<1> DEFINE fo == ring.front.offset
           fg == ring.front.gen
<1>1. MarkerAt(ring, 0) = ring.front
  <2>1. /\ MarkerAt(ring, 0).gen = fg /\ MarkerAt(ring, 0).offset = fo
        /\ MarkerAt(ring, 0) = [gen |-> MarkerAt(ring, 0).gen, offset |-> MarkerAt(ring, 0).offset]
    <3>1. fo \in Nat /\ fo < QueueSize /\ QueueSize \in Nat
      BY FrontIs, Sizes0 DEF Uses
    <3>2. fo + 0 = fo
      BY <3>1
    <3> QED
      BY <3>1, <3>2, MarkerFields
  <2>2. ring.front = [gen |-> fg, offset |-> fo]
    BY FrontIs DEF Uses
  <2> QED
    BY <2>1, <2>2
<1>2. used \in Nat /\ used <= queue_get_capacity /\ used \in 0 .. queue_get_capacity /\ 0 \in 0 .. queue_get_capacity
  BY Sizes0 DEF Uses
<1>3. IsEmpty(ring) <=> used = 0
  BY <1>1, <1>2, MarkerIs DEF Uses, IsEmpty
<1>4. fg \in Nat /\ fo \in Nat /\ MaxHeadSize <= fo /\ fo < QueueSize
  BY FrontIs DEF Uses
<1>5. /\ ring.tail.gen = IF fo + used < QueueSize THEN fg ELSE fg + 1
      /\ ring.tail.offset = IF fo + used < QueueSize THEN fo + used ELSE fo + used - queue_get_capacity
  BY MarkerFields DEF Uses
<1>6. IsFull(ring) <=> fo = ring.tail.offset /\ ring.tail.gen = fg + 1
  BY DEF IsFull
<1> HIDE DEF fo, fg
<1>7. IsFull(ring) <=> used = queue_get_capacity
  BY <1>2, <1>4, <1>5, <1>6, Sizes0
<1> QED
  BY <1>1, <1>3, <1>7

\* What a listing reads from byte a on.
LEMMA StreamIs ==
    ASSUME NEW ring, NEW used, Uses(ring, used), NEW a \in Nat, a < used
    PROVE  LET s == MarkerAt(ring, a)
           IN  /\ StreamLength(ring, s) = used - a
               /\ \A k \in Nat : k <= used - a => StreamMarker(ring, s, k) = MarkerAt(ring, a + k)
<1> DEFINE fo == ring.front.offset
           fg == ring.front.gen
           s == MarkerAt(ring, a)
           to == ring.tail.offset
           cap == queue_get_capacity
<1>1. used \in Nat /\ used <= cap
  BY Sizes0 DEF Uses
<1>2. fg \in Nat /\ fo \in Nat /\ MaxHeadSize <= fo /\ fo < QueueSize
  BY FrontIs DEF Uses
<1>3. \A c : /\ MarkerAt(ring, c).gen = IF fo + c < QueueSize THEN fg ELSE fg + 1
             /\ MarkerAt(ring, c).offset = IF fo + c < QueueSize THEN fo + c ELSE fo + c - cap
             /\ MarkerAt(ring, c) = [gen |-> MarkerAt(ring, c).gen, offset |-> MarkerAt(ring, c).offset]
  BY MarkerFields
<1>4. to = IF fo + used < QueueSize THEN fo + used ELSE fo + used - cap
  BY <1>3 DEF Uses
<1>5. /\ s.gen = IF fo + a < QueueSize THEN fg ELSE fg + 1
      /\ s.offset = IF fo + a < QueueSize THEN fo + a ELSE fo + a - cap
  BY <1>3
<1>6. WrapsAround(ring, s) <=> fo >= to /\ s.offset >= fo
  BY DEF WrapsAround
<1>7. Contiguous(ring, s) = IF WrapsAround(ring, s) THEN QueueSize - s.offset
                            ELSE IF to > fo \/ s.offset <= to THEN to - s.offset ELSE 0
  BY DEF Contiguous
<1>8. StreamLength(ring, s) = Contiguous(ring, s) + (IF WrapsAround(ring, s) THEN to - MaxHeadSize ELSE 0)
  BY DEF StreamLength
<1>9. \A k : StreamMarker(ring, s, k) = IF k < Contiguous(ring, s) \/ ~WrapsAround(ring, s)
                                        THEN [gen |-> s.gen, offset |-> s.offset + k]
                                        ELSE [gen |-> s.gen + 1, offset |-> MaxHeadSize + (k - Contiguous(ring, s))]
  BY DEF StreamMarker
<1> HIDE DEF fo, fg, s, to, cap
<1>10. cap \in Nat /\ cap = QueueSize - MaxHeadSize
  BY Sizes0 DEF cap
<1>11. StreamLength(ring, s) = used - a
  BY <1>1, <1>2, <1>4, <1>5, <1>6, <1>7, <1>8, <1>10, Sizes0
<1>12. ASSUME NEW k \in Nat, k <= used - a
       PROVE  StreamMarker(ring, s, k) = MarkerAt(ring, a + k)
  <2>1. CASE k < Contiguous(ring, s) \/ ~WrapsAround(ring, s)
    <3>1. StreamMarker(ring, s, k) = [gen |-> s.gen, offset |-> s.offset + k]
      BY <2>1, <1>9
    <3>2. s.gen = MarkerAt(ring, a + k).gen /\ s.offset + k = MarkerAt(ring, a + k).offset
      BY <1>1, <1>2, <1>3, <1>4, <1>5, <1>6, <1>7, <1>10, <1>12, <2>1, Sizes0
    <3> QED
      BY <3>1, <3>2, <1>3
  <2>2. CASE ~(k < Contiguous(ring, s) \/ ~WrapsAround(ring, s))
    <3>1. StreamMarker(ring, s, k) = [gen |-> s.gen + 1, offset |-> MaxHeadSize + (k - Contiguous(ring, s))]
      BY <2>2, <1>9
    <3>2. s.gen + 1 = MarkerAt(ring, a + k).gen /\ MaxHeadSize + (k - Contiguous(ring, s)) = MarkerAt(ring, a + k).offset
      BY <1>1, <1>2, <1>3, <1>4, <1>5, <1>6, <1>7, <1>10, <1>12, <2>2, Sizes0
    <3> QED
      BY <3>1, <3>2, <1>3
  <2> QED
    BY <2>1, <2>2
<1> QED
  BY <1>11, <1>12 DEF s

-----------------------------------------------------------------------------
(* Listings. *)

\* A nonempty set of numbers has a least one.
LEMMA LeastOf ==
    ASSUME NEW S, S \subseteq Nat, S # {}
    PROVE  \E x \in S : \A y \in S : x <= y
<1>1. PICK R : R = OpToRel(<, Nat)
  OBVIOUS
<1>2. IsWellFoundedOn(R, Nat)
  BY <1>1, NatLessThanWellFounded
<1>3. PICK x \in S : \A y \in S : ~(<<y, x>> \in R)
  BY <1>2, WFMin
<1>4. \A y \in S : ~(y < x)
  BY <1>1, <1>3 DEF OpToRel
<1> QED
  BY <1>4

\* An entry takes at least its overhead.
LEMMA EntryIs ==
    ASSUME NEW e \in Entry
    PROVE  /\ e.id \in Nat /\ e.id # 0 /\ e.size \in Nat /\ e = [id |-> e.id, size |-> e.size]
           /\ RingLength(e) \in Nat /\ RingLength(e) >= EntryOverhead /\ RingLength(e) > 0
           /\ \A j : CellOf(e, j).id = e.id /\ CellOf(e, j).size = e.size /\ CellOf(e, j).at = j
           /\ \A j : RingLength(CellOf(e, j)) = RingLength(e)
BY Sizes0 DEF Entry, RingLength, CellOf

\* The entries of a layout start in their order, each behind the end of the one before.
LEMMA LayoutIs ==
    ASSUME NEW es, NEW p, Layout(es, p)
    PROVE  /\ Len(es) \in Nat /\ \A i \in 1 .. Len(es) : es[i] \in Entry
           /\ \A i \in 1 .. Len(es) + 1 : p[i] \in Nat /\ p[i] <= p[Len(es) + 1]
           /\ \A i \in 1 .. Len(es) : i + 1 \in 1 .. Len(es) + 1 /\ p[i + 1] = p[i] + RingLength(es[i])
           /\ \A i, k \in 1 .. Len(es) + 1 : i <= k => p[i] <= p[k]
           /\ \A i, k \in 1 .. Len(es) + 1 : p[i] < p[k] => i < k
<1>1. es \in Seq(Entry) /\ Len(es) \in Nat
  BY DEF Layout
<1>2. \A i \in 1 .. Len(es) : es[i] \in Entry
  BY <1>1
<1>3. \A i \in 1 .. Len(es) + 1 : p[i] \in Nat
  BY <1>1 DEF Layout
<1>4. \A i, k \in 1 .. Len(es) + 1 : i < k => p[i] < p[k]
  BY DEF Layout
<1>5. \A i, k \in 1 .. Len(es) + 1 : i <= k => p[i] <= p[k]
  BY <1>1, <1>3, <1>4
<1>6. \A i, k \in 1 .. Len(es) + 1 : p[i] < p[k] => i < k
  BY <1>1, <1>3, <1>5
<1>7. Len(es) + 1 \in 1 .. Len(es) + 1 /\ \A i \in 1 .. Len(es) + 1 : i <= Len(es) + 1
  BY <1>1
<1>8. \A i \in 1 .. Len(es) : p[i + 1] = p[i] + RingLength(es[i])
  BY DEF Layout
<1>9. \A i \in 1 .. Len(es) : i + 1 \in 1 .. Len(es) + 1
  BY <1>1
<1> QED
  BY <1>1, <1>2, <1>3, <1>5, <1>6, <1>7, <1>8, <1>9

\* A stream of bytes that holds the entries es from entry i on.
Reads(stream, es, p, i) ==
    /\ Layout(es, p) /\ i \in 1 .. Len(es)
    /\ Len(stream) = p[Len(es) + 1] - p[i]
    /\ \A m \in i .. Len(es), j \in Nat : j < RingLength(es[m]) =>
           stream[(p[m] - p[i]) + j + 1] = CellOf(es[m], j)

\* Exactly the entries of such a stream are whole entries.
LEMMA WholeIs ==
    ASSUME NEW stream, NEW es, NEW p, NEW i, Reads(stream, es, p, i)
    PROVE  /\ \A m \in i .. Len(es) :
                  /\ IsWhole(stream, p[m] - p[i])
                  /\ EntryEnd(stream, p[m] - p[i]) = p[m + 1] - p[i]
                  /\ stream[(p[m] - p[i]) + 1] = CellOf(es[m], 0)
                  /\ ReadAt(stream, p[m] - p[i]) = es[m].id
           /\ \A k \in 0 .. Len(stream) : IsWhole(stream, k) => \E m \in i .. Len(es) : k = p[m] - p[i]
           /\ ~HasHeader(stream, Len(stream))
<1> DEFINE n == Len(es)
<1>1. Layout(es, p) /\ i \in 1 .. n /\ n \in Nat /\ Len(stream) = p[n + 1] - p[i]
  BY LayoutIs DEF Reads
<1>2. ASSUME NEW m \in i .. n
      PROVE  /\ IsWhole(stream, p[m] - p[i])
             /\ EntryEnd(stream, p[m] - p[i]) = p[m + 1] - p[i]
             /\ stream[(p[m] - p[i]) + 1] = CellOf(es[m], 0)
             /\ ReadAt(stream, p[m] - p[i]) = es[m].id
  <2>1. /\ m \in 1 .. n /\ es[m] \in Entry /\ p[m] \in Nat /\ p[i] \in Nat /\ p[m + 1] \in Nat /\ p[n + 1] \in Nat
        /\ p[i] <= p[m] /\ p[m + 1] = p[m] + RingLength(es[m]) /\ p[m + 1] <= p[n + 1]
    BY <1>1, LayoutIs
  <2>2. /\ RingLength(es[m]) \in Nat /\ RingLength(es[m]) >= EntryOverhead /\ RingLength(es[m]) > 0
        /\ es[m].id # 0 /\ EntryOverhead \in Nat
        /\ \A j : CellOf(es[m], j).id = es[m].id /\ CellOf(es[m], j).at = j
        /\ \A j : RingLength(CellOf(es[m], j)) = RingLength(es[m])
    BY <2>1, EntryIs, Sizes0
  <2>3. \A j \in Nat : j < RingLength(es[m]) => stream[(p[m] - p[i]) + j + 1] = CellOf(es[m], j)
    BY DEF Reads
  <2>4. stream[(p[m] - p[i]) + 1] = CellOf(es[m], 0)
    <3>1. (p[m] - p[i]) + 0 + 1 = (p[m] - p[i]) + 1
      BY <2>1
    <3> QED
      BY <2>2, <2>3, <3>1
  <2>5. EntryEnd(stream, p[m] - p[i]) = p[m + 1] - p[i]
    <3>1. EntryEnd(stream, p[m] - p[i]) = (p[m] - p[i]) + RingLength(es[m])
      BY <2>2, <2>4 DEF EntryEnd
    <3> QED
      BY <2>1, <2>2, <3>1
  <2>6. IsWhole(stream, p[m] - p[i])
    <3>1. HasHeader(stream, p[m] - p[i])
      BY <1>1, <2>1, <2>2 DEF HasHeader
    <3>2. GoodHeader(stream, p[m] - p[i])
      BY <2>2, <2>4 DEF GoodHeader
    <3> QED
      BY <1>1, <2>1, <2>5, <3>1, <3>2 DEF IsWhole
  <2>7. ReadAt(stream, p[m] - p[i]) = es[m].id
    <3>1. ASSUME NEW j \in 0 .. RingLength(es[m]) - 1
          PROVE  stream[(p[m] - p[i]) + j + 1] = [CellOf(es[m], 0) EXCEPT !.at = j]
      <4>1. j \in Nat /\ j < RingLength(es[m])
        BY <2>2
      <4>2. [CellOf(es[m], 0) EXCEPT !.at = j] = CellOf(es[m], j)
        BY DEF CellOf
      <4> QED
        BY <2>3, <4>1, <4>2
    <3> QED
      BY <2>2, <2>4, <3>1 DEF ReadAt
  <2> QED
    BY <2>4, <2>5, <2>6, <2>7
<1>3. ~HasHeader(stream, Len(stream))
  <2>1. Len(stream) \in Int
    BY <1>1, LayoutIs
  <2> QED
    BY <2>1, Sizes0 DEF HasHeader
<1>4. ASSUME NEW k \in 0 .. Len(stream), IsWhole(stream, k)
      PROVE  \E m \in i .. n : k = p[m] - p[i]
  <2>1. p[i] \in Nat /\ p[n + 1] \in Nat /\ k \in Nat /\ k < p[n + 1] - p[i]
    <3>1. p[i] \in Nat /\ p[n + 1] \in Nat
      BY <1>1, LayoutIs
    <3>2. k \in Nat /\ k <= Len(stream) /\ k # Len(stream)
      BY <1>1, <1>3, <1>4, <3>1 DEF IsWhole
    <3> QED
      BY <1>1, <3>1, <3>2
  <2>2. p[i] + k \in Nat /\ p[i] + k < p[n + 1]
    BY <2>1
  <2>3. PICK m \in 1 .. n : p[m] <= p[i] + k /\ p[i] + k < p[m + 1]
    BY <1>1, <2>2 DEF Layout
  <2>4. /\ m + 1 \in 1 .. n + 1 /\ p[m] \in Nat /\ p[m + 1] \in Nat /\ p[m + 1] = p[m] + RingLength(es[m])
        /\ es[m] \in Entry
    BY <1>1, LayoutIs
  <2>5. m >= i
    <3>1. i < m + 1
      <4>1. p[i] < p[m + 1] /\ i \in 1 .. n + 1
        BY <1>1, <2>1, <2>3, <2>4
      <4> QED
        BY <1>1, <2>4, <4>1, LayoutIs
    <3> QED
      BY <1>1, <3>1
  <2>6. PICK j \in Nat : j = (p[i] + k) - p[m]
    BY <2>1, <2>3, <2>4
  <2>7. m \in i .. n /\ RingLength(es[m]) \in Nat /\ j < RingLength(es[m])
    <3>1. m \in i .. n
      BY <1>1, <2>5
    <3>2. RingLength(es[m]) \in Nat
      BY <2>4, EntryIs
    <3>3. j < RingLength(es[m])
      BY <2>1, <2>3, <2>4, <2>6, <3>2
    <3> QED
      BY <3>1, <3>2, <3>3
  <2>8. stream[(p[m] - p[i]) + j + 1] = CellOf(es[m], j)
    BY <2>7 DEF Reads
  <2>9. (p[m] - p[i]) + j + 1 = k + 1
    BY <2>1, <2>4, <2>6
  <2>10. CellOf(es[m], j).at = 0
    BY <1>4, <2>8, <2>9 DEF IsWhole, GoodHeader
  <2>11. j = 0
    BY <2>10 DEF CellOf
  <2>12. k = p[m] - p[i]
    BY <2>1, <2>4, <2>6, <2>11
  <2> QED
    BY <2>7, <2>12
<1> QED
  BY <1>2, <1>3, <1>4

\* The recursion by which a listing finds the entries.
Solves(stream, f) ==
    f = [k \in 0 .. Len(stream) |->
            IF IsWhole(stream, k) THEN <<k>> \o f[EntryEnd(stream, k)] ELSE <<>>]

\* Where the entries from entry m on start, counted from the start of entry i.
StartsFrom(p, i, m, n) == [j \in 1 .. n - m + 1 |-> p[m + j - 1] - p[i]]

LEMMA ConsIs ==
    ASSUME NEW x \in Int, NEW s \in Seq(Int), NEW t \in Seq(Int), Len(t) = Len(s) + 1, t[1] = x,
           \A j \in 1 .. Len(s) : t[j + 1] = s[j]
    PROVE  <<x>> \o s = t
<1>1. <<x>> \in Seq(Int) /\ Len(<<x>>) = 1 /\ <<x>>[1] = x
  OBVIOUS
<1>2. PICK c \in Seq(Int) : c = <<x>> \o s
  BY <1>1, ConcatProperties
<1>3. /\ Len(c) = 1 + Len(s)
      /\ \A j \in 1 .. Len(c) : c[j] = IF j <= 1 THEN x ELSE s[j - 1]
  BY <1>1, <1>2, ConcatProperties
<1>4. \A j \in 1 .. Len(t) : c[j] = t[j]
  <2> SUFFICES ASSUME NEW j \in 1 .. Len(t) PROVE c[j] = t[j]
    OBVIOUS
  <2>1. CASE j = 1
    BY <1>3, <2>1
  <2>2. CASE j # 1
    <3>1. j - 1 \in 1 .. Len(s) /\ (j - 1) + 1 = j
      BY <2>2
    <3>2. t[(j - 1) + 1] = s[j - 1]
      BY <3>1
    <3> QED
      <4>1. j \in 1 .. Len(c) /\ ~(j <= 1)
        BY <1>3, <2>2
      <4> QED
        BY <1>3, <3>1, <3>2, <4>1
  <2> QED
    BY <2>1, <2>2
<1> QED
  BY <1>2, <1>3, <1>4, SeqEqual

LEMMA StartsFromIs ==
    ASSUME NEW es, NEW p, Layout(es, p), NEW i \in 1 .. Len(es), NEW m \in i .. Len(es) + 1
    PROVE  /\ StartsFrom(p, i, m, Len(es)) \in Seq(Int)
           /\ Len(StartsFrom(p, i, m, Len(es))) = Len(es) - m + 1
           /\ \A j \in 1 .. Len(es) - m + 1 : StartsFrom(p, i, m, Len(es))[j] = p[m + j - 1] - p[i]
<1> DEFINE n == Len(es)
<1>1. n \in Nat /\ i \in Nat /\ \A k \in 1 .. n + 1 : p[k] \in Nat
  BY LayoutIs
<1>2. m \in Nat /\ n - m + 1 \in Nat
  BY <1>1
<1>3. \A j \in 1 .. n - m + 1 : p[m + j - 1] - p[i] \in Int
  <2> SUFFICES ASSUME NEW j \in 1 .. n - m + 1 PROVE p[m + j - 1] - p[i] \in Int
    OBVIOUS
  <2>1. m + j - 1 \in 1 .. n + 1 /\ i \in 1 .. n + 1
    BY <1>1, <1>2
  <2>2. p[m + j - 1] \in Nat /\ p[i] \in Nat
    BY <1>1, <2>1
  <2> QED
    BY <2>2
<1> HIDE DEF n
<1>4. StartsFrom(p, i, m, n) \in [1 .. n - m + 1 -> Int]
  BY <1>3 DEF StartsFrom
<1>5. StartsFrom(p, i, m, n) \in Seq(Int) /\ Len(StartsFrom(p, i, m, n)) = n - m + 1
  BY <1>2, <1>4, LenProperties
<1>6. \A j \in 1 .. n - m + 1 : StartsFrom(p, i, m, n)[j] = p[m + j - 1] - p[i]
  BY DEF StartsFrom
<1> QED
  BY <1>5, <1>6 DEF n

LEMMA StartsFromNext ==
    ASSUME NEW es, NEW p, Layout(es, p), NEW i \in 1 .. Len(es), NEW m \in i .. Len(es)
    PROVE  <<p[m] - p[i]>> \o StartsFrom(p, i, m + 1, Len(es)) = StartsFrom(p, i, m, Len(es))
<1> DEFINE n == Len(es)
<1>1. n \in Nat /\ i \in Nat /\ \A k \in 1 .. n + 1 : p[k] \in Nat
  BY LayoutIs
<1>2. /\ m \in Nat /\ m + 1 \in i .. n + 1 /\ m \in i .. n + 1 /\ m \in 1 .. n + 1 /\ i \in 1 .. n + 1
      /\ n - m + 1 = (n - (m + 1) + 1) + 1 /\ 1 \in 1 .. n - m + 1 /\ m + 1 - 1 = m
  BY <1>1
<1>3. p[m] - p[i] \in Int
  BY <1>1, <1>2
<1>4. PICK s \in Seq(Int) : /\ s = StartsFrom(p, i, m + 1, n) /\ Len(s) = n - (m + 1) + 1
                            /\ \A j \in 1 .. n - (m + 1) + 1 : s[j] = p[(m + 1) + j - 1] - p[i]
  BY <1>2, StartsFromIs
<1>5. PICK t \in Seq(Int) : /\ t = StartsFrom(p, i, m, n) /\ Len(t) = n - m + 1
                            /\ \A j \in 1 .. n - m + 1 : t[j] = p[m + j - 1] - p[i]
  BY <1>2, StartsFromIs
<1>6. Len(t) = Len(s) + 1 /\ t[1] = p[m] - p[i]
  BY <1>2, <1>4, <1>5
<1>7. ASSUME NEW j \in 1 .. Len(s) PROVE t[j + 1] = s[j]
  <2>1. j + 1 \in 1 .. n - m + 1 /\ j \in 1 .. n - (m + 1) + 1 /\ m + (j + 1) - 1 = (m + 1) + j - 1
    BY <1>1, <1>2, <1>4
  <2> QED
    BY <1>4, <1>5, <2>1
<1> QED
  BY <1>3, <1>4, <1>5, <1>6, <1>7, ConsIs

LEMMA NoStartsLeft ==
    ASSUME NEW es, NEW p, Layout(es, p), NEW i \in 1 .. Len(es)
    PROVE  StartsFrom(p, i, Len(es) + 1, Len(es)) = <<>>
<1>1. Len(es) \in Nat
  BY LayoutIs
<1>2. Len(es) + 1 \in i .. Len(es) + 1 /\ Len(es) - (Len(es) + 1) + 1 = 0
  BY <1>1
<1>3. PICK m \in i .. Len(es) + 1 : m = Len(es) + 1
  BY <1>2
<1>4. StartsFrom(p, i, m, Len(es)) \in Seq(Int) /\ Len(StartsFrom(p, i, m, Len(es))) = Len(es) - m + 1
  BY StartsFromIs
<1>5. Len(StartsFrom(p, i, m, Len(es))) = 0
  BY <1>2, <1>3, <1>4
<1>6. StartsFrom(p, i, m, Len(es)) = <<>>
  BY <1>4, <1>5, EmptySeq
<1> QED
  BY <1>3, <1>6

\* There is a solution: the starts of the entries that follow.
LEMMA SolutionExists ==
    ASSUME NEW stream, NEW es, NEW p, NEW i, Reads(stream, es, p, i)
    PROVE  \E f : Solves(stream, f)
<1> DEFINE n == Len(es)
           L == Len(stream)
           At(k) == CHOOSE m \in i .. n + 1 : k = p[m] - p[i]
           f == [k \in 0 .. L |-> IF \E m \in i .. n : k = p[m] - p[i] THEN StartsFrom(p, i, At(k), n) ELSE <<>>]
<1>1. Layout(es, p) /\ i \in 1 .. n /\ n \in Nat /\ L = p[n + 1] - p[i] /\ L \in Int
  BY LayoutIs DEF Reads
<1>2. ASSUME NEW m \in i .. n + 1
      PROVE  /\ m \in 1 .. n + 1 /\ p[m] \in Nat /\ p[i] \in Nat /\ p[m] - p[i] \in 0 .. L
             /\ At(p[m] - p[i]) = m
  <2>1. m \in 1 .. n + 1 /\ i \in 1 .. n + 1 /\ n + 1 \in 1 .. n + 1 /\ i <= m /\ m <= n + 1
    BY <1>1
  <2>2. /\ \A k \in 1 .. n + 1 : p[k] \in Nat
        /\ \A k, l \in 1 .. n + 1 : k <= l => p[k] <= p[l]
        /\ \A k, l \in 1 .. n + 1 : k < l => p[k] < p[l]
    BY <1>1, LayoutIs DEF Layout
  <2>3. p[m] \in Nat /\ p[i] \in Nat /\ p[n + 1] \in Nat /\ p[i] <= p[m] /\ p[m] <= p[n + 1]
    BY <2>1, <2>2
  <2>4. p[m] - p[i] \in 0 .. L
    BY <1>1, <2>3
  <2>5. ASSUME NEW k \in i .. n + 1, p[m] - p[i] = p[k] - p[i]
        PROVE  k = m
    <3>1. k \in 1 .. n + 1
      BY <1>1
    <3>2. p[k] \in Nat /\ p[k] = p[m]
      BY <2>2, <2>3, <2>5, <3>1
    <3>3. ~(k < m) /\ ~(m < k)
      BY <2>1, <2>2, <2>3, <3>1, <3>2
    <3> QED
      BY <2>1, <3>1, <3>3
  <2> QED
    BY <2>1, <2>3, <2>4, <2>5
<1> HIDE DEF At
<1>3. ASSUME NEW k \in 0 .. L
      PROVE  f[k] = IF IsWhole(stream, k) THEN <<k>> \o f[EntryEnd(stream, k)] ELSE <<>>
  <2>1. CASE IsWhole(stream, k)
    <3>1. PICK m \in i .. n : k = p[m] - p[i]
      BY <2>1, WholeIs
    <3>2. m \in i .. n + 1 /\ m + 1 \in i .. n + 1 /\ m <= n
      BY <1>1
    <3>3. f[k] = StartsFrom(p, i, m, n)
      <4>1. At(k) = m
        BY <1>2, <3>1, <3>2
      <4> QED
        BY <3>1, <4>1
    <3>4. EntryEnd(stream, k) = p[m + 1] - p[i]
      BY <3>1, WholeIs
    <3>5. f[p[m + 1] - p[i]] = StartsFrom(p, i, m + 1, n)
      <4>1. p[m + 1] - p[i] \in 0 .. L /\ At(p[m + 1] - p[i]) = m + 1
        BY <1>2, <3>2
      <4>2. CASE m + 1 \in i .. n
        BY <4>1, <4>2
      <4>3. CASE m + 1 \notin i .. n
        <5>1. m + 1 = n + 1
          BY <1>1, <3>2, <4>3
        <5>2. ~\E l \in i .. n : p[m + 1] - p[i] = p[l] - p[i]
          <6> SUFFICES ASSUME NEW l \in i .. n, p[m + 1] - p[i] = p[l] - p[i]
                       PROVE  FALSE
            OBVIOUS
          <6>1. l \in i .. n + 1
            BY <1>1
          <6>2. At(p[l] - p[i]) = l
            BY <1>2, <6>1
          <6> QED
            BY <1>1, <4>1, <4>3, <6>2
        <5>3. f[p[m + 1] - p[i]] = <<>>
          BY <4>1, <5>2
        <5>4. StartsFrom(p, i, n + 1, n) = <<>>
          BY <1>1, NoStartsLeft
        <5> QED
          BY <5>1, <5>3, <5>4
      <4> QED
        BY <4>2, <4>3
    <3> HIDE DEF f
    <3>6. <<p[m] - p[i]>> \o StartsFrom(p, i, m + 1, n) = StartsFrom(p, i, m, n)
      BY <1>1, StartsFromNext
    <3> QED
      BY <2>1, <3>1, <3>3, <3>4, <3>5, <3>6
  <2>2. CASE ~IsWhole(stream, k)
    <3>1. ~\E m \in i .. n : k = p[m] - p[i]
      BY <2>2, WholeIs
    <3> QED
      BY <2>2, <3>1
  <2> QED
    BY <2>1, <2>2
<1>4. f = [k \in 0 .. L |-> f[k]]
  OBVIOUS
<1> HIDE DEF f
<1>5. [k \in 0 .. L |-> f[k]] = [k \in 0 .. L |-> IF IsWhole(stream, k) THEN <<k>> \o f[EntryEnd(stream, k)] ELSE <<>>]
  BY <1>3
<1> QED
  BY <1>4, <1>5 DEF Solves

\* There is only one, by the end of the stream and then from each entry to the one before.
LEMMA SolutionIs ==
    ASSUME NEW stream, NEW es, NEW p, NEW i, Reads(stream, es, p, i), NEW f, Solves(stream, f)
    PROVE  f[0] = StartsFrom(p, i, i, Len(es))
<1> DEFINE n == Len(es)
           L == Len(stream)
           Bad == {d \in 0 .. n + 1 - i : f[p[n + 1 - d] - p[i]] # StartsFrom(p, i, n + 1 - d, n)}
<1>1. Layout(es, p) /\ i \in 1 .. n /\ n \in Nat /\ L = p[n + 1] - p[i] /\ L \in Int
  BY LayoutIs DEF Reads
<1>2. \A k \in 0 .. L : f[k] = IF IsWhole(stream, k) THEN <<k>> \o f[EntryEnd(stream, k)] ELSE <<>>
  BY DEF Solves
<1>3. ASSUME NEW m \in i .. n + 1
      PROVE  p[m] - p[i] \in 0 .. L
  <2>1. m \in 1 .. n + 1 /\ i \in 1 .. n + 1 /\ n + 1 \in 1 .. n + 1 /\ i <= m /\ m <= n + 1
    BY <1>1
  <2>2. p[m] \in Nat /\ p[i] \in Nat /\ p[n + 1] \in Nat /\ p[i] <= p[m] /\ p[m] <= p[n + 1]
    BY <1>1, <2>1, LayoutIs
  <2> QED
    BY <1>1, <2>2
<1>4. f[p[n + 1] - p[i]] = StartsFrom(p, i, n + 1, n)
  <2>1. ~IsWhole(stream, L) /\ L \in 0 .. L
    BY <1>1, <1>3, WholeIs DEF IsWhole
  <2>2. StartsFrom(p, i, n + 1, n) = <<>>
    BY <1>1, NoStartsLeft
  <2> QED
    BY <1>1, <1>2, <2>1, <2>2
<1>5. ASSUME NEW m \in i .. n, f[p[m + 1] - p[i]] = StartsFrom(p, i, m + 1, n)
      PROVE  f[p[m] - p[i]] = StartsFrom(p, i, m, n)
  <2>1. m \in i .. n + 1 /\ m + 1 \in i .. n + 1 /\ m <= n
    BY <1>1
  <2>2. IsWhole(stream, p[m] - p[i]) /\ EntryEnd(stream, p[m] - p[i]) = p[m + 1] - p[i]
    BY WholeIs
  <2>3. f[p[m] - p[i]] = <<p[m] - p[i]>> \o f[p[m + 1] - p[i]]
    BY <1>2, <1>3, <2>1, <2>2
  <2>4. <<p[m] - p[i]>> \o StartsFrom(p, i, m + 1, n) = StartsFrom(p, i, m, n)
    BY <1>1, StartsFromNext
  <2> QED
    BY <1>5, <2>3, <2>4
<1>6. Bad = {}
  <2> SUFFICES ASSUME Bad # {} PROVE FALSE
    OBVIOUS
  <2>1. Bad \subseteq Nat
    BY <1>1
  <2>2. PICK d \in Bad : \A y \in Bad : d <= y
    BY <2>1, LeastOf
  <2>3. d \in 0 .. n + 1 - i /\ f[p[n + 1 - d] - p[i]] # StartsFrom(p, i, n + 1 - d, n)
    BY <2>2
  <2>4. d # 0
    <3>1. n + 1 - 0 = n + 1
      BY <1>1
    <3> QED
      BY <1>4, <2>3, <3>1
  <2>5. /\ d \in Nat /\ d - 1 \in 0 .. n + 1 - i /\ ~(d <= d - 1)
        /\ n + 1 - d \in i .. n /\ (n + 1 - d) + 1 = n + 1 - (d - 1)
    BY <1>1, <2>3, <2>4
  <2>6. d - 1 \notin Bad
    BY <2>2, <2>5
  <2>7. f[p[n + 1 - (d - 1)] - p[i]] = StartsFrom(p, i, n + 1 - (d - 1), n)
    BY <2>5, <2>6
  <2> QED
    BY <1>5, <2>3, <2>5, <2>7
<1>7. n + 1 - i \in 0 .. n + 1 - i /\ n + 1 - (n + 1 - i) = i
  BY <1>1
<1>8. f[p[i] - p[i]] = StartsFrom(p, i, i, n)
  BY <1>6, <1>7
<1>9. p[i] - p[i] = 0
  <2>1. i \in 1 .. n + 1
    BY <1>1
  <2>2. p[i] \in Nat
    BY <1>1, <2>1, LayoutIs
  <2> QED
    BY <2>2
<1> QED
  BY <1>8, <1>9

\* The entries that a listing finds.
LEMMA StartsAre ==
    ASSUME NEW stream, NEW es, NEW p, NEW i, Reads(stream, es, p, i)
    PROVE  EntryStarts(stream) = StartsFrom(p, i, i, Len(es))
<1>1. PICK f : f = CHOOSE g : Solves(stream, g)
  OBVIOUS
<1>2. Solves(stream, f)
  BY <1>1, SolutionExists
<1>3. EntryStarts(stream) = f[0]
  BY <1>1 DEF EntryStarts, Solves
<1> QED
  BY <1>2, <1>3, SolutionIs

\* The stream that a listing from entry i on reads.
LEMMA StreamReads ==
    ASSUME NEW ring, NEW es, NEW p, Layout(es, p), Holds(ring, es, p), NEW i \in 1 .. Len(es)
    PROVE  Reads(Stream(ring, MarkerAt(ring, p[i])), es, p, i)
<1> DEFINE n == Len(es)
           s == MarkerAt(ring, p[i])
           L == p[n + 1] - p[i]
<1>1. /\ n \in Nat /\ p[i] \in Nat /\ p[n + 1] \in Nat /\ p[i] < p[n + 1] /\ L \in Nat
      /\ Uses(ring, p[n + 1])
  <2>1. n \in Nat /\ i \in 1 .. n + 1 /\ n + 1 \in 1 .. n + 1 /\ i < n + 1
    BY LayoutIs
  <2>2. p[i] \in Nat /\ p[n + 1] \in Nat /\ p[i] < p[n + 1]
    BY <2>1, LayoutIs DEF Layout
  <2> QED
    BY <2>1, <2>2 DEF Holds
<1>2. /\ StreamLength(ring, s) = L
      /\ \A k \in Nat : k <= L => StreamMarker(ring, s, k) = MarkerAt(ring, p[i] + k)
  BY <1>1, StreamIs
<1>3. Stream(ring, s) = [k \in 1 .. L |-> ring.data[StreamMarker(ring, s, k - 1).offset]]
  BY <1>2 DEF Stream
<1> HIDE DEF s, L
<1>4. Len(Stream(ring, s)) = L
  BY <1>1, <1>3
<1>5. ASSUME NEW m \in i .. n, NEW j \in Nat, j < RingLength(es[m])
      PROVE  Stream(ring, s)[(p[m] - p[i]) + j + 1] = CellOf(es[m], j)
  <2>1. /\ m \in 1 .. n /\ m + 1 \in 1 .. n + 1 /\ i \in 1 .. n + 1 /\ m \in 1 .. n + 1 /\ i <= m
        /\ n + 1 \in 1 .. n + 1
    BY <1>1
  <2>2. /\ es[m] \in Entry /\ p[m] \in Nat /\ p[m + 1] \in Nat /\ p[i] <= p[m] /\ p[m + 1] = p[m] + RingLength(es[m])
        /\ p[m + 1] <= p[n + 1]
    BY <2>1, LayoutIs
  <2>3. RingLength(es[m]) \in Nat
    BY <2>2, EntryIs
  <2>4. PICK k \in Nat : k = (p[m] - p[i]) + j
    BY <1>1, <2>2
  <2>5. k < L /\ k + 1 \in 1 .. L /\ (k + 1) - 1 = k /\ p[i] + k = p[m] + j
    <3>0. PICK a \in Nat, b \in Nat, e \in Nat, l \in Nat : a = p[i] /\ b = p[m] /\ e = p[n + 1] /\ l = RingLength(es[m])
      BY <1>1, <2>2, <2>3
    <3>1. k < p[n + 1] - p[i] /\ p[i] + k = p[m] + j
      <4>1. a <= b /\ b + l <= e /\ k = (b - a) + j /\ j < l
        BY <1>5, <2>2, <2>4, <3>0
      <4>2. k < e - a /\ a + k = b + j
        BY <4>1
      <4> QED
        BY <1>1, <3>0, <4>2
    <3>2. k < L
      BY <3>1 DEF L
    <3> QED
      BY <1>1, <3>1, <3>2
  <2>6. Stream(ring, s)[k + 1] = ring.data[MarkerAt(ring, p[i] + k).offset]
    <3>1. Stream(ring, s)[k + 1] = ring.data[StreamMarker(ring, s, (k + 1) - 1).offset]
      BY <1>3, <2>5
    <3>2. k <= L
      BY <1>1, <2>5
    <3>3. StreamMarker(ring, s, k) = MarkerAt(ring, p[i] + k)
      BY <1>2, <3>2
    <3> QED
      BY <2>5, <3>1, <3>3
  <2>7. ring.data[MarkerAt(ring, p[m] + j).offset] = CellOf(es[m], j)
    BY <1>5, <2>1 DEF Holds
  <2> QED
    BY <2>4, <2>5, <2>6, <2>7
<1> QED
  BY <1>4, <1>5 DEF Reads, s, L

\* An entry as a listing shows it.
ListedAs(ring, es, p, m) == [id |-> es[m].id, size |-> es[m].size, marker |-> MarkerAt(ring, p[m])]

\* How many entries a listing from entry i on returns.
PageSize(es, i, max) == IF Len(es) - i + 1 < max THEN Len(es) - i + 1 ELSE max

\* The answer to a listing from entry i on.
Page(ring, es, p, i, max) ==
    LET c == PageSize(es, i, max)
    IN  [ret |-> OK, entries |-> [j \in 1 .. c |-> ListedAs(ring, es, p, i + j - 1)],
         next |-> MarkerAt(ring, p[i + c]), truncated |-> i + c <= Len(es)]

\* The answer to a listing that starts at s, from the bytes it reads and the entries
\* that start in them.
Answer(ring, s, stream, all, max) ==
    LET count  == IF Len(all) < max THEN Len(all) ELSE max
        stop   == IF count = 0 THEN 0 ELSE EntryEnd(stream, all[count])
        next   == IF count = max THEN WrapMarker(StreamMarker(ring, s, stop)) ELSE ring.tail
        bad    == count < max /\ HasHeader(stream, stop) /\ ~GoodHeader(stream, stop)
        EntryAt(k) == [id |-> ReadAt(stream, k), size |-> stream[k + 1].size, marker |-> StreamMarker(ring, s, k)]
    IN  IF IsEmpty(ring)
        THEN [ret |-> OK, entries |-> <<>>, next |-> ring.front, truncated |-> FALSE]
        ELSE IF bad
             THEN [ret |-> EINVAL, entries |-> <<>>, next |-> NoMarker, truncated |-> FALSE]
             ELSE [ret |-> OK, entries |-> [i \in 1 .. count |-> EntryAt(all[i])],
                   next |-> next, truncated |-> count = max /\ next # ring.tail]

LEMMA AnswerIs ==
    ASSUME NEW ring, NEW start, NEW max, NEW s, s = IF start.offset = 0 THEN ring.front ELSE start
    PROVE  queue_list_entries(ring, start, max) =
               Answer(ring, s, Stream(ring, s), EntryStarts(Stream(ring, s)), max)
BY Zenon DEF queue_list_entries, Answer

\* A listing from the start of entry i on.
LEMMA ListIs ==
    ASSUME NEW ring, NEW es, NEW p, Layout(es, p), Holds(ring, es, p), NEW i \in 1 .. Len(es),
           NEW max \in Nat \ {0}, NEW start,
           (start.offset = 0 /\ i = 1) \/ start = MarkerAt(ring, p[i])
    PROVE  /\ PageSize(es, i, max) \in 1 .. max
           /\ i + PageSize(es, i, max) \in i + 1 .. Len(es) + 1
           /\ queue_list_entries(ring, start, max) = Page(ring, es, p, i, max)
<1> DEFINE n == Len(es)
           c == PageSize(es, i, max)
           s == IF start.offset = 0 THEN ring.front ELSE start
           stream == Stream(ring, s)
           all == EntryStarts(stream)
           count == IF Len(all) < max THEN Len(all) ELSE max
           stop == IF count = 0 THEN 0 ELSE EntryEnd(stream, all[count])
           next == IF count = max THEN WrapMarker(StreamMarker(ring, s, stop)) ELSE ring.tail
           bad == count < max /\ HasHeader(stream, stop) /\ ~GoodHeader(stream, stop)
           EntryAt(k) == [id |-> ReadAt(stream, k), size |-> stream[k + 1].size,
                          marker |-> StreamMarker(ring, s, k)]
<1>1. /\ n \in Nat /\ i \in 1 .. n + 1 /\ n + 1 \in 1 .. n + 1 /\ i <= n
      /\ \A m \in 1 .. n + 1 : p[m] \in Nat /\ p[m] <= p[n + 1]
      /\ \A m, k \in 1 .. n + 1 : m < k => p[m] < p[k]
      /\ \A m, k \in 1 .. n + 1 : m <= k => p[m] <= p[k]
      /\ p[1] = 0 /\ Uses(ring, p[n + 1]) /\ HasFront(ring) /\ ring.tail = MarkerAt(ring, p[n + 1])
      /\ p[n + 1] <= queue_get_capacity
  <2>1. n \in Nat
    BY LayoutIs
  <2>2. i \in 1 .. n + 1 /\ n + 1 \in 1 .. n + 1 /\ i <= n
    BY <2>1
  <2>3. Uses(ring, p[n + 1]) /\ HasFront(ring) /\ ring.tail = MarkerAt(ring, p[n + 1])
    BY DEF Holds, Uses
  <2>4. p[n + 1] <= queue_get_capacity
    BY <2>3, Sizes0 DEF Uses
  <2>5. p[1] = 0 /\ \A m, k \in 1 .. n + 1 : m < k => p[m] < p[k]
    BY DEF Layout
  <2> QED
    BY <2>1, <2>2, <2>3, <2>4, <2>5, LayoutIs
<1>2. s = MarkerAt(ring, p[i])
  <2>1. CASE start.offset = 0 /\ i = 1
    BY <1>1, <2>1, EmptyIs
  <2>2. CASE start = MarkerAt(ring, p[i])
    <3>1. p[i] \in 0 .. queue_get_capacity
      BY <1>1, Sizes0
    <3> QED
      BY <1>1, <2>2, <3>1, MarkerIs
  <2> QED
    BY <2>1, <2>2
<1>3. Reads(stream, es, p, i)
  BY <1>2, StreamReads
<1>4. all = StartsFrom(p, i, i, n) /\ Len(all) = n - i + 1
      /\ \A j \in 1 .. n - i + 1 : all[j] = p[i + j - 1] - p[i]
  <2>1. i \in i .. n + 1
    BY <1>1
  <2>2. all = StartsFrom(p, i, i, n)
    BY <1>3, StartsAre
  <2>3. /\ Len(StartsFrom(p, i, i, n)) = n - i + 1
        /\ \A j \in 1 .. n - i + 1 : StartsFrom(p, i, i, n)[j] = p[i + j - 1] - p[i]
    <3>1. PICK m \in i .. n + 1 : m = i
      BY <2>1
    <3>2. /\ Len(StartsFrom(p, i, m, n)) = n - m + 1
          /\ \A j \in 1 .. n - m + 1 : StartsFrom(p, i, m, n)[j] = p[m + j - 1] - p[i]
      BY StartsFromIs
    <3> QED
      BY <3>1, <3>2
  <2> HIDE DEF all
  <2> QED
    BY <2>2, <2>3
<1>5. /\ \A k \in Nat : k <= p[n + 1] - p[i] => StreamMarker(ring, s, k) = MarkerAt(ring, p[i] + k)
      /\ Len(stream) = p[n + 1] - p[i]
  <2>1. p[i] \in Nat /\ p[i] < p[n + 1]
    BY <1>1
  <2> QED
    BY <1>1, <1>2, <1>3, <2>1, StreamIs DEF Reads
<1>6. /\ count = c /\ c \in 1 .. max /\ c \in Nat /\ c > 0 /\ i + c \in i + 1 .. n + 1 /\ c \in 1 .. n - i + 1
      /\ c < max => c = n - i + 1
      /\ c # max => i + c = n + 1
      /\ i + c <= n => c = max
  BY <1>1, <1>4 DEF PageSize
<1> HIDE DEF c, s, all
<1>7. stop = p[i + c] - p[i]
  <2>1. i + c - 1 \in i .. n /\ (i + c - 1) + 1 = i + c
    BY <1>1, <1>6
  <2>2. all[c] = p[i + c - 1] - p[i]
    BY <1>4, <1>6
  <2>3. EntryEnd(stream, p[i + c - 1] - p[i]) = p[i + c] - p[i]
    BY <1>3, <2>1, WholeIs
  <2> QED
    BY <1>6, <2>2, <2>3
<1>8. /\ p[i + c] \in Nat /\ p[i] \in Nat /\ stop \in Nat /\ stop <= p[n + 1] - p[i] /\ p[i] + stop = p[i + c]
      /\ p[i + c] \in 0 .. queue_get_capacity /\ p[n + 1] \in 0 .. queue_get_capacity
  <2>1. i + c \in 1 .. n + 1 /\ i <= i + c
    BY <1>1, <1>6
  <2>2. p[i + c] \in Nat /\ p[i] \in Nat /\ p[i] <= p[i + c] /\ p[i + c] <= p[n + 1] /\ p[n + 1] \in Nat
    BY <1>1, <2>1
  <2> HIDE DEF stop
  <2> QED
    BY <1>1, <1>7, <2>2, Sizes0
<1>9. next = MarkerAt(ring, p[i + c])
  <2>1. CASE c = max
    <3>1. StreamMarker(ring, s, stop) = MarkerAt(ring, p[i + c])
      BY <1>5, <1>8
    <3>2. WrapMarker(MarkerAt(ring, p[i + c])) = MarkerAt(ring, p[i + c])
      BY <1>1, <1>8, MarkerIs
    <3> HIDE DEF stop, stream
    <3> QED
      BY <1>6, <2>1, <3>1, <3>2
  <2>2. CASE c # max
    <3> HIDE DEF stop, stream
    <3> QED
      BY <1>1, <1>6, <2>2
  <2> QED
    BY <2>1, <2>2
<1>10. ~bad
  <2>1. ASSUME c < max PROVE ~HasHeader(stream, stop)
    <3>1. i + c = n + 1
      BY <1>1, <1>6, <2>1
    <3>2. stop = Len(stream)
      BY <1>5, <1>7, <3>1
    <3> QED
      BY <1>3, <3>2, WholeIs
  <2> HIDE DEF stop, stream
  <2> QED
    BY <1>6, <2>1
<1>11. ~IsEmpty(ring)
  <2>1. p[n + 1] # 0
    BY <1>1
  <2> QED
    BY <1>1, <2>1, EmptyIs
<1>12. ASSUME NEW j \in 1 .. c
       PROVE  EntryAt(all[j]) = ListedAs(ring, es, p, i + j - 1)
  <2>1. i + j - 1 \in i .. n /\ j \in 1 .. n - i + 1
    BY <1>1, <1>6
  <2>2. PICK m \in i .. n : m = i + j - 1
    BY <2>1
  <2>3. all[j] = p[m] - p[i]
    BY <1>4, <2>1, <2>2
  <2>4. /\ stream[(p[m] - p[i]) + 1] = CellOf(es[m], 0)
        /\ ReadAt(stream, p[m] - p[i]) = es[m].id
    BY <1>3, WholeIs
  <2>5. CellOf(es[m], 0).size = es[m].size
    BY DEF CellOf
  <2>6. StreamMarker(ring, s, p[m] - p[i]) = MarkerAt(ring, p[m])
    <3>1. m \in 1 .. n + 1 /\ i <= m
      BY <1>1
    <3>2. p[m] \in Nat /\ p[i] \in Nat /\ p[i] <= p[m] /\ p[m] <= p[n + 1] /\ p[n + 1] \in Nat
      BY <1>1, <3>1
    <3>3. p[m] - p[i] \in Nat /\ p[m] - p[i] <= p[n + 1] - p[i] /\ p[i] + (p[m] - p[i]) = p[m]
      BY <3>2
    <3> QED
      BY <1>5, <3>3
  <2> HIDE DEF stream
  <2> QED
    BY <2>2, <2>3, <2>4, <2>5, <2>6 DEF ListedAs
<1>13. (count = max /\ next # ring.tail) <=> i + c <= n
  <2>1. next = ring.tail <=> i + c = n + 1
    <3>1. next = ring.tail <=> p[i + c] = p[n + 1]
      <4> HIDE DEF next
      <4> QED
        BY <1>1, <1>8, <1>9, MarkerIs
    <3>2. i + c \in 1 .. n + 1 /\ (i + c # n + 1 => i + c < n + 1)
      BY <1>1, <1>6
    <3>3. p[i + c] = p[n + 1] => i + c = n + 1
      BY <1>1, <1>8, <3>2
    <3> HIDE DEF next
    <3> QED
      BY <3>1, <3>3
  <2> HIDE DEF next, count
  <2> QED
    BY <1>1, <1>6, <2>1
<1>14. queue_list_entries(ring, start, max) =
           [ret |-> OK, entries |-> [j \in 1 .. count |-> EntryAt(all[j])],
            next |-> next, truncated |-> count = max /\ next # ring.tail]
  <2>1. queue_list_entries(ring, start, max) =
            IF IsEmpty(ring)
            THEN [ret |-> OK, entries |-> <<>>, next |-> ring.front, truncated |-> FALSE]
            ELSE IF bad
                 THEN [ret |-> EINVAL, entries |-> <<>>, next |-> NoMarker, truncated |-> FALSE]
                 ELSE [ret |-> OK, entries |-> [j \in 1 .. count |-> EntryAt(all[j])],
                       next |-> next, truncated |-> count = max /\ next # ring.tail]
    BY DEF queue_list_entries, s, all
  <2> HIDE DEF bad, count, next, EntryAt
  <2> QED
    BY <1>10, <1>11, <2>1
<1>15. [j \in 1 .. c |-> EntryAt(all[j])] = [j \in 1 .. c |-> ListedAs(ring, es, p, i + j - 1)]
  <2> HIDE DEF EntryAt
  <2> QED
    BY <1>12
<1> HIDE DEF count, next, EntryAt
<1> QED
  <2>1. (count = max /\ next # ring.tail) = (i + c <= n)
    BY <1>13
  <2> QED
    BY <1>6, <1>9, <1>14, <1>15, <2>1 DEF c, Page

\* A listing of the empty queue, and which ring is empty.
LEMMA ListEmpty ==
    ASSUME NEW ring, NEW es, NEW p, Layout(es, p), Holds(ring, es, p)
    PROVE  /\ IsEmpty(ring) <=> Len(es) = 0
           /\ Len(es) = 0 => es = <<>>
           /\ Len(es) = 0 => \A start, max : queue_list_entries(ring, start, max) =
                  [ret |-> OK, entries |-> <<>>, next |-> ring.front, truncated |-> FALSE]
<1>1. Len(es) \in Nat /\ 1 \in 1 .. Len(es) + 1 /\ Len(es) + 1 \in 1 .. Len(es) + 1
  BY LayoutIs
<1>2. p[1] = 0 /\ es \in Seq(Entry) /\ Uses(ring, p[Len(es) + 1])
  BY DEF Layout, Holds
<1>3. p[Len(es) + 1] = 0 <=> Len(es) = 0
  <2>1. CASE Len(es) = 0
    BY <1>2, <2>1
  <2>2. CASE Len(es) # 0
    <3>1. 1 < Len(es) + 1
      BY <1>1, <2>2
    <3>2. p[1] < p[Len(es) + 1]
      BY <1>1, <3>1 DEF Layout
    <3> QED
      BY <1>2, <2>2, <3>2
  <2> QED
    BY <2>1, <2>2
<1>4. IsEmpty(ring) <=> Len(es) = 0
  BY <1>2, <1>3, EmptyIs
<1>5. Len(es) = 0 => es = <<>>
  BY <1>2, EmptySeq
<1> QED
  BY <1>4, <1>5 DEF queue_list_entries

\* A listing of the whole queue reads its entries.
LEMMA ReadAllIs ==
    ASSUME NEW ring, NEW es, NEW p, Layout(es, p), Holds(ring, es, p), Len(es) <= MaxIssued
    PROVE  ReadAll(ring) = es
<1> DEFINE n == Len(es)
           r == queue_list_entries(ring, NoMarker, MaxIssued + 1)
<1>1. n \in Nat /\ es \in Seq(Entry) /\ MaxIssued \in Nat
  BY LayoutIs, QueueClassConstants DEF Layout
<1>2. ReadAll(ring) = [i \in 1 .. Len(r.entries) |-> [id |-> r.entries[i].id, size |-> r.entries[i].size]]
  BY DEF ReadAll
<1>3. CASE n = 0
  <2>1. r.entries = <<>> /\ es = <<>>
    BY <1>3, ListEmpty
  <2> HIDE DEF r
  <2> QED
    BY <1>2, <2>1
<1>4. CASE n # 0
  <2>1. 1 \in 1 .. n /\ MaxIssued + 1 \in Nat \ {0} /\ NoMarker.offset = 0 /\ PageSize(es, 1, MaxIssued + 1) = n
    BY <1>1, <1>4 DEF NoMarker, PageSize
  <2>2. r.entries = [j \in 1 .. n |-> ListedAs(ring, es, p, 1 + j - 1)]
    <3>1. PICK i \in 1 .. n, max \in Nat \ {0} : i = 1 /\ max = MaxIssued + 1
      BY <2>1
    <3>2. queue_list_entries(ring, NoMarker, max).entries =
              [j \in 1 .. PageSize(es, i, max) |-> ListedAs(ring, es, p, i + j - 1)]
      <4>1. queue_list_entries(ring, NoMarker, max) = Page(ring, es, p, i, max)
        BY <2>1, <3>1, ListIs
      <4> QED
        BY <4>1 DEF Page
    <3> QED
      BY <2>1, <3>1, <3>2
  <2>3. \A j \in 1 .. n : 1 + j - 1 = j
    BY <1>1
  <2>4. r.entries = [j \in 1 .. n |-> ListedAs(ring, es, p, j)]
    BY <2>2, <2>3
  <2> HIDE DEF r
  <2>5. Len(r.entries) = n
    BY <1>1, <2>4
  <2>6. \A j \in 1 .. n : [id |-> r.entries[j].id, size |-> r.entries[j].size] = es[j]
    <3> SUFFICES ASSUME NEW j \in 1 .. n
                 PROVE  [id |-> r.entries[j].id, size |-> r.entries[j].size] = es[j]
      OBVIOUS
    <3>1. r.entries[j].id = es[j].id /\ r.entries[j].size = es[j].size
      BY <2>4 DEF ListedAs
    <3>2. es[j] = [id |-> es[j].id, size |-> es[j].size]
      BY LayoutIs, EntryIs
    <3> QED
      BY <3>1, <3>2
  <2>7. ReadAll(ring) = [j \in 1 .. n |-> es[j]]
    BY <1>2, <2>5, <2>6
  <2> QED
    BY <1>1, <2>7, LenProperties
<1> QED
  BY <1>3, <1>4

-----------------------------------------------------------------------------
(* Enqueues. *)

\* One entry more.
Longer(p, n, len) == [i \in 1 .. n + 2 |-> IF i <= n + 1 THEN p[i] ELSE p[n + 1] + len]

LEMMA AppendIs ==
    ASSUME NEW es \in Seq(Entry), NEW e \in Entry
    PROVE  /\ Append(es, e) \in Seq(Entry) /\ Len(Append(es, e)) = Len(es) + 1
           /\ Append(es, e)[Len(es) + 1] = e
           /\ \A i \in 1 .. Len(es) : Append(es, e)[i] = es[i]
BY AppendProperties

LEMMA LayoutAppend ==
    ASSUME NEW es, NEW p, Layout(es, p), NEW e \in Entry
    PROVE  /\ Layout(Append(es, e), Longer(p, Len(es), RingLength(e)))
           /\ \A i \in 1 .. Len(es) + 1 : Longer(p, Len(es), RingLength(e))[i] = p[i]
           /\ Longer(p, Len(es), RingLength(e))[Len(es) + 2] = p[Len(es) + 1] + RingLength(e)
<1> DEFINE n == Len(es)
           len == RingLength(e)
           p2 == Longer(p, n, len)
           es2 == Append(es, e)
<1>1. /\ es2 \in Seq(Entry) /\ Len(es2) = n + 1 /\ es2[n + 1] = e /\ \A i \in 1 .. n : es2[i] = es[i]
  BY AppendIs DEF Layout
<1>2. n \in Nat /\ \A i \in 1 .. n + 1 : p[i] \in Nat
  BY LayoutIs
<1>3. len \in Nat /\ len > 0
  BY EntryIs
<1>4. /\ p[1] = 0
      /\ \A i \in 1 .. n : p[i + 1] = p[i] + RingLength(es[i])
      /\ \A i, k \in 1 .. n + 1 : i < k => p[i] < p[k]
      /\ \A d \in Nat : d < p[n + 1] => \E i \in 1 .. n : p[i] <= d /\ d < p[i + 1]
  BY DEF Layout
<1>5. DOMAIN p2 = 1 .. n + 2 /\ \A i \in 1 .. n + 2 : p2[i] = IF i <= n + 1 THEN p[i] ELSE p[n + 1] + len
  BY DEF Longer
<1>6. p2 = [i \in 1 .. n + 2 |-> p2[i]]
  BY DEF Longer
<1> HIDE DEF n, len, p2, es2
<1>7. (\A i \in 1 .. n + 1 : i \in 1 .. n + 2 /\ p2[i] = p[i]) /\ p2[n + 2] = p[n + 1] + len
  BY <1>2, <1>5
<1>8. n + 1 \in 1 .. n + 1 /\ 1 \in 1 .. n + 1 /\ p[n + 1] \in Nat /\ n + 1 + 1 = n + 2
  BY <1>2
<1>9. p2 \in [1 .. n + 2 -> Nat]
  <2>1. \A i \in 1 .. n + 2 : p2[i] \in Nat
    BY <1>2, <1>3, <1>5, <1>8
  <2> QED
    BY <1>6, <2>1
<1>10. ASSUME NEW i \in 1 .. n + 1
       PROVE  p2[i + 1] = p2[i] + RingLength(es2[i])
  <2>1. CASE i \in 1 .. n
    <3>1. i + 1 \in 1 .. n + 1
      BY <1>2, <2>1
    <3>2. p2[i + 1] = p[i + 1] /\ p2[i] = p[i] /\ es2[i] = es[i] /\ p[i + 1] = p[i] + RingLength(es[i])
      BY <1>1, <1>4, <1>7, <2>1, <3>1
    <3> QED
      BY <3>2
  <2>2. CASE i = n + 1
    BY <1>1, <1>7, <1>8, <2>2 DEF len
  <2> QED
    BY <1>2, <2>1, <2>2
<1>11. ASSUME NEW i \in 1 .. n + 2, NEW k \in 1 .. n + 2, i < k
       PROVE  p2[i] < p2[k]
  <2>1. i \in 1 .. n + 1
    BY <1>2, <1>11
  <2>2. CASE k \in 1 .. n + 1
    BY <1>4, <1>7, <1>11, <2>1, <2>2
  <2>3. CASE k \notin 1 .. n + 1
    <3>1. k = n + 2 /\ (i = n + 1 \/ i < n + 1)
      BY <1>2, <2>1, <2>3
    <3>2. p[i] <= p[n + 1] /\ p[i] \in Nat
      BY <1>2, <1>4, <1>8, <2>1, <3>1
    <3>3. p2[i] = p[i] /\ p2[k] = p[n + 1] + len
      BY <1>7, <2>1, <3>1
    <3> QED
      BY <1>3, <1>8, <3>2, <3>3
  <2> QED
    BY <2>2, <2>3
<1>12. ASSUME NEW d \in Nat, d < p2[n + 2]
       PROVE  \E i \in 1 .. n + 1 : p2[i] <= d /\ d < p2[i + 1]
  <2>1. CASE d < p[n + 1]
    <3>1. PICK i \in 1 .. n : p[i] <= d /\ d < p[i + 1]
      BY <1>4, <2>1
    <3>2. i \in 1 .. n + 1 /\ i + 1 \in 1 .. n + 1
      BY <1>2
    <3>3. p2[i] = p[i] /\ p2[i + 1] = p[i + 1]
      BY <1>7, <3>2
    <3> QED
      BY <3>1, <3>2, <3>3
  <2>2. CASE ~(d < p[n + 1])
    <3>1. p2[n + 1] = p[n + 1] /\ p[n + 1] <= d
      BY <1>7, <1>8, <2>2
    <3> QED
      BY <1>8, <1>12, <3>1
  <2> QED
    BY <2>1, <2>2
<1>13. p2[1] = 0
  BY <1>4, <1>7, <1>8
<1>14. Layout(es2, p2)
  BY <1>1, <1>8, <1>9, <1>10, <1>11, <1>12, <1>13 DEF Layout
<1> QED
  BY <1>7, <1>14 DEF n, len, p2, es2

\* Room for an entry is room between what is used and the capacity, and the tail moves by
\* the bytes of the entry (cls_queue_src.cc: queue_enqueue).
LEMMA RoomIs ==
    ASSUME NEW ring, NEW used, Uses(ring, used), NEW len \in Nat, len > 0
    PROVE  /\ (~IsFull(ring) /\ HasRoom(ring, len)) <=> used + len <= queue_get_capacity
           /\ used + len <= queue_get_capacity => TailAfter(ring.tail, len) = MarkerAt(ring, used + len)
<1> DEFINE fo == ring.front.offset
           fg == ring.front.gen
           to == ring.tail.offset
           tg == ring.tail.gen
           cap == queue_get_capacity
<1>1. used \in Nat /\ used <= cap
  BY Sizes0 DEF Uses
<1>2. fg \in Nat /\ fo \in Nat /\ MaxHeadSize <= fo /\ fo < QueueSize
  BY FrontIs DEF Uses
<1>3. \A c : /\ MarkerAt(ring, c).gen = IF fo + c < QueueSize THEN fg ELSE fg + 1
             /\ MarkerAt(ring, c).offset = IF fo + c < QueueSize THEN fo + c ELSE fo + c - cap
             /\ MarkerAt(ring, c) = [gen |-> MarkerAt(ring, c).gen, offset |-> MarkerAt(ring, c).offset]
  BY MarkerFields
<1>4. /\ to = IF fo + used < QueueSize THEN fo + used ELSE fo + used - cap
      /\ tg = IF fo + used < QueueSize THEN fg ELSE fg + 1
      /\ ring.tail = [gen |-> tg, offset |-> to]
  BY <1>3 DEF Uses
<1>5. HasRoom(ring, len) <=> IF to >= fo THEN to + len <= QueueSize \/ len <= (QueueSize - to) + (fo - MaxHeadSize)
                             ELSE to + len <= fo
  BY DEF HasRoom, RemainingSize
<1>6. IsFull(ring) <=> used = cap
  BY EmptyIs
<1>7. TailAfter(ring.tail, len) =
          IF to + len < QueueSize THEN [gen |-> tg, offset |-> to + len]
          ELSE IF to + len = QueueSize THEN [gen |-> tg + 1, offset |-> MaxHeadSize]
          ELSE [gen |-> tg + 1, offset |-> MaxHeadSize + (len - (QueueSize - to))]
  <2>1. to \in Nat /\ QueueSize \in Nat
    BY <1>1, <1>2, <1>4, Sizes0
  <2>2. CASE to + len < QueueSize
    BY <1>4, <2>1, <2>2 DEF TailAfter, WrapMarker
  <2>3. CASE to + len = QueueSize
    BY <1>4, <2>1, <2>3 DEF TailAfter, WrapMarker
  <2>4. CASE to + len > QueueSize
    BY <1>4, <2>1, <2>4 DEF TailAfter
  <2> QED
    BY <2>1, <2>2, <2>3, <2>4
<1> HIDE DEF fo, fg, to, tg, cap
<1>8. cap \in Nat /\ cap = QueueSize - MaxHeadSize
  BY Sizes0 DEF cap
<1>9. (~IsFull(ring) /\ HasRoom(ring, len)) <=> used + len <= cap
  BY <1>1, <1>2, <1>4, <1>5, <1>6, <1>8, Sizes0
<1>10. ASSUME used + len <= cap
       PROVE  TailAfter(ring.tail, len) = MarkerAt(ring, used + len)
  <2> DEFINE x == used + len
             g == MarkerAt(ring, x).gen
             o == MarkerAt(ring, x).offset
  <2>1. /\ MarkerAt(ring, x) = [gen |-> g, offset |-> o]
        /\ g = IF fo + x < QueueSize THEN fg ELSE fg + 1
        /\ o = IF fo + x < QueueSize THEN fo + x ELSE fo + x - cap
    BY <1>3
  <2> HIDE DEF g, o
  <2>2. CASE to + len < QueueSize
    <3>1. g = tg /\ o = to + len
      BY <1>1, <1>2, <1>4, <1>8, <1>10, <2>1, <2>2, Sizes0
    <3> QED
      BY <1>7, <2>1, <2>2, <3>1
  <2>3. CASE to + len = QueueSize
    <3>1. g = tg + 1 /\ o = MaxHeadSize
      BY <1>1, <1>2, <1>4, <1>8, <1>10, <2>1, <2>3, Sizes0
    <3>2. ~(to + len < QueueSize)
      BY <2>3, Sizes0
    <3> QED
      BY <1>7, <2>1, <2>3, <3>1, <3>2
  <2>4. CASE to + len > QueueSize
    <3>1. g = tg + 1 /\ o = MaxHeadSize + (len - (QueueSize - to))
      BY <1>1, <1>2, <1>4, <1>8, <1>10, <2>1, <2>4, Sizes0
    <3>2. ~(to + len < QueueSize) /\ to + len # QueueSize
      BY <1>1, <1>2, <1>4, <1>8, <2>4, Sizes0
    <3> QED
      BY <1>7, <2>1, <3>1, <3>2
  <2> QED
    BY <1>1, <1>2, <1>4, <1>8, <2>2, <2>3, <2>4, Sizes0
<1> QED
  BY <1>9, <1>10 DEF cap

\* Writing an entry behind what is used: its bytes are written, and none before it.
LEMMA WriteIs ==
    ASSUME NEW ring, NEW used, Uses(ring, used), NEW e \in Entry, used + RingLength(e) <= queue_get_capacity
    PROVE  LET data == WriteEntry(ring.data, ring.tail.offset, e)
           IN  /\ data \in [Offset -> Cell]
               /\ \A d \in Nat : d < used => data[MarkerAt(ring, d).offset] = ring.data[MarkerAt(ring, d).offset]
               /\ \A j \in Nat : j < RingLength(e) => data[MarkerAt(ring, used + j).offset] = CellOf(e, j)
               /\ \A o \in Offset : data[o] = ring.data[o] \/ (data[o].id = e.id /\ data[o].size = e.size /\ data[o].at \in Nat)
<1> DEFINE len == RingLength(e)
           data == WriteEntry(ring.data, ring.tail.offset, e)
           cap == queue_get_capacity
           to == ring.tail.offset
<1>1. /\ used \in Nat /\ used < cap /\ len \in Nat /\ len > 0 /\ cap \in Nat
      /\ HasFront(ring) /\ to = MarkerAt(ring, used).offset
  <2>1. len \in Nat /\ len > 0 /\ used \in Nat
    BY EntryIs, Sizes0 DEF Uses
  <2> QED
    BY <2>1, Sizes0 DEF Uses
<1>2. \A o \in Offset : data[o] = IF RingDistance(to, o) < len THEN CellOf(e, RingDistance(to, o)) ELSE ring.data[o]
  BY DEF WriteEntry, CellOf
<1>3. \A d \in Nat : d < cap => MarkerAt(ring, d).offset \in Offset
  <2>1. \A d \in Nat : d < cap => d \in 0 .. queue_get_capacity
    BY <1>1
  <2> QED
    BY <1>1, <2>1, MarkerIs
<1>4. to \in Offset
  BY <1>1, <1>3
<1>5. ASSUME NEW o \in Offset PROVE RingDistance(to, o) \in Nat
  BY <1>4, Sizes0 DEF RingDistance, Offset
<1>6. data \in [Offset -> Cell]
  <2>1. ring.data \in [Offset -> Cell]
    BY <1>1, FrontIs
  <2>2. \A o \in Offset : data[o] \in Cell
    <3> SUFFICES ASSUME NEW o \in Offset PROVE data[o] \in Cell
      OBVIOUS
    <3>1. CellOf(e, RingDistance(to, o)) \in Cell
      BY <1>5, EntryIs DEF CellOf, Cell
    <3> HIDE DEF data
    <3> QED
      BY <1>2, <2>1, <3>1
  <2>3. data = [o \in Offset |-> data[o]]
    BY DEF WriteEntry
  <2> HIDE DEF data
  <2> QED
    BY <2>2, <2>3
<1> HIDE DEF data, len, to, cap
<1>7. ASSUME NEW d \in Nat, d < used
      PROVE  data[MarkerAt(ring, d).offset] = ring.data[MarkerAt(ring, d).offset]
  <2>1. d < cap
    BY <1>1, <1>7
  <2>2. RingDistance(to, MarkerAt(ring, d).offset) = IF d >= used THEN d - used ELSE cap - used + d
    BY <1>1, <2>1, DistanceIs DEF cap
  <2>3. ~(RingDistance(to, MarkerAt(ring, d).offset) < len)
    BY <1>1, <1>7, <2>2 DEF len, cap
  <2> QED
    BY <1>2, <1>3, <2>1, <2>3
<1>8. ASSUME NEW j \in Nat, j < len
      PROVE  data[MarkerAt(ring, used + j).offset] = CellOf(e, j)
  <2>1. used + j \in Nat /\ used + j < cap
    BY <1>1, <1>8 DEF len, cap
  <2>2. RingDistance(to, MarkerAt(ring, used + j).offset) = IF used + j >= used THEN (used + j) - used ELSE cap - used + (used + j)
    BY <1>1, <2>1, DistanceIs DEF cap
  <2>3. RingDistance(to, MarkerAt(ring, used + j).offset) = j
    BY <1>1, <2>2
  <2> QED
    BY <1>2, <1>3, <1>8, <2>1, <2>3
<1>9. \A o \in Offset : data[o] = ring.data[o] \/ (data[o].id = e.id /\ data[o].size = e.size /\ data[o].at \in Nat)
  <2> SUFFICES ASSUME NEW o \in Offset
               PROVE  data[o] = ring.data[o] \/ (data[o].id = e.id /\ data[o].size = e.size /\ data[o].at \in Nat)
    OBVIOUS
  <2>1. CASE data[o] = CellOf(e, RingDistance(to, o))
    BY <1>5, <2>1 DEF CellOf
  <2> QED
    BY <1>2, <2>1
<1> QED
  BY <1>6, <1>7, <1>8, <1>9 DEF data, to, len

\* An enqueue of one entry appends it if it fits, and is turned away if it does not.
LEMMA EnqueueIs ==
    ASSUME NEW ring, NEW es, NEW p, Layout(es, p), Holds(ring, es, p), NEW e \in Entry
    PROVE  LET r == queue_enqueue(ring, <<e>>)
               p2 == Longer(p, Len(es), RingLength(e))
           IN  /\ p[Len(es) + 1] + RingLength(e) <= queue_get_capacity =>
                      /\ r.ret = OK /\ Layout(Append(es, e), p2) /\ Holds(r.q, Append(es, e), p2)
                      /\ r.q.front = ring.front
                      /\ r.q.tail.gen \in {ring.tail.gen, ring.tail.gen + 1}
                      /\ \A o \in Offset : \/ r.q.data[o] = ring.data[o]
                                           \/ r.q.data[o].id = e.id /\ r.q.data[o].size = e.size /\ r.q.data[o].at \in Nat
                      /\ \A d \in Nat : d < p[Len(es) + 1] =>
                             r.q.data[MarkerAt(ring, d).offset] = ring.data[MarkerAt(ring, d).offset]
               /\ ~(p[Len(es) + 1] + RingLength(e) <= queue_get_capacity) => r = [ret |-> ENOSPC, q |-> ring]
<1> DEFINE n == Len(es)
           len == RingLength(e)
           used == p[n + 1]
           p2 == Longer(p, n, len)
           es2 == Append(es, e)
           t == TailAfter(ring.tail, len)
           data == WriteEntry(ring.data, ring.tail.offset, e)
           new == [ring EXCEPT !.tail = t, !.data = data]
           r == queue_enqueue(ring, <<e>>)
<1>1. Uses(ring, used) /\ len \in Nat /\ len > 0 /\ n \in Nat /\ used \in Nat
  BY EntryIs, LayoutIs, Sizes0 DEF Holds, Uses
<1>2. /\ (~IsFull(ring) /\ HasRoom(ring, len)) <=> used + len <= queue_get_capacity
      /\ used + len <= queue_get_capacity => t = MarkerAt(ring, used + len)
  BY <1>1, RoomIs
<1>3. r = IF ~IsFull(ring) /\ HasRoom(ring, len) THEN [ret |-> OK, q |-> new] ELSE [ret |-> ENOSPC, q |-> ring]
  BY DEF queue_enqueue, EnqueueOne, OK, ENOSPC
<1>4. ASSUME ~(used + len <= queue_get_capacity)
      PROVE  r = [ret |-> ENOSPC, q |-> ring]
  <2> HIDE DEF r, new, len, used
  <2> QED
    BY <1>2, <1>3, <1>4
<1>5. ASSUME used + len <= queue_get_capacity
      PROVE  /\ r.ret = OK /\ Layout(es2, p2) /\ Holds(r.q, es2, p2)
             /\ r.q.front = ring.front
             /\ r.q.tail.gen \in {ring.tail.gen, ring.tail.gen + 1}
             /\ \A o \in Offset : \/ r.q.data[o] = ring.data[o]
                                  \/ r.q.data[o].id = e.id /\ r.q.data[o].size = e.size /\ r.q.data[o].at \in Nat
             /\ \A d \in Nat : d < used => r.q.data[MarkerAt(ring, d).offset] = ring.data[MarkerAt(ring, d).offset]
  <2>1. r.ret = OK /\ r.q = new
    <3> HIDE DEF new, len, used, r
    <3> QED
      BY <1>2, <1>3, <1>5
  <2>2. /\ data \in [Offset -> Cell]
        /\ \A d \in Nat : d < used => data[MarkerAt(ring, d).offset] = ring.data[MarkerAt(ring, d).offset]
        /\ \A j \in Nat : j < len => data[MarkerAt(ring, used + j).offset] = CellOf(e, j)
        /\ \A o \in Offset : data[o] = ring.data[o] \/ (data[o].id = e.id /\ data[o].size = e.size /\ data[o].at \in Nat)
    BY <1>1, <1>5, WriteIs
  <2>3. t.gen \in {ring.tail.gen, ring.tail.gen + 1}
    <3>1. ring.tail = [gen |-> ring.tail.gen, offset |-> ring.tail.offset]
      BY <1>1, FrontIs DEF Uses, Marker
    <3>2. CASE ring.tail.offset + len <= QueueSize
      BY <3>1, <3>2 DEF TailAfter, WrapMarker
    <3>3. CASE ~(ring.tail.offset + len <= QueueSize)
      BY <3>3 DEF TailAfter
    <3> QED
      BY <3>2, <3>3
  <2>4. /\ Layout(es2, p2)
        /\ \A i \in 1 .. n + 1 : p2[i] = p[i]
        /\ p2[n + 2] = used + len
    BY LayoutAppend
  <2>5. Len(es2) = n + 1 /\ es2[n + 1] = e /\ \A i \in 1 .. n : es2[i] = es[i]
    BY AppendIs DEF Layout
  <2>6. t = MarkerAt(ring, used + len) /\ t \in Marker /\ used + len \in 0 .. queue_get_capacity
    <3>1. used + len \in 0 .. queue_get_capacity
      BY <1>1, <1>5, Sizes0
    <3> QED
      BY <1>1, <1>2, <1>5, <3>1, MarkerIs DEF Uses
  <2> HIDE DEF t, data, len, used, p2, es2, r
  <2>7. /\ new.front = ring.front /\ new.tail = t /\ new.data = data /\ new \in Queue
    BY <1>1, <2>2, <2>6 DEF Uses, HasFront, Queue
  <2> HIDE DEF new
  <2>8. \A d : MarkerAt(new, d) = MarkerAt(ring, d)
    BY <2>7 DEF MarkerAt
  <2>9. Uses(new, used + len)
    BY <1>1, <2>6, <2>7, <2>8 DEF Uses, HasFront
  <2>10. ASSUME NEW i \in 1 .. n + 1, NEW j \in Nat, j < RingLength(es2[i])
         PROVE  new.data[MarkerAt(new, p2[i] + j).offset] = CellOf(es2[i], j)
    <3>1. CASE i \in 1 .. n
      <4>1. p2[i] = p[i] /\ es2[i] = es[i]
        BY <1>1, <2>4, <2>5, <3>1
      <4>2. ring.data[MarkerAt(ring, p[i] + j).offset] = CellOf(es[i], j)
        BY <2>10, <3>1, <4>1 DEF Holds
      <4>3. p[i] + j \in Nat /\ p[i] + j < used
        <5>1. i + 1 \in 1 .. n + 1 /\ i \in 1 .. n + 1
          BY <1>1, <3>1
        <5>2. p[i] \in Nat /\ p[i + 1] = p[i] + RingLength(es[i]) /\ p[i + 1] <= used /\ es[i] \in Entry
          BY <3>1, <5>1, LayoutIs DEF used
        <5>3. RingLength(es[i]) \in Nat
          BY <5>2, EntryIs
        <5> QED
          BY <1>1, <2>10, <4>1, <5>2, <5>3
      <4> QED
        BY <2>2, <2>7, <2>8, <4>1, <4>2, <4>3
    <3>2. CASE i = n + 1
      <4>1. p2[i] = used /\ es2[i] = e
        BY <1>1, <2>4, <2>5, <3>2 DEF used
      <4> QED
        BY <2>2, <2>7, <2>8, <2>10, <4>1 DEF len
    <3> QED
      BY <1>1, <3>1, <3>2
  <2>11. Holds(new, es2, p2)
    <3>1. Len(es2) + 1 = n + 2
      BY <1>1, <2>5
    <3> QED
      BY <2>4, <2>5, <2>9, <2>10, <3>1 DEF Holds
  <2> QED
    BY <2>1, <2>2, <2>3, <2>4, <2>7, <2>11
<1> HIDE DEF r, p2, es2, used, len
<1> QED
  BY <1>4, <1>5 DEF r, p2, es2, used, len

-----------------------------------------------------------------------------
(* Removals. *)

\* The entries from entry i on.
Shorter(p, i, n) == [k \in 1 .. n - i + 2 |-> p[k + i - 1] - p[i]]

LEMMA DropIs ==
    ASSUME NEW es \in Seq(Entry), NEW i \in 1 .. Len(es) + 1
    PROVE  /\ SubSeq(es, i, Len(es)) \in Seq(Entry) /\ Len(SubSeq(es, i, Len(es))) = Len(es) - i + 1
           /\ \A k \in 1 .. Len(es) - i + 1 : SubSeq(es, i, Len(es))[k] = es[k + i - 1]
<1>1. Len(es) \in Nat
  BY LenProperties
<1>2. \A k \in i .. Len(es) : es[k] \in Entry
  BY <1>1
<1>3. /\ SubSeq(es, i, Len(es)) \in Seq(Entry)
      /\ Len(SubSeq(es, i, Len(es))) = IF i <= Len(es) THEN Len(es) - i + 1 ELSE 0
      /\ \A k \in 1 .. Len(es) - i + 1 : SubSeq(es, i, Len(es))[k] = es[i + k - 1]
  BY <1>1, <1>2, SubSeqProperties
<1>4. \A k \in 1 .. Len(es) - i + 1 : i + k - 1 = k + i - 1
  BY <1>1
<1> QED
  BY <1>1, <1>3, <1>4

LEMMA LayoutDrop ==
    ASSUME NEW es, NEW p, Layout(es, p), NEW i \in 1 .. Len(es) + 1
    PROVE  /\ Layout(SubSeq(es, i, Len(es)), Shorter(p, i, Len(es)))
           /\ \A k \in 1 .. Len(es) - i + 2 : Shorter(p, i, Len(es))[k] = p[k + i - 1] - p[i]
<1> DEFINE n == Len(es)
           es2 == SubSeq(es, i, n)
           p2 == Shorter(p, i, n)
           N == n - i + 1
<1>1. /\ n \in Nat /\ i \in 1 .. n + 1 /\ N \in Nat /\ N + 1 = n - i + 2
      /\ \A k \in 1 .. n + 1 : p[k] \in Nat
      /\ \A k, l \in 1 .. n + 1 : k <= l => p[k] <= p[l]
      /\ \A k, l \in 1 .. n + 1 : k < l => p[k] < p[l]
  <2>1. n \in Nat
    BY LayoutIs
  <2>2. N \in Nat /\ N + 1 = n - i + 2
    BY <2>1
  <2> QED
    BY <2>1, <2>2, LayoutIs DEF Layout
<1>2. es2 \in Seq(Entry) /\ Len(es2) = N /\ \A k \in 1 .. N : es2[k] = es[k + i - 1]
  BY DropIs DEF Layout
<1>3. p2 = [k \in 1 .. n - i + 2 |-> p[k + i - 1] - p[i]]
  BY DEF Shorter
<1>4. \A k \in 1 .. n - i + 2 : p2[k] = p[k + i - 1] - p[i]
  BY <1>3
<1> HIDE DEF n, es2, p2, N
<1>5. ASSUME NEW k \in 1 .. N + 1
      PROVE  /\ k + i - 1 \in 1 .. n + 1 /\ i <= k + i - 1 /\ p[k + i - 1] \in Nat /\ p[i] \in Nat
             /\ p[i] <= p[k + i - 1] /\ p2[k] = p[k + i - 1] - p[i] /\ p2[k] \in Nat
  <2>1. k + i - 1 \in 1 .. n + 1 /\ i <= k + i - 1
    BY <1>1
  <2>2. p[k + i - 1] \in Nat /\ p[i] \in Nat /\ p[i] <= p[k + i - 1]
    BY <1>1, <2>1
  <2>3. p2[k] = p[k + i - 1] - p[i]
    BY <1>1, <1>4
  <2> QED
    BY <2>1, <2>2, <2>3
<1>6. p2 \in [1 .. N + 1 -> Nat]
  <2>1. p2 = [k \in 1 .. N + 1 |-> p2[k]]
    BY <1>1, <1>3
  <2> QED
    BY <1>5, <2>1
<1>7. p2[1] = 0
  <2>1. 1 \in 1 .. N + 1 /\ 1 + i - 1 = i
    BY <1>1
  <2> QED
    BY <1>5, <2>1
<1>8. ASSUME NEW k \in 1 .. N
      PROVE  p2[k + 1] = p2[k] + RingLength(es2[k])
  <2>1. k + 1 \in 1 .. N + 1 /\ k \in 1 .. N + 1 /\ (k + 1) + i - 1 = (k + i - 1) + 1 /\ k + i - 1 \in 1 .. n
    BY <1>1 DEF N
  <2>2. p[(k + i - 1) + 1] = p[k + i - 1] + RingLength(es[k + i - 1]) /\ es[k + i - 1] \in Entry
    BY <2>1, LayoutIs DEF n
  <2>3. RingLength(es[k + i - 1]) \in Nat
    BY <2>2, EntryIs
  <2>4. es2[k] = es[k + i - 1]
    BY <1>2
  <2>5. p2[k + 1] = p[(k + i - 1) + 1] - p[i] /\ p2[k] = p[k + i - 1] - p[i] /\ p[k + i - 1] \in Nat /\ p[i] \in Nat
    BY <1>5, <2>1
  <2> QED
    BY <2>2, <2>3, <2>4, <2>5
<1>9. ASSUME NEW k \in 1 .. N + 1, NEW l \in 1 .. N + 1, k < l
      PROVE  p2[k] < p2[l]
  <2>1. k + i - 1 < l + i - 1
    BY <1>1, <1>9
  <2>2. p[k + i - 1] < p[l + i - 1]
    BY <1>1, <1>5, <2>1
  <2> QED
    BY <1>5, <2>2
<1>10. ASSUME NEW d \in Nat, d < p2[N + 1]
       PROVE  \E k \in 1 .. N : p2[k] <= d /\ d < p2[k + 1]
  <2>1. N + 1 \in 1 .. N + 1 /\ (N + 1) + i - 1 = n + 1
    BY <1>1 DEF N
  <2>2. p[i] \in Nat /\ p[n + 1] \in Nat /\ p2[N + 1] = p[n + 1] - p[i]
    BY <1>5, <2>1
  <2>3. p[i] + d \in Nat /\ p[i] + d < p[n + 1]
    BY <1>10, <2>2
  <2>4. PICK m \in 1 .. n : p[m] <= p[i] + d /\ p[i] + d < p[m + 1]
    BY <2>3 DEF Layout, n
  <2>5. m + 1 \in 1 .. n + 1 /\ p[m + 1] \in Nat /\ p[m] \in Nat /\ m \in 1 .. n + 1
    BY <1>1
  <2>6. i < m + 1
    <3>1. p[i] < p[m + 1]
      BY <2>2, <2>4, <2>5
    <3> QED
      BY <2>5, <3>1, LayoutIs DEF n
  <2>7. PICK k \in 1 .. N : k + i - 1 = m
    <3>1. m - i + 1 \in 1 .. N /\ (m - i + 1) + i - 1 = m
      BY <1>1, <2>6 DEF N
    <3> QED
      BY <3>1
  <2>8. k \in 1 .. N + 1 /\ k + 1 \in 1 .. N + 1 /\ (k + 1) + i - 1 = m + 1
    BY <1>1, <2>7
  <2>9. p2[k] = p[m] - p[i] /\ p2[k + 1] = p[m + 1] - p[i]
    BY <1>5, <2>7, <2>8
  <2>10. p2[k] <= d /\ d < p2[k + 1]
    BY <2>2, <2>4, <2>5, <2>9
  <2> QED
    BY <2>10
<1>11. Layout(es2, p2)
  BY <1>2, <1>6, <1>7, <1>8, <1>9, <1>10 DEF Layout
<1> QED
  BY <1>4, <1>11 DEF n, es2, p2

\* A marker behind the front.
Past(m, front) == m.gen < front.gen \/ (m.gen = front.gen /\ m.offset < front.offset)

\* A ring whose front has moved to byte a, and what removes the bytes before it.
LEMMA FrontMoves ==
    ASSUME NEW ring, HasFront(ring), NEW a \in Nat, a <= queue_get_capacity
    PROVE  LET end == MarkerAt(ring, a)
           IN  /\ Ahead(ring, end)
               /\ \A d \in Nat : a <= d /\ d < queue_get_capacity =>
                      MarkerAt(ring, d).offset \notin Removed(ring, end)
               /\ \A new : new.front = end =>
                      \A d \in Nat : a + d <= queue_get_capacity => MarkerAt(new, d) = MarkerAt(ring, a + d)
               /\ \A m \in Marker : Past(m, ring.front) => Past(m, end) /\ ~Ahead(ring, m)
               /\ \A b \in Nat : b < a => Past(MarkerAt(ring, b), end)
               /\ end.gen \in {ring.front.gen, ring.front.gen + 1}
<1> DEFINE fo == ring.front.offset
           fg == ring.front.gen
           end == MarkerAt(ring, a)
           cap == queue_get_capacity
<1>1. fg \in Nat /\ fo \in Nat /\ MaxHeadSize <= fo /\ fo < QueueSize
  BY FrontIs
<1>2. \A c : /\ MarkerAt(ring, c).gen = IF fo + c < QueueSize THEN fg ELSE fg + 1
             /\ MarkerAt(ring, c).offset = IF fo + c < QueueSize THEN fo + c ELSE fo + c - cap
             /\ MarkerAt(ring, c) = [gen |-> MarkerAt(ring, c).gen, offset |-> MarkerAt(ring, c).offset]
  BY MarkerFields
<1>3. /\ end.gen = IF fo + a < QueueSize THEN fg ELSE fg + 1
      /\ end.offset = IF fo + a < QueueSize THEN fo + a ELSE fo + a - cap
  BY <1>2
<1>4. \A m : Ahead(ring, m) <=> (m.gen = fg /\ m.offset >= fo) \/ (m.gen = fg + 1 /\ m.offset <= fo)
  BY DEF Ahead
<1>5. \A m, f : Past(m, f) <=> m.gen < f.gen \/ (m.gen = f.gen /\ m.offset < f.offset)
  BY DEF Past
<1>6. \A o : o \in Removed(ring, end) => IF end.gen = fg THEN fo <= o /\ o < end.offset ELSE fo <= o \/ o < end.offset
  BY DEF Removed
<1>7. \A new, d : new.front = end =>
          MarkerAt(new, d) = IF end.offset + d < QueueSize THEN [gen |-> end.gen, offset |-> end.offset + d]
                             ELSE [gen |-> end.gen + 1, offset |-> end.offset + d - cap]
  BY DEF MarkerAt
<1>8. \A m : Past(m, ring.front) <=> m.gen < fg \/ (m.gen = fg /\ m.offset < fo)
  BY DEF Past
<1> HIDE DEF fo, fg, end, cap
<1>9. cap \in Nat /\ cap = QueueSize - MaxHeadSize /\ a <= cap
  BY Sizes0 DEF cap
<1>10. Ahead(ring, end)
  BY <1>1, <1>3, <1>4, <1>9, Sizes0
<1>11. ASSUME NEW d \in Nat, a <= d, d < cap
       PROVE  MarkerAt(ring, d).offset \notin Removed(ring, end)
  <2>1. MarkerAt(ring, d).offset = IF fo + d < QueueSize THEN fo + d ELSE fo + d - cap
    BY <1>2
  <2> QED
    BY <1>1, <1>3, <1>6, <1>9, <1>11, <2>1, Sizes0
<1>12. ASSUME NEW new, new.front = end, NEW d \in Nat, a + d <= cap
       PROVE  MarkerAt(new, d) = MarkerAt(ring, a + d)
  <2> DEFINE x == a + d
             g == MarkerAt(ring, x).gen
             o == MarkerAt(ring, x).offset
  <2>1. /\ MarkerAt(ring, x) = [gen |-> g, offset |-> o]
        /\ g = IF fo + x < QueueSize THEN fg ELSE fg + 1
        /\ o = IF fo + x < QueueSize THEN fo + x ELSE fo + x - cap
    BY <1>2
  <2> HIDE DEF g, o
  <2>2. CASE end.offset + d < QueueSize
    <3>1. g = end.gen /\ o = end.offset + d
      BY <1>1, <1>3, <1>9, <1>12, <2>1, <2>2, Sizes0
    <3> QED
      BY <1>7, <1>12, <2>1, <2>2, <3>1
  <2>3. CASE ~(end.offset + d < QueueSize)
    <3>1. g = end.gen + 1 /\ o = end.offset + d - cap
      BY <1>1, <1>3, <1>9, <1>12, <2>1, <2>3, Sizes0
    <3> QED
      BY <1>7, <1>12, <2>1, <2>3, <3>1
  <2> QED
    BY <2>2, <2>3
<1>13. ASSUME NEW m \in Marker, Past(m, ring.front)
       PROVE  Past(m, end) /\ ~Ahead(ring, m)
  <2>1. m.gen \in Nat /\ m.offset \in Nat
    BY DEF Marker
  <2> QED
    BY <1>1, <1>3, <1>4, <1>5, <1>8, <1>9, <1>13, <2>1, Sizes0
<1>14. ASSUME NEW b \in Nat, b < a
       PROVE  Past(MarkerAt(ring, b), end)
  <2>1. /\ MarkerAt(ring, b).gen = IF fo + b < QueueSize THEN fg ELSE fg + 1
        /\ MarkerAt(ring, b).offset = IF fo + b < QueueSize THEN fo + b ELSE fo + b - cap
    BY <1>2
  <2> QED
    BY <1>1, <1>3, <1>5, <1>9, <1>14, <2>1, Sizes0
<1>15. end.gen \in {fg, fg + 1}
  BY <1>3
<1> QED
  BY <1>10, <1>11, <1>12, <1>13, <1>14, <1>15 DEF end, cap, fg

\* A removal up to the start of entry i drops the entries before it.
LEMMA RemoveIs ==
    ASSUME NEW ring, NEW es, NEW p, Layout(es, p), Holds(ring, es, p), NEW i \in 1 .. Len(es) + 1,
           ~IsEmpty(ring)
    PROVE  LET r == queue_remove_entries(ring, MarkerAt(ring, p[i]))
           IN  /\ r.ret = OK
               /\ Holds(r.q, SubSeq(es, i, Len(es)), Shorter(p, i, Len(es)))
               /\ r.q.front = MarkerAt(ring, p[i]) /\ r.q.tail = ring.tail
               /\ \A o \in Offset : r.q.data[o] = ring.data[o] \/ r.q.data[o] = ZeroCell
<1> DEFINE n == Len(es)
           cap == queue_get_capacity
           end == MarkerAt(ring, p[i])
           es2 == SubSeq(es, i, n)
           p2 == Shorter(p, i, n)
           data == [o \in Offset |-> IF o \in Removed(ring, end) THEN ZeroCell ELSE ring.data[o]]
           new == [ring EXCEPT !.front = end, !.data = data]
           r == queue_remove_entries(ring, end)
<1>1. /\ n \in Nat /\ HasFront(ring) /\ ring.tail = MarkerAt(ring, p[n + 1]) /\ cap \in Nat
      /\ p[i] \in Nat /\ p[n + 1] \in Nat /\ p[i] <= p[n + 1] /\ p[n + 1] <= cap /\ p[i] <= cap
  <2>1. n \in Nat /\ n + 1 \in 1 .. n + 1
    BY LayoutIs
  <2>2. p[i] \in Nat /\ p[n + 1] \in Nat /\ p[i] <= p[n + 1]
    BY <2>1, LayoutIs
  <2>3. HasFront(ring) /\ ring.tail = MarkerAt(ring, p[n + 1]) /\ p[n + 1] \in 0 .. cap
    BY DEF Holds, Uses
  <2> QED
    BY <2>1, <2>2, <2>3, Sizes0
<1>2. /\ Ahead(ring, end)
      /\ \A d \in Nat : p[i] <= d /\ d < cap => MarkerAt(ring, d).offset \notin Removed(ring, end)
      /\ \A ring2 : ring2.front = end =>
             \A d \in Nat : p[i] + d <= cap => MarkerAt(ring2, d) = MarkerAt(ring, p[i] + d)
  BY <1>1, FrontMoves
<1>3. \A d \in Nat : d <= cap => /\ MarkerAt(ring, d) \in Marker /\ MarkerAt(ring, d).offset \in Offset
                                 /\ WrapMarker(MarkerAt(ring, d)) = MarkerAt(ring, d)
  <2>1. \A d \in Nat : d <= cap => d \in 0 .. queue_get_capacity
    BY <1>1
  <2> QED
    BY <1>1, <2>1, MarkerIs
<1>4. r = [ret |-> OK, q |-> new]
  <2>1. WrapMarker(end) = end
    BY <1>1, <1>3
  <2>2. queue_remove_entries(ring, end) = [ret |-> OK, q |-> [ring EXCEPT !.front = WrapMarker(end), !.data = data]]
    BY <1>2 DEF queue_remove_entries
  <2> QED
    BY <2>1, <2>2
<1>5. ring.data \in [Offset -> Cell] /\ ring \in Queue
  BY <1>1, FrontIs DEF HasFront
<1>6. data \in [Offset -> Cell]
  BY <1>5 DEF Cell, ZeroCell
<1>7. \A o \in Offset : data[o] = IF o \in Removed(ring, end) THEN ZeroCell ELSE ring.data[o]
  OBVIOUS
<1>8. end \in Marker /\ end.offset \in Offset
  BY <1>1, <1>3
<1> HIDE DEF data, end
<1>9. new.front = end /\ new.tail = ring.tail /\ new.data = data /\ new \in Queue
  BY <1>5, <1>6, <1>8 DEF Queue
<1> HIDE DEF new
<1>10. HasFront(new)
  BY <1>8, <1>9 DEF HasFront
<1>11. \A d \in Nat : p[i] + d <= cap => MarkerAt(new, d) = MarkerAt(ring, p[i] + d)
  BY <1>2, <1>9
<1>12. /\ \A k \in 1 .. n - i + 2 : p2[k] = p[k + i - 1] - p[i]
       /\ Len(es2) = n - i + 1 /\ \A k \in 1 .. n - i + 1 : es2[k] = es[k + i - 1]
  <2>1. \A k \in 1 .. n - i + 2 : p2[k] = p[k + i - 1] - p[i]
    BY LayoutDrop
  <2>2. es \in Seq(Entry)
    BY DEF Layout
  <2>3. Len(es2) = n - i + 1 /\ \A k \in 1 .. n - i + 1 : es2[k] = es[k + i - 1]
    BY <2>2, DropIs
  <2> HIDE DEF es2, p2
  <2> QED
    BY <2>1, <2>3
<1> HIDE DEF es2, p2, cap
<1>13. p2[Len(es2) + 1] = p[n + 1] - p[i]
  <2>1. Len(es2) + 1 = n - i + 2 /\ n - i + 2 \in 1 .. n - i + 2 /\ (n - i + 2) + i - 1 = n + 1
    BY <1>1, <1>12
  <2> QED
    BY <1>12, <2>1
<1>14. Uses(new, p2[Len(es2) + 1])
  <2>1. p[n + 1] - p[i] \in Nat /\ p[i] + (p[n + 1] - p[i]) = p[n + 1] /\ p[n + 1] - p[i] \in 0 .. cap
    BY <1>1
  <2>2. MarkerAt(new, p[n + 1] - p[i]) = new.tail
    BY <1>1, <1>9, <1>11, <2>1
  <2> QED
    BY <1>10, <1>13, <2>1, <2>2 DEF Uses, cap
<1>15. ASSUME NEW k \in 1 .. Len(es2), NEW j \in Nat, j < RingLength(es2[k])
       PROVE  new.data[MarkerAt(new, p2[k] + j).offset] = CellOf(es2[k], j)
  <2>1. PICK m \in 1 .. n : m = k + i - 1
    BY <1>1, <1>12
  <2>2. m + 1 \in 1 .. n + 1 /\ m \in 1 .. n + 1 /\ i <= m /\ k \in 1 .. n - i + 2 /\ k \in 1 .. n - i + 1
    BY <1>1, <1>12, <2>1
  <2>3. p2[k] = p[m] - p[i] /\ es2[k] = es[m]
    BY <1>12, <2>1, <2>2
  <2>4. /\ p[m] \in Nat /\ p[m + 1] = p[m] + RingLength(es[m]) /\ p[m + 1] <= p[n + 1] /\ es[m] \in Entry
        /\ p[i] <= p[m]
    BY <2>1, <2>2, LayoutIs
  <2>5. RingLength(es[m]) \in Nat
    BY <2>4, EntryIs
  <2>6. PICK d \in Nat : d = p[m] + j
    BY <2>4
  <2>7. j < RingLength(es[m])
    BY <1>15, <2>3
  <2> DEFINE a == p[i]
             b == p[m]
             e == p[n + 1]
             l == RingLength(es[m])
  <2>8a. a \in Nat /\ b \in Nat /\ e \in Nat /\ l \in Nat /\ a <= b /\ b + l <= e /\ e <= cap /\ cap \in Nat
         /\ d = b + j /\ j < l /\ p2[k] = b - a
    BY <1>1, <2>3, <2>4, <2>5, <2>6, <2>7
  <2> HIDE DEF a, b, e, l
  <2>8b. a <= d /\ d < cap /\ (b - a) + j \in Nat /\ a + ((b - a) + j) = d
    BY <2>8a
  <2>8. p[i] <= d /\ d < cap
    BY <2>8b DEF a
  <2>9. PICK x \in Nat : x = p2[k] + j /\ p[i] + x = d /\ p[i] + x <= cap
    <3>1. \E x \in Nat : x = p2[k] + j /\ a + x = d /\ a + x <= cap
      BY <2>8a, <2>8b
    <3> QED
      BY <3>1 DEF a
  <2>10. MarkerAt(new, x) = MarkerAt(ring, d)
    BY <1>11, <2>9
  <2>11. data[MarkerAt(ring, d).offset] = ring.data[MarkerAt(ring, d).offset]
    <3>1. MarkerAt(ring, d).offset \in Offset
      BY <1>1, <1>3, <2>8 DEF cap
    <3>2. MarkerAt(ring, d).offset \notin Removed(ring, end)
      BY <1>2, <2>8 DEF end, cap
    <3> QED
      BY <1>7, <3>1, <3>2
  <2>12. ring.data[MarkerAt(ring, d).offset] = CellOf(es[m], j)
    BY <2>6, <2>7 DEF Holds
  <2> QED
    BY <1>9, <2>3, <2>9, <2>10, <2>11, <2>12
<1>16. Holds(new, es2, p2)
  BY <1>14, <1>15 DEF Holds
<1>17. \A o \in Offset : new.data[o] = ring.data[o] \/ new.data[o] = ZeroCell
  BY <1>7, <1>9
<1> HIDE DEF r
<1>18. r.ret = OK /\ r.q = new
  BY <1>4
<1> QED
  BY <1>9, <1>16, <1>17, <1>18 DEF r, end, es2, p2

\* The offsets of the bytes in use.
LEMMA LiveIs ==
    ASSUME NEW ring, NEW used, Uses(ring, used)
    PROVE  /\ \A o \in Live(ring) : \E d \in Nat : d < used /\ o = MarkerAt(ring, d).offset
           /\ \A d \in Nat : d < used => MarkerAt(ring, d).offset \in Live(ring)
           /\ \A d \in Nat : d < used => MarkerAt(ring, d) =
                  LET o == MarkerAt(ring, d).offset
                  IN  [gen |-> IF o >= ring.front.offset THEN ring.front.gen ELSE ring.tail.gen, offset |-> o]
<1> DEFINE fo == ring.front.offset
           fg == ring.front.gen
           to == ring.tail.offset
           tg == ring.tail.gen
           cap == queue_get_capacity
<1>1. used \in Nat /\ used <= cap
  BY Sizes0 DEF Uses
<1>2. fg \in Nat /\ fo \in Nat /\ MaxHeadSize <= fo /\ fo < QueueSize
  BY FrontIs DEF Uses
<1>3. \A c : /\ MarkerAt(ring, c).gen = IF fo + c < QueueSize THEN fg ELSE fg + 1
             /\ MarkerAt(ring, c).offset = IF fo + c < QueueSize THEN fo + c ELSE fo + c - cap
             /\ MarkerAt(ring, c) = [gen |-> MarkerAt(ring, c).gen, offset |-> MarkerAt(ring, c).offset]
  BY MarkerFields
<1>4. /\ to = IF fo + used < QueueSize THEN fo + used ELSE fo + used - cap
      /\ tg = IF fo + used < QueueSize THEN fg ELSE fg + 1
  BY <1>3 DEF Uses
<1>5. \A o : o \in Live(ring) <=> /\ o \in Offset
                                  /\ IF fg = tg THEN fo <= o /\ o < to ELSE fo <= o \/ o < to
  BY DEF Live
<1> HIDE DEF fo, fg, to, tg, cap
<1>6. cap \in Nat /\ cap = QueueSize - MaxHeadSize
  BY Sizes0 DEF cap
<1>7. ASSUME NEW o \in Live(ring)
      PROVE  \E d \in Nat : d < used /\ o = MarkerAt(ring, d).offset
  <2>1. o \in Nat /\ MaxHeadSize <= o /\ o < QueueSize
    BY <1>5, Sizes0 DEF Offset
  <2>2. CASE fo <= o
    <3>1. o - fo \in Nat /\ o - fo < used /\ fo + (o - fo) = o
      BY <1>1, <1>2, <1>4, <1>5, <1>6, <2>1, <2>2, Sizes0
    <3>2. MarkerAt(ring, o - fo).offset = o
      BY <1>3, <2>1, <3>1
    <3> QED
      BY <3>1, <3>2
  <2>3. CASE ~(fo <= o)
    <3>1. PICK d \in Nat : d = o + cap - fo
      BY <1>2, <1>6, <2>1, <2>3, Sizes0
    <3>2. d < used /\ fo + d - cap = o /\ ~(fo + d < QueueSize)
      BY <1>1, <1>2, <1>4, <1>5, <1>6, <2>1, <2>3, <3>1, Sizes0
    <3>3. MarkerAt(ring, d).offset = o
      BY <1>3, <3>2
    <3> QED
      BY <3>2, <3>3
  <2> QED
    BY <2>2, <2>3
<1>8. ASSUME NEW d \in Nat, d < used
      PROVE  /\ MarkerAt(ring, d).offset \in Live(ring)
             /\ MarkerAt(ring, d) =
                    [gen |-> IF MarkerAt(ring, d).offset >= fo THEN fg ELSE tg, offset |-> MarkerAt(ring, d).offset]
  <2> DEFINE o == MarkerAt(ring, d).offset
             g == MarkerAt(ring, d).gen
  <2>1. /\ g = IF fo + d < QueueSize THEN fg ELSE fg + 1
        /\ o = IF fo + d < QueueSize THEN fo + d ELSE fo + d - cap
        /\ MarkerAt(ring, d) = [gen |-> g, offset |-> o]
    BY <1>3
  <2> HIDE DEF o, g
  <2>2. o \in Nat /\ MaxHeadSize <= o /\ o < QueueSize
    BY <1>1, <1>2, <1>6, <1>8, <2>1, Sizes0
  <2>3. g = IF o >= fo THEN fg ELSE tg
    BY <1>1, <1>2, <1>4, <1>6, <1>8, <2>1, Sizes0
  <2>4. o \in Offset
    BY <2>2, Sizes0 DEF Offset
  <2>5. IF fg = tg THEN fo <= o /\ o < to ELSE fo <= o \/ o < to
    BY <1>1, <1>2, <1>4, <1>6, <1>8, <2>1, Sizes0
  <2>6. o \in Live(ring)
    BY <1>5, <2>4, <2>5
  <2> QED
    BY <2>1, <2>3, <2>6 DEF o
<1> QED
  BY <1>7, <1>8 DEF fo, fg, tg

-----------------------------------------------------------------------------
(* The bytes of the abstract queue. *)

\* What BoundedFifo!Bytes defines by recursion.
Adds(es, f) == f = [i \in 0 .. Len(es) |-> IF i = 0 THEN 0 ELSE f[i - 1] + EntryOverhead + es[i].size]

\* The bytes of the entries are the ones in use.
LEMMA BytesAre ==
    ASSUME NEW es, NEW p, Layout(es, p)
    PROVE  Fifo!Bytes(es) = p[Len(es) + 1]
<1> DEFINE n == Len(es)
           g == [i \in 0 .. n |-> p[i + 1]]
<1>1. /\ n \in Nat /\ p[1] = 0
      /\ \A i \in 1 .. n + 1 : p[i] \in Nat
      /\ \A i \in 1 .. n : p[i + 1] = p[i] + RingLength(es[i])
      /\ \A i \in 1 .. n : es[i].size \in Nat
  <2>1. \A i \in 1 .. n : es[i] \in Entry
    BY LayoutIs
  <2>2. \A i \in 1 .. n : es[i].size \in Nat
    BY <2>1, EntryIs
  <2> QED
    BY <2>2, LayoutIs DEF Layout
<1>2. \A i \in 1 .. n : p[i + 1] = p[i] + EntryOverhead + es[i].size
  <2> SUFFICES ASSUME NEW i \in 1 .. n PROVE p[i + 1] = p[i] + EntryOverhead + es[i].size
    OBVIOUS
  <2>1. p[i] \in Nat /\ es[i].size \in Nat /\ p[i + 1] = p[i] + (EntryOverhead + es[i].size)
    BY <1>1 DEF RingLength
  <2> QED
    BY <2>1, Sizes0
<1>3. Adds(es, g)
  <2>1. ASSUME NEW i \in 0 .. n
        PROVE  g[i] = IF i = 0 THEN 0 ELSE g[i - 1] + EntryOverhead + es[i].size
    <3>1. CASE i = 0
      BY <1>1, <3>1
    <3>2. CASE i # 0
      <4>1. i \in 1 .. n /\ i - 1 \in 0 .. n /\ (i - 1) + 1 = i
        BY <1>1, <3>2
      <4>2. g[i] = p[i + 1] /\ g[i - 1] = p[i]
        BY <4>1
      <4> QED
        BY <1>2, <3>2, <4>1, <4>2
    <3> QED
      BY <3>1, <3>2
  <2>2. g = [i \in 0 .. n |-> g[i]]
    OBVIOUS
  <2> HIDE DEF g
  <2>3. [i \in 0 .. n |-> g[i]] = [i \in 0 .. n |-> IF i = 0 THEN 0 ELSE g[i - 1] + EntryOverhead + es[i].size]
    BY <2>1
  <2> QED
    BY <2>2, <2>3 DEF Adds
<1>4. PICK f : f = CHOOSE h : Adds(es, h)
  OBVIOUS
<1>5. Adds(es, f)
  BY <1>3, <1>4
<1>6. Fifo!Bytes(es) = f[n]
  BY <1>4 DEF Fifo!Bytes, Adds
<1> DEFINE Bad == {i \in 0 .. n : f[i] # p[i + 1]}
<1>7. Bad = {}
  <2> SUFFICES ASSUME Bad # {} PROVE FALSE
    OBVIOUS
  <2>0. Bad \subseteq Nat
    BY <1>1
  <2>1. PICK i \in Bad : \A y \in Bad : i <= y
    BY <2>0, LeastOf
  <2>2. i \in 0 .. n /\ f[i] # p[i + 1]
    BY <2>1
  <2>3. f[i] = IF i = 0 THEN 0 ELSE f[i - 1] + EntryOverhead + es[i].size
    BY <1>5, <2>2 DEF Adds
  <2>4. i # 0
    BY <1>1, <2>2, <2>3
  <2>5. i - 1 \in 0 .. n /\ ~(i <= i - 1) /\ (i - 1) + 1 = i /\ i \in 1 .. n
    BY <1>1, <2>2, <2>4
  <2>6. f[i - 1] = p[i]
    BY <2>1, <2>5
  <2> QED
    BY <1>2, <2>2, <2>3, <2>4, <2>5, <2>6
<1> QED
  BY <1>1, <1>6, <1>7

\* The bytes of one entry.
LEMMA BytesOfOne ==
    ASSUME NEW e \in Entry
    PROVE  Fifo!Bytes(<<e>>) = RingLength(e)
<1> DEFINE p == [i \in 1 .. 2 |-> IF i = 1 THEN 0 ELSE RingLength(e)]
<1>1. RingLength(e) \in Nat /\ RingLength(e) > 0
  BY EntryIs
<1>2. <<e>> \in Seq(Entry) /\ Len(<<e>>) = 1 /\ <<e>>[1] = e
  OBVIOUS
<1>3. p \in [1 .. 2 -> Nat] /\ p[1] = 0 /\ p[2] = RingLength(e)
  BY <1>1
<1> HIDE DEF p
<1>4. Layout(<<e>>, p)
  <2>1. \A i \in 1 .. 1 : p[i + 1] = p[i] + RingLength(<<e>>[i])
    BY <1>1, <1>2, <1>3
  <2>2. \A i, k \in 1 .. 2 : i < k => p[i] < p[k]
    BY <1>1, <1>3
  <2>3. \A d \in Nat : d < p[2] => \E i \in 1 .. 1 : p[i] <= d /\ d < p[i + 1]
    BY <1>1, <1>3
  <2> QED
    BY <1>2, <1>3, <2>1, <2>2, <2>3 DEF Layout
<1>5. PICK es : es = <<e>>
  OBVIOUS
<1>6. Layout(es, p) /\ Len(es) + 1 = 2
  BY <1>2, <1>4, <1>5
<1>7. Fifo!Bytes(es) = p[Len(es) + 1]
  BY <1>6, BytesAre
<1> QED
  BY <1>3, <1>5, <1>6, <1>7

-----------------------------------------------------------------------------
(* The invariant. *)

\* The entries are the last ones of the iss that were issued.
Numbered(es, iss) ==
    /\ Len(es) <= iss
    /\ \A i \in 1 .. Len(es) : es[i].id = iss - Len(es) + i /\ es[i].size \in Sizes

\* The marker of h is behind the front, or is where entry i of n starts, or the
\* tail, and h.upto tells the entries before it from the ones behind.
KeptAt(h, ring, p, n, iss) ==
    \/ Past(h.marker, ring.front)
    \/ \E i \in 1 .. n + 1 : h.marker = MarkerAt(ring, p[i]) /\ h.upto = iss - n + i - 1

Described(ring, es, iss, hs, p) ==
    /\ Layout(es, p)
    /\ Holds(ring, es, p)
    /\ Numbered(es, iss)
    /\ \A c \in Clients : KeptAt(hs[c], ring, p, Len(es), iss)

\* The ring holds the entries that a listing reads, in the order they were
\* enqueued, and each client keeps a marker of one of them or a past one.
QueueInv ==
    /\ TypeOK
    /\ q.tail.gen <= issued
    /\ \E p : Described(q, contents, issued, held, p)

\* What TypeOK says of the ring.
RingOf(ring) ==
    ring \in [front : [gen : 0 .. MaxIssued, offset : Offset],
              tail  : [gen : 0 .. MaxIssued, offset : Offset],
              data  : [Offset -> [id : 0 .. MaxIssued, size : Sizes \cup {0}, at : Nat]]]

LEMMA QueueInit ==
    Init => QueueInv /\ Fifo!FifoInit
<1> SUFFICES ASSUME Init PROVE QueueInv /\ Fifo!FifoInit
  OBVIOUS
<1> USE DEF Init
<1> DEFINE p == [i \in 1 .. 1 |-> 0]
<1>1. /\ q = [front |-> [gen |-> 0, offset |-> MaxHeadSize], tail |-> [gen |-> 0, offset |-> MaxHeadSize],
              data |-> [o \in Offset |-> ZeroCell]]
      /\ contents = <<>> /\ issued = 0
  BY DEF queue_init
<1>2. MaxHeadSize \in Offset /\ MaxHeadSize \in Nat /\ 0 \in 0 .. MaxIssued
  BY Sizes0, QueueClassConstants DEF Offset
<1>3. RingOf(q) /\ q \in Queue
  BY <1>1, <1>2 DEF RingOf, Queue, Marker, Cell, ZeroCell
<1>4. q.tail.gen = 0 /\ q.front.offset = MaxHeadSize /\ q.tail = q.front /\ q.front.gen = 0
  BY <1>1
<1>5. TypeOK
  <2>1. held \in [Clients -> [marker : Marker, upto : 0 .. MaxIssued]]
    BY <1>2 DEF Nothing, NoMarker, Marker
  <2> QED
    BY <1>2, <1>3, <2>1 DEF TypeOK, RingOf
<1>6. Layout(contents, p)
  BY <1>1 DEF Layout
<1>7. p[1] = 0 /\ Len(contents) = 0
  BY <1>1
<1>8. Holds(q, contents, p)
  <2>1. HasFront(q)
    BY <1>2, <1>3, <1>4 DEF HasFront
  <2>2. MarkerAt(q, 0) = q.front
    <3>1. MaxHeadSize + 0 < QueueSize /\ MaxHeadSize + 0 = MaxHeadSize
      BY Sizes0
    <3>2. MarkerAt(q, 0) = [gen |-> 0, offset |-> MaxHeadSize]
      BY <1>4, <3>1 DEF MarkerAt
    <3> QED
      BY <1>1, <3>2
  <2>3. Uses(q, 0)
    BY <1>4, <2>1, <2>2, Sizes0 DEF Uses
  <2> QED
    BY <1>7, <2>3 DEF Holds
<1>9. \A c \in Clients : KeptAt(held[c], q, p, Len(contents), issued)
  <2> SUFFICES ASSUME NEW c \in Clients PROVE Past(held[c].marker, q.front)
    BY DEF KeptAt
  <2>1. held[c].marker.gen = 0 /\ held[c].marker.offset = 0
    BY DEF Nothing, NoMarker
  <2> QED
    BY <1>4, <2>1, Sizes0 DEF Past
<1>10. Described(q, contents, issued, held, p)
  BY <1>1, <1>6, <1>7, <1>8, <1>9 DEF Described, Numbered
<1>11. q.tail.gen <= issued
  BY <1>1, <1>4
<1>12. Fifo!FifoInit
  BY <1>1 DEF Fifo!FifoInit
<1> QED
  BY <1>5, <1>10, <1>11, <1>12 DEF QueueInv

\* What TypeOK and Described say of the ring and the numbers in it.
LEMMA InvIs ==
    ASSUME QueueInv
    PROVE  /\ RingOf(q) /\ q.tail.gen <= issued
           /\ issued \in Nat /\ issued <= MaxIssued /\ MaxIssued \in Nat
           /\ held \in [Clients -> [marker : Marker, upto : 0 .. MaxIssued]]
           /\ reply \in [ret : {OK, ENOSPC, EINVAL}, bytes : Nat]
           /\ q.tail.gen \in Nat
           /\ q.data \in [Offset -> [id : 0 .. MaxIssued, size : Sizes \cup {0}, at : Nat]]
<1>1. RingOf(q) /\ issued \in 0 .. MaxIssued /\ q.tail.gen <= issued /\ MaxIssued \in Nat
  BY QueueClassConstants DEF QueueInv, TypeOK, RingOf
<1>2. q.tail.gen \in 0 .. MaxIssued /\ q.data \in [Offset -> [id : 0 .. MaxIssued, size : Sizes \cup {0}, at : Nat]]
  BY <1>1 DEF RingOf
<1> QED
  BY <1>1, <1>2 DEF QueueInv, TypeOK

\* The ring has its type when its bytes have, and its tail has a number that was issued.
LEMMA RingIs ==
    ASSUME NEW ring, NEW used, Uses(ring, used), ring.tail.gen <= MaxIssued,
           \A o \in Offset : ring.data[o] \in [id : 0 .. MaxIssued, size : Sizes \cup {0}, at : Nat]
    PROVE  RingOf(ring)
<1> DEFINE fo == ring.front.offset
           fg == ring.front.gen
           tg == ring.tail.gen
<1>1. /\ fg \in Nat /\ ring.data \in [Offset -> Cell] /\ HasFront(ring) /\ ring \in Queue /\ fo \in Offset
      /\ ring.front = [gen |-> fg, offset |-> fo]
  BY FrontIs DEF Uses, HasFront
<1>2. ring.tail = MarkerAt(ring, used) /\ used \in 0 .. queue_get_capacity
  BY DEF Uses
<1>3. ring.tail \in Marker /\ ring.tail.offset \in Offset
  BY <1>1, <1>2, MarkerIs
<1>4. tg = fg \/ tg = fg + 1
  BY <1>2, MarkerFields
<1>5. tg \in Nat /\ ring.tail = [gen |-> tg, offset |-> ring.tail.offset]
  BY <1>3 DEF Marker
<1>6. tg <= MaxIssued /\ MaxIssued \in Nat
  BY QueueClassConstants
<1> HIDE DEF fg, tg
<1>7. fg \in 0 .. MaxIssued /\ tg \in 0 .. MaxIssued
  BY <1>1, <1>4, <1>5, <1>6
<1>8. ring.front \in [gen : 0 .. MaxIssued, offset : Offset] /\ ring.tail \in [gen : 0 .. MaxIssued, offset : Offset]
  BY <1>1, <1>3, <1>5, <1>7
<1>9. ring.data \in [Offset -> [id : 0 .. MaxIssued, size : Sizes \cup {0}, at : Nat]]
  BY <1>1
<1>10. ring = [front |-> ring.front, tail |-> ring.tail, data |-> ring.data]
  BY <1>1 DEF Queue
<1> QED
  BY <1>8, <1>9, <1>10 DEF RingOf

\* An accepted enqueue keeps the markers where they are.
LEMMA KeptByEnqueue ==
    ASSUME NEW ring, NEW es, NEW p, Layout(es, p), NEW e \in Entry, NEW iss \in Nat, NEW h, NEW new,
           new.front = ring.front, KeptAt(h, ring, p, Len(es), iss)
    PROVE  KeptAt(h, new, Longer(p, Len(es), RingLength(e)), Len(es) + 1, iss + 1)
<1> DEFINE n == Len(es)
           p2 == Longer(p, n, RingLength(e))
<1>1. n \in Nat /\ \A i \in 1 .. n + 1 : p2[i] = p[i]
  BY LayoutIs, LayoutAppend
<1>2. CASE Past(h.marker, ring.front)
  BY <1>2 DEF KeptAt
<1>3. CASE ~Past(h.marker, ring.front)
  <2>1. PICK i \in 1 .. n + 1 : h.marker = MarkerAt(ring, p[i]) /\ h.upto = iss - n + i - 1
    BY <1>3 DEF KeptAt
  <2>2. i \in 1 .. (n + 1) + 1 /\ h.upto = (iss + 1) - (n + 1) + i - 1
    BY <1>1, <2>1
  <2>3. h.marker = MarkerAt(new, p2[i])
    BY <1>1, <2>1 DEF MarkerAt
  <2> QED
    BY <2>2, <2>3 DEF KeptAt
<1> QED
  BY <1>2, <1>3

LEMMA NumberedAppend ==
    ASSUME NEW es \in Seq(Entry), NEW iss \in Nat, Numbered(es, iss), NEW e \in Entry,
           e.id = iss + 1, e.size \in Sizes
    PROVE  Numbered(Append(es, e), iss + 1)
<1> DEFINE es2 == Append(es, e)
           n == Len(es)
<1>1. n \in Nat /\ Len(es2) = n + 1 /\ es2[n + 1] = e /\ \A i \in 1 .. n : es2[i] = es[i]
  BY AppendIs
<1>2. n <= iss /\ \A i \in 1 .. n : es[i].id = iss - n + i /\ es[i].size \in Sizes
  BY DEF Numbered
<1> HIDE DEF es2, n
<1>3. ASSUME NEW i \in 1 .. n + 1
      PROVE  es2[i].id = (iss + 1) - (n + 1) + i /\ es2[i].size \in Sizes
  <2>1. CASE i = n + 1
    BY <1>1, <2>1
  <2>2. CASE i # n + 1
    <3>1. i \in 1 .. n
      BY <1>1, <2>2
    <3>2. es2[i].id = iss - n + i /\ es2[i].size \in Sizes
      BY <1>1, <1>2, <3>1
    <3> QED
      BY <1>1, <3>1, <3>2
  <2> QED
    BY <2>1, <2>2
<1>4. Len(es2) <= iss + 1
  BY <1>1, <1>2
<1> QED
  BY <1>1, <1>3, <1>4 DEF Numbered, es2

\* The vector of an enqueue is one entry.
LEMMA VectorIs ==
    ASSUME QueueInv, VectorLengths = {1}, NEW ss \in SizeVectors
    PROVE  LET e == [id |-> issued + 1, size |-> ss[1]]
           IN  /\ Len(ss) = 1 /\ ss[1] \in Sizes /\ e \in Entry
               /\ NewEntries(ss) = <<e>> /\ VectorBytes(NewEntries(ss)) = RingLength(e)
<1> DEFINE e == [id |-> issued + 1, size |-> ss[1]]
<1>1. ss \in [1 .. 1 -> Sizes]
  BY DEF SizeVectors
<1>2. Len(ss) = 1 /\ ss[1] \in Sizes
  BY <1>1
<1>3. e \in Entry
  <2>1. issued \in Nat /\ ss[1] \in Nat
    BY <1>2, InvIs, QueueClassConstants
  <2> QED
    BY <2>1 DEF Entry
<1>4. NewEntries(ss) = [i \in 1 .. 1 |-> [id |-> issued + i, size |-> ss[i]]]
  BY <1>2 DEF NewEntries
<1>5. NewEntries(ss) = <<e>>
  BY <1>4
<1>6. VectorBytes(<<e>>) = RingLength(e)
  BY DEF VectorBytes
<1> QED
  BY <1>2, <1>3, <1>5, <1>6

\* What is behind the old entries after one was appended.
LEMMA AppendTail ==
    ASSUME NEW es \in Seq(Entry), NEW e \in Entry
    PROVE  /\ Append(es, e) = es \o <<e>>
           /\ SubSeq(Append(es, e), Len(es) + 1, Len(Append(es, e))) = <<e>>
<1> DEFINE es2 == Append(es, e)
           n == Len(es)
<1>1. n \in Nat /\ es2 \in Seq(Entry) /\ Len(es2) = n + 1 /\ es2[n + 1] = e
  BY AppendIs
<1>2. Append(es, e) = es \o <<e>>
  OBVIOUS
<1> HIDE DEF es2
<1>3. n + 1 \in 1 .. Len(es2) + 1
  BY <1>1
<1>4. PICK t : t = SubSeq(es2, n + 1, Len(es2))
  OBVIOUS
<1>5. t \in Seq(Entry) /\ Len(t) = Len(es2) - (n + 1) + 1 /\ \A k \in 1 .. Len(es2) - (n + 1) + 1 : t[k] = es2[k + (n + 1) - 1]
  BY <1>1, <1>3, <1>4, DropIs
<1>6. Len(t) = 1 /\ t[1] = e
  <2>1. Len(es2) - (n + 1) + 1 = 1 /\ 1 + (n + 1) - 1 = n + 1
    BY <1>1
  <2> QED
    BY <1>1, <1>5, <2>1
<1>7. t = <<e>>
  BY <1>5, <1>6
<1> QED
  BY <1>2, <1>4, <1>7 DEF es2

\* cls_queue_enqueue appends the entry, or turns it away when it does not fit; the
\* bytes of the other entries stay.
LEMMA EnqueueStep ==
    ASSUME QueueInv, VectorLengths = {1}, NEW ss \in SizeVectors, cls_queue_enqueue(ss)
    PROVE  QueueInv' /\ Fifo!FifoNext /\ \A o \in Live(q) : q.data[o] = q'.data[o]
<1> DEFINE e == [id |-> issued + 1, size |-> ss[1]]
           es == contents
           n == Len(es)
           es2 == Append(es, e)
           cap == queue_get_capacity
           len == RingLength(e)
           r == queue_enqueue(q, <<e>>)
<1>1. Len(ss) = 1 /\ ss[1] \in Sizes /\ e \in Entry /\ NewEntries(ss) = <<e>> /\ VectorBytes(<<e>>) = len
  BY VectorIs
<1>2. /\ RingOf(q) /\ q.tail.gen <= issued /\ q.tail.gen \in Nat
      /\ issued \in Nat /\ issued <= MaxIssued /\ MaxIssued \in Nat
      /\ held \in [Clients -> [marker : Marker, upto : 0 .. MaxIssued]]
      /\ q.data \in [Offset -> [id : 0 .. MaxIssued, size : Sizes \cup {0}, at : Nat]]
  BY InvIs
<1>3. /\ issued + 1 <= MaxIssued /\ q' = r.q /\ contents' = ReadAll(r.q)
      /\ issued' = (IF r.ret = OK THEN issued + 1 ELSE issued)
      /\ reply' = [ret |-> r.ret, bytes |-> len] /\ held' = held
  BY <1>1 DEF cls_queue_enqueue
<1>4. PICK p : Described(q, contents, issued, held, p)
  BY DEF QueueInv
<1>5. Layout(es, p) /\ Holds(q, es, p) /\ Numbered(es, issued) /\ \A c \in Clients : KeptAt(held[c], q, p, n, issued)
  BY <1>4 DEF Described
<1>6. es \in Seq(Entry) /\ n \in Nat /\ n <= issued /\ p[n + 1] \in Nat
  <2>1. n \in Nat /\ n + 1 \in 1 .. n + 1
    BY <1>5, LayoutIs
  <2> QED
    BY <1>5, <2>1, LayoutIs DEF Layout, Numbered
<1>7. len \in Nat /\ len > 0 /\ e.id = issued + 1 /\ e.size = ss[1]
  BY <1>1, EntryIs
<1>8. Fifo!Bytes(es) = p[n + 1]
  BY <1>5, BytesAre
<1> DEFINE p2 == Longer(p, n, len)
<1>9. /\ p[n + 1] + len <= cap =>
            /\ r.ret = OK /\ Layout(es2, p2) /\ Holds(r.q, es2, p2) /\ r.q.front = q.front
            /\ r.q.tail.gen \in {q.tail.gen, q.tail.gen + 1}
            /\ \A o \in Offset : \/ r.q.data[o] = q.data[o]
                                 \/ r.q.data[o].id = e.id /\ r.q.data[o].size = e.size /\ r.q.data[o].at \in Nat
            /\ \A d \in Nat : d < p[n + 1] => r.q.data[MarkerAt(q, d).offset] = q.data[MarkerAt(q, d).offset]
      /\ ~(p[n + 1] + len <= cap) => r = [ret |-> ENOSPC, q |-> q]
  BY <1>1, <1>5, EnqueueIs
<1> HIDE DEF r
<1>10. CASE ~(p[n + 1] + len <= cap)
  <2>1. r = [ret |-> ENOSPC, q |-> q]
    BY <1>9, <1>10
  <2>2. r.ret = ENOSPC /\ r.q = q /\ ENOSPC # OK
    BY <2>1 DEF ENOSPC, OK
  <2>3. ReadAll(q) = contents
    BY <1>2, <1>5, <1>6, ReadAllIs
  <2>4. q' = q /\ contents' = contents /\ issued' = issued /\ held' = held /\ reply' = [ret |-> ENOSPC, bytes |-> len]
    BY <1>3, <2>2, <2>3
  <2>5. reply' \in [ret : {OK, ENOSPC, EINVAL}, bytes : Nat]
    BY <1>7, <2>4
  <2>6. QueueInv'
    BY <2>4, <2>5, <1>4 DEF QueueInv, TypeOK
  <2>7. Fifo!TurnAway
    <3>1. reply'.ret = ENOSPC /\ reply'.bytes = len
      BY <2>4
    <3>2. Fifo!Bytes(contents) + reply'.bytes > cap
      BY <1>6, <1>7, <1>8, <1>10, <3>1, Sizes0
    <3> QED
      BY <2>4, <3>1, <3>2 DEF Fifo!TurnAway
  <2> QED
    BY <2>4, <2>6, <2>7 DEF Fifo!FifoNext
<1>11. CASE p[n + 1] + len <= cap
  <2>1. /\ r.ret = OK /\ Layout(es2, p2) /\ Holds(r.q, es2, p2) /\ r.q.front = q.front
        /\ r.q.tail.gen \in {q.tail.gen, q.tail.gen + 1}
        /\ \A o \in Offset : \/ r.q.data[o] = q.data[o]
                             \/ r.q.data[o].id = e.id /\ r.q.data[o].size = e.size /\ r.q.data[o].at \in Nat
        /\ \A d \in Nat : d < p[n + 1] => r.q.data[MarkerAt(q, d).offset] = q.data[MarkerAt(q, d).offset]
    BY <1>9, <1>11
  <2>2. Len(es2) = n + 1 /\ es2 \in Seq(Entry)
    BY <1>1, <1>6, AppendIs
  <2>3. ReadAll(r.q) = es2
    <3>1. Len(es2) <= MaxIssued
      BY <1>2, <1>3, <1>6, <2>2
    <3> QED
      BY <2>1, <3>1, ReadAllIs
  <2>4. /\ q' = r.q /\ contents' = es2 /\ issued' = issued + 1 /\ held' = held
        /\ reply' = [ret |-> OK, bytes |-> len]
    BY <1>3, <2>1, <2>3
  <2>5. Numbered(es2, issued + 1)
    BY <1>1, <1>2, <1>5, <1>6, <1>7, NumberedAppend
  <2>6. \A c \in Clients : KeptAt(held[c], r.q, p2, n + 1, issued + 1)
    <3> HIDE DEF p2, len
    <3> SUFFICES ASSUME NEW c \in Clients PROVE KeptAt(held[c], r.q, p2, n + 1, issued + 1)
      OBVIOUS
    <3>1. KeptAt(held[c], q, p, n, issued)
      BY <1>5
    <3> QED
      BY <1>1, <1>2, <1>5, <2>1, <3>1, KeptByEnqueue DEF p2, len
  <2>7. RingOf(r.q)
    <3>1. Uses(r.q, p2[Len(es2) + 1])
      BY <2>1 DEF Holds
    <3>2. r.q.tail.gen <= issued + 1 /\ r.q.tail.gen <= MaxIssued
      BY <1>2, <1>3, <2>1
    <3>3. ASSUME NEW o \in Offset
          PROVE  r.q.data[o] \in [id : 0 .. MaxIssued, size : Sizes \cup {0}, at : Nat]
      <4>1. q.data[o] \in [id : 0 .. MaxIssued, size : Sizes \cup {0}, at : Nat]
        BY <1>2
      <4>2. CASE r.q.data[o] = q.data[o]
        BY <4>1, <4>2
      <4>3. CASE r.q.data[o].id = e.id /\ r.q.data[o].size = e.size /\ r.q.data[o].at \in Nat
        <5>1. r.q.data[o] \in Cell
          BY <3>1, FrontIs DEF Uses
        <5>2. r.q.data[o] = [id |-> r.q.data[o].id, size |-> r.q.data[o].size, at |-> r.q.data[o].at]
          BY <5>1 DEF Cell
        <5>3. r.q.data[o].id \in 0 .. MaxIssued /\ r.q.data[o].size \in Sizes \cup {0}
          BY <1>1, <1>2, <1>3, <1>7, <4>3
        <5> QED
          BY <4>3, <5>2, <5>3
      <4> QED
        BY <2>1, <4>2, <4>3
    <3> QED
      BY <3>1, <3>2, <3>3, RingIs
  <2>8. r.q.tail.gen <= issued + 1
    BY <1>2, <2>1
  <2> HIDE DEF es2, p2, len
  <2>9. Described(r.q, es2, issued + 1, held, p2)
    BY <2>1, <2>2, <2>5, <2>6 DEF Described
  <2>10. TypeOK'
    <3>1. reply' \in [ret : {OK, ENOSPC, EINVAL}, bytes : Nat]
      BY <1>7, <2>4
    <3>2. issued' \in 0 .. MaxIssued
      BY <1>2, <1>3, <2>4
    <3> QED
      BY <1>2, <2>4, <2>7, <3>1, <3>2 DEF TypeOK, RingOf
  <2>11. QueueInv'
    BY <2>4, <2>8, <2>9, <2>10 DEF QueueInv
  <2>12. Fifo!Put
    <3>1. es2 = es \o <<e>> /\ SubSeq(es2, n + 1, Len(es2)) = <<e>>
      BY <1>1, <1>6, AppendTail DEF es2
    <3>2. Fifo!Bytes(<<e>>) = len
      BY <1>1, BytesOfOne DEF len
    <3>3. Fifo!Bytes(es2) = p2[Len(es2) + 1]
      BY <2>1, BytesAre
    <3>4. Fifo!Bytes(es2) <= cap
      <4>1. p2[Len(es2) + 1] \in 0 .. cap
        BY <2>1 DEF Holds, Uses
      <4> QED
        BY <3>3, <4>1, Sizes0
    <3>5. <<e>> # <<>>
      OBVIOUS
    <3> HIDE DEF e, cap
    <3> QED
      BY <2>4, <3>1, <3>2, <3>4, <3>5 DEF Fifo!Put, cap
  <2>13. \A o \in Live(q) : q.data[o] = r.q.data[o]
    <3>1. \A o \in Live(q) : \E d \in Nat : d < p[n + 1] /\ o = MarkerAt(q, d).offset
      BY <1>5, LiveIs DEF Holds
    <3> QED
      BY <2>1, <3>1
  <2> QED
    BY <2>4, <2>11, <2>12, <2>13 DEF Fifo!FifoNext
<1> QED
  BY <1>10, <1>11

\* The markers of a listing are where entries start, and the tail.
LEMMA HandedIs ==
    ASSUME QueueInv, NEW p, Described(q, contents, issued, held, p), NEW max \in Nat \ {0}
    PROVE  LET r == queue_list_entries(q, NoMarker, max)
           IN  /\ r.ret = OK
               /\ \A h \in HandedOut(r) : /\ h \in [marker : Marker, upto : 0 .. MaxIssued]
                                          /\ KeptAt(h, q, p, Len(contents), issued)
<1> DEFINE es == contents
           n == Len(es)
           r == queue_list_entries(q, NoMarker, max)
           m == Len(r.entries)
<1>1. Layout(es, p) /\ Holds(q, es, p) /\ Numbered(es, issued)
  BY DEF Described
<1>2. issued \in Nat /\ issued <= MaxIssued /\ MaxIssued \in Nat
  BY InvIs
<1>3. n \in Nat /\ n <= issued /\ \A i \in 1 .. n : es[i].id = issued - n + i
  BY <1>1, LayoutIs DEF Numbered
<1>4. HasFront(q) /\ \A i \in 1 .. n + 1 : MarkerAt(q, p[i]) \in Marker
  <2>1. HasFront(q) /\ p[n + 1] \in 0 .. queue_get_capacity
    BY <1>1 DEF Holds, Uses
  <2>2. ASSUME NEW i \in 1 .. n + 1
        PROVE  p[i] \in 0 .. queue_get_capacity
    <3>1. n + 1 \in 1 .. n + 1
      BY <1>3
    <3>2. p[i] \in Nat /\ p[n + 1] \in Nat /\ p[i] <= p[n + 1]
      BY <1>1, <3>1, LayoutIs
    <3> QED
      BY <2>1, <3>2, Sizes0
  <2> QED
    BY <2>1, <2>2, MarkerIs
<1>5. ASSUME NEW h, NEW i \in 1 .. n + 1, NEW u, h = [marker |-> MarkerAt(q, p[i]), upto |-> u], u = issued - n + i - 1
      PROVE  h \in [marker : Marker, upto : 0 .. MaxIssued] /\ KeptAt(h, q, p, n, issued)
  <2>1. u \in 0 .. MaxIssued
    BY <1>2, <1>3, <1>5
  <2>2. h.marker = MarkerAt(q, p[i]) /\ h.upto = issued - n + i - 1
    BY <1>5
  <2>3. h \in [marker : Marker, upto : 0 .. MaxIssued]
    BY <1>4, <1>5, <2>1
  <2> QED
    BY <2>2, <2>3 DEF KeptAt
<1>6. \A h \in HandedOut(r) : \/ \E i \in 1 .. m : h = [marker |-> r.entries[i].marker, upto |-> r.entries[i].id - 1]
                              \/ h = [marker |-> r.next, upto |-> IF m = 0 THEN issued ELSE r.entries[m].id]
  BY DEF HandedOut
<1>7. CASE n = 0
  <2>1. r = [ret |-> OK, entries |-> <<>>, next |-> q.front, truncated |-> FALSE]
    BY <1>1, <1>7, ListEmpty
  <2>2. MarkerAt(q, p[1]) = q.front /\ 1 \in 1 .. n + 1
    <3>1. p[1] = 0 /\ Uses(q, p[n + 1])
      BY <1>1 DEF Layout, Holds
    <3> QED
      BY <1>3, <3>1, EmptyIs
  <2> HIDE DEF r
  <2>3. r.ret = OK /\ r.next = q.front /\ m = 0
    BY <2>1
  <2> HIDE DEF m
  <2>4. ASSUME NEW h \in HandedOut(r)
        PROVE  h \in [marker : Marker, upto : 0 .. MaxIssued] /\ KeptAt(h, q, p, n, issued)
    <3>1. h = [marker |-> MarkerAt(q, p[1]), upto |-> issued] /\ issued = issued - n + 1 - 1
      BY <1>2, <1>6, <1>7, <2>2, <2>3
    <3> QED
      BY <1>5, <2>2, <3>1
  <2> QED
    BY <2>3, <2>4 DEF r
<1>8. CASE n # 0
  <2> DEFINE k == PageSize(es, 1, max)
  <2>1. 1 \in 1 .. n /\ NoMarker.offset = 0
    BY <1>3, <1>8 DEF NoMarker
  <2>2. k \in 1 .. max /\ 1 + k \in 1 + 1 .. n + 1 /\ r = Page(q, es, p, 1, max)
    <3>1. PICK i \in 1 .. n : i = 1
      BY <2>1
    <3>2. PICK start : start = NoMarker
      OBVIOUS
    <3>3. start.offset = 0 /\ i = 1
      BY <2>1, <3>1, <3>2
    <3>4. queue_list_entries(q, start, max) = Page(q, es, p, i, max)
      BY <1>1, <3>3, ListIs
    <3>5. PageSize(es, i, max) \in 1 .. max
      BY <1>1, <3>3, ListIs
    <3>6. i + PageSize(es, i, max) \in i + 1 .. n + 1
      BY <1>1, <3>3, ListIs
    <3> QED
      BY <3>1, <3>2, <3>4, <3>5, <3>6
  <2>3. k \in Nat /\ 1 <= k /\ k <= n /\ k + 1 \in 1 .. n + 1 /\ 1 + k = k + 1
    BY <1>3, <2>2
  <2> HIDE DEF k, r
  <2>4. r = [ret |-> OK, entries |-> [j \in 1 .. k |-> ListedAs(q, es, p, 1 + j - 1)],
             next |-> MarkerAt(q, p[1 + k]), truncated |-> 1 + k <= n]
    BY <2>2 DEF Page, k
  <2>5. r.ret = OK /\ r.next = MarkerAt(q, p[k + 1]) /\ r.entries = [j \in 1 .. k |-> ListedAs(q, es, p, 1 + j - 1)]
    BY <2>3, <2>4
  <2>6. m = k
    BY <2>3, <2>5
  <2>7. ASSUME NEW j \in 1 .. k
        PROVE  r.entries[j].marker = MarkerAt(q, p[j]) /\ r.entries[j].id = issued - n + j /\ j \in 1 .. n
    <3>1. 1 + j - 1 = j /\ j \in 1 .. n
      BY <1>3, <2>3
    <3>2. r.entries[j] = [id |-> es[j].id, size |-> es[j].size, marker |-> MarkerAt(q, p[j])]
      BY <2>5, <3>1 DEF ListedAs
    <3> QED
      BY <1>3, <3>1, <3>2
  <2> HIDE DEF m
  <2>8. ASSUME NEW h \in HandedOut(r)
        PROVE  h \in [marker : Marker, upto : 0 .. MaxIssued] /\ KeptAt(h, q, p, n, issued)
    <3>1. CASE \E i \in 1 .. m : h = [marker |-> r.entries[i].marker, upto |-> r.entries[i].id - 1]
      <4>1. PICK i \in 1 .. k : h = [marker |-> r.entries[i].marker, upto |-> r.entries[i].id - 1]
        BY <2>6, <3>1
      <4>2. r.entries[i].marker = MarkerAt(q, p[i]) /\ r.entries[i].id = issued - n + i /\ i \in 1 .. n
        BY <2>7
      <4>3. i \in 1 .. n + 1 /\ r.entries[i].id - 1 = issued - n + i - 1
        BY <1>2, <1>3, <4>2
      <4>4. PICK u : u = r.entries[i].id - 1
        OBVIOUS
      <4>5. h = [marker |-> MarkerAt(q, p[i]), upto |-> u] /\ u = issued - n + i - 1
        BY <4>1, <4>2, <4>3, <4>4
      <4> QED
        BY <1>5, <4>3, <4>5
    <3>2. CASE h = [marker |-> r.next, upto |-> IF m = 0 THEN issued ELSE r.entries[m].id]
      <4>1. m # 0 /\ k \in 1 .. k
        BY <2>3, <2>6
      <4>2. r.entries[m].id = issued - n + k
        BY <2>6, <2>7, <4>1
      <4>3. h = [marker |-> MarkerAt(q, p[k + 1]), upto |-> issued - n + k]
        BY <2>5, <3>2, <4>1, <4>2
      <4>4. issued - n + k = issued - n + (k + 1) - 1
        BY <1>2, <1>3, <2>3
      <4> QED
        BY <1>5, <2>3, <4>3, <4>4
    <3> QED
      BY <1>6, <3>1, <3>2
  <2> QED
    BY <2>5, <2>8 DEF r
<1> QED
  BY <1>7, <1>8

\* cls_queue_list_entries changes a client's marker only.
LEMMA ListStep ==
    ASSUME QueueInv, NEW c \in Clients, NEW max \in 1 .. MaxList, cls_queue_list_entries(c, max)
    PROVE  QueueInv' /\ Fifo!FifoNext
<1> DEFINE r == queue_list_entries(q, NoMarker, max)
<1>1. PICK p : Described(q, contents, issued, held, p)
  BY DEF QueueInv
<1>2. max \in Nat \ {0}
  BY QueueClassConstants
<1>3. /\ r.ret = OK
      /\ \A h \in HandedOut(r) : /\ h \in [marker : Marker, upto : 0 .. MaxIssued]
                                 /\ KeptAt(h, q, p, Len(contents), issued)
  BY <1>1, <1>2, HandedIs
<1>4. /\ \E h \in HandedOut(r) : held' = [held EXCEPT ![c] = h]
      /\ reply' = [ret |-> r.ret, bytes |-> 0] /\ q' = q /\ issued' = issued /\ contents' = contents
  BY <1>3 DEF cls_queue_list_entries
<1> HIDE DEF r
<1>5. PICK h \in HandedOut(r) : held' = [held EXCEPT ![c] = h]
  BY <1>4
<1>6. held \in [Clients -> [marker : Marker, upto : 0 .. MaxIssued]]
  BY InvIs
<1>7. held' \in [Clients -> [marker : Marker, upto : 0 .. MaxIssued]]
  BY <1>3, <1>5, <1>6
<1>8. \A b \in Clients : KeptAt(held'[b], q, p, Len(contents), issued)
  <2> SUFFICES ASSUME NEW b \in Clients PROVE KeptAt(held'[b], q, p, Len(contents), issued)
    OBVIOUS
  <2>1. KeptAt(held[b], q, p, Len(contents), issued)
    BY <1>1 DEF Described
  <2>2. held'[b] = h \/ held'[b] = held[b]
    BY <1>5, <1>6
  <2> QED
    BY <1>3, <2>1, <2>2
<1>9. Described(q, contents, issued, held', p)
  BY <1>1, <1>8 DEF Described
<1>10. reply' = [ret |-> OK, bytes |-> 0]
  BY <1>3, <1>4
<1>11. TypeOK'
  <2>1. reply' \in [ret : {OK, ENOSPC, EINVAL}, bytes : Nat]
    BY <1>10
  <2> QED
    BY <1>4, <1>7, <2>1 DEF TypeOK, QueueInv
<1>12. QueueInv'
  BY <1>4, <1>9, <1>11 DEF QueueInv
<1>13. Fifo!DropPrefix
  <2>1. contents \in Seq(Entry) /\ Len(contents) \in Nat
    BY <1>1, LayoutIs DEF Described, Layout
  <2>2. SubSeq(contents, 0 + 1, Len(contents)) = contents /\ 0 \in 0 .. Len(contents)
    BY <2>1
  <2> QED
    BY <1>4, <1>10, <2>2 DEF Fifo!DropPrefix
<1> QED
  BY <1>12, <1>13 DEF Fifo!FifoNext

\* A removal up to entry i leaves each marker where it is, or behind the front.
LEMMA KeptByRemove ==
    ASSUME NEW ring, HasFront(ring), NEW es, NEW p, Layout(es, p), p[Len(es) + 1] <= queue_get_capacity,
           NEW iss \in Nat, NEW i \in 1 .. Len(es) + 1,
           NEW new, new.front = MarkerAt(ring, p[i]),
           NEW h, h.marker \in Marker, KeptAt(h, ring, p, Len(es), iss)
    PROVE  KeptAt(h, new, Shorter(p, i, Len(es)), Len(es) - i + 1, iss)
<1> DEFINE n == Len(es)
           cap == queue_get_capacity
           end == MarkerAt(ring, p[i])
           p2 == Shorter(p, i, n)
<1>1. n \in Nat /\ cap \in Nat /\ p[i] \in Nat /\ p[i] <= cap
  <2>1. n \in Nat /\ n + 1 \in 1 .. n + 1
    BY LayoutIs
  <2>2. p[i] \in Nat /\ p[n + 1] \in Nat /\ p[i] <= p[n + 1]
    BY <2>1, LayoutIs
  <2> QED
    BY <2>1, <2>2, Sizes0
<1>2. /\ \A ring2 : ring2.front = end =>
             \A d \in Nat : p[i] + d <= cap => MarkerAt(ring2, d) = MarkerAt(ring, p[i] + d)
      /\ \A m \in Marker : Past(m, ring.front) => Past(m, end)
      /\ \A b \in Nat : b < p[i] => Past(MarkerAt(ring, b), end)
  BY <1>1, FrontMoves
<1>3. \A k \in 1 .. n - i + 2 : p2[k] = p[k + i - 1] - p[i]
  BY LayoutDrop
<1>4. CASE Past(h.marker, ring.front)
  BY <1>2, <1>4 DEF KeptAt
<1>5. CASE ~Past(h.marker, ring.front)
  <2>1. PICK k \in 1 .. n + 1 : h.marker = MarkerAt(ring, p[k]) /\ h.upto = iss - n + k - 1
    BY <1>5 DEF KeptAt
  <2>2. p[k] \in Nat /\ p[k] <= p[n + 1] /\ p[n + 1] \in Nat
    <3>1. n + 1 \in 1 .. n + 1
      BY <1>1
    <3> QED
      BY <3>1, LayoutIs
  <2>3. CASE k < i
    <3>1. p[k] < p[i]
      BY <2>3 DEF Layout
    <3> QED
      BY <1>2, <2>1, <2>2, <3>1 DEF KeptAt
  <2>4. CASE ~(k < i)
    <3>1. p[i] <= p[k]
      BY <1>1, <2>4, LayoutIs
    <3>2. PICK m \in 1 .. (n - i + 1) + 1 : m = k - i + 1
      BY <1>1, <2>4
    <3>3. m \in 1 .. n - i + 2 /\ m + i - 1 = k /\ h.upto = iss - (n - i + 1) + m - 1
      BY <1>1, <2>1, <3>2
    <3>4. p2[m] = p[k] - p[i]
      BY <1>3, <3>3
    <3>5. p[k] - p[i] \in Nat /\ p[i] + (p[k] - p[i]) = p[k] /\ p[i] + (p[k] - p[i]) <= cap
      BY <1>1, <2>2, <3>1
    <3>6. MarkerAt(new, p[k] - p[i]) = MarkerAt(ring, p[k])
      BY <1>2, <3>5
    <3> QED
      BY <2>1, <3>2, <3>3, <3>4, <3>6 DEF KeptAt
  <2> QED
    BY <2>3, <2>4
<1> QED
  BY <1>4, <1>5

LEMMA NumberedDrop ==
    ASSUME NEW es \in Seq(Entry), NEW iss \in Nat, Numbered(es, iss), NEW i \in 1 .. Len(es) + 1
    PROVE  Numbered(SubSeq(es, i, Len(es)), iss)
<1> DEFINE n == Len(es)
           es2 == SubSeq(es, i, n)
<1>1. n \in Nat /\ Len(es2) = n - i + 1 /\ \A k \in 1 .. n - i + 1 : es2[k] = es[k + i - 1]
  BY DropIs
<1>2. n <= iss /\ \A k \in 1 .. n : es[k].id = iss - n + k /\ es[k].size \in Sizes
  BY DEF Numbered
<1> HIDE DEF es2
<1>3. ASSUME NEW k \in 1 .. n - i + 1
      PROVE  es2[k].id = iss - (n - i + 1) + k /\ es2[k].size \in Sizes
  <2>1. k + i - 1 \in 1 .. n /\ iss - n + (k + i - 1) = iss - (n - i + 1) + k
    BY <1>1
  <2> QED
    BY <1>1, <1>2, <2>1
<1>4. Len(es2) <= iss
  BY <1>1, <1>2
<1> QED
  BY <1>1, <1>3, <1>4 DEF Numbered, es2

\* What a removal may do to the contents.
Dropped(es, es2, upto) ==
    \/ es2 = es
    \/ \E k \in 0 .. Len(es) : /\ es2 = SubSeq(es, k + 1, Len(es))
                               /\ \A i \in DOMAIN es : i > k <=> es[i].id > upto

\* cls_queue_remove_entries drops the entries before the marker, or refuses one that
\* is behind the front.
LEMMA RemoveStep ==
    ASSUME QueueInv, NEW c \in Clients, cls_queue_remove_entries(c)
    PROVE  QueueInv' /\ Fifo!FifoNext /\ Dropped(contents, contents', held[c].upto)
<1> DEFINE es == contents
           n == Len(es)
           h == held[c]
           r == queue_remove_entries(q, h.marker)
<1>1. PICK p : Described(q, contents, issued, held, p)
  BY DEF QueueInv
<1>2. Layout(es, p) /\ Holds(q, es, p) /\ Numbered(es, issued) /\ \A b \in Clients : KeptAt(held[b], q, p, n, issued)
  BY <1>1 DEF Described
<1>3. /\ RingOf(q) /\ q.tail.gen <= issued /\ q.tail.gen \in Nat
      /\ issued \in Nat /\ issued <= MaxIssued /\ MaxIssued \in Nat
      /\ held \in [Clients -> [marker : Marker, upto : 0 .. MaxIssued]]
      /\ q.data \in [Offset -> [id : 0 .. MaxIssued, size : Sizes \cup {0}, at : Nat]]
  BY InvIs
<1>4. q' = r.q /\ contents' = ReadAll(r.q) /\ reply' = [ret |-> r.ret, bytes |-> 0] /\ issued' = issued /\ held' = held
  BY DEF cls_queue_remove_entries
<1>5. es \in Seq(Entry) /\ n \in Nat /\ n <= issued /\ p[n + 1] \in Nat /\ p[n + 1] <= queue_get_capacity /\ HasFront(q)
  <2>1. n \in Nat /\ p[n + 1] \in 0 .. queue_get_capacity /\ HasFront(q)
    BY <1>2, LayoutIs DEF Holds, Uses
  <2> QED
    BY <1>2, <2>1, Sizes0 DEF Layout, Numbered
<1>6. ReadAll(q) = es
  BY <1>2, <1>3, <1>5, ReadAllIs
<1>7. \A b \in Clients : held[b].marker \in Marker
  BY <1>3
<1>8. SubSeq(es, 0 + 1, n) = es /\ 0 \in 0 .. n
  BY <1>5
<1>9. ASSUME r.q = q, r.ret \in {OK, EINVAL}
      PROVE  QueueInv' /\ Fifo!FifoNext /\ Dropped(contents, contents', held[c].upto)
  <2> HIDE DEF r
  <2>1. q' = q /\ contents' = contents /\ issued' = issued /\ held' = held /\ reply' = [ret |-> r.ret, bytes |-> 0]
    BY <1>4, <1>6, <1>9
  <2>2. TypeOK'
    <3>1. reply' \in [ret : {OK, ENOSPC, EINVAL}, bytes : Nat]
      BY <1>9, <2>1
    <3> QED
      BY <2>1, <3>1 DEF TypeOK, QueueInv
  <2>3. QueueInv'
    BY <1>1, <2>1, <2>2 DEF QueueInv
  <2>4. CASE r.ret = OK
    <3>1. Fifo!DropPrefix
      BY <1>8, <2>1, <2>4 DEF Fifo!DropPrefix
    <3> QED
      BY <2>1, <2>3, <3>1 DEF Fifo!FifoNext, Dropped
  <2>5. CASE r.ret = EINVAL
    <3>1. Fifo!Refuse
      BY <2>1, <2>5 DEF Fifo!Refuse
    <3> QED
      BY <2>1, <2>3, <3>1 DEF Fifo!FifoNext, Dropped
  <2> QED
    BY <1>9, <2>4, <2>5
<1>10. CASE IsEmpty(q)
  <2>1. r = [ret |-> OK, q |-> q]
    BY <1>10 DEF queue_remove_entries
  <2> QED
    BY <1>9, <2>1
<1>11. CASE ~IsEmpty(q) /\ Past(h.marker, q.front)
  <2>1. \A m \in Marker : Past(m, q.front) => ~Ahead(q, m)
    <3>1. PICK a \in Nat : a = 0
      OBVIOUS
    <3>2. a <= queue_get_capacity
      BY <3>1, Sizes0
    <3> QED
      BY <1>5, <3>2, FrontMoves
  <2>2. ~Ahead(q, h.marker)
    BY <1>7, <1>11, <2>1
  <2>3. r = [ret |-> EINVAL, q |-> q]
    BY <1>11, <2>2 DEF queue_remove_entries
  <2> QED
    BY <1>9, <2>3
<1>12. CASE ~IsEmpty(q) /\ ~Past(h.marker, q.front)
  <2>1. PICK i \in 1 .. n + 1 : h.marker = MarkerAt(q, p[i]) /\ h.upto = issued - n + i - 1
    BY <1>2, <1>12 DEF KeptAt
  <2> DEFINE es2 == SubSeq(es, i, n)
             p2 == Shorter(p, i, n)
  <2>2. /\ r.ret = OK /\ Holds(r.q, es2, p2) /\ r.q.front = MarkerAt(q, p[i]) /\ r.q.tail = q.tail
        /\ \A o \in Offset : r.q.data[o] = q.data[o] \/ r.q.data[o] = ZeroCell
    BY <1>2, <1>12, <2>1, RemoveIs
  <2> HIDE DEF r
  <2>3. Layout(es2, p2)
    BY <1>2, LayoutDrop
  <2>4. Len(es2) = n - i + 1
    BY <1>5, DropIs
  <2>5. Numbered(es2, issued)
    BY <1>2, <1>3, <1>5, NumberedDrop
  <2>6. \A b \in Clients : KeptAt(held[b], r.q, p2, n - i + 1, issued)
    BY <1>2, <1>3, <1>5, <1>7, <2>2, KeptByRemove
  <2> HIDE DEF es2, p2
  <2>7. ReadAll(r.q) = es2
    <3>1. Len(es2) <= MaxIssued
      BY <1>3, <1>5, <2>4
    <3> QED
      BY <2>2, <2>3, <3>1, ReadAllIs
  <2>8. q' = r.q /\ contents' = es2 /\ issued' = issued /\ held' = held /\ reply' = [ret |-> OK, bytes |-> 0]
    BY <1>4, <2>2, <2>7
  <2>9. Described(r.q, es2, issued, held, p2)
    BY <2>2, <2>3, <2>4, <2>5, <2>6 DEF Described
  <2>10. RingOf(r.q) /\ r.q.tail.gen <= issued
    <3>1. Uses(r.q, p2[Len(es2) + 1])
      BY <2>2 DEF Holds
    <3>2. r.q.tail.gen <= issued /\ r.q.tail.gen <= MaxIssued
      BY <1>3, <2>2
    <3>3. \A o \in Offset : r.q.data[o] \in [id : 0 .. MaxIssued, size : Sizes \cup {0}, at : Nat]
      <4>1. ZeroCell \in [id : 0 .. MaxIssued, size : Sizes \cup {0}, at : Nat]
        BY <1>3 DEF ZeroCell
      <4> QED
        BY <1>3, <2>2, <4>1
    <3> QED
      BY <3>1, <3>2, <3>3, RingIs
  <2>11. QueueInv'
    <3>1. reply' \in [ret : {OK, ENOSPC, EINVAL}, bytes : Nat]
      BY <2>8
    <3>2. TypeOK'
      BY <2>8, <2>10, <3>1 DEF TypeOK, QueueInv, RingOf
    <3> QED
      BY <2>8, <2>9, <2>10, <3>2 DEF QueueInv
  <2>12. PICK k \in 0 .. n : k + 1 = i
    <3>1. i - 1 \in 0 .. n /\ (i - 1) + 1 = i
      BY <1>5
    <3> QED
      BY <3>1
  <2>13. contents' = SubSeq(es, k + 1, n)
    BY <2>8, <2>12 DEF es2
  <2>14. Fifo!DropPrefix
    BY <2>8, <2>13 DEF Fifo!DropPrefix
  <2>15. ASSUME NEW j \in DOMAIN es
         PROVE  j > k <=> es[j].id > h.upto
    <3>1. j \in 1 .. n
      BY <1>5
    <3>2. es[j].id = issued - n + j
      BY <1>2, <3>1 DEF Numbered
    <3>3. h.upto = issued - n + k
      BY <1>3, <1>5, <2>1, <2>12
    <3> QED
      BY <1>3, <1>5, <3>1, <3>2, <3>3
  <2>16. Dropped(contents, contents', h.upto)
    BY <2>13, <2>15 DEF Dropped
  <2> QED
    BY <2>11, <2>14, <2>16 DEF Fifo!FifoNext
<1> QED
  BY <1>10, <1>11, <1>12

-----------------------------------------------------------------------------
(* Listing in pages. *)

\* The listing of the whole queue.
LEMMA ListAll ==
    ASSUME NEW ring, NEW es, NEW p, Layout(es, p), Holds(ring, es, p), Len(es) <= MaxIssued
    PROVE  LET all == queue_list_entries(ring, NoMarker, MaxIssued + 1)
           IN  /\ all.ret = OK /\ all.next = ring.tail
               /\ all.entries = [j \in 1 .. Len(es) |-> ListedAs(ring, es, p, j)]
<1> DEFINE n == Len(es)
           all == queue_list_entries(ring, NoMarker, MaxIssued + 1)
<1>1. n \in Nat /\ MaxIssued \in Nat /\ ring.tail = MarkerAt(ring, p[n + 1])
  BY LayoutIs, QueueClassConstants DEF Holds, Uses
<1>2. CASE n = 0
  <2>1. all = [ret |-> OK, entries |-> <<>>, next |-> ring.front, truncated |-> FALSE] /\ IsEmpty(ring)
    BY <1>2, ListEmpty
  <2>2. ring.front = ring.tail
    BY <2>1 DEF IsEmpty
  <2>3. <<>> = [j \in 1 .. n |-> ListedAs(ring, es, p, j)]
    BY <1>2
  <2> QED
    BY <2>1, <2>2, <2>3
<1>3. CASE n # 0
  <2>1. PICK i \in 1 .. n, max \in Nat \ {0} : i = 1 /\ max = MaxIssued + 1
    BY <1>1, <1>3
  <2>2. NoMarker.offset = 0 /\ PageSize(es, i, max) = n
    BY <1>1, <2>1 DEF NoMarker, PageSize
  <2>3. queue_list_entries(ring, NoMarker, max) = Page(ring, es, p, i, max)
    BY <2>1, <2>2, ListIs
  <2>4. all = [ret |-> OK, entries |-> [j \in 1 .. n |-> ListedAs(ring, es, p, 1 + j - 1)],
               next |-> MarkerAt(ring, p[1 + n]), truncated |-> 1 + n <= n]
    BY <2>1, <2>2, <2>3 DEF Page
  <2> HIDE DEF all
  <2>5. /\ all.ret = OK /\ all.entries = [j \in 1 .. n |-> ListedAs(ring, es, p, 1 + j - 1)]
        /\ all.next = MarkerAt(ring, p[1 + n])
    BY <2>4
  <2>6. 1 + n = n + 1 /\ \A j \in 1 .. n : 1 + j - 1 = j
    BY <1>1
  <2> QED
    BY <1>1, <2>5, <2>6 DEF all
<1> QED
  BY <1>2, <1>3

\* Exactly the first byte of each entry is marked as one.
LEMMA StartsAreLive ==
    ASSUME NEW ring, NEW es, NEW p, Layout(es, p), Holds(ring, es, p)
    PROVE  LiveMarkers(ring) = {MarkerAt(ring, p[i]) : i \in 1 .. Len(es)} \cup {ring.tail}
<1> DEFINE n == Len(es)
           used == p[n + 1]
           Of(o) == [gen |-> IF o >= ring.front.offset THEN ring.front.gen ELSE ring.tail.gen, offset |-> o]
<1>1. n \in Nat /\ Uses(ring, used) /\ used \in Nat
  <2>1. n \in Nat /\ n + 1 \in 1 .. n + 1
    BY LayoutIs
  <2> QED
    BY <2>1, LayoutIs DEF Holds
<1>2. /\ \A o \in Live(ring) : \E d \in Nat : d < used /\ o = MarkerAt(ring, d).offset
      /\ \A d \in Nat : d < used => MarkerAt(ring, d).offset \in Live(ring)
      /\ \A d \in Nat : d < used => MarkerAt(ring, d) = Of(MarkerAt(ring, d).offset)
  BY <1>1, LiveIs
<1>3. ASSUME NEW i \in 1 .. n
      PROVE  /\ p[i] \in Nat /\ p[i] < used
             /\ ring.data[MarkerAt(ring, p[i]).offset].at = 0
  <2>1. i \in 1 .. n + 1 /\ n + 1 \in 1 .. n + 1 /\ i < n + 1
    BY <1>1
  <2>2. p[i] \in Nat /\ p[i] < used
    BY <2>1, LayoutIs DEF Layout
  <2>3. 0 \in Nat /\ 0 < RingLength(es[i]) /\ es[i] \in Entry
    BY LayoutIs, EntryIs
  <2>4. p[i] + 0 = p[i]
    BY <2>2
  <2>5. ring.data[MarkerAt(ring, p[i] + 0).offset] = CellOf(es[i], 0)
    BY <2>3 DEF Holds
  <2> QED
    BY <2>2, <2>3, <2>4, <2>5, EntryIs
<1>4. ASSUME NEW d \in Nat, d < used, ring.data[MarkerAt(ring, d).offset].at = 0
      PROVE  \E i \in 1 .. n : d = p[i]
  <2>1. PICK i \in 1 .. n : p[i] <= d /\ d < p[i + 1]
    BY <1>4 DEF Layout
  <2>2. p[i] \in Nat /\ es[i] \in Entry /\ p[i + 1] = p[i] + RingLength(es[i]) /\ RingLength(es[i]) \in Nat
    <3>1. es[i] \in Entry
      BY LayoutIs
    <3> QED
      BY <1>3, <3>1, LayoutIs, EntryIs
  <2>3. PICK j \in Nat : d = p[i] + j /\ j < RingLength(es[i])
    <3>1. d - p[i] \in Nat /\ d = p[i] + (d - p[i]) /\ d - p[i] < RingLength(es[i])
      BY <2>1, <2>2
    <3> QED
      BY <3>1
  <2>4. ring.data[MarkerAt(ring, d).offset] = CellOf(es[i], j)
    BY <2>3 DEF Holds
  <2>5. j = 0
    BY <1>4, <2>2, <2>4, EntryIs
  <2> QED
    BY <2>2, <2>3, <2>5
<1>5. LiveMarkers(ring) = {Of(o) : o \in {x \in Live(ring) : ring.data[x].at = 0}} \cup {ring.tail}
  BY DEF LiveMarkers
<1> HIDE DEF Of
<1>6. ASSUME NEW o \in Live(ring), ring.data[o].at = 0
      PROVE  \E i \in 1 .. n : Of(o) = MarkerAt(ring, p[i])
  <2>1. PICK d \in Nat : d < used /\ o = MarkerAt(ring, d).offset
    BY <1>2
  <2>2. PICK i \in 1 .. n : d = p[i]
    BY <1>4, <1>6, <2>1
  <2> QED
    BY <1>2, <2>1, <2>2
<1>7. ASSUME NEW i \in 1 .. n
      PROVE  \E o \in {x \in Live(ring) : ring.data[x].at = 0} : MarkerAt(ring, p[i]) = Of(o)
  BY <1>2, <1>3
<1>8. {Of(o) : o \in {x \in Live(ring) : ring.data[x].at = 0}} = {MarkerAt(ring, p[i]) : i \in 1 .. n}
  BY <1>6, <1>7
<1> QED
  BY <1>5, <1>8

\* The page that starts at entry i of n, in the words of PagedListing.
LastOf(i, max, n) == IF i + max - 1 < n THEN i + max - 1 ELSE n
PageOf(ring, all, n, i, last) ==
    [ret |-> OK, entries |-> SubSeq(all, i, last),
     next |-> IF last + 1 <= n THEN all[last + 1].marker ELSE ring.tail,
     truncated |-> last < n]

LEMMA PageIs ==
    ASSUME NEW ring, NEW es, NEW p, Layout(es, p), Holds(ring, es, p), NEW all,
           all = [j \in 1 .. Len(es) |-> ListedAs(ring, es, p, j)],
           NEW i \in 1 .. Len(es), NEW max \in Nat \ {0}
    PROVE  queue_list_entries(ring, all[i].marker, max) = PageOf(ring, all, Len(es), i, LastOf(i, max, Len(es)))
<1> DEFINE n == Len(es)
           k == PageSize(es, i, max)
           last == LastOf(i, max, n)
<1>1. n \in Nat /\ ring.tail = MarkerAt(ring, p[n + 1])
  BY LayoutIs DEF Holds, Uses
<1>2. \A j \in 1 .. n : all[j].marker = MarkerAt(ring, p[j])
  BY DEF ListedAs
<1>3. k \in 1 .. max /\ i + k \in i + 1 .. n + 1 /\ last = i + k - 1 /\ k \in Nat
  BY <1>1 DEF PageSize, LastOf
<1> HIDE DEF last
<1>4. queue_list_entries(ring, all[i].marker, max) = Page(ring, es, p, i, max)
  <2>1. PICK start : start = all[i].marker
    OBVIOUS
  <2>2. start = MarkerAt(ring, p[i])
    BY <1>2, <2>1
  <2>3. queue_list_entries(ring, start, max) = Page(ring, es, p, i, max)
    BY <2>2, ListIs
  <2> QED
    BY <2>1, <2>3
<1> HIDE DEF k
<1>5. Page(ring, es, p, i, max) =
          [ret |-> OK, entries |-> [j \in 1 .. k |-> ListedAs(ring, es, p, i + j - 1)],
           next |-> MarkerAt(ring, p[i + k]), truncated |-> i + k <= n]
  BY DEF Page, k
<1>6. last \in Nat /\ last + 1 = i + k /\ i <= last /\ last <= n /\ last - i + 1 = k
  BY <1>1, <1>3
<1>7. MarkerAt(ring, p[i + k]) = IF last + 1 <= n THEN all[last + 1].marker ELSE ring.tail
  <2>1. CASE last + 1 <= n
    <3>1. last + 1 \in 1 .. n
      BY <1>1, <1>6, <2>1
    <3> QED
      BY <1>2, <1>6, <2>1, <3>1
  <2>2. CASE ~(last + 1 <= n)
    <3>1. i + k = n + 1
      BY <1>1, <1>6, <2>2
    <3> QED
      BY <1>1, <2>2, <3>1
  <2> QED
    BY <2>1, <2>2
<1>8. (i + k <= n) = (last < n)
  <2>1. i + k <= n <=> last < n
    BY <1>1, <1>6
  <2> QED
    BY <2>1
<1>9. SubSeq(all, i, last) = [j \in 1 .. k |-> ListedAs(ring, es, p, i + j - 1)]
  <2>1. SubSeq(all, i, last) = [j \in 1 .. last - i + 1 |-> all[i + j - 1]]
    BY <1>1, <1>6
  <2>2. \A j \in 1 .. k : all[i + j - 1] = ListedAs(ring, es, p, i + j - 1)
    BY <1>1, <1>3, <1>6
  <2> QED
    BY <1>6, <2>1, <2>2
<1> QED
  BY <1>4, <1>5, <1>7, <1>8, <1>9 DEF PageOf, last

LEMMA PagedIs ==
    ASSUME QueueInv
    PROVE  PagedListing
<1> DEFINE all == queue_list_entries(q, NoMarker, MaxIssued + 1)
           es == contents
           N == Len(es)
<1>1. PICK p : Described(q, contents, issued, held, p)
  BY DEF QueueInv
<1>2. Layout(es, p) /\ Holds(q, es, p) /\ N \in Nat /\ N <= MaxIssued
  <2>1. Layout(es, p) /\ Holds(q, es, p) /\ N <= issued
    BY <1>1 DEF Described, Numbered
  <2>2. N \in Nat
    BY <2>1, LayoutIs
  <2> QED
    BY <2>1, <2>2, InvIs
<1>3. all.ret = OK /\ all.next = q.tail /\ all.entries = [j \in 1 .. N |-> ListedAs(q, es, p, j)]
  BY <1>2, ListAll
<1> HIDE DEF all
<1>4. Len(all.entries) = N
  BY <1>2, <1>3
<1>5. {all.entries[i].marker : i \in 1 .. Len(all.entries)} \cup {all.next} = LiveMarkers(q)
  <2>1. LiveMarkers(q) = {MarkerAt(q, p[i]) : i \in 1 .. N} \cup {q.tail}
    BY <1>2, StartsAreLive
  <2>2. \A j \in 1 .. N : all.entries[j].marker = MarkerAt(q, p[j])
    BY <1>3 DEF ListedAs
  <2> QED
    BY <1>3, <1>4, <2>1, <2>2
<1>6. \A i \in 1 .. Len(all.entries), max \in 1 .. MaxList : \A last :
          last = (IF i + max - 1 < Len(all.entries) THEN i + max - 1 ELSE Len(all.entries)) =>
          queue_list_entries(q, IF i <= Len(all.entries) THEN all.entries[i].marker ELSE q.tail, max) =
              [ret |-> OK, entries |-> SubSeq(all.entries, i, last),
               next |-> IF last + 1 <= Len(all.entries) THEN all.entries[last + 1].marker ELSE q.tail,
               truncated |-> last < Len(all.entries)]
  <2> SUFFICES ASSUME NEW i \in 1 .. N, NEW max \in 1 .. MaxList, NEW last,
                      last = IF i + max - 1 < N THEN i + max - 1 ELSE N
               PROVE  queue_list_entries(q, IF i <= N THEN all.entries[i].marker ELSE q.tail, max) =
                          [ret |-> OK, entries |-> SubSeq(all.entries, i, last),
                           next |-> IF last + 1 <= N THEN all.entries[last + 1].marker ELSE q.tail,
                           truncated |-> last < N]
    BY <1>4
  <2>1. max \in Nat \ {0}
    BY QueueClassConstants
  <2>2. i <= N
    BY <1>2
  <2>3. PICK a : a = all.entries
    OBVIOUS
  <2>4. queue_list_entries(q, a[i].marker, max) = PageOf(q, a, N, i, LastOf(i, max, N))
    <3>1. a = [j \in 1 .. N |-> ListedAs(q, es, p, j)]
      BY <1>3, <2>3
    <3> QED
      BY <1>2, <2>1, <3>1, PageIs
  <2>5. last = LastOf(i, max, N)
    BY DEF LastOf
  <2> QED
    BY <2>2, <2>3, <2>4, <2>5 DEF PageOf
<1> QED
  BY <1>3, <1>5, <1>6 DEF PagedListing, all

-----------------------------------------------------------------------------
(* The theorems. *)

\* What each step does: the invariant stays, it is a step of the bounded queue, a
\* removal drops what it may, an enqueue writes free bytes.
GoodStep ==
    /\ QueueInv'
    /\ Fifo!FifoNext \/ UNCHANGED <<contents, reply>>
    /\ \A c \in Clients : cls_queue_remove_entries(c) => Dropped(contents, contents', held[c].upto)
    /\ \A ss \in SizeVectors : cls_queue_enqueue(ss) => \A o \in Live(q) : q.data[o] = q'.data[o]

LEMMA EveryStepGood ==
    ASSUME VectorLengths = {1}, QueueInv, [Next]_vars
    PROVE  GoodStep
<1>1. \A c \in Clients : cls_queue_remove_entries(c) => Dropped(contents, contents', held[c].upto)
  BY RemoveStep
<1>2. \A ss \in SizeVectors : cls_queue_enqueue(ss) => \A o \in Live(q) : q.data[o] = q'.data[o]
  BY EnqueueStep
<1>3. QueueInv' /\ (Fifo!FifoNext \/ UNCHANGED <<contents, reply>>)
  <2>1. CASE Next
    <3>1. ASSUME NEW ss \in SizeVectors, cls_queue_enqueue(ss)
          PROVE  QueueInv' /\ Fifo!FifoNext
      BY <3>1, EnqueueStep
    <3>2. ASSUME NEW c \in Clients, NEW max \in 1 .. MaxList, cls_queue_list_entries(c, max)
          PROVE  QueueInv' /\ Fifo!FifoNext
      BY <3>2, ListStep
    <3>3. ASSUME NEW c \in Clients, cls_queue_remove_entries(c)
          PROVE  QueueInv' /\ Fifo!FifoNext
      BY <3>3, RemoveStep
    <3> QED
      BY <2>1, <3>1, <3>2, <3>3 DEF Next
  <2>2. CASE UNCHANGED vars
    <3>1. q' = q /\ reply' = reply /\ issued' = issued /\ held' = held /\ contents' = contents
      BY <2>2 DEF vars
    <3>2. QueueInv'
      BY <3>1 DEF QueueInv, TypeOK
    <3> QED
      BY <3>1, <3>2
  <2> QED
    BY <2>1, <2>2
<1> QED
  BY <1>1, <1>2, <1>3 DEF GoodStep

\* Head, ring, answers and markers have their types: the tail never starts more laps
\* than entries were enqueued, and front and tail stay offsets of the ring.
THEOREM QueueTypeOK ==
    ASSUME VectorLengths = {1}
    PROVE  Spec => []TypeOK
<1>1. QueueInv /\ [Next]_vars => QueueInv'
  BY EveryStepGood DEF GoodStep
<1>2. Init => QueueInv
  BY QueueInit
<1>3. QueueInv => TypeOK
  BY DEF QueueInv
<1> QED
  BY <1>1, <1>2, <1>3, PTL DEF Spec

\* Pages of any size visit each entry once and stop with the last one, whichever way
\* the entries lie around the end of the object (queue_list_entries).
THEOREM QueuePagedListing ==
    ASSUME VectorLengths = {1}
    PROVE  Spec => []PagedListing
<1>1. QueueInv /\ [Next]_vars => QueueInv'
  BY EveryStepGood DEF GoodStep
<1>2. Init => QueueInv
  BY QueueInit
<1>3. QueueInv => PagedListing
  BY PagedIs
<1> QED
  BY <1>1, <1>2, <1>3, PTL DEF Spec

\* The ring, read through a listing, is a first-in first-out queue with a capacity in
\* bytes: nothing is lost, torn, reordered or duplicated, and an entry is turned away
\* only when it does not fit (queue_enqueue, queue_remove_entries).
THEOREM QueueImplementsFifo ==
    ASSUME VectorLengths = {1}
    PROVE  Spec => ImplementsFifo
<1>1. QueueInv /\ [Next]_vars => QueueInv'
  BY EveryStepGood DEF GoodStep
<1>2. Init => QueueInv /\ Fifo!FifoInit
  BY QueueInit
<1>3. QueueInv /\ [Next]_vars => [Fifo!FifoNext]_Fifo!fifoVars
  BY EveryStepGood DEF GoodStep, Fifo!fifoVars
<1> QED
  BY <1>1, <1>2, <1>3, PTL DEF Spec, ImplementsFifo, Fifo!FifoSpec

\* A removal drops exactly the entries before the client's marker, or none, however
\* old the marker is and whatever others removed since (queue_remove_entries).
THEOREM QueueRemovesOnlyListed ==
    ASSUME VectorLengths = {1}
    PROVE  Spec => RemovesOnlyListed
<1>1. QueueInv /\ [Next]_vars => QueueInv'
  BY EveryStepGood DEF GoodStep
<1>2. Init => QueueInv
  BY QueueInit
<1> DEFINE Step == \A c \in Clients : cls_queue_remove_entries(c) =>
                       \/ contents' = contents
                       \/ \E n \in 0 .. Len(contents) :
                              /\ contents' = SubSeq(contents, n + 1, Len(contents))
                              /\ \A i \in DOMAIN contents : i > n <=> contents[i].id > held[c].upto
<1>3. QueueInv /\ [Next]_vars => [Step]_vars
  BY EveryStepGood DEF GoodStep, Dropped
<1> QED
  BY <1>1, <1>2, <1>3, PTL DEF Spec, RemovesOnlyListed

\* An enqueue changes no byte of an entry that is in the queue (queue_enqueue:
\* "enqueue of new bufferlist happens in the free spaces of the queue").
THEOREM QueueEnqueueInFreeSpace ==
    ASSUME VectorLengths = {1}
    PROVE  Spec => EnqueueInFreeSpace
<1>1. QueueInv /\ [Next]_vars => QueueInv'
  BY EveryStepGood DEF GoodStep
<1>2. Init => QueueInv
  BY QueueInit
<1> DEFINE Step == \A ss \in SizeVectors : cls_queue_enqueue(ss) =>
                       \A o \in Live(q) : q.data[o] = q'.data[o]
<1>3. QueueInv /\ [Next]_vars => [Step]_vars
  BY EveryStepGood DEF GoodStep
<1> QED
  BY <1>1, <1>2, <1>3, PTL DEF Spec, EnqueueInFreeSpace
=============================================================================
