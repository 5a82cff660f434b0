-------------------------- MODULE TwoPCClassProofs --------------------------
(***************************************************************************)
(* The two-phase commit queue, for every size of ring, head, entries and   *)
(* reservations, any number of ids and any timing.                         *)
(*                                                                         *)
(* First what the ring buffer's methods preserve (ClsQueue): the head      *)
(* stays consistent and the bytes of the entries that stay in the queue do *)
(* not change.  The lemmas are stated for one method call on a queue in a  *)
(* consistent state.                                                       *)
(*                                                                         *)
(* Then the ring of this class, as long as a commit brings one entry (as   *)
(* all callers in the gateway do).  The inductive invariant RingInv says   *)
(* that the ring is consistent and that the marker a consumer keeps,       *)
(* however old, never overtakes the tail: queue_remove_entries compares an *)
(* end marker with the front only, so this is what keeps the front from    *)
(* being moved past the tail.                                              *)
(*                                                                         *)
(* Then the reservations, as long as the ids do not come round.  ResInv    *)
(* says where the reservation of each id is kept and that the reserved     *)
(* bytes cover the sum of what the grants were promised; HonourInv adds    *)
(* that the sum fits in the free bytes of the ring.  The sums are those of *)
(* the library's folds: what is needed of them is proved first, induction  *)
(* being an argument about the least size of a set that fails.             *)
(***************************************************************************)
EXTENDS TwoPCClass, FiniteSetTheorems, WellFoundedInduction, TLAPS

-----------------------------------------------------------------------------
(* The ring. *)

\* A marker at or before the tail, in the order in which the tail moves.
AtOrBefore(m, tail) ==
    /\ m.offset \in Offset
    /\ m.gen < tail.gen \/ (m.gen = tail.gen /\ m.offset <= tail.offset)

\* A consistent queue.
GoodQueue(q) == q \in Queue /\ InOneLap(q)

\* The initialised queue is consistent (queue_init).
LEMMA InitGood == GoodQueue(queue_init)
BY QueueSizes DEF GoodQueue, queue_init, Queue, Marker, Offset, Cell, ZeroCell, InOneLap

\* Where the tail stands after an entry was written into a ring with room for it: ahead
\* of where it was, and not past the front (cls_queue_src.cc: queue_enqueue).
LEMMA TailMoves ==
    ASSUME NEW q, GoodQueue(q), ~IsFull(q), NEW len \in Nat, HasRoom(q, len)
    PROVE  LET t == TailAfter(q.tail, len)
           IN  /\ t \in Marker /\ t.offset \in Offset
               /\ \/ t.gen = q.front.gen /\ q.front.offset <= t.offset
                  \/ t.gen = q.front.gen + 1 /\ t.offset <= q.front.offset
               /\ AtOrBefore(q.tail, t)
<1> DEFINE fg == q.front.gen
           fo == q.front.offset
           tg == q.tail.gen
           to == q.tail.offset
<1>0. /\ MaxHeadSize \in Nat /\ QueueSize \in Nat /\ QueueSize > MaxHeadSize
      /\ fg \in Nat /\ fo \in Nat /\ tg \in Nat /\ to \in Nat
      /\ q.tail = [gen |-> tg, offset |-> to]
      /\ MaxHeadSize <= fo /\ fo < QueueSize /\ MaxHeadSize <= to /\ to < QueueSize
      /\ \/ tg = fg /\ fo <= to
         \/ tg = fg + 1 /\ to < fo
    BY QueueSizes DEF GoodQueue, Queue, Marker, Offset, InOneLap, IsFull
<1>1. CASE to + len < QueueSize
    <2>1. TailAfter(q.tail, len) = [gen |-> tg, offset |-> to + len]
        BY <1>0, <1>1 DEF TailAfter, WrapMarker
    <2>2. tg = fg \/ to + len <= fo
        BY <1>0, <1>1 DEF HasRoom
    <2> QED
        BY <1>0, <1>1, <2>1, <2>2 DEF Marker, Offset, AtOrBefore
<1>2. CASE to + len = QueueSize
    <2>1. TailAfter(q.tail, len) = [gen |-> tg + 1, offset |-> MaxHeadSize]
        BY <1>0, <1>2 DEF TailAfter, WrapMarker
    <2>2. tg = fg
        BY <1>0, <1>2 DEF HasRoom
    <2> QED
        BY <1>0, <1>2, <2>1, <2>2 DEF Marker, Offset, AtOrBefore
<1>3. CASE to + len > QueueSize
    <2>1. TailAfter(q.tail, len) =
              [gen |-> tg + 1, offset |-> MaxHeadSize + (len - (QueueSize - to))]
        BY <1>0, <1>3 DEF TailAfter
    <2>2. tg = fg /\ len <= (QueueSize - to) + (fo - MaxHeadSize)
        BY <1>0, <1>3 DEF HasRoom, RemainingSize
    <2> QED
        BY <1>0, <1>3, <2>1, <2>2 DEF Marker, Offset, AtOrBefore
<1> QED
    BY <1>0, <1>1, <1>2, <1>3

\* An entry is written only into bytes that hold none: "enqueue of new bufferlist
\* happens in the free spaces of the queue" (cls_queue_src.cc:155), one entry at a time.
LEMMA WritesFreeBytes ==
    ASSUME NEW q, GoodQueue(q), ~IsFull(q), NEW e \in Entry, HasRoom(q, RingLength(e)),
           NEW o \in Live(q)
    PROVE  WriteEntry(q.data, q.tail.offset, e)[o] = q.data[o]
<1> DEFINE fo == q.front.offset
           to == q.tail.offset
           len == RingLength(e)
<1>0. /\ MaxHeadSize \in Nat /\ QueueSize \in Nat /\ QueueSize > MaxHeadSize
      /\ fo \in Nat /\ to \in Nat /\ q.front.gen \in Nat /\ q.tail.gen \in Nat /\ len \in Nat
      /\ MaxHeadSize <= fo /\ fo < QueueSize /\ MaxHeadSize <= to /\ to < QueueSize
      /\ \/ q.tail.gen = q.front.gen /\ fo <= to
         \/ q.tail.gen = q.front.gen + 1 /\ to < fo
    BY QueueSizes DEF GoodQueue, Queue, Marker, Offset, InOneLap, IsFull, Entry, RingLength
<1>1. o \in Offset /\ o \in Nat /\ MaxHeadSize <= o /\ o < QueueSize
    BY <1>0 DEF Live, Offset
<1>2. RingDistance(to, o) >= len
    <2>1. CASE q.tail.gen = q.front.gen
        <3>1. fo <= o /\ o < to
            BY <2>1, <1>1 DEF Live
        <3>2. RingDistance(to, o) = (QueueSize - to) + (o - MaxHeadSize)
            BY <1>0, <1>1, <3>1 DEF RingDistance
        <3>3. to + len <= QueueSize \/ len <= (QueueSize - to) + (fo - MaxHeadSize)
            BY <1>0, <2>1 DEF HasRoom, RemainingSize
        <3> HIDE DEF len
        <3> QED
            BY <1>0, <1>1, <3>1, <3>2, <3>3
    <2>2. CASE q.tail.gen = q.front.gen + 1
        <3>1. to < fo /\ to + len <= fo
            BY <1>0, <2>2 DEF HasRoom
        <3>2. fo <= o \/ o < to
            BY <1>0, <1>1, <2>2 DEF Live
        <3> HIDE DEF len
        <3> QED
            BY <1>0, <1>1, <3>1, <3>2 DEF RingDistance
    <2> QED
        BY <1>0, <2>1, <2>2
<1>3. RingDistance(to, o) \in Int
    BY <1>0, <1>1 DEF RingDistance
<1> QED
    BY <1>0, <1>1, <1>2, <1>3 DEF WriteEntry

\* The written bytes are cells.
LEMMA WriteType ==
    ASSUME NEW data \in [Offset -> Cell], NEW from \in Offset, NEW e \in Entry
    PROVE  WriteEntry(data, from, e) \in [Offset -> Cell]
<1>1. ASSUME NEW o \in Offset
      PROVE  RingDistance(from, o) \in Nat
    BY QueueSizes DEF RingDistance, Offset
<1> QED
    BY <1>1 DEF WriteEntry, Cell, Entry

\* An enqueue of one entry keeps the queue consistent, moves only the tail, forward,
\* and changes no byte of an entry in the queue.
LEMMA EnqueueGood ==
    ASSUME NEW q, GoodQueue(q), NEW e \in Entry
    PROVE  LET r == queue_enqueue(q, <<e>>)
           IN  /\ GoodQueue(r.q)
               /\ r.q.front = q.front
               /\ AtOrBefore(q.tail, r.q.tail)
               /\ \A o \in Live(q) : r.q.data[o] = q.data[o]
<1> DEFINE len == RingLength(e)
           t == TailAfter(q.tail, len)
           d == WriteEntry(q.data, q.tail.offset, e)
           r == queue_enqueue(q, <<e>>)
<1>0. /\ q \in Queue /\ q.front \in Marker /\ q.tail \in Marker /\ q.tail.offset \in Offset
      /\ q.data \in [Offset -> Cell] /\ len \in Nat
      /\ AtOrBefore(q.tail, q.tail)
    BY QueueSizes DEF GoodQueue, Queue, Marker, InOneLap, AtOrBefore, Entry, RingLength, Offset
<1>1. CASE ~IsFull(q) /\ HasRoom(q, len)
    <2>1. r.q = [q EXCEPT !.tail = t, !.data = d]
        BY <1>1 DEF queue_enqueue, EnqueueOne, OK, ENOSPC
    <2>2. /\ t \in Marker /\ t.offset \in Offset /\ AtOrBefore(q.tail, t)
          /\ \/ t.gen = q.front.gen /\ q.front.offset <= t.offset
             \/ t.gen = q.front.gen + 1 /\ t.offset <= q.front.offset
        BY <1>0, <1>1, TailMoves
    <2>3. d \in [Offset -> Cell]
        BY <1>0, WriteType
    <2>4. \A o \in Live(q) : d[o] = q.data[o]
        BY <1>1, WritesFreeBytes
    <2> HIDE DEF t, d, r, len
    <2>5. r.q \in Queue /\ r.q.front = q.front /\ r.q.tail = t /\ r.q.data = d
        BY <1>0, <2>1, <2>2, <2>3 DEF Queue
    <2> QED
        BY <2>2, <2>4, <2>5 DEF GoodQueue, InOneLap, r
<1>2. CASE ~(~IsFull(q) /\ HasRoom(q, len))
    <2>1. r.q = q
        BY <1>2 DEF queue_enqueue, EnqueueOne, OK, ENOSPC
    <2> HIDE DEF r
    <2> QED
        BY <1>0, <2>1 DEF r
<1> QED
    BY <1>1, <1>2

\* The markers a listing hands out are at or before the tail.
LEMMA LiveMarkersBeforeTail ==
    ASSUME NEW q, GoodQueue(q), NEW m \in LiveMarkers(q)
    PROVE  m \in Marker /\ AtOrBefore(m, q.tail)
<1>0. /\ MaxHeadSize \in Nat /\ QueueSize \in Nat
      /\ q.front.gen \in Nat /\ q.front.offset \in Nat
      /\ q.tail.gen \in Nat /\ q.tail.offset \in Nat /\ q.tail \in Marker
      /\ q.tail.offset \in Offset
      /\ \/ q.tail.gen = q.front.gen /\ q.front.offset <= q.tail.offset
         \/ q.tail.gen = q.front.gen + 1 /\ q.tail.offset <= q.front.offset
    BY QueueSizes DEF GoodQueue, Queue, Marker, InOneLap
<1>1. CASE m = q.tail
    BY <1>0, <1>1 DEF AtOrBefore
<1>2. ASSUME NEW o \in Live(q),
             m = [gen |-> IF o >= q.front.offset THEN q.front.gen ELSE q.tail.gen, offset |-> o]
      PROVE  m \in Marker /\ AtOrBefore(m, q.tail)
    <2>1. o \in Offset /\ o \in Nat
        BY <1>0 DEF Live, Offset
    <2>2. CASE o >= q.front.offset
        BY <1>0, <1>2, <2>1, <2>2 DEF Live, Marker, AtOrBefore
    <2>3. CASE o < q.front.offset
        BY <1>0, <1>2, <2>1, <2>3 DEF Live, Marker, AtOrBefore
    <2> QED
        BY <1>0, <2>1, <2>2, <2>3
<1> QED
    BY <1>1, <1>2 DEF LiveMarkers

\* A removal up to any marker at or before the tail, outdated or not, keeps the queue
\* consistent, leaves the tail alone, and changes no byte of an entry that stays
\* (cls_queue_src.cc: queue_remove_entries, which does not look at the tail).
LEMMA RemoveGood ==
    ASSUME NEW q, GoodQueue(q), NEW end \in Marker, AtOrBefore(end, q.tail)
    PROVE  LET r == queue_remove_entries(q, end)
           IN  /\ GoodQueue(r.q)
               /\ r.q.tail = q.tail
               /\ \A o \in Live(q) \cap Live(r.q) : r.q.data[o] = q.data[o]
<1> DEFINE r == queue_remove_entries(q, end)
           d == [o \in Offset |-> IF o \in Removed(q, end) THEN ZeroCell ELSE q.data[o]]
<1>0. /\ MaxHeadSize \in Nat /\ QueueSize \in Nat /\ q \in Queue
      /\ q.front.gen \in Nat /\ q.front.offset \in Nat /\ q.front.offset \in Offset
      /\ q.tail.gen \in Nat /\ q.tail.offset \in Nat /\ q.tail.offset \in Offset
      /\ end.gen \in Nat /\ end.offset \in Nat /\ end.offset \in Offset
      /\ q.data \in [Offset -> Cell]
      /\ \/ q.tail.gen = q.front.gen /\ q.front.offset <= q.tail.offset
         \/ q.tail.gen = q.front.gen + 1 /\ q.tail.offset <= q.front.offset
      /\ end.gen < q.tail.gen \/ (end.gen = q.tail.gen /\ end.offset <= q.tail.offset)
    BY QueueSizes DEF GoodQueue, Queue, Marker, InOneLap, AtOrBefore
<1>1. CASE ~IsEmpty(q) /\ Ahead(q, end)
    <2>1. WrapMarker(end) = end
        BY <1>0 DEF WrapMarker, Offset
    <2>2. r.q = [q EXCEPT !.front = end, !.data = d]
        BY <1>1, <2>1 DEF queue_remove_entries
    <2>3. d \in [Offset -> Cell]
        BY <1>0 DEF Cell, ZeroCell
    <2>4. r.q \in Queue /\ r.q.front = end /\ r.q.tail = q.tail /\ r.q.data = d
        <3> HIDE DEF d, r
        <3> QED
            BY <1>0, <2>2, <2>3 DEF Queue
    <2>5. \/ q.tail.gen = end.gen /\ end.offset <= q.tail.offset
          \/ q.tail.gen = end.gen + 1 /\ q.tail.offset <= end.offset
        BY <1>0, <1>1 DEF Ahead
    <2>6. ASSUME NEW o \in Live(q) \cap Live(r.q)
          PROVE  d[o] = q.data[o]
        <3>1. /\ o \in Offset /\ o \in Nat
              /\ IF end.gen = q.tail.gen
                 THEN end.offset <= o /\ o < q.tail.offset
                 ELSE end.offset <= o \/ o < q.tail.offset
              /\ IF q.front.gen = q.tail.gen
                 THEN q.front.offset <= o /\ o < q.tail.offset
                 ELSE q.front.offset <= o \/ o < q.tail.offset
            <4> HIDE DEF r, d
            <4> QED
                BY <1>0, <2>4 DEF Live, Offset
        <3>2. o \notin Removed(q, end)
            BY <1>0, <1>1, <2>5, <3>1 DEF Removed, Ahead
        <3> QED
            BY <3>1, <3>2
    <2> HIDE DEF r, d
    <2>7. GoodQueue(r.q)
        BY <1>0, <2>4, <2>5 DEF GoodQueue, InOneLap
    <2> QED
        BY <2>4, <2>6, <2>7 DEF r
<1>2. CASE ~(~IsEmpty(q) /\ Ahead(q, end))
    <2>1. r.q = q
        BY <1>2 DEF queue_remove_entries
    <2> HIDE DEF r
    <2> QED
        BY <2>1 DEF r
<1> QED
    BY <1>1, <1>2

-----------------------------------------------------------------------------
(* The bytes that are free. *)

\* The free bytes of a consistent queue, by the laps of front and tail.
LEMMA FreeByLap ==
    ASSUME NEW q, GoodQueue(q)
    PROVE  FreeBytes(q) = IF q.tail.gen = q.front.gen
                          THEN (QueueSize - q.tail.offset) + (q.front.offset - MaxHeadSize)
                          ELSE q.front.offset - q.tail.offset
<1>0. /\ MaxHeadSize \in Nat /\ QueueSize \in Nat
      /\ q.front.gen \in Nat /\ q.front.offset \in Nat
      /\ q.tail.gen \in Nat /\ q.tail.offset \in Nat
      /\ \/ q.tail.gen = q.front.gen /\ q.front.offset <= q.tail.offset
         \/ q.tail.gen = q.front.gen + 1 /\ q.tail.offset <= q.front.offset
    BY QueueSizes DEF GoodQueue, Queue, Marker, InOneLap
<1> QED
    BY <1>0 DEF FreeBytes, IsFull, RemainingSize

\* An entry for which enough bytes are free is enqueued, and an enqueue takes exactly the
\* bytes of the entry (cls_queue_src.cc: queue_enqueue).
LEMMA EnqueueFree ==
    ASSUME NEW q, GoodQueue(q), NEW e \in Entry
    PROVE  LET r == queue_enqueue(q, <<e>>)
           IN  /\ RingLength(e) <= FreeBytes(q) => r.ret = OK
               /\ r.ret = OK => FreeBytes(r.q) = FreeBytes(q) - RingLength(e)
<1> DEFINE len == RingLength(e)
           t == TailAfter(q.tail, len)
           d == WriteEntry(q.data, q.tail.offset, e)
           r == queue_enqueue(q, <<e>>)
           fg == q.front.gen
           fo == q.front.offset
           tg == q.tail.gen
           to == q.tail.offset
<1>0. /\ MaxHeadSize \in Nat /\ QueueSize \in Nat /\ QueueSize > MaxHeadSize
      /\ fg \in Nat /\ fo \in Nat /\ tg \in Nat /\ to \in Nat /\ q \in Queue
      /\ q.tail = [gen |-> tg, offset |-> to]
      /\ MaxHeadSize <= fo /\ fo < QueueSize /\ MaxHeadSize <= to /\ to < QueueSize
      /\ \/ tg = fg /\ fo <= to
         \/ tg = fg + 1 /\ to <= fo
    BY QueueSizes DEF GoodQueue, Queue, Marker, Offset, InOneLap
<1>1. len \in Nat \ {0}
    BY QueueSizes DEF RingLength, Entry
<1>2. FreeBytes(q) = IF tg = fg THEN (QueueSize - to) + (fo - MaxHeadSize) ELSE fo - to
    BY FreeByLap
<1>3. IsFull(q) <=> (tg = fg + 1 /\ to = fo)
    BY <1>0 DEF IsFull
<1>4. len <= FreeBytes(q) => ~IsFull(q) /\ HasRoom(q, len)
    <2> HIDE DEF len
    <2> QED
        BY <1>0, <1>1, <1>2, <1>3 DEF HasRoom, RemainingSize
<1>5. r.ret = OK <=> ~IsFull(q) /\ HasRoom(q, len)
    BY DEF queue_enqueue, EnqueueOne, OK, ENOSPC
<1>6. ASSUME ~IsFull(q), HasRoom(q, len)
      PROVE  FreeBytes(r.q) = FreeBytes(q) - len
    <2>1. r.q = [q EXCEPT !.tail = t, !.data = d]
        BY <1>6 DEF queue_enqueue, EnqueueOne, OK, ENOSPC
    <2>2. r.q.front = q.front /\ r.q.tail = t
        <3> HIDE DEF t, d, r, len
        <3> QED
            BY <1>0, <2>1 DEF Queue
    <2>3. GoodQueue(r.q)
        BY EnqueueGood
    <2>4. FreeBytes(r.q) = IF t.gen = fg
                           THEN (QueueSize - t.offset) + (fo - MaxHeadSize)
                           ELSE fo - t.offset
        <3> HIDE DEF t, d, r, len
        <3> QED
            BY <2>2, <2>3, FreeByLap
    <2>5. CASE to + len < QueueSize
        <3>1. t = [gen |-> tg, offset |-> to + len]
            <4> HIDE DEF len
            <4> QED
                BY <1>0, <1>1, <2>5 DEF TailAfter, WrapMarker
        <3>2. t.gen = tg /\ t.offset = to + len
            BY <3>1
        <3> HIDE DEF t, r, len
        <3> QED
            BY <1>0, <1>1, <1>2, <2>4, <3>2
    <2>6. CASE to + len = QueueSize
        <3>1. t = [gen |-> tg + 1, offset |-> MaxHeadSize]
            <4> HIDE DEF len
            <4> QED
                BY <1>0, <1>1, <2>6 DEF TailAfter, WrapMarker
        <3>2. t.gen = tg + 1 /\ t.offset = MaxHeadSize
            BY <3>1
        <3>3. tg = fg
            <4> HIDE DEF len
            <4> QED
                BY <1>0, <1>1, <1>3, <1>6, <2>6 DEF HasRoom
        <3> HIDE DEF t, r, len
        <3> QED
            BY <1>0, <1>1, <1>2, <2>4, <2>6, <3>2, <3>3
    <2>7. CASE to + len > QueueSize
        <3>1. t = [gen |-> tg + 1, offset |-> MaxHeadSize + (len - (QueueSize - to))]
            <4> HIDE DEF len
            <4> QED
                BY <1>0, <1>1, <2>7 DEF TailAfter
        <3>2. t.gen = tg + 1 /\ t.offset = MaxHeadSize + (len - (QueueSize - to))
            BY <3>1
        <3>3. tg = fg
            <4> HIDE DEF len
            <4> QED
                BY <1>0, <1>1, <1>3, <1>6, <2>7 DEF HasRoom
        <3> HIDE DEF t, r, len
        <3> QED
            BY <1>0, <1>1, <1>2, <2>4, <2>7, <3>2, <3>3
    <2> HIDE DEF t, r, len
    <2> QED
        BY <1>0, <1>1, <2>5, <2>6, <2>7
<1> HIDE DEF r, len
<1> QED
    BY <1>4, <1>5, <1>6 DEF r, len

\* A removal never takes free bytes away, however old its marker is
\* (cls_queue_src.cc: queue_remove_entries).
LEMMA RemoveFrees ==
    ASSUME NEW q, GoodQueue(q), NEW end \in Marker, AtOrBefore(end, q.tail)
    PROVE  FreeBytes(queue_remove_entries(q, end).q) >= FreeBytes(q)
<1> DEFINE r == queue_remove_entries(q, end)
           d == [o \in Offset |-> IF o \in Removed(q, end) THEN ZeroCell ELSE q.data[o]]
<1>0. /\ MaxHeadSize \in Nat /\ QueueSize \in Nat /\ q \in Queue
      /\ q.front.gen \in Nat /\ q.front.offset \in Nat /\ q.front.offset \in Offset
      /\ q.tail.gen \in Nat /\ q.tail.offset \in Nat /\ q.tail.offset \in Offset
      /\ end.gen \in Nat /\ end.offset \in Nat /\ end.offset \in Offset
      /\ \/ q.tail.gen = q.front.gen /\ q.front.offset <= q.tail.offset
         \/ q.tail.gen = q.front.gen + 1 /\ q.tail.offset <= q.front.offset
      /\ end.gen < q.tail.gen \/ (end.gen = q.tail.gen /\ end.offset <= q.tail.offset)
    BY QueueSizes DEF GoodQueue, Queue, Marker, InOneLap, AtOrBefore
<1>1. GoodQueue(r.q) /\ r.q.tail = q.tail
    BY RemoveGood
<1>2. CASE ~IsEmpty(q) /\ Ahead(q, end)
    <2>1. WrapMarker(end) = end
        BY <1>0 DEF WrapMarker, Offset
    <2>2. r.q = [q EXCEPT !.front = end, !.data = d]
        BY <1>2, <2>1 DEF queue_remove_entries
    <2>3. r.q.front = end
        <3> HIDE DEF d, r
        <3> QED
            BY <1>0, <2>2 DEF Queue
    <2>4. /\ FreeBytes(r.q) = IF q.tail.gen = end.gen
                              THEN (QueueSize - q.tail.offset) + (end.offset - MaxHeadSize)
                              ELSE end.offset - q.tail.offset
          /\ FreeBytes(q) = IF q.tail.gen = q.front.gen
                            THEN (QueueSize - q.tail.offset) + (q.front.offset - MaxHeadSize)
                            ELSE q.front.offset - q.tail.offset
        <3> HIDE DEF d, r
        <3> QED
            BY <1>1, <2>3, FreeByLap
    <2> HIDE DEF d, r
    <2> QED
        BY <1>0, <1>2, <2>4 DEF Ahead, Offset, r
<1>3. CASE ~(~IsEmpty(q) /\ Ahead(q, end))
    <2>1. r.q = q
        BY <1>3 DEF queue_remove_entries
    <2>2. FreeBytes(q) \in Int
        BY <1>0, FreeByLap
    <2> HIDE DEF r
    <2> QED
        BY <2>1, <2>2 DEF r
<1> QED
    BY <1>2, <1>3

-----------------------------------------------------------------------------
(* The two-phase commit queue. *)

\* The object has the fields of a two-phase commit queue.
Shape(o) ==
    o = [q |-> o.q, reserved_size |-> o.reserved_size, last_id |-> o.last_id,
         reservations |-> o.reservations, has_xattrs |-> o.has_xattrs, xattrs |-> o.xattrs]

RingInv ==
    /\ Shape(obj)
    /\ GoodQueue(obj.q)
    /\ marker \in Marker
    /\ marker = NoMarker \/ AtOrBefore(marker, obj.q.tail)
    /\ issued \in Nat

\* Methods that only change reservations leave the ring alone.
LEMMA ReserveKeepsRing ==
    ASSUME Shape(obj), NEW size, NEW entries
    PROVE  LET o == cls_2pc_queue_reserve(obj, size, entries, now).obj
           IN  Shape(o) /\ o.q = obj.q
BY DEF Shape, cls_2pc_queue_reserve

\* Releasing a reservation leaves the ring alone (cls_2pc_queue_abort).
LEMMA ReleaseKeepsRing ==
    ASSUME Shape(obj), NEW id
    PROVE  Shape(Release(obj, id)) /\ Release(obj, id).q = obj.q
BY DEF Shape, Release

\* So does the expiry of stale ones (cls_2pc_queue_expire_reservations).
LEMMA ExpireKeepsRing ==
    ASSUME Shape(obj), NEW time
    PROVE  LET o == cls_2pc_queue_expire_reservations(obj, time).obj
           IN  Shape(o) /\ o.q = obj.q
BY DEF Shape, cls_2pc_queue_expire_reservations

\* A commit leaves the ring alone or enqueues its entry.
LEMMA CommitEnqueues ==
    ASSUME Shape(obj), NEW id, NEW es
    PROVE  LET o == cls_2pc_queue_commit(obj, id, es).obj
           IN  Shape(o) /\ (o.q = obj.q \/ o.q = queue_enqueue(obj.q, es).q)
<1> DEFINE rel == Release(obj, id)
           new == queue_enqueue(obj.q, es).q
           o == cls_2pc_queue_commit(obj, id, es).obj
<1>1. o = obj \/ o = [rel EXCEPT !.q = new]
    BY DEF cls_2pc_queue_commit
<1>2. Shape(rel)
    BY ReleaseKeepsRing
<1> HIDE DEF rel, new, o
<1>3. Shape([rel EXCEPT !.q = new]) /\ [rel EXCEPT !.q = new].q = new
    BY <1>2 DEF Shape
<1> QED
    BY <1>1, <1>3 DEF o, new

\* A removal applies queue_remove_entries to the ring.
LEMMA RemoveRemoves ==
    ASSUME Shape(obj), NEW end
    PROVE  LET o == cls_2pc_queue_remove_entries(obj, end).obj
           IN  Shape(o) /\ o.q = queue_remove_entries(obj.q, end).q
BY DEF Shape, cls_2pc_queue_remove_entries

-----------------------------------------------------------------------------
\* A step on a consistent ring leaves it consistent, the tail where it was or further
\* on, and the entries that stay untouched.
GoodStep ==
    /\ Shape(obj') /\ GoodQueue(obj'.q)
    /\ obj'.q.tail = obj.q.tail \/ AtOrBefore(obj.q.tail, obj'.q.tail)
    /\ EntriesUntouched

\* A step that leaves the ring alone is good.
LEMMA SameRing ==
    ASSUME RingInv, Shape(obj'), obj'.q = obj.q
    PROVE  GoodStep
BY DEF GoodStep, RingInv, EntriesUntouched

\* A commit of one entry is good (cls_2pc_queue_commit).
LEMMA CommitGood ==
    ASSUME RingInv, NEW id, NEW ss \in [1 .. 1 -> EntrySizes], Commit(id, ss)
    PROVE  GoodStep
<1> DEFINE e == [id |-> issued + 1, size |-> ss[1]]
           r == queue_enqueue(obj.q, <<e>>)
<1>1. NewEntries(ss) = <<e>>
    <2>1. Len(ss) = 1
        OBVIOUS
    <2> QED
        BY <2>1 DEF NewEntries
<1>2. e \in Entry
    <2>0. ss[1] \in EntrySizes
        OBVIOUS
    <2>1. ss[1] \in Nat
        <3> HIDE DEF e, r
        <3> QED
            BY <2>0, TwoPCClassConstants, Zenon
    <2>2. issued + 1 \in Nat \ {0}
        BY DEF RingInv
    <2> QED
        BY <2>1, <2>2 DEF Entry
<1>3. Shape(obj') /\ (obj'.q = obj.q \/ obj'.q = r.q)
    BY <1>1, CommitEnqueues DEF Commit, RingInv
<1>4. /\ GoodQueue(r.q) /\ AtOrBefore(obj.q.tail, r.q.tail)
      /\ \A o \in Live(obj.q) : r.q.data[o] = obj.q.data[o]
    BY <1>2, EnqueueGood DEF RingInv
<1>5. CASE obj'.q = r.q
    <2> HIDE DEF r
    <2> QED
        BY <1>3, <1>4, <1>5 DEF GoodStep, EntriesUntouched
<1> QED
    BY <1>3, <1>5, SameRing

\* A removal up to a marker at or before the tail is good, however old the marker is
\* (cls_2pc_queue_remove_entries).
LEMMA RemoveGoodStep ==
    ASSUME RingInv, NEW end \in LiveMarkers(obj.q) \cup {marker}, Remove(end)
    PROVE  GoodStep
<1> DEFINE r == queue_remove_entries(obj.q, end)
<1>1. end \in Marker /\ AtOrBefore(end, obj.q.tail)
    BY LiveMarkersBeforeTail DEF RingInv, Remove
<1>2. Shape(obj') /\ obj'.q = r.q
    BY RemoveRemoves DEF Remove, RingInv
<1>3. /\ GoodQueue(r.q) /\ r.q.tail = obj.q.tail
      /\ \A o \in Live(obj.q) \cap Live(r.q) : r.q.data[o] = obj.q.data[o]
    BY <1>1, RemoveGood DEF RingInv
<1> HIDE DEF r
<1> QED
    BY <1>2, <1>3 DEF GoodStep, EntriesUntouched

\* Every method of the class, and the clock, makes a good step.
LEMMA EveryStepGood ==
    ASSUME VectorLengths = {1}, RingInv, [Next]_vars
    PROVE  GoodStep
<1>1. ASSUME NEW size \in ReserveSizes, NEW entries \in VectorLengths, Reserve(size, entries)
      PROVE  GoodStep
    BY <1>1, ReserveKeepsRing, SameRing DEF Reserve, RingInv
<1>2. ASSUME NEW id \in Ids, NEW ss \in SizeVectors, Commit(id, ss)
      PROVE  GoodStep
    <2>1. ss \in [1 .. 1 -> EntrySizes]
        BY DEF SizeVectors
    <2> QED
        BY <1>2, <2>1, CommitGood
<1>3. ASSUME NEW id \in Ids, Abort(id)
      PROVE  GoodStep
    <2>1. obj' = obj \/ obj' = Release(obj, id)
        BY <1>3 DEF Abort, cls_2pc_queue_abort
    <2> QED
        BY <2>1, ReleaseKeepsRing, SameRing DEF RingInv
<1>4. CASE Expire
    BY <1>4, ExpireKeepsRing, SameRing DEF Expire, RingInv
<1>5. ASSUME NEW m \in LiveMarkers(obj.q), List(m)
      PROVE  GoodStep
    BY <1>5, SameRing DEF List, RingInv
<1>6. ASSUME NEW end \in LiveMarkers(obj.q) \cup {marker}, Remove(end)
      PROVE  GoodStep
    BY <1>6, RemoveGoodStep
<1>7. CASE Tick \/ UNCHANGED vars
    BY <1>7, SameRing DEF Tick, vars, RingInv
<1> QED
    BY <1>1, <1>2, <1>3, <1>4, <1>5, <1>6, <1>7 DEF Next

\* The initialised object satisfies the invariant (cls_2pc_queue_init).
LEMMA InitRing == Init => RingInv
BY InitGood DEF Init, RingInv, Shape, cls_2pc_queue_init, NoMarker, Marker

\* Good steps keep the invariant: the tail only moves forward, so a marker that was at
\* or before it stays so.
LEMMA NextRing ==
    ASSUME VectorLengths = {1}, RingInv, [Next]_vars
    PROVE  RingInv'
<1>1. GoodStep
    BY EveryStepGood
<1>2. issued' \in Nat
    <2>1. ASSUME NEW id \in Ids, NEW ss \in SizeVectors, Commit(id, ss)
          PROVE  issued' \in Nat
        <3>1. Len(ss) \in Nat
            BY DEF SizeVectors
        <3> QED
            BY <2>1, <3>1 DEF Commit, RingInv
    <2> QED
        BY <2>1 DEF Next, vars, Reserve, Abort, Expire, List, Remove, Tick, RingInv
<1>3. /\ marker' \in Marker
      /\ marker' = NoMarker \/ AtOrBefore(marker', obj.q.tail)
    <2>1. ASSUME NEW m \in LiveMarkers(obj.q), List(m)
          PROVE  marker' \in Marker /\ AtOrBefore(marker', obj.q.tail)
        BY <2>1, LiveMarkersBeforeTail DEF List, RingInv
    <2> QED
        BY <2>1 DEF Next, vars, Reserve, Commit, Abort, Expire, Remove, Tick, RingInv
<1>4. marker' = NoMarker \/ AtOrBefore(marker', obj'.q.tail)
    <2>1. /\ marker'.gen \in Nat /\ marker'.offset \in Nat
          /\ obj.q.tail \in Marker /\ obj'.q.tail \in Marker
        BY <1>1, <1>3 DEF RingInv, GoodStep, GoodQueue, Queue, Marker
    <2> QED
        BY <1>1, <1>3, <2>1 DEF GoodStep, AtOrBefore, Marker
<1> QED
    BY <1>1, <1>2, <1>3, <1>4 DEF GoodStep, RingInv

\* The ring's head stays consistent under every sequence of reservations, commits,
\* aborts, expiries and removals, removals with outdated markers included
\* (cls_2pc_queue.cc; cls_queue_src.cc: queue_enqueue, queue_remove_entries).
THEOREM TwoPCRingInOneLap ==
    ASSUME VectorLengths = {1}
    PROVE  Spec => []RingInOneLap
<1>1. RingInv /\ [Next]_vars => RingInv'
    BY NextRing
<1>2. RingInv => RingInOneLap
    BY DEF RingInv, GoodQueue, RingInOneLap
<1> QED
    BY <1>1, <1>2, InitRing, PTL DEF Spec

\* No method changes a byte of an entry that stays in the queue: commits write into
\* free bytes only, and removals zero only what they remove.
THEOREM TwoPCEntriesStay ==
    ASSUME VectorLengths = {1}
    PROVE  Spec => EntriesStay
<1>1. RingInv /\ [Next]_vars => RingInv'
    BY NextRing
<1>2. RingInv /\ [Next]_vars => [EntriesUntouched]_vars
    BY EveryStepGood DEF GoodStep
<1> QED
    BY <1>1, <1>2, InitRing, PTL DEF Spec, EntriesStay

-----------------------------------------------------------------------------
(* Sums over finite sets. *)

\* A nonempty set of naturals has a least element: induction, as a statement about sets.
LEMMA LeastNatural ==
    ASSUME NEW S, S \subseteq Nat, S # {}
    PROVE  \E x \in S : \A y \in S : x <= y
<1>1. PICK R : R = OpToRel(<, Nat)
  OBVIOUS
<1>2. IsWellFoundedOn(R, Nat)
  BY <1>1, NatLessThanWellFounded
<1>3. PICK x \in S : \A y \in S : ~(<<y, x>> \in R)
  BY <1>2, WFMin
<1>4. \A y \in S : ~(y < x)
  BY <1>1, <1>3 DEF OpToRel
<1>5. x \in Nat /\ \A y \in S : y \in Nat
  OBVIOUS
<1>6. \A y \in S : x <= y
  BY <1>4, <1>5
<1> QED
  BY <1>6

\* The element a fold takes out of a set.
Some(s) == CHOOSE x \in s : TRUE

\* g is the function by which MapThenSumSet sums up f over the subsets of S.
IsSum(g, f, S) ==
    g = [s \in SUBSET S |-> IF s = {} THEN 0 ELSE f[Some(s)] + g[s \ {Some(s)}]]

\* The same up to the subsets of n elements.
SumsUpTo(g, f, S, n) ==
    \A s \in SUBSET S : Cardinality(s) <= n =>
        g[s] \in Nat /\ g[s] = IF s = {} THEN 0 ELSE f[Some(s)] + g[s \ {Some(s)}]

\* The subsets of a finite set, and what is left when an element is taken out.
LEMMA SubsetFacts ==
    ASSUME NEW S, IsFiniteSet(S), NEW s \in SUBSET S
    PROVE  /\ Cardinality(s) \in Nat /\ Cardinality(s) <= Cardinality(S)
           /\ s # {} => /\ Some(s) \in s
           /\ \A x \in s : /\ s \ {x} \in SUBSET S /\ Cardinality(s \ {x}) = Cardinality(s) - 1
                           /\ Cardinality(s) > 0
<1>1. IsFiniteSet(s) /\ Cardinality(s) \in Nat /\ Cardinality(s) <= Cardinality(S)
  BY FS_Subset, FS_CardinalityType
<1>2. \A x \in s : Cardinality(s \ {x}) = Cardinality(s) - 1 /\ Cardinality(s \ {x}) \in Nat
  <2> SUFFICES ASSUME NEW x \in s
               PROVE  Cardinality(s \ {x}) = Cardinality(s) - 1 /\ Cardinality(s \ {x}) \in Nat
    OBVIOUS
  <2>1. IsFiniteSet(s \ {x}) /\ Cardinality(s \ {x}) = Cardinality(s) - 1
    BY <1>1, FS_RemoveElement
  <2> QED
    BY <2>1, FS_CardinalityType
<1>3. s # {} => Some(s) \in s
  BY DEF Some
<1> QED
  BY <1>1, <1>2, <1>3

\* The recursion by which a fold sums up has a solution: there is no least size of subsets
\* up to which it fails.
LEMMA SumExists ==
    ASSUME NEW S, IsFiniteSet(S), NEW f, \A x \in S : f[x] \in Nat
    PROVE  \E g : IsSum(g, f, S)
<1> DEFINE Bad == {n \in Nat : ~\E g : SumsUpTo(g, f, S, n)}
<1>1. Cardinality({}) = 0
  BY FS_EmptySet
<1>2. Bad = {}
  <2> SUFFICES ASSUME Bad # {}
               PROVE  FALSE
    OBVIOUS
  <2>1. PICK n \in Bad : \A k \in Bad : n <= k
    BY LeastNatural
  <2>2. CASE n = 0
    <3>1. PICK zero \in Nat : zero = 0
      OBVIOUS
    <3>2. PICK g : g = [s \in SUBSET S |-> zero]
      OBVIOUS
    <3>3. \A s \in SUBSET S : g[s] = 0
      BY <3>1, <3>2
    <3>4. ASSUME NEW s \in SUBSET S, Cardinality(s) <= 0
          PROVE  s = {}
      <4>1. Cardinality(s) \in Nat
        BY SubsetFacts
      <4>2. \A x \in s : Cardinality(s) > 0
        BY SubsetFacts
      <4> QED
        BY <3>4, <4>1, <4>2
    <3>5. SumsUpTo(g, f, S, 0)
      BY <3>3, <3>4 DEF SumsUpTo
    <3> QED
      BY <2>2, <3>5
  <2>3. CASE n # 0
    <3>1. PICK m \in Nat : m = n - 1 /\ m \notin Bad
      BY <2>1, <2>3
    <3>2. PICK g : SumsUpTo(g, f, S, m)
      BY <3>1
    <3>3. PICK h : h = [s \in SUBSET S |-> IF Cardinality(s) <= m THEN g[s]
                                           ELSE f[Some(s)] + g[s \ {Some(s)}]]
      OBVIOUS
    <3>4. \A s \in SUBSET S : Cardinality(s) <= m => h[s] = g[s]
      BY <3>3
    <3>5. ASSUME NEW s \in SUBSET S, Cardinality(s) <= n
          PROVE  h[s] \in Nat /\ h[s] = IF s = {} THEN 0 ELSE f[Some(s)] + h[s \ {Some(s)}]
      <4>1. CASE s = {}
        <5>1. Cardinality(s) <= m
          BY <1>1, <3>1, <4>1
        <5> QED
          BY <3>2, <3>4, <4>1, <5>1 DEF SumsUpTo
      <4>2. CASE s # {}
        <5>1. PICK x \in s : x = Some(s)
          BY <4>2, SubsetFacts
        <5>2. PICK t \in SUBSET S : t = s \ {x}
          OBVIOUS
        <5>3. Cardinality(t) = Cardinality(s) - 1 /\ Cardinality(s) \in Nat
          BY <5>2, SubsetFacts
        <5>4. Cardinality(t) <= m
          BY <3>1, <3>5, <5>3
        <5>5. h[t] = g[t] /\ g[t] \in Nat /\ f[x] \in Nat
          BY <3>2, <3>4, <5>4 DEF SumsUpTo
        <5>6. CASE Cardinality(s) <= m
          BY <3>2, <3>4, <4>2, <5>1, <5>2, <5>5, <5>6 DEF SumsUpTo
        <5>7. CASE ~(Cardinality(s) <= m)
          BY <3>3, <4>2, <5>1, <5>2, <5>5, <5>7
        <5> QED
          BY <5>6, <5>7
      <4> QED
        BY <4>1, <4>2
    <3>6. SumsUpTo(h, f, S, n)
      BY <3>5 DEF SumsUpTo
    <3> QED
      BY <2>1, <3>6
  <2> QED
    BY <2>2, <2>3
<1>3. PICK n \in Nat : n = Cardinality(S)
  BY FS_CardinalityType
<1>4. PICK g : SumsUpTo(g, f, S, n)
  BY <1>2
<1>5. PICK h : h = [s \in SUBSET S |-> g[s]]
  OBVIOUS
<1>6. \A s \in SUBSET S : h[s] = g[s] /\ g[s] = IF s = {} THEN 0 ELSE f[Some(s)] + g[s \ {Some(s)}]
  BY <1>3, <1>4, <1>5, SubsetFacts DEF SumsUpTo
<1>7. \A s \in SUBSET S : h[s] = IF s = {} THEN 0 ELSE f[Some(s)] + h[s \ {Some(s)}]
  <2> SUFFICES ASSUME NEW s \in SUBSET S
               PROVE  h[s] = IF s = {} THEN 0 ELSE f[Some(s)] + h[s \ {Some(s)}]
    OBVIOUS
  <2>1. s \ {Some(s)} \in SUBSET S
    OBVIOUS
  <2> QED
    BY <1>6, <2>1
<1>8. h = [s \in SUBSET S |-> IF s = {} THEN 0 ELSE f[Some(s)] + h[s \ {Some(s)}]]
  BY <1>5, <1>7
<1> QED
  BY <1>8 DEF IsSum

\* The sums of f over the subsets of S: any element may be split off.
Adds(g, f, S) ==
    /\ g[{}] = 0
    /\ \A s \in SUBSET S : g[s] \in Nat /\ \A x \in s : g[s] = f[x] + g[s \ {x}]

\* The element that is split off does not matter.
LEMMA SumAdds ==
    ASSUME NEW S, IsFiniteSet(S), NEW f, \A x \in S : f[x] \in Nat, NEW g, IsSum(g, f, S)
    PROVE  Adds(g, f, S)
<1>1. \A s \in SUBSET S : g[s] = IF s = {} THEN 0 ELSE f[Some(s)] + g[s \ {Some(s)}]
  BY DEF IsSum
<1>2. {} \in SUBSET S /\ g[{}] = 0
  BY <1>1
<1> DEFINE Good(s) == g[s] \in Nat /\ \A x \in s : g[s] = f[x] + g[s \ {x}]
           Bad == {n \in Nat : \E s \in SUBSET S : Cardinality(s) = n /\ ~Good(s)}
<1>3. Bad = {}
  <2> SUFFICES ASSUME Bad # {}
               PROVE  FALSE
    OBVIOUS
  <2>1. PICK n \in Bad : \A k \in Bad : n <= k
    BY LeastNatural
  <2>2. PICK s \in SUBSET S : Cardinality(s) = n /\ ~Good(s)
    BY <2>1
  <2>3. ASSUME NEW t \in SUBSET S, Cardinality(t) < n
        PROVE  Good(t)
    <3>1. Cardinality(t) \in Nat /\ n \in Nat
      BY SubsetFacts
    <3> HIDE DEF Good
    <3> QED
      BY <2>1, <2>3, <3>1
  <2>4. CASE s = {}
    BY <1>2, <2>2, <2>4
  <2>5. CASE s # {}
    <3>1. PICK p \in s : p = Some(s)
      BY <2>5, SubsetFacts
    <3>2. \A x \in s : s \ {x} \in SUBSET S /\ Cardinality(s \ {x}) < n
      BY <2>2, SubsetFacts
    <3>3. Good(s \ {p}) /\ g[s] = f[p] + g[s \ {p}] /\ f[p] \in Nat
      BY <1>1, <2>3, <2>5, <3>1, <3>2
    <3>4. g[s] \in Nat
      BY <3>3
    <3>5. ASSUME NEW x \in s
          PROVE  g[s] = f[x] + g[s \ {x}]
      <4>1. CASE x = p
        BY <3>3, <4>1
      <4>2. CASE x # p
        <5>a. PICK A \in SUBSET S : A = s \ {p}
          OBVIOUS
        <5>b. PICK B \in SUBSET S : B = s \ {x}
          OBVIOUS
        <5>c. PICK C \in SUBSET S : C = A \ {x}
          OBVIOUS
        <5>1. C = B \ {p} /\ x \in A /\ p \in B
          BY <4>2, <5>a, <5>b, <5>c
        <5>2. Good(A) /\ Good(B)
          <6>1. Cardinality(A) < n /\ Cardinality(B) < n
            BY <3>2, <5>a, <5>b
          <6> HIDE DEF Good
          <6> QED
            BY <2>3, <6>1
        <5>3. Cardinality(C) < n
          <6>1. Cardinality(C) = Cardinality(A) - 1 /\ Cardinality(A) \in Nat
            BY <5>1, <5>c, SubsetFacts
          <6>2. Cardinality(A) < n /\ n \in Nat
            BY <3>2, <5>a
          <6> QED
            BY <6>1, <6>2
        <5>4. g[C] \in Nat
          BY <2>3, <5>3
        <5>5. g[A] = f[x] + g[C] /\ g[B] = f[p] + g[C] /\ g[s] = f[p] + g[A]
          BY <3>3, <5>1, <5>2, <5>a, <5>c
        <5>6. f[x] \in Nat /\ f[p] \in Nat
          OBVIOUS
        <5> QED
          BY <5>b, <5>4, <5>5, <5>6
      <4> QED
        BY <4>1, <4>2
    <3>6. Good(s)
      BY <3>4, <3>5
    <3> QED
      BY <2>2, <3>6
  <2> QED
    BY <2>4, <2>5
<1>4. \A s \in SUBSET S : Cardinality(s) \in Nat
  BY SubsetFacts
<1> QED
  BY <1>2, <1>3, <1>4 DEF Adds

\* Pointwise smaller functions have smaller sums.
LEMMA SumsCompare ==
    ASSUME NEW S, IsFiniteSet(S), NEW f, NEW k, \A x \in S : f[x] \in Nat /\ k[x] \in Nat,
           NEW g, NEW h, Adds(g, f, S), Adds(h, k, S),
           NEW t \in SUBSET S, \A x \in t : f[x] <= k[x]
    PROVE  g[t] <= h[t]
<1> DEFINE Fine(s) == g[s] <= h[s]
           Bad == {n \in Nat : \E s \in SUBSET t : Cardinality(s) = n /\ ~Fine(s)}
<1>1. Bad = {}
    <2> SUFFICES ASSUME Bad # {}
                 PROVE  FALSE
        OBVIOUS
    <2>1. PICK n \in Bad : \A m \in Bad : n <= m
        BY LeastNatural
    <2>2. PICK s \in SUBSET t : Cardinality(s) = n /\ ~Fine(s)
        BY <2>1
    <2>3. s \in SUBSET S
        OBVIOUS
    <2>4. s # {}
        <3>1. ASSUME s = {}
              PROVE  FALSE
            <4>1. g[s] = 0 /\ h[s] = 0
                BY <3>1 DEF Adds
            <4> QED
                BY <2>2, <4>1
        <3> QED
            BY <3>1
    <2>5. PICK x \in s : TRUE
        BY <2>4
    <2>6. PICK r \in SUBSET t : r = s \ {x}
        OBVIOUS
    <2>7. Cardinality(r) \in Nat /\ Cardinality(r) = n - 1 /\ n \in Nat
        BY <2>2, <2>3, <2>6, SubsetFacts
    <2>8. Fine(r)
        <3> HIDE DEF Fine
        <3> QED
            BY <2>1, <2>7
    <2>9. /\ g[s] = f[x] + g[r] /\ g[r] \in Nat
          /\ h[s] = k[x] + h[r] /\ h[r] \in Nat
        <3>1. r \in SUBSET S
            OBVIOUS
        <3> QED
            BY <2>3, <2>6, <3>1 DEF Adds
    <2>10. f[x] \in Nat /\ k[x] \in Nat /\ f[x] <= k[x]
        OBVIOUS
    <2> QED
        BY <2>2, <2>8, <2>9, <2>10
<1>2. Cardinality(t) \in Nat
    BY SubsetFacts
<1> QED
    BY <1>1, <1>2

\* The sum over two disjoint sets.
LEMMA SumsUnion ==
    ASSUME NEW S, IsFiniteSet(S), NEW f, \A x \in S : f[x] \in Nat, NEW g, Adds(g, f, S),
           NEW a \in SUBSET S, NEW b \in SUBSET S, a \cap b = {}
    PROVE  g[a \cup b] = g[a] + g[b]
<1> DEFINE Fine(s) == g[a \cup s] = g[a] + g[s]
           Bad == {n \in Nat : \E s \in SUBSET b : Cardinality(s) = n /\ ~Fine(s)}
<1>1. Bad = {}
    <2> SUFFICES ASSUME Bad # {}
                 PROVE  FALSE
        OBVIOUS
    <2>1. PICK n \in Bad : \A m \in Bad : n <= m
        BY LeastNatural
    <2>2. PICK s \in SUBSET b : Cardinality(s) = n /\ ~Fine(s)
        BY <2>1
    <2>3. s \in SUBSET S
        OBVIOUS
    <2>4. s # {}
        <3>1. ASSUME s = {}
              PROVE  FALSE
            <4>1. g[s] = 0 /\ g[a] \in Nat
                BY <3>1 DEF Adds
            <4>2. a \cup s = a
                BY <3>1
            <4>3. g[a] = g[a] + g[s]
                BY <4>1
            <4>4. Fine(s)
                BY <4>2, <4>3, Zenon
            <4> QED
                BY <2>2, <4>4
        <3> QED
            BY <3>1
    <2>5. PICK x \in s : TRUE
        BY <2>4
    <2>6. PICK r \in SUBSET b : r = s \ {x}
        OBVIOUS
    <2>7. Cardinality(r) \in Nat /\ Cardinality(r) = n - 1 /\ n \in Nat
        BY <2>2, <2>3, <2>6, SubsetFacts
    <2>8. Fine(r)
        <3> HIDE DEF Fine
        <3> QED
            BY <2>1, <2>7
    <2>9. PICK as \in SUBSET S : as = a \cup s
        OBVIOUS
    <2>10. PICK ar \in SUBSET S : ar = a \cup r
        OBVIOUS
    <2>11. x \in as /\ as \ {x} = ar
        BY <2>6, <2>9, <2>10
    <2>12. /\ g[s] = f[x] + g[r] /\ g[r] \in Nat /\ g[a] \in Nat
           /\ g[as] = f[x] + g[ar] /\ g[ar] \in Nat
        <3>1. r \in SUBSET S
            OBVIOUS
        <3> QED
            BY <2>3, <2>6, <2>11, <3>1 DEF Adds
    <2>13. f[x] \in Nat
        OBVIOUS
    <2> QED
        BY <2>2, <2>8, <2>9, <2>10, <2>12, <2>13
<1>2. Cardinality(b) \in Nat
    BY SubsetFacts
<1> QED
    BY <1>1, <1>2

-----------------------------------------------------------------------------
(* Sums of what the ids are worth. *)

\* The sum of f over the ids in t.
SumOf(f, t) == (CHOOSE g : Adds(g, f, Ids))[t]

\* There are finitely many ids (id_t is uint32_t).
LEMMA IdsFinite == IsFiniteSet(Ids)
BY FS_Interval, TwoPCConstants DEF Ids

\* Every function to the naturals has its sums.
LEMMA SumOfAdds ==
    ASSUME NEW f \in [Ids -> Nat]
    PROVE  Adds(CHOOSE g : Adds(g, f, Ids), f, Ids)
<1>1. \E g : Adds(g, f, Ids)
    BY IdsFinite, SumExists, SumAdds
<1> QED
    BY <1>1

\* What the proofs below need of the sums.
LEMMA SumType ==
    ASSUME NEW f \in [Ids -> Nat], NEW t \in SUBSET Ids
    PROVE  /\ SumOf(f, t) \in Nat
           /\ \A x \in t : SumOf(f, t) = f[x] + SumOf(f, t \ {x})
BY SumOfAdds DEF SumOf, Adds

\* SumsCompare, for sums over ids.
LEMMA SumCompare ==
    ASSUME NEW f \in [Ids -> Nat], NEW k \in [Ids -> Nat], NEW t \in SUBSET Ids,
           \A x \in t : f[x] <= k[x]
    PROVE  SumOf(f, t) <= SumOf(k, t)
BY SumOfAdds, SumsCompare, IdsFinite DEF SumOf

\* SumsUnion, for sums over ids.
LEMMA SumUnion ==
    ASSUME NEW f \in [Ids -> Nat], NEW a \in SUBSET Ids, NEW b \in SUBSET Ids, a \cap b = {}
    PROVE  SumOf(f, a \cup b) = SumOf(f, a) + SumOf(f, b)
BY SumOfAdds, SumsUnion, IdsFinite DEF SumOf

\* Functions that agree on a set have the same sum over it.
LEMMA SumSame ==
    ASSUME NEW f \in [Ids -> Nat], NEW k \in [Ids -> Nat], NEW t \in SUBSET Ids,
           \A x \in t : f[x] = k[x]
    PROVE  SumOf(f, t) = SumOf(k, t)
<1>1. \A x \in t : f[x] <= k[x] /\ k[x] <= f[x]
    <2>1. \A x \in t : f[x] \in Nat /\ k[x] \in Nat
        OBVIOUS
    <2> QED
        BY <2>1
<1>2. SumOf(f, t) <= SumOf(k, t) /\ SumOf(k, t) <= SumOf(f, t)
    BY <1>1, SumCompare
<1>3. SumOf(f, t) \in Nat /\ SumOf(k, t) \in Nat
    BY SumType
<1> QED
    BY <1>2, <1>3

\* Nothing adds up to nothing.
LEMMA SumZero ==
    ASSUME NEW f \in [Ids -> Nat], NEW t \in SUBSET Ids, \A x \in t : f[x] = 0
    PROVE  SumOf(f, t) = 0
<1>1. PICK zero \in Nat : zero = 0
    OBVIOUS
<1>2. PICK k \in [Ids -> Nat] : k = [x \in Ids |-> zero]
    OBVIOUS
<1>3. PICK h : h = [s \in SUBSET Ids |-> zero]
    OBVIOUS
<1>4. Adds(h, k, Ids)
    <2>1. \A s \in SUBSET Ids : h[s] = 0
        BY <1>1, <1>3
    <2>2. \A x \in Ids : k[x] = 0
        BY <1>1, <1>2
    <2>3. ASSUME NEW s \in SUBSET Ids, NEW x \in s
          PROVE  h[s] = k[x] + h[s \ {x}]
        <3>1. s \ {x} \in SUBSET Ids /\ x \in Ids
            OBVIOUS
        <3>2. h[s] = 0 /\ k[x] = 0 /\ h[s \ {x}] = 0
            BY <2>1, <2>2, <3>1
        <3> QED
            BY <3>2
    <2>4. h[{}] = 0
        BY <2>1
    <2>5. \A s \in SUBSET Ids : h[s] \in Nat
        BY <2>1
    <2> QED
        BY <2>3, <2>4, <2>5, Zenon DEF Adds
<1>5. \A x \in t : f[x] <= k[x]
    BY <1>1, <1>2
<1>6. SumOf(f, t) <= h[t]
    BY <1>4, <1>5, SumOfAdds, SumsCompare, IdsFinite DEF SumOf
<1>7. h[t] = 0
    BY <1>1, <1>3
<1>8. SumOf(f, t) \in Nat
    BY SumType
<1> QED
    BY <1>6, <1>7, <1>8

\* What the folds of the library compute is that sum.
LEMMA FoldIsSum ==
    ASSUME NEW f \in [Ids -> Nat], NEW t \in SUBSET Ids, NEW c, IsSum(c, f, t)
    PROVE  c[t] = SumOf(f, t)
<1>1. IsFiniteSet(t)
    BY IdsFinite, FS_Subset
<1>2. \A x \in t : f[x] \in Nat
    OBVIOUS
<1>3. Adds(c, f, t)
    BY <1>1, <1>2, SumAdds
<1>4. PICK h : h = CHOOSE g : Adds(g, f, Ids)
    OBVIOUS
<1>5. Adds(h, f, Ids)
    BY <1>4, SumOfAdds
<1>6. Adds(h, f, t)
    BY <1>5, Zenon DEF Adds
<1>7. t \in SUBSET t /\ \A x \in t : f[x] <= f[x]
    BY <1>2
<1>8. c[t] <= h[t] /\ h[t] <= c[t]
    BY <1>1, <1>2, <1>3, <1>6, <1>7, SumsCompare
<1>9. c[t] \in Nat /\ h[t] \in Nat
    BY <1>3, <1>6 DEF Adds
<1> QED
    BY <1>4, <1>8, <1>9 DEF SumOf

\* The sizes of the reservations in a map; what a grant, and what all of them, promise.
Sizes(map) == [i \in Ids |-> map[i].size]
Worth(g) == g.size + g.entries * EntryOverhead
Worths(gs) == [i \in Ids |-> Worth(gs[i])]

\* The sum an expiry gives back.
LEMMA SizeSumIs ==
    ASSUME NEW map \in Reservations, NEW t \in SUBSET Ids
    PROVE  SizeSum(map, t) = SumOf(Sizes(map), t)
<1> DEFINE P(g) == g = [s \in SUBSET t |-> IF s = {} THEN 0
                            ELSE map[CHOOSE x \in s : TRUE].size
                                     + g[s \ {CHOOSE x \in s : TRUE}]]
<1>1. SizeSum(map, t) = (CHOOSE g : P(g))[t]
    BY Zenon DEF SizeSum, MapThenSumSet, MapThenFoldSet
<1>2. PICK f \in [Ids -> Nat] : f = Sizes(map)
    BY DEF Sizes, Reservations, Reservation
<1>3. ASSUME NEW s \in SUBSET t, s # {}
      PROVE  f[Some(s)] = map[CHOOSE x \in s : TRUE].size
    <2>1. Some(s) \in Ids /\ Some(s) = CHOOSE x \in s : TRUE
        BY <1>3 DEF Some
    <2> QED
        BY <1>2, <2>1 DEF Sizes
<1>4. \A g : P(g) <=> IsSum(g, f, t)
    <2> SUFFICES ASSUME NEW g
                 PROVE  P(g) <=> IsSum(g, f, t)
        OBVIOUS
    <2>1. \A s \in SUBSET t : (IF s = {} THEN 0 ELSE map[CHOOSE x \in s : TRUE].size
                                     + g[s \ {CHOOSE x \in s : TRUE}])
                 = (IF s = {} THEN 0 ELSE f[Some(s)] + g[s \ {Some(s)}])
        BY <1>3 DEF Some
    <2> QED
        BY <2>1, Zenon DEF IsSum
<1>5. \E g : P(g)
    <2>1. IsFiniteSet(t) /\ \A x \in t : f[x] \in Nat
        BY IdsFinite, FS_Subset
    <2>2. \E g : IsSum(g, f, t)
        BY <2>1, SumExists
    <2> HIDE DEF P
    <2> QED
        BY <1>4, <2>2
<1> HIDE DEF P
<1>6. IsSum(CHOOSE g : P(g), f, t)
    BY <1>4, <1>5
<1> QED
    BY <1>1, <1>2, <1>6, FoldIsSum

\* The grants, by id.
Grants == [Ids -> [size : Nat, entries : Nat, timestamp : Nat]]

\* What a grant is worth: its bytes and the overhead of at least one entry.
LEMMA WorthType ==
    ASSUME NEW g \in [size : Nat, entries : Nat, timestamp : Nat]
    PROVE  Worth(g) \in Nat /\ (g.entries > 0 => Worth(g) >= g.size + EntryOverhead)
<1>1. EntryOverhead \in Nat /\ g.entries \in Nat /\ g.size \in Nat
    BY QueueSizes
<1>2. g.entries * EntryOverhead \in Nat
    BY <1>1
<1>3. g.entries > 0 => g.entries * EntryOverhead >= EntryOverhead
    BY <1>1
<1> QED
    BY <1>1, <1>2, <1>3 DEF Worth

\* The sum of what is promised.
LEMMA PromisedIs ==
    ASSUME grants \in Grants, \A i \in Ids : grants[i].size = 0 => grants[i] = NoGrant
    PROVE  Promised = SumOf(Worths(grants), Ids)
<1> DEFINE P(g) == g = [s \in SUBSET Granted |-> IF s = {} THEN 0
                            ELSE grants[CHOOSE x \in s : TRUE].size
                                     + grants[CHOOSE x \in s : TRUE].entries * EntryOverhead
                                     + g[s \ {CHOOSE x \in s : TRUE}]]
<1>1. Promised = (CHOOSE g : P(g))[Granted]
    BY Zenon DEF Promised, MapThenSumSet, MapThenFoldSet
<1>2. PICK f \in [Ids -> Nat] : f = Worths(grants)
    BY WorthType DEF Worths, Grants
<1>3. PICK t \in SUBSET Ids : t = Granted
    BY DEF Granted
<1>4. ASSUME NEW s \in SUBSET t, s # {}
      PROVE  f[Some(s)] = grants[CHOOSE x \in s : TRUE].size
                              + grants[CHOOSE x \in s : TRUE].entries * EntryOverhead
    <2>1. Some(s) \in Ids /\ Some(s) = CHOOSE x \in s : TRUE
        BY <1>4 DEF Some
    <2> QED
        BY <1>2, <2>1 DEF Worths, Worth
<1>5. \A g : P(g) <=> IsSum(g, f, t)
    <2> SUFFICES ASSUME NEW g
                 PROVE  P(g) <=> IsSum(g, f, t)
        OBVIOUS
    <2>1. \A s \in SUBSET t : (IF s = {} THEN 0
                               ELSE grants[CHOOSE x \in s : TRUE].size
                                     + grants[CHOOSE x \in s : TRUE].entries * EntryOverhead
                                     + g[s \ {CHOOSE x \in s : TRUE}])
                 = (IF s = {} THEN 0 ELSE f[Some(s)] + g[s \ {Some(s)}])
        <3> SUFFICES ASSUME NEW s \in SUBSET t, s # {}
                     PROVE  grants[CHOOSE x \in s : TRUE].size
                                + grants[CHOOSE x \in s : TRUE].entries * EntryOverhead
                                + g[s \ {CHOOSE x \in s : TRUE}]
                            = f[Some(s)] + g[s \ {Some(s)}]
            OBVIOUS
        <3> QED
            BY <1>4, Zenon DEF Some
    <2> QED
        BY <1>3, <2>1, Zenon DEF IsSum
<1>6. \E g : P(g)
    <2>1. IsFiniteSet(t) /\ \A x \in t : f[x] \in Nat
        BY IdsFinite, FS_Subset
    <2>2. \E g : IsSum(g, f, t)
        BY <2>1, SumExists
    <2> HIDE DEF P
    <2> QED
        BY <1>5, <2>2
<1> HIDE DEF P
<1>7. IsSum(CHOOSE g : P(g), f, t)
    BY <1>5, <1>6
<1>8. Promised = SumOf(f, t)
    BY <1>1, <1>3, <1>7, FoldIsSum
<1>9. \A i \in Ids \ t : f[i] = 0
    <2>1. \A i \in Ids \ t : grants[i] = NoGrant
        BY <1>3 DEF Granted, Grants
    <2>2. Worth(NoGrant) = 0
        BY QueueSizes DEF Worth, NoGrant
    <2> QED
        BY <1>2, <2>1, <2>2 DEF Worths
<1>10. SumOf(f, Ids \ t) = 0
    BY <1>9, SumZero
<1>11. SumOf(f, t \cup (Ids \ t)) = SumOf(f, t) + SumOf(f, Ids \ t)
    BY SumUnion
<1>12. t \cup (Ids \ t) = Ids
    OBVIOUS
<1>13. SumOf(f, t) \in Nat
    BY SumType
<1> QED
    BY <1>2, <1>8, <1>10, <1>11, <1>12, <1>13

\* One id changes its worth.
LEMMA SumUpdate ==
    ASSUME NEW f \in [Ids -> Nat], NEW k \in [Ids -> Nat], NEW i \in Ids,
           \A x \in Ids \ {i} : k[x] = f[x]
    PROVE  SumOf(k, Ids) + f[i] = SumOf(f, Ids) + k[i]
<1>1. Ids \in SUBSET Ids /\ Ids \ {i} \in SUBSET Ids
    OBVIOUS
<1>2. SumOf(k, Ids \ {i}) = SumOf(f, Ids \ {i})
    BY <1>1, SumSame
<1>3. /\ SumOf(k, Ids) = k[i] + SumOf(k, Ids \ {i})
      /\ SumOf(f, Ids) = f[i] + SumOf(f, Ids \ {i})
      /\ SumOf(f, Ids \ {i}) \in Nat /\ f[i] \in Nat /\ k[i] \in Nat
    BY <1>1, SumType
<1> QED
    BY <1>2, <1>3

\* A smaller set has a smaller sum.
LEMMA SumSubset ==
    ASSUME NEW f \in [Ids -> Nat], NEW b \in SUBSET Ids, NEW a \in SUBSET b
    PROVE  SumOf(f, a) <= SumOf(f, b)
<1>1. PICK c \in SUBSET Ids : c = b \ a
    OBVIOUS
<1>2. a \in SUBSET Ids /\ a \cap c = {} /\ a \cup c = b
    BY <1>1
<1>3. SumOf(f, b) = SumOf(f, a) + SumOf(f, c)
    BY <1>2, SumUnion
<1>4. SumOf(f, a) \in Nat /\ SumOf(f, c) \in Nat
    BY <1>2, SumType
<1> QED
    BY <1>3, <1>4

\* The ids in e lose their worth.
LEMMA SumDrop ==
    ASSUME NEW f \in [Ids -> Nat], NEW k \in [Ids -> Nat], NEW e \in SUBSET Ids,
           \A x \in e : k[x] = 0, \A x \in Ids \ e : k[x] = f[x]
    PROVE  SumOf(f, Ids) = SumOf(k, Ids) + SumOf(f, e)
<1>1. PICK c \in SUBSET Ids : c = Ids \ e
    OBVIOUS
<1>2. e \cap c = {} /\ e \cup c = Ids /\ \A x \in c : k[x] = f[x]
    BY <1>1
<1>3. SumOf(f, Ids) = SumOf(f, e) + SumOf(f, c) /\ SumOf(k, Ids) = SumOf(k, e) + SumOf(k, c)
    BY <1>2, SumUnion
<1>4. SumOf(k, e) = 0
    BY SumZero
<1>5. SumOf(k, c) = SumOf(f, c)
    BY <1>2, SumSame
<1>6. SumOf(f, e) \in Nat /\ SumOf(f, c) \in Nat
    BY SumType
<1> QED
    BY <1>3, <1>4, <1>5, <1>6

-----------------------------------------------------------------------------
(* What the methods do with the reservations of an object. *)

\* The parts of the object other than the ring have their types.
Typed(o) ==
    /\ Shape(o)
    /\ o.reserved_size \in Int
    /\ o.last_id \in Ids
    /\ o.reservations \in Reservations
    /\ o.has_xattrs \in BOOLEAN
    /\ o.xattrs \in Reservations

\* A granted reservation fits in what the offsets leave, is entered under the next id in one
\* of the two places, and its bytes are added.
ReserveGrants(o, p, size, entries, time) ==
    /\ size > 0 /\ entries > 0
    /\ ~(size + o.reserved_size + entries * EntryOverhead > RemainingSize(o.q))
    /\ p.last_id = NextId(o)
    /\ p.reserved_size = o.reserved_size + size + entries * EntryOverhead
    /\ \/ /\ p.reservations = o.reservations
          /\ p.xattrs = [o.xattrs EXCEPT ![NextId(o)] = [size |-> size, timestamp |-> time]]
          /\ p.has_xattrs = TRUE
       \/ /\ p.reservations =
                 [o.reservations EXCEPT ![NextId(o)] = [size |-> size, timestamp |-> time]]
          /\ p.xattrs = o.xattrs
          /\ p.has_xattrs = o.has_xattrs

\* A refused reservation changes nothing; a granted one is entered (cls_2pc_queue_reserve).
LEMMA ReserveEffect ==
    ASSUME NEW o, Typed(o), NEW size \in Nat, NEW entries \in Nat, NEW time \in Nat
    PROVE  LET r == cls_2pc_queue_reserve(o, size, entries, time)
           IN  \/ r.ret # OK /\ r.obj = o
               \/ /\ r.ret = OK /\ r.id = NextId(o) /\ Typed(r.obj) /\ r.obj.q = o.q
                  /\ ReserveGrants(o, r.obj, size, entries, time)
<1> DEFINE r == cls_2pc_queue_reserve(o, size, entries, time)
           new == [size |-> size, timestamp |-> time]
<1>1. CASE ReserveRet(o, size, entries) # OK
    BY <1>1 DEF cls_2pc_queue_reserve
<1>2. CASE ReserveRet(o, size, entries) = OK
    <2>1. size > 0 /\ entries > 0
        BY <1>2 DEF ReserveRet, OK, EINVAL
    <2>2. PICK bytes \in Nat : bytes = entries * EntryOverhead
        BY QueueSizes
    <2>3. ~(size + o.reserved_size + bytes > RemainingSize(o.q))
        BY <1>2, <2>1, <2>2 DEF ReserveRet, OK, ENOSPC
    <2>4. NextId(o) \in Ids
        BY TwoPCConstants DEF NextId, Ids, Typed
    <2>5. new \in Reservation
        BY DEF Reservation
    <2>6. PICK id \in Ids : id = NextId(o)
        BY <2>4
    <2>7. PICK v \in Reservation : v = new
        BY <2>5
    <2>8. r.ret = OK /\ r.id = id
        BY <1>2, <2>6 DEF cls_2pc_queue_reserve
    <2>9. CASE Spills(o)
        <3>1. r.obj = [o EXCEPT !.last_id = id,
                                !.reserved_size = @ + size + bytes,
                                !.xattrs = [@ EXCEPT ![id] = v],
                                !.has_xattrs = TRUE]
            BY <1>2, <2>2, <2>6, <2>7, <2>9 DEF cls_2pc_queue_reserve, Typed, Shape
        <3> HIDE DEF r, new
        <3>2. /\ Shape(r.obj) /\ r.obj.q = o.q /\ r.obj.last_id = id
              /\ r.obj.reserved_size = o.reserved_size + size + bytes
              /\ r.obj.reservations = o.reservations
              /\ r.obj.xattrs = [o.xattrs EXCEPT ![id] = v]
              /\ r.obj.has_xattrs = TRUE
            BY <3>1 DEF Typed, Shape
        <3>3. Typed(r.obj)
            <4>1. r.obj.has_xattrs \in BOOLEAN
                BY <3>2, Zenon
            <4>2. /\ r.obj.reserved_size \in Int /\ r.obj.last_id \in Ids
                  /\ r.obj.reservations \in Reservations /\ r.obj.xattrs \in Reservations
                BY <3>2 DEF Typed, Reservations
            <4> QED
                BY <3>2, <4>1, <4>2, Zenon DEF Typed
        <3> QED
            BY <2>1, <2>2, <2>3, <2>6, <2>7, <2>8, <3>2, <3>3 DEF ReserveGrants, r, new
    <2>10. CASE ~Spills(o)
        <3>1. r.obj = [o EXCEPT !.last_id = id,
                                !.reserved_size = @ + size + bytes,
                                !.reservations = [@ EXCEPT ![id] = v]]
            BY <1>2, <2>2, <2>6, <2>7, <2>10 DEF cls_2pc_queue_reserve, Typed, Shape
        <3> HIDE DEF r, new
        <3>2. /\ Shape(r.obj) /\ r.obj.q = o.q /\ r.obj.last_id = id
              /\ r.obj.reserved_size = o.reserved_size + size + bytes
              /\ r.obj.reservations = [o.reservations EXCEPT ![id] = v]
              /\ r.obj.xattrs = o.xattrs
              /\ r.obj.has_xattrs = o.has_xattrs
            BY <3>1 DEF Typed, Shape
        <3>3. Typed(r.obj)
            BY <3>2 DEF Typed, Reservations
        <3> QED
            BY <2>1, <2>2, <2>3, <2>6, <2>7, <2>8, <3>2, <3>3 DEF ReserveGrants, r, new
    <2> QED
        BY <2>9, <2>10
<1> QED
    BY <1>1, <1>2

\* A release takes the reservation out of the place where it was found, and its size off
\* the reserved bytes.
LEMMA ReleaseEffect ==
    ASSUME NEW o, Typed(o), NEW id \in Ids
    PROVE  LET p == Release(o, id)
           IN  /\ Typed(p) /\ p.q = o.q /\ p.last_id = o.last_id
               /\ p.has_xattrs = o.has_xattrs
               /\ p.reserved_size = o.reserved_size - SizeOf(o, id)
               /\ p.reservations = IF InHead(o, id)
                                   THEN [o.reservations EXCEPT ![id] = NoReservation]
                                   ELSE o.reservations
               /\ p.xattrs = IF InHead(o, id)
                             THEN o.xattrs
                             ELSE [o.xattrs EXCEPT ![id] = NoReservation]
<1> DEFINE p == Release(o, id)
<1>1. PICK none \in Reservation : none = NoReservation
    BY DEF Reservation, NoReservation
<1>2. PICK size \in Nat : size = SizeOf(o, id)
    BY DEF SizeOf, Typed, Reservations, Reservation
<1>3. CASE InHead(o, id)
    <2>1. p = [o EXCEPT !.reserved_size = @ - size, !.reservations = [@ EXCEPT ![id] = none]]
        BY <1>1, <1>2, <1>3 DEF Release, Typed, Shape
    <2> HIDE DEF p
    <2>2. /\ Shape(p) /\ p.q = o.q /\ p.last_id = o.last_id /\ p.has_xattrs = o.has_xattrs
          /\ p.reserved_size = o.reserved_size - size
          /\ p.reservations = [o.reservations EXCEPT ![id] = none]
          /\ p.xattrs = o.xattrs
        BY <2>1 DEF Typed, Shape
    <2>3. Typed(p)
        BY <2>2 DEF Typed, Reservations
    <2> QED
        BY <1>1, <1>2, <1>3, <2>2, <2>3 DEF p
<1>4. CASE ~InHead(o, id)
    <2>1. p = [o EXCEPT !.reserved_size = @ - size, !.xattrs = [@ EXCEPT ![id] = none]]
        BY <1>1, <1>2, <1>4 DEF Release, Typed, Shape
    <2> HIDE DEF p
    <2>2. /\ Shape(p) /\ p.q = o.q /\ p.last_id = o.last_id /\ p.has_xattrs = o.has_xattrs
          /\ p.reserved_size = o.reserved_size - size
          /\ p.reservations = o.reservations
          /\ p.xattrs = [o.xattrs EXCEPT ![id] = none]
        BY <2>1 DEF Typed, Shape
    <2>3. Typed(p)
        BY <2>2 DEF Typed, Reservations
    <2> QED
        BY <1>1, <1>2, <1>4, <2>2, <2>3 DEF p
<1> QED
    BY <1>3, <1>4

\* An expiry takes the stale reservations out of both places, and their sizes off.
LEMMA ExpireEffect ==
    ASSUME NEW o, Typed(o), NEW time \in Int
    PROVE  LET p == cls_2pc_queue_expire_reservations(o, time).obj
               head == StaleIn(o.reservations, time)
               xattr == IF o.has_xattrs THEN StaleIn(o.xattrs, time) ELSE {}
           IN  /\ Typed(p) /\ p.q = o.q /\ p.last_id = o.last_id
               /\ p.has_xattrs = o.has_xattrs
               /\ p.reserved_size = o.reserved_size - SumOf(Sizes(o.reservations), head)
                                                    - SumOf(Sizes(o.xattrs), xattr)
               /\ p.reservations = Without(o.reservations, head)
               /\ p.xattrs = Without(o.xattrs, xattr)
<1> DEFINE p == cls_2pc_queue_expire_reservations(o, time).obj
<1>1. PICK none \in Reservation : none = NoReservation
    BY DEF Reservation, NoReservation
<1>2. PICK head \in SUBSET Ids : head = StaleIn(o.reservations, time)
    BY DEF StaleIn, Pending
<1>3. PICK xattr \in SUBSET Ids :
          xattr = IF o.has_xattrs THEN StaleIn(o.xattrs, time) ELSE {}
    BY DEF StaleIn, Pending
<1>4. PICK res \in Reservations : res = o.reservations
    BY DEF Typed
<1>5. PICK xat \in Reservations : xat = o.xattrs
    BY DEF Typed
<1>6. PICK a \in Nat : a = SumOf(Sizes(res), head) /\ a = SizeSum(res, head)
    <2>1. Sizes(res) \in [Ids -> Nat]
        BY DEF Sizes, Reservations, Reservation
    <2> QED
        BY <2>1, SumType, SizeSumIs
<1>7. PICK b \in Nat : b = SumOf(Sizes(xat), xattr) /\ b = SizeSum(xat, xattr)
    <2>1. Sizes(xat) \in [Ids -> Nat]
        BY DEF Sizes, Reservations, Reservation
    <2> QED
        BY <2>1, SumType, SizeSumIs
<1>8. PICK res1 \in Reservations : res1 = Without(res, head)
    BY <1>1 DEF Without, Reservations
<1>9. PICK xat1 \in Reservations : xat1 = Without(xat, xattr)
    BY <1>1 DEF Without, Reservations
<1>10. p = [o EXCEPT !.reservations = res1, !.xattrs = xat1, !.reserved_size = @ - a - b]
    BY <1>2, <1>3, <1>4, <1>5, <1>6, <1>7, <1>8, <1>9 DEF cls_2pc_queue_expire_reservations
<1> HIDE DEF p
<1>11. /\ Shape(p) /\ p.q = o.q /\ p.last_id = o.last_id /\ p.has_xattrs = o.has_xattrs
       /\ p.reserved_size = o.reserved_size - a - b
       /\ p.reservations = res1
       /\ p.xattrs = xat1
    BY <1>10 DEF Typed, Shape
<1>12. Typed(p)
    BY <1>11 DEF Typed
<1> QED
    BY <1>2, <1>3, <1>4, <1>5, <1>6, <1>7, <1>8, <1>9, <1>11, <1>12, Zenon DEF p

-----------------------------------------------------------------------------
(* The reservations and what they were granted for. *)

\* A grant as the class reports it.
Reported(g) == [size |-> g.size, timestamp |-> g.timestamp]

\* A grant g that is resolved is in neither place (r of the head, x of the attribute);
\* one that is not is in exactly one of them, in the attribute only if it is looked at.
Nowhere(g, r, x) == g = NoGrant /\ r = NoReservation /\ x = NoReservation
Held(g) == g.size > 0 /\ g.entries > 0
HeldInHead(g, r, x) == Held(g) /\ r = Reported(g) /\ x = NoReservation
HeldInXattrs(g, r, x, has_xattrs) ==
    Held(g) /\ r = NoReservation /\ x = Reported(g) /\ has_xattrs = TRUE
Placed(g, r, x, has_xattrs) ==
    Nowhere(g, r, x) \/ HeldInHead(g, r, x) \/ HeldInXattrs(g, r, x, has_xattrs)

\* The inductive invariant: every id is in its place, the ids above the last one are
\* unused, and the reserved bytes cover what is promised.
ResInv ==
    /\ Typed(obj)
    /\ grants \in Grants
    /\ now \in Nat
    /\ granted \in Nat /\ granted <= MaxReserved
    /\ fullGrant \in BOOLEAN
    /\ obj.last_id = granted
    /\ \A i \in Ids : i > granted => grants[i] = NoGrant
    /\ \A i \in Ids : Placed(grants[i], obj.reservations[i], obj.xattrs[i], obj.has_xattrs)
    /\ SumOf(Worths(grants), Ids) <= obj.reserved_size

\* What a method finds under an id is its grant.
LEMMA Found ==
    ASSUME ResInv, NEW id \in Ids
    PROVE  /\ InHead(obj, id) \/ InXattrs(obj, id) =>
                  Held(grants[id]) /\ SizeOf(obj, id) = grants[id].size
           /\ ~(InHead(obj, id) \/ InXattrs(obj, id)) => grants[id] = NoGrant
           /\ InHead(obj, id) => HeldInHead(grants[id], obj.reservations[id], obj.xattrs[id])
           /\ InXattrs(obj, id) => HeldInXattrs(grants[id], obj.reservations[id],
                                                obj.xattrs[id], obj.has_xattrs)
<1>0. Placed(grants[id], obj.reservations[id], obj.xattrs[id], obj.has_xattrs)
    BY DEF ResInv
<1>1. CASE Nowhere(grants[id], obj.reservations[id], obj.xattrs[id])
    <2>1. ~InHead(obj, id) /\ ~InXattrs(obj, id)
        BY <1>1 DEF Nowhere, NoReservation, InHead, InXattrs, Pending
    <2> QED
        BY <1>1, <2>1 DEF Nowhere
<1>2. CASE HeldInHead(grants[id], obj.reservations[id], obj.xattrs[id])
    <2>1. InHead(obj, id) /\ ~InXattrs(obj, id) /\ SizeOf(obj, id) = grants[id].size
        BY <1>2 DEF HeldInHead, Held, Reported, InHead, InXattrs, Pending, SizeOf
    <2> QED
        BY <1>2, <2>1 DEF HeldInHead
<1>3. CASE HeldInXattrs(grants[id], obj.reservations[id], obj.xattrs[id], obj.has_xattrs)
    <2>1. ~InHead(obj, id)
        BY <1>3 DEF HeldInXattrs, NoReservation, InHead, Pending
    <2>2. InXattrs(obj, id) /\ SizeOf(obj, id) = grants[id].size
        BY <1>3, <2>1 DEF HeldInXattrs, Held, Reported, InXattrs, Pending, SizeOf
    <2> QED
        BY <1>3, <2>1, <2>2 DEF HeldInXattrs
<1> QED
    BY <1>0, <1>1, <1>2, <1>3 DEF Placed

\* Types of the worths of all ids.
LEMMA WorthsType ==
    ASSUME NEW gs \in Grants
    PROVE  Worths(gs) \in [Ids -> Nat] /\ \A i \in Ids : Worths(gs)[i] = Worth(gs[i])
<1>1. \A i \in Ids : Worth(gs[i]) \in Nat
    BY WorthType DEF Grants
<1> QED
    BY <1>1 DEF Worths

\* An id without a grant is worth nothing.
LEMMA NoGrantType ==
    NoGrant \in [size : Nat, entries : Nat, timestamp : Nat] /\ Worth(NoGrant) = 0
BY QueueSizes DEF NoGrant, Worth

\* A reservation keeps the invariant.
LEMMA ReserveRes ==
    ASSUME MaxReserved < IdMod, ResInv,
           NEW size \in Nat, NEW entries \in Nat, Reserve(size, entries)
    PROVE  ResInv'
<1> DEFINE r == cls_2pc_queue_reserve(obj, size, entries, now)
<1>0. /\ Typed(obj) /\ now \in Nat /\ granted \in Nat /\ grants \in Grants
      /\ fullGrant \in BOOLEAN /\ granted < MaxReserved /\ MaxReserved \in Nat /\ IdMod \in Nat
    BY TwoPCClassConstants, TwoPCConstants DEF ResInv, Reserve
<1>1. PICK id \in Ids : id = NextId(obj) /\ id = granted + 1
    BY <1>0 DEF ResInv, NextId, Ids
<1>2. obj' = r.obj /\ now' = now /\ fullGrant' \in BOOLEAN
    BY <1>0 DEF Reserve
<1>3. CASE r.ret # OK /\ r.obj = obj
    <2>1. obj' = obj /\ grants' = grants /\ granted' = granted
        BY <1>2, <1>3 DEF Reserve
    <2> HIDE DEF r
    <2> QED
        BY <1>2, <2>1 DEF ResInv
<1>4. CASE /\ r.ret = OK /\ r.id = NextId(obj) /\ Typed(r.obj) /\ r.obj.q = obj.q
           /\ ReserveGrants(obj, r.obj, size, entries, now)
    <2>1. PICK g \in [size : Nat, entries : Nat, timestamp : Nat] :
              g = [size |-> size, entries |-> entries, timestamp |-> now]
        BY <1>0
    <2>2. granted' = granted + 1 /\ grants' = [grants EXCEPT ![id] = g]
        BY <1>1, <1>4, <2>1 DEF Reserve
    <2>3. /\ Typed(obj') /\ ReserveGrants(obj, obj', size, entries, now)
        BY <1>2, <1>4
    <2> HIDE DEF r
    <2>4. grants' \in Grants /\ grants'[id] = g /\ \A i \in Ids \ {id} : grants'[i] = grants[i]
        BY <1>0, <2>2 DEF Grants
    <2>5. granted' \in Nat /\ granted' <= MaxReserved /\ obj'.last_id = granted'
        <3>1. obj'.last_id = NextId(obj)
            BY <2>3 DEF ReserveGrants
        <3>2. obj'.last_id = id
            BY <1>1, <3>1
        <3> QED
            BY <1>0, <1>1, <2>2, <3>2
    <2>6. grants[id] = NoGrant
        BY <1>0, <1>1 DEF ResInv
    <2>7. ASSUME NEW i \in Ids, i > granted'
          PROVE  grants'[i] = NoGrant
        <3>1. i # id /\ i > granted
            BY <1>0, <1>1, <2>2, <2>7 DEF Ids
        <3> QED
            BY <2>4, <3>1 DEF ResInv
    <2>8. Held(g) /\ Reported(g) = [size |-> size, timestamp |-> now]
        BY <2>1, <2>3 DEF ReserveGrants, Held, Reported
    <2>9. Nowhere(grants[id], obj.reservations[id], obj.xattrs[id])
        <3>1. ~Held(grants[id])
            BY <2>6 DEF Held, NoGrant
        <3> QED
            BY <3>1 DEF ResInv, Placed, HeldInHead, HeldInXattrs
    <2>10. /\ obj.reservations \in [Ids -> Reservation]
           /\ obj.xattrs \in [Ids -> Reservation]
        BY <1>0 DEF Typed, Reservations
    <2>11. ASSUME NEW i \in Ids
           PROVE  Placed(grants'[i], obj'.reservations[i], obj'.xattrs[i], obj'.has_xattrs)
        <3>0. Placed(grants[i], obj.reservations[i], obj.xattrs[i], obj.has_xattrs)
            BY DEF ResInv
        <3>1. CASE /\ obj'.reservations = obj.reservations
                   /\ obj'.xattrs = [obj.xattrs EXCEPT ![id] = Reported(g)]
                   /\ obj'.has_xattrs = TRUE
            <4>1. CASE i = id
                <5>1. /\ obj'.reservations[i] = NoReservation
                      /\ obj'.xattrs[i] = Reported(g)
                    BY <2>9, <2>10, <3>1, <4>1 DEF Nowhere
                <5> QED
                    BY <2>4, <2>8, <3>1, <4>1, <5>1 DEF Placed, HeldInXattrs
            <4>2. CASE i # id
                <5>1. /\ obj'.reservations[i] = obj.reservations[i]
                      /\ obj'.xattrs[i] = obj.xattrs[i] /\ grants'[i] = grants[i]
                    BY <2>4, <2>10, <3>1, <4>2
                <5> QED
                    BY <3>0, <3>1, <5>1 DEF Placed, HeldInXattrs
            <4> QED
                BY <4>1, <4>2
        <3>2. CASE /\ obj'.reservations = [obj.reservations EXCEPT ![id] = Reported(g)]
                   /\ obj'.xattrs = obj.xattrs
                   /\ obj'.has_xattrs = obj.has_xattrs
            <4>1. CASE i = id
                <5>1. /\ obj'.reservations[i] = Reported(g)
                      /\ obj'.xattrs[i] = NoReservation
                    BY <2>9, <2>10, <3>2, <4>1 DEF Nowhere
                <5> QED
                    BY <2>4, <2>8, <4>1, <5>1 DEF Placed, HeldInHead
            <4>2. CASE i # id
                <5>1. /\ obj'.reservations[i] = obj.reservations[i]
                      /\ obj'.xattrs[i] = obj.xattrs[i] /\ grants'[i] = grants[i]
                    BY <2>4, <2>10, <3>2, <4>2
                <5> QED
                    BY <3>0, <3>2, <5>1
            <4> QED
                BY <4>1, <4>2
        <3> QED
            BY <1>1, <2>3, <2>8, <3>1, <3>2 DEF ReserveGrants
    <2>12. SumOf(Worths(grants'), Ids) <= obj'.reserved_size
        <3>1. PICK f \in [Ids -> Nat] : f = Worths(grants)
            BY <1>0, WorthsType
        <3>2. PICK k \in [Ids -> Nat] : k = Worths(grants')
            BY <2>4, WorthsType
        <3>3. f[id] = 0 /\ k[id] = Worth(g) /\ \A x \in Ids \ {id} : k[x] = f[x]
            BY <1>0, <2>4, <2>6, <3>1, <3>2, NoGrantType, WorthsType
        <3>4. SumOf(k, Ids) + f[id] = SumOf(f, Ids) + k[id]
            BY <3>3, SumUpdate
        <3>5. SumOf(k, Ids) \in Nat /\ SumOf(f, Ids) \in Nat
            BY SumType
        <3>6. SumOf(f, Ids) <= obj.reserved_size /\ obj.reserved_size \in Int
            BY <3>1 DEF ResInv, Typed
        <3>7. PICK bytes \in Nat : bytes = entries * EntryOverhead
            BY QueueSizes
        <3>8. Worth(g) = size + bytes
            BY <2>1, <3>7 DEF Worth
        <3>9. obj'.reserved_size = obj.reserved_size + size + bytes
            BY <2>3, <3>7 DEF ReserveGrants
        <3>10. SumOf(k, Ids) <= obj'.reserved_size
            BY <3>3, <3>4, <3>5, <3>6, <3>8, <3>9
        <3> QED
            BY <3>2, <3>10
    <2> QED
        BY <1>0, <1>2, <2>3, <2>4, <2>5, <2>7, <2>11, <2>12 DEF ResInv
<1> HIDE DEF r
<1>5. \/ r.ret # OK /\ r.obj = obj
      \/ /\ r.ret = OK /\ r.id = NextId(obj) /\ Typed(r.obj) /\ r.obj.q = obj.q
         /\ ReserveGrants(obj, r.obj, size, entries, now)
    BY <1>0, ReserveEffect DEF r
<1> QED
    BY <1>3, <1>4, <1>5

\* What is left of the object when the reservation of an id is released.
Released(o, p, id) ==
    /\ Typed(p) /\ p.last_id = o.last_id /\ p.has_xattrs = o.has_xattrs
    /\ p.reserved_size = o.reserved_size - SizeOf(o, id)
    /\ p.reservations = IF InHead(o, id)
                        THEN [o.reservations EXCEPT ![id] = NoReservation]
                        ELSE o.reservations
    /\ p.xattrs = IF InHead(o, id)
                  THEN o.xattrs
                  ELSE [o.xattrs EXCEPT ![id] = NoReservation]

\* The release of a reservation that was found, with its grant, keeps the invariant, and
\* takes off the promise what the grant was worth.
LEMMA ReleaseRes ==
    ASSUME ResInv, NEW id \in Ids, InHead(obj, id) \/ InXattrs(obj, id),
           Released(obj, obj', id), grants' = [grants EXCEPT ![id] = NoGrant],
           now' \in Nat, granted' = granted, fullGrant' = fullGrant
    PROVE  /\ ResInv'
           /\ SumOf(Worths(grants'), Ids) = SumOf(Worths(grants), Ids) - Worth(grants[id])
<1>0. /\ Typed(obj) /\ granted \in Nat /\ grants \in Grants
    BY DEF ResInv
<1>1. PICK none \in [size : Nat, entries : Nat, timestamp : Nat] : none = NoGrant
    BY NoGrantType
<1>2. grants' \in Grants /\ grants'[id] = NoGrant /\ \A i \in Ids \ {id} : grants'[i] = grants[i]
    BY <1>0, <1>1 DEF Grants
<1>3. obj.reservations \in [Ids -> Reservation] /\ obj.xattrs \in [Ids -> Reservation]
    BY <1>0 DEF Typed, Reservations
<1>4. ASSUME NEW i \in Ids
      PROVE  Placed(grants'[i], obj'.reservations[i], obj'.xattrs[i], obj'.has_xattrs)
    <2>0. Placed(grants[i], obj.reservations[i], obj.xattrs[i], obj.has_xattrs)
        BY DEF ResInv
    <2>1. CASE i # id
        <3>1. obj'.reservations[i] = obj.reservations[i] /\ obj'.xattrs[i] = obj.xattrs[i]
            BY <1>3, <2>1 DEF Released
        <3> QED
            BY <1>2, <2>0, <2>1, <3>1 DEF Released
    <2>2. CASE i = id
        <3>1. CASE InHead(obj, id)
            <4>1. HeldInHead(grants[id], obj.reservations[id], obj.xattrs[id])
                BY <3>1, Found
            <4>2. obj'.reservations[id] = NoReservation /\ obj'.xattrs[id] = NoReservation
                BY <1>3, <3>1, <4>1 DEF Released, HeldInHead
            <4> QED
                BY <1>2, <2>2, <4>2 DEF Placed, Nowhere
        <3>2. CASE ~InHead(obj, id)
            <4>1. HeldInXattrs(grants[id], obj.reservations[id], obj.xattrs[id], obj.has_xattrs)
                BY <3>2, Found
            <4>2. obj'.reservations[id] = NoReservation /\ obj'.xattrs[id] = NoReservation
                BY <1>3, <3>2, <4>1 DEF Released, HeldInXattrs
            <4> QED
                BY <1>2, <2>2, <4>2 DEF Placed, Nowhere
        <3> QED
            BY <3>1, <3>2
    <2> QED
        BY <2>1, <2>2
<1>5. /\ SumOf(Worths(grants'), Ids) = SumOf(Worths(grants), Ids) - Worth(grants[id])
      /\ SumOf(Worths(grants'), Ids) <= obj'.reserved_size
    <2>1. PICK f \in [Ids -> Nat] : f = Worths(grants)
        BY <1>0, WorthsType
    <2>2. PICK k \in [Ids -> Nat] : k = Worths(grants')
        BY <1>2, WorthsType
    <2>3. /\ f[id] = Worth(grants[id]) /\ k[id] = 0
          /\ \A x \in Ids \ {id} : k[x] = f[x]
        <3>1. \A x \in Ids : f[x] = Worth(grants[x])
            BY <1>0, <2>1, WorthsType
        <3>2. \A x \in Ids : k[x] = Worth(grants'[x])
            BY <1>2, <2>2, WorthsType
        <3> QED
            BY <1>2, <3>1, <3>2, NoGrantType
    <2>4. SumOf(k, Ids) + f[id] = SumOf(f, Ids) + k[id]
        BY <2>3, SumUpdate
    <2>5. SumOf(k, Ids) \in Nat /\ SumOf(f, Ids) \in Nat /\ f[id] \in Nat
        BY SumType
    <2>6. SumOf(f, Ids) <= obj.reserved_size /\ obj.reserved_size \in Int
        BY <2>1 DEF ResInv, Typed
    <2>7. /\ grants[id] \in [size : Nat, entries : Nat, timestamp : Nat]
          /\ grants[id].size \in Nat /\ grants[id].entries > 0
          /\ SizeOf(obj, id) = grants[id].size
        BY <1>0, Found DEF Grants, Held
    <2>8. Worth(grants[id]) >= grants[id].size + EntryOverhead /\ EntryOverhead \in Nat
        BY <2>7, WorthType, QueueSizes
    <2>9. obj'.reserved_size = obj.reserved_size - grants[id].size
        BY <2>7 DEF Released
    <2>10. SumOf(k, Ids) = SumOf(f, Ids) - f[id] /\ SumOf(k, Ids) <= obj'.reserved_size
        BY <2>3, <2>4, <2>5, <2>6, <2>7, <2>8, <2>9
    <2> QED
        BY <2>1, <2>2, <2>3, <2>10
<1>6. \A i \in Ids : i > granted' => grants'[i] = NoGrant
    BY <1>2 DEF ResInv
<1> QED
    BY <1>0, <1>2, <1>4, <1>5, <1>6 DEF ResInv, Released

\* A commit with id, if it succeeds, finds a reservation that is large enough and releases it
\* (cls_2pc_queue_commit); else it changes nothing.
LEMMA CommitEffect ==
    ASSUME NEW o, Typed(o), NEW id \in Ids, NEW es
    PROVE  LET r == cls_2pc_queue_commit(o, id, es)
           IN  \/ r.ret # OK /\ r.obj = o
               \/ /\ r.ret = OK /\ queue_enqueue(o.q, es).ret = OK
                  /\ InHead(o, id) \/ InXattrs(o, id)
                  /\ ~(SizeOf(o, id) < DataSize(es))
                  /\ r.obj.q = queue_enqueue(o.q, es).q
                  /\ Released(o, r.obj, id)
<1> DEFINE r == cls_2pc_queue_commit(o, id, es)
           enq == queue_enqueue(o.q, es)
           rel == Release(o, id)
<1>1. CASE ~InHead(o, id) /\ ~InXattrs(o, id)
    BY <1>1 DEF cls_2pc_queue_commit, OK, ENOENT
<1>2. CASE (InHead(o, id) \/ InXattrs(o, id)) /\ SizeOf(o, id) < DataSize(es)
    BY <1>2 DEF cls_2pc_queue_commit, OK, EINVAL
<1>3. CASE (InHead(o, id) \/ InXattrs(o, id)) /\ ~(SizeOf(o, id) < DataSize(es))
    <2>1. r.ret = enq.ret /\ r.obj = IF enq.ret = OK THEN [rel EXCEPT !.q = enq.q] ELSE o
        BY <1>3 DEF cls_2pc_queue_commit
    <2>2. /\ Typed(rel) /\ rel.last_id = o.last_id /\ rel.has_xattrs = o.has_xattrs
          /\ rel.reserved_size = o.reserved_size - SizeOf(o, id)
          /\ rel.reservations = IF InHead(o, id)
                                THEN [o.reservations EXCEPT ![id] = NoReservation]
                                ELSE o.reservations
          /\ rel.xattrs = IF InHead(o, id)
                          THEN o.xattrs
                          ELSE [o.xattrs EXCEPT ![id] = NoReservation]
        BY ReleaseEffect
    <2>3. CASE enq.ret = OK
        <3>1. PICK p : p = [rel EXCEPT !.q = enq.q]
            OBVIOUS
        <3>2. r.obj = p /\ r.ret = OK
            BY <2>1, <2>3, <3>1
        <3> HIDE DEF rel, enq, r
        <3>3. /\ Shape(p) /\ p.q = enq.q /\ p.reserved_size = rel.reserved_size
              /\ p.last_id = rel.last_id /\ p.reservations = rel.reservations
              /\ p.has_xattrs = rel.has_xattrs /\ p.xattrs = rel.xattrs
            BY <2>2, <3>1 DEF Typed, Shape
        <3>4. Typed(p)
            BY <2>2, <3>3 DEF Typed
        <3>5. Released(o, p, id)
            BY <2>2, <3>3, <3>4 DEF Released
        <3> QED
            BY <1>3, <2>3, <3>2, <3>3, <3>5 DEF r, enq
    <2>4. CASE enq.ret # OK
        BY <2>1, <2>4
    <2> QED
        BY <2>3, <2>4
<1> QED
    BY <1>1, <1>2, <1>3

\* A commit keeps the invariant.
LEMMA CommitRes ==
    ASSUME ResInv, NEW id \in Ids, NEW ss, Commit(id, ss)
    PROVE  ResInv'
<1> DEFINE r == cls_2pc_queue_commit(obj, id, NewEntries(ss))
<1>0. Typed(obj) /\ now' = now /\ now \in Nat /\ granted' = granted /\ fullGrant' = fullGrant
    BY DEF ResInv, Commit
<1>1. /\ obj' = r.obj
      /\ grants' = IF r.ret = OK THEN [grants EXCEPT ![id] = NoGrant] ELSE grants
    BY DEF Commit
<1>2. CASE r.ret # OK /\ r.obj = obj
    <2> HIDE DEF r
    <2> QED
        BY <1>0, <1>1, <1>2 DEF ResInv
<1>3. CASE /\ r.ret = OK /\ (InHead(obj, id) \/ InXattrs(obj, id))
           /\ Released(obj, r.obj, id)
    <2> HIDE DEF r
    <2>1. /\ InHead(obj, id) \/ InXattrs(obj, id)
          /\ Released(obj, obj', id) /\ grants' = [grants EXCEPT ![id] = NoGrant]
        BY <1>1, <1>3
    <2> QED
        BY <1>0, <2>1, ReleaseRes
<1>4. \/ r.ret # OK /\ r.obj = obj
      \/ /\ r.ret = OK /\ (InHead(obj, id) \/ InXattrs(obj, id))
         /\ Released(obj, r.obj, id)
    BY <1>0, CommitEffect
<1> QED
    BY <1>2, <1>3, <1>4

\* An abort keeps the invariant, also when there is nothing to abort.
LEMMA AbortRes ==
    ASSUME ResInv, NEW id \in Ids, Abort(id)
    PROVE  ResInv'
<1>0. /\ Typed(obj) /\ now' = now /\ now \in Nat /\ granted' = granted /\ fullGrant' = fullGrant
      /\ grants' = [grants EXCEPT ![id] = NoGrant] /\ grants \in Grants
    BY DEF ResInv, Abort
<1>1. CASE InHead(obj, id) \/ InXattrs(obj, id)
    <2>1. obj' = Release(obj, id)
        BY <1>1 DEF Abort, cls_2pc_queue_abort
    <2>2. Released(obj, obj', id)
        BY <1>0, <2>1, ReleaseEffect DEF Released
    <2> QED
        BY <1>0, <1>1, <2>2, ReleaseRes
<1>2. CASE ~(InHead(obj, id) \/ InXattrs(obj, id))
    <2>1. obj' = obj
        BY <1>2 DEF Abort, cls_2pc_queue_abort
    <2>2. grants[id] = NoGrant
        BY <1>2, Found
    <2>3. grants' = grants
        BY <1>0, <2>2 DEF Grants
    <2> QED
        BY <1>0, <2>1, <2>3 DEF ResInv
<1> QED
    BY <1>1, <1>2

\* The expiry of reservations keeps the invariant: the reservations it takes out of the
\* two places are the grants that are too old.
LEMMA ExpireRes ==
    ASSUME ResInv, Expire
    PROVE  ResInv'
<1>0. /\ Typed(obj) /\ now' = now /\ now \in Nat /\ granted' = granted /\ granted \in Nat
      /\ fullGrant' = fullGrant /\ grants \in Grants
    BY DEF ResInv, Expire
<1>1. PICK time \in Int : time = StaleTime
    BY <1>0, TwoPCClassConstants DEF StaleTime
<1>2. PICK none \in [size : Nat, entries : Nat, timestamp : Nat] : none = NoGrant
    BY NoGrantType
<1>3. grants' = [i \in Ids |-> IF grants[i].timestamp < time THEN none ELSE grants[i]]
    BY <1>1, <1>2 DEF Expire
<1>4. PICK stale \in SUBSET Ids : stale = {i \in Ids : grants[i].timestamp < time}
    OBVIOUS
<1>5. /\ grants' \in Grants
      /\ \A i \in stale : grants'[i] = NoGrant
      /\ \A i \in Ids \ stale : grants'[i] = grants[i]
    BY <1>0, <1>2, <1>3, <1>4 DEF Grants
<1>6. PICK head \in SUBSET Ids : head = StaleIn(obj.reservations, time)
    BY DEF StaleIn, Pending
<1>7. PICK xattr \in SUBSET Ids :
          xattr = IF obj.has_xattrs THEN StaleIn(obj.xattrs, time) ELSE {}
    BY DEF StaleIn, Pending
<1>8. /\ Typed(obj') /\ obj'.last_id = obj.last_id /\ obj'.has_xattrs = obj.has_xattrs
      /\ obj'.reserved_size = obj.reserved_size - SumOf(Sizes(obj.reservations), head)
                                                - SumOf(Sizes(obj.xattrs), xattr)
      /\ obj'.reservations = Without(obj.reservations, head)
      /\ obj'.xattrs = Without(obj.xattrs, xattr)
    <2>1. obj' = cls_2pc_queue_expire_reservations(obj, time).obj
        BY <1>1 DEF Expire
    <2> QED
        BY <1>0, <1>6, <1>7, <2>1, ExpireEffect
<1>9. ASSUME NEW i \in Ids
      PROVE  /\ i \in head => HeldInHead(grants[i], obj.reservations[i], obj.xattrs[i])
             /\ i \in xattr => HeldInXattrs(grants[i], obj.reservations[i],
                                            obj.xattrs[i], obj.has_xattrs)
             /\ HeldInHead(grants[i], obj.reservations[i], obj.xattrs[i]) =>
                    /\ i \in head <=> i \in stale
                    /\ i \notin xattr
             /\ HeldInXattrs(grants[i], obj.reservations[i], obj.xattrs[i], obj.has_xattrs) =>
                    /\ i \in xattr <=> i \in stale
                    /\ i \notin head
    <2>0. Placed(grants[i], obj.reservations[i], obj.xattrs[i], obj.has_xattrs)
        BY DEF ResInv
    <2>1. CASE Nowhere(grants[i], obj.reservations[i], obj.xattrs[i])
        <3>1. i \notin head /\ i \notin xattr
            BY <1>6, <1>7, <2>1 DEF Nowhere, NoReservation, StaleIn, Pending
        <3>2. ~Held(grants[i])
            BY <2>1 DEF Nowhere, NoGrant, Held
        <3> QED
            BY <3>1, <3>2 DEF HeldInHead, HeldInXattrs
    <2>2. CASE HeldInHead(grants[i], obj.reservations[i], obj.xattrs[i])
        <3>1. i \notin xattr /\ obj.reservations[i] # NoReservation
            BY <1>7, <2>2 DEF HeldInHead, Held, Reported, NoReservation, StaleIn, Pending
        <3>2. i \in head <=> i \in stale
            BY <1>4, <1>6, <2>2 DEF HeldInHead, Held, Reported, StaleIn, Pending
        <3> QED
            BY <2>2, <3>1, <3>2 DEF HeldInXattrs
    <2>3. CASE HeldInXattrs(grants[i], obj.reservations[i], obj.xattrs[i], obj.has_xattrs)
        <3>1. i \notin head /\ obj.xattrs[i] # NoReservation
            BY <1>6, <2>3 DEF HeldInXattrs, Held, Reported, NoReservation, StaleIn, Pending
        <3>2. i \in xattr <=> i \in stale
            BY <1>4, <1>7, <2>3 DEF HeldInXattrs, Held, Reported, StaleIn, Pending
        <3> QED
            BY <2>3, <3>1, <3>2 DEF HeldInHead
    <2> QED
        BY <2>0, <2>1, <2>2, <2>3 DEF Placed
<1>10. ASSUME NEW i \in Ids
       PROVE  Placed(grants'[i], obj'.reservations[i], obj'.xattrs[i], obj'.has_xattrs)
    <2>0. Placed(grants[i], obj.reservations[i], obj.xattrs[i], obj.has_xattrs)
        BY DEF ResInv
    <2>1. /\ obj'.reservations[i] = IF i \in head THEN NoReservation ELSE obj.reservations[i]
          /\ obj'.xattrs[i] = IF i \in xattr THEN NoReservation ELSE obj.xattrs[i]
        BY <1>8, Zenon DEF Without
    <2>2. CASE Nowhere(grants[i], obj.reservations[i], obj.xattrs[i])
        BY <1>5, <2>1, <2>2 DEF Placed, Nowhere
    <2>3. CASE HeldInHead(grants[i], obj.reservations[i], obj.xattrs[i])
        <3>1. (i \in head <=> i \in stale) /\ i \notin xattr
            BY <1>9, <2>3
        <3>2. CASE i \in stale
            BY <1>5, <2>1, <2>3, <3>1, <3>2 DEF Placed, Nowhere, HeldInHead
        <3>3. CASE i \notin stale
            BY <1>5, <2>1, <2>3, <3>1, <3>3 DEF Placed, HeldInHead
        <3> QED
            BY <3>2, <3>3
    <2>4. CASE HeldInXattrs(grants[i], obj.reservations[i], obj.xattrs[i], obj.has_xattrs)
        <3>1. (i \in xattr <=> i \in stale) /\ i \notin head
            BY <1>9, <2>4
        <3>2. CASE i \in stale
            BY <1>5, <2>1, <2>4, <3>1, <3>2 DEF Placed, Nowhere, HeldInXattrs
        <3>3. CASE i \notin stale
            BY <1>5, <1>8, <2>1, <2>4, <3>1, <3>3 DEF Placed, HeldInXattrs
        <3> QED
            BY <3>2, <3>3
    <2> QED
        BY <2>0, <2>2, <2>3, <2>4 DEF Placed
<1>11. SumOf(Worths(grants'), Ids) <= obj'.reserved_size
    <2>1. PICK f \in [Ids -> Nat] : f = Worths(grants)
        BY <1>0, WorthsType
    <2>2. PICK k \in [Ids -> Nat] : k = Worths(grants')
        BY <1>5, WorthsType
    <2>3. (\A x \in stale : k[x] = 0) /\ \A x \in Ids \ stale : k[x] = f[x]
        <3>1. \A x \in Ids : f[x] = Worth(grants[x])
            BY <1>0, <2>1, WorthsType
        <3>2. \A x \in Ids : k[x] = Worth(grants'[x])
            BY <1>5, <2>2, WorthsType
        <3> QED
            BY <1>5, <3>1, <3>2, NoGrantType
    <2>4. SumOf(f, Ids) = SumOf(k, Ids) + SumOf(f, stale)
        BY <2>3, SumDrop
    <2>5. PICK both \in SUBSET stale : both = head \cup xattr
        <3>1. head \cup xattr \in SUBSET stale
            BY <1>9
        <3> QED
            BY <3>1
    <2>6. head \cap xattr = {}
        BY <1>9
    <2>7. SumOf(f, both) = SumOf(f, head) + SumOf(f, xattr)
        BY <2>5, <2>6, SumUnion
    <2>8. SumOf(f, both) <= SumOf(f, stale)
        BY SumSubset
    <2>9. PICK a \in [Ids -> Nat] : a = Sizes(obj.reservations)
        BY <1>0 DEF Sizes, Typed, Reservations, Reservation
    <2>10. PICK b \in [Ids -> Nat] : b = Sizes(obj.xattrs)
        BY <1>0 DEF Sizes, Typed, Reservations, Reservation
    <2>11. ASSUME NEW i \in Ids
           PROVE  grants[i].size <= f[i]
        <3>1. grants[i] \in [size : Nat, entries : Nat, timestamp : Nat]
            BY <1>0 DEF Grants
        <3>2. f[i] = Worth(grants[i])
            BY <1>0, <2>1, WorthsType
        <3>3. PICK bytes \in Nat : bytes = grants[i].entries * EntryOverhead
            BY <3>1, QueueSizes
        <3> QED
            BY <3>1, <3>2, <3>3 DEF Worth
    <2>12. SumOf(a, head) <= SumOf(f, head)
        <3>1. ASSUME NEW i \in head
              PROVE  a[i] <= f[i]
            <4>0. i \in Ids
                OBVIOUS
            <4>1. a[i] = grants[i].size
                <5>1. obj.reservations[i] = Reported(grants[i])
                    BY <1>9, <4>0 DEF HeldInHead
                <5>2. a[i] = obj.reservations[i].size
                    BY <2>9, <4>0 DEF Sizes
                <5> QED
                    BY <5>1, <5>2 DEF Reported
            <4> QED
                BY <2>11, <4>0, <4>1
        <3> QED
            BY <3>1, SumCompare
    <2>13. SumOf(b, xattr) <= SumOf(f, xattr)
        <3>1. ASSUME NEW i \in xattr
              PROVE  b[i] <= f[i]
            <4>0. i \in Ids
                OBVIOUS
            <4>1. b[i] = grants[i].size
                <5>1. obj.xattrs[i] = Reported(grants[i])
                    BY <1>9, <4>0 DEF HeldInXattrs
                <5>2. b[i] = obj.xattrs[i].size
                    BY <2>10, <4>0 DEF Sizes
                <5> QED
                    BY <5>1, <5>2 DEF Reported
            <4> QED
                BY <2>11, <4>0, <4>1
        <3> QED
            BY <3>1, SumCompare
    <2>14. /\ SumOf(k, Ids) \in Nat /\ SumOf(f, Ids) \in Nat /\ SumOf(f, stale) \in Nat
           /\ SumOf(f, both) \in Nat /\ SumOf(f, head) \in Nat /\ SumOf(f, xattr) \in Nat
           /\ SumOf(a, head) \in Nat /\ SumOf(b, xattr) \in Nat
        BY SumType
    <2>15. SumOf(f, Ids) <= obj.reserved_size /\ obj.reserved_size \in Int
        BY <2>1 DEF ResInv, Typed
    <2>16. obj'.reserved_size = obj.reserved_size - SumOf(a, head) - SumOf(b, xattr)
        BY <1>8, <2>9, <2>10
    <2>17. SumOf(k, Ids) <= obj'.reserved_size
        BY <2>4, <2>7, <2>8, <2>12, <2>13, <2>14, <2>15, <2>16
    <2> QED
        BY <2>2, <2>17
<1>12. \A i \in Ids : i > granted' => grants'[i] = NoGrant
    BY <1>0, <1>5 DEF ResInv
<1> QED
    BY <1>0, <1>5, <1>8, <1>10, <1>11, <1>12 DEF ResInv

\* A step that leaves the reservations and the grants alone keeps the invariant.
LEMMA SameRes ==
    ASSUME ResInv, Typed(obj'), obj'.reserved_size = obj.reserved_size,
           obj'.last_id = obj.last_id, obj'.reservations = obj.reservations,
           obj'.has_xattrs = obj.has_xattrs, obj'.xattrs = obj.xattrs,
           grants' = grants, granted' = granted, fullGrant' = fullGrant, now' \in Nat
    PROVE  ResInv'
BY DEF ResInv

\* A new queue has no reservations (cls_2pc_queue_init).
LEMMA InitRes == Init => ResInv
<1> SUFFICES ASSUME Init
             PROVE  ResInv
    OBVIOUS
<1>1. PICK none \in Reservation : none = NoReservation
    BY DEF Reservation, NoReservation
<1>2. PICK nog \in [size : Nat, entries : Nat, timestamp : Nat] : nog = NoGrant
    BY NoGrantType
<1>3. PICK zero \in Nat : zero = 0
    OBVIOUS
<1>4. obj = [q |-> queue_init, reserved_size |-> zero, last_id |-> zero,
             reservations |-> [i \in Ids |-> none], has_xattrs |-> FALSE,
             xattrs |-> [i \in Ids |-> none]]
    BY <1>1, <1>3 DEF Init, cls_2pc_queue_init, NO_ID
<1>5. /\ Shape(obj) /\ obj.reserved_size = zero /\ obj.last_id = zero
      /\ obj.reservations = [i \in Ids |-> none] /\ obj.xattrs = [i \in Ids |-> none]
      /\ obj.has_xattrs = FALSE
    BY <1>4 DEF Shape
<1>6. Typed(obj)
    <2>1. obj.has_xattrs \in BOOLEAN
        BY <1>5, Zenon
    <2>2. zero \in Ids
        BY <1>3, TwoPCConstants DEF Ids
    <2>3. obj.reservations \in Reservations /\ obj.xattrs \in Reservations
        BY <1>5 DEF Reservations
    <2> QED
        BY <1>5, <2>1, <2>2, <2>3 DEF Typed
<1>7. grants = [i \in Ids |-> nog]
    BY <1>2 DEF Init
<1>8. grants \in Grants /\ \A i \in Ids : grants[i] = NoGrant
    BY <1>2, <1>7 DEF Grants
<1>9. \A i \in Ids : Placed(grants[i], obj.reservations[i], obj.xattrs[i], obj.has_xattrs)
    BY <1>1, <1>5, <1>8 DEF Placed, Nowhere
<1>10. SumOf(Worths(grants), Ids) = 0
    <2>1. PICK f \in [Ids -> Nat] : f = Worths(grants)
        BY <1>8, WorthsType
    <2>2. \A i \in Ids : f[i] = 0
        <3>1. \A i \in Ids : f[i] = Worth(grants[i])
            BY <1>8, <2>1, WorthsType
        <3> QED
            BY <1>8, <3>1, NoGrantType
    <2> QED
        BY <2>1, <2>2, SumZero
<1>11. granted = 0 /\ now = 0 /\ fullGrant \in BOOLEAN
    BY Zenon DEF Init
<1> QED
    BY <1>3, <1>5, <1>6, <1>8, <1>9, <1>10, <1>11, TwoPCClassConstants DEF ResInv

\* Every method keeps the invariant.
LEMMA NextRes ==
    ASSUME MaxReserved < IdMod, ResInv, [Next]_vars
    PROVE  ResInv'
<1>1. ASSUME NEW size \in ReserveSizes, NEW entries \in VectorLengths, Reserve(size, entries)
      PROVE  ResInv'
    <2>1. size \in Nat /\ entries \in Nat
        BY TwoPCClassConstants DEF MaxVector
    <2> QED
        BY <1>1, <2>1, ReserveRes
<1>2. ASSUME NEW id \in Ids, NEW ss \in SizeVectors, Commit(id, ss)
      PROVE  ResInv'
    BY <1>2, CommitRes
<1>3. ASSUME NEW id \in Ids, Abort(id)
      PROVE  ResInv'
    BY <1>3, AbortRes
<1>4. CASE Expire
    BY <1>4, ExpireRes
<1>5. ASSUME NEW end, Remove(end)
      PROVE  ResInv'
    <2>1. PICK q : q = queue_remove_entries(obj.q, end).q
        OBVIOUS
    <2>2. obj' = [obj EXCEPT !.q = q]
        BY <1>5, <2>1 DEF Remove, cls_2pc_queue_remove_entries
    <2>3. /\ Shape(obj') /\ obj'.reserved_size = obj.reserved_size
          /\ obj'.last_id = obj.last_id /\ obj'.reservations = obj.reservations
          /\ obj'.has_xattrs = obj.has_xattrs /\ obj'.xattrs = obj.xattrs
        BY <2>2 DEF ResInv, Typed, Shape
    <2>4. Typed(obj')
        BY <2>3 DEF ResInv, Typed
    <2>5. grants' = grants /\ granted' = granted /\ fullGrant' = fullGrant /\ now' \in Nat
        BY <1>5 DEF Remove, ResInv
    <2> QED
        BY <2>3, <2>4, <2>5, SameRes
<1>6. CASE Tick \/ UNCHANGED vars \/ \E m \in LiveMarkers(obj.q) : List(m)
    <2>1. /\ obj' = obj /\ grants' = grants /\ granted' = granted /\ fullGrant' = fullGrant
          /\ now' \in Nat
        BY <1>6 DEF Tick, vars, List, ResInv
    <2>2. Typed(obj')
        BY <2>1 DEF ResInv
    <2> QED
        BY <2>1, <2>2, SameRes
<1> QED
    BY <1>1, <1>2, <1>3, <1>4, <1>5, <1>6 DEF Next

-----------------------------------------------------------------------------
(* Theorems about the reservations, as long as the ids do not come round: a *)
(* reservation that does not spill is entered without a look at the         *)
(* attribute, so an id that comes round could be in both places.            *)

\* The class reports the grant (cls_2pc_queue_list_reservations).
LEMMA ReportsGrant ==
    ASSUME NEW o, NEW g, NEW i \in Ids,
           Placed(g, o.reservations[i], o.xattrs[i], o.has_xattrs)
    PROVE  cls_2pc_queue_list_reservations(o)[i] = Reported(g)
<1>1. cls_2pc_queue_list_reservations(o)[i] =
          IF InHead(o, i) \/ ~o.has_xattrs THEN o.reservations[i] ELSE o.xattrs[i]
    BY Zenon DEF cls_2pc_queue_list_reservations
<1>2. CASE Nowhere(g, o.reservations[i], o.xattrs[i])
    <2>1. Reported(NoGrant) = NoReservation
        BY DEF Reported, NoGrant, NoReservation
    <2> QED
        BY <1>1, <1>2, <2>1, Zenon DEF Nowhere
<1>3. CASE HeldInHead(g, o.reservations[i], o.xattrs[i])
    <2>1. InHead(o, i)
        BY <1>3 DEF HeldInHead, Held, Reported, InHead, Pending
    <2> QED
        BY <1>1, <1>3, <2>1, Zenon DEF HeldInHead
<1>4. CASE HeldInXattrs(g, o.reservations[i], o.xattrs[i], o.has_xattrs)
    <2>1. ~InHead(o, i)
        BY <1>4 DEF HeldInXattrs, NoReservation, InHead, Pending
    <2> QED
        BY <1>1, <1>4, <2>1, Zenon DEF HeldInXattrs
<1> QED
    BY <1>2, <1>3, <1>4 DEF Placed

\* The class reports exactly the grants that were neither committed, aborted nor expired,
\* each is in one of the two places, and the attribute is used only with its flag set
\* (cls_2pc_queue.cc: reserve, commit, abort, expire_reservations, list_reservations).
THEOREM TwoPCReservationsAreGrants ==
    ASSUME MaxReserved < IdMod
    PROVE  Spec => []ReservationsAreGrants
<1>1. ResInv /\ [Next]_vars => ResInv'
    BY NextRes
<1>2. ResInv => ReservationsAreGrants
    <2> SUFFICES ASSUME ResInv
                 PROVE  ReservationsAreGrants
        OBVIOUS
    <2>1. \A i \in Ids : cls_2pc_queue_list_reservations(obj)[i] =
                          [size |-> grants[i].size, timestamp |-> grants[i].timestamp]
        BY ReportsGrant DEF ResInv, Reported
    <2>2. ASSUME NEW i \in Pending(obj.xattrs)
          PROVE  i \notin Pending(obj.reservations) /\ obj.has_xattrs
        <3>1. i \in Ids /\ obj.xattrs[i].size > 0
            BY DEF Pending
        <3>2. obj.xattrs[i] # NoReservation
            BY <3>1 DEF NoReservation
        <3>3. HeldInXattrs(grants[i], obj.reservations[i], obj.xattrs[i], obj.has_xattrs)
            BY <3>1, <3>2 DEF ResInv, Placed, Nowhere, HeldInHead
        <3>4. obj.reservations[i] = NoReservation /\ obj.has_xattrs
            BY <3>3 DEF HeldInXattrs
        <3> QED
            BY <3>4 DEF Pending, NoReservation
    <2>3. Pending(obj.reservations) \cap Pending(obj.xattrs) = {}
        BY <2>2
    <2>4. ~obj.has_xattrs => Pending(obj.xattrs) = {}
        BY <2>2
    <2> QED
        BY <2>1, <2>3, <2>4 DEF ReservationsAreGrants
<1> QED
    BY <1>1, <1>2, InitRes, PTL DEF Spec

\* The grants are clean, so the promise is the sum over all ids.
LEMMA PromisedSum ==
    ASSUME ResInv
    PROVE  Promised = SumOf(Worths(grants), Ids) /\ Promised \in Nat
<1>1. grants \in Grants
    BY DEF ResInv
<1>2. ASSUME NEW i \in Ids, grants[i].size = 0
      PROVE  grants[i] = NoGrant
    <2>1. ~Held(grants[i])
        BY <1>2 DEF Held
    <2> QED
        BY <2>1 DEF ResInv, Placed, Nowhere, HeldInHead, HeldInXattrs
<1>3. Promised = SumOf(Worths(grants), Ids)
    BY <1>1, <1>2, PromisedIs
<1>4. SumOf(Worths(grants), Ids) \in Nat
    BY <1>1, WorthsType, SumType
<1> QED
    BY <1>3, <1>4

\* The accounting never forgets a promise: what is reserved covers the unresolved grants
\* with their overhead, although a release gives back the size only
\* (cls_2pc_queue.cc: reserved_size).
THEOREM TwoPCReservedCoversPromises ==
    ASSUME MaxReserved < IdMod
    PROVE  Spec => []ReservedCoversPromises
<1>1. ResInv /\ [Next]_vars => ResInv'
    BY NextRes
<1>2. ResInv => ReservedCoversPromises
    <2> SUFFICES ASSUME ResInv
                 PROVE  ReservedCoversPromises
        OBVIOUS
    <2>1. Promised <= obj.reserved_size /\ obj.reserved_size \in Int /\ Promised \in Nat
        BY PromisedSum DEF ResInv, Typed
    <2> QED
        BY <2>1 DEF ReservedCoversPromises
<1> QED
    BY <1>1, <1>2, InitRes, PTL DEF Spec

\* A reservation disappears only by a commit or an abort with its id, or by age.
LEMMA FreshStep ==
    ASSUME MaxReserved < IdMod, ResInv, ResInv', [Next]_vars, NEW i \in Granted
    PROVE  \/ cls_2pc_queue_list_reservations(obj')[i] = cls_2pc_queue_list_reservations(obj)[i]
           \/ \E ss \in SizeVectors : Commit(i, ss)
           \/ Abort(i)
           \/ grants[i].timestamp + StalePeriod < now
<1>0. /\ i \in Ids /\ grants[i].size > 0 /\ grants \in Grants /\ now \in Nat
      /\ granted \in Nat /\ MaxReserved \in Nat /\ IdMod \in Nat /\ StalePeriod \in Nat
    BY TwoPCClassConstants, TwoPCConstants DEF Granted, ResInv
<1> SUFFICES ASSUME ~\E ss \in SizeVectors : Commit(i, ss), ~Abort(i),
                    ~(grants[i].timestamp + StalePeriod < now)
             PROVE  grants'[i] = grants[i]
    <2>1. cls_2pc_queue_list_reservations(obj)[i] = Reported(grants[i])
        BY <1>0, ReportsGrant DEF ResInv
    <2>2. cls_2pc_queue_list_reservations(obj')[i] = Reported(grants'[i])
        <3>1. Placed(grants'[i], obj'.reservations[i], obj'.xattrs[i], obj'.has_xattrs)
            BY <1>0 DEF ResInv
        <3> QED
            BY <1>0, <3>1, ReportsGrant
    <2> QED
        BY <2>1, <2>2
<1>1. ASSUME NEW size \in ReserveSizes, NEW entries \in VectorLengths, Reserve(size, entries)
      PROVE  grants'[i] = grants[i]
    <2>1. granted < MaxReserved /\ NextId(obj) = granted + 1
        BY <1>0, <1>1 DEF Reserve, ResInv, NextId
    <2>2. granted + 1 \in Ids /\ granted + 1 > granted
        BY <1>0, <2>1 DEF Ids
    <2>3. grants[granted + 1] = NoGrant
        BY <2>2 DEF ResInv
    <2>4. i # granted + 1
        BY <1>0, <2>3 DEF NoGrant
    <2>5. \/ grants' = grants
          \/ grants' = [grants EXCEPT ![granted + 1] = [size |-> size, entries |-> entries,
                                                        timestamp |-> now]]
        BY <1>1, <2>1 DEF Reserve, cls_2pc_queue_reserve
    <2> QED
        BY <1>0, <2>4, <2>5 DEF Grants
<1>2. ASSUME NEW id \in Ids, NEW ss \in SizeVectors, Commit(id, ss)
      PROVE  grants'[i] = grants[i]
    <2>1. id # i
        BY <1>2
    <2> QED
        BY <1>0, <1>2, <2>1 DEF Commit, Grants
<1>3. ASSUME NEW id \in Ids, Abort(id)
      PROVE  grants'[i] = grants[i]
    <2>1. id # i
        BY <1>3
    <2> QED
        BY <1>0, <1>3, <2>1 DEF Abort, Grants
<1>4. CASE Expire
    <2>1. ~(grants[i].timestamp < StaleTime)
        BY <1>0 DEF StaleTime, Grants
    <2> QED
        BY <1>0, <1>4, <2>1, Zenon DEF Expire
<1>5. CASE \/ Tick \/ UNCHANGED vars \/ \E m \in LiveMarkers(obj.q) : List(m)
           \/ \E end \in LiveMarkers(obj.q) \cup {marker} : Remove(end)
    BY <1>5 DEF Tick, vars, List, Remove
<1> QED
    BY <1>1, <1>2, <1>3, <1>4, <1>5 DEF Next

\* A reservation disappears only by a commit or an abort with its id, or when it is older
\* than the stale period; neither spilling nor expiring the others touches it
\* (cls_2pc_queue.cc: expire_reservations).
THEOREM TwoPCFreshReservationStays ==
    ASSUME MaxReserved < IdMod
    PROVE  Spec => FreshReservationStays
<1>1. ResInv /\ [Next]_vars => ResInv'
    BY NextRes
<1>2. ResInv /\ ResInv' /\ [Next]_vars =>
          [\A i \in Granted :
              \/ cls_2pc_queue_list_reservations(obj')[i] = cls_2pc_queue_list_reservations(obj)[i]
              \/ \E ss \in SizeVectors : Commit(i, ss)
              \/ Abort(i)
              \/ grants[i].timestamp + StalePeriod < now]_vars
    BY FreshStep
<1> QED
    BY <1>1, <1>2, InitRes, PTL DEF Spec, FreshReservationStays

-----------------------------------------------------------------------------
(* Whoever holds a grant can commit. *)

\* As long as no reservation was granted on a full ring, what is promised is free.
HonourInv ==
    /\ ResInv
    /\ RingInv
    /\ ~fullGrant => SumOf(Worths(grants), Ids) <= FreeBytes(obj.q)

\* Types of the free bytes.
LEMMA FreeType ==
    ASSUME NEW q, GoodQueue(q)
    PROVE  /\ FreeBytes(q) \in Int /\ RemainingSize(q) \in Int
           /\ ~IsFull(q) => FreeBytes(q) = RemainingSize(q)
BY QueueSizes DEF GoodQueue, Queue, Marker, InOneLap, FreeBytes, RemainingSize

\* The promise is a natural number.
LEMMA SumNat ==
    ASSUME NEW gs \in Grants
    PROVE  SumOf(Worths(gs), Ids) \in Nat
BY WorthsType, SumType

\* A reservation is granted only when its bytes are free, unless the ring is full.
LEMMA ReserveHonours ==
    ASSUME HonourInv, ResInv', NEW size \in Nat, NEW entries \in Nat, Reserve(size, entries),
           ~fullGrant'
    PROVE  SumOf(Worths(grants'), Ids) <= FreeBytes(obj'.q)
<1> DEFINE r == cls_2pc_queue_reserve(obj, size, entries, now)
<1>0. /\ Typed(obj) /\ now \in Nat /\ GoodQueue(obj.q) /\ grants \in Grants
      /\ obj.reserved_size \in Int
    BY DEF HonourInv, ResInv, RingInv, Typed
<1>1. obj' = r.obj /\ ~fullGrant /\ (r.ret = OK => ~IsFull(obj.q))
    BY DEF Reserve
<1>2. CASE r.ret # OK /\ r.obj = obj
    <2>1. obj' = obj /\ grants' = grants
        BY <1>1, <1>2 DEF Reserve
    <2> HIDE DEF r
    <2> QED
        BY <1>1, <2>1 DEF HonourInv
<1>3. CASE /\ r.ret = OK /\ r.obj.q = obj.q
           /\ ReserveGrants(obj, r.obj, size, entries, now)
    <2> HIDE DEF r
    <2>1. PICK bytes \in Nat : bytes = entries * EntryOverhead
        BY QueueSizes
    <2>2. ~(size + obj.reserved_size + bytes > RemainingSize(obj.q))
        BY <1>3, <2>1 DEF ReserveGrants
    <2>3. obj'.reserved_size = obj.reserved_size + size + bytes /\ obj'.q = obj.q
        BY <1>1, <1>3, <2>1 DEF ReserveGrants
    <2>4. FreeBytes(obj.q) = RemainingSize(obj.q) /\ RemainingSize(obj.q) \in Int
        BY <1>0, <1>1, <1>3, FreeType
    <2>5. SumOf(Worths(grants'), Ids) <= obj'.reserved_size /\ grants' \in Grants
        BY DEF ResInv
    <2>6. SumOf(Worths(grants'), Ids) \in Nat
        BY <2>5, SumNat
    <2> QED
        BY <1>0, <2>2, <2>3, <2>4, <2>5, <2>6
<1> HIDE DEF r
<1>4. \/ r.ret # OK /\ r.obj = obj
      \/ /\ r.ret = OK /\ r.obj.q = obj.q
         /\ ReserveGrants(obj, r.obj, size, entries, now)
    BY <1>0, ReserveEffect DEF r
<1> QED
    BY <1>2, <1>3, <1>4

\* A commit takes no more bytes than the grant it resolves was worth.
LEMMA CommitHonours ==
    ASSUME HonourInv, NEW id \in Ids, NEW ss \in [1 .. 1 -> EntrySizes], Commit(id, ss),
           ~fullGrant'
    PROVE  SumOf(Worths(grants'), Ids) <= FreeBytes(obj'.q)
<1> DEFINE e == [id |-> issued + 1, size |-> ss[1]]
           es == NewEntries(ss)
           r == cls_2pc_queue_commit(obj, id, es)
           enq == queue_enqueue(obj.q, es)
<1>0. /\ Typed(obj) /\ now \in Nat /\ GoodQueue(obj.q) /\ grants \in Grants /\ ResInv
      /\ now' = now /\ granted' = granted /\ fullGrant' = fullGrant
    BY DEF HonourInv, ResInv, RingInv, Commit
<1>1. es = <<e>> /\ Len(es) = 1 /\ es[1] = e
    <2>1. Len(ss) = 1
        OBVIOUS
    <2> QED
        BY <2>1 DEF NewEntries
<1>2. e \in Entry /\ e.size \in Nat
    <2>0. ss[1] \in EntrySizes
        OBVIOUS
    <2>1. ss[1] \in Nat
        <3> HIDE DEF e, es, r, enq
        <3> QED
            BY <2>0, TwoPCClassConstants, Zenon
    <2>2. issued + 1 \in Nat \ {0}
        BY DEF HonourInv, RingInv
    <2> QED
        BY <2>1, <2>2 DEF Entry
<1>3. DataSize(es) = e.size
    <2> HIDE DEF es, e
    <2> QED
        BY <1>1 DEF DataSize
<1>4. /\ obj' = r.obj
      /\ grants' = IF r.ret = OK THEN [grants EXCEPT ![id] = NoGrant] ELSE grants
    BY DEF Commit
<1>5. CASE r.ret # OK /\ r.obj = obj
    <2> HIDE DEF r
    <2> QED
        BY <1>0, <1>4, <1>5 DEF HonourInv
<1>6. CASE /\ r.ret = OK /\ enq.ret = OK
           /\ InHead(obj, id) \/ InXattrs(obj, id)
           /\ ~(SizeOf(obj, id) < DataSize(es))
           /\ r.obj.q = enq.q
           /\ Released(obj, r.obj, id)
    <2>1. FreeBytes(enq.q) = FreeBytes(obj.q) - RingLength(e)
        <3>1. queue_enqueue(obj.q, <<e>>).ret = OK
            BY <1>1, <1>6
        <3> HIDE DEF e
        <3>2. FreeBytes(queue_enqueue(obj.q, <<e>>).q) = FreeBytes(obj.q) - RingLength(e)
            BY <1>0, <1>2, <3>1, EnqueueFree
        <3> QED
            BY <1>1, <3>2
    <2> HIDE DEF r, enq, es, e
    <2>2. Released(obj, obj', id) /\ grants' = [grants EXCEPT ![id] = NoGrant]
        BY <1>4, <1>6
    <2>3. SumOf(Worths(grants'), Ids) = SumOf(Worths(grants), Ids) - Worth(grants[id])
        BY <1>0, <1>6, <2>2, ReleaseRes
    <2>4. /\ grants[id] \in [size : Nat, entries : Nat, timestamp : Nat]
          /\ grants[id].size \in Nat /\ grants[id].entries > 0
          /\ SizeOf(obj, id) = grants[id].size
        BY <1>0, <1>6, Found DEF Grants, Held
    <2>5. Worth(grants[id]) >= grants[id].size + EntryOverhead /\ Worth(grants[id]) \in Nat
        BY <2>4, WorthType
    <2>6. e.size <= grants[id].size
        BY <1>2, <1>3, <1>6, <2>4
    <2>7. RingLength(e) = EntryOverhead + e.size /\ EntryOverhead \in Nat
        BY QueueSizes DEF RingLength
    <2>8. SumOf(Worths(grants), Ids) <= FreeBytes(obj.q) /\ FreeBytes(obj.q) \in Int
        BY <1>0, FreeType DEF HonourInv
    <2>9. SumOf(Worths(grants), Ids) \in Nat
        BY <1>0, SumNat
    <2>10. FreeBytes(obj'.q) = FreeBytes(obj.q) - RingLength(e)
        BY <1>4, <1>6, <2>1
    <2> QED
        BY <1>2, <2>3, <2>4, <2>5, <2>6, <2>7, <2>8, <2>9, <2>10
<1>7. \/ r.ret # OK /\ r.obj = obj
      \/ /\ r.ret = OK /\ enq.ret = OK
         /\ InHead(obj, id) \/ InXattrs(obj, id)
         /\ ~(SizeOf(obj, id) < DataSize(es))
         /\ r.obj.q = enq.q
         /\ Released(obj, r.obj, id)
    BY <1>0, CommitEffect
<1> HIDE DEF r, enq, es, e
<1> QED
    BY <1>5, <1>6, <1>7

\* What an abort or an expiry drops is no longer promised.
LEMMA DropHonours ==
    ASSUME HonourInv, grants' \in Grants,
           \A i \in Ids : grants'[i] = grants[i] \/ grants'[i] = NoGrant,
           FreeBytes(obj'.q) \in Int, FreeBytes(obj'.q) >= FreeBytes(obj.q),
           ~fullGrant
    PROVE  SumOf(Worths(grants'), Ids) <= FreeBytes(obj'.q)
<1>1. PICK f \in [Ids -> Nat] : f = Worths(grants)
    BY WorthsType DEF HonourInv, ResInv
<1>2. PICK k \in [Ids -> Nat] : k = Worths(grants')
    BY WorthsType
<1>3. ASSUME NEW i \in Ids
      PROVE  k[i] <= f[i]
    <2>1. f[i] = Worth(grants[i]) /\ f[i] \in Nat
        BY <1>1, WorthsType DEF HonourInv, ResInv
    <2>2. k[i] = Worth(grants'[i])
        BY <1>2, WorthsType
    <2>3. CASE grants'[i] = grants[i]
        BY <2>1, <2>2, <2>3
    <2>4. CASE grants'[i] = NoGrant
        BY <2>1, <2>2, <2>4, NoGrantType
    <2> QED
        BY <2>3, <2>4
<1>4. Ids \in SUBSET Ids
    OBVIOUS
<1>5. SumOf(k, Ids) <= SumOf(f, Ids)
    BY <1>3, <1>4, SumCompare
<1>6. SumOf(k, Ids) \in Nat /\ SumOf(f, Ids) \in Nat
    BY <1>4, SumType
<1>7. SumOf(f, Ids) <= FreeBytes(obj.q) /\ FreeBytes(obj.q) \in Int
    BY <1>1, FreeType DEF HonourInv, RingInv
<1>8. SumOf(k, Ids) <= FreeBytes(obj'.q)
    BY <1>5, <1>6, <1>7
<1> QED
    BY <1>2, <1>8

\* Every method keeps what is promised free.
LEMMA NextHonour ==
    ASSUME VectorLengths = {1}, MaxReserved < IdMod, HonourInv, [Next]_vars
    PROVE  HonourInv'
<1>1. ResInv' /\ RingInv'
    BY NextRes, NextRing DEF HonourInv
<1>0. /\ FreeBytes(obj'.q) \in Int /\ FreeBytes(obj.q) \in Int /\ grants' \in Grants
      /\ grants \in Grants /\ Shape(obj) /\ GoodQueue(obj.q)
    BY <1>1, FreeType DEF ResInv, RingInv, HonourInv
<1> SUFFICES ASSUME ~fullGrant'
             PROVE  SumOf(Worths(grants'), Ids) <= FreeBytes(obj'.q)
    BY <1>1 DEF HonourInv
<1>2. ASSUME NEW size \in ReserveSizes, NEW entries \in VectorLengths, Reserve(size, entries)
      PROVE  SumOf(Worths(grants'), Ids) <= FreeBytes(obj'.q)
    <2>1. size \in Nat /\ entries \in Nat
        BY TwoPCClassConstants DEF MaxVector
    <2> QED
        BY <1>1, <1>2, <2>1, ReserveHonours
<1>3. ASSUME NEW id \in Ids, NEW ss \in SizeVectors, Commit(id, ss)
      PROVE  SumOf(Worths(grants'), Ids) <= FreeBytes(obj'.q)
    <2>1. ss \in [1 .. 1 -> EntrySizes]
        BY DEF SizeVectors
    <2> QED
        BY <1>3, <2>1, CommitHonours
<1>4. ASSUME NEW id \in Ids, Abort(id)
      PROVE  SumOf(Worths(grants'), Ids) <= FreeBytes(obj'.q)
    <2>1. obj'.q = obj.q
        BY <1>0, <1>4, ReleaseKeepsRing DEF Abort, cls_2pc_queue_abort
    <2>2. \A i \in Ids : grants'[i] = grants[i] \/ grants'[i] = NoGrant
        BY <1>0, <1>4 DEF Abort, Grants
    <2>3. ~fullGrant
        BY <1>4 DEF Abort
    <2> QED
        BY <1>0, <2>1, <2>2, <2>3, DropHonours
<1>5. CASE Expire
    <2>1. obj'.q = obj.q
        BY <1>0, <1>5, ExpireKeepsRing DEF Expire
    <2>2. \A i \in Ids : grants'[i] = grants[i] \/ grants'[i] = NoGrant
        BY <1>5, Zenon DEF Expire
    <2>3. ~fullGrant
        BY <1>5 DEF Expire
    <2> QED
        BY <1>0, <2>1, <2>2, <2>3, DropHonours
<1>6. ASSUME NEW end \in LiveMarkers(obj.q) \cup {marker}, Remove(end)
      PROVE  SumOf(Worths(grants'), Ids) <= FreeBytes(obj'.q)
    <2>1. end \in Marker /\ AtOrBefore(end, obj.q.tail)
        BY <1>0, <1>6, LiveMarkersBeforeTail DEF HonourInv, RingInv, Remove
    <2>2. obj'.q = queue_remove_entries(obj.q, end).q
        BY <1>0, <1>6, RemoveRemoves DEF Remove
    <2>3. FreeBytes(obj'.q) >= FreeBytes(obj.q)
        BY <1>0, <2>1, <2>2, RemoveFrees
    <2>4. grants' = grants /\ ~fullGrant
        BY <1>6 DEF Remove
    <2> QED
        BY <1>0, <2>3, <2>4, DropHonours
<1>7. CASE Tick \/ UNCHANGED vars \/ \E m \in LiveMarkers(obj.q) : List(m)
    <2>1. obj' = obj /\ grants' = grants /\ ~fullGrant
        BY <1>7 DEF Tick, vars, List
    <2> QED
        BY <2>1 DEF HonourInv
<1> QED
    BY <1>2, <1>3, <1>4, <1>5, <1>6, <1>7 DEF Next

\* Nothing is promised in a new queue.
LEMMA InitHonour == Init => HonourInv
<1> SUFFICES ASSUME Init
             PROVE  HonourInv
    OBVIOUS
<1>1. ResInv /\ RingInv
    BY InitRes, InitRing
<1>2. obj.q = queue_init
    BY DEF Init, cls_2pc_queue_init
<1>3. FreeBytes(obj.q) >= 0
    BY <1>2, QueueSizes DEF FreeBytes, IsFull, queue_init, RemainingSize
<1>4. SumOf(Worths(grants), Ids) <= 0
    <2>1. obj.reserved_size = 0
        BY DEF Init, cls_2pc_queue_init
    <2> QED
        BY <1>1, <2>1 DEF ResInv
<1>5. SumOf(Worths(grants), Ids) \in Nat /\ FreeBytes(obj.q) \in Int
    BY <1>1, SumNat, FreeType DEF ResInv, RingInv
<1> QED
    BY <1>1, <1>3, <1>4, <1>5 DEF HonourInv

\* The holder of a grant can commit an entry of up to the granted size.
LEMMA GrantCommits ==
    ASSUME HonourInv, ~fullGrant, NEW i \in Granted, NEW s \in EntrySizes, s <= grants[i].size
    PROVE  cls_2pc_queue_commit(obj, i, <<[id |-> 1, size |-> s]>>).ret = OK
<1> DEFINE e == [id |-> 1, size |-> s]
<1>0. /\ i \in Ids /\ grants[i].size > 0 /\ grants \in Grants /\ ResInv /\ GoodQueue(obj.q)
      /\ grants[i] \in [size : Nat, entries : Nat, timestamp : Nat]
    BY DEF HonourInv, ResInv, RingInv, Granted, Grants
<1>1. s \in Nat
    BY TwoPCClassConstants
<1>2. e \in Entry /\ e.size = s
    BY <1>1 DEF Entry
<1>3. grants[i] # NoGrant
    BY <1>0 DEF NoGrant
<1>4. /\ InHead(obj, i) \/ InXattrs(obj, i)
      /\ SizeOf(obj, i) = grants[i].size /\ grants[i].entries > 0
    BY <1>0, <1>3, Found DEF Held
<1>5. ~(SizeOf(obj, i) < DataSize(<<e>>))
    <2>1. DataSize(<<e>>) = s
        BY DEF DataSize
    <2> HIDE DEF e
    <2> QED
        BY <1>0, <1>1, <1>4, <2>1
<1>6. RingLength(e) <= FreeBytes(obj.q)
    <2>1. PICK f \in [Ids -> Nat] : f = Worths(grants)
        BY <1>0, WorthsType
    <2>2. f[i] = Worth(grants[i])
        BY <1>0, <2>1, WorthsType
    <2>3. /\ SumOf(f, Ids) = f[i] + SumOf(f, Ids \ {i})
          /\ SumOf(f, Ids \ {i}) \in Nat /\ SumOf(f, Ids) \in Nat
        BY <1>0, SumType
    <2>4. Worth(grants[i]) >= grants[i].size + EntryOverhead /\ Worth(grants[i]) \in Nat
        BY <1>0, <1>4, WorthType
    <2>5. SumOf(f, Ids) <= FreeBytes(obj.q) /\ FreeBytes(obj.q) \in Int
        BY <1>0, <2>1, FreeType DEF HonourInv
    <2>6. RingLength(e) = EntryOverhead + s /\ EntryOverhead \in Nat
        BY <1>2, QueueSizes DEF RingLength
    <2> HIDE DEF e
    <2> QED
        BY <1>0, <1>1, <2>2, <2>3, <2>4, <2>5, <2>6
<1>7. queue_enqueue(obj.q, <<e>>).ret = OK
    <2> HIDE DEF e
    <2> QED
        BY <1>0, <1>2, <1>6, EnqueueFree
<1> HIDE DEF e
<1>8. cls_2pc_queue_commit(obj, i, <<e>>).ret = OK
    BY <1>4, <1>5, <1>7 DEF cls_2pc_queue_commit
<1> QED
    BY <1>8 DEF e

\* The point of reserving: whoever holds an unresolved grant can commit an entry of up to
\* the granted size, whatever the others reserve, commit, abort, expire and remove in
\* between, unless a reservation was granted on a full ring, which the class takes for an
\* empty one (cls_2pc_queue.cc; cls_queue_src.cc: queue_enqueue, queue_remove_entries).
THEOREM TwoPCGrantsAreHonoured ==
    ASSUME VectorLengths = {1}, MaxReserved < IdMod
    PROVE  Spec => []GrantsAreHonoured
<1>1. HonourInv /\ [Next]_vars => HonourInv'
    BY NextHonour
<1>2. HonourInv => GrantsAreHonoured
    <2> SUFFICES ASSUME HonourInv, ~fullGrant
                 PROVE  /\ Promised <= FreeBytes(obj.q)
                        /\ \A i \in Granted, s \in EntrySizes :
                               s <= grants[i].size =>
                                   cls_2pc_queue_commit(obj, i, <<[id |-> 1, size |-> s]>>).ret
                                       = OK
        BY DEF GrantsAreHonoured
    <2>1. Promised <= FreeBytes(obj.q)
        BY PromisedSum DEF HonourInv
    <2> QED
        BY <2>1, GrantCommits
<1> QED
    BY <1>1, <1>2, InitHonour, PTL DEF Spec

\* State has its type, and reserved_size, an unsigned integer in the code, never underflows
\* (cls_2pc_queue_types.h: cls_2pc_urgent_data).
THEOREM TwoPCTypeCorrect ==
    ASSUME VectorLengths = {1}, MaxReserved < IdMod
    PROVE  Spec => []TypeOK
<1>1. HonourInv /\ [Next]_vars => HonourInv'
    BY NextHonour
<1>2. HonourInv => TypeOK
    <2> SUFFICES ASSUME HonourInv
                 PROVE  TypeOK
        OBVIOUS
    <2>1. obj \in Object
        BY DEF HonourInv, ResInv, RingInv, GoodQueue, Typed, Shape, Object
    <2>2. obj.reserved_size >= 0
        <3>1. /\ SumOf(Worths(grants), Ids) <= obj.reserved_size
              /\ obj.reserved_size \in Int /\ SumOf(Worths(grants), Ids) \in Nat
            BY SumNat DEF HonourInv, ResInv, Typed
        <3> QED
            BY <3>1
    <2> QED
        BY <2>1, <2>2 DEF TypeOK, HonourInv, ResInv, RingInv, Grants
<1> QED
    BY <1>1, <1>2, InitHonour, PTL DEF Spec
=============================================================================
