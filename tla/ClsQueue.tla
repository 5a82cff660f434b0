------------------------------ MODULE ClsQueue ------------------------------
(***************************************************************************)
(* The ring buffer inside one RADOS object that the queue, the two-phase   *)
(* commit queue and the garbage collection queue classes share             *)
(* (cls/queue/cls_queue_src.cc).  The object holds a head of MaxHeadSize   *)
(* bytes followed by a ring of entries; an entry is EntryOverhead bytes    *)
(* (start magic and data size) and then the data, and may be split over    *)
(* the end of the object.                                                  *)
(*                                                                         *)
(* The operators are functions of the queue's state, because a class       *)
(* method runs atomically on its object and a method that returns an error *)
(* writes nothing.  A queue is a record                                    *)
(*     front, tail  markers: a generation (lap number) and a byte offset   *)
(*     data         the bytes behind the head, one Cell for each offset    *)
(*                                                                         *)
(* No state and no RECURSIVE operator here: the theorems reach this module.*)
(***************************************************************************)
EXTENDS Integers, Sequences

CONSTANTS
    MaxHeadSize,    \* head.max_head_size: the first offset of the ring
    QueueSize,      \* head.queue_size: the first offset past the ring
    EntryOverhead   \* QUEUE_ENTRY_OVERHEAD

ASSUME QueueSizes ==
    /\ MaxHeadSize \in Nat \ {0}
    /\ QueueSize \in Nat
    /\ QueueSize > MaxHeadSize
    /\ EntryOverhead \in Nat \ {0}

\* The errors that matter here, as the negative integers the methods return.
OK     == 0
ENOENT == -2
EAGAIN == -11
EBUSY  == -16
EINVAL == -22
ENOSPC == -28

Offset == MaxHeadSize .. QueueSize - 1
Marker == [gen : Nat, offset : Nat]

\* An empty marker string leaves the offset of a parsed marker at 0.
NoMarker == [gen |-> 0, offset |-> 0]

\* What the application stores: an identity and the number of data bytes.
Entry == [id : Nat \ {0}, size : Nat]

\* Byte number "at" of an entry as it lies in the ring; zeroed bytes.
Cell == [id : Nat, size : Nat, at : Nat]
ZeroCell == [id |-> 0, size |-> 0, at |-> 0]

Queue == [front : Marker, tail : Marker, data : [Offset -> Cell]]

queue_get_capacity == QueueSize - MaxHeadSize

\* The bytes an entry takes in the ring.
RingLength(e) == EntryOverhead + e.size

queue_init ==
    LET start == [gen |-> 0, offset |-> MaxHeadSize]
    IN  [front |-> start, tail |-> start, data |-> [o \in Offset |-> ZeroCell]]

IsEmpty(q) == q.front = q.tail
IsFull(q) == q.front.offset = q.tail.offset /\ q.tail.gen = q.front.gen + 1

\* The bytes that can still be written as the class computes them from the
\* offsets alone: the whole capacity when the offsets are equal.
RemainingSize(q) ==
    IF q.tail.offset >= q.front.offset
    THEN (QueueSize - q.tail.offset) + (q.front.offset - MaxHeadSize)
    ELSE q.front.offset - q.tail.offset

-----------------------------------------------------------------------------
(* Enqueue *)

\* Fault: the wrap is forgotten.
WrapMarkerNever(m) == m

\* An offset that reached the end of the ring continues behind the head, one
\* generation later.
WrapMarker(m) ==
    IF m.offset = QueueSize
    THEN [gen |-> m.gen + 1, offset |-> MaxHeadSize]
    ELSE m

\* Fault: the tail starts a new lap without counting it.
TailAfterSameGen(tail, len) ==
    IF tail.offset + len <= QueueSize
    THEN WrapMarker([tail EXCEPT !.offset = @ + len])
    ELSE [gen |-> tail.gen, offset |-> MaxHeadSize + (len - (QueueSize - tail.offset))]

\* Where the tail stands after writing len bytes: in place, or split in the
\* bytes before the end of the ring and the rest behind the head.
TailAfter(tail, len) ==
    IF tail.offset + len <= QueueSize
    THEN WrapMarker([tail EXCEPT !.offset = @ + len])
    ELSE [gen |-> tail.gen + 1,
          offset |-> MaxHeadSize + (len - (QueueSize - tail.offset))]

\* How many bytes behind offset "from" the offset o lies, going round.
RingDistance(from, o) ==
    IF o >= from THEN o - from ELSE (QueueSize - from) + (o - MaxHeadSize)

WriteEntry(data, from, e) ==
    [o \in Offset |->
        IF RingDistance(from, o) < RingLength(e)
        THEN [id |-> e.id, size |-> e.size, at |-> RingDistance(from, o)]
        ELSE data[o]]

\* Fault: the data is compared with the room, its header is not.
HasRoomWithoutHeader(q, len) ==
    IF q.tail.offset >= q.front.offset
    THEN q.tail.offset + len <= QueueSize \/ len <= RemainingSize(q)
    ELSE q.tail.offset + (len - EntryOverhead) <= q.front.offset

\* There is room for the bytes at the tail, before the end of the ring or the
\* front, or when split around the end.
HasRoom(q, len) ==
    IF q.tail.offset >= q.front.offset
    THEN \/ q.tail.offset + len <= QueueSize
         \/ len <= RemainingSize(q)
    ELSE q.tail.offset + len <= q.front.offset

\* One iteration of the loop over op.bl_data_vec.
EnqueueOne(q, e) ==
    IF HasRoom(q, RingLength(e))
    THEN [ret |-> OK,
          q   |-> [q EXCEPT !.tail = TailAfter(@, RingLength(e)),
                            !.data = WriteEntry(@, q.tail.offset, e)]]
    ELSE [ret |-> ENOSPC, q |-> q]

\* The vector holds one or two entries (MaxVector).  The full queue is detected
\* once, before the loop; an error in the loop undoes the entries before it.
MaxVector == 2
queue_enqueue(q, es) ==
    LET first == EnqueueOne(q, es[1])
        last  == IF Len(es) = 1 \/ first.ret # OK
                 THEN first
                 ELSE EnqueueOne(first.q, es[2])
    IN  IF IsFull(q) \/ last.ret # OK
        THEN [ret |-> ENOSPC, q |-> q]
        ELSE last

-----------------------------------------------------------------------------
(* Listing *)

\* The bytes a listing reads from marker s on: the ones up to the tail or the
\* end of the ring, then, when the data wraps around, the ones behind the head.
\* The generation of s is not looked at.
WrapsAround(q, s) ==
    q.front.offset >= q.tail.offset /\ s.offset >= q.front.offset

Contiguous(q, s) ==
    IF WrapsAround(q, s) THEN QueueSize - s.offset
    ELSE IF q.tail.offset > q.front.offset \/ s.offset <= q.tail.offset
         THEN q.tail.offset - s.offset
         ELSE 0

StreamLength(q, s) ==
    Contiguous(q, s)
        + (IF WrapsAround(q, s) THEN q.tail.offset - MaxHeadSize ELSE 0)

\* Fault: the markers behind the head are handed out with the lap of the start.
StreamMarkerSameGen(q, s, k) ==
    [gen |-> s.gen,
     offset |-> IF k < Contiguous(q, s) \/ ~WrapsAround(q, s)
                THEN s.offset + k ELSE MaxHeadSize + (k - Contiguous(q, s))]

\* The marker of byte k of that stream, or of the byte behind its last one.
StreamMarker(q, s, k) ==
    IF k < Contiguous(q, s) \/ ~WrapsAround(q, s)
    THEN [gen |-> s.gen, offset |-> s.offset + k]
    ELSE [gen |-> s.gen + 1, offset |-> MaxHeadSize + (k - Contiguous(q, s))]

\* The bytes themselves; byte k is the element k + 1.
Stream(q, s) ==
    [k \in 1 .. StreamLength(q, s) |-> q.data[StreamMarker(q, s, k - 1).offset]]

\* An entry starts at byte k and all of it is in the stream.  Its size is what the
\* header says; the data is whatever bytes follow.
HasHeader(stream, k) == k + EntryOverhead <= Len(stream)
GoodHeader(stream, k) == stream[k + 1].id # 0 /\ stream[k + 1].at = 0
EntryEnd(stream, k) == k + RingLength(stream[k + 1])
IsWhole(stream, k) ==
    /\ HasHeader(stream, k)
    /\ GoodHeader(stream, k)
    /\ EntryEnd(stream, k) <= Len(stream)

\* The identity of what is read at byte k: 0 when the bytes are not the ones that
\* were written for one entry.
ReadAt(stream, k) ==
    LET c == stream[k + 1]
    IN  IF \A i \in 0 .. RingLength(c) - 1 : stream[k + i + 1] = [c EXCEPT !.at = i]
        THEN c.id
        ELSE 0

\* The bytes at which the whole entries start, following the sizes in the headers.
EntryStarts(stream) ==
    LET starts[k \in 0 .. Len(stream)] ==
            IF IsWhole(stream, k) THEN <<k>> \o starts[EntryEnd(stream, k)] ELSE <<>>
    IN  starts[0]

\* At most max (positive) entries from the start marker, or from the front if
\* there is none.  The next marker is the tail when the data is exhausted.
queue_list_entries(q, start, max) ==
    LET s      == IF start.offset = 0 THEN q.front ELSE start
        stream == Stream(q, s)
        all    == EntryStarts(stream)
        count  == IF Len(all) < max THEN Len(all) ELSE max
        stop   == IF count = 0 THEN 0 ELSE EntryEnd(stream, all[count])
        next   == IF count = max THEN WrapMarker(StreamMarker(q, s, stop)) ELSE q.tail
        bad    == count < max /\ HasHeader(stream, stop) /\ ~GoodHeader(stream, stop)
        EntryAt(k) == [id     |-> ReadAt(stream, k),
                       size   |-> stream[k + 1].size,
                       marker |-> StreamMarker(q, s, k)]
    IN  IF IsEmpty(q)
        THEN [ret |-> OK, entries |-> <<>>, next |-> q.front, truncated |-> FALSE]
        ELSE IF bad
             THEN [ret |-> EINVAL, entries |-> <<>>, next |-> NoMarker, truncated |-> FALSE]
             ELSE [ret       |-> OK,
                   entries   |-> [i \in 1 .. count |-> EntryAt(all[i])],
                   next      |-> next,
                   truncated |-> count = max /\ next # q.tail]

-----------------------------------------------------------------------------
(* Removal *)

\* Fault: the laps are not compared.
AheadIgnoringGen(q, end) ==
    end.offset >= q.front.offset \/ end.gen # q.front.gen

\* An end marker is accepted when it lies ahead of the front in the same lap, at
\* or behind it in the next lap, or at the front.  The tail is not looked at.
Ahead(q, end) ==
    \/ end.gen = q.front.gen /\ end.offset >= q.front.offset
    \/ end.gen = q.front.gen + 1 /\ end.offset <= q.front.offset

\* Fault: the byte at the end marker is zeroed, too.
RemovedInclusive(q, end) ==
    IF end.gen = q.front.gen
    THEN {o \in Offset : q.front.offset <= o /\ o <= end.offset}
    ELSE {o \in Offset : q.front.offset <= o \/ o <= end.offset}

\* The offsets from the front up to the end marker, which are zeroed.
Removed(q, end) ==
    IF end.gen = q.front.gen
    THEN {o \in Offset : q.front.offset <= o /\ o < end.offset}
    ELSE {o \in Offset : q.front.offset <= o \/ o < end.offset}

queue_remove_entries(q, end) ==
    CASE IsEmpty(q) -> [ret |-> OK, q |-> q]
      [] ~IsEmpty(q) /\ ~Ahead(q, end) -> [ret |-> EINVAL, q |-> q]
      [] OTHER ->
           [ret |-> OK,
            q   |-> [q EXCEPT !.front = WrapMarker(end),
                              !.data = [o \in Offset |->
                                  IF o \in Removed(q, end) THEN ZeroCell ELSE @[o]]]]

-----------------------------------------------------------------------------
(* What the properties are stated with *)

\* The offsets of the ring that hold entries.
Live(q) ==
    {o \in Offset : IF q.front.gen = q.tail.gen
                    THEN q.front.offset <= o /\ o < q.tail.offset
                    ELSE q.front.offset <= o \/ o < q.tail.offset}

\* The markers a listing hands out: where the entries start, and the tail.
LiveMarkers(q) ==
    {[gen |-> IF o >= q.front.offset THEN q.front.gen ELSE q.tail.gen, offset |-> o] :
        o \in {x \in Live(q) : q.data[x].at = 0}}
    \cup {q.tail}

\* The head is consistent: front and tail are offsets of the ring and the tail is
\* ahead of the front by at most one lap.
InOneLap(q) ==
    /\ q.front.offset \in Offset
    /\ q.tail.offset \in Offset
    /\ \/ q.tail.gen = q.front.gen /\ q.front.offset <= q.tail.offset
       \/ q.tail.gen = q.front.gen + 1 /\ q.tail.offset <= q.front.offset

\* The bytes that are really free.
FreeBytes(q) == IF IsFull(q) THEN 0 ELSE RemainingSize(q)
=============================================================================
