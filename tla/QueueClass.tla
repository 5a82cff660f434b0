----------------------------- MODULE QueueClass -----------------------------
(***************************************************************************)
(* The queue object class (cls/queue/cls_queue.cc) and its clients: any    *)
(* client enqueues, lists from the front and keeps one marker of a         *)
(* listing, and removes up to the marker it kept, however old it is by     *)
(* then.  Every method is atomic on the object.                            *)
(***************************************************************************)
EXTENDS ClsQueue

CONSTANTS
    Clients,
    Sizes,          \* data sizes of the entries
    VectorLengths,  \* how many entries one enqueue carries
    MaxIssued,      \* bound: entries enqueued in a behaviour
    MaxList         \* bound: entries asked for by one listing

ASSUME QueueClassConstants ==
    /\ Sizes \subseteq Nat
    /\ VectorLengths \subseteq 1 .. MaxVector
    /\ MaxIssued \in Nat
    /\ MaxList \in Nat \ {0}

VARIABLES
    q,        \* the object: head and ring
    reply,    \* the last answer, and the bytes it was asked to add
    issued,   \* entries enqueued so far; their identities are 1 .. issued
    held,     \* per client: a marker, and the last entry that lies before it
    contents  \* auxiliary: what a listing of the whole queue reads

vars == <<q, reply, issued, held, contents>>

Nothing == [marker |-> NoMarker, upto |-> 0]

\* A listing of the whole queue, without the markers.
ReadAll(ring) ==
    LET r == queue_list_entries(ring, NoMarker, MaxIssued + 1)
    IN  [i \in 1 .. Len(r.entries) |->
            [id |-> r.entries[i].id, size |-> r.entries[i].size]]

Init ==
    /\ q = queue_init
    /\ contents = <<>>
    /\ reply = [ret |-> OK, bytes |-> 0]
    /\ issued = 0
    /\ held = [c \in Clients |-> Nothing]

\* The vector of new entries with these sizes.
NewEntries(ss) == [i \in 1 .. Len(ss) |-> [id |-> issued + i, size |-> ss[i]]]
VectorBytes(es) ==
    IF Len(es) = 1 THEN RingLength(es[1]) ELSE RingLength(es[1]) + RingLength(es[2])

cls_queue_enqueue(ss) ==
    LET es == NewEntries(ss)
    IN  \E r \in {queue_enqueue(q, es)} :
        /\ issued + Len(ss) <= MaxIssued
        /\ q' = r.q
        /\ contents' = ReadAll(r.q)
        /\ issued' = IF r.ret = OK THEN issued + Len(ss) ELSE issued
        /\ reply' = [ret |-> r.ret, bytes |-> VectorBytes(es)]
        /\ UNCHANGED held

\* The markers a listing hands out: where each entry starts, and where the next
\* listing would start.
HandedOut(r) ==
    LET n == Len(r.entries)
    IN  {[marker |-> r.entries[i].marker, upto |-> r.entries[i].id - 1] : i \in 1 .. n}
            \cup {[marker |-> r.next,
                   upto |-> IF n = 0 THEN issued ELSE r.entries[n].id]}

cls_queue_list_entries(c, max) ==
    \E r \in {queue_list_entries(q, NoMarker, max)} :
        /\ IF r.ret = OK
           THEN \E h \in HandedOut(r) : held' = [held EXCEPT ![c] = h]
           ELSE UNCHANGED held
        /\ reply' = [ret |-> r.ret, bytes |-> 0]
        /\ UNCHANGED <<q, issued, contents>>

cls_queue_remove_entries(c) ==
    \E r \in {queue_remove_entries(q, held[c].marker)} :
        /\ held[c] # Nothing
        /\ q' = r.q
        /\ contents' = ReadAll(r.q)
        /\ reply' = [ret |-> r.ret, bytes |-> 0]
        /\ UNCHANGED <<issued, held>>

SizeVectors == UNION {[1 .. n -> Sizes] : n \in VectorLengths}

Next ==
    \/ \E ss \in SizeVectors : cls_queue_enqueue(ss)
    \/ \E c \in Clients :
           \/ \E max \in 1 .. MaxList : cls_queue_list_entries(c, max)
           \/ cls_queue_remove_entries(c)

Spec == Init /\ [][Next]_vars

-----------------------------------------------------------------------------
\* State and answers have their types.
TypeOK ==
    /\ q \in [front : [gen : 0 .. MaxIssued, offset : Offset],
              tail  : [gen : 0 .. MaxIssued, offset : Offset],
              data  : [Offset -> [id : 0 .. MaxIssued, size : Sizes \cup {0}, at : Nat]]]
    /\ reply \in [ret : {OK, ENOSPC, EINVAL}, bytes : Nat]
    /\ issued \in 0 .. MaxIssued
    /\ held \in [Clients -> [marker : Marker, upto : 0 .. MaxIssued]]

\* The ring, read through a listing, is a bounded first-in first-out queue: no
\* entry is lost, torn, reordered or duplicated by wrapping around the end of
\* the object, and "no space" is answered only when the entry does not fit.
Fifo == INSTANCE BoundedFifo WITH
    Capacity <- queue_get_capacity, Overhead <- EntryOverhead,
    Done <- OK, NoSpace <- ENOSPC, Refused <- EINVAL,
    contents <- contents, reply <- reply

ImplementsFifo == Fifo!FifoSpec

\* Listing in pages of any size, each from the next marker of the one before,
\* visits the entries exactly once and stops with them: a page that starts at an
\* entry returns the following entries, its next marker is where the entry behind
\* the page starts, and it is truncated only if there is such an entry.  The
\* markers handed out are the ones at which entries start, and the tail.
PagedListing ==
    LET all   == queue_list_entries(q, NoMarker, MaxIssued + 1)
        n     == Len(all.entries)
        Least(a, b) == IF a < b THEN a ELSE b
        MarkerOf(i) == IF i <= n THEN all.entries[i].marker ELSE q.tail
    IN  /\ all.ret = OK
        /\ {all.entries[i].marker : i \in 1 .. n} \cup {all.next} = LiveMarkers(q)
        /\ \A i \in 1 .. n, max \in 1 .. MaxList :
               LET last == Least(i + max - 1, n)
               IN  queue_list_entries(q, MarkerOf(i), max) =
                    [ret |-> OK,
                     entries |-> SubSeq(all.entries, i, last),
                     next |-> MarkerOf(last + 1),
                     truncated |-> last < n]

\* A removal drops the entries before the marker the client kept, or none at all,
\* even if the ring wrapped around or others removed entries since the listing:
\* an entry the client never saw is not removed by an outdated marker.
RemovesOnlyListed ==
    [][\A c \in Clients : cls_queue_remove_entries(c) =>
          \/ contents' = contents
          \/ \E n \in 0 .. Len(contents) :
                 /\ contents' = SubSeq(contents, n + 1, Len(contents))
                 /\ \A i \in DOMAIN contents : i > n <=> contents[i].id > held[c].upto]_vars

\* "enqueue of new bufferlist happens in the free spaces of the queue"
\* (cls_queue_src.cc:155): an enqueue changes no byte of an entry in the queue.
EnqueueInFreeSpace ==
    [][\A ss \in SizeVectors : cls_queue_enqueue(ss) =>
          \A o \in Live(q) : q.data[o] = q'.data[o]]_vars
=============================================================================
