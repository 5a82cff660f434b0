----------------------------- MODULE TwoPCQueue -----------------------------
(***************************************************************************)
(* The two-phase commit queue class (cls/2pc_queue/cls_2pc_queue.cc): a    *)
(* client first reserves bytes, and later commits its entries against the  *)
(* reservation or aborts it; reservations nobody resolves are expired by   *)
(* age.  Reservations are kept in the "urgent data" of the queue's head    *)
(* and, when those are full, in an extended attribute of the object.       *)
(*                                                                         *)
(* Each class method is an operator that maps the object to the method's   *)
(* return code and the object it leaves: TwoPCClass and PersistentNotify   *)
(* use these.                                                              *)
(***************************************************************************)
EXTENDS ClsQueue, FiniteSets, FiniteSetsExt, Functions

CONSTANTS
    IdMod,         \* number of reservation ids: id_t is uint32_t
    UrgentMax      \* reservations that fit in max_urgent_data_size

ASSUME TwoPCConstants ==
    /\ IdMod \in Nat \ {0}
    /\ UrgentMax \in Nat

Ids == 0 .. IdMod - 1
NO_ID == 0

\* A reservation map, id -> reservation; an id without one has size 0, which
\* cannot be reserved.
Reservation == [size : Nat, timestamp : Nat]
NoReservation == [size |-> 0, timestamp |-> 0]
Reservations == [Ids -> Reservation]
Pending(map) == {i \in Ids : map[i].size > 0}

\* The object: ring, urgent data, and the attribute with spilled reservations.
Object ==
    [q : Queue, reserved_size : Int, last_id : Ids, reservations : Reservations,
     has_xattrs : BOOLEAN, xattrs : Reservations]

cls_2pc_queue_init ==
    [q |-> queue_init,
     reserved_size |-> 0,
     last_id |-> NO_ID,
     reservations |-> [i \in Ids |-> NoReservation],
     has_xattrs |-> FALSE,
     xattrs |-> [i \in Ids |-> NoReservation]]

-----------------------------------------------------------------------------
(* Methods *)

\* Fault: the smallest unused-looking id, counted from the pending ones.
NextIdFromPending(o) == (Cardinality(Pending(o.reservations)) + 1) % IdMod

NextId(o) == (o.last_id + 1) % IdMod

\* The urgent data with one more reservation exceed their share of the head.
Spills(o) == Cardinality(Pending(o.reservations)) + 1 > UrgentMax

\* Fault: the overhead of the entries is not checked.
ReserveRetWithoutOverhead(o, size, entries) ==
    CASE size = 0 \/ entries = 0 -> EINVAL
      [] size > 0 /\ entries > 0 /\ size + o.reserved_size > RemainingSize(o.q) -> ENOSPC
      [] OTHER -> IF NextId(o) \in Pending(o.reservations)
                     \/ (Spills(o) /\ NextId(o) \in Pending(o.xattrs))
                  THEN EAGAIN ELSE OK

\* The checks of a reservation, in their order.
ReserveRet(o, size, entries) ==
    CASE size = 0 \/ entries = 0 -> EINVAL
      [] size > 0 /\ entries > 0
             /\ size + o.reserved_size + entries * EntryOverhead > RemainingSize(o.q) -> ENOSPC
      [] OTHER ->
           IF \/ NextId(o) \in Pending(o.reservations)
              \/ Spills(o) /\ NextId(o) \in Pending(o.xattrs)
           THEN EAGAIN
           ELSE OK

cls_2pc_queue_reserve(o, size, entries, now) ==
    LET ret == ReserveRet(o, size, entries)
        new == [size |-> size, timestamp |-> now]
        granted == [o EXCEPT !.last_id = NextId(o),
                             !.reserved_size = @ + size + entries * EntryOverhead]
    IN  [ret |-> ret,
         id  |-> IF ret = OK THEN NextId(o) ELSE NO_ID,
         obj |-> IF ret # OK THEN o
                 ELSE IF Spills(o)
                      THEN [granted EXCEPT !.xattrs[NextId(o)] = new, !.has_xattrs = TRUE]
                      ELSE [granted EXCEPT !.reservations[NextId(o)] = new]]

\* Where commit and abort find a reservation: the attribute is looked at only if
\* a reservation was ever spilled.
InHead(o, id) == id \in Pending(o.reservations)
InXattrs(o, id) == ~InHead(o, id) /\ o.has_xattrs /\ id \in Pending(o.xattrs)
SizeOf(o, id) == IF InHead(o, id) THEN o.reservations[id].size ELSE o.xattrs[id].size

\* Fault: the overhead of two entries is given back with a reservation.
ReleaseTooMuch(o, id) ==
    [o EXCEPT !.reserved_size = @ - SizeOf(o, id) - 2 * EntryOverhead,
              !.reservations[id] = IF InHead(o, id) THEN NoReservation ELSE @,
              !.xattrs[id] = IF InHead(o, id) THEN @ ELSE NoReservation]

\* The reservation is dropped and its size, without the overhead that was added
\* when it was made, is given back.
Release(o, id) ==
    LET less == [o EXCEPT !.reserved_size = @ - SizeOf(o, id)]
    IN  IF InHead(o, id)
        THEN [less EXCEPT !.reservations[id] = NoReservation]
        ELSE [less EXCEPT !.xattrs[id] = NoReservation]

DataSize(es) == IF Len(es) = 1 THEN es[1].size ELSE es[1].size + es[2].size

\* Fault: the entries are written by an operation of their own, before the one that
\* looks up the reservation, so they stay when that one fails.
CommitWritesFirst(o, id, es) ==
    LET r == queue_enqueue(o.q, es)
    IN  CASE ~InHead(o, id) /\ ~InXattrs(o, id) -> [ret |-> ENOENT, obj |-> [o EXCEPT !.q = r.q]]
          [] (InHead(o, id) \/ InXattrs(o, id)) /\ SizeOf(o, id) < DataSize(es) ->
                 [ret |-> EINVAL, obj |-> o]
          [] OTHER ->
                 [ret |-> r.ret,
                  obj |-> IF r.ret = OK THEN [Release(o, id) EXCEPT !.q = r.q] ELSE o]

cls_2pc_queue_commit(o, id, es) ==
    LET r == queue_enqueue(o.q, es)
    IN  CASE ~InHead(o, id) /\ ~InXattrs(o, id) -> [ret |-> ENOENT, obj |-> o]
          [] (InHead(o, id) \/ InXattrs(o, id)) /\ SizeOf(o, id) < DataSize(es) ->
                 [ret |-> EINVAL, obj |-> o]
          [] OTHER ->
                 [ret |-> r.ret,
                  obj |-> IF r.ret = OK THEN [Release(o, id) EXCEPT !.q = r.q] ELSE o]

cls_2pc_queue_abort(o, id) ==
    [ret |-> OK,
     obj |-> IF InHead(o, id) \/ InXattrs(o, id) THEN Release(o, id) ELSE o]

\* Both maps, as the class reports them.
cls_2pc_queue_list_reservations(o) ==
    [i \in Ids |-> IF InHead(o, i) \/ ~o.has_xattrs THEN o.reservations[i] ELSE o.xattrs[i]]

\* Fault: a reservation is stale at the very end of the period.
StaleInOrAt(map, stale_time) == {i \in Pending(map) : map[i].timestamp <= stale_time}

StaleIn(map, stale_time) == {i \in Pending(map) : map[i].timestamp < stale_time}
SizeSum(map, ids) == MapThenSumSet(LAMBDA i : map[i].size, ids)
Without(map, ids) == [i \in Ids |-> IF i \in ids THEN NoReservation ELSE map[i]]

\* Fault: only the reservations in the head are expired.
ExpireInHead(o, stale_time) ==
    LET head == StaleIn(o.reservations, stale_time)
    IN  [ret |-> OK,
         obj |-> [o EXCEPT !.reservations = Without(@, head),
                           !.reserved_size = @ - SizeSum(o.reservations, head)]]

\* Fault: the size is given back, the reservation stays.
ExpireWithoutErase(o, stale_time) ==
    LET head == StaleIn(o.reservations, stale_time)
    IN  [ret |-> OK, obj |-> [o EXCEPT !.reserved_size = @ - SizeSum(o.reservations, head)]]

cls_2pc_queue_expire_reservations(o, stale_time) ==
    LET head  == StaleIn(o.reservations, stale_time)
        xattr == IF o.has_xattrs THEN StaleIn(o.xattrs, stale_time) ELSE {}
    IN  [ret |-> OK,
         obj |-> [o EXCEPT !.reservations = Without(@, head),
                           !.xattrs = Without(@, xattr),
                           !.reserved_size = @ - SizeSum(o.reservations, head)
                                               - SizeSum(o.xattrs, xattr)]]

cls_2pc_queue_list_entries(o, start, max) == queue_list_entries(o.q, start, max)

cls_2pc_queue_remove_entries(o, end) ==
    LET r == queue_remove_entries(o.q, end)
    IN  [ret |-> r.ret, obj |-> [o EXCEPT !.q = r.q]]
=============================================================================
