----------------------------- MODULE TwoPCClass -----------------------------
(***************************************************************************)
(* The two-phase commit queue under arbitrary clients: anybody reserves,   *)
(* commits or aborts with an id that was handed out (again, or after the   *)
(* reservation expired, too), consumers remove what they listed, and a     *)
(* cleaner expires old reservations.  Time passes between the calls.       *)
(***************************************************************************)
EXTENDS TwoPCQueue

CONSTANTS
    ReserveSizes,   \* bytes asked for by a reservation
    EntrySizes,     \* data bytes of a committed entry
    VectorLengths,  \* entries of one commit, and of one reservation
    StalePeriod,    \* age at which a reservation may be expired
    MaxTime,        \* bound on the clock
    MaxReserved,    \* bound: reservations granted in a behaviour
    MaxIssued       \* bound: entries committed in a behaviour

ASSUME TwoPCClassConstants ==
    /\ ReserveSizes \subseteq Nat
    /\ EntrySizes \subseteq Nat
    /\ VectorLengths \subseteq 1 .. MaxVector
    /\ StalePeriod \in Nat
    /\ MaxTime \in Nat
    /\ MaxReserved \in Nat
    /\ MaxIssued \in Nat

VARIABLES
    obj,        \* the queue object
    marker,     \* what a consumer kept of its last listing, or NoMarker
    now,        \* the clock of the OSD
    issued,     \* entries committed so far; their identities are 1 .. issued
    granted,    \* reservations granted so far
    grants,     \* auxiliary: the unresolved grants, id -> size and entries
    fullGrant   \* auxiliary: a reservation was granted on a full ring

vars == <<obj, marker, now, issued, granted, grants, fullGrant>>

NoGrant == [size |-> 0, entries |-> 0, timestamp |-> 0]
Granted == {i \in Ids : grants[i].size > 0}

Init ==
    /\ obj = cls_2pc_queue_init
    /\ marker = NoMarker
    /\ now = 0
    /\ issued = 0
    /\ granted = 0
    /\ grants = [i \in Ids |-> NoGrant]
    /\ fullGrant = FALSE

Reserve(size, entries) ==
    LET r == cls_2pc_queue_reserve(obj, size, entries, now)
    IN  /\ granted < MaxReserved
        /\ obj' = r.obj
        /\ granted' = IF r.ret = OK THEN granted + 1 ELSE granted
        /\ grants' = IF r.ret = OK
                     THEN [grants EXCEPT ![r.id] = [size |-> size, entries |-> entries,
                                                    timestamp |-> now]]
                     ELSE grants
        /\ fullGrant' = (fullGrant \/ (r.ret = OK /\ IsFull(obj.q)))
        /\ UNCHANGED <<marker, now, issued>>

NewEntries(ss) == [i \in 1 .. Len(ss) |-> [id |-> issued + i, size |-> ss[i]]]

Commit(id, ss) ==
    LET r == cls_2pc_queue_commit(obj, id, NewEntries(ss))
    IN  /\ issued + Len(ss) <= MaxIssued
        /\ obj' = r.obj
        /\ issued' = IF r.ret = OK THEN issued + Len(ss) ELSE issued
        /\ grants' = IF r.ret = OK THEN [grants EXCEPT ![id] = NoGrant] ELSE grants
        /\ UNCHANGED <<marker, now, granted, fullGrant>>

Abort(id) ==
    /\ obj' = cls_2pc_queue_abort(obj, id).obj
    /\ grants' = [grants EXCEPT ![id] = NoGrant]
    /\ UNCHANGED <<marker, now, issued, granted, fullGrant>>

StaleTime == now - StalePeriod

Expire ==
    /\ obj' = cls_2pc_queue_expire_reservations(obj, StaleTime).obj
    /\ grants' = [i \in Ids |-> IF grants[i].timestamp < StaleTime THEN NoGrant ELSE grants[i]]
    /\ UNCHANGED <<marker, now, issued, granted, fullGrant>>

\* A consumer lists the queue and keeps one of the markers it is given.
List(m) ==
    /\ marker' = m
    /\ UNCHANGED <<obj, now, issued, granted, grants, fullGrant>>

\* It removes the entries up to that marker, which others may have removed meanwhile.
Remove(end) ==
    /\ end # NoMarker
    /\ obj' = cls_2pc_queue_remove_entries(obj, end).obj
    /\ UNCHANGED <<marker, now, issued, granted, grants, fullGrant>>

Tick ==
    /\ now < MaxTime
    /\ now' = now + 1
    /\ UNCHANGED <<obj, marker, issued, granted, grants, fullGrant>>

SizeVectors == UNION {[1 .. n -> EntrySizes] : n \in VectorLengths}

Next ==
    \/ \E size \in ReserveSizes, entries \in VectorLengths : Reserve(size, entries)
    \/ \E id \in Ids, ss \in SizeVectors : Commit(id, ss)
    \/ \E id \in Ids : Abort(id)
    \/ Expire
    \/ \E m \in LiveMarkers(obj.q) : List(m)
    \/ \E end \in LiveMarkers(obj.q) \cup {marker} : Remove(end)
    \/ Tick

Spec == Init /\ [][Next]_vars

-----------------------------------------------------------------------------
\* State has its type; reserved_size, an unsigned integer, never underflows.
TypeOK ==
    /\ obj \in Object
    /\ obj.reserved_size >= 0
    /\ marker \in Marker
    /\ now \in Nat
    /\ issued \in Nat
    /\ granted \in Nat
    /\ grants \in [Ids -> [size : Nat, entries : Nat, timestamp : Nat]]
    /\ fullGrant \in BOOLEAN

\* The head is consistent after every sequence of methods, removals with outdated
\* markers included: the front never passes the tail and the tail never laps the front
\* (single-entry commits).
RingInOneLap == InOneLap(obj.q)

\* The bytes of an entry do not change while it is in the queue: neither commits nor
\* removals, also with outdated markers, touch an entry that stays.
EntriesUntouched ==
    \A o \in Live(obj.q) \cap Live(obj'.q) : obj'.q.data[o] = obj.q.data[o]
EntriesStay == [][EntriesUntouched]_vars

\* No reservation is lost, revived or resized by the spill to the attribute: the
\* class reports exactly the grants that were neither committed, aborted nor
\* expired, each is in one of the two places only, and the attribute is used only
\* if the flag that makes the methods look at it is set.
ReservationsAreGrants ==
    /\ \A i \in Ids : cls_2pc_queue_list_reservations(obj)[i] =
                          [size |-> grants[i].size, timestamp |-> grants[i].timestamp]
    /\ Pending(obj.reservations) \cap Pending(obj.xattrs) = {}
    /\ ~obj.has_xattrs => Pending(obj.xattrs) = {}

\* The bytes the unresolved grants were promised, overhead included.
Promised == MapThenSumSet(LAMBDA i : grants[i].size + grants[i].entries * EntryOverhead, Granted)

\* The accounting never forgets a promise.
ReservedCoversPromises == obj.reserved_size >= Promised

\* The point of reserving: whoever holds an unresolved grant can commit an entry of
\* up to the granted size, whatever the others reserve, commit and remove in
\* between.  (A reservation granted on a full ring breaks this: the class takes
\* equal offsets for an empty ring.)
GrantsAreHonoured ==
    ~fullGrant =>
        /\ Promised <= FreeBytes(obj.q)
        /\ \A i \in Granted, s \in EntrySizes :
               s <= grants[i].size =>
                   cls_2pc_queue_commit(obj, i, <<[id |-> 1, size |-> s]>>).ret = OK

\* A reservation disappears only by a commit or an abort with its id, or when it is
\* older than the stale period; whether the others spill or expire does not matter.
FreshReservationStays ==
    [][\A i \in Granted :
          \/ cls_2pc_queue_list_reservations(obj')[i] = cls_2pc_queue_list_reservations(obj)[i]
          \/ \E ss \in SizeVectors : Commit(i, ss)
          \/ Abort(i)
          \/ grants[i].timestamp + StalePeriod < now]_vars

\* "reserved_size: pending reservations size in bytes"
\* (cls_2pc_queue_types.h:39): without pending reservations nothing is reserved.
ReservedIsPending == Granted = {} => obj.reserved_size = 0
=============================================================================
