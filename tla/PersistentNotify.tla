-------------------------- MODULE PersistentNotify --------------------------
(***************************************************************************)
(* Persistent bucket notifications (rgw/rgw_notify.cc) on one topic's      *)
(* queue object: requests of any gateway reserve room in the queue before  *)
(* they change an object and commit the notification afterwards; in every  *)
(* gateway a Manager competes for the queue's lock, and the owner delivers *)
(* the queued notifications and removes them; the topic's queue is created *)
(* and deleted meanwhile.  The queue object carries the two-phase commit   *)
(* queue and the advisory lock; a RADOS operation is atomic on it.         *)
(*                                                                         *)
(* Time is relative.  A reservation is young or stale, a lock is live or   *)
(* lapsed, and separate actions let the time pass that makes it so.        *)
(***************************************************************************)
EXTENDS TwoPCQueue

CONSTANTS
    StartOffsets,        \* where the ring of the queue, used and drained before, stands
    Daemons,             \* managers; each has a random lock cookie of its own
    Publishers,          \* requests, one notification each; positive numbers
    LargeEvents,         \* the ones whose notification exceeds the default reservation
    DefaultReservation,  \* bytes reserved before the notification is known
    SmallSize, LargeSize,\* encoded notification
    MaxElements,         \* entries listed at a time
    Admins,              \* topic creations and deletions in progress
    MaxTopicOps,         \* bound: topic operations in a behaviour
    MaxLapses,           \* bound: locks that lapse although their owner is up
    MaxDisturbances,     \* bound: topic operations and such lapses together
    MaxCrashes           \* bound: managers, requests and topic operations that die

ASSUME NotifyConstants ==
    /\ StartOffsets \subseteq Offset
    /\ Publishers \subseteq Nat \ {0}
    /\ LargeEvents \subseteq Publishers
    /\ SmallSize \in 1 .. DefaultReservation
    /\ LargeSize \in Nat /\ LargeSize > DefaultReservation
    /\ MaxElements \in Nat \ {0}
    /\ MaxTopicOps \in Nat /\ MaxLapses \in Nat /\ MaxDisturbances \in Nat /\ MaxCrashes \in Nat

Lk == INSTANCE ClsLock WITH
          Entities <- Daemons, Cookies <- {"cookie"}, Tags <- {"no tag"}

VARIABLES
    queue,     \* the queue object: exists, 2pc queue, lock, and how often created
    listed,    \* the topic is a key of queues_list_object
    mgr,       \* per daemon, where process_queues is: asleep, about to lock, down
    owned,     \* per daemon: the topic is in owned_queues
    queue_gc,  \* per daemon: the topic is in queue_gc
    proc,      \* per daemon: the coroutine process_queue
    cleaners,  \* per daemon: running coroutines cleanup_queue
    pub,       \* per request: progress and reservation id
    admin,     \* per topic operation: progress
    acked,     \* auxiliary: notifications the endpoint acknowledged
    deleted,   \* auxiliary: notifications deleted together with their queue
    overshot,  \* auxiliary: an end marker covered entries it should not
    topicOps, lapses, crashes   \* counters for the bounds

daemonVars == <<mgr, owned, queue_gc, proc, cleaners>>
auxVars    == <<acked, deleted, overshot>>
boundVars  == <<topicOps, lapses, crashes>>
vars == <<queue, listed, daemonVars, pub, admin, auxVars, boundVars>>

-----------------------------------------------------------------------------
(* The queue object *)

Young == 1
Stale == 0

\* The OSD's clock stands still at 2: a lock is granted until 3 and has lapsed when
\* the time left has made that 1.
LockNow == 2
FailoverTime == 1
LapsedEnd == 1

Locker(d) == <<d, "cookie">>
NewQueue == [exists |-> TRUE, tpc |-> cls_2pc_queue_init,
             lk |-> Lk!Unlocked(TRUE), inc |-> 1]

\* assert_exists and assert_locked, which precede the daemon's queue operations.
CheckOwner(d) ==
    IF ~queue.exists THEN ENOENT
    ELSE Lk!assert_locked(queue.lk, LockNow, Locker(d), "exclusive", "no tag")

\* The notifications in the queue.
Queued ==
    IF queue.exists THEN {queue.tpc.q.data[o].id : o \in Live(queue.tpc.q)} ELSE {}

Idle == [pc |-> "off", batch |-> <<>>, status |-> <<>>, end |-> NoMarker, inc |-> 0]

Init ==
    /\ \E start \in StartOffsets :
           LET drained == [gen |-> 0, offset |-> start]
           IN  queue = [NewQueue EXCEPT !.tpc.q.front = drained, !.tpc.q.tail = drained]
    /\ listed = TRUE
    /\ mgr = [d \in Daemons |-> "sleep"]
    /\ owned = [d \in Daemons |-> FALSE]
    /\ queue_gc = [d \in Daemons |-> FALSE]
    /\ proc = [d \in Daemons |-> Idle]
    /\ cleaners = [d \in Daemons |-> 0]
    /\ pub = [p \in Publishers |-> [pc |-> "idle", id |-> NO_ID]]
    /\ admin = [a \in Admins |-> "idle"]
    /\ acked = {} /\ deleted = {} /\ overshot = FALSE
    /\ topicOps = 0 /\ lapses = 0 /\ crashes = 0

-----------------------------------------------------------------------------
(* Requests: publish_reserve, publish_commit, publish_abort *)

EventSize(p) == IF p \in LargeEvents THEN LargeSize ELSE SmallSize

\* A reservation of size bytes for one entry on the queue object, if it exists.
Reserve(size) ==
    IF queue.exists
    THEN cls_2pc_queue_reserve(queue.tpc, size, 1, Young)
    ELSE [ret |-> ENOENT, id |-> NO_ID, obj |-> queue.tpc]

SetPub(p, pc, id) == pub' = [pub EXCEPT ![p] = [pc |-> pc, id |-> id]]

\* Before the request does its work; if this fails the request is refused.
publish_reserve(p) ==
    /\ pub[p].pc = "idle"
    /\ LET r == Reserve(DefaultReservation)
       IN  /\ queue' = [queue EXCEPT !.tpc = r.obj]
           /\ SetPub(p, IF r.ret = OK THEN "reserved" ELSE "refused", r.id)
    /\ UNCHANGED <<listed, daemonVars, admin, auxVars, boundVars>>

\* The commit itself, by a request that has room for its notification.  Whatever the
\* result, the request forgets its reservation.
CommitEvent(p) ==
    LET r == IF queue.exists
             THEN cls_2pc_queue_commit(queue.tpc, pub[p].id,
                                       <<[id |-> p, size |-> EventSize(p)]>>)
             ELSE [ret |-> ENOENT, obj |-> queue.tpc]
    IN  /\ queue' = [queue EXCEPT !.tpc = r.obj]
        /\ SetPub(p, IF r.ret = OK THEN "committed" ELSE "lost", NO_ID)
        /\ UNCHANGED <<listed, daemonVars, admin, auxVars, boundVars>>

\* After the request did its work.  Without a reservation id there is nothing to do.
publish_commit(p) ==
    /\ pub[p].pc = "reserved"
    /\ IF pub[p].id = NO_ID
       THEN /\ SetPub(p, "lost", NO_ID)
            /\ UNCHANGED <<queue, listed, daemonVars, admin, auxVars, boundVars>>
       ELSE EventSize(p) <= DefaultReservation /\ CommitEvent(p)

\* A larger notification: the reservation is aborted, then a larger one is made, then
\* that one is committed, in three operations.
AbortSmaller(p) ==
    /\ pub[p].pc = "reserved"
    /\ pub[p].id # NO_ID
    /\ EventSize(p) > DefaultReservation
    /\ IF queue.exists
       THEN /\ queue' = [queue EXCEPT !.tpc = cls_2pc_queue_abort(@, pub[p].id).obj]
            /\ SetPub(p, "growing", pub[p].id)
       ELSE /\ SetPub(p, "aborting", pub[p].id)
            /\ UNCHANGED queue
    /\ UNCHANGED <<listed, daemonVars, admin, auxVars, boundVars>>

ReserveLarger(p) ==
    /\ pub[p].pc = "growing"
    /\ LET r == Reserve(EventSize(p))
       IN  /\ queue' = [queue EXCEPT !.tpc = r.obj]
           /\ IF r.ret = OK THEN SetPub(p, "grown", r.id)
                            ELSE SetPub(p, "aborting", pub[p].id)
    /\ UNCHANGED <<listed, daemonVars, admin, auxVars, boundVars>>

CommitLarger(p) == pub[p].pc = "grown" /\ CommitEvent(p)

\* The request failed, or its reservation_t is destroyed without a commit.
publish_abort(p) ==
    /\ pub[p].pc \in {"reserved", "aborting"}
    /\ IF queue.exists /\ pub[p].id # NO_ID
       THEN queue' = [queue EXCEPT !.tpc = cls_2pc_queue_abort(@, pub[p].id).obj]
       ELSE UNCHANGED queue
    /\ SetPub(p, "refused", NO_ID)
    /\ UNCHANGED <<listed, daemonVars, admin, auxVars, boundVars>>

\* The gateway dies and leaves the reservation, if there is one, behind.
CrashRequest(p) ==
    /\ pub[p].pc \in {"reserved", "growing", "grown", "aborting"}
    /\ crashes < MaxCrashes
    /\ crashes' = crashes + 1
    /\ SetPub(p, "dead", pub[p].id)
    /\ UNCHANGED <<queue, listed, daemonVars, admin, auxVars, topicOps, lapses>>

-----------------------------------------------------------------------------
(* The Manager: process_queues takes and renews ownership *)

\* Fault: the lock is taken for ever.
LockRequestForever(d) ==
    Lk!lock_obj(queue.lk, LockNow, Locker(d), "exclusive", "no tag", 0, "may_renew")

\* The owner's lock on the queue, or its renewal.
LockRequest(d) ==
    Lk!lock_obj(queue.lk, LockNow, Locker(d), "exclusive", "no tag", FailoverTime, "may_renew")

\* Fault: a queue is forgotten when its lock was not granted, although its processing
\* has not ended.
CollectedUnlocked(d, isOwned) == [owned EXCEPT ![d] = isOwned /\ LockRequest(d).ret = OK]

\* End of a round: the queues whose processing ended are owned no more.
Collected(d, isOwned) == [owned EXCEPT ![d] = isOwned /\ ~queue_gc[d]]

\* The timer fired and the list of queues is read; a round without the topic ends.
read_queue_list(d) ==
    /\ mgr[d] = "sleep"
    /\ IF listed
       THEN mgr' = [mgr EXCEPT ![d] = "lock"] /\ UNCHANGED <<owned, queue_gc>>
       ELSE /\ owned' = Collected(d, owned[d])
            /\ queue_gc' = [queue_gc EXCEPT ![d] = FALSE]
            /\ UNCHANGED mgr
    /\ UNCHANGED <<queue, listed, proc, cleaners, pub, admin, auxVars, boundVars>>

\* The queue is locked or the lock renewed; a queue that is not owned yet gets its two
\* coroutines.  A queue that is deleted or locked by another daemon is left alone.
process_queues(d) ==
    LET r      == LockRequest(d)
        locked == queue.exists /\ r.ret = OK
        start  == locked /\ ~owned[d]
    IN  /\ mgr[d] = "lock"
        /\ mgr' = [mgr EXCEPT ![d] = "sleep"]
        /\ queue' = IF locked THEN [queue EXCEPT !.lk = r.lk] ELSE queue
        /\ proc' = IF start THEN [proc EXCEPT ![d] = [Idle EXCEPT !.pc = "list"]] ELSE proc
        /\ cleaners' = IF start THEN [cleaners EXCEPT ![d] = @ + 1] ELSE cleaners
        /\ owned' = Collected(d, owned[d] \/ start)
        /\ queue_gc' = [queue_gc EXCEPT ![d] = FALSE]
        /\ UNCHANGED <<listed, pub, admin, auxVars, boundVars>>

-----------------------------------------------------------------------------
(* The Manager: process_queue delivers the notifications *)

\* Fault: the queue is not handed to queue_gc.
StopUncollected(d) ==
    /\ proc' = [proc EXCEPT ![d] = Idle]
    /\ UNCHANGED queue_gc

\* The coroutine ends when the queue is gone or owned by another daemon.
StopProcessing(d) ==
    /\ proc' = [proc EXCEPT ![d] = Idle]
    /\ queue_gc' = [queue_gc EXCEPT ![d] = TRUE]

\* Check the ownership and list the first entries in one operation.
ListEntries(d) ==
    /\ proc[d].pc = "list"
    /\ IF CheckOwner(d) \in {ENOENT, EBUSY}
       THEN StopProcessing(d)
       ELSE \E r \in {cls_2pc_queue_list_entries(queue.tpc, NoMarker, MaxElements)} :
               /\ proc' = IF r.ret # OK \/ r.entries = <<>>
                          THEN proc
                          ELSE [proc EXCEPT ![d] = [pc |-> "spawn", batch |-> r.entries,
                                                    status |-> <<>>, end |-> r.next,
                                                    inc |-> queue.inc]]
               /\ UNCHANGED queue_gc
    /\ UNCHANGED <<queue, listed, mgr, owned, cleaners, pub, admin, auxVars, boundVars>>

\* "set m1 to be the minimum between m1 and m2"
set_min_marker(m1, m2) == IF m2.gen <= m1.gen /\ m2.offset < m1.offset THEN m2 ELSE m1

\* Fault: a failed entry does not lower the end marker.
EndAfterUnmoved(d, i, outcome) == proc[d].end

\* The outcome of pushing entry i, sent or answered: the end marker of the removal is
\* lowered to an entry that failed.
EndAfter(d, i, outcome) ==
    IF outcome = "fail" THEN set_min_marker(proc[d].end, proc[d].batch[i].marker)
                        ELSE proc[d].end

\* An entry that failed in another lap than the end marker is not noticed by
\* set_min_marker; overshot records that.
process_entry(d, i, outcome) ==
    /\ acked' = IF outcome = "ok" THEN acked \cup {proc[d].batch[i].id} ELSE acked
    /\ overshot' = (overshot \/ (outcome = "fail"
                                  /\ proc[d].batch[i].marker.gen # proc[d].end.gen))
    /\ UNCHANGED deleted

\* The coroutines of the entries are started in order and each runs until it has to
\* wait; one that fails right away stops the loop.
SpawnEntry(d, outcome) ==
    LET i == Len(proc[d].status) + 1
    IN  /\ proc[d].pc = "spawn"
        /\ proc' = [proc EXCEPT ![d].status = Append(@, outcome),
                                ![d].end = EndAfter(d, i, outcome),
                                ![d].pc = IF outcome = "fail" \/ i = Len(proc[d].batch)
                                          THEN "wait" ELSE "spawn"]
        /\ process_entry(d, i, outcome)
        /\ UNCHANGED <<queue, listed, mgr, owned, queue_gc, cleaners, pub, admin, boundVars>>

\* The endpoint's answer for an entry arrives, or a timeout.
EntryAnswered(d, i, outcome) ==
    /\ proc[d].pc = "wait"
    /\ i \in 1 .. Len(proc[d].status)
    /\ proc[d].status[i] = "pending"
    /\ proc' = [proc EXCEPT ![d].status[i] = outcome, ![d].end = EndAfter(d, i, outcome)]
    /\ process_entry(d, i, outcome)
    /\ UNCHANGED <<queue, listed, mgr, owned, queue_gc, cleaners, pub, admin, boundVars>>

\* Nothing is pending any more.  If anything was delivered, check the ownership and
\* remove the entries up to the end marker in one operation.
RemoveEntries(d) ==
    /\ proc[d].pc = "wait"
    /\ \A i \in 1 .. Len(proc[d].status) : proc[d].status[i] # "pending"
    /\ IF \A i \in 1 .. Len(proc[d].status) : proc[d].status[i] # "ok"
       THEN /\ proc' = [proc EXCEPT ![d] = [Idle EXCEPT !.pc = "list"]]
            /\ UNCHANGED <<queue, queue_gc, overshot>>
       ELSE IF CheckOwner(d) \in {ENOENT, EBUSY}
            THEN StopProcessing(d) /\ UNCHANGED <<queue, overshot>>
            ELSE /\ queue' = [queue EXCEPT
                       !.tpc = cls_2pc_queue_remove_entries(@, proc[d].end).obj]
                 /\ proc' = [proc EXCEPT ![d] = [Idle EXCEPT !.pc = "list"]]
                 /\ overshot' = (overshot \/ proc[d].inc # queue.inc)
                 /\ UNCHANGED queue_gc
    /\ UNCHANGED <<listed, mgr, owned, cleaners, pub, admin, acked, deleted, boundVars>>

\* Check the ownership and expire stale reservations in one operation.
cleanup_queue(d) ==
    /\ cleaners[d] > 0
    /\ IF CheckOwner(d) \in {ENOENT, EBUSY}
       THEN cleaners' = [cleaners EXCEPT ![d] = @ - 1] /\ UNCHANGED queue
       ELSE /\ queue' = [queue EXCEPT
                  !.tpc = cls_2pc_queue_expire_reservations(@, Young).obj]
            /\ UNCHANGED cleaners
    /\ UNCHANGED <<listed, mgr, owned, queue_gc, proc, pub, admin, auxVars, boundVars>>

\* A gateway dies, not the last one; its lock stays until it lapses.  It comes back as
\* another member of Daemons, with another cookie.
CrashDaemon(d) ==
    /\ mgr[d] # "down"
    /\ \E other \in Daemons \ {d} : mgr[other] # "down"
    /\ crashes < MaxCrashes
    /\ crashes' = crashes + 1
    /\ mgr' = [mgr EXCEPT ![d] = "down"]
    /\ owned' = [owned EXCEPT ![d] = FALSE]
    /\ queue_gc' = [queue_gc EXCEPT ![d] = FALSE]
    /\ proc' = [proc EXCEPT ![d] = Idle]
    /\ cleaners' = [cleaners EXCEPT ![d] = 0]
    /\ UNCHANGED <<queue, listed, pub, admin, auxVars, topicOps, lapses>>

-----------------------------------------------------------------------------
(* Time *)

\* The failover time passes without a renewal: because the owner is down, or (bounded)
\* because it is slow.
LockLapses(d) ==
    /\ queue.exists
    /\ queue.lk.lockers[Locker(d)] = LockNow + FailoverTime
    /\ mgr[d] = "down" \/ (lapses < MaxLapses /\ topicOps + lapses < MaxDisturbances)
    /\ queue' = [queue EXCEPT !.lk.lockers[Locker(d)] = LapsedEnd]
    /\ lapses' = IF mgr[d] = "down" THEN lapses ELSE lapses + 1
    /\ UNCHANGED <<listed, daemonVars, pub, admin, auxVars, topicOps, crashes>>

\* The stale period passes: the reservations made so far become stale.
Aged(map) == [i \in Ids |-> IF map[i].size > 0 THEN [map[i] EXCEPT !.timestamp = Stale] ELSE map[i]]
YoungReservations == StaleIn(cls_2pc_queue_list_reservations(queue.tpc), Young + 1)
                         \ StaleIn(cls_2pc_queue_list_reservations(queue.tpc), Young)
StalePeriodPasses ==
    /\ queue.exists /\ YoungReservations # {}
    /\ queue' = [queue EXCEPT !.tpc.reservations = Aged(@), !.tpc.xattrs = Aged(@)]
    /\ UNCHANGED <<listed, daemonVars, pub, admin, auxVars, boundVars>>

-----------------------------------------------------------------------------
(* Topics: the queue object and the list of queues are changed one after the other *)

SetAdmin(a, pc) == admin' = [admin EXCEPT ![a] = pc]

\* Create the queue; one that exists already is taken to be listed, too.
add_persistent_topic(a) ==
    /\ admin[a] = "idle"
    /\ topicOps < MaxTopicOps /\ topicOps + lapses < MaxDisturbances
    /\ topicOps' = topicOps + 1
    /\ IF queue.exists
       THEN UNCHANGED <<queue, admin>>
       ELSE /\ queue' = [NewQueue EXCEPT !.inc = queue.inc + 1]
            /\ SetAdmin(a, "adding")
    /\ UNCHANGED <<listed, daemonVars, pub, auxVars, lapses, crashes>>

ListTopic(a) ==
    /\ admin[a] = "adding"
    /\ SetAdmin(a, "idle")
    /\ listed' = TRUE
    /\ UNCHANGED <<queue, daemonVars, pub, auxVars, boundVars>>

\* Remove the queue with what it holds; one that is gone already is taken to be
\* unlisted, too.
remove_persistent_topic(a) ==
    /\ admin[a] = "idle"
    /\ topicOps < MaxTopicOps /\ topicOps + lapses < MaxDisturbances
    /\ topicOps' = topicOps + 1
    /\ IF ~queue.exists
       THEN UNCHANGED <<queue, admin, deleted>>
       ELSE /\ queue' = [NewQueue EXCEPT !.exists = FALSE, !.inc = queue.inc]
            /\ SetAdmin(a, "removing")
            /\ deleted' = deleted \cup Queued
    /\ UNCHANGED <<listed, daemonVars, pub, acked, overshot, lapses, crashes>>

UnlistTopic(a) ==
    /\ admin[a] = "removing"
    /\ SetAdmin(a, "idle")
    /\ listed' = FALSE
    /\ UNCHANGED <<queue, daemonVars, pub, auxVars, boundVars>>

\* The gateway dies, or the list cannot be written, between the two steps.
CrashAdmin(a) ==
    /\ admin[a] \in {"adding", "removing"}
    /\ crashes < MaxCrashes
    /\ crashes' = crashes + 1
    /\ SetAdmin(a, "idle")
    /\ UNCHANGED <<queue, listed, daemonVars, pub, auxVars, topicOps, lapses>>

-----------------------------------------------------------------------------
Request(p) ==
    \/ publish_reserve(p) \/ publish_commit(p) \/ publish_abort(p)
    \/ AbortSmaller(p) \/ ReserveLarger(p) \/ CommitLarger(p)

Entries == 1 .. MaxElements
Answers == {"ok", "fail"}

\* What the coroutines of a Manager do by themselves.  How a push ends is up to the
\* endpoint.
ProcessQueue(d) ==
    \/ ListEntries(d)
    \/ \E outcome \in Answers \cup {"pending"} : SpawnEntry(d, outcome)
    \/ \E i \in Entries, outcome \in Answers : EntryAnswered(d, i, outcome)
    \/ RemoveEntries(d)
ProcessQueues(d) == read_queue_list(d) \/ process_queues(d)

Topic(a) ==
    \/ add_persistent_topic(a) \/ ListTopic(a)
    \/ remove_persistent_topic(a) \/ UnlistTopic(a)

Next ==
    \/ \E p \in Publishers : Request(p) \/ CrashRequest(p)
    \/ \E d \in Daemons :
           ProcessQueues(d) \/ ProcessQueue(d) \/ cleanup_queue(d) \/ CrashDaemon(d) \/ LockLapses(d)
    \/ \E a \in Admins : Topic(a) \/ CrashAdmin(a)
    \/ StalePeriodPasses

Spec == Init /\ [][Next]_vars

\* A push of notification p succeeds.
Delivered(p) ==
    \E d \in Daemons :
        \/ /\ Len(proc[d].status) < Len(proc[d].batch)
           /\ proc[d].batch[Len(proc[d].status) + 1].id = p
           /\ SpawnEntry(d, "ok")
        \/ \E i \in Entries :
               /\ i \in 1 .. Len(proc[d].batch) /\ proc[d].batch[i].id = p
               /\ EntryAnswered(d, i, "ok")

\* The coroutines of a gateway that is up run, because they only wait for timers,
\* RADOS and the endpoint; a lock whose owner is down lapses and reservations age,
\* because time passes; and an endpoint that is asked again and again to accept a
\* notification does so in the end.
Fairness ==
    /\ \A d \in Daemons :
           /\ WF_vars(ProcessQueues(d))
           /\ WF_vars(ProcessQueue(d))
           /\ WF_vars(cleanup_queue(d))
           /\ WF_vars(mgr[d] = "down" /\ LockLapses(d))
    /\ WF_vars(StalePeriodPasses)
    /\ \A p \in Publishers : SF_vars(Delivered(p))

FairSpec == Spec /\ Fairness

-----------------------------------------------------------------------------
\* The state has its type.
TypeOK ==
    /\ queue \in [exists : BOOLEAN, tpc : Object, lk : Lk!LockState, inc : Nat]
    /\ queue.tpc.reserved_size >= 0
    /\ listed \in BOOLEAN
    /\ mgr \in [Daemons -> {"sleep", "lock", "down"}]
    /\ owned \in [Daemons -> BOOLEAN]
    /\ queue_gc \in [Daemons -> BOOLEAN]
    /\ \A d \in Daemons :
           /\ proc[d].pc \in {"off", "list", "spawn", "wait"}
           /\ proc[d].end \in Marker
           /\ Len(proc[d].status) <= Len(proc[d].batch)
           /\ Len(proc[d].batch) <= MaxElements
    /\ cleaners \in [Daemons -> Nat]
    /\ pub \in [Publishers ->
                   [pc : {"idle", "reserved", "growing", "grown", "aborting",
                          "committed", "lost", "refused", "dead"}, id : Ids]]
    /\ admin \in [Admins -> {"idle", "adding", "removing"}]
    /\ acked \subseteq Publishers
    /\ deleted \subseteq Publishers
    /\ overshot \in BOOLEAN
    /\ topicOps \in 0 .. MaxTopicOps /\ lapses \in 0 .. MaxLapses /\ crashes \in 0 .. MaxCrashes

Committed == {p \in Publishers : pub[p].pc = "committed"}

\* A committed notification is in the queue until the endpoint acknowledged it or the
\* topic was deleted, whoever owns the queue, loses it or dies in the middle of a
\* batch.
NoLoss == ~overshot => Committed \subseteq Queued \cup acked \cup deleted

\* The same without the excuse: "it will be retried until successfully acked"
\* (doc/radosgw/notifications.rst:46).
RetriedUntilAcked == Committed \subseteq Queued \cup acked \cup deleted

\* Whatever the endpoint is asked to accept, and thus whatever is acknowledged, was
\* committed by its request: nothing reserved, aborted or torn is delivered.
OnlyCommittedDelivered == acked \subseteq Committed

\* A daemon runs at most one process_queue for a queue: it starts none while it still
\* has one, because the topic stays in owned_queues until that one has ended.
OneProcessor == \A d \in Daemons : proc[d].pc # "off" => owned[d]

\* Two requests never hold the same reservation: a commit or an abort settles the
\* request's own reservation, also when it comes after that one expired.  (Ids start
\* again when the queue is created anew, hence the first incarnation only.)
NoSharedReservation ==
    queue.inc = 1 =>
        \A p, r \in Publishers :
            p # r /\ pub[p].id = pub[r].id /\ pub[p].id # NO_ID =>
                ~InHead(queue.tpc, pub[p].id) /\ ~InXattrs(queue.tpc, pub[p].id)

\* Topic operations have left a queue that no manager looks at (rgw_notify.cc:523, 533).
Unlisted == queue.exists /\ ~listed

\* While a gateway is up, committed notifications are delivered in the end, whoever
\* dies, loses the lock or deletes and creates the topic meanwhile, unless the queue
\* stays unlisted.
EventuallyAcked ==
    \A p \in Publishers :
        \/ pub[p].pc = "committed" ~> (p \in acked \cup deleted \/ overshot)
        \/ <>[]Unlisted

\* The queue holds a reservation with the id that p got.
Reserved(p) ==
    queue.exists /\ (InHead(queue.tpc, pub[p].id) \/ InXattrs(queue.tpc, pub[p].id))

\* Somebody else's failure does not keep room reserved: "cleanup reservations that are
\* more than 2 minutes old" (rgw_notify.cc:583).
StaleReservationsExpire ==
    \A p \in Publishers : pub[p].pc = "dead" ~> ~Reserved(p)

\* A manager processes the queue without cleanup_queue, which a lapse has ended
\* (rgw_notify.cc:219).
Uncleaned == \E d \in Daemons : proc[d].pc # "off" /\ cleaners[d] = 0

\* A request that died keeps no room reserved, whichever managers lose the queue, end
\* their coroutines and start them again, unless the queue stays unlisted or its
\* manager goes on without cleanup_queue for good.
ReservationsReleased ==
    \A p \in Publishers :
        \/ pub[p].pc = "dead" ~> ~Reserved(p)
        \/ <>[]Unlisted
        \/ <>[]Uncleaned
=============================================================================
