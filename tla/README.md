# The RADOS Gateway and the monitors below it: a TLA+ model

CORTX-RGW is the Ceph RADOS Gateway (RGW) in a fork of the Ceph tree.  This project
models the protocols by which its processes share state, in four groups:

1. *Persistent bucket notifications*: the reservation a request makes before it changes an
   object, the queue object it commits the notification to, the advisory lock by which
   gateways agree on who empties the queue, and the manager that delivers and removes.
2. *Tail objects and garbage collection*: what holds the data of an object while it is
   copied, overwritten and deleted, and how the collectors purge what nothing holds.
3. *The bucket index*: how an entry is kept in step with the head object it describes,
   although the two are changed by separate operations.
4. *The monitors*: their elections and the Paxos by which they agree on the maps of the
   cluster that every other part goes by.

Each group crosses pieces of code that are easy to test alone and hard to test together.
The first:

    request ──reserve/commit/abort──▶  queue object  ◀──lock / list / remove / expire── Manager (one per gateway)
                                       cls_2pc_queue                                      │
                                         on cls_queue     ◀──create/delete── topic ops     ▼ push
                                       cls_lock                                          endpoint

## Inventory

| Component | State | Operations | Hard part | What makes it correct |
|---|---|---|---|---|
| `cls/queue` ring buffer | head (front, tail, each an offset and a generation), bytes behind the head | init, enqueue, list, remove, capacity | entries split around the end of the object; full and empty have equal offsets; end markers kept from old listings | it is a bounded FIFO, read through listings; free bytes only are written |
| `cls/2pc_queue` | ring + `reserved_size`, `last_id`, reservations in the head and, when the head is full, in an attribute | reserve, commit, abort, list reservations, expire, list, remove | two places for reservations, id rollover, overhead accounting, late or repeated commit/abort | a granted reservation can be committed; nobody else's is dropped |
| `cls/lock` | lock type, tag, lockers (entity, cookie) with expiration | lock, renew, unlock, break, assert, set cookie, get info | expiry is silent and lazy; ephemeral locks remove the object | exclusiveness; live locks are not lost |
| `rgw_notify` Manager | `owned_queues`, `queue_gc`, coroutines `process_queues`, `process_queue`, `cleanup_queue` per gateway | take/renew ownership, list, push, remove, expire | lock lapses or a gateway dies between any two steps; pushes complete in any order | no committed notification is lost, every one is delivered in the end, stale reservations go |
| `rgw_notify` requests | the reservation a request holds | `publish_reserve`, `publish_commit`, `publish_abort` | a large notification needs three operations; a request slower than the stale period | a request settles only its own reservation |
| `rgw_notify` topics | queue object, key in `queues_list_object` | `add_persistent_topic`, `remove_persistent_topic` | two objects, two operations; markers and ids start again with the new queue | a queue that exists is found by a manager |
| push endpoints | – | push, answer later, fail | – | external |
| tail objects (`rgw_rados`, `cls_refcount`) | head (tag, tail tag, manifest) per name; references and retired tags per tail object | put, copy, copy onto itself, delete; get and put of a reference | the head is read, then replaced; a copy takes its references one by one; a reference may be put twice, late or after a crash | an object has all of its tail; a tail that nobody holds is purged |
| `rgw_gc`, `cls_rgw_gc` | queue of (tag, tail objects) with expiration, lock of the shard | send chain, list expired, put, drain, remove by count | a lease that lapses, a collector that stops or dies with puts on their way | nothing is removed from the queue before its references are put |
| bucket index (`cls_rgw`, `rgw_rados`) | entry (exists, contents, version, pending tags), counters in the header | prepare, complete, cancel, suggest; list and check the head | completions out of order or never, repairs that race with requests | an entry in nobody's doubt tells the truth; the counters match |
| monitor elections (`ElectionLogic`, `Elector`) | stored epoch, role, whom it acked, who acked it, timer | propose, ack, victory, timer, bootstrap | late messages of older epochs, two candidates of one epoch, restarts | at most one leader per epoch is followed by its quorum; nobody waits for ever |
| monitor Paxos (`Paxos`) | stored versions, pending value and number, promise; the round in memory; leases | collect/last, begin/accept, commit, lease, timeouts | elections and crashes in the middle of a round | no two values for one version; leased reads agree |
| `cls_fifo`, `rgw_reshard` | | | | planned, see below |
| lifecycle, multisite, REST, SAL, librados, OSD, MDS and the other daemons | | | | not modelled, reasons in `PROJECT.json` and below |

Interaction: everything shared between gateways is in RADOS objects.  One operation
may carry several class methods (`assert_exists`, `lock::assert_locked`, then the queue
method) and is atomic on its object; what a gateway does between two operations
interleaves with everything else.  Inside a gateway the manager's coroutines run on one
thread and interleave where they wait for RADOS, a timer or an endpoint.  Monitors share
nothing but messages; each handles one at a time under its lock, and only the write of a
commit goes on outside of it.

## Modules

| Module | Models | |
|---|---|---|
| `ClsQueue` | `cls_queue_src.cc` | operators: `queue_init`, `queue_enqueue`, `queue_list_entries`, `queue_remove_entries` on a record with `front`, `tail` and a function from offsets to bytes |
| `QueueClass` | `cls_queue.cc` and its clients | actions enqueue, list (a client keeps a marker), remove (with the marker it kept) |
| `BoundedFifo` | the promise of the queue class | abstract specification, refined by `QueueClass` |
| `TwoPCQueue` | `cls_2pc_queue.cc` | operators, one per method, on top of `ClsQueue` |
| `TwoPCClass` | the 2pc queue object under arbitrary clients | actions Reserve, Commit, Abort, Expire, List, Remove, Tick |
| `ClsLock` | `cls_lock.cc` | operators `lock_obj`, `remove_lock`, `assert_locked`, `set_cookie`, `read_lock` |
| `LockClass` | one lock under arbitrary clients and a clock | actions Lock, Unlock (and break), SetCookie, Tick |
| `PersistentNotify` | `rgw_notify.cc`, composing `TwoPCQueue` and `ClsLock` on one object | requests, managers, topic operations, time, crashes |
| `TailGC` | `rgw_rados.cc` (write, copy, delete), `cls_refcount.cc`, `rgw_gc.cc`, `cls_rgw_gc.cc` | requests, the queue as the FIFO `ClsQueue` implements, collectors, faults |
| `BucketIndex` | `cls_rgw.cc` (prepare, complete, suggest) and its callers in `rgw_rados.cc` | one name: head, entry, counters, requests, listings |
| `MonElection` | the promise of an election to Paxos | abstract specification: Leave, Claim, Follow |
| `Elector` | `ElectionLogic.cc`, `Elector.cc`, parts of `Monitor.cc` | the messages and timers, refines `MonElection` |
| `MonPaxos` | `Paxos.cc`, parts of `Monitor.cc` | extends `MonElection`: rounds, leases, stores, crashes |
| `QueueClassProofs` | | theorems about the ring and what a listing reads from it |
| `TwoPCClassProofs`, `LockClassProofs`, `PersistentNotifyProofs` | | theorems about notifications and what they rest on |
| `TailGCProofs`, `BucketIndexProofs` | | theorems about tails and the index |
| `ElectorProofs` | | theorems about the abstract election, the messages and timers, and the refinement between them |
| `MonPaxosProofs` | | theorems about Paxos |
| `MCPaxosFive` | | a schedule of steps of `MonPaxos` for five monitors |
| `MC*` | | instances for TLC |

### How state and actions correspond to the code

*Ring.*  A byte of the object is a cell: the identity and size of the entry it belongs
to and its position in that entry, or zeros.  Thus a listing that reads the wrong bytes,
a torn entry or an overwritten one is visible.  `EntryOverhead` stands for the 10 bytes
of magic number and length before an entry; that reads are done in chunks of 1024
bytes is abstracted: the model lists from the stream of bytes the chunks make up.  A
listing that meets bytes that are no entry answers `EINVAL`.  `generation` is a natural
number (64 bits in the code).

*2pc queue.*  `UrgentMax` stands for the number of reservations that fit into the urgent
data of the head; further ones go to the attribute.  Ids are taken modulo `IdMod`
instead of 2^32.  Commit compares an iterator of the attribute's map with the end of
the head's map (`cls_2pc_queue.cc:243`); with the library's unordered map all end
iterators are equal, so the outcome the build produces is `ENOENT`, as intended.

*Lock.*  A locker is an entity and a cookie; a stored expiration of zero is no
expiration.  `read_lock` trims expired lockers from what an operation sees; they stay
stored until an operation writes the lock.

*Manager.*  `mgr[d]` is where `process_queues` is: asleep, or about to lock.
`proc[d]` is the coroutine `process_queue`: its batch, the end marker, and per entry
whether the push succeeded, failed or is pending.  Entries are started in order, each
runs until it first waits, and one that fails at once stops the loop, as in the code;
answers then come in any order.  The list, removal and expiry actions each include the
ownership check they are combined with in one RADOS operation.  After a failing
operation other than `ENOENT`/`EBUSY` the coroutines sleep and try again, which is a
stuttering step.  `CommitEvent` forgets the reservation id whatever the result.

*Tail objects.*  A request's number is the tag it writes, and a tail object is named after
the request that wrote it.  A tail object without the reference attribute counts as
referenced by the wildcard, as `read_refcount` has it; the first put of any tag takes
that.  `req[r].pc` is where a request is between two RADOS operations: `create` and `read`,
`write` are the two attempts of `write_meta`, `chain` and `inline` what follows a change
of the head, `undo` what `~RadosWriter` and the end of `copy_obj` give back.  The puts of a
collector are on their way in `puts` and arrive in any order, those of a collector that
stopped included.  An operation on the index is not in this module: it does not change
which references are taken.

*Bucket index.*  The contents of an object are the number of its writer, which serves as
its size and as the tag the request is pending under.  A version is the user version of
the head, which its placement group counts up; 0 is the version without a pool that a
cancel carries.  A completion is sent and forgotten by its request, so `CompleteOp` is
the arrival at the index.  A listing keeps what it read of the head on its way to the
index in `suggestions`.

*Elections.*  `st[m].stored` survives a crash, the rest does not.  The timer of
`reset_timer` may fire at any moment; `bootstrap` does not cancel it, so it may fire while
the monitor probes.  Probing and its replies are one step, `StartElection`.  Connections
are FIFO and are reset, with what they hold, when an end restarts.

*Paxos.*  `disk` is what `apply_transaction` has made durable, `mem` the rest.  A commit is
queued to the store and finished by a callback; in between an election waits for it
(`wait_for_paxos_write`) and a crash may find it written or not.  A message of an older
epoch is dropped where it is received; since epochs only grow, the model drops it as soon
as its receiver is past it, which keeps the state space small and takes no behaviour away.
That a lease runs out only takes reads away and is left out, as are lease acks, which
only stop a timer: the timeouts are covered by `StartElection`, enabled at any moment.
What `dispatch` and the handlers assert is a guard of the action, since a monitor that fails
an assertion stops there, and `AssertsHold` says that no assertion fails.  Two histories
record the rounds: `votes` has every value a monitor has stored for a version under a
number (`begin` and `handle_begin`), `counted` every answer a leader has counted
(`handle_last`).

*Auxiliary variables* read by properties only: `contents` and `held[c].upto`
(`QueueClass`), `grants`, `granted`, `fullGrant` (`TwoPCClass`), `acked`, `deleted`,
`overshot` (`PersistentNotify`), `claims`, `follows` (`MonElection`, `Elector`, `MonPaxos`),
`votes`, `counted` (`MonPaxos`, read by the proofs),
`excused` (`TailGC`, `BucketIndex`).

### Assumptions on what is outside

* A RADOS operation on one object is atomic; one that fails changes nothing.
* A manager's coroutines run on one worker thread (`WORKER_COUNT = 1`), so they
  interleave only where they yield.
* One topic, one queue.  Queues are independent except for the loop of
  `process_queues`, which only delays them.
* An endpoint accepts, refuses, or answers later; a pushed notification counts as
  acknowledged when the endpoint answered ok.
* A restarted gateway has a new random cookie, so it is another member of `Daemons`.
* `TailGC`: one shard of the collector's queue, past the transition from omap; buckets
  without versions; all gateways wait equally long before they collect.  Entries are
  listed and removed in the order they expire, which the code relies on
  (`cls_rgw_gc.cc:197`) and which different settings of `rgw_gc_obj_min_wait` would break.
* `BucketIndex`: one name in one shard that is not being resharded, without versions.
* Monitors: the monmap is fixed and the stores do not fail.  `MonPaxos` has the classic
  strategy, in which nobody acks a higher rank than its own; `Elector` has the
  disallowed leaders too.

## Runs

| Run | Expect | Question | Bounds and why they suffice |
|---|---|---|---|
| `ring` | pass | Is the ring, through listings, a bounded FIFO? Do pages fit together? What do outdated markers remove? | ring of 7 bytes, entries of 2 or 3 bytes, 6 entries: the ring wraps twice, entries end at, before and around the end, the ring gets exactly full; two consumers with markers of any age |
| `two_pc` | pass | Are promises kept and reservations neither lost nor revived? Is the ring consistent? | one reservation in the head, the others in the attribute; `IdMod = 4` with 5 grants: ids roll over through 0; stale period 1 on a clock to 3; an entry of 6 fills the ring |
| `lock` | pass | Exclusiveness, guarded operations, ephemeral objects, no lost locks | two entities × two cookies, two tags, all types and flags, durations 1, 2 and for ever, clock to 4: every expiration is met before, at and after its time |
| `notify` | pass | Is a committed notification safe, and does nobody take what is another's, when the lock lapses under a living owner, the topic is deleted and created again, and a process dies? | two gateways, two requests of which one has a large notification (its commit takes three operations), one administrator, one crash, at most one lapse and at most two topic operations, two of them in all (`MaxDisturbances`: delete and create, or one of the two and a lapse); ring starting at its beginning or shortly before its end (as after earlier use) |
| `notify_live` | pass | Is every committed notification delivered, every dead request's reservation released, when the topic is deleted and created by two administrators at the same time and the lock lapses under a living owner? | two gateways, one request, one crash, at most one lapse and at most two topic operations, two of them in all |
| `notify_stale` | violation | Do old reservations expire as long as a gateway owns the queue? | two gateways, one request that dies, one lapse, no topic operation |
| `notify_wrap` | violation | Is a failed notification retried? | a ring about to wrap, no crash, no lapse |
| `election` | pass | Do the handlers' assertions hold, does everybody who waits and may lead have a timer, and does the election keep what Paxos is built on? | three monitors with nobody, the first one or the first two disallowed, epochs to 4 (two elections and their results), one monitor unsettled, one crash |
| `paxos` | pass | Agreement, committed values on a majority, equal reads, and the assertions of the handlers | three monitors (the least in which two majorities differ), epochs to 6 (three elections), two values for two versions; one renewed lease, or one crash at any moment of the first version, also while a commit is written (`OneDisturbance`) |
| `paxos_five` | violation | Do monitors agree when leaders restart? | five monitors, five elections, two restarts; a schedule of 70 steps of `MonPaxos`, which is too deep to be found by search |
| `tail` | pass | Does every object keep its tail, is nothing left behind, is what is queued purged? | an object without a copy, with one, or with one that was deleted and waits for collection; two requests on two names, two collectors, up to three queued entries listed two at a time (the least in which a page can be left half expired), one failure, crash or lapse |
| `index` | pass | Does the index agree with the head, the header with the index, and is it repaired? | an existing object or none, three requests, one listing at a time, one failure, one request slower than the timeout |

Symmetry over the gateways is used in the safety runs of `PersistentNotify` only.  The
run of `MonPaxos` uses a view without the histories: they steer nothing there, because a
victory that is delivered has been claimed and a value that is stored was voted for, and
no property of the run reads them.  A larger instance passes as well, in more time than a
regular run should take: `paxos` with two versions, a renewal and a crash (2.4 million
states, for `Agreement` and `CommittedOnMajority`).
In `tail` the collector's queue never runs full; `FailChain` is reached by a send that
fails.  With `QueueMax = 2` and `ListMax = 1` it is reached by a full queue as well, and
that instance passes too (267,112 states).

`TypeOK` of `PersistentNotify` and `Elector` holds in the same instances (add it
to the INVARIANTS of their configurations); the runs themselves are kept for the
properties that are about a hazard.

Excuses in properties, each of which is a known behaviour of the code:

* `GrantsAreHonoured` excepts behaviours in which a reservation was granted on an exactly
  full ring: `cls_2pc_queue_reserve` computes the remaining size from the offsets only
  and takes a full ring for an empty one.  The later commit is refused.
* `NoLoss` excepts behaviours with `overshot`: an entry failed in another lap of the
  ring than the end marker (finding 3), or a removal used a marker from a
  deleted incarnation of the queue.
* `NoSharedReservation` speaks of the first incarnation of a queue, since ids start
  again with a new one.
* `EventuallyAcked` and `ReservationsReleased` except behaviours in which the queue exists
  and stays unlisted for good (`Unlisted`, finding 6), and the latter also those in which a
  manager goes on for good without its `cleanup_queue` (`Uncleaned`, finding 4).  Run
  `notify_stale` checks the promise without these exceptions, and it fails.
* `OrphansExplained` and `EventuallyPurged` except the references in `excused`, each a tail
  object and a tag.  They are
  - what a request held, or had to hand over, when it died;
  - the one that a failing call was about while a request cleaned up after itself or deleted
    inline: `~RadosWriter` logs "leaked" (`rgw_putobj_processor.cc:171`), the rollback of
    `copy_obj` and `delete_objs_inline` log an error (`rgw_rados.cc:4599`, `5003`), and all
    three go on with the next object;
  - what a copy had taken that lost a race (finding 8);
  - what was in entries that a collector removed without having listed them: entries before
    its page that had not expired when it went past them (finding 13), or entries behind it,
    when its lease had lapsed and others had removed what it had listed (finding 9).
* `IndexAgrees` and `EventuallyRepaired` except behaviours in which the version of the entry
  went down (`cls_rgw.cc:1101`), a suggestion was applied after the head had changed
  (`cls_rgw.cc:2222`), or a request was alive when its tag was dropped as too old: its
  completion then fails with `EINVAL` and nobody hears of it.  `StatsAgree` has no exception.
* `ElectingHasTimer` speaks of the monitors that may lead.  A disallowed monitor that hears a
  newer proposal of another disallowed one joins that election and neither proposes itself
  nor defers (`ElectionLogic.cc`, `propose_disallow_handler`), so no timer of its own runs
  until somebody else moves.  The proof of the property without that restriction failed on
  this step.
* `two_pc` uses a rollover that does not meet an id pending in the attribute while
  the head has room; with `IdMod = 3` reservations can coincide, as the code checks
  an id only against the map it is about to insert into.

### Fairness

`FairSpec` of `PersistentNotify` assumes

* weak fairness of each gateway's `process_queues`, `process_queue` and `cleanup_queue`
  while it is up: they only wait for timers, RADOS and answers or timeouts of the
  endpoint;
* weak fairness of the lapse of a *dead* owner's lock and of the ageing of reservations:
  time passes;
* strong fairness of a successful push of each notification: an endpoint that is asked
  infinitely often accepts in the end.  Nothing is assumed about requests and topic
  operations, and no fairness lets a living owner lose its lock.

One gateway stays up.  A lapse under a living owner is not the design's intention (renewal
every 30 s, `Q_LIST_UPDATE_MSEC`, against a lock of 90 s, `FAILOVER_TIME_MSEC`), but nothing excludes
it, so the liveness runs have one.  In `notify_stale` the lapse, the end of
`cleanup_queue` and the taking of the lock by the same gateway fall between two looks
of `process_queue` at the queue, which is possible in time while it waits for pushes.

`FairSpec` of `TailGC` assumes that entries get old enough, that the collector thread of a
gateway goes round for ever (`GCWorker::entry`; a dead gateway is started again), that
the puts it waits for are answered, and that a lock nobody gives up ends with its lease.
`FairSpec` of `BucketIndex` assumes that RADOS answers the calls of a living request, that
tags get older, and that the bucket goes on being listed: nothing but a listing repairs
an entry.  Nothing is assumed of requests that have not started.

## Proofs

A theorem is about every value of the constants: any number of monitors, gateways, requests
and names, rings of any size, any number of faults.  What else it takes is said with it.
Each is proved from an inductive invariant, because none of the properties is inductive by
itself.

**Locks** (`LockClassProofs`): `LockTypeCorrect`, `LockMutualExclusion`,
`LockEphemeralObject`, `LockOneGuardedOwner`, `LockNoTheft`.  The inductive invariant
`LockInv` is type correctness, exclusiveness and the life of ephemeral objects together:
the object may be removed with an ephemeral lock only because nobody else is stored, and
exclusiveness of what is *stored* (not only of what has not expired) is what keeps
renewals from adding a second locker.

**Ring** (in `TwoPCClassProofs`): lemmas for every size of head, ring and entry.  An enqueue of
one entry writes free bytes only, takes exactly its size from them and moves the tail
forward, not past the front; a removal up to any marker at or before the tail keeps the
ring consistent and gives bytes back.

**Queue class** (`QueueClassProofs`): `QueueTypeOK`, `QueuePagedListing`, `QueueImplementsFifo`,
`QueueRemovesOnlyListed`, `QueueEnqueueInFreeSpace`, for every size of ring, head and entries
and any clients, under `VectorLengths = {1}` (finding 1 is why).  The bytes of the ring are
counted from the front: `MarkerAt(ring, d)` is the marker of byte `d`, so that the end of the
object and the generation appear in one place.  The ring is *described* by a sequence of
entries if these lie one behind the other (`Layout`), byte by byte and up to the tail
(`Holds`).  A listing parses headers, and each header tells where the next one is; the lemmas
`StartsAre` and `ListIs` show that on a described ring this recursion has exactly one solution,
which is the description, whatever the page size and the byte at which a page or the ring
ends.  There is no induction over data to use: that two solutions agree is shown from
the least index at which they differ.  `QueueInv` says that the ring is described, that the
FIFO's contents are the description, and that a marker a client keeps is where an entry of
the description starts or has been passed by the front (`KeptAt`); a removal moves the front
to such a byte, and an enqueue appends to the description.

**Two-phase commit queue** (`TwoPCClassProofs`).

* `TwoPCRingInOneLap`, `TwoPCEntriesStay`, under `VectorLengths = {1}`, which all callers in
  the gateway satisfy and without which the claim is false (finding 1).  The removal method
  compares an end marker with the front and never with the tail, so ring consistency alone
  is not inductive; `RingInv` adds that the marker a consumer keeps is at or before the tail,
  which survives because the tail only moves forward.
* `TwoPCReservationsAreGrants`, `TwoPCReservedCoversPromises`, `TwoPCFreshReservationStays`, under
  `MaxReserved < IdMod`: the ids, 32 bits wide in the code, do not come round within a
  behaviour.  The hypothesis is needed.  A reservation that fits into the head is not
  compared with the attribute (`cls_2pc_queue.cc:110`), so an id that comes round may be in
  both maps.  `ResInv` ties the two maps, the flag of the attribute and the last id to the
  grants: an id above the last one has never been used, and the sum of what is pending is
  covered by `reserved_size`.
* `TwoPCGrantsAreHonoured`, `TwoPCTypeCorrect`, under both hypotheses.  `HonourInv` adds to
  `RingInv` and `ResInv` that, as long as no reservation was granted on an exactly full ring,
  the sum of the promises fits into the free bytes: a reservation is granted only if it fits
  beside `reserved_size`, which covers them, a commit takes no more bytes than its promise
  gives back, and a removal only frees some.

  `Promised` sums with a fold of the community modules.  The prover has no induction over an
  operator, so the lemmas on sums (`SumAdds`, `SumsCompare`, `SumsUnion`, ...) are proved from a
  least counterexample: the set of the sizes at which a fact fails is, if not empty, a set of
  natural numbers with a least element (`LeastNatural`), and that one does not fail.

**Notifications** (`PersistentNotifyProofs`).

* `NotifyOneProcessor`.  `ProcInv` ties `owned_queues`, `queue_gc` and the coroutine of a
  manager together: a topic in `queue_gc` is still owned and its coroutine has ended, so the
  round that forgets it does not forget one that runs.
* `NotifyNoSharedReservation`, for finitely many requests and `IdMod > 2 * Cardinality(Publishers)`:
  a request reserves once, or twice for a large notification, and ids must not come round
  (a request that sleeps while they do would find its id with somebody else).  `IdInv`
  bounds the last id by the number of requests that asked once and the number that asked
  for the second time or never will, so `NextId` does not wrap, and no request holds an id
  that is still to come.
* `NotifyNoLoss` and `NotifyOnlyCommittedDelivered`, without a hypothesis on the constants.
  `PersistentNotifyProofs` instantiates `QueueClassProofs` (`Ring`), shows that the operators
  of the two are the same (`SameList`, `SameEnqueue`, `SameRemove`, ...), and takes from it
  what an enqueue, a listing and a removal do to a described ring.  `LossInv` says that there
  is such a description (`Tidy`): its entries are committed notifications, and, unless
  `overshot`, all the committed ones that were neither acknowledged nor deleted.  That is not
  inductive, since a removal trusts a marker that was computed some steps ago, while other
  managers removed and requests enqueued.  So `Tidy` also follows the batch of every
  coroutine that works on the present queue object.  Each marker of it is where an entry of
  the description starts, or the tail, or has been passed by the front (`Placed`); the
  notifications of the batch are committed, its markers are in the order of the ring, and
  what was answered "ok" is acknowledged (`BatchOK`).  The end marker has been passed, or
  each entry before it is in the batch and did not fail (`EndOK`).  A failed push lowers the
  end marker by `set_min_marker`, which is the minimum within one lap only, and where it is
  not the model sets `overshot` (finding 3).  A removal moves the front over the entries
  before the end marker, which by then have all been answered, hence acknowledged.
  A manager that lost the queue and comes back with an old batch finds its markers passed
  or in place, and removes nothing else.

  A coroutine that survives the deletion of its queue keeps markers of the old ring, and
  the new ring starts at the same lap.  Once it has removed with such a marker
  (`overshot` in an incarnation after the first) nothing is known of the new ring; `Unmixed`
  excludes these states, and so does `NotifyOnlyCommittedDelivered`.  `NoLoss` has that excuse
  already.

**Tail objects** (`TailGCProofs`): `TailNoDataLoss` and `TailOrphansExplained`.  `TailInv` says whose a reference is and
who may drop it.  Whatever is under way to drop the reference of a tag (an entry of the
collector's queue, a put on its way, also one of a collector that died, a request that
hands a chain over or deletes inline) is not about a tag that a head carries (`LiveInv`),
and takes no reference but that tag's, because the tag is the creator's, is still there or
was retired (`DropInv`): so a put that arrives twice takes nobody else's.  The tag of a
request that has not written its head yet is known to nobody (`UnpublishedInv`), and what
that request holds is still there (`KeptInv`).  The conditional write makes this inductive:
who finds the tag it has read finds the head it has read (`SeenInv`), so only the request
that replaced a head hands over the tail of that head.

`OrphanInv` is the converse: every reference has somebody who will drop it (`OwnerInv`), or
is excused.  Three things make it inductive.  A put leaves no reference of its tag,
because a creator never has an explicit reference beside the implicit one (`RefsInv`) and a
tag that was put takes no reference again (`FreshInv`).  What a collector has listed is what
it removes: each reference of a listed entry is gone or its put is on its way (`WorkInv`), so
nothing is left of the listed entries once the collector has drained.  And a collector works
alone until a lease lapses (`LockInv`), so up to then the entries it removes are the listed
ones or some before the page, which are excused.  A failed clean-up leaves the one reference
it was about, and its request goes on to the next (`FailedReleaseOrphans`).  The theorem
therefore says that the causes `excused` collects, which are crashes, failed clean-ups and findings
8, 9 and 13, are all there are, reference by reference.  It assumes, beside what
`TailNoDataLoss` needs, that no gateway is called "nobody".

**Bucket index** (`BucketIndexProofs`).

* `HeaderCountsEntry`: the counters of the header are exactly the entry's, with no exception.
* `SettledEntryAgrees`: without pending tags and outside the excused histories the entry
  tells of the head.  `IndexInv` has the order of the versions (nobody knows a later one
  than the head's, and whoever gave the head its version is the one the head shows), that a
  living request that prepared is pending, and that an entry is right or not to be believed
  for one of three reasons: a tag of a dead request is pending, or the entry has applied all
  that it will hear of, or the completion of the head's own version is still on its way.

**Elections** (`ElectorProofs`).

* `ElectionOneEffectiveLeader` of the abstract election, for any finite set of ranks, from
  `ElectionConstants`.  Two majorities meet in a monitor; a monitor follows at most one leader
  in an epoch, because following takes it out of the odd epoch before, and a leader of that
  epoch does not follow another.  `HistoryOK` says this of the histories.
* `ElectorTypeCorrect`, `ElectorAssertsHold`, `ElectorHasTimer` and `ElectorImplementsElection`:
  the messages and timers implement the abstract election, step by step, for any monmap.
  `ElectorInv` says of a monitor which epoch it is in and whom it may have acked, of those
  that acked a candidate that they have reached its epoch, and of a message on its way what
  both ends know: an ack is of an epoch no later than its receiver's and comes from a monitor
  that may defer to it, and a victory was claimed with that quorum.  The asserts of the
  handlers follow from it.
* `ElectorOneEffectiveLeader` is then the abstract theorem, carried over by the refinement.

**Paxos** (`MonPaxosProofs`), for any monmap, stride, number of versions, values, elections
and crashes, from `PaxosConstants` and `ElectionConstants`.  The inductive invariant has three
layers, because they need different things.

* `PaxosProtocol`: `ProtocolInv` is about the course of a round and needs no assumption.  A
  number belongs to the monitor whose rank it leaves modulo the stride, and is larger than
  every number of that monitor before, since `last_pn` *is* stored (`NumbersInv`).  What is
  on the way between a leader and a peon comes in a certain order: a `last` of the leader's
  number means that no `collect` of it is left, and no answer is counted twice
  (`CollectsInv`, `AnswersInv`).  A leader that has a value to write has counted its whole
  quorum, a majority (`LeaderInv`).  At most one `begin` or `accept` of the leader's number is
  out between it and a peon, for the value it asks for, and only from those it has not heard
  (`AcceptsInv`); the assertions of `handle_accept` are a consequence.  `PaxosTypeOK` follows.
* `PaxosVoting`: `VotingInv` is about the values.  Every vote is *safe* at its number: for
  every smaller number there is a majority each of which voted for the same value under it
  or neither did nor, by its promise, ever will (`VotesInv`).  What a store has committed was
  chosen by a majority, and what it holds beyond is its monitor's latest vote (`StoreInv`);
  what messages carry agrees with the votes (`MessagesInv`); a leader that collects knows the
  highest vote of everyone it has counted (`RoundInv`).  From these the value that
  `handle_last` takes over, or any value if it found none, is safe at the leader's number.
* `AgreementWithPromises`, `MajorityWithPromises` follow.  They assume `[][PromisesKept]_vars`:
  no step lowers a monitor's `accepted_pn`.  Only a restart can, because `collect` does not
  store the leader's own promise; the proof fails at exactly that step without the
  assumption, and finding 14 is the schedule that goes with it.  The assumption leaves in
  all behaviours in which restarted monitors were peons of the last round they took part in.
* `AgreementWithoutCrashes` has no such assumption: without crashes `PromisesKept` is proved
  of every step.
* `PaxosLeases`: `ReadsInv` is about who may serve reads, and needs `ProtocolInv` only.  A
  leader sends nothing of an epoch to come, a peon is never ahead of the leader it follows,
  and only an active leader renews leases (`EpochsInv`).  No lease of the leader's epoch is
  held or on its way while it collects, none is held by a peon that has accepted the next
  value, and none comes behind a `begin` on a connection (`LeasesInv`).  Hence all leases of
  a leader's epoch are for one version at a time, no commit on its way goes beyond it, and it
  is the leader's own last one while it leads (`GrantsInv`).
* `PaxosSameReads` follows, crashes included and without an assumption on promises: after a
  restart that takes back a promise monitors may disagree (finding 14), but never within one
  quorum that serves reads.

Only model-checked:

* liveness (`EventuallyAcked`, `ReservationsReleased`, `EventuallyPurged`,
  `EventuallyRepaired`): fairness is out of the prover's reach;
* `OnlyCommittedDelivered` of `PersistentNotify` in the states that `Unmixed` excludes: the
  front may stand inside an entry of the new ring, and what a listing then parses is not
  described by anything;
* `AssertsHold` of `MonPaxos`.  Its part about `handle_accept` is a consequence of `AcceptsInv`.
  The parts about `begin` and about who sent a message need that a commit comes before the
  next `begin` on a connection, and a victory before everything of its epoch.

## Findings

1. A vector of entries overwrites live ones if its first entry fills the ring exactly; the
   gateway enqueues single entries.  Shown by `EnqueueInFreeSpace` of run `ring` with
   `VectorLengths = {1, 2}`.
2. `reserved_size` leaks the overhead of every resolved reservation.  Shown by the invariant
   `ReservedIsPending` on the instance of run `two_pc`.
3. `set_min_marker` is not a minimum across the end of the ring, and an unacknowledged
   notification is removed (run `notify_wrap`).
4. `cleanup_queue` may end while `process_queue` goes on, and stale reservations stay (run
   `notify_stale`).
5. The comment on ids being incremented on failure does not hold for `EAGAIN`.
6. A queue that exists unlisted is not repaired by creating its topic again.  Shown by
   `EventuallyAcked` of run `notify_live` without its second disjunct.
7. Two monitors may claim one even epoch.  Shown by `OneLeaderPerEpoch` on the instance of
   run `election`.
8. A copy whose write of the head lost a race keeps its references.  Shown by `NoOrphans`
   on the instance of run `tail` with `MaxFaults = 0`.
9. A collector whose lease lapsed removes entries by count that another one has to purge.
   Shown by `OrphansExplained` on the instance of run `tail` if `GcRemove` does not excuse
   the entries behind the page.
10. The documented deferral of collection while an object is read is switched off.
11. A suggestion that is older than a completed put removes its entry.  Shown by
    `IndexMatchesHead` on the instance of run `index` with one request and no fault.
12. A cancel or a skipped completion lowers the entry's version, and an older completion is
    then applied.  Shown by `IndexMatchesHead` with three requests and no listing.
13. A collector that goes past entries of a page that have not expired yet, and finds
    expired ones on the next page, removes as many from the front: the ones it went past,
    whose references nobody has put.  No fault is needed.  Shown by `OrphansExplained` on the
    instance of run `tail` if `GcRemove` does not excuse the entries before the page.
14. A monitor that led and restarts forgets the number it promised to itself, and two values
    may be committed for one version (run `paxos_five`).  2 leads with number 7, stores value 1
    and crashes.  1 leads {1, 3, 4} with number 11, all of them store value 2, and 1 crashes
    before it can commit.  0 leads {0, 1, 2} with number 5, which both accept, takes over value
    2, and 1 stores it again under 5.  0 leads once more, with number 10: now value 1 under 7 is
    the highest, and it is committed.  1 leads {1, 3, 4}: value 2 under 11 is the highest there,
    and it is committed too.  Storing `accepted_pn` together with `last_pn` would be enough.

## Plan

Done: the modules above.  Next:

1. *More of the system.*  The FIFO journal (`cls_fifo`), whose metadata and parts are kept in
   step by a journal, and resharding on top of `BucketIndex` (the guard of
   `UpdateIndex::guard_reshard`, the status of the shards, the copy).
2. *More proofs.*  `AssertsHold` of `MonPaxos`, from the order of messages on a connection.

## Not modelled

The tree holds all of Ceph.  Left out, beside what the assumptions above say:

* the OSD and its placement groups, BlueStore, the MDS and CephFS clients, RBD and the
  manager: each is a system of its own.  The gateway's modules rest on one promise of
  them, that an operation on one object is atomic and durable when it is answered;
* the services on top of the monitors' Paxos (`OSDMonitor` and others), which are large
  data transformations within one proposal each, trimming and store synchronization;
* multisite synchronization, lifecycle and REST: coroutine frameworks and policies whose
  state is mostly data; request parsing, authentication and the SAL drivers are
  forwarding and I/O;
* versioned objects and multipart uploads in `TailGC` and `BucketIndex`;
* in `BucketIndex`, a put whose `index_op->complete` fails after its head was written and
  which then cancels (`rgw_rados.cc:3304`): the call finds the shard it has cached and only
  submits an operation, so it fails if that cannot even be submitted;
* in `MonPaxos`, a monitor alone in its quorum, whose `begin` commits at once.
