----------------------- MODULE PersistentNotifyProofs -----------------------
(***************************************************************************)
(* Persistent notifications, for any number of gateways, requests and      *)
(* topic operations, any sizes, lapses and crashes.                        *)
(*                                                                         *)
(* OneProcessor needs what ties the three structures of a Manager          *)
(* together: a topic in queue_gc is still in owned_queues and its          *)
(* coroutine has ended.  NoSharedReservation needs that the ids handed     *)
(* out by the first queue object do not come round, which counting the     *)
(* requests that have reserved once or twice shows.                        *)
(* NoLoss and OnlyCommittedDelivered need a description of the ring: the   *)
(* committed notifications it holds and where each one starts, and that    *)
(* the markers of every batch are such places or behind the front.  The    *)
(* lemmas about the ring are the ones of QueueClassProofs.                 *)
(***************************************************************************)
EXTENDS PersistentNotify, FiniteSetTheorems, TLAPS

\* The queue object and the coroutines have their fields.
TpcShape(o) ==
    o = [q |-> o.q, reserved_size |-> o.reserved_size, last_id |-> o.last_id,
         reservations |-> o.reservations, has_xattrs |-> o.has_xattrs, xattrs |-> o.xattrs]
QueueShape(q) ==
    /\ q = [exists |-> q.exists, tpc |-> q.tpc, lk |-> q.lk, inc |-> q.inc]
    /\ TpcShape(q.tpc)
ProcShape(c) ==
    c = [pc |-> c.pc, batch |-> c.batch, status |-> c.status, end |-> c.end, inc |-> c.inc]

-----------------------------------------------------------------------------
(* One process_queue for each owned queue. *)

\* The coroutine of daemon d runs.
Runs(d) == proc[d].pc # "off"

\* What ties owned_queues, queue_gc and the coroutine of a daemon together.
Tied(d) ==
    /\ ProcShape(proc[d])
    /\ Runs(d) => owned[d]
    /\ queue_gc[d] => owned[d] /\ ~Runs(d)

ProcInv ==
    /\ owned \in [Daemons -> BOOLEAN]
    /\ queue_gc \in [Daemons -> BOOLEAN]
    /\ DOMAIN proc = Daemons
    /\ \A d \in Daemons : Tied(d)

\* What a step of daemon d may do: it leaves the others alone.
LEMMA OthersTied ==
    ASSUME ProcInv, NEW d \in Daemons,
           owned' \in [Daemons -> BOOLEAN], queue_gc' \in [Daemons -> BOOLEAN],
           DOMAIN proc' = Daemons,
           \A e \in Daemons \ {d} : /\ owned'[e] = owned[e] /\ queue_gc'[e] = queue_gc[e]
                                    /\ proc'[e] = proc[e],
           ProcShape(proc'[d]),
           proc'[d].pc # "off" => owned'[d],
           queue_gc'[d] => owned'[d] /\ proc'[d].pc = "off"
    PROVE  ProcInv'
<1>1. Tied(d)'
    BY DEF Tied, Runs
<1>2. ASSUME NEW e \in Daemons, e # d
      PROVE  Tied(e)'
    <2>1. Tied(e) /\ owned'[e] = owned[e] /\ queue_gc'[e] = queue_gc[e] /\ proc'[e] = proc[e]
        BY <1>2 DEF ProcInv
    <2> QED
        BY <2>1 DEF Tied, Runs
<1> QED
    BY <1>1, <1>2 DEF ProcInv

\* The coroutine goes on, whatever it does.
LEMMA ProcGoesOn ==
    ASSUME ProcInv, NEW d \in Daemons, Runs(d), owned' = owned, queue_gc' = queue_gc,
           NEW c, ProcShape(c), c.pc # "off", proc' = [proc EXCEPT ![d] = c]
    PROVE  ProcInv'
<1>1. /\ owned[d] /\ ~queue_gc[d] /\ DOMAIN proc = Daemons
      /\ owned \in [Daemons -> BOOLEAN] /\ queue_gc \in [Daemons -> BOOLEAN]
    BY DEF ProcInv, Tied
<1>2. DOMAIN proc' = Daemons /\ proc'[d] = c /\ \A e \in Daemons \ {d} : proc'[e] = proc[e]
    BY <1>1
<1> QED
    BY <1>1, <1>2, OthersTied

\* The coroutine ends and leaves the topic in owned_queues to the collection.
LEMMA ProcStops ==
    ASSUME ProcInv, NEW d \in Daemons, Runs(d), owned' = owned, StopProcessing(d)
    PROVE  ProcInv'
<1>1. /\ owned[d] /\ DOMAIN proc = Daemons
      /\ owned \in [Daemons -> BOOLEAN] /\ queue_gc \in [Daemons -> BOOLEAN]
    BY DEF ProcInv, Tied
<1>2. PICK c : c = Idle
    OBVIOUS
<1>3. ProcShape(c) /\ c.pc = "off"
    BY <1>2 DEF ProcShape, Idle
<1>4. proc' = [proc EXCEPT ![d] = c] /\ queue_gc' = [queue_gc EXCEPT ![d] = TRUE]
    BY <1>2 DEF StopProcessing
<1>5. DOMAIN proc' = Daemons /\ proc'[d] = c /\ \A e \in Daemons \ {d} : proc'[e] = proc[e]
    BY <1>1, <1>4
<1>6. queue_gc' \in [Daemons -> BOOLEAN] /\ \A e \in Daemons \ {d} : queue_gc'[e] = queue_gc[e]
    BY <1>1, <1>4
<1> QED
    BY <1>1, <1>3, <1>5, <1>6, OthersTied

\* A coroutine that starts a new listing.
LEMMA StartShape ==
    LET c == [Idle EXCEPT !.pc = "list"] IN ProcShape(c) /\ c.pc # "off"
BY DEF ProcShape, Idle

\* The steps of the coroutine (rgw_notify.cc: process_queue).
LEMMA ProcessQueueTied ==
    ASSUME ProcInv, NEW d \in Daemons, ProcessQueue(d)
    PROVE  ProcInv'
<1>0. ProcShape(proc[d]) /\ DOMAIN proc = Daemons
    BY DEF ProcInv, Tied
<1>1. CASE ListEntries(d)
    <2>1. Runs(d) /\ owned' = owned
        BY <1>1 DEF ListEntries, Runs
    <2>2. CASE StopProcessing(d)
        BY <2>1, <2>2, ProcStops
    <2>3. CASE ~(CheckOwner(d) \in {ENOENT, EBUSY})
        <3>1. PICK r : /\ proc' = IF r.ret # OK \/ r.entries = <<>>
                                  THEN proc
                                  ELSE [proc EXCEPT ![d] = [pc |-> "spawn", batch |-> r.entries,
                                                    status |-> <<>>, end |-> r.next,
                                                    inc |-> queue.inc]]
                       /\ queue_gc' = queue_gc
            BY <1>1, <2>3 DEF ListEntries
        <3>2. CASE proc' = proc
            BY <2>1, <3>1, <3>2 DEF ProcInv, Tied, Runs
        <3>3. CASE proc' # proc
            <4>1. PICK c : c = [pc |-> "spawn", batch |-> r.entries,
                                status |-> <<>>, end |-> r.next, inc |-> queue.inc]
                OBVIOUS
            <4>2. ProcShape(c) /\ c.pc # "off"
                BY <4>1 DEF ProcShape
            <4>3. proc' = [proc EXCEPT ![d] = c]
                BY <3>1, <3>3, <4>1
            <4> QED
                BY <2>1, <3>1, <4>2, <4>3, ProcGoesOn
        <3> QED
            BY <3>2, <3>3
    <2> QED
        BY <1>1, <2>2, <2>3 DEF ListEntries
<1>2. ASSUME NEW outcome, SpawnEntry(d, outcome)
      PROVE  ProcInv'
    <2>1. Runs(d) /\ owned' = owned /\ queue_gc' = queue_gc
        BY <1>2 DEF SpawnEntry, Runs
    <2>2. PICK i : i = Len(proc[d].status) + 1
        OBVIOUS
    <2>3. PICK end : end = EndAfter(d, i, outcome)
        OBVIOUS
    <2>4. PICK pc : /\ pc = IF outcome = "fail" \/ i = Len(proc[d].batch)
                            THEN "wait" ELSE "spawn"
        OBVIOUS
    <2>5. PICK status : status = Append(proc[d].status, outcome)
        OBVIOUS
    <2>6. PICK old : old = proc[d]
        OBVIOUS
    <2>7. PICK c : c = [old EXCEPT !.status = status, !.end = end, !.pc = pc]
        OBVIOUS
    <2>8. proc' = [proc EXCEPT ![d] = c]
        <3>1. proc' = [proc EXCEPT ![d].status = status, ![d].end = end, ![d].pc = pc]
            BY <1>2, <2>2, <2>3, <2>4, <2>5 DEF SpawnEntry
        <3> QED
            BY <1>0, <2>6, <2>7, <3>1
    <2>9. ProcShape(c) /\ c.pc = pc
        BY <1>0, <2>6, <2>7 DEF ProcShape
    <2>10. c.pc # "off"
        BY <2>4, <2>9
    <2> QED
        BY <2>1, <2>8, <2>9, <2>10, ProcGoesOn
<1>3. ASSUME NEW i, NEW outcome, EntryAnswered(d, i, outcome)
      PROVE  ProcInv'
    <2>1. Runs(d) /\ owned' = owned /\ queue_gc' = queue_gc /\ proc[d].pc = "wait"
        BY <1>3 DEF EntryAnswered, Runs
    <2>2. PICK end : end = EndAfter(d, i, outcome)
        OBVIOUS
    <2>3. PICK status : status = [proc[d].status EXCEPT ![i] = outcome]
        OBVIOUS
    <2>4. PICK old : old = proc[d]
        OBVIOUS
    <2>5. PICK c : c = [old EXCEPT !.status = status, !.end = end]
        OBVIOUS
    <2>6. proc' = [proc EXCEPT ![d] = c]
        <3>1. proc' = [proc EXCEPT ![d].status = status, ![d].end = end]
            BY <1>3, <2>2, <2>3 DEF EntryAnswered
        <3> QED
            BY <1>0, <2>4, <2>5, <3>1
    <2>7. ProcShape(c) /\ c.pc = old.pc
        BY <1>0, <2>4, <2>5 DEF ProcShape
    <2>8. c.pc # "off"
        BY <2>1, <2>4, <2>7
    <2> QED
        BY <2>1, <2>6, <2>7, <2>8, ProcGoesOn
<1>4. CASE RemoveEntries(d)
    <2>1. Runs(d) /\ owned' = owned
        BY <1>4 DEF RemoveEntries, Runs
    <2>2. CASE StopProcessing(d)
        BY <2>1, <2>2, ProcStops
    <2>3. CASE ~StopProcessing(d)
        <3>1. proc' = [proc EXCEPT ![d] = [Idle EXCEPT !.pc = "list"]] /\ queue_gc' = queue_gc
            BY <1>4, <2>3 DEF RemoveEntries
        <3>2. PICK c : c = [Idle EXCEPT !.pc = "list"]
            OBVIOUS
        <3>3. ProcShape(c) /\ c.pc # "off"
            BY <3>2, StartShape
        <3> QED
            BY <2>1, <3>1, <3>2, <3>3, ProcGoesOn
    <2> QED
        BY <2>2, <2>3
<1> QED
    BY <1>1, <1>2, <1>3, <1>4 DEF ProcessQueue

\* The rounds of the Manager (rgw_notify.cc: process_queues): a coroutine is started only
\* for a queue that is not owned, and a queue is collected only when its coroutine ended.
LEMMA ProcessQueuesTied ==
    ASSUME ProcInv, NEW d \in Daemons, ProcessQueues(d)
    PROVE  ProcInv'
<1>0. /\ ProcShape(proc[d]) /\ DOMAIN proc = Daemons
      /\ owned \in [Daemons -> BOOLEAN] /\ queue_gc \in [Daemons -> BOOLEAN]
      /\ Runs(d) => owned[d]
      /\ queue_gc[d] => owned[d] /\ ~Runs(d)
    BY DEF ProcInv, Tied
<1>1. CASE read_queue_list(d)
    <2>1. CASE listed
        BY <1>1, <2>1 DEF read_queue_list, ProcInv, Tied, Runs
    <2>2. CASE ~listed
        <3>1. /\ owned' = [owned EXCEPT ![d] = owned[d] /\ ~queue_gc[d]]
              /\ queue_gc' = [queue_gc EXCEPT ![d] = FALSE] /\ proc' = proc
            BY <1>1, <2>2 DEF read_queue_list, Collected
        <3>2. /\ owned' \in [Daemons -> BOOLEAN] /\ queue_gc' \in [Daemons -> BOOLEAN]
              /\ \A e \in Daemons \ {d} : owned'[e] = owned[e] /\ queue_gc'[e] = queue_gc[e]
              /\ owned'[d] = (owned[d] /\ ~queue_gc[d]) /\ ~queue_gc'[d]
            BY <1>0, <3>1, Zenon
        <3>3. proc'[d].pc # "off" => owned'[d]
            BY <1>0, <3>1, <3>2 DEF Runs
        <3> QED
            BY <1>0, <3>1, <3>2, <3>3, OthersTied
    <2> QED
        BY <2>1, <2>2
<1>2. CASE process_queues(d)
    <2> DEFINE start == queue.exists /\ LockRequest(d).ret = OK /\ ~owned[d]
    <2>1. /\ owned' = [owned EXCEPT ![d] = (owned[d] \/ start) /\ ~queue_gc[d]]
          /\ queue_gc' = [queue_gc EXCEPT ![d] = FALSE]
          /\ proc' = IF start THEN [proc EXCEPT ![d] = [Idle EXCEPT !.pc = "list"]] ELSE proc
        BY <1>2 DEF process_queues, Collected
    <2>2. start => ~owned[d]
        OBVIOUS
    <2>3. start \in BOOLEAN
        BY Zenon
    <2> HIDE DEF start
    <2>4. /\ owned' \in [Daemons -> BOOLEAN] /\ queue_gc' \in [Daemons -> BOOLEAN]
          /\ \A e \in Daemons \ {d} : owned'[e] = owned[e] /\ queue_gc'[e] = queue_gc[e]
          /\ owned'[d] = ((owned[d] \/ start) /\ ~queue_gc[d]) /\ ~queue_gc'[d]
        BY <1>0, <2>1, Zenon
    <2>5. CASE start
        <3>1. ~owned[d] /\ ~queue_gc[d]
            BY <1>0, <2>2, <2>5
        <3>2. owned'[d]
            BY <2>4, <2>5, <3>1
        <3>3. PICK c : c = [Idle EXCEPT !.pc = "list"]
            OBVIOUS
        <3>4. proc' = [proc EXCEPT ![d] = c] /\ ProcShape(c)
            BY <2>1, <2>5, <3>3, StartShape
        <3>5. DOMAIN proc' = Daemons /\ proc'[d] = c /\ \A e \in Daemons \ {d} : proc'[e] = proc[e]
            BY <1>0, <3>4
        <3> QED
            BY <2>4, <3>2, <3>4, <3>5, OthersTied
    <2>6. CASE ~start
        <3>1. proc' = proc
            BY <2>1, <2>6
        <3>2. proc'[d].pc # "off" => owned'[d]
            BY <1>0, <2>4, <3>1 DEF Runs
        <3> QED
            BY <1>0, <2>4, <3>1, <3>2, OthersTied
    <2> QED
        BY <2>5, <2>6
<1> QED
    BY <1>1, <1>2 DEF ProcessQueues

\* A gateway that dies takes its coroutines along.
LEMMA CrashTied ==
    ASSUME ProcInv, NEW d \in Daemons, CrashDaemon(d)
    PROVE  ProcInv'
<1>1. /\ DOMAIN proc = Daemons
      /\ owned \in [Daemons -> BOOLEAN] /\ queue_gc \in [Daemons -> BOOLEAN]
    BY DEF ProcInv
<1>2. PICK c : c = Idle
    OBVIOUS
<1>3. ProcShape(c) /\ c.pc = "off"
    BY <1>2 DEF ProcShape, Idle
<1>4. /\ proc' = [proc EXCEPT ![d] = c]
      /\ owned' = [owned EXCEPT ![d] = FALSE] /\ queue_gc' = [queue_gc EXCEPT ![d] = FALSE]
    BY <1>2 DEF CrashDaemon
<1>5. DOMAIN proc' = Daemons /\ proc'[d] = c /\ \A e \in Daemons \ {d} : proc'[e] = proc[e]
    BY <1>1, <1>4
<1>6. /\ owned' \in [Daemons -> BOOLEAN] /\ queue_gc' \in [Daemons -> BOOLEAN]
      /\ \A e \in Daemons \ {d} : owned'[e] = owned[e] /\ queue_gc'[e] = queue_gc[e]
      /\ ~queue_gc'[d]
    BY <1>1, <1>4, Zenon
<1> QED
    BY <1>3, <1>5, <1>6, OthersTied

\* A daemon runs at most one process_queue for a queue: it starts none while it still has
\* one, because the topic stays in owned_queues until that one has ended
\* (rgw_notify.cc: process_queues, process_queue).
THEOREM NotifyOneProcessor == Spec => []OneProcessor
<1>1. Init => ProcInv
    <2> SUFFICES ASSUME Init
                 PROVE  ProcInv
        OBVIOUS
    <2>1. PICK c : c = Idle
        OBVIOUS
    <2>2. ProcShape(c) /\ c.pc = "off"
        BY <2>1 DEF ProcShape, Idle
    <2>3. /\ proc = [d \in Daemons |-> c]
          /\ owned = [d \in Daemons |-> FALSE] /\ queue_gc = [d \in Daemons |-> FALSE]
        BY <2>1 DEF Init
    <2>4. /\ owned \in [Daemons -> BOOLEAN] /\ queue_gc \in [Daemons -> BOOLEAN]
          /\ \A d \in Daemons : ~queue_gc[d]
        BY <2>3, Zenon
    <2> QED
        BY <2>2, <2>3, <2>4 DEF ProcInv, Tied, Runs
<1>2. ProcInv /\ [Next]_vars => ProcInv'
    <2> SUFFICES ASSUME ProcInv, [Next]_vars
                 PROVE  ProcInv'
        OBVIOUS
    <2>1. CASE owned' = owned /\ queue_gc' = queue_gc /\ proc' = proc
        BY <2>1 DEF ProcInv, Tied, Runs
    <2>2. ASSUME NEW d \in Daemons,
                 \/ ProcessQueues(d) \/ ProcessQueue(d) \/ cleanup_queue(d)
                 \/ CrashDaemon(d) \/ LockLapses(d)
          PROVE  ProcInv'
        <3>1. CASE cleanup_queue(d) \/ LockLapses(d)
            BY <2>1, <3>1 DEF cleanup_queue, LockLapses, daemonVars
        <3> QED
            BY <2>2, <3>1, ProcessQueueTied, ProcessQueuesTied, CrashTied
    <2>3. ASSUME NEW p \in Publishers, Request(p) \/ CrashRequest(p)
          PROVE  ProcInv'
        BY <2>1, <2>3 DEF Request, CrashRequest, publish_reserve, publish_commit, CommitEvent,
               publish_abort, AbortSmaller, ReserveLarger, CommitLarger, daemonVars
    <2>4. ASSUME NEW a \in Admins, Topic(a) \/ CrashAdmin(a)
          PROVE  ProcInv'
        BY <2>1, <2>4 DEF Topic, CrashAdmin, add_persistent_topic, ListTopic,
               remove_persistent_topic, UnlistTopic, daemonVars
    <2>5. CASE StalePeriodPasses \/ UNCHANGED vars
        BY <2>1, <2>5 DEF StalePeriodPasses, vars, daemonVars
    <2> QED
        BY <2>2, <2>3, <2>4, <2>5 DEF Next
<1>3. ProcInv => OneProcessor
    BY DEF ProcInv, Tied, Runs, OneProcessor
<1> QED
    BY <1>1, <1>2, <1>3, PTL DEF Spec

-----------------------------------------------------------------------------
(* What the steps do to the queue object. *)

\* A method other than a reservation keeps the fields and the last id.
Keeps(o, p) == TpcShape(p) /\ p.last_id = o.last_id

\* Abort, expiry, removal and commit hand out no id (cls_2pc_queue.cc).
LEMMA ReleaseKeeps ==
    ASSUME NEW o, TpcShape(o), NEW id
    PROVE  Keeps(o, Release(o, id))
BY DEF TpcShape, Keeps, Release

\* An abort gives a reservation up, or finds none.
LEMMA AbortKeeps ==
    ASSUME NEW o, TpcShape(o), NEW id
    PROVE  Keeps(o, cls_2pc_queue_abort(o, id).obj)
<1>1. cls_2pc_queue_abort(o, id).obj \in {o, Release(o, id)}
    BY DEF cls_2pc_queue_abort
<1> QED
    BY <1>1, ReleaseKeeps DEF Keeps

\* An expiry gives up those that are stale.
LEMMA ExpireKeeps ==
    ASSUME NEW o, TpcShape(o), NEW time
    PROVE  Keeps(o, cls_2pc_queue_expire_reservations(o, time).obj)
BY DEF TpcShape, Keeps, cls_2pc_queue_expire_reservations

\* A removal moves the front of the ring only.
LEMMA RemoveKeeps ==
    ASSUME NEW o, TpcShape(o), NEW end
    PROVE  Keeps(o, cls_2pc_queue_remove_entries(o, end).obj)
BY DEF TpcShape, Keeps, cls_2pc_queue_remove_entries

\* A commit adds the entry and gives its reservation up, or changes nothing.
LEMMA CommitKeeps ==
    ASSUME NEW o, TpcShape(o), NEW id, NEW es
    PROVE  Keeps(o, cls_2pc_queue_commit(o, id, es).obj)
<1>1. PICK rel : rel = Release(o, id)
    OBVIOUS
<1>2. PICK q : q = queue_enqueue(o.q, es).q
    OBVIOUS
<1>3. \/ cls_2pc_queue_commit(o, id, es).obj = o
      \/ cls_2pc_queue_commit(o, id, es).obj = [rel EXCEPT !.q = q]
    BY <1>1, <1>2 DEF cls_2pc_queue_commit
<1>4. Keeps(o, rel)
    BY <1>1, ReleaseKeeps
<1>5. Keeps(o, [rel EXCEPT !.q = q])
    BY <1>4 DEF Keeps, TpcShape
<1> QED
    BY <1>3, <1>5 DEF Keeps

\* A reservation hands out the next id or none (cls_2pc_queue_reserve).
LEMMA ReserveNext ==
    ASSUME NEW o, TpcShape(o), NEW size, NEW entries, NEW time
    PROVE  LET r == cls_2pc_queue_reserve(o, size, entries, time)
           IN  \/ r.ret # OK /\ r.id = NO_ID /\ r.obj = o
               \/ /\ r.ret = OK /\ r.id = NextId(o)
                  /\ TpcShape(r.obj) /\ r.obj.last_id = NextId(o)
BY DEF TpcShape, cls_2pc_queue_reserve

\* The queue keeps its identity, and no id is handed out.
Quiet ==
    /\ QueueShape(queue')
    /\ queue'.exists = queue.exists
    /\ queue'.inc = queue.inc
    /\ IF queue.exists THEN queue'.tpc.last_id = queue.tpc.last_id ELSE queue'.tpc = queue.tpc

\* The two-phase commit queue in the object is replaced.
LEMMA SetTpc ==
    ASSUME QueueShape(queue), NEW o, TpcShape(o), queue' = [queue EXCEPT !.tpc = o]
    PROVE  /\ QueueShape(queue') /\ queue'.exists = queue.exists /\ queue'.inc = queue.inc
           /\ queue'.tpc = o
BY DEF QueueShape

\* A method other than a reservation ran on an existing queue, or nothing changed.
LEMMA TpcQuiet ==
    ASSUME QueueShape(queue), NEW o, queue' = [queue EXCEPT !.tpc = o],
           o = queue.tpc \/ (queue.exists /\ Keeps(queue.tpc, o))
    PROVE  Quiet
<1>1. TpcShape(o)
    BY DEF QueueShape, Keeps
<1>2. /\ QueueShape(queue') /\ queue'.exists = queue.exists /\ queue'.inc = queue.inc
      /\ queue'.tpc = o
    BY <1>1, SetTpc
<1> QED
    BY <1>2 DEF Quiet, Keeps

\* Nothing changed.
LEMMA SameQuiet ==
    ASSUME QueueShape(queue), queue' = queue
    PROVE  Quiet
BY DEF Quiet

\* The request settles or keeps its reservation.
Open == {"idle", "reserved", "growing"}
Settles(p) ==
    \E pc, id :
        /\ pub' = [pub EXCEPT ![p] = [pc |-> pc, id |-> id]]
        /\ id \in {NO_ID, pub[p].id}
        /\ pc # "idle"
        /\ pub[p].pc \notin Open => pc \notin Open

\* A request that leaves the states in which it may still ask for an id settles.
LEMMA SettlesBy ==
    ASSUME NEW p, NEW pc, NEW id, pub' = [pub EXCEPT ![p] = [pc |-> pc, id |-> id]],
           id \in {NO_ID, pub[p].id}, pc # "idle", pc \notin Open
    PROVE  Settles(p)
BY DEF Settles

\* The ways in which a request settles with nothing but its own state.
LEMMA SettlesLeaves ==
    ASSUME NEW p, NEW id, id \in {NO_ID, pub[p].id},
           \/ pub' = [pub EXCEPT ![p] = [pc |-> "refused", id |-> id]]
           \/ pub' = [pub EXCEPT ![p] = [pc |-> "lost", id |-> id]]
           \/ pub' = [pub EXCEPT ![p] = [pc |-> "aborting", id |-> id]]
           \/ pub' = [pub EXCEPT ![p] = [pc |-> "dead", id |-> id]]
    PROVE  Settles(p)
<1>1. PICK pc \in {"refused", "lost", "aborting", "dead"} :
          pub' = [pub EXCEPT ![p] = [pc |-> pc, id |-> id]]
    OBVIOUS
<1>2. pc # "idle" /\ pc \notin Open
    BY DEF Open
<1> QED
    BY <1>1, <1>2, SettlesBy

\* The request is given the next id: its first, or one for a larger reservation.
IsGranted(p) ==
    /\ queue.exists
    /\ QueueShape(queue') /\ queue'.exists = queue.exists /\ queue'.inc = queue.inc
    /\ queue'.tpc.last_id = NextId(queue.tpc)
    /\ \E pc :
          /\ pub' = [pub EXCEPT ![p] = [pc |-> pc, id |-> NextId(queue.tpc)]]
          /\ \/ pub[p].pc = "idle" /\ pc = "reserved"
             \/ pub[p].pc = "growing" /\ pc = "grown"

\* A reservation by a request (rgw_notify.cc: publish_reserve, and publish_commit again).
LEMMA ReserveStep ==
    ASSUME QueueShape(queue), NEW size
    PROVE  \/ /\ Reserve(size).ret # OK /\ Reserve(size).id = NO_ID
              /\ Reserve(size).obj = queue.tpc
           \/ /\ Reserve(size).ret = OK /\ Reserve(size).id = NextId(queue.tpc)
              /\ TpcShape(Reserve(size).obj) /\ queue.exists
              /\ Reserve(size).obj.last_id = NextId(queue.tpc)
<1>1. CASE queue.exists
    BY <1>1, ReserveNext DEF Reserve, QueueShape
<1>2. CASE ~queue.exists
    BY <1>2 DEF Reserve, OK, ENOENT
<1> QED
    BY <1>1, <1>2

\* The commit of a notification, of the default size or a larger one (publish_commit).
LEMMA CommitStep ==
    ASSUME QueueShape(queue), NEW p \in Publishers, pub[p].pc # "idle", CommitEvent(p)
    PROVE  Quiet /\ Settles(p)
<1> DEFINE r == IF queue.exists
                THEN cls_2pc_queue_commit(queue.tpc, pub[p].id,
                                          <<[id |-> p, size |-> EventSize(p)]>>)
                ELSE [ret |-> ENOENT, obj |-> queue.tpc]
<1>1. /\ queue' = [queue EXCEPT !.tpc = r.obj]
      /\ SetPub(p, IF r.ret = OK THEN "committed" ELSE "lost", NO_ID)
    BY DEF CommitEvent
<1>2. r.obj = queue.tpc \/ (queue.exists /\ Keeps(queue.tpc, r.obj))
    BY CommitKeeps DEF QueueShape
<1> HIDE DEF r
<1>3. Quiet
    BY <1>1, <1>2, TpcQuiet
<1>4. Settles(p)
    <2>1. PICK pc : pc = IF r.ret = OK THEN "committed" ELSE "lost"
        OBVIOUS
    <2>2. pub' = [pub EXCEPT ![p] = [pc |-> pc, id |-> NO_ID]]
        BY <1>1, <2>1 DEF SetPub
    <2>3. pc # "idle" /\ pc \notin Open
        BY <2>1 DEF Open
    <2> QED
        BY <2>2, <2>3 DEF Settles
<1> QED
    BY <1>3, <1>4

\* The steps of a request.
LEMMA RequestStep ==
    ASSUME QueueShape(queue), NEW p \in Publishers, Request(p) \/ CrashRequest(p)
    PROVE  (Quiet /\ Settles(p)) \/ IsGranted(p)
<1>1. CASE publish_reserve(p)
    <2>1. PICK r : r = Reserve(DefaultReservation)
        OBVIOUS
    <2>2. /\ pub[p].pc = "idle" /\ queue' = [queue EXCEPT !.tpc = r.obj]
          /\ pub' = [pub EXCEPT ![p] = [pc |-> IF r.ret = OK THEN "reserved" ELSE "refused",
                                        id |-> r.id]]
        BY <1>1, <2>1 DEF publish_reserve, SetPub
    <2>3. CASE r.ret # OK /\ r.id = NO_ID /\ r.obj = queue.tpc
        <3>1. Quiet
            BY <2>2, <2>3, TpcQuiet
        <3>2. pub' = [pub EXCEPT ![p] = [pc |-> "refused", id |-> NO_ID]]
            BY <2>2, <2>3
        <3> QED
            BY <3>1, <3>2, SettlesLeaves
    <2>4. CASE /\ r.ret = OK /\ r.id = NextId(queue.tpc) /\ TpcShape(r.obj) /\ queue.exists
               /\ r.obj.last_id = NextId(queue.tpc)
        <3>1. /\ QueueShape(queue') /\ queue'.exists = queue.exists /\ queue'.inc = queue.inc
              /\ queue'.tpc = r.obj
            BY <2>2, <2>4, SetTpc
        <3>2. pub' = [pub EXCEPT ![p] = [pc |-> "reserved", id |-> NextId(queue.tpc)]]
            BY <2>2, <2>4
        <3> QED
            BY <2>2, <2>4, <3>1, <3>2 DEF IsGranted
    <2> QED
        BY <2>1, <2>3, <2>4, ReserveStep
<1>2. CASE publish_commit(p)
    <2>1. pub[p].pc = "reserved"
        BY <1>2 DEF publish_commit
    <2>2. CASE pub[p].id = NO_ID
        <3>1. queue' = queue /\ pub' = [pub EXCEPT ![p] = [pc |-> "lost", id |-> NO_ID]]
            BY <1>2, <2>2 DEF publish_commit, SetPub
        <3> QED
            BY <3>1, SameQuiet, SettlesLeaves
    <2>3. CASE pub[p].id # NO_ID
        BY <1>2, <2>1, <2>3, CommitStep DEF publish_commit
    <2> QED
        BY <2>2, <2>3
<1>3. CASE publish_abort(p)
    <2>1. pub' = [pub EXCEPT ![p] = [pc |-> "refused", id |-> NO_ID]]
        BY <1>3 DEF publish_abort, SetPub
    <2>2. Quiet
        <3>1. CASE queue.exists /\ pub[p].id # NO_ID
            <4>1. queue' = [queue EXCEPT !.tpc = cls_2pc_queue_abort(queue.tpc, pub[p].id).obj]
                BY <1>3, <3>1 DEF publish_abort
            <4>2. Keeps(queue.tpc, cls_2pc_queue_abort(queue.tpc, pub[p].id).obj)
                BY AbortKeeps DEF QueueShape
            <4> QED
                BY <3>1, <4>1, <4>2, TpcQuiet
        <3>2. CASE ~(queue.exists /\ pub[p].id # NO_ID)
            BY <1>3, <3>2, SameQuiet DEF publish_abort
        <3> QED
            BY <3>1, <3>2
    <2> QED
        BY <2>1, <2>2, SettlesLeaves
<1>4. CASE AbortSmaller(p)
    <2>0. pub[p].pc = "reserved"
        BY <1>4 DEF AbortSmaller
    <2>1. CASE queue.exists
        <3>1. /\ queue' = [queue EXCEPT !.tpc = cls_2pc_queue_abort(queue.tpc, pub[p].id).obj]
              /\ pub' = [pub EXCEPT ![p] = [pc |-> "growing", id |-> pub[p].id]]
            BY <1>4, <2>1 DEF AbortSmaller, SetPub
        <3>2. Keeps(queue.tpc, cls_2pc_queue_abort(queue.tpc, pub[p].id).obj)
            BY AbortKeeps DEF QueueShape
        <3>3. Quiet
            BY <2>1, <3>1, <3>2, TpcQuiet
        <3> QED
            BY <2>0, <3>1, <3>3 DEF Settles, Open
    <2>2. CASE ~queue.exists
        <3>1. queue' = queue /\ pub' = [pub EXCEPT ![p] = [pc |-> "aborting", id |-> pub[p].id]]
            BY <1>4, <2>2 DEF AbortSmaller, SetPub
        <3> QED
            BY <3>1, SameQuiet, SettlesLeaves
    <2> QED
        BY <2>1, <2>2
<1>5. CASE ReserveLarger(p)
    <2>1. PICK r : r = Reserve(EventSize(p))
        OBVIOUS
    <2>2. /\ pub[p].pc = "growing" /\ queue' = [queue EXCEPT !.tpc = r.obj]
          /\ IF r.ret = OK THEN SetPub(p, "grown", r.id) ELSE SetPub(p, "aborting", pub[p].id)
        BY <1>5, <2>1 DEF ReserveLarger
    <2>3. CASE r.ret # OK /\ r.id = NO_ID /\ r.obj = queue.tpc
        <3>1. Quiet
            BY <2>2, <2>3, TpcQuiet
        <3>2. pub' = [pub EXCEPT ![p] = [pc |-> "aborting", id |-> pub[p].id]]
            BY <2>2, <2>3 DEF SetPub
        <3> QED
            BY <3>1, <3>2, SettlesLeaves
    <2>4. CASE /\ r.ret = OK /\ r.id = NextId(queue.tpc) /\ TpcShape(r.obj) /\ queue.exists
               /\ r.obj.last_id = NextId(queue.tpc)
        <3>1. /\ QueueShape(queue') /\ queue'.exists = queue.exists /\ queue'.inc = queue.inc
              /\ queue'.tpc = r.obj
            BY <2>2, <2>4, SetTpc
        <3>2. pub' = [pub EXCEPT ![p] = [pc |-> "grown", id |-> NextId(queue.tpc)]]
            BY <2>2, <2>4 DEF SetPub
        <3> QED
            BY <2>2, <2>4, <3>1, <3>2 DEF IsGranted
    <2> QED
        BY <2>1, <2>3, <2>4, ReserveStep
<1>6. CASE CommitLarger(p)
    BY <1>6, CommitStep DEF CommitLarger
<1>7. CASE CrashRequest(p)
    <2>1. queue' = queue /\ pub' = [pub EXCEPT ![p] = [pc |-> "dead", id |-> pub[p].id]]
        BY <1>7 DEF CrashRequest, SetPub
    <2> QED
        BY <2>1, SameQuiet, SettlesLeaves
<1> QED
    BY <1>1, <1>2, <1>3, <1>4, <1>5, <1>6, <1>7 DEF Request

\* The steps of the managers and of time hand out no id.
LEMMA DaemonStep ==
    ASSUME QueueShape(queue), NEW d \in Daemons,
           \/ ProcessQueues(d) \/ ProcessQueue(d) \/ cleanup_queue(d)
           \/ CrashDaemon(d) \/ LockLapses(d)
    PROVE  Quiet /\ pub' = pub
<1>1. CASE queue' = queue /\ pub' = pub
    BY <1>1, SameQuiet
<1>2. CASE ProcessQueues(d)
    <2>1. pub' = pub
        BY <1>2 DEF ProcessQueues, read_queue_list, process_queues
    <2>2. PICK lk : lk = LockRequest(d).lk
        OBVIOUS
    <2>3. queue' = queue \/ queue' = [queue EXCEPT !.lk = lk]
        BY <1>2, <2>2 DEF ProcessQueues, read_queue_list, process_queues
    <2>4. ASSUME queue' = [queue EXCEPT !.lk = lk]
          PROVE  Quiet
        BY <2>4 DEF QueueShape, Quiet
    <2> QED
        BY <1>1, <2>1, <2>3, <2>4
<1>3. CASE ProcessQueue(d)
    <2>1. CASE RemoveEntries(d)
        <3>1. pub' = pub
            BY <2>1 DEF RemoveEntries
        <3>2. PICK o : o = cls_2pc_queue_remove_entries(queue.tpc, proc[d].end).obj
            OBVIOUS
        <3>3. queue' = queue \/ (queue.exists /\ queue' = [queue EXCEPT !.tpc = o])
            BY <2>1, <3>2 DEF RemoveEntries, CheckOwner
        <3>4. Keeps(queue.tpc, o)
            BY <3>2, RemoveKeeps DEF QueueShape
        <3> QED
            BY <1>1, <3>1, <3>3, <3>4, TpcQuiet
    <2>2. CASE ~RemoveEntries(d)
        BY <1>1, <1>3, <2>2 DEF ProcessQueue, ListEntries, SpawnEntry, EntryAnswered
    <2> QED
        BY <2>1, <2>2
<1>4. CASE cleanup_queue(d)
    <2>1. pub' = pub
        BY <1>4 DEF cleanup_queue
    <2>2. PICK o : o = cls_2pc_queue_expire_reservations(queue.tpc, Young).obj
        OBVIOUS
    <2>3. queue' = queue \/ (queue.exists /\ queue' = [queue EXCEPT !.tpc = o])
        BY <1>4, <2>2 DEF cleanup_queue, CheckOwner
    <2>4. Keeps(queue.tpc, o)
        BY <2>2, ExpireKeeps DEF QueueShape
    <2> QED
        BY <1>1, <2>1, <2>3, <2>4, TpcQuiet
<1>5. CASE CrashDaemon(d)
    BY <1>1, <1>5 DEF CrashDaemon
<1>6. CASE LockLapses(d)
    <2>1. PICK lk : lk = [queue.lk EXCEPT !.lockers[Locker(d)] = LapsedEnd]
        OBVIOUS
    <2>2. queue' = [queue EXCEPT !.lk = lk]
        BY <1>6, <2>1 DEF LockLapses, QueueShape
    <2>3. Quiet
        BY <2>2 DEF QueueShape, Quiet
    <2> QED
        BY <1>6, <2>3 DEF LockLapses
<1> QED
    BY <1>2, <1>3, <1>4, <1>5, <1>6

\* Time passes for the reservations; none is made or given up.
LEMMA StaleStep ==
    ASSUME QueueShape(queue), StalePeriodPasses
    PROVE  Quiet /\ pub' = pub
<1>1. PICK r : r = Aged(queue.tpc.reservations)
    OBVIOUS
<1>2. PICK x : x = Aged(queue.tpc.xattrs)
    OBVIOUS
<1>3. PICK old : old = queue.tpc
    OBVIOUS
<1>4. PICK o : o = [old EXCEPT !.reservations = r, !.xattrs = x]
    OBVIOUS
<1>5. queue' = [queue EXCEPT !.tpc = o] /\ queue.exists /\ pub' = pub
    BY <1>1, <1>2, <1>3, <1>4 DEF StalePeriodPasses, QueueShape, TpcShape
<1>6. Keeps(old, o)
    BY <1>3, <1>4 DEF QueueShape, TpcShape, Keeps
<1> QED
    BY <1>3, <1>5, <1>6, TpcQuiet

-----------------------------------------------------------------------------
(* What topic operations do to the queue object. *)

\* A new queue object.
LEMMA NewQueueShape ==
    ASSUME NEW q, NEW n,
           q = [NewQueue EXCEPT !.inc = n] \/ q = [NewQueue EXCEPT !.exists = FALSE, !.inc = n]
    PROVE  QueueShape(q) /\ q.inc = n /\ q.tpc = cls_2pc_queue_init
<1>1. PICK o : o = cls_2pc_queue_init
    OBVIOUS
<1>2. PICK lk : lk = Lk!Unlocked(TRUE)
    OBVIOUS
<1>3. PICK t, f : t = TRUE /\ f = FALSE
    OBVIOUS
<1>4. TpcShape(o)
    BY <1>1 DEF TpcShape, cls_2pc_queue_init
<1>5. NewQueue = [exists |-> t, tpc |-> o, lk |-> lk, inc |-> 1]
    BY <1>1, <1>2, <1>3 DEF NewQueue
<1>6. \/ q = [exists |-> t, tpc |-> o, lk |-> lk, inc |-> n]
      \/ q = [exists |-> f, tpc |-> o, lk |-> lk, inc |-> n]
    BY <1>3, <1>5
<1> QED
    BY <1>1, <1>4, <1>6 DEF QueueShape

\* What a topic operation does to the queue object: nothing, it creates the next
\* incarnation of a queue that does not exist, or it deletes one that does.
QueueCreated ==
    /\ ~queue.exists
    /\ QueueShape(queue') /\ queue'.exists /\ queue'.inc = queue.inc + 1
QueueDeleted ==
    /\ queue.exists
    /\ QueueShape(queue') /\ ~queue'.exists /\ queue'.inc = queue.inc
    /\ queue'.tpc = cls_2pc_queue_init

\* The steps of a topic operation (rgw_notify.cc: add_persistent_topic,
\* remove_persistent_topic).
LEMMA TopicStep ==
    ASSUME QueueShape(queue), NEW a \in Admins, Topic(a) \/ CrashAdmin(a)
    PROVE  pub' = pub /\ (queue' = queue \/ QueueCreated \/ QueueDeleted)
<1>1. pub' = pub
    BY DEF Topic, CrashAdmin, add_persistent_topic, ListTopic, remove_persistent_topic,
           UnlistTopic
<1>2. PICK n : n = queue.inc
    OBVIOUS
<1>3. CASE queue' = queue
    BY <1>1, <1>3
<1>4. CASE ~queue.exists /\ queue' = [NewQueue EXCEPT !.inc = queue.inc + 1]
    <2>1. QueueShape(queue') /\ queue'.inc = queue.inc + 1
        BY <1>4, NewQueueShape
    <2>2. queue'.exists
        BY <1>4, Zenon DEF NewQueue
    <2> QED
        BY <1>1, <1>4, <2>1, <2>2 DEF QueueCreated
<1>5. CASE queue.exists /\ queue' = [NewQueue EXCEPT !.exists = FALSE, !.inc = queue.inc]
    <2>1. QueueShape(queue') /\ queue'.inc = queue.inc /\ queue'.tpc = cls_2pc_queue_init
        BY <1>5, NewQueueShape
    <2>2. ~queue'.exists
        BY <1>5, Zenon DEF NewQueue
    <2> QED
        BY <1>1, <1>5, <2>1, <2>2 DEF QueueDeleted
<1> QED
    BY <1>3, <1>4, <1>5 DEF Topic, CrashAdmin, add_persistent_topic, ListTopic,
           remove_persistent_topic, UnlistTopic

\* The queue object of the initial states.
LEMMA InitQueue ==
    ASSUME Init
    PROVE  /\ QueueShape(queue) /\ queue.exists /\ queue.inc = 1
           /\ queue.tpc.last_id = NO_ID
<1>1. PICK start \in StartOffsets :
          queue = [NewQueue EXCEPT !.tpc.q.front = [gen |-> 0, offset |-> start],
                                   !.tpc.q.tail = [gen |-> 0, offset |-> start]]
    BY DEF Init
<1>2. PICK m : m = [gen |-> 0, offset |-> start]
    OBVIOUS
<1>3. PICK o : o = cls_2pc_queue_init
    OBVIOUS
<1>4. PICK r : r = [[o.q EXCEPT !.front = m] EXCEPT !.tail = m]
    OBVIOUS
<1>5. PICK lk : lk = Lk!Unlocked(TRUE)
    OBVIOUS
<1>6. PICK t : t = TRUE
    OBVIOUS
<1>7. NewQueue = [exists |-> t, tpc |-> o, lk |-> lk, inc |-> 1]
    BY <1>3, <1>5, <1>6 DEF NewQueue
<1>8. TpcShape(o) /\ o.last_id = NO_ID
    BY <1>3 DEF TpcShape, cls_2pc_queue_init
<1>9. queue = [exists |-> t, tpc |-> [o EXCEPT !.q = r], lk |-> lk, inc |-> 1]
    BY <1>1, <1>2, <1>4, <1>7, <1>8 DEF TpcShape
<1> QED
    BY <1>6, <1>8, <1>9 DEF QueueShape, TpcShape

-----------------------------------------------------------------------------
(* Reservation ids. *)

\* The requests that asked for a reservation, and those that asked a second time or
\* will not ask again.
Asked == {p \in Publishers : pub[p].pc # "idle"}
Done  == {p \in Publishers : pub[p].pc \notin Open}

\* The first queue object counts its ids up, once or twice for a request, and no two
\* requests hold the same one.
IdsCounted ==
    /\ queue.tpc.last_id \in Nat
    /\ queue.tpc.last_id <= Cardinality(Asked) + Cardinality(Done)
    /\ \A p \in Publishers : pub[p].id \in 0 .. queue.tpc.last_id
    /\ \A p, r \in Publishers : p # r /\ pub[p].id = pub[r].id => pub[p].id = NO_ID

IdInv ==
    /\ QueueShape(queue)
    /\ queue.inc \in Nat \ {0}
    /\ DOMAIN pub = Publishers
    /\ queue.inc = 1 => IF queue.exists THEN IdsCounted ELSE queue.tpc = cls_2pc_queue_init

\* A request that settles holds no other id than before, and counts at least as much.
LEMMA SettlesCounted ==
    ASSUME IsFiniteSet(Publishers), DOMAIN pub = Publishers, IdsCounted,
           NEW p \in Publishers, Settles(p), queue'.tpc.last_id = queue.tpc.last_id
    PROVE  IdsCounted'
<1>1. PICK pc, id : /\ pub' = [pub EXCEPT ![p] = [pc |-> pc, id |-> id]]
                    /\ id \in {NO_ID, pub[p].id}
                    /\ pc # "idle"
                    /\ pub[p].pc \notin Open => pc \notin Open
    BY DEF Settles
<1>2. /\ pub'[p].pc = pc /\ pub'[p].id = id
      /\ \A r \in Publishers \ {p} : pub'[r] = pub[r]
    BY <1>1
<1>3. PICK A, D, B, E : A = Asked /\ D = Done /\ B = Asked' /\ E = Done'
    OBVIOUS
<1>4. A \subseteq B /\ D \subseteq E /\ B \subseteq Publishers /\ E \subseteq Publishers
    BY <1>1, <1>2, <1>3 DEF Asked, Done
<1>5. IsFiniteSet(B) /\ IsFiniteSet(E) /\ IsFiniteSet(A) /\ IsFiniteSet(D)
    BY <1>4, FS_Subset
<1>6. Cardinality(A) <= Cardinality(B) /\ Cardinality(D) <= Cardinality(E)
    BY <1>4, <1>5, FS_Subset
<1>7. /\ Cardinality(A) \in Nat /\ Cardinality(B) \in Nat
      /\ Cardinality(D) \in Nat /\ Cardinality(E) \in Nat
    BY <1>5, FS_CardinalityType
<1>8. PICK last : last = queue.tpc.last_id
    OBVIOUS
<1>9. last \in Nat /\ last <= Cardinality(B) + Cardinality(E)
    BY <1>3, <1>6, <1>7, <1>8 DEF IdsCounted
<1>10. \A r \in Publishers : pub'[r].id \in 0 .. last
    BY <1>1, <1>2, <1>8 DEF IdsCounted, NO_ID
<1>11. \A r, s \in Publishers : r # s /\ pub'[r].id = pub'[s].id => pub'[r].id = NO_ID
    BY <1>1, <1>2 DEF IdsCounted
<1> QED
    BY <1>3, <1>8, <1>9, <1>10, <1>11 DEF IdsCounted

\* A request that is given an id counts once more, and nobody holds that id.
LEMMA GrantCounted ==
    ASSUME IsFiniteSet(Publishers), IdMod > 2 * Cardinality(Publishers),
           DOMAIN pub = Publishers, IdsCounted, NEW p \in Publishers, IsGranted(p)
    PROVE  IdsCounted'
<1>1. PICK pc : /\ pub' = [pub EXCEPT ![p] = [pc |-> pc, id |-> NextId(queue.tpc)]]
                /\ \/ pub[p].pc = "idle" /\ pc = "reserved"
                   \/ pub[p].pc = "growing" /\ pc = "grown"
    BY DEF IsGranted
<1>2. /\ pub'[p].pc = pc /\ pub'[p].id = NextId(queue.tpc)
      /\ \A r \in Publishers \ {p} : pub'[r] = pub[r]
    BY <1>1
<1>3. PICK A, D, B, E : A = Asked /\ D = Done /\ B = Asked' /\ E = Done'
    OBVIOUS
<1>4. B \subseteq Publishers /\ E \subseteq Publishers /\ A \subseteq Publishers
      /\ D \subseteq Publishers
    BY <1>3 DEF Asked, Done
<1>5. \/ /\ p \notin A /\ B = A \cup {p} /\ E = D
      \/ /\ p \notin D /\ E = D \cup {p} /\ B = A
    <2>1. CASE pub[p].pc = "idle" /\ pc = "reserved"
        <3>1. p \notin A /\ B = A \cup {p}
            BY <1>2, <1>3, <2>1 DEF Asked
        <3>2. E = D
            BY <1>2, <1>3, <2>1 DEF Done, Open
        <3> QED
            BY <3>1, <3>2
    <2>2. CASE pub[p].pc = "growing" /\ pc = "grown"
        <3>1. p \notin D /\ E = D \cup {p}
            BY <1>2, <1>3, <2>2 DEF Done, Open
        <3>2. B = A
            BY <1>2, <1>3, <2>2 DEF Asked
        <3> QED
            BY <3>1, <3>2
    <2> QED
        BY <1>1, <2>1, <2>2
<1>6. IsFiniteSet(A) /\ IsFiniteSet(D) /\ IsFiniteSet(B) /\ IsFiniteSet(E)
    BY <1>4, FS_Subset
<1>7. /\ Cardinality(A) \in Nat /\ Cardinality(B) \in Nat
      /\ Cardinality(D) \in Nat /\ Cardinality(E) \in Nat /\ Cardinality(Publishers) \in Nat
    BY <1>6, FS_CardinalityType
<1>8. Cardinality(B) <= Cardinality(Publishers) /\ Cardinality(E) <= Cardinality(Publishers)
    BY <1>4, FS_Subset
<1>9. Cardinality(B) + Cardinality(E) = Cardinality(A) + Cardinality(D) + 1
    <2>1. CASE p \notin A /\ B = A \cup {p} /\ E = D
        <3>1. Cardinality(B) = Cardinality(A) + 1
            BY <1>6, <2>1, FS_AddElement
        <3> QED
            BY <1>7, <2>1, <3>1
    <2>2. CASE p \notin D /\ E = D \cup {p} /\ B = A
        <3>1. Cardinality(E) = Cardinality(D) + 1
            BY <1>6, <2>2, FS_AddElement
        <3> QED
            BY <1>7, <2>2, <3>1
    <2> QED
        BY <1>5, <2>1, <2>2
<1>10. PICK last : last = queue.tpc.last_id
    OBVIOUS
<1>11. last \in Nat /\ last <= Cardinality(A) + Cardinality(D)
    BY <1>3, <1>10 DEF IdsCounted
<1>12. last + 1 < IdMod
    BY <1>7, <1>8, <1>9, <1>11, TwoPCConstants
<1>13. NextId(queue.tpc) = last + 1
    BY <1>10, <1>11, <1>12, TwoPCConstants DEF NextId
<1>14. queue'.tpc.last_id = last + 1 /\ last + 1 <= Cardinality(B) + Cardinality(E)
    BY <1>7, <1>9, <1>11, <1>13 DEF IsGranted
<1>15. \A r \in Publishers : pub[r].id \in 0 .. last
    BY <1>10 DEF IdsCounted
<1>16. \A r \in Publishers : pub'[r].id \in 0 .. last + 1
    BY <1>2, <1>11, <1>13, <1>15
<1>17. \A r, s \in Publishers : r # s /\ pub'[r].id = pub'[s].id => pub'[r].id = NO_ID
    <2>1. \A r \in Publishers : pub[r].id # last + 1
        BY <1>11, <1>15
    <2> QED
        BY <1>2, <1>13, <2>1 DEF IdsCounted
<1> QED
    BY <1>3, <1>11, <1>14, <1>16, <1>17 DEF IdsCounted

\* Two requests never hold the same reservation, while the first queue object has not
\* handed out all the ids there are: a commit or an abort settles the request's own
\* reservation, however late it comes (rgw_notify.cc: publish_commit, publish_abort;
\* cls_2pc_queue.cc: cls_2pc_queue_reserve).
THEOREM NotifyNoSharedReservation ==
    ASSUME IsFiniteSet(Publishers), IdMod > 2 * Cardinality(Publishers)
    PROVE  Spec => []NoSharedReservation
<1>1. Init => IdInv
    <2> SUFFICES ASSUME Init
                 PROVE  IdInv
        OBVIOUS
    <2>1. QueueShape(queue) /\ queue.exists /\ queue.inc = 1 /\ queue.tpc.last_id = NO_ID
        BY InitQueue
    <2>2. PICK c : c = [pc |-> "idle", id |-> NO_ID]
        OBVIOUS
    <2>3. c.id = NO_ID
        BY <2>2
    <2>4. pub = [p \in Publishers |-> c]
        BY <2>2 DEF Init
    <2>5. PICK A, D : A = Asked /\ D = Done
        OBVIOUS
    <2>6. IsFiniteSet(A) /\ IsFiniteSet(D)
        BY <2>5, FS_Subset DEF Asked, Done
    <2>7. Cardinality(A) \in Nat /\ Cardinality(D) \in Nat
        BY <2>6, FS_CardinalityType
    <2>8. IdsCounted
        BY <2>1, <2>3, <2>4, <2>5, <2>7 DEF IdsCounted, NO_ID
    <2> QED
        BY <2>1, <2>4, <2>8 DEF IdInv
<1>2. IdInv /\ [Next]_vars => IdInv'
    <2> SUFFICES ASSUME IdInv, [Next]_vars
                 PROVE  IdInv'
        OBVIOUS
    <2> USE DEF IdInv
    <2>1. ASSUME Quiet, pub' = pub
          PROVE  IdInv'
        BY <2>1 DEF Quiet, IdsCounted, Asked, Done
    <2>2. ASSUME NEW p \in Publishers, Request(p) \/ CrashRequest(p)
          PROVE  IdInv'
        <3>1. CASE Quiet /\ Settles(p)
            <4>1. DOMAIN pub' = Publishers
                BY <3>1 DEF Settles
            <4> QED
                BY <3>1, <4>1, SettlesCounted DEF Quiet
        <3>2. CASE IsGranted(p)
            <4>1. DOMAIN pub' = Publishers
                BY <3>2 DEF IsGranted
            <4> QED
                BY <3>2, <4>1, GrantCounted DEF IsGranted
        <3> QED
            BY <2>2, <3>1, <3>2, RequestStep
    <2>3. ASSUME NEW d \in Daemons,
                 \/ ProcessQueues(d) \/ ProcessQueue(d) \/ cleanup_queue(d)
                 \/ CrashDaemon(d) \/ LockLapses(d)
          PROVE  IdInv'
        BY <2>1, <2>3, DaemonStep
    <2>4. ASSUME NEW a \in Admins, Topic(a) \/ CrashAdmin(a)
          PROVE  IdInv'
        <3>1. pub' = pub /\ (queue' = queue \/ QueueCreated \/ QueueDeleted)
            BY <2>4, TopicStep
        <3>2. CASE queue' = queue
            BY <2>1, <3>1, <3>2, SameQuiet
        <3>3. CASE QueueCreated
            BY <3>1, <3>3 DEF QueueCreated
        <3>4. CASE QueueDeleted
            BY <3>1, <3>4 DEF QueueDeleted
        <3> QED
            BY <3>1, <3>2, <3>3, <3>4
    <2>5. CASE StalePeriodPasses
        BY <2>1, <2>5, StaleStep
    <2>6. CASE UNCHANGED vars
        BY <2>1, <2>6, SameQuiet DEF vars
    <2> QED
        BY <2>2, <2>3, <2>4, <2>5, <2>6 DEF Next
<1>3. IdInv => NoSharedReservation
    <2> SUFFICES ASSUME IdInv, queue.inc = 1, NEW p \in Publishers, NEW r \in Publishers,
                        p # r, pub[p].id = pub[r].id, pub[p].id # NO_ID
                 PROVE  ~InHead(queue.tpc, pub[p].id) /\ ~InXattrs(queue.tpc, pub[p].id)
        BY DEF NoSharedReservation
    <2>1. queue.tpc = cls_2pc_queue_init
        BY DEF IdInv, IdsCounted
    <2>2. PICK o : o = cls_2pc_queue_init
        OBVIOUS
    <2>3. /\ o.reservations = [i \in Ids |-> NoReservation]
          /\ o.xattrs = [i \in Ids |-> NoReservation]
        BY <2>2 DEF cls_2pc_queue_init
    <2>4. Pending(o.reservations) = {} /\ Pending(o.xattrs) = {}
        BY <2>3 DEF Pending, NoReservation
    <2> QED
        BY <2>1, <2>2, <2>4 DEF InHead, InXattrs
<1> QED
    BY <1>1, <1>2, <1>3, PTL DEF Spec

-----------------------------------------------------------------------------
(* The ring of the queue object is the one of QueueClassProofs. *)

Ring == INSTANCE QueueClassProofs WITH
    Clients <- {}, Sizes <- Nat, VectorLengths <- {1}, MaxIssued <- 0, MaxList <- 1,
    q <- queue, reply <- listed, issued <- topicOps, held <- mgr, contents <- owned

\* The constants of the queue class.
LEMMA RingConstants ==
    /\ MaxHeadSize \in Nat \ {0} /\ QueueSize \in Nat /\ QueueSize > MaxHeadSize
    /\ EntryOverhead \in Nat \ {0}
    /\ Nat \subseteq Nat /\ {1} \subseteq 1 .. Ring!MaxVector /\ 0 \in Nat /\ 1 \in Nat \ {0}
BY QueueSizes DEF Ring!MaxVector

\* Its operators are the ones of this module.
LEMMA SameStarts ==
    ASSUME NEW stream
    PROVE  Ring!EntryStarts(stream) = EntryStarts(stream)
BY Zenon DEF Ring!EntryStarts, EntryStarts, Ring!IsWhole, IsWhole, Ring!HasHeader, HasHeader,
   Ring!GoodHeader, GoodHeader, Ring!EntryEnd, EntryEnd, Ring!RingLength, RingLength

LEMMA SameStream ==
    ASSUME NEW ring, NEW s
    PROVE  Ring!Stream(ring, s) = Stream(ring, s)
BY Zenon DEF Ring!StreamMarker, StreamMarker, Ring!Contiguous, Contiguous, Ring!WrapsAround, WrapsAround,
   Ring!Stream, Stream, Ring!StreamLength, StreamLength

LEMMA SameList ==
    ASSUME NEW ring, NEW start, NEW max
    PROVE  Ring!queue_list_entries(ring, start, max) = queue_list_entries(ring, start, max)
<1>1. queue_list_entries(ring, start, max) =
          Ring!Answer(ring, IF start.offset = 0 THEN ring.front ELSE start,
                      Stream(ring, IF start.offset = 0 THEN ring.front ELSE start),
                      EntryStarts(Stream(ring, IF start.offset = 0 THEN ring.front ELSE start)), max)
  BY Zenon DEF queue_list_entries, Ring!Answer, Ring!IsEmpty, IsEmpty, Ring!OK, OK, Ring!EINVAL, EINVAL,
     Ring!StreamMarker, StreamMarker, Ring!Contiguous, Contiguous, Ring!WrapsAround, WrapsAround,
     Ring!HasHeader, HasHeader, Ring!GoodHeader, GoodHeader, Ring!EntryEnd, EntryEnd,
     Ring!RingLength, RingLength, Ring!ReadAt, ReadAt, Ring!WrapMarker, WrapMarker, Ring!NoMarker, NoMarker
<1>2. PICK s : s = IF start.offset = 0 THEN ring.front ELSE start
  OBVIOUS
<1>3. queue_list_entries(ring, start, max) =
          Ring!Answer(ring, s, Stream(ring, s), EntryStarts(Stream(ring, s)), max)
  BY <1>1, <1>2
<1>4. Ring!queue_list_entries(ring, start, max) =
          Ring!Answer(ring, s, Ring!Stream(ring, s), Ring!EntryStarts(Ring!Stream(ring, s)), max)
  BY <1>2, RingConstants, Ring!AnswerIs
<1>5. Ring!Stream(ring, s) = Stream(ring, s)
  BY SameStream
<1>6. Ring!EntryStarts(Stream(ring, s)) = EntryStarts(Stream(ring, s))
  BY SameStarts
<1> QED BY <1>3, <1>4, <1>5, <1>6

LEMMA SameEnqueue ==
    ASSUME NEW ring, NEW es
    PROVE  Ring!queue_enqueue(ring, es) = queue_enqueue(ring, es)
BY Zenon DEF Ring!queue_enqueue, queue_enqueue, Ring!EnqueueOne, EnqueueOne, Ring!IsFull, IsFull,
   Ring!HasRoom, HasRoom, Ring!RemainingSize, RemainingSize, Ring!RingLength, RingLength,
   Ring!TailAfter, TailAfter, Ring!WrapMarker, WrapMarker, Ring!WriteEntry, WriteEntry,
   Ring!RingDistance, RingDistance, Ring!Offset, Offset, Ring!OK, OK, Ring!ENOSPC, ENOSPC

LEMMA SameRemove ==
    ASSUME NEW ring, NEW end
    PROVE  Ring!queue_remove_entries(ring, end) = queue_remove_entries(ring, end)
BY Zenon DEF Ring!queue_remove_entries, queue_remove_entries, Ring!IsEmpty, IsEmpty, Ring!Ahead, Ahead,
   Ring!Removed, Removed, Ring!WrapMarker, WrapMarker, Ring!Offset, Offset, Ring!ZeroCell, ZeroCell,
   Ring!OK, OK, Ring!EINVAL, EINVAL

LEMMA SameLive ==
    ASSUME NEW ring
    PROVE  Ring!Live(ring) = Live(ring)
BY Zenon DEF Ring!Live, Live, Ring!Offset, Offset

-----------------------------------------------------------------------------
(* Where the markers of a batch are on the ring. *)

\* The coroutine works on a batch.
Busy(c) == c.pc \in {"spawn", "wait"}

\* An entry as a listing gives it to the coroutine.
Listing == [id : Nat, size : Nat, marker : Marker]
Outcome == {"ok", "fail", "pending"}

\* The batch of a coroutine: entries in the order of the ring, of which the first ones
\* have been sent; com are the committed notifications and ack the acknowledged ones.
BatchOK(c, com, ack) ==
    /\ c.batch \in Seq(Listing) /\ c.status \in Seq(Outcome) /\ c.end \in Marker
    /\ Len(c.status) <= Len(c.batch)
    /\ c.pc = "spawn" => Len(c.status) < Len(c.batch)
    /\ \A j, k \in 1 .. Len(c.batch) : j < k => Ring!Past(c.batch[j].marker, c.batch[k].marker)
    /\ \A j \in 1 .. Len(c.batch) : c.batch[j].id \in com
    /\ \A j \in 1 .. Len(c.status) : c.status[j] = "ok" => c.batch[j].id \in ack

\* The marker is behind the front, or is where an entry starts, or the tail.
Placed(m, ring, p, n) ==
    \/ Ring!Past(m, ring.front)
    \/ \E i \in 1 .. n + 1 : m = Ring!MarkerAt(ring, p[i])

\* Entry k of the ring is in the batch and has not failed.
Sent(c, ring, es, p, k) ==
    \E j \in 1 .. Len(c.batch) :
        /\ c.batch[j].marker = Ring!MarkerAt(ring, p[k])
        /\ c.batch[j].id = es[k].id
        /\ j <= Len(c.status) => c.status[j] # "fail"
        /\ c.pc = "wait" => j <= Len(c.status)

\* The end marker is behind the front, or no entry before it failed (if strict).
EndOK(c, ring, es, p, strict) ==
    \/ Ring!Past(c.end, ring.front)
    \/ \E e \in 1 .. Len(es) + 1 :
           /\ c.end = Ring!MarkerAt(ring, p[e])
           /\ strict => \A k \in 1 .. Len(es) : k < e => Sent(c, ring, es, p, k)

At(c, ring, es, p, strict) ==
    /\ \A j \in 1 .. Len(c.batch) : Placed(c.batch[j].marker, ring, p, Len(es))
    /\ EndOK(c, ring, es, p, strict)

\* Markers are ordered by lap and offset.
LEMMA PastOrder ==
    ASSUME NEW a \in Marker, NEW b \in Marker
    PROVE  /\ ~Ring!Past(a, a)
           /\ Ring!Past(a, b) => ~Ring!Past(b, a)
           /\ \A c \in Marker : Ring!Past(a, b) /\ Ring!Past(b, c) => Ring!Past(a, c)
           /\ Ring!Past(a, b) \/ Ring!Past(b, a) \/ a = b
           /\ a.gen = b.gen => set_min_marker(a, b) = IF Ring!Past(b, a) THEN b ELSE a
           /\ set_min_marker(a, b) \in {a, b}
<1>1. /\ a.gen \in Nat /\ a.offset \in Nat /\ b.gen \in Nat /\ b.offset \in Nat
      /\ a = [gen |-> a.gen, offset |-> a.offset] /\ b = [gen |-> b.gen, offset |-> b.offset]
  BY DEF Marker
<1>2. ~Ring!Past(a, a) /\ (Ring!Past(a, b) => ~Ring!Past(b, a))
  BY <1>1 DEF Ring!Past
<1>3. \A c \in Marker : Ring!Past(a, b) /\ Ring!Past(b, c) => Ring!Past(a, c)
  BY <1>1 DEF Ring!Past, Marker
<1>4. Ring!Past(a, b) \/ Ring!Past(b, a) \/ a = b
  BY <1>1 DEF Ring!Past
<1>5. a.gen = b.gen => set_min_marker(a, b) = IF Ring!Past(b, a) THEN b ELSE a
  BY <1>1 DEF Ring!Past, set_min_marker
<1>6. set_min_marker(a, b) \in {a, b}
  BY DEF set_min_marker
<1> QED BY <1>2, <1>3, <1>4, <1>5, <1>6

\* The types of the two instances are the same.
LEMMA SameTypes ==
    /\ Ring!Marker = Marker /\ Ring!Entry = Entry /\ Ring!Offset = Offset
    /\ Ring!queue_get_capacity = queue_get_capacity /\ queue_get_capacity \in Nat
    /\ \A e : Ring!RingLength(e) = RingLength(e)
<1>1. queue_get_capacity \in Nat
  BY QueueSizes DEF queue_get_capacity
<1> QED
  BY <1>1 DEF Ring!Marker, Marker, Ring!Entry, Entry, Ring!Offset, Offset,
     Ring!queue_get_capacity, queue_get_capacity, Ring!RingLength, RingLength

\* The entries of the ring start one behind the other, from the front on.
LEMMA StartsOrdered ==
    ASSUME NEW ring, NEW es, NEW p, Ring!Layout(es, p), Ring!Holds(ring, es, p)
    PROVE  /\ Len(es) \in Nat /\ ring.front \in Marker
           /\ Ring!MarkerAt(ring, p[1]) = ring.front
           /\ \A i \in 1 .. Len(es) + 1 :
                  /\ Ring!MarkerAt(ring, p[i]) \in Marker
                  /\ p[i] \in Nat /\ p[i] <= queue_get_capacity
                  /\ ~Ring!Past(Ring!MarkerAt(ring, p[i]), ring.front)
           /\ \A i, k \in 1 .. Len(es) + 1 :
                  i < k => Ring!Past(Ring!MarkerAt(ring, p[i]), Ring!MarkerAt(ring, p[k]))
<1>1. /\ Len(es) \in Nat /\ \A i \in 1 .. Len(es) + 1 : p[i] \in Nat /\ p[i] <= p[Len(es) + 1]
  BY RingConstants, Ring!LayoutIs
<1>2. /\ p[1] = 0
      /\ \A i, k \in 1 .. Len(es) + 1 : i < k => p[i] < p[k]
  BY DEF Ring!Layout
<1>3. /\ Ring!Uses(ring, p[Len(es) + 1]) /\ Ring!HasFront(ring)
      /\ p[Len(es) + 1] \in 0 .. queue_get_capacity
  BY SameTypes DEF Ring!Holds, Ring!Uses
<1>4. Ring!MarkerAt(ring, 0) = ring.front
  BY <1>3, RingConstants, Ring!EmptyIs
<1>5. ASSUME NEW i \in 1 .. Len(es) + 1
      PROVE  p[i] \in 0 .. queue_get_capacity /\ Ring!MarkerAt(ring, p[i]) \in Marker
  <2>1. p[i] \in 0 .. queue_get_capacity
    BY <1>1, <1>3, SameTypes
  <2>2. p[i] \in 0 .. Ring!queue_get_capacity
    BY <2>1, SameTypes
  <2>3. Ring!MarkerAt(ring, p[i]) \in Ring!Marker
    BY <1>3, <2>2, RingConstants, Ring!MarkerIs
  <2> QED BY <2>1, <2>3, SameTypes
<1>6. ASSUME NEW i \in 1 .. Len(es) + 1, NEW k \in 1 .. Len(es) + 1, i < k
      PROVE  Ring!Past(Ring!MarkerAt(ring, p[i]), Ring!MarkerAt(ring, p[k]))
  <2>1. p[i] \in Nat /\ p[k] \in Nat /\ p[i] < p[k] /\ p[k] <= Ring!queue_get_capacity
    BY <1>1, <1>2, <1>5, <1>6, SameTypes
  <2>2. \A b \in Nat : b < p[k] => Ring!Past(Ring!MarkerAt(ring, b), Ring!MarkerAt(ring, p[k]))
    BY <1>3, <2>1, RingConstants, Ring!FrontMoves
  <2> QED BY <2>1, <2>2
<1>7. 1 \in 1 .. Len(es) + 1
  BY <1>1
<1>8. Ring!MarkerAt(ring, p[1]) = ring.front /\ ring.front \in Marker
  BY <1>2, <1>4, <1>5, <1>7
<1>9. ASSUME NEW i \in 1 .. Len(es) + 1
      PROVE  ~Ring!Past(Ring!MarkerAt(ring, p[i]), ring.front)
  <2>1. i = 1 \/ 1 < i
    BY <1>1
  <2>2. CASE i = 1
    BY <1>8, <2>2, PastOrder
  <2>3. CASE 1 < i
    BY <1>5, <1>6, <1>7, <1>8, <2>3, PastOrder
  <2> QED BY <2>1, <2>2, <2>3
<1>10. \A i \in 1 .. Len(es) + 1 : p[i] \in Nat /\ p[i] <= queue_get_capacity
  BY <1>5, SameTypes
<1> QED BY <1>1, <1>5, <1>6, <1>8, <1>9, <1>10

\* The coroutine c2 is c after the outcome of entry i of the batch: the next one that is
\* sent, or one that was pending.
Answered(c, c2, i) ==
    /\ c2.batch = c.batch /\ i \in 1 .. Len(c.batch) /\ i <= Len(c2.status)
    /\ c2.status \in Seq(Outcome)
    /\ c.pc = "spawn" => i = Len(c.status) + 1 /\ i = Len(c2.status)
    /\ c.pc = "wait" => c2.pc = "wait" /\ Len(c2.status) = Len(c.status)
    /\ \A j \in 1 .. Len(c2.status) : j # i => j <= Len(c.status) /\ c2.status[j] = c.status[j]
    /\ c2.pc = "wait" => i = Len(c.batch) \/ c2.status[i] = "fail" \/ c.pc = "wait"

\* The types of a batch.
LEMMA BatchIs ==
    ASSUME NEW c, NEW com, NEW ack, BatchOK(c, com, ack)
    PROVE  /\ Len(c.batch) \in Nat /\ Len(c.status) \in Nat
           /\ c.end \in Marker
           /\ \A h \in 1 .. Len(c.batch) : c.batch[h].marker \in Marker
<1>1. c.batch \in Seq(Listing) /\ c.status \in Seq(Outcome) /\ c.end \in Marker
  BY DEF BatchOK
<1>2. \A h \in 1 .. Len(c.batch) : c.batch[h] \in Listing
  BY <1>1
<1>3. \A e \in Listing : e.marker \in Marker
  BY DEF Listing
<1> QED BY <1>1, <1>2, <1>3

\* An entry of the ring before entry i of the batch, or one that stays in the batch when
\* i did not fail, is still one that has not failed.
LEMMA SentStays ==
    ASSUME NEW c, NEW c2, NEW i, Busy(c), NEW com, NEW ack, BatchOK(c, com, ack), Answered(c, c2, i),
           NEW ring, NEW es, NEW p, Ring!Layout(es, p), Ring!Holds(ring, es, p), NEW k \in 1 .. Len(es),
           Sent(c, ring, es, p, k),
           c2.status[i] # "fail" \/ Ring!Past(Ring!MarkerAt(ring, p[k]), c.batch[i].marker)
    PROVE  Sent(c2, ring, es, p, k)
<1>1. PICK j \in 1 .. Len(c.batch) :
          /\ c.batch[j].marker = Ring!MarkerAt(ring, p[k])
          /\ c.batch[j].id = es[k].id
          /\ j <= Len(c.status) => c.status[j] # "fail"
          /\ c.pc = "wait" => j <= Len(c.status)
  BY DEF Sent
<1>2. /\ c2.batch = c.batch /\ i \in 1 .. Len(c.batch) /\ i <= Len(c2.status)
      /\ Len(c.batch) \in Nat /\ Len(c.status) \in Nat /\ Len(c2.status) \in Nat
      /\ c.pc = "spawn" => i = Len(c.status) + 1 /\ i = Len(c2.status)
      /\ c.pc = "wait" => c2.pc = "wait" /\ Len(c2.status) = Len(c.status)
      /\ \A h \in 1 .. Len(c2.status) : h # i => h <= Len(c.status) /\ c2.status[h] = c.status[h]
      /\ c2.pc = "wait" => i = Len(c.batch) \/ c2.status[i] = "fail" \/ c.pc = "wait"
      /\ \A h, l \in 1 .. Len(c.batch) : h < l => Ring!Past(c.batch[h].marker, c.batch[l].marker)
      /\ \A h \in 1 .. Len(c.batch) : c.batch[h].marker \in Marker
  <2>1. Len(c2.status) \in Nat
    BY DEF Answered
  <2> QED BY <2>1, BatchIs DEF Answered, BatchOK
<1>3. c.pc = "spawn" \/ c.pc = "wait"
  BY DEF Busy
<1>4. c2.status[i] = "fail" => j < i
  <2>1. SUFFICES ASSUME Ring!Past(c.batch[j].marker, c.batch[i].marker) PROVE j < i
    BY <1>1
  <2>2. j # i
    BY <1>2, <2>1, PastOrder
  <2>3. ~(i < j)
    BY <1>2, <2>1, PastOrder
  <2> QED BY <1>2, <2>2, <2>3
<1>5. j <= Len(c2.status) => c2.status[j] # "fail"
  <2>1. CASE j = i
    BY <1>2, <1>4, <2>1
  <2>2. CASE j # i
    BY <1>1, <1>2, <2>2
  <2> QED BY <2>1, <2>2
<1>6. c2.pc = "wait" => j <= Len(c2.status)
  BY <1>1, <1>2, <1>3, <1>4
<1> QED BY <1>1, <1>2, <1>5, <1>6 DEF Sent

\* An outcome other than a failure leaves the end marker (rgw_notify.cc: process_entry).
LEMMA GoodKeepsAt ==
    ASSUME NEW c, NEW c2, NEW i, Busy(c), NEW com, NEW ack, BatchOK(c, com, ack), Answered(c, c2, i),
           NEW ring, NEW es, NEW p, Ring!Layout(es, p), Ring!Holds(ring, es, p),
           NEW strict, NEW strict2, At(c, ring, es, p, strict), strict2 => strict,
           c2.end = c.end, c2.status[i] # "fail"
    PROVE  At(c2, ring, es, p, strict2)
<1>1. \A j \in 1 .. Len(c2.batch) : Placed(c2.batch[j].marker, ring, p, Len(es))
  BY DEF At, Answered
<1>2. CASE Ring!Past(c.end, ring.front)
  BY <1>1, <1>2 DEF At, EndOK
<1>3. CASE ~Ring!Past(c.end, ring.front)
  <2>1. PICK e \in 1 .. Len(es) + 1 :
            /\ c.end = Ring!MarkerAt(ring, p[e])
            /\ strict => \A k \in 1 .. Len(es) : k < e => Sent(c, ring, es, p, k)
    BY <1>3 DEF At, EndOK
  <2>2. strict2 => \A k \in 1 .. Len(es) : k < e => Sent(c2, ring, es, p, k)
    BY <2>1, SentStays
  <2> QED BY <1>1, <2>1, <2>2 DEF At, EndOK
<1> QED BY <1>2, <1>3

\* A failure lowers the end marker to the entry, if both are in one lap (set_min_marker).
LEMMA FailKeepsAt ==
    ASSUME NEW c, NEW c2, NEW i, Busy(c), NEW com, NEW ack, BatchOK(c, com, ack), Answered(c, c2, i),
           NEW ring, NEW es, NEW p, Ring!Layout(es, p), Ring!Holds(ring, es, p),
           NEW strict, NEW strict2, At(c, ring, es, p, strict),
           strict2 => strict /\ c.batch[i].marker.gen = c.end.gen,
           c2.end = set_min_marker(c.end, c.batch[i].marker), c2.status[i] = "fail"
    PROVE  At(c2, ring, es, p, strict2)
<1>1. \A j \in 1 .. Len(c2.batch) : Placed(c2.batch[j].marker, ring, p, Len(es))
  BY DEF At, Answered
<1>2. PICK m : m = c.batch[i].marker
  OBVIOUS
<1>3. m \in Marker /\ c.end \in Marker /\ Placed(m, ring, p, Len(es)) /\ i \in 1 .. Len(c.batch)
  <2>1. i \in 1 .. Len(c.batch) /\ c2.batch = c.batch
    BY DEF Answered
  <2> QED BY <1>1, <1>2, <2>1, BatchIs
<1>4. c2.end \in {m, c.end} /\ c2.end \in Marker
  BY <1>2, <1>3, PastOrder
<1>5. strict2 => c2.end = IF Ring!Past(m, c.end) THEN m ELSE c.end
  BY <1>2, <1>3, PastOrder
<1>6. /\ Len(es) \in Nat /\ ring.front \in Marker
      /\ \A k \in 1 .. Len(es) + 1 :
             /\ Ring!MarkerAt(ring, p[k]) \in Marker
             /\ ~Ring!Past(Ring!MarkerAt(ring, p[k]), ring.front)
      /\ \A h, k \in 1 .. Len(es) + 1 :
             h < k => Ring!Past(Ring!MarkerAt(ring, p[h]), Ring!MarkerAt(ring, p[k]))
  BY StartsOrdered
<1>7. Ring!Past(c.end, ring.front) \/ \E e \in 1 .. Len(es) + 1 : c.end = Ring!MarkerAt(ring, p[e])
  BY DEF At, EndOK
<1>8. SUFFICES ASSUME ~Ring!Past(c2.end, ring.front)
               PROVE  EndOK(c2, ring, es, p, strict2)
  BY <1>1 DEF At, EndOK
<1>9. PICK f \in 1 .. Len(es) + 1 : c2.end = Ring!MarkerAt(ring, p[f])
  BY <1>3, <1>4, <1>7, <1>8 DEF Placed
<1>10. ASSUME strict2, NEW k \in 1 .. Len(es), k < f PROVE Sent(c2, ring, es, p, k)
  <2>1. c2.end = IF Ring!Past(m, c.end) THEN m ELSE c.end
    BY <1>5, <1>10
  <2>2. ~Ring!Past(c.end, ring.front)
    <3>1. CASE c2.end = c.end
      BY <1>8, <3>1
    <3>2. CASE c2.end = m /\ Ring!Past(m, c.end)
      \* what is ahead of a marker that is not behind the front is not behind it either
      BY <1>3, <1>6, <1>8, <3>2, PastOrder
    <3> QED BY <2>1, <3>1, <3>2
  <2>3. PICK e \in 1 .. Len(es) + 1 :
            /\ c.end = Ring!MarkerAt(ring, p[e])
            /\ strict => \A h \in 1 .. Len(es) : h < e => Sent(c, ring, es, p, h)
    BY <2>2 DEF At, EndOK
  <2>4. ~Ring!Past(c.end, c2.end)
    BY <1>3, <1>4, <2>1, PastOrder
  <2>5. ~(e < f)
    BY <1>6, <1>9, <2>3, <2>4
  <2>6. k < e
    BY <1>6, <1>10, <2>5
  <2>7. Sent(c, ring, es, p, k)
    BY <1>10, <2>3, <2>6
  <2>8. k \in 1 .. Len(es) + 1
    BY <1>6
  <2>9. Ring!Past(Ring!MarkerAt(ring, p[k]), c2.end)
    BY <1>6, <1>9, <1>10, <2>8
  <2>10. ~Ring!Past(m, c2.end)
    BY <1>3, <2>1, PastOrder
  <2>11. Ring!Past(Ring!MarkerAt(ring, p[k]), m)
    <3>1. c2.end = m \/ Ring!Past(c2.end, m)
      BY <1>3, <1>4, <2>10, PastOrder
    <3>2. Ring!MarkerAt(ring, p[k]) \in Marker
      BY <1>6, <2>8
    <3> QED BY <1>3, <1>4, <2>9, <3>1, <3>2, PastOrder
  <2> QED BY <1>2, <2>7, <2>11, SentStays
<1> QED BY <1>9, <1>10 DEF EndOK

\* What a listing gives to a coroutine (rgw_notify.cc: process_queue).
LEMMA ListedAt ==
    ASSUME NEW ring, NEW es, NEW p, Ring!Layout(es, p), Ring!Holds(ring, es, p),
           NEW max \in Nat \ {0}, NEW r, r = queue_list_entries(ring, NoMarker, max),
           r.entries # <<>>, NEW c, NEW com, NEW ack, NEW strict,
           c.pc = "spawn", c.batch = r.entries, c.status = <<>>, c.end = r.next,
           \A k \in 1 .. Len(es) : es[k].id \in com
    PROVE  BatchOK(c, com, ack) /\ At(c, ring, es, p, strict)
<1>1. /\ Len(es) \in Nat /\ ring.front \in Marker
      /\ \A k \in 1 .. Len(es) + 1 : Ring!MarkerAt(ring, p[k]) \in Marker
      /\ \A h, k \in 1 .. Len(es) + 1 :
             h < k => Ring!Past(Ring!MarkerAt(ring, p[h]), Ring!MarkerAt(ring, p[k]))
  BY StartsOrdered
<1>2. PICK one : one = 1
  OBVIOUS
<1>3. PICK none : none = NoMarker
  OBVIOUS
<1>4. r = Ring!queue_list_entries(ring, none, max)
  BY <1>3, SameList
<1>5. one \in 1 .. Len(es)
  <2>1. CASE Len(es) = 0
    <3>1. \A start, m : Ring!queue_list_entries(ring, start, m).entries = <<>>
      BY <2>1, RingConstants, Ring!ListEmpty
    <3> QED BY <1>4, <3>1
  <2> QED BY <1>1, <1>2, <2>1
<1>6. none.offset = 0
  BY <1>3 DEF NoMarker
<1>7. /\ Ring!PageSize(es, one, max) \in 1 .. max
      /\ one + Ring!PageSize(es, one, max) \in one + 1 .. Len(es) + 1
      /\ r = Ring!Page(ring, es, p, one, max)
  <2>1. (none.offset = 0 /\ one = 1) \/ none = Ring!MarkerAt(ring, p[one])
    BY <1>2, <1>6
  <2>2. Ring!PageSize(es, one, max) \in 1 .. max
    BY <1>5, <2>1, RingConstants, Ring!ListIs
  <2>3. one + Ring!PageSize(es, one, max) \in one + 1 .. Len(es) + 1
    BY <1>5, <2>1, RingConstants, Ring!ListIs
  <2>4. Ring!queue_list_entries(ring, none, max) = Ring!Page(ring, es, p, one, max)
    BY <1>5, <2>1, RingConstants, Ring!ListIs
  <2> QED BY <1>4, <2>2, <2>3, <2>4
<1>8. PICK n : n = Ring!PageSize(es, one, max)
  OBVIOUS
<1>9. /\ n \in Nat /\ n >= 1 /\ n <= Len(es)
      /\ r.entries = [j \in 1 .. n |-> Ring!ListedAs(ring, es, p, one + j - 1)]
      /\ r.next = Ring!MarkerAt(ring, p[one + n])
  BY <1>1, <1>2, <1>7, <1>8 DEF Ring!Page
<1>10. \A j \in 1 .. n : one + j - 1 = j /\ one + n = n + 1 /\ j \in 1 .. Len(es) /\ j \in 1 .. Len(es) + 1
  BY <1>1, <1>2, <1>9
<1>11. \A k \in 1 .. Len(es) : es[k] \in Entry
  BY RingConstants, Ring!LayoutIs, SameTypes
<1>12. \A j \in 1 .. n : /\ r.entries[j].id = es[j].id /\ r.entries[j].marker = Ring!MarkerAt(ring, p[j])
                         /\ r.entries[j] \in Listing
  BY <1>1, <1>9, <1>10, <1>11 DEF Ring!ListedAs, Listing, Entry
<1>13. r.entries \in Seq(Listing) /\ Len(r.entries) = n
  <2>1. r.entries \in [1 .. n -> Listing]
    BY <1>9, <1>12
  <2>2. PICK batch : batch = r.entries
    OBVIOUS
  <2>3. n \in Nat /\ batch \in [1 .. n -> Listing]
    BY <1>9, <2>1, <2>2
  <2>4. PICK listing : listing = Listing
    OBVIOUS
  <2>5. batch \in Seq(listing) /\ Len(batch) = n
    BY <2>3, <2>4
  <2> QED BY <2>2, <2>4, <2>5
<1>14. r.next = Ring!MarkerAt(ring, p[n + 1]) /\ n + 1 \in 1 .. Len(es) + 1
  BY <1>1, <1>2, <1>9
<1>15. BatchOK(c, com, ack)
  <2>1. c.status \in Seq(Outcome) /\ Len(c.status) = 0
    OBVIOUS
  <2>2. \A j, k \in 1 .. n : j < k => Ring!Past(r.entries[j].marker, r.entries[k].marker)
    BY <1>1, <1>10, <1>12
  <2>3. \A j \in 1 .. n : r.entries[j].id \in com
    BY <1>10, <1>12
  <2>4. c.end \in Marker
    BY <1>1, <1>14
  <2> QED BY <1>9, <1>13, <2>1, <2>2, <2>3, <2>4 DEF BatchOK
<1>16. \A j \in 1 .. Len(c.batch) : Placed(c.batch[j].marker, ring, p, Len(es))
  BY <1>10, <1>12, <1>13 DEF Placed
<1>17. \A k \in 1 .. Len(es) : k < n + 1 => Sent(c, ring, es, p, k)
  <2>1. SUFFICES ASSUME NEW k \in 1 .. Len(es), k < n + 1 PROVE Sent(c, ring, es, p, k)
    OBVIOUS
  <2>2. k \in 1 .. n /\ k \in 1 .. Len(c.batch)
    BY <1>9, <1>13, <2>1
  <2>3. Len(c.status) = 0
    OBVIOUS
  <2> QED BY <1>12, <2>2, <2>3 DEF Sent
<1>18. EndOK(c, ring, es, p, strict)
  BY <1>14, <1>17 DEF EndOK
<1> QED BY <1>15, <1>16, <1>18 DEF At

\* Markers are counted from the front only.
LEMMA SameFront ==
    ASSUME NEW ring, NEW new, new.front = ring.front
    PROVE  \A d : Ring!MarkerAt(new, d) = Ring!MarkerAt(ring, d)
BY DEF Ring!MarkerAt

\* An enqueue leaves a batch where it is.
LEMMA EnqueueKeepsAt ==
    ASSUME NEW ring, NEW es, NEW p, Ring!Layout(es, p), NEW e \in Entry, NEW new, new.front = ring.front,
           NEW c, NEW strict, At(c, ring, es, p, strict)
    PROVE  At(c, new, Append(es, e), Ring!Longer(p, Len(es), Ring!RingLength(e)), strict)
<1>1. PICK p2 : p2 = Ring!Longer(p, Len(es), Ring!RingLength(e))
  OBVIOUS
<1>2. PICK es2 : es2 = Append(es, e)
  OBVIOUS
<1>3. \A i \in 1 .. Len(es) + 1 : p2[i] = p[i]
  BY <1>1, RingConstants, Ring!LayoutAppend, SameTypes
<1>4. es \in Seq(Entry)
  BY SameTypes DEF Ring!Layout
<1>5. Len(es) \in Nat /\ Len(es2) = Len(es) + 1 /\ \A i \in 1 .. Len(es) : es2[i] = es[i]
  BY <1>2, <1>4
<1>6. \A i \in 1 .. Len(es) + 1 : /\ i \in 1 .. Len(es2) + 1
                                   /\ Ring!MarkerAt(new, p2[i]) = Ring!MarkerAt(ring, p[i])
  BY <1>3, <1>5, SameFront
<1>7. \A m : Placed(m, ring, p, Len(es)) => Placed(m, new, p2, Len(es2))
  BY <1>6 DEF Placed
<1>8. \A k \in 1 .. Len(es) : Sent(c, ring, es, p, k) => Sent(c, new, es2, p2, k)
  <2>1. \A k \in 1 .. Len(es) : k \in 1 .. Len(es) + 1
    BY <1>5
  <2> QED BY <1>5, <1>6, <2>1 DEF Sent
<1>9. EndOK(c, new, es2, p2, strict)
  <2>1. CASE Ring!Past(c.end, ring.front)
    BY <2>1 DEF EndOK
  <2>2. CASE ~Ring!Past(c.end, ring.front)
    <3>1. PICK f \in 1 .. Len(es) + 1 :
              /\ c.end = Ring!MarkerAt(ring, p[f])
              /\ strict => \A k \in 1 .. Len(es) : k < f => Sent(c, ring, es, p, k)
      BY <2>2 DEF At, EndOK
    <3>2. \A k \in 1 .. Len(es2) : k < f => k \in 1 .. Len(es)
      BY <1>5
    <3>3. strict => \A k \in 1 .. Len(es2) : k < f => Sent(c, new, es2, p2, k)
      BY <1>8, <3>1, <3>2
    <3> QED BY <1>6, <3>1, <3>3 DEF EndOK
  <2> QED BY <2>1, <2>2
<1> QED BY <1>1, <1>2, <1>7, <1>9 DEF At

\* A removal up to entry i leaves the markers behind where they are, and has the front
\* pass the others.
LEMMA RemoveKeepsAt ==
    ASSUME NEW ring, NEW es, NEW p, Ring!Layout(es, p), Ring!Holds(ring, es, p),
           NEW i \in 1 .. Len(es) + 1, NEW new, new.front = Ring!MarkerAt(ring, p[i]),
           NEW c, NEW strict, NEW com, NEW ack, BatchOK(c, com, ack), At(c, ring, es, p, strict)
    PROVE  At(c, new, SubSeq(es, i, Len(es)), Ring!Shorter(p, i, Len(es)), strict)
<1>1. PICK p2 : p2 = Ring!Shorter(p, i, Len(es))
  OBVIOUS
<1>2. PICK es2 : es2 = SubSeq(es, i, Len(es))
  OBVIOUS
<1>3. /\ Len(es) \in Nat /\ ring.front \in Marker
      /\ \A h \in 1 .. Len(es) + 1 :
             /\ p[h] \in Nat /\ p[h] <= queue_get_capacity
             /\ Ring!MarkerAt(ring, p[h]) \in Marker
             /\ ~Ring!Past(Ring!MarkerAt(ring, p[h]), ring.front)
      /\ \A h, k \in 1 .. Len(es) + 1 :
             h < k => Ring!Past(Ring!MarkerAt(ring, p[h]), Ring!MarkerAt(ring, p[k]))
  BY StartsOrdered
<1>4. \A k \in 1 .. Len(es) - i + 2 : p2[k] = p[k + i - 1] - p[i]
  BY <1>1, RingConstants, Ring!LayoutDrop
<1>5. /\ Len(es2) = Len(es) - i + 1
      /\ \A k \in 1 .. Len(es) - i + 1 : es2[k] = es[k + i - 1]
  <2>1. es \in Seq(Ring!Entry)
    BY DEF Ring!Layout
  <2> QED BY <1>2, <2>1, RingConstants, Ring!DropIs
<1>6. Ring!HasFront(ring) /\ p[i] \in Nat /\ p[i] <= Ring!queue_get_capacity
  BY <1>3, SameTypes DEF Ring!Holds, Ring!Uses
<1>7. /\ \A d \in Nat : p[i] + d <= Ring!queue_get_capacity => Ring!MarkerAt(new, d) = Ring!MarkerAt(ring, p[i] + d)
  BY <1>6, RingConstants, Ring!FrontMoves
<1>8. \A m \in Marker : Ring!Past(m, ring.front) => Ring!Past(m, new.front)
  BY <1>6, RingConstants, Ring!FrontMoves, SameTypes
<1>9. ASSUME NEW h \in 1 .. Len(es) + 1, i <= h
      PROVE  /\ h - i + 1 \in 1 .. Len(es2) + 1
             /\ Ring!MarkerAt(new, p2[h - i + 1]) = Ring!MarkerAt(ring, p[h])
  <2>1. h - i + 1 \in 1 .. Len(es2) + 1 /\ h - i + 1 \in 1 .. Len(es) - i + 2 /\ h - i + 1 + i - 1 = h
    BY <1>3, <1>5, <1>9
  <2>2. p2[h - i + 1] = p[h] - p[i]
    BY <1>4, <2>1
  <2>3. p[i] <= p[h] /\ p[h] \in Nat
    <3>1. \A a, b \in 1 .. Len(es) + 1 : a < b => p[a] < p[b]
      BY DEF Ring!Layout
    <3> QED BY <1>3, <1>9, <3>1
  <2>4. p[h] - p[i] \in Nat /\ p[i] + (p[h] - p[i]) = p[h] /\ p[h] <= Ring!queue_get_capacity
    BY <1>3, <1>6, <2>3, SameTypes
  <2> QED BY <1>7, <2>1, <2>2, <2>4
<1>10. ASSUME NEW h \in 1 .. Len(es) + 1, ~(i <= h)
       PROVE  Ring!Past(Ring!MarkerAt(ring, p[h]), new.front)
  BY <1>3, <1>10
<1>11. ASSUME NEW m \in Marker, Placed(m, ring, p, Len(es))
       PROVE  Placed(m, new, p2, Len(es2))
  BY <1>8, <1>9, <1>10, <1>11 DEF Placed
<1>12. \A j \in 1 .. Len(c.batch) : Placed(c.batch[j].marker, new, p2, Len(es2))
  BY <1>11, BatchIs DEF At
<1>13. EndOK(c, new, es2, p2, strict)
  <2>1. CASE Ring!Past(c.end, ring.front)
    BY <1>8, <2>1, BatchIs DEF EndOK
  <2>2. CASE ~Ring!Past(c.end, ring.front)
    <3>1. PICK f \in 1 .. Len(es) + 1 :
              /\ c.end = Ring!MarkerAt(ring, p[f])
              /\ strict => \A k \in 1 .. Len(es) : k < f => Sent(c, ring, es, p, k)
      BY <2>2 DEF At, EndOK
    <3>2. CASE ~(i <= f)
      BY <1>10, <3>1, <3>2 DEF EndOK
    <3>3. CASE i <= f
      <4>1. f - i + 1 \in 1 .. Len(es2) + 1 /\ c.end = Ring!MarkerAt(new, p2[f - i + 1])
        BY <1>9, <3>1, <3>3
      <4>2. ASSUME strict, NEW k \in 1 .. Len(es2), k < f - i + 1 PROVE Sent(c, new, es2, p2, k)
        <5>1. /\ k + i - 1 \in 1 .. Len(es) /\ k + i - 1 \in 1 .. Len(es) + 1 /\ k + i - 1 < f
              /\ i <= k + i - 1 /\ (k + i - 1) - i + 1 = k /\ k \in 1 .. Len(es) - i + 1
          BY <1>3, <1>5, <4>2
        <5>2. Sent(c, ring, es, p, k + i - 1)
          BY <3>1, <4>2, <5>1
        <5>3. Ring!MarkerAt(new, p2[k]) = Ring!MarkerAt(ring, p[k + i - 1])
          BY <1>9, <5>1
        <5>4. es2[k] = es[k + i - 1]
          BY <1>5, <5>1
        <5> QED BY <5>2, <5>3, <5>4 DEF Sent
      <4> QED BY <4>1, <4>2 DEF EndOK
    <3> QED BY <3>2, <3>3
  <2> QED BY <2>1, <2>2
<1> QED BY <1>1, <1>2, <1>12, <1>13 DEF At

\* The notifications that lie on the ring.
IdsOf(es) == {es[k].id : k \in 1 .. Len(es)}

\* The notifications that the live bytes of a ring belong to are those of its entries.
LEMMA LiveIds ==
    ASSUME NEW ring, NEW es, NEW p, Ring!Layout(es, p), Ring!Holds(ring, es, p)
    PROVE  {ring.data[o].id : o \in Live(ring)} = IdsOf(es)
<1>1. PICK used : used = p[Len(es) + 1]
  OBVIOUS
<1>2. Ring!Uses(ring, used)
  BY <1>1 DEF Ring!Holds
<1>3. /\ \A o \in Live(ring) : \E d \in Nat : d < used /\ o = Ring!MarkerAt(ring, d).offset
      /\ \A d \in Nat : d < used => Ring!MarkerAt(ring, d).offset \in Live(ring)
  BY <1>2, RingConstants, Ring!LiveIs, SameLive
<1>4. /\ Len(es) \in Nat
      /\ \A i \in 1 .. Len(es) : /\ i + 1 \in 1 .. Len(es) + 1
                                 /\ p[i + 1] = p[i] + Ring!RingLength(es[i])
      /\ \A i \in 1 .. Len(es) + 1 : p[i] \in Nat /\ p[i] <= used
      /\ \A i \in 1 .. Len(es) : es[i] \in Ring!Entry
  BY <1>1, RingConstants, Ring!LayoutIs
<1>5. \A i \in 1 .. Len(es) : /\ Ring!RingLength(es[i]) \in Nat /\ Ring!RingLength(es[i]) > 0
                              /\ \A j : Ring!CellOf(es[i], j).id = es[i].id
  BY <1>4, RingConstants, Ring!EntryIs
<1>6. \A i \in 1 .. Len(es), j \in Nat : j < Ring!RingLength(es[i]) =>
          ring.data[Ring!MarkerAt(ring, p[i] + j).offset].id = es[i].id
  BY <1>5 DEF Ring!Holds
<1>7. ASSUME NEW o \in Live(ring) PROVE ring.data[o].id \in IdsOf(es)
  <2>1. PICK d \in Nat : d < used /\ o = Ring!MarkerAt(ring, d).offset
    BY <1>3, <1>7
  <2>2. PICK i \in 1 .. Len(es) : p[i] <= d /\ d < p[i + 1]
    BY <1>1, <2>1 DEF Ring!Layout
  <2>3. d - p[i] \in Nat /\ d - p[i] < Ring!RingLength(es[i]) /\ p[i] + (d - p[i]) = d
    <3>1. PICK a, b, l : a = p[i] /\ b = p[i + 1] /\ l = Ring!RingLength(es[i])
      OBVIOUS
    <3>2. i \in 1 .. Len(es) + 1
      BY <1>4
    <3>3. a \in Nat /\ l \in Nat /\ b = a + l /\ a <= d /\ d < b
      BY <1>4, <1>5, <2>2, <3>1, <3>2
    <3>4. d - a \in Nat /\ d - a < l /\ a + (d - a) = d
      BY <3>3
    <3> QED BY <3>1, <3>4
  <2> QED BY <1>6, <2>1, <2>3 DEF IdsOf
<1>8. ASSUME NEW k \in 1 .. Len(es) PROVE \E o \in Live(ring) : ring.data[o].id = es[k].id
  <2>1. k \in 1 .. Len(es) + 1 /\ k + 1 \in 1 .. Len(es) + 1
    BY <1>4
  <2>2. p[k] \in Nat /\ p[k + 1] <= used /\ p[k] < used /\ p[k] + 0 = p[k] /\ 0 < Ring!RingLength(es[k])
    <3>1. PICK a, b, l : a = p[k] /\ b = p[k + 1] /\ l = Ring!RingLength(es[k])
      OBVIOUS
    <3>2. a \in Nat /\ b \in Nat /\ l \in Nat /\ l > 0 /\ b = a + l /\ b <= used
      BY <1>4, <1>5, <2>1, <3>1
    <3>3. used \in Nat
      <4>1. Len(es) + 1 \in 1 .. Len(es) + 1
        BY <1>4
      <4> QED BY <1>1, <1>4, <4>1
    <3>4. a < used /\ a + 0 = a /\ 0 < l
      BY <3>2, <3>3
    <3> QED BY <3>1, <3>2, <3>4
  <2>3. Ring!MarkerAt(ring, p[k]).offset \in Live(ring)
    BY <1>3, <2>2
  <2>4. ring.data[Ring!MarkerAt(ring, p[k] + 0).offset].id = es[k].id
    BY <1>6, <2>2
  <2> QED BY <2>2, <2>3, <2>4
<1> QED BY <1>7, <1>8 DEF IdsOf

-----------------------------------------------------------------------------
(* Nothing is lost and nothing else is delivered. *)

\* No batch of an earlier queue object has been removed from a later one.
Unmixed == ~overshot \/ queue.inc = 1

\* The ring holds the committed notifications es, all those that are not settled if no
\* end marker was beyond a failed entry; and the batches of the queue are parts of it.
Tidy(es, p) ==
    /\ Ring!Layout(es, p) /\ Ring!Holds(queue.tpc.q, es, p)
    /\ ~queue.exists => Len(es) = 0
    /\ IdsOf(es) \subseteq Committed
    /\ ~overshot => Committed \subseteq IdsOf(es) \cup acked \cup deleted
    /\ acked \subseteq Committed
    /\ \A d \in Daemons : Busy(proc[d]) =>
           /\ BatchOK(proc[d], Committed, acked)
           /\ queue.exists /\ proc[d].inc = queue.inc => At(proc[d], queue.tpc.q, es, p, ~overshot)

Coroutine(c, inc) ==
    ProcShape(c) /\ (Busy(c) => c.inc \in Nat /\ 1 <= c.inc /\ c.inc <= inc)

LossInv ==
    /\ QueueShape(queue) /\ queue.inc \in Nat /\ 1 <= queue.inc
    /\ DOMAIN pub = Publishers
    /\ DOMAIN proc = Daemons
    /\ \A d \in Daemons : Coroutine(proc[d], queue.inc)
    /\ Unmixed => \E es, p : Tidy(es, p)

\* A step that leaves alone the ring, the notifications and what is known of them; at
\* most coroutines end or start anew.
Aside ==
    /\ QueueShape(queue') /\ queue'.tpc.q = queue.tpc.q
    /\ queue'.exists = queue.exists /\ queue'.inc = queue.inc
    /\ DOMAIN pub' = Publishers /\ Committed' = Committed
    /\ acked' = acked /\ deleted' = deleted /\ overshot' = overshot
    /\ DOMAIN proc' = Daemons
    /\ \A d \in Daemons : proc'[d] = proc[d] \/ (ProcShape(proc'[d]) /\ ~Busy(proc'[d]))

\* Such a step keeps the invariant.
LEMMA AsideKeeps ==
    ASSUME LossInv, Aside
    PROVE  LossInv'
<1>1. \A d \in Daemons : Coroutine(proc[d], queue.inc)'
  BY DEF LossInv, Aside, Coroutine
<1>2. ASSUME Unmixed' PROVE \E es, p : Tidy(es, p)'
  <2>1. Unmixed
    BY <1>2 DEF Unmixed, Aside
  <2>2. PICK es, p : Tidy(es, p)
    BY <2>1 DEF LossInv
  <2>3. /\ Ring!Layout(es, p) /\ Ring!Holds(queue'.tpc.q, es, p)
        /\ ~queue'.exists => Len(es) = 0
        /\ IdsOf(es) \subseteq Committed'
        /\ ~overshot' => Committed' \subseteq IdsOf(es) \cup acked' \cup deleted'
        /\ acked' \subseteq Committed'
    BY <2>2 DEF Tidy, Aside
  <2>4. ASSUME NEW d \in Daemons, Busy(proc'[d])
        PROVE  /\ BatchOK(proc'[d], Committed', acked')
               /\ queue'.exists /\ proc'[d].inc = queue'.inc => At(proc'[d], queue'.tpc.q, es, p, ~overshot')
    <3>1. proc'[d] = proc[d]
      BY <2>4 DEF Aside
    <3> QED BY <2>2, <2>4, <3>1 DEF Tidy, Aside
  <2>5. Tidy(es, p)'
    BY <2>3, <2>4 DEF Tidy
  <2> QED BY <2>5
<1> QED BY <1>1, <1>2 DEF LossInv, Aside

\* Methods that leave the ring alone.
SameRing(o, o2) == TpcShape(o2) /\ o2.q = o.q

LEMMA ReleaseRing ==
    ASSUME NEW o, TpcShape(o), NEW id
    PROVE  SameRing(o, Release(o, id))
BY DEF TpcShape, SameRing, Release

LEMMA AbortRing ==
    ASSUME NEW o, TpcShape(o), NEW id
    PROVE  SameRing(o, cls_2pc_queue_abort(o, id).obj)
<1>1. cls_2pc_queue_abort(o, id).obj \in {o, Release(o, id)}
  BY DEF cls_2pc_queue_abort
<1> QED BY <1>1, ReleaseRing DEF SameRing

LEMMA ExpireRing ==
    ASSUME NEW o, TpcShape(o), NEW time
    PROVE  SameRing(o, cls_2pc_queue_expire_reservations(o, time).obj)
BY DEF TpcShape, SameRing, cls_2pc_queue_expire_reservations

LEMMA ReserveRing ==
    ASSUME NEW o, TpcShape(o), NEW size, NEW entries, NEW time
    PROVE  SameRing(o, cls_2pc_queue_reserve(o, size, entries, time).obj)
BY DEF TpcShape, SameRing, cls_2pc_queue_reserve

\* A commit that fails changes nothing; one that succeeds has enqueued its entry.
LEMMA CommitRing ==
    ASSUME NEW o, TpcShape(o), NEW id, NEW es, NEW r, r = cls_2pc_queue_commit(o, id, es)
    PROVE  /\ r.ret # OK => r.obj = o
           /\ r.ret = OK => /\ queue_enqueue(o.q, es).ret = OK
                            /\ TpcShape(r.obj) /\ r.obj.q = queue_enqueue(o.q, es).q
<1>1. PICK rel : rel = Release(o, id)
  OBVIOUS
<1>2. PICK en : en = queue_enqueue(o.q, es)
  OBVIOUS
<1>3. \/ r = [ret |-> ENOENT, obj |-> o]
      \/ r = [ret |-> EINVAL, obj |-> o]
      \/ r = [ret |-> en.ret, obj |-> IF en.ret = OK THEN [rel EXCEPT !.q = en.q] ELSE o]
  BY <1>1, <1>2 DEF cls_2pc_queue_commit
<1>4. TpcShape(rel)
  BY <1>1, ReleaseRing DEF SameRing
<1>5. TpcShape([rel EXCEPT !.q = en.q]) /\ [rel EXCEPT !.q = en.q].q = en.q
  BY <1>4 DEF TpcShape
<1>6. PICK o2 : o2 = [rel EXCEPT !.q = en.q]
  OBVIOUS
<1>7. \/ r.ret = ENOENT /\ r.obj = o
      \/ r.ret = EINVAL /\ r.obj = o
      \/ r.ret = en.ret /\ r.obj = IF en.ret = OK THEN o2 ELSE o
  BY <1>3, <1>6
<1>8. ENOENT # OK /\ EINVAL # OK
  BY DEF ENOENT, EINVAL, OK
<1> QED BY <1>2, <1>5, <1>6, <1>7, <1>8

\* A request that does not commit is aside.
LEMMA RequestAside ==
    ASSUME LossInv, NEW p \in Publishers, NEW pc, NEW id,
           pub' = [pub EXCEPT ![p] = [pc |-> pc, id |-> id]], pc # "committed", pub[p].pc # "committed",
           queue' = queue \/ \E o : SameRing(queue.tpc, o) /\ queue' = [queue EXCEPT !.tpc = o],
           UNCHANGED <<daemonVars, auxVars>>
    PROVE  Aside
<1>1. /\ QueueShape(queue') /\ queue'.tpc.q = queue.tpc.q
      /\ queue'.exists = queue.exists /\ queue'.inc = queue.inc
  <2>1. CASE queue' = queue
    BY <2>1 DEF LossInv
  <2>2. CASE \E o : SameRing(queue.tpc, o) /\ queue' = [queue EXCEPT !.tpc = o]
    <3>1. PICK o : SameRing(queue.tpc, o) /\ queue' = [queue EXCEPT !.tpc = o]
      BY <2>2
    <3> QED BY <3>1, SetTpc DEF LossInv, SameRing
  <2> QED BY <2>1, <2>2
<1>2. DOMAIN pub' = Publishers /\ \A r \in Publishers : pub'[r].pc = "committed" <=> pub[r].pc = "committed"
  BY DEF LossInv
<1>3. Committed' = Committed
  BY <1>2 DEF Committed
<1>4. /\ acked' = acked /\ deleted' = deleted /\ overshot' = overshot
      /\ proc' = proc
  BY DEF daemonVars, auxVars
<1> QED BY <1>1, <1>2, <1>3, <1>4 DEF Aside, LossInv

\* More notifications may be committed or acknowledged.
LEMMA BatchGrows ==
    ASSUME NEW c, NEW com, NEW ack, NEW com2, NEW ack2, BatchOK(c, com, ack),
           com \subseteq com2, ack \subseteq ack2
    PROVE  BatchOK(c, com2, ack2)
BY DEF BatchOK

\* What holds of an end marker under the strict reading holds without it.
LEMMA AtWeakens ==
    ASSUME NEW c, NEW ring, NEW es, NEW p, NEW strict, NEW strict2, At(c, ring, es, p, strict),
           strict2 => strict
    PROVE  At(c, ring, es, p, strict2)
BY DEF At, EndOK

\* The entry of a notification.
LEMMA EventEntry ==
    ASSUME NEW p \in Publishers
    PROVE  [id |-> p, size |-> EventSize(p)] \in Entry
<1>1. SmallSize \in Nat /\ LargeSize \in Nat /\ p \in Nat \ {0}
  BY NotifyConstants
<1>2. EventSize(p) \in Nat
  BY <1>1 DEF EventSize
<1> QED BY <1>1, <1>2 DEF Entry

\* The commit of a notification (rgw_notify.cc: publish_commit).
LEMMA CommitKeepsAll ==
    ASSUME LossInv, NEW q \in Publishers, pub[q].pc # "committed", CommitEvent(q)
    PROVE  LossInv'
<1> DEFINE e0 == [id |-> q, size |-> EventSize(q)]
           r0 == IF queue.exists
                 THEN cls_2pc_queue_commit(queue.tpc, pub[q].id, <<e0>>)
                 ELSE [ret |-> ENOENT, obj |-> queue.tpc]
<1>1. PICK r : r = r0
  OBVIOUS
<1>2. PICK e : e = e0
  OBVIOUS
<1>3. e \in Entry /\ e.id = q
  BY <1>2, EventEntry
<1>4. /\ queue' = [queue EXCEPT !.tpc = r.obj]
      /\ pub' = [pub EXCEPT ![q] = [pc |-> IF r.ret = OK THEN "committed" ELSE "lost", id |-> NO_ID]]
      /\ UNCHANGED <<daemonVars, auxVars>>
  BY <1>1 DEF CommitEvent, SetPub
<1>5. PICK ring : ring = queue.tpc.q
  OBVIOUS
<1>6. TpcShape(queue.tpc) /\ QueueShape(queue)
  BY DEF LossInv, QueueShape
<1>7. /\ r.ret # OK => r.obj = queue.tpc
      /\ r.ret = OK => /\ queue.exists /\ queue_enqueue(ring, <<e>>).ret = OK
                       /\ TpcShape(r.obj) /\ r.obj.q = queue_enqueue(ring, <<e>>).q
  <2>1. CASE queue.exists
    <3>1. r = cls_2pc_queue_commit(queue.tpc, pub[q].id, <<e>>)
      BY <1>1, <1>2, <2>1
    <3> QED BY <1>5, <1>6, <2>1, <3>1, CommitRing
  <2>2. CASE ~queue.exists
    <3>1. r = [ret |-> ENOENT, obj |-> queue.tpc]
      BY <1>1, <2>2
    <3> QED BY <3>1 DEF ENOENT, OK
  <2> QED BY <2>1, <2>2
<1> HIDE DEF e0, r0
<1>8. CASE r.ret # OK
  <2>1. PICK pc : pc = "lost"
    OBVIOUS
  <2>2. pub' = [pub EXCEPT ![q] = [pc |-> pc, id |-> NO_ID]] /\ pc # "committed"
    BY <1>4, <1>8, <2>1
  <2>3. SameRing(queue.tpc, r.obj)
    BY <1>6, <1>7, <1>8 DEF SameRing
  <2>4. Aside
    BY <1>4, <2>2, <2>3, RequestAside
  <2> QED BY <2>4, AsideKeeps
<1>9. CASE r.ret = OK
  <2>1. /\ QueueShape(queue') /\ queue'.exists = queue.exists /\ queue'.inc = queue.inc
        /\ queue'.tpc = r.obj /\ queue.exists
    BY <1>4, <1>6, <1>7, <1>9, SetTpc
  <2>2. PICK new : new = queue_enqueue(ring, <<e>>).q
    OBVIOUS
  <2>3. queue'.tpc.q = new
    BY <1>7, <1>9, <2>1, <2>2
  <2>4. proc' = proc /\ acked' = acked /\ deleted' = deleted /\ overshot' = overshot
    BY <1>4 DEF daemonVars, auxVars
  <2>5. /\ DOMAIN pub' = Publishers /\ pub'[q].pc = "committed"
        /\ \A r1 \in Publishers : r1 # q => pub'[r1] = pub[r1]
    BY <1>4, <1>9 DEF LossInv
  <2>6. Committed' = Committed \cup {q}
    BY <2>5 DEF Committed
  <2>7. ASSUME Unmixed' PROVE \E es, p : Tidy(es, p)'
    <3>1. PICK es, p : Tidy(es, p)
      BY <2>1, <2>4, <2>7 DEF LossInv, Unmixed
    <3>2. Ring!Layout(es, p) /\ Ring!Holds(ring, es, p)
      BY <1>5, <3>1 DEF Tidy
    <3>3. PICK es2 : es2 = Append(es, e)
      OBVIOUS
    <3>4. PICK p2 : p2 = Ring!Longer(p, Len(es), Ring!RingLength(e))
      OBVIOUS
    <3>5. Ring!Layout(es2, p2) /\ Ring!Holds(new, es2, p2) /\ new.front = ring.front
      <4>1. PICK rr : rr = Ring!queue_enqueue(ring, <<e>>)
        OBVIOUS
      <4>2. rr.ret = OK /\ rr.q = new /\ e \in Ring!Entry
        BY <1>3, <1>7, <1>9, <2>2, <4>1, SameEnqueue, SameTypes
      <4>3. CASE p[Len(es) + 1] + Ring!RingLength(e) <= Ring!queue_get_capacity
        <5>1. Ring!Layout(es2, p2)
          BY <3>2, <3>3, <3>4, <4>2, <4>3, RingConstants, Ring!EnqueueIs
        <5>2. Ring!Holds(rr.q, es2, p2)
          BY <3>2, <3>3, <3>4, <4>1, <4>2, <4>3, RingConstants, Ring!EnqueueIs
        <5>3. rr.q.front = ring.front
          <6>1. e \in Ring!Entry
            BY <4>2
          <6>2. Ring!queue_enqueue(ring, <<e>>).q.front = ring.front
            BY <3>2, <4>3, <6>1, RingConstants, Ring!EnqueueIs, ZenonT(30)
          <6> QED BY <4>1, <6>2
        <5> QED BY <4>2, <5>1, <5>2, <5>3
      <4>4. CASE ~(p[Len(es) + 1] + Ring!RingLength(e) <= Ring!queue_get_capacity)
        <5>1. rr = [ret |-> Ring!ENOSPC, q |-> ring]
          BY <3>2, <4>1, <4>2, <4>4, RingConstants, Ring!EnqueueIs
        <5>2. rr.ret # OK
          BY <5>1 DEF Ring!ENOSPC, OK
        <5> QED BY <4>2, <5>2
      <4> QED BY <4>3, <4>4
    <3>6. IdsOf(es2) = IdsOf(es) \cup {q}
      <4>1. es \in Seq(Entry)
        BY <3>2, SameTypes DEF Ring!Layout
      <4>2. /\ Len(es) \in Nat /\ Len(es2) = Len(es) + 1 /\ es2[Len(es) + 1] = e
            /\ \A i \in 1 .. Len(es) : es2[i] = es[i]
        BY <1>3, <3>3, <4>1
      <4>3. \A i \in 1 .. Len(es2) : i \in 1 .. Len(es) \/ i = Len(es) + 1
        BY <4>2
      <4>4. Len(es) + 1 \in 1 .. Len(es2) /\ \A i \in 1 .. Len(es) : i \in 1 .. Len(es2)
        BY <4>2
      <4> QED BY <1>3, <4>2, <4>3, <4>4 DEF IdsOf
    <3>7. /\ IdsOf(es2) \subseteq Committed'
          /\ ~overshot' => Committed' \subseteq IdsOf(es2) \cup acked' \cup deleted'
          /\ acked' \subseteq Committed'
      BY <2>4, <2>6, <3>1, <3>6 DEF Tidy
    <3>8. ASSUME NEW d \in Daemons, Busy(proc[d])
          PROVE  /\ BatchOK(proc[d], Committed', acked')
                 /\ queue.exists /\ proc[d].inc = queue.inc => At(proc[d], new, es2, p2, ~overshot)
      <4>1. BatchOK(proc[d], Committed, acked)
        BY <3>1, <3>8 DEF Tidy
      <4>2. BatchOK(proc[d], Committed', acked')
        BY <2>4, <2>6, <4>1, BatchGrows
      <4>3. ASSUME queue.exists, proc[d].inc = queue.inc PROVE At(proc[d], new, es2, p2, ~overshot)
        <5>1. At(proc[d], ring, es, p, ~overshot)
          BY <1>5, <3>1, <3>8, <4>3 DEF Tidy
        <5> QED BY <1>3, <3>2, <3>3, <3>4, <3>5, <5>1, EnqueueKeepsAt
      <4> QED BY <4>2, <4>3
    <3>9. Tidy(es2, p2)'
      BY <2>1, <2>3, <2>4, <3>5, <3>7, <3>8 DEF Tidy
    <3> QED BY <3>9
  <2>8. \A d \in Daemons : Coroutine(proc[d], queue.inc)'
    BY <2>1, <2>4 DEF LossInv
  <2> QED BY <2>1, <2>4, <2>5, <2>7, <2>8 DEF LossInv
<1> QED BY <1>8, <1>9

\* The steps of a request.
LEMMA RequestKeeps ==
    ASSUME LossInv, NEW p \in Publishers, Request(p) \/ CrashRequest(p)
    PROVE  LossInv'
<1>0. TpcShape(queue.tpc) /\ QueueShape(queue)
  BY DEF LossInv, QueueShape
<1>1. CASE publish_reserve(p) \/ ReserveLarger(p)
  <2>1. PICK size : size = IF publish_reserve(p) THEN DefaultReservation ELSE EventSize(p)
    OBVIOUS
  <2>2. PICK r : r = Reserve(size)
    OBVIOUS
  <2>3. /\ queue' = [queue EXCEPT !.tpc = r.obj] /\ pub[p].pc \in {"idle", "growing"}
        /\ UNCHANGED <<daemonVars, auxVars>>
    BY <1>1, <2>1, <2>2 DEF publish_reserve, ReserveLarger
  <2>4. \E pc \in {"reserved", "refused", "grown", "aborting"} : \E id : pub' = [pub EXCEPT ![p] = [pc |-> pc, id |-> id]]
    BY <1>1, <2>1, <2>2 DEF publish_reserve, ReserveLarger, SetPub
  <2>5. PICK pc \in {"reserved", "refused", "grown", "aborting"} :
            \E id : pub' = [pub EXCEPT ![p] = [pc |-> pc, id |-> id]]
    BY <2>4
  <2>6. PICK id : pub' = [pub EXCEPT ![p] = [pc |-> pc, id |-> id]]
    BY <2>5
  <2>7. SameRing(queue.tpc, r.obj)
    <3>1. CASE queue.exists
      BY <1>0, <2>2, <3>1, ReserveRing DEF Reserve
    <3>2. CASE ~queue.exists
      BY <1>0, <2>2, <3>2 DEF Reserve, SameRing
    <3> QED BY <3>1, <3>2
  <2>8. pc # "committed" /\ pub[p].pc # "committed"
    BY <2>3
  <2> QED BY <2>3, <2>6, <2>7, <2>8, RequestAside, AsideKeeps
<1>2. CASE publish_commit(p)
  <2>1. pub[p].pc = "reserved"
    BY <1>2 DEF publish_commit
  <2>2. CASE pub[p].id = NO_ID
    <3>1. PICK pc : pc = "lost"
      OBVIOUS
    <3>2. /\ queue' = queue /\ pub' = [pub EXCEPT ![p] = [pc |-> pc, id |-> NO_ID]]
          /\ UNCHANGED <<daemonVars, auxVars>>
      BY <1>2, <2>2, <3>1 DEF publish_commit, SetPub
    <3>3. pc # "committed" /\ pub[p].pc # "committed"
      BY <2>1, <3>1
    <3> QED BY <3>2, <3>3, RequestAside, AsideKeeps
  <2>3. CASE pub[p].id # NO_ID
    BY <1>2, <2>1, <2>3, CommitKeepsAll DEF publish_commit
  <2> QED BY <2>2, <2>3
<1>3. CASE publish_abort(p) \/ AbortSmaller(p)
  <2>1. PICK o : o = cls_2pc_queue_abort(queue.tpc, pub[p].id).obj
    OBVIOUS
  <2>2. SameRing(queue.tpc, o)
    BY <1>0, <2>1, AbortRing
  <2>3. queue' = queue \/ queue' = [queue EXCEPT !.tpc = o]
    BY <1>3, <2>1 DEF publish_abort, AbortSmaller
  <2>4. PICK pc \in {"refused", "growing", "aborting"} : \E id : pub' = [pub EXCEPT ![p] = [pc |-> pc, id |-> id]]
    BY <1>3 DEF publish_abort, AbortSmaller, SetPub
  <2>5. PICK id : pub' = [pub EXCEPT ![p] = [pc |-> pc, id |-> id]]
    BY <2>4
  <2>6. pc # "committed" /\ pub[p].pc # "committed" /\ UNCHANGED <<daemonVars, auxVars>>
    BY <1>3 DEF publish_abort, AbortSmaller
  <2> QED BY <2>2, <2>3, <2>5, <2>6, RequestAside, AsideKeeps
<1>4. CASE CommitLarger(p)
  BY <1>4, CommitKeepsAll DEF CommitLarger
<1>5. CASE CrashRequest(p)
  <2>1. PICK pc : pc = "dead"
    OBVIOUS
  <2>2. /\ queue' = queue /\ pub' = [pub EXCEPT ![p] = [pc |-> pc, id |-> pub[p].id]]
        /\ UNCHANGED <<daemonVars, auxVars>>
    BY <1>5, <2>1 DEF CrashRequest, SetPub
  <2>3. pc # "committed" /\ pub[p].pc # "committed"
    BY <1>5, <2>1 DEF CrashRequest
  <2> QED BY <2>2, <2>3, RequestAside, AsideKeeps
<1> QED BY <1>1, <1>2, <1>3, <1>4, <1>5 DEF Request

\* A coroutine without a batch.
LEMMA NotBusy ==
    ASSUME NEW c, c = Idle \/ c = [Idle EXCEPT !.pc = "list"]
    PROVE  ProcShape(c) /\ ~Busy(c)
BY DEF Idle, ProcShape, Busy

\* A step of a manager that leaves the ring and its batch alone, or ends the batch.
LEMMA DaemonAside ==
    ASSUME LossInv, NEW d \in Daemons, NEW c, c = Idle \/ c = [Idle EXCEPT !.pc = "list"],
           proc' = proc \/ proc' = [proc EXCEPT ![d] = c],
           QueueShape(queue'), queue'.tpc.q = queue.tpc.q, queue'.exists = queue.exists,
           queue'.inc = queue.inc, UNCHANGED <<pub, auxVars>>
    PROVE  LossInv'
<1>1. ProcShape(c) /\ ~Busy(c)
  BY NotBusy
<1>2. /\ DOMAIN proc' = Daemons
      /\ \A e \in Daemons : proc'[e] = proc[e] \/ (ProcShape(proc'[e]) /\ ~Busy(proc'[e]))
  BY <1>1 DEF LossInv
<1>3. Committed' = Committed /\ DOMAIN pub' = Publishers
  BY DEF Committed, LossInv
<1>4. acked' = acked /\ deleted' = deleted /\ overshot' = overshot
  BY DEF auxVars
<1> QED BY <1>2, <1>3, <1>4, AsideKeeps DEF Aside

\* A change of the lock leaves the ring alone.
LEMMA LockShape ==
    ASSUME QueueShape(queue), NEW lk, queue' = [queue EXCEPT !.lk = lk]
    PROVE  /\ QueueShape(queue') /\ queue'.tpc.q = queue.tpc.q
           /\ queue'.exists = queue.exists /\ queue'.inc = queue.inc
BY DEF QueueShape

\* The round of a manager, its cleaner, its death, the time of its lock.
LEMMA ManagerKeeps ==
    ASSUME LossInv, NEW d \in Daemons,
           ProcessQueues(d) \/ cleanup_queue(d) \/ CrashDaemon(d) \/ LockLapses(d)
    PROVE  LossInv'
<1>0. TpcShape(queue.tpc) /\ QueueShape(queue)
  BY DEF LossInv, QueueShape
<1>1. PICK idle : idle = Idle
  OBVIOUS
<1>2. PICK start : start = [Idle EXCEPT !.pc = "list"]
  OBVIOUS
<1>3. CASE ProcessQueues(d)
  <2>1. PICK lk : lk = LockRequest(d).lk
    OBVIOUS
  <2>2. /\ queue' = queue \/ queue' = [queue EXCEPT !.lk = lk]
        /\ UNCHANGED <<pub, auxVars>>
    BY <1>3, <2>1 DEF ProcessQueues, read_queue_list, process_queues
  <2>3. proc' = proc \/ proc' = [proc EXCEPT ![d] = start]
    BY <1>2, <1>3 DEF ProcessQueues, read_queue_list, process_queues
  <2>4. /\ QueueShape(queue') /\ queue'.tpc.q = queue.tpc.q
        /\ queue'.exists = queue.exists /\ queue'.inc = queue.inc
    BY <1>0, <2>2, LockShape
  <2> QED BY <1>2, <2>2, <2>3, <2>4, DaemonAside
<1>4. CASE cleanup_queue(d)
  <2>1. PICK o : o = cls_2pc_queue_expire_reservations(queue.tpc, Young).obj
    OBVIOUS
  <2>2. /\ queue' = queue \/ queue' = [queue EXCEPT !.tpc = o]
        /\ UNCHANGED <<pub, auxVars, proc>>
    BY <1>4, <2>1 DEF cleanup_queue
  <2>3. SameRing(queue.tpc, o)
    BY <1>0, <2>1, ExpireRing
  <2>4. /\ QueueShape(queue') /\ queue'.tpc.q = queue.tpc.q
        /\ queue'.exists = queue.exists /\ queue'.inc = queue.inc
    BY <1>0, <2>2, <2>3, SetTpc DEF SameRing
  <2> QED BY <1>2, <2>2, <2>4, DaemonAside
<1>5. CASE CrashDaemon(d)
  <2>1. queue' = queue /\ proc' = [proc EXCEPT ![d] = idle] /\ UNCHANGED <<pub, auxVars>>
    BY <1>1, <1>5 DEF CrashDaemon
  <2> QED BY <1>0, <1>1, <2>1, DaemonAside
<1>6. CASE LockLapses(d)
  <2>1. PICK lk : lk = [queue.lk EXCEPT !.lockers[Locker(d)] = LapsedEnd]
    OBVIOUS
  <2>2. queue' = [queue EXCEPT !.lk = lk] /\ UNCHANGED <<pub, auxVars, proc>>
    BY <1>0, <1>6, <2>1 DEF LockLapses, QueueShape, daemonVars
  <2>3. /\ QueueShape(queue') /\ queue'.tpc.q = queue.tpc.q
        /\ queue'.exists = queue.exists /\ queue'.inc = queue.inc
    BY <1>0, <2>2, LockShape
  <2> QED BY <1>2, <2>2, <2>3, DaemonAside
<1> QED BY <1>3, <1>4, <1>5, <1>6

\* Reservations age.
LEMMA StaleKeeps ==
    ASSUME LossInv, StalePeriodPasses
    PROVE  LossInv'
<1>1. PICK r : r = Aged(queue.tpc.reservations)
  OBVIOUS
<1>2. PICK x : x = Aged(queue.tpc.xattrs)
  OBVIOUS
<1>3. PICK old : old = queue.tpc
  OBVIOUS
<1>4. PICK o : o = [old EXCEPT !.reservations = r, !.xattrs = x]
  OBVIOUS
<1>5. QueueShape(queue) /\ TpcShape(old)
  BY <1>3 DEF LossInv, QueueShape
<1>6. queue' = [queue EXCEPT !.tpc = o] /\ UNCHANGED <<pub, auxVars, proc>>
  BY <1>1, <1>2, <1>3, <1>4, <1>5 DEF StalePeriodPasses, QueueShape, TpcShape, daemonVars
<1>7. TpcShape(o) /\ o.q = old.q
  BY <1>4, <1>5 DEF TpcShape
<1>8. /\ QueueShape(queue') /\ queue'.tpc.q = queue.tpc.q
      /\ queue'.exists = queue.exists /\ queue'.inc = queue.inc
  BY <1>3, <1>5, <1>6, <1>7, SetTpc
<1>9. Committed' = Committed /\ acked' = acked /\ deleted' = deleted /\ overshot' = overshot
  BY <1>6 DEF Committed, auxVars
<1>10. Aside
  BY <1>6, <1>8, <1>9 DEF Aside, LossInv
<1> QED BY <1>10, AsideKeeps

\* The batch after an outcome.
LEMMA BatchAnswered ==
    ASSUME NEW c, NEW c2, NEW i, NEW com, NEW ack, NEW ack2, NEW outcome \in Outcome,
           BatchOK(c, com, ack), Answered(c, c2, i), c2.status[i] = outcome,
           Len(c2.status) <= Len(c.batch), c2.pc = "spawn" => Len(c2.status) < Len(c.batch),
           c2.end \in {c.end, c.batch[i].marker},
           ack2 = IF outcome = "ok" THEN ack \cup {c.batch[i].id} ELSE ack
    PROVE  BatchOK(c2, com, ack2) /\ ack2 \subseteq ack \cup com /\ ack \subseteq ack2
<1>1. c2.batch = c.batch /\ i \in 1 .. Len(c.batch) /\ c2.status \in Seq(Outcome)
  BY DEF Answered
<1>2. c2.end \in Marker
  BY <1>1, BatchIs
<1>3. ack2 \subseteq ack \cup com /\ ack \subseteq ack2
  BY <1>1 DEF BatchOK
<1>4. ASSUME NEW j \in 1 .. Len(c2.status), c2.status[j] = "ok" PROVE c2.batch[j].id \in ack2
  <2>1. CASE j = i
    BY <1>1, <1>4, <2>1
  <2>2. CASE j # i
    <3>1. j <= Len(c.status) /\ c2.status[j] = c.status[j]
      BY <2>2 DEF Answered
    <3>2. Len(c2.status) \in Nat /\ Len(c.status) \in Nat
      BY <1>1, BatchIs
    <3>3. j \in 1 .. Len(c.status)
      BY <3>1, <3>2
    <3> QED BY <1>1, <1>3, <1>4, <3>1, <3>3 DEF BatchOK
  <2> QED BY <2>1, <2>2
<1>5. /\ c2.batch \in Seq(Listing)
      /\ \A j, k \in 1 .. Len(c2.batch) : j < k => Ring!Past(c2.batch[j].marker, c2.batch[k].marker)
      /\ \A j \in 1 .. Len(c2.batch) : c2.batch[j].id \in com
  BY <1>1 DEF BatchOK
<1>6. BatchOK(c2, com, ack2)
  BY <1>1, <1>2, <1>4, <1>5 DEF BatchOK
<1> QED BY <1>3, <1>6

\* An entry of the batch is sent or answered (rgw_notify.cc: process_entry).
LEMMA EntryStep ==
    ASSUME LossInv, NEW d \in Daemons, NEW i, NEW outcome \in Outcome, NEW c2,
           Busy(proc[d]), Busy(c2), ProcShape(c2), c2.inc = proc[d].inc,
           c2.end = EndAfter(d, i, outcome), process_entry(d, i, outcome),
           proc' = [proc EXCEPT ![d] = c2], queue' = queue, pub' = pub,
           \A com, ack : BatchOK(proc[d], com, ack) =>
               /\ Answered(proc[d], c2, i) /\ c2.status[i] = outcome
               /\ Len(c2.status) <= Len(proc[d].batch)
               /\ c2.pc = "spawn" => Len(c2.status) < Len(proc[d].batch)
    PROVE  LossInv'
<1>1. /\ DOMAIN proc = Daemons /\ DOMAIN proc' = Daemons /\ proc'[d] = c2
      /\ \A e \in Daemons : e # d => proc'[e] = proc[e]
  BY DEF LossInv
<1>2. \A e \in Daemons : Coroutine(proc[e], queue.inc)'
  <2>1. Coroutine(c2, queue.inc)
    BY DEF LossInv, Coroutine
  <2> QED BY <1>1, <2>1 DEF LossInv
<1>3. PICK c : c = proc[d]
  OBVIOUS
<1>4. /\ acked' = IF outcome = "ok" THEN acked \cup {c.batch[i].id} ELSE acked
      /\ ~overshot' => ~overshot /\ (outcome = "fail" => c.batch[i].marker.gen = c.end.gen)
      /\ deleted' = deleted
  BY <1>3 DEF process_entry
<1>5. c2.end = IF outcome = "fail" THEN set_min_marker(c.end, c.batch[i].marker) ELSE c.end
  BY <1>3 DEF EndAfter
<1>6. Committed' = Committed
  BY DEF Committed
<1>7. ASSUME Unmixed' PROVE \E es, p : Tidy(es, p)'
  <2>1. PICK es, p : Tidy(es, p)
    BY <1>4, <1>7 DEF LossInv, Unmixed
  <2>2. PICK ring : ring = queue.tpc.q
    OBVIOUS
  <2>3. Ring!Layout(es, p) /\ Ring!Holds(ring, es, p)
    BY <2>1, <2>2 DEF Tidy
  <2>4. BatchOK(c, Committed, acked)
    BY <1>3, <2>1 DEF Tidy
  <2>5. /\ Answered(c, c2, i) /\ c2.status[i] = outcome
        /\ Len(c2.status) <= Len(c.batch)
        /\ c2.pc = "spawn" => Len(c2.status) < Len(c.batch)
    BY <1>3, <2>4
  <2>6. c2.end \in {c.end, c.batch[i].marker}
    BY <1>5 DEF set_min_marker
  <2>7. BatchOK(c2, Committed, acked') /\ acked' \subseteq acked \cup Committed /\ acked \subseteq acked'
    <3>1. acked' = IF outcome = "ok" THEN acked \cup {c.batch[i].id} ELSE acked
      BY <1>4
    <3>2. BatchOK(c2, Committed, acked')
      BY <2>4, <2>5, <2>6, <3>1, BatchAnswered
    <3>3. acked' \subseteq acked \cup Committed /\ acked \subseteq acked'
      BY <2>4, <2>5, <3>1 DEF BatchOK, Answered
    <3> QED BY <3>2, <3>3
  <2>8. ASSUME queue.exists, c2.inc = queue.inc
        PROVE  At(c2, ring, es, p, ~overshot')
    <3>1. At(c, ring, es, p, ~overshot) /\ Busy(c)
      BY <1>3, <2>1, <2>2, <2>8 DEF Tidy
    <3>2. CASE outcome = "fail"
      BY <1>4, <1>5, <2>3, <2>4, <2>5, <3>1, <3>2, FailKeepsAt
    <3>3. CASE outcome # "fail"
      BY <1>4, <1>5, <2>3, <2>4, <2>5, <3>1, <3>3, GoodKeepsAt
    <3> QED BY <3>2, <3>3
  <2>9. ASSUME NEW e \in Daemons, Busy(proc'[e])
        PROVE  /\ BatchOK(proc'[e], Committed', acked')
               /\ queue'.exists /\ proc'[e].inc = queue'.inc => At(proc'[e], queue'.tpc.q, es, p, ~overshot')
    <3>1. CASE e = d
      BY <1>1, <1>6, <2>2, <2>7, <2>8, <3>1
    <3>2. CASE e # d
      <4>1. proc'[e] = proc[e] /\ Busy(proc[e])
        BY <1>1, <2>9, <3>2
      <4>2. BatchOK(proc[e], Committed, acked)
        BY <2>1, <4>1 DEF Tidy
      <4>3. BatchOK(proc[e], Committed', acked')
        BY <1>6, <2>7, <4>2, BatchGrows
      <4>4. ASSUME queue.exists, proc[e].inc = queue.inc PROVE At(proc[e], ring, es, p, ~overshot')
        <5>1. At(proc[e], ring, es, p, ~overshot)
          BY <2>1, <2>2, <4>1, <4>4 DEF Tidy
        <5> QED BY <1>4, <5>1, AtWeakens
      <4> QED BY <2>2, <4>1, <4>3, <4>4
    <3> QED BY <3>1, <3>2
  <2>10. /\ Ring!Layout(es, p) /\ Ring!Holds(queue'.tpc.q, es, p)
         /\ ~queue'.exists => Len(es) = 0
         /\ IdsOf(es) \subseteq Committed'
         /\ ~overshot' => Committed' \subseteq IdsOf(es) \cup acked' \cup deleted'
         /\ acked' \subseteq Committed'
    BY <1>4, <1>6, <2>1, <2>7 DEF Tidy
  <2>11. Tidy(es, p)'
    BY <2>9, <2>10 DEF Tidy
  <2> QED BY <2>11
<1> QED BY <1>1, <1>2, <1>7 DEF LossInv

\* The coroutines of the entries are started (rgw_notify.cc: process_queue).
LEMMA SpawnKeeps ==
    ASSUME LossInv, NEW d \in Daemons, NEW outcome \in Outcome, SpawnEntry(d, outcome)
    PROVE  LossInv'
<1>1. PICK c : c = proc[d]
  OBVIOUS
<1>2. PICK i : i = Len(c.status) + 1
  OBVIOUS
<1>3. PICK end : end = EndAfter(d, i, outcome)
  OBVIOUS
<1>4. PICK pc : pc = IF outcome = "fail" \/ i = Len(c.batch) THEN "wait" ELSE "spawn"
  OBVIOUS
<1>5. PICK status : status = Append(c.status, outcome)
  OBVIOUS
<1>6. PICK c2 : c2 = [c EXCEPT !.status = status, !.end = end, !.pc = pc]
  OBVIOUS
<1>7. ProcShape(c) /\ DOMAIN proc = Daemons
  BY <1>1 DEF LossInv, Coroutine
<1>8. /\ c.pc = "spawn" /\ process_entry(d, i, outcome) /\ queue' = queue /\ pub' = pub
  BY <1>1, <1>2 DEF SpawnEntry
<1>9. proc' = [proc EXCEPT ![d] = c2]
  <2>1. proc' = [proc EXCEPT ![d].status = status, ![d].end = end, ![d].pc = pc]
    BY <1>1, <1>2, <1>3, <1>4, <1>5 DEF SpawnEntry
  <2> QED BY <1>1, <1>6, <1>7, <2>1
<1>10. /\ Busy(c) /\ Busy(c2) /\ ProcShape(c2) /\ c2.inc = c.inc /\ c2.end = end
       /\ c2.batch = c.batch /\ c2.status = status /\ c2.pc = pc
  BY <1>4, <1>6, <1>7, <1>8 DEF Busy, ProcShape
<1>11. ASSUME NEW com, NEW ack, BatchOK(c, com, ack)
       PROVE  /\ Answered(c, c2, i) /\ c2.status[i] = outcome
              /\ Len(c2.status) <= Len(c.batch)
              /\ c2.pc = "spawn" => Len(c2.status) < Len(c.batch)
  <2>1. /\ c.status \in Seq(Outcome) /\ Len(c.status) < Len(c.batch)
        /\ Len(c.batch) \in Nat /\ Len(c.status) \in Nat
    BY <1>8, <1>11, BatchIs DEF BatchOK
  <2>2. /\ status \in Seq(Outcome) /\ Len(status) = i /\ status[i] = outcome
        /\ \A j \in 1 .. Len(c.status) : status[j] = c.status[j]
    BY <1>2, <1>5, <2>1
  <2>3. i \in 1 .. Len(c.batch) /\ \A j \in 1 .. i : j # i => j \in 1 .. Len(c.status) /\ j <= Len(c.status)
    BY <1>2, <2>1
  <2>4. pc = "spawn" => i # Len(c.batch)
    BY <1>4
  <2>5. pc = "wait" => i = Len(c.batch) \/ outcome = "fail"
    BY <1>4
  <2>6. i \in Nat /\ i <= Len(c.batch)
    BY <2>1, <2>3
  <2>7. Answered(c, c2, i)
    BY <1>2, <1>8, <1>10, <2>2, <2>3, <2>5, <2>6 DEF Answered
  <2> QED BY <1>10, <2>1, <2>2, <2>4, <2>6, <2>7
<1> QED BY <1>1, <1>3, <1>8, <1>9, <1>10, <1>11, EntryStep

\* The answer for an entry arrives.
LEMMA AnswerKeeps ==
    ASSUME LossInv, NEW d \in Daemons, NEW i, NEW outcome \in Answers, EntryAnswered(d, i, outcome)
    PROVE  LossInv'
<1>1. PICK c : c = proc[d]
  OBVIOUS
<1>3. PICK end : end = EndAfter(d, i, outcome)
  OBVIOUS
<1>5. PICK status : status = [c.status EXCEPT ![i] = outcome]
  OBVIOUS
<1>6. PICK c2 : c2 = [c EXCEPT !.status = status, !.end = end]
  OBVIOUS
<1>7. ProcShape(c) /\ DOMAIN proc = Daemons
  BY <1>1 DEF LossInv, Coroutine
<1>8. /\ c.pc = "wait" /\ process_entry(d, i, outcome) /\ queue' = queue /\ pub' = pub
      /\ i \in 1 .. Len(c.status)
  BY <1>1 DEF EntryAnswered
<1>9. proc' = [proc EXCEPT ![d] = c2]
  <2>1. proc' = [proc EXCEPT ![d].status = status, ![d].end = end]
    BY <1>1, <1>3, <1>5 DEF EntryAnswered
  <2> QED BY <1>1, <1>6, <1>7, <2>1
<1>10. /\ Busy(c) /\ Busy(c2) /\ ProcShape(c2) /\ c2.inc = c.inc /\ c2.end = end
       /\ c2.batch = c.batch /\ c2.status = status /\ c2.pc = c.pc
  BY <1>6, <1>7, <1>8 DEF Busy, ProcShape
<1>11. outcome \in Outcome
  BY DEF Answers, Outcome
<1>12. ASSUME NEW com, NEW ack, BatchOK(c, com, ack)
       PROVE  /\ Answered(c, c2, i) /\ c2.status[i] = outcome
              /\ Len(c2.status) <= Len(c.batch)
              /\ c2.pc = "spawn" => Len(c2.status) < Len(c.batch)
  <2>1. /\ c.status \in Seq(Outcome) /\ Len(c.status) <= Len(c.batch)
        /\ Len(c.batch) \in Nat /\ Len(c.status) \in Nat
    BY <1>12, BatchIs DEF BatchOK
  <2>2. /\ status \in Seq(Outcome) /\ Len(status) = Len(c.status) /\ status[i] = outcome
        /\ \A j \in 1 .. Len(c.status) : j # i => status[j] = c.status[j]
    BY <1>5, <1>8, <1>11, <2>1
  <2>3. i \in 1 .. Len(c.batch) /\ i <= Len(status) /\ \A j \in 1 .. Len(c.status) : j <= Len(c.status)
    BY <1>8, <2>1, <2>2
  <2>4. Answered(c, c2, i)
    BY <1>8, <1>10, <2>2, <2>3 DEF Answered
  <2> QED BY <1>8, <1>10, <2>1, <2>2, <2>4
<1> QED BY <1>1, <1>3, <1>8, <1>9, <1>10, <1>11, <1>12, EntryStep

\* A batch is listed (rgw_notify.cc: process_queue).
LEMMA ListKeeps ==
    ASSUME LossInv, NEW d \in Daemons, ListEntries(d)
    PROVE  LossInv'
<1>1. PICK idle : idle = Idle
  OBVIOUS
<1>2. queue' = queue /\ UNCHANGED <<pub, auxVars>> /\ QueueShape(queue)
  BY DEF ListEntries, LossInv
<1>3. CASE proc' = proc \/ proc' = [proc EXCEPT ![d] = idle]
  BY <1>1, <1>2, <1>3, DaemonAside
<1>4. CASE ~(proc' = proc \/ proc' = [proc EXCEPT ![d] = idle])
  <2>1. ~(CheckOwner(d) \in {ENOENT, EBUSY})
    BY <1>1, <1>4 DEF ListEntries, StopProcessing
  <2>2. queue.exists
    BY <2>1 DEF CheckOwner
  <2>3. PICK r : r = cls_2pc_queue_list_entries(queue.tpc, NoMarker, MaxElements)
    OBVIOUS
  <2>4. PICK c2 : c2 = [pc |-> "spawn", batch |-> r.entries, status |-> <<>>, end |-> r.next, inc |-> queue.inc]
    OBVIOUS
  <2>5. proc' = [proc EXCEPT ![d] = c2] /\ r.entries # <<>>
    BY <1>4, <2>1, <2>3, <2>4 DEF ListEntries
  <2>6. /\ ProcShape(c2) /\ Busy(c2) /\ c2.inc = queue.inc /\ c2.pc = "spawn"
        /\ c2.batch = r.entries /\ c2.status = <<>> /\ c2.end = r.next
    BY <2>4 DEF ProcShape, Busy
  <2>7. /\ DOMAIN proc = Daemons /\ DOMAIN proc' = Daemons /\ proc'[d] = c2
        /\ \A e \in Daemons : e # d => proc'[e] = proc[e]
    BY <2>5 DEF LossInv
  <2>8. \A e \in Daemons : Coroutine(proc[e], queue.inc)'
    <3>1. Coroutine(c2, queue.inc)
      BY <2>6 DEF LossInv, Coroutine
    <3> QED BY <1>2, <2>7, <3>1 DEF LossInv
  <2>9. /\ Committed' = Committed /\ DOMAIN pub' = Publishers
        /\ acked' = acked /\ deleted' = deleted /\ overshot' = overshot
    BY <1>2 DEF Committed, auxVars, LossInv
  <2>10. ASSUME Unmixed' PROVE \E es, p : Tidy(es, p)'
    <3>1. PICK es, p : Tidy(es, p)
      BY <1>2, <2>9, <2>10 DEF LossInv, Unmixed
    <3>2. PICK ring : ring = queue.tpc.q
      OBVIOUS
    <3>3. Ring!Layout(es, p) /\ Ring!Holds(ring, es, p)
      BY <3>1, <3>2 DEF Tidy
    <3>4. \A k \in 1 .. Len(es) : es[k].id \in Committed
      BY <3>1 DEF Tidy, IdsOf
    <3>5. r = queue_list_entries(ring, NoMarker, MaxElements) /\ MaxElements \in Nat \ {0}
      BY <2>3, <3>2, NotifyConstants DEF cls_2pc_queue_list_entries
    <3>6. BatchOK(c2, Committed, acked) /\ At(c2, ring, es, p, ~overshot)
      BY <2>5, <2>6, <3>3, <3>4, <3>5, ListedAt
    <3>7. ASSUME NEW e \in Daemons, Busy(proc'[e])
          PROVE  /\ BatchOK(proc'[e], Committed, acked)
                 /\ queue.exists /\ proc'[e].inc = queue.inc => At(proc'[e], queue.tpc.q, es, p, ~overshot)
      <4>1. CASE e = d
        BY <2>7, <3>2, <3>6, <4>1
      <4>2. CASE e # d
        BY <2>7, <3>1, <3>7, <4>2 DEF Tidy
      <4> QED BY <4>1, <4>2
    <3>8. Tidy(es, p)'
      BY <1>2, <2>9, <3>1, <3>7 DEF Tidy
    <3> QED BY <3>8
  <2> QED BY <1>2, <2>7, <2>8, <2>9, <2>10 DEF LossInv
<1> QED BY <1>3, <1>4

\* What a removal up to an end marker does to the ring.
LEMMA RemoveRing ==
    ASSUME NEW ring, NEW es, NEW p, Ring!Layout(es, p), Ring!Holds(ring, es, p),
           NEW c, NEW com, NEW ack, NEW strict, BatchOK(c, com, ack), At(c, ring, es, p, strict),
           NEW new, new = queue_remove_entries(ring, c.end).q
    PROVE  \/ new = ring
           \/ \E e \in 1 .. Len(es) + 1 :
                  /\ new.front = Ring!MarkerAt(ring, p[e])
                  /\ Ring!Layout(SubSeq(es, e, Len(es)), Ring!Shorter(p, e, Len(es)))
                  /\ Ring!Holds(new, SubSeq(es, e, Len(es)), Ring!Shorter(p, e, Len(es)))
                  /\ strict => \A k \in 1 .. Len(es) : k < e => Sent(c, ring, es, p, k)
<1>1. new = Ring!queue_remove_entries(ring, c.end).q
  BY SameRemove
<1>2. c.end \in Marker /\ c.end \in Ring!Marker
  BY BatchIs, SameTypes
<1>3. Ring!HasFront(ring)
  BY DEF Ring!Holds, Ring!Uses
<1>4. CASE Ring!IsEmpty(ring)
  BY <1>1, <1>4 DEF Ring!queue_remove_entries
<1>5. CASE ~Ring!IsEmpty(ring) /\ Ring!Past(c.end, ring.front)
  <2>1. PICK a : a = 0
    OBVIOUS
  <2>2. a \in Nat /\ a <= Ring!queue_get_capacity
    BY <2>1, SameTypes
  <2>3. ~Ring!Ahead(ring, c.end)
    BY <1>2, <1>3, <1>5, <2>2, RingConstants, Ring!FrontMoves
  <2>4. Ring!queue_remove_entries(ring, c.end) = [ret |-> Ring!EINVAL, q |-> ring]
    BY <1>5, <2>3 DEF Ring!queue_remove_entries
  <2> QED BY <1>1, <2>4
<1>6. CASE ~Ring!IsEmpty(ring) /\ ~Ring!Past(c.end, ring.front)
  <2>1. PICK e \in 1 .. Len(es) + 1 :
            /\ c.end = Ring!MarkerAt(ring, p[e])
            /\ strict => \A k \in 1 .. Len(es) : k < e => Sent(c, ring, es, p, k)
    BY <1>6 DEF At, EndOK
  <2>2. Ring!Layout(SubSeq(es, e, Len(es)), Ring!Shorter(p, e, Len(es)))
    BY RingConstants, Ring!LayoutDrop
  <2>3. Ring!Holds(Ring!queue_remove_entries(ring, Ring!MarkerAt(ring, p[e])).q,
                   SubSeq(es, e, Len(es)), Ring!Shorter(p, e, Len(es)))
    BY <1>6, RingConstants, Ring!RemoveIs
  <2>4. Ring!queue_remove_entries(ring, Ring!MarkerAt(ring, p[e])).q.front = Ring!MarkerAt(ring, p[e])
    BY <1>6, RingConstants, Ring!RemoveIs
  <2> QED BY <1>1, <2>1, <2>2, <2>3, <2>4
<1> QED BY <1>4, <1>5, <1>6

\* The settled part of a batch is removed (rgw_notify.cc: process_queue).
LEMMA RemoveKeepsAll ==
    ASSUME LossInv, NEW d \in Daemons, RemoveEntries(d)
    PROVE  LossInv'
<1>1. PICK idle : idle = Idle
  OBVIOUS
<1>2. PICK start : start = [Idle EXCEPT !.pc = "list"]
  OBVIOUS
<1>3. /\ pub' = pub /\ acked' = acked /\ deleted' = deleted /\ QueueShape(queue) /\ TpcShape(queue.tpc)
      /\ proc[d].pc = "wait"
      /\ \A i \in 1 .. Len(proc[d].status) : proc[d].status[i] # "pending"
  BY DEF RemoveEntries, LossInv, QueueShape
<1>4. CASE queue' = queue /\ overshot' = overshot /\ (proc' = [proc EXCEPT ![d] = idle] \/ proc' = [proc EXCEPT ![d] = start])
  <2>1. UNCHANGED <<pub, auxVars>>
    BY <1>3, <1>4 DEF auxVars
  <2>2. PICK c : (c = idle \/ c = start) /\ proc' = [proc EXCEPT ![d] = c]
    BY <1>4
  <2> QED BY <1>1, <1>2, <1>3, <1>4, <2>1, <2>2, DaemonAside
<1>5. CASE ~(queue' = queue /\ overshot' = overshot /\ (proc' = [proc EXCEPT ![d] = idle] \/ proc' = [proc EXCEPT ![d] = start]))
  <2>1. PICK o : o = cls_2pc_queue_remove_entries(queue.tpc, proc[d].end).obj
    OBVIOUS
  <2>2. /\ ~(CheckOwner(d) \in {ENOENT, EBUSY})
        /\ queue' = [queue EXCEPT !.tpc = o]
        /\ proc' = [proc EXCEPT ![d] = start]
        /\ overshot' = (overshot \/ proc[d].inc # queue.inc)
    BY <1>1, <1>2, <1>5, <2>1 DEF RemoveEntries, StopProcessing
  <2>3. queue.exists
    BY <2>2 DEF CheckOwner
  <2>4. PICK ring : ring = queue.tpc.q
    OBVIOUS
  <2>5. PICK new : new = queue_remove_entries(ring, proc[d].end).q
    OBVIOUS
  <2>6. TpcShape(o) /\ o.q = new
    BY <1>3, <2>1, <2>4, <2>5 DEF cls_2pc_queue_remove_entries, TpcShape
  <2>7. /\ QueueShape(queue') /\ queue'.exists = queue.exists /\ queue'.inc = queue.inc
        /\ queue'.tpc.q = new
    BY <1>3, <2>2, <2>6, SetTpc
  <2>8. ProcShape(start) /\ ~Busy(start)
    BY <1>2, NotBusy
  <2>9. /\ DOMAIN proc = Daemons /\ DOMAIN proc' = Daemons /\ proc'[d] = start
        /\ \A e \in Daemons : e # d => proc'[e] = proc[e]
    BY <2>2 DEF LossInv
  <2>10. \A e \in Daemons : Coroutine(proc[e], queue.inc)'
    <3>1. Coroutine(start, queue.inc)
      BY <2>8 DEF Coroutine
    <3> QED BY <2>7, <2>9, <3>1 DEF LossInv
  <2>11. Committed' = Committed /\ DOMAIN pub' = Publishers
    BY <1>3 DEF Committed, LossInv
  <2>12. ASSUME Unmixed' PROVE \E es, p : Tidy(es, p)'
    <3>1. Busy(proc[d]) /\ proc[d].inc \in Nat /\ 1 <= proc[d].inc /\ proc[d].inc <= queue.inc /\ queue.inc \in Nat
      BY <1>3 DEF Busy, LossInv, Coroutine
    <3>2. proc[d].inc = queue.inc
      <4>1. SUFFICES ASSUME proc[d].inc # queue.inc PROVE FALSE
        OBVIOUS
      <4>2. overshot'
        BY <2>2, <4>1
      <4>3. queue'.inc = 1
        BY <2>12, <4>2 DEF Unmixed
      <4>4. queue.inc = 1
        BY <2>7, <4>3
      <4> QED BY <3>1, <4>1, <4>4
    <3>3. ~overshot' <=> ~overshot
      BY <2>2, <3>2
    <3>4. PICK es, p : Tidy(es, p)
      BY <2>7, <2>12, <3>3 DEF LossInv, Unmixed
    <3>5. /\ Ring!Layout(es, p) /\ Ring!Holds(ring, es, p)
          /\ BatchOK(proc[d], Committed, acked) /\ At(proc[d], ring, es, p, ~overshot)
      BY <2>3, <2>4, <3>1, <3>2, <3>4 DEF Tidy
    <3>6. CASE new = ring
      <4>1. ASSUME NEW e \in Daemons, Busy(proc'[e])
            PROVE  /\ BatchOK(proc'[e], Committed, acked)
                   /\ queue.exists /\ proc'[e].inc = queue.inc => At(proc'[e], ring, es, p, ~overshot')
        <5>1. proc'[e] = proc[e]
          BY <2>8, <2>9, <4>1
        <5>2. /\ BatchOK(proc[e], Committed, acked)
              /\ queue.exists /\ proc[e].inc = queue.inc => At(proc[e], ring, es, p, ~overshot)
          BY <2>4, <3>4, <4>1, <5>1 DEF Tidy
        <5> QED BY <3>3, <5>1, <5>2, AtWeakens
      <4>2. Tidy(es, p)'
        BY <1>3, <2>4, <2>7, <2>11, <3>3, <3>4, <3>5, <3>6, <4>1 DEF Tidy
      <4> QED BY <4>2
    <3>7. CASE new # ring
      <4>1. PICK e \in 1 .. Len(es) + 1 :
                /\ new.front = Ring!MarkerAt(ring, p[e])
                /\ Ring!Layout(SubSeq(es, e, Len(es)), Ring!Shorter(p, e, Len(es)))
                /\ Ring!Holds(new, SubSeq(es, e, Len(es)), Ring!Shorter(p, e, Len(es)))
                /\ ~overshot => \A k \in 1 .. Len(es) : k < e => Sent(proc[d], ring, es, p, k)
        <5>1. PICK strict : strict = ~overshot
          OBVIOUS
        <5>2. PICK c : c = proc[d]
          OBVIOUS
        <5>3. At(c, ring, es, p, strict) /\ BatchOK(c, Committed, acked)
          BY <3>5, <5>1, <5>2
        <5>4. PICK com, ack : BatchOK(c, com, ack)
          BY <5>3
        <5>5. new = queue_remove_entries(ring, c.end).q
          BY <2>5, <5>2
        <5>6. PICK e \in 1 .. Len(es) + 1 :
                /\ new.front = Ring!MarkerAt(ring, p[e])
                /\ Ring!Layout(SubSeq(es, e, Len(es)), Ring!Shorter(p, e, Len(es)))
                /\ Ring!Holds(new, SubSeq(es, e, Len(es)), Ring!Shorter(p, e, Len(es)))
                /\ strict => \A k \in 1 .. Len(es) : k < e => Sent(c, ring, es, p, k)
          BY <3>5, <3>7, <5>3, <5>4, <5>5, RemoveRing
        <5> QED BY <5>1, <5>2, <5>6
      <4>2. PICK es2 : es2 = SubSeq(es, e, Len(es))
        OBVIOUS
      <4>3. PICK p2 : p2 = Ring!Shorter(p, e, Len(es))
        OBVIOUS
      <4>4. /\ Len(es) \in Nat /\ Len(es2) = Len(es) - e + 1
            /\ \A k \in 1 .. Len(es) - e + 1 : es2[k] = es[k + e - 1]
        <5>1. es \in Seq(Ring!Entry)
          BY <3>5 DEF Ring!Layout
        <5> QED BY <4>2, <5>1, RingConstants, Ring!DropIs
      <4>5. IdsOf(es2) \subseteq IdsOf(es)
        <5>1. \A k \in 1 .. Len(es2) : k + e - 1 \in 1 .. Len(es) /\ es2[k] = es[k + e - 1]
          BY <4>4
        <5> QED BY <5>1 DEF IdsOf
      <4>6. ASSUME ~overshot PROVE IdsOf(es) \subseteq IdsOf(es2) \cup acked
        <5>1. SUFFICES ASSUME NEW k \in 1 .. Len(es) PROVE es[k].id \in IdsOf(es2) \cup acked
          BY DEF IdsOf
        <5>2. CASE k < e
          <6>1. PICK j \in 1 .. Len(proc[d].batch) :
                    /\ proc[d].batch[j].id = es[k].id
                    /\ j <= Len(proc[d].status) => proc[d].status[j] # "fail"
                    /\ proc[d].pc = "wait" => j <= Len(proc[d].status)
            BY <4>1, <4>6, <5>2 DEF Sent
          <6>2. Len(proc[d].batch) \in Nat /\ Len(proc[d].status) \in Nat /\ proc[d].status \in Seq(Outcome)
            BY <3>5, BatchIs DEF BatchOK
          <6>3. j \in 1 .. Len(proc[d].status)
            BY <1>3, <6>1, <6>2
          <6>4. proc[d].status[j] \in Outcome
            BY <6>2, <6>3
          <6>5. proc[d].status[j] = "ok"
            BY <1>3, <6>1, <6>3, <6>4 DEF Outcome
          <6> QED BY <3>5, <6>1, <6>3, <6>5 DEF BatchOK
        <5>3. CASE ~(k < e)
          <6>1. k - e + 1 \in 1 .. Len(es2) /\ k - e + 1 \in 1 .. Len(es) - e + 1 /\ (k - e + 1) + e - 1 = k
            BY <4>4, <5>3
          <6>2. es2[k - e + 1] = es[k]
            BY <4>4, <6>1
          <6> QED BY <6>1, <6>2 DEF IdsOf
        <5> QED BY <5>2, <5>3
      <4>7. ASSUME NEW f \in Daemons, Busy(proc'[f])
            PROVE  /\ BatchOK(proc'[f], Committed, acked)
                   /\ queue.exists /\ proc'[f].inc = queue.inc => At(proc'[f], new, es2, p2, ~overshot')
        <5>1. proc'[f] = proc[f]
          BY <2>8, <2>9, <4>7
        <5>2. /\ BatchOK(proc[f], Committed, acked)
              /\ queue.exists /\ proc[f].inc = queue.inc => At(proc[f], ring, es, p, ~overshot)
          BY <2>4, <3>4, <4>7, <5>1 DEF Tidy
        <5>3. ASSUME queue.exists, proc[f].inc = queue.inc PROVE At(proc[f], new, es2, p2, ~overshot)
          BY <3>5, <4>1, <4>2, <4>3, <5>2, <5>3, RemoveKeepsAt
        <5> QED BY <3>3, <5>1, <5>2, <5>3, AtWeakens
      <4>8. /\ Ring!Layout(es2, p2) /\ Ring!Holds(new, es2, p2)
            /\ IdsOf(es2) \subseteq Committed
            /\ ~overshot => Committed \subseteq IdsOf(es2) \cup acked \cup deleted
            /\ acked \subseteq Committed
        BY <3>4, <4>1, <4>2, <4>3, <4>5, <4>6 DEF Tidy
      <4>9. Tidy(es2, p2)'
        BY <1>3, <2>3, <2>7, <2>11, <3>3, <4>7, <4>8 DEF Tidy
      <4> QED BY <4>9
    <3> QED BY <3>6, <3>7
  <2> QED BY <2>7, <2>9, <2>10, <2>11, <2>12 DEF LossInv
<1> QED BY <1>4, <1>5

\* A ring without entries.
Fresh(s) ==
    [front |-> [gen |-> 0, offset |-> s], tail |-> [gen |-> 0, offset |-> s],
     data |-> [o \in Offset |-> ZeroCell]]
Start == [i \in 1 .. 1 |-> 0]

\* It is described by the empty sequence of entries.
LEMMA FreshRing ==
    ASSUME NEW s \in Offset, NEW ring, ring = Fresh(s)
    PROVE  Ring!Layout(<< >>, Start) /\ Ring!Holds(ring, << >>, Start)
<1>1. PICK z : z = ZeroCell
  OBVIOUS
<1>2. z \in [id : Nat, size : Nat, at : Nat]
  BY <1>1 DEF ZeroCell
<1>3. ring = [front |-> [gen |-> 0, offset |-> s], tail |-> [gen |-> 0, offset |-> s],
              data |-> [o \in Offset |-> z]]
  BY <1>1 DEF Fresh
<1>4. s \in Nat /\ s < QueueSize /\ QueueSize \in Nat
  BY QueueSizes DEF Offset
<1>5. ring.front = [gen |-> 0, offset |-> s] /\ ring.tail = ring.front /\ ring.front.gen = 0 /\ ring.front.offset = s
  BY <1>3
<1>6. Start[1] = 0 /\ Start \in [1 .. 1 -> Nat]
  BY DEF Start
<1>7. Ring!Layout(<< >>, Start)
  BY <1>6 DEF Ring!Layout
<1>8. Ring!MarkerAt(ring, 0) = ring.front
  <2>1. s + 0 < QueueSize /\ s + 0 = s
    BY <1>4
  <2>2. Ring!MarkerAt(ring, 0) = [gen |-> 0, offset |-> s]
    BY <1>5, <2>1 DEF Ring!MarkerAt
  <2> QED BY <1>5, <2>2
<1>9. Ring!HasFront(ring)
  <2>1. [gen |-> 0, offset |-> s] \in Ring!Marker
    BY <1>4, SameTypes DEF Marker
  <2>2. [o \in Offset |-> z] \in [Ring!Offset -> Ring!Cell]
    BY <1>2, SameTypes DEF Ring!Cell
  <2>3. ring \in Ring!Queue
    BY <1>3, <2>1, <2>2 DEF Ring!Queue
  <2> QED BY <1>5, <2>3, SameTypes DEF Ring!HasFront
<1>10. Ring!Uses(ring, 0)
  BY <1>5, <1>8, <1>9, SameTypes DEF Ring!Uses
<1>11. Ring!Holds(ring, << >>, Start)
  BY <1>6, <1>10 DEF Ring!Holds
<1> QED BY <1>7, <1>11

\* The queue object is created, or deleted with what it holds.
LEMMA FreshKeeps ==
    ASSUME LossInv, QueueShape(queue'), queue'.tpc = cls_2pc_queue_init,
           queue'.inc \in Nat, queue.inc <= queue'.inc, queue'.exists => queue.inc < queue'.inc,
           pub' = pub, proc' = proc, acked' = acked, overshot' = overshot,
           Unmixed' => Unmixed, deleted \subseteq deleted',
           \A es, p : Tidy(es, p) => IdsOf(es) \subseteq deleted'
    PROVE  LossInv'
<1>1. PICK ring : ring = queue'.tpc.q
  OBVIOUS
<1>2. ring = Fresh(MaxHeadSize)
  BY <1>1 DEF cls_2pc_queue_init, queue_init, Fresh
<1>3. MaxHeadSize \in Offset
  BY QueueSizes DEF Offset
<1>4. Ring!Layout(<< >>, Start) /\ Ring!Holds(ring, << >>, Start)
  BY <1>2, <1>3, FreshRing
<1>5. Committed' = Committed /\ queue.inc \in Nat /\ 1 <= queue.inc
  BY DEF Committed, LossInv
<1>6. \A d \in Daemons : Coroutine(proc[d], queue.inc)'
  BY <1>5 DEF LossInv, Coroutine
<1>7. ASSUME Unmixed' PROVE Tidy(<< >>, Start)'
  <2>1. PICK es, p : Tidy(es, p)
    BY <1>7 DEF LossInv
  <2>2. IdsOf(es) \subseteq deleted'
    BY <2>1
  <2>3. IdsOf(<< >>) = {}
    BY DEF IdsOf
  <2>4. PICK none : none = << >>
    OBVIOUS
  <2>5. /\ Len(none) = 0 /\ IdsOf(none) \subseteq Committed
        /\ ~overshot => Committed \subseteq IdsOf(none) \cup acked \cup deleted'
        /\ acked \subseteq Committed
    BY <2>1, <2>2, <2>3, <2>4 DEF Tidy
  <2>6. ASSUME NEW d \in Daemons, Busy(proc[d])
        PROVE  /\ BatchOK(proc[d], Committed, acked)
               /\ ~(queue'.exists /\ proc[d].inc = queue'.inc)
    <3>1. BatchOK(proc[d], Committed, acked)
      BY <2>1, <2>6 DEF Tidy
    <3>2. proc[d].inc \in Nat /\ proc[d].inc <= queue.inc
      BY <2>6 DEF LossInv, Coroutine
    <3>3. PICK i : i = proc[d].inc
      OBVIOUS
    <3>4. i \in Nat /\ i <= queue.inc
      BY <3>2, <3>3
    <3>5. queue'.exists => i # queue'.inc
      BY <1>5, <3>4
    <3> QED BY <3>1, <3>3, <3>5
  <2>7. Tidy(none, Start)'
    BY <1>1, <1>4, <1>5, <2>4, <2>5, <2>6 DEF Tidy
  <2> QED BY <2>4, <2>7
<1>8. Unmixed' => \E es, p : Tidy(es, p)'
  BY <1>7
<1>9. 1 <= queue'.inc
  BY <1>5
<1> QED BY <1>6, <1>8, <1>9 DEF LossInv

\* The steps of a topic operation (rgw_notify.cc: add_persistent_topic,
\* remove_persistent_topic).
LEMMA TopicKeeps ==
    ASSUME LossInv, NEW a \in Admins, Topic(a) \/ CrashAdmin(a)
    PROVE  LossInv'
<1>1. pub' = pub /\ proc' = proc /\ acked' = acked /\ overshot' = overshot
  BY DEF Topic, CrashAdmin, add_persistent_topic, ListTopic, remove_persistent_topic, UnlistTopic,
         daemonVars, auxVars
<1>2. QueueShape(queue) /\ queue.inc \in Nat /\ 1 <= queue.inc
  BY DEF LossInv
<1>3. CASE queue' = queue /\ deleted' = deleted
  <2>1. Committed' = Committed
    BY <1>1 DEF Committed
  <2>2. Aside
    BY <1>1, <1>2, <1>3, <2>1 DEF Aside, LossInv
  <2> QED BY <2>2, AsideKeeps
<1>4. CASE ~queue.exists /\ queue' = [NewQueue EXCEPT !.inc = queue.inc + 1] /\ deleted' = deleted
  <2>1. QueueShape(queue') /\ queue'.inc = queue.inc + 1 /\ queue'.tpc = cls_2pc_queue_init
    BY <1>4, NewQueueShape
  <2>2. queue'.inc \in Nat /\ queue.inc <= queue'.inc /\ queue.inc < queue'.inc /\ queue'.inc # 1
    BY <1>2, <2>1
  <2>3. Unmixed' => Unmixed
    BY <1>1, <2>2 DEF Unmixed
  <2>4. \A es, p : Tidy(es, p) => IdsOf(es) \subseteq deleted'
    <3>1. SUFFICES ASSUME NEW es, NEW p, Tidy(es, p) PROVE IdsOf(es) = {}
      OBVIOUS
    <3>2. Len(es) = 0
      BY <1>4, <3>1 DEF Tidy
    <3> QED BY <3>2 DEF IdsOf
  <2> QED BY <1>1, <1>4, <2>1, <2>2, <2>3, <2>4, FreshKeeps
<1>5. CASE /\ queue.exists /\ queue' = [NewQueue EXCEPT !.exists = FALSE, !.inc = queue.inc]
           /\ deleted' = deleted \cup Queued
  <2>1. QueueShape(queue') /\ queue'.inc = queue.inc /\ queue'.tpc = cls_2pc_queue_init
    BY <1>5, NewQueueShape
  <2>2. ~queue'.exists
    BY <1>5, Zenon DEF NewQueue
  <2>3. queue'.inc \in Nat /\ queue.inc <= queue'.inc
    BY <1>2, <2>1
  <2>4. Unmixed' => Unmixed
    BY <1>1, <2>1 DEF Unmixed
  <2>5. \A es, p : Tidy(es, p) => IdsOf(es) \subseteq deleted'
    <3>1. SUFFICES ASSUME NEW es, NEW p, Tidy(es, p) PROVE IdsOf(es) \subseteq deleted'
      OBVIOUS
    <3>2. PICK ring : ring = queue.tpc.q
      OBVIOUS
    <3>3. {ring.data[o].id : o \in Live(ring)} = IdsOf(es)
      BY <3>1, <3>2, LiveIds DEF Tidy
    <3>4. Queued = IdsOf(es)
      BY <1>5, <3>2, <3>3 DEF Queued
    <3> QED BY <1>5, <3>4
  <2> QED BY <1>1, <1>5, <2>1, <2>2, <2>3, <2>4, <2>5, FreshKeeps
<1>6. \/ queue' = queue /\ deleted' = deleted
      \/ ~queue.exists /\ queue' = [NewQueue EXCEPT !.inc = queue.inc + 1] /\ deleted' = deleted
      \/ /\ queue.exists /\ queue' = [NewQueue EXCEPT !.exists = FALSE, !.inc = queue.inc]
         /\ deleted' = deleted \cup Queued
  BY DEF Topic, CrashAdmin, add_persistent_topic, ListTopic, remove_persistent_topic, UnlistTopic, auxVars
<1> QED BY <1>3, <1>4, <1>5, <1>6

\* The initial states satisfy the invariant.
LEMMA LossInit ==
    ASSUME Init
    PROVE  LossInv
<1>1. PICK s \in StartOffsets :
          queue = [NewQueue EXCEPT !.tpc.q.front = [gen |-> 0, offset |-> s],
                                   !.tpc.q.tail = [gen |-> 0, offset |-> s]]
  BY DEF Init
<1>2. s \in Offset
  BY <1>1, NotifyConstants
<1>3. PICK m : m = [gen |-> 0, offset |-> s]
  OBVIOUS
<1>4. PICK o : o = cls_2pc_queue_init
  OBVIOUS
<1>5. PICK t, lk : t = TRUE /\ lk = Lk!Unlocked(TRUE)
  OBVIOUS
<1>6. NewQueue = [exists |-> t, tpc |-> o, lk |-> lk, inc |-> 1]
  BY <1>4, <1>5 DEF NewQueue
<1>7. PICK r : r = [[o.q EXCEPT !.front = m] EXCEPT !.tail = m]
  OBVIOUS
<1>8. TpcShape(o) /\ o.q = queue_init
  BY <1>4 DEF TpcShape, cls_2pc_queue_init
<1>9. queue = [exists |-> t, tpc |-> [o EXCEPT !.q = r], lk |-> lk, inc |-> 1]
  BY <1>1, <1>3, <1>6, <1>7, <1>8 DEF TpcShape
<1>10. queue.tpc.q = r
  BY <1>8, <1>9 DEF TpcShape
<1>11. r = Fresh(s)
  <2>1. PICK data : data = [c \in Offset |-> ZeroCell]
    OBVIOUS
  <2>2. PICK old : old = [gen |-> 0, offset |-> MaxHeadSize]
    OBVIOUS
  <2>3. o.q = [front |-> old, tail |-> old, data |-> data]
    BY <1>8, <2>1, <2>2 DEF queue_init
  <2>4. PICK ring : ring = o.q
    OBVIOUS
  <2>5. ring = [front |-> old, tail |-> old, data |-> data]
    BY <2>3, <2>4
  <2>6. PICK half : half = [ring EXCEPT !.front = m]
    OBVIOUS
  <2>7. half = [front |-> m, tail |-> old, data |-> data]
    BY <2>5, <2>6
  <2>8. r = [half EXCEPT !.tail = m]
    BY <1>7, <2>4, <2>6
  <2>9. r = [front |-> m, tail |-> m, data |-> data]
    BY <2>7, <2>8
  <2> QED BY <1>3, <2>1, <2>9 DEF Fresh
<1>12. Ring!Layout(<< >>, Start) /\ Ring!Holds(queue.tpc.q, << >>, Start)
  BY <1>2, <1>10, <1>11, FreshRing
<1>13. QueueShape(queue) /\ queue.exists /\ queue.inc = 1
  BY InitQueue
<1>14. /\ DOMAIN pub = Publishers /\ DOMAIN proc = Daemons
       /\ Committed = {} /\ acked = {} /\ \A d \in Daemons : ProcShape(proc[d]) /\ ~Busy(proc[d])
  BY NotBusy DEF Init, Committed
<1>15. PICK none : none = << >>
  OBVIOUS
<1>16. IdsOf(none) = {} /\ Len(none) = 0
  BY <1>15 DEF IdsOf
<1>17. Tidy(none, Start)
  BY <1>12, <1>14, <1>15, <1>16 DEF Tidy
<1> QED BY <1>13, <1>14, <1>17 DEF LossInv, Coroutine

\* Every step keeps it.
LEMMA LossStep ==
    LossInv /\ [Next]_vars => LossInv'
<1> SUFFICES ASSUME LossInv, [Next]_vars PROVE LossInv'
  OBVIOUS
<1>1. ASSUME NEW p \in Publishers, Request(p) \/ CrashRequest(p) PROVE LossInv'
  BY <1>1, RequestKeeps
<1>2. ASSUME NEW d \in Daemons, ProcessQueue(d) PROVE LossInv'
  <2>1. CASE ListEntries(d)
    BY <2>1, ListKeeps
  <2>2. CASE \E outcome \in Answers \cup {"pending"} : SpawnEntry(d, outcome)
    BY <2>2, SpawnKeeps DEF Answers, Outcome
  <2>3. CASE \E i \in Entries, outcome \in Answers : EntryAnswered(d, i, outcome)
    BY <2>3, AnswerKeeps
  <2>4. CASE RemoveEntries(d)
    BY <2>4, RemoveKeepsAll
  <2> QED BY <1>2, <2>1, <2>2, <2>3, <2>4 DEF ProcessQueue
<1>3. ASSUME NEW d \in Daemons,
             ProcessQueues(d) \/ cleanup_queue(d) \/ CrashDaemon(d) \/ LockLapses(d)
      PROVE LossInv'
  BY <1>3, ManagerKeeps
<1>4. ASSUME NEW a \in Admins, Topic(a) \/ CrashAdmin(a) PROVE LossInv'
  BY <1>4, TopicKeeps
<1>5. CASE StalePeriodPasses
  BY <1>5, StaleKeeps
<1>6. CASE UNCHANGED vars
  <2>1. /\ queue' = queue /\ pub' = pub /\ proc' = proc
        /\ acked' = acked /\ deleted' = deleted /\ overshot' = overshot
    BY <1>6 DEF vars, daemonVars, auxVars
  <2>2. Committed' = Committed
    BY <2>1 DEF Committed
  <2>3. Aside
    BY <2>1, <2>2 DEF Aside, LossInv
  <2> QED BY <2>3, AsideKeeps
<1> QED BY <1>1, <1>2, <1>3, <1>4, <1>5, <1>6 DEF Next

\* A committed notification stays in the queue until the endpoint acknowledged it or the
\* topic is deleted, whoever owns the queue, loses it or dies in the middle of a batch
\* (rgw_notify.cc: process_queue removes no entry that was not acknowledged).
THEOREM NotifyNoLoss ==
    Spec => []NoLoss
<1>1. Init => LossInv
  BY LossInit
<1>2. LossInv => NoLoss
  <2> SUFFICES ASSUME LossInv, ~overshot PROVE Committed \subseteq Queued \cup acked \cup deleted
    BY DEF NoLoss
  <2>1. PICK es, p : Tidy(es, p)
    BY DEF LossInv, Unmixed
  <2>2. Committed \subseteq IdsOf(es) \cup acked \cup deleted
    BY <2>1 DEF Tidy
  <2>3. IdsOf(es) \subseteq Queued
    <3>1. CASE queue.exists
      <4>1. PICK ring : ring = queue.tpc.q
        OBVIOUS
      <4>2. {ring.data[o].id : o \in Live(ring)} = IdsOf(es)
        BY <2>1, <4>1, LiveIds DEF Tidy
      <4> QED BY <3>1, <4>1, <4>2 DEF Queued
    <3>2. CASE ~queue.exists
      <4>1. Len(es) = 0
        BY <2>1, <3>2 DEF Tidy
      <4> QED BY <4>1 DEF IdsOf
    <3> QED BY <3>1, <3>2
  <2> QED BY <2>2, <2>3
<1> QED BY <1>1, <1>2, LossStep, PTL DEF Spec

\* Whatever the endpoint acknowledged was committed by its request: nothing reserved,
\* aborted, torn or overwritten is pushed (rgw_notify.cc: process_entry).  Excluded is
\* only a queue created anew in a behaviour in which a removal went too far: the end
\* marker of a batch of the old queue may lie inside an entry of the new one.
THEOREM NotifyOnlyCommittedDelivered ==
    Spec => []((~overshot \/ queue.inc = 1) => OnlyCommittedDelivered)
<1>1. Init => LossInv
  BY LossInit
<1>2. LossInv => ((~overshot \/ queue.inc = 1) => OnlyCommittedDelivered)
  BY DEF LossInv, Unmixed, Tidy, OnlyCommittedDelivered
<1> QED BY <1>1, <1>2, LossStep, PTL DEF Spec
=============================================================================
