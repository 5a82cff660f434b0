------------------------------- MODULE TailGC ------------------------------
(***************************************************************************)
(* The tail objects of the gateway: how requests that write, copy and      *)
(* delete objects reference them (cls_refcount), how what is deleted or    *)
(* overwritten is handed to the garbage collector's queue, and how the     *)
(* collectors of the gateways work that queue off (rgw_gc, cls_rgw_gc).    *)
(*                                                                         *)
(* One shard of the queue, as the FIFO that ClsQueue implements, with every*)
(* gateway past the transition from omap; buckets without versions; every  *)
(* gateway waits equally long before it collects.  Nothing defers an entry *)
(* any more (rgw_op.cc:2073), so update_entry is left out.                 *)
(***************************************************************************)
EXTENDS Integers, Sequences, FiniteSets, FiniteSetsExt

CONSTANTS
    Names,        \* the names of objects
    Requests,     \* the requests, whose numbers are also the tags they write
    Gateways,     \* the gateways, each with a collector
    FirstTails,   \* how many tail objects the first object has
    QueueMax,     \* how many entries the queue of the collector holds
    ListMax,      \* how many a collector lists at a time, 100 in the code
    MaxFaults     \* bound on the calls that fail, the requests and collectors that
                  \* die and the leases that end under a working collector

Nobody == "nobody"

ASSUME TailConstants ==
    /\ Requests \subseteq Nat \ {0, 1, 2} /\ IsFiniteSet(Requests) /\ Cardinality(Names) > 1
    /\ FirstTails \in Nat \ {0} /\ QueueMax \in Nat /\ ListMax \in Nat \ {0}
    /\ MaxFaults \in Nat /\ Nobody \notin Gateways

VARIABLES
    heads,     \* the head object of each name
    tails,     \* the references of each tail object
    req,       \* where each request is
    queue,     \* the entries waiting for collection
    removed,   \* how many entries have been removed
    expired,   \* how many entries have waited long enough, removed ones included
    gc,        \* where each collector is
    puts,      \* the <<gateway, tag, tail>> a collector has sent and not heard of
    lock,      \* the gateway that holds the lock of the queue
    faults,    \* how many failures, crashes and lapses there have been
    excused    \* history: the <<tail, tag>> of references that were given up

vars == <<heads, tails, req, queue, removed, expired, gc, puts, lock, faults, excused>>
store == <<heads, tails>>
collection == <<queue, removed, expired, gc, puts, lock>>

Wildcard == 0
FirstTag == 1
CopyTag == 2
Tags == Requests \cup {FirstTag, CopyTag}

\* The tail objects of a request's own data; the name holds the tag it was written with.
TailIds == (Requests \X {1}) \cup ({FirstTag} \X (1..FirstTails))
Creator(t) == t[1]
FirstManifest == {FirstTag} \X (1..FirstTails)

NoHead == [tag |-> 0, tail_tag |-> 0, tails |-> {}]
HeadWith(tag, tail_tag, ts) == [tag |-> tag, tail_tag |-> tail_tag, tails |-> ts]

\* A tail object without the attribute counts as referenced by the wildcard.
Gone == [refs |-> {}, retired |-> {}]
Fresh == [refs |-> {Wildcard}, retired |-> {}]
Exists(t) == tails[t].refs # {}

FirstName == CHOOSE n \in Names : TRUE
CopyName == CHOOSE n \in Names \ {FirstName} : TRUE

NotStarted == [pc |-> "new", kind |-> "none", dst |-> FirstName,
               tails |-> {}, held |-> {}, seen |-> NoHead]
Finished == [NotStarted EXCEPT !.pc = "done"]
Resting == [pc |-> "idle", marker |-> 0, first |-> 0, count |-> 0, truncated |-> FALSE]

\* One object, which may have been copied once; the copy may have been deleted again.
Init ==
    /\ \E copy \in {"none", "there", "deleted"} :
        /\ heads = [n \in Names |->
               IF n = FirstName THEN HeadWith(FirstTag, FirstTag, FirstManifest)
               ELSE IF n = CopyName /\ copy = "there"
                    THEN HeadWith(CopyTag, CopyTag, FirstManifest)
               ELSE NoHead]
        /\ tails = [t \in TailIds |->
               IF Creator(t) # FirstTag THEN Gone
               ELSE IF copy = "none" THEN Fresh
               ELSE [refs |-> {Wildcard, CopyTag}, retired |-> {}]]
        /\ queue = IF copy = "deleted" THEN <<[tag |-> CopyTag, tails |-> FirstManifest]>>
                   ELSE <<>>
    /\ req = [r \in Requests |-> NotStarted]
    /\ removed = 0 /\ expired = 0
    /\ gc = [g \in Gateways |-> Resting] /\ puts = {} /\ lock = Nobody
    /\ faults = [failures |-> 0, crashes |-> 0, lapses |-> 0]
    /\ excused = {}

-----------------------------------------------------------------------------
(* cls_refcount, with implicit_ref.                                        *)

refcount_get(o, tag) == [o EXCEPT !.refs = @ \cup {tag}]

refcount_put_again(o, tag) ==
    LET ref == o.refs \cap {IF tag \in o.refs THEN tag ELSE Wildcard}
    IN  IF ref = {} THEN o
        ELSE IF o.refs = ref THEN Gone
        ELSE [refs |-> o.refs \ ref, retired |-> o.retired \cup {tag}]

\* A tag that has been put once is retired: putting it again does nothing.
refcount_put(o, tag) ==
    LET ref == o.refs \cap {IF tag \in o.refs THEN tag ELSE Wildcard}
    IN  IF ref = {} \/ tag \in o.retired THEN o
        ELSE IF o.refs = ref THEN Gone
        ELSE [refs |-> o.refs \ ref, retired |-> o.retired \cup {tag}]

-----------------------------------------------------------------------------
(* Requests.                                                               *)

Faulty == faults.failures + faults.crashes + faults.lapses < MaxFaults
Goes(r, pc) == req' = [req EXCEPT ![r].pc = pc]
Ends(r) == req' = [req EXCEPT ![r] = Finished]
Quiet == UNCHANGED <<collection, faults, excused>>

\* A new object: its tail is written before its head.
PutObj(r, n) ==
    /\ req[r].pc = "new"
    /\ tails' = [tails EXCEPT ![<<r, 1>>] = Fresh]
    /\ req' = [req EXCEPT ![r] = [pc |-> "create", kind |-> "put", dst |-> n,
                  tails |-> {<<r, 1>>}, held |-> {<<r, 1>>}, seen |-> NoHead]]
    /\ Quiet /\ UNCHANGED heads

\* copy_obj reads the manifest of its source.  A copy onto itself keeps the tail and
\* goes by the state it has read; another one references the tail.
CopyObj(r, src, dst) ==
    /\ req[r].pc = "new"
    /\ heads[src] # NoHead
    /\ req' = [req EXCEPT ![r] =
           [pc |-> IF src = dst THEN "write" ELSE "get",
            kind |-> IF src = dst THEN "self" ELSE "copy", dst |-> dst,
            tails |-> heads[src].tails, held |-> {},
            seen |-> IF src = dst THEN heads[src] ELSE NoHead]]
    /\ Quiet /\ UNCHANGED store

DeleteObj(r, n) ==
    /\ req[r].pc = "new"
    /\ heads[n] # NoHead
    /\ req' = [req EXCEPT ![r] = [pc |-> "write", kind |-> "delete", dst |-> n,
                  tails |-> {}, held |-> {}, seen |-> heads[n]]]
    /\ Quiet /\ UNCHANGED store

Foremost(ts) == CHOOSE t \in ts : \A u \in ts : t[2] <= u[2]

\* One reference after the other; a tail object that is gone ends the copy.
GetReference(r) ==
    /\ req[r].pc = "get"
    /\ LET t == Foremost(req[r].tails \ req[r].held)
           held == req[r].held \cup {t}
       IN  IF Exists(t)
           THEN /\ tails' = [tails EXCEPT ![t] = refcount_get(@, r)]
                /\ req' = [req EXCEPT ![r].held = held,
                              ![r].pc = IF held = req[r].tails THEN "create" ELSE @]
           ELSE Goes(r, "undo") /\ UNCHANGED tails
    /\ Quiet /\ UNCHANGED heads

\* _do_write_meta, first without a look at what is there
CreateHead(r) ==
    /\ req[r].pc = "create"
    /\ IF heads[req[r].dst] = NoHead
       THEN /\ heads' = [heads EXCEPT ![req[r].dst] = HeadWith(r, r, req[r].tails)]
            /\ Ends(r)
       ELSE Goes(r, "read") /\ UNCHANGED heads
    /\ Quiet /\ UNCHANGED tails

ReadState(r) ==
    /\ req[r].pc = "read"
    /\ req' = [req EXCEPT ![r].pc = "write", ![r].seen = heads[req[r].dst]]
    /\ Quiet /\ UNCHANGED store

UnguardedTag(h, seen) == h # NoHead

\* prepare_atomic_modification: the head is still the one that was read
SameTag(h, seen) == h.tag = seen.tag

\* The head is replaced or removed; what it held of the tail goes to the collector.
WriteHead(r) ==
    /\ req[r].pc = "write"
    /\ LET q == req[r]
       IN  /\ SameTag(heads[q.dst], q.seen)
           /\ heads' = [heads EXCEPT ![q.dst] =
                  CASE q.kind = "delete" -> NoHead
                    [] q.kind = "self" -> HeadWith(r, q.seen.tail_tag, q.tails)
                    [] OTHER -> HeadWith(r, r, q.tails)]
           /\ IF q.kind = "self" \/ q.seen = NoHead THEN Ends(r) ELSE Goes(r, "chain")
    /\ Quiet /\ UNCHANGED tails

\* The head has changed: the request has lost a race.  For a write that counts as
\* success: PutObj removes what it wrote, but copy_obj keeps its references.
LoseRace(r) ==
    /\ req[r].pc = "write"
    /\ ~SameTag(heads[req[r].dst], req[r].seen)
    /\ IF req[r].kind = "put" THEN Goes(r, "undo") ELSE Ends(r)
    /\ excused' = IF req[r].kind = "copy" THEN excused \cup (req[r].held \X {r}) ELSE excused
    /\ UNCHANGED <<store, collection, faults>>

\* A call before the write of the head fails.
FailRequest(r) ==
    /\ Faulty
    /\ req[r].pc \in {"get", "create", "read", "write"}
    /\ IF req[r].kind \in {"put", "copy"} /\ req[r].held # {} THEN Goes(r, "undo") ELSE Ends(r)
    /\ faults' = [faults EXCEPT !.failures = @ + 1]
    /\ UNCHANGED <<store, collection, excused>>

\* One tail object less to undo or to collect inline.
Released(r, t) ==
    IF req[r].held = {t} THEN Ends(r) ELSE req' = [req EXCEPT ![r].held = @ \ {t}]

\* The call that would have released t fails, which is only logged: the reference stays.
\* After another failure it counts as the same one.
Leaked(r, t, tag) ==
    /\ IF faults.failures > 0 THEN UNCHANGED faults
       ELSE Faulty /\ faults' = [faults EXCEPT !.failures = @ + 1]
    /\ excused' = excused \cup {<<t, tag>>}
    /\ Released(r, t)
    /\ UNCHANGED <<store, collection>>

\* ~RadosWriter removes what was written; copy_obj puts the references it got.
Undo(r) ==
    /\ req[r].pc = "undo"
    /\ IF req[r].held = {} THEN Ends(r) /\ UNCHANGED tails
       ELSE LET t == Foremost(req[r].held)
            IN  /\ tails' = [tails EXCEPT ![t] =
                       IF req[r].kind = "put" THEN Gone ELSE refcount_put(@, r)]
                /\ Released(r, t)
    /\ Quiet /\ UNCHANGED heads

FailUndo(r) ==
    /\ req[r].pc = "undo"
    /\ req[r].held # {}
    /\ Leaked(r, Foremost(req[r].held), r)

\* complete_atomic_modification: send_chain
SendChain(r) ==
    /\ req[r].pc = "chain"
    /\ Len(queue) < QueueMax
    /\ queue' = Append(queue, [tag |-> req[r].seen.tail_tag, tails |-> req[r].seen.tails])
    /\ Ends(r)
    /\ UNCHANGED <<store, removed, expired, gc, puts, lock, faults, excused>>

\* The queue is full or cannot be reached: delete_objs_inline.
FailChain(r) ==
    /\ req[r].pc = "chain"
    /\ IF Len(queue) = QueueMax THEN UNCHANGED faults
       ELSE Faulty /\ faults' = [faults EXCEPT !.failures = @ + 1]
    /\ req' = [req EXCEPT ![r].pc = "inline", ![r].held = req[r].seen.tails]
    /\ UNCHANGED <<store, collection, excused>>

DeleteInline(r) ==
    /\ req[r].pc = "inline"
    /\ LET t == Foremost(req[r].held)
       IN  /\ tails' = [tails EXCEPT ![t] = refcount_put(@, req[r].seen.tail_tag)]
           /\ Released(r, t)
    /\ Quiet /\ UNCHANGED heads

FailInline(r) ==
    /\ req[r].pc = "inline"
    /\ Leaked(r, Foremost(req[r].held), req[r].seen.tail_tag)

\* What a request that dies has referenced, or has taken from a head, is left behind.
CrashRequest(r) ==
    /\ Faulty
    /\ req[r].pc \notin {"new", "done"}
    /\ Ends(r)
    /\ faults' = [faults EXCEPT !.crashes = @ + 1]
    /\ excused' = excused \cup
           (CASE req[r].pc = "chain" -> req[r].seen.tails \X {req[r].seen.tail_tag}
              [] req[r].pc = "inline" -> req[r].held \X {req[r].seen.tail_tag}
              [] OTHER -> req[r].held \X {r})
    /\ UNCHANGED <<store, collection>>

-----------------------------------------------------------------------------
(* Collectors.                                                             *)

Steady == UNCHANGED <<heads, req, faults, excused>>

\* The next entry has waited for rgw_gc_obj_min_wait.
Expire ==
    /\ expired < removed + Len(queue)
    /\ expired' = expired + 1
    /\ Steady /\ UNCHANGED <<tails, queue, removed, gc, puts, lock>>

Unlocked(g) == IF lock = g THEN Nobody ELSE lock

\* done: the collector unlocks and rests until its next round
Stops(g) ==
    /\ gc' = [gc EXCEPT ![g] = Resting]
    /\ lock' = Unlocked(g)

GcLock(g) ==
    /\ gc[g].pc = "idle" /\ lock = Nobody
    /\ lock' = g
    /\ gc' = [gc EXCEPT ![g].pc = "list"]
    /\ Steady /\ UNCHANGED <<tails, queue, removed, expired, puts>>

PageAfterNext(marker) ==
    {i \in 1..Len(queue) : /\ removed + i > Max({marker, removed}) + 1
                           /\ removed + i <= Max({marker, removed}) + ListMax}

\* The entries from marker on, up to ListMax; a marker in the removed part of the
\* ring finds zeros there, which is an error and lists nothing.
Page(marker) ==
    IF marker # 0 /\ marker < removed THEN {}
    ELSE {i \in 1..Len(queue) : /\ removed + i > marker
                                /\ removed + i <= Max({marker, removed}) + ListMax}

\* process lists the entries that have expired and puts the references of all.
GcList(g) ==
    /\ gc[g].pc = "list"
    /\ LET page == Page(gc[g].marker)
           due == {i \in page : removed + i <= expired}
       IN  IF due = {} THEN Stops(g) /\ UNCHANGED puts
           ELSE /\ puts' = puts \cup UNION {{<<g, queue[i].tag, t>> : t \in queue[i].tails} : i \in due}
                /\ gc' = [gc EXCEPT ![g] = [pc |-> "work", marker |-> removed + Max(page),
                              first |-> removed + Min(due) - 1, count |-> Cardinality(due),
                              truncated |-> Max(page) < Len(queue)]]
                /\ UNCHANGED lock
    /\ Steady /\ UNCHANGED <<tails, queue, removed, expired>>

\* A put arrives at a tail object, in any order, even after its collector stopped.
PutArrives(p) ==
    /\ tails' = [tails EXCEPT ![p[3]] = refcount_put(@, p[2])]
    /\ puts' = puts \ {p}
    /\ Steady /\ UNCHANGED <<queue, removed, expired, gc, lock>>

PutsOf(g) == {p \in puts : p[1] = g}

\* drain_ios
Drained(g) == PutsOf(g) = {}

\* remove_queue_entries: as many as were listed, from the front, whoever holds the
\* lock.  Those are not the listed ones if a page before was left with entries that
\* had not expired, or if others have removed the listed ones after a lapse.
GcRemove(g) ==
    /\ gc[g].pc = "work"
    /\ Drained(g)
    /\ LET n == Min({gc[g].count, Len(queue)})
       IN  /\ queue' = SubSeq(queue, n + 1, Len(queue))
           /\ removed' = removed + n
           /\ expired' = Max({expired, removed + n})
           /\ excused' = excused \cup
                  UNION {queue[i].tails \X {queue[i].tag} : i \in {k \in 1..n :
                      \/ removed + k <= gc[g].first
                      \/ faults.lapses > 0 /\ removed + k > gc[g].first + gc[g].count}}
    /\ IF gc[g].truncated
       THEN gc' = [gc EXCEPT ![g] = [Resting EXCEPT !.pc = "list", !.marker = gc[g].marker]] /\ UNCHANGED lock
       ELSE Stops(g)
    /\ UNCHANGED <<store, req, puts, faults>>

\* Of the puts nobody waits for any more some may still arrive.
Abandoned(g) ==
    \E late \in SUBSET PutsOf(g) :
        puts' = (puts \ PutsOf(g)) \cup {<<Nobody, p[2], p[3]>> : p \in late}

\* A call fails, time is up or the gateway goes down: nothing is removed.
GcStop(g) ==
    /\ Faulty
    /\ gc[g].pc # "idle"
    /\ Abandoned(g)
    /\ Stops(g)
    /\ faults' = [faults EXCEPT !.failures = @ + 1]
    /\ UNCHANGED <<store, req, queue, removed, expired, excused>>

\* The gateway dies with the lock, which lapses later.
GcCrash(g) ==
    /\ Faulty
    /\ gc[g].pc # "idle"
    /\ Abandoned(g)
    /\ gc' = [gc EXCEPT ![g] = Resting]
    /\ faults' = [faults EXCEPT !.crashes = @ + 1]
    /\ UNCHANGED <<store, req, queue, removed, expired, lock, excused>>

\* rgw_gc_processor_max_time is over, for a dead collector or for a slow one.
LockLapses ==
    /\ lock # Nobody
    /\ lock' = Nobody
    /\ IF gc[lock].pc = "idle" THEN UNCHANGED faults
       ELSE /\ Faulty
            /\ faults' = [faults EXCEPT !.lapses = @ + 1]
    /\ UNCHANGED <<store, req, queue, removed, expired, gc, puts, excused>>

Next ==
    \/ \E r \in Requests :
        \/ \E n \in Names : PutObj(r, n) \/ DeleteObj(r, n) \/ \E m \in Names : CopyObj(r, n, m)
        \/ GetReference(r) \/ CreateHead(r) \/ ReadState(r) \/ WriteHead(r) \/ LoseRace(r)
        \/ FailRequest(r) \/ Undo(r) \/ FailUndo(r)
        \/ SendChain(r) \/ FailChain(r) \/ DeleteInline(r) \/ FailInline(r) \/ CrashRequest(r)
    \/ \E g \in Gateways :
        GcLock(g) \/ GcList(g) \/ GcRemove(g) \/ GcStop(g) \/ GcCrash(g)
    \/ \E p \in puts : PutArrives(p)
    \/ Expire \/ LockLapses

Spec == Init /\ [][Next]_vars

\* The collector thread of a gateway goes round for ever, what it sends is answered,
\* and a lock that nobody gives up ends with its lease.
FairSpec ==
    /\ Spec
    /\ WF_vars(Expire)
    /\ \A g \in Gateways :
        /\ WF_vars(GcLock(g) \/ GcList(g) \/ GcRemove(g))
        /\ WF_vars(\E p \in PutsOf(g) : PutArrives(p))
    /\ WF_vars(LockLapses /\ UNCHANGED faults)

-----------------------------------------------------------------------------
References(t, tag) ==
    tag \in tails[t].refs \/ (Creator(t) = tag /\ Wildcard \in tails[t].refs)

\* Every object has all of its tail, and a reference of its own to it, whatever was
\* copied, overwritten, collected twice or collected late (cls_refcount.cc:123).
NoDataLoss ==
    \A n \in Names : heads[n] # NoHead =>
        \A t \in heads[n].tails : References(t, heads[n].tail_tag)

\* Somebody will still drop the reference of tag to t.
Owned(t, tag) ==
    \/ \E n \in Names : heads[n].tail_tag = tag /\ t \in heads[n].tails
    \/ \E i \in 1..Len(queue) : queue[i].tag = tag /\ t \in queue[i].tails
    \/ \E g \in Gateways : <<g, tag, t>> \in puts
    \/ tag \in Requests /\ req[tag].pc \notin {"new", "done"} /\ t \in req[tag].held
    \/ \E r \in Requests :
        /\ req[r].seen.tail_tag = tag
        /\ \/ req[r].pc = "chain" /\ t \in req[r].seen.tails
           \/ req[r].pc = "inline" /\ t \in req[r].held

Orphans == {o \in TailIds \X Tags : References(o[1], o[2]) /\ ~Owned(o[1], o[2])}

\* No reference is left behind but those that a request held or had to drop when it
\* died, the one that a failed clean-up was about, those of a copy that lost a race, and
\* those of entries that a collector removed without having listed them (rgw_gc.cc:650:
\* entries are removed after all their puts).
OrphansExplained == Orphans \subseteq excused

\* What is queued is purged in the end, whichever collectors stop early, fail or die
\* with the lock in between (rgw_gc.cc:518).
EventuallyPurged ==
    \A tag \in Tags :
        (\E i \in 1..Len(queue) : queue[i].tag = tag) ~>
        (\A t \in TailIds : References(t, tag) => <<t, tag>> \in excused)

\* "Normally these RADOS objects are removed automatically" (doc/radosgw/orphans.rst:10)
NoOrphans == faults.failures + faults.crashes + faults.lapses = 0 => Orphans = {}
=============================================================================
