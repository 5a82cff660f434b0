------------------------- MODULE BucketIndexProofs -------------------------
(***************************************************************************)
(* For any number of requests and listings, and any number of deaths and   *)
(* lost calls: the header counts the entry, and an entry with nothing      *)
(* pending agrees with the head unless one of the races happened that the  *)
(* code leaves open.                                                       *)
(***************************************************************************)
EXTENDS BucketIndex, TLAPS

Heads == [writer : Nat, ver : Nat]
Entries == [present : BOOLEAN, exists : BOOLEAN, meta : Nat, ver : Nat,
            pending : SUBSET Requests]
RequestStates ==
    [pc : {"new", "prepare", "create", "read", "write", "complete", "cancel", "done"},
     kind : {"none", "put", "delete"}, seen : Nat, ver : Nat]

\* The state has its type, and a request that has begun knows what it is.
IndexTypeOK ==
    /\ head \in Heads /\ entry \in Entries
    /\ req \in [Requests -> RequestStates]
    /\ \A r \in Requests :
        /\ Live(r) => req[r].kind \in {"put", "delete"}
        /\ req[r].pc \in {"create", "read"} => req[r].kind = "put"
    /\ suggestions \subseteq Listers \X Heads

\* The version of the head is the highest that anybody knows, and the request that
\* gave it to the head is the one the head shows.
VersionsInv ==
    /\ entry.ver <= head.ver
    /\ \A s \in suggestions : s[2].ver <= head.ver
    /\ \A r \in Requests : req[r].pc = "complete" =>
        /\ 0 < req[r].ver /\ req[r].ver <= head.ver
        /\ req[r].ver = head.ver =>
              head.writer = IF req[r].kind = "put" THEN r ELSE Nothing

\* A request that has prepared is pending for as long as it is alive.
PreparedArePending ==
    \A r \in Requests : Live(r) /\ req[r].pc # "prepare" => r \in entry.pending

\* The three reasons for which the entry is right or will not be believed: a tag of a
\* dead request is pending; the entry has all it will hear; the newest is on its way.
DeadTag == \E r \in entry.pending : req[r].pc = "done"
Applied == Agrees /\ \A r \in Requests : req[r].pc = "complete" => req[r].ver <= entry.ver
OnItsWay ==
    /\ entry.ver < head.ver
    /\ \E r \in Requests : req[r].pc = "complete" /\ req[r].ver = head.ver

RepairInv == excused = {} => PreparedArePending /\ (DeadTag \/ Applied \/ OnItsWay)

IndexInv == IndexTypeOK /\ VersionsInv /\ StatsAgree /\ RepairInv

-----------------------------------------------------------------------------
\* The invariant holds at first: the entry, the head and the counters tell of the same
\* object or of none.
LEMMA InitIndexInv == Init => IndexInv
<1> SUFFICES ASSUME Init PROVE IndexInv
  OBVIOUS
<1>1. \A r \in Requests : req[r].pc = "new"
  BY DEF Init, NotStarted
<1>2. IndexTypeOK
  <2>1. NoEntry \in Entries /\ NotStarted \in RequestStates
    BY DEF NoEntry, Entries, NotStarted, RequestStates, Nothing
  <2>2. head \in Heads
    BY DEF Init, Heads, Nothing, FirstWriter
  <2>3. EntryFor(head) \in Entries
    BY <2>2 DEF EntryFor, Entries, Heads
  <2> QED
    BY <1>1, <2>1, <2>2, <2>3 DEF Init, IndexTypeOK, Live
<1>3. VersionsInv
  <2>1. entry.ver = head.ver
    BY DEF Init, NoEntry, EntryFor
  <2>2. head.ver \in Nat
    BY <1>2 DEF IndexTypeOK, Heads
  <2> QED
    BY <1>1, <2>1, <2>2 DEF Init, VersionsInv
<1>4. PreparedArePending /\ Applied
  <2>1. CASE head = [writer |-> Nothing, ver |-> 0] /\ entry = NoEntry
    BY <1>1, <2>1 DEF PreparedArePending, Applied, Agrees, Live, NoEntry
  <2>2. CASE head = [writer |-> FirstWriter, ver |-> 1] /\ entry = EntryFor(head)
    <3>1. head.writer = 1 /\ entry.exists = TRUE /\ entry.meta = 1
      BY <2>2 DEF EntryFor, FirstWriter
    <3>2. head.writer # Nothing /\ entry.meta = head.writer
      BY <3>1 DEF Nothing
    <3>3. Agrees
      BY <3>1, <3>2, Zenon DEF Agrees
    <3> QED
      BY <1>1, <3>3 DEF PreparedArePending, Applied, Live
  <2> QED
    BY <2>1, <2>2 DEF Init
<1> QED
  BY <1>2, <1>3, <1>4 DEF Init, IndexInv, RepairInv, StatsAgree

\* What rgw_bucket_complete_op leaves: the tag has gone, the version is the one that
\* completed (none, if the entry was removed), and the header counts the entry.
LEMMA CompletedFacts ==
    ASSUME NEW e \in Entries, NEW tag \in Requests, NEW op \in {"cancel", "put", "delete"},
           NEW ver \in Nat, Counting(e) = stats
    PROVE  /\ CompletedEntry(e, tag, op, ver) \in Entries
           /\ CompletedEntry(e, tag, op, ver).pending = e.pending \ {tag}
           /\ \/ CompletedEntry(e, tag, op, ver).ver = ver
              \/ /\ CompletedEntry(e, tag, op, ver).ver = 0
                 /\ e.pending \ {tag} = {}
           /\ CompletedStats(e, stats, tag, op, ver) = Counting(CompletedEntry(e, tag, op, ver))
<1> DEFINE left == [e EXCEPT !.pending = @ \ {tag}, !.ver = ver]
<1>1. tag \in Nat
  BY IndexConstants
<1>2. /\ left \in Entries /\ left.pending = e.pending \ {tag} /\ left.ver = ver
      /\ left.exists = e.exists /\ left.meta = e.meta
  BY DEF Entries
<1>3. e.exists \in BOOLEAN /\ e.meta \in Nat
  BY DEF Entries
<1> HIDE DEF left
<1>4. CASE IsCanceled(e, op, ver)
  <2>1. CompletedEntry(e, tag, op, ver) = left
    BY <1>4 DEF CompletedEntry, left
  <2>2. CompletedStats(e, stats, tag, op, ver) = stats
    BY <1>4 DEF CompletedStats
  <2> QED
    BY <1>2, <2>1, <2>2 DEF Counting
<1>5. CASE ~IsCanceled(e, op, ver) /\ op = "delete"
  <2>1. CompletedStats(e, stats, tag, op, ver) = [num |-> 0, size |-> 0]
    <3>1. CompletedStats(e, stats, tag, op, ver) = Unaccounted(e, stats)
      BY <1>5 DEF CompletedStats
    <3> QED
      BY <3>1, <1>3 DEF Unaccounted, Counting
  <2>2. CASE left.pending = {}
    <3>1. CompletedEntry(e, tag, op, ver) = NoEntry
      BY <1>5, <2>2 DEF CompletedEntry, left
    <3> QED
      BY <3>1, <2>1, <2>2, <1>2 DEF NoEntry, Entries, Nothing, Counting
  <2>3. CASE left.pending # {}
    <3>1. CompletedEntry(e, tag, op, ver) = [left EXCEPT !.exists = FALSE, !.meta = Nothing]
      BY <1>5, <2>3 DEF CompletedEntry, left
    <3>2. CompletedEntry(e, tag, op, ver) \in Entries
      <4>1. Nothing \in Nat /\ FALSE \in BOOLEAN
        BY DEF Nothing
      <4> QED
        BY <3>1, <1>2, <4>1 DEF Entries
    <3>3. /\ CompletedEntry(e, tag, op, ver).exists = FALSE
          /\ CompletedEntry(e, tag, op, ver).pending = left.pending
          /\ CompletedEntry(e, tag, op, ver).ver = left.ver
      BY <3>1, <1>2 DEF Entries
    <3>4. Counting(CompletedEntry(e, tag, op, ver)) = [num |-> 0, size |-> 0]
      BY <3>3, Zenon DEF Counting
    <3> QED
      BY <3>2, <3>3, <3>4, <2>1, <1>2, Zenon
  <2> QED
    BY <2>2, <2>3
<1>6. CASE ~IsCanceled(e, op, ver) /\ op = "put"
  <2>1. CompletedEntry(e, tag, op, ver) = [left EXCEPT !.exists = TRUE, !.meta = tag]
    BY <1>6 DEF CompletedEntry, left
  <2>2. CompletedStats(e, stats, tag, op, ver) = Accounted(tag, Unaccounted(e, stats))
    BY <1>6 DEF CompletedStats
  <2>3. Unaccounted(e, stats) = [num |-> 0, size |-> 0]
    BY <1>3 DEF Unaccounted, Counting
  <2>4. Accounted(tag, Unaccounted(e, stats)) = [num |-> 1, size |-> tag]
    BY <2>3, <1>1 DEF Accounted
  <2>5. CompletedEntry(e, tag, op, ver) \in Entries
    BY <2>1, <1>1, <1>2 DEF Entries
  <2>6. /\ CompletedEntry(e, tag, op, ver).exists = TRUE
        /\ CompletedEntry(e, tag, op, ver).meta = tag
        /\ CompletedEntry(e, tag, op, ver).pending = left.pending
        /\ CompletedEntry(e, tag, op, ver).ver = left.ver
    BY <2>1, <1>2 DEF Entries
  <2> QED
    BY <2>2, <2>4, <2>5, <2>6, <1>2 DEF Counting
<1>7. op # "cancel" \/ IsCanceled(e, op, ver)
  BY DEF IsCanceled
<1> QED
  BY <1>4, <1>5, <1>6, <1>7

\* rgw_dir_suggest_changes leaves what was seen, and the header counts it.
LEMMA SuggestedFacts ==
    ASSUME NEW e \in Entries, NEW h \in Heads, Counting(e) = stats
    PROVE  /\ SuggestedEntry(h) \in Entries
           /\ SuggestedEntry(h).ver <= h.ver
           /\ SuggestedEntry(h).exists = (h.writer # Nothing)
           /\ h.writer # Nothing => SuggestedEntry(h).meta = h.writer
           /\ SuggestedEntry(h).pending = {}
           /\ SuggestedStats(e, h, stats) = Counting(SuggestedEntry(h))
<1>1. /\ e.exists \in BOOLEAN /\ e.meta \in Nat
      /\ h.writer \in Nat /\ h.ver \in Nat
  BY DEF Entries, Heads
<1>2. Unaccounted(e, stats) = [num |-> 0, size |-> 0]
  BY <1>1 DEF Unaccounted, Counting
<1>3. CASE h.writer = Nothing
  <2>1. SuggestedEntry(h) = NoEntry /\ SuggestedStats(e, h, stats) = [num |-> 0, size |-> 0]
    BY <1>2, <1>3 DEF SuggestedEntry, SuggestedStats
  <2>2. /\ NoEntry \in Entries /\ NoEntry.exists = FALSE /\ NoEntry.ver = 0
        /\ NoEntry.pending = {}
    BY DEF NoEntry, Entries, Nothing
  <2>3. 0 <= h.ver
    BY <1>1
  <2> QED
    BY <1>3, <2>1, <2>2, <2>3, Zenon DEF Counting
<1>4. CASE h.writer # Nothing
  <2>1. /\ SuggestedEntry(h) = EntryFor(h)
        /\ SuggestedStats(e, h, stats) = [num |-> 1, size |-> h.writer]
    BY <1>1, <1>2, <1>4 DEF SuggestedEntry, SuggestedStats, Accounted
  <2>2. /\ EntryFor(h) \in Entries /\ EntryFor(h).exists = TRUE /\ EntryFor(h).ver = h.ver
        /\ EntryFor(h).meta = h.writer /\ EntryFor(h).pending = {}
    BY <1>1 DEF EntryFor, Entries
  <2>3. h.ver <= h.ver
    BY <1>1
  <2> QED
    BY <1>4, <2>1, <2>2, <2>3, Zenon DEF Counting
<1> QED
  BY <1>3, <1>4

-----------------------------------------------------------------------------
(* What each step does to the invariant.                                   *)

\* PreparePut and PrepareDelete add a tag, and nothing else.
LEMMA PreparedInv ==
    ASSUME IndexInv, NEW r \in Requests, NEW k \in {"put", "delete"}, NEW pc \in {"create", "write"},
           req[r].pc \in {"new", "prepare"}, pc = "create" => k = "put",
           entry' = Prepared(entry, r),
           req' = [req EXCEPT ![r].pc = pc, ![r].kind = k],
           UNCHANGED <<head, stats, suggestions, excused>>
    PROVE  IndexInv'
<1>1. /\ entry' \in Entries /\ entry'.exists = entry.exists /\ entry'.meta = entry.meta
      /\ entry'.ver = entry.ver /\ entry'.pending = entry.pending \cup {r}
  BY DEF IndexInv, IndexTypeOK, Entries, Prepared
<1>2. /\ req' \in [Requests -> RequestStates]
      /\ req'[r].pc = pc /\ req'[r].kind = k
      /\ \A q \in Requests : q # r => req'[q] = req[q]
  BY DEF IndexInv, IndexTypeOK, RequestStates
<1>3. IndexTypeOK'
  BY <1>1, <1>2 DEF IndexInv, IndexTypeOK, Live
<1>4. VersionsInv'
  BY <1>1, <1>2 DEF IndexInv, VersionsInv
<1>5. StatsAgree'
  BY <1>1 DEF IndexInv, StatsAgree, Counting
<1>6. PreparedArePending => PreparedArePending'
  BY <1>1, <1>2 DEF PreparedArePending, Live
<1>7. DeadTag => DeadTag'
  BY <1>1, <1>2 DEF DeadTag, IndexInv, IndexTypeOK, Entries
<1>8. Applied => Applied'
  BY <1>1, <1>2 DEF Applied, Agrees
<1>9. OnItsWay => OnItsWay'
  BY <1>1, <1>2 DEF OnItsWay
<1> QED
  BY <1>3, <1>4, <1>5, <1>6, <1>7, <1>8, <1>9 DEF IndexInv, RepairInv

\* A head that changes has a version that nobody has seen, so its completion passes.
LEMMA ChangeHeadInv ==
    ASSUME IndexInv, NEW r \in Requests, req[r].pc \in {"create", "write"},
           ChangeHead(r, IF req[r].kind = "put" THEN r ELSE Nothing),
           UNCHANGED <<entry, stats, suggestions, excused>>
    PROVE  IndexInv'
<1>1. head \in Heads /\ head.ver \in Nat /\ r \in Nat /\ Nothing \in Nat
  BY IndexConstants DEF IndexInv, IndexTypeOK, Heads, Nothing
<1>2. /\ head' \in Heads /\ head'.ver = head.ver + 1
      /\ head'.writer = IF req[r].kind = "put" THEN r ELSE Nothing
  BY <1>1 DEF ChangeHead, HeadVersion, Heads
<1>3. /\ req' \in [Requests -> RequestStates]
      /\ req'[r].pc = "complete" /\ req'[r].kind = req[r].kind /\ req'[r].ver = head.ver + 1
      /\ \A q \in Requests : q # r => req'[q] = req[q]
  <2>1. req \in [Requests -> RequestStates] /\ head.ver + 1 \in Nat
    BY <1>1 DEF IndexInv, IndexTypeOK
  <2>2. req' = [req EXCEPT ![r] = [@ EXCEPT !.pc = "complete", !.seen = Nothing, !.ver = head.ver + 1]]
    BY <2>1 DEF ChangeHead, HeadVersion, RequestStates
  <2> QED
    BY <1>1, <2>1, <2>2 DEF RequestStates
<1>4. Live(r) /\ req[r].pc # "prepare" /\ req[r].pc # "done"
  BY DEF Live
<1>5. IndexTypeOK'
  BY <1>2, <1>3, <1>4 DEF IndexInv, IndexTypeOK, Live
<1>6. entry.ver \in Nat /\ \A q \in Requests : req[q].ver \in Nat
  BY DEF IndexInv, IndexTypeOK, Entries, RequestStates
<1>7. VersionsInv'
  <2>1. entry'.ver <= head'.ver
    BY <1>1, <1>2, <1>6 DEF IndexInv, VersionsInv
  <2>2. \A t \in suggestions' : t[2].ver <= head'.ver
    BY <1>1, <1>2 DEF IndexInv, VersionsInv, IndexTypeOK, Heads
  <2>3. \A q \in Requests : req'[q].pc = "complete" =>
            /\ 0 < req'[q].ver /\ req'[q].ver <= head'.ver
            /\ req'[q].ver = head'.ver =>
                  head'.writer = IF req'[q].kind = "put" THEN q ELSE Nothing
    BY <1>1, <1>2, <1>3, <1>6 DEF IndexInv, VersionsInv
  <2> QED
    BY <2>1, <2>2, <2>3 DEF VersionsInv
<1>8. PreparedArePending => PreparedArePending'
  BY <1>3, <1>4 DEF PreparedArePending, Live
<1>9. OnItsWay'
  BY <1>1, <1>2, <1>3, <1>6 DEF OnItsWay, IndexInv, VersionsInv
<1> QED
  BY <1>5, <1>7, <1>8, <1>9 DEF IndexInv, RepairInv, StatsAgree

\* A request that has ended.
LEMMA FinishedFacts == Finished \in RequestStates /\ Finished.pc = "done"
<1>1. NotStarted \in RequestStates
  BY DEF NotStarted, RequestStates, Nothing
<1> QED
  BY <1>1 DEF Finished, RequestStates

\* A request that dies leaves its tag, which keeps the entry from being believed.
LEMMA CrashInv ==
    ASSUME IndexInv, NEW r \in Requests, CrashRequest(r)
    PROVE  IndexInv'
<1>1. Finished \in RequestStates /\ Finished.pc = "done"
  BY FinishedFacts
<1>2. /\ req' \in [Requests -> RequestStates] /\ req'[r].pc = "done"
      /\ \A q \in Requests : q # r => req'[q] = req[q]
  BY <1>1 DEF CrashRequest, Ends, IndexInv, IndexTypeOK
<1>3. UNCHANGED <<head, entry, stats, suggestions, excused>> /\ Live(r)
  BY DEF CrashRequest, Live
<1>4. IndexTypeOK'
  BY <1>2, <1>3 DEF IndexInv, IndexTypeOK, Live
<1>5. VersionsInv' /\ StatsAgree'
  BY <1>2, <1>3 DEF IndexInv, VersionsInv, StatsAgree
<1>6. PreparedArePending => PreparedArePending'
  BY <1>2, <1>3 DEF PreparedArePending, Live
<1>7. DeadTag => DeadTag'
  BY <1>2, <1>3 DEF DeadTag, IndexInv, IndexTypeOK, Entries
<1>8. PreparedArePending /\ req[r].pc # "prepare" => DeadTag'
  BY <1>2, <1>3 DEF PreparedArePending, DeadTag
<1>9. req[r].pc = "prepare" => (Applied => Applied') /\ (OnItsWay => OnItsWay')
  BY <1>2, <1>3 DEF Applied, Agrees, OnItsWay
<1> QED
  BY <1>3, <1>4, <1>5, <1>6, <1>7, <1>8, <1>9 DEF IndexInv, RepairInv

\* A completion takes its tag with it.  The newest one passes and makes the entry agree;
\* an older one is canceled if the entry has a newer version already, and the version
\* only goes down unexcused when nobody else is pending.
LEMMA CompleteOpInv ==
    ASSUME IndexInv, NEW r \in Requests, CompleteOp(r)
    PROVE  IndexInv'
<1> DEFINE op == IF req[r].pc = "cancel" THEN "cancel" ELSE req[r].kind
           ver == IF req[r].pc = "cancel" THEN 0 ELSE req[r].ver
<1>1. /\ req' \in [Requests -> RequestStates] /\ req'[r].pc = "done"
      /\ \A q \in Requests : q # r => req'[q] = req[q]
  BY FinishedFacts DEF CompleteOp, Ends, IndexInv, IndexTypeOK
<1>2. /\ Live(r) /\ req[r].pc # "prepare" /\ req[r].pc # "done"
      /\ req[r].pc \in {"complete", "cancel"}
  BY DEF CompleteOp, Live
<1>3. op \in {"cancel", "put", "delete"} /\ ver \in Nat
  BY <1>2 DEF IndexInv, IndexTypeOK, RequestStates
<1>4. /\ entry \in Entries /\ entry.ver \in Nat /\ entry.pending \subseteq Requests
      /\ head.ver \in Nat /\ entry.ver <= head.ver
      /\ \A q \in Requests : req[q].ver \in Nat
  BY DEF IndexInv, IndexTypeOK, VersionsInv, Entries, Heads, RequestStates
<1>5. /\ req[r].pc = "cancel" => op = "cancel" /\ ver = 0
      /\ req[r].pc = "complete" =>
            /\ op = req[r].kind /\ op \in {"put", "delete"} /\ ver = req[r].ver
            /\ 0 < ver /\ ver <= head.ver
            /\ ver = head.ver => head.writer = IF op = "put" THEN r ELSE Nothing
  BY <1>2 DEF IndexInv, IndexTypeOK, VersionsInv
<1>6. UNCHANGED <<head, suggestions>>
  BY DEF CompleteOp
<1>7. CASE r \notin entry.pending
  <2>1. UNCHANGED <<entry, stats, excused>>
    BY <1>7 DEF CompleteOp
  <2>2. ~PreparedArePending
    BY <1>2, <1>7 DEF PreparedArePending
  <2>3. IndexTypeOK' /\ VersionsInv' /\ StatsAgree'
    BY <1>1, <1>6, <2>1 DEF IndexInv, IndexTypeOK, VersionsInv, StatsAgree, Live
  <2> QED
    BY <2>1, <2>2, <2>3 DEF IndexInv, RepairInv
<1>8. CASE r \in entry.pending
  <2>1. /\ entry' = CompletedEntry(entry, r, op, ver)
        /\ stats' = CompletedStats(entry, stats, r, op, ver)
        /\ excused' = IF ver < entry.ver /\ entry.pending # {r}
                      THEN excused \cup {"version went down"} ELSE excused
    BY <1>8 DEF CompleteOp
  <2> HIDE DEF op, ver
  <2>2. /\ entry' \in Entries /\ entry'.pending = entry.pending \ {r}
        /\ entry'.ver = ver \/ (entry'.ver = 0 /\ entry.pending \ {r} = {})
        /\ StatsAgree'
    <3>1. Counting(entry) = stats
      BY DEF IndexInv, StatsAgree
    <3>2. /\ CompletedEntry(entry, r, op, ver) \in Entries
          /\ CompletedEntry(entry, r, op, ver).pending = entry.pending \ {r}
          /\ \/ CompletedEntry(entry, r, op, ver).ver = ver
             \/ /\ CompletedEntry(entry, r, op, ver).ver = 0
                /\ entry.pending \ {r} = {}
          /\ CompletedStats(entry, stats, r, op, ver)
                = Counting(CompletedEntry(entry, r, op, ver))
      BY <3>1, <1>3, <1>4, CompletedFacts
    <3> QED
      BY <3>2, <2>1 DEF StatsAgree
  <2>6. /\ IsCanceled(entry, op, ver) => entry'.exists = entry.exists /\ entry'.meta = entry.meta
        /\ ~IsCanceled(entry, op, ver) /\ op = "put" => entry'.exists = TRUE /\ entry'.meta = r
        /\ ~IsCanceled(entry, op, ver) /\ op = "delete" => entry'.exists = FALSE
    <3>1. /\ IsCanceled(entry, op, ver) =>
                /\ CompletedEntry(entry, r, op, ver).exists = entry.exists
                /\ CompletedEntry(entry, r, op, ver).meta = entry.meta
          /\ ~IsCanceled(entry, op, ver) /\ op = "put" =>
                /\ CompletedEntry(entry, r, op, ver).exists = TRUE
                /\ CompletedEntry(entry, r, op, ver).meta = r
          /\ ~IsCanceled(entry, op, ver) /\ op = "delete" =>
                CompletedEntry(entry, r, op, ver).exists = FALSE
      BY <1>3, <1>4 DEF CompletedEntry, Entries, NoEntry, Nothing
    <3>2. entry' = CompletedEntry(entry, r, op, ver)
      BY <2>1
    <3> QED
      BY <3>1, <3>2, Zenon
  <2>3. IndexTypeOK'
    BY <1>1, <1>6, <2>2 DEF IndexInv, IndexTypeOK, Live
  <2>4. VersionsInv'
    <3>1. entry'.ver <= head'.ver
      BY <1>2, <1>4, <1>5, <1>6, <2>2
    <3> QED
      BY <3>1, <1>1, <1>6 DEF IndexInv, VersionsInv
  <2>5. ASSUME excused' = {}
        PROVE  PreparedArePending' /\ (DeadTag \/ Applied \/ OnItsWay)'
    <3>1. excused = {} /\ (entry.pending = {r} \/ entry.ver <= ver)
      <4>1. ~(ver < entry.ver /\ entry.pending # {r})
        BY <2>5, <2>1, "version went down" \in excused \cup {"version went down"}
      <4>2. excused' = excused
        BY <4>1, <2>1, Zenon
      <4> QED
        BY <4>1, <4>2, <2>5, <1>3, <1>4
    <3>2. PreparedArePending /\ (DeadTag \/ Applied \/ OnItsWay)
      BY <3>1 DEF IndexInv, RepairInv
    <3>3. PreparedArePending'
      BY <3>2, <1>1, <2>2 DEF PreparedArePending, Live
    <3>4. DeadTag => DeadTag'
      BY <1>1, <1>2, <1>4, <2>2 DEF DeadTag
    <3>5. ASSUME Applied PROVE Applied'
      <4>1. IsCanceled(entry, op, ver)
        BY <3>5, <1>2, <1>5 DEF Applied, IsCanceled
      <4>2. entry'.exists = entry.exists /\ entry'.meta = entry.meta
        BY <4>1, <2>6
      <4>3. Agrees'
        BY <4>2, <3>5, <1>6 DEF Applied, Agrees
      <4>4. ASSUME NEW q \in Requests, req'[q].pc = "complete" PROVE req'[q].ver <= entry'.ver
        <5>1. q # r /\ req[q].pc = "complete" /\ req'[q] = req[q] /\ req[q].ver <= entry.ver
          BY <4>4, <3>5, <1>1 DEF Applied
        <5>2. q \in entry.pending
          BY <5>1, <3>2 DEF PreparedArePending, Live
        <5>3. entry'.ver = ver /\ entry.ver <= ver
          BY <5>1, <5>2, <3>1, <2>2
        <5> QED
          BY <5>1, <5>3, <1>3, <1>4
      <4> QED
        BY <4>3, <4>4 DEF Applied
    <3>6. ASSUME OnItsWay PROVE Applied' \/ OnItsWay'
      <4>1. PICK n \in Requests : req[n].pc = "complete" /\ req[n].ver = head.ver
        BY <3>6 DEF OnItsWay
      <4>2. entry.ver < head.ver
        BY <3>6 DEF OnItsWay
      <4>3. CASE req[r].pc = "complete" /\ ver = head.ver
        <5>1. ~IsCanceled(entry, op, ver) /\ op \in {"put", "delete"}
          BY <4>2, <4>3, <1>3, <1>4, <1>5 DEF IsCanceled
        <5>2. Agrees'
          <6>1. CASE op = "put"
            <7>1. entry'.exists = TRUE /\ entry'.meta = r
              BY <6>1, <5>1, <2>6
            <7>2. head'.writer = r /\ head'.writer # Nothing
              BY <6>1, <4>3, <1>5, <1>6, IndexConstants DEF Nothing
            <7> QED
              BY <7>1, <7>2, Zenon DEF Agrees
          <6>2. CASE op = "delete"
            <7>1. entry'.exists = FALSE
              BY <6>2, <5>1, <2>6
            <7>2. head'.writer = Nothing
              BY <6>2, <4>3, <1>5, <1>6
            <7> QED
              BY <7>1, <7>2, Zenon DEF Agrees
          <6> QED
            BY <5>1, <6>1, <6>2
        <5>3. ASSUME NEW q \in Requests, req'[q].pc = "complete" PROVE req'[q].ver <= entry'.ver
          <6>1. q # r /\ req[q].pc = "complete" /\ req'[q] = req[q]
            BY <5>3, <1>1
          <6>2. q \in entry.pending
            BY <6>1, <3>2 DEF PreparedArePending, Live
          <6>3. entry'.ver = head.ver
            BY <6>1, <6>2, <4>3, <2>2
          <6> QED
            BY <6>1, <6>3 DEF IndexInv, VersionsInv
        <5> QED
          BY <5>2, <5>3 DEF Applied
      <4>4. CASE ~(req[r].pc = "complete" /\ ver = head.ver)
        <5>1. n # r
          BY <4>1, <4>4, <1>5
        <5>2. n \in entry.pending
          BY <4>1, <3>2 DEF PreparedArePending, Live
        <5>3. entry'.ver = ver /\ ver < head.ver
          BY <5>1, <5>2, <4>2, <4>4, <2>2, <1>2, <1>3, <1>4, <1>5
        <5> QED
          BY <4>1, <5>1, <5>3, <1>1, <1>6 DEF OnItsWay
      <4> QED
        BY <4>3, <4>4
    <3> QED
      BY <3>2, <3>3, <3>4, <3>5, <3>6
  <2> QED
    BY <2>2, <2>3, <2>4, <2>5 DEF IndexInv, RepairInv
<1> QED
  BY <1>7, <1>8

\* A suggestion that is taken drops every tag.  Unexcused it drops those of the dead
\* only, and says what the head is.
LEMMA SuggestInv ==
    ASSUME IndexInv, NEW s \in suggestions, Suggest(s)
    PROVE  IndexInv'
<1>1. /\ s[2] \in Heads /\ s[2].ver \in Nat /\ s[2].ver <= head.ver /\ head.ver \in Nat
      /\ entry \in Entries /\ Counting(entry) = stats
  BY DEF IndexInv, IndexTypeOK, VersionsInv, Heads, StatsAgree
<1>2. UNCHANGED <<head, req>> /\ suggestions' = suggestions \ {s}
  BY DEF Suggest
<1>3. CASE ~MayChange(entry)
  <2>1. UNCHANGED <<entry, stats, excused>>
    BY <1>3 DEF Suggest
  <2>2. IndexTypeOK'
    BY <1>2, <2>1 DEF IndexInv, IndexTypeOK, Live
  <2> QED
    BY <1>2, <2>1, <2>2 DEF IndexInv, VersionsInv, StatsAgree, RepairInv, PreparedArePending, Live,
                            DeadTag, Applied, Agrees, OnItsWay
<1>4. CASE MayChange(entry)
  <2>1. /\ entry' = SuggestedEntry(s[2]) /\ stats' = SuggestedStats(entry, s[2], stats)
        /\ excused' = excused
               \cup (IF s[2] # head THEN {"stale suggestion"} ELSE {})
               \cup (IF \E r \in entry.pending \cap aged : Live(r) THEN {"slow request"} ELSE {})
    BY <1>4 DEF Suggest
  <2>2. /\ SuggestedEntry(s[2]) \in Entries
        /\ SuggestedEntry(s[2]).ver <= s[2].ver
        /\ SuggestedEntry(s[2]).exists = (s[2].writer # Nothing)
        /\ s[2].writer # Nothing => SuggestedEntry(s[2]).meta = s[2].writer
        /\ SuggestedEntry(s[2]).pending = {}
        /\ SuggestedStats(entry, s[2], stats) = Counting(SuggestedEntry(s[2]))
    BY <1>1, SuggestedFacts
  <2>3. SuggestedEntry(s[2]).ver \in Nat
    BY <2>2 DEF Entries
  <2>4. StatsAgree'
    BY <2>1, <2>2, Zenon DEF StatsAgree
  <2>5. IndexTypeOK'
    BY <1>2, <2>1, <2>2 DEF IndexInv, IndexTypeOK, Live
  <2>6. entry'.ver <= head'.ver
    <3>1. entry'.ver = SuggestedEntry(s[2]).ver /\ head'.ver = head.ver
      BY <1>2, <2>1
    <3>2. SuggestedEntry(s[2]).ver <= s[2].ver /\ s[2].ver <= head.ver
      BY <1>1, <2>2
    <3> QED
      BY <3>1, <3>2, <1>1, <2>3
  <2>7. VersionsInv'
    BY <1>2, <2>6 DEF IndexInv, VersionsInv
  <2>8. ASSUME excused' = {} PROVE PreparedArePending' /\ Applied'
    <3>1. excused = {} /\ s[2] = head /\ \A r \in entry.pending \cap aged : ~Live(r)
      BY <2>1, <2>8
    <3>2. \A r \in Requests : Live(r) => req[r].pc = "prepare"
      BY <3>1, <1>4 DEF IndexInv, RepairInv, PreparedArePending, MayChange
    <3>3. PreparedArePending'
      BY <3>2, <1>2 DEF PreparedArePending, Live
    <3>4. Agrees'
      BY <3>1, <1>2, <2>1, <2>2, Zenon DEF Agrees
    <3> QED
      BY <3>2, <3>3, <3>4, <1>2 DEF Applied, Live
  <2> QED
    BY <2>4, <2>5, <2>7, <2>8 DEF IndexInv, RepairInv
<1> QED
  BY <1>3, <1>4

-----------------------------------------------------------------------------
\* A step of a request that stays short of the head, or gives up, is a quiet one.
LEMMA MovesInv ==
    ASSUME IndexInv, NEW r \in Requests,
           UNCHANGED <<head, entry, stats, suggestions, excused>>,
           req' \in [Requests -> RequestStates],
           \A q \in Requests : q # r => req'[q] = req[q],
           \/ req[r].pc = "new" /\ req'[r].pc = "prepare"
           \/ req[r].pc \in {"create", "read", "write"} /\ req'[r].pc \in {"read", "write", "cancel"},
           req'[r].kind \in {"put", "delete"}, req'[r].pc = "read" => req'[r].kind = "put"
    PROVE  IndexInv'
<1>1. \A q \in Requests : q # r => req'[q] = req[q]
  OBVIOUS
<1>2. IndexTypeOK'
  BY <1>1 DEF IndexInv, IndexTypeOK, Live
<1>3. VersionsInv' /\ StatsAgree'
  BY <1>1 DEF IndexInv, VersionsInv, StatsAgree
<1>4. PreparedArePending => PreparedArePending'
  BY <1>1 DEF PreparedArePending, Live
<1>5. DeadTag => DeadTag'
  BY <1>1 DEF DeadTag, IndexInv, IndexTypeOK, Entries
<1>6. (Applied => Applied') /\ (OnItsWay => OnItsWay')
  BY <1>1 DEF Applied, Agrees, OnItsWay
<1> QED
  BY <1>2, <1>3, <1>4, <1>5, <1>6 DEF IndexInv, RepairInv

\* Listings and the clock touch neither the head nor the entry.
LEMMA BystanderInv ==
    ASSUME IndexInv, UNCHANGED <<head, entry, stats, req, excused>>,
           suggestions' \subseteq suggestions \cup (Listers \X {head})
    PROVE  IndexInv'
<1>1. head \in Heads /\ head.ver \in Nat
  BY DEF IndexInv, IndexTypeOK, Heads
<1>2. suggestions' \subseteq Listers \X Heads
  BY <1>1 DEF IndexInv, IndexTypeOK
<1>3. IndexTypeOK'
  BY <1>2 DEF IndexInv, IndexTypeOK, Live
<1>4. \A s \in suggestions' : s[2].ver <= head.ver
  <2> SUFFICES ASSUME NEW s \in suggestions', s \notin suggestions PROVE s[2].ver <= head.ver
    BY DEF IndexInv, VersionsInv
  <2>1. s[2] = head
    OBVIOUS
  <2> QED
    BY <2>1, <1>1
<1> QED
  BY <1>3, <1>4 DEF IndexInv, VersionsInv, StatsAgree, RepairInv, PreparedArePending, Live, DeadTag,
                    Applied, Agrees, OnItsWay

\* Every step keeps the invariant.
LEMMA NextIndexInv == IndexInv /\ [Next]_vars => IndexInv'
<1> SUFFICES ASSUME IndexInv, [Next]_vars PROVE IndexInv'
  OBVIOUS
<1>t. req \in [Requests -> RequestStates] /\ head \in Heads /\ head.writer \in Nat
  BY DEF IndexInv, IndexTypeOK, Heads
<1>k. \A r \in Requests :
        /\ Live(r) => req[r].kind \in {"put", "delete"}
        /\ req[r].pc \in {"create", "read"} => req[r].kind = "put"
  BY DEF IndexInv, IndexTypeOK
<1>1. ASSUME NEW r \in Requests, PreparePut(r) PROVE IndexInv'
  BY <1>1, PreparedInv DEF PreparePut
<1>2. ASSUME NEW r \in Requests, StartDelete(r) PROVE IndexInv'
  <2> DEFINE new == [pc |-> "prepare", kind |-> "delete", seen |-> head.writer, ver |-> 0]
  <2>1. new \in RequestStates /\ new.pc = "prepare" /\ new.kind = "delete"
    BY <1>t DEF RequestStates
  <2>2. req' = [req EXCEPT ![r] = new] /\ req[r].pc = "new"
        /\ UNCHANGED <<head, entry, stats, suggestions, excused>>
    BY <1>2 DEF StartDelete
  <2> HIDE DEF new
  <2>3. /\ req' \in [Requests -> RequestStates] /\ req'[r] = new
        /\ \A q \in Requests : q # r => req'[q] = req[q]
    BY <2>1, <2>2, <1>t
  <2> QED
    BY <2>1, <2>2, <2>3, MovesInv
<1>3. ASSUME NEW r \in Requests, PrepareDelete(r) PROVE IndexInv'
  <2>1. req' = [req EXCEPT ![r].pc = "write", ![r].kind = req[r].kind]
    BY <1>3, <1>t DEF PrepareDelete, Goes, RequestStates
  <2>2. req[r].kind \in {"put", "delete"}
    BY <1>3, <1>k DEF PrepareDelete, Live
  <2> QED
    BY <1>3, <2>1, <2>2, PreparedInv DEF PrepareDelete
<1>g. ASSUME NEW r \in Requests, NEW pc \in {"read", "cancel"}, Goes(r, pc),
             UNCHANGED <<head, entry, stats, suggestions, excused>>,
             req[r].pc \in {"create", "write"}, pc = "read" => req[r].pc = "create"
      PROVE  IndexInv'
  <2>1. /\ req' \in [Requests -> RequestStates]
        /\ req'[r].pc = pc /\ req'[r].kind = req[r].kind
        /\ \A q \in Requests : q # r => req'[q] = req[q]
    BY <1>g, <1>t DEF Goes, RequestStates
  <2>2. req[r].kind \in {"put", "delete"} /\ (pc = "read" => req[r].kind = "put")
    BY <1>g, <1>k DEF Live
  <2> QED
    BY <2>1, <2>2, <1>g, MovesInv
<1>4. ASSUME NEW r \in Requests, CreateHead(r) PROVE IndexInv'
  <2>1. CASE head.writer = Nothing
    <3>1. req[r].pc = "create" /\ req[r].kind = "put" /\ ChangeHead(r, r)
      BY <1>4, <2>1, <1>k DEF CreateHead
    <3>2. ChangeHead(r, IF req[r].kind = "put" THEN r ELSE Nothing)
      BY <3>1
    <3> QED
      BY <1>4, <3>1, <3>2, ChangeHeadInv DEF CreateHead
  <2>2. CASE head.writer # Nothing
    BY <1>4, <2>2, <1>g DEF CreateHead
  <2> QED
    BY <2>1, <2>2
<1>5. ASSUME NEW r \in Requests, ReadState(r) PROVE IndexInv'
  <2>1. /\ req' \in [Requests -> RequestStates]
        /\ req'[r].pc = "write" /\ req'[r].kind = req[r].kind
        /\ \A q \in Requests : q # r => req'[q] = req[q]
    BY <1>5, <1>t DEF ReadState, RequestStates
  <2>2. req[r].pc = "read" /\ req[r].kind = "put"
    BY <1>5, <1>k DEF ReadState
  <2> QED
    BY <1>5, <2>1, <2>2, MovesInv DEF ReadState
<1>6. ASSUME NEW r \in Requests, WriteHead(r) PROVE IndexInv'
  <2>1. CASE head.writer = req[r].seen
    BY <1>6, <2>1, ChangeHeadInv DEF WriteHead
  <2>2. CASE head.writer # req[r].seen
    BY <1>6, <2>2, <1>g DEF WriteHead
  <2> QED
    BY <2>1, <2>2
<1>7. ASSUME NEW r \in Requests, CompleteOp(r) PROVE IndexInv'
  BY <1>7, CompleteOpInv
<1>8. ASSUME NEW r \in Requests, TagAges(r) PROVE IndexInv'
  BY <1>8, BystanderInv DEF TagAges
<1>9. ASSUME NEW r \in Requests, FailHead(r) PROVE IndexInv'
  BY <1>9, <1>g DEF FailHead
<1>10. ASSUME NEW r \in Requests, CrashRequest(r) PROVE IndexInv'
  BY <1>10, CrashInv
<1>11. ASSUME NEW l \in Listers, ListEntry(l) PROVE IndexInv'
  BY <1>11, BystanderInv DEF ListEntry
<1>12. ASSUME NEW l \in Listers, check_disk_state(l) PROVE IndexInv'
  BY <1>12, BystanderInv DEF check_disk_state
<1>13. ASSUME NEW s \in suggestions, Suggest(s) PROVE IndexInv'
  BY <1>13, SuggestInv
<1>14. ASSUME NEW s \in suggestions, LoseSuggestion(s) PROVE IndexInv'
  BY <1>14, BystanderInv DEF LoseSuggestion
<1>15. CASE UNCHANGED vars
  BY <1>15, BystanderInv DEF vars
<1>16. Terminated => UNCHANGED vars
  BY DEF Terminated
<1> QED
  BY <1>1, <1>2, <1>3, <1>4, <1>5, <1>6, <1>7, <1>8, <1>9, <1>10, <1>11, <1>12, <1>13, <1>14,
     <1>15, <1>16 DEF Next

\* An entry that is in nobody's doubt tells of the head.
LEMMA InvIndexAgrees == IndexInv => IndexAgrees
<1> SUFFICES ASSUME IndexInv, excused = {}, entry.pending = {} PROVE Agrees
  BY DEF IndexAgrees
<1>1. PreparedArePending /\ (DeadTag \/ Applied \/ OnItsWay)
  BY DEF IndexInv, RepairInv
<1>2. ~DeadTag
  BY DEF DeadTag
<1>3. ~OnItsWay
  BY <1>1 DEF OnItsWay, PreparedArePending, Live
<1> QED
  BY <1>1, <1>2, <1>3 DEF Applied

\* The header counts what the entry says after any sequence of completions and
\* suggestions (unaccount_entry, cls_rgw.cc:903; rgw_dir_suggest_changes).
THEOREM HeaderCountsEntry == Spec => []StatsAgree
<1>1. IndexInv => StatsAgree
  BY DEF IndexInv
<1> QED
  BY <1>1, InitIndexInv, NextIndexInv, PTL DEF Spec

\* However many requests race, die or complete out of order, an entry with nothing
\* pending agrees with the head (rgw_bucket_complete_op, check_disk_state), unless a
\* race happened that the code leaves open.
THEOREM SettledEntryAgrees == Spec => []IndexAgrees
BY InitIndexInv, NextIndexInv, InvIndexAgrees, PTL DEF Spec
=============================================================================
