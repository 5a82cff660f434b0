---------------------------- MODULE BucketIndex ----------------------------
(***************************************************************************)
(* One name of a bucket: its head object, its entry in the bucket index    *)
(* (cls_rgw) and the requests, listings and deaths between the two.        *)
(*                                                                         *)
(* A request notes itself in the entry as pending, changes the head, and   *)
(* completes or cancels with a call nobody waits for.  A listing that      *)
(* meets an entry with something pending asks the head, and suggests to    *)
(* the index what it has seen there.                                       *)
(*                                                                         *)
(* Buckets without versions, one shard that is not being resharded.  The   *)
(* contents of an object are the number of the request that wrote it,      *)
(* which is also its size and the tag the request is pending under.        *)
(***************************************************************************)
EXTENDS Integers, FiniteSets

CONSTANTS
    Requests,   \* the requests, numbered from 2
    Listers,    \* the listings of the bucket that go on at a time
    MaxFailures,\* bound on the requests that die, calls that fail and suggestions lost
    MaxSlow     \* bound on the requests that outlive CEPH_RGW_TAG_TIMEOUT

ASSUME IndexConstants ==
    /\ Requests \subseteq Nat \ {0, 1} /\ IsFiniteSet(Requests)
    /\ MaxFailures \in Nat /\ MaxSlow \in Nat

VARIABLES
    head,        \* who wrote the head object (0: there is none), and its version
    entry,       \* the entry of the index
    stats,       \* how many entries and bytes the header of the index counts
    req,         \* where each request is
    lister,      \* whether a listing is about to look at the head
    suggestions, \* the <<lister, head>> on their way to the index
    aged,        \* the pending tags that are older than the timeout
    faults,      \* how many failures and slow requests there have been
    excused      \* history: which of the races the code leaves open have happened

vars == <<head, entry, stats, req, lister, suggestions, aged, faults, excused>>

Nothing == 0
FirstWriter == 1
NoEntry == [present |-> FALSE, exists |-> FALSE, meta |-> Nothing, ver |-> 0, pending |-> {}]
EntryFor(h) == [present |-> TRUE, exists |-> TRUE, meta |-> h.writer, ver |-> h.ver, pending |-> {}]
Counting(e) == IF e.exists THEN [num |-> 1, size |-> e.meta] ELSE [num |-> 0, size |-> 0]

NotStarted == [pc |-> "new", kind |-> "none", seen |-> Nothing, ver |-> 0]
Finished == [NotStarted EXCEPT !.pc = "done"]

\* A name that is free, or one whose object and entry have long been in place.
Init ==
    /\ \/ head = [writer |-> Nothing, ver |-> 0] /\ entry = NoEntry
       \/ head = [writer |-> FirstWriter, ver |-> 1] /\ entry = EntryFor(head)
    /\ stats = Counting(entry)
    /\ req = [r \in Requests |-> NotStarted]
    /\ lister = [l \in Listers |-> "idle"]
    /\ suggestions = {} /\ aged = {}
    /\ faults = [failures |-> 0, slow |-> 0]
    /\ excused = {}

-----------------------------------------------------------------------------
(* The methods of cls_rgw.  Version 0 is the one without a pool, which      *)
(* rgw_bucket_entry_ver() and a cancel carry and no head has.               *)

\* rgw_bucket_prepare_op
Prepared(e, tag) == [e EXCEPT !.present = TRUE, !.pending = @ \cup {tag}]

Unaccounted(e, s) ==
    IF e.exists THEN [num |-> s.num - 1, size |-> s.size - e.meta] ELSE s

Accounted(meta, s) == [num |-> s.num + 1, size |-> s.size + meta]

IsCanceledWhateverVersion(e, op, ver) == op = "cancel"

\* An older completion, of whatever kind, counts as a cancel.
IsCanceled(e, op, ver) == op = "cancel" \/ (ver > 0 /\ ver <= e.ver)

\* rgw_bucket_complete_op: the entry and the header after it
CompletedEntry(e, tag, op, ver) ==
    LET left == [e EXCEPT !.pending = @ \ {tag}, !.ver = ver]
    IN  CASE IsCanceled(e, op, ver) -> left
          [] ~IsCanceled(e, op, ver) /\ op = "delete" ->
                IF left.pending = {} THEN NoEntry
                ELSE [left EXCEPT !.exists = FALSE, !.meta = Nothing]
          [] ~IsCanceled(e, op, ver) /\ op = "put" ->
                [left EXCEPT !.exists = TRUE, !.meta = tag]

CompletedStats(e, s, tag, op, ver) ==
    CASE IsCanceled(e, op, ver) -> s
      [] ~IsCanceled(e, op, ver) /\ op = "delete" -> Unaccounted(e, s)
      [] ~IsCanceled(e, op, ver) /\ op = "put" -> Accounted(tag, Unaccounted(e, s))

MayChangeNothingPending(e) == e.present /\ e.pending = {}

\* rgw_dir_suggest_changes takes a suggestion only if nothing is pending, tags
\* that are too old apart.  It does not ask whether the suggestion is too old.
MayChange(e) == e.present /\ e.pending \subseteq aged

SuggestedEntry(h) == IF h.writer = Nothing THEN NoEntry ELSE EntryFor(h)

SuggestedStatsForgetful(e, h, s) ==
    IF h.writer = Nothing THEN Unaccounted(e, s) ELSE Accounted(h.writer, s)

SuggestedStats(e, h, s) ==
    IF h.writer = Nothing THEN Unaccounted(e, s) ELSE Accounted(h.writer, Unaccounted(e, s))

-----------------------------------------------------------------------------
(* Requests.                                                               *)

Goes(r, pc) == req' = [req EXCEPT ![r].pc = pc]
Ends(r) == req' = [req EXCEPT ![r] = Finished]
HeadVersion == head.ver + 1    \* of the placement group: it grows with every change

\* write_meta prepares first, and then tries as if there were no object.
PreparePut(r) ==
    /\ req[r].pc = "new"
    /\ entry' = Prepared(entry, r)
    /\ req' = [req EXCEPT ![r].pc = "create", ![r].kind = "put"]
    /\ UNCHANGED <<head, stats, lister, suggestions, aged, faults, excused>>

\* delete_obj reads the head first, and ends if there is none.
StartDelete(r) ==
    /\ req[r].pc = "new" /\ head.writer # Nothing
    /\ req' = [req EXCEPT ![r] = [pc |-> "prepare", kind |-> "delete",
                                  seen |-> head.writer, ver |-> 0]]
    /\ UNCHANGED <<head, entry, stats, lister, suggestions, aged, faults, excused>>

PrepareDelete(r) ==
    /\ req[r].pc = "prepare"
    /\ entry' = Prepared(entry, r)
    /\ Goes(r, "write")
    /\ UNCHANGED <<head, stats, lister, suggestions, aged, faults, excused>>

ChangeHead(r, writer) ==
    /\ head' = [writer |-> writer, ver |-> HeadVersion]
    /\ req' = [req EXCEPT ![r].pc = "complete", ![r].seen = Nothing, ![r].ver = HeadVersion]

CreateHead(r) ==
    /\ req[r].pc = "create"
    /\ IF head.writer = Nothing THEN ChangeHead(r, r)
       ELSE Goes(r, "read") /\ UNCHANGED head
    /\ UNCHANGED <<entry, stats, lister, suggestions, aged, faults, excused>>

ReadState(r) ==
    /\ req[r].pc = "read"
    /\ req' = [req EXCEPT ![r].pc = "write", ![r].seen = head.writer]
    /\ UNCHANGED <<head, entry, stats, lister, suggestions, aged, faults, excused>>

\* The head is changed if it is still the one that was read.
WriteHead(r) ==
    /\ req[r].pc = "write"
    /\ IF head.writer = req[r].seen
       THEN ChangeHead(r, IF req[r].kind = "put" THEN r ELSE Nothing)
       ELSE Goes(r, "cancel") /\ UNCHANGED head
    /\ UNCHANGED <<entry, stats, lister, suggestions, aged, faults, excused>>

\* The completion arrives; one whose tag is not pending any more fails, and nobody
\* hears of it.  The version of the entry goes down with a cancel or an older
\* completion, which lets a third one pass that is older still than the newest.
CompleteOp(r) ==
    /\ req[r].pc \in {"complete", "cancel"}
    /\ LET op == IF req[r].pc = "cancel" THEN "cancel" ELSE req[r].kind
           ver == IF req[r].pc = "cancel" THEN 0 ELSE req[r].ver
       IN  IF r \notin entry.pending
           THEN UNCHANGED <<entry, stats, excused>>
           ELSE /\ entry' = CompletedEntry(entry, r, op, ver)
                /\ stats' = CompletedStats(entry, stats, r, op, ver)
                /\ excused' = IF ver < entry.ver /\ entry.pending # {r}
                              THEN excused \cup {"version went down"} ELSE excused
    /\ Ends(r)
    /\ aged' = aged \ {r}
    /\ UNCHANGED <<head, lister, suggestions, faults>>

Fails ==
    /\ faults.failures < MaxFailures
    /\ faults' = [faults EXCEPT !.failures = @ + 1]

\* The change of the head fails for another reason than a race.
FailHead(r) ==
    /\ Fails
    /\ req[r].pc \in {"create", "write"}
    /\ Goes(r, "cancel")
    /\ UNCHANGED <<head, entry, stats, lister, suggestions, aged, excused>>

\* The gateway dies, or a second attempt of write_meta ends before the head: what is
\* pending stays pending.
CrashRequest(r) ==
    /\ Fails
    /\ req[r].pc \notin {"new", "done"}
    /\ Ends(r)
    /\ UNCHANGED <<head, entry, stats, lister, suggestions, aged, excused>>

-----------------------------------------------------------------------------
(* Listings.                                                               *)

Doubtful(e) == e.present /\ (~e.exists \/ e.pending # {})

\* cls_bucket_list_ordered meets an entry that it does not take at its word.
ListEntry(l) ==
    /\ lister[l] = "idle" /\ \A s \in suggestions : s[1] # l
    /\ Doubtful(entry)
    /\ lister' = [lister EXCEPT ![l] = "check"]
    /\ UNCHANGED <<head, entry, stats, req, suggestions, aged, faults, excused>>

check_disk_state(l) ==
    /\ lister[l] = "check"
    /\ suggestions' = suggestions \cup {<<l, head>>}
    /\ lister' = [lister EXCEPT ![l] = "idle"]
    /\ UNCHANGED <<head, entry, stats, req, aged, faults, excused>>

Live(r) == req[r].pc \notin {"new", "done"}

Suggest(s) ==
    /\ suggestions' = suggestions \ {s}
    /\ IF MayChange(entry)
       THEN /\ entry' = SuggestedEntry(s[2])
            /\ stats' = SuggestedStats(entry, s[2], stats)
            /\ aged' = {}
            /\ excused' = excused
                   \cup (IF s[2] # head THEN {"stale suggestion"} ELSE {})
                   \cup (IF \E r \in entry.pending \cap aged : Live(r) THEN {"slow request"} ELSE {})
       ELSE UNCHANGED <<entry, stats, aged, excused>>
    /\ UNCHANGED <<head, req, lister, faults>>

\* Nobody waits for a suggestion, or repeats it.
LoseSuggestion(s) ==
    /\ Fails
    /\ suggestions' = suggestions \ {s}
    /\ UNCHANGED <<head, entry, stats, req, lister, aged, excused>>

\* A pending tag gets older than the timeout, normally that of a dead request.
TagAges(r) ==
    /\ r \in entry.pending \ aged
    /\ IF Live(r) THEN /\ faults.slow < MaxSlow
                       /\ faults' = [faults EXCEPT !.slow = @ + 1]
       ELSE UNCHANGED faults
    /\ aged' = aged \cup {r}
    /\ UNCHANGED <<head, entry, stats, req, lister, suggestions, excused>>

RequestStep(r) ==
    \/ PrepareDelete(r) \/ CreateHead(r) \/ ReadState(r) \/ WriteHead(r) \/ CompleteOp(r)

Terminated ==
    /\ \A r \in Requests : req[r].pc = "done"
    /\ suggestions = {} /\ ~Doubtful(entry)
    /\ \A l \in Listers : lister[l] = "idle"
    /\ UNCHANGED vars

Next ==
    \/ \E r \in Requests :
        \/ PreparePut(r) \/ StartDelete(r) \/ PrepareDelete(r) \/ CreateHead(r)
        \/ ReadState(r) \/ WriteHead(r) \/ CompleteOp(r) \/ TagAges(r)
        \/ FailHead(r) \/ CrashRequest(r)
    \/ \E l \in Listers : ListEntry(l) \/ check_disk_state(l)
    \/ \E s \in suggestions : Suggest(s) \/ LoseSuggestion(s)
    \/ Terminated

Spec == Init /\ [][Next]_vars

\* RADOS answers every call of a request, tags age with the clock, and the bucket
\* goes on being listed: only listings repair the index.
FairSpec ==
    /\ Spec
    /\ \A r \in Requests : WF_vars(RequestStep(r)) /\ WF_vars(TagAges(r))
    /\ \A l \in Listers : WF_vars(ListEntry(l) \/ check_disk_state(l))
    /\ WF_vars(\E s \in suggestions : Suggest(s))

-----------------------------------------------------------------------------
Agrees == entry.exists = (head.writer # Nothing) /\ (entry.exists => entry.meta = head.writer)

\* An entry with nothing pending tells of the head what is true, so a listing may
\* take it at its word (rgw_rados.cc:8670), although completions arrive late, in any
\* order or never; unless one of the races happened that the code leaves open.
IndexAgrees == excused = {} /\ entry.pending = {} => Agrees

\* The header counts what the entry says, even after races, crashes and repairs
\* (cls_rgw.cc:903, 2222).
StatsAgree == stats = Counting(entry)

\* Whatever request died when, an index that is listed is repaired: in the end
\* nothing is pending and the entry agrees with the head (cls_rgw.cc:2208).
EventuallyRepaired == <>[](excused # {} \/ (entry.pending = {} /\ Agrees))

\* "the value holds some basic metadata of that object -- metadata that shows up when
\* listing the bucket" (doc/radosgw/layout.rst:57)
IndexMatchesHead == entry.pending = {} => Agrees
=============================================================================
