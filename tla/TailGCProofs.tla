---------------------------- MODULE TailGCProofs ---------------------------
(***************************************************************************)
(* For any names, requests and gateways, tails of any length and any       *)
(* number of faults: no object loses a part of its tail (TailInv), and no  *)
(* part of a tail is left behind but by what is excused (OrphanInv).       *)
(***************************************************************************)
EXTENDS TailGC, FiniteSetTheorems, SequenceTheorems, WellFoundedInduction, TLAPS

HeadStates ==
    {h \in [tag : Tags, tail_tag : Tags, tails : SUBSET TailIds] : h.tails # {}} \cup {NoHead}
TailStates == [refs : SUBSET (Tags \cup {Wildcard}), retired : SUBSET Tags]
Entries == [tag : Tags, tails : SUBSET TailIds]

ReqStates ==
    [pc : {"new", "get", "create", "read", "write", "undo", "chain", "inline", "done"},
     kind : {"none", "put", "copy", "self", "delete"}, dst : Names,
     tails : SUBSET TailIds, held : SUBSET TailIds, seen : HeadStates]

\* Where a collector is; of its positions only the count matters here.
IsCollector(c) ==
    \E pc, marker, first, truncated : \E count \in Nat :
        c = [pc |-> pc, marker |-> marker, first |-> first, count |-> count,
             truncated |-> truncated]

TailTypeOK ==
    /\ heads \in [Names -> HeadStates]
    /\ tails \in [TailIds -> TailStates]
    /\ req \in [Requests -> ReqStates]
    /\ queue \in Seq(Entries)
    /\ puts \subseteq (Gateways \cup {Nobody}) \X Tags \X TailIds
    /\ DOMAIN gc = Gateways /\ \A g \in Gateways : IsCollector(gc[g])

-----------------------------------------------------------------------------
(* The parts of the invariant, each of what it is about.                   *)

\* What a request at each place has set out to do.
ReqOK(r, q) ==
    /\ q.pc = "get" => q.kind = "copy" /\ q.held \subseteq q.tails /\ q.held # q.tails
    /\ q.pc \in {"create", "read"} => q.kind \in {"put", "copy"}
    /\ q.pc \in {"create", "read", "write"} /\ q.kind \in {"put", "copy"} =>
            q.held = q.tails /\ q.tails # {}
    /\ q.pc = "write" =>
        /\ q.kind # "none"
        /\ q.kind \in {"self", "delete"} => q.seen # NoHead
        /\ q.kind = "self" => q.tails = q.seen.tails
    /\ q.pc = "undo" => q.kind \in {"put", "copy"}
    /\ q.pc = "chain" => q.seen # NoHead
    /\ q.pc = "inline" => q.seen # NoHead /\ q.held # {}
    /\ q.kind = "put" /\ q.pc \notin {"chain", "inline"} => q.held \subseteq {<<r, 1>>}

\* The tag of the request is not in the store yet, or never will be.
Unpublished(q) == q.pc \in {"new", "get", "create", "read", "write", "undo"}
Keeps(q) == q.kind \in {"put", "copy"} /\ Unpublished(q)

\* What request q has still to drop of the tail it saw.
ToDrop(q) == IF q.pc = "chain" THEN q.seen.tails ELSE IF q.pc = "inline" THEN q.held ELSE {}

\* A put of tag at t is under way: queued, sent, or still to be handed on by a request.
Pending(t, tag) ==
    \/ \E i \in DOMAIN queue : queue[i].tag = tag /\ t \in queue[i].tails
    \/ \E p \in puts : p[2] = tag /\ p[3] = t
    \/ \E r \in Requests : req[r].seen.tail_tag = tag /\ t \in ToDrop(req[r])

\* A head has not been written by r, nor does it name the tail object of r.
NotOf(r, h) == h.tag # r /\ h.tail_tag # r /\ <<r, 1>> \notin h.tails

\* Nothing carries the tag of a request that has not published it, and its tail object
\* is known to itself alone.
UnpublishedInv ==
    \A r \in Requests : Unpublished(req[r]) =>
        /\ \A n \in Names : NotOf(r, heads[n])
        /\ \A s \in Requests : NotOf(r, req[s].seen)
        /\ \A s \in Requests : s # r \/ req[s].kind # "put" =>
              <<r, 1>> \notin req[s].tails \cup req[s].held
        /\ \A t \in TailIds, tag \in Tags : Pending(t, tag) => tag # r /\ t # <<r, 1>>

\* The reference of a live tag is nobody's to drop, and belongs to one head.
LiveInv ==
    \A n \in Names : heads[n] # NoHead =>
        /\ \A k \in Names : heads[k].tail_tag = heads[n].tail_tag => k = n
        /\ \A t \in TailIds : ~Pending(t, heads[n].tail_tag)

\* Who is about to write and finds the tag it has seen finds the head it has seen.
SeenInv ==
    \A r \in Requests : req[r].pc = "write" =>
        (heads[req[r].dst].tag = req[r].seen.tag => heads[req[r].dst] = req[r].seen)

\* What a request has written or referenced is still there.
KeptInv ==
    \A r \in Requests : Keeps(req[r]) => \A t \in req[r].held : References(t, r)

\* To put tag at t takes no reference but that of tag.
MayDrop(t, tag) ==
    tag = Creator(t) \/ tag \in tails[t].refs \/ tag \in tails[t].retired \/ tails[t].refs = {}

DropInv == \A t \in TailIds, tag \in Tags : Pending(t, tag) => MayDrop(t, tag)

TailInv ==
    /\ TailTypeOK
    /\ \A r \in Requests : ReqOK(r, req[r])
    /\ UnpublishedInv /\ LiveInv /\ SeenInv /\ KeptInv /\ DropInv
    /\ NoDataLoss

-----------------------------------------------------------------------------
(* Facts about the operators.                                              *)

\* A non-empty set of natural numbers has a least element.
LEMMA LeastNatural ==
    ASSUME NEW S, S \subseteq Nat, S # {}
    PROVE  \E x \in S : \A y \in S : x <= y
<1>1. PICK R : R = OpToRel(<, Nat)
  OBVIOUS
<1>2. IsWellFoundedOn(R, Nat)
  BY <1>1, NatLessThanWellFounded
<1>3. PICK x \in S : \A y \in S : ~(<<y, x>> \in R)
  BY <1>2, WFMin
<1>4. \A y \in S : ~(y < x)
  BY <1>1, <1>3 DEF OpToRel
<1>5. x \in Nat /\ \A y \in S : y \in Nat
  OBVIOUS
<1>6. \A y \in S : x <= y
  BY <1>4, <1>5
<1> QED
  BY <1>6

\* The tags of the initial objects, of the requests and the wildcard differ.
LEMMA TagFacts ==
    /\ Wildcard \notin Tags /\ Requests \subseteq Tags /\ FirstTag \in Tags /\ CopyTag \in Tags
    /\ FirstTag \notin Requests /\ CopyTag \notin Requests /\ FirstTag # CopyTag
BY TailConstants DEF Wildcard, Tags, FirstTag, CopyTag

\* A tail object is named after the request that wrote it.
LEMMA TailIdFacts ==
    /\ \A r \in Requests : <<r, 1>> \in TailIds /\ Creator(<<r, 1>>) = r
    /\ FirstManifest \subseteq TailIds /\ FirstManifest # {}
    /\ \A t \in FirstManifest : Creator(t) = FirstTag
    /\ \A t \in TailIds : Creator(t) \in Tags /\ t[2] \in Nat
<1>1. 1 \in 1..FirstTails
  BY TailConstants
<1>2. <<FirstTag, 1>> \in FirstManifest
  BY <1>1 DEF FirstManifest
<1> QED
  BY <1>2 DEF TailIds, Creator, FirstManifest, Tags

\* A head is either there, with tags and a tail, or not.
LEMMA HeadFacts ==
    ASSUME NEW h \in HeadStates
    PROVE  /\ NoHead \in HeadStates
           /\ h.tag = NoHead.tag \/ h.tail_tag = NoHead.tail_tag \/ h.tails = {} <=> h = NoHead
           /\ h # NoHead => h.tag \in Tags /\ h.tail_tag \in Tags
           /\ h.tails \in SUBSET TailIds
           /\ NoHead.tag = 0 /\ NoHead.tail_tag = 0 /\ NoHead.tails = {}
<1>1. NoHead.tag = 0 /\ NoHead.tail_tag = 0 /\ NoHead.tails = {} /\ NoHead \in HeadStates
  BY DEF NoHead, HeadStates
<1>2. 0 \notin Tags
  BY TagFacts DEF Wildcard
<1>3. CASE h = NoHead
  BY <1>1, <1>3
<1>4. CASE h # NoHead
  <2>1. h \in [tag : Tags, tail_tag : Tags, tails : SUBSET TailIds] /\ h.tails # {}
    BY <1>4 DEF HeadStates
  <2>2. h.tag \in Tags /\ h.tail_tag \in Tags /\ h.tails \in SUBSET TailIds /\ h.tails # {}
    BY <2>1
  <2> QED
    BY <1>1, <1>2, <1>4, <2>2
<1> QED
  BY <1>1, <1>3, <1>4

\* The tail objects are taken in order, from those that are left.
LEMMA ForemostFacts ==
    ASSUME NEW S, S \subseteq TailIds, S # {}
    PROVE  Foremost(S) \in S
<1> DEFINE N == {t[2] : t \in S}
<1>1. N \subseteq Nat /\ N # {}
  BY TailIdFacts
<1> HIDE DEF N
<1>2. PICK x \in N : \A y \in N : x <= y
  BY <1>1, LeastNatural
<1>3. PICK t \in S : t[2] = x
  BY <1>2 DEF N
<1>4. \A u \in S : t[2] <= u[2]
  BY <1>2, <1>3 DEF N
<1> QED
  BY <1>4 DEF Foremost

\* The lesser of two numbers.
LEMMA MinOfTwo ==
    ASSUME NEW a \in Nat, NEW b \in Nat
    PROVE  Min({a, b}) \in Nat /\ Min({a, b}) <= a /\ Min({a, b}) <= b
<1>1. \E x \in {a, b} : \A y \in {a, b} : x =< y
  OBVIOUS
<1>2. Min({a, b}) \in {a, b} /\ \A y \in {a, b} : Min({a, b}) =< y
  BY <1>1 DEF Min
<1> QED
  BY <1>2

\* cls_rc_refcount_put: only the reference of tag goes, or the implicit one if tag has
\* none; a tag that is put stays retired as long as the object is there.
LEMMA PutFacts ==
    ASSUME NEW o \in TailStates, NEW tag \in Tags, NEW new, new = refcount_put(o, tag)
    PROVE  /\ new \in TailStates
           /\ \A x \in Tags : x # tag /\ x \in o.refs => x \in new.refs
           /\ (tag \in o.refs \/ tag \in o.retired) /\ Wildcard \in o.refs => Wildcard \in new.refs
           /\ new.refs = {} \/ o.retired \subseteq new.retired
           /\ tag \in o.refs => tag \in new.retired \/ tag \in new.refs \/ new.refs = {}
           /\ new.refs \subseteq o.refs
<1> DEFINE ref == o.refs \cap {IF tag \in o.refs THEN tag ELSE Wildcard}
<1>1. /\ tag \in o.refs => ref = {tag}
      /\ tag \notin o.refs => ref = o.refs \cap {Wildcard}
  OBVIOUS
<1>2. new = IF ref = {} \/ tag \in o.retired THEN o
            ELSE IF o.refs = ref THEN Gone
            ELSE [refs |-> o.refs \ ref, retired |-> o.retired \cup {tag}]
  BY DEF refcount_put
<1> HIDE DEF ref
<1>3. o.refs \in SUBSET (Tags \cup {Wildcard}) /\ o.retired \in SUBSET Tags /\ tag # Wildcard
      /\ Wildcard \notin Tags
  BY TagFacts DEF TailStates
<1>4. CASE ref = {} \/ tag \in o.retired
  BY <1>2, <1>4
<1>5. CASE ~(ref = {} \/ tag \in o.retired) /\ o.refs = ref
  <2> DEFINE none == {}
  <2>1. none \in SUBSET (Tags \cup {Wildcard}) /\ none \in SUBSET Tags
        /\ new = [refs |-> none, retired |-> none]
    BY <1>2, <1>5 DEF Gone
  <2> HIDE DEF none
  <2>2. new \in TailStates /\ new.refs = none
    BY <2>1 DEF TailStates
  <2>3. new.refs = {}
    BY <2>2 DEF none
  <2>4. \A x \in Tags : x # tag => x \notin o.refs
    BY <1>1, <1>3, <1>5
  <2>5. ~((tag \in o.refs \/ tag \in o.retired) /\ Wildcard \in o.refs)
    BY <1>1, <1>3, <1>5
  <2> QED
    BY <2>2, <2>3, <2>4, <2>5
<1>6. CASE ~(ref = {} \/ tag \in o.retired) /\ o.refs # ref
  <2>1. PICK A \in SUBSET (Tags \cup {Wildcard}) : A = o.refs \ ref
    BY <1>3
  <2>2. PICK B \in SUBSET Tags : B = o.retired \cup {tag}
    BY <1>3
  <2>3. new = [refs |-> A, retired |-> B]
    BY <1>2, <1>6, <2>1, <2>2
  <2>4. new \in TailStates /\ new.refs = A /\ new.retired = B
    BY <2>3 DEF TailStates
  <2>5. \A x \in Tags : x # tag /\ x \in o.refs => x \in A
    BY <1>1, <1>3, <2>1
  <2>6. tag \in o.refs /\ Wildcard \in o.refs => Wildcard \in A
    BY <1>1, <1>3, <2>1
  <2> QED
    BY <1>6, <2>1, <2>2, <2>4, <2>5, <2>6
<1> QED
  BY <1>4, <1>5, <1>6

-----------------------------------------------------------------------------
(* What a step does to the references.                                     *)

\* No reference goes but those of tag, and those to the tail objects in own.
KeepsRefs(tag, own) ==
    \A t \in TailIds, x \in Tags : References(t, x) => References(t, x)' \/ x = tag \/ t \in own

KeepsDrops(own) ==
    \A t \in TailIds, x \in Tags : MayDrop(t, x) => MayDrop(t, x)' \/ t \in own

\* Where no tail object changes, no reference is dropped.
LEMMA SameTails ==
    ASSUME UNCHANGED tails, NEW tag, NEW own
    PROVE  KeepsRefs(tag, own) /\ KeepsDrops(own)
BY DEF KeepsRefs, KeepsDrops, References, MayDrop

\* A put that may drop takes no reference but that of its tag.
LEMMA TailsPut ==
    ASSUME tails \in [TailIds -> TailStates], NEW t \in TailIds, NEW tag \in Tags,
           MayDrop(t, tag), NEW own,
           tails' = [tails EXCEPT ![t] = refcount_put(tails[t], tag)]
    PROVE  tails' \in [TailIds -> TailStates] /\ KeepsRefs(tag, own) /\ KeepsDrops(own)
<1>1. PICK o \in TailStates : o = tails[t]
  OBVIOUS
<1>2. PICK new : new = refcount_put(o, tag)
  OBVIOUS
<1>3. /\ new \in TailStates
      /\ \A x \in Tags : x # tag /\ x \in o.refs => x \in new.refs
      /\ (tag \in o.refs \/ tag \in o.retired) /\ Wildcard \in o.refs => Wildcard \in new.refs
      /\ new.refs = {} \/ o.retired \subseteq new.retired
      /\ tag \in o.refs => tag \in new.retired \/ tag \in new.refs \/ new.refs = {}
      /\ new.refs \subseteq o.refs
  BY <1>2, PutFacts
<1>4. /\ tails'[t] = new /\ tails' \in [TailIds -> TailStates]
      /\ \A u \in TailIds : u # t => tails'[u] = tails[u]
  BY <1>1, <1>2, <1>3
<1>5. tag = Creator(t) \/ tag \in o.refs \/ tag \in o.retired \/ o.refs = {}
  BY <1>1 DEF MayDrop
<1>6. KeepsRefs(tag, own)
  <2> SUFFICES ASSUME NEW u \in TailIds, NEW x \in Tags, References(u, x), x # tag
               PROVE  References(u, x)'
    BY DEF KeepsRefs
  <2>1. CASE u # t
    BY <1>4, <2>1 DEF References
  <2>2. CASE u = t
    <3>1. x \in o.refs \/ (Creator(t) = x /\ Wildcard \in o.refs)
      BY <1>1, <2>2 DEF References
    <3>2. x \in new.refs \/ (Creator(t) = x /\ Wildcard \in new.refs)
      BY <1>3, <1>5, <3>1
    <3> QED
      BY <1>4, <2>2, <3>2 DEF References
  <2> QED
    BY <2>1, <2>2
<1>7. KeepsDrops(own)
  <2> SUFFICES ASSUME NEW u \in TailIds, NEW x \in Tags, MayDrop(u, x)
               PROVE  MayDrop(u, x)'
    BY DEF KeepsDrops
  <2>1. CASE u # t
    BY <1>4, <2>1 DEF MayDrop
  <2>2. CASE u = t
    <3>1. x = Creator(t) \/ x \in o.refs \/ x \in o.retired \/ o.refs = {}
      BY <1>1, <2>2 DEF MayDrop
    <3>2. x = Creator(t) \/ x \in new.refs \/ x \in new.retired \/ new.refs = {}
      BY <1>3, <3>1
    <3> QED
      BY <1>4, <2>2, <3>2 DEF MayDrop
  <2> QED
    BY <2>1, <2>2
<1> QED
  BY <1>4, <1>6, <1>7

\* Nobody counts on the references of tag, r perhaps apart.
Expendable(tag, r) ==
    /\ \A n \in Names : heads[n] # NoHead => heads[n].tail_tag # tag
    /\ \A s \in Requests : s # r /\ Unpublished(req[s]) => s # tag

\* Nothing new is under way.
NoNewDrops == \A t \in TailIds, x \in Tags : Pending(t, x)' => Pending(t, x)

\* Objects keep their tails when the references dropped are expendable.
LEMMA ObjectsKept ==
    ASSUME TailInv, UNCHANGED heads, NEW r, NEW tag, NEW own, KeepsRefs(tag, own),
           Expendable(tag, r), \A t \in own : \A n \in Names : t \notin heads[n].tails
    PROVE  NoDataLoss'
<1> SUFFICES ASSUME NEW n \in Names, heads[n] # NoHead, NEW t \in heads[n].tails
             PROVE  References(t, heads[n].tail_tag)'
  BY DEF NoDataLoss, References
<1>1. heads[n] \in HeadStates
  BY DEF TailInv, TailTypeOK
<1>2. t \in TailIds /\ heads[n].tail_tag \in Tags /\ References(t, heads[n].tail_tag)
  BY <1>1, HeadFacts DEF TailInv, NoDataLoss
<1>3. PICK x \in Tags : x = heads[n].tail_tag
  BY <1>2
<1>4. References(t, x)'
  BY <1>2, <1>3 DEF KeepsRefs, Expendable
<1> QED
  BY <1>3, <1>4 DEF References

\* A step of the collectors, or the end of one of their calls.
LEMMA CollectorInv ==
    ASSUME TailInv, TailTypeOK', UNCHANGED <<heads, req>>, NoNewDrops,
           NEW tag, NEW r, Expendable(tag, r), r \notin Requests, KeepsRefs(tag, {}), KeepsDrops({})
    PROVE  TailInv'
<1>1. NoDataLoss'
  BY ObjectsKept
<1>2. \A s \in Requests : ReqOK(s, req'[s])
  BY DEF TailInv
<1>3. UnpublishedInv'
  BY DEF TailInv, UnpublishedInv, NoNewDrops
<1>4. LiveInv'
  <2> SUFFICES ASSUME NEW n \in Names, heads[n] # NoHead
               PROVE  \A t \in TailIds : ~Pending(t, heads[n].tail_tag)'
    BY DEF TailInv, LiveInv
  <2>1. heads[n].tail_tag \in Tags
    BY HeadFacts DEF TailInv, TailTypeOK
  <2>2. PICK x \in Tags : x = heads[n].tail_tag
    BY <2>1
  <2>3. \A t \in TailIds : ~Pending(t, x)
    BY <2>2 DEF TailInv, LiveInv
  <2>4. \A t \in TailIds : ~Pending(t, x)'
    BY <2>3 DEF NoNewDrops
  <2> QED
    BY <2>2, <2>4 DEF Pending
<1>5. SeenInv'
  BY DEF TailInv, SeenInv
<1>6. KeptInv'
  <2> SUFFICES ASSUME NEW s \in Requests, Keeps(req[s]), NEW t \in req[s].held
               PROVE  References(t, s)'
    BY DEF KeptInv
  <2>1. t \in TailIds /\ s \in Tags
    BY TagFacts DEF TailInv, TailTypeOK, ReqStates
  <2>2. References(t, s) /\ s # tag
    BY DEF TailInv, KeptInv, Keeps, Expendable
  <2> QED
    BY <2>1, <2>2 DEF KeepsRefs
<1>7. DropInv'
  BY DEF TailInv, DropInv, NoNewDrops, KeepsDrops
<1> QED
  BY <1>1, <1>2, <1>3, <1>4, <1>5, <1>6, <1>7 DEF TailInv

\* What request r knows of the tail it knew before, or from a head, or it is its own.
KnownTail(r, q, t) ==
    \/ t \in req[r].tails \cup req[r].held /\ q.kind = req[r].kind
    \/ t \in req[r].seen.tails
    \/ \E n \in Names : t \in heads[n].tails
    \/ t = <<r, 1>> /\ q.kind = "put"

KnownHead(r, h) == h = req[r].seen \/ h = NoHead \/ \E n \in Names : h = heads[n]

\* A step of request r that leaves the heads alone.
LEMMA RequestInv ==
    ASSUME TailInv, TailTypeOK', UNCHANGED heads, NEW r \in Requests, NEW q \in ReqStates,
           req' = [req EXCEPT ![r] = q], ReqOK(r, q),
           Unpublished(q) => Unpublished(req[r]), KnownHead(r, q.seen),
           \A t \in q.tails \cup q.held : KnownTail(r, q, t), NoNewDrops,
           q.pc = "write" => (heads[q.dst].tag = q.seen.tag => heads[q.dst] = q.seen),
           NEW tag, NEW own, KeepsRefs(tag, own), KeepsDrops(own), Expendable(tag, r),
           own \subseteq {<<r, 1>>}, own # {} => Unpublished(req[r]),
           Keeps(q) => \A t \in q.held : References(t, r)'
    PROVE  TailInv'
<1>1. /\ req \in [Requests -> ReqStates] /\ req'[r] = q
      /\ \A s \in Requests : s # r => req'[s] = req[s]
  BY DEF TailInv, TailTypeOK
<1>2. \A t \in own : Unpublished(req[r]) /\ t = <<r, 1>>
  OBVIOUS
<1>3. NoDataLoss'
  <2>1. \A t \in own : \A n \in Names : t \notin heads[n].tails
    BY <1>2 DEF TailInv, UnpublishedInv, NotOf
  <2> QED
    BY <2>1, ObjectsKept
<1>4. \A s \in Requests : ReqOK(s, req'[s])
  BY <1>1 DEF TailInv
<1>5. UnpublishedInv'
  <2> SUFFICES ASSUME NEW s \in Requests, Unpublished(req'[s])
               PROVE  /\ \A n \in Names : NotOf(s, heads[n])
                      /\ \A k \in Requests : NotOf(s, req'[k].seen)
                      /\ \A k \in Requests : k # s \/ req'[k].kind # "put" =>
                            <<s, 1>> \notin req'[k].tails \cup req'[k].held
                      /\ \A t \in TailIds, x \in Tags :
                            Pending(t, x)' => x # s /\ t # <<s, 1>>
    BY DEF UnpublishedInv, Unpublished, NotOf
  <2>1. Unpublished(req[s])
    BY <1>1
  <2>2. /\ \A n \in Names : NotOf(s, heads[n])
        /\ \A k \in Requests : NotOf(s, req[k].seen)
        /\ \A k \in Requests : k # s \/ req[k].kind # "put" =>
              <<s, 1>> \notin req[k].tails \cup req[k].held
        /\ \A t \in TailIds, x \in Tags : Pending(t, x) => x # s /\ t # <<s, 1>>
    BY <2>1 DEF TailInv, UnpublishedInv
  <2>3. NotOf(s, NoHead)
    <3>1. 0 \notin Requests
      BY TailConstants
    <3> QED
      BY <3>1 DEF NotOf, NoHead
  <2>4. \A k \in Requests : NotOf(s, req'[k].seen)
    BY <1>1, <2>2, <2>3 DEF KnownHead
  <2>5. r # s \/ q.kind # "put" => <<s, 1>> \notin q.tails \cup q.held
    <3> SUFFICES ASSUME r # s \/ q.kind # "put", <<s, 1>> \in q.tails \cup q.held
                 PROVE  FALSE
      OBVIOUS
    <3>1. KnownTail(r, q, <<s, 1>>)
      OBVIOUS
    <3>2. CASE <<s, 1>> \in req[r].tails \cup req[r].held /\ q.kind = req[r].kind
      BY <2>2, <3>2
    <3>3. CASE <<s, 1>> \in req[r].seen.tails \/ \E n \in Names : <<s, 1>> \in heads[n].tails
      BY <2>2, <3>3 DEF NotOf
    <3>4. CASE <<s, 1>> = <<r, 1>> /\ q.kind = "put"
      BY <3>4
    <3> QED
      BY <3>1, <3>2, <3>3, <3>4 DEF KnownTail
  <2> QED
    BY <1>1, <2>2, <2>4, <2>5 DEF NoNewDrops
<1>6. LiveInv'
  <2> SUFFICES ASSUME NEW n \in Names, heads[n] # NoHead
               PROVE  \A t \in TailIds : ~Pending(t, heads[n].tail_tag)'
    BY DEF TailInv, LiveInv
  <2>1. heads[n].tail_tag \in Tags
    BY HeadFacts DEF TailInv, TailTypeOK
  <2>2. PICK x \in Tags : x = heads[n].tail_tag
    BY <2>1
  <2>3. \A t \in TailIds : ~Pending(t, x)
    BY <2>2 DEF TailInv, LiveInv
  <2>4. \A t \in TailIds : ~Pending(t, x)'
    BY <2>3 DEF NoNewDrops
  <2> QED
    BY <2>2, <2>4 DEF Pending
<1>7. SeenInv'
  BY <1>1 DEF TailInv, SeenInv
<1>8. KeptInv'
  <2> SUFFICES ASSUME NEW s \in Requests, Keeps(req'[s]), NEW t \in req'[s].held
               PROVE  References(t, s)'
    BY DEF KeptInv, Keeps, Unpublished
  <2>1. CASE s = r
    BY <1>1, <2>1
  <2>2. CASE s # r
    <3>1. /\ req'[s] = req[s] /\ t \in TailIds /\ s \in Tags
      BY <1>1, <2>2, TagFacts DEF ReqStates
    <3>2. References(t, s) /\ s # tag
      BY <2>2, <3>1 DEF TailInv, KeptInv, Keeps, Expendable
    <3>3. t \notin own
      <4>1. Unpublished(req[r]) => <<r, 1>> \notin req[s].held
        BY <2>2 DEF TailInv, UnpublishedInv
      <4> QED
        BY <4>1, <3>1, <1>2
    <3> QED
      BY <3>1, <3>2, <3>3 DEF KeepsRefs
  <2> QED
    BY <2>1, <2>2
<1>9. DropInv'
  <2> SUFFICES ASSUME NEW t \in TailIds, NEW x \in Tags, Pending(t, x)'
               PROVE  MayDrop(t, x)'
    BY DEF DropInv
  <2>1. Pending(t, x) /\ MayDrop(t, x)
    BY DEF TailInv, DropInv, NoNewDrops
  <2>2. t \notin own
    <3>1. Unpublished(req[r]) => t # <<r, 1>>
      BY <2>1 DEF TailInv, UnpublishedInv
    <3> QED
      BY <3>1, <1>2
  <2> QED
    BY <2>1, <2>2 DEF KeepsDrops
<1> QED
  BY <1>3, <1>4, <1>5, <1>6, <1>7, <1>8, <1>9 DEF TailInv

Writes(d, h) == heads' = [heads EXCEPT ![d] = h]

\* What request r writes is its own tail, or the one that was there.
NewHead(r, d, h) ==
    h # NoHead =>
        /\ h.tag = r /\ h.tails = req[r].tails
        /\ h.tail_tag = r \/ h.tail_tag = heads[d].tail_tag
        /\ \A t \in h.tails : References(t, h.tail_tag)

\* Once head d is written the request has nothing left but what was there.
HasWritten(r, d, h, q) ==
    /\ ReqOK(r, q) /\ ~Unpublished(q) /\ q.pc # "inline"
    /\ q.seen = req[r].seen \/ q.seen = NoHead
    /\ q.tails = {} \/ (q.tails = req[r].tails /\ q.kind = req[r].kind)
    /\ q.held = {} \/ (q.held = req[r].held /\ q.kind = req[r].kind)
    /\ q.pc = "chain" => q.seen = heads[d] /\ h.tail_tag # heads[d].tail_tag

\* A step of request r that replaces head d by h, or removes it.
LEMMA HeadInv ==
    ASSUME TailInv, UNCHANGED <<tails, queue, puts, gc>>,
           NEW r \in Requests, Unpublished(req[r]), NEW q \in ReqStates,
           req' = [req EXCEPT ![r] = q],
           NEW d \in Names, NEW h \in HeadStates, Writes(d, h),
           NewHead(r, d, h), HasWritten(r, d, h, q)
    PROVE  TailInv'
<1> USE DEF Writes, NewHead, HasWritten
<1>1. /\ req \in [Requests -> ReqStates] /\ req'[r] = q /\ heads \in [Names -> HeadStates]
      /\ \A s \in Requests : s # r => req'[s] = req[s]
      /\ heads'[d] = h /\ \A n \in Names : n # d => heads'[n] = heads[n]
  BY DEF TailInv, TailTypeOK
<1>2. TailTypeOK'
  BY <1>1 DEF TailInv, TailTypeOK
<1>3. /\ \A n \in Names : NotOf(r, heads[n])
      /\ \A s \in Requests : NotOf(r, req[s].seen)
      /\ \A s \in Requests : s # r => <<r, 1>> \notin req[s].tails \cup req[s].held
      /\ \A t \in TailIds, x \in Tags : Pending(t, x) => x # r
  BY DEF TailInv, UnpublishedInv
<1>4. ASSUME NEW t \in TailIds, NEW x \in Tags, Pending(t, x)'
      PROVE  Pending(t, x) \/ (q.pc = "chain" /\ x = heads[d].tail_tag /\ t \in heads[d].tails)
  <2>1. CASE (\E i \in DOMAIN queue : queue[i].tag = x /\ t \in queue[i].tails)
             \/ (\E p \in puts : p[2] = x /\ p[3] = t)
    BY <2>1 DEF Pending
  <2>2. CASE \E s \in Requests : req'[s].seen.tail_tag = x /\ t \in ToDrop(req'[s])
    <3>1. PICK s \in Requests : req'[s].seen.tail_tag = x /\ t \in ToDrop(req'[s])
      BY <2>2
    <3>2. CASE s # r
      BY <1>1, <3>1, <3>2 DEF Pending
    <3>3. CASE s = r
      BY <1>1, <3>1, <3>3 DEF ToDrop
    <3> QED
      BY <3>2, <3>3
  <2>3. \/ (\E i \in DOMAIN queue : queue[i].tag = x /\ t \in queue[i].tails)
        \/ (\E p \in puts : p[2] = x /\ p[3] = t)
        \/ (\E s \in Requests : req'[s].seen.tail_tag = x /\ t \in ToDrop(req'[s]))
    BY <1>4 DEF Pending, ToDrop
  <2> QED
    BY <2>1, <2>2, <2>3
<1>5. NoDataLoss'
  <2> SUFFICES ASSUME NEW n \in Names, heads'[n] # NoHead, NEW t \in heads'[n].tails
               PROVE  References(t, heads'[n].tail_tag)
    BY DEF NoDataLoss, References
  <2> QED
    BY <1>1 DEF TailInv, NoDataLoss
<1>6. \A s \in Requests : ReqOK(s, req'[s])
  BY <1>1 DEF TailInv
<1>7. UnpublishedInv'
  <2> SUFFICES ASSUME NEW s \in Requests, Unpublished(req'[s])
               PROVE  /\ \A n \in Names : NotOf(s, heads'[n])
                      /\ \A k \in Requests : NotOf(s, req'[k].seen)
                      /\ \A k \in Requests : k # s \/ req'[k].kind # "put" =>
                            <<s, 1>> \notin req'[k].tails \cup req'[k].held
                      /\ \A t \in TailIds, x \in Tags :
                            Pending(t, x)' => x # s /\ t # <<s, 1>>
    BY DEF UnpublishedInv, Unpublished, NotOf
  <2>1. s # r /\ req'[s] = req[s] /\ Unpublished(req[s])
    BY <1>1
  <2>2. /\ \A n \in Names : NotOf(s, heads[n])
        /\ \A k \in Requests : NotOf(s, req[k].seen)
        /\ \A k \in Requests : k # s \/ req[k].kind # "put" =>
              <<s, 1>> \notin req[k].tails \cup req[k].held
        /\ \A t \in TailIds, x \in Tags : Pending(t, x) => x # s /\ t # <<s, 1>>
    BY <2>1 DEF TailInv, UnpublishedInv
  <2>3. NotOf(s, NoHead)
    <3>1. 0 \notin Requests
      BY TailConstants
    <3> QED
      BY <3>1 DEF NotOf, NoHead
  <2>4. NotOf(s, h)
    <3>1. CASE h = NoHead
      BY <2>3, <3>1
    <3>2. CASE h # NoHead
      BY <2>1, <2>2, <3>2 DEF NotOf
    <3> QED
      BY <3>1, <3>2
  <2>5. \A k \in Requests : NotOf(s, req'[k].seen)
    BY <1>1, <2>2, <2>3
  <2>6. <<s, 1>> \notin q.tails \cup q.held
    BY <2>1, <2>2
  <2>7. \A t \in TailIds, x \in Tags : Pending(t, x)' => x # s /\ t # <<s, 1>>
    BY <1>4, <2>2 DEF NotOf
  <2> QED
    BY <1>1, <2>2, <2>4, <2>5, <2>6, <2>7
<1>8. LiveInv'
  <2> SUFFICES ASSUME NEW n \in Names, heads'[n] # NoHead
               PROVE  /\ \A k \in Names : heads'[k].tail_tag = heads'[n].tail_tag => k = n
                      /\ \A t \in TailIds : ~Pending(t, heads[n].tail_tag)'
    BY DEF LiveInv
  <2>1. PICK x \in Tags : x = heads'[n].tail_tag
    BY <1>1, HeadFacts
  <2>2. \A k \in Names : heads[k].tail_tag \in Tags => heads[k] # NoHead
    BY <1>1, HeadFacts, TagFacts DEF Wildcard
  <2>3. h.tail_tag \in Tags => h # NoHead
    BY HeadFacts, TagFacts DEF Wildcard
  <2>4. CASE n = d
    <3>1. h # NoHead /\ x = h.tail_tag
      BY <1>1, <2>1, <2>4
    <3>2. CASE x = r
      <4>1. \A k \in Names : k # d => heads'[k].tail_tag # x
        BY <1>1, <1>3, <3>2 DEF NotOf
      <4>2. \A t \in TailIds : ~Pending(t, x)'
        BY <1>3, <1>4, <3>1, <3>2
      <4> QED
        BY <2>1, <2>4, <4>1, <4>2 DEF Pending
    <3>3. CASE x = heads[d].tail_tag
      <4>1. heads[d] # NoHead
        BY <2>2, <3>3
      <4>2. \A k \in Names : k # d => heads'[k].tail_tag # x
        BY <1>1, <3>3, <4>1 DEF TailInv, LiveInv
      <4>3. \A t \in TailIds : ~Pending(t, x)
        BY <3>3, <4>1 DEF TailInv, LiveInv
      <4>4. \A t \in TailIds : ~Pending(t, x)'
        BY <1>4, <3>1, <3>3, <4>3
      <4> QED
        BY <2>1, <2>4, <4>2, <4>4 DEF Pending
    <3> QED
      BY <3>1, <3>2, <3>3
  <2>5. CASE n # d
    <3>1. heads[n] # NoHead /\ x = heads[n].tail_tag
      BY <1>1, <2>1, <2>5
    <3>2. /\ \A k \in Names : heads[k].tail_tag = x => k = n
          /\ \A t \in TailIds : ~Pending(t, x)
      BY <3>1 DEF TailInv, LiveInv
    <3>3. h.tail_tag # x
      BY <1>3, <2>3, <2>5, <3>1, <3>2 DEF NotOf
    <3>4. \A k \in Names : heads'[k].tail_tag = x => k = n
      BY <1>1, <3>2, <3>3
    <3>5. \A t \in TailIds : ~Pending(t, x)'
      BY <1>4, <2>5, <3>2
    <3> QED
      BY <2>1, <3>4, <3>5 DEF Pending
  <2> QED
    BY <2>4, <2>5
<1>9. SeenInv'
  <2> SUFFICES ASSUME NEW s \in Requests, req'[s].pc = "write",
                      heads'[req'[s].dst].tag = req'[s].seen.tag
               PROVE  heads'[req'[s].dst] = req'[s].seen
    BY DEF SeenInv
  <2>1. s # r /\ req'[s] = req[s] /\ req[s].dst \in Names /\ req[s].seen \in HeadStates
    BY <1>1 DEF Unpublished, ReqStates
  <2>2. CASE req[s].dst # d
    BY <1>1, <2>1, <2>2 DEF TailInv, SeenInv
  <2>3. CASE req[s].dst = d
    <3>1. h.tag = req[s].seen.tag /\ req[s].seen.tag # r
      BY <1>1, <1>3, <2>1, <2>3 DEF NotOf
    <3>2. h = NoHead
      BY <3>1
    <3> QED
      BY <1>1, <2>1, <2>3, <3>1, <3>2, HeadFacts
  <2> QED
    BY <2>2, <2>3
<1>10. KeptInv'
  <2> SUFFICES ASSUME NEW s \in Requests, Keeps(req'[s]), NEW t \in req'[s].held
               PROVE  References(t, s)
    BY DEF KeptInv, Keeps, Unpublished, References
  <2>1. req'[s] = req[s]
    BY <1>1 DEF Keeps
  <2> QED
    BY <2>1 DEF TailInv, KeptInv
<1>11. DropInv'
  <2> SUFFICES ASSUME NEW t \in TailIds, NEW x \in Tags, Pending(t, x)'
               PROVE  MayDrop(t, x)
    BY DEF DropInv, MayDrop
  <2>1. CASE Pending(t, x)
    BY <2>1 DEF TailInv, DropInv
  <2>2. CASE q.pc = "chain" /\ x = heads[d].tail_tag /\ t \in heads[d].tails
    <3>1. heads[d] # NoHead
      BY <2>2, HeadFacts
    <3>2. References(t, x)
      BY <2>2, <3>1 DEF TailInv, NoDataLoss
    <3> QED
      BY <3>2 DEF References, MayDrop
  <2> QED
    BY <1>4, <2>1, <2>2
<1> QED
  BY <1>2, <1>5, <1>6, <1>7, <1>8, <1>9, <1>10, <1>11 DEF TailInv

-----------------------------------------------------------------------------
(* The steps of the requests.                                              *)

\* There is a name, and a state without a head.
LEMMA NamesFacts ==
    FirstName \in Names /\ CopyName \in Names /\ CopyName # FirstName /\ NoHead \in HeadStates
<1>1. Names # {}
  <2>1. Cardinality({}) = 0
    BY FS_EmptySet
  <2> QED
    BY <2>1, TailConstants
<1>2. NoHead \in HeadStates
  BY DEF HeadStates
<1>3. FirstName \in Names
  BY <1>1 DEF FirstName
<1>4. Names \ {FirstName} # {}
  <2>1. Cardinality({FirstName}) = 1
    BY FS_Singleton
  <2>2. Names # {FirstName}
    BY <2>1, TailConstants
  <2> QED
    BY <1>3, <2>2
<1>5. CopyName \in Names \ {FirstName}
  BY <1>4 DEF CopyName
<1> QED
  BY <1>2, <1>3, <1>5

\* A request that has ended holds nothing.
LEMMA FinishedFacts ==
    /\ Finished \in ReqStates /\ Finished.pc = "done" /\ Finished.kind = "none"
    /\ Finished.tails = {} /\ Finished.held = {} /\ Finished.seen = NoHead
<1>1. PICK none \in SUBSET TailIds : none = {}
  OBVIOUS
<1>2. PICK h \in HeadStates : h = NoHead
  BY NamesFacts
<1>3. Finished = [pc |-> "done", kind |-> "none", dst |-> FirstName,
                  tails |-> none, held |-> none, seen |-> h]
  BY <1>1, <1>2 DEF Finished, NotStarted
<1>4. /\ Finished \in ReqStates /\ Finished.pc = "done" /\ Finished.kind = "none"
      /\ Finished.tails = none /\ Finished.held = none /\ Finished.seen = h
  BY <1>3, NamesFacts DEF ReqStates
<1> QED
  BY <1>1, <1>2, <1>4

\* The wildcard is the tag of no request.
LEMMA NobodysTag ==
    ASSUME TailInv, NEW r
    PROVE  Expendable(Wildcard, r) /\ Wildcard \notin Requests
<1>1. Wildcard \notin Tags /\ Requests \subseteq Tags
  BY TagFacts
<1>2. \A n \in Names : heads[n] # NoHead => heads[n].tail_tag \in Tags
  BY HeadFacts DEF TailInv, TailTypeOK
<1> QED
  BY <1>1, <1>2 DEF Expendable

\* What r has to drop it had to drop before.
LEMMA SameDrops ==
    ASSUME TailInv, UNCHANGED <<queue, puts>>, NEW r \in Requests, NEW q,
           req' = [req EXCEPT ![r] = q],
           \A t \in ToDrop(q) : t \in ToDrop(req[r]) /\ q.seen.tail_tag = req[r].seen.tail_tag
    PROVE  NoNewDrops
<1>1. req'[r] = q /\ \A s \in Requests : s # r => req'[s] = req[s]
  BY DEF TailInv, TailTypeOK
<1> SUFFICES ASSUME NEW t \in TailIds, NEW x \in Tags, Pending(t, x)'
             PROVE  Pending(t, x)
  BY DEF NoNewDrops
<1>2. CASE (\E i \in DOMAIN queue : queue[i].tag = x /\ t \in queue[i].tails)
           \/ (\E p \in puts : p[2] = x /\ p[3] = t)
  BY <1>2 DEF Pending
<1>3. CASE \E s \in Requests : req'[s].seen.tail_tag = x /\ t \in ToDrop(req'[s])
  BY <1>1, <1>3 DEF Pending
<1>4. \/ (\E i \in DOMAIN queue : queue[i].tag = x /\ t \in queue[i].tails)
      \/ (\E p \in puts : p[2] = x /\ p[3] = t)
      \/ (\E s \in Requests : req'[s].seen.tail_tag = x /\ t \in ToDrop(req'[s]))
  BY DEF Pending, ToDrop
<1> QED
  BY <1>2, <1>3, <1>4

\* A step that changes nothing but where request r is.
LEMMA PlainStep ==
    ASSUME TailInv, UNCHANGED <<store, queue, puts, gc>>, NEW r \in Requests, NEW q \in ReqStates,
           req' = [req EXCEPT ![r] = q], ReqOK(r, q),
           Unpublished(q) => Unpublished(req[r]), KnownHead(r, q.seen),
           \A t \in q.tails \cup q.held : KnownTail(r, q, t),
           \A t \in ToDrop(q) : t \in ToDrop(req[r]) /\ q.seen.tail_tag = req[r].seen.tail_tag,
           q.pc = "write" => (heads[q.dst].tag = q.seen.tag => heads[q.dst] = q.seen),
           Keeps(q) => \A t \in q.held : References(t, r)
    PROVE  TailInv'
<1>1. UNCHANGED heads /\ UNCHANGED tails /\ UNCHANGED <<queue, puts>> /\ UNCHANGED gc
  BY DEF store
<1>2. TailTypeOK'
  BY <1>1 DEF TailInv, TailTypeOK
<1>3. NoNewDrops
  BY <1>1, SameDrops
<1>4. Keeps(q) => \A t \in q.held : References(t, r)'
  BY <1>1 DEF References
<1>5. PICK tag : tag = Wildcard
  OBVIOUS
<1>6. Expendable(tag, r)
  BY <1>5, NobodysTag
<1>7. KeepsRefs(tag, {}) /\ KeepsDrops({})
  BY <1>1, SameTails
<1>8. {} \subseteq {<<r, 1>>} /\ ({} # {} => Unpublished(req[r]))
  OBVIOUS
<1> QED
  BY <1>1, <1>2, <1>3, <1>4, <1>6, <1>7, <1>8, RequestInv

\* A request ends, without having changed anything in the store.
LEMMA EndStep ==
    ASSUME TailInv, UNCHANGED <<store, queue, puts, gc>>, NEW r \in Requests, Ends(r)
    PROVE  TailInv'
<1>1. PICK q \in ReqStates : q = Finished
  BY FinishedFacts
<1>2. /\ q.pc = "done" /\ q.kind = "none" /\ q.tails = {} /\ q.held = {} /\ q.seen = NoHead
  BY <1>1, FinishedFacts
<1>3. req' = [req EXCEPT ![r] = q]
  BY <1>1 DEF Ends
<1>4. ReqOK(r, q) /\ ~Unpublished(q) /\ ~Keeps(q) /\ ToDrop(q) = {} /\ KnownHead(r, q.seen)
  BY <1>2 DEF ReqOK, Unpublished, Keeps, ToDrop, KnownHead
<1> QED
  BY <1>2, <1>3, <1>4, PlainStep

\* A request goes on, with what it has.
LEMMA GoStep ==
    ASSUME TailInv, UNCHANGED <<store, queue, puts, gc>>, NEW r \in Requests,
           NEW pc \in {"read", "undo"}, Goes(r, pc), Keeps(req[r]), pc = "read" => req[r].pc = "create"
    PROVE  TailInv'
<1>1. req[r] \in ReqStates /\ ReqOK(r, req[r])
  BY DEF TailInv, TailTypeOK
<1>2. PICK q : q = [req[r] EXCEPT !.pc = pc]
  OBVIOUS
<1>3. /\ q \in ReqStates /\ q.pc = pc /\ q.kind = req[r].kind /\ q.tails = req[r].tails
      /\ q.held = req[r].held /\ q.seen = req[r].seen
  BY <1>1, <1>2 DEF ReqStates
<1>4. req' = [req EXCEPT ![r] = q]
  BY <1>2 DEF Goes, TailInv, TailTypeOK
<1>5. Unpublished(req[r]) /\ q.kind \in {"put", "copy"}
  BY <1>3 DEF Keeps
<1>6. ReqOK(r, q)
  BY <1>1, <1>3, <1>5 DEF ReqOK, Unpublished
<1>7. KnownHead(r, q.seen) /\ \A t \in q.tails \cup q.held : KnownTail(r, q, t)
  BY <1>3 DEF KnownHead, KnownTail
<1>8. ToDrop(q) = {} /\ q.pc # "write"
  BY <1>3 DEF ToDrop
<1>9. \A t \in q.held : References(t, r)
  BY <1>3 DEF TailInv, KeptInv
<1> QED
  BY <1>3, <1>4, <1>5, <1>6, <1>7, <1>8, <1>9, PlainStep

\* A copy starts: it reads the head of its source (rgw_rados.cc: copy_obj).
LEMMA CopyObjStep ==
    ASSUME TailInv, NEW r \in Requests, NEW src \in Names, NEW dst \in Names, CopyObj(r, src, dst)
    PROVE  TailInv'
<1>1. /\ req[r].pc = "new" /\ heads[src] # NoHead
      /\ UNCHANGED <<store, queue, puts, gc>>
  BY DEF CopyObj, Quiet, collection
<1>2. PICK h \in HeadStates : h = heads[src]
  BY DEF TailInv, TailTypeOK
<1>3. h.tails \in SUBSET TailIds /\ h.tails # {} /\ h # NoHead
  BY <1>1, <1>2, HeadFacts
<1>4. PICK q : q = [pc |-> IF src = dst THEN "write" ELSE "get",
                    kind |-> IF src = dst THEN "self" ELSE "copy", dst |-> dst,
                    tails |-> h.tails, held |-> {},
                    seen |-> IF src = dst THEN h ELSE NoHead]
  OBVIOUS
<1>5. /\ q \in ReqStates /\ q.dst = dst /\ q.tails = h.tails /\ q.held = {}
      /\ src = dst => q.pc = "write" /\ q.kind = "self" /\ q.seen = h
      /\ src # dst => q.pc = "get" /\ q.kind = "copy" /\ q.seen = NoHead
  <2>1. PICK none \in SUBSET TailIds : none = {}
    OBVIOUS
  <2>2. CASE src = dst
    <3>1. q = [pc |-> "write", kind |-> "self", dst |-> dst, tails |-> h.tails, held |-> none,
               seen |-> h]
      BY <1>4, <2>1, <2>2
    <3> QED
      BY <1>3, <2>1, <2>2, <3>1 DEF ReqStates
  <2>3. CASE src # dst
    <3>1. q = [pc |-> "get", kind |-> "copy", dst |-> dst, tails |-> h.tails, held |-> none,
               seen |-> NoHead]
      BY <1>4, <2>1, <2>3
    <3> QED
      BY <1>3, <2>1, <2>3, <3>1, NamesFacts DEF ReqStates
  <2> QED
    BY <2>2, <2>3
<1>6. req' = [req EXCEPT ![r] = q]
  BY <1>2, <1>4 DEF CopyObj
<1>7. ReqOK(r, q)
  BY <1>3, <1>5 DEF ReqOK
<1>8. KnownHead(r, q.seen) /\ \A t \in q.tails \cup q.held : KnownTail(r, q, t)
  BY <1>2, <1>5 DEF KnownHead, KnownTail
<1>9. ToDrop(q) = {} /\ Unpublished(req[r]) /\ \A t \in q.held : References(t, r)
  BY <1>1, <1>5 DEF ToDrop, Unpublished
<1>10. q.pc = "write" => (heads[q.dst].tag = q.seen.tag => heads[q.dst] = q.seen)
  BY <1>2, <1>5
<1> QED
  BY <1>1, <1>5, <1>6, <1>7, <1>8, <1>9, <1>10, PlainStep

\* A deletion starts: it reads the head (rgw_rados.cc: Delete::delete_obj).
LEMMA DeleteObjStep ==
    ASSUME TailInv, NEW r \in Requests, NEW n \in Names, DeleteObj(r, n)
    PROVE  TailInv'
<1>1. /\ req[r].pc = "new" /\ heads[n] # NoHead
      /\ UNCHANGED <<store, queue, puts, gc>>
  BY DEF DeleteObj, Quiet, collection
<1>2. PICK h \in HeadStates : h = heads[n]
  BY DEF TailInv, TailTypeOK
<1>3. PICK none \in SUBSET TailIds : none = {}
  OBVIOUS
<1>4. PICK q : q = [pc |-> "write", kind |-> "delete", dst |-> n,
                    tails |-> none, held |-> none, seen |-> h]
  OBVIOUS
<1>5. /\ q \in ReqStates /\ q.dst = n /\ q.tails = {} /\ q.held = {}
      /\ q.pc = "write" /\ q.kind = "delete" /\ q.seen = h
  BY <1>3, <1>4 DEF ReqStates
<1>6. req' = [req EXCEPT ![r] = q]
  BY <1>2, <1>3, <1>4 DEF DeleteObj
<1>7. ReqOK(r, q)
  BY <1>1, <1>2, <1>5 DEF ReqOK
<1>8. KnownHead(r, q.seen)
  BY <1>2, <1>5 DEF KnownHead
<1>9. ToDrop(q) = {} /\ Unpublished(req[r])
  BY <1>1, <1>5 DEF ToDrop, Unpublished
<1> QED
  BY <1>1, <1>2, <1>5, <1>6, <1>7, <1>8, <1>9, PlainStep

\* The head is read again for the second attempt (write_meta).
LEMMA ReadStateStep ==
    ASSUME TailInv, NEW r \in Requests, ReadState(r)
    PROVE  TailInv'
<1>1. req[r].pc = "read" /\ UNCHANGED <<store, queue, puts, gc>>
  BY DEF ReadState, Quiet, collection
<1>2. req[r] \in ReqStates /\ ReqOK(r, req[r]) /\ req[r].dst \in Names
  BY DEF TailInv, TailTypeOK, ReqStates
<1>3. PICK h \in HeadStates : h = heads[req[r].dst]
  BY <1>2 DEF TailInv, TailTypeOK
<1>4. PICK q : q = [req[r] EXCEPT !.pc = "write", !.seen = h]
  OBVIOUS
<1>5. /\ q \in ReqStates /\ q.pc = "write" /\ q.kind = req[r].kind /\ q.tails = req[r].tails
      /\ q.held = req[r].held /\ q.seen = h /\ q.dst = req[r].dst
  BY <1>2, <1>4 DEF ReqStates
<1>6. req' = [req EXCEPT ![r] = q]
  BY <1>3, <1>4 DEF ReadState, TailInv, TailTypeOK
<1>7. ReqOK(r, q)
  BY <1>1, <1>2, <1>5 DEF ReqOK
<1>8. KnownHead(r, q.seen) /\ \A t \in q.tails \cup q.held : KnownTail(r, q, t)
  BY <1>2, <1>3, <1>5 DEF KnownHead, KnownTail
<1>9. ToDrop(q) = {} /\ Unpublished(req[r])
  BY <1>1, <1>5 DEF ToDrop, Unpublished
<1>10. Keeps(q) => \A t \in q.held : References(t, r)
  BY <1>5, <1>9 DEF TailInv, KeptInv, Keeps
<1> QED
  BY <1>1, <1>3, <1>5, <1>6, <1>7, <1>8, <1>9, <1>10, PlainStep

\* The head changed since it was read: the write is canceled.
LEMMA LoseRaceStep ==
    ASSUME TailInv, NEW r \in Requests, LoseRace(r)
    PROVE  TailInv'
<1>1. req[r].pc = "write" /\ UNCHANGED <<store, queue, puts, gc>>
  BY DEF LoseRace, collection
<1>2. CASE req[r].kind = "put" /\ Goes(r, "undo")
  <2>1. Keeps(req[r])
    BY <1>1, <1>2 DEF Keeps, Unpublished
  <2> QED
    BY <1>1, <1>2, <2>1, GoStep
<1>3. CASE Ends(r)
  BY <1>1, <1>3, EndStep
<1> QED
  BY <1>2, <1>3 DEF LoseRace

\* A request fails and gives back what it took.
LEMMA FailRequestStep ==
    ASSUME TailInv, NEW r \in Requests, FailRequest(r)
    PROVE  TailInv'
<1>1. req[r].pc \in {"get", "create", "read", "write"} /\ UNCHANGED <<store, queue, puts, gc>>
  BY DEF FailRequest, collection
<1>2. CASE req[r].kind \in {"put", "copy"} /\ Goes(r, "undo")
  <2>1. Keeps(req[r])
    BY <1>1, <1>2 DEF Keeps, Unpublished
  <2> QED
    BY <1>1, <1>2, <2>1, GoStep
<1>3. CASE Ends(r)
  BY <1>1, <1>3, EndStep
<1> QED
  BY <1>2, <1>3 DEF FailRequest

\* A gateway dies and its request with it.
LEMMA CrashRequestStep ==
    ASSUME TailInv, NEW r \in Requests, CrashRequest(r)
    PROVE  TailInv'
BY EndStep DEF CrashRequest, collection

\* The chain of a tail cannot be handed to the collector.
LEMMA FailChainStep ==
    ASSUME TailInv, NEW r \in Requests, FailChain(r)
    PROVE  TailInv'
<1>1. req[r].pc = "chain" /\ UNCHANGED <<store, queue, puts, gc>>
  BY DEF FailChain, collection
<1>2. req[r] \in ReqStates /\ req[r].seen \in HeadStates /\ req[r].seen # NoHead
  BY <1>1 DEF TailInv, TailTypeOK, ReqStates, ReqOK
<1>3. PICK S \in SUBSET TailIds : S = req[r].seen.tails /\ S # {}
  BY <1>2, HeadFacts
<1>4. PICK q : q = [req[r] EXCEPT !.pc = "inline", !.held = S]
  OBVIOUS
<1>5. /\ q \in ReqStates /\ q.pc = "inline" /\ q.kind = req[r].kind /\ q.tails = req[r].tails
      /\ q.held = S /\ q.seen = req[r].seen
  BY <1>2, <1>4 DEF ReqStates
<1>6. req' = [req EXCEPT ![r] = q]
  BY <1>3, <1>4 DEF FailChain, TailInv, TailTypeOK
<1>7. ReqOK(r, q) /\ ~Unpublished(q) /\ ~Keeps(q)
  BY <1>2, <1>3, <1>5 DEF ReqOK, Unpublished, Keeps
<1>8. KnownHead(r, q.seen) /\ \A t \in q.tails \cup q.held : KnownTail(r, q, t)
  BY <1>3, <1>5 DEF KnownHead, KnownTail
<1>9. ToDrop(q) = S /\ ToDrop(req[r]) = S
  BY <1>1, <1>3, <1>5 DEF ToDrop
<1> QED
  BY <1>1, <1>5, <1>6, <1>7, <1>8, <1>9, PlainStep

\* A put has written its tail object (rgw_putobj_processor.cc).
LEMMA PutObjStep ==
    ASSUME TailInv, NEW r \in Requests, NEW n \in Names, PutObj(r, n)
    PROVE  TailInv'
<1>1. req[r].pc = "new" /\ UNCHANGED heads /\ UNCHANGED <<queue, puts>> /\ UNCHANGED gc
  BY DEF PutObj, Quiet, collection
<1>2. PICK t \in TailIds : t = <<r, 1>> /\ Creator(t) = r
  BY TailIdFacts
<1>3. PICK S \in SUBSET TailIds : S = {t}
  OBVIOUS
<1>4. PICK h \in HeadStates : h = NoHead
  BY NamesFacts
<1>5. PICK q : q = [pc |-> "create", kind |-> "put", dst |-> n, tails |-> S, held |-> S, seen |-> h]
  OBVIOUS
<1>6. /\ q \in ReqStates /\ q.pc = "create" /\ q.kind = "put" /\ q.dst = n /\ q.tails = S
      /\ q.held = S /\ q.seen = h
  BY <1>5 DEF ReqStates
<1>7. req' = [req EXCEPT ![r] = q]
  BY <1>2, <1>3, <1>4, <1>5 DEF PutObj
<1>8. PICK wild \in SUBSET (Tags \cup {Wildcard}) : wild = {Wildcard}
  OBVIOUS
<1>9. PICK none \in SUBSET Tags : none = {}
  OBVIOUS
<1>10. PICK o : o = Fresh
  OBVIOUS
<1>11. o \in TailStates /\ o.refs = {Wildcard}
  <2>1. o = [refs |-> wild, retired |-> none]
    BY <1>8, <1>9, <1>10 DEF Fresh
  <2> QED
    BY <1>8, <2>1 DEF TailStates
<1>12. tails' = [tails EXCEPT ![t] = o]
  BY <1>2, <1>10 DEF PutObj
<1>13. /\ tails'[t] = o /\ tails' \in [TailIds -> TailStates]
       /\ \A u \in TailIds : u # t => tails'[u] = tails[u]
  BY <1>11, <1>12 DEF TailInv, TailTypeOK
<1>14. TailTypeOK'
  BY <1>1, <1>6, <1>7, <1>13 DEF TailInv, TailTypeOK
<1>15. PICK tag : tag = Wildcard
  OBVIOUS
<1>16. Expendable(tag, r)
  BY <1>15, NobodysTag
<1>17. KeepsRefs(tag, S) /\ KeepsDrops(S)
  BY <1>3, <1>13 DEF KeepsRefs, KeepsDrops, References, MayDrop
<1>18. ReqOK(r, q) /\ KnownHead(r, q.seen) /\ ToDrop(q) = {} /\ Unpublished(req[r])
  BY <1>1, <1>2, <1>3, <1>4, <1>6 DEF ReqOK, KnownHead, ToDrop, Unpublished
<1>19. \A u \in q.tails \cup q.held : KnownTail(r, q, u)
  BY <1>2, <1>3, <1>6 DEF KnownTail
<1>20. NoNewDrops
  BY <1>1, <1>7, <1>18, SameDrops
<1>21. \A u \in q.held : References(u, r)'
  BY <1>2, <1>3, <1>6, <1>11, <1>13 DEF References
<1>22. S \subseteq {<<r, 1>>}
  BY <1>2, <1>3
<1> QED
  BY <1>1, <1>6, <1>7, <1>14, <1>16, <1>17, <1>18, <1>19, <1>20, <1>21, <1>22, RequestInv

\* A copy takes a reference on the next tail object (cls_refcount.cc: get).
LEMMA GetReferenceStep ==
    ASSUME TailInv, NEW r \in Requests, GetReference(r)
    PROVE  TailInv'
<1>1. req[r].pc = "get" /\ UNCHANGED heads /\ UNCHANGED <<queue, puts>> /\ UNCHANGED gc
  BY DEF GetReference, Quiet, collection
<1>2. /\ req[r] \in ReqStates /\ ReqOK(r, req[r])
      /\ req[r].tails \in SUBSET TailIds /\ req[r].held \in SUBSET TailIds
      /\ req[r].kind = "copy" /\ req[r].held \subseteq req[r].tails /\ req[r].held # req[r].tails
  BY <1>1 DEF TailInv, TailTypeOK, ReqStates, ReqOK
<1>3. PICK t \in req[r].tails \ req[r].held : t = Foremost(req[r].tails \ req[r].held)
  <2>1. req[r].tails \ req[r].held \subseteq TailIds /\ req[r].tails \ req[r].held # {}
    BY <1>2
  <2> QED
    BY <2>1, ForemostFacts
<1>4. t \in TailIds /\ Keeps(req[r])
  BY <1>1, <1>2 DEF Keeps, Unpublished
<1>5. CASE ~Exists(t)
  <2>1. Goes(r, "undo") /\ UNCHANGED <<store, queue, puts, gc>>
    BY <1>1, <1>3, <1>5 DEF GetReference, store
  <2> QED
    BY <1>4, <2>1, GoStep
<1>6. CASE Exists(t)
  <2>1. PICK S \in SUBSET TailIds : S = req[r].held \cup {t}
    BY <1>2, <1>4
  <2>2. PICK pc \in {"get", "create"} : pc = IF S = req[r].tails THEN "create" ELSE "get"
    OBVIOUS
  <2>3. PICK q : q = [req[r] EXCEPT !.held = S, !.pc = pc]
    OBVIOUS
  <2>4. /\ q \in ReqStates /\ q.pc = pc /\ q.kind = req[r].kind /\ q.tails = req[r].tails
        /\ q.held = S /\ q.seen = req[r].seen
    BY <1>2, <2>3 DEF ReqStates
  <2>5. req' = [req EXCEPT ![r] = q]
    BY <1>1, <1>3, <1>6, <2>1, <2>2, <2>3 DEF GetReference, TailInv, TailTypeOK
  <2>6. PICK o \in TailStates : o = tails[t]
    BY <1>4 DEF TailInv, TailTypeOK
  <2>7. PICK A \in SUBSET (Tags \cup {Wildcard}) : A = o.refs \cup {r}
    BY TagFacts DEF TailStates
  <2>8. PICK new : new = [o EXCEPT !.refs = A]
    OBVIOUS
  <2>9. new \in TailStates /\ new.refs = A /\ new.retired = o.retired
    BY <2>8 DEF TailStates
  <2>10. tails' = [tails EXCEPT ![t] = new]
    BY <1>3, <1>4, <1>6, <2>6, <2>7, <2>8 DEF GetReference, refcount_get, TailInv, TailTypeOK
  <2>11. /\ tails'[t] = new /\ tails' \in [TailIds -> TailStates]
         /\ \A u \in TailIds : u # t => tails'[u] = tails[u]
    BY <1>4, <2>9, <2>10 DEF TailInv, TailTypeOK
  <2>12. TailTypeOK'
    BY <1>1, <2>4, <2>5, <2>11 DEF TailInv, TailTypeOK
  <2>13. PICK tag : tag = Wildcard
    OBVIOUS
  <2>14. Expendable(tag, r)
    BY <2>13, NobodysTag
  <2>15. KeepsRefs(tag, {})
    <3> SUFFICES ASSUME NEW u \in TailIds, NEW x \in Tags, References(u, x)
                 PROVE  References(u, x)'
      BY DEF KeepsRefs
    <3> QED
      BY <2>6, <2>7, <2>9, <2>11 DEF References
  <2>16. KeepsDrops({})
    <3> SUFFICES ASSUME NEW u \in TailIds, NEW x \in Tags, MayDrop(u, x)
                 PROVE  MayDrop(u, x)'
      BY DEF KeepsDrops
    <3> QED
      BY <1>6, <2>6, <2>7, <2>9, <2>11 DEF MayDrop, Exists
  <2>17. ReqOK(r, q) /\ ToDrop(q) = {} /\ KnownHead(r, q.seen)
    BY <1>2, <1>3, <1>4, <2>1, <2>2, <2>4 DEF ReqOK, ToDrop, KnownHead
  <2>18. \A u \in q.tails \cup q.held : KnownTail(r, q, u)
    BY <1>3, <2>1, <2>4 DEF KnownTail
  <2>19. NoNewDrops
    BY <1>1, <2>5, <2>17, SameDrops
  <2>20. \A u \in q.held : References(u, r)'
    <3> SUFFICES ASSUME NEW u \in q.held
                 PROVE  References(u, r)'
      OBVIOUS
    <3>1. CASE u = t
      BY <2>7, <2>9, <2>11, <3>1 DEF References
    <3>2. CASE u # t
      <4>1. u \in req[r].held /\ u \in TailIds /\ r \in Tags
        BY <2>1, <2>4, <3>2, TagFacts
      <4>2. References(u, r)
        BY <1>4, <4>1 DEF TailInv, KeptInv
      <4> QED
        BY <2>11, <3>2, <4>1, <4>2 DEF References
    <3> QED
      BY <3>1, <3>2
  <2>21. Unpublished(req[r]) /\ q.pc # "write"
    BY <1>4, <2>2, <2>4 DEF Keeps
  <2>22. {} \subseteq {<<r, 1>>} /\ ({} # {} => Unpublished(req[r]))
    OBVIOUS
  <2> QED
    BY <1>1, <2>4, <2>5, <2>12, <2>14, <2>15, <2>16, <2>17, <2>18, <2>19, <2>20, <2>21, <2>22, RequestInv
<1> QED
  BY <1>5, <1>6

\* The first attempt of write_meta creates the head.
LEMMA CreateHeadStep ==
    ASSUME TailInv, NEW r \in Requests, CreateHead(r)
    PROVE  TailInv'
<1>1. req[r].pc = "create" /\ UNCHANGED <<tails, queue, puts, gc>>
  BY DEF CreateHead, Quiet, collection
<1>2. /\ req[r] \in ReqStates /\ req[r].kind \in {"put", "copy"} /\ req[r].held = req[r].tails
      /\ req[r].tails # {} /\ req[r].tails \in SUBSET TailIds
  BY <1>1 DEF TailInv, TailTypeOK, ReqStates, ReqOK
<1>3. Keeps(req[r]) /\ Unpublished(req[r])
  BY <1>1, <1>2 DEF Keeps, Unpublished
<1>4. PICK d \in Names : d = req[r].dst
  BY <1>2 DEF ReqStates
<1>5. CASE heads[d] # NoHead
  <2>1. Goes(r, "read") /\ UNCHANGED <<store, queue, puts, gc>>
    BY <1>1, <1>4, <1>5 DEF CreateHead, store
  <2> QED
    BY <1>1, <1>3, <2>1, GoStep
<1>6. CASE heads[d] = NoHead
  <2>1. PICK q \in ReqStates : q = Finished
    BY FinishedFacts
  <2>2. q.pc = "done" /\ q.kind = "none" /\ q.tails = {} /\ q.held = {} /\ q.seen = NoHead
    BY <2>1, FinishedFacts
  <2>3. PICK h : h = HeadWith(r, r, req[r].tails)
    OBVIOUS
  <2>4. h \in HeadStates /\ h.tag = r /\ h.tail_tag = r /\ h.tails = req[r].tails
    BY <1>2, <2>3, TagFacts DEF HeadWith, HeadStates
  <2>5. req' = [req EXCEPT ![r] = q] /\ Writes(d, h)
    BY <1>4, <1>6, <2>1, <2>3 DEF CreateHead, Ends, Writes
  <2>6. ReqOK(r, q) /\ ~Unpublished(q)
    BY <2>2 DEF ReqOK, Unpublished
  <2>7. \A t \in h.tails : References(t, h.tail_tag)
    BY <1>2, <1>3, <2>4 DEF TailInv, KeptInv
  <2>8. h \in HeadStates /\ NewHead(r, d, h)
    BY <2>4, <2>7 DEF NewHead
  <2>9. q.pc # "inline" /\ q.pc # "chain"
    BY <2>2
  <2>10. HasWritten(r, d, h, q)
    BY <2>2, <2>6, <2>9, Zenon DEF HasWritten
  <2> QED
    BY <1>1, <1>3, <2>5, <2>8, <2>10, HeadInv
<1> QED
  BY <1>5, <1>6

\* A request that is done with its write needs nothing more.
LEMMA FinishedWrites ==
    ASSUME NEW r \in Requests, NEW d \in Names, NEW h
    PROVE  HasWritten(r, d, h, Finished)
<1>1. PICK q \in ReqStates : q = Finished
  BY FinishedFacts
<1>2. q.pc = "done" /\ q.kind = "none" /\ q.tails = {} /\ q.held = {} /\ q.seen = NoHead
  BY <1>1, FinishedFacts
<1>3. ReqOK(r, q) /\ ~Unpublished(q) /\ q.pc # "inline" /\ q.pc # "chain"
  BY <1>2 DEF ReqOK, Unpublished
<1>4. HasWritten(r, d, h, q)
  BY <1>2, <1>3, Zenon DEF HasWritten
<1> QED
  BY <1>1, <1>4

\* The head is replaced, or removed by a deletion.
LEMMA WriteHeadStep ==
    ASSUME TailInv, NEW r \in Requests, WriteHead(r)
    PROVE  TailInv'
<1>1. req[r].pc = "write" /\ UNCHANGED <<tails, queue, puts, gc>>
  BY DEF WriteHead, Quiet, collection
<1>2. /\ req[r] \in ReqStates /\ ReqOK(r, req[r]) /\ req[r].tails \in SUBSET TailIds
      /\ req[r].seen \in HeadStates
  BY DEF TailInv, TailTypeOK, ReqStates
<1>3. Unpublished(req[r])
  BY <1>1 DEF Unpublished
<1>4. PICK d \in Names : d = req[r].dst
  BY <1>2 DEF ReqStates
<1>5. PICK seen \in HeadStates : seen = req[r].seen
  BY <1>2
<1>6. heads[d] = seen
  <2>1. heads[d].tag = seen.tag
    BY <1>4, <1>5 DEF WriteHead, SameTag
  <2> QED
    BY <1>1, <1>4, <1>5, <2>1 DEF TailInv, SeenInv
<1>7. NotOf(r, seen)
  BY <1>3, <1>5 DEF TailInv, UnpublishedInv
<1>8. PICK chain : chain = [req[r] EXCEPT !.pc = "chain"]
  OBVIOUS
<1>9. /\ chain \in ReqStates /\ chain.pc = "chain" /\ chain.kind = req[r].kind
      /\ chain.tails = req[r].tails /\ chain.held = req[r].held /\ chain.seen = seen
  BY <1>2, <1>5, <1>8 DEF ReqStates
<1>10. Goes(r, "chain") => req' = [req EXCEPT ![r] = chain]
  BY <1>8 DEF Goes, TailInv, TailTypeOK
<1>11. ASSUME NEW h \in HeadStates, seen # NoHead, h.tail_tag # seen.tail_tag
       PROVE  HasWritten(r, d, h, chain)
  <2>1. ReqOK(r, chain) /\ ~Unpublished(chain) /\ chain.pc # "inline"
    BY <1>9, <1>11 DEF ReqOK, Unpublished
  <2> QED
    BY <1>5, <1>6, <1>9, <1>11, <2>1 DEF HasWritten
<1>12. CASE req[r].kind = "delete"
  <2>1. seen # NoHead
    BY <1>1, <1>2, <1>5, <1>12 DEF ReqOK
  <2>2. PICK h \in HeadStates : h = NoHead
    BY NamesFacts
  <2>3. Writes(d, h) /\ Goes(r, "chain")
    BY <1>4, <1>5, <1>12, <2>1, <2>2 DEF WriteHead, Writes
  <2>4. NewHead(r, d, h) /\ h.tail_tag # seen.tail_tag
    BY <2>1, <2>2, HeadFacts DEF NewHead
  <2>5. HasWritten(r, d, h, chain)
    BY <1>11, <2>1, <2>4
  <2> QED
    BY <1>1, <1>3, <1>9, <1>10, <2>3, <2>4, <2>5, HeadInv
<1>13. CASE req[r].kind = "self"
  <2>1. seen # NoHead /\ req[r].tails = seen.tails
    BY <1>1, <1>2, <1>5, <1>13 DEF ReqOK
  <2>2. seen.tail_tag \in Tags /\ seen.tails \in SUBSET TailIds /\ seen.tails # {}
    BY <2>1, HeadFacts
  <2>3. PICK h : h = HeadWith(r, seen.tail_tag, req[r].tails)
    OBVIOUS
  <2>4. h \in HeadStates /\ h.tag = r /\ h.tail_tag = seen.tail_tag /\ h.tails = req[r].tails
    BY <1>2, <2>1, <2>2, <2>3, TagFacts DEF HeadWith, HeadStates
  <2>5. Writes(d, h) /\ Ends(r)
    BY <1>4, <1>5, <1>13, <2>3 DEF WriteHead, Writes
  <2>6. \A t \in h.tails : References(t, h.tail_tag)
    BY <1>6, <2>1, <2>4 DEF TailInv, NoDataLoss
  <2>7. NewHead(r, d, h)
    BY <1>6, <2>4, <2>6 DEF NewHead
  <2>8. PICK q \in ReqStates : q = Finished
    BY FinishedFacts
  <2>9. HasWritten(r, d, h, q) /\ req' = [req EXCEPT ![r] = q]
    BY <2>5, <2>8, FinishedWrites DEF Ends
  <2>10. h \in HeadStates
    BY <2>4
  <2> QED
    BY <1>1, <1>3, <2>5, <2>7, <2>9, <2>10, HeadInv
<1>14. CASE req[r].kind \in {"put", "copy"}
  <2>1. Keeps(req[r]) /\ req[r].held = req[r].tails /\ req[r].tails # {}
    BY <1>1, <1>2, <1>3, <1>14 DEF ReqOK, Keeps
  <2>2. PICK h : h = HeadWith(r, r, req[r].tails)
    OBVIOUS
  <2>3. h \in HeadStates /\ h.tag = r /\ h.tail_tag = r /\ h.tails = req[r].tails
    BY <1>2, <2>1, <2>2, TagFacts DEF HeadWith, HeadStates
  <2>4. Writes(d, h) /\ (IF seen = NoHead THEN Ends(r) ELSE Goes(r, "chain"))
    BY <1>4, <1>5, <1>14, <2>2 DEF WriteHead, Writes
  <2>5. \A t \in h.tails : References(t, h.tail_tag)
    BY <2>1, <2>3 DEF TailInv, KeptInv
  <2>6. NewHead(r, d, h) /\ h \in HeadStates /\ h.tail_tag # seen.tail_tag
    BY <1>7, <2>3, <2>5 DEF NewHead, NotOf
  <2>7. CASE seen = NoHead
    <3>1. PICK q \in ReqStates : q = Finished
      BY FinishedFacts
    <3>2. HasWritten(r, d, h, q) /\ req' = [req EXCEPT ![r] = q]
      BY <2>4, <2>7, <3>1, FinishedWrites DEF Ends
    <3> QED
      BY <1>1, <1>3, <2>4, <2>6, <3>2, HeadInv
  <2>8. CASE seen # NoHead
    <3>1. HasWritten(r, d, h, chain) /\ req' = [req EXCEPT ![r] = chain]
      BY <1>10, <1>11, <2>4, <2>6, <2>8
    <3> QED
      BY <1>1, <1>3, <1>9, <2>4, <2>6, <3>1, HeadInv
  <2> QED
    BY <2>7, <2>8
<1>15. req[r].kind \in {"delete", "self", "put", "copy"}
  BY <1>1, <1>2 DEF ReqOK, ReqStates
<1> QED
  BY <1>12, <1>13, <1>14, <1>15

\* A request that has one tail object less to undo or to collect.
LEMMA ReleaseInv ==
    ASSUME TailInv, UNCHANGED heads, UNCHANGED <<queue, puts>>, UNCHANGED gc, NEW r \in Requests,
           req[r].pc \in {"undo", "inline"}, NEW t \in req[r].held, Released(r, t),
           tails' \in [TailIds -> TailStates], \A u \in TailIds : u # t => tails'[u] = tails[u],
           NEW tag, NEW own, KeepsRefs(tag, own), KeepsDrops(own), Expendable(tag, r),
           own \subseteq {<<r, 1>>}, own # {} => Unpublished(req[r])
    PROVE  TailInv'
<1>1. req[r] \in ReqStates /\ ReqOK(r, req[r]) /\ req[r].held \in SUBSET TailIds
  BY DEF TailInv, TailTypeOK, ReqStates
<1>2. CASE req[r].held = {t}
  <2>1. PICK q \in ReqStates : q = Finished
    BY FinishedFacts
  <2>2. q.pc = "done" /\ q.kind = "none" /\ q.tails = {} /\ q.held = {} /\ q.seen = NoHead
    BY <2>1, FinishedFacts
  <2>3. req' = [req EXCEPT ![r] = q]
    BY <1>2, <2>1 DEF Released, Ends, TailInv, TailTypeOK
  <2>4. ReqOK(r, q) /\ ~Unpublished(q) /\ ~Keeps(q) /\ ToDrop(q) = {} /\ KnownHead(r, q.seen)
    BY <2>2 DEF ReqOK, Unpublished, Keeps, ToDrop, KnownHead
  <2>5. TailTypeOK'
    BY <2>3 DEF TailInv, TailTypeOK
  <2>6. NoNewDrops
    BY <2>3, <2>4, SameDrops
  <2>7. \A u \in q.tails \cup q.held : KnownTail(r, q, u)
    BY <2>2
  <2>8. q.pc # "write"
    BY <2>2
  <2> QED
    BY <2>3, <2>4, <2>5, <2>6, <2>7, <2>8, RequestInv
<1>3. CASE req[r].held # {t}
  <2>1. PICK S \in SUBSET TailIds : S = req[r].held \ {t}
    BY <1>1
  <2>2. PICK q : q = [req[r] EXCEPT !.held = S]
    OBVIOUS
  <2>3. /\ q \in ReqStates /\ q.pc = req[r].pc /\ q.kind = req[r].kind /\ q.tails = req[r].tails
        /\ q.held = S /\ q.seen = req[r].seen
    BY <1>1, <2>2 DEF ReqStates
  <2>4. req' = [req EXCEPT ![r] = q]
    BY <1>3, <2>1, <2>2 DEF Released, Ends, TailInv, TailTypeOK
  <2>5. S # {}
    BY <1>3, <2>1
  <2>6. ReqOK(r, q) /\ KnownHead(r, q.seen)
    BY <1>1, <2>1, <2>3, <2>5 DEF ReqOK, KnownHead
  <2>7. \A u \in ToDrop(q) : u \in ToDrop(req[r]) /\ q.seen.tail_tag = req[r].seen.tail_tag
    BY <2>1, <2>3 DEF ToDrop
  <2>8. TailTypeOK'
    BY <2>3, <2>4 DEF TailInv, TailTypeOK
  <2>9. NoNewDrops
    BY <2>4, <2>7, SameDrops
  <2>10. \A u \in q.tails \cup q.held : KnownTail(r, q, u)
    BY <2>1, <2>3 DEF KnownTail
  <2>11. Keeps(q) => \A u \in q.held : References(u, r)'
    <3> SUFFICES ASSUME Keeps(q), NEW u \in q.held
                 PROVE  References(u, r)'
      OBVIOUS
    <3>1. Keeps(req[r])
      BY <2>3 DEF Keeps, Unpublished
    <3>2. u \in req[r].held /\ u \in TailIds /\ u # t
      BY <2>1, <2>3
    <3>3. References(u, r)
      BY <3>1, <3>2 DEF TailInv, KeptInv
    <3> QED
      BY <3>2, <3>3 DEF References
  <2>12. q.pc # "write" /\ (Unpublished(q) => Unpublished(req[r]))
    BY <2>3 DEF Unpublished
  <2> QED
    BY <2>3, <2>4, <2>6, <2>8, <2>9, <2>10, <2>11, <2>12, RequestInv
<1> QED
  BY <1>2, <1>3

\* A reference or a tail object of a request that failed is given back.
LEMMA UndoStep ==
    ASSUME TailInv, NEW r \in Requests, Undo(r)
    PROVE  TailInv'
<1>1. req[r].pc = "undo" /\ UNCHANGED heads /\ UNCHANGED <<queue, puts>> /\ UNCHANGED gc
  BY DEF Undo, Quiet, collection
<1>2. /\ req[r].kind \in {"put", "copy"} /\ req[r].held \in SUBSET TailIds /\ Keeps(req[r])
      /\ Unpublished(req[r])
      /\ req[r].kind = "put" => req[r].held \subseteq {<<r, 1>>}
  BY <1>1 DEF TailInv, TailTypeOK, ReqStates, ReqOK, Keeps, Unpublished
<1>3. CASE req[r].held = {}
  <2>1. Ends(r) /\ UNCHANGED <<store, queue, puts, gc>>
    BY <1>1, <1>3 DEF Undo, store
  <2> QED
    BY <2>1, EndStep
<1>4. CASE req[r].held # {}
  <2>1. PICK t \in req[r].held : t = Foremost(req[r].held)
    BY <1>2, <1>4, ForemostFacts
  <2>2. t \in TailIds /\ tails \in [TailIds -> TailStates]
    BY <1>2 DEF TailInv, TailTypeOK
  <2>3. Released(r, t)
    BY <1>4, <2>1 DEF Undo
  <2>4. CASE req[r].kind = "put"
    <3>1. t = <<r, 1>>
      BY <1>2, <2>4
    <3>2. PICK none \in SUBSET (Tags \cup {Wildcard}) : none = {}
      OBVIOUS
    <3>3. PICK nil \in SUBSET Tags : nil = {}
      OBVIOUS
    <3>4. PICK o : o = [refs |-> none, retired |-> nil]
      OBVIOUS
    <3>5. o \in TailStates
      BY <3>4 DEF TailStates
    <3>6. tails' = [tails EXCEPT ![t] = o]
      BY <1>4, <2>1, <2>4, <3>2, <3>3, <3>4 DEF Undo, Gone
    <3>7. tails' \in [TailIds -> TailStates] /\ \A u \in TailIds : u # t => tails'[u] = tails[u]
      BY <2>2, <3>5, <3>6
    <3>8. PICK own : own = {t}
      OBVIOUS
    <3>9. PICK tag : tag = Wildcard
      OBVIOUS
    <3>10. Expendable(tag, r)
      BY <3>9, NobodysTag
    <3>11. KeepsRefs(tag, own) /\ KeepsDrops(own)
      BY <3>7, <3>8 DEF KeepsRefs, KeepsDrops, References, MayDrop
    <3>12. own \subseteq {<<r, 1>>}
      BY <3>1, <3>8
    <3> QED
      BY <1>1, <1>2, <2>3, <3>7, <3>10, <3>11, <3>12, ReleaseInv
  <2>5. CASE req[r].kind = "copy"
    <3>1. References(t, r) /\ r \in Tags
      BY <1>2, TagFacts DEF TailInv, KeptInv
    <3>2. MayDrop(t, r)
      BY <3>1 DEF References, MayDrop
    <3>3. tails' = [tails EXCEPT ![t] = refcount_put(tails[t], r)]
      BY <1>4, <2>1, <2>2, <2>5 DEF Undo
    <3>4. tails' \in [TailIds -> TailStates] /\ KeepsRefs(r, {}) /\ KeepsDrops({})
      BY <2>2, <3>1, <3>2, <3>3, TailsPut
    <3>5. \A u \in TailIds : u # t => tails'[u] = tails[u]
      BY <2>2, <3>3
    <3>6. Expendable(r, r)
      BY <1>2 DEF TailInv, UnpublishedInv, NotOf, Expendable
    <3>7. {} \subseteq {<<r, 1>>} /\ ({} # {} => Unpublished(req[r]))
      OBVIOUS
    <3> QED
      BY <1>1, <2>3, <3>4, <3>5, <3>6, <3>7, ReleaseInv
  <2> QED
    BY <1>2, <2>4, <2>5
<1> QED
  BY <1>3, <1>4

\* Nobody counts on a reference that is being dropped.
LEMMA PendingExpendable ==
    ASSUME TailInv, NEW t \in TailIds, NEW x \in Tags, Pending(t, x), NEW r
    PROVE  Expendable(x, r)
<1>1. \A n \in Names : heads[n] # NoHead => heads[n].tail_tag # x
  <2> SUFFICES ASSUME NEW n \in Names, heads[n] # NoHead, heads[n].tail_tag = x
               PROVE  FALSE
    OBVIOUS
  <2>1. ~Pending(t, heads[n].tail_tag)
    BY DEF TailInv, LiveInv
  <2> QED
    BY <2>1
<1>2. \A s \in Requests : Unpublished(req[s]) => s # x
  BY DEF TailInv, UnpublishedInv
<1> QED
  BY <1>1, <1>2 DEF Expendable

\* A tail that the collector's queue has no room for is deleted by the request.
LEMMA DeleteInlineStep ==
    ASSUME TailInv, NEW r \in Requests, DeleteInline(r)
    PROVE  TailInv'
<1>1. req[r].pc = "inline" /\ UNCHANGED heads /\ UNCHANGED <<queue, puts>> /\ UNCHANGED gc
  BY DEF DeleteInline, Quiet, collection
<1>2. /\ req[r].held \in SUBSET TailIds /\ req[r].held # {}
      /\ req[r].seen \in HeadStates /\ req[r].seen # NoHead
  BY <1>1 DEF TailInv, TailTypeOK, ReqStates, ReqOK
<1>3. PICK t \in req[r].held : t = Foremost(req[r].held)
  BY <1>2, ForemostFacts
<1>4. PICK x \in Tags : x = req[r].seen.tail_tag
  BY <1>2, HeadFacts
<1>5. t \in TailIds /\ tails \in [TailIds -> TailStates]
  BY <1>2 DEF TailInv, TailTypeOK
<1>6. Pending(t, x)
  BY <1>1, <1>4 DEF Pending, ToDrop
<1>7. MayDrop(t, x)
  BY <1>5, <1>6 DEF TailInv, DropInv
<1>8. tails' = [tails EXCEPT ![t] = refcount_put(tails[t], x)] /\ Released(r, t)
  BY <1>3, <1>4, <1>5 DEF DeleteInline
<1>9. tails' \in [TailIds -> TailStates] /\ KeepsRefs(x, {}) /\ KeepsDrops({})
  BY <1>5, <1>7, <1>8, TailsPut
<1>10. \A u \in TailIds : u # t => tails'[u] = tails[u]
  BY <1>5, <1>8
<1>11. Expendable(x, r)
  BY <1>5, <1>6, PendingExpendable
<1>12. {} \subseteq {<<r, 1>>} /\ ({} # {} => Unpublished(req[r]))
  OBVIOUS
<1> QED
  BY <1>1, <1>8, <1>9, <1>10, <1>11, <1>12, ReleaseInv

\* A reference that is not given back, or not dropped, is only given up.
LEMMA FailedReleaseStep ==
    ASSUME TailInv, NEW r \in Requests, FailUndo(r) \/ FailInline(r)
    PROVE  TailInv'
<1>1. /\ req[r].pc \in {"undo", "inline"} /\ UNCHANGED heads /\ UNCHANGED tails
      /\ UNCHANGED <<queue, puts>> /\ UNCHANGED gc
  BY DEF FailUndo, FailInline, Leaked, store, collection
<1>2. req[r].held \in SUBSET TailIds /\ req[r].held # {}
  BY DEF FailUndo, FailInline, TailInv, TailTypeOK, ReqStates, ReqOK
<1>3. PICK t \in req[r].held : t = Foremost(req[r].held)
  BY <1>2, ForemostFacts
<1>4. Released(r, t)
  BY <1>3 DEF FailUndo, FailInline, Leaked
<1>5. tails' \in [TailIds -> TailStates] /\ \A u \in TailIds : u # t => tails'[u] = tails[u]
  BY <1>1 DEF TailInv, TailTypeOK
<1>6. PICK tag : tag = Wildcard
  OBVIOUS
<1>7. Expendable(tag, r)
  BY <1>6, NobodysTag
<1>8. KeepsRefs(tag, {}) /\ KeepsDrops({})
  BY <1>1, SameTails
<1>9. {} \subseteq {<<r, 1>>} /\ ({} # {} => Unpublished(req[r]))
  OBVIOUS
<1> QED
  BY <1>1, <1>4, <1>5, <1>7, <1>8, <1>9, ReleaseInv

\* The tail of the head that was replaced goes to the collector's queue.
LEMMA SendChainStep ==
    ASSUME TailInv, NEW r \in Requests, SendChain(r)
    PROVE  TailInv'
<1>1. /\ req[r].pc = "chain" /\ UNCHANGED heads /\ UNCHANGED tails /\ UNCHANGED puts
      /\ UNCHANGED gc
  BY DEF SendChain, store
<1>2. req[r].seen \in HeadStates /\ req[r].seen # NoHead
  BY <1>1 DEF TailInv, TailTypeOK, ReqStates, ReqOK
<1>3. PICK x \in Tags : x = req[r].seen.tail_tag
  BY <1>2, HeadFacts
<1>4. PICK S \in SUBSET TailIds : S = req[r].seen.tails
  BY <1>2, HeadFacts
<1>5. PICK e \in Entries : e = [tag |-> x, tails |-> S]
  BY DEF Entries
<1>6. queue' = Append(queue, e) /\ queue \in Seq(Entries)
  BY <1>3, <1>4, <1>5 DEF SendChain, TailInv, TailTypeOK
<1>7. /\ queue' \in Seq(Entries)
      /\ \A i \in DOMAIN queue' : queue'[i] = e \/ (i \in DOMAIN queue /\ queue'[i] = queue[i])
  BY <1>6
<1>8. PICK q \in ReqStates : q = Finished
  BY FinishedFacts
<1>9. q.pc = "done" /\ q.kind = "none" /\ q.tails = {} /\ q.held = {} /\ q.seen = NoHead
  BY <1>8, FinishedFacts
<1>10. req' = [req EXCEPT ![r] = q]
  BY <1>8 DEF SendChain, Ends
<1>11. ReqOK(r, q) /\ ~Unpublished(q) /\ ~Keeps(q) /\ ToDrop(q) = {} /\ KnownHead(r, q.seen)
  BY <1>9 DEF ReqOK, Unpublished, Keeps, ToDrop, KnownHead
<1>12. TailTypeOK'
  BY <1>1, <1>7, <1>10 DEF TailInv, TailTypeOK
<1>13. req'[r] = q /\ \A s \in Requests : s # r => req'[s] = req[s]
  BY <1>10 DEF TailInv, TailTypeOK
<1>14. NoNewDrops
  <2> SUFFICES ASSUME NEW t \in TailIds, NEW y \in Tags, Pending(t, y)'
               PROVE  Pending(t, y)
    BY DEF NoNewDrops
  <2>1. \A u \in S : Pending(u, x)
    BY <1>1, <1>3, <1>4 DEF Pending, ToDrop
  <2>2. CASE \E i \in DOMAIN queue' : queue'[i].tag = y /\ t \in queue'[i].tails
    <3>1. PICK i \in DOMAIN queue' : queue'[i].tag = y /\ t \in queue'[i].tails
      BY <2>2
    <3>2. CASE queue'[i] = e
      BY <1>5, <2>1, <3>1, <3>2
    <3>3. CASE i \in DOMAIN queue /\ queue'[i] = queue[i]
      BY <3>1, <3>3 DEF Pending
    <3> QED
      BY <1>7, <3>2, <3>3
  <2>3. CASE \E p \in puts : p[2] = y /\ p[3] = t
    BY <2>3 DEF Pending
  <2>4. CASE \E s \in Requests : req'[s].seen.tail_tag = y /\ t \in ToDrop(req'[s])
    BY <1>11, <1>13, <2>4 DEF Pending
  <2>5. \/ \E i \in DOMAIN queue' : queue'[i].tag = y /\ t \in queue'[i].tails
        \/ \E p \in puts : p[2] = y /\ p[3] = t
        \/ \E s \in Requests : req'[s].seen.tail_tag = y /\ t \in ToDrop(req'[s])
    BY <1>1 DEF Pending, ToDrop
  <2> QED
    BY <2>2, <2>3, <2>4, <2>5
<1>15. PICK tag : tag = Wildcard
  OBVIOUS
<1>16. Expendable(tag, r)
  BY <1>15, NobodysTag
<1>17. KeepsRefs(tag, {}) /\ KeepsDrops({})
  BY <1>1, SameTails
<1>18. {} \subseteq {<<r, 1>>} /\ ({} # {} => Unpublished(req[r])) /\ q.pc # "write"
  BY <1>9
<1>19. \A u \in q.tails \cup q.held : KnownTail(r, q, u)
  BY <1>9
<1> QED
  BY <1>1, <1>10, <1>11, <1>12, <1>14, <1>16, <1>17, <1>18, <1>19, RequestInv

-----------------------------------------------------------------------------
(* The steps of the collectors.                                            *)

\* The puts that are sent come from the queue, and the queue only gets shorter.
LEMMA DropsFromQueue ==
    ASSUME UNCHANGED req, \A i \in DOMAIN queue' : \E j \in DOMAIN queue : queue'[i] = queue[j],
           \A p \in puts' :
              \/ \E o \in puts : p[2] = o[2] /\ p[3] = o[3]
              \/ \E j \in DOMAIN queue : p[2] = queue[j].tag /\ p[3] \in queue[j].tails
    PROVE  NoNewDrops
<1> SUFFICES ASSUME NEW t \in TailIds, NEW x \in Tags, Pending(t, x)'
             PROVE  Pending(t, x)
  BY DEF NoNewDrops
<1>1. \/ \E i \in DOMAIN queue' : queue'[i].tag = x /\ t \in queue'[i].tails
      \/ \E p \in puts' : p[2] = x /\ p[3] = t
      \/ \E s \in Requests : req[s].seen.tail_tag = x /\ t \in ToDrop(req[s])
  BY DEF Pending, ToDrop
<1>2. CASE \E i \in DOMAIN queue' : queue'[i].tag = x /\ t \in queue'[i].tails
  <2>1. PICK i \in DOMAIN queue' : queue'[i].tag = x /\ t \in queue'[i].tails
    BY <1>2
  <2>2. PICK j \in DOMAIN queue : queue'[i] = queue[j]
    OBVIOUS
  <2> QED
    BY <2>1, <2>2 DEF Pending
<1>3. CASE \E p \in puts' : p[2] = x /\ p[3] = t
  <2>1. PICK p \in puts' : p[2] = x /\ p[3] = t
    BY <1>3
  <2>2. CASE \E o \in puts : p[2] = o[2] /\ p[3] = o[3]
    BY <2>1, <2>2 DEF Pending
  <2>3. CASE \E j \in DOMAIN queue : p[2] = queue[j].tag /\ p[3] \in queue[j].tails
    BY <2>1, <2>3 DEF Pending
  <2> QED
    BY <2>2, <2>3
<1>4. CASE \E s \in Requests : req[s].seen.tail_tag = x /\ t \in ToDrop(req[s])
  BY <1>4 DEF Pending
<1> QED
  BY <1>1, <1>2, <1>3, <1>4

\* A step that leaves the store and the requests alone.
LEMMA CalmStep ==
    ASSUME TailInv, TailTypeOK', UNCHANGED <<heads, req>>, UNCHANGED tails, NoNewDrops
    PROVE  TailInv'
<1>1. PICK tag : tag = Wildcard
  OBVIOUS
<1>2. Expendable(tag, tag) /\ tag \notin Requests
  BY <1>1, NobodysTag
<1>3. KeepsRefs(tag, {}) /\ KeepsDrops({})
  BY SameTails
<1> QED
  BY <1>2, <1>3, CollectorInv

\* A step that concerns the collectors' own state only.
LEMMA SameQueue ==
    ASSUME TailInv, UNCHANGED <<heads, req>>, UNCHANGED tails, UNCHANGED <<queue, puts>>,
           DOMAIN gc' = Gateways, \A g \in Gateways : IsCollector(gc'[g])
    PROVE  TailInv'
<1>1. TailTypeOK'
  BY DEF TailInv, TailTypeOK, IsCollector
<1>2. NoNewDrops
  BY DropsFromQueue
<1> QED
  BY <1>1, <1>2, CalmStep

\* A collector between two rounds, and one that starts to list.
LEMMA RestingFacts ==
    IsCollector(Resting) /\ \A m : IsCollector([Resting EXCEPT !.pc = "list", !.marker = m])
<1>1. 0 \in Nat
  OBVIOUS
<1>2. IsCollector(Resting)
  BY <1>1 DEF Resting, IsCollector
<1>3. PICK c, zero, no : /\ c = Resting /\ zero \in Nat
                         /\ c = [pc |-> "idle", marker |-> zero, first |-> zero,
                                 count |-> zero, truncated |-> no]
  BY <1>1 DEF Resting
<1>4. ASSUME NEW m
      PROVE  IsCollector([c EXCEPT !.pc = "list", !.marker = m])
  <2>1. PICK d : d = [c EXCEPT !.pc = "list", !.marker = m]
    OBVIOUS
  <2>2. PICK P, M, F, B : /\ P = {"idle", "list"} /\ M = {zero, m} /\ F = {zero} /\ B = {no}
                          /\ "list" \in P /\ m \in M
    OBVIOUS
  <2>3. c \in [pc : P, marker : M, first : F, count : Nat, truncated : B]
    BY <1>3, <2>2
  <2>4. d \in [pc : P, marker : M, first : F, count : Nat, truncated : B]
    BY <2>1, <2>2, <2>3
  <2>5. IsCollector(d)
    BY <2>4 DEF IsCollector
  <2> QED
    BY <2>1, <2>5
<1> QED
  BY <1>2, <1>3, <1>4

\* A collector stops.
LEMMA StopsFacts ==
    ASSUME TailInv, NEW g \in Gateways, gc' = [gc EXCEPT ![g] = Resting]
    PROVE  DOMAIN gc' = Gateways /\ \A k \in Gateways : IsCollector(gc'[k])
<1>1. PICK c : c = Resting /\ IsCollector(c)
  BY RestingFacts
<1> QED
  BY <1>1 DEF TailInv, TailTypeOK

\* Queued entries get old enough to be collected.
LEMMA ExpireStep ==
    ASSUME TailInv, Expire
    PROVE  TailInv'
<1>1. UNCHANGED <<heads, req>> /\ UNCHANGED tails /\ UNCHANGED <<queue, puts>> /\ UNCHANGED gc
  BY DEF Expire, Steady
<1>2. DOMAIN gc' = Gateways /\ \A g \in Gateways : IsCollector(gc'[g])
  BY <1>1 DEF TailInv, TailTypeOK
<1> QED
  BY <1>1, <1>2, SameQueue

\* The lease of the shard's lock lapses.
LEMMA LockLapsesStep ==
    ASSUME TailInv, LockLapses
    PROVE  TailInv'
<1>1. UNCHANGED <<heads, req>> /\ UNCHANGED tails /\ UNCHANGED <<queue, puts>> /\ UNCHANGED gc
  BY DEF LockLapses, store
<1>2. DOMAIN gc' = Gateways /\ \A g \in Gateways : IsCollector(gc'[g])
  BY <1>1 DEF TailInv, TailTypeOK
<1> QED
  BY <1>1, <1>2, SameQueue

\* A collector locks the shard (rgw_gc.cc: process).
LEMMA GcLockStep ==
    ASSUME TailInv, NEW g \in Gateways, GcLock(g)
    PROVE  TailInv'
<1>1. UNCHANGED <<heads, req>> /\ UNCHANGED tails /\ UNCHANGED <<queue, puts>>
  BY DEF GcLock, Steady
<1>2. PICK pc, marker, first, truncated : \E count \in Nat :
          gc[g] = [pc |-> pc, marker |-> marker, first |-> first, count |-> count,
                   truncated |-> truncated]
  BY DEF TailInv, TailTypeOK, IsCollector
<1>3. PICK c : c = [gc[g] EXCEPT !.pc = "list"]
  OBVIOUS
<1>4. \E count \in Nat : c = [pc |-> "list", marker |-> marker, first |-> first, count |-> count,
                              truncated |-> truncated]
  BY <1>2, <1>3
<1>5. IsCollector(c)
  BY <1>4 DEF IsCollector
<1>6. gc' = [gc EXCEPT ![g] = c]
  BY <1>3 DEF GcLock, TailInv, TailTypeOK
<1>7. DOMAIN gc' = Gateways /\ \A k \in Gateways : IsCollector(gc'[k])
  BY <1>5, <1>6 DEF TailInv, TailTypeOK
<1> QED
  BY <1>1, <1>7, SameQueue

\* A collector lists expired entries and sends the puts of their references.
LEMMA GcListStep ==
    ASSUME TailInv, NEW g \in Gateways, GcList(g)
    PROVE  TailInv'
<1>1. UNCHANGED <<heads, req>> /\ UNCHANGED tails /\ UNCHANGED queue
  BY DEF GcList, Steady
<1>2. PICK page : page = Page(gc[g].marker)
  OBVIOUS
<1>3. PICK due : due = {i \in page : removed + i <= expired}
  OBVIOUS
<1>4. queue \in Seq(Entries) /\ Len(queue) \in Nat /\ DOMAIN queue = 1..Len(queue)
  BY DEF TailInv, TailTypeOK
<1>5. due \subseteq 1..Len(queue)
  BY <1>2, <1>3 DEF Page
<1>6. CASE due = {}
  <2>1. Stops(g) /\ UNCHANGED <<queue, puts>>
    BY <1>1, <1>2, <1>3, <1>6 DEF GcList
  <2>2. DOMAIN gc' = Gateways /\ \A k \in Gateways : IsCollector(gc'[k])
    BY <2>1, StopsFacts DEF Stops
  <2> QED
    BY <1>1, <2>1, <2>2, SameQueue
<1>7. CASE due # {}
  <2>1. PICK count \in Nat : count = Cardinality(due)
    <3>1. IsFiniteSet(1..Len(queue))
      BY <1>4, FS_Interval
    <3>2. IsFiniteSet(due)
      BY <1>5, <3>1, FS_Subset
    <3> QED
      BY <3>2, FS_CardinalityType
  <2>2. PICK c : c = [pc |-> "work", marker |-> removed + Max(page),
                      first |-> removed + Min(due) - 1, count |-> count,
                      truncated |-> Max(page) < Len(queue)]
    OBVIOUS
  <2>3. IsCollector(c)
    BY <2>2 DEF IsCollector
  <2>4. gc' = [gc EXCEPT ![g] = c]
    BY <1>2, <1>3, <1>7, <2>1, <2>2 DEF GcList
  <2>5. DOMAIN gc' = Gateways /\ \A k \in Gateways : IsCollector(gc'[k])
    BY <2>3, <2>4 DEF TailInv, TailTypeOK
  <2>6. puts' = puts \cup UNION {{<<g, queue[i].tag, t>> : t \in queue[i].tails} : i \in due}
    BY <1>2, <1>3, <1>7 DEF GcList
  <2>7. \A p \in puts' :
            p \in puts \/ \E i \in due : \E t \in queue[i].tails : p = <<g, queue[i].tag, t>>
    BY <2>6
  <2>8. ASSUME NEW i \in due
        PROVE  i \in DOMAIN queue /\ queue[i].tag \in Tags /\ queue[i].tails \in SUBSET TailIds
    <3>1. i \in DOMAIN queue /\ queue[i] \in Entries
      BY <1>4, <1>5
    <3> QED
      BY <3>1 DEF Entries
  <2>9. puts' \subseteq (Gateways \cup {Nobody}) \X Tags \X TailIds
    <3>1. puts \subseteq (Gateways \cup {Nobody}) \X Tags \X TailIds
      BY DEF TailInv, TailTypeOK
    <3>2. \A i \in due : \A t \in queue[i].tails :
              <<g, queue[i].tag, t>> \in (Gateways \cup {Nobody}) \X Tags \X TailIds
      BY <2>8
    <3> QED
      BY <2>7, <3>1, <3>2
  <2>10. TailTypeOK'
    BY <1>1, <2>5, <2>9 DEF TailInv, TailTypeOK
  <2>11. \A p \in puts' :
             \/ \E o \in puts : p[2] = o[2] /\ p[3] = o[3]
             \/ \E j \in DOMAIN queue : p[2] = queue[j].tag /\ p[3] \in queue[j].tails
    <3> SUFFICES ASSUME NEW p \in puts', p \notin puts
                 PROVE  \E j \in DOMAIN queue : p[2] = queue[j].tag /\ p[3] \in queue[j].tails
      OBVIOUS
    <3>1. PICK i \in due : \E t \in queue[i].tails : p = <<g, queue[i].tag, t>>
      BY <2>7
    <3> QED
      BY <2>8, <3>1
  <2>12. \A i \in DOMAIN queue' : \E j \in DOMAIN queue : queue'[i] = queue[j]
    BY <1>1
  <2>13. NoNewDrops
    BY <1>1, <2>11, <2>12, DropsFromQueue
  <2> QED
    BY <1>1, <2>10, <2>13, CalmStep
<1> QED
  BY <1>6, <1>7

\* As many entries as the collector listed go from the front of the queue.
LEMMA FrontRemoved ==
    ASSUME TailInv, NEW g \in Gateways, gc[g].count \in Nat, GcRemove(g)
    PROVE  \E n \in Nat, l \in Nat :
               /\ n = Min({gc[g].count, Len(queue)}) /\ n <= gc[g].count /\ n <= l /\ l = Len(queue)
               /\ DOMAIN queue = 1..l /\ queue' \in Seq(Entries) /\ DOMAIN queue' = 1..(l - n)
               /\ Len(queue') = l - n
               /\ \A i \in 1..(l - n) : queue'[i] = queue[i + n]
<1>1. queue \in Seq(Entries) /\ Len(queue) \in Nat
  BY DEF TailInv, TailTypeOK
<1>2. PICK n \in Nat : /\ n = Min({gc[g].count, Len(queue)})
                       /\ n <= gc[g].count /\ n <= Len(queue)
  BY <1>1, MinOfTwo
<1>3. PICK m \in Nat, l \in Nat : m = n + 1 /\ l = Len(queue)
  BY <1>1, <1>2
<1>4. \A i \in m..l : queue[i] \in Entries
  BY <1>1, <1>2, <1>3
<1>5. PICK s : s = SubSeq(queue, m, l)
  OBVIOUS
<1>6. m \in Int /\ l \in Int
  BY <1>3
<1>7. /\ s \in Seq(Entries) /\ Len(s) = IF m <= l THEN l - m + 1 ELSE 0
      /\ \A i \in 1..(l - m + 1) : s[i] = queue[m + i - 1]
  BY <1>4, <1>5, <1>6, SubSeqProperties
<1>8. Len(s) = l - n /\ DOMAIN s = 1..(l - n)
  BY <1>2, <1>3, <1>7
<1>9. \A i \in 1..(l - n) : m + i - 1 = i + n /\ i \in 1..(l - m + 1)
  BY <1>2, <1>3
<1>10. \A i \in 1..(l - n) : s[i] = queue[i + n]
  BY <1>7, <1>9
<1>11. queue' = s
  BY <1>2, <1>3, <1>5 DEF GcRemove
<1>12. DOMAIN queue = 1..l /\ n <= l
  BY <1>1, <1>2, <1>3
<1>13. queue' \in Seq(Entries) /\ DOMAIN queue' = 1..(l - n) /\ Len(queue') = l - n
  BY <1>7, <1>8, <1>11
<1>14. \A i \in 1..(l - n) : queue'[i] = queue[i + n]
  BY <1>10, <1>11
<1> QED
  BY <1>2, <1>3, <1>12, <1>13, <1>14

\* A collector removes as many entries as it listed.
LEMMA GcRemoveStep ==
    ASSUME TailInv, NEW g \in Gateways, GcRemove(g)
    PROVE  TailInv'
<1>1. UNCHANGED <<heads, req>> /\ UNCHANGED tails /\ UNCHANGED puts
  BY DEF GcRemove, store
<1>2. gc[g].count \in Nat
  <2>1. PICK pc, marker, first, truncated : \E count \in Nat :
            gc[g] = [pc |-> pc, marker |-> marker, first |-> first, count |-> count,
                     truncated |-> truncated]
    BY DEF TailInv, TailTypeOK, IsCollector
  <2> QED
    BY <2>1
<1>3. PICK n \in Nat, l \in Nat :
          /\ n <= l /\ DOMAIN queue = 1..l /\ queue' \in Seq(Entries) /\ DOMAIN queue' = 1..(l - n)
          /\ \A i \in 1..(l - n) : queue'[i] = queue[i + n]
  BY <1>2, FrontRemoved
<1>4. /\ queue' \in Seq(Entries)
      /\ \A i \in DOMAIN queue' : i + n \in DOMAIN queue /\ queue'[i] = queue[i + n]
  BY <1>3
<1>5. DOMAIN gc' = Gateways /\ \A k \in Gateways : IsCollector(gc'[k])
  <2>1. CASE gc[g].truncated
    <3>1. PICK c : c = [Resting EXCEPT !.pc = "list", !.marker = gc[g].marker]
      OBVIOUS
    <3>2. IsCollector(c)
      BY <3>1, RestingFacts
    <3>3. gc' = [gc EXCEPT ![g] = c]
      BY <2>1, <3>1 DEF GcRemove
    <3> QED
      BY <3>2, <3>3 DEF TailInv, TailTypeOK
  <2>2. CASE ~gc[g].truncated
    <3>1. gc' = [gc EXCEPT ![g] = Resting]
      BY <2>2 DEF GcRemove, Stops
    <3> QED
      BY <3>1, StopsFacts
  <2> QED
    BY <2>1, <2>2
<1>6. TailTypeOK'
  BY <1>1, <1>4, <1>5 DEF TailInv, TailTypeOK
<1>7. NoNewDrops
  <2>1. \A i \in DOMAIN queue' : \E j \in DOMAIN queue : queue'[i] = queue[j]
    BY <1>4
  <2> QED
    BY <1>1, <2>1, DropsFromQueue
<1> QED
  BY <1>1, <1>6, <1>7, CalmStep

\* What is left of the puts of a collector that stops is of the same tags and tails.
LEMMA AbandonedStep ==
    ASSUME TailInv, NEW g \in Gateways, Abandoned(g), gc' = [gc EXCEPT ![g] = Resting],
           UNCHANGED <<heads, req>>, UNCHANGED tails, UNCHANGED queue
    PROVE  TailInv'
<1>1. PICK late \in SUBSET PutsOf(g) :
          puts' = (puts \ PutsOf(g)) \cup {<<Nobody, p[2], p[3]>> : p \in late}
  BY DEF Abandoned
<1>2. puts \subseteq (Gateways \cup {Nobody}) \X Tags \X TailIds
  BY DEF TailInv, TailTypeOK
<1>3. \A p \in puts' : p \in puts \/ \E o \in puts : p = <<Nobody, o[2], o[3]>>
  BY <1>1 DEF PutsOf
<1>4. \A o \in puts : <<Nobody, o[2], o[3]>> \in (Gateways \cup {Nobody}) \X Tags \X TailIds
  BY <1>2
<1>5. puts' \subseteq (Gateways \cup {Nobody}) \X Tags \X TailIds
  BY <1>2, <1>3, <1>4
<1>6. DOMAIN gc' = Gateways /\ \A k \in Gateways : IsCollector(gc'[k])
  BY StopsFacts
<1>7. TailTypeOK'
  BY <1>5, <1>6 DEF TailInv, TailTypeOK
<1>8. \A p \in puts' : \E o \in puts : p[2] = o[2] /\ p[3] = o[3]
  BY <1>3
<1>9. NoNewDrops
  BY <1>8, DropsFromQueue
<1> QED
  BY <1>7, <1>9, CalmStep

\* A put of a reference arrives (cls_refcount.cc: put).
LEMMA PutArrivesStep ==
    ASSUME TailInv, NEW p \in puts, PutArrives(p)
    PROVE  TailInv'
<1>1. UNCHANGED <<heads, req>> /\ UNCHANGED queue /\ UNCHANGED gc /\ puts' = puts \ {p}
  BY DEF PutArrives, Steady
<1>2. puts \subseteq (Gateways \cup {Nobody}) \X Tags \X TailIds
      /\ tails \in [TailIds -> TailStates]
  BY DEF TailInv, TailTypeOK
<1>3. PICK x \in Tags, t \in TailIds : p[2] = x /\ p[3] = t
  BY <1>2
<1>4. Pending(t, x)
  BY <1>3 DEF Pending
<1>5. MayDrop(t, x)
  BY <1>4 DEF TailInv, DropInv
<1>6. PICK nobody : nobody = Wildcard /\ nobody \notin Requests
  BY NobodysTag
<1>7. Expendable(x, nobody)
  BY <1>4, PendingExpendable
<1>8. tails' = [tails EXCEPT ![t] = refcount_put(tails[t], x)]
  BY <1>2, <1>3 DEF PutArrives
<1>9. tails' \in [TailIds -> TailStates] /\ KeepsRefs(x, {}) /\ KeepsDrops({})
  BY <1>2, <1>5, <1>8, TailsPut
<1>10. TailTypeOK'
  BY <1>1, <1>2, <1>9 DEF TailInv, TailTypeOK
<1>11. NoNewDrops
  BY <1>1, DropsFromQueue
<1> QED
  BY <1>1, <1>6, <1>7, <1>9, <1>10, <1>11, CollectorInv

-----------------------------------------------------------------------------
(* Init, Next and the theorem.                                             *)

\* A request that has not started holds nothing.
LEMMA NotStartedFacts ==
    /\ NotStarted \in ReqStates /\ NotStarted.pc = "new" /\ NotStarted.kind = "none"
    /\ NotStarted.tails = {} /\ NotStarted.held = {} /\ NotStarted.seen = NoHead
<1>1. PICK none \in SUBSET TailIds : none = {}
  OBVIOUS
<1>2. PICK h \in HeadStates : h = NoHead
  BY NamesFacts
<1>3. NotStarted = [pc |-> "new", kind |-> "none", dst |-> FirstName,
                    tails |-> none, held |-> none, seen |-> h]
  BY <1>1, <1>2 DEF NotStarted
<1>4. /\ NotStarted \in ReqStates /\ NotStarted.pc = "new" /\ NotStarted.kind = "none"
      /\ NotStarted.tails = none /\ NotStarted.held = none /\ NotStarted.seen = h
  BY <1>3, NamesFacts DEF ReqStates
<1> QED
  BY <1>1, <1>2, <1>4

\* The head a request writes.
LEMMA HeadWithFacts ==
    ASSUME NEW tag \in Tags, NEW S \in SUBSET TailIds, S # {}
    PROVE  \E h \in HeadStates : /\ h = HeadWith(tag, tag, S)
                                 /\ h.tag = tag /\ h.tail_tag = tag /\ h.tails = S
<1>1. PICK h : h = HeadWith(tag, tag, S)
  OBVIOUS
<1>2. h \in HeadStates /\ h.tag = tag /\ h.tail_tag = tag /\ h.tails = S
  BY <1>1 DEF HeadWith, HeadStates
<1> QED
  BY <1>1, <1>2

\* At the start there is one object; its copy may be there, or waiting for collection.
LEMMA FirstObjects ==
    ASSUME Init
    PROVE  /\ heads \in [Names -> HeadStates] /\ tails \in [TailIds -> TailStates]
           /\ \A n \in Names : heads[n] # NoHead =>
                /\ heads[n].tails = FirstManifest
                /\ heads[n].tag = heads[n].tail_tag
                /\ \/ n = FirstName /\ heads[n].tail_tag = FirstTag
                   \/ n = CopyName /\ n # FirstName /\ heads[n].tail_tag = CopyTag
           /\ NoDataLoss
           /\ queue \in Seq(Entries)
           /\ \A i \in DOMAIN queue :
                /\ queue[i].tag = CopyTag /\ queue[i].tails = FirstManifest
                /\ \A n \in Names : heads[n].tail_tag # CopyTag
                /\ \A t \in FirstManifest : CopyTag \in tails[t].refs
           /\ heads[FirstName].tail_tag = FirstTag /\ heads[FirstName].tails = FirstManifest
           /\ \A t \in TailIds :
                /\ tails[t].retired = {} /\ tails[t].refs \subseteq {Wildcard, CopyTag}
                /\ tails[t].refs # {} => Creator(t) = FirstTag
                /\ CopyTag \in tails[t].refs =>
                      \/ heads[CopyName].tail_tag = CopyTag /\ heads[CopyName].tails = FirstManifest
                      \/ DOMAIN queue # {}
<1>1. PICK copy \in {"none", "there", "deleted"} :
        /\ heads = [n \in Names |->
               IF n = FirstName THEN HeadWith(FirstTag, FirstTag, FirstManifest)
               ELSE IF n = CopyName /\ copy = "there"
                    THEN HeadWith(CopyTag, CopyTag, FirstManifest)
               ELSE NoHead]
        /\ tails = [t \in TailIds |->
               IF Creator(t) # FirstTag THEN Gone
               ELSE IF copy = "none" THEN Fresh
               ELSE [refs |-> {Wildcard, CopyTag}, retired |-> {}]]
        /\ queue = IF copy = "deleted" THEN <<[tag |-> CopyTag, tails |-> FirstManifest]>>
                   ELSE <<>>
  BY DEF Init
<1>2. PICK a : /\ a = HeadWith(FirstTag, FirstTag, FirstManifest)
               /\ a \in HeadStates /\ a.tag = FirstTag /\ a.tail_tag = FirstTag
               /\ a.tails = FirstManifest
  BY TagFacts, TailIdFacts, HeadWithFacts
<1>3. PICK b : /\ b = HeadWith(CopyTag, CopyTag, FirstManifest)
               /\ b \in HeadStates /\ b.tag = CopyTag /\ b.tail_tag = CopyTag
               /\ b.tails = FirstManifest
  BY TagFacts, TailIdFacts, HeadWithFacts
<1>4. \A n \in Names : heads[n] = IF n = FirstName THEN a
                                  ELSE IF n = CopyName /\ copy = "there" THEN b ELSE NoHead
  BY <1>1, <1>2, <1>3
<1>5. heads \in [Names -> HeadStates]
  <2>1. DOMAIN heads = Names /\ heads = [n \in Names |-> heads[n]]
    BY <1>1
  <2>2. \A n \in Names : heads[n] \in HeadStates
    BY <1>2, <1>3, <1>4, NamesFacts
  <2> QED
    BY <2>1, <2>2
<1>6. PICK none \in SUBSET (Tags \cup {Wildcard}) : none = {}
  OBVIOUS
<1>7. PICK nil \in SUBSET Tags : nil = {}
  OBVIOUS
<1>8. PICK wild \in SUBSET (Tags \cup {Wildcard}) : wild = {Wildcard}
  OBVIOUS
<1>9. PICK both \in SUBSET (Tags \cup {Wildcard}) : both = {Wildcard, CopyTag}
  BY TagFacts
<1>10. PICK gone : gone = Gone /\ gone = [refs |-> none, retired |-> nil]
  BY <1>6, <1>7 DEF Gone
<1>11. PICK fresh : fresh = Fresh /\ fresh = [refs |-> wild, retired |-> nil]
  BY <1>7, <1>8 DEF Fresh
<1>12. PICK shared : /\ shared = [refs |-> {Wildcard, CopyTag}, retired |-> {}]
                     /\ shared = [refs |-> both, retired |-> nil]
  BY <1>7, <1>9
<1>13. /\ gone \in TailStates /\ fresh \in TailStates /\ shared \in TailStates
       /\ fresh.refs = wild /\ shared.refs = both /\ gone.refs = none
       /\ gone.retired = nil /\ fresh.retired = nil /\ shared.retired = nil
  BY <1>10, <1>11, <1>12 DEF TailStates
<1>14. \A t \in TailIds : tails[t] = IF Creator(t) # FirstTag THEN gone
                                     ELSE IF copy = "none" THEN fresh ELSE shared
  BY <1>1, <1>10, <1>11, <1>12
<1>15. tails \in [TailIds -> TailStates]
  <2>1. DOMAIN tails = TailIds /\ tails = [t \in TailIds |-> tails[t]]
    BY <1>1
  <2>2. \A t \in TailIds : tails[t] \in TailStates
    BY <1>13, <1>14
  <2> QED
    BY <2>1, <2>2
<1>16. ASSUME NEW n \in Names, heads[n] # NoHead
       PROVE  /\ heads[n].tails = FirstManifest
              /\ heads[n].tag = heads[n].tail_tag
              /\ \/ n = FirstName /\ heads[n].tail_tag = FirstTag
                 \/ copy = "there" /\ n = CopyName /\ n # FirstName /\ heads[n].tail_tag = CopyTag
  BY <1>2, <1>3, <1>4, <1>16
<1>17. NoDataLoss
  <2> SUFFICES ASSUME NEW n \in Names, heads[n] # NoHead, NEW t \in heads[n].tails
               PROVE  References(t, heads[n].tail_tag)
    BY DEF NoDataLoss
  <2>1. t \in TailIds /\ Creator(t) = FirstTag
    BY <1>16, TailIdFacts
  <2>2. tails[t] = IF copy = "none" THEN fresh ELSE shared
    BY <1>14, <2>1
  <2>3. Wildcard \in tails[t].refs /\ (copy # "none" => CopyTag \in tails[t].refs)
    BY <1>8, <1>9, <1>13, <2>2
  <2> QED
    BY <1>16, <2>1, <2>3 DEF References
<1>18. /\ heads[FirstName].tail_tag = FirstTag /\ heads[FirstName].tails = FirstManifest
       /\ copy = "there" => heads[CopyName].tail_tag = CopyTag /\ heads[CopyName].tails = FirstManifest
  BY <1>2, <1>3, <1>4, NamesFacts
<1>19. \A t \in TailIds : /\ tails[t].retired = {} /\ tails[t].refs \subseteq {Wildcard, CopyTag}
                          /\ tails[t].refs # {} => Creator(t) = FirstTag
                          /\ CopyTag \in tails[t].refs => copy # "none"
  <2> SUFFICES ASSUME NEW t \in TailIds
               PROVE  /\ tails[t].retired = {} /\ tails[t].refs \subseteq {Wildcard, CopyTag}
                      /\ tails[t].refs # {} => Creator(t) = FirstTag
                      /\ CopyTag \in tails[t].refs => copy # "none"
    OBVIOUS
  <2>1. CASE tails[t] = gone /\ Creator(t) # FirstTag
    BY <1>6, <1>7, <1>13, <2>1
  <2>2. CASE tails[t] = fresh /\ Creator(t) = FirstTag
    BY <1>7, <1>8, <1>13, <2>2, TagFacts
  <2>3. CASE tails[t] = shared /\ Creator(t) = FirstTag /\ copy # "none"
    BY <1>7, <1>9, <1>13, <2>3
  <2> QED
    BY <1>14, <2>1, <2>2, <2>3
<1>20. /\ queue \in Seq(Entries) /\ (copy = "deleted" => DOMAIN queue # {})
       /\ \A i \in DOMAIN queue :
            /\ queue[i].tag = CopyTag /\ queue[i].tails = FirstManifest /\ copy = "deleted"
  <2>1. CASE copy = "deleted"
    <3>1. PICK e : e = [tag |-> CopyTag, tails |-> FirstManifest] /\ queue = <<e>>
      BY <1>1, <2>1
    <3>2. e \in Entries /\ e.tag = CopyTag /\ e.tails = FirstManifest
      BY <3>1, TagFacts, TailIdFacts DEF Entries
    <3>3. queue \in Seq(Entries) /\ DOMAIN queue # {} /\ \A i \in DOMAIN queue : queue[i] = e
      BY <3>1, <3>2
    <3> QED
      BY <2>1, <3>2, <3>3
  <2>2. CASE copy # "deleted"
    <3>1. queue = <<>>
      BY <1>1, <2>2
    <3>2. queue \in Seq(Entries) /\ DOMAIN queue = {}
      BY <3>1
    <3> QED
      BY <2>2, <3>2
  <2> QED
    BY <2>1, <2>2
<1>21. copy = "deleted" => /\ \A n \in Names : heads[n].tail_tag # CopyTag
                          /\ \A t \in FirstManifest : CopyTag \in tails[t].refs
  <2>1. NoHead.tail_tag # CopyTag
    BY NamesFacts, HeadFacts, TagFacts DEF Wildcard
  <2>2. copy = "deleted" => \A n \in Names : heads[n].tail_tag # CopyTag
    BY <1>2, <1>4, <2>1, TagFacts
  <2>3. copy = "deleted" => \A t \in FirstManifest : CopyTag \in tails[t].refs
    BY <1>9, <1>13, <1>14, TailIdFacts
  <2> QED
    BY <2>2, <2>3
<1>22. \A t \in TailIds : CopyTag \in tails[t].refs =>
           \/ heads[CopyName].tail_tag = CopyTag /\ heads[CopyName].tails = FirstManifest
           \/ DOMAIN queue # {}
  BY <1>18, <1>19, <1>20
<1> QED
  BY <1>5, <1>15, <1>16, <1>17, <1>18, <1>19, <1>20, <1>21, <1>22

\* The object at first, and its copy if there is one, hold their tails.
LEMMA InitTail == Init => TailInv
<1> SUFFICES ASSUME Init
             PROVE  TailInv
  OBVIOUS
<1>1. /\ req = [r \in Requests |-> NotStarted] /\ puts = {}
      /\ gc = [g \in Gateways |-> Resting]
  BY DEF Init
<1>2. TailTypeOK
  <2>1. req \in [Requests -> ReqStates]
    BY <1>1, NotStartedFacts
  <2>2. DOMAIN gc = Gateways /\ \A g \in Gateways : IsCollector(gc[g])
    BY <1>1, RestingFacts
  <2>4. puts \subseteq (Gateways \cup {Nobody}) \X Tags \X TailIds
    BY <1>1
  <2> QED
    BY <2>1, <2>2, <2>4, FirstObjects DEF TailTypeOK
<1>3. \A r \in Requests : /\ req[r].pc = "new" /\ req[r].kind = "none" /\ req[r].tails = {}
                          /\ req[r].held = {} /\ req[r].seen = NoHead
  BY <1>1, NotStartedFacts
<1>4. \A r \in Requests : ReqOK(r, req[r])
  BY <1>3 DEF ReqOK
<1>5. \A t, tag : Pending(t, tag) =>
          /\ tag = CopyTag /\ t \in FirstManifest /\ CopyTag \in tails[t].refs
          /\ \A n \in Names : heads[n].tail_tag # CopyTag
  <2>2. \A r \in Requests : ToDrop(req[r]) = {}
    BY <1>3 DEF ToDrop
  <2> QED
    BY <1>1, <2>2, FirstObjects DEF Pending
<1>6. UnpublishedInv
  <2> SUFFICES ASSUME NEW r \in Requests
               PROVE  /\ \A n \in Names : NotOf(r, heads[n])
                      /\ NotOf(r, NoHead)
                      /\ \A t \in FirstManifest : CopyTag # r /\ t # <<r, 1>>
    BY <1>3, <1>5 DEF UnpublishedInv
  <2>1. r # 0 /\ r # FirstTag /\ r # CopyTag
    BY TailConstants DEF FirstTag, CopyTag
  <2>2. NotOf(r, NoHead)
    BY <2>1 DEF NotOf, NoHead
  <2>3. <<r, 1>> \notin FirstManifest
    BY <2>1 DEF FirstManifest
  <2>4. ASSUME NEW n \in Names, heads[n] # NoHead
        PROVE  NotOf(r, heads[n])
    BY <2>1, <2>3, <2>4, FirstObjects DEF NotOf
  <2> QED
    BY <2>1, <2>2, <2>3, <2>4
<1>7. LiveInv
  <2> SUFFICES ASSUME NEW n \in Names, heads[n] # NoHead, NEW k \in Names,
                      heads[k].tail_tag = heads[n].tail_tag
               PROVE  k = n
    BY <1>5 DEF LiveInv
  <2>1. heads[k] # NoHead
    BY <1>2, HeadFacts, TagFacts DEF TailTypeOK, Wildcard
  <2> QED
    BY <2>1, FirstObjects, TagFacts
<1>8. SeenInv /\ KeptInv /\ DropInv
  BY <1>3, <1>5 DEF SeenInv, KeptInv, DropInv, Keeps, MayDrop
<1> QED
  BY <1>2, <1>4, <1>6, <1>7, <1>8, FirstObjects DEF TailInv

\* Every step keeps the invariant.
LEMMA NextTail == TailInv /\ [Next]_vars => TailInv'
<1> SUFFICES ASSUME TailInv, [Next]_vars
             PROVE  TailInv'
  OBVIOUS
<1>1. CASE UNCHANGED vars
  <2>1. UNCHANGED <<heads, req>> /\ UNCHANGED tails /\ UNCHANGED <<queue, puts>> /\ UNCHANGED gc
    BY <1>1 DEF vars
  <2>2. DOMAIN gc' = Gateways /\ \A g \in Gateways : IsCollector(gc'[g])
    BY <2>1 DEF TailInv, TailTypeOK
  <2> QED
    BY <2>1, <2>2, SameQueue
<1>2. ASSUME NEW r \in Requests, NEW n \in Names, PutObj(r, n)
      PROVE  TailInv'
  BY <1>2, PutObjStep
<1>3. ASSUME NEW r \in Requests, NEW n \in Names, DeleteObj(r, n)
      PROVE  TailInv'
  BY <1>3, DeleteObjStep
<1>4. ASSUME NEW r \in Requests, NEW n \in Names, NEW m \in Names, CopyObj(r, n, m)
      PROVE  TailInv'
  BY <1>4, CopyObjStep
<1>5. ASSUME NEW r \in Requests,
             GetReference(r) \/ CreateHead(r) \/ ReadState(r) \/ WriteHead(r) \/ LoseRace(r)
      PROVE  TailInv'
  BY <1>5, GetReferenceStep, CreateHeadStep, ReadStateStep, WriteHeadStep, LoseRaceStep
<1>6. ASSUME NEW r \in Requests,
             \/ FailRequest(r) \/ Undo(r) \/ FailUndo(r) \/ SendChain(r) \/ FailChain(r)
             \/ DeleteInline(r) \/ FailInline(r) \/ CrashRequest(r)
      PROVE  TailInv'
  BY <1>6, FailRequestStep, UndoStep, SendChainStep, FailChainStep, DeleteInlineStep,
     FailedReleaseStep, CrashRequestStep
<1>7. ASSUME NEW g \in Gateways, GcLock(g) \/ GcList(g) \/ GcRemove(g)
      PROVE  TailInv'
  BY <1>7, GcLockStep, GcListStep, GcRemoveStep
<1>8. ASSUME NEW g \in Gateways, GcStop(g) \/ GcCrash(g)
      PROVE  TailInv'
  <2>1. /\ Abandoned(g) /\ gc' = [gc EXCEPT ![g] = Resting]
        /\ UNCHANGED <<heads, req>> /\ UNCHANGED tails /\ UNCHANGED queue
    BY <1>8 DEF GcStop, GcCrash, Stops, store
  <2> QED
    BY <2>1, AbandonedStep
<1>9. ASSUME NEW p \in puts, PutArrives(p)
      PROVE  TailInv'
  BY <1>9, PutArrivesStep
<1>10. CASE Expire \/ LockLapses
  BY <1>10, ExpireStep, LockLapsesStep
<1> QED
  BY <1>1, <1>2, <1>3, <1>4, <1>5, <1>6, <1>7, <1>8, <1>9, <1>10 DEF Next

\* However many requests write, copy, overwrite and delete the same names at once, crash
\* or lose their races, and whatever the collectors of however many gateways repeat, lose
\* or deliver late: every object keeps every tail object it names, with a reference of
\* its own (cls_refcount.cc:123, rgw_rados.cc copy_obj and complete_atomic_modification).
THEOREM TailNoDataLoss == Spec => []NoDataLoss
<1>1. TailInv => NoDataLoss
  BY DEF TailInv
<1> QED
  BY InitTail, NextTail, <1>1, PTL DEF Spec

-----------------------------------------------------------------------------
(* What is left behind: the parts of the invariant.                        *)

\* A tail object of creator c with state o is referenced by x.
Refs(o, c, x) == x \in o.refs \/ (c = x /\ Wildcard \in o.refs)

\* Its creator has the implicit reference only, and a tag that was put has none.
RefsOK(o, c) == c \notin o.refs /\ \A x \in o.retired : ~Refs(o, c, x)
RefsInv == \A t \in TailIds : RefsOK(tails[t], Creator(t))

\* A request that still takes references has put none.
Early(q) == q.pc \in {"new", "get", "create", "read", "write"}
FreshInv == \A r \in Requests : Early(req[r]) => \A t \in TailIds : r \notin tails[t].retired

\* A deletion and a copy onto itself hold nothing.
HoldsNone(q) == q.pc = "write" /\ q.kind \in {"self", "delete"} => q.held = {}
StoreInv == RefsInv /\ FreshInv /\ \A r \in Requests : HoldsNone(req[r])

\* Somebody will still drop the reference of tag to t: as Owned, but by name of t.
Holding(q) == q.pc \in {"get", "create", "read", "write", "undo"}
Owner(t, tag) ==
    \/ \E n \in Names : heads[n].tail_tag = tag /\ t \in heads[n].tails
    \/ \E i \in DOMAIN queue : queue[i].tag = tag /\ t \in queue[i].tails
    \/ tag \in Requests /\ Holding(req[tag]) /\ t \in req[tag].held
    \/ \E r \in Requests : req[r].seen.tail_tag = tag /\ t \in ToDrop(req[r])

OwnerInv ==
    \A t \in TailIds, tag \in Tags : References(t, tag) => <<t, tag>> \in excused \/ Owner(t, tag)

FaultStates == [failures : Nat, crashes : Nat, lapses : Nat]

\* The positions in the queue are numbers.
CountersOK ==
    /\ removed \in Nat /\ expired \in Nat /\ faults \in FaultStates
    /\ \A g \in Gateways : gc[g].marker \in Nat

\* As long as no lease lapses under a collector, it works alone.
LockInv == faults.lapses = 0 => \A g \in Gateways : gc[g].pc # "idle" => lock = g

\* What a collector has listed is in the queue, or was removed after a lapse, and each
\* reference of it is gone or its put is on its way.
Listed(c, k) == c.first < removed + k /\ removed + k <= c.first + c.count
WorkInv ==
    \A g \in Gateways : gc[g].pc = "work" =>
        /\ gc[g].first \in Nat /\ gc[g].count \in Nat
        /\ gc[g].first + gc[g].count <= removed + Len(queue)
        /\ faults.lapses = 0 => removed <= gc[g].first
        /\ \A k \in DOMAIN queue : Listed(gc[g], k) =>
              \A t \in queue[k].tails :
                  References(t, queue[k].tag) => <<g, queue[k].tag, t>> \in puts

OrphanInv == StoreInv /\ OwnerInv /\ CountersOK /\ LockInv /\ WorkInv

-----------------------------------------------------------------------------
\* cls_rc_refcount_put leaves no reference of the tag, and adds none.
LEMMA PutDrops ==
    ASSUME NEW o \in TailStates, NEW tag \in Tags, NEW c \in Tags, RefsOK(o, c),
           NEW new, new = refcount_put(o, tag)
    PROVE  /\ RefsOK(new, c) /\ ~Refs(new, c, tag)
           /\ \A x \in Tags : Refs(new, c, x) => Refs(o, c, x)
           /\ new.retired \subseteq o.retired \cup {tag}
<1> DEFINE ref == o.refs \cap {IF tag \in o.refs THEN tag ELSE Wildcard}
<1>1. /\ tag \in o.refs => ref = {tag}
      /\ tag \notin o.refs => ref = o.refs \cap {Wildcard}
  OBVIOUS
<1>2. new = IF ref = {} \/ tag \in o.retired THEN o
            ELSE IF o.refs = ref THEN Gone
            ELSE [refs |-> o.refs \ ref, retired |-> o.retired \cup {tag}]
  BY DEF refcount_put
<1> HIDE DEF ref
<1>3. o.refs \in SUBSET (Tags \cup {Wildcard}) /\ o.retired \in SUBSET Tags /\ tag # Wildcard
      /\ Wildcard \notin Tags /\ c # Wildcard
  BY TagFacts DEF TailStates
<1>4. CASE ref = {} \/ tag \in o.retired
  <2>1. new = o
    BY <1>2, <1>4
  <2>2. ~Refs(o, c, tag)
    BY <1>1, <1>4 DEF RefsOK, Refs
  <2> QED
    BY <2>1, <2>2
<1>5. CASE ~(ref = {} \/ tag \in o.retired) /\ o.refs = ref
  <2>1. PICK none : none = {}
    OBVIOUS
  <2>2. new = [refs |-> none, retired |-> none]
    BY <1>2, <1>5, <2>1 DEF Gone
  <2>3. new.refs = {} /\ new.retired = {}
    BY <2>1, <2>2
  <2> QED
    BY <2>3 DEF RefsOK, Refs
<1>6. CASE ~(ref = {} \/ tag \in o.retired) /\ o.refs # ref
  <2>1. PICK A : A = o.refs \ ref
    OBVIOUS
  <2>2. PICK B : B = o.retired \cup {tag}
    OBVIOUS
  <2>3. new = [refs |-> A, retired |-> B]
    BY <1>2, <1>6, <2>1, <2>2
  <2>4. new.refs = A /\ new.retired = B
    BY <2>3
  <2>5. ~Refs(new, c, tag)
    BY <1>1, <1>3, <1>6, <2>1, <2>4 DEF Refs, RefsOK
  <2>6. \A x : Refs(new, c, x) => Refs(o, c, x)
    BY <2>1, <2>4 DEF Refs
  <2>7. RefsOK(new, c)
    BY <2>1, <2>2, <2>4, <2>5, <2>6 DEF RefsOK
  <2> QED
    BY <2>2, <2>4, <2>5, <2>6, <2>7
<1> QED
  BY <1>4, <1>5, <1>6

\* No reference is new.
NoNewRefs == \A t \in TailIds, x \in Tags : References(t, x)' => References(t, x)

\* A put of tag at t, in a step after which nobody with that tag takes references.
LEMMA PutStore ==
    ASSUME tails \in [TailIds -> TailStates], RefsInv, FreshInv,
           NEW t \in TailIds, NEW tag \in Tags,
           tails' = [tails EXCEPT ![t] = refcount_put(tails[t], tag)],
           \A s \in Requests : Early(req'[s]) => Early(req[s]) /\ s # tag
    PROVE  RefsInv' /\ FreshInv' /\ NoNewRefs /\ ~References(t, tag)'
<1>1. PICK o \in TailStates : o = tails[t]
  OBVIOUS
<1>2. PICK new : new = refcount_put(o, tag)
  OBVIOUS
<1>3. PICK c \in Tags : c = Creator(t)
  BY TailIdFacts
<1>4. RefsOK(o, c)
  BY <1>1, <1>3 DEF RefsInv
<1>5. /\ RefsOK(new, c) /\ ~Refs(new, c, tag)
      /\ \A x \in Tags : Refs(new, c, x) => Refs(o, c, x)
      /\ new.retired \subseteq o.retired \cup {tag}
  BY <1>2, <1>4, PutDrops
<1>6. tails'[t] = new /\ \A u \in TailIds : u # t => tails'[u] = tails[u]
  BY <1>1, <1>2
<1>7. RefsInv'
  <2> SUFFICES ASSUME NEW u \in TailIds
               PROVE  RefsOK(tails'[u], Creator(u))
    BY DEF RefsInv, RefsOK, Refs
  <2> QED
    BY <1>3, <1>5, <1>6 DEF RefsInv
<1>8. FreshInv'
  <2> SUFFICES ASSUME NEW s \in Requests, Early(req'[s]), NEW u \in TailIds
               PROVE  s \notin tails'[u].retired
    BY DEF FreshInv, Early
  <2> QED
    BY <1>1, <1>5, <1>6 DEF FreshInv
<1>9. NoNewRefs
  <2> SUFFICES ASSUME NEW u \in TailIds, NEW x \in Tags, References(u, x)'
               PROVE  References(u, x)
    BY DEF NoNewRefs
  <2>1. Refs(tails'[u], Creator(u), x)
    BY DEF References, Refs
  <2>2. Refs(tails[u], Creator(u), x)
    BY <1>1, <1>3, <1>5, <1>6, <2>1
  <2> QED
    BY <2>2 DEF References, Refs
<1>10. ~References(t, tag)'
  BY <1>3, <1>5, <1>6 DEF References, Refs
<1> QED
  BY <1>7, <1>8, <1>9, <1>10

\* Steps that leave the counters of the collectors alone, add nothing to what the queue
\* holds but at its end, and no reference to what it holds.
LEMMA CollectorsKept ==
    ASSUME queue \in Seq(Entries), queue' \in Seq(Entries), CountersOK, LockInv, WorkInv,
           UNCHANGED <<removed, expired, gc, lock>>,
           faults' \in FaultStates, faults'.lapses = faults.lapses,
           Len(queue) <= Len(queue'), \A k \in DOMAIN queue : queue'[k] = queue[k],
           \A k \in DOMAIN queue : \A t \in queue[k].tails :
               /\ References(t, queue[k].tag)' => References(t, queue[k].tag)
               /\ \A g \in Gateways : <<g, queue[k].tag, t>> \in puts =>
                     <<g, queue[k].tag, t>> \in puts' \/ ~References(t, queue[k].tag)'
    PROVE  CountersOK' /\ LockInv' /\ WorkInv'
<1>1. CountersOK' /\ LockInv'
  BY DEF CountersOK, LockInv
<1>2. WorkInv'
  <2> SUFFICES ASSUME NEW g \in Gateways, gc[g].pc = "work"
               PROVE  /\ gc[g].first \in Nat /\ gc[g].count \in Nat
                      /\ gc[g].first + gc[g].count <= removed + Len(queue')
                      /\ faults'.lapses = 0 => removed <= gc[g].first
                      /\ \A k \in DOMAIN queue' : Listed(gc[g], k) =>
                            \A t \in queue'[k].tails :
                                Refs(tails'[t], Creator(t), queue'[k].tag)
                                    => <<g, queue'[k].tag, t>> \in puts'
    BY DEF WorkInv, Listed, References, Refs
  <2>1. PICK f \in Nat, n \in Nat, m \in Nat, l \in Nat, k2 \in Nat :
            /\ f = gc[g].first /\ n = gc[g].count /\ m = removed /\ l = Len(queue)
            /\ k2 = Len(queue')
    <3>1. gc[g].first \in Nat /\ gc[g].count \in Nat /\ removed \in Nat
      BY DEF WorkInv, CountersOK
    <3>2. Len(queue) \in Nat /\ Len(queue') \in Nat
      OBVIOUS
    <3> QED
      BY <3>1, <3>2
  <2>2. f + n <= m + l /\ l <= k2 /\ DOMAIN queue = 1..l /\ DOMAIN queue' = 1..k2
    BY <2>1 DEF WorkInv
  <2>3. f + n <= m + k2
    BY <2>1, <2>2
  <2>4. \A k \in 1..k2 : f < m + k /\ m + k <= f + n => k \in 1..l
    BY <2>1, <2>2
  <2>5. ASSUME NEW k \in DOMAIN queue', Listed(gc[g], k), NEW t \in queue'[k].tails,
               Refs(tails'[t], Creator(t), queue'[k].tag)
        PROVE  <<g, queue'[k].tag, t>> \in puts'
    <3>1. k \in DOMAIN queue
      BY <2>1, <2>2, <2>4, <2>5 DEF Listed
    <3>2. PICK e : e = queue[k] /\ e = queue'[k]
      BY <3>1
    <3>3. t \in queue[k].tails /\ References(t, queue[k].tag)'
      BY <2>5, <3>2 DEF References, Refs
    <3>4. References(t, queue[k].tag)
      BY <3>1, <3>3
    <3>5. <<g, queue[k].tag, t>> \in puts
      BY <2>5, <3>1, <3>3, <3>4 DEF WorkInv
    <3>6. <<g, queue[k].tag, t>> \in puts'
      BY <3>1, <3>3, <3>5
    <3> QED
      BY <3>2, <3>6
  <2>6. faults'.lapses = 0 => removed <= gc[g].first
    BY DEF WorkInv
  <2> QED
    BY <2>1, <2>3, <2>5, <2>6
<1> QED
  BY <1>1, <1>2

\* What request r gives up as an owner when its state becomes q.
Loses(r, q, t, x) ==
    \/ x = r /\ Holding(req[r]) /\ t \in req[r].held /\ ~(Holding(q) /\ t \in q.held)
    \/ /\ x = req[r].seen.tail_tag /\ t \in ToDrop(req[r])
       /\ ~(x = q.seen.tail_tag /\ t \in ToDrop(q))

\* Owners are lost by what the request gives up and by the head that is replaced only.
LEMMA OwnerMoves ==
    ASSUME req \in [Requests -> ReqStates], NEW r \in Requests, NEW q, req' = [req EXCEPT ![r] = q],
           NEW d \in Names, \A n \in Names : n # d => heads'[n] = heads[n],
           \A i \in DOMAIN queue : i \in DOMAIN queue' /\ queue'[i] = queue[i],
           NEW t, NEW x, Owner(t, x)
    PROVE  \/ Owner(t, x)' \/ Loses(r, q, t, x)
           \/ x = heads[d].tail_tag /\ t \in heads[d].tails
<1>1. req'[r] = q /\ \A s \in Requests : s # r => req'[s] = req[s]
  OBVIOUS
<1>2. \/ \E n \in Names : heads'[n].tail_tag = x /\ t \in heads'[n].tails
      \/ \E i \in DOMAIN queue' : queue'[i].tag = x /\ t \in queue'[i].tails
      \/ x \in Requests /\ Holding(req'[x]) /\ t \in req'[x].held
      \/ \E s \in Requests : req'[s].seen.tail_tag = x /\ t \in ToDrop(req'[s])
      => Owner(t, x)'
  BY DEF Owner, Holding, ToDrop
<1>3. CASE \E n \in Names : heads[n].tail_tag = x /\ t \in heads[n].tails
  BY <1>2, <1>3
<1>4. CASE \E i \in DOMAIN queue : queue[i].tag = x /\ t \in queue[i].tails
  <2>1. PICK i \in DOMAIN queue : queue[i].tag = x /\ t \in queue[i].tails
    BY <1>4
  <2>2. i \in DOMAIN queue' /\ queue'[i].tag = x /\ t \in queue'[i].tails
    BY <2>1
  <2> QED
    BY <1>2, <2>2
<1>5. CASE x \in Requests /\ Holding(req[x]) /\ t \in req[x].held
  BY <1>1, <1>2, <1>5 DEF Loses
<1>6. CASE \E s \in Requests : req[s].seen.tail_tag = x /\ t \in ToDrop(req[s])
  <2>1. PICK s \in Requests : req[s].seen.tail_tag = x /\ t \in ToDrop(req[s])
    BY <1>6
  <2>2. CASE s # r
    <3>1. req'[s].seen.tail_tag = x /\ t \in ToDrop(req'[s])
      BY <1>1, <2>1, <2>2
    <3> QED
      BY <1>2, <3>1
  <2>3. CASE s = r
    BY <1>1, <1>2, <2>1, <2>3 DEF Loses
  <2> QED
    BY <2>2, <2>3
<1> QED
  BY <1>3, <1>4, <1>5, <1>6 DEF Owner

\* A reference that a request takes is its own, and it holds it.
TakesRefs(r, q) ==
    \A t \in TailIds, x \in Tags : References(t, x)' =>
        References(t, x) \/ (x = r /\ Holding(q) /\ t \in q.held)

\* What r gives up is excused or not referenced any more.
GivesUp(r, q) ==
    \A t \in TailIds, x \in Tags : Loses(r, q, t, x) => <<t, x>> \in excused' \/ ~References(t, x)'

SameLapses == faults' \in FaultStates /\ faults'.lapses = faults.lapses

\* The collectors do not notice the step of a request.
LEMMA RequestCollectors ==
    ASSUME TailInv, OrphanInv, NEW r \in Requests, NEW q, TakesRefs(r, q),
           NoNewRefs \/ Unpublished(req[r]),
           UNCHANGED queue, UNCHANGED puts, UNCHANGED <<removed, expired, gc, lock>>, SameLapses
    PROVE  CountersOK' /\ LockInv' /\ WorkInv'
<1>1. queue \in Seq(Entries)
  BY DEF TailInv, TailTypeOK
<1>2. ASSUME NEW k \in DOMAIN queue, NEW t \in queue[k].tails, References(t, queue[k].tag)'
      PROVE  References(t, queue[k].tag)
  <2>1. queue[k] \in Entries
    BY <1>1
  <2>2. PICK x \in Tags : x = queue[k].tag /\ t \in TailIds
    BY <2>1 DEF Entries
  <2>3. References(t, x)'
    BY <1>2, <2>2 DEF References
  <2>4. Pending(t, x)
    BY <2>2 DEF Pending
  <2>5. Unpublished(req[r]) => x # r
    BY <2>2, <2>4 DEF TailInv, UnpublishedInv
  <2>6. References(t, x)
    BY <2>2, <2>3, <2>5 DEF TakesRefs, NoNewRefs
  <2> QED
    BY <2>2, <2>6
<1>3. \A k \in DOMAIN queue : \A t \in queue[k].tails :
          /\ References(t, queue[k].tag)' => References(t, queue[k].tag)
          /\ \A g \in Gateways : <<g, queue[k].tag, t>> \in puts =>
                <<g, queue[k].tag, t>> \in puts' \/ ~References(t, queue[k].tag)'
  BY <1>2
<1>4. queue' \in Seq(Entries) /\ Len(queue) <= Len(queue') /\ \A k \in DOMAIN queue : queue'[k] = queue[k]
  BY <1>1
<1> QED
  BY <1>1, <1>3, <1>4, CollectorsKept DEF OrphanInv, SameLapses

\* A step of a request that leaves heads and queue alone.
LEMMA RequestOrphans ==
    ASSUME TailInv, OrphanInv, NEW r \in Requests, NEW q, req' = [req EXCEPT ![r] = q],
           UNCHANGED heads, UNCHANGED queue, UNCHANGED puts,
           UNCHANGED <<removed, expired, gc, lock>>, SameLapses, excused \subseteq excused',
           StoreInv', TakesRefs(r, q), GivesUp(r, q), NoNewRefs \/ Unpublished(req[r])
    PROVE  OrphanInv'
<1>1. CountersOK' /\ LockInv' /\ WorkInv'
  BY RequestCollectors
<1>2. req \in [Requests -> ReqStates]
  BY DEF TailInv, TailTypeOK
<1>3. PICK d \in Names : d = FirstName
  BY NamesFacts
<1>4. OwnerInv'
  <2> SUFFICES ASSUME NEW t \in TailIds, NEW x \in Tags, References(t, x)'
               PROVE  <<t, x>> \in excused' \/ Owner(t, x)'
    BY DEF OwnerInv
  <2>1. CASE x = r /\ Holding(q) /\ t \in q.held
    <3>1. req'[r] = q
      BY <1>2
    <3>2. x \in Requests /\ Holding(req'[x]) /\ t \in req'[x].held
      BY <2>1, <3>1
    <3> QED
      BY <3>2 DEF Owner, Holding
  <2>2. CASE References(t, x)
    <3>1. CASE Owner(t, x)
      <4>1. \/ Owner(t, x)' \/ Loses(r, q, t, x)
            \/ x = heads[d].tail_tag /\ t \in heads[d].tails
        BY <1>2, <3>1, OwnerMoves
      <4>2. x = heads[d].tail_tag /\ t \in heads[d].tails => Owner(t, x)'
        BY DEF Owner
      <4> QED
        BY <4>1, <4>2 DEF GivesUp
    <3> QED
      BY <2>2, <3>1 DEF OrphanInv, OwnerInv
  <2> QED
    BY <2>1, <2>2 DEF TakesRefs
<1> QED
  BY <1>1, <1>4 DEF OrphanInv

\* A failure or a crash is no lapse.
LEMMA NoLapse ==
    ASSUME CountersOK, \/ UNCHANGED faults
                       \/ faults' = [faults EXCEPT !.failures = @ + 1]
                       \/ faults' = [faults EXCEPT !.crashes = @ + 1]
    PROVE  SameLapses
<1>1. faults.failures \in Nat /\ faults.crashes \in Nat /\ faults \in FaultStates
  BY DEF CountersOK, FaultStates
<1>2. PICK a \in Nat, b \in Nat : a = faults.failures + 1 /\ b = faults.crashes + 1
  BY <1>1
<1>3. CASE UNCHANGED faults
  BY <1>1, <1>3 DEF SameLapses
<1>4. CASE faults' = [faults EXCEPT !.failures = @ + 1]
  <2>1. faults' = [faults EXCEPT !.failures = a]
    BY <1>1, <1>2, <1>4
  <2> QED
    BY <1>1, <2>1 DEF FaultStates, SameLapses
<1>5. CASE faults' = [faults EXCEPT !.crashes = @ + 1]
  <2>1. faults' = [faults EXCEPT !.crashes = b]
    BY <1>1, <1>2, <1>5
  <2> QED
    BY <1>1, <2>1 DEF FaultStates, SameLapses
<1> QED
  BY <1>3, <1>4, <1>5

\* A step of a request on nothing but its own state.
LEMMA PlainOrphans ==
    ASSUME TailInv, OrphanInv, NEW r \in Requests, NEW q, req' = [req EXCEPT ![r] = q],
           UNCHANGED <<store, collection>>, SameLapses, excused \subseteq excused',
           Early(q) => Early(req[r]), HoldsNone(q), GivesUp(r, q)
    PROVE  OrphanInv'
<1>1. /\ UNCHANGED heads /\ UNCHANGED tails /\ UNCHANGED queue /\ UNCHANGED puts
      /\ UNCHANGED <<removed, expired, gc, lock>>
  BY DEF store, collection
<1>2. req'[r] = q /\ \A s \in Requests : s # r => req'[s] = req[s]
  BY DEF TailInv, TailTypeOK
<1>3. RefsInv'
  BY <1>1 DEF OrphanInv, StoreInv, RefsInv, RefsOK, Refs
<1>4. FreshInv'
  <2> SUFFICES ASSUME NEW s \in Requests, Early(req'[s]), NEW t \in TailIds
               PROVE  s \notin tails[t].retired
    BY <1>1 DEF FreshInv, Early
  <2>1. Early(req[s])
    BY <1>2
  <2> QED
    BY <2>1 DEF OrphanInv, StoreInv, FreshInv
<1>5. \A s \in Requests : HoldsNone(req'[s])
  BY <1>2 DEF OrphanInv, StoreInv
<1>6. StoreInv'
  BY <1>3, <1>4, <1>5 DEF StoreInv, HoldsNone
<1>7. TakesRefs(r, q) /\ NoNewRefs
  BY <1>1 DEF TakesRefs, NoNewRefs, References
<1> QED
  BY <1>1, <1>6, <1>7, RequestOrphans

\* A request that has ended, or that goes on to another place.
LEMMA EndsAs ==
    ASSUME NEW r \in Requests, Ends(r)
    PROVE  \E q \in ReqStates : /\ req' = [req EXCEPT ![r] = q] /\ q.pc = "done"
                                /\ ToDrop(q) = {} /\ ~Holding(q) /\ HoldsNone(q) /\ ~Early(q)
<1>1. PICK q \in ReqStates : q = Finished
  BY FinishedFacts
<1>2. q.pc = "done"
  BY <1>1, FinishedFacts
<1> QED
  BY <1>1, <1>2 DEF Ends, ToDrop, Holding, HoldsNone, Early

\* Only where the request is changes.
LEMMA GoesAs ==
    ASSUME TailInv, NEW r \in Requests, NEW pc \in {"read", "undo", "chain"}, Goes(r, pc)
    PROVE  \E q \in ReqStates : /\ req' = [req EXCEPT ![r] = q] /\ q.pc = pc
                                /\ q.held = req[r].held /\ q.seen = req[r].seen
<1>1. PICK old \in ReqStates : old = req[r]
  BY DEF TailInv, TailTypeOK
<1>2. PICK q : q = [old EXCEPT !.pc = pc]
  OBVIOUS
<1>3. q \in ReqStates /\ q.pc = pc /\ q.held = old.held /\ q.seen = old.seen
  BY <1>1, <1>2 DEF ReqStates
<1>4. req' = [req EXCEPT ![r] = q]
  BY <1>1, <1>2 DEF Goes, TailInv, TailTypeOK
<1> QED
  BY <1>1, <1>3, <1>4

\* A request ends and what it held or had to drop is excused.
LEMMA EndOrphans ==
    ASSUME TailInv, OrphanInv, NEW r \in Requests, Ends(r), UNCHANGED <<store, collection>>,
           SameLapses, excused \subseteq excused',
           Holding(req[r]) => \A t \in req[r].held : <<t, r>> \in excused',
           \A t \in ToDrop(req[r]) : <<t, req[r].seen.tail_tag>> \in excused'
    PROVE  OrphanInv'
<1>1. PICK q \in ReqStates : /\ req' = [req EXCEPT ![r] = q] /\ q.pc = "done"
                             /\ ToDrop(q) = {} /\ ~Holding(q) /\ HoldsNone(q) /\ ~Early(q)
  BY EndsAs
<1>2. GivesUp(r, q)
  BY DEF GivesUp, Loses
<1> QED
  BY <1>1, <1>2, PlainOrphans

\* A request goes on to read the head again, or to undo what it did.
LEMMA GoOrphans ==
    ASSUME TailInv, OrphanInv, NEW r \in Requests, NEW pc \in {"read", "undo"}, Goes(r, pc),
           UNCHANGED <<store, collection>>, SameLapses, excused \subseteq excused', Early(req[r])
    PROVE  OrphanInv'
<1>1. PICK q \in ReqStates : /\ req' = [req EXCEPT ![r] = q] /\ q.pc = pc
                             /\ q.held = req[r].held /\ q.seen = req[r].seen
  BY GoesAs
<1>2. Holding(q) /\ HoldsNone(q) /\ ToDrop(req[r]) = {}
  BY <1>1 DEF Holding, HoldsNone, Early, ToDrop
<1>3. GivesUp(r, q)
  BY <1>1, <1>2 DEF GivesUp, Loses
<1> QED
  BY <1>1, <1>2, <1>3, PlainOrphans

\* A new request holds nothing.
LEMMA CopyObjOrphans ==
    ASSUME TailInv, OrphanInv, NEW r \in Requests, NEW src \in Names, NEW dst \in Names,
           CopyObj(r, src, dst)
    PROVE  OrphanInv'
<1>1. /\ req[r].pc = "new" /\ UNCHANGED <<store, collection>> /\ UNCHANGED faults
      /\ excused \subseteq excused'
  BY DEF CopyObj, Quiet
<1>2. PICK none : none = {}
  OBVIOUS
<1>3. PICK q : q = [pc |-> IF src = dst THEN "write" ELSE "get",
                    kind |-> IF src = dst THEN "self" ELSE "copy", dst |-> dst,
                    tails |-> heads[src].tails, held |-> none,
                    seen |-> IF src = dst THEN heads[src] ELSE NoHead]
  OBVIOUS
<1>4. q.held = {} /\ req' = [req EXCEPT ![r] = q]
  BY <1>2, <1>3 DEF CopyObj
<1>5. GivesUp(r, q) /\ HoldsNone(q) /\ Early(req[r])
  BY <1>1, <1>4 DEF GivesUp, Loses, Holding, ToDrop, HoldsNone, Early
<1> QED
  BY <1>1, <1>4, <1>5, NoLapse, PlainOrphans DEF OrphanInv

\* A deletion that begins holds nothing.
LEMMA DeleteObjOrphans ==
    ASSUME TailInv, OrphanInv, NEW r \in Requests, NEW n \in Names, DeleteObj(r, n)
    PROVE  OrphanInv'
<1>1. /\ req[r].pc = "new" /\ UNCHANGED <<store, collection>> /\ UNCHANGED faults
      /\ excused \subseteq excused'
  BY DEF DeleteObj, Quiet
<1>2. PICK none : none = {}
  OBVIOUS
<1>3. PICK q : q = [pc |-> "write", kind |-> "delete", dst |-> n,
                    tails |-> none, held |-> none, seen |-> heads[n]]
  OBVIOUS
<1>4. q.held = {} /\ req' = [req EXCEPT ![r] = q]
  BY <1>2, <1>3 DEF DeleteObj
<1>5. GivesUp(r, q) /\ HoldsNone(q) /\ Early(req[r])
  BY <1>1, <1>4 DEF GivesUp, Loses, Holding, ToDrop, HoldsNone, Early
<1> QED
  BY <1>1, <1>4, <1>5, NoLapse, PlainOrphans DEF OrphanInv

\* The second attempt of write_meta reads the head.
LEMMA ReadStateOrphans ==
    ASSUME TailInv, OrphanInv, NEW r \in Requests, ReadState(r)
    PROVE  OrphanInv'
<1>1. /\ req[r].pc = "read" /\ UNCHANGED <<store, collection>> /\ UNCHANGED faults
      /\ excused \subseteq excused'
  BY DEF ReadState, Quiet
<1>2. PICK old \in ReqStates : old = req[r] /\ old.kind \in {"put", "copy"}
  BY <1>1 DEF TailInv, TailTypeOK, ReqOK
<1>3. PICK q : q = [old EXCEPT !.pc = "write", !.seen = heads[old.dst]]
  OBVIOUS
<1>4. q.pc = "write" /\ q.held = old.held /\ q.kind = old.kind
  BY <1>2, <1>3 DEF ReqStates
<1>5. req' = [req EXCEPT ![r] = q]
  BY <1>2, <1>3 DEF ReadState, TailInv, TailTypeOK
<1>6. GivesUp(r, q) /\ HoldsNone(q) /\ Early(req[r])
  BY <1>1, <1>2, <1>4 DEF GivesUp, Loses, Holding, ToDrop, HoldsNone, Early
<1> QED
  BY <1>1, <1>5, <1>6, NoLapse, PlainOrphans DEF OrphanInv

\* A copy that lost a race is excused; a put undoes, the others hold nothing.
LEMMA LoseRaceOrphans ==
    ASSUME TailInv, OrphanInv, NEW r \in Requests, LoseRace(r)
    PROVE  OrphanInv'
<1>1. /\ req[r].pc = "write" /\ UNCHANGED <<store, collection>> /\ UNCHANGED faults
      /\ excused \subseteq excused' /\ (req[r].kind = "copy" => req[r].held \X {r} \subseteq excused')
  BY DEF LoseRace
<1>2. SameLapses /\ Early(req[r]) /\ ToDrop(req[r]) = {}
  BY <1>1, NoLapse DEF OrphanInv, Early, ToDrop
<1>3. req[r].kind \in {"put", "copy", "self", "delete"}
  BY <1>1 DEF TailInv, TailTypeOK, ReqStates, ReqOK
<1>4. CASE req[r].kind = "put"
  BY <1>1, <1>2, <1>4, GoOrphans DEF LoseRace
<1>5. CASE req[r].kind # "put"
  <2>1. Ends(r)
    BY <1>5 DEF LoseRace
  <2>2. \A t \in req[r].held : <<t, r>> \in excused'
    BY <1>1, <1>3, <1>5 DEF OrphanInv, StoreInv, HoldsNone
  <2> QED
    BY <1>1, <1>2, <2>1, <2>2, EndOrphans
<1> QED
  BY <1>4, <1>5

\* A request that fails undoes what it did.
LEMMA FailRequestOrphans ==
    ASSUME TailInv, OrphanInv, NEW r \in Requests, FailRequest(r)
    PROVE  OrphanInv'
<1>1. /\ req[r].pc \in {"get", "create", "read", "write"} /\ UNCHANGED <<store, collection>>
      /\ excused \subseteq excused' /\ faults' = [faults EXCEPT !.failures = @ + 1]
  BY DEF FailRequest
<1>2. SameLapses /\ Early(req[r]) /\ ToDrop(req[r]) = {}
  BY <1>1, NoLapse DEF OrphanInv, Early, ToDrop
<1>3. CASE req[r].kind \in {"put", "copy"} /\ req[r].held # {}
  BY <1>1, <1>2, <1>3, GoOrphans DEF FailRequest
<1>4. CASE ~(req[r].kind \in {"put", "copy"} /\ req[r].held # {})
  <2>1. Ends(r)
    BY <1>4 DEF FailRequest
  <2>2. req[r].kind \notin {"put", "copy"} => req[r].pc = "write" /\ req[r].kind \in {"self", "delete"}
    BY <1>1 DEF TailInv, TailTypeOK, ReqStates, ReqOK
  <2>3. req[r].held = {}
    BY <1>4, <2>2 DEF OrphanInv, StoreInv, HoldsNone
  <2> QED
    BY <1>1, <1>2, <2>1, <2>3, EndOrphans
<1> QED
  BY <1>3, <1>4

\* What a request that dies held is excused.
LEMMA CrashRequestOrphans ==
    ASSUME TailInv, OrphanInv, NEW r \in Requests, CrashRequest(r)
    PROVE  OrphanInv'
<1>1. /\ Ends(r) /\ UNCHANGED <<store, collection>> /\ excused \subseteq excused'
      /\ faults' = [faults EXCEPT !.crashes = @ + 1]
  BY DEF CrashRequest
<1>2. SameLapses
  BY <1>1, NoLapse DEF OrphanInv
<1>3. /\ Holding(req[r]) => \A t \in req[r].held : <<t, r>> \in excused'
      /\ \A t \in ToDrop(req[r]) : <<t, req[r].seen.tail_tag>> \in excused'
  BY DEF CrashRequest, Holding, ToDrop
<1> QED
  BY <1>1, <1>2, <1>3, EndOrphans

\* A request that cannot hand over a tail drops the references itself.
LEMMA FailChainOrphans ==
    ASSUME TailInv, OrphanInv, NEW r \in Requests, FailChain(r)
    PROVE  OrphanInv'
<1>1. /\ req[r].pc = "chain" /\ UNCHANGED <<store, collection>> /\ excused \subseteq excused'
      /\ UNCHANGED faults \/ faults' = [faults EXCEPT !.failures = @ + 1]
  BY DEF FailChain
<1>2. PICK old \in ReqStates : old = req[r]
  BY DEF TailInv, TailTypeOK
<1>3. old.seen.tails \in SUBSET TailIds
  BY HeadFacts DEF ReqStates
<1>4. PICK S \in SUBSET TailIds : S = old.seen.tails
  BY <1>3
<1>5. PICK q : q = [old EXCEPT !.pc = "inline", !.held = S]
  OBVIOUS
<1>6. q.pc = "inline" /\ q.held = S /\ q.seen = old.seen
  BY <1>2, <1>5 DEF ReqStates
<1>7. req' = [req EXCEPT ![r] = q]
  BY <1>2, <1>4, <1>5 DEF FailChain, TailInv, TailTypeOK
<1>8. GivesUp(r, q) /\ HoldsNone(q) /\ ~Early(q)
  BY <1>1, <1>2, <1>4, <1>6 DEF GivesUp, Loses, Holding, ToDrop, HoldsNone, Early
<1>9. SameLapses
  BY <1>1, NoLapse DEF OrphanInv
<1> QED
  BY <1>1, <1>7, <1>8, <1>9, PlainOrphans

\* A new object holds the tail object it has just written.
LEMMA PutObjOrphans ==
    ASSUME TailInv, OrphanInv, NEW r \in Requests, NEW n \in Names, PutObj(r, n)
    PROVE  OrphanInv'
<1>1. /\ req[r].pc = "new" /\ UNCHANGED heads /\ UNCHANGED queue /\ UNCHANGED puts
      /\ UNCHANGED <<removed, expired, gc, lock>> /\ UNCHANGED faults /\ UNCHANGED excused
  BY DEF PutObj, Quiet, collection
<1>2. PICK t \in TailIds : t = <<r, 1>> /\ Creator(t) = r
  BY TailIdFacts
<1>3. PICK S \in SUBSET TailIds : S = {t}
  OBVIOUS
<1>4. PICK h \in HeadStates : h = NoHead
  BY NamesFacts
<1>5. PICK q : q = [pc |-> "create", kind |-> "put", dst |-> n, tails |-> S, held |-> S, seen |-> h]
  OBVIOUS
<1>6. q.pc = "create" /\ q.held = S
  BY <1>5
<1>7. req' = [req EXCEPT ![r] = q]
  BY <1>2, <1>3, <1>4, <1>5 DEF PutObj
<1>8. PICK wild, none : wild = {Wildcard} /\ none = {}
  OBVIOUS
<1>9. PICK o : o = Fresh /\ o = [refs |-> wild, retired |-> none]
  BY <1>8 DEF Fresh
<1>10. o.refs = {Wildcard} /\ o.retired = {}
  BY <1>8, <1>9
<1>11. tails'[t] = o /\ \A u \in TailIds : u # t => tails'[u] = tails[u]
  BY <1>2, <1>9 DEF PutObj, TailInv, TailTypeOK
<1>12. r # Wildcard /\ Wildcard \notin Tags
  BY TagFacts
<1>13. RefsInv'
  <2> SUFFICES ASSUME NEW u \in TailIds
               PROVE  RefsOK(tails'[u], Creator(u))
    BY DEF RefsInv, RefsOK, Refs
  <2> QED
    BY <1>2, <1>10, <1>11, <1>12 DEF OrphanInv, StoreInv, RefsInv, RefsOK
<1>14. req'[r] = q /\ \A s \in Requests : s # r => req'[s] = req[s]
  BY <1>7 DEF TailInv, TailTypeOK
<1>15. FreshInv'
  <2> SUFFICES ASSUME NEW s \in Requests, Early(req'[s]), NEW u \in TailIds
               PROVE  s \notin tails'[u].retired
    BY DEF FreshInv, Early
  <2>1. Early(req[s])
    BY <1>1, <1>14 DEF Early
  <2> QED
    BY <1>10, <1>11, <2>1 DEF OrphanInv, StoreInv, FreshInv
<1>16. \A s \in Requests : HoldsNone(req'[s])
  BY <1>6, <1>14 DEF OrphanInv, StoreInv, HoldsNone
<1>17. StoreInv'
  BY <1>13, <1>15, <1>16 DEF StoreInv, HoldsNone
<1>18. TakesRefs(r, q)
  <2> SUFFICES ASSUME NEW u \in TailIds, NEW x \in Tags, References(u, x)'
               PROVE  References(u, x) \/ (x = r /\ Holding(q) /\ u \in q.held)
    BY DEF TakesRefs
  <2>1. CASE u # t
    BY <1>11, <2>1 DEF References
  <2>2. CASE u = t
    BY <1>2, <1>3, <1>6, <1>10, <1>11, <1>12, <2>2 DEF References, Holding
  <2> QED
    BY <2>1, <2>2
<1>19. GivesUp(r, q) /\ Unpublished(req[r])
  BY <1>1 DEF GivesUp, Loses, Holding, ToDrop, Unpublished
<1>20. SameLapses
  BY <1>1, NoLapse DEF OrphanInv
<1> QED
  BY <1>1, <1>7, <1>17, <1>18, <1>19, <1>20, RequestOrphans

\* A copy holds the reference it has just taken.
LEMMA GetReferenceOrphans ==
    ASSUME TailInv, OrphanInv, NEW r \in Requests, GetReference(r)
    PROVE  OrphanInv'
<1>1. /\ req[r].pc = "get" /\ UNCHANGED heads /\ UNCHANGED queue /\ UNCHANGED puts
      /\ UNCHANGED <<removed, expired, gc, lock>> /\ UNCHANGED faults /\ UNCHANGED excused
      /\ UNCHANGED collection
  BY DEF GetReference, Quiet, collection
<1>2. /\ req[r] \in ReqStates
      /\ req[r].tails \in SUBSET TailIds /\ req[r].held \in SUBSET TailIds
      /\ req[r].kind = "copy" /\ req[r].held \subseteq req[r].tails /\ req[r].held # req[r].tails
  BY <1>1 DEF TailInv, TailTypeOK, ReqStates, ReqOK
<1>3. PICK t \in req[r].tails \ req[r].held : t = Foremost(req[r].tails \ req[r].held)
  <2>1. req[r].tails \ req[r].held \subseteq TailIds /\ req[r].tails \ req[r].held # {}
    BY <1>2
  <2> QED
    BY <2>1, ForemostFacts
<1>4. t \in TailIds /\ Unpublished(req[r]) /\ Early(req[r])
  BY <1>1, <1>2 DEF Unpublished, Early
<1>5. SameLapses
  BY <1>1, NoLapse DEF OrphanInv
<1>6. CASE ~Exists(t)
  <2>1. Goes(r, "undo") /\ UNCHANGED <<store, collection>>
    BY <1>1, <1>3, <1>6 DEF GetReference, store
  <2> QED
    BY <1>1, <1>4, <1>5, <2>1, GoOrphans
<1>7. CASE Exists(t)
  <2>1. PICK S \in SUBSET TailIds : S = req[r].held \cup {t}
    BY <1>2, <1>4
  <2>2. PICK pc \in {"get", "create"} : pc = IF S = req[r].tails THEN "create" ELSE "get"
    OBVIOUS
  <2>3. PICK q : q = [req[r] EXCEPT !.held = S, !.pc = pc]
    OBVIOUS
  <2>4. q.pc = pc /\ q.held = S
    BY <1>2, <2>3 DEF ReqStates
  <2>5. req' = [req EXCEPT ![r] = q]
    BY <1>1, <1>3, <1>7, <2>1, <2>2, <2>3 DEF GetReference, TailInv, TailTypeOK
  <2>6. PICK o \in TailStates : o = tails[t]
    BY <1>4 DEF TailInv, TailTypeOK
  <2>7. PICK A : A = o.refs \cup {r}
    OBVIOUS
  <2>8. PICK new : new = [o EXCEPT !.refs = A]
    OBVIOUS
  <2>9. new.refs = A /\ new.retired = o.retired
    BY <2>8 DEF TailStates
  <2>10. tails' = [tails EXCEPT ![t] = new]
    BY <1>3, <1>4, <1>7, <2>6, <2>7, <2>8 DEF GetReference, refcount_get, TailInv, TailTypeOK
  <2>11. tails'[t] = new /\ \A u \in TailIds : u # t => tails'[u] = tails[u]
    BY <1>4, <2>10 DEF TailInv, TailTypeOK
  <2>12. PICK c : c = Creator(t)
    OBVIOUS
  <2>13. c # r
    <3>1. <<r, 1>> \notin req[r].tails
      BY <1>2, <1>4 DEF TailInv, UnpublishedInv
    <3>2. t # <<r, 1>> /\ r # FirstTag
      BY <1>3, <3>1, TagFacts
    <3> QED
      BY <1>4, <2>12, <3>2 DEF TailIds, Creator
  <2>14. r \notin o.retired /\ r # Wildcard
    BY <1>4, <2>6, TagFacts DEF OrphanInv, StoreInv, FreshInv
  <2>15. RefsOK(o, c)
    BY <1>4, <2>6, <2>12 DEF OrphanInv, StoreInv, RefsInv
  <2>16. RefsOK(new, c)
    BY <2>7, <2>9, <2>13, <2>14, <2>15 DEF RefsOK, Refs
  <2>17. RefsInv'
    <3> SUFFICES ASSUME NEW u \in TailIds
                 PROVE  RefsOK(tails'[u], Creator(u))
      BY DEF RefsInv, RefsOK, Refs
    <3> QED
      BY <2>11, <2>12, <2>16 DEF OrphanInv, StoreInv, RefsInv
  <2>18. req'[r] = q /\ \A s \in Requests : s # r => req'[s] = req[s]
    BY <2>5 DEF TailInv, TailTypeOK
  <2>19. FreshInv'
    <3> SUFFICES ASSUME NEW s \in Requests, Early(req'[s]), NEW u \in TailIds
                 PROVE  s \notin tails'[u].retired
      BY DEF FreshInv, Early
    <3>1. Early(req[s])
      BY <1>4, <2>18
    <3> QED
      BY <2>6, <2>9, <2>11, <3>1 DEF OrphanInv, StoreInv, FreshInv
  <2>20. \A s \in Requests : HoldsNone(req'[s])
    BY <2>2, <2>4, <2>18 DEF OrphanInv, StoreInv, HoldsNone
  <2>21. StoreInv'
    BY <2>17, <2>19, <2>20 DEF StoreInv, HoldsNone
  <2>22. Holding(q) /\ ToDrop(req[r]) = {}
    BY <1>1, <2>2, <2>4 DEF Holding, ToDrop
  <2>23. TakesRefs(r, q)
    <3> SUFFICES ASSUME NEW u \in TailIds, NEW x \in Tags, References(u, x)'
                 PROVE  References(u, x) \/ (x = r /\ Holding(q) /\ u \in q.held)
      BY DEF TakesRefs
    <3>1. CASE u # t
      BY <2>11, <3>1 DEF References
    <3>2. CASE u = t
      <4>1. x \in A \/ (Creator(t) = x /\ Wildcard \in A)
        BY <2>9, <2>11, <3>2 DEF References
      <4>2. x = r \/ References(t, x)
        BY <2>6, <2>7, <2>14, <4>1 DEF References
      <4> QED
        BY <2>1, <2>4, <2>22, <3>2, <4>2
    <3> QED
      BY <3>1, <3>2
  <2>24. GivesUp(r, q)
    BY <2>1, <2>4, <2>22 DEF GivesUp, Loses
  <2> QED
    BY <1>1, <1>4, <1>5, <2>5, <2>21, <2>23, <2>24, RequestOrphans
<1> QED
  BY <1>6, <1>7

\* A head is written: it takes over what the request held, and the request what it held.
LEMMA HeadOrphans ==
    ASSUME TailInv, OrphanInv, NEW r \in Requests, NEW q, req' = [req EXCEPT ![r] = q],
           NEW d \in Names, NEW h, Writes(d, h),
           UNCHANGED tails, UNCHANGED <<collection, faults, excused>>, ~Early(q), HoldsNone(q),
           \A t, x : Loses(r, q, t, x) => x = h.tail_tag /\ t \in h.tails,
           \A x \in Tags : \A t : x = heads[d].tail_tag /\ t \in heads[d].tails =>
               \/ x = h.tail_tag /\ t \in h.tails
               \/ x = q.seen.tail_tag /\ t \in ToDrop(q)
    PROVE  OrphanInv'
<1>1. /\ UNCHANGED queue /\ UNCHANGED puts /\ UNCHANGED <<removed, expired, gc, lock>>
      /\ UNCHANGED faults /\ UNCHANGED excused
  BY DEF collection
<1>2. SameLapses
  BY <1>1, NoLapse DEF OrphanInv
<1>3. TakesRefs(r, q) /\ NoNewRefs
  BY DEF TakesRefs, NoNewRefs, References
<1>4. CountersOK' /\ LockInv' /\ WorkInv'
  BY <1>1, <1>2, <1>3, RequestCollectors
<1>5. req \in [Requests -> ReqStates] /\ heads \in [Names -> HeadStates]
  BY DEF TailInv, TailTypeOK
<1>6. req'[r] = q /\ \A s \in Requests : s # r => req'[s] = req[s]
  BY <1>5
<1>7. heads'[d] = h /\ \A n \in Names : n # d => heads'[n] = heads[n]
  BY <1>5 DEF Writes
<1>8. StoreInv'
  <2>1. RefsInv'
    BY DEF OrphanInv, StoreInv, RefsInv, RefsOK, Refs
  <2>2. FreshInv'
    <3> SUFFICES ASSUME NEW s \in Requests, Early(req'[s]), NEW t \in TailIds
                 PROVE  s \notin tails[t].retired
      BY DEF FreshInv, Early
    <3>1. Early(req[s])
      BY <1>6
    <3> QED
      BY <3>1 DEF OrphanInv, StoreInv, FreshInv
  <2>3. \A s \in Requests : HoldsNone(req'[s])
    BY <1>6 DEF OrphanInv, StoreInv
  <2> QED
    BY <2>1, <2>2, <2>3 DEF StoreInv, HoldsNone
<1>9. OwnerInv'
  <2> SUFFICES ASSUME NEW t \in TailIds, NEW x \in Tags, References(t, x)', <<t, x>> \notin excused
               PROVE  Owner(t, x)'
    BY <1>1 DEF OwnerInv
  <2>1. Owner(t, x)
    BY DEF OrphanInv, OwnerInv, References
  <2>2. \/ Owner(t, x)' \/ Loses(r, q, t, x)
        \/ x = heads[d].tail_tag /\ t \in heads[d].tails
    BY <1>1, <1>5, <1>7, <2>1, OwnerMoves
  <2>3. x = h.tail_tag /\ t \in h.tails => Owner(t, x)'
    <3>1. x = h.tail_tag /\ t \in h.tails => \E n \in Names : heads'[n].tail_tag = x /\ t \in heads'[n].tails
      BY <1>7
    <3> QED
      BY <3>1 DEF Owner
  <2>4. x = q.seen.tail_tag /\ t \in ToDrop(q) => Owner(t, x)'
    <3>1. x = q.seen.tail_tag /\ t \in ToDrop(q) =>
              \E s \in Requests : req'[s].seen.tail_tag = x /\ t \in ToDrop(req'[s])
      BY <1>6
    <3> QED
      BY <3>1 DEF Owner, ToDrop
  <2> QED
    BY <2>2, <2>3, <2>4
<1> QED
  BY <1>4, <1>8, <1>9 DEF OrphanInv

\* The head that is created takes over what the request held.
LEMMA CreateHeadOrphans ==
    ASSUME TailInv, OrphanInv, NEW r \in Requests, CreateHead(r)
    PROVE  OrphanInv'
<1>1. req[r].pc = "create" /\ UNCHANGED tails /\ UNCHANGED <<collection, faults, excused>>
  BY DEF CreateHead, Quiet
<1>2. /\ req[r] \in ReqStates /\ req[r].kind \in {"put", "copy"} /\ req[r].held = req[r].tails
      /\ req[r].tails # {} /\ req[r].tails \in SUBSET TailIds
  BY <1>1 DEF TailInv, TailTypeOK, ReqStates, ReqOK
<1>3. PICK d \in Names : d = req[r].dst
  BY <1>2 DEF ReqStates
<1>4. SameLapses /\ Early(req[r])
  BY <1>1, NoLapse DEF OrphanInv, Early
<1>5. CASE heads[d] # NoHead
  <2>1. Goes(r, "read") /\ UNCHANGED <<store, collection>> /\ UNCHANGED excused
    BY <1>1, <1>3, <1>5 DEF CreateHead, store
  <2> QED
    BY <1>4, <2>1, GoOrphans
<1>6. CASE heads[d] = NoHead
  <2>1. PICK h : h = HeadWith(r, r, req[r].tails)
    OBVIOUS
  <2>2. h.tail_tag = r /\ h.tails = req[r].tails
    BY <2>1 DEF HeadWith
  <2>3. Ends(r) /\ Writes(d, h)
    BY <1>3, <1>6, <2>1 DEF CreateHead, Writes
  <2>4. PICK q \in ReqStates : /\ req' = [req EXCEPT ![r] = q] /\ q.pc = "done"
                               /\ ToDrop(q) = {} /\ ~Holding(q) /\ HoldsNone(q) /\ ~Early(q)
    BY <2>3, EndsAs
  <2>5. \A t, x : Loses(r, q, t, x) => x = h.tail_tag /\ t \in h.tails
    BY <1>1, <1>2, <2>2 DEF Loses, ToDrop
  <2>6. \A x \in Tags : \A t : ~(x = heads[d].tail_tag /\ t \in heads[d].tails)
    BY <1>6, HeadFacts, NamesFacts
  <2> QED
    BY <1>1, <2>3, <2>4, <2>5, <2>6, HeadOrphans
<1> QED
  BY <1>5, <1>6

\* The head that is replaced leaves what it held to the request, for the collector.
LEMMA WriteHeadOrphans ==
    ASSUME TailInv, OrphanInv, NEW r \in Requests, WriteHead(r)
    PROVE  OrphanInv'
<1>1. req[r].pc = "write" /\ UNCHANGED tails /\ UNCHANGED <<collection, faults, excused>>
  BY DEF WriteHead, Quiet
<1>2. /\ req[r] \in ReqStates /\ ReqOK(r, req[r]) /\ req[r].seen \in HeadStates
      /\ HoldsNone(req[r]) /\ ToDrop(req[r]) = {}
  BY <1>1 DEF TailInv, TailTypeOK, ReqStates, OrphanInv, StoreInv, ToDrop
<1>3. PICK d \in Names : d = req[r].dst
  BY <1>2 DEF ReqStates
<1>4. PICK seen \in HeadStates : seen = req[r].seen
  BY <1>2
<1>5. heads[d] = seen
  <2>1. heads[d].tag = seen.tag
    BY <1>3, <1>4 DEF WriteHead, SameTag
  <2> QED
    BY <1>1, <1>3, <1>4, <2>1 DEF TailInv, SeenInv
<1>6. ASSUME NEW h, Writes(d, h), Goes(r, "chain"),
             \A t \in req[r].held : r = h.tail_tag /\ t \in h.tails
      PROVE  OrphanInv'
  <2>1. PICK q \in ReqStates : /\ req' = [req EXCEPT ![r] = q] /\ q.pc = "chain"
                               /\ q.held = req[r].held /\ q.seen = req[r].seen
    BY <1>6, GoesAs
  <2>2. ~Early(q) /\ HoldsNone(q) /\ ToDrop(q) = seen.tails
    BY <1>4, <2>1 DEF Early, HoldsNone, ToDrop
  <2>3. \A t, x : Loses(r, q, t, x) => x = h.tail_tag /\ t \in h.tails
    BY <1>2, <1>6 DEF Loses
  <2>4. \A x \in Tags : \A t : x = heads[d].tail_tag /\ t \in heads[d].tails =>
            x = q.seen.tail_tag /\ t \in ToDrop(q)
    BY <1>4, <1>5, <2>1, <2>2
  <2> QED
    BY <1>1, <1>6, <2>1, <2>2, <2>3, <2>4, HeadOrphans
<1>7. ASSUME NEW h, Writes(d, h), Ends(r),
             \A t \in req[r].held : r = h.tail_tag /\ t \in h.tails,
             \A x \in Tags : \A t : x = seen.tail_tag /\ t \in seen.tails =>
                 x = h.tail_tag /\ t \in h.tails
      PROVE  OrphanInv'
  <2>1. PICK q \in ReqStates : /\ req' = [req EXCEPT ![r] = q] /\ q.pc = "done"
                               /\ ToDrop(q) = {} /\ ~Holding(q) /\ HoldsNone(q) /\ ~Early(q)
    BY <1>7, EndsAs
  <2>2. \A t, x : Loses(r, q, t, x) => x = h.tail_tag /\ t \in h.tails
    BY <1>2, <1>7 DEF Loses
  <2> QED
    BY <1>1, <1>5, <1>7, <2>1, <2>2, HeadOrphans
<1>8. CASE req[r].kind = "delete"
  <2>1. seen # NoHead /\ req[r].held = {}
    BY <1>1, <1>2, <1>4, <1>8 DEF ReqOK, HoldsNone
  <2>2. Writes(d, NoHead) /\ Goes(r, "chain")
    BY <1>3, <1>4, <1>8, <2>1 DEF WriteHead, Writes
  <2> QED
    BY <1>6, <2>1, <2>2
<1>9. CASE req[r].kind = "self"
  <2>1. req[r].tails = seen.tails /\ req[r].held = {}
    BY <1>1, <1>2, <1>4, <1>9 DEF ReqOK, HoldsNone
  <2>2. PICK h : h = HeadWith(r, seen.tail_tag, req[r].tails)
    OBVIOUS
  <2>3. h.tail_tag = seen.tail_tag /\ h.tails = req[r].tails
    BY <2>2 DEF HeadWith
  <2>4. Writes(d, h) /\ Ends(r)
    BY <1>3, <1>4, <1>9, <2>2 DEF WriteHead, Writes
  <2> QED
    BY <1>7, <2>1, <2>3, <2>4
<1>10. CASE req[r].kind \in {"put", "copy"}
  <2>1. req[r].held = req[r].tails
    BY <1>1, <1>2, <1>10 DEF ReqOK
  <2>2. PICK h : h = HeadWith(r, r, req[r].tails)
    OBVIOUS
  <2>3. h.tail_tag = r /\ h.tails = req[r].tails
    BY <2>2 DEF HeadWith
  <2>4. Writes(d, h) /\ (IF seen = NoHead THEN Ends(r) ELSE Goes(r, "chain"))
    BY <1>3, <1>4, <1>10, <2>2 DEF WriteHead, Writes
  <2>5. seen = NoHead => \A x \in Tags : \A t : ~(x = seen.tail_tag /\ t \in seen.tails)
    BY HeadFacts
  <2> QED
    BY <1>6, <1>7, <2>1, <2>3, <2>4, <2>5
<1>11. req[r].kind \in {"delete", "self", "put", "copy"}
  BY <1>1, <1>2 DEF ReqOK, ReqStates
<1> QED
  BY <1>8, <1>9, <1>10, <1>11

\* The tag whose references a request drops, one after the other.
Dropping(r) == IF req[r].pc = "undo" THEN r ELSE req[r].seen.tail_tag

\* One tail object less.
LEMMA ReleasedAs ==
    ASSUME TailInv, NEW r \in Requests, req[r].pc \in {"undo", "inline"}, NEW t \in req[r].held,
           Released(r, t)
    PROVE  \E q : /\ req' = [req EXCEPT ![r] = q] /\ ~Early(q) /\ HoldsNone(q)
                  /\ \A u, x : Loses(r, q, u, x) => u = t /\ x = Dropping(r)
<1>1. PICK old \in ReqStates : old = req[r]
  BY DEF TailInv, TailTypeOK
<1>2. CASE req[r].held = {t}
  <2>1. PICK q \in ReqStates : /\ req' = [req EXCEPT ![r] = q] /\ q.pc = "done"
                               /\ ToDrop(q) = {} /\ ~Holding(q) /\ HoldsNone(q) /\ ~Early(q)
    BY <1>2, EndsAs DEF Released
  <2>2. \A u, x : Loses(r, q, u, x) => u = t /\ x = Dropping(r)
    BY <1>2 DEF Loses, Dropping, ToDrop, Holding
  <2> QED
    BY <2>1, <2>2
<1>3. CASE req[r].held # {t}
  <2>1. PICK S : S = old.held \ {t}
    OBVIOUS
  <2>2. PICK q : q = [old EXCEPT !.held = S]
    OBVIOUS
  <2>3. q.pc = old.pc /\ q.held = S /\ q.seen = old.seen
    BY <1>1, <2>2 DEF ReqStates
  <2>4. req' = [req EXCEPT ![r] = q]
    BY <1>1, <1>3, <2>1, <2>2 DEF Released, TailInv, TailTypeOK
  <2>5. ~Early(q) /\ HoldsNone(q)
    BY <1>1, <2>3 DEF Early, HoldsNone
  <2>6. \A u, x : Loses(r, q, u, x) => u = t /\ x = Dropping(r)
    BY <1>1, <2>1, <2>3 DEF Loses, Dropping, ToDrop, Holding
  <2> QED
    BY <2>4, <2>5, <2>6
<1> QED
  BY <1>2, <1>3

\* A request has dropped a reference that it held or had taken from a head.
LEMMA ReleaseOrphans ==
    ASSUME TailInv, OrphanInv, NEW r \in Requests, NEW q, req' = [req EXCEPT ![r] = q],
           ~Early(q), HoldsNone(q), NEW t \in TailIds, NEW tag \in Tags,
           \A u, x : Loses(r, q, u, x) => u = t /\ x = tag,
           UNCHANGED heads, UNCHANGED <<collection, faults, excused>>,
           RefsInv', FreshInv', NoNewRefs, ~References(t, tag)'
    PROVE  OrphanInv'
<1>1. /\ UNCHANGED queue /\ UNCHANGED puts /\ UNCHANGED <<removed, expired, gc, lock>>
      /\ UNCHANGED faults /\ UNCHANGED excused
  BY DEF collection
<1>2. SameLapses
  BY <1>1, NoLapse DEF OrphanInv
<1>3. req'[r] = q /\ \A s \in Requests : s # r => req'[s] = req[s]
  BY DEF TailInv, TailTypeOK
<1>4. \A s \in Requests : HoldsNone(req'[s])
  BY <1>3 DEF OrphanInv, StoreInv
<1>5. StoreInv'
  BY <1>4 DEF StoreInv, HoldsNone
<1>6. TakesRefs(r, q) /\ GivesUp(r, q)
  BY DEF TakesRefs, NoNewRefs, GivesUp
<1> QED
  BY <1>1, <1>2, <1>5, <1>6, RequestOrphans

\* What a request undoes it does not leave behind.
LEMMA UndoOrphans ==
    ASSUME TailInv, OrphanInv, NEW r \in Requests, Undo(r)
    PROVE  OrphanInv'
<1>1. req[r].pc = "undo" /\ UNCHANGED heads /\ UNCHANGED <<collection, faults, excused>>
  BY DEF Undo, Quiet
<1>2. /\ req[r].kind \in {"put", "copy"} /\ req[r].held \in SUBSET TailIds
      /\ req[r].kind = "put" => req[r].held \subseteq {<<r, 1>>}
  BY <1>1 DEF TailInv, TailTypeOK, ReqStates, ReqOK
<1>3. CASE req[r].held = {}
  <2>1. Ends(r) /\ UNCHANGED <<store, collection>>
    BY <1>1, <1>3 DEF Undo, store
  <2>2. SameLapses /\ ToDrop(req[r]) = {} /\ UNCHANGED excused
    BY <1>1, NoLapse DEF OrphanInv, ToDrop
  <2> QED
    BY <1>3, <2>1, <2>2, EndOrphans
<1>4. CASE req[r].held # {}
  <2>1. PICK t \in req[r].held : t = Foremost(req[r].held)
    BY <1>2, <1>4, ForemostFacts
  <2>2. t \in TailIds /\ tails \in [TailIds -> TailStates] /\ r \in Tags /\ Dropping(r) = r
    BY <1>1, <1>2, TagFacts DEF TailInv, TailTypeOK, Dropping
  <2>3. Released(r, t)
    BY <1>4, <2>1 DEF Undo
  <2>4. PICK q : /\ req' = [req EXCEPT ![r] = q] /\ ~Early(q) /\ HoldsNone(q)
                 /\ \A u, x : Loses(r, q, u, x) => u = t /\ x = r
    BY <1>1, <2>2, <2>3, ReleasedAs
  <2>5. req'[r] = q /\ \A s \in Requests : s # r => req'[s] = req[s]
    BY <2>4 DEF TailInv, TailTypeOK
  <2>6. \A s \in Requests : Early(req'[s]) => Early(req[s]) /\ s # r
    BY <2>4, <2>5
  <2>7. CASE req[r].kind = "put"
    <3>1. t = <<r, 1>> /\ Creator(t) = r
      BY <1>2, <2>7, TailIdFacts
    <3>2. PICK none : none = {}
      OBVIOUS
    <3>3. PICK o : o = [refs |-> none, retired |-> none]
      OBVIOUS
    <3>4. o.refs = {} /\ o.retired = {}
      BY <3>2, <3>3
    <3>5. tails' = [tails EXCEPT ![t] = o]
      BY <1>4, <2>1, <2>7, <3>2, <3>3 DEF Undo, Gone
    <3>6. tails'[t] = o /\ \A u \in TailIds : u # t => tails'[u] = tails[u]
      BY <2>2, <3>5
    <3>7. RefsInv'
      <4> SUFFICES ASSUME NEW u \in TailIds
                   PROVE  RefsOK(tails'[u], Creator(u))
        BY DEF RefsInv, RefsOK, Refs
      <4> QED
        BY <3>4, <3>6 DEF OrphanInv, StoreInv, RefsInv, RefsOK, Refs
    <3>8. FreshInv'
      <4> SUFFICES ASSUME NEW s \in Requests, Early(req'[s]), NEW u \in TailIds
                   PROVE  s \notin tails'[u].retired
        BY DEF FreshInv, Early
      <4> QED
        BY <2>6, <3>4, <3>6 DEF OrphanInv, StoreInv, FreshInv
    <3>9. NoNewRefs /\ ~References(t, r)'
      BY <2>2, <3>4, <3>6 DEF NoNewRefs, References
    <3> QED
      BY <1>1, <2>2, <2>4, <3>7, <3>8, <3>9, ReleaseOrphans
  <2>8. CASE req[r].kind = "copy"
    <3>1. tails' = [tails EXCEPT ![t] = refcount_put(tails[t], r)]
      BY <1>4, <2>1, <2>2, <2>8 DEF Undo
    <3>2. RefsInv' /\ FreshInv' /\ NoNewRefs /\ ~References(t, r)'
      BY <2>2, <2>6, <3>1, PutStore DEF OrphanInv, StoreInv
    <3> QED
      BY <1>1, <2>2, <2>4, <3>2, ReleaseOrphans
  <2> QED
    BY <1>2, <2>7, <2>8
<1> QED
  BY <1>3, <1>4

\* A request that still takes references is not the one whose tag is being put.
LEMMA PendingNotEarly ==
    ASSUME TailInv, NEW t \in TailIds, NEW tag \in Tags, Pending(t, tag), NEW s \in Requests,
           Early(req[s])
    PROVE  s # tag
<1>1. Unpublished(req[s])
  BY DEF Early, Unpublished
<1> QED
  BY <1>1 DEF TailInv, UnpublishedInv

\* What the request collects itself it does not leave behind.
LEMMA DeleteInlineOrphans ==
    ASSUME TailInv, OrphanInv, NEW r \in Requests, DeleteInline(r)
    PROVE  OrphanInv'
<1>1. req[r].pc = "inline" /\ UNCHANGED heads /\ UNCHANGED <<collection, faults, excused>>
  BY DEF DeleteInline, Quiet
<1>2. /\ req[r].held \in SUBSET TailIds /\ req[r].held # {}
      /\ req[r].seen \in HeadStates /\ req[r].seen # NoHead
  BY <1>1 DEF TailInv, TailTypeOK, ReqStates, ReqOK
<1>3. PICK t \in req[r].held : t = Foremost(req[r].held)
  BY <1>2, ForemostFacts
<1>4. PICK x \in Tags : x = req[r].seen.tail_tag
  BY <1>2, HeadFacts
<1>5. t \in TailIds /\ tails \in [TailIds -> TailStates] /\ Dropping(r) = x
  BY <1>1, <1>2, <1>4 DEF TailInv, TailTypeOK, Dropping
<1>6. Pending(t, x)
  BY <1>1, <1>4 DEF Pending, ToDrop
<1>7. tails' = [tails EXCEPT ![t] = refcount_put(tails[t], x)] /\ Released(r, t)
  BY <1>3, <1>4, <1>5 DEF DeleteInline
<1>8. PICK q : /\ req' = [req EXCEPT ![r] = q] /\ ~Early(q) /\ HoldsNone(q)
               /\ \A u, y : Loses(r, q, u, y) => u = t /\ y = x
  BY <1>1, <1>5, <1>7, ReleasedAs
<1>9. req'[r] = q /\ \A s \in Requests : s # r => req'[s] = req[s]
  BY <1>8 DEF TailInv, TailTypeOK
<1>10. \A s \in Requests : Early(req'[s]) => Early(req[s]) /\ s # x
  BY <1>5, <1>6, <1>8, <1>9, PendingNotEarly
<1>11. RefsInv' /\ FreshInv' /\ NoNewRefs /\ ~References(t, x)'
  BY <1>5, <1>7, <1>10, PutStore DEF OrphanInv, StoreInv
<1> QED
  BY <1>1, <1>5, <1>8, <1>11, ReleaseOrphans

\* What a failed clean-up leaves behind is excused.
LEMMA FailedReleaseOrphans ==
    ASSUME TailInv, OrphanInv, NEW r \in Requests, FailUndo(r) \/ FailInline(r)
    PROVE  OrphanInv'
<1>1. /\ req[r].pc \in {"undo", "inline"} /\ UNCHANGED <<store, collection>>
      /\ UNCHANGED faults \/ faults' = [faults EXCEPT !.failures = @ + 1]
  BY DEF FailUndo, FailInline, Leaked
<1>2. req[r].held \in SUBSET TailIds /\ req[r].held # {}
  BY DEF FailUndo, FailInline, TailInv, TailTypeOK, ReqStates, ReqOK
<1>3. PICK t \in req[r].held : t = Foremost(req[r].held)
  BY <1>2, ForemostFacts
<1>4. Released(r, t) /\ excused' = excused \cup {<<t, Dropping(r)>>}
  BY <1>3 DEF FailUndo, FailInline, Leaked, Dropping
<1>5. PICK q : /\ req' = [req EXCEPT ![r] = q] /\ ~Early(q) /\ HoldsNone(q)
               /\ \A u, x : Loses(r, q, u, x) => u = t /\ x = Dropping(r)
  BY <1>1, <1>4, ReleasedAs
<1>6. GivesUp(r, q) /\ excused \subseteq excused'
  BY <1>4, <1>5 DEF GivesUp
<1>7. SameLapses
  BY <1>1, NoLapse DEF OrphanInv
<1> QED
  BY <1>1, <1>5, <1>6, <1>7, PlainOrphans

\* What was handed over is owned by the queue.
LEMMA SendChainOrphans ==
    ASSUME TailInv, OrphanInv, NEW r \in Requests, SendChain(r)
    PROVE  OrphanInv'
<1>1. /\ req[r].pc = "chain" /\ Ends(r) /\ UNCHANGED heads /\ UNCHANGED tails /\ UNCHANGED puts
      /\ UNCHANGED <<removed, expired, gc, lock>> /\ UNCHANGED faults /\ UNCHANGED excused
  BY DEF SendChain, store
<1>2. req[r].seen \in HeadStates /\ req[r].seen # NoHead /\ req \in [Requests -> ReqStates]
  BY <1>1 DEF TailInv, TailTypeOK, ReqStates, ReqOK
<1>3. PICK x \in Tags : x = req[r].seen.tail_tag
  BY <1>2, HeadFacts
<1>4. PICK S \in SUBSET TailIds : S = req[r].seen.tails
  BY <1>2, HeadFacts
<1>5. PICK e \in Entries : e = [tag |-> x, tails |-> S]
  BY DEF Entries
<1>6. queue' = Append(queue, e) /\ queue \in Seq(Entries) /\ e.tag = x /\ e.tails = S
  BY <1>3, <1>4, <1>5 DEF SendChain, TailInv, TailTypeOK
<1>7. /\ queue' \in Seq(Entries) /\ Len(queue) <= Len(queue')
      /\ \A i \in DOMAIN queue : i \in DOMAIN queue' /\ queue'[i] = queue[i]
      /\ \E i \in DOMAIN queue' : queue'[i] = e
  <2>1. PICK n \in Nat : n = Len(queue)
    BY <1>6
  <2>2. DOMAIN queue = 1..n /\ Len(queue') = n + 1 /\ DOMAIN queue' = 1..(n + 1)
    BY <1>6, <2>1
  <2>3. queue' \in Seq(Entries) /\ queue'[n + 1] = e /\ \A i \in 1..n : queue'[i] = queue[i]
    BY <1>6, <2>1
  <2> QED
    BY <2>1, <2>2, <2>3
<1>8. PICK q \in ReqStates : /\ req' = [req EXCEPT ![r] = q] /\ q.pc = "done"
                             /\ ToDrop(q) = {} /\ ~Holding(q) /\ HoldsNone(q) /\ ~Early(q)
  BY <1>1, EndsAs
<1>9. req'[r] = q /\ \A s \in Requests : s # r => req'[s] = req[s]
  BY <1>2, <1>8
<1>10. StoreInv'
  <2>1. RefsInv'
    BY <1>1 DEF OrphanInv, StoreInv, RefsInv, RefsOK, Refs
  <2>2. FreshInv'
    <3> SUFFICES ASSUME NEW s \in Requests, Early(req'[s]), NEW t \in TailIds
                 PROVE  s \notin tails[t].retired
      BY <1>1 DEF FreshInv, Early
    <3>1. Early(req[s])
      BY <1>8, <1>9
    <3> QED
      BY <3>1 DEF OrphanInv, StoreInv, FreshInv
  <2>3. \A s \in Requests : HoldsNone(req'[s])
    BY <1>8, <1>9 DEF OrphanInv, StoreInv
  <2> QED
    BY <2>1, <2>2, <2>3 DEF StoreInv, HoldsNone
<1>11. OwnerInv'
  <2> SUFFICES ASSUME NEW t \in TailIds, NEW y \in Tags, References(t, y)', <<t, y>> \notin excused
               PROVE  Owner(t, y)'
    BY <1>1 DEF OwnerInv
  <2>1. Owner(t, y)
    BY <1>1 DEF OrphanInv, OwnerInv, References
  <2>2. PICK d \in Names : d = FirstName
    BY NamesFacts
  <2>3. \/ Owner(t, y)' \/ Loses(r, q, t, y)
        \/ y = heads[d].tail_tag /\ t \in heads[d].tails
    BY <1>1, <1>2, <1>7, <1>8, <2>1, OwnerMoves
  <2>4. y = heads[d].tail_tag /\ t \in heads[d].tails => Owner(t, y)'
    BY <1>1 DEF Owner
  <2>5. CASE Loses(r, q, t, y)
    <3>1. y = x /\ t \in S
      BY <1>1, <1>3, <1>4, <2>5 DEF Loses, Holding, ToDrop
    <3>2. \E i \in DOMAIN queue' : queue'[i].tag = y /\ t \in queue'[i].tails
      BY <1>6, <1>7, <3>1
    <3> QED
      BY <3>2 DEF Owner
  <2> QED
    BY <2>3, <2>4, <2>5
<1>12. SameLapses
  BY <1>1, NoLapse DEF OrphanInv
<1>13. \A k \in DOMAIN queue : \A t \in queue[k].tails :
           References(t, queue[k].tag)' => References(t, queue[k].tag)
  <2> SUFFICES ASSUME NEW k \in DOMAIN queue, NEW t \in queue[k].tails,
                      Refs(tails'[t], Creator(t), queue'[k].tag)
               PROVE  Refs(tails[t], Creator(t), queue[k].tag)
    BY DEF References, Refs
  <2> QED
    BY <1>1, <1>7
<1>14. CountersOK' /\ LockInv' /\ WorkInv'
  BY <1>1, <1>6, <1>7, <1>12, <1>13, CollectorsKept DEF OrphanInv, SameLapses
<1> QED
  BY <1>10, <1>11, <1>14 DEF OrphanInv

-----------------------------------------------------------------------------
(* What the collectors leave behind.                                       *)

\* Heads, requests and queue own what they owned.
LEMMA OwnersKept ==
    ASSUME OwnerInv, UNCHANGED <<heads, req>>, UNCHANGED queue, NoNewRefs, UNCHANGED excused
    PROVE  OwnerInv'
<1> SUFFICES ASSUME NEW t \in TailIds, NEW x \in Tags, References(t, x)', <<t, x>> \notin excused
             PROVE  Owner(t, x)'
  BY DEF OwnerInv
<1>1. Owner(t, x)
  BY DEF OwnerInv, NoNewRefs
<1> QED
  BY <1>1 DEF Owner

\* The references stay as they are.
LEMMA SameStore ==
    ASSUME StoreInv, UNCHANGED req, UNCHANGED tails
    PROVE  StoreInv' /\ NoNewRefs
BY DEF StoreInv, RefsInv, FreshInv, RefsOK, Refs, HoldsNone, Early, NoNewRefs, References

\* A put that arrives leaves no reference of its tag, so it need not be on its way.
LEMMA PutArrivesOrphans ==
    ASSUME TailInv, OrphanInv, NEW p \in puts, PutArrives(p)
    PROVE  OrphanInv'
<1>1. /\ UNCHANGED <<heads, req>> /\ UNCHANGED queue /\ UNCHANGED <<removed, expired, gc, lock>>
      /\ UNCHANGED faults /\ UNCHANGED excused /\ puts' = puts \ {p}
  BY DEF PutArrives, Steady
<1>2. puts \subseteq (Gateways \cup {Nobody}) \X Tags \X TailIds
      /\ tails \in [TailIds -> TailStates] /\ queue \in Seq(Entries)
  BY DEF TailInv, TailTypeOK
<1>3. PICK x \in Tags, t \in TailIds : p[2] = x /\ p[3] = t
  BY <1>2
<1>4. Pending(t, x)
  BY <1>3 DEF Pending
<1>5. tails' = [tails EXCEPT ![t] = refcount_put(tails[t], x)]
  BY <1>2, <1>3 DEF PutArrives
<1>6. \A s \in Requests : Early(req'[s]) => Early(req[s]) /\ s # x
  BY <1>1, <1>4, PendingNotEarly
<1>7. RefsInv' /\ FreshInv' /\ NoNewRefs /\ ~References(t, x)'
  BY <1>2, <1>5, <1>6, PutStore DEF OrphanInv, StoreInv
<1>8. StoreInv'
  BY <1>1, <1>7 DEF OrphanInv, StoreInv, HoldsNone
<1>9. OwnerInv'
  BY <1>1, <1>7, OwnersKept DEF OrphanInv
<1>10. ASSUME NEW k \in DOMAIN queue, NEW u \in queue[k].tails
       PROVE  /\ References(u, queue[k].tag)' => References(u, queue[k].tag)
              /\ \A g \in Gateways : <<g, queue[k].tag, u>> \in puts =>
                    <<g, queue[k].tag, u>> \in puts' \/ ~References(u, queue[k].tag)'
  <2>1. queue[k] \in Entries
    BY <1>2
  <2>2. PICK y \in Tags : y = queue[k].tag /\ u \in TailIds
    BY <2>1 DEF Entries
  <2>3. References(u, y)' => References(u, y)
    BY <1>7, <2>2 DEF NoNewRefs
  <2>4. \A g \in Gateways : <<g, y, u>> \in puts => <<g, y, u>> \in puts' \/ (y = x /\ u = t)
    BY <1>1, <1>3
  <2>5. \A g \in Gateways : <<g, y, u>> \in puts => <<g, y, u>> \in puts' \/ ~References(u, y)'
    BY <1>7, <2>4
  <2>6. queue'[k].tag = y
    BY <1>1, <2>2
  <2> QED
    BY <2>2, <2>3, <2>5, <2>6 DEF References
<1>11. SameLapses
  BY <1>1, NoLapse DEF OrphanInv
<1>12. CountersOK' /\ LockInv' /\ WorkInv'
  BY <1>1, <1>2, <1>10, <1>11, CollectorsKept DEF OrphanInv, SameLapses
<1> QED
  BY <1>8, <1>9, <1>12 DEF OrphanInv

\* A collector that stays at work with the same list, and with its puts on their way.
LEMMA WorkKept ==
    ASSUME WorkInv, UNCHANGED queue, UNCHANGED removed, UNCHANGED tails,
           faults'.lapses = 0 => faults.lapses = 0,
           \A k \in Gateways : gc'[k].pc = "work" => gc'[k] = gc[k],
           \A k \in Gateways : gc'[k].pc = "work" =>
               \A y, t : <<k, y, t>> \in puts => <<k, y, t>> \in puts'
    PROVE  WorkInv'
<1> SUFFICES ASSUME NEW g \in Gateways, gc'[g].pc = "work"
             PROVE  /\ gc'[g].first \in Nat /\ gc'[g].count \in Nat
                    /\ gc'[g].first + gc'[g].count <= removed + Len(queue)
                    /\ faults'.lapses = 0 => removed <= gc'[g].first
                    /\ \A k \in DOMAIN queue : Listed(gc'[g], k) =>
                          \A t \in queue[k].tails :
                              References(t, queue[k].tag) => <<g, queue[k].tag, t>> \in puts'
  BY DEF WorkInv, Listed, References
<1>1. PICK c : c = gc[g] /\ c = gc'[g] /\ c.pc = "work"
  OBVIOUS
<1>2. /\ c.first \in Nat /\ c.count \in Nat
      /\ c.first + c.count <= removed + Len(queue)
      /\ faults'.lapses = 0 => removed <= c.first
      /\ \A k \in DOMAIN queue : Listed(c, k) =>
            \A t \in queue[k].tails :
                References(t, queue[k].tag) => <<g, queue[k].tag, t>> \in puts'
  BY <1>1 DEF WorkInv
<1> QED
  BY <1>1, <1>2

\* The next entry has waited long enough.
LEMMA ExpireOrphans ==
    ASSUME TailInv, OrphanInv, Expire
    PROVE  OrphanInv'
<1>1. /\ UNCHANGED <<heads, req>> /\ UNCHANGED tails /\ UNCHANGED queue /\ UNCHANGED removed
      /\ UNCHANGED gc /\ UNCHANGED puts /\ UNCHANGED lock /\ UNCHANGED faults
      /\ UNCHANGED excused /\ expired' = expired + 1
  BY DEF Expire, Steady
<1>2. StoreInv' /\ OwnerInv'
  BY <1>1, SameStore, OwnersKept DEF OrphanInv
<1>3. CountersOK' /\ LockInv'
  BY <1>1 DEF OrphanInv, CountersOK, LockInv
<1>4. WorkInv'
  BY <1>1, WorkKept DEF OrphanInv
<1> QED
  BY <1>2, <1>3, <1>4 DEF OrphanInv

\* Who takes the lock finds nobody at work, but after a lapse.
LEMMA GcLockOrphans ==
    ASSUME TailInv, OrphanInv, NEW g \in Gateways, GcLock(g)
    PROVE  OrphanInv'
<1>1. /\ UNCHANGED <<heads, req>> /\ UNCHANGED tails /\ UNCHANGED queue /\ UNCHANGED removed
      /\ UNCHANGED expired /\ UNCHANGED puts /\ UNCHANGED faults /\ UNCHANGED excused
      /\ lock = Nobody /\ lock' = g
  BY DEF GcLock, Steady
<1>2. StoreInv' /\ OwnerInv'
  BY <1>1, SameStore, OwnersKept DEF OrphanInv
<1>3. gc'[g].pc = "list" /\ gc'[g].marker = gc[g].marker /\ \A k \in Gateways : k # g => gc'[k] = gc[k]
  <2>1. DOMAIN gc = Gateways /\ IsCollector(gc[g])
    BY DEF TailInv, TailTypeOK
  <2>2. PICK c : c = gc[g]
    OBVIOUS
  <2>3. PICK pc, marker, first, truncated, count :
            c = [pc |-> pc, marker |-> marker, first |-> first, count |-> count,
                 truncated |-> truncated]
    BY <2>1, <2>2 DEF IsCollector
  <2>4. PICK d : d = [c EXCEPT !.pc = "list"]
    OBVIOUS
  <2>5. d.pc = "list" /\ d.marker = c.marker
    BY <2>3, <2>4
  <2>6. gc' = [gc EXCEPT ![g] = d]
    BY <2>1, <2>2, <2>4 DEF GcLock
  <2> QED
    BY <2>1, <2>2, <2>5, <2>6
<1>4. CountersOK'
  BY <1>1, <1>3 DEF OrphanInv, CountersOK
<1>5. LockInv'
  BY <1>1, <1>3, TailConstants DEF OrphanInv, LockInv
<1>6. WorkInv'
  BY <1>1, <1>3, WorkKept DEF OrphanInv
<1> QED
  BY <1>2, <1>4, <1>5, <1>6 DEF OrphanInv

\* A collector that rests has listed nothing.
LEMMA RestsAs ==
    ASSUME DOMAIN gc = Gateways, NEW g \in Gateways, gc' = [gc EXCEPT ![g] = Resting]
    PROVE  gc'[g].pc = "idle" /\ gc'[g].marker = 0 /\ \A k \in Gateways : k # g => gc'[k] = gc[k]
<1>1. PICK zero : zero = 0
  OBVIOUS
<1>2. PICK no : no = FALSE
  OBVIOUS
<1>3. PICK c : c = Resting /\ c = [pc |-> "idle", marker |-> zero, first |-> zero,
                                   count |-> zero, truncated |-> no]
  BY <1>1, <1>2 DEF Resting
<1>4. c.pc = "idle" /\ c.marker = zero
  BY <1>3
<1> QED
  BY <1>1, <1>3, <1>4

\* A collector that stops or dies removes nothing, and leaves the others alone.
LEMMA AbandonedOrphans ==
    ASSUME TailInv, OrphanInv, NEW g \in Gateways, GcStop(g) \/ GcCrash(g)
    PROVE  OrphanInv'
<1>1. /\ UNCHANGED <<heads, req>> /\ UNCHANGED tails /\ UNCHANGED queue /\ UNCHANGED removed
      /\ UNCHANGED expired /\ UNCHANGED excused /\ Abandoned(g)
      /\ gc' = [gc EXCEPT ![g] = Resting]
      /\ lock' = Unlocked(g) \/ lock' = lock
      /\ \/ faults' = [faults EXCEPT !.failures = @ + 1]
         \/ faults' = [faults EXCEPT !.crashes = @ + 1]
  BY DEF GcStop, GcCrash, Stops, store
<1>2. StoreInv' /\ OwnerInv'
  BY <1>1, SameStore, OwnersKept DEF OrphanInv
<1>3. gc'[g].pc = "idle" /\ gc'[g].marker = 0 /\ \A k \in Gateways : k # g => gc'[k] = gc[k]
  BY <1>1, RestsAs DEF TailInv, TailTypeOK
<1>4. SameLapses
  BY <1>1, NoLapse DEF OrphanInv
<1>5. CountersOK'
  BY <1>1, <1>3, <1>4 DEF OrphanInv, CountersOK, SameLapses
<1>6. LockInv'
  BY <1>1, <1>3, <1>4 DEF OrphanInv, LockInv, SameLapses, Unlocked
<1>7. \A k \in Gateways : k # g => \A y, t : <<k, y, t>> \in puts => <<k, y, t>> \in puts'
  BY <1>1 DEF Abandoned, PutsOf
<1>8. WorkInv'
  BY <1>1, <1>3, <1>4, <1>7, WorkKept DEF OrphanInv, SameLapses
<1> QED
  BY <1>2, <1>5, <1>6, <1>8 DEF OrphanInv

\* A lease that ends counts as a lapse if its collector is at work.
LEMMA LockLapsesOrphans ==
    ASSUME TailInv, OrphanInv, LockLapses
    PROVE  OrphanInv'
<1>1. /\ UNCHANGED <<heads, req>> /\ UNCHANGED tails /\ UNCHANGED queue /\ UNCHANGED removed
      /\ UNCHANGED expired /\ UNCHANGED gc /\ UNCHANGED puts /\ UNCHANGED excused
  BY DEF LockLapses, store
<1>2. StoreInv' /\ OwnerInv'
  BY <1>1, SameStore, OwnersKept DEF OrphanInv
<1>3. faults' \in FaultStates /\ (UNCHANGED faults \/ faults'.lapses # 0)
  <2>1. faults \in FaultStates /\ faults.lapses \in Nat
    BY DEF OrphanInv, CountersOK, FaultStates
  <2>2. PICK n \in Nat : n = faults.lapses + 1 /\ n # 0
    BY <2>1
  <2>3. CASE faults' = [faults EXCEPT !.lapses = @ + 1]
    <3>1. faults' = [faults EXCEPT !.lapses = n]
      BY <2>1, <2>2, <2>3
    <3> QED
      BY <2>1, <2>2, <3>1 DEF FaultStates
  <2> QED
    BY <2>1, <2>3 DEF LockLapses
<1>4. CountersOK'
  BY <1>1, <1>3 DEF OrphanInv, CountersOK
<1>5. LockInv'
  <2> SUFFICES ASSUME faults'.lapses = 0, NEW g \in Gateways, gc[g].pc # "idle"
               PROVE  FALSE
    BY <1>1 DEF LockInv
  <2>1. lock = g /\ UNCHANGED faults
    BY <1>3 DEF OrphanInv, LockInv
  <2>2. faults' = [faults EXCEPT !.lapses = @ + 1]
    BY <2>1 DEF LockLapses
  <2>3. faults \in FaultStates /\ faults.lapses = 0
    BY <2>1 DEF OrphanInv, CountersOK
  <2>4. PICK n : n = faults.lapses + 1
    OBVIOUS
  <2>5. faults' = [faults EXCEPT !.lapses = n]
    BY <2>2, <2>3, <2>4 DEF FaultStates
  <2>6. faults'.lapses = n
    BY <2>3, <2>5 DEF FaultStates
  <2> QED
    BY <2>3, <2>4, <2>6
<1>6. WorkInv'
  BY <1>1, <1>3, WorkKept DEF OrphanInv
<1> QED
  BY <1>2, <1>4, <1>5, <1>6 DEF OrphanInv

\* A step on none of all this.
LEMMA StutterOrphans ==
    ASSUME OrphanInv, UNCHANGED vars
    PROVE  OrphanInv'
<1>1. /\ UNCHANGED <<heads, req>> /\ UNCHANGED tails /\ UNCHANGED queue /\ UNCHANGED removed
      /\ UNCHANGED expired /\ UNCHANGED gc /\ UNCHANGED puts /\ UNCHANGED excused
      /\ UNCHANGED lock /\ UNCHANGED faults
  BY DEF vars
<1>2. StoreInv' /\ OwnerInv'
  BY <1>1, SameStore, OwnersKept DEF OrphanInv
<1>3. CountersOK' /\ LockInv'
  BY <1>1 DEF OrphanInv, CountersOK, LockInv
<1>4. WorkInv'
  BY <1>1, WorkKept DEF OrphanInv
<1> QED
  BY <1>2, <1>3, <1>4 DEF OrphanInv

\* The greatest and the least of some numbers up to a bound.
LEMMA ExtremeFacts ==
    ASSUME NEW b \in Nat, NEW S, S \subseteq 1..b, S # {}
    PROVE  /\ Max(S) \in S /\ \A y \in S : y <= Max(S)
           /\ Min(S) \in S /\ \A y \in S : Min(S) <= y
<1> DEFINE N == {b - i : i \in S}
<1>1. N \subseteq Nat /\ N # {} /\ S \subseteq Nat
  <2>1. \A i \in 1..b : b - i \in Nat /\ i \in Nat
    OBVIOUS
  <2> QED
    BY <2>1
<1> HIDE DEF N
<1>2. PICK z \in N : \A y \in N : z <= y
  BY <1>1, LeastNatural
<1>3. PICK m \in S : z = b - m
  BY <1>2 DEF N
<1>4. \A y \in S : b - m <= b - y
  BY <1>2, <1>3 DEF N
<1>5. \A y \in S : m >= y
  BY <1>1, <1>4
<1>6. Max(S) \in S /\ \A y \in S : Max(S) >= y
  BY <1>5 DEF Max
<1>7. PICK l \in S : \A y \in S : l =< y
  BY <1>1, LeastNatural
<1>8. Min(S) \in S /\ \A y \in S : Min(S) =< y
  BY <1>7 DEF Min
<1> QED
  BY <1>1, <1>6, <1>8

\* The greater of two numbers.
LEMMA MaxOfTwo ==
    ASSUME NEW a \in Nat, NEW b \in Nat
    PROVE  Max({a, b}) \in Nat
<1>1. \E x \in {a, b} : \A y \in {a, b} : x >= y
  OBVIOUS
<1>2. Max({a, b}) \in {a, b}
  BY <1>1 DEF Max
<1> QED
  BY <1>2

\* As many entries as a collector counts are consecutive from the first of them.
LEMMA Consecutive ==
    ASSUME NEW b \in Nat, NEW S, S \subseteq 1..b, NEW m \in S, \A y \in S : m <= y,
           \A i \in S : \A j \in m..i : j \in S, NEW n \in Nat, n = Cardinality(S)
    PROVE  /\ m - 1 + n <= b
           /\ \A k \in m..b : k <= m - 1 + n => k \in S
<1>1. m \in Int /\ b \in Int /\ m \in 1..b /\ m <= b /\ S \subseteq Nat
  OBVIOUS
<1>2. IsFiniteSet(m..b) /\ Cardinality(m..b) = b - m + 1
  <2>1. IsFiniteSet(m..b) /\ Cardinality(m..b) = IF m > b THEN 0 ELSE b - m + 1
    BY <1>1, FS_Interval
  <2> QED
    BY <1>1, <2>1
<1>3. S \in SUBSET (m..b)
  BY <1>1
<1>4. n <= b - m + 1
  BY <1>2, <1>3, FS_Subset
<1>5. ASSUME NEW k \in m..b, k <= m - 1 + n, k \notin S
      PROVE  FALSE
  <2>1. PICK c \in Int : c = k - 1
    BY <1>1
  <2>2. S \in SUBSET (m..c)
    <3> SUFFICES ASSUME NEW i \in S, ~(i <= c)
                 PROVE  FALSE
      BY <1>1, <2>1
    <3>1. k \in m..i
      BY <1>1, <2>1
    <3> QED
      BY <1>5, <3>1
  <2>3. IsFiniteSet(m..c) /\ Cardinality(m..c) = IF m > c THEN 0 ELSE c - m + 1
    BY <1>1, <2>1, FS_Interval
  <2>4. n <= IF m > c THEN 0 ELSE c - m + 1
    BY <2>2, <2>3, FS_Subset
  <2>5. n <= k - m
    BY <1>1, <2>1, <2>4
  <2> QED
    BY <1>1, <1>5, <2>5
<1> QED
  BY <1>1, <1>4, <1>5

\* A page is consecutive too, from the marker on.
LEMMA PageFacts ==
    ASSUME NEW M \in Nat, removed \in Nat, Len(queue) \in Nat, NEW page, page = Page(M)
    PROVE  /\ page \subseteq 1..Len(queue)
           /\ \A i \in page : \A k \in page : \A j \in i..k : j \in page
<1>1. PICK R \in Nat, l \in Nat : R = removed /\ l = Len(queue)
  OBVIOUS
<1>2. PICK b \in Nat : b = Max({M, R}) + ListMax
  BY MaxOfTwo, TailConstants
<1>3. page = IF M # 0 /\ M < R THEN {} ELSE {i \in 1..l : R + i > M /\ R + i <= b}
  BY <1>1, <1>2 DEF Page
<1>4. page \subseteq 1..l
  BY <1>3
<1>5. ASSUME NEW i \in page, NEW k \in page, NEW j \in i..k
      PROVE  j \in page
  <2>1. i \in 1..l /\ R + i > M /\ k \in 1..l /\ R + k <= b
    BY <1>3
  <2>2. j \in 1..l /\ R + j > M /\ R + j <= b
    BY <2>1
  <2> QED
    BY <1>3, <2>2
<1> QED
  BY <1>1, <1>4, <1>5

\* What a collector lists it sends the puts of.
LEMMA GcListOrphans ==
    ASSUME TailInv, OrphanInv, NEW g \in Gateways, GcList(g)
    PROVE  OrphanInv'
<1>1. /\ UNCHANGED <<heads, req>> /\ UNCHANGED tails /\ UNCHANGED queue /\ UNCHANGED removed
      /\ UNCHANGED expired /\ UNCHANGED faults /\ UNCHANGED excused /\ gc[g].pc = "list"
  BY DEF GcList, Steady
<1>2. StoreInv' /\ OwnerInv'
  BY <1>1, SameStore, OwnersKept DEF OrphanInv
<1>3. /\ removed \in Nat /\ expired \in Nat /\ gc[g].marker \in Nat
      /\ queue \in Seq(Entries) /\ Len(queue) \in Nat /\ DOMAIN queue = 1..Len(queue)
      /\ DOMAIN gc = Gateways
  BY DEF TailInv, TailTypeOK, OrphanInv, CountersOK
<1>4. PICK R \in Nat, l \in Nat, E \in Nat, M \in Nat :
          R = removed /\ l = Len(queue) /\ E = expired /\ M = gc[g].marker
  BY <1>3
<1>5. PICK page : page = Page(M)
  OBVIOUS
<1>6. PICK due : due = {i \in page : R + i <= E}
  OBVIOUS
<1>7. /\ page \subseteq 1..l
      /\ \A i \in page : \A k \in page : \A j \in i..k : j \in page
  BY <1>3, <1>4, <1>5, PageFacts
<1>8. CASE due = {}
  <2>1. gc' = [gc EXCEPT ![g] = Resting] /\ lock' = Unlocked(g) /\ UNCHANGED puts
    BY <1>4, <1>5, <1>6, <1>8 DEF GcList, Stops
  <2>2. gc'[g].pc = "idle" /\ gc'[g].marker = 0 /\ \A k \in Gateways : k # g => gc'[k] = gc[k]
    BY <1>3, <2>1, RestsAs
  <2>3. CountersOK'
    BY <1>1, <2>2 DEF OrphanInv, CountersOK
  <2>4. LockInv'
    BY <1>1, <2>1, <2>2 DEF OrphanInv, LockInv, Unlocked
  <2>5. WorkInv'
    BY <1>1, <2>1, <2>2, WorkKept DEF OrphanInv
  <2> QED
    BY <1>2, <2>3, <2>4, <2>5 DEF OrphanInv
<1>9. CASE due # {}
  <2>1. due \subseteq page /\ due \subseteq 1..l /\ page # {}
    BY <1>6, <1>7, <1>9
  <2>2. PICK n \in Nat : n = Cardinality(due)
    <3>1. IsFiniteSet(1..l)
      BY FS_Interval
    <3>2. IsFiniteSet(due)
      BY <2>1, <3>1, FS_Subset
    <3> QED
      BY <3>2, FS_CardinalityType
  <2>3. PICK m \in due : m = Min(due) /\ \A y \in due : m <= y
    BY <1>9, <2>1, ExtremeFacts
  <2>4. PICK top \in page : top = Max(page)
    BY <1>7, <2>1, ExtremeFacts
  <2>5. m \in Nat /\ m >= 1 /\ top \in Nat
    BY <1>7, <2>1
  <2>6. PICK first \in Nat, marker \in Nat : first = R + m - 1 /\ marker = R + top
    BY <2>5
  <2>7. PICK more : more = (top < l)
    OBVIOUS
  <2>8. PICK c : c = [pc |-> "work", marker |-> marker, first |-> first, count |-> n, truncated |-> more]
    OBVIOUS
  <2>9. c.pc = "work" /\ c.marker = marker /\ c.first = first /\ c.count = n
    BY <2>8
  <2>10. gc' = [gc EXCEPT ![g] = c] /\ UNCHANGED lock
    BY <1>4, <1>5, <1>6, <1>9, <2>2, <2>3, <2>4, <2>6, <2>7, <2>8 DEF GcList
  <2>11. gc'[g] = c /\ \A k \in Gateways : k # g => gc'[k] = gc[k]
    BY <1>3, <2>10
  <2>12. puts' = puts \cup UNION {{<<g, queue[i].tag, t>> : t \in queue[i].tails} : i \in due}
    BY <1>4, <1>5, <1>6, <1>9 DEF GcList
  <2>13. puts \subseteq puts' /\ \A i \in due : \A t \in queue[i].tails : <<g, queue[i].tag, t>> \in puts'
    BY <2>12
  <2>14. \A i \in due : \A j \in m..i : j \in due
    <3> SUFFICES ASSUME NEW i \in due, NEW j \in m..i
                 PROVE  j \in due
      OBVIOUS
    <3>1. j \in page /\ R + i <= E
      BY <1>6, <1>7, <2>1
    <3>2. i \in Nat /\ j \in Int /\ j <= i
      BY <2>1, <2>5
    <3>3. R + j <= E
      BY <3>1, <3>2
    <3> QED
      BY <1>6, <3>1, <3>3
  <2>15. /\ m - 1 + n <= l
         /\ \A k \in m..l : k <= m - 1 + n => k \in due
    BY <2>1, <2>2, <2>3, <2>14, Consecutive
  <2>16. CountersOK'
    BY <1>1, <2>9, <2>11 DEF OrphanInv, CountersOK
  <2>17. LockInv'
    BY <1>1, <2>10, <2>11 DEF OrphanInv, LockInv
  <2>18. ASSUME NEW k \in DOMAIN queue, Listed(c, k), NEW t \in queue[k].tails
         PROVE  <<g, queue[k].tag, t>> \in puts'
    <3>1. k \in 1..l /\ first < R + k /\ R + k <= first + n
      BY <1>3, <1>4, <2>9, <2>18 DEF Listed
    <3>2. k \in m..l /\ k <= m - 1 + n
      BY <2>5, <2>6, <3>1
    <3> QED
      BY <2>13, <2>15, <3>2
  <2>19. first + n <= R + l /\ R <= first
    BY <2>5, <2>6, <2>15
  <2>20. WorkInv'
    <3> SUFFICES ASSUME NEW h \in Gateways, gc'[h].pc = "work"
                 PROVE  /\ gc'[h].first \in Nat /\ gc'[h].count \in Nat
                        /\ gc'[h].first + gc'[h].count <= removed + Len(queue)
                        /\ faults.lapses = 0 => removed <= gc'[h].first
                        /\ \A k \in DOMAIN queue : Listed(gc'[h], k) =>
                              \A t \in queue[k].tails :
                                  References(t, queue[k].tag) => <<h, queue[k].tag, t>> \in puts'
      BY <1>1 DEF WorkInv, Listed, References
    <3>1. CASE h = g
      BY <1>4, <2>9, <2>11, <2>18, <2>19, <3>1
    <3>2. CASE h # g
      <4>1. PICK d : d = gc[h] /\ d = gc'[h] /\ d.pc = "work"
        BY <2>11, <3>2
      <4>2. /\ d.first \in Nat /\ d.count \in Nat
            /\ d.first + d.count <= removed + Len(queue)
            /\ faults.lapses = 0 => removed <= d.first
            /\ \A k \in DOMAIN queue : Listed(d, k) =>
                  \A t \in queue[k].tails :
                      References(t, queue[k].tag) => <<h, queue[k].tag, t>> \in puts
        BY <4>1 DEF OrphanInv, WorkInv
      <4> QED
        BY <2>13, <4>1, <4>2
    <3> QED
      BY <3>1, <3>2
  <2> QED
    BY <1>2, <2>16, <2>17, <2>20 DEF OrphanInv
<1> QED
  BY <1>8, <1>9

\* What a collector removes it has listed and collected, or it is excused.
LEMMA GcRemoveOrphans ==
    ASSUME TailInv, OrphanInv, NEW g \in Gateways, GcRemove(g)
    PROVE  OrphanInv'
<1>1. /\ UNCHANGED <<heads, req>> /\ UNCHANGED tails /\ UNCHANGED puts /\ UNCHANGED faults
      /\ gc[g].pc = "work" /\ PutsOf(g) = {}
  BY DEF GcRemove, store, Drained
<1>2. StoreInv' /\ NoNewRefs
  BY <1>1, SameStore DEF OrphanInv
<1>3. /\ removed \in Nat /\ expired \in Nat /\ gc[g].first \in Nat /\ gc[g].count \in Nat
      /\ gc[g].marker \in Nat /\ DOMAIN gc = Gateways
  BY <1>1 DEF TailInv, TailTypeOK, OrphanInv, CountersOK, WorkInv
<1>4. PICK n \in Nat, l \in Nat :
          /\ n = Min({gc[g].count, Len(queue)}) /\ n <= gc[g].count /\ n <= l /\ l = Len(queue)
          /\ DOMAIN queue = 1..l /\ queue' \in Seq(Entries) /\ DOMAIN queue' = 1..(l - n)
          /\ Len(queue') = l - n
          /\ \A i \in 1..(l - n) : queue'[i] = queue[i + n]
  BY <1>3, FrontRemoved
<1>5. PICK R \in Nat, f \in Nat, c \in Nat : R = removed /\ f = gc[g].first /\ c = gc[g].count
  BY <1>3
<1>6. /\ removed' = R + n /\ expired' = Max({expired, R + n})
      /\ excused' = excused \cup
             UNION {queue[i].tails \X {queue[i].tag} : i \in {k \in 1..n :
                 R + k <= f \/ (faults.lapses > 0 /\ R + k > f + c)}}
  BY <1>4, <1>5 DEF GcRemove
<1>7. \/ /\ gc' = [gc EXCEPT ![g] = [Resting EXCEPT !.pc = "list", !.marker = gc[g].marker]]
         /\ UNCHANGED lock
      \/ gc' = [gc EXCEPT ![g] = Resting] /\ lock' = Unlocked(g)
  BY DEF GcRemove, Stops
<1>8. /\ gc'[g].marker \in Nat
      /\ (gc'[g].pc = "list" /\ UNCHANGED lock) \/ (gc'[g].pc = "idle" /\ lock' = Unlocked(g))
      /\ \A k \in Gateways : k # g => gc'[k] = gc[k]
  <2>1. CASE gc' = [gc EXCEPT ![g] = Resting] /\ lock' = Unlocked(g)
    <3>1. gc'[g].pc = "idle" /\ gc'[g].marker = 0 /\ \A k \in Gateways : k # g => gc'[k] = gc[k]
      BY <1>3, <2>1, RestsAs
    <3> QED
      BY <2>1, <3>1
  <2>2. CASE /\ gc' = [gc EXCEPT ![g] = [Resting EXCEPT !.pc = "list", !.marker = gc[g].marker]]
             /\ UNCHANGED lock
    <3>1. PICK zero, no, m : zero = 0 /\ no = FALSE /\ m = gc[g].marker
      OBVIOUS
    <3>2. PICK rest : rest = Resting /\ rest = [pc |-> "idle", marker |-> zero, first |-> zero,
                                                count |-> zero, truncated |-> no]
      BY <3>1 DEF Resting
    <3>3. PICK d : d = [rest EXCEPT !.pc = "list", !.marker = m]
      OBVIOUS
    <3>4. d.pc = "list" /\ d.marker = m
      BY <3>2, <3>3
    <3>5. gc' = [gc EXCEPT ![g] = d]
      BY <2>2, <3>1, <3>2, <3>3
    <3>6. gc'[g] = d /\ \A k \in Gateways : k # g => gc'[k] = gc[k]
      BY <1>3, <3>5
    <3>7. gc'[g].marker \in Nat /\ gc'[g].pc = "list"
      BY <1>3, <3>1, <3>4, <3>6
    <3> QED
      BY <2>2, <3>6, <3>7
  <2> QED
    BY <1>7, <2>1, <2>2
<1>9. CountersOK'
  <2>1. removed' \in Nat /\ expired' \in Nat
    BY <1>3, <1>6, MaxOfTwo
  <2> QED
    BY <1>1, <1>8, <2>1 DEF OrphanInv, CountersOK
<1>10. LockInv'
  BY <1>1, <1>8 DEF OrphanInv, LockInv, Unlocked
<1>11. ASSUME NEW i \in 1..n, NEW t \in queue[i].tails, References(t, queue[i].tag)
       PROVE  <<t, queue[i].tag>> \in excused'
  <2>1. i \in DOMAIN queue /\ i \in Nat /\ i <= n
    BY <1>4
  <2>2. CASE R + i <= f
    BY <1>6, <2>2
  <2>3. CASE f < R + i /\ R + i <= f + c
    <3>1. Listed(gc[g], i)
      BY <1>5, <2>3 DEF Listed
    <3>2. <<g, queue[i].tag, t>> \in puts
      BY <1>1, <1>11, <2>1, <3>1 DEF OrphanInv, WorkInv
    <3> QED
      BY <1>1, <3>2 DEF PutsOf
  <2>4. CASE R + i > f + c
    <3>1. ~(R <= f)
      BY <1>4, <1>5, <2>1, <2>4
    <3>2. faults.lapses # 0 /\ faults.lapses \in Nat
      BY <1>1, <1>5, <3>1 DEF OrphanInv, WorkInv, CountersOK, FaultStates
    <3>3. faults.lapses > 0
      BY <3>2
    <3> QED
      BY <1>6, <2>4, <3>3
  <2> QED
    BY <2>1, <2>2, <2>3, <2>4
<1>12. OwnerInv'
  <2> SUFFICES ASSUME NEW t \in TailIds, NEW x \in Tags, References(t, x), <<t, x>> \notin excused'
               PROVE  Owner(t, x)'
    BY <1>2 DEF OwnerInv, NoNewRefs
  <2>1. Owner(t, x)
    BY <1>6 DEF OrphanInv, OwnerInv
  <2>2. CASE \E i \in DOMAIN queue : queue[i].tag = x /\ t \in queue[i].tails
    <3>1. PICK i \in 1..l : queue[i].tag = x /\ t \in queue[i].tails
      BY <1>4, <2>2
    <3>2. i \notin 1..n
      BY <1>11, <3>1
    <3>3. PICK j \in 1..(l - n) : i = j + n
      <4>1. i - n \in 1..(l - n) /\ i = (i - n) + n
        BY <1>4, <3>2
      <4> QED
        BY <4>1
    <3>4. j \in DOMAIN queue' /\ queue'[j] = queue[i]
      BY <1>4, <3>3
    <3>5. \E k \in DOMAIN queue' : queue'[k].tag = x /\ t \in queue'[k].tails
      BY <3>1, <3>4
    <3> QED
      BY <3>5 DEF Owner
  <2>3. CASE ~\E i \in DOMAIN queue : queue[i].tag = x /\ t \in queue[i].tails
    BY <1>1, <2>1, <2>3 DEF Owner
  <2> QED
    BY <2>2, <2>3
<1>13. WorkInv'
  <2> SUFFICES ASSUME NEW h \in Gateways, gc'[h].pc = "work"
               PROVE  /\ gc'[h].first \in Nat /\ gc'[h].count \in Nat
                      /\ gc'[h].first + gc'[h].count <= removed' + Len(queue')
                      /\ faults.lapses = 0 => removed' <= gc'[h].first
                      /\ \A k \in DOMAIN queue' :
                            gc'[h].first < removed' + k /\ removed' + k <= gc'[h].first + gc'[h].count =>
                            \A t \in queue'[k].tails :
                                Refs(tails[t], Creator(t), queue'[k].tag)
                                    => <<h, queue'[k].tag, t>> \in puts
    BY <1>1 DEF WorkInv, Listed, References, Refs
  <2>1. h # g /\ gc'[h] = gc[h]
    BY <1>8
  <2>2. PICK d : d = gc[h] /\ d = gc'[h] /\ d.pc = "work"
    BY <2>1
  <2>3. /\ d.first \in Nat /\ d.count \in Nat /\ d.first + d.count <= removed + Len(queue)
        /\ \A k \in DOMAIN queue : Listed(d, k) =>
              \A t \in queue[k].tails :
                  References(t, queue[k].tag) => <<h, queue[k].tag, t>> \in puts
    BY <2>2 DEF OrphanInv, WorkInv
  <2>4. PICK p \in Nat, m \in Nat : p = d.first /\ m = d.count
    BY <2>3
  <2>5. p + m <= R + l
    BY <1>4, <1>5, <2>3, <2>4
  <2>6. p + m <= (R + n) + (l - n)
    BY <1>4, <2>5
  <2>7. faults.lapses # 0
    BY <1>1, <2>1, <2>2 DEF OrphanInv, LockInv
  <2>8. ASSUME NEW k \in DOMAIN queue', p < (R + n) + k, (R + n) + k <= p + m,
               NEW t \in queue'[k].tails, Refs(tails[t], Creator(t), queue'[k].tag)
        PROVE  <<h, queue'[k].tag, t>> \in puts
    <3>1. k \in 1..(l - n)
      BY <1>4
    <3>2. PICK j : j = k + n
      OBVIOUS
    <3>3. j \in 1..l /\ p < R + j /\ R + j <= p + m
      BY <1>4, <2>8, <3>1, <3>2
    <3>4. PICK e : e = queue'[k] /\ e = queue[j]
      BY <1>4, <3>1, <3>2
    <3>5. j \in DOMAIN queue /\ Listed(d, j)
      BY <1>4, <1>5, <2>4, <3>3 DEF Listed
    <3>6. t \in queue[j].tails /\ References(t, queue[j].tag)
      BY <2>8, <3>4 DEF References, Refs
    <3>7. <<h, queue[j].tag, t>> \in puts
      BY <2>3, <3>5, <3>6
    <3> QED
      BY <3>4, <3>7
  <2> QED
    BY <1>4, <1>6, <2>2, <2>4, <2>6, <2>7, <2>8
<1> QED
  BY <1>2, <1>9, <1>10, <1>12, <1>13 DEF OrphanInv

-----------------------------------------------------------------------------
(* Nothing is left behind but what is excused.                             *)

\* The references at the start are those of the first object and of its copy.
LEMMA InitOrphans == Init => OrphanInv
<1> SUFFICES ASSUME Init
             PROVE  OrphanInv
  OBVIOUS
<1>1. /\ req = [r \in Requests |-> NotStarted] /\ removed = 0 /\ expired = 0
      /\ gc = [g \in Gateways |-> Resting] /\ excused = {}
      /\ faults = [failures |-> 0, crashes |-> 0, lapses |-> 0]
  BY DEF Init
<1>2. RefsInv
  BY FirstObjects, TagFacts DEF RefsInv, RefsOK, Refs
<1>3. FreshInv
  BY FirstObjects DEF FreshInv
<1>4. \A r \in Requests : HoldsNone(req[r])
  BY <1>1, NotStartedFacts DEF HoldsNone
<1>5. OwnerInv
  <2> SUFFICES ASSUME NEW t \in TailIds, NEW x \in Tags, References(t, x)
               PROVE  Owner(t, x)
    BY DEF OwnerInv
  <2>1. tails[t].refs # {} /\ tails[t].refs \subseteq {Wildcard, CopyTag} /\ Creator(t) = FirstTag
    BY FirstObjects DEF References
  <2>2. t \in FirstManifest
    BY <2>1, TagFacts DEF TailIds, FirstManifest, Creator
  <2>3. x = FirstTag \/ (x = CopyTag /\ CopyTag \in tails[t].refs)
    BY <2>1, TagFacts DEF References
  <2>4. CASE x = FirstTag
    BY <2>2, <2>4, FirstObjects, NamesFacts DEF Owner
  <2>5. CASE x = CopyTag /\ DOMAIN queue # {}
    BY <2>2, <2>5, FirstObjects DEF Owner
  <2>6. CASE x = CopyTag /\ heads[CopyName].tail_tag = CopyTag /\ heads[CopyName].tails = FirstManifest
    BY <2>2, <2>6, NamesFacts DEF Owner
  <2> QED
    BY <2>3, <2>4, <2>5, <2>6, FirstObjects
<1>6. \A g \in Gateways : gc[g].pc = "idle" /\ gc[g].marker = 0
  <2>1. PICK zero, no : zero = 0 /\ no = FALSE
    OBVIOUS
  <2>2. PICK rest : rest = Resting /\ rest = [pc |-> "idle", marker |-> zero, first |-> zero,
                                              count |-> zero, truncated |-> no]
    BY <2>1 DEF Resting
  <2>3. rest.pc = "idle" /\ rest.marker = zero
    BY <2>2
  <2> QED
    BY <1>1, <2>1, <2>2, <2>3
<1>7. faults \in FaultStates
  <2>1. PICK zero \in Nat : zero = 0
    OBVIOUS
  <2>2. faults = [failures |-> zero, crashes |-> zero, lapses |-> zero]
    BY <1>1, <2>1
  <2> QED
    BY <2>2 DEF FaultStates
<1>8. CountersOK
  BY <1>1, <1>6, <1>7 DEF CountersOK
<1>9. LockInv /\ WorkInv
  BY <1>6 DEF LockInv, WorkInv
<1> QED
  BY <1>2, <1>3, <1>4, <1>5, <1>8, <1>9 DEF OrphanInv, StoreInv

\* No step loses track of a reference.
LEMMA NextOrphans == TailInv /\ OrphanInv /\ [Next]_vars => OrphanInv'
<1> SUFFICES ASSUME TailInv, OrphanInv, [Next]_vars
             PROVE  OrphanInv'
  OBVIOUS
<1>1. CASE UNCHANGED vars
  BY <1>1, StutterOrphans
<1>2. ASSUME NEW r \in Requests, NEW n \in Names, PutObj(r, n)
      PROVE  OrphanInv'
  BY <1>2, PutObjOrphans
<1>3. ASSUME NEW r \in Requests, NEW n \in Names, DeleteObj(r, n)
      PROVE  OrphanInv'
  BY <1>3, DeleteObjOrphans
<1>4. ASSUME NEW r \in Requests, NEW n \in Names, NEW m \in Names, CopyObj(r, n, m)
      PROVE  OrphanInv'
  BY <1>4, CopyObjOrphans
<1>5. ASSUME NEW r \in Requests,
             GetReference(r) \/ CreateHead(r) \/ ReadState(r) \/ WriteHead(r) \/ LoseRace(r)
      PROVE  OrphanInv'
  BY <1>5, GetReferenceOrphans, CreateHeadOrphans, ReadStateOrphans, WriteHeadOrphans,
     LoseRaceOrphans
<1>6. ASSUME NEW r \in Requests,
             \/ FailRequest(r) \/ Undo(r) \/ FailUndo(r) \/ SendChain(r) \/ FailChain(r)
             \/ DeleteInline(r) \/ FailInline(r) \/ CrashRequest(r)
      PROVE  OrphanInv'
  BY <1>6, FailRequestOrphans, UndoOrphans, SendChainOrphans, FailChainOrphans,
     DeleteInlineOrphans, FailedReleaseOrphans, CrashRequestOrphans
<1>7. ASSUME NEW g \in Gateways, GcLock(g) \/ GcList(g) \/ GcRemove(g) \/ GcStop(g) \/ GcCrash(g)
      PROVE  OrphanInv'
  BY <1>7, GcLockOrphans, GcListOrphans, GcRemoveOrphans, AbandonedOrphans
<1>8. ASSUME NEW p \in puts, PutArrives(p)
      PROVE  OrphanInv'
  BY <1>8, PutArrivesOrphans
<1>9. CASE Expire \/ LockLapses
  BY <1>9, ExpireOrphans, LockLapsesOrphans
<1> QED
  BY <1>1, <1>2, <1>3, <1>4, <1>5, <1>6, <1>7, <1>8, <1>9 DEF Next

\* For every reference to a tail object there is an object, an entry of the queue or a
\* request that will drop it, unless it is one that a request held or had to drop when it
\* died, that a failed clean-up was about (rgw_rados.cc:5001, rgw_putobj_processor.cc:169),
\* that a copy that lost a race held, or that a collector removed from the queue without
\* having listed it: whatever the requests and collectors do otherwise, nothing is left
\* behind (rgw_gc.cc:650, rgw_rados.cc:4933).
THEOREM TailOrphansExplained == Spec => []OrphansExplained
<1>1. TailInv /\ OrphanInv => OrphansExplained
  <2> SUFFICES ASSUME TailInv, OrphanInv, NEW o \in Orphans
               PROVE  o \in excused
    BY DEF OrphansExplained
  <2>1. PICK t \in TailIds, x \in Tags : o = <<t, x>> /\ o[1] = t /\ o[2] = x
    BY DEF Orphans
  <2>2. References(t, x) /\ ~Owned(t, x)
    BY <2>1 DEF Orphans
  <2>3. queue \in Seq(Entries)
    BY DEF TailInv, TailTypeOK
  <2>4. Owner(t, x) => Owned(t, x)
    BY <2>3 DEF Owner, Owned, Holding, ToDrop
  <2> QED
    BY <2>1, <2>2, <2>4 DEF OrphanInv, OwnerInv
<1>2. Init => TailInv /\ OrphanInv
  BY InitTail, InitOrphans
<1>3. (TailInv /\ OrphanInv) /\ [Next]_vars => (TailInv /\ OrphanInv)'
  BY NextTail, NextOrphans
<1> QED
  BY <1>1, <1>2, <1>3, PTL DEF Spec
=============================================================================
