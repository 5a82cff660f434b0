------------------------------ MODULE MonPaxosProofs ------------------------------
(***************************************************************************)
(* MonPaxos proved for any number of monitors, versions and proposals.     *)
(*                                                                         *)
(* ProtocolInv, of every behaviour, is about the course of a round: which  *)
(* proposal numbers exist, in which order collects and answers are on the  *)
(* way, whose answers a leader has counted, and which begins and accepts   *)
(* are still out.  VotingInv is about the values: every vote is safe at    *)
(* its number, and what is stored, sent and learned agrees with the votes. *)
(* It needs that no promise is taken back (PromisesKept), which only a     *)
(* restart does: Paxos::collect leaves accepted_pn in memory.              *)
(* ReadsInv, of every behaviour again, is about the leases: all those of   *)
(* an epoch are for the same versions, and whoever has accepted more has   *)
(* none left.                                                              *)
(***************************************************************************)
EXTENDS MonPaxos, TLAPS, SequenceTheorems, WellFoundedInduction, FiniteSetTheorems

\* Proposed values are numbered; 0 is NoValue.  Versions are counted from 1.
Values == 0..MaxProposals
Counts == 0..MaxVersion
\* what a message carries of a store
Pieces == UNION {[S -> Values] : S \in SUBSET Versions}
\* peer_last_committed
PeerLcs == UNION {[S -> Counts] : S \in SUBSET Mons}

\* The messages, with the fields that MonPaxos gives them.
VictoryMsg == [op : {"victory"}, epoch : Nat, quorum : SUBSET Mons]
CollectMsg == [op : {"collect"}, epoch : Nat, pn : Nat, lc : Counts]
LastMsg == [op : {"last"}, epoch : Nat, pn : Nat, lc : Counts, vals : Pieces, uncommitted_pn : Nat]
BeginMsg == [op : {"begin"}, epoch : Nat, pn : Nat, lc : Counts, val : Values]
AcceptMsg == [op : {"accept"}, epoch : Nat, pn : Nat, lc : Counts]
CommitMsg == [op : {"commit"}, epoch : Nat, lc : Counts, vals : Pieces]
LeaseMsg == [op : {"lease"}, epoch : Nat, lc : Counts]
Message == VictoryMsg \cup CollectMsg \cup LastMsg \cup BeginMsg \cup AcceptMsg
           \cup CommitMsg \cup LeaseMsg

\* MonitorDBStore, and what a monitor keeps in memory
Store == [lc : Counts, vals : [Versions -> Values], pending_v : Nat, pending_pn : Nat,
          accepted_pn : Nat, last_pn : Nat]
Memory == [state : States, accepted_pn : Nat, num_last : Nat,
           uncommitted : [v : Counts, pn : Nat, val : Values],
           peer_lc : PeerLcs, accepted : SUBSET Mons, new_value : Values,
           leased : BOOLEAN, renew : BOOLEAN]

\* The state has its types, whatever the epochs and the numbers come to.
TypesInv ==
    /\ ElectionTypeOK
    /\ disk \in [Mons -> Store]
    /\ mem \in [Mons -> Memory]
    /\ net \in [Channels -> Seq(Message)]
    /\ proposals \in Values /\ renewals \in Nat /\ crashes \in Nat
    /\ votes \subseteq [mon : Mons, v : Versions, pn : Nat, val : Values]
    /\ counted \subseteq Nat \X Mons

\* the number a monitor has last promised not to go below
Promise(m) == mem[m].accepted_pn
Lc(m) == disk[m].lc
State(m) == mem[m].state
IsLeader(m) == role[m] = "leader"
Counted(c, b) == {p \in Mons : <<b, p>> \in c}
\* states of a leader that waits for accepts, or writes what all have accepted
Updating == {"updating", "updating_previous"}
Writing == {"writing", "writing_previous"}
Asking == Updating \cup Writing

\* the messages of a sequence, and their order
Elems(s) == {s[i] : i \in 1..Len(s)}
Precedes(s, x, y) == \E i, j \in 1..Len(s) : i < j /\ s[i] = x /\ s[j] = y

\* messages on the way from l to p
Msgs(n, l, p) == Elems(n[<<l, p>>])
\* x comes before y on the way from l to p
Before(n, l, p, x, y) == Precedes(n[<<l, p>>], x, y)

\* a number that get_new_proposal_number has given out, and stored as last_pn
Issued(d, pn) == pn = 0 \/ \E n \in Mons : pn % Stride = n /\ pn <= d[n].last_pn
Numbered == {"collect", "last", "begin", "accept"}

\* Every number in use was given out by the monitor whose rank it has modulo the
\* stride, and is not above that monitor's last_pn.
NumbersInv ==
    /\ \A m \in Mons : Issued(disk, Promise(m)) /\ Issued(disk, disk[m].accepted_pn)
    /\ \A l, p \in Mons : l # p => \A x \in Msgs(net, l, p) :
         /\ x.op \in Numbered => Issued(disk, x.pn)
         /\ x.op \in {"collect", "begin"} => x.pn % Stride = l
         /\ x.op = "accept" => x.pn % Stride = p
    /\ \A w \in votes : Issued(disk, w.pn)
    /\ \A z \in counted : Issued(disk, z[1])

\* A store holds nothing beyond the version in progress, has pending_v and pending_pn
\* for what it holds of that, and never a promise above the one in memory.
DiskInv == \A m \in Mons :
    /\ \A v \in Versions : v > Lc(m) + 1 => disk[m].vals[v] = NoValue
    /\ Lc(m) + 1 \in Versions /\ disk[m].vals[Lc(m) + 1] # NoValue =>
          disk[m].pending_v = Lc(m) + 1 /\ disk[m].pending_pn > 0
    /\ disk[m].accepted_pn <= Promise(m)

\* A collect on the way is above everything its receiver has promised or answered to
\* its sender, and above what its sender has counted from it; collects keep their order.
CollectsInv == \A l, p \in Mons : l # p =>
    /\ \A x \in Msgs(net, l, p) : x.op = "collect" =>
        /\ 0 < x.pn /\ x.pn <= disk[l].last_pn
        /\ Promise(p) % Stride = l => Promise(p) < x.pn
        /\ \A y \in Msgs(net, p, l) : y.op = "last" /\ y.pn % Stride = l => y.pn < x.pn
        /\ \A z \in counted : z[2] = p /\ z[1] % Stride = l => z[1] < x.pn
    /\ \A x \in Msgs(net, l, p), y \in Msgs(net, l, p) :
         Before(net, l, p, x, y) /\ x.op = "collect" /\ y.op = "collect" => x.pn < y.pn

\* A last on the way means that no answer of its sender to the current round has been
\* counted, and of two lasts only the later one can belong to the current round.
AnswersInv == \A l, p \in Mons : l # p =>
    /\ \A y \in Msgs(net, p, l) : y.op = "last" =>
        \A z \in counted : z[2] = p /\ z[1] % Stride = l => z[1] < disk[l].last_pn
    /\ \A x \in Msgs(net, p, l), y \in Msgs(net, p, l) :
        Before(net, p, l, x, y) /\ x.op = "last" /\ y.op = "last" /\ x.pn % Stride = l =>
            x.pn < disk[l].last_pn

\* x, between p and l, belongs to an epoch of l, and then p to its quorum
OfQuorum(l, p, x) == x.epoch <= epoch[l] /\ (IsLeader(l) /\ x.epoch = epoch[l] => p \in quorum[l])
\* the last version that a last carries
Upto(x) == IF x.uncommitted_pn # 0 THEN x.lc + 1 ELSE x.lc

\* What a message carries of a store is a run of versions; a last starts no further
\* than the store of the leader it goes to, so that store_state can always apply it.
ShapesInv == \A l, p \in Mons : l # p =>
    /\ \A x \in Msgs(net, l, p) : x.op = "collect" => x.lc <= Lc(l) /\ OfQuorum(l, p, x)
    /\ \A x \in Msgs(net, p, l) : x.op = "last" =>
        /\ OfQuorum(l, p, x)
        /\ \E a \in 0..Lc(l) : DOMAIN x.vals = (a + 1)..Upto(x)
        /\ x.uncommitted_pn # 0 => x.lc + 1 \in DOMAIN x.vals /\ x.vals[x.lc + 1] # NoValue
    /\ \A x \in Msgs(net, l, p) : x.op = "begin" => x.lc + 1 \in Versions /\ x.pn > 0
    /\ \A x \in Msgs(net, l, p) : x.op = "commit" => \E a \in Counts : DOMAIN x.vals = (a + 1)..x.lc

\* A leader's own promise is the number of its round; it has counted each answer once,
\* and once it is through with collecting it has counted all of its quorum.
LeaderInv == \A l \in Mons :
    /\ IsLeader(l) =>
        /\ IsMajority(quorum[l]) /\ l \in quorum[l]
        /\ Promise(l) = disk[l].last_pn /\ Promise(l) % Stride = l /\ Promise(l) > 0
        /\ Counted(counted, Promise(l)) \subseteq quorum[l] \ {l}
        /\ State(l) = "recovering" => mem[l].num_last = 1 + Cardinality(Counted(counted, Promise(l)))
        /\ State(l) # "recovering" => Counted(counted, Promise(l)) = quorum[l] \ {l} /\ mem[l].num_last = Cardinality(quorum[l])
    /\ mem[l].uncommitted.v # 0 => mem[l].uncommitted.val # NoValue
    /\ ~IsLeader(l) =>
        /\ State(l) \in {"recovering", "active", "updating"}
        /\ State(l) = "updating" => Promise(l) % Stride # l
        /\ ~mem[l].renew

\* A leader that asks has the value in its store; the begins and the accepts of its
\* round are about that value, at most one on each way, from those not counted yet.
AcceptsInv == \A l \in Mons : IsLeader(l) =>
    /\ (State(l) \in Asking) = (mem[l].new_value # NoValue)
    /\ State(l) \in Asking =>
        /\ mem[l].accepted \subseteq quorum[l] /\ l \in mem[l].accepted
        /\ Lc(l) + 1 \in Versions
        /\ disk[l].vals[Lc(l) + 1] = mem[l].new_value
    /\ State(l) \in Writing => mem[l].accepted = quorum[l]
    /\ \A p \in Mons \ {l} :
        /\ \A x \in Msgs(net, l, p) : x.op = "begin" /\ x.pn = Promise(l) =>
            /\ State(l) \in Updating /\ x.lc = Lc(l) /\ x.val = mem[l].new_value
            /\ p \notin mem[l].accepted /\ p \in quorum[l]
            /\ \A y \in Msgs(net, p, l) : ~(y.op = "accept" /\ y.pn = Promise(l))
        /\ \A y \in Msgs(net, p, l) : y.op = "accept" /\ y.pn = Promise(l) =>
            /\ State(l) \in Updating /\ y.lc = Lc(l)
            /\ p \notin mem[l].accepted /\ p \in quorum[l]
        /\ \A x \in Msgs(net, l, p), y \in Msgs(net, l, p) :
            Before(net, l, p, x, y) /\ x.op = "begin" /\ y.op = "begin" => ~(x.pn = Promise(l) /\ y.pn = Promise(l))
        /\ \A x \in Msgs(net, p, l), y \in Msgs(net, p, l) :
            Before(net, p, l, x, y) /\ x.op = "accept" /\ y.op = "accept" => ~(x.pn = Promise(l) /\ y.pn = Promise(l))
-----------------------------------------------------------------------------
\* a has stored x for version v under the number b
VotedFor(vs, a, v, b, x) == [mon |-> a, v |-> v, pn |-> b, val |-> x] \in vs
\* a has not voted for v under b, and by its promise never will
WontVoteIn(vs, ms, a, v, b) ==
    b < ms[a].accepted_pn /\ \A w \in vs : ~(w.mon = a /\ w.v = v /\ w.pn = b)
\* under no smaller number can a majority have chosen another value
SafeAt(vs, ms, v, b, x) ==
    \A c \in 0..(b - 1) : \E Q \in SUBSET Mons :
        IsMajority(Q) /\ \A a \in Q : VotedFor(vs, a, v, c, x) \/ WontVoteIn(vs, ms, a, v, c)
\* a majority has voted for x under b
ChosenAt(vs, v, b, x) ==
    \E Q \in SUBSET Mons : IsMajority(Q) /\ \A a \in Q : VotedFor(vs, a, v, b, x)
\* a majority has voted for x under one number
Chosen(vs, v, x) == \E w \in vs : ChosenAt(vs, v, w.pn, x)

\* Every vote is safe at its number and within its monitor's promise, and there is one
\* value for each version and number.
VotesInv ==
    /\ \A w \in votes :
        w.pn > 0 /\ w.val # NoValue /\ w.pn <= Promise(w.mon) /\ SafeAt(votes, mem, w.v, w.pn, w.val)
    /\ \A w, z \in votes : w.v = z.v /\ w.pn = z.pn => w.val = z.val

\* What a store has committed was chosen; what it holds beyond that is its monitor's
\* vote of the highest number, and there are no votes further ahead.
StoreInv == \A n \in Mons :
    /\ \A v \in 1..Lc(n) : Chosen(votes, v, disk[n].vals[v])
    /\ \A w \in votes : w.mon = n =>
        /\ w.v <= Lc(n) + 1
        /\ w.v = Lc(n) + 1 => disk[n].vals[w.v] # NoValue /\ w.pn <= disk[n].pending_pn
    /\ Lc(n) + 1 \in Versions /\ disk[n].vals[Lc(n) + 1] # NoValue =>
        VotedFor(votes, n, Lc(n) + 1, disk[n].pending_pn, disk[n].vals[Lc(n) + 1])

\* what a last says of the votes below its number of its sender p
Tells(x, p, l) == \A w \in votes : w.mon = p /\ w.pn < x.pn =>
    /\ w.v <= x.lc + 1
    /\ w.v = x.lc + 1 /\ x.lc >= Lc(l) => w.pn <= x.uncommitted_pn

\* What is sent as committed was chosen; a begin carries its sender's vote, a last and
\* an accept its sender's vote, and a last hides no vote below its number.
MessagesInv == \A l, p \in Mons : l # p =>
  /\ \A x \in Msgs(net, l, p) :
    /\ x.op = "commit" => \A v \in DOMAIN x.vals : Chosen(votes, v, x.vals[v])
    /\ x.op = "begin" => VotedFor(votes, l, x.lc + 1, x.pn, x.val)
  /\ \A x \in Msgs(net, p, l) :
    /\ x.op = "last" =>
        /\ \A v \in DOMAIN x.vals : v <= x.lc => Chosen(votes, v, x.vals[v])
        /\ x.uncommitted_pn # 0 => VotedFor(votes, p, x.lc + 1, x.uncommitted_pn, x.vals[x.lc + 1])
        /\ x.pn <= Promise(p)
        /\ x.pn % Stride = l => x.uncommitted_pn < x.pn /\ Tells(x, p, l)
    /\ x.op = "accept" /\ IsLeader(l) /\ x.pn = Promise(l) => VotedFor(votes, p, Lc(l) + 1, Promise(l), mem[l].new_value)

\* While it collects, a leader knows the highest vote, below its number, of everyone
\* it has counted, and nobody has voted under its number.
Recovering(l, b, u, v) ==
      /\ \A w \in votes : w.pn # b
      /\ \/ u.v = 0 /\ u.pn = 0
         \/ u.v = v /\ u.pn < b /\ \E w \in votes : w.v = v /\ w.pn = u.pn /\ w.val = u.val
      /\ \A w \in votes : w.mon \in Counted(counted, Promise(l)) \cup {l} /\ w.pn < b =>
             w.v <= v /\ (w.v = v => u.v = v /\ w.pn <= u.pn)
\* Whoever a leader has counted stays bound to its number; once it is active none of
\* its quorum has voted beyond what it has committed, and while it asks all votes
\* under its number are for its value.
RoundInv == \A l \in Mons : IsLeader(l) =>
  LET b == Promise(l)
      v == Lc(l) + 1 IN
  /\ \A p \in Counted(counted, Promise(l)) : b <= Promise(p)
  /\ State(l) = "recovering" => Recovering(l, b, mem[l].uncommitted, v)
  /\ State(l) = "active" =>
      \A w \in votes : w.pn = b \/ (w.pn < b /\ w.mon \in quorum[l]) => w.v <= Lc(l)
  /\ State(l) \in Asking =>
      /\ \A w \in votes : w.pn = b \/ (w.pn < b /\ w.mon \in quorum[l]) => w.v <= v
      /\ \A w \in votes : w.pn = b /\ w.v = v => w.val = mem[l].new_value
      /\ \A a \in mem[l].accepted : VotedFor(votes, a, v, b, mem[l].new_value)

\* No step takes back a promise.  Only a restart can: Paxos::init reads accepted_pn from
\* the store, where Paxos::collect has not put it (Paxos.cc:82, 191).
PromisesKept == \A m \in Mons : mem'[m].accepted_pn >= mem[m].accepted_pn

\* The course of a round: the first half of the inductive invariant.
ProtocolInv == /\ TypesInv /\ NumbersInv /\ DiskInv /\ CollectsInv /\ AnswersInv /\ ShapesInv
        /\ LeaderInv /\ AcceptsInv

\* What a step of one monitor does to the network and to the rest of the state.
Taken(from, m) == Head(net[<<from, m>>])
\* nothing new on the way from l to p
Quiet(l, p) ==
    /\ Msgs(net', l, p) \subseteq Msgs(net, l, p)
    /\ \A x, y : Before(net', l, p, x, y) => Before(net, l, p, x, y)
\* of what is new on the way from m to p, all is in O, no two of one kind
Sent(m, p, O) ==
    /\ Msgs(net', m, p) \subseteq Msgs(net, m, p) \cup O
    /\ \A x, y : Before(net', m, p, x, y) =>
         Before(net, m, p, x, y) \/ (y \in O /\ (x.op # y.op \/ x \in Msgs(net, m, p)))
\* the first message on the way from from to m is gone
Takes(from, m) ==
    /\ Taken(from, m) \in Msgs(net, from, m)
    /\ \A x \in Msgs(net', from, m) : Before(net, from, m, Taken(from, m), x)
\* a step of m: everybody else's state and everybody else's messages stay, numbers,
\* committed versions, epochs and histories grow
Only(m) ==
    /\ \A n \in Mons \ {m} :
        /\ disk'[n] = disk[n] /\ mem'[n] = mem[n]
        /\ role'[n] = role[n] /\ epoch'[n] = epoch[n] /\ quorum'[n] = quorum[n] /\ leader'[n] = leader[n]
    /\ disk'[m].lc >= disk[m].lc /\ disk'[m].last_pn >= disk[m].last_pn /\ epoch'[m] >= epoch[m]
    /\ \A l, p \in Mons : l # p /\ l # m => Quiet(l, p)
    /\ votes \subseteq votes' /\ counted \subseteq counted'
\* nobody votes and nothing is counted
SameHistory == votes' = votes /\ counted' = counted
SameElectionOf(m) ==
    role'[m] = role[m] /\ epoch'[m] = epoch[m] /\ quorum'[m] = quorum[m] /\ leader'[m] = leader[m]

-----------------------------------------------------------------------------
(* Sequences of messages and the network.                                  *)

\* get_new_proposal_number: the next multiple of the stride plus the rank is larger and
\* has the rank as its remainder.
LEMMA DivMod ==
    ASSUME NEW S \in Nat \ {0}, NEW x \in Nat, NEW m \in Nat, m < S
    PROVE  /\ (x \div S + 1) * S + m \in Nat
           /\ (x \div S + 1) * S + m > x
           /\ ((x \div S + 1) * S + m) % S = m
<1>1. x \div S \in Nat /\ x % S \in 0..(S-1) /\ x = S * (x \div S) + (x % S)
  OBVIOUS
<1>2. PICK q \in Nat : q = x \div S
  BY <1>1
<1>3. (q + 1) * S + m \in Nat /\ (q+1)*S + m > x
  BY <1>1, <1>2
<1>4. ((q+1)*S + m) % S = m
  OBVIOUS
<1> QED BY <1>2, <1>3, <1>4

\* A nonempty set of numbers has a least one.
LEMMA MinOfNats ==
    ASSUME NEW S, S \subseteq Nat, S # {}
    PROVE  Min(S) \in S
<1>1. PICK R : R = OpToRel(<, Nat)
  OBVIOUS
<1>2. IsWellFoundedOn(R, Nat)
  BY <1>1, NatLessThanWellFounded
<1>3. PICK x \in S : \A y \in S : ~(<<y, x>> \in R)
  BY <1>2, WFMin
<1>4. \A y \in S : ~(y < x)
  BY <1>1, <1>3 DEF OpToRel
<1>5. \A y \in S : x <= y
  BY <1>4
<1> QED
  BY <1>5 DEF Min

\* A suffix of a sequence has its elements, in its order.
LEMMA Suffix ==
    ASSUME NEW S, NEW s \in Seq(S), NEW k \in 1..(Len(s) + 1)
    PROVE  LET t == SubSeq(s, k, Len(s)) IN
           /\ t \in Seq(S) /\ Elems(t) \subseteq Elems(s)
           /\ \A x, y : Precedes(t, x, y) => Precedes(s, x, y)
<1> DEFINE t == SubSeq(s, k, Len(s))
<1>0. k \in Int /\ Len(s) \in Int /\ \A i \in k..Len(s) : s[i] \in S
  OBVIOUS
<1>1. /\ t \in Seq(S)
      /\ Len(t) = IF k <= Len(s) THEN Len(s) - k + 1 ELSE 0
      /\ \A i \in 1..(Len(s)-k+1) : t[i] = s[k+i-1]
  BY <1>0, SubSeqProperties
<1>2. Len(t) = Len(s) - k + 1
  BY <1>1
<1> HIDE DEF t
<1>3. ASSUME NEW x \in Elems(t) PROVE x \in Elems(s)
  <2>1. PICK i \in 1..Len(t) : x = t[i]
    BY DEF Elems
  <2>2. k+i-1 \in 1..Len(s) /\ s[k+i-1] = x
    BY <2>1, <1>1, <1>2
  <2> QED BY <2>2 DEF Elems
<1>4. ASSUME NEW x, NEW y, Precedes(t, x, y) PROVE Precedes(s, x, y)
  <2>1. PICK i, j \in 1..Len(t) : i < j /\ t[i] = x /\ t[j] = y
    BY <1>4 DEF Precedes
  <2>2. k+i-1 \in 1..Len(s) /\ k+j-1 \in 1..Len(s) /\ k+i-1 < k+j-1
    BY <2>1, <1>2
  <2>3. s[k+i-1] = x /\ s[k+j-1] = y
    BY <2>1, <1>1, <1>2
  <2> QED BY <2>2, <2>3 DEF Precedes
<1> QED BY <1>1, <1>3, <1>4 DEF t

\* The elements of two sequences joined, and their order.
LEMMA Joined ==
    ASSUME NEW S, NEW s \in Seq(S), NEW t \in Seq(S)
    PROVE  /\ s \o t \in Seq(S)
           /\ \A x \in Elems(s \o t) : x \in Elems(s) \/ x \in Elems(t)
           /\ \A x, y : Precedes(s \o t, x, y) =>
                Precedes(s, x, y) \/ Precedes(t, x, y) \/ (x \in Elems(s) /\ y \in Elems(t))
<1> DEFINE r == s \o t
<1>1. /\ r \in Seq(S) /\ Len(r) = Len(s) + Len(t)
      /\ \A i \in 1..(Len(s) + Len(t)) : r[i] = IF i <= Len(s) THEN s[i] ELSE t[i - Len(s)]
  BY ConcatProperties
<1>0. Len(s) \in Nat /\ Len(t) \in Nat
  OBVIOUS
<1> HIDE DEF r
<1>2. \A i \in 1..Len(r) : \/ i \in 1..Len(s) /\ r[i] = s[i]
                           \/ i - Len(s) \in 1..Len(t) /\ r[i] = t[i - Len(s)] /\ i > Len(s)
  BY <1>1, <1>0
<1>3. \A x \in Elems(r) : x \in Elems(s) \/ x \in Elems(t)
  BY <1>2 DEF Elems
<1>4. ASSUME NEW x, NEW y, Precedes(r, x, y)
      PROVE  Precedes(s, x, y) \/ Precedes(t, x, y) \/ (x \in Elems(s) /\ y \in Elems(t))
  <2>1. PICK i, j \in 1..Len(r) : i < j /\ r[i] = x /\ r[j] = y
    BY <1>4 DEF Precedes
  <2>2. CASE j \in 1..Len(s) /\ r[j] = s[j]
    <3>1. i \in 1..Len(s) /\ r[i] = s[i]
      BY <2>1, <2>2, <1>2, <1>0
    <3> QED BY <3>1, <2>1, <2>2 DEF Precedes
  <2>3. CASE j - Len(s) \in 1..Len(t) /\ r[j] = t[j - Len(s)] /\ j > Len(s)
    <3>1. CASE i \in 1..Len(s) /\ r[i] = s[i]
      BY <3>1, <2>1, <2>3 DEF Elems
    <3>2. CASE i - Len(s) \in 1..Len(t) /\ r[i] = t[i - Len(s)] /\ i > Len(s)
      <4>1. i - Len(s) < j - Len(s)
        BY <2>1, <1>0
      <4> QED BY <4>1, <3>2, <2>1, <2>3 DEF Precedes
    <3> QED BY <3>1, <3>2, <2>1, <1>2
  <2> QED BY <2>2, <2>3, <2>1, <1>2
<1> QED BY <1>1, <1>3, <1>4 DEF r

\* Without its head a sequence is what comes after the head.
LEMMA Rest ==
    ASSUME NEW S, NEW s \in Seq(S), s # <<>>
    PROVE  /\ Tail(s) \in Seq(S) /\ Head(s) \in Elems(s) /\ Head(s) \in S
           /\ \A x \in Elems(Tail(s)) : x \in Elems(s) /\ Precedes(s, Head(s), x)
           /\ \A x, y : Precedes(Tail(s), x, y) => Precedes(s, x, y)
<1> DEFINE t == Tail(s)
<1>1. /\ Head(s) \in S /\ t \in Seq(S) /\ Len(t) = Len(s) - 1
      /\ \A i \in 1..Len(t) : t[i] = s[i + 1]
  BY HeadTailProperties
<1>2. Len(s) \in Nat /\ Len(s) > 0 /\ Head(s) = s[1]
  OBVIOUS
<1> HIDE DEF t
<1>3. Head(s) \in Elems(s)
  BY <1>2 DEF Elems
<1>4. ASSUME NEW x \in Elems(t) PROVE x \in Elems(s) /\ Precedes(s, Head(s), x)
  <2>1. PICK i \in 1..Len(t) : x = t[i]
    BY DEF Elems
  <2>2. i + 1 \in 1..Len(s) /\ s[i + 1] = x /\ 1 < i + 1 /\ 1 \in 1..Len(s)
    BY <2>1, <1>1, <1>2
  <2> QED BY <2>2, <1>2 DEF Elems, Precedes
<1>5. ASSUME NEW x, NEW y, Precedes(t, x, y) PROVE Precedes(s, x, y)
  <2>1. PICK i, j \in 1..Len(t) : i < j /\ t[i] = x /\ t[j] = y
    BY <1>5 DEF Precedes
  <2>2. i+1 \in 1..Len(s) /\ j+1 \in 1..Len(s) /\ i+1 < j+1 /\ s[i+1] = x /\ s[j+1] = y
    BY <2>1, <1>1, <1>2
  <2> QED BY <2>2 DEF Precedes
<1> QED BY <1>1, <1>3, <1>4, <1>5 DEF t

\* What dispatch drops leaves the rest in order.
LEMMA CurrentSuffix ==
    ASSUME NEW c, NEW s \in Seq(Message)
    PROVE  /\ Current(c, s) \in Seq(Message) /\ Elems(Current(c, s)) \subseteq Elems(s)
           /\ \A x, y : Precedes(Current(c, s), x, y) => Precedes(s, x, y)
<1> DEFINE I == {i \in 1..Len(s) : s[i].epoch >= epoch'[c[2]]} \cup {Len(s) + 1}
<1>1. I \subseteq Nat /\ I # {} /\ I \subseteq 1..(Len(s) + 1)
  OBVIOUS
<1>2. PICK k \in 1..(Len(s) + 1) : k = Min(I)
  <2> HIDE DEF I
  <2> QED BY <1>1, MinOfNats
<1>3. Current(c, s) = SubSeq(s, k, Len(s))
  BY <1>2 DEF Current
<1> HIDE DEF I
<1> QED
  BY <1>2, <1>3, Suffix

\* What is on the way after a step of m: what was, without the message it takes, and
\* then what it sends.
LEMMA Delivery ==
    ASSUME net \in [Channels -> Seq(Message)], NEW m \in Mons, NEW from \in Mons, NEW out,
           DOMAIN out \subseteq Mons, \A p \in DOMAIN out : out[p] \in Seq(Message),
           from # m => net[<<from, m>>] # <<>>, Exchange(from, m, out)
    PROVE  /\ net' \in [Channels -> Seq(Message)]
           /\ \A l, p \in Mons : l # p =>
               /\ \A x \in Msgs(net', l, p) :
                   x \in Msgs(net, l, p) \/ (l = m /\ p \in DOMAIN out /\ x \in Elems(out[p]))
               /\ \A x, y : Before(net', l, p, x, y) =>
                   \/ Before(net, l, p, x, y)
                   \/ /\ l = m /\ p \in DOMAIN out
                      /\ Precedes(out[p], x, y) \/ (x \in Msgs(net, l, p) /\ y \in Elems(out[p]))
           /\ from # m => \A x \in Msgs(net', from, m) : Before(net, from, m, Head(net[<<from, m>>]), x)
<1> DEFINE Good(l, p) ==
        /\ net'[<<l, p>>] \in Seq(Message)
        /\ \A x \in Msgs(net', l, p) :
                   x \in Msgs(net, l, p) \/ (l = m /\ p \in DOMAIN out /\ x \in Elems(out[p]))
        /\ \A x, y : Before(net', l, p, x, y) =>
                   \/ Before(net, l, p, x, y)
                   \/ /\ l = m /\ p \in DOMAIN out
                      /\ Precedes(out[p], x, y) \/ (x \in Msgs(net, l, p) /\ y \in Elems(out[p]))
        /\ l = from /\ p = m => \A x \in Msgs(net', l, p) : Before(net, l, p, Head(net[<<l, p>>]), x)
<1>1. ASSUME NEW l \in Mons, NEW p \in Mons, l # p
      PROVE  Good(l, p)
  <2> DEFINE c == <<l, p>>
  <2>0. c \in Channels /\ c[1] = l /\ c[2] = p
    BY <1>1 DEF Channels
  <2>1. net[c] \in Seq(Message)
    BY <2>0
  <2>2. net'[c] = IF l = m /\ p \in DOMAIN out THEN Current(c, net[c] \o out[p])
        ELSE IF c = <<from, m>> THEN Current(c, Tail(net[c]))
        ELSE IF p = m THEN Current(c, net[c])
        ELSE net[c]
    BY <2>0 DEF Exchange
  <2> HIDE DEF c
  <2>m. Msgs(net, l, p) = Elems(net[c]) /\ Msgs(net', l, p) = Elems(net'[c])
    BY DEF Msgs, c
  <2>b. \A x, y : (Before(net, l, p, x, y) <=> Precedes(net[c], x, y)) /\ (Before(net', l, p, x, y) <=> Precedes(net'[c], x, y))
    BY DEF Before, c
  <2>3. CASE l = m /\ p \in DOMAIN out
    <3> DEFINE j == net[c] \o out[p]
    <3>1. /\ j \in Seq(Message)
          /\ \A x \in Elems(j) : x \in Elems(net[c]) \/ x \in Elems(out[p])
          /\ \A x, y : Precedes(j, x, y) =>
                Precedes(net[c], x, y) \/ Precedes(out[p], x, y) \/ (x \in Elems(net[c]) /\ y \in Elems(out[p]))
      BY <2>1, <2>3, Joined
    <3>2. net'[c] = Current(c, j)
      BY <2>2, <2>3
    <3> HIDE DEF j
    <3>3. /\ net'[c] \in Seq(Message) /\ Elems(net'[c]) \subseteq Elems(j)
          /\ \A x, y : Precedes(net'[c], x, y) => Precedes(j, x, y)
      BY <3>1, <3>2, CurrentSuffix
    <3>4. p # m
      BY <1>1, <2>3
    <3> QED BY <3>1, <3>3, <3>4, <2>3, <2>m, <2>b DEF c
  <2>4. CASE ~(l = m /\ p \in DOMAIN out) /\ c = <<from, m>>
    <3>0. l = from /\ p = m /\ from # m /\ net[c] # <<>>
      BY <2>4, <1>1 DEF c
    <3>1. /\ Tail(net[c]) \in Seq(Message)
          /\ \A x \in Elems(Tail(net[c])) : x \in Elems(net[c]) /\ Precedes(net[c], Head(net[c]), x)
          /\ \A x, y : Precedes(Tail(net[c]), x, y) => Precedes(net[c], x, y)
      BY <3>0, <2>1, Rest
    <3>2. net'[c] = Current(c, Tail(net[c]))
      BY <2>2, <2>4
    <3>3. /\ net'[c] \in Seq(Message) /\ Elems(net'[c]) \subseteq Elems(Tail(net[c]))
          /\ \A x, y : Precedes(net'[c], x, y) => Precedes(Tail(net[c]), x, y)
      BY <3>1, <3>2, CurrentSuffix
    <3> QED BY <3>0, <3>1, <3>3, <2>m, <2>b DEF c
  <2>5. CASE ~(l = m /\ p \in DOMAIN out) /\ c # <<from, m>>
    <3>0. ~(l = from /\ p = m)
      BY <2>5 DEF c
    <3>3. /\ net'[c] \in Seq(Message) /\ Elems(net'[c]) \subseteq Elems(net[c])
          /\ \A x, y : Precedes(net'[c], x, y) => Precedes(net[c], x, y)
      BY <2>1, <2>2, <2>5, CurrentSuffix
    <3> QED BY <3>0, <3>3, <2>m, <2>b DEF c
  <2> QED BY <2>3, <2>4, <2>5
<1>2. net' \in [Channels -> Seq(Message)]
  <2>1. net' = [c \in Channels |-> net'[c]]
    BY DEF Exchange
  <2>2. ASSUME NEW c \in Channels PROVE net'[c] \in Seq(Message)
    <3>1. c = <<c[1], c[2]>> /\ c[1] \in Mons /\ c[2] \in Mons /\ c[1] # c[2]
      BY DEF Channels
    <3> QED BY <3>1, <1>1
  <2> HIDE DEF Good
  <2> QED BY <2>1, <2>2
<1> QED BY <1>1, <1>2

-----------------------------------------------------------------------------
(* The operators on the store.                                             *)

\* What the bounds are, from the assumptions on the constants.
LEMMA Bounds ==
    /\ Stride \in Nat /\ MaxVersion \in Nat /\ MaxProposals \in Nat
    /\ 0 \in Counts /\ 0 \in Values /\ NoValue = 0
    /\ \A m \in Mons : m \in Nat /\ m < Stride /\ Stride \in Nat \ {0}
    /\ Counts \subseteq Nat /\ Values \subseteq Nat /\ Versions \subseteq Nat
    /\ \A x \in Nat : (x \in Counts <=> x <= MaxVersion) /\ (x \in Versions <=> x > 0 /\ x <= MaxVersion)
BY PaxosConstants, ElectionConstants DEF Counts, Values, Versions, NoValue

\* The larger of two numbers.
LEMMA MaxOfTwo ==
    ASSUME NEW x \in Nat, NEW y \in Nat
    PROVE  Max({x, y}) \in {x, y} /\ Max({x, y}) >= x /\ Max({x, y}) >= y
BY DEF Max

\* A largest element is the maximum.
LEMMA MaxIs ==
    ASSUME NEW S, S \subseteq Int, NEW x \in S, \A y \in S : x >= y
    PROVE  Max(S) = x
<1>1. PICK z : z = Max(S)
  OBVIOUS
<1>2. z \in S /\ z >= x
  BY <1>1 DEF Max
<1>3. z \in Int /\ x \in Int /\ x >= z
  BY <1>2
<1>4. z = x
  BY <1>2, <1>3
<1> QED
  BY <1>1, <1>4

\* A smallest element is the minimum.
LEMMA MinIs ==
    ASSUME NEW S, S \subseteq Int, NEW x \in S, \A y \in S : x <= y
    PROVE  Min(S) = x
<1>1. PICK z : z = Min(S)
  OBVIOUS
<1>2. z \in S /\ z <= x
  BY <1>1 DEF Min
<1>3. z \in Int /\ x \in Int /\ x <= z
  BY <1>2
<1>4. z = x
  BY <1>2, <1>3
<1> QED
  BY <1>1, <1>4

\* The fields of a store.
LEMMA StoreTypes ==
    ASSUME NEW d \in Store
    PROVE  /\ d.lc \in Counts /\ d.lc \in Nat
           /\ d.vals \in [Versions -> Values]
           /\ d.pending_v \in Nat /\ d.pending_pn \in Nat /\ d.accepted_pn \in Nat /\ d.last_pn \in Nat
BY Bounds DEF Store

\* A new proposal number is above last_pn and above what it must exceed, and has the
\* rank of its monitor as its remainder.
LEMMA NextPnIs ==
    ASSUME NEW d \in Store, NEW m \in Mons, NEW gt \in Nat
    PROVE  /\ NextPn(d, m, gt) \in Nat
           /\ NextPn(d, m, gt) > d.last_pn /\ NextPn(d, m, gt) > gt
           /\ NextPn(d, m, gt) % Stride = m
<1>1. d.last_pn \in Nat /\ m \in Nat /\ m < Stride /\ Stride \in Nat \ {0}
  BY StoreTypes, Bounds
<1>2. PICK x \in Nat : x = Max({d.last_pn, gt}) /\ x >= d.last_pn /\ x >= gt
  BY <1>1, MaxOfTwo
<1>3. NextPn(d, m, gt) = (x \div Stride + 1) * Stride + m
  BY <1>2 DEF NextPn
<1>4. PICK n : n = (x \div Stride + 1) * Stride + m
  OBVIOUS
<1>5. n \in Nat /\ n > x /\ n % Stride = m
  BY <1>1, <1>4, DivMod
<1> QED
  BY <1>1, <1>2, <1>3, <1>4, <1>5

\* What collect finds in its own store: the version in progress and its number, or nothing.
LEMMA UncommittedIs ==
    ASSUME NEW d \in Store, NEW pn \in Nat
    PROVE  LET u == Uncommitted(d, pn) IN
           /\ u \in [v : Counts, pn : Nat, val : Values]
           /\ \/ u.v = 0 /\ u.pn = 0 /\ ~(d.lc + 1 \in Versions /\ d.vals[d.lc + 1] # NoValue)
              \/ /\ u.v = d.lc + 1 /\ d.lc + 1 \in Versions /\ d.vals[d.lc + 1] # NoValue
                 /\ u.val = d.vals[d.lc + 1]
                 /\ d.pending_v = d.lc + 1 => u.pn = d.pending_pn
BY StoreTypes, Bounds DEF Uncommitted

\* The versions that store_state applies: those after its own, if they are without a gap.
LEMMA StoredIs ==
    ASSUME NEW d \in Store, NEW msg, msg.lc \in Counts, NEW a \in Nat, NEW k \in Nat,
           DOMAIN msg.vals = (a + 1)..k, k >= msg.lc
    PROVE  Stored(d, msg) = IF a <= d.lc THEN (d.lc + 1)..msg.lc ELSE {}
<1>1. d.lc \in Nat /\ msg.lc \in Nat
  BY StoreTypes, Bounds
<1>2. CASE k <= a
  <2>1. DOMAIN msg.vals = {}
    BY <1>2
  <2>2. Stored(d, msg) = {}
    BY <2>1 DEF Stored
  <2>3. a <= d.lc => (d.lc + 1)..msg.lc = {}
    BY <1>1, <1>2
  <2> QED BY <2>2, <2>3
<1>3. CASE k > a
  <2>1. Min(DOMAIN msg.vals) = a + 1
    <3>1. (a + 1) \in (a + 1)..k /\ (a + 1)..k \subseteq Int /\ \A y \in (a + 1)..k : a + 1 <= y
      BY <1>3
    <3> QED BY <3>1, MinIs
  <2>2. msg.vals # <<>>
    <3> SUFFICES ASSUME msg.vals = <<>> PROVE FALSE
      OBVIOUS
    <3>1. a + 1 \in DOMAIN msg.vals
      BY <1>3
    <3>2. DOMAIN <<>> = {}
      OBVIOUS
    <3> QED BY <3>1, <3>2
  <2>3. Stored(d, msg) = IF a + 1 > d.lc + 1 THEN {} ELSE {v \in (a + 1)..k : d.lc < v /\ v <= msg.lc}
    BY <2>1, <2>2 DEF Stored
  <2>4. ASSUME a <= d.lc PROVE {v \in (a + 1)..k : d.lc < v /\ v <= msg.lc} = (d.lc + 1)..msg.lc
    <3>1. \A v : v \in {w \in (a + 1)..k : d.lc < w /\ w <= msg.lc} <=> v \in (d.lc + 1)..msg.lc
      BY <2>4, <1>1
    <3> QED BY <3>1
  <2>5. CASE a <= d.lc
    <3>1. ~(a + 1 > d.lc + 1)
      BY <2>5, <1>1
    <3> QED BY <3>1, <2>3, <2>4, <2>5
  <2>6. CASE ~(a <= d.lc)
    <3>1. a + 1 > d.lc + 1
      BY <2>6, <1>1
    <3> QED BY <3>1, <2>3, <2>6
  <2> QED BY <2>5, <2>6
<1> QED BY <1>2, <1>3

\* store_state applies a run of versions that starts no further than the store: it only
\* adds versions after those it has, and they are the message's.
LEMMA Storing ==
    ASSUME NEW d \in Store, NEW msg, msg.lc \in Counts, msg.vals \in Pieces, NEW a \in Nat, NEW k \in Nat,
           DOMAIN msg.vals = (a + 1)..k, k >= msg.lc
    PROVE  LET e == store_state(d, msg) IN
           /\ e \in Store /\ e.lc >= d.lc /\ (e.lc = d.lc \/ e.lc = msg.lc)
           /\ a <= d.lc => e.lc >= msg.lc
           /\ e.pending_v = d.pending_v /\ e.pending_pn = d.pending_pn
           /\ e.accepted_pn = d.accepted_pn /\ e.last_pn = d.last_pn
           /\ \A v \in Versions :
               /\ v <= d.lc \/ v > e.lc => e.vals[v] = d.vals[v]
               /\ d.lc < v /\ v <= e.lc =>
                   v \in DOMAIN msg.vals /\ v <= msg.lc /\ e.vals[v] = msg.vals[v]
<1> DEFINE S == Stored(d, msg)
           e == store_state(d, msg)
<1>0. d.lc \in Nat /\ msg.lc \in Nat /\ d.lc \in Counts /\ d.vals \in [Versions -> Values]
  BY StoreTypes, Bounds
<1>1. S = IF a <= d.lc THEN (d.lc + 1)..msg.lc ELSE {}
  BY StoredIs
<1> HIDE DEF S
<1>2. Max(S \cup {d.lc}) = IF a <= d.lc /\ msg.lc > d.lc THEN msg.lc ELSE d.lc
  <2>1. CASE a <= d.lc /\ msg.lc > d.lc
    <3>1. S \cup {d.lc} \subseteq Int /\ msg.lc \in S \cup {d.lc} /\ \A y \in S \cup {d.lc} : msg.lc >= y
      BY <2>1, <1>1, <1>0
    <3> QED BY <3>1, <2>1, MaxIs
  <2>2. CASE ~(a <= d.lc /\ msg.lc > d.lc)
    <3>1. S \cup {d.lc} = {d.lc}
      BY <2>2, <1>1, <1>0
    <3>2. {d.lc} \subseteq Int /\ d.lc \in {d.lc} /\ \A y \in {d.lc} : d.lc >= y
      BY <1>0
    <3> QED BY <3>1, <3>2, <2>2, MaxIs
  <2> QED BY <2>1, <2>2
<1>3. e = [d EXCEPT !.lc = Max(S \cup {d.lc}),
                    !.vals = [v \in Versions |-> IF v \in S THEN msg.vals[v] ELSE d.vals[v]]]
  BY DEF store_state, S
<1>4. PICK k2 \in Counts : k2 = Max(S \cup {d.lc})
  BY <1>2, <1>0
<1>5. PICK f : f = [v \in Versions |-> IF v \in S THEN msg.vals[v] ELSE d.vals[v]]
  OBVIOUS
<1>6. S \subseteq DOMAIN msg.vals /\ \A v \in DOMAIN msg.vals : msg.vals[v] \in Values
  <2>1. S \subseteq DOMAIN msg.vals
    BY <1>1, <1>0
  <2> QED BY <2>1 DEF Pieces
<1>7. f \in [Versions -> Values]
  BY <1>5, <1>6, <1>0
<1>8. e = [d EXCEPT !.lc = k2, !.vals = f]
  BY <1>3, <1>4, <1>5
<1> HIDE DEF e
<1>9. /\ e \in Store /\ e.lc = k2 /\ e.vals = f
      /\ e.pending_v = d.pending_v /\ e.pending_pn = d.pending_pn
      /\ e.accepted_pn = d.accepted_pn /\ e.last_pn = d.last_pn
  BY <1>8, <1>7 DEF Store
<1>10. \A v \in Versions : v \in S <=> (d.lc < v /\ v <= k2)
  <2>1. k2 \in Nat /\ Versions \subseteq Nat
    BY Bounds
  <2>2. CASE a <= d.lc /\ msg.lc > d.lc
    <3>1. k2 = msg.lc /\ S = (d.lc + 1)..msg.lc
      BY <2>2, <1>1, <1>2, <1>4
    <3> QED BY <3>1, <2>1, <1>0
  <2>3. CASE ~(a <= d.lc /\ msg.lc > d.lc)
    <3>1. k2 = d.lc
      BY <2>3, <1>2, <1>4
    <3>2. \A v : v \notin S
      BY <2>3, <1>1, <1>0
    <3> QED BY <3>1, <3>2, <2>1, <1>0
  <2> QED BY <2>2, <2>3
<1>11. \A v \in Versions :
               /\ v <= d.lc \/ v > e.lc => e.vals[v] = d.vals[v]
               /\ d.lc < v /\ v <= e.lc =>
                   v \in DOMAIN msg.vals /\ v <= msg.lc /\ e.vals[v] = msg.vals[v]
  <2> TAKE v \in Versions
  <2>1. v \in Nat
    BY Bounds
  <2>2. k2 \in Nat
    BY Bounds
  <2>3. f[v] = IF v \in S THEN msg.vals[v] ELSE d.vals[v]
    BY <1>5
  <2>4. v <= d.lc \/ v > e.lc => e.vals[v] = d.vals[v]
    BY <2>1, <2>2, <2>3, <1>9, <1>10, <1>0
  <2>5. ASSUME d.lc < v, v <= e.lc PROVE v \in DOMAIN msg.vals /\ v <= msg.lc /\ e.vals[v] = msg.vals[v]
    <3>1. v \in S
      BY <2>5, <1>9, <1>10
    <3>2. v \in DOMAIN msg.vals /\ v <= msg.lc
      BY <3>1, <1>1, <1>6
    <3> QED BY <3>1, <3>2, <2>3, <1>9
  <2> QED BY <2>4, <2>5
<1>12. k2 >= d.lc /\ (k2 = d.lc \/ k2 = msg.lc) /\ (a <= d.lc => k2 >= msg.lc)
  BY <1>2, <1>4, <1>0
<1> QED
  BY <1>9, <1>11, <1>12 DEF e

-----------------------------------------------------------------------------
(* What is sent.                                                           *)

\* A message is one of its kind.
LEMMA MessageTypes ==
    ASSUME NEW x \in Message
    PROVE  /\ x.epoch \in Nat
           /\ x.op = "victory" => x \in VictoryMsg
           /\ x.op = "collect" => x \in CollectMsg
           /\ x.op = "last" => x \in LastMsg
           /\ x.op = "begin" => x \in BeginMsg
           /\ x.op = "accept" => x \in AcceptMsg
           /\ x.op = "commit" => x \in CommitMsg
           /\ x.op = "lease" => x \in LeaseMsg
           /\ x.op \in Numbered => x.pn \in Nat
BY DEF Message, VictoryMsg, CollectMsg, LastMsg, BeginMsg, AcceptMsg, CommitMsg, LeaseMsg, Numbered

\* Whatever is on the way is a message.
LEMMA OnTheWay ==
    ASSUME TypesInv, NEW l \in Mons, NEW p \in Mons, l # p, NEW x \in Msgs(net, l, p)
    PROVE  x \in Message
<1>1. net[<<l, p>>] \in Seq(Message)
  BY DEF TypesInv, Channels
<1> QED BY <1>1 DEF Msgs, Elems

\* Whatever is on the way after a step is a message.
LEMMA OnTheWayNext ==
    ASSUME TypesInv', NEW l \in Mons, NEW p \in Mons, l # p, NEW x \in Msgs(net', l, p)
    PROVE  x \in Message
<1>1. net'[<<l, p>>] \in Seq(Message)
  BY DEF TypesInv, Channels
<1> QED BY <1>1 DEF Msgs, Elems

\* The message at the head is on the way.
LEMMA TakenIs ==
    ASSUME TypesInv, NEW m \in Mons, NEW from \in Mons \ {m}, net[<<from, m>>] # <<>>
    PROVE  Taken(from, m) \in Message /\ Taken(from, m) \in Msgs(net, from, m)
<1>1. net[<<from, m>>] \in Seq(Message)
  BY DEF TypesInv, Channels
<1> QED
  BY <1>1, Rest DEF Taken, Msgs

\* The elements of no message and of one.
LEMMA ShortSequences ==
    ASSUME NEW a
    PROVE  /\ Elems(<<>>) = {} /\ \A x, y : ~Precedes(<<>>, x, y)
           /\ Elems(<<a>>) = {a} /\ \A x, y : ~Precedes(<<a>>, x, y)
BY DEF Elems, Precedes

\* The elements of two messages, and their order.
LEMMA SequenceOfTwo ==
    ASSUME NEW a, NEW b
    PROVE  /\ Elems(<<a, b>>) = {a, b} /\ \A x, y : Precedes(<<a, b>>, x, y) => x = a /\ y = b
BY DEF Elems, Precedes

\* The elements of what handle_last sends: a commit to those behind, then the message.
LEMMA SequenceWithCommit ==
    ASSUME NEW a \in Message, NEW b \in Message, NEW c \in BOOLEAN
    PROVE  LET s == (IF c THEN <<a>> ELSE <<>>) \o <<b>>
               t == (IF c THEN <<a>> ELSE <<>>) \o <<>> IN
           /\ s \in Seq(Message) /\ Elems(s) \subseteq {b} \cup {x \in {a} : c}
           /\ \A x, y : Precedes(s, x, y) => x = a /\ y = b
           /\ t \in Seq(Message) /\ Elems(t) \subseteq {x \in {a} : c}
           /\ \A x, y : ~Precedes(t, x, y)
<1> DEFINE f == IF c THEN <<a>> ELSE <<>>
<1>1. f \in Seq(Message) /\ <<b>> \in Seq(Message) /\ <<>> \in Seq(Message)
  OBVIOUS
<1>2. /\ Elems(f) \subseteq {x \in {a} : c} /\ \A x, y : ~Precedes(f, x, y)
      /\ Elems(<<b>>) = {b} /\ \A x, y : ~Precedes(<<b>>, x, y)
      /\ Elems(<<>>) = {} /\ \A x, y : ~Precedes(<<>>, x, y)
  BY ShortSequences
<1> HIDE DEF f
<1>3. /\ f \o <<b>> \in Seq(Message)
      /\ \A x \in Elems(f \o <<b>>) : x \in Elems(f) \/ x \in Elems(<<b>>)
      /\ \A x, y : Precedes(f \o <<b>>, x, y) =>
            Precedes(f, x, y) \/ Precedes(<<b>>, x, y) \/ (x \in Elems(f) /\ y \in Elems(<<b>>))
  BY <1>1, Joined
<1>4. /\ f \o <<>> \in Seq(Message)
      /\ \A x \in Elems(f \o <<>>) : x \in Elems(f) \/ x \in Elems(<<>>)
      /\ \A x, y : Precedes(f \o <<>>, x, y) =>
            Precedes(f, x, y) \/ Precedes(<<>>, x, y) \/ (x \in Elems(f) /\ y \in Elems(<<>>))
  BY <1>1, Joined
<1>5. Elems(f \o <<b>>) \subseteq {b} \cup {x \in {a} : c} /\ \A x, y : Precedes(f \o <<b>>, x, y) => x = a /\ y = b
  BY <1>2, <1>3
<1>6. Elems(f \o <<>>) \subseteq {x \in {a} : c} /\ \A x, y : ~Precedes(f \o <<>>, x, y)
  BY <1>2, <1>4
<1> QED
  BY <1>3, <1>4, <1>5, <1>6 DEF f

\* Exchange in the terms of Quiet, Sent and Takes.
LEMMA Sending ==
    ASSUME TypesInv, NEW m \in Mons, NEW from \in Mons, NEW out,
           DOMAIN out \subseteq Mons,
           \A p \in DOMAIN out : out[p] \in Seq(Message) /\ \A x, y : Precedes(out[p], x, y) => x.op # y.op,
           from # m => net[<<from, m>>] # <<>>, Exchange(from, m, out)
    PROVE  /\ net' \in [Channels -> Seq(Message)]
           /\ \A l, p \in Mons : l # p /\ l # m => Quiet(l, p)
           /\ \A p \in DOMAIN out \ {m} : Sent(m, p, Elems(out[p]))
           /\ \A p \in Mons \ {m} : p \notin DOMAIN out => Quiet(m, p)
           /\ from # m => Takes(from, m)
<1>1. /\ net' \in [Channels -> Seq(Message)]
      /\ \A l, p \in Mons : l # p =>
          /\ \A x \in Msgs(net', l, p) :
              x \in Msgs(net, l, p) \/ (l = m /\ p \in DOMAIN out /\ x \in Elems(out[p]))
          /\ \A x, y : Before(net', l, p, x, y) =>
              \/ Before(net, l, p, x, y)
              \/ /\ l = m /\ p \in DOMAIN out
                 /\ Precedes(out[p], x, y) \/ (x \in Msgs(net, l, p) /\ y \in Elems(out[p]))
      /\ from # m => \A x \in Msgs(net', from, m) : Before(net, from, m, Head(net[<<from, m>>]), x)
  <2>1. net \in [Channels -> Seq(Message)]
    BY DEF TypesInv
  <2> QED BY <2>1, Delivery
<1>2. from # m => Taken(from, m) \in Msgs(net, from, m)
  <2> SUFFICES ASSUME from # m PROVE Taken(from, m) \in Msgs(net, from, m)
    OBVIOUS
  <2>1. net[<<from, m>>] \in Seq(Message) /\ net[<<from, m>>] # <<>>
    BY DEF TypesInv, Channels
  <2> QED BY <2>1, Rest DEF Taken, Msgs
<1>3. from # m => Takes(from, m)
  BY <1>1, <1>2 DEF Takes, Taken
<1>4. \A l, p \in Mons : l # p /\ l # m => Quiet(l, p)
  BY <1>1 DEF Quiet
<1>5. \A p \in Mons \ {m} : p \notin DOMAIN out => Quiet(m, p)
  BY <1>1 DEF Quiet
<1>6. ASSUME NEW p \in DOMAIN out \ {m} PROVE Sent(m, p, Elems(out[p]))
  <2>1. p \in Mons /\ m # p
    OBVIOUS
  <2>2. \A x, y : Precedes(out[p], x, y) => y \in Elems(out[p])
    BY DEF Precedes, Elems
  <2> QED BY <2>1, <2>2, <1>1 DEF Sent
<1> QED
  BY <1>1, <1>3, <1>4, <1>5, <1>6

-----------------------------------------------------------------------------
(* What one step does: an election, a lease.                               *)

\* The fields of a monitor's memory.
LEMMA MemoryTypes ==
    ASSUME NEW s \in Memory
    PROVE  /\ s.state \in States /\ s.accepted_pn \in Nat /\ s.num_last \in Nat
           /\ s.uncommitted \in [v : Counts, pn : Nat, val : Values]
           /\ s.peer_lc \in PeerLcs /\ s.accepted \in SUBSET Mons /\ s.new_value \in Values
           /\ s.leased \in BOOLEAN /\ s.renew \in BOOLEAN
BY DEF Memory

\* What Paxos::restart and a crash leave in memory.
LEMMA RestingIs ==
    ASSUME NEW pn \in Nat
    PROVE  /\ Resting(pn) \in Memory
           /\ Resting(pn).state = "recovering" /\ Resting(pn).accepted_pn = pn
           /\ Resting(pn).accepted = {} /\ Resting(pn).new_value = NoValue
           /\ Resting(pn).renew = FALSE /\ Resting(pn).num_last = 0 /\ Resting(pn).leased = FALSE
<1>1. PICK f : f = [p \in {} |-> 0]
  OBVIOUS
<1>2. f \in PeerLcs
  <2>1. f \in [{} -> Counts]
    BY <1>1
  <2> QED BY <2>1 DEF PeerLcs
<1>3. 0 \in Values /\ 0 \in Counts /\ NoValue = 0
  BY Bounds
<1>4. PICK u : u = [v |-> 0, pn |-> 0, val |-> NoValue]
  OBVIOUS
<1>5. u \in [v : Counts, pn : Nat, val : Values]
  BY <1>3, <1>4
<1>6. Resting(pn) = [state |-> "recovering", accepted_pn |-> pn, num_last |-> 0,
     uncommitted |-> u, peer_lc |-> f, accepted |-> {}, new_value |-> NoValue,
     leased |-> FALSE, renew |-> FALSE]
  BY <1>1, <1>4 DEF Resting
<1> QED
  BY <1>2, <1>3, <1>5, <1>6 DEF Memory, States

\* A monitor that calls an election leads no longer.
LEMMA LeaveTypes ==
    ASSUME ElectionTypeOK, NEW m \in Mons, NEW e \in Nat, Leave(m, e)
    PROVE  /\ ElectionTypeOK' /\ role'[m] = "electing" /\ epoch'[m] >= epoch[m]
           /\ \A n \in Mons \ {m} : role'[n] = role[n] /\ epoch'[n] = epoch[n] /\ quorum'[n] = quorum[n] /\ leader'[n] = leader[n]
BY DEF ElectionTypeOK, Leave, NoLeader

\* A monitor that follows is a peon.
LEMMA FollowTypes ==
    ASSUME ElectionTypeOK, NEW m \in Mons, NEW c, Follow(m, c)
    PROVE  /\ ElectionTypeOK' /\ role'[m] = "peon" /\ epoch'[m] >= epoch[m]
           /\ leader'[m] = c.leader /\ epoch'[m] = c.epoch /\ c.leader \in Mons \ {m}
           /\ \A n \in Mons \ {m} : role'[n] = role[n] /\ epoch'[n] = epoch[n] /\ quorum'[n] = quorum[n] /\ leader'[n] = leader[n]
<1>1. c.leader \in Mons /\ c.epoch \in Nat /\ c.quorum \in SUBSET Mons
  BY DEF ElectionTypeOK, Follow
<1> QED
  BY <1>1 DEF ElectionTypeOK, Follow, NoLeader

\* A monitor that wins leads a majority that it belongs to, in the next epoch.
LEMMA ClaimTypes ==
    ASSUME ElectionTypeOK, NEW m \in Mons, NEW Q \in SUBSET Mons, Claim(m, Q)
    PROVE  /\ ElectionTypeOK' /\ role'[m] = "leader" /\ epoch'[m] = epoch[m] + 1 /\ quorum'[m] = Q
           /\ IsMajority(Q) /\ m \in Q /\ leader'[m] = m
           /\ \A n \in Mons \ {m} : role'[n] = role[n] /\ epoch'[n] = epoch[n] /\ quorum'[n] = quorum[n] /\ leader'[n] = leader[n]
<1>1. PICK c : c = [leader |-> m, epoch |-> epoch[m] + 1, quorum |-> Q]
  OBVIOUS
<1>2. c \in [leader : Mons, epoch : Nat, quorum : SUBSET Mons] /\ claims' = claims \cup {c}
  BY <1>1 DEF ElectionTypeOK, Claim
<1> QED
  BY <1>2 DEF ElectionTypeOK, Claim, NoLeader

\* What holds of the election when it is unchanged.
LEMMA SameElectionTypes ==
    ASSUME ElectionTypeOK, SameElection
    PROVE  /\ ElectionTypeOK'
           /\ \A n \in Mons : role'[n] = role[n] /\ epoch'[n] = epoch[n] /\ quorum'[n] = quorum[n] /\ leader'[n] = leader[n]
           /\ \A n \in Mons : epoch[n] \in Nat
BY DEF ElectionTypeOK, SameElection, electionVars

\* When a store and the memory of one monitor are written, the others' stay.
LEMMA Writes ==
    ASSUME TypesInv, NEW m \in Mons, NEW d \in Store, NEW s \in Memory,
           disk' = [disk EXCEPT ![m] = d], mem' = [mem EXCEPT ![m] = s]
    PROVE  /\ disk' \in [Mons -> Store] /\ mem' \in [Mons -> Memory]
           /\ disk'[m] = d /\ mem'[m] = s
           /\ \A n \in Mons \ {m} : disk'[n] = disk[n] /\ mem'[n] = mem[n]
BY DEF TypesInv

\* To leave a store and a memory alone is to write what is there.
LEMMA Unwritten ==
    ASSUME TypesInv, NEW m \in Mons
    PROVE  /\ disk[m] \in Store /\ mem[m] \in Memory /\ epoch[m] \in Nat
           /\ disk = [disk EXCEPT ![m] = disk[m]] /\ mem = [mem EXCEPT ![m] = mem[m]]
BY DEF TypesInv, ElectionTypeOK

\* the bounds and the histories have their types
CountsOK == proposals \in Values /\ renewals \in Nat /\ crashes \in Nat
HistoryOK ==
    /\ votes \subseteq [mon : Mons, v : Versions, pn : Nat, val : Values]
    /\ counted \subseteq Nat \X Mons

\* The counters keep their types.
LEMMA IdleTypes ==
    ASSUME TypesInv, Idle
    PROVE  CountsOK'
BY DEF TypesInv, Idle, CountsOK

\* The histories keep their types.
LEMMA NoVoteTypes ==
    ASSUME TypesInv, NoVote
    PROVE  HistoryOK' /\ SameHistory /\ votes \subseteq votes' /\ counted \subseteq counted'
BY DEF TypesInv, NoVote, HistoryOK, paxosHistory, SameHistory

\* Nothing goes to nobody.
LEMMA NothingSent ==
    /\ DOMAIN Nothing \subseteq Mons
    /\ \A p \in DOMAIN Nothing : Nothing[p] \in Seq(Message) /\ \A x, y : Precedes(Nothing[p], x, y) => x.op # y.op
    /\ \A p : p \notin DOMAIN Nothing
BY DEF Nothing

\* A monitor that sends nothing adds nothing to the network.
LEMMA SendingNothing ==
    ASSUME TypesInv, NEW m \in Mons, NEW from \in Mons,
           from # m => net[<<from, m>>] # <<>>, Exchange(from, m, Nothing)
    PROVE  /\ net' \in [Channels -> Seq(Message)]
           /\ \A l, p \in Mons : l # p => Quiet(l, p)
           /\ from # m => Takes(from, m)
<1>1. /\ net' \in [Channels -> Seq(Message)]
      /\ \A l, p \in Mons : l # p /\ l # m => Quiet(l, p)
      /\ \A p \in Mons \ {m} : p \notin DOMAIN Nothing => Quiet(m, p)
      /\ from # m => Takes(from, m)
  BY NothingSent, Sending
<1> QED
  BY <1>1, NothingSent

\* whom m follows has told it of its victory
Follows(m) ==
    /\ leader'[m] \in Mons \ {m}
    /\ \E x \in Msgs(net, leader'[m], m) : x.op = "victory" /\ x.epoch = epoch'[m]

\* An election that starts, is lost, or interrupts: the monitor leads no longer and
\* rests, with its promise.
LEMMA RetireStep ==
    ASSUME ProtocolInv, NEW m \in Mons, NEW from \in Mons,
           StartElection(m) \/ HandleVictory(from, m) \/ DropOrBootstrap(from, m)
    PROVE  /\ TypesInv' /\ Only(m) /\ SameHistory /\ disk' = disk
           /\ \A l, p \in Mons : l # p => Quiet(l, p)
           /\ mem'[m] = Resting(mem[m].accepted_pn) /\ role'[m] # "leader"
           /\ role'[m] = "peon" => Follows(m)
<1>0. TypesInv /\ ElectionTypeOK
  BY DEF ProtocolInv, TypesInv
<1>1. /\ disk' = disk /\ mem' = [mem EXCEPT ![m] = Resting(mem[m].accepted_pn)]
      /\ Idle /\ NoVote
  BY DEF StartElection, HandleVictory, DropOrBootstrap
<1>2. /\ ElectionTypeOK' /\ role'[m] # "leader" /\ epoch'[m] >= epoch[m]
      /\ role'[m] = "peon" => Follows(m)
      /\ \A n \in Mons \ {m} : role'[n] = role[n] /\ epoch'[n] = epoch[n] /\ quorum'[n] = quorum[n] /\ leader'[n] = leader[n]
  <2>1. CASE StartElection(m)
    <3>1. PICK e \in Epochs : Leave(m, e)
      BY <2>1 DEF StartElection
    <3>2. e \in Nat
      BY ElectionConstants
    <3> QED BY <3>1, <3>2, <1>0, LeaveTypes
  <2>2. CASE HandleVictory(from, m)
    <3> DEFINE msg == Head(net[<<from, m>>])
               c == [leader |-> from, epoch |-> msg.epoch, quorum |-> msg.quorum]
    <3>1. \/ Follow(m, c)
          \/ msg.epoch + 1 \in Epochs /\ Leave(m, msg.epoch + 1)
      BY <2>2 DEF HandleVictory
    <3>c. c.leader = from /\ c.epoch = msg.epoch
      OBVIOUS
    <3>v. net[<<from, m>>] # <<>> /\ msg.op = "victory"
      BY <2>2 DEF HandleVictory, Arrives
    <3> HIDE DEF c
    <3>2. CASE Follow(m, c)
      <4>1. /\ ElectionTypeOK' /\ role'[m] = "peon" /\ epoch'[m] >= epoch[m]
            /\ leader'[m] = from /\ epoch'[m] = msg.epoch /\ from \in Mons \ {m}
            /\ \A n \in Mons \ {m} : role'[n] = role[n] /\ epoch'[n] = epoch[n] /\ quorum'[n] = quorum[n] /\ leader'[n] = leader[n]
        BY <3>2, <3>c, <1>0, FollowTypes
      <4>2. net[<<from, m>>] \in Seq(Message)
        BY <4>1, <1>0 DEF TypesInv, Channels
      <4>3. msg \in Msgs(net, from, m)
        BY <4>2, <3>v, Rest DEF Msgs
      <4>4. Follows(m)
        BY <4>1, <4>3, <3>v DEF Follows
      <4> QED BY <4>1, <4>4
    <3>3. CASE msg.epoch + 1 \in Epochs /\ Leave(m, msg.epoch + 1)
      <4>1. msg.epoch + 1 \in Nat
        BY <3>3, ElectionConstants
      <4> QED BY <4>1, <3>3, <1>0, LeaveTypes
    <3> QED BY <3>1, <3>2, <3>3
  <2>3. CASE DropOrBootstrap(from, m)
    <3>1. \/ Leave(m, epoch[m])
          \/ role[m] = "electing" /\ SameElection
      BY <2>3 DEF DropOrBootstrap
    <3>2. epoch[m] \in Nat
      BY <1>0, Unwritten
    <3>3. CASE Leave(m, epoch[m])
      BY <3>3, <3>2, <1>0, LeaveTypes
    <3>4. CASE role[m] = "electing" /\ SameElection
      BY <3>4, <3>2, <1>0, SameElectionTypes
    <3> QED BY <3>1, <3>3, <3>4
  <2> QED BY <2>1, <2>2, <2>3
<1>3. /\ net' \in [Channels -> Seq(Message)] /\ \A l, p \in Mons : l # p => Quiet(l, p)
  <2>1. CASE StartElection(m)
    BY <2>1, <1>0, SendingNothing DEF StartElection
  <2>2. CASE HandleVictory(from, m)
    BY <2>2, <1>0, SendingNothing DEF HandleVictory, Arrives
  <2>3. CASE DropOrBootstrap(from, m)
    BY <2>3, <1>0, SendingNothing DEF DropOrBootstrap
  <2> QED BY <2>1, <2>2, <2>3
<1>4. disk[m] \in Store /\ Resting(mem[m].accepted_pn) \in Memory /\ disk' = [disk EXCEPT ![m] = disk[m]]
  BY <1>0, <1>1, Unwritten, MemoryTypes, RestingIs
<1>5. /\ disk' \in [Mons -> Store] /\ mem' \in [Mons -> Memory]
      /\ mem'[m] = Resting(mem[m].accepted_pn)
      /\ \A n \in Mons \ {m} : disk'[n] = disk[n] /\ mem'[n] = mem[n]
  BY <1>0, <1>1, <1>4, Writes
<1>6. CountsOK' /\ HistoryOK' /\ SameHistory /\ votes \subseteq votes' /\ counted \subseteq counted'
  BY <1>0, <1>1, IdleTypes, NoVoteTypes
<1>7. TypesInv'
  BY <1>2, <1>3, <1>5, <1>6 DEF TypesInv, CountsOK, HistoryOK
<1>8. disk[m].lc \in Nat /\ disk[m].last_pn \in Nat
  BY <1>4, StoreTypes
<1>9. Only(m)
  BY <1>1, <1>2, <1>3, <1>5, <1>6, <1>8 DEF Only
<1> QED
  BY <1>1, <1>2, <1>3, <1>5, <1>6, <1>7, <1>9

\* What holds of the network, of the bounds and of the histories in any step of m.
NetStep(m) ==
    /\ net' \in [Channels -> Seq(Message)]
    /\ \A l, p \in Mons : l # p /\ l # m => Quiet(l, p)
HistoryStep ==
    /\ proposals' \in Values /\ renewals' \in Nat /\ crashes' \in Nat
    /\ votes' \subseteq [mon : Mons, v : Versions, pn : Nat, val : Values]
    /\ counted' \subseteq Nat \X Mons
    /\ votes \subseteq votes' /\ counted \subseteq counted'
\* Of the store, what only grows.
Grows(d, e) == e.lc >= d.lc /\ e.last_pn >= d.last_pn

\* the leases that m may renew
Leases(m) == {x \in Message : x.op = "lease" /\ x.epoch = epoch[m] /\ x.lc = disk[m].lc /\ mem[m].renew}

\* A step that writes the store and the memory of m is a step of m only.
LEMMA Local ==
    ASSUME TypesInv, NEW m \in Mons, NEW d \in Store, NEW s \in Memory,
           disk' = [disk EXCEPT ![m] = d], mem' = [mem EXCEPT ![m] = s],
           HistoryStep, SameElection, NetStep(m), Grows(disk[m], d)
    PROVE  /\ TypesInv' /\ Only(m) /\ disk'[m] = d /\ mem'[m] = s /\ SameElectionOf(m)
<1>1. /\ disk' \in [Mons -> Store] /\ mem' \in [Mons -> Memory]
      /\ disk'[m] = d /\ mem'[m] = s
      /\ \A n \in Mons \ {m} : disk'[n] = disk[n] /\ mem'[n] = mem[n]
  BY Writes
<1>2. /\ ElectionTypeOK'
      /\ \A n \in Mons : role'[n] = role[n] /\ epoch'[n] = epoch[n] /\ quorum'[n] = quorum[n] /\ leader'[n] = leader[n]
      /\ \A n \in Mons : epoch[n] \in Nat
  BY SameElectionTypes DEF TypesInv
<1>3. TypesInv'
  BY <1>1, <1>2 DEF TypesInv, HistoryStep, NetStep
<1>4. Only(m)
  BY <1>1, <1>2 DEF Only, HistoryStep, NetStep, Grows
<1> QED
  BY <1>1, <1>2, <1>3, <1>4 DEF SameElectionOf

\* One message to each of some monitors.
LEMMA SendingOne ==
    ASSUME TypesInv, NEW m \in Mons, NEW from \in Mons, NEW P \in SUBSET Mons, NEW msg \in Message,
           from # m => net[<<from, m>>] # <<>>,
           NEW out, DOMAIN out = P, \A p \in P : out[p] = <<msg>>, Exchange(from, m, out)
    PROVE  /\ NetStep(m)
           /\ \A p \in P \ {m} : Sent(m, p, {msg})
           /\ \A p \in Mons \ {m} : p \notin P => Quiet(m, p)
           /\ from # m => Takes(from, m)
<1>2. <<msg>> \in Seq(Message) /\ Elems(<<msg>>) = {msg} /\ \A x, y : ~Precedes(<<msg>>, x, y)
  BY ShortSequences
<1>a. DOMAIN out \subseteq Mons
  OBVIOUS
<1>b. \A p \in DOMAIN out : out[p] \in Seq(Message) /\ \A x, y : Precedes(out[p], x, y) => x.op # y.op
  BY <1>2
<1>4. /\ net' \in [Channels -> Seq(Message)]
      /\ \A l, p \in Mons : l # p /\ l # m => Quiet(l, p)
      /\ \A p \in DOMAIN out \ {m} : Sent(m, p, Elems(out[p]))
      /\ \A p \in Mons \ {m} : p \notin DOMAIN out => Quiet(m, p)
      /\ from # m => Takes(from, m)
  BY <1>a, <1>b, Sending
<1>5. NetStep(m)
  BY <1>4 DEF NetStep
<1> QED
  BY <1>2, <1>4, <1>5

\* A store that stays has grown by nothing.
LEMMA GrowsSame ==
    ASSUME NEW d \in Store
    PROVE  Grows(d, d)
BY StoreTypes DEF Grows

\* A step without votes and without proposals leaves counters and histories.
LEMMA IdleStep ==
    ASSUME TypesInv, Idle, NoVote
    PROVE  HistoryStep /\ SameHistory
BY DEF TypesInv, Idle, NoVote, HistoryStep, paxosHistory, SameHistory

\* A step that takes a message and sends none.
LEMMA TakingOnly ==
    ASSUME TypesInv, NEW m \in Mons, NEW from \in Mons,
           from # m => net[<<from, m>>] # <<>>, Exchange(from, m, Nothing)
    PROVE  /\ NetStep(m)
           /\ \A p \in Mons \ {m} : Quiet(m, p)
           /\ from # m => Takes(from, m)
BY SendingNothing DEF NetStep

\* To send nothing is to send no more than O.
LEMMA QuietSends ==
    ASSUME NEW m, NEW p, NEW O, Quiet(m, p)
    PROVE  Sent(m, p, O)
BY DEF Quiet, Sent

\* What is within O is within a larger set.
LEMMA SendsMore ==
    ASSUME NEW m, NEW p, NEW O, NEW P, O \subseteq P, Sent(m, p, O)
    PROVE  Sent(m, p, P)
BY DEF Sent

\* the leader of m has sent it a lease for what it has committed
Leased(m) == \E x \in Msgs(net, leader[m], m) : x.op = "lease" /\ x.epoch = epoch[m] /\ x.lc = disk[m].lc

\* The effect of a step that counts for nothing in a round.
Passive(m) ==
    /\ SameHistory /\ disk'[m] = disk[m]
    /\ \A p \in Mons \ {m} : Sent(m, p, Leases(m)) /\ (p \notin quorum[m] => Quiet(m, p))
    /\ mem'[m].leased = mem[m].leased \/ role[m] = "leader" \/ Leased(m)
    /\ mem'[m].accepted_pn = mem[m].accepted_pn /\ mem'[m].num_last = mem[m].num_last
    /\ mem'[m].uncommitted = mem[m].uncommitted /\ mem'[m].accepted = mem[m].accepted
    /\ mem'[m].new_value = mem[m].new_value /\ mem'[m].renew = mem[m].renew
    /\ mem'[m].state = mem[m].state \/ (role[m] = "peon" /\ mem'[m].state = "active")

\* handle_lease changes nothing but the state and the lease of a peon.
LEMMA LeaseStep ==
    ASSUME ProtocolInv, NEW m \in Mons, NEW from \in Mons \ {m}, handle_lease(from, m)
    PROVE  TypesInv' /\ Only(m) /\ SameElectionOf(m) /\ Passive(m)
<1>0. TypesInv
  BY DEF ProtocolInv
<1> DEFINE s == [mem[m] EXCEPT !.state = "active", !.leased = TRUE]
<1>1. mem[m] \in Memory /\ disk[m] \in Store /\ s \in Memory
  <2>1. mem[m] \in Memory /\ disk[m] \in Store
    BY <1>0, Unwritten
  <2> QED BY <2>1 DEF Memory, States
<1>2. /\ disk' = disk /\ SameElection /\ Idle /\ NoVote
      /\ net[<<from, m>>] # <<>> /\ Exchange(from, m, Nothing)
      /\ mem' = mem \/ (role[m] = "peon" /\ Leased(m) /\ mem' = [mem EXCEPT ![m] = s])
  <2>1. mem[m] = [mem[m] EXCEPT !.state = @] /\ m \in DOMAIN mem
    BY <1>0, <1>1 DEF Memory, TypesInv
  <2>2. [mem EXCEPT ![m].state = "active", ![m].leased = TRUE] = [mem EXCEPT ![m] = s]
    BY <2>1
  <2>3. Taken(from, m) \in Msgs(net, from, m)
    BY <1>0, TakenIs DEF handle_lease, Dispatched, Arrives
  <2>4. mem' # mem => role[m] = "peon" /\ Leased(m)
    BY <2>3 DEF handle_lease, Dispatched, Arrives, Taken, Leased
  <2> QED BY <2>2, <2>4 DEF handle_lease, Dispatched, Arrives
<1>3. \E r \in {mem[m], s} : mem' = [mem EXCEPT ![m] = r] /\ (r = mem[m] \/ (role[m] = "peon" /\ Leased(m)))
  BY <1>0, <1>2, Unwritten
<1>4. PICK r \in {mem[m], s} : mem' = [mem EXCEPT ![m] = r] /\ (r = mem[m] \/ (role[m] = "peon" /\ Leased(m)))
  BY <1>3
<1>5. r \in Memory
  BY <1>1, <1>4
<1>6. NetStep(m) /\ \A p \in Mons \ {m} : Quiet(m, p)
  BY <1>0, <1>2, TakingOnly
<1>7. HistoryStep /\ SameHistory
  BY <1>0, <1>2, IdleStep
<1>8. disk' = [disk EXCEPT ![m] = disk[m]] /\ Grows(disk[m], disk[m])
  BY <1>0, <1>1, <1>2, Unwritten, GrowsSame
<1>9. TypesInv' /\ Only(m) /\ disk'[m] = disk[m] /\ mem'[m] = r /\ SameElectionOf(m)
  BY <1>0, <1>1, <1>2, <1>4, <1>5, <1>6, <1>7, <1>8, Local
<1>10. /\ r.accepted_pn = mem[m].accepted_pn /\ r.num_last = mem[m].num_last
       /\ r.uncommitted = mem[m].uncommitted /\ r.accepted = mem[m].accepted
       /\ r.new_value = mem[m].new_value /\ r.renew = mem[m].renew
       /\ r.state = mem[m].state \/ (role[m] = "peon" /\ r.state = "active")
  BY <1>1, <1>4 DEF Memory
<1>11. \A p \in Mons \ {m} : Sent(m, p, Leases(m))
  BY <1>6, QuietSends
<1> QED
  BY <1>4, <1>6, <1>7, <1>9, <1>10, <1>11 DEF Passive

\* lease_renew_timeout changes nothing but the lease.
LEMMA RenewStep ==
    ASSUME ProtocolInv, NEW m \in Mons, lease_renew_timeout(m)
    PROVE  TypesInv' /\ Only(m) /\ SameElectionOf(m) /\ Passive(m)
<1>0. TypesInv
  BY DEF ProtocolInv
<1> DEFINE s == [mem[m] EXCEPT !.leased = TRUE]
           msg == Lease(m, disk[m])
           P == quorum[m] \ {m}
<1>1. mem[m] \in Memory /\ disk[m] \in Store /\ s \in Memory
  <2>1. mem[m] \in Memory /\ disk[m] \in Store
    BY <1>0, Unwritten
  <2> QED BY <2>1 DEF Memory
<1>2. /\ disk' = disk /\ SameElection /\ NoVote /\ renewals' = renewals + 1
      /\ proposals' = proposals /\ crashes' = crashes
      /\ Exchange(m, m, [p \in P |-> <<msg>>])
      /\ mem' = [mem EXCEPT ![m] = s] /\ mem[m].renew
  BY DEF lease_renew_timeout, ToPeers
<1>l. role[m] = "leader"
  BY <1>2 DEF ProtocolInv, LeaderInv, IsLeader
<1>m. msg.epoch = epoch[m] /\ msg.lc = disk[m].lc
  BY DEF Lease
<1>3. msg \in LeaseMsg /\ msg.op = "lease" /\ P \in SUBSET Mons
  <2>1. disk[m].lc \in Counts /\ epoch[m] \in Nat
    BY <1>0, <1>1, StoreTypes, Unwritten
  <2>2. P \in SUBSET Mons
    BY <1>0 DEF TypesInv, ElectionTypeOK
  <2> QED BY <2>1, <2>2 DEF Lease, LeaseMsg
<1>4. msg \in Message
  BY <1>3 DEF Message
<1>n. {msg} \subseteq Leases(m)
  BY <1>2, <1>3, <1>4, <1>m DEF Leases
<1>5. PICK out : out = [p \in P |-> <<msg>>]
  OBVIOUS
<1>55. DOMAIN out = P /\ (\A p \in P : out[p] = <<msg>>) /\ Exchange(m, m, out)
  BY <1>2, <1>5
<1> HIDE DEF msg, P
<1>6. /\ NetStep(m)
      /\ \A p \in P \ {m} : Sent(m, p, {msg})
      /\ \A p \in Mons \ {m} : p \notin P => Quiet(m, p)
  BY <1>0, <1>3, <1>4, <1>55, SendingOne
<1>7. HistoryStep /\ SameHistory
  BY <1>0, <1>2 DEF TypesInv, NoVote, paxosHistory, HistoryStep, SameHistory
<1>8. disk' = [disk EXCEPT ![m] = disk[m]] /\ Grows(disk[m], disk[m])
  BY <1>0, <1>1, <1>2, Unwritten, GrowsSame
<1>9. TypesInv' /\ Only(m) /\ disk'[m] = disk[m] /\ mem'[m] = s /\ SameElectionOf(m)
  BY <1>0, <1>1, <1>2, <1>6, <1>7, <1>8, Local
<1>10. /\ s.accepted_pn = mem[m].accepted_pn /\ s.num_last = mem[m].num_last
       /\ s.uncommitted = mem[m].uncommitted /\ s.accepted = mem[m].accepted
       /\ s.new_value = mem[m].new_value /\ s.renew = mem[m].renew
       /\ s.state = mem[m].state
  BY <1>1 DEF Memory
<1>11. \A p \in Mons \ {m} : Sent(m, p, Leases(m))
  BY <1>n, <1>6, QuietSends, SendsMore
<1>12. \A p \in Mons \ {m} : p \notin quorum[m] => Quiet(m, p)
  BY <1>6 DEF P
<1> QED
  BY <1>7, <1>9, <1>10, <1>11, <1>12, <1>l DEF Passive

-----------------------------------------------------------------------------
(* What one step does: begin, accept, commit, collect.                     *)

\* the accept of m, and its vote
AcceptOf(m) == [op |-> "accept", epoch |-> epoch[m], pn |-> mem[m].accepted_pn, lc |-> disk[m].lc]
VoteOf(m, pn, val) == [mon |-> m, v |-> disk[m].lc + 1, pn |-> pn, val |-> val]

\* Accepted stores a value for the version in progress, with its number.
LEMMA AcceptedIs ==
    ASSUME NEW d \in Store, NEW val \in Values, NEW pn \in Nat, d.lc + 1 \in Versions
    PROVE  LET e == Accepted(d, val, pn) IN
           /\ e \in Store /\ e.lc = d.lc /\ e.last_pn = d.last_pn /\ e.accepted_pn = d.accepted_pn
           /\ e.pending_v = d.lc + 1 /\ e.pending_pn = pn
           /\ e.vals[d.lc + 1] = val /\ \A v \in Versions : v # d.lc + 1 => e.vals[v] = d.vals[v]
           /\ Grows(d, e)
<1>1. d.lc \in Nat /\ d.vals \in [Versions -> Values] /\ d.last_pn \in Nat /\ d.lc + 1 \in Nat
  BY StoreTypes
<1>2. PICK f : f = [d.vals EXCEPT ![d.lc + 1] = val]
  OBVIOUS
<1>3. /\ f \in [Versions -> Values] /\ f[d.lc + 1] = val
      /\ \A v \in Versions : v # d.lc + 1 => f[v] = d.vals[v]
  BY <1>1, <1>2
<1>4. PICK e : e = [d EXCEPT !.vals = f, !.pending_v = d.lc + 1, !.pending_pn = pn]
  OBVIOUS
<1>5. Accepted(d, val, pn) = e
  BY <1>2, <1>4 DEF Accepted, Store
<1>6. /\ e \in Store /\ e.lc = d.lc /\ e.last_pn = d.last_pn /\ e.accepted_pn = d.accepted_pn
      /\ e.pending_v = d.lc + 1 /\ e.pending_pn = pn /\ e.vals = f
  BY <1>1, <1>3, <1>4 DEF Store
<1> QED
  BY <1>1, <1>3, <1>5, <1>6 DEF Grows

\* handle_begin drops a begin below its promise, or stores the value, votes and accepts.
LEMMA BeginStep ==
    ASSUME ProtocolInv, NEW m \in Mons, NEW from \in Mons \ {m}, handle_begin(from, m)
    PROVE  /\ TypesInv' /\ Only(m) /\ SameElectionOf(m) /\ counted' = counted
           /\ \/ Passive(m)
              \/ LET t == Taken(from, m) IN
                 /\ t \in BeginMsg /\ t \in Msgs(net, from, m) /\ t.op = "begin"
                 /\ t.pn = mem[m].accepted_pn /\ t.lc = disk[m].lc /\ disk[m].lc + 1 \in Versions
                 /\ Takes(from, m)
                 /\ disk'[m] = Accepted(disk[m], t.val, t.pn)
                 /\ mem'[m].state = "updating" /\ mem'[m].accepted_pn = mem[m].accepted_pn
                 /\ mem'[m].uncommitted = mem[m].uncommitted /\ mem'[m].renew = mem[m].renew
                 /\ ~mem'[m].leased
                 /\ votes' = votes \cup {VoteOf(m, t.pn, t.val)}
                 /\ Sent(m, from, {AcceptOf(m)})
                 /\ \A p \in Mons \ {m, from} : Quiet(m, p)
<1>0. TypesInv /\ ShapesInv
  BY DEF ProtocolInv
<1> DEFINE t == Taken(from, m)
           s == [mem[m] EXCEPT !.state = "updating", !.leased = FALSE]
<1>1. /\ mem[m] \in Memory /\ disk[m] \in Store /\ epoch[m] \in Nat
      /\ mem[m].accepted_pn \in Nat /\ disk[m].lc \in Counts
  BY <1>0, Unwritten, MemoryTypes, StoreTypes
<1>2. /\ SameElection /\ Idle /\ counted' = counted /\ net[<<from, m>>] # <<>> /\ t.op = "begin"
  BY DEF handle_begin, Dispatched, Arrives, Taken
<1>3. t \in BeginMsg /\ t \in Msgs(net, from, m) /\ t.lc + 1 \in Versions /\ t.pn \in Nat /\ t.val \in Values
  <2>1. t \in Message /\ t \in Msgs(net, from, m)
    BY <1>0, <1>2, TakenIs
  <2>2. t \in BeginMsg
    BY <2>1, <1>2, MessageTypes
  <2>3. t.lc + 1 \in Versions
    BY <1>0, <1>2, <2>1 DEF ShapesInv
  <2> QED BY <2>1, <2>2, <2>3 DEF BeginMsg
<1>4. CASE t.pn < mem[m].accepted_pn
  <2>1. Exchange(from, m, Nothing) /\ disk' = disk /\ mem' = mem /\ votes' = votes
    BY <1>4 DEF handle_begin, Taken
  <2>2. NetStep(m) /\ \A p \in Mons \ {m} : Quiet(m, p)
    BY <1>0, <1>2, <2>1, TakingOnly
  <2>3. HistoryStep /\ SameHistory
    BY <1>0, <1>2, <2>1 DEF TypesInv, Idle, HistoryStep, SameHistory
  <2>4. /\ disk' = [disk EXCEPT ![m] = disk[m]] /\ Grows(disk[m], disk[m])
        /\ mem' = [mem EXCEPT ![m] = mem[m]]
    BY <1>0, <1>1, <2>1, Unwritten, GrowsSame
  <2>5. TypesInv' /\ Only(m) /\ disk'[m] = disk[m] /\ mem'[m] = mem[m] /\ SameElectionOf(m)
    BY <1>0, <1>1, <1>2, <2>2, <2>3, <2>4, Local
  <2>6. \A p \in Mons \ {m} : Sent(m, p, Leases(m))
    BY <2>2, QuietSends
  <2>7. Passive(m)
    BY <2>2, <2>3, <2>5, <2>6 DEF Passive
  <2> QED BY <2>5, <2>7, <1>2
<1>5. CASE ~(t.pn < mem[m].accepted_pn)
  <2> DEFINE d == Accepted(disk[m], t.val, t.pn)
             a == AcceptOf(m)
             w == VoteOf(m, t.pn, t.val)
  <2>1. /\ t.pn = mem[m].accepted_pn /\ t.lc = disk[m].lc
        /\ disk' = [disk EXCEPT ![m] = d]
        /\ mem' = [mem EXCEPT ![m].state = "updating", ![m].leased = FALSE]
        /\ votes' = votes \cup {w}
        /\ Exchange(from, m, [p \in {from} |-> <<a>>])
    BY <1>5 DEF handle_begin, Taken, Vote, VoteOf, AcceptOf
  <2>2. mem' = [mem EXCEPT ![m] = s]
    <3>1. m \in DOMAIN mem
      BY <1>0 DEF TypesInv
    <3> QED BY <2>1, <3>1
  <2>3. /\ s \in Memory /\ s.state = "updating" /\ s.accepted_pn = mem[m].accepted_pn
        /\ s.uncommitted = mem[m].uncommitted /\ s.renew = mem[m].renew /\ s.leased = FALSE
    BY <1>1 DEF Memory, States
  <2>4. d \in Store /\ Grows(disk[m], d)
    BY <1>1, <1>3, <2>1, AcceptedIs
  <2>5. a \in Message
    BY <1>1 DEF AcceptOf, AcceptMsg, Message
  <2>6. PICK out : out = [p \in {from} |-> <<a>>]
    OBVIOUS
  <2>7. DOMAIN out = {from} /\ (\A p \in {from} : out[p] = <<a>>) /\ Exchange(from, m, out)
    BY <2>1, <2>6
  <2>8. {from} \in SUBSET Mons
    OBVIOUS
  <2>d. d = Accepted(disk[m], t.val, t.pn) /\ w = VoteOf(m, t.pn, t.val) /\ a = AcceptOf(m)
    OBVIOUS
  <2> HIDE DEF a, d, s, w, t
  <2>9. /\ NetStep(m)
        /\ \A p \in {from} \ {m} : Sent(m, p, {a})
        /\ \A p \in Mons \ {m} : p \notin {from} => Quiet(m, p)
        /\ from # m => Takes(from, m)
    BY <1>0, <1>2, <2>5, <2>7, <2>8, SendingOne
  <2>10. w \in [mon : Mons, v : Versions, pn : Nat, val : Values]
    BY <1>3, <2>1, <2>d DEF VoteOf
  <2>11. HistoryStep
    BY <1>0, <1>2, <2>1, <2>10 DEF TypesInv, Idle, HistoryStep
  <2>12. TypesInv' /\ Only(m) /\ disk'[m] = d /\ mem'[m] = s /\ SameElectionOf(m)
    BY <1>0, <1>2, <2>1, <2>2, <2>3, <2>4, <2>9, <2>11, Local
  <2> QED BY <1>2, <1>3, <2>1, <2>3, <2>9, <2>12, <2>d DEF t
<1> QED BY <1>4, <1>5

\* handle_accept drops an accept of another round, or counts it, and writes when its
\* quorum is complete.
LEMMA AcceptStep ==
    ASSUME ProtocolInv, NEW m \in Mons, NEW from \in Mons \ {m}, handle_accept(from, m)
    PROVE  /\ TypesInv' /\ Only(m) /\ SameElectionOf(m) /\ SameHistory /\ disk' = disk
           /\ \/ Passive(m)
              \/ LET t == Taken(from, m)
                     s == mem[m]
                     acc == s.accepted \cup {from} IN
                 /\ t \in Msgs(net, from, m) /\ t.op = "accept"
                 /\ t.pn = s.accepted_pn /\ s.state \in Updating /\ from \notin s.accepted
                 /\ Takes(from, m)
                 /\ mem'[m].accepted_pn = s.accepted_pn /\ mem'[m].num_last = s.num_last
                 /\ mem'[m].accepted = acc /\ mem'[m].new_value = s.new_value
                 /\ mem'[m].uncommitted = mem[m].uncommitted /\ mem'[m].renew = mem[m].renew
                 /\ mem'[m].leased = mem[m].leased
                 /\ \/ acc # quorum[m] /\ mem'[m].state = s.state
                    \/ acc = quorum[m] /\ mem'[m].state \in Writing
                 /\ \A p \in Mons \ {m} : Quiet(m, p)
<1>0. TypesInv
  BY DEF ProtocolInv
<1> DEFINE t == Taken(from, m)
           acc == mem[m].accepted \cup {from}
           st == IF acc # quorum[m] THEN mem[m].state
                 ELSE IF mem[m].state = "updating" THEN "writing" ELSE "writing_previous"
           s == [mem[m] EXCEPT !.accepted = acc, !.state = st]
<1>1. /\ mem[m] \in Memory /\ disk[m] \in Store
      /\ mem[m].state \in States /\ mem[m].accepted \in SUBSET Mons
  BY <1>0, Unwritten, MemoryTypes
<1>2. /\ SameElection /\ Idle /\ NoVote /\ net[<<from, m>>] # <<>> /\ t.op = "accept"
      /\ disk' = disk /\ Exchange(from, m, Nothing)
  BY DEF handle_accept, Dispatched, Arrives, Taken
<1>3. t \in Msgs(net, from, m)
  BY <1>0, <1>2, TakenIs
<1>4. /\ NetStep(m) /\ (\A p \in Mons \ {m} : Quiet(m, p)) /\ Takes(from, m)
  BY <1>0, <1>2, TakingOnly
<1>5. HistoryStep /\ SameHistory
  BY <1>0, <1>2, IdleStep
<1>6. disk' = [disk EXCEPT ![m] = disk[m]] /\ Grows(disk[m], disk[m])
  BY <1>0, <1>1, <1>2, Unwritten, GrowsSame
<1>7. CASE mem' = mem
  <2>1. mem' = [mem EXCEPT ![m] = mem[m]]
    BY <1>0, <1>7, Unwritten
  <2>2. TypesInv' /\ Only(m) /\ disk'[m] = disk[m] /\ mem'[m] = mem[m] /\ SameElectionOf(m)
    BY <1>0, <1>1, <1>2, <1>4, <1>5, <1>6, <2>1, Local
  <2>3. \A p \in Mons \ {m} : Sent(m, p, Leases(m))
    BY <1>4, QuietSends
  <2>4. Passive(m)
    BY <1>4, <1>5, <2>2, <2>3 DEF Passive
  <2> QED BY <1>2, <1>5, <2>2, <2>4
<1>8. CASE mem' # mem
  <2>1. /\ t.pn = mem[m].accepted_pn
        /\ mem[m].state \in Updating /\ from \notin mem[m].accepted
        /\ mem' = [mem EXCEPT ![m].accepted = acc,
                       ![m].state = IF ~(acc = quorum[m]) THEN @
                                    ELSE IF @ = "updating" THEN "writing"
                                    ELSE "writing_previous"]
    BY <1>8 DEF handle_accept, Taken, Updating, MayCommit
  <2>2. mem' = [mem EXCEPT ![m] = s]
    <3>1. m \in DOMAIN mem
      BY <1>0 DEF TypesInv
    <3> QED BY <2>1, <3>1
  <2>3. st \in States /\ acc \in SUBSET Mons
    BY <1>1 DEF States
  <2>4. (acc # quorum[m] /\ st = mem[m].state) \/ (acc = quorum[m] /\ st \in Writing)
    BY DEF Writing
  <2> HIDE DEF st, acc
  <2>5. s \in Memory /\ s.accepted = acc /\ s.state = st /\ s.accepted_pn = mem[m].accepted_pn
        /\ s.num_last = mem[m].num_last /\ s.new_value = mem[m].new_value
        /\ s.uncommitted = mem[m].uncommitted /\ s.renew = mem[m].renew /\ s.leased = mem[m].leased
    BY <1>1, <2>3 DEF Memory
  <2> HIDE DEF s, t
  <2>6. TypesInv' /\ Only(m) /\ disk'[m] = disk[m] /\ mem'[m] = s /\ SameElectionOf(m)
    BY <1>0, <1>1, <1>2, <1>4, <1>5, <1>6, <2>2, <2>5, Local
  <2> QED BY <1>2, <1>3, <1>4, <1>5, <2>1, <2>4, <2>5, <2>6 DEF t, acc
<1> QED BY <1>7, <1>8

\* A commit carries a run of versions.
LEMMA CommitShape ==
    ASSUME ProtocolInv, NEW m \in Mons, NEW from \in Mons \ {m}, NEW t \in Msgs(net, from, m),
           t.op = "commit"
    PROVE  /\ t.lc \in Counts /\ t.vals \in Pieces
           /\ \E a \in Counts : DOMAIN t.vals = (a + 1)..t.lc
<1>1. t \in Message
  BY OnTheWay DEF ProtocolInv
<1>2. t \in CommitMsg
  BY <1>1, MessageTypes
<1>3. \E a \in Counts : DOMAIN t.vals = (a + 1)..t.lc
  BY DEF ProtocolInv, ShapesInv
<1> QED BY <1>2, <1>3 DEF CommitMsg

\* handle_commit stores what the message carries.
LEMMA CommitStep ==
    ASSUME ProtocolInv, NEW m \in Mons, NEW from \in Mons \ {m}, handle_commit(from, m)
    PROVE  LET t == Taken(from, m) IN
           /\ TypesInv' /\ Only(m) /\ SameElectionOf(m) /\ SameHistory
           /\ t \in Msgs(net, from, m) /\ t.op = "commit" /\ role[m] = "peon"
           /\ t.epoch = epoch[m] /\ leader[m] = from
           /\ mem'[m] = mem[m] /\ disk'[m] = store_state(disk[m], t)
           /\ \A p \in Mons \ {m} : Quiet(m, p)
<1>0. TypesInv
  BY DEF ProtocolInv
<1> DEFINE t == Taken(from, m)
           d == store_state(disk[m], t)
<1>1. mem[m] \in Memory /\ disk[m] \in Store /\ mem = [mem EXCEPT ![m] = mem[m]]
  BY <1>0, Unwritten
<1>2. /\ SameElection /\ Idle /\ NoVote /\ net[<<from, m>>] # <<>> /\ t.op = "commit" /\ role[m] = "peon"
      /\ t.epoch = epoch[m] /\ leader[m] = from
      /\ disk' = [disk EXCEPT ![m] = d] /\ mem' = mem /\ Exchange(from, m, Nothing)
  BY DEF handle_commit, Dispatched, Arrives, Taken
<1>3. t \in Msgs(net, from, m)
  BY <1>0, <1>2, TakenIs
<1>4. t.lc \in Counts /\ t.vals \in Pieces /\ \E a \in Counts : DOMAIN t.vals = (a + 1)..t.lc
  BY <1>2, <1>3, CommitShape
<1> HIDE DEF t
<1>5. PICK a \in Counts : DOMAIN t.vals = (a + 1)..t.lc
  BY <1>4
<1>6. a \in Nat /\ t.lc \in Nat /\ t.lc >= t.lc
  BY <1>4, <1>5, Bounds
<1>7. d \in Store /\ d.lc >= disk[m].lc /\ d.last_pn = disk[m].last_pn
  BY <1>1, <1>4, <1>5, <1>6, Storing
<1>8. Grows(disk[m], d)
  BY <1>1, <1>7, StoreTypes DEF Grows
<1>9. NetStep(m) /\ \A p \in Mons \ {m} : Quiet(m, p)
  BY <1>0, <1>2, TakingOnly
<1>10. HistoryStep /\ SameHistory
  BY <1>0, <1>2, IdleStep
<1> HIDE DEF d
<1>11. TypesInv' /\ Only(m) /\ disk'[m] = d /\ mem'[m] = mem[m] /\ SameElectionOf(m)
  BY <1>0, <1>1, <1>2, <1>7, <1>8, <1>9, <1>10, Local
<1> QED BY <1>2, <1>3, <1>9, <1>10, <1>11 DEF d, t

\* A run of versions of a store is what a message may carry.
LEMMA IntervalPiece ==
    ASSUME NEW d \in Store, NEW a \in Nat, NEW b \in Counts
    PROVE  [v \in (a + 1)..b |-> d.vals[v]] \in Pieces
<1>1. (a + 1)..b \subseteq Versions
  BY Bounds DEF Versions, Counts
<1>2. [v \in (a + 1)..b |-> d.vals[v]] \in [(a + 1)..b -> Values]
  BY <1>1, StoreTypes
<1>3. (a + 1)..b \in SUBSET Versions
  BY <1>1
<1> QED BY <1>2, <1>3 DEF Pieces

\* what the last of m to a collect x says
Answer(m, x, ans) ==
    /\ ans \in LastMsg /\ ans.lc = disk[m].lc /\ ans.epoch = x.epoch
    /\ ans.pn = IF x.pn > mem[m].accepted_pn THEN x.pn ELSE mem[m].accepted_pn
    /\ DOMAIN ans.vals = (x.lc + 1)..Upto(ans)
    /\ \A v \in DOMAIN ans.vals : ans.vals[v] = disk[m].vals[v]
    /\ ans.uncommitted_pn # 0 =>
        /\ x.lc <= disk[m].lc /\ disk[m].lc + 1 \in Versions /\ disk[m].vals[disk[m].lc + 1] # NoValue
        /\ ans.uncommitted_pn = disk[m].pending_pn
    /\ ans.uncommitted_pn = 0 =>
        x.lc > disk[m].lc \/ ~(disk[m].lc + 1 \in Versions /\ disk[m].vals[disk[m].lc + 1] # NoValue)

\* handle_collect promises the larger of the two numbers and answers with its store.
LEMMA CollectStep ==
    ASSUME ProtocolInv, NEW m \in Mons, NEW from \in Mons \ {m}, handle_collect(from, m)
    PROVE  LET t == Taken(from, m) IN
           /\ TypesInv' /\ Only(m) /\ SameElectionOf(m) /\ SameHistory
           /\ t \in Msgs(net, from, m) /\ t.op = "collect" /\ t \in CollectMsg /\ role[m] = "peon"
           /\ Takes(from, m)
           /\ disk'[m].lc = disk[m].lc /\ disk'[m].vals = disk[m].vals
           /\ disk'[m].pending_v = disk[m].pending_v /\ disk'[m].pending_pn = disk[m].pending_pn
           /\ disk'[m].last_pn = disk[m].last_pn
           /\ disk'[m].accepted_pn \in {disk[m].accepted_pn, mem'[m].accepted_pn}
           /\ mem'[m].accepted_pn = IF t.pn > mem[m].accepted_pn THEN t.pn ELSE mem[m].accepted_pn
           /\ mem'[m].state = "recovering" /\ mem'[m].uncommitted.v = 0 /\ mem'[m].renew = FALSE
           /\ mem'[m].leased = mem[m].leased
           /\ \E ans : Answer(m, t, ans) /\ ans.op = "last" /\ Sent(m, from, {ans})
           /\ \A p \in Mons \ {m, from} : Quiet(m, p)
<1>0. TypesInv /\ DiskInv
  BY DEF ProtocolInv
<1> DEFINE t == Taken(from, m)
           d == disk[m]
           a == mem[m].accepted_pn
           pn == IF t.pn > a THEN t.pn ELSE a
           u == Uncommitted(d, a)
           mine == IF u.v = 0 \/ t.lc > d.lc THEN Shared(d, t.lc)
                   ELSE [v \in (t.lc + 1)..u.v |-> d.vals[v]]
           upn == IF t.lc > d.lc THEN 0 ELSE u.pn
           ans == [op |-> "last", epoch |-> epoch[m], pn |-> pn, lc |-> d.lc, vals |-> mine,
                   uncommitted_pn |-> upn]
           e == IF t.pn > a THEN [d EXCEPT !.accepted_pn = pn] ELSE d
           s == [Resting(pn) EXCEPT !.leased = mem[m].leased]
<1>1. /\ mem[m] \in Memory /\ d \in Store /\ epoch[m] \in Nat /\ a \in Nat /\ mem[m].leased \in BOOLEAN
      /\ d.lc \in Counts /\ d.lc \in Nat
  BY <1>0, Unwritten, MemoryTypes, StoreTypes
<1>2. /\ SameElection /\ Idle /\ NoVote /\ net[<<from, m>>] # <<>> /\ t.op = "collect" /\ role[m] = "peon"
      /\ t.epoch = epoch[m]
  BY DEF handle_collect, Dispatched, Arrives, Taken
<1>3. t \in Msgs(net, from, m) /\ t \in CollectMsg /\ t.pn \in Nat /\ t.lc \in Counts /\ t.lc \in Nat
  <2>1. t \in Message /\ t \in Msgs(net, from, m)
    BY <1>0, <1>2, TakenIs
  <2>2. t \in CollectMsg
    BY <2>1, <1>2, MessageTypes
  <2> QED BY <2>1, <2>2, Bounds DEF CollectMsg
<1>4. Max({t.pn, a}) = pn
  <2>1. t.pn \in Nat /\ a \in Nat
    BY <1>1, <1>3
  <2>2. Max({t.pn, a}) \in {t.pn, a} /\ Max({t.pn, a}) >= t.pn /\ Max({t.pn, a}) >= a
    BY <2>1, MaxOfTwo
  <2> HIDE DEF t, a
  <2> QED BY <2>1, <2>2
<1>5. /\ disk' = IF t.pn > a THEN [disk EXCEPT ![m] = Promised(@, Max({t.pn, a}))] ELSE disk
      /\ mem' = [mem EXCEPT ![m] = [Resting(Max({t.pn, a})) EXCEPT !.leased = mem[m].leased]]
      /\ Exchange(from, m, [p \in {from} |->
                  <<[op |-> "last", epoch |-> epoch[m], pn |-> Max({t.pn, a}), lc |-> d.lc, vals |-> mine,
                     uncommitted_pn |-> upn]>>])
  BY DEF handle_collect, Taken
<1>6. disk' = [disk EXCEPT ![m] = e] /\ mem' = [mem EXCEPT ![m] = s] /\ Exchange(from, m, [p \in {from} |-> <<ans>>])
  <2>1. disk = [disk EXCEPT ![m] = disk[m]]
    BY <1>0, Unwritten
  <2>2. disk' = [disk EXCEPT ![m] = e]
    <3>1. CASE t.pn > a
      BY <3>1, <1>4, <1>5 DEF Promised
    <3>2. CASE ~(t.pn > a)
      BY <3>2, <2>1, <1>5
    <3> QED BY <3>1, <3>2
  <2>3. mem' = [mem EXCEPT ![m] = s] /\ Exchange(from, m, [p \in {from} |-> <<ans>>])
    BY <1>4, <1>5
  <2> QED BY <2>2, <2>3
<1>7. pn \in Nat
  BY <1>1, <1>3
<1>8. /\ u \in [v : Counts, pn : Nat, val : Values]
      /\ \/ u.v = 0 /\ u.pn = 0 /\ ~(d.lc + 1 \in Versions /\ d.vals[d.lc + 1] # NoValue)
         \/ /\ u.v = d.lc + 1 /\ d.lc + 1 \in Versions /\ d.vals[d.lc + 1] # NoValue
            /\ u.pn = d.pending_pn /\ d.pending_pn > 0
  <2>1. LET w == Uncommitted(d, a) IN
           /\ w \in [v : Counts, pn : Nat, val : Values]
           /\ \/ w.v = 0 /\ w.pn = 0 /\ ~(d.lc + 1 \in Versions /\ d.vals[d.lc + 1] # NoValue)
              \/ /\ w.v = d.lc + 1 /\ d.lc + 1 \in Versions /\ d.vals[d.lc + 1] # NoValue
                 /\ w.val = d.vals[d.lc + 1]
                 /\ d.pending_v = d.lc + 1 => w.pn = d.pending_pn
    BY <1>1, UncommittedIs
  <2>2. d.lc + 1 \in Versions /\ d.vals[d.lc + 1] # NoValue => d.pending_v = d.lc + 1 /\ d.pending_pn > 0
    BY <1>0 DEF DiskInv, Lc
  <2> QED BY <2>1, <2>2
<1> HIDE DEF u
<1>9. /\ mine \in Pieces /\ \A v \in DOMAIN mine : mine[v] = d.vals[v]
      /\ DOMAIN mine = (t.lc + 1)..(IF upn # 0 THEN d.lc + 1 ELSE d.lc)
      /\ upn # 0 => t.lc <= d.lc /\ d.lc + 1 \in Versions /\ d.vals[d.lc + 1] # NoValue /\ upn = d.pending_pn
      /\ upn = 0 => t.lc > d.lc \/ ~(d.lc + 1 \in Versions /\ d.vals[d.lc + 1] # NoValue)
      /\ upn \in Nat
  <2>1. CASE u.v = 0 \/ t.lc > d.lc
    <3>1. mine = [v \in (t.lc + 1)..d.lc |-> d.vals[v]]
      BY <2>1 DEF Shared
    <3>2. upn = 0
      BY <2>1, <1>8, <1>1
    <3>3. t.lc > d.lc \/ ~(d.lc + 1 \in Versions /\ d.vals[d.lc + 1] # NoValue)
      BY <2>1, <1>8, <1>1
    <3>4. mine \in Pieces
      BY <3>1, <1>1, <1>3, IntervalPiece
    <3> HIDE DEF mine, upn, d, t
    <3>5. DOMAIN mine = (t.lc + 1)..d.lc /\ \A v \in DOMAIN mine : mine[v] = d.vals[v]
      BY <3>1
    <3> QED BY <3>2, <3>3, <3>4, <3>5
  <2>2. CASE ~(u.v = 0 \/ t.lc > d.lc)
    <3>0. u.v = d.lc + 1 /\ d.lc + 1 \in Counts /\ d.lc + 1 \in Versions /\ d.vals[d.lc + 1] # NoValue
      BY <2>2, <1>8, <1>1
    <3>1. mine = [v \in (t.lc + 1)..(d.lc + 1) |-> d.vals[v]]
      BY <2>2, <3>0
    <3>2. upn = d.pending_pn /\ upn # 0 /\ upn \in Nat /\ t.lc <= d.lc
      BY <2>2, <1>8, <1>1, <1>3, StoreTypes
    <3>4. mine \in Pieces
      BY <3>0, <3>1, <1>1, <1>3, IntervalPiece
    <3> HIDE DEF mine, upn, d, t
    <3>5. DOMAIN mine = (t.lc + 1)..(d.lc + 1) /\ \A v \in DOMAIN mine : mine[v] = d.vals[v]
      BY <3>1
    <3> QED BY <3>0, <3>2, <3>4, <3>5
  <2> QED BY <2>1, <2>2
<1> HIDE DEF mine, upn, pn
<1>10. /\ ans \in LastMsg /\ ans.lc = d.lc /\ ans.epoch = t.epoch /\ ans.op = "last" /\ ans.pn = pn
       /\ ans.vals = mine /\ ans.uncommitted_pn = upn
  BY <1>1, <1>2, <1>7, <1>9 DEF LastMsg
<1> HIDE DEF ans
<1>11. Answer(m, t, ans)
  BY <1>9, <1>10 DEF Answer, Upto, pn
<1>12. /\ e \in Store /\ e.lc = d.lc /\ e.vals = d.vals /\ e.pending_v = d.pending_v
       /\ e.pending_pn = d.pending_pn /\ e.last_pn = d.last_pn
       /\ e.accepted_pn \in {d.accepted_pn, pn}
  BY <1>1, <1>7 DEF Store
<1>13. /\ s \in Memory /\ s.state = "recovering" /\ s.accepted_pn = pn /\ s.uncommitted.v = 0 /\ s.renew = FALSE
       /\ s.leased = mem[m].leased
  <2>1. Resting(pn) \in Memory /\ Resting(pn).state = "recovering" /\ Resting(pn).accepted_pn = pn
        /\ Resting(pn).renew = FALSE
    BY <1>7, RestingIs
  <2>2. Resting(pn).uncommitted.v = 0
    BY DEF Resting
  <2>3. PICK r : r = Resting(pn)
    OBVIOUS
  <2>4. PICK s2 : s2 = [r EXCEPT !.leased = mem[m].leased]
    OBVIOUS
  <2>5. s = s2
    BY <2>3, <2>4
  <2>6. s2 \in Memory /\ s2.state = r.state /\ s2.accepted_pn = r.accepted_pn /\ s2.renew = r.renew
        /\ s2.uncommitted = r.uncommitted /\ s2.leased = mem[m].leased
    BY <1>1, <2>1, <2>3, <2>4 DEF Memory
  <2> QED BY <2>1, <2>2, <2>3, <2>5, <2>6
<1>14. Grows(d, e)
  BY <1>1, <1>12, StoreTypes DEF Grows
<1>15. ans \in Message
  BY <1>10 DEF Message
<1>16. PICK out : out = [p \in {from} |-> <<ans>>]
  OBVIOUS
<1>17. DOMAIN out = {from} /\ (\A p \in {from} : out[p] = <<ans>>) /\ Exchange(from, m, out)
  BY <1>6, <1>16
<1>18. {from} \in SUBSET Mons
  OBVIOUS
<1>d. pn = (IF t.pn > mem[m].accepted_pn THEN t.pn ELSE mem[m].accepted_pn) /\ d = disk[m]
  BY DEF pn
<1> HIDE DEF e, s, d
<1>19. /\ NetStep(m)
       /\ \A p \in {from} \ {m} : Sent(m, p, {ans})
       /\ \A p \in Mons \ {m} : p \notin {from} => Quiet(m, p)
       /\ from # m => Takes(from, m)
  BY <1>0, <1>2, <1>15, <1>17, <1>18, SendingOne
<1>20. HistoryStep /\ SameHistory
  BY <1>0, <1>2, IdleStep
<1>21. TypesInv' /\ Only(m) /\ disk'[m] = e /\ mem'[m] = s /\ SameElectionOf(m)
  BY <1>0, <1>2, <1>6, <1>12, <1>13, <1>14, <1>19, <1>20, <1>d, Local
<1>22. Sent(m, from, {ans}) /\ \A p \in Mons \ {m, from} : Quiet(m, p)
  BY <1>19
<1>23. Takes(from, m)
  BY <1>19
<1> HIDE DEF t
<1>24. \E x : Answer(m, t, x) /\ x.op = "last" /\ Sent(m, from, {x})
  BY <1>10, <1>11, <1>22
<1> QED
  BY <1>2, <1>3, <1>12, <1>13, <1>20, <1>21, <1>22, <1>23, <1>24, <1>d DEF t

-----------------------------------------------------------------------------
(* What one step does: propose, commit_finish, a crash, a victory.         *)

\* The memory of a leader that begins.
LEMMA BeginningIs ==
    ASSUME NEW m \in Mons, NEW s \in Memory, NEW val \in Values, NEW st \in States
    PROVE  LET r == Beginning(m, s, val, st) IN
           /\ r \in Memory /\ r.state = st /\ r.accepted_pn = s.accepted_pn /\ r.num_last = s.num_last
           /\ r.accepted = {m} /\ r.new_value = val /\ r.uncommitted.v = 0 /\ ~r.renew
<1>1. s.accepted_pn \in Nat /\ s.num_last \in Nat /\ s.leased \in BOOLEAN
  BY MemoryTypes
<1>2. PICK b : b = Resting(s.accepted_pn)
  OBVIOUS
<1>3. b \in Memory /\ b.accepted_pn = s.accepted_pn /\ b.renew = FALSE
  BY <1>1, <1>2, RestingIs
<1>4. b.uncommitted.v = 0
  BY <1>2 DEF Resting
<1>5. PICK r : r = [b EXCEPT !.state = st, !.num_last = s.num_last, !.accepted = {m}, !.new_value = val,
                             !.leased = s.leased]
  OBVIOUS
<1>6. Beginning(m, s, val, st) = r
  BY <1>2, <1>5 DEF Beginning
<1>7. /\ r \in Memory /\ r.state = st /\ r.accepted_pn = b.accepted_pn /\ r.num_last = s.num_last
      /\ r.accepted = {m} /\ r.new_value = val /\ r.uncommitted = b.uncommitted /\ r.renew = b.renew
  BY <1>1, <1>3, <1>5 DEF Memory
<1> QED
  BY <1>3, <1>4, <1>6, <1>7

\* The memory of a leader that has become active.
LEMMA ActiveIs ==
    ASSUME NEW s \in Memory
    PROVE  LET r == Active(s) IN
           /\ r \in Memory /\ r.state = "active" /\ r.accepted_pn = s.accepted_pn /\ r.num_last = s.num_last
           /\ r.new_value = NoValue /\ r.uncommitted.v = 0
<1>1. s.accepted_pn \in Nat /\ s.num_last \in Nat /\ s.leased \in BOOLEAN
  BY MemoryTypes
<1>2. PICK b : b = Resting(s.accepted_pn)
  OBVIOUS
<1>3. b \in Memory /\ b.accepted_pn = s.accepted_pn /\ b.new_value = NoValue
  BY <1>1, <1>2, RestingIs
<1>4. b.uncommitted.v = 0
  BY <1>2 DEF Resting
<1>5. PICK r : r = [b EXCEPT !.state = "active", !.num_last = s.num_last, !.leased = TRUE, !.renew = TRUE]
  OBVIOUS
<1>6. Active(s) = r
  BY <1>2, <1>5 DEF Active
<1>7. /\ r \in Memory /\ r.state = "active" /\ r.accepted_pn = b.accepted_pn /\ r.num_last = s.num_last
      /\ r.new_value = b.new_value /\ r.uncommitted = b.uncommitted
  BY <1>1, <1>3, <1>5 DEF Memory, States
<1> QED
  BY <1>3, <1>4, <1>6, <1>7

\* The memory of a leader that starts a round.
LEMMA CollectingIs ==
    ASSUME NEW d \in Store, NEW s \in Memory, NEW m \in Mons, NEW oldpn \in Nat
    PROVE  LET r == Collecting(d, s, m, oldpn) IN
           /\ r \in Memory /\ r.state = "recovering" /\ r.num_last = 1
           /\ r.accepted_pn > s.accepted_pn /\ r.accepted_pn > d.last_pn /\ r.accepted_pn % Stride = m
           /\ r.new_value = NoValue /\ r.uncommitted = Uncommitted(d, s.accepted_pn) /\ ~r.renew
<1>1. s.accepted_pn \in Nat /\ d.last_pn \in Nat
  BY MemoryTypes, StoreTypes
<1>2. PICK gt \in Nat : gt = Max({s.accepted_pn, oldpn}) /\ gt >= s.accepted_pn
  BY <1>1, MaxOfTwo
<1>3. PICK pn \in Nat : pn = NextPn(d, m, gt) /\ pn > d.last_pn /\ pn > gt /\ pn % Stride = m
  BY NextPnIs
<1>4. PICK u \in [v : Counts, pn : Nat, val : Values] : u = Uncommitted(d, s.accepted_pn)
  BY <1>1, UncommittedIs
<1>5. PICK b : b = Resting(pn)
  OBVIOUS
<1>6. b \in Memory /\ b.accepted_pn = pn /\ b.new_value = NoValue /\ b.state = "recovering" /\ b.renew = FALSE
  BY <1>5, RestingIs
<1>7. PICK r : r = [b EXCEPT !.num_last = 1, !.uncommitted = u]
  OBVIOUS
<1>8. Collecting(d, s, m, oldpn) = r
  BY <1>2, <1>3, <1>4, <1>5, <1>7 DEF Collecting
<1>9. /\ r \in Memory /\ r.state = b.state /\ r.accepted_pn = b.accepted_pn /\ r.num_last = 1
      /\ r.new_value = b.new_value /\ r.uncommitted = u /\ r.renew = b.renew
  BY <1>6, <1>7 DEF Memory
<1>10. pn > s.accepted_pn
  BY <1>1, <1>2, <1>3
<1> QED
  BY <1>3, <1>4, <1>6, <1>8, <1>9, <1>10

\* the begin of m
IsBegin(x, m, lc, val) ==
    x.op = "begin" /\ x.pn = mem[m].accepted_pn /\ x.lc = lc /\ x.val = val

\* Propose: an active leader stores a new value under its number, votes and begins.
LEMMA ProposeStep ==
    ASSUME ProtocolInv, NEW m \in Mons, Propose(m)
    PROVE  /\ TypesInv' /\ Only(m) /\ SameElectionOf(m) /\ counted' = counted
           /\ role[m] = "leader" /\ mem[m].state = "active" /\ disk[m].lc + 1 \in Versions
           /\ \E val \in Values \ {NoValue} : \E x :
               /\ disk'[m] = Accepted(disk[m], val, mem[m].accepted_pn)
               /\ mem'[m].state = "updating" /\ mem'[m].accepted_pn = mem[m].accepted_pn
               /\ mem'[m].num_last = mem[m].num_last /\ mem'[m].accepted = {m}
               /\ mem'[m].new_value = val /\ mem'[m].uncommitted.v = 0 /\ ~mem'[m].renew
               /\ votes' = votes \cup {VoteOf(m, mem[m].accepted_pn, val)}
               /\ IsBegin(x, m, disk[m].lc, val)
               /\ \A p \in quorum[m] \ {m} : Sent(m, p, {x})
               /\ \A p \in Mons \ {m} : p \notin quorum[m] => Quiet(m, p)
<1>0. TypesInv
  BY DEF ProtocolInv
<1>1. /\ mem[m] \in Memory /\ disk[m] \in Store /\ epoch[m] \in Nat
      /\ mem[m].accepted_pn \in Nat /\ disk[m].lc \in Counts /\ disk[m].lc \in Nat
  BY <1>0, Unwritten, MemoryTypes, StoreTypes
<1> DEFINE val == proposals + 1
           pn == mem[m].accepted_pn
           d == Accepted(disk[m], val, pn)
           s == Beginning(m, mem[m], val, "updating")
           x == Begin(m, disk[m], mem[m], val)
           w == VoteOf(m, pn, val)
           P == quorum[m] \ {m}
<1>2. /\ role[m] = "leader" /\ mem[m].state = "active" /\ disk[m].lc < MaxVersion /\ proposals < MaxProposals
      /\ SameElection /\ counted' = counted /\ proposals' = val /\ renewals' = renewals /\ crashes' = crashes
      /\ disk' = [disk EXCEPT ![m] = d] /\ mem' = [mem EXCEPT ![m] = s]
      /\ Exchange(m, m, [p \in P |-> <<x>>]) /\ votes' = votes \cup {w}
  BY DEF Propose, ToPeers, Vote, VoteOf
<1>3. val \in Values \ {NoValue} /\ val \in Values
  <2>1. proposals \in Nat /\ MaxProposals \in Nat
    BY <1>0, Bounds DEF TypesInv
  <2>2. val \in Values /\ val # 0
    BY <1>2, <2>1 DEF Values
  <2> QED BY <2>2 DEF NoValue
<1>4. disk[m].lc + 1 \in Versions
  BY <1>1, <1>2, Bounds
<1>5. d \in Store /\ Grows(disk[m], d)
  BY <1>1, <1>3, <1>4, AcceptedIs
<1>6. /\ s \in Memory /\ s.state = "updating" /\ s.accepted_pn = mem[m].accepted_pn /\ s.num_last = mem[m].num_last
      /\ s.accepted = {m} /\ s.new_value = val /\ s.uncommitted.v = 0 /\ ~s.renew
  <2>1. "updating" \in States
    BY DEF States
  <2> HIDE DEF val
  <2> QED BY <1>1, <1>3, <2>1, BeginningIs
<1>7. x \in BeginMsg /\ IsBegin(x, m, disk[m].lc, val)
  BY <1>1, <1>3 DEF Begin, BeginMsg, IsBegin
<1>8. x \in Message
  BY <1>7 DEF Message
<1>9. P \in SUBSET Mons
  BY <1>0 DEF TypesInv, ElectionTypeOK
<1>10. w \in [mon : Mons, v : Versions, pn : Nat, val : Values]
  BY <1>1, <1>3, <1>4 DEF VoteOf
<1>11. HistoryStep
  BY <1>0, <1>2, <1>3, <1>10 DEF TypesInv, HistoryStep
<1>12. PICK out : out = [p \in P |-> <<x>>]
  OBVIOUS
<1>13. DOMAIN out = P /\ (\A p \in P : out[p] = <<x>>) /\ Exchange(m, m, out)
  BY <1>2, <1>12
<1> HIDE DEF val, d, s, x, w
<1>14. /\ NetStep(m)
       /\ \A p \in P \ {m} : Sent(m, p, {x})
       /\ \A p \in Mons \ {m} : p \notin P => Quiet(m, p)
  <2> HIDE DEF P
  <2> QED BY <1>0, <1>8, <1>9, <1>13, SendingOne
<1>15. TypesInv' /\ Only(m) /\ disk'[m] = d /\ mem'[m] = s /\ SameElectionOf(m)
  BY <1>0, <1>2, <1>5, <1>6, <1>11, <1>14, Local
<1>16. /\ \A p \in quorum[m] \ {m} : Sent(m, p, {x})
       /\ \A p \in Mons \ {m} : p \notin quorum[m] => Quiet(m, p)
  BY <1>14
<1>17. /\ disk'[m] = Accepted(disk[m], val, mem[m].accepted_pn)
       /\ mem'[m].state = "updating" /\ mem'[m].accepted_pn = mem[m].accepted_pn
       /\ mem'[m].num_last = mem[m].num_last /\ mem'[m].accepted = {m}
       /\ mem'[m].new_value = val /\ mem'[m].uncommitted.v = 0 /\ ~mem'[m].renew
       /\ votes' = votes \cup {VoteOf(m, mem[m].accepted_pn, val)}
  BY <1>2, <1>6, <1>15 DEF d, w
<1> QED
  BY <1>2, <1>3, <1>4, <1>7, <1>15, <1>16, <1>17

\* A sequence of two messages of two kinds.
LEMMA TwoMessages ==
    ASSUME NEW x \in Message, NEW y \in Message, x.op # y.op, NEW q, q = <<x, y>>
    PROVE  q \in Seq(Message) /\ Elems(q) = {x, y} /\ \A a, b : Precedes(q, a, b) => a.op # b.op
BY SequenceOfTwo

\* The store with one more version committed.
LEMMA CommittingIs ==
    ASSUME NEW d \in Store, d.lc + 1 \in Versions
    PROVE  LET e == [d EXCEPT !.lc = @ + 1] IN
           /\ e \in Store /\ e.lc = d.lc + 1 /\ e.vals = d.vals /\ e.last_pn = d.last_pn
           /\ e.pending_v = d.pending_v /\ e.pending_pn = d.pending_pn /\ e.accepted_pn = d.accepted_pn
           /\ Grows(d, e)
<1>1. d.lc \in Nat /\ d.last_pn \in Nat /\ d.lc + 1 \in Counts
  BY StoreTypes, Bounds
<1>2. PICK e : e = [d EXCEPT !.lc = d.lc + 1]
  OBVIOUS
<1>3. /\ e \in Store /\ e.lc = d.lc + 1 /\ e.vals = d.vals /\ e.last_pn = d.last_pn
      /\ e.pending_v = d.pending_v /\ e.pending_pn = d.pending_pn /\ e.accepted_pn = d.accepted_pn
  BY <1>1, <1>2 DEF Store
<1> QED
  BY <1>1, <1>2, <1>3 DEF Grows

\* the commit of one version
IsCommit(x, lc, val) == x.op = "commit" /\ x.lc = lc /\ DOMAIN x.vals = {lc} /\ x.vals[lc] = val

\* the lease of m for the versions up to lc
IsLease(x, m, lc) == x.op = "lease" /\ x.epoch = epoch[m] /\ x.lc = lc

\* A leader that writes has its value in the store, accepted by all of its quorum.
LEMMA WritingIs ==
    ASSUME ProtocolInv, NEW m \in Mons, mem[m].state \in Writing
    PROVE  /\ role[m] = "leader" /\ disk[m].lc + 1 \in Versions
           /\ disk[m].vals[disk[m].lc + 1] = mem[m].new_value
           /\ mem[m].accepted = quorum[m]
<1>1. role[m] = "leader"
  BY DEF ProtocolInv, LeaderInv, Writing, State, IsLeader
<1>2. mem[m].state \in Asking
  BY DEF Asking
<1> QED
  BY <1>1, <1>2 DEF ProtocolInv, AcceptsInv, State, IsLeader, Lc

\* commit_finish: the version is committed, and sent with a lease.
LEMMA FinishStep ==
    ASSUME ProtocolInv, NEW m \in Mons, CommitFinish(m)
    PROVE  /\ TypesInv' /\ Only(m) /\ SameElectionOf(m) /\ SameHistory
           /\ mem[m].state \in Writing
           /\ disk'[m] = [disk[m] EXCEPT !.lc = @ + 1]
           /\ mem'[m].state = "active" /\ mem'[m].accepted_pn = mem[m].accepted_pn
           /\ mem'[m].num_last = mem[m].num_last
           /\ mem'[m].new_value = NoValue /\ mem'[m].uncommitted.v = 0
           /\ \E x, y : /\ IsCommit(x, disk[m].lc + 1, mem[m].new_value) /\ IsLease(y, m, disk[m].lc + 1)
                        /\ x.epoch = epoch[m]
                        /\ \A p \in quorum[m] \ {m} : Sent(m, p, {x, y})
           /\ \A p \in Mons \ {m} : p \notin quorum[m] => Quiet(m, p)
<1>0. TypesInv
  BY DEF ProtocolInv
<1>1. /\ mem[m] \in Memory /\ disk[m] \in Store /\ epoch[m] \in Nat /\ disk[m].lc \in Nat
      /\ mem[m].new_value \in Values
  BY <1>0, Unwritten, MemoryTypes, StoreTypes
<1> DEFINE d == [disk[m] EXCEPT !.lc = @ + 1]
           f == [v \in {d.lc} |-> mem[m].new_value]
           x == [op |-> "commit", epoch |-> epoch[m], lc |-> d.lc, vals |-> f]
           y == Lease(m, d)
           s == Active(mem[m])
           P == quorum[m] \ {m}
<1>2. /\ mem[m].state \in Writing /\ SameElection /\ Idle /\ NoVote
      /\ disk' = [disk EXCEPT ![m] = d] /\ mem' = [mem EXCEPT ![m] = s]
      /\ Exchange(m, m, [p \in P |-> <<x, y>>])
  BY DEF CommitFinish, Writing
<1>3. disk[m].lc + 1 \in Versions
  BY <1>2, WritingIs
<1>4. d \in Store /\ d.lc = disk[m].lc + 1 /\ Grows(disk[m], d)
  BY <1>1, <1>3, CommittingIs
<1>d. d = [disk[m] EXCEPT !.lc = @ + 1]
  OBVIOUS
<1> HIDE DEF d
<1>5. f \in Pieces /\ DOMAIN f = {d.lc} /\ f[d.lc] = mem[m].new_value
  <2>1. f \in [{d.lc} -> Values] /\ {d.lc} \in SUBSET Versions
    BY <1>1, <1>3, <1>4
  <2>2. f \in Pieces
    BY <2>1 DEF Pieces
  <2> QED BY <2>2
<1> HIDE DEF f
<1>6. d.lc \in Counts
  BY <1>4, StoreTypes
<1>7. x \in CommitMsg /\ IsCommit(x, d.lc, mem[m].new_value)
  BY <1>1, <1>5, <1>6 DEF CommitMsg, IsCommit
<1>8. y \in LeaseMsg /\ y.op = "lease" /\ x.op = "commit" /\ IsLease(y, m, d.lc) /\ x.epoch = epoch[m]
  BY <1>1, <1>6 DEF LeaseMsg, Lease, IsLease
<1>9. x \in Message /\ y \in Message /\ x.op # y.op
  BY <1>7, <1>8 DEF Message
<1>10. /\ s \in Memory /\ s.state = "active" /\ s.accepted_pn = mem[m].accepted_pn
       /\ s.num_last = mem[m].num_last /\ s.new_value = NoValue /\ s.uncommitted.v = 0
  BY <1>1, ActiveIs
<1>11. P \in SUBSET Mons
  BY <1>0 DEF TypesInv, ElectionTypeOK
<1>q. PICK q : q = <<x, y>>
  OBVIOUS
<1>12. PICK out : out = [p \in P |-> q]
  OBVIOUS
<1>13. DOMAIN out = P /\ (\A p \in P : out[p] = q) /\ Exchange(m, m, out)
  BY <1>2, <1>12, <1>q
<1> HIDE DEF x, y, s
<1>14. /\ NetStep(m)
       /\ \A p \in P \ {m} : Sent(m, p, {x, y})
       /\ \A p \in Mons \ {m} : p \notin P => Quiet(m, p)
  <2>1. q \in Seq(Message) /\ Elems(q) = {x, y} /\ \A a, b : Precedes(q, a, b) => a.op # b.op
    BY <1>9, <1>q, TwoMessages
  <2>2. \A p \in DOMAIN out : out[p] \in Seq(Message) /\ \A a, b : Precedes(out[p], a, b) => a.op # b.op
    BY <2>1, <1>13
  <2>3. DOMAIN out \subseteq Mons
    BY <1>11, <1>13
  <2>4. /\ net' \in [Channels -> Seq(Message)]
        /\ \A l, p \in Mons : l # p /\ l # m => Quiet(l, p)
        /\ \A p \in DOMAIN out \ {m} : Sent(m, p, Elems(out[p]))
        /\ \A p \in Mons \ {m} : p \notin DOMAIN out => Quiet(m, p)
    BY <1>0, <2>2, <2>3, <1>13, Sending
  <2>5. NetStep(m)
    BY <2>4 DEF NetStep
  <2>6. ASSUME NEW p \in P \ {m} PROVE Sent(m, p, {x, y})
    BY <2>1, <2>4, <1>13
  <2>7. \A p \in Mons \ {m} : p \notin P => Quiet(m, p)
    BY <2>4, <1>13
  <2> QED BY <2>5, <2>6, <2>7
<1>15. HistoryStep /\ SameHistory
  BY <1>0, <1>2, IdleStep
<1>16. TypesInv' /\ Only(m) /\ disk'[m] = d /\ mem'[m] = s /\ SameElectionOf(m)
  BY <1>0, <1>2, <1>4, <1>10, <1>14, <1>15, Local
<1>17. /\ \A p \in quorum[m] \ {m} : Sent(m, p, {x, y})
       /\ \A p \in Mons \ {m} : p \notin quorum[m] => Quiet(m, p)
  BY <1>14
<1>18. \E a, b : /\ IsCommit(a, disk[m].lc + 1, mem[m].new_value) /\ IsLease(b, m, disk[m].lc + 1)
                 /\ a.epoch = epoch[m]
                 /\ \A p \in quorum[m] \ {m} : Sent(m, p, {a, b})
  BY <1>4, <1>7, <1>8, <1>17
<1> QED
  BY <1>2, <1>10, <1>15, <1>16, <1>17, <1>18, <1>d

\* A crash: the connections of m are empty, its promise is the one in its store, and a
\* commit being written has reached the store or not.
LEMMA CrashStep ==
    ASSUME ProtocolInv, NEW m \in Mons, Crash(m)
    PROVE  /\ TypesInv' /\ Only(m) /\ SameHistory
           /\ \A l, p \in Mons : l # p => Quiet(l, p)
           /\ \A p \in Mons \ {m} : Msgs(net', m, p) = {} /\ Msgs(net', p, m) = {}
           /\ mem'[m] = Resting(disk[m].accepted_pn) /\ role'[m] = "electing"
           /\ \/ disk'[m] = disk[m]
              \/ mem[m].state \in Writing /\ disk'[m] = [disk[m] EXCEPT !.lc = @ + 1]
<1>0. TypesInv /\ ElectionTypeOK
  BY DEF ProtocolInv, TypesInv
<1> DEFINE r == Resting(disk[m].accepted_pn)
<1>1. /\ mem[m] \in Memory /\ disk[m] \in Store /\ epoch[m] \in Nat /\ r \in Memory
      /\ disk = [disk EXCEPT ![m] = disk[m]]
  BY <1>0, Unwritten, StoreTypes, RestingIs
<1>2. /\ mem' = [mem EXCEPT ![m] = r] /\ crashes' = crashes + 1 /\ NoVote
      /\ proposals' = proposals /\ renewals' = renewals
      /\ net' = [c \in Channels |-> IF m \in {c[1], c[2]} THEN <<>> ELSE net[c]]
      /\ disk' = disk \/ (mem[m].state \in Writing /\ disk' = [disk EXCEPT ![m].lc = @ + 1])
  BY DEF Crash, Restart, Writing
<1>3. /\ ElectionTypeOK' /\ role'[m] = "electing" /\ epoch'[m] >= epoch[m]
      /\ \A n \in Mons \ {m} : role'[n] = role[n] /\ epoch'[n] = epoch[n] /\ quorum'[n] = quorum[n] /\ leader'[n] = leader[n]
  <2>1. PICK e \in Nat : Leave(m, e)
    <3>1. (IF epoch[m] % 2 = 1 /\ epoch[m] > 1 THEN epoch[m] + 1 ELSE epoch[m]) \in Nat
      BY <1>1
    <3> QED BY <3>1 DEF Crash
  <2> QED BY <1>0, <2>1, LeaveTypes
<1>4. \E d \in Store : /\ disk' = [disk EXCEPT ![m] = d] /\ Grows(disk[m], d)
                       /\ d = disk[m] \/ (mem[m].state \in Writing /\ d = [disk[m] EXCEPT !.lc = @ + 1])
  <2>1. CASE disk' = disk
    BY <1>1, <2>1, GrowsSame
  <2>2. CASE mem[m].state \in Writing /\ disk' = [disk EXCEPT ![m].lc = @ + 1]
    <3> DEFINE e == [disk[m] EXCEPT !.lc = @ + 1]
    <3>1. disk[m].lc + 1 \in Versions
      BY <2>2, WritingIs
    <3>2. e \in Store /\ Grows(disk[m], e)
      BY <1>1, <3>1, CommittingIs
    <3>3. disk' = [disk EXCEPT ![m] = e]
      BY <1>0, <2>2 DEF TypesInv
    <3> HIDE DEF e
    <3>4. e = [disk[m] EXCEPT !.lc = @ + 1]
      BY DEF e
    <3> QED BY <2>2, <3>2, <3>3, <3>4
  <2> QED BY <1>2, <2>1, <2>2
<1>5. PICK d \in Store : /\ disk' = [disk EXCEPT ![m] = d] /\ Grows(disk[m], d)
                         /\ d = disk[m] \/ (mem[m].state \in Writing /\ d = [disk[m] EXCEPT !.lc = @ + 1])
  BY <1>4
<1> HIDE DEF r
<1>6. /\ disk' \in [Mons -> Store] /\ mem' \in [Mons -> Memory]
      /\ disk'[m] = d /\ mem'[m] = r
      /\ \A n \in Mons \ {m} : disk'[n] = disk[n] /\ mem'[n] = mem[n]
  BY <1>0, <1>1, <1>2, <1>5, Writes
<1>7. HistoryStep /\ SameHistory
  BY <1>0, <1>2 DEF TypesInv, NoVote, paxosHistory, HistoryStep, SameHistory
<1>8. net' \in [Channels -> Seq(Message)]
  BY <1>0, <1>2 DEF TypesInv
<1>9. ASSUME NEW l \in Mons, NEW p \in Mons, l # p
      PROVE  net'[<<l, p>>] = IF m \in {l, p} THEN <<>> ELSE net[<<l, p>>]
  BY <1>2, <1>9 DEF Channels
<1>10. \A p \in Mons \ {m} : Msgs(net', m, p) = {} /\ Msgs(net', p, m) = {}
  BY <1>9, ShortSequences DEF Msgs
<1>11. ASSUME NEW l \in Mons, NEW p \in Mons, l # p PROVE Quiet(l, p)
  <2>1. net'[<<l, p>>] = <<>> \/ net'[<<l, p>>] = net[<<l, p>>]
    BY <1>9, <1>11
  <2>2. CASE net'[<<l, p>>] = <<>>
    <3>1. Msgs(net', l, p) = {} /\ \A x, y : ~Before(net', l, p, x, y)
      BY <2>2, ShortSequences DEF Msgs, Before
    <3> QED BY <3>1 DEF Quiet
  <2>3. CASE net'[<<l, p>>] = net[<<l, p>>]
    <3>1. Msgs(net', l, p) = Msgs(net, l, p) /\ \A x, y : Before(net', l, p, x, y) <=> Before(net, l, p, x, y)
      BY <2>3 DEF Msgs, Before
    <3> QED BY <3>1 DEF Quiet
  <2> QED BY <2>1, <2>2, <2>3
<1>12. TypesInv'
  BY <1>3, <1>6, <1>7, <1>8 DEF TypesInv, HistoryStep
<1>13. Only(m)
  BY <1>3, <1>5, <1>6, <1>7, <1>11 DEF Only, HistoryStep, Grows
<1> QED
  BY <1>3, <1>5, <1>6, <1>7, <1>10, <1>11, <1>12, <1>13 DEF r

\* what a round starts from: the store d
NewRound(m, d) ==
    /\ mem'[m].state = "recovering" /\ mem'[m].num_last = 1
    /\ mem'[m].accepted_pn > mem[m].accepted_pn /\ mem'[m].accepted_pn > disk[m].last_pn
    /\ mem'[m].accepted_pn % Stride = m
    /\ mem'[m].new_value = NoValue /\ ~mem'[m].renew
    /\ mem'[m].uncommitted = Uncommitted(d, mem[m].accepted_pn)
    /\ disk'[m] = [d EXCEPT !.last_pn = mem'[m].accepted_pn]

\* the collect of m
IsCollect(x, m, e, lc) == x.op = "collect" /\ x.pn = mem'[m].accepted_pn /\ x.lc = lc /\ x.epoch = e

\* The store of a leader that starts a round: a new last_pn.
LEMMA RoundStore ==
    ASSUME NEW d \in Store, NEW pn \in Nat, pn > d.last_pn
    PROVE  LET e == [d EXCEPT !.last_pn = pn] IN
           /\ e \in Store /\ e.lc = d.lc /\ e.vals = d.vals /\ e.last_pn = pn
           /\ e.pending_v = d.pending_v /\ e.pending_pn = d.pending_pn /\ e.accepted_pn = d.accepted_pn
           /\ Grows(d, e)
<1>1. d.lc \in Nat /\ d.last_pn \in Nat
  BY StoreTypes
<1>2. PICK e : e = [d EXCEPT !.last_pn = pn]
  OBVIOUS
<1>3. /\ e \in Store /\ e.lc = d.lc /\ e.vals = d.vals /\ e.last_pn = pn
      /\ e.pending_v = d.pending_v /\ e.pending_pn = d.pending_pn /\ e.accepted_pn = d.accepted_pn
  BY <1>2 DEF Store
<1> QED
  BY <1>1, <1>2, <1>3 DEF Grows

\* win_election: leader_init collects, with a number above all it has given out.
LEMMA VictoryStep ==
    ASSUME ProtocolInv, NEW m \in Mons, NEW Q \in SUBSET Mons, DeclareVictory(m, Q)
    PROVE  /\ TypesInv' /\ Only(m) /\ SameHistory
           /\ role[m] = "electing" /\ role'[m] = "leader" /\ quorum'[m] = Q /\ IsMajority(Q) /\ m \in Q
           /\ epoch'[m] = epoch[m] + 1 /\ leader'[m] = m
           /\ NewRound(m, disk[m])
           /\ \E x, y : /\ x.op = "victory" /\ x.epoch = epoch'[m] /\ IsCollect(y, m, epoch'[m], disk[m].lc)
                        /\ \A p \in Q \ {m} : Sent(m, p, {x, y})
           /\ \A p \in Mons \ {m} : p \notin Q => Quiet(m, p)
<1>0. TypesInv /\ ElectionTypeOK
  BY DEF ProtocolInv, TypesInv
<1>1. /\ mem[m] \in Memory /\ disk[m] \in Store /\ epoch[m] \in Nat /\ disk[m].lc \in Counts /\ disk[m].last_pn \in Nat
  BY <1>0, Unwritten, StoreTypes
<1> DEFINE s == Collecting(disk[m], mem[m], m, 0)
           d == [disk[m] EXCEPT !.last_pn = s.accepted_pn]
           x == [op |-> "victory", epoch |-> epoch[m] + 1, quorum |-> Q]
           y == Collect(epoch[m] + 1, disk[m], s.accepted_pn)
           P == Q \ {m}
<1>2. /\ role[m] = "electing" /\ Claim(m, Q) /\ Idle /\ NoVote
      /\ mem' = [mem EXCEPT ![m] = s] /\ disk' = [disk EXCEPT ![m].last_pn = s.accepted_pn]
      /\ Exchange(m, m, [p \in P |-> <<x, y>>])
  BY DEF DeclareVictory
<1>3. /\ s \in Memory /\ s.state = "recovering" /\ s.num_last = 1
      /\ s.accepted_pn > mem[m].accepted_pn /\ s.accepted_pn > disk[m].last_pn /\ s.accepted_pn % Stride = m
      /\ s.new_value = NoValue /\ s.uncommitted = Uncommitted(disk[m], mem[m].accepted_pn) /\ ~s.renew
  BY <1>1, CollectingIs
<1> HIDE DEF s
<1>4. s.accepted_pn \in Nat
  BY <1>3, MemoryTypes
<1>5. d \in Store /\ Grows(disk[m], d)
  BY <1>1, <1>3, <1>4, RoundStore
<1>6. disk' = [disk EXCEPT ![m] = d]
  BY <1>0, <1>2 DEF TypesInv
<1>7. /\ ElectionTypeOK' /\ role'[m] = "leader" /\ epoch'[m] = epoch[m] + 1 /\ quorum'[m] = Q
      /\ IsMajority(Q) /\ m \in Q /\ leader'[m] = m
      /\ \A n \in Mons \ {m} : role'[n] = role[n] /\ epoch'[n] = epoch[n] /\ quorum'[n] = quorum[n] /\ leader'[n] = leader[n]
  BY <1>0, <1>2, ClaimTypes
<1>d. d = [disk[m] EXCEPT !.last_pn = s.accepted_pn]
  OBVIOUS
<1> HIDE DEF d
<1>8. /\ disk' \in [Mons -> Store] /\ mem' \in [Mons -> Memory]
      /\ disk'[m] = d /\ mem'[m] = s
      /\ \A n \in Mons \ {m} : disk'[n] = disk[n] /\ mem'[n] = mem[n]
  BY <1>0, <1>2, <1>3, <1>5, <1>6, Writes
<1>9. x \in VictoryMsg /\ x.op = "victory" /\ x.epoch = epoch[m] + 1
  BY <1>1 DEF VictoryMsg
<1>10. /\ y \in CollectMsg /\ y.op = "collect" /\ y.pn = s.accepted_pn /\ y.lc = disk[m].lc /\ y.epoch = epoch[m] + 1
  BY <1>1, <1>4 DEF CollectMsg, Collect
<1>11. x \in Message /\ y \in Message /\ x.op # y.op
  BY <1>9, <1>10 DEF Message
<1>12. IsCollect(y, m, epoch'[m], disk[m].lc)
  BY <1>7, <1>8, <1>10 DEF IsCollect
<1>13. P \in SUBSET Mons
  OBVIOUS
<1>q. PICK q : q = <<x, y>>
  OBVIOUS
<1>14. PICK out : out = [p \in P |-> q]
  OBVIOUS
<1>15. DOMAIN out = P /\ (\A p \in P : out[p] = q) /\ Exchange(m, m, out)
  BY <1>2, <1>14, <1>q
<1> HIDE DEF x, y
<1>16. /\ NetStep(m)
       /\ \A p \in P \ {m} : Sent(m, p, {x, y})
       /\ \A p \in Mons \ {m} : p \notin P => Quiet(m, p)
  <2>1. q \in Seq(Message) /\ Elems(q) = {x, y} /\ \A a, b : Precedes(q, a, b) => a.op # b.op
    BY <1>11, <1>q, TwoMessages
  <2>2. \A p \in DOMAIN out : out[p] \in Seq(Message) /\ \A a, b : Precedes(out[p], a, b) => a.op # b.op
    BY <2>1, <1>15
  <2>3. DOMAIN out \subseteq Mons
    BY <1>13, <1>15
  <2>4. /\ net' \in [Channels -> Seq(Message)]
        /\ \A l, p \in Mons : l # p /\ l # m => Quiet(l, p)
        /\ \A p \in DOMAIN out \ {m} : Sent(m, p, Elems(out[p]))
        /\ \A p \in Mons \ {m} : p \notin DOMAIN out => Quiet(m, p)
    BY <1>0, <2>2, <2>3, <1>15, Sending
  <2>5. NetStep(m)
    BY <2>4 DEF NetStep
  <2>6. ASSUME NEW p \in P \ {m} PROVE Sent(m, p, {x, y})
    BY <2>1, <2>4, <1>15
  <2>7. \A p \in Mons \ {m} : p \notin P => Quiet(m, p)
    BY <2>4, <1>15
  <2> QED BY <2>5, <2>6, <2>7
<1>17. HistoryStep /\ SameHistory
  BY <1>0, <1>2, IdleStep
<1>18. TypesInv'
  BY <1>7, <1>8, <1>16, <1>17 DEF TypesInv, HistoryStep, NetStep
<1>19. epoch'[m] >= epoch[m]
  BY <1>1, <1>7
<1>20. Only(m)
  BY <1>5, <1>7, <1>8, <1>16, <1>17, <1>19 DEF Only, HistoryStep, NetStep, Grows
<1>21. NewRound(m, disk[m])
  BY <1>3, <1>8, <1>d DEF NewRound
<1>22. /\ \A p \in Q \ {m} : Sent(m, p, {x, y})
       /\ \A p \in Mons \ {m} : p \notin Q => Quiet(m, p)
  BY <1>16
<1>23. \E a, b : /\ a.op = "victory" /\ a.epoch = epoch'[m] /\ IsCollect(b, m, epoch'[m], disk[m].lc)
                 /\ \A p \in Q \ {m} : Sent(m, p, {a, b})
  BY <1>7, <1>9, <1>12, <1>22
<1> QED
  BY <1>2, <1>7, <1>17, <1>18, <1>20, <1>21, <1>22, <1>23

-----------------------------------------------------------------------------
(* What one step does: handle_last.                                        *)

\* uncommitted_v, uncommitted_pn and uncommitted_value
Uncommitteds == [v : Counts, pn : Nat, val : Values]

\* the commits by which a leader shares the store d
Shares(m, d) == {x \in Message :
    /\ x.op = "commit" /\ x.lc = d.lc /\ x.epoch = epoch[m]
    /\ \E a \in Counts : DOMAIN x.vals = (a + 1)..d.lc
    /\ \A v \in DOMAIN x.vals : x.vals[v] = d.vals[v]}

\* share_state sends a run of versions of the store.
LEMMA SharedIs ==
    ASSUME NEW d \in Store, NEW a \in Counts, NEW m, epoch[m] \in Nat
    PROVE  [op |-> "commit", epoch |-> epoch[m], lc |-> d.lc, vals |-> Shared(d, a)] \in Shares(m, d)
<1>1. d.lc \in Counts /\ a \in Nat
  BY StoreTypes, Bounds
<1>2. PICK f : f = [v \in (a + 1)..d.lc |-> d.vals[v]]
  OBVIOUS
<1>3. f \in Pieces
  BY <1>1, <1>2, IntervalPiece
<1>4. DOMAIN f = (a + 1)..d.lc /\ \A v \in DOMAIN f : f[v] = d.vals[v]
  BY <1>2
<1>5. PICK x : x = [op |-> "commit", epoch |-> epoch[m], lc |-> d.lc, vals |-> f]
  OBVIOUS
<1>6. x \in CommitMsg /\ x.op = "commit" /\ x.lc = d.lc /\ x.vals = f /\ x.epoch = epoch[m]
  BY <1>1, <1>3, <1>5 DEF CommitMsg
<1>7. x \in Message
  BY <1>6 DEF Message
<1>8. x \in Shares(m, d)
  BY <1>4, <1>6, <1>7 DEF Shares
<1> QED
  BY <1>2, <1>5, <1>8 DEF Shared

\* What handle_last sends: commits to those behind, and msgs to all of the quorum.
LEMMA SendingShares ==
    ASSUME TypesInv, NEW m \in Mons, NEW from \in Mons \ {m}, NEW d \in Store, NEW peers \in PeerLcs,
           NEW msgs \in Seq(Message), \A y, z : ~Precedes(msgs, y, z),
           \A y \in Elems(msgs) : y.op # "commit",
           net[<<from, m>>] # <<>>, Exchange(from, m, WithCommits(m, peers, from, d, msgs))
    PROVE  /\ NetStep(m) /\ Takes(from, m)
           /\ \A p \in quorum[m] \ {m} : Sent(m, p, Shares(m, d) \cup Elems(msgs))
           /\ \A p \in Mons \ {m} : p \notin quorum[m] => Quiet(m, p)
<1> DEFINE c(p) == [op |-> "commit", epoch |-> epoch[m], lc |-> d.lc, vals |-> Shared(d, peers[p])]
           f(p) == IF p \in Lagging(peers, from, d) THEN <<c(p)>> ELSE <<>>
           P == quorum[m] \ {m}
<1>0. epoch[m] \in Nat /\ P \subseteq Mons
  BY Unwritten DEF TypesInv, ElectionTypeOK
<1>1. PICK out : out = WithCommits(m, peers, from, d, msgs)
  OBVIOUS
<1>2. DOMAIN out = P /\ (\A p \in P : out[p] = f(p) \o msgs) /\ Exchange(from, m, out)
  BY <1>1 DEF WithCommits
<1>3. ASSUME NEW p \in P
      PROVE  /\ out[p] \in Seq(Message) /\ (\A x, y : Precedes(out[p], x, y) => x.op # y.op)
             /\ Elems(out[p]) \subseteq Shares(m, d) \cup Elems(msgs)
  <2>1. PICK g : g = f(p)
    OBVIOUS
  <2>2. g \in Seq(Message) /\ Elems(g) \subseteq Shares(m, d) /\ \A x, y : ~Precedes(g, x, y)
    <3>1. CASE p \in Lagging(peers, from, d)
      <4>1. peers[p] \in Counts
        <5>1. p \in DOMAIN peers
          BY <3>1 DEF Lagging
        <5> QED BY <5>1 DEF PeerLcs
      <4>2. PICK x : x = c(p)
        OBVIOUS
      <4>3. x \in Shares(m, d)
        BY <4>1, <4>2, <1>0, SharedIs
      <4>4. g = <<x>> /\ x \in Message
        BY <4>2, <4>3, <2>1, <3>1 DEF Shares
      <4> QED BY <4>3, <4>4, ShortSequences
    <3>2. CASE p \notin Lagging(peers, from, d)
      <4>1. g = <<>>
        BY <2>1, <3>2
      <4>2. g \in Seq(Message)
        BY <4>1
      <4>3. Elems(g) = {} /\ \A x, y : ~Precedes(g, x, y)
        BY <4>1, ShortSequences
      <4> QED BY <4>2, <4>3
    <3> QED BY <3>1, <3>2
  <2>3. out[p] = g \o msgs
    BY <1>2, <2>1
  <2>4. /\ g \o msgs \in Seq(Message)
        /\ \A x \in Elems(g \o msgs) : x \in Elems(g) \/ x \in Elems(msgs)
        /\ \A x, y : Precedes(g \o msgs, x, y) =>
                Precedes(g, x, y) \/ Precedes(msgs, x, y) \/ (x \in Elems(g) /\ y \in Elems(msgs))
    BY <2>2, Joined
  <2>5. \A x \in Elems(g) : x.op = "commit"
    BY <2>2 DEF Shares
  <2>6. ASSUME NEW x, NEW y, Precedes(g \o msgs, x, y) PROVE x.op # y.op
    <3>1. x \in Elems(g) /\ y \in Elems(msgs)
      BY <2>2, <2>4, <2>6
    <3> QED BY <3>1, <2>5
  <2> QED BY <2>2, <2>3, <2>4, <2>6
<1> HIDE DEF P
<1>4. \A p \in DOMAIN out : out[p] \in Seq(Message) /\ \A x, y : Precedes(out[p], x, y) => x.op # y.op
  BY <1>2, <1>3
<1>5. DOMAIN out \subseteq Mons
  BY <1>0, <1>2
<1>6. /\ net' \in [Channels -> Seq(Message)]
      /\ \A l, p \in Mons : l # p /\ l # m => Quiet(l, p)
      /\ \A p \in DOMAIN out \ {m} : Sent(m, p, Elems(out[p]))
      /\ \A p \in Mons \ {m} : p \notin DOMAIN out => Quiet(m, p)
      /\ from # m => Takes(from, m)
  BY <1>2, <1>4, <1>5, Sending
<1>7. NetStep(m) /\ Takes(from, m)
  BY <1>6 DEF NetStep
<1>8. ASSUME NEW p \in P \ {m} PROVE Sent(m, p, Shares(m, d) \cup Elems(msgs))
  <2>1. Sent(m, p, Elems(out[p])) /\ Elems(out[p]) \subseteq Shares(m, d) \cup Elems(msgs)
    BY <1>2, <1>3, <1>6
  <2> QED BY <2>1, SendsMore
<1>9. \A p \in quorum[m] \ {m} : Sent(m, p, Shares(m, d) \cup Elems(msgs))
  BY <1>8 DEF P
<1>10. \A p \in Mons \ {m} : p \notin quorum[m] => Quiet(m, p)
  BY <1>2, <1>6 DEF P
<1> QED
  BY <1>7, <1>9, <1>10

\* e is the store d with what t has committed
Merged(d, t, e) ==
    /\ e \in Store /\ e.lc >= d.lc /\ (e.lc = d.lc \/ e.lc = t.lc)
    /\ e.pending_v = d.pending_v /\ e.pending_pn = d.pending_pn
    /\ e.accepted_pn = d.accepted_pn /\ e.last_pn = d.last_pn
    /\ \A v \in Versions :
        /\ v <= d.lc \/ v > e.lc => e.vals[v] = d.vals[v]
        /\ d.lc < v /\ v <= e.lc => v \in DOMAIN t.vals /\ v <= t.lc /\ e.vals[v] = t.vals[v]

\* store_state merges a commit.
LEMMA CommitMerged ==
    ASSUME ProtocolInv, NEW m \in Mons, NEW from \in Mons \ {m}, NEW t \in Msgs(net, from, m),
           t.op = "commit"
    PROVE  Merged(disk[m], t, store_state(disk[m], t))
<1>1. t.lc \in Counts /\ t.vals \in Pieces /\ \E a \in Counts : DOMAIN t.vals = (a + 1)..t.lc
  BY CommitShape
<1>2. PICK a \in Counts : DOMAIN t.vals = (a + 1)..t.lc
  BY <1>1
<1>3. a \in Nat /\ t.lc \in Nat
  BY <1>1, Bounds
<1>5. t.lc >= t.lc
  BY <1>3
<1>4. disk[m] \in Store
  BY Unwritten DEF ProtocolInv
<1> QED
  BY <1>1, <1>2, <1>3, <1>4, <1>5, Storing DEF Merged

\* A last carries a run of versions that starts no further than the leader's store.
LEMMA LastShape ==
    ASSUME ProtocolInv, NEW m \in Mons, NEW from \in Mons \ {m}, NEW t \in Msgs(net, from, m),
           t.op = "last"
    PROVE  /\ t \in LastMsg /\ t.lc \in Counts /\ t.lc \in Nat /\ t.pn \in Nat /\ t.uncommitted_pn \in Nat
           /\ t.vals \in Pieces
           /\ \E a \in 0..disk[m].lc : DOMAIN t.vals = (a + 1)..Upto(t)
           /\ t.uncommitted_pn # 0 => t.lc + 1 \in DOMAIN t.vals /\ t.vals[t.lc + 1] # NoValue
           /\ \A v \in DOMAIN t.vals : v \in Versions /\ t.vals[v] \in Values
<1>1. t \in Message
  BY OnTheWay DEF ProtocolInv
<1>2. t \in LastMsg
  BY <1>1, MessageTypes
<1>3. /\ \E a \in 0..disk[m].lc : DOMAIN t.vals = (a + 1)..Upto(t)
      /\ t.uncommitted_pn # 0 => t.lc + 1 \in DOMAIN t.vals /\ t.vals[t.lc + 1] # NoValue
  BY DEF ProtocolInv, ShapesInv, Lc
<1>4. t.lc \in Counts /\ t.pn \in Nat /\ t.uncommitted_pn \in Nat /\ t.vals \in Pieces
  BY <1>2 DEF LastMsg
<1>5. t.lc \in Nat
  BY <1>4, Bounds
<1>6. \A v \in DOMAIN t.vals : v \in Versions /\ t.vals[v] \in Values
  BY <1>4 DEF Pieces
<1> QED
  BY <1>2, <1>3, <1>4, <1>5, <1>6

\* store_state merges a last, and brings the leader up to its sender.
LEMMA LastMerged ==
    ASSUME ProtocolInv, NEW m \in Mons, NEW from \in Mons \ {m}, NEW t \in Msgs(net, from, m),
           t.op = "last"
    PROVE  Merged(disk[m], t, store_state(disk[m], t)) /\ store_state(disk[m], t).lc >= t.lc
<1>1. /\ t.lc \in Counts /\ t.lc \in Nat /\ t.vals \in Pieces
      /\ \E a \in 0..disk[m].lc : DOMAIN t.vals = (a + 1)..Upto(t)
  BY LastShape
<1>2. PICK a \in 0..disk[m].lc : DOMAIN t.vals = (a + 1)..Upto(t)
  BY <1>1
<1>4. disk[m] \in Store /\ disk[m].lc \in Nat
  BY Unwritten, StoreTypes DEF ProtocolInv
<1>3. a \in Nat /\ a <= disk[m].lc /\ Upto(t) \in Nat /\ Upto(t) >= t.lc
  BY <1>1, <1>2, <1>4 DEF Upto
<1> QED
  BY <1>1, <1>2, <1>3, <1>4, Storing DEF Merged

\* What handle_last learns has its type, and a version has a value.
LEMMA LearnedIs ==
    ASSUME NEW w \in Uncommitteds, w.v # 0 => w.val # NoValue, NEW d \in Store, NEW t \in LastMsg,
           t.uncommitted_pn # 0 => t.lc + 1 \in DOMAIN t.vals /\ t.vals[t.lc + 1] # NoValue,
           \A v \in DOMAIN t.vals : v \in Versions /\ t.vals[v] \in Values
    PROVE  LET k == Unforgotten(w, d)
               u == Learned(k, d, t) IN
           /\ k \in Uncommitteds /\ (k.v # 0 => k.val # NoValue)
           /\ u \in Uncommitteds /\ (u.v # 0 => u.val # NoValue)
<1>1. 0 \in Counts /\ NoValue \in Values /\ Versions \subseteq Counts
  BY Bounds
<1>2. PICK k : k = Unforgotten(w, d)
  OBVIOUS
<1>3. k \in Uncommitteds /\ (k.v # 0 => k.val # NoValue)
  BY <1>1, <1>2 DEF Unforgotten, Uncommitteds
<1>4. PICK u : u = Learned(k, d, t)
  OBVIOUS
<1>5. t.lc \in Counts /\ t.uncommitted_pn \in Nat
  BY DEF LastMsg
<1>6. u \in Uncommitteds /\ (u.v # 0 => u.val # NoValue)
  <2>1. CASE u = k
    BY <2>1, <1>3
  <2>2. CASE u # k
    <3>1. /\ t.uncommitted_pn # 0
          /\ u = [v |-> t.lc + 1, pn |-> t.uncommitted_pn, val |-> t.vals[t.lc + 1]]
      BY <2>2, <1>4 DEF Learned
    <3>2. t.lc + 1 \in Counts /\ t.vals[t.lc + 1] \in Values /\ t.vals[t.lc + 1] # NoValue
      BY <3>1, <1>1
    <3>3. u.val = t.vals[t.lc + 1] /\ u \in Uncommitteds
      BY <3>1, <3>2, <1>5 DEF Uncommitteds
    <3> QED BY <3>2, <3>3
  <2> QED BY <2>1, <2>2
<1> QED
  BY <1>2, <1>3, <1>4, <1>6

\* peer_last_committed has its type.
LEMMA HeardIs ==
    ASSUME NEW s \in Memory, NEW from \in Mons, NEW msg, msg.lc \in Counts
    PROVE  Heard(s, from, msg) \in PeerLcs
<1>1. s.peer_lc \in PeerLcs
  BY MemoryTypes
<1>2. PICK S \in SUBSET Mons : s.peer_lc \in [S -> Counts]
  BY <1>1 DEF PeerLcs
<1>3. S \cup {from} \in SUBSET Mons
  OBVIOUS
<1>4. PICK h : h = Heard(s, from, msg)
  OBVIOUS
<1>5. h = [p \in S \cup {from} |-> IF p = from THEN msg.lc ELSE s.peer_lc[p]]
  BY <1>2, <1>4 DEF Heard
<1>6. h \in [S \cup {from} -> Counts]
  BY <1>2, <1>5
<1>7. h \in PeerLcs
  BY <1>3, <1>6 DEF PeerLcs
<1> QED
  BY <1>4, <1>7

\* What handle_last may do once it has merged t into the store d and learned u.
Told(m, O) == \A p \in quorum[m] \ {m} : Sent(m, p, O)
CountsAnswer(m, pn, from) == counted' = counted \cup {<<pn, from>>}
SameRound(m) ==
    /\ mem'[m].state = mem[m].state /\ mem'[m].accepted_pn = mem[m].accepted_pn
    /\ mem'[m].accepted = mem[m].accepted /\ mem'[m].new_value = mem[m].new_value
    /\ mem'[m].renew = mem[m].renew
\* the sender has promised more: collect again with a larger number
LastAgain(m, t, d) ==
    /\ t.pn > mem[m].accepted_pn /\ SameHistory /\ NewRound(m, d)
    /\ \E y : IsCollect(y, m, epoch[m], d.lc) /\ Told(m, Shares(m, d) \cup {y})
\* one more answer, but not the last
LastMore(from, m, t, d, u) ==
    /\ t.pn = mem[m].accepted_pn /\ mem[m].num_last + 1 # Cardinality(quorum[m])
    /\ disk'[m] = d /\ SameRound(m) /\ mem'[m].num_last = mem[m].num_last + 1 /\ mem'[m].uncommitted = u
    /\ CountsAnswer(m, t.pn, from) /\ votes' = votes
    /\ Told(m, Shares(m, d))
\* the last answer, and a value to propose again
LastBegin(from, m, t, d, u) ==
    /\ t.pn = mem[m].accepted_pn /\ mem[m].num_last + 1 = Cardinality(quorum[m])
    /\ u.v = d.lc + 1 /\ d.lc + 1 \in Versions
    /\ disk'[m] = Accepted(d, u.val, t.pn)
    /\ mem'[m].state = "updating_previous" /\ mem'[m].accepted_pn = mem[m].accepted_pn
    /\ mem'[m].num_last = mem[m].num_last + 1 /\ mem'[m].accepted = {m} /\ mem'[m].new_value = u.val
    /\ mem'[m].uncommitted.v = 0 /\ ~mem'[m].renew
    /\ CountsAnswer(m, t.pn, from)
    /\ votes' = votes \cup {[mon |-> m, v |-> d.lc + 1, pn |-> t.pn, val |-> u.val]}
    /\ \E y : IsBegin(y, m, d.lc, u.val) /\ Told(m, Shares(m, d) \cup {y})
\* the last answer, and nothing to propose
LastActive(from, m, t, d, u) ==
    /\ t.pn = mem[m].accepted_pn /\ mem[m].num_last + 1 = Cardinality(quorum[m]) /\ u.v # d.lc + 1
    /\ disk'[m] = d
    /\ mem'[m].state = "active" /\ mem'[m].accepted_pn = mem[m].accepted_pn
    /\ mem'[m].num_last = mem[m].num_last + 1 /\ mem'[m].new_value = NoValue
    /\ mem'[m].uncommitted.v = 0
    /\ CountsAnswer(m, t.pn, from) /\ votes' = votes
    /\ \E y : IsLease(y, m, d.lc) /\ Told(m, Shares(m, d) \cup {y})
\* an answer to an earlier round
LastStale(m, t, d) ==
    /\ t.pn < mem[m].accepted_pn /\ SameHistory
    /\ disk'[m] = d /\ SameRound(m) /\ mem'[m].num_last = mem[m].num_last
    /\ mem'[m].uncommitted = Unforgotten(mem[m].uncommitted, d)
    /\ Told(m, Shares(m, d))

\* handle_last merges the store of the sender and then does one of the five.
LEMMA LastStep ==
    ASSUME ProtocolInv, NEW m \in Mons, NEW from \in Mons \ {m}, handle_last(from, m)
    PROVE  LET t == Taken(from, m) IN
           /\ TypesInv' /\ Only(m) /\ SameElectionOf(m)
           /\ t \in Msgs(net, from, m) /\ t.op = "last" /\ role[m] = "leader" /\ t.epoch = epoch[m]
           /\ Takes(from, m)
           /\ \A p \in Mons \ {m} : p \notin quorum[m] => Quiet(m, p)
           /\ \E d, u :
               /\ Merged(disk[m], t, d) /\ d.lc >= t.lc
               /\ u \in Uncommitteds /\ (u.v # 0 => u.val # NoValue)
               /\ u = Learned(Unforgotten(mem[m].uncommitted, d), d, t)
               /\ \/ LastAgain(m, t, d) \/ LastMore(from, m, t, d, u) \/ LastBegin(from, m, t, d, u)
                  \/ LastActive(from, m, t, d, u) \/ LastStale(m, t, d)
<1>0. TypesInv
  BY DEF ProtocolInv
<1> DEFINE t == Taken(from, m)
           s == mem[m]
           d == store_state(disk[m], t)
           peers == Heard(s, from, t)
           k == Unforgotten(s.uncommitted, d)
           u == Learned(k, d, t)
           again == Collecting(d, s, m, t.pn)
           all == s.num_last + 1 = Cardinality(quorum[m])
           more == [s EXCEPT !.num_last = @ + 1, !.peer_lc = peers, !.uncommitted = u]
           After(dd, ss, msgs) ==
               /\ disk' = [disk EXCEPT ![m] = dd]
               /\ mem' = [mem EXCEPT ![m] = ss]
               /\ Exchange(from, m, WithCommits(m, peers, from, d, msgs))
<1>1. /\ s \in Memory /\ disk[m] \in Store /\ epoch[m] \in Nat /\ s.accepted_pn \in Nat /\ s.num_last \in Nat
      /\ disk[m].lc \in Nat /\ disk[m].last_pn \in Nat
  BY <1>0, Unwritten, MemoryTypes, StoreTypes
<1>2. /\ SameElection /\ Idle /\ net[<<from, m>>] # <<>> /\ t.op = "last" /\ role[m] = "leader"
      /\ t.epoch = epoch[m]
  BY DEF handle_last, Dispatched, Arrives, Taken
<1>3. t \in Msgs(net, from, m)
  BY <1>0, <1>2, TakenIs
<1>4. /\ t \in LastMsg /\ t.lc \in Counts /\ t.pn \in Nat
      /\ t.uncommitted_pn # 0 => t.lc + 1 \in DOMAIN t.vals /\ t.vals[t.lc + 1] # NoValue
      /\ \A v \in DOMAIN t.vals : v \in Versions /\ t.vals[v] \in Values
  <2> HIDE DEF t
  <2> QED BY <1>2, <1>3, LastShape
<1>5. Merged(disk[m], t, d) /\ d.lc >= t.lc
  <2> HIDE DEF t
  <2> QED BY <1>2, <1>3, LastMerged
<1>6. \/ t.pn > s.accepted_pn /\ NoVote
         /\ After([d EXCEPT !.last_pn = again.accepted_pn], again, <<Collect(epoch[m], d, again.accepted_pn)>>)
      \/ t.pn = s.accepted_pn /\ ~all /\ Count(t.pn, from) /\ votes' = votes
         /\ After(d, more, <<>>)
      \/ t.pn = s.accepted_pn /\ all /\ u.v = d.lc + 1 /\ Count(t.pn, from) /\ Vote(m, d.lc + 1, t.pn, u.val)
         /\ After(Accepted(d, u.val, t.pn), Beginning(m, more, u.val, "updating_previous"),
                       <<Begin(m, d, s, u.val)>>)
      \/ t.pn = s.accepted_pn /\ all /\ u.v # d.lc + 1 /\ Count(t.pn, from) /\ votes' = votes
         /\ After(d, Active(more), <<Lease(m, d)>>)
      \/ t.pn < s.accepted_pn /\ NoVote
         /\ After(d, [s EXCEPT !.peer_lc = peers, !.uncommitted = k], <<>>)
  BY DEF handle_last, Taken
<1>d. d = store_state(disk[m], t) /\ k = Unforgotten(s.uncommitted, d) /\ u = Learned(k, d, t)
  OBVIOUS
<1> HIDE DEF t
<1>7. peers \in PeerLcs
  BY <1>1, <1>4, HeardIs
<1>8. /\ k \in Uncommitteds /\ (k.v # 0 => k.val # NoValue)
      /\ u \in Uncommitteds /\ (u.v # 0 => u.val # NoValue)
  <2>1. s.uncommitted \in Uncommitteds /\ (s.uncommitted.v # 0 => s.uncommitted.val # NoValue)
    BY <1>1, MemoryTypes DEF Uncommitteds, ProtocolInv, LeaderInv
  <2>2. d \in Store
    BY <1>5 DEF Merged
  <2> HIDE DEF d
  <2> QED BY <2>1, <2>2, <1>4, LearnedIs
<1>9. d \in Store /\ d.lc >= disk[m].lc /\ d.last_pn = disk[m].last_pn /\ d.lc \in Nat /\ d.lc \in Counts
  BY <1>5, StoreTypes DEF Merged
<1> HIDE DEF d, peers, k, u
<1>10. Grows(disk[m], d)
  BY <1>1, <1>9 DEF Grows
<1>11. ASSUME NEW dd \in Store, Grows(disk[m], dd), NEW ss \in Memory, NEW msgs \in Seq(Message),
              \A y, z : ~Precedes(msgs, y, z), \A y \in Elems(msgs) : y.op # "commit",
              HistoryStep, After(dd, ss, msgs)
       PROVE  /\ TypesInv' /\ Only(m) /\ SameElectionOf(m) /\ Takes(from, m)
              /\ \A p \in Mons \ {m} : p \notin quorum[m] => Quiet(m, p)
              /\ disk'[m] = dd /\ mem'[m] = ss /\ Told(m, Shares(m, d) \cup Elems(msgs))
  <2>1. /\ NetStep(m) /\ Takes(from, m)
        /\ \A p \in quorum[m] \ {m} : Sent(m, p, Shares(m, d) \cup Elems(msgs))
        /\ \A p \in Mons \ {m} : p \notin quorum[m] => Quiet(m, p)
    BY <1>0, <1>2, <1>7, <1>9, <1>11, SendingShares
  <2>2. TypesInv' /\ Only(m) /\ disk'[m] = dd /\ mem'[m] = ss /\ SameElectionOf(m)
    BY <1>0, <1>2, <1>11, <2>1, Local
  <2> QED BY <2>1, <2>2 DEF Told
<1>12. /\ <<>> \in Seq(Message) /\ Elems(<<>>) = {} /\ \A y, z : ~Precedes(<<>>, y, z)
  <2>1. <<>> \in Seq(Message)
    OBVIOUS
  <2>2. Elems(<<>>) = {} /\ \A y, z : ~Precedes(<<>>, y, z)
    BY ShortSequences
  <2> QED BY <2>1, <2>2
<1>13. /\ more \in Memory /\ more.state = s.state /\ more.accepted_pn = s.accepted_pn
       /\ more.accepted = s.accepted /\ more.new_value = s.new_value
       /\ more.num_last = s.num_last + 1 /\ more.uncommitted = u
  <2>1. PICK mm \in Memory, n \in Nat, ps \in PeerLcs, uu \in [v : Counts, pn : Nat, val : Values] :
            mm = s /\ n = s.num_last + 1 /\ ps = peers /\ uu = u
    BY <1>1, <1>7, <1>8 DEF Uncommitteds
  <2>2. PICK r : r = [mm EXCEPT !.num_last = n, !.peer_lc = ps, !.uncommitted = uu]
    OBVIOUS
  <2>3. /\ r \in Memory /\ r.state = mm.state /\ r.accepted_pn = mm.accepted_pn
        /\ r.accepted = mm.accepted /\ r.new_value = mm.new_value
        /\ r.num_last = n /\ r.uncommitted = uu
    BY <2>2 DEF Memory
  <2>4. more = r
    BY <2>1, <2>2
  <2> HIDE DEF more
  <2> QED BY <2>1, <2>3, <2>4
<1>14. more.renew = s.renew
  BY <1>1 DEF Memory
<1>15. HistoryStep \/ ~(NoVote \/ (Count(t.pn, from) /\ votes' = votes))
  BY <1>0, <1>2, <1>4 DEF TypesInv, HistoryStep, Idle, NoVote, paxosHistory, Count
<1> DEFINE Goal ==
       /\ TypesInv' /\ Only(m) /\ SameElectionOf(m) /\ Takes(from, m)
       /\ \A p \in Mons \ {m} : p \notin quorum[m] => Quiet(m, p)
       /\ \/ LastAgain(m, t, d) \/ LastMore(from, m, t, d, u) \/ LastBegin(from, m, t, d, u)
          \/ LastActive(from, m, t, d, u) \/ LastStale(m, t, d)
<1>16. ASSUME t.pn > s.accepted_pn, NoVote,
              After([d EXCEPT !.last_pn = again.accepted_pn], again, <<Collect(epoch[m], d, again.accepted_pn)>>)
       PROVE  Goal
  <2>1. PICK r : r = again
    OBVIOUS
  <2>2. /\ r \in Memory /\ r.state = "recovering" /\ r.num_last = 1
        /\ r.accepted_pn > s.accepted_pn /\ r.accepted_pn > d.last_pn /\ r.accepted_pn % Stride = m
        /\ r.new_value = NoValue /\ r.uncommitted = Uncommitted(d, s.accepted_pn) /\ ~r.renew
    <3>1. PICK mm \in Memory, n \in Nat, e \in Store : mm = s /\ n = t.pn /\ e = d
      BY <1>1, <1>4, <1>9
    <3>2. r = Collecting(e, mm, m, n)
      BY <2>1, <3>1
    <3> HIDE DEF s
    <3>3. /\ r \in Memory /\ r.state = "recovering" /\ r.num_last = 1
          /\ r.accepted_pn > mm.accepted_pn /\ r.accepted_pn > e.last_pn /\ r.accepted_pn % Stride = m
          /\ r.new_value = NoValue /\ r.uncommitted = Uncommitted(e, mm.accepted_pn) /\ ~r.renew
      BY <3>2, CollectingIs
    <3> QED BY <3>1, <3>3
  <2>3. r.accepted_pn \in Nat
    BY <2>2, MemoryTypes
  <2>4. PICK dd : dd = [d EXCEPT !.last_pn = r.accepted_pn]
    OBVIOUS
  <2>5. dd \in Store /\ dd.lc = d.lc /\ dd.last_pn = r.accepted_pn
    BY <1>9, <2>2, <2>3, <2>4, RoundStore
  <2>6. Grows(disk[m], dd)
    BY <1>1, <1>9, <2>2, <2>3, <2>5 DEF Grows
  <2>7. PICK y : y = Collect(epoch[m], d, r.accepted_pn)
    OBVIOUS
  <2>8. y \in CollectMsg /\ y.op = "collect" /\ y.pn = r.accepted_pn /\ y.lc = d.lc /\ y.epoch = epoch[m]
    BY <1>1, <1>9, <2>3, <2>7 DEF Collect, CollectMsg
  <2>9. y \in Message
    BY <2>8 DEF Message
  <2>10. <<y>> \in Seq(Message) /\ Elems(<<y>>) = {y} /\ \A a, z : ~Precedes(<<y>>, a, z)
    BY <2>9, ShortSequences
  <2>11. After(dd, r, <<y>>)
    BY <1>16, <2>1, <2>4, <2>7
  <2>12. HistoryStep /\ SameHistory
    BY <1>0, <1>2, <1>16, IdleStep
  <2>13. /\ TypesInv' /\ Only(m) /\ SameElectionOf(m) /\ Takes(from, m)
         /\ \A p \in Mons \ {m} : p \notin quorum[m] => Quiet(m, p)
         /\ disk'[m] = dd /\ mem'[m] = r /\ Told(m, Shares(m, d) \cup {y})
    <3> HIDE DEF After
    <3>1. \A z \in Elems(<<y>>) : z.op # "commit"
      BY <2>8, <2>10
    <3> QED BY <1>11, <2>2, <2>5, <2>6, <2>10, <2>11, <2>12, <3>1
  <2>14. NewRound(m, d)
    BY <2>2, <2>4, <2>13, <1>9 DEF NewRound
  <2>15. IsCollect(y, m, epoch[m], d.lc)
    BY <2>8, <2>13 DEF IsCollect
  <2>16. LastAgain(m, t, d)
    BY <1>16, <2>12, <2>13, <2>14, <2>15 DEF LastAgain
  <2> QED BY <2>13, <2>16
<1>17. ASSUME t.pn = s.accepted_pn, ~all, Count(t.pn, from), votes' = votes, After(d, more, <<>>)
       PROVE  Goal
  <2>1. HistoryStep
    BY <1>15, <1>17
  <2>2. /\ TypesInv' /\ Only(m) /\ SameElectionOf(m) /\ Takes(from, m)
        /\ \A p \in Mons \ {m} : p \notin quorum[m] => Quiet(m, p)
        /\ disk'[m] = d /\ mem'[m] = more /\ Told(m, Shares(m, d) \cup Elems(<<>>))
    <3> HIDE DEF After, more
    <3>1. \A z \in Elems(<<>>) : z.op # "commit"
      BY <1>12
    <3> QED BY <1>9, <1>10, <1>11, <1>12, <1>13, <1>17, <2>1, <3>1
  <2>3. Told(m, Shares(m, d))
    <3>1. Shares(m, d) \cup Elems(<<>>) = Shares(m, d)
      BY <1>12
    <3> QED BY <2>2, <3>1
  <2> HIDE DEF more
  <2>4. SameRound(m)
    BY <1>13, <1>14, <2>2 DEF SameRound
  <2>5. CountsAnswer(m, t.pn, from)
    BY <1>17 DEF Count, CountsAnswer
  <2>6. LastMore(from, m, t, d, u)
    BY <1>13, <1>17, <2>2, <2>3, <2>4, <2>5 DEF LastMore
  <2> QED BY <2>2, <2>6
<1>18. ASSUME t.pn = s.accepted_pn, all, u.v = d.lc + 1, Count(t.pn, from), Vote(m, d.lc + 1, t.pn, u.val),
              After(Accepted(d, u.val, t.pn), Beginning(m, more, u.val, "updating_previous"),
                       <<Begin(m, d, s, u.val)>>)
       PROVE  Goal
  <2>1. u.val \in Values /\ d.lc + 1 \in Versions
    <3>1. u.v \in Counts /\ u.val \in Values
      BY <1>8 DEF Uncommitteds
    <3>2. d.lc + 1 \in Counts /\ d.lc + 1 > 0 /\ d.lc + 1 \in Nat
      BY <1>9, <1>18, <3>1
    <3> QED BY <3>1, <3>2, Bounds
  <2>2. PICK dd : dd = Accepted(d, u.val, t.pn)
    OBVIOUS
  <2>3. dd \in Store /\ dd.lc = d.lc /\ dd.last_pn = d.last_pn
    BY <1>4, <1>9, <2>1, <2>2, AcceptedIs
  <2>4. Grows(disk[m], dd)
    BY <1>1, <1>9, <2>3 DEF Grows
  <2>5. PICK r : r = Beginning(m, more, u.val, "updating_previous")
    OBVIOUS
  <2>6. /\ r \in Memory /\ r.state = "updating_previous" /\ r.accepted_pn = more.accepted_pn
        /\ r.num_last = more.num_last /\ r.accepted = {m} /\ r.new_value = u.val /\ r.uncommitted.v = 0
        /\ ~r.renew
    <3>1. "updating_previous" \in States
      BY DEF States
    <3> HIDE DEF more
    <3> QED BY <1>13, <2>1, <2>5, <3>1, BeginningIs
  <2>7. PICK y : y = Begin(m, d, s, u.val)
    OBVIOUS
  <2>8. y \in BeginMsg /\ IsBegin(y, m, d.lc, u.val) /\ y.op = "begin"
    BY <1>1, <1>9, <2>1, <2>7 DEF Begin, BeginMsg, IsBegin
  <2>9. y \in Message
    BY <2>8 DEF Message
  <2>10. <<y>> \in Seq(Message) /\ Elems(<<y>>) = {y} /\ \A a, z : ~Precedes(<<y>>, a, z)
    BY <2>9, ShortSequences
  <2>11. After(dd, r, <<y>>)
    BY <1>18, <2>2, <2>5, <2>7
  <2>12. /\ counted' = counted \cup {<<t.pn, from>>}
         /\ votes' = votes \cup {[mon |-> m, v |-> d.lc + 1, pn |-> t.pn, val |-> u.val]}
    BY <1>18 DEF Count, Vote
  <2>13. HistoryStep
    <3>1. PICK w : w = [mon |-> m, v |-> d.lc + 1, pn |-> t.pn, val |-> u.val]
      OBVIOUS
    <3>2. w \in [mon : Mons, v : Versions, pn : Nat, val : Values]
      BY <1>4, <2>1, <3>1
    <3>3. votes' = votes \cup {w}
      BY <2>12, <3>1
    <3> QED BY <1>0, <1>2, <1>4, <2>12, <3>2, <3>3 DEF TypesInv, HistoryStep, Idle
  <2>14. /\ TypesInv' /\ Only(m) /\ SameElectionOf(m) /\ Takes(from, m)
         /\ \A p \in Mons \ {m} : p \notin quorum[m] => Quiet(m, p)
         /\ disk'[m] = dd /\ mem'[m] = r /\ Told(m, Shares(m, d) \cup {y})
    <3> HIDE DEF After
    <3>1. \A z \in Elems(<<y>>) : z.op # "commit"
      BY <2>8, <2>10
    <3> QED BY <1>11, <2>3, <2>4, <2>6, <2>10, <2>11, <2>13, <3>1
  <2> HIDE DEF more
  <2>15. LastBegin(from, m, t, d, u)
    <3>1. \E z : IsBegin(z, m, d.lc, u.val) /\ Told(m, Shares(m, d) \cup {z})
      BY <2>8, <2>14
    <3>2. CountsAnswer(m, t.pn, from)
      BY <2>12 DEF CountsAnswer
    <3> QED BY <1>13, <1>18, <2>1, <2>2, <2>6, <2>12, <2>14, <3>1, <3>2 DEF LastBegin
  <2> QED BY <2>14, <2>15
<1>19. ASSUME t.pn = s.accepted_pn, all, u.v # d.lc + 1, Count(t.pn, from), votes' = votes,
              After(d, Active(more), <<Lease(m, d)>>)
       PROVE  Goal
  <2>1. PICK r : r = Active(more)
    OBVIOUS
  <2>2. /\ r \in Memory /\ r.state = "active" /\ r.accepted_pn = more.accepted_pn
        /\ r.num_last = more.num_last /\ r.new_value = NoValue /\ r.uncommitted.v = 0
    <3> HIDE DEF more
    <3> QED BY <1>13, <2>1, ActiveIs
  <2>7. PICK y : y = Lease(m, d)
    OBVIOUS
  <2>8. y \in LeaseMsg /\ y.op = "lease" /\ IsLease(y, m, d.lc)
    BY <1>1, <1>9, <2>7 DEF Lease, LeaseMsg, IsLease
  <2>9. y \in Message
    BY <2>8 DEF Message
  <2>10. <<y>> \in Seq(Message) /\ Elems(<<y>>) = {y} /\ \A a, z : ~Precedes(<<y>>, a, z)
    BY <2>9, ShortSequences
  <2>11. After(d, r, <<y>>)
    BY <1>19, <2>1, <2>7
  <2>12. HistoryStep
    BY <1>15, <1>19
  <2>14. /\ TypesInv' /\ Only(m) /\ SameElectionOf(m) /\ Takes(from, m)
         /\ \A p \in Mons \ {m} : p \notin quorum[m] => Quiet(m, p)
         /\ disk'[m] = d /\ mem'[m] = r /\ Told(m, Shares(m, d) \cup {y})
    <3> HIDE DEF After
    <3>1. \A z \in Elems(<<y>>) : z.op # "commit"
      BY <2>8, <2>10
    <3> QED BY <1>9, <1>10, <1>11, <2>2, <2>10, <2>11, <2>12, <3>1
  <2> HIDE DEF more
  <2>15. LastActive(from, m, t, d, u)
    <3>1. \E z : IsLease(z, m, d.lc) /\ Told(m, Shares(m, d) \cup {z})
      BY <2>8, <2>14
    <3>2. CountsAnswer(m, t.pn, from)
      BY <1>19 DEF CountsAnswer, Count
    <3> QED BY <1>13, <1>19, <2>2, <2>14, <3>1, <3>2 DEF LastActive
  <2> QED BY <2>14, <2>15
<1>20. ASSUME t.pn < s.accepted_pn, NoVote, After(d, [s EXCEPT !.peer_lc = peers, !.uncommitted = k], <<>>)
       PROVE  Goal
  <2>1. HistoryStep /\ SameHistory
    BY <1>0, <1>2, <1>20, IdleStep
  <2> DEFINE r == [s EXCEPT !.peer_lc = peers, !.uncommitted = k]
  <2>2. /\ r \in Memory /\ r.state = s.state /\ r.accepted_pn = s.accepted_pn
        /\ r.accepted = s.accepted /\ r.new_value = s.new_value
        /\ r.num_last = s.num_last /\ r.uncommitted = k
    BY <1>1, <1>7, <1>8 DEF Memory, Uncommitteds
  <2>3. r.renew = s.renew
    BY <1>1 DEF Memory
  <2> HIDE DEF r
  <2>4. After(d, r, <<>>)
    BY <1>20 DEF r
  <2>5. /\ TypesInv' /\ Only(m) /\ SameElectionOf(m) /\ Takes(from, m)
        /\ \A p \in Mons \ {m} : p \notin quorum[m] => Quiet(m, p)
        /\ disk'[m] = d /\ mem'[m] = r /\ Told(m, Shares(m, d) \cup Elems(<<>>))
    <3> HIDE DEF After
    <3>1. \A z \in Elems(<<>>) : z.op # "commit"
      BY <1>12
    <3> QED BY <1>9, <1>10, <1>11, <1>12, <2>1, <2>2, <2>4, <3>1
  <2>6. Told(m, Shares(m, d))
    <3>1. Shares(m, d) \cup Elems(<<>>) = Shares(m, d)
      BY <1>12
    <3> QED BY <2>5, <3>1
  <2>7. SameRound(m)
    BY <2>2, <2>3, <2>5 DEF SameRound
  <2>8. LastStale(m, t, d)
    BY <1>20, <2>1, <2>2, <2>5, <2>6, <2>7, <1>d DEF LastStale
  <2> QED BY <2>5, <2>8
<1>21. Goal
  <2> HIDE DEF Goal, After, again, more, all
  <2> QED BY <1>6, <1>16, <1>17, <1>18, <1>19, <1>20
<1>22. u = Learned(Unforgotten(mem[m].uncommitted, d), d, t)
  BY <1>d
<1> QED
  BY <1>2, <1>3, <1>5, <1>8, <1>21, <1>22 DEF t

-----------------------------------------------------------------------------
(* The parts of ProtocolInv under a step of one monitor.                   *)

\* nothing new of the kinds ops goes out from m
NoNew(m, ops) == \A p \in Mons \ {m} :
    /\ \A x \in Msgs(net', m, p) : x.op \in ops => x \in Msgs(net, m, p)
    /\ \A x, y : Before(net', m, p, x, y) /\ x.op \in ops /\ y.op = x.op => Before(net, m, p, x, y)

\* A step that sends nothing of the kinds ops.
LEMMA SentNoNew ==
    ASSUME NEW m \in Mons, NEW ops, NEW O, \A x \in O : x.op \notin ops,
           \A p \in Mons \ {m} : Sent(m, p, O)
    PROVE  NoNew(m, ops)
<1>1. ASSUME NEW p \in Mons \ {m}, NEW x \in Msgs(net', m, p), x.op \in ops PROVE x \in Msgs(net, m, p)
  BY <1>1 DEF Sent
<1>2. ASSUME NEW p \in Mons \ {m}, NEW x, NEW y, Before(net', m, p, x, y), x.op \in ops, y.op = x.op
      PROVE  Before(net, m, p, x, y)
  BY <1>2 DEF Sent
<1> QED
  BY <1>1, <1>2 DEF NoNew

\* A step that sends nothing.
LEMMA QuietNoNew ==
    ASSUME NEW m \in Mons, NEW ops, \A p \in Mons \ {m} : Quiet(m, p)
    PROVE  NoNew(m, ops)
BY DEF NoNew, Quiet

\* What is not sent of many kinds is not sent of fewer.
LEMMA FewerNoNew ==
    ASSUME NEW m \in Mons, NEW ops, NEW some, some \subseteq ops, NoNew(m, ops)
    PROVE  NoNew(m, some)
BY DEF NoNew

\* Committed versions, last_pn and epochs only grow.
LEMMA OnlyGrows ==
    ASSUME TypesInv, NEW m \in Mons, Only(m), NEW n \in Mons
    PROVE  /\ disk'[n].lc >= disk[n].lc /\ disk'[n].last_pn >= disk[n].last_pn /\ epoch'[n] >= epoch[n]
<1>1. disk[n].lc \in Nat /\ disk[n].last_pn \in Nat /\ epoch[n] \in Nat
  BY Unwritten, StoreTypes
<1>2. CASE n = m
  BY <1>2 DEF Only
<1>3. CASE n # m
  <2>1. disk'[n] = disk[n] /\ epoch'[n] = epoch[n]
    BY <1>3 DEF Only
  <2> QED BY <1>1, <2>1
<1> QED
  BY <1>2, <1>3

\* A number given out stays given out.
LEMMA IssuedGrows ==
    ASSUME TypesInv, TypesInv', NEW m \in Mons, Only(m), NEW pn \in Nat, Issued(disk, pn)
    PROVE  Issued(disk', pn)
<1>1. CASE pn = 0
  BY <1>1 DEF Issued
<1>2. CASE pn # 0
  <2>1. PICK n \in Mons : pn % Stride = n /\ pn <= disk[n].last_pn
    BY <1>2 DEF Issued
  <2>2. disk[n] \in Store /\ disk'[n] \in Store
    BY DEF TypesInv
  <2>3. disk[n].last_pn \in Nat /\ disk'[n].last_pn \in Nat
    BY <2>2, StoreTypes
  <2>4. pn <= disk'[n].last_pn
    BY <2>1, <2>3, OnlyGrows
  <2> QED BY <2>1, <2>4 DEF Issued
<1> QED
  BY <1>1, <1>2

\* A number of m's form is not above its last_pn.
LEMMA IssuedBound ==
    ASSUME TypesInv, NEW m \in Mons, NEW pn \in Nat, pn % Stride = m, Issued(disk, pn)
    PROVE  pn <= disk[m].last_pn
<1>1. disk[m].last_pn \in Nat
  BY Unwritten, StoreTypes
<1> QED
  BY <1>1 DEF Issued

\* the numbers of x on the way from l to p
NumberOK(d, l, p, x) ==
    /\ x.op \in Numbered => Issued(d, x.pn)
    /\ x.op \in {"collect", "begin"} => x.pn % Stride = l
    /\ x.op = "accept" => x.pn % Stride = p

\* NumbersInv after a step of m, if its own numbers and its new messages are right.
LEMMA NumbersFrame ==
    ASSUME ProtocolInv, TypesInv', NEW m \in Mons, Only(m),
           Issued(disk', mem'[m].accepted_pn), Issued(disk', disk'[m].accepted_pn),
           \A p \in Mons \ {m} : \A x \in Msgs(net', m, p) : x \in Msgs(net, m, p) \/ NumberOK(disk', m, p, x),
           \A w \in votes' : w \in votes \/ Issued(disk', w.pn),
           \A z \in counted' : z \in counted \/ Issued(disk', z[1])
    PROVE  NumbersInv'
<1>0. TypesInv /\ NumbersInv
  BY DEF ProtocolInv
<1>1. ASSUME NEW n \in Mons PROVE Issued(disk', mem'[n].accepted_pn) /\ Issued(disk', disk'[n].accepted_pn)
  <2>1. CASE n = m
    BY <2>1
  <2>2. CASE n # m
    <3>1. disk'[n] = disk[n] /\ mem'[n] = mem[n]
      BY <2>2 DEF Only
    <3>2. mem[n].accepted_pn \in Nat /\ disk[n].accepted_pn \in Nat
      BY <1>0, Unwritten, StoreTypes, MemoryTypes
    <3>3. Issued(disk, mem[n].accepted_pn) /\ Issued(disk, disk[n].accepted_pn)
      BY <1>0 DEF NumbersInv, Promise
    <3>4. Issued(disk', mem[n].accepted_pn) /\ Issued(disk', disk[n].accepted_pn)
      BY <1>0, <3>2, <3>3, IssuedGrows
    <3> QED BY <3>1, <3>4
  <2> QED BY <2>1, <2>2
<1>2. ASSUME NEW l \in Mons, NEW p \in Mons, l # p, NEW x \in Msgs(net', l, p)
      PROVE  NumberOK(disk', l, p, x)
  <2>1. CASE x \in Msgs(net, l, p)
    <3>1. x \in Message
      BY <1>0, <1>2, <2>1, OnTheWay
    <3>2. x.op \in Numbered => x.pn \in Nat /\ Issued(disk, x.pn)
      BY <1>0, <1>2, <2>1, <3>1, MessageTypes DEF NumbersInv
    <3>3. x.op \in Numbered => Issued(disk', x.pn)
      BY <1>0, <3>2, IssuedGrows
    <3>4. (x.op \in {"collect", "begin"} => x.pn % Stride = l) /\ (x.op = "accept" => x.pn % Stride = p)
      BY <1>0, <1>2, <2>1 DEF NumbersInv
    <3> QED BY <3>3, <3>4 DEF NumberOK
  <2>2. CASE x \notin Msgs(net, l, p)
    <3>1. l = m
      BY <1>2, <2>2 DEF Only, Quiet
    <3> QED BY <1>2, <2>2, <3>1
  <2> QED BY <2>1, <2>2
<1>3. ASSUME NEW w \in votes' PROVE Issued(disk', w.pn)
  <2>1. CASE w \in votes
    <3>1. w.pn \in Nat /\ Issued(disk, w.pn)
      BY <1>0, <2>1 DEF TypesInv, NumbersInv
    <3> QED BY <1>0, <3>1, IssuedGrows
  <2> QED BY <2>1
<1>4. ASSUME NEW z \in counted' PROVE Issued(disk', z[1])
  <2>1. CASE z \in counted
    <3>1. z[1] \in Nat /\ Issued(disk, z[1])
      BY <1>0, <2>1 DEF TypesInv, NumbersInv
    <3> QED BY <1>0, <3>1, IssuedGrows
  <2> QED BY <2>1
<1> QED
  BY <1>1, <1>2, <1>3, <1>4 DEF NumbersInv, NumberOK, Promise

\* the store of one monitor, with its promise
DiskOK(d, pn) ==
    /\ \A v \in Versions : v > d.lc + 1 => d.vals[v] = NoValue
    /\ d.lc + 1 \in Versions /\ d.vals[d.lc + 1] # NoValue => d.pending_v = d.lc + 1 /\ d.pending_pn > 0
    /\ d.accepted_pn <= pn

\* DiskInv for one monitor.
LEMMA DiskIs ==
    ASSUME DiskInv, NEW m \in Mons
    PROVE  DiskOK(disk[m], mem[m].accepted_pn)
BY DEF DiskInv, DiskOK, Lc, Promise

\* DiskInv after a step of m, if its store is right.
LEMMA DiskFrame ==
    ASSUME ProtocolInv, NEW m \in Mons, Only(m), DiskOK(disk'[m], mem'[m].accepted_pn)
    PROVE  DiskInv'
<1>1. ASSUME NEW n \in Mons PROVE DiskOK(disk'[n], mem'[n].accepted_pn)
  <2>1. CASE n = m
    BY <2>1
  <2>2. CASE n # m
    <3>1. disk'[n] = disk[n] /\ mem'[n] = mem[n]
      BY <2>2 DEF Only
    <3>2. DiskOK(disk[n], mem[n].accepted_pn)
      BY DiskIs DEF ProtocolInv
    <3> QED BY <3>1, <3>2
  <2> QED BY <2>1, <2>2
<1> QED
  BY <1>1 DEF DiskInv, DiskOK, Lc, Promise

\* the store is as it was but for the numbers
SameStore(d, e) ==
    /\ e.lc = d.lc /\ e.vals = d.vals /\ e.pending_v = d.pending_v /\ e.pending_pn = d.pending_pn

\* A store with other numbers.
LEMMA DiskSame ==
    ASSUME NEW d \in Store, NEW e \in Store, NEW pn, NEW b, DiskOK(d, pn), SameStore(d, e),
           e.accepted_pn <= b
    PROVE  DiskOK(e, b)
BY DEF DiskOK, SameStore

\* A store with what a message has committed.
LEMMA DiskMerged ==
    ASSUME NEW d \in Store, NEW e, NEW t, NEW pn, DiskOK(d, pn), Merged(d, t, e)
    PROVE  DiskOK(e, pn)
<1>1. d.lc \in Nat /\ e.lc \in Nat /\ e.lc >= d.lc
  BY StoreTypes DEF Merged
<1>2. ASSUME NEW v \in Versions, v > e.lc + 1 PROVE e.vals[v] = NoValue
  <2>1. v \in Nat /\ v > e.lc /\ v > d.lc + 1
    BY <1>1, <1>2, Bounds
  <2> QED BY <2>1 DEF Merged, DiskOK
<1>3. ASSUME e.lc + 1 \in Versions, e.vals[e.lc + 1] # NoValue
      PROVE  e.pending_v = e.lc + 1 /\ e.pending_pn > 0
  <2>1. e.lc + 1 > e.lc
    BY <1>1
  <2>2. e.vals[e.lc + 1] = d.vals[e.lc + 1]
    BY <1>3, <2>1 DEF Merged
  <2>3. ~(e.lc + 1 > d.lc + 1)
    BY <1>3, <2>2 DEF DiskOK
  <2>4. e.lc = d.lc
    BY <1>1, <2>3
  <2> QED BY <1>3, <2>2, <2>4 DEF DiskOK, Merged
<1> QED
  BY <1>2, <1>3 DEF DiskOK, Merged

\* A store with one more version committed.
LEMMA DiskCommitted ==
    ASSUME NEW d \in Store, NEW e, NEW pn, NEW b, DiskOK(d, pn), d.lc + 1 \in Versions,
           e = [d EXCEPT !.lc = @ + 1], d.accepted_pn <= b
    PROVE  DiskOK(e, b)
<1>1. /\ e.lc = d.lc + 1 /\ e.vals = d.vals /\ e.accepted_pn = d.accepted_pn
  BY CommittingIs
<1>2. d.lc \in Nat
  BY StoreTypes
<1>3. ASSUME NEW v \in Versions, v > e.lc + 1 PROVE e.vals[v] = NoValue
  <2>1. v \in Nat /\ v > d.lc + 1
    BY <1>1, <1>2, <1>3, Bounds
  <2> QED BY <1>1, <2>1 DEF DiskOK
<1>4. ASSUME e.lc + 1 \in Versions PROVE e.vals[e.lc + 1] = NoValue
  <2>1. e.lc + 1 > d.lc + 1
    BY <1>1, <1>2
  <2> QED BY <1>1, <1>4, <2>1 DEF DiskOK
<1> QED
  BY <1>1, <1>3, <1>4 DEF DiskOK

\* A store with a value for the version in progress.
LEMMA DiskAccepted ==
    ASSUME NEW d \in Store, NEW e, NEW pn \in Nat, NEW val \in Values, NEW n \in Nat, DiskOK(d, n),
           d.lc + 1 \in Versions, e = Accepted(d, val, pn), pn > 0
    PROVE  DiskOK(e, n)
<1>1. /\ e.lc = d.lc /\ e.accepted_pn = d.accepted_pn /\ e.pending_v = d.lc + 1 /\ e.pending_pn = pn
      /\ \A v \in Versions : v # d.lc + 1 => e.vals[v] = d.vals[v]
  BY AcceptedIs
<1>2. d.lc \in Nat
  BY StoreTypes
<1>3. ASSUME NEW v \in Versions, v > e.lc + 1 PROVE e.vals[v] = NoValue
  <2>1. v \in Nat /\ v # d.lc + 1 /\ v > d.lc + 1
    BY <1>1, <1>2, <1>3, Bounds
  <2> QED BY <1>1, <2>1 DEF DiskOK
<1> QED
  BY <1>1, <1>3 DEF DiskOK

\* Of the kinds not sent, everything on any way was on it before, in this order.
LEMMA OldOnes ==
    ASSUME NEW m \in Mons, NEW ops, Only(m), NoNew(m, ops), NEW l \in Mons, NEW p \in Mons, l # p
    PROVE  /\ \A x \in Msgs(net', l, p) : x.op \in ops => x \in Msgs(net, l, p)
           /\ \A x, y : Before(net', l, p, x, y) /\ x.op \in ops /\ y.op = x.op => Before(net, l, p, x, y)
<1>1. CASE l = m
  BY <1>1 DEF NoNew
<1>2. CASE l # m
  BY <1>2 DEF Only, Quiet
<1> QED
  BY <1>1, <1>2

\* The numbers of messages are numbers.
LEMMA PnOf ==
    ASSUME TypesInv, NEW l \in Mons, NEW p \in Mons, l # p, NEW x \in Msgs(net, l, p), x.op \in Numbered
    PROVE  x.pn \in Nat
BY OnTheWay, MessageTypes

\* a collect x on the way from l to p
CollectOK(d, ms, n, c, l, p, x) ==
    /\ 0 < x.pn /\ x.pn <= d[l].last_pn
    /\ ms[p].accepted_pn % Stride = l => ms[p].accepted_pn < x.pn
    /\ \A y \in Msgs(n, p, l) : y.op = "last" /\ y.pn % Stride = l => y.pn < x.pn
    /\ \A z \in c : z[2] = p /\ z[1] % Stride = l => z[1] < x.pn
\* of two collects on one way the later has the larger number
CollectsOrdered(n, l, p) ==
    \A x \in Msgs(n, l, p), y \in Msgs(n, l, p) :
         Before(n, l, p, x, y) /\ x.op = "collect" /\ y.op = "collect" => x.pn < y.pn
\* what l has counted from p is not of its latest number
AnswerOK(d, c, l, p) == \A z \in c : z[2] = p /\ z[1] % Stride = l => z[1] < d[l].last_pn
\* of two lasts on one way only the later can be of the latest number
AnswersOrdered(d, n, l, p) ==
    \A x \in Msgs(n, p, l), y \in Msgs(n, p, l) :
        Before(n, p, l, x, y) /\ x.op = "last" /\ y.op = "last" /\ x.pn % Stride = l => x.pn < d[l].last_pn

\* CollectsInv and AnswersInv for one way.
LEMMA CollectsIs ==
    ASSUME CollectsInv, AnswersInv, NEW l \in Mons, NEW p \in Mons, l # p
    PROVE  /\ \A x \in Msgs(net, l, p) : x.op = "collect" => CollectOK(disk, mem, net, counted, l, p, x)
           /\ CollectsOrdered(net, l, p)
           /\ \A y \in Msgs(net, p, l) : y.op = "last" => AnswerOK(disk, counted, l, p)
           /\ AnswersOrdered(disk, net, l, p)
BY DEF CollectsInv, AnswersInv, CollectOK, CollectsOrdered, AnswerOK, AnswersOrdered, Promise

\* CollectsInv and AnswersInv after a step, from every way.
LEMMA CollectsFrom ==
    ASSUME \A l, p \in Mons : l # p =>
           /\ \A x \in Msgs(net', l, p) : x.op = "collect" => CollectOK(disk', mem', net', counted', l, p, x)
           /\ CollectsOrdered(net', l, p)
           /\ \A y \in Msgs(net', p, l) : y.op = "last" => AnswerOK(disk', counted', l, p)
           /\ AnswersOrdered(disk', net', l, p)
    PROVE  CollectsInv' /\ AnswersInv'
BY DEF CollectsInv, AnswersInv, CollectOK, CollectsOrdered, AnswerOK, AnswersOrdered, Promise

\* last_pn only grows
LastPns == \A n \in Mons : disk'[n].last_pn >= disk[n].last_pn /\ disk[n].last_pn \in Nat /\ disk'[n].last_pn \in Nat

\* last_pn only grows.
LEMMA LastPnsGrow ==
    ASSUME TypesInv, TypesInv', NEW m \in Mons, Only(m)
    PROVE  LastPns
<1>1. ASSUME NEW n \in Mons PROVE disk'[n].last_pn >= disk[n].last_pn /\ disk[n].last_pn \in Nat /\ disk'[n].last_pn \in Nat
  <2>1. disk[n] \in Store /\ disk'[n] \in Store
    BY DEF TypesInv
  <2> QED BY <2>1, OnlyGrows, StoreTypes
<1> QED
  BY <1>1 DEF LastPns

\* an answer counted that no collect and no last contradicts
NewCount(m, z) ==
    /\ z[1] % Stride = m
    /\ \A p \in Mons \ {m} : z[2] = p =>
        /\ \A x \in Msgs(net', m, p) : x.op = "collect" => z[1] < x.pn
        /\ \A y \in Msgs(net', p, m) : y.op # "last"

\* Collects and answers after a step of m that sends neither.
LEMMA CollectsFrame ==
    ASSUME ProtocolInv, TypesInv', NEW m \in Mons, Only(m), NoNew(m, {"collect", "last"}),
           \A z \in counted' : z \in counted \/ NewCount(m, z),
           mem'[m].accepted_pn = mem[m].accepted_pn \/ \A p \in Mons \ {m} : Msgs(net', p, m) = {}
    PROVE  CollectsInv' /\ AnswersInv'
<1>0. TypesInv /\ CollectsInv /\ AnswersInv
  BY DEF ProtocolInv
<1>1. LastPns
  BY <1>0, LastPnsGrow
<1>2. ASSUME NEW l \in Mons, NEW p \in Mons, l # p
      PROVE  /\ \A x \in Msgs(net', l, p) : x.op = "collect" => CollectOK(disk', mem', net', counted', l, p, x)
             /\ CollectsOrdered(net', l, p)
             /\ \A y \in Msgs(net', p, l) : y.op = "last" => AnswerOK(disk', counted', l, p)
             /\ AnswersOrdered(disk', net', l, p)
  <2>1. /\ \A x \in Msgs(net', l, p) : x.op \in {"collect", "last"} => x \in Msgs(net, l, p)
        /\ \A x, y : Before(net', l, p, x, y) /\ x.op \in {"collect", "last"} /\ y.op = x.op => Before(net, l, p, x, y)
        /\ \A x \in Msgs(net', p, l) : x.op \in {"collect", "last"} => x \in Msgs(net, p, l)
        /\ \A x, y : Before(net', p, l, x, y) /\ x.op \in {"collect", "last"} /\ y.op = x.op => Before(net, p, l, x, y)
    BY <1>2, OldOnes
  <2>2. /\ \A x \in Msgs(net, l, p) : x.op = "collect" => CollectOK(disk, mem, net, counted, l, p, x)
        /\ CollectsOrdered(net, l, p)
        /\ \A y \in Msgs(net, p, l) : y.op = "last" => AnswerOK(disk, counted, l, p)
        /\ AnswersOrdered(disk, net, l, p)
    BY <1>0, <1>2, CollectsIs
  <2>3. ASSUME NEW x \in Msgs(net', l, p), x.op = "collect" PROVE CollectOK(disk', mem', net', counted', l, p, x)
    <3>1. x \in Msgs(net, l, p) /\ CollectOK(disk, mem, net, counted, l, p, x) /\ x.pn \in Nat
      BY <1>0, <1>2, <2>1, <2>2, <2>3, PnOf DEF Numbered
    <3>2. mem'[p].accepted_pn = mem[p].accepted_pn
      <4>1. CASE p = m
        BY <1>2, <2>3, <4>1
      <4>2. CASE p # m
        BY <4>2 DEF Only
      <4> QED BY <4>1, <4>2
    <3>3. 0 < x.pn /\ x.pn <= disk'[l].last_pn
      BY <1>1, <3>1 DEF CollectOK, LastPns
    <3>4. \A y \in Msgs(net', p, l) : y.op = "last" /\ y.pn % Stride = l => y.pn < x.pn
      BY <2>1, <3>1 DEF CollectOK
    <3>5. ASSUME NEW z \in counted', z[2] = p, z[1] % Stride = l PROVE z[1] < x.pn
      <4>1. CASE z \in counted
        BY <3>1, <3>5, <4>1 DEF CollectOK
      <4>2. CASE NewCount(m, z)
        BY <1>2, <2>3, <3>5, <4>2 DEF NewCount
      <4> QED BY <4>1, <4>2
    <3>6. mem'[p].accepted_pn % Stride = l => mem'[p].accepted_pn < x.pn
      BY <3>1, <3>2 DEF CollectOK
    <3> QED BY <3>3, <3>4, <3>5, <3>6 DEF CollectOK
  <2>4. CollectsOrdered(net', l, p)
    BY <2>1, <2>2 DEF CollectsOrdered
  <2>5. ASSUME NEW y \in Msgs(net', p, l), y.op = "last" PROVE AnswerOK(disk', counted', l, p)
    <3>1. AnswerOK(disk, counted, l, p)
      BY <2>1, <2>2, <2>5
    <3>2. ASSUME NEW z \in counted', z[2] = p, z[1] % Stride = l PROVE z[1] < disk'[l].last_pn
      <4>1. CASE z \in counted
        <5>1. z[1] \in Nat /\ z[1] < disk[l].last_pn
          BY <1>0, <3>1, <3>2, <4>1 DEF TypesInv, AnswerOK
        <5> QED BY <1>1, <5>1 DEF LastPns
      <4>2. CASE NewCount(m, z)
        BY <1>2, <2>5, <3>2, <4>2 DEF NewCount
      <4> QED BY <4>1, <4>2
    <3> QED BY <3>2 DEF AnswerOK
  <2>6. AnswersOrdered(disk', net', l, p)
    <3>1. ASSUME NEW x \in Msgs(net', p, l), NEW y \in Msgs(net', p, l), Before(net', p, l, x, y),
                 x.op = "last", y.op = "last", x.pn % Stride = l
          PROVE  x.pn < disk'[l].last_pn
      <4>1. x \in Msgs(net, p, l) /\ y \in Msgs(net, p, l) /\ Before(net, p, l, x, y) /\ x.pn \in Nat
        BY <1>0, <1>2, <2>1, <3>1, PnOf DEF Numbered
      <4>2. x.pn < disk[l].last_pn
        BY <2>2, <3>1, <4>1 DEF AnswersOrdered
      <4> QED BY <1>1, <4>1, <4>2 DEF LastPns
    <3> QED BY <3>1 DEF AnswersOrdered
  <2> QED BY <2>3, <2>4, <2>5, <2>6
<1> QED
  BY <1>2, CollectsFrom

\* The answer to a collect: it is the largest number this peon has given this leader.
LEMMA CollectsCollect ==
    ASSUME ProtocolInv, TypesInv', NEW m \in Mons, NEW from \in Mons \ {m}, Only(m), counted' = counted,
           NEW t \in Msgs(net, from, m), t.op = "collect", \A x \in Msgs(net', from, m) : Before(net,
           from, m, t, x),
           mem'[m].accepted_pn = IF t.pn > mem[m].accepted_pn THEN t.pn ELSE mem[m].accepted_pn,
           NEW ans, ans.op = "last", ans.pn = mem'[m].accepted_pn, Sent(m, from, {ans}),
           \A p \in Mons \ {m, from} : Quiet(m, p)
    PROVE  CollectsInv' /\ AnswersInv'
<1>0. TypesInv /\ CollectsInv /\ AnswersInv /\ NumbersInv
  BY DEF ProtocolInv
<1>1. LastPns
  BY <1>0, LastPnsGrow
<1>2. t.pn \in Nat /\ t.pn % Stride = from /\ mem[m].accepted_pn \in Nat
  BY <1>0, PnOf, Unwritten, MemoryTypes DEF Numbered, NumbersInv
<1>3. CollectOK(disk, mem, net, counted, from, m, t) /\ CollectsOrdered(net, from, m)
  BY <1>0, CollectsIs
<1>4. NoNew(m, {"collect"})
  <2>1. PICK O, ops : O = {ans} /\ ops = {"collect"}
    OBVIOUS
  <2>2. \A p \in Mons \ {m} : Sent(m, p, O)
    BY <2>1, QuietSends
  <2>3. \A x \in O : x.op \notin ops
    BY <2>1
  <2>4. NoNew(m, ops)
    BY <2>2, <2>3, SentNoNew
  <2> QED BY <2>1, <2>4
<1>5. ASSUME NEW l \in Mons, NEW p \in Mons, l # p
      PROVE  /\ \A x \in Msgs(net', l, p) : x.op = "collect" => CollectOK(disk', mem', net', counted', l, p, x)
             /\ CollectsOrdered(net', l, p)
             /\ \A y \in Msgs(net', p, l) : y.op = "last" => AnswerOK(disk', counted', l, p)
             /\ AnswersOrdered(disk', net', l, p)
  <2>1. /\ \A x \in Msgs(net', l, p) : x.op \in {"collect"} => x \in Msgs(net, l, p)
        /\ \A x, y : Before(net', l, p, x, y) /\ x.op \in {"collect"} /\ y.op = x.op => Before(net, l, p, x, y)
    BY <1>4, <1>5, OldOnes
  <2>2. /\ \A x \in Msgs(net, l, p) : x.op = "collect" => CollectOK(disk, mem, net, counted, l, p, x)
        /\ CollectsOrdered(net, l, p)
        /\ \A y \in Msgs(net, p, l) : y.op = "last" => AnswerOK(disk, counted, l, p)
        /\ AnswersOrdered(disk, net, l, p)
    BY <1>0, <1>5, CollectsIs
  <2>3. CollectsOrdered(net', l, p)
    BY <2>1, <2>2 DEF CollectsOrdered
  <2>4. CASE p = m /\ l = from
    <3>1. ASSUME NEW x \in Msgs(net', l, p), x.op = "collect" PROVE CollectOK(disk', mem', net', counted', l, p, x)
      <4>1. x \in Msgs(net, l, p) /\ CollectOK(disk, mem, net, counted, l, p, x) /\ x.pn \in Nat
        BY <1>0, <1>5, <2>1, <2>2, <3>1, PnOf DEF Numbered
      <4>2. t.pn < x.pn
        BY <1>3, <2>4, <3>1, <4>1 DEF CollectsOrdered
      <4>3. mem'[p].accepted_pn % Stride = l => mem'[p].accepted_pn < x.pn
        BY <1>2, <2>4, <4>1, <4>2 DEF CollectOK
      <4>4. ASSUME NEW y \in Msgs(net', p, l), y.op = "last", y.pn % Stride = l PROVE y.pn < x.pn
        <5>1. y \in Msgs(net, p, l) \/ y = ans
          BY <2>4, <4>4 DEF Sent
        <5>2. CASE y \in Msgs(net, p, l)
          BY <4>1, <4>4, <5>2 DEF CollectOK
        <5>3. CASE y = ans
          BY <2>4, <4>3, <4>4, <5>3
        <5> QED BY <5>1, <5>2, <5>3
      <4>5. 0 < x.pn /\ x.pn <= disk'[l].last_pn
        BY <1>1, <4>1 DEF CollectOK, LastPns
      <4>6. \A z \in counted' : z[2] = p /\ z[1] % Stride = l => z[1] < x.pn
        BY <4>1 DEF CollectOK
      <4> QED BY <4>3, <4>4, <4>5, <4>6 DEF CollectOK
    <3>2. AnswerOK(disk', counted', l, p)
      <4>1. ASSUME NEW z \in counted', z[2] = p, z[1] % Stride = l PROVE z[1] < disk'[l].last_pn
        <5>1. z[1] \in Nat /\ z[1] < t.pn /\ t.pn <= disk[l].last_pn
          BY <1>0, <1>3, <2>4, <4>1 DEF CollectOK, TypesInv
        <5> QED BY <1>1, <1>2, <5>1 DEF LastPns
      <4> QED BY <4>1 DEF AnswerOK
    <3>3. ASSUME NEW x \in Msgs(net', p, l), NEW y \in Msgs(net', p, l), Before(net', p, l, x, y),
                 x.op = "last", y.op = "last", x.pn % Stride = l
          PROVE  x.pn < disk'[l].last_pn
      <4>1. Before(net, p, l, x, y) \/ (x \in Msgs(net, p, l) /\ y \in {ans})
        BY <2>4, <3>3 DEF Sent
      <4>2. x \in Msgs(net, p, l)
        BY <4>1 DEF Before, Msgs, Precedes, Elems
      <4>3. x.pn < t.pn /\ t.pn <= disk[l].last_pn /\ x.pn \in Nat
        BY <1>0, <1>3, <1>5, <2>4, <3>3, <4>2, PnOf DEF CollectOK, Numbered
      <4> QED BY <1>1, <1>2, <4>3 DEF LastPns
    <3>4. AnswersOrdered(disk', net', l, p)
      BY <3>3 DEF AnswersOrdered
    <3> QED BY <2>3, <3>1, <3>2, <3>4
  <2>5. CASE ~(p = m /\ l = from)
    <3>0. Quiet(p, l)
      BY <1>5, <2>5 DEF Only
    <3>1. ASSUME NEW x \in Msgs(net', l, p), x.op = "collect" PROVE CollectOK(disk', mem', net', counted', l, p, x)
      <4>1. x \in Msgs(net, l, p) /\ CollectOK(disk, mem, net, counted, l, p, x) /\ x.pn \in Nat
        BY <1>0, <1>5, <2>1, <2>2, <3>1, PnOf DEF Numbered
      <4>3. mem'[p].accepted_pn % Stride = l => mem'[p].accepted_pn < x.pn
        <5>1. CASE p = m
          <6>1. CASE mem'[m].accepted_pn = t.pn
            BY <1>2, <2>5, <5>1, <6>1
          <6>2. CASE mem'[m].accepted_pn = mem[m].accepted_pn
            BY <4>1, <5>1, <6>2 DEF CollectOK
          <6> QED BY <6>1, <6>2
        <5>2. CASE p # m
          BY <4>1, <5>2 DEF CollectOK, Only
        <5> QED BY <5>1, <5>2
      <4>4. \A y \in Msgs(net', p, l) : y.op = "last" /\ y.pn % Stride = l => y.pn < x.pn
        BY <3>0, <4>1 DEF Quiet, CollectOK
      <4>5. 0 < x.pn /\ x.pn <= disk'[l].last_pn
        BY <1>1, <4>1 DEF CollectOK, LastPns
      <4>6. \A z \in counted' : z[2] = p /\ z[1] % Stride = l => z[1] < x.pn
        BY <4>1 DEF CollectOK
      <4> QED BY <4>3, <4>4, <4>5, <4>6 DEF CollectOK
    <3>2. ASSUME NEW y \in Msgs(net', p, l), y.op = "last" PROVE AnswerOK(disk', counted', l, p)
      <4>1. AnswerOK(disk, counted, l, p)
        BY <2>2, <3>0, <3>2 DEF Quiet
      <4>2. ASSUME NEW z \in counted', z[2] = p, z[1] % Stride = l PROVE z[1] < disk'[l].last_pn
        <5>1. z[1] \in Nat /\ z[1] < disk[l].last_pn
          BY <1>0, <4>1, <4>2 DEF TypesInv, AnswerOK
        <5> QED BY <1>1, <5>1 DEF LastPns
      <4> QED BY <4>2 DEF AnswerOK
    <3>3. ASSUME NEW x \in Msgs(net', p, l), NEW y \in Msgs(net', p, l), Before(net', p, l, x, y),
                 x.op = "last", y.op = "last", x.pn % Stride = l
          PROVE  x.pn < disk'[l].last_pn
      <4>1. x \in Msgs(net, p, l) /\ y \in Msgs(net, p, l) /\ Before(net, p, l, x, y) /\ x.pn \in Nat
        BY <1>0, <1>5, <3>0, <3>3, PnOf DEF Numbered, Quiet
      <4>2. x.pn < disk[l].last_pn
        BY <2>2, <3>3, <4>1 DEF AnswersOrdered
      <4> QED BY <1>1, <4>1, <4>2 DEF LastPns
    <3>4. AnswersOrdered(disk', net', l, p)
      BY <3>3 DEF AnswersOrdered
    <3> QED BY <2>3, <3>1, <3>2, <3>4
  <2> QED BY <2>4, <2>5
<1> QED
  BY <1>5, CollectsFrom

\* A new round: its number is above all that has the form of m's numbers.
LEMMA CollectsRound ==
    ASSUME ProtocolInv, TypesInv', NEW m \in Mons, Only(m), counted' = counted, NEW pn \in Nat,
           mem'[m].accepted_pn = pn, disk'[m].last_pn = pn, pn > disk[m].last_pn, pn % Stride = m,
           NoNew(m, {"last"}),
           \A p \in Mons \ {m} : \A x \in Msgs(net', m, p) : x.op = "collect" => x \in Msgs(net, m, p) \/ x.pn = pn,
           \A p \in Mons \ {m} : \A x, y : Before(net', m, p, x, y) /\ x.op = "collect" /\ y.op = "collect" =>
               Before(net, m, p, x, y) \/ (x \in Msgs(net, m, p) /\ y.pn = pn)
    PROVE  CollectsInv' /\ AnswersInv'
<1>0. TypesInv /\ CollectsInv /\ AnswersInv /\ NumbersInv
  BY DEF ProtocolInv
<1>1. LastPns
  BY <1>0, LastPnsGrow
<1>2. ASSUME NEW l \in Mons, NEW p \in Mons, l # p
      PROVE  /\ \A x \in Msgs(net', l, p) : x.op = "collect" => CollectOK(disk', mem', net', counted', l, p, x)
             /\ CollectsOrdered(net', l, p)
             /\ \A y \in Msgs(net', p, l) : y.op = "last" => AnswerOK(disk', counted', l, p)
             /\ AnswersOrdered(disk', net', l, p)
  <2>1. /\ \A x \in Msgs(net', p, l) : x.op \in {"last"} => x \in Msgs(net, p, l)
        /\ \A x, y : Before(net', p, l, x, y) /\ x.op \in {"last"} /\ y.op = x.op => Before(net, p, l, x, y)
    BY <1>2, OldOnes
  <2>2. /\ \A x \in Msgs(net, l, p) : x.op = "collect" => CollectOK(disk, mem, net, counted, l, p, x)
        /\ CollectsOrdered(net, l, p)
        /\ \A y \in Msgs(net, p, l) : y.op = "last" => AnswerOK(disk, counted, l, p)
        /\ AnswersOrdered(disk, net, l, p)
    BY <1>0, <1>2, CollectsIs
  <2>3. \A x \in Msgs(net', l, p) : x.op = "collect" => x \in Msgs(net, l, p) \/ (l = m /\ x.pn = pn)
    BY <1>2 DEF Only, Quiet
  <2>4. \A x, y : Before(net', l, p, x, y) /\ x.op = "collect" /\ y.op = "collect" =>
           Before(net, l, p, x, y) \/ (l = m /\ x \in Msgs(net, l, p) /\ y.pn = pn)
    BY <1>2 DEF Only, Quiet
  <2>5. ASSUME NEW x \in Msgs(net', l, p), x.op = "collect" PROVE CollectOK(disk', mem', net', counted', l, p, x)
    <3>1. CASE x \in Msgs(net, l, p)
      <4>1. CollectOK(disk, mem, net, counted, l, p, x) /\ x.pn \in Nat
        BY <1>0, <1>2, <2>2, <2>5, <3>1, PnOf DEF Numbered
      <4>2. mem'[p].accepted_pn % Stride = l => mem'[p].accepted_pn < x.pn
        <5>1. CASE p = m
          BY <1>2, <5>1
        <5>2. CASE p # m
          BY <4>1, <5>2 DEF CollectOK, Only
        <5> QED BY <5>1, <5>2
      <4>3. 0 < x.pn /\ x.pn <= disk'[l].last_pn
        BY <1>1, <4>1 DEF CollectOK, LastPns
      <4> QED BY <2>1, <4>1, <4>2, <4>3 DEF CollectOK
    <3>2. CASE l = m /\ x.pn = pn
      <4>1. mem'[p].accepted_pn % Stride = l => mem'[p].accepted_pn < x.pn
        <5>1. mem'[p] = mem[p] /\ mem[p].accepted_pn \in Nat /\ Issued(disk, mem[p].accepted_pn)
          BY <1>0, <1>2, <3>2, Unwritten, MemoryTypes DEF Only, NumbersInv, Promise
        <5>2. mem[p].accepted_pn % Stride = m => mem[p].accepted_pn <= disk[m].last_pn
          BY <1>0, <5>1, IssuedBound
        <5> QED BY <1>1, <3>2, <5>1, <5>2 DEF LastPns
      <4>2. ASSUME NEW y \in Msgs(net', p, l), y.op = "last", y.pn % Stride = l PROVE y.pn < x.pn
        <5>1. y \in Msgs(net, p, l) /\ y.pn \in Nat /\ Issued(disk, y.pn)
          BY <1>0, <1>2, <2>1, <4>2, PnOf DEF Numbered, NumbersInv
        <5>2. y.pn <= disk[m].last_pn
          BY <1>0, <3>2, <4>2, <5>1, IssuedBound
        <5> QED BY <1>1, <3>2, <5>1, <5>2 DEF LastPns
      <4>3. ASSUME NEW z \in counted', z[2] = p, z[1] % Stride = l PROVE z[1] < x.pn
        <5>1. z[1] \in Nat /\ Issued(disk, z[1])
          BY <1>0 DEF TypesInv, NumbersInv
        <5>2. z[1] <= disk[m].last_pn
          BY <1>0, <3>2, <4>3, <5>1, IssuedBound
        <5> QED BY <1>1, <3>2, <5>1, <5>2 DEF LastPns
      <4>4. 0 < x.pn /\ x.pn <= disk'[l].last_pn
        BY <1>1, <3>2 DEF LastPns
      <4> QED BY <4>1, <4>2, <4>3, <4>4 DEF CollectOK
    <3> QED BY <2>3, <2>5, <3>1, <3>2
  <2>6. CollectsOrdered(net', l, p)
    <3>1. ASSUME NEW x \in Msgs(net', l, p), NEW y \in Msgs(net', l, p), Before(net', l, p, x, y),
                 x.op = "collect", y.op = "collect"
          PROVE  x.pn < y.pn
      <4>1. CASE Before(net, l, p, x, y)
        <5>1. x \in Msgs(net, l, p) /\ y \in Msgs(net, l, p)
          BY <4>1 DEF Before, Msgs, Precedes, Elems
        <5> QED BY <2>2, <3>1, <4>1, <5>1 DEF CollectsOrdered
      <4>2. CASE l = m /\ x \in Msgs(net, l, p) /\ y.pn = pn
        <5>1. CollectOK(disk, mem, net, counted, l, p, x) /\ x.pn \in Nat
          BY <1>0, <1>2, <2>2, <3>1, <4>2, PnOf DEF Numbered
        <5> QED BY <1>1, <4>2, <5>1 DEF CollectOK, LastPns
      <4> QED BY <2>4, <3>1, <4>1, <4>2
    <3> QED BY <3>1 DEF CollectsOrdered
  <2>7. ASSUME NEW y \in Msgs(net', p, l), y.op = "last" PROVE AnswerOK(disk', counted', l, p)
    <3>1. AnswerOK(disk, counted, l, p)
      BY <2>1, <2>2, <2>7
    <3>2. ASSUME NEW z \in counted', z[2] = p, z[1] % Stride = l PROVE z[1] < disk'[l].last_pn
      <4>1. z[1] \in Nat /\ z[1] < disk[l].last_pn
        BY <1>0, <3>1, <3>2 DEF TypesInv, AnswerOK
      <4> QED BY <1>1, <4>1 DEF LastPns
    <3> QED BY <3>2 DEF AnswerOK
  <2>8. ASSUME NEW x \in Msgs(net', p, l), NEW y \in Msgs(net', p, l), Before(net', p, l, x, y),
                 x.op = "last", y.op = "last", x.pn % Stride = l
        PROVE  x.pn < disk'[l].last_pn
    <3>1. x \in Msgs(net, p, l) /\ y \in Msgs(net, p, l) /\ Before(net, p, l, x, y) /\ x.pn \in Nat
      BY <1>0, <1>2, <2>1, <2>8, PnOf DEF Numbered
    <3>2. x.pn < disk[l].last_pn
      BY <2>2, <2>8, <3>1 DEF AnswersOrdered
    <3> QED BY <1>1, <3>1, <3>2 DEF LastPns
  <2>9. AnswersOrdered(disk', net', l, p)
    BY <2>8 DEF AnswersOrdered
  <2> QED BY <2>5, <2>6, <2>7, <2>9
<1> QED
  BY <1>2, CollectsFrom

\* x of an epoch of l, and then p of its quorum
InQuorum(e, r, q, l, p, x) == x.epoch <= e[l] /\ (r[l] = "leader" /\ x.epoch = e[l] => p \in q[l])
\* what x on the way from l to p is like
ShapeOK(d, e, r, q, l, p, x) ==
    /\ x.op = "collect" => x.lc <= d[l].lc /\ InQuorum(e, r, q, l, p, x)
    /\ x.op = "last" =>
        /\ InQuorum(e, r, q, p, l, x)
        /\ \E a \in 0..d[p].lc : DOMAIN x.vals = (a + 1)..Upto(x)
        /\ x.uncommitted_pn # 0 => x.lc + 1 \in DOMAIN x.vals /\ x.vals[x.lc + 1] # NoValue
    /\ x.op = "begin" => x.lc + 1 \in Versions /\ x.pn > 0
    /\ x.op = "commit" => \E a \in Counts : DOMAIN x.vals = (a + 1)..x.lc

\* ShapesInv for one message.
LEMMA ShapesIs ==
    ASSUME ShapesInv, NEW l \in Mons, NEW p \in Mons, l # p, NEW x \in Msgs(net, l, p)
    PROVE  ShapeOK(disk, epoch, role, quorum, l, p, x)
BY DEF ShapesInv, ShapeOK, InQuorum, OfQuorum, IsLeader, Lc

\* ShapesInv after a step, from every message.
LEMMA ShapesFrom ==
    ASSUME \A l, p \in Mons : l # p => \A x \in Msgs(net', l, p) : ShapeOK(disk', epoch', role',
           quorum', l, p, x)
    PROVE  ShapesInv'
BY DEF ShapesInv, ShapeOK, InQuorum, OfQuorum, IsLeader, Lc

\* ShapesInv after a step of m, if its new messages are right.
LEMMA ShapesFrame ==
    ASSUME ProtocolInv, TypesInv', NEW m \in Mons, Only(m),
           role'[m] # "leader" \/ SameElectionOf(m) \/ epoch'[m] > epoch[m],
           \A p \in Mons \ {m} : \A x \in Msgs(net', m, p) :
               x \in Msgs(net, m, p) \/ ShapeOK(disk', epoch', role', quorum', m, p, x)
    PROVE  ShapesInv'
<1>0. TypesInv /\ ShapesInv
  BY DEF ProtocolInv
<1>1. ASSUME NEW n \in Mons
      PROVE  /\ disk[n].lc \in Nat /\ disk'[n].lc \in Nat /\ disk'[n].lc >= disk[n].lc
             /\ epoch[n] \in Nat /\ epoch'[n] \in Nat /\ epoch'[n] >= epoch[n]
  <2>1. disk[n] \in Store /\ disk'[n] \in Store /\ epoch[n] \in Nat /\ epoch'[n] \in Nat
    BY <1>0 DEF TypesInv, ElectionTypeOK
  <2> QED BY <1>0, <2>1, StoreTypes, OnlyGrows
<1>2. ASSUME NEW n \in Mons, NEW p \in Mons, NEW x, x.epoch \in Nat, InQuorum(epoch, role, quorum, n, p, x)
      PROVE  InQuorum(epoch', role', quorum', n, p, x)
  <2>1. x.epoch <= epoch'[n]
    BY <1>1, <1>2 DEF InQuorum
  <2>2. ASSUME role'[n] = "leader", x.epoch = epoch'[n] PROVE p \in quorum'[n]
    <3>1. CASE n # m
      BY <1>2, <2>2, <3>1 DEF InQuorum, Only
    <3>2. CASE n = m /\ SameElectionOf(m)
      BY <1>2, <2>2, <3>2 DEF InQuorum, SameElectionOf
    <3>3. CASE n = m /\ epoch'[m] > epoch[m]
      BY <1>1, <1>2, <2>2, <3>3 DEF InQuorum
    <3> QED BY <2>2, <3>1, <3>2, <3>3
  <2> QED BY <2>1, <2>2 DEF InQuorum
<1>3. ASSUME NEW l \in Mons, NEW p \in Mons, l # p, NEW x \in Msgs(net', l, p)
      PROVE  ShapeOK(disk', epoch', role', quorum', l, p, x)
  <2>1. CASE x \in Msgs(net, l, p)
    <3>1. x \in Message
      BY <1>0, <1>3, <2>1, OnTheWay
    <3>2. x.epoch \in Nat /\ (x.op = "collect" => x.lc \in Nat)
      BY <3>1, MessageTypes, Bounds DEF CollectMsg
    <3>3. ShapeOK(disk, epoch, role, quorum, l, p, x)
      BY <1>0, <1>3, <2>1, ShapesIs
    <3>4. x.op = "collect" => x.lc <= disk'[l].lc /\ InQuorum(epoch', role', quorum', l, p, x)
      BY <1>1, <1>2, <3>2, <3>3 DEF ShapeOK
    <3>5. ASSUME x.op = "last"
          PROVE  /\ InQuorum(epoch', role', quorum', p, l, x)
                 /\ \E a \in 0..disk'[p].lc : DOMAIN x.vals = (a + 1)..Upto(x)
      <4>1. InQuorum(epoch', role', quorum', p, l, x)
        BY <1>2, <3>2, <3>3, <3>5 DEF ShapeOK
      <4>2. PICK a \in 0..disk[p].lc : DOMAIN x.vals = (a + 1)..Upto(x)
        BY <3>3, <3>5 DEF ShapeOK
      <4>3. a \in 0..disk'[p].lc
        BY <1>1, <4>2
      <4> QED BY <4>1, <4>2, <4>3
    <3> QED BY <3>3, <3>4, <3>5 DEF ShapeOK
  <2>2. CASE x \notin Msgs(net, l, p)
    <3>1. l = m
      BY <1>3, <2>2 DEF Only, Quiet
    <3> QED BY <1>3, <2>2, <3>1
  <2> QED BY <2>1, <2>2
<1> QED
  BY <1>3, ShapesFrom

\* LeaderInv for one monitor
LeaderOK(r, q, d, s, c, l) ==
    /\ r = "leader" =>
        /\ IsMajority(q) /\ l \in q
        /\ s.accepted_pn = d.last_pn /\ s.accepted_pn % Stride = l /\ s.accepted_pn > 0
        /\ Counted(c, s.accepted_pn) \subseteq q \ {l}
        /\ s.state = "recovering" => s.num_last = 1 + Cardinality(Counted(c, s.accepted_pn))
        /\ s.state # "recovering" => Counted(c, s.accepted_pn) = q \ {l} /\ s.num_last = Cardinality(q)
    /\ s.uncommitted.v # 0 => s.uncommitted.val # NoValue
    /\ r # "leader" =>
        /\ s.state \in {"recovering", "active", "updating"}
        /\ s.state = "updating" => s.accepted_pn % Stride # l
        /\ ~s.renew

\* LeaderInv for one monitor.
LEMMA LeaderIs ==
    ASSUME LeaderInv, NEW l \in Mons
    PROVE  LeaderOK(role[l], quorum[l], disk[l], mem[l], counted, l)
BY DEF LeaderInv, LeaderOK, IsLeader, State, Promise

\* LeaderInv after a step, from every monitor.
LEMMA LeaderFrom ==
    ASSUME \A l \in Mons : LeaderOK(role'[l], quorum'[l], disk'[l], mem'[l], counted', l)
    PROVE  LeaderInv'
BY DEF LeaderInv, LeaderOK, IsLeader, State, Promise

\* LeaderInv after a step of m, if m is right and counts only answers to itself.
LEMMA LeaderFrame ==
    ASSUME ProtocolInv, NEW m \in Mons, Only(m), \A z \in counted' : z \in counted \/ z[1] % Stride = m,
           LeaderOK(role'[m], quorum'[m], disk'[m], mem'[m], counted', m)
    PROVE  LeaderInv'
<1>1. ASSUME NEW l \in Mons PROVE LeaderOK(role'[l], quorum'[l], disk'[l], mem'[l], counted', l)
  <2>1. CASE l = m
    BY <2>1
  <2>2. CASE l # m
    <3>1. LeaderOK(role[l], quorum[l], disk[l], mem[l], counted, l)
      BY LeaderIs DEF ProtocolInv
    <3>2. role'[l] = role[l] /\ quorum'[l] = quorum[l] /\ disk'[l] = disk[l] /\ mem'[l] = mem[l]
      BY <2>2 DEF Only
    <3>3. ASSUME role[l] = "leader" PROVE Counted(counted', mem[l].accepted_pn) = Counted(counted, mem[l].accepted_pn)
      <4>1. mem[l].accepted_pn % Stride # m
        BY <2>2, <3>1, <3>3 DEF LeaderOK
      <4>2. counted \subseteq counted'
        BY DEF Only
      <4> QED BY <4>1, <4>2 DEF Counted
    <3>4. LeaderOK(role[l], quorum[l], disk[l], mem[l], counted', l)
      BY <3>1, <3>3 DEF LeaderOK
    <3> QED BY <3>2, <3>4
  <2> QED BY <2>1, <2>2
<1> QED
  BY <1>1, LeaderFrom

\* A monitor that does not lead and rests.
LEMMA LeaderRests ==
    ASSUME NEW r, r # "leader", NEW q, NEW d, NEW s, NEW c, NEW l, NEW pn \in Nat, s = Resting(pn)
    PROVE  LeaderOK(r, q, d, s, c, l)
<1>1. s.state = "recovering" /\ s.renew = FALSE
  BY RestingIs
<1>2. s.uncommitted.v = 0
  BY DEF Resting
<1> QED
  BY <1>1, <1>2 DEF LeaderOK

\* A monitor that stays in its round.
LEMMA LeaderSame ==
    ASSUME NEW r, NEW q, NEW d, NEW e, NEW s, NEW u, NEW c, NEW l, LeaderOK(r, q, d, s, c, l),
           e.last_pn = d.last_pn, u.accepted_pn = s.accepted_pn, r = "leader" => u.num_last = s.num_last,
           u.uncommitted.v = 0 \/ u.uncommitted = s.uncommitted,
           u.state = s.state \/ (r # "leader" /\ u.state = "active")
             \/ (r = "leader" /\ s.state # "recovering" /\ u.state # "recovering"),
           r # "leader" => u.renew = s.renew
    PROVE  LeaderOK(r, q, e, u, c, l)
BY DEF LeaderOK

\* A number above those that m has given out is the number of no answer.
LEMMA NoneCounted ==
    ASSUME TypesInv, NumbersInv, NEW m \in Mons, NEW pn \in Nat, pn % Stride = m, pn > disk[m].last_pn
    PROVE  Counted(counted, pn) = {} /\ Cardinality(Counted(counted, pn)) = 0
<1>0. disk[m].last_pn \in Nat
  BY Unwritten, StoreTypes
<1>1. ASSUME NEW p \in Mons, <<pn, p>> \in counted PROVE FALSE
  <2>1. Issued(disk, <<pn, p>>[1])
    BY <1>1 DEF NumbersInv
  <2>2. pn <= disk[m].last_pn
    BY <2>1, IssuedBound
  <2> QED BY <1>0, <2>2
<1>2. Counted(counted, pn) = {}
  BY <1>1 DEF Counted
<1> QED
  BY <1>2, FS_EmptySet

\* A leader that starts a round has counted itself.
LEMMA LeaderRound ==
    ASSUME TypesInv, NumbersInv, NEW m \in Mons, NEW q, IsMajority(q), m \in q, NEW d, NEW s,
           s.accepted_pn \in Nat,
           s.accepted_pn % Stride = m, s.accepted_pn > disk[m].last_pn, d.last_pn = s.accepted_pn,
           s.state = "recovering", s.num_last = 1, s.uncommitted.v # 0 => s.uncommitted.val # NoValue
    PROVE  LeaderOK("leader", q, d, s, counted, m)
<1>1. Counted(counted, s.accepted_pn) = {} /\ Cardinality(Counted(counted, s.accepted_pn)) = 0
  BY NoneCounted
<1>2. disk[m].last_pn \in Nat
  BY Unwritten, StoreTypes
<1>3. s.accepted_pn > 0
  BY <1>2
<1> QED
  BY <1>1, <1>3 DEF LeaderOK

\* A last of this epoch has not been counted, so the leader still collects.
LEMMA LastIsNew ==
    ASSUME ProtocolInv, NEW m \in Mons, NEW from \in Mons \ {m}, NEW t \in Msgs(net, from, m),
           t.op = "last",
           role[m] = "leader", t.epoch = epoch[m]
    PROVE  /\ mem[m].state = "recovering" /\ from \in quorum[m]
           /\ from \notin Counted(counted, mem[m].accepted_pn)
<1>1. LeaderOK(role[m], quorum[m], disk[m], mem[m], counted, m)
  BY LeaderIs DEF ProtocolInv
<1>2. AnswerOK(disk, counted, m, from)
  BY CollectsIs DEF ProtocolInv
<1>3. ShapeOK(disk, epoch, role, quorum, from, m, t)
  BY ShapesIs DEF ProtocolInv
<1>4. from \in quorum[m]
  BY <1>3 DEF ShapeOK, InQuorum
<1>5. disk[m].last_pn \in Nat
  BY Unwritten, StoreTypes DEF ProtocolInv
<1>6. from \notin Counted(counted, mem[m].accepted_pn)
  <2>1. SUFFICES ASSUME <<mem[m].accepted_pn, from>> \in counted PROVE FALSE
    BY DEF Counted
  <2>2. mem[m].accepted_pn % Stride = m /\ mem[m].accepted_pn = disk[m].last_pn
    BY <1>1 DEF LeaderOK
  <2>3. mem[m].accepted_pn < disk[m].last_pn
    BY <1>2, <2>1, <2>2 DEF AnswerOK
  <2> QED BY <1>5, <2>2, <2>3
<1>7. mem[m].state = "recovering"
  BY <1>1, <1>4, <1>6 DEF LeaderOK
<1> QED
  BY <1>4, <1>6, <1>7

\* A leader that counts one more answer; the last one completes its quorum.
LEMMA LeaderCounts ==
    ASSUME ProtocolInv, NEW m \in Mons, NEW from \in Mons \ {m}, role[m] = "leader",
           mem[m].state = "recovering",
           from \in quorum[m], from \notin Counted(counted, mem[m].accepted_pn),
           counted' = counted \cup {<<mem[m].accepted_pn, from>>},
           NEW d, NEW s, d.last_pn = disk[m].last_pn, s.accepted_pn = mem[m].accepted_pn,
           s.num_last = mem[m].num_last + 1, s.uncommitted.v # 0 => s.uncommitted.val # NoValue,
           \/ s.state = "recovering"
           \/ mem[m].num_last + 1 = Cardinality(quorum[m]) /\ s.state # "recovering"
    PROVE  LeaderOK("leader", quorum[m], d, s, counted', m)
<1> DEFINE b == mem[m].accepted_pn
           C == Counted(counted, b)
           D == Counted(counted', b)
           q == quorum[m]
<1>0. TypesInv
  BY DEF ProtocolInv
<1>1. /\ IsMajority(q) /\ m \in q /\ b = disk[m].last_pn /\ b % Stride = m /\ b > 0
      /\ C \subseteq q \ {m} /\ mem[m].num_last = 1 + Cardinality(C)
  BY LeaderIs DEF LeaderOK, ProtocolInv
<1>2. D = C \cup {from}
  BY DEF Counted
<1>3. IsFiniteSet(Mons) /\ q \subseteq Mons
  BY <1>0, ElectionConstants DEF TypesInv, ElectionTypeOK
<1>4. IsFiniteSet(q) /\ IsFiniteSet(q \ {m}) /\ IsFiniteSet(C) /\ IsFiniteSet(D)
  <2>1. IsFiniteSet(q)
    BY <1>3, FS_Subset
  <2>2. q \ {m} \subseteq q /\ C \subseteq q /\ D \subseteq q
    BY <1>1, <1>2
  <2> QED BY <2>1, <2>2, FS_Subset
<1>5. Cardinality(D) = Cardinality(C) + 1
  BY <1>2, <1>4, FS_AddElement
<1>6. Cardinality(q \ {m}) = Cardinality(q) - 1
  BY <1>1, <1>4, FS_RemoveElement
<1>7. D \subseteq q \ {m}
  BY <1>1, <1>2
<1>8. Cardinality(C) \in Nat /\ Cardinality(q) \in Nat /\ Cardinality(D) \in Nat
  BY <1>4, FS_CardinalityType
<1> HIDE DEF C, D, q
<1>9. s.num_last = 1 + Cardinality(D)
  BY <1>1, <1>5, <1>8
<1>10. ASSUME s.state # "recovering" PROVE D = q \ {m} /\ s.num_last = Cardinality(q)
  <2>1. mem[m].num_last + 1 = Cardinality(q)
    BY <1>10 DEF q
  <2>2. Cardinality(D) = Cardinality(q \ {m})
    BY <1>1, <1>5, <1>6, <1>8, <2>1
  <2>3. D = q \ {m}
    BY <1>4, <1>7, <2>2, FS_Subset
  <2> QED BY <2>1, <2>3
<1> QED
  BY <1>1, <1>7, <1>9, <1>10 DEF LeaderOK, D, q

\* a leader's value, its store and those that have accepted
OwnOK(q, d, s, l) ==
    /\ (s.state \in Asking) = (s.new_value # NoValue)
    /\ s.state \in Asking =>
        /\ s.accepted \subseteq q /\ l \in s.accepted
        /\ d.lc + 1 \in Versions
        /\ d.vals[d.lc + 1] = s.new_value
    /\ s.state \in Writing => s.accepted = q
\* a begin x of the round of l on the way to p
BeginOK(n, q, d, s, l, p, x) ==
    /\ s.state \in Updating /\ x.lc = d.lc /\ x.val = s.new_value
    /\ p \notin s.accepted /\ p \in q
    /\ \A y \in Msgs(n, p, l) : ~(y.op = "accept" /\ y.pn = s.accepted_pn)
\* an accept y of the round of l on the way from p
AcceptOK(q, d, s, p, y) ==
    /\ s.state \in Updating /\ y.lc = d.lc
    /\ p \notin s.accepted /\ p \in q
\* no two messages of this kind and number on one way
AskedOnce(n, l, p, op, pn) ==
    \A x \in Msgs(n, l, p), y \in Msgs(n, l, p) :
        Before(n, l, p, x, y) /\ x.op = op /\ y.op = op => ~(x.pn = pn /\ y.pn = pn)
\* the begins and accepts between l and p
PeerOK(n, q, d, s, l, p) ==
    /\ \A x \in Msgs(n, l, p) : x.op = "begin" /\ x.pn = s.accepted_pn => BeginOK(n, q, d, s, l, p, x)
    /\ \A y \in Msgs(n, p, l) : y.op = "accept" /\ y.pn = s.accepted_pn => AcceptOK(q, d, s, p, y)
    /\ AskedOnce(n, l, p, "begin", s.accepted_pn)
    /\ AskedOnce(n, p, l, "accept", s.accepted_pn)

\* AcceptsInv for one leader.
LEMMA AcceptsIs ==
    ASSUME AcceptsInv, NEW l \in Mons, role[l] = "leader"
    PROVE  /\ OwnOK(quorum[l], disk[l], mem[l], l)
           /\ \A p \in Mons \ {l} : PeerOK(net, quorum[l], disk[l], mem[l], l, p)
BY DEF AcceptsInv, OwnOK, PeerOK, BeginOK, AcceptOK, AskedOnce, IsLeader, State, Lc, Promise

\* AcceptsInv after a step, from every leader.
LEMMA AcceptsFrom ==
    ASSUME \A l \in Mons : role'[l] = "leader" =>
           /\ OwnOK(quorum'[l], disk'[l], mem'[l], l)
           /\ \A p \in Mons \ {l} : PeerOK(net', quorum'[l], disk'[l], mem'[l], l, p)
    PROVE  AcceptsInv'
<1>1. SUFFICES ASSUME NEW l \in Mons, role'[l] = "leader"
               PROVE  /\ (mem'[l].state \in Asking) = (mem'[l].new_value # NoValue)
                      /\ mem'[l].state \in Asking =>
                            /\ mem'[l].accepted \subseteq quorum'[l] /\ l \in mem'[l].accepted
                            /\ disk'[l].lc + 1 \in Versions
                            /\ disk'[l].vals[disk'[l].lc + 1] = mem'[l].new_value
                      /\ mem'[l].state \in Writing => mem'[l].accepted = quorum'[l]
                      /\ \A p \in Mons \ {l} : PeerOK(net', quorum'[l], disk'[l], mem'[l], l, p)
  BY DEF AcceptsInv, OwnOK, PeerOK, BeginOK, AcceptOK, AskedOnce, IsLeader, State, Lc, Promise
<1>2. QED BY <1>1 DEF OwnOK

\* AcceptsInv after a step of m: of m, and of what m has sent to a leader.
LEMMA AcceptsFrame ==
    ASSUME ProtocolInv, NEW m \in Mons, Only(m),
           \A l \in Mons \ {m} : role[l] = "leader" => PeerOK(net', quorum[l], disk[l], mem[l], l, m),
           role'[m] = "leader" =>
             /\ OwnOK(quorum'[m], disk'[m], mem'[m], m)
             /\ \A p \in Mons \ {m} : PeerOK(net', quorum'[m], disk'[m], mem'[m], m, p)
    PROVE  AcceptsInv'
<1>1. ASSUME NEW l \in Mons \ {m}, role'[l] = "leader"
      PROVE  /\ OwnOK(quorum'[l], disk'[l], mem'[l], l)
             /\ \A p \in Mons \ {l} : PeerOK(net', quorum'[l], disk'[l], mem'[l], l, p)
  <2>1. /\ role[l] = "leader" /\ quorum'[l] = quorum[l] /\ disk'[l] = disk[l] /\ mem'[l] = mem[l]
    BY <1>1 DEF Only
  <2>2. /\ OwnOK(quorum[l], disk[l], mem[l], l)
        /\ \A p \in Mons \ {l} : PeerOK(net, quorum[l], disk[l], mem[l], l, p)
    BY <2>1, AcceptsIs DEF ProtocolInv
  <2>3. ASSUME NEW p \in Mons \ {l}, p # m PROVE PeerOK(net', quorum[l], disk[l], mem[l], l, p)
    <3>1. Quiet(l, p) /\ Quiet(p, l) BY <2>3 DEF Only
    <3>2. QED BY <2>2, <3>1 DEF PeerOK, BeginOK, AcceptOK, AskedOnce, Quiet
  <2>4. QED BY <2>1, <2>2, <2>3
<1>2. QED BY <1>1, AcceptsFrom

\* Another leader, when m sends no accept.
LEMMA AcceptsRest ==
    ASSUME ProtocolInv, NEW m \in Mons, Only(m), NoNew(m, {"accept"}), NEW l \in Mons \ {m},
           role[l] = "leader"
    PROVE  PeerOK(net', quorum[l], disk[l], mem[l], l, m)
<1>1. PeerOK(net, quorum[l], disk[l], mem[l], l, m) BY AcceptsIs DEF ProtocolInv
<1>2. Quiet(l, m) BY DEF Only
<1>3. /\ \A x \in Msgs(net', m, l) : x.op = "accept" => x \in Msgs(net, m, l)
      /\ \A x, y : Before(net', m, l, x, y) /\ x.op = "accept" /\ y.op = "accept" => Before(net, m, l, x, y)
  BY DEF NoNew
<1>4. QED BY <1>1, <1>2, <1>3 DEF PeerOK, BeginOK, AcceptOK, AskedOnce, Quiet

\* Another leader, when m answers a begin.
LEMMA AcceptsVote ==
    ASSUME ProtocolInv, NEW m \in Mons, NEW from \in Mons \ {m}, Only(m), NEW t \in Msgs(net, from, m),
           t.op = "begin",
           \A x \in Msgs(net', from, m) : Before(net, from, m, t, x), NEW y, y.pn = t.pn, y.lc = t.lc,
           Sent(m, from, {y}), \A p \in Mons \ {m, from} : Quiet(m, p),
           NEW l \in Mons \ {m}, role[l] = "leader"
    PROVE  PeerOK(net', quorum[l], disk[l], mem[l], l, m)
<1>1. PeerOK(net, quorum[l], disk[l], mem[l], l, m) BY AcceptsIs DEF ProtocolInv
<1>2. Quiet(l, m) BY DEF Only
<1>3. CASE l # from
  <2>1. Quiet(m, l) BY <1>3
  <2>2. QED BY <1>1, <1>2, <2>1 DEF PeerOK, BeginOK, AcceptOK, AskedOnce, Quiet
<1>4. CASE l = from /\ t.pn # mem[l].accepted_pn
  <2>1. \A x \in Msgs(net', m, l) : x.pn = mem[l].accepted_pn => x \in Msgs(net, m, l)
    BY <1>4 DEF Sent
  <2>2. \A x, z : Before(net', m, l, x, z) /\ x.op = z.op /\ z.pn = mem[l].accepted_pn => Before(net, m, l, x, z)
    BY <1>4 DEF Sent
  <2>3. QED BY <1>1, <1>2, <2>1, <2>2 DEF PeerOK, BeginOK, AcceptOK, AskedOnce, Quiet
<1>5. CASE l = from /\ t.pn = mem[l].accepted_pn
  <2>1. BeginOK(net, quorum[l], disk[l], mem[l], l, m, t) BY <1>1, <1>5 DEF PeerOK
  <2>2. \A x \in Msgs(net', l, m) : x \in Msgs(net, l, m) /\ Before(net, l, m, t, x)
    BY <1>2, <1>5 DEF Quiet
  <2>3. \A x \in Msgs(net', l, m) : ~(x.op = "begin" /\ x.pn = mem[l].accepted_pn)
    BY <2>2, <1>1, <1>5 DEF PeerOK, AskedOnce
  <2>4. \A x \in Msgs(net', m, l) : x.op = "accept" /\ x.pn = mem[l].accepted_pn => x = y
    BY <1>5, <2>1 DEF Sent, BeginOK
  <2>5. AcceptOK(quorum[l], disk[l], mem[l], m, y) BY <2>1 DEF BeginOK, AcceptOK
  <2>6. AskedOnce(net', m, l, "accept", mem[l].accepted_pn)
    <3>1. SUFFICES ASSUME NEW x \in Msgs(net', m, l), NEW z \in Msgs(net', m, l), Before(net', m, l, x, z),
                          x.op = "accept", z.op = "accept", x.pn = mem[l].accepted_pn, z.pn = mem[l].accepted_pn
                   PROVE  FALSE
      BY DEF AskedOnce
    <3>2. x \in Msgs(net, m, l)
      <4>1. Before(net, m, l, x, z) \/ x \in Msgs(net, m, l) BY <3>1, <1>5 DEF Sent
      <4>2. Before(net, m, l, x, z) => x \in Msgs(net, m, l) BY DEF Before, Precedes, Msgs, Elems
      <4>3. QED BY <4>1, <4>2
    <3>3. QED BY <3>1, <3>2, <2>1 DEF BeginOK
  <2>7. QED BY <2>3, <2>4, <2>5, <2>6 DEF PeerOK, AskedOnce
<1>6. QED BY <1>3, <1>4, <1>5

\* of the number pn, no begin from m and no accept to m is on the way
NoneAsked(m, pn) == \A p \in Mons \ {m} :
    /\ \A x \in Msgs(net, m, p) : ~(x.op = "begin" /\ x.pn = pn)
    /\ \A y \in Msgs(net, p, m) : ~(y.op = "accept" /\ y.pn = pn)

\* While a leader does not wait for accepts, none of its round is on the way.
LEMMA NoneAskedNow ==
    ASSUME ProtocolInv, NEW m \in Mons, role[m] = "leader", mem[m].state \notin Updating
    PROVE  NoneAsked(m, mem[m].accepted_pn)
BY AcceptsIs DEF ProtocolInv, NoneAsked, PeerOK, BeginOK, AcceptOK

\* Of a number not given out yet, nothing is on the way.
LEMMA NoneAskedYet ==
    ASSUME ProtocolInv, NEW m \in Mons, NEW pn \in Nat, pn > disk[m].last_pn
    PROVE  NoneAsked(m, pn)
<1>1. TypesInv /\ NumbersInv BY DEF ProtocolInv
<1>2. ASSUME NEW p \in Mons \ {m}, NEW x \in Msgs(net, m, p), x.op = "begin" PROVE x.pn <= disk[m].last_pn
  <2>1. x.pn % Stride = m /\ Issued(disk, x.pn) BY <1>1, <1>2 DEF NumbersInv, Numbered
  <2>2. x.pn \in Nat BY <1>1, <1>2, PnOf DEF Numbered
  <2>3. QED BY <1>1, <2>1, <2>2, IssuedBound
<1>3. ASSUME NEW p \in Mons \ {m}, NEW x \in Msgs(net, p, m), x.op = "accept" PROVE x.pn <= disk[m].last_pn
  <2>1. x.pn % Stride = m /\ Issued(disk, x.pn) BY <1>1, <1>3 DEF NumbersInv, Numbered
  <2>2. x.pn \in Nat BY <1>1, <1>3, PnOf DEF Numbered
  <2>3. QED BY <1>1, <2>1, <2>2, IssuedBound
<1>4. disk[m].last_pn \in Nat BY <1>1, Unwritten, StoreTypes
<1>5. QED BY <1>2, <1>3, <1>4 DEF NoneAsked

\* A leader of whose round nothing is on the way, and that begins nothing.
LEMMA MineIdle ==
    ASSUME NEW m \in Mons, Only(m), NoNew(m, {"begin"}), NEW q, NEW d, NEW s, NoneAsked(m, s.accepted_pn)
    PROVE  \A p \in Mons \ {m} : PeerOK(net', q, d, s, m, p)
<1>1. SUFFICES ASSUME NEW p \in Mons \ {m} PROVE PeerOK(net', q, d, s, m, p)
  OBVIOUS
<1>2. \A x \in Msgs(net', m, p) : x.op = "begin" => x \in Msgs(net, m, p) BY DEF NoNew
<1>3. \A y \in Msgs(net', p, m) : y \in Msgs(net, p, m) BY DEF Only, Quiet
<1>4. QED BY <1>2, <1>3 DEF PeerOK, AskedOnce, NoneAsked

\* A leader that stays as it is.
LEMMA MineSame ==
    ASSUME ProtocolInv, NEW m \in Mons, role[m] = "leader", Only(m), NoNew(m, {"begin"}), NEW d, NEW s,
           d.lc = disk[m].lc, d.vals = disk[m].vals, s.accepted_pn = mem[m].accepted_pn,
           s.state = mem[m].state,
           s.accepted = mem[m].accepted, s.new_value = mem[m].new_value
    PROVE  /\ OwnOK(quorum[m], d, s, m)
           /\ \A p \in Mons \ {m} : PeerOK(net', quorum[m], d, s, m, p)
<1>1. /\ OwnOK(quorum[m], disk[m], mem[m], m)
      /\ \A p \in Mons \ {m} : PeerOK(net, quorum[m], disk[m], mem[m], m, p)
  BY AcceptsIs DEF ProtocolInv
<1>2. OwnOK(quorum[m], d, s, m) BY <1>1 DEF OwnOK
<1>3. ASSUME NEW p \in Mons \ {m} PROVE PeerOK(net', quorum[m], d, s, m, p)
  <2>1. /\ \A x \in Msgs(net', m, p) : x.op = "begin" => x \in Msgs(net, m, p)
        /\ \A x, y : Before(net', m, p, x, y) /\ x.op = "begin" /\ y.op = "begin" => Before(net, m, p, x, y)
    BY DEF NoNew
  <2>2. Quiet(p, m) BY DEF Only
  <2>3. QED BY <1>1, <2>1, <2>2 DEF PeerOK, BeginOK, AcceptOK, AskedOnce, Quiet
<1>4. QED BY <1>2, <1>3

\* A leader that begins.
LEMMA MineBegins ==
    ASSUME NEW m \in Mons, Only(m), NEW q, NEW d, NEW s, NoneAsked(m, s.accepted_pn), NEW O,
           \A p \in q \ {m} : Sent(m, p, O), \A p \in Mons \ {m} : p \notin q => Quiet(m, p),
           \A x \in O : x.op = "begin" => x.lc = d.lc /\ x.val = s.new_value,
           s.state \in Updating, s.accepted = {m}
    PROVE  \A p \in Mons \ {m} : PeerOK(net', q, d, s, m, p)
<1>1. SUFFICES ASSUME NEW p \in Mons \ {m} PROVE PeerOK(net', q, d, s, m, p)
  OBVIOUS
<1>2. \A y \in Msgs(net', p, m) : ~(y.op = "accept" /\ y.pn = s.accepted_pn)
  BY DEF Only, Quiet, NoneAsked
<1>3. CASE p \notin q
  <2>1. Quiet(m, p) BY <1>3
  <2>2. QED BY <1>2, <2>1 DEF PeerOK, AskedOnce, NoneAsked, Quiet
<1>4. CASE p \in q
  <2>1. Sent(m, p, O) BY <1>4
  <2>2. ASSUME NEW x \in Msgs(net', m, p), x.op = "begin", x.pn = s.accepted_pn
        PROVE  BeginOK(net', q, d, s, m, p, x)
    BY <1>2, <1>4, <2>1, <2>2 DEF Sent, NoneAsked, BeginOK
  <2>3. ASSUME NEW x \in Msgs(net', m, p), NEW z \in Msgs(net', m, p), Before(net', m, p, x, z),
               x.op = "begin", z.op = "begin", x.pn = s.accepted_pn, z.pn = s.accepted_pn
        PROVE  FALSE
    <3>1. Before(net, m, p, x, z) \/ x \in Msgs(net, m, p) BY <2>1, <2>3 DEF Sent
    <3>2. Before(net, m, p, x, z) => x \in Msgs(net, m, p) BY DEF Before, Precedes, Msgs, Elems
    <3>3. QED BY <2>3, <3>1, <3>2 DEF NoneAsked
  <2>4. QED BY <1>2, <2>2, <2>3 DEF PeerOK, AskedOnce
<1>5. QED BY <1>3, <1>4

\* A leader that counts an accept.
LEMMA MineAccepts ==
    ASSUME ProtocolInv, NEW m \in Mons, NEW from \in Mons \ {m}, role[m] = "leader", Only(m),
           NEW t \in Msgs(net, from, m),
           t.op = "accept", t.pn = mem[m].accepted_pn, \A x \in Msgs(net', from, m) : Before(net, from,
           m, t, x),
           \A p \in Mons \ {m} : Quiet(m, p), NEW s, s.accepted_pn = mem[m].accepted_pn,
           s.accepted = mem[m].accepted \cup {from}, s.new_value = mem[m].new_value,
           \/ s.accepted # quorum[m] /\ s.state = mem[m].state
           \/ s.accepted = quorum[m] /\ s.state \in Writing
    PROVE  /\ OwnOK(quorum[m], disk[m], s, m)
           /\ \A p \in Mons \ {m} : PeerOK(net', quorum[m], disk[m], s, m, p)
<1>1. /\ OwnOK(quorum[m], disk[m], mem[m], m)
      /\ \A p \in Mons \ {m} : PeerOK(net, quorum[m], disk[m], mem[m], m, p)
  BY AcceptsIs DEF ProtocolInv
<1>2. AcceptOK(quorum[m], disk[m], mem[m], from, t) BY <1>1 DEF PeerOK
<1>3. mem[m].state \in Updating /\ from \in quorum[m] /\ from \notin mem[m].accepted BY <1>2 DEF AcceptOK
<1>4. OwnOK(quorum[m], disk[m], s, m)
  BY <1>1, <1>3 DEF OwnOK, Asking, Updating, Writing
<1>5. ASSUME NEW p \in Mons \ {m}, p = from PROVE PeerOK(net', quorum[m], disk[m], s, m, p)
  <2>1. PeerOK(net, quorum[m], disk[m], mem[m], m, from) BY <1>1
  <2>2. \A y \in Msgs(net', from, m) : ~(y.op = "accept" /\ y.pn = s.accepted_pn)
    <3>1. SUFFICES ASSUME NEW y \in Msgs(net', from, m), y.op = "accept", y.pn = s.accepted_pn PROVE FALSE
      OBVIOUS
    <3>2. y \in Msgs(net, from, m) /\ Before(net, from, m, t, y) BY <3>1 DEF Only, Quiet
    <3>3. QED BY <2>1, <3>1, <3>2 DEF PeerOK, AskedOnce
  <2>3. \A x \in Msgs(net', m, from) : ~(x.op = "begin" /\ x.pn = s.accepted_pn)
    BY <2>1 DEF PeerOK, BeginOK, Quiet
  <2>4. QED BY <1>5, <2>2, <2>3 DEF PeerOK, AskedOnce
<1>6. ASSUME NEW p \in Mons \ {m}, p # from PROVE PeerOK(net', quorum[m], disk[m], s, m, p)
  <2>1. PeerOK(net, quorum[m], disk[m], mem[m], m, p) BY <1>1
  <2>2. Quiet(m, p) /\ Quiet(p, m) BY DEF Only
  <2>3. CASE s.state = mem[m].state
    BY <1>6, <2>1, <2>2, <2>3 DEF PeerOK, BeginOK, AcceptOK, AskedOnce, Quiet
  <2>4. CASE s.accepted = quorum[m]
    <3>1. \A x \in Msgs(net', m, p) : ~(x.op = "begin" /\ x.pn = s.accepted_pn)
      BY <1>6, <2>1, <2>2, <2>4 DEF PeerOK, BeginOK, Quiet
    <3>2. \A x \in Msgs(net', p, m) : ~(x.op = "accept" /\ x.pn = s.accepted_pn)
      BY <1>6, <2>1, <2>2, <2>4 DEF PeerOK, AcceptOK, Quiet
    <3>3. QED BY <3>1, <3>2 DEF PeerOK, AskedOnce
  <2>5. QED BY <2>3, <2>4
<1>7. QED BY <1>4, <1>5, <1>6

-----------------------------------------------------------------------------
(* Every action keeps ProtocolInv.                                         *)

\* the kinds of messages
Kinds == {"victory", "collect", "last", "begin", "accept", "commit", "lease"}

\* The numbers that m has promised were given out.
LEMMA PromisedNumbers ==
    ASSUME ProtocolInv, TypesInv', NEW m \in Mons, Only(m)
    PROVE  /\ Issued(disk', mem[m].accepted_pn) /\ Issued(disk', disk[m].accepted_pn)
           /\ mem[m].accepted_pn \in Nat /\ disk[m].accepted_pn \in Nat
<1>1. TypesInv /\ NumbersInv BY DEF ProtocolInv
<1>2. mem[m].accepted_pn \in Nat /\ disk[m].accepted_pn \in Nat
  BY <1>1, Unwritten, StoreTypes, MemoryTypes
<1>3. Issued(disk, mem[m].accepted_pn) /\ Issued(disk, disk[m].accepted_pn)
  BY <1>1 DEF NumbersInv, Promise
<1>4. QED BY <1>1, <1>2, <1>3, IssuedGrows

\* Elections keep ProtocolInv.
LEMMA RetireProtocol ==
    ASSUME ProtocolInv, NEW m \in Mons, NEW from \in Mons,
           StartElection(m) \/ HandleVictory(from, m) \/ DropOrBootstrap(from, m)
    PROVE  ProtocolInv'
<1>1. /\ TypesInv' /\ Only(m) /\ SameHistory /\ disk' = disk
      /\ \A l, p \in Mons : l # p => Quiet(l, p)
      /\ mem'[m] = Resting(mem[m].accepted_pn) /\ role'[m] # "leader"
  BY RetireStep
<1>2. TypesInv BY DEF ProtocolInv
<1>3. mem[m].accepted_pn \in Nat BY <1>2, Unwritten, MemoryTypes
<1>4. mem'[m].accepted_pn = mem[m].accepted_pn BY <1>1, <1>3, RestingIs
<1>5. \A p \in Mons \ {m} : Quiet(m, p) BY <1>1
<1>6. NoNew(m, Kinds) BY <1>5, QuietNoNew
<1>7. \A p \in Mons \ {m} : \A x \in Msgs(net', m, p) : x \in Msgs(net, m, p) BY <1>5 DEF Quiet
<1>8. NumbersInv'
  <2>1. Issued(disk', mem'[m].accepted_pn) /\ Issued(disk', disk'[m].accepted_pn)
    BY <1>1, <1>4, PromisedNumbers
  <2>2. QED BY <1>1, <1>7, <2>1, NumbersFrame DEF SameHistory
<1>9. DiskInv'
  <2>1. DiskOK(disk'[m], mem'[m].accepted_pn) BY <1>1, <1>4, DiskIs DEF ProtocolInv
  <2>2. QED BY <1>1, <2>1, DiskFrame
<1>10. CollectsInv' /\ AnswersInv'
  <2>1. NoNew(m, {"collect", "last"}) BY <1>5, QuietNoNew
  <2>2. QED BY <1>1, <1>4, <2>1, CollectsFrame DEF SameHistory
<1>11. ShapesInv' BY <1>1, <1>7, ShapesFrame
<1>12. LeaderInv'
  <2>1. LeaderOK(role'[m], quorum'[m], disk'[m], mem'[m], counted', m) BY <1>1, <1>3, LeaderRests
  <2>2. QED BY <1>1, <2>1, LeaderFrame DEF SameHistory
<1>13. AcceptsInv'
  <2>1. NoNew(m, {"accept"}) BY <1>5, QuietNoNew
  <2>2. \A l \in Mons \ {m} : role[l] = "leader" => PeerOK(net', quorum[l], disk[l], mem[l], l, m)
    BY <1>1, <2>1, AcceptsRest
  <2>3. QED BY <1>1, <2>2, AcceptsFrame
<1>14. QED BY <1>1, <1>8, <1>9, <1>10, <1>11, <1>12, <1>13 DEF ProtocolInv

\* A crash keeps ProtocolInv.
LEMMA CrashProtocol ==
    ASSUME ProtocolInv, NEW m \in Mons, Crash(m)
    PROVE  ProtocolInv'
<1>1. /\ TypesInv' /\ Only(m) /\ SameHistory
      /\ \A l, p \in Mons : l # p => Quiet(l, p)
      /\ \A p \in Mons \ {m} : Msgs(net', m, p) = {} /\ Msgs(net', p, m) = {}
      /\ mem'[m] = Resting(disk[m].accepted_pn) /\ role'[m] # "leader"
      /\ \/ disk'[m] = disk[m]
         \/ mem[m].state \in Writing /\ disk'[m] = [disk[m] EXCEPT !.lc = @ + 1]
  BY CrashStep
<1>2. TypesInv /\ DiskInv BY DEF ProtocolInv
<1>3. disk[m].accepted_pn \in Nat /\ disk[m] \in Store BY <1>2, Unwritten, StoreTypes
<1>4. mem'[m].accepted_pn = disk[m].accepted_pn BY <1>1, <1>3, RestingIs
<1>5. \A p \in Mons \ {m} : Quiet(m, p) BY <1>1
<1>7. \A p \in Mons \ {m} : \A x \in Msgs(net', m, p) : x \in Msgs(net, m, p) BY <1>5 DEF Quiet
<1>6. DiskOK(disk'[m], mem'[m].accepted_pn) /\ disk'[m].accepted_pn = disk[m].accepted_pn
  <2>1. DiskOK(disk[m], mem[m].accepted_pn) BY <1>2, DiskIs
  <2>2. CASE disk'[m] = disk[m]
    BY <2>1, <2>2, <1>3, <1>4 DEF DiskOK
  <2>3. CASE mem[m].state \in Writing /\ disk'[m] = [disk[m] EXCEPT !.lc = @ + 1]
    <3>1. disk[m].lc + 1 \in Versions BY <2>3, WritingIs
    <3>2. disk[m].accepted_pn <= mem'[m].accepted_pn BY <1>3, <1>4
    <3>3. DiskOK(disk'[m], mem'[m].accepted_pn) BY <1>3, <2>1, <2>3, <3>1, <3>2, DiskCommitted
    <3>4. QED BY <1>3, <2>3, <3>1, <3>3, CommittingIs
  <2>4. QED BY <1>1, <2>2, <2>3
<1>8. NumbersInv'
  <2>1. Issued(disk', mem'[m].accepted_pn) /\ Issued(disk', disk'[m].accepted_pn)
    BY <1>1, <1>4, <1>6, PromisedNumbers
  <2>2. QED BY <1>1, <1>7, <2>1, NumbersFrame DEF SameHistory
<1>9. DiskInv' BY <1>1, <1>6, DiskFrame
<1>10. CollectsInv' /\ AnswersInv'
  <2>1. NoNew(m, {"collect", "last"}) BY <1>5, QuietNoNew
  <2>2. QED BY <1>1, <2>1, CollectsFrame DEF SameHistory
<1>11. ShapesInv' BY <1>1, <1>7, ShapesFrame
<1>12. LeaderInv'
  <2>1. LeaderOK(role'[m], quorum'[m], disk'[m], mem'[m], counted', m) BY <1>1, <1>3, LeaderRests
  <2>2. QED BY <1>1, <2>1, LeaderFrame DEF SameHistory
<1>13. AcceptsInv'
  <2>1. NoNew(m, {"accept"}) BY <1>5, QuietNoNew
  <2>2. \A l \in Mons \ {m} : role[l] = "leader" => PeerOK(net', quorum[l], disk[l], mem[l], l, m)
    BY <1>1, <2>1, AcceptsRest
  <2>3. QED BY <1>1, <2>2, AcceptsFrame
<1>14. QED BY <1>1, <1>8, <1>9, <1>10, <1>11, <1>12, <1>13 DEF ProtocolInv

\* A step that counts for nothing keeps ProtocolInv.
LEMMA PassiveProtocol ==
    ASSUME ProtocolInv, NEW m \in Mons, TypesInv', Only(m), SameElectionOf(m), Passive(m)
    PROVE  ProtocolInv'
<1>1. /\ SameHistory /\ disk'[m] = disk[m] /\ mem'[m].accepted_pn = mem[m].accepted_pn
      /\ \A p \in Mons \ {m} : Sent(m, p, Leases(m))
  BY DEF Passive
<1>2. TypesInv BY DEF ProtocolInv
<1>3. \A x \in Leases(m) : x.op = "lease" BY DEF Leases
<1>4. NoNew(m, {"victory", "collect", "last", "begin", "accept", "commit"})
  <2>1. \A x \in Leases(m) : x.op \notin {"victory", "collect", "last", "begin", "accept", "commit"} BY <1>3
  <2>2. QED BY <1>1, <2>1, SentNoNew
<1>7. \A p \in Mons \ {m} : \A x \in Msgs(net', m, p) : x \in Msgs(net, m, p) \/ x.op = "lease"
  BY <1>1, <1>3 DEF Sent
<1>8. NumbersInv'
  <2>1. Issued(disk', mem'[m].accepted_pn) /\ Issued(disk', disk'[m].accepted_pn)
    BY <1>1, PromisedNumbers
  <2>2. \A p \in Mons \ {m} : \A x \in Msgs(net', m, p) : x \in Msgs(net, m, p) \/ NumberOK(disk', m, p, x)
    BY <1>7 DEF NumberOK, Numbered
  <2>3. QED BY <1>1, <2>1, <2>2, NumbersFrame DEF SameHistory
<1>9. DiskInv'
  <2>1. DiskOK(disk'[m], mem'[m].accepted_pn) BY <1>1, DiskIs DEF ProtocolInv
  <2>2. QED BY <2>1, DiskFrame
<1>10. CollectsInv' /\ AnswersInv'
  <2>1. NoNew(m, {"collect", "last"}) BY <1>4, FewerNoNew
  <2>2. QED BY <1>1, <2>1, CollectsFrame DEF SameHistory
<1>11. ShapesInv'
  <2>1. \A p \in Mons \ {m} : \A x \in Msgs(net', m, p) :
            x \in Msgs(net, m, p) \/ ShapeOK(disk', epoch', role', quorum', m, p, x)
    BY <1>7 DEF ShapeOK
  <2>2. QED BY <2>1, ShapesFrame
<1>12. LeaderInv'
  <2>1. LeaderOK(role[m], quorum[m], disk[m], mem[m], counted, m) BY LeaderIs DEF ProtocolInv
  <2>2. mem'[m].state = mem[m].state \/ (role[m] # "leader" /\ mem'[m].state = "active")
    BY DEF Passive
  <2>3. LeaderOK(role[m], quorum[m], disk'[m], mem'[m], counted, m)
    BY <1>1, <2>1, <2>2, LeaderSame DEF Passive
  <2>4. QED BY <1>1, <2>3, LeaderFrame DEF SameHistory, SameElectionOf
<1>13. AcceptsInv'
  <2>1. NoNew(m, {"accept"}) /\ NoNew(m, {"begin"}) BY <1>4, FewerNoNew
  <2>2. \A l \in Mons \ {m} : role[l] = "leader" => PeerOK(net', quorum[l], disk[l], mem[l], l, m)
    BY <2>1, AcceptsRest
  <2>3. ASSUME role[m] = "leader"
        PROVE  /\ OwnOK(quorum[m], disk'[m], mem'[m], m)
               /\ \A p \in Mons \ {m} : PeerOK(net', quorum[m], disk'[m], mem'[m], m, p)
    <3>1. mem'[m].state = mem[m].state BY <2>3 DEF Passive
    <3>2. QED BY <1>1, <2>1, <2>3, <3>1, MineSame DEF Passive
  <2>4. QED BY <2>2, <2>3, AcceptsFrame DEF SameElectionOf
<1>14. QED BY <1>8, <1>9, <1>10, <1>11, <1>12, <1>13 DEF ProtocolInv

\* handle_commit keeps ProtocolInv.
LEMMA CommitProtocol ==
    ASSUME ProtocolInv, NEW m \in Mons, NEW from \in Mons \ {m}, handle_commit(from, m)
    PROVE  ProtocolInv'
<1> DEFINE t == Taken(from, m)
<1>1. /\ TypesInv' /\ Only(m) /\ SameElectionOf(m) /\ SameHistory
      /\ t \in Msgs(net, from, m) /\ t.op = "commit" /\ role[m] = "peon"
      /\ mem'[m] = mem[m] /\ disk'[m] = store_state(disk[m], t)
      /\ \A p \in Mons \ {m} : Quiet(m, p)
  BY CommitStep
<1>2. Merged(disk[m], t, disk'[m]) BY <1>1, CommitMerged
<1> HIDE DEF t
<1>3. TypesInv /\ DiskInv BY DEF ProtocolInv
<1>4. disk[m] \in Store BY <1>3, Unwritten
<1>5. disk'[m].accepted_pn = disk[m].accepted_pn /\ disk'[m].last_pn = disk[m].last_pn BY <1>2 DEF Merged
<1>7. \A p \in Mons \ {m} : \A x \in Msgs(net', m, p) : x \in Msgs(net, m, p) BY <1>1 DEF Quiet
<1>8. NumbersInv'
  <2>1. Issued(disk', mem'[m].accepted_pn) /\ Issued(disk', disk'[m].accepted_pn)
    BY <1>1, <1>5, PromisedNumbers
  <2>2. QED BY <1>1, <1>7, <2>1, NumbersFrame DEF SameHistory
<1>9. DiskInv'
  <2>1. DiskOK(disk'[m], mem'[m].accepted_pn) BY <1>1, <1>2, <1>3, <1>4, DiskIs, DiskMerged
  <2>2. QED BY <1>1, <2>1, DiskFrame
<1>10. CollectsInv' /\ AnswersInv'
  <2>1. NoNew(m, {"collect", "last"}) BY <1>1, QuietNoNew
  <2>2. QED BY <1>1, <2>1, CollectsFrame DEF SameHistory
<1>11. ShapesInv' BY <1>1, <1>7, ShapesFrame
<1>12. LeaderInv'
  <2>1. LeaderOK(role[m], quorum[m], disk[m], mem[m], counted, m) BY LeaderIs DEF ProtocolInv
  <2>3. LeaderOK(role[m], quorum[m], disk'[m], mem'[m], counted, m)
    BY <1>1, <1>5, <2>1, LeaderSame
  <2>4. QED BY <1>1, <2>3, LeaderFrame DEF SameHistory, SameElectionOf
<1>13. AcceptsInv'
  <2>1. NoNew(m, {"accept"}) BY <1>1, QuietNoNew
  <2>2. \A l \in Mons \ {m} : role[l] = "leader" => PeerOK(net', quorum[l], disk[l], mem[l], l, m)
    BY <1>1, <2>1, AcceptsRest
  <2>3. role'[m] # "leader" BY <1>1 DEF SameElectionOf
  <2>4. QED BY <1>1, <2>2, <2>3, AcceptsFrame
<1>14. QED BY <1>1, <1>8, <1>9, <1>10, <1>11, <1>12, <1>13 DEF ProtocolInv

\* handle_begin keeps ProtocolInv.
LEMMA BeginProtocol ==
    ASSUME ProtocolInv, NEW m \in Mons, NEW from \in Mons \ {m}, handle_begin(from, m)
    PROVE  ProtocolInv'
<1> DEFINE t == Taken(from, m)
<1>0. TypesInv' /\ Only(m) /\ SameElectionOf(m) /\ counted' = counted BY BeginStep
<1>p. CASE Passive(m) BY <1>0, <1>p, PassiveProtocol
<1>v. CASE ~Passive(m)
  <2>1. /\ t \in BeginMsg /\ t \in Msgs(net, from, m) /\ t.op = "begin"
        /\ t.pn = mem[m].accepted_pn /\ t.lc = disk[m].lc /\ disk[m].lc + 1 \in Versions
        /\ Takes(from, m)
        /\ disk'[m] = Accepted(disk[m], t.val, t.pn)
        /\ mem'[m].state = "updating" /\ mem'[m].accepted_pn = mem[m].accepted_pn
        /\ mem'[m].uncommitted = mem[m].uncommitted /\ mem'[m].renew = mem[m].renew
        /\ votes' = votes \cup {VoteOf(m, t.pn, t.val)}
        /\ Sent(m, from, {AcceptOf(m)})
        /\ \A p \in Mons \ {m, from} : Quiet(m, p)
    BY <1>v, BeginStep
  <2>0. \A x \in Msgs(net', from, m) : Before(net, from, m, t, x) BY <2>1 DEF Takes
  <2> HIDE DEF t
  <2>2. TypesInv /\ DiskInv /\ NumbersInv /\ ShapesInv /\ LeaderInv BY DEF ProtocolInv
  <2>3. disk[m] \in Store /\ t.val \in Values /\ t.pn \in Nat BY <2>1, <2>2, Unwritten DEF BeginMsg
  <2>4. disk'[m].accepted_pn = disk[m].accepted_pn /\ disk'[m].last_pn = disk[m].last_pn
    BY <2>1, <2>3, AcceptedIs
  <2>5. t.pn % Stride = from /\ Issued(disk, t.pn) BY <2>1, <2>2 DEF NumbersInv, Numbered
  <2>6. t.pn > 0 /\ t.lc + 1 \in Versions
    <3>1. ShapeOK(disk, epoch, role, quorum, from, m, t) BY <2>1, <2>2, ShapesIs
    <3>2. QED BY <2>1, <3>1 DEF ShapeOK
  <2>7. LeaderOK(role[m], quorum[m], disk[m], mem[m], counted, m) BY <2>2, LeaderIs
  <2>8. role[m] # "leader" BY <2>1, <2>5, <2>7 DEF LeaderOK
  <2>9. PICK y : y = AcceptOf(m) OBVIOUS
  <2>10. y.op = "accept" /\ y.pn = t.pn /\ y.lc = t.lc BY <2>1, <2>9 DEF AcceptOf
  <2>11. Sent(m, from, {y}) BY <2>1, <2>9
  <2>12. \A p \in Mons \ {m} : \A x \in Msgs(net', m, p) : x \in Msgs(net, m, p) \/ (x = y /\ p = from)
    BY <2>1, <2>11 DEF Sent, Quiet
  <2>13. NumbersInv'
    <3>1. Issued(disk', mem'[m].accepted_pn) /\ Issued(disk', disk'[m].accepted_pn) /\ Issued(disk', t.pn)
      BY <1>0, <2>1, <2>4, PromisedNumbers
    <3>2. NumberOK(disk', m, from, y) BY <2>5, <2>10, <3>1 DEF NumberOK
    <3>3. \A p \in Mons \ {m} : \A x \in Msgs(net', m, p) : x \in Msgs(net, m, p) \/ NumberOK(disk', m, p, x)
      BY <2>12, <3>2
    <3>4. \A w \in votes' : w \in votes \/ Issued(disk', w.pn) BY <2>1, <3>1 DEF VoteOf
    <3>5. QED BY <1>0, <3>1, <3>3, <3>4, NumbersFrame
  <2>14. DiskInv'
    <3>1. DiskOK(disk[m], mem[m].accepted_pn) /\ mem[m].accepted_pn \in Nat
      BY <2>1, <2>2, <2>3, DiskIs
    <3>2. DiskOK(disk'[m], mem'[m].accepted_pn) BY <2>1, <2>3, <2>6, <3>1, DiskAccepted
    <3>3. QED BY <1>0, <3>2, DiskFrame
  <2>15. CollectsInv' /\ AnswersInv'
    <3>1. \A p \in Mons \ {m} : Sent(m, p, {y}) BY <2>1, <2>11, QuietSends
    <3>2. \A x \in {y} : x.op \notin {"collect", "last"} BY <2>10
    <3>3. NoNew(m, {"collect", "last"}) BY <3>1, <3>2, SentNoNew
    <3>4. QED BY <1>0, <2>1, <3>3, CollectsFrame
  <2>16. ShapesInv'
    <3>1. ShapeOK(disk', epoch', role', quorum', m, from, y) BY <2>10 DEF ShapeOK
    <3>2. QED BY <1>0, <2>12, <3>1, ShapesFrame
  <2>17. LeaderInv'
    <3>1. LeaderOK(role[m], quorum[m], disk'[m], mem'[m], counted, m)
      BY <2>1, <2>5, <2>7, <2>8 DEF LeaderOK
    <3>2. QED BY <1>0, <3>1, LeaderFrame DEF SameElectionOf
  <2>18. AcceptsInv'
    <3>1. \A l \in Mons \ {m} : role[l] = "leader" => PeerOK(net', quorum[l], disk[l], mem[l], l, m)
      BY <1>0, <2>0, <2>1, <2>10, <2>11, AcceptsVote
    <3>2. role'[m] # "leader" BY <1>0, <2>8 DEF SameElectionOf
    <3>3. QED BY <1>0, <3>1, <3>2, AcceptsFrame
  <2>19. QED BY <1>0, <2>13, <2>14, <2>15, <2>16, <2>17, <2>18 DEF ProtocolInv
<1>q. QED BY <1>p, <1>v

\* handle_accept keeps ProtocolInv.
LEMMA AcceptProtocol ==
    ASSUME ProtocolInv, NEW m \in Mons, NEW from \in Mons \ {m}, handle_accept(from, m)
    PROVE  ProtocolInv'
<1> DEFINE t == Taken(from, m)
<1>0. TypesInv' /\ Only(m) /\ SameElectionOf(m) /\ SameHistory /\ disk' = disk BY AcceptStep
<1>p. CASE Passive(m) BY <1>0, <1>p, PassiveProtocol
<1>v. CASE ~Passive(m)
  <2>1. /\ t \in Msgs(net, from, m) /\ t.op = "accept"
        /\ t.pn = mem[m].accepted_pn /\ mem[m].state \in Updating /\ from \notin mem[m].accepted
        /\ Takes(from, m)
        /\ mem'[m].accepted_pn = mem[m].accepted_pn /\ mem'[m].num_last = mem[m].num_last
        /\ mem'[m].accepted = mem[m].accepted \cup {from} /\ mem'[m].new_value = mem[m].new_value
        /\ mem'[m].uncommitted = mem[m].uncommitted /\ mem'[m].renew = mem[m].renew
        /\ \/ mem[m].accepted \cup {from} # quorum[m] /\ mem'[m].state = mem[m].state
           \/ mem[m].accepted \cup {from} = quorum[m] /\ mem'[m].state \in Writing
        /\ \A p \in Mons \ {m} : Quiet(m, p)
    BY <1>v, AcceptStep
  <2>0. \A x \in Msgs(net', from, m) : Before(net, from, m, t, x) BY <2>1 DEF Takes
  <2> HIDE DEF t
  <2>2. TypesInv /\ DiskInv /\ NumbersInv /\ LeaderInv BY DEF ProtocolInv
  <2>3. t.pn % Stride = m BY <2>1, <2>2 DEF NumbersInv
  <2>7. LeaderOK(role[m], quorum[m], disk[m], mem[m], counted, m) BY <2>2, LeaderIs
  <2>8. role[m] = "leader" BY <2>1, <2>3, <2>7 DEF LeaderOK, Updating
  <2>12. \A p \in Mons \ {m} : \A x \in Msgs(net', m, p) : x \in Msgs(net, m, p) BY <2>1 DEF Quiet
  <2>13. NumbersInv'
    <3>1. Issued(disk', mem'[m].accepted_pn) /\ Issued(disk', disk'[m].accepted_pn)
      BY <1>0, <2>1, PromisedNumbers
    <3>5. QED BY <1>0, <2>12, <3>1, NumbersFrame DEF SameHistory
  <2>14. DiskInv'
    <3>2. DiskOK(disk'[m], mem'[m].accepted_pn) BY <1>0, <2>1, <2>2, DiskIs
    <3>3. QED BY <1>0, <3>2, DiskFrame
  <2>15. CollectsInv' /\ AnswersInv'
    <3>3. NoNew(m, {"collect", "last"}) BY <2>1, QuietNoNew
    <3>4. QED BY <1>0, <2>1, <3>3, CollectsFrame DEF SameHistory
  <2>16. ShapesInv' BY <1>0, <2>12, ShapesFrame
  <2>17. LeaderInv'
    <3>0. mem[m].state # "recovering" /\ mem'[m].state # "recovering" BY <2>1 DEF Updating, Writing
    <3>1. LeaderOK(role[m], quorum[m], disk'[m], mem'[m], counted, m)
      BY <1>0, <2>1, <2>7, <2>8, <3>0, LeaderSame
    <3>2. QED BY <1>0, <3>1, LeaderFrame DEF SameElectionOf, SameHistory
  <2>18. AcceptsInv'
    <3>0. NoNew(m, {"accept"}) BY <2>1, QuietNoNew
    <3>1. \A l \in Mons \ {m} : role[l] = "leader" => PeerOK(net', quorum[l], disk[l], mem[l], l, m)
      BY <1>0, <3>0, AcceptsRest
    <3>2. /\ OwnOK(quorum[m], disk[m], mem'[m], m)
          /\ \A p \in Mons \ {m} : PeerOK(net', quorum[m], disk[m], mem'[m], m, p)
      BY <1>0, <2>0, <2>1, <2>8, MineAccepts
    <3>3. QED BY <1>0, <3>1, <3>2, AcceptsFrame DEF SameElectionOf
  <2>19. QED BY <1>0, <2>13, <2>14, <2>15, <2>16, <2>17, <2>18 DEF ProtocolInv
<1>q. QED BY <1>p, <1>v

\* handle_collect keeps ProtocolInv.
LEMMA CollectProtocol ==
    ASSUME ProtocolInv, NEW m \in Mons, NEW from \in Mons \ {m}, handle_collect(from, m)
    PROVE  ProtocolInv'
<1> DEFINE t == Taken(from, m)
<1>1. /\ TypesInv' /\ Only(m) /\ SameElectionOf(m) /\ SameHistory
      /\ t \in Msgs(net, from, m) /\ t.op = "collect" /\ t \in CollectMsg /\ role[m] = "peon"
      /\ Takes(from, m)
      /\ disk'[m].lc = disk[m].lc /\ disk'[m].vals = disk[m].vals
      /\ disk'[m].pending_v = disk[m].pending_v /\ disk'[m].pending_pn = disk[m].pending_pn
      /\ disk'[m].last_pn = disk[m].last_pn
      /\ disk'[m].accepted_pn \in {disk[m].accepted_pn, mem'[m].accepted_pn}
      /\ mem'[m].accepted_pn = IF t.pn > mem[m].accepted_pn THEN t.pn ELSE mem[m].accepted_pn
      /\ mem'[m].state = "recovering" /\ mem'[m].uncommitted.v = 0 /\ mem'[m].renew = FALSE
      /\ \E ans : Answer(m, t, ans) /\ ans.op = "last" /\ Sent(m, from, {ans})
      /\ \A p \in Mons \ {m, from} : Quiet(m, p)
  BY CollectStep
<1>2. \A x \in Msgs(net', from, m) : Before(net, from, m, t, x) BY <1>1 DEF Takes
<1> HIDE DEF t
<1>3. PICK ans : Answer(m, t, ans) /\ ans.op = "last" /\ Sent(m, from, {ans}) BY <1>1
<1>4. TypesInv /\ DiskInv /\ NumbersInv /\ ShapesInv BY DEF ProtocolInv
<1>5. /\ disk[m] \in Store /\ disk'[m] \in Store /\ t.pn \in Nat /\ t.lc \in Counts
      /\ mem[m].accepted_pn \in Nat /\ mem'[m].accepted_pn \in Nat
  <2>1. disk'[m] \in Store BY <1>1 DEF TypesInv
  <2>2. QED BY <1>1, <1>4, <2>1, Unwritten, MemoryTypes DEF CollectMsg
<1>6. ans.pn = mem'[m].accepted_pn BY <1>1, <1>3 DEF Answer
<1>7. \A p \in Mons \ {m} : \A x \in Msgs(net', m, p) : x \in Msgs(net, m, p) \/ (x = ans /\ p = from)
  BY <1>1, <1>3 DEF Sent, Quiet
<1>8. NumbersInv'
  <2>1. Issued(disk', mem[m].accepted_pn) /\ Issued(disk', disk[m].accepted_pn) BY <1>1, PromisedNumbers
  <2>2. Issued(disk, t.pn) BY <1>1, <1>4 DEF NumbersInv, Numbered
  <2>3. Issued(disk', t.pn) BY <1>1, <1>4, <1>5, <2>2, IssuedGrows
  <2>4. Issued(disk', mem'[m].accepted_pn) /\ Issued(disk', disk'[m].accepted_pn) BY <1>1, <2>1, <2>3
  <2>5. NumberOK(disk', m, from, ans) BY <1>3, <1>6, <2>4 DEF NumberOK
  <2>6. \A p \in Mons \ {m} : \A x \in Msgs(net', m, p) : x \in Msgs(net, m, p) \/ NumberOK(disk', m, p, x)
    BY <1>7, <2>5
  <2>7. QED BY <1>1, <2>4, <2>6, NumbersFrame DEF SameHistory
<1>9. DiskInv'
  <2>1. DiskOK(disk[m], mem[m].accepted_pn) BY <1>4, DiskIs
  <2>2. SameStore(disk[m], disk'[m]) BY <1>1 DEF SameStore
  <2>3. disk'[m].accepted_pn <= mem'[m].accepted_pn
    <3>1. disk[m].accepted_pn <= mem[m].accepted_pn /\ disk[m].accepted_pn \in Nat
      BY <1>5, <2>1, StoreTypes DEF DiskOK
    <3>2. QED BY <1>1, <1>5, <3>1
  <2>4. DiskOK(disk'[m], mem'[m].accepted_pn) BY <1>5, <2>1, <2>2, <2>3, DiskSame
  <2>5. QED BY <1>1, <2>4, DiskFrame
<1>10. CollectsInv' /\ AnswersInv'
  BY <1>1, <1>2, <1>3, <1>6, CollectsCollect DEF SameHistory
<1>11. ShapesInv'
  <2>1. ShapeOK(disk, epoch, role, quorum, from, m, t) BY <1>1, <1>4, ShapesIs
  <2>2. t.lc <= disk[from].lc /\ InQuorum(epoch, role, quorum, from, m, t) BY <1>1, <2>1 DEF ShapeOK
  <2>3. disk'[from] = disk[from] /\ role'[from] = role[from] /\ epoch'[from] = epoch[from] /\ quorum'[from] = quorum[from]
    BY <1>1 DEF Only
  <2>4. InQuorum(epoch', role', quorum', from, m, ans) BY <1>3, <2>2, <2>3 DEF InQuorum, Answer
  <2>5. DOMAIN ans.vals = (t.lc + 1)..Upto(ans) BY <1>3 DEF Answer
  <2>6. t.lc \in 0..disk'[from].lc
    <3>1. t.lc \in Nat /\ disk[from].lc \in Nat BY <1>4, <1>5, Bounds, Unwritten, StoreTypes
    <3>2. QED BY <2>2, <2>3, <3>1
  <2>7. ans.uncommitted_pn # 0 => ans.lc + 1 \in DOMAIN ans.vals /\ ans.vals[ans.lc + 1] # NoValue
    <3>1. SUFFICES ASSUME ans.uncommitted_pn # 0
                   PROVE  ans.lc + 1 \in DOMAIN ans.vals /\ ans.vals[ans.lc + 1] # NoValue
      OBVIOUS
    <3>2. /\ t.lc <= disk[m].lc /\ disk[m].vals[disk[m].lc + 1] # NoValue /\ ans.lc = disk[m].lc
          /\ \A v \in DOMAIN ans.vals : ans.vals[v] = disk[m].vals[v]
      BY <1>3, <3>1 DEF Answer
    <3>3. t.lc \in Nat /\ disk[m].lc \in Nat BY <1>5, Bounds, StoreTypes
    <3>4. DOMAIN ans.vals = (t.lc + 1)..(ans.lc + 1) BY <2>5, <3>1 DEF Upto
    <3>5. ans.lc + 1 \in DOMAIN ans.vals BY <3>2, <3>3, <3>4
    <3>6. QED BY <3>2, <3>5
  <2>8. ShapeOK(disk', epoch', role', quorum', m, from, ans)
    BY <1>3, <2>4, <2>5, <2>6, <2>7 DEF ShapeOK
  <2>9. QED BY <1>1, <1>7, <2>8, ShapesFrame
<1>12. LeaderInv'
  <2>1. LeaderOK(role[m], quorum[m], disk'[m], mem'[m], counted, m) BY <1>1 DEF LeaderOK
  <2>2. QED BY <1>1, <2>1, LeaderFrame DEF SameHistory, SameElectionOf
<1>13. AcceptsInv'
  <2>1. \A p \in Mons \ {m} : Sent(m, p, {ans}) BY <1>1, <1>3, QuietSends
  <2>2. \A x \in {ans} : x.op \notin {"accept"} BY <1>3
  <2>3. NoNew(m, {"accept"}) BY <2>1, <2>2, SentNoNew
  <2>4. \A l \in Mons \ {m} : role[l] = "leader" => PeerOK(net', quorum[l], disk[l], mem[l], l, m)
    BY <1>1, <2>3, AcceptsRest
  <2>5. role'[m] # "leader" BY <1>1 DEF SameElectionOf
  <2>6. QED BY <1>1, <2>4, <2>5, AcceptsFrame
<1>14. QED BY <1>1, <1>8, <1>9, <1>10, <1>11, <1>12, <1>13 DEF ProtocolInv

\* What goes to a quorum only.
LEMMA SentOut ==
    ASSUME NEW m \in Mons, NEW Q, NEW O, \A p \in Q \ {m} : Sent(m, p, O),
           \A p \in Mons \ {m} : p \notin Q => Quiet(m, p)
    PROVE  /\ \A p \in Mons \ {m} : Sent(m, p, O)
           /\ \A p \in Mons \ {m} : \A x \in Msgs(net', m, p) : x \in Msgs(net, m, p) \/ (x \in O /\ p \in Q)
<1>1. ASSUME NEW p \in Mons \ {m}
      PROVE  Sent(m, p, O) /\ \A x \in Msgs(net', m, p) : x \in Msgs(net, m, p) \/ (x \in O /\ p \in Q)
  <2>1. CASE p \in Q BY <2>1 DEF Sent
  <2>2. CASE p \notin Q
    <3>1. Quiet(m, p) BY <2>2
    <3>2. QED BY <3>1, QuietSends DEF Quiet
  <2>3. QED BY <2>1, <2>2
<1>2. QED BY <1>1

\* The number of a leader's round, and the rest that holds of it.
LEMMA LeaderNumber ==
    ASSUME ProtocolInv, NEW m \in Mons, role[m] = "leader"
    PROVE  /\ mem[m].accepted_pn \in Nat /\ mem[m].accepted_pn > 0 /\ mem[m].accepted_pn % Stride = m
           /\ mem[m].accepted_pn = disk[m].last_pn
           /\ LeaderOK(role[m], quorum[m], disk[m], mem[m], counted, m)
           /\ DiskOK(disk[m], mem[m].accepted_pn) /\ disk[m] \in Store /\ mem[m] \in Memory
           /\ TypesInv /\ m \in quorum[m]
<1>1. TypesInv /\ LeaderInv /\ DiskInv BY DEF ProtocolInv
<1>2. LeaderOK(role[m], quorum[m], disk[m], mem[m], counted, m) BY <1>1, LeaderIs
<1>3. mem[m].accepted_pn > 0 /\ mem[m].accepted_pn % Stride = m /\ mem[m].accepted_pn = disk[m].last_pn /\ m \in quorum[m]
  BY <1>2 DEF LeaderOK
<1>4. QED BY <1>1, <1>2, <1>3, DiskIs, Unwritten, MemoryTypes

\* Propose keeps ProtocolInv.
LEMMA ProposeProtocol ==
    ASSUME ProtocolInv, NEW m \in Mons, Propose(m)
    PROVE  ProtocolInv'
<1>1. /\ TypesInv' /\ Only(m) /\ SameElectionOf(m) /\ counted' = counted
      /\ role[m] = "leader" /\ mem[m].state = "active" /\ disk[m].lc + 1 \in Versions
  BY ProposeStep
<1>2. PICK val, y :
          /\ val \in Values \ {NoValue}
          /\ disk'[m] = Accepted(disk[m], val, mem[m].accepted_pn)
          /\ mem'[m].state = "updating" /\ mem'[m].accepted_pn = mem[m].accepted_pn
          /\ mem'[m].num_last = mem[m].num_last /\ mem'[m].accepted = {m}
          /\ mem'[m].new_value = val /\ mem'[m].uncommitted.v = 0
          /\ votes' = votes \cup {VoteOf(m, mem[m].accepted_pn, val)}
          /\ IsBegin(y, m, disk[m].lc, val)
          /\ \A p \in quorum[m] \ {m} : Sent(m, p, {y})
          /\ \A p \in Mons \ {m} : p \notin quorum[m] => Quiet(m, p)
  BY ProposeStep
<1>v. val \in Values BY <1>2
<1>3. PICK O : O = {y} OBVIOUS
<1>4. y.op = "begin" /\ y.pn = mem[m].accepted_pn /\ y.lc = disk[m].lc /\ y.val = val BY <1>2 DEF IsBegin
<1>5. \A p \in quorum[m] \ {m} : Sent(m, p, O) BY <1>2, <1>3
<1>6. /\ \A p \in Mons \ {m} : Sent(m, p, O)
      /\ \A p \in Mons \ {m} : \A x \in Msgs(net', m, p) : x \in Msgs(net, m, p) \/ (x \in O /\ p \in quorum[m])
  BY <1>2, <1>5, SentOut
<1>7. /\ mem[m].accepted_pn \in Nat /\ mem[m].accepted_pn > 0 /\ mem[m].accepted_pn % Stride = m
      /\ LeaderOK(role[m], quorum[m], disk[m], mem[m], counted, m)
      /\ DiskOK(disk[m], mem[m].accepted_pn) /\ disk[m] \in Store /\ TypesInv /\ m \in quorum[m]
  BY <1>1, LeaderNumber
<1>8. PICK e : e = Accepted(disk[m], val, mem[m].accepted_pn) OBVIOUS
<1>9. /\ e.lc = disk[m].lc /\ e.last_pn = disk[m].last_pn /\ e.accepted_pn = disk[m].accepted_pn
      /\ e.vals[disk[m].lc + 1] = val
  BY <1>1, <1>v, <1>7, <1>8, AcceptedIs
<1>10. disk'[m] = e BY <1>2, <1>8
<1>11. NumbersInv'
  <2>1. Issued(disk', mem[m].accepted_pn) /\ Issued(disk', disk[m].accepted_pn) BY <1>1, PromisedNumbers
  <2>2. Issued(disk', mem'[m].accepted_pn) /\ Issued(disk', disk'[m].accepted_pn)
    BY <1>2, <1>9, <1>10, <2>1
  <2>3. \A p \in Mons \ {m} : NumberOK(disk', m, p, y) BY <1>4, <1>7, <2>1 DEF NumberOK
  <2>4. \A p \in Mons \ {m} : \A x \in Msgs(net', m, p) : x \in Msgs(net, m, p) \/ NumberOK(disk', m, p, x)
    BY <1>3, <1>6, <2>3
  <2>5. \A w \in votes' : w \in votes \/ Issued(disk', w.pn) BY <1>2, <2>1 DEF VoteOf
  <2>6. QED BY <1>1, <2>2, <2>4, <2>5, NumbersFrame
<1>12. DiskInv'
  <2>1. DiskOK(disk'[m], mem'[m].accepted_pn) BY <1>1, <1>2, <1>7, <1>8, DiskAccepted
  <2>2. QED BY <1>1, <2>1, DiskFrame
<1>13. CollectsInv' /\ AnswersInv'
  <2>1. \A x \in O : x.op \notin {"collect", "last"} BY <1>3, <1>4
  <2>2. NoNew(m, {"collect", "last"}) BY <1>6, <2>1, SentNoNew
  <2>3. QED BY <1>1, <1>2, <2>2, CollectsFrame
<1>14. ShapesInv'
  <2>1. \A p \in Mons : ShapeOK(disk', epoch', role', quorum', m, p, y) BY <1>1, <1>4, <1>7 DEF ShapeOK
  <2>2. QED BY <1>1, <1>3, <1>6, <2>1, ShapesFrame
<1>15. LeaderInv'
  <2>1. mem[m].state # "recovering" /\ mem'[m].state # "recovering" BY <1>1, <1>2
  <2>2. LeaderOK(role[m], quorum[m], disk'[m], mem'[m], counted, m)
    BY <1>1, <1>2, <1>7, <1>9, <1>10, <2>1, LeaderSame
  <2>3. QED BY <1>1, <2>2, LeaderFrame DEF SameElectionOf
<1>16. AcceptsInv'
  <2>1. \A x \in O : x.op \notin {"accept"} BY <1>3, <1>4
  <2>2. NoNew(m, {"accept"}) BY <1>6, <2>1, SentNoNew
  <2>3. \A l \in Mons \ {m} : role[l] = "leader" => PeerOK(net', quorum[l], disk[l], mem[l], l, m)
    BY <1>1, <2>2, AcceptsRest
  <2>4. OwnOK(quorum[m], disk'[m], mem'[m], m)
    BY <1>1, <1>2, <1>7, <1>9, <1>10 DEF OwnOK, Asking, Updating, Writing
  <2>5. NoneAsked(m, mem'[m].accepted_pn)
    <3>1. mem[m].state \notin Updating BY <1>1 DEF Updating
    <3>2. QED BY <1>1, <1>2, <3>1, NoneAskedNow
  <2>6. \A p \in Mons \ {m} : PeerOK(net', quorum[m], disk'[m], mem'[m], m, p)
    <3>1. \A x \in O : x.op = "begin" => x.lc = disk'[m].lc /\ x.val = mem'[m].new_value
      BY <1>2, <1>3, <1>4, <1>9, <1>10
    <3>2. mem'[m].state \in Updating BY <1>2 DEF Updating
    <3>3. QED BY <1>1, <1>2, <1>5, <2>5, <3>1, <3>2, MineBegins
  <2>7. QED BY <1>1, <2>3, <2>4, <2>6, AcceptsFrame DEF SameElectionOf
<1>17. QED BY <1>1, <1>11, <1>12, <1>13, <1>14, <1>15, <1>16 DEF ProtocolInv

\* commit_finish keeps ProtocolInv.
LEMMA FinishProtocol ==
    ASSUME ProtocolInv, NEW m \in Mons, CommitFinish(m)
    PROVE  ProtocolInv'
<1>1. /\ TypesInv' /\ Only(m) /\ SameElectionOf(m) /\ SameHistory
      /\ mem[m].state \in Writing
      /\ disk'[m] = [disk[m] EXCEPT !.lc = @ + 1]
      /\ mem'[m].state = "active" /\ mem'[m].accepted_pn = mem[m].accepted_pn
      /\ mem'[m].num_last = mem[m].num_last
      /\ mem'[m].new_value = NoValue /\ mem'[m].uncommitted.v = 0
      /\ \A p \in Mons \ {m} : p \notin quorum[m] => Quiet(m, p)
  BY FinishStep
<1>2. PICK x, y : /\ IsCommit(x, disk[m].lc + 1, mem[m].new_value) /\ y.op = "lease"
                  /\ \A p \in quorum[m] \ {m} : Sent(m, p, {x, y})
  BY FinishStep DEF IsLease
<1>3. PICK O : O = {x, y} OBVIOUS
<1>4. role[m] = "leader" /\ disk[m].lc + 1 \in Versions BY <1>1, WritingIs
<1>5. \A p \in quorum[m] \ {m} : Sent(m, p, O) BY <1>2, <1>3
<1>6. /\ \A p \in Mons \ {m} : Sent(m, p, O)
      /\ \A p \in Mons \ {m} : \A z \in Msgs(net', m, p) : z \in Msgs(net, m, p) \/ (z \in O /\ p \in quorum[m])
  BY <1>1, <1>5, SentOut
<1>7. /\ mem[m].accepted_pn \in Nat /\ mem[m].accepted_pn > 0 /\ mem[m].accepted_pn % Stride = m
      /\ LeaderOK(role[m], quorum[m], disk[m], mem[m], counted, m)
      /\ DiskOK(disk[m], mem[m].accepted_pn) /\ disk[m] \in Store /\ TypesInv /\ m \in quorum[m]
  BY <1>4, LeaderNumber
<1>8. disk'[m].last_pn = disk[m].last_pn /\ disk'[m].accepted_pn = disk[m].accepted_pn /\ disk'[m].lc = disk[m].lc + 1
  BY <1>1, <1>4, <1>7, CommittingIs
<1>9. \A z \in O : z.op \in {"commit", "lease"} BY <1>2, <1>3 DEF IsCommit
<1>11. NumbersInv'
  <2>1. Issued(disk', mem[m].accepted_pn) /\ Issued(disk', disk[m].accepted_pn) BY <1>1, PromisedNumbers
  <2>2. Issued(disk', mem'[m].accepted_pn) /\ Issued(disk', disk'[m].accepted_pn) BY <1>1, <1>8, <2>1
  <2>3. \A p \in Mons \ {m} : \A z \in O : NumberOK(disk', m, p, z) BY <1>9 DEF NumberOK, Numbered
  <2>4. \A p \in Mons \ {m} : \A z \in Msgs(net', m, p) : z \in Msgs(net, m, p) \/ NumberOK(disk', m, p, z)
    BY <1>6, <2>3
  <2>6. QED BY <1>1, <2>2, <2>4, NumbersFrame DEF SameHistory
<1>12. DiskInv'
  <2>0. disk[m].accepted_pn <= mem'[m].accepted_pn BY <1>1, <1>7 DEF DiskOK
  <2>1. DiskOK(disk'[m], mem'[m].accepted_pn) BY <1>1, <1>4, <1>7, <2>0, DiskCommitted
  <2>2. QED BY <1>1, <2>1, DiskFrame
<1>13. CollectsInv' /\ AnswersInv'
  <2>1. \A z \in O : z.op \notin {"collect", "last"} BY <1>9
  <2>2. NoNew(m, {"collect", "last"}) BY <1>6, <2>1, SentNoNew
  <2>3. QED BY <1>1, <2>2, CollectsFrame DEF SameHistory
<1>14. ShapesInv'
  <2>0. x.op = "commit" => \E a \in Counts : DOMAIN x.vals = (a + 1)..x.lc
    <3>1. disk[m].lc \in Counts /\ disk[m].lc \in Nat BY <1>7, StoreTypes
    <3>2. x.lc = disk[m].lc + 1 /\ DOMAIN x.vals = {disk[m].lc + 1} BY <1>2 DEF IsCommit
    <3>3. {disk[m].lc + 1} = (disk[m].lc + 1)..(disk[m].lc + 1) BY <3>1
    <3>4. QED BY <3>1, <3>2, <3>3
  <2>1. \A p \in Mons : ShapeOK(disk', epoch', role', quorum', m, p, x)
    BY <1>2, <2>0 DEF ShapeOK, IsCommit
  <2>2. \A p \in Mons : ShapeOK(disk', epoch', role', quorum', m, p, y) BY <1>2 DEF ShapeOK
  <2>3. \A p \in Mons \ {m} : \A z \in Msgs(net', m, p) :
            z \in Msgs(net, m, p) \/ ShapeOK(disk', epoch', role', quorum', m, p, z)
    BY <1>3, <1>6, <2>1, <2>2
  <2>4. QED BY <1>1, <2>3, ShapesFrame
<1>15. LeaderInv'
  <2>1. mem[m].state # "recovering" /\ mem'[m].state # "recovering" BY <1>1 DEF Writing
  <2>2. LeaderOK(role[m], quorum[m], disk'[m], mem'[m], counted, m)
    BY <1>1, <1>4, <1>7, <1>8, <2>1, LeaderSame
  <2>3. QED BY <1>1, <2>2, LeaderFrame DEF SameElectionOf, SameHistory
<1>16. AcceptsInv'
  <2>1. (\A z \in O : z.op \notin {"accept"}) /\ (\A z \in O : z.op \notin {"begin"}) BY <1>9
  <2>2. NoNew(m, {"accept"}) /\ NoNew(m, {"begin"}) BY <1>6, <2>1, SentNoNew
  <2>3. \A l \in Mons \ {m} : role[l] = "leader" => PeerOK(net', quorum[l], disk[l], mem[l], l, m)
    BY <1>1, <2>2, AcceptsRest
  <2>4. OwnOK(quorum[m], disk'[m], mem'[m], m)
    BY <1>1 DEF OwnOK, Asking, Updating, Writing
  <2>5. NoneAsked(m, mem'[m].accepted_pn)
    <3>1. mem[m].state \notin Updating BY <1>1 DEF Updating, Writing
    <3>2. QED BY <1>1, <1>4, <3>1, NoneAskedNow
  <2>6. \A p \in Mons \ {m} : PeerOK(net', quorum[m], disk'[m], mem'[m], m, p)
    BY <1>1, <2>2, <2>5, MineIdle
  <2>7. QED BY <1>1, <2>3, <2>4, <2>6, AcceptsFrame DEF SameElectionOf
<1>17. QED BY <1>1, <1>11, <1>12, <1>13, <1>14, <1>15, <1>16 DEF ProtocolInv

\* The commits that share a store are of the right shape.
LEMMA ShareShape ==
    ASSUME NEW m, NEW d, NEW x \in Shares(m, d), NEW e, NEW f, NEW r, NEW q, NEW p
    PROVE  ShapeOK(e, f, r, q, m, p, x) /\ NumberOK(e, m, p, x) /\ x.op = "commit"
<1>1. x.op = "commit" /\ x.lc = d.lc /\ \E a \in Counts : DOMAIN x.vals = (a + 1)..d.lc BY DEF Shares
<1>2. QED BY <1>1 DEF ShapeOK, NumberOK, Numbered

\* A new round, of a winner or of a leader that must collect again, keeps ProtocolInv.
LEMMA NewRoundProtocol ==
    ASSUME ProtocolInv, NEW m \in Mons, TypesInv', Only(m), SameHistory, NEW d \in Store,
           DiskOK(d, mem[m].accepted_pn), d.accepted_pn = disk[m].accepted_pn,
           d.last_pn = disk[m].last_pn, NewRound(m, d),
           IsMajority(quorum'[m]), m \in quorum'[m], role'[m] = "leader",
           SameElectionOf(m) \/ epoch'[m] > epoch[m], NEW y, IsCollect(y, m, epoch'[m], d.lc),
           NEW O, \A x \in O : x = y \/ x.op = "victory" \/ x \in Shares(m, d),
           \A p \in quorum'[m] \ {m} : Sent(m, p, O),
           \A p \in Mons \ {m} : p \notin quorum'[m] => Quiet(m, p)
    PROVE  ProtocolInv'
<1>1. PICK pn : pn = mem'[m].accepted_pn OBVIOUS
<1>2. TypesInv /\ NumbersInv BY DEF ProtocolInv
<1>3. /\ mem[m].accepted_pn \in Nat /\ pn \in Nat /\ disk[m].last_pn \in Nat
  <2>1. mem'[m] \in Memory BY DEF TypesInv
  <2>2. QED BY <1>1, <1>2, <2>1, Unwritten, MemoryTypes, StoreTypes
<1>4. /\ mem'[m].state = "recovering" /\ mem'[m].num_last = 1
      /\ pn > mem[m].accepted_pn /\ pn > disk[m].last_pn /\ pn % Stride = m
      /\ mem'[m].new_value = NoValue
      /\ mem'[m].uncommitted = Uncommitted(d, mem[m].accepted_pn)
      /\ disk'[m] = [d EXCEPT !.last_pn = pn]
  BY <1>1 DEF NewRound
<1>5. /\ disk'[m].lc = d.lc /\ disk'[m].vals = d.vals /\ disk'[m].last_pn = pn
      /\ disk'[m].pending_v = d.pending_v /\ disk'[m].pending_pn = d.pending_pn /\ disk'[m].accepted_pn = d.accepted_pn
      /\ disk'[m] \in Store
  <2>1. disk'[m] \in Store BY DEF TypesInv
  <2>2. pn > d.last_pn BY <1>4
  <2>3. PICK e : e = [d EXCEPT !.last_pn = pn] OBVIOUS
  <2>4. /\ e.lc = d.lc /\ e.vals = d.vals /\ e.last_pn = pn
        /\ e.pending_v = d.pending_v /\ e.pending_pn = d.pending_pn /\ e.accepted_pn = d.accepted_pn
    BY <1>3, <2>2, <2>3, RoundStore
  <2>5. disk'[m] = e BY <1>4, <2>3, Zenon
  <2>6. QED BY <2>1, <2>4, <2>5, Zenon
<1>6. /\ \A p \in Mons \ {m} : Sent(m, p, O)
      /\ \A p \in Mons \ {m} : \A x \in Msgs(net', m, p) : x \in Msgs(net, m, p) \/ (x \in O /\ p \in quorum'[m])
  BY SentOut
<1>7. y.op = "collect" /\ y.pn = pn /\ y.lc = d.lc /\ y.epoch = epoch'[m] BY <1>1 DEF IsCollect
<1>8. \A x \in O : x = y \/ x.op = "victory" \/ x.op = "commit" BY ShareShape
<1>9. \A x \in O : x.op \in {"collect", "victory", "commit"} BY <1>7, <1>8
<1>11. NumbersInv'
  <2>1. Issued(disk', disk[m].accepted_pn) BY PromisedNumbers
  <2>2. Issued(disk', pn)
    <3>1. pn % Stride = m /\ pn <= disk'[m].last_pn BY <1>3, <1>4, <1>5
    <3>2. QED BY <3>1 DEF Issued
  <2>3. Issued(disk', mem'[m].accepted_pn) /\ Issued(disk', disk'[m].accepted_pn)
    BY <1>1, <1>5, <2>1, <2>2
  <2>4. ASSUME NEW p \in Mons \ {m}, NEW x \in O PROVE NumberOK(disk', m, p, x)
    BY <1>4, <1>7, <1>8, <2>2 DEF NumberOK, Numbered
  <2>5. \A p \in Mons \ {m} : \A x \in Msgs(net', m, p) : x \in Msgs(net, m, p) \/ NumberOK(disk', m, p, x)
    BY <1>6, <2>4
  <2>6. QED BY <2>3, <2>5, NumbersFrame DEF SameHistory
<1>12. DiskInv'
  <2>1. SameStore(d, disk'[m]) BY <1>5 DEF SameStore
  <2>2. disk'[m].accepted_pn <= mem'[m].accepted_pn
    <3>1. d.accepted_pn <= mem[m].accepted_pn /\ d.accepted_pn \in Nat BY StoreTypes DEF DiskOK
    <3>2. disk'[m].accepted_pn <= pn BY <1>3, <1>4, <1>5, <3>1
    <3>3. QED BY <1>1, <3>2
  <2>3. DiskOK(disk'[m], mem'[m].accepted_pn) BY <1>5, <2>1, <2>2, DiskSame
  <2>4. QED BY <2>3, DiskFrame
<1>13. CollectsInv' /\ AnswersInv'
  <2>1. \A x \in O : x.op \notin {"last"} BY <1>9
  <2>2. NoNew(m, {"last"}) BY <1>6, <2>1, SentNoNew
  <2>3. \A p \in Mons \ {m} : \A x \in Msgs(net', m, p) : x.op = "collect" => x \in Msgs(net, m, p) \/ x.pn = pn
    BY <1>6, <1>7, <1>8
  <2>4. \A p \in Mons \ {m} : \A x, z : Before(net', m, p, x, z) /\ x.op = "collect" /\ z.op = "collect" =>
               Before(net, m, p, x, z) \/ (x \in Msgs(net, m, p) /\ z.pn = pn)
    <3>1. SUFFICES ASSUME NEW p \in Mons \ {m}, NEW x, NEW z, Before(net', m, p, x, z), x.op = "collect", z.op = "collect"
                   PROVE  Before(net, m, p, x, z) \/ (x \in Msgs(net, m, p) /\ z.pn = pn)
      OBVIOUS
    <3>2. Before(net, m, p, x, z) \/ (x \in Msgs(net, m, p) /\ z \in O) BY <1>6, <3>1 DEF Sent
    <3>3. QED BY <1>7, <1>8, <3>1, <3>2
  <2>5. mem'[m].accepted_pn = pn /\ disk'[m].last_pn = pn /\ counted' = counted
    BY <1>1, <1>5 DEF SameHistory
  <2>6. QED BY <1>3, <1>4, <2>2, <2>3, <2>4, <2>5, CollectsRound
<1>14. ShapesInv'
  <2>1. ASSUME NEW p \in quorum'[m] PROVE ShapeOK(disk', epoch', role', quorum', m, p, y)
    <3>0. d.lc \in Nat /\ epoch'[m] \in Nat BY StoreTypes DEF TypesInv, ElectionTypeOK
    <3>1. y.lc <= disk'[m].lc BY <1>5, <1>7, <3>0
    <3>2. InQuorum(epoch', role', quorum', m, p, y)
      <4>1. epoch'[m] <= epoch'[m] BY <3>0
      <4>2. QED BY <1>7, <2>1, <4>1 DEF InQuorum
    <3>3. QED BY <1>7, <3>1, <3>2 DEF ShapeOK
  <2>2. ASSUME NEW p, NEW x, x.op = "victory" PROVE ShapeOK(disk', epoch', role', quorum', m, p, x)
    BY <2>2 DEF ShapeOK
  <2>3. ASSUME NEW p \in Mons \ {m}, NEW x \in Msgs(net', m, p)
        PROVE  x \in Msgs(net, m, p) \/ ShapeOK(disk', epoch', role', quorum', m, p, x)
    <3>1. x \in Msgs(net, m, p) \/ (x \in O /\ p \in quorum'[m]) BY <1>6, <2>3
    <3>2. CASE x \in O /\ p \in quorum'[m] /\ x = y BY <2>1, <3>2
    <3>3. CASE x.op = "victory" BY <2>2, <3>3
    <3>4. CASE x \in Shares(m, d) BY <3>4, ShareShape
    <3>5. QED BY <3>1, <3>2, <3>3, <3>4
  <2>4. QED BY <2>3, ShapesFrame
<1>15. LeaderInv'
  <2>1. mem'[m].uncommitted.v # 0 => mem'[m].uncommitted.val # NoValue
    BY <1>3, <1>4, UncommittedIs
  <2>2. LeaderOK("leader", quorum'[m], disk'[m], mem'[m], counted, m)
    BY <1>1, <1>2, <1>3, <1>4, <1>5, <2>1, LeaderRound
  <2>3. QED BY <2>2, LeaderFrame DEF SameHistory
<1>16. AcceptsInv'
  <2>1. (\A z \in O : z.op \notin {"accept"}) /\ (\A z \in O : z.op \notin {"begin"}) BY <1>9
  <2>2. NoNew(m, {"accept"}) /\ NoNew(m, {"begin"}) BY <1>6, <2>1, SentNoNew
  <2>3. \A l \in Mons \ {m} : role[l] = "leader" => PeerOK(net', quorum[l], disk[l], mem[l], l, m)
    BY <2>2, AcceptsRest
  <2>4. OwnOK(quorum'[m], disk'[m], mem'[m], m)
    BY <1>4 DEF OwnOK, Asking, Updating, Writing
  <2>5. NoneAsked(m, mem'[m].accepted_pn) BY <1>1, <1>3, <1>4, NoneAskedYet
  <2>6. \A p \in Mons \ {m} : PeerOK(net', quorum'[m], disk'[m], mem'[m], m, p)
    BY <2>2, <2>5, MineIdle
  <2>7. QED BY <2>3, <2>4, <2>6, AcceptsFrame
<1>17. QED BY <1>11, <1>12, <1>13, <1>14, <1>15, <1>16 DEF ProtocolInv

\* win_election keeps ProtocolInv.
LEMMA VictoryProtocol ==
    ASSUME ProtocolInv, NEW m \in Mons, NEW Q \in SUBSET Mons, DeclareVictory(m, Q)
    PROVE  ProtocolInv'
<1>1. /\ TypesInv' /\ Only(m) /\ SameHistory
      /\ role[m] = "electing" /\ role'[m] = "leader" /\ quorum'[m] = Q /\ IsMajority(Q) /\ m \in Q
      /\ epoch'[m] = epoch[m] + 1
      /\ NewRound(m, disk[m])
      /\ \A p \in Mons \ {m} : p \notin Q => Quiet(m, p)
  BY VictoryStep
<1>2. PICK x, y : /\ x.op = "victory" /\ IsCollect(y, m, epoch'[m], disk[m].lc)
                  /\ \A p \in Q \ {m} : Sent(m, p, {x, y})
  BY VictoryStep
<1>3. PICK O : O = {x, y} OBVIOUS
<1>4. \A p \in quorum'[m] \ {m} : Sent(m, p, O) BY <1>1, <1>2, <1>3
<1>5. \A z \in O : z = y \/ z.op = "victory" \/ z \in Shares(m, disk[m]) BY <1>2, <1>3
<1>6. disk[m] \in Store /\ epoch[m] \in Nat /\ DiskOK(disk[m], mem[m].accepted_pn)
  BY Unwritten, DiskIs DEF ProtocolInv
<1>7. epoch'[m] > epoch[m] BY <1>1, <1>6
<1>8. \A p \in Mons \ {m} : p \notin quorum'[m] => Quiet(m, p) BY <1>1
<1>9. IsMajority(quorum'[m]) /\ m \in quorum'[m] BY <1>1
<1>10. QED BY <1>1, <1>2, <1>4, <1>5, <1>6, <1>7, <1>8, <1>9, NewRoundProtocol

\* An answer that handle_last counts comes after every collect and every other last.
LEMMA CountIsNew ==
    ASSUME ProtocolInv, NEW m \in Mons, NEW from \in Mons \ {m}, role[m] = "leader", Only(m),
           NEW t \in Msgs(net, from, m),
           t.op = "last", t.pn = mem[m].accepted_pn, \A x \in Msgs(net', from, m) : Before(net, from, m,
           t, x),
           NoNew(m, {"collect", "last"}), NEW z, z = <<mem[m].accepted_pn, from>>
    PROVE  NewCount(m, z)
<1>1. /\ mem[m].accepted_pn \in Nat /\ mem[m].accepted_pn % Stride = m
      /\ mem[m].accepted_pn = disk[m].last_pn
  BY LeaderNumber
<1>2. /\ \A x \in Msgs(net, m, from) : x.op = "collect" => CollectOK(disk, mem, net, counted, m, from, x)
      /\ AnswersOrdered(disk, net, m, from)
  BY CollectsIs DEF ProtocolInv
<1>3. z[1] = mem[m].accepted_pn /\ z[2] = from OBVIOUS
<1>4. ASSUME NEW x \in Msgs(net', m, from), x.op = "collect" PROVE mem[m].accepted_pn < x.pn
  <2>1. x \in Msgs(net, m, from) BY <1>4 DEF NoNew
  <2>2. QED BY <1>1, <1>2, <1>4, <2>1 DEF CollectOK
<1>5. ASSUME NEW y \in Msgs(net', from, m), y.op = "last" PROVE FALSE
  <2>1. y \in Msgs(net, from, m) /\ Before(net, from, m, t, y) BY <1>5 DEF Only, Quiet
  <2>2. t.pn < disk[m].last_pn BY <1>1, <1>2, <1>5, <2>1 DEF AnswersOrdered
  <2>3. QED BY <1>1, <2>2
<1>6. QED BY <1>1, <1>3, <1>4, <1>5 DEF NewCount

\* ProtocolInv after handle_last in the same round, if the leader's own part is right.
LEMMA LastFrame ==
    ASSUME ProtocolInv, NEW m \in Mons, NEW from \in Mons \ {m}, TypesInv', Only(m), SameElectionOf(m),
           role[m] = "leader",
           NEW t \in Msgs(net, from, m), t.op = "last", \A x \in Msgs(net', from, m) : Before(net, from,
           m, t, x),
           NEW pn, pn = mem[m].accepted_pn,
           mem'[m].accepted_pn = pn, disk'[m].accepted_pn = disk[m].accepted_pn, DiskOK(disk'[m], pn),
           NEW d, NEW O,
           \A x \in O : x \in Shares(m, d) \/ x.op = "lease" \/ (x.op = "begin" /\ x.pn = pn /\ x.lc + 1 \in Versions),
           \A p \in quorum[m] \ {m} : Sent(m, p, O), \A p \in Mons \ {m} : p \notin quorum[m] => Quiet(m, p),
           \A w \in votes' : w \in votes \/ w.pn = pn,
           counted' = counted \/ (t.pn = pn /\ counted' = counted \cup {<<pn, from>>}),
           LeaderOK("leader", quorum[m], disk'[m], mem'[m], counted', m),
           OwnOK(quorum[m], disk'[m], mem'[m], m),
           \A p \in Mons \ {m} : PeerOK(net', quorum[m], disk'[m], mem'[m], m, p)
    PROVE  ProtocolInv'
<1>1. /\ \A p \in Mons \ {m} : Sent(m, p, O)
      /\ \A p \in Mons \ {m} : \A x \in Msgs(net', m, p) : x \in Msgs(net, m, p) \/ (x \in O /\ p \in quorum[m])
  BY SentOut
<1>2. /\ pn \in Nat /\ pn > 0 /\ pn % Stride = m BY LeaderNumber
<1>3. \A x \in O : x.op \in {"commit", "lease", "begin"} BY ShareShape
<1>4. \A z \in counted' : z \in counted \/ (z = <<pn, from>> /\ t.pn = pn) OBVIOUS
<1>5. NumbersInv'
  <2>1. Issued(disk', pn) /\ Issued(disk', disk'[m].accepted_pn) BY PromisedNumbers
  <2>2. ASSUME NEW p \in Mons \ {m}, NEW x \in O PROVE NumberOK(disk', m, p, x)
    <3>1. CASE x \in Shares(m, d) BY <3>1, ShareShape
    <3>2. CASE x.op = "lease" BY <3>2 DEF NumberOK, Numbered
    <3>3. CASE x.op = "begin" /\ x.pn = pn BY <1>2, <2>1, <3>3 DEF NumberOK, Numbered
    <3>4. QED BY <3>1, <3>2, <3>3
  <2>3. \A p \in Mons \ {m} : \A x \in Msgs(net', m, p) : x \in Msgs(net, m, p) \/ NumberOK(disk', m, p, x)
    BY <1>1, <2>2
  <2>4. \A z \in counted' : z \in counted \/ Issued(disk', z[1]) BY <1>4, <2>1
  <2>5. QED BY <2>1, <2>3, <2>4, NumbersFrame
<1>6. DiskInv' BY DiskFrame
<1>7. CollectsInv' /\ AnswersInv'
  <2>1. \A x \in O : x.op \notin {"collect", "last"} BY <1>3
  <2>2. NoNew(m, {"collect", "last"}) BY <1>1, <2>1, SentNoNew
  <2>3. \A z \in counted' : z \in counted \/ NewCount(m, z) BY <1>4, <2>2, CountIsNew
  <2>4. QED BY <2>2, <2>3, CollectsFrame
<1>8. ShapesInv'
  <2>2. ASSUME NEW p \in Mons \ {m}, NEW x \in O PROVE ShapeOK(disk', epoch', role', quorum', m, p, x)
    <3>1. CASE x \in Shares(m, d) BY <3>1, ShareShape
    <3>2. CASE x.op = "lease" BY <3>2 DEF ShapeOK
    <3>3. CASE x.op = "begin" /\ x.pn = pn /\ x.lc + 1 \in Versions BY <1>2, <3>3 DEF ShapeOK
    <3>4. QED BY <3>1, <3>2, <3>3
  <2>3. \A p \in Mons \ {m} : \A x \in Msgs(net', m, p) :
           x \in Msgs(net, m, p) \/ ShapeOK(disk', epoch', role', quorum', m, p, x)
    BY <1>1, <2>2
  <2>4. QED BY <2>3, ShapesFrame
<1>9. LeaderInv'
  <2>1. \A z \in counted' : z \in counted \/ z[1] % Stride = m BY <1>2, <1>4
  <2>2. LeaderOK(role'[m], quorum'[m], disk'[m], mem'[m], counted', m) BY DEF SameElectionOf
  <2>3. QED BY <2>1, <2>2, LeaderFrame
<1>10. AcceptsInv'
  <2>1. \A x \in O : x.op \notin {"accept"} BY <1>3
  <2>2. NoNew(m, {"accept"}) BY <1>1, <2>1, SentNoNew
  <2>3. \A l \in Mons \ {m} : role[l] = "leader" => PeerOK(net', quorum[l], disk[l], mem[l], l, m)
    BY <2>2, AcceptsRest
  <2>7. QED BY <2>3, AcceptsFrame DEF SameElectionOf
<1>11. QED BY <1>5, <1>6, <1>7, <1>8, <1>9, <1>10 DEF ProtocolInv

\* handle_last keeps ProtocolInv.
LEMMA LastProtocol ==
    ASSUME ProtocolInv, NEW m \in Mons, NEW from \in Mons \ {m}, handle_last(from, m)
    PROVE  ProtocolInv'
<1> DEFINE t == Taken(from, m)
<1>1. /\ TypesInv' /\ Only(m) /\ SameElectionOf(m)
      /\ t \in Msgs(net, from, m) /\ t.op = "last" /\ role[m] = "leader" /\ t.epoch = epoch[m]
      /\ Takes(from, m)
      /\ \A p \in Mons \ {m} : p \notin quorum[m] => Quiet(m, p)
  BY LastStep
<1>2. PICK d, u :
         /\ Merged(disk[m], t, d) /\ d.lc >= t.lc
         /\ u \in Uncommitteds /\ (u.v # 0 => u.val # NoValue)
         /\ u = Learned(Unforgotten(mem[m].uncommitted, d), d, t)
         /\ \/ LastAgain(m, t, d) \/ LastMore(from, m, t, d, u) \/ LastBegin(from, m, t, d, u)
            \/ LastActive(from, m, t, d, u) \/ LastStale(m, t, d)
  BY LastStep
<1>3. \A x \in Msgs(net', from, m) : Before(net, from, m, t, x) BY <1>1 DEF Takes
<1> HIDE DEF t
<1>4. PICK pn : pn = mem[m].accepted_pn OBVIOUS
<1>5. /\ pn \in Nat /\ pn > 0 /\ pn % Stride = m /\ pn = disk[m].last_pn
      /\ LeaderOK(role[m], quorum[m], disk[m], mem[m], counted, m)
      /\ DiskOK(disk[m], pn) /\ disk[m] \in Store /\ mem[m] \in Memory /\ TypesInv
  BY <1>1, <1>4, LeaderNumber
<1>6. IsMajority(quorum[m]) /\ m \in quorum[m] /\ (mem[m].uncommitted.v # 0 => mem[m].uncommitted.val # NoValue)
  BY <1>1, <1>5 DEF LeaderOK
<1>7. DiskOK(d, pn) /\ d \in Store /\ d.accepted_pn = disk[m].accepted_pn /\ d.last_pn = disk[m].last_pn
  BY <1>2, <1>5, DiskMerged DEF Merged
<1>8. mem[m].state = "recovering" /\ from \in quorum[m] /\ from \notin Counted(counted, mem[m].accepted_pn)
  BY <1>1, LastIsNew
<1>9. NoneAsked(m, pn)
  <2>1. mem[m].state \notin Updating BY <1>8 DEF Updating
  <2>2. QED BY <1>1, <1>4, <2>1, NoneAskedNow
<1>10. OwnOK(quorum[m], disk[m], mem[m], m) BY <1>1, AcceptsIs DEF ProtocolInv
<1>11. mem[m].new_value = NoValue BY <1>8, <1>10 DEF OwnOK, Asking, Updating, Writing
<1>a. CASE LastAgain(m, t, d)
  <2>1. SameHistory /\ NewRound(m, d) BY <1>a DEF LastAgain
  <2>2. PICK y : IsCollect(y, m, epoch[m], d.lc) /\ Told(m, Shares(m, d) \cup {y}) BY <1>a DEF LastAgain
  <2>3. PICK O : O = Shares(m, d) \cup {y} OBVIOUS
  <2>4. \A x \in O : x = y \/ x.op = "victory" \/ x \in Shares(m, d) BY <2>3
  <2>5. quorum'[m] = quorum[m] /\ epoch'[m] = epoch[m] /\ role'[m] = role[m] BY <1>1 DEF SameElectionOf
  <2>6. \A p \in quorum'[m] \ {m} : Sent(m, p, O) BY <2>2, <2>3, <2>5 DEF Told
  <2>7. \A p \in Mons \ {m} : p \notin quorum'[m] => Quiet(m, p) BY <1>1, <2>5
  <2>8. IsMajority(quorum'[m]) /\ m \in quorum'[m] /\ role'[m] = "leader" BY <1>1, <1>6, <2>5
  <2>9. IsCollect(y, m, epoch'[m], d.lc) BY <2>2, <2>5
  <2>10. DiskOK(d, mem[m].accepted_pn) BY <1>4, <1>7
  <2>11. QED BY <1>1, <1>7, <2>1, <2>4, <2>6, <2>7, <2>8, <2>9, <2>10, NewRoundProtocol
<1>b. CASE LastMore(from, m, t, d, u) \/ LastStale(m, t, d)
  <2>1. /\ disk'[m] = d /\ mem'[m].state = mem[m].state /\ mem'[m].accepted_pn = pn
        /\ mem'[m].new_value = mem[m].new_value
        /\ Told(m, Shares(m, d)) /\ votes' = votes
    BY <1>b, <1>4 DEF LastMore, LastStale, SameRound, SameHistory
  <2>2. counted' = counted \/ (t.pn = pn /\ counted' = counted \cup {<<pn, from>>})
    BY <1>b, <1>4 DEF LastMore, LastStale, CountsAnswer, SameHistory
  <2>3. PICK O : O = Shares(m, d) OBVIOUS
  <2>4. \A p \in quorum[m] \ {m} : Sent(m, p, O) BY <2>1, <2>3 DEF Told
  <2>5. /\ \A p \in Mons \ {m} : Sent(m, p, O)
    BY <1>1, <2>4, SentOut
  <2>6. \A x \in O : x.op = "commit" BY <2>3, ShareShape
  <2>7. LeaderOK("leader", quorum[m], disk'[m], mem'[m], counted', m)
    <3>1. CASE LastMore(from, m, t, d, u)
      <4>1. /\ mem'[m].num_last = mem[m].num_last + 1 /\ mem'[m].uncommitted = u
            /\ counted' = counted \cup {<<mem[m].accepted_pn, from>>}
        BY <3>1 DEF LastMore, CountsAnswer
      <4>2. mem'[m].uncommitted.v # 0 => mem'[m].uncommitted.val # NoValue BY <1>2, <4>1
      <4>3. QED BY <1>1, <1>4, <1>7, <1>8, <2>1, <4>1, <4>2, LeaderCounts
    <3>2. CASE LastStale(m, t, d)
      <4>1. mem'[m].num_last = mem[m].num_last /\ mem'[m].uncommitted = Unforgotten(mem[m].uncommitted, d) /\ counted' = counted
        BY <3>2 DEF LastStale, SameHistory
      <4>2. mem'[m].uncommitted.v = 0 \/ mem'[m].uncommitted = mem[m].uncommitted BY <4>1 DEF Unforgotten
      <4>3. mem'[m].accepted_pn = mem[m].accepted_pn /\ disk'[m].last_pn = disk[m].last_pn
        BY <1>4, <1>7, <2>1
      <4>4. LeaderOK(role[m], quorum[m], disk'[m], mem'[m], counted, m)
        BY <1>1, <1>5, <2>1, <4>1, <4>2, <4>3, LeaderSame
      <4>5. QED BY <1>1, <4>1, <4>4
    <3>3. QED BY <1>b, <3>1, <3>2
  <2>8. OwnOK(quorum[m], disk'[m], mem'[m], m)
    BY <1>8, <1>11, <2>1 DEF OwnOK, Asking, Updating, Writing
  <2>9. \A p \in Mons \ {m} : PeerOK(net', quorum[m], disk'[m], mem'[m], m, p)
    <3>1. \A x \in O : x.op \notin {"begin"} BY <2>6
    <3>2. NoNew(m, {"begin"}) BY <2>5, <3>1, SentNoNew
    <3>3. QED BY <1>1, <1>9, <2>1, <3>2, MineIdle
  <2>10. DiskOK(disk'[m], pn) /\ disk'[m].accepted_pn = disk[m].accepted_pn BY <1>7, <2>1
  <2>11. \A x \in O : x \in Shares(m, d) \/ x.op = "lease" BY <2>3
  <2>12. QED BY <1>1, <1>3, <1>4, <2>1, <2>2, <2>4, <2>7, <2>8, <2>9, <2>10, <2>11, LastFrame
<1>c. CASE LastBegin(from, m, t, d, u)
  <2>1. /\ t.pn = pn /\ mem[m].num_last + 1 = Cardinality(quorum[m])
        /\ u.v = d.lc + 1 /\ d.lc + 1 \in Versions
        /\ disk'[m] = Accepted(d, u.val, t.pn)
        /\ mem'[m].state = "updating_previous" /\ mem'[m].accepted_pn = pn
        /\ mem'[m].num_last = mem[m].num_last + 1 /\ mem'[m].accepted = {m} /\ mem'[m].new_value = u.val
        /\ mem'[m].uncommitted.v = 0
        /\ counted' = counted \cup {<<pn, from>>}
        /\ \A w \in votes' : w \in votes \/ w.pn = pn
    BY <1>c, <1>4 DEF LastBegin, CountsAnswer
  <2>2. PICK y : IsBegin(y, m, d.lc, u.val) /\ Told(m, Shares(m, d) \cup {y}) BY <1>c DEF LastBegin
  <2>3. PICK O : O = Shares(m, d) \cup {y} OBVIOUS
  <2>4. \A p \in quorum[m] \ {m} : Sent(m, p, O) BY <2>2, <2>3 DEF Told
  <2>5. y.op = "begin" /\ y.pn = pn /\ y.lc = d.lc /\ y.val = u.val BY <1>4, <2>2 DEF IsBegin
  <2>6. \A x \in O : x \in Shares(m, d) \/ x.op = "lease" \/ (x.op = "begin" /\ x.pn = pn /\ x.lc + 1 \in Versions)
    BY <2>1, <2>3, <2>5
  <2>7. PICK e : e = Accepted(d, u.val, pn) OBVIOUS
  <2>8. u.val \in Values /\ u.val # NoValue
    <3>1. u.val \in Values /\ d.lc \in Nat BY <1>2, <1>7, StoreTypes DEF Uncommitteds
    <3>2. u.v # 0 BY <2>1, <3>1
    <3>3. QED BY <1>2, <3>1, <3>2
  <2>9. /\ e.lc = d.lc /\ e.last_pn = d.last_pn /\ e.accepted_pn = d.accepted_pn
        /\ e.vals[d.lc + 1] = u.val
    BY <1>5, <1>7, <2>1, <2>7, <2>8, AcceptedIs
  <2>10. disk'[m] = e BY <2>1, <2>7
  <2>11. DiskOK(disk'[m], pn) BY <1>5, <1>7, <2>1, <2>7, <2>8, <2>10, DiskAccepted
  <2>12. LeaderOK("leader", quorum[m], disk'[m], mem'[m], counted', m)
    <3>1. mem'[m].state # "recovering" BY <2>1
    <3>2. counted' = counted \cup {<<mem[m].accepted_pn, from>>} BY <1>4, <2>1
    <3>3. disk'[m].last_pn = disk[m].last_pn BY <1>7, <2>9, <2>10
    <3>4. mem'[m].accepted_pn = mem[m].accepted_pn BY <1>4, <2>1
    <3>5. QED BY <1>1, <1>8, <2>1, <3>1, <3>2, <3>3, <3>4, LeaderCounts
  <2>13. OwnOK(quorum[m], disk'[m], mem'[m], m)
    BY <1>6, <2>1, <2>8, <2>9, <2>10 DEF OwnOK, Asking, Updating, Writing
  <2>14. \A p \in Mons \ {m} : PeerOK(net', quorum[m], disk'[m], mem'[m], m, p)
    <3>1. \A x \in O : x.op = "begin" => x.lc = disk'[m].lc /\ x.val = mem'[m].new_value
      <4>1. \A x \in Shares(m, d) : x.op = "commit" BY ShareShape
      <4>2. QED BY <2>1, <2>3, <2>5, <2>9, <2>10, <4>1
    <3>2. mem'[m].state \in Updating BY <2>1 DEF Updating
    <3>3. QED BY <1>1, <1>9, <2>1, <2>4, <3>1, <3>2, MineBegins
  <2>15. disk'[m].accepted_pn = disk[m].accepted_pn BY <1>7, <2>9, <2>10
  <2>16. QED BY <1>1, <1>3, <1>4, <2>1, <2>4, <2>6, <2>11, <2>12, <2>13, <2>14, <2>15, LastFrame
<1>d. CASE LastActive(from, m, t, d, u)
  <2>1. /\ t.pn = pn /\ mem[m].num_last + 1 = Cardinality(quorum[m])
        /\ disk'[m] = d
        /\ mem'[m].state = "active" /\ mem'[m].accepted_pn = pn
        /\ mem'[m].num_last = mem[m].num_last + 1 /\ mem'[m].new_value = NoValue
        /\ mem'[m].uncommitted.v = 0
        /\ counted' = counted \cup {<<pn, from>>} /\ votes' = votes
    BY <1>d, <1>4 DEF LastActive, CountsAnswer
  <2>2. PICK y : y.op = "lease" /\ Told(m, Shares(m, d) \cup {y}) BY <1>d DEF LastActive, IsLease
  <2>3. PICK O : O = Shares(m, d) \cup {y} OBVIOUS
  <2>4. \A p \in quorum[m] \ {m} : Sent(m, p, O) BY <2>2, <2>3 DEF Told
  <2>5. \A p \in Mons \ {m} : Sent(m, p, O) BY <1>1, <2>4, SentOut
  <2>6. \A x \in O : x \in Shares(m, d) \/ x.op = "lease" BY <2>2, <2>3
  <2>12. LeaderOK("leader", quorum[m], disk'[m], mem'[m], counted', m)
    <3>1. mem'[m].state # "recovering" BY <2>1
    <3>2. counted' = counted \cup {<<mem[m].accepted_pn, from>>} BY <1>4, <2>1
    <3>3. disk'[m].last_pn = disk[m].last_pn BY <1>7, <2>1
    <3>4. mem'[m].accepted_pn = mem[m].accepted_pn BY <1>4, <2>1
    <3>5. QED BY <1>1, <1>8, <2>1, <3>1, <3>2, <3>3, <3>4, LeaderCounts
  <2>13. OwnOK(quorum[m], disk'[m], mem'[m], m)
    BY <2>1 DEF OwnOK, Asking, Updating, Writing
  <2>14. \A p \in Mons \ {m} : PeerOK(net', quorum[m], disk'[m], mem'[m], m, p)
    <3>1. \A x \in O : x.op \notin {"begin"}
      <4>1. \A x \in Shares(m, d) : x.op = "commit" BY ShareShape
      <4>2. QED BY <2>6, <4>1
    <3>2. NoNew(m, {"begin"}) BY <2>5, <3>1, SentNoNew
    <3>3. QED BY <1>1, <1>9, <2>1, <3>2, MineIdle
  <2>15. DiskOK(disk'[m], pn) /\ disk'[m].accepted_pn = disk[m].accepted_pn BY <1>7, <2>1
  <2>16. QED BY <1>1, <1>3, <1>4, <2>1, <2>4, <2>6, <2>12, <2>13, <2>14, <2>15, LastFrame
<1>e. QED BY <1>2, <1>a, <1>b, <1>c, <1>d

\* The monitors start with ProtocolInv.
LEMMA InitProtocol ==
    ASSUME Init
    PROVE  ProtocolInv
<1>1. PICK n : n = Resting(0) OBVIOUS
<1>2. /\ n \in Memory /\ n.state = "recovering" /\ n.accepted_pn = 0 /\ n.new_value = NoValue /\ n.renew = FALSE
      /\ n.uncommitted.v = 0
  BY <1>1, RestingIs DEF Resting
<1>3. \A m \in Mons : mem[m] = n /\ disk[m] = BlankDisk /\ role[m] = "electing"
  BY <1>1 DEF Init, ElectionInit
<1>4. BlankDisk \in Store BY Bounds DEF BlankDisk, Store
<1>5. BlankDisk.lc = 0 /\ BlankDisk.accepted_pn = 0 /\ \A v \in Versions : BlankDisk.vals[v] = NoValue
  BY DEF BlankDisk
<1>6. \A l, p \in Mons : l # p => Msgs(net, l, p) = {} /\ \A x, y : ~Before(net, l, p, x, y)
  <2>1. \A l, p \in Mons : l # p => net[<<l, p>>] = <<>> BY DEF Init, Channels
  <2>2. Elems(<<>>) = {} /\ \A x, y : ~Precedes(<<>>, x, y) BY ShortSequences
  <2>3. SUFFICES ASSUME NEW l \in Mons, NEW p \in Mons, l # p
                 PROVE  Msgs(net, l, p) = {} /\ \A x, y : ~Before(net, l, p, x, y)
    OBVIOUS
  <2>4. net[<<l, p>>] = <<>> BY <2>1, <2>3
  <2>5. Msgs(net, l, p) = Elems(<<>>) BY <2>4 DEF Msgs
  <2>6. \A x, y : Before(net, l, p, x, y) <=> Precedes(<<>>, x, y) BY <2>4 DEF Before
  <2>7. QED BY <2>2, <2>5, <2>6
<1>7. TypesInv
  <2>1. ElectionTypeOK BY ElectionConstants DEF Init, ElectionInit, ElectionTypeOK, NoLeader
  <2>2. disk \in [Mons -> Store] /\ mem \in [Mons -> Memory] BY <1>1, <1>2, <1>4 DEF Init
  <2>3. net \in [Channels -> Seq(Message)] BY DEF Init
  <2>4. QED BY <2>1, <2>2, <2>3, Bounds DEF Init, TypesInv
<1>8. NumbersInv /\ CollectsInv /\ AnswersInv /\ ShapesInv
  BY <1>2, <1>3, <1>5, <1>6 DEF Init, NumbersInv, CollectsInv, AnswersInv, ShapesInv, Issued, Promise
<1>9. DiskInv BY <1>2, <1>3, <1>5 DEF DiskInv, Lc, Promise
<1>10. LeaderInv /\ AcceptsInv BY <1>2, <1>3 DEF LeaderInv, AcceptsInv, IsLeader, State
<1>11. QED BY <1>7, <1>8, <1>9, <1>10 DEF ProtocolInv

\* Every step keeps ProtocolInv.
LEMMA NextProtocol ==
    ASSUME ProtocolInv, Next
    PROVE  ProtocolInv'
<1>1. ASSUME NEW m \in Mons, StartElection(m) PROVE ProtocolInv' BY <1>1, RetireProtocol
<1>2. ASSUME NEW m \in Mons, Crash(m) PROVE ProtocolInv' BY <1>2, CrashProtocol
<1>3. ASSUME NEW m \in Mons, Propose(m) PROVE ProtocolInv' BY <1>3, ProposeProtocol
<1>4. ASSUME NEW m \in Mons, CommitFinish(m) PROVE ProtocolInv' BY <1>4, FinishProtocol
<1>5. ASSUME NEW m \in Mons, lease_renew_timeout(m) PROVE ProtocolInv' BY <1>5, RenewStep, PassiveProtocol
<1>6. ASSUME NEW m \in Mons, NEW Q \in SUBSET Mons, DeclareVictory(m, Q) PROVE ProtocolInv'
  BY <1>6, VictoryProtocol
<1>7. ASSUME NEW m \in Mons, NEW from \in Mons \ {m}, HandleVictory(from, m) \/ DropOrBootstrap(from, m) PROVE ProtocolInv'
  BY <1>7, RetireProtocol
<1>8. ASSUME NEW m \in Mons, NEW from \in Mons \ {m}, handle_collect(from, m) PROVE ProtocolInv'
  BY <1>8, CollectProtocol
<1>9. ASSUME NEW m \in Mons, NEW from \in Mons \ {m}, handle_last(from, m) PROVE ProtocolInv'
  BY <1>9, LastProtocol
<1>10. ASSUME NEW m \in Mons, NEW from \in Mons \ {m}, handle_begin(from, m) PROVE ProtocolInv'
  BY <1>10, BeginProtocol
<1>11. ASSUME NEW m \in Mons, NEW from \in Mons \ {m}, handle_accept(from, m) PROVE ProtocolInv'
  BY <1>11, AcceptProtocol
<1>12. ASSUME NEW m \in Mons, NEW from \in Mons \ {m}, handle_commit(from, m) PROVE ProtocolInv'
  BY <1>12, CommitProtocol
<1>13. ASSUME NEW m \in Mons, NEW from \in Mons \ {m}, handle_lease(from, m) PROVE ProtocolInv'
  BY <1>13, LeaseStep, PassiveProtocol
<1>14. QED BY <1>1, <1>2, <1>3, <1>4, <1>5, <1>6, <1>7, <1>8, <1>9, <1>10, <1>11, <1>12, <1>13 DEF Next

\* ProtocolInv is about the variables of MonPaxos.
LEMMA StutterProtocol ==
    ASSUME ProtocolInv, UNCHANGED vars
    PROVE  ProtocolInv'
<1>1. /\ role' = role /\ epoch' = epoch /\ leader' = leader /\ quorum' = quorum /\ claims' = claims /\ follows' = follows /\ disk' = disk /\ mem' = mem
      /\ net' = net /\ proposals' = proposals /\ renewals' = renewals /\ crashes' = crashes
      /\ votes' = votes /\ counted' = counted
  BY DEF vars, electionVars, paxosVars, paxosHistory
<1>2. QED
  BY <1>1 DEF ProtocolInv, TypesInv, ElectionTypeOK, NumbersInv, DiskInv, CollectsInv, AnswersInv,
      ShapesInv, LeaderInv, AcceptsInv,
    OfQuorum, Lc, Promise, State, IsLeader

\* The course of every round, crashes included: numbers belong to their monitors and
\* grow, each answer is counted once and only for the number it answers, and a leader
\* asks for one value at a time (Paxos::collect, handle_last, begin, handle_accept).
THEOREM PaxosProtocol == Spec => []ProtocolInv
<1>1. Init => ProtocolInv BY InitProtocol
<1>2. ProtocolInv /\ [Next]_vars => ProtocolInv' BY NextProtocol, StutterProtocol
<1>3. QED BY <1>1, <1>2, PTL DEF Spec

\* The invariant has the types of the model.
LEMMA TypeOKHolds ==
    ASSUME ProtocolInv
    PROVE  TypeOK
<1>1. TypesInv /\ DiskInv /\ LeaderInv /\ AcceptsInv BY DEF ProtocolInv
<1>2. SUFFICES ASSUME NEW m \in Mons
               PROVE  /\ disk[m].lc \in 0..MaxVersion
                      /\ disk[m].vals \in [Versions -> 0..MaxProposals]
                      /\ mem[m].state \in States
                      /\ disk[m].accepted_pn <= mem[m].accepted_pn
                      /\ mem[m].state \in States \ {"recovering", "active", "updating"} => role[m] = "leader"
                      /\ role[m] = "leader" /\ mem[m].new_value # NoValue =>
                             2 * mem[m].num_last > Cardinality(Mons)
  BY <1>1 DEF TypeOK, TypesInv
<1>3. disk[m].lc \in 0..MaxVersion /\ disk[m].vals \in [Versions -> 0..MaxProposals] /\ mem[m].state \in States
  BY <1>1, Unwritten, StoreTypes, MemoryTypes DEF Counts, Values
<1>4. disk[m].accepted_pn <= mem[m].accepted_pn BY <1>1, DiskIs DEF DiskOK
<1>5. LeaderOK(role[m], quorum[m], disk[m], mem[m], counted, m) BY <1>1, LeaderIs
<1>6. ASSUME role[m] = "leader", mem[m].new_value # NoValue PROVE 2 * mem[m].num_last > Cardinality(Mons)
  <2>1. OwnOK(quorum[m], disk[m], mem[m], m) BY <1>1, <1>6, AcceptsIs
  <2>2. mem[m].state # "recovering" BY <1>6, <2>1 DEF OwnOK, Asking, Updating, Writing
  <2>3. mem[m].num_last = Cardinality(quorum[m]) /\ IsMajority(quorum[m]) BY <1>5, <1>6, <2>2 DEF LeaderOK
  <2>4. QED BY <2>3 DEF IsMajority
<1>7. mem[m].state \in States \ {"recovering", "active", "updating"} => role[m] = "leader"
  BY <1>5 DEF LeaderOK
<1>8. QED BY <1>3, <1>4, <1>6, <1>7

\* Monitors' stores, memories and messages keep their types in every behaviour; a
\* version is never stored outside of 1..MaxVersion.
THEOREM PaxosTypeOK == Spec => []TypeOK
BY PaxosProtocol, TypeOKHolds, PTL

-----------------------------------------------------------------------------
(* The parts of VotingInv under a step of one monitor.                     *)

\* The values: the second half of the inductive invariant.
VotingInv == VotesInv /\ StoreInv /\ MessagesInv /\ RoundInv

\* what a step of m keeps: promises only rise, and it votes under the number it has promised
Kept(m) ==
    /\ \A n \in Mons : /\ mem[n].accepted_pn \in Nat /\ mem'[n].accepted_pn \in Nat
                       /\ mem'[n].accepted_pn >= mem[n].accepted_pn
    /\ votes \subseteq votes'
    /\ \A w \in votes' : w \in votes \/ (w.mon = m /\ w.pn = mem[m].accepted_pn)

\* A vote stays.
LEMMA VotedGrows ==
    ASSUME NEW m, Kept(m), NEW a, NEW v, NEW b, NEW x, VotedFor(votes, a, v, b, x)
    PROVE  VotedFor(votes', a, v, b, x)
BY DEF VotedFor, Kept

\* What is chosen stays chosen.
LEMMA ChosenGrows ==
    ASSUME NEW m, Kept(m), NEW v, NEW x, Chosen(votes, v, x)
    PROVE  Chosen(votes', v, x)
<1>1. PICK w \in votes : ChosenAt(votes, v, w.pn, x) BY DEF Chosen
<1>2. PICK Q \in SUBSET Mons : IsMajority(Q) /\ \A a \in Q : VotedFor(votes, a, v, w.pn, x)
  BY <1>1 DEF ChosenAt
<1>3. \A a \in Q : VotedFor(votes', a, v, w.pn, x) BY <1>2, VotedGrows
<1>4. ChosenAt(votes', v, w.pn, x) BY <1>2, <1>3 DEF ChosenAt
<1>5. w \in votes' BY DEF Kept
<1>6. QED BY <1>4, <1>5 DEF Chosen

\* What is safe stays safe: promises only rise, and new votes are within them.
LEMMA SafeGrows ==
    ASSUME NEW m, Kept(m), NEW v, NEW b \in Nat, NEW x, SafeAt(votes, mem, v, b, x)
    PROVE  SafeAt(votes', mem', v, b, x)
<1>1. SUFFICES ASSUME NEW c \in 0..(b - 1)
               PROVE  \E Q \in SUBSET Mons : IsMajority(Q) /\ \A a \in Q :
                          VotedFor(votes', a, v, c, x) \/ WontVoteIn(votes', mem', a, v, c)
  BY DEF SafeAt
<1>2. PICK Q \in SUBSET Mons : IsMajority(Q) /\ \A a \in Q :
                          VotedFor(votes, a, v, c, x) \/ WontVoteIn(votes, mem, a, v, c)
  BY DEF SafeAt
<1>3. ASSUME NEW a \in Q, WontVoteIn(votes, mem, a, v, c) PROVE WontVoteIn(votes', mem', a, v, c)
  <2>1. c < mem[a].accepted_pn /\ \A w \in votes : ~(w.mon = a /\ w.v = v /\ w.pn = c)
    BY <1>3 DEF WontVoteIn
  <2>2. mem[a].accepted_pn \in Nat /\ mem'[a].accepted_pn \in Nat /\ mem'[a].accepted_pn >= mem[a].accepted_pn
    BY DEF Kept
  <2>3. c < mem'[a].accepted_pn BY <2>1, <2>2
  <2>4. ASSUME NEW w \in votes', w.mon = a, w.v = v, w.pn = c PROVE FALSE
    <3>1. w \in votes \/ w.pn = mem[a].accepted_pn BY <2>4 DEF Kept
    <3>2. QED BY <2>1, <2>2, <2>4, <3>1
  <2>5. QED BY <2>3, <2>4 DEF WontVoteIn
<1>4. \A a \in Q : VotedFor(votes', a, v, c, x) \/ WontVoteIn(votes', mem', a, v, c)
  BY <1>2, <1>3, VotedGrows
<1>5. QED BY <1>2, <1>4
-----------------------------------------------------------------------------
\* one vote
VoteOK(vs, ms, w) ==
    w.pn > 0 /\ w.val # NoValue /\ w.pn <= ms[w.mon].accepted_pn /\ SafeAt(vs, ms, w.v, w.pn, w.val)
\* one value for each version and number
OneValue(vs) == \A w, z \in vs : w.v = z.v /\ w.pn = z.pn => w.val = z.val

\* VotesInv for one vote.
LEMMA VotesIs ==
    ASSUME VotesInv
    PROVE  (\A w \in votes : VoteOK(votes, mem, w)) /\ OneValue(votes)
BY DEF VotesInv, VoteOK, OneValue, Promise

\* VotesInv after a step, from every vote.
LEMMA VotesFrom ==
    ASSUME \A w \in votes' : VoteOK(votes', mem', w), OneValue(votes')
    PROVE  VotesInv'
BY DEF VotesInv, VoteOK, OneValue, Promise

\* The fields of a vote.
LEMMA VoteType ==
    ASSUME TypesInv, NEW w \in votes
    PROVE  w.mon \in Mons /\ w.v \in Versions /\ w.v \in Nat /\ w.pn \in Nat /\ w.val \in Values
BY Bounds DEF TypesInv

\* VotesInv after a step of m, if its new vote is right.
LEMMA VotesFrame ==
    ASSUME ProtocolInv, VotingInv, NEW m \in Mons, Kept(m),
           \A w \in votes' : w \in votes \/ (VoteOK(votes', mem', w) /\
              \A z \in votes' : z.v = w.v /\ z.pn = w.pn => z.val = w.val)
    PROVE  VotesInv'
<1>1. TypesInv BY DEF ProtocolInv
<1>2. (\A w \in votes : VoteOK(votes, mem, w)) /\ OneValue(votes) BY VotesIs DEF VotingInv
<1>3. ASSUME NEW w \in votes PROVE VoteOK(votes', mem', w)
  <2>1. w.pn > 0 /\ w.val # NoValue /\ w.pn <= mem[w.mon].accepted_pn /\ SafeAt(votes, mem, w.v, w.pn, w.val)
    BY <1>2 DEF VoteOK
  <2>2. w.mon \in Mons /\ w.pn \in Nat BY <1>1, VoteType
  <2>3. w.pn <= mem'[w.mon].accepted_pn BY <2>1, <2>2 DEF Kept
  <2>4. SafeAt(votes', mem', w.v, w.pn, w.val) BY <2>1, <2>2, SafeGrows
  <2>5. QED BY <2>1, <2>3, <2>4 DEF VoteOK
<1>4. \A w \in votes' : VoteOK(votes', mem', w) BY <1>3
<1>5. OneValue(votes') BY <1>2 DEF OneValue
<1>6. QED BY <1>4, <1>5, VotesFrom
-----------------------------------------------------------------------------
\* the store of n and the votes
StoreOK(d, vs, n) ==
    /\ \A v \in 1..d.lc : Chosen(vs, v, d.vals[v])
    /\ \A w \in vs : w.mon = n =>
        /\ w.v <= d.lc + 1
        /\ w.v = d.lc + 1 => d.vals[w.v] # NoValue /\ w.pn <= d.pending_pn
    /\ d.lc + 1 \in Versions /\ d.vals[d.lc + 1] # NoValue =>
        VotedFor(vs, n, d.lc + 1, d.pending_pn, d.vals[d.lc + 1])

\* StoreInv for one monitor.
LEMMA StoreIs ==
    ASSUME StoreInv, NEW n \in Mons
    PROVE  StoreOK(disk[n], votes, n)
BY DEF StoreInv, StoreOK, Lc

\* StoreInv after a step, from every monitor.
LEMMA StoreFrom ==
    ASSUME \A n \in Mons : StoreOK(disk'[n], votes', n)
    PROVE  StoreInv'
<1>1. SUFFICES ASSUME NEW n \in Mons
               PROVE  /\ \A v \in 1..disk'[n].lc : Chosen(votes', v, disk'[n].vals[v])
                      /\ \A w \in votes' : w.mon = n =>
                          /\ w.v <= disk'[n].lc + 1
                          /\ w.v = disk'[n].lc + 1 => disk'[n].vals[w.v] # NoValue /\ w.pn <= disk'[n].pending_pn
                      /\ disk'[n].lc + 1 \in Versions /\ disk'[n].vals[disk'[n].lc + 1] # NoValue =>
                          VotedFor(votes', n, disk'[n].lc + 1, disk'[n].pending_pn, disk'[n].vals[disk'[n].lc + 1])
  BY DEF StoreInv, Lc, Chosen, VotedFor, ChosenAt, IsMajority
<1>2. QED BY DEF StoreOK

\* StoreInv after a step of m, if its store is right.
LEMMA StoreFrame ==
    ASSUME VotingInv, NEW m \in Mons, Only(m), Kept(m), StoreOK(disk'[m], votes', m)
    PROVE  StoreInv'
<1>1. ASSUME NEW n \in Mons \ {m} PROVE StoreOK(disk'[n], votes', n)
  <2>1. StoreOK(disk[n], votes, n) BY StoreIs DEF VotingInv
  <2>2. disk'[n] = disk[n] BY DEF Only
  <2>3. \A v \in 1..disk[n].lc : Chosen(votes', v, disk[n].vals[v]) BY <2>1, ChosenGrows DEF StoreOK
  <2>4. \A w \in votes' : w.mon = n => w \in votes BY DEF Kept
  <2>5. disk[n].lc + 1 \in Versions /\ disk[n].vals[disk[n].lc + 1] # NoValue =>
        VotedFor(votes', n, disk[n].lc + 1, disk[n].pending_pn, disk[n].vals[disk[n].lc + 1])
    BY <2>1, VotedGrows DEF StoreOK
  <2>6. StoreOK(disk[n], votes', n) BY <2>1, <2>3, <2>4, <2>5 DEF StoreOK
  <2>7. QED BY <2>2, <2>6
<1>2. QED BY <1>1, StoreFrom

\* A store that stays, without a vote.
LEMMA StoreGrows ==
    ASSUME NEW m, Kept(m), votes' = votes, NEW d, NEW e, NEW n, StoreOK(d, votes, n), SameStore(d, e)
    PROVE  StoreOK(e, votes', n)
BY DEF StoreOK, SameStore

\* A store with what a message has committed, all of it chosen.
LEMMA StoreMerged ==
    ASSUME TypesInv, NEW d \in Store, NEW e, NEW t, NEW n, NEW pn, DiskOK(d, pn), StoreOK(d, votes, n),
           Merged(d, t, e),
           t.lc \in Nat, \A v \in DOMAIN t.vals : v <= t.lc => Chosen(votes, v, t.vals[v])
    PROVE  StoreOK(e, votes, n)
<1>1. d.lc \in Nat /\ e.lc \in Nat /\ d.lc \in Counts /\ e.lc \in Counts BY StoreTypes DEF Merged
<1>2. e.lc >= d.lc /\ e.pending_pn = d.pending_pn
  BY DEF Merged
<1>3. \A v \in Versions :
        /\ v <= d.lc \/ v > e.lc => e.vals[v] = d.vals[v]
        /\ d.lc < v /\ v <= e.lc => v \in DOMAIN t.vals /\ v <= t.lc /\ e.vals[v] = t.vals[v]
  BY DEF Merged
<1>4. ASSUME NEW v \in 1..e.lc PROVE Chosen(votes, v, e.vals[v])
  <2>1. v \in Versions /\ v \in Nat BY <1>1, Bounds
  <2>2. CASE v <= d.lc
    <3>1. v \in 1..d.lc BY <1>1, <2>2
    <3>2. e.vals[v] = d.vals[v] BY <1>3, <2>1, <2>2
    <3>3. QED BY <3>1, <3>2 DEF StoreOK
  <2>3. CASE d.lc < v
    <3>1. v <= e.lc BY <1>1
    <3>2. v \in DOMAIN t.vals /\ v <= t.lc /\ e.vals[v] = t.vals[v] BY <1>3, <2>1, <2>3, <3>1
    <3>3. QED BY <3>2
  <2>4. QED BY <1>1, <2>1, <2>2, <2>3
<1>5. ASSUME NEW w \in votes, w.mon = n
      PROVE  w.v <= e.lc + 1 /\ (w.v = e.lc + 1 => e.vals[w.v] # NoValue /\ w.pn <= e.pending_pn)
  <2>1. w.v <= d.lc + 1 /\ (w.v = d.lc + 1 => d.vals[w.v] # NoValue /\ w.pn <= d.pending_pn)
    BY <1>5 DEF StoreOK
  <2>2. w.v \in Nat /\ w.v \in Versions BY VoteType
  <2>3. w.v = e.lc + 1 => w.v = d.lc + 1 /\ w.v > e.lc BY <1>1, <1>2, <2>1, <2>2
  <2>4. w.v = e.lc + 1 => e.vals[w.v] = d.vals[w.v] BY <1>3, <2>2, <2>3
  <2>5. QED BY <1>1, <1>2, <2>1, <2>2, <2>3, <2>4
<1>6. ASSUME e.lc + 1 \in Versions, e.vals[e.lc + 1] # NoValue
      PROVE  VotedFor(votes, n, e.lc + 1, e.pending_pn, e.vals[e.lc + 1])
  <2>1. e.lc + 1 > e.lc BY <1>1
  <2>2. e.vals[e.lc + 1] = d.vals[e.lc + 1] BY <1>3, <1>6, <2>1
  <2>3. ~(e.lc + 1 > d.lc + 1) BY <1>6, <2>2 DEF DiskOK
  <2>4. e.lc = d.lc BY <1>1, <1>2, <2>3
  <2>5. d.lc + 1 \in Versions /\ d.vals[d.lc + 1] # NoValue BY <1>6, <2>2, <2>4
  <2>6. VotedFor(votes, n, d.lc + 1, d.pending_pn, d.vals[d.lc + 1]) BY <2>5 DEF StoreOK
  <2>7. QED BY <1>2, <2>2, <2>4, <2>6
<1>7. QED BY <1>4, <1>5, <1>6 DEF StoreOK

\* A store with the value that its monitor votes for.
LEMMA StoreAccepted ==
    ASSUME TypesInv, VotesInv, NEW m \in Mons, Kept(m), NEW d \in Store, NEW e, NEW val \in Values,
           NEW pn \in Nat, pn = mem[m].accepted_pn,
           d.lc + 1 \in Versions, val # NoValue, StoreOK(d, votes, m), e = Accepted(d, val, pn),
           votes' = votes \cup {[mon |-> m, v |-> d.lc + 1, pn |-> pn, val |-> val]}
    PROVE  StoreOK(e, votes', m)
<1>1. /\ e.lc = d.lc /\ e.pending_pn = pn
      /\ e.vals[d.lc + 1] = val /\ \A v \in Versions : v # d.lc + 1 => e.vals[v] = d.vals[v]
  BY AcceptedIs
<1>2. d.lc \in Nat /\ d.lc \in Counts BY StoreTypes
<1>3. ASSUME NEW v \in 1..e.lc PROVE Chosen(votes', v, e.vals[v])
  <2>1. v \in Versions /\ v # d.lc + 1 /\ v \in 1..d.lc BY <1>1, <1>2, Bounds
  <2>2. e.vals[v] = d.vals[v] BY <1>1, <2>1
  <2>3. Chosen(votes, v, d.vals[v]) BY <2>1 DEF StoreOK
  <2>4. QED BY <2>2, <2>3, ChosenGrows
<1>4. ASSUME NEW w \in votes', w.mon = m
      PROVE  w.v <= e.lc + 1 /\ (w.v = e.lc + 1 => e.vals[w.v] # NoValue /\ w.pn <= e.pending_pn)
  <2>1. CASE w \in votes
    <3>1. w.v <= d.lc + 1 BY <1>4, <2>1 DEF StoreOK
    <3>2. w.pn <= pn BY <1>4, <2>1, VotesIs DEF VoteOK
    <3>3. QED BY <1>1, <3>1, <3>2
  <2>2. CASE w = [mon |-> m, v |-> d.lc + 1, pn |-> pn, val |-> val]
    <3>1. w.v = d.lc + 1 /\ w.pn = pn BY <2>2
    <3>2. w.v <= e.lc + 1 /\ w.pn <= pn BY <1>1, <1>2, <3>1
    <3>3. QED BY <1>1, <3>1, <3>2
  <2>3. QED BY <2>1, <2>2
<1>5. VotedFor(votes', m, e.lc + 1, e.pending_pn, e.vals[e.lc + 1]) BY <1>1 DEF VotedFor
<1>6. QED BY <1>3, <1>4, <1>5 DEF StoreOK

\* A store with one more version committed, which was chosen.
LEMMA StoreCommitted ==
    ASSUME TypesInv, NEW m \in Mons, NEW d \in Store, NEW e, NEW pn, DiskOK(d, pn),
           d.lc + 1 \in Versions, StoreOK(d, votes, m),
           e = [d EXCEPT !.lc = @ + 1], Chosen(votes, d.lc + 1, d.vals[d.lc + 1])
    PROVE  StoreOK(e, votes, m)
<1>1. e.lc = d.lc + 1 /\ e.vals = d.vals /\ e.pending_pn = d.pending_pn BY CommittingIs
<1>2. d.lc \in Nat /\ d.lc \in Counts BY StoreTypes
<1>3. ASSUME NEW v \in 1..e.lc PROVE Chosen(votes, v, e.vals[v])
  <2>1. v \in 1..d.lc \/ v = d.lc + 1 BY <1>1, <1>2
  <2>2. QED BY <1>1, <2>1 DEF StoreOK
<1>4. ASSUME NEW w \in votes, w.mon = m PROVE w.v <= d.lc + 1 /\ w.v <= e.lc + 1 /\ w.v # e.lc + 1
  <2>1. w.v \in Nat /\ w.v <= d.lc + 1 BY <1>4, VoteType DEF StoreOK
  <2>2. QED BY <1>1, <1>2, <2>1
<1>5. ~(e.lc + 1 \in Versions /\ e.vals[e.lc + 1] # NoValue) BY <1>1, <1>2 DEF DiskOK
<1>6. QED BY <1>3, <1>4, <1>5 DEF StoreOK

\* the last x of p to l hides no vote below its number
TellsOK(vs, d, x, p, l) == \A w \in vs : w.mon = p /\ w.pn < x.pn =>
    /\ w.v <= x.lc + 1
    /\ w.v = x.lc + 1 /\ x.lc >= d[l].lc => w.pn <= x.uncommitted_pn
\* the last x of p to l
LastOK(vs, d, ms, p, l, x) ==
    /\ \A v \in DOMAIN x.vals : v <= x.lc => Chosen(vs, v, x.vals[v])
    /\ x.uncommitted_pn # 0 => VotedFor(vs, p, x.lc + 1, x.uncommitted_pn, x.vals[x.lc + 1])
    /\ x.pn <= ms[p].accepted_pn
    /\ x.pn % Stride = l => x.uncommitted_pn < x.pn /\ TellsOK(vs, d, x, p, l)
\* the accept x of p for the round of l
VotedNow(vs, d, ms, r, l, p, x) ==
    r[l] = "leader" /\ x.pn = ms[l].accepted_pn => VotedFor(vs, p, d[l].lc + 1, ms[l].accepted_pn, ms[l].new_value)
\* x on the way from l to p
MsgOK(vs, d, ms, r, l, p, x) ==
    /\ x.op = "commit" => \A v \in DOMAIN x.vals : Chosen(vs, v, x.vals[v])
    /\ x.op = "begin" => VotedFor(vs, l, x.lc + 1, x.pn, x.val)
    /\ x.op = "last" => LastOK(vs, d, ms, l, p, x)
    /\ x.op = "accept" => VotedNow(vs, d, ms, r, p, l, x)

\* MessagesInv for one message.
LEMMA MessagesIs ==
    ASSUME MessagesInv, NEW l \in Mons, NEW p \in Mons, l # p, NEW x \in Msgs(net, l, p)
    PROVE  MsgOK(votes, disk, mem, role, l, p, x)
BY DEF MessagesInv, MsgOK, LastOK, VotedNow, TellsOK, Tells, Lc, Promise, IsLeader

\* MessagesInv after a step, from every message.
LEMMA MessagesFrom ==
    ASSUME \A l, p \in Mons : l # p => \A x \in Msgs(net', l, p) : MsgOK(votes', disk', mem', role', l,
           p, x)
    PROVE  MessagesInv'
<1>1. SUFFICES ASSUME NEW l \in Mons, NEW p \in Mons, l # p
               PROVE  /\ \A x \in Msgs(net', l, p) :
                            /\ x.op = "commit" => \A v \in DOMAIN x.vals : Chosen(votes', v, x.vals[v])
                            /\ x.op = "begin" => VotedFor(votes', l, x.lc + 1, x.pn, x.val)
                      /\ \A x \in Msgs(net', p, l) :
                            /\ x.op = "last" =>
                                /\ \A v \in DOMAIN x.vals : v <= x.lc => Chosen(votes', v, x.vals[v])
                                /\ x.uncommitted_pn # 0 => VotedFor(votes', p, x.lc + 1, x.uncommitted_pn, x.vals[x.lc + 1])
                                /\ x.pn <= mem'[p].accepted_pn
                                /\ x.pn % Stride = l => x.uncommitted_pn < x.pn /\ \A w \in votes' : w.mon = p /\ w.pn < x.pn =>
                                     /\ w.v <= x.lc + 1
                                     /\ w.v = x.lc + 1 /\ x.lc >= disk'[l].lc => w.pn <= x.uncommitted_pn
                            /\ x.op = "accept" /\ role'[l] = "leader" /\ x.pn = mem'[l].accepted_pn =>
                                 VotedFor(votes', p, disk'[l].lc + 1, mem'[l].accepted_pn, mem'[l].new_value)
  BY DEF MessagesInv, Tells, Lc, Promise, IsLeader, Chosen, ChosenAt, IsMajority, VotedFor, Msgs, Elems
<1>2. QED BY <1>1 DEF MsgOK, LastOK, TellsOK, VotedNow

\* MessagesInv after a step of m, if its new messages and the accepts to m are right.
LEMMA MessagesFrame ==
    ASSUME ProtocolInv, VotingInv, TypesInv', NEW m \in Mons, Only(m), Kept(m),
           \A p \in Mons \ {m} : \A x \in Msgs(net', m, p) :
              x \in Msgs(net, m, p) \/ MsgOK(votes', disk', mem', role', m, p, x),
           \A p \in Mons \ {m} : \A y \in Msgs(net', p, m) :
              y.op = "accept" => VotedNow(votes', disk', mem', role', m, p, y)
    PROVE  MessagesInv'
<1>1. ASSUME NEW l \in Mons, NEW p \in Mons, l # p, NEW x \in Msgs(net', l, p)
      PROVE  MsgOK(votes', disk', mem', role', l, p, x)
  <2>1. CASE x \in Msgs(net, l, p)
    <3>1. MsgOK(votes, disk, mem, role, l, p, x) BY <1>1, <2>1, MessagesIs DEF VotingInv
    <3>2. x.op = "commit" => \A v \in DOMAIN x.vals : Chosen(votes', v, x.vals[v])
      BY <3>1, ChosenGrows DEF MsgOK
    <3>3. x.op = "begin" => VotedFor(votes', l, x.lc + 1, x.pn, x.val) BY <3>1, VotedGrows DEF MsgOK
    <3>4. ASSUME x.op = "last" PROVE LastOK(votes', disk', mem', l, p, x)
      <4>1. LastOK(votes, disk, mem, l, p, x) BY <3>1, <3>4 DEF MsgOK
      <4>2. \A v \in DOMAIN x.vals : v <= x.lc => Chosen(votes', v, x.vals[v])
        BY <4>1, ChosenGrows DEF LastOK
      <4>3. x.uncommitted_pn # 0 => VotedFor(votes', l, x.lc + 1, x.uncommitted_pn, x.vals[x.lc + 1])
        BY <4>1, VotedGrows DEF LastOK
      <4>4. x \in LastMsg BY <1>1, <3>4, OnTheWayNext, MessageTypes
      <4>5. x.pn \in Nat /\ x.lc \in Nat /\ x.uncommitted_pn \in Nat BY <4>4, Bounds DEF LastMsg
      <4>6. x.pn <= mem[l].accepted_pn /\ x.pn <= mem'[l].accepted_pn BY <4>1, <4>5 DEF LastOK, Kept
      <4>7. ASSUME x.pn % Stride = p PROVE x.uncommitted_pn < x.pn /\ TellsOK(votes', disk', x, l, p)
        <5>1. x.uncommitted_pn < x.pn /\ TellsOK(votes, disk, x, l, p) BY <4>1, <4>7 DEF LastOK
        <5>2. disk'[p].lc >= disk[p].lc BY OnlyGrows DEF ProtocolInv
        <5>3. disk'[p].lc \in Nat /\ disk[p].lc \in Nat
          <6>1. disk'[p] \in Store BY DEF TypesInv
          <6>2. QED BY <6>1, Unwritten, StoreTypes DEF ProtocolInv
        <5>4. ASSUME NEW w \in votes', w.mon = l, w.pn < x.pn
              PROVE  w.v <= x.lc + 1 /\ (w.v = x.lc + 1 /\ x.lc >= disk'[p].lc => w.pn <= x.uncommitted_pn)
          <6>1. w \in votes \/ w.pn = mem[l].accepted_pn BY <5>4 DEF Kept
          <6>2. mem[l].accepted_pn \in Nat BY DEF Kept
          <6>3. w \in votes BY <4>5, <4>6, <5>4, <6>1, <6>2
          <6>4. x.lc >= disk'[p].lc => x.lc >= disk[p].lc BY <4>5, <5>2, <5>3
          <6>5. QED BY <5>1, <5>4, <6>3, <6>4 DEF TellsOK
        <5>5. QED BY <5>1, <5>4 DEF TellsOK
      <4>8. QED BY <4>2, <4>3, <4>6, <4>7 DEF LastOK
    <3>5. ASSUME x.op = "accept" PROVE VotedNow(votes', disk', mem', role', p, l, x)
      <4>1. VotedNow(votes, disk, mem, role, p, l, x) BY <3>1, <3>5 DEF MsgOK
      <4>2. CASE p = m BY <1>1, <3>5, <4>2
      <4>3. CASE p # m
        <5>1. disk'[p] = disk[p] /\ mem'[p] = mem[p] /\ role'[p] = role[p] BY <4>3 DEF Only
        <5>2. QED BY <4>1, <5>1, VotedGrows DEF VotedNow
      <4>4. QED BY <4>2, <4>3
    <3>6. QED BY <3>2, <3>3, <3>4, <3>5 DEF MsgOK
  <2>2. CASE x \notin Msgs(net, l, p)
    <3>1. l = m BY <1>1, <2>2 DEF Only, Quiet
    <3>2. QED BY <1>1, <2>2, <3>1
  <2>3. QED BY <2>1, <2>2
<1>2. QED BY <1>1, MessagesFrom
-----------------------------------------------------------------------------
\* u is the highest vote, below b, of the monitors S for version v, or there is none
RecoveringOK(vs, S, b, u, v) ==
      /\ \A w \in vs : w.pn # b
      /\ \/ u.v = 0 /\ u.pn = 0
         \/ u.v = v /\ u.pn < b /\ \E w \in vs : w.v = v /\ w.pn = u.pn /\ w.val = u.val
      /\ \A w \in vs : w.mon \in S /\ w.pn < b => w.v <= v /\ (w.v = v => u.v = v /\ w.pn <= u.pn)
\* of S below b, and of all under b, no vote is beyond lc
RestedOK(vs, S, b, lc) == \A w \in vs : w.pn = b \/ (w.pn < b /\ w.mon \in S) => w.v <= lc
\* a leader that asks for its value
AskingOK(vs, S, b, v, s) ==
      /\ RestedOK(vs, S, b, v)
      /\ \A w \in vs : w.pn = b /\ w.v = v => w.val = s.new_value
      /\ \A a \in s.accepted : VotedFor(vs, a, v, b, s.new_value)
\* RoundInv for one leader
RoundOK(vs, c, d, ms, q, l) ==
      /\ \A p \in Counted(c, ms[l].accepted_pn) : ms[l].accepted_pn <= ms[p].accepted_pn
      /\ ms[l].state = "recovering" =>
            RecoveringOK(vs, Counted(c, ms[l].accepted_pn) \cup {l}, ms[l].accepted_pn, ms[l].uncommitted, d[l].lc + 1)
      /\ ms[l].state = "active" => RestedOK(vs, q[l], ms[l].accepted_pn, d[l].lc)
      /\ ms[l].state \in Asking => AskingOK(vs, q[l], ms[l].accepted_pn, d[l].lc + 1, ms[l])

\* RoundInv for one leader.
LEMMA RoundIs ==
    ASSUME RoundInv, NEW l \in Mons, role[l] = "leader"
    PROVE  RoundOK(votes, counted, disk, mem, quorum, l)
BY DEF RoundInv, RoundOK, RecoveringOK, Recovering, RestedOK, AskingOK, IsLeader, State, Lc, Promise

\* RoundInv after a step, from every leader.
LEMMA RoundFrom ==
    ASSUME \A l \in Mons : role'[l] = "leader" => RoundOK(votes', counted', disk', mem', quorum', l)
    PROVE  RoundInv'
<1>1. SUFFICES ASSUME NEW l \in Mons, role'[l] = "leader"
               PROVE  RoundOK(votes', counted', disk', mem', quorum', l)
  BY DEF RoundInv, RoundOK, RecoveringOK, Recovering, RestedOK, AskingOK, IsLeader, State, Lc, Promise,
      Counted, VotedFor
<1>2. QED BY <1>1

\* what a vote of m, new in this step, is to another leader
Answered(m, w) == \A l \in Mons \ {m} : role[l] = "leader" /\ mem[l].accepted_pn = w.pn =>
    mem[l].state \in Updating /\ w.v = disk[l].lc + 1 /\ w.val = mem[l].new_value

\* RoundInv after a step of m: the other leaders' rounds stand.
LEMMA RoundFrame ==
    ASSUME ProtocolInv, VotingInv, TypesInv', NEW m \in Mons, Only(m), Kept(m),
           \A z \in counted' : z \in counted \/ z[1] % Stride = m,
           \A w \in votes' : w \in votes \/ Answered(m, w),
           role'[m] = "leader" => RoundOK(votes', counted', disk', mem', quorum', m)
    PROVE  RoundInv'
<1>1. ASSUME NEW l \in Mons \ {m}, role'[l] = "leader" PROVE RoundOK(votes', counted', disk', mem', quorum', l)
  <2>1. disk'[l] = disk[l] /\ mem'[l] = mem[l] /\ quorum'[l] = quorum[l] /\ role[l] = "leader"
    BY <1>1 DEF Only
  <2>2. RoundOK(votes, counted, disk, mem, quorum, l) BY <2>1, RoundIs DEF VotingInv
  <2>3. PICK b : b = mem[l].accepted_pn OBVIOUS
  <2>4. b % Stride = l /\ b \in Nat BY <2>1, <2>3, LeaderNumber
  <2>5. Counted(counted', b) = Counted(counted, b)
    <3>1. \A p \in Mons : <<b, p>> \in counted' <=> <<b, p>> \in counted BY <2>4 DEF Only
    <3>2. QED BY <3>1 DEF Counted
  <2>6. \A p \in Counted(counted, b) : p \in Mons /\ b <= mem[p].accepted_pn
    BY <2>2, <2>3 DEF RoundOK, Counted
  <2>7. \A p \in Counted(counted, b) : b <= mem'[p].accepted_pn BY <2>4, <2>6 DEF Kept
  <2>8. \A w \in votes' : w \in votes \/ (w.mon = m /\ w.pn = mem[m].accepted_pn /\ Answered(m, w))
    BY DEF Kept
  <2>9. mem[m].accepted_pn \in Nat BY DEF Kept
  <2>10. ASSUME NEW w \in votes', w \notin votes
         PROVE  /\ w.mon \in Counted(counted, b) \cup {l} => ~(w.pn < b)
                /\ w.pn = b => mem[l].state \in Updating /\ w.v = disk[l].lc + 1 /\ w.val = mem[l].new_value
    BY <2>1, <2>3, <2>4, <2>6, <2>8, <2>9, <2>10 DEF Answered
  <2>11. ASSUME mem[l].state = "recovering"
         PROVE  RecoveringOK(votes', Counted(counted, b) \cup {l}, b, mem[l].uncommitted, disk[l].lc + 1)
    <3>1. RecoveringOK(votes, Counted(counted, b) \cup {l}, b, mem[l].uncommitted, disk[l].lc + 1)
      BY <2>2, <2>3, <2>11 DEF RoundOK
    <3>2. mem[l].state \notin Updating BY <2>11 DEF Updating
    <3>3. votes \subseteq votes' BY DEF Kept
    <3>4. QED BY <2>10, <3>1, <3>2, <3>3 DEF RecoveringOK
  <2>12. ASSUME mem[l].state # "recovering" PROVE Counted(counted, b) \cup {l} = quorum[l]
    <3>1. LeaderOK(role[l], quorum[l], disk[l], mem[l], counted, l) BY <2>1, LeaderNumber
    <3>2. Counted(counted, b) = quorum[l] \ {l} /\ l \in quorum[l] BY <2>1, <2>3, <2>12, <3>1 DEF LeaderOK
    <3>3. QED BY <3>2
  <2>13. ASSUME mem[l].state = "active" PROVE RestedOK(votes', quorum[l], b, disk[l].lc)
    <3>1. RestedOK(votes, quorum[l], b, disk[l].lc) BY <2>2, <2>3, <2>13 DEF RoundOK
    <3>2. mem[l].state \notin Updating /\ mem[l].state # "recovering" BY <2>13 DEF Updating
    <3>3. QED BY <2>10, <2>12, <3>1, <3>2 DEF RestedOK
  <2>14. ASSUME mem[l].state \in Asking PROVE AskingOK(votes', quorum[l], b, disk[l].lc + 1, mem[l])
    <3>1. AskingOK(votes, quorum[l], b, disk[l].lc + 1, mem[l]) BY <2>2, <2>3, <2>14 DEF RoundOK
    <3>2. mem[l].state # "recovering" BY <2>14 DEF Asking, Updating, Writing
    <3>3. disk[l].lc + 1 <= disk[l].lc + 1
      <4>1. disk[l].lc \in Nat BY <2>1, LeaderNumber, StoreTypes
      <4>2. QED BY <4>1
    <3>4. RestedOK(votes', quorum[l], b, disk[l].lc + 1)
      BY <2>10, <2>12, <3>1, <3>2, <3>3 DEF AskingOK, RestedOK
    <3>5. \A w \in votes' : w.pn = b /\ w.v = disk[l].lc + 1 => w.val = mem[l].new_value
      BY <2>10, <3>1 DEF AskingOK
    <3>6. \A a \in mem[l].accepted : VotedFor(votes', a, disk[l].lc + 1, b, mem[l].new_value)
      BY <3>1, VotedGrows DEF AskingOK
    <3>7. QED BY <3>4, <3>5, <3>6 DEF AskingOK
  <2>15. QED BY <2>1, <2>3, <2>5, <2>7, <2>11, <2>13, <2>14 DEF RoundOK
<1>2. QED BY <1>1, RoundFrom

-----------------------------------------------------------------------------
(* Every action that keeps the promises keeps VotingInv.                   *)

\* A step of m that takes no promise back.
LEMMA KeptIs ==
    ASSUME TypesInv, TypesInv', NEW m \in Mons, Only(m), PromisesKept,
           \A w \in votes' : w \in votes \/ (w.mon = m /\ w.pn = mem[m].accepted_pn)
    PROVE  Kept(m)
<1>1. ASSUME NEW n \in Mons PROVE mem[n].accepted_pn \in Nat /\ mem'[n].accepted_pn \in Nat
  <2>1. mem[n] \in Memory /\ mem'[n] \in Memory BY DEF TypesInv
  <2>2. QED BY <2>1, MemoryTypes
<1>2. QED BY <1>1 DEF Kept, Only, PromisesKept

\* A step of m without a vote.
LEMMA NoVoteFrame ==
    ASSUME ProtocolInv, VotingInv, TypesInv', NEW m \in Mons, Only(m), PromisesKept, votes' = votes
    PROVE  Kept(m) /\ VotesInv'
<1>1. Kept(m) BY KeptIs DEF ProtocolInv
<1>2. QED BY <1>1, VotesFrame

\* No accept to m counts when m does not ask.
LEMMA NotAsked ==
    ASSUME NEW m \in Mons, Only(m), role'[m] # "leader" \/ NoneAsked(m, mem'[m].accepted_pn)
    PROVE  \A p \in Mons \ {m} : \A y \in Msgs(net', p, m) :
              y.op = "accept" => VotedNow(votes', disk', mem', role', m, p, y)
<1>1. SUFFICES ASSUME NEW p \in Mons \ {m}, NEW y \in Msgs(net', p, m), y.op = "accept"
               PROVE  VotedNow(votes', disk', mem', role', m, p, y)
  OBVIOUS
<1>2. y \in Msgs(net, p, m) BY DEF Only, Quiet
<1>3. QED BY <1>1, <1>2 DEF VotedNow, NoneAsked

\* MessagesInv after a step of a monitor that does not ask.
LEMMA IdlesMessages ==
    ASSUME ProtocolInv, VotingInv, TypesInv', NEW m \in Mons, Only(m), Kept(m),
           \A p \in Mons \ {m} : \A x \in Msgs(net', m, p) :
              x \in Msgs(net, m, p) \/ MsgOK(votes', disk', mem', role', m, p, x),
           role'[m] # "leader" \/ NoneAsked(m, mem'[m].accepted_pn)
    PROVE  MessagesInv'
BY NotAsked, MessagesFrame

\* Elections keep VotingInv.
LEMMA RetireVoting ==
    ASSUME ProtocolInv, VotingInv, PromisesKept, NEW m \in Mons, NEW from \in Mons,
           StartElection(m) \/ HandleVictory(from, m) \/ DropOrBootstrap(from, m)
    PROVE  VotingInv'
<1>1. /\ TypesInv' /\ Only(m) /\ SameHistory /\ disk' = disk
      /\ \A l, p \in Mons : l # p => Quiet(l, p)
      /\ mem'[m] = Resting(mem[m].accepted_pn) /\ role'[m] # "leader"
  BY RetireStep
<1>2. Kept(m) /\ VotesInv' BY <1>1, NoVoteFrame DEF SameHistory
<1>3. StoreInv'
  <2>1. StoreOK(disk'[m], votes', m) BY <1>1, StoreIs DEF VotingInv, SameHistory
  <2>2. QED BY <1>1, <1>2, <2>1, StoreFrame
<1>4. MessagesInv'
  <2>1. \A p \in Mons \ {m} : \A x \in Msgs(net', m, p) : x \in Msgs(net, m, p) BY <1>1 DEF Quiet
  <2>2. QED BY <1>1, <1>2, <2>1, IdlesMessages
<1>5. RoundInv' BY <1>1, <1>2, RoundFrame DEF SameHistory
<1>6. QED BY <1>2, <1>3, <1>4, <1>5 DEF VotingInv

\* What a leader writes, all its quorum has accepted, so it is chosen.
LEMMA WritingChosen ==
    ASSUME ProtocolInv, VotingInv, NEW m \in Mons, mem[m].state \in Writing
    PROVE  Chosen(votes, disk[m].lc + 1, mem[m].new_value)
<1>1. role[m] = "leader" /\ disk[m].lc + 1 \in Versions /\ mem[m].accepted = quorum[m] BY WritingIs
<1>2. RoundOK(votes, counted, disk, mem, quorum, m) BY <1>1, RoundIs DEF VotingInv
<1>3. AskingOK(votes, quorum[m], mem[m].accepted_pn, disk[m].lc + 1, mem[m]) BY <1>2 DEF RoundOK, Asking
<1>4. \A a \in quorum[m] : VotedFor(votes, a, disk[m].lc + 1, mem[m].accepted_pn, mem[m].new_value)
  BY <1>1, <1>3 DEF AskingOK
<1>5. LeaderOK(role[m], quorum[m], disk[m], mem[m], counted, m) BY <1>1, LeaderNumber
<1>6. IsMajority(quorum[m]) /\ m \in quorum[m] BY <1>1, <1>5 DEF LeaderOK
<1>7. quorum[m] \in SUBSET Mons BY <1>6 DEF IsMajority
<1>8. ChosenAt(votes, disk[m].lc + 1, mem[m].accepted_pn, mem[m].new_value)
  BY <1>4, <1>6, <1>7 DEF ChosenAt
<1>9. PICK w : w = [mon |-> m, v |-> disk[m].lc + 1, pn |-> mem[m].accepted_pn, val |-> mem[m].new_value] OBVIOUS
<1>10. w \in votes /\ w.pn = mem[m].accepted_pn BY <1>4, <1>6, <1>9 DEF VotedFor
<1>11. QED BY <1>8, <1>10 DEF Chosen

\* A commit that has reached the store was chosen.
LEMMA WritingStore ==
    ASSUME ProtocolInv, VotingInv, NEW m \in Mons, mem[m].state \in Writing, NEW e,
           e = [disk[m] EXCEPT !.lc = @ + 1]
    PROVE  StoreOK(e, votes, m)
<1>1. /\ role[m] = "leader" /\ disk[m].lc + 1 \in Versions /\ disk[m].vals[disk[m].lc + 1] = mem[m].new_value
  BY WritingIs
<1>2. Chosen(votes, disk[m].lc + 1, disk[m].vals[disk[m].lc + 1]) BY <1>1, WritingChosen
<1>3. disk[m] \in Store /\ DiskOK(disk[m], mem[m].accepted_pn) /\ TypesInv BY <1>1, LeaderNumber
<1>4. StoreOK(disk[m], votes, m) BY StoreIs DEF VotingInv
<1>5. QED BY <1>1, <1>2, <1>3, <1>4, StoreCommitted

\* A crash that takes no promise back keeps VotingInv.
LEMMA CrashVoting ==
    ASSUME ProtocolInv, VotingInv, PromisesKept, NEW m \in Mons, Crash(m)
    PROVE  VotingInv'
<1>1. /\ TypesInv' /\ Only(m) /\ SameHistory
      /\ \A l, p \in Mons : l # p => Quiet(l, p)
      /\ role'[m] # "leader"
      /\ \/ disk'[m] = disk[m]
         \/ mem[m].state \in Writing /\ disk'[m] = [disk[m] EXCEPT !.lc = @ + 1]
  BY CrashStep
<1>2. Kept(m) /\ VotesInv' BY <1>1, NoVoteFrame DEF SameHistory
<1>3. StoreInv'
  <2>1. StoreOK(disk'[m], votes, m)
    <3>1. CASE disk'[m] = disk[m] BY <3>1, StoreIs DEF VotingInv
    <3>2. CASE mem[m].state \in Writing /\ disk'[m] = [disk[m] EXCEPT !.lc = @ + 1] BY <3>2, WritingStore
    <3>3. QED BY <1>1, <3>1, <3>2
  <2>2. QED BY <1>1, <1>2, <2>1, StoreFrame DEF SameHistory
<1>4. MessagesInv'
  <2>1. \A p \in Mons \ {m} : \A x \in Msgs(net', m, p) : x \in Msgs(net, m, p) BY <1>1 DEF Quiet
  <2>2. QED BY <1>1, <1>2, <2>1, IdlesMessages
<1>5. RoundInv' BY <1>1, <1>2, RoundFrame DEF SameHistory
<1>6. QED BY <1>2, <1>3, <1>4, <1>5 DEF VotingInv

\* handle_commit keeps VotingInv.
LEMMA CommitVoting ==
    ASSUME ProtocolInv, VotingInv, PromisesKept, NEW m \in Mons, NEW from \in Mons \ {m},
           handle_commit(from, m)
    PROVE  VotingInv'
<1> DEFINE t == Taken(from, m)
<1>1. /\ TypesInv' /\ Only(m) /\ SameElectionOf(m) /\ SameHistory
      /\ t \in Msgs(net, from, m) /\ t.op = "commit" /\ role[m] = "peon"
      /\ mem'[m] = mem[m] /\ disk'[m] = store_state(disk[m], t)
      /\ \A p \in Mons \ {m} : Quiet(m, p)
  BY CommitStep
<1>2. Merged(disk[m], t, disk'[m]) BY <1>1, CommitMerged
<1>3. Kept(m) /\ VotesInv' BY <1>1, NoVoteFrame DEF SameHistory
<1> HIDE DEF t
<1>4. role'[m] # "leader" BY <1>1 DEF SameElectionOf
<1>5. StoreInv'
  <2>1. MsgOK(votes, disk, mem, role, from, m, t) BY <1>1, MessagesIs DEF VotingInv
  <2>2. \A v \in DOMAIN t.vals : v <= t.lc => Chosen(votes, v, t.vals[v]) BY <1>1, <2>1 DEF MsgOK
  <2>3. t.lc \in Nat BY <1>1, CommitShape, Bounds
  <2>4. disk[m] \in Store /\ TypesInv /\ DiskOK(disk[m], mem[m].accepted_pn) /\ StoreOK(disk[m], votes, m)
    BY Unwritten, DiskIs, StoreIs DEF ProtocolInv, VotingInv
  <2>5. StoreOK(disk'[m], votes, m) BY <1>2, <2>2, <2>3, <2>4, StoreMerged
  <2>6. QED BY <1>1, <1>3, <2>5, StoreFrame DEF SameHistory
<1>6. MessagesInv'
  <2>1. \A p \in Mons \ {m} : \A x \in Msgs(net', m, p) : x \in Msgs(net, m, p) BY <1>1 DEF Quiet
  <2>2. QED BY <1>1, <1>3, <1>4, <2>1, IdlesMessages
<1>7. RoundInv' BY <1>1, <1>3, <1>4, RoundFrame DEF SameHistory
<1>8. QED BY <1>3, <1>5, <1>6, <1>7 DEF VotingInv

\* A step that counts for nothing keeps VotingInv.
LEMMA PassiveVoting ==
    ASSUME ProtocolInv, VotingInv, PromisesKept, NEW m \in Mons, TypesInv', Only(m), SameElectionOf(m),
           Passive(m)
    PROVE  VotingInv'
<1>1. /\ SameHistory /\ disk'[m] = disk[m] /\ mem'[m].accepted_pn = mem[m].accepted_pn
      /\ mem'[m].new_value = mem[m].new_value
      /\ \A p \in Mons \ {m} : Sent(m, p, Leases(m))
  BY DEF Passive
<1>2. Kept(m) /\ VotesInv' BY <1>1, NoVoteFrame DEF SameHistory
<1>3. StoreInv'
  <2>1. StoreOK(disk'[m], votes', m) BY <1>1, StoreIs DEF VotingInv, SameHistory
  <2>2. QED BY <1>2, <2>1, StoreFrame
<1>4. MessagesInv'
  <2>0. \A p \in Mons \ {m} : \A x \in Msgs(net', m, p) : x \in Msgs(net, m, p) \/ x.op = "lease"
    BY <1>1 DEF Sent, Leases
  <2>1. \A p \in Mons \ {m} : \A x \in Msgs(net', m, p) :
            x \in Msgs(net, m, p) \/ MsgOK(votes', disk', mem', role', m, p, x)
    BY <2>0 DEF MsgOK
  <2>2. ASSUME NEW p \in Mons \ {m}, NEW y \in Msgs(net', p, m), y.op = "accept"
        PROVE  VotedNow(votes', disk', mem', role', m, p, y)
    <3>1. y \in Msgs(net, p, m) BY DEF Only, Quiet
    <3>2. MsgOK(votes, disk, mem, role, p, m, y) BY <3>1, MessagesIs DEF VotingInv
    <3>3. VotedNow(votes, disk, mem, role, m, p, y) BY <2>2, <3>2 DEF MsgOK
    <3>4. QED BY <1>1, <3>3 DEF VotedNow, SameElectionOf, SameHistory
  <2>3. QED BY <1>2, <2>1, <2>2, MessagesFrame
<1>5. RoundInv'
  <2>1. ASSUME role'[m] = "leader" PROVE RoundOK(votes', counted', disk', mem', quorum', m)
    <3>1. role[m] = "leader" /\ quorum'[m] = quorum[m] BY <2>1 DEF SameElectionOf
    <3>2. mem'[m].state = mem[m].state /\ mem'[m].uncommitted = mem[m].uncommitted /\ mem'[m].accepted = mem[m].accepted
      BY <3>1 DEF Passive
    <3>3. RoundOK(votes, counted, disk, mem, quorum, m) BY <3>1, RoundIs DEF VotingInv
    <3>4. \A p \in Mons : mem'[p].accepted_pn = mem[p].accepted_pn BY <1>1 DEF Only
    <3>5. \A p \in Counted(counted, mem[m].accepted_pn) : p \in Mons BY DEF Counted
    <3>6. QED BY <1>1, <3>1, <3>2, <3>3, <3>4, <3>5 DEF RoundOK, AskingOK, SameHistory
  <2>2. QED BY <1>1, <1>2, <2>1, RoundFrame DEF SameHistory
<1>6. QED BY <1>2, <1>3, <1>4, <1>5 DEF VotingInv

\* handle_begin keeps VotingInv: the vote is its leader's, under the number promised.
LEMMA BeginVoting ==
    ASSUME ProtocolInv, VotingInv, PromisesKept, NEW m \in Mons, NEW from \in Mons \ {m},
           handle_begin(from, m)
    PROVE  VotingInv'
<1> DEFINE t == Taken(from, m)
<1>0. TypesInv' /\ Only(m) /\ SameElectionOf(m) /\ counted' = counted BY BeginStep
<1>p. CASE Passive(m) BY <1>0, <1>p, PassiveVoting
<1>v. CASE ~Passive(m)
  <2>1. /\ t \in BeginMsg /\ t \in Msgs(net, from, m) /\ t.op = "begin"
        /\ t.pn = mem[m].accepted_pn /\ t.lc = disk[m].lc /\ disk[m].lc + 1 \in Versions
        /\ disk'[m] = Accepted(disk[m], t.val, t.pn)
        /\ mem'[m].state = "updating" /\ mem'[m].accepted_pn = mem[m].accepted_pn
        /\ votes' = votes \cup {VoteOf(m, t.pn, t.val)}
        /\ Sent(m, from, {AcceptOf(m)})
        /\ \A p \in Mons \ {m, from} : Quiet(m, p)
    BY <1>v, BeginStep
  <2> HIDE DEF t
  <2>2. TypesInv /\ NumbersInv /\ LeaderInv /\ AcceptsInv /\ VotesInv BY DEF ProtocolInv, VotingInv
  <2>3. disk[m] \in Store /\ t.val \in Values /\ t.pn \in Nat BY <2>1, <2>2, Unwritten DEF BeginMsg
  <2>4. PICK w0 : w0 = [mon |-> m, v |-> disk[m].lc + 1, pn |-> t.pn, val |-> t.val] OBVIOUS
  <2>5. votes' = votes \cup {w0} /\ w0.mon = m /\ w0.v = disk[m].lc + 1 /\ w0.pn = t.pn /\ w0.val = t.val
    BY <2>1, <2>4 DEF VoteOf
  <2>6. Kept(m) BY <1>0, <2>1, <2>2, <2>5, KeptIs
  <2>7. PICK w1 : w1 = [mon |-> from, v |-> t.lc + 1, pn |-> t.pn, val |-> t.val] OBVIOUS
  <2>8. w1 \in votes /\ w1.v = w0.v /\ w1.pn = w0.pn /\ w1.val = w0.val
    <3>1. MsgOK(votes, disk, mem, role, from, m, t) BY <2>1, MessagesIs DEF VotingInv
    <3>2. VotedFor(votes, from, t.lc + 1, t.pn, t.val) BY <2>1, <3>1 DEF MsgOK
    <3>3. QED BY <2>1, <2>5, <2>7, <3>2 DEF VotedFor
  <2>9. (\A w \in votes : VoteOK(votes, mem, w)) /\ OneValue(votes) BY <2>2, VotesIs
  <2>10. w0.pn > 0 /\ w0.val # NoValue /\ SafeAt(votes, mem, w0.v, w0.pn, w0.val) BY <2>8, <2>9 DEF VoteOK
  <2>11. VotesInv'
    <3>1. SafeAt(votes', mem', w0.v, w0.pn, w0.val) BY <2>3, <2>5, <2>6, <2>10, SafeGrows
    <3>2. w0.pn <= mem'[w0.mon].accepted_pn BY <2>1, <2>3, <2>5
    <3>3. VoteOK(votes', mem', w0) BY <2>10, <3>1, <3>2 DEF VoteOK
    <3>4. \A z \in votes' : z.v = w0.v /\ z.pn = w0.pn => z.val = w0.val BY <2>5, <2>8, <2>9 DEF OneValue
    <3>5. \A w \in votes' : w \in votes \/ w = w0 BY <2>5
    <3>6. QED BY <2>6, <3>3, <3>4, <3>5, VotesFrame
  <2>12. StoreInv'
    <3>1. StoreOK(disk[m], votes, m) BY StoreIs DEF VotingInv
    <3>2. StoreOK(disk'[m], votes', m)
      <4>1. t.val # NoValue BY <2>5, <2>10
      <4>2. QED BY <2>1, <2>2, <2>3, <2>4, <2>5, <2>6, <3>1, <4>1, StoreAccepted
    <3>3. QED BY <1>0, <2>6, <3>2, StoreFrame
  <2>13. role[m] # "leader"
    <3>1. t.pn % Stride = from BY <2>1, <2>2 DEF NumbersInv
    <3>2. QED BY <2>1, <3>1, LeaderNumber
  <2>14. role'[m] # "leader" BY <1>0, <2>13 DEF SameElectionOf
  <2>15. ASSUME NEW l \in Mons \ {m}, role[l] = "leader", mem[l].accepted_pn = t.pn
         PROVE  l = from /\ mem[l].state \in Updating /\ t.lc = disk[l].lc /\ t.val = mem[l].new_value
    <3>1. t.pn % Stride = from BY <2>1, <2>2 DEF NumbersInv
    <3>2. l = from BY <2>15, <3>1, LeaderNumber
    <3>3. PeerOK(net, quorum[l], disk[l], mem[l], l, m) BY <2>2, <2>15, AcceptsIs
    <3>4. BeginOK(net, quorum[l], disk[l], mem[l], l, m, t) BY <2>1, <2>15, <3>2, <3>3 DEF PeerOK
    <3>5. QED BY <3>2, <3>4 DEF BeginOK
  <2>16. MessagesInv'
    <3>1. PICK y : y = AcceptOf(m) OBVIOUS
    <3>2. y.op = "accept" /\ y.pn = t.pn BY <2>1, <3>1 DEF AcceptOf
    <3>3. \A p \in Mons \ {m} : \A x \in Msgs(net', m, p) : x \in Msgs(net, m, p) \/ (x = y /\ p = from)
      BY <2>1, <3>1 DEF Sent, Quiet
    <3>4. VotedNow(votes', disk', mem', role', from, m, y)
      <4>1. disk'[from] = disk[from] /\ mem'[from] = mem[from] /\ role'[from] = role[from]
        BY <1>0 DEF Only
      <4>2. SUFFICES ASSUME role[from] = "leader", t.pn = mem[from].accepted_pn
                     PROVE  VotedFor(votes', m, disk[from].lc + 1, t.pn, mem[from].new_value)
        BY <3>2, <4>1 DEF VotedNow
      <4>3. t.lc = disk[from].lc /\ t.val = mem[from].new_value BY <2>15, <4>2
      <4>4. [mon |-> m, v |-> disk[from].lc + 1, pn |-> t.pn, val |-> mem[from].new_value] = w0
        BY <2>1, <2>4, <4>3
      <4>5. QED BY <2>5, <4>4 DEF VotedFor
    <3>5. MsgOK(votes', disk', mem', role', m, from, y) BY <3>2, <3>4 DEF MsgOK
    <3>6. QED BY <1>0, <2>6, <2>14, <3>3, <3>5, IdlesMessages
  <2>17. RoundInv'
    <3>1. Answered(m, w0) BY <2>1, <2>5, <2>15 DEF Answered
    <3>2. \A w \in votes' : w \in votes \/ Answered(m, w) BY <2>5, <3>1
    <3>3. QED BY <1>0, <2>6, <2>14, <3>2, RoundFrame
  <2>18. QED BY <2>11, <2>12, <2>16, <2>17 DEF VotingInv
<1>q. QED BY <1>p, <1>v

\* handle_accept keeps VotingInv.
LEMMA AcceptVoting ==
    ASSUME ProtocolInv, VotingInv, PromisesKept, NEW m \in Mons, NEW from \in Mons \ {m},
           handle_accept(from, m)
    PROVE  VotingInv'
<1> DEFINE t == Taken(from, m)
<1>0. TypesInv' /\ Only(m) /\ SameElectionOf(m) /\ SameHistory /\ disk' = disk BY AcceptStep
<1>p. CASE Passive(m) BY <1>0, <1>p, PassiveVoting
<1>v. CASE ~Passive(m)
  <2>1. /\ t \in Msgs(net, from, m) /\ t.op = "accept"
        /\ t.pn = mem[m].accepted_pn /\ mem[m].state \in Updating
        /\ mem'[m].accepted_pn = mem[m].accepted_pn
        /\ mem'[m].accepted = mem[m].accepted \cup {from} /\ mem'[m].new_value = mem[m].new_value
        /\ mem'[m].state = mem[m].state \/ mem'[m].state \in Writing
        /\ \A p \in Mons \ {m} : Quiet(m, p)
    BY <1>v, AcceptStep
  <2> HIDE DEF t
  <2>2. Kept(m) /\ VotesInv' BY <1>0, NoVoteFrame DEF SameHistory
  <2>3. StoreInv'
    <3>1. StoreOK(disk'[m], votes', m) BY <1>0, StoreIs DEF VotingInv, SameHistory
    <3>2. QED BY <1>0, <2>2, <3>1, StoreFrame
  <2>4. MessagesInv'
    <3>1. \A p \in Mons \ {m} : \A x \in Msgs(net', m, p) : x \in Msgs(net, m, p) BY <2>1 DEF Quiet
    <3>2. ASSUME NEW p \in Mons \ {m}, NEW y \in Msgs(net', p, m), y.op = "accept"
          PROVE  VotedNow(votes', disk', mem', role', m, p, y)
      <4>1. y \in Msgs(net, p, m) BY <1>0 DEF Only, Quiet
      <4>2. MsgOK(votes, disk, mem, role, p, m, y) BY <4>1, MessagesIs DEF VotingInv
      <4>3. VotedNow(votes, disk, mem, role, m, p, y) BY <3>2, <4>2 DEF MsgOK
      <4>4. QED BY <1>0, <2>1, <4>3 DEF VotedNow, SameElectionOf, SameHistory
    <3>3. QED BY <1>0, <2>2, <3>1, <3>2, MessagesFrame
  <2>5. RoundInv'
    <3>1. ASSUME role'[m] = "leader" PROVE RoundOK(votes', counted', disk', mem', quorum', m)
      <4>1. role[m] = "leader" /\ quorum'[m] = quorum[m] BY <1>0, <3>1 DEF SameElectionOf
      <4>2. RoundOK(votes, counted, disk, mem, quorum, m) BY <4>1, RoundIs DEF VotingInv
      <4>3. AskingOK(votes, quorum[m], mem[m].accepted_pn, disk[m].lc + 1, mem[m])
        BY <2>1, <4>2 DEF RoundOK, Asking
      <4>4. MsgOK(votes, disk, mem, role, from, m, t) BY <2>1, MessagesIs DEF VotingInv
      <4>5. VotedFor(votes, from, disk[m].lc + 1, mem[m].accepted_pn, mem[m].new_value)
        BY <2>1, <4>1, <4>4 DEF MsgOK, VotedNow
      <4>6. AskingOK(votes, quorum[m], mem[m].accepted_pn, disk[m].lc + 1, mem'[m])
        BY <2>1, <4>3, <4>5 DEF AskingOK
      <4>7. mem'[m].state # "recovering" /\ mem'[m].state # "active" BY <2>1 DEF Updating, Writing
      <4>8. \A p \in Mons : mem'[p].accepted_pn = mem[p].accepted_pn BY <1>0, <2>1 DEF Only
      <4>9. \A p \in Counted(counted, mem[m].accepted_pn) : p \in Mons BY DEF Counted
      <4>10. QED BY <1>0, <2>1, <4>1, <4>2, <4>6, <4>7, <4>8, <4>9 DEF RoundOK, SameHistory
    <3>2. QED BY <1>0, <2>2, <3>1, RoundFrame DEF SameHistory
  <2>6. QED BY <2>2, <2>3, <2>4, <2>5 DEF VotingInv
<1>q. QED BY <1>p, <1>v

\* handle_collect keeps VotingInv: the answer tells all votes below the new promise.
LEMMA CollectVoting ==
    ASSUME ProtocolInv, VotingInv, PromisesKept, NEW m \in Mons, NEW from \in Mons \ {m},
           handle_collect(from, m)
    PROVE  VotingInv'
<1> DEFINE t == Taken(from, m)
<1>1. /\ TypesInv' /\ Only(m) /\ SameElectionOf(m) /\ SameHistory
      /\ t \in Msgs(net, from, m) /\ t.op = "collect" /\ t \in CollectMsg /\ role[m] = "peon"
      /\ disk'[m].lc = disk[m].lc /\ disk'[m].vals = disk[m].vals
      /\ disk'[m].pending_v = disk[m].pending_v /\ disk'[m].pending_pn = disk[m].pending_pn
      /\ mem'[m].accepted_pn = IF t.pn > mem[m].accepted_pn THEN t.pn ELSE mem[m].accepted_pn
      /\ \E ans : Answer(m, t, ans) /\ ans.op = "last" /\ Sent(m, from, {ans})
      /\ \A p \in Mons \ {m, from} : Quiet(m, p)
  BY CollectStep
<1> HIDE DEF t
<1>2. PICK ans : Answer(m, t, ans) /\ ans.op = "last" /\ Sent(m, from, {ans}) BY <1>1
<1>3. Kept(m) /\ VotesInv' BY <1>1, NoVoteFrame DEF SameHistory
<1>4. role'[m] # "leader" BY <1>1 DEF SameElectionOf
<1>5. StoreOK(disk[m], votes, m) BY StoreIs DEF VotingInv
<1>6. StoreInv'
  <2>1. SameStore(disk[m], disk'[m]) BY <1>1 DEF SameStore
  <2>2. StoreOK(disk'[m], votes', m) BY <1>1, <1>3, <1>5, <2>1, StoreGrows DEF SameHistory
  <2>3. QED BY <1>1, <1>3, <2>2, StoreFrame
<1>7. MessagesInv'
  <2>1. \A p \in Mons \ {m} : \A x \in Msgs(net', m, p) : x \in Msgs(net, m, p) \/ (x = ans /\ p = from)
    BY <1>1, <1>2 DEF Sent, Quiet
  <2>2. TypesInv /\ DiskInv /\ VotesInv BY DEF ProtocolInv, VotingInv
  <2>3. /\ disk[m] \in Store /\ t.pn \in Nat /\ t.lc \in Nat /\ disk[m].lc \in Nat /\ disk[from].lc \in Nat
        /\ mem[m].accepted_pn \in Nat /\ ans \in LastMsg /\ ans.uncommitted_pn \in Nat /\ disk[m].pending_pn \in Nat
    BY <1>1, <1>2, <2>2, Unwritten, MemoryTypes, StoreTypes, Bounds DEF CollectMsg, LastMsg, Answer
  <2>4. /\ ans.lc = disk[m].lc /\ ans.pn = mem'[m].accepted_pn /\ DOMAIN ans.vals = (t.lc + 1)..Upto(ans)
        /\ \A v \in DOMAIN ans.vals : ans.vals[v] = disk[m].vals[v]
    BY <1>1, <1>2 DEF Answer
  <2>5. ASSUME NEW v \in DOMAIN ans.vals, v <= ans.lc PROVE Chosen(votes', v, ans.vals[v])
    <3>1. v \in (t.lc + 1)..Upto(ans) BY <2>4
    <3>2. v \in 1..disk[m].lc BY <2>3, <2>4, <2>5, <3>1
    <3>3. QED BY <1>1, <1>5, <2>4, <3>2 DEF StoreOK, SameHistory
  <2>6. ASSUME ans.uncommitted_pn # 0
        PROVE  /\ VotedFor(votes', m, ans.lc + 1, ans.uncommitted_pn, ans.vals[ans.lc + 1])
               /\ ans.uncommitted_pn <= mem[m].accepted_pn
    <3>1. /\ t.lc <= disk[m].lc /\ disk[m].lc + 1 \in Versions /\ disk[m].vals[disk[m].lc + 1] # NoValue
          /\ ans.uncommitted_pn = disk[m].pending_pn
      BY <1>2, <2>6 DEF Answer
    <3>2. Upto(ans) = ans.lc + 1 BY <2>6 DEF Upto
    <3>3. ans.lc + 1 \in DOMAIN ans.vals BY <2>3, <2>4, <3>1, <3>2
    <3>4. ans.vals[ans.lc + 1] = disk[m].vals[disk[m].lc + 1] BY <2>4, <3>3
    <3>5. VotedFor(votes, m, disk[m].lc + 1, disk[m].pending_pn, disk[m].vals[disk[m].lc + 1])
      BY <1>5, <3>1 DEF StoreOK
    <3>6. PICK w : w = [mon |-> m, v |-> disk[m].lc + 1, pn |-> disk[m].pending_pn, val |-> disk[m].vals[disk[m].lc + 1]]
      OBVIOUS
    <3>7. w \in votes /\ w.mon = m /\ w.pn = disk[m].pending_pn BY <3>5, <3>6 DEF VotedFor
    <3>8. disk[m].pending_pn <= mem[m].accepted_pn BY <2>2, <3>7, VotesIs DEF VoteOK
    <3>9. QED BY <1>1, <2>4, <3>1, <3>4, <3>5, <3>8 DEF SameHistory
  <2>7. ASSUME ans.pn % Stride = from PROVE ans.uncommitted_pn < ans.pn /\ TellsOK(votes', disk', ans, m, from)
    <3>1. CollectOK(disk, mem, net, counted, from, m, t) BY <1>1, CollectsIs DEF ProtocolInv
    <3>2. 0 < t.pn /\ (mem[m].accepted_pn % Stride = from => mem[m].accepted_pn < t.pn)
      BY <3>1 DEF CollectOK
    <3>3. ans.pn = t.pn /\ t.pn > mem[m].accepted_pn BY <1>1, <2>3, <2>4, <2>7, <3>2
    <3>4. ans.uncommitted_pn < ans.pn
      <4>1. CASE ans.uncommitted_pn = 0 BY <3>2, <3>3, <4>1
      <4>2. CASE ans.uncommitted_pn # 0 BY <2>3, <2>6, <3>3, <4>2
      <4>3. QED BY <4>1, <4>2
    <3>5. t.lc <= disk[from].lc
      <4>1. ShapeOK(disk, epoch, role, quorum, from, m, t) BY <1>1, ShapesIs DEF ProtocolInv
      <4>2. QED BY <1>1, <4>1 DEF ShapeOK
    <3>6. ASSUME NEW w \in votes, w.mon = m
          PROVE  w.v <= ans.lc + 1 /\ (w.v = ans.lc + 1 /\ ans.lc >= disk[from].lc => w.pn <= ans.uncommitted_pn)
      <4>1. /\ w.v <= disk[m].lc + 1
            /\ w.v = disk[m].lc + 1 => disk[m].vals[w.v] # NoValue /\ w.pn <= disk[m].pending_pn
        BY <1>5, <3>6 DEF StoreOK
      <4>2. ASSUME w.v = ans.lc + 1, ans.lc >= disk[from].lc PROVE w.pn <= ans.uncommitted_pn
        <5>1. disk[m].lc + 1 \in Versions /\ disk[m].vals[disk[m].lc + 1] # NoValue /\ w.pn <= disk[m].pending_pn
          <6>1. w.v \in Versions BY <2>2, VoteType
          <6>2. QED BY <2>4, <4>1, <4>2, <6>1
        <5>2. ~(t.lc > disk[m].lc) BY <2>3, <2>4, <3>5, <4>2
        <5>3. ans.uncommitted_pn # 0 BY <1>2, <5>1, <5>2 DEF Answer
        <5>4. ans.uncommitted_pn = disk[m].pending_pn BY <1>2, <5>3 DEF Answer
        <5>5. QED BY <5>1, <5>4
      <4>3. QED BY <2>4, <4>1, <4>2
    <3>7. disk'[from] = disk[from] BY <1>1 DEF Only
    <3>8. TellsOK(votes', disk', ans, m, from) BY <1>1, <3>6, <3>7 DEF TellsOK, SameHistory
    <3>9. QED BY <3>4, <3>8
  <2>8. ans.pn <= mem'[m].accepted_pn BY <1>1, <2>3, <2>4
  <2>9. LastOK(votes', disk', mem', m, from, ans) BY <2>5, <2>6, <2>7, <2>8 DEF LastOK
  <2>10. MsgOK(votes', disk', mem', role', m, from, ans) BY <1>2, <2>9 DEF MsgOK
  <2>11. QED BY <1>1, <1>3, <1>4, <2>1, <2>10, IdlesMessages
<1>8. RoundInv' BY <1>1, <1>3, <1>4, RoundFrame DEF SameHistory
<1>9. QED BY <1>3, <1>6, <1>7, <1>8 DEF VotingInv

\* A majority that has promised b and voted under c for nothing but x makes x safe at c.
LEMMA WontVotes ==
    ASSUME TypesInv, NEW Q, IsMajority(Q), NEW b \in Nat, NEW v, NEW c \in 0..(b - 1),
           \A a \in Q : b <= mem[a].accepted_pn,
           NEW x, \A w \in votes : w.mon \in Q /\ w.v = v /\ w.pn = c => w.val = x
    PROVE  \E R \in SUBSET Mons : IsMajority(R) /\ \A a \in R : VotedFor(votes, a, v, c, x) \/ WontVoteIn(votes, mem, a, v, c)
<1>1. Q \in SUBSET Mons BY DEF IsMajority
<1>2. ASSUME NEW a \in Q PROVE VotedFor(votes, a, v, c, x) \/ WontVoteIn(votes, mem, a, v, c)
  <2>1. mem[a].accepted_pn \in Nat BY <1>1, Unwritten, MemoryTypes
  <2>2. c < mem[a].accepted_pn BY <2>1
  <2>3. CASE \A w \in votes : ~(w.mon = a /\ w.v = v /\ w.pn = c) BY <2>2, <2>3 DEF WontVoteIn
  <2>4. CASE \E w \in votes : w.mon = a /\ w.v = v /\ w.pn = c
    <3>1. PICK w \in votes : w.mon = a /\ w.v = v /\ w.pn = c BY <2>4
    <3>2. w.val = x BY <3>1
    <3>3. w = [mon |-> a, v |-> v, pn |-> c, val |-> x] BY <3>1, <3>2 DEF TypesInv
    <3>4. QED BY <3>3 DEF VotedFor
  <2>5. QED BY <2>3, <2>4
<1>3. QED BY <1>1, <1>2

\* Propose keeps VotingInv: nobody in the quorum has voted for this version.
LEMMA ProposeVoting ==
    ASSUME ProtocolInv, VotingInv, PromisesKept, NEW m \in Mons, Propose(m)
    PROVE  VotingInv'
<1>1. /\ TypesInv' /\ Only(m) /\ SameElectionOf(m) /\ counted' = counted
      /\ role[m] = "leader" /\ mem[m].state = "active" /\ disk[m].lc + 1 \in Versions
  BY ProposeStep
<1>2. PICK val, y :
          /\ val \in Values \ {NoValue}
          /\ disk'[m] = Accepted(disk[m], val, mem[m].accepted_pn)
          /\ mem'[m].state = "updating" /\ mem'[m].accepted_pn = mem[m].accepted_pn
          /\ mem'[m].num_last = mem[m].num_last /\ mem'[m].accepted = {m}
          /\ mem'[m].new_value = val /\ mem'[m].uncommitted.v = 0
          /\ votes' = votes \cup {VoteOf(m, mem[m].accepted_pn, val)}
          /\ IsBegin(y, m, disk[m].lc, val)
          /\ \A p \in quorum[m] \ {m} : Sent(m, p, {y})
          /\ \A p \in Mons \ {m} : p \notin quorum[m] => Quiet(m, p)
  BY ProposeStep
<1>3. PICK b : b = mem[m].accepted_pn OBVIOUS
<1>4. PICK v : v = disk[m].lc + 1 OBVIOUS
<1>5. PICK w0 : w0 = [mon |-> m, v |-> v, pn |-> b, val |-> val] OBVIOUS
<1>6. votes' = votes \cup {w0} /\ w0.mon = m /\ w0.v = v /\ w0.pn = b /\ w0.val = val
  BY <1>2, <1>3, <1>4, <1>5 DEF VoteOf
<1>7. /\ b \in Nat /\ b > 0 /\ b % Stride = m /\ TypesInv /\ m \in quorum[m]
      /\ LeaderOK(role[m], quorum[m], disk[m], mem[m], counted, m) /\ disk[m] \in Store
  BY <1>1, <1>3, LeaderNumber
<1>8. disk[m].lc \in Nat BY <1>7, StoreTypes
<1>9. Kept(m) BY <1>1, <1>3, <1>6, <1>7, KeptIs
<1>10. RoundOK(votes, counted, disk, mem, quorum, m) BY <1>1, RoundIs DEF VotingInv
<1>11. RestedOK(votes, quorum[m], b, disk[m].lc) BY <1>1, <1>3, <1>10 DEF RoundOK
<1>12. \A w \in votes : w.pn = b \/ (w.pn < b /\ w.mon \in quorum[m]) => w.v # v /\ w.v <= v
  <2>1. ASSUME NEW w \in votes, w.pn = b \/ (w.pn < b /\ w.mon \in quorum[m]) PROVE w.v # v /\ w.v <= v
    <3>1. w.v <= disk[m].lc /\ w.v \in Nat BY <1>7, <1>11, <2>1, VoteType DEF RestedOK
    <3>2. QED BY <1>4, <1>8, <3>1
  <2>2. QED BY <2>1
<1>13. \A a \in quorum[m] : b <= mem[a].accepted_pn
  <2>1. mem[m].state # "recovering" BY <1>1
  <2>2. Counted(counted, b) = quorum[m] \ {m} BY <1>1, <1>3, <1>7, <2>1 DEF LeaderOK
  <2>3. \A p \in Counted(counted, b) : b <= mem[p].accepted_pn BY <1>3, <1>10 DEF RoundOK
  <2>4. QED BY <1>3, <1>7, <2>2, <2>3
<1>14. SafeAt(votes, mem, v, b, val)
  <2>1. SUFFICES ASSUME NEW c \in 0..(b - 1)
                 PROVE  \E R \in SUBSET Mons : IsMajority(R) /\ \A a \in R :
                            VotedFor(votes, a, v, c, val) \/ WontVoteIn(votes, mem, a, v, c)
    BY DEF SafeAt
  <2>2. c < b BY <1>7
  <2>3. \A w \in votes : w.mon \in quorum[m] /\ w.v = v /\ w.pn = c => w.val = val BY <1>12, <2>2
  <2>4. IsMajority(quorum[m]) BY <1>1, <1>7 DEF LeaderOK
  <2>5. QED BY <1>7, <1>13, <2>3, <2>4, WontVotes
<1>15. VotesInv'
  <2>1. SafeAt(votes', mem', v, b, val) BY <1>7, <1>9, <1>14, SafeGrows
  <2>2. b <= mem'[m].accepted_pn BY <1>2, <1>3, <1>7
  <2>3. VoteOK(votes', mem', w0) BY <1>2, <1>6, <1>7, <2>1, <2>2 DEF VoteOK
  <2>4. \A z \in votes' : z.v = w0.v /\ z.pn = w0.pn => z.val = w0.val BY <1>6, <1>12
  <2>5. \A w \in votes' : w \in votes \/ w = w0 BY <1>6
  <2>6. QED BY <1>9, <2>3, <2>4, <2>5, VotesFrame
<1>16. StoreInv'
  <2>1. StoreOK(disk[m], votes, m) /\ VotesInv BY StoreIs DEF VotingInv
  <2>2. votes' = votes \cup {[mon |-> m, v |-> disk[m].lc + 1, pn |-> b, val |-> val]} BY <1>4, <1>5, <1>6
  <2>3. disk'[m] = Accepted(disk[m], val, b) BY <1>2, <1>3
  <2>4. StoreOK(disk'[m], votes', m)
    BY <1>1, <1>2, <1>3, <1>7, <1>9, <2>1, <2>2, <2>3, StoreAccepted
  <2>5. QED BY <1>1, <1>9, <2>4, StoreFrame
<1>17. MessagesInv'
  <2>1. \A p \in Mons \ {m} : \A x \in Msgs(net', m, p) : x \in Msgs(net, m, p) \/ x = y
    BY <1>2 DEF Sent, Quiet
  <2>2. y.op = "begin" /\ y.pn = b /\ y.lc + 1 = v /\ y.val = val BY <1>2, <1>3, <1>4 DEF IsBegin
  <2>3. VotedFor(votes', m, v, b, val) BY <1>5, <1>6 DEF VotedFor
  <2>4. \A p \in Mons \ {m} : MsgOK(votes', disk', mem', role', m, p, y) BY <2>2, <2>3 DEF MsgOK
  <2>5. NoneAsked(m, mem'[m].accepted_pn)
    <3>1. mem[m].state \notin Updating BY <1>1 DEF Updating
    <3>2. QED BY <1>1, <1>2, <3>1, NoneAskedNow
  <2>6. QED BY <1>1, <1>9, <2>1, <2>4, <2>5, IdlesMessages
<1>18. RoundInv'
  <2>1. Answered(m, w0)
    <3>1. ASSUME NEW l \in Mons \ {m}, role[l] = "leader" PROVE mem[l].accepted_pn # b
      BY <1>7, <3>1, LeaderNumber
    <3>2. QED BY <1>6, <3>1 DEF Answered
  <2>2. disk'[m].lc = disk[m].lc BY <1>1, <1>2, <1>3, <1>7, AcceptedIs
  <2>3. AskingOK(votes', quorum[m], b, v, mem'[m])
    <3>0. v <= v BY <1>4, <1>8
    <3>1. RestedOK(votes', quorum[m], b, v) BY <1>6, <1>12, <3>0 DEF RestedOK
    <3>2. \A w \in votes' : w.pn = b /\ w.v = v => w.val = val BY <1>6, <1>12
    <3>3. VotedFor(votes', m, v, b, val) BY <1>5, <1>6 DEF VotedFor
    <3>4. QED BY <1>2, <3>1, <3>2, <3>3 DEF AskingOK
  <2>4. mem'[m].state \in Asking /\ mem'[m].state # "recovering" /\ mem'[m].state # "active"
    BY <1>2 DEF Asking, Updating
  <2>5. \A p \in Counted(counted, b) : b <= mem'[p].accepted_pn
    <3>1. \A p \in Mons : mem'[p].accepted_pn = mem[p].accepted_pn BY <1>1, <1>2 DEF Only
    <3>2. QED BY <1>3, <1>10, <3>1 DEF RoundOK, Counted
  <2>6. quorum'[m] = quorum[m] BY <1>1 DEF SameElectionOf
  <2>7. RoundOK(votes', counted', disk', mem', quorum', m)
    BY <1>1, <1>2, <1>3, <1>4, <2>2, <2>3, <2>4, <2>5, <2>6 DEF RoundOK
  <2>8. \A w \in votes' : w \in votes \/ Answered(m, w) BY <1>6, <2>1
  <2>9. QED BY <1>1, <1>9, <2>7, <2>8, RoundFrame
<1>19. QED BY <1>15, <1>16, <1>17, <1>18 DEF VotingInv

\* commit_finish keeps VotingInv.
LEMMA FinishVoting ==
    ASSUME ProtocolInv, VotingInv, PromisesKept, NEW m \in Mons, CommitFinish(m)
    PROVE  VotingInv'
<1>1. /\ TypesInv' /\ Only(m) /\ SameElectionOf(m) /\ SameHistory
      /\ mem[m].state \in Writing
      /\ disk'[m] = [disk[m] EXCEPT !.lc = @ + 1]
      /\ mem'[m].state = "active" /\ mem'[m].accepted_pn = mem[m].accepted_pn
      /\ \A p \in Mons \ {m} : p \notin quorum[m] => Quiet(m, p)
  BY FinishStep
<1>2. PICK x, y : /\ IsCommit(x, disk[m].lc + 1, mem[m].new_value) /\ y.op = "lease"
                  /\ \A p \in quorum[m] \ {m} : Sent(m, p, {x, y})
  BY FinishStep DEF IsLease
<1>3. Kept(m) /\ VotesInv' BY <1>1, NoVoteFrame DEF SameHistory
<1>4. role[m] = "leader" /\ disk[m].lc + 1 \in Versions BY <1>1, WritingIs
<1>5. StoreInv'
  <2>1. StoreOK(disk'[m], votes, m) BY <1>1, WritingStore
  <2>2. QED BY <1>1, <1>3, <2>1, StoreFrame DEF SameHistory
<1>6. MessagesInv'
  <2>1. \A p \in Mons \ {m} : \A z \in Msgs(net', m, p) : z \in Msgs(net, m, p) \/ z = x \/ z = y
    BY <1>1, <1>2 DEF Sent, Quiet
  <2>2. Chosen(votes, disk[m].lc + 1, mem[m].new_value) BY <1>1, WritingChosen
  <2>3. x.op = "commit" /\ \A v \in DOMAIN x.vals : Chosen(votes', v, x.vals[v])
    BY <1>1, <1>2, <2>2 DEF IsCommit, SameHistory
  <2>4. \A p \in Mons \ {m} : MsgOK(votes', disk', mem', role', m, p, x) /\ MsgOK(votes', disk', mem', role', m, p, y)
    BY <1>2, <2>3 DEF MsgOK
  <2>5. NoneAsked(m, mem'[m].accepted_pn)
    <3>1. mem[m].state \notin Updating BY <1>1 DEF Updating, Writing
    <3>2. QED BY <1>1, <1>4, <3>1, NoneAskedNow
  <2>6. QED BY <1>1, <1>3, <2>1, <2>4, <2>5, IdlesMessages
<1>7. RoundInv'
  <2>1. RoundOK(votes, counted, disk, mem, quorum, m) BY <1>4, RoundIs DEF VotingInv
  <2>2. AskingOK(votes, quorum[m], mem[m].accepted_pn, disk[m].lc + 1, mem[m])
    BY <1>1, <2>1 DEF RoundOK, Asking
  <2>3. RestedOK(votes, quorum[m], mem[m].accepted_pn, disk[m].lc + 1) BY <2>2 DEF AskingOK
  <2>4. disk'[m].lc = disk[m].lc + 1
    <3>1. disk[m] \in Store BY <1>4, LeaderNumber
    <3>2. QED BY <1>1, <1>4, <3>1, CommittingIs
  <2>5. \A p \in Mons : mem'[p].accepted_pn = mem[p].accepted_pn BY <1>1 DEF Only
  <2>6. \A p \in Counted(counted, mem[m].accepted_pn) : p \in Mons BY DEF Counted
  <2>7. quorum'[m] = quorum[m] BY <1>1 DEF SameElectionOf
  <2>8. mem'[m].state \notin Asking /\ mem'[m].state # "recovering" BY <1>1 DEF Asking, Updating, Writing
  <2>9. RoundOK(votes', counted', disk', mem', quorum', m)
    BY <1>1, <2>1, <2>3, <2>4, <2>5, <2>6, <2>7, <2>8 DEF RoundOK, SameHistory
  <2>10. QED BY <1>1, <1>3, <2>9, RoundFrame DEF SameHistory
<1>8. QED BY <1>3, <1>5, <1>6, <1>7 DEF VotingInv

\* The commits that share a store carry what was chosen.
LEMMA ShareChosen ==
    ASSUME NEW n, NEW d \in Store, StoreOK(d, votes, n), votes \subseteq votes', NEW m, Kept(m),
           NEW x \in Shares(m, d), NEW e, NEW ms, NEW r, NEW l, NEW p
    PROVE  MsgOK(votes', e, ms, r, l, p, x)
<1>1. x.op = "commit" /\ x.lc = d.lc /\ \A v \in DOMAIN x.vals : x.vals[v] = d.vals[v] BY DEF Shares
<1>2. PICK a \in Counts : DOMAIN x.vals = (a + 1)..d.lc BY DEF Shares
<1>3. a \in Nat /\ d.lc \in Nat BY Bounds, StoreTypes
<1>4. ASSUME NEW v \in DOMAIN x.vals PROVE Chosen(votes', v, x.vals[v])
  <2>1. v \in (a + 1)..d.lc BY <1>2
  <2>2. v \in 1..d.lc BY <1>3, <2>1
  <2>3. Chosen(votes, v, d.vals[v]) BY <2>2 DEF StoreOK
  <2>4. QED BY <1>1, <2>3, ChosenGrows
<1>5. QED BY <1>1, <1>4 DEF MsgOK

\* A new round keeps VotingInv: the leader knows its own votes.
LEMMA NewRoundVoting ==
    ASSUME ProtocolInv, VotingInv, PromisesKept, NEW m \in Mons, TypesInv', Only(m), SameHistory,
           NEW d \in Store,
           DiskOK(d, mem[m].accepted_pn), StoreOK(d, votes, m), d.last_pn = disk[m].last_pn, NewRound(m,
           d),
           NEW y, y.op = "collect",
           NEW O, \A x \in O : x = y \/ x.op = "victory" \/ x \in Shares(m, d),
           \A p \in quorum'[m] \ {m} : Sent(m, p, O),
           \A p \in Mons \ {m} : p \notin quorum'[m] => Quiet(m, p)
    PROVE  VotingInv'
<1>1. Kept(m) /\ VotesInv' BY NoVoteFrame DEF SameHistory
<1>2. PICK b : b = mem'[m].accepted_pn OBVIOUS
<1>3. TypesInv /\ NumbersInv /\ VotesInv BY DEF ProtocolInv, VotingInv
<1>4. /\ mem[m].accepted_pn \in Nat /\ b \in Nat /\ disk[m].last_pn \in Nat /\ d.lc \in Nat
  BY <1>1, <1>2, <1>3, Unwritten, StoreTypes DEF Kept
<1>5. /\ mem'[m].state = "recovering"
      /\ b > mem[m].accepted_pn /\ b > disk[m].last_pn /\ b % Stride = m
      /\ mem'[m].uncommitted = Uncommitted(d, mem[m].accepted_pn)
      /\ disk'[m] = [d EXCEPT !.last_pn = b]
  BY <1>2 DEF NewRound
<1>6. SameStore(d, disk'[m]) /\ disk'[m].lc = d.lc
  <2>1. PICK e : e = [d EXCEPT !.last_pn = b] OBVIOUS
  <2>2. /\ e.lc = d.lc /\ e.vals = d.vals
        /\ e.pending_v = d.pending_v /\ e.pending_pn = d.pending_pn
    BY <1>4, <1>5, <2>1, RoundStore
  <2>3. disk'[m] = e BY <1>5, <2>1, Zenon
  <2>4. QED BY <2>2, <2>3 DEF SameStore
<1>7. StoreInv'
  <2>1. StoreOK(disk'[m], votes', m) BY <1>1, <1>6, StoreGrows DEF SameHistory
  <2>2. QED BY <1>1, <2>1, StoreFrame
<1>8. MessagesInv'
  <2>1. \A p \in Mons \ {m} : \A x \in Msgs(net', m, p) : x \in Msgs(net, m, p) \/ x \in O
    BY SentOut
  <2>2. \A p \in Mons \ {m} : \A x \in O : MsgOK(votes', disk', mem', role', m, p, x)
    <3>1. \A p, x : x.op \in {"collect", "victory"} => MsgOK(votes', disk', mem', role', m, p, x)
      BY DEF MsgOK
    <3>2. votes \subseteq votes' BY DEF SameHistory
    <3>3. \A p : \A x \in Shares(m, d) : MsgOK(votes', disk', mem', role', m, p, x)
      BY <1>1, <3>2, ShareChosen
    <3>4. QED BY <3>1, <3>3
  <2>3. NoneAsked(m, mem'[m].accepted_pn) BY <1>2, <1>4, <1>5, NoneAskedYet
  <2>4. QED BY <1>1, <2>1, <2>2, <2>3, IdlesMessages
<1>9. RoundInv'
  <2>1. Counted(counted, b) = {} BY <1>3, <1>4, <1>5, NoneCounted
  <2>2. PICK u : u = Uncommitted(d, mem[m].accepted_pn) OBVIOUS
  <2>3. \A w \in votes : w.mon \in Mons /\ w.v \in Nat /\ w.v \in Versions /\ w.pn \in Nat
    BY <1>3, VoteType
  <2>4. ASSUME NEW w \in votes PROVE w.pn # b
    <3>1. Issued(disk, w.pn) BY <1>3 DEF NumbersInv
    <3>2. w.pn % Stride = m => w.pn <= disk[m].last_pn BY <1>3, <2>3, <3>1, IssuedBound
    <3>3. QED BY <1>4, <1>5, <3>2
  <2>5. d.lc + 1 \in Versions /\ d.vals[d.lc + 1] # NoValue => d.pending_v = d.lc + 1 BY DEF DiskOK
  <2>6. \/ u.v = 0 /\ u.pn = 0 /\ ~(d.lc + 1 \in Versions /\ d.vals[d.lc + 1] # NoValue)
        \/ /\ u.v = d.lc + 1 /\ d.lc + 1 \in Versions /\ d.vals[d.lc + 1] # NoValue
           /\ u.val = d.vals[d.lc + 1] /\ u.pn = d.pending_pn
    BY <1>4, <2>2, <2>5, UncommittedIs
  <2>7. \/ u.v = 0 /\ u.pn = 0
        \/ u.v = d.lc + 1 /\ u.pn < b /\ \E w \in votes : w.v = d.lc + 1 /\ w.pn = u.pn /\ w.val = u.val
    <3>1. SUFFICES ASSUME u.v = d.lc + 1, d.lc + 1 \in Versions, d.vals[d.lc + 1] # NoValue,
                          u.val = d.vals[d.lc + 1], u.pn = d.pending_pn
                   PROVE  u.pn < b /\ \E w \in votes : w.v = d.lc + 1 /\ w.pn = u.pn /\ w.val = u.val
      BY <2>6
    <3>2. PICK w : w = [mon |-> m, v |-> d.lc + 1, pn |-> d.pending_pn, val |-> d.vals[d.lc + 1]] OBVIOUS
    <3>3. w \in votes /\ w.mon = m /\ w.v = d.lc + 1 /\ w.pn = u.pn /\ w.val = u.val
      BY <3>1, <3>2 DEF StoreOK, VotedFor
    <3>4. w.pn <= mem[m].accepted_pn BY <1>3, <3>3, VotesIs DEF VoteOK
    <3>5. QED BY <1>4, <1>5, <2>3, <3>3, <3>4
  <2>8. ASSUME NEW w \in votes, w.mon = m PROVE w.v <= d.lc + 1 /\ (w.v = d.lc + 1 => u.v = d.lc + 1 /\ w.pn <= u.pn)
    <3>1. /\ w.v <= d.lc + 1
          /\ w.v = d.lc + 1 => d.vals[w.v] # NoValue /\ w.pn <= d.pending_pn
      BY <2>8 DEF StoreOK
    <3>2. QED BY <2>3, <2>6, <3>1
  <2>9. RecoveringOK(votes, {} \cup {m}, b, u, d.lc + 1) BY <2>4, <2>7, <2>8 DEF RecoveringOK
  <2>10. mem'[m].state \notin Asking /\ mem'[m].state # "active" BY <1>5 DEF Asking, Updating, Writing
  <2>11. RoundOK(votes', counted', disk', mem', quorum', m)
    <3>1. counted' = counted /\ votes' = votes BY DEF SameHistory
    <3>2. RecoveringOK(votes', Counted(counted', b) \cup {m}, b, mem'[m].uncommitted, disk'[m].lc + 1)
      BY <1>5, <1>6, <2>1, <2>2, <2>9, <3>1
    <3>3. \A p \in Counted(counted', b) : b <= mem'[p].accepted_pn BY <2>1, <3>1
    <3>4. QED BY <1>2, <2>10, <3>2, <3>3 DEF RoundOK
  <2>12. QED BY <1>1, <2>11, RoundFrame DEF SameHistory
<1>10. QED BY <1>1, <1>7, <1>8, <1>9 DEF VotingInv

\* win_election keeps VotingInv.
LEMMA VictoryVoting ==
    ASSUME ProtocolInv, VotingInv, PromisesKept, NEW m \in Mons, NEW Q \in SUBSET Mons,
           DeclareVictory(m, Q)
    PROVE  VotingInv'
<1>1. /\ TypesInv' /\ Only(m) /\ SameHistory
      /\ quorum'[m] = Q
      /\ NewRound(m, disk[m])
      /\ \A p \in Mons \ {m} : p \notin Q => Quiet(m, p)
  BY VictoryStep
<1>2. PICK x, y : /\ x.op = "victory" /\ IsCollect(y, m, epoch'[m], disk[m].lc)
                  /\ \A p \in Q \ {m} : Sent(m, p, {x, y})
  BY VictoryStep
<1>3. PICK O : O = {x, y} OBVIOUS
<1>4. \A p \in quorum'[m] \ {m} : Sent(m, p, O) BY <1>1, <1>2, <1>3
<1>5. \A z \in O : z = y \/ z.op = "victory" \/ z \in Shares(m, disk[m]) BY <1>2, <1>3
<1>6. disk[m] \in Store /\ DiskOK(disk[m], mem[m].accepted_pn) /\ StoreOK(disk[m], votes, m)
  BY Unwritten, DiskIs, StoreIs DEF ProtocolInv, VotingInv
<1>8. \A p \in Mons \ {m} : p \notin quorum'[m] => Quiet(m, p) BY <1>1
<1>9. y.op = "collect" BY <1>2 DEF IsCollect
<1>10. QED BY <1>1, <1>4, <1>5, <1>6, <1>8, <1>9, NewRoundVoting

-----------------------------------------------------------------------------
(* The value that a leader takes over.                                     *)

\* A leader that learns of commits drops what it had learned for a version now committed.
LEMMA RecoveringMerged ==
    ASSUME TypesInv, NEW S, NEW b \in Nat, NEW u \in Uncommitteds, NEW lc \in Nat, NEW d \in Store,
           d.lc >= lc,
           RecoveringOK(votes, S, b, u, lc + 1), NEW k, k = Unforgotten(u, d)
    PROVE  RecoveringOK(votes, S, b, k, d.lc + 1)
<1>1. u.v \in Nat /\ u.pn \in Nat /\ d.lc \in Nat BY Bounds, StoreTypes DEF Uncommitteds
<1>2. (u.v <= d.lc /\ k.v = 0 /\ k.pn = 0) \/ (u.v > d.lc /\ k = u) BY <1>1 DEF Unforgotten
<1>3. (u.v = 0 /\ u.pn = 0) \/ (u.v = lc + 1 /\ u.pn < b /\ \E w \in votes : w.v = lc + 1 /\ w.pn = u.pn /\ w.val = u.val)
  BY DEF RecoveringOK
<1>4. \/ k.v = 0 /\ k.pn = 0
      \/ k.v = d.lc + 1 /\ k.pn < b /\ \E w \in votes : w.v = d.lc + 1 /\ w.pn = k.pn /\ w.val = k.val
  <2>1. CASE u.v <= d.lc /\ k.v = 0 /\ k.pn = 0 BY <2>1
  <2>2. CASE u.v > d.lc /\ k = u
    <3>1. u.v = lc + 1 /\ d.lc = lc BY <1>1, <1>3, <2>2
    <3>2. QED BY <1>1, <1>3, <2>2, <3>1
  <2>3. QED BY <1>2, <2>1, <2>2
<1>5. ASSUME NEW w \in votes, w.mon \in S, w.pn < b
      PROVE  w.v <= d.lc + 1 /\ (w.v = d.lc + 1 => k.v = d.lc + 1 /\ w.pn <= k.pn)
  <2>1. w.v <= lc + 1 /\ (w.v = lc + 1 => u.v = lc + 1 /\ w.pn <= u.pn) BY <1>5 DEF RecoveringOK
  <2>2. w.v \in Nat BY VoteType
  <2>3. w.v <= d.lc + 1 BY <1>1, <2>1, <2>2
  <2>4. ASSUME w.v = d.lc + 1 PROVE k.v = d.lc + 1 /\ w.pn <= k.pn
    <3>1. d.lc = lc BY <1>1, <2>1, <2>2, <2>4
    <3>2. u.v = d.lc + 1 /\ w.pn <= u.pn BY <2>1, <2>4, <3>1
    <3>3. k = u BY <1>1, <1>2, <3>2
    <3>4. QED BY <3>2, <3>3
  <2>5. QED BY <2>3, <2>4
<1>6. \A w \in votes : w.pn # b BY DEF RecoveringOK
<1>7. QED BY <1>4, <1>5, <1>6 DEF RecoveringOK

\* A leader that counts an answer knows the highest vote of one monitor more.
LEMMA RecoveringLearned ==
    ASSUME TypesInv, VotesInv, NEW S, NEW b \in Nat, NEW k \in Uncommitteds, NEW d \in Store,
           NEW t \in LastMsg, NEW lc \in Nat,
           d.lc >= lc, d.lc >= t.lc, RecoveringOK(votes, S, b, k, d.lc + 1), NEW u, u = Learned(k, d, t),
           NEW from, t.pn = b, t.uncommitted_pn < b,
           \A w \in votes : w.mon = from /\ w.pn < t.pn =>
               w.v <= t.lc + 1 /\ (w.v = t.lc + 1 /\ t.lc >= lc => w.pn <= t.uncommitted_pn),
           t.uncommitted_pn # 0 => VotedFor(votes, from, t.lc + 1, t.uncommitted_pn, t.vals[t.lc + 1])
    PROVE  RecoveringOK(votes, S \cup {from}, b, u, d.lc + 1)
<1>1. k.v \in Nat /\ k.pn \in Nat /\ d.lc \in Nat /\ t.lc \in Nat /\ t.uncommitted_pn \in Nat
  BY Bounds, StoreTypes DEF Uncommitteds, LastMsg
<1>2. \/ k.v = 0 /\ k.pn = 0
      \/ k.v = d.lc + 1 /\ k.pn < b /\ \E w \in votes : w.v = d.lc + 1 /\ w.pn = k.pn /\ w.val = k.val
  BY DEF RecoveringOK
<1>3. \A w \in votes : w.pn # b BY DEF RecoveringOK
<1>4. \A w \in votes : w.mon \in S /\ w.pn < b => w.v <= d.lc + 1 /\ (w.v = d.lc + 1 => k.v = d.lc + 1 /\ w.pn <= k.pn)
  BY DEF RecoveringOK
<1>5. \A w \in votes : w.v \in Nat /\ w.pn \in Nat /\ w.pn > 0 BY VoteType, VotesIs DEF VoteOK
<1>6. \A w \in votes : w.mon = from /\ w.pn < b =>
          w.v <= d.lc + 1 /\ (w.v = d.lc + 1 => t.lc = d.lc /\ w.pn <= t.uncommitted_pn)
  <2>1. SUFFICES ASSUME NEW w \in votes, w.mon = from, w.pn < b
                 PROVE  w.v <= d.lc + 1 /\ (w.v = d.lc + 1 => t.lc = d.lc /\ w.pn <= t.uncommitted_pn)
    OBVIOUS
  <2>2. w.v <= t.lc + 1 /\ (w.v = t.lc + 1 /\ t.lc >= lc => w.pn <= t.uncommitted_pn) BY <2>1
  <2>3. w.v <= d.lc + 1 BY <1>1, <1>5, <2>2
  <2>4. w.v = d.lc + 1 => t.lc = d.lc BY <1>1, <1>5, <2>2
  <2>5. t.lc = d.lc => t.lc >= lc OBVIOUS
  <2>6. QED BY <2>2, <2>3, <2>4, <2>5
<1>7. CASE t.uncommitted_pn # 0 /\ t.uncommitted_pn >= k.pn /\ t.lc >= d.lc /\ t.lc + 1 >= k.v
  <2>1. u.v = t.lc + 1 /\ u.pn = t.uncommitted_pn /\ u.val = t.vals[t.lc + 1] BY <1>7 DEF Learned
  <2>2. t.lc = d.lc BY <1>1, <1>7
  <2>3. PICK w0 : w0 = [mon |-> from, v |-> t.lc + 1, pn |-> t.uncommitted_pn, val |-> t.vals[t.lc + 1]] OBVIOUS
  <2>4. w0 \in votes /\ w0.v = d.lc + 1 /\ w0.pn = u.pn /\ w0.val = u.val
    BY <1>7, <2>1, <2>2, <2>3 DEF VotedFor
  <2>5. u.v = d.lc + 1 /\ u.pn < b BY <2>1, <2>2
  <2>6. \A w \in votes : w.mon \in S \cup {from} /\ w.pn < b => w.v <= d.lc + 1 /\ (w.v = d.lc + 1 => w.pn <= u.pn)
    BY <1>1, <1>4, <1>5, <1>6, <1>7, <2>1
  <2>7. QED BY <1>3, <2>4, <2>5, <2>6 DEF RecoveringOK
<1>8. CASE ~(t.uncommitted_pn # 0 /\ t.uncommitted_pn >= k.pn /\ t.lc >= d.lc /\ t.lc + 1 >= k.v)
  <2>1. u = k BY <1>8 DEF Learned
  <2>2. ASSUME NEW w \in votes, w.mon = from, w.pn < b, w.v = d.lc + 1 PROVE k.v = d.lc + 1 /\ w.pn <= k.pn
    <3>1. t.lc = d.lc /\ w.pn <= t.uncommitted_pn /\ w.pn \in Nat /\ w.pn > 0 BY <1>5, <1>6, <2>2
    <3>2. t.uncommitted_pn # 0 /\ t.lc >= d.lc BY <1>1, <3>1
    <3>3. t.lc + 1 >= k.v BY <1>1, <1>2, <3>1
    <3>4. t.uncommitted_pn < k.pn BY <1>1, <1>8, <3>2, <3>3
    <3>5. k.pn # 0 BY <1>1, <3>4
    <3>6. QED BY <1>1, <1>2, <3>1, <3>4, <3>5
  <2>3. \A w \in votes : w.mon \in S \cup {from} /\ w.pn < b => w.v <= d.lc + 1 /\ (w.v = d.lc + 1 => k.v = d.lc + 1 /\ w.pn <= k.pn)
    BY <1>4, <1>6, <2>2
  <2>4. QED BY <1>2, <1>3, <2>1, <2>3 DEF RecoveringOK
<1>9. QED BY <1>7, <1>8

\* The value a leader has learned is safe to propose again: the argument of Paxos, by
\* induction on the numbers between the vote learned and the round.
LEMMA LearnedSafe ==
    ASSUME TypesInv, VotesInv, NEW Q, IsMajority(Q), NEW b \in Nat, NEW v, NEW u \in Uncommitteds,
           u.v = v, v # 0,
           RecoveringOK(votes, Q, b, u, v), \A a \in Q : b <= mem[a].accepted_pn
    PROVE  SafeAt(votes, mem, v, b, u.val)
<1>1. u.pn \in Nat /\ u.pn < b BY DEF Uncommitteds, RecoveringOK
<1>2. PICK w1 \in votes : w1.v = v /\ w1.pn = u.pn /\ w1.val = u.val BY DEF RecoveringOK
<1>3. (\A w \in votes : VoteOK(votes, mem, w)) /\ OneValue(votes) BY VotesIs
<1>4. SafeAt(votes, mem, v, u.pn, u.val) BY <1>2, <1>3 DEF VoteOK
<1>5. SUFFICES ASSUME NEW c \in 0..(b - 1)
               PROVE  \E R \in SUBSET Mons : IsMajority(R) /\ \A a \in R :
                            VotedFor(votes, a, v, c, u.val) \/ WontVoteIn(votes, mem, a, v, c)
  BY DEF SafeAt
<1>6. CASE c < u.pn
  <2>1. c \in 0..(u.pn - 1) BY <1>1, <1>6
  <2>2. QED BY <1>4, <2>1 DEF SafeAt
<1>7. CASE c >= u.pn
  <2>1. ASSUME NEW w \in votes, w.mon \in Q, w.v = v, w.pn = c PROVE w.val = u.val
    <3>1. w.pn < b BY <2>1
    <3>2. w.pn <= u.pn BY <2>1, <3>1 DEF RecoveringOK
    <3>3. w.pn = u.pn BY <1>1, <1>7, <2>1, <3>2
    <3>4. QED BY <1>2, <1>3, <2>1, <3>3 DEF OneValue
  <2>2. QED BY <2>1, WontVotes
<1>8. QED BY <1>1, <1>6, <1>7

\* What handle_last adds to the store and to the round of the leader.
LEMMA LastTells ==
    ASSUME ProtocolInv, VotingInv, NEW m \in Mons, NEW from \in Mons \ {m}, role[m] = "leader",
           NEW t \in Msgs(net, from, m), t.op = "last", t.epoch = epoch[m],
           NEW d, Merged(disk[m], t, d), d.lc >= t.lc, NEW k, k = Unforgotten(mem[m].uncommitted, d),
           NEW u, u = Learned(k, d, t),
           NEW b, b = mem[m].accepted_pn, NEW S, S = Counted(counted, b) \cup {m}
    PROVE  /\ StoreOK(d, votes, m)
           /\ RecoveringOK(votes, S, b, k, d.lc + 1)
           /\ t.pn = b => RecoveringOK(votes, S \cup {from}, b, u, d.lc + 1) /\ b <= mem[from].accepted_pn
<1>1. /\ b \in Nat /\ b % Stride = m /\ TypesInv /\ disk[m] \in Store /\ mem[m] \in Memory
      /\ DiskOK(disk[m], b)
  BY LeaderNumber
<1>2. VotesInv /\ StoreOK(disk[m], votes, m) BY StoreIs DEF VotingInv
<1>3. t \in LastMsg BY <1>1, OnTheWay, MessageTypes
<1>4. t.lc \in Nat /\ t.pn \in Nat /\ disk[m].lc \in Nat /\ d \in Store /\ d.lc >= disk[m].lc
  BY <1>1, <1>3, StoreTypes, Bounds DEF LastMsg, Merged
<1>5. MsgOK(votes, disk, mem, role, from, m, t) BY MessagesIs DEF VotingInv
<1>6. LastOK(votes, disk, mem, from, m, t) BY <1>5 DEF MsgOK
<1>7. StoreOK(d, votes, m)
  <2>1. \A v \in DOMAIN t.vals : v <= t.lc => Chosen(votes, v, t.vals[v]) BY <1>6 DEF LastOK
  <2>2. QED BY <1>1, <1>2, <1>4, <2>1, StoreMerged
<1>8. mem[m].state = "recovering" BY LastIsNew
<1>9. RoundOK(votes, counted, disk, mem, quorum, m) BY RoundIs DEF VotingInv
<1>10. RecoveringOK(votes, S, b, mem[m].uncommitted, disk[m].lc + 1) BY <1>8, <1>9 DEF RoundOK
<1>11. mem[m].uncommitted \in Uncommitteds BY <1>1, MemoryTypes DEF Uncommitteds
<1>12. RecoveringOK(votes, S, b, k, d.lc + 1) BY <1>1, <1>4, <1>10, <1>11, RecoveringMerged
<1>13. k \in Uncommitteds
  <2>1. 0 \in Counts /\ NoValue \in Values BY Bounds
  <2>2. QED BY <1>11, <2>1 DEF Unforgotten, Uncommitteds
<1>14. ASSUME t.pn = b PROVE RecoveringOK(votes, S \cup {from}, b, u, d.lc + 1) /\ b <= mem[from].accepted_pn
  <2>1. t.pn <= mem[from].accepted_pn /\ t.uncommitted_pn < t.pn /\ TellsOK(votes, disk, t, from, m)
    BY <1>1, <1>6, <1>14 DEF LastOK
  <2>2. \A w \in votes : w.mon = from /\ w.pn < t.pn =>
               w.v <= t.lc + 1 /\ (w.v = t.lc + 1 /\ t.lc >= disk[m].lc => w.pn <= t.uncommitted_pn)
    BY <2>1 DEF TellsOK
  <2>3. t.uncommitted_pn # 0 => VotedFor(votes, from, t.lc + 1, t.uncommitted_pn, t.vals[t.lc + 1])
    BY <1>6 DEF LastOK
  <2>4. t.uncommitted_pn < b BY <1>14, <2>1
  <2>5. RecoveringOK(votes, S \cup {from}, b, u, d.lc + 1)
    BY <1>1, <1>2, <1>3, <1>4, <1>12, <1>13, <1>14, <2>2, <2>3, <2>4, RecoveringLearned
  <2>6. QED BY <1>14, <2>1, <2>5
<1>15. QED BY <1>7, <1>12, <1>14

\* handle_last keeps VotingInv.
LEMMA LastVoting ==
    ASSUME ProtocolInv, VotingInv, PromisesKept, NEW m \in Mons, NEW from \in Mons \ {m},
           handle_last(from, m)
    PROVE  VotingInv'
<1> DEFINE t == Taken(from, m)
<1>1. /\ TypesInv' /\ Only(m) /\ SameElectionOf(m)
      /\ t \in Msgs(net, from, m) /\ t.op = "last" /\ role[m] = "leader" /\ t.epoch = epoch[m]
      /\ \A p \in Mons \ {m} : p \notin quorum[m] => Quiet(m, p)
  BY LastStep
<1>2. PICK d, u :
         /\ Merged(disk[m], t, d) /\ d.lc >= t.lc
         /\ u \in Uncommitteds /\ (u.v # 0 => u.val # NoValue)
         /\ u = Learned(Unforgotten(mem[m].uncommitted, d), d, t)
         /\ \/ LastAgain(m, t, d) \/ LastMore(from, m, t, d, u) \/ LastBegin(from, m, t, d, u)
            \/ LastActive(from, m, t, d, u) \/ LastStale(m, t, d)
  BY LastStep
<1> HIDE DEF t
<1>3. PICK k : k = Unforgotten(mem[m].uncommitted, d) OBVIOUS
<1>4. PICK b : b = mem[m].accepted_pn OBVIOUS
<1>5. PICK S : S = Counted(counted, b) \cup {m} OBVIOUS
<1>6. u = Learned(k, d, t) BY <1>2, <1>3
<1>7. /\ StoreOK(d, votes, m)
      /\ RecoveringOK(votes, S, b, k, d.lc + 1)
      /\ t.pn = b => RecoveringOK(votes, S \cup {from}, b, u, d.lc + 1) /\ b <= mem[from].accepted_pn
  BY <1>1, <1>2, <1>3, <1>4, <1>5, <1>6, LastTells
<1>8. /\ b \in Nat /\ b > 0 /\ b % Stride = m /\ TypesInv /\ m \in quorum[m]
      /\ LeaderOK(role[m], quorum[m], disk[m], mem[m], counted, m) /\ disk[m] \in Store
      /\ DiskOK(disk[m], b)
  BY <1>1, <1>4, LeaderNumber
<1>9. DiskOK(d, b) /\ d \in Store /\ d.last_pn = disk[m].last_pn /\ d.lc \in Nat
  BY <1>2, <1>8, DiskMerged, StoreTypes DEF Merged
<1>10. mem[m].state = "recovering" /\ from \in quorum[m] /\ from \notin Counted(counted, mem[m].accepted_pn)
  BY <1>1, LastIsNew
<1>11. NoneAsked(m, b)
  <2>1. mem[m].state \notin Updating BY <1>10 DEF Updating
  <2>2. QED BY <1>1, <1>4, <2>1, NoneAskedNow
<1>12. quorum'[m] = quorum[m] /\ role'[m] = "leader" BY <1>1 DEF SameElectionOf
<1>13. RoundOK(votes, counted, disk, mem, quorum, m) BY <1>1, RoundIs DEF VotingInv
<1>14. \A p \in Counted(counted, b) : p \in Mons /\ b <= mem[p].accepted_pn
  BY <1>4, <1>13 DEF RoundOK, Counted
<1>15. ASSUME counted' = counted \cup {<<b, from>>}
       PROVE  Counted(counted', b) \cup {m} = S \cup {from} /\ \A z \in counted' : z \in counted \/ z[1] % Stride = m
  <2>1. \A p \in Mons : <<b, p>> \in counted' <=> <<b, p>> \in counted \/ p = from BY <1>15
  <2>2. Counted(counted', b) = Counted(counted, b) \cup {from} BY <2>1 DEF Counted
  <2>3. Counted(counted', b) \cup {m} = S \cup {from} BY <1>5, <2>2
  <2>4. \A z \in counted' : z \in counted \/ z = <<b, from>> BY <1>15
  <2>5. \A z \in counted' : z \in counted \/ z[1] % Stride = m BY <1>8, <2>4
  <2>6. QED BY <2>3, <2>5
<1>a. CASE LastAgain(m, t, d)
  <2>1. SameHistory /\ NewRound(m, d) BY <1>a DEF LastAgain
  <2>2. PICK y : IsCollect(y, m, epoch[m], d.lc) /\ Told(m, Shares(m, d) \cup {y}) BY <1>a DEF LastAgain
  <2>3. PICK O : O = Shares(m, d) \cup {y} OBVIOUS
  <2>4. \A x \in O : x = y \/ x.op = "victory" \/ x \in Shares(m, d) BY <2>3
  <2>6. \A p \in quorum'[m] \ {m} : Sent(m, p, O) BY <1>12, <2>2, <2>3 DEF Told
  <2>7. \A p \in Mons \ {m} : p \notin quorum'[m] => Quiet(m, p) BY <1>1, <1>12
  <2>9. y.op = "collect" BY <2>2 DEF IsCollect
  <2>10. DiskOK(d, mem[m].accepted_pn) BY <1>4, <1>9
  <2>11. QED BY <1>1, <1>7, <1>9, <2>1, <2>4, <2>6, <2>7, <2>9, <2>10, NewRoundVoting
<1>b. CASE LastMore(from, m, t, d, u) \/ LastActive(from, m, t, d, u) \/ LastStale(m, t, d)
  <2>1. disk'[m] = d /\ mem'[m].accepted_pn = b /\ votes' = votes
    BY <1>b, <1>4 DEF LastMore, LastActive, LastStale, SameRound, SameHistory
  <2>2. Kept(m) /\ VotesInv' BY <1>1, <2>1, NoVoteFrame
  <2>3. StoreInv'
    <3>1. StoreOK(disk'[m], votes', m) BY <1>7, <2>1
    <3>2. QED BY <1>1, <2>2, <3>1, StoreFrame
  <2>4. MessagesInv'
    <3>1. PICK y : y.op = "lease" /\ Told(m, Shares(m, d) \cup {y})
      <4>1. CASE LastActive(from, m, t, d, u) BY <4>1 DEF LastActive, IsLease
      <4>2. CASE ~LastActive(from, m, t, d, u)
        <5>1. Told(m, Shares(m, d)) BY <1>b, <4>2 DEF LastMore, LastStale
        <5>2. PICK y : y = Lease(m, d) OBVIOUS
        <5>3. y.op = "lease" BY <5>2 DEF Lease
        <5>4. Told(m, Shares(m, d) \cup {y}) BY <5>1 DEF Told, Sent
        <5>5. QED BY <5>3, <5>4
      <4>3. QED BY <4>1, <4>2
    <3>2. PICK O : O = Shares(m, d) \cup {y} OBVIOUS
    <3>3. \A p \in quorum[m] \ {m} : Sent(m, p, O) BY <3>1, <3>2 DEF Told
    <3>4. \A p \in Mons \ {m} : \A x \in Msgs(net', m, p) : x \in Msgs(net, m, p) \/ x \in O
      BY <1>1, <3>3, SentOut
    <3>5. \A p \in Mons \ {m} : \A x \in O : MsgOK(votes', disk', mem', role', m, p, x)
      <4>1. \A p, x : x.op = "lease" => MsgOK(votes', disk', mem', role', m, p, x) BY DEF MsgOK
      <4>2. votes \subseteq votes' BY <2>1
      <4>3. \A p : \A x \in Shares(m, d) : MsgOK(votes', disk', mem', role', m, p, x)
        BY <1>7, <1>9, <2>2, <4>2, ShareChosen
      <4>4. QED BY <3>1, <3>2, <4>1, <4>3
    <3>6. NoneAsked(m, mem'[m].accepted_pn) BY <1>11, <2>1
    <3>7. QED BY <1>1, <2>2, <3>4, <3>5, <3>6, IdlesMessages
  <2>5. \A p \in Mons : mem'[p].accepted_pn = mem[p].accepted_pn BY <1>1, <1>4, <2>1 DEF Only
  <2>6. CASE LastStale(m, t, d)
    <3>1. counted' = counted /\ mem'[m].state = "recovering" /\ mem'[m].uncommitted = k
      BY <1>3, <1>10, <2>6 DEF LastStale, SameHistory, SameRound
    <3>2. RecoveringOK(votes', Counted(counted', b) \cup {m}, b, mem'[m].uncommitted, disk'[m].lc + 1)
      BY <1>5, <1>7, <2>1, <3>1
    <3>3. \A p \in Counted(counted', b) : b <= mem'[p].accepted_pn BY <1>14, <2>5, <3>1
    <3>4. mem'[m].state \notin Asking /\ mem'[m].state # "active" BY <3>1 DEF Asking, Updating, Writing
    <3>5. RoundOK(votes', counted', disk', mem', quorum', m) BY <2>1, <3>2, <3>3, <3>4 DEF RoundOK
    <3>6. RoundInv' BY <1>1, <2>1, <2>2, <3>1, <3>5, RoundFrame
    <3>7. QED BY <2>2, <2>3, <2>4, <3>6 DEF VotingInv
  <2>7. CASE LastMore(from, m, t, d, u) \/ LastActive(from, m, t, d, u)
    <3>1. t.pn = b /\ counted' = counted \cup {<<b, from>>}
      BY <1>4, <2>7 DEF LastMore, LastActive, CountsAnswer
    <3>2. RecoveringOK(votes', Counted(counted', b) \cup {m}, b, u, d.lc + 1) BY <1>7, <1>15, <2>1, <3>1
    <3>3. \A p \in Counted(counted', b) : b <= mem'[p].accepted_pn
      <4>1. \A p \in Counted(counted', b) : p \in Counted(counted, b) \/ p = from
        <5>1. m \notin Counted(counted', b) \/ m \in Counted(counted, b) BY <3>1 DEF Counted
        <5>2. QED BY <1>5, <1>15, <3>1, <5>1
      <4>2. QED BY <1>7, <1>14, <2>5, <3>1, <4>1
    <3>4. RoundOK(votes', counted', disk', mem', quorum', m)
      <4>1. CASE LastMore(from, m, t, d, u)
        <5>1. mem'[m].state = "recovering" /\ mem'[m].uncommitted = u
          BY <1>10, <4>1 DEF LastMore, SameRound
        <5>2. mem'[m].state \notin Asking /\ mem'[m].state # "active"
          BY <5>1 DEF Asking, Updating, Writing
        <5>3. QED BY <2>1, <3>2, <3>3, <5>1, <5>2 DEF RoundOK
      <4>2. CASE LastActive(from, m, t, d, u)
        <5>1. /\ mem'[m].state = "active" /\ u.v # d.lc + 1 /\ mem[m].num_last + 1 = Cardinality(quorum[m])
              /\ mem'[m].num_last = mem[m].num_last + 1 /\ mem'[m].uncommitted.v = 0
          BY <4>2 DEF LastActive
        <5>2. mem'[m].state \notin Asking /\ mem'[m].state # "recovering"
          BY <5>1 DEF Asking, Updating, Writing
        <5>3. LeaderOK("leader", quorum[m], disk'[m], mem'[m], counted', m)
          BY <1>1, <1>4, <1>9, <1>10, <2>1, <3>1, <5>1, <5>2, LeaderCounts
        <5>4. Counted(counted', b) \cup {m} = quorum[m] BY <1>8, <2>1, <5>2, <5>3 DEF LeaderOK
        <5>5. RecoveringOK(votes', quorum[m], b, u, d.lc + 1) BY <3>2, <5>4
        <5>6. RestedOK(votes', quorum[m], b, d.lc)
          <6>1. SUFFICES ASSUME NEW w \in votes, w.pn = b \/ (w.pn < b /\ w.mon \in quorum[m])
                         PROVE  w.v <= d.lc
            BY <2>1 DEF RestedOK
          <6>2. w.v <= d.lc + 1 /\ w.v # d.lc + 1 BY <2>1, <5>1, <5>5, <6>1 DEF RecoveringOK
          <6>3. w.v \in Nat BY <1>8, VoteType
          <6>4. QED BY <1>9, <6>2, <6>3
        <5>7. QED BY <1>12, <2>1, <3>3, <5>1, <5>2, <5>6 DEF RoundOK
      <4>3. QED BY <2>7, <4>1, <4>2
    <3>5. \A z \in counted' : z \in counted \/ z[1] % Stride = m BY <1>15, <3>1
    <3>6. RoundInv' BY <1>1, <2>1, <2>2, <3>4, <3>5, RoundFrame
    <3>7. QED BY <2>2, <2>3, <2>4, <3>6 DEF VotingInv
  <2>8. QED BY <1>b, <2>6, <2>7
<1>c. CASE LastBegin(from, m, t, d, u)
  <2>1. /\ t.pn = b /\ mem[m].num_last + 1 = Cardinality(quorum[m])
        /\ u.v = d.lc + 1 /\ d.lc + 1 \in Versions
        /\ disk'[m] = Accepted(d, u.val, b)
        /\ mem'[m].state = "updating_previous" /\ mem'[m].accepted_pn = b
        /\ mem'[m].num_last = mem[m].num_last + 1 /\ mem'[m].accepted = {m} /\ mem'[m].new_value = u.val
        /\ mem'[m].uncommitted.v = 0
        /\ counted' = counted \cup {<<b, from>>}
        /\ votes' = votes \cup {[mon |-> m, v |-> d.lc + 1, pn |-> b, val |-> u.val]}
    BY <1>c, <1>4 DEF LastBegin, CountsAnswer
  <2>2. PICK y : IsBegin(y, m, d.lc, u.val) /\ Told(m, Shares(m, d) \cup {y}) BY <1>c DEF LastBegin
  <2>3. PICK O : O = Shares(m, d) \cup {y} OBVIOUS
  <2>4. PICK v : v = d.lc + 1 OBVIOUS
  <2>5. PICK w0 : w0 = [mon |-> m, v |-> v, pn |-> b, val |-> u.val] OBVIOUS
  <2>6. votes' = votes \cup {w0} /\ w0.mon = m /\ w0.v = v /\ w0.pn = b /\ w0.val = u.val
    BY <2>1, <2>4, <2>5
  <2>7. u.val \in Values /\ u.val # NoValue /\ v # 0
    <3>1. u.val \in Values BY <1>2 DEF Uncommitteds
    <3>2. u.v # 0 /\ v # 0 BY <1>9, <2>1, <2>4
    <3>3. QED BY <1>2, <3>1, <3>2
  <2>8. PICK e : e = Accepted(d, u.val, b) OBVIOUS
  <2>9. e.lc = d.lc /\ e.last_pn = d.last_pn BY <1>8, <1>9, <2>1, <2>7, <2>8, AcceptedIs
  <2>10. disk'[m] = e BY <2>1, <2>8
  <2>11. Kept(m) BY <1>1, <1>4, <1>8, <2>6, KeptIs
  <2>12. mem'[m].state \in Asking /\ mem'[m].state # "recovering" /\ mem'[m].state # "active"
    BY <2>1 DEF Asking, Updating
  <2>13. Counted(counted', b) \cup {m} = quorum[m]
    <3>1. disk'[m].last_pn = disk[m].last_pn BY <1>9, <2>9, <2>10
    <3>2. LeaderOK("leader", quorum[m], disk'[m], mem'[m], counted', m)
      BY <1>1, <1>4, <1>10, <2>1, <2>12, <3>1, LeaderCounts
    <3>3. Counted(counted', mem'[m].accepted_pn) = quorum[m] \ {m} BY <2>12, <3>2 DEF LeaderOK
    <3>4. mem'[m].accepted_pn = b BY <2>1
    <3>5. QED BY <1>8, <3>3, <3>4
  <2>14. S \cup {from} = quorum[m] BY <1>15, <2>1, <2>13
  <2>15. RecoveringOK(votes, quorum[m], b, u, v) BY <1>7, <2>1, <2>4, <2>14
  <2>16. \A a \in quorum[m] : b <= mem[a].accepted_pn
    <3>1. \A a \in quorum[m] : a \in Counted(counted, b) \/ a = m \/ a = from BY <1>5, <2>14
    <3>2. QED BY <1>4, <1>7, <1>8, <1>14, <2>1, <3>1
  <2>17. SafeAt(votes, mem, v, b, u.val)
    <3>1. IsMajority(quorum[m]) BY <1>1, <1>8 DEF LeaderOK
    <3>2. VotesInv BY DEF VotingInv
    <3>3. QED BY <1>2, <1>8, <2>1, <2>4, <2>7, <2>15, <2>16, <3>1, <3>2, LearnedSafe
  <2>18. \A w \in votes : w.pn # b BY <2>15 DEF RecoveringOK
  <2>19. VotesInv'
    <3>1. SafeAt(votes', mem', v, b, u.val) BY <1>8, <2>11, <2>17, SafeGrows
    <3>2. b <= mem'[m].accepted_pn BY <1>8, <2>1
    <3>3. VoteOK(votes', mem', w0) BY <1>8, <2>6, <2>7, <3>1, <3>2 DEF VoteOK
    <3>4. \A z \in votes' : z.v = w0.v /\ z.pn = w0.pn => z.val = w0.val BY <2>6, <2>18
    <3>5. \A w \in votes' : w \in votes \/ w = w0 BY <2>6
    <3>6. QED BY <2>11, <3>3, <3>4, <3>5, VotesFrame
  <2>20. StoreInv'
    <3>1. VotesInv BY DEF VotingInv
    <3>2. StoreOK(disk'[m], votes', m)
      BY <1>4, <1>7, <1>8, <1>9, <2>1, <2>7, <2>11, <3>1, StoreAccepted
    <3>3. QED BY <1>1, <2>11, <3>2, StoreFrame
  <2>21. VotedFor(votes', m, v, b, u.val) BY <2>5, <2>6 DEF VotedFor
  <2>22. MessagesInv'
    <3>1. \A p \in quorum[m] \ {m} : Sent(m, p, O) BY <2>2, <2>3 DEF Told
    <3>2. \A p \in Mons \ {m} : \A x \in Msgs(net', m, p) : x \in Msgs(net, m, p) \/ x \in O
      BY <1>1, <3>1, SentOut
    <3>3. y.op = "begin" /\ y.pn = b /\ y.lc + 1 = v /\ y.val = u.val BY <1>4, <2>2, <2>4 DEF IsBegin
    <3>4. \A p : MsgOK(votes', disk', mem', role', m, p, y) BY <2>21, <3>3 DEF MsgOK
    <3>5. votes \subseteq votes' BY <2>6
    <3>6. \A p : \A x \in Shares(m, d) : MsgOK(votes', disk', mem', role', m, p, x)
      BY <1>7, <1>9, <2>11, <3>5, ShareChosen
    <3>7. NoneAsked(m, mem'[m].accepted_pn) BY <1>11, <2>1
    <3>8. \A p \in Mons \ {m} : \A x \in Msgs(net', m, p) :
            x \in Msgs(net, m, p) \/ MsgOK(votes', disk', mem', role', m, p, x)
      BY <2>3, <3>2, <3>4, <3>6
    <3>9. QED BY <1>1, <2>11, <3>7, <3>8, IdlesMessages
  <2>23. RoundInv'
    <3>1. Answered(m, w0)
      <4>1. ASSUME NEW l \in Mons \ {m}, role[l] = "leader" PROVE mem[l].accepted_pn # b
        BY <1>8, <4>1, LeaderNumber
      <4>2. QED BY <2>6, <4>1 DEF Answered
    <3>2. AskingOK(votes', quorum[m], b, v, mem'[m])
      <4>0. v <= v BY <1>9, <2>4
      <4>1. \A w \in votes : w.mon \in quorum[m] /\ w.pn < b => w.v <= v BY <2>15 DEF RecoveringOK
      <4>2. RestedOK(votes', quorum[m], b, v) BY <2>6, <2>18, <4>0, <4>1 DEF RestedOK
      <4>3. \A w \in votes' : w.pn = b /\ w.v = v => w.val = u.val BY <2>6, <2>18
      <4>4. QED BY <2>1, <2>21, <4>2, <4>3 DEF AskingOK
    <3>3. \A p \in Mons : mem'[p].accepted_pn = mem[p].accepted_pn BY <1>1, <1>4, <2>1 DEF Only
    <3>4. \A p \in Counted(counted', b) : b <= mem'[p].accepted_pn
      <4>1. \A p \in Counted(counted', b) : p \in Mons /\ p \in quorum[m] BY <2>13 DEF Counted
      <4>2. QED BY <2>16, <3>3, <4>1
    <3>5. disk'[m].lc + 1 = v BY <2>4, <2>9, <2>10
    <3>6. RoundOK(votes', counted', disk', mem', quorum', m)
      BY <1>12, <2>1, <2>12, <3>2, <3>4, <3>5 DEF RoundOK
    <3>7. \A w \in votes' : w \in votes \/ Answered(m, w) BY <2>6, <3>1
    <3>8. \A z \in counted' : z \in counted \/ z[1] % Stride = m BY <1>15, <2>1
    <3>9. QED BY <1>1, <2>11, <3>6, <3>7, <3>8, RoundFrame
  <2>24. QED BY <2>19, <2>20, <2>22, <2>23 DEF VotingInv
<1>d. QED BY <1>2, <1>a, <1>b, <1>c

-----------------------------------------------------------------------------
(* The theorems about votes.                                               *)

\* The monitors start with VotingInv.
LEMMA InitVoting ==
    ASSUME Init
    PROVE  VotingInv
<1>1. \A m \in Mons : mem[m] = Resting(0) /\ disk[m] = BlankDisk /\ role[m] = "electing"
  BY DEF Init, ElectionInit
<1>2. BlankDisk.lc = 0 /\ \A v \in Versions : BlankDisk.vals[v] = NoValue BY DEF BlankDisk
<1>3. \A l, p \in Mons : l # p => Msgs(net, l, p) = {}
  <2>1. SUFFICES ASSUME NEW l \in Mons, NEW p \in Mons, l # p PROVE Msgs(net, l, p) = {}
    OBVIOUS
  <2>2. net[<<l, p>>] = <<>> BY <2>1 DEF Init, Channels
  <2>3. Elems(<<>>) = {} BY ShortSequences
  <2>4. QED BY <2>2, <2>3 DEF Msgs
<1>4. votes = {} BY DEF Init
<1>5. VotesInv BY <1>4 DEF VotesInv
<1>6. StoreInv BY <1>1, <1>2, <1>4 DEF StoreInv, Lc
<1>7. MessagesInv BY <1>3 DEF MessagesInv
<1>8. RoundInv BY <1>1 DEF RoundInv, IsLeader
<1>9. QED BY <1>5, <1>6, <1>7, <1>8 DEF VotingInv

\* Every step that takes no promise back keeps VotingInv.
LEMMA NextVoting ==
    ASSUME ProtocolInv, VotingInv, PromisesKept, Next
    PROVE  VotingInv'
<1>1. ASSUME NEW m \in Mons, StartElection(m) PROVE VotingInv' BY <1>1, RetireVoting
<1>2. ASSUME NEW m \in Mons, Crash(m) PROVE VotingInv' BY <1>2, CrashVoting
<1>3. ASSUME NEW m \in Mons, Propose(m) PROVE VotingInv' BY <1>3, ProposeVoting
<1>4. ASSUME NEW m \in Mons, CommitFinish(m) PROVE VotingInv' BY <1>4, FinishVoting
<1>5. ASSUME NEW m \in Mons, lease_renew_timeout(m) PROVE VotingInv' BY <1>5, RenewStep, PassiveVoting
<1>6. ASSUME NEW m \in Mons, NEW Q \in SUBSET Mons, DeclareVictory(m, Q) PROVE VotingInv'
  BY <1>6, VictoryVoting
<1>7. ASSUME NEW m \in Mons, NEW from \in Mons \ {m}, HandleVictory(from, m) \/ DropOrBootstrap(from, m) PROVE VotingInv'
  BY <1>7, RetireVoting
<1>8. ASSUME NEW m \in Mons, NEW from \in Mons \ {m}, handle_collect(from, m) PROVE VotingInv'
  BY <1>8, CollectVoting
<1>9. ASSUME NEW m \in Mons, NEW from \in Mons \ {m}, handle_last(from, m) PROVE VotingInv'
  BY <1>9, LastVoting
<1>10. ASSUME NEW m \in Mons, NEW from \in Mons \ {m}, handle_begin(from, m) PROVE VotingInv'
  BY <1>10, BeginVoting
<1>11. ASSUME NEW m \in Mons, NEW from \in Mons \ {m}, handle_accept(from, m) PROVE VotingInv'
  BY <1>11, AcceptVoting
<1>12. ASSUME NEW m \in Mons, NEW from \in Mons \ {m}, handle_commit(from, m) PROVE VotingInv'
  BY <1>12, CommitVoting
<1>13. ASSUME NEW m \in Mons, NEW from \in Mons \ {m}, handle_lease(from, m) PROVE VotingInv'
  BY <1>13, LeaseStep, PassiveVoting
<1>14. QED BY <1>1, <1>2, <1>3, <1>4, <1>5, <1>6, <1>7, <1>8, <1>9, <1>10, <1>11, <1>12, <1>13 DEF Next

\* VotingInv is about the variables of MonPaxos.
LEMMA StutterVoting ==
    ASSUME VotingInv, UNCHANGED vars
    PROVE  VotingInv'
<1>1. /\ role' = role /\ quorum' = quorum /\ disk' = disk /\ mem' = mem
      /\ net' = net /\ votes' = votes /\ counted' = counted
  BY DEF vars, electionVars, paxosVars, paxosHistory
<1>2. VotesInv' BY <1>1 DEF VotingInv, VotesInv, Promise
<1>3. StoreInv' BY <1>1 DEF VotingInv, StoreInv, Lc
<1>4. MessagesInv' BY <1>1 DEF VotingInv, MessagesInv, Tells, Lc, Promise, IsLeader
<1>5. RoundInv' BY <1>1 DEF VotingInv, RoundInv, Recovering, Lc, Promise, State, IsLeader
<1>6. QED BY <1>2, <1>3, <1>4, <1>5 DEF VotingInv

\* As long as no restart takes back a promise, every value that a monitor stores under
\* a number is safe at that number, and whatever is committed, sent as committed or
\* taken over by a leader was voted for accordingly (begin, handle_begin, handle_last).
THEOREM PaxosVoting == Spec /\ [][PromisesKept]_vars => []VotingInv
<1>1. Init => VotingInv BY InitVoting
<1>2. ProtocolInv /\ VotingInv /\ [Next]_vars /\ [PromisesKept]_vars => VotingInv'
  BY NextVoting, StutterVoting
<1>3. QED BY <1>1, <1>2, PaxosProtocol, PTL DEF Spec
-----------------------------------------------------------------------------

\* Two majorities of the monmap have a monitor in common.
LEMMA MajoritiesMeet ==
    ASSUME NEW P, NEW Q, IsMajority(P), IsMajority(Q)
    PROVE  P \cap Q # {}
<1>1. IsFiniteSet(Mons) /\ Mons \subseteq Nat
  BY ElectionConstants
<1>2. P \subseteq Mons /\ Q \subseteq Mons /\ P \cup Q \subseteq Mons
  BY DEF IsMajority
<1>3. IsFiniteSet(P) /\ IsFiniteSet(Q)
  BY <1>1, <1>2, FS_Subset
<1>4. /\ Cardinality(P) \in Nat /\ Cardinality(Q) \in Nat /\ Cardinality(Mons) \in Nat
      /\ Cardinality(P \cup Q) <= Cardinality(Mons)
  BY <1>1, <1>2, <1>3, FS_CardinalityType, FS_Subset
<1>5. /\ Cardinality(P \cup Q) = Cardinality(P) + Cardinality(Q) - Cardinality(P \cap Q)
      /\ Cardinality(P \cap Q) \in Nat
  BY <1>3, FS_Union, FS_Intersection, FS_CardinalityType
<1>6. Cardinality(P \cap Q) > 0
  BY <1>4, <1>5 DEF IsMajority
<1> QED
  BY <1>6, FS_EmptySet

\* Of a chosen value and a later vote for its version, the vote is for the value.
LEMMA ChosenSafe ==
    ASSUME TypesInv, VotesInv, NEW v, NEW b \in Nat, NEW x, ChosenAt(votes, v, b, x),
           NEW w \in votes, w.v = v, w.pn >= b
    PROVE  w.val = x
<1>1. PICK Q \in SUBSET Mons : IsMajority(Q) /\ \A a \in Q : VotedFor(votes, a, v, b, x) BY DEF ChosenAt
<1>2. (\A z \in votes : VoteOK(votes, mem, z)) /\ OneValue(votes) BY VotesIs
<1>3. w.pn \in Nat BY VoteType
<1>4. CASE w.pn = b
  <2>1. Q \cap Q # {} BY <1>1, MajoritiesMeet
  <2>2. PICK a \in Q : VotedFor(votes, a, v, b, x) BY <1>1, <2>1
  <2>3. PICK z : z = [mon |-> a, v |-> v, pn |-> b, val |-> x] OBVIOUS
  <2>4. z \in votes /\ z.v = v /\ z.pn = b /\ z.val = x BY <2>2, <2>3 DEF VotedFor
  <2>5. QED BY <1>2, <1>4, <2>4 DEF OneValue
<1>5. CASE w.pn > b
  <2>1. SafeAt(votes, mem, v, w.pn, w.val) BY <1>2 DEF VoteOK
  <2>2. b \in 0..(w.pn - 1) BY <1>3, <1>5
  <2>3. PICK R \in SUBSET Mons : IsMajority(R) /\ \A a \in R :
             VotedFor(votes, a, v, b, w.val) \/ WontVoteIn(votes, mem, a, v, b)
    BY <2>1, <2>2 DEF SafeAt
  <2>4. Q \cap R # {} BY <1>1, <2>3, MajoritiesMeet
  <2>5. PICK a \in Q : a \in R BY <2>4
  <2>6. PICK z : z = [mon |-> a, v |-> v, pn |-> b, val |-> x] OBVIOUS
  <2>7. z \in votes /\ z.mon = a /\ z.v = v /\ z.pn = b /\ z.val = x BY <1>1, <2>5, <2>6 DEF VotedFor
  <2>8. VotedFor(votes, a, v, b, w.val) BY <2>3, <2>5, <2>7 DEF WontVoteIn
  <2>9. PICK y : y = [mon |-> a, v |-> v, pn |-> b, val |-> w.val] OBVIOUS
  <2>10. y \in votes /\ y.v = v /\ y.pn = b /\ y.val = w.val BY <2>8, <2>9 DEF VotedFor
  <2>11. QED BY <1>2, <2>7, <2>10 DEF OneValue
<1>6. QED BY <1>3, <1>4, <1>5

\* Two chosen values of a version are the same.
LEMMA ChosenOnce ==
    ASSUME TypesInv, VotesInv, NEW v, NEW x, NEW y, Chosen(votes, v, x), Chosen(votes, v, y)
    PROVE  x = y
<1>1. ASSUME NEW b \in Nat, NEW c \in Nat, b <= c, NEW s, NEW t, ChosenAt(votes, v, b, s), ChosenAt(votes, v, c, t)
      PROVE  s = t
  <2>1. PICK Q \in SUBSET Mons : IsMajority(Q) /\ \A a \in Q : VotedFor(votes, a, v, c, t)
    BY <1>1 DEF ChosenAt
  <2>2. Q \cap Q # {} BY <2>1, MajoritiesMeet
  <2>3. PICK a \in Q : VotedFor(votes, a, v, c, t) BY <2>1, <2>2
  <2>4. PICK z : z = [mon |-> a, v |-> v, pn |-> c, val |-> t] OBVIOUS
  <2>5. z \in votes /\ z.v = v /\ z.pn = c /\ z.val = t BY <2>3, <2>4 DEF VotedFor
  <2>6. z.pn >= b BY <1>1, <2>5
  <2>7. z.val = s BY <1>1, <2>5, <2>6, ChosenSafe
  <2>8. QED BY <2>5, <2>7
<1>2. PICK w \in votes : ChosenAt(votes, v, w.pn, x) BY DEF Chosen
<1>3. PICK z \in votes : ChosenAt(votes, v, z.pn, y) BY DEF Chosen
<1>4. w.pn \in Nat /\ z.pn \in Nat BY VoteType
<1>5. CASE w.pn <= z.pn BY <1>1, <1>2, <1>3, <1>4, <1>5
<1>6. CASE z.pn <= w.pn BY <1>1, <1>2, <1>3, <1>4, <1>6
<1>7. QED BY <1>4, <1>5, <1>6

\* What two stores have committed for a version was chosen, so it is the same.
LEMMA AgreementHolds ==
    ASSUME ProtocolInv, VotingInv
    PROVE  Agreement
<1>1. TypesInv /\ VotesInv BY DEF ProtocolInv, VotingInv
<1>2. SUFFICES ASSUME NEW m \in Mons, NEW n \in Mons, NEW v \in 1..Min({disk[m].lc, disk[n].lc})
               PROVE  disk[m].vals[v] = disk[n].vals[v]
  BY DEF Agreement
<1>3. disk[m].lc \in Nat /\ disk[n].lc \in Nat BY <1>1, Unwritten, StoreTypes
<1>4. PICK k : k = Min({disk[m].lc, disk[n].lc}) OBVIOUS
<1>5. k <= disk[m].lc /\ k <= disk[n].lc /\ k \in Nat
  <2>1. \E x \in {disk[m].lc, disk[n].lc} : \A y \in {disk[m].lc, disk[n].lc} : x <= y BY <1>3
  <2>2. k \in {disk[m].lc, disk[n].lc} /\ \A y \in {disk[m].lc, disk[n].lc} : k <= y BY <1>4, <2>1 DEF Min
  <2>3. QED BY <1>3, <2>2
<1>6. v \in 1..disk[m].lc /\ v \in 1..disk[n].lc BY <1>3, <1>4, <1>5
<1>7. Chosen(votes, v, disk[m].vals[v]) /\ Chosen(votes, v, disk[n].vals[v])
  BY <1>6, StoreIs DEF StoreOK, VotingInv
<1>8. QED BY <1>1, <1>7, ChosenOnce

\* More monitors than a majority are a majority.
LEMMA MajorityGrows ==
    ASSUME NEW Q, IsMajority(Q), NEW R, Q \subseteq R, R \subseteq Mons
    PROVE  IsMajority(R)
<1>1. IsFiniteSet(Mons) BY ElectionConstants
<1>2. IsFiniteSet(R) /\ IsFiniteSet(Q) BY <1>1, FS_Subset
<1>3. Cardinality(Q) \in Nat /\ Cardinality(R) \in Nat /\ Cardinality(Mons) \in Nat /\ Cardinality(Q) <= Cardinality(R)
  BY <1>1, <1>2, FS_CardinalityType, FS_Subset
<1>4. QED BY <1>3 DEF IsMajority

\* Whoever has voted for a chosen value stores it.
LEMMA MajorityHolds ==
    ASSUME ProtocolInv, VotingInv
    PROVE  CommittedOnMajority
<1>1. TypesInv /\ VotesInv BY DEF ProtocolInv, VotingInv
<1>2. SUFFICES ASSUME NEW m \in Mons, NEW v \in 1..disk[m].lc
               PROVE  IsMajority({n \in Mons : disk[n].vals[v] = disk[m].vals[v]})
  BY DEF CommittedOnMajority
<1>3. PICK x : x = disk[m].vals[v] OBVIOUS
<1>4. Chosen(votes, v, x) BY <1>2, <1>3, StoreIs DEF StoreOK, VotingInv
<1>5. PICK w \in votes : ChosenAt(votes, v, w.pn, x) BY <1>4 DEF Chosen
<1>6. PICK Q \in SUBSET Mons : IsMajority(Q) /\ \A a \in Q : VotedFor(votes, a, v, w.pn, x)
  BY <1>5 DEF ChosenAt
<1>7. w.pn \in Nat BY <1>1, VoteType
<1>8. ASSUME NEW a \in Q PROVE disk[a].vals[v] = x
  <2>1. PICK z : z = [mon |-> a, v |-> v, pn |-> w.pn, val |-> x] OBVIOUS
  <2>2. z \in votes /\ z.mon = a /\ z.v = v /\ z.pn = w.pn BY <1>6, <2>1 DEF VotedFor
  <2>3. StoreOK(disk[a], votes, a) BY StoreIs DEF VotingInv
  <2>4. disk[a].lc \in Nat /\ disk[m].lc \in Nat /\ v \in Nat /\ v >= 1 /\ v \in Versions
    <3>1. disk[a] \in Store /\ disk[m] \in Store BY <1>1, Unwritten
    <3>2. v \in Versions BY <1>1, <2>2, VoteType
    <3>3. QED BY <3>1, <3>2, StoreTypes
  <2>5. /\ v <= disk[a].lc + 1
        /\ v = disk[a].lc + 1 => disk[a].vals[v] # NoValue /\ w.pn <= disk[a].pending_pn
    BY <2>2, <2>3 DEF StoreOK
  <2>6. CASE v <= disk[a].lc
    <3>1. v \in 1..disk[a].lc BY <2>4, <2>6
    <3>2. Chosen(votes, v, disk[a].vals[v]) BY <2>3, <3>1 DEF StoreOK
    <3>3. QED BY <1>1, <1>4, <3>2, ChosenOnce
  <2>7. CASE v = disk[a].lc + 1
    <3>1. VotedFor(votes, a, v, disk[a].pending_pn, disk[a].vals[v]) BY <2>3, <2>4, <2>5, <2>7 DEF StoreOK
    <3>2. PICK y : y = [mon |-> a, v |-> v, pn |-> disk[a].pending_pn, val |-> disk[a].vals[v]] OBVIOUS
    <3>3. y \in votes /\ y.v = v /\ y.pn = disk[a].pending_pn /\ y.val = disk[a].vals[v]
      BY <3>1, <3>2 DEF VotedFor
    <3>4. y.pn \in Nat BY <1>1, <3>3, VoteType
    <3>5. y.pn >= w.pn BY <1>7, <2>5, <2>7, <3>3, <3>4
    <3>6. y.val = x BY <1>1, <1>5, <1>7, <3>3, <3>5, ChosenSafe
    <3>7. QED BY <3>3, <3>6
  <2>8. QED BY <2>4, <2>5, <2>6, <2>7
<1>9. PICK R : R = {n \in Mons : disk[n].vals[v] = disk[m].vals[v]} OBVIOUS
<1>10. Q \subseteq R /\ R \subseteq Mons BY <1>3, <1>8, <1>9
<1>11. IsMajority(R) BY <1>6, <1>10, MajorityGrows
<1>12. QED BY <1>9, <1>11

\* Any number of monitors never commit two values for one version, as long as no
\* restart takes back a promise (Paxos::collect does not store the leader's own:
\* without the condition TLC finds two values, run paxos_five).
THEOREM AgreementWithPromises == Spec /\ [][PromisesKept]_vars => []Agreement
BY PaxosProtocol, PaxosVoting, AgreementHolds, PTL

\* Under the same condition, a version that any monitor has committed is stored by a
\* majority: nothing committed is lost with a minority.
THEOREM MajorityWithPromises == Spec /\ [][PromisesKept]_vars => []CommittedOnMajority
BY PaxosProtocol, PaxosVoting, MajorityHolds, PTL
-----------------------------------------------------------------------------

\* Every step but a crash keeps the promises.
LEMMA PromisesKeptUnlessCrash ==
    ASSUME ProtocolInv, Next, \A m \in Mons : ~Crash(m)
    PROVE  PromisesKept
<1>1. ASSUME NEW m \in Mons, Only(m), mem'[m].accepted_pn >= mem[m].accepted_pn PROVE PromisesKept
  <2>1. \A n \in Mons : mem[n].accepted_pn \in Nat BY Unwritten, MemoryTypes DEF ProtocolInv
  <2>2. \A n \in Mons \ {m} : mem'[n].accepted_pn = mem[n].accepted_pn BY <1>1 DEF Only
  <2>3. QED BY <1>1, <2>1, <2>2 DEF PromisesKept
<1>2. \A m \in Mons : mem[m].accepted_pn \in Nat BY Unwritten, MemoryTypes DEF ProtocolInv
<1>3. ASSUME NEW m \in Mons, Only(m), mem'[m].accepted_pn = mem[m].accepted_pn PROVE PromisesKept
  <2>1. mem'[m].accepted_pn >= mem[m].accepted_pn BY <1>2, <1>3
  <2>2. QED BY <1>1, <1>3, <2>1
<1>4. ASSUME NEW m \in Mons, NEW from \in Mons, StartElection(m) \/ HandleVictory(from, m) \/ DropOrBootstrap(from, m)
      PROVE  PromisesKept
  <2>1. Only(m) /\ mem'[m] = Resting(mem[m].accepted_pn) BY <1>4, RetireStep
  <2>2. mem'[m].accepted_pn = mem[m].accepted_pn BY <2>1 DEF Resting
  <2>3. QED BY <1>3, <2>1, <2>2
<1>5. ASSUME NEW m \in Mons, Propose(m) PROVE PromisesKept BY <1>3, <1>5, ProposeStep
<1>6. ASSUME NEW m \in Mons, CommitFinish(m) PROVE PromisesKept BY <1>3, <1>6, FinishStep
<1>7. ASSUME NEW m \in Mons, lease_renew_timeout(m) PROVE PromisesKept
  BY <1>3, <1>7, RenewStep DEF Passive
<1>8. ASSUME NEW m \in Mons, NEW Q \in SUBSET Mons, DeclareVictory(m, Q) PROVE PromisesKept
  <2>1. Only(m) /\ NewRound(m, disk[m]) /\ TypesInv' BY <1>8, VictoryStep
  <2>2. mem'[m].accepted_pn \in Nat
    <3>1. mem'[m] \in Memory BY <2>1 DEF TypesInv
    <3>2. QED BY <3>1, MemoryTypes
  <2>3. mem'[m].accepted_pn >= mem[m].accepted_pn BY <1>2, <2>1, <2>2 DEF NewRound
  <2>4. QED BY <1>1, <2>1, <2>3
<1>9. ASSUME NEW m \in Mons, NEW from \in Mons \ {m}, handle_collect(from, m) PROVE PromisesKept
  <2>1. /\ Only(m) /\ Taken(from, m) \in CollectMsg
        /\ mem'[m].accepted_pn = IF Taken(from, m).pn > mem[m].accepted_pn THEN Taken(from, m).pn ELSE mem[m].accepted_pn
    BY <1>9, CollectStep
  <2>2. Taken(from, m).pn \in Nat BY <2>1 DEF CollectMsg
  <2>3. mem'[m].accepted_pn >= mem[m].accepted_pn BY <1>2, <2>1, <2>2
  <2>4. QED BY <1>1, <2>1, <2>3
<1>10. ASSUME NEW m \in Mons, NEW from \in Mons \ {m}, handle_last(from, m) PROVE PromisesKept
  <2>1. Only(m) /\ TypesInv' BY <1>10, LastStep
  <2>2. mem'[m].accepted_pn \in Nat
    <3>1. mem'[m] \in Memory BY <2>1 DEF TypesInv
    <3>2. QED BY <3>1, MemoryTypes
  <2>3. PICK t, d, u : \/ LastAgain(m, t, d) \/ LastMore(from, m, t, d, u) \/ LastBegin(from, m, t, d, u)
                       \/ LastActive(from, m, t, d, u) \/ LastStale(m, t, d)
    BY <1>10, LastStep
  <2>4. mem'[m].accepted_pn = mem[m].accepted_pn \/ mem'[m].accepted_pn > mem[m].accepted_pn
    BY <2>3 DEF LastAgain, LastMore, LastBegin, LastActive, LastStale, SameRound, NewRound
  <2>5. mem'[m].accepted_pn >= mem[m].accepted_pn BY <1>2, <2>2, <2>4
  <2>6. QED BY <1>1, <2>1, <2>5
<1>11. ASSUME NEW m \in Mons, NEW from \in Mons \ {m}, handle_begin(from, m) PROVE PromisesKept
  BY <1>3, <1>11, BeginStep DEF Passive
<1>12. ASSUME NEW m \in Mons, NEW from \in Mons \ {m}, handle_accept(from, m) PROVE PromisesKept
  BY <1>3, <1>12, AcceptStep DEF Passive
<1>13. ASSUME NEW m \in Mons, NEW from \in Mons \ {m}, handle_commit(from, m) PROVE PromisesKept
  BY <1>3, <1>13, CommitStep
<1>14. ASSUME NEW m \in Mons, NEW from \in Mons \ {m}, handle_lease(from, m) PROVE PromisesKept
  BY <1>3, <1>14, LeaseStep DEF Passive
<1>15. QED BY <1>4, <1>5, <1>6, <1>7, <1>8, <1>9, <1>10, <1>11, <1>12, <1>13, <1>14 DEF Next

\* Without restarts no condition is left: through any elections, dropped messages and
\* rounds that overlap, the monitors agree and committed versions are on a majority.
THEOREM AgreementWithoutCrashes ==
    ASSUME MaxCrashes = 0
    PROVE  Spec => []Agreement /\ []CommittedOnMajority
<1>1. ProtocolInv /\ [Next]_vars => [PromisesKept]_vars
  <2>1. SUFFICES ASSUME ProtocolInv, Next PROVE PromisesKept OBVIOUS
  <2>2. \A m \in Mons : ~Crash(m)
    <3>1. crashes \in Nat BY <2>1 DEF ProtocolInv, TypesInv
    <3>2. QED BY <3>1 DEF Crash
  <2>3. QED BY <2>1, <2>2, PromisesKeptUnlessCrash
<1>2. Spec => [][PromisesKept]_vars BY <1>1, PaxosProtocol, PTL DEF Spec
<1>3. QED BY <1>2, AgreementWithPromises, MajorityWithPromises, PTL

-----------------------------------------------------------------------------
(* Reads.                                                                    *)

\* of the messages of a leader, those that say what is committed or who leads
FromLeader == {"victory", "commit", "lease"}

\* A leader sends nothing of an epoch to come, a peon is never ahead of its leader, and
\* only an active leader renews leases.
EpochsInv ==
    /\ \A l, p \in Mons : l # p => \A x \in Msgs(net, l, p) : x.op \in FromLeader => x.epoch <= epoch[l]
    /\ \A p \in Mons : role[p] = "peon" => leader[p] \in Mons \ {p} /\ epoch[p] <= epoch[leader[p]]
    /\ \A p \in Mons : role[p] = "leader" => leader[p] = p
    /\ \A p \in Mons : mem[p].renew => mem[p].state = "active"

\* p holds a lease of the current epoch of l, or it is on its way
Leasing(n, r, ld, ep, ms, l, p) ==
    \/ \E y \in Msgs(n, l, p) : y.op = "lease" /\ y.epoch = ep[l]
    \/ r[p] = "peon" /\ ld[p] = l /\ ep[p] = ep[l] /\ ms[p].leased
\* what l knows of the leases of p: none while it collects, and none left once p has
\* accepted; no lease follows a begin
LeaseOK(n, r, ld, ep, ms, q, l, p) ==
    /\ Leasing(n, r, ld, ep, ms, l, p) => p \in q[l] /\ ms[l].state # "recovering"
    /\ ms[l].state \in Asking /\ p \in ms[l].accepted => ~Leasing(n, r, ld, ep, ms, l, p)
    /\ \A y \in Msgs(n, p, l) : y.op = "accept" /\ y.pn = ms[l].accepted_pn => ~Leasing(n, r, ld, ep, ms, l, p)
    /\ \A x, y : Before(n, l, p, x, y) /\ x.op = "begin" /\ x.pn = ms[l].accepted_pn /\ y.op = "lease" => y.epoch # ep[l]

\* every lease of l in epoch e is for the versions up to k, and so are its commits
LeasedAt(n, r, ld, ep, ms, d, l, e, k) ==
    /\ \A p \in Mons : r[p] = "peon" /\ ld[p] = l /\ ep[p] = e /\ ms[p].leased => d[p].lc = k
    /\ \A p \in Mons \ {l} : \A x \in Msgs(n, l, p) : x.epoch = e =>
        (x.op = "lease" => x.lc = k) /\ (x.op = "commit" => x.lc <= k)
GrantOK(n, r, ld, ep, ms, d, l) ==
    \A e \in Nat : \E k \in Counts :
        LeasedAt(n, r, ld, ep, ms, d, l, e, k) /\ (r[l] = "leader" /\ e = ep[l] => k = d[l].lc)

LeasesInv == \A l \in Mons : role[l] = "leader" =>
    \A p \in Mons \ {l} : LeaseOK(net, role, leader, epoch, mem, quorum, l, p)
GrantsInv == \A l \in Mons : GrantOK(net, role, leader, epoch, mem, disk, l)
\* Who may serve reads: the inductive invariant of SameReads.
ReadsInv == EpochsInv /\ LeasesInv /\ GrantsInv

\* what m does, if it is or becomes a peon, keeps it behind its leader
Behind(m) == role'[m] = "peon" => leader'[m] \in Mons \ {m} /\ epoch'[m] <= epoch[leader'[m]]

\* EpochsInv under a step of m.
LEMMA EpochsFrame ==
    ASSUME TypesInv, EpochsInv, NEW m \in Mons, TypesInv', Only(m), Behind(m),
           \A p \in Mons \ {m} : \A x \in Msgs(net', m, p) :
               x \in Msgs(net, m, p) \/ x.op \notin FromLeader \/ x.epoch = epoch'[m],
           role'[m] = "leader" => leader'[m] = m, mem'[m].renew => mem'[m].state = "active"
    PROVE  EpochsInv'
<1>1. \A n \in Mons : epoch[n] \in Nat /\ epoch'[n] \in Nat /\ epoch'[n] >= epoch[n]
  BY OnlyGrows DEF TypesInv, ElectionTypeOK
<1>2. ASSUME NEW l \in Mons, NEW p \in Mons, l # p, NEW x \in Msgs(net', l, p), x.op \in FromLeader
      PROVE  x.epoch <= epoch'[l]
  <2>1. x.epoch \in Nat
    BY <1>2, OnTheWayNext, MessageTypes
  <2>2. CASE x \in Msgs(net, l, p)
    <3>1. x.epoch <= epoch[l]
      BY <1>2, <2>2 DEF EpochsInv
    <3> QED BY <1>1, <2>1, <3>1
  <2>3. CASE x \notin Msgs(net, l, p)
    <3>1. l = m
      BY <1>2, <2>3 DEF Only, Quiet
    <3>2. x.epoch = epoch'[m]
      BY <1>2, <2>3, <3>1
    <3> QED BY <1>1, <3>1, <3>2
  <2> QED BY <2>2, <2>3
<1>3. ASSUME NEW p \in Mons, role'[p] = "peon"
      PROVE  leader'[p] \in Mons \ {p} /\ epoch'[p] <= epoch'[leader'[p]]
  <2>1. leader'[p] \in Mons \ {p} /\ epoch'[p] <= epoch[leader'[p]]
    <3>1. CASE p = m
      BY <1>3, <3>1 DEF Behind
    <3>2. CASE p # m
      BY <1>3, <3>2 DEF Only, EpochsInv
    <3> QED BY <3>1, <3>2
  <2>2. PICK l \in Mons : l = leader'[p]
    BY <2>1
  <2>3. epoch'[p] <= epoch'[l]
    BY <1>1, <2>1, <2>2
  <2> QED BY <2>1, <2>2, <2>3
<1>4. \A p \in Mons : (role'[p] = "leader" => leader'[p] = p) /\ (mem'[p].renew => mem'[p].state = "active")
  BY DEF Only, EpochsInv
<1> QED
  BY <1>2, <1>3, <1>4 DEF EpochsInv

\* A monitor that stays where it is stays behind its leader.
LEMMA StaysBehind ==
    ASSUME EpochsInv, NEW m \in Mons, SameElectionOf(m)
    PROVE  Behind(m) /\ (role'[m] = "leader" => leader'[m] = m)
BY DEF EpochsInv, SameElectionOf, Behind

\* a peon with a lease had it, or the lease has come, for the same versions
StillLeased(m) == role'[m] = "peon" /\ mem'[m].leased =>
    /\ role[m] = "peon" /\ leader'[m] = leader[m] /\ epoch'[m] = epoch[m] /\ disk'[m].lc = disk[m].lc
    /\ mem[m].leased \/ Leased(m)
\* m accepts only without a lease
AcceptsBare(m) == \A l \in Mons \ {m} : \A y \in Msgs(net', m, l) : role[l] = "leader" /\ y.op = "accept" =>
    y \in Msgs(net, m, l) \/ y.pn # mem[l].accepted_pn \/ ~Leasing(net', role', leader', epoch', mem', l, m)

\* What a step of m does to the leases of another leader.
LEMMA LeasesOfOthers ==
    ASSUME EpochsInv, LeasesInv, GrantsInv, NEW m \in Mons, Only(m), StillLeased(m), AcceptsBare(m),
           NEW l \in Mons \ {m}
    PROVE  /\ role'[l] = "leader" => \A p \in Mons \ {l} : LeaseOK(net', role', leader', epoch', mem', quorum', l, p)
           /\ GrantOK(net', role', leader', epoch', mem', disk', l)
<1>0. /\ role'[l] = role[l] /\ epoch'[l] = epoch[l] /\ mem'[l] = mem[l] /\ disk'[l] = disk[l] /\ quorum'[l] = quorum[l]
      /\ \A p \in Mons \ {l} : Quiet(l, p)
      /\ \A p \in Mons \ {m} : role'[p] = role[p] /\ leader'[p] = leader[p] /\ epoch'[p] = epoch[p] /\ mem'[p] = mem[p] /\ disk'[p] = disk[p]
      /\ \A p \in Mons \ {m, l} : Quiet(p, l)
  BY DEF Only
<1>1. ASSUME NEW p \in Mons \ {l}, Leasing(net', role', leader', epoch', mem', l, p)
      PROVE  Leasing(net, role, leader, epoch, mem, l, p)
  <2>1. CASE \E y \in Msgs(net', l, p) : y.op = "lease" /\ y.epoch = epoch'[l]
    BY <2>1, <1>0 DEF Leasing, Quiet
  <2>2. CASE role'[p] = "peon" /\ leader'[p] = l /\ epoch'[p] = epoch'[l] /\ mem'[p].leased
    <3>1. CASE p = m
      BY <2>2, <3>1, <1>0 DEF StillLeased, Leased, Leasing
    <3>2. CASE p # m
      BY <2>2, <3>2, <1>0 DEF Leasing
    <3> QED BY <3>1, <3>2
  <2> QED BY <1>1, <2>1, <2>2 DEF Leasing
<1>2. ASSUME role'[l] = "leader", NEW p \in Mons \ {l}
      PROVE  LeaseOK(net', role', leader', epoch', mem', quorum', l, p)
  <2>1. LeaseOK(net, role, leader, epoch, mem, quorum, l, p)
    BY <1>0, <1>2 DEF LeasesInv
  <2>2. ASSUME NEW y \in Msgs(net', p, l), y.op = "accept", y.pn = mem[l].accepted_pn
        PROVE  ~Leasing(net', role', leader', epoch', mem', l, p)
    <3>1. CASE y \in Msgs(net, p, l)
      BY <1>1, <2>1, <2>2, <3>1 DEF LeaseOK
    <3>2. CASE y \notin Msgs(net, p, l)
      <4>1. p = m
        BY <1>0, <3>2, <2>2 DEF Quiet
      <4> QED BY <1>0, <1>2, <2>2, <3>2, <4>1 DEF AcceptsBare
    <3> QED BY <3>1, <3>2
  <2>3. ASSUME NEW x, NEW y, Before(net', l, p, x, y), x.op = "begin", x.pn = mem[l].accepted_pn, y.op = "lease"
        PROVE  y.epoch # epoch[l]
    <3>1. Before(net, l, p, x, y)
      BY <1>0, <2>3 DEF Quiet
    <3> QED BY <2>1, <2>3, <3>1 DEF LeaseOK
  <2> HIDE DEF Leasing
  <2> QED BY <1>0, <1>1, <2>1, <2>2, <2>3 DEF LeaseOK
<1>3. ASSUME NEW e \in Nat
      PROVE  \E k \in Counts : LeasedAt(net', role', leader', epoch', mem', disk', l, e, k)
                               /\ (role'[l] = "leader" /\ e = epoch'[l] => k = disk'[l].lc)
  <2>1. PICK k \in Counts : LeasedAt(net, role, leader, epoch, mem, disk, l, e, k)
                            /\ (role[l] = "leader" /\ e = epoch[l] => k = disk[l].lc)
    BY DEF GrantsInv, GrantOK
  <2>2. ASSUME NEW p \in Mons, role'[p] = "peon", leader'[p] = l, epoch'[p] = e, mem'[p].leased
        PROVE  disk'[p].lc = k
    <3>1. CASE p = m
      <4>1. role[m] = "peon" /\ leader[m] = l /\ epoch[m] = e /\ disk'[m].lc = disk[m].lc /\ (mem[m].leased \/ Leased(m))
        BY <2>2, <3>1 DEF StillLeased
      <4>2. CASE mem[m].leased
        BY <2>1, <3>1, <4>1, <4>2 DEF LeasedAt
      <4>3. CASE Leased(m)
        <5>1. PICK x \in Msgs(net, l, m) : x.op = "lease" /\ x.epoch = e /\ x.lc = disk[m].lc
          BY <4>1, <4>3 DEF Leased
        <5> QED BY <2>1, <3>1, <4>1, <5>1 DEF LeasedAt
      <4> QED BY <4>1, <4>2, <4>3
    <3>2. CASE p # m
      BY <1>0, <2>1, <2>2, <3>2 DEF LeasedAt
    <3> QED BY <3>1, <3>2
  <2>3. ASSUME NEW p \in Mons \ {l}, NEW x \in Msgs(net', l, p), x.epoch = e
        PROVE  (x.op = "lease" => x.lc = k) /\ (x.op = "commit" => x.lc <= k)
    <3>1. x \in Msgs(net, l, p)
      BY <1>0, <2>3 DEF Quiet
    <3> QED BY <2>1, <2>3, <3>1 DEF LeasedAt
  <2>4. LeasedAt(net', role', leader', epoch', mem', disk', l, e, k)
    BY <2>2, <2>3 DEF LeasedAt
  <2> QED BY <1>0, <2>1, <2>4
<1> QED
  BY <1>2, <1>3 DEF GrantOK

\* The grants of a monitor that sends no lease and no commit.
LEMMA GrantsRest ==
    ASSUME GrantsInv, EpochsInv', NEW m \in Mons, Only(m), NoNew(m, {"commit", "lease"}),
           role'[m] # "leader" \/ (role[m] = "leader" /\ epoch'[m] = epoch[m] /\ disk'[m].lc = disk[m].lc)
    PROVE  GrantOK(net', role', leader', epoch', mem', disk', m)
<1> SUFFICES ASSUME NEW e \in Nat
             PROVE  \E k \in Counts : LeasedAt(net', role', leader', epoch', mem', disk', m, e, k)
                                      /\ (role'[m] = "leader" /\ e = epoch'[m] => k = disk'[m].lc)
  BY DEF GrantOK
<1>1. PICK k \in Counts : LeasedAt(net, role, leader, epoch, mem, disk, m, e, k)
                          /\ (role[m] = "leader" /\ e = epoch[m] => k = disk[m].lc)
  BY DEF GrantsInv, GrantOK
<1>2. ASSUME NEW p \in Mons, role'[p] = "peon", leader'[p] = m, epoch'[p] = e, mem'[p].leased
      PROVE  disk'[p].lc = k
  <2>1. p # m
    BY <1>2 DEF EpochsInv
  <2> QED BY <1>1, <1>2, <2>1 DEF LeasedAt, Only
<1>3. ASSUME NEW p \in Mons \ {m}, NEW x \in Msgs(net', m, p), x.epoch = e
      PROVE  (x.op = "lease" => x.lc = k) /\ (x.op = "commit" => x.lc <= k)
  BY <1>1, <1>3 DEF LeasedAt, NoNew
<1>4. LeasedAt(net', role', leader', epoch', mem', disk', m, e, k)
  BY <1>2, <1>3 DEF LeasedAt
<1> QED BY <1>1, <1>4

\* nobody has a lease of the epoch of m to come, and no commit of it is ahead
Unleased(m) == \A p \in Mons \ {m} :
    /\ ~(role[p] = "peon" /\ leader[p] = m /\ epoch[p] = epoch'[m] /\ mem[p].leased)
    /\ \A x \in Msgs(net, m, p) : x.epoch = epoch'[m] => x.op # "lease" /\ (x.op = "commit" => x.lc <= disk'[m].lc)
\* m leads on, with the versions it had
LeadsOn(m) ==
    /\ role[m] = "leader" /\ SameElectionOf(m) /\ disk'[m].lc = disk[m].lc
    /\ mem'[m].state = "recovering" => mem[m].state = "recovering"
\* m asks, and whoever counts as accepting had accepted or has now
AsksOn(m) ==
    /\ role[m] = "leader" /\ SameElectionOf(m) /\ mem'[m].accepted_pn = mem[m].accepted_pn
    /\ \A p \in mem'[m].accepted \ {m} :
        \/ mem[m].state \in Asking /\ p \in mem[m].accepted
        \/ \E y \in Msgs(net, p, m) : y.op = "accept" /\ y.pn = mem[m].accepted_pn
\* what a leader may send
Granted(m, x) ==
    /\ x.op = "lease" => x.epoch = epoch'[m] /\ x.lc = disk'[m].lc /\ mem'[m].state = "active"
    /\ x.op = "commit" => x.epoch = epoch'[m] /\ x.lc <= disk'[m].lc

\* The leases of a leader m after its step.
LEMMA LeasesOfLeader ==
    ASSUME TypesInv', LeasesInv, GrantsInv, AcceptsInv', NEW m \in Mons, Only(m), role'[m] = "leader",
           NEW O, \A x \in O : Granted(m, x),
           \A p \in Mons \ {m} : Sent(m, p, O) /\ (p \notin quorum'[m] => Quiet(m, p)),
           Unleased(m) \/ LeadsOn(m), mem'[m].state \in Asking => AsksOn(m)
    PROVE  /\ \A p \in Mons \ {m} : LeaseOK(net', role', leader', epoch', mem', quorum', m, p)
           /\ GrantOK(net', role', leader', epoch', mem', disk', m)
<1>0. /\ \A p \in Mons \ {m} : role'[p] = role[p] /\ leader'[p] = leader[p] /\ epoch'[p] = epoch[p] /\ mem'[p] = mem[p] /\ disk'[p] = disk[p]
      /\ \A p \in Mons \ {m} : Quiet(p, m)
      /\ \A p \in Mons \ {m} : \A x \in Msgs(net', m, p) : x \in Msgs(net, m, p) \/ (x \in O /\ p \in quorum'[m])
      /\ "active" \notin Asking /\ "recovering" \notin Asking
  BY DEF Only, Sent, Quiet, Asking, Updating, Writing
<1>1. ASSUME NEW p \in Mons \ {m}, Leasing(net', role', leader', epoch', mem', m, p)
      PROVE  \/ p \in quorum'[m] /\ mem'[m].state = "active"
             \/ LeadsOn(m) /\ Leasing(net, role, leader, epoch, mem, m, p)
  <2>1. CASE \E y \in Msgs(net', m, p) : y.op = "lease" /\ y.epoch = epoch'[m]
    <3>1. PICK y \in Msgs(net', m, p) : y.op = "lease" /\ y.epoch = epoch'[m]
      BY <2>1
    <3>2. CASE y \in Msgs(net, m, p)
      <4>1. LeadsOn(m)
        BY <3>1, <3>2 DEF Unleased
      <4> QED BY <3>1, <3>2, <4>1 DEF LeadsOn, SameElectionOf, Leasing
    <3>3. CASE y \in O /\ p \in quorum'[m]
      BY <3>1, <3>3 DEF Granted
    <3> QED BY <1>0, <3>1, <3>2, <3>3
  <2>2. CASE role'[p] = "peon" /\ leader'[p] = m /\ epoch'[p] = epoch'[m] /\ mem'[p].leased
    <3>1. role[p] = "peon" /\ leader[p] = m /\ epoch[p] = epoch'[m] /\ mem[p].leased
      BY <1>0, <2>2
    <3>2. LeadsOn(m)
      BY <3>1 DEF Unleased
    <3> QED BY <3>1, <3>2 DEF LeadsOn, SameElectionOf, Leasing
  <2> QED BY <1>1, <2>1, <2>2 DEF Leasing
<1>2. ASSUME NEW p \in Mons \ {m}, role[m] = "leader"
      PROVE  LeaseOK(net, role, leader, epoch, mem, quorum, m, p)
  BY <1>2 DEF LeasesInv
<1>3. ASSUME NEW p \in Mons \ {m}
      PROVE  LeaseOK(net', role', leader', epoch', mem', quorum', m, p)
  <2>1. ASSUME Leasing(net', role', leader', epoch', mem', m, p)
        PROVE  p \in quorum'[m] /\ mem'[m].state # "recovering"
    <3>1. CASE LeadsOn(m) /\ Leasing(net, role, leader, epoch, mem, m, p)
      BY <1>2, <3>1 DEF LeaseOK, LeadsOn, SameElectionOf
    <3> QED BY <1>1, <2>1, <3>1
  <2>2. ASSUME mem'[m].state \in Asking, ~Leasing(net, role, leader, epoch, mem, m, p)
        PROVE  ~Leasing(net', role', leader', epoch', mem', m, p)
    BY <1>0, <1>1, <2>2
  <2>3. ASSUME mem'[m].state \in Asking, p \in mem'[m].accepted
        PROVE  ~Leasing(net', role', leader', epoch', mem', m, p)
    <3>1. ~Leasing(net, role, leader, epoch, mem, m, p)
      <4> HIDE DEF Leasing
      <4> QED BY <1>2, <2>3 DEF AsksOn, LeaseOK
    <3> QED BY <2>2, <2>3, <3>1
  <2>4. ASSUME NEW y \in Msgs(net', p, m), y.op = "accept", y.pn = mem'[m].accepted_pn
        PROVE  ~Leasing(net', role', leader', epoch', mem', m, p)
    <3>1. mem'[m].state \in Asking
      BY <2>4 DEF AcceptsInv, IsLeader, Promise, State, Asking
    <3>2. y \in Msgs(net, p, m)
      BY <1>0, <2>4 DEF Quiet
    <3>3. ~Leasing(net, role, leader, epoch, mem, m, p)
      <4> HIDE DEF Leasing
      <4> QED BY <1>2, <2>4, <3>1, <3>2 DEF AsksOn, LeaseOK
    <3> QED BY <2>2, <3>1, <3>3
  <2>5. ASSUME NEW x, NEW y, Before(net', m, p, x, y), x.op = "begin", x.pn = mem'[m].accepted_pn, y.op = "lease"
        PROVE  y.epoch # epoch'[m]
    <3>1. x \in Msgs(net', m, p)
      BY <2>5 DEF Before, Precedes, Msgs, Elems
    <3>2. mem'[m].state \in Asking
      BY <2>5, <3>1 DEF AcceptsInv, IsLeader, Promise, State, Asking
    <3>3. y \notin O
      BY <1>0, <2>5, <3>2 DEF Granted
    <3>4. Before(net, m, p, x, y)
      BY <2>5, <3>3 DEF Sent
    <3> QED BY <1>2, <2>5, <3>2, <3>4 DEF AsksOn, LeaseOK, SameElectionOf
  <2> HIDE DEF Leasing
  <2> QED BY <2>1, <2>3, <2>4, <2>5 DEF LeaseOK
<1>4. ASSUME NEW e \in Nat
      PROVE  \E k \in Counts : LeasedAt(net', role', leader', epoch', mem', disk', m, e, k)
                               /\ (role'[m] = "leader" /\ e = epoch'[m] => k = disk'[m].lc)
  <2>1. PICK k \in Counts : LeasedAt(net, role, leader, epoch, mem, disk, m, e, k)
                            /\ (role[m] = "leader" /\ e = epoch[m] => k = disk[m].lc)
    BY DEF GrantsInv, GrantOK
  <2>2. CASE e # epoch'[m]
    <3>1. LeasedAt(net', role', leader', epoch', mem', disk', m, e, k)
      BY <1>0, <2>1, <2>2 DEF LeasedAt, Granted
    <3> QED BY <2>2, <3>1
  <2>3. CASE e = epoch'[m] /\ LeadsOn(m)
    <3>1. k = disk'[m].lc
      BY <2>1, <2>3 DEF LeadsOn, SameElectionOf
    <3>2. LeasedAt(net', role', leader', epoch', mem', disk', m, e, k)
      BY <1>0, <2>1, <3>1 DEF LeasedAt, Granted
    <3> QED BY <3>1, <3>2
  <2>4. CASE e = epoch'[m] /\ Unleased(m)
    <3>1. disk'[m].lc \in Counts
      BY StoreTypes DEF TypesInv
    <3>2. LeasedAt(net', role', leader', epoch', mem', disk', m, e, disk'[m].lc)
      BY <1>0, <2>4 DEF LeasedAt, Granted, Unleased
    <3> QED BY <3>1, <3>2
  <2> QED BY <2>2, <2>3, <2>4
<1> QED
  BY <1>3, <1>4 DEF GrantOK

\* ReadsInv after a step of m, from its parts.
LEMMA ReadsFrom ==
    ASSUME EpochsInv', LeasesInv, GrantsInv, EpochsInv, NEW m \in Mons, Only(m), StillLeased(m), AcceptsBare(m),
           role'[m] = "leader" => \A p \in Mons \ {m} : LeaseOK(net', role', leader', epoch', mem', quorum', m, p),
           GrantOK(net', role', leader', epoch', mem', disk', m)
    PROVE  ReadsInv'
<1>1. ASSUME NEW l \in Mons
      PROVE  /\ role'[l] = "leader" => \A p \in Mons \ {l} : LeaseOK(net', role', leader', epoch', mem', quorum', l, p)
             /\ GrantOK(net', role', leader', epoch', mem', disk', l)
  <2>1. CASE l = m
    BY <2>1
  <2>2. CASE l # m
    BY <2>2, LeasesOfOthers
  <2> QED BY <2>1, <2>2
<1> QED
  BY <1>1 DEF ReadsInv, LeasesInv, GrantsInv

\* A step after which m leads nobody, follows whoever told it of a victory, and has no lease.
LEMMA RestReads ==
    ASSUME ProtocolInv, ReadsInv, NEW m \in Mons, TypesInv', Only(m), \A l, p \in Mons : l # p => Quiet(l, p),
           role'[m] # "leader", ~mem'[m].leased, ~mem'[m].renew, role'[m] = "peon" => Follows(m)
    PROVE  ReadsInv'
<1>1. NoNew(m, {"accept", "victory", "commit", "lease"})
  BY QuietNoNew
<1>2. NoNew(m, {"commit", "lease"})
  BY <1>1, FewerNoNew
<1>3. Behind(m)
  BY DEF Behind, Follows, ReadsInv, EpochsInv, FromLeader
<1>4. EpochsInv'
  BY <1>1, <1>3, EpochsFrame DEF ProtocolInv, ReadsInv, NoNew, FromLeader
<1>5. GrantOK(net', role', leader', epoch', mem', disk', m)
  BY <1>2, <1>4, GrantsRest DEF ReadsInv
<1>6. StillLeased(m) /\ AcceptsBare(m)
  BY <1>1 DEF StillLeased, AcceptsBare, NoNew
<1> QED
  BY <1>4, <1>5, <1>6, ReadsFrom DEF ReadsInv

\* A step of a monitor that does not lead.
LEMMA SideReads ==
    ASSUME ProtocolInv, ReadsInv, ProtocolInv', NEW m \in Mons, Only(m), SameElectionOf(m), role[m] # "leader",
           NoNew(m, FromLeader), StillLeased(m), AcceptsBare(m)
    PROVE  ReadsInv'
<1>1. ~mem'[m].renew
  BY DEF ProtocolInv, LeaderInv, IsLeader, SameElectionOf
<1>2. Behind(m)
  BY StaysBehind DEF ReadsInv
<1>3. EpochsInv'
  BY <1>1, <1>2, EpochsFrame DEF ProtocolInv, ReadsInv, NoNew, SameElectionOf
<1>4. NoNew(m, {"commit", "lease"})
  BY FewerNoNew DEF FromLeader
<1>5. role'[m] # "leader"
  BY DEF SameElectionOf
<1>6. GrantOK(net', role', leader', epoch', mem', disk', m)
  BY <1>3, <1>4, <1>5, GrantsRest DEF ReadsInv
<1> QED
  BY <1>3, <1>5, <1>6, ReadsFrom DEF ReadsInv

\* A step of a leader.
LEMMA LeadReads ==
    ASSUME ProtocolInv, ReadsInv, ProtocolInv', NEW m \in Mons, Only(m), role'[m] = "leader", leader'[m] = m,
           NEW O, \A x \in O : Granted(m, x) /\ x.op # "accept" /\ (x.op = "victory" => x.epoch = epoch'[m]),
           \A p \in quorum'[m] \ {m} : Sent(m, p, O), \A p \in Mons \ {m} : p \notin quorum'[m] => Quiet(m, p),
           Unleased(m) \/ LeadsOn(m), mem'[m].state \in Asking => AsksOn(m),
           mem'[m].renew => mem'[m].state = "active"
    PROVE  ReadsInv'
<1>1. \A p \in Mons \ {m} : Sent(m, p, O) /\ (p \notin quorum'[m] => Quiet(m, p))
  BY QuietSends
<1>2. EpochsInv'
  <2>1. \A p \in Mons \ {m} : \A x \in Msgs(net', m, p) :
            x \in Msgs(net, m, p) \/ x.op \notin FromLeader \/ x.epoch = epoch'[m]
    BY <1>1 DEF Sent, Granted, FromLeader
  <2>2. Behind(m)
    BY DEF Behind
  <2> QED BY <2>1, <2>2, EpochsFrame DEF ProtocolInv, ReadsInv
<1>3. StillLeased(m) /\ AcceptsBare(m)
  BY <1>1 DEF StillLeased, AcceptsBare, Sent
<1>4. /\ \A p \in Mons \ {m} : LeaseOK(net', role', leader', epoch', mem', quorum', m, p)
      /\ GrantOK(net', role', leader', epoch', mem', disk', m)
  BY <1>1, LeasesOfLeader DEF ReadsInv, ProtocolInv
<1> QED
  BY <1>2, <1>3, <1>4, ReadsFrom DEF ReadsInv

\* The steps that count for nothing in a round: handle_lease, a renewal.
LEMMA PassiveReads ==
    ASSUME ProtocolInv, ReadsInv, ProtocolInv', NEW m \in Mons, Only(m), SameElectionOf(m), Passive(m)
    PROVE  ReadsInv'
<1>1. CASE role[m] # "leader"
  <2>1. ~mem[m].renew
    BY <1>1 DEF ProtocolInv, LeaderInv, IsLeader
  <2>2. NoNew(m, FromLeader)
    BY <2>1, SentNoNew DEF Passive, Leases
  <2>3. NoNew(m, {"accept"})
    BY <2>1, SentNoNew DEF Passive, Leases
  <2>4. StillLeased(m)
    BY <1>1 DEF StillLeased, Passive, SameElectionOf
  <2>5. AcceptsBare(m)
    BY <2>3 DEF AcceptsBare, NoNew
  <2> QED BY <1>1, <2>2, <2>4, <2>5, SideReads
<1>2. CASE role[m] = "leader"
  <2>1. mem'[m].state = mem[m].state /\ mem'[m].renew = mem[m].renew /\ disk'[m] = disk[m]
        /\ mem'[m].accepted = mem[m].accepted /\ mem'[m].accepted_pn = mem[m].accepted_pn
    BY <1>2 DEF Passive
  <2>2. mem[m].renew => mem[m].state = "active"
    BY DEF ReadsInv, EpochsInv
  <2>3. \A x \in Leases(m) : Granted(m, x) /\ x.op # "accept" /\ (x.op = "victory" => x.epoch = epoch'[m])
    BY <2>1, <2>2 DEF Leases, Granted, SameElectionOf
  <2>4. LeadsOn(m) /\ (mem'[m].state \in Asking => AsksOn(m))
    BY <1>2, <2>1 DEF LeadsOn, AsksOn
  <2>5. role'[m] = "leader" /\ leader'[m] = m /\ quorum'[m] = quorum[m]
    BY <1>2 DEF SameElectionOf, ReadsInv, EpochsInv
  <2>6. PICK O : O = Leases(m)
    OBVIOUS
  <2>7. /\ \A p \in quorum'[m] \ {m} : Sent(m, p, O)
        /\ \A p \in Mons \ {m} : p \notin quorum'[m] => Quiet(m, p)
    <3>1. quorum[m] \subseteq Mons
      BY DEF ProtocolInv, TypesInv, ElectionTypeOK
    <3> QED BY <2>5, <2>6, <3>1 DEF Passive
  <2> QED BY <2>1, <2>2, <2>3, <2>4, <2>5, <2>6, <2>7, LeadReads
<1> QED BY <1>1, <1>2

\* What a peon has committed when it has a lease is as far as any commit of its leader goes.
LEMMA LeasedUpTo ==
    ASSUME ProtocolInv, ReadsInv, NEW m \in Mons, NEW t \in Msgs(net, leader[m], m), role[m] = "peon",
           t.op = "commit", t.epoch = epoch[m], mem[m].leased
    PROVE  t.lc <= disk[m].lc
<1>1. leader[m] \in Mons \ {m} /\ epoch[m] \in Nat
  BY Unwritten DEF ReadsInv, EpochsInv, ProtocolInv
<1>2. PICK k \in Counts : LeasedAt(net, role, leader, epoch, mem, disk, leader[m], epoch[m], k)
  BY <1>1 DEF ReadsInv, GrantsInv, GrantOK
<1> QED
  BY <1>1, <1>2 DEF LeasedAt

\* handle_commit: a peon with a lease has what the commit brings.
LEMMA CommitReads ==
    ASSUME ProtocolInv, ReadsInv, ProtocolInv', NEW m \in Mons, NEW from \in Mons \ {m}, handle_commit(from, m)
    PROVE  ReadsInv'
<1> DEFINE t == Taken(from, m)
<1>1. /\ Only(m) /\ SameElectionOf(m)
      /\ t \in Msgs(net, from, m) /\ t.op = "commit" /\ role[m] = "peon"
      /\ t.epoch = epoch[m] /\ leader[m] = from
      /\ mem'[m] = mem[m] /\ disk'[m] = store_state(disk[m], t)
      /\ \A p \in Mons \ {m} : Quiet(m, p)
  BY CommitStep
<1>2. NoNew(m, FromLeader) /\ NoNew(m, {"accept"})
  BY <1>1, QuietNoNew
<1>3. AcceptsBare(m)
  BY <1>2 DEF AcceptsBare, NoNew
<1>4. Merged(disk[m], t, disk'[m])
  <2> HIDE DEF t
  <2> QED BY <1>1, CommitMerged
<1> HIDE DEF t
<1>5. disk[m].lc \in Nat /\ disk'[m].lc \in Nat
  BY <1>4, Unwritten, StoreTypes DEF Merged, ProtocolInv
<1>6. ASSUME mem[m].leased PROVE disk'[m].lc = disk[m].lc
  <2>1. t.lc <= disk[m].lc
    BY <1>1, <1>6, LeasedUpTo
  <2> QED BY <1>4, <1>5, <2>1 DEF Merged
<1>7. StillLeased(m)
  BY <1>1, <1>6 DEF StillLeased, SameElectionOf
<1> QED
  BY <1>1, <1>2, <1>3, <1>7, SideReads

\* handle_collect keeps the lease of a peon.
LEMMA CollectReads ==
    ASSUME ProtocolInv, ReadsInv, ProtocolInv', NEW m \in Mons, NEW from \in Mons \ {m}, handle_collect(from, m)
    PROVE  ReadsInv'
<1>1. /\ Only(m) /\ SameElectionOf(m) /\ role[m] = "peon" /\ disk'[m].lc = disk[m].lc
      /\ mem'[m].leased = mem[m].leased
      /\ \A p \in Mons \ {m, from} : Quiet(m, p)
  BY CollectStep
<1>2. PICK ans : ans.op = "last" /\ Sent(m, from, {ans})
  BY CollectStep
<1>3. \A p \in Mons \ {m} : Sent(m, p, {ans})
  BY <1>1, <1>2, QuietSends
<1>4. NoNew(m, FromLeader) /\ NoNew(m, {"accept"})
  BY <1>2, <1>3, SentNoNew DEF FromLeader
<1>5. StillLeased(m) /\ AcceptsBare(m)
  BY <1>1, <1>4 DEF StillLeased, SameElectionOf, AcceptsBare, NoNew
<1> QED
  BY <1>1, <1>4, <1>5, SideReads

\* handle_begin: the lease is gone before the accept, and no other is on its way.
LEMMA BeginReads ==
    ASSUME ProtocolInv, ReadsInv, ProtocolInv', NEW m \in Mons, NEW from \in Mons \ {m}, handle_begin(from, m)
    PROVE  ReadsInv'
<1> DEFINE t == Taken(from, m)
<1>1. Only(m) /\ SameElectionOf(m)
  BY BeginStep
<1>2. CASE Passive(m)
  BY <1>1, <1>2, PassiveReads
<1>3. CASE ~Passive(m)
  <2>1. /\ t \in Msgs(net, from, m) /\ t.op = "begin" /\ t.pn = mem[m].accepted_pn /\ Takes(from, m)
        /\ ~mem'[m].leased /\ Sent(m, from, {AcceptOf(m)})
        /\ \A p \in Mons \ {m, from} : Quiet(m, p)
    BY <1>3, BeginStep
  <2>2. role[m] # "leader"
    <3>1. t.pn % Stride = from
      BY <2>1 DEF ProtocolInv, NumbersInv
    <3> QED BY <2>1, <3>1 DEF ProtocolInv, LeaderInv, IsLeader, Promise
  <2>3. \A p \in Mons \ {m} : Sent(m, p, {AcceptOf(m)})
    BY <2>1, QuietSends
  <2>4. AcceptOf(m).op = "accept" /\ AcceptOf(m).pn = mem[m].accepted_pn
    BY DEF AcceptOf
  <2>5. NoNew(m, FromLeader)
    BY <2>3, <2>4, SentNoNew DEF FromLeader
  <2>6. ASSUME NEW l \in Mons \ {m}, NEW y \in Msgs(net', m, l), role[l] = "leader", y.op = "accept",
               y \notin Msgs(net, m, l), y.pn = mem[l].accepted_pn
        PROVE  ~Leasing(net', role', leader', epoch', mem', l, m)
    <3>1. l = from /\ y = AcceptOf(m)
      BY <2>1, <2>6 DEF Quiet, Sent
    <3>2. LeaseOK(net, role, leader, epoch, mem, quorum, from, m)
      BY <2>6, <3>1 DEF ReadsInv, LeasesInv
    <3>3. epoch'[from] = epoch[from]
      BY <1>1 DEF Only
    <3>4. ASSUME NEW x \in Msgs(net', from, m), x.op = "lease" PROVE x.epoch # epoch[from]
      <4>1. Before(net, from, m, t, x)
        BY <2>1 DEF Takes
      <4> HIDE DEF t
      <4> QED BY <2>1, <2>4, <2>6, <3>1, <3>2, <3>4, <4>1 DEF LeaseOK
    <3> QED BY <2>1, <3>1, <3>3, <3>4 DEF Leasing
  <2>7. StillLeased(m) /\ AcceptsBare(m)
    BY <2>1, <2>6 DEF StillLeased, AcceptsBare
  <2> QED BY <1>1, <2>2, <2>5, <2>7, SideReads
<1> QED BY <1>2, <1>3

\* handle_accept: whoever is counted has no lease left.
LEMMA AcceptReads ==
    ASSUME ProtocolInv, ReadsInv, ProtocolInv', NEW m \in Mons, NEW from \in Mons \ {m}, handle_accept(from, m)
    PROVE  ReadsInv'
<1> DEFINE t == Taken(from, m)
<1>1. Only(m) /\ SameElectionOf(m) /\ disk' = disk
  BY AcceptStep
<1>2. CASE Passive(m)
  BY <1>1, <1>2, PassiveReads
<1>3. CASE ~Passive(m)
  <2>1. /\ t \in Msgs(net, from, m) /\ t.op = "accept" /\ t.pn = mem[m].accepted_pn /\ mem[m].state \in Updating
        /\ mem'[m].accepted_pn = mem[m].accepted_pn /\ mem'[m].accepted = mem[m].accepted \cup {from}
        /\ mem'[m].renew = mem[m].renew /\ mem'[m].leased = mem[m].leased
        /\ mem'[m].state = mem[m].state \/ mem'[m].state \in Writing
        /\ \A p \in Mons \ {m} : Quiet(m, p)
    BY <1>3, AcceptStep
  <2> HIDE DEF t
  <2>2. CASE role[m] # "leader"
    <3>1. NoNew(m, FromLeader) /\ NoNew(m, {"accept"})
      BY <2>1, QuietNoNew
    <3>2. StillLeased(m) /\ AcceptsBare(m)
      BY <1>1, <2>1, <3>1 DEF StillLeased, SameElectionOf, AcceptsBare, NoNew
    <3> QED BY <1>1, <2>2, <3>1, <3>2, SideReads
  <2>3. CASE role[m] = "leader"
    <3>1. mem[m].state \in Asking /\ mem[m].state # "active" /\ mem'[m].state # "recovering"
      BY <2>1 DEF Asking, Updating, Writing
    <3>2. ~mem'[m].renew
      BY <2>1, <3>1 DEF ReadsInv, EpochsInv
    <3>3. LeadsOn(m) /\ AsksOn(m)
      BY <1>1, <2>1, <2>3, <3>1 DEF LeadsOn, AsksOn
    <3>4. role'[m] = "leader" /\ leader'[m] = m
      BY <1>1, <2>3 DEF SameElectionOf, ReadsInv, EpochsInv
    <3>5. quorum'[m] \subseteq Mons
      BY DEF ProtocolInv, TypesInv, ElectionTypeOK
    <3>6. PICK O : O = {}
      OBVIOUS
    <3>7. \A p \in quorum'[m] \ {m} : Sent(m, p, O)
      BY <2>1, <3>5, QuietSends
    <3> QED BY <1>1, <2>1, <3>2, <3>3, <3>4, <3>6, <3>7, LeadReads
  <2> QED BY <2>2, <2>3
<1> QED BY <1>2, <1>3

\* Elections keep ReadsInv: whoever rests has no lease.
LEMMA RetireReads ==
    ASSUME ProtocolInv, ReadsInv, NEW m \in Mons, NEW from \in Mons,
           StartElection(m) \/ HandleVictory(from, m) \/ DropOrBootstrap(from, m)
    PROVE  ReadsInv'
<1>1. /\ TypesInv' /\ Only(m) /\ \A l, p \in Mons : l # p => Quiet(l, p)
      /\ mem'[m] = Resting(mem[m].accepted_pn) /\ role'[m] # "leader" /\ (role'[m] = "peon" => Follows(m))
  BY RetireStep
<1>2. mem[m].accepted_pn \in Nat
  BY Unwritten, MemoryTypes DEF ProtocolInv
<1>3. ~mem'[m].leased /\ ~mem'[m].renew
  BY <1>1, <1>2, RestingIs
<1> QED
  BY <1>1, <1>3, RestReads

\* A crash keeps ReadsInv.
LEMMA CrashReads ==
    ASSUME ProtocolInv, ReadsInv, NEW m \in Mons, Crash(m)
    PROVE  ReadsInv'
<1>1. /\ TypesInv' /\ Only(m) /\ \A l, p \in Mons : l # p => Quiet(l, p)
      /\ mem'[m] = Resting(disk[m].accepted_pn) /\ role'[m] = "electing"
  BY CrashStep
<1>2. disk[m].accepted_pn \in Nat
  BY Unwritten, StoreTypes DEF ProtocolInv
<1>3. ~mem'[m].leased /\ ~mem'[m].renew
  BY <1>1, <1>2, RestingIs
<1> QED
  BY <1>1, <1>3, RestReads

\* A leader none of whose leases is left may commit more.
LEMMA UnleasedRound ==
    ASSUME ProtocolInv, ReadsInv, NEW m \in Mons, role[m] = "leader", SameElectionOf(m),
           \A p \in Mons \ {m} : ~Leasing(net, role, leader, epoch, mem, m, p),
           disk'[m].lc \in Nat, disk'[m].lc >= disk[m].lc
    PROVE  Unleased(m)
<1>1. epoch[m] \in Nat /\ disk[m].lc \in Nat /\ epoch'[m] = epoch[m]
  BY Unwritten, StoreTypes DEF ProtocolInv, SameElectionOf
<1>2. PICK k \in Counts : LeasedAt(net, role, leader, epoch, mem, disk, m, epoch[m], k) /\ k = disk[m].lc
  BY <1>1 DEF ReadsInv, GrantsInv, GrantOK
<1>3. ASSUME NEW p \in Mons \ {m}, NEW x \in Msgs(net, m, p), x.epoch = epoch[m], x.op = "commit"
      PROVE  x.lc <= disk'[m].lc
  <2>1. x.lc \in Nat
    BY <1>3, CommitShape, Bounds
  <2>2. x.lc <= disk[m].lc
    BY <1>2, <1>3 DEF LeasedAt
  <2> QED BY <1>1, <2>1, <2>2
<1>4. ASSUME NEW p \in Mons \ {m}
      PROVE  /\ ~(role[p] = "peon" /\ leader[p] = m /\ epoch[p] = epoch[m] /\ mem[p].leased)
             /\ \A x \in Msgs(net, m, p) : x.epoch = epoch[m] => x.op # "lease"
  BY DEF Leasing
<1> QED
  BY <1>1, <1>3, <1>4 DEF Unleased

\* Propose keeps ReadsInv: the leases stay until the begin comes.
LEMMA ProposeReads ==
    ASSUME ProtocolInv, ReadsInv, ProtocolInv', NEW m \in Mons, Propose(m)
    PROVE  ReadsInv'
<1>1. Only(m) /\ SameElectionOf(m) /\ role[m] = "leader" /\ mem[m].state = "active" /\ disk[m].lc + 1 \in Versions
  BY ProposeStep
<1>2. PICK val, x :
        /\ val \in Values \ {NoValue}
        /\ disk'[m] = Accepted(disk[m], val, mem[m].accepted_pn)
        /\ mem'[m].state = "updating" /\ mem'[m].accepted_pn = mem[m].accepted_pn
        /\ mem'[m].accepted = {m} /\ ~mem'[m].renew
        /\ IsBegin(x, m, disk[m].lc, val)
        /\ \A p \in quorum[m] \ {m} : Sent(m, p, {x})
        /\ \A p \in Mons \ {m} : p \notin quorum[m] => Quiet(m, p)
  BY ProposeStep
<1>3. x.op = "begin" /\ val \in Values
  BY <1>2 DEF IsBegin
<1>4. disk'[m].lc = disk[m].lc
  BY <1>1, <1>2, <1>3, LeaderNumber, AcceptedIs
<1>5. LeadsOn(m) /\ AsksOn(m)
  BY <1>1, <1>2, <1>4 DEF LeadsOn, AsksOn
<1>6. role'[m] = "leader" /\ leader'[m] = m /\ quorum'[m] = quorum[m]
  BY <1>1 DEF SameElectionOf, ReadsInv, EpochsInv
<1>7. PICK O : O = {x}
  OBVIOUS
<1>8. \A z \in O : Granted(m, z) /\ z.op # "accept" /\ (z.op = "victory" => z.epoch = epoch'[m])
  BY <1>3, <1>7 DEF Granted
<1> QED
  BY <1>1, <1>2, <1>5, <1>6, <1>7, <1>8, LeadReads

\* commit_finish keeps ReadsInv: all of the quorum has accepted, so no lease is left.
LEMMA FinishReads ==
    ASSUME ProtocolInv, ReadsInv, ProtocolInv', NEW m \in Mons, CommitFinish(m)
    PROVE  ReadsInv'
<1>1. /\ Only(m) /\ SameElectionOf(m) /\ mem[m].state \in Writing
      /\ disk'[m] = [disk[m] EXCEPT !.lc = @ + 1] /\ mem'[m].state = "active"
      /\ \A p \in Mons \ {m} : p \notin quorum[m] => Quiet(m, p)
  BY FinishStep
<1>2. PICK x, y : /\ IsCommit(x, disk[m].lc + 1, mem[m].new_value) /\ IsLease(y, m, disk[m].lc + 1)
                  /\ x.epoch = epoch[m]
                  /\ \A p \in quorum[m] \ {m} : Sent(m, p, {x, y})
  BY FinishStep
<1>3. role[m] = "leader" /\ disk[m].lc + 1 \in Versions /\ mem[m].accepted = quorum[m]
  BY <1>1, WritingIs
<1>4. disk[m].lc \in Nat /\ disk'[m].lc = disk[m].lc + 1
  BY <1>1, <1>3, Unwritten, StoreTypes, CommittingIs DEF ProtocolInv
<1>5. \A p \in Mons \ {m} : ~Leasing(net, role, leader, epoch, mem, m, p)
  <2>1. mem[m].state \in Asking
    BY <1>1 DEF Asking
  <2>2. \A p \in Mons \ {m} : LeaseOK(net, role, leader, epoch, mem, quorum, m, p)
    BY <1>3 DEF ReadsInv, LeasesInv
  <2> HIDE DEF Leasing
  <2> QED BY <1>3, <2>1, <2>2 DEF LeaseOK
<1>6. Unleased(m)
  <2>1. disk'[m].lc \in Nat /\ disk'[m].lc >= disk[m].lc
    BY <1>4
  <2>2. SameElectionOf(m) /\ role[m] = "leader"
    BY <1>1, <1>3
  <2> QED BY <1>5, <2>1, <2>2, UnleasedRound
<1>7. role'[m] = "leader" /\ leader'[m] = m /\ quorum'[m] = quorum[m] /\ epoch'[m] = epoch[m]
  BY <1>1, <1>3 DEF SameElectionOf, ReadsInv, EpochsInv
<1>8. mem'[m].state \notin Asking
  BY <1>1 DEF Asking, Updating, Writing
<1>9. PICK O : O = {x, y}
  OBVIOUS
<1>10. \A z \in O : Granted(m, z) /\ z.op # "accept" /\ (z.op = "victory" => z.epoch = epoch'[m])
  BY <1>1, <1>2, <1>4, <1>7, <1>9 DEF Granted, IsCommit, IsLease
<1> QED
  BY <1>1, <1>2, <1>6, <1>7, <1>8, <1>9, <1>10, LeadReads

\* handle_last keeps ReadsInv: whoever collects has no lease out.
LEMMA LastReads ==
    ASSUME ProtocolInv, ReadsInv, ProtocolInv', NEW m \in Mons, NEW from \in Mons \ {m}, handle_last(from, m)
    PROVE  ReadsInv'
<1>1. PICK t : t = Taken(from, m)
  OBVIOUS
<1>2. /\ Only(m) /\ SameElectionOf(m) /\ TypesInv'
      /\ t \in Msgs(net, from, m) /\ t.op = "last" /\ role[m] = "leader" /\ t.epoch = epoch[m]
      /\ \A p \in Mons \ {m} : p \notin quorum[m] => Quiet(m, p)
  BY <1>1, LastStep
<1>3. PICK d, u : /\ Merged(disk[m], t, d)
                  /\ u \in Uncommitteds
                  /\ \/ LastAgain(m, t, d) \/ LastMore(from, m, t, d, u) \/ LastBegin(from, m, t, d, u)
                     \/ LastActive(from, m, t, d, u) \/ LastStale(m, t, d)
  BY <1>1, LastStep
<1>4. d \in Store /\ d.lc \in Nat /\ d.lc >= disk[m].lc /\ d.last_pn = disk[m].last_pn /\ disk[m].last_pn \in Nat
  BY <1>3, Unwritten, StoreTypes DEF Merged, ProtocolInv
<1>5. mem[m].state = "recovering" /\ mem[m].state \notin Asking /\ ~mem[m].renew
  <2>1. mem[m].state = "recovering"
    BY <1>2, LastIsNew
  <2> QED BY <2>1 DEF Asking, Updating, Writing, ReadsInv, EpochsInv
<1>6. \A p \in Mons \ {m} : ~Leasing(net, role, leader, epoch, mem, m, p)
  <2>1. \A p \in Mons \ {m} : LeaseOK(net, role, leader, epoch, mem, quorum, m, p)
    BY <1>2 DEF ReadsInv, LeasesInv
  <2> HIDE DEF Leasing
  <2> QED BY <1>5, <2>1 DEF LeaseOK
<1>7. /\ disk'[m].lc = d.lc
      /\ mem'[m].renew => mem'[m].state = "active"
      /\ mem'[m].state \in Asking => mem'[m].accepted = {m} /\ mem'[m].accepted_pn = mem[m].accepted_pn
      /\ \E O : /\ Told(m, O)
                /\ \A x \in O : x \in Shares(m, d) \/ x.op \in {"collect", "begin"}
                                 \/ (IsLease(x, m, d.lc) /\ mem'[m].state = "active")
  <2>1. CASE LastAgain(m, t, d)
    <3>1. mem'[m].accepted_pn \in Nat
      BY <1>2, MemoryTypes DEF TypesInv
    <3>2. disk'[m].lc = d.lc
      BY <1>4, <2>1, <3>1, RoundStore DEF LastAgain, NewRound
    <3>3. mem'[m].state \notin Asking /\ ~mem'[m].renew
      BY <2>1 DEF LastAgain, NewRound, Asking, Updating, Writing
    <3>4. PICK y : y.op = "collect" /\ Told(m, Shares(m, d) \cup {y})
      BY <2>1 DEF LastAgain, IsCollect
    <3> QED BY <3>2, <3>3, <3>4
  <2>2. CASE LastMore(from, m, t, d, u)
    BY <1>5, <2>2 DEF LastMore, SameRound
  <2>3. CASE LastBegin(from, m, t, d, u)
    <3>1. disk'[m].lc = d.lc
      <4>1. u.val \in Values /\ mem[m].accepted_pn \in Nat
        BY <1>2, <1>3, LeaderNumber DEF Uncommitteds
      <4> QED BY <1>4, <2>3, <4>1, AcceptedIs DEF LastBegin
    <3>2. PICK y : y.op = "begin" /\ Told(m, Shares(m, d) \cup {y})
      BY <2>3 DEF LastBegin, IsBegin
    <3> QED BY <2>3, <3>1, <3>2 DEF LastBegin
  <2>4. CASE LastActive(from, m, t, d, u)
    <3>1. mem'[m].state \notin Asking
      BY <2>4 DEF LastActive, Asking, Updating, Writing
    <3>2. PICK y : IsLease(y, m, d.lc) /\ Told(m, Shares(m, d) \cup {y})
      BY <2>4 DEF LastActive
    <3> QED BY <2>4, <3>1, <3>2 DEF LastActive
  <2>5. CASE LastStale(m, t, d)
    BY <1>5, <2>5 DEF LastStale, SameRound
  <2> QED BY <1>3, <2>1, <2>2, <2>3, <2>4, <2>5
<1>8. PICK O : /\ Told(m, O)
               /\ \A x \in O : x \in Shares(m, d) \/ x.op \in {"collect", "begin"}
                                \/ (IsLease(x, m, d.lc) /\ mem'[m].state = "active")
  BY <1>7
<1>9. role'[m] = "leader" /\ leader'[m] = m /\ quorum'[m] = quorum[m] /\ epoch'[m] = epoch[m]
  BY <1>2 DEF SameElectionOf, ReadsInv, EpochsInv
<1>10. \A z \in O : Granted(m, z) /\ z.op # "accept" /\ (z.op = "victory" => z.epoch = epoch'[m])
  BY <1>4, <1>7, <1>8, <1>9 DEF Granted, Shares, IsLease
<1>11. Unleased(m)
  BY <1>2, <1>4, <1>6, <1>7, UnleasedRound
<1>12. mem'[m].state \in Asking => AsksOn(m)
  BY <1>2, <1>7 DEF AsksOn
<1>13. \A p \in quorum'[m] \ {m} : Sent(m, p, O)
  BY <1>8, <1>9 DEF Told
<1> QED
  BY <1>2, <1>7, <1>9, <1>10, <1>11, <1>12, <1>13, LeadReads

\* win_election keeps ReadsInv: nobody has a lease of an epoch that begins.
LEMMA VictoryReads ==
    ASSUME ProtocolInv, ReadsInv, ProtocolInv', NEW m \in Mons, NEW Q \in SUBSET Mons, DeclareVictory(m, Q)
    PROVE  ReadsInv'
<1>1. /\ Only(m) /\ role'[m] = "leader" /\ quorum'[m] = Q /\ epoch'[m] = epoch[m] + 1 /\ leader'[m] = m
      /\ NewRound(m, disk[m])
      /\ \A p \in Mons \ {m} : p \notin Q => Quiet(m, p)
  BY VictoryStep
<1>2. PICK x, y : /\ x.op = "victory" /\ x.epoch = epoch'[m] /\ IsCollect(y, m, epoch'[m], disk[m].lc)
                  /\ \A p \in Q \ {m} : Sent(m, p, {x, y})
  BY VictoryStep
<1>3. epoch[m] \in Nat
  BY Unwritten DEF ProtocolInv
<1>4. Unleased(m)
  <2>1. ASSUME NEW p \in Mons \ {m}, role[p] = "peon", leader[p] = m PROVE epoch[p] # epoch'[m]
    <3>1. epoch[p] <= epoch[m] /\ epoch[p] \in Nat
      BY <2>1, Unwritten DEF ReadsInv, EpochsInv, ProtocolInv
    <3> QED BY <1>1, <1>3, <3>1
  <2>2. ASSUME NEW p \in Mons \ {m}, NEW z \in Msgs(net, m, p), z.op \in FromLeader PROVE z.epoch # epoch'[m]
    <3>1. z.epoch <= epoch[m] /\ z.epoch \in Nat
      BY <2>2, OnTheWay, MessageTypes DEF ReadsInv, EpochsInv, ProtocolInv
    <3> QED BY <1>1, <1>3, <3>1
  <2> QED BY <2>1, <2>2 DEF Unleased, FromLeader
<1>5. mem'[m].state \notin Asking /\ ~mem'[m].renew
  BY <1>1 DEF NewRound, Asking, Updating, Writing
<1>6. PICK O : O = {x, y}
  OBVIOUS
<1>7. \A z \in O : Granted(m, z) /\ z.op # "accept" /\ (z.op = "victory" => z.epoch = epoch'[m])
  BY <1>2, <1>6 DEF Granted, IsCollect
<1> QED
  BY <1>1, <1>2, <1>4, <1>5, <1>6, <1>7, LeadReads

\* The monitors start without leases.
LEMMA InitReads ==
    ASSUME Init
    PROVE  ReadsInv
<1>1. \A m \in Mons : role[m] = "electing" /\ ~mem[m].renew
  <2>1. Resting(0).renew = FALSE
    BY RestingIs
  <2> QED BY <2>1 DEF Init, ElectionInit
<1>2. \A l, p \in Mons : l # p => Msgs(net, l, p) = {}
  <2>1. SUFFICES ASSUME NEW l \in Mons, NEW p \in Mons, l # p
                 PROVE  Msgs(net, l, p) = {}
    OBVIOUS
  <2>2. net[<<l, p>>] = <<>>
    BY <2>1 DEF Init, Channels
  <2>3. Msgs(net, l, p) = Elems(<<>>)
    BY <2>2 DEF Msgs
  <2> QED BY <2>3, ShortSequences
<1>3. EpochsInv /\ LeasesInv
  BY <1>1, <1>2 DEF EpochsInv, LeasesInv
<1>4. \A l \in Mons : \A e \in Nat : LeasedAt(net, role, leader, epoch, mem, disk, l, e, 0)
  BY <1>1, <1>2 DEF LeasedAt
<1>5. GrantsInv
  BY <1>1, <1>4, Bounds DEF GrantsInv, GrantOK
<1> QED BY <1>3, <1>5 DEF ReadsInv

\* Every step keeps ReadsInv.
LEMMA NextReads ==
    ASSUME ProtocolInv, ReadsInv, Next
    PROVE  ReadsInv'
<1>0. ProtocolInv' BY NextProtocol
<1>1. ASSUME NEW m \in Mons, StartElection(m) PROVE ReadsInv' BY <1>1, RetireReads
<1>2. ASSUME NEW m \in Mons, Crash(m) PROVE ReadsInv' BY <1>2, CrashReads
<1>3. ASSUME NEW m \in Mons, Propose(m) PROVE ReadsInv' BY <1>0, <1>3, ProposeReads
<1>4. ASSUME NEW m \in Mons, CommitFinish(m) PROVE ReadsInv' BY <1>0, <1>4, FinishReads
<1>5. ASSUME NEW m \in Mons, lease_renew_timeout(m) PROVE ReadsInv' BY <1>0, <1>5, RenewStep, PassiveReads
<1>6. ASSUME NEW m \in Mons, NEW Q \in SUBSET Mons, DeclareVictory(m, Q) PROVE ReadsInv'
  BY <1>0, <1>6, VictoryReads
<1>7. ASSUME NEW m \in Mons, NEW from \in Mons \ {m}, HandleVictory(from, m) \/ DropOrBootstrap(from, m) PROVE ReadsInv'
  BY <1>7, RetireReads
<1>8. ASSUME NEW m \in Mons, NEW from \in Mons \ {m}, handle_collect(from, m) PROVE ReadsInv'
  BY <1>0, <1>8, CollectReads
<1>9. ASSUME NEW m \in Mons, NEW from \in Mons \ {m}, handle_last(from, m) PROVE ReadsInv'
  BY <1>0, <1>9, LastReads
<1>10. ASSUME NEW m \in Mons, NEW from \in Mons \ {m}, handle_begin(from, m) PROVE ReadsInv'
  BY <1>0, <1>10, BeginReads
<1>11. ASSUME NEW m \in Mons, NEW from \in Mons \ {m}, handle_accept(from, m) PROVE ReadsInv'
  BY <1>0, <1>11, AcceptReads
<1>12. ASSUME NEW m \in Mons, NEW from \in Mons \ {m}, handle_commit(from, m) PROVE ReadsInv'
  BY <1>0, <1>12, CommitReads
<1>13. ASSUME NEW m \in Mons, NEW from \in Mons \ {m}, handle_lease(from, m) PROVE ReadsInv'
  BY <1>0, <1>13, LeaseStep, PassiveReads
<1>14. QED BY <1>1, <1>2, <1>3, <1>4, <1>5, <1>6, <1>7, <1>8, <1>9, <1>10, <1>11, <1>12, <1>13 DEF Next

\* ReadsInv is about the variables of MonPaxos.
LEMMA StutterReads ==
    ASSUME ReadsInv, UNCHANGED vars
    PROVE  ReadsInv'
<1>1. /\ role' = role /\ epoch' = epoch /\ leader' = leader /\ quorum' = quorum /\ disk' = disk /\ mem' = mem
      /\ net' = net
  BY DEF vars, electionVars, paxosVars
<1> QED
  BY <1>1 DEF ReadsInv, EpochsInv, LeasesInv, GrantsInv

\* What the leases of an epoch are worth: a leader's commits and leases are all of the
\* versions it leases at, and nobody holds a lease once it has accepted more.
THEOREM PaxosLeases == Spec => []ReadsInv
<1>1. Init => ReadsInv
  BY InitReads
<1>2. ProtocolInv /\ ReadsInv /\ [Next]_vars => ReadsInv'
  BY NextReads, StutterReads
<1> QED
  BY <1>1, <1>2, PaxosProtocol, PTL DEF Spec

\* Whoever may read in one epoch reads the versions leased in it.
LEMMA SameReadsHolds ==
    ASSUME ProtocolInv, ReadsInv
    PROVE  SameReads
<1>1. ASSUME NEW m \in Mons, NEW l \in Mons, NEW e \in Nat, NEW k,
             LeasedAt(net, role, leader, epoch, mem, disk, l, e, k),
             role[l] = "leader" /\ e = epoch[l] => k = disk[l].lc,
             Readable(m), leader[m] = l, epoch[m] = e
      PROVE  disk[m].lc = k
  <2>1. role[m] \in {"leader", "peon"} /\ mem[m].leased
    BY <1>1 DEF Readable, ProtocolInv, TypesInv, ElectionTypeOK
  <2>2. role[m] = "leader" => l = m
    BY <1>1 DEF ReadsInv, EpochsInv
  <2> QED BY <1>1, <2>1, <2>2 DEF LeasedAt
<1>2. ASSUME NEW m \in Mons, NEW n \in Mons, Readable(m), Readable(n), epoch[m] = epoch[n], leader[m] = leader[n]
      PROVE  disk[m].lc = disk[n].lc
  <2>1. leader[m] \in Mons /\ epoch[m] \in Nat
    <3>1. role[m] \in {"leader", "peon"} /\ epoch[m] \in Nat
      BY <1>2 DEF Readable, ProtocolInv, TypesInv, ElectionTypeOK
    <3> QED BY <3>1 DEF ReadsInv, EpochsInv
  <2>2. PICK k \in Counts : LeasedAt(net, role, leader, epoch, mem, disk, leader[m], epoch[m], k)
            /\ (role[leader[m]] = "leader" /\ epoch[m] = epoch[leader[m]] => k = disk[leader[m]].lc)
    BY <2>1 DEF ReadsInv, GrantsInv, GrantOK
  <2>3. disk[m].lc = k
    BY <1>1, <1>2, <2>1, <2>2
  <2>4. disk[n].lc = k
    BY <1>1, <1>2, <2>1, <2>2
  <2> QED BY <2>3, <2>4
<1> QED
  BY <1>2 DEF SameReads

\* Those who may serve reads in one quorum serve the same version, whoever has crashed
\* and whatever is on the way (Paxos::begin, extend_lease and is_readable).
THEOREM PaxosSameReads == Spec => []SameReads
BY PaxosProtocol, PaxosLeases, SameReadsHolds, PTL
=============================================================================
