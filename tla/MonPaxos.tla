----------------------------- MODULE MonPaxos ------------------------------
(***************************************************************************)
(* The monitors' Paxos (Paxos.cc) on top of their elections (MonElection): *)
(* a leader collects what its quorum has promised and accepted, begins a   *)
(* value, commits it once the whole quorum has accepted it, and leases the *)
(* state it has committed to its peons, which serve reads from it.         *)
(*                                                                         *)
(* A value is the number of the proposal it was first proposed in.  Trimmed*)
(* versions, store synchronization and changes of the monmap are left out, *)
(* so the first committed version is 1 and no version is missing.          *)
(***************************************************************************)
EXTENDS MonElection, Sequences, FiniteSetsExt

CONSTANTS
    Stride,        \* how far apart proposal numbers are, 100 in the code
    MaxVersion,    \* bound on the versions
    MaxProposals,  \* bound on the values proposed
    MaxRenewals,   \* bound on the leases renewed
    MaxCrashes     \* bound on the crashes

ASSUME PaxosConstants ==
    /\ Stride \in Nat /\ \A m \in Mons : m < Stride
    /\ MaxVersion \in Nat /\ MaxProposals \in Nat /\ MaxRenewals \in Nat /\ MaxCrashes \in Nat

VARIABLES
    disk,      \* what each monitor has stored
    mem,       \* what it loses in a crash
    net,       \* the messages on the way from one monitor to another
    proposals, renewals, crashes,  \* how many there have been
    votes,     \* history: every value a monitor has stored for a version, under a number
    counted    \* history: <<pn, p>> for every answer of p that the round of pn has counted

paxosVars == <<disk, mem, net, proposals, renewals, crashes>>
paxosHistory == <<votes, counted>>
vars == <<electionVars, paxosVars, paxosHistory>>

Versions == 1..MaxVersion
Channels == {c \in Mons \X Mons : c[1] # c[2]}
NoValue == 0

\* last_committed, the values of the versions, pending_v, pending_pn, accepted_pn, last_pn
BlankDisk ==
    [lc |-> 0, vals |-> [v \in Versions |-> NoValue],
     pending_v |-> 0, pending_pn |-> 0, accepted_pn |-> 0, last_pn |-> 0]

\* A monitor outside of any round.  What the fields of a round held before is never
\* read again: collect and begin set them.
Resting(pn) ==
    [state |-> "recovering", accepted_pn |-> pn, num_last |-> 0,
     uncommitted |-> [v |-> 0, pn |-> 0, val |-> NoValue],
     peer_lc |-> [p \in {} |-> 0], accepted |-> {}, new_value |-> NoValue,
     leased |-> FALSE, renew |-> FALSE]

Init ==
    /\ ElectionInit
    /\ disk = [m \in Mons |-> BlankDisk]
    /\ mem = [m \in Mons |-> Resting(0)]
    /\ net = [c \in Channels |-> <<>>]
    /\ proposals = 0 /\ renewals = 0 /\ crashes = 0
    /\ votes = {} /\ counted = {}

-----------------------------------------------------------------------------
(* The network.                                                            *)

\* Monitor::dispatch_op and Elector::dispatch drop a message of an older epoch.
\* Epochs only grow, so it may as well be dropped as soon as the receiver is past it;
\* a sender's messages come in the order of their epochs.
Current(c, msgs) ==
    LET current == {i \in 1..Len(msgs) : msgs[i].epoch >= epoch'[c[2]]}
    IN  SubSeq(msgs, Min(current \cup {Len(msgs) + 1}), Len(msgs))

\* m takes the message from from (m itself: takes none) and sends out[p] to each p.
Exchange(from, m, out) ==
    net' = [c \in Channels |->
        IF c[1] = m /\ c[2] \in DOMAIN out THEN Current(c, net[c] \o out[c[2]])
        ELSE IF c = <<from, m>> THEN Current(c, Tail(net[c]))
        ELSE IF c[2] = m THEN Current(c, net[c])
        ELSE net[c]]

Nothing == [p \in {} |-> <<>>]
ToPeers(m, msg) == [p \in quorum[m] \ {m} |-> <<msg>>]

Arrives(from, m, op) == net[<<from, m>>] # <<>> /\ Head(net[<<from, m>>]).op = op

\* A Paxos message that dispatch hands on: of this epoch, outside of an election, and
\* past its assertion.  A monitor that fails an assertion stops there, so what dispatch
\* and the handlers assert is a guard here; AssertsHold says that none of them fails.
Dispatched(from, m, op) ==
    /\ Arrives(from, m, op)
    /\ Head(net[<<from, m>>]).epoch = epoch[m]
    /\ role[m] # "electing"
    /\ role[m] = "leader" \/ leader[m] = from

Idle == UNCHANGED <<proposals, renewals, crashes>>
NoVote == UNCHANGED paxosHistory
Vote(m, v, pn, val) == votes' = votes \cup {[mon |-> m, v |-> v, pn |-> pn, val |-> val]}
Count(pn, p) == counted' = counted \cup {<<pn, p>>}
SameElection == UNCHANGED electionVars

-----------------------------------------------------------------------------
(* What a monitor does with its store.                                     *)

\* Fault: the number the new one must exceed is ignored.
NextPnOfStore(d, m, gt) == (d.last_pn \div Stride + 1) * Stride + m

\* get_new_proposal_number
NextPn(d, m, gt) == (Max({d.last_pn, gt}) \div Stride + 1) * Stride + m

\* The value accepted but not committed, and under which proposal number; a store
\* without that number is taken to have accepted it under pn.
Uncommitted(d, pn) ==
    LET v == d.lc + 1
    IN  IF v \in Versions /\ d.vals[v] # NoValue
        THEN [v |-> v, pn |-> IF d.pending_v = v THEN d.pending_pn ELSE pn, val |-> d.vals[v]]
        ELSE [v |-> 0, pn |-> 0, val |-> NoValue]

\* share_state, for a peer that has committed up to lc
Shared(d, lc) == [v \in (lc + 1)..d.lc |-> d.vals[v]]

\* the versions of a message that store_state writes and commits
Stored(d, msg) ==
    IF msg.vals # <<>> /\ Min(DOMAIN msg.vals) > d.lc + 1 THEN {}
    ELSE {v \in DOMAIN msg.vals : d.lc < v /\ v <= msg.lc}

store_state(d, msg) ==
    LET S == Stored(d, msg)
    IN  [d EXCEPT !.lc = Max(S \cup {@}),
                  !.vals = [v \in Versions |-> IF v \in S THEN msg.vals[v] ELSE @[v]]]

\* a value accepted for the next version, under pn
Accepted(d, val, pn) ==
    [d EXCEPT !.vals[d.lc + 1] = val, !.pending_v = d.lc + 1, !.pending_pn = pn]

-----------------------------------------------------------------------------
(* Elections, and what they do to a round.                                 *)

\* Paxos::restart; a commit that is being written is waited for, so CommitFinish
\* comes before.
Restart(m) == ~(mem[m].state \in {"writing", "writing_previous"})

StartElection(m) ==
    /\ Restart(m)
    /\ \E e \in Epochs :
        /\ e % 2 = 1
        /\ e = epoch[m] + 1 \/ e = epoch[m] + 2 \/ \E p \in Mons : epoch[p] >= e
        /\ e > epoch[m]
        /\ Leave(m, e)
    /\ mem' = [mem EXCEPT ![m] = Resting(@.accepted_pn)]
    /\ Exchange(m, m, Nothing)
    /\ Idle /\ NoVote /\ UNCHANGED disk

\* collect: the state and the store a leader starts a round with.  Only the number
\* is stored here: the leader's own promise lasts as long as it runs.
Collecting(d, s, m, oldpn) ==
    [Resting(NextPn(d, m, Max({s.accepted_pn, oldpn}))) EXCEPT
        !.num_last = 1, !.uncommitted = Uncommitted(d, s.accepted_pn)]

Collect(e, d, pn) == [op |-> "collect", epoch |-> e, pn |-> pn, lc |-> d.lc]

\* win_election, leader_init; the victory goes first.  The strategy is "classic":
\* nobody acks a higher rank than its own.
DeclareVictory(l, Q) ==
    /\ role[l] = "electing"
    /\ \A q \in Q : q >= l
    /\ Claim(l, Q)
    /\ epoch[l] + 1 \in Epochs
    /\ LET s == Collecting(disk[l], mem[l], l, 0)
       IN  /\ mem' = [mem EXCEPT ![l] = s]
           /\ disk' = [disk EXCEPT ![l].last_pn = s.accepted_pn]
           /\ Exchange(l, l, [p \in Q \ {l} |->
                  <<[op |-> "victory", epoch |-> epoch[l] + 1, quorum |-> Q],
                    Collect(epoch[l] + 1, disk[l], s.accepted_pn)>>])
    /\ Idle /\ NoVote

\* lose_election and peon_init, or another election if it was not this one.
HandleVictory(from, m) ==
    /\ Arrives(from, m, "victory")
    /\ Restart(m)
    /\ LET msg == Head(net[<<from, m>>])
       IN  \/ Follow(m, [leader |-> from, epoch |-> msg.epoch, quorum |-> msg.quorum])
           \/ /\ msg.epoch # epoch[m] + 1
              /\ msg.epoch + 1 \in Epochs
              /\ Leave(m, msg.epoch + 1)
    /\ mem' = [mem EXCEPT ![m] = Resting(@.accepted_pn)]
    /\ Exchange(from, m, Nothing)
    /\ Idle /\ NoVote /\ UNCHANGED disk

\* A message of a newer epoch makes the monitor bootstrap; during an election a
\* Paxos message is dropped.
DropOrBootstrap(from, m) ==
    /\ net[<<from, m>>] # <<>>
    /\ LET msg == Head(net[<<from, m>>])
       IN  /\ msg.op # "victory"
           /\ msg.epoch > epoch[m] \/ role[m] = "electing"
           /\ IF msg.epoch > epoch[m] THEN Leave(m, epoch[m]) ELSE SameElection
    /\ Restart(m)
    /\ mem' = [mem EXCEPT ![m] = Resting(@.accepted_pn)]
    /\ Exchange(from, m, Nothing)
    /\ Idle /\ NoVote /\ UNCHANGED disk

\* m stops and starts again.  A commit being written may or may not have reached the
\* store; the connections of m are reset at both ends.  The next election of m is
\* a new one, the first apart, whose epoch is not stored (ElectionLogic::init).
Crash(m) ==
    /\ crashes < MaxCrashes
    /\ Leave(m, IF epoch[m] % 2 = 1 /\ epoch[m] > 1 THEN epoch[m] + 1 ELSE epoch[m])
    /\ \/ UNCHANGED disk
       \/ /\ ~Restart(m)
          /\ disk' = [disk EXCEPT ![m].lc = @ + 1]
    /\ mem' = [mem EXCEPT ![m] = Resting(disk[m].accepted_pn)]
    /\ net' = [c \in Channels |-> IF m \in {c[1], c[2]} THEN <<>> ELSE net[c]]
    /\ crashes' = crashes + 1
    /\ NoVote /\ UNCHANGED <<proposals, renewals>>

-----------------------------------------------------------------------------
(* A round.                                                                *)

Begin(m, d, s, val) ==
    [op |-> "begin", epoch |-> epoch[m], pn |-> s.accepted_pn, lc |-> d.lc, val |-> val]

\* begin: the state of a leader that asks its quorum to accept val
Beginning(m, s, val, state) ==
    [Resting(s.accepted_pn) EXCEPT !.state = state, !.num_last = s.num_last,
        !.accepted = {m}, !.new_value = val, !.leased = s.leased]

Lease(m, d) == [op |-> "lease", epoch |-> epoch[m], lc |-> d.lc]

\* extend_lease and finish_round
Active(s) == [Resting(s.accepted_pn) EXCEPT !.state = "active", !.num_last = s.num_last,
                  !.leased = TRUE, !.renew = TRUE]

\* Fault: the promise is not stored.
PromisedInMemory(d, pn) == d

Promised(d, pn) == [d EXCEPT !.accepted_pn = pn]

handle_collect(from, m) ==
    /\ Dispatched(from, m, "collect") /\ role[m] = "peon" /\ SameElection
    /\ LET msg == Head(net[<<from, m>>])
           d == disk[m]
           pn == Max({msg.pn, mem[m].accepted_pn})
           u == Uncommitted(d, mem[m].accepted_pn)
           mine == IF u.v = 0 \/ msg.lc > d.lc THEN Shared(d, msg.lc)
                   ELSE [v \in (msg.lc + 1)..u.v |-> d.vals[v]]
       IN  /\ disk' = IF msg.pn > mem[m].accepted_pn THEN [disk EXCEPT ![m] = Promised(@, pn)] ELSE disk
           /\ mem' = [mem EXCEPT ![m] = [Resting(pn) EXCEPT !.leased = mem[m].leased]]
           /\ Exchange(from, m, [p \in {from} |->
                  <<[op |-> "last", epoch |-> epoch[m], pn |-> pn, lc |-> d.lc, vals |-> mine,
                     uncommitted_pn |-> IF msg.lc > d.lc THEN 0 ELSE u.pn]>>])
    /\ Idle /\ NoVote

\* Fault: what a peer has accepted is not taken over.
LearnedNothing(u, d, msg) == u

\* handle_last's choice between what it knows (u) and what a peer has accepted
Learned(u, d, msg) ==
    IF /\ msg.uncommitted_pn # 0
       /\ msg.uncommitted_pn >= u.pn
       /\ msg.lc >= d.lc
       /\ msg.lc + 1 >= u.v
    THEN [v |-> msg.lc + 1, pn |-> msg.uncommitted_pn, val |-> msg.vals[msg.lc + 1]]
    ELSE u

\* store_state forgets an uncommitted value that the message shows committed
Unforgotten(u, d) == IF u.v <= d.lc THEN [v |-> 0, pn |-> 0, val |-> NoValue] ELSE u

\* Fault: only the sender of a last is brought up to date.
LaggingSender(peers, from, d) == {p \in {from} : peers[p] < d.lc}

\* those heard so far that have not committed what the leader now has
Lagging(peers, from, d) == {p \in DOMAIN peers : peers[p] < d.lc}

\* peer_last_committed, with what the sender of a last has
Heard(s, from, msg) ==
    [p \in DOMAIN s.peer_lc \cup {from} |-> IF p = from THEN msg.lc ELSE s.peer_lc[p]]

\* what goes to the quorum of m: the commits that the lagging need, then msgs
WithCommits(m, peers, from, d, msgs) ==
    [p \in quorum[m] \ {m} |->
        (IF p \in Lagging(peers, from, d)
         THEN <<[op |-> "commit", epoch |-> epoch[m], lc |-> d.lc, vals |-> Shared(d, peers[p])]>>
         ELSE <<>>) \o msgs]

\* A peon would drop it, but no last reaches one (AssertsHold).
handle_last(from, m) ==
    /\ Dispatched(from, m, "last") /\ role[m] = "leader" /\ SameElection
    /\ LET msg == Head(net[<<from, m>>])
           s == mem[m]
           d == store_state(disk[m], msg)
           peers == Heard(s, from, msg)
           known == Unforgotten(s.uncommitted, d)
           u == Learned(known, d, msg)
           again == Collecting(d, s, m, msg.pn)
           all == s.num_last + 1 = Cardinality(quorum[m])
           more == [s EXCEPT !.num_last = @ + 1, !.peer_lc = peers, !.uncommitted = u]
           After(dd, ss, msgs) ==
               /\ disk' = [disk EXCEPT ![m] = dd]
               /\ mem' = [mem EXCEPT ![m] = ss]
               /\ Exchange(from, m, WithCommits(m, peers, from, d, msgs))
       IN  \/ /\ msg.pn > s.accepted_pn
              /\ After([d EXCEPT !.last_pn = again.accepted_pn], again,
                       <<Collect(epoch[m], d, again.accepted_pn)>>)
              /\ NoVote
           \/ /\ msg.pn = s.accepted_pn /\ ~all
              /\ After(d, more, <<>>)
              /\ Count(msg.pn, from) /\ UNCHANGED votes
           \/ /\ msg.pn = s.accepted_pn /\ all /\ u.v = d.lc + 1
              /\ After(Accepted(d, u.val, msg.pn), Beginning(m, more, u.val, "updating_previous"),
                       <<Begin(m, d, s, u.val)>>)
              /\ Count(msg.pn, from) /\ Vote(m, d.lc + 1, msg.pn, u.val)
           \/ /\ msg.pn = s.accepted_pn /\ all /\ u.v # d.lc + 1
              /\ After(d, Active(more), <<Lease(m, d)>>)
              /\ Count(msg.pn, from) /\ UNCHANGED votes
           \/ /\ msg.pn < s.accepted_pn
              /\ After(d, [s EXCEPT !.peer_lc = peers, !.uncommitted = known], <<>>)
              /\ NoVote
    /\ Idle

\* propose_pending, which cancels the renewal of the lease
Propose(m) ==
    /\ role[m] = "leader" /\ mem[m].state = "active"
    /\ proposals < MaxProposals /\ disk[m].lc < MaxVersion /\ SameElection
    /\ LET val == proposals + 1
       IN  /\ disk' = [disk EXCEPT ![m] = Accepted(@, val, mem[m].accepted_pn)]
           /\ mem' = [mem EXCEPT ![m] = Beginning(m, @, val, "updating")]
           /\ Exchange(m, m, ToPeers(m, Begin(m, disk[m], mem[m], val)))
           /\ Vote(m, disk[m].lc + 1, mem[m].accepted_pn, val)
    /\ proposals' = proposals + 1
    /\ UNCHANGED <<renewals, crashes, counted>>

handle_begin(from, m) ==
    /\ Dispatched(from, m, "begin") /\ SameElection
    /\ LET msg == Head(net[<<from, m>>])
           pn == mem[m].accepted_pn
       IN  IF msg.pn < pn
           THEN Exchange(from, m, Nothing) /\ UNCHANGED <<disk, mem, votes>>
           ELSE /\ msg.pn = pn /\ msg.lc = disk[m].lc
                /\ disk' = [disk EXCEPT ![m] = Accepted(@, msg.val, pn)]
                /\ mem' = [mem EXCEPT ![m].state = "updating", ![m].leased = FALSE]
                /\ Exchange(from, m, [p \in {from} |->
                       <<[op |-> "accept", epoch |-> epoch[m], pn |-> pn, lc |-> disk[m].lc]>>])
                /\ Vote(m, disk[m].lc + 1, pn, msg.val)
    /\ Idle /\ UNCHANGED counted

\* Fault: a majority of the monmap suffices, not the whole quorum.
MayCommitWithMajority(accepted, Q) == IsMajority(accepted)

\* whether handle_accept starts the commit
MayCommit(accepted, Q) == accepted = Q

handle_accept(from, m) ==
    /\ Dispatched(from, m, "accept") /\ SameElection
    /\ LET msg == Head(net[<<from, m>>])
           s == mem[m]
           accepted == s.accepted \cup {from}
       IN  IF msg.pn # s.accepted_pn \/ (disk[m].lc > 0 /\ msg.lc < disk[m].lc - 1)
           THEN UNCHANGED mem
           ELSE /\ msg.lc \in {disk[m].lc, disk[m].lc - 1}
                /\ s.state \in {"updating", "updating_previous"} /\ from \notin s.accepted
                /\ mem' = [mem EXCEPT ![m].accepted = accepted,
                       ![m].state = IF ~MayCommit(accepted, quorum[m]) THEN @
                                    ELSE IF @ = "updating" THEN "writing"
                                    ELSE "writing_previous"]
    /\ Exchange(from, m, Nothing)
    /\ Idle /\ NoVote /\ UNCHANGED disk

\* commit_finish, once the store has the commit
CommitFinish(m) ==
    /\ mem[m].state \in {"writing", "writing_previous"} /\ SameElection
    /\ LET d == [disk[m] EXCEPT !.lc = @ + 1]
           commit == [op |-> "commit", epoch |-> epoch[m], lc |-> d.lc,
                      vals |-> [v \in {d.lc} |-> mem[m].new_value]]
       IN  /\ disk' = [disk EXCEPT ![m] = d]
           /\ mem' = [mem EXCEPT ![m] = Active(@)]
           /\ Exchange(m, m, [p \in quorum[m] \ {m} |-> <<commit, Lease(m, d)>>])
    /\ Idle /\ NoVote

handle_commit(from, m) ==
    /\ Dispatched(from, m, "commit") /\ role[m] = "peon" /\ SameElection
    /\ disk' = [disk EXCEPT ![m] = store_state(@, Head(net[<<from, m>>]))]
    /\ Exchange(from, m, Nothing)
    /\ Idle /\ NoVote /\ UNCHANGED mem

\* The ack only stops a timer, and a timer may fire at any moment (StartElection).
\* That a lease runs out only takes reads away, so it is left out.
handle_lease(from, m) ==
    /\ Dispatched(from, m, "lease") /\ SameElection
    /\ mem' = IF role[m] # "peon" \/ Head(net[<<from, m>>]).lc # disk[m].lc THEN mem
              ELSE [mem EXCEPT ![m].state = "active", ![m].leased = TRUE]
    /\ Exchange(from, m, Nothing)
    /\ Idle /\ NoVote /\ UNCHANGED disk

lease_renew_timeout(m) ==
    /\ mem[m].renew
    /\ renewals < MaxRenewals /\ SameElection
    /\ mem' = [mem EXCEPT ![m].leased = TRUE]
    /\ Exchange(m, m, ToPeers(m, Lease(m, disk[m])))
    /\ renewals' = renewals + 1
    /\ NoVote /\ UNCHANGED <<disk, proposals, crashes>>

Next ==
    \/ \E m \in Mons :
        \/ StartElection(m) \/ Crash(m) \/ Propose(m) \/ CommitFinish(m)
        \/ lease_renew_timeout(m)
        \/ \E Q \in SUBSET Mons : DeclareVictory(m, Q)
    \/ \E m \in Mons : \E from \in Mons \ {m} :
        \/ HandleVictory(from, m) \/ DropOrBootstrap(from, m)
        \/ handle_collect(from, m) \/ handle_last(from, m) \/ handle_begin(from, m)
        \/ handle_accept(from, m) \/ handle_commit(from, m) \/ handle_lease(from, m)

Spec == Init /\ [][Next]_vars

-----------------------------------------------------------------------------
States == {"recovering", "active", "updating", "updating_previous", "writing",
           "writing_previous"}

\* Only a leader writes, and it has a value to write and the promises of its quorum.
TypeOK ==
    /\ ElectionTypeOK
    /\ \A m \in Mons :
        /\ disk[m].lc \in 0..MaxVersion
        /\ disk[m].vals \in [Versions -> 0..MaxProposals]
        /\ mem[m].state \in States
        /\ disk[m].accepted_pn <= mem[m].accepted_pn
        /\ mem[m].state \in States \ {"recovering", "active", "updating"} => role[m] = "leader"
        /\ role[m] = "leader" /\ mem[m].new_value # NoValue =>
               2 * mem[m].num_last > Cardinality(Mons)

\* Two monitors never commit different values for one version, whatever quorums
\* formed and whoever crashed in between (Paxos.cc:796 to 811, 847 to 951).
Agreement ==
    \A m, n \in Mons : \A v \in 1..Min({disk[m].lc, disk[n].lc}) :
        disk[m].vals[v] = disk[n].vals[v]

\* A committed value is in the stores of a majority, accepted there if not committed,
\* and no later round replaces it: whatever quorum comes next finds it, even if the
\* leader crashes before it has told anybody of the commit (Paxos.cc:873).
CommittedOnMajority ==
    \A m \in Mons : \A v \in 1..disk[m].lc :
        IsMajority({n \in Mons : disk[n].vals[v] = disk[m].vals[v]})

\* is_readable
Readable(m) ==
    /\ role[m] # "electing" /\ mem[m].state \in {"active", "updating", "writing"}
    /\ disk[m].lc > 0 /\ mem[m].leased

\* Those who may serve reads in one quorum serve the same version: a commit is
\* exposed only after every lease of the state before it is gone (Paxos.cc:801).
SameReads ==
    \A m, n \in Mons :
        Readable(m) /\ Readable(n) /\ epoch[m] = epoch[n] /\ leader[m] = leader[n] =>
            disk[m].lc = disk[n].lc

\* The assertions of dispatch and of the handlers: a peon hears only its leader, and
\* has what the leader has committed when it is asked to accept more; accepts come
\* while the leader waits for them, one from each peer; commits reach only peons.
AssertsHold ==
    \A from, m \in Mons : from # m /\ net[<<from, m>>] # <<>> =>
        LET msg == Head(net[<<from, m>>])
            d == disk[m]
            s == mem[m]
        IN  msg.op # "victory" /\ msg.epoch = epoch[m] /\ role[m] # "electing" =>
            /\ role[m] = "leader" \/ leader[m] = from
            /\ msg.op \in {"collect", "commit"} => role[m] = "peon"
            /\ msg.op = "last" => role[m] = "leader"
            /\ msg.op = "begin" => msg.pn < s.accepted_pn \/
                   (msg.pn = s.accepted_pn /\ msg.lc = d.lc)
            /\ msg.op = "accept" /\ msg.pn = s.accepted_pn /\ msg.lc >= d.lc - 1 =>
                   /\ msg.lc \in {d.lc, d.lc - 1}
                   /\ s.state \in {"updating", "updating_previous"}
                   /\ from \notin s.accepted
=============================================================================
