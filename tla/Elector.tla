------------------------------ MODULE Elector ------------------------------
(***************************************************************************)
(* The election itself (ElectionLogic, Elector and the parts of Monitor    *)
(* they call): the strategies "classic", in which the lowest rank that a   *)
(* majority acks wins, and "disallow", in which some monitors may not      *)
(* lead; disallowing none is "classic".  Connections between monitors      *)
(* deliver in order and lose nothing until an end restarts; how long a     *)
(* message takes and when a timer fires are left open.                     *)
(***************************************************************************)
EXTENDS Integers, Sequences, FiniteSets

CONSTANTS
    Mons,           \* the ranks of the monmap
    DisallowSets,   \* the sets of monitors that may be kept from leading
    MaxEpoch,       \* bound on the election epoch
    MaxBootstraps,  \* bound on the times Paxos or an operator unsettles a monitor
    MaxCrashes      \* bound on crashes

ASSUME ElectorConstants ==
    /\ Mons \subseteq Nat /\ IsFiniteSet(Mons)
    /\ DisallowSets \subseteq SUBSET Mons
    /\ MaxEpoch \in Nat /\ MaxBootstraps \in Nat /\ MaxCrashes \in Nat

VARIABLES
    st,          \* the election state of each monitor
    net,         \* the messages on the way from one monitor to another
    disallowed,  \* disallowed_leaders, which only a commit of Paxos changes
    claims,      \* history: every victory declared
    follows,     \* history: every <<peon, epoch, leader>> there has been
    bootstraps,  \* how often Bootstrap has happened
    crashes      \* how many crashes there have been

vars == <<st, net, disallowed, claims, follows, bootstraps, crashes>>

Nobody == -1

\* A monitor that has just started: only the stored epoch is left of what it knew.
Booted(stored) ==
    [epoch |-> 0, stored |-> stored, role |-> "probing", leader |-> Nobody, quorum |-> {},
     electing_me |-> FALSE, acked_me |-> {}, leader_acked |-> Nobody, timer |-> FALSE]

Init ==
    /\ st = [m \in Mons |-> Booted(0)]
    /\ net = [c \in Mons \X Mons |-> <<>>]
    /\ disallowed \in DisallowSets
    /\ claims = {} /\ follows = {}
    /\ bootstraps = 0 /\ crashes = 0

-----------------------------------------------------------------------------
(* The state changes, on the record of one monitor.                        *)

\* _reset, called by join_election and by start_election.
JoinElection(s) == [s EXCEPT !.quorum = {}, !.role = "electing"]

bump_epoch_unstored(s, e) ==
    JoinElection([s EXCEPT !.epoch = e, !.electing_me = FALSE, !.acked_me = {}])

bump_epoch(s, e) ==
    JoinElection([s EXCEPT !.epoch = e, !.stored = e, !.electing_me = FALSE, !.acked_me = {}])

clear_live_election_state(s) == [s EXCEPT !.leader_acked = Nobody, !.electing_me = FALSE]

\* init: the epoch an election starts from.  A first boot is in epoch 1 and does
\* not store it; an election that was under way is stored as over.
StartEpoch(s) == IF s.stored = 0 THEN 1 ELSE IF s.stored % 2 = 1 THEN s.stored + 2 ELSE s.stored + 1

start(s, m) ==
    LET e == StartEpoch(s)
        bumped == IF s.stored = 0 THEN [s EXCEPT !.epoch = 1] ELSE bump_epoch(s, e)
    IN  [clear_live_election_state(bumped) EXCEPT
            !.acked_me = {m}, !.electing_me = TRUE, !.timer = TRUE]

start_election(s, m) == start(JoinElection(s), m)

defer_unrecorded(s, who) ==
    [s EXCEPT !.acked_me = {}, !.electing_me = FALSE, !.timer = TRUE]

defer(s, who) ==
    [s EXCEPT !.acked_me = IF s.electing_me THEN {} ELSE @,
              !.electing_me = FALSE, !.leader_acked = who, !.timer = TRUE]

\* Ends with message_victory and win_election.
declare_victory(s, m) ==
    [bump_epoch(clear_live_election_state(s), s.epoch + 1) EXCEPT
        !.role = "leader", !.leader = m, !.quorum = s.acked_me, !.timer = FALSE]

lose_election(s, from, e, Q) ==
    [bump_epoch(clear_live_election_state(s), e) EXCEPT
        !.role = "peon", !.leader = from, !.quorum = Q, !.timer = FALSE]

-----------------------------------------------------------------------------
(* Messages.                                                               *)

Propose(e) == [op |-> "propose", epoch |-> e, quorum |-> {}]
Ack(e) == [op |-> "ack", epoch |-> e, quorum |-> {}]
Victory(e, Q) == [op |-> "victory", epoch |-> e, quorum |-> Q]

\* One message is taken from <<from, m>>, and out is sent by m to those in to.
Exchanged(from, m, to, out) ==
    [c \in Mons \X Mons |->
        IF c = <<from, m>> THEN Tail(net[c])
        ELSE IF c[1] = m /\ c[2] \in to THEN Append(net[c], out)
        ELSE net[c]]

Sent(m, to, out) ==
    [c \in Mons \X Mons |-> IF c[1] = m /\ c[2] \in to THEN Append(net[c], out) ELSE net[c]]

Others(m) == Mons \ {m}

Claimed(s) == [leader |-> s.leader, epoch |-> s.epoch, quorum |-> s.quorum]

\* The message at the head of a connection, if the monitor is one that hears
\* elections (Monitor::dispatch_op drops them while it probes).
Arrives(from, m, op) ==
    /\ net[<<from, m>>] # <<>>
    /\ Head(net[<<from, m>>]).op = op
    /\ st[m].role # "probing"

Bounded == \A m \in Mons : st'[m].epoch <= MaxEpoch

\* m goes to state s, having taken the message from from, and sends nothing.
Quietly(from, m, s) ==
    /\ st' = [st EXCEPT ![m] = s]
    /\ net' = Exchanged(from, m, {}, Nobody)
    /\ UNCHANGED <<disallowed, claims, follows, bootstraps, crashes>>

Electing(from, m, s) ==
    /\ st' = [st EXCEPT ![m] = s]
    /\ net' = Exchanged(from, m, Others(m), Propose(s.epoch))
    /\ Bounded
    /\ UNCHANGED <<disallowed, claims, follows, bootstraps, crashes>>

-----------------------------------------------------------------------------
(* Handlers.                                                               *)

\* propose_classic_prefix, on a propose of an epoch that is over.
ReceiveOldPropose(from, m) ==
    /\ Arrives(from, m, "propose")
    /\ Head(net[<<from, m>>]).epoch < st[m].epoch
    /\ IF st[m].epoch % 2 = 0 /\ from \notin st[m].quorum
       THEN Electing(from, m, start_election(st[m], m))
       ELSE Quietly(from, m, st[m])

ReachedWithoutTimer(s, e) ==
    IF e > s.epoch THEN [bump_epoch(s, e) EXCEPT !.timer = FALSE] ELSE s

\* propose_classic_prefix on a newer epoch; the timer of an earlier deferral runs on.
Reached(s, e) == IF e > s.epoch THEN bump_epoch(s, e) ELSE s

\* m would win over from (my_win)
MyWin(m, from) == m \notin disallowed /\ (m < from \/ from \in disallowed)

\* from wins over m and over whomever m has acked (their_win)
TheirWin(s, m, from) ==
    /\ from \notin disallowed
    /\ m > from \/ m \in disallowed
    /\ s.leader_acked = Nobody \/ s.leader_acked >= from

\* propose_disallow_handler, which is propose_classic_handler if nobody is disallowed
ReceivePropose(from, m) ==
    /\ Arrives(from, m, "propose")
    /\ Head(net[<<from, m>>]).epoch >= st[m].epoch
    /\ LET s == Reached(st[m], Head(net[<<from, m>>]).epoch)
           idle == s.leader_acked = Nobody /\ ~s.electing_me
       IN  \/ /\ MyWin(m, from) /\ idle
              /\ Electing(from, m, start_election(s, m))
           \/ /\ ~MyWin(m, from) /\ TheirWin(s, m, from)
              /\ st' = [st EXCEPT ![m] = defer(s, from)]
              /\ net' = Exchanged(from, m, {from}, Ack(s.epoch))
              /\ UNCHANGED <<disallowed, claims, follows, bootstraps, crashes>>
           \/ /\ IF MyWin(m, from) THEN ~idle ELSE ~TheirWin(s, m, from)
              /\ Quietly(from, m, s)

\* message_victory to the quorum; the message taken, if any, is from from.
Win(m, s, channels) ==
    /\ st' = [st EXCEPT ![m] = s]
    /\ net' = channels
    /\ claims' = claims \cup {Claimed(s)}
    /\ Bounded
    /\ UNCHANGED <<disallowed, follows, bootstraps, crashes>>

\* Elector::dispatch drops an old ack; receive_ack counts the others.
ReceiveAck(from, m) ==
    /\ Arrives(from, m, "ack")
    /\ LET s == [st[m] EXCEPT !.acked_me = @ \cup {from}]
           won == declare_victory(s, m)
       IN  IF Head(net[<<from, m>>]).epoch < st[m].epoch \/ ~st[m].electing_me
           THEN Quietly(from, m, st[m])
           ELSE IF s.acked_me = Mons
           THEN Win(m, won, Exchanged(from, m, Others(m), Victory(won.epoch, Mons)))
           ELSE Quietly(from, m, s)

OfMyElectionOrLater(s, e) == e >= s.epoch

\* receive_victory_claim's test that the victory ends the election m is in.
OfMyElection(s, e) == e = s.epoch + 1

ReceiveVictory(from, m) ==
    /\ Arrives(from, m, "victory")
    /\ LET msg == Head(net[<<from, m>>])
           s == st[m]
       IN  \/ msg.epoch < s.epoch /\ Quietly(from, m, s)
           \/ /\ msg.epoch >= s.epoch /\ ~OfMyElection(s, msg.epoch)
              /\ Electing(from, m,
                          start(bump_epoch(clear_live_election_state(s), msg.epoch), m))
           \/ /\ msg.epoch >= s.epoch /\ OfMyElection(s, msg.epoch)
              /\ st' = [st EXCEPT ![m] = lose_election(s, from, msg.epoch, msg.quorum)]
              /\ net' = Exchanged(from, m, {}, Nobody)
              /\ follows' = follows \cup {<<m, msg.epoch, from>>}
              /\ UNCHANGED <<disallowed, claims, bootstraps, crashes>>

\* Monitor::dispatch_op: a probing monitor is deaf to elections.
DropWhileProbing(from, m) ==
    /\ net[<<from, m>>] # <<>>
    /\ st[m].role = "probing"
    /\ Quietly(from, m, st[m])

\* Out of the quorum, to probe the others; the election timer is left as it is.
Bootstrap(m, timer) ==
    /\ bootstraps < MaxBootstraps
    /\ st' = [st EXCEPT ![m].role = "probing", ![m].quorum = {}, ![m].timer = timer]
    /\ bootstraps' = bootstraps + 1
    /\ UNCHANGED <<net, disallowed, claims, follows, crashes>>

\* A Paxos timeout, a message of a newer epoch, or an operator.
Unsettle(m) == st[m].role # "probing" /\ Bootstrap(m, st[m].timer)

\* The election timer of m, which bootstrap does not cancel.
end_election_period(m) ==
    /\ st[m].timer
    /\ LET s == st[m]
           won == declare_victory(s, m)
       IN  IF s.electing_me /\ 2 * Cardinality(s.acked_me) > Cardinality(Mons)
           THEN Win(m, won, Sent(m, s.acked_me \ {m}, Victory(won.epoch, s.acked_me)))
           ELSE \/ /\ s.stored > 0       \* ever_participated
                   /\ st' = [st EXCEPT ![m] = start(s, m)]
                   /\ net' = Sent(m, Others(m), Propose(StartEpoch(s)))
                   /\ Bounded
                   /\ UNCHANGED <<disallowed, claims, follows, bootstraps, crashes>>
                \/ Bootstrap(m, FALSE)     \* reset_election

\* handle_probe_reply has found a quorum to join, or enough monitors for one.
StartElection(m) ==
    /\ st[m].role = "probing"
    /\ st' = [st EXCEPT ![m] = start_election(st[m], m)]
    /\ net' = Sent(m, Others(m), Propose(StartEpoch(st[m])))
    /\ Bounded
    /\ UNCHANGED <<disallowed, claims, follows, bootstraps, crashes>>

\* m stops and starts again; its connections are reset at both ends.
Crash(m) ==
    /\ crashes < MaxCrashes
    /\ st' = [st EXCEPT ![m] = Booted(st[m].stored)]
    /\ net' = [c \in Mons \X Mons |-> IF m \in {c[1], c[2]} THEN <<>> ELSE net[c]]
    /\ crashes' = crashes + 1
    /\ UNCHANGED <<disallowed, claims, follows, bootstraps>>

Next ==
    \/ \E from, m \in Mons :
        \/ ReceiveOldPropose(from, m) \/ ReceivePropose(from, m)
        \/ ReceiveAck(from, m) \/ ReceiveVictory(from, m)
        \/ DropWhileProbing(from, m)
    \/ \E m \in Mons :
        \/ end_election_period(m) \/ StartElection(m)
        \/ Unsettle(m) \/ Crash(m)

Spec == Init /\ [][Next]_vars

-----------------------------------------------------------------------------
MonStates ==
    [epoch : 0..MaxEpoch, stored : 0..MaxEpoch, leader : Mons \cup {Nobody},
     role : {"probing", "electing", "leader", "peon"}, quorum : SUBSET Mons,
     electing_me : BOOLEAN, acked_me : SUBSET Mons, leader_acked : Mons \cup {Nobody},
     timer : BOOLEAN]

\* A running monitor has stored the epoch it is in, first elections apart, and
\* stands for itself only in an odd epoch, with its own ack.
TypeOK ==
    /\ st \in [Mons -> MonStates]
    /\ \A m \in Mons :
        /\ st[m].epoch \in {0, st[m].stored} \/ (st[m].epoch = 1 /\ st[m].stored = 0)
        /\ st[m].electing_me => st[m].epoch % 2 = 1 /\ m \in st[m].acked_me

\* No assertion of the handlers fails: an ack that is not dropped is of the epoch
\* its receiver is in (Elector.cc:327), and finds it standing or deferring
\* (ElectionLogic.cc:475); a victory comes from a rank that can have won over its
\* receiver (ElectionLogic.cc:515); a propose is of an odd epoch (Elector.cc:281),
\* and a receiver that would win over it has acked a better one (ElectionLogic.cc:264).
AssertsHold ==
    \A from, m \in Mons : net[<<from, m>>] # <<>> /\ st[m].role # "probing" =>
        LET msg == Head(net[<<from, m>>])
            s == st[m]
        IN  /\ msg.op = "propose" => msg.epoch % 2 = 1
            /\ msg.op = "ack" /\ msg.epoch >= s.epoch =>
                  msg.epoch = s.epoch /\ (s.electing_me \/ s.leader_acked # Nobody)
            /\ msg.op = "propose" /\ msg.epoch >= s.epoch /\ MyWin(m, from) =>
                  s.leader_acked < from \/ from \in disallowed
            /\ msg.op = "victory" /\ msg.epoch >= s.epoch => from < m \/ m \in disallowed

\* A monitor that may lead and waits for an election to end has its timer running
\* (Elector::reset_timer), so a winner that dies cannot leave it waiting for ever.  One
\* that may not lead joins the election of another such one without a timer.
ElectingHasTimer ==
    \A m \in Mons \ disallowed : st[m].role = "electing" => st[m].timer

\* The election implements MonElection, on which MonPaxos is built.  The epoch of
\* a monitor is what it would start from: the stored one while it has read none.
Election == INSTANCE MonElection WITH
    Epochs <- 0..MaxEpoch,
    epoch <- [m \in Mons |-> IF st[m].stored = 0 THEN 1 ELSE st[m].stored],
    role <- [m \in Mons |-> IF st[m].role = "probing" THEN "electing" ELSE st[m].role],
    leader <- [m \in Mons |->
        IF st[m].role \in {"leader", "peon"} THEN st[m].leader ELSE Nobody],
    quorum <- [m \in Mons |->
        IF st[m].role \in {"leader", "peon"} THEN st[m].quorum ELSE {}]

\* Every step of an elector is a step of MonElection or changes nothing it speaks
\* of: epochs never go back, even over a crash (Elector::persist_epoch), and nobody
\* claims an epoch or follows a claim that MonElection does not allow.
ImplementsElection == Election!ElectionSpec

\* Of the leaders that declare_victory makes in one epoch (ElectionLogic.cc:186) at
\* most one is followed by its whole quorum, so at most one can commit.
OneEffectiveLeader == Election!OneEffectiveLeader

\* "Odd epochs are elections; even epochs have a leader" (doc/dev/mon-elections.rst:15)
OneLeaderPerEpoch ==
    \A c, d \in claims : c.epoch = d.epoch => c.leader = d.leader
=============================================================================
