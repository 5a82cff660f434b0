---------------------------- MODULE MonElection ----------------------------
(***************************************************************************)
(* What an election of the monitors promises to the Paxos above it,        *)
(* whatever messages and timers bring it about: epochs that only grow, odd *)
(* while an election runs; a victory claimed out of an odd epoch by a      *)
(* monitor that a majority has reached that epoch with; and a follower     *)
(* that comes straight from the election it was claimed in.                *)
(*                                                                         *)
(* Two monitors may claim the same epoch: a monitor may ack rank 1 and     *)
(* then rank 0, and both may give up waiting for the others.  What holds   *)
(* is that only one of them is ever followed by its whole quorum, and a    *)
(* leader commits nothing before its whole quorum has accepted it.         *)
(***************************************************************************)
EXTENDS Integers, FiniteSets

CONSTANTS
    Mons,      \* the ranks of the monmap
    Epochs     \* the epochs a monitor may jump to

ASSUME ElectionConstants ==
    Mons \subseteq Nat /\ IsFiniteSet(Mons) /\ Epochs \subseteq Nat

VARIABLES
    epoch,     \* the election epoch of each monitor
    role,      \* "electing" (or probing), "leader" or "peon"
    leader,    \* whom a peon or a leader takes for the leader
    quorum,    \* the quorum it takes part in
    claims,    \* history: every victory declared
    follows    \* history: every <<peon, epoch, leader>> there has been

electionVars == <<epoch, role, leader, quorum, claims, follows>>

NoLeader == -1

IsMajority(Q) == Q \subseteq Mons /\ 2 * Cardinality(Q) > Cardinality(Mons)

ElectionInit ==
    /\ epoch = [m \in Mons |-> 1]
    /\ role = [m \in Mons |-> "electing"]
    /\ leader = [m \in Mons |-> NoLeader]
    /\ quorum = [m \in Mons |-> {}]
    /\ claims = {}
    /\ follows = {}

\* bump_epoch, bootstrap or a restart: out of whatever quorum it was in.
Leave(m, e) ==
    /\ e >= epoch[m]
    /\ epoch' = [epoch EXCEPT ![m] = e]
    /\ role' = [role EXCEPT ![m] = "electing"]
    /\ leader' = [leader EXCEPT ![m] = NoLeader]
    /\ quorum' = [quorum EXCEPT ![m] = {}]
    /\ UNCHANGED <<claims, follows>>

\* Those who acked had reached the epoch of the election.
Claim(l, Q) ==
    /\ epoch[l] % 2 = 1
    /\ IsMajority(Q)
    /\ l \in Q
    /\ \A q \in Q : epoch[q] >= epoch[l]
    /\ epoch' = [epoch EXCEPT ![l] = @ + 1]
    /\ role' = [role EXCEPT ![l] = "leader"]
    /\ leader' = [leader EXCEPT ![l] = l]
    /\ quorum' = [quorum EXCEPT ![l] = Q]
    /\ claims' = claims \cup {[leader |-> l, epoch |-> epoch[l] + 1, quorum |-> Q]}
    /\ UNCHANGED follows

Follow(p, c) ==
    /\ c \in claims
    /\ p \in c.quorum \ {c.leader}
    /\ c.epoch = epoch[p] + 1
    /\ epoch' = [epoch EXCEPT ![p] = c.epoch]
    /\ role' = [role EXCEPT ![p] = "peon"]
    /\ leader' = [leader EXCEPT ![p] = c.leader]
    /\ quorum' = [quorum EXCEPT ![p] = c.quorum]
    /\ follows' = follows \cup {<<p, c.epoch, c.leader>>}
    /\ UNCHANGED claims

ElectionNext ==
    \/ \E m \in Mons, e \in Epochs : Leave(m, e)
    \/ \E l \in Mons, Q \in SUBSET Mons : Claim(l, Q)
    \/ \E p \in Mons, c \in claims : Follow(p, c)

ElectionSpec == ElectionInit /\ [][ElectionNext]_electionVars

-----------------------------------------------------------------------------
ElectionTypeOK ==
    /\ epoch \in [Mons -> Nat]
    /\ role \in [Mons -> {"electing", "leader", "peon"}]
    /\ leader \in [Mons -> Mons \cup {NoLeader}]
    /\ quorum \in [Mons -> SUBSET Mons]
    /\ claims \subseteq [leader : Mons, epoch : Nat, quorum : SUBSET Mons]
    /\ follows \subseteq Mons \X Nat \X Mons

\* All the quorum a victory claims has followed it, so its leader can commit.
Effective(c) == \A q \in c.quorum \ {c.leader} : <<q, c.epoch, c.leader>> \in follows

\* Of the victories claimed in one epoch (ElectionLogic.cc:186) at most one is
\* followed by its whole quorum: the others can neither finish collect nor commit.
OneEffectiveLeader ==
    \A c, d \in claims :
        c.epoch = d.epoch /\ Effective(c) /\ Effective(d) => c = d
=============================================================================
