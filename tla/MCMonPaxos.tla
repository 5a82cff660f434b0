----------------------------- MODULE MCMonPaxos ----------------------------
(* Three monitors, the smallest monmap in which two quorums can differ. *)
EXTENDS MonPaxos

ThreeMons == {0, 1, 2}
ThreeElections == 1..6

\* The histories (claims, follows, votes, counted) steer nothing: a victory that is
\* delivered has been claimed, a value that is stored was voted for.
WithoutHistory == <<epoch, role, leader, quorum, paxosVars>>

\* Either a lease is renewed or a monitor crashes, and after a crash the monitors are
\* about the first version.
OneDisturbance ==
    crashes = 0 \/ (renewals = 0 /\ \A m \in Mons : disk[m].vals[2] = NoValue)
=============================================================================
