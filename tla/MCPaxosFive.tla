----------------------------- MODULE MCPaxosFive ---------------------------
(***************************************************************************)
(* Five monitors, two of which crash while they lead: a schedule of steps  *)
(* of MonPaxos at whose end two values are committed for version 1.  A     *)
(* leader's own promise is not in its store (Paxos::collect), so a leader  *)
(* that restarts accepts smaller numbers than it has promised before.      *)
(***************************************************************************)
EXTENDS MonPaxos

VARIABLE step

FiveMons == 0..4
FiveElections == 1..10

\* a and b follow l and answer its collect
Joined(l, a, b) ==
    <<<<"victory", l, a>>, <<"collect", l, a>>, <<"victory", l, b>>, <<"collect", l, b>>,
      <<"last", a, l>>, <<"last", b, l>>>>

Elections(S, e) == [i \in 1..3 |-> <<"election", S[i], e>>]

Schedule ==
    \* 2 leads with number 7, stores its value 1 and crashes before it has sent it.
    <<<<"win", 2, {2, 3, 4}>>>> \o Joined(2, 3, 4)
    \o <<<<"propose", 2>>, <<"crash", 2>>>>
    \* 1 leads with number 11; all of {1, 3, 4} accept its value 2, and 1 crashes.
    \o Elections(<<1, 3, 4>>, 3) \o <<<<"win", 1, {1, 3, 4}>>>> \o Joined(1, 3, 4)
    \o <<<<"collect", 1, 3>>, <<"collect", 1, 4>>, <<"last", 3, 1>>, <<"last", 4, 1>>,
         <<"lease", 1, 3>>, <<"lease", 1, 4>>,
         <<"propose", 1>>, <<"begin", 1, 3>>, <<"begin", 1, 4>>, <<"crash", 1>>>>
    \* 0 leads with number 5, which 1 and 2 have forgotten to refuse; of value 2 under
    \* 11 and value 1 under 7 it takes over 2, and 1 stores it again, now under 5.
    \o Elections(<<1, 0, 2>>, 5) \o <<<<"win", 0, {0, 1, 2}>>>> \o Joined(0, 1, 2)
    \o <<<<"begin", 0, 1>>>>
    \* 0 leads again, with number 10: value 2 is stored under 5 and value 1 under 7.
    \o Elections(<<0, 1, 2>>, 7) \o <<<<"win", 0, {0, 1, 2}>>>> \o Joined(0, 1, 2)
    \o <<<<"begin", 0, 1>>, <<"begin", 0, 2>>, <<"accept", 1, 0>>, <<"accept", 2, 0>>,
         <<"commit", 0>>>>
    \* 1 leads: value 1 is stored under 10, and value 2, on 3 and 4, under 11.
    \o Elections(<<1, 3, 4>>, 9) \o <<<<"win", 1, {1, 3, 4}>>>> \o Joined(1, 3, 4)
    \o <<<<"begin", 1, 3>>, <<"begin", 1, 4>>, <<"accept", 3, 1>>, <<"accept", 4, 1>>,
         <<"commit", 1>>>>

Do(a) ==
    \/ a[1] = "election" /\ StartElection(a[2]) /\ epoch'[a[2]] = a[3]
    \/ a[1] = "win" /\ DeclareVictory(a[2], a[3])
    \/ a[1] = "victory" /\ HandleVictory(a[2], a[3])
    \/ a[1] = "collect" /\ handle_collect(a[2], a[3])
    \/ a[1] = "last" /\ handle_last(a[2], a[3])
    \/ a[1] = "propose" /\ Propose(a[2])
    \/ a[1] = "begin" /\ handle_begin(a[2], a[3])
    \/ a[1] = "accept" /\ handle_accept(a[2], a[3])
    \/ a[1] = "commit" /\ CommitFinish(a[2])
    \/ a[1] = "lease" /\ handle_lease(a[2], a[3])
    \/ a[1] = "crash" /\ Crash(a[2])

ScheduledInit == Init /\ step = 0
ScheduledNext == step < Len(Schedule) /\ step' = step + 1 /\ Do(Schedule[step + 1])
Scheduled == ScheduledInit /\ [][ScheduledNext]_<<vars, step>>
=============================================================================
