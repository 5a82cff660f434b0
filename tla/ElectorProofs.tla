--------------------------- MODULE ElectorProofs ---------------------------
(***************************************************************************)
(* For any monmap, any set of monitors that may not lead and any number of *)
(* crashes: the messages and timers of the election implement MonElection, *)
(* none of its assertions fails, and whoever may lead and waits has a      *)
(* timer.                                                                  *)
(***************************************************************************)
EXTENDS Elector, FiniteSetTheorems, SequenceTheorems, TLAPS

Message == [op : {"propose", "ack", "victory"}, epoch : 0..MaxEpoch, quorum : SUBSET Mons]
Networks == [Mons \X Mons -> Seq(Message)]

\* The epoch that outlives a crash, as the refinement mapping has it.
Reaches(s) == IF s.stored = 0 THEN 1 ELSE s.stored

\* It has asked for acks in its epoch, or given one.
Standing(s) == s.electing_me \/ s.leader_acked # Nobody

\* What a monitor alone knows.  One that hears elections is in the epoch it has stored.
MonOK(m, s) ==
    /\ s.epoch \in {0, s.stored} \/ (s.epoch = 1 /\ s.stored = 0)
    /\ s.role # "probing" => s.epoch = Reaches(s)
    /\ s.electing_me =>
        /\ s.epoch = Reaches(s) /\ s.epoch % 2 = 1 /\ m \in s.acked_me
        /\ \A q \in s.acked_me \ {m} : q > m \/ q \in disallowed
    /\ s.role # "probing" /\ Standing(s) => s.timer
    /\ s.role = "electing" /\ m \notin disallowed => s.timer
    /\ s.leader_acked # Nobody =>
        /\ s.leader_acked \notin disallowed
        /\ m > s.leader_acked \/ m \in disallowed

MonsInv == \A m \in Mons : MonOK(m, st[m])

\* Whoever acked a monitor had reached the epoch that one stands in.
AcksInv ==
    \A m \in Mons : st[m].electing_me =>
        \A q \in st[m].acked_me : Reaches(st[q]) >= st[m].epoch

\* What is known of a message from a to b.
MessageOK(a, b, msg) ==
    /\ a # b
    /\ msg.op = "propose" =>
        /\ msg.epoch % 2 = 1 /\ msg.epoch <= st[a].epoch
        /\ msg.epoch = st[a].epoch => Standing(st[a])
    /\ msg.op = "ack" =>
        /\ msg.epoch <= Reaches(st[a]) /\ msg.epoch <= st[b].epoch
        /\ msg.epoch = st[b].epoch => Standing(st[b])
        /\ a > b \/ a \in disallowed
    /\ msg.op = "victory" =>
        /\ [leader |-> a, epoch |-> msg.epoch, quorum |-> msg.quorum] \in claims
        /\ b \in msg.quorum
        /\ a < b \/ b \in disallowed

Elements(x) == {x[i] : i \in DOMAIN x}
On(a, b) == Elements(net[<<a, b>>])

MessagesInv == \A a, b \in Mons : \A msg \in On(a, b) : MessageOK(a, b, msg)

ElectorTypeOK == st \in [Mons -> MonStates] /\ net \in Networks /\ disallowed \subseteq Mons

ElectorInv == ElectorTypeOK /\ MonsInv /\ AcksInv /\ MessagesInv

-----------------------------------------------------------------------------
(* What the state changes do to each field.                                *)

\* MonStates before the bound on epochs is applied.
AnyStates ==
    [epoch : Nat, stored : Nat, leader : Mons \cup {Nobody},
     role : {"probing", "electing", "leader", "peon"}, quorum : SUBSET Mons,
     electing_me : BOOLEAN, acked_me : SUBSET Mons, leader_acked : Mons \cup {Nobody},
     timer : BOOLEAN]

\* bump_epoch stores the epoch and joins the election of that epoch (ElectionLogic.cc).
LEMMA BumpFacts ==
    ASSUME NEW s \in AnyStates, NEW e \in Nat
    PROVE  /\ bump_epoch(s, e) \in AnyStates
           /\ bump_epoch(s, e).epoch = e /\ bump_epoch(s, e).stored = e
           /\ bump_epoch(s, e).role = "electing" /\ bump_epoch(s, e).quorum = {}
           /\ bump_epoch(s, e).leader = s.leader
           /\ bump_epoch(s, e).electing_me = FALSE /\ bump_epoch(s, e).acked_me = {}
           /\ bump_epoch(s, e).leader_acked = s.leader_acked /\ bump_epoch(s, e).timer = s.timer
BY DEF bump_epoch, JoinElection, AnyStates

\* clear_live_election_state forgets whom the monitor acked and that it stands itself.
LEMMA ClearFacts ==
    ASSUME NEW s \in AnyStates
    PROVE  /\ clear_live_election_state(s) \in AnyStates
           /\ clear_live_election_state(s).epoch = s.epoch
           /\ clear_live_election_state(s).stored = s.stored
           /\ clear_live_election_state(s).role = s.role
           /\ clear_live_election_state(s).quorum = s.quorum
           /\ clear_live_election_state(s).leader = s.leader
           /\ clear_live_election_state(s).electing_me = FALSE
           /\ clear_live_election_state(s).acked_me = s.acked_me
           /\ clear_live_election_state(s).leader_acked = Nobody
           /\ clear_live_election_state(s).timer = s.timer
BY DEF clear_live_election_state, AnyStates

\* An election starts in an odd epoch, later than what is stored.
LEMMA StartEpochFacts ==
    ASSUME NEW s \in AnyStates
    PROVE  /\ StartEpoch(s) \in Nat /\ StartEpoch(s) % 2 = 1
           /\ s.stored = 0 => StartEpoch(s) = 1
           /\ s.stored # 0 => StartEpoch(s) > s.stored
BY DEF StartEpoch, AnyStates

\* start enters the odd epoch, proposes the monitor itself and sets the timer.
LEMMA StartFacts ==
    ASSUME NEW s \in AnyStates, NEW m \in Mons
    PROVE  /\ start(s, m) \in AnyStates
           /\ start(s, m).epoch = StartEpoch(s)
           /\ start(s, m).stored = IF s.stored = 0 THEN 0 ELSE StartEpoch(s)
           /\ start(s, m).role = IF s.stored = 0 THEN s.role ELSE "electing"
           /\ start(s, m).quorum = IF s.stored = 0 THEN s.quorum ELSE {}
           /\ start(s, m).leader = s.leader
           /\ start(s, m).electing_me = TRUE /\ start(s, m).acked_me = {m}
           /\ start(s, m).leader_acked = Nobody /\ start(s, m).timer = TRUE
<1> DEFINE bumped == IF s.stored = 0 THEN [s EXCEPT !.epoch = 1] ELSE bump_epoch(s, StartEpoch(s))
<1>1. StartEpoch(s) \in Nat /\ (s.stored = 0 => StartEpoch(s) = 1)
  BY StartEpochFacts
<1>2. /\ bumped \in AnyStates /\ bumped.epoch = StartEpoch(s)
      /\ bumped.stored = IF s.stored = 0 THEN 0 ELSE StartEpoch(s)
      /\ bumped.role = IF s.stored = 0 THEN s.role ELSE "electing"
      /\ bumped.quorum = IF s.stored = 0 THEN s.quorum ELSE {}
      /\ bumped.leader = s.leader
  <2>1. CASE s.stored = 0
    BY <1>1, <2>1 DEF AnyStates
  <2>2. CASE s.stored # 0
    BY <1>1, <2>2, BumpFacts
  <2> QED
    BY <2>1, <2>2
<1>3. start(s, m) = [clear_live_election_state(bumped) EXCEPT
                        !.acked_me = {m}, !.electing_me = TRUE, !.timer = TRUE]
  BY DEF start
<1> HIDE DEF bumped
<1> DEFINE c == clear_live_election_state(bumped)
<1>4. /\ c \in AnyStates /\ c.epoch = bumped.epoch /\ c.stored = bumped.stored
      /\ c.role = bumped.role /\ c.quorum = bumped.quorum /\ c.leader = bumped.leader
      /\ c.leader_acked = Nobody
  BY <1>2, ClearFacts
<1> HIDE DEF c
<1>5. start(s, m) = [c EXCEPT !.acked_me = {m}, !.electing_me = TRUE, !.timer = TRUE]
  BY <1>3 DEF c
<1>6. /\ start(s, m) \in AnyStates /\ start(s, m).epoch = c.epoch /\ start(s, m).stored = c.stored
      /\ start(s, m).role = c.role /\ start(s, m).quorum = c.quorum /\ start(s, m).leader = c.leader
      /\ start(s, m).electing_me = TRUE /\ start(s, m).acked_me = {m}
      /\ start(s, m).leader_acked = c.leader_acked /\ start(s, m).timer = TRUE
  <2> DEFINE mine == {m}
  <2>1. mine \in SUBSET Mons
    OBVIOUS
  <2>2. start(s, m) = [c EXCEPT !.acked_me = mine, !.electing_me = TRUE, !.timer = TRUE]
    BY <1>5
  <2> HIDE DEF mine
  <2>3. /\ start(s, m) \in AnyStates /\ start(s, m).epoch = c.epoch
        /\ start(s, m).stored = c.stored
        /\ start(s, m).role = c.role /\ start(s, m).quorum = c.quorum
        /\ start(s, m).leader = c.leader
        /\ start(s, m).electing_me = TRUE /\ start(s, m).acked_me = mine
        /\ start(s, m).leader_acked = c.leader_acked /\ start(s, m).timer = TRUE
    BY <1>4, <2>1, <2>2 DEF AnyStates
  <2> QED
    BY <2>3 DEF mine
<1> QED
  BY <1>2, <1>4, <1>6, Zenon

\* Joining an election ends the membership of a quorum (Monitor.cc: join_election).
LEMMA JoinFacts ==
    ASSUME NEW s \in AnyStates
    PROVE  /\ JoinElection(s) \in AnyStates
           /\ JoinElection(s).epoch = s.epoch /\ JoinElection(s).stored = s.stored
           /\ JoinElection(s).role = "electing" /\ JoinElection(s).quorum = {}
           /\ JoinElection(s).leader = s.leader
BY DEF JoinElection, AnyStates

\* Joining and starting an election, as a monitor does that leaves a quorum.
LEMMA StartElectionFacts ==
    ASSUME NEW s \in AnyStates, NEW m \in Mons
    PROVE  /\ start_election(s, m) \in AnyStates
           /\ start_election(s, m).epoch = StartEpoch(s)
           /\ start_election(s, m).stored = IF s.stored = 0 THEN 0 ELSE StartEpoch(s)
           /\ start_election(s, m).role = "electing" /\ start_election(s, m).quorum = {}
           /\ start_election(s, m).electing_me = TRUE /\ start_election(s, m).acked_me = {m}
           /\ start_election(s, m).leader_acked = Nobody /\ start_election(s, m).timer = TRUE
<1>1. JoinElection(s) \in AnyStates /\ StartEpoch(JoinElection(s)) = StartEpoch(s)
      /\ JoinElection(s).stored = s.stored
      /\ JoinElection(s).role = "electing" /\ JoinElection(s).quorum = {}
  BY JoinFacts DEF StartEpoch
<1> QED
  BY <1>1, StartFacts DEF start_election

\* defer acks another candidate and sets the timer.
LEMMA DeferFacts ==
    ASSUME NEW s \in AnyStates, NEW who \in Mons
    PROVE  /\ defer(s, who) \in AnyStates
           /\ defer(s, who).epoch = s.epoch /\ defer(s, who).stored = s.stored
           /\ defer(s, who).role = s.role /\ defer(s, who).quorum = s.quorum
           /\ defer(s, who).leader = s.leader
           /\ defer(s, who).electing_me = FALSE
           /\ defer(s, who).leader_acked = who /\ defer(s, who).timer = TRUE
<1> DEFINE acked == IF s.electing_me THEN {} ELSE s.acked_me
<1>1. acked \in SUBSET Mons
  BY DEF AnyStates
<1>2. defer(s, who) = [s EXCEPT !.acked_me = acked, !.electing_me = FALSE,
                                !.leader_acked = who, !.timer = TRUE]
  BY DEF defer
<1> HIDE DEF acked
<1> QED
  BY <1>1, <1>2 DEF AnyStates

\* declare_victory enters the even epoch with those that acked as the quorum.
LEMMA VictoryFacts ==
    ASSUME NEW s \in AnyStates, NEW m \in Mons
    PROVE  /\ declare_victory(s, m) \in AnyStates
           /\ declare_victory(s, m).epoch = s.epoch + 1
           /\ declare_victory(s, m).stored = s.epoch + 1
           /\ declare_victory(s, m).role = "leader" /\ declare_victory(s, m).leader = m
           /\ declare_victory(s, m).quorum = s.acked_me
           /\ declare_victory(s, m).electing_me = FALSE
           /\ declare_victory(s, m).leader_acked = Nobody
<1> DEFINE c == clear_live_election_state(s)
           b == bump_epoch(c, s.epoch + 1)
<1>1. c \in AnyStates /\ c.leader_acked = Nobody
  BY ClearFacts
<1>2. s.epoch + 1 \in Nat /\ s.acked_me \in SUBSET Mons
  BY DEF AnyStates
<1> HIDE DEF c
<1>3. /\ b \in AnyStates /\ b.epoch = s.epoch + 1 /\ b.stored = s.epoch + 1
      /\ b.electing_me = FALSE /\ b.leader_acked = Nobody
  BY <1>1, <1>2, BumpFacts
<1>4. declare_victory(s, m) = [b EXCEPT !.role = "leader", !.leader = m, !.quorum = s.acked_me,
                                        !.timer = FALSE]
  BY DEF declare_victory, c
<1> HIDE DEF b
<1> QED
  BY <1>2, <1>3, <1>4 DEF AnyStates

\* The state t of a monitor that follows the victory of from with quorum Q in epoch e.
HasLost(t, from, e, Q) ==
    /\ t \in AnyStates /\ t.epoch = e /\ t.stored = e
    /\ t.role = "peon" /\ t.leader = from /\ t.quorum = Q
    /\ t.electing_me = FALSE /\ t.leader_acked = Nobody

\* lose_election follows the leader of the victory.
LEMMA LoseFacts ==
    ASSUME NEW s \in AnyStates, NEW from \in Mons, NEW e \in Nat, NEW Q \in SUBSET Mons
    PROVE  HasLost(lose_election(s, from, e, Q), from, e, Q)
<1> DEFINE c == clear_live_election_state(s)
           b == bump_epoch(c, e)
<1>1. c \in AnyStates /\ c.leader_acked = Nobody
  BY ClearFacts
<1> HIDE DEF c
<1>2. /\ b \in AnyStates /\ b.epoch = e /\ b.stored = e
      /\ b.electing_me = FALSE /\ b.leader_acked = Nobody
  BY <1>1, BumpFacts
<1>3. lose_election(s, from, e, Q) = [b EXCEPT !.role = "peon", !.leader = from, !.quorum = Q,
                                               !.timer = FALSE]
  BY DEF lose_election, c
<1> HIDE DEF b
<1> QED
  BY <1>2, <1>3 DEF HasLost, AnyStates

-----------------------------------------------------------------------------
(* What is on the network.                                                 *)

\* The first message of a connection is one of its messages.
LEMMA HeadElement ==
    ASSUME NEW S, NEW x \in Seq(S), x # <<>>
    PROVE  Head(x) \in S /\ Head(x) \in Elements(x)
<1>1. 1 \in DOMAIN x /\ Head(x) = x[1]
  OBVIOUS
<1>2. Head(x) \in S
  BY HeadTailProperties
<1> QED
  BY <1>1, <1>2 DEF Elements

\* Receiving the first message adds none.
LEMMA TailElements ==
    ASSUME NEW S, NEW x \in Seq(S), x # <<>>
    PROVE  Tail(x) \in Seq(S) /\ Elements(Tail(x)) \subseteq Elements(x)
<1>1. /\ Tail(x) \in Seq(S) /\ Len(Tail(x)) = Len(x) - 1
      /\ \A i \in 1..Len(Tail(x)) : Tail(x)[i] = x[i + 1]
  BY HeadTailProperties
<1>2. DOMAIN Tail(x) = 1..Len(Tail(x)) /\ DOMAIN x = 1..Len(x) /\ Len(x) \in Nat
  BY <1>1
<1>3. ASSUME NEW i \in DOMAIN Tail(x) PROVE Tail(x)[i] \in Elements(x)
  <2>1. i + 1 \in DOMAIN x /\ Tail(x)[i] = x[i + 1]
    BY <1>1, <1>2
  <2> QED
    BY <2>1 DEF Elements
<1> QED
  BY <1>1, <1>3 DEF Elements

\* Sending a message adds that one only.
LEMMA AppendElements ==
    ASSUME NEW S, NEW x \in Seq(S), NEW o \in S
    PROVE  Append(x, o) \in Seq(S) /\ Elements(Append(x, o)) \subseteq Elements(x) \cup {o}
<1> DEFINE y == Append(x, o)
<1>1. /\ y \in Seq(S) /\ Len(y) = Len(x) + 1 /\ y[Len(x) + 1] = o
      /\ \A i \in 1..Len(x) : y[i] = x[i]
  BY AppendProperties
<1>2. DOMAIN y = 1..Len(y) /\ DOMAIN x = 1..Len(x) /\ Len(x) \in Nat
  BY <1>1
<1> HIDE DEF y
<1>3. ASSUME NEW i \in DOMAIN y PROVE y[i] \in Elements(x) \cup {o}
  <2>1. CASE i = Len(x) + 1
    BY <2>1, <1>1
  <2>2. CASE i # Len(x) + 1
    <3>1. i \in DOMAIN x /\ y[i] = x[i]
      BY <2>2, <1>1, <1>2
    <3> QED
      BY <3>1 DEF Elements
  <2> QED
    BY <2>1, <2>2
<1>4. Elements(y) \subseteq Elements(x) \cup {o}
  BY <1>3 DEF Elements
<1> QED
  BY <1>1, <1>4 DEF y

\* Nothing appears on a connection but what is sent on it.
NetMoves(m, to, out) ==
    /\ net' \in Networks
    /\ \A a, b \in Mons : \A msg \in On(a, b)' : msg \in On(a, b) \/ (a = m /\ b \in to /\ msg = out)

\* One connection keeps what it has, loses its first message or gets out.
LEMMA ConnectionMoves ==
    ASSUME net \in Networks, NEW m \in Mons, NEW to \in SUBSET Mons, NEW out,
           net' = [c \in Mons \X Mons |-> net'[c]],
           \A a, b \in Mons :
              \/ net'[<<a, b>>] = net[<<a, b>>]
              \/ net[<<a, b>>] # <<>> /\ net'[<<a, b>>] = Tail(net[<<a, b>>])
              \/ net'[<<a, b>>] = <<>>
              \/ a = m /\ b \in to /\ out \in Message /\ net'[<<a, b>>] = Append(net[<<a, b>>], out)
    PROVE  NetMoves(m, to, out)
<1>1. ASSUME NEW a \in Mons, NEW b \in Mons
      PROVE  /\ net'[<<a, b>>] \in Seq(Message)
             /\ \A msg \in Elements(net'[<<a, b>>]) :
                    msg \in Elements(net[<<a, b>>]) \/ (a = m /\ b \in to /\ msg = out)
  <2>1. net[<<a, b>>] \in Seq(Message)
    BY DEF Networks
  <2>2. CASE net'[<<a, b>>] = net[<<a, b>>]
    BY <2>1, <2>2
  <2>3. CASE net[<<a, b>>] # <<>> /\ net'[<<a, b>>] = Tail(net[<<a, b>>])
    BY <2>1, <2>3, TailElements
  <2>4. CASE net'[<<a, b>>] = <<>>
    BY <2>4 DEF Elements
  <2>5. CASE a = m /\ b \in to /\ out \in Message /\ net'[<<a, b>>] = Append(net[<<a, b>>], out)
    BY <2>1, <2>5, AppendElements
  <2> QED
    BY <2>2, <2>3, <2>4, <2>5
<1>2. net' \in Networks
  <2>1. \A c \in Mons \X Mons : net'[c] \in Seq(Message)
    BY <1>1
  <2> QED
    BY <2>1 DEF Networks
<1> QED
  BY <1>1, <1>2 DEF NetMoves, On

\* The message that is received is on its connection.
LEMMA HeadIsOn ==
    ASSUME net \in Networks, NEW from \in Mons, NEW m \in Mons, net[<<from, m>>] # <<>>
    PROVE  Head(net[<<from, m>>]) \in Message /\ Head(net[<<from, m>>]) \in On(from, m)
<1>1. net[<<from, m>>] \in Seq(Message)
  BY DEF Networks
<1> QED
  BY <1>1, HeadElement DEF On

\* What is on a connection is a message of an epoch within the bound.
LEMMA OnIsMessage ==
    ASSUME net \in Networks, NEW a \in Mons, NEW b \in Mons, NEW msg \in On(a, b)
    PROVE  msg \in Message /\ msg.epoch \in Nat /\ msg.epoch <= MaxEpoch
<1>1. net[<<a, b>>] \in Seq(Message)
  BY DEF Networks
<1>2. msg \in Message
  BY <1>1 DEF On, Elements
<1> QED
  BY <1>2, ElectorConstants DEF Message

\* A handler takes one message off its connection and sends at most one to each receiver.
LEMMA ExchangedMoves ==
    ASSUME net \in Networks, NEW from \in Mons, NEW m \in Mons, net[<<from, m>>] # <<>>,
           NEW to \in SUBSET Mons, NEW out, to = {} \/ out \in Message,
           net' = Exchanged(from, m, to, out)
    PROVE  NetMoves(m, to, out)
<1>1. net' = [c \in Mons \X Mons |-> net'[c]]
  BY DEF Exchanged
<1>2. \A a, b \in Mons :
        \/ net'[<<a, b>>] = net[<<a, b>>]
        \/ net[<<a, b>>] # <<>> /\ net'[<<a, b>>] = Tail(net[<<a, b>>])
        \/ a = m /\ b \in to /\ out \in Message /\ net'[<<a, b>>] = Append(net[<<a, b>>], out)
  BY DEF Exchanged
<1> QED
  BY <1>1, <1>2, ConnectionMoves

\* A monitor sends one message to each receiver.
LEMMA SentMoves ==
    ASSUME net \in Networks, NEW m \in Mons, NEW to \in SUBSET Mons, NEW out \in Message,
           net' = Sent(m, to, out)
    PROVE  NetMoves(m, to, out)
<1>1. net' = [c \in Mons \X Mons |-> net'[c]]
  BY DEF Sent
<1>2. \A a, b \in Mons :
        \/ net'[<<a, b>>] = net[<<a, b>>]
        \/ a = m /\ b \in to /\ out \in Message /\ net'[<<a, b>>] = Append(net[<<a, b>>], out)
  BY DEF Sent
<1> QED
  BY <1>1, <1>2, ConnectionMoves

-----------------------------------------------------------------------------
(* What one step of one monitor does to the invariant.                     *)

\* Monitor m goes to s, and out to those in to: m has not gone back, and if it is in
\* the same epoch it stands if it stood.
LEMMA StepInv ==
    ASSUME ElectorInv, NEW m \in Mons, NEW s \in MonStates, MonOK(m, s),
           st' = [st EXCEPT ![m] = s], UNCHANGED disallowed, claims \subseteq claims',
           Reaches(s) >= Reaches(st[m]), s.epoch >= st[m].epoch,
           s.epoch = st[m].epoch /\ Standing(st[m]) => Standing(s),
           s.electing_me => \A q \in s.acked_me : q = m \/ Reaches(st[q]) >= s.epoch,
           NEW to \in SUBSET Mons, NEW out, NetMoves(m, to, out),
           \A b \in to : MessageOK(m, b, out)'
    PROVE  ElectorInv'
<1>1. /\ st \in [Mons -> MonStates] /\ st' \in [Mons -> MonStates] /\ st'[m] = s
      /\ \A q \in Mons : q # m => st'[q] = st[q]
  BY DEF ElectorInv, ElectorTypeOK
<1>2. \A q \in Mons : /\ Reaches(st[q]) \in Nat /\ Reaches(st'[q]) \in Nat
                      /\ st[q].epoch \in Nat /\ st'[q].epoch \in Nat
                      /\ st[q].acked_me \subseteq Mons /\ st'[q].acked_me \subseteq Mons
  BY <1>1, ElectorConstants DEF Reaches, MonStates
<1>3. \A q \in Mons : /\ Reaches(st'[q]) >= Reaches(st[q]) /\ st'[q].epoch >= st[q].epoch
                      /\ st'[q].epoch = st[q].epoch /\ Standing(st[q]) => Standing(st'[q])
  BY <1>1, <1>2
<1>4. ElectorTypeOK'
  BY <1>1 DEF ElectorInv, ElectorTypeOK, NetMoves
<1>5. MonsInv'
  BY <1>1 DEF ElectorInv, MonsInv, MonOK
<1>6. AcksInv'
  <2> SUFFICES ASSUME NEW n \in Mons, st'[n].electing_me, NEW q \in st'[n].acked_me
               PROVE  Reaches(st'[q]) >= st'[n].epoch
    BY DEF AcksInv, Reaches
  <2>1. q \in Mons
    BY <1>2
  <2>2. CASE n # m
    <3>1. Reaches(st[q]) >= st[n].epoch /\ st'[n] = st[n]
      BY <2>2, <1>1 DEF ElectorInv, AcksInv
    <3> QED
      BY <3>1, <2>1, <1>2, <1>3
  <2>3. CASE n = m /\ q # m
    <3>1. Reaches(st[q]) >= s.epoch /\ st'[q] = st[q]
      BY <2>1, <2>3, <1>1
    <3> QED
      BY <3>1, <2>3, <1>1
  <2>4. CASE n = m /\ q = m
    BY <2>4, <1>1, <1>2 DEF MonOK
  <2> QED
    BY <2>2, <2>3, <2>4
<1>7. MessagesInv'
  <2> SUFFICES ASSUME NEW a \in Mons, NEW b \in Mons, NEW msg \in On(a, b)'
               PROVE  MessageOK(a, b, msg)'
    BY DEF MessagesInv
  <2>1. CASE a = m /\ b \in to /\ msg = out
    BY <2>1
  <2>2. CASE msg \in On(a, b)
    <3>1. MessageOK(a, b, msg)
      BY <2>2 DEF ElectorInv, MessagesInv
    <3>2. msg.epoch \in Nat
      BY <2>2, OnIsMessage DEF ElectorInv, ElectorTypeOK
    <3>3. msg.op = "propose" =>
              /\ msg.epoch % 2 = 1 /\ msg.epoch <= st'[a].epoch
              /\ msg.epoch = st'[a].epoch => Standing(st'[a])
      BY <3>1, <3>2, <1>2, <1>3 DEF MessageOK
    <3>4. msg.op = "ack" =>
              /\ msg.epoch <= Reaches(st'[a]) /\ msg.epoch <= st'[b].epoch
              /\ msg.epoch = st'[b].epoch => Standing(st'[b])
              /\ a > b \/ a \in disallowed
      BY <3>1, <3>2, <1>2, <1>3 DEF MessageOK
    <3>5. msg.op = "victory" =>
              /\ [leader |-> a, epoch |-> msg.epoch, quorum |-> msg.quorum] \in claims'
              /\ b \in msg.quorum
              /\ a < b \/ b \in disallowed
      BY <3>1 DEF MessageOK
    <3> QED
      BY <3>1, <3>3, <3>4, <3>5 DEF MessageOK, Reaches, Standing
  <2> QED
    BY <2>1, <2>2 DEF NetMoves
<1> QED
  BY <1>4, <1>5, <1>6, <1>7 DEF ElectorInv

-----------------------------------------------------------------------------
(* What one step of one monitor is to MonElection.                         *)

AbstractStep == [Election!ElectionNext]_(Election!electionVars)
Settled(s) == s.role \in {"leader", "peon"}

\* It leaves whatever quorum it is in.
LEMMA LeaveStep ==
    ASSUME st \in [Mons -> MonStates], NEW m \in Mons, NEW s \in MonStates,
           st' = [st EXCEPT ![m] = s], UNCHANGED <<claims, follows>>,
           ~Settled(s), Reaches(s) >= Reaches(st[m]), Reaches(s) <= MaxEpoch
    PROVE  AbstractStep
<1>1. /\ st'[m] = s /\ \A q \in Mons : q # m => st'[q] = st[q]
      /\ \A q \in Mons : st[q].role \in {"probing", "electing", "leader", "peon"}
      /\ s.role \in {"probing", "electing"}
  BY DEF MonStates, Settled
<1>2. Reaches(s) \in 0..MaxEpoch
  BY ElectorConstants DEF Reaches, MonStates
<1>3. Election!Leave(m, Reaches(s))
  BY <1>1 DEF Election!Leave, Election!NoLeader, Nobody, Reaches
<1> QED
  BY <1>2, <1>3 DEF AbstractStep, Election!ElectionNext

\* Nothing changes that MonElection speaks of.
LEMMA StutterStep ==
    ASSUME st \in [Mons -> MonStates], NEW m \in Mons, NEW s \in MonStates,
           st' = [st EXCEPT ![m] = s], UNCHANGED <<claims, follows>>,
           Reaches(s) = Reaches(st[m]), Settled(s) <=> Settled(st[m]),
           Settled(s) => s.role = st[m].role /\ s.leader = st[m].leader /\ s.quorum = st[m].quorum
    PROVE  AbstractStep
<1>1. /\ st'[m] = s /\ \A q \in Mons : q # m => st'[q] = st[q]
      /\ \A q \in Mons : st[q].role \in {"probing", "electing", "leader", "peon"}
      /\ s.role \in {"probing", "electing", "leader", "peon"}
  BY DEF MonStates
<1>2. UNCHANGED Election!electionVars
  BY <1>1 DEF Election!electionVars, Nobody, Reaches, Settled
<1> QED
  BY <1>2 DEF AbstractStep

\* The module of the abstract election counts sets as this one does.
LEMMA SameCardinality == \A Q : Election!Cardinality(Q) = Cardinality(Q)
BY Zenon DEF Cardinality, Election!Cardinality

\* declare_victory: the quorum are those who acked, each of which had reached the epoch.
LEMMA ClaimStep ==
    ASSUME st \in [Mons -> MonStates], NEW m \in Mons, NEW s \in MonStates, NEW Q \in SUBSET Mons,
           st' = [st EXCEPT ![m] = s], UNCHANGED follows, claims' = claims \cup {Claimed(s)},
           s.role = "leader", s.leader = m, s.quorum = Q, s.stored = st[m].epoch + 1,
           s.epoch = s.stored,
           st[m].epoch = Reaches(st[m]), st[m].epoch % 2 = 1, m \in Q,
           \A q \in Q : Reaches(st[q]) >= st[m].epoch,
           2 * Cardinality(Q) > Cardinality(Mons)
    PROVE  AbstractStep
<1>1. /\ st'[m] = s /\ \A q \in Mons : q # m => st'[q] = st[q]
      /\ st[m].epoch \in Nat /\ s.stored # 0
  BY ElectorConstants DEF MonStates
<1>2. Election!IsMajority(Q)
  BY SameCardinality DEF Election!IsMajority
<1>3. Claimed(s) = [leader |-> m, epoch |-> Reaches(st[m]) + 1, quorum |-> Q]
  BY DEF Claimed
<1>4. \A q \in Q : Reaches(st[q]) >= Reaches(st[m]) /\ q \in Mons
  OBVIOUS
<1>5. Reaches(s) = Reaches(st[m]) + 1
  BY <1>1 DEF Reaches
<1>6. Election!Claim(m, Q)
  <2>1. [q \in Mons |-> Reaches(st'[q])] =
            [[q \in Mons |-> Reaches(st[q])] EXCEPT ![m] = Reaches(st[m]) + 1]
    BY <1>1, <1>5
  <2>2. claims' = claims \cup {[leader |-> m, epoch |-> Reaches(st[m]) + 1, quorum |-> Q]}
    BY <1>3
  <2> QED
    BY <1>1, <1>2, <1>4, <2>1, <2>2 DEF Election!Claim, Reaches
<1> QED
  BY <1>6 DEF AbstractStep, Election!ElectionNext

\* lose_election: the victory was claimed, with m in its quorum, out of m's election.
LEMMA FollowStep ==
    ASSUME st \in [Mons -> MonStates], NEW m \in Mons, NEW s \in MonStates,
           NEW from \in Mons, NEW e \in Nat, NEW Q \in SUBSET Mons,
           st' = [st EXCEPT ![m] = s], UNCHANGED claims,
           follows' = follows \cup {<<m, e, from>>},
           s.role = "peon", s.leader = from, s.quorum = Q, s.stored = e, e = Reaches(st[m]) + 1,
           [leader |-> from, epoch |-> e, quorum |-> Q] \in claims, m \in Q, m # from
    PROVE  AbstractStep
<1> DEFINE c == [leader |-> from, epoch |-> e, quorum |-> Q]
<1>1. /\ st'[m] = s /\ \A q \in Mons : q # m => st'[q] = st[q]
      /\ Reaches(st[m]) \in Nat /\ e # 0
  BY ElectorConstants DEF MonStates, Reaches
<1>2. c \in claims /\ c.leader = from /\ c.epoch = e /\ c.quorum = Q
  OBVIOUS
<1> HIDE DEF c
<1>3. Election!Follow(m, c)
  BY <1>1, <1>2 DEF Election!Follow, Reaches
<1> QED
  BY <1>2, <1>3 DEF AbstractStep, Election!ElectionNext

-----------------------------------------------------------------------------
(* The steps.                                                              *)

\* What the invariant says of one monitor.
LEMMA StateFacts ==
    ASSUME ElectorInv, NEW m \in Mons
    PROVE  /\ st \in [Mons -> MonStates] /\ st[m] \in MonStates /\ st[m] \in AnyStates
           /\ MonOK(m, st[m]) /\ st[m].epoch <= MaxEpoch /\ st[m].stored <= MaxEpoch
           /\ st[m].epoch \in Nat /\ st[m].stored \in Nat
           /\ Reaches(st[m]) \in Nat /\ Reaches(st[m]) >= st[m].stored
           /\ Reaches(st[m]) >= 1 /\ st[m].epoch <= Reaches(st[m])
<1>1. st \in [Mons -> MonStates] /\ st[m] \in MonStates /\ MonOK(m, st[m])
  BY DEF ElectorInv, ElectorTypeOK, MonsInv
<1>2. st[m] \in AnyStates /\ st[m].epoch <= MaxEpoch /\ st[m].stored <= MaxEpoch
      /\ st[m].epoch \in Nat /\ st[m].stored \in Nat
  BY <1>1, ElectorConstants DEF MonStates, AnyStates
<1>3. Reaches(st[m]) \in Nat /\ Reaches(st[m]) >= st[m].stored /\ Reaches(st[m]) >= 1
  BY <1>2 DEF Reaches
<1>4. st[m].epoch <= Reaches(st[m])
  BY <1>1, <1>2 DEF MonOK, Reaches
<1> QED
  BY <1>1, <1>2, <1>3, <1>4

\* A state whose epochs are within the bound has its type.
LEMMA BoundedState ==
    ASSUME NEW s \in AnyStates, s.epoch <= MaxEpoch, s.stored <= MaxEpoch
    PROVE  s \in MonStates
BY ElectorConstants DEF AnyStates, MonStates

\* m starts an election out of state x, in which it has stored no less than before.
IsElecting(m, x, t) ==
    /\ t \in AnyStates
    /\ t.epoch = StartEpoch(x) /\ t.stored = IF x.stored = 0 THEN 0 ELSE StartEpoch(x)
    /\ t.role = "electing" /\ t.electing_me = TRUE /\ t.acked_me = {m}
    /\ t.leader_acked = Nobody /\ t.timer = TRUE

\* A monitor enters an election and proposes itself: it leaves its quorum in the abstract
\* election.
LEMMA ElectingStep ==
    ASSUME ElectorInv, NEW m \in Mons, NEW x \in AnyStates, NEW t, IsElecting(m, x, t),
           x.stored >= st[m].stored,
           NEW out, out = Propose(t.epoch), NetMoves(m, Others(m), out),
           st' = [st EXCEPT ![m] = t], Bounded, UNCHANGED <<disallowed, claims, follows>>
    PROVE  ElectorInv' /\ AbstractStep
<1>1. /\ st \in [Mons -> MonStates] /\ st[m] \in MonStates /\ st[m].stored \in Nat
      /\ st[m].epoch \in Nat /\ MonOK(m, st[m])
  BY StateFacts
<1>2. st'[m] = t /\ t.epoch <= MaxEpoch
  BY <1>1 DEF Bounded
<1>3. /\ t \in AnyStates /\ t.epoch \in Nat /\ t.epoch % 2 = 1 /\ x.stored \in Nat
      /\ x.stored = 0 => t.epoch = 1 /\ t.stored = 0
      /\ x.stored # 0 => t.epoch > x.stored /\ t.stored = t.epoch
      /\ t.role = "electing" /\ t.electing_me = TRUE /\ t.acked_me = {m}
      /\ t.leader_acked = Nobody /\ t.timer = TRUE
  BY StartEpochFacts DEF IsElecting, AnyStates
<1>4. t.stored <= MaxEpoch /\ t \in MonStates
  BY <1>2, <1>3, BoundedState, ElectorConstants
<1>5. Reaches(t) = t.epoch /\ Reaches(t) >= Reaches(st[m]) /\ t.epoch >= st[m].epoch
  BY <1>1, <1>3 DEF Reaches, MonOK
<1>6. MonOK(m, t)
  BY <1>3, <1>5 DEF MonOK
<1>7. Standing(t)
  BY <1>3 DEF Standing
<1>8. \A b \in Others(m) : MessageOK(m, b, out)'
  <2>1. out.op = "propose" /\ out.epoch = t.epoch
    BY DEF Propose
  <2> QED
    BY <2>1, <1>2, <1>3, <1>7 DEF MessageOK, Others, Standing
<1>9. ElectorInv'
  BY <1>3, <1>4, <1>5, <1>6, <1>7, <1>8, StepInv DEF Others
<1>10. AbstractStep
  BY <1>1, <1>2, <1>3, <1>4, <1>5, LeaveStep DEF Settled
<1> QED
  BY <1>9, <1>10

\* m changes nothing but what it has heard.
LEMMA QuietStep ==
    ASSUME ElectorInv, NEW m \in Mons, NEW from \in Mons, net[<<from, m>>] # <<>>,
           Quietly(from, m, st[m])
    PROVE  ElectorInv' /\ AbstractStep
<1>1. /\ st \in [Mons -> MonStates] /\ st[m] \in MonStates /\ MonOK(m, st[m])
      /\ st[m].epoch \in Nat /\ Reaches(st[m]) \in Nat
  BY StateFacts
<1>2. net' = Exchanged(from, m, {}, Nobody) /\ st' = [st EXCEPT ![m] = st[m]]
      /\ UNCHANGED <<disallowed, claims, follows>>
  BY DEF Quietly
<1>3. PICK out : out = Nobody
  OBVIOUS
<1>4. NetMoves(m, {}, out)
  BY <1>2, <1>3, ExchangedMoves DEF ElectorInv, ElectorTypeOK
<1>5. PICK s \in MonStates : s = st[m]
  BY <1>1
<1>6. s.electing_me => \A q \in s.acked_me : q = m \/ Reaches(st[q]) >= s.epoch
  BY <1>5 DEF ElectorInv, AcksInv
<1>7. ElectorInv'
  <2>1. /\ MonOK(m, s) /\ st' = [st EXCEPT ![m] = s]
        /\ Reaches(s) >= Reaches(st[m]) /\ s.epoch >= st[m].epoch
        /\ s.epoch = st[m].epoch /\ Standing(st[m]) => Standing(s)
    BY <1>1, <1>2, <1>5
  <2>2. {} \in SUBSET Mons /\ \A b \in {} : MessageOK(m, b, out)'
    OBVIOUS
  <2>3. UNCHANGED disallowed /\ claims \subseteq claims'
    BY <1>2
  <2> QED
    BY <1>4, <1>6, <2>1, <2>2, <2>3, StepInv
<1>8. AbstractStep
  BY <1>1, <1>2, StutterStep
<1> QED
  BY <1>7, <1>8

\* Monitor::bootstrap: m probes, whatever election it was in.
LEMMA BootstrapStep ==
    ASSUME ElectorInv, NEW m \in Mons, NEW timer \in BOOLEAN, Bootstrap(m, timer)
    PROVE  ElectorInv' /\ AbstractStep
<1>1. /\ st \in [Mons -> MonStates] /\ st[m] \in MonStates /\ MonOK(m, st[m])
      /\ st[m].epoch \in Nat /\ Reaches(st[m]) \in Nat /\ st[m].epoch <= MaxEpoch
  BY StateFacts
<1> DEFINE t == [st[m] EXCEPT !.role = "probing", !.quorum = {}, !.timer = timer]
<1>2. st' = [st EXCEPT ![m] = t] /\ UNCHANGED <<net, disallowed, claims, follows>>
  BY <1>1 DEF Bootstrap, MonStates
<1>3. /\ t \in MonStates /\ t.role = "probing" /\ t.epoch = st[m].epoch /\ t.stored = st[m].stored
      /\ t.electing_me = st[m].electing_me /\ t.acked_me = st[m].acked_me
      /\ t.leader_acked = st[m].leader_acked
  BY <1>1 DEF MonStates
<1> HIDE DEF t
<1>4. PICK s \in MonStates : s = t
  BY <1>3
<1>5. MonOK(m, s) /\ Reaches(s) = Reaches(st[m]) /\ (Standing(st[m]) => Standing(s))
  BY <1>1, <1>3, <1>4 DEF MonOK, Reaches, Standing
<1>6. s.electing_me => \A q \in s.acked_me : q = m \/ Reaches(st[q]) >= s.epoch
  BY <1>3, <1>4 DEF ElectorInv, AcksInv
<1>7. PICK out : out = Nobody
  OBVIOUS
<1>8. NetMoves(m, {}, out)
  BY <1>2 DEF NetMoves, On, ElectorInv, ElectorTypeOK
<1>9. ElectorInv'
  <2>1. /\ st' = [st EXCEPT ![m] = s]
        /\ Reaches(s) >= Reaches(st[m]) /\ s.epoch >= st[m].epoch
        /\ s.epoch = st[m].epoch /\ Standing(st[m]) => Standing(s)
    BY <1>1, <1>2, <1>3, <1>4, <1>5
  <2>2. {} \in SUBSET Mons /\ \A b \in {} : MessageOK(m, b, out)'
    OBVIOUS
  <2>3. UNCHANGED disallowed /\ claims \subseteq claims'
    BY <1>2
  <2> QED
    BY <1>5, <1>6, <1>8, <2>1, <2>2, <2>3, StepInv
<1>10. AbstractStep
  <2>1. CASE Settled(st[m])
    <3>1. Reaches(st[m]) = st[m].epoch
      BY <1>1, <2>1 DEF MonOK, Settled
    <3> QED
      <4>1. /\ st' = [st EXCEPT ![m] = s] /\ ~Settled(s)
            /\ Reaches(s) >= Reaches(st[m]) /\ Reaches(s) <= MaxEpoch
        BY <1>1, <1>2, <1>3, <1>4, <1>5, <3>1 DEF Settled
      <4> QED
        BY <4>1, <1>1, <1>2, LeaveStep
  <2>2. CASE ~Settled(st[m])
    BY <1>1, <1>2, <1>3, <1>4, <1>5, <2>2, StutterStep DEF Settled
  <2> QED
    BY <2>1, <2>2
<1> QED
  BY <1>9, <1>10

\* The state t of a monitor that has just started.
HasBooted(t, stored) ==
    /\ t \in MonStates /\ t.role = "probing" /\ t.epoch = 0 /\ t.stored = stored
    /\ t.electing_me = FALSE /\ t.leader_acked = Nobody

\* A monitor that has booted knows its stored epoch only (ElectionLogic.cc: init).
LEMMA BootedFacts ==
    ASSUME NEW stored \in Nat, stored <= MaxEpoch
    PROVE  HasBooted(Booted(stored), stored)
<1> DEFINE none == {}
<1>1. none \in SUBSET Mons /\ 0 \in 0..MaxEpoch /\ stored \in 0..MaxEpoch
  BY ElectorConstants
<1>2. Booted(stored) = [epoch |-> 0, stored |-> stored, role |-> "probing", leader |-> Nobody,
                        quorum |-> none, electing_me |-> FALSE, acked_me |-> none,
                        leader_acked |-> Nobody, timer |-> FALSE]
  BY DEF Booted
<1> HIDE DEF none
<1> QED
  BY <1>1, <1>2 DEF HasBooted, MonStates

\* A crash takes all but the stored epoch, and what was on the way to or from m.
LEMMA CrashStep ==
    ASSUME ElectorInv, NEW m \in Mons, Crash(m)
    PROVE  ElectorInv' /\ AbstractStep
<1>1. /\ st \in [Mons -> MonStates] /\ st[m] \in MonStates /\ MonOK(m, st[m])
      /\ st[m].stored \in Nat /\ st[m].stored <= MaxEpoch
      /\ Reaches(st[m]) \in Nat /\ st[m].epoch <= MaxEpoch
  BY StateFacts
<1> DEFINE t == Booted(st[m].stored)
<1>2. st' = [st EXCEPT ![m] = t] /\ UNCHANGED <<disallowed, claims, follows>>
      /\ net' = [c \in Mons \X Mons |-> IF m \in {c[1], c[2]} THEN <<>> ELSE net[c]]
  BY DEF Crash
<1>3. /\ t \in MonStates /\ t.role = "probing" /\ t.epoch = 0 /\ t.stored = st[m].stored
      /\ t.electing_me = FALSE /\ t.leader_acked = Nobody
  <2>1. HasBooted(t, st[m].stored)
    BY <1>1, BootedFacts
  <2> QED
    BY <2>1 DEF HasBooted
<1> HIDE DEF t
<1>4. MonOK(m, t) /\ Reaches(t) = Reaches(st[m])
  BY <1>3 DEF MonOK, Reaches
<1>5. /\ st' \in [Mons -> MonStates] /\ st'[m] = t
      /\ \A q \in Mons : q # m => st'[q] = st[q]
      /\ \A q \in Mons : Reaches(st'[q]) = Reaches(st[q])
  BY <1>1, <1>2, <1>3, <1>4
<1>6. /\ net' \in Networks
      /\ \A a, b \in Mons : \A msg \in On(a, b)' : msg \in On(a, b) /\ a # m /\ b # m
  <2>1. ASSUME NEW a \in Mons, NEW b \in Mons
        PROVE  /\ net'[<<a, b>>] = net[<<a, b>>] \/ net'[<<a, b>>] = <<>>
               /\ a = m \/ b = m => net'[<<a, b>>] = <<>>
    BY <1>2
  <2>2. net' \in Networks
    <3>1. \A c \in Mons \X Mons : net'[c] \in Seq(Message)
      BY <1>2 DEF ElectorInv, ElectorTypeOK, Networks
    <3> QED
      BY <1>2, <3>1 DEF Networks
  <2>3. Elements(<<>>) = {}
    BY DEF Elements
  <2> QED
    BY <2>1, <2>2, <2>3 DEF On
<1>7. ElectorTypeOK' /\ MonsInv'
  BY <1>2, <1>4, <1>5, <1>6 DEF ElectorInv, ElectorTypeOK, MonsInv, MonOK
<1>8. AcksInv'
  <2> SUFFICES ASSUME NEW n \in Mons, st'[n].electing_me, NEW q \in st'[n].acked_me
               PROVE  Reaches(st'[q]) >= st'[n].epoch
    BY DEF AcksInv, Reaches
  <2>1. n # m /\ st'[n] = st[n]
    BY <1>3, <1>5
  <2>2. q \in Mons
    BY <1>5 DEF MonStates
  <2> QED
    BY <2>1, <2>2, <1>5 DEF ElectorInv, AcksInv
<1>9. MessagesInv'
  <2> SUFFICES ASSUME NEW a \in Mons, NEW b \in Mons, NEW msg \in On(a, b)'
               PROVE  MessageOK(a, b, msg)'
    BY DEF MessagesInv
  <2>1. MessageOK(a, b, msg) /\ st'[a] = st[a] /\ st'[b] = st[b]
    BY <1>5, <1>6 DEF ElectorInv, MessagesInv
  <2> QED
    BY <1>2, <2>1 DEF MessageOK, Reaches, Standing
<1>10. AbstractStep
  <2>1. CASE Settled(st[m])
    <3>1. Reaches(st[m]) = st[m].epoch
      BY <1>1, <2>1 DEF MonOK, Settled
    <3> QED
      <4>1. ~Settled(t) /\ Reaches(t) >= Reaches(st[m]) /\ Reaches(t) <= MaxEpoch
        BY <1>1, <1>3, <1>4, <3>1 DEF Settled
      <4> QED
        BY <4>1, <1>1, <1>2, <1>3, LeaveStep
  <2>2. CASE ~Settled(st[m])
    BY <1>1, <1>2, <1>3, <1>4, <2>2, StutterStep DEF Settled
  <2> QED
    BY <2>1, <2>2
<1> QED
  BY <1>7, <1>8, <1>9, <1>10 DEF ElectorInv

\* m takes a message and starts an election out of state x.
LEMMA ElectingExchanged ==
    ASSUME ElectorInv, NEW from \in Mons, NEW m \in Mons, net[<<from, m>>] # <<>>,
           NEW x \in AnyStates, NEW t, IsElecting(m, x, t), x.stored >= st[m].stored,
           Electing(from, m, t)
    PROVE  ElectorInv' /\ AbstractStep
<1>1. /\ st' = [st EXCEPT ![m] = t] /\ net' = Exchanged(from, m, Others(m), Propose(t.epoch))
      /\ Bounded /\ UNCHANGED <<disallowed, claims, follows>>
  BY DEF Electing
<1>2. PICK out : out = Propose(t.epoch)
  OBVIOUS
<1>3. out \in Message
  <2>1. st'[m] = t
    BY <1>1 DEF ElectorInv, ElectorTypeOK
  <2>2. t.epoch \in 0..MaxEpoch
    <3>1. t.epoch <= MaxEpoch
      BY <1>1, <2>1 DEF Bounded
    <3>2. t.epoch \in Nat
      BY DEF IsElecting, AnyStates
    <3> QED
      BY <3>1, <3>2, ElectorConstants
  <2> DEFINE none == {}
  <2>3. none \in SUBSET Mons /\ out = [op |-> "propose", epoch |-> t.epoch, quorum |-> none]
    BY <1>2 DEF Propose
  <2> HIDE DEF none
  <2> QED
    BY <2>2, <2>3 DEF Message
<1>4. NetMoves(m, Others(m), out)
  BY <1>1, <1>2, <1>3, ExchangedMoves DEF ElectorInv, ElectorTypeOK, Others
<1> QED
  BY <1>1, <1>2, <1>4, ElectingStep

\* m has taken up the epoch e of a propose that is not old (propose_classic_prefix).
HasReached(m, e, s) ==
    /\ s \in MonStates /\ s \in AnyStates /\ s.epoch = e /\ Reaches(s) = e
    /\ s.leader_acked = st[m].leader_acked /\ (st[m].timer => s.timer)
    /\ s.role # "probing" /\ s.stored >= st[m].stored
    /\ e = st[m].epoch => s = st[m]
    /\ e > st[m].epoch =>
        s.stored = e /\ s.stored # 0 /\ s.role = "electing" /\ s.electing_me = FALSE

\* A monitor that hears of a newer epoch catches up with it (bump_epoch).
LEMMA ReachedFacts ==
    ASSUME ElectorInv, NEW m \in Mons, st[m].role # "probing",
           NEW e \in Nat, e <= MaxEpoch, e >= st[m].epoch, NEW s, s = Reached(st[m], e)
    PROVE  HasReached(m, e, s)
<1>1. /\ st[m] \in MonStates /\ st[m] \in AnyStates /\ st[m].epoch \in Nat /\ st[m].stored \in Nat
      /\ st[m].epoch = Reaches(st[m]) /\ Reaches(st[m]) >= st[m].stored
  BY StateFacts DEF MonOK
<1>2. CASE e = st[m].epoch
  <2>1. s = st[m]
    BY <1>1, <1>2 DEF Reached
  <2> QED
    BY <1>1, <1>2, <2>1 DEF HasReached
<1>3. CASE e > st[m].epoch
  <2>1. s = bump_epoch(st[m], e)
    BY <1>3 DEF Reached
  <2>2. /\ s \in AnyStates /\ s.epoch = e /\ s.stored = e /\ s.role = "electing"
        /\ s.electing_me = FALSE /\ s.leader_acked = st[m].leader_acked /\ s.timer = st[m].timer
    <3>1. /\ bump_epoch(st[m], e) \in AnyStates
          /\ bump_epoch(st[m], e).epoch = e /\ bump_epoch(st[m], e).stored = e
          /\ bump_epoch(st[m], e).role = "electing" /\ bump_epoch(st[m], e).electing_me = FALSE
          /\ bump_epoch(st[m], e).leader_acked = st[m].leader_acked
          /\ bump_epoch(st[m], e).timer = st[m].timer
      BY <1>1, BumpFacts
    <3> QED
      BY <2>1, <3>1, Zenon
  <2>3. s \in MonStates
    BY <2>2, BoundedState
  <2>4. e # 0 /\ Reaches(s) = e
    BY <1>1, <1>3, <2>2 DEF Reaches
  <2>5. s.stored >= st[m].stored
    BY <1>1, <1>3, <2>2
  <2> QED
    BY <1>1, <1>3, <2>2, <2>3, <2>4, <2>5 DEF HasReached
<1>4. e = st[m].epoch \/ e > st[m].epoch
  BY <1>1
<1> QED
  BY <1>2, <1>3, <1>4

\* Whatever m makes of a propose, it does not go back, and leaves its quorum if it bumps.
LEMMA HeardStep ==
    ASSUME ElectorInv, NEW from \in Mons, NEW m \in Mons, net[<<from, m>>] # <<>>,
           st[m].role # "probing", NEW d \in MonStates, MonOK(m, d),
           st' = [st EXCEPT ![m] = d], UNCHANGED <<disallowed, claims, follows>>,
           d.epoch >= st[m].epoch, d.epoch = Reaches(d), d.electing_me => d = st[m],
           d.epoch = st[m].epoch =>
              /\ d.role = st[m].role /\ d.leader = st[m].leader /\ d.quorum = st[m].quorum
              /\ Standing(st[m]) => Standing(d),
           d.epoch > st[m].epoch => d.role = "electing",
           NEW to \in SUBSET Mons, NEW out, to = {} \/ out \in Message,
           net' = Exchanged(from, m, to, out), \A b \in to : MessageOK(m, b, out)'
    PROVE  ElectorInv' /\ AbstractStep
<1>1. /\ st \in [Mons -> MonStates] /\ MonOK(m, st[m]) /\ st[m].epoch \in Nat
      /\ Reaches(st[m]) = st[m].epoch
  BY StateFacts DEF MonOK
<1>2. d.epoch \in Nat /\ d.epoch <= MaxEpoch
  BY ElectorConstants DEF MonStates
<1>3. NetMoves(m, to, out)
  BY ExchangedMoves DEF ElectorInv, ElectorTypeOK
<1>4. d.electing_me => \A q \in d.acked_me : q = m \/ Reaches(st[q]) >= d.epoch
  BY DEF ElectorInv, AcksInv
<1>5. Reaches(d) >= Reaches(st[m]) /\ Reaches(d) <= MaxEpoch
  BY <1>1, <1>2
<1>6. (d.epoch = st[m].epoch /\ Standing(st[m]) => Standing(d)) /\ claims \subseteq claims'
      /\ UNCHANGED disallowed
  OBVIOUS
<1>7. ElectorInv'
  BY <1>3, <1>4, <1>5, <1>6, StepInv
<1>8. CASE d.epoch = st[m].epoch
  BY <1>1, <1>7, <1>8, StutterStep DEF Settled
<1>9. CASE d.epoch > st[m].epoch
  <2>1. ~Settled(d)
    BY <1>9 DEF Settled
  <2> QED
    BY <1>1, <1>5, <1>7, <2>1, LeaveStep
<1> QED
  BY <1>1, <1>2, <1>8, <1>9

\* What is known of the message a monitor hears.
LEMMA HeardMessage ==
    ASSUME ElectorInv, NEW from \in Mons, NEW m \in Mons, net[<<from, m>>] # <<>>,
           NEW msg, msg = Head(net[<<from, m>>])
    PROVE  /\ msg \in Message /\ MessageOK(from, m, msg)
           /\ msg.epoch \in Nat /\ msg.epoch <= MaxEpoch /\ msg.quorum \in SUBSET Mons
<1>1. msg \in Message /\ msg \in On(from, m)
  BY HeadIsOn DEF ElectorInv, ElectorTypeOK
<1>2. MessageOK(from, m, msg)
  BY <1>1 DEF ElectorInv, MessagesInv
<1> QED
  BY <1>1, <1>2, ElectorConstants DEF Message

\* A proposal of an older epoch (Elector.cc: handle_propose, ElectionLogic.cc:
\* receive_propose).
LEMMA OldProposeStep ==
    ASSUME ElectorInv, NEW from \in Mons, NEW m \in Mons, ReceiveOldPropose(from, m)
    PROVE  ElectorInv' /\ AbstractStep
<1>1. net[<<from, m>>] # <<>>
  BY DEF ReceiveOldPropose, Arrives
<1>2. CASE Electing(from, m, start_election(st[m], m))
  <2>1. PICK x \in AnyStates : x = st[m]
    BY StateFacts
  <2>2. PICK t : t = start_election(x, m)
    OBVIOUS
  <2>3. IsElecting(m, x, t)
    BY <2>2, StartElectionFacts DEF IsElecting
  <2>4. x.stored >= st[m].stored
    BY <2>1, StateFacts
  <2>5. Electing(from, m, t)
    BY <1>2, <2>1, <2>2
  <2> QED
    BY <1>1, <2>3, <2>4, <2>5, ElectingExchanged
<1>3. CASE Quietly(from, m, st[m])
  BY <1>1, <1>3, QuietStep
<1> QED
  BY <1>2, <1>3 DEF ReceiveOldPropose

\* An ack is a message.
LEMMA AckIsMessage ==
    ASSUME NEW e \in Nat, e <= MaxEpoch
    PROVE  Ack(e) \in Message /\ Ack(e).op = "ack" /\ Ack(e).epoch = e
<1> DEFINE none == {}
<1>1. none \in SUBSET Mons /\ Ack(e) = [op |-> "ack", epoch |-> e, quorum |-> none]
  BY DEF Ack
<1>2. e \in 0..MaxEpoch
  BY ElectorConstants
<1> HIDE DEF none
<1> QED
  BY <1>1, <1>2 DEF Message

\* A proposal of the monitor's epoch or a newer one.
LEMMA ProposeStep ==
    ASSUME ElectorInv, NEW from \in Mons, NEW m \in Mons, ReceivePropose(from, m)
    PROVE  ElectorInv' /\ AbstractStep
<1>1. /\ net[<<from, m>>] # <<>> /\ st[m].role # "probing"
      /\ Head(net[<<from, m>>]).op = "propose" /\ Head(net[<<from, m>>]).epoch >= st[m].epoch
  BY DEF ReceivePropose, Arrives
<1>2. PICK msg : msg = Head(net[<<from, m>>])
  OBVIOUS
<1>3. /\ MessageOK(from, m, msg) /\ msg.epoch \in Nat /\ msg.epoch <= MaxEpoch
      /\ msg.op = "propose" /\ msg.epoch >= st[m].epoch
  BY <1>1, <1>2, HeardMessage
<1>4. PICK e \in Nat : e = msg.epoch
  BY <1>3
<1>5. /\ from # m /\ e <= st[from].epoch /\ (e = st[from].epoch => Standing(st[from]))
      /\ e <= MaxEpoch /\ e >= st[m].epoch
  BY <1>3, <1>4 DEF MessageOK
<1>6. PICK s : s = Reached(st[m], e)
  OBVIOUS
<1>7. /\ s \in MonStates /\ s \in AnyStates /\ s.epoch = e /\ Reaches(s) = e
      /\ s.leader_acked = st[m].leader_acked /\ (st[m].timer => s.timer)
      /\ s.role # "probing" /\ s.stored >= st[m].stored
      /\ e = st[m].epoch => s = st[m]
      /\ e > st[m].epoch =>
            s.stored = e /\ s.stored # 0 /\ s.role = "electing" /\ s.electing_me = FALSE
  <2>1. HasReached(m, e, s)
    BY <1>1, <1>5, <1>6, ReachedFacts
  <2> QED
    BY <2>1 DEF HasReached
<1>8. /\ MonOK(m, st[m]) /\ st[m] \in MonStates /\ st[m].epoch \in Nat /\ st \in [Mons -> MonStates]
  BY StateFacts
<1>9. m \in Nat /\ from \in Nat
  BY ElectorConstants
<1>10. CASE Electing(from, m, start_election(s, m))
  <2>1. PICK t : t = start_election(s, m)
    OBVIOUS
  <2>2. IsElecting(m, s, t)
    BY <1>7, <2>1, StartElectionFacts DEF IsElecting
  <2>3. Electing(from, m, t)
    BY <1>10, <2>1
  <2> QED
    BY <1>1, <1>7, <2>2, <2>3, ElectingExchanged
<1>11. CASE /\ ~MyWin(m, from) /\ TheirWin(s, m, from)
            /\ st' = [st EXCEPT ![m] = defer(s, from)]
            /\ net' = Exchanged(from, m, {from}, Ack(s.epoch))
            /\ UNCHANGED <<disallowed, claims, follows, bootstraps, crashes>>
  <2>1. from \notin disallowed /\ (m > from \/ m \in disallowed)
    BY <1>11 DEF TheirWin
  <2>2. PICK d : d = defer(s, from)
    OBVIOUS
  <2>3. /\ d \in AnyStates /\ d.epoch = e /\ d.stored = s.stored /\ d.role = s.role
        /\ d.quorum = s.quorum /\ d.leader = s.leader
        /\ d.electing_me = FALSE /\ d.leader_acked = from /\ d.timer = TRUE
    BY <1>7, <2>2, DeferFacts
  <2>4. d \in MonStates
    BY <1>7, <2>3, <1>5, BoundedState, ElectorConstants DEF MonStates
  <2>5. Reaches(d) = e /\ from # Nobody /\ Standing(d)
    BY <1>7, <1>9, <2>3 DEF Reaches, Nobody, Standing
  <2>6. MonOK(m, d)
    <3>1. d.epoch \in {0, d.stored} \/ (d.epoch = 1 /\ d.stored = 0)
      BY <2>3, <2>5 DEF Reaches
    <3> QED
      BY <3>1, <2>1, <2>3, <2>5 DEF MonOK
  <2>7. PICK out : out = Ack(e)
    OBVIOUS
  <2>8. out \in Message /\ out.op = "ack" /\ out.epoch = e
    BY <1>5, <2>7, AckIsMessage
  <2>9. st'[m] = d /\ st'[from] = st[from] /\ disallowed' = disallowed
    BY <1>5, <1>8, <1>11, <2>2
  <2>10. \A b \in {from} : MessageOK(m, b, out)'
    BY <1>5, <2>1, <2>3, <2>5, <2>8, <2>9 DEF MessageOK, Standing, Reaches
  <2>11. net' = Exchanged(from, m, {from}, out) /\ st' = [st EXCEPT ![m] = d]
         /\ UNCHANGED <<disallowed, claims, follows>>
    BY <1>7, <1>11, <2>2, <2>7
  <2>12. /\ d.epoch >= st[m].epoch /\ d.epoch = Reaches(d) /\ (d.electing_me => d = st[m])
         /\ d.epoch = st[m].epoch =>
              /\ d.role = st[m].role /\ d.leader = st[m].leader /\ d.quorum = st[m].quorum
              /\ Standing(st[m]) => Standing(d)
         /\ d.epoch > st[m].epoch => d.role = "electing"
    BY <1>5, <1>7, <2>3, <2>5
  <2>13. {from} \in SUBSET Mons
    OBVIOUS
  <2> QED
    BY <1>1, <2>4, <2>6, <2>8, <2>10, <2>11, <2>12, <2>13, HeardStep
<1>12. CASE /\ IF MyWin(m, from) THEN ~(s.leader_acked = Nobody /\ ~s.electing_me)
               ELSE ~TheirWin(s, m, from)
            /\ Quietly(from, m, s)
  <2>1. CASE e = st[m].epoch
    BY <1>1, <1>7, <1>12, <2>1, QuietStep
  <2>2. CASE e > st[m].epoch
    <3>1. s.stored = e /\ s.stored # 0 /\ s.role = "electing" /\ s.electing_me = FALSE
      BY <1>7, <2>2
    <3>2. s.leader_acked # Nobody => s.timer
      BY <1>1, <1>7, <1>8 DEF MonOK, Standing
    <3>3. m \notin disallowed => s.leader_acked # Nobody
      <4>1. CASE MyWin(m, from)
        BY <1>12, <3>1, <4>1
      <4>2. CASE ~MyWin(m, from) /\ m \notin disallowed
        BY <1>5, <1>9, <1>12, <4>2 DEF MyWin, TheirWin
      <4> QED
        BY <4>1, <4>2
    <3>4. MonOK(m, s)
      <4>1. s.leader_acked # Nobody =>
              s.leader_acked \notin disallowed /\ (m > s.leader_acked \/ m \in disallowed)
        BY <1>7, <1>8 DEF MonOK
      <4> QED
        BY <1>7, <3>1, <3>2, <3>3, <4>1 DEF MonOK, Standing
    <3>5. PICK out : out = Nobody
      OBVIOUS
    <3>6. net' = Exchanged(from, m, {}, out) /\ st' = [st EXCEPT ![m] = s]
          /\ UNCHANGED <<disallowed, claims, follows>>
      BY <1>12, <3>5 DEF Quietly
    <3>7. {} \in SUBSET Mons /\ \A b \in {} : MessageOK(m, b, out)'
      OBVIOUS
    <3>8. /\ s.epoch >= st[m].epoch /\ s.epoch = Reaches(s) /\ (s.electing_me => s = st[m])
          /\ s.epoch = st[m].epoch =>
               /\ s.role = st[m].role /\ s.leader = st[m].leader /\ s.quorum = st[m].quorum
               /\ Standing(st[m]) => Standing(s)
          /\ s.epoch > st[m].epoch => s.role = "electing"
      BY <1>5, <1>7, <1>8, <2>2, <3>1
    <3> QED
      BY <1>1, <1>7, <3>4, <3>6, <3>7, <3>8, HeardStep
  <2> QED
    BY <1>5, <1>8, <2>1, <2>2
<1> QED
  BY <1>2, <1>4, <1>6, <1>10, <1>11, <1>12 DEF ReceivePropose

\* The announcement of a victory is a message.
LEMMA VictoryIsMessage ==
    ASSUME NEW e \in Nat, e <= MaxEpoch, NEW Q \in SUBSET Mons
    PROVE  /\ Victory(e, Q) \in Message /\ Victory(e, Q).op = "victory"
           /\ Victory(e, Q).epoch = e /\ Victory(e, Q).quorum = Q
<1>1. e \in 0..MaxEpoch
  BY ElectorConstants
<1> QED
  BY <1>1 DEF Victory, Message

\* m, standing in its epoch, has the acks of a majority: x is its state with the last of them.
LEMMA WinStep ==
    ASSUME ElectorInv, NEW m \in Mons, st[m].electing_me,
           NEW x \in AnyStates, x.epoch = st[m].epoch, m \in x.acked_me,
           \A q \in x.acked_me : Reaches(st[q]) >= st[m].epoch,
           \A q \in x.acked_me \ {m} : q > m \/ q \in disallowed,
           2 * Cardinality(x.acked_me) > Cardinality(Mons),
           NEW t, t = declare_victory(x, m), NEW channels, Win(m, t, channels),
           NEW out, out = Victory(t.epoch, x.acked_me),
           NEW to \in SUBSET Mons, to = x.acked_me \ {m}, out \in Message => NetMoves(m, to, out)
    PROVE  ElectorInv' /\ AbstractStep
<1>1. /\ st \in [Mons -> MonStates] /\ MonOK(m, st[m]) /\ st[m].epoch \in Nat
      /\ Reaches(st[m]) \in Nat /\ st[m].epoch <= MaxEpoch
  BY StateFacts
<1>2. /\ st' = [st EXCEPT ![m] = t] /\ claims' = claims \cup {Claimed(t)}
      /\ Bounded /\ UNCHANGED <<disallowed, follows>>
  BY DEF Win
<1>3. /\ t \in AnyStates /\ t.epoch = st[m].epoch + 1 /\ t.stored = st[m].epoch + 1
      /\ t.role = "leader" /\ t.leader = m /\ t.quorum = x.acked_me
      /\ t.electing_me = FALSE /\ t.leader_acked = Nobody
  <2>1. /\ declare_victory(x, m) \in AnyStates
        /\ declare_victory(x, m).epoch = x.epoch + 1
        /\ declare_victory(x, m).stored = x.epoch + 1
        /\ declare_victory(x, m).role = "leader" /\ declare_victory(x, m).leader = m
        /\ declare_victory(x, m).quorum = x.acked_me
        /\ declare_victory(x, m).electing_me = FALSE
        /\ declare_victory(x, m).leader_acked = Nobody
    BY VictoryFacts
  <2> QED
    BY <2>1, Zenon
<1>4. st'[m] = t /\ t.epoch <= MaxEpoch
  BY <1>1, <1>2 DEF Bounded
<1>5. t \in MonStates /\ x.acked_me \in SUBSET Mons /\ t.epoch \in Nat
  BY <1>1, <1>3, <1>4, BoundedState DEF AnyStates
<1>6. st[m].epoch = Reaches(st[m]) /\ st[m].epoch % 2 = 1
  BY <1>1 DEF MonOK
<1>7. MonOK(m, t) /\ Reaches(t) = st[m].epoch + 1
  BY <1>1, <1>3 DEF MonOK, Reaches, Standing
<1>8. /\ out \in Message /\ out.op = "victory" /\ out.epoch = t.epoch /\ out.quorum = x.acked_me
  BY <1>4, <1>5, VictoryIsMessage
<1>9. \A b \in to : MessageOK(m, b, out)'
  <2> SUFFICES ASSUME NEW b \in to PROVE MessageOK(m, b, out)'
    OBVIOUS
  <2>1. b \in x.acked_me /\ b # m /\ (b > m \/ b \in disallowed)
    OBVIOUS
  <2>2. m < b \/ b \in disallowed
    BY <2>1
  <2>3. [leader |-> m, epoch |-> out.epoch, quorum |-> out.quorum] \in claims'
    BY <1>2, <1>3, <1>8 DEF Claimed
  <2> QED
    BY <1>2, <1>8, <2>1, <2>2, <2>3 DEF MessageOK
<1>10. ElectorInv'
  <2>1. /\ claims \subseteq claims' /\ UNCHANGED disallowed
        /\ Reaches(t) >= Reaches(st[m]) /\ t.epoch >= st[m].epoch
        /\ (t.epoch = st[m].epoch /\ Standing(st[m]) => Standing(t))
        /\ (t.electing_me => \A q \in t.acked_me : q = m \/ Reaches(st[q]) >= t.epoch)
    BY <1>1, <1>2, <1>3, <1>6, <1>7
  <2>2. NetMoves(m, to, out)
    BY <1>8
  <2> QED
    BY <1>2, <1>5, <1>7, <1>9, <2>1, <2>2, StepInv
<1>11. AbstractStep
  <2>1. PICK Q \in SUBSET Mons : Q = x.acked_me
    BY <1>5
  <2>2. /\ t.quorum = Q /\ t.stored = st[m].epoch + 1 /\ t.epoch = t.stored /\ m \in Q
        /\ \A q \in Q : Reaches(st[q]) >= st[m].epoch
        /\ 2 * Cardinality(Q) > Cardinality(Mons)
        /\ UNCHANGED follows
    BY <1>2, <1>3, <2>1
  <2> QED
    BY <1>1, <1>2, <1>3, <1>5, <1>6, <2>2, ClaimStep
<1> QED
  BY <1>10, <1>11

\* All monitors together are a majority.
LEMMA MonmapIsMajority ==
    ASSUME NEW m \in Mons
    PROVE  2 * Cardinality(Mons) > Cardinality(Mons)
<1>1. IsFiniteSet(Mons)
  BY ElectorConstants
<1>2. Cardinality(Mons) \in Nat
  BY <1>1, FS_CardinalityType
<1>3. Cardinality(Mons) # 0
  BY <1>1, FS_EmptySet
<1> QED
  BY <1>2, <1>3

\* An ack, also the last one a candidate waits for, which makes it leader.
LEMMA AckStep ==
    ASSUME ElectorInv, NEW from \in Mons, NEW m \in Mons, ReceiveAck(from, m)
    PROVE  ElectorInv' /\ AbstractStep
<1>1. /\ net[<<from, m>>] # <<>> /\ st[m].role # "probing" /\ Head(net[<<from, m>>]).op = "ack"
  BY DEF ReceiveAck, Arrives
<1>2. PICK msg : msg = Head(net[<<from, m>>])
  OBVIOUS
<1>3. /\ MessageOK(from, m, msg) /\ msg.epoch \in Nat /\ msg.op = "ack"
  BY <1>1, <1>2, HeardMessage
<1>4. /\ from # m /\ msg.epoch <= Reaches(st[from]) /\ msg.epoch <= st[m].epoch
      /\ from > m \/ from \in disallowed
  BY <1>3 DEF MessageOK
<1>5. /\ MonOK(m, st[m]) /\ st[m] \in MonStates /\ st[m].epoch \in Nat /\ st \in [Mons -> MonStates]
      /\ Reaches(st[from]) \in Nat /\ st[m].epoch <= MaxEpoch /\ st[m].stored <= MaxEpoch
      /\ st[m] \in AnyStates /\ Reaches(st[m]) \in Nat
  BY StateFacts
<1>6. CASE Quietly(from, m, st[m])
  BY <1>1, <1>6, QuietStep
<1>7. CASE ~(msg.epoch < st[m].epoch \/ ~st[m].electing_me)
  <2>1. msg.epoch = st[m].epoch /\ st[m].electing_me
    BY <1>3, <1>4, <1>5, <1>7
  <2>2. Reaches(st[from]) >= st[m].epoch
    BY <1>4, <1>5, <2>1
  <2>3. PICK Q \in SUBSET Mons : Q = st[m].acked_me \cup {from}
    BY <1>5 DEF MonStates
  <2>4. PICK x : x = [st[m] EXCEPT !.acked_me = Q]
    OBVIOUS
  <2>5. /\ x \in MonStates /\ x \in AnyStates /\ x.epoch = st[m].epoch /\ x.stored = st[m].stored
        /\ x.acked_me = Q /\ x.role = st[m].role /\ x.leader = st[m].leader
        /\ x.quorum = st[m].quorum /\ x.leader_acked = st[m].leader_acked
    BY <1>5, <2>4 DEF MonStates, AnyStates
  <2>6. x.electing_me = st[m].electing_me /\ x.timer = st[m].timer
    BY <1>5, <2>4 DEF MonStates
  <2>7. x.electing_me /\ (st[m].timer => x.timer) /\ Standing(x)
    BY <2>1, <2>6 DEF Standing
  <2>8. /\ m \in Q /\ \A q \in Q : Reaches(st[q]) >= st[m].epoch
        /\ \A q \in Q \ {m} : q > m \/ q \in disallowed
    BY <1>4, <1>5, <2>1, <2>2, <2>3 DEF ElectorInv, AcksInv, MonOK
  <2>9. CASE Q = Mons /\ Win(m, declare_victory(x, m), Exchanged(from, m, Others(m),
                                Victory(declare_victory(x, m).epoch, Mons)))
    <3>1. PICK t : t = declare_victory(x, m)
      OBVIOUS
    <3>2. PICK out : out = Victory(t.epoch, x.acked_me)
      OBVIOUS
    <3>3. PICK to \in SUBSET Mons : to = x.acked_me \ {m} /\ to = Others(m)
      BY <2>5, <2>9 DEF Others
    <3>4. PICK channels : channels = Exchanged(from, m, to, out)
      OBVIOUS
    <3>5. Win(m, t, channels)
      BY <2>5, <2>9, <3>1, <3>2, <3>3, <3>4
    <3>6. net' = Exchanged(from, m, to, out)
      BY <3>4, <3>5 DEF Win
    <3>7. out \in Message => NetMoves(m, to, out)
      BY <1>1, <3>6, ExchangedMoves DEF ElectorInv, ElectorTypeOK
    <3>8. 2 * Cardinality(x.acked_me) > Cardinality(Mons)
      BY <2>5, <2>9, MonmapIsMajority
    <3>9. /\ m \in x.acked_me /\ \A q \in x.acked_me : Reaches(st[q]) >= st[m].epoch
          /\ \A q \in x.acked_me \ {m} : q > m \/ q \in disallowed
      BY <2>5, <2>8
    <3> QED
      BY <2>1, <2>5, <3>1, <3>2, <3>3, <3>5, <3>7, <3>8, <3>9, WinStep
  <2>10. CASE Quietly(from, m, x)
    <3>1. PICK out : out = Nobody
      OBVIOUS
    <3>2. net' = Exchanged(from, m, {}, out) /\ st' = [st EXCEPT ![m] = x]
          /\ UNCHANGED <<disallowed, claims, follows>>
      BY <2>10, <3>1 DEF Quietly
    <3>3. {} \in SUBSET Mons /\ \A b \in {} : MessageOK(m, b, out)'
      OBVIOUS
    <3>4. NetMoves(m, {}, out)
      BY <1>1, <3>2, ExchangedMoves DEF ElectorInv, ElectorTypeOK
    <3>5. MonOK(m, x) /\ Reaches(x) = Reaches(st[m])
      <4>1. Reaches(x) = Reaches(st[m])
        BY <2>5 DEF Reaches
      <4> QED
        BY <1>5, <2>1, <2>5, <2>7, <2>8, <4>1 DEF MonOK, Standing
    <3>6. /\ Reaches(x) >= Reaches(st[m]) /\ x.epoch >= st[m].epoch
          /\ (x.epoch = st[m].epoch /\ Standing(st[m]) => Standing(x))
          /\ (x.electing_me => \A q \in x.acked_me : q = m \/ Reaches(st[q]) >= x.epoch)
          /\ claims \subseteq claims' /\ UNCHANGED disallowed
      BY <1>5, <2>5, <2>7, <2>8, <3>2, <3>5
    <3>7. ElectorInv'
      BY <2>5, <3>2, <3>3, <3>4, <3>5, <3>6, StepInv
    <3>8. AbstractStep
      BY <1>5, <2>5, <3>2, <3>5, StutterStep DEF Settled
    <3> QED
      BY <3>7, <3>8
  <2> QED
    BY <1>2, <1>7, <2>3, <2>4, <2>5, <2>9, <2>10 DEF ReceiveAck
<1> QED
  BY <1>2, <1>6, <1>7 DEF ReceiveAck

\* A victory is heard, and followed or not.
LEMMA VictoryStep ==
    ASSUME ElectorInv, NEW from \in Mons, NEW m \in Mons, ReceiveVictory(from, m)
    PROVE  ElectorInv' /\ AbstractStep
<1>1. /\ net[<<from, m>>] # <<>> /\ st[m].role # "probing" /\ Head(net[<<from, m>>]).op = "victory"
  BY DEF ReceiveVictory, Arrives
<1>2. PICK msg : msg = Head(net[<<from, m>>])
  OBVIOUS
<1>3. /\ MessageOK(from, m, msg) /\ msg.epoch \in Nat /\ msg.epoch <= MaxEpoch
      /\ msg.quorum \in SUBSET Mons /\ msg.op = "victory"
  BY <1>1, <1>2, HeardMessage
<1>4. PICK e \in Nat, Q \in SUBSET Mons : e = msg.epoch /\ Q = msg.quorum
  BY <1>3
<1>5. from # m /\ [leader |-> from, epoch |-> e, quorum |-> Q] \in claims /\ m \in Q
  BY <1>3, <1>4 DEF MessageOK
<1>6. /\ st \in [Mons -> MonStates] /\ st[m] \in AnyStates /\ MonOK(m, st[m])
      /\ st[m].epoch \in Nat /\ st[m].stored \in Nat
      /\ Reaches(st[m]) = st[m].epoch /\ Reaches(st[m]) >= st[m].stored
  BY <1>1, StateFacts DEF MonOK
<1>7. CASE Quietly(from, m, st[m])
  BY <1>1, <1>7, QuietStep
<1>8. CASE /\ e >= st[m].epoch
           /\ Electing(from, m, start(bump_epoch(clear_live_election_state(st[m]), e), m))
  <2>1. PICK c \in AnyStates : c = clear_live_election_state(st[m])
    BY <1>6, ClearFacts
  <2>2. PICK x \in AnyStates : x = bump_epoch(c, e)
    BY <2>1, BumpFacts
  <2>3. x.stored = e /\ x.role = "electing"
    BY <2>1, <2>2, BumpFacts
  <2>4. PICK t : t = start(x, m)
    OBVIOUS
  <2>5. IsElecting(m, x, t)
    <3>1. start(x, m).role = "electing"
      BY <2>3, StartFacts
    <3> QED
      BY <2>4, <3>1, StartFacts DEF IsElecting
  <2>6. x.stored >= st[m].stored
    BY <1>6, <1>8, <2>3
  <2>7. Electing(from, m, t)
    BY <1>8, <2>1, <2>2, <2>4
  <2> QED
    BY <1>1, <2>5, <2>6, <2>7, ElectingExchanged
<1>9. CASE /\ e = st[m].epoch + 1
           /\ st' = [st EXCEPT ![m] = lose_election(st[m], from, e, Q)]
           /\ net' = Exchanged(from, m, {}, Nobody)
           /\ follows' = follows \cup {<<m, e, from>>}
           /\ UNCHANGED <<disallowed, claims, bootstraps, crashes>>
  <2>1. PICK r \in AnyStates : r = st[m]
    BY <1>6
  <2>2. PICK t : t = lose_election(r, from, e, Q)
    OBVIOUS
  <2>3. /\ t \in AnyStates /\ t.epoch = e /\ t.stored = e
        /\ t.role = "peon" /\ t.leader = from /\ t.quorum = Q
        /\ t.electing_me = FALSE /\ t.leader_acked = Nobody
    <3>1. HasLost(t, from, e, Q)
      BY <2>2, LoseFacts
    <3> QED
      BY <3>1 DEF HasLost
  <2>4. t \in MonStates
    BY <1>3, <1>4, <2>3, BoundedState
  <2>5. MonOK(m, t) /\ Reaches(t) = e
    BY <1>6, <1>9, <2>3 DEF MonOK, Reaches, Standing
  <2>6. st' = [st EXCEPT ![m] = t]
    BY <1>9, <2>1, <2>2
  <2>7. PICK out : out = Nobody
    OBVIOUS
  <2>8. NetMoves(m, {}, out)
    BY <1>1, <1>9, <2>7, ExchangedMoves DEF ElectorInv, ElectorTypeOK
  <2>9. {} \in SUBSET Mons /\ \A b \in {} : MessageOK(m, b, out)'
    OBVIOUS
  <2>10. /\ Reaches(t) >= Reaches(st[m]) /\ t.epoch >= st[m].epoch
         /\ (t.epoch = st[m].epoch /\ Standing(st[m]) => Standing(t))
         /\ (t.electing_me => \A q \in t.acked_me : q = m \/ Reaches(st[q]) >= t.epoch)
         /\ claims \subseteq claims' /\ UNCHANGED disallowed
    BY <1>6, <1>9, <2>3, <2>5
  <2>11. ElectorInv'
    BY <2>4, <2>5, <2>6, <2>8, <2>9, <2>10, StepInv
  <2>12. AbstractStep
    <3>1. e = Reaches(st[m]) + 1 /\ UNCHANGED claims
      BY <1>6, <1>9
    <3>2. follows' = follows \cup {<<m, e, from>>}
      BY <1>9
    <3> QED
      BY <1>5, <1>6, <2>3, <2>4, <2>6, <3>1, <3>2, FollowStep
  <2> QED
    BY <2>11, <2>12
<1> QED
  BY <1>2, <1>4, <1>7, <1>8, <1>9 DEF ReceiveVictory, OfMyElection

\* m sends a propose to all the others, of the epoch it starts in.
LEMMA ElectingSent ==
    ASSUME ElectorInv, NEW m \in Mons, NEW t, NEW x \in AnyStates, x = st[m], IsElecting(m, x, t),
           st' = [st EXCEPT ![m] = t], net' = Sent(m, Others(m), Propose(StartEpoch(x))),
           Bounded, UNCHANGED <<disallowed, claims, follows>>
    PROVE  ElectorInv' /\ AbstractStep
<1>1. PICK out : out = Propose(t.epoch)
  OBVIOUS
<1>2. st'[m] = t /\ t.epoch = StartEpoch(x) /\ x.stored >= st[m].stored
  <2>1. st[m].stored \in Nat /\ st \in [Mons -> MonStates]
    BY StateFacts
  <2> QED
    BY <2>1 DEF IsElecting
<1>3. out \in Message
  <2>1. t.epoch <= MaxEpoch
    BY <1>2 DEF Bounded
  <2>2. t.epoch \in 0..MaxEpoch
    BY <2>1, ElectorConstants DEF IsElecting, AnyStates
  <2> DEFINE none == {}
  <2>3. none \in SUBSET Mons /\ out = [op |-> "propose", epoch |-> t.epoch, quorum |-> none]
    BY <1>1 DEF Propose
  <2> HIDE DEF none
  <2> QED
    BY <2>2, <2>3 DEF Message
<1>4. NetMoves(m, Others(m), out)
  BY <1>1, <1>2, <1>3, SentMoves DEF ElectorInv, ElectorTypeOK, Others
<1> QED
  BY <1>1, <1>2, <1>4, ElectingStep

\* handle_probe_reply has m start an election.
LEMMA StartElectionStep ==
    ASSUME ElectorInv, NEW m \in Mons, StartElection(m)
    PROVE  ElectorInv' /\ AbstractStep
<1>1. PICK x \in AnyStates : x = st[m]
  BY StateFacts
<1>2. PICK t : t = start_election(x, m)
  OBVIOUS
<1>3. IsElecting(m, x, t)
  BY <1>2, StartElectionFacts DEF IsElecting
<1>4. /\ st' = [st EXCEPT ![m] = t] /\ net' = Sent(m, Others(m), Propose(StartEpoch(x)))
      /\ Bounded /\ UNCHANGED <<disallowed, claims, follows>>
  BY <1>1, <1>2 DEF StartElection
<1> QED
  BY <1>1, <1>3, <1>4, ElectingSent

\* The election timer fires: the candidate has a majority, or starts again.
LEMMA TimerStep ==
    ASSUME ElectorInv, NEW m \in Mons, end_election_period(m)
    PROVE  ElectorInv' /\ AbstractStep
<1>1. PICK x \in AnyStates : x = st[m]
  BY StateFacts
<1>2. CASE /\ x.electing_me /\ 2 * Cardinality(x.acked_me) > Cardinality(Mons)
           /\ Win(m, declare_victory(x, m), Sent(m, x.acked_me \ {m},
                    Victory(declare_victory(x, m).epoch, x.acked_me)))
  <2>1. PICK t : t = declare_victory(x, m)
    OBVIOUS
  <2>2. PICK out : out = Victory(t.epoch, x.acked_me)
    OBVIOUS
  <2>3. PICK to \in SUBSET Mons : to = x.acked_me \ {m}
    BY DEF AnyStates
  <2>4. PICK channels : channels = Sent(m, to, out)
    OBVIOUS
  <2>5. Win(m, t, channels)
    BY <1>2, <2>1, <2>2, <2>3, <2>4
  <2>6. net' = Sent(m, to, out)
    BY <2>4, <2>5 DEF Win
  <2>7. out \in Message => NetMoves(m, to, out)
    BY <2>6, SentMoves DEF ElectorInv, ElectorTypeOK
  <2>8. /\ m \in x.acked_me /\ \A q \in x.acked_me : Reaches(st[q]) >= st[m].epoch
        /\ \A q \in x.acked_me \ {m} : q > m \/ q \in disallowed
    BY <1>1, <1>2 DEF ElectorInv, AcksInv, MonsInv, MonOK
  <2> QED
    BY <1>1, <1>2, <2>1, <2>2, <2>3, <2>5, <2>7, <2>8, WinStep
<1>3. CASE /\ x.stored > 0 /\ st' = [st EXCEPT ![m] = start(x, m)]
           /\ net' = Sent(m, Others(m), Propose(StartEpoch(x))) /\ Bounded
           /\ UNCHANGED <<disallowed, claims, follows, bootstraps, crashes>>
  <2>1. PICK t : t = start(x, m)
    OBVIOUS
  <2>2. IsElecting(m, x, t)
    <3>1. x.stored # 0
      BY <1>3 DEF AnyStates
    <3>2. start(x, m).role = "electing"
      BY <3>1, StartFacts
    <3> QED
      BY <2>1, <3>2, StartFacts DEF IsElecting
  <2> QED
    BY <1>1, <1>3, <2>1, <2>2, ElectingSent
<1>4. CASE Bootstrap(m, FALSE)
  BY <1>4, BootstrapStep
<1> QED
  BY <1>1, <1>2, <1>3, <1>4 DEF end_election_period

\* A monitor leaves its quorum without having heard a message.
LEMMA UnsettleStep ==
    ASSUME ElectorInv, NEW m \in Mons, Unsettle(m)
    PROVE  ElectorInv' /\ AbstractStep
<1>1. PICK timer \in BOOLEAN : timer = st[m].timer
  BY StateFacts DEF AnyStates
<1> QED
  BY <1>1, BootstrapStep DEF Unsettle

\* A probing monitor drops what it hears.
LEMMA DropStep ==
    ASSUME ElectorInv, NEW from \in Mons, NEW m \in Mons, DropWhileProbing(from, m)
    PROVE  ElectorInv' /\ AbstractStep
BY QuietStep DEF DropWhileProbing

-----------------------------------------------------------------------------
\* The initial states satisfy the invariant and are initial states of the abstract
\* election.
LEMMA ElectorInit == Init => ElectorInv /\ Election!ElectionInit
<1> SUFFICES ASSUME Init PROVE ElectorInv /\ Election!ElectionInit
  OBVIOUS
<1>1. PICK z \in Nat : z = 0
  OBVIOUS
<1>2. HasBooted(Booted(z), z)
  BY <1>1, BootedFacts, ElectorConstants
<1>3. /\ Booted(0) \in MonStates /\ Booted(0).role = "probing" /\ Booted(0).epoch = 0
      /\ Booted(0).stored = 0 /\ Booted(0).electing_me = FALSE /\ Booted(0).leader_acked = Nobody
  BY <1>1, <1>2 DEF HasBooted
<1>4. st \in [Mons -> MonStates] /\ \A m \in Mons : st[m] = Booted(0)
  BY <1>3 DEF Init
<1>5. net \in Networks /\ \A a, b \in Mons : On(a, b) = {}
  BY DEF Init, Networks, On, Elements
<1>6. disallowed \subseteq Mons
  BY ElectorConstants DEF Init
<1>7. MonsInv /\ AcksInv
  BY <1>3, <1>4 DEF MonsInv, MonOK, AcksInv
<1>8. MessagesInv
  BY <1>5 DEF MessagesInv
<1>9. ElectorInv
  BY <1>4, <1>5, <1>6, <1>7, <1>8 DEF ElectorInv, ElectorTypeOK
<1>10. Election!ElectionInit
  BY <1>3, <1>4 DEF Init, Election!ElectionInit, Election!NoLeader, Nobody
<1> QED
  BY <1>9, <1>10

\* Every step keeps the invariant and is a step of the abstract election or none.
LEMMA ElectorStep == ElectorInv /\ [Next]_vars => ElectorInv' /\ AbstractStep
<1> SUFFICES ASSUME ElectorInv, [Next]_vars
             PROVE  ElectorInv' /\ AbstractStep
  OBVIOUS
<1>1. ASSUME NEW from \in Mons, NEW m \in Mons,
             \/ ReceiveOldPropose(from, m) \/ ReceivePropose(from, m)
             \/ ReceiveAck(from, m) \/ ReceiveVictory(from, m)
             \/ DropWhileProbing(from, m)
      PROVE  ElectorInv' /\ AbstractStep
  BY <1>1, OldProposeStep, ProposeStep, AckStep, VictoryStep, DropStep
<1>2. ASSUME NEW m \in Mons,
             end_election_period(m) \/ StartElection(m) \/ Unsettle(m) \/ Crash(m)
      PROVE  ElectorInv' /\ AbstractStep
  BY <1>2, TimerStep, StartElectionStep, UnsettleStep, CrashStep
<1>3. CASE UNCHANGED vars
  <2>1. ElectorInv'
    BY <1>3 DEF vars, ElectorInv, ElectorTypeOK, MonsInv, MonOK, AcksInv, MessagesInv, MessageOK,
                Reaches, Standing, On
  <2>2. UNCHANGED Election!electionVars
    BY <1>3 DEF vars, Election!electionVars
  <2> QED
    BY <2>1, <2>2 DEF AbstractStep
<1> QED
  BY <1>1, <1>2, <1>3 DEF Next

\* The invariant implies the assertions of the handlers.
LEMMA InvAssertsHold == ElectorInv => AssertsHold
<1> SUFFICES ASSUME ElectorInv, NEW from \in Mons, NEW m \in Mons, net[<<from, m>>] # <<>>,
                    st[m].role # "probing", NEW msg, msg = Head(net[<<from, m>>])
             PROVE  /\ msg.op = "propose" => msg.epoch % 2 = 1
                    /\ msg.op = "ack" /\ msg.epoch >= st[m].epoch =>
                          msg.epoch = st[m].epoch /\ Standing(st[m])
                    /\ msg.op = "propose" /\ MyWin(m, from) =>
                          st[m].leader_acked < from \/ from \in disallowed
                    /\ msg.op = "victory" => from < m \/ m \in disallowed
  BY DEF AssertsHold, Standing
<1>1. MessageOK(from, m, msg) /\ msg.epoch \in Nat
  BY HeardMessage
<1>2. MonOK(m, st[m]) /\ st[m].epoch \in Nat /\ st[m] \in AnyStates
  BY StateFacts
<1>3. m \in Nat /\ from \in Nat /\ (st[m].leader_acked = Nobody \/ st[m].leader_acked \in Nat)
  BY <1>2, ElectorConstants DEF AnyStates
<1>4. MyWin(m, from) => st[m].leader_acked < from \/ from \in disallowed
  BY <1>2, <1>3 DEF MyWin, MonOK, Nobody
<1> QED
  BY <1>1, <1>2, <1>4 DEF MessageOK

\* The invariant implies type correctness.
LEMMA InvTypeOK == ElectorInv => TypeOK
BY DEF ElectorInv, ElectorTypeOK, MonsInv, MonOK, TypeOK

\* What each monitor keeps has its type: a running monitor has stored the epoch it is in
\* (Elector::persist_epoch) and stands only in an odd one, with its own ack.
THEOREM ElectorTypeCorrect == Spec => []TypeOK
BY ElectorInit, ElectorStep, InvTypeOK, PTL DEF Spec

\* Whatever messages, timers and crashes there are, no assertion of Elector::handle_ack,
\* Elector::handle_propose, ElectionLogic::receive_ack, receive_victory_claim or
\* propose_disallow_handler fails.
THEOREM ElectorAssertsHold == Spec => []AssertsHold
BY ElectorInit, ElectorStep, InvAssertsHold, PTL DEF Spec

\* A monitor that may lead never waits for the end of an election without its timer
\* (Elector::reset_timer).
THEOREM ElectorHasTimer == Spec => []ElectingHasTimer
<1>1. ElectorInv => ElectingHasTimer
  BY DEF ElectorInv, MonsInv, MonOK, ElectingHasTimer
<1> QED
  BY <1>1, ElectorInit, ElectorStep, PTL DEF Spec

\* Each handler of ElectionLogic and Elector is a step of MonElection, or changes nothing
\* that MonElection speaks of.
THEOREM ElectorImplementsElection == Spec => ImplementsElection
BY ElectorInit, ElectorStep, PTL DEF Spec, ImplementsElection, AbstractStep, Election!ElectionSpec

-----------------------------------------------------------------------------
(* The abstract election: of the victories claimed in one epoch only one is  *)
(* followed by its whole quorum, for any epochs ep, claims cl, follows fo.   *)

IsMajority(Q) == Q \subseteq Mons /\ 2 * Cardinality(Q) > Cardinality(Mons)

\* Whoever has followed a leader has reached that epoch, and followed no other in it.
FollowsOK(ep, fo) ==
    \A p \in Mons, e \in Nat, l \in Mons : <<p, e, l>> \in fo =>
        /\ ep[p] >= e
        /\ \A k \in Mons : <<p, e, k>> \in fo => k = l

\* Whoever has claimed a victory has reached that epoch, claimed it once, with a
\* majority that it belongs to, and followed nobody in it.
ClaimsOK(ep, cl, fo) ==
    \A c \in cl :
        /\ ep[c.leader] >= c.epoch
        /\ c.leader \in c.quorum /\ IsMajority(c.quorum)
        /\ \A d \in cl : c.leader = d.leader /\ c.epoch = d.epoch => c = d
        /\ \A l \in Mons : <<c.leader, c.epoch, l>> \notin fo

HistoryTyped(ep, cl, fo) ==
    /\ ep \in [Mons -> Nat]
    /\ cl \subseteq [leader : Mons, epoch : Nat, quorum : SUBSET Mons]
    /\ fo \subseteq Mons \X Nat \X Mons

HistoryOK(ep, cl, fo) == HistoryTyped(ep, cl, fo) /\ FollowsOK(ep, fo) /\ ClaimsOK(ep, cl, fo)

\* Two majorities of the monmap have a monitor in common.
LEMMA MajoritiesMeet ==
    ASSUME NEW P, NEW Q, IsMajority(P), IsMajority(Q)
    PROVE  P \cap Q # {}
<1>1. IsFiniteSet(Mons) /\ Mons \subseteq Nat
  BY ElectorConstants
<1>2. P \subseteq Mons /\ Q \subseteq Mons /\ P \cup Q \subseteq Mons
  BY DEF IsMajority
<1>3. IsFiniteSet(P) /\ IsFiniteSet(Q)
  BY <1>1, <1>2, FS_Subset
<1>4. /\ Cardinality(P) \in Nat /\ Cardinality(Q) \in Nat /\ Cardinality(Mons) \in Nat
      /\ Cardinality(P \cup Q) <= Cardinality(Mons)
  BY <1>1, <1>2, <1>3, FS_CardinalityType, FS_Subset
<1>5. /\ Cardinality(P \cup Q) = Cardinality(P) + Cardinality(Q) - Cardinality(P \cap Q)
      /\ Cardinality(P \cap Q) \in Nat
  BY <1>3, FS_Union, FS_Intersection, FS_CardinalityType
<1>6. Cardinality(P \cap Q) > 0
  BY <1>4, <1>5 DEF IsMajority
<1> QED
  BY <1>6, FS_EmptySet

\* bump_epoch, a bootstrap and a restart only raise the epoch of one monitor.
LEMMA LeaveKeeps ==
    ASSUME NEW ep, NEW cl, NEW fo, HistoryOK(ep, cl, fo),
           NEW m \in Mons, NEW e \in Nat, e >= ep[m], NEW new, new = [ep EXCEPT ![m] = e]
    PROVE  HistoryOK(new, cl, fo)
<1>1. HistoryTyped(new, cl, fo)
  BY DEF HistoryOK, HistoryTyped
<1>2. \A p \in Mons : new[p] >= ep[p] /\ ep[p] \in Nat /\ new[p] \in Nat
  BY DEF HistoryOK, HistoryTyped
<1>3. FollowsOK(new, fo)
  BY <1>2 DEF HistoryOK, FollowsOK
<1>4. ClaimsOK(new, cl, fo)
  <2> SUFFICES ASSUME NEW c \in cl
               PROVE  new[c.leader] >= c.epoch
    BY DEF HistoryOK, ClaimsOK
  <2>1. c.leader \in Mons /\ c.epoch \in Nat /\ ep[c.leader] >= c.epoch
    BY DEF HistoryOK, HistoryTyped, ClaimsOK
  <2> QED
    BY <2>1, <1>2
<1> QED
  BY <1>1, <1>3, <1>4 DEF HistoryOK

\* declare_victory claims an epoch its monitor has not been in before.
LEMMA ClaimKeeps ==
    ASSUME NEW ep, NEW cl, NEW fo, HistoryOK(ep, cl, fo),
           NEW m \in Mons, NEW Q \in SUBSET Mons, m \in Q, IsMajority(Q),
           NEW new, new = [ep EXCEPT ![m] = ep[m] + 1],
           NEW c0, c0 = [leader |-> m, epoch |-> ep[m] + 1, quorum |-> Q]
    PROVE  HistoryOK(new, cl \cup {c0}, fo)
<1>1. ep[m] \in Nat /\ HistoryTyped(new, cl \cup {c0}, fo)
  BY DEF HistoryOK, HistoryTyped
<1>2. \A p \in Mons : new[p] >= ep[p] /\ ep[p] \in Nat /\ new[p] \in Nat
  BY DEF HistoryOK, HistoryTyped
<1>3. FollowsOK(new, fo)
  BY <1>2 DEF HistoryOK, FollowsOK
<1>4. \A c \in cl : c.leader \in Mons /\ c.epoch \in Nat /\ ep[c.leader] >= c.epoch
  BY DEF HistoryOK, HistoryTyped, ClaimsOK
<1>5. \A c \in cl : ~(c.leader = c0.leader /\ c.epoch = c0.epoch)
  BY <1>1, <1>4
<1>6. \A l \in Mons : <<m, ep[m] + 1, l>> \notin fo
  BY <1>1 DEF HistoryOK, FollowsOK
<1>7. new[m] >= ep[m] + 1 /\ c0.leader = m /\ c0.epoch = ep[m] + 1 /\ c0.quorum = Q
  BY <1>1 DEF HistoryOK, HistoryTyped
<1>8. ASSUME NEW c \in cl \cup {c0}
      PROVE  /\ new[c.leader] >= c.epoch
             /\ c.leader \in c.quorum /\ IsMajority(c.quorum)
             /\ \A d \in cl \cup {c0} : c.leader = d.leader /\ c.epoch = d.epoch => c = d
             /\ \A l \in Mons : <<c.leader, c.epoch, l>> \notin fo
  <2>1. CASE c \in cl
    <3>1. new[c.leader] >= c.epoch
      BY <2>1, <1>2, <1>4
    <3>2. /\ c.leader \in c.quorum /\ IsMajority(c.quorum)
          /\ \A d \in cl : c.leader = d.leader /\ c.epoch = d.epoch => c = d
          /\ \A l \in Mons : <<c.leader, c.epoch, l>> \notin fo
      BY <2>1 DEF HistoryOK, ClaimsOK
    <3> QED
      BY <2>1, <3>1, <3>2, <1>5
  <2>2. CASE c = c0
    BY <2>2, <1>5, <1>6, <1>7
  <2> QED
    BY <1>8, <2>1, <2>2
<1> QED
  BY <1>1, <1>3, <1>8 DEF HistoryOK, ClaimsOK

\* lose_election enters an epoch its monitor has not been in before.
LEMMA FollowKeeps ==
    ASSUME NEW ep, NEW cl, NEW fo, HistoryOK(ep, cl, fo),
           NEW m \in Mons, NEW c \in cl, c.epoch = ep[m] + 1,
           NEW new, new = [ep EXCEPT ![m] = c.epoch]
    PROVE  HistoryOK(new, cl, fo \cup {<<m, c.epoch, c.leader>>})
<1> DEFINE fo2 == fo \cup {<<m, c.epoch, c.leader>>}
<1>1. c.leader \in Mons /\ c.epoch \in Nat /\ ep[m] \in Nat /\ HistoryTyped(new, cl, fo2)
  BY DEF HistoryOK, HistoryTyped
<1>2. \A p \in Mons : new[p] >= ep[p] /\ ep[p] \in Nat /\ new[p] \in Nat
  BY <1>1 DEF HistoryOK, HistoryTyped
<1>3. new[m] = c.epoch /\ \A l \in Mons : <<m, c.epoch, l>> \notin fo
  BY <1>1 DEF HistoryOK, HistoryTyped, FollowsOK
<1>4. FollowsOK(new, fo2)
  <2> SUFFICES ASSUME NEW p \in Mons, NEW e \in Nat, NEW l \in Mons, <<p, e, l>> \in fo2
               PROVE  /\ new[p] >= e
                      /\ \A k \in Mons : <<p, e, k>> \in fo2 => k = l
    BY DEF FollowsOK
  <2>1. CASE <<p, e, l>> \in fo
    <3>1. ep[p] >= e /\ \A k \in Mons : <<p, e, k>> \in fo => k = l
      BY <2>1 DEF HistoryOK, FollowsOK
    <3>2. ~(p = m /\ e = c.epoch)
      BY <2>1, <1>3
    <3> QED
      BY <3>1, <3>2, <1>1, <1>2
  <2>2. CASE p = m /\ e = c.epoch /\ l = c.leader
    BY <2>2, <1>1, <1>3
  <2> QED
    BY <2>1, <2>2
<1>5. ClaimsOK(new, cl, fo2)
  <2> SUFFICES ASSUME NEW d \in cl
               PROVE  /\ new[d.leader] >= d.epoch
                      /\ d.leader \in d.quorum /\ IsMajority(d.quorum)
                      /\ \A b \in cl : d.leader = b.leader /\ d.epoch = b.epoch => d = b
                      /\ \A l \in Mons : <<d.leader, d.epoch, l>> \notin fo2
    BY DEF ClaimsOK
  <2>1. d.leader \in Mons /\ d.epoch \in Nat
    BY DEF HistoryOK, HistoryTyped
  <2>2. /\ ep[d.leader] >= d.epoch
        /\ d.leader \in d.quorum /\ IsMajority(d.quorum)
        /\ \A b \in cl : d.leader = b.leader /\ d.epoch = b.epoch => d = b
        /\ \A l \in Mons : <<d.leader, d.epoch, l>> \notin fo
    BY DEF HistoryOK, ClaimsOK
  <2>3. ~(d.leader = m /\ d.epoch = c.epoch)
    BY <2>1, <2>2, <1>1
  <2> QED
    BY <2>1, <2>2, <2>3, <1>1, <1>2
<1> QED
  BY <1>1, <1>4, <1>5 DEF HistoryOK

\* Two majorities meet in a monitor, which follows or claims once in an epoch.
LEMMA HistoryOneLeader ==
    ASSUME NEW ep, NEW cl, NEW fo, HistoryOK(ep, cl, fo), NEW c \in cl, NEW d \in cl, c.epoch = d.epoch,
           \A q \in c.quorum \ {c.leader} : <<q, c.epoch, c.leader>> \in fo,
           \A q \in d.quorum \ {d.leader} : <<q, d.epoch, d.leader>> \in fo
    PROVE  c = d
<1>1. /\ c.leader \in Mons /\ d.leader \in Mons /\ c.epoch \in Nat
      /\ c.quorum \subseteq Mons /\ d.quorum \subseteq Mons
  BY DEF HistoryOK, HistoryTyped
<1>2. PICK q \in Mons : q \in c.quorum /\ q \in d.quorum
  BY <1>1, MajoritiesMeet DEF HistoryOK, ClaimsOK
<1>3. c.leader = d.leader
  <2>1. CASE q # c.leader /\ q # d.leader
    BY <1>1, <1>2, <2>1 DEF HistoryOK, FollowsOK
  <2>2. CASE q = c.leader \/ q = d.leader
    BY <1>1, <1>2, <2>2 DEF HistoryOK, ClaimsOK
  <2> QED
    BY <2>1, <2>2
<1> QED
  BY <1>3 DEF HistoryOK, ClaimsOK

-----------------------------------------------------------------------------
\* The epochs of the refinement mapping, and the history they go with.
Epoch0 == [m \in Mons |-> IF st[m].stored = 0 THEN 1 ELSE st[m].stored]
AbstractInv == HistoryOK(Epoch0, claims, follows)

LEMMA AbstractInit == Election!ElectionInit => AbstractInv
<1> SUFFICES ASSUME Election!ElectionInit PROVE AbstractInv
  OBVIOUS
<1>1. Epoch0 = [m \in Mons |-> 1] /\ claims = {} /\ follows = {}
  BY DEF Election!ElectionInit, Epoch0
<1> QED
  BY <1>1 DEF AbstractInv, HistoryOK, HistoryTyped, FollowsOK, ClaimsOK

\* Leaving, claiming and following keep the history.
LEMMA AbstractNext ==
    ASSUME AbstractInv, AbstractStep
    PROVE  AbstractInv'
<1>1. ASSUME NEW m \in Mons, NEW e \in 0..MaxEpoch, Election!Leave(m, e)
      PROVE  AbstractInv'
  <2>1. e >= Epoch0[m] /\ Epoch0' = [Epoch0 EXCEPT ![m] = e] /\ claims' = claims /\ follows' = follows
    BY <1>1 DEF Election!Leave, Epoch0
  <2>2. e \in Nat
    BY ElectorConstants
  <2>3. HistoryOK(Epoch0', claims, follows)
    BY <2>1, <2>2, LeaveKeeps DEF AbstractInv
  <2> QED
    BY <2>1, <2>3 DEF AbstractInv
<1>2. ASSUME NEW m \in Mons, NEW Q \in SUBSET Mons, Election!Claim(m, Q)
      PROVE  AbstractInv'
  <2>1. PICK c : c = [leader |-> m, epoch |-> Epoch0[m] + 1, quorum |-> Q]
    OBVIOUS
  <2>2. /\ m \in Q /\ Epoch0' = [Epoch0 EXCEPT ![m] = Epoch0[m] + 1] /\ follows' = follows
        /\ claims' = claims \cup {c}
    BY <1>2, <2>1 DEF Election!Claim, Epoch0
  <2>3. IsMajority(Q)
    <3>1. \A S : Cardinality(S) = Election!Cardinality(S)
      BY Zenon DEF Cardinality, Election!Cardinality
    <3> QED
      BY <1>2, <3>1 DEF Election!Claim, Election!IsMajority, IsMajority
  <2>4. HistoryOK(Epoch0', claims \cup {c}, follows)
    BY <2>1, <2>2, <2>3, ClaimKeeps DEF AbstractInv
  <2> QED
    BY <2>2, <2>4 DEF AbstractInv
<1>3. ASSUME NEW m \in Mons, NEW c \in claims, Election!Follow(m, c)
      PROVE  AbstractInv'
  <2>1. /\ c.epoch = Epoch0[m] + 1 /\ Epoch0' = [Epoch0 EXCEPT ![m] = c.epoch] /\ claims' = claims
        /\ follows' = follows \cup {<<m, c.epoch, c.leader>>}
    BY <1>3 DEF Election!Follow, Epoch0
  <2>2. HistoryOK(Epoch0', claims, follows \cup {<<m, c.epoch, c.leader>>})
    BY <2>1, FollowKeeps DEF AbstractInv
  <2> QED
    BY <2>1, <2>2 DEF AbstractInv
<1>4. ASSUME UNCHANGED Election!electionVars
      PROVE  AbstractInv'
  <2>1. Epoch0' = Epoch0 /\ claims' = claims /\ follows' = follows
    BY <1>4 DEF Election!electionVars, Epoch0
  <2> QED
    BY <2>1 DEF AbstractInv
<1> QED
  BY <1>1, <1>2, <1>3, <1>4 DEF AbstractStep, Election!ElectionNext

\* Whatever victories are declared in one epoch (ElectionLogic::declare_victory), the
\* abstract election lets only one be followed by the whole quorum it names.
THEOREM ElectionOneEffectiveLeader == Election!ElectionSpec => []Election!OneEffectiveLeader
<1>1. AbstractInv => Election!OneEffectiveLeader
  <2> SUFFICES ASSUME AbstractInv, NEW c \in claims, NEW d \in claims,
                      c.epoch = d.epoch, Election!Effective(c), Election!Effective(d)
               PROVE  c = d
    BY DEF Election!OneEffectiveLeader
  <2> QED
    BY HistoryOneLeader DEF AbstractInv, Election!Effective
<1>2. AbstractInv /\ AbstractStep => AbstractInv'
  BY AbstractNext
<1> QED
  BY <1>1, <1>2, AbstractInit, PTL DEF AbstractStep, Election!ElectionSpec

\* Of the leaders that declare_victory makes in one epoch only one is followed by its whole
\* quorum (receive_victory_claim), because the abstract election promises it.
THEOREM ElectorOneEffectiveLeader == Spec => []OneEffectiveLeader
BY ElectorImplementsElection, ElectionOneEffectiveLeader, PTL DEF ImplementsElection, OneEffectiveLeader
=============================================================================
