---------------------------- MODULE LeachCluster ----------------------------
(***************************************************************************)
(* Cluster formation by leach::RoutingProtocol on every sensor node: the   *)
(* periodic election, the advertisement a head broadcasts, the choice of a *)
(* head by those that hear it, the JOIN a member answers with and the      *)
(* routes the three leave in the routing table.                            *)
(*                                                                         *)
(* Time is counted in ticks.  Each ns3::Timer is a countdown that is Off   *)
(* when it is not running; a timer at 0 fires before time goes on, and     *)
(* timers that are due together fire in any order.  A packet handed to the *)
(* radio becomes one copy per receiver; a copy is delivered within         *)
(* MaxDelay ticks or lost, and copies overtake one another.  Clocks start  *)
(* together but every round of every node draws its own jitter, so rounds  *)
(* of different nodes drift apart without bound.                           *)
(***************************************************************************)
EXTENDS Integers, Sequences

CONSTANTS
  Node,                    \* sensor nodes, named by m_mainAddress
  Sink,                    \* m_sinkAddress, 10.1.1.1
  NoAddr,                  \* Ipv4Address ()
  Loopback,                \* 127.0.0.1
  AllOnes,                 \* 255.255.255.255, the header's default address
  AdvDest,                 \* 10.1.1.255, where advertisements are sent
  SubnetBroadcast,         \* the broadcast address of the node's interface
  Position, Origin,        \* positions, and (0, 0, 0)
  PositionOf,              \* Node -> Position: m_position
  SqDist,                  \* dx*dx + dy*dy of two positions
  MaxDist,                 \* 1e100, farther than any head
  CycleLen,                \* n = 10, rounds in a cycle
  StartMin, StartMax,      \* first round: 10 .. 1000 us after Start
  BcastMin, BcastMax,      \* advertisement: 10 .. 50 ms into the round
  RespondMin, RespondMax,  \* JOIN: 100 .. 101 ms into the round
  Interval, Jitter,        \* round: PeriodicUpdateInterval + 0 .. 1 ms
  MaxDelay                 \* longest time a packet spends on the radio

Address == Node \cup {Sink, NoAddr, Loopback, AllOnes, AdvDest, SubnetBroadcast}

ASSUME AddressAssumption ==
  /\ Sink \notin Node /\ NoAddr \notin Node /\ Loopback \notin Node
  /\ AllOnes \notin Node /\ AdvDest \notin Node /\ SubnetBroadcast \notin Node
  /\ \A a \in {NoAddr, Loopback, AllOnes, AdvDest, SubnetBroadcast} : Sink # a
  /\ \A a \in {Loopback, AllOnes, AdvDest, SubnetBroadcast} : NoAddr # a
  /\ Loopback # SubnetBroadcast /\ Loopback # AdvDest

ASSUME DistanceAssumption ==
  /\ Origin \in Position
  /\ PositionOf \in [Node -> Position]
  /\ MaxDist \in Nat
  /\ SqDist \in [Position -> [Position -> 0 .. MaxDist - 1]]

ASSUME CycleAssumption == CycleLen \in Nat \ {0}

\* What the delays in Start, PeriodicUpdate and main.cc satisfy with room to
\* spare: 1 < 10, 101 + 50 + 2 * MaxDelay < 5000 (ms).
ASSUME DelayAssumption ==
  /\ StartMin \in Nat /\ StartMax \in Nat /\ StartMin <= StartMax
  /\ BcastMin \in Nat /\ BcastMax \in Nat /\ BcastMin <= BcastMax
  /\ RespondMin \in Nat /\ RespondMax \in Nat /\ RespondMin <= RespondMax
  /\ Interval \in Nat /\ Jitter \in Nat /\ MaxDelay \in Nat
  /\ StartMax < StartMin + BcastMin
  /\ RespondMax + BcastMax + 2 * MaxDelay < Interval

VARIABLES
  Round,                        \* rounds begun, modulo CycleLen
  valid,                        \* 1: may still be elected in this cycle
  clusterHeadThisRound,         \* 1: head in this round
  m_targetAddress,              \* the head to report to, the sink for a head
  m_dist,                       \* squared distance of the best head heard
  m_bestRoute,                  \* route through the best head heard
  m_routingTable,               \* address -> entry
  m_clusterMember,              \* senders of the JOINs received
  m_periodicUpdateTimer,        \* countdowns
  m_broadcastClusterHeadTimer,
  m_respondToClusterHeadTimer,
  air                           \* copies of control packets on the radio

election == <<Round, valid, clusterHeadThisRound>>
choice == <<m_targetAddress, m_dist, m_bestRoute>>
timers == <<m_periodicUpdateTimer, m_broadcastClusterHeadTimer,
            m_respondToClusterHeadTimer>>
vars == <<election, choice, m_routingTable, m_clusterMember, timers, air>>

-----------------------------------------------------------------------------
(* Addresses, routes and headers.  A node has one interface, named by its  *)
(* address; NoAddr stands for the blank Ipv4InterfaceAddress.              *)

BroadcastOf == [a \in Address |-> SubnetBroadcast]

Table == INSTANCE LeachRoutingTable WITH
  Iface <- Address, NoIface <- NoAddr, Broadcast <- BroadcastOf

\* The table SetIpv4 and NotifyInterfaceUp leave behind.
StartTable(n) ==
  LET lo == [dst |-> Loopback, iface |-> Loopback, nextHop |-> Loopback,
             flag |-> "INVALID"]
      local == Table!NewEntry(SubnetBroadcast, n, SubnetBroadcast)
  IN  Table!AddRoute(Table!AddRoute(Table!EmptyTable, lo), local)

\* A leach header.  A sender gives some fields; the others have their default.
Header == [position : Position, acceleration : Position, address : Node \cup {AllOnes}]
DefaultHeader == [position |-> Origin, acceleration |-> Origin, address |-> AllOnes]

\* Serialize writes acceleration before position, Deserialize reads them in
\* the other order.
Received(hdr) ==
  [hdr EXCEPT !.position = hdr.acceleration, !.acceleration = hdr.position]

\* A countdown, or Off.
Off == -1
Elapsed(timer) == [n \in Node |-> IF timer[n] = Off THEN Off ELSE timer[n] - 1]

\* Mutant: the first round may begin after another node's advertisement.
StartDelayUpToInterval == StartMin .. StartMax + BcastMin + MaxDelay + 1

\* The delay of the first round.
StartDelay == StartMin .. StartMax

\* m_dist before the first round: whatever the memory held.
Garbage == -1

Packet == [from : Node, to : Node, hdr : Header, left : Nat]

\* The copies that reach the radio when n, with the given table, sends to dst.
\* RouteOutput returns the route of dst if the table has one.  Otherwise it
\* returns a loopback route; the control socket's TTL is 1 and whatever
\* RouteInput does next, IpForward drops the packet: no copy leaves the node.
Copies(table, n, dst, hdr) ==
  {[from |-> n, to |-> r, hdr |-> hdr, left |-> MaxDelay] :
     r \in IF ~Table!LookupRoute(table, dst) THEN {}
           ELSE IF dst = SubnetBroadcast THEN Node \ {n}
           ELSE Node \cap {dst}}

-----------------------------------------------------------------------------
Init ==
  /\ Round = [n \in Node |-> 0]
  /\ valid \in [Node -> {0, 1}]
  /\ clusterHeadThisRound \in [Node -> {0, 1}]
  /\ m_targetAddress = [n \in Node |-> NoAddr]
  /\ m_dist = [n \in Node |-> Garbage]
  /\ m_bestRoute = [n \in Node |-> Table!BlankEntry]
  /\ m_routingTable = [n \in Node |-> StartTable(n)]
  /\ m_clusterMember = [n \in Node |-> <<>>]
  /\ m_periodicUpdateTimer \in [Node -> StartDelay]
  /\ m_broadcastClusterHeadTimer = [n \in Node |-> Off]
  /\ m_respondToClusterHeadTimer = [n \in Node |-> Off]
  /\ air = {}

\* Mutant: the threshold of a cycle one round longer, never certain.
DrawnInLongerCycle(n, k) == k * (CycleLen + 1 - Round[n]) < CycleLen + 1

\* prob < t with prob = k / CycleLen and t = p / (1 - p * (Round % n)), which
\* is 1 / (CycleLen - Round): certain in the last round of a cycle.
Drawn(n, k) == k * (CycleLen - Round[n]) < CycleLen

\* Mutant: the test of valid forgotten.
EligibleAlways(n) == TRUE

Eligible(n) == Round[n] = 0 \/ valid[n] = 1

\* Mutant: the term counted instead of marked.
ElectHeadCountingDown(n) ==
  /\ valid' = [valid EXCEPT ![n] = valid[n] - 1]
  /\ clusterHeadThisRound' = [clusterHeadThisRound EXCEPT ![n] = 1]
  /\ m_targetAddress' = [m_targetAddress EXCEPT ![n] = Sink]
  /\ \E d \in BcastMin .. BcastMax :
       m_broadcastClusterHeadTimer' = [m_broadcastClusterHeadTimer EXCEPT ![n] = d]
  /\ UNCHANGED m_respondToClusterHeadTimer

ElectHead(n) ==
  /\ valid' = [valid EXCEPT ![n] = 0]
  /\ clusterHeadThisRound' = [clusterHeadThisRound EXCEPT ![n] = 1]
  /\ m_targetAddress' = [m_targetAddress EXCEPT ![n] = Sink]
  /\ \E d \in BcastMin .. BcastMax :
       m_broadcastClusterHeadTimer' = [m_broadcastClusterHeadTimer EXCEPT ![n] = d]
  /\ UNCHANGED m_respondToClusterHeadTimer

\* Mutant: the head of the last round is not forgotten.
StayMemberOfOldHead(n) ==
  /\ valid' = [valid EXCEPT ![n] = IF Eligible(n) THEN 1 ELSE 0]
  /\ clusterHeadThisRound' = [clusterHeadThisRound EXCEPT ![n] = 0]
  /\ UNCHANGED m_targetAddress
  /\ \E d \in RespondMin .. RespondMax :
       m_respondToClusterHeadTimer' = [m_respondToClusterHeadTimer EXCEPT ![n] = d]
  /\ UNCHANGED m_broadcastClusterHeadTimer

StayMember(n) ==
  /\ valid' = [valid EXCEPT ![n] = IF Eligible(n) THEN 1 ELSE 0]
  /\ clusterHeadThisRound' = [clusterHeadThisRound EXCEPT ![n] = 0]
  /\ m_targetAddress' = [m_targetAddress EXCEPT ![n] = NoAddr]
  /\ \E d \in RespondMin .. RespondMax :
       m_respondToClusterHeadTimer' = [m_respondToClusterHeadTimer EXCEPT ![n] = d]
  /\ UNCHANGED m_broadcastClusterHeadTimer

\* Mutant: only the route to the target is deleted; a head's target is the sink,
\* but not when it has heard another head.
WithoutOldTarget(n) == Table!DeleteRoute(m_routingTable[n], m_targetAddress[n])

\* The routes of the round that ends.
WithoutOldRoutes(n) ==
  Table!DeleteRoute(Table!DeleteRoute(m_routingTable[n], m_targetAddress[n]), Sink)

PeriodicUpdate(n) ==
  /\ m_periodicUpdateTimer[n] = 0
  /\ m_routingTable' = [m_routingTable EXCEPT ![n] = WithoutOldRoutes(n)]
  /\ Round' = [Round EXCEPT ![n] = (Round[n] + 1) % CycleLen]
  /\ m_dist' = [m_dist EXCEPT ![n] = MaxDist]
  /\ m_clusterMember' = [m_clusterMember EXCEPT ![n] = <<>>]
  /\ m_bestRoute' = [m_bestRoute EXCEPT ![n] = Table!BlankEntry]
  /\ \E k \in 0 .. CycleLen - 1 :
       IF Drawn(n, k) /\ Eligible(n) THEN ElectHead(n) ELSE StayMember(n)
  /\ \E j \in 0 .. Jitter :
       m_periodicUpdateTimer' = [m_periodicUpdateTimer EXCEPT ![n] = Interval + j]
  /\ UNCHANGED air

\* Mutant: the timer armed again, as a periodic one would be.
SendBroadcastPeriodically(n) ==
  /\ m_broadcastClusterHeadTimer[n] = 0
  /\ m_broadcastClusterHeadTimer' = [m_broadcastClusterHeadTimer EXCEPT ![n] = Interval]
  /\ air' = air \cup Copies(m_routingTable[n], n, AdvDest,
                            [DefaultHeader EXCEPT !.position = PositionOf[n]])
  /\ m_routingTable' = [m_routingTable EXCEPT
       ![n] = Table!AddRoute(m_routingTable[n], Table!NewEntry(Sink, n, Sink))]
  /\ UNCHANGED <<election, choice, m_clusterMember, m_periodicUpdateTimer,
                 m_respondToClusterHeadTimer>>

SendBroadcast(n) ==
  /\ m_broadcastClusterHeadTimer[n] = 0
  /\ m_broadcastClusterHeadTimer' = [m_broadcastClusterHeadTimer EXCEPT ![n] = Off]
  /\ air' = air \cup Copies(m_routingTable[n], n, AdvDest,
                            [DefaultHeader EXCEPT !.position = PositionOf[n]])
  /\ m_routingTable' = [m_routingTable EXCEPT
       ![n] = Table!AddRoute(m_routingTable[n], Table!NewEntry(Sink, n, Sink))]
  /\ UNCHANGED <<election, choice, m_clusterMember, m_periodicUpdateTimer,
                 m_respondToClusterHeadTimer>>

\* newEntry and entry2 stay blank, Copy copying nothing, and only entry2 is
\* stored: the test of newEntry looks at newEntry's own, blank, interface.
RoutesOfMember(n) ==
  LET entry2 == Table!Copy(Table!BlankEntry, m_bestRoute[n])
      newEntry == [Table!Copy(Table!BlankEntry, m_bestRoute[n])
                     EXCEPT !.dst = m_targetAddress[n]]
      first == IF m_bestRoute[n].iface # NoAddr
               THEN Table!AddRoute(m_routingTable[n], entry2)
               ELSE m_routingTable[n]
  IN  IF newEntry.iface # NoAddr THEN Table!AddRoute(first, newEntry) ELSE first

RespondToClusterHead(n) ==
  /\ m_respondToClusterHeadTimer[n] = 0
  /\ m_respondToClusterHeadTimer' = [m_respondToClusterHeadTimer EXCEPT ![n] = Off]
  /\ IF m_targetAddress[n] # NoAddr
     THEN /\ m_routingTable' = [m_routingTable EXCEPT ![n] = RoutesOfMember(n)]
          /\ air' = air \cup Copies(RoutesOfMember(n), n, m_targetAddress[n],
                                    [DefaultHeader EXCEPT !.address = n])
     ELSE UNCHANGED <<m_routingTable, air>>
  /\ UNCHANGED <<election, choice, m_clusterMember, m_periodicUpdateTimer,
                 m_broadcastClusterHeadTimer>>

\* The comparison dist < m_dist; before the first round m_dist is garbage.
Closer(n, position) ==
  IF m_dist[n] = Garbage THEN BOOLEAN
  ELSE {SqDist[position][PositionOf[n]] < m_dist[n]}

\* RecvLeach of the receiver.  A sink's returns at once: nothing of it is kept
\* here.  A header with the default address is an advertisement, another
\* header the JOIN of that address.
RecvLeach(m) ==
  LET n == m.to
      leachHeader == Received(m.hdr)
  IN  /\ air' = air \ {m}
      /\ IF leachHeader.address = AllOnes
         THEN /\ \E closer \in Closer(n, leachHeader.position) :
                   IF closer
                   THEN /\ m_dist' = [m_dist EXCEPT
                             ![n] = SqDist[leachHeader.position][PositionOf[n]]]
                        /\ m_targetAddress' = [m_targetAddress EXCEPT ![n] = m.from]
                        /\ m_bestRoute' = [m_bestRoute EXCEPT
                             ![n] = Table!NewEntry(Sink, n, m.from)]
                   ELSE UNCHANGED choice
              /\ UNCHANGED m_clusterMember
         ELSE /\ m_clusterMember' = [m_clusterMember EXCEPT
                   ![n] = Append(m_clusterMember[n], leachHeader.address)]
              /\ UNCHANGED choice
      /\ UNCHANGED <<election, m_routingTable, timers>>

\* A collision, a fade or a receiver that is off loses a copy.
Lose(m) ==
  /\ air' = air \ {m}
  /\ UNCHANGED <<election, choice, m_routingTable, m_clusterMember, timers>>

\* Time goes on when nothing is due.
Tick ==
  /\ \A n \in Node : /\ m_periodicUpdateTimer[n] # 0
                     /\ m_broadcastClusterHeadTimer[n] # 0
                     /\ m_respondToClusterHeadTimer[n] # 0
  /\ \A m \in air : m.left # 0
  /\ m_periodicUpdateTimer' = Elapsed(m_periodicUpdateTimer)
  /\ m_broadcastClusterHeadTimer' = Elapsed(m_broadcastClusterHeadTimer)
  /\ m_respondToClusterHeadTimer' = Elapsed(m_respondToClusterHeadTimer)
  /\ air' = {[m EXCEPT !.left = m.left - 1] : m \in air}
  /\ UNCHANGED <<election, choice, m_routingTable, m_clusterMember>>

Next ==
  \/ \E n \in Node : PeriodicUpdate(n)
  \/ \E n \in Node : SendBroadcast(n)
  \/ \E n \in Node : RespondToClusterHead(n)
  \/ \E m \in air : RecvLeach(m)
  \/ \E m \in air : Lose(m)
  \/ Tick

\* The simulator runs as long as it has events, and every node always has one.
Spec == Init /\ [][Next]_vars

FairSpec == Spec /\ WF_vars(Next)

-----------------------------------------------------------------------------
(* Properties *)

TypeOK ==
  /\ Round \in [Node -> 0 .. CycleLen - 1]
  /\ valid \in [Node -> {0, 1}]
  /\ clusterHeadThisRound \in [Node -> {0, 1}]
  /\ m_targetAddress \in [Node -> Node \cup {Sink, NoAddr}]
  /\ m_dist \in [Node -> 0 .. MaxDist \cup {Garbage}]
  /\ m_bestRoute \in [Node -> Table!RoutingTableEntry]
  /\ m_routingTable = [n \in Node |-> m_routingTable[n]]
  /\ \A n \in Node : Table!IsTable(m_routingTable[n])
  /\ m_clusterMember \in [Node -> Seq(Node)]
  /\ m_periodicUpdateTimer \in [Node -> Nat]
  /\ m_broadcastClusterHeadTimer \in [Node -> Nat \cup {Off}]
  /\ m_respondToClusterHeadTimer \in [Node -> Nat \cup {Off}]
  /\ air \subseteq Packet

Started(n) == m_dist[n] # Garbage

\* RespondToClusterHead(n) runs and n has a head to answer.
Answers(n) ==
  /\ m_respondToClusterHeadTimer[n] = 0 /\ m_respondToClusterHeadTimer'[n] = Off
  /\ m_targetAddress[n] # NoAddr

IsAdvert(m) == m.hdr.address = AllOnes

\* Timer::Schedule aborts the simulation when the timer is still running.  The
\* one-shot timers of a round have always fired when the next round arms them.
NoTimerRearmed ==
  \A n \in Node : m_periodicUpdateTimer[n] = 0 =>
    /\ m_broadcastClusterHeadTimer[n] = Off
    /\ m_respondToClusterHeadTimer[n] = Off

\* RecvLeach compares a distance with m_dist, which the constructor leaves
\* uninitialised: no advertisement travels to a node before its first
\* PeriodicUpdate has set it.
NoUninitialisedRead ==
  \A m \in air : IsAdvert(m) => Started(m.to)

\* The only route PeriodicUpdate, SendBroadcast and RespondToClusterHead keep
\* beside the permanent ones is a head's own route to the sink, from its
\* advertisement to the end of its term: no route of an earlier round, and none
\* to a node that is no longer head, is ever left for RouteOutput to use.
RoutesMatchRole ==
  \A n \in Node :
    /\ DOMAIN m_routingTable[n] \subseteq {Loopback, SubnetBroadcast, NoAddr, Sink}
    /\ Table!LookupRoute(m_routingTable[n], Sink) <=>
         /\ Started(n)
         /\ clusterHeadThisRound[n] = 1
         /\ m_broadcastClusterHeadTimer[n] = Off

\* The node a member is about to answer is head now and, whatever the drift
\* between their rounds, stays head until the answer has had time to arrive.
JoinFindsItsHead ==
  \A n \in Node :
    m_respondToClusterHeadTimer[n] # Off /\ m_targetAddress[n] \in Node =>
      LET h == m_targetAddress[n] IN
      /\ clusterHeadThisRound[h] = 1
      /\ m_periodicUpdateTimer[h] > m_respondToClusterHeadTimer[n] + MaxDelay

\* The rotation of the head's role, free of timers and messages.
Rotation == INSTANCE HeadRotation WITH
  slot <- Round,
  served <- [n \in Node |-> 1 - valid[n]],
  head <- clusterHeadThisRound

\* PeriodicUpdate's election makes every node head once per cycle.
RotatesHeads == Rotation!Spec

\* No node is spared, or denied, the role for ever: each becomes head again.
EveryNodeLeadsAgain == \A n \in Node : []<>(clusterHeadThisRound[n] = 1)

-----------------------------------------------------------------------------
(* What comments say and the code does otherwise *)

\* "always choose the closest CH to join in" (RecvLeach), "Closest Distance
\* node" (m_dist): the distance a node keeps is that of the head it chose.
DistanceOfTarget ==
  \A n \in Node : m_targetAddress[n] \in Node =>
    m_dist[n] = SqDist[PositionOf[m_targetAddress[n]]][PositionOf[n]]

\* "Cluster members tell cluster head": a member that answers a head sends it
\* something.
JoinIsSent ==
  [][\A n \in Node : Answers(n) =>
       \E m \in air' : m.from = n /\ m.to = m_targetAddress[n] /\ ~IsAdvert(m)]_vars

=============================================================================
