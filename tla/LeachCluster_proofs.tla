------------------------ MODULE LeachCluster_proofs ------------------------
(* Proofs about LeachCluster, for every set of nodes and all delays that   *)
(* satisfy DelayAssumption.                                                *)
EXTENDS LeachCluster, TLAPS

USE DEF Off, Garbage

-----------------------------------------------------------------------------
(* Type correctness                                                        *)

\* The round number PeriodicUpdate computes stays within a cycle.
LEMMA NextRoundType ==
  ASSUME NEW r \in 0 .. CycleLen - 1
  PROVE  (r + 1) % CycleLen \in 0 .. CycleLen - 1
BY CycleAssumption

\* The constructor of an entry returns an entry.
LEMMA EntryType ==
  ASSUME NEW d \in Address, NEW i \in Address, NEW h \in Address
  PROVE  Table!NewEntry(d, i, h) \in Table!RoutingTableEntry
BY DEF Table!NewEntry, Table!RoutingTableEntry, Table!Flag

\* So does the default constructor.
LEMMA BlankType == Table!BlankEntry \in Table!RoutingTableEntry
BY EntryType DEF Table!BlankEntry, Address

\* A table is still a table after AddRoute.
LEMMA AddRouteType ==
  ASSUME NEW t, Table!IsTable(t), NEW e \in Table!RoutingTableEntry
  PROVE  Table!IsTable(Table!AddRoute(t, e))
BY DEF Table!IsTable, Table!AddRoute, Table!RoutingTableEntry

\* A table is still a table after DeleteRoute.
LEMMA DeleteRouteType ==
  ASSUME NEW t, Table!IsTable(t), NEW a
  PROVE  Table!IsTable(Table!DeleteRoute(t, a))
BY DEF Table!IsTable, Table!DeleteRoute

\* SetIpv4 and NotifyInterfaceUp leave a table behind.
LEMMA StartTableType == \A n \in Node : Table!IsTable(StartTable(n))
<1> SUFFICES ASSUME NEW n \in Node PROVE Table!IsTable(StartTable(n))
  OBVIOUS
<1> DEFINE lo == [dst |-> Loopback, iface |-> Loopback, nextHop |-> Loopback,
                  flag |-> "INVALID"]
           local == Table!NewEntry(SubnetBroadcast, n, SubnetBroadcast)
<1>1. lo \in Table!RoutingTableEntry
  BY DEF Table!RoutingTableEntry, Table!Flag, Address
<1>2. local \in Table!RoutingTableEntry
  BY EntryType DEF Address
<1>3. Table!IsTable(Table!EmptyTable)
  BY DEF Table!IsTable, Table!EmptyTable
<1> HIDE DEF lo, local
<1>4. Table!IsTable(Table!AddRoute(Table!EmptyTable, lo))
  BY <1>1, <1>3, AddRouteType
<1>5. Table!IsTable(Table!AddRoute(Table!AddRoute(Table!EmptyTable, lo), local))
  BY <1>2, <1>4, AddRouteType
<1> QED BY <1>5 DEF StartTable, lo, local

\* The copies of one packet are packets, all alike but for their receiver.
LEMMA CopiesType ==
  ASSUME NEW t, NEW n \in Node, NEW d, NEW h \in Header, NEW m \in Copies(t, n, d, h)
  PROVE  m \in Packet /\ m.from = n /\ m.hdr = h /\ m.left = MaxDelay
BY DelayAssumption DEF Copies, Packet

\* The header SendBroadcast fills in is one, with the default address.
LEMMA AdvertHeader ==
  \A n \in Node : /\ [DefaultHeader EXCEPT !.position = PositionOf[n]] \in Header
                  /\ [DefaultHeader EXCEPT !.position = PositionOf[n]].address = AllOnes
BY DistanceAssumption DEF DefaultHeader, Header

\* The header RespondToClusterHead fills in is one, with the sender's address.
LEMMA JoinHeader ==
  \A n \in Node : /\ [DefaultHeader EXCEPT !.address = n] \in Header
                  /\ [DefaultHeader EXCEPT !.address = n].address = n
BY DistanceAssumption DEF DefaultHeader, Header

\* RespondToClusterHead changes the table by at most a blank entry.
LEMMA MemberRoutes ==
  ASSUME NEW n \in Node
  PROVE  \/ RoutesOfMember(n) = m_routingTable[n]
         \/ RoutesOfMember(n) = Table!AddRoute(m_routingTable[n], Table!BlankEntry)
BY DEF RoutesOfMember, Table!Copy, Table!BlankEntry, Table!NewEntry

\* The constructor and Start give every variable its type.
LEMMA InitType == Init => TypeOK
<1> SUFFICES ASSUME Init PROVE TypeOK
  OBVIOUS
<1>1. Round \in [Node -> 0 .. CycleLen - 1]
  BY CycleAssumption DEF Init
<1>2. m_bestRoute \in [Node -> Table!RoutingTableEntry]
  BY BlankType DEF Init
<1>3. /\ m_routingTable = [n \in Node |-> m_routingTable[n]]
      /\ \A n \in Node : Table!IsTable(m_routingTable[n])
  BY StartTableType DEF Init
<1>4. m_periodicUpdateTimer \in [Node -> Nat]
  BY DelayAssumption DEF Init, StartDelay
<1>5. m_clusterMember \in [Node -> Seq(Node)]
  BY DEF Init
<1> QED BY <1>1, <1>2, <1>3, <1>4, <1>5 DEF Init, TypeOK

\* Every handler keeps it.
LEMMA NextType == TypeOK /\ [Next]_vars => TypeOK'
<1> SUFFICES ASSUME TypeOK, [Next]_vars PROVE TypeOK'
  OBVIOUS
<1>1. ASSUME NEW n \in Node, PeriodicUpdate(n) PROVE TypeOK'
  <2>1. Round' \in [Node -> 0 .. CycleLen - 1]
    BY <1>1, NextRoundType DEF TypeOK, PeriodicUpdate
  <2>2. /\ valid' \in [Node -> {0, 1}]
        /\ clusterHeadThisRound' \in [Node -> {0, 1}]
        /\ m_targetAddress' \in [Node -> Node \cup {Sink, NoAddr}]
        /\ m_broadcastClusterHeadTimer' \in [Node -> Nat \cup {Off}]
        /\ m_respondToClusterHeadTimer' \in [Node -> Nat \cup {Off}]
    <3>1. CASE ElectHead(n)
      <4>1. PICK d \in BcastMin .. BcastMax :
              m_broadcastClusterHeadTimer' = [m_broadcastClusterHeadTimer EXCEPT ![n] = d]
        BY <3>1 DEF ElectHead
      <4>2. d \in Nat
        BY DelayAssumption
      <4> QED BY <3>1, <4>1, <4>2 DEF TypeOK, ElectHead
    <3>2. CASE StayMember(n)
      <4>1. PICK d \in RespondMin .. RespondMax :
              m_respondToClusterHeadTimer' = [m_respondToClusterHeadTimer EXCEPT ![n] = d]
        BY <3>2 DEF StayMember
      <4>2. d \in Nat
        BY DelayAssumption
      <4> QED BY <3>2, <4>1, <4>2 DEF TypeOK, StayMember
    <3> QED BY <1>1, <3>1, <3>2 DEF PeriodicUpdate
  <2>3. m_bestRoute' \in [Node -> Table!RoutingTableEntry]
    BY <1>1, BlankType DEF TypeOK, PeriodicUpdate
  <2>4. Table!IsTable(WithoutOldRoutes(n))
    BY DeleteRouteType DEF TypeOK, WithoutOldRoutes
  <2>5. /\ m_routingTable' = [p \in Node |-> m_routingTable'[p]]
        /\ \A p \in Node : Table!IsTable(m_routingTable'[p])
    BY <1>1, <2>4 DEF TypeOK, PeriodicUpdate
  <2>6. /\ m_dist' \in [Node -> 0 .. MaxDist \cup {Garbage}]
        /\ m_clusterMember' \in [Node -> Seq(Node)]
        /\ m_periodicUpdateTimer' \in [Node -> Nat]
        /\ air' \subseteq Packet
    <3>1. PICK j \in 0 .. Jitter :
            m_periodicUpdateTimer' = [m_periodicUpdateTimer EXCEPT ![n] = Interval + j]
      BY <1>1 DEF PeriodicUpdate
    <3>2. Interval + j \in Nat /\ MaxDist \in 0 .. MaxDist
      BY DelayAssumption, DistanceAssumption
    <3>3. /\ m_dist' = [m_dist EXCEPT ![n] = MaxDist]
          /\ m_clusterMember' = [m_clusterMember EXCEPT ![n] = <<>>]
          /\ air' = air
      BY <1>1 DEF PeriodicUpdate
    <3>4. <<>> \in Seq(Node)
      OBVIOUS
    <3> QED BY <3>1, <3>2, <3>3, <3>4 DEF TypeOK
  <2> QED BY <2>1, <2>2, <2>3, <2>5, <2>6 DEF TypeOK
<1>2. ASSUME NEW n \in Node, SendBroadcast(n) PROVE TypeOK'
  <2>1. Table!NewEntry(Sink, n, Sink) \in Table!RoutingTableEntry
    BY EntryType DEF Address
  <2>2. Table!IsTable(Table!AddRoute(m_routingTable[n], Table!NewEntry(Sink, n, Sink)))
    BY <2>1, AddRouteType DEF TypeOK
  <2>3. /\ m_routingTable' = [p \in Node |-> m_routingTable'[p]]
        /\ \A p \in Node : Table!IsTable(m_routingTable'[p])
    BY <1>2, <2>2 DEF TypeOK, SendBroadcast
  <2>4. air' \subseteq Packet
    <3> DEFINE hdr == [DefaultHeader EXCEPT !.position = PositionOf[n]]
    <3>1. hdr \in Header
      BY AdvertHeader
    <3>2. air' = air \cup Copies(m_routingTable[n], n, AdvDest, hdr)
      BY <1>2 DEF SendBroadcast
    <3> HIDE DEF hdr
    <3> QED BY <3>1, <3>2, CopiesType DEF TypeOK
  <2>5. m_broadcastClusterHeadTimer' \in [Node -> Nat \cup {Off}]
    BY <1>2 DEF TypeOK, SendBroadcast
  <2> QED BY <1>2, <2>3, <2>4, <2>5 DEF TypeOK, SendBroadcast, election, choice
<1>3. ASSUME NEW n \in Node, RespondToClusterHead(n) PROVE TypeOK'
  <2>1. Table!IsTable(RoutesOfMember(n))
    BY MemberRoutes, AddRouteType, BlankType DEF TypeOK
  <2>2. /\ m_routingTable' = [p \in Node |-> m_routingTable'[p]]
        /\ \A p \in Node : Table!IsTable(m_routingTable'[p])
    BY <1>3, <2>1 DEF TypeOK, RespondToClusterHead
  <2>3. air' \subseteq Packet
    BY <1>3, CopiesType, JoinHeader DEF TypeOK, RespondToClusterHead
  <2>4. m_respondToClusterHeadTimer' \in [Node -> Nat \cup {Off}]
    BY <1>3 DEF TypeOK, RespondToClusterHead
  <2> QED BY <1>3, <2>2, <2>3, <2>4 DEF TypeOK, RespondToClusterHead, election, choice
<1>4. ASSUME NEW m \in air, RecvLeach(m) PROVE TypeOK'
  <2>1. /\ m \in Packet
        /\ m.to \in Node
        /\ m.from \in Node
        /\ Received(m.hdr).address \in Node \cup {AllOnes}
        /\ Received(m.hdr).position \in Position
    BY DEF TypeOK, Packet, Header, Received
  <2>2. SqDist[Received(m.hdr).position][PositionOf[m.to]] \in 0 .. MaxDist
    BY <2>1, DistanceAssumption
  <2>3. Table!NewEntry(Sink, m.to, m.from) \in Table!RoutingTableEntry
    BY <2>1, EntryType DEF Address
  <2>4. /\ m_targetAddress' \in [Node -> Node \cup {Sink, NoAddr}]
        /\ m_dist' \in [Node -> 0 .. MaxDist \cup {Garbage}]
        /\ m_bestRoute' \in [Node -> Table!RoutingTableEntry]
    BY <1>4, <2>1, <2>2, <2>3 DEF TypeOK, RecvLeach, choice
  <2>5. m_clusterMember' \in [Node -> Seq(Node)]
    <3>1. CASE Received(m.hdr).address = AllOnes
      BY <1>4, <3>1 DEF TypeOK, RecvLeach
    <3>2. CASE Received(m.hdr).address # AllOnes
      <4>1. Received(m.hdr).address \in Node
        BY <2>1, <3>2
      <4>2. m_clusterMember' = [m_clusterMember EXCEPT
              ![m.to] = Append(m_clusterMember[m.to], Received(m.hdr).address)]
        BY <1>4, <3>2 DEF RecvLeach
      <4> QED BY <2>1, <4>1, <4>2 DEF TypeOK
    <3> QED BY <3>1, <3>2
  <2> QED BY <1>4, <2>4, <2>5 DEF TypeOK, RecvLeach, election, timers
<1>5. ASSUME NEW m \in air, Lose(m) PROVE TypeOK'
  BY <1>5 DEF TypeOK, Lose, election, choice, timers
<1>6. ASSUME Tick PROVE TypeOK'
  <2>1. /\ m_periodicUpdateTimer' \in [Node -> Nat]
        /\ m_broadcastClusterHeadTimer' \in [Node -> Nat \cup {Off}]
        /\ m_respondToClusterHeadTimer' \in [Node -> Nat \cup {Off}]
    BY <1>6 DEF TypeOK, Tick, Elapsed
  <2>2. air' \subseteq Packet
    <3> SUFFICES ASSUME NEW m \in air PROVE [m EXCEPT !.left = m.left - 1] \in Packet
      BY <1>6 DEF Tick
    <3>1. m \in Packet /\ m.left # 0
      BY <1>6 DEF TypeOK, Tick
    <3> QED BY <3>1 DEF Packet
  <2> QED BY <1>6, <2>1, <2>2 DEF TypeOK, Tick, election, choice
<1>7. CASE UNCHANGED vars
  BY <1>7 DEF TypeOK, vars, election, choice, timers
<1> QED BY <1>1, <1>2, <1>3, <1>4, <1>5, <1>6, <1>7 DEF Next

\* Every variable keeps its type: in particular no countdown passes below
\* zero, valid stays a flag and a node's target is a node, the sink or blank.
THEOREM TypeCorrect == Spec => []TypeOK
BY InitType, NextType, PTL DEF Spec

-----------------------------------------------------------------------------
(* The inductive invariant.  Every conjunct bounds how two countdowns, or a  *)
(* countdown and a packet's age, may differ: what the safety properties say  *)
(* about one instant is kept true by what has to happen before it.           *)

\* While a node has not begun its first round, every other node's next round
\* and next advertisement come later than its first.
StartOrder ==
  \A n, p \in Node : ~Started(n) =>
    /\ m_broadcastClusterHeadTimer[n] = Off
    /\ m_respondToClusterHeadTimer[n] = Off
    /\ ~Started(p) =>
         m_periodicUpdateTimer[n] <= m_periodicUpdateTimer[p] + (StartMax - StartMin)
    /\ Started(p) => m_periodicUpdateTimer[n] < m_periodicUpdateTimer[p]
    /\ m_broadcastClusterHeadTimer[p] # Off =>
         m_periodicUpdateTimer[n] < m_broadcastClusterHeadTimer[p]

\* A round's one-shot timer is that of the node's role, and fires well before
\* the next round.
TimerOrder ==
  \A n \in Node :
    /\ m_broadcastClusterHeadTimer[n] # Off =>
         /\ clusterHeadThisRound[n] = 1
         /\ m_broadcastClusterHeadTimer[n] + Interval
              <= m_periodicUpdateTimer[n] + BcastMax
    /\ m_respondToClusterHeadTimer[n] # Off =>
         /\ clusterHeadThisRound[n] = 0
         /\ m_respondToClusterHeadTimer[n] <= RespondMax
         /\ m_respondToClusterHeadTimer[n] + Interval
              <= m_periodicUpdateTimer[n] + RespondMax

\* An advertisement is younger than its sender's term.
AdvertOrder ==
  \A m \in air :
    /\ m.left <= MaxDelay
    /\ IsAdvert(m) =>
         /\ Started(m.to) /\ Started(m.from)
         /\ clusterHeadThisRound[m.from] = 1
         /\ m_broadcastClusterHeadTimer[m.from] = Off
         /\ Interval + m.left
              <= m_periodicUpdateTimer[m.from] + BcastMax + MaxDelay

\* A member that will answer chose its head in that head's present term.
TargetOrder ==
  \A n \in Node :
    m_respondToClusterHeadTimer[n] # Off /\ m_targetAddress[n] \in Node =>
      /\ clusterHeadThisRound[m_targetAddress[n]] = 1
      /\ Interval + m_respondToClusterHeadTimer[n]
           <= m_periodicUpdateTimer[m_targetAddress[n]]
                + BcastMax + MaxDelay + RespondMax

IInv ==
  /\ TypeOK
  /\ StartOrder
  /\ TimerOrder
  /\ AdvertOrder
  /\ TargetOrder
  /\ RoutesMatchRole

\* The part of TypeOK that the order of events needs.
TimerTypes ==
  /\ m_dist \in [Node -> Int]
  /\ clusterHeadThisRound \in [Node -> {0, 1}]
  /\ m_periodicUpdateTimer \in [Node -> Nat]
  /\ m_broadcastClusterHeadTimer \in [Node -> Int]
  /\ m_respondToClusterHeadTimer \in [Node -> Int]
  /\ \A n \in Node : /\ m_broadcastClusterHeadTimer[n] >= Off
                     /\ m_respondToClusterHeadTimer[n] >= Off

\* The timers' part of the type invariant, which all that follows needs.
LEMMA TypeTimers == TypeOK => TimerTypes
<1> SUFFICES ASSUME TypeOK PROVE TimerTypes
  OBVIOUS
<1>1. m_dist \in [Node -> Int]
  <2>1. 0 .. MaxDist \cup {Garbage} \subseteq Int
    BY DistanceAssumption
  <2>2. m_dist \in [Node -> 0 .. MaxDist \cup {Garbage}]
    BY DEF TypeOK
  <2> QED BY <2>1, <2>2
<1>2. /\ m_broadcastClusterHeadTimer \in [Node -> Nat \cup {Off}]
      /\ m_respondToClusterHeadTimer \in [Node -> Nat \cup {Off}]
  BY DEF TypeOK
<1>3. /\ m_broadcastClusterHeadTimer \in [Node -> Int]
      /\ m_respondToClusterHeadTimer \in [Node -> Int]
  <2>1. Nat \cup {Off} \subseteq Int
    OBVIOUS
  <2> QED BY <1>2, <2>1
<1>4. \A n \in Node : /\ m_broadcastClusterHeadTimer[n] >= Off
                       /\ m_respondToClusterHeadTimer[n] >= Off
  BY <1>2
<1> QED BY <1>1, <1>3, <1>4 DEF TypeOK, TimerTypes

\* The inductive invariant holds before the first round.
LEMMA InitIInv == Init => IInv
<1> SUFFICES ASSUME Init PROVE IInv
  OBVIOUS
<1>1. TypeOK
  BY InitType
<1>2. StartOrder
  BY DelayAssumption DEF Init, StartDelay, StartOrder, Started
<1>3. TimerOrder /\ AdvertOrder /\ TargetOrder
  BY DEF Init, TimerOrder, AdvertOrder, TargetOrder
<1>4. RoutesMatchRole
  <2> SUFFICES ASSUME NEW n \in Node
               PROVE  DOMAIN StartTable(n) = {Loopback, SubnetBroadcast}
    BY AddressAssumption DEF Init, RoutesMatchRole, Started, Table!LookupRoute
  <2> QED BY DEF StartTable, Table!AddRoute, Table!EmptyTable, Table!NewEntry
<1> QED BY <1>1, <1>2, <1>3, <1>4 DEF IInv

\* What a round's beginning does to the timers, the role and the target.
LEMMA RoundBegins ==
  ASSUME TypeOK, NEW n \in Node, PeriodicUpdate(n)
  PROVE  /\ m_periodicUpdateTimer[n] = 0
         /\ m_dist' = [m_dist EXCEPT ![n] = MaxDist]
         /\ air' = air
         /\ \E j \in Nat :
              m_periodicUpdateTimer' = [m_periodicUpdateTimer EXCEPT ![n] = Interval + j]
         /\ \/ /\ clusterHeadThisRound' = [clusterHeadThisRound EXCEPT ![n] = 1]
               /\ m_targetAddress' = [m_targetAddress EXCEPT ![n] = Sink]
               /\ \E d \in BcastMin .. BcastMax : m_broadcastClusterHeadTimer' =
                    [m_broadcastClusterHeadTimer EXCEPT ![n] = d]
               /\ m_respondToClusterHeadTimer' = m_respondToClusterHeadTimer
            \/ /\ clusterHeadThisRound' = [clusterHeadThisRound EXCEPT ![n] = 0]
               /\ m_targetAddress' = [m_targetAddress EXCEPT ![n] = NoAddr]
               /\ \E d \in RespondMin .. RespondMax : m_respondToClusterHeadTimer' =
                    [m_respondToClusterHeadTimer EXCEPT ![n] = d]
               /\ m_broadcastClusterHeadTimer' = m_broadcastClusterHeadTimer
<1>1. \E j \in Nat :
        m_periodicUpdateTimer' = [m_periodicUpdateTimer EXCEPT ![n] = Interval + j]
  <2>1. PICK j \in 0 .. Jitter :
          m_periodicUpdateTimer' = [m_periodicUpdateTimer EXCEPT ![n] = Interval + j]
    BY DEF PeriodicUpdate
  <2>2. j \in Nat
    BY DelayAssumption
  <2> QED BY <2>1, <2>2
<1>2. ElectHead(n) \/ StayMember(n)
  BY DEF PeriodicUpdate
<1> QED BY <1>1, <1>2 DEF PeriodicUpdate, ElectHead, StayMember

\* The packet a step adds to the radio is its sender's advertisement, or a
\* JOIN; a step of a round or of time adds none.
LEMMA NewAdvert ==
  ASSUME TypeOK, NEW n \in Node, SendBroadcast(n), NEW m \in air', m \notin air
  PROVE  m \in Packet /\ m.from = n /\ m.left = MaxDelay
<1> DEFINE hdr == [DefaultHeader EXCEPT !.position = PositionOf[n]]
<1>1. hdr \in Header
  BY AdvertHeader
<1>2. m \in Copies(m_routingTable[n], n, AdvDest, hdr)
  BY DEF SendBroadcast
<1> HIDE DEF hdr
<1> QED BY <1>1, <1>2, CopiesType

\* The same of the JOIN of a member.
LEMMA NewJoin ==
  ASSUME TypeOK, NEW n \in Node, RespondToClusterHead(n), NEW m \in air', m \notin air
  PROVE  m \in Packet /\ m.left = MaxDelay /\ ~IsAdvert(m)
<1> DEFINE hdr == [DefaultHeader EXCEPT !.address = n]
<1>1. hdr \in Header /\ hdr.address = n
  BY JoinHeader
<1>2. m \in Copies(RoutesOfMember(n), n, m_targetAddress[n], hdr)
  BY DEF RespondToClusterHead
<1> HIDE DEF hdr
<1> QED BY <1>1, <1>2, CopiesType, AddressAssumption DEF IsAdvert

\* What the reception of a packet does to the choice of a head.
LEMMA PacketHeard ==
  ASSUME TypeOK, NEW m \in air, RecvLeach(m)
  PROVE  /\ m.to \in Node /\ m.from \in Node /\ m.left \in Nat
         /\ air' = air \ {m}
         /\ UNCHANGED <<clusterHeadThisRound, m_routingTable,
                        m_periodicUpdateTimer, m_broadcastClusterHeadTimer,
                        m_respondToClusterHeadTimer>>
         /\ \/ UNCHANGED <<m_dist, m_targetAddress>>
            \/ /\ IsAdvert(m)
               /\ \E d \in Nat : m_dist' = [m_dist EXCEPT ![m.to] = d]
               /\ m_targetAddress' = [m_targetAddress EXCEPT ![m.to] = m.from]
<1>1. m.to \in Node /\ m.from \in Node /\ m.left \in Nat /\ m.hdr \in Header
  BY DEF TypeOK, Packet
<1>2. Received(m.hdr).address = m.hdr.address /\ Received(m.hdr).position \in Position
  BY <1>1 DEF Received, Header
<1>3. SqDist[Received(m.hdr).position][PositionOf[m.to]] \in Nat
  BY <1>1, <1>2, DistanceAssumption
<1>4. \/ UNCHANGED <<m_dist, m_targetAddress>>
      \/ /\ IsAdvert(m)
         /\ \E d \in Nat : m_dist' = [m_dist EXCEPT ![m.to] = d]
         /\ m_targetAddress' = [m_targetAddress EXCEPT ![m.to] = m.from]
  <2>1. CASE IsAdvert(m)
    BY <1>2, <1>3, <2>1 DEF RecvLeach, IsAdvert, choice
  <2>2. CASE ~IsAdvert(m)
    BY <1>2, <2>2 DEF RecvLeach, IsAdvert, choice
  <2> QED BY <2>1, <2>2
<1> QED BY <1>1, <1>4 DEF RecvLeach, election, timers

\* No handler lets an advertisement reach a node before its first round.
LEMMA NextStartOrder == IInv /\ [Next]_vars => StartOrder'
<1> SUFFICES ASSUME IInv, [Next]_vars PROVE StartOrder'
  OBVIOUS
<1> USE DelayAssumption DEF StartOrder, Started
<1>0. TypeOK /\ TimerTypes /\ StartOrder /\ TimerOrder
  BY TypeTimers DEF IInv
<1>1. ASSUME NEW q \in Node, PeriodicUpdate(q) PROVE StartOrder'
  <2>1. PICK j \in Nat :
          m_periodicUpdateTimer' = [m_periodicUpdateTimer EXCEPT ![q] = Interval + j]
    BY <1>0, <1>1, RoundBegins
  <2>2. PICK b \in BcastMin .. BcastMax, r \in RespondMin .. RespondMax :
          \/ /\ m_broadcastClusterHeadTimer' = [m_broadcastClusterHeadTimer EXCEPT ![q] = b]
             /\ m_respondToClusterHeadTimer' = m_respondToClusterHeadTimer
          \/ /\ m_respondToClusterHeadTimer' = [m_respondToClusterHeadTimer EXCEPT ![q] = r]
             /\ m_broadcastClusterHeadTimer' = m_broadcastClusterHeadTimer
    BY <1>0, <1>1, RoundBegins
  <2>3. /\ m_periodicUpdateTimer[q] = 0
        /\ m_dist' = [m_dist EXCEPT ![q] = MaxDist]
    BY <1>0, <1>1, RoundBegins
  <2> SUFFICES ASSUME NEW n \in Node, NEW p \in Node, ~Started(n)'
               PROVE  /\ m_broadcastClusterHeadTimer'[n] = Off
                      /\ m_respondToClusterHeadTimer'[n] = Off
                      /\ ~Started(p)' =>
                           m_periodicUpdateTimer'[n]
                             <= m_periodicUpdateTimer'[p] + (StartMax - StartMin)
                      /\ Started(p)' => m_periodicUpdateTimer'[n] < m_periodicUpdateTimer'[p]
                      /\ m_broadcastClusterHeadTimer'[p] # Off =>
                           m_periodicUpdateTimer'[n] < m_broadcastClusterHeadTimer'[p]
    OBVIOUS
  <2>4. n # q /\ ~Started(n)
    BY <2>3, <1>0, DistanceAssumption DEF TimerTypes
  <2>5. ~Started(q)
    BY <2>3, <2>4, <1>0 DEF TimerTypes
  <2>6. m_periodicUpdateTimer[n] <= StartMax - StartMin
    BY <2>3, <2>4, <2>5, <1>0 DEF TimerTypes
  <2>7. CASE p = q
    BY <2>1, <2>2, <2>3, <2>4, <2>5, <2>6, <2>7, <1>0 DEF TimerTypes
  <2>8. CASE p # q
    BY <2>1, <2>2, <2>3, <2>4, <2>5, <2>8, <1>0 DEF TimerTypes
  <2> QED BY <2>7, <2>8
<1>2. ASSUME NEW q \in Node, SendBroadcast(q) PROVE StartOrder'
  BY <1>0, <1>2 DEF TimerTypes, SendBroadcast, choice
<1>3. ASSUME NEW q \in Node, RespondToClusterHead(q) PROVE StartOrder'
  BY <1>0, <1>3 DEF TimerTypes, RespondToClusterHead, choice
<1>4. ASSUME NEW m \in air, RecvLeach(m) PROVE StartOrder'
  <2>1. \A n \in Node : Started(n)' <=> Started(n)
    BY <1>0, <1>4, PacketHeard DEF IInv, TimerTypes, AdvertOrder
  <2>2. UNCHANGED timers
    BY <1>4 DEF RecvLeach
  <2> QED BY <1>0, <2>1, <2>2 DEF timers
<1>5. ASSUME NEW m \in air, Lose(m) PROVE StartOrder'
  BY <1>0, <1>5 DEF Lose, choice, timers
<1>6. ASSUME Tick PROVE StartOrder'
  BY <1>0, <1>6 DEF TimerTypes, Tick, Elapsed, choice
<1>7. CASE UNCHANGED vars
  BY <1>0, <1>7 DEF vars, choice, timers
<1> QED BY <1>1, <1>2, <1>3, <1>4, <1>5, <1>6, <1>7 DEF Next

\* No handler leaves a one-shot timer running into the next round.
LEMMA NextTimerOrder == IInv /\ [Next]_vars => TimerOrder'
<1> SUFFICES ASSUME IInv, [Next]_vars PROVE TimerOrder'
  OBVIOUS
<1> USE DelayAssumption DEF TimerOrder
<1>0. TypeOK /\ TimerTypes /\ TimerOrder
  BY TypeTimers DEF IInv
<1>1. ASSUME NEW q \in Node, PeriodicUpdate(q) PROVE TimerOrder'
  <2>1. PICK j \in Nat :
          m_periodicUpdateTimer' = [m_periodicUpdateTimer EXCEPT ![q] = Interval + j]
    BY <1>0, <1>1, RoundBegins
  <2>2. /\ m_broadcastClusterHeadTimer[q] = Off
        /\ m_respondToClusterHeadTimer[q] = Off
    <3>1. m_periodicUpdateTimer[q] = 0
      BY <1>0, <1>1, RoundBegins
    <3> QED BY <1>0, <3>1 DEF TimerTypes
  <2>3. CASE /\ clusterHeadThisRound' = [clusterHeadThisRound EXCEPT ![q] = 1]
             /\ \E d \in BcastMin .. BcastMax : m_broadcastClusterHeadTimer' =
                  [m_broadcastClusterHeadTimer EXCEPT ![q] = d]
             /\ m_respondToClusterHeadTimer' = m_respondToClusterHeadTimer
    <3>1. PICK d \in BcastMin .. BcastMax : m_broadcastClusterHeadTimer' =
            [m_broadcastClusterHeadTimer EXCEPT ![q] = d]
      BY <2>3
    <3> QED BY <1>0, <2>1, <2>2, <2>3, <3>1 DEF TimerTypes
  <2>4. CASE /\ clusterHeadThisRound' = [clusterHeadThisRound EXCEPT ![q] = 0]
             /\ \E d \in RespondMin .. RespondMax : m_respondToClusterHeadTimer' =
                  [m_respondToClusterHeadTimer EXCEPT ![q] = d]
             /\ m_broadcastClusterHeadTimer' = m_broadcastClusterHeadTimer
    <3>1. PICK d \in RespondMin .. RespondMax : m_respondToClusterHeadTimer' =
            [m_respondToClusterHeadTimer EXCEPT ![q] = d]
      BY <2>4
    <3> QED BY <1>0, <2>1, <2>2, <2>4, <3>1 DEF TimerTypes
  <2> QED BY <1>0, <1>1, <2>3, <2>4, RoundBegins
<1>2. ASSUME NEW q \in Node, SendBroadcast(q) PROVE TimerOrder'
  BY <1>0, <1>2 DEF TimerTypes, SendBroadcast, election
<1>3. ASSUME NEW q \in Node, RespondToClusterHead(q) PROVE TimerOrder'
  BY <1>0, <1>3 DEF TimerTypes, RespondToClusterHead, election
<1>4. ASSUME NEW m \in air, RecvLeach(m) PROVE TimerOrder'
  BY <1>0, <1>4, PacketHeard
<1>5. ASSUME NEW m \in air, Lose(m) PROVE TimerOrder'
  BY <1>0, <1>5 DEF Lose, election, timers
<1>6. ASSUME Tick PROVE TimerOrder'
  BY <1>0, <1>6 DEF TimerTypes, Tick, Elapsed, election
<1>7. CASE UNCHANGED vars
  BY <1>0, <1>7 DEF vars, election, timers
<1> QED BY <1>1, <1>2, <1>3, <1>4, <1>5, <1>6, <1>7 DEF Next

\* No handler leaves an advertisement on the radio late in its sender's term.
LEMMA NextAdvertOrder == IInv /\ [Next]_vars => AdvertOrder'
<1> SUFFICES ASSUME IInv, [Next]_vars PROVE AdvertOrder'
  OBVIOUS
<1> USE DelayAssumption DEF AdvertOrder, IsAdvert, Started
<1>0. TypeOK /\ TimerTypes /\ StartOrder /\ TimerOrder /\ AdvertOrder
  BY TypeTimers DEF IInv
<1>p. ASSUME NEW m \in air
      PROVE  m.to \in Node /\ m.from \in Node /\ m.left \in Nat
  BY <1>0 DEF TypeOK, Packet
<1>1. ASSUME NEW q \in Node, PeriodicUpdate(q) PROVE AdvertOrder'
  <2>1. PICK j \in Nat :
          m_periodicUpdateTimer' = [m_periodicUpdateTimer EXCEPT ![q] = Interval + j]
    BY <1>0, <1>1, RoundBegins
  <2>2. /\ m_periodicUpdateTimer[q] = 0
        /\ m_dist' = [m_dist EXCEPT ![q] = MaxDist]
        /\ air' = air
    BY <1>0, <1>1, RoundBegins
  <2>3. \A n \in Node \ {q} :
          /\ clusterHeadThisRound'[n] = clusterHeadThisRound[n]
          /\ m_broadcastClusterHeadTimer'[n] = m_broadcastClusterHeadTimer[n]
          /\ m_periodicUpdateTimer'[n] = m_periodicUpdateTimer[n]
    BY <1>0, <1>1, RoundBegins DEF TimerTypes
  <2>4. \A n \in Node : Started(n) => Started(n)'
    BY <1>0, <2>2, DistanceAssumption DEF TimerTypes
  <2>5. \A m \in air : IsAdvert(m) => m.from # q
    BY <1>0, <1>p, <2>2
  <2> QED BY <1>0, <1>p, <2>2, <2>3, <2>4, <2>5
<1>2. ASSUME NEW q \in Node, SendBroadcast(q) PROVE AdvertOrder'
  <2>1. \A n \in Node : Started(n)
    BY <1>0, <1>2 DEF StartOrder, SendBroadcast, TimerTypes
  <2>2. /\ clusterHeadThisRound[q] = 1
        /\ Interval <= m_periodicUpdateTimer[q] + BcastMax
    BY <1>0, <1>2 DEF TimerOrder, SendBroadcast, TimerTypes
  <2>3. /\ UNCHANGED <<clusterHeadThisRound, m_dist, m_periodicUpdateTimer>>
        /\ m_broadcastClusterHeadTimer' =
             [m_broadcastClusterHeadTimer EXCEPT ![q] = Off]
    BY <1>2 DEF SendBroadcast, election, choice
  <2>4. ASSUME NEW m \in air', m \notin air
        PROVE  m \in Packet /\ m.from = q /\ m.left = MaxDelay
    BY <1>0, <1>2, <2>4, NewAdvert
  <2> SUFFICES ASSUME NEW m \in air'
               PROVE  /\ m.left <= MaxDelay
                      /\ IsAdvert(m) =>
                           /\ Started(m.to) /\ Started(m.from)
                           /\ clusterHeadThisRound[m.from] = 1
                           /\ m_broadcastClusterHeadTimer'[m.from] = Off
                           /\ Interval + m.left <=
                                m_periodicUpdateTimer[m.from] + BcastMax + MaxDelay
    BY <2>3
  <2>5. CASE m \in air
    BY <1>0, <1>p, <2>3, <2>5 DEF TimerTypes
  <2>6. CASE m \notin air
    <3>1. m.to \in Node /\ m.from = q /\ m.left = MaxDelay
      BY <2>4, <2>6 DEF Packet
    <3> QED BY <1>0, <2>1, <2>2, <2>3, <3>1 DEF TimerTypes
  <2> QED BY <2>5, <2>6
<1>3. ASSUME NEW q \in Node, RespondToClusterHead(q) PROVE AdvertOrder'
  <2>1. UNCHANGED <<clusterHeadThisRound, m_dist, m_periodicUpdateTimer,
                    m_broadcastClusterHeadTimer>>
    BY <1>3 DEF RespondToClusterHead, election, choice
  <2>2. ASSUME NEW m \in air', m \notin air
        PROVE  m.left = MaxDelay /\ ~IsAdvert(m)
    BY <1>0, <1>3, <2>2, NewJoin
  <2> QED BY <1>0, <2>1, <2>2
<1>4. ASSUME NEW m \in air, RecvLeach(m) PROVE AdvertOrder'
  <2>1. \A n \in Node : Started(n) => Started(n)'
    BY <1>0, <1>4, PacketHeard DEF TimerTypes
  <2> QED BY <1>0, <1>4, <1>p, <2>1, PacketHeard
<1>5. ASSUME NEW m \in air, Lose(m) PROVE AdvertOrder'
  BY <1>0, <1>5 DEF Lose, election, choice, timers
<1>6. ASSUME Tick PROVE AdvertOrder'
  <2>1. UNCHANGED <<clusterHeadThisRound, m_dist>>
    BY <1>6 DEF Tick, election, choice
  <2>2. \A n \in Node :
          /\ m_periodicUpdateTimer'[n] = m_periodicUpdateTimer[n] - 1
          /\ m_broadcastClusterHeadTimer[n] = Off => m_broadcastClusterHeadTimer'[n] = Off
    BY <1>0, <1>6 DEF TimerTypes, Tick, Elapsed
  <2>3. \A m \in air' : \E o \in air :
          m.from = o.from /\ m.to = o.to /\ m.hdr = o.hdr /\ m.left = o.left - 1
    <3>1. ASSUME NEW o \in air, NEW m, m = [o EXCEPT !.left = o.left - 1]
          PROVE  m.from = o.from /\ m.to = o.to /\ m.hdr = o.hdr /\ m.left = o.left - 1
      BY <1>0, <3>1 DEF TypeOK, Packet
    <3> QED BY <1>6, <3>1 DEF Tick
  <2> QED BY <1>0, <1>p, <2>1, <2>2, <2>3 DEF TimerTypes
<1>7. CASE UNCHANGED vars
  BY <1>0, <1>7 DEF vars, election, choice, timers
<1> QED BY <1>1, <1>2, <1>3, <1>4, <1>5, <1>6, <1>7 DEF Next

\* No handler leaves a member with a head that could end its term too early.
LEMMA NextTargetOrder == IInv /\ [Next]_vars => TargetOrder'
<1> SUFFICES ASSUME IInv, [Next]_vars PROVE TargetOrder'
  OBVIOUS
<1> USE DelayAssumption DEF TargetOrder
<1>0. TypeOK /\ TimerTypes /\ TimerOrder /\ AdvertOrder /\ TargetOrder
  BY TypeTimers DEF IInv
<1>t. m_targetAddress \in [Node -> Node \cup {Sink, NoAddr}]
  BY <1>0 DEF TypeOK
<1>1. ASSUME NEW q \in Node, PeriodicUpdate(q) PROVE TargetOrder'
  <2>1. m_periodicUpdateTimer[q] = 0
    BY <1>0, <1>1, RoundBegins
  <2>2. m_targetAddress'[q] \notin Node
    BY <1>0, <1>1, <1>t, RoundBegins, AddressAssumption
  <2>3. \A n \in Node \ {q} :
          /\ clusterHeadThisRound'[n] = clusterHeadThisRound[n]
          /\ m_targetAddress'[n] = m_targetAddress[n]
          /\ m_respondToClusterHeadTimer'[n] = m_respondToClusterHeadTimer[n]
          /\ m_periodicUpdateTimer'[n] = m_periodicUpdateTimer[n]
    BY <1>0, <1>1, <1>t, RoundBegins DEF TimerTypes
  <2>4. \A n \in Node : m_respondToClusterHeadTimer[n] # Off => m_targetAddress[n] # q
    BY <1>0, <2>1 DEF TimerTypes
  <2> QED BY <1>0, <1>t, <2>2, <2>3, <2>4
<1>2. ASSUME NEW q \in Node, SendBroadcast(q) PROVE TargetOrder'
  BY <1>0, <1>2 DEF SendBroadcast, election, choice
<1>3. ASSUME NEW q \in Node, RespondToClusterHead(q) PROVE TargetOrder'
  BY <1>0, <1>3 DEF TimerTypes, RespondToClusterHead, election, choice
<1>4. ASSUME NEW m \in air, RecvLeach(m) PROVE TargetOrder'
  <2>1. CASE UNCHANGED <<m_dist, m_targetAddress>>
    BY <1>0, <1>4, <2>1, PacketHeard
  <2>2. CASE /\ IsAdvert(m)
             /\ m_targetAddress' = [m_targetAddress EXCEPT ![m.to] = m.from]
    <3>1. /\ clusterHeadThisRound[m.from] = 1
          /\ Interval <= m_periodicUpdateTimer[m.from] + BcastMax + MaxDelay
      <4>1. m.from \in Node /\ m.left \in Nat
        BY <1>0, <1>4, PacketHeard
      <4> QED BY <1>0, <2>2, <4>1 DEF AdvertOrder, TimerTypes
    <3>2. m_respondToClusterHeadTimer[m.to] # Off =>
            m_respondToClusterHeadTimer[m.to] <= RespondMax
      BY <1>0, <1>4, PacketHeard DEF TimerOrder
    <3> QED BY <1>0, <1>4, <1>t, <2>2, <3>1, <3>2, PacketHeard DEF TimerTypes
  <2> QED BY <1>0, <1>4, <2>1, <2>2, PacketHeard
<1>5. ASSUME NEW m \in air, Lose(m) PROVE TargetOrder'
  BY <1>0, <1>5 DEF Lose, election, choice, timers
<1>6. ASSUME Tick PROVE TargetOrder'
  BY <1>0, <1>6, <1>t DEF TimerTypes, Tick, Elapsed, election, choice
<1>7. CASE UNCHANGED vars
  BY <1>0, <1>7 DEF vars, election, choice, timers
<1> QED BY <1>1, <1>2, <1>3, <1>4, <1>5, <1>6, <1>7 DEF Next

\* No handler leaves a route that does not match the node's role.
LEMMA NextRoutes == IInv /\ [Next]_vars => RoutesMatchRole'
<1> SUFFICES ASSUME IInv, [Next]_vars PROVE RoutesMatchRole'
  OBVIOUS
<1> USE DEF RoutesMatchRole, Started, Table!LookupRoute
<1>0. TypeOK /\ TimerTypes /\ StartOrder /\ TimerOrder /\ RoutesMatchRole
  BY TypeTimers DEF IInv
<1>t. \A n \in Node : \A t : [m_routingTable EXCEPT ![n] = t] =
                           [p \in Node |-> IF p = n THEN t ELSE m_routingTable[p]]
  BY <1>0 DEF TypeOK
<1>1. ASSUME NEW q \in Node, PeriodicUpdate(q) PROVE RoutesMatchRole'
  <2>1. /\ DOMAIN WithoutOldRoutes(q) \subseteq DOMAIN m_routingTable[q]
        /\ Sink \notin DOMAIN WithoutOldRoutes(q)
    BY DEF WithoutOldRoutes, Table!DeleteRoute
  <2>2. m_routingTable' = [p \in Node |-> IF p = q THEN WithoutOldRoutes(q)
                                          ELSE m_routingTable[p]]
    BY <1>1, <1>t DEF PeriodicUpdate
  <2>3. clusterHeadThisRound'[q] = 1 => m_broadcastClusterHeadTimer'[q] # Off
    BY <1>0, <1>1, RoundBegins, DelayAssumption DEF TimerTypes
  <2>4. \A n \in Node \ {q} :
          /\ clusterHeadThisRound'[n] = clusterHeadThisRound[n]
          /\ m_broadcastClusterHeadTimer'[n] = m_broadcastClusterHeadTimer[n]
          /\ m_dist'[n] = m_dist[n]
    BY <1>0, <1>1, RoundBegins DEF TimerTypes
  <2> QED BY <1>0, <2>1, <2>2, <2>3, <2>4
<1>2. ASSUME NEW q \in Node, SendBroadcast(q) PROVE RoutesMatchRole'
  <2> DEFINE t == Table!AddRoute(m_routingTable[q], Table!NewEntry(Sink, q, Sink))
  <2>1. DOMAIN t = DOMAIN m_routingTable[q] \cup {Sink}
    BY DEF Table!AddRoute, Table!NewEntry
  <2>2. m_routingTable' = [p \in Node |-> IF p = q THEN t ELSE m_routingTable[p]]
    BY <1>2, <1>t DEF SendBroadcast
  <2>3. Started(q) /\ clusterHeadThisRound[q] = 1
    BY <1>0, <1>2 DEF SendBroadcast, StartOrder, TimerOrder
  <2>4. /\ UNCHANGED <<clusterHeadThisRound, m_dist>>
        /\ m_broadcastClusterHeadTimer' =
             [m_broadcastClusterHeadTimer EXCEPT ![q] = Off]
    BY <1>2 DEF SendBroadcast, election, choice
  <2> HIDE DEF t
  <2> QED BY <1>0, <2>1, <2>2, <2>3, <2>4 DEF TimerTypes
<1>3. ASSUME NEW q \in Node, RespondToClusterHead(q) PROVE RoutesMatchRole'
  <2>1. /\ DOMAIN m_routingTable[q] \subseteq DOMAIN RoutesOfMember(q)
        /\ DOMAIN RoutesOfMember(q) \subseteq DOMAIN m_routingTable[q] \cup {NoAddr}
    <3>1. Table!BlankEntry.dst = NoAddr
      BY DEF Table!BlankEntry, Table!NewEntry
    <3>2. DOMAIN Table!AddRoute(m_routingTable[q], Table!BlankEntry)
            = DOMAIN m_routingTable[q] \cup {NoAddr}
      BY <3>1 DEF Table!AddRoute
    <3> QED BY <3>2, MemberRoutes
  <2>2. \/ m_routingTable' = m_routingTable
        \/ m_routingTable' = [p \in Node |-> IF p = q THEN RoutesOfMember(q)
                                             ELSE m_routingTable[p]]
    BY <1>3, <1>t DEF RespondToClusterHead
  <2>3. UNCHANGED <<clusterHeadThisRound, m_dist, m_broadcastClusterHeadTimer>>
    BY <1>3 DEF RespondToClusterHead, election, choice
  <2> QED BY <1>0, <2>1, <2>2, <2>3, AddressAssumption
<1>4. ASSUME NEW m \in air, RecvLeach(m) PROVE RoutesMatchRole'
  <2>1. \A n \in Node : Started(n)' <=> Started(n)
    BY <1>0, <1>4, PacketHeard DEF IInv, AdvertOrder, TimerTypes
  <2> QED BY <1>0, <1>4, <2>1, PacketHeard
<1>5. ASSUME NEW m \in air, Lose(m) PROVE RoutesMatchRole'
  BY <1>0, <1>5 DEF Lose, election, choice, timers
<1>6. ASSUME Tick PROVE RoutesMatchRole'
  <2>1. \A n \in Node :
          m_broadcastClusterHeadTimer'[n] = Off <=> m_broadcastClusterHeadTimer[n] = Off
    BY <1>0, <1>6 DEF TimerTypes, Tick, Elapsed
  <2> QED BY <1>0, <1>6, <2>1 DEF Tick, election, choice
<1>7. CASE UNCHANGED vars
  BY <1>0, <1>7 DEF vars, election, choice, timers
<1> QED BY <1>1, <1>2, <1>3, <1>4, <1>5, <1>6, <1>7 DEF Next

\* The inductive invariant holds throughout.
LEMMA Inductive == Spec => []IInv
<1>1. IInv /\ [Next]_vars => IInv'
  BY NextType, NextStartOrder, NextTimerOrder, NextAdvertOrder, NextTargetOrder,
     NextRoutes DEF IInv
<1> QED BY InitIInv, <1>1, PTL DEF Spec

\* A node's one-shot timers have fired before its next round arms them again,
\* so Timer::Schedule never meets a running timer.
THEOREM TimersNotRearmed == Spec => []NoTimerRearmed
<1>1. IInv => NoTimerRearmed
  <2> SUFFICES ASSUME IInv, NEW n \in Node, m_periodicUpdateTimer[n] = 0
               PROVE  /\ m_broadcastClusterHeadTimer[n] = Off
                      /\ m_respondToClusterHeadTimer[n] = Off
    BY DEF NoTimerRearmed
  <2> QED BY TypeTimers, DelayAssumption DEF IInv, TimerTypes, TimerOrder
<1> QED BY <1>1, Inductive, PTL

\* No advertisement can reach a node whose m_dist is still uninitialised.
THEOREM DistanceInitialised == Spec => []NoUninitialisedRead
<1>1. IInv => NoUninitialisedRead
  BY DEF IInv, AdvertOrder, NoUninitialisedRead
<1> QED BY <1>1, Inductive, PTL

\* The routing table holds a route to the sink exactly while its node is a head
\* that has advertised, and never a route to another node.
THEOREM RoutesFollowRole == Spec => []RoutesMatchRole
<1>1. IInv => RoutesMatchRole
  BY DEF IInv
<1> QED BY <1>1, Inductive, PTL

\* A member answers a node that is head and remains head until the answer has
\* arrived, however far their rounds have drifted apart.
THEOREM AnswersSittingHead == Spec => []JoinFindsItsHead
<1>1. IInv => JoinFindsItsHead
  <2> SUFFICES ASSUME IInv, NEW n \in Node, m_respondToClusterHeadTimer[n] # Off,
                      m_targetAddress[n] \in Node
               PROVE  /\ clusterHeadThisRound[m_targetAddress[n]] = 1
                      /\ m_periodicUpdateTimer[m_targetAddress[n]]
                           > m_respondToClusterHeadTimer[n] + MaxDelay
    BY DEF JoinFindsItsHead
  <2> QED BY TypeTimers, DelayAssumption DEF IInv, TimerTypes, TargetOrder
<1> QED BY <1>1, Inductive, PTL

-----------------------------------------------------------------------------
(* Refinement                                                              *)

\* Every behaviour of the timed protocol is one of the abstract rotation: a
\* node's PeriodicUpdate is its next abstract round, every other step a stutter.
THEOREM ImplementsRotation == Spec => RotatesHeads
<1>1. Init => Rotation!Init
  BY DEF Init, Rotation!Init
<1>2. TypeOK /\ [Next]_vars => [Rotation!Next]_(Rotation!vars)
  <2> SUFFICES ASSUME TypeOK, [Next]_vars
               PROVE  Rotation!Next \/ UNCHANGED Rotation!vars
    OBVIOUS
  <2>t. /\ Round \in [Node -> 0 .. CycleLen - 1]
        /\ valid \in [Node -> {0, 1}]
        /\ clusterHeadThisRound \in [Node -> {0, 1}]
    BY DEF TypeOK
  <2>1. ASSUME NEW n \in Node, PeriodicUpdate(n) PROVE Rotation!NewRound(n)
    <3>1. PICK k \in 0 .. CycleLen - 1 :
            IF Drawn(n, k) /\ Eligible(n) THEN ElectHead(n) ELSE StayMember(n)
      BY <2>1 DEF PeriodicUpdate
    <3>2. Round' = [Round EXCEPT ![n] = (Round[n] + 1) % CycleLen]
      BY <2>1 DEF PeriodicUpdate
    <3>3. Round[n] = CycleLen - 1 => Drawn(n, k)
      <4>1. Round[n] = CycleLen - 1 => CycleLen - Round[n] = 1
        BY CycleAssumption
      <4>2. k \in Int /\ k * 1 = k /\ k < CycleLen
        BY CycleAssumption
      <4> QED BY <4>1, <4>2 DEF Drawn
    <3>4. Rotation!ServedBefore(n) = IF Eligible(n) THEN 0 ELSE 1
      BY <2>t DEF Rotation!ServedBefore, Eligible
    <3> DEFINE elected == IF Drawn(n, k) /\ Eligible(n) THEN 1 ELSE 0
    <3>5. /\ elected \in {0, 1}
          /\ elected = 1 => Rotation!ServedBefore(n) = 0
          /\ Round[n] = CycleLen - 1 => Rotation!ServedBefore(n) + elected = 1
      BY <3>3, <3>4
    <3>6. clusterHeadThisRound' = [clusterHeadThisRound EXCEPT ![n] = elected]
      BY <3>1 DEF ElectHead, StayMember
    <3>7. valid' = [valid EXCEPT ![n] = 1 - (Rotation!ServedBefore(n) + elected)]
      BY <3>1, <3>4 DEF ElectHead, StayMember
    <3>8. [p \in Node |-> 1 - valid'[p]] =
            [[p \in Node |-> 1 - valid[p]] EXCEPT ![n] = Rotation!ServedBefore(n) + elected]
      <4> DEFINE sum == Rotation!ServedBefore(n) + elected
      <4>1. sum \in Int
        BY <3>4, <3>5
      <4> HIDE DEF sum
      <4>2. 1 - (1 - sum) = sum
        BY <4>1
      <4>3. valid' = [valid EXCEPT ![n] = 1 - sum]
        BY <3>7 DEF sum
      <4>4. [p \in Node |-> 1 - valid'[p]] =
              [[p \in Node |-> 1 - valid[p]] EXCEPT ![n] = sum]
        BY <2>t, <4>2, <4>3
      <4> QED BY <4>4 DEF sum
    <3> HIDE DEF elected
    <3> QED BY <3>2, <3>5, <3>6, <3>8 DEF Rotation!NewRound
  <2>2. ASSUME UNCHANGED election PROVE UNCHANGED Rotation!vars
    BY <2>2 DEF election, Rotation!vars
  <2> QED BY <2>1, <2>2 DEF Next, vars, Rotation!Next, SendBroadcast,
            RespondToClusterHead, RecvLeach, Lose, Tick
<1> QED BY <1>1, <1>2, TypeCorrect, PTL DEF Spec, RotatesHeads, Rotation!Spec

=============================================================================
