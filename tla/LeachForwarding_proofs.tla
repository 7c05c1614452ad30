----------------------- MODULE LeachForwarding_proofs -----------------------
(***************************************************************************)
(* A waiting packet always has an event ahead that will look at it.  Every *)
(* EnqueueForNoDA schedules one, and the first to come empties the queue:  *)
(* what has to be shown is that the events come in the order in which they *)
(* were scheduled, so that time never passes one by (IInv).                *)
(*                                                                         *)
(* A packet is in one place: it waits once, in the queue or in loopback,   *)
(* or it has settled once (DataInv).  For that no entry of the table may   *)
(* make RouteInput forward a broadcast that it delivers as well (TableInv).*)
(***************************************************************************)
EXTENDS LeachForwarding, Subsequences_proofs

\* The scheduled flushes, the soonest first.
InOrder(s) == \A i, j \in DOMAIN s : i <= j => s[i] <= s[j]

IInv ==
  /\ flushes \in Seq(0 .. FlushDelay)
  /\ InOrder(flushes)
  /\ DeferredQueue # <<>> => flushes # <<>>

\* Every countdown is one that a flush can have.
LEMMA CountdownsBounded ==
  ASSUME NEW s \in Seq(0 .. FlushDelay), NEW i \in DOMAIN s
  PROVE  s[i] \in 0 .. FlushDelay
<1> DEFINE S == 0 .. FlushDelay
<1>1. s \in Seq(S)
  OBVIOUS
<1> HIDE DEF S
<1>2. s[i] \in S
  BY <1>1
<1> QED BY <1>2 DEF S

\* A flush scheduled now is the last of those scheduled.
LEMMA AppendInOrder ==
  ASSUME NEW s \in Seq(0 .. FlushDelay), InOrder(s)
  PROVE  LET t == Append(s, FlushDelay) IN
           t \in Seq(0 .. FlushDelay) /\ InOrder(t) /\ t # <<>>
<1> DEFINE t == Append(s, FlushDelay)
<1>1. t \in Seq(0 .. FlushDelay) /\ t # <<>> /\ Len(t) = Len(s) + 1
  BY ForwardingAssumption
<1>2. \A i \in DOMAIN t : t[i] = IF i <= Len(s) THEN s[i] ELSE FlushDelay
  BY ForwardingAssumption
<1>3. \A i \in DOMAIN s : s[i] \in 0 .. FlushDelay
  BY CountdownsBounded
<1>4. InOrder(t)
  BY <1>1, <1>2, <1>3, ForwardingAssumption DEF InOrder
<1> QED BY <1>1, <1>4

\* The one that is taken leaves the others in order.
LEMMA TailInOrder ==
  ASSUME NEW s \in Seq(0 .. FlushDelay), InOrder(s), s # <<>>
  PROVE  Tail(s) \in Seq(0 .. FlushDelay) /\ InOrder(Tail(s))
<1>1. Tail(s) \in Seq(0 .. FlushDelay) /\ Len(Tail(s)) = Len(s) - 1
  OBVIOUS
<1>2. \A i \in DOMAIN Tail(s) : Tail(s)[i] = s[i + 1] /\ i + 1 \in DOMAIN s
  OBVIOUS
<1>3. InOrder(Tail(s))
  BY <1>1, <1>2 DEF InOrder
<1> QED BY <1>1, <1>3

\* While the soonest is not due, a tick makes none late and keeps their order.
LEMMA TickInOrder ==
  ASSUME NEW s \in Seq(0 .. FlushDelay), InOrder(s), s # <<>>, Head(s) # 0
  PROVE  LET t == [i \in DOMAIN s |-> s[i] - 1] IN
           t \in Seq(0 .. FlushDelay) /\ InOrder(t) /\ t # <<>>
<1> DEFINE t == [i \in DOMAIN s |-> s[i] - 1]
<1>1. Len(s) \in Nat \ {0} /\ DOMAIN s = 1 .. Len(s)
  OBVIOUS
<1>2. s[1] # 0 /\ 1 \in DOMAIN s
  BY <1>1
<1>3. \A i \in DOMAIN s : s[i] \in 0 .. FlushDelay /\ s[1] <= s[i]
  BY <1>1, <1>2, CountdownsBounded DEF InOrder
<1>4. \A i \in DOMAIN s : s[i] - 1 \in 0 .. FlushDelay
  BY <1>2, <1>3, ForwardingAssumption
<1>5. t \in [1 .. Len(s) -> 0 .. FlushDelay]
  BY <1>1, <1>4
<1>6. t \in Seq(0 .. FlushDelay) /\ Len(t) = Len(s)
  BY <1>1, <1>5
<1>7. InOrder(t)
  BY <1>1, <1>3 DEF InOrder
<1> QED BY <1>1, <1>6, <1>7

-----------------------------------------------------------------------------
\* To queue a packet keeps the invariant.
LEMMA EnqueueKeeps ==
  ASSUME IInv, NEW d, EnqueueForNoDA(d)
  PROVE  IInv'
  BY AppendInOrder DEF IInv, EnqueueForNoDA

\* Every action keeps the invariant.
LEMMA NextIInv == IInv /\ [Next]_vars => IInv'
<1> SUFFICES ASSUME IInv, [Next]_vars PROVE IInv'
  OBVIOUS
<1>1. CASE UNCHANGED <<DeferredQueue, flushes>>
  BY <1>1 DEF IInv
<1>2. CASE UNCHANGED vars
  BY <1>1, <1>2 DEF vars
<1>3. ASSUME NEW d \in Datagram, RouteOutput(d) PROVE IInv'
  BY <1>1, <1>3 DEF RouteOutput
<1>4. ASSUME NEW d \in Datagram, RouteInput(d) PROVE IInv'
  BY <1>1, <1>4, EnqueueKeeps DEF RouteInput, NoLeachInterface
<1>5. CASE DeferredRouteInput
  BY <1>1, <1>5, EnqueueKeeps DEF DeferredRouteInput, NoLeachInterface
<1>6. CASE AutoDequeueNoDA
  BY <1>6, TailInOrder DEF AutoDequeueNoDA, IInv
<1>7. CASE Tick
  BY <1>7, TickInOrder DEF Tick, IInv
<1>8. CASE RouteAppears \/ RouteGoes
  BY <1>1, <1>8 DEF RouteAppears, RouteGoes
<1>9. CASE InterfaceGoes \/ InterfaceComes
  BY <1>1, <1>9 DEF InterfaceGoes, InterfaceComes
<1> QED BY <1>2, <1>3, <1>4, <1>5, <1>6, <1>7, <1>8, <1>9 DEF Next, Engine

-----------------------------------------------------------------------------
\* Datagrams and their packets.
IdsOf(s) == {s[i].id : i \in DOMAIN s}
Distinct(s) == \A i, j \in DOMAIN s : s[i].id = s[j].id => i = j

\* A packet that is not in the sequence can be appended.
LEMMA AppendDistinct ==
  ASSUME NEW s \in Seq(Datagram), NEW d \in Datagram
  PROVE  LET t == Append(s, d) IN
           /\ t \in Seq(Datagram) /\ IdsOf(t) = IdsOf(s) \cup {d.id}
           /\ Distinct(s) /\ d.id \notin IdsOf(s) => Distinct(t)
<1> DEFINE t == Append(s, d)
<1>0. Len(s) \in Nat /\ DOMAIN s = 1 .. Len(s)
  OBVIOUS
<1>1. /\ t \in Seq(Datagram) /\ DOMAIN t = 1 .. Len(s) + 1
      /\ \A i \in 1 .. Len(s) : t[i] = s[i]
      /\ t[Len(s) + 1] = d
  OBVIOUS
<1> HIDE DEF t
<1>2. \A i \in 1 .. Len(s) + 1 : i \in 1 .. Len(s) \/ i = Len(s) + 1
  BY <1>0
<1>3. 1 .. Len(s) \subseteq 1 .. Len(s) + 1 /\ Len(s) + 1 \in 1 .. Len(s) + 1
  BY <1>0
<1>4. IdsOf(t) = IdsOf(s) \cup {d.id}
  BY <1>0, <1>1, <1>2, <1>3 DEF IdsOf
<1>5. ASSUME Distinct(s), d.id \notin IdsOf(s) PROVE Distinct(t)
  <2>1. \A i \in 1 .. Len(s) : t[i].id # d.id
    BY <1>0, <1>1, <1>5 DEF IdsOf
  <2> QED BY <1>0, <1>1, <1>2, <1>5, <2>1 DEF Distinct
<1> QED BY <1>1, <1>4, <1>5 DEF t

\* Without its first datagram, a sequence has all packets but that.
LEMMA TailDistinct ==
  ASSUME NEW s \in Seq(Datagram), s # <<>>
  PROVE  /\ Head(s) \in Datagram /\ Tail(s) \in Seq(Datagram)
         /\ IdsOf(s) = IdsOf(Tail(s)) \cup {Head(s).id}
         /\ Distinct(s) => Distinct(Tail(s)) /\ Head(s).id \notin IdsOf(Tail(s))
<1> DEFINE t == Tail(s)
<1>0. Len(s) \in Nat \ {0} /\ DOMAIN s = 1 .. Len(s)
  OBVIOUS
<1>1. /\ t \in Seq(Datagram) /\ DOMAIN t = 1 .. Len(s) - 1
      /\ \A i \in 1 .. Len(s) - 1 : t[i] = s[i + 1]
      /\ Head(s) = s[1] /\ s[1] \in Datagram
  OBVIOUS
<1> HIDE DEF t
<1>2. \A i \in DOMAIN t : i + 1 \in DOMAIN s /\ t[i].id = s[i + 1].id /\ i + 1 # 1
  BY <1>0, <1>1
<1>3. \A i \in DOMAIN s : i = 1 \/ (i - 1 \in DOMAIN t /\ s[i] = t[i - 1])
  BY <1>0, <1>1
<1>4. 1 \in DOMAIN s
  BY <1>0
<1>5. IdsOf(s) = IdsOf(t) \cup {Head(s).id}
  <2>1. \A i \in DOMAIN t : \E j \in DOMAIN s : s[j].id = t[i].id
    BY <1>2
  <2>2. \A i \in DOMAIN s : s[i].id = s[1].id \/ \E j \in DOMAIN t : t[j].id = s[i].id
    BY <1>3
  <2> QED BY <1>1, <1>4, <2>1, <2>2 DEF IdsOf
<1>6. ASSUME Distinct(s) PROVE Distinct(t) /\ Head(s).id \notin IdsOf(t)
  <2>1. \A i, j \in DOMAIN t : t[i].id = t[j].id => i = j
    BY <1>0, <1>1, <1>2, <1>6 DEF Distinct
  <2>2. \A i \in DOMAIN t : t[i].id # s[1].id
    BY <1>2, <1>4, <1>6 DEF Distinct
  <2> QED BY <1>1, <2>1, <2>2 DEF Distinct, IdsOf
<1> QED BY <1>1, <1>5, <1>6 DEF t

\* Sequences without a packet in common can be joined.
LEMMA ConcatDistinct ==
  ASSUME NEW s \in Seq(Datagram), NEW r \in Seq(Datagram)
  PROVE  /\ s \o r \in Seq(Datagram) /\ IdsOf(s \o r) = IdsOf(s) \cup IdsOf(r)
         /\ Distinct(s) /\ Distinct(r) /\ IdsOf(s) \cap IdsOf(r) = {} => Distinct(s \o r)
<1> DEFINE t == s \o r
<1>0. /\ Len(s) \in Nat /\ Len(r) \in Nat
      /\ DOMAIN s = 1 .. Len(s) /\ DOMAIN r = 1 .. Len(r)
  OBVIOUS
<1>1. /\ t \in Seq(Datagram) /\ DOMAIN t = 1 .. Len(s) + Len(r)
      /\ \A i \in 1 .. Len(s) + Len(r) : t[i] = IF i <= Len(s) THEN s[i] ELSE r[i - Len(s)]
  OBVIOUS
<1> HIDE DEF t
<1>2. \A i \in DOMAIN s : i \in DOMAIN t /\ t[i] = s[i]
  BY <1>0, <1>1
<1>3. \A i \in DOMAIN r : i + Len(s) \in DOMAIN t /\ t[i + Len(s)] = r[i]
  BY <1>0, <1>1
<1>4. \A i \in DOMAIN t : \/ i \in DOMAIN s /\ t[i] = s[i]
                          \/ i - Len(s) \in DOMAIN r /\ t[i] = r[i - Len(s)]
  BY <1>0, <1>1
<1>5. IdsOf(t) = IdsOf(s) \cup IdsOf(r)
  BY <1>2, <1>3, <1>4 DEF IdsOf
<1>6. ASSUME Distinct(s), Distinct(r), IdsOf(s) \cap IdsOf(r) = {} PROVE Distinct(t)
  <2>1. \A i \in DOMAIN s, j \in DOMAIN r : s[i].id # r[j].id
    BY <1>6 DEF IdsOf
  <2> SUFFICES ASSUME NEW i \in DOMAIN t, NEW j \in DOMAIN t, t[i].id = t[j].id
               PROVE  i = j
    BY DEF Distinct
  <2>2. i \in Int /\ j \in Int
    BY <1>1
  <2> QED BY <1>0, <1>4, <1>6, <2>1, <2>2 DEF Distinct
<1> QED BY <1>1, <1>5, <1>6 DEF t

\* The datagrams that a flush hands to the loopback device.
Aged == [i \in DOMAIN Survivors |-> OneHopOlder(Survivors[i])]

\* They are packets of the queue with hops left, each once.
LEMMA AgedSurvivors ==
  ASSUME DeferredQueue \in Seq(Datagram)
  PROVE  /\ Aged \in Seq(Datagram)
         /\ IdsOf(Aged) = {DeferredQueue[i].id : i \in {j \in DOMAIN DeferredQueue :
                                                          Survives(DeferredQueue[j])}}
         /\ Distinct(DeferredQueue) => Distinct(Aged)
<1> DEFINE q == DeferredQueue
           I == {i \in DOMAIN q : Survives(q[i])}
           s == Survivors
<1>1. s = Selected(q, I)
  BY DEF Survivors
<1>2. s \in Seq(Datagram)
  BY <1>1, SelectedPositions
<1>3. PICK h \in [DOMAIN s -> I \cap DOMAIN q] :
        /\ \A a \in DOMAIN s : s[a] = q[h[a]]
        /\ \A a, b \in DOMAIN s : h[a] = h[b] => a = b
        /\ \A i \in I \cap DOMAIN q : \E a \in DOMAIN s : h[a] = i
  <2> HIDE DEF I, q, s
  <2>1. q \in Seq(Datagram)
    BY DEF q
  <2> QED BY <1>1, <2>1, SelectedPositions
<1> HIDE DEF s
<1>4. \A a \in DOMAIN s : /\ h[a] \in DOMAIN q /\ s[a] = q[h[a]]
                          /\ s[a] \in Datagram /\ s[a].ttl > 1
  BY <1>2, <1>3 DEF Survives
<1>5. Aged = [i \in DOMAIN s |-> OneHopOlder(s[i])]
  BY DEF Aged, s
<1>6. \A a \in DOMAIN s : Aged[a] \in Datagram /\ Aged[a].id = q[h[a]].id
  <2> SUFFICES ASSUME NEW a \in DOMAIN s
               PROVE  Aged[a] \in Datagram /\ Aged[a].id = q[h[a]].id
    OBVIOUS
  <2> DEFINE d == s[a]
  <2>1. d.ttl - 1 \in 1 .. MaxTtl
    <3>1. d.ttl \in 1 .. MaxTtl /\ d.ttl > 1
      BY <1>4 DEF Datagram
    <3> QED BY <3>1, ForwardingAssumption
  <2>2. Aged[a] = [d EXCEPT !.ttl = d.ttl - 1]
    BY <1>5 DEF OneHopOlder
  <2>3. d \in Datagram /\ d.id = q[h[a]].id
    BY <1>4
  <2> HIDE DEF d
  <2>4. Aged[a].id = d.id
    BY <2>2, <2>3 DEF Datagram
  <2>5. Aged[a] \in Datagram
    BY <2>1, <2>2, <2>3 DEF Datagram
  <2> QED BY <2>3, <2>4, <2>5
<1>7. DOMAIN s = 1 .. Len(s) /\ Len(s) \in Nat /\ DOMAIN Aged = DOMAIN s
  BY <1>2, <1>5
<1>8. Aged \in Seq(Datagram)
  <2>1. Aged = [i \in 1 .. Len(s) |-> Aged[i]]
    BY <1>5, <1>7
  <2>2. Aged \in [1 .. Len(s) -> Datagram]
    BY <1>6, <1>7, <2>1
  <2> QED BY <1>7, <2>2
<1>9. IdsOf(Aged) = {q[i].id : i \in I}
  <2>1. \A a \in DOMAIN Aged : h[a] \in I /\ Aged[a].id = q[h[a]].id
    BY <1>3, <1>6, <1>7
  <2>2. \A i \in I : \E a \in DOMAIN Aged : Aged[a].id = q[i].id
    <3> SUFFICES ASSUME NEW i \in I PROVE \E a \in DOMAIN Aged : Aged[a].id = q[i].id
      OBVIOUS
    <3>1. PICK a \in DOMAIN s : h[a] = i
      BY <1>3
    <3> QED BY <1>6, <1>7, <3>1
  <2> HIDE DEF I, q
  <2> QED BY <2>1, <2>2 DEF IdsOf
<1>10. Distinct(q) => Distinct(Aged)
  BY <1>3, <1>4, <1>6, <1>7 DEF Distinct
<1> QED BY <1>8, <1>9, <1>10

-----------------------------------------------------------------------------
\* The table has no route that RouteInput could re-forward a broadcast over,
\* whether or not the interface has gone and come back.
TableInv ==
  /\ m_socketAddress \subseteq {Self} /\ IsForwarding \in BOOLEAN
  /\ IsTable(m_routingTable)
  /\ DOMAIN m_routingTable \subseteq {Loopback, Broadcast[Self], Sink}
  /\ Broadcast[Self] \in DOMAIN m_routingTable =>
       m_routingTable[Broadcast[Self]].iface = Self

\* An entry for the node's interface keeps that.
LEMMA AddKeepsTable ==
  ASSUME NEW table, IsTable(table), DOMAIN table \subseteq {Loopback, Broadcast[Self], Sink},
         Broadcast[Self] \in DOMAIN table => table[Broadcast[Self]].iface = Self,
         NEW dst \in {Broadcast[Self], Sink}
  PROVE  LET t == AddRoute(table, NewEntry(dst, Self, dst)) IN
           /\ IsTable(t) /\ DOMAIN t \subseteq {Loopback, Broadcast[Self], Sink}
           /\ Broadcast[Self] \in DOMAIN t => t[Broadcast[Self]].iface = Self
<1> DEFINE e == NewEntry(dst, Self, dst)
           t == AddRoute(table, e)
<1>1. e \in RoutingTableEntry /\ e.dst = dst /\ e.iface = Self
  BY ForwardingAssumption, AddressAssumption DEF NewEntry, RoutingTableEntry, Flag
<1> HIDE DEF e
<1>2. /\ t = [a \in DOMAIN t |-> t[a]] /\ DOMAIN t = DOMAIN table \cup {dst}
      /\ \A a \in DOMAIN t : t[a] = IF a \in DOMAIN table THEN table[a] ELSE e
  BY <1>1 DEF AddRoute
<1>3. dst \in Address
  BY ForwardingAssumption, AddressAssumption
<1> HIDE DEF t
<1>4. IsTable(t)
  BY <1>1, <1>2, <1>3 DEF IsTable
<1>5. DOMAIN t \subseteq {Loopback, Broadcast[Self], Sink}
  BY <1>2
<1>6. Broadcast[Self] \in DOMAIN t => t[Broadcast[Self]].iface = Self
  BY <1>1, <1>2
<1> QED BY <1>4, <1>5, <1>6 DEF t, e

\* The table of the start.
LEMMA StartTableInv == Init => TableInv
<1> SUFFICES ASSUME Init PROVE TableInv
  OBVIOUS
<1> DEFINE e == [NewEntry(Loopback, NoIface, Loopback) EXCEPT !.flag = "INVALID"]
           t == AddRoute(EmptyTable, e)
<1>1. e \in RoutingTableEntry /\ e.dst = Loopback
  BY AddressAssumption DEF NewEntry, RoutingTableEntry, Flag
<1> HIDE DEF e
<1>2. t = [a \in {Loopback} |-> e]
  BY <1>1 DEF AddRoute, EmptyTable
<1> HIDE DEF t
<1>3. IsTable(t) /\ DOMAIN t = {Loopback} /\ Broadcast[Self] \notin DOMAIN t
  BY <1>1, <1>2, AddressAssumption, ForwardingAssumption DEF IsTable
<1>4. m_routingTable = AddRoute(t, NewEntry(Broadcast[Self], Self, Broadcast[Self]))
  BY DEF Init, StartTable, t, e
<1> QED BY <1>3, <1>4, AddKeepsTable DEF TableInv, Init

\* Every action keeps the table so.
LEMMA NextTableInv == TableInv /\ [Next]_vars => TableInv'
<1> SUFFICES ASSUME TableInv, [Next]_vars PROVE TableInv'
  OBVIOUS
<1>1. CASE UNCHANGED control
  BY <1>1 DEF TableInv, control
<1>2. CASE RouteAppears
  BY <1>2, AddKeepsTable DEF RouteAppears, TableInv
<1>3. CASE RouteGoes
  BY <1>3 DEF RouteGoes, TableInv, DeleteRoute, IsTable
<1>4. CASE InterfaceGoes
  <2>1. IsTable(EmptyTable) /\ DOMAIN EmptyTable = {}
    BY DEF IsTable, EmptyTable
  <2> QED BY <1>4, <2>1 DEF InterfaceGoes, TableInv, Clear
<1>5. CASE InterfaceComes
  BY <1>5, AddKeepsTable DEF InterfaceComes, TableInv
<1> QED BY <1>1, <1>2, <1>3, <1>4, <1>5 DEF Next, Engine, vars, RouteOutput, RouteInput,
      DeferredRouteInput, AutoDequeueNoDA, Tick

-----------------------------------------------------------------------------
Settlements(p) == sent[p] + delivered[p] + dropped[p]
InCustody == IdsOf(loopback) \cup IdsOf(DeferredQueue)

DataTypes ==
  /\ DeferredQueue \in Seq(Datagram) /\ loopback \in Seq(Datagram)
  /\ seen \subseteq Packet
  /\ sent \in [Packet -> Nat] /\ delivered \in [Packet -> Nat]
  /\ dropped \in [Packet -> Nat]

\* A packet the node was given waits once and is not settled, or has settled once.
OncePlaced ==
  /\ Distinct(loopback) /\ Distinct(DeferredQueue)
  /\ IdsOf(loopback) \cap IdsOf(DeferredQueue) = {}
  /\ InCustody \subseteq seen
  /\ \A p \in Packet :
       Settlements(p) = IF p \in seen /\ p \notin InCustody THEN 1 ELSE 0

DataInv == DataTypes /\ OncePlaced

\* One counter of one packet goes up.
SettlesOne(p) ==
  \/ Count(sent, p) /\ UNCHANGED <<delivered, dropped>>
  \/ Count(delivered, p) /\ UNCHANGED <<sent, dropped>>
  \/ Count(dropped, p) /\ UNCHANGED <<sent, delivered>>

Counters == <<sent, delivered, dropped>> \in
              [Packet -> Nat] \X [Packet -> Nat] \X [Packet -> Nat]

\* Then its settlements go up by one, and no others.
LEMMA SettleOne ==
  ASSUME Counters, NEW p \in Packet, SettlesOne(p)
  PROVE  /\ Counters'
         /\ \A q \in Packet : Settlements(q)' = Settlements(q) + (IF q = p THEN 1 ELSE 0)
<1> DEFINE Up(c) == [c EXCEPT ![p] = @ + 1]
<1>1. ASSUME NEW c \in [Packet -> Nat]
      PROVE  /\ Up(c) \in [Packet -> Nat]
             /\ \A q \in Packet : Up(c)[q] = c[q] + (IF q = p THEN 1 ELSE 0)
  OBVIOUS
<1>2. sent \in [Packet -> Nat] /\ delivered \in [Packet -> Nat] /\ dropped \in [Packet -> Nat]
  BY DEF Counters
<1>3. \/ sent' = Up(sent) /\ UNCHANGED <<delivered, dropped>>
      \/ delivered' = Up(delivered) /\ UNCHANGED <<sent, dropped>>
      \/ dropped' = Up(dropped) /\ UNCHANGED <<sent, delivered>>
  BY DEF SettlesOne, Count
<1> HIDE DEF Up
<1>4. sent' \in [Packet -> Nat] /\ delivered' \in [Packet -> Nat]
      /\ dropped' \in [Packet -> Nat]
  BY <1>1, <1>2, <1>3
<1>5. ASSUME NEW q \in Packet
      PROVE  Settlements(q)' = Settlements(q) + (IF q = p THEN 1 ELSE 0)
  <2>1. sent[q] \in Nat /\ delivered[q] \in Nat /\ dropped[q] \in Nat
    BY <1>2
  <2>2. CASE sent' = Up(sent) /\ UNCHANGED <<delivered, dropped>>
    <3>1. sent'[q] = sent[q] + (IF q = p THEN 1 ELSE 0)
      BY <1>1, <1>2, <2>2
    <3> QED BY <2>1, <2>2, <3>1 DEF Settlements
  <2>3. CASE delivered' = Up(delivered) /\ UNCHANGED <<sent, dropped>>
    <3>1. delivered'[q] = delivered[q] + (IF q = p THEN 1 ELSE 0)
      BY <1>1, <1>2, <2>3
    <3> QED BY <2>1, <2>3, <3>1 DEF Settlements
  <2>4. CASE dropped' = Up(dropped) /\ UNCHANGED <<sent, delivered>>
    <3>1. dropped'[q] = dropped[q] + (IF q = p THEN 1 ELSE 0)
      BY <1>1, <1>2, <2>4
    <3> QED BY <2>1, <2>4, <3>1 DEF Settlements
  <2> QED BY <1>3, <2>2, <2>3, <2>4
<1> QED BY <1>4, <1>5 DEF Counters

\* A new packet that settles at once.
LEMMA NewSettles ==
  ASSUME DataInv, NEW d \in Datagram, d.id \notin seen, seen' = seen \cup {d.id},
         SettlesOne(d.id), UNCHANGED <<DeferredQueue, loopback>>
  PROVE  DataInv'
<1>1. d.id \in Packet
  BY DEF Datagram
<1>2. Counters
  BY DEF Counters, DataInv, DataTypes
<1>3. Counters' /\ \A q \in Packet :
        Settlements(q)' = Settlements(q) + (IF q = d.id THEN 1 ELSE 0)
  BY <1>1, <1>2, SettleOne
<1>4. DataTypes'
  BY <1>1, <1>3 DEF DataInv, DataTypes, Counters
<1>5. InCustody' = InCustody /\ InCustody \subseteq seen'
  BY DEF InCustody, IdsOf, DataInv, OncePlaced
<1>6. \A p \in Packet : Settlements(p)' = IF p \in seen' /\ p \notin InCustody THEN 1 ELSE 0
  BY <1>3, <1>5 DEF DataInv, OncePlaced
<1>7. OncePlaced'
  BY <1>5, <1>6 DEF DataInv, OncePlaced, Distinct, IdsOf
<1> QED BY <1>4, <1>7 DEF DataInv

\* A new packet that joins the queue or the loopback device.
LEMMA NewWaits ==
  ASSUME DataInv, NEW d \in Datagram, d.id \notin seen, seen' = seen \cup {d.id},
         UNCHANGED fate,
         \/ loopback' = Append(loopback, d) /\ UNCHANGED DeferredQueue
         \/ DeferredQueue' = Append(DeferredQueue, d) /\ UNCHANGED loopback
  PROVE  DataInv'
<1>1. d.id \in Packet /\ d.id \notin InCustody
  BY DEF Datagram, DataInv, OncePlaced
<1>2. loopback \in Seq(Datagram) /\ DeferredQueue \in Seq(Datagram)
      /\ Distinct(loopback) /\ Distinct(DeferredQueue)
  BY DEF DataInv, DataTypes, OncePlaced
<1>3. /\ loopback' \in Seq(Datagram) /\ DeferredQueue' \in Seq(Datagram)
      /\ Distinct(loopback') /\ Distinct(DeferredQueue')
      /\ \/ IdsOf(loopback') = IdsOf(loopback) \cup {d.id}
            /\ IdsOf(DeferredQueue') = IdsOf(DeferredQueue)
         \/ IdsOf(loopback') = IdsOf(loopback)
            /\ IdsOf(DeferredQueue') = IdsOf(DeferredQueue) \cup {d.id}
  <2>1. d.id \notin IdsOf(loopback) /\ d.id \notin IdsOf(DeferredQueue)
    BY <1>1 DEF InCustody
  <2>2. CASE loopback' = Append(loopback, d) /\ UNCHANGED DeferredQueue
    <3>1. /\ loopback' \in Seq(Datagram) /\ Distinct(loopback')
          /\ IdsOf(loopback') = IdsOf(loopback) \cup {d.id}
      BY <1>2, <2>1, <2>2, AppendDistinct
    <3> QED BY <1>2, <2>2, <3>1
  <2>3. CASE DeferredQueue' = Append(DeferredQueue, d) /\ UNCHANGED loopback
    <3>1. /\ DeferredQueue' \in Seq(Datagram) /\ Distinct(DeferredQueue')
          /\ IdsOf(DeferredQueue') = IdsOf(DeferredQueue) \cup {d.id}
      BY <1>2, <2>1, <2>3, AppendDistinct
    <3> QED BY <1>2, <2>3, <3>1
  <2> QED BY <2>2, <2>3
<1>4. InCustody' = InCustody \cup {d.id}
      /\ IdsOf(loopback') \cap IdsOf(DeferredQueue') = {}
  BY <1>1, <1>3 DEF InCustody, DataInv, OncePlaced
<1>5. DataTypes'
  BY <1>1, <1>3 DEF DataInv, DataTypes, fate
<1>6. \A p \in Packet : Settlements(p)' = Settlements(p)
  BY DEF Settlements, fate
<1>7. \A p \in Packet : Settlements(p)' = IF p \in seen' /\ p \notin InCustody' THEN 1 ELSE 0
  BY <1>1, <1>4, <1>6 DEF DataInv, OncePlaced
<1>8. InCustody' \subseteq seen'
  BY <1>4 DEF DataInv, OncePlaced
<1>9. OncePlaced'
  BY <1>3, <1>4, <1>7, <1>8 DEF OncePlaced, Distinct, IdsOf
<1> QED BY <1>5, <1>9 DEF DataInv

\* A packet leaves the loopback device: it settles, or waits again.
LEMMA LoopbackKeeps ==
  ASSUME DataInv, loopback # <<>>, loopback' = Tail(loopback), UNCHANGED seen,
         NEW d, d = Head(loopback),
         \/ SettlesOne(d.id) /\ UNCHANGED DeferredQueue
         \/ DeferredQueue' = Append(DeferredQueue, d) /\ UNCHANGED fate
  PROVE  DataInv'
<1>1. /\ d \in Datagram /\ Tail(loopback) \in Seq(Datagram)
      /\ IdsOf(loopback) = IdsOf(Tail(loopback)) \cup {d.id}
      /\ Distinct(Tail(loopback)) /\ d.id \notin IdsOf(Tail(loopback))
  BY TailDistinct DEF DataInv, DataTypes, OncePlaced
<1>2. d.id \in Packet /\ d.id \in seen /\ d.id \in InCustody
      /\ d.id \notin IdsOf(DeferredQueue)
  BY <1>1 DEF Datagram, DataInv, OncePlaced, InCustody
<1>3. CASE SettlesOne(d.id) /\ UNCHANGED DeferredQueue
  <2>1. Counters' /\ \A q \in Packet :
          Settlements(q)' = Settlements(q) + (IF q = d.id THEN 1 ELSE 0)
    <3>1. Counters
      BY DEF Counters, DataInv, DataTypes
    <3> QED BY <1>2, <1>3, <3>1, SettleOne
  <2>2. DataTypes'
    BY <1>1, <1>3, <2>1 DEF DataInv, DataTypes, Counters
  <2>3. InCustody' = InCustody \ {d.id}
    BY <1>1, <1>2, <1>3 DEF InCustody
  <2>4. IdsOf(loopback') \cap IdsOf(DeferredQueue') = {}
    BY <1>1, <1>3 DEF DataInv, OncePlaced
  <2>5. \A p \in Packet : Settlements(p)' = IF p \in seen' /\ p \notin InCustody' THEN 1 ELSE 0
    BY <1>2, <2>1, <2>3 DEF DataInv, OncePlaced
  <2>6. Distinct(loopback') /\ Distinct(DeferredQueue') /\ InCustody' \subseteq seen'
    BY <1>1, <1>3, <2>3 DEF DataInv, OncePlaced
  <2>7. OncePlaced'
    BY <2>4, <2>5, <2>6 DEF OncePlaced, Distinct, IdsOf
  <2> QED BY <2>2, <2>7 DEF DataInv
<1>4. CASE DeferredQueue' = Append(DeferredQueue, d) /\ UNCHANGED fate
  <2>1. /\ DeferredQueue' \in Seq(Datagram) /\ Distinct(DeferredQueue')
        /\ IdsOf(DeferredQueue') = IdsOf(DeferredQueue) \cup {d.id}
    BY <1>1, <1>2, <1>4, AppendDistinct DEF DataInv, DataTypes, OncePlaced
  <2>2. DataTypes'
    BY <1>1, <1>4, <2>1 DEF DataInv, DataTypes, fate
  <2>3. InCustody' = InCustody
    BY <1>1, <1>2, <2>1 DEF InCustody
  <2>4. IdsOf(loopback') \cap IdsOf(DeferredQueue') = {}
    BY <1>1, <2>1 DEF DataInv, OncePlaced
  <2>5. \A p \in Packet : Settlements(p)' = Settlements(p)
    BY <1>4 DEF Settlements, fate
  <2>6. \A p \in Packet : Settlements(p)' = IF p \in seen' /\ p \notin InCustody' THEN 1 ELSE 0
    BY <2>3, <2>5 DEF DataInv, OncePlaced
  <2>7. Distinct(loopback') /\ InCustody' \subseteq seen'
    BY <1>1, <2>3 DEF DataInv, OncePlaced
  <2>8. OncePlaced'
    BY <2>1, <2>4, <2>6, <2>7 DEF OncePlaced, Distinct, IdsOf
  <2> QED BY <2>2, <2>8 DEF DataInv
<1> QED BY <1>3, <1>4

\* A flush: what survives goes back into the loopback device, the rest is dropped.
LEMMA FlushKeeps ==
  ASSUME DataInv, AutoDequeueNoDA
  PROVE  DataInv' /\ \A p \in Packet : dropped'[p] >= dropped[p]
<1> DEFINE q == DeferredQueue
           Dead(p) == {i \in DOMAIN q : q[i].id = p /\ ~Survives(q[i])}
           alive == {i \in DOMAIN q : Survives(q[i])}
<1>1. /\ q \in Seq(Datagram) /\ Distinct(q) /\ loopback \in Seq(Datagram)
      /\ Distinct(loopback) /\ IdsOf(loopback) \cap IdsOf(q) = {}
  BY DEF DataInv, DataTypes, OncePlaced
<1>2. /\ loopback' = loopback \o Aged /\ DeferredQueue' = <<>>
      /\ dropped' = [p \in Packet |-> dropped[p] + Cardinality(Dead(p))]
      /\ UNCHANGED <<seen, sent, delivered>>
  BY DEF AutoDequeueNoDA, Aged
<1>3. Aged \in Seq(Datagram) /\ Distinct(Aged) /\ IdsOf(Aged) = {q[i].id : i \in alive}
  BY <1>1, AgedSurvivors
<1> HIDE DEF q
<1>4. \A p \in Packet : Cardinality(Dead(p)) = IF p \in IdsOf(q) \ IdsOf(Aged) THEN 1 ELSE 0
  <2> SUFFICES ASSUME NEW p \in Packet
               PROVE  Cardinality(Dead(p)) = IF p \in IdsOf(q) \ IdsOf(Aged) THEN 1 ELSE 0
    OBVIOUS
  <2>1. CASE p \in IdsOf(q) \ IdsOf(Aged)
    <3>1. PICK i \in DOMAIN q : q[i].id = p
      BY <2>1 DEF IdsOf
    <3>2. ~Survives(q[i])
      BY <1>3, <2>1, <3>1
    <3>3. Dead(p) = {i}
      BY <1>1, <3>1, <3>2 DEF Distinct
    <3> QED BY <2>1, <3>3, FS_Singleton
  <2>2. CASE p \notin IdsOf(q) \ IdsOf(Aged)
    <3>1. ASSUME NEW i \in Dead(p) PROVE FALSE
      <4>1. i \in DOMAIN q /\ q[i].id = p /\ ~Survives(q[i])
        OBVIOUS
      <4>2. p \in IdsOf(Aged)
        BY <2>2, <4>1 DEF IdsOf
      <4>3. PICK j \in alive : q[j].id = p
        BY <1>3, <4>2
      <4> QED BY <1>1, <4>1, <4>3 DEF Distinct
    <3>2. Dead(p) = {}
      BY <3>1
    <3> QED BY <2>2, <3>2, FS_EmptySet
  <2> QED BY <2>1, <2>2
<1>5. IdsOf(Aged) \subseteq IdsOf(q)
  BY <1>3 DEF IdsOf
<1>6. /\ loopback' \in Seq(Datagram) /\ Distinct(loopback')
      /\ IdsOf(loopback') = IdsOf(loopback) \cup IdsOf(Aged)
  <2>1. IdsOf(loopback) \cap IdsOf(Aged) = {}
    BY <1>1, <1>5
  <2> QED BY <1>1, <1>2, <1>3, <2>1, ConcatDistinct
<1>7. DeferredQueue' \in Seq(Datagram) /\ Distinct(DeferredQueue') /\ IdsOf(DeferredQueue') = {}
  BY <1>2 DEF Distinct, IdsOf
<1>8. InCustody' = IdsOf(loopback) \cup IdsOf(Aged) /\ InCustody = IdsOf(loopback) \cup IdsOf(q)
  BY <1>6, <1>7 DEF InCustody, q
<1> HIDE DEF Dead, alive
<1>9. \A p \in Packet : dropped'[p] = dropped[p] + (IF p \in IdsOf(q) \ IdsOf(Aged) THEN 1 ELSE 0)
  BY <1>2, <1>4
<1>10. /\ sent \in [Packet -> Nat] /\ delivered \in [Packet -> Nat]
       /\ dropped \in [Packet -> Nat] /\ seen \subseteq Packet /\ InCustody \subseteq seen
       /\ \A p \in Packet : Settlements(p) = IF p \in seen /\ p \notin InCustody THEN 1 ELSE 0
  BY DEF DataInv, DataTypes, OncePlaced
<1>11. dropped' \in [Packet -> Nat]
  <2>1. \A p \in Packet : dropped[p] + Cardinality(Dead(p)) \in Nat
    BY <1>4, <1>10
  <2> QED BY <1>2, <2>1
<1>12. DataTypes'
  BY <1>2, <1>6, <1>7, <1>10, <1>11 DEF DataTypes
<1>13. \A p \in Packet : Settlements(p)' = Settlements(p)
                           + (IF p \in IdsOf(q) \ IdsOf(Aged) THEN 1 ELSE 0)
  <2> SUFFICES ASSUME NEW p \in Packet
               PROVE  Settlements(p)' = Settlements(p)
                        + (IF p \in IdsOf(q) \ IdsOf(Aged) THEN 1 ELSE 0)
    OBVIOUS
  <2>1. sent[p] \in Nat /\ delivered[p] \in Nat /\ dropped[p] \in Nat
    BY <1>10
  <2> QED BY <1>2, <1>9, <2>1 DEF Settlements
<1>14. \A p \in Packet : Settlements(p)' = IF p \in seen' /\ p \notin InCustody' THEN 1 ELSE 0
  <2> SUFFICES ASSUME NEW p \in Packet
               PROVE  Settlements(p)' = IF p \in seen' /\ p \notin InCustody' THEN 1 ELSE 0
    OBVIOUS
  <2>1. p \in IdsOf(q) => p \notin IdsOf(loopback) /\ p \in seen
    BY <1>1, <1>8, <1>10
  <2>2. CASE p \in IdsOf(q) \ IdsOf(Aged)
    BY <1>2, <1>8, <1>10, <1>13, <2>1, <2>2
  <2>3. CASE p \notin IdsOf(q) \ IdsOf(Aged)
    BY <1>2, <1>5, <1>8, <1>10, <1>13, <2>3
  <2> QED BY <2>2, <2>3
<1>15. InCustody' \subseteq seen' /\ IdsOf(loopback') \cap IdsOf(DeferredQueue') = {}
  BY <1>2, <1>5, <1>7, <1>8, <1>10
<1>16. OncePlaced'
  BY <1>6, <1>7, <1>14, <1>15 DEF OncePlaced, Distinct, IdsOf
<1>17. \A p \in Packet : dropped'[p] >= dropped[p]
  BY <1>9, <1>10
<1> QED BY <1>12, <1>16, <1>17 DEF DataInv

-----------------------------------------------------------------------------
\* No route leads RouteInput to re-forward a broadcast, which is delivered only.
LEMMA BroadcastStays ==
  ASSUME TableInv, NEW dst \in {Broadcast[Self], AllOnes}
  PROVE  ~LookupForRouteInput(m_routingTable, dst)
  BY ForwardingAssumption DEF TableInv, LookupForRouteInput

\* IpForward sends or drops.
LEMMA ForwardSettles ==
  ASSUME NEW d, Forward(d)
  PROVE  SettlesOne(d.id)
  BY DEF Forward, SettlesOne

\* What is received without coming to the queue is settled.
LEMMA ArrivesSettles ==
  ASSUME TableInv, NEW d, Arrives(d)
  PROVE  SettlesOne(d.id)
  BY BroadcastStays, ForwardSettles DEF Arrives, SettlesOne

\* Every action keeps the data invariant.
LEMMA NextDataInv == TableInv /\ DataInv /\ [Next]_vars => DataInv'
<1> SUFFICES ASSUME TableInv, DataInv, [Next]_vars PROVE DataInv'
  OBVIOUS
<1>1. CASE UNCHANGED <<DeferredQueue, loopback, seen, fate>>
  <2>1. DataTypes'
    BY <1>1 DEF DataInv, DataTypes, fate
  <2>2. InCustody' = InCustody /\ \A p \in Packet : Settlements(p)' = Settlements(p)
    BY <1>1 DEF InCustody, IdsOf, Settlements, fate
  <2>3. OncePlaced'
    BY <1>1, <2>2 DEF DataInv, OncePlaced, Distinct, IdsOf
  <2> QED BY <2>1, <2>3 DEF DataInv
<1>2. ASSUME NEW d \in Datagram, RouteOutput(d) PROVE DataInv'
  <2>1. d.id \notin seen /\ seen' = seen \cup {d.id} /\ UNCHANGED <<DeferredQueue, delivered>>
    BY <1>2 DEF RouteOutput
  <2>2. \/ SettlesOne(d.id) /\ UNCHANGED loopback
        \/ loopback' = Append(loopback, d) /\ UNCHANGED fate
    BY <1>2 DEF RouteOutput, SettlesOne, fate
  <2>3. CASE SettlesOne(d.id) /\ UNCHANGED loopback
    BY <2>1, <2>3, NewSettles
  <2>4. CASE loopback' = Append(loopback, d) /\ UNCHANGED fate
    BY <2>1, <2>4, NewWaits
  <2> QED BY <2>2, <2>3, <2>4
<1>3. ASSUME NEW d \in Datagram, RouteInput(d) PROVE DataInv'
  <2>1. d.id \notin seen /\ seen' = seen \cup {d.id} /\ UNCHANGED loopback
    BY <1>3 DEF RouteInput
  <2>2. \/ SettlesOne(d.id) /\ UNCHANGED DeferredQueue
        \/ EnqueueForNoDA(d) /\ UNCHANGED fate
    BY <1>3, ArrivesSettles DEF RouteInput, NoLeachInterface, SettlesOne
  <2>3. CASE SettlesOne(d.id) /\ UNCHANGED DeferredQueue
    BY <2>1, <2>3, NewSettles
  <2>4. CASE EnqueueForNoDA(d) /\ UNCHANGED fate
    BY <2>1, <2>4, NewWaits DEF EnqueueForNoDA
  <2> QED BY <2>2, <2>3, <2>4
<1>4. CASE DeferredRouteInput
  <2>1. loopback # <<>> /\ loopback' = Tail(loopback) /\ UNCHANGED seen
    BY <1>4 DEF DeferredRouteInput
  <2>2. PICK d : d = Head(loopback)
    OBVIOUS
  <2>3. \/ Forward(d) /\ UNCHANGED DeferredQueue
        \/ SettlesOne(d.id) /\ UNCHANGED DeferredQueue
        \/ DeferredQueue' = Append(DeferredQueue, d) /\ UNCHANGED fate
    <3>1. NoLeachInterface(d) => SettlesOne(d.id) /\ UNCHANGED DeferredQueue
      BY DEF NoLeachInterface, SettlesOne
    <3>2. \/ NoLeachInterface(d)
          \/ Forward(d) /\ UNCHANGED DeferredQueue
          \/ DeferredQueue' = Append(DeferredQueue, d) /\ UNCHANGED fate
      BY <1>4, <2>2 DEF DeferredRouteInput, EnqueueForNoDA, NoLeachInterface, Forward, Count
    <3> QED BY <3>1, <3>2
  <2> QED BY <2>1, <2>2, <2>3, ForwardSettles, LoopbackKeeps
<1>5. CASE AutoDequeueNoDA
  BY <1>5, FlushKeeps
<1>6. CASE Tick \/ RouteAppears \/ RouteGoes \/ InterfaceGoes \/ InterfaceComes \/ UNCHANGED vars
  BY <1>1, <1>6 DEF Tick, RouteAppears, RouteGoes, InterfaceGoes, InterfaceComes, vars
<1> QED BY <1>2, <1>3, <1>4, <1>5, <1>6 DEF Next, Engine

\* Nothing waits and nothing has settled before the first packet.
LEMMA InitDataInv == Init => DataInv
  BY DEF Init, DataInv, DataTypes, OncePlaced, Distinct, IdsOf, InCustody, Settlements

-----------------------------------------------------------------------------
\* No packet waits without an event that will look at it again, for any packets,
\* any TTL and any delay.
THEOREM NothingStranded == Spec => []NoneStranded
<1>1. Init => IInv
  BY DEF Init, IInv, InOrder
<1>2. IInv => NoneStranded
  BY DEF IInv, NoneStranded
<1> QED BY <1>1, <1>2, NextIInv, PTL DEF Spec

\* Every variable keeps its type, and all flushes are at most FlushDelay away.
THEOREM TypesKept == Spec => []TypeOK
<1>1. Init => IInv /\ TableInv /\ DataInv
  BY StartTableInv, InitDataInv DEF Init, IInv, InOrder
<1>2. IInv /\ TableInv /\ DataInv => TypeOK
  BY DEF IInv, TableInv, DataInv, DataTypes, TypeOK
<1> QED BY <1>1, <1>2, NextIInv, NextTableInv, NextDataInv, PTL DEF Spec

\* A packet given to the node is in exactly one place, for any packets and TTL
\* and however queue, flushes, loopback and routes interleave.
THEOREM PacketsConserved == Spec => []Conservation
<1>1. Init => TableInv /\ DataInv
  BY StartTableInv, InitDataInv
<1>2. DataInv => Conservation
  <2> SUFFICES ASSUME DataInv, NEW p \in Packet
               PROVE  Copies(p) = IF p \in seen THEN 1 ELSE 0
    BY DEF Conservation
  <2> DEFINE w == loopback \o DeferredQueue
             at == {i \in DOMAIN w : w[i].id = p}
  <2>1. IdsOf(w) = InCustody /\ Distinct(w)
    BY ConcatDistinct DEF DataInv, DataTypes, OncePlaced, InCustody
  <2> HIDE DEF w
  <2>2. Cardinality(at) = IF p \in InCustody THEN 1 ELSE 0
    <3>1. CASE p \in InCustody
      <4>1. PICK i \in DOMAIN w : w[i].id = p
        BY <2>1, <3>1 DEF IdsOf
      <4>2. at = {i}
        BY <2>1, <4>1 DEF Distinct
      <4> QED BY <3>1, <4>2, FS_Singleton
    <3>2. CASE p \notin InCustody
      <4>1. at = {}
        BY <2>1, <3>2 DEF IdsOf
      <4> QED BY <3>2, <4>1, FS_EmptySet
    <3> QED BY <3>1, <3>2
  <2>3. Settlements(p) = IF p \in seen /\ p \notin InCustody THEN 1 ELSE 0
    BY DEF DataInv, OncePlaced
  <2>4. InCustody \subseteq seen
    BY DEF DataInv, OncePlaced
  <2>5. Copies(p) = Cardinality(at) + sent[p] + delivered[p] + dropped[p]
    BY DEF Copies, Waiting, w
  <2>6. Copies(p) = Cardinality(at) + Settlements(p)
    <3>1. sent[p] \in Nat /\ delivered[p] \in Nat /\ dropped[p] \in Nat
      BY DEF DataInv, DataTypes
    <3> QED BY <2>2, <2>5, <3>1 DEF Settlements
  <2> QED BY <2>2, <2>3, <2>4, <2>6
<1> QED BY <1>1, <1>2, NextTableInv, NextDataInv, PTL DEF Spec

-----------------------------------------------------------------------------
held == {Waiting[i].id : i \in DOMAIN Waiting}
settled == {p \in Packet : Settled(p)}

HeldOrSettled ==
  held \cup settled = seen /\ held \cap settled = {} /\ seen \subseteq Packet

\* What the node was given it either holds or has settled.
LEMMA HeldAndSettled == DataInv => HeldOrSettled
<1> SUFFICES ASSUME DataInv PROVE HeldOrSettled
  OBVIOUS
<1>1. held = InCustody
  BY ConcatDistinct DEF held, Waiting, IdsOf, DataInv, DataTypes, InCustody
<1>2. InCustody \subseteq seen /\ seen \subseteq Packet
  BY DEF DataInv, DataTypes, OncePlaced
<1>3. \A p \in Packet : Settled(p) <=> p \in seen /\ p \notin InCustody
  BY DEF DataInv, OncePlaced, Settled, Settlements
<1>4. settled = seen \ InCustody
  BY <1>2, <1>3 DEF settled
<1> QED BY <1>1, <1>2, <1>4 DEF HeldOrSettled

\* No action takes a settlement back, nor forgets a packet it was given.
LEMMA SettledStays ==
  ASSUME TableInv, DataInv, [Next]_vars
  PROVE  seen \subseteq seen' /\ settled \subseteq settled'
<1>0. DataInv'
  BY NextDataInv
<1>1. seen \subseteq seen'
  BY DEF Next, Engine, vars, RouteOutput, RouteInput, DeferredRouteInput,
         AutoDequeueNoDA, RouteAppears, RouteGoes, InterfaceGoes, InterfaceComes, Tick
<1>2. \A p \in Packet : /\ sent'[p] >= sent[p] /\ delivered'[p] >= delivered[p]
                        /\ dropped'[p] >= dropped[p]
  <2>0. \A p \in Packet : sent[p] \in Nat /\ delivered[p] \in Nat /\ dropped[p] \in Nat
    BY DEF DataInv, DataTypes
  <2>1. sent \in [Packet -> Nat] /\ delivered \in [Packet -> Nat]
        /\ dropped \in [Packet -> Nat]
    BY DEF DataInv, DataTypes
  <2>2. ASSUME NEW c \in [Packet -> Nat], NEW q
        PROVE  \A p \in Packet : [c EXCEPT ![q] = @ + 1][p] >= c[p]
    OBVIOUS
  <2>3. CASE AutoDequeueNoDA
    <3>1. UNCHANGED <<sent, delivered>>
      BY <2>3 DEF AutoDequeueNoDA
    <3>2. \A p \in Packet : dropped'[p] >= dropped[p]
      BY <2>3, FlushKeeps
    <3> QED BY <2>0, <3>1, <3>2
  <2>4. CASE DeferredRouteInput
    BY <2>0, <2>1, <2>2, <2>4 DEF DeferredRouteInput, NoLeachInterface, Forward, Count, fate
  <2>5. ASSUME NEW d \in Datagram, RouteInput(d)
        PROVE  \A p \in Packet : /\ sent'[p] >= sent[p] /\ delivered'[p] >= delivered[p]
                                 /\ dropped'[p] >= dropped[p]
    <3>1. CASE Arrives(d)
      BY <2>0, <2>1, <2>2, <3>1 DEF Arrives, Forward, Count
    <3>2. CASE NoLeachInterface(d) \/ UNCHANGED fate
      BY <2>0, <2>1, <2>2, <3>2 DEF NoLeachInterface, Count, fate
    <3> QED BY <2>5, <3>1, <3>2 DEF RouteInput
  <2>6. ASSUME NEW d \in Datagram, RouteOutput(d)
        PROVE  \A p \in Packet : /\ sent'[p] >= sent[p] /\ delivered'[p] >= delivered[p]
                                 /\ dropped'[p] >= dropped[p]
    BY <2>0, <2>1, <2>2, <2>6 DEF RouteOutput, Count
  <2>7. CASE Tick \/ RouteAppears \/ RouteGoes \/ InterfaceGoes \/ InterfaceComes \/ UNCHANGED vars
    BY <2>0, <2>7 DEF Tick, RouteAppears, RouteGoes, InterfaceGoes, InterfaceComes, vars, fate
  <2> QED BY <2>3, <2>4, <2>5, <2>6, <2>7 DEF Next, Engine
<1>3. ASSUME NEW p \in Packet, Settled(p) PROVE Settled(p)'
  <2>1. /\ sent[p] \in Nat /\ delivered[p] \in Nat /\ dropped[p] \in Nat
        /\ sent'[p] \in Nat /\ delivered'[p] \in Nat /\ dropped'[p] \in Nat
    BY <1>0 DEF DataInv, DataTypes
  <2> QED BY <1>2, <1>3, <2>1 DEF Settled
<1> QED BY <1>1, <1>3 DEF settled

\* The data plane keeps PacketCustody: a packet waits until it settles, and a
\* settled one never comes back, for any packets, TTL and delay.
THEOREM CustodyImplemented == Spec => KeepsCustody
<1>1. Init => TableInv /\ DataInv
  BY StartTableInv, InitDataInv
<1>2. Init => Custody!Init
  <2> SUFFICES ASSUME Init PROVE held = {} /\ settled = {}
    BY DEF Custody!Init, held, settled
  <2> QED BY HeldAndSettled, InitDataInv DEF Init, HeldOrSettled
<1>3. TableInv /\ DataInv /\ [Next]_vars => [Custody!Next]_(Custody!vars)
  <2> SUFFICES ASSUME TableInv, DataInv, [Next]_vars
               PROVE  /\ held \cup settled \subseteq held' \cup settled'
                      /\ settled \subseteq settled'
                      /\ held' \cap settled' = {}
                      /\ held' \cup settled' \subseteq Packet
    BY DEF Custody!Next, Custody!vars, held, settled
  <2>1. DataInv'
    BY NextDataInv
  <2>2. held' \cup settled' = seen' /\ held' \cap settled' = {} /\ seen' \subseteq Packet
    <3>1. HeldOrSettled'
      BY <2>1, HeldAndSettled, PTL
    <3> QED BY <3>1 DEF HeldOrSettled
  <2> QED BY <2>2, HeldAndSettled, SettledStays DEF HeldOrSettled
<1> QED BY <1>1, <1>2, <1>3, NextTableInv, NextDataInv, PTL
        DEF Spec, KeepsCustody, Custody!Spec

=============================================================================
