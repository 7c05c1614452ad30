-------------------------- MODULE LeachForwarding --------------------------
(***************************************************************************)
(* The data plane of one node, as leach::RoutingProtocol is built by       *)
(* default (without DA): RouteOutput for the node's own packets, RouteInput *)
(* for packets from the radio and for those that come back over the        *)
(* loopback device, and the queue in which packets without a route wait.   *)
(*                                                                         *)
(* A packet without a route is handed to the loopback device, comes back   *)
(* through RouteInput, waits in DeferredQueue for AutoDequeueNoDA and goes *)
(* round again, one hop of its TTL poorer each time.  Ipv4L3Protocol is    *)
(* external: Forward is its IpForward.                                     *)
(***************************************************************************)
EXTENDS LeachRoutingTable, Subsequences, FiniteSets

CONSTANTS
  Packet,        \* the packets of a run
  Self,          \* m_mainAddress, which also names the node's interface
  Peer,          \* another node, the origin of packets from the radio
  Sink,          \* m_sinkAddress
  AllOnes,       \* 255.255.255.255
  Multicast,     \* a multicast address
  MaxTtl,        \* the TTL of a new packet (64)
  FlushDelay     \* 100 ms between EnqueueForNoDA and AutoDequeueNoDA

ASSUME ForwardingAssumption ==
  /\ {Self, Peer, Sink, AllOnes, Multicast} \subseteq Address
  /\ Self \in Iface
  /\ Broadcast[Self] # Loopback /\ AllOnes \notin {Loopback, Sink}
  /\ MaxTtl \in Nat \ {0} /\ FlushDelay \in Nat \ {0}

VARIABLES
  m_routingTable,
  m_socketAddress, \* the interfaces that listen: the node's own, or none
  IsForwarding,    \* whether IP forwarding is on at that interface
  DeferredQueue,   \* datagrams that wait for a route
  flushes,         \* countdowns of the scheduled AutoDequeueNoDA events
  loopback,        \* datagrams inside the loopback device
  seen,            \* packets the node has been given
  sent,            \* how often each packet went out to the radio
  delivered,       \* how often each packet was delivered locally
  dropped          \* how often each packet was discarded

control == <<m_routingTable, m_socketAddress, IsForwarding>>
fate == <<sent, delivered, dropped>>
vars == <<control, DeferredQueue, flushes, loopback, seen, fate>>

\* LEACH networks carry packets to the sink, to the node and to everybody.
Destination == {Self, Sink, Broadcast[Self], AllOnes, Multicast}
Datagram == [id : Packet, src : {Self, Peer}, dst : Destination, ttl : 1 .. MaxTtl]

\* The table of a node with one interface, before any route to the sink.
StartTable ==
  AddRoute(AddRoute(EmptyTable,
                    [NewEntry(Loopback, NoIface, Loopback) EXCEPT !.flag = "INVALID"]),
           NewEntry(Broadcast[Self], Self, Broadcast[Self]))

Init ==
  /\ m_routingTable = StartTable
  /\ m_socketAddress = {Self}
  /\ IsForwarding \in BOOLEAN
  /\ DeferredQueue = <<>>
  /\ flushes = <<>>
  /\ loopback = <<>>
  /\ seen = {}
  /\ sent = [p \in Packet |-> 0]
  /\ delivered = [p \in Packet |-> 0]
  /\ dropped = [p \in Packet |-> 0]

Count(counter, p) == counter' = [counter EXCEPT ![p] = @ + 1]

\* Mutant: a TTL of two counted as the last hop.
ForwardTooStrict(d) ==
  IF d.ttl <= 2 THEN Count(dropped, d.id) /\ UNCHANGED <<sent, delivered>>
  ELSE Count(sent, d.id) /\ UNCHANGED <<dropped, delivered>>

\* Ipv4L3Protocol::IpForward through a real device, and through loopback.
Forward(d) ==
  IF d.ttl = 1 THEN Count(dropped, d.id) /\ UNCHANGED <<sent, delivered>>
  ELSE Count(sent, d.id) /\ UNCHANGED <<dropped, delivered>>

\* Mutant: one hop too many.
SurvivesAtOne(d) == d.ttl >= 1
Survives(d) == d.ttl > 1
Survivors ==
  Selected(DeferredQueue, {i \in DOMAIN DeferredQueue : Survives(DeferredQueue[i])})

\* Mutant: the hop through loopback is not counted.
NeverOlder(d) == d
OneHopOlder(d) == [d EXCEPT !.ttl = d.ttl - 1]

\* Mutant: the event is scheduled for every packet but the first.
EnqueueBehindOthers(d) ==
  /\ DeferredQueue' = Append(DeferredQueue, d)
  /\ flushes' = IF DeferredQueue = <<>> THEN flushes ELSE Append(flushes, FlushDelay)

EnqueueForNoDA(d) ==
  /\ DeferredQueue' = Append(DeferredQueue, d)
  /\ flushes' = Append(flushes, FlushDelay)

-----------------------------------------------------------------------------
\* Mutant: LoopbackRoute is taken for every packet.
RouteOutputByBoth(d) ==
  /\ d.id \notin seen
  /\ d.src = Self /\ d.dst \in {Sink, Self} /\ d.ttl = MaxTtl
  /\ seen' = seen \cup {d.id}
  /\ IF LookupRoute(m_routingTable, d.dst) THEN Count(sent, d.id) ELSE UNCHANGED sent
  /\ loopback' = Append(loopback, d)
  /\ UNCHANGED <<control, DeferredQueue, flushes, delivered, dropped>>

\* An application of the node sends a packet.  Without an interface there is no
\* route for it; with a route it leaves at once; otherwise LoopbackRoute sends
\* it into the loopback device.
RouteOutput(d) ==
  /\ d.id \notin seen
  /\ d.src = Self /\ d.dst \in {Sink, Self} /\ d.ttl = MaxTtl
  /\ seen' = seen \cup {d.id}
  /\ \/ /\ m_socketAddress = {}
        /\ Count(dropped, d.id)
        /\ UNCHANGED <<sent, loopback>>
     \/ /\ m_socketAddress # {} /\ LookupRoute(m_routingTable, d.dst)
        /\ Count(sent, d.id)
        /\ UNCHANGED <<dropped, loopback>>
     \/ /\ m_socketAddress # {} /\ ~LookupRoute(m_routingTable, d.dst)
        /\ loopback' = Append(loopback, d)
        /\ UNCHANGED <<sent, dropped>>
  /\ UNCHANGED <<control, DeferredQueue, flushes, delivered>>

\* RouteInput has no interface to route for: the IP layer drops the packet.
NoLeachInterface(d) ==
  /\ m_socketAddress = {}
  /\ Count(dropped, d.id)
  /\ UNCHANGED <<sent, delivered, DeferredQueue, flushes>>

\* RouteInput from the loopback device: one more look for a route.
DeferredRouteInput ==
  /\ loopback # <<>>
  /\ loopback' = Tail(loopback)
  /\ LET d == Head(loopback) IN
       \/ NoLeachInterface(d)
       \/ /\ m_socketAddress # {}
          /\ IF LookupRoute(m_routingTable, d.dst)
             THEN Forward(d) /\ UNCHANGED <<DeferredQueue, flushes>>
             ELSE EnqueueForNoDA(d) /\ UNCHANGED fate
  /\ UNCHANGED <<control, seen>>

\* RouteInput needs a route to the destination and one to its next hop.
Forwardable(dst) ==
  /\ LookupRoute(m_routingTable, dst)
  /\ LookupRoute(m_routingTable, m_routingTable[dst].nextHop)

\* Received from the radio, where the packet does not come to the queue.
Arrives(d) ==
  \/ /\ d.dst = Multicast
     /\ Count(dropped, d.id)
     /\ UNCHANGED <<sent, delivered>>
  \/ /\ d.dst # Multicast /\ d.src = Self
     /\ Count(dropped, d.id)
     /\ UNCHANGED <<sent, delivered>>
  \/ /\ d.src # Self /\ d.dst \in {Broadcast[Self], AllOnes}
     /\ Count(delivered, d.id)
     /\ IF d.ttl > 1 /\ LookupForRouteInput(m_routingTable, d.dst)
        THEN Count(sent, d.id) ELSE UNCHANGED sent
     /\ UNCHANGED dropped
  \/ /\ d.src # Self /\ d.dst = Self
     /\ Count(delivered, d.id)
     /\ UNCHANGED <<sent, dropped>>
  \/ /\ d.src # Self /\ d.dst = Sink /\ ~IsForwarding
     /\ Count(dropped, d.id)
     /\ UNCHANGED <<sent, delivered>>
  \/ /\ d.src # Self /\ d.dst = Sink /\ IsForwarding /\ Forwardable(d.dst)
     /\ Forward(d)

\* RouteInput from the radio, by its early returns.
RouteInput(d) ==
  /\ d.id \notin seen
  /\ seen' = seen \cup {d.id}
  /\ \/ NoLeachInterface(d)
     \/ /\ m_socketAddress # {}
        /\ Arrives(d)
        /\ UNCHANGED <<DeferredQueue, flushes>>
     \/ /\ m_socketAddress # {}
        /\ d.src # Self /\ d.dst = Sink /\ IsForwarding /\ ~Forwardable(d.dst)
        /\ EnqueueForNoDA(d)
        /\ UNCHANGED fate
  /\ UNCHANGED <<control, loopback>>

\* Mutant: the queue is read and not emptied.
AutoDequeueKeepingNoDA ==
  /\ flushes # <<>> /\ Head(flushes) = 0
  /\ flushes' = Tail(flushes)
  /\ loopback' = loopback \o [i \in DOMAIN Survivors |-> OneHopOlder(Survivors[i])]
  /\ UNCHANGED <<control, DeferredQueue, seen, fate>>

\* Every waiting packet goes back through loopback, or dies of its TTL.
AutoDequeueNoDA ==
  /\ flushes # <<>> /\ Head(flushes) = 0
  /\ flushes' = Tail(flushes)
  /\ loopback' = loopback \o [i \in DOMAIN Survivors |-> OneHopOlder(Survivors[i])]
  /\ dropped' = [p \in Packet |-> dropped[p] +
       Cardinality({i \in DOMAIN DeferredQueue :
                      DeferredQueue[i].id = p /\ ~Survives(DeferredQueue[i])})]
  /\ DeferredQueue' = <<>>
  /\ UNCHANGED <<control, seen, sent, delivered>>

\* The control plane: SendBroadcast of a head adds the route to the sink and
\* the next PeriodicUpdate deletes it (module LeachCluster).  A head needs its
\* socket to advertise.
RouteAppears ==
  /\ m_socketAddress # {} /\ ~LookupRoute(m_routingTable, Sink)
  /\ m_routingTable' = AddRoute(m_routingTable, NewEntry(Sink, Self, Sink))
  /\ UNCHANGED <<m_socketAddress, IsForwarding, DeferredQueue, flushes, loopback, seen, fate>>

RouteGoes ==
  /\ LookupRoute(m_routingTable, Sink)
  /\ m_routingTable' = DeleteRoute(m_routingTable, Sink)
  /\ UNCHANGED <<m_socketAddress, IsForwarding, DeferredQueue, flushes, loopback, seen, fate>>

\* The only interface goes (module LeachInterfaces): NotifyInterfaceDown clears
\* the table with it, NotifyRemoveAddress leaves the table as it is.
InterfaceGoes ==
  /\ m_socketAddress # {}
  /\ m_socketAddress' = {}
  /\ m_routingTable' \in {Clear(m_routingTable), m_routingTable}
  /\ UNCHANGED <<IsForwarding, DeferredQueue, flushes, loopback, seen, fate>>

\* It comes back by NotifyInterfaceUp or NotifyAddAddress.
InterfaceComes ==
  /\ m_socketAddress = {}
  /\ m_socketAddress' = {Self}
  /\ m_routingTable' =
       AddRoute(m_routingTable, NewEntry(Broadcast[Self], Self, Broadcast[Self]))
  /\ UNCHANGED <<IsForwarding, DeferredQueue, flushes, loopback, seen, fate>>

\* The loopback device delivers in no time; otherwise time goes on until the
\* next scheduled flush.
Tick ==
  /\ loopback = <<>>
  /\ flushes # <<>> /\ Head(flushes) # 0
  /\ flushes' = [i \in DOMAIN flushes |-> flushes[i] - 1]
  /\ UNCHANGED <<control, DeferredQueue, loopback, seen, fate>>

Engine == DeferredRouteInput \/ AutoDequeueNoDA \/ Tick

Next ==
  \/ \E d \in Datagram : RouteOutput(d)
  \/ \E d \in Datagram : RouteInput(d)
  \/ Engine
  \/ RouteAppears
  \/ RouteGoes
  \/ InterfaceGoes
  \/ InterfaceComes

Spec == Init /\ [][Next]_vars

\* The simulator runs the events it has scheduled.
FairSpec == Spec /\ WF_vars(Engine)

-----------------------------------------------------------------------------
(* Properties *)

TypeOK ==
  /\ IsTable(m_routingTable)
  /\ m_socketAddress \subseteq {Self} /\ IsForwarding \in BOOLEAN
  /\ DeferredQueue \in Seq(Datagram)
  /\ flushes \in Seq(0 .. FlushDelay)
  /\ loopback \in Seq(Datagram)
  /\ seen \subseteq Packet
  /\ sent \in [Packet -> Nat] /\ delivered \in [Packet -> Nat]
  /\ dropped \in [Packet -> Nat]

Waiting == loopback \o DeferredQueue

Copies(p) ==
  Cardinality({i \in DOMAIN Waiting : Waiting[i].id = p})
    + sent[p] + delivered[p] + dropped[p]

\* A packet given to the node is at any time in exactly one place: waiting, in
\* the loopback device, sent, delivered or dropped.  Flushing the queue, looking
\* again, re-forwarding a broadcast and losing the interface in between neither
\* lose nor duplicate it.
Conservation == \A p \in Packet : Copies(p) = IF p \in seen THEN 1 ELSE 0

\* No packet waits without an event that will look at it again, although one
\* flush empties a queue that several events were scheduled for.
NoneStranded == DeferredQueue # <<>> => flushes # <<>>

Settled(p) == sent[p] + delivered[p] + dropped[p] > 0

\* Every packet is sent, delivered or dropped in the end, even if no route ever
\* appears, or routes and interface come and go: each round through loopback
\* costs a hop.
EveryPacketSettles == \A p \in Packet : p \in seen ~> Settled(p)

\* p waits with hops for at least one more round and the way out.
WaitsWithHops(p) ==
  \E i \in DOMAIN DeferredQueue :
    DeferredQueue[i].id = p /\ DeferredQueue[i].dst = Sink /\ DeferredQueue[i].ttl >= 3

Routed == m_socketAddress # {} /\ LookupRoute(m_routingTable, Sink)

\* A route that appears, and stays as the interface does, in time for a waiting
\* packet takes it: the packet spends two more hops and is sent.
RouteTakesWaiting ==
  \A p \in Packet : [](WaitsWithHops(p) /\ []Routed => <>(sent[p] = 1))

\* PacketCustody, the promise to whoever hands the node a packet: it waits
\* until it settles, and a settled packet never comes back.
Custody == INSTANCE PacketCustody
  WITH Item <- Packet, held <- {Waiting[i].id : i \in DOMAIN Waiting},
       settled <- {p \in Packet : Settled(p)}

\* The queue, its flushes and the loopback device keep that promise.
KeepsCustody == Custody!Spec

=============================================================================
