----------------------- MODULE LeachInterfaces_proofs -----------------------
(* Proofs about LeachInterfaces, for every set of devices, addresses and    *)
(* sockets that satisfies AddressAssumption and InterfaceAssumption.        *)
EXTENDS LeachInterfaces, TLAPS

-----------------------------------------------------------------------------
(* The operators on the table, the map and the addresses                    *)

\* A table is still a table when an entry is added.
LEMMA AddRouteType ==
  ASSUME NEW t, IsTable(t), NEW e \in RoutingTableEntry
  PROVE  IsTable(AddRoute(t, e))
BY DEF IsTable, AddRoute, RoutingTableEntry

\* The broadcast entry of an interface address is an entry.
LEMMA BroadcastEntry ==
  ASSUME NEW i \in Iface
  PROVE  NewEntry(Broadcast[i], i, Broadcast[i]) \in RoutingTableEntry
BY AddressAssumption DEF NewEntry, RoutingTableEntry, Flag

\* A table is still a table when the entries of an interface or all entries go.
LEMMA DeleteRoutesType ==
  ASSUME NEW t, IsTable(t), NEW i
  PROVE  IsTable(DeleteAllRouteFromInterface(t, i)) /\ IsTable(Clear(t))
BY DEF IsTable, DeleteAllRouteFromInterface, Clear, EmptyTable

\* Two devices have no address in common, and none has the blank one.
LEMMA OwnAddresses ==
  /\ \A d, e \in Device : \A a : a \in OfDevice[d] /\ a \in OfDevice[e] => d = e
  /\ \A d \in Device : NoIface \notin OfDevice[d] /\ OfDevice[d] \subseteq Iface
BY InterfaceAssumption

Map(m) == DOMAIN m \subseteq Socket /\ m \in [DOMAIN m -> Iface]

\* A map with or without an entry more is a map.
LEMMA MapType ==
  ASSUME NEW m, Map(m), NEW s \in Socket, NEW i \in Iface
  PROVE  Map(Insert(m, s, i)) /\ Map(Erase(m, s))
BY DEF Map, Insert, Erase

\* The conjuncts of TypeOK about each group of variables.
LayerType ==
  /\ up \in [Device -> BOOLEAN] /\ reassigns \in BOOLEAN
  /\ first \in [Device -> Iface] /\ more \in [Device -> SUBSET Iface]
  /\ \A d \in Device : first[d] \in OfDevice[d] \cup {NoIface} /\ more[d] \subseteq OfDevice[d]

SocketType ==
  /\ Map(m_socketAddress)
  /\ life \in [Socket -> {"unborn", "open", "deaf", "closed"}]
  /\ bound \in [Socket -> Device \cup {NoDevice}]

RouteType == IsTable(m_routingTable) /\ m_mainAddress \in Iface

EndType ==
  aborted \in {"none", "NotifyInterfaceUp", "NotifyInterfaceDown", "RecvLeach",
               "SendBroadcast", "RespondToClusterHead"}

\* TypeOK is their conjunction.
LEMMA TypeParts == TypeOK <=> LayerType /\ SocketType /\ RouteType /\ EndType
BY DEF TypeOK, LayerType, SocketType, RouteType, EndType, Map

\* The same of the next state.
LEMMA TypePartsNext == TypeOK' <=> LayerType' /\ SocketType' /\ RouteType' /\ EndType'
BY DEF TypeOK, LayerType, SocketType, RouteType, EndType, Map

\* A new socket keeps the types of the sockets.
LEMMA ListenType ==
  ASSUME SocketType, NEW m, Map(m), NEW s \in Socket, NEW d \in Device \cup {NoDevice},
         NEW i \in Iface, Listen(m, s, d, i)
  PROVE  SocketType'
<1>1. Map(m_socketAddress')
  BY MapType DEF Listen
<1>2. /\ life' \in [Socket -> {"unborn", "open", "deaf", "closed"}]
      /\ bound' \in [Socket -> Device \cup {NoDevice}]
  BY DEF Listen, SocketType
<1> QED BY <1>1, <1>2 DEF SocketType

\* A handler that ends the program leaves the sockets and the table.
LEMMA AbortType ==
  ASSUME SocketType, RouteType, NEW h, Abort(h)
  PROVE  SocketType' /\ RouteType'
BY DEF Abort, SocketType, RouteType, sockets, Map

\* A broadcast route keeps the table a table.
LEMMA BroadcastType ==
  ASSUME RouteType, NEW i \in Iface, AddBroadcastRoute(i)
  PROVE  IsTable(m_routingTable')
BY AddRouteType, BroadcastEntry DEF RouteType, AddBroadcastRoute

-----------------------------------------------------------------------------
(* Type correctness                                                        *)

LEMMA InitType == Init => TypeOK
<1> SUFFICES ASSUME Init PROVE TypeOK
  OBVIOUS
<1> DEFINE lo == [NewEntry(Loopback, LoIface, Loopback) EXCEPT !.flag = "INVALID"]
<1>1. lo \in RoutingTableEntry
  BY AddressAssumption, InterfaceAssumption DEF NewEntry, RoutingTableEntry, Flag
<1>2. IsTable(EmptyTable)
  BY DEF IsTable, EmptyTable
<1> HIDE DEF lo
<1>3. IsTable(AddRoute(EmptyTable, lo))
  BY <1>1, <1>2, AddRouteType
<1>4. RouteType /\ EndType
  BY <1>3, AddressAssumption DEF Init, RouteType, EndType, lo
<1>5. LayerType
  BY AddressAssumption, OwnAddresses DEF Init, LayerType
<1>6. SocketType
  BY AddressAssumption DEF Init, SocketType, Map
<1> QED BY <1>4, <1>5, <1>6, TypeParts

LEMMA NextType == TypeOK /\ [Next]_vars => TypeOK'
<1> SUFFICES ASSUME TypeOK, [Next]_vars PROVE TypeOK'
  OBVIOUS
<1>0. LayerType /\ SocketType /\ RouteType /\ EndType
  BY TypeParts
<1>1. ASSUME NEW d \in Device, SetUp(d) PROVE TypeOK'
  <2>1. LayerType'
    BY <1>0, <1>1 DEF SetUp, LayerType
  <2>2. first[d] \in Iface
    BY <1>0 DEF LayerType
  <2>3. CASE Abort("NotifyInterfaceUp")
    BY <1>0, <2>1, <2>3, AbortType, TypePartsNext DEF Abort, EndType
  <2>4. CASE /\ \E s \in Socket : Listen(m_socketAddress, s, d, first[d])
             /\ AddBroadcastRoute(first[d])
             /\ m_mainAddress' = IF m_mainAddress = NoIface THEN first[d] ELSE m_mainAddress
             /\ UNCHANGED aborted
    <3>1. SocketType'
      BY <1>0, <2>2, <2>4, ListenType DEF SocketType
    <3>2. RouteType'
      BY <1>0, <2>2, <2>4, BroadcastType DEF RouteType
    <3> QED BY <1>0, <2>1, <2>4, <3>1, <3>2, TypePartsNext DEF EndType
  <2> QED BY <1>1, <2>3, <2>4 DEF SetUp, NotifyInterfaceUp
<1>2. ASSUME NEW d \in Device, SetDown(d) PROVE TypeOK'
  <2>1. LayerType'
    BY <1>0, <1>2 DEF SetDown, LayerType
  <2>2. CASE Abort("NotifyInterfaceDown")
    BY <1>0, <2>1, <2>2, AbortType, TypePartsNext DEF Abort, EndType
  <2>3. ASSUME NEW s \in FindSocketWithInterfaceAddress(first[d]), CloseSocket(d, s),
               UNCHANGED <<bound, m_mainAddress, aborted>>
        PROVE  TypeOK'
    <3>1. s \in Socket
      BY <1>0 DEF FindSocketWithInterfaceAddress, SocketType, Map
    <3>2. SocketType'
      BY <1>0, <2>3, <3>1, MapType, AddressAssumption DEF CloseSocket, SocketType
    <3>3. RouteType'
      BY <1>0, <2>3, DeleteRoutesType DEF CloseSocket, RouteType
    <3> QED BY <1>0, <2>1, <2>3, <3>2, <3>3, TypePartsNext DEF EndType
  <2> QED BY <1>2, <2>2, <2>3 DEF SetDown, NotifyInterfaceDown
<1>3. ASSUME NEW d \in Device, NEW a \in OfDevice[d], AddAddress(d, a) PROVE TypeOK'
  <2>1. LayerType' /\ EndType'
    BY <1>0, <1>3, OwnAddresses DEF AddAddress, LayerType, EndType
  <2>2. first'[d] \in Iface
    BY <2>1 DEF LayerType
  <2>3. CASE UNCHANGED <<sockets, m_routingTable>>
    BY <1>0, <1>3, <2>1, <2>3, TypePartsNext
      DEF AddAddress, SocketType, RouteType, sockets, Map
  <2>4. CASE /\ \E s \in Socket : Listen(m_socketAddress, s, d, first'[d])
             /\ AddBroadcastRoute(first'[d])
    <3>1. SocketType'
      BY <1>0, <2>2, <2>4, ListenType DEF SocketType
    <3>2. RouteType'
      BY <1>0, <1>3, <2>2, <2>4, BroadcastType DEF AddAddress, RouteType
    <3> QED BY <2>1, <3>1, <3>2, TypePartsNext
  <2> QED BY <1>3, <2>3, <2>4 DEF AddAddress, NotifyAddAddress
<1>4. ASSUME NEW d \in Device, NEW a \in OfDevice[d], RemoveAddress(d, a) PROVE TypeOK'
  <2>1. LayerType'
    <3>1. CASE a \in more[d] /\ more' = [more EXCEPT ![d] = @ \ {a}] /\ UNCHANGED first
      BY <1>0, <1>4, <3>1 DEF RemoveAddress, LayerType
    <3>2. CASE first' = [first EXCEPT ![d] = NoIface] /\ UNCHANGED more
      BY <1>0, <1>4, <3>2, AddressAssumption DEF RemoveAddress, LayerType
    <3>3. CASE \E b \in more[d] : /\ first' = [first EXCEPT ![d] = b]
                                  /\ more' = [more EXCEPT ![d] = @ \ {b}]
      BY <1>0, <1>4, <3>3 DEF RemoveAddress, LayerType
    <3> QED BY <1>4, <3>1, <3>2, <3>3 DEF RemoveAddress, Removed
  <2>2. first'[d] \in Iface
    BY <2>1 DEF LayerType
  <2>3. RouteType' /\ EndType'
    BY <1>0, <1>4 DEF RemoveAddress, RouteType, EndType
  <2>4. CASE UNCHANGED sockets
    BY <1>0, <2>1, <2>3, <2>4, TypePartsNext DEF SocketType, sockets, Map
  <2>5. ASSUME NEW s \in FindSocketWithInterfaceAddress(a),
               \/ m_socketAddress' = Erase(m_socketAddress, s) /\ UNCHANGED <<life, bound>>
               \/ \E t \in Socket : Listen(Erase(m_socketAddress, s), t, NoDevice, first'[d])
        PROVE  TypeOK'
    <3>1. s \in Socket
      BY <1>0 DEF FindSocketWithInterfaceAddress, SocketType, Map
    <3>2. Map(Erase(m_socketAddress, s))
      BY <1>0, <3>1, MapType, AddressAssumption DEF SocketType
    <3>3. SocketType'
      BY <1>0, <2>2, <2>5, <3>2, ListenType DEF SocketType
    <3> QED BY <2>1, <2>3, <3>3, TypePartsNext
  <2> QED BY <1>4, <2>4, <2>5 DEF RemoveAddress, NotifyRemoveAddress
<1>5. ASSUME UNCHANGED layer3, NEW h \in {"RecvLeach", "SendBroadcast", "RespondToClusterHead"},
             Abort(h)
      PROVE  TypeOK'
  <2>1. LayerType' /\ EndType'
    BY <1>0, <1>5 DEF layer3, LayerType, Abort, EndType
  <2> QED BY <1>0, <1>5, <2>1, AbortType, TypePartsNext
<1>6. ASSUME NEW s \in Socket, RecvLeach(s) PROVE TypeOK'
  <2>1. CASE /\ m_socketAddress' = Insert(m_socketAddress, s, NoIface)
             /\ UNCHANGED <<life, bound, m_routingTable, m_mainAddress, aborted>>
    <3>1. SocketType'
      BY <1>0, <2>1, MapType, AddressAssumption DEF SocketType
    <3>2. LayerType' /\ RouteType' /\ EndType'
      BY <1>0, <1>6, <2>1 DEF RecvLeach, layer3, LayerType, RouteType, EndType
    <3> QED BY <3>1, <3>2, TypePartsNext
  <2> QED BY <1>5, <1>6, <2>1 DEF RecvLeach
<1>7. CASE SendBroadcast \/ RespondToClusterHead
  BY <1>5, <1>7 DEF SendBroadcast, RespondToClusterHead
<1>8. CASE UNCHANGED vars
  BY <1>8 DEF TypeOK, vars, layer3, sockets, FindSocketWithInterfaceAddress
<1> QED BY <1>1, <1>2, <1>3, <1>4, <1>6, <1>7, <1>8 DEF Next

-----------------------------------------------------------------------------
(* The inductive invariant                                                 *)

\* A device has no address twice.
AddressesDistinct == \A d \in Device : first[d] \notin more[d]

\* A socket with an address of a device is bound to that device or to none.
BoundToOwn ==
  \A s \in DOMAIN m_socketAddress : \A d \in Device :
    m_socketAddress[s] \in OfDevice[d] => bound[s] \in {d, NoDevice}

\* The broadcast route of a device's own subnet leaves through an address of the
\* device.
OwnRoutes ==
  \A d \in Device : OwnSubnet(d) => \A a \in OfDevice[d] :
    Broadcast[a] \in DOMAIN m_routingTable =>
      m_routingTable[Broadcast[a]].iface \in OfDevice[d]

\* No socket has an address of d.
Silent(d) == \A s \in DOMAIN m_socketAddress : m_socketAddress[s] \notin OfDevice[d]

Routed(d) == \A a \in OfDevice[d] : Broadcast[a] \in DOMAIN m_routingTable

\* A device that is up and has its own subnet has its broadcast route, unless it
\* has no address and no socket, so that the next address makes both.  (The
\* program may end with a SetUp that finds no address.)
RoutedOrSilent ==
  \A d \in Device : OwnSubnet(d) /\ up[d] =>
    \/ Routed(d)
    \/ first[d] = NoIface /\ (Silent(d) \/ ~Running)

\* Bind has not been refused to the first socket of the node.
FirstSocketHears ==
  \A s \in Socket : life[s] = "deaf" => \E t \in Socket \ {s} : life[t] # "unborn"

IInv ==
  /\ TypeOK
  /\ AddressesDistinct
  /\ BoundToOwn
  /\ OwnRoutes
  /\ Listening
  /\ RoutedOrSilent
  /\ SocketPerInterface
  /\ NoClosedSocket
  /\ FirstSocketHears

-----------------------------------------------------------------------------
(* What a step does, in the terms of the invariant                         *)

\* The devices but d are as they were.
Apart(d) ==
  /\ reassigns' = reassigns
  /\ \A e \in Device : e # d => up'[e] = up[e] /\ first'[e] = first[e] /\ more'[e] = more[e]

Mapped == DOMAIN m_socketAddress

\* Of the sockets in the map, those in kept stay.
Kept(kept) ==
  /\ DOMAIN m_socketAddress' = kept
  /\ \A t \in kept : /\ m_socketAddress'[t] = m_socketAddress[t]
                     /\ life'[t] = life[t] /\ bound'[t] = bound[t]

\* Those in kept stay, and a socket is added.
Added(kept, s, d, i) ==
  /\ s \in Socket /\ s \notin kept
  /\ DOMAIN m_socketAddress' = kept \cup {s}
  /\ m_socketAddress'[s] = i /\ life'[s] \in {"open", "deaf"} /\ bound'[s] = d
  /\ \A t \in kept : /\ m_socketAddress'[t] = m_socketAddress[t]
                     /\ life'[t] = life[t] /\ bound'[t] = bound[t]

SocketUp(d) ==
  /\ \E s \in Socket : Added(Mapped, s, d, first'[d])
  /\ AddBroadcastRoute(first'[d])

UpStep(d) ==
  /\ Running /\ Apart(d) /\ up'[d] /\ (up[d] => reassigns)
  /\ first'[d] = first[d] /\ more'[d] = more[d] /\ first[d] # NoIface
  /\ SocketUp(d)

DownStep(d) ==
  /\ Running /\ Apart(d) /\ ~up'[d]
  /\ first'[d] = first[d] /\ more'[d] = more[d]
  /\ \E s \in Mapped :
       /\ m_socketAddress[s] = first[d]
       /\ Kept(Mapped \ {s})
       /\ \/ Mapped = {s} /\ m_routingTable' = EmptyTable
          \/ /\ Mapped # {s}
             /\ m_routingTable' = DeleteAllRouteFromInterface(m_routingTable, first[d])

AddStep(d) ==
  /\ Running /\ Apart(d) /\ up'[d] = up[d]
  /\ first'[d] \in OfDevice[d] /\ first'[d] \notin more'[d]
  /\ first[d] # NoIface => first'[d] = first[d]
  /\ \/ /\ up[d] /\ \A s \in DOMAIN m_socketAddress : m_socketAddress[s] # first'[d]
        /\ SocketUp(d)
     \/ /\ up[d] => \E s \in DOMAIN m_socketAddress : m_socketAddress[s] = first'[d]
        /\ UNCHANGED <<sockets, m_routingTable>>

\* The address that goes, and the one that may follow it.
Follows(d, a) ==
  \/ a \in more[d] /\ first'[d] = first[d] /\ more'[d] = more[d] \ {a}
  \/ a = first[d] /\ first'[d] = NoIface /\ more'[d] = more[d] /\ more[d] = {}
  \/ a = first[d] /\ first'[d] \in more[d] /\ more'[d] = more[d] \ {first'[d]}

\* The socket of the address is replaced, or only forgotten.
SocketGone(d, s) ==
  \/ /\ first'[d] = NoIface
     /\ Kept(Mapped \ {s})
  \/ /\ first'[d] # NoIface
     /\ \E t \in Socket : Added(Mapped \ {s}, t, NoDevice, first'[d])

RemoveStep(d, a) ==
  /\ Running /\ Apart(d) /\ up'[d] = up[d] /\ Follows(d, a)
  /\ m_routingTable' = m_routingTable
  /\ \/ /\ \A s \in DOMAIN m_socketAddress : m_socketAddress[s] # a
        /\ UNCHANGED sockets
     \/ \E s \in DOMAIN m_socketAddress : m_socketAddress[s] = a /\ SocketGone(d, s)

HearStep(s) ==
  /\ Running
  /\ UNCHANGED <<layer3, m_routingTable>>
  /\ s \in Socket /\ s \notin Mapped
  /\ DOMAIN m_socketAddress' = Mapped \cup {s}
  /\ m_socketAddress'[s] = NoIface /\ life'[s] = "open"
  /\ \A t \in Mapped : /\ m_socketAddress'[t] = m_socketAddress[t]
                       /\ life'[t] = life[t] /\ bound'[t] = bound[t]

\* The program ends in SetUp or SetDown, which change the device's state first.
FailStep(d) ==
  /\ Apart(d) /\ ~Running'
  /\ first'[d] = first[d] /\ more'[d] = more[d]
  /\ UNCHANGED <<sockets, m_routingTable>>
  /\ \/ first[d] = NoIface
     \/ ~up'[d] /\ \A s \in Mapped : m_socketAddress[s] # first[d]

\* It ends in another handler.
EndStep == ~Running' /\ UNCHANGED <<layer3, sockets, m_routingTable>>

\* A socket that Listen makes is not in the map yet.
LEMMA ListenEffect ==
  ASSUME SocketType, NoClosedSocket, NEW m, DOMAIN m \subseteq Mapped,
         \A t \in DOMAIN m : m[t] = m_socketAddress[t],
         NEW s \in Socket, NEW d, NEW i, Listen(m, s, d, i)
  PROVE  Added(DOMAIN m, s, d, i)
<1>1. s \notin DOMAIN m
  BY DEF Listen, NoClosedSocket, Mapped
<1>2. DOMAIN m \subseteq Socket
  BY DEF SocketType, Map, Mapped
<1> QED BY <1>1, <1>2 DEF Listen, Added, Insert, SocketType

LEMMA EraseEffect ==
  ASSUME NEW s
  PROVE  /\ DOMAIN Erase(m_socketAddress, s) = Mapped \ {s}
         /\ \A t \in Mapped \ {s} : Erase(m_socketAddress, s)[t] = m_socketAddress[t]
BY DEF Erase, Mapped

LEMMA Steps ==
  ASSUME TypeOK, AddressesDistinct, NoClosedSocket, [Next]_vars
  PROVE  \/ \E d \in Device : \/ UpStep(d) \/ DownStep(d) \/ AddStep(d) \/ FailStep(d)
                              \/ \E a \in OfDevice[d] : RemoveStep(d, a)
         \/ \E s \in Socket : HearStep(s)
         \/ EndStep
         \/ UNCHANGED vars
<1>0. LayerType /\ SocketType
  BY TypeParts
<1>1. ASSUME NEW d \in Device, SetUp(d) PROVE UpStep(d) \/ FailStep(d)
  <2>1. /\ Running /\ Apart(d) /\ up'[d] /\ (up[d] => reassigns)
        /\ first' = first /\ more' = more
    BY <1>0, <1>1 DEF SetUp, Apart, LayerType
  <2>2. CASE first[d] = NoIface
    <3>1. Abort("NotifyInterfaceUp")
      BY <1>1, <2>2 DEF SetUp, NotifyInterfaceUp
    <3> QED BY <2>1, <2>2, <3>1 DEF Abort, FailStep, Running
  <2>3. CASE first[d] # NoIface
    <3>1. /\ \E s \in Socket : Listen(m_socketAddress, s, d, first[d])
          /\ AddBroadcastRoute(first[d])
      BY <1>1, <2>3 DEF SetUp, NotifyInterfaceUp
    <3>2. SocketUp(d)
      BY <1>0, <2>1, <3>1, ListenEffect DEF SocketUp, Mapped
    <3> QED BY <2>1, <2>3, <3>2 DEF UpStep
  <2> QED BY <2>2, <2>3
<1>2. ASSUME NEW d \in Device, SetDown(d) PROVE DownStep(d) \/ FailStep(d)
  <2>1. Running /\ Apart(d) /\ ~up'[d] /\ first' = first /\ more' = more
    BY <1>0, <1>2 DEF SetDown, Apart, LayerType
  <2>2. CASE /\ FindSocketWithInterfaceAddress(first[d]) = {} \/ first[d] = NoIface
             /\ Abort("NotifyInterfaceDown")
    BY <2>1, <2>2 DEF Abort, FailStep, Running, FindSocketWithInterfaceAddress, Mapped
  <2>3. ASSUME NEW s \in FindSocketWithInterfaceAddress(first[d]), CloseSocket(d, s),
               UNCHANGED bound
        PROVE  DownStep(d)
    <3>1. s \in Mapped /\ m_socketAddress[s] = first[d]
      BY DEF FindSocketWithInterfaceAddress, Mapped
    <3>2. Kept(Mapped \ {s})
      BY <1>0, <2>3, EraseEffect DEF CloseSocket, Kept, SocketType, Map, Mapped
    <3> QED BY <2>1, <2>3, <3>1, <3>2 DEF CloseSocket, DownStep, Clear, Mapped
  <2> QED BY <1>2, <2>2, <2>3 DEF SetDown, NotifyInterfaceDown
<1>3. ASSUME NEW d \in Device, NEW a \in OfDevice[d], AddAddress(d, a) PROVE AddStep(d)
  <2>1. /\ Running /\ Apart(d) /\ up'[d] = up[d]
        /\ first[d] # NoIface => first'[d] = first[d]
    BY <1>0, <1>3 DEF AddAddress, Apart, LayerType
  <2>2. first'[d] \in OfDevice[d] /\ first'[d] \notin more'[d]
    BY <1>0, <1>3, OwnAddresses DEF AddAddress, LayerType, AddressesDistinct
  <2>3. CASE up[d] /\ FindSocketWithInterfaceAddress(first'[d]) = {}
    <3>1. /\ \E s \in Socket : Listen(m_socketAddress, s, d, first'[d])
          /\ AddBroadcastRoute(first'[d])
      BY <1>3, <2>3 DEF AddAddress, NotifyAddAddress
    <3>2. SocketUp(d)
      BY <1>0, <3>1, ListenEffect DEF SocketUp, Mapped
    <3> QED BY <2>1, <2>2, <2>3, <3>2 DEF AddStep, FindSocketWithInterfaceAddress
  <2>4. CASE ~(up[d] /\ FindSocketWithInterfaceAddress(first'[d]) = {})
    <3>1. UNCHANGED <<sockets, m_routingTable>>
      BY <1>3, <2>4 DEF AddAddress, NotifyAddAddress
    <3> QED BY <2>1, <2>2, <2>4, <3>1 DEF AddStep, FindSocketWithInterfaceAddress
  <2> QED BY <2>3, <2>4
<1>4. ASSUME NEW d \in Device, NEW a \in OfDevice[d], RemoveAddress(d, a)
      PROVE  RemoveStep(d, a)
  <2>1. /\ Running /\ Apart(d) /\ up'[d] = up[d] /\ Follows(d, a)
        /\ m_routingTable' = m_routingTable
    BY <1>0, <1>4 DEF RemoveAddress, Removed, Apart, Follows, LayerType
  <2>2. CASE FindSocketWithInterfaceAddress(a) = {}
    <3>1. UNCHANGED sockets
      BY <1>4, <2>2 DEF RemoveAddress, NotifyRemoveAddress
    <3> QED BY <2>1, <2>2, <3>1 DEF RemoveStep, FindSocketWithInterfaceAddress
  <2>3. CASE FindSocketWithInterfaceAddress(a) # {}
    <3>1. PICK s \in FindSocketWithInterfaceAddress(a) :
            IF first'[d] = NoIface
            THEN m_socketAddress' = Erase(m_socketAddress, s) /\ UNCHANGED <<life, bound>>
            ELSE \E t \in Socket : Listen(Erase(m_socketAddress, s), t, NoDevice, first'[d])
      BY <1>4, <2>3 DEF RemoveAddress, NotifyRemoveAddress
    <3> DEFINE rest == Erase(m_socketAddress, s)
    <3>2. /\ s \in Mapped /\ m_socketAddress[s] = a
          /\ DOMAIN rest = Mapped \ {s}
          /\ \A t \in DOMAIN rest : rest[t] = m_socketAddress[t]
      BY EraseEffect DEF FindSocketWithInterfaceAddress, Mapped
    <3> HIDE DEF rest
    <3>3. ASSUME NEW t \in Socket, Listen(rest, t, NoDevice, first'[d])
          PROVE  Added(Mapped \ {s}, t, NoDevice, first'[d])
      <4>1. Added(DOMAIN rest, t, NoDevice, first'[d])
        BY <1>0, <3>2, <3>3, ListenEffect
      <4> QED BY <3>2, <4>1
    <3>4. ASSUME first'[d] = NoIface PROVE SocketGone(d, s)
      <4>1. m_socketAddress' = rest /\ life' = life /\ bound' = bound
        BY <3>1, <3>4 DEF rest
      <4> QED BY <3>2, <3>4, <4>1 DEF SocketGone, Kept
    <3>5. first'[d] # NoIface => \E t \in Socket : Listen(rest, t, NoDevice, first'[d])
      BY <3>1 DEF rest
    <3>6. SocketGone(d, s)
      BY <3>3, <3>4, <3>5 DEF SocketGone
    <3> QED BY <2>1, <3>2, <3>6 DEF RemoveStep, Mapped
  <2> QED BY <2>2, <2>3
<1>5. ASSUME NEW s \in Socket, RecvLeach(s) PROVE HearStep(s) \/ EndStep
  BY <1>0, <1>5 DEF RecvLeach, Hears, HearStep, EndStep, Abort, Running, Insert, Mapped
<1>6. CASE SendBroadcast \/ RespondToClusterHead
  BY <1>6 DEF SendBroadcast, RespondToClusterHead, EndStep, Abort, Running
<1> QED BY <1>1, <1>2, <1>3, <1>4, <1>5, <1>6 DEF Next

-----------------------------------------------------------------------------
(* Every step keeps the invariant                                          *)

LEMMA InitIInv == Init => IInv
<1> SUFFICES ASSUME Init PROVE IInv
  OBVIOUS
<1>1. \A d \in Device : OwnSubnet(d) =>
        \A a \in OfDevice[d] : Broadcast[a] \notin DOMAIN m_routingTable
  <2> DEFINE lo == [NewEntry(Loopback, LoIface, Loopback) EXCEPT !.flag = "INVALID"]
  <2>1. lo.dst = Loopback
    BY DEF NewEntry
  <2> HIDE DEF lo
  <2>2. DOMAIN AddRoute(EmptyTable, lo) = {Loopback}
    BY <2>1 DEF AddRoute, EmptyTable
  <2> QED BY <2>2 DEF OwnSubnet, Init, lo
<1>2. /\ AddressesDistinct /\ BoundToOwn /\ SocketPerInterface /\ NoClosedSocket
      /\ FirstSocketHears
  BY DEF Init, AddressesDistinct, BoundToOwn, SocketPerInterface, NoClosedSocket,
     FirstSocketHears
<1>3. Listening /\ RoutedOrSilent
  BY DEF Init, Listening, Served, RoutedOrSilent
<1> QED BY <1>1, <1>2, <1>3, InitType DEF IInv, OwnRoutes

\* Before and after a step, the first address of a device is one of its own.
LEMMA FirstIsOwn ==
  ASSUME TypeOK, NEW d \in Device
  PROVE  /\ first[d] # NoIface => first[d] \in OfDevice[d]
         /\ more[d] \subseteq OfDevice[d]
BY DEF TypeOK

\* A step that ends the program leaves the sockets, the table and the addresses.
LEMMA EndingSteps ==
  ASSUME EndStep \/ (\E d \in Device : FailStep(d)) \/ UNCHANGED vars, TypeOK
  PROVE  /\ UNCHANGED <<sockets, m_routingTable>>
         /\ \A d \in Device : first'[d] = first[d] /\ more'[d] = more[d]
<1>1. ASSUME NEW d \in Device, FailStep(d)
      PROVE  /\ UNCHANGED <<sockets, m_routingTable>>
             /\ \A e \in Device : first'[e] = first[e] /\ more'[e] = more[e]
  BY <1>1 DEF FailStep, Apart
<1>2. CASE EndStep
  BY <1>2 DEF EndStep, layer3
<1>3. CASE UNCHANGED vars
  BY <1>3 DEF vars, layer3
<1> QED BY <1>1, <1>2, <1>3

LEMMA NextNoClosedSocket == IInv /\ [Next]_vars => NoClosedSocket'
<1> SUFFICES ASSUME IInv, [Next]_vars PROVE NoClosedSocket'
  OBVIOUS
<1>0. DOMAIN m_socketAddress \subseteq Socket /\ NoClosedSocket
  BY DEF IInv, TypeOK
<1> USE DEF NoClosedSocket
<1>1. ASSUME NEW d \in Device, UpStep(d) PROVE NoClosedSocket'
  BY <1>0, <1>1 DEF UpStep, SocketUp, Added, Mapped
<1>2. ASSUME NEW d \in Device, DownStep(d) PROVE NoClosedSocket'
  BY <1>0, <1>2 DEF DownStep, Kept, Mapped
<1>3. ASSUME NEW d \in Device, AddStep(d) PROVE NoClosedSocket'
  BY <1>0, <1>3 DEF AddStep, SocketUp, Added, Kept, Mapped, sockets
<1>4. ASSUME NEW d \in Device, NEW a \in OfDevice[d], RemoveStep(d, a) PROVE NoClosedSocket'
  <2>1. CASE UNCHANGED sockets
    BY <1>0, <2>1 DEF sockets
  <2>2. ASSUME NEW s \in Mapped, Kept(Mapped \ {s}) PROVE NoClosedSocket'
    BY <1>0, <2>2 DEF Kept, Mapped
  <2>3. ASSUME NEW s \in Mapped, NEW t \in Socket,
               Added(Mapped \ {s}, t, NoDevice, first'[d])
        PROVE  NoClosedSocket'
    BY <1>0, <2>3 DEF Added, Mapped
  <2> QED BY <1>4, <2>1, <2>2, <2>3 DEF RemoveStep, SocketGone, Mapped
<1>5. ASSUME NEW s \in Socket, HearStep(s) PROVE NoClosedSocket'
  BY <1>0, <1>5 DEF HearStep, Mapped
<1>6. CASE EndStep \/ (\E d \in Device : FailStep(d)) \/ UNCHANGED vars
  BY <1>0, <1>6, EndingSteps DEF IInv, sockets
<1> HIDE DEF NoClosedSocket
<1> QED BY <1>1, <1>2, <1>3, <1>4, <1>5, <1>6, Steps DEF IInv

\* What a step may do to one socket.
LEMMA LifeSteps ==
  ASSUME TypeOK, [Next]_vars
  PROVE  \/ life' = life
         \/ \E s \in Socket : life' = [life EXCEPT ![s] = "open"]
         \/ \E s \in Socket : life' = [life EXCEPT ![s] = "closed"]
         \/ \E s \in Socket : /\ life[s] = "unborn"
                              /\ \E t \in Socket : life[t] # "unborn"
                              /\ life' = [life EXCEPT ![s] = "deaf"]
<1> USE DEF sockets
<1>1. ASSUME NEW s \in Socket, NEW m, NEW d, NEW i, Listen(m, s, d, i)
      PROVE  \/ life' = [life EXCEPT ![s] = "open"]
             \/ /\ life[s] = "unborn" /\ \E t \in Socket : life[t] # "unborn"
                /\ life' = [life EXCEPT ![s] = "deaf"]
  BY <1>1 DEF Listen
<1>2. \A iface : FindSocketWithInterfaceAddress(iface) \subseteq Socket
  BY DEF TypeOK, FindSocketWithInterfaceAddress
<1>3. ASSUME NEW d \in Device, SetUp(d) \/ SetDown(d)
      PROVE  \/ life' = life
             \/ \E s \in Socket : Listen(m_socketAddress, s, d, first[d])
             \/ \E s \in Socket : life' = [life EXCEPT ![s] = "closed"]
  BY <1>2, <1>3
    DEF SetUp, NotifyInterfaceUp, SetDown, NotifyInterfaceDown, CloseSocket, Abort
<1>4. ASSUME NEW d \in Device, NEW a \in OfDevice[d], AddAddress(d, a) \/ RemoveAddress(d, a)
      PROVE  \/ life' = life
             \/ \E s \in Socket : \E m, e, i : Listen(m, s, e, i)
  BY <1>4 DEF AddAddress, NotifyAddAddress, RemoveAddress, NotifyRemoveAddress
<1>5. ASSUME \/ \E s \in Socket : RecvLeach(s)
             \/ SendBroadcast \/ RespondToClusterHead \/ UNCHANGED vars
      PROVE  life' = life
  BY <1>5 DEF RecvLeach, SendBroadcast, RespondToClusterHead, Abort, vars
<1> QED BY <1>1, <1>3, <1>4, <1>5 DEF Next

LEMMA NextFirstSocketHears == IInv /\ [Next]_vars => FirstSocketHears'
<1> SUFFICES ASSUME IInv, [Next]_vars, NEW s \in Socket, life'[s] = "deaf"
             PROVE  \E t \in Socket \ {s} : life'[t] # "unborn"
  BY DEF FirstSocketHears
<1>1. FirstSocketHears /\ life \in [Socket -> {"unborn", "open", "deaf", "closed"}]
  BY DEF IInv, TypeOK
<1>2. CASE life' = life
  BY <1>1, <1>2 DEF FirstSocketHears
<1>3. ASSUME NEW r \in Socket, NEW l \in {"open", "closed"}, life' = [life EXCEPT ![r] = l]
      PROVE  \E t \in Socket \ {s} : life'[t] # "unborn"
  <2>1. r # s /\ life[s] = "deaf"
    BY <1>1, <1>3
  <2>2. life'[r] # "unborn"
    BY <1>1, <1>3
  <2> QED BY <2>1, <2>2
<1>4. ASSUME NEW r \in Socket, life[r] = "unborn", NEW t \in Socket, life[t] # "unborn",
             life' = [life EXCEPT ![r] = "deaf"]
      PROVE  \E u \in Socket \ {s} : life'[u] # "unborn"
  <2>1. CASE s = r
    BY <1>1, <1>4, <2>1
  <2>2. CASE s # r
    BY <1>1, <1>4, <2>2
  <2> QED BY <2>1, <2>2
<1> QED BY <1>2, <1>3, <1>4, LifeSteps DEF IInv

LEMMA NextAddressesDistinct == IInv /\ [Next]_vars => AddressesDistinct'
<1> SUFFICES ASSUME IInv, [Next]_vars PROVE AddressesDistinct'
  OBVIOUS
<1>0. AddressesDistinct /\ \A d \in Device : more[d] \subseteq OfDevice[d]
  BY FirstIsOwn DEF IInv
<1> USE DEF AddressesDistinct, Apart
<1>1. ASSUME NEW d \in Device, UpStep(d) \/ DownStep(d) PROVE AddressesDistinct'
  BY <1>0, <1>1 DEF UpStep, DownStep
<1>2. ASSUME NEW d \in Device, AddStep(d) PROVE AddressesDistinct'
  BY <1>0, <1>2 DEF AddStep
<1>3. ASSUME NEW d \in Device, NEW a \in OfDevice[d], RemoveStep(d, a)
      PROVE  AddressesDistinct'
  BY <1>0, <1>3, OwnAddresses DEF RemoveStep, Follows
<1>4. ASSUME NEW s \in Socket, HearStep(s) PROVE AddressesDistinct'
  BY <1>0, <1>4 DEF HearStep, Mapped, layer3
<1>5. CASE EndStep \/ (\E d \in Device : FailStep(d)) \/ UNCHANGED vars
  BY <1>0, <1>5, EndingSteps DEF IInv
<1> HIDE DEF AddressesDistinct
<1> QED BY <1>1, <1>2, <1>3, <1>4, <1>5, Steps DEF IInv

LEMMA NextBoundToOwn == IInv /\ [Next]_vars => BoundToOwn'
<1> SUFFICES ASSUME IInv, [Next]_vars PROVE BoundToOwn'
  OBVIOUS
<1>0. BoundToOwn
  BY DEF IInv
<1> USE DEF BoundToOwn
<1>1. ASSUME NEW d \in Device, SocketUp(d), first'[d] \in OfDevice[d] PROVE BoundToOwn'
  BY <1>0, <1>1, OwnAddresses DEF SocketUp, Added, Mapped
<1>2. ASSUME NEW d \in Device, UpStep(d) PROVE BoundToOwn'
  BY <1>1, <1>2, FirstIsOwn DEF UpStep, IInv
<1>3. ASSUME NEW d \in Device, DownStep(d) PROVE BoundToOwn'
  BY <1>0, <1>3 DEF DownStep, Kept, Mapped
<1>4. ASSUME NEW d \in Device, AddStep(d) PROVE BoundToOwn'
  BY <1>0, <1>1, <1>4 DEF AddStep, sockets
<1>5. ASSUME NEW d \in Device, NEW a \in OfDevice[d], RemoveStep(d, a) PROVE BoundToOwn'
  BY <1>0, <1>5 DEF RemoveStep, SocketGone, Added, Kept, Mapped, sockets
<1>6. ASSUME NEW s \in Socket, HearStep(s) PROVE BoundToOwn'
  BY <1>0, <1>6, OwnAddresses DEF HearStep, Mapped
<1>7. CASE EndStep \/ (\E d \in Device : FailStep(d)) \/ UNCHANGED vars
  BY <1>0, <1>7, EndingSteps DEF IInv, sockets
<1> HIDE DEF BoundToOwn
<1> QED BY <1>2, <1>3, <1>4, <1>5, <1>6, <1>7, Steps DEF IInv

\* Under the other conjuncts, a device that is served is one whose address is in
\* the map.
LEMMA HeardMeansMapped ==
  ASSUME TypeOK, BoundToOwn, NoClosedSocket, FirstSocketHears
  PROVE  Listening <=> \A d \in Device : Served(d) =>
           \E s \in DOMAIN m_socketAddress : m_socketAddress[s] = first[d]
<1>1. \A s \in DOMAIN m_socketAddress :
        life[s] = "open" \/ \E t \in Socket \ {s} : life[t] # "unborn"
  BY DEF TypeOK, NoClosedSocket, FirstSocketHears
<1> QED BY <1>1, FirstIsOwn DEF Listening, BoundToOwn, FindSocketWithInterfaceAddress, Served

LEMMA HeardMeansMappedNext ==
  ASSUME (TypeOK /\ BoundToOwn /\ NoClosedSocket /\ FirstSocketHears)'
  PROVE  (\A d \in Device : Served(d) =>
            \E s \in DOMAIN m_socketAddress : m_socketAddress[s] = first[d])' => Listening'
<1>1. \A s \in DOMAIN m_socketAddress' :
        life'[s] = "open" \/ \E t \in Socket \ {s} : life'[t] # "unborn"
  BY DEF TypeOK, NoClosedSocket, FirstSocketHears
<1> QED BY <1>1 DEF TypeOK, Listening, BoundToOwn, FindSocketWithInterfaceAddress, Served

LEMMA NextListening == IInv /\ [Next]_vars => Listening'
<1> SUFFICES ASSUME IInv, [Next]_vars PROVE Listening'
  OBVIOUS
<1> DEFINE Heard == \A d \in Device : Served(d) =>
             \E s \in DOMAIN m_socketAddress : m_socketAddress[s] = first[d]
<1>0. Heard
  BY HeardMeansMapped DEF IInv
<1>1. SUFFICES Heard'
  BY <1>1, NextType, NextBoundToOwn, NextNoClosedSocket, NextFirstSocketHears,
     HeardMeansMappedNext DEF IInv
<1> USE DEF Served, Apart
<1>2. ASSUME NEW d \in Device, UpStep(d) PROVE Heard'
  BY <1>0, <1>2 DEF UpStep, SocketUp, Added, Mapped
<1>3. ASSUME NEW d \in Device, DownStep(d) PROVE Heard'
  <2>1. \A e \in Device : e # d /\ first[e] # NoIface => first[e] # first[d]
    BY <1>3, OwnAddresses, FirstIsOwn DEF DownStep, IInv
  <2> QED BY <1>0, <1>3, <2>1 DEF DownStep, Kept, Mapped
<1>4. ASSUME NEW d \in Device, AddStep(d) PROVE Heard'
  <2>1. CASE SocketUp(d)
    BY <1>0, <1>4, <2>1 DEF AddStep, SocketUp, Added, Mapped
  <2>2. CASE /\ up[d] => \E s \in DOMAIN m_socketAddress : m_socketAddress[s] = first'[d]
             /\ UNCHANGED sockets
    BY <1>0, <1>4, <2>2 DEF AddStep, sockets
  <2> QED BY <1>4, <2>1, <2>2 DEF AddStep
<1>5. ASSUME NEW d \in Device, NEW a \in OfDevice[d], RemoveStep(d, a) PROVE Heard'
  <2>1. \A e \in Device : e # d /\ first[e] # NoIface => first[e] # a
    BY OwnAddresses, FirstIsOwn DEF IInv
  <2>2. a # NoIface
    BY OwnAddresses
  <2>3. ASSUME NEW e \in Device, (Served(e))'
        PROVE  \E s \in DOMAIN m_socketAddress' : m_socketAddress'[s] = first'[e]
    <3>1. CASE e # d
      <4>1. Served(e) /\ first'[e] = first[e] /\ first[e] # a
        BY <1>5, <2>1, <2>3, <3>1 DEF RemoveStep
      <4>2. PICK t \in DOMAIN m_socketAddress : m_socketAddress[t] = first[e]
        BY <1>0, <4>1
      <4>3. CASE UNCHANGED sockets
        BY <4>1, <4>2, <4>3 DEF sockets
      <4>4. ASSUME NEW s \in Mapped, m_socketAddress[s] = a, SocketGone(d, s)
            PROVE  t \in DOMAIN m_socketAddress' /\ m_socketAddress'[t] = first'[e]
        BY <4>1, <4>2, <4>4 DEF SocketGone, Added, Kept, Mapped
      <4> QED BY <1>5, <4>3, <4>4 DEF RemoveStep, Mapped
    <3>2. CASE e = d
      <4>1. CASE \A s \in DOMAIN m_socketAddress : m_socketAddress[s] # a
        <5>1. UNCHANGED sockets /\ up[d]
          BY <1>5, <2>3, <3>2, <4>1 DEF RemoveStep
        <5>2. first'[d] = first[d]
          BY <1>0, <1>5, <2>2, <4>1, <5>1 DEF RemoveStep, Follows
        <5> QED BY <1>0, <2>3, <3>2, <5>1, <5>2 DEF sockets
      <4>2. CASE \E s \in DOMAIN m_socketAddress : m_socketAddress[s] = a
        BY <1>5, <2>3, <3>2, <4>2 DEF RemoveStep, SocketGone, Added, Mapped
      <4> QED BY <4>1, <4>2
    <3> QED BY <3>1, <3>2
  <2> QED BY <2>3
<1>6. ASSUME NEW s \in Socket, HearStep(s) PROVE Heard'
  BY <1>0, <1>6 DEF HearStep, Mapped, layer3
<1>7. ASSUME NEW d \in Device, FailStep(d) PROVE Heard'
  BY <1>0, <1>7 DEF FailStep, sockets
<1>8. CASE EndStep \/ UNCHANGED vars
  BY <1>0, <1>8 DEF EndStep, vars, sockets, layer3
<1> HIDE DEF Heard
<1> QED BY <1>2, <1>3, <1>4, <1>5, <1>6, <1>7, <1>8, Steps DEF IInv

\* A subnet's broadcast address is the same for all addresses of a device that
\* has the subnet for itself, and for no other device.
LEMMA OneBroadcast ==
  ASSUME NEW d \in Device, OwnSubnet(d), NEW a \in OfDevice[d]
  PROVE  /\ \A b \in OfDevice[d] : Broadcast[b] = Broadcast[a]
         /\ \A e \in Device : \A b \in OfDevice[e] : e # d => Broadcast[b] # Broadcast[a]
BY OwnAddresses DEF OwnSubnet

\* What the three operations on the table do to a route and its interface.
LEMMA RouteAdded ==
  ASSUME NEW i, AddBroadcastRoute(i)
  PROVE  /\ DOMAIN m_routingTable' = DOMAIN m_routingTable \cup {Broadcast[i]}
         /\ \A x \in DOMAIN m_routingTable : m_routingTable'[x] = m_routingTable[x]
         /\ Broadcast[i] \notin DOMAIN m_routingTable =>
              m_routingTable'[Broadcast[i]].iface = i
BY DEF AddBroadcastRoute, AddRoute, NewEntry

LEMMA RoutesDeleted ==
  ASSUME NEW i, m_routingTable' = DeleteAllRouteFromInterface(m_routingTable, i)
  PROVE  /\ DOMAIN m_routingTable' =
              {x \in DOMAIN m_routingTable : m_routingTable[x].iface # i}
         /\ \A x \in DOMAIN m_routingTable' : m_routingTable'[x] = m_routingTable[x]
BY DEF DeleteAllRouteFromInterface

LEMMA NextOwnRoutes == IInv /\ [Next]_vars => OwnRoutes'
<1> SUFFICES ASSUME IInv, [Next]_vars PROVE OwnRoutes'
  OBVIOUS
<1>0. OwnRoutes
  BY DEF IInv
<1> USE DEF OwnRoutes
<1>1. ASSUME NEW d \in Device, AddBroadcastRoute(first'[d]), first'[d] \in OfDevice[d]
      PROVE  OwnRoutes'
  <2>1. /\ DOMAIN m_routingTable' = DOMAIN m_routingTable \cup {Broadcast[first'[d]]}
        /\ \A x \in DOMAIN m_routingTable : m_routingTable'[x] = m_routingTable[x]
        /\ Broadcast[first'[d]] \notin DOMAIN m_routingTable =>
             m_routingTable'[Broadcast[first'[d]]].iface = first'[d]
    BY <1>1, RouteAdded
  <2>2. ASSUME NEW e \in Device, OwnSubnet(e), NEW a \in OfDevice[e],
               Broadcast[a] \in DOMAIN m_routingTable'
        PROVE  m_routingTable'[Broadcast[a]].iface \in OfDevice[e]
    <3>1. CASE Broadcast[a] \in DOMAIN m_routingTable
      BY <1>0, <2>1, <2>2, <3>1
    <3>2. CASE Broadcast[a] \notin DOMAIN m_routingTable
      <4>1. Broadcast[a] = Broadcast[first'[d]]
        BY <2>1, <2>2, <3>2
      <4>2. e = d
        BY <1>1, <2>2, <4>1, OneBroadcast
      <4> QED BY <1>1, <2>1, <3>2, <4>1, <4>2
    <3> QED BY <3>1, <3>2
  <2> QED BY <2>2
<1>2. ASSUME NEW d \in Device, UpStep(d) PROVE OwnRoutes'
  BY <1>1, <1>2, FirstIsOwn DEF UpStep, SocketUp, IInv
<1>3. ASSUME NEW d \in Device, DownStep(d) PROVE OwnRoutes'
  <2>1. CASE m_routingTable' = EmptyTable
    BY <2>1 DEF EmptyTable
  <2>2. CASE m_routingTable' = DeleteAllRouteFromInterface(m_routingTable, first[d])
    BY <1>0, <2>2, RoutesDeleted
  <2> QED BY <1>3, <2>1, <2>2 DEF DownStep
<1>4. ASSUME NEW d \in Device, AddStep(d) PROVE OwnRoutes'
  <2>1. \/ AddBroadcastRoute(first'[d]) /\ first'[d] \in OfDevice[d]
        \/ m_routingTable' = m_routingTable
    BY <1>4 DEF AddStep, SocketUp
  <2> QED BY <1>0, <1>1, <2>1
<1>5. ASSUME NEW d \in Device, NEW a \in OfDevice[d], RemoveStep(d, a) PROVE OwnRoutes'
  BY <1>0, <1>5 DEF RemoveStep
<1>6. ASSUME NEW s \in Socket, HearStep(s) PROVE OwnRoutes'
  BY <1>0, <1>6 DEF HearStep
<1>7. CASE EndStep \/ (\E d \in Device : FailStep(d)) \/ UNCHANGED vars
  BY <1>0, <1>7, EndingSteps DEF IInv
<1> HIDE DEF OwnRoutes
<1> QED BY <1>2, <1>3, <1>4, <1>5, <1>6, <1>7, Steps DEF IInv

LEMMA NextRoutedOrSilent == IInv /\ [Next]_vars => RoutedOrSilent'
<1> SUFFICES ASSUME IInv, [Next]_vars PROVE RoutedOrSilent'
  OBVIOUS
<1> DEFINE Own == {d \in Device : OwnSubnet(d)}
           Quiet(d) == first[d] = NoIface /\ (Silent(d) \/ ~Running)
<1>0. \A d \in Own : up[d] => Routed(d) \/ Quiet(d)
  BY DEF IInv, RoutedOrSilent
<1>a. SUFFICES \A d \in Own : up'[d] => (Routed(d))' \/ (Quiet(d))'
  BY DEF RoutedOrSilent
<1>b. \A d \in Device : first[d] \in OfDevice[d] \cup {NoIface}
  BY DEF IInv, TypeOK
<1> HIDE DEF Own
<1>c. Own \subseteq Device
  BY DEF Own
<1>1. ASSUME NEW d \in Device, AddBroadcastRoute(first'[d]), first'[d] \in OfDevice[d]
      PROVE  /\ d \in Own => (Routed(d))'
             /\ \A e \in Device : Routed(e) => (Routed(e))'
  <2>1. DOMAIN m_routingTable' = DOMAIN m_routingTable \cup {Broadcast[first'[d]]}
    BY <1>1, RouteAdded
  <2>2. d \in Own => \A b \in OfDevice[d] : Broadcast[b] = Broadcast[first'[d]]
    BY <1>1, OneBroadcast DEF Own
  <2> QED BY <2>1, <2>2 DEF Routed
<1>2. ASSUME NEW d \in Device, SocketUp(d), first'[d] \in OfDevice[d],
             NEW e \in Device, e # d, Silent(e)
      PROVE  (Silent(e))'
  BY <1>2, OwnAddresses DEF SocketUp, Added, Mapped, Silent
<1>3. ASSUME NEW d \in Device, SocketUp(d), first'[d] \in OfDevice[d], Running, Apart(d)
      PROVE  \A e \in Own : up'[e] => (Routed(e))' \/ (Quiet(e))'
  <2>1. /\ d \in Own => (Routed(d))'
        /\ \A e \in Device : Routed(e) => (Routed(e))'
    BY <1>1, <1>3 DEF SocketUp
  <2>2. ASSUME NEW e \in Own, e # d, up'[e]
        PROVE  (Routed(e))' \/ (Quiet(e))'
    <3>1. e \in Device /\ up[e] /\ first'[e] = first[e]
      BY <1>3, <1>c, <2>2 DEF Apart
    <3>2. Silent(e) => (Silent(e))'
      BY <1>2, <1>3, <2>2, <3>1
    <3> QED BY <1>0, <1>3, <2>1, <2>2, <3>1, <3>2
  <2> QED BY <2>1, <2>2
<1>4. ASSUME NEW d \in Device, UpStep(d)
      PROVE  \A e \in Own : up'[e] => (Routed(e))' \/ (Quiet(e))'
  BY <1>3, <1>4, FirstIsOwn DEF UpStep, IInv
<1>5. ASSUME NEW d \in Device, DownStep(d)
      PROVE  \A e \in Own : up'[e] => (Routed(e))' \/ (Quiet(e))'
  <2>1. PICK s \in Mapped :
          /\ m_socketAddress[s] = first[d]
          /\ Kept(Mapped \ {s})
          /\ \/ Mapped = {s} /\ m_routingTable' = EmptyTable
             \/ /\ Mapped # {s}
                /\ m_routingTable' = DeleteAllRouteFromInterface(m_routingTable, first[d])
    BY <1>5 DEF DownStep
  <2>2. SUFFICES ASSUME NEW e \in Own, up'[e]
                 PROVE  (Routed(e))' \/ (Quiet(e))'
    OBVIOUS
  <2>3. e # d
    BY <1>5, <2>2 DEF DownStep
  <2>4. e \in Device /\ up[e] /\ first'[e] = first[e] /\ Running
    BY <1>5, <1>c, <2>2, <2>3 DEF DownStep, Apart
  <2>5. first[d] \notin OfDevice[e]
    BY <1>b, <2>3, <2>4, OwnAddresses
  <2>6. CASE Mapped = {s}
    <3>1. (Silent(e))'
      BY <2>1, <2>6 DEF Silent, Kept
    <3>2. first[e] # NoIface => \E t \in Mapped : m_socketAddress[t] = first[e]
      BY <2>4 DEF IInv, Listening, Served, FindSocketWithInterfaceAddress, Mapped
    <3>3. first[e] = NoIface
      BY <1>b, <2>1, <2>4, <2>5, <2>6, <3>2
    <3> QED BY <2>4, <3>1, <3>3
  <2>7. CASE Mapped # {s}
    <3>1. DOMAIN m_routingTable' =
            {x \in DOMAIN m_routingTable : m_routingTable[x].iface # first[d]}
      BY <2>1, <2>7, RoutesDeleted
    <3>2. OwnRoutes /\ OwnSubnet(e)
      BY <2>2 DEF IInv, Own
    <3>3. Routed(e) => (Routed(e))'
      BY <2>4, <2>5, <3>1, <3>2 DEF OwnRoutes, Routed
    <3>4. Silent(e) => (Silent(e))'
      BY <2>1 DEF Silent, Kept, Mapped
    <3> QED BY <1>0, <2>2, <2>4, <3>3, <3>4
  <2> QED BY <2>6, <2>7
<1>6. ASSUME NEW d \in Device, AddStep(d)
      PROVE  \A e \in Own : up'[e] => (Routed(e))' \/ (Quiet(e))'
  <2>1. CASE SocketUp(d)
    BY <1>3, <1>6, <2>1 DEF AddStep
  <2>2. CASE /\ up[d] => \E s \in DOMAIN m_socketAddress : m_socketAddress[s] = first'[d]
             /\ UNCHANGED <<sockets, m_routingTable>>
    <3>1. \A e \in Device : /\ Routed(e) => (Routed(e))'
                            /\ Silent(e) => (Silent(e))'
      BY <2>2 DEF Routed, Silent, sockets
    <3>2. Running /\ first'[d] \in OfDevice[d] /\ up'[d] = up[d] /\ Apart(d)
      BY <1>6 DEF AddStep
    <3>3. up[d] => ~Quiet(d)
      BY <2>2, <3>2 DEF Silent
    <3>4. \A e \in Device : e # d => up'[e] = up[e] /\ first'[e] = first[e]
      BY <3>2 DEF Apart
    <3> QED BY <1>0, <1>c, <3>1, <3>2, <3>3, <3>4
  <2> QED BY <1>6, <2>1, <2>2 DEF AddStep
<1>7. ASSUME NEW d \in Device, NEW a \in OfDevice[d], RemoveStep(d, a)
      PROVE  \A e \in Own : up'[e] => (Routed(e))' \/ (Quiet(e))'
  <2>1. Running /\ \A e \in Device : Routed(e) => (Routed(e))'
    BY <1>7 DEF RemoveStep, Routed
  <2>2. \A e \in Device : up'[e] = up[e] /\ (e # d => first'[e] = first[e])
    BY <1>7 DEF RemoveStep, Apart
  <2>3. ASSUME NEW e \in Device, e # d, Silent(e) PROVE (Silent(e))'
    <3>1. CASE UNCHANGED sockets
      BY <2>3, <3>1 DEF Silent, sockets
    <3>2. ASSUME NEW s \in Mapped, SocketGone(d, s) PROVE (Silent(e))'
      <4>1. first'[d] # NoIface => first'[d] \in OfDevice[d]
        BY NextType, FirstIsOwn DEF IInv, TypeOK
      <4> QED BY <2>3, <3>2, <4>1, OwnAddresses DEF Silent, SocketGone, Kept, Added, Mapped
    <3> QED BY <1>7, <3>1, <3>2 DEF RemoveStep, Mapped
  <2>4. first[d] = NoIface /\ Silent(d) => first'[d] = NoIface /\ (Silent(d))'
    <3> SUFFICES ASSUME first[d] = NoIface, Silent(d)
                 PROVE  first'[d] = NoIface /\ (Silent(d))'
      OBVIOUS
    <3>1. UNCHANGED sockets
      BY <1>7 DEF RemoveStep, Silent
    <3>2. first'[d] = NoIface
      BY <1>7, OwnAddresses DEF RemoveStep, Follows
    <3> QED BY <3>1, <3>2 DEF Silent, sockets
  <2> QED BY <1>0, <1>c, <2>1, <2>2, <2>3, <2>4
<1>8. ASSUME UNCHANGED <<up, first, m_routingTable>>, Running \/ ~Running',
             \A e \in Device : Silent(e) => (Silent(e))'
      PROVE  \A e \in Own : up'[e] => (Routed(e))' \/ (Quiet(e))'
  <2>1. \A e \in Device : Routed(e) => (Routed(e))'
    BY <1>8 DEF Routed
  <2> QED BY <1>0, <1>c, <1>8, <2>1
<1>9. ASSUME NEW s \in Socket, HearStep(s)
      PROVE  \A e \in Own : up'[e] => (Routed(e))' \/ (Quiet(e))'
  <2>1. \A e \in Device : Silent(e) => (Silent(e))'
    BY <1>9, OwnAddresses DEF HearStep, Silent, Mapped
  <2>2. UNCHANGED <<up, first, m_routingTable>> /\ Running
    BY <1>9 DEF HearStep, layer3
  <2> QED BY <1>8, <2>1, <2>2
<1>10. ASSUME NEW d \in Device, FailStep(d)
       PROVE  \A e \in Own : up'[e] => (Routed(e))' \/ (Quiet(e))'
  <2>1. UNCHANGED m_routingTable /\ ~Running'
    BY <1>10 DEF FailStep
  <2>2. \A e \in Device : Routed(e) => (Routed(e))'
    BY <2>1 DEF Routed
  <2>3. \A e \in Device : first'[e] = first[e] /\ (e # d => up'[e] = up[e])
    BY <1>10 DEF FailStep, Apart
  <2>4. up'[d] => first[d] = NoIface
    BY <1>10 DEF FailStep
  <2> QED BY <1>0, <1>c, <2>1, <2>2, <2>3, <2>4
<1>11. CASE EndStep
  <2>1. /\ UNCHANGED <<up, first, m_routingTable>> /\ ~Running'
        /\ \A e \in Device : Silent(e) => (Silent(e))'
    BY <1>11 DEF EndStep, layer3, sockets, Silent
  <2> QED BY <1>8, <2>1
<1>12. CASE UNCHANGED vars
  <2>1. /\ UNCHANGED <<up, first, m_routingTable>> /\ (Running \/ ~Running')
        /\ \A e \in Device : Silent(e) => (Silent(e))'
    BY <1>12 DEF vars, layer3, sockets, Silent, Running
  <2> QED BY <1>8, <2>1
<1> HIDE DEF Quiet
<1> QED BY <1>4, <1>5, <1>6, <1>7, <1>9, <1>10, <1>11, <1>12, Steps DEF IInv

LEMMA NextSocketPerInterface == IInv /\ [Next]_vars => SocketPerInterface'
<1> SUFFICES ASSUME IInv, [Next]_vars, ~reassigns' PROVE SocketPerInterface'
  BY DEF SocketPerInterface
<1> DEFINE OneEach == \A s, t \in Mapped : m_socketAddress[s] = m_socketAddress[t] =>
                        s = t \/ m_socketAddress[s] = NoIface
           OfServed == \A s \in Mapped : m_socketAddress[s] # NoIface =>
                         \E d \in Device : up[d] /\ first[d] = m_socketAddress[s]
<1>0. ~reassigns => OneEach /\ OfServed
  BY DEF IInv, SocketPerInterface, Mapped
<1>a. SUFFICES OneEach' /\ OfServed'
  BY DEF SocketPerInterface, Mapped
<1>b. /\ \A d \in Device : first[d] # NoIface => first[d] \in OfDevice[d]
      /\ \A d \in Device : first[d] \notin more[d] /\ more[d] \subseteq OfDevice[d]
  BY FirstIsOwn DEF IInv, AddressesDistinct
<1> USE DEF Mapped, Apart
<1>1. ASSUME NEW d \in Device, UpStep(d) PROVE OneEach' /\ OfServed'
  <2>1. OneEach /\ OfServed /\ ~up[d]
    BY <1>0, <1>1 DEF UpStep
  <2>2. \A s \in Mapped : m_socketAddress[s] # first[d]
    BY <1>1, <1>b, <2>1, OwnAddresses DEF UpStep
  <2> QED BY <1>1, <2>1, <2>2 DEF UpStep, SocketUp, Added
<1>2. ASSUME NEW d \in Device, DownStep(d) PROVE OneEach' /\ OfServed'
  <2>1. OneEach /\ OfServed
    BY <1>0, <1>2 DEF DownStep
  <2>2. PICK s \in Mapped : m_socketAddress[s] = first[d] /\ Kept(Mapped \ {s})
    BY <1>2 DEF DownStep
  <2>3. OneEach'
    BY <2>1, <2>2 DEF Kept
  <2>4. ASSUME NEW t \in Mapped \ {s}, m_socketAddress[t] # NoIface
        PROVE  \E e \in Device : up'[e] /\ first'[e] = m_socketAddress[t]
    <3>1. PICK e \in Device : up[e] /\ first[e] = m_socketAddress[t]
      BY <2>1, <2>4
    <3>2. e # d
      BY <2>1, <2>2, <2>4, <3>1
    <3> QED BY <1>2, <3>1, <3>2 DEF DownStep
  <2>5. OfServed'
    BY <2>2, <2>4 DEF Kept
  <2> QED BY <2>3, <2>5
<1>3. ASSUME NEW d \in Device, AddStep(d) PROVE OneEach' /\ OfServed'
  <2>1. OneEach /\ OfServed
    BY <1>0, <1>3 DEF AddStep
  <2>5. \A e \in Device : up[e] /\ first[e] # NoIface => up'[e] /\ first'[e] = first[e]
    BY <1>3 DEF AddStep
  <2>2. \A s \in Mapped : m_socketAddress[s] # NoIface =>
          \E e \in Device : up'[e] /\ first'[e] = m_socketAddress[s]
    <3> SUFFICES ASSUME NEW s \in Mapped, m_socketAddress[s] # NoIface
                 PROVE  \E e \in Device : up'[e] /\ first'[e] = m_socketAddress[s]
      OBVIOUS
    <3>1. PICK e \in Device : up[e] /\ first[e] = m_socketAddress[s]
      BY <2>1
    <3> QED BY <2>5, <3>1
  <2>3. CASE SocketUp(d) /\ up[d] /\ \A s \in Mapped : m_socketAddress[s] # first'[d]
    <3>1. PICK t \in Socket : Added(Mapped, t, d, first'[d])
      BY <2>3 DEF SocketUp
    <3>2. up'[d]
      BY <1>3, <2>3 DEF AddStep
    <3>3. OfServed'
      BY <2>2, <3>1, <3>2 DEF Added
    <3>4. OneEach'
      BY <2>1, <2>3, <3>1 DEF Added
    <3> QED BY <3>3, <3>4
  <2>4. CASE UNCHANGED sockets
    BY <2>1, <2>2, <2>4 DEF sockets
  <2> QED BY <1>3, <2>3, <2>4 DEF AddStep
<1>4. ASSUME NEW d \in Device, NEW a \in OfDevice[d], RemoveStep(d, a)
      PROVE  OneEach' /\ OfServed'
  <2>1. OneEach /\ OfServed
    BY <1>0, <1>4 DEF RemoveStep
  <2>2. a # NoIface /\ \A e \in Device : e # d => first[e] # a
    BY <1>b, OwnAddresses
  <2>3. ASSUME NEW t \in Mapped, m_socketAddress[t] # a, m_socketAddress[t] # NoIface
        PROVE  \E e \in Device : up'[e] /\ first'[e] = m_socketAddress[t]
    BY <1>4, <2>1, <2>3 DEF RemoveStep, Follows
  <2>4. CASE UNCHANGED sockets /\ \A s \in Mapped : m_socketAddress[s] # a
    BY <2>1, <2>3, <2>4 DEF sockets
  <2>5. ASSUME NEW s \in Mapped, m_socketAddress[s] = a, SocketGone(d, s)
        PROVE  OneEach' /\ OfServed'
    <3>1. \A t \in Mapped \ {s} : m_socketAddress[t] # a
      BY <2>1, <2>2, <2>5
    <3>2. up[d] /\ first[d] = a
      BY <2>1, <2>2, <2>5
    <3>3. \A t \in Mapped \ {s} : first'[d] # NoIface => m_socketAddress[t] # first'[d]
      BY <1>4, <1>b, <2>1, <3>2, OwnAddresses DEF RemoveStep, Follows
    <3>4. CASE Kept(Mapped \ {s})
      BY <2>1, <2>3, <3>1, <3>4 DEF Kept
    <3>5. CASE /\ first'[d] # NoIface
               /\ \E t \in Socket : Added(Mapped \ {s}, t, NoDevice, first'[d])
      <4>1. PICK t \in Socket : Added(Mapped \ {s}, t, NoDevice, first'[d])
        BY <3>5
      <4>2. up'[d]
        BY <1>4, <3>2 DEF RemoveStep
      <4> QED BY <2>1, <2>3, <3>1, <3>3, <4>1, <4>2 DEF Added
    <3> QED BY <2>5, <3>4, <3>5 DEF SocketGone
  <2> QED BY <1>4, <2>4, <2>5 DEF RemoveStep
<1>5. ASSUME NEW s \in Socket, HearStep(s) PROVE OneEach' /\ OfServed'
  BY <1>0, <1>5 DEF HearStep, layer3
<1>6. ASSUME NEW d \in Device, FailStep(d) PROVE OneEach' /\ OfServed'
  <2>1. OneEach /\ OfServed /\ UNCHANGED sockets
    BY <1>0, <1>6 DEF FailStep
  <2>2. ASSUME NEW t \in Mapped, m_socketAddress[t] # NoIface
        PROVE  \E e \in Device : up'[e] /\ first'[e] = m_socketAddress[t]
    <3>1. PICK e \in Device : up[e] /\ first[e] = m_socketAddress[t]
      BY <2>1, <2>2
    <3>2. e # d
      BY <1>6, <2>2, <3>1 DEF FailStep
    <3> QED BY <1>6, <3>1, <3>2 DEF FailStep
  <2> QED BY <2>1, <2>2 DEF sockets
<1>7. CASE EndStep \/ UNCHANGED vars
  BY <1>0, <1>7 DEF EndStep, vars, sockets, layer3
<1> HIDE DEF OneEach, OfServed
<1> QED BY <1>1, <1>2, <1>3, <1>4, <1>5, <1>6, <1>7, Steps DEF IInv

-----------------------------------------------------------------------------
(* The theorems                                                            *)

LEMMA Inductive == Spec => []IInv
<1>1. Init => IInv
  BY InitIInv
<1>2. IInv /\ [Next]_vars => IInv'
  BY NextType, NextAddressesDistinct, NextBoundToOwn, NextOwnRoutes, NextListening,
     NextRoutedOrSilent, NextSocketPerInterface, NextNoClosedSocket, NextFirstSocketHears
     DEF IInv
<1> QED BY <1>1, <1>2, PTL DEF Spec

\* TypeOK holds throughout: the map holds sockets with interface addresses, and
\* the table entries, whatever the callbacks do.
THEOREM TypeCorrect == Spec => []TypeOK
<1>1. IInv => TypeOK
  BY DEF IInv
<1> QED BY <1>1, Inductive, PTL

\* Listening holds throughout: every device that is up and has an address has a
\* socket, which NotifyInterfaceDown finds, and the first socket of a node hears.
THEOREM DevicesHaveSockets == Spec => []Listening
<1>1. IInv => Listening
  BY DEF IInv
<1> QED BY <1>1, Inductive, PTL

\* SocketPerInterface holds throughout: unless SetUp is repeated, no interface
\* address has two sockets, and none is left for an address that has gone.
THEOREM OneSocketEach == Spec => []SocketPerInterface
<1>1. IInv => SocketPerInterface
  BY DEF IInv
<1> QED BY <1>1, Inductive, PTL

\* NoClosedSocket holds throughout: SendBroadcast and RespondToClusterHead never
\* send through a socket that NotifyInterfaceDown has closed.
THEOREM SocketsAreOpen == Spec => []NoClosedSocket
<1>1. IInv => NoClosedSocket
  BY DEF IInv
<1> QED BY <1>1, Inductive, PTL

\* BroadcastRouteStands holds throughout: where a device has a subnet of its own,
\* the routes that go with another interface, and the coming and going of its own
\* addresses, never take its broadcast route.
THEOREM BroadcastsAreRouted == Spec => []BroadcastRouteStands
<1>1. IInv => BroadcastRouteStands
  <2> SUFFICES ASSUME IInv, NEW d \in Device, OwnSubnet(d), Served(d)
               PROVE  Broadcast[first[d]] \in DOMAIN m_routingTable
    BY DEF BroadcastRouteStands, LookupRoute
  <2>1. first[d] \in OfDevice[d]
    BY FirstIsOwn DEF IInv, Served
  <2> QED BY <2>1 DEF IInv, RoutedOrSilent, Routed, Served
<1> QED BY <1>1, Inductive, PTL

\* The reasons for which a handler ends the program are the only ones.
LEMMA NextUnservedFailure == IInv /\ [Next]_vars => [UnservedFailure]_vars
<1> SUFFICES ASSUME IInv, Next PROVE UnservedFailure
  OBVIOUS
<1>0. Listening
  BY DEF IInv
<1>1. ASSUME UNCHANGED aborted, Running PROVE UnservedFailure
  BY <1>1 DEF UnservedFailure, Running
<1>2. ASSUME NEW d \in Device, SetUp(d) PROVE UnservedFailure
  <2>1. CASE first[d] = NoIface /\ Abort("NotifyInterfaceUp")
    BY <2>1 DEF Abort, UnservedFailure
  <2> QED BY <1>1, <1>2, <2>1 DEF SetUp, NotifyInterfaceUp
<1>3. ASSUME NEW d \in Device, SetDown(d) PROVE UnservedFailure
  <2>1. CASE /\ FindSocketWithInterfaceAddress(first[d]) = {} \/ first[d] = NoIface
             /\ Abort("NotifyInterfaceDown")
    <3>1. ~Served(d)
      BY <1>0, <2>1 DEF Listening, Served
    <3> QED BY <1>3, <2>1, <3>1 DEF SetDown, Abort, UnservedFailure
  <2> QED BY <1>1, <1>3, <2>1 DEF SetDown, NotifyInterfaceDown
<1>4. ASSUME NEW d \in Device, NEW a \in OfDevice[d], AddAddress(d, a) \/ RemoveAddress(d, a)
      PROVE  UnservedFailure
  BY <1>1, <1>4 DEF AddAddress, RemoveAddress
<1>5. ASSUME NEW s \in Socket, RecvLeach(s) PROVE UnservedFailure
  <2>1. CASE Holder(Receiver(s)) = {} /\ Abort("RecvLeach")
    BY <1>5, <2>1 DEF RecvLeach, Hears, Abort, UnservedFailure
  <2> QED BY <1>1, <1>5, <2>1 DEF RecvLeach
<1>6. ASSUME NEW d \in Device, Served(d), first[d] = m_mainAddress
      PROVE  FindSocketWithInterfaceAddress(m_mainAddress) # {} /\ Holder(m_mainAddress) # {}
  BY <1>0, <1>6 DEF Listening, Served, Holder
<1>7. CASE SendBroadcast \/ RespondToClusterHead
  BY <1>6, <1>7 DEF SendBroadcast, RespondToClusterHead, Abort, UnservedFailure
<1> QED BY <1>2, <1>3, <1>4, <1>5, <1>7 DEF Next

\* FailsOnlyUnserved holds throughout: no handler uses a null pointer for the sake
\* of a device that is up and keeps its address.
THEOREM FailuresAreExplained == Spec => FailsOnlyUnserved
<1> QED BY Inductive, NextUnservedFailure, PTL DEF Spec, FailsOnlyUnserved

=============================================================================
