-------------------------- MODULE LeachInterfaces --------------------------
(***************************************************************************)
(* The interface callbacks of leach::RoutingProtocol at a node with any    *)
(* number of network devices: NotifyInterfaceUp and Down, NotifyAddAddress *)
(* and NotifyRemoveAddress, the sockets they make, the map m_socketAddress *)
(* from a socket to an interface address, and the broadcast routes.        *)
(*                                                                         *)
(* Ipv4L3Protocol is external; it notifies the protocol within SetUp,      *)
(* SetDown, AddAddress and RemoveAddress, so each action here is one such  *)
(* call together with its handler.  Of the addresses of a device, kept in  *)
(* a list by the IP layer, the code reads the first only: the others are a *)
(* set, and any of them may follow when the first is removed.              *)
(*                                                                         *)
(* Where the code uses a pointer that is null, or asserts, the program     *)
(* ends: aborted names the handler, and no action follows.  The table is   *)
(* that of the loopback and broadcast routes; LeachCluster has the others. *)
(***************************************************************************)
EXTENDS LeachRoutingTable, FiniteSets

CONSTANTS
  Device,        \* the network devices but for the loopback
  OfDevice,      \* Device -> the interface addresses it may be given
  LoIface,       \* that of the loopback device
  NoDevice,
  Socket         \* the sockets there is room for in a run

\* No two devices of the node have an address in common.
ASSUME InterfaceAssumption ==
  /\ NoDevice \notin Device
  /\ LoIface \in Iface \ {NoIface}
  /\ OfDevice \in [Device -> SUBSET (Iface \ {NoIface, LoIface})]
  /\ \A d, e \in Device : d # e => OfDevice[d] \cap OfDevice[e] = {}

VARIABLES
  up,                \* which devices are up
  first,             \* GetAddress (i, 0) of each device, or NoIface
  more,              \* its other addresses
  m_socketAddress,
  life,              \* of each socket: unborn, open, deaf (not bound) or closed
  bound,             \* the device each socket is bound to, or NoDevice
  m_routingTable,
  m_mainAddress,
  reassigns,         \* whether SetUp may be called for a device that is up
  aborted            \* the handler the program ended in, or "none"

layer3 == <<up, first, more, reassigns>>
sockets == <<m_socketAddress, life, bound>>
vars == <<layer3, sockets, m_routingTable, m_mainAddress, aborted>>

Running == aborted = "none"

\* SetIpv4 finds the loopback device alone, and stores its route.
Init ==
  /\ up = [d \in Device |-> FALSE]
  /\ first = [d \in Device |-> NoIface]
  /\ more = [d \in Device |-> {}]
  /\ m_socketAddress = [s \in {} |-> NoIface]
  /\ life = [s \in Socket |-> "unborn"]
  /\ bound = [s \in Socket |-> NoDevice]
  /\ m_routingTable =
       AddRoute(EmptyTable, [NewEntry(Loopback, LoIface, Loopback) EXCEPT !.flag = "INVALID"])
  /\ m_mainAddress = NoIface
  /\ reassigns \in BOOLEAN
  /\ aborted = "none"

-----------------------------------------------------------------------------
\* The map with and without an entry for s.
Insert(map, s, iface) ==
  [t \in DOMAIN map \cup {s} |-> IF t = s THEN iface ELSE map[t]]
Erase(map, s) == [t \in DOMAIN map \ {s} |-> map[t]]

\* FindSocketWithInterfaceAddress: the map is ordered by pointers, so any of
\* the sockets with the address may be found.
FindSocketWithInterfaceAddress(iface) ==
  {s \in DOMAIN m_socketAddress : m_socketAddress[s] = iface}

\* The program ends in a handler, which has changed nothing before.
Abort(handler) ==
  /\ aborted' = handler
  /\ UNCHANGED <<sockets, m_routingTable, m_mainAddress>>

\* A new socket for iface, bound to a device or to none.  The code does not
\* look whether Bind succeeds, and every socket asks for the same port: if there
\* is another one, Bind may be refused, and the socket sends but hears nothing.
Listen(map, s, device, iface) ==
  /\ life[s] = "unborn"
  /\ \/ life' = [life EXCEPT ![s] = "open"]
     \/ /\ \E t \in Socket : life[t] # "unborn"
        /\ life' = [life EXCEPT ![s] = "deaf"]
  /\ bound' = [bound EXCEPT ![s] = device]
  /\ m_socketAddress' = Insert(map, s, iface)

\* Mutant: interface and next hop are swapped.
AddBroadcastRouteSwapped(iface) ==
  m_routingTable' =
    AddRoute(m_routingTable, NewEntry(Broadcast[iface], Broadcast[iface], iface))

AddBroadcastRoute(iface) ==
  m_routingTable' =
    AddRoute(m_routingTable, NewEntry(Broadcast[iface], iface, Broadcast[iface]))

\* An interface without an address has no device to be found by it.
NotifyInterfaceUp(d) ==
  IF first[d] = NoIface THEN Abort("NotifyInterfaceUp") ELSE
  /\ UNCHANGED aborted
  /\ \E s \in Socket : Listen(m_socketAddress, s, d, first[d])
  /\ AddBroadcastRoute(first[d])
  /\ m_mainAddress' = IF m_mainAddress = NoIface THEN first[d] ELSE m_mainAddress

\* Mutant: the socket is closed and stays in the map.
CloseSocketKeeping(d, s) ==
  /\ life' = [life EXCEPT ![s] = "closed"]
  /\ m_socketAddress' = m_socketAddress
  /\ m_routingTable' = DeleteAllRouteFromInterface(m_routingTable, first[d])

\* Mutant: the routes go with every interface, not with the last.
CloseSocketClearing(d, s) ==
  /\ life' = [life EXCEPT ![s] = "closed"]
  /\ m_socketAddress' = Erase(m_socketAddress, s)
  /\ m_routingTable' = Clear(m_routingTable)

CloseSocket(d, s) ==
  /\ life' = [life EXCEPT ![s] = "closed"]
  /\ m_socketAddress' = Erase(m_socketAddress, s)
  /\ m_routingTable' =
       IF DOMAIN m_socketAddress = {s} THEN Clear(m_routingTable)
       ELSE DeleteAllRouteFromInterface(m_routingTable, first[d])

\* The socket is asserted, and used.  Without an address, GetAddress (i, 0)
\* asserts, or where assertions are off gives the blank address, for which a
\* blank entry may be found.
NotifyInterfaceDown(d) ==
  \/ /\ FindSocketWithInterfaceAddress(first[d]) = {} \/ first[d] = NoIface
     /\ Abort("NotifyInterfaceDown")
  \/ /\ \E s \in FindSocketWithInterfaceAddress(first[d]) : CloseSocket(d, s)
     /\ UNCHANGED <<bound, m_mainAddress, aborted>>

\* Mutant: only the first address a device gets makes a socket.
NotifyAddAddressOnce(d) ==
  IF up[d] /\ m_mainAddress = NoIface
  THEN /\ \E s \in Socket : Listen(m_socketAddress, s, d, first'[d])
       /\ AddBroadcastRoute(first'[d])
  ELSE UNCHANGED <<sockets, m_routingTable>>

\* The handler looks at the first address, old or new.
NotifyAddAddress(d) ==
  IF up[d] /\ FindSocketWithInterfaceAddress(first'[d]) = {}
  THEN /\ \E s \in Socket : Listen(m_socketAddress, s, d, first'[d])
       /\ AddBroadcastRoute(first'[d])
  ELSE UNCHANGED <<sockets, m_routingTable>>

\* Mutant: the new socket is made beside the old one.
NotifyRemoveAddressKeeping(d, a) ==
  IF FindSocketWithInterfaceAddress(a) # {} /\ first'[d] # NoIface
  THEN \E t \in Socket : Listen(m_socketAddress, t, NoDevice, first'[d])
  ELSE UNCHANGED sockets

\* Mutant: the socket is forgotten, and none made for the next address.
NotifyRemoveAddressForgetting(d, a) ==
  IF FindSocketWithInterfaceAddress(a) = {} THEN UNCHANGED sockets
  ELSE \E s \in FindSocketWithInterfaceAddress(a) :
         m_socketAddress' = Erase(m_socketAddress, s) /\ UNCHANGED <<life, bound>>

\* The socket of a removed address leaves the map and stays open; the next
\* address gets a socket that is bound to no device.  No route changes.
NotifyRemoveAddress(d, a) ==
  IF FindSocketWithInterfaceAddress(a) = {} THEN UNCHANGED sockets
  ELSE \E s \in FindSocketWithInterfaceAddress(a) :
         IF first'[d] = NoIface
         THEN m_socketAddress' = Erase(m_socketAddress, s) /\ UNCHANGED <<life, bound>>
         ELSE \E t \in Socket : Listen(Erase(m_socketAddress, s), t, NoDevice, first'[d])

-----------------------------------------------------------------------------
\* Ipv4L3Protocol::SetUp notifies the protocol of a device that is up already
\* as well, as when Ipv4AddressHelper::Assign gives it a second address.
SetUp(d) ==
  /\ Running
  /\ up[d] => reassigns
  /\ up' = [up EXCEPT ![d] = TRUE]
  /\ NotifyInterfaceUp(d)
  /\ UNCHANGED <<first, more, reassigns>>

\* SetDown too notifies whether or not the device was up.
SetDown(d) ==
  /\ Running
  /\ up' = [up EXCEPT ![d] = FALSE]
  /\ NotifyInterfaceDown(d)
  /\ UNCHANGED <<first, more, reassigns>>

AddAddress(d, a) ==
  /\ Running
  /\ a \notin more[d] \cup {first[d]}
  /\ first' = [first EXCEPT ![d] = IF @ = NoIface THEN a ELSE @]
  /\ more' = [more EXCEPT ![d] = IF first[d] = NoIface THEN @ ELSE @ \cup {a}]
  /\ NotifyAddAddress(d)
  /\ UNCHANGED <<up, reassigns, m_mainAddress, aborted>>

\* The address a of d goes, and the next one may become the first.
Removed(d, a) ==
  \/ /\ a \in more[d]
     /\ more' = [more EXCEPT ![d] = @ \ {a}]
     /\ UNCHANGED first
  \/ /\ a = first[d] /\ more[d] = {}
     /\ first' = [first EXCEPT ![d] = NoIface]
     /\ UNCHANGED more
  \/ /\ a = first[d]
     /\ \E b \in more[d] : /\ first' = [first EXCEPT ![d] = b]
                           /\ more' = [more EXCEPT ![d] = @ \ {b}]

RemoveAddress(d, a) ==
  /\ Running
  /\ Removed(d, a)
  /\ NotifyRemoveAddress(d, a)
  /\ UNCHANGED <<up, reassigns, m_routingTable, m_mainAddress, aborted>>

\* The devices with an address, which GetInterfaceForAddress finds.
Holder(iface) ==
  {d \in Device : iface # NoIface /\ iface \in more[d] \cup {first[d]}}

\* A message that RouteInput lets through (it does not when the map is empty)
\* reaches each socket that hears a device that is up.
Hears(s) ==
  /\ life[s] = "open" /\ DOMAIN m_socketAddress # {}
  /\ \E d \in Device : up[d] /\ first[d] # NoIface /\ bound[s] \in {d, NoDevice}

\* The address m_socketAddress[s], blank for a socket that has left the map.
Receiver(s) == IF s \in DOMAIN m_socketAddress THEN m_socketAddress[s] ELSE NoIface

\* Reading the map makes a blank entry.  A JOIN, or any message at the sink,
\* needs no more; an advertisement needs the device with the address.
RecvLeach(s) ==
  /\ Running /\ Hears(s)
  /\ \/ /\ s \notin DOMAIN m_socketAddress
        /\ m_socketAddress' = Insert(m_socketAddress, s, NoIface)
        /\ UNCHANGED <<life, bound, m_routingTable, m_mainAddress, aborted>>
     \/ /\ Holder(Receiver(s)) = {}
        /\ Abort("RecvLeach")
  /\ UNCHANGED layer3

\* A cluster head advertises and makes its route to the sink.  What it does
\* when it succeeds is in LeachCluster, and changes nothing here.
SendBroadcast ==
  /\ Running
  /\ FindSocketWithInterfaceAddress(m_mainAddress) = {} \/ Holder(m_mainAddress) = {}
  /\ Abort("SendBroadcast")
  /\ UNCHANGED layer3

\* A member that has heard a head answers it; its main address may have gone
\* in between.
RespondToClusterHead ==
  /\ Running /\ m_mainAddress # NoIface
  /\ FindSocketWithInterfaceAddress(m_mainAddress) = {}
  /\ Abort("RespondToClusterHead")
  /\ UNCHANGED layer3

Next ==
  \/ \E d \in Device :
       \/ SetUp(d)
       \/ SetDown(d)
       \/ \E a \in OfDevice[d] : AddAddress(d, a) \/ RemoveAddress(d, a)
  \/ \E s \in Socket : RecvLeach(s)
  \/ SendBroadcast
  \/ RespondToClusterHead

Spec == Init /\ [][Next]_vars

-----------------------------------------------------------------------------
\* Every variable keeps its type.
TypeOK ==
  /\ up \in [Device -> BOOLEAN] /\ reassigns \in BOOLEAN
  /\ first \in [Device -> Iface] /\ more \in [Device -> SUBSET Iface]
  /\ \A d \in Device : first[d] \in OfDevice[d] \cup {NoIface} /\ more[d] \subseteq OfDevice[d]
  /\ DOMAIN m_socketAddress \subseteq Socket
  /\ m_socketAddress \in [DOMAIN m_socketAddress -> Iface]
  /\ life \in [Socket -> {"unborn", "open", "deaf", "closed"}]
  /\ bound \in [Socket -> Device \cup {NoDevice}]
  /\ IsTable(m_routingTable)
  /\ m_mainAddress \in Iface
  /\ aborted \in {"none", "NotifyInterfaceUp", "NotifyInterfaceDown", "RecvLeach",
                  "SendBroadcast", "RespondToClusterHead"}

Served(d) == up[d] /\ first[d] # NoIface

\* A device that is up and has an address has a socket for its first address,
\* bound to it or to no device, so that NotifyInterfaceDown finds one to close.
\* It hears, unless it is not the first socket of the node and Bind was refused.
Listening ==
  \A d \in Device : Served(d) =>
    \E s \in FindSocketWithInterfaceAddress(first[d]) :
      /\ bound[s] \in {d, NoDevice}
      /\ life[s] = "open" \/ \E t \in Socket \ {s} : life[t] # "unborn"

\* leach-routing-protocol.h:205 "Raw socket per each IP interface": unless
\* SetUp is repeated, the map has exactly one entry for each device that is up
\* and has an address, apart from the blank ones of RecvLeach.
SocketPerInterface ==
  ~reassigns =>
    /\ \A s, t \in DOMAIN m_socketAddress :
         m_socketAddress[s] = m_socketAddress[t] => s = t \/ m_socketAddress[s] = NoIface
    /\ \A s \in DOMAIN m_socketAddress : m_socketAddress[s] # NoIface =>
         \E d \in Device : up[d] /\ first[d] = m_socketAddress[s]

\* Whatever is found through the map can be sent through: it is not closed.
NoClosedSocket == \A s \in DOMAIN m_socketAddress : life[s] \in {"open", "deaf"}

\* The addresses d may be given are those of a subnet that no other device of
\* the node is in.
OwnSubnet(d) ==
  \A a \in OfDevice[d] :
    /\ \A b \in Iface : Broadcast[b] = Broadcast[a] <=> b \in OfDevice[d]
    /\ Broadcast[a] # Loopback

\* Although no route is added for an address that moves up, and whatever happens
\* to the other devices, a device with a subnet of its own keeps its broadcast
\* route while it is up and has an address.  One that shares a subnet, or whose
\* next address is in another, may lose it.
BroadcastRouteStands ==
  \A d \in Device : OwnSubnet(d) /\ Served(d) =>
    LookupRoute(m_routingTable, Broadcast[first[d]])

\* What is not in use when a handler ends the program.
UnservedFailure ==
  /\ aborted' = "NotifyInterfaceUp" => \E d \in Device : first[d] = NoIface
  /\ aborted' = "NotifyInterfaceDown" =>
       \E d \in Device : ~Served(d) /\ up' = [up EXCEPT ![d] = FALSE]
  /\ aborted' \in {"SendBroadcast", "RespondToClusterHead"} =>
       ~\E d \in Device : Served(d) /\ first[d] = m_mainAddress
  /\ aborted' = "RecvLeach" =>
       \E s \in Socket : life[s] = "open" /\ Holder(Receiver(s)) = {}

\* The program ends only where a device was not in use: an interface is set up
\* without an address, or set down that was down or without an address; the main
\* address is no longer the first of a device in use; or an advertisement is
\* heard through a socket whose address has gone.
FailsOnlyUnserved == [][UnservedFailure]_vars

=============================================================================
