-------------------------- MODULE LeachRoutingTable --------------------------
(***************************************************************************)
(* The routing table of a node (leach-routing-table.h/.cc): a std::map     *)
(* from a destination address to one RoutingTableEntry.  The table is a    *)
(* function whose domain is the set of addresses that have an entry, so    *)
(* the operations the protocol uses are operators on such functions.       *)
(*                                                                         *)
(* An entry keeps what the protocol reads: destination, next hop, local    *)
(* interface and flag.  The output device follows from the interface.      *)
(***************************************************************************)

CONSTANTS
  Address,          \* Ipv4Address values
  Iface,            \* Ipv4InterfaceAddress values
  NoAddr,           \* Ipv4Address ()
  NoIface,          \* Ipv4InterfaceAddress ()
  Loopback,         \* 127.0.0.1
  Broadcast         \* Iface -> Address: Ipv4InterfaceAddress::GetBroadcast

ASSUME AddressAssumption ==
  /\ NoAddr \in Address
  /\ Loopback \in Address
  /\ NoIface \in Iface
  /\ Broadcast \in [Iface -> Address]

Flag == {"VALID", "INVALID"}

RoutingTableEntry == [dst : Address, iface : Iface, nextHop : Address, flag : Flag]

IsTable(table) ==
  /\ table = [a \in DOMAIN table |-> table[a]]
  /\ DOMAIN table \subseteq Address
  /\ \A a \in DOMAIN table : table[a] \in RoutingTableEntry

\* The constructor with its arguments; the flag starts VALID.
NewEntry(dst, iface, nextHop) ==
  [dst |-> dst, iface |-> iface, nextHop |-> nextHop, flag |-> "VALID"]

\* The default constructor and Reset (): blank addresses, blank interface.
BlankEntry == NewEntry(NoAddr, NoIface, NoAddr)

\* RoutingTableEntry::Copy has an empty body: the entry keeps what it held.
Copy(entry, from) == entry

EmptyTable == [a \in {} |-> BlankEntry]

\* std::map::insert: an entry already stored for the destination wins.
AddRoute(table, entry) ==
  [a \in DOMAIN table \cup {entry.dst} |->
     IF a \in DOMAIN table THEN table[a] ELSE entry]

DeleteRoute(table, dst) == [a \in DOMAIN table \ {dst} |-> table[a]]

\* Every entry of one interface address goes, whatever its destination.
DeleteAllRouteFromInterface(table, iface) ==
  [a \in {b \in DOMAIN table : table[b].iface # iface} |-> table[a]]

Clear(table) == EmptyTable

LookupRoute(table, id) == id \in DOMAIN table

\* The three-argument lookup made with forRouteInput = true.
LookupForRouteInput(table, id) ==
  id \in DOMAIN table /\ id # Broadcast[table[id].iface]

=============================================================================
