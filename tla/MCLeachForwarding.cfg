SPECIFICATION FairSpec
CONSTANTS
  Packet = {p1, p2}
  Self = Self
  Peer = Peer
  Sink = Sink
  AllOnes = AllOnes
  Multicast = Multicast
  SubnetBroadcast = SubnetBroadcast
  NoAddr = NoAddr
  Loopback = Loopback
  NoIface = NoIface
  Address <- MCAddress
  Iface <- MCIface
  Broadcast <- MCBroadcast
  MaxTtl = 4
  FlushDelay = 2
INVARIANTS
  TypeOK
  Conservation
  NoneStranded
PROPERTIES
  EveryPacketSettles
  RouteTakesWaiting
  KeepsCustody
