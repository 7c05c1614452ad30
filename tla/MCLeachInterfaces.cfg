SPECIFICATION Spec
CONSTANTS
  NoAddr = NoAddr
  Loopback = Loopback
  NoIface = NoIface
  NoDevice = NoDevice
  lo = lo
  a1 = a1
  a2 = a2
  b1 = b1
  b2 = b2
  c1 = c1
  wifi0 = wifi0
  wifi1 = wifi1
  wifi2 = wifi2
  Net1 = Net1
  Net2 = Net2
  Net3 = Net3
  LoIface = lo
  Blank = Blank
  Address <- MCAddress
  Iface <- MCIface
  Broadcast <- MCBroadcast
  Device = {wifi0, wifi1, wifi2}
  OfDevice <- MCOfDevice
  Socket = {s1, s2, s3}
SYMMETRY Interchangeable
INVARIANTS
  TypeOK
  Listening
  SocketPerInterface
  NoClosedSocket
  BroadcastRouteStands

  
CHECK_DEADLOCK FALSE
