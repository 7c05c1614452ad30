------------------------- MODULE MCLeachForwarding -------------------------
(* A small instance of LeachForwarding.                                    *)
EXTENDS LeachForwarding

CONSTANT SubnetBroadcast

MCAddress == {Self, Peer, Sink, AllOnes, Multicast, NoAddr, Loopback, SubnetBroadcast}
MCIface == {Self, NoIface}
MCBroadcast == [i \in MCIface |-> IF i = Self THEN SubnetBroadcast ELSE AllOnes]

=============================================================================
