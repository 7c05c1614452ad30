------------------------- MODULE MCLeachInterfaces -------------------------
(* A small instance of LeachInterfaces: wifi0 has two addresses in a subnet  *)
(* of its own; wifi1 has one in the subnet of wifi2 and one in another.      *)
EXTENDS LeachInterfaces, TLC

CONSTANTS lo, a1, a2, b1, b2, c1, wifi0, wifi1, wifi2, Net1, Net2, Net3, Blank

MCAddress == {NoAddr, Loopback, Net1, Net2, Net3, Blank}
MCIface == {lo, a1, a2, b1, b2, c1, NoIface}
MCBroadcast == [i \in MCIface |-> CASE i \in {a1, a2} -> Net1 [] i \in {b1, c1} -> Net2
                                     [] i = b2 -> Net3 [] OTHER -> Blank]
MCOfDevice == (wifi0 :> {a1, a2}) @@ (wifi1 :> {b1, b2}) @@ (wifi2 :> {c1})
Interchangeable == Permutations(Socket)

=============================================================================
