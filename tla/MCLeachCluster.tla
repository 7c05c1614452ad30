--------------------------- MODULE MCLeachCluster ---------------------------
(* A small instance of LeachCluster: two nodes apart and off the origin.   *)
EXTENDS LeachCluster

CONSTANTS n1, n2

\* Positions are points of a line, the distance is squared as in RecvLeach.
MCPosition == {0, 2, 3}
MCPositionOf == [n \in Node |-> IF n = n1 THEN 2 ELSE 3]
MCSqDist == [p \in MCPosition |-> [q \in MCPosition |-> (p - q) * (p - q)]]

=============================================================================
