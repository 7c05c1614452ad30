---------------------------- MODULE HeadRotation ----------------------------
(***************************************************************************)
(* What LEACH's election promises, without timers, messages or random      *)
(* numbers: every node goes through cycles of CycleLen rounds, at its own  *)
(* pace, and is the head of a cluster in exactly one round of each cycle.  *)
(* Module LeachCluster is shown to implement this specification.           *)
(***************************************************************************)
EXTENDS Integers

CONSTANTS
  Node,       \* the sensor nodes: every node but the sink
  CycleLen    \* n = 10 in PeriodicUpdate: the rounds of one cycle

ASSUME CycleAssumption == CycleLen \in Nat \ {0}

VARIABLES
  slot,       \* rounds the node has begun, modulo the length of a cycle
  served,     \* rounds of the current cycle in which the node was head
  head        \* 1 in a round the node is head of, 0 in the others

vars == <<slot, served, head>>

\* The node's memory of its role is uninitialised before its first round.
Init ==
  /\ slot = [n \in Node |-> 0]
  /\ served \in [Node -> {0, 1}]
  /\ head \in [Node -> {0, 1}]

\* Terms served so far in the cycle that the next round belongs to.
ServedBefore(n) == IF slot[n] = 0 THEN 0 ELSE served[n]

\* Mutant: the slot is not brought back to 0.
NewRoundWithoutWrap(n) ==
  /\ head' \in [Node -> {0, 1}] /\ served' \in [Node -> {0, 1}]
  /\ slot' = [slot EXCEPT ![n] = slot[n] + 1]

\* Mutant: the last round of a cycle elects no more than the others.
NewRoundWithoutCertainty(n) ==
  /\ \E elected \in {0, 1} :
       /\ elected = 1 => ServedBefore(n) = 0
       /\ head' = [head EXCEPT ![n] = elected]
       /\ served' = [served EXCEPT ![n] = ServedBefore(n) + elected]
  /\ slot' = [slot EXCEPT ![n] = (slot[n] + 1) % CycleLen]

\* A new round of n.  A node that served rests until its cycle is over; one
\* that did not serve may be elected, and must be in the last round.
NewRound(n) ==
  /\ \E elected \in {0, 1} :
       /\ elected = 1 => ServedBefore(n) = 0
       /\ slot[n] = CycleLen - 1 => ServedBefore(n) + elected = 1
       /\ head' = [head EXCEPT ![n] = elected]
       /\ served' = [served EXCEPT ![n] = ServedBefore(n) + elected]
  /\ slot' = [slot EXCEPT ![n] = (slot[n] + 1) % CycleLen]

Next == \E n \in Node : NewRound(n)

Spec == Init /\ [][Next]_vars

-----------------------------------------------------------------------------
TypeOK ==
  /\ slot \in [Node -> 0 .. CycleLen - 1]
  /\ served \in [Node -> {0, 1}]
  /\ head \in [Node -> {0, 1}]

=============================================================================
