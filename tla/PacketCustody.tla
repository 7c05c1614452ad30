--------------------------- MODULE PacketCustody ---------------------------
(***************************************************************************)
(* What a node owes to the packets it is given, however it routes them:    *)
(* it holds each until the packet has settled (was sent, delivered or      *)
(* discarded), and a settled packet never comes back.                      *)
(***************************************************************************)
CONSTANT Item           \* packets, or the measurements packets are made of

VARIABLES
  held,                 \* what the node has taken and still keeps
  settled               \* what it has finished with

vars == <<held, settled>>

Init == held = {} /\ settled = {}

\* Items are taken in and items settle; none is lost, none returns.
Next ==
  /\ held \cup settled \subseteq held' \cup settled'
  /\ settled \subseteq settled'
  /\ held' \cap settled' = {}
  /\ held' \cup settled' \subseteq Item

Spec == Init /\ [][Next]_vars

=============================================================================
