--------------------------- MODULE MCLeachProposal ---------------------------
(* The driver with few nodes. *)
EXTENDS LeachProposal
=============================================================================
