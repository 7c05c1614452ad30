------------------------- MODULE MCLeachAggregation -------------------------
(* A small instance of LeachAggregation: half-second ticks, a packet every *)
(* second and m_lambda = 1, deadlines, their word and rounds of a few       *)
(* seconds; the header and the packet have the sizes of the program.        *)
EXTENDS LeachAggregation

=============================================================================
