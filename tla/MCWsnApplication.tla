-------------------------- MODULE MCWsnApplication --------------------------
(* A small instance of WsnApplication.                                     *)
EXTENDS WsnApplication

\* No limit, one that packets meet exactly and one they do not.
MCLimit == {0, 4, 5}
MCPoissonTime == {1, 2}
MCStartTime == {0, 1}
MCStopTime == 0 .. 9

=============================================================================
