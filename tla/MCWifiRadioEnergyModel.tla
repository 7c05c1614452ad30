----------------------- MODULE MCWifiRadioEnergyModel -----------------------
(* A small instance of WifiRadioEnergyModel.                               *)
EXTENDS WifiRadioEnergyModel

\* Receiving draws most, then transmitting; sleeping draws least.  The steps are
\* wide enough for an event scheduled for one state to be late for another.
MCStateA ==
  [s \in WifiPhyState \ {"OFF"} |->
     CASE s = "TX" -> 5 [] s = "RX" -> 6 [] s = "SLEEP" -> 1 [] OTHER -> 2]

=============================================================================
