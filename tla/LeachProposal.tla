--------------------------- MODULE LeachProposal ---------------------------
(***************************************************************************)
(* The simulation driver, main.cc: class LeachProposal sets the network up *)
(* in the order of CaseRun, lets the simulation run and prints a report.   *)
(*                                                                         *)
(* What a stage leaves on the nodes is kept as the set of nodes it has     *)
(* reached; positions, addresses, files and what the sink counts are left  *)
(* out.  The order of the calls within a stage is kept where it decides    *)
(* what a node gets: InternetStackHelper installs the routing protocol     *)
(* that it holds at the time of Install.  Nodes are numbered from 0, and   *)
(* node 0 is the sink.                                                     *)
(***************************************************************************)
EXTENDS Integers

CONSTANT NodeCounts     \* values of the command line for nWifis

LeachHelper == "leach::RoutingProtocol"         \* what its Create makes

VARIABLES
  stage,                \* the part of CaseRun that is next
  m_nWifis,
  nodes,                \* the nodes created
  devices, mobile,      \* those with a WiFi device, with a mobility model
  sources,              \* those with a battery and a radio energy model
  routingHelper,        \* the protocol that the stack helper's Install creates
  protocol,             \* the routing protocol of each node with a stack
  application           \* the nodes with a client that sends to the sink

network == <<nodes, devices, mobile, sources, routingHelper, protocol, application>>
vars == <<stage, m_nWifis, network>>

\* main takes the parameters from the command line.
Init ==
  /\ stage = "CreateNodes"
  /\ m_nWifis \in NodeCounts
  /\ nodes = {} /\ devices = {} /\ mobile = {} /\ sources = {} /\ application = {}
  /\ routingHelper = "Ipv4ListRouting"
  /\ protocol = <<>>

\* CaseRun calls its parts one after the other.
CaseRun(this, next) ==
  /\ stage = this
  /\ stage' = next
  /\ UNCHANGED m_nWifis

\* The assertion on the number of sinks is for debug builds.
CreateNodes ==
  /\ CaseRun("CreateNodes", "CreateDevices")
  /\ nodes' = 0 .. m_nWifis - 1
  /\ UNCHANGED <<devices, mobile, sources, routingHelper, protocol, application>>

CreateDevices ==
  /\ CaseRun("CreateDevices", "SetupMobility")
  /\ devices' = nodes
  /\ UNCHANGED <<nodes, mobile, sources, routingHelper, protocol, application>>

SetupMobility ==
  /\ CaseRun("SetupMobility", "SetupEnergyModel")
  /\ mobile' = nodes
  /\ UNCHANGED <<nodes, devices, sources, routingHelper, protocol, application>>

\* The model is installed on pairs of a device and a source.
SetupEnergyModel ==
  /\ CaseRun("SetupEnergyModel", "InstallInternetStack")
  /\ sources' = devices
  /\ UNCHANGED <<nodes, devices, mobile, routingHelper, protocol, application>>

Install == protocol' = [n \in nodes |-> routingHelper]
SetRoutingHelper(helper) == routingHelper' = helper

\* stack.Install (nodes) comes first, with the list routing of ns-3 that a new
\* InternetStackHelper holds; SetRoutingHelper (leach) follows in the loop, and
\* no Install after it.
InstallInternetStack ==
  /\ CaseRun("InstallInternetStack", "InstallApplications")
  /\ Install
  /\ SetRoutingHelper(LeachHelper)
  /\ UNCHANGED <<nodes, devices, mobile, sources, application>>

\* Every node but the sink gets a client, from OnOffHelper.
InstallApplications ==
  /\ CaseRun("InstallApplications", "Run")
  /\ application' = nodes \ {0}
  /\ UNCHANGED <<nodes, devices, mobile, sources, routingHelper, protocol>>

\* Simulator::Run returns at m_totalTime; no part of it changes what is installed.
Stop ==
  /\ CaseRun("Run", "Report")
  /\ UNCHANGED network

\* The report asks the node in the middle for its timeline; tracer is what the
\* cast to leach::RoutingProtocol makes of its protocol.
tracer == LET p == protocol[m_nWifis \div 2]
          IN  IF p = LeachHelper THEN p ELSE "NULL"

Report ==
  /\ CaseRun("Report", "Destroyed")
  /\ UNCHANGED network

Next ==
  \/ CreateNodes \/ CreateDevices \/ SetupMobility \/ SetupEnergyModel
  \/ InstallInternetStack \/ InstallApplications
  \/ Stop \/ Report

Spec == Init /\ [][Next]_vars

-----------------------------------------------------------------------------
\* What is measured is LEACH (main.cc:491 and :503 mean to install it): the
\* report finds a leach::RoutingProtocol on the node that it asks.
RunsLeach == stage = "Report" => tracer # "NULL"

=============================================================================
