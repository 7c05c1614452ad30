# LEACH for ns-3: a TLA+ verification project

This directory models the repository's LEACH (Low-Energy Adaptive Clustering
Hierarchy) routing protocol, with and without data aggregation, the radio energy
model it is measured with, the traffic source that feeds it and the program that
puts them together. TLC checks the modules on small instances; TLAPS proves
all their invariants, action properties and refinements for every value of the
constants.

Contents: 1 the system, 2 the modules, 3 the runs, 4 fairness, 5 the proofs,
6 what the work shows about the code, 7 what is left out and why, 8 the plan.

## 1. The system

Everything is one ns-3 simulation: a single thread that takes scheduled events
in time order. There are no locks and no preemption; what interleaves is the
order of events of different nodes, chosen by random delays and by the channel,
and, in the energy model, calls that re-enter an object before it has finished.

| Component | Source | State | Operations | Hard behaviour | Correct when |
|---|---|---|---|---|---|
| Cluster formation | `leach-routing-protocol.cc` 188-204, 484-684 | `Round`, `valid`, `clusterHeadThisRound`, `m_targetAddress`, `m_dist`, `m_bestRoute`, `m_clusterMember`, three timers | `Start`, `PeriodicUpdate`, `SendBroadcast`, `RespondToClusterHead`, `RecvLeach` | rounds of different nodes drift apart by up to 1 ms per round; advertisements are lost, late, overtaking; a random threshold that must become certain | every node is head once per cycle; timers are never armed twice; an answer goes to a node that is head; routes match the role |
| Data plane | same file, 206-482 | `m_socketAddress` (empty or not), `DeferredQueue`, scheduled flushes, the loopback device | `RouteOutput`, `RouteInput`, `EnqueueForNoDA`, `AutoDequeueNoDA` | packets wait for a route, and an interface, that may come or go; the queue has no limit and many flush events; only the TTL ends the circulation | no packet is lost, duplicated, stranded or kept for ever; a route in time is used |
| Data aggregation | same file, 810-1076 (`#ifdef DA`), `leach-routing-queue.*` | `m_queue`, `m_hash`, `m_dropped`, OptTM's static step | `RouteOutput`, `EnqueuePacket`, `DeAggregate`, `Proposal`, `OptTM`, `ControlLimit`, `SelectiveForwarding` | packets are cut into entries, merged, looped back and cut again; three different opinions on the size of a header; deadlines; a counter shared by all nodes | accounts agree; a measurement is kept until it settles and never comes back; what is late is dropped and nothing else |
| Interface callbacks | same file, 686-790 | `m_socketAddress`, the sockets, `m_mainAddress`, the table | `SetIpv4`, interface up and down, address added and removed | a removed address promotes another; a second SetUp or SetDown; sockets that are forgotten and still deliver, or were refused their port; pointers used unchecked | a device in use has a socket, one only, and its broadcast route; the program ends only for a device that is not in use |
| Routing table | `leach-routing-table.*` | address -> entry, event table | `AddRoute`, `DeleteRoute`, `LookupRoute`, ... | `Copy` copies nothing | stale routes are gone |
| Leach header | `LeachPacket.*` | PIR, acceleration, position, address, deadline | `Serialize`, `Deserialize` | two methods must agree on order and sizes | what is read is what was written |
| Radio energy model | `src/wifi/model/wifi-radio-energy-model.*` | state, total energy, idle/TX/RX times, pending calls, switch-off and switch-to-idle events | `ChangeState`, the PHY listener's `Notify*`, `GetTotalEnergyConsumption` | `ChangeState` -> battery -> PHY -> `ChangeState` before the first returns | energy charged is energy drawn; times add up; a depleted radio stops |
| Traffic source | `wsn-application.*` | socket, send event, residual bits, bytes | start, stop, `ScheduleNextTx`, `SendPacket` | an event whose id nobody keeps; unsigned subtraction; limit | one chain of events, which ends when it should |
| Driver | `main.cc` 1-540 | nodes, what is installed on them, counters | `CaseRun`, traces, the sink's reception (not modelled), the report | the order in which helpers are told things | the network that is measured runs LEACH |
| Helpers | `*-helper.*` | the object factory | `Create`, `Set` | none of their own | as the driver uses them |
| DSDV test | `dsdv-test.cc` | none | tests of another protocol | none | not modelled |

How they interact. The application hands packets to its socket, the IP layer
asks `RouteOutput` for a route. A route to the sink exists only at a cluster
head between its advertisement and the end of its round (module
`LeachCluster`); without one the packet goes into the loopback device, comes
back through `RouteInput` and waits in `DeferredQueue` (`LeachForwarding`, where
the control plane is reduced to the actions `RouteAppears` and `RouteGoes`, which
leave the table as `SendBroadcast` and `PeriodicUpdate` do, and the interface
callbacks to `InterfaceGoes` and `InterfaceComes`). Built with `DA`,
`RouteOutput` asks a policy first, and packets wait as entries of `m_queue`
(`LeachAggregation`, with the election of its own node). Advertisements and answers
use the sockets and the broadcast routes that the interface callbacks keep
(`LeachInterfaces`). The PHY reports to the energy model's listener, and the energy
source can switch the PHY off (`WifiRadioEnergyModel`); a node that is off is, for
the others, a node whose packets are lost. `PROJECT.json` lists every hazard at its
source line with the properties that cover it.

## 2. The modules

Pure operators and abstract specifications:

- `LeachRoutingTable`: operators for the table (a function from address to
  entry). `AddRoute` is `std::map::insert`, which lets an entry already there win,
  `Copy` the empty body of `RoutingTableEntry::Copy`, `LookupForRouteInput` the
  overload that refuses the interface's broadcast address. Used by `LeachCluster`,
  `LeachForwarding` and `LeachInterfaces`.
- `Subsequences`: what a loop keeps of a queue when it goes through it and removes
  some of its elements (`PacketQueue::Dequeue` and `Drop`, `AutoDequeueNoDA`), by
  position. `Selected` computes what `SelectSeq` does; it is written as a recursive
  function, since `SelectSeq` is out of the provers' reach.
- `HeadRotation`: the abstract specification of the election. A state per node:
  its place in the cycle, whether it has served, whether it is head. One action,
  `NewRound`. `LeachCluster` implements it.
- `HeadRotationRest`: adds a history counter of the rounds since the last term and
  proves how long a node can be passed over.
- `PacketCustody`: the abstract specification of both data planes: what a node
  has taken it holds until it has settled, and what has settled never comes back.
  `LeachForwarding` implements it for packets, `LeachAggregation` for
  measurements.

The components:

- `LeachCluster`: the control plane of any number of nodes. One action per event
  handler (`PeriodicUpdate`, `SendBroadcast`, `RespondToClusterHead`, `RecvLeach`),
  `Lose` for the channel and `Tick` for time. Variables have the names of the
  class's fields. A timer is a countdown or `Off`; a packet in the air has a
  countdown, and is delivered in any order before it runs out, or lost. `Round` is
  kept modulo `CycleLen`, all the code reads of it. The random number is compared
  with the threshold on the grid k / `CycleLen`, which separates every outcome
  the threshold allows. `m_dist` before the first round is `Garbage`: comparing with
  it may come out either way. A header is what the receiver makes of the bytes
  that the sender wrote (`Received`).
- `LeachForwarding`: the data plane of one node, built without `DA`. `RouteInput`
  and `RouteOutput` have one disjunct per early return (those of `RouteInput` that
  settle the packet at once are in `Arrives`): no interface, multicast, from the node
  itself, a broadcast, arrival, forwarding disabled, a route, no route. The interface
  goes with the table (`NotifyInterfaceDown`) or without it (`NotifyRemoveAddress`);
  whether IP forwarding is on is chosen at the start.
- `LeachAggregation`: the data plane of one node built with `DA`, over several rounds
  of the election. `policy` is the macro the program was compiled with. `SendPacket`
  is `RouteOutput` with the policy's decision, `EnqueuePacket` the way back
  through loopback with `DeAggregate` and its rests in `m_hash`; `OtherNodeDecides`
  advances OptTM's counter, which the nodes share. Packets keep sizes and the
  measurements they carry; each deadline that the code reads from the wrong offset is
  long over or far ahead, chosen per entry. The branch of `EnqueuePacket` that joins a
  packet to an earlier rest of its uid (:827-839) is left out: it is taken only if a uid
  comes by twice, and `Conservation` says that none in loopback has a rest. `gone` is a history variable: the measurements that have settled.
- `LeachInterfaces`: several devices of one node, each up or down and with a first
  address and more. The IP layer is external: `SetUp`, `SetDown`, `AddAddress` and
  `RemoveAddress` make the calls that `Ipv4L3Protocol` makes, each action with the
  whole callback, at any time: `SetUp` and `SetDown` notify the protocol whatever the
  state of the device, also of one without an address. Where the code then uses a
  null pointer or fails an assertion, `Abort` records the handler in `aborted` and no
  action follows (`Running`); so do `SendBroadcast` and `RespondToClusterHead` when
  nobody has `m_mainAddress`, and `RecvLeach` for an advertisement at a socket whose
  address has gone. A socket is unborn, open, deaf or closed, and bound to a device or,
  when `NotifyRemoveAddress` made it, to none: every socket asks for the same port, so
  that `Bind`, whose result the code ignores, may be refused for all but the first
  ever made. That is ns-3's decision, and a nondeterministic choice here.
  `reassigns`, chosen at the start, tells whether `SetUp` may be called for a device
  that is up. Subnets are free: devices may share one, and a device may have
  addresses of several. Only the loopback device has 127.0.0.1, and no two devices
  have an address in common.
- `WifiRadioEnergyModel`: one record `radio` (the set `Radio`) holds the model, its
  listener, the battery and the PHY, since calls nest: each function of the code is
  an operator from record to record, and a nested call a nested application.
  `ChangeState` is the repository's version, not the ns-3 original kept under
  `#if 0`. The clock of an OFF radio is not kept: nothing is drawn and nothing
  reads it.
- `WsnApplication`: the chain of events of one source. `ScheduleNextTx` is an
  operator with the state its caller leaves as parameters; the start, `SendPacket`
  and `Redraw` (the event whose id nobody keeps) are the actions that call it.
- `LeachProposal`: the driver. One action per stage of `CaseRun`, each leaving the
  set of nodes it has reached; `Report` makes the cast of the report. What the sink
  counts (`ReceivePacket`) is left out: no property is about it.

`*_proofs` modules hold the theorems about the module they are named after; `MC*`
modules are finite instances for TLC.

Definitions preceded by a comment "Mutant: ..." are plausible mistakes. None is used
by a specification; replacing the definition they follow shows that a
property notices.

## 3. The runs

Runs that pass:

- `cluster` (`MCLeachCluster.cfg`): two nodes, a cycle of three rounds, every delay
  with its jitter, packets up to one tick in the air. Delays keep the
  order and the overlaps of the real ones (start < advertisement < answer < next
  round, each with a width). Two nodes are enough for each pair of roles, for
  rounds to drift a full jitter apart, and for an advertisement to reach a node in
  any phase; a cycle of three has a first, a middle and a certain last round.
  `NoTimerRearmed`, `NoUninitialisedRead`, `RoutesMatchRole`, `JoinFindsItsHead`, the
  refinement `RotatesHeads` (of `HeadRotation!Spec`) and the liveness property
  `EveryNodeLeadsAgain`. About 150 000 states. That adding nodes or changing delays
  breaks nothing is proved (section 5), not sampled.
- `rest` (`HeadRotationRest.cfg`): two nodes, a cycle of four: `RestBounded`.
- `forwarding` (`MCLeachForwarding.cfg`): two packets, TTL 4 for 64, flush delay 2
  ticks for 100 ms, every destination, route and interface appearing and going at any
  time, forwarding on or off. Two
  packets give a queue with several flush events and a flush that finds it empty;
  TTL 4 lets a packet go round three times, so that it can be saved by a route or
  die. `Conservation`, `NoneStranded`, `EveryPacketSettles`, `RouteTakesWaiting` and the
  refinement `KeepsCustody` (of `PacketCustody!Spec`). About 76 000 states.
- `aggregation` (`MCLeachAggregation.cfg`): the five builds (PROP, OPT, CL, SF, none)
  over 14 ticks of 500 ms: seven measurements, two full rounds, and a flush time (11
  ticks for 48.5 s) from which on nothing is held back. Deadlines are shorter or longer than the wait for
  a term as head, and one of them is past the width of the header's field. Of the
  deadlines read from the wrong place, at most one of each packet is far ahead
  (`MaxFar`); the queue may hold those of several packets. The
  sizes are the real ones: 504 bytes is what `SendPacket` makes of the default
  `PacketSize` of 512. `Conservation`, `CustodyKept` (refinement of `PacketCustody!Spec`),
  `DeadlinesDecide`, `OptTMGivesUpWaiting`. About 560 000 states.
- `interfaces` (`MCLeachInterfaces.cfg`): three devices: one with two addresses in a
  subnet of its own, so that an address can move up; one with addresses in two
  subnets, and one that shares the first of them, so that routes are taken by
  another device and lost with an address. Three sockets, interchangeable: the
  symmetry is sound as no formula names one. Every order of calls the IP layer can
  make, including repeated and premature ones, each with `Bind` granted or refused. Three
  sockets serve the three devices, or one device through a removal and a repeated
  `SetUp`; longer histories are the proofs' part. `NoClosedSocket`, `Listening`,
  `SocketPerInterface`, `BroadcastRouteStands`, `FailsOnlyUnserved`. About 1.9 million
  states.
- `wifi` (`MCWifiRadioEnergyModel.cfg`): a battery of 12 with a threshold of 1,
  updates every 2 ticks, currents 5 (TX), 6 (RX), 1 (sleep) and 2, periods of 1 or 2
  ticks. The weakest state lasts twelve ticks on the battery and the strongest two:
  the difference is what makes a switch-off event that was scheduled in one state
  late in another. `AccountsAgree`, `TimesReported`, `OverdrawBounded`,
  `TimedStatesEnd` (of a transmission, a busy period and a channel switch; a reception
  ends with `NotifyRxEnd`), `DepletedGoesOff`. About 57 000 states.
- `traffic` (`MCWsnApplication.cfg`): every pattern, no limit, one met exactly and
  one not, starts and stops at all ticks that differ, 12 ticks (time for six
  packets or draws). `OneChain`, `NoUnderflow`, `LimitEndsSending`,
  `CountsWhatLeft`.

Runs that are meant to be violated; each states what a comment says: `closest`,
`join_sent`, `radio_off`, `traffic_stop`, `never_leach`. Section 6 tells what they
show.

Deadlock checking is off where the system really stops: `traffic`, `traffic_stop`,
`aggregation` and `never_leach` end with the simulation, and in `interfaces` the
program may end in a handler.

Bounds, all of them CONSTANTS: `CycleLen`, the delay ranges, `MaxDelay`, `MaxTtl`,
`FlushDelay`, `InitialEnergy`, `UpdateInterval`, `MaxBusy`, `TotalTime`, `Socket`,
`MaxFar`. No action carries a bound the code does not have, except that time
stops at `TotalTime` as the simulation does, that a socket is made only while there
is an unborn one left, and that a packet brings at most `MaxFar` deadlines far ahead.

## 4. Fairness

All fairness is that of the simulator: `Simulator::Run` takes the next event as long
as there is one.

- `LeachCluster!FairSpec` is `WF(Next)`: the system does something. Every action
  either uses up a due timer, uses up a packet or lets time pass, so this weak
  assumption suffices for `EveryNodeLeadsAgain`. No node and no message is
  assumed to be treated fairly: all advertisements may be lost.
- `LeachForwarding!FairSpec` is weak fairness of the loopback device, the
  scheduled flushes and time. New packets and changes of route and interface need not occur,
  and may occur for ever.
- `WifiRadioEnergyModel!FairSpec` is weak fairness of each scheduled event and of
  time, none of what the radio reports.
- The other modules have no liveness property. For `LeachAggregation` there is none
  to state: without a policy, and for entries of control packets, waiting may last
  for ever (section 6).

## 5. The proofs

`LeachCluster_proofs` proves for every set of nodes, every position, cycle length
and choice of delays that satisfies `AddressAssumption`, `DistanceAssumption`,
`CycleAssumption` and `DelayAssumption`:

- `TypeCorrect`: `Spec => []TypeOK`;
- `TimersNotRearmed`, `DistanceInitialised`, `RoutesFollowRole`,
  `AnswersSittingHead`: the four invariants of the run `cluster`;
- `ImplementsRotation`: `Spec => Rotation!Spec`.

`DelayAssumption` is the arithmetic of the source: the first rounds begin within the
shortest delay of an advertisement, and answer, advertisement and two flights fit
into one round. It is not about speed: `StartMax < StartMin + BcastMin` is
1000 us < 10 us + 10 000 us, the other 101 + 50 + 2 * `MaxDelay` ms < the update
interval.

None of the invariants but the type is inductive. The conjunction `IInv` is:

- `TypeOK`;
- `StartOrder`: before its first round a node has only the first timer running and
  a blank choice; its timer is no later than any advertisement can be;
- `TimerOrder`: the one-shot timer of a round ends before the round does,
  by the margin that the round has;
- `AdvertOrder`: an advertisement in the air comes from a sitting head, whose round
  goes on longer than the packet and a full answer;
- `TargetOrder`: the same for the head a member has chosen;
- `RoutesMatchRole`.

`AdvertOrder` and `TargetOrder` carry the argument of `JoinFindsItsHead`: the head's
round outlasts its advertisement by almost the whole interval, a receiver chooses it
in a round of its own in which at most `RespondMax` is left, so the answer
arrives in time however far the two rounds have drifted apart. One lemma per
action proves that the step preserves `IInv`, from lemmas on the table
(`AddRoute`, `DeleteRoute`, `Copy`) that are stated once. The refinement follows
action by action: `PeriodicUpdate` is `NewRound`, everything else a stutter; its one
arithmetic fact is that `Drawn` admits every k in the last round of a cycle.

`HeadRotationRest` proves `RotationTypeCorrect` and `RestIsBounded`: at most
2 * `CycleLen` - 2 rounds between two terms (18 for the code's n = 10), from the
invariant `RestByPlace`.

`WifiRadioEnergyModel_proofs` proves all five invariants of the run `wifi` from
`EnergyAssumption` alone, for every battery, every current of at least 1 and every
interval: `TypeCorrect`, `AccountsKept`, `TimesKept`, `EndsAreScheduled`,
`OverdraftIsBounded`. As calls nest, what is inductive is a predicate of the record,
and the lemmas are about calls, innermost first: `ChargedGood` and `DrainedGood`
(the two accounts), `HandleEnergyChangedGood`, `NotifyOffGood`, `UpdateGood`,
`ChangeGood`. What every call preserves at any depth, with calls open, is `Good`:

- the record is of type `Radio`;
- `AccountsOf`: while the battery holds anything, what the model has charged, with
  what is due, is what the battery has lost, with what is due;
- `TimesOf`: the reported times, with the current period, are those spent;
- `IntervalOf`: the battery is updated within an interval;
- `EventOf`: the switch-off event is no later than a full battery lasts in the
  weakest state;
- `EmptyOf`: an empty battery leaves what the strongest state draws until that event.

Between two events hold, in addition, that no call is open, that a radio that draws
has a switch-off event (`Armed`), and that a state with a duration has its end
scheduled (`Timed`: TX, CCA_BUSY and SWITCHING; a reception has no scheduled end, the
PHY reports it, and `NotifyRxStart` cancels what was scheduled). `EventOf` and `EmptyOf` together bound the overdraft. The bound
first written for `OverdrawBounded` was one update interval of the strongest state;
it held in a small instance and its proof did not go through: a switch-off event
scheduled for a full battery in a weak state survives a depletion inside
`ChangeState` and lets a strong state draw until then. The bound is now that of
the event, and the instance has currents far enough apart to show the difference.

`LeachInterfaces_proofs` proves all five invariants of the run `interfaces` and its
action property from `AddressAssumption` and `InterfaceAssumption` (no two devices
have an address in common; nothing about subnets), for any devices, addresses and
number of sockets and any order of calls: `TypeCorrect`, `SocketsAreOpen`,
`DevicesHaveSockets`, `OneSocketEach`, `BroadcastsAreRouted`, `FailuresAreExplained`.
What they say of a device holds while it is up and has an address (`Served`):
`DevicesHaveSockets` gives it a socket in the map, which hears unless another one was
ever made; `BroadcastsAreRouted` gives it its broadcast route if its subnet is its
own (`OwnSubnet`), a condition of the statement and not of the constants;
`FailuresAreExplained` lists the ways in which the program can end, and none of them
is a device in use. `IInv` adds to them:

- `AddressesDistinct`: the first address of a device is none of its others;
- `BoundToOwn`: an entry of the map for an address of a device has a socket bound
  to that device or to none;
- `OwnRoutes`: a broadcast route of a subnet of its own names an address of that
  device, so that another device that goes down does not take it;
- `RoutedOrSilent`: a device that is up, with such a subnet, has its broadcast route, or
  no address and no socket. It is needed because no handler adds a route for an address
  that moves up: the route of the old address serves it;
- `FirstSocketHears`: a deaf socket is never the only one ever made.

`WsnApplication_proofs` proves all five invariants of the run `traffic` from
`TrafficAssumption` alone: `TypeCorrect`, `ChainIsSingle`, `BitsDoNotWrap`,
`LimitIsKept`, `CountIsRight`. The inductive invariant says what each handler finds:
`NotStarted` (nothing is pending and no residue kept before the start), `Opened`,
`Chain` (a packet or a draw, never both, and no residue while either waits),
`Limited`, `Accepted`. Its consequence, lemma `FreshChain`, is that `ScheduleNextTx` is
only ever entered with nothing pending and no residue; start, `SendPacket` and `Redraw`
then share one lemma (`FreshInv`).

`LeachForwarding_proofs` proves all invariants of the run `forwarding` and its
refinement, for any set of packets and addresses, any TTL and flush delay that
satisfy `AddressAssumption` and `ForwardingAssumption`: `NothingStranded`, `TypesKept`, `PacketsConserved`,
`CustodyImplemented`. Besides types the assumption asks that the subnet's broadcast
address is not 127.0.0.1, and that 255.255.255.255 is neither that nor the sink's.
Three invariants carry the proofs:

- `IInv`: the flushes come in the order in which they were scheduled
  (`InOrder`), and a queue that is not empty has one ahead. A tick looks at the first alone,
  and would otherwise pass by one that is due.
- `TableInv`: the table has entries for 127.0.0.1, the subnet's broadcast address and the sink
  only, whether or not the interface has gone and come back, the second of them for the
  node's own interface. So the lookup in `RouteInput`
  never finds a route for a broadcast, which would be forwarded and delivered.
- `DataInv`: a packet is unknown, or waits in exactly one position of queue and
  loopback together, or has settled exactly once.

The flush is the hard step: queue and loopback change together, some packets die, and
each remains in one place because `Selected` keeps each position once.

`LeachAggregation_proofs` proves all invariants of the run `aggregation`, both action
properties and the refinement from `AggregationAssumption` alone, for any
sizes, deadlines, intervals and times and under every policy: `TypesKept`, `AccountsAgree`,
`CustodyImplemented`, `DeadlinesObeyed`, `OptTMAlwaysSends` (which is about the
decisions made while no entry with a garbage deadline waits). None of them is inductive; `IInv` is:

- `ControlInv` and `DataTypes`: the types, and that only a head has a route or an
  advertisement ahead;
- `PlaceInv`: a measurement is in one entry of `m_queue`, or goes with one packet in the
  loopback device (as its own or merged into it), or is gone; all that were
  generated are accounted for;
- `UidInv`: no uid is in the loopback device twice or there and in `m_hash`. This is
  why a rest is never taken for that of another packet. A data packet's uid is the number of
  its measurement; a control packet's is that of its round, below zero, and a
  round sends one because its timer is used up (`timer # "OFF"` in the invariant);
- `Accounts`: entries made are waiting, dropped or taken.

The steps with an effect on the queue share lemmas about their data: `FreshQueue` and
`Dequeued` (what `Proposal` removes, what `Dequeue` leaves), `MergedPacket`, `Pieces`
(what `DeAggregate` makes of a packet), `SendPacketEffect`. `OptTMAlwaysSends` rests on
arithmetic: what is left of the deadlines shrinks as time goes on (`LeftShrinks`, then
for sums over a queue), and with the counter run up no further packet brings a
bonus, so that the first decision time has the highest reward (`NowIsBest`).

Induction. The library's induction theorems take a predicate as a parameter, which the
installed provers cannot instantiate. `Subsequences_proofs` states induction over 0 .. n
for a predicate given as a function to BOOLEAN (`Induction`, from the least element of
a well-founded order), and with it proves that `KeptOf` exists and that `Selected` keeps
the elements at the chosen positions, all of them, once and in order (`SelectedPicks`).
`LeachAggregation_proofs` uses the same for the sums of `TimeLeft`.

Only model-checked: the liveness properties `EveryNodeLeadsAgain`,
`EveryPacketSettles`, `RouteTakesWaiting` and `DepletedGoesOff`, since ENABLED and fairness
are beyond this prover. Every other property of a passing run is a theorem.

## 6. What the work shows about the code

Right, and not obvious: the election rotates the head's role exactly once per cycle,
whatever the draws (`t` is computed before `Round` is incremented, `valid` reset in the
round after the last); members always answer a sitting head; routes never outlive
the term; the packet queue neither loses nor duplicates although one flush serves many
events; the two energy accounts agree through nested calls; no unsigned underflow
is reachable in the traffic source; a device in use keeps a socket through any changes of
addresses and devices and, if its subnet is its own, its broadcast route, and no call
that concerns it ends the program; the aggregation queue's
accounts survive the disagreements about sizes.

Differences between what is written and what happens (findings in `PROJECT.json`):

- `closest`: `Serialize` and `Deserialize` disagree on the order of position and
  acceleration, so all heads appear to sit at the origin; the first heard wins.
- `join_sent`: `RoutingTableEntry::Copy` is empty, so no member gets a route and no
  JOIN leaves a member. `m_clusterMember` stays empty everywhere.
- `radio_off`: a depletion found within `ChangeState` leaves the model in the new
  state while the PHY is off; only the switch-off event, scheduled from the old
  state, ends the drawing.
- `traffic_stop`: a Poisson source that is stopped between two draws goes on.
- `never_leach`: the driver calls `stack.Install (nodes)` before `SetRoutingHelper`, so
  the nodes it measures do not run LEACH, and the report's cast gives NULL.

Seen while reading, with no run of its own.

Control and data plane:

- A head that hears another advertisement takes over its target
  (`leach-routing-protocol.cc:524`, where :499 speaks of members).
- `RouteInput` queues a packet and returns false (:405), which by the comment at
  `leach-routing-protocol.h:82` means that it did not take it.
- `main.cc:505` gives nodes the mask 255.255.252.0 while `SendBroadcast` sends to the
  fixed 10.1.1.255, so in that set-up advertisements find no route either (the runs
  use the /24 network the constant fits; `LeachCluster` has both addresses as
  constants, and the theorems hold for both cases; `LeachAggregation` has `fits`).

Aggregation and header:

- `GetSerializedSize` says 80 bytes, `Serialize` writes 88 and `Deserialize` reads 84 (on a
  64-bit build, where an address object is 8 bytes and is written whole). The
  `NS_ASSERT` in `Deserialize` that compares the last two cannot hold: a debug build
  stops at the first header.
- The upper half of the deadline is outside the header, so it is read modulo 2^32 ns:
  once 4.3 s have passed, PROP and CL find every deadline over and drop everything.
- `DeAggregate` makes entries of the application's padding, which count as dropped
  measurements; the sink counts them too.
- Entries of control packets are for no sink and stay in `m_queue` for ever; without a
  policy so do all. SF never transmits: `SelectiveForwarding` returns false at any time
  (:1073), where the other policies hold nothing back after 48.5 s. `m_hash` only grows, and nothing limits the queue to the 5 packets that
  `leach-routing-queue.h:74` speaks of.
- OptTM's step is one static variable for all nodes and is never reset.
- A `PacketSize` below the size of the header object wraps in `m_pktSize - sizeof (hdr)`.

Interfaces:

- `m_mainAddress` is never changed once set, also when its address goes.
  Once nobody has it as a first address, `SendBroadcast` and `RespondToClusterHead` use a
  null pointer, also while other devices are in use.
- `NotifyRemoveAddress` neither closes the old socket nor binds the new one to the
  device, sets no TTL on it and does not touch the routes: an address of another subnet that moves up
  has no broadcast route.
- The table holds one route for a subnet. When the device that stored it goes down, a
  second one in the same subnet is left without (`BroadcastRouteStands` is about subnets
  of one device).
- `SetDown` of a device that is down, or without an address, ends in
  `NotifyInterfaceDown`, which finds no socket; so does `SetUp` of one without an address
  in `NotifyInterfaceUp`.
- A second `SetUp` leaves two sockets for an interface, of which `NotifyInterfaceDown`
  closes one (`SocketPerInterface` excludes such calls by `reassigns`). The result of
  `Bind` is ignored; a socket it refuses is in the map, sends, and hears nothing.
- `SendBroadcast` sends to the fixed 10.1.1.255, so that the route of a subnet matters to
  it only where that is the subnet's broadcast address.

Energy model and driver:

- `GetTotalEnergyConsumption` adds a period that its own update has already charged
  (`wifi-radio-energy-model.cc:154`).
- `main.cc:520` installs `OnOffHelper` where a comment asks for `WsnHelper`. `TotalPackets` and
  `CountDroppedPkt` are connected to nothing, so the report shows 0 for both.
- `main.cc:330` multiplies the receiving time by `GetTxCurrentA`.
- The default deadlines of `WsnApplication` are 5 to 8 ns, where `main.cc:524` gives
  seconds.
- `main.cc` 541-2381 repeats other source files of the repository.

## 7. Assumptions, and what is left out

- Build: optimized. `NS_ASSERT` does not stop the simulation, except
  that `NoTimerRearmed` concerns a check `ns3::Timer` makes in every build, and
  that `LeachInterfaces` ends the program where an assertion fails and the pointer it
  checks is used right after.
  `LeachAggregation` is the program built with `DA`, `LeachForwarding` the default one.
- The threshold at `Round % n = 9` is taken as 1; in doubles, 0.1 / (1 - 0.9) may
  fall short of 1 by an ulp or so, which a draw from [0, 1) has no practical chance to
  hit. Wrapping of the 32-bit `Round` is left out.
- The sink keeps nothing of what `RecvLeach` gets, so a packet to the sink's
  control port is the same as a lost one.
- `LeachAggregation`: only the node's own packets enter its queue, as no entry for
  another node is ever stored (`join_sent`); OptTM's sum with a deadline read from the
  wrong bytes may come out either way; the application's packet has its default size.
- The statistics of `main.cc` (`timeline`, `tx_time`), the ICMP message for an expired
  TTL, logging, the mobility of nodes (positions are constants), PIR and the
  acceleration of the header are left out: no modelled decision reads them.
- External, modelled from their use: the simulator's clock and timers, the channel,
  `Ipv4L3Protocol` (forwarding, TTL, the calls into the interface callbacks), the
  loopback device, the battery (`BasicEnergySource` clamps at 0 and updates itself
  periodically), `WifiPhy`, `InternetStackHelper`.
- Recharging of the battery and the optional TX current model are not installed by
  `main.cc` and are left out.
- Of the routing table only what the protocol calls is modelled; `Update`, the list
  queries, `Print` and the event table have no caller. Likewise `PacketQueue::Find` and
  `GetCountForPacketsWithDst`.
- `DoDispose` and the destructors: nothing is called after them.
- `LeachHelper` and `WsnHelper` beyond what the driver uses of them set attributes and
  keep no state. `dsdv-test.cc` tests another protocol.

## 8. Plan

Done, in this order: `LeachRoutingTable`, `HeadRotation`, `LeachCluster` with its
proofs, `LeachForwarding`, `WifiRadioEnergyModel`, `WsnApplication` with its proofs,
`LeachInterfaces` with its proofs, `PacketCustody` and its two refinements,
`LeachAggregation`, `LeachProposal`, the proofs of `WifiRadioEnergyModel`,
`Subsequences` with its proofs, the proofs of `LeachForwarding` and of
`LeachAggregation`.

What could follow:

1. Recharging in `WifiRadioEnergyModel` (`NotifyOn`, `HandleEnergyRecharged`), for
   sources other than the one `main.cc` installs.
2. `LeachAggregation` with several nodes, should `Copy` be given a body: then members
   have routes, and packets of others enter the queue.
