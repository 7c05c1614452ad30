-------------------------- MODULE LeachAggregation --------------------------
(***************************************************************************)
(* Data aggregation at one node, as leach::RoutingProtocol is built with   *)
(* DA: RouteOutput asks the policy whether a packet leaves now, with all   *)
(* that waits in m_queue for the sink; otherwise it goes through the       *)
(* loopback device, is cut into entries and joins the queue.               *)
(*                                                                         *)
(* Sizes decide what is cut.  A LeachHeader is written in HeaderWritten    *)
(* bytes (GetSerializedSize) and Deserialize reads four more, so that      *)
(* DeAggregate, which looks for 56, takes Taken bytes at a time: from the  *)
(* application's packet its measurement and then blanks, from what was     *)
(* appended to it pieces of entries with whatever deadline their bytes     *)
(* give.  The deadline is written behind the address, which the code       *)
(* writes twice in its full size: its upper half ends up outside the       *)
(* header, and what is read is the deadline modulo DeadlineWord (2^32 ns). *)
(*                                                                         *)
(* Nothing but the node's own packets enters m_queue: RouteInput from the  *)
(* radio enqueues only with a route over another node, and no entry for    *)
(* one is ever stored (module LeachCluster).  For the same reason          *)
(* m_clusterMember is empty.  Time is counted in ticks; timeline and       *)
(* tx_time are left out.                                                   *)
(***************************************************************************)
EXTENDS Subsequences, FiniteSets, SequencesExt

CONSTANTS
  Policies,       \* among PROP, OPT, CL, SF (the macros DA_*) and NONE
  Gap,            \* ticks between two packets of the application
  DeadlineIn,     \* how many ticks ahead the deadline of a new packet may be
  DeadlineWord,   \* 2^32 ns
  PerPacket,      \* 1 / m_lambda
  Air,            \* 0.064 s, the transmission time Proposal reckons with
  MsPerTick,      \* milliseconds of a tick
  FlushTime,      \* 48.5 s: from then on nothing is held back
  Period,         \* m_periodicUpdateInterval
  AppSize,        \* bytes of an application packet, a multiple of 56
  HeaderWritten,  \* LeachHeader::GetSerializedSize
  MaxFar,         \* a bound on the deadlines far ahead that one packet brings
  TotalTime       \* the end of the simulation

Unit == 56                      \* what RouteOutput and DeAggregate look for
Payload == 16                   \* data bytes of an entry
HeaderRead == HeaderWritten + 4
EntrySize == HeaderWritten + Payload
Taken == HeaderRead + Payload
Threshold == 2                  \* ControlLimit's, whatever m_lambda is
Horizon == 99                   \* the last of OptTM's decision times
CycleLen == 10                  \* rounds in which a node is head once
StepCap == 8                    \* steps from which on OptTM's bonus is constant
Far == TotalTime + Horizon * PerPacket + 1      \* later than any time looked at

ASSUME AggregationAssumption ==
  /\ Policies \subseteq {"PROP", "OPT", "CL", "SF", "NONE"}
  /\ {Gap, PerPacket, Air, MsPerTick, Period, DeadlineWord} \subseteq Nat \ {0}
  /\ {FlushTime, TotalTime, MaxFar} \subseteq Nat /\ DeadlineIn \subseteq Nat
  /\ HeaderWritten \in Nat /\ HeaderWritten >= Unit /\ HeaderWritten % Unit # 0
  /\ AppSize \in Nat \ {0} /\ AppSize % Unit = 0 /\ AppSize >= Taken

VARIABLES
  policy,               \* which macro the program was compiled with
  fits,                 \* whether 10.1.1.255 is the interface's broadcast address
  Now,
  Round,                \* rounds begun
  clusterHeadThisRound,
  valid,                \* whether the node may still be elected in this cycle
  timer,                \* the one-shot timer of the round: ADVERT, JOIN or OFF
  hasRoute,             \* whether there is a route to the sink
  generated,            \* measurements taken so far, numbered from 1
  m_queue,
  m_hash,               \* the rest EnqueuePacket keeps for each packet uid
  loopback,             \* packets inside the loopback device
  m_dropped,
  step,                 \* OptTM's static counter, shared by all nodes
  onAir,                \* packets on their way to the sink
  made, taken,          \* history: entries that DeAggregate made, Dequeue took
  gone                  \* history: measurements sent, dropped or cut to pieces

control == <<Round, clusterHeadThisRound, valid, timer, hasRoute>>
data == <<generated, m_queue, m_hash, loopback, m_dropped, step, made, taken, gone>>
vars == <<policy, fits, Now, control, data, onAir>>

\* A packet has a measurement of its own (0 in a control packet), the ids of
\* those appended to it, and the number of all entries appended.
Control(uid) == [uid |-> uid, id |-> 0, deadline |-> 0, carries |-> {}, appended |-> 0]
IsControl(p) == p.id = 0
Size(p) == IF IsControl(p) THEN HeaderWritten ELSE AppSize + EntrySize * p.appended

Init ==
  /\ policy \in Policies /\ fits \in BOOLEAN
  /\ Now = 0
  /\ Round = 0 /\ clusterHeadThisRound = FALSE /\ valid = TRUE
  /\ timer = "OFF" /\ hasRoute = FALSE
  /\ generated = 0
  /\ m_queue = <<>> /\ m_hash = {} /\ loopback = <<>>
  /\ m_dropped = 0 /\ step = 0
  /\ onAir = {}
  /\ made = 0 /\ taken = 0 /\ gone = {}

-----------------------------------------------------------------------------
\* Mutant: the loop goes on behind the entry that has moved into the gap.
FreshSkipping ==
  FoldLeft(LAMBDA acc, e :
             IF e.deadline < Now /\ ~acc.skip THEN [acc EXCEPT !.skip = TRUE]
             ELSE [kept |-> Append(acc.kept, e), skip |-> FALSE],
           [kept |-> <<>>, skip |-> FALSE], m_queue).kept

\* Proposal and ControlLimit first drop what is late.
DropsLate == policy \in {"PROP", "CL"}
Fresh == Selected(m_queue, {i \in DOMAIN m_queue : m_queue[i].deadline >= Now})

Retained == IF DropsLate THEN Fresh ELSE m_queue

\* Proposal: an entry that cannot wait for as long as the queue takes, nor on
\* a member for one more packet and its flight, is urgent.
deadLine ==
  Now + Len(m_queue) * PerPacket
      + (IF clusterHeadThisRound THEN 0 ELSE Air + PerPacket)

\* One urgent entry for the node itself, and one for each member it has.
Proposal(q) == \E i \in DOMAIN q : q[i].deadline < deadLine

\* Mutant: no end to the number of packets worth waiting for.
BonusUnlimited(n) == 30000 * n

\* OptTM: the reward of waiting for more packets, 30000 - 4000 j for the j-th
\* of at most seven.
Bonus(n) ==
  LET k == IF n > StepCap THEN StepCap - 1 ELSE IF n < 1 THEN 0 ELSE n - 1
  IN  30000 * k - 2000 * k * (k + 1)

\* What is left of the deadlines at a time, in all the entries of q.
TimeLeft(q, time) ==
  LET left[n \in 0 .. Len(q)] ==
        IF n = 0 THEN 0
        ELSE left[n - 1] + (IF q[n].deadline >= time
                            THEN (q[n].deadline - time) * MsPerTick ELSE 0)
  IN  left[Len(q)]

\* The reward of transmitting at the i-th decision time: that, and the bonus.
Reward(q, i) == Bonus(i + step) + TimeLeft(q, Now + i * PerPacket)

\* actions[0] is 2 if no later time has a higher reward: for i = 0 the
\* coefficients of rn vanish and rb[1] is at most the highest reward.
OptTM(q) ==
  LET best == Reward(q, 0) IN \A i \in 1 .. Horizon : Reward(q, i) <= best

ControlLimit(q) == Len(q) >= Threshold

\* DataAggregation: whether a new packet leaves at once, q being what waits.
\* OptTM sums in 32 bits: with a garbage deadline the sum may come out anyhow.
DataAggregation(q) ==
  CASE policy = "NONE" -> {TRUE}
    [] policy = "PROP" -> {Proposal(q) \/ Now > FlushTime}
    [] policy = "CL" -> {ControlLimit(q) \/ Now > FlushTime}
    [] policy = "SF" -> {FALSE}
    [] policy = "OPT" ->
         IF \E i \in DOMAIN q : q[i].deadline = Far THEN {Now > FlushTime, TRUE}
         ELSE {OptTM(q) \/ Now > FlushTime}

\* Mutant: Dequeue copies the entries and leaves them in the queue.
ForOthersAndSink(q) == q

\* Dequeue (m_sinkAddress) until there is none: other entries stay.
ForOthers(q) == Selected(q, {i \in DOMAIN q : ~q[i].toSink})
ForSink(q) == Selected(q, {i \in DOMAIN q : q[i].toSink})

\* Every policy but the empty one appends what it dequeues to the packet.
Merges == policy # "NONE"

Ids(q) == {q[i].id : i \in DOMAIN q} \ {0}
Merged(p, out) == [p EXCEPT !.carries = Ids(out), !.appended = Len(out)]

\* RouteOutput of an application packet goes by the policy.
RouteOutput(p) ==
  /\ Size(p) % Unit = 0
  /\ \E leaves \in DataAggregation(Retained) :
       LET q == Retained
           merges == leaves /\ Merges
           out == IF merges THEN ForSink(q) ELSE <<>>
       IN  /\ m_dropped' = m_dropped + Len(m_queue) - Len(q)
           /\ m_queue' = IF merges THEN ForOthers(q) ELSE q
           /\ taken' = taken + Len(out)
           /\ LET late == Ids(m_queue) \ Ids(q) IN
                IF leaves /\ hasRoute
                THEN /\ onAir' = onAir \cup {Merged(p, out)} /\ UNCHANGED loopback
                     /\ gone' = gone \cup late \cup {p.id} \cup Ids(out)
                ELSE /\ loopback' = Append(loopback, Merged(p, out)) /\ UNCHANGED onAir
                     /\ gone' = gone \cup late
  /\ step' = IF policy = "OPT" /\ step < StepCap THEN step + 1 ELSE step

\* A control packet, of no multiple of 56, goes by the table alone.
RouteOutputControl(uid, routed) ==
  /\ loopback' = IF routed THEN loopback ELSE Append(loopback, Control(uid))
  /\ UNCHANGED <<generated, m_queue, m_hash, m_dropped, step, made, taken, gone, onAir>>

-----------------------------------------------------------------------------
\* The application sends a measurement, periodically.
SendPacket ==
  /\ Now = Gap * generated
  /\ Now < TotalTime
  /\ generated' = generated + 1
  /\ \E d \in DeadlineIn :
       RouteOutput([uid |-> generated + 1, id |-> generated + 1,
                    deadline |-> (Now + d) % DeadlineWord, carries |-> {}, appended |-> 0])
  /\ UNCHANGED <<policy, fits, Now, control, m_hash, made>>

\* How often DeAggregate finds 56 bytes, of n, the last time perhaps with
\* fewer than it takes.
Reads(n) == n \div Taken + (IF n % Taken >= Unit THEN 1 ELSE 0)
Left(n) == IF n % Taken >= Unit THEN 0 ELSE n % Taken

\* The entries, but for the packet's own, that are read beyond its padding.
Beyond(p) == {k \in 2 .. Reads(Size(p)) : (k - 1) * Taken + HeaderRead > AppSize}

\* Of each, the deadline may come out as long over or as far ahead; a run bounds
\* how many of a packet's are far ahead.
MayBeFar(p) == {{}} \cup {{t[i] : i \in 1 .. MaxFar} : t \in [1 .. MaxFar -> Beyond(p)]}

\* The packet's own entry, blanks out of its padding, and beyond it whatever the
\* misplaced bytes make of each deadline.
DeAggregate(p, far) ==
  [k \in 1 .. Reads(Size(p)) |->
     [id |-> IF k = 1 THEN p.id ELSE 0,
      deadline |-> IF k = 1 THEN p.deadline ELSE IF k \in far THEN Far ELSE 0,
      toSink |-> ~IsControl(p)]]

\* RouteInput from the loopback device.  The branch that joins the packet to an
\* earlier rest of its uid is left out: a uid comes by only once, so that it is
\* never taken (Conservation says so of this model).
EnqueuePacket ==
  /\ loopback # <<>>
  /\ LET p == Head(loopback) IN
       \E far \in MayBeFar(p) :
         /\ m_queue' = m_queue \o DeAggregate(p, far)
         /\ made' = made + Reads(Size(p))
         /\ m_hash' = m_hash \cup {[uid |-> p.uid, left |-> Left(Size(p))]}
         /\ gone' = gone \cup p.carries
  /\ loopback' = Tail(loopback)
  /\ UNCHANGED <<policy, fits, Now, control, generated, m_dropped, step, taken, onAir>>

\* The other nodes' calls of OptTM move the same counter.
OtherNodeDecides ==
  /\ policy = "OPT" /\ step < StepCap
  /\ step' = step + 1
  /\ UNCHANGED <<policy, fits, Now, control, generated, m_queue, m_hash, loopback,
                 m_dropped, made, taken, gone, onAir>>

-----------------------------------------------------------------------------
RoundDue == Now = Period * Round

\* Mutant: the routes of the last round stay in the table.
PeriodicUpdateKeepingRoute ==
  /\ RoundDue /\ Now < TotalTime
  /\ Round' = Round + 1
  /\ LET electable == valid \/ Round % CycleLen = 0 IN
       \E head \in {FALSE, electable} :
         /\ clusterHeadThisRound' = head /\ valid' = (electable /\ ~head)
         /\ timer' \in IF head THEN {"ADVERT"} ELSE {"OFF", IF fits THEN "JOIN" ELSE "OFF"}
  /\ UNCHANGED <<policy, fits, Now, hasRoute, data, onAir>>

\* The part of a new round that the data plane notices.  A member answers if
\* it has heard a head, whose advertisement has to leave its node.
PeriodicUpdate ==
  /\ RoundDue /\ Now < TotalTime
  /\ Round' = Round + 1
  /\ hasRoute' = FALSE
  /\ LET electable == valid \/ Round % CycleLen = 0 IN
       \E head \in {FALSE, electable} :
         /\ clusterHeadThisRound' = head /\ valid' = (electable /\ ~head)
         /\ timer' \in IF head THEN {"ADVERT"} ELSE {"OFF", IF fits THEN "JOIN" ELSE "OFF"}
  /\ UNCHANGED <<policy, fits, Now, data, onAir>>

\* A head advertises itself, and stores its route.
SendBroadcast ==
  /\ timer = "ADVERT" /\ timer' = "OFF"
  /\ RouteOutputControl(0 - Round, fits)
  /\ hasRoute' = TRUE
  /\ UNCHANGED <<policy, fits, Now, Round, clusterHeadThisRound, valid>>

\* A member has no route to the head it answers.
RespondToClusterHead ==
  /\ timer = "JOIN" /\ timer' = "OFF"
  /\ RouteOutputControl(0 - Round, FALSE)
  /\ UNCHANGED <<policy, fits, Now, Round, clusterHeadThisRound, valid, hasRoute>>

\* A packet reaches the sink, or is lost, before the next tick.
Leave(p) ==
  /\ onAir' = onAir \ {p}
  /\ UNCHANGED <<policy, fits, Now, control, data>>

\* Time goes on when nothing is due.  The timers of a round take less than a tick.
Tick ==
  /\ Now < TotalTime
  /\ Now # Gap * generated /\ ~RoundDue
  /\ loopback = <<>> /\ onAir = {}
  /\ timer = "OFF"
  /\ Now' = Now + 1
  /\ UNCHANGED <<policy, fits, control, data, onAir>>

Next ==
  \/ SendPacket
  \/ EnqueuePacket
  \/ OtherNodeDecides
  \/ PeriodicUpdate
  \/ SendBroadcast
  \/ RespondToClusterHead
  \/ \E p \in onAir : Leave(p)
  \/ Tick

Spec == Init /\ [][Next]_vars

-----------------------------------------------------------------------------
QueueEntry == [id : Nat, deadline : Nat, toSink : BOOLEAN]
Packet == [uid : Int, id : Nat, deadline : Nat, carries : SUBSET (Nat \ {0}), appended : Nat]

\* Every variable keeps its type; only a head has a route to the sink.
TypeOK ==
  /\ policy \in Policies /\ fits \in BOOLEAN
  /\ Now \in 0 .. TotalTime
  /\ Round \in Nat /\ clusterHeadThisRound \in BOOLEAN /\ valid \in BOOLEAN
  /\ timer \in {"ADVERT", "JOIN", "OFF"} /\ hasRoute \in BOOLEAN
  /\ hasRoute => clusterHeadThisRound
  /\ {generated, m_dropped, made, taken} \subseteq Nat /\ step \in 0 .. StepCap
  /\ m_queue \in Seq(QueueEntry) /\ gone \subseteq 1 .. generated
  /\ \A p \in onAir \cup Range(loopback) : p \in Packet
  /\ m_hash \subseteq [uid : Int, left : 0 .. Unit - 1]

LoopbackIds == (UNION {{p.id} \cup p.carries : p \in Range(loopback)}) \ {0}

\* PacketCustody, the promise to the application: a measurement waits until it
\* is sent, dropped or, appended to a packet that does not leave, cut to
\* pieces; it is in one of these states only, and none comes back.
Custody == INSTANCE PacketCustody
  WITH Item <- Nat, held <- Ids(m_queue) \cup LoopbackIds, settled <- gone

\* RouteOutput and EnqueuePacket keep that promise.
CustodyKept == Custody!Spec

\* The queue's accounts agree whatever is cut, merged, dropped and cut again:
\* an entry that DeAggregate made waits, was counted in m_dropped or was taken
\* by Dequeue; every uid that came by loopback has one rest in m_hash; no
\* measurement waits twice.
Conservation ==
  /\ made = Len(m_queue) + m_dropped + taken
  /\ \A g, h \in m_hash : g.uid = h.uid => g = h
  /\ \A p \in Range(loopback) : \A h \in m_hash : p.uid # h.uid
  /\ Cardinality({i \in DOMAIN m_queue : m_queue[i].id # 0}) = Cardinality(Ids(m_queue))
  /\ Ids(m_queue) \cap LoopbackIds = {}

\* When Proposal or ControlLimit has decided, exactly the entries whose
\* deadline is over have been dropped, none has left and none is left.
DeadlinesDecide ==
  [][DropsLate /\ generated' > generated =>
       /\ m_dropped' - m_dropped =
            Cardinality({i \in DOMAIN m_queue : m_queue[i].deadline < Now})
       /\ \A i \in DOMAIN m_queue' : m_queue'[i].deadline >= Now]_vars

\* OptTM's static counter is never reset: after eight decisions anywhere in
\* the network it holds no measurement back any more.  Left out are the
\* decisions made while an entry with a garbage deadline (Far) waits, whose
\* sums of rewards overflow and may come out anyhow.
OptTMGivesUpWaiting ==
  [][policy = "OPT" /\ step = StepCap /\ generated' > generated
       /\ (\A i \in DOMAIN m_queue : m_queue[i].deadline # Far)
     => \A i \in DOMAIN m_queue' : ~m_queue'[i].toSink]_vars

=============================================================================
