----------------------- MODULE WsnApplication_proofs -----------------------
(***************************************************************************)
(* The invariants of WsnApplication, for every size, rate, limit and time  *)
(* of start and stop.  What makes them inductive is that ScheduleNextTx is *)
(* only ever entered with nothing pending and no residue.                  *)
(***************************************************************************)
EXTENDS WsnApplication, TLAPS

\* Before it starts, the application has done nothing.
NotStarted ==
  startEvent # None =>
    socket = "NONE" /\ m_sendEvent = None /\ redraws = <<>>
    /\ m_residualBits = 0 /\ m_totBytes = 0

\* What is pending was scheduled with a socket.
Opened == m_sendEvent # None \/ redraws # <<>> => socket # "NONE"

\* The chain of events: a packet or a draw, never both, and no residue.
Chain ==
  /\ redraws = <<>> \/ (Len(redraws) = 1 /\ m_sendEvent = None)
  /\ m_sendEvent # None \/ redraws # <<>> => m_residualBits = 0

\* A chain goes on only below the limit; it ends with the socket closed.
Limited ==
  /\ socket = "NONE" => m_totBytes = 0
  /\ m_maxBytes > 0 =>
       /\ m_totBytes < m_maxBytes + PacketSize
       /\ m_sendEvent # None \/ redraws # <<>> => m_totBytes < m_maxBytes
       /\ m_totBytes >= m_maxBytes => socket = "CLOSED"

\* Without draws, a packet that waits finds the socket open.
Accepted ==
  m_pktGenPattern # 1 =>
    /\ m_totBytes = accepted
    /\ redraws = <<>>
    /\ m_sendEvent # None => socket = "OPEN"

IInv ==
  /\ TypeOK
  /\ m_lastStartTime <= Now
  /\ NotStarted
  /\ Opened
  /\ Chain
  /\ Limited
  /\ Accepted

-----------------------------------------------------------------------------
\* A redraw is the only event of its chain: taking it leaves none.
LEMMA LastRedraw ==
  ASSUME NEW s \in Seq(Nat), Len(s) = 1, NEW i \in DOMAIN s
  PROVE  RemoveAt(s, i) = <<>>
<1>1. i = 1
  OBVIOUS
<1>2. SubSeq(s, 1, 0) = <<>> /\ SubSeq(s, 2, 1) = <<>>
  OBVIOUS
<1> QED BY <1>1, <1>2 DEF RemoveAt

\* What ScheduleNextTx does when nothing is pending and there is no residue:
\* a chain of one event below the limit, none and a closed socket above it.
LEMMA FreshChain ==
  ASSUME NEW opened \in {"NONE", "OPEN", "CLOSED"}, NEW total \in Nat, IInv,
         ScheduleNextTx(opened, None, total, 0, <<>>)
  PROVE  /\ m_residualBits' = 0
         /\ \/ /\ MaySchedule(total) /\ socket' = opened
               /\ m_sendEvent' \in Nat /\ redraws' = <<>>
            \/ /\ MaySchedule(total) /\ socket' = opened
               /\ m_sendEvent' = None /\ redraws' = <<Now + Second>>
               /\ m_pktGenPattern = 1
            \/ /\ ~MaySchedule(total) /\ socket' = "CLOSED"
               /\ m_sendEvent' = None /\ redraws' = <<>>
<1> USE TrafficAssumption DEF IInv, TypeOK
<1>1. Now \in Nat /\ Now + Second \in Nat /\ (PktTime - 0) % Word = PktTime
  <2>1. Now \in Nat /\ Second \in Nat
    OBVIOUS
  <2>2. PktTime \in Nat /\ Word \in Nat /\ PktTime < Word
    OBVIOUS
  <2>3. (PktTime - 0) % Word = PktTime
    <3> HIDE DEF IInv, TypeOK
    <3> QED BY <2>2, SMT
  <2>4. Now + Second \in Nat
    BY <2>1
  <2> QED BY <2>1, <2>3, <2>4
<1>2. \A gap \in Gap : gap \in Nat
  BY DEF Gap
<1>3. Append(<<>>, Now + Second) = <<Now + Second>>
  OBVIOUS
<1> QED BY <1>1, <1>2, <1>3 DEF ScheduleNextTx, Residue

\* The state before the call, put together with what the call does.
LEMMA FreshInv ==
  ASSUME NEW opened \in {"OPEN", "CLOSED"}, NEW total \in Nat, IInv,
         ScheduleNextTx(opened, None, total, 0, <<>>),
         UNCHANGED <<Now, attributes>>, startEvent' = None, stopEvent' \in Nat \cup {None},
         m_lastStartTime' \in Nat, m_lastStartTime' <= Now,
         m_totBytes' = total, accepted' \in Nat,
         m_maxBytes > 0 => total < m_maxBytes + PacketSize,
         m_pktGenPattern # 1 => total = accepted' /\ opened = "OPEN"
  PROVE  IInv'
<1> USE TrafficAssumption DEF IInv, TypeOK, attributes
<1>1. MaySchedule(total) <=> m_maxBytes = 0 \/ total < m_maxBytes
  BY DEF MaySchedule
<1>2. m_maxBytes \in Nat /\ Now \in Nat /\ Second \in Nat
  OBVIOUS
<1>3. <<Now + Second>> \in Seq(Nat) /\ Len(<<Now + Second>>) = 1 /\ <<>> \in Seq(Nat)
      /\ <<Now + Second>> # <<>>
  BY <1>2
<1>4. None \notin Nat
  BY DEF None
<1>5. m_residualBits' = 0
  BY FreshChain
<1>6. CASE MaySchedule(total) /\ socket' = opened /\ m_sendEvent' \in Nat /\ redraws' = <<>>
  BY <1>1, <1>2, <1>3, <1>4, <1>5, <1>6 DEF NotStarted, Opened, Chain, Limited, Accepted
<1>7. CASE /\ MaySchedule(total) /\ socket' = opened
           /\ m_sendEvent' = None /\ redraws' = <<Now + Second>>
           /\ m_pktGenPattern = 1
  BY <1>1, <1>2, <1>3, <1>4, <1>5, <1>7 DEF NotStarted, Opened, Chain, Limited, Accepted
<1>8. CASE ~MaySchedule(total) /\ socket' = "CLOSED" /\ m_sendEvent' = None /\ redraws' = <<>>
  BY <1>1, <1>2, <1>3, <1>4, <1>5, <1>8 DEF NotStarted, Opened, Chain, Limited, Accepted
<1> QED BY <1>6, <1>7, <1>8, FreshChain

\* The application starts from nothing.
LEMMA InitInv == Init => IInv
  BY TrafficAssumption
  DEF Init, IInv, TypeOK, NotStarted, Opened, Chain, Limited, Accepted, None

\* Every step keeps the invariant.
LEMMA NextInv == IInv /\ [Next]_vars => IInv'
<1> SUFFICES ASSUME IInv, [Next]_vars PROVE IInv'
  OBVIOUS
<1> USE TrafficAssumption
<1>0. None \notin Nat /\ Now \in Nat
  BY DEF None, IInv, TypeOK
<1>1. ASSUME StartApplication PROVE IInv'
  <2>1. startEvent # None
    BY <1>0, <1>1 DEF StartApplication
  <2>2. socket = "NONE" /\ m_sendEvent = None /\ redraws = <<>> /\ m_totBytes = 0
        /\ Residue(m_sendEvent, m_residualBits) = 0
    BY <2>1 DEF IInv, NotStarted, Residue
  <2>3. ScheduleNextTx("OPEN", None, 0, 0, <<>>)
    BY <1>1, <2>2 DEF StartApplication
  <2>4. m_pktGenPattern # 1 => accepted = 0
    BY <2>2 DEF IInv, Accepted
  <2>5. UNCHANGED <<Now, attributes>> /\ startEvent' = None /\ stopEvent' = stopEvent
        /\ m_lastStartTime' = Now /\ m_totBytes' = 0 /\ accepted' = accepted
    BY <1>1, <2>2 DEF StartApplication, counters
  <2>6. stopEvent \in Nat \cup {None} /\ accepted \in Nat /\ m_maxBytes \in Nat
    BY DEF IInv, TypeOK
  <2> QED BY <1>0, <2>3, <2>4, <2>5, <2>6, FreshInv
<1>2. ASSUME StopApplication PROVE IInv'
  <2>1. Residue(m_sendEvent, m_residualBits) \in Nat
    BY <1>0 DEF Residue, IInv, TypeOK
  <2>2. TypeOK'
    BY <1>2, <2>1 DEF StopApplication, IInv, TypeOK, attributes, counters
  <2>3. m_sendEvent = None => Residue(m_sendEvent, m_residualBits) = m_residualBits
    BY DEF Residue
  <2>4. (m_lastStartTime <= Now)' /\ NotStarted' /\ Opened' /\ Chain'
    BY <1>2, <2>3 DEF StopApplication, IInv, NotStarted, Opened, Chain, counters
  <2>5. Limited' /\ Accepted'
    BY <1>2 DEF StopApplication, IInv, Limited, Accepted, attributes, counters
  <2> QED BY <2>2, <2>4, <2>5 DEF IInv
<1>3. ASSUME SendPacket PROVE IInv'
  <2>1. m_sendEvent # None
    BY <1>0, <1>3 DEF SendPacket
  <2>2. redraws = <<>> /\ startEvent = None /\ socket \in {"OPEN", "CLOSED"}
        /\ (m_pktGenPattern # 1 => socket = "OPEN" /\ m_totBytes = accepted)
    <3>1. redraws = <<>>
      BY <2>1 DEF IInv, Chain
    <3>2. startEvent = None
      BY <2>1 DEF IInv, NotStarted
    <3>3. m_pktGenPattern # 1 => socket = "OPEN" /\ m_totBytes = accepted
      BY <2>1 DEF IInv, Accepted
    <3>4. socket # "NONE"
      BY <2>1 DEF IInv, Opened
    <3> QED BY <3>1, <3>2, <3>3, <3>4 DEF IInv, TypeOK
  <2>3. ScheduleNextTx(socket, None, m_totBytes + PacketSize, 0, <<>>)
    BY <1>3, <2>2 DEF SendPacket
  <2>4. m_totBytes + PacketSize \in Nat /\ accepted' \in Nat
        /\ stopEvent \in Nat \cup {None}
    BY <1>3 DEF SendPacket, IInv, TypeOK
  <2>5. m_maxBytes > 0 => m_totBytes + PacketSize < m_maxBytes + PacketSize
    BY <2>1 DEF IInv, Limited, TypeOK
  <2>6. m_pktGenPattern # 1 => m_totBytes + PacketSize = accepted' /\ socket = "OPEN"
    BY <1>3, <2>2 DEF SendPacket
  <2>7. UNCHANGED <<Now, attributes>> /\ startEvent' = None /\ stopEvent' = stopEvent
        /\ m_lastStartTime' = Now /\ m_totBytes' = m_totBytes + PacketSize
    BY <1>3, <2>2 DEF SendPacket, lifecycle
  <2> QED BY <1>0, <2>2, <2>3, <2>4, <2>5, <2>6, <2>7, FreshInv
<1>4. ASSUME Redraw PROVE IInv'
  <2>1. PICK i \in DOMAIN redraws :
          /\ ScheduleNextTx(socket, m_sendEvent, m_totBytes, m_residualBits, RemoveAt(redraws, i))
          /\ UNCHANGED <<Now, lifecycle, attributes, m_lastStartTime, counters>>
    BY <1>4 DEF Redraw
  <2>2. redraws # <<>> /\ redraws \in Seq(Nat)
    BY <2>1 DEF IInv, TypeOK
  <2>3. Len(redraws) = 1 /\ m_sendEvent = None /\ m_residualBits = 0
    BY <2>2 DEF IInv, Chain
  <2>4. startEvent = None /\ socket \in {"OPEN", "CLOSED"} /\ m_pktGenPattern = 1
    BY <2>2 DEF IInv, NotStarted, Opened, Accepted, TypeOK
  <2>5. ScheduleNextTx(socket, None, m_totBytes, 0, <<>>)
    BY <2>1, <2>2, <2>3, LastRedraw
  <2>6. m_totBytes \in Nat /\ accepted \in Nat /\ m_lastStartTime \in Nat
        /\ m_lastStartTime <= Now /\ stopEvent \in Nat \cup {None}
    BY DEF IInv, TypeOK
  <2>7. m_maxBytes > 0 => m_totBytes < m_maxBytes + PacketSize
    BY DEF IInv, Limited
  <2>8. UNCHANGED <<Now, attributes, startEvent, stopEvent, m_lastStartTime,
                    m_totBytes, accepted>>
    BY <2>1 DEF lifecycle, counters
  <2> QED BY <2>4, <2>5, <2>6, <2>7, <2>8, FreshInv
<1>5. ASSUME Tick PROVE IInv'
  <2>1. TypeOK' /\ (m_lastStartTime <= Now)'
    BY <1>0, <1>5 DEF Tick, IInv, TypeOK, lifecycle, attributes, counters
  <2>2. NotStarted' /\ Opened' /\ Chain' /\ Limited' /\ Accepted'
    BY <1>5 DEF Tick, IInv, NotStarted, Opened, Chain, Limited, Accepted, lifecycle, attributes, counters
  <2> QED BY <2>1, <2>2 DEF IInv
<1>6. ASSUME UNCHANGED vars PROVE IInv'
  BY <1>6 DEF vars, IInv, TypeOK, NotStarted, Opened, Chain, Limited, Accepted,
              lifecycle, attributes, counters
<1> QED BY <1>1, <1>2, <1>3, <1>4, <1>5, <1>6 DEF Next

-----------------------------------------------------------------------------
\* The invariant holds throughout.
LEMMA Inductive == Spec => []IInv
  BY InitInv, NextInv, PTL DEF Spec

\* Every variable of the traffic source keeps its type; the residue, a
\* difference of times, never becomes negative.
THEOREM TypeCorrect == Spec => []TypeOK
<1>1. IInv => TypeOK
  BY DEF IInv
<1> QED BY <1>1, Inductive, PTL

\* There is never a second chain of events, so SendPacket is never entered
\* while another packet waits, whatever is started, stopped or drawn.
THEOREM ChainIsSingle == Spec => []OneChain
<1>1. IInv => OneChain
  <2> SUFFICES ASSUME IInv PROVE Pending <= 1
    BY DEF OneChain
  <2>1. redraws = <<>> => Len(redraws) = 0
    OBVIOUS
  <2>2. CASE redraws = <<>>
    BY <2>1, <2>2 DEF Pending
  <2>3. CASE Len(redraws) = 1 /\ m_sendEvent = None
    BY <2>3 DEF Pending
  <2> QED BY <2>2, <2>3 DEF IInv, Chain
<1> QED BY <1>1, Inductive, PTL

\* The unsigned difference in ScheduleNextTx does not wrap around.
THEOREM BitsDoNotWrap == Spec => []NoUnderflow
<1>1. IInv => NoUnderflow
  BY DEF IInv, TypeOK, Chain, NoUnderflow, Pending
<1> QED BY <1>1, Inductive, PTL

\* MaxBytes ends the sending, never by as much as one packet too late.
THEOREM LimitIsKept == Spec => []LimitEndsSending
<1>1. IInv => LimitEndsSending
  BY TrafficAssumption DEF IInv, TypeOK, Chain, Limited, LimitEndsSending, Pending
<1> QED BY <1>1, Inductive, PTL

\* Unless its traffic is Poisson, the source counts what its socket accepted.
THEOREM CountIsRight == Spec => []CountsWhatLeft
<1>1. IInv => CountsWhatLeft
  BY DEF IInv, Accepted, CountsWhatLeft
<1> QED BY <1>1, Inductive, PTL

=============================================================================
