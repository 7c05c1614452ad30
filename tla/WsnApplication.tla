--------------------------- MODULE WsnApplication ---------------------------
(***************************************************************************)
(* The traffic source on every sensor node (wsn-application.cc): one chain *)
(* of scheduled events in which SendPacket calls ScheduleNextTx and that   *)
(* schedules the next SendPacket, until the application is stopped or has  *)
(* sent MaxBytes.                                                          *)
(*                                                                         *)
(* Times are ticks.  An event is the time it is due at; the simulator runs *)
(* due events in any order.  ns3::Application, external, starts and stops  *)
(* the application at most once each; the simulation ends at TotalTime.    *)
(***************************************************************************)
EXTENDS Integers, Sequences, SequencesExt

CONSTANTS
  PacketSize,      \* m_pktSize, bytes
  Limit,           \* values of m_maxBytes, 0 for no limit
  PktTime,         \* ticks PacketSize bytes take at m_cbrRate
  Period,          \* ticks of 1 / m_pktGenRate
  PoissonTime,     \* ticks of 1 / k for the k > 0 drawn
  Second,          \* ticks to the next draw when k = 0
  Word,            \* 2^32, in the ticks its bits take
  StartTime, StopTime, TotalTime

ASSUME TrafficAssumption ==
  /\ PacketSize \in Nat \ {0} /\ Limit \subseteq Nat
  /\ PktTime \in Nat \ {0} /\ Period \in Nat /\ PoissonTime \subseteq Nat
  /\ Second \in Nat \ {0} /\ Word \in Nat /\ PktTime < Word
  /\ StartTime \subseteq Nat /\ StopTime \subseteq Nat /\ TotalTime \in Nat

VARIABLES
  Now,
  startEvent, stopEvent,    \* of ns3::Application
  m_pktGenPattern,          \* 0 periodic, 1 Poisson, 2 for any other
  m_maxBytes,
  socket,                   \* NONE, OPEN or CLOSED: m_socket
  m_sendEvent,
  redraws,                  \* ScheduleNextTx events, whose ids nobody keeps
  m_residualBits,           \* in the ticks the bits take
  m_lastStartTime,
  m_totBytes,
  accepted                  \* history: bytes handed to an open socket

attributes == <<m_pktGenPattern, m_maxBytes>>
lifecycle == <<startEvent, stopEvent>>
counters == <<m_totBytes, accepted>>
vars == <<Now, lifecycle, attributes, socket, m_sendEvent, redraws,
          m_residualBits, m_lastStartTime, counters>>

None == -1

Init ==
  /\ Now = 0
  /\ startEvent \in StartTime /\ stopEvent \in StopTime \cup {None}
  /\ m_pktGenPattern \in 0 .. 2 /\ m_maxBytes \in Limit
  /\ socket = "NONE"
  /\ m_sendEvent = None
  /\ redraws = <<>>
  /\ m_residualBits = 0
  /\ m_lastStartTime = 0
  /\ m_totBytes = 0
  /\ accepted = 0

-----------------------------------------------------------------------------
\* Mutant: one packet more when the limit is met exactly.
MayScheduleAtLimit(total) == m_maxBytes = 0 \/ total <= m_maxBytes

MaySchedule(total) == m_maxBytes = 0 \/ total < m_maxBytes

\* Mutant: the residue is taken whether a packet was waiting or not.
ResidueOfAnyStop(send, residue) == residue + (Now - m_lastStartTime)

\* Mutant: the time is taken from the residue.
ResidueSinceStop(send, residue) ==
  IF send = None THEN residue ELSE residue - (Now - m_lastStartTime)

\* CancelEvents adds the bits of the time a waiting packet has waited.
Residue(send, residue) ==
  IF send = None THEN residue ELSE residue + (Now - m_lastStartTime)

\* Mutant: a redraw is scheduled beside the packet instead of in its place.
ScheduleBoth(opened, send, total, residue, others) ==
  /\ m_residualBits' = residue
  /\ socket' = opened
  /\ m_sendEvent' = Now + PktTime + Period
  /\ redraws' = IF m_pktGenPattern = 1 THEN Append(others, Now + Second) ELSE others

\* The time added to that of the bits, by the pattern.
Gap == CASE m_pktGenPattern = 0 -> {Period}
         [] m_pktGenPattern = 1 -> PoissonTime
         [] OTHER -> {0}

\* ScheduleNextTx, in the state its caller leaves: the socket, the waiting
\* packet, the bytes sent, the residue and the redraws.  The number of bits,
\* m_pktSize * 8 - m_residualBits, is unsigned.
ScheduleNextTx(opened, send, total, residue, others) ==
  LET time == Now + ((PktTime - residue) % Word)
  IN  \/ /\ MaySchedule(total)
         /\ \E gap \in Gap : m_sendEvent' = time + gap
         /\ redraws' = others
         /\ socket' = opened
         /\ m_residualBits' = residue
      \/ /\ MaySchedule(total) /\ m_pktGenPattern = 1
         /\ redraws' = Append(others, Now + Second)
         /\ m_sendEvent' = send
         /\ socket' = opened
         /\ m_residualBits' = residue
      \/ /\ ~MaySchedule(total)
         /\ m_residualBits' = Residue(send, residue)
         /\ m_sendEvent' = None
         /\ redraws' = others
         /\ socket' = "CLOSED"

\* StartApplication opens the socket, cancels what is left and starts sending.
StartApplication ==
  /\ startEvent = Now
  /\ startEvent' = None
  /\ m_lastStartTime' = Now
  /\ ScheduleNextTx(IF socket = "NONE" THEN "OPEN" ELSE socket, None, m_totBytes,
                    Residue(m_sendEvent, m_residualBits), redraws)
  /\ UNCHANGED <<Now, stopEvent, attributes, counters>>

\* Mutant: the socket is closed and the waiting packet left.
StopKeepingPacket ==
  /\ stopEvent = Now
  /\ stopEvent' = None
  /\ m_residualBits' = Residue(m_sendEvent, m_residualBits)
  /\ socket' = IF socket = "NONE" THEN "NONE" ELSE "CLOSED"
  /\ UNCHANGED <<Now, startEvent, attributes, m_sendEvent, redraws, m_lastStartTime, counters>>

\* Only the event that was remembered is cancelled.
StopApplication ==
  /\ stopEvent = Now
  /\ stopEvent' = None
  /\ m_residualBits' = Residue(m_sendEvent, m_residualBits)
  /\ m_sendEvent' = None
  /\ socket' = IF socket = "NONE" THEN "NONE" ELSE "CLOSED"
  /\ UNCHANGED <<Now, startEvent, attributes, redraws, m_lastStartTime, counters>>

\* The bytes are counted whatever the socket did with them.
SendPacket ==
  /\ m_sendEvent = Now
  /\ m_totBytes' = m_totBytes + PacketSize
  /\ accepted' = IF socket = "OPEN" THEN accepted + PacketSize ELSE accepted
  /\ m_lastStartTime' = Now
  /\ ScheduleNextTx(socket, None, m_totBytes + PacketSize, 0, redraws)
  /\ UNCHANGED <<Now, lifecycle, attributes>>

\* ScheduleNextTx again, a second after a draw of k = 0.
Redraw ==
  \E i \in DOMAIN redraws :
    /\ redraws[i] = Now
    /\ ScheduleNextTx(socket, m_sendEvent, m_totBytes, m_residualBits, RemoveAt(redraws, i))
    /\ UNCHANGED <<Now, lifecycle, attributes, m_lastStartTime, counters>>

Tick ==
  /\ Now < TotalTime
  /\ Now \notin {startEvent, stopEvent, m_sendEvent} \cup Range(redraws)
  /\ Now' = Now + 1
  /\ UNCHANGED <<lifecycle, attributes, socket, m_sendEvent, redraws,
                 m_residualBits, m_lastStartTime, counters>>

Next ==
  \/ StartApplication
  \/ StopApplication
  \/ SendPacket
  \/ Redraw
  \/ Tick

Spec == Init /\ [][Next]_vars

-----------------------------------------------------------------------------
(* Properties *)

TypeOK ==
  /\ Now \in 0 .. TotalTime
  /\ {startEvent, stopEvent, m_sendEvent} \subseteq Nat \cup {None}
  /\ redraws \in Seq(Nat)
  /\ m_pktGenPattern \in 0 .. 2 /\ m_maxBytes \in Limit
  /\ socket \in {"NONE", "OPEN", "CLOSED"}
  /\ {m_residualBits, m_lastStartTime, m_totBytes, accepted} \subseteq Nat

\* The events that lead to a packet.
Pending == Len(redraws) + IF m_sendEvent = None THEN 0 ELSE 1

\* There is one chain of events: start, stop, the limit and the draws never
\* leave two of them, which SendPacket's assertion would abort on.
OneChain == Pending <= 1

\* ScheduleNextTx subtracts unsigned numbers: no chain is ever continued with a
\* residue, so the bits to wait for do not wrap around to 2^32.
NoUnderflow == Pending > 0 => m_residualBits = 0

\* Once the limit is reached nothing is pending any more, and it is exceeded by
\* less than one packet.
LimitEndsSending ==
  m_maxBytes > 0 =>
    /\ m_totBytes < m_maxBytes + PacketSize
    /\ m_totBytes >= m_maxBytes => Pending = 0 /\ socket = "CLOSED"

\* What the application counts as sent was accepted by its socket, unless the
\* traffic is Poisson: any other source stops when it is told to.
CountsWhatLeft == m_pktGenPattern # 1 => m_totBytes = accepted

-----------------------------------------------------------------------------
(* What comments say and the code does otherwise *)

\* "Cancel all pending events" (CancelEvents, called by StopApplication): a
\* stopped application has nothing left to do.
StoppedIsQuiet == socket = "CLOSED" => Pending = 0

=============================================================================
