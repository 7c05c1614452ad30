------------------------ MODULE WifiRadioEnergyModel ------------------------
(***************************************************************************)
(* The energy a node's radio uses: WifiRadioEnergyModel with the custom    *)
(* ChangeState of this repository, and the listener that turns what the    *)
(* radio reports into changes of state.                                    *)
(*                                                                         *)
(* Model and energy source call each other.  ChangeState charges the time  *)
(* spent in the old state and asks the source to update itself; an update  *)
(* that finds the battery low switches the radio off, and the radio's      *)
(* report of that enters ChangeState a second time, before the first call  *)
(* has returned.  The calls are functions from one state of the record     *)
(* radio to the next, so a nested call is a nested application.            *)
(*                                                                         *)
(* The battery (BasicEnergySource), the depletion callback of the helper   *)
(* (WifiPhy::SetOffMode) and the radio itself are external.  Time is       *)
(* counted in ticks, energy in what a current of one draws in one tick.    *)
(***************************************************************************)
EXTENDS Integers

CONSTANTS
  InitialEnergy,    \* of the battery
  LowBattery,       \* the charge at which it counts as depleted
  UpdateInterval,   \* longest time between two updates of the battery
  MaxBusy,          \* longest transmission, switching or busy period
  StateA            \* the current of each state

WifiPhyState == {"IDLE", "CCA_BUSY", "TX", "RX", "SWITCHING", "SLEEP", "OFF"}

ASSUME EnergyAssumption ==
  /\ InitialEnergy \in Nat \ {0} /\ LowBattery \in 0 .. InitialEnergy - 1
  /\ UpdateInterval \in Nat \ {0} /\ MaxBusy \in Nat \ {0}
  /\ StateA \in [WifiPhyState \ {"OFF"} -> Nat \ {0}]

VARIABLE
  radio   \* the model's fields, those of its listener, the battery and the PHY

\* An event that is not scheduled.
None == -1

\* The fields: those of the model, of its listener, of the battery and the PHY.
Radio ==
  [currentState : WifiPhyState, totalEnergyConsumption : Nat,
   idleTime : Nat, txTime : Nat, rxTime : Nat,
   sinceUpdate : Nat,              \* Now - m_lastUpdateTime
   nPendingChangeState : Nat,
   switchToOffEvent : Nat \cup {None},
   switchToIdleEvent : Nat \cup {None},    \* of the listener
   remainingEnergy : 0 .. InitialEnergy, depleted : BOOLEAN,
   sinceDrain : Nat,               \* Now - the battery's last update
   energyUpdateEvent : Nat,
   phy : {"ON", "RECEIVING", "SLEEPING", "OFF"},
   spent : [WifiPhyState -> Nat]]  \* history: the time in each state

GetStateA(state) == IF state = "OFF" THEN 0 ELSE StateA[state]

\* Seconds (remaining / current): the event may be early by a fraction.
GetMaximumTimeInState(r, state) == r.remainingEnergy \div GetStateA(state)

SwitchToOffIn(r) == [r EXCEPT !.switchToOffEvent = GetMaximumTimeInState(r, r.currentState)]

\* SetEnergySource has just been called, the radio is idle.
Init ==
  radio = SwitchToOffIn(
    [currentState |-> "IDLE", totalEnergyConsumption |-> 0,
     idleTime |-> 0, txTime |-> 0, rxTime |-> 0,
     sinceUpdate |-> 0, nPendingChangeState |-> 0,
     switchToOffEvent |-> None, switchToIdleEvent |-> None,
     remainingEnergy |-> InitialEnergy, depleted |-> FALSE,
     sinceDrain |-> 0, energyUpdateEvent |-> UpdateInterval,
     phy |-> "ON",
     spent |-> [state \in WifiPhyState |-> 0]])

-----------------------------------------------------------------------------
(* The calls *)

\* Mutant: the time stamp of the last update is not moved.
ChargedWithoutStamp(r) ==
  LET spent(state) == IF r.currentState = state THEN r.sinceUpdate ELSE 0
  IN  [r EXCEPT !.totalEnergyConsumption = @ + r.sinceUpdate * GetStateA(r.currentState),
                !.idleTime = @ + spent("IDLE"),
                !.txTime = @ + spent("TX"),
                !.rxTime = @ + spent("RX")]

\* Mutant: the time goes to the idle state whatever the state was.
ChargedAsIdle(r) ==
  [r EXCEPT !.totalEnergyConsumption = @ + r.sinceUpdate * GetStateA(r.currentState),
            !.idleTime = @ + r.sinceUpdate,
            !.sinceUpdate = 0]

\* The first half of ChangeState: the time in the old state is paid for.
Charged(r) ==
  LET spent(state) == IF r.currentState = state THEN r.sinceUpdate ELSE 0
  IN  [r EXCEPT !.totalEnergyConsumption = @ + r.sinceUpdate * GetStateA(r.currentState),
                !.idleTime = @ + spent("IDLE"),
                !.txTime = @ + spent("TX"),
                !.rxTime = @ + spent("RX"),
                !.sinceUpdate = 0]

\* Mutant: the battery is drawn on when it is empty.
DrainedBelowZero(r) ==
  [r EXCEPT !.remainingEnergy = @ - r.sinceDrain * GetStateA(r.currentState),
            !.sinceDrain = 0,
            !.energyUpdateEvent = UpdateInterval]

\* What the battery delivers since its last update; it does not fall below 0.
Drained(r) ==
  LET drawn == r.sinceDrain * GetStateA(r.currentState)
  IN  [r EXCEPT !.remainingEnergy = IF drawn < @ THEN @ - drawn ELSE 0,
                !.sinceDrain = 0,
                !.energyUpdateEvent = UpdateInterval]

HandleEnergyChanged(r) == IF r.currentState # "OFF" THEN SwitchToOffIn(r) ELSE r

\* Mutant: every scheduled event of the model is cancelled.
NotifyOffCancelling(r) ==
  [Charged(r) EXCEPT
     !.currentState = IF r.nPendingChangeState = 0 THEN "OFF" ELSE @,
     !.switchToIdleEvent = None, !.switchToOffEvent = None,
     !.phy = "OFF"]

\* The battery is low: HandleEnergyDepletion, WifiPhy::SetOffMode, NotifyOff and
\* ChangeState (OFF).  The update inside finds a depleted battery that has just
\* been updated and does nothing.  Inside another ChangeState it is the second
\* that is pending, and does not set the state.
NotifyOff(r) ==
  [Charged(r) EXCEPT
     !.currentState = IF r.nPendingChangeState = 0 THEN "OFF" ELSE @,
     !.switchToIdleEvent = None,
     !.phy = "OFF"]

UpdateEnergySource(r) ==
  LET d == Drained(r)
  IN  IF ~r.depleted /\ d.remainingEnergy <= LowBattery
      THEN NotifyOff([d EXCEPT !.depleted = TRUE])
      ELSE IF d.remainingEnergy # r.remainingEnergy THEN HandleEnergyChanged(d)
      ELSE d

ChangeState(r, newState) ==
  LET u == UpdateEnergySource([Charged(r) EXCEPT !.nPendingChangeState = @ + 1])
  IN  [u EXCEPT
         !.currentState = IF u.nPendingChangeState <= 1 /\ @ # "OFF" THEN newState ELSE @,
         !.nPendingChangeState = @ - 1]

\* GetTotalEnergyConsumption: what it does to the model.
GetTotalEnergyConsumption ==
  radio' = UpdateEnergySource(radio)

-----------------------------------------------------------------------------
(* What the radio reports, while it has power *)

NotifyRxStart ==
  /\ radio.phy = "ON" /\ radio.currentState \notin {"TX", "SWITCHING"}
  /\ LET r == ChangeState([radio EXCEPT !.phy = "RECEIVING"], "RX")
     IN  radio' = [r EXCEPT !.switchToIdleEvent = None]

\* NotifyRxEndOk and NotifyRxEndError.
NotifyRxEnd ==
  /\ radio.phy = "RECEIVING"
  /\ radio' = ChangeState([radio EXCEPT !.phy = "ON"], "IDLE")

\* Mutant: the end is scheduled before the state changes.
BusyScheduledFirst(state, duration) ==
  radio' = ChangeState([radio EXCEPT !.switchToIdleEvent = duration], state)

\* NotifyTxStart, NotifyMaybeCcaBusyStart and NotifySwitchingStart.
BusyFor(state, duration) ==
  radio' = [ChangeState(radio, state) EXCEPT !.switchToIdleEvent = duration]

NotifyTxStart(duration) ==
  /\ radio.phy = "ON" /\ radio.currentState \notin {"TX", "SWITCHING"}
  /\ BusyFor("TX", duration)

NotifyMaybeCcaBusyStart(duration) ==
  /\ radio.phy = "ON"
  /\ BusyFor("CCA_BUSY", duration)

NotifySwitchingStart(duration) ==
  /\ radio.phy = "ON" /\ radio.currentState \notin {"TX", "SWITCHING"}
  /\ BusyFor("SWITCHING", duration)

NotifySleep ==
  /\ radio.phy = "ON" /\ radio.currentState \notin {"TX", "SWITCHING"}
  /\ LET r == ChangeState([radio EXCEPT !.phy = "SLEEPING"], "SLEEP")
     IN  radio' = [r EXCEPT !.switchToIdleEvent = None]

NotifyWakeup ==
  /\ radio.phy = "SLEEPING"
  /\ radio' = ChangeState([radio EXCEPT !.phy = "ON"], "IDLE")

-----------------------------------------------------------------------------
(* Scheduled events, and time *)

SwitchToIdle ==
  /\ radio.switchToIdleEvent = 0
  /\ radio' = ChangeState([radio EXCEPT !.switchToIdleEvent = None], "IDLE")

\* Mutant: the time that is left is asked for again, and is 0 for ever.
SwitchToOffLater ==
  /\ radio.switchToOffEvent = 0
  /\ radio' = HandleEnergyChanged(radio)

SwitchToOff ==
  /\ radio.switchToOffEvent = 0
  /\ radio' = ChangeState([radio EXCEPT !.switchToOffEvent = None], "OFF")

PeriodicEnergyUpdate ==
  /\ radio.energyUpdateEvent = 0
  /\ radio' = UpdateEnergySource(radio)

Sooner(event) == IF event = None THEN None ELSE event - 1

\* Nothing is drawn from a radio that is off, and its clock is not kept.
Tick ==
  /\ 0 \notin {radio.switchToIdleEvent, radio.switchToOffEvent, radio.energyUpdateEvent}
  /\ LET passed == IF radio.currentState = "OFF" THEN 0 ELSE 1
     IN  radio' = [radio EXCEPT !.sinceUpdate = @ + passed, !.sinceDrain = @ + passed,
                                !.switchToIdleEvent = Sooner(@),
                                !.switchToOffEvent = Sooner(@),
                                !.energyUpdateEvent = @ - 1,
                                !.spent[radio.currentState] = @ + passed]

Engine == SwitchToIdle \/ SwitchToOff \/ PeriodicEnergyUpdate \/ Tick

Next ==
  \/ NotifyRxStart
  \/ NotifyRxEnd
  \/ \E d \in 1 .. MaxBusy : NotifyTxStart(d)
  \/ \E d \in 1 .. MaxBusy : NotifyMaybeCcaBusyStart(d)
  \/ \E d \in 1 .. MaxBusy : NotifySwitchingStart(d)
  \/ NotifySleep
  \/ NotifyWakeup
  \/ GetTotalEnergyConsumption
  \/ SwitchToIdle
  \/ SwitchToOff
  \/ PeriodicEnergyUpdate
  \/ Tick

Spec == Init /\ [][Next]_radio

\* The simulator runs what is due and then lets time go on.
FairSpec == Spec /\ WF_radio(SwitchToIdle) /\ WF_radio(SwitchToOff)
                 /\ WF_radio(PeriodicEnergyUpdate) /\ WF_radio(Tick)

-----------------------------------------------------------------------------
(* Properties *)

\* Every field keeps its type, and no call is open between two events.
TypeOK == radio \in Radio /\ radio.nPendingChangeState = 0

\* What is drawn now since the model, or the battery, was last brought up to date.
Due(since) == since * GetStateA(radio.currentState)

\* Two objects keep account of the same energy, each at its own moments and with
\* calls that nest: what ChangeState has charged is what the battery has lost,
\* as long as the battery is not empty.
AccountsAgree ==
  radio.remainingEnergy > 0 =>
    radio.totalEnergyConsumption + Due(radio.sinceUpdate) =
      InitialEnergy - radio.remainingEnergy + Due(radio.sinceDrain)

\* The times main.cc reports at the end are those the radio was idle, sent and
\* received: no nested or ignored change of state loses time or counts it twice.
TimesReported ==
  LET since(state) == IF radio.currentState = state THEN radio.sinceUpdate ELSE 0
  IN  /\ radio.idleTime + since("IDLE") = radio.spent["IDLE"]
      /\ radio.txTime + since("TX") = radio.spent["TX"]
      /\ radio.rxTime + since("RX") = radio.spent["RX"]

\* An update may find the battery overdrawn by the strongest state for an
\* interval.  A depletion found inside ChangeState leaves the radio drawing, until
\* an event that was scheduled for another state and another charge switches it
\* off: the energy charged stays within what the strongest state draws in the time
\* a full battery lasts in the weakest.
OverdrawBounded ==
  \A s, w \in DOMAIN StateA :
    (\A q \in DOMAIN StateA : StateA[w] <= StateA[q] /\ StateA[q] <= StateA[s]) =>
      radio.totalEnergyConsumption + Due(radio.sinceUpdate)
        <= InitialEnergy + (UpdateInterval + InitialEnergy \div StateA[w]) * StateA[s]

\* A state that lasts a given time has its end scheduled, whatever interrupted
\* it and even if the radio lost its power on entering it.
TimedStatesEnd ==
  radio.currentState \in {"TX", "CCA_BUSY", "SWITCHING"} => radio.switchToIdleEvent # None

\* A radio whose battery is depleted stops drawing from it in the end.
DepletedGoesOff == radio.depleted ~> radio.currentState = "OFF"

-----------------------------------------------------------------------------
(* What comments say and the code does otherwise *)

\* "The check below ensures that previous instances do not change
\* m_currentState" (ChangeState): once the radio has been switched off for lack
\* of energy the model is in state OFF.
OffWhenDepleted == radio.phy = "OFF" => radio.currentState = "OFF"

=============================================================================
