-------------------- MODULE WifiRadioEnergyModel_proofs --------------------
(***************************************************************************)
(* Proofs about WifiRadioEnergyModel.  The calls of the code are operators *)
(* on the record radio, so the invariant is a predicate of such a record,  *)
(* and each call is shown to preserve it, the nested ones first.           *)
(***************************************************************************)
EXTENDS WifiRadioEnergyModel, TLAPS

\* Facts about products and quotients that the steps below use.
LEMMA ProductNat ==
  ASSUME NEW a \in Nat, NEW b \in Nat
  PROVE  a * b \in Nat
  OBVIOUS

\* A product grows with both of its factors.
LEMMA ProductMonotone ==
  ASSUME NEW a \in Nat, NEW b \in Nat, NEW c \in Nat, NEW d \in Nat, a <= b, c <= d
  PROVE  a * c <= b * d
<1>1. a * c <= b * c
  <2>1. (b - a) * c >= 0
    OBVIOUS
  <2> QED BY <2>1
<1>2. b * c <= b * d
  <2>1. b * (d - c) >= 0
    OBVIOUS
  <2> QED BY <2>1
<1>3. a * c \in Int /\ b * c \in Int /\ b * d \in Int
  OBVIOUS
<1> QED BY <1>1, <1>2, <1>3

\* One tick more costs the current once more.
LEMMA ProductSucc ==
  ASSUME NEW a \in Nat, NEW b \in Nat
  PROVE  (a + 1) * b = a * b + b
  OBVIOUS

\* A smaller charge lasts less long, with a larger current less long still.
LEMMA QuotientBound ==
  ASSUME NEW x \in Nat, NEW y \in Nat, NEW a \in Nat \ {0}, NEW b \in Nat \ {0},
         x <= y, a <= b
  PROVE  x \div b \in Nat /\ x \div b <= y \div a
<1> DEFINE q == x \div b
           p == y \div a
<1>1. q \in Nat /\ q * b <= x
  OBVIOUS
<1>2. p \in Nat /\ y < (p + 1) * a
  <2>1. y = (a * p) + (y % a) /\ (y % a) \in 0 .. a - 1 /\ p \in Nat
    OBVIOUS
  <2>2. (p + 1) * a = a * p + a
    BY <2>1
  <2> QED BY <2>1, <2>2
<1> HIDE DEF q, p
<1>3. SUFFICES ASSUME p + 1 <= q PROVE FALSE
  BY <1>1, <1>2 DEF q, p
<1>4. (p + 1) * a <= q * b
  BY <1>1, <1>2, <1>3, ProductMonotone
<1> QED
  <2>1. (p + 1) * a \in Nat /\ q * b \in Nat
    BY <1>1, <1>2, ProductNat
  <2> QED BY <1>1, <1>2, <1>4, <2>1

-----------------------------------------------------------------------------
Due2(r, since) == since * GetStateA(r.currentState)

Strongest(s) == s \in DOMAIN StateA /\ \A q \in DOMAIN StateA : StateA[q] <= StateA[s]
Weakest(w) == w \in DOMAIN StateA /\ \A q \in DOMAIN StateA : StateA[w] <= StateA[q]

\* How long the switch-off event still lets the radio draw.
DrawsFor(r) ==
  IF r.currentState = "OFF" \/ r.switchToOffEvent = None THEN 0 ELSE r.switchToOffEvent

AccountsOf(r) ==
  r.remainingEnergy > 0 =>
    r.totalEnergyConsumption + Due2(r, r.sinceUpdate) =
      InitialEnergy - r.remainingEnergy + Due2(r, r.sinceDrain)

TimesOf(r) ==
  /\ r.idleTime + (IF r.currentState = "IDLE" THEN r.sinceUpdate ELSE 0) = r.spent["IDLE"]
  /\ r.txTime + (IF r.currentState = "TX" THEN r.sinceUpdate ELSE 0) = r.spent["TX"]
  /\ r.rxTime + (IF r.currentState = "RX" THEN r.sinceUpdate ELSE 0) = r.spent["RX"]

\* The battery is updated at least once in an interval.
IntervalOf(r) == r.sinceDrain + r.energyUpdateEvent <= UpdateInterval

\* The switch-off event is no later than a full battery lasts in the weakest state.
EventOf(r) ==
  \A w : Weakest(w) => DrawsFor(r) <= InitialEnergy \div StateA[w]

\* An empty battery leaves what the strongest state may draw until the event.
EmptyOf(r) ==
  r.remainingEnergy = 0 =>
    \A s, w : Strongest(s) /\ Weakest(w) =>
      r.totalEnergyConsumption + Due2(r, r.sinceUpdate) + DrawsFor(r) * StateA[s]
        <= InitialEnergy + (UpdateInterval + InitialEnergy \div StateA[w]) * StateA[s]

\* What every call preserves, at any depth.
Good(r) ==
  /\ r \in Radio
  /\ AccountsOf(r) /\ TimesOf(r) /\ IntervalOf(r) /\ EventOf(r) /\ EmptyOf(r)

\* A radio that draws will be switched off, a state with a time of its own ends.
Armed(r) == r.currentState # "OFF" => r.switchToOffEvent # None
Timed(r) == r.currentState \in {"TX", "CCA_BUSY", "SWITCHING"} => r.switchToIdleEvent # None

\* What holds between two events.
Holds(r) == Good(r) /\ r.nPendingChangeState = 0 /\ Armed(r) /\ Timed(r)

\* The inductive invariant.
IInv == Holds(radio)

\* The current of a state.
LEMMA CurrentType ==
  ASSUME NEW state \in WifiPhyState
  PROVE  /\ GetStateA(state) \in Nat
         /\ state = "OFF" => GetStateA(state) = 0
         /\ state # "OFF" => state \in DOMAIN StateA /\ GetStateA(state) = StateA[state]
                             /\ GetStateA(state) \in Nat \ {0}
  BY EnergyAssumption DEF GetStateA

\* The bounds of the currents.
LEMMA CurrentBounds ==
  ASSUME NEW state \in WifiPhyState, NEW s, Strongest(s)
  PROVE  StateA[s] \in Nat \ {0} /\ GetStateA(state) <= StateA[s]
  BY EnergyAssumption DEF GetStateA, Strongest

\* No state that draws draws less than the weakest.
LEMMA WeakestBounds ==
  ASSUME NEW state \in WifiPhyState \ {"OFF"}, NEW w, Weakest(w)
  PROVE  StateA[w] \in Nat \ {0} /\ StateA[w] <= GetStateA(state)
  BY EnergyAssumption DEF GetStateA, Weakest

\* The fields that Charged changes, and those that it does not.
LEMMA ChargedEffect ==
  ASSUME NEW r \in Radio
  PROVE  LET q == Charged(r) IN
         /\ q \in Radio
         /\ q.totalEnergyConsumption = r.totalEnergyConsumption + Due2(r, r.sinceUpdate)
         /\ q.idleTime = r.idleTime + (IF r.currentState = "IDLE" THEN r.sinceUpdate ELSE 0)
         /\ q.txTime = r.txTime + (IF r.currentState = "TX" THEN r.sinceUpdate ELSE 0)
         /\ q.rxTime = r.rxTime + (IF r.currentState = "RX" THEN r.sinceUpdate ELSE 0)
         /\ q.sinceUpdate = 0
         /\ q.currentState = r.currentState
         /\ q.nPendingChangeState = r.nPendingChangeState
         /\ q.switchToOffEvent = r.switchToOffEvent
         /\ q.switchToIdleEvent = r.switchToIdleEvent
         /\ q.remainingEnergy = r.remainingEnergy
         /\ q.depleted = r.depleted
         /\ q.sinceDrain = r.sinceDrain
         /\ q.energyUpdateEvent = r.energyUpdateEvent
         /\ q.phy = r.phy
         /\ q.spent = r.spent
<1>1. /\ r.totalEnergyConsumption \in Nat /\ r.sinceUpdate \in Nat
      /\ r.currentState \in WifiPhyState
  BY DEF Radio
<1>2. Due2(r, r.sinceUpdate) \in Nat
  BY <1>1, CurrentType, ProductNat DEF Due2
<1> DEFINE total == r.totalEnergyConsumption + Due2(r, r.sinceUpdate)
           idle == r.idleTime + (IF r.currentState = "IDLE" THEN r.sinceUpdate ELSE 0)
           tx == r.txTime + (IF r.currentState = "TX" THEN r.sinceUpdate ELSE 0)
           rx == r.rxTime + (IF r.currentState = "RX" THEN r.sinceUpdate ELSE 0)
<1>3. total \in Nat /\ idle \in Nat /\ tx \in Nat /\ rx \in Nat /\ 0 \in Nat
  BY <1>1, <1>2 DEF Radio
<1>4. Charged(r) = [r EXCEPT !.totalEnergyConsumption = total, !.idleTime = idle,
                             !.txTime = tx, !.rxTime = rx, !.sinceUpdate = 0]
  BY DEF Charged, Due2
<1> HIDE DEF total, idle, tx, rx
<1>5. Charged(r) \in Radio
  BY <1>3, <1>4, Zenon DEF Radio
<1>6. /\ Charged(r).totalEnergyConsumption = total
      /\ Charged(r).idleTime = idle /\ Charged(r).txTime = tx /\ Charged(r).rxTime = rx
      /\ Charged(r).sinceUpdate = 0
  BY <1>4 DEF Radio
<1>7. \A f \in {"currentState", "nPendingChangeState", "switchToOffEvent",
                "switchToIdleEvent", "remainingEnergy", "depleted", "sinceDrain",
                "energyUpdateEvent", "phy", "spent"} : Charged(r)[f] = r[f]
  BY <1>4 DEF Radio
<1> QED BY <1>5, <1>6, <1>7 DEF total, idle, tx, rx

\* To pay for the time in the old state disturbs no account.
LEMMA ChargedGood ==
  ASSUME NEW r, Good(r)
  PROVE  Good(Charged(r))
<1> DEFINE q == Charged(r)
<1>1. r \in Radio
  BY DEF Good
<1>2. /\ q \in Radio
      /\ q.totalEnergyConsumption = r.totalEnergyConsumption + Due2(r, r.sinceUpdate)
      /\ q.idleTime = r.idleTime + (IF r.currentState = "IDLE" THEN r.sinceUpdate ELSE 0)
      /\ q.txTime = r.txTime + (IF r.currentState = "TX" THEN r.sinceUpdate ELSE 0)
      /\ q.rxTime = r.rxTime + (IF r.currentState = "RX" THEN r.sinceUpdate ELSE 0)
      /\ q.sinceUpdate = 0
      /\ q.currentState = r.currentState
      /\ q.switchToOffEvent = r.switchToOffEvent
      /\ q.remainingEnergy = r.remainingEnergy
      /\ q.sinceDrain = r.sinceDrain
      /\ q.energyUpdateEvent = r.energyUpdateEvent
      /\ q.spent = r.spent
  BY <1>1, ChargedEffect
<1> HIDE DEF q
<1>3. /\ q.totalEnergyConsumption \in Nat
      /\ r.currentState \in WifiPhyState
      /\ q.idleTime \in Nat /\ q.txTime \in Nat /\ q.rxTime \in Nat
  BY <1>1, <1>2 DEF Radio
<1>4. Due2(q, q.sinceUpdate) = 0 /\ Due2(q, q.sinceDrain) = Due2(r, r.sinceDrain)
  BY <1>2, <1>3, CurrentType DEF Due2
<1>5. DrawsFor(q) = DrawsFor(r)
  BY <1>2 DEF DrawsFor
<1>6. AccountsOf(q)
  BY <1>2, <1>3, <1>4 DEF Good, AccountsOf
<1>7. TimesOf(q)
  BY <1>2, <1>3 DEF Good, TimesOf
<1>8. IntervalOf(q) /\ EventOf(q)
  BY <1>2, <1>5 DEF Good, IntervalOf, EventOf
<1>9. EmptyOf(q)
  BY <1>2, <1>3, <1>4, <1>5 DEF Good, EmptyOf
<1> QED BY <1>2, <1>6, <1>7, <1>8, <1>9 DEF Good, q

\* The fields that Drained changes, and those that it does not.
LEMMA DrainedEffect ==
  ASSUME NEW r \in Radio
  PROVE  LET q == Drained(r) IN
         /\ q \in Radio
         /\ q.remainingEnergy =
              IF Due2(r, r.sinceDrain) < r.remainingEnergy
              THEN r.remainingEnergy - Due2(r, r.sinceDrain) ELSE 0
         /\ q.sinceDrain = 0
         /\ q.energyUpdateEvent = UpdateInterval
         /\ \A f \in {"currentState", "totalEnergyConsumption", "idleTime", "txTime",
                      "rxTime", "sinceUpdate", "nPendingChangeState",
                      "switchToOffEvent", "switchToIdleEvent", "depleted", "phy",
                      "spent"} : q[f] = r[f]
<1>1. /\ r.remainingEnergy \in 0 .. InitialEnergy /\ r.sinceDrain \in Nat
      /\ r.currentState \in WifiPhyState
  BY DEF Radio
<1>2. Due2(r, r.sinceDrain) \in Nat
  BY <1>1, CurrentType, ProductNat DEF Due2
<1> DEFINE left == IF Due2(r, r.sinceDrain) < r.remainingEnergy
                   THEN r.remainingEnergy - Due2(r, r.sinceDrain) ELSE 0
<1>3. left \in 0 .. InitialEnergy /\ 0 \in Nat /\ UpdateInterval \in Nat
  BY <1>1, <1>2, EnergyAssumption
<1>4. Drained(r) = [r EXCEPT !.remainingEnergy = left, !.sinceDrain = 0,
                             !.energyUpdateEvent = UpdateInterval]
  BY DEF Drained, Due2
<1> HIDE DEF left
<1>5. Drained(r) \in Radio
  BY <1>3, <1>4, Zenon DEF Radio
<1>6. /\ Drained(r).remainingEnergy = left
      /\ Drained(r).sinceDrain = 0
      /\ Drained(r).energyUpdateEvent = UpdateInterval
  BY <1>4 DEF Radio
<1>7. \A f \in {"currentState", "totalEnergyConsumption", "idleTime", "txTime",
                "rxTime", "sinceUpdate", "nPendingChangeState",
                "switchToOffEvent", "switchToIdleEvent", "depleted", "phy",
                "spent"} : Drained(r)[f] = r[f]
  BY <1>4 DEF Radio
<1> QED BY <1>5, <1>6, <1>7 DEF left

\* What the battery delivers is what the state has drawn; an empty battery owes
\* at most an interval of the strongest state.
LEMMA DrainedGood ==
  ASSUME NEW r, Good(r)
  PROVE  Good(Drained(r))
<1> DEFINE q == Drained(r)
           drawn == Due2(r, r.sinceDrain)
<1>1. r \in Radio
  BY DEF Good
<1>2. /\ q \in Radio
      /\ q.remainingEnergy =
           IF drawn < r.remainingEnergy THEN r.remainingEnergy - drawn ELSE 0
      /\ q.sinceDrain = 0
      /\ q.energyUpdateEvent = UpdateInterval
      /\ q.currentState = r.currentState
      /\ q.totalEnergyConsumption = r.totalEnergyConsumption
      /\ q.idleTime = r.idleTime /\ q.txTime = r.txTime /\ q.rxTime = r.rxTime
      /\ q.sinceUpdate = r.sinceUpdate
      /\ q.switchToOffEvent = r.switchToOffEvent
      /\ q.spent = r.spent
  BY <1>1, DrainedEffect
<1>3. /\ r.currentState \in WifiPhyState
      /\ r.remainingEnergy \in Nat /\ r.totalEnergyConsumption \in Nat
      /\ r.sinceDrain \in Nat /\ r.sinceUpdate \in Nat /\ r.energyUpdateEvent \in Nat
      /\ DrawsFor(r) \in Nat
  BY <1>1 DEF Radio, DrawsFor
<1>4. drawn \in Nat /\ Due2(r, r.sinceUpdate) \in Nat
  BY <1>3, CurrentType, ProductNat DEF Due2
<1> HIDE DEF q
<1>5. Due2(q, q.sinceUpdate) = Due2(r, r.sinceUpdate) /\ Due2(q, q.sinceDrain) = 0
  BY <1>2, <1>3, CurrentType DEF Due2
<1>6. DrawsFor(q) = DrawsFor(r)
  BY <1>2 DEF DrawsFor
<1>7. AccountsOf(q)
  <2> SUFFICES ASSUME q.remainingEnergy > 0
               PROVE  q.totalEnergyConsumption + Due2(q, q.sinceUpdate) =
                        InitialEnergy - q.remainingEnergy + Due2(q, q.sinceDrain)
    BY DEF AccountsOf
  <2>1. q.remainingEnergy = r.remainingEnergy - drawn /\ r.remainingEnergy > 0
    BY <1>2, <1>3, <1>4
  <2>2. r.totalEnergyConsumption + Due2(r, r.sinceUpdate) =
          InitialEnergy - r.remainingEnergy + drawn
    BY <2>1 DEF Good, AccountsOf
  <2> HIDE DEF drawn
  <2> QED BY <1>2, <1>3, <1>4, <1>5, <2>1, <2>2, EnergyAssumption
<1>8. TimesOf(q) /\ IntervalOf(q) /\ EventOf(q)
  <2>1. TimesOf(q)
    BY <1>2 DEF Good, TimesOf
  <2>2. IntervalOf(q)
    BY <1>2, EnergyAssumption DEF IntervalOf
  <2>3. EventOf(q)
    BY <1>6 DEF Good, EventOf
  <2> QED BY <2>1, <2>2, <2>3
<1>9. EmptyOf(q)
  <2> SUFFICES ASSUME q.remainingEnergy = 0, NEW s, NEW w, Strongest(s), Weakest(w)
               PROVE  q.totalEnergyConsumption + Due2(q, q.sinceUpdate)
                          + DrawsFor(q) * StateA[s]
                        <= InitialEnergy
                             + (UpdateInterval + InitialEnergy \div StateA[w]) * StateA[s]
    BY DEF EmptyOf
  <2>1. CASE r.remainingEnergy = 0
    BY <1>2, <1>5, <1>6, <2>1 DEF Good, EmptyOf
  <2>2. CASE r.remainingEnergy > 0
    <3> DEFINE lasts == InitialEnergy \div StateA[w]
    <3>1. drawn >= r.remainingEnergy
      BY <1>2, <1>3, <1>4
    <3>2. r.totalEnergyConsumption + Due2(r, r.sinceUpdate) =
            InitialEnergy - r.remainingEnergy + drawn
      BY <2>2 DEF Good, AccountsOf
    <3>3. StateA[s] \in Nat /\ StateA[w] \in Nat \ {0} /\ UpdateInterval \in Nat
          /\ InitialEnergy \in Nat
      BY EnergyAssumption DEF Strongest, Weakest
    <3>4. lasts \in Nat
      BY <3>3
    <3>5. DrawsFor(r) <= lasts
      BY DEF Good, EventOf
    <3> HIDE DEF lasts
    <3>6. DrawsFor(r) * StateA[s] <= lasts * StateA[s]
      BY <1>3, <3>3, <3>4, <3>5, ProductMonotone
    <3>7. drawn <= UpdateInterval * StateA[s]
      <4>1. r.sinceDrain <= UpdateInterval
        BY <1>3, <3>3 DEF Good, IntervalOf
      <4>2. GetStateA(r.currentState) \in Nat /\ GetStateA(r.currentState) <= StateA[s]
        BY <1>3, CurrentType, CurrentBounds
      <4>3. r.sinceDrain * GetStateA(r.currentState) <= UpdateInterval * StateA[s]
        BY <1>3, <3>3, <4>1, <4>2, ProductMonotone
      <4> QED BY <4>3 DEF Due2
    <3>8. (UpdateInterval + lasts) * StateA[s] =
            UpdateInterval * StateA[s] + lasts * StateA[s]
      BY <3>3, <3>4
    <3>9. /\ UpdateInterval * StateA[s] \in Nat /\ lasts * StateA[s] \in Nat
          /\ DrawsFor(r) * StateA[s] \in Nat
      BY <1>3, <3>3, <3>4, ProductNat
    <3> HIDE DEF drawn
    <3>10. r.totalEnergyConsumption + Due2(r, r.sinceUpdate) + DrawsFor(r) * StateA[s]
             <= InitialEnergy + (UpdateInterval + lasts) * StateA[s]
      BY <1>3, <1>4, <3>2, <3>3, <3>6, <3>7, <3>8, <3>9
    <3> QED BY <1>2, <1>5, <1>6, <3>10 DEF lasts
  <2> QED BY <1>3, <2>1, <2>2
<1> QED BY <1>2, <1>7, <1>8, <1>9 DEF Good, q

\* The accounts read few of the fields; the state may change when both objects
\* have just been brought up to date, and the switch-off event may come sooner.
LEMMA GoodTransfer ==
  ASSUME NEW r, Good(r), NEW q \in Radio,
         \A f \in {"totalEnergyConsumption", "idleTime", "txTime", "rxTime",
                   "sinceUpdate", "sinceDrain", "remainingEnergy",
                   "energyUpdateEvent", "spent"} : q[f] = r[f],
         \/ q.currentState = r.currentState
         \/ r.sinceUpdate = 0 /\ r.sinceDrain = 0,
         EventOf(q),
         q.remainingEnergy = 0 => DrawsFor(q) <= DrawsFor(r)
  PROVE  Good(q)
<1>1. /\ q.totalEnergyConsumption = r.totalEnergyConsumption
      /\ q.idleTime = r.idleTime /\ q.txTime = r.txTime /\ q.rxTime = r.rxTime
      /\ q.sinceUpdate = r.sinceUpdate /\ q.sinceDrain = r.sinceDrain
      /\ q.remainingEnergy = r.remainingEnergy
      /\ q.energyUpdateEvent = r.energyUpdateEvent
      /\ q.spent = r.spent
  OBVIOUS
<1>2. /\ r \in Radio
      /\ r.currentState \in WifiPhyState /\ q.currentState \in WifiPhyState
      /\ r.totalEnergyConsumption \in Nat
      /\ r.sinceUpdate \in Nat /\ r.sinceDrain \in Nat
      /\ r.idleTime \in Nat /\ r.txTime \in Nat /\ r.rxTime \in Nat
      /\ DrawsFor(r) \in Nat /\ DrawsFor(q) \in Nat
  BY DEF Good, Radio, DrawsFor
<1>3. /\ Due2(q, q.sinceUpdate) = Due2(r, r.sinceUpdate)
      /\ Due2(q, q.sinceDrain) = Due2(r, r.sinceDrain)
      /\ Due2(r, r.sinceUpdate) \in Nat
  <2>1. CASE q.currentState = r.currentState
    BY <1>1, <1>2, <2>1, CurrentType, ProductNat DEF Due2
  <2>2. CASE r.sinceUpdate = 0 /\ r.sinceDrain = 0
    BY <1>1, <1>2, <2>2, CurrentType DEF Due2
  <2> QED BY <2>1, <2>2
<1>4. AccountsOf(q)
  BY <1>1, <1>3 DEF Good, AccountsOf
<1>5. TimesOf(q)
  <2>1. CASE q.currentState = r.currentState
    BY <1>1, <2>1 DEF Good, TimesOf
  <2>2. CASE r.sinceUpdate = 0
    BY <1>1, <1>2, <2>2 DEF Good, TimesOf
  <2> QED BY <2>1, <2>2
<1>6. IntervalOf(q)
  BY <1>1 DEF Good, IntervalOf
<1>7. EmptyOf(q)
  <2> SUFFICES ASSUME q.remainingEnergy = 0, NEW s, NEW w, Strongest(s), Weakest(w)
               PROVE  q.totalEnergyConsumption + Due2(q, q.sinceUpdate)
                          + DrawsFor(q) * StateA[s]
                        <= InitialEnergy
                             + (UpdateInterval + InitialEnergy \div StateA[w]) * StateA[s]
    BY DEF EmptyOf
  <2> DEFINE bound == InitialEnergy
                        + (UpdateInterval + InitialEnergy \div StateA[w]) * StateA[s]
  <2>1. r.totalEnergyConsumption + Due2(r, r.sinceUpdate) + DrawsFor(r) * StateA[s] <= bound
    BY <1>1 DEF Good, EmptyOf
  <2>2. StateA[s] \in Nat /\ StateA[w] \in Nat \ {0}
    BY EnergyAssumption DEF Strongest, Weakest
  <2>3. DrawsFor(q) * StateA[s] <= DrawsFor(r) * StateA[s]
    BY <1>2, <2>2, ProductMonotone
  <2>4. DrawsFor(q) * StateA[s] \in Nat /\ DrawsFor(r) * StateA[s] \in Nat
    BY <1>2, <2>2, ProductNat
  <2>5. bound \in Int
    <3>1. InitialEnergy \div StateA[w] \in Nat /\ InitialEnergy \in Nat /\ UpdateInterval \in Nat
      BY <2>2, EnergyAssumption
    <3> QED BY <2>2, <3>1
  <2> HIDE DEF bound
  <2>6. q.totalEnergyConsumption + Due2(q, q.sinceUpdate) + DrawsFor(q) * StateA[s] <= bound
    BY <1>1, <1>2, <1>3, <2>1, <2>3, <2>4, <2>5
  <2> QED BY <2>6 DEF bound
<1> QED BY <1>4, <1>5, <1>6, <1>7 DEF Good

\* A change of fields that no account reads keeps them all.
LEMMA GoodUntouched ==
  ASSUME NEW r, Good(r), NEW q \in Radio,
         \A f \in {"totalEnergyConsumption", "idleTime", "txTime", "rxTime",
                   "sinceUpdate", "sinceDrain", "remainingEnergy",
                   "energyUpdateEvent", "spent", "currentState"} : q[f] = r[f],
         q.switchToOffEvent \in {r.switchToOffEvent, None}
  PROVE  Good(q)
<1>1. r \in Radio /\ q.currentState = r.currentState
  BY DEF Good
<1>2. DrawsFor(q) \in Nat /\ DrawsFor(r) \in Nat /\ DrawsFor(q) <= DrawsFor(r)
  BY <1>1 DEF DrawsFor, Radio
<1>3. EventOf(q)
  <2> SUFFICES ASSUME NEW w, Weakest(w) PROVE DrawsFor(q) <= InitialEnergy \div StateA[w]
    BY DEF EventOf
  <2>1. DrawsFor(r) <= InitialEnergy \div StateA[w]
    BY DEF Good, EventOf
  <2>2. InitialEnergy \div StateA[w] \in Int
    BY EnergyAssumption DEF Weakest
  <2> QED BY <1>2, <2>1, <2>2
<1> QED BY <1>1, <1>2, <1>3, GoodTransfer

\* The battery's call: the switch-off event is scheduled for the charge left.
LEMMA HandleEnergyChangedGood ==
  ASSUME NEW r, Good(r)
  PROVE  LET q == HandleEnergyChanged(r) IN
         /\ Good(q) /\ Armed(q)
         /\ \A f \in {"sinceUpdate", "sinceDrain", "currentState", "nPendingChangeState",
                      "switchToIdleEvent"} : q[f] = r[f]
<1>1. r \in Radio
  BY DEF Good
<1>2. CASE r.currentState = "OFF"
  BY <1>2 DEF HandleEnergyChanged, Armed
<1>3. CASE r.currentState # "OFF"
  <2> DEFINE event == r.remainingEnergy \div GetStateA(r.currentState)
             q == [r EXCEPT !.switchToOffEvent = event]
  <2>1. HandleEnergyChanged(r) = q
    BY <1>3 DEF HandleEnergyChanged, SwitchToOffIn, GetMaximumTimeInState
  <2>2. /\ r.currentState \in WifiPhyState \ {"OFF"}
        /\ r.remainingEnergy \in Nat /\ r.remainingEnergy <= InitialEnergy
        /\ GetStateA(r.currentState) \in Nat \ {0}
    BY <1>1, <1>3, CurrentType, EnergyAssumption DEF Radio
  <2>3. event \in Nat /\ (r.remainingEnergy = 0 => event = 0)
    BY <2>2
  <2>4. \A w : Weakest(w) => event <= InitialEnergy \div StateA[w]
    <3> SUFFICES ASSUME NEW w, Weakest(w) PROVE event <= InitialEnergy \div StateA[w]
      OBVIOUS
    <3>1. StateA[w] \in Nat \ {0} /\ StateA[w] <= GetStateA(r.currentState)
      BY <2>2, WeakestBounds
    <3>2. InitialEnergy \in Nat
      BY EnergyAssumption
    <3> QED BY <2>2, <3>1, <3>2, QuotientBound
  <2> HIDE DEF event
  <2>5. event \in Nat \cup {None} /\ event # None
    BY <2>3 DEF None
  <2>6. q \in Radio
    BY <1>1, <2>5, Zenon DEF Radio
  <2>7. q.switchToOffEvent = event
    BY <1>1 DEF Radio
  <2>8. \A f \in {"totalEnergyConsumption", "idleTime", "txTime", "rxTime",
                  "sinceUpdate", "sinceDrain", "remainingEnergy", "energyUpdateEvent",
                  "spent", "currentState", "nPendingChangeState",
                  "switchToIdleEvent"} : q[f] = r[f]
    BY <1>1 DEF Radio
  <2> HIDE DEF q
  <2>9. DrawsFor(q) = event /\ DrawsFor(r) \in Nat
    BY <1>1, <1>3, <2>5, <2>7, <2>8 DEF DrawsFor, Radio
  <2>10. EventOf(q)
    BY <2>4, <2>9 DEF EventOf
  <2>11. q.remainingEnergy = 0 => DrawsFor(q) <= DrawsFor(r)
    BY <2>3, <2>8, <2>9
  <2>12. Good(q)
    BY <2>6, <2>8, <2>10, <2>11, GoodTransfer
  <2>13. Armed(q)
    BY <2>5, <2>7 DEF Armed
  <2> QED BY <2>1, <2>8, <2>12, <2>13
<1> QED BY <1>2, <1>3

\* Right after an update the state may change, but OFF is for good.
LEMMA GoodStateSet ==
  ASSUME NEW r, Good(r), r.sinceUpdate = 0, r.sinceDrain = 0, NEW q \in Radio,
         \A f \in {"totalEnergyConsumption", "idleTime", "txTime", "rxTime",
                   "sinceUpdate", "sinceDrain", "remainingEnergy", "energyUpdateEvent",
                   "spent", "switchToOffEvent"} : q[f] = r[f],
         r.currentState = "OFF" => q.currentState = "OFF"
  PROVE  Good(q)
<1>1. r \in Radio /\ q.switchToOffEvent = r.switchToOffEvent
  BY DEF Good
<1>2. DrawsFor(q) \in {0, DrawsFor(r)} /\ DrawsFor(r) \in Nat
  BY <1>1 DEF DrawsFor, Radio
<1>3. EventOf(q)
  <2> SUFFICES ASSUME NEW w, Weakest(w) PROVE DrawsFor(q) <= InitialEnergy \div StateA[w]
    BY DEF EventOf
  <2>1. DrawsFor(r) <= InitialEnergy \div StateA[w]
    BY DEF Good, EventOf
  <2>2. InitialEnergy \div StateA[w] \in Int
    BY EnergyAssumption DEF Weakest
  <2> QED BY <1>2, <2>1, <2>2
<1>4. q.remainingEnergy = 0 => DrawsFor(q) <= DrawsFor(r)
  BY <1>2
<1> QED BY <1>3, <1>4, GoodTransfer

\* Right after an update a depletion keeps the accounts, nested or not.
LEMMA NotifyOffGood ==
  ASSUME NEW r, Good(r), r.sinceDrain = 0
  PROVE  LET q == NotifyOff(r) IN
         /\ Good(q)
         /\ q.sinceUpdate = 0 /\ q.sinceDrain = 0
         /\ q.nPendingChangeState = r.nPendingChangeState
         /\ q.currentState = IF r.nPendingChangeState = 0 THEN "OFF" ELSE r.currentState
         /\ q.switchToOffEvent = r.switchToOffEvent
<1> DEFINE c == Charged(r)
           state == IF r.nPendingChangeState = 0 THEN "OFF" ELSE r.currentState
           q == [c EXCEPT !.currentState = state, !.switchToIdleEvent = None, !.phy = "OFF"]
<1>1. r \in Radio
  BY DEF Good
<1>2. /\ c \in Radio
      /\ c.sinceUpdate = 0 /\ c.sinceDrain = 0
      /\ c.currentState = r.currentState
      /\ c.nPendingChangeState = r.nPendingChangeState
      /\ c.switchToOffEvent = r.switchToOffEvent
  BY <1>1, ChargedEffect
<1>3. Good(c)
  BY ChargedGood
<1> HIDE DEF c
<1>4. NotifyOff(r) = q
  <2>1. NotifyOff(r) =
          [c EXCEPT !.currentState = IF r.nPendingChangeState = 0 THEN "OFF" ELSE @,
                    !.switchToIdleEvent = None, !.phy = "OFF"]
    BY DEF NotifyOff, c
  <2>2. (IF r.nPendingChangeState = 0 THEN "OFF" ELSE c.currentState) = state
    BY <1>2
  <2> QED BY <2>1, <2>2
<1>5. state \in WifiPhyState /\ "OFF" \in {"ON", "RECEIVING", "SLEEPING", "OFF"}
      /\ None \in Nat \cup {None}
  BY <1>1 DEF Radio, WifiPhyState
<1> HIDE DEF state
<1>6. q \in Radio
  BY <1>2, <1>5, Zenon DEF Radio
<1>7. q.currentState = state
  BY <1>2 DEF Radio
<1>8. \A f \in {"totalEnergyConsumption", "idleTime", "txTime", "rxTime",
                "sinceUpdate", "sinceDrain", "remainingEnergy", "energyUpdateEvent",
                "spent", "nPendingChangeState", "switchToOffEvent"} : q[f] = c[f]
  BY <1>2 DEF Radio
<1> HIDE DEF q
<1>9. c.currentState = "OFF" => q.currentState = "OFF"
  BY <1>2, <1>7 DEF state
<1>10. Good(q)
  BY <1>2, <1>3, <1>6, <1>8, <1>9, GoodStateSet
<1> QED BY <1>2, <1>4, <1>7, <1>8, <1>10 DEF state

\* An update of the battery, with whatever it calls.
LEMMA UpdateGood ==
  ASSUME NEW r, Good(r)
  PROVE  LET q == UpdateEnergySource(r) IN
         /\ Good(q)
         /\ q.sinceDrain = 0
         /\ q.nPendingChangeState = r.nPendingChangeState
         /\ r.sinceUpdate = 0 => q.sinceUpdate = 0
         /\ Armed(r) => Armed(q)
         /\ q.currentState \in {r.currentState, "OFF"}
         /\ q.nPendingChangeState = 0 /\ q.currentState # "OFF" =>
              q.switchToIdleEvent = r.switchToIdleEvent
<1> DEFINE d == Drained(r)
           e == [d EXCEPT !.depleted = TRUE]
<1>1. r \in Radio
  BY DEF Good
<1>2. Good(d)
  BY DrainedGood
<1>3. /\ d \in Radio
      /\ d.sinceDrain = 0
      /\ \A f \in {"sinceUpdate", "currentState", "nPendingChangeState",
                   "switchToOffEvent", "switchToIdleEvent"} : d[f] = r[f]
  BY <1>1, DrainedEffect
<1>4. UpdateEnergySource(r) =
        IF ~r.depleted /\ d.remainingEnergy <= LowBattery THEN NotifyOff(e)
        ELSE IF d.remainingEnergy # r.remainingEnergy THEN HandleEnergyChanged(d) ELSE d
  BY DEF UpdateEnergySource
<1> HIDE DEF d
<1>5. CASE ~r.depleted /\ d.remainingEnergy <= LowBattery
  <2>1. e \in Radio
    BY <1>3, Zenon DEF Radio
  <2>2. \A f \in {"totalEnergyConsumption", "idleTime", "txTime", "rxTime",
                  "sinceUpdate", "sinceDrain", "remainingEnergy", "energyUpdateEvent",
                  "spent", "currentState", "nPendingChangeState", "switchToOffEvent",
                  "switchToIdleEvent"} : e[f] = d[f]
    BY <1>3 DEF Radio
  <2> HIDE DEF e
  <2>3. Good(e)
    BY <1>2, <2>1, <2>2, GoodUntouched
  <2>4. e.sinceDrain = 0
    BY <1>3, <2>2
  <2> DEFINE q == NotifyOff(e)
  <2>5. /\ Good(q)
        /\ q.sinceUpdate = 0 /\ q.sinceDrain = 0
        /\ q.nPendingChangeState = e.nPendingChangeState
        /\ q.currentState = IF e.nPendingChangeState = 0 THEN "OFF" ELSE e.currentState
        /\ q.switchToOffEvent = e.switchToOffEvent
    BY <2>3, <2>4, NotifyOffGood
  <2> HIDE DEF q
  <2>6. UpdateEnergySource(r) = q
    BY <1>4, <1>5 DEF q
  <2> QED BY <1>3, <2>2, <2>5, <2>6 DEF Armed
<1>6. CASE ~(~r.depleted /\ d.remainingEnergy <= LowBattery)
           /\ d.remainingEnergy # r.remainingEnergy
  <2> DEFINE q == HandleEnergyChanged(d)
  <2>1. /\ Good(q) /\ Armed(q)
        /\ \A f \in {"sinceUpdate", "sinceDrain", "currentState", "nPendingChangeState",
                     "switchToIdleEvent"} : q[f] = d[f]
    BY <1>2, HandleEnergyChangedGood
  <2> HIDE DEF q
  <2>2. UpdateEnergySource(r) = q
    BY <1>4, <1>6 DEF q
  <2> QED BY <1>3, <2>1, <2>2
<1>7. CASE ~(~r.depleted /\ d.remainingEnergy <= LowBattery)
           /\ d.remainingEnergy = r.remainingEnergy
  <2>1. UpdateEnergySource(r) = d
    BY <1>4, <1>7
  <2> QED BY <1>2, <1>3, <2>1 DEF Armed
<1> QED BY <1>5, <1>6, <1>7

\* ChangeState, called with no other call open, with whatever it calls.
LEMMA ChangeGood ==
  ASSUME NEW r, Good(r), r.nPendingChangeState = 0, NEW newState \in WifiPhyState,
         Armed(r) \/ newState = "OFF"
  PROVE  LET q == ChangeState(r, newState) IN
         /\ Good(q) /\ Armed(q)
         /\ q.nPendingChangeState = 0
         /\ q.currentState \in {newState, "OFF"}
<1> DEFINE c == Charged(r)
           p == [c EXCEPT !.nPendingChangeState = 1]
           u == UpdateEnergySource(p)
           state == IF u.currentState # "OFF" THEN newState ELSE "OFF"
           q == [u EXCEPT !.currentState = state, !.nPendingChangeState = 0]
<1>1. /\ c \in Radio
      /\ c.sinceUpdate = 0
      /\ c.currentState = r.currentState
      /\ c.nPendingChangeState = 0
      /\ c.switchToOffEvent = r.switchToOffEvent
  BY ChargedEffect DEF Good
<1>2. Good(c)
  BY ChargedGood
<1> HIDE DEF c
<1>3. 1 \in Nat /\ 0 \in Nat
  OBVIOUS
<1>4. p \in Radio
  BY <1>1, <1>3, Zenon DEF Radio
<1>5. /\ p.nPendingChangeState = 1
      /\ \A f \in {"totalEnergyConsumption", "idleTime", "txTime", "rxTime",
                   "sinceUpdate", "sinceDrain", "remainingEnergy", "energyUpdateEvent",
                   "spent", "currentState", "switchToOffEvent"} : p[f] = c[f]
  BY <1>1 DEF Radio
<1>6. p = [Charged(r) EXCEPT !.nPendingChangeState = @ + 1]
  BY <1>1 DEF c
<1> HIDE DEF p
<1>7. Good(p) /\ p.sinceUpdate = 0 /\ (Armed(r) => Armed(p))
  <2>1. Good(p)
    BY <1>2, <1>4, <1>5, GoodUntouched
  <2>2. Armed(r) => Armed(p)
    BY <1>1, <1>5 DEF Armed
  <2> QED BY <1>1, <1>5, <2>1, <2>2
<1>8. /\ Good(u)
      /\ u.sinceUpdate = 0 /\ u.sinceDrain = 0
      /\ u.nPendingChangeState = 1
      /\ Armed(r) => Armed(u)
  BY <1>5, <1>7, UpdateGood
<1>9. u = UpdateEnergySource([Charged(r) EXCEPT !.nPendingChangeState = @ + 1])
  BY <1>6
<1> HIDE DEF u
<1>10. ChangeState(r, newState) = q
  <2>1. ChangeState(r, newState) =
          [u EXCEPT !.currentState = IF u.nPendingChangeState <= 1 /\ @ # "OFF"
                                     THEN newState ELSE @,
                    !.nPendingChangeState = @ - 1]
    BY <1>9 DEF ChangeState
  <2>2. /\ u.nPendingChangeState - 1 = 0 /\ u.nPendingChangeState <= 1
    BY <1>8
  <2>3. (IF u.nPendingChangeState <= 1 /\ u.currentState # "OFF"
         THEN newState ELSE u.currentState) = state
    BY <2>2
  <2> QED BY <2>1, <2>2, <2>3
<1>11. state \in WifiPhyState /\ u \in Radio
  BY <1>8 DEF WifiPhyState, Good
<1> HIDE DEF state
<1>12. q \in Radio
  BY <1>3, <1>11, Zenon DEF Radio
<1>13. /\ q.currentState = state /\ q.nPendingChangeState = 0
       /\ \A f \in {"totalEnergyConsumption", "idleTime", "txTime", "rxTime",
                    "sinceUpdate", "sinceDrain", "remainingEnergy", "energyUpdateEvent",
                    "spent", "switchToOffEvent"} : q[f] = u[f]
  BY <1>11 DEF Radio
<1> HIDE DEF q
<1>14. u.currentState = "OFF" => q.currentState = "OFF"
  BY <1>13 DEF state
<1>15. Good(q)
  BY <1>8, <1>12, <1>13, <1>14, GoodStateSet
<1>16. Armed(q)
  BY <1>8, <1>13 DEF Armed, state
<1> QED BY <1>10, <1>13, <1>15, <1>16 DEF state

-----------------------------------------------------------------------------
\* Fields that only the listener and the PHY read may change before a call.
LEMMA Prepared ==
  ASSUME NEW r, Good(r), r.nPendingChangeState = 0, NEW q \in Radio,
         \A f \in {"totalEnergyConsumption", "idleTime", "txTime", "rxTime",
                   "sinceUpdate", "sinceDrain", "remainingEnergy", "energyUpdateEvent",
                   "spent", "currentState", "nPendingChangeState"} : q[f] = r[f],
         q.switchToOffEvent \in {r.switchToOffEvent, None}
  PROVE  /\ Good(q) /\ q.nPendingChangeState = 0
         /\ q.switchToOffEvent = r.switchToOffEvent /\ Armed(r) => Armed(q)
  BY GoodUntouched DEF Armed

\* A state without a time of its own.
LEMMA ChangeHolds ==
  ASSUME NEW r, Good(r), r.nPendingChangeState = 0,
         NEW newState \in WifiPhyState \ {"TX", "CCA_BUSY", "SWITCHING"},
         Armed(r) \/ newState = "OFF"
  PROVE  Holds(ChangeState(r, newState))
  BY ChangeGood DEF Holds, Timed

\* A state whose end the listener schedules, or cancels, after the call.
LEMMA ChangeAndSchedule ==
  ASSUME NEW r, Good(r), r.nPendingChangeState = 0, Armed(r),
         NEW newState \in WifiPhyState, NEW event \in Nat \cup {None},
         newState \in {"TX", "CCA_BUSY", "SWITCHING"} => event # None
  PROVE  Holds([ChangeState(r, newState) EXCEPT !.switchToIdleEvent = event])
<1> DEFINE u == ChangeState(r, newState)
           q == [u EXCEPT !.switchToIdleEvent = event]
<1>1. /\ Good(u) /\ Armed(u)
      /\ u.nPendingChangeState = 0
      /\ u.currentState \in {newState, "OFF"}
  BY ChangeGood
<1>2. u \in Radio
  BY <1>1 DEF Good
<1> HIDE DEF u
<1>3. q \in Radio
  BY <1>2, Zenon DEF Radio
<1>4. /\ q.switchToIdleEvent = event
      /\ \A f \in {"totalEnergyConsumption", "idleTime", "txTime", "rxTime",
                   "sinceUpdate", "sinceDrain", "remainingEnergy", "energyUpdateEvent",
                   "spent", "currentState", "nPendingChangeState",
                   "switchToOffEvent"} : q[f] = u[f]
  BY <1>2 DEF Radio
<1> HIDE DEF q
<1>5. Good(q) /\ q.nPendingChangeState = 0 /\ Armed(q)
  BY <1>1, <1>3, <1>4, Prepared
<1>6. Timed(q)
  BY <1>1, <1>4 DEF Timed
<1>7. Holds(q)
  BY <1>5, <1>6 DEF Holds
<1> QED BY <1>7 DEF q, u

-----------------------------------------------------------------------------
\* The first event is scheduled for a full battery.
LEMMA InitIInv == Init => IInv
<1> SUFFICES ASSUME Init PROVE Holds(radio)
  BY DEF IInv
<1> DEFINE r == [currentState |-> "IDLE", totalEnergyConsumption |-> 0,
                 idleTime |-> 0, txTime |-> 0, rxTime |-> 0,
                 sinceUpdate |-> 0, nPendingChangeState |-> 0,
                 switchToOffEvent |-> None, switchToIdleEvent |-> None,
                 remainingEnergy |-> InitialEnergy, depleted |-> FALSE,
                 sinceDrain |-> 0, energyUpdateEvent |-> UpdateInterval,
                 phy |-> "ON",
                 spent |-> [state \in WifiPhyState |-> 0]]
<1>1. radio = HandleEnergyChanged(r)
  BY DEF Init, HandleEnergyChanged
<1>2. /\ InitialEnergy \in 0 .. InitialEnergy /\ InitialEnergy > 0
      /\ UpdateInterval \in Nat /\ InitialEnergy \in Nat
  BY EnergyAssumption
<1>3. /\ {"IDLE", "TX", "RX"} \subseteq WifiPhyState
      /\ None \in Nat \cup {None}
      /\ [state \in WifiPhyState |-> 0] \in [WifiPhyState -> Nat]
  BY DEF WifiPhyState
<1>4. r \in Radio
  BY <1>2, <1>3, 0 \in Nat, "IDLE" \in WifiPhyState, Zenon DEF Radio
<1>5. AccountsOf(r)
  BY <1>2, CurrentType, <1>3 DEF AccountsOf, Due2
<1>6. TimesOf(r)
  BY <1>3 DEF TimesOf
<1>7. IntervalOf(r)
  BY <1>2 DEF IntervalOf
<1>8. EventOf(r)
  BY <1>2, EnergyAssumption DEF EventOf, DrawsFor, Weakest
<1>9. EmptyOf(r)
  BY <1>2 DEF EmptyOf
<1>10. Good(r)
  BY <1>4, <1>5, <1>6, <1>7, <1>8, <1>9 DEF Good
<1>11. r.nPendingChangeState = 0 /\ r.currentState = "IDLE"
  OBVIOUS
<1> HIDE DEF r
<1> QED BY <1>1, <1>10, <1>11, HandleEnergyChangedGood DEF Holds, Timed

\* A tick costs the current of the state once in both accounts, and a drawing
\* radio comes nearer to its end.
LEMMA TickHolds == IInv /\ Tick => IInv'
<1> SUFFICES ASSUME Holds(radio), Tick PROVE Holds(radio')
  BY DEF IInv
<1> DEFINE r == radio
           passed == IF r.currentState = "OFF" THEN 0 ELSE 1
           idle == Sooner(r.switchToIdleEvent)
           off == Sooner(r.switchToOffEvent)
           update == r.sinceUpdate + passed
           drain == r.sinceDrain + passed
           energy == r.energyUpdateEvent - 1
           times == [r.spent EXCEPT ![r.currentState] = @ + passed]
           q == [r EXCEPT !.sinceUpdate = update, !.sinceDrain = drain,
                          !.switchToIdleEvent = idle, !.switchToOffEvent = off,
                          !.energyUpdateEvent = energy, !.spent = times]
<1>1. r \in Radio
  BY DEF Holds, Good
<1>2. /\ r.currentState \in WifiPhyState
      /\ r.totalEnergyConsumption \in Nat /\ r.remainingEnergy \in Nat
      /\ r.idleTime \in Nat /\ r.txTime \in Nat /\ r.rxTime \in Nat
      /\ r.sinceUpdate \in Nat /\ r.sinceDrain \in Nat
      /\ r.switchToIdleEvent \in Nat \cup {None} /\ r.switchToOffEvent \in Nat \cup {None}
      /\ r.energyUpdateEvent \in Nat
      /\ r.spent \in [WifiPhyState -> Nat]
  BY <1>1 DEF Radio
<1>3. 0 \notin {r.switchToIdleEvent, r.switchToOffEvent, r.energyUpdateEvent}
  BY DEF Tick
<1>4. radio' = q
  BY DEF Tick
<1>5. passed \in {0, 1} /\ (passed = 0 <=> r.currentState = "OFF")
  OBVIOUS
<1> HIDE DEF passed
<1>6. /\ update \in Nat /\ drain \in Nat /\ energy \in Nat
      /\ idle \in Nat \cup {None} /\ off \in Nat \cup {None}
      /\ times \in [WifiPhyState -> Nat]
  BY <1>2, <1>3, <1>5 DEF Sooner, None
<1>7. /\ r.switchToIdleEvent # None => idle # None
      /\ r.switchToOffEvent # None => off # None /\ off = r.switchToOffEvent - 1
      /\ r.switchToOffEvent = None => off = None
  BY <1>2, <1>3 DEF Sooner, None
<1>8. \A state \in WifiPhyState :
        times[state] = r.spent[state] + (IF state = r.currentState THEN passed ELSE 0)
  BY <1>2, <1>5
<1> HIDE DEF update, drain, energy, idle, off, times
<1>9. q \in Radio
  BY <1>1, <1>6, Zenon DEF Radio
<1>10. /\ q.sinceUpdate = update /\ q.sinceDrain = drain
       /\ q.switchToIdleEvent = idle /\ q.switchToOffEvent = off
       /\ q.energyUpdateEvent = energy /\ q.spent = times
       /\ \A f \in {"totalEnergyConsumption", "idleTime", "txTime", "rxTime",
                    "remainingEnergy", "currentState", "nPendingChangeState"} : q[f] = r[f]
  BY <1>1 DEF Radio
<1>11. q.currentState = r.currentState /\ q.remainingEnergy = r.remainingEnergy
       /\ q.totalEnergyConsumption = r.totalEnergyConsumption
       /\ q.idleTime = r.idleTime /\ q.txTime = r.txTime /\ q.rxTime = r.rxTime
  BY <1>10
<1> DEFINE current == GetStateA(r.currentState)
<1>12. current \in Nat /\ (passed = 0 => current = 0)
  BY <1>2, <1>5, CurrentType
<1> HIDE DEF q
<1>13. /\ Due2(q, q.sinceUpdate) = Due2(r, r.sinceUpdate) + current
       /\ Due2(q, q.sinceDrain) = Due2(r, r.sinceDrain) + current
       /\ Due2(r, r.sinceUpdate) \in Nat /\ Due2(r, r.sinceDrain) \in Nat
  <2>1. CASE passed = 0
    BY <1>2, <1>10, <1>11, <1>12, <2>1 DEF Due2, update, drain
  <2>2. CASE passed = 1
    <3> HIDE DEF current
    <3>1. /\ (r.sinceUpdate + 1) * current = r.sinceUpdate * current + current
          /\ (r.sinceDrain + 1) * current = r.sinceDrain * current + current
          /\ r.sinceUpdate * current \in Nat /\ r.sinceDrain * current \in Nat
      BY <1>2, <1>12, ProductSucc, ProductNat
    <3> QED BY <1>10, <1>11, <2>2, <3>1 DEF Due2, update, drain, current
  <2> QED BY <1>5, <2>1, <2>2
<1>14. AccountsOf(q)
  <2> HIDE DEF current
  <2> QED BY <1>2, <1>11, <1>12, <1>13, EnergyAssumption DEF Holds, Good, AccountsOf
<1>15. TimesOf(q)
  <2>1. {"IDLE", "TX", "RX"} \subseteq WifiPhyState
    BY DEF WifiPhyState
  <2>2. /\ \A state \in {"IDLE", "TX", "RX"} : r.spent[state] \in Nat
        /\ TimesOf(r)
    BY <1>2, <2>1 DEF Holds, Good
  <2>3. /\ times["IDLE"] = r.spent["IDLE"] + (IF "IDLE" = r.currentState THEN passed ELSE 0)
        /\ times["TX"] = r.spent["TX"] + (IF "TX" = r.currentState THEN passed ELSE 0)
        /\ times["RX"] = r.spent["RX"] + (IF "RX" = r.currentState THEN passed ELSE 0)
    BY <1>8, <2>1
  <2> QED BY <1>2, <1>5, <1>10, <1>11, <2>2, <2>3 DEF TimesOf, update
<1>16. IntervalOf(q)
  BY <1>2, <1>5, <1>10, EnergyAssumption DEF Holds, Good, IntervalOf, drain, energy
<1>17. /\ DrawsFor(r) \in Nat /\ DrawsFor(q) \in Nat
       /\ DrawsFor(q) <= DrawsFor(r)
       /\ passed = 1 => DrawsFor(r) = DrawsFor(q) + 1
  BY <1>2, <1>3, <1>5, <1>6, <1>7, <1>10, <1>11 DEF DrawsFor, Holds, Armed
<1>18. EventOf(q)
  <2> SUFFICES ASSUME NEW w, Weakest(w) PROVE DrawsFor(q) <= InitialEnergy \div StateA[w]
    BY DEF EventOf
  <2>1. DrawsFor(r) <= InitialEnergy \div StateA[w]
    BY DEF Holds, Good, EventOf
  <2>2. InitialEnergy \div StateA[w] \in Int
    BY EnergyAssumption DEF Weakest
  <2> QED BY <1>17, <2>1, <2>2
<1>19. EmptyOf(q)
  <2> SUFFICES ASSUME q.remainingEnergy = 0, NEW s, NEW w, Strongest(s), Weakest(w)
               PROVE  q.totalEnergyConsumption + Due2(q, q.sinceUpdate)
                          + DrawsFor(q) * StateA[s]
                        <= InitialEnergy
                             + (UpdateInterval + InitialEnergy \div StateA[w]) * StateA[s]
    BY DEF EmptyOf
  <2> DEFINE bound == InitialEnergy
                        + (UpdateInterval + InitialEnergy \div StateA[w]) * StateA[s]
  <2>1. r.totalEnergyConsumption + Due2(r, r.sinceUpdate) + DrawsFor(r) * StateA[s] <= bound
    BY <1>11 DEF Holds, Good, EmptyOf
  <2>2. StateA[s] \in Nat /\ StateA[w] \in Nat \ {0} /\ current <= StateA[s]
    BY <1>2, CurrentBounds, EnergyAssumption DEF Strongest, Weakest
  <2>3. bound \in Int
    <3>1. InitialEnergy \div StateA[w] \in Nat /\ InitialEnergy \in Nat /\ UpdateInterval \in Nat
      BY <2>2, EnergyAssumption
    <3> QED BY <2>2, <3>1
  <2> HIDE DEF bound, current
  <2>4. DrawsFor(q) * StateA[s] + current <= DrawsFor(r) * StateA[s]
    <3>1. CASE passed = 0
      BY <1>12, <1>17, <2>2, <3>1, ProductMonotone, ProductNat
    <3>2. CASE passed = 1
      <4>1. DrawsFor(r) * StateA[s] = DrawsFor(q) * StateA[s] + StateA[s]
        BY <1>17, <2>2, <3>2, ProductSucc
      <4>2. DrawsFor(q) * StateA[s] \in Nat
        BY <1>17, <2>2, ProductNat
      <4> QED BY <1>12, <2>2, <4>1, <4>2
    <3> QED BY <1>5, <3>1, <3>2
  <2>5. DrawsFor(q) * StateA[s] \in Nat /\ DrawsFor(r) * StateA[s] \in Nat
    BY <1>17, <2>2, ProductNat
  <2>6. q.totalEnergyConsumption + Due2(q, q.sinceUpdate) + DrawsFor(q) * StateA[s] <= bound
    BY <1>2, <1>11, <1>12, <1>13, <2>1, <2>3, <2>4, <2>5
  <2> QED BY <2>6 DEF bound
<1>20. Armed(q) /\ Timed(q) /\ q.nPendingChangeState = 0
  BY <1>7, <1>10 DEF Holds, Armed, Timed
<1>21. Holds(q)
  BY <1>9, <1>14, <1>15, <1>16, <1>18, <1>19, <1>20 DEF Holds, Good
<1> QED BY <1>4, <1>21

\* What the PHY notes about itself before it reports.
LEMMA PhySet ==
  ASSUME Holds(radio), NEW phy \in {"ON", "RECEIVING", "SLEEPING", "OFF"}
  PROVE  LET q == [radio EXCEPT !.phy = phy] IN
         Good(q) /\ q.nPendingChangeState = 0 /\ Armed(q)
<1> DEFINE q == [radio EXCEPT !.phy = phy]
<1>1. radio \in Radio
  BY DEF Holds, Good
<1>2. q \in Radio
  BY <1>1, Zenon DEF Radio
<1>3. \A f \in {"totalEnergyConsumption", "idleTime", "txTime", "rxTime",
                "sinceUpdate", "sinceDrain", "remainingEnergy", "energyUpdateEvent",
                "spent", "currentState", "nPendingChangeState",
                "switchToOffEvent"} : q[f] = radio[f]
  BY <1>1 DEF Radio
<1> HIDE DEF q
<1>4. Good(q) /\ q.nPendingChangeState = 0 /\ Armed(q)
  BY <1>2, <1>3, Prepared DEF Holds
<1> QED BY <1>4 DEF q

\* Every action keeps the invariant.
LEMMA NextIInv == IInv /\ [Next]_radio => IInv'
<1> SUFFICES ASSUME Holds(radio), [Next]_radio PROVE Holds(radio')
  BY DEF IInv
<1> USE DEF WifiPhyState
<1>1. CASE NotifyRxStart
  <2>1. None \in Nat \cup {None}
    OBVIOUS
  <2> QED BY <1>1, <2>1, PhySet, ChangeAndSchedule DEF NotifyRxStart
<1>2. CASE NotifyRxEnd
  BY <1>2, PhySet, ChangeHolds DEF NotifyRxEnd
<1>3. ASSUME NEW d \in 1 .. MaxBusy, NEW state \in {"TX", "CCA_BUSY", "SWITCHING"},
             BusyFor(state, d)
      PROVE  Holds(radio')
  <2>1. d \in Nat \cup {None} /\ d # None
    BY EnergyAssumption DEF None
  <2> QED BY <1>3, <2>1, ChangeAndSchedule DEF BusyFor, Holds
<1>4. CASE \E d \in 1 .. MaxBusy :
             NotifyTxStart(d) \/ NotifyMaybeCcaBusyStart(d) \/ NotifySwitchingStart(d)
  BY <1>3, <1>4 DEF NotifyTxStart, NotifyMaybeCcaBusyStart, NotifySwitchingStart
<1>5. CASE NotifySleep
  <2>1. None \in Nat \cup {None}
    OBVIOUS
  <2> QED BY <1>5, <2>1, PhySet, ChangeAndSchedule DEF NotifySleep
<1>6. CASE NotifyWakeup
  BY <1>6, PhySet, ChangeHolds DEF NotifyWakeup
<1>7. CASE GetTotalEnergyConsumption \/ PeriodicEnergyUpdate
  <2>1. radio' = UpdateEnergySource(radio)
    BY <1>7 DEF GetTotalEnergyConsumption, PeriodicEnergyUpdate
  <2> QED BY <2>1, UpdateGood DEF Holds, Timed
<1>8. CASE SwitchToIdle
  <2> DEFINE q == [radio EXCEPT !.switchToIdleEvent = None]
  <2>1. radio \in Radio /\ None \in Nat \cup {None}
    BY DEF Holds, Good
  <2>2. q \in Radio
    BY <2>1, Zenon DEF Radio
  <2>3. \A f \in {"totalEnergyConsumption", "idleTime", "txTime", "rxTime",
                  "sinceUpdate", "sinceDrain", "remainingEnergy", "energyUpdateEvent",
                  "spent", "currentState", "nPendingChangeState",
                  "switchToOffEvent"} : q[f] = radio[f]
    BY <2>1 DEF Radio
  <2>4. radio' = ChangeState(q, "IDLE")
    BY <1>8 DEF SwitchToIdle
  <2> HIDE DEF q
  <2>5. Good(q) /\ q.nPendingChangeState = 0 /\ Armed(q)
    BY <2>2, <2>3, Prepared DEF Holds
  <2> QED BY <2>4, <2>5, ChangeHolds
<1>9. CASE SwitchToOff
  <2> DEFINE q == [radio EXCEPT !.switchToOffEvent = None]
  <2>1. radio \in Radio /\ None \in Nat \cup {None}
    BY DEF Holds, Good
  <2>2. q \in Radio
    BY <2>1, Zenon DEF Radio
  <2>3. /\ q.switchToOffEvent = None
        /\ \A f \in {"totalEnergyConsumption", "idleTime", "txTime", "rxTime",
                     "sinceUpdate", "sinceDrain", "remainingEnergy", "energyUpdateEvent",
                     "spent", "currentState", "nPendingChangeState"} : q[f] = radio[f]
    BY <2>1 DEF Radio
  <2>4. radio' = ChangeState(q, "OFF")
    BY <1>9 DEF SwitchToOff
  <2> HIDE DEF q
  <2>5. Good(q) /\ q.nPendingChangeState = 0
    BY <2>2, <2>3, Prepared DEF Holds
  <2> QED BY <2>4, <2>5, ChangeHolds
<1>10. CASE Tick
  BY <1>10, TickHolds DEF IInv
<1>11. CASE UNCHANGED radio
  BY <1>11
<1> QED BY <1>1, <1>2, <1>4, <1>5, <1>6, <1>7, <1>8, <1>9, <1>10, <1>11 DEF Next

\* The invariant holds throughout.
LEMMA Inductive == Spec => []IInv
  BY InitIInv, NextIInv, PTL DEF Spec

-----------------------------------------------------------------------------
\* Every field keeps its type and no call is left open, whatever the battery, the
\* currents and the intervals.
THEOREM TypeCorrect == Spec => []TypeOK
<1>1. IInv => TypeOK
  BY DEF IInv, Holds, Good, TypeOK
<1> QED BY <1>1, Inductive, PTL

\* What ChangeState has charged is what the battery has lost, through all nested
\* calls.
THEOREM AccountsKept == Spec => []AccountsAgree
<1>1. IInv => AccountsAgree
  BY DEF IInv, Holds, Good, AccountsOf, AccountsAgree, Due, Due2
<1> QED BY <1>1, Inductive, PTL

\* The times that the report adds up are those spent in the states.
THEOREM TimesKept == Spec => []TimesReported
<1>1. IInv => TimesReported
  BY DEF IInv, Holds, Good, TimesOf, TimesReported
<1> QED BY <1>1, Inductive, PTL

\* A state with a time of its own always has its end scheduled.
THEOREM EndsAreScheduled == Spec => []TimedStatesEnd
<1>1. IInv => TimedStatesEnd
  BY DEF IInv, Holds, Timed, TimedStatesEnd
<1> QED BY <1>1, Inductive, PTL

\* A radio that draws from an empty battery is switched off by the event that
\* is left: the overdraft is bounded for every battery and every current.
THEOREM OverdraftIsBounded == Spec => []OverdrawBounded
<1>1. IInv => OverdrawBounded
  <2> SUFFICES ASSUME Holds(radio), NEW s \in DOMAIN StateA, NEW w \in DOMAIN StateA,
                      \A q \in DOMAIN StateA : StateA[w] <= StateA[q] /\ StateA[q] <= StateA[s]
               PROVE  radio.totalEnergyConsumption + Due(radio.sinceUpdate)
                        <= InitialEnergy
                             + (UpdateInterval + InitialEnergy \div StateA[w]) * StateA[s]
    BY DEF IInv, OverdrawBounded
  <2> DEFINE lasts == InitialEnergy \div StateA[w]
             due == Due2(radio, radio.sinceUpdate)
             drawn == Due2(radio, radio.sinceDrain)
  <2>1. Strongest(s) /\ Weakest(w)
    BY DEF Strongest, Weakest
  <2>2. StateA[s] \in Nat /\ StateA[w] \in Nat \ {0} /\ UpdateInterval \in Nat
        /\ InitialEnergy \in Nat
    BY EnergyAssumption
  <2>3. lasts \in Nat
    BY <2>2
  <2>4. /\ radio.totalEnergyConsumption \in Nat /\ radio.remainingEnergy \in Nat
        /\ radio.sinceUpdate \in Nat /\ radio.sinceDrain \in Nat
        /\ radio.energyUpdateEvent \in Nat
        /\ radio.currentState \in WifiPhyState
        /\ DrawsFor(radio) \in Nat
    BY DEF Holds, Good, Radio, DrawsFor
  <2>5. due \in Nat /\ drawn \in Nat
    BY <2>4, CurrentType, ProductNat DEF Due2
  <2>6. DrawsFor(radio) * StateA[s] \in Nat
    BY <2>2, <2>4, ProductNat
  <2>7. Due(radio.sinceUpdate) = due
    BY DEF Due, Due2
  <2>8. CASE radio.remainingEnergy = 0
    <3>1. radio.totalEnergyConsumption + due + DrawsFor(radio) * StateA[s]
            <= InitialEnergy + (UpdateInterval + lasts) * StateA[s]
      BY <2>1, <2>8 DEF Holds, Good, EmptyOf
    <3>2. (UpdateInterval + lasts) * StateA[s] \in Nat
      BY <2>2, <2>3, ProductNat
    <3> HIDE DEF due, lasts
    <3>3. radio.totalEnergyConsumption + due
            <= InitialEnergy + (UpdateInterval + lasts) * StateA[s]
      BY <2>2, <2>4, <2>5, <2>6, <3>1, <3>2
    <3> QED BY <2>7, <3>3 DEF lasts
  <2>9. CASE radio.remainingEnergy > 0
    <3>1. radio.totalEnergyConsumption + due = InitialEnergy - radio.remainingEnergy + drawn
      BY <2>9 DEF Holds, Good, AccountsOf
    <3>2. drawn <= (UpdateInterval + lasts) * StateA[s]
      <4>1. radio.sinceDrain <= UpdateInterval + lasts
        BY <2>2, <2>3, <2>4 DEF Holds, Good, IntervalOf
      <4>2. GetStateA(radio.currentState) \in Nat /\ GetStateA(radio.currentState) <= StateA[s]
        BY <2>1, <2>4, CurrentType, CurrentBounds
      <4> HIDE DEF lasts
      <4>3. radio.sinceDrain * GetStateA(radio.currentState) <= (UpdateInterval + lasts) * StateA[s]
        BY <2>2, <2>3, <2>4, <4>1, <4>2, ProductMonotone
      <4> QED BY <4>3 DEF Due2
    <3>3. (UpdateInterval + lasts) * StateA[s] \in Nat
      BY <2>2, <2>3, ProductNat
    <3> HIDE DEF due, drawn, lasts
    <3>4. radio.totalEnergyConsumption + due
            <= InitialEnergy + (UpdateInterval + lasts) * StateA[s]
      BY <2>2, <2>4, <2>5, <3>1, <3>2, <3>3
    <3> QED BY <2>7, <3>4 DEF lasts
  <2> QED BY <2>4, <2>8, <2>9
<1> QED BY <1>1, Inductive, PTL

=============================================================================
