-------------------------- MODULE HeadRotationRest --------------------------
(***************************************************************************)
(* How long a node may rest.  A history variable counts the rounds of each *)
(* node since its last term as head.  Terms may fall early in one cycle    *)
(* and late in the next, so a node rests longer than one cycle, but never  *)
(* for two.                                                                *)
(***************************************************************************)
EXTENDS HeadRotation, TLAPS

VARIABLE rest       \* rounds since the last term, or since the start

RestInit == Init /\ rest = [n \in Node |-> 0]

RestingRound(n) ==
  /\ NewRound(n)
  /\ rest' = [rest EXCEPT ![n] = IF head'[n] = 1 THEN 0 ELSE rest[n] + 1]

RestSpec == RestInit /\ [][\E n \in Node : RestingRound(n)]_<<vars, rest>>

\* A node is head again after at most 2 * CycleLen - 2 rounds of rest: it
\* cannot be passed over for longer by the draws of PeriodicUpdate.
RestBounded == \A n \in Node : rest[n] <= 2 * CycleLen - 2

-----------------------------------------------------------------------------
\* The rest so far, by the node's place in the cycle and its service there.
RestByPlace ==
  /\ rest \in [Node -> Nat]
  /\ \A n \in Node :
       rest[n] <= IF slot[n] = 0 THEN CycleLen - 1
                  ELSE IF served[n] = 1 THEN slot[n] - 1
                  ELSE CycleLen - 1 + slot[n]

\* One round of one node keeps the bound that goes with its place.
LEMMA RestStep ==
  ASSUME TypeOK, RestByPlace, NEW n \in Node, RestingRound(n)
  PROVE  TypeOK' /\ RestByPlace'
<1> USE CycleAssumption DEF TypeOK, RestByPlace
<1>1. PICK elected \in {0, 1} :
        /\ elected = 1 => ServedBefore(n) = 0
        /\ slot[n] = CycleLen - 1 => ServedBefore(n) + elected = 1
        /\ head' = [head EXCEPT ![n] = elected]
        /\ served' = [served EXCEPT ![n] = ServedBefore(n) + elected]
  BY DEF RestingRound, NewRound
<1>2. ServedBefore(n) = IF slot[n] = 0 THEN 0 ELSE served[n]
  BY DEF ServedBefore
<1>3. slot' = [slot EXCEPT ![n] = IF slot[n] = CycleLen - 1 THEN 0 ELSE slot[n] + 1]
  <2>1. (slot[n] + 1) % CycleLen =
          IF slot[n] = CycleLen - 1 THEN 0 ELSE slot[n] + 1
    OBVIOUS
  <2> QED BY <2>1 DEF RestingRound, NewRound
<1>4. rest' = [rest EXCEPT ![n] = IF elected = 1 THEN 0 ELSE rest[n] + 1]
  BY <1>1 DEF RestingRound
<1>5. TypeOK'
  BY <1>1, <1>2, <1>3
<1>6. rest' \in [Node -> Nat]
  BY <1>4
<1>7. rest'[n] <= IF slot'[n] = 0 THEN CycleLen - 1
                  ELSE IF served'[n] = 1 THEN slot'[n] - 1
                  ELSE CycleLen - 1 + slot'[n]
  BY <1>1, <1>2, <1>3, <1>4
<1>8. \A p \in Node \ {n} : /\ rest'[p] = rest[p] /\ slot'[p] = slot[p]
                            /\ served'[p] = served[p]
  BY <1>1, <1>3, <1>4
<1> QED BY <1>5, <1>6, <1>7, <1>8

\* The two are inductive together: the bound goes with the place.
LEMMA RestInvariant == RestSpec => [](TypeOK /\ RestByPlace)
<1>1. RestInit => TypeOK /\ RestByPlace
  BY CycleAssumption DEF RestInit, Init, TypeOK, RestByPlace
<1>2. TypeOK /\ RestByPlace /\ [\E n \in Node : RestingRound(n)]_<<vars, rest>>
        => (TypeOK /\ RestByPlace)'
  <2>1. ASSUME TypeOK, RestByPlace, UNCHANGED <<vars, rest>>
        PROVE  TypeOK' /\ RestByPlace'
    BY <2>1 DEF TypeOK, RestByPlace, vars
  <2> QED BY <2>1, RestStep
<1> QED BY <1>1, <1>2, PTL DEF RestSpec

\* The place in the cycle, the service there and the role keep their types: the
\* last round of a cycle leads back to the first.
THEOREM RotationTypeCorrect == RestSpec => []TypeOK
  BY RestInvariant, PTL

\* The bound holds for any number of nodes and any length of a cycle.
THEOREM RestIsBounded == RestSpec => []RestBounded
<1>1. TypeOK /\ RestByPlace => RestBounded
  <2> SUFFICES ASSUME TypeOK, RestByPlace, NEW n \in Node
               PROVE  rest[n] <= 2 * CycleLen - 2
    BY DEF RestBounded
  <2>1. slot[n] \in 0 .. CycleLen - 1 /\ rest[n] \in Nat
    BY DEF TypeOK, RestByPlace
  <2>2. rest[n] <= CycleLen - 1 + slot[n]
    BY <2>1, CycleAssumption DEF RestByPlace
  <2> QED BY <2>1, <2>2, CycleAssumption
<1> QED BY <1>1, RestInvariant, PTL

=============================================================================
