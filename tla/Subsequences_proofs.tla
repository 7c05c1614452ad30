------------------------ MODULE Subsequences_proofs ------------------------
(***************************************************************************)
(* What the loops of Subsequences compute, for every sequence.  Induction  *)
(* is over the elements looked at; it is stated for a predicate given as a *)
(* function, and rests on the smallest number at which that is FALSE.      *)
(***************************************************************************)
EXTENDS Subsequences, FiniteSets, FiniteSetTheorems, WellFoundedInduction, TLAPS

\* Induction over the natural numbers up to n, for a predicate given as a function.
LEMMA Induction ==
  ASSUME NEW n \in Nat, NEW F \in [0 .. n -> BOOLEAN], F[0],
         \A i \in 0 .. n - 1 : F[i] => F[i + 1]
  PROVE  \A i \in 0 .. n : F[i]
<1> DEFINE Bad == {i \in 0 .. n : ~F[i]}
<1> SUFFICES ASSUME Bad # {} PROVE FALSE
  OBVIOUS
<1>1. \E x \in Bad : \A y \in Bad : ~(<<y, x>> \in OpToRel(<, Nat))
  <2>1. Bad \subseteq Nat
    OBVIOUS
  <2> HIDE DEF Bad
  <2> QED BY <2>1, NatLessThanWellFounded, WFMin
<1>2. PICK x \in Bad : \A y \in Bad : ~(<<y, x>> \in OpToRel(<, Nat))
  BY <1>1
<1>3. x \in 0 .. n /\ ~F[x] /\ x # 0
  OBVIOUS
<1>4. x - 1 \in 0 .. n - 1 /\ x - 1 \in 0 .. n /\ (x - 1) + 1 = x
  BY <1>3
<1>5. ~F[x - 1]
  BY <1>3, <1>4
<1>6. x - 1 \in Bad
  BY <1>4, <1>5
<1>7. <<x - 1, x>> \in OpToRel(<, Nat)
  <2>1. x - 1 \in Nat /\ x \in Nat /\ x - 1 < x
    BY <1>3, <1>4
  <2> QED BY <2>1 DEF OpToRel
<1> QED BY <1>2, <1>6, <1>7

-----------------------------------------------------------------------------
\* The recursive definition of KeptOf has a solution: there is one up to every
\* position, and a step more extends it.
LEMMA KeptExists ==
  ASSUME NEW S, NEW s \in Seq(S), NEW I
  PROVE  \E g : g = [i \in 0 .. Len(s) |->
                       IF i = 0 THEN <<>>
                       ELSE IF i \in I THEN Append(g[i - 1], s[i]) ELSE g[i - 1]]
<1> DEFINE Step(g, i) == IF i \in I THEN Append(g[i - 1], s[i]) ELSE g[i - 1]
           UpTo(g, n) == /\ g = [i \in 0 .. n |-> g[i]]
                         /\ g[0] = <<>> /\ \A i \in 1 .. n : g[i] = Step(g, i)
           F == [n \in 0 .. Len(s) |-> \E g : UpTo(g, n)]
<1>0. Len(s) \in Nat
  OBVIOUS
<1>1. F[0]
  <2>1. UpTo([i \in 0 .. 0 |-> <<>>], 0)
    OBVIOUS
  <2>2. 0 \in 0 .. Len(s)
    BY <1>0
  <2> HIDE DEF UpTo
  <2> QED BY <2>1, <2>2
<1>2. ASSUME NEW n \in 0 .. Len(s) - 1, F[n] PROVE F[n + 1]
  <2>1. PICK g : UpTo(g, n)
    BY <1>0, <1>2
  <2> DEFINE h == [i \in 0 .. n + 1 |-> IF i = n + 1 THEN Step(g, n + 1) ELSE g[i]]
  <2>2. h = [i \in 0 .. n + 1 |-> h[i]]
    OBVIOUS
  <2>3. h[0] = <<>>
    BY <2>1
  <2>4. ASSUME NEW i \in 1 .. n + 1 PROVE h[i] = Step(h, i)
    <3>1. h[i - 1] = g[i - 1]
      OBVIOUS
    <3>2. CASE i = n + 1
      BY <3>1, <3>2
    <3>3. CASE i # n + 1
      <4>1. i \in 1 .. n /\ h[i] = g[i]
        BY <3>3
      <4> QED BY <4>1, <3>1, <2>1
    <3> QED BY <3>2, <3>3
  <2>5. UpTo(h, n + 1)
    BY <2>2, <2>3, <2>4
  <2>6. n + 1 \in 0 .. Len(s)
    BY <1>0
  <2> HIDE DEF UpTo, h
  <2> QED BY <2>5, <2>6
<1>3. F \in [0 .. Len(s) -> BOOLEAN]
  OBVIOUS
<1> HIDE DEF F
<1>4. F[Len(s)]
  BY <1>0, <1>1, <1>2, <1>3, Induction
<1>5. PICK g : UpTo(g, Len(s))
  BY <1>0, <1>4 DEF F
<1>6. g = [i \in 0 .. Len(s) |-> IF i = 0 THEN <<>> ELSE Step(g, i)]
  BY <1>5
<1> QED BY <1>6

\* One element after the other, from none.
LEMMA KeptSteps ==
  ASSUME NEW S, NEW s \in Seq(S), NEW I
  PROVE  /\ KeptOf(s, I) \in [0 .. Len(s) -> Seq(S)]
         /\ KeptOf(s, I)[0] = <<>>
         /\ \A i \in 1 .. Len(s) :
              KeptOf(s, I)[i] = IF i \in I THEN Append(KeptOf(s, I)[i - 1], s[i])
                                ELSE KeptOf(s, I)[i - 1]
<1> DEFINE Step(g, i) == IF i = 0 THEN <<>>
                         ELSE IF i \in I THEN Append(g[i - 1], s[i]) ELSE g[i - 1]
           Q(g) == g = [i \in 0 .. Len(s) |-> Step(g, i)]
           k == KeptOf(s, I)
<1>0. Len(s) \in Nat
  OBVIOUS
<1>1. \E g : Q(g)
  BY KeptExists
<1>2. k = CHOOSE g : Q(g)
  BY DEF KeptOf
<1>3. Q(k)
  <2> HIDE DEF Q, k
  <2> QED BY <1>1, <1>2
<1> HIDE DEF k
<1>4. k[0] = <<>> /\ \A i \in 1 .. Len(s) :
        k[i] = IF i \in I THEN Append(k[i - 1], s[i]) ELSE k[i - 1]
  <2>1. \A i \in 0 .. Len(s) : k[i] = Step(k, i)
    <3> HIDE DEF Step
    <3> QED BY <1>3
  <2> QED BY <1>0, <2>1
<1>5. \A i \in 0 .. Len(s) : k[i] \in Seq(S)
  <2> DEFINE F == [i \in 0 .. Len(s) |-> k[i] \in Seq(S)]
  <2>1. F[0]
    <3>1. k[0] \in Seq(S) /\ 0 \in 0 .. Len(s)
      BY <1>0, <1>4
    <3> QED BY <3>1, Zenon
  <2>2. ASSUME NEW i \in 0 .. Len(s) - 1, F[i] PROVE F[i + 1]
    <3>1. i \in 0 .. Len(s) /\ i + 1 \in 1 .. Len(s) /\ (i + 1) - 1 = i
      BY <1>0
    <3>2. k[i] \in Seq(S) /\ s[i + 1] \in S
      <4>1. k[i] \in Seq(S)
        BY <2>2, <3>1, Zenon
      <4>2. s[i + 1] \in S
        BY <3>1
      <4> QED BY <4>1, <4>2
    <3>3. k[i + 1] \in Seq(S)
      <4>1. k[i + 1] = IF i + 1 \in I THEN Append(k[i], s[i + 1]) ELSE k[i]
        BY <3>1, <1>4
      <4>2. Append(k[i], s[i + 1]) \in Seq(S)
        BY <3>2
      <4> QED BY <3>2, <4>1, <4>2, Zenon
    <3>4. i + 1 \in 0 .. Len(s)
      BY <3>1, <1>0
    <3> QED BY <3>3, <3>4, Zenon
  <2>3. F \in [0 .. Len(s) -> BOOLEAN]
    OBVIOUS
  <2> HIDE DEF F
  <2>4. \A i \in 0 .. Len(s) : F[i]
    BY <1>0, <2>1, <2>2, <2>3, Induction
  <2> QED BY <2>4, Zenon DEF F
<1>6. k \in [0 .. Len(s) -> Seq(S)]
  BY <1>3, <1>5
<1> QED BY <1>4, <1>6 DEF k

-----------------------------------------------------------------------------
\* h says where the elements of t come from: the positions of I up to n, in order.
Picks(h, t, s, I, n) ==
  /\ h \in [1 .. Len(t) -> I \cap 1 .. n]
  /\ \A a \in 1 .. Len(t) : t[a] = s[h[a]]
  /\ \A a, b \in 1 .. Len(t) : a < b => h[a] < h[b]
  /\ \A i \in I \cap 1 .. n : \E a \in 1 .. Len(t) : h[a] = i

\* One step more picks one position more, or none.
LEMMA PicksStep ==
  ASSUME NEW S, NEW s \in Seq(S), NEW I, NEW n \in 0 .. Len(s) - 1,
         NEW t \in Seq(S), NEW h, Picks(h, t, s, I, n)
  PROVE  \E g : Picks(g, IF n + 1 \in I THEN Append(t, s[n + 1]) ELSE t, s, I, n + 1)
<1>0. Len(t) \in Nat /\ Len(s) \in Nat /\ n \in Nat /\ n + 1 \in 1 .. Len(s)
  OBVIOUS
<1>1. CASE n + 1 \notin I
  <2>1. I \cap 1 .. n + 1 = I \cap 1 .. n
    BY <1>0, <1>1
  <2>2. Picks(h, t, s, I, n + 1)
    BY <2>1 DEF Picks
  <2> QED BY <1>1, <2>2
<1>2. CASE n + 1 \in I
  <2> DEFINE u == Append(t, s[n + 1])
             g == [a \in 1 .. Len(t) + 1 |-> IF a <= Len(t) THEN h[a] ELSE n + 1]
  <2>1. Len(u) = Len(t) + 1 /\ u[Len(t) + 1] = s[n + 1]
        /\ \A a \in 1 .. Len(t) : u[a] = t[a]
    <3>1. s[n + 1] \in S
      BY <1>0
    <3> QED BY <3>1
  <2> HIDE DEF u
  <2>2. \A a \in 1 .. Len(t) : h[a] \in I \cap 1 .. n /\ g[a] = h[a]
    BY DEF Picks
  <2>3. g[Len(t) + 1] = n + 1
    BY <1>0
  <2>4. \A a \in 1 .. Len(t) + 1 : a \in 1 .. Len(t) \/ a = Len(t) + 1
    BY <1>0
  <2>5. I \cap 1 .. n + 1 = (I \cap 1 .. n) \cup {n + 1}
    BY <1>0, <1>2
  <2>6. g \in [1 .. Len(u) -> I \cap 1 .. n + 1]
    BY <2>1, <2>2, <2>3, <2>4, <2>5
  <2>7. \A a \in 1 .. Len(u) : u[a] = s[g[a]]
    BY <2>1, <2>2, <2>3, <2>4 DEF Picks
  <2>8. \A a, b \in 1 .. Len(u) : a < b => g[a] < g[b]
    <3> SUFFICES ASSUME NEW a \in 1 .. Len(u), NEW b \in 1 .. Len(u), a < b
                 PROVE  g[a] < g[b]
      OBVIOUS
    <3>1. a \in 1 .. Len(t)
      BY <1>0, <2>1
    <3>2. g[a] = h[a] /\ h[a] \in 1 .. n
      BY <2>2, <3>1
    <3>3. CASE b \in 1 .. Len(t)
      BY <2>2, <3>1, <3>2, <3>3 DEF Picks
    <3>4. CASE b = Len(t) + 1
      BY <1>0, <2>3, <3>2, <3>4
    <3> QED BY <2>1, <2>4, <3>3, <3>4
  <2>9. \A i \in I \cap 1 .. n + 1 : \E a \in 1 .. Len(u) : g[a] = i
    <3> SUFFICES ASSUME NEW i \in I \cap 1 .. n + 1
                 PROVE  \E a \in 1 .. Len(u) : g[a] = i
      OBVIOUS
    <3>1. CASE i = n + 1
      BY <1>0, <2>1, <2>3, <3>1
    <3>2. CASE i \in I \cap 1 .. n
      <4>1. PICK a \in 1 .. Len(t) : h[a] = i
        BY <3>2 DEF Picks
      <4> QED BY <1>0, <2>1, <2>2, <4>1
    <3> QED BY <2>5, <3>1, <3>2
  <2>10. Picks(g, u, s, I, n + 1)
    BY <2>6, <2>7, <2>8, <2>9 DEF Picks
  <2> QED BY <1>2, <2>10 DEF u
<1> QED BY <1>1, <1>2

\* A loop that goes through a queue and keeps some of it (PacketQueue::Dequeue,
\* Proposal, AutoDequeueNoDA) keeps the elements at the positions in I, all of
\* them, each once and in order.
THEOREM SelectedPicks ==
  ASSUME NEW S, NEW s \in Seq(S), NEW I
  PROVE  /\ Selected(s, I) \in Seq(S)
         /\ \E h : Picks(h, Selected(s, I), s, I, Len(s))
<1> DEFINE k == KeptOf(s, I)
           F == [n \in 0 .. Len(s) |-> \E h : Picks(h, k[n], s, I, n)]
<1>0. Len(s) \in Nat
  OBVIOUS
<1>1. /\ k \in [0 .. Len(s) -> Seq(S)] /\ k[0] = <<>>
      /\ \A i \in 1 .. Len(s) : k[i] = IF i \in I THEN Append(k[i - 1], s[i]) ELSE k[i - 1]
  BY KeptSteps
<1> HIDE DEF k
<1>2. F[0]
  <2>1. Picks(<<>>, k[0], s, I, 0)
    BY <1>1 DEF Picks
  <2>2. 0 \in 0 .. Len(s)
    BY <1>0
  <2> QED BY <2>1, <2>2, Zenon
<1>3. ASSUME NEW n \in 0 .. Len(s) - 1, F[n] PROVE F[n + 1]
  <2>1. n \in 0 .. Len(s) /\ n + 1 \in 0 .. Len(s)
    BY <1>0
  <2>2. n + 1 \in 1 .. Len(s) /\ (n + 1) - 1 = n
    BY <1>0
  <2>3. PICK h : Picks(h, k[n], s, I, n)
    BY <1>3, <2>1, Zenon
  <2>4. k[n + 1] = IF n + 1 \in I THEN Append(k[n], s[n + 1]) ELSE k[n]
    BY <1>1, <2>2
  <2>5. k[n] \in Seq(S)
    BY <1>1, <2>1
  <2>6. \E h2 : Picks(h2, k[n + 1], s, I, n + 1)
    <3>1. \E g : Picks(g, IF n + 1 \in I THEN Append(k[n], s[n + 1]) ELSE k[n], s, I, n + 1)
      BY <2>3, <2>5, PicksStep
    <3> QED BY <3>1, <2>4
  <2> QED BY <2>1, <2>6, Zenon
<1>4. F \in [0 .. Len(s) -> BOOLEAN]
  OBVIOUS
<1> HIDE DEF F
<1>5. \A n \in 0 .. Len(s) : F[n]
  BY <1>0, <1>2, <1>3, <1>4, Induction
<1>6. Len(s) \in 0 .. Len(s)
  BY <1>0
<1>7. \E h : Picks(h, k[Len(s)], s, I, Len(s))
  BY <1>5, <1>6, Zenon DEF F
<1> QED BY <1>1, <1>6, <1>7 DEF Selected, k

\* The positions of one element are those of the queue it was picked from.
LEMMA SelectedPositions ==
  ASSUME NEW S, NEW s \in Seq(S), NEW I
  PROVE  /\ Selected(s, I) \in Seq(S)
         /\ \E h \in [DOMAIN Selected(s, I) -> I \cap DOMAIN s] :
              /\ \A a \in DOMAIN Selected(s, I) : Selected(s, I)[a] = s[h[a]]
              /\ \A a, b \in DOMAIN Selected(s, I) : h[a] = h[b] => a = b
              /\ \A i \in I \cap DOMAIN s : \E a \in DOMAIN Selected(s, I) : h[a] = i
<1> DEFINE t == Selected(s, I)
<1>1. t \in Seq(S)
  BY SelectedPicks
<1>2. PICK h : Picks(h, t, s, I, Len(s))
  BY SelectedPicks
<1> HIDE DEF t
<1>3. DOMAIN t = 1 .. Len(t) /\ DOMAIN s = 1 .. Len(s)
  BY <1>1
<1>4. Len(t) \in Nat /\ Len(s) \in Nat
  BY <1>1
<1>5. \A a, b \in DOMAIN t : h[a] = h[b] => a = b
  <2> SUFFICES ASSUME NEW a \in 1 .. Len(t), NEW b \in 1 .. Len(t), h[a] = h[b]
               PROVE  a = b
    BY <1>3
  <2>1. h[a] \in 1 .. Len(s) /\ h[b] \in 1 .. Len(s)
    BY <1>2 DEF Picks
  <2>2. ~(a < b) /\ ~(b < a)
    BY <1>2, <2>1 DEF Picks
  <2> QED BY <1>4, <2>2
<1>6. /\ h \in [DOMAIN t -> I \cap DOMAIN s]
      /\ \A a \in DOMAIN t : t[a] = s[h[a]]
      /\ \A i \in I \cap DOMAIN s : \E a \in DOMAIN t : h[a] = i
  BY <1>2, <1>3 DEF Picks
<1> QED BY <1>1, <1>5, <1>6, Zenon DEF t

\* It keeps as many elements as there are positions in I.
LEMMA SelectedLen ==
  ASSUME NEW S, NEW s \in Seq(S), NEW I
  PROVE  /\ Len(Selected(s, I)) = Cardinality(I \cap DOMAIN s)
         /\ IsFiniteSet(I \cap DOMAIN s)
<1> DEFINE t == Selected(s, I)
<1>1. PICK h \in [DOMAIN t -> I \cap DOMAIN s] :
        /\ \A a, b \in DOMAIN t : h[a] = h[b] => a = b
        /\ \A i \in I \cap DOMAIN s : \E a \in DOMAIN t : h[a] = i
  BY SelectedPositions
<1>2. t \in Seq(S)
  BY SelectedPositions
<1> HIDE DEF t
<1>3. DOMAIN t = 1 .. Len(t) /\ Len(t) \in Nat
  BY <1>2
<1>4. h \in Bijection(1 .. Len(t), I \cap DOMAIN s)
  BY <1>1, <1>3 DEF Bijection, Injection, Surjection, IsInjective
<1>5. ExistsBijection(1 .. Len(t), I \cap DOMAIN s)
  BY <1>4 DEF ExistsBijection
<1>6. IsFiniteSet(DOMAIN s)
  <2>1. Len(s) \in Int /\ DOMAIN s = 1 .. Len(s) /\ 1 \in Int
    OBVIOUS
  <2> QED BY <2>1, FS_Interval
<1> QED BY <1>3, <1>5, <1>6, FS_CountingElements, FS_Intersection DEF t

\* What is kept and what is not make up the whole queue.
LEMMA SelectedPartition ==
  ASSUME NEW S, NEW s \in Seq(S), NEW I
  PROVE  Len(Selected(s, I)) + Len(Selected(s, DOMAIN s \ I)) = Len(s)
<1> DEFINE D == DOMAIN s
<1>1. Len(s) \in Nat /\ D = 1 .. Len(s)
  OBVIOUS
<1>2. IsFiniteSet(D) /\ Cardinality(D) = Len(s)
  BY <1>1, FS_Interval
<1>3. (D \ I) \cap D = D \ I /\ I \cap D = D \cap I
  OBVIOUS
<1> HIDE DEF D
<1>4. Cardinality(D \ I) = Cardinality(D) - Cardinality(D \cap I)
  BY <1>2, FS_Difference
<1>5. Cardinality(D \cap I) \in Nat
  BY <1>2, FS_Intersection, FS_CardinalityType
<1>6. Len(Selected(s, I)) = Cardinality(I \cap D)
      /\ Len(Selected(s, D \ I)) = Cardinality((D \ I) \cap D)
  BY SelectedLen DEF D
<1>7. Cardinality(I \cap D) = Cardinality(D \cap I)
      /\ Cardinality((D \ I) \cap D) = Cardinality(D \ I)
  BY <1>3
<1>8. Len(Selected(s, I)) + Len(Selected(s, D \ I)) = Len(s)
  BY <1>1, <1>2, <1>4, <1>5, <1>6, <1>7
<1> QED BY <1>8 DEF D

=============================================================================
