----------------------- MODULE LeachAggregation_proofs -----------------------
(***************************************************************************)
(* A measurement is at any time in one place: in one entry of m_queue, in  *)
(* one packet inside the loopback device, as its own or appended to it, or *)
(* gone.  That is the invariant behind CustodyKept and Conservation; each  *)
(* uid is used once because a round sends one control packet, and because  *)
(* these have the uids below zero.                                         *)
(***************************************************************************)
EXTENDS LeachAggregation, Subsequences_proofs

-----------------------------------------------------------------------------
(* The inductive invariant *)

\* A head's timer is running or has run if the node has a route.
ControlInv ==
  /\ policy \in Policies /\ fits \in BOOLEAN
  /\ Now \in 0 .. TotalTime
  /\ Round \in Nat /\ clusterHeadThisRound \in BOOLEAN /\ valid \in BOOLEAN
  /\ timer \in {"ADVERT", "JOIN", "OFF"} /\ hasRoute \in BOOLEAN
  /\ hasRoute => clusterHeadThisRound
  /\ timer = "ADVERT" => clusterHeadThisRound
  /\ step \in 0 .. StepCap

\* Measurements a packet has with it.
Own(p) == ({p.id} \cup p.carries) \ {0}
Carried(l) == UNION {Own(l[i]) : i \in DOMAIN l}

\* No measurement is in two entries, or twice in packets.
OnceQueued(q) == \A i, j \in DOMAIN q : q[i].id # 0 /\ q[i].id = q[j].id => i = j
OnceCarried(l) ==
  /\ \A i, j \in DOMAIN l : i # j => Own(l[i]) \cap Own(l[j]) = {}
  /\ \A i \in DOMAIN l : l[i].id \notin l[i].carries

PlaceInv ==
  /\ OnceQueued(m_queue) /\ OnceCarried(loopback)
  /\ Ids(m_queue) \cap Carried(loopback) = {}
  /\ gone \cap (Ids(m_queue) \cup Carried(loopback)) = {}
  /\ Ids(m_queue) \cup Carried(loopback) \cup gone = 1 .. generated

\* No uid goes through the loopback device twice.
OnceByUid(l) == \A i, j \in DOMAIN l : l[i].uid = l[j].uid => i = j
UidsOf(l) == {l[i].uid : i \in DOMAIN l}
HashUids == {h.uid : h \in m_hash}

UidInv ==
  /\ OnceByUid(loopback) /\ \A g, h \in m_hash : g.uid = h.uid => g = h
  /\ UidsOf(loopback) \cap HashUids = {}
  /\ UidsOf(loopback) \cup HashUids \subseteq (0 - Round) .. generated
  /\ timer # "OFF" => 0 - Round \notin UidsOf(loopback) \cup HashUids

DataTypes ==
  /\ generated \in Nat /\ m_dropped \in Nat /\ made \in Nat /\ taken \in Nat
  /\ m_queue \in Seq(QueueEntry) /\ loopback \in Seq(Packet)
  /\ onAir \subseteq Packet
  /\ m_hash \subseteq [uid : Int, left : 0 .. Unit - 1]

Accounts == made = Len(m_queue) + m_dropped + taken

IInv == ControlInv /\ DataTypes /\ PlaceInv /\ UidInv /\ Accounts

-----------------------------------------------------------------------------
(* Numbers *)

\* Division in the natural numbers.
LEMMA Division ==
  ASSUME NEW n \in Nat, NEW k \in Nat \ {0}
  PROVE  n % k \in 0 .. k - 1 /\ n \div k \in Nat /\ (n >= k => n \div k >= 1)
<1>1. n % k \in 0 .. k - 1
  OBVIOUS
<1>2. n \div k \in Nat
  OBVIOUS
<1>3. n >= k => n \div k >= 1
  OBVIOUS
<1> QED BY <1>1, <1>2, <1>3

\* The product of natural numbers.
LEMMA Product ==
  ASSUME NEW n \in Nat, NEW k \in Nat
  PROVE  n * k \in Nat
  OBVIOUS

\* What the sizes have to do with each other.
LEMMA Sizes ==
  /\ Taken \in Nat /\ Taken > Unit /\ EntrySize \in Nat /\ Far \in Nat
  /\ HeaderWritten \in Nat /\ AppSize \in Nat /\ AppSize >= Taken
<1>1. Taken \in Nat /\ Taken > Unit /\ EntrySize \in Nat
  BY AggregationAssumption DEF Taken, HeaderRead, Payload, Unit, EntrySize
<1>2. Far \in Nat
  BY AggregationAssumption DEF Far, Horizon
<1> QED BY <1>1, <1>2, AggregationAssumption

\* Cutting n bytes: so many entries, and a rest too small for one.
LEMMA Cutting ==
  ASSUME NEW n \in Nat
  PROVE  /\ Reads(n) \in Nat /\ Left(n) \in 0 .. Unit - 1
         /\ n >= Taken => Reads(n) >= 1
<1> DEFINE d == n \div Taken
           r == n % Taken
<1>1. Taken \in Nat \ {0}
  BY Sizes DEF Unit
<1>2. d \in Nat /\ r \in Nat /\ (n >= Taken => d >= 1)
  BY <1>1, Division
<1>3. Reads(n) = d + (IF r >= Unit THEN 1 ELSE 0)
  BY DEF Reads
<1>4. Left(n) = IF r >= Unit THEN 0 ELSE r
  BY DEF Left
<1> HIDE DEF d, r
<1> QED BY <1>2, <1>3, <1>4 DEF Unit

\* Every packet has a size, and a measurement's makes an entry at least.
LEMMA PacketSize ==
  ASSUME NEW p \in Packet
  PROVE  Size(p) \in Nat /\ (p.id # 0 => Size(p) >= Taken)
<1>1. EntrySize * p.appended \in Nat
  BY Sizes, Product DEF Packet
<1> HIDE DEF EntrySize
<1> QED BY <1>1, Sizes DEF Size, IsControl

-----------------------------------------------------------------------------
(* Entries and packets *)

\* Queues without a measurement in common can be joined.
LEMMA JoinedQueue ==
  ASSUME NEW q \in Seq(QueueEntry), NEW r \in Seq(QueueEntry)
  PROVE  /\ q \o r \in Seq(QueueEntry) /\ Len(q \o r) = Len(q) + Len(r)
         /\ Ids(q \o r) = Ids(q) \cup Ids(r)
         /\ OnceQueued(q) /\ OnceQueued(r) /\ Ids(q) \cap Ids(r) = {} => OnceQueued(q \o r)
<1> DEFINE t == q \o r
<1>0. /\ Len(q) \in Nat /\ Len(r) \in Nat
      /\ DOMAIN q = 1 .. Len(q) /\ DOMAIN r = 1 .. Len(r)
  OBVIOUS
<1>1. /\ t \in Seq(QueueEntry) /\ DOMAIN t = 1 .. Len(q) + Len(r)
      /\ Len(t) = Len(q) + Len(r)
      /\ \A i \in 1 .. Len(q) + Len(r) : t[i] = IF i <= Len(q) THEN q[i] ELSE r[i - Len(q)]
  OBVIOUS
<1> HIDE DEF t
<1>2. \A i \in DOMAIN q : i \in DOMAIN t /\ t[i] = q[i]
  BY <1>0, <1>1
<1>3. \A i \in DOMAIN r : i + Len(q) \in DOMAIN t /\ t[i + Len(q)] = r[i]
  BY <1>0, <1>1
<1>4. \A i \in DOMAIN t : \/ i \in DOMAIN q /\ t[i] = q[i]
                          \/ i - Len(q) \in DOMAIN r /\ t[i] = r[i - Len(q)]
  BY <1>0, <1>1
<1>5. Ids(t) = Ids(q) \cup Ids(r)
  BY <1>2, <1>3, <1>4 DEF Ids
<1>6. ASSUME OnceQueued(q), OnceQueued(r), Ids(q) \cap Ids(r) = {} PROVE OnceQueued(t)
  <2>1. \A i \in DOMAIN q, j \in DOMAIN r : q[i].id # 0 => q[i].id # r[j].id
    BY <1>6 DEF Ids
  <2> SUFFICES ASSUME NEW i \in DOMAIN t, NEW j \in DOMAIN t,
                      t[i].id # 0, t[i].id = t[j].id
               PROVE  i = j
    BY DEF OnceQueued
  <2>2. i \in Int /\ j \in Int
    BY <1>1
  <2> QED BY <1>0, <1>4, <1>6, <2>1, <2>2 DEF OnceQueued
<1> QED BY <1>1, <1>5, <1>6 DEF t

\* Keeping some entries keeps their measurements, and none twice.
LEMMA SelectedIds ==
  ASSUME NEW q \in Seq(QueueEntry), NEW I
  PROVE  /\ Selected(q, I) \in Seq(QueueEntry)
         /\ Ids(Selected(q, I)) = {q[i].id : i \in I \cap DOMAIN q} \ {0}
         /\ OnceQueued(q) => OnceQueued(Selected(q, I))
<1> DEFINE t == Selected(q, I)
<1>1. t \in Seq(QueueEntry)
  BY SelectedPositions
<1>2. PICK h \in [DOMAIN t -> I \cap DOMAIN q] :
        /\ \A a \in DOMAIN t : t[a] = q[h[a]]
        /\ \A a, b \in DOMAIN t : h[a] = h[b] => a = b
        /\ \A i \in I \cap DOMAIN q : \E a \in DOMAIN t : h[a] = i
  BY SelectedPositions
<1> HIDE DEF t
<1>3. Ids(t) = {q[i].id : i \in I \cap DOMAIN q} \ {0}
  <2>1. \A a \in DOMAIN t : h[a] \in I \cap DOMAIN q /\ t[a].id = q[h[a]].id
    BY <1>2
  <2>2. \A i \in I \cap DOMAIN q : \E a \in DOMAIN t : t[a].id = q[i].id
    BY <1>2
  <2> QED BY <2>1, <2>2 DEF Ids
<1>4. OnceQueued(q) => OnceQueued(t)
  BY <1>2 DEF OnceQueued
<1> QED BY <1>1, <1>3, <1>4 DEF t

\* A queue in two parts: each measurement is in one of them.
LEMMA TwoParts ==
  ASSUME NEW q \in Seq(QueueEntry), NEW I, OnceQueued(q)
  PROVE  LET s == Selected(q, I)
             t == Selected(q, DOMAIN q \ I)
         IN  /\ Len(s) + Len(t) = Len(q) /\ Ids(s) \cup Ids(t) = Ids(q)
             /\ Ids(s) \cap Ids(t) = {}
<1> DEFINE s == Selected(q, I)
           t == Selected(q, DOMAIN q \ I)
<1>1. Len(s) + Len(t) = Len(q)
  BY SelectedPartition
<1>2. /\ Ids(s) = {q[i].id : i \in I \cap DOMAIN q} \ {0}
      /\ Ids(t) = {q[i].id : i \in DOMAIN q \ I} \ {0}
  <2>1. (DOMAIN q \ I) \cap DOMAIN q = DOMAIN q \ I
    OBVIOUS
  <2> QED BY <2>1, SelectedIds
<1> HIDE DEF s, t
<1>3. Ids(s) \cup Ids(t) = Ids(q)
  BY <1>2 DEF Ids
<1>4. Ids(s) \cap Ids(t) = {}
  BY <1>2 DEF OnceQueued
<1> QED BY <1>1, <1>3, <1>4 DEF s, t

\* A packet with measurements and a uid of its own can join the loopback device.
LEMMA JoinedPacket ==
  ASSUME NEW l \in Seq(Packet), NEW p \in Packet
  PROVE  LET t == Append(l, p) IN
           /\ t \in Seq(Packet) /\ Carried(t) = Carried(l) \cup Own(p)
           /\ UidsOf(t) = UidsOf(l) \cup {p.uid}
           /\ OnceCarried(l) /\ Own(p) \cap Carried(l) = {} /\ p.id \notin p.carries
                => OnceCarried(t)
           /\ OnceByUid(l) /\ p.uid \notin UidsOf(l) => OnceByUid(t)
<1> DEFINE t == Append(l, p)
<1>0. Len(l) \in Nat /\ DOMAIN l = 1 .. Len(l)
  OBVIOUS
<1>1. /\ t \in Seq(Packet) /\ DOMAIN t = 1 .. Len(l) + 1
      /\ \A i \in 1 .. Len(l) : t[i] = l[i]
      /\ t[Len(l) + 1] = p
  OBVIOUS
<1> HIDE DEF t
<1>2. /\ \A i \in DOMAIN t : i \in DOMAIN l \/ i = Len(l) + 1
      /\ \A i \in DOMAIN l : i \in DOMAIN t /\ t[i] = l[i]
      /\ Len(l) + 1 \in DOMAIN t /\ Len(l) + 1 \notin DOMAIN l
  BY <1>0, <1>1
<1>3. Carried(t) = Carried(l) \cup Own(p)
  BY <1>1, <1>2 DEF Carried
<1>4. UidsOf(t) = UidsOf(l) \cup {p.uid}
  BY <1>1, <1>2 DEF UidsOf
<1>5. ASSUME OnceCarried(l), Own(p) \cap Carried(l) = {}, p.id \notin p.carries
      PROVE  OnceCarried(t)
  <2>1. \A i \in DOMAIN l : Own(l[i]) \cap Own(p) = {}
    BY <1>5 DEF Carried
  <2>2. \A i, j \in DOMAIN t : i # j => Own(t[i]) \cap Own(t[j]) = {}
    BY <1>1, <1>2, <1>5, <2>1 DEF OnceCarried
  <2>3. \A i \in DOMAIN t : t[i].id \notin t[i].carries
    BY <1>1, <1>2, <1>5 DEF OnceCarried
  <2> QED BY <2>2, <2>3 DEF OnceCarried
<1>6. ASSUME OnceByUid(l), p.uid \notin UidsOf(l) PROVE OnceByUid(t)
  <2>1. \A i \in DOMAIN l : l[i].uid # p.uid
    BY <1>6 DEF UidsOf
  <2> QED BY <1>1, <1>2, <1>6, <2>1 DEF OnceByUid
<1> QED BY <1>1, <1>3, <1>4, <1>5, <1>6 DEF t

\* The packet that leaves the loopback device takes its measurements and its
\* uid with it.
LEMMA LeftPacket ==
  ASSUME NEW l \in Seq(Packet), l # <<>>
  PROVE  /\ Head(l) \in Packet /\ Tail(l) \in Seq(Packet)
         /\ Carried(l) = Carried(Tail(l)) \cup Own(Head(l))
         /\ UidsOf(l) = UidsOf(Tail(l)) \cup {Head(l).uid}
         /\ OnceCarried(l) => /\ OnceCarried(Tail(l))
                              /\ Own(Head(l)) \cap Carried(Tail(l)) = {}
                              /\ Head(l).id \notin Head(l).carries
         /\ OnceByUid(l) => OnceByUid(Tail(l)) /\ Head(l).uid \notin UidsOf(Tail(l))
<1> DEFINE t == Tail(l)
           p == Head(l)
<1>0. Len(l) \in Nat \ {0} /\ DOMAIN l = 1 .. Len(l)
  OBVIOUS
<1>1. /\ t \in Seq(Packet) /\ DOMAIN t = 1 .. Len(l) - 1
      /\ \A i \in 1 .. Len(l) - 1 : t[i] = l[i + 1]
      /\ p = l[1] /\ p \in Packet
  OBVIOUS
<1> HIDE DEF t, p
<1>2. \A i \in DOMAIN t : i + 1 \in DOMAIN l /\ t[i] = l[i + 1] /\ i + 1 # 1
  BY <1>0, <1>1
<1>3. \A i \in DOMAIN l : i = 1 \/ (i - 1 \in DOMAIN t /\ l[i] = t[i - 1])
  BY <1>0, <1>1
<1>4. 1 \in DOMAIN l /\ DOMAIN t \subseteq Int
  BY <1>0, <1>1
<1>5. Carried(l) = Carried(t) \cup Own(p)
  <2>1. \A i \in DOMAIN t : \E j \in DOMAIN l : Own(l[j]) = Own(t[i])
    BY <1>2
  <2>2. \A i \in DOMAIN l : Own(l[i]) = Own(p) \/ \E j \in DOMAIN t : Own(t[j]) = Own(l[i])
    BY <1>1, <1>3
  <2> HIDE DEF Own
  <2> QED BY <1>1, <1>4, <2>1, <2>2 DEF Carried
<1>6. UidsOf(l) = UidsOf(t) \cup {p.uid}
  <2>1. \A i \in DOMAIN t : \E j \in DOMAIN l : l[j].uid = t[i].uid
    BY <1>2
  <2>2. \A i \in DOMAIN l : l[i].uid = p.uid \/ \E j \in DOMAIN t : t[j].uid = l[i].uid
    BY <1>1, <1>3
  <2>3. UidsOf(t) \subseteq UidsOf(l) /\ p.uid \in UidsOf(l)
    BY <1>1, <1>4, <2>1 DEF UidsOf
  <2>4. UidsOf(l) \subseteq UidsOf(t) \cup {p.uid}
    BY <2>2 DEF UidsOf
  <2> QED BY <2>3, <2>4
<1>7. ASSUME OnceCarried(l)
      PROVE  OnceCarried(t) /\ Own(p) \cap Carried(t) = {} /\ p.id \notin p.carries
  <2>1. \A i, j \in DOMAIN t : i # j => i + 1 # j + 1
    BY <1>4
  <2>2. \A i, j \in DOMAIN t : i # j => Own(t[i]) \cap Own(t[j]) = {}
    BY <1>2, <1>7, <2>1 DEF OnceCarried
  <2>3. \A i \in DOMAIN t : Own(p) \cap Own(t[i]) = {}
    BY <1>1, <1>2, <1>4, <1>7 DEF OnceCarried
  <2>4. \A i \in DOMAIN t : t[i].id \notin t[i].carries
    BY <1>2, <1>7 DEF OnceCarried
  <2>5. p.id \notin p.carries
    BY <1>1, <1>4, <1>7 DEF OnceCarried
  <2> QED BY <2>2, <2>3, <2>4, <2>5 DEF OnceCarried, Carried
<1>8. ASSUME OnceByUid(l) PROVE OnceByUid(t) /\ p.uid \notin UidsOf(t)
  <2>1. \A i, j \in DOMAIN t : t[i].uid = t[j].uid => i = j
    BY <1>2, <1>4, <1>8 DEF OnceByUid
  <2>2. \A i \in DOMAIN t : t[i].uid # p.uid
    BY <1>1, <1>2, <1>4, <1>8 DEF OnceByUid
  <2> QED BY <2>1, <2>2 DEF OnceByUid, UidsOf
<1> QED BY <1>1, <1>5, <1>6, <1>7, <1>8 DEF t, p

\* DeAggregate makes as many entries as it reads, the first with the packet's
\* own measurement and the others with none.
LEMMA Pieces ==
  ASSUME NEW p \in Packet, NEW far
  PROVE  LET r == DeAggregate(p, far) IN
           /\ r \in Seq(QueueEntry) /\ Len(r) = Reads(Size(p))
           /\ Ids(r) = {p.id} \ {0} /\ OnceQueued(r)
<1> DEFINE r == DeAggregate(p, far)
           n == Reads(Size(p))
<1>1. n \in Nat /\ (p.id # 0 => n >= 1)
  BY PacketSize, Cutting
<1> HIDE DEF n
<1>2. r = [k \in 1 .. n |-> r[k]]
  BY DEF DeAggregate, n
<1>3. \A k \in 1 .. n : r[k] \in QueueEntry /\ r[k].id = IF k = 1 THEN p.id ELSE 0
  <2> SUFFICES ASSUME NEW k \in 1 .. n
               PROVE  r[k] \in QueueEntry /\ r[k].id = IF k = 1 THEN p.id ELSE 0
    OBVIOUS
  <2> DEFINE id == IF k = 1 THEN p.id ELSE 0
             deadline == IF k = 1 THEN p.deadline ELSE IF k \in far THEN Far ELSE 0
             toSink == ~IsControl(p)
  <2>1. r[k] = [id |-> id, deadline |-> deadline, toSink |-> toSink]
    BY DEF DeAggregate, n
  <2>2. id \in Nat /\ id = IF k = 1 THEN p.id ELSE 0
    BY <1>1 DEF Packet
  <2>3. deadline \in Nat
    BY Sizes DEF Packet
  <2>4. toSink \in BOOLEAN
    BY DEF IsControl
  <2> HIDE DEF id, deadline, toSink, r
  <2> QED BY <2>1, <2>2, <2>3, <2>4 DEF QueueEntry
<1> HIDE DEF r
<1>4. r \in Seq(QueueEntry) /\ Len(r) = n /\ DOMAIN r = 1 .. n
  BY <1>1, <1>2, <1>3
<1>5. Ids(r) = {p.id} \ {0}
  <2>1. p.id # 0 => 1 \in DOMAIN r
    BY <1>1, <1>4
  <2> QED BY <1>3, <1>4, <2>1 DEF Ids
<1>6. OnceQueued(r)
  BY <1>3, <1>4 DEF OnceQueued
<1> QED BY <1>4, <1>5, <1>6 DEF r, n

\* A control packet has no measurement with it, and its uid.
LEMMA ControlPacket ==
  ASSUME NEW uid \in Int
  PROVE  /\ Control(uid) \in Packet /\ Own(Control(uid)) = {} /\ Control(uid).uid = uid
         /\ Control(uid).id \notin Control(uid).carries
  BY DEF Control, Packet, Own

\* What Proposal and ControlLimit leave of the queue.
LEMMA RetainedQueue ==
  ASSUME m_queue \in Seq(QueueEntry), OnceQueued(m_queue)
  PROVE  /\ Retained \in Seq(QueueEntry) /\ OnceQueued(Retained)
         /\ Ids(Retained) \subseteq Ids(m_queue) /\ Len(m_queue) - Len(Retained) \in Nat
<1> DEFINE I == {i \in DOMAIN m_queue : m_queue[i].deadline >= Now}
           s == Selected(m_queue, I)
<1>1. Retained = IF DropsLate THEN s ELSE m_queue
  BY DEF Retained, Fresh
<1> HIDE DEF I
<1>2. s \in Seq(QueueEntry) /\ OnceQueued(s)
  BY SelectedIds
<1>3. Ids(s) \subseteq Ids(m_queue)
  <2>1. Ids(s) \cup Ids(Selected(m_queue, DOMAIN m_queue \ I)) = Ids(m_queue)
    BY TwoParts
  <2> QED BY <2>1
<1>4. Len(m_queue) - Len(s) \in Nat
  <2>1. Len(s) + Len(Selected(m_queue, DOMAIN m_queue \ I)) = Len(m_queue)
    BY SelectedPartition
  <2>2. Selected(m_queue, DOMAIN m_queue \ I) \in Seq(QueueEntry)
    BY SelectedIds
  <2> QED BY <1>2, <2>1, <2>2
<1> HIDE DEF s
<1>5. Len(m_queue) \in Nat
  OBVIOUS
<1> QED BY <1>1, <1>2, <1>3, <1>4, <1>5

\* What Dequeue takes and what it leaves.
LEMMA Dequeued ==
  ASSUME NEW q \in Seq(QueueEntry), OnceQueued(q)
  PROVE  /\ ForSink(q) \in Seq(QueueEntry)
         /\ ForOthers(q) \in Seq(QueueEntry) /\ OnceQueued(ForOthers(q))
         /\ Len(ForSink(q)) + Len(ForOthers(q)) = Len(q)
         /\ Ids(ForSink(q)) \cup Ids(ForOthers(q)) = Ids(q)
         /\ Ids(ForSink(q)) \cap Ids(ForOthers(q)) = {}
<1> DEFINE I == {i \in DOMAIN q : q[i].toSink}
<1>1. ForSink(q) = Selected(q, I) /\ ForOthers(q) = Selected(q, DOMAIN q \ I)
  <2>1. {i \in DOMAIN q : ~q[i].toSink} = DOMAIN q \ I
    OBVIOUS
  <2> QED BY <2>1 DEF ForSink, ForOthers
<1> HIDE DEF I
<1> DEFINE s == Selected(q, I)
           o == Selected(q, DOMAIN q \ I)
<1>2. s \in Seq(QueueEntry) /\ o \in Seq(QueueEntry) /\ OnceQueued(o)
  BY SelectedIds
<1>3. Len(s) + Len(o) = Len(q) /\ Ids(s) \cup Ids(o) = Ids(q) /\ Ids(s) \cap Ids(o) = {}
  BY TwoParts
<1> QED BY <1>1, <1>2, <1>3

-----------------------------------------------------------------------------
(* The application sends a measurement *)

\* Where the measurements are when it has: q is what is retained, out what is
\* appended to the packet p, and rest what stays.
SentWith(p, q, out, rest) ==
  /\ q \in Seq(QueueEntry) /\ out \in Seq(QueueEntry) /\ rest \in Seq(QueueEntry)
  /\ OnceQueued(rest) /\ Len(out) + Len(rest) = Len(q)
  /\ Ids(q) \subseteq Ids(m_queue) /\ Len(m_queue) - Len(q) \in Nat
  /\ Ids(out) \cup Ids(rest) = Ids(q) /\ Ids(out) \cap Ids(rest) = {}
  /\ p \in Packet /\ p.id = generated + 1 /\ p.uid = generated + 1 /\ p.carries = Ids(out)
  /\ generated' = generated + 1 /\ m_queue' = rest /\ UNCHANGED <<m_hash, made>>
  /\ m_dropped' = m_dropped + Len(m_queue) - Len(q) /\ taken' = taken + Len(out)
  /\ \/ /\ onAir' = onAir \cup {p} /\ UNCHANGED loopback
        /\ gone' = gone \cup (Ids(m_queue) \ Ids(q)) \cup {p.id} \cup Ids(out)
     \/ /\ loopback' = Append(loopback, p) /\ UNCHANGED onAir
        /\ gone' = gone \cup (Ids(m_queue) \ Ids(q))

\* What is appended to a packet becomes its load.
LEMMA MergedPacket ==
  ASSUME NEW n \in Nat, NEW d \in Nat, NEW out \in Seq(QueueEntry)
  PROVE  LET p == Merged([uid |-> n + 1, id |-> n + 1, deadline |-> d,
                          carries |-> {}, appended |-> 0], out)
         IN  p \in Packet /\ p.id = n + 1 /\ p.uid = n + 1 /\ p.carries = Ids(out)
<1>1. Ids(out) \in SUBSET (Nat \ {0})
  <2>1. \A i \in DOMAIN out : out[i].id \in Nat
    <3>1. \A i \in DOMAIN out : out[i] \in QueueEntry
      OBVIOUS
    <3> QED BY <3>1 DEF QueueEntry
  <2> QED BY <2>1 DEF Ids
<1>2. Len(out) \in Nat /\ n + 1 \in Int /\ n + 1 \in Nat
  OBVIOUS
<1> QED BY <1>1, <1>2 DEF Merged, Packet

\* RouteOutput leads there, whatever the policy decides.
LEMMA SendPacketEffect ==
  ASSUME IInv, SendPacket
  PROVE  \E p, q, out, rest : SentWith(p, q, out, rest)
<1>1. m_queue \in Seq(QueueEntry) /\ OnceQueued(m_queue) /\ generated \in Nat /\ Now \in Nat
  BY DEF IInv, DataTypes, PlaceInv, ControlInv
<1>2. PICK d \in DeadlineIn :
        RouteOutput([uid |-> generated + 1, id |-> generated + 1,
                     deadline |-> (Now + d) % DeadlineWord, carries |-> {}, appended |-> 0])
  BY DEF SendPacket
<1>3. PICK n, dl : n = generated /\ dl = (Now + d) % DeadlineWord
  OBVIOUS
<1>4. n \in Nat /\ dl \in Nat
  <2>1. Now + d \in Nat /\ DeadlineWord \in Nat \ {0}
    BY <1>1, AggregationAssumption
  <2>2. (Now + d) % DeadlineWord \in 0 .. DeadlineWord - 1
    BY <2>1, Division
  <2>3. \A k \in 0 .. DeadlineWord - 1 : k \in Nat
    BY <2>1
  <2> QED BY <1>1, <1>3, <2>2, <2>3
<1> DEFINE fresh == [uid |-> n + 1, id |-> n + 1, deadline |-> dl,
                     carries |-> {}, appended |-> 0]
<1>5. PICK q : q = Retained
  OBVIOUS
<1>6. /\ q \in Seq(QueueEntry) /\ OnceQueued(q)
      /\ Ids(q) \subseteq Ids(m_queue) /\ Len(m_queue) - Len(q) \in Nat
  BY <1>1, <1>5, RetainedQueue
<1>7. fresh.id = n + 1
  OBVIOUS
<1>8. PICK leaves, merges :
        /\ m_dropped' = m_dropped + Len(m_queue) - Len(q)
        /\ m_queue' = IF merges THEN ForOthers(q) ELSE q
        /\ taken' = taken + Len(IF merges THEN ForSink(q) ELSE <<>>)
        /\ IF leaves
           THEN /\ onAir' = onAir \cup {Merged(fresh, IF merges THEN ForSink(q) ELSE <<>>)}
                /\ UNCHANGED loopback
                /\ gone' = gone \cup (Ids(m_queue) \ Ids(q)) \cup {fresh.id}
                             \cup Ids(IF merges THEN ForSink(q) ELSE <<>>)
           ELSE /\ loopback' = Append(loopback,
                                 Merged(fresh, IF merges THEN ForSink(q) ELSE <<>>))
                /\ UNCHANGED onAir
                /\ gone' = gone \cup (Ids(m_queue) \ Ids(q))
  <2>1. RouteOutput(fresh)
    BY <1>2, <1>3
  <2> HIDE DEF fresh
  <2>2. PICK l \in DataAggregation(q) :
         LET merges == l /\ Merges
             out == IF merges THEN ForSink(q) ELSE <<>>
         IN  /\ m_dropped' = m_dropped + Len(m_queue) - Len(q)
             /\ m_queue' = IF merges THEN ForOthers(q) ELSE q
             /\ taken' = taken + Len(out)
             /\ LET late == Ids(m_queue) \ Ids(q) IN
                  IF l /\ hasRoute
                  THEN /\ onAir' = onAir \cup {Merged(fresh, out)} /\ UNCHANGED loopback
                       /\ gone' = gone \cup late \cup {fresh.id} \cup Ids(out)
                  ELSE /\ loopback' = Append(loopback, Merged(fresh, out))
                       /\ UNCHANGED onAir
                       /\ gone' = gone \cup late
    BY <1>5, <2>1 DEF RouteOutput
  <2>3. PICK leaves, merges : leaves = (l /\ hasRoute) /\ merges = (l /\ Merges)
    OBVIOUS
  <2> QED BY <2>2, <2>3
<1>9. PICK out, rest : /\ out = IF merges THEN ForSink(q) ELSE <<>>
                       /\ rest = IF merges THEN ForOthers(q) ELSE q
  OBVIOUS
<1>10. PICK p : p = Merged(fresh, out)
  OBVIOUS
<1>11. /\ out \in Seq(QueueEntry) /\ rest \in Seq(QueueEntry)
       /\ OnceQueued(rest) /\ Len(out) + Len(rest) = Len(q)
       /\ Ids(out) \cup Ids(rest) = Ids(q) /\ Ids(out) \cap Ids(rest) = {}
  <2>1. CASE merges
    BY <1>6, <1>9, <2>1, Dequeued
  <2>2. CASE ~merges
    <3>1. out = <<>> /\ rest = q
      BY <1>9, <2>2
    <3>2. Ids(out) = {} /\ Len(out) = 0 /\ Len(q) \in Nat
      BY <1>6, <3>1 DEF Ids
    <3> QED BY <1>6, <3>1, <3>2
  <2> QED BY <2>1, <2>2
<1>12. p \in Packet /\ p.id = n + 1 /\ p.uid = n + 1 /\ p.carries = Ids(out)
  BY <1>4, <1>10, <1>11, MergedPacket
<1> HIDE DEF fresh
<1>13. /\ m_dropped' = m_dropped + Len(m_queue) - Len(q) /\ m_queue' = rest
       /\ taken' = taken + Len(out)
       /\ \/ /\ onAir' = onAir \cup {p} /\ UNCHANGED loopback
             /\ gone' = gone \cup (Ids(m_queue) \ Ids(q)) \cup {p.id} \cup Ids(out)
          \/ /\ loopback' = Append(loopback, p) /\ UNCHANGED onAir
             /\ gone' = gone \cup (Ids(m_queue) \ Ids(q))
  BY <1>7, <1>8, <1>9, <1>10, <1>12
<1>14. generated' = generated + 1 /\ UNCHANGED <<m_hash, made>>
  BY DEF SendPacket
<1>15. SentWith(p, q, out, rest)
  BY <1>3, <1>6, <1>11, <1>12, <1>13, <1>14 DEF SentWith
<1> QED BY <1>15

\* A measurement sent leaves every other in its place, or in a better one.
LEMMA SendPacketKeeps ==
  ASSUME IInv, SendPacket
  PROVE  IInv'
<1>1. PICK p, q, out, rest : SentWith(p, q, out, rest)
  BY SendPacketEffect
<1>2. /\ DataTypes /\ PlaceInv /\ UidInv /\ Accounts
      /\ generated \in Nat /\ generated' = generated + 1
  BY <1>1 DEF IInv, DataTypes, SentWith
<1>3. ControlInv'
  <2>1. step' \in 0 .. StepCap
    <3>1. step \in 0 .. StepCap
      BY DEF IInv, ControlInv
    <3>2. \E pkt : RouteOutput(pkt)
      BY DEF SendPacket
    <3>3. step' = IF policy = "OPT" /\ step < StepCap THEN step + 1 ELSE step
      BY <3>2 DEF RouteOutput
    <3> QED BY <3>1, <3>3 DEF StepCap
  <2> QED BY <2>1 DEF SendPacket, IInv, ControlInv, control
<1>4. /\ Own(p) = {generated + 1} \cup Ids(out) /\ p.id \notin p.carries
      /\ generated + 1 \notin Ids(m_queue) \cup Carried(loopback) \cup gone
  <2>1. generated + 1 \notin 1 .. generated
    BY <1>2
  <2>2. Ids(m_queue) \cup Carried(loopback) \cup gone = 1 .. generated
    BY <1>2 DEF PlaceInv
  <2>3. generated + 1 # 0 /\ 0 \notin Ids(out)
    BY <1>2 DEF Ids
  <2> QED BY <1>1, <2>1, <2>2, <2>3 DEF SentWith, Own
<1>5. Ids(out) \subseteq Ids(m_queue) /\ Ids(rest) \subseteq Ids(m_queue)
      /\ Ids(out) \cap Ids(rest) = {} /\ Ids(out) \cup Ids(rest) = Ids(q)
      /\ Ids(q) \subseteq Ids(m_queue)
  BY <1>1 DEF SentWith
<1>6. p.uid \notin UidsOf(loopback) \cup HashUids /\ 0 - Round <= p.uid
      /\ p.uid = generated + 1
  <2>1. Round \in Nat
    BY DEF IInv, ControlInv
  <2>2. p.uid = generated + 1
    BY <1>1 DEF SentWith
  <2>3. \A u \in UidsOf(loopback) \cup HashUids : u <= generated
    <3>1. UidsOf(loopback) \cup HashUids \subseteq (0 - Round) .. generated
      BY <1>2 DEF UidInv
    <3>2. \A u \in (0 - Round) .. generated : u <= generated
      BY <1>2, <2>1
    <3> QED BY <3>1, <3>2
  <2> QED BY <1>2, <2>1, <2>2, <2>3
<1>7. 1 .. generated + 1 = (1 .. generated) \cup {generated + 1}
  BY <1>2
<1>8. /\ m_queue' = rest /\ OnceQueued(rest) /\ p \in Packet
      /\ rest \in Seq(QueueEntry) /\ UNCHANGED m_hash
      /\ p.id = generated + 1
  BY <1>1 DEF SentWith
<1>9. Round' = Round /\ timer' = timer /\ Round \in Nat
  BY DEF SendPacket, control, IInv, ControlInv
<1>10. Accounts'
  <2>1. /\ Len(m_queue) \in Nat /\ Len(q) \in Nat /\ Len(out) \in Nat /\ Len(rest) \in Nat
        /\ Len(out) + Len(rest) = Len(q) /\ taken' = taken + Len(out)
        /\ m_dropped' = m_dropped + Len(m_queue) - Len(q) /\ made' = made
    BY <1>1, <1>2 DEF SentWith, DataTypes
  <2>2. m_dropped \in Nat /\ taken \in Nat /\ made = Len(m_queue) + m_dropped + taken
    BY <1>2 DEF DataTypes, Accounts
  <2> QED BY <1>8, <2>1, <2>2 DEF Accounts
<1>11. generated' \in Nat /\ m_dropped' \in Nat /\ made' \in Nat /\ taken' \in Nat
  <2>1. /\ Len(m_queue) - Len(q) \in Nat /\ Len(out) \in Nat /\ taken' = taken + Len(out)
        /\ Len(m_queue) \in Nat /\ Len(q) \in Nat
        /\ m_dropped' = m_dropped + Len(m_queue) - Len(q) /\ made' = made
    BY <1>1, <1>2 DEF SentWith, DataTypes
  <2> QED BY <1>2, <2>1 DEF DataTypes
<1>12. CASE /\ onAir' = onAir \cup {p} /\ UNCHANGED loopback
            /\ gone' = gone \cup (Ids(m_queue) \ Ids(q)) \cup {p.id} \cup Ids(out)
  <2>1. DataTypes'
    BY <1>2, <1>8, <1>11, <1>12 DEF DataTypes
  <2>2. PlaceInv'
    <3>1. /\ OnceCarried(loopback) /\ Ids(m_queue) \cap Carried(loopback) = {}
          /\ gone \cap (Ids(m_queue) \cup Carried(loopback)) = {}
          /\ Ids(m_queue) \cup Carried(loopback) \cup gone = 1 .. generated
      BY <1>2 DEF PlaceInv
    <3>2. Ids(rest) \cap Carried(loopback) = {}
      BY <1>5, <3>1
    <3>3. gone' \cap (Ids(rest) \cup Carried(loopback)) = {}
      BY <1>4, <1>5, <1>8, <1>12, <3>1
    <3>4. Ids(rest) \cup Carried(loopback) \cup gone' = 1 .. generated + 1
      BY <1>5, <1>7, <1>8, <1>12, <3>1
    <3> QED BY <1>2, <1>8, <1>12, <3>1, <3>2, <3>3, <3>4 DEF PlaceInv
  <2>3. UidInv'
    <3>1. HashUids' = HashUids
      BY <1>8 DEF HashUids
    <3>2. UidsOf(loopback) \cup HashUids \subseteq (0 - Round) .. generated
      BY <1>2 DEF UidInv
    <3>3. (0 - Round) .. generated \subseteq (0 - Round) .. generated + 1
      BY <1>2, <1>9
    <3>4. UidsOf(loopback) \cup HashUids \subseteq (0 - Round) .. generated + 1
      BY <3>2, <3>3
    <3> QED BY <1>2, <1>8, <1>9, <1>12, <3>1, <3>4 DEF UidInv
  <2> QED BY <1>3, <1>10, <2>1, <2>2, <2>3 DEF IInv
<1>13. CASE /\ loopback' = Append(loopback, p) /\ UNCHANGED onAir
            /\ gone' = gone \cup (Ids(m_queue) \ Ids(q))
  <2>0. /\ OnceCarried(loopback) /\ Ids(m_queue) \cap Carried(loopback) = {}
        /\ gone \cap (Ids(m_queue) \cup Carried(loopback)) = {}
        /\ Ids(m_queue) \cup Carried(loopback) \cup gone = 1 .. generated
        /\ loopback \in Seq(Packet) /\ OnceByUid(loopback)
    BY <1>2 DEF PlaceInv, DataTypes, UidInv
  <2>1. Own(p) \cap Carried(loopback) = {}
    BY <1>4, <1>5, <2>0
  <2>2. /\ loopback' \in Seq(Packet) /\ OnceCarried(loopback')
        /\ Carried(loopback') = Carried(loopback) \cup Own(p)
        /\ UidsOf(loopback') = UidsOf(loopback) \cup {p.uid} /\ OnceByUid(loopback')
    BY <1>4, <1>6, <1>8, <1>13, <2>0, <2>1, JoinedPacket
  <2>3. DataTypes'
    BY <1>2, <1>8, <1>11, <1>13, <2>2 DEF DataTypes
  <2>4. PlaceInv'
    <3>1. Ids(rest) \cap Carried(loopback') = {}
      BY <1>4, <1>5, <2>0, <2>2
    <3>2. gone' \cap (Ids(rest) \cup Carried(loopback')) = {}
      BY <1>4, <1>5, <1>13, <2>0, <2>2
    <3>3. Ids(rest) \cup Carried(loopback') \cup gone' = 1 .. generated + 1
      BY <1>4, <1>5, <1>7, <1>13, <2>0, <2>2
    <3> QED BY <1>2, <1>8, <2>2, <3>1, <3>2, <3>3 DEF PlaceInv
  <2>5. UidInv'
    <3>1. HashUids' = HashUids
      BY <1>8 DEF HashUids
    <3>2. UidsOf(loopback) \cup HashUids \subseteq (0 - Round) .. generated
      BY <1>2 DEF UidInv
    <3>3. /\ (0 - Round) .. generated \subseteq (0 - Round) .. generated + 1
          /\ p.uid \in (0 - Round) .. generated + 1
      BY <1>2, <1>6, <1>9
    <3>4. UidsOf(loopback') \cup HashUids \subseteq (0 - Round) .. generated + 1
      BY <2>2, <3>2, <3>3
    <3>5. timer # "OFF" => 0 - Round \notin UidsOf(loopback') \cup HashUids
      <4>1. 0 - Round # p.uid
        BY <1>2, <1>6 DEF IInv, ControlInv
      <4> QED BY <1>2, <2>2, <4>1 DEF UidInv
    <3>6. UidsOf(loopback') \cap HashUids = {}
      BY <1>2, <1>6, <2>2 DEF UidInv
    <3> QED BY <1>2, <1>8, <1>9, <2>2, <3>1, <3>4, <3>5, <3>6 DEF UidInv
  <2> QED BY <1>3, <1>10, <2>3, <2>4, <2>5 DEF IInv
<1> QED BY <1>1, <1>12, <1>13 DEF SentWith

-----------------------------------------------------------------------------
(* A packet comes back from the loopback device *)

\* Its own measurement moves into the queue, those appended to it are gone.
LEMMA EnqueuePacketKeeps ==
  ASSUME IInv, EnqueuePacket
  PROVE  IInv'
<1>1. PICK p : p = Head(loopback)
  OBVIOUS
<1>2. PICK far \in MayBeFar(p) :
        /\ m_queue' = m_queue \o DeAggregate(p, far)
        /\ made' = made + Reads(Size(p))
        /\ m_hash' = m_hash \cup {[uid |-> p.uid, left |-> Left(Size(p))]}
        /\ gone' = gone \cup p.carries
  BY <1>1 DEF EnqueuePacket
<1>3. PICK r : r = DeAggregate(p, far)
  OBVIOUS
<1>4. /\ loopback # <<>> /\ loopback' = Tail(loopback)
      /\ UNCHANGED <<policy, fits, Now, control, generated, m_dropped, step, taken, onAir>>
  BY DEF EnqueuePacket
<1>5. DataTypes /\ PlaceInv /\ UidInv /\ Accounts /\ ControlInv
  BY DEF IInv
<1>6. /\ m_queue \in Seq(QueueEntry) /\ loopback \in Seq(Packet)
      /\ OnceCarried(loopback) /\ OnceByUid(loopback) /\ OnceQueued(m_queue)
  BY <1>5 DEF DataTypes, PlaceInv, UidInv
<1>7. /\ p \in Packet /\ loopback' \in Seq(Packet)
      /\ Carried(loopback) = Carried(loopback') \cup Own(p)
      /\ UidsOf(loopback) = UidsOf(loopback') \cup {p.uid}
      /\ OnceCarried(loopback') /\ Own(p) \cap Carried(loopback') = {}
      /\ p.id \notin p.carries
      /\ OnceByUid(loopback') /\ p.uid \notin UidsOf(loopback')
  BY <1>1, <1>4, <1>6, LeftPacket
<1>8. /\ r \in Seq(QueueEntry) /\ Len(r) = Reads(Size(p))
      /\ Ids(r) = {p.id} \ {0} /\ OnceQueued(r)
  BY <1>3, <1>7, Pieces
<1>9. Own(p) = Ids(r) \cup p.carries /\ Ids(r) \cap p.carries = {}
  <2>1. 0 \notin p.carries
    BY <1>7 DEF Packet
  <2> QED BY <1>7, <1>8, <2>1 DEF Own
<1>10. /\ Ids(m_queue) \cap Carried(loopback) = {}
       /\ gone \cap (Ids(m_queue) \cup Carried(loopback)) = {}
       /\ Ids(m_queue) \cup Carried(loopback) \cup gone = 1 .. generated
  BY <1>5 DEF PlaceInv
<1>11. Ids(m_queue) \cap Ids(r) = {}
  BY <1>7, <1>9, <1>10
<1>12. /\ m_queue' \in Seq(QueueEntry) /\ Len(m_queue') = Len(m_queue) + Len(r)
       /\ Ids(m_queue') = Ids(m_queue) \cup Ids(r) /\ OnceQueued(m_queue')
  <2>1. m_queue' = m_queue \o r
    BY <1>2, <1>3
  <2> QED BY <1>6, <1>8, <1>11, <2>1, JoinedQueue
<1>13. gone' = gone \cup p.carries
  BY <1>2
<1>14. PlaceInv'
  <2>1. Ids(m_queue') \cap Carried(loopback') = {}
    BY <1>7, <1>9, <1>10, <1>12
  <2>2. gone' \cap (Ids(m_queue') \cup Carried(loopback')) = {}
    BY <1>7, <1>9, <1>10, <1>12, <1>13
  <2>3. Ids(m_queue') \cup Carried(loopback') \cup gone' = 1 .. generated
    BY <1>7, <1>9, <1>10, <1>12, <1>13
  <2> QED BY <1>4, <1>7, <1>12, <2>1, <2>2, <2>3 DEF PlaceInv
<1>15. PICK rest : rest = [uid |-> p.uid, left |-> Left(Size(p))]
  OBVIOUS
<1>16. /\ m_hash' = m_hash \cup {rest} /\ rest.uid = p.uid
       /\ rest \in [uid : Int, left : 0 .. Unit - 1]
  <2>1. Left(Size(p)) \in 0 .. Unit - 1 /\ p.uid \in Int
    BY <1>7, PacketSize, Cutting DEF Packet
  <2> QED BY <1>2, <1>15, <2>1
<1>17. HashUids' = HashUids \cup {p.uid}
  BY <1>16 DEF HashUids
<1>18. UidInv'
  <2>1. /\ UidsOf(loopback) \cap HashUids = {}
        /\ UidsOf(loopback) \cup HashUids \subseteq (0 - Round) .. generated
        /\ timer # "OFF" => 0 - Round \notin UidsOf(loopback) \cup HashUids
        /\ \A g, h \in m_hash : g.uid = h.uid => g = h
    BY <1>5 DEF UidInv
  <2>2. UidsOf(loopback') \cap HashUids' = {}
    BY <1>7, <1>17, <2>1
  <2>3. UidsOf(loopback') \cup HashUids' = UidsOf(loopback) \cup HashUids
    BY <1>7, <1>17
  <2>4. \A g, h \in m_hash' : g.uid = h.uid => g = h
    <3>1. \A h \in m_hash : h.uid # rest.uid
      BY <1>7, <1>16, <2>1 DEF HashUids
    <3> QED BY <1>16, <2>1, <3>1
  <2>5. Round' = Round /\ timer' = timer
    BY <1>4 DEF control
  <2> QED BY <1>4, <1>7, <2>1, <2>2, <2>3, <2>4, <2>5 DEF UidInv
<1>19. made' = made + Len(r) /\ Len(r) \in Nat
  BY <1>2, <1>8
<1>20. Accounts'
  <2>1. /\ Len(m_queue) \in Nat /\ m_dropped \in Nat /\ taken \in Nat
        /\ made = Len(m_queue) + m_dropped + taken
    BY <1>5 DEF DataTypes, Accounts
  <2> QED BY <1>4, <1>12, <1>19, <2>1 DEF Accounts
<1>21. DataTypes'
  <2>1. made' \in Nat
    BY <1>5, <1>19 DEF DataTypes
  <2>2. m_hash' \subseteq [uid : Int, left : 0 .. Unit - 1]
    BY <1>5, <1>16 DEF DataTypes
  <2> QED BY <1>4, <1>5, <1>7, <1>12, <2>1, <2>2 DEF DataTypes
<1>22. ControlInv'
  BY <1>4, <1>5 DEF ControlInv, control
<1> QED BY <1>14, <1>18, <1>20, <1>21, <1>22 DEF IInv

-----------------------------------------------------------------------------
(* The control plane *)

\* A round's control packet has the round's uid; the timer that sends it is
\* stopped, so that there is no second one.
LEMMA ControlKeeps ==
  ASSUME IInv, NEW routed, timer # "OFF", timer' = "OFF", UNCHANGED Round,
         RouteOutputControl(0 - Round, routed)
  PROVE  DataTypes' /\ PlaceInv' /\ UidInv' /\ Accounts'
<1>1. PICK uid : uid = 0 - Round
  OBVIOUS
<1>2. /\ DataTypes /\ PlaceInv /\ UidInv /\ Accounts
      /\ Round \in Nat /\ generated \in Nat /\ uid \in Int
  BY <1>1 DEF IInv, ControlInv, DataTypes
<1>3. PICK p : p = Control(uid)
  OBVIOUS
<1>4. /\ loopback' = loopback \/ loopback' = Append(loopback, p)
      /\ UNCHANGED <<generated, m_queue, m_hash, m_dropped, step, made, taken, gone, onAir>>
  BY <1>1, <1>3 DEF RouteOutputControl
<1>5. p \in Packet /\ Own(p) = {} /\ p.uid = uid /\ p.id \notin p.carries
  BY <1>2, <1>3, ControlPacket
<1>6. /\ uid \notin UidsOf(loopback) \cup HashUids /\ uid \in (0 - Round) .. generated
  BY <1>1, <1>2 DEF UidInv
<1>7. /\ loopback \in Seq(Packet) /\ OnceCarried(loopback) /\ OnceByUid(loopback)
  BY <1>2 DEF DataTypes, PlaceInv, UidInv
<1>8. /\ loopback' \in Seq(Packet) /\ OnceCarried(loopback') /\ OnceByUid(loopback')
      /\ Carried(loopback') = Carried(loopback)
      /\ UidsOf(loopback') \subseteq UidsOf(loopback) \cup {uid}
  <2>1. CASE loopback' = loopback
    BY <1>7, <2>1
  <2>2. CASE loopback' = Append(loopback, p)
    <3>1. /\ loopback' \in Seq(Packet) /\ Carried(loopback') = Carried(loopback) \cup Own(p)
          /\ UidsOf(loopback') = UidsOf(loopback) \cup {p.uid}
          /\ OnceCarried(loopback') /\ OnceByUid(loopback')
      BY <1>5, <1>6, <1>7, <2>2, JoinedPacket
    <3> QED BY <1>5, <3>1
  <2> QED BY <1>4, <2>1, <2>2
<1>9. DataTypes'
  BY <1>2, <1>4, <1>8 DEF DataTypes
<1>10. PlaceInv'
  BY <1>2, <1>4, <1>8 DEF PlaceInv
<1>11. UidInv'
  <2>1. HashUids' = HashUids
    BY <1>4 DEF HashUids
  <2>2. /\ UidsOf(loopback) \cap HashUids = {}
        /\ UidsOf(loopback) \cup HashUids \subseteq (0 - Round) .. generated
        /\ \A g, h \in m_hash : g.uid = h.uid => g = h
    BY <1>2 DEF UidInv
  <2>3. UidsOf(loopback') \cap HashUids = {}
        /\ UidsOf(loopback') \cup HashUids \subseteq (0 - Round) .. generated
    BY <1>6, <1>8, <2>2
  <2> QED BY <1>4, <1>8, <2>1, <2>2, <2>3 DEF UidInv
<1>12. Accounts'
  BY <1>2, <1>4 DEF Accounts
<1> QED BY <1>9, <1>10, <1>11, <1>12

\* A new round has a new uid.
LEMMA PeriodicUpdateKeeps ==
  ASSUME IInv, PeriodicUpdate
  PROVE  IInv'
<1>1. Round \in Nat /\ Round' = Round + 1 /\ UNCHANGED <<policy, fits, Now, data, onAir>>
  BY DEF IInv, ControlInv, PeriodicUpdate
<1>2. UidInv'
  <2>1. UNCHANGED <<generated, m_hash, loopback>>
    BY <1>1 DEF data
  <2>2. UNCHANGED <<UidsOf(loopback), HashUids>>
    BY <2>1 DEF UidsOf, HashUids
  <2>3. UidsOf(loopback) \cup HashUids \subseteq (0 - Round) .. generated
    BY DEF IInv, UidInv
  <2>4. /\ (0 - Round) .. generated \subseteq (0 - (Round + 1)) .. generated
        /\ 0 - (Round + 1) \notin (0 - Round) .. generated
    BY <1>1 DEF IInv, DataTypes
  <2>5. OnceByUid(loopback) /\ (\A g, h \in m_hash : g.uid = h.uid => g = h)
        /\ UidsOf(loopback) \cap HashUids = {}
    BY DEF IInv, UidInv
  <2> QED BY <1>1, <2>1, <2>2, <2>3, <2>4, <2>5 DEF UidInv
<1>3. ControlInv'
  <2>1. PICK head \in {FALSE, valid \/ Round % CycleLen = 0} :
          /\ clusterHeadThisRound' = head
          /\ valid' = ((valid \/ Round % CycleLen = 0) /\ ~head)
          /\ timer' \in IF head THEN {"ADVERT"} ELSE {"OFF", IF fits THEN "JOIN" ELSE "OFF"}
    BY DEF PeriodicUpdate
  <2>2. step' = step /\ hasRoute' = FALSE
    BY <1>1 DEF data, PeriodicUpdate
  <2>3. head \in BOOLEAN
    OBVIOUS
  <2>4. timer' \in {"ADVERT", "JOIN", "OFF"} /\ (timer' = "ADVERT" => clusterHeadThisRound')
    BY <2>1, <2>3
  <2>5. valid' \in BOOLEAN
    BY <2>1
  <2>6. /\ policy' \in Policies /\ fits' \in BOOLEAN /\ Now' \in 0 .. TotalTime
        /\ Round' \in Nat /\ step' \in 0 .. StepCap
    BY <1>1, <2>2 DEF ControlInv, IInv
  <2>7. clusterHeadThisRound' \in BOOLEAN
    BY <2>1, <2>3
  <2>8. hasRoute' \in BOOLEAN /\ (hasRoute' => clusterHeadThisRound')
    BY <2>2
  <2> QED BY <2>4, <2>5, <2>6, <2>7, <2>8 DEF ControlInv
<1>4. DataTypes' /\ PlaceInv' /\ Accounts'
  <2>1. DataTypes'
    BY <1>1 DEF IInv, DataTypes, data
  <2>2. PlaceInv'
    <3>1. UNCHANGED <<generated, m_queue, loopback, gone>>
      BY <1>1 DEF data
    <3> QED BY <3>1 DEF IInv, PlaceInv, OnceQueued, OnceCarried, Ids, Carried, Own
  <2>3. Accounts'
    BY <1>1 DEF IInv, Accounts, data
  <2> QED BY <2>1, <2>2, <2>3
<1> QED BY <1>2, <1>3, <1>4 DEF IInv

-----------------------------------------------------------------------------
\* Steps that leave the data and the control plane alone.
LEMMA OthersKeep ==
  ASSUME IInv, UNCHANGED <<policy, fits, control, generated, m_queue, m_hash, loopback,
                           m_dropped, made, taken, gone>>,
         Now' \in 0 .. TotalTime, step' \in 0 .. StepCap, onAir' \subseteq onAir
  PROVE  IInv'
<1>1. ControlInv'
  BY DEF IInv, ControlInv, control
<1>2. DataTypes' /\ Accounts'
  BY DEF IInv, DataTypes, Accounts
<1>3. PlaceInv'
  BY DEF IInv, PlaceInv, OnceQueued, OnceCarried, Ids, Carried, Own
<1>4. UidInv'
  <2>1. UNCHANGED <<UidsOf(loopback), HashUids, Round, timer>>
    BY DEF UidsOf, HashUids, control
  <2>2. UidInv
    BY DEF IInv
  <2> QED BY <2>1, <2>2 DEF UidInv, OnceByUid
<1> QED BY <1>1, <1>2, <1>3, <1>4 DEF IInv

\* Every action keeps the invariant.
LEMMA NextIInv == IInv /\ [Next]_vars => IInv'
<1> SUFFICES ASSUME IInv, [Next]_vars PROVE IInv'
  OBVIOUS
<1>0. Now \in 0 .. TotalTime /\ step \in 0 .. StepCap
  BY DEF IInv, ControlInv
<1>1. CASE SendPacket
  BY <1>1, SendPacketKeeps
<1>2. CASE EnqueuePacket
  BY <1>2, EnqueuePacketKeeps
<1>3. CASE OtherNodeDecides
  <2>1. step' \in 0 .. StepCap
    BY <1>0, <1>3 DEF OtherNodeDecides, StepCap
  <2> QED BY <1>0, <1>3, <2>1, OthersKeep DEF OtherNodeDecides
<1>4. CASE PeriodicUpdate
  BY <1>4, PeriodicUpdateKeeps
<1>5. CASE SendBroadcast
  <2>1. DataTypes' /\ PlaceInv' /\ UidInv' /\ Accounts'
    BY <1>5, ControlKeeps DEF SendBroadcast
  <2>2. ControlInv'
    BY <1>5 DEF IInv, ControlInv, SendBroadcast, RouteOutputControl
  <2> QED BY <2>1, <2>2 DEF IInv
<1>6. CASE RespondToClusterHead
  <2>1. DataTypes' /\ PlaceInv' /\ UidInv' /\ Accounts'
    BY <1>6, ControlKeeps DEF RespondToClusterHead
  <2>2. ControlInv'
    BY <1>6 DEF IInv, ControlInv, RespondToClusterHead, RouteOutputControl
  <2> QED BY <2>1, <2>2 DEF IInv
<1>7. ASSUME NEW p \in onAir, Leave(p) PROVE IInv'
  BY <1>0, <1>7, OthersKeep DEF Leave, data
<1>8. CASE Tick
  <2>1. Now' \in 0 .. TotalTime
    <3>1. Now' = Now + 1 /\ Now < TotalTime
      BY <1>8 DEF Tick
    <3> QED BY <1>0, <3>1, AggregationAssumption
  <2> QED BY <1>0, <1>8, <2>1, OthersKeep DEF Tick, data
<1>9. CASE UNCHANGED vars
  BY <1>0, <1>9, OthersKeep DEF vars, data
<1> QED BY <1>1, <1>2, <1>3, <1>4, <1>5, <1>6, <1>7, <1>8, <1>9 DEF Next

\* Nothing has been generated at the start.
LEMMA InitIInv == Init => IInv
<1> SUFFICES ASSUME Init PROVE IInv
  OBVIOUS
<1>1. ControlInv
  <2>1. Now \in 0 .. TotalTime /\ step \in 0 .. StepCap /\ Round \in Nat
    BY AggregationAssumption DEF Init, StepCap
  <2>2. /\ policy \in Policies /\ fits \in BOOLEAN
        /\ clusterHeadThisRound \in BOOLEAN /\ valid \in BOOLEAN
        /\ timer \in {"ADVERT", "JOIN", "OFF"} /\ hasRoute \in BOOLEAN
        /\ ~hasRoute /\ timer # "ADVERT"
    BY DEF Init
  <2> QED BY <2>1, <2>2 DEF ControlInv
<1>2. DataTypes /\ Accounts
  BY DEF Init, DataTypes, Accounts
<1>3. Ids(m_queue) = {} /\ Carried(loopback) = {} /\ 1 .. generated = {}
  BY DEF Init, Ids, Carried
<1>4. PlaceInv
  BY <1>3 DEF Init, PlaceInv, OnceQueued, OnceCarried
<1>5. UidInv
  BY DEF Init, UidInv, OnceByUid, UidsOf, HashUids
<1> QED BY <1>1, <1>2, <1>4, <1>5 DEF IInv

-----------------------------------------------------------------------------
(* What is promised *)

\* The measurements in the loopback device, as the properties name them.
LEMMA LoopbackIdsCarried ==
  ASSUME loopback \in Seq(Packet)
  PROVE  LoopbackIds = Carried(loopback)
<1>1. \A x : x \in Carried(loopback) <=>
        \E i \in DOMAIN loopback : x \in {loopback[i].id} \cup loopback[i].carries /\ x # 0
  BY DEF Carried, Own
<1>2. \A x : x \in LoopbackIds <=>
        \E p \in Range(loopback) : x \in {p.id} \cup p.carries /\ x # 0
  BY DEF LoopbackIds
<1>3. Range(loopback) = {loopback[i] : i \in DOMAIN loopback}
  BY DEF Range
<1> QED BY <1>1, <1>2, <1>3

\* Every variable keeps its type, and only a head has a route to the sink.
THEOREM TypesKept == Spec => []TypeOK
<1>1. IInv => TypeOK
  <2> SUFFICES ASSUME IInv PROVE TypeOK
    OBVIOUS
  <2>1. \A p \in onAir \cup Range(loopback) : p \in Packet
    BY DEF IInv, DataTypes, Range
  <2>2. gone \subseteq 1 .. generated
    BY DEF IInv, PlaceInv
  <2>3. {generated, m_dropped, made, taken} \subseteq Nat /\ m_queue \in Seq(QueueEntry)
        /\ m_hash \subseteq [uid : Int, left : 0 .. Unit - 1]
    BY DEF IInv, DataTypes
  <2>4. ControlInv
    BY DEF IInv
  <2> QED BY <2>1, <2>2, <2>3, <2>4 DEF TypeOK, ControlInv
<1> QED BY <1>1, InitIInv, NextIInv, PTL DEF Spec

\* The queue's accounts agree, no uid has two rests and no measurement waits
\* twice, for any sizes, deadlines and intervals and under every policy.
THEOREM AccountsAgree == Spec => []Conservation
<1>1. IInv => Conservation
  <2> SUFFICES ASSUME IInv PROVE Conservation
    OBVIOUS
  <2>0. DataTypes /\ PlaceInv /\ UidInv /\ Accounts
    BY DEF IInv
  <2>1. Ids(m_queue) \cap LoopbackIds = {}
    BY <2>0, LoopbackIdsCarried DEF DataTypes, PlaceInv
  <2>2. \A p \in Range(loopback) : \A h \in m_hash : p.uid # h.uid
    BY <2>0 DEF UidInv, UidsOf, HashUids, Range
  <2>3. Cardinality({i \in DOMAIN m_queue : m_queue[i].id # 0}) = Cardinality(Ids(m_queue))
    <3> DEFINE D == {i \in DOMAIN m_queue : m_queue[i].id # 0}
               f == [i \in D |-> m_queue[i].id]
    <3>1. f \in Bijection(D, Ids(m_queue))
      <4>1. f \in [D -> Ids(m_queue)]
        BY DEF Ids
      <4>2. \A i, j \in D : f[i] = f[j] => i = j
        BY <2>0 DEF PlaceInv, OnceQueued
      <4>3. \A x \in Ids(m_queue) : \E i \in D : f[i] = x
        BY DEF Ids
      <4> HIDE DEF D, f
      <4> QED BY <4>1, <4>2, <4>3 DEF Bijection, Injection, Surjection, IsInjective
    <3>2. IsFiniteSet(D)
      <4>1. Len(m_queue) \in Int /\ DOMAIN m_queue = 1 .. Len(m_queue) /\ 1 \in Int
        BY <2>0 DEF DataTypes
      <4>2. IsFiniteSet(DOMAIN m_queue)
        BY <4>1, FS_Interval
      <4>3. D \in SUBSET DOMAIN m_queue
        OBVIOUS
      <4> QED BY <4>2, <4>3, FS_Subset
    <3> HIDE DEF D, f
    <3>3. ExistsBijection(D, Ids(m_queue))
      BY <3>1 DEF ExistsBijection
    <3>4. Cardinality(Ids(m_queue)) = Cardinality(D)
      BY <3>2, <3>3, FS_Bijection
    <3> QED BY <3>4 DEF D
  <2> QED BY <2>0, <2>1, <2>2, <2>3 DEF Conservation, Accounts, UidInv
<1> QED BY <1>1, InitIInv, NextIInv, PTL DEF Spec

-----------------------------------------------------------------------------
HeldIds == Ids(m_queue) \cup LoopbackIds

HeldOrGone ==
  /\ HeldIds \cup gone = 1 .. generated /\ HeldIds \cap gone = {} /\ generated \in Nat

\* Every measurement that was taken is held or gone.
LEMMA HeldAndGone == IInv => HeldOrGone
<1> SUFFICES ASSUME IInv PROVE HeldOrGone
  OBVIOUS
<1>1. DataTypes /\ PlaceInv
  BY DEF IInv
<1>2. HeldIds = Ids(m_queue) \cup Carried(loopback) /\ generated \in Nat
  BY <1>1, LoopbackIdsCarried DEF HeldIds, DataTypes
<1> QED BY <1>1, <1>2 DEF PlaceInv, HeldOrGone

\* No step takes a measurement back.
LEMMA GoneStays ==
  ASSUME IInv, [Next]_vars
  PROVE  gone \subseteq gone' /\ generated' >= generated
<1>0. generated \in Nat
  BY DEF IInv, DataTypes
<1>1. CASE SendPacket
  <2>1. PICK p, q, out, rest : SentWith(p, q, out, rest)
    BY <1>1, SendPacketEffect
  <2> QED BY <1>0, <2>1 DEF SentWith
<1>2. CASE EnqueuePacket
  BY <1>0, <1>2 DEF EnqueuePacket
<1>3. CASE PeriodicUpdate
  BY <1>0, <1>3 DEF PeriodicUpdate, data
<1>4. CASE OtherNodeDecides \/ SendBroadcast \/ RespondToClusterHead
  BY <1>0, <1>4 DEF OtherNodeDecides, SendBroadcast, RespondToClusterHead, RouteOutputControl
<1>5. CASE (\E p \in onAir : Leave(p)) \/ Tick \/ UNCHANGED vars
  BY <1>0, <1>5 DEF Leave, Tick, vars, data
<1> QED BY <1>1, <1>2, <1>3, <1>4, <1>5 DEF Next

\* Aggregation keeps PacketCustody: a measurement waits in the queue or in the
\* loopback device until it is gone, and none comes back, under every policy.
THEOREM CustodyImplemented == Spec => CustodyKept
<1>1. Init => Custody!Init
  <2> SUFFICES ASSUME Init PROVE HeldIds = {} /\ gone = {}
    BY DEF Custody!Init, HeldIds
  <2>1. generated = 0 /\ gone = {}
    BY DEF Init
  <2>2. HeldIds \cup gone = 1 .. generated
    BY InitIInv, HeldAndGone DEF HeldOrGone
  <2> QED BY <2>1, <2>2
<1>2. IInv /\ [Next]_vars => [Custody!Next]_(Custody!vars)
  <2> SUFFICES ASSUME IInv, [Next]_vars
               PROVE  /\ HeldIds \cup gone \subseteq HeldIds' \cup gone'
                      /\ gone \subseteq gone'
                      /\ HeldIds' \cap gone' = {}
                      /\ HeldIds' \cup gone' \subseteq Nat
    BY DEF Custody!Next, Custody!vars, HeldIds
  <2>1. IInv'
    BY NextIInv
  <2>2. HeldOrGone /\ HeldOrGone'
    BY <2>1, HeldAndGone, PTL
  <2>3. gone \subseteq gone' /\ generated' >= generated
    BY GoneStays
  <2>4. 1 .. generated \subseteq 1 .. generated' /\ 1 .. generated' \subseteq Nat
    BY <2>2, <2>3 DEF HeldOrGone
  <2> QED BY <2>2, <2>3, <2>4 DEF HeldOrGone
<1> QED BY <1>1, <1>2, InitIInv, NextIInv, PTL DEF Spec, CustodyKept, Custody!Spec

-----------------------------------------------------------------------------
(* Deadlines *)

\* Only the application takes measurements.
LEMMA GeneratedOnlySent ==
  ASSUME IInv, Next, generated' > generated
  PROVE  SendPacket
<1>1. generated \in Nat
  BY DEF IInv, DataTypes
<1>2. ~UNCHANGED generated
  BY <1>1
<1> QED BY <1>2 DEF Next, EnqueuePacket, OtherNodeDecides, PeriodicUpdate, SendBroadcast,
      RespondToClusterHead, RouteOutputControl, Leave, Tick, data

\* What stays in the queue when a measurement is sent was retained in it.
LEMMA SendPacketQueue ==
  ASSUME IInv, SendPacket
  PROVE  /\ m_dropped' = m_dropped + Len(m_queue) - Len(Retained)
         /\ m_queue' = ForOthers(Retained) \/ m_queue' = Retained
         /\ Merges /\ DataAggregation(Retained) = {TRUE} => m_queue' = ForOthers(Retained)
<1>1. PICK p : RouteOutput(p)
  BY DEF SendPacket
<1>2. PICK leaves \in DataAggregation(Retained) :
        /\ m_dropped' = m_dropped + Len(m_queue) - Len(Retained)
        /\ m_queue' = IF leaves /\ Merges THEN ForOthers(Retained) ELSE Retained
  BY <1>1 DEF RouteOutput
<1>3. Merges /\ DataAggregation(Retained) = {TRUE} => m_queue' = ForOthers(Retained)
  BY <1>2
<1> QED BY <1>2, <1>3

\* The dropped entries are those whose deadline is over.
LEMMA FreshQueue ==
  ASSUME m_queue \in Seq(QueueEntry), Now \in Int
  PROVE  /\ Len(m_queue) - Len(Fresh) =
              Cardinality({i \in DOMAIN m_queue : m_queue[i].deadline < Now})
         /\ Fresh \in Seq(QueueEntry) /\ \A i \in DOMAIN Fresh : Fresh[i].deadline >= Now
<1> DEFINE I == {i \in DOMAIN m_queue : m_queue[i].deadline >= Now}
           late == {i \in DOMAIN m_queue : m_queue[i].deadline < Now}
<1>1. Fresh = Selected(m_queue, I)
  BY DEF Fresh
<1>2. PICK h \in [DOMAIN Fresh -> I \cap DOMAIN m_queue] :
        \A a \in DOMAIN Fresh : Fresh[a] = m_queue[h[a]]
  <2> HIDE DEF I
  <2> QED BY <1>1, SelectedPositions
<1>3. \A a \in DOMAIN Fresh : Fresh[a].deadline >= Now
  BY <1>2
<1>4. Fresh \in Seq(QueueEntry) /\ Len(Fresh) = Cardinality(I \cap DOMAIN m_queue)
      /\ IsFiniteSet(I \cap DOMAIN m_queue)
  <2> HIDE DEF I
  <2> QED BY <1>1, SelectedIds, SelectedLen
<1>5. Len(m_queue) \in Nat /\ DOMAIN m_queue = 1 .. Len(m_queue) /\ 1 \in Int
  OBVIOUS
<1>6. IsFiniteSet(DOMAIN m_queue) /\ Cardinality(DOMAIN m_queue) = Len(m_queue)
  <2>1. /\ IsFiniteSet(1 .. Len(m_queue))
        /\ Cardinality(1 .. Len(m_queue)) =
             IF 1 > Len(m_queue) THEN 0 ELSE Len(m_queue) - 1 + 1
    BY <1>5, FS_Interval
  <2> QED BY <1>5, <2>1
<1>7. late = DOMAIN m_queue \ I
  <2>1. \A i \in DOMAIN m_queue : m_queue[i] \in QueueEntry
    OBVIOUS
  <2>2. \A i \in DOMAIN m_queue : m_queue[i].deadline \in Nat
    BY <2>1 DEF QueueEntry
  <2>3. \A i \in DOMAIN m_queue : m_queue[i].deadline < Now <=> ~(m_queue[i].deadline >= Now)
    BY <2>2
  <2> QED BY <2>3
<1>8. Cardinality(DOMAIN m_queue \ I) = Cardinality(DOMAIN m_queue)
                                          - Cardinality(DOMAIN m_queue \cap I)
  <2> HIDE DEF I
  <2> QED BY <1>6, FS_Difference
<1>9. DOMAIN m_queue \cap I = I \cap DOMAIN m_queue
  OBVIOUS
<1>10. Len(Fresh) \in Nat
  BY <1>4
<1>11. Len(m_queue) - Len(Fresh) = Cardinality(late)
  <2> HIDE DEF I, late
  <2>1. Cardinality(late) = Len(m_queue) - Cardinality(I \cap DOMAIN m_queue)
    BY <1>6, <1>7, <1>8, <1>9
  <2> QED BY <1>4, <2>1
<1> QED BY <1>3, <1>4, <1>11

\* What is dropped is exactly what is late, under Proposal and ControlLimit, and
\* nothing late stays in the queue.
THEOREM DeadlinesObeyed == Spec => DeadlinesDecide
<1> DEFINE A == DropsLate /\ generated' > generated =>
                  /\ m_dropped' - m_dropped =
                       Cardinality({i \in DOMAIN m_queue : m_queue[i].deadline < Now})
                  /\ \A i \in DOMAIN m_queue' : m_queue'[i].deadline >= Now
<1>1. IInv /\ [Next]_vars => [A]_vars
  <2> SUFFICES ASSUME IInv, Next, DropsLate, generated' > generated
               PROVE  /\ m_dropped' - m_dropped =
                           Cardinality({i \in DOMAIN m_queue : m_queue[i].deadline < Now})
                      /\ \A i \in DOMAIN m_queue' : m_queue'[i].deadline >= Now
    OBVIOUS
  <2>1. SendPacket
    BY GeneratedOnlySent
  <2>2. m_queue \in Seq(QueueEntry) /\ m_dropped \in Nat /\ Now \in Int
    BY DEF IInv, DataTypes, ControlInv
  <2>3. Retained = Fresh
    BY DEF Retained
  <2>4. m_dropped' = m_dropped + Len(m_queue) - Len(Fresh)
        /\ (m_queue' = ForOthers(Fresh) \/ m_queue' = Fresh)
    BY <2>1, <2>3, SendPacketQueue
  <2>5. /\ Len(m_queue) - Len(Fresh) =
             Cardinality({i \in DOMAIN m_queue : m_queue[i].deadline < Now})
        /\ Fresh \in Seq(QueueEntry) /\ \A i \in DOMAIN Fresh : Fresh[i].deadline >= Now
    BY <2>2, FreshQueue
  <2>6. m_dropped' - m_dropped = Len(m_queue) - Len(Fresh)
    <3>1. Len(m_queue) \in Nat /\ Len(Fresh) \in Nat
      BY <2>2, <2>5
    <3> QED BY <2>2, <2>4, <3>1
  <2>7. \A i \in DOMAIN ForOthers(Fresh) : ForOthers(Fresh)[i].deadline >= Now
    <3> DEFINE O == {i \in DOMAIN Fresh : ~Fresh[i].toSink}
    <3>1. ForOthers(Fresh) = Selected(Fresh, O)
      BY DEF ForOthers
    <3> HIDE DEF O
    <3>2. PICK h \in [DOMAIN ForOthers(Fresh) -> O \cap DOMAIN Fresh] :
            \A a \in DOMAIN ForOthers(Fresh) : ForOthers(Fresh)[a] = Fresh[h[a]]
      BY <2>5, <3>1, SelectedPositions
    <3> QED BY <2>5, <3>2
  <2> QED BY <2>4, <2>5, <2>6, <2>7
<1> QED BY <1>1, InitIInv, NextIInv, PTL DEF Spec, DeadlinesDecide

-----------------------------------------------------------------------------
(* OptTM *)

\* A product grows with its factor.
LEMMA ProductGrows ==
  ASSUME NEW a \in Nat, NEW b \in Nat, NEW m \in Nat, a <= b
  PROVE  a * m <= b * m
<1>1. PICK c \in Nat : b = a + c
  <2>1. b - a \in Nat /\ b = a + (b - a)
    OBVIOUS
  <2> QED BY <2>1
<1>2. (a + c) * m = a * m + c * m
  OBVIOUS
<1>3. a * m \in Nat /\ c * m \in Nat
  BY Product
<1> QED BY <1>1, <1>2, <1>3

\* What is left of one deadline.
LeftOf(e, time) == IF e.deadline >= time THEN (e.deadline - time) * MsPerTick ELSE 0

\* No more is left of it later.
LEMMA LeftShrinks ==
  ASSUME NEW e \in QueueEntry, NEW s \in Nat, NEW t \in Nat, s <= t
  PROVE  LeftOf(e, s) \in Nat /\ LeftOf(e, t) \in Nat /\ LeftOf(e, t) <= LeftOf(e, s)
<1>1. MsPerTick \in Nat /\ e.deadline \in Nat
  BY AggregationAssumption DEF QueueEntry
<1>3. ASSUME NEW d \in Nat, NEW m \in Nat
      PROVE  LET L(x) == IF d >= x THEN (d - x) * m ELSE 0
             IN  L(s) \in Nat /\ L(t) \in Nat /\ L(t) <= L(s)
  <2>1. CASE d >= t
    <3>1. d >= s /\ d - t \in Nat /\ d - s \in Nat /\ d - t <= d - s
      BY <2>1
    <3> QED BY Product, ProductGrows, <2>1, <3>1
  <2>2. CASE ~(d >= t) /\ d >= s
    <3>1. d - s \in Nat
      BY <2>2
    <3> QED BY Product, <2>2, <3>1
  <2>3. CASE ~(d >= s)
    BY <2>3
  <2> QED BY <2>1, <2>2, <2>3
<1> QED BY <1>1, <1>3 DEF LeftOf

\* The sums of TimeLeft can be taken: there are some up to every entry.
LEMMA SumsExist ==
  ASSUME NEW q \in Seq(QueueEntry), NEW time
  PROVE  \E g : g = [n \in 0 .. Len(q) |->
                       IF n = 0 THEN 0 ELSE g[n - 1] + LeftOf(q[n], time)]
<1> DEFINE UpTo(g, n) == /\ g = [i \in 0 .. n |-> g[i]] /\ g[0] = 0
                         /\ \A i \in 1 .. n : g[i] = g[i - 1] + LeftOf(q[i], time)
           F == [n \in 0 .. Len(q) |-> \E g : UpTo(g, n)]
<1>0. Len(q) \in Nat
  OBVIOUS
<1>1. F[0]
  <2>1. UpTo([i \in 0 .. 0 |-> 0], 0)
    OBVIOUS
  <2>2. 0 \in 0 .. Len(q)
    BY <1>0
  <2> HIDE DEF UpTo
  <2> QED BY <2>1, <2>2
<1>2. ASSUME NEW n \in 0 .. Len(q) - 1, F[n] PROVE F[n + 1]
  <2>1. PICK g : UpTo(g, n)
    BY <1>0, <1>2
  <2> DEFINE h == [i \in 0 .. n + 1 |->
                     IF i = n + 1 THEN g[n] + LeftOf(q[n + 1], time) ELSE g[i]]
  <2>2. h = [i \in 0 .. n + 1 |-> h[i]] /\ h[0] = 0
    BY <2>1
  <2>3. ASSUME NEW i \in 1 .. n + 1 PROVE h[i] = h[i - 1] + LeftOf(q[i], time)
    <3>1. h[i - 1] = g[i - 1]
      OBVIOUS
    <3>2. CASE i = n + 1
      BY <3>1, <3>2
    <3>3. CASE i # n + 1
      <4>1. i \in 1 .. n /\ h[i] = g[i]
        BY <3>3
      <4> QED BY <4>1, <3>1, <2>1
    <3> QED BY <3>2, <3>3
  <2>4. UpTo(h, n + 1)
    BY <2>2, <2>3
  <2>5. n + 1 \in 0 .. Len(q)
    BY <1>0
  <2> HIDE DEF UpTo, h
  <2> QED BY <2>4, <2>5
<1>3. F \in [0 .. Len(q) -> BOOLEAN]
  OBVIOUS
<1> HIDE DEF F
<1>4. F[Len(q)]
  BY <1>0, <1>1, <1>2, <1>3, Induction
<1>5. PICK g : UpTo(g, Len(q))
  BY <1>0, <1>4 DEF F
<1>6. g = [n \in 0 .. Len(q) |-> IF n = 0 THEN 0 ELSE g[n - 1] + LeftOf(q[n], time)]
  BY <1>5
<1> QED BY <1>6

\* TimeLeft adds up what is left of the deadlines, one entry after the other.
LEMMA TimeLeftSums ==
  ASSUME NEW q \in Seq(QueueEntry), NEW time
  PROVE  \E g : /\ TimeLeft(q, time) = g[Len(q)] /\ g[0] = 0
                /\ \A n \in 1 .. Len(q) : g[n] = g[n - 1] + LeftOf(q[n], time)
<1> DEFINE Step(g, n) == IF n = 0 THEN 0 ELSE g[n - 1] + LeftOf(q[n], time)
           Q(g) == g = [n \in 0 .. Len(q) |-> Step(g, n)]
<1>0. Len(q) \in Nat
  OBVIOUS
<1>1. \E g : Q(g)
  BY SumsExist
<1>2. PICK k : k = CHOOSE g : Q(g)
  OBVIOUS
<1>3. TimeLeft(q, time) = k[Len(q)]
  BY <1>2 DEF TimeLeft, LeftOf
<1>4. Q(k)
  <2> HIDE DEF Q
  <2> QED BY <1>1, <1>2
<1>5. \A n \in 0 .. Len(q) : k[n] = Step(k, n)
  <2> HIDE DEF Step
  <2> QED BY <1>4
<1>6. k[0] = 0 /\ \A n \in 1 .. Len(q) : k[n] = k[n - 1] + LeftOf(q[n], time)
  BY <1>0, <1>5
<1> QED BY <1>3, <1>6

\* The later a queue is sent, the less is left of its deadlines.
LEMMA TimeLeftShrinks ==
  ASSUME NEW q \in Seq(QueueEntry), NEW s \in Nat, NEW t \in Nat, s <= t
  PROVE  TimeLeft(q, s) \in Nat /\ TimeLeft(q, t) \in Nat /\ TimeLeft(q, t) <= TimeLeft(q, s)
<1>1. PICK g : /\ TimeLeft(q, s) = g[Len(q)] /\ g[0] = 0
               /\ \A n \in 1 .. Len(q) : g[n] = g[n - 1] + LeftOf(q[n], s)
  BY TimeLeftSums
<1>2. PICK h : /\ TimeLeft(q, t) = h[Len(q)] /\ h[0] = 0
               /\ \A n \in 1 .. Len(q) : h[n] = h[n - 1] + LeftOf(q[n], t)
  BY TimeLeftSums
<1> DEFINE F == [n \in 0 .. Len(q) |-> g[n] \in Nat /\ h[n] \in Nat /\ h[n] <= g[n]]
<1>0. Len(q) \in Nat
  OBVIOUS
<1>3. F[0]
  <2>1. 0 \in 0 .. Len(q) /\ g[0] \in Nat /\ h[0] \in Nat /\ h[0] <= g[0]
    BY <1>0, <1>1, <1>2
  <2> QED BY <2>1, Zenon
<1>4. ASSUME NEW n \in 0 .. Len(q) - 1, F[n] PROVE F[n + 1]
  <2>1. n \in 0 .. Len(q) /\ n + 1 \in 1 .. Len(q) /\ (n + 1) - 1 = n /\ n + 1 \in 0 .. Len(q)
    BY <1>0
  <2>2. g[n] \in Nat /\ h[n] \in Nat /\ h[n] <= g[n]
    BY <1>4, <2>1, Zenon
  <2>3. g[n + 1] = g[n] + LeftOf(q[n + 1], s) /\ h[n + 1] = h[n] + LeftOf(q[n + 1], t)
    BY <1>1, <1>2, <2>1
  <2>4. q[n + 1] \in QueueEntry
    BY <2>1
  <2>5. LeftOf(q[n + 1], s) \in Nat /\ LeftOf(q[n + 1], t) \in Nat
        /\ LeftOf(q[n + 1], t) <= LeftOf(q[n + 1], s)
    BY <2>4, LeftShrinks
  <2>6. g[n + 1] \in Nat /\ h[n + 1] \in Nat /\ h[n + 1] <= g[n + 1]
    BY <2>2, <2>3, <2>5
  <2> QED BY <2>1, <2>6, Zenon
<1>5. F \in [0 .. Len(q) -> BOOLEAN]
  OBVIOUS
<1> HIDE DEF F
<1>6. F[Len(q)]
  BY <1>0, <1>3, <1>4, <1>5, Induction
<1>7. Len(q) \in 0 .. Len(q)
  BY <1>0
<1>8. g[Len(q)] \in Nat /\ h[Len(q)] \in Nat /\ h[Len(q)] <= g[Len(q)]
  BY <1>6, <1>7, Zenon DEF F
<1> QED BY <1>1, <1>2, <1>8

\* From StepCap on the bonus is the same at every decision time, so that the
\* first is the best.
LEMMA NowIsBest ==
  ASSUME NEW q \in Seq(QueueEntry), Now \in Nat, step = StepCap
  PROVE  OptTM(q)
<1>1. \A i \in 0 .. Horizon : Bonus(i + step) = Bonus(StepCap) /\ Bonus(StepCap) \in Int
  BY DEF Bonus, StepCap, Horizon
<1>2. PerPacket \in Nat
  BY AggregationAssumption
<1> SUFFICES ASSUME NEW i \in 1 .. Horizon
             PROVE  Reward(q, i) <= Reward(q, 0)
  BY DEF OptTM
<1>3. i \in Nat /\ i \in 0 .. Horizon /\ 0 \in 0 .. Horizon
  BY DEF Horizon
<1>4. i * PerPacket \in Nat /\ 0 * PerPacket = 0
  BY <1>2, <1>3, Product
<1>5. Now + i * PerPacket \in Nat /\ Now + 0 * PerPacket = Now /\ Now <= Now + i * PerPacket
  BY <1>4
<1>6. PICK a, b : a = TimeLeft(q, Now + i * PerPacket) /\ b = TimeLeft(q, Now)
  OBVIOUS
<1>7. a \in Nat /\ b \in Nat /\ a <= b
  BY <1>5, <1>6, TimeLeftShrinks
<1>8. Reward(q, i) = Bonus(StepCap) + a /\ Reward(q, 0) = Bonus(StepCap) + b
  BY <1>1, <1>3, <1>5, <1>6 DEF Reward
<1> QED BY <1>1, <1>3, <1>7, <1>8

\* OptTM's counter has no way back: after eight decisions, of any nodes, it
\* sends every measurement at once, with all that waits for the sink.
THEOREM OptTMAlwaysSends == Spec => OptTMGivesUpWaiting
<1> DEFINE A == policy = "OPT" /\ step = StepCap /\ generated' > generated
                  /\ (\A i \in DOMAIN m_queue : m_queue[i].deadline # Far)
                => \A i \in DOMAIN m_queue' : ~m_queue'[i].toSink
<1>1. IInv /\ [Next]_vars => [A]_vars
  <2> SUFFICES ASSUME IInv, Next, policy = "OPT", step = StepCap, generated' > generated,
                      \A i \in DOMAIN m_queue : m_queue[i].deadline # Far
               PROVE  \A i \in DOMAIN m_queue' : ~m_queue'[i].toSink
    OBVIOUS
  <2>1. SendPacket
    BY GeneratedOnlySent
  <2>2. m_queue \in Seq(QueueEntry) /\ Now \in Nat
    BY DEF IInv, DataTypes, ControlInv
  <2>3. Retained = m_queue /\ Merges
    BY DEF Retained, DropsLate, Merges
  <2>4. DataAggregation(m_queue) = {OptTM(m_queue) \/ Now > FlushTime}
    BY DEF DataAggregation
  <2>5. OptTM(m_queue)
    BY <2>2, NowIsBest
  <2>6. DataAggregation(Retained) = {TRUE}
    BY <2>3, <2>4, <2>5
  <2>7. m_queue' = ForOthers(m_queue)
    BY <2>1, <2>3, <2>6, SendPacketQueue
  <2> DEFINE O == {i \in DOMAIN m_queue : ~m_queue[i].toSink}
  <2>8. m_queue' = Selected(m_queue, O)
    BY <2>7 DEF ForOthers
  <2>9. \A i \in O : ~m_queue[i].toSink
    OBVIOUS
  <2> HIDE DEF O
  <2>10. PICK h \in [DOMAIN m_queue' -> O \cap DOMAIN m_queue] :
           \A a \in DOMAIN m_queue' : m_queue'[a] = m_queue[h[a]]
    BY <2>2, <2>8, SelectedPositions
  <2> QED BY <2>9, <2>10
<1> QED BY <1>1, InitIInv, NextIInv, PTL DEF Spec, OptTMGivesUpWaiting

=============================================================================
