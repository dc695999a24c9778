--------------------------- MODULE ObjectsProofs ---------------------------
(***************************************************************************)
(* Proofs about Objects: whatever was inserted, erased, moved and rebuilt  *)
(* before, a Swiss table finds what is in it, stops when it looks for what *)
(* is not, and is the partial function that Dictionary promises; so is a   *)
(* vector index, whose links lead only to nodes that have their level; and *)
(* the skip list of a sorted set has the pairs of its table, in order,     *)
(* with spans that add up to their ranks.                                  *)
(***************************************************************************)
EXTENDS Objects, FiniteSetTheorems, NaturalsInduction, WellFoundedInduction, TLAPS

-----------------------------------------------------------------------------
(* Numbers.                                                                *)

\* A set of natural numbers that has 0 and the successor of each element has all.
LEMMA InductionOverNat ==
    ASSUME NEW S, S \subseteq Nat, 0 \in S, \A n \in S : n + 1 \in S
    PROVE  S = Nat
<1> DEFINE R == OpToRel(<, Nat)
           T == Nat \ S
<1>1. SUFFICES ASSUME T # {} PROVE FALSE
  OBVIOUS
<1>2. PICK x \in T : \A y \in T : ~(<<y, x>> \in R)
  <2>1. IsWellFoundedOn(R, Nat)
    BY NatLessThanWellFounded
  <2>2. T \subseteq Nat
    OBVIOUS
  <2> HIDE DEF R, T
  <2> QED
    BY <1>1, <2>1, <2>2, WFMin
<1>3. x \in Nat /\ x # 0 /\ x - 1 \in Nat /\ x - 1 < x
  OBVIOUS
<1>4. x - 1 \notin T
  BY <1>2, <1>3 DEF OpToRel
<1>5. (x - 1) + 1 \in S
  BY <1>3, <1>4
<1> QED
  BY <1>3, <1>5

\* A set of natural numbers that is not empty has a least element.
LEMMA LeastOfNat ==
    ASSUME NEW S, S \subseteq Nat, S # {}
    PROVE  Min(S) \in S /\ \A n \in S : Min(S) <= n
<1> DEFINE R == OpToRel(<, Nat)
<1>1. PICK x \in S : \A y \in S : ~(<<y, x>> \in R)
  <2>1. IsWellFoundedOn(R, Nat)
    BY NatLessThanWellFounded
  <2> HIDE DEF R
  <2> QED
    BY <2>1, WFMin
<1>2. ASSUME NEW n \in S PROVE x <= n
  <2>1. x \in Nat /\ n \in Nat /\ ~(n < x)
    BY <1>1 DEF OpToRel
  <2> QED
    BY <2>1
<1> QED
  BY <1>2 DEF Min

\* The remainder is the only number in its range that differs by a multiple.
LEMMA Remainder ==
    ASSUME NEW a \in Nat, NEW b \in Nat, b > 0
    PROVE  /\ a % b \in 0 .. b - 1
           /\ a \div b \in Int
           /\ a % b = a - (a \div b) * b
<1>1. a % b \in 0 .. b - 1
  OBVIOUS
<1>2. a \div b \in Int
  OBVIOUS
<1>3. a % b = a - (a \div b) * b
  OBVIOUS
<1> QED
  BY <1>1, <1>2, <1>3

LEMMA RemainderIs ==
    ASSUME NEW q \in Int, NEW r \in Int, NEW b \in Nat, b > 0, 0 <= r, r < b
    PROVE  (q * b + r) % b = r
  OBVIOUS

\* Taking a remainder early makes no difference.
LEMMA RemainderOfSum ==
    ASSUME NEW a \in Nat, NEW b \in Nat, NEW c \in Nat, c > 0
    PROVE  ((a % c) + b) % c = (a + b) % c
<1> DEFINE p == a \div c
           s == a % c
           y == (s + b) \div c
           z == (s + b) % c
<1>1. p \in Int /\ s \in 0 .. c - 1 /\ s = a - p * c
  BY Remainder
<1>2. s + b \in Nat
  <2> HIDE DEF s, p
  <2> QED
    BY <1>1
<1>3. y \in Int /\ z \in 0 .. c - 1 /\ z = (s + b) - y * c
  <2> HIDE DEF s
  <2> QED
    BY <1>2, Remainder
<1> HIDE DEF p, s, y, z
<1>4. p * c \in Int /\ y * c \in Int /\ (p + y) * c = p * c + y * c /\ p + y \in Int
  BY <1>1, <1>3
<1>5. a + b = (p + y) * c + z
  BY <1>1, <1>3, <1>4
<1>6. ((p + y) * c + z) % c = z
  BY <1>3, <1>4, RemainderIs
<1> QED
  BY <1>5, <1>6 DEF z, s

\* Counting on from anywhere passes every remainder.
LEMMA RemaindersAreMet ==
    ASSUME NEW a \in Nat, NEW c \in Nat, c > 0, NEW j \in 0 .. c - 1
    PROVE  \E d \in 0 .. c - 1 : (a + d) % c = j
<1> DEFINE h == a % c
           q == a \div c
           d == IF j >= h THEN j - h ELSE j - h + c
<1>1. h \in 0 .. c - 1 /\ q \in Int /\ h = a - q * c
  BY Remainder
<1> HIDE DEF h, q
<1>2. d \in 0 .. c - 1
  BY <1>1
<1>3. q * c \in Int /\ (q + 1) * c = q * c + c /\ q + 1 \in Int
  BY <1>1
<1>4. a + d = q * c + j \/ a + d = (q + 1) * c + j
  BY <1>1, <1>3
<1>5. (q * c + j) % c = j /\ ((q + 1) * c + j) % c = j
  BY <1>1, <1>3, RemainderIs
<1>6. (a + d) % c = j
  <2> HIDE DEF d
  <2> QED
    BY <1>4, <1>5
<1> HIDE DEF d
<1> QED
  BY <1>2, <1>6

\* Powers of two are what their definition says.
TwoToBody(f, e) == IF e = 0 THEN 1 ELSE 2 * f[e - 1]

LEMMA TwoToUnfolds == \A e \in Nat : TwoTo[e] = TwoToBody(TwoTo, e)
<1> DEFINE Solves(f, n)  == \A e \in 0 .. n : f[e] = TwoToBody(f, e)
           Good == {n \in Nat : \E f : Solves(f, n)}
           Same == {n \in Nat : \A f, g : Solves(f, n) /\ Solves(g, n) => f[n] = g[n]}
<1>1. Good = Nat
  <2>1. 0 \in Good
    <3> DEFINE f == [e \in 0 .. 0 |-> 1]
    <3>1. Solves(f, 0)
      BY DEF TwoToBody
    <3> HIDE DEF f, Solves
    <3> QED
      BY <3>1
  <2>2. ASSUME NEW n \in Good PROVE n + 1 \in Good
    <3>1. n \in Nat
      OBVIOUS
    <3>2. PICK f : Solves(f, n)
      OBVIOUS
    <3> DEFINE g == [e \in 0 .. n + 1 |-> IF e \in 0 .. n THEN f[e] ELSE 2 * f[n]]
    <3>3. ASSUME NEW e \in 0 .. n + 1 PROVE g[e] = TwoToBody(g, e)
      <4>1. CASE e = 0
        BY <3>1, <3>2, <4>1 DEF TwoToBody
      <4>2. CASE e # 0 /\ e \in 0 .. n
        <5>1. e - 1 \in 0 .. n /\ e - 1 \in 0 .. n + 1
          BY <3>1, <4>2
        <5>2. g[e] = f[e] /\ g[e - 1] = f[e - 1]
          BY <4>2, <5>1
        <5>3. f[e] = TwoToBody(f, e)
          BY <3>2, <4>2
        <5> HIDE DEF g
        <5> QED
          BY <4>2, <5>2, <5>3 DEF TwoToBody
      <4>3. CASE e = n + 1
        <5>1. e - 1 = n /\ n \in 0 .. n /\ n \in 0 .. n + 1 /\ e \notin 0 .. n /\ e # 0
          BY <3>1, <4>3
        <5>2. g[e] = 2 * f[n] /\ g[n] = f[n]
          BY <5>1
        <5> HIDE DEF g
        <5> QED
          BY <5>1, <5>2 DEF TwoToBody
      <4> QED
        BY <3>1, <4>1, <4>2, <4>3
    <3>4. Solves(g, n + 1)
      BY <3>3
    <3> HIDE DEF g, Solves
    <3> QED
      BY <3>1, <3>4
  <2>3. Good \subseteq Nat
    OBVIOUS
  <2> HIDE DEF Good
  <2> QED
    BY <2>1, <2>2, <2>3, InductionOverNat
<1>2. Same = Nat
  <2>1. 0 \in Same
    BY DEF TwoToBody
  <2>2. ASSUME NEW n \in Same PROVE n + 1 \in Same
    <3>1. n \in Nat
      OBVIOUS
    <3>2. ASSUME NEW f, NEW g, Solves(f, n + 1), Solves(g, n + 1) PROVE f[n + 1] = g[n + 1]
      <4>1. Solves(f, n) /\ Solves(g, n)
        BY <3>1, <3>2
      <4>2. f[n] = g[n]
        <5> HIDE DEF Solves
        <5> QED
          BY <4>1
      <4>3. f[n + 1] = TwoToBody(f, n + 1) /\ g[n + 1] = TwoToBody(g, n + 1)
        BY <3>1, <3>2
      <4>4. (n + 1) - 1 = n /\ n + 1 # 0
        BY <3>1
      <4> QED
        BY <4>2, <4>3, <4>4 DEF TwoToBody
    <3> HIDE DEF Solves
    <3> QED
      BY <3>1, <3>2
  <2>3. Same \subseteq Nat
    OBVIOUS
  <2> HIDE DEF Same
  <2> QED
    BY <2>1, <2>2, <2>3, InductionOverNat
<1> DEFINE part(n) == CHOOSE f : Solves(f, n)
           all     == [n \in Nat |-> part(n)[n]]
<1>3. \A n \in Nat : Solves(part(n), n)
  <2> HIDE DEF Solves
  <2> QED
    BY <1>1
<1>4. \A n \in Nat : \A f : Solves(f, n) => f[n] = all[n]
  <2> HIDE DEF Solves, part
  <2> QED
    BY <1>2, <1>3
<1>5. ASSUME NEW e \in Nat PROVE all[e] = TwoToBody(all, e)
  <2>1. Solves(part(e), e)
    BY <1>3
  <2>2. part(e)[e] = TwoToBody(part(e), e) /\ part(e)[e] = all[e]
    <3> HIDE DEF part
    <3>1. e \in 0 .. e
      OBVIOUS
    <3> QED
      BY <1>4, <2>1, <3>1
  <2>3. CASE e = 0
    <3> HIDE DEF all, part
    <3> QED
      BY <2>2, <2>3 DEF TwoToBody
  <2>4. CASE e # 0
    <3>1. e - 1 \in Nat /\ Solves(part(e), e - 1)
      <4> HIDE DEF part
      <4> QED
        BY <2>1, <2>4
    <3>2. part(e)[e - 1] = all[e - 1]
      <4> HIDE DEF part, Solves, all
      <4> QED
        BY <1>4, <3>1
    <3> HIDE DEF all, part
    <3> QED
      BY <2>2, <2>4, <3>2 DEF TwoToBody
  <2> QED
    BY <2>3, <2>4
<1>6. all = [e \in Nat |-> TwoToBody(all, e)]
  <2>1. all = [e \in Nat |-> all[e]]
    OBVIOUS
  <2> HIDE DEF all
  <2> QED
    BY <1>5, <2>1
<1>7. TwoTo = CHOOSE f : f = [e \in Nat |-> TwoToBody(f, e)]
  BY DEF TwoTo, TwoToBody
<1>8. TwoTo = [e \in Nat |-> TwoToBody(TwoTo, e)]
  <2> HIDE DEF all
  <2> QED
    BY <1>6, <1>7
<1> QED
  BY <1>8

\* 2^(e+1) is twice 2^e; every power is positive and above its exponent.
LEMMA TwoToFacts ==
    /\ TwoTo[0] = 1
    /\ \A e \in Nat : TwoTo[e + 1] = 2 * TwoTo[e] /\ TwoTo[e] \in Nat /\ TwoTo[e] > e
<1>1. TwoTo[0] = 1 /\ \A e \in Nat : TwoTo[e + 1] = 2 * TwoTo[e]
  <2>1. ASSUME NEW e \in Nat PROVE TwoTo[e + 1] = 2 * TwoTo[e]
    <3>1. e + 1 \in Nat /\ e + 1 # 0 /\ (e + 1) - 1 = e
      OBVIOUS
    <3> QED
      BY <3>1, TwoToUnfolds DEF TwoToBody
  <2> QED
    BY <2>1, TwoToUnfolds DEF TwoToBody
<1> DEFINE S == {e \in Nat : TwoTo[e] \in Nat /\ TwoTo[e] > e}
<1>2. 0 \in S
  BY <1>1
<1>3. ASSUME NEW e \in S PROVE e + 1 \in S
  BY <1>1
<1>4. S \subseteq Nat
  OBVIOUS
<1> HIDE DEF S
<1>5. S = Nat
  BY <1>2, <1>3, <1>4, InductionOverNat
<1> QED
  BY <1>1, <1>5 DEF S

\* Exponents add up.
LEMMA TwoToSum ==
    ASSUME NEW d \in Nat
    PROVE  \A e \in Nat : TwoTo[d + e] = TwoTo[d] * TwoTo[e]
<1> DEFINE S == {e \in Nat : TwoTo[d + e] = TwoTo[d] * TwoTo[e]}
<1>1. 0 \in S
  BY TwoToFacts
<1>2. ASSUME NEW e \in S PROVE e + 1 \in S
  <2>1. e \in Nat /\ d + e \in Nat /\ (d + e) + 1 = d + (e + 1)
    OBVIOUS
  <2>2. TwoTo[d + (e + 1)] = 2 * TwoTo[d + e] /\ TwoTo[e + 1] = 2 * TwoTo[e]
    BY <2>1, TwoToFacts
  <2>3. TwoTo[d + e] = TwoTo[d] * TwoTo[e] /\ TwoTo[d] \in Nat /\ TwoTo[e] \in Nat
    BY <2>1, TwoToFacts
  <2>4. \A a, b \in Nat : 2 * (a * b) = a * (2 * b)
    OBVIOUS
  <2>5. TwoTo[d + (e + 1)] = TwoTo[d] * TwoTo[e + 1]
    BY <2>2, <2>3, <2>4
  <2> QED
    BY <2>1, <2>5
<1>3. S \subseteq Nat
  OBVIOUS
<1> HIDE DEF S
<1>4. S = Nat
  BY <1>1, <1>2, <1>3, InductionOverNat
<1> QED
  BY <1>4 DEF S

-----------------------------------------------------------------------------
(* The invariant of a table.                                               *)

\* Bytes, slots and capacities a table may have.
ControlBytes == {kEmpty, kDeleted} \cup 0 .. 127
SlotValues   == Values \cup {0}
Slot         == [key : Keys \cup {DefaultKey}, value : SlotValues]
Capacities   == {kGroup * TwoTo[e] : e \in Nat}

WellFormed(t) ==
    /\ t = [cap |-> t.cap, ctrl |-> t.ctrl, slots |-> t.slots, size |-> t.size, tombs |-> t.tombs]
    /\ t.cap \in Capacities
    /\ t.ctrl \in [0 .. t.cap + kGroup - 1 -> ControlBytes]
    /\ t.slots \in [0 .. t.cap - 1 -> Slot]

\* The first bytes are mirrored behind the last.
Mirrored(t) == \A i \in 0 .. kGroup - 1 : t.ctrl[t.cap + i] = t.ctrl[i]

\* A full slot has the control byte of its key, and no group with an empty byte
\* is before it in the probe sequence of the key.
Placed(t) ==
    \A i \in FullSlots(t) :
        LET k == t.slots[i].key
        IN  k \in Keys /\ t.ctrl[i] = H2[k] /\ \E d \in Reached(t, k) : SlotAt(t, k, d) = i

\* No key is in two slots.
Once(t) == \A i, j \in FullSlots(t) : t.slots[i].key = t.slots[j].key => i = j

DeletedSlots(t) == {i \in 0 .. t.cap - 1 : t.ctrl[i] = kDeleted}

Counted(t) == t.size = Cardinality(FullSlots(t)) /\ t.tombs = Cardinality(DeletedSlots(t))

Sound(t) == WellFormed(t) /\ Mirrored(t) /\ Placed(t) /\ Once(t) /\ Counted(t)

\* The load stays below the capacity, so that a byte is empty.
Roomy(t) == t.size + t.tombs <= GrowAt(t.cap)

KeysIn(t) == {t.slots[i].key : i \in FullSlots(t)}
-----------------------------------------------------------------------------
(* Capacities and the probe sequence.                                      *)

\* A group has at least one byte, and a capacity is a number of groups.
LEMMA CapacityFacts ==
    /\ kGroup \in Nat /\ kGroup > 0
    /\ \A c \in Capacities : c \in Nat /\ c >= kGroup /\ c % kGroup = 0 /\ c * 2 \in Capacities
    /\ kGroup \in Capacities
<1>1. PICK g \in 0 .. kGroup : kGroup = TwoTo[g]
  BY SwissAssumption
<1>2. kGroup \in Nat /\ kGroup > 0
  BY <1>1, TwoToFacts
<1>3. ASSUME NEW c \in Capacities
      PROVE  c \in Nat /\ c >= kGroup /\ c % kGroup = 0 /\ c * 2 \in Capacities
  <2>1. PICK e \in Nat : c = kGroup * TwoTo[e]
    BY DEF Capacities
  <2>2. PICK n \in Nat : n = TwoTo[e]
    BY TwoToFacts
  <2>3. n > 0 /\ n * 2 = TwoTo[e + 1] /\ c = kGroup * n
    BY <2>1, <2>2, TwoToFacts
  <2>4. \A a, b \in Nat : b > 0 => a * b \in Nat /\ a * b >= a /\ a * b = b * a + 0 /\ (a * b) * 2 = a * (b * 2)
    OBVIOUS
  <2>5. c \in Nat /\ c >= kGroup /\ c = n * kGroup + 0 /\ c * 2 = kGroup * (n * 2)
    BY <1>2, <2>3, <2>4
  <2>6. c % kGroup = 0
    BY <1>2, <2>5, RemainderIs
  <2> QED
    BY <2>3, <2>5, <2>6 DEF Capacities
<1>4. kGroup \in Capacities
  <2>1. kGroup * 1 = kGroup
    BY <1>2
  <2> QED
    BY <2>1, TwoToFacts DEF Capacities
<1> QED
  BY <1>2, <1>3, <1>4

\* Capacities that reserve() asks for are a number of groups too, if they are
\* larger than one.
LEMMA DoublingsOfEight ==
    ASSUME NEW e \in Nat, 8 * TwoTo[e] > kGroup
    PROVE  8 * TwoTo[e] \in Capacities
<1>1. PICK g \in Nat : kGroup = TwoTo[g]
  BY SwissAssumption
<1>2. 8 * TwoTo[e] = TwoTo[e + 3]
  <2>1. e + 1 \in Nat /\ e + 2 \in Nat /\ (e + 1) + 1 = e + 2 /\ (e + 2) + 1 = e + 3 /\ TwoTo[e] \in Nat
    BY TwoToFacts
  <2>2. TwoTo[e + 1] = 2 * TwoTo[e] /\ TwoTo[e + 2] = 2 * TwoTo[e + 1] /\ TwoTo[e + 3] = 2 * TwoTo[e + 2]
    BY <2>1, TwoToFacts
  <2> QED
    BY <2>1, <2>2
<1>3. g <= e + 3
  <2> SUFFICES ASSUME g > e + 3 PROVE FALSE
    OBVIOUS
  <2>1. g - (e + 3) \in Nat /\ e + 3 \in Nat /\ (e + 3) + (g - (e + 3)) = g
    OBVIOUS
  <2>2. TwoTo[g] = TwoTo[e + 3] * TwoTo[g - (e + 3)]
    BY <2>1, TwoToSum
  <2>3. TwoTo[g - (e + 3)] \in Nat /\ TwoTo[g - (e + 3)] > 0 /\ TwoTo[e + 3] \in Nat
    BY <2>1, TwoToFacts
  <2>4. \A a, b \in Nat : b > 0 => a * b >= a /\ a * b \in Nat
    OBVIOUS
  <2>5. TwoTo[e + 3] * TwoTo[g - (e + 3)] >= TwoTo[e + 3]
    BY <2>3, <2>4
  <2>6. TwoTo[g] \in Nat
    BY TwoToFacts
  <2> QED
    BY <1>1, <1>2, <2>2, <2>3, <2>5, <2>6
<1>4. e + 3 - g \in Nat /\ g + (e + 3 - g) = e + 3
  BY <1>3
<1>5. TwoTo[e + 3] = kGroup * TwoTo[e + 3 - g]
  BY <1>1, <1>4, TwoToSum
<1> QED
  BY <1>2, <1>4, <1>5 DEF Capacities

LEMMA CapIs ==
    ASSUME NEW t, WellFormed(t)
    PROVE  /\ kGroup \in Nat /\ kGroup > 0
           /\ t.cap \in Nat /\ t.cap >= kGroup /\ t.cap > 0
<1>1. t.cap \in Capacities
  BY DEF WellFormed
<1>2. kGroup \in Nat /\ kGroup > 0 /\ t.cap \in Nat /\ t.cap >= kGroup
  BY <1>1, CapacityFacts
<1> QED
  BY <1>2

LEMMA HashIs == \A k \in Keys : H1[k] \in Nat /\ H2[k] \in 0 .. 127 /\ k \in Nat
  BY SwissAssumption, ObjectsAssumption

\* The d-th byte that a search looks at is the byte of the d-th slot from where
\* it starts, be it in the mirror.
LEMMA ProbeIsSlot ==
    ASSUME NEW t, WellFormed(t), Mirrored(t), NEW k \in Keys, NEW d \in Offsets(t)
    PROVE  /\ SlotAt(t, k, d) \in 0 .. t.cap - 1
           /\ ByteAt(t, k, d) = t.ctrl[SlotAt(t, k, d)]
           /\ SlotAt(t, k, d) = (H1[k] + d) % t.cap
<1>1. /\ kGroup \in Nat /\ kGroup > 0 /\ t.cap \in Nat /\ t.cap >= kGroup /\ t.cap > 0
      /\ H1[k] \in Nat /\ d \in Nat
  BY CapIs, HashIs DEF Offsets
<1> DEFINE q == d \div kGroup
           r == d % kGroup
           x == H1[k] + q * kGroup
           s == x % t.cap
<1>2. q \in Int /\ r \in 0 .. kGroup - 1 /\ r = d - q * kGroup /\ q >= 0
  <2>1. q \in Int /\ r \in 0 .. kGroup - 1 /\ r = d - q * kGroup
    BY <1>1, Remainder
  <2>2. q >= 0
    BY <1>1
  <2> QED
    BY <2>1, <2>2
<1>3. q * kGroup \in Nat /\ x \in Nat
  <2>1. q \in Nat
    BY <1>2
  <2> HIDE DEF q
  <2>2. \A a, b \in Nat : a * b \in Nat
    OBVIOUS
  <2> QED
    BY <1>1, <2>1, <2>2
<1>4. s \in 0 .. t.cap - 1 /\ x \div t.cap \in Int /\ s = x - (x \div t.cap) * t.cap
  <2> HIDE DEF x
  <2> QED
    BY <1>1, <1>3, Remainder
<1>5. SlotAt(t, k, d) = (s + r) % t.cap /\ ByteAt(t, k, d) = t.ctrl[s + r]
  BY DEF SlotAt, ByteAt, GroupStart
<1>6. s + r \in Nat /\ s + r < t.cap + kGroup
  <2> HIDE DEF s, r
  <2> QED
    BY <1>1, <1>2, <1>4
<1>7. SlotAt(t, k, d) \in 0 .. t.cap - 1
  <2> HIDE DEF s, r
  <2> QED
    BY <1>1, <1>5, <1>6, Remainder
<1>8. ByteAt(t, k, d) = t.ctrl[SlotAt(t, k, d)]
  <2> HIDE DEF s, r
  <2>1. CASE s + r < t.cap
    <3>1. (s + r) % t.cap = s + r
      <4>1. s + r = 0 * t.cap + (s + r)
        BY <1>1, <1>6
      <4> QED
        BY <1>1, <1>6, <2>1, <4>1, RemainderIs
    <3> QED
      BY <1>5, <3>1
  <2>2. CASE s + r >= t.cap
    <3>1. (s + r) % t.cap = s + r - t.cap
      <4>1. s + r = 1 * t.cap + (s + r - t.cap) /\ s + r - t.cap \in Int /\ 0 <= s + r - t.cap /\ s + r - t.cap < t.cap
        BY <1>1, <1>2, <1>4, <1>6, <2>2
      <4> QED
        BY <1>1, <4>1, RemainderIs
    <3>2. s + r - t.cap \in 0 .. kGroup - 1 /\ t.cap + (s + r - t.cap) = s + r
      BY <1>1, <1>2, <1>4, <1>6, <2>2
    <3>3. t.ctrl[t.cap + (s + r - t.cap)] = t.ctrl[s + r - t.cap]
      BY <3>2 DEF Mirrored
    <3> QED
      BY <1>5, <3>1, <3>2, <3>3
  <2> QED
    BY <1>1, <1>6, <2>1, <2>2
<1>9. SlotAt(t, k, d) = (H1[k] + d) % t.cap
  <2>1. r \in Nat
    BY <1>1, <1>2
  <2>2. (s + r) % t.cap = (x + r) % t.cap
    <3>1. PICK a : a = x
      OBVIOUS
    <3>2. PICK b : b = r
      OBVIOUS
    <3>3. PICK c : c = t.cap
      OBVIOUS
    <3>4. a \in Nat /\ b \in Nat /\ c \in Nat /\ c > 0
      BY <1>1, <1>3, <2>1, <3>1, <3>2, <3>3
    <3>5. ((a % c) + b) % c = (a + b) % c
      BY <3>4, RemainderOfSum
    <3> HIDE DEF x, r
    <3> QED
      BY <3>1, <3>2, <3>3, <3>5, Zenon
  <2>3. x + r = H1[k] + d
    <3> HIDE DEF q, r
    <3>1. q * kGroup \in Int /\ r \in Int
      BY <1>1, <1>2
    <3> QED
      BY <1>1, <1>2, <3>1
  <2> HIDE DEF s, r, x
  <2> QED
    BY <1>5, <2>2, <2>3
<1> QED
  BY <1>7, <1>8, <1>9

\* A search passes every slot.
LEMMA ProbeCoversSlots ==
    ASSUME NEW t, WellFormed(t), Mirrored(t), NEW k \in Keys, NEW j \in 0 .. t.cap - 1
    PROVE  \E d \in Offsets(t) : SlotAt(t, k, d) = j
<1>1. t.cap \in Nat /\ t.cap > 0 /\ H1[k] \in Nat
  BY CapIs, HashIs
<1>2. PICK d \in 0 .. t.cap - 1 : (H1[k] + d) % t.cap = j
  BY <1>1, RemaindersAreMet
<1> QED
  BY <1>2, ProbeIsSlot DEF Offsets

-----------------------------------------------------------------------------
(* Searches.                                                               *)

\* The contents are what the full slots say.
LEMMA ContentsAre ==
    ASSUME NEW t, Once(t)
    PROVE  /\ DOMAIN Contents(t) = KeysIn(t)
           /\ \A i \in FullSlots(t) : Contents(t)[t.slots[i].key] = t.slots[i].value
           /\ \A f : (/\ f = [k \in KeysIn(t) |-> f[k]]
                      /\ \A i \in FullSlots(t) : f[t.slots[i].key] = t.slots[i].value)
                     => Contents(t) = f
<1>1. DOMAIN Contents(t) = KeysIn(t)
  BY DEF Contents, KeysIn
<1>2. ASSUME NEW i \in FullSlots(t) PROVE Contents(t)[t.slots[i].key] = t.slots[i].value
  <2> DEFINE k == t.slots[i].key
             j == CHOOSE n \in FullSlots(t) : t.slots[n].key = k
  <2>1. j \in FullSlots(t) /\ t.slots[j].key = k
    OBVIOUS
  <2>2. j = i
    BY <2>1 DEF Once
  <2>3. Contents(t)[k] = t.slots[j].value
    BY DEF Contents
  <2> HIDE DEF j
  <2> QED
    BY <2>2, <2>3
<1>3. ASSUME NEW f, f = [k \in KeysIn(t) |-> f[k]],
             \A i \in FullSlots(t) : f[t.slots[i].key] = t.slots[i].value
      PROVE  Contents(t) = f
  <2>1. \A k \in KeysIn(t) : Contents(t)[k] = f[k]
    BY <1>2, <1>3 DEF KeysIn
  <2>2. Contents(t) = [k \in KeysIn(t) |-> Contents(t)[k]]
    BY DEF Contents, KeysIn
  <2> QED
    BY <1>3, <2>1, <2>2
<1> QED
  BY <1>1, <1>2, <1>3

\* A table that is not overloaded has an empty byte.
LEMMA EmptyByte ==
    ASSUME NEW t, WellFormed(t), Counted(t), t.size + t.tombs < t.cap
    PROVE  \E j \in 0 .. t.cap - 1 : t.ctrl[j] = kEmpty
<1> SUFFICES ASSUME \A j \in 0 .. t.cap - 1 : t.ctrl[j] # kEmpty PROVE FALSE
  OBVIOUS
<1>1. t.cap \in Nat /\ t.cap > 0 /\ kGroup \in Nat /\ kGroup > 0
  BY CapIs
<1>2. \A j \in 0 .. t.cap - 1 : t.ctrl[j] \in ControlBytes
  BY <1>1 DEF WellFormed
<1>3. 0 .. t.cap - 1 = FullSlots(t) \cup DeletedSlots(t) /\ FullSlots(t) \cap DeletedSlots(t) = {}
  BY <1>2 DEF FullSlots, DeletedSlots, ControlBytes, kEmpty, kDeleted
<1>4. IsFiniteSet(0 .. t.cap - 1) /\ Cardinality(0 .. t.cap - 1) = t.cap
  <2>1. 0 \in Int /\ t.cap - 1 \in Int /\ t.cap - 1 - 0 + 1 = t.cap /\ ~(0 > t.cap - 1)
    BY <1>1
  <2>2. \A a, b \in Int : IsFiniteSet(a .. b) /\ Cardinality(a .. b) = IF a > b THEN 0 ELSE b - a + 1
    BY FS_Interval
  <2> QED
    BY <2>1, <2>2
<1>5. IsFiniteSet(FullSlots(t)) /\ IsFiniteSet(DeletedSlots(t))
  BY <1>3, <1>4, FS_Subset
<1>6. Cardinality(FullSlots(t) \cup DeletedSlots(t))
        = Cardinality(FullSlots(t)) + Cardinality(DeletedSlots(t)) - Cardinality({})
  BY <1>3, <1>5, FS_Union
<1>7. Cardinality({}) = 0
  BY FS_EmptySet
<1>8. Cardinality(FullSlots(t)) \in Nat /\ Cardinality(DeletedSlots(t)) \in Nat
  BY <1>5, FS_CardinalityType
<1>9. t.size + t.tombs = t.cap
  <2>1. Cardinality(0 .. t.cap - 1) = Cardinality(FullSlots(t) \cup DeletedSlots(t))
    BY <1>3
  <2>2. t.size = Cardinality(FullSlots(t)) /\ t.tombs = Cardinality(DeletedSlots(t))
    BY DEF Counted
  <2> QED
    BY <1>1, <1>4, <1>6, <1>7, <1>8, <2>1, <2>2
<1> QED
  BY <1>1, <1>9

LEMMA CountsAreNat ==
    ASSUME NEW t, WellFormed(t), Counted(t)
    PROVE  /\ t.size \in Nat /\ t.tombs \in Nat
           /\ IsFiniteSet(FullSlots(t)) /\ IsFiniteSet(DeletedSlots(t))
<1>1. t.cap \in Nat
  BY CapIs
<1>2. IsFiniteSet(0 .. t.cap - 1)
  BY <1>1, FS_Interval
<1>3. IsFiniteSet(FullSlots(t)) /\ IsFiniteSet(DeletedSlots(t))
  BY <1>2, FS_Subset DEF FullSlots, DeletedSlots
<1> QED
  BY <1>3, FS_CardinalityType DEF Counted

\* The first free byte of a probe sequence is reached, and so is the first empty
\* one.
LEMMA FirstIsReached ==
    ASSUME NEW t, WellFormed(t), Mirrored(t), NEW k \in Keys, NEW B,
           kEmpty \in B, \E j \in 0 .. t.cap - 1 : t.ctrl[j] \in B,
           NEW R \in {Offsets(t), Reached(t, k)}
    PROVE  LET d == Min({e \in R : ByteAt(t, k, e) \in B})
           IN  d \in Reached(t, k) /\ ByteAt(t, k, d) \in B
<1> DEFINE all == {e \in Offsets(t) : ByteAt(t, k, e) \in B}
           d   == Min(all)
           some == {e \in R : ByteAt(t, k, e) \in B}
<1>1. t.cap \in Nat /\ kGroup \in Nat /\ kGroup > 0
  BY CapIs
<1>2. all # {}
  <2>1. PICK j \in 0 .. t.cap - 1 : t.ctrl[j] \in B
    OBVIOUS
  <2>2. PICK e \in Offsets(t) : SlotAt(t, k, e) = j
    BY ProbeCoversSlots
  <2>3. ByteAt(t, k, e) = t.ctrl[j]
    BY <2>2, ProbeIsSlot
  <2> QED
    BY <2>1, <2>3
<1>3. Offsets(t) \subseteq Nat /\ all \subseteq Nat
  BY <1>1 DEF Offsets
<1>4. d \in all /\ \A n \in all : d <= n
  <2> HIDE DEF all
  <2> QED
    BY <1>2, <1>3, LeastOfNat
<1>5. d \in Reached(t, k)
  <2> HIDE DEF d
  <2>1. ASSUME NEW e \in Offsets(t), e \div kGroup < d \div kGroup PROVE ByteAt(t, k, e) # kEmpty
    <3> SUFFICES ASSUME ByteAt(t, k, e) = kEmpty PROVE FALSE
      OBVIOUS
    <3>1. d <= e /\ d \in Nat /\ e \in Nat
      BY <1>3, <1>4
    <3>2. d \div kGroup <= e \div kGroup
      <4>1. e \div kGroup \in Int /\ d \div kGroup \in Int
        BY <1>1, <3>1, Remainder
      <4>2. e % kGroup \in 0 .. kGroup - 1 /\ e % kGroup = e - (e \div kGroup) * kGroup
        BY <1>1, <3>1, Remainder
      <4>3. d % kGroup \in 0 .. kGroup - 1 /\ d % kGroup = d - (d \div kGroup) * kGroup
        BY <1>1, <3>1, Remainder
      <4>4. PICK x \in Int : x = e \div kGroup
        BY <4>1
      <4>5. PICK y \in Int : y = d \div kGroup
        BY <4>1
      <4>6. SUFFICES ASSUME x < y PROVE FALSE
        BY <4>4, <4>5
      <4>7. (x + 1) * kGroup <= y * kGroup /\ (x + 1) * kGroup = x * kGroup + kGroup
            /\ x * kGroup \in Int /\ y * kGroup \in Int
        <5>1. \A a, b \in Int : a <= b => a * kGroup <= b * kGroup
          BY <1>1
        <5>2. x + 1 <= y /\ x + 1 \in Int
          BY <4>6
        <5>3. (x + 1) * kGroup <= y * kGroup
          BY <5>1, <5>2
        <5> QED
          BY <1>1, <5>3
      <4> QED
        BY <1>1, <3>1, <4>2, <4>3, <4>4, <4>5, <4>7
    <3>3. e \div kGroup \in Int /\ d \div kGroup \in Int
      BY <1>1, <3>1, Remainder
    <3> QED
      BY <2>1, <3>2, <3>3
  <2>2. d \in Offsets(t)
    BY <1>4
  <2> QED
    BY <2>1, <2>2 DEF Reached
<1>6. d = Min(some)
  <2>1. some \subseteq all /\ d \in some
    BY <1>4, <1>5 DEF Reached
  <2>2. some \subseteq Nat /\ some # {}
    BY <1>3, <2>1
  <2>3. Min(some) \in some /\ \A n \in some : Min(some) <= n
    <3> HIDE DEF some
    <3> QED
      BY <2>2, LeastOfNat
  <2>4. Min(some) <= d /\ d <= Min(some) /\ Min(some) \in Nat /\ d \in Nat
    <3> HIDE DEF some, d, all
    <3> QED
      BY <1>3, <1>4, <2>1, <2>3
  <2> HIDE DEF some, d
  <2> QED
    BY <2>4
<1> QED
  BY <1>4, <1>5, <1>6

\* A search stops.
LEMMA SearchesEnd ==
    ASSUME NEW t, Sound(t), Roomy(t), NEW k \in Keys
    PROVE  Returns(t, k)
<1>1. t.cap \in Nat /\ t.cap > 0
  BY CapIs DEF Sound
<1>2. t.size \in Nat /\ t.tombs \in Nat
  BY CountsAreNat DEF Sound
<1>3. t.size + t.tombs < t.cap
  <2>1. (t.cap * 7) \div 8 < t.cap
    BY <1>1
  <2>2. (t.cap * 7) \div 8 \in Int
    BY <1>1
  <2> QED
    BY <1>1, <1>2, <2>1, <2>2 DEF Roomy, GrowAt
<1>4. \E j \in 0 .. t.cap - 1 : t.ctrl[j] \in {kEmpty}
  BY <1>3, EmptyByte DEF Sound
<1> DEFINE d == Min({e \in Offsets(t) : ByteAt(t, k, e) \in {kEmpty}})
<1>5. d \in Reached(t, k) /\ ByteAt(t, k, d) \in {kEmpty}
  BY <1>4, FirstIsReached DEF Sound
<1> HIDE DEF d
<1> QED
  BY <1>5 DEF Returns

\* A search finds the slot of a key, or that there is none.
LEMMA FindIs ==
    ASSUME NEW t, Sound(t), NEW k \in Keys
    PROVE  /\ \A i \in FullSlots(t) : t.slots[i].key = k => Find(t, k) = i
           /\ k \notin KeysIn(t) => Find(t, k) = -1
           /\ Find(t, k) >= 0 <=> k \in KeysIn(t)
           /\ Find(t, k) >= 0 => Find(t, k) \in FullSlots(t) /\ t.slots[Find(t, k)].key = k
<1>0. WellFormed(t) /\ Mirrored(t) /\ Placed(t) /\ Once(t)
  BY DEF Sound
<1>1. ASSUME NEW d \in Matches(t, k)
      PROVE  SlotAt(t, k, d) \in FullSlots(t) /\ t.slots[SlotAt(t, k, d)].key = k
  <2>1. d \in Offsets(t) /\ ByteAt(t, k, d) = H2[k] /\ t.slots[SlotAt(t, k, d)].key = k
    BY DEF Matches, Reached
  <2>2. SlotAt(t, k, d) \in 0 .. t.cap - 1 /\ t.ctrl[SlotAt(t, k, d)] = H2[k]
    BY <1>0, <2>1, ProbeIsSlot
  <2>3. H2[k] >= 0
    BY HashIs
  <2> QED
    BY <2>1, <2>2, <2>3 DEF FullSlots
<1>2. Matches(t, k) # {} => Min(Matches(t, k)) \in Matches(t, k)
  <2>1. Matches(t, k) \subseteq Nat
    BY <1>0, CapIs DEF Matches, Reached, Offsets
  <2> QED
    BY <2>1, LeastOfNat
<1>3. ASSUME NEW i \in FullSlots(t), t.slots[i].key = k PROVE Find(t, k) = i
  <2>1. PICK d \in Reached(t, k) : SlotAt(t, k, d) = i
    BY <1>0, <1>3 DEF Placed
  <2>2. t.ctrl[i] = H2[k]
    BY <1>0, <1>3 DEF Placed
  <2>3. ByteAt(t, k, d) = H2[k]
    BY <1>0, <2>1, <2>2, ProbeIsSlot DEF Reached
  <2>4. d \in Matches(t, k)
    BY <1>3, <2>1, <2>3 DEF Matches
  <2>5. SlotAt(t, k, Min(Matches(t, k))) \in FullSlots(t)
        /\ t.slots[SlotAt(t, k, Min(Matches(t, k)))].key = k
    BY <1>1, <1>2, <2>4
  <2>6. SlotAt(t, k, Min(Matches(t, k))) = i
    BY <1>0, <1>3, <2>5 DEF Once
  <2> QED
    BY <2>4, <2>6 DEF Find
<1>4. ASSUME k \notin KeysIn(t) PROVE Find(t, k) = -1
  <2>1. Matches(t, k) = {}
    BY <1>1, <1>4 DEF KeysIn
  <2> QED
    BY <2>1 DEF Find
<1>5. ASSUME k \in KeysIn(t)
      PROVE  Find(t, k) \in FullSlots(t) /\ Find(t, k) >= 0 /\ t.slots[Find(t, k)].key = k
  <2>1. PICK i \in FullSlots(t) : t.slots[i].key = k
    BY <1>5 DEF KeysIn
  <2>2. i >= 0
    BY DEF FullSlots
  <2> QED
    BY <1>3, <2>1, <2>2
<1> QED
  BY <1>3, <1>4, <1>5

\* What TableIsSound says of a table.
LEMMA SoundTable ==
    ASSUME NEW t, Sound(t), Roomy(t)
    PROVE  /\ \A k \in Keys : Returns(t, k)
           /\ \A i \in FullSlots(t) : Find(t, t.slots[i].key) = i
           /\ t.size  = Cardinality(FullSlots(t))
           /\ t.tombs = Cardinality({i \in 0 .. t.cap - 1 : t.ctrl[i] = kDeleted})
           /\ \A i \in 0 .. kGroup - 1 : t.ctrl[t.cap + i] = t.ctrl[i]
<1>1. \A i \in FullSlots(t) : t.slots[i].key \in Keys
  BY DEF Sound, Placed
<1> QED
  BY <1>1, SearchesEnd, FindIs DEF Sound, Counted, Mirrored, DeletedSlots

-----------------------------------------------------------------------------
(* Changing a byte, filling a slot.                                        *)

\* set_ctrl() keeps the mirror.
LEMMA SetCtrlIs ==
    ASSUME NEW t, WellFormed(t), Mirrored(t), NEW i \in 0 .. t.cap - 1, NEW v \in ControlBytes,
           NEW u, u = SetCtrl(t, i, v)
    PROVE  /\ WellFormed(u) /\ Mirrored(u)
           /\ u = [cap |-> t.cap, ctrl |-> u.ctrl, slots |-> t.slots, size |-> t.size, tombs |-> t.tombs]
           /\ \A j \in 0 .. t.cap - 1 : u.ctrl[j] = IF j = i THEN v ELSE t.ctrl[j]
<1>1. /\ kGroup \in Nat /\ kGroup > 0 /\ t.cap \in Nat /\ t.cap >= kGroup
  BY CapIs
<1>2. /\ t = [cap |-> t.cap, ctrl |-> t.ctrl, slots |-> t.slots, size |-> t.size, tombs |-> t.tombs]
      /\ t.ctrl \in [0 .. t.cap + kGroup - 1 -> ControlBytes]
  BY DEF WellFormed
<1> DEFINE c == [j \in 0 .. t.cap + kGroup - 1 |->
                   IF j = i \/ (i < kGroup /\ j = t.cap + i) THEN v ELSE t.ctrl[j]]
<1>3. u = [t EXCEPT !.ctrl = c]
  <2>1. DOMAIN t.ctrl = 0 .. t.cap + kGroup - 1
    BY <1>2
  <2> QED
    BY <2>1 DEF SetCtrl
<1>4. u = [cap |-> t.cap, ctrl |-> c, slots |-> t.slots, size |-> t.size, tombs |-> t.tombs]
  <2> HIDE DEF c
  <2> QED
    BY <1>2, <1>3
<1>5. /\ u.ctrl = c /\ u.cap = t.cap /\ u.slots = t.slots /\ u.size = t.size /\ u.tombs = t.tombs
  <2> HIDE DEF c
  <2> QED
    BY <1>4
<1>6. c \in [0 .. t.cap + kGroup - 1 -> ControlBytes]
  BY <1>2
<1>7. WellFormed(u)
  <2> HIDE DEF c
  <2> QED
    BY <1>4, <1>5, <1>6 DEF WellFormed
<1>8. ASSUME NEW j \in 0 .. t.cap - 1 PROVE u.ctrl[j] = IF j = i THEN v ELSE t.ctrl[j]
  <2>1. j \in 0 .. t.cap + kGroup - 1 /\ j # t.cap + i
    BY <1>1
  <2> QED
    BY <1>5, <2>1
<1>9. Mirrored(u)
  <2> SUFFICES ASSUME NEW j \in 0 .. kGroup - 1 PROVE c[t.cap + j] = c[j]
    BY <1>5 DEF Mirrored
  <2>1. t.cap + j \in 0 .. t.cap + kGroup - 1 /\ j \in 0 .. t.cap + kGroup - 1
        /\ t.cap + j # i /\ j # t.cap + i /\ (t.cap + j = t.cap + i <=> j = i)
    BY <1>1
  <2>2. t.ctrl[t.cap + j] = t.ctrl[j]
    BY DEF Mirrored
  <2>3. i = j => i < kGroup
    BY <1>1
  <2> QED
    BY <2>1, <2>2, <2>3
<1> QED
  BY <1>4, <1>5, <1>7, <1>8, <1>9

\* What was reached is still reached if no other byte has become empty.
LEMMA ReachedKept ==
    ASSUME NEW t, WellFormed(t), Mirrored(t), NEW u, WellFormed(u), Mirrored(u), u.cap = t.cap,
           \A j \in 0 .. t.cap - 1 : u.ctrl[j] = kEmpty => t.ctrl[j] = kEmpty,
           NEW k \in Keys
    PROVE  /\ Reached(t, k) \subseteq Reached(u, k)
           /\ \A d \in Offsets(t) : SlotAt(u, k, d) = SlotAt(t, k, d)
<1>1. Offsets(u) = Offsets(t) /\ \A d \in Offsets(t) : SlotAt(u, k, d) = SlotAt(t, k, d)
  BY DEF Offsets, SlotAt, GroupStart
<1>2. ASSUME NEW e \in Offsets(t), ByteAt(t, k, e) # kEmpty PROVE ByteAt(u, k, e) # kEmpty
  <2>1. ByteAt(t, k, e) = t.ctrl[SlotAt(t, k, e)] /\ SlotAt(t, k, e) \in 0 .. t.cap - 1
    BY ProbeIsSlot
  <2>2. ByteAt(u, k, e) = u.ctrl[SlotAt(t, k, e)]
    BY <1>1, ProbeIsSlot
  <2> QED
    BY <1>2, <2>1, <2>2
<1> QED
  BY <1>1, <1>2 DEF Reached

\* Control bytes are numbers.
LEMMA BytesAre ==
    ASSUME NEW t, WellFormed(t), NEW j \in 0 .. t.cap - 1
    PROVE  t.ctrl[j] \in ControlBytes /\ t.ctrl[j] \in Int
<1>1. ControlBytes \subseteq Int
  BY DEF ControlBytes, kEmpty, kDeleted
<1>2. j \in 0 .. t.cap + kGroup - 1
  BY CapIs
<1>3. t.ctrl[j] \in ControlBytes
  BY <1>2 DEF WellFormed
<1> QED
  BY <1>1, <1>3

\* The first free slot is the same wherever the search for it ends, and a search
\* for the key gets there.
LEMMA FreeSlotIs ==
    ASSUME NEW t, WellFormed(t), Mirrored(t), \E j \in 0 .. t.cap - 1 : t.ctrl[j] < 0,
           NEW k \in Keys, NEW R \in {Offsets(t), Reached(t, k)}
    PROVE  \E d \in Reached(t, k) : /\ FirstFree(t, k, R) = SlotAt(t, k, d)
                                     /\ t.ctrl[SlotAt(t, k, d)] < 0
<1> DEFINE B == {b \in Int : b < 0}
           d == Min({e \in R : ByteAt(t, k, e) < 0})
<1>1. kEmpty \in B /\ \E j \in 0 .. t.cap - 1 : t.ctrl[j] \in B
  BY BytesAre DEF kEmpty
<1>2. ASSUME NEW e \in R PROVE ByteAt(t, k, e) \in B <=> ByteAt(t, k, e) < 0
  <2>1. e \in Offsets(t)
    BY DEF Reached
  <2>2. ByteAt(t, k, e) \in Int
    BY <2>1, ProbeIsSlot, BytesAre
  <2> QED
    BY <2>2
<1>3. {e \in R : ByteAt(t, k, e) < 0} = {e \in R : ByteAt(t, k, e) \in B}
  BY <1>2
<1>4. d = Min({e \in R : ByteAt(t, k, e) \in B})
  BY <1>3
<1> HIDE DEF B, d
<1>5. d \in Reached(t, k) /\ ByteAt(t, k, d) \in B
  BY <1>1, <1>4, FirstIsReached
<1>6. d \in Offsets(t)
  BY <1>5 DEF Reached
<1>7. FirstFree(t, k, R) = SlotAt(t, k, d)
  BY DEF FirstFree, d
<1>8. t.ctrl[SlotAt(t, k, d)] < 0
  BY <1>5, <1>6, ProbeIsSlot DEF B
<1> QED
  BY <1>5, <1>7, <1>8

\* What a table is after k was assigned v.
IsPut(t, u, k, v) ==
    /\ KeysIn(u) = KeysIn(t) \cup {k}
    /\ Contents(u) = [j \in KeysIn(t) \cup {k} |-> IF j = k THEN v ELSE Contents(t)[j]]

\* Slot i may take k, and leaves n tombstones.
Fits(t, k, v, i, n) ==
    /\ Sound(t) /\ k \in Keys /\ k \notin KeysIn(t) /\ v \in SlotValues
    /\ t.ctrl[i] < 0 /\ \E d \in Reached(t, k) : i = SlotAt(t, k, d)
    /\ t.ctrl[i] = kDeleted => n = t.tombs - 1
    /\ t.ctrl[i] # kDeleted => n = t.tombs

\* Filling a free slot that a search gets to for a key that is not there.
LEMMA OccupyIs ==
    ASSUME NEW t, NEW k, NEW v, NEW i, NEW n, Fits(t, k, v, i, n),
           NEW u, u = Occupy([t EXCEPT !.tombs = n], i, k, v)
    PROVE  /\ Sound(u) /\ u.cap = t.cap /\ u.size = t.size + 1 /\ u.tombs = n
           /\ u.size + u.tombs <= t.size + t.tombs + 1 /\ IsPut(t, u, k, v)
<1>0. WellFormed(t) /\ Mirrored(t) /\ Placed(t) /\ Once(t) /\ Counted(t)
  BY DEF Sound, Fits
<1>A. k \in Keys /\ k \notin KeysIn(t) /\ v \in SlotValues /\ t.ctrl[i] < 0
  BY DEF Fits
<1>b. PICK d \in Reached(t, k) : i = SlotAt(t, k, d)
  BY DEF Fits
<1>1. /\ kGroup \in Nat /\ kGroup > 0 /\ t.cap \in Nat /\ t.cap > 0
      /\ t = [cap |-> t.cap, ctrl |-> t.ctrl, slots |-> t.slots, size |-> t.size, tombs |-> t.tombs]
      /\ t.slots \in [0 .. t.cap - 1 -> Slot]
      /\ \A j \in 0 .. t.cap - 1 : t.ctrl[j] \in ControlBytes
  <2>1. kGroup \in Nat /\ kGroup > 0 /\ t.cap \in Nat /\ t.cap > 0
    BY <1>0, CapIs
  <2>2. 0 .. t.cap - 1 \subseteq 0 .. t.cap + kGroup - 1
    BY <2>1
  <2> QED
    BY <1>0, <2>1, <2>2 DEF WellFormed
<1>2. d \in Offsets(t) /\ i \in 0 .. t.cap - 1
  BY <1>0, <1>A, <1>b, ProbeIsSlot DEF Reached
<1> DEFINE t1 == [cap |-> t.cap, ctrl |-> t.ctrl, slots |-> t.slots, size |-> t.size, tombs |-> n]
           s  == SetCtrl(t1, i, H2[k])
<1>3. [t EXCEPT !.tombs = n] = t1 /\ WellFormed(t1) /\ Mirrored(t1)
  <2>1. [t EXCEPT !.tombs = n] = t1
    BY <1>1
  <2> QED
    BY <1>0, <2>1 DEF WellFormed, Mirrored
<1>4. H2[k] \in ControlBytes /\ H2[k] \in 0 .. 127
  BY <1>A, HashIs DEF ControlBytes
<1>5. /\ WellFormed(s) /\ Mirrored(s)
      /\ s = [cap |-> t.cap, ctrl |-> s.ctrl, slots |-> t.slots, size |-> t.size, tombs |-> n]
      /\ \A j \in 0 .. t.cap - 1 : s.ctrl[j] = IF j = i THEN H2[k] ELSE t.ctrl[j]
  <2>1. t1.cap = t.cap /\ t1.ctrl = t.ctrl /\ t1.slots = t.slots /\ t1.size = t.size /\ t1.tombs = n
    OBVIOUS
  <2> HIDE DEF t1
  <2>2. PICK w : w = SetCtrl(t1, i, H2[k])
    OBVIOUS
  <2>3. /\ WellFormed(w) /\ Mirrored(w)
        /\ w = [cap |-> t1.cap, ctrl |-> w.ctrl, slots |-> t1.slots, size |-> t1.size, tombs |-> t1.tombs]
        /\ \A j \in 0 .. t1.cap - 1 : w.ctrl[j] = IF j = i THEN H2[k] ELSE t1.ctrl[j]
    <3>1. i \in 0 .. t1.cap - 1
      BY <1>2, <2>1
    <3>2. WellFormed(t1) /\ Mirrored(t1) /\ H2[k] \in ControlBytes
      BY <1>3, <1>4
    <3> QED
      BY <2>2, <3>1, <3>2, SetCtrlIs
  <2>4. w = s
    BY <2>2
  <2> QED
    BY <2>1, <2>3, <2>4
<1> HIDE DEF s
<1> DEFINE slots == [t.slots EXCEPT ![i] = [key |-> k, value |-> v]]
<1>6. u = [cap |-> t.cap, ctrl |-> s.ctrl, slots |-> slots, size |-> t.size + 1, tombs |-> n]
  <2>1. u = [s EXCEPT !.slots[i] = [key |-> k, value |-> v], !.size = @ + 1]
    BY <1>3 DEF Occupy, s
  <2>2. PICK c : c = s.ctrl
    OBVIOUS
  <2>3. s = [cap |-> t.cap, ctrl |-> c, slots |-> t.slots, size |-> t.size, tombs |-> n]
    BY <1>5, <2>2
  <2>4. u = [cap |-> t.cap, ctrl |-> c, slots |-> slots, size |-> t.size + 1, tombs |-> n]
    BY <2>1, <2>3
  <2> HIDE DEF slots
  <2> QED
    BY <2>2, <2>4
<1>7. u.cap = t.cap /\ u.ctrl = s.ctrl /\ u.slots = slots /\ u.size = t.size + 1 /\ u.tombs = n
  <2> HIDE DEF slots
  <2> QED
    BY <1>6
<1>8. /\ \A j \in 0 .. t.cap - 1 : u.ctrl[j] = IF j = i THEN H2[k] ELSE t.ctrl[j]
      /\ \A j \in 0 .. t.cap - 1 : u.slots[j] = IF j = i THEN [key |-> k, value |-> v] ELSE t.slots[j]
  BY <1>1, <1>2, <1>5, <1>7
<1>9. WellFormed(u) /\ Mirrored(u)
  <2>1. slots \in [0 .. t.cap - 1 -> Slot]
    BY <1>1, <1>2, <1>A DEF Slot
  <2>2. s.ctrl \in [0 .. t.cap + kGroup - 1 -> ControlBytes]
    <3>1. s.cap = t.cap
      BY <1>5
    <3> QED
      BY <1>5, <3>1 DEF WellFormed
  <2>3. t.cap \in Capacities
    BY <1>0 DEF WellFormed
  <2>4. Mirrored(u)
    <3>1. s.cap = t.cap
      BY <1>5
    <3> QED
      BY <1>5, <1>7, <3>1 DEF Mirrored
  <2> HIDE DEF slots
  <2> QED
    BY <1>6, <1>7, <2>1, <2>2, <2>3, <2>4 DEF WellFormed
<1>10. i \notin FullSlots(t) /\ FullSlots(u) = FullSlots(t) \cup {i}
       /\ DeletedSlots(u) = DeletedSlots(t) \ {i}
  <2> HIDE DEF slots
  <2>1. \A j \in 0 .. t.cap - 1 : u.ctrl[j] = IF j = i THEN H2[k] ELSE t.ctrl[j]
    BY <1>8
  <2>2. H2[k] >= 0 /\ H2[k] # kDeleted
    BY <1>4 DEF kDeleted
  <2>3. FullSlots(u) = {j \in 0 .. t.cap - 1 : u.ctrl[j] >= 0}
        /\ DeletedSlots(u) = {j \in 0 .. t.cap - 1 : u.ctrl[j] = kDeleted}
    BY <1>7 DEF FullSlots, DeletedSlots
  <2>4. i \notin FullSlots(t)
    <3>1. t.ctrl[i] \in Int
      <4>1. ControlBytes \subseteq Int
        BY DEF ControlBytes, kEmpty, kDeleted
      <4>2. t.ctrl[i] \in ControlBytes
        BY <1>1, <1>2
      <4> QED
        BY <4>1, <4>2
    <3> QED
      BY <1>2, <1>A, <3>1 DEF FullSlots
  <2>5. FullSlots(u) = FullSlots(t) \cup {i}
    BY <1>2, <2>1, <2>2, <2>3 DEF FullSlots
  <2>6. DeletedSlots(u) = DeletedSlots(t) \ {i}
    BY <1>2, <2>1, <2>2, <2>3 DEF DeletedSlots
  <2> QED
    BY <2>4, <2>5, <2>6
<1>11. /\ \A j \in FullSlots(t) : j # i /\ j \in 0 .. t.cap - 1 /\ u.slots[j] = t.slots[j] /\ u.ctrl[j] = t.ctrl[j]
       /\ u.slots[i].key = k /\ u.slots[i].value = v /\ u.ctrl[i] = H2[k]
  BY <1>2, <1>8, <1>10 DEF FullSlots
<1>12. ASSUME NEW m \in Keys
       PROVE  /\ Reached(t, m) \subseteq Reached(u, m)
              /\ \A e \in Offsets(t) : SlotAt(u, m, e) = SlotAt(t, m, e)
  <2>1. \A j \in 0 .. t.cap - 1 : u.ctrl[j] = kEmpty => t.ctrl[j] = kEmpty
    BY <1>4, <1>8 DEF kEmpty
  <2> QED
    BY <1>0, <1>7, <1>9, <2>1, ReachedKept
<1>13. Placed(u)
  <2> SUFFICES ASSUME NEW j \in FullSlots(u)
               PROVE  /\ u.slots[j].key \in Keys /\ u.ctrl[j] = H2[u.slots[j].key]
                      /\ \E e \in Reached(u, u.slots[j].key) : SlotAt(u, u.slots[j].key, e) = j
    BY DEF Placed
  <2>1. CASE j = i
    <3>1. d \in Reached(u, k) /\ SlotAt(u, k, d) = i
      BY <1>2, <1>12, <1>A, <1>b
    <3> QED
      BY <1>11, <1>A, <2>1, <3>1
  <2>2. CASE j \in FullSlots(t)
    <3>1. /\ t.slots[j].key \in Keys /\ t.ctrl[j] = H2[t.slots[j].key]
          /\ \E e \in Reached(t, t.slots[j].key) : SlotAt(t, t.slots[j].key, e) = j
      BY <1>0, <2>2 DEF Placed
    <3>2. PICK m \in Keys : m = t.slots[j].key
      BY <3>1
    <3>3. PICK e \in Reached(t, m) : SlotAt(t, m, e) = j
      BY <3>1, <3>2
    <3>4. e \in Reached(u, m) /\ SlotAt(u, m, e) = j
      BY <1>12, <3>3 DEF Reached
    <3> QED
      BY <1>11, <2>2, <3>1, <3>2, <3>4
  <2> QED
    BY <1>10, <2>1, <2>2
<1>14. Once(u)
  BY <1>0, <1>10, <1>11, <1>A DEF Once, KeysIn
<1>15. /\ IsFiniteSet(FullSlots(t)) /\ IsFiniteSet(DeletedSlots(t)) /\ t.size \in Nat /\ t.tombs \in Nat
       /\ t.size = Cardinality(FullSlots(t)) /\ t.tombs = Cardinality(DeletedSlots(t))
  BY <1>0, CountsAreNat DEF Counted
<1>16. Counted(u) /\ n <= t.tombs /\ n \in Int
  <2>1. Cardinality(FullSlots(u)) = t.size + 1
    BY <1>10, <1>15, FS_AddElement
  <2>2. Cardinality(DeletedSlots(u)) = n
    <3>1. CASE t.ctrl[i] = kDeleted
      <4>1. i \in DeletedSlots(t)
        BY <1>2, <3>1 DEF DeletedSlots
      <4> QED
        BY <1>10, <1>15, <3>1, <4>1, FS_RemoveElement DEF Fits
    <3>2. CASE t.ctrl[i] # kDeleted
      <4>1. DeletedSlots(u) = DeletedSlots(t)
        BY <1>10, <3>2 DEF DeletedSlots
      <4> QED
        BY <1>15, <3>2, <4>1 DEF Fits
    <3> QED
      BY <3>1, <3>2
  <2>3. n <= t.tombs /\ n \in Int
    BY <1>15 DEF Fits
  <2> QED
    BY <1>7, <2>1, <2>2, <2>3 DEF Counted
<1>17. KeysIn(u) = KeysIn(t) \cup {k}
  BY <1>10, <1>11 DEF KeysIn
<1>18. Contents(u) = [j \in KeysIn(t) \cup {k} |-> IF j = k THEN v ELSE Contents(t)[j]]
  <2> DEFINE f == [j \in KeysIn(t) \cup {k} |-> IF j = k THEN v ELSE Contents(t)[j]]
  <2>1. f = [j \in KeysIn(u) |-> f[j]]
    BY <1>17
  <2>2. ASSUME NEW j \in FullSlots(u) PROVE f[u.slots[j].key] = u.slots[j].value
    <3>1. CASE j = i
      BY <1>11, <3>1
    <3>2. CASE j \in FullSlots(t)
      <4>1. t.slots[j].key \in KeysIn(t) /\ t.slots[j].key # k
        BY <1>A, <3>2 DEF KeysIn
      <4>2. Contents(t)[t.slots[j].key] = t.slots[j].value
        BY <1>0, <3>2, ContentsAre
      <4> QED
        BY <1>11, <3>2, <4>1, <4>2
    <3> QED
      BY <1>10, <3>1, <3>2
  <2> HIDE DEF f
  <2>3. Contents(u) = f
    BY <1>14, <2>1, <2>2, ContentsAre
  <2> QED
    BY <2>3 DEF f
<1>19. u.size + u.tombs <= t.size + t.tombs + 1
  BY <1>7, <1>15, <1>16
<1> QED
  BY <1>7, <1>9, <1>13, <1>14, <1>16, <1>17, <1>18, <1>19 DEF Sound, IsPut

-----------------------------------------------------------------------------
(* Rebuilding.                                                             *)

\* The load limit is below the capacity and grows with it.
LEMMA GrowAtIs ==
    ASSUME NEW c \in Nat, c > 0
    PROVE  /\ GrowAt(c) \in Nat /\ GrowAt(c) < c /\ GrowAt(c * 2) >= GrowAt(c) + 1
           /\ \A b \in Nat : b >= c => GrowAt(b) >= GrowAt(c)
  BY DEF GrowAt

\* An empty table.
LEMMA FreshIs ==
    ASSUME NEW c \in Capacities, NEW t, t = FreshTable(c)
    PROVE  /\ Sound(t) /\ Roomy(t) /\ t.cap = c /\ t.size = 0 /\ t.tombs = 0
           /\ KeysIn(t) = {} /\ Contents(t) = [k \in {} |-> k]
<1>1. /\ c \in Nat /\ c > 0 /\ kGroup \in Nat /\ kGroup > 0 /\ c >= kGroup
  BY CapacityFacts
<1>2. /\ t.cap = c /\ t.size = 0 /\ t.tombs = 0
      /\ t.ctrl  = [i \in 0 .. c + kGroup - 1 |-> kEmpty]
      /\ t.slots = [i \in 0 .. c - 1 |-> BlankSlot]
      /\ t = [cap |-> t.cap, ctrl |-> t.ctrl, slots |-> t.slots, size |-> t.size, tombs |-> t.tombs]
  BY DEF FreshTable
<1>3. BlankSlot \in Slot /\ kEmpty \in ControlBytes
  BY DEF BlankSlot, Slot, SlotValues, ControlBytes
<1>4. WellFormed(t)
  BY <1>2, <1>3 DEF WellFormed
<1>5. Mirrored(t)
  BY <1>1, <1>2 DEF Mirrored
<1>6. \A i \in 0 .. c - 1 : t.ctrl[i] = kEmpty
  BY <1>1, <1>2
<1>7. FullSlots(t) = {} /\ DeletedSlots(t) = {}
  <2>1. t.cap = c
    BY <1>2
  <2> QED
    BY <1>6, <2>1 DEF FullSlots, DeletedSlots, kEmpty, kDeleted
<1>8. Placed(t) /\ Once(t) /\ KeysIn(t) = {}
  BY <1>7 DEF Placed, Once, KeysIn
<1>9. Counted(t)
  BY <1>2, <1>7, FS_EmptySet DEF Counted
<1>10. Contents(t) = [k \in {} |-> k]
  <2>1. DOMAIN Contents(t) = {} /\ Contents(t) = [k \in KeysIn(t) |-> Contents(t)[k]]
    BY <1>7 DEF Contents, KeysIn
  <2> QED
    BY <1>8, <2>1
<1>11. Roomy(t)
  BY <1>1, <1>2, GrowAtIs DEF Roomy
<1> QED
  BY <1>2, <1>4, <1>5, <1>8, <1>9, <1>10, <1>11 DEF Sound

\* The step of the loop of rehash().
RehashBody(t, c, g, i) ==
    IF i = 0 THEN FreshTable(c)
    ELSE IF t.ctrl[i - 1] < 0 THEN g[i - 1]
    ELSE InsertMoved(g[i - 1], t.slots[i - 1].key, t.slots[i - 1].value)

\* The equation that defines the loop has a solution, so Rehash uses one.
LEMMA RehashUnfolds ==
    ASSUME NEW t, NEW c, t.cap \in Nat
    PROVE  \E g : /\ Rehash(t, c) = g[t.cap]
                  /\ \A i \in 0 .. t.cap : g[i] = RehashBody(t, c, g, i)
<1> DEFINE Solves(g, n) == g = [i \in 0 .. n |-> RehashBody(t, c, g, i)]
           Solvable == {n \in Nat : \E g : Solves(g, n)}
<1>1. 0 \in Solvable
  <2> DEFINE g == [i \in 0 .. 0 |-> FreshTable(c)]
  <2>1. Solves(g, 0)
    BY DEF RehashBody
  <2> HIDE DEF Solves, g
  <2> QED
    BY <2>1
<1>2. ASSUME NEW n \in Solvable PROVE n + 1 \in Solvable
  <2>1. n \in Nat
    OBVIOUS
  <2>2. PICK g : Solves(g, n)
    OBVIOUS
  <2> DEFINE h == [i \in 0 .. n + 1 |-> IF i \in 0 .. n THEN g[i] ELSE RehashBody(t, c, g, i)]
  <2>3. ASSUME NEW i \in 0 .. n + 1 PROVE h[i] = RehashBody(t, c, h, i)
    <3>1. h[i] = RehashBody(t, c, g, i)
      <4>1. CASE i \in 0 .. n
        <5>1. g[i] = RehashBody(t, c, g, i)
          BY <2>2, <4>1
        <5> QED
          BY <4>1, <5>1
      <4>2. CASE i \notin 0 .. n
        BY <4>2
      <4> QED
        BY <4>1, <4>2
    <3>2. CASE i = 0
      BY <3>1, <3>2 DEF RehashBody
    <3>3. CASE i # 0
      <4>1. i - 1 \in 0 .. n /\ i - 1 \in 0 .. n + 1
        BY <2>1, <3>3
      <4>2. h[i - 1] = g[i - 1]
        BY <4>1
      <4> HIDE DEF h
      <4> QED
        BY <3>1, <4>2 DEF RehashBody
    <3> QED
      BY <3>2, <3>3
  <2>4. Solves(h, n + 1)
    <3>1. h = [i \in 0 .. n + 1 |-> h[i]]
      OBVIOUS
    <3> HIDE DEF h
    <3> QED
      BY <2>3, <3>1
  <2> HIDE DEF Solves, h
  <2> QED
    BY <2>1, <2>4
<1>3. t.cap \in Solvable
  <2>1. Solvable \subseteq Nat
    OBVIOUS
  <2> HIDE DEF Solvable
  <2>2. Solvable = Nat
    BY <1>1, <1>2, <2>1, InductionOverNat
  <2> QED
    BY <2>2
<1> DEFINE moved == CHOOSE g : Solves(g, t.cap)
<1>4. Solves(moved, t.cap)
  <2> HIDE DEF Solves
  <2> QED
    BY <1>3
<1>5. Rehash(t, c) = moved[t.cap]
  BY DEF Rehash, RehashBody
<1>6. \A i \in 0 .. t.cap : moved[i] = RehashBody(t, c, moved, i)
  <2> HIDE DEF moved
  <2> QED
    BY <1>4
<1> HIDE DEF moved
<1> QED
  BY <1>5, <1>6

\* insert_moved() for a key that is not there, in a table without tombstones.
LEMMA InsertMovedIs ==
    ASSUME NEW w, Sound(w), w.tombs = 0, w.size < w.cap,
           NEW k \in Keys, k \notin KeysIn(w), NEW v \in SlotValues,
           NEW x, x = InsertMoved(w, k, v)
    PROVE  /\ Sound(x) /\ x.cap = w.cap /\ x.size = w.size + 1 /\ x.tombs = 0
           /\ IsPut(w, x, k, v)
<1>1. WellFormed(w) /\ Mirrored(w) /\ Counted(w)
  BY DEF Sound
<1>2. DeletedSlots(w) = {}
  <2>1. IsFiniteSet(DeletedSlots(w)) /\ Cardinality(DeletedSlots(w)) = 0
    BY <1>1, CountsAreNat DEF Counted
  <2> QED
    BY <2>1, FS_EmptySet
<1>3. \E j \in 0 .. w.cap - 1 : w.ctrl[j] < 0
  <2>1. w.size + w.tombs < w.cap
    BY <1>1, CountsAreNat, CapIs
  <2>2. \E j \in 0 .. w.cap - 1 : w.ctrl[j] = kEmpty
    BY <1>1, <2>1, EmptyByte
  <2> QED
    BY <2>2 DEF kEmpty
<1>4. PICK d \in Reached(w, k) : /\ FirstFree(w, k, Offsets(w)) = SlotAt(w, k, d)
                                 /\ w.ctrl[SlotAt(w, k, d)] < 0
  BY <1>1, <1>3, FreeSlotIs
<1>5. PICK i : i = SlotAt(w, k, d)
  OBVIOUS
<1>6. w.ctrl[i] < 0 /\ i \in 0 .. w.cap - 1
  BY <1>1, <1>4, <1>5, ProbeIsSlot DEF Reached
<1>7. w.ctrl[i] # kDeleted
  BY <1>2, <1>6 DEF DeletedSlots
<1>8. PICK m : m = w.tombs
  OBVIOUS
<1>9. m = 0 /\ [w EXCEPT !.tombs = m] = w
  <2>1. w = [cap |-> w.cap, ctrl |-> w.ctrl, slots |-> w.slots, size |-> w.size, tombs |-> w.tombs]
    BY <1>1 DEF WellFormed
  <2>2. m = 0
    BY <1>8
  <2> QED
    BY <2>1, <2>2
<1>10. x = Occupy([w EXCEPT !.tombs = m], i, k, v)
  BY <1>4, <1>5, <1>9 DEF InsertMoved
<1>11. /\ Sound(x) /\ x.cap = w.cap /\ x.size = w.size + 1 /\ x.tombs = m
       /\ IsPut(w, x, k, v)
  <2>1. Fits(w, k, v, i, m)
    BY <1>4, <1>5, <1>6, <1>7, <1>8 DEF Fits
  <2> QED
    BY <1>10, <2>1, OccupyIs
<1> QED
  BY <1>9, <1>11

\* What rehash() has moved when it has looked at the first n slots.
Moved(t, n) == {i \in FullSlots(t) : i < n}

HalfMoved(t, w, c, n) ==
    /\ Sound(w) /\ w.cap = c /\ w.tombs = 0 /\ w.size = Cardinality(Moved(t, n))
    /\ KeysIn(w) = {t.slots[i].key : i \in Moved(t, n)}
    /\ \A i \in Moved(t, n) : Contents(w)[t.slots[i].key] = t.slots[i].value

\* rehash() keeps the contents and drops the tombstones.
LEMMA RehashIs ==
    ASSUME NEW t, Sound(t), NEW c \in Capacities, t.size <= GrowAt(c), NEW u, u = Rehash(t, c)
    PROVE  /\ Sound(u) /\ u.cap = c /\ u.size = t.size /\ u.tombs = 0
           /\ KeysIn(u) = KeysIn(t) /\ Contents(u) = Contents(t)
<1>0. WellFormed(t) /\ Placed(t) /\ Once(t) /\ Counted(t)
  BY DEF Sound
<1>1. t.cap \in Nat /\ t.cap > 0 /\ c \in Nat /\ c > 0
  BY <1>0, CapIs, CapacityFacts
<1>2. /\ IsFiniteSet(FullSlots(t)) /\ t.size \in Nat /\ t.size = Cardinality(FullSlots(t))
  BY <1>0, CountsAreNat DEF Counted
<1>3. PICK g : /\ u = g[t.cap]
               /\ \A i \in 0 .. t.cap : g[i] = RehashBody(t, c, g, i)
  BY <1>1, RehashUnfolds
<1> DEFINE S == {n \in Nat : n <= t.cap => HalfMoved(t, g[n], c, n)}
<1>4. 0 \in S
  <2>1. g[0] = FreshTable(c)
    <3>1. 0 \in 0 .. t.cap
      BY <1>1
    <3> QED
      BY <1>3, <3>1 DEF RehashBody
  <2>2. Moved(t, 0) = {}
    BY <1>1 DEF Moved, FullSlots
  <2>3. HalfMoved(t, g[0], c, 0)
    <3>1. Sound(g[0]) /\ g[0].cap = c /\ g[0].size = 0 /\ g[0].tombs = 0 /\ KeysIn(g[0]) = {}
      BY <2>1, FreshIs
    <3> QED
      BY <2>2, <3>1, FS_EmptySet DEF HalfMoved
  <2> QED
    BY <2>3
<1>5. ASSUME NEW n \in S PROVE n + 1 \in S
  <2>1. n \in Nat
    OBVIOUS
  <2>2. SUFFICES ASSUME n + 1 <= t.cap PROVE HalfMoved(t, g[n + 1], c, n + 1)
    BY <2>1
  <2>3. HalfMoved(t, g[n], c, n)
    BY <1>1, <2>1, <2>2
  <2>4. g[n + 1] = IF t.ctrl[n] < 0 THEN g[n] ELSE InsertMoved(g[n], t.slots[n].key, t.slots[n].value)
    <3>1. n + 1 \in 0 .. t.cap /\ n + 1 # 0 /\ (n + 1) - 1 = n
      BY <1>1, <2>1, <2>2
    <3> QED
      BY <1>3, <3>1 DEF RehashBody
  <2>5. n \in 0 .. t.cap - 1 /\ n \in Int
    BY <1>1, <2>1, <2>2
  <2>6. IsFiniteSet(Moved(t, n)) /\ Cardinality(Moved(t, n)) \in Nat
    <3>1. Moved(t, n) \subseteq FullSlots(t)
      BY DEF Moved
    <3> QED
      BY <1>2, <3>1, FS_Subset, FS_CardinalityType
  <2>7. CASE n \notin FullSlots(t)
    <3>1. t.ctrl[n] < 0
      <4>1. t.ctrl[n] \in ControlBytes
        <5>1. n \in 0 .. t.cap + kGroup - 1
          BY <1>0, <1>1, <2>5, CapIs
        <5> QED
          BY <1>0, <5>1 DEF WellFormed
      <4>2. ControlBytes \subseteq Int
        BY DEF ControlBytes, kEmpty, kDeleted
      <4>3. t.ctrl[n] \in Int
        BY <4>1, <4>2
      <4> QED
        BY <2>5, <2>7, <4>3 DEF FullSlots
    <3>2. Moved(t, n + 1) = Moved(t, n)
      BY <1>1, <2>1, <2>7 DEF Moved, FullSlots
    <3> QED
      BY <2>3, <2>4, <3>1, <3>2 DEF HalfMoved
  <2>8. CASE n \in FullSlots(t)
    <3> DEFINE k == t.slots[n].key
               v == t.slots[n].value
               w == g[n]
    <3>1. ~(t.ctrl[n] < 0) /\ k \in Keys /\ v \in SlotValues
      <4>1. t.slots[n] \in Slot
        BY <1>0, <2>5 DEF WellFormed
      <4>2. t.ctrl[n] >= 0 /\ t.ctrl[n] = H2[k] /\ k \in Keys
        BY <1>0, <2>8 DEF FullSlots, Placed
      <4>3. H2[k] \in Int
        BY <4>2, HashIs
      <4> QED
        BY <4>1, <4>2, <4>3 DEF Slot
    <3>2. Moved(t, n + 1) = Moved(t, n) \cup {n} /\ n \notin Moved(t, n)
      BY <1>1, <2>1, <2>8 DEF Moved, FullSlots
    <3>3. k \notin KeysIn(w)
      <4>1. \A i \in Moved(t, n) : t.slots[i].key # k
        BY <1>0, <2>8, <3>2 DEF Moved, Once
      <4> QED
        BY <2>3, <4>1 DEF HalfMoved
    <3>4. Cardinality(Moved(t, n + 1)) = w.size + 1
      BY <2>3, <2>6, <3>2, FS_AddElement DEF HalfMoved
    <3>5. w.size < c
      <4>1. Moved(t, n + 1) \subseteq FullSlots(t)
        BY DEF Moved
      <4>2. Cardinality(Moved(t, n + 1)) <= t.size
        BY <1>2, <4>1, FS_Subset
      <4>3. w.size \in Nat
        BY <2>3, <2>6 DEF HalfMoved
      <4>4. GrowAt(c) \in Nat /\ GrowAt(c) < c
        BY <1>1, GrowAtIs
      <4> HIDE DEF w
      <4> QED
        BY <1>1, <1>2, <3>4, <4>2, <4>3, <4>4
    <3>6. Sound(w) /\ w.cap = c /\ w.tombs = 0
      BY <2>3 DEF HalfMoved
    <3>7. PICK x : x = g[n + 1]
      OBVIOUS
    <3>8. x = InsertMoved(w, k, v)
      BY <2>4, <3>1, <3>7
    <3>9. /\ Sound(x) /\ x.cap = w.cap /\ x.size = w.size + 1 /\ x.tombs = 0
          /\ KeysIn(x) = KeysIn(w) \cup {k}
          /\ Contents(x) = [j \in KeysIn(w) \cup {k} |-> IF j = k THEN v ELSE Contents(w)[j]]
      <4>1. w.size < w.cap /\ w.tombs = 0 /\ Sound(w)
        BY <3>5, <3>6
      <4> HIDE DEF w, k, v
      <4>2. /\ Sound(x) /\ x.cap = w.cap /\ x.size = w.size + 1 /\ x.tombs = 0
            /\ IsPut(w, x, k, v)
        BY <3>1, <3>3, <3>8, <4>1, InsertMovedIs
      <4> QED
        BY <4>2 DEF IsPut
    <3>13. HalfMoved(t, x, c, n + 1)
      <4>1. KeysIn(x) = {t.slots[j].key : j \in Moved(t, n + 1)}
        BY <2>3, <3>2, <3>9 DEF HalfMoved
      <4>2. ASSUME NEW j \in Moved(t, n + 1) PROVE Contents(x)[t.slots[j].key] = t.slots[j].value
        <5>1. CASE j = n
          BY <3>9, <5>1
        <5>2. CASE j \in Moved(t, n)
          <6>1. t.slots[j].key \in KeysIn(w) /\ Contents(w)[t.slots[j].key] = t.slots[j].value
            BY <2>3, <5>2 DEF HalfMoved
          <6> QED
            BY <3>3, <3>9, <6>1
        <5> QED
          BY <3>2, <5>1, <5>2
      <4> HIDE DEF w
      <4> QED
        BY <3>4, <3>6, <3>9, <4>1, <4>2 DEF HalfMoved
    <3> QED
      BY <3>7, <3>13
  <2> QED
    BY <2>7, <2>8
<1>6. HalfMoved(t, u, c, t.cap)
  <2>1. S \subseteq Nat
    OBVIOUS
  <2> HIDE DEF S
  <2>2. S = Nat
    BY <1>4, <1>5, <2>1, InductionOverNat
  <2> QED
    BY <1>1, <1>3, <2>2 DEF S
<1>7. Moved(t, t.cap) = FullSlots(t)
  BY <1>1 DEF Moved, FullSlots
<1>8. Contents(t) = Contents(u)
  <2>1. KeysIn(u) = KeysIn(t)
    BY <1>6, <1>7 DEF HalfMoved, KeysIn
  <2>2. Contents(u) = [k \in KeysIn(u) |-> Contents(u)[k]]
    BY DEF Contents, KeysIn
  <2>3. \A i \in FullSlots(t) : Contents(u)[t.slots[i].key] = t.slots[i].value
    BY <1>6, <1>7 DEF HalfMoved
  <2> QED
    BY <1>0, <2>1, <2>2, <2>3, ContentsAre
<1> QED
  BY <1>2, <1>6, <1>7, <1>8 DEF HalfMoved, KeysIn

-----------------------------------------------------------------------------
(* The operations.                                                         *)

\* There is room for a key, and nothing was lost to make it.
LEMMA MakeRoomIs ==
    ASSUME NEW t, Sound(t), Roomy(t), NEW r, r = MakeRoom(t)
    PROVE  /\ Sound(r) /\ r.size + r.tombs + 1 <= GrowAt(r.cap)
           /\ KeysIn(r) = KeysIn(t) /\ Contents(r) = Contents(t)
<1>1. /\ t.cap \in Nat /\ t.cap > 0 /\ t.cap \in Capacities /\ t.cap * 2 \in Capacities /\ t.cap * 2 \in Nat
      /\ t.size \in Nat /\ t.tombs \in Nat /\ t.size + t.tombs <= GrowAt(t.cap)
  BY CapIs, CapacityFacts, CountsAreNat DEF Sound, WellFormed, Roomy
<1>2. /\ GrowAt(t.cap) \in Nat /\ GrowAt(t.cap * 2) >= GrowAt(t.cap) + 1 /\ GrowAt(t.cap * 2) \in Nat
  <2>1. GrowAt(t.cap) \in Nat /\ GrowAt(t.cap * 2) >= GrowAt(t.cap) + 1
    BY <1>1, GrowAtIs
  <2>2. PICK c \in Nat : c = t.cap * 2
    BY <1>1
  <2>3. c > 0
    BY <1>1, <2>2
  <2>4. GrowAt(c) \in Nat
    BY <2>3, GrowAtIs
  <2> QED
    BY <2>1, <2>2, <2>4
<1>3. CASE t.size + 1 > GrowAt(t.cap)
  <2>1. r = Rehash(t, t.cap * 2)
    BY <1>3 DEF MakeRoom
  <2>2. t.size <= GrowAt(t.cap * 2) /\ t.size + 1 <= GrowAt(t.cap * 2)
    BY <1>1, <1>2
  <2>3. PICK c \in Capacities : c = t.cap * 2
    BY <1>1
  <2>4. r = Rehash(t, c) /\ t.size <= GrowAt(c) /\ t.size + 1 <= GrowAt(c)
    BY <2>1, <2>2, <2>3
  <2>5. Sound(r) /\ r.cap = c /\ r.size = t.size /\ r.tombs = 0 /\ KeysIn(r) = KeysIn(t) /\ Contents(r) = Contents(t)
    <3>1. r = Rehash(t, c)
      BY <2>4
    <3>2. t.size <= GrowAt(c)
      BY <2>4
    <3> QED
      BY <3>1, <3>2, RehashIs
  <2> QED
    BY <1>1, <2>4, <2>5
<1>4. CASE ~(t.size + 1 > GrowAt(t.cap)) /\ t.size + t.tombs + 1 > GrowAt(t.cap)
  <2>1. r = Rehash(t, t.cap)
    BY <1>4 DEF MakeRoom
  <2>2. t.size <= GrowAt(t.cap) /\ t.size + 1 <= GrowAt(t.cap)
    BY <1>1, <1>2, <1>4
  <2>3. PICK c \in Capacities : c = t.cap
    BY <1>1
  <2>4. r = Rehash(t, c) /\ t.size <= GrowAt(c) /\ t.size + 1 <= GrowAt(c)
    BY <2>1, <2>2, <2>3
  <2>5. Sound(r) /\ r.cap = c /\ r.size = t.size /\ r.tombs = 0 /\ KeysIn(r) = KeysIn(t) /\ Contents(r) = Contents(t)
    <3>1. r = Rehash(t, c)
      BY <2>4
    <3>2. t.size <= GrowAt(c)
      BY <2>4
    <3> QED
      BY <3>1, <3>2, RehashIs
  <2> QED
    BY <1>1, <2>4, <2>5
<1>5. CASE ~(t.size + 1 > GrowAt(t.cap)) /\ ~(t.size + t.tombs + 1 > GrowAt(t.cap))
  <2>1. r = t
    BY <1>5 DEF MakeRoom
  <2>2. t.size + t.tombs + 1 <= GrowAt(t.cap)
    BY <1>1, <1>2, <1>5
  <2> QED
    BY <2>1, <2>2
<1> QED
  BY <1>3, <1>4, <1>5

\* Another value for a key that is there.
Assigned(t, i, v) == [t EXCEPT !.slots[i].value = v]

LEMMA AssignIs ==
    ASSUME NEW t, Sound(t), Roomy(t), NEW i \in FullSlots(t), NEW v \in Values,
           NEW u, u = Assigned(t, i, v)
    PROVE  Sound(u) /\ Roomy(u) /\ IsPut(t, u, t.slots[i].key, v)
<1>0. WellFormed(t) /\ Mirrored(t) /\ Placed(t) /\ Once(t) /\ Counted(t)
  BY DEF Sound
<1>1. /\ t = [cap |-> t.cap, ctrl |-> t.ctrl, slots |-> t.slots, size |-> t.size, tombs |-> t.tombs]
      /\ t.slots \in [0 .. t.cap - 1 -> Slot] /\ i \in 0 .. t.cap - 1
  BY <1>0 DEF WellFormed, FullSlots
<1> DEFINE slots == [t.slots EXCEPT ![i] = [@ EXCEPT !.value = v]]
<1>2. u = [cap |-> t.cap, ctrl |-> t.ctrl, slots |-> slots, size |-> t.size, tombs |-> t.tombs]
  BY <1>1 DEF Assigned
<1>3. /\ u.cap = t.cap /\ u.ctrl = t.ctrl /\ u.slots = slots /\ u.size = t.size /\ u.tombs = t.tombs
  <2> HIDE DEF slots
  <2> QED
    BY <1>2
<1>4. slots \in [0 .. t.cap - 1 -> Slot]
  <2>1. [t.slots[i] EXCEPT !.value = v] \in Slot
    <3>1. t.slots[i] \in Slot
      BY <1>1
    <3> QED
      BY <3>1 DEF Slot, SlotValues
  <2> QED
    BY <1>1, <2>1
<1>5. \A j \in 0 .. t.cap - 1 : /\ slots[j].key = t.slots[j].key
                               /\ slots[j].value = IF j = i THEN v ELSE t.slots[j].value
  <2> SUFFICES ASSUME NEW j \in 0 .. t.cap - 1
               PROVE  /\ slots[j].key = t.slots[j].key
                      /\ slots[j].value = IF j = i THEN v ELSE t.slots[j].value
    OBVIOUS
  <2>1. t.slots[j] \in Slot
    BY <1>1
  <2>2. slots[j] = IF j = i THEN [t.slots[i] EXCEPT !.value = v] ELSE t.slots[j]
    BY <1>1
  <2> HIDE DEF slots
  <2> QED
    BY <2>1, <2>2 DEF Slot
<1> HIDE DEF slots
<1>6. WellFormed(u) /\ Mirrored(u)
  BY <1>0, <1>2, <1>3, <1>4 DEF WellFormed, Mirrored
<1>7. FullSlots(u) = FullSlots(t) /\ DeletedSlots(u) = DeletedSlots(t)
  BY <1>3 DEF FullSlots, DeletedSlots
<1>8. \A j \in FullSlots(t) : /\ j \in 0 .. t.cap - 1 /\ u.slots[j].key = t.slots[j].key
                             /\ u.slots[j].value = IF j = i THEN v ELSE t.slots[j].value
  BY <1>3, <1>5 DEF FullSlots
<1>9. \A k \in Keys : /\ Reached(u, k) = Reached(t, k)
                     /\ \A d \in Offsets(t) : SlotAt(u, k, d) = SlotAt(t, k, d)
  BY <1>3 DEF Reached, Offsets, SlotAt, ByteAt, GroupStart
<1>10. Placed(u)
  <2> SUFFICES ASSUME NEW j \in FullSlots(u)
               PROVE  /\ u.slots[j].key \in Keys /\ u.ctrl[j] = H2[u.slots[j].key]
                      /\ \E e \in Reached(u, u.slots[j].key) : SlotAt(u, u.slots[j].key, e) = j
    BY DEF Placed
  <2>1. PICK k : k = t.slots[j].key
    OBVIOUS
  <2>2. k \in Keys /\ t.ctrl[j] = H2[k] /\ \E e \in Reached(t, k) : SlotAt(t, k, e) = j
    BY <1>0, <1>7, <2>1 DEF Placed
  <2>3. u.slots[j].key = k
    BY <1>7, <1>8, <2>1
  <2>4. \E e \in Reached(u, k) : SlotAt(u, k, e) = j
    BY <1>9, <2>2 DEF Reached
  <2> QED
    BY <1>3, <2>2, <2>3, <2>4
<1>11. Once(u) /\ Counted(u) /\ Roomy(u) /\ KeysIn(u) = KeysIn(t)
  <2>1. Once(u)
    BY <1>0, <1>7, <1>8 DEF Once
  <2>2. Counted(u) /\ Roomy(u)
    BY <1>0, <1>3, <1>7 DEF Counted, Roomy
  <2>3. KeysIn(u) = KeysIn(t)
    BY <1>7, <1>8 DEF KeysIn
  <2> QED
    BY <2>1, <2>2, <2>3
<1> DEFINE k == t.slots[i].key
           f == [j \in KeysIn(t) \cup {k} |-> IF j = k THEN v ELSE Contents(t)[j]]
<1>12. k \in KeysIn(t) /\ KeysIn(t) \cup {k} = KeysIn(t)
  BY DEF KeysIn
<1>13. ASSUME NEW j \in FullSlots(u) PROVE f[u.slots[j].key] = u.slots[j].value
  <2>1. t.slots[j].key \in KeysIn(t) /\ u.slots[j].key = t.slots[j].key
    BY <1>7, <1>8 DEF KeysIn
  <2>2. t.slots[j].key = k <=> j = i
    BY <1>0, <1>7 DEF Once
  <2>3. Contents(t)[t.slots[j].key] = t.slots[j].value
    BY <1>0, <1>7, ContentsAre
  <2> QED
    BY <1>7, <1>8, <2>1, <2>2, <2>3
<1>14. f = [j \in KeysIn(u) |-> f[j]]
  BY <1>11, <1>12
<1> HIDE DEF f
<1>15. Contents(u) = f
  <2>1. Once(u)
    BY <1>11
  <2> HIDE DEF k
  <2> QED
    BY <1>13, <1>14, <2>1, ContentsAre
<1> QED
  BY <1>6, <1>10, <1>11, <1>12, <1>15 DEF Sound, IsPut, f

\* insert_or_assign()
LEMMA InsertIs ==
    ASSUME NEW t, Sound(t), Roomy(t), NEW k \in Keys, NEW v \in Values,
           NEW r, r = InsertOrAssign(t, k, v)
    PROVE  /\ Sound(r.table) /\ Roomy(r.table) /\ IsPut(t, r.table, k, v)
           /\ r.result \in BOOLEAN /\ (r.result <=> k \notin KeysIn(t))
<1>1. PICK s : s = MakeRoom(t)
  OBVIOUS
<1>2. /\ Sound(s) /\ s.size + s.tombs + 1 <= GrowAt(s.cap)
      /\ KeysIn(s) = KeysIn(t) /\ Contents(s) = Contents(t)
  BY <1>1, MakeRoomIs
<1>3. /\ s.cap \in Nat /\ s.cap > 0 /\ s.size \in Nat /\ s.tombs \in Nat
      /\ GrowAt(s.cap) \in Nat /\ GrowAt(s.cap) < s.cap
  BY <1>2, CapIs, CountsAreNat, GrowAtIs DEF Sound
<1>4. Roomy(s) /\ s.size + s.tombs < s.cap
  BY <1>2, <1>3 DEF Roomy
<1>5. CASE k \in KeysIn(t)
  <2>1. PICK i : i = Find(s, k)
    OBVIOUS
  <2>2. i \in FullSlots(s) /\ s.slots[i].key = k /\ i >= 0
    BY <1>2, <1>5, <2>1, FindIs
  <2>3. PICK u : u = Assigned(s, i, v)
    OBVIOUS
  <2>4. r = [table |-> u, result |-> FALSE]
    BY <1>1, <2>1, <2>2, <2>3 DEF InsertOrAssign, Assigned
  <2>5. Sound(u) /\ Roomy(u) /\ IsPut(s, u, s.slots[i].key, v)
    <3>1. Sound(s) /\ Roomy(s) /\ i \in FullSlots(s)
      BY <1>2, <1>4, <2>2
    <3> QED
      BY <2>3, <3>1, AssignIs
  <2>6. IsPut(t, u, k, v)
    BY <1>2, <2>2, <2>5 DEF IsPut
  <2>7. r.table = u /\ r.result \in BOOLEAN /\ (r.result <=> k \notin KeysIn(t))
    BY <1>5, <2>4
  <2> QED
    BY <2>5, <2>6, <2>7
<1>6. CASE k \notin KeysIn(t)
  <2>1. WellFormed(s) /\ Mirrored(s) /\ Counted(s) /\ ~(Find(s, k) >= 0)
    BY <1>2, <1>6, FindIs DEF Sound
  <2>2. \E j \in 0 .. s.cap - 1 : s.ctrl[j] < 0
    <3>1. \E j \in 0 .. s.cap - 1 : s.ctrl[j] = kEmpty
      BY <1>4, <2>1, EmptyByte
    <3> QED
      BY <3>1 DEF kEmpty
  <2>3. PICK d \in Reached(s, k) : /\ FirstFree(s, k, Reached(s, k)) = SlotAt(s, k, d)
                                   /\ s.ctrl[SlotAt(s, k, d)] < 0
    BY <2>1, <2>2, FreeSlotIs
  <2>4. PICK i : i = SlotAt(s, k, d)
    OBVIOUS
  <2>5. s.ctrl[i] < 0 /\ d \in Reached(s, k)
    BY <2>3, <2>4
  <2>6. PICK n : n = IF s.ctrl[i] = kDeleted THEN s.tombs - 1 ELSE s.tombs
    OBVIOUS
  <2>7. PICK u : u = Occupy([s EXCEPT !.tombs = n], i, k, v)
    OBVIOUS
  <2>8. r = [table |-> u, result |-> TRUE]
    <3>4. FirstFree(s, k, Reached(s, k)) = i
      BY <2>3, <2>4
    <3>5. s = [cap |-> s.cap, ctrl |-> s.ctrl, slots |-> s.slots, size |-> s.size, tombs |-> s.tombs]
      BY <2>1 DEF WellFormed
    <3>6. [s EXCEPT !.tombs = IF s.ctrl[i] = kDeleted THEN @ - 1 ELSE @] = [s EXCEPT !.tombs = n]
      BY <2>6
    <3>7. r = [table |-> Occupy([s EXCEPT !.tombs = IF s.ctrl[i] = kDeleted THEN @ - 1 ELSE @], i, k, v),
               result |-> TRUE]
      BY <1>1, <2>1, <3>4 DEF InsertOrAssign
    <3> QED
      BY <2>7, <3>6, <3>7
  <2>9. /\ Sound(u) /\ u.cap = s.cap /\ u.size = s.size + 1 /\ u.tombs = n
        /\ u.size + u.tombs <= s.size + s.tombs + 1 /\ IsPut(s, u, k, v)
    <3>1. s.ctrl[i] = kDeleted => n = s.tombs - 1
      BY <2>6
    <3>2. s.ctrl[i] # kDeleted => n = s.tombs
      BY <2>6
    <3>3. k \notin KeysIn(s) /\ v \in SlotValues
      BY <1>2, <1>6 DEF SlotValues
    <3>4. Fits(s, k, v, i, n)
      BY <1>2, <2>4, <2>5, <3>1, <3>2, <3>3 DEF Fits
    <3> QED
      BY <2>7, <3>4, OccupyIs
  <2>10. u.size \in Nat /\ u.tombs \in Nat
    BY <2>9, CountsAreNat DEF Sound
  <2>11. Roomy(u)
    BY <1>2, <1>3, <2>9, <2>10 DEF Roomy
  <2>12. IsPut(t, u, k, v)
    BY <1>2, <2>9 DEF IsPut
  <2>13. r.table = u /\ r.result \in BOOLEAN /\ (r.result <=> k \notin KeysIn(t))
    BY <1>6, <2>8
  <2> QED
    BY <2>9, <2>11, <2>12, <2>13
<1> QED
  BY <1>5, <1>6

\* What a table is without k.
IsDrop(t, u, k) ==
    /\ KeysIn(u) = KeysIn(t) \ {k}
    /\ Contents(u) = [j \in KeysIn(t) \ {k} |-> Contents(t)[j]]

\* A slot becomes a tombstone.
Buried(t, i) ==
    [SetCtrl(t, i, kDeleted) EXCEPT !.slots[i] = BlankSlot, !.size = @ - 1, !.tombs = @ + 1]

LEMMA BuriedIs ==
    ASSUME NEW t, Sound(t), Roomy(t), NEW i \in FullSlots(t), NEW u, u = Buried(t, i)
    PROVE  Sound(u) /\ Roomy(u) /\ IsDrop(t, u, t.slots[i].key)
<1>0. WellFormed(t) /\ Mirrored(t) /\ Placed(t) /\ Once(t) /\ Counted(t)
  BY DEF Sound
<1>1. /\ t.slots \in [0 .. t.cap - 1 -> Slot] /\ t.cap \in Capacities
      /\ i \in 0 .. t.cap - 1 /\ t.ctrl[i] >= 0
  BY <1>0 DEF WellFormed, FullSlots
<1>2. kDeleted \in ControlBytes /\ BlankSlot \in Slot
  BY DEF ControlBytes, BlankSlot, Slot, SlotValues
<1>3. PICK s : s = SetCtrl(t, i, kDeleted)
  OBVIOUS
<1>4. /\ WellFormed(s) /\ Mirrored(s)
      /\ s = [cap |-> t.cap, ctrl |-> s.ctrl, slots |-> t.slots, size |-> t.size, tombs |-> t.tombs]
      /\ \A j \in 0 .. t.cap - 1 : s.ctrl[j] = IF j = i THEN kDeleted ELSE t.ctrl[j]
  BY <1>0, <1>1, <1>2, <1>3, SetCtrlIs
<1> DEFINE slots == [t.slots EXCEPT ![i] = BlankSlot]
<1>5. u = [cap |-> t.cap, ctrl |-> s.ctrl, slots |-> slots, size |-> t.size - 1, tombs |-> t.tombs + 1]
  <2>1. u = [s EXCEPT !.slots[i] = BlankSlot, !.size = @ - 1, !.tombs = @ + 1]
    BY <1>3 DEF Buried
  <2>2. PICK c : c = s.ctrl
    OBVIOUS
  <2>3. s = [cap |-> t.cap, ctrl |-> c, slots |-> t.slots, size |-> t.size, tombs |-> t.tombs]
    BY <1>4, <2>2
  <2>4. u = [cap |-> t.cap, ctrl |-> c, slots |-> slots, size |-> t.size - 1, tombs |-> t.tombs + 1]
    BY <2>1, <2>3
  <2> HIDE DEF slots
  <2> QED
    BY <2>2, <2>4
<1>6. /\ u.cap = t.cap /\ u.ctrl = s.ctrl /\ u.slots = slots
      /\ u.size = t.size - 1 /\ u.tombs = t.tombs + 1
  <2> HIDE DEF slots
  <2> QED
    BY <1>5
<1>7. /\ slots \in [0 .. t.cap - 1 -> Slot]
      /\ \A j \in 0 .. t.cap - 1 : j # i => slots[j] = t.slots[j]
  BY <1>1, <1>2
<1> HIDE DEF slots
<1>8. WellFormed(u) /\ Mirrored(u)
  <2>1. s.cap = t.cap
    BY <1>4
  <2>2. s.ctrl \in [0 .. t.cap + kGroup - 1 -> ControlBytes]
    BY <1>4, <2>1 DEF WellFormed
  <2>3. Mirrored(u)
    BY <1>4, <1>6, <2>1 DEF Mirrored
  <2> QED
    BY <1>1, <1>5, <1>6, <1>7, <2>2, <2>3 DEF WellFormed
<1>9. \A j \in 0 .. t.cap - 1 : u.ctrl[j] = IF j = i THEN kDeleted ELSE t.ctrl[j]
  BY <1>4, <1>6
<1>10. \A j \in 0 .. t.cap - 1 : j # i => u.slots[j] = t.slots[j]
  BY <1>6, <1>7
<1>11. FullSlots(u) = FullSlots(t) \ {i} /\ DeletedSlots(u) = DeletedSlots(t) \cup {i} /\ i \notin DeletedSlots(t)
  <2>1. u.cap = t.cap
    BY <1>6
  <2>2. ~(kDeleted >= 0)
    BY DEF kDeleted
  <2>3. FullSlots(u) = {j \in 0 .. t.cap - 1 : u.ctrl[j] >= 0}
    BY <2>1 DEF FullSlots
  <2>4. DeletedSlots(u) = {j \in 0 .. t.cap - 1 : u.ctrl[j] = kDeleted}
    BY <2>1 DEF DeletedSlots
  <2>5. FullSlots(t) = {j \in 0 .. t.cap - 1 : t.ctrl[j] >= 0}
    BY DEF FullSlots
  <2>6. DeletedSlots(t) = {j \in 0 .. t.cap - 1 : t.ctrl[j] = kDeleted}
    BY DEF DeletedSlots
  <2>7. FullSlots(u) = FullSlots(t) \ {i}
    <3>1. ASSUME NEW j \in 0 .. t.cap - 1 PROVE u.ctrl[j] >= 0 <=> t.ctrl[j] >= 0 /\ j # i
      <4>1. CASE j = i
        BY <1>9, <2>2, <4>1
      <4>2. CASE j # i
        BY <1>9, <4>2
      <4> QED
        BY <4>1, <4>2
    <3> QED
      BY <2>3, <2>5, <3>1
  <2>8. DeletedSlots(u) = DeletedSlots(t) \cup {i}
    <3>1. ASSUME NEW j \in 0 .. t.cap - 1 PROVE u.ctrl[j] = kDeleted <=> t.ctrl[j] = kDeleted \/ j = i
      BY <1>9
    <3> QED
      BY <1>1, <2>4, <2>6, <3>1
  <2>9. i \notin DeletedSlots(t)
    BY <1>1, <2>2, <2>6
  <2> QED
    BY <2>7, <2>8, <2>9
<1>12. ASSUME NEW j \in FullSlots(u)
       PROVE  /\ j \in FullSlots(t) /\ j \in 0 .. t.cap - 1 /\ j # i
              /\ u.slots[j] = t.slots[j] /\ u.ctrl[j] = t.ctrl[j]
  <2>1. j \in FullSlots(t) /\ j # i
    BY <1>11
  <2>2. j \in 0 .. t.cap - 1
    BY <2>1 DEF FullSlots
  <2> QED
    BY <1>9, <1>10, <2>1, <2>2
<1>A. ASSUME NEW k \in Keys
      PROVE  /\ Reached(t, k) \subseteq Reached(u, k)
             /\ \A d \in Offsets(t) : SlotAt(u, k, d) = SlotAt(t, k, d)
  <2>1. kDeleted # kEmpty
    BY DEF kEmpty, kDeleted
  <2>2. \A j \in 0 .. t.cap - 1 : u.ctrl[j] = kEmpty => t.ctrl[j] = kEmpty
    BY <1>9, <2>1
  <2> QED
    BY <1>0, <1>6, <1>8, <2>2, ReachedKept
<1>13. Placed(u)
  <2> SUFFICES ASSUME NEW j \in FullSlots(u)
               PROVE  /\ u.slots[j].key \in Keys /\ u.ctrl[j] = H2[u.slots[j].key]
                      /\ \E e \in Reached(u, u.slots[j].key) : SlotAt(u, u.slots[j].key, e) = j
    BY DEF Placed
  <2>1. PICK k : k = t.slots[j].key
    OBVIOUS
  <2>2. k \in Keys /\ t.ctrl[j] = H2[k] /\ \E e \in Reached(t, k) : SlotAt(t, k, e) = j
    BY <1>0, <1>12, <2>1 DEF Placed
  <2>3. u.slots[j].key = k /\ u.ctrl[j] = t.ctrl[j]
    BY <1>12, <2>1
  <2>4. \E e \in Reached(u, k) : SlotAt(u, k, e) = j
    BY <1>A, <2>2 DEF Reached
  <2> QED
    BY <2>2, <2>3, <2>4
<1>14. Once(u)
  BY <1>0, <1>12 DEF Once
<1>15. /\ IsFiniteSet(FullSlots(t)) /\ IsFiniteSet(DeletedSlots(t)) /\ t.size \in Nat /\ t.tombs \in Nat
       /\ t.size = Cardinality(FullSlots(t)) /\ t.tombs = Cardinality(DeletedSlots(t))
  BY <1>0, CountsAreNat DEF Counted
<1>16. Counted(u) /\ Roomy(u)
  <2>1. Cardinality(FullSlots(u)) = t.size - 1
    BY <1>11, <1>15, FS_RemoveElement, ZenonT(30)
  <2>2. Cardinality(DeletedSlots(u)) = t.tombs + 1
    BY <1>11, <1>15, FS_AddElement, ZenonT(30)
  <2>3. u.size + u.tombs = t.size + t.tombs
    BY <1>6, <1>15
  <2> QED
    BY <1>6, <2>1, <2>2, <2>3 DEF Counted, Roomy
<1> DEFINE k == t.slots[i].key
           f == [j \in KeysIn(t) \ {k} |-> Contents(t)[j]]
<1>17. KeysIn(u) = KeysIn(t) \ {k}
  BY <1>0, <1>11, <1>12 DEF KeysIn, Once
<1>18. ASSUME NEW j \in FullSlots(u) PROVE f[u.slots[j].key] = u.slots[j].value
  <2>1. t.slots[j].key \in KeysIn(u) /\ u.slots[j] = t.slots[j] /\ j \in FullSlots(t)
    BY <1>12 DEF KeysIn
  <2>2. Contents(t)[t.slots[j].key] = t.slots[j].value
    BY <1>0, <2>1, ContentsAre
  <2> QED
    BY <1>17, <2>1, <2>2
<1>19. f = [j \in KeysIn(u) |-> f[j]]
  BY <1>17
<1>20. Contents(u) = f
  <2> HIDE DEF f, k
  <2> QED
    BY <1>14, <1>18, <1>19, ContentsAre
<1> QED
  BY <1>8, <1>13, <1>14, <1>16, <1>17, <1>20 DEF Sound, IsDrop

\* erase()
LEMMA EraseIs ==
    ASSUME NEW t, Sound(t), Roomy(t), NEW k \in Keys, NEW r, r = Erase(t, k)
    PROVE  /\ Sound(r.table) /\ Roomy(r.table) /\ IsDrop(t, r.table, k)
           /\ r.result \in BOOLEAN /\ (r.result <=> k \in KeysIn(t))
<1>1. CASE k \in KeysIn(t)
  <2>1. PICK i : i = Find(t, k)
    OBVIOUS
  <2>2. i \in FullSlots(t) /\ t.slots[i].key = k /\ ~(i < 0)
    <3>1. Find(t, k) \in FullSlots(t) /\ t.slots[Find(t, k)].key = k /\ Find(t, k) >= 0
      BY <1>1, FindIs
    <3>2. FullSlots(t) \subseteq Int
      BY DEF FullSlots
    <3> QED
      BY <2>1, <3>1, <3>2
  <2>3. PICK u : u = Buried(t, i)
    OBVIOUS
  <2>4. r.table = u /\ r.result = TRUE
    BY <2>1, <2>2, <2>3 DEF Erase, Buried
  <2>5. Sound(u) /\ Roomy(u) /\ IsDrop(t, u, t.slots[i].key)
    <3>1. i \in FullSlots(t)
      BY <2>2
    <3> QED
      BY <2>3, <3>1, BuriedIs
  <2> QED
    BY <1>1, <2>2, <2>4, <2>5
<1>2. CASE k \notin KeysIn(t)
  <2>1. r = [table |-> t, result |-> FALSE]
    BY <1>2, FindIs DEF Erase
  <2>2. IsDrop(t, t, k)
    <3>1. KeysIn(t) \ {k} = KeysIn(t) /\ Contents(t) = [j \in KeysIn(t) |-> Contents(t)[j]]
      BY <1>2 DEF Contents, KeysIn
    <3> QED
      BY <3>1 DEF IsDrop
  <2> QED
    BY <1>2, <2>1, <2>2
<1> QED
  BY <1>1, <1>2

\* clear()
LEMMA ClearIs ==
    ASSUME NEW t, Sound(t), NEW u, u = Clear(t)
    PROVE  Sound(u) /\ Roomy(u) /\ KeysIn(u) = {} /\ Contents(u) = [k \in {} |-> k]
<1>1. t.cap \in Capacities
  BY DEF Sound, WellFormed
<1> QED
  BY <1>1, FreshIs DEF Clear

\* reserve() for a number of keys
LEMMA ReserveIs ==
    ASSUME NEW t, Sound(t), Roomy(t), NEW n \in Nat, NEW u, u = Reserve(t, n)
    PROVE  Sound(u) /\ Roomy(u) /\ KeysIn(u) = KeysIn(t) /\ Contents(u) = Contents(t)
<1> DEFINE S    == {c \in {8 * TwoTo[e] : e \in 0 .. n} : GrowAt(c) >= n}
           need == Min(S)
<1>1. S \subseteq Nat
  BY TwoToFacts
<1>2. S # {}
  <2>1. TwoTo[n] \in Nat /\ TwoTo[n] > n
    BY TwoToFacts
  <2>2. GrowAt(8 * TwoTo[n]) >= n
    <3>1. \A x \in Nat : (8 * x * 7) \div 8 = 7 * x
      OBVIOUS
    <3> QED
      BY <2>1, <3>1 DEF GrowAt
  <2>3. 8 * TwoTo[n] \in S
    BY <2>2
  <2> QED
    BY <2>3
<1>3. need \in S
  <2> HIDE DEF S
  <2> QED
    BY <1>1, <1>2, LeastOfNat
<1>4. u = IF need > t.cap THEN Rehash(t, need) ELSE t
  BY DEF Reserve
<1>5. PICK e \in Nat : need = 8 * TwoTo[e]
  <2>1. PICK e \in 0 .. n : need = 8 * TwoTo[e]
    BY <1>3
  <2> QED
    BY <2>1
<1> HIDE DEF need, S
<1>6. /\ t.cap \in Nat /\ t.cap >= kGroup /\ kGroup \in Nat /\ t.size \in Nat /\ t.tombs \in Nat
      /\ t.cap > 0 /\ t.size + t.tombs <= GrowAt(t.cap)
  BY CapIs, CountsAreNat DEF Sound, Roomy
<1>7. CASE need > t.cap
  <2>1. need \in Nat
    BY <1>1, <1>3
  <2>2. need \in Capacities
    <3>1. 8 * TwoTo[e] > kGroup
      BY <1>5, <1>6, <1>7, <2>1
    <3> QED
      BY <1>5, <3>1, DoublingsOfEight
  <2>3. t.size <= GrowAt(need) /\ GrowAt(need) \in Nat
    <3>1. GrowAt(t.cap) \in Nat /\ \A b \in Nat : b >= t.cap => GrowAt(b) >= GrowAt(t.cap)
      BY <1>6, GrowAtIs
    <3>2. GrowAt(need) >= GrowAt(t.cap)
      BY <1>6, <1>7, <2>1, <3>1
    <3>3. GrowAt(need) \in Nat
      <4>1. need > 0
        BY <1>6, <1>7, <2>1
      <4> QED
        BY <2>1, <4>1, GrowAtIs
    <3> QED
      BY <1>6, <3>1, <3>2, <3>3
  <2>4. u = Rehash(t, need)
    BY <1>4, <1>7
  <2>5. /\ Sound(u) /\ u.cap = need /\ u.size = t.size /\ u.tombs = 0
        /\ KeysIn(u) = KeysIn(t) /\ Contents(u) = Contents(t)
    <3>1. t.size <= GrowAt(need)
      BY <2>3
    <3> QED
      BY <2>2, <2>4, <3>1, RehashIs
  <2>6. Roomy(u)
    BY <1>6, <2>3, <2>5 DEF Roomy
  <2> QED
    BY <2>5, <2>6
<1>8. CASE ~(need > t.cap)
  BY <1>4, <1>8
<1> QED
  BY <1>7, <1>8

-----------------------------------------------------------------------------
(* The table of an object.                                                 *)

TableInvariant ==
    /\ type \in DOMAIN KeysOf
    /\ answer \in BOOLEAN
    /\ Sound(dict) /\ Roomy(dict)

\* A step puts, drops, empties or leaves alone, and answers accordingly.
DictStep ==
    \/ /\ type # "index" /\ type' = type
       /\ \E k \in Keys, v \in Values : IsPut(dict, dict', k, v) /\ (answer' <=> k \notin KeysIn(dict))
    \/ /\ type # "index" /\ type' = type
       /\ \E k \in Keys : IsDrop(dict, dict', k) /\ (answer' <=> k \in KeysIn(dict))
    \/ /\ KeysIn(dict') = {} /\ Contents(dict') = [k \in {} |-> k]
       /\ UNCHANGED <<type, answer>>
    \/ Contents(dict') = Contents(dict) /\ UNCHANGED <<type, answer>>
    \/ type = "index" /\ UNCHANGED <<type, dict>>

TableKept == Sound(dict') /\ Roomy(dict') /\ answer' \in BOOLEAN /\ type' = type

LEMMA KeysOfType == ASSUME type \in DOMAIN KeysOf PROVE KeysOf[type] \subseteq Keys
  BY DEF Keys

LEMMA TablePutStep ==
    ASSUME TableInvariant, NEW k \in Keys, NEW v \in Values, TablePut(k, v)
    PROVE  TableKept /\ DictStep
<1>1. PICK r : r = InsertOrAssign(dict, k, v)
  OBVIOUS
<1>2. type = "table" /\ type' = type /\ dict' = r.table /\ answer' = r.result
  BY <1>1 DEF TablePut
<1>3. /\ Sound(r.table) /\ Roomy(r.table) /\ IsPut(dict, r.table, k, v)
      /\ r.result \in BOOLEAN /\ (r.result <=> k \notin KeysIn(dict))
  BY <1>1, InsertIs DEF TableInvariant
<1>4. IsPut(dict, dict', k, v) /\ (answer' <=> k \notin KeysIn(dict))
  BY <1>2, <1>3
<1> QED
  BY <1>2, <1>3, <1>4 DEF TableKept, DictStep

LEMMA TableEraseStep ==
    ASSUME TableInvariant, NEW k \in Keys, TableErase(k)
    PROVE  TableKept /\ DictStep
<1>1. PICK r : r = Erase(dict, k)
  OBVIOUS
<1>2. type = "table" /\ type' = type /\ dict' = r.table /\ answer' = r.result
  BY <1>1 DEF TableErase
<1>3. /\ Sound(r.table) /\ Roomy(r.table) /\ IsDrop(dict, r.table, k)
      /\ r.result \in BOOLEAN /\ (r.result <=> k \in KeysIn(dict))
  BY <1>1, EraseIs DEF TableInvariant
<1>4. IsDrop(dict, dict', k) /\ (answer' <=> k \in KeysIn(dict))
  BY <1>2, <1>3
<1> QED
  BY <1>2, <1>3, <1>4 DEF TableKept, DictStep

LEMMA TableClearStep ==
    ASSUME TableInvariant, TableClear
    PROVE  TableKept /\ DictStep
<1>1. dict' = Clear(dict) /\ UNCHANGED <<type, answer>>
  BY DEF TableClear
<1>2. Sound(dict') /\ Roomy(dict') /\ KeysIn(dict') = {} /\ Contents(dict') = [k \in {} |-> k]
  BY <1>1, ClearIs DEF TableInvariant
<1> QED
  BY <1>1, <1>2 DEF TableKept, DictStep, TableInvariant

LEMMA TableReserveStep ==
    ASSUME TableInvariant, NEW n \in Nat, TableReserve(n)
    PROVE  TableKept /\ DictStep
<1>1. dict' = Reserve(dict, n) /\ UNCHANGED <<type, answer>>
  BY DEF TableReserve
<1>2. Sound(dict') /\ Roomy(dict') /\ Contents(dict') = Contents(dict)
  BY <1>1, ReserveIs DEF TableInvariant
<1> QED
  BY <1>1, <1>2 DEF TableKept, DictStep, TableInvariant

\* Equal scores are the same score.
LEMMA EqualIsEquality == \A a, b : Equal(a, b) => a = b
  BY DEF Equal

LEMMA ZSetStep ==
    ASSUME TableInvariant, NEW m \in Keys, NEW s \in Values, ZSet(m, s)
    PROVE  TableKept /\ DictStep /\ IsPut(dict, dict', m, s)
<1>1. PICK at : at = Find(dict, m)
  OBVIOUS
<1>2. type = "zset" /\ type' = type
  BY DEF ZSet
<1>3. Sound(dict) /\ Roomy(dict) /\ Once(dict)
  BY DEF TableInvariant, Sound
<1>4. /\ at >= 0 <=> m \in KeysIn(dict)
      /\ at >= 0 => at \in FullSlots(dict) /\ dict.slots[at].key = m
      /\ m \notin KeysIn(dict) => at = -1
  BY <1>1, <1>3, FindIs
<1>5. CASE at >= 0 /\ Equal(dict.slots[at].value, s) /\ answer' = FALSE /\ dict' = dict
  <2>1. Contents(dict)[m] = s /\ DOMAIN Contents(dict) = KeysIn(dict)
    BY <1>3, <1>4, <1>5, ContentsAre, EqualIsEquality
  <2>2. Contents(dict) = [j \in KeysIn(dict) |-> Contents(dict)[j]]
    BY DEF Contents, KeysIn
  <2>3. IsPut(dict, dict, m, s)
    <3>1. KeysIn(dict) \cup {m} = KeysIn(dict)
      BY <1>4, <1>5
    <3>2. Contents(dict) = [j \in KeysIn(dict) |-> IF j = m THEN s ELSE Contents(dict)[j]]
      BY <2>1, <2>2
    <3> QED
      BY <3>1, <3>2 DEF IsPut
  <2> QED
    BY <1>2, <1>3, <1>4, <1>5, <2>3 DEF TableKept, DictStep
<1>6. CASE at >= 0 /\ answer' = FALSE /\ dict' = [dict EXCEPT !.slots[at].value = s]
  <2>1. PICK u : u = Assigned(dict, at, s)
    OBVIOUS
  <2>2. at \in FullSlots(dict)
    BY <1>4, <1>6
  <2>3. Sound(u) /\ Roomy(u) /\ IsPut(dict, u, dict.slots[at].key, s)
    BY <1>3, <2>1, <2>2, AssignIs
  <2>4. dict' = u
    BY <1>6, <2>1 DEF Assigned
  <2> QED
    BY <1>2, <1>4, <1>6, <2>3, <2>4 DEF TableKept, DictStep
<1>7. CASE at < 0 /\ answer' = TRUE /\ dict' = InsertOrAssign(dict, m, s).table
  <2>1. PICK r : r = InsertOrAssign(dict, m, s)
    OBVIOUS
  <2>2. Sound(r.table) /\ Roomy(r.table) /\ IsPut(dict, r.table, m, s)
    BY <1>3, <2>1, InsertIs
  <2>3. m \notin KeysIn(dict)
    <3>1. m \in KeysIn(dict) => at \in FullSlots(dict) /\ at >= 0
      BY <1>4
    <3>2. FullSlots(dict) \subseteq Int
      BY DEF FullSlots
    <3> QED
      BY <1>7, <3>1, <3>2
  <2> QED
    BY <1>2, <1>7, <2>1, <2>2, <2>3 DEF TableKept, DictStep
<1> QED
  BY <1>1, <1>5, <1>6, <1>7 DEF ZSet

LEMMA ZRemoveStep ==
    ASSUME TableInvariant, NEW m \in Keys, ZRemove(m)
    PROVE  TableKept /\ DictStep /\ IsDrop(dict, dict', m)
<1>1. PICK r : r = Erase(dict, m)
  OBVIOUS
<1>2. type = "zset" /\ type' = type /\ dict' = r.table /\ answer' = (Find(dict, m) >= 0)
  BY <1>1 DEF ZRemove
<1>3. Sound(r.table) /\ Roomy(r.table) /\ IsDrop(dict, r.table, m)
  BY <1>1, EraseIs DEF TableInvariant
<1>4. Find(dict, m) >= 0 <=> m \in KeysIn(dict)
  BY FindIs DEF TableInvariant
<1>5. answer' \in BOOLEAN /\ (answer' <=> m \in KeysIn(dict))
  <2>1. CASE Find(dict, m) >= 0
    <3>1. (Find(dict, m) >= 0) = TRUE
      BY <2>1
    <3> QED
      BY <1>2, <1>4, <2>1, <3>1, Zenon
  <2>2. CASE ~(Find(dict, m) >= 0)
    <3>1. (Find(dict, m) >= 0) = FALSE
      BY <2>2
    <3> QED
      BY <1>2, <1>4, <2>2, <3>1, Zenon
  <2> QED
    BY <2>1, <2>2
<1>6. IsDrop(dict, dict', m) /\ Sound(dict') /\ Roomy(dict')
  BY <1>2, <1>3
<1>7. type # "index"
  BY <1>2
<1> QED
  BY <1>2, <1>5, <1>6, <1>7 DEF TableKept, DictStep

LEMMA IndexStep ==
    ASSUME TableInvariant, NEW l \in Keys, (\E vec \in Vectors : Vadd(l, vec)) \/ Vrem(l)
    PROVE  TableKept /\ DictStep
<1>1. type = "index" /\ UNCHANGED <<type, dict>>
  BY DEF Vadd, Vrem
<1>2. answer' \in BOOLEAN
  <2>1. CASE \E vec \in Vectors : Vadd(l, vec)
    BY <2>1 DEF Vadd, TableInvariant
  <2>2. CASE Vrem(l)
    <3>1. answer' = (l \in DOMAIN vindex.labels)
      BY <2>2 DEF Vrem
    <3> QED
      BY <3>1
  <2> QED
    BY <2>1, <2>2
<1> QED
  BY <1>1, <1>2 DEF TableKept, DictStep, TableInvariant

LEMMA TableStep == ASSUME TableInvariant, [Next]_vars PROVE TableKept /\ DictStep
<1>1. KeysOf[type] \subseteq Keys
  BY KeysOfType DEF TableInvariant
<1>2. Reservations \subseteq Nat
  BY ObjectsAssumption
<1>3. CASE Next
  BY <1>1, <1>2, <1>3, TablePutStep, TableEraseStep, TableClearStep, TableReserveStep, ZSetStep,
     ZRemoveStep, IndexStep DEF Next
<1>4. CASE UNCHANGED vars
  BY <1>4 DEF TableInvariant, TableKept, DictStep, vars
<1> QED
  BY <1>3, <1>4

LEMMA TableInit ==
    ASSUME Init
    PROVE  TableInvariant /\ Contents(dict) = [k \in {} |-> k]
<1>1. dict = FreshTable(kGroup) /\ kGroup \in Capacities
  BY CapacityFacts DEF Init
<1> QED
  BY <1>1, FreshIs DEF Init, TableInvariant

LEMMA TableInvariantHolds == Spec => []TableInvariant
<1>1. Init => TableInvariant
  BY TableInit
<1>2. TableInvariant /\ [Next]_vars => TableInvariant'
  <2> SUFFICES ASSUME TableInvariant, [Next]_vars PROVE TableInvariant'
    OBVIOUS
  <2>1. TableKept
    BY TableStep
  <2> QED
    BY <2>1 DEF TableKept, TableInvariant, Sound, Roomy, WellFormed, Mirrored, Placed, Once, Counted,
                FullSlots, DeletedSlots, Reached, Offsets, ByteAt, SlotAt, GroupStart, GrowAt
<1> QED
  BY <1>1, <1>2, PTL DEF Spec

\* A probe chain is never broken, a key is never in the table twice or out of
\* reach, a search always ends and the counters are true, whatever was put,
\* erased, moved and rebuilt before (swiss_table.hpp).
THEOREM TablesAreSound == Spec => []TableIsSound
<1>1. TableInvariant => TableIsSound
  BY SoundTable DEF TableInvariant, TableIsSound
<1> QED
  BY <1>1, TableInvariantHolds, PTL

\* A hash, a set, a table of a keyspace and the dictionary of a sorted set
\* implement a partial function with the right answers.
LEMMA DictRefined == Spec => Dict!Spec
<1>1. Init => Dict!Init
  BY TableInit DEF Dict!Init, Init
<1>2. TableInvariant /\ [Next]_vars => [Dict!Next]_Dict!vars
  <2> SUFFICES ASSUME TableInvariant, [Next]_vars PROVE [Dict!Next]_Dict!vars
    OBVIOUS
  <2>1. DictStep /\ Sound(dict') /\ answer' \in BOOLEAN /\ answer \in BOOLEAN
    BY TableStep DEF TableKept, TableInvariant
  <2>2. DOMAIN Contents(dict) = KeysIn(dict)
    BY DEF Contents, KeysIn
  <2>3. ASSUME type # "index", type' = type, NEW k \in Keys, NEW v \in Values,
               IsPut(dict, dict', k, v), answer' <=> k \notin KeysIn(dict)
        PROVE  Dict!Put(k, v)
    <3>1. (type' # "index" /\ answer') = (k \notin DOMAIN Contents(dict))
      BY <2>1, <2>2, <2>3
    <3>2. Contents(dict)' = [j \in DOMAIN Contents(dict) \cup {k} |->
                                IF j = k THEN v ELSE Contents(dict)[j]]
      BY <2>2, <2>3 DEF IsPut, Contents, FullSlots
    <3> QED
      BY <3>1, <3>2 DEF Dict!Put
  <2>4. ASSUME type # "index", type' = type, NEW k \in Keys,
               IsDrop(dict, dict', k), answer' <=> k \in KeysIn(dict)
        PROVE  Dict!Delete(k)
    <3>1. (type' # "index" /\ answer') = (k \in DOMAIN Contents(dict))
      BY <2>1, <2>2, <2>4
    <3>2. Contents(dict)' = [j \in DOMAIN Contents(dict) \ {k} |-> Contents(dict)[j]]
      BY <2>2, <2>4 DEF IsDrop, Contents, FullSlots
    <3> QED
      BY <3>1, <3>2 DEF Dict!Delete
  <2>5. ASSUME Contents(dict') = [k \in {} |-> k], UNCHANGED <<type, answer>>
        PROVE  Dict!Empty
    BY <2>5 DEF Dict!Empty, Contents, FullSlots
  <2>6. ASSUME Contents(dict') = Contents(dict), UNCHANGED <<type, answer>>
        PROVE  UNCHANGED Dict!vars
    BY <2>6 DEF Dict!vars, Contents, FullSlots
  <2>7. ASSUME type = "index", UNCHANGED <<type, dict>>
        PROVE  UNCHANGED Dict!vars
    BY <2>7 DEF Dict!vars, Contents, FullSlots
  <2> QED
    BY <2>1, <2>3, <2>4, <2>5, <2>6, <2>7 DEF DictStep, Dict!Next
<1> QED
  BY <1>1, <1>2, TableInvariantHolds, PTL DEF Spec, Dict!Spec

-----------------------------------------------------------------------------
(* Loops.                                                                  *)

\* g holds what a loop has computed after each of n rounds, from a.
IsRun(g, n, a, step) == g = [i \in 0 .. n |-> IF i = 0 THEN a ELSE step[i][g[i - 1]]]

\* g does as the loop as long as W holds.
Follows(g, n, a, step, W) ==
    g[0] = a /\ \A i \in 1 .. n : g[i - 1] \in W[i - 1] => g[i] = step[i][g[i - 1]]

LEMMA RunIs ==
    ASSUME NEW n \in Nat, NEW step, NEW a, NEW g, IsRun(g, n, a, step)
    PROVE  /\ g = [i \in 0 .. n |-> g[i]] /\ g[0] = a
           /\ \A i \in 1 .. n : g[i] = step[i][g[i - 1]]
<1>1. g = [i \in 0 .. n |-> IF i = 0 THEN a ELSE step[i][g[i - 1]]]
  BY DEF IsRun
<1>2. g = [i \in 0 .. n |-> g[i]]
  BY <1>1
<1>3. g[0] = a
  BY <1>1
<1>4. ASSUME NEW i \in 1 .. n PROVE g[i] = step[i][g[i - 1]]
  BY <1>1
<1> QED
  BY <1>2, <1>3, <1>4

\* A loop of n rounds has a result, and what holds at first and is kept by each
\* round holds of it.
LEMMA Iterates ==
    ASSUME NEW n \in Nat, NEW W, NEW step, NEW a, a \in W[0],
           \A i \in 1 .. n : \A y \in W[i - 1] : step[i][y] \in W[i]
    PROVE  /\ \E g : IsRun(g, n, a, step) /\ \A i \in 0 .. n : g[i] \in W[i]
           /\ \A g : Follows(g, n, a, step, W) => \A i \in 0 .. n : g[i] \in W[i]
<1> DEFINE Runs(g, m) == g = [i \in 0 .. m |-> IF i = 0 THEN a ELSE step[i][g[i - 1]]]
<1>1. \E g : Runs(g, n)
  <2> DEFINE Good == {m \in Nat : \E g : Runs(g, m)}
  <2>1. 0 \in Good
    <3>1. Runs([i \in 0 .. 0 |-> a], 0)
      OBVIOUS
    <3> HIDE DEF Runs
    <3> QED
      BY <3>1
  <2>2. ASSUME NEW m \in Good PROVE m + 1 \in Good
    <3>1. m \in Nat
      OBVIOUS
    <3>2. PICK f : Runs(f, m)
      <4> HIDE DEF Runs
      <4> QED
        OBVIOUS
    <3> DEFINE g == [i \in 0 .. m + 1 |-> IF i \in 0 .. m THEN f[i] ELSE step[i][f[i - 1]]]
    <3>3. ASSUME NEW i \in 0 .. m + 1 PROVE g[i] = IF i = 0 THEN a ELSE step[i][g[i - 1]]
      <4>1. CASE i = 0
        BY <3>1, <3>2, <4>1
      <4>2. CASE i # 0 /\ i \in 0 .. m
        <5>1. i - 1 \in 0 .. m /\ i - 1 \in 0 .. m + 1
          BY <3>1, <4>2
        <5>2. g[i] = f[i] /\ g[i - 1] = f[i - 1]
          BY <4>2, <5>1
        <5>3. f[i] = step[i][f[i - 1]]
          BY <3>2, <4>2
        <5> HIDE DEF g
        <5> QED
          BY <4>2, <5>2, <5>3
      <4>3. CASE i = m + 1
        <5>1. i - 1 = m /\ m \in 0 .. m /\ m \in 0 .. m + 1 /\ i \notin 0 .. m /\ i # 0
          BY <3>1, <4>3
        <5>2. g[i] = step[i][f[m]] /\ g[m] = f[m]
          BY <5>1
        <5> HIDE DEF g
        <5> QED
          BY <5>1, <5>2
      <4> QED
        BY <3>1, <4>1, <4>2, <4>3
    <3>4. Runs(g, m + 1)
      <4>1. g = [i \in 0 .. m + 1 |-> g[i]]
        OBVIOUS
      <4> HIDE DEF g
      <4> QED
        BY <3>3, <4>1
    <3> HIDE DEF g, Runs
    <3> QED
      BY <3>1, <3>4
  <2>3. Good \subseteq Nat
    OBVIOUS
  <2> HIDE DEF Good
  <2>4. n \in Good
    BY <2>1, <2>2, <2>3, InductionOverNat
  <2> HIDE DEF Runs
  <2> QED
    BY <2>4 DEF Good
<1>2. ASSUME NEW g, Follows(g, n, a, step, W)
      PROVE  \A i \in 0 .. n : g[i] \in W[i]
  <2> DEFINE Good == {m \in Nat : m <= n => g[m] \in W[m]}
  <2>1. 0 \in Good
    BY <1>2 DEF Follows
  <2>2. ASSUME NEW m \in Good PROVE m + 1 \in Good
    <3>1. m \in Nat /\ (m <= n => g[m] \in W[m])
      OBVIOUS
    <3>2. CASE m + 1 <= n
      <4>1. m + 1 \in 1 .. n /\ (m + 1) - 1 = m /\ m <= n
        BY <3>1, <3>2
      <4>2. g[m] \in W[m]
        BY <3>1, <4>1
      <4>3. g[m + 1] = step[m + 1][g[m]]
        BY <1>2, <4>1, <4>2 DEF Follows
      <4>4. step[m + 1][g[m]] \in W[m + 1]
        BY <4>1, <4>2
      <4> QED
        BY <3>1, <4>3, <4>4
    <3> QED
      BY <3>1, <3>2
  <2>3. Good \subseteq Nat
    OBVIOUS
  <2> HIDE DEF Good
  <2>4. Good = Nat
    BY <2>1, <2>2, <2>3, InductionOverNat
  <2> QED
    BY <2>4 DEF Good
<1>3. PICK g : Runs(g, n)
  <2> HIDE DEF Runs
  <2> QED
    BY <1>1
<1>4. IsRun(g, n, a, step)
  BY <1>3 DEF IsRun
<1> HIDE DEF Runs
<1>5. Follows(g, n, a, step, W)
  BY <1>4, RunIs DEF Follows
<1> QED
  BY <1>2, <1>4, <1>5
-----------------------------------------------------------------------------
(* Distances, and the items of a search.                                   *)

LEMMA DistanceIs ==
    ASSUME NEW a \in Seq(Int), NEW b \in Seq(Int), Len(a) = Len(b)
    PROVE  Distance(a, b) \in Nat
<1> DEFINE n    == Len(a)
           Body(g, i) == IF i = 0 THEN 0 ELSE g[i - 1] + (a[i] - b[i]) * (a[i] - b[i])
           W    == [i \in 0 .. n |-> Nat]
           step == [i \in 1 .. n |-> [y \in Nat |-> y + (a[i] - b[i]) * (a[i] - b[i])]]
<1>1. n \in Nat /\ W[0] = Nat
  OBVIOUS
<1>2. ASSUME NEW i \in 1 .. n, NEW y \in Nat
      PROVE  /\ step[i][y] = y + (a[i] - b[i]) * (a[i] - b[i])
             /\ step[i][y] \in Nat /\ W[i - 1] = Nat /\ W[i] = Nat
  <2>1. a[i] \in Int /\ b[i] \in Int
    OBVIOUS
  <2>2. \A x \in Int : x * x \in Nat
    OBVIOUS
  <2>3. a[i] - b[i] \in Int
    BY <2>1
  <2>4. (a[i] - b[i]) * (a[i] - b[i]) \in Nat
    BY <2>2, <2>3
  <2>5. step[i][y] = y + (a[i] - b[i]) * (a[i] - b[i])
    OBVIOUS
  <2>6. i - 1 \in 0 .. n /\ i \in 0 .. n
    OBVIOUS
  <2>7. W[i - 1] = Nat /\ W[i] = Nat
    BY <2>6
  <2>8. step[i][y] \in Nat
    <3> HIDE DEF step
    <3> QED
      BY <2>4, <2>5
  <2> QED
    BY <2>5, <2>7, <2>8
<1>3. /\ \E g : IsRun(g, n, 0, step) /\ \A i \in 0 .. n : g[i] \in W[i]
      /\ \A g : Follows(g, n, 0, step, W) => \A i \in 0 .. n : g[i] \in W[i]
  <2>1. \A i \in 1 .. n : \A y \in W[i - 1] : step[i][y] \in W[i]
    <3> HIDE DEF W, step, n
    <3> QED
      BY <1>1, <1>2
  <2>2. 0 \in W[0]
    <3> HIDE DEF W
    <3> QED
      BY <1>1
  <2> HIDE DEF W, step, n
  <2> QED
    BY <1>1, <2>1, <2>2, Iterates
<1>4. PICK g : IsRun(g, n, 0, step) /\ \A i \in 0 .. n : g[i] \in W[i]
  <2> HIDE DEF W, step, n
  <2> QED
    BY <1>3
<1>5. g = [i \in 0 .. n |-> g[i]] /\ g[0] = 0 /\ \A i \in 1 .. n : g[i] = step[i][g[i - 1]]
  <2> HIDE DEF step, n
  <2> QED
    BY <1>1, <1>4, RunIs
<1>6. g = [i \in 0 .. n |-> Body(g, i)]
  <2>1. ASSUME NEW i \in 0 .. n PROVE g[i] = Body(g, i)
    <3>1. CASE i = 0
      BY <1>5, <3>1
    <3>2. CASE i # 0
      <4>1. i \in 1 .. n /\ i - 1 \in 0 .. n
        BY <3>2
      <4>2. g[i - 1] \in Nat /\ g[i] = step[i][g[i - 1]]
        <5>1. W[i - 1] = Nat
          BY <4>1
        <5> HIDE DEF step, W
        <5> QED
          BY <1>4, <1>5, <4>1, <5>1
      <4> HIDE DEF step
      <4> QED
        BY <1>2, <3>2, <4>1, <4>2
    <3> QED
      BY <3>1, <3>2
  <2> HIDE DEF Body, step
  <2> QED
    BY <1>5, <2>1
<1> DEFINE sum == CHOOSE f : f = [i \in 0 .. n |-> Body(f, i)]
<1>7. sum = [i \in 0 .. n |-> Body(sum, i)]
  <2> HIDE DEF Body
  <2> QED
    BY <1>6
<1>8. Distance(a, b) = sum[n]
  BY DEF Distance
<1> HIDE DEF sum
<1>9. \A i \in 0 .. n : sum[i] \in W[i]
  <2>1. sum[0] = 0
    BY <1>1, <1>7
  <2>2. ASSUME NEW i \in 1 .. n, sum[i - 1] \in W[i - 1] PROVE sum[i] = step[i][sum[i - 1]]
    <3>1. sum[i] = sum[i - 1] + (a[i] - b[i]) * (a[i] - b[i])
      <4>1. i \in 0 .. n /\ i # 0
        BY <1>1
      <4>2. sum[i] = Body(sum, i)
        <5> HIDE DEF Body
        <5> QED
          BY <1>7, <4>1
      <4> QED
        BY <4>1, <4>2
    <3>2. PICK y \in Nat : y = sum[i - 1]
      <4>1. W[i - 1] = Nat
        BY <1>2
      <4> HIDE DEF W
      <4> QED
        BY <2>2, <4>1
    <3>3. step[i][y] = y + (a[i] - b[i]) * (a[i] - b[i])
      BY <1>2
    <3> HIDE DEF step
    <3> QED
      BY <3>1, <3>2, <3>3
  <2>3. Follows(sum, n, 0, step, W)
    <3> HIDE DEF W, step, n
    <3> QED
      BY <2>1, <2>2 DEF Follows
  <2> HIDE DEF W, step, n
  <2> QED
    BY <1>3, <2>3
<1> QED
  BY <1>1, <1>8, <1>9

-----------------------------------------------------------------------------
(* Heaps.                                                                  *)

\* Pairs of numbers are in a linear order.
LEMMA NearerIs ==
    ASSUME NEW a \in Int \X Int, NEW b \in Int \X Int, NEW c \in Int \X Int
    PROVE  /\ ~Nearer(a, a)
           /\ Nearer(a, b) /\ Nearer(b, c) => Nearer(a, c)
           /\ Nearer(a, b) \/ Nearer(b, a) \/ a = b
<1>1. PICK a1 \in Int, a2 \in Int : a = <<a1, a2>>
  OBVIOUS
<1>2. PICK b1 \in Int, b2 \in Int : b = <<b1, b2>>
  OBVIOUS
<1>3. PICK c1 \in Int, c2 \in Int : c = <<c1, c2>>
  OBVIOUS
<1> QED
  BY <1>1, <1>2, <1>3 DEF Nearer

\* A heap of items has a nearest one.
LEMMA NearestIs ==
    ASSUME NEW H, H \subseteq Nat \X Nat, H # {}
    PROVE  Nearest(H) \in H /\ \A b \in H \ {Nearest(H)} : Nearer(Nearest(H), b)
<1> DEFINE D == {a[1] : a \in H}
           d == Min(D)
           E == {e \in Nat : <<d, e>> \in H}
           e == Min(E)
<1>1. d \in D /\ \A x \in D : d <= x
  <2>1. D \subseteq Nat /\ D # {}
    OBVIOUS
  <2> HIDE DEF D
  <2> QED
    BY <2>1, LeastOfNat
<1>2. e \in E /\ \A x \in E : e <= x
  <2>1. E # {}
    <3>1. PICK a \in H : a[1] = d
      <4> HIDE DEF d
      <4> QED
        BY <1>1
    <3>2. a = <<d, a[2]>> /\ a[2] \in Nat
      <4> HIDE DEF d
      <4> QED
        BY <3>1
    <3> HIDE DEF d
    <3> QED
      BY <3>2
  <2>2. E \subseteq Nat
    OBVIOUS
  <2> HIDE DEF E
  <2> QED
    BY <2>1, <2>2, LeastOfNat
<1>3. <<d, e>> \in H
  <2> HIDE DEF d, e
  <2> QED
    BY <1>2
<1>4. ASSUME NEW b \in H \ {<<d, e>>} PROVE Nearer(<<d, e>>, b)
  <2>1. PICK b1 \in Nat, b2 \in Nat : b = <<b1, b2>>
    OBVIOUS
  <2>2. d <= b1
    <3>1. b[1] \in D /\ b[1] = b1
      BY <2>1
    <3> HIDE DEF d, D
    <3> QED
      BY <1>1, <3>1
  <2>3. d = b1 => e <= b2
    <3> HIDE DEF d, e
    <3> QED
      BY <1>2, <2>1
  <2>4. d \in Nat /\ e \in Nat /\ <<d, e>> # <<b1, b2>>
    <3>1. D \subseteq Nat /\ E \subseteq Nat
      OBVIOUS
    <3> HIDE DEF d, e, D, E
    <3> QED
      BY <1>1, <1>2, <2>1, <3>1
  <2> HIDE DEF d, e
  <2> QED
    BY <2>1, <2>2, <2>3, <2>4 DEF Nearer
<1> HIDE DEF d, e
<1> QED
  BY <1>3, <1>4 DEF Nearest

\* s holds the ids of a heap in the order of f.
IsOrder(s, f, H) ==
    /\ f \in [1 .. Cardinality(H) -> H]
    /\ \A n, m \in 1 .. Cardinality(H) : n < m => Nearer(f[n], f[m])
    /\ \A a \in H : \E n \in 1 .. Cardinality(H) : f[n] = a
    /\ s = [n \in 1 .. Cardinality(H) |-> f[n][2]]

\* Every item of a heap has a place in the order.
LEMMA NearestFirstIs ==
    ASSUME NEW H, H \subseteq Int \X Int, IsFiniteSet(H)
    PROVE  Cardinality(H) \in Nat /\ \E f : IsOrder(NearestFirst(H), f, H)
<1> DEFINE N        == Cardinality(H)
           Below(a) == {b \in H : Nearer(b, a)}
           Place(a) == 1 + Cardinality(Below(a))
           place    == [a \in H |-> Place(a)]
           At(n)    == CHOOSE a \in H : Place(a) = n
           f        == [n \in 1 .. N |-> At(n)]
<1>1. N \in Nat
  BY FS_CardinalityType
<1>2. ASSUME NEW a \in H
      PROVE  /\ IsFiniteSet(Below(a)) /\ Cardinality(Below(a)) \in Nat
             /\ Cardinality(Below(a)) < N /\ Cardinality(Below(a) \cup {a}) = Cardinality(Below(a)) + 1
             /\ IsFiniteSet(Below(a) \cup {a})
  <2>1. a \notin Below(a)
    BY NearerIs
  <2>2. Below(a) \in SUBSET H /\ Below(a) \cup {a} \in SUBSET H
    OBVIOUS
  <2>3. IsFiniteSet(Below(a)) /\ Cardinality(Below(a)) \in Nat
    <3> HIDE DEF Below
    <3> QED
      BY <2>2, FS_Subset, FS_CardinalityType
  <2>4. Cardinality(Below(a) \cup {a}) = Cardinality(Below(a)) + 1
    <3> HIDE DEF Below
    <3> QED
      BY <2>1, <2>3, FS_AddElement
  <2>5. Cardinality(Below(a) \cup {a}) <= N /\ IsFiniteSet(Below(a) \cup {a})
    <3> HIDE DEF Below
    <3> QED
      BY <2>2, FS_Subset
  <2> HIDE DEF Below, N
  <2> QED
    BY <1>1, <2>3, <2>4, <2>5
<1>3. ASSUME NEW a \in H, NEW b \in H, Nearer(a, b) PROVE Place(a) < Place(b)
  <2>1. Below(a) \cup {a} \in SUBSET Below(b)
    <3>1. ASSUME NEW c \in H, Nearer(c, a) PROVE Nearer(c, b)
      BY <1>3, <3>1, NearerIs
    <3> QED
      BY <1>3, <3>1
  <2>2. Cardinality(Below(a) \cup {a}) <= Cardinality(Below(b))
    <3> HIDE DEF Below
    <3> QED
      BY <1>2, <2>1, FS_Subset
  <2>3. PICK p \in Nat : p = Cardinality(Below(a)) /\ Cardinality(Below(a) \cup {a}) = p + 1
    <3> HIDE DEF Below
    <3> QED
      BY <1>2
  <2>4. PICK q \in Nat : q = Cardinality(Below(b))
    <3> HIDE DEF Below
    <3> QED
      BY <1>2
  <2> HIDE DEF Below
  <2> QED
    BY <2>2, <2>3, <2>4
<1>4. place \in Injection(H, 1 .. N)
  <2>1. ASSUME NEW a \in H PROVE place[a] = Place(a) /\ Place(a) \in 1 .. N
    <3>1. PICK p \in Nat : p = Cardinality(Below(a)) /\ p < N
      <4> HIDE DEF Below, N
      <4> QED
        BY <1>2
    <3>2. 1 + p \in 1 .. N
      <4> HIDE DEF Below, N
      <4> QED
        BY <1>1, <3>1
    <3> HIDE DEF Below, N
    <3> QED
      BY <3>1, <3>2
  <2>2. place \in [H -> 1 .. N]
    <3> HIDE DEF Place, N
    <3> QED
      BY <2>1
  <2>3. ASSUME NEW a \in H, NEW b \in H, place[a] = place[b] PROVE a = b
    <3>1. Place(a) = Place(b) /\ Place(a) \in 1 .. N
      BY <2>1, <2>3
    <3>2. ~Nearer(a, b) /\ ~Nearer(b, a)
      <4> HIDE DEF Place, N
      <4> QED
        BY <1>1, <1>3, <3>1
    <3> QED
      BY <3>2, NearerIs
  <2> HIDE DEF place, N
  <2> QED
    BY <2>2, <2>3 DEF Injection, IsInjective
<1>5. IsFiniteSet(1 .. N) /\ Cardinality(1 .. N) = N
  <2>1. IsFiniteSet(1 .. N) /\ Cardinality(1 .. N) = IF 1 > N THEN 0 ELSE N - 1 + 1
    <3> HIDE DEF N
    <3> QED
      BY <1>1, FS_Interval
  <2> HIDE DEF N
  <2> QED
    BY <1>1, <2>1
<1>6. place \in Surjection(H, 1 .. N)
  <2>1. \A S, T : \A g \in Injection(S, T) :
           IsFiniteSet(T) /\ Cardinality(S) = Cardinality(T) => g \in Surjection(S, T)
    BY FS_Injection
  <2> HIDE DEF place
  <2> QED
    BY <1>4, <1>5, <2>1
<1>7. ASSUME NEW n \in 1 .. N PROVE At(n) \in H /\ Place(At(n)) = n
  <2>1. PICK a \in H : place[a] = n
    <3> HIDE DEF place, N
    <3> QED
      BY <1>6 DEF Surjection
  <2>2. Place(a) = n
    BY <2>1
  <2> HIDE DEF Place
  <2> QED
    BY <2>2
<1>8. f \in [1 .. N -> H] /\ \A n \in 1 .. N : f[n] = At(n)
  <2> HIDE DEF At, N
  <2> QED
    BY <1>7
<1>9. ASSUME NEW n \in 1 .. N, NEW m \in 1 .. N, n < m PROVE Nearer(f[n], f[m])
  <2>1. f[n] \in H /\ f[m] \in H /\ Place(f[n]) = n /\ Place(f[m]) = m
    <3> HIDE DEF At, f, Place
    <3> QED
      BY <1>7, <1>8
  <2>2. ~Nearer(f[m], f[n])
    <3>1. SUFFICES ASSUME Nearer(f[m], f[n]) PROVE FALSE
      OBVIOUS
    <3>2. m < n
      <4> HIDE DEF f, Place
      <4> QED
        BY <1>3, <2>1, <3>1
    <3> QED
      BY <1>1, <1>9, <3>2
  <2>3. f[n] # f[m]
    <3> HIDE DEF f, Place
    <3> QED
      BY <1>9, <2>1
  <2> HIDE DEF f
  <2> QED
    BY <2>1, <2>2, <2>3, NearerIs
<1>10. ASSUME NEW a \in H PROVE \E n \in 1 .. N : f[n] = a
  <2>1. Place(a) \in 1 .. N
    <3>1. place[a] \in 1 .. N
      <4> HIDE DEF place, N
      <4> QED
        BY <1>4 DEF Injection
    <3> QED
      BY <3>1
  <2>2. PICK n \in 1 .. N : n = Place(a)
    <3> HIDE DEF Place
    <3> QED
      BY <2>1
  <2>3. f[n] \in H /\ Place(f[n]) = n
    <3> HIDE DEF At, f, Place
    <3> QED
      BY <1>7, <1>8
  <2>4. ~Nearer(f[n], a) /\ ~Nearer(a, f[n])
    <3>1. ASSUME NEW c \in H, NEW d \in H, Place(c) = n, Place(d) = n PROVE ~Nearer(c, d)
      <4>1. SUFFICES ASSUME Nearer(c, d) PROVE FALSE
        OBVIOUS
      <4>2. Place(c) < Place(d)
        BY <1>3, <4>1
      <4> HIDE DEF Place
      <4> QED
        BY <1>1, <3>1, <4>2
    <3> HIDE DEF f, Place
    <3> QED
      BY <2>2, <2>3, <3>1
  <2>5. f[n] = a
    <3> HIDE DEF f
    <3> QED
      BY <2>3, <2>4, NearerIs
  <2> QED
    BY <2>5
<1>11. NearestFirst(H) = [n \in 1 .. N |-> f[n][2]]
  <2>1. NearestFirst(H) = [n \in 1 .. N |-> At(n)[2]]
    BY DEF NearestFirst
  <2> HIDE DEF At, f
  <2> QED
    BY <1>8, <2>1
<1> HIDE DEF f
<1> QED
  BY <1>1, <1>8, <1>9, <1>10, <1>11 DEF IsOrder

-----------------------------------------------------------------------------
(* Searching a level.                                                      *)

\* A set of nodes that the links of a level do not leave, at distances from q
\* that are numbers.
Closed(x, q, level, G) ==
    /\ Len(x.nodes) \in Nat /\ G \subseteq 1 .. Len(x.nodes)
    /\ \A j \in G : /\ Distance(q, x.nodes[j].vec) \in Nat
                    /\ level < Levels(x, j)
                    /\ Links(x, j, level) \in Seq(G)

Items(x, q, G) == {Item(x, q, j) : j \in G}

Heaps(x, q, G) ==
    [visited    : SUBSET G,
     candidates : SUBSET Items(x, q, G),
     results    : {R \in SUBSET Items(x, q, G) : R # {}}]

LEMMA ItemsAre ==
    ASSUME NEW x, NEW q, NEW level, NEW G, Closed(x, q, level, G)
    PROVE  /\ Items(x, q, G) \subseteq Nat \X G /\ G \subseteq Nat
           /\ IsFiniteSet(Items(x, q, G)) /\ IsFiniteSet(G)
           /\ \A a \in Items(x, q, G) : a[2] \in G
           /\ \A a, b \in Items(x, q, G) : a[2] = b[2] => a = b
           /\ \A j \in G : Item(x, q, j) \in Items(x, q, G) /\ Item(x, q, j)[2] = j
<1>1. \A j \in G : Item(x, q, j) = <<Distance(q, x.nodes[j].vec), j>> /\ Distance(q, x.nodes[j].vec) \in Nat
  BY DEF Item, Closed
<1>2. IsFiniteSet(G) /\ G \subseteq Nat
  <2>1. IsFiniteSet(1 .. Len(x.nodes))
    BY FS_Interval DEF Closed
  <2>2. G \subseteq 1 .. Len(x.nodes) /\ 1 .. Len(x.nodes) \subseteq Nat
    BY DEF Closed
  <2> QED
    BY <2>1, <2>2, FS_Subset
<1>3. \A a \in Items(x, q, G) : \E j \in G : a = Item(x, q, j)
  BY DEF Items
<1>4. \A a \in Items(x, q, G) : a \in Nat \X G /\ a[2] \in G /\ a = Item(x, q, a[2])
  BY <1>1, <1>3
<1>5. \A j \in G : Item(x, q, j) \in Items(x, q, G) /\ Item(x, q, j)[2] = j
  BY <1>1 DEF Items
<1>6. IsFiniteSet(Items(x, q, G))
  <2> DEFINE f == [j \in G |-> Item(x, q, j)]
  <2>1. f \in Surjection(G, Items(x, q, G))
    BY <1>3, <1>5 DEF Surjection
  <2> HIDE DEF f
  <2> QED
    BY <1>2, <2>1, FS_Surjection
<1> QED
  BY <1>2, <1>4, <1>5, <1>6

\* A visit adds a node to the heaps and may take another out, never the last.
LEMMA VisitIs ==
    ASSUME NEW x, NEW q, NEW level, NEW G, Closed(x, q, level, G),
           NEW heaps \in Heaps(x, q, G), NEW j \in G, NEW ef \in Nat \ {0}
    PROVE  Visit(heaps, Item(x, q, j), ef) \in Heaps(x, q, G)
<1>1. PICK item : item = Item(x, q, j)
  OBVIOUS
<1>2. item \in Items(x, q, G) /\ item[2] = j
  BY <1>1, ItemsAre
<1> DEFINE grown  == heaps.results \cup {item}
           enters == \/ Cardinality(heaps.results) < ef
                     \/ item[1] < Farthest(heaps.results)[1]
           out    == IF Cardinality(grown) > ef THEN {Farthest(grown)} ELSE {}
<1>3. /\ heaps.visited \subseteq G /\ heaps.candidates \subseteq Items(x, q, G)
      /\ heaps.results \subseteq Items(x, q, G) /\ heaps.results # {}
  BY DEF Heaps
<1>4. grown \ out \subseteq Items(x, q, G) /\ grown \ out # {}
  <2>1. grown \subseteq Items(x, q, G)
    BY <1>2, <1>3
  <2>2. IsFiniteSet(grown) /\ Cardinality(grown) \in Nat
    <3>1. IsFiniteSet(Items(x, q, G)) /\ grown \in SUBSET Items(x, q, G)
      BY <2>1, ItemsAre
    <3> HIDE DEF grown
    <3> QED
      BY <3>1, FS_Subset, FS_CardinalityType
  <2>3. CASE Cardinality(grown) > ef
    <3>1. PICK far : far = Farthest(grown)
      OBVIOUS
    <3>2. out = {far}
      BY <2>3, <3>1
    <3>3. Cardinality(grown \ {far}) >= Cardinality(grown) - 1 /\ IsFiniteSet(grown \ {far})
      <4>1. PICK p \in Nat : p = Cardinality(grown)
        <5> HIDE DEF grown
        <5> QED
          BY <2>2
      <4>2. /\ IsFiniteSet(grown \ {far})
            /\ Cardinality(grown \ {far}) = IF far \in grown THEN p - 1 ELSE p
        <5> HIDE DEF grown
        <5> QED
          BY <2>2, <4>1, FS_RemoveElement
      <4> HIDE DEF grown
      <4> QED
        BY <4>1, <4>2
    <3>4. Cardinality(grown \ {far}) # 0 
      <4> HIDE DEF grown
      <4> QED
        BY <2>2, <2>3, <3>3
    <3>5. grown \ {far} # {}
      <4> HIDE DEF grown
      <4> QED
        BY <3>4, FS_EmptySet
    <3> HIDE DEF grown, out
    <3> QED
      BY <2>1, <3>2, <3>5
  <2>4. CASE ~(Cardinality(grown) > ef)
    <3>1. out = {}
      BY <2>4
    <3> HIDE DEF out
    <3> QED
      BY <2>1, <3>1
  <2> QED
    BY <2>3, <2>4
<1>5. PICK e : e = enters
  OBVIOUS
<1>6. PICK left : left = grown \ out
  OBVIOUS
<1>7. Visit(heaps, item, ef) = [visited    |-> heaps.visited \cup {item[2]},
                                candidates |-> heaps.candidates \cup (IF e THEN {item} ELSE {}),
                                results    |-> IF e THEN left ELSE heaps.results]
  BY <1>5, <1>6 DEF Visit
<1>8. left \subseteq Items(x, q, G) /\ left # {}
  <2> HIDE DEF grown, out
  <2> QED
    BY <1>4, <1>6
<1> HIDE DEF grown, enters, out
<1>9. heaps.visited \cup {item[2]} \subseteq G
  BY <1>2, <1>3
<1>10. heaps.candidates \cup (IF e THEN {item} ELSE {}) \subseteq Items(x, q, G)
  BY <1>2, <1>3
<1>11. (IF e THEN left ELSE heaps.results) \in {R \in SUBSET Items(x, q, G) : R # {}}
  BY <1>3, <1>8
<1>12. Visit(heaps, item, ef) \in Heaps(x, q, G)
  BY <1>7, <1>9, <1>10, <1>11 DEF Heaps
<1> QED
  BY <1>1, <1>12

\* The neighbours of a node, one after the other.
LEMMA VisitAllIs ==
    ASSUME NEW x, NEW q, NEW level, NEW G, Closed(x, q, level, G),
           NEW heaps \in Heaps(x, q, G), NEW ef \in Nat \ {0}, NEW links \in Seq(G)
    PROVE  VisitAll(x, q, ef, heaps, links) \in Heaps(x, q, G)
<1> DEFINE n          == Len(links)
           H          == Heaps(x, q, G)
           Next1(y, i) == IF links[i] \in y.visited THEN y ELSE Visit(y, Item(x, q, links[i]), ef)
           Body(g, i) == IF i = 0 THEN heaps ELSE Next1(g[i - 1], i)
           W          == [i \in 0 .. n |-> H]
           step       == [i \in 1 .. n |-> [y \in H |-> Next1(y, i)]]
<1>1. n \in Nat /\ \A i \in 1 .. n : links[i] \in G
  OBVIOUS
<1>2. W[0] = H /\ \A i \in 1 .. n : W[i - 1] = H /\ W[i] = H /\ i - 1 \in 0 .. n /\ i \in 0 .. n
  <2>1. 0 \in 0 .. n /\ \A i \in 1 .. n : i - 1 \in 0 .. n /\ i \in 0 .. n
    <3> HIDE DEF n
    <3> QED
      BY <1>1
  <2> HIDE DEF n, H
  <2> QED
    BY <2>1
<1>3. ASSUME NEW i \in 1 .. n, NEW y \in H PROVE step[i][y] = Next1(y, i) /\ Next1(y, i) \in H
  <2>1. Visit(y, Item(x, q, links[i]), ef) \in H
    <3>1. links[i] \in G
      BY <1>1
    <3> QED
      BY <3>1, VisitIs
  <2>2. Next1(y, i) \in H
    <3> HIDE DEF H
    <3> QED
      BY <2>1
  <2>3. step[i][y] = Next1(y, i)
    <3> HIDE DEF H, n, Next1
    <3> QED
      OBVIOUS
  <2> QED
    BY <2>2, <2>3
<1> HIDE DEF step, W, Next1, H, n
<1>4. heaps \in W[0] /\ \A i \in 1 .. n : \A y \in W[i - 1] : step[i][y] \in W[i]
  BY <1>2, <1>3 DEF H
<1>5. PICK g : IsRun(g, n, heaps, step) /\ \A i \in 0 .. n : g[i] \in W[i]
  BY <1>1, <1>4, Iterates
<1>6. g = [i \in 0 .. n |-> Body(g, i)]
  <2>1. g = [i \in 0 .. n |-> g[i]] /\ g[0] = heaps /\ \A i \in 1 .. n : g[i] = step[i][g[i - 1]]
    BY <1>1, <1>5, RunIs
  <2>2. ASSUME NEW i \in 0 .. n PROVE g[i] = Body(g, i)
    <3>1. CASE i = 0
      BY <2>1, <3>1
    <3>2. CASE i # 0
      <4>1. i \in 1 .. n
        BY <1>1, <3>2
      <4>2. g[i] = step[i][g[i - 1]] /\ g[i - 1] \in H
        BY <1>2, <1>5, <2>1, <4>1
      <4> QED
        BY <1>3, <3>2, <4>1, <4>2
    <3> QED
      BY <3>1, <3>2
  <2> HIDE DEF Body
  <2> QED
    BY <2>1, <2>2
<1> DEFINE seen == CHOOSE f : f = [i \in 0 .. n |-> Body(f, i)]
<1>7. seen = [i \in 0 .. n |-> Body(seen, i)]
  <2> HIDE DEF Body
  <2> QED
    BY <1>6
<1>8. VisitAll(x, q, ef, heaps, links) = seen[n]
  BY DEF VisitAll, Next1, n
<1> HIDE DEF seen
<1>9. Follows(seen, n, heaps, step, W)
  <2>1. seen[0] = heaps
    <3>1. 0 \in 0 .. n
      BY <1>1
    <3> QED
      BY <1>7, <3>1
  <2>2. ASSUME NEW i \in 1 .. n, seen[i - 1] \in W[i - 1] PROVE seen[i] = step[i][seen[i - 1]]
    <3>1. i \in 0 .. n /\ i # 0 /\ seen[i - 1] \in H
      BY <1>1, <1>2, <2>2
    <3>2. seen[i] = Next1(seen[i - 1], i)
      BY <1>7, <3>1
    <3> QED
      BY <1>3, <3>1, <3>2
  <2> HIDE DEF Body
  <2> QED
    BY <2>1, <2>2 DEF Follows
<1>10. \A i \in 0 .. n : seen[i] \in W[i]
  BY <1>1, <1>4, <1>9, Iterates
<1>11. seen[n] \in H
  <2>1. n \in 0 .. n
    BY <1>1
  <2> QED
    BY <1>10, <2>1 DEF W
<1> QED
  BY <1>8, <1>11 DEF H

\* A round keeps the heaps within the nodes, and looks at the links of the level.
LEMMA RoundIs ==
    ASSUME NEW x, NEW q, NEW level, NEW G, Closed(x, q, level, G),
           NEW heaps \in Heaps(x, q, G), heaps.candidates # {}, NEW ef \in Nat \ {0}
    PROVE  Round(x, q, ef, level, heaps) \in Heaps(x, q, G)
<1>1. PICK cur : cur = Nearest(heaps.candidates)
  OBVIOUS
<1>2. /\ heaps.visited \subseteq G /\ heaps.candidates \subseteq Items(x, q, G)
      /\ heaps.results \in {R \in SUBSET Items(x, q, G) : R # {}}
      /\ heaps = [visited |-> heaps.visited, candidates |-> heaps.candidates, results |-> heaps.results]
  BY DEF Heaps
<1>3. cur \in Items(x, q, G) /\ cur[2] \in G
  <2>1. heaps.candidates \subseteq Nat \X Nat
    BY <1>2, ItemsAre
  <2>2. cur \in heaps.candidates
    BY <1>1, <2>1, NearestIs
  <2> QED
    BY <1>2, <2>2, ItemsAre
<1>4. PICK rest : rest = [heaps EXCEPT !.candidates = @ \ {cur}]
  OBVIOUS
<1>5. rest \in Heaps(x, q, G) /\ [heaps EXCEPT !.candidates = {}] \in Heaps(x, q, G)
  <2>1. heaps.candidates \ {cur} \subseteq Items(x, q, G)
    BY <1>2
  <2> QED
    BY <1>2, <1>4, <2>1 DEF Heaps
<1>6. VisitAll(x, q, ef, rest, Links(x, cur[2], level)) \in Heaps(x, q, G)
  <2>1. Links(x, cur[2], level) \in Seq(G)
    BY <1>3 DEF Closed
  <2> QED
    BY <1>5, <2>1, VisitAllIs
<1>7. \/ Round(x, q, ef, level, heaps) = [heaps EXCEPT !.candidates = {}]
      \/ Round(x, q, ef, level, heaps) = rest
      \/ Round(x, q, ef, level, heaps) = VisitAll(x, q, ef, rest, Links(x, cur[2], level))
  BY <1>1, <1>4, Zenon DEF Round
<1> QED
  BY <1>5, <1>6, <1>7

\* A search finds at least one of the nodes its level leads to, and none twice.
LEMMA SearchLayerIs ==
    ASSUME NEW x, NEW q, NEW level, NEW G, Closed(x, q, level, G),
           NEW entry \in G, NEW ef \in Nat \ {0}, NEW found, found = SearchLayer(x, q, entry, ef, level)
    PROVE  found \in Seq(G) /\ Len(found) > 0 /\ IsInjective(found) /\ Head(found) \in G
<1> DEFINE n          == Len(x.nodes)
           H          == Heaps(x, q, G)
           start      == [visited |-> {entry}, candidates |-> {Item(x, q, entry)}, results |-> {Item(x, q, entry)}]
           Next1(y)   == IF y.candidates = {} THEN y ELSE Round(x, q, ef, level, y)
           Body(g, i) == IF i = 0 THEN start ELSE Next1(g[i - 1])
           W          == [i \in 0 .. n |-> H]
           step       == [i \in 1 .. n |-> [y \in H |-> Next1(y)]]
<1>1. n \in Nat
  BY DEF Closed
<1>2. W[0] = H /\ \A i \in 1 .. n : W[i - 1] = H /\ W[i] = H /\ i - 1 \in 0 .. n /\ i \in 0 .. n
  <2>1. 0 \in 0 .. n /\ \A i \in 1 .. n : i - 1 \in 0 .. n /\ i \in 0 .. n
    <3> HIDE DEF n
    <3> QED
      BY <1>1
  <2> HIDE DEF n, H
  <2> QED
    BY <2>1
<1>3. ASSUME NEW i \in 1 .. n, NEW y \in H PROVE step[i][y] = Next1(y) /\ Next1(y) \in H
  <2>1. y.candidates # {} => Round(x, q, ef, level, y) \in H
    BY RoundIs
  <2>2. Next1(y) \in H
    <3> HIDE DEF H
    <3> QED
      BY <2>1
  <2>3. step[i][y] = Next1(y)
    <3> HIDE DEF H, n, Next1
    <3> QED
      OBVIOUS
  <2> QED
    BY <2>2, <2>3
<1>4. start \in H
  <2>1. Item(x, q, entry) \in Items(x, q, G)
    BY ItemsAre
  <2> QED
    BY <2>1 DEF Heaps
<1> HIDE DEF step, W, Next1, H, n, start
<1>5. start \in W[0] /\ \A i \in 1 .. n : \A y \in W[i - 1] : step[i][y] \in W[i]
  BY <1>2, <1>3, <1>4
<1>6. PICK g : IsRun(g, n, start, step) /\ \A i \in 0 .. n : g[i] \in W[i]
  BY <1>1, <1>5, Iterates
<1>7. g = [i \in 0 .. n |-> Body(g, i)]
  <2>1. g = [i \in 0 .. n |-> g[i]] /\ g[0] = start /\ \A i \in 1 .. n : g[i] = step[i][g[i - 1]]
    BY <1>1, <1>6, RunIs
  <2>2. ASSUME NEW i \in 0 .. n PROVE g[i] = Body(g, i)
    <3>1. CASE i = 0
      BY <2>1, <3>1
    <3>2. CASE i # 0
      <4>1. i \in 1 .. n
        BY <1>1, <3>2
      <4>2. g[i] = step[i][g[i - 1]] /\ g[i - 1] \in H
        BY <1>2, <1>6, <2>1, <4>1
      <4> QED
        BY <1>3, <3>2, <4>1, <4>2
    <3> QED
      BY <3>1, <3>2
  <2> HIDE DEF Body
  <2> QED
    BY <2>1, <2>2
<1> DEFINE loop == CHOOSE f : f = [i \in 0 .. n |-> Body(f, i)]
<1>8. loop = [i \in 0 .. n |-> Body(loop, i)]
  <2> HIDE DEF Body
  <2> QED
    BY <1>7
<1>9. found = NearestFirst(loop[n].results)
  BY DEF SearchLayer, Next1, n, start
<1> HIDE DEF loop
<1>10. Follows(loop, n, start, step, W)
  <2>1. loop[0] = start
    <3>1. 0 \in 0 .. n
      BY <1>1
    <3> QED
      BY <1>8, <3>1
  <2>2. ASSUME NEW i \in 1 .. n, loop[i - 1] \in W[i - 1] PROVE loop[i] = step[i][loop[i - 1]]
    <3>1. i \in 0 .. n /\ i # 0 /\ loop[i - 1] \in H
      BY <1>1, <1>2, <2>2
    <3>2. loop[i] = Next1(loop[i - 1])
      BY <1>8, <3>1
    <3> QED
      BY <1>3, <3>1, <3>2
  <2> HIDE DEF Body
  <2> QED
    BY <2>1, <2>2 DEF Follows
<1>11. \A i \in 0 .. n : loop[i] \in W[i]
  BY <1>1, <1>5, <1>10, Iterates
<1>12. loop[n] \in H
  <2>1. n \in 0 .. n
    BY <1>1
  <2> QED
    BY <1>11, <2>1 DEF W
<1>13. PICK R : R = loop[n].results
  OBVIOUS
<1>14. R \subseteq Items(x, q, G) /\ R # {}
  BY <1>12, <1>13 DEF H, Heaps
<1>15. R \subseteq Int \X Int /\ IsFiniteSet(R)
  BY <1>14, ItemsAre, FS_Subset
<1>16. Cardinality(R) \in Nat /\ Cardinality(R) > 0
  BY <1>14, <1>15, FS_EmptySet, FS_CardinalityType
<1>17. PICK f : IsOrder(found, f, R)
  BY <1>9, <1>13, <1>15, NearestFirstIs
<1>18. /\ found = [i \in 1 .. Cardinality(R) |-> f[i][2]]
       /\ \A i \in 1 .. Cardinality(R) : f[i] \in R
       /\ \A i, j \in 1 .. Cardinality(R) : i < j => Nearer(f[i], f[j])
  BY <1>17 DEF IsOrder
<1>19. \A i \in 1 .. Cardinality(R) : f[i] \in Items(x, q, G) /\ f[i][2] \in G /\ found[i] = f[i][2]
  BY <1>14, <1>18, ItemsAre
<1>20. found \in [1 .. Cardinality(R) -> G]
  BY <1>18, <1>19
<1>21. found \in Seq(G) /\ Len(found) = Cardinality(R)
  BY <1>16, <1>20
<1>22. IsInjective(found)
  <2> SUFFICES ASSUME NEW i \in 1 .. Cardinality(R), NEW j \in 1 .. Cardinality(R), found[i] = found[j]
               PROVE  i = j
    BY <1>20 DEF IsInjective
  <2>1. f[i] = f[j]
    BY <1>19, ItemsAre
  <2>2. f[i] \in Int \X Int
    BY <1>15, <1>18
  <2>3. ~Nearer(f[i], f[j]) /\ ~Nearer(f[j], f[i])
    BY <2>1, <2>2, NearerIs
  <2> QED
    BY <1>16, <1>18, <2>3
<1>23. Head(found) \in G
  BY <1>16, <1>21
<1> QED
  BY <1>16, <1>21, <1>22, <1>23

-----------------------------------------------------------------------------
(* The graph of an index.                                                  *)

IndexNode == [label : Keys, vec : Vectors, deleted : BOOLEAN, links : Seq(Seq(Nat))]

WellFormedIndex(x) ==
    /\ x = [dim |-> x.dim, nodes |-> x.nodes, labels |-> x.labels, entry |-> x.entry, max_level |-> x.max_level]
    /\ x.dim \in Nat
    /\ x.nodes \in Seq(IndexNode)
    /\ \A j \in 1 .. Len(x.nodes) : Len(x.nodes[j].vec) = x.dim /\ Levels(x, j) > 0

\* The links of a node on a level are few, different, and lead to other nodes
\* that have the level.
LinksOk(x, j, level) ==
    /\ Len(Links(x, j, level)) <= MaxLinks(level)
    /\ IsInjective(Links(x, j, level))
    /\ \A i \in DOMAIN Links(x, j, level) :
          /\ Links(x, j, level)[i] \in 1 .. Len(x.nodes)
          /\ Links(x, j, level)[i] # j
          /\ level < Levels(x, Links(x, j, level)[i])

LinksSound(x) == \A j \in 1 .. Len(x.nodes) : \A level \in 0 .. Levels(x, j) - 1 : LinksOk(x, j, level)

\* Two indexes that differ in their links at most.
SameNodes(x, y) ==
    /\ y.dim = x.dim /\ y.labels = x.labels /\ y.entry = x.entry /\ y.max_level = x.max_level
    /\ Len(y.nodes) = Len(x.nodes)
    /\ \A j \in 1 .. Len(x.nodes) :
          /\ y.nodes[j].label = x.nodes[j].label /\ y.nodes[j].vec = x.nodes[j].vec
          /\ y.nodes[j].deleted = x.nodes[j].deleted
          /\ Levels(y, j) = Levels(x, j)

LEMMA MaxLinksIs == \A level \in Nat : MaxLinks(level) \in Nat /\ MaxLinks(level) > 0
  BY HnswAssumption DEF MaxLinks, m0_

\* What a level of a node is.
LEMMA LinksAre ==
    ASSUME NEW x, WellFormedIndex(x), NEW j \in 1 .. Len(x.nodes)
    PROVE  /\ x.nodes[j] \in IndexNode /\ Levels(x, j) \in Nat /\ Levels(x, j) > 0
           /\ Len(x.nodes) \in Nat /\ j \in Nat /\ DOMAIN x.nodes = 1 .. Len(x.nodes)
           /\ \A level \in 0 .. Levels(x, j) - 1 :
                 /\ level + 1 \in 1 .. Len(x.nodes[j].links) /\ level \in Nat
                 /\ Links(x, j, level) \in Seq(Nat)
<1>1. x.nodes \in Seq(IndexNode)
  BY DEF WellFormedIndex
<1>2. Len(x.nodes) \in Nat /\ DOMAIN x.nodes = 1 .. Len(x.nodes) /\ x.nodes[j] \in IndexNode
  BY <1>1
<1>3. x.nodes[j].links \in Seq(Seq(Nat))
  BY <1>2 DEF IndexNode
<1>4. Levels(x, j) = Len(x.nodes[j].links) /\ Levels(x, j) \in Nat
  BY <1>3 DEF Levels
<1>5. \A level \in 0 .. Levels(x, j) - 1 :
         level + 1 \in 1 .. Len(x.nodes[j].links) /\ level \in Nat
  BY <1>4
<1>6. \A level \in 0 .. Levels(x, j) - 1 : Links(x, j, level) \in Seq(Nat)
  BY <1>3, <1>5 DEF Links
<1> QED
  BY <1>2, <1>4, <1>5, <1>6 DEF WellFormedIndex

\* The links of a node on a level are set, and nothing else.
IsRelinked(x, y, c, level, links) ==
    /\ WellFormedIndex(y) /\ SameNodes(x, y)
    /\ Links(y, c, level) = links
    /\ \A j \in 1 .. Len(x.nodes) : \A l \in 0 .. Levels(x, j) - 1 :
          (j # c \/ l # level) => Links(y, j, l) = Links(x, j, l)

LEMMA SetLinksIs ==
    ASSUME NEW x, WellFormedIndex(x), NEW c \in 1 .. Len(x.nodes), NEW level \in 0 .. Levels(x, c) - 1,
           NEW links \in Seq(Nat), NEW y, y = SetLinks(x, c, level, links)
    PROVE  IsRelinked(x, y, c, level, links)
<1>1. PICK nodes : nodes = x.nodes
  OBVIOUS
<1>2. nodes \in Seq(IndexNode) /\ c \in 1 .. Len(nodes) /\ Len(nodes) \in Nat /\ nodes[c] \in IndexNode
  BY <1>1, LinksAre DEF WellFormedIndex
<1>3. PICK old : old = nodes[c]
  OBVIOUS
<1>4. /\ old = [label |-> old.label, vec |-> old.vec, deleted |-> old.deleted, links |-> old.links]
      /\ old.links \in Seq(Seq(Nat)) /\ level + 1 \in 1 .. Len(old.links)
  <2>1. old \in IndexNode
    BY <1>2, <1>3
  <2>2. level + 1 \in 1 .. Len(old.links)
    BY <1>1, <1>3, LinksAre
  <2> QED
    BY <2>1, <2>2 DEF IndexNode
<1> DEFINE all == [old.links EXCEPT ![level + 1] = links]
           new == [label |-> old.label, vec |-> old.vec, deleted |-> old.deleted, links |-> all]
           ys  == [nodes EXCEPT ![c] = new]
<1>5. all \in Seq(Seq(Nat)) /\ Len(all) = Len(old.links)
      /\ all[level + 1] = links /\ \A l \in 1 .. Len(old.links) : l # level + 1 => all[l] = old.links[l]
  BY <1>4
<1>6. new \in IndexNode
  <2>1. old \in IndexNode
    BY <1>2, <1>3
  <2> HIDE DEF all
  <2> QED
    BY <1>5, <2>1 DEF IndexNode
<1>7. y = [dim |-> x.dim, nodes |-> ys, labels |-> x.labels, entry |-> x.entry, max_level |-> x.max_level]
  <2>1. y = [x EXCEPT !.nodes = ys]
    <3>1. y = [x EXCEPT !.nodes = [nodes EXCEPT ![c] = [old EXCEPT !.links = all]]]
      BY <1>1, <1>3 DEF SetLinks
    <3>2. [old EXCEPT !.links = all] = new
      <4>1. PICK a, b, d, e : old = [label |-> a, vec |-> b, deleted |-> d, links |-> e]
        <5> HIDE DEF all
        <5> QED
          BY <1>4
      <4>2. old.label = a /\ old.vec = b /\ old.deleted = d
        BY <4>1
      <4>3. [old EXCEPT !.links = all] = [label |-> a, vec |-> b, deleted |-> d, links |-> all]
        <5> HIDE DEF all
        <5> QED
          BY <4>1
      <4> HIDE DEF all
      <4> QED
        BY <4>2, <4>3
    <3> HIDE DEF new
    <3> QED
      BY <3>1, <3>2
  <2>2. x = [dim |-> x.dim, nodes |-> x.nodes, labels |-> x.labels, entry |-> x.entry, max_level |-> x.max_level]
    BY DEF WellFormedIndex
  <2> HIDE DEF ys
  <2> QED
    BY <2>1, <2>2
<1> HIDE DEF all
<1>8. /\ new.label = old.label /\ new.vec = old.vec /\ new.deleted = old.deleted /\ new.links = all
  OBVIOUS
<1> HIDE DEF new
<1>9. /\ ys \in Seq(IndexNode) /\ Len(ys) = Len(nodes) /\ ys[c] = new
      /\ \A j \in 1 .. Len(nodes) : j # c => ys[j] = nodes[j]
  BY <1>2, <1>6
<1> HIDE DEF ys
<1>10. y.nodes = ys /\ y.dim = x.dim /\ y.labels = x.labels /\ y.entry = x.entry /\ y.max_level = x.max_level
  BY <1>7
<1>11. ASSUME NEW j \in 1 .. Len(nodes)
       PROVE  /\ y.nodes[j].label = x.nodes[j].label /\ y.nodes[j].vec = x.nodes[j].vec
              /\ y.nodes[j].deleted = x.nodes[j].deleted /\ Len(y.nodes[j].links) = Len(x.nodes[j].links)
  <2>1. CASE j = c
    BY <1>1, <1>3, <1>5, <1>8, <1>9, <1>10, <2>1
  <2>2. CASE j # c
    BY <1>1, <1>9, <1>10, <2>2
  <2> QED
    BY <2>1, <2>2
<1>12. SameNodes(x, y)
  BY <1>1, <1>9, <1>10, <1>11 DEF SameNodes, Levels
<1>13. WellFormedIndex(y)
  <2>1. \A j \in 1 .. Len(y.nodes) : Len(y.nodes[j].vec) = y.dim /\ Levels(y, j) > 0
    BY <1>1, <1>9, <1>10, <1>11, LinksAre, ZenonT(30) DEF WellFormedIndex, Levels
  <2>2. x.dim \in Nat
    BY DEF WellFormedIndex
  <2>3. y = [dim |-> y.dim, nodes |-> y.nodes, labels |-> y.labels, entry |-> y.entry, max_level |-> y.max_level]
    BY <1>7, <1>10
  <2> QED
    BY <1>9, <1>10, <2>1, <2>2, <2>3 DEF WellFormedIndex
<1>14. Links(y, c, level) = links
  BY <1>5, <1>8, <1>9, <1>10 DEF Links
<1>15. ASSUME NEW j \in 1 .. Len(x.nodes), NEW l \in 0 .. Levels(x, j) - 1, j # c \/ l # level
       PROVE  Links(y, j, l) = Links(x, j, l)
  <2>1. CASE j # c
    BY <1>1, <1>9, <1>10, <2>1 DEF Links
  <2>2. CASE j = c /\ l # level
    <3>1. l \in Nat /\ l + 1 \in 1 .. Len(x.nodes[j].links)
      BY LinksAre
    <3>2. level \in Nat
      BY LinksAre
    <3>3. l + 1 # level + 1
      BY <2>2, <3>1, <3>2
    <3>4. l + 1 \in 1 .. Len(old.links)
      BY <1>1, <1>3, <2>2, <3>1
    <3>5. all[l + 1] = old.links[l + 1]
      BY <1>5, <3>3, <3>4
    <3> QED
      BY <1>1, <1>3, <1>8, <1>9, <1>10, <2>2, <3>5 DEF Links
  <2> QED
    BY <1>15, <2>1, <2>2
<1> QED
  BY <1>12, <1>13, <1>14, <1>15 DEF IsRelinked

\* Links that may stand for those of c on a level.
MayLink(x, c, level, links) ==
    /\ links \in Seq(Nat) /\ Len(links) <= MaxLinks(level) /\ IsInjective(links)
    /\ \A i \in DOMAIN links : /\ links[i] \in 1 .. Len(x.nodes) /\ links[i] # c
                               /\ level < Levels(x, links[i])

\* They keep the graph sound.
LEMMA RelinkedIsSound ==
    ASSUME NEW x, WellFormedIndex(x), LinksSound(x), NEW c \in 1 .. Len(x.nodes),
           NEW level \in 0 .. Levels(x, c) - 1, NEW links, MayLink(x, c, level, links),
           NEW y, IsRelinked(x, y, c, level, links)
    PROVE  LinksSound(y)
<1>1. /\ Len(y.nodes) = Len(x.nodes)
      /\ \A j \in 1 .. Len(x.nodes) : Levels(y, j) = Levels(x, j)
  BY DEF IsRelinked, SameNodes
<1> SUFFICES ASSUME NEW j \in 1 .. Len(x.nodes), NEW l \in 0 .. Levels(x, j) - 1
             PROVE  LinksOk(y, j, l)
  BY <1>1 DEF LinksSound
<1>2. CASE j = c /\ l = level
  <2>1. Links(y, j, l) = links
    BY <1>2 DEF IsRelinked
  <2> QED
    BY <1>1, <1>2, <2>1 DEF LinksOk, MayLink
<1>3. CASE j # c \/ l # level
  <2>1. Links(y, j, l) = Links(x, j, l)
    BY <1>3 DEF IsRelinked
  <2>2. LinksOk(x, j, l)
    BY DEF LinksSound
  <2> QED
    BY <1>1, <2>1, <2>2 DEF LinksOk
<1> QED
  BY <1>2, <1>3

\* Being the same but for the links is an equivalence.
LEMMA SameNodesIs ==
    ASSUME NEW x, NEW y, NEW z
    PROVE  /\ SameNodes(x, x)
           /\ SameNodes(x, y) /\ SameNodes(y, z) => SameNodes(x, z)
  BY DEF SameNodes

-----------------------------------------------------------------------------
(* Linking a new node.                                                     *)

LEMMA DistancesAre ==
    ASSUME NEW x, WellFormedIndex(x)
    PROVE  /\ \A i, j \in 1 .. Len(x.nodes) : Distance(x.nodes[i].vec, x.nodes[j].vec) \in Nat
           /\ \A q \in Vectors, j \in 1 .. Len(x.nodes) :
                 Len(q) = x.dim => Distance(q, x.nodes[j].vec) \in Nat
<1>1. \A j \in 1 .. Len(x.nodes) : x.nodes[j].vec \in Seq(Int) /\ Len(x.nodes[j].vec) = x.dim
  <2>1. \A j \in 1 .. Len(x.nodes) : x.nodes[j] \in IndexNode
    BY LinksAre
  <2>2. Vectors \subseteq Seq(Int)
    BY ObjectsAssumption
  <2> QED
    BY <2>1, <2>2 DEF IndexNode, WellFormedIndex
<1>2. Vectors \subseteq Seq(Int)
  BY ObjectsAssumption
<1> QED
  BY <1>1, <1>2, DistanceIs

\* x has the nodes id and c, and c may get a link to id.
Linkable(x, id, level, c) ==
    /\ WellFormedIndex(x)
    /\ id \in 1 .. Len(x.nodes) /\ c \in 1 .. Len(x.nodes) /\ c # id
    /\ level \in 0 .. Levels(x, c) - 1 /\ level < Levels(x, id)
    /\ LinksOk(x, c, level)
    /\ \A i \in DOMAIN Links(x, c, level) : Links(x, c, level)[i] # id

\* The links kept, be they all or the closest, are few and different.
LEMMA BackLinkIs ==
    ASSUME NEW x, NEW id, NEW level, NEW c, Linkable(x, id, level, c), NEW late \in BOOLEAN,
           NEW y, y = BackLink(x, id, level, c, late)
    PROVE  \E kept : MayLink(x, c, level, kept) /\ IsRelinked(x, y, c, level, kept)
<1> DEFINE clinks   == Append(Links(x, c, level), id)
           Ranked(a) == <<Distance(x.nodes[c].vec, x.nodes[a].vec), IF late THEN -a ELSE a>>
           H        == {Ranked(a) : a \in Range(clinks)}
           sorted   == NearestFirst(H)
           closest  == [n \in 1 .. MaxLinks(level) |-> IF late THEN -sorted[n] ELSE sorted[n]]
           kept     == IF Len(clinks) > MaxLinks(level) THEN closest ELSE clinks
<1>1. /\ WellFormedIndex(x) /\ id \in 1 .. Len(x.nodes) /\ c \in 1 .. Len(x.nodes) /\ c # id
      /\ level \in 0 .. Levels(x, c) - 1 /\ level < Levels(x, id)
  BY DEF Linkable
<1>2. PICK old \in Seq(Nat) : old = Links(x, c, level)
  BY <1>1, LinksAre
<1>3. /\ Len(old) <= MaxLinks(level) /\ IsInjective(old)
      /\ \A i \in 1 .. Len(old) : /\ old[i] \in 1 .. Len(x.nodes) /\ old[i] # c /\ old[i] # id
                                  /\ level < Levels(x, old[i])
  <2>1. DOMAIN old = 1 .. Len(old)
    BY <1>2
  <2> QED
    BY <1>2, <2>1 DEF Linkable, LinksOk
<1>4. MaxLinks(level) \in Nat /\ MaxLinks(level) > 0 /\ id \in Nat /\ Len(old) \in Nat
  <2>1. level \in Nat /\ id \in Nat
    BY <1>1, LinksAre
  <2> QED
    BY <1>2, <2>1, MaxLinksIs
<1>5. PICK all : all = clinks
  OBVIOUS
<1>6. /\ all \in Seq(Nat) /\ Len(all) = Len(old) + 1 /\ all[Len(old) + 1] = id
      /\ \A i \in 1 .. Len(old) : all[i] = old[i]
  BY <1>2, <1>4, <1>5
<1>7. \A i \in 1 .. Len(all) : all[i] \in 1 .. Len(x.nodes) /\ all[i] # c /\ level < Levels(x, all[i]) /\ all[i] \in Nat
  <2> TAKE i \in 1 .. Len(all)
  <2>1. CASE i \in 1 .. Len(old)
    <3>1. all[i] = old[i]
      BY <1>6, <2>1
    <3>2. all[i] \in Nat
      BY <1>6
    <3> QED
      BY <1>3, <2>1, <3>1, <3>2
  <2>2. CASE i = Len(old) + 1
    BY <1>1, <1>4, <1>6, <2>2
  <2> QED
    BY <1>4, <1>6, <2>1, <2>2
<1>8. \A i, j \in 1 .. Len(all) : all[i] = all[j] => i = j
  <2> TAKE i, j \in 1 .. Len(all)
  <2>1. (i \in 1 .. Len(old) \/ i = Len(old) + 1) /\ (j \in 1 .. Len(old) \/ j = Len(old) + 1)
    BY <1>4, <1>6
  <2>2. \A m, n \in 1 .. Len(old) : old[m] = old[n] => m = n
    <3>1. DOMAIN old = 1 .. Len(old)
      BY <1>2
    <3> QED
      BY <1>3, <3>1 DEF IsInjective
  <2> QED
    BY <1>3, <1>6, <2>1, <2>2
<1>9. CASE ~(Len(all) > MaxLinks(level))
  <2>1. y = SetLinks(x, c, level, all)
    BY <1>5, <1>9 DEF BackLink
  <2>2. IsRelinked(x, y, c, level, all)
    BY <1>1, <1>6, <2>1, SetLinksIs
  <2>3. MayLink(x, c, level, all)
    <3>1. DOMAIN all = 1 .. Len(all) /\ Len(all) <= MaxLinks(level)
      BY <1>4, <1>6, <1>9
    <3> QED
      BY <1>6, <1>7, <1>8, <3>1 DEF MayLink, IsInjective
  <2> QED
    BY <2>2, <2>3
<1>10. CASE Len(all) > MaxLinks(level)
  <2>1. y = SetLinks(x, c, level, closest)
    <3>1. kept = closest
      BY <1>5, <1>10
    <3>2. y = SetLinks(x, c, level, kept)
      BY DEF BackLink
    <3> QED
      BY <3>1, <3>2
  <2>2. \A i \in 1 .. Len(all) : /\ Ranked(all[i]) \in Int \X Int
                                 /\ all[i] = IF late THEN -(Ranked(all[i])[2]) ELSE Ranked(all[i])[2]
    <3> TAKE i \in 1 .. Len(all)
    <3>1. Distance(x.nodes[c].vec, x.nodes[all[i]].vec) \in Nat
      BY <1>1, <1>7, DistancesAre
    <3>2. PICK a \in Nat : a = all[i]
      BY <1>7
    <3>3. PICK d \in Nat : d = Distance(x.nodes[c].vec, x.nodes[a].vec)
      BY <3>1, <3>2
    <3>4. Ranked(a) = <<d, IF late THEN -a ELSE a>>
      BY <3>3
    <3>5. Ranked(a) \in Int \X Int /\ a = IF late THEN -(Ranked(a)[2]) ELSE Ranked(a)[2]
      <4>1. (IF late THEN -a ELSE a) \in Int
        OBVIOUS
      <4>2. a = IF late THEN -(IF late THEN -a ELSE a) ELSE (IF late THEN -a ELSE a)
        OBVIOUS
      <4> HIDE DEF Ranked
      <4> QED
        BY <3>4, <4>1, <4>2
    <3> QED
      BY <3>2, <3>5
  <2> HIDE DEF Ranked
  <2>3. H = {Ranked(all[i]) : i \in 1 .. Len(all)}
    <3>1. Range(all) = {all[i] : i \in 1 .. Len(all)}
      <4>1. DOMAIN all = 1 .. Len(all)
        BY <1>6
      <4> QED
        BY <4>1 DEF Range
    <3>2. H = {Ranked(a) : a \in Range(all)}
      BY <1>5
    <3> QED
      BY <3>1, <3>2
  <2> DEFINE rank == [i \in 1 .. Len(all) |-> Ranked(all[i])]
  <2>4. rank \in Surjection(1 .. Len(all), H)
    BY <2>3 DEF Surjection
  <2>5. rank \in Injection(1 .. Len(all), H)
    <3>1. \A i, j \in 1 .. Len(all) : Ranked(all[i]) = Ranked(all[j]) => all[i] = all[j]
      BY <2>2
    <3>2. \A i, j \in 1 .. Len(all) : rank[i] = rank[j] => i = j
      BY <1>8, <3>1
    <3> QED
      BY <2>3, <3>2 DEF Injection, IsInjective
  <2>6. IsFiniteSet(H) /\ Cardinality(H) = Len(all)
    <3>1. Len(all) \in Nat
      BY <1>4, <1>6
    <3>2. IsFiniteSet(1 .. Len(all)) /\ Cardinality(1 .. Len(all)) = Len(all)
      <4>1. PICK n \in Nat : n = Len(all)
        BY <3>1
      <4>2. IsFiniteSet(1 .. n) /\ Cardinality(1 .. n) = IF 1 > n THEN 0 ELSE n - 1 + 1
        BY FS_Interval
      <4> QED
        BY <4>1, <4>2
    <3> HIDE DEF rank, H
    <3>3. IsFiniteSet(H) /\ (Cardinality(H) = Cardinality(1 .. Len(all)) <=> rank \in Injection(1 .. Len(all), H))
      BY <2>4, <3>2, FS_Surjection
    <3> QED
      BY <2>5, <3>2, <3>3
  <2>7. H \subseteq Int \X Int
    BY <2>2, <2>3
  <2>8. PICK f : IsOrder(sorted, f, H)
    <3> HIDE DEF H
    <3> QED
      BY <2>6, <2>7, NearestFirstIs
  <2>9. /\ \A n \in 1 .. Len(all) : f[n] \in H /\ sorted[n] = f[n][2]
        /\ \A n, m \in 1 .. Len(all) : n < m => Nearer(f[n], f[m])
    <3> HIDE DEF H
    <3> QED
      BY <2>6, <2>8 DEF IsOrder
  <2>10. \A n \in 1 .. MaxLinks(level) : n \in 1 .. Len(all)
    BY <1>4, <1>6, <1>10
  <2>11. \A n \in 1 .. MaxLinks(level) : \E i \in 1 .. Len(all) : closest[n] = all[i] /\ f[n] = Ranked(all[i])
    <3> TAKE n \in 1 .. MaxLinks(level)
    <3>1. f[n] \in H /\ sorted[n] = f[n][2]
      BY <2>9, <2>10
    <3>2. PICK i \in 1 .. Len(all) : f[n] = Ranked(all[i])
      BY <2>3, <3>1
    <3>3. closest[n] = IF late THEN -sorted[n] ELSE sorted[n]
      OBVIOUS
    <3> HIDE DEF closest, sorted, H
    <3> QED
      BY <2>2, <3>1, <3>2, <3>3
  <2>12. closest \in Seq(Nat) /\ Len(closest) = MaxLinks(level) /\ DOMAIN closest = 1 .. MaxLinks(level)
    <3>1. \A n \in 1 .. MaxLinks(level) : closest[n] \in Nat
      <4> HIDE DEF closest
      <4> QED
        BY <1>7, <2>11
    <3>2. closest = [n \in 1 .. MaxLinks(level) |-> closest[n]]
      OBVIOUS
    <3> HIDE DEF closest
    <3>3. closest \in [1 .. MaxLinks(level) -> Nat]
      BY <3>1, <3>2
    <3> QED
      BY <1>4, <3>3
  <2> HIDE DEF closest, sorted, H
  <2>13. IsInjective(closest)
    <3> SUFFICES ASSUME NEW n \in 1 .. MaxLinks(level), NEW m \in 1 .. MaxLinks(level), closest[n] = closest[m]
                 PROVE  n = m
      BY <2>12 DEF IsInjective
    <3>1. f[n] = f[m]
      BY <2>11
    <3>2. ~(n < m) /\ ~(m < n)
      <4>1. f[n] \in Int \X Int
        BY <2>7, <2>9, <2>10
      <4>2. ~Nearer(f[n], f[m]) /\ ~Nearer(f[m], f[n])
        BY <3>1, <4>1, NearerIs
      <4> QED
        BY <2>9, <2>10, <4>2
    <3> QED
      BY <1>4, <3>2
  <2>14. MayLink(x, c, level, closest)
    <3>1. \A i \in DOMAIN closest : /\ closest[i] \in 1 .. Len(x.nodes) /\ closest[i] # c
                                     /\ level < Levels(x, closest[i])
      BY <1>7, <2>11, <2>12
    <3>2. Len(closest) <= MaxLinks(level)
      BY <1>4, <2>12
    <3> QED
      BY <2>12, <2>13, <3>1, <3>2 DEF MayLink
  <2>15. IsRelinked(x, y, c, level, closest)
    BY <1>1, <2>1, <2>12, SetLinksIs
  <2> QED
    BY <2>14, <2>15
<1> QED
  BY <1>9, <1>10

\* No links lead to id from the nodes with the level.
Unlinked(x, id, level) ==
    \A j \in 1 .. Len(x.nodes) : level < Levels(x, j) =>
        \A i \in DOMAIN Links(x, j, level) : Links(x, j, level)[i] # id

\* A sequence of different nodes with the level, other than id.
Candidates(x, id, level, found) ==
    /\ found \in Seq(Nat) /\ IsInjective(found)
    /\ \A i \in 1 .. Len(found) : /\ found[i] \in 1 .. Len(x.nodes) /\ found[i] # id
                                  /\ level < Levels(x, found[i])

\* y is x with links on a level changed.
IsLinkedOn(x, y, level) ==
    /\ WellFormedIndex(y) /\ LinksSound(y) /\ SameNodes(x, y)
    /\ \A j \in 1 .. Len(x.nodes) : \A l \in 0 .. Levels(x, j) - 1 :
          l # level => Links(y, j, l) = Links(x, j, l)

LEMMA FirstOfSeq ==
    ASSUME NEW S, NEW s \in Seq(S), NEW k \in Nat, k <= Len(s)
    PROVE  /\ SubSeq(s, 1, k) \in Seq(S) /\ Len(SubSeq(s, 1, k)) = k
           /\ \A i \in 1 .. k : SubSeq(s, 1, k)[i] = s[i]
<1>1. Len(SubSeq(s, 1, k)) = k
  OBVIOUS
<1>2. ASSUME NEW i \in 1 .. k PROVE SubSeq(s, 1, k)[i] = s[i] /\ s[i] \in S
  OBVIOUS
<1>3. SubSeq(s, 1, k) \in Seq(S)
  OBVIOUS
<1> QED
  BY <1>1, <1>2, <1>3

\* The first candidates become the links of id.
LEMMA LinksOfNew ==
    ASSUME NEW x, NEW id, NEW level \in Nat, NEW found, Candidates(x, id, level, found),
           NEW links, links = SubSeq(found, 1, Min({Len(found), MaxLinks(level)}))
    PROVE  Candidates(x, id, level, links) /\ Len(links) <= MaxLinks(level) /\ Len(links) \in Nat
<1>1. Len(found) \in Nat /\ MaxLinks(level) \in Nat /\ found \in Seq(Nat)
  BY MaxLinksIs DEF Candidates
<1> DEFINE S == {Len(found), MaxLinks(level)}
           k == Min(S)
<1>2. k \in Nat /\ k <= Len(found) /\ k <= MaxLinks(level)
  <2>1. S \subseteq Nat /\ S # {}
    BY <1>1
  <2>2. k \in S /\ \A n \in S : k <= n
    <3> HIDE DEF S
    <3> QED
      BY <2>1, LeastOfNat
  <2> HIDE DEF k
  <2> QED
    BY <2>1, <2>2
<1>3. links = SubSeq(found, 1, k)
  OBVIOUS
<1> HIDE DEF k
<1>4. links \in Seq(Nat) /\ Len(links) = k /\ \A i \in 1 .. k : links[i] = found[i]
  <2>1. PICK first : first = SubSeq(found, 1, k)
    OBVIOUS
  <2>2. first \in Seq(Nat) /\ Len(first) = k /\ \A i \in 1 .. k : first[i] = found[i]
    BY <1>1, <1>2, <2>1, FirstOfSeq
  <2>3. links = first
    BY <1>3, <2>1
  <2> QED
    BY <2>2, <2>3
<1>5. \A i \in 1 .. k : i \in 1 .. Len(found)
  BY <1>1, <1>2
<1>6. IsInjective(links)
  <2>1. DOMAIN links = 1 .. k /\ DOMAIN found = 1 .. Len(found)
    BY <1>1, <1>4
  <2>2. \A i, j \in 1 .. Len(found) : found[i] = found[j] => i = j
    BY <2>1 DEF Candidates, IsInjective
  <2>3. ASSUME NEW i \in 1 .. k, NEW j \in 1 .. k, links[i] = links[j] PROVE i = j
    <3>1. links[i] = found[i] /\ links[j] = found[j]
      BY <1>4
    <3>2. i \in 1 .. Len(found) /\ j \in 1 .. Len(found)
      BY <1>5
    <3> QED
      BY <2>2, <2>3, <3>1, <3>2
  <2> QED
    BY <2>1, <2>3 DEF IsInjective
<1> QED
  BY <1>2, <1>4, <1>5, <1>6 DEF Candidates

LEMMA ConnectIs ==
    ASSUME NEW x, WellFormedIndex(x), LinksSound(x), NEW id \in 1 .. Len(x.nodes),
           NEW level \in 0 .. Levels(x, id) - 1, Unlinked(x, id, level),
           NEW candidates, Candidates(x, id, level, candidates), NEW late \in BOOLEAN,
           NEW y, y = Connect(x, id, level, candidates, late)
    PROVE  IsLinkedOn(x, y, level)
<1> DEFINE own    == {i \in DOMAIN candidates : candidates[i] = id}
           others == IF own = {} THEN candidates ELSE RemoveAt(candidates, Min(own))
<1>1. own = {} /\ others = candidates
  <2>1. DOMAIN candidates = 1 .. Len(candidates)
    BY DEF Candidates
  <2>2. own = {}
    BY <2>1 DEF Candidates
  <2> HIDE DEF own
  <2> QED
    BY <2>2
<1>2. PICK links : links = SubSeq(candidates, 1, Min({Len(candidates), MaxLinks(level)}))
  OBVIOUS
<1>3. level \in Nat /\ id \in Nat /\ Len(x.nodes) \in Nat
  BY LinksAre
<1>4. Candidates(x, id, level, links) /\ Len(links) <= MaxLinks(level) /\ Len(links) \in Nat
  BY <1>2, <1>3, LinksOfNew
<1>5. /\ links \in Seq(Nat) /\ IsInjective(links)
      /\ \A i \in 1 .. Len(links) : /\ links[i] \in 1 .. Len(x.nodes) /\ links[i] # id
                                    /\ level < Levels(x, links[i])
      /\ DOMAIN links = 1 .. Len(links)
  BY <1>4 DEF Candidates
<1>6. MayLink(x, id, level, links)
  BY <1>4, <1>5 DEF MayLink
<1>7. PICK first : first = SetLinks(x, id, level, links)
  OBVIOUS
<1>8. IsRelinked(x, first, id, level, links) /\ LinksSound(first)
  <2>1. IsRelinked(x, first, id, level, links)
    BY <1>5, <1>7, SetLinksIs
  <2> QED
    BY <1>6, <2>1, RelinkedIsSound
<1> DEFINE n    == Len(links)
           U    == [dim : {x.dim}, nodes : Seq(IndexNode), labels : {x.labels}, entry : {x.entry},
                    max_level : {x.max_level}]
           Half(z, i) == /\ IsLinkedOn(x, z, level)
                         /\ \A m \in i + 1 .. n : \A e \in DOMAIN Links(z, links[m], level) :
                               Links(z, links[m], level)[e] # id
           Next1(z, i) == BackLink(z, id, level, links[i], late)
           Body(g, i) == IF i = 0 THEN first ELSE Next1(g[i - 1], i)
           W    == [i \in 0 .. n |-> {z \in U : Half(z, i)}]
           step == [i \in 1 .. n |-> [z \in W[i - 1] |-> Next1(z, i)]]
<1>9. ASSUME NEW z, IsLinkedOn(x, z, level) PROVE z \in U
  <2>1. /\ z = [dim |-> z.dim, nodes |-> z.nodes, labels |-> z.labels, entry |-> z.entry, max_level |-> z.max_level]
        /\ z.nodes \in Seq(IndexNode)
    BY <1>9 DEF IsLinkedOn, WellFormedIndex
  <2>2. z.dim = x.dim /\ z.labels = x.labels /\ z.entry = x.entry /\ z.max_level = x.max_level
    BY <1>9 DEF IsLinkedOn, SameNodes
  <2> QED
    BY <2>1, <2>2
<1>10. Half(first, 0)
  <2>1. IsLinkedOn(x, first, level)
    <3>1. \A j \in 1 .. Len(x.nodes) : \A l \in 0 .. Levels(x, j) - 1 :
             l # level => Links(first, j, l) = Links(x, j, l)
      BY <1>8 DEF IsRelinked
    <3> QED
      BY <1>8, <3>1 DEF IsLinkedOn, IsRelinked
  <2>2. ASSUME NEW m \in 0 + 1 .. n PROVE \A e \in DOMAIN Links(first, links[m], level) :
                                             Links(first, links[m], level)[e] # id
    <3>1. PICK c : c = links[m]
      OBVIOUS
    <3>2. c \in 1 .. Len(x.nodes) /\ c # id /\ level < Levels(x, c)
      BY <1>4, <1>5, <3>1
    <3>3. Levels(x, c) \in Nat
      BY <3>2, LinksAre
    <3>4. level \in 0 .. Levels(x, c) - 1
      BY <1>3, <3>2, <3>3
    <3>5. Links(first, c, level) = Links(x, c, level)
      BY <1>8, <3>2, <3>4 DEF IsRelinked
    <3> QED
      BY <3>1, <3>2, <3>5 DEF Unlinked
  <2> QED
    BY <2>1, <2>2
<1>11. ASSUME NEW i \in 1 .. n, NEW z, Half(z, i - 1)
       PROVE  Half(Next1(z, i), i)
  <2>1. PICK c : c = links[i]
    OBVIOUS
  <2>2. c \in 1 .. Len(x.nodes) /\ c # id /\ level < Levels(x, c) /\ Levels(x, c) \in Nat
    BY <1>5, <2>1, LinksAre
  <2>3. /\ WellFormedIndex(z) /\ LinksSound(z) /\ Len(z.nodes) = Len(x.nodes)
        /\ \A j \in 1 .. Len(x.nodes) : Levels(z, j) = Levels(x, j)
    BY <1>11 DEF IsLinkedOn, SameNodes
  <2>4. level \in 0 .. Levels(z, c) - 1
    BY <1>3, <2>2, <2>3
  <2>5. Linkable(z, id, level, c)
    <3>1. LinksOk(z, c, level)
      BY <2>2, <2>3, <2>4 DEF LinksSound
    <3>2. level < Levels(z, id)
      <4>1. Levels(x, id) \in Nat
        BY LinksAre
      <4> QED
        BY <1>3, <2>3, <4>1
    <3>3. \A e \in DOMAIN Links(z, c, level) : Links(z, c, level)[e] # id
      <4>1. i \in (i - 1) + 1 .. n
        BY <1>4
      <4> QED
        BY <1>11, <2>1, <4>1
    <3> QED
      BY <2>2, <2>3, <2>4, <3>1, <3>2, <3>3 DEF Linkable
  <2>6. PICK w : w = Next1(z, i)
    OBVIOUS
  <2>7. PICK kept : MayLink(z, c, level, kept) /\ IsRelinked(z, w, c, level, kept)
    BY <2>1, <2>5, <2>6, BackLinkIs
  <2>8. LinksSound(w)
    BY <2>2, <2>3, <2>4, <2>7, RelinkedIsSound
  <2>9. WellFormedIndex(w) /\ SameNodes(x, w)
    <3>1. SameNodes(x, z)
      BY <1>11 DEF IsLinkedOn
    <3> QED
      BY <2>7, <3>1, SameNodesIs DEF IsRelinked
  <2>10. \A j \in 1 .. Len(x.nodes) : \A l \in 0 .. Levels(x, j) - 1 :
            /\ l # level => Links(w, j, l) = Links(x, j, l)
            /\ j # c => Links(w, j, l) = Links(z, j, l)
    BY <1>11, <2>3, <2>7 DEF IsRelinked, IsLinkedOn
  <2>11. IsLinkedOn(x, w, level)
    BY <2>8, <2>9, <2>10 DEF IsLinkedOn
  <2>12. ASSUME NEW m \in i + 1 .. n PROVE \A e \in DOMAIN Links(w, links[m], level) :
                                             Links(w, links[m], level)[e] # id
    <3>1. m \in 1 .. n /\ m # i /\ m \in (i - 1) + 1 .. n
      BY <1>4
    <3>2. links[m] \in 1 .. Len(x.nodes) /\ level < Levels(x, links[m]) /\ links[m] # c
      BY <1>5, <2>1, <3>1 DEF IsInjective
    <3>3. PICK d : d = links[m]
      OBVIOUS
    <3>4. level \in 0 .. Levels(x, d) - 1
      <4>1. Levels(x, d) \in Nat
        BY <3>2, <3>3, LinksAre
      <4> QED
        BY <1>3, <3>2, <3>3, <4>1
    <3>5. Links(w, d, level) = Links(z, d, level)
      BY <2>10, <3>2, <3>3, <3>4
    <3> QED
      BY <1>11, <3>1, <3>3, <3>5
  <2> HIDE DEF Next1
  <2> QED
    BY <2>6, <2>11, <2>12
<1>12. /\ W[0] = {z \in U : Half(z, 0)}
       /\ \A i \in 1 .. n : W[i - 1] = {z \in U : Half(z, i - 1)} /\ W[i] = {z \in U : Half(z, i)}
  <2>1. n \in Nat
    BY <1>4
  <2>2. 0 \in 0 .. n /\ \A i \in 1 .. n : i - 1 \in 0 .. n /\ i \in 0 .. n
    <3> HIDE DEF n
    <3> QED
      BY <2>1
  <2> HIDE DEF Half, U, n
  <2> QED
    BY <2>2
<1>13. \A i \in 1 .. n : \A z \in W[i - 1] : step[i][z] = Next1(z, i)
  <2> HIDE DEF W, n, Next1
  <2> QED
    OBVIOUS
<1>14. ASSUME NEW z, NEW i, Half(z, i) PROVE z \in U
  BY <1>9, <1>14
<1>15. Connect(x, id, level, candidates, late)
         = (CHOOSE f : f = [i \in 0 .. n |-> Body(f, i)])[n]
  BY <1>1, <1>2, <1>7 DEF Connect
<1> HIDE DEF W, step, U, Half, Next1
<1>16. first \in W[0]
  BY <1>10, <1>12, <1>14
<1>17. \A i \in 1 .. n : \A z \in W[i - 1] : step[i][z] \in W[i]
  BY <1>11, <1>12, <1>13, <1>14
<1>18. n \in Nat
  BY <1>4
<1> HIDE DEF n
<1>19. PICK g : IsRun(g, n, first, step) /\ \A i \in 0 .. n : g[i] \in W[i]
  BY <1>16, <1>17, <1>18, Iterates
<1>20. g = [i \in 0 .. n |-> Body(g, i)]
  <2>1. g = [i \in 0 .. n |-> g[i]] /\ g[0] = first /\ \A i \in 1 .. n : g[i] = step[i][g[i - 1]]
    BY <1>18, <1>19, RunIs
  <2>2. ASSUME NEW i \in 0 .. n PROVE g[i] = Body(g, i)
    <3>1. CASE i = 0
      BY <2>1, <3>1
    <3>2. CASE i # 0
      <4>1. i \in 1 .. n /\ i - 1 \in 0 .. n
        BY <1>18, <3>2
      <4> QED
        BY <1>13, <1>19, <2>1, <3>2, <4>1
    <3> QED
      BY <3>1, <3>2
  <2> HIDE DEF Body
  <2> QED
    BY <2>1, <2>2
<1> DEFINE back == CHOOSE f : f = [i \in 0 .. n |-> Body(f, i)]
<1>21. back = [i \in 0 .. n |-> Body(back, i)]
  <2> HIDE DEF Body
  <2> QED
    BY <1>20
<1>22. y = back[n]
  BY <1>15
<1> HIDE DEF back
<1>23. Follows(back, n, first, step, W)
  <2>1. back[0] = first
    <3>1. 0 \in 0 .. n
      BY <1>18
    <3> QED
      BY <1>21, <3>1
  <2>2. ASSUME NEW i \in 1 .. n, back[i - 1] \in W[i - 1] PROVE back[i] = step[i][back[i - 1]]
    <3>1. i \in 0 .. n /\ i # 0
      BY <1>18
    <3>2. back[i] = Next1(back[i - 1], i)
      BY <1>21, <3>1
    <3> QED
      BY <1>13, <2>2, <3>2
  <2> HIDE DEF Body
  <2> QED
    BY <2>1, <2>2 DEF Follows
<1>24. \A i \in 0 .. n : back[i] \in W[i]
  BY <1>16, <1>17, <1>18, <1>23, Iterates
<1>25. IsLinkedOn(x, y, level)
  <2>1. n \in 0 .. n
    BY <1>18
  <2>2. y \in W[n]
    BY <1>22, <1>24, <2>1
  <2>3. Half(y, n)
    <3>1. n = 0 \/ n \in 1 .. n
      BY <1>18
    <3> QED
      BY <1>12, <2>2, <3>1
  <2> QED
    BY <2>3 DEF Half
<1> QED
  BY <1>25

-----------------------------------------------------------------------------
(* Adding a node, level by level.                                          *)

LEMMA IsSeqOver == ASSUME NEW S, NEW n \in Nat, NEW f \in [1 .. n -> S] PROVE f \in Seq(S)
  OBVIOUS

LEMMA SeqWider ==
    ASSUME NEW S, NEW T, S \subseteq T, NEW s \in Seq(S)
    PROVE  s \in Seq(T)
<1>1. PICK n \in Nat : n = Len(s)
  OBVIOUS
<1>2. s \in [1 .. n -> S]
  BY <1>1
<1>3. s \in [1 .. n -> T]
  BY <1>2
<1> QED
  BY <1>3, IsSeqOver

\* What a search that begins at cur may rely on, once the levels of the index w
\* above lvl are done: no link leads to the new node id on those left.
Layered(w, id, z, lvl) ==
    /\ WellFormedIndex(z.index) /\ LinksSound(z.index) /\ SameNodes(w, z.index)
    /\ \A l \in 0 .. lvl : Unlinked(z.index, id, l)
    /\ z.cur \in 1 .. Len(w.nodes) /\ z.cur # id /\ lvl < Levels(w, z.cur)

LEMMA LayerIs ==
    ASSUME NEW w, NEW id \in 1 .. Len(w.nodes), NEW lvl \in Nat, NEW above, Layered(w, id, above, lvl),
           NEW vec \in Vectors, Len(vec) = w.dim, NEW level \in Nat, Levels(w, id) = level + 1,
           NEW late \in BOOLEAN, NEW z, z = Layer(above, id, vec, level, lvl, late)
    PROVE  z = [index |-> z.index, cur |-> z.cur] /\ Layered(w, id, z, lvl - 1)
<1>1. PICK x : x = above.index
  OBVIOUS
<1>2. PICK entry : entry = above.cur
  OBVIOUS
<1>3. /\ WellFormedIndex(x) /\ LinksSound(x) /\ SameNodes(w, x)
      /\ \A l \in 0 .. lvl : Unlinked(x, id, l)
      /\ entry \in 1 .. Len(w.nodes) /\ entry # id /\ lvl < Levels(w, entry)
  BY <1>1, <1>2 DEF Layered
<1>4. /\ Len(x.nodes) = Len(w.nodes) /\ x.dim = w.dim
      /\ \A j \in 1 .. Len(w.nodes) : Levels(x, j) = Levels(w, j)
  BY <1>3 DEF SameNodes
<1> DEFINE G == {j \in 1 .. Len(x.nodes) : j # id /\ lvl < Levels(x, j)}
<1>5. Closed(x, vec, lvl, G)
  <2>1. Len(x.nodes) \in Nat
    BY <1>3, <1>4, LinksAre
  <2>2. ASSUME NEW j \in G
        PROVE  /\ Distance(vec, x.nodes[j].vec) \in Nat
               /\ lvl < Levels(x, j) /\ Links(x, j, lvl) \in Seq(G)
    <3>1. j \in 1 .. Len(x.nodes) /\ lvl < Levels(x, j) /\ Levels(x, j) \in Nat
      BY <1>3, LinksAre
    <3>2. Distance(vec, x.nodes[j].vec) \in Nat
      BY <1>3, <1>4, <3>1, DistancesAre
    <3>3. lvl \in 0 .. Levels(x, j) - 1
      BY <3>1
    <3>4. PICK links \in Seq(Nat) : links = Links(x, j, lvl)
      BY <1>3, <3>1, <3>3, LinksAre
    <3>5. \A i \in 1 .. Len(links) : links[i] \in G
      <4>1. DOMAIN links = 1 .. Len(links)
        BY <3>4
      <4>2. LinksOk(x, j, lvl)
        BY <1>3, <3>1, <3>3 DEF LinksSound
      <4>3. Unlinked(x, id, lvl)
        <5>1. lvl \in 0 .. lvl
          OBVIOUS
        <5> QED
          BY <1>3, <5>1
      <4> QED
        BY <3>1, <3>4, <4>1, <4>2, <4>3 DEF LinksOk, Unlinked
    <3>6. links \in Seq(G)
      <4>1. PICK n \in Nat : n = Len(links)
        BY <3>4
      <4>2. links = [i \in 1 .. n |-> links[i]]
        BY <3>4, <4>1
      <4> HIDE DEF G
      <4>3. links \in [1 .. n -> G]
        BY <3>5, <4>1, <4>2
      <4> QED
        BY <4>3, IsSeqOver
    <3> HIDE DEF G
    <3> QED
      BY <3>1, <3>2, <3>4, <3>6
  <2> HIDE DEF G
  <2>3. G \subseteq 1 .. Len(x.nodes)
    BY DEF G
  <2> QED
    BY <2>1, <2>2, <2>3 DEF Closed
<1>6. entry \in G
  BY <1>3, <1>4
<1> DEFINE linked == lvl <= level
           ef     == IF linked THEN ef_construction_ ELSE 1
<1>7. ef \in Nat \ {0}
  BY HnswAssumption
<1>8. PICK found : found = SearchLayer(x, vec, entry, ef, lvl)
  OBVIOUS
<1>9. found \in Seq(G) /\ Len(found) > 0 /\ IsInjective(found) /\ Head(found) \in G
  <2> HIDE DEF G, ef
  <2> QED
    BY <1>5, <1>6, <1>7, <1>8, SearchLayerIs
<1>10. Candidates(x, id, lvl, found)
  <2>1. G \subseteq Nat
    OBVIOUS
  <2>2. found \in Seq(Nat)
    <3> HIDE DEF G
    <3> QED
      BY <1>9, <2>1, SeqWider
  <2>3. \A i \in 1 .. Len(found) : found[i] \in G
    <3> HIDE DEF G
    <3> QED
      BY <1>9
  <2> QED
    BY <1>9, <2>2, <2>3 DEF Candidates
<1>11. PICK y : y = Connect(x, id, lvl, found, late)
  OBVIOUS
<1>12. z = [index |-> IF linked THEN y ELSE x, cur |-> Head(found)]
  BY <1>1, <1>2, <1>8, <1>11 DEF Layer
<1>13. PICK next : next = IF linked THEN y ELSE x
  OBVIOUS
<1>14. z = [index |-> next, cur |-> Head(found)] /\ z.index = next /\ z.cur = Head(found)
  <2>1. z = [index |-> next, cur |-> Head(found)]
    BY <1>12, <1>13
  <2> HIDE DEF linked
  <2> QED
    BY <2>1
<1>15. /\ WellFormedIndex(next) /\ LinksSound(next) /\ SameNodes(w, next)
       /\ \A l \in 0 .. lvl - 1 : Unlinked(next, id, l)
  <2>1. CASE ~linked
    <3>1. next = x
      BY <1>13, <2>1
    <3>2. \A l \in 0 .. lvl - 1 : l \in 0 .. lvl
      OBVIOUS
    <3> QED
      BY <1>3, <3>1, <3>2
  <2>2. CASE linked
    <3>1. next = y
      BY <1>13, <2>2
    <3>2. lvl \in 0 .. Levels(x, id) - 1 /\ id \in 1 .. Len(x.nodes) /\ Unlinked(x, id, lvl)
      <4>1. lvl \in 0 .. level /\ lvl \in 0 .. lvl /\ (level + 1) - 1 = level
        BY <2>2
      <4> QED
        BY <1>3, <1>4, <4>1
    <3>3. IsLinkedOn(x, y, lvl)
      BY <1>3, <1>10, <1>11, <3>2, ConnectIs
    <3>4. /\ WellFormedIndex(y) /\ LinksSound(y) /\ SameNodes(x, y)
          /\ \A j \in 1 .. Len(x.nodes) : \A l \in 0 .. Levels(x, j) - 1 :
                l # lvl => Links(y, j, l) = Links(x, j, l)
      BY <3>3 DEF IsLinkedOn
    <3>5. SameNodes(w, y)
      BY <1>3, <3>4, SameNodesIs
    <3>6. ASSUME NEW l \in 0 .. lvl - 1 PROVE Unlinked(y, id, l)
      <4>1. l \in 0 .. lvl /\ l # lvl /\ l \in Nat
        OBVIOUS
      <4>2. Unlinked(x, id, l)
        BY <1>3, <4>1
      <4>3. /\ Len(y.nodes) = Len(x.nodes)
            /\ \A j \in 1 .. Len(x.nodes) : Levels(y, j) = Levels(x, j) /\ Levels(x, j) \in Nat
        BY <1>3, <3>4, LinksAre DEF SameNodes
      <4>4. \A j \in 1 .. Len(x.nodes) : l < Levels(x, j) => Links(y, j, l) = Links(x, j, l)
        <5> TAKE j \in 1 .. Len(x.nodes)
        <5>1. l < Levels(x, j) => l \in 0 .. Levels(x, j) - 1
          BY <4>1, <4>3
        <5> QED
          BY <3>4, <4>1, <5>1
      <4> QED
        BY <4>2, <4>3, <4>4 DEF Unlinked
    <3> QED
      BY <3>1, <3>4, <3>5, <3>6
  <2> QED
    BY <2>1, <2>2
<1>16. Head(found) \in 1 .. Len(w.nodes) /\ Head(found) # id /\ lvl - 1 < Levels(w, Head(found))
  <2>1. PICK c \in G : c = Head(found)
    <3> HIDE DEF G
    <3> QED
      BY <1>9
  <2>2. c \in 1 .. Len(w.nodes) /\ c # id /\ lvl < Levels(w, c)
    BY <1>4
  <2>3. Levels(w, c) \in Nat
    BY <1>3, <1>4, <2>2, LinksAre
  <2>4. lvl - 1 < Levels(w, c)
    BY <2>2, <2>3
  <2> QED
    BY <2>1, <2>2, <2>4
<1> HIDE DEF linked
<1>17. Layered(w, id, z, lvl - 1)
  BY <1>14, <1>15, <1>16 DEF Layered
<1> QED
  BY <1>14, <1>17

\* The levels of add() from the highest on: searches begin at entry.
Layers(w, id, top, entry, vec, level, late) ==
    CHOOSE f : f = [lvl \in -1 .. top |->
                      IF lvl = top THEN [index |-> w, cur |-> entry]
                      ELSE Layer(f[lvl + 1], id, vec, level, lvl + 1, late)]

LEMMA LayersAre ==
    ASSUME NEW w, WellFormedIndex(w), LinksSound(w), NEW id \in 1 .. Len(w.nodes),
           \A l \in Nat : Unlinked(w, id, l),
           NEW top \in Nat, NEW entry \in 1 .. Len(w.nodes), entry # id, Levels(w, entry) = top + 1,
           NEW vec \in Vectors, Len(vec) = w.dim, NEW level \in Nat, Levels(w, id) = level + 1,
           NEW late \in BOOLEAN, NEW layer, layer = Layers(w, id, top, entry, vec, level, late),
           NEW done, done = layer[-1].index
    PROVE  WellFormedIndex(done) /\ LinksSound(done) /\ SameNodes(w, done)
<1> DEFINE n     == top + 1
           first == [index |-> w, cur |-> entry]
           U     == [dim : {w.dim}, nodes : Seq(IndexNode), labels : {w.labels}, entry : {w.entry},
                     max_level : {w.max_level}]
           S     == [index : U, cur : Nat]
           Next1(z, lvl) == Layer(z, id, vec, level, lvl + 1, late)
           Body(f, lvl) == IF lvl = top THEN first ELSE Next1(f[lvl + 1], lvl)
           W     == [i \in 0 .. n |-> {z \in S : Layered(w, id, z, top - i)}]
           step  == [i \in 1 .. n |-> [z \in W[i - 1] |-> Next1(z, top - i)]]
<1>1. n \in Nat /\ n = top + 1
  OBVIOUS
<1>2. /\ W[0] = {z \in S : Layered(w, id, z, top)}
      /\ \A i \in 1 .. n : /\ W[i - 1] = {z \in S : Layered(w, id, z, top - (i - 1))}
                           /\ W[i] = {z \in S : Layered(w, id, z, top - i)}
  <2>1. 0 \in 0 .. n /\ (\A i \in 1 .. n : i - 1 \in 0 .. n /\ i \in 0 .. n) /\ top - 0 = top
    <3> HIDE DEF n
    <3> QED
      BY <1>1
  <2> HIDE DEF S, n
  <2> QED
    BY <2>1
<1>3. \A i \in 1 .. n : \A z \in W[i - 1] : step[i][z] = Next1(z, top - i)
  <2> HIDE DEF W, n, Next1
  <2> QED
    OBVIOUS
<1>4. ASSUME NEW z, NEW lvl, Layered(w, id, z, lvl), z = [index |-> z.index, cur |-> z.cur] PROVE z \in S
  <2>1. PICK x : x = z.index
    OBVIOUS
  <2>2. WellFormedIndex(x) /\ SameNodes(w, x) /\ z.cur \in 1 .. Len(w.nodes)
    BY <1>4, <2>1 DEF Layered
  <2>3. /\ x = [dim |-> x.dim, nodes |-> x.nodes, labels |-> x.labels, entry |-> x.entry, max_level |-> x.max_level]
        /\ x.nodes \in Seq(IndexNode)
    BY <2>2 DEF WellFormedIndex
  <2>4. x.dim = w.dim /\ x.labels = w.labels /\ x.entry = w.entry /\ x.max_level = w.max_level
    BY <2>2 DEF SameNodes
  <2>5. x \in U
    BY <2>3, <2>4
  <2>6. z.cur \in Nat
    BY <2>2
  <2> HIDE DEF U
  <2> QED
    BY <1>4, <2>1, <2>5, <2>6
<1>5. Layered(w, id, first, top)
  <2>1. SameNodes(w, w)
    BY SameNodesIs
  <2>2. first.index = w /\ first.cur = entry /\ top < top + 1 /\ \A l \in 0 .. top : l \in Nat
    OBVIOUS
  <2> HIDE DEF first
  <2> QED
    BY <2>1, <2>2 DEF Layered
<1>6. ASSUME NEW i \in 1 .. n, NEW z \in W[i - 1] PROVE step[i][z] \in W[i]
  <2>1. top - i + 1 = top - (i - 1) /\ top - i + 1 \in Nat /\ (top - i + 1) - 1 = top - i
    BY <1>1
  <2>2. Layered(w, id, z, top - i + 1)
    BY <1>2, <2>1
  <2>3. PICK m \in Nat : m = top - i + 1
    BY <2>1
  <2>4. PICK y : y = Layer(z, id, vec, level, m, late)
    OBVIOUS
  <2>5. y = [index |-> y.index, cur |-> y.cur] /\ Layered(w, id, y, m - 1)
    <3>1. Layered(w, id, z, m)
      BY <2>2, <2>3
    <3> HIDE DEF S, W, step
    <3> QED
      BY <2>4, <3>1, LayerIs
  <2>6. y \in S
    BY <1>4, <2>5
  <2>7. step[i][z] = y
    BY <1>3, <2>3, <2>4
  <2>8. m - 1 = top - i
    BY <2>1, <2>3
  <2> HIDE DEF S, W, step
  <2> QED
    BY <1>2, <2>5, <2>6, <2>7, <2>8
<1>7. first \in W[0]
  <2>1. first \in S
    <3>1. first = [index |-> first.index, cur |-> first.cur]
      OBVIOUS
    <3> HIDE DEF first, S
    <3> QED
      BY <1>4, <1>5, <3>1
  <2> HIDE DEF first, S, W
  <2> QED
    BY <1>2, <1>5, <2>1
<1>8. layer = CHOOSE f : f = [lvl \in -1 .. top |-> Body(f, lvl)]
  BY DEF Layers
<1> HIDE DEF W, step, S, U, Next1, first
<1> HIDE DEF n
<1>9. PICK g : IsRun(g, n, first, step) /\ \A i \in 0 .. n : g[i] \in W[i]
  BY <1>1, <1>6, <1>7, Iterates
<1>10. g[0] = first /\ \A i \in 1 .. n : g[i] = step[i][g[i - 1]]
  BY <1>1, <1>9, RunIs
<1> DEFINE h == [lvl \in -1 .. top |-> g[top - lvl]]
<1>11. h = [lvl \in -1 .. top |-> Body(h, lvl)]
  <2>1. ASSUME NEW lvl \in -1 .. top PROVE h[lvl] = Body(h, lvl)
    <3>1. h[lvl] = g[top - lvl]
      OBVIOUS
    <3>2. CASE lvl = top
      <4>1. top - lvl = 0
        BY <3>2
      <4> HIDE DEF h
      <4> QED
        BY <1>10, <3>1, <3>2, <4>1
    <3>3. CASE lvl # top
      <4>1. lvl + 1 \in -1 .. top /\ top - (lvl + 1) = (top - lvl) - 1 /\ top - (top - lvl) = lvl /\ top - lvl \in 1 .. n
        BY <1>1, <3>3
      <4>2. h[lvl + 1] = g[(top - lvl) - 1]
        BY <4>1
      <4>3. (top - lvl) - 1 \in 0 .. n
        BY <1>1, <4>1
      <4>4. g[top - lvl] = Next1(g[(top - lvl) - 1], lvl)
        <5>1. PICK i \in 1 .. n : i = top - lvl
          BY <4>1
        <5>2. i - 1 \in 0 .. n
          BY <4>3, <5>1
        <5>3. step[i][g[i - 1]] = Next1(g[i - 1], top - i)
          BY <1>3, <1>9, <5>1, <5>2
        <5>4. g[i] = step[i][g[i - 1]]
          BY <1>10, <5>1
        <5>5. top - i = lvl
          BY <4>1, <5>1
        <5> QED
          BY <5>1, <5>3, <5>4, <5>5
      <4> HIDE DEF h
      <4> QED
        BY <3>1, <3>3, <4>2, <4>4
    <3> QED
      BY <3>2, <3>3
  <2>2. h = [lvl \in -1 .. top |-> h[lvl]]
    OBVIOUS
  <2> HIDE DEF h, Body
  <2> QED
    BY <2>1, <2>2
<1>12. layer = [lvl \in -1 .. top |-> Body(layer, lvl)]
  <2> HIDE DEF Body, h
  <2> QED
    BY <1>8, <1>11
<1> DEFINE down == [i \in 0 .. n |-> layer[top - i]]
<1>13. Follows(down, n, first, step, W)
  <2>1. down[0] = first
    <3>1. 0 \in 0 .. n /\ top - 0 = top /\ top \in -1 .. top
      BY <1>1
    <3>2. layer[top] = first
      BY <1>12, <3>1
    <3>3. down[0] = layer[top]
      BY <3>1
    <3> QED
      BY <3>2, <3>3
  <2>2. ASSUME NEW i \in 1 .. n, down[i - 1] \in W[i - 1] PROVE down[i] = step[i][down[i - 1]]
    <3>1. i \in 0 .. n /\ i - 1 \in 0 .. n /\ top - i \in -1 .. top /\ top - i # top /\ (top - i) + 1 = top - (i - 1)
      BY <1>1
    <3>2. down[i] = layer[top - i] /\ down[i - 1] = layer[top - (i - 1)]
      BY <3>1
    <3>3. layer[top - i] = Next1(layer[(top - i) + 1], top - i)
      <4>1. PICK lvl \in -1 .. top : lvl = top - i
        BY <3>1
      <4>2. layer[lvl] = Body(layer, lvl)
        <5> HIDE DEF Body
        <5> QED
          BY <1>12
      <4>3. lvl # top
        BY <3>1, <4>1
      <4>4. layer[lvl] = Next1(layer[lvl + 1], lvl)
        BY <4>2, <4>3
      <4> QED
        BY <4>1, <4>4
    <3> HIDE DEF down, Body
    <3>4. step[i][down[i - 1]] = Next1(down[i - 1], top - i)
      BY <1>3, <2>2
    <3> QED
      BY <3>1, <3>2, <3>3, <3>4
  <2> HIDE DEF down, Body
  <2> QED
    BY <2>1, <2>2 DEF Follows
<1>14. \A i \in 0 .. n : down[i] \in W[i]
  <2> HIDE DEF down
  <2> QED
    BY <1>1, <1>6, <1>7, <1>13, Iterates
<1>15. Layered(w, id, layer[-1], -1)
  <2>1. n \in 0 .. n /\ n \in 1 .. n /\ top - n = -1
    BY <1>1
  <2>2. down[n] = layer[-1]
    BY <2>1
  <2>3. layer[-1] \in W[n]
    <3> HIDE DEF down
    <3> QED
      BY <1>14, <2>1, <2>2
  <2> HIDE DEF down
  <2> QED
    BY <1>2, <2>1, <2>3
<1> QED
  BY <1>15 DEF Layered

-----------------------------------------------------------------------------
(* What an index is between two operations.                                *)

LiveIds(x) == {j \in 1 .. Len(x.nodes) : ~x.nodes[j].deleted}

\* Searches begin at a node that has every level there is.
EntrySound(x) ==
    /\ Len(x.nodes) = 0 => x.entry = -1 /\ x.max_level = -1
    /\ Len(x.nodes) # 0 => /\ x.entry \in 1 .. Len(x.nodes) /\ x.max_level \in Nat
                           /\ Levels(x, x.entry) = x.max_level + 1
    /\ \A j \in 1 .. Len(x.nodes) : Levels(x, j) <= x.max_level + 1

\* The labels name the nodes that are not deleted.
LabelsSound(x) ==
    /\ x.labels = [l \in DOMAIN x.labels |-> x.labels[l]]
    /\ \A l \in DOMAIN x.labels : x.labels[l] \in LiveIds(x) /\ x.nodes[x.labels[l]].label = l
    /\ \A j \in LiveIds(x) : /\ x.nodes[j].label \in DOMAIN x.labels
                             /\ x.labels[x.nodes[j].label] = j

SoundIndex(x) == WellFormedIndex(x) /\ LinksSound(x) /\ EntrySound(x) /\ LabelsSound(x)

\* The labels of an index with their vectors.
LabelEntries(x) == [l \in DOMAIN x.labels |-> x.nodes[x.labels[l]].vec]

LEMMA FieldsOfIndex ==
    ASSUME NEW x, WellFormedIndex(x)
    PROVE  \E dim, nodes, labels, entry, top :
              /\ x = [dim |-> dim, nodes |-> nodes, labels |-> labels, entry |-> entry, max_level |-> top]
              /\ dim \in Nat /\ nodes \in Seq(IndexNode)
<1>1. PICK dim, nodes, labels, entry, top :
         dim = x.dim /\ nodes = x.nodes /\ labels = x.labels /\ entry = x.entry /\ top = x.max_level
  OBVIOUS
<1>2. /\ x = [dim |-> dim, nodes |-> nodes, labels |-> labels, entry |-> entry, max_level |-> top]
      /\ dim \in Nat /\ nodes \in Seq(IndexNode)
  BY <1>1 DEF WellFormedIndex
<1> QED
  BY <1>2

\* VADD makes an index without nodes.
LEMMA EmptyIsSound ==
    ASSUME NEW dim \in Nat
    PROVE  SoundIndex(EmptyIndex(dim)) /\ LabelEntries(EmptyIndex(dim)) = [l \in {} |-> l]
<1>1. PICK x : x = EmptyIndex(dim)
  OBVIOUS
<1>2. /\ x.dim = dim /\ x.nodes = <<>> /\ x.labels = <<>> /\ x.entry = -1 /\ x.max_level = -1
      /\ x = [dim |-> x.dim, nodes |-> x.nodes, labels |-> x.labels, entry |-> x.entry, max_level |-> x.max_level]
  BY <1>1 DEF EmptyIndex
<1>3. Len(x.nodes) = 0 /\ 1 .. Len(x.nodes) = {} /\ x.nodes \in Seq(IndexNode) /\ DOMAIN x.labels = {}
  BY <1>2
<1>4. LiveIds(x) = {}
  BY <1>3 DEF LiveIds
<1>5. x.labels = [l \in DOMAIN x.labels |-> x.labels[l]]
  BY <1>2
<1>6. LabelEntries(x) = [l \in {} |-> l]
  BY <1>3 DEF LabelEntries
<1>7. WellFormedIndex(x)
  BY <1>2, <1>3 DEF WellFormedIndex
<1>8. LinksSound(x) /\ EntrySound(x) /\ LabelsSound(x)
  BY <1>2, <1>3, <1>4, <1>5 DEF LinksSound, EntrySound, LabelsSound
<1> QED
  BY <1>1, <1>6, <1>7, <1>8 DEF SoundIndex

\* Links are sound whatever else changes.
LEMMA SameLinksAreSound ==
    ASSUME NEW x, WellFormedIndex(x), LinksSound(x), NEW y, WellFormedIndex(y), Len(y.nodes) = Len(x.nodes),
           \A j \in 1 .. Len(x.nodes) : y.nodes[j].links = x.nodes[j].links
    PROVE  LinksSound(y) /\ \A j \in 1 .. Len(x.nodes) : Levels(y, j) = Levels(x, j)
<1>1. \A j \in 1 .. Len(x.nodes) : Levels(y, j) = Levels(x, j)
  BY DEF Levels
<1>2. ASSUME NEW j \in 1 .. Len(y.nodes), NEW level \in 0 .. Levels(y, j) - 1
      PROVE  LinksOk(y, j, level)
  <2>1. LinksOk(x, j, level)
    BY <1>1 DEF LinksSound
  <2>2. Links(y, j, level) = Links(x, j, level)
    BY DEF Links
  <2> QED
    BY <1>1, <2>1, <2>2 DEF LinksOk
<1> QED
  BY <1>1, <1>2 DEF LinksSound
-----------------------------------------------------------------------------
(* Adding a node.                                                          *)

\* The index with a node that has no links yet.
WithNode(x, label, vec, level) ==
    [x EXCEPT !.nodes = Append(@, [label |-> label, vec |-> vec, deleted |-> FALSE,
                                   links |-> [n \in 1 .. level + 1 |-> <<>>]]),
              !.labels = [l \in DOMAIN @ \cup {label} |->
                            IF l = label THEN Len(x.nodes) + 1 ELSE @[l]]]

\* w has all of x and one more node.
HasAdded(x, w, label, vec, level) ==
    /\ WellFormedIndex(w) /\ LinksSound(w)
    /\ w.dim = x.dim /\ w.entry = x.entry /\ w.max_level = x.max_level
    /\ Len(w.nodes) = Len(x.nodes) + 1
    /\ w.labels = [l \in DOMAIN x.labels \cup {label} |->
                     IF l = label THEN Len(x.nodes) + 1 ELSE x.labels[l]]
    /\ \A j \in 1 .. Len(x.nodes) :
          /\ w.nodes[j].label = x.nodes[j].label /\ w.nodes[j].vec = x.nodes[j].vec
          /\ w.nodes[j].deleted = x.nodes[j].deleted
          /\ Levels(w, j) = Levels(x, j)
    /\ w.nodes[Len(x.nodes) + 1].label = label /\ w.nodes[Len(x.nodes) + 1].vec = vec
    /\ w.nodes[Len(x.nodes) + 1].deleted = FALSE
    /\ Levels(w, Len(x.nodes) + 1) = level + 1

LEMMA WithNodeIs ==
    ASSUME NEW x, WellFormedIndex(x), LinksSound(x), NEW label \in Keys, NEW vec \in Vectors,
           Len(vec) = x.dim, NEW level \in Nat, NEW w, w = WithNode(x, label, vec, level)
    PROVE  /\ HasAdded(x, w, label, vec, level)
           /\ \A l \in Nat : Unlinked(w, Len(x.nodes) + 1, l)
<1>1. PICK dim, nodes, labels, entry, top :
         /\ x = [dim |-> dim, nodes |-> nodes, labels |-> labels, entry |-> entry, max_level |-> top]
         /\ dim \in Nat /\ nodes \in Seq(IndexNode)
  BY FieldsOfIndex
<1>2. PICK old \in Nat : old = Len(nodes)
  BY <1>1
<1>3. PICK links : links = [n \in 1 .. level + 1 |-> <<>>]
  OBVIOUS
<1>4. links \in Seq(Seq(Nat)) /\ Len(links) = level + 1 /\ \A l \in 0 .. level : links[l + 1] = <<>>
  <2>1. PICK n \in Nat : n = level + 1
    OBVIOUS
  <2>2. links = [i \in 1 .. n |-> <<>>]
    BY <1>3, <2>1
  <2>3. <<>> \in Seq(Nat)
    OBVIOUS
  <2>4. links \in [1 .. n -> Seq(Nat)]
    BY <2>2, <2>3
  <2>5. links \in Seq(Seq(Nat)) /\ Len(links) = n
    <3>1. DOMAIN links = 1 .. n
      BY <2>2
    <3>2. links \in Seq(Seq(Nat))
      BY <2>4, IsSeqOver
    <3> QED
      BY <3>1, <3>2
  <2>6. \A l \in 0 .. level : l + 1 \in 1 .. n
    BY <2>1
  <2> QED
    BY <2>1, <2>2, <2>5, <2>6
<1>5. PICK node : node = [label |-> label, vec |-> vec, deleted |-> FALSE, links |-> links]
  OBVIOUS
<1>6. node \in IndexNode
  BY <1>4, <1>5 DEF IndexNode
<1>7. PICK more : more = Append(nodes, node)
  OBVIOUS
<1>8. /\ more \in Seq(IndexNode) /\ Len(more) = old + 1 /\ more[old + 1] = node
      /\ \A j \in 1 .. old : more[j] = nodes[j]
  BY <1>1, <1>2, <1>6, <1>7
<1>9. PICK names : names = [l \in DOMAIN labels \cup {label} |-> IF l = label THEN old + 1 ELSE labels[l]]
  OBVIOUS
<1>10. w = [dim |-> dim, nodes |-> more, labels |-> names, entry |-> entry, max_level |-> top]
  BY <1>1, <1>2, <1>3, <1>5, <1>7, <1>9 DEF WithNode
<1>11. /\ x.nodes = nodes /\ x.labels = labels /\ x.dim = dim /\ x.entry = entry /\ x.max_level = top
       /\ w.nodes = more /\ w.labels = names /\ w.dim = dim /\ w.entry = entry /\ w.max_level = top
  BY <1>1, <1>10
<1>12. /\ \A j \in 1 .. old : Levels(w, j) = Levels(x, j) /\ \A l \in Nat : Links(w, j, l) = Links(x, j, l)
       /\ Levels(w, old + 1) = level + 1
       /\ \A l \in 0 .. level : Links(w, old + 1, l) = <<>>
  BY <1>4, <1>5, <1>8, <1>11, SMTT(20) DEF Levels, Links
<1>13. ASSUME NEW j \in 1 .. old + 1, j \notin 1 .. old PROVE j = old + 1
  BY <1>13
<1>14. WellFormedIndex(w)
  <2>1. ASSUME NEW j \in 1 .. old + 1 PROVE Len(more[j].vec) = dim /\ Levels(w, j) > 0
    <3>1. CASE j \in 1 .. old
      BY <1>2, <1>8, <1>11, <1>12, <3>1 DEF WellFormedIndex
    <3>2. CASE j = old + 1
      BY <1>5, <1>8, <1>11, <1>12, <3>2
    <3> QED
      BY <1>13, <3>1, <3>2
  <2>2. w = [dim |-> w.dim, nodes |-> w.nodes, labels |-> w.labels, entry |-> w.entry, max_level |-> w.max_level]
    BY <1>10
  <2> QED
    BY <1>1, <1>8, <1>11, <2>1, <2>2 DEF WellFormedIndex
<1>15. ASSUME NEW j \in 1 .. old, NEW l \in 0 .. Levels(x, j) - 1, NEW i \in DOMAIN Links(x, j, l)
       PROVE  Links(x, j, l)[i] \in 1 .. old
  <2>1. LinksOk(x, j, l)
    BY <1>2, <1>11 DEF LinksSound
  <2> QED
    BY <1>2, <1>11, <2>1 DEF LinksOk
<1>16. LinksSound(w)
  <2>1. ASSUME NEW j \in 1 .. old + 1, NEW l \in 0 .. Levels(w, j) - 1 PROVE LinksOk(w, j, l)
    <3>1. CASE j \in 1 .. old
      <4>1. l \in Nat /\ l \in 0 .. Levels(x, j) - 1
        BY <1>12, <3>1
      <4>2. LinksOk(x, j, l)
        BY <1>2, <1>11, <3>1, <4>1 DEF LinksSound
      <4>3. Links(w, j, l) = Links(x, j, l)
        BY <1>12, <3>1, <4>1
      <4>4. ASSUME NEW i \in DOMAIN Links(x, j, l)
            PROVE  LET a == Links(x, j, l)[i]
                   IN  a \in 1 .. Len(w.nodes) /\ a # j /\ l < Levels(w, a)
        <5>1. PICK a : a = Links(x, j, l)[i]
          OBVIOUS
        <5>2. a \in 1 .. old /\ a # j /\ l < Levels(x, a)
          BY <1>15, <3>1, <4>1, <4>2, <5>1 DEF LinksOk
        <5>3. a \in 1 .. old + 1
          BY <5>2
        <5> QED
          BY <1>8, <1>11, <1>12, <5>1, <5>2, <5>3
      <4> QED
        BY <4>2, <4>3, <4>4 DEF LinksOk
    <3>2. CASE j = old + 1
      <4>1. l \in 0 .. level /\ l \in Nat
        BY <1>12, <3>2
      <4>2. Links(w, j, l) = <<>>
        BY <1>12, <3>2, <4>1
      <4>3. Len(<<>>) = 0 /\ DOMAIN <<>> = {}
        OBVIOUS
      <4>4. 0 <= MaxLinks(l)
        BY <4>1, MaxLinksIs
      <4>5. IsInjective(Links(w, j, l))
        BY <4>2, <4>3 DEF IsInjective
      <4> QED
        BY <4>2, <4>3, <4>4, <4>5 DEF LinksOk
    <3> QED
      BY <1>13, <3>1, <3>2
  <2> QED
    BY <1>8, <1>11, <2>1 DEF LinksSound
<1>17. \A l \in Nat : Unlinked(w, old + 1, l)
  <2>1. SUFFICES ASSUME NEW l \in Nat, NEW j \in 1 .. old + 1, l < Levels(w, j), NEW i \in DOMAIN Links(w, j, l)
                 PROVE  Links(w, j, l)[i] # old + 1
    BY <1>8, <1>11 DEF Unlinked
  <2>2. CASE j \in 1 .. old
    <3>1. Levels(x, j) \in Nat
      BY <1>2, <1>11, <2>2, LinksAre
    <3>2. l \in 0 .. Levels(x, j) - 1
      BY <1>12, <2>1, <2>2, <3>1
    <3>3. Links(w, j, l)[i] \in 1 .. old
      BY <1>12, <1>15, <2>2, <3>2
    <3> QED
      BY <3>3
  <2>3. CASE j = old + 1
    <3>1. l \in 0 .. level
      BY <1>12, <2>1, <2>3
    <3>2. Links(w, j, l) = <<>>
      BY <1>12, <2>3, <3>1
    <3> QED
      BY <2>1, <3>2
  <2> QED
    BY <1>13, <2>2, <2>3
<1>18. \A j \in 1 .. old : /\ w.nodes[j].label = x.nodes[j].label /\ w.nodes[j].vec = x.nodes[j].vec
                           /\ w.nodes[j].deleted = x.nodes[j].deleted /\ Levels(w, j) = Levels(x, j)
  BY <1>8, <1>11, <1>12
<1>19. w.nodes[old + 1].label = label /\ w.nodes[old + 1].vec = vec /\ w.nodes[old + 1].deleted = FALSE
  BY <1>5, <1>8, <1>11
<1>20. Len(x.nodes) = old /\ Len(w.nodes) = old + 1
  BY <1>2, <1>8, <1>11
<1>21. w.labels = [l \in DOMAIN x.labels \cup {label} |-> IF l = label THEN Len(x.nodes) + 1 ELSE x.labels[l]]
  BY <1>9, <1>11, <1>20
<1> QED
  BY <1>11, <1>12, <1>14, <1>16, <1>17, <1>18, <1>19, <1>20, <1>21 DEF HasAdded

-----------------------------------------------------------------------------
(* add() and remove().                                                     *)

\* An operation of a sound index that is a change of its entries.
IsIndexStep(x, r, entries) ==
    SoundIndex(r) /\ r.dim = x.dim /\ LabelEntries(r) = entries

\* The entries of an index after add().
Entered(x, label, vec) ==
    [l \in DOMAIN x.labels \cup {label} |-> IF l = label THEN vec ELSE LabelEntries(x)[l]]

\* z is x with a new node and links to it; r has its nodes, and searches in r
\* begin at the higher end.
IsGrown(x, label, vec, level, w, z) ==
    /\ HasAdded(x, w, label, vec, level)
    /\ WellFormedIndex(z) /\ LinksSound(z) /\ SameNodes(w, z)

IsRaised(x, z, level, r) ==
    /\ WellFormedIndex(r) /\ r.nodes = z.nodes /\ r.labels = z.labels /\ r.dim = z.dim
    /\ \/ level > x.max_level /\ r.entry = Len(x.nodes) + 1 /\ r.max_level = level
       \/ /\ ~(level > x.max_level) /\ Len(x.nodes) # 0
          /\ r.entry = x.entry /\ r.max_level = x.max_level

LEMMA AddedIs ==
    ASSUME NEW x, SoundIndex(x), NEW label \in Keys, label \notin DOMAIN x.labels,
           NEW vec \in Vectors, NEW level \in Nat,
           NEW w, NEW z, IsGrown(x, label, vec, level, w, z), NEW r, IsRaised(x, z, level, r)
    PROVE  IsIndexStep(x, r, Entered(x, label, vec))
<1>1. /\ HasAdded(x, w, label, vec, level) /\ LinksSound(z) /\ SameNodes(w, z) /\ WellFormedIndex(z)
       /\ WellFormedIndex(r) /\ r.nodes = z.nodes /\ r.labels = z.labels /\ r.dim = z.dim
  BY DEF IsGrown, IsRaised
<1>2. WellFormedIndex(x) /\ EntrySound(x) /\ LabelsSound(x)
  BY DEF SoundIndex
<1>3. PICK old \in Nat : old = Len(x.nodes)
  <2>1. x.nodes \in Seq(IndexNode)
    BY <1>2 DEF WellFormedIndex
  <2> QED
    BY <2>1
<1>4. /\ Len(r.nodes) = old + 1 /\ r.dim = x.dim
      /\ r.labels = [l \in DOMAIN x.labels \cup {label} |-> IF l = label THEN old + 1 ELSE x.labels[l]]
      /\ \A j \in 1 .. old : /\ r.nodes[j].label = x.nodes[j].label /\ r.nodes[j].vec = x.nodes[j].vec
                             /\ r.nodes[j].deleted = x.nodes[j].deleted /\ Levels(r, j) = Levels(x, j)
      /\ r.nodes[old + 1].label = label /\ r.nodes[old + 1].vec = vec /\ r.nodes[old + 1].deleted = FALSE
      /\ Levels(r, old + 1) = level + 1
  <2>1. Len(w.nodes) = old + 1
    BY <1>3, <1>1 DEF HasAdded
  <2>2. \A j \in 1 .. old + 1 :
           /\ r.nodes[j].label = w.nodes[j].label /\ r.nodes[j].vec = w.nodes[j].vec
           /\ r.nodes[j].deleted = w.nodes[j].deleted /\ Levels(r, j) = Levels(w, j)
    BY <1>1, <2>1 DEF SameNodes, Levels
  <2>3. old + 1 \in 1 .. old + 1 /\ \A j \in 1 .. old : j \in 1 .. old + 1
    OBVIOUS
  <2>4. Len(r.nodes) = old + 1 /\ r.dim = x.dim /\ r.labels = w.labels
    BY <1>1, <2>1 DEF SameNodes, HasAdded
  <2> QED
    BY <1>3, <1>1, <2>2, <2>3, <2>4 DEF HasAdded
<1>5. ASSUME NEW j \in 1 .. old + 1, j \notin 1 .. old PROVE j = old + 1
  BY <1>5
<1>6. LinksSound(r)
  <2>1. \A j \in 1 .. Len(z.nodes) : r.nodes[j].links = z.nodes[j].links
    BY <1>1
  <2> QED
    BY <1>1, <2>1, SameLinksAreSound
<1>7. EntrySound(r)
  <2>1. ASSUME NEW j \in 1 .. old
        PROVE  Levels(x, j) <= x.max_level + 1 /\ Levels(x, j) \in Nat /\ x.max_level \in Nat
    <3>1. old # 0
      OBVIOUS
    <3> QED
      BY <1>2, <1>3, <3>1, LinksAre DEF EntrySound
  <2>2. CASE level > x.max_level /\ r.entry = old + 1 /\ r.max_level = level
    <3>1. r.entry \in 1 .. old + 1 /\ old + 1 # 0
      BY <2>2
    <3>2. ASSUME NEW j \in 1 .. old + 1 PROVE Levels(r, j) <= level + 1
      <4>1. CASE j \in 1 .. old
        <5>1. Levels(r, j) = Levels(x, j)
          BY <1>4, <4>1
        <5> QED
          BY <2>1, <2>2, <4>1, <5>1
      <4>2. CASE j = old + 1
        BY <1>4, <4>2
      <4> QED
        BY <1>5, <4>1, <4>2
    <3> QED
      BY <1>4, <2>2, <3>1, <3>2 DEF EntrySound
  <2>3. CASE ~(level > x.max_level) /\ old # 0 /\ r.entry = x.entry /\ r.max_level = x.max_level
    <3>1. x.entry \in 1 .. old /\ x.max_level \in Nat /\ Levels(x, x.entry) = x.max_level + 1
      BY <1>2, <1>3, <2>3 DEF EntrySound
    <3>2. r.entry \in 1 .. old + 1 /\ Levels(r, r.entry) = r.max_level + 1
      BY <1>4, <2>3, <3>1
    <3>3. ASSUME NEW j \in 1 .. old + 1 PROVE Levels(r, j) <= r.max_level + 1
      <4>1. CASE j \in 1 .. old
        BY <1>4, <2>1, <2>3, <4>1
      <4>2. CASE j = old + 1
        BY <1>4, <2>3, <3>1, <4>2
      <4> QED
        BY <1>5, <4>1, <4>2
    <3> QED
      BY <1>4, <2>3, <3>1, <3>2, <3>3 DEF EntrySound
  <2> QED
    BY <1>3, <2>2, <2>3 DEF IsRaised
<1>8. /\ \A j \in 1 .. old : j \in LiveIds(r) <=> j \in LiveIds(x)
      /\ old + 1 \in LiveIds(r)
  <2>1. old + 1 \in 1 .. old + 1 /\ \A j \in 1 .. old : j \in 1 .. old + 1
    OBVIOUS
  <2> QED
    BY <1>3, <1>4, <2>1 DEF LiveIds
<1>9. \A l \in DOMAIN x.labels : /\ x.labels[l] \in LiveIds(x) /\ x.labels[l] \in 1 .. old
                                 /\ x.nodes[x.labels[l]].label = l /\ r.labels[l] = x.labels[l]
  BY <1>2, <1>3, <1>4 DEF LabelsSound, LiveIds
<1>10. DOMAIN r.labels = DOMAIN x.labels \cup {label} /\ r.labels[label] = old + 1
  BY <1>4
<1>11. r.nodes[old + 1].label = label /\ r.nodes[old + 1].vec = vec
  BY <1>4
<1>12. \A j \in 1 .. old : r.nodes[j].label = x.nodes[j].label /\ r.nodes[j].vec = x.nodes[j].vec
  BY <1>4
<1>13. LabelsSound(r)
  <2>1. r.labels = [l \in DOMAIN r.labels |-> r.labels[l]]
    <3>1. PICK labels : labels = r.labels
      OBVIOUS
    <3>2. labels = [l \in DOMAIN labels |-> labels[l]]
      BY <1>4, <3>1
    <3> QED
      BY <3>1, <3>2
  <2>2. ASSUME NEW l \in DOMAIN r.labels
        PROVE  r.labels[l] \in LiveIds(r) /\ r.nodes[r.labels[l]].label = l
    <3>1. CASE l = label
      BY <1>8, <1>10, <1>11, <3>1
    <3>2. CASE l \in DOMAIN x.labels
      BY <1>8, <1>9, <1>12, <3>2
    <3> QED
      BY <1>10, <3>1, <3>2
  <2>3. ASSUME NEW j \in LiveIds(r)
        PROVE  r.nodes[j].label \in DOMAIN r.labels /\ r.labels[r.nodes[j].label] = j
    <3>1. j \in 1 .. old + 1
      BY <1>4 DEF LiveIds
    <3>2. CASE j \in 1 .. old
      <4>1. j \in LiveIds(x)
        BY <1>8, <3>2
      <4>2. x.nodes[j].label \in DOMAIN x.labels /\ x.labels[x.nodes[j].label] = j
        BY <1>2, <4>1 DEF LabelsSound
      <4>3. r.nodes[j].label = x.nodes[j].label
        BY <1>4, <3>2
      <4> QED
        BY <1>9, <1>10, <4>2, <4>3
    <3>3. CASE j = old + 1
      BY <1>4, <1>10, <3>3
    <3> QED
      BY <1>5, <3>1, <3>2, <3>3
  <2> QED
    BY <2>1, <2>2, <2>3 DEF LabelsSound
<1>14. LabelEntries(r) = [l \in DOMAIN x.labels \cup {label} |-> IF l = label THEN vec ELSE LabelEntries(x)[l]]
  <2>1. ASSUME NEW l \in DOMAIN x.labels \cup {label}
        PROVE  r.nodes[r.labels[l]].vec = IF l = label THEN vec ELSE LabelEntries(x)[l]
    <3>1. CASE l = label
      BY <1>10, <1>11, <3>1
    <3>2. CASE l # label
      <4>1. l \in DOMAIN x.labels
        BY <3>2
      <4>2. LabelEntries(x)[l] = x.nodes[x.labels[l]].vec
        BY <4>1 DEF LabelEntries
      <4> QED
        BY <1>9, <1>12, <3>2, <4>1, <4>2
    <3> QED
      BY <3>1, <3>2
  <2>2. LabelEntries(r) = [l \in DOMAIN x.labels \cup {label} |-> r.nodes[r.labels[l]].vec]
    BY <1>10 DEF LabelEntries
  <2> QED
    BY <2>1, <2>2
<1> QED
  BY <1>4, <1>6, <1>7, <1>13, <1>14, <1>1 DEF IsIndexStep, SoundIndex, Entered

\* Another entry point and top level.
MoveEntry(x, entry, top) == [x EXCEPT !.entry = entry, !.max_level = top]

LEMMA EntryIsSet ==
    ASSUME NEW x, WellFormedIndex(x), NEW entry, NEW top, NEW r,
           r = MoveEntry(x, entry, top)
    PROVE  /\ WellFormedIndex(r) /\ r.nodes = x.nodes /\ r.labels = x.labels /\ r.dim = x.dim
           /\ r.entry = entry /\ r.max_level = top
<1>1. PICK dim, nodes, labels, from, high :
         /\ x = [dim |-> dim, nodes |-> nodes, labels |-> labels, entry |-> from, max_level |-> high]
         /\ dim \in Nat /\ nodes \in Seq(IndexNode)
  BY FieldsOfIndex
<1>2. r = [dim |-> dim, nodes |-> nodes, labels |-> labels, entry |-> entry, max_level |-> top]
  BY <1>1 DEF MoveEntry
<1>3. /\ r.nodes = x.nodes /\ r.labels = x.labels /\ r.dim = x.dim
      /\ r.entry = entry /\ r.max_level = top
  BY <1>1, <1>2
<1>4. r = [dim |-> r.dim, nodes |-> r.nodes, labels |-> r.labels, entry |-> r.entry, max_level |-> r.max_level]
  BY <1>2
<1>5. \A j \in 1 .. Len(r.nodes) : Len(r.nodes[j].vec) = r.dim /\ Levels(r, j) > 0
  BY <1>3 DEF WellFormedIndex, Levels
<1>6. r.dim \in Nat /\ r.nodes \in Seq(IndexNode)
  BY <1>1, <1>2
<1> QED
  BY <1>3, <1>4, <1>5, <1>6 DEF WellFormedIndex

\* add() of a new label.
LEMMA InsertedIs ==
    ASSUME NEW x, SoundIndex(x), NEW label \in Keys, label \notin DOMAIN x.labels,
           NEW vec \in Vectors, Len(vec) = x.dim, NEW level \in Nat, NEW late \in BOOLEAN,
           NEW r, r = Insert(x, label, vec, level, late)
    PROVE  IsIndexStep(x, r, Entered(x, label, vec))
<1>1. WellFormedIndex(x) /\ LinksSound(x) /\ EntrySound(x)
  BY DEF SoundIndex
<1> DEFINE id    == Len(x.nodes) + 1
           w     == WithNode(x, label, vec, level)
           layer == Layers(w, id, x.max_level, x.entry, vec, level, late)
<1>2. id = Len(x.nodes) + 1
  OBVIOUS
<1>3. r = IF x.entry < 0 THEN MoveEntry(w, id, level)
          ELSE Raise(layer[-1].index, id, level)
  BY DEF Insert, WithNode, Layers, MoveEntry
<1>4. w = WithNode(x, label, vec, level)
  OBVIOUS
<1>5. layer = Layers(w, id, x.max_level, x.entry, vec, level, late)
  OBVIOUS
<1> HIDE DEF layer, w, id
<1>6. Len(x.nodes) \in Nat /\ id \in 1 .. id /\ id - 1 = Len(x.nodes)
  <2>1. x.nodes \in Seq(IndexNode)
    BY <1>1 DEF WellFormedIndex
  <2> QED
    BY <1>2, <2>1
<1>7. HasAdded(x, w, label, vec, level) /\ \A l \in Nat : Unlinked(w, id, l)
  BY <1>1, <1>2, <1>4, WithNodeIs
<1>8. /\ WellFormedIndex(w) /\ LinksSound(w) /\ SameNodes(w, w) /\ Len(w.nodes) = id /\ Levels(w, id) = level + 1
      /\ w.dim = x.dim /\ w.entry = x.entry /\ w.max_level = x.max_level
  BY <1>2, <1>7, SameNodesIs DEF HasAdded
<1>9. WellFormedIndex(w)
  BY <1>8
<1>10. LinksSound(w)
  BY <1>8
<1>11. CASE Len(x.nodes) = 0
  <2>1. x.entry = -1 /\ x.max_level = -1
    BY <1>1, <1>11 DEF EntrySound
  <2>2. r = MoveEntry(w, id, level)
    BY <1>3, <2>1
  <2>3. /\ WellFormedIndex(r) /\ r.nodes = w.nodes /\ r.labels = w.labels /\ r.dim = w.dim
        /\ r.entry = id /\ r.max_level = level
    BY <1>9, <2>2, EntryIsSet
  <2>4. level > x.max_level
    BY <2>1
  <2>5. IsGrown(x, label, vec, level, w, w)
    BY <1>7, <1>8 DEF IsGrown
  <2>6. IsRaised(x, w, level, r)
    BY <1>2, <2>3, <2>4 DEF IsRaised
  <2> QED
    BY <2>5, <2>6, AddedIs
<1>12. CASE Len(x.nodes) # 0
  <2>1. PICK entry, top : entry = x.entry /\ top = x.max_level
    OBVIOUS
  <2>2. entry \in 1 .. Len(x.nodes) /\ top \in Nat /\ Levels(x, entry) = top + 1
    BY <1>1, <1>12, <2>1 DEF EntrySound
  <2>3. entry \in 1 .. id /\ entry # id /\ ~(entry < 0)
    BY <1>6, <2>2
  <2>4. Levels(w, entry) = top + 1
    BY <1>7, <2>2 DEF HasAdded
  <2>5. layer = Layers(w, id, top, entry, vec, level, late)
    BY <1>5, <2>1
  <2>6. PICK z : z = layer[-1].index
    OBVIOUS
  <2>7. WellFormedIndex(z) /\ LinksSound(z) /\ SameNodes(w, z)
    <3>1. Len(vec) = w.dim
      BY <1>8
    <3>2. id \in 1 .. Len(w.nodes) /\ entry \in 1 .. Len(w.nodes)
      BY <1>6, <1>8, <2>3
    <3>3. \A l \in Nat : Unlinked(w, id, l)
      BY <1>7
    <3>4. top \in Nat
      BY <2>2
    <3>5. entry # id
      BY <2>3
    <3>6. Levels(w, id) = level + 1
      BY <1>8
    <3> QED
      BY <1>9, <1>10, <2>4, <2>5, <2>6, <3>1, <3>2, <3>3, <3>4, <3>5, <3>6, LayersAre
  <2>8. r = Raise(z, id, level)
    BY <1>3, <2>1, <2>3, <2>6
  <2>9. z.max_level = x.max_level /\ z.entry = x.entry
    BY <1>8, <2>7 DEF SameNodes
  <2>10. IsRaised(x, z, level, r)
    <3>1. CASE level > x.max_level
      <4>1. r = MoveEntry(z, id, level)
        BY <2>8, <2>9, <3>1 DEF Raise, MoveEntry
      <4>2. WellFormedIndex(z)
        BY <2>7
      <4>3. /\ WellFormedIndex(r) /\ r.nodes = z.nodes /\ r.labels = z.labels /\ r.dim = z.dim
            /\ r.entry = id /\ r.max_level = level
        BY <4>1, <4>2, EntryIsSet
      <4> QED
        BY <1>2, <3>1, <4>3 DEF IsRaised
    <3>2. CASE ~(level > x.max_level)
      <4>1. r = z
        BY <2>8, <2>9, <3>2 DEF Raise
      <4> QED
        BY <1>12, <2>7, <2>9, <3>2, <4>1 DEF IsRaised
    <3> QED
      BY <3>1, <3>2
  <2>11. IsGrown(x, label, vec, level, w, z)
    BY <1>7, <2>7 DEF IsGrown
  <2> QED
    BY <2>10, <2>11, AddedIs
<1> QED
  BY <1>11, <1>12

\* A node gets another vector or mark, and the index other labels.
IsChanged(x, r, c, vec, deleted, labels) ==
    /\ WellFormedIndex(r) /\ LinksSound(r) /\ EntrySound(r)
    /\ r.dim = x.dim /\ Len(r.nodes) = Len(x.nodes) /\ r.labels = labels
    /\ \A j \in 1 .. Len(x.nodes) : r.nodes[j].label = x.nodes[j].label
    /\ \A j \in 1 .. Len(x.nodes) : j # c => r.nodes[j] = x.nodes[j]
    /\ r.nodes[c].vec = vec /\ r.nodes[c].deleted = deleted

\* The fields of an index with a node replaced.
LEMMA ChangedIs ==
    ASSUME NEW x, SoundIndex(x), NEW c \in 1 .. Len(x.nodes), NEW vec \in Vectors, Len(vec) = x.dim,
           NEW deleted \in BOOLEAN, NEW labels, NEW r, NEW node,
           node = [label |-> x.nodes[c].label, vec |-> vec, deleted |-> deleted, links |-> x.nodes[c].links],
           NEW nodes, nodes = [x.nodes EXCEPT ![c] = node],
           r = [dim |-> x.dim, nodes |-> nodes, labels |-> labels, entry |-> x.entry, max_level |-> x.max_level]
    PROVE  IsChanged(x, r, c, vec, deleted, labels)
<1>1. WellFormedIndex(x) /\ LinksSound(x) /\ EntrySound(x)
  BY DEF SoundIndex
<1>2. x.nodes \in Seq(IndexNode) /\ x.dim \in Nat /\ x.nodes[c] \in IndexNode
  BY <1>1, LinksAre DEF WellFormedIndex
<1>3. node \in IndexNode
  BY <1>2 DEF IndexNode
<1>4. /\ nodes \in Seq(IndexNode) /\ Len(nodes) = Len(x.nodes) /\ nodes[c] = node
      /\ \A j \in 1 .. Len(x.nodes) : j # c => nodes[j] = x.nodes[j]
  BY <1>2, <1>3
<1>5. /\ r.dim = x.dim /\ r.nodes = nodes /\ r.labels = labels /\ r.entry = x.entry /\ r.max_level = x.max_level
      /\ r = [dim |-> r.dim, nodes |-> r.nodes, labels |-> r.labels, entry |-> r.entry, max_level |-> r.max_level]
  OBVIOUS
<1>6. /\ node.label = x.nodes[c].label /\ node.vec = vec /\ node.deleted = deleted
      /\ node.links = x.nodes[c].links
  OBVIOUS
<1>7. \A j \in 1 .. Len(x.nodes) :
         nodes[j].links = x.nodes[j].links /\ nodes[j].label = x.nodes[j].label /\ Len(nodes[j].vec) = x.dim
  BY <1>1, <1>4, <1>6 DEF WellFormedIndex
<1>8. \A j \in 1 .. Len(x.nodes) : Levels(r, j) = Levels(x, j) /\ Levels(x, j) > 0
  BY <1>1, <1>5, <1>7 DEF Levels, WellFormedIndex
<1>9. WellFormedIndex(r)
  BY <1>2, <1>4, <1>5, <1>7, <1>8 DEF WellFormedIndex
<1>10. LinksSound(r)
  <2>1. \A j \in 1 .. Len(x.nodes) : r.nodes[j].links = x.nodes[j].links
    BY <1>5, <1>7
  <2>2. Len(r.nodes) = Len(x.nodes)
    BY <1>4, <1>5
  <2> QED
    BY <1>1, <1>9, <2>1, <2>2, SameLinksAreSound
<1>11. EntrySound(r)
  BY <1>1, <1>4, <1>5, <1>8 DEF EntrySound
<1> QED
  BY <1>4, <1>5, <1>6, <1>7, <1>9, <1>10, <1>11 DEF IsChanged

\* What the label of a node tells of it.
LEMMA LabelIs ==
    ASSUME NEW x, SoundIndex(x), NEW label \in DOMAIN x.labels, NEW c, c = x.labels[label]
    PROVE  /\ c \in 1 .. Len(x.nodes) /\ ~x.nodes[c].deleted /\ x.nodes[c].label = label
           /\ x.nodes[c] \in IndexNode /\ Len(x.nodes[c].vec) = x.dim
           /\ \A l \in DOMAIN x.labels : l # label => x.labels[l] # c /\ x.labels[l] \in LiveIds(x)
<1>1. c \in LiveIds(x) /\ x.nodes[c].label = label
  BY DEF SoundIndex, LabelsSound
<1>2. c \in 1 .. Len(x.nodes) /\ ~x.nodes[c].deleted
  BY <1>1 DEF LiveIds
<1>3. \A l \in DOMAIN x.labels : l # label => x.labels[l] # c /\ x.labels[l] \in LiveIds(x)
  BY <1>1 DEF SoundIndex, LabelsSound
<1>4. x.nodes[c] \in IndexNode
  BY <1>2, LinksAre DEF SoundIndex
<1>5. Len(x.nodes[c].vec) = x.dim
  BY <1>2 DEF SoundIndex, WellFormedIndex
<1> QED
  BY <1>1, <1>2, <1>3, <1>4, <1>5

LEMMA MarkIs ==
    ASSUME NEW name, NEW vec, NEW links, NEW mark, NEW deleted, NEW was, NEW node,
           was = [label |-> name, vec |-> vec, deleted |-> mark, links |-> links],
           node = [label |-> name, vec |-> vec, deleted |-> deleted, links |-> links]
    PROVE  node = [was EXCEPT !.deleted = deleted]
  OBVIOUS

\* add() of a label that is there.
LEMMA UpdatedIs ==
    ASSUME NEW x, SoundIndex(x), NEW label \in DOMAIN x.labels, NEW vec \in Vectors, Len(vec) = x.dim,
           NEW r, r = Update(x, label, vec)
    PROVE  IsIndexStep(x, r, Entered(x, label, vec))
<1>1. PICK c : c = x.labels[label]
  OBVIOUS
<1>2. c \in 1 .. Len(x.nodes) /\ ~x.nodes[c].deleted /\ x.nodes[c].label = label /\ x.nodes[c] \in IndexNode
  BY <1>1, LabelIs
<1>3. \A l \in DOMAIN x.labels : l # label => x.labels[l] # c /\ x.labels[l] \in LiveIds(x)
  BY <1>1, LabelIs
<1>4. PICK node : node = [label |-> x.nodes[c].label, vec |-> vec, deleted |-> FALSE, links |-> x.nodes[c].links]
  OBVIOUS
<1>5. PICK nodes : nodes = [x.nodes EXCEPT ![c] = node]
  OBVIOUS
<1>6. WellFormedIndex(x) /\ LabelsSound(x)
  BY DEF SoundIndex
<1>7. r = [dim |-> x.dim, nodes |-> nodes, labels |-> x.labels, entry |-> x.entry, max_level |-> x.max_level]
  <2>1. PICK dim, old, labels, entry, top :
           /\ x = [dim |-> dim, nodes |-> old, labels |-> labels, entry |-> entry, max_level |-> top]
           /\ dim \in Nat /\ old \in Seq(IndexNode)
    BY <1>6, FieldsOfIndex
  <2>2. x.dim = dim /\ x.nodes = old /\ x.labels = labels /\ x.entry = entry /\ x.max_level = top
    BY <2>1
  <2>3. r = [[x EXCEPT !.nodes[c].vec = vec] EXCEPT !.nodes[c].deleted = FALSE]
    BY <1>1, <2>2 DEF Update
  <2>4. PICK was : was = old[c]
    OBVIOUS
  <2>5. PICK name, links : name = was.label /\ links = was.links
    OBVIOUS
  <2>6. PICK oldvec, mark : was = [label |-> name, vec |-> oldvec, deleted |-> mark, links |-> links]
    BY <1>2, <2>2, <2>4, <2>5 DEF IndexNode
  <2>7. node = [label |-> name, vec |-> vec, deleted |-> FALSE, links |-> links]
    BY <1>4, <2>2, <2>4, <2>5
  <2>8. c \in DOMAIN old
    BY <1>2, <2>1, <2>2
  <2>9. PICK moved : moved = [was EXCEPT !.vec = vec]
    OBVIOUS
  <2>10. moved = [label |-> name, vec |-> vec, deleted |-> mark, links |-> links]
    BY <2>6, <2>9
  <2>11. node = [moved EXCEPT !.deleted = FALSE]
    <3>1. PICK flag : flag = FALSE
      OBVIOUS
    <3>2. node = [label |-> name, vec |-> vec, deleted |-> flag, links |-> links]
      BY <2>7, <3>1
    <3>3. node = [moved EXCEPT !.deleted = flag]
      BY <2>10, <3>2, MarkIs
    <3> QED
      BY <3>1, <3>3
  <2>12. [old EXCEPT ![c].vec = vec] = [old EXCEPT ![c] = moved]
    BY <2>4, <2>8, <2>9
  <2>13. PICK half : half = [old EXCEPT ![c] = moved]
    OBVIOUS
  <2>14. half[c] = moved /\ [half EXCEPT ![c] = node] = [old EXCEPT ![c] = node]
    BY <2>1, <2>8, <2>13
  <2>15. [half EXCEPT ![c].deleted = FALSE] = nodes
    BY <1>5, <2>2, <2>8, <2>11, <2>13, <2>14
  <2>16. [x EXCEPT !.nodes[c].vec = vec]
           = [dim |-> dim, nodes |-> half, labels |-> labels, entry |-> entry, max_level |-> top]
    BY <2>1, <2>2, <2>12, <2>13
  <2>17. r = [dim |-> dim, nodes |-> nodes, labels |-> labels, entry |-> entry, max_level |-> top]
    BY <2>3, <2>15, <2>16, ZenonT(30)
  <2> QED
    BY <2>2, <2>17
<1>8. IsChanged(x, r, c, vec, FALSE, x.labels)
  BY <1>2, <1>4, <1>5, <1>7, ChangedIs
<1>9. /\ WellFormedIndex(r) /\ LinksSound(r) /\ EntrySound(r) /\ r.dim = x.dim
      /\ Len(r.nodes) = Len(x.nodes) /\ r.labels = x.labels /\ r.nodes[c].vec = vec
  BY <1>8 DEF IsChanged
<1>10. \A j \in 1 .. Len(x.nodes) :
          /\ r.nodes[j].label = x.nodes[j].label /\ (r.nodes[j].deleted <=> x.nodes[j].deleted)
          /\ j # c => r.nodes[j].vec = x.nodes[j].vec
  BY <1>2, <1>8 DEF IsChanged
<1>11. LiveIds(r) = LiveIds(x)
  BY <1>9, <1>10 DEF LiveIds
<1>12. LabelsSound(r)
  <2>1. LiveIds(x) \subseteq 1 .. Len(x.nodes)
    BY DEF LiveIds
  <2>2. r.labels = [l \in DOMAIN r.labels |-> r.labels[l]]
    BY <1>6, <1>9 DEF LabelsSound
  <2>3. \A j \in LiveIds(x) : r.nodes[j].label = x.nodes[j].label
    BY <1>10, <2>1
  <2>4. r.labels = x.labels
    BY <1>9
  <2>5. \A l \in DOMAIN r.labels : r.labels[l] \in LiveIds(r) /\ r.nodes[r.labels[l]].label = l
    <3>1. \A l \in DOMAIN x.labels : x.labels[l] \in LiveIds(x) /\ x.nodes[x.labels[l]].label = l
      BY <1>6 DEF LabelsSound
    <3> QED
      BY <1>11, <2>3, <2>4, <3>1
  <2>6. \A j \in LiveIds(r) : r.nodes[j].label \in DOMAIN r.labels /\ r.labels[r.nodes[j].label] = j
    <3>1. \A j \in LiveIds(x) : x.nodes[j].label \in DOMAIN x.labels /\ x.labels[x.nodes[j].label] = j
      BY <1>6 DEF LabelsSound
    <3> QED
      BY <1>11, <2>3, <2>4, <3>1
  <2> QED
    BY <2>2, <2>5, <2>6 DEF LabelsSound
<1>13. LabelEntries(r) = Entered(x, label, vec)
  <2>1. ASSUME NEW l \in DOMAIN x.labels
        PROVE  r.nodes[x.labels[l]].vec = IF l = label THEN vec ELSE LabelEntries(x)[l]
    <3>1. CASE l = label
      BY <1>1, <1>9, <3>1
    <3>2. CASE l # label
      <4>1. x.labels[l] # c /\ x.labels[l] \in 1 .. Len(x.nodes)
        BY <1>3, <3>2 DEF LiveIds
      <4>2. LabelEntries(x)[l] = x.nodes[x.labels[l]].vec
        BY DEF LabelEntries
      <4> QED
        BY <1>10, <3>2, <4>1, <4>2
    <3> QED
      BY <3>1, <3>2
  <2>2. LabelEntries(r) = [l \in DOMAIN x.labels |-> r.nodes[x.labels[l]].vec]
    BY <1>9 DEF LabelEntries
  <2>3. DOMAIN x.labels \cup {label} = DOMAIN x.labels
    OBVIOUS
  <2> QED
    BY <2>1, <2>2, <2>3 DEF Entered
<1> QED
  BY <1>9, <1>12, <1>13 DEF IsIndexStep, SoundIndex

\* The entries of an index after remove().
Withdrawn(x, label) == [l \in DOMAIN x.labels \ {label} |-> LabelEntries(x)[l]]

\* remove(), of any label.
LEMMA RemovedIs ==
    ASSUME NEW x, SoundIndex(x), NEW label, NEW r, r = RemoveLabel(x, label)
    PROVE  IsIndexStep(x, r, Withdrawn(x, label))
<1>1. CASE label \notin DOMAIN x.labels
  <2>1. r = x
    BY <1>1 DEF RemoveLabel
  <2>2. DOMAIN x.labels \ {label} = DOMAIN x.labels
    BY <1>1
  <2>3. LabelEntries(x) = [l \in DOMAIN x.labels |-> LabelEntries(x)[l]]
    BY DEF LabelEntries
  <2>4. LabelEntries(x) = Withdrawn(x, label)
    BY <2>2, <2>3 DEF Withdrawn
  <2> QED
    BY <2>1, <2>4 DEF IsIndexStep
<1>2. CASE label \in DOMAIN x.labels
  <2>1. PICK c : c = x.labels[label]
    OBVIOUS
  <2>2. c \in 1 .. Len(x.nodes) /\ ~x.nodes[c].deleted /\ x.nodes[c].label = label /\ x.nodes[c] \in IndexNode
        /\ Len(x.nodes[c].vec) = x.dim
    BY <1>2, <2>1, LabelIs
  <2>3. \A l \in DOMAIN x.labels : l # label => x.labels[l] # c /\ x.labels[l] \in LiveIds(x)
    BY <1>2, <2>1, LabelIs
  <2>4. PICK vec : vec = x.nodes[c].vec
    OBVIOUS
  <2>5. vec \in Vectors /\ Len(vec) = x.dim
    BY <2>2, <2>4 DEF IndexNode
  <2>6. PICK node : node = [label |-> x.nodes[c].label, vec |-> vec, deleted |-> TRUE, links |-> x.nodes[c].links]
    OBVIOUS
  <2>7. PICK nodes : nodes = [x.nodes EXCEPT ![c] = node]
    OBVIOUS
  <2>8. PICK names : names = [l \in DOMAIN x.labels \ {label} |-> x.labels[l]]
    OBVIOUS
  <2>9. WellFormedIndex(x) /\ LabelsSound(x)
    BY DEF SoundIndex
  <2>10. r = [dim |-> x.dim, nodes |-> nodes, labels |-> names, entry |-> x.entry, max_level |-> x.max_level]
    <3>1. PICK dim, old, labels, entry, top :
             /\ x = [dim |-> dim, nodes |-> old, labels |-> labels, entry |-> entry, max_level |-> top]
             /\ dim \in Nat /\ old \in Seq(IndexNode)
      BY <2>9, FieldsOfIndex
    <3>2. x.dim = dim /\ x.nodes = old /\ x.labels = labels /\ x.entry = entry /\ x.max_level = top
      BY <3>1
    <3>3. PICK marked : marked = [old EXCEPT ![c].deleted = TRUE]
      OBVIOUS
    <3>4. r = [dim |-> dim, nodes |-> marked, labels |-> names, entry |-> entry, max_level |-> top]
      BY <1>2, <2>1, <2>8, <3>1, <3>2, <3>3 DEF RemoveLabel
    <3>5. PICK was : was = old[c]
      OBVIOUS
    <3>6. PICK name, links : name = was.label /\ links = was.links
      OBVIOUS
    <3>7. PICK mark : was = [label |-> name, vec |-> vec, deleted |-> mark, links |-> links]
      BY <2>2, <2>4, <3>2, <3>5, <3>6 DEF IndexNode
    <3>8. node = [label |-> name, vec |-> vec, deleted |-> TRUE, links |-> links]
      BY <2>6, <3>2, <3>5, <3>6
    <3>9. node = [was EXCEPT !.deleted = TRUE]
      <4>1. PICK flag : flag = TRUE
        OBVIOUS
      <4>2. node = [label |-> name, vec |-> vec, deleted |-> flag, links |-> links]
        BY <3>8, <4>1
      <4>3. node = [was EXCEPT !.deleted = flag]
        BY <3>7, <4>2, MarkIs
      <4> QED
        BY <4>1, <4>3
    <3>10. marked = nodes
      BY <2>7, <3>2, <3>3, <3>5, <3>9
    <3> QED
      BY <3>2, <3>4, <3>10
  <2>11. IsChanged(x, r, c, vec, TRUE, names)
    BY <2>2, <2>5, <2>6, <2>7, <2>10, ChangedIs
  <2>12. /\ WellFormedIndex(r) /\ LinksSound(r) /\ EntrySound(r) /\ r.dim = x.dim
         /\ Len(r.nodes) = Len(x.nodes) /\ r.labels = names /\ r.nodes[c].vec = vec /\ r.nodes[c].deleted
    BY <2>11 DEF IsChanged
  <2>13. \A j \in 1 .. Len(x.nodes) : /\ r.nodes[j].label = x.nodes[j].label
                                      /\ j # c => r.nodes[j] = x.nodes[j]
    BY <2>11 DEF IsChanged
  <2>14. LiveIds(r) = LiveIds(x) \ {c}
    BY <2>12, <2>13 DEF LiveIds
  <2>15. DOMAIN names = DOMAIN x.labels \ {label} /\ \A l \in DOMAIN names : names[l] = x.labels[l]
    BY <2>8
  <2>16. LiveIds(x) \subseteq 1 .. Len(x.nodes)
    BY DEF LiveIds
  <2>17. LabelsSound(r)
    <3>1. r.labels = [l \in DOMAIN r.labels |-> r.labels[l]]
      BY <2>8, <2>12
    <3>2. ASSUME NEW l \in DOMAIN names
          PROVE  names[l] \in LiveIds(r) /\ r.nodes[names[l]].label = l
      <4>1. l \in DOMAIN x.labels /\ l # label /\ names[l] = x.labels[l]
        BY <2>15
      <4>2. names[l] \in LiveIds(x) /\ names[l] # c /\ x.nodes[names[l]].label = l
        BY <2>3, <2>9, <4>1 DEF LabelsSound
      <4> QED
        BY <2>13, <2>14, <2>16, <4>2
    <3>3. ASSUME NEW j \in LiveIds(r)
          PROVE  r.nodes[j].label \in DOMAIN names /\ names[r.nodes[j].label] = j
      <4>1. j \in LiveIds(x) /\ j # c /\ r.nodes[j].label = x.nodes[j].label
        BY <2>13, <2>14, <2>16
      <4>2. x.nodes[j].label \in DOMAIN x.labels /\ x.labels[x.nodes[j].label] = j
        BY <2>9, <4>1 DEF LabelsSound
      <4>3. x.nodes[j].label # label
        BY <2>1, <4>1, <4>2
      <4> QED
        BY <2>15, <4>1, <4>2, <4>3
    <3> QED
      BY <2>12, <3>1, <3>2, <3>3 DEF LabelsSound
  <2>18. LabelEntries(r) = Withdrawn(x, label)
    <3>1. ASSUME NEW l \in DOMAIN names PROVE r.nodes[names[l]].vec = LabelEntries(x)[l]
      <4>1. l \in DOMAIN x.labels /\ l # label /\ names[l] = x.labels[l]
        BY <2>15
      <4>2. names[l] \in 1 .. Len(x.nodes) /\ names[l] # c
        BY <2>3, <2>16, <4>1
      <4> QED
        BY <2>13, <4>1, <4>2 DEF LabelEntries
    <3>2. LabelEntries(r) = [l \in DOMAIN names |-> r.nodes[names[l]].vec]
      BY <2>12 DEF LabelEntries
    <3> QED
      BY <2>15, <3>1, <3>2 DEF Withdrawn
  <2> QED
    BY <2>12, <2>17, <2>18 DEF IsIndexStep, SoundIndex
<1> QED
  BY <1>1, <1>2

-----------------------------------------------------------------------------
(* The index of an object.                                                 *)

IndexInvariant ==
    /\ type \in DOMAIN KeysOf
    /\ answer \in BOOLEAN
    /\ SoundIndex(vindex)

\* A step enters a label, withdraws one or leaves the labels alone, and answers
\* accordingly.
LabelStep ==
    /\ type' = type
    /\ \/ /\ type = "index"
          /\ \E l \in Keys, vec \in Vectors :
                LabelEntries(vindex') = Entered(vindex, l, vec) /\ (answer' <=> l \notin DOMAIN vindex.labels)
       \/ /\ type = "index"
          /\ \E l \in Keys :
                LabelEntries(vindex') = Withdrawn(vindex, l) /\ (answer' <=> l \in DOMAIN vindex.labels)
       \/ /\ type = "index" => answer' = answer
          /\ vindex' = vindex

IndexKept == SoundIndex(vindex') /\ answer' \in BOOLEAN

LEMMA VaddStep ==
    ASSUME IndexInvariant, NEW l \in Keys, NEW vec \in Vectors, Vadd(l, vec)
    PROVE  IndexKept /\ LabelStep
<1>1. PICK x : x = IF vindex = NoIndex THEN EmptyIndex(Len(vec)) ELSE vindex
  OBVIOUS
<1>2. type = "index" /\ type' = type /\ SoundIndex(vindex)
  BY DEF Vadd, IndexInvariant
<1>3. Len(vec) \in Nat
  <2>1. vec \in Seq(Int)
    BY ObjectsAssumption
  <2> QED
    BY <2>1
<1>4. SoundIndex(x) /\ LabelEntries(x) = LabelEntries(vindex)
  <2>1. CASE vindex = NoIndex
    BY <1>1, <1>3, <2>1, EmptyIsSound DEF NoIndex
  <2>2. CASE vindex # NoIndex
    BY <1>1, <1>2, <2>2
  <2> QED
    BY <2>1, <2>2
<1>5. DOMAIN x.labels = DOMAIN vindex.labels
  <2>1. DOMAIN LabelEntries(x) = DOMAIN x.labels /\ DOMAIN LabelEntries(vindex) = DOMAIN vindex.labels
    BY DEF LabelEntries
  <2> QED
    BY <1>4, <2>1
<1>6. Entered(x, l, vec) = Entered(vindex, l, vec)
  BY <1>4, <1>5 DEF Entered
<1>7. CASE UNCHANGED <<vindex, answer>>
  BY <1>2, <1>7 DEF IndexKept, LabelStep, IndexInvariant
<1>8. CASE x.dim = Len(vec) /\ l \in DOMAIN x.labels /\ vindex' = Update(x, l, vec) /\ answer' = FALSE
  <2>1. PICK r : r = Update(x, l, vec)
    OBVIOUS
  <2>2. IsIndexStep(x, r, Entered(x, l, vec))
    BY <1>4, <1>8, <2>1, UpdatedIs
  <2>3. SoundIndex(vindex') /\ LabelEntries(vindex') = Entered(vindex, l, vec)
    BY <1>6, <1>8, <2>1, <2>2 DEF IsIndexStep
  <2> QED
    BY <1>2, <1>5, <1>8, <2>3 DEF IndexKept, LabelStep
<1>9. ASSUME NEW level \in 0 .. MaxLevel, NEW late \in BOOLEAN,
             x.dim = Len(vec), l \notin DOMAIN x.labels, vindex' = Insert(x, l, vec, level, late), answer' = TRUE
      PROVE  IndexKept /\ LabelStep
  <2>1. PICK r : r = Insert(x, l, vec, level, late)
    OBVIOUS
  <2>2. level \in Nat
    BY ObjectsAssumption
  <2>3. IsIndexStep(x, r, Entered(x, l, vec))
    BY <1>4, <1>9, <2>1, <2>2, InsertedIs
  <2>4. SoundIndex(vindex') /\ LabelEntries(vindex') = Entered(vindex, l, vec)
    BY <1>6, <1>9, <2>1, <2>3 DEF IsIndexStep
  <2> QED
    BY <1>2, <1>5, <1>9, <2>4 DEF IndexKept, LabelStep
<1> QED
  BY <1>1, <1>7, <1>8, <1>9 DEF Vadd

LEMMA VremStep ==
    ASSUME IndexInvariant, NEW l \in Keys, Vrem(l)
    PROVE  IndexKept /\ LabelStep
<1>1. PICK r : r = RemoveLabel(vindex, l)
  OBVIOUS
<1>2. type = "index" /\ type' = type /\ vindex' = r /\ SoundIndex(vindex)
  BY <1>1 DEF Vrem, IndexInvariant
<1>3. IsIndexStep(vindex, r, Withdrawn(vindex, l))
  BY <1>1, <1>2, RemovedIs
<1>4. SoundIndex(vindex') /\ LabelEntries(vindex') = Withdrawn(vindex, l)
  BY <1>2, <1>3 DEF IsIndexStep
<1>5. answer' \in BOOLEAN /\ (answer' <=> l \in DOMAIN vindex.labels)
  <2>1. answer' = (l \in DOMAIN vindex.labels)
    BY DEF Vrem
  <2>2. CASE l \in DOMAIN vindex.labels
    <3>1. (l \in DOMAIN vindex.labels) = TRUE
      BY <2>2
    <3> QED
      BY <2>1, <2>2, <3>1, Zenon
  <2>3. CASE l \notin DOMAIN vindex.labels
    <3>1. (l \in DOMAIN vindex.labels) = FALSE
      BY <2>3
    <3> QED
      BY <2>1, <2>3, <3>1, Zenon
  <2> QED
    BY <2>2, <2>3
<1> QED
  BY <1>2, <1>4, <1>5 DEF IndexKept, LabelStep

LEMMA LabelsStep == ASSUME IndexInvariant, TableInvariant, [Next]_vars PROVE IndexKept /\ LabelStep
<1>1. KeysOf[type] \subseteq Keys
  BY KeysOfType DEF IndexInvariant
<1>2. answer' \in BOOLEAN
  BY TableStep DEF TableKept
<1>3. ASSUME type' = type, vindex' = vindex, type = "index" => answer' = answer
      PROVE  IndexKept /\ LabelStep
  BY <1>2, <1>3 DEF IndexKept, LabelStep, IndexInvariant
<1>4. CASE \/ \E k \in KeysOf[type], v \in Values : TablePut(k, v)
           \/ \E k \in KeysOf[type] : TableErase(k)
           \/ TableClear
           \/ \E n \in Reservations : TableReserve(n)
  BY <1>3, <1>4 DEF TablePut, TableErase, TableClear, TableReserve
<1>5. CASE \/ \E k \in KeysOf[type], v \in Values : ZSet(k, v)
           \/ \E k \in KeysOf[type] : ZRemove(k)
  BY <1>3, <1>5 DEF ZSet, ZRemove
<1>6. CASE \E l \in KeysOf[type], vec \in Vectors : Vadd(l, vec)
  BY <1>1, <1>6, VaddStep
<1>7. CASE \E l \in KeysOf[type] : Vrem(l)
  BY <1>1, <1>7, VremStep
<1>8. CASE UNCHANGED vars
  BY <1>3, <1>8 DEF vars
<1> QED
  BY <1>4, <1>5, <1>6, <1>7, <1>8 DEF Next

LEMMA IndexInit ==
    ASSUME Init
    PROVE  IndexInvariant /\ LabelEntries(vindex) = [l \in {} |-> l]
<1>1. vindex = EmptyIndex(0) /\ 0 \in Nat
  BY DEF Init, NoIndex
<1>2. SoundIndex(vindex) /\ LabelEntries(vindex) = [l \in {} |-> l]
  BY <1>1, EmptyIsSound
<1> QED
  BY <1>2 DEF Init, IndexInvariant

LEMMA IndexInvariantHolds == Spec => []IndexInvariant
<1>1. Init => IndexInvariant
  BY IndexInit
<1>2. IndexInvariant /\ TableInvariant /\ [Next]_vars => IndexInvariant'
  <2> SUFFICES ASSUME IndexInvariant, TableInvariant, [Next]_vars PROVE IndexInvariant'
    OBVIOUS
  <2>1. IndexKept /\ LabelStep
    BY LabelsStep
  <2>2. type' \in DOMAIN KeysOf
    BY <2>1 DEF LabelStep, IndexInvariant
  <2>3. SoundIndex(vindex)'
    BY <2>1 DEF IndexKept, SoundIndex, WellFormedIndex, LinksSound, LinksOk, EntrySound, LabelsSound,
                LiveIds, Levels, Links
  <2> QED
    BY <2>1, <2>2, <2>3 DEF IndexKept, IndexInvariant
<1> QED
  BY <1>1, <1>2, TableInvariantHolds, PTL DEF Spec

\* What a sound index is, as IndexIsSound says it.
LEMMA SoundIndexIs == ASSUME IndexInvariant PROVE IndexIsSound
<1>1. WellFormedIndex(vindex) /\ LinksSound(vindex) /\ EntrySound(vindex) /\ LabelsSound(vindex)
  BY DEF IndexInvariant, SoundIndex
<1>2. DOMAIN vindex.nodes = 1 .. Len(vindex.nodes) /\ Len(vindex.nodes) \in Nat
  <2>1. vindex.nodes \in Seq(IndexNode)
    BY <1>1 DEF WellFormedIndex
  <2> QED
    BY <2>1
<1>3. LiveNodes = LiveIds(vindex)
  BY <1>2 DEF LiveNodes, LiveIds
<1> DEFINE ids == DOMAIN vindex.nodes
<1>4. ASSUME NEW id \in ids, NEW level \in 0 .. Levels(vindex, id) - 1
      PROVE  LET links == Links(vindex, id, level)
             IN  /\ Len(links) <= MaxLinks(level)
                 /\ IsInjective(links)
                 /\ \A i \in DOMAIN links :
                      links[i] \in ids \ {id} /\ level < Levels(vindex, links[i])
  BY <1>1, <1>2 DEF LinksSound, LinksOk
<1>5. ids # {} => vindex.max_level + 1 = Levels(vindex, vindex.entry)
  BY <1>1, <1>2 DEF EntrySound
<1>6. \A id \in ids : Levels(vindex, id) <= vindex.max_level + 1
  BY <1>1, <1>2 DEF EntrySound
<1>7. DOMAIN vindex.labels = {vindex.nodes[id].label : id \in LiveNodes}
  BY <1>1, <1>3 DEF LabelsSound
<1>8. ASSUME NEW l \in DOMAIN vindex.labels
      PROVE  vindex.labels[l] = CHOOSE id \in LiveNodes : vindex.nodes[id].label = l
  <2>1. vindex.labels[l] \in LiveNodes /\ vindex.nodes[vindex.labels[l]].label = l
    BY <1>1, <1>3 DEF LabelsSound
  <2>2. ASSUME NEW id \in LiveNodes, vindex.nodes[id].label = l PROVE id = vindex.labels[l]
    BY <1>1, <1>3, <2>2 DEF LabelsSound
  <2> QED
    BY <2>1, <2>2
<1>9. vindex.labels = [l \in {vindex.nodes[id].label : id \in LiveNodes} |->
                         CHOOSE id \in LiveNodes : vindex.nodes[id].label = l]
  <2>1. PICK labels : labels = vindex.labels
    OBVIOUS
  <2>2. labels = [l \in DOMAIN labels |-> CHOOSE id \in LiveNodes : vindex.nodes[id].label = l]
    <3>1. labels = [l \in DOMAIN labels |-> labels[l]]
      BY <1>1, <2>1 DEF LabelsSound
    <3> QED
      BY <1>8, <2>1, <3>1
  <2> QED
    BY <1>7, <2>1, <2>2
<1> QED
  BY <1>4, <1>5, <1>6, <1>9 DEF IndexIsSound

\* search_layer() and connect() never subscript a node by a level it has not,
\* the entry point has every level, no list is too long, and the labels are
\* those of the nodes not deleted, whatever was added, moved and removed before
\* (hnsw.cpp:74 and 104).
THEOREM IndexesAreSound == Spec => []IndexIsSound
  BY SoundIndexIs, IndexInvariantHolds, PTL

\* The labels of an index with their vectors are a partial function, with the
\* right answers of VADD and VREM.
LEMMA LabelsRefined == Spec => LabelDict!Spec
<1>1. Init => LabelDict!Init
  BY IndexInit DEF LabelDict!Init, Init, LabelEntries
<1>2. IndexInvariant /\ TableInvariant /\ [Next]_vars => [LabelDict!Next]_LabelDict!vars
  <2> SUFFICES ASSUME IndexInvariant, TableInvariant, [Next]_vars PROVE [LabelDict!Next]_LabelDict!vars
    OBVIOUS
  <2>1. LabelStep /\ answer' \in BOOLEAN /\ answer \in BOOLEAN
    BY LabelsStep DEF IndexKept, IndexInvariant
  <2>2. DOMAIN LabelEntries(vindex) = DOMAIN vindex.labels
    BY DEF LabelEntries
  <2>3. ASSUME type = "index", type' = type, NEW l \in Keys, NEW vec \in Vectors,
               LabelEntries(vindex') = Entered(vindex, l, vec), answer' <=> l \notin DOMAIN vindex.labels
        PROVE  LabelDict!Put(l, vec)
    <3>1. (type' = "index" /\ answer') = (l \notin DOMAIN LabelEntries(vindex))
      BY <2>1, <2>2, <2>3
    <3>2. LabelEntries(vindex)' = [j \in DOMAIN LabelEntries(vindex) \cup {l} |->
                                     IF j = l THEN vec ELSE LabelEntries(vindex)[j]]
      BY <2>2, <2>3 DEF Entered, LabelEntries
    <3> QED
      BY <3>1, <3>2 DEF LabelDict!Put, LabelEntries
  <2>4. ASSUME type = "index", type' = type, NEW l \in Keys,
               LabelEntries(vindex') = Withdrawn(vindex, l), answer' <=> l \in DOMAIN vindex.labels
        PROVE  LabelDict!Delete(l)
    <3>1. (type' = "index" /\ answer') = (l \in DOMAIN LabelEntries(vindex))
      BY <2>1, <2>2, <2>4
    <3>2. LabelEntries(vindex)' = [j \in DOMAIN LabelEntries(vindex) \ {l} |-> LabelEntries(vindex)[j]]
      BY <2>2, <2>4 DEF Withdrawn, LabelEntries
    <3> QED
      BY <3>1, <3>2 DEF LabelDict!Delete, LabelEntries
  <2>5. ASSUME type' = type, type = "index" => answer' = answer, vindex' = vindex
        PROVE  UNCHANGED LabelDict!vars
    BY <2>5 DEF LabelDict!vars
  <2> QED
    BY <2>1, <2>3, <2>4, <2>5 DEF LabelStep, LabelDict!Next
<1> QED
  BY <1>1, <1>2, IndexInvariantHolds, TableInvariantHolds, PTL DEF Spec, LabelDict!Spec

\* A hash, a set, a table of a keyspace, the dictionary of a sorted set and a
\* vector index implement a partial function.
THEOREM ObjectsAreDictionaries == Spec => ImplementsDictionary
  BY DictRefined, LabelsRefined DEF ImplementsDictionary

-----------------------------------------------------------------------------
(* A skip list and the order of its nodes.                                 *)

\* A set with the last of some numbers, and with each that all later ones lead
\* to, has them all.
LEMMA InductionDown ==
    ASSUME NEW k \in Nat, NEW S, \A p \in 0 .. k : (\A q \in p + 1 .. k : q \in S) => p \in S
    PROVE  \A p \in 0 .. k : p \in S
<1> DEFINE Good == {d \in Nat : \A p \in 0 .. k : k - p < d => p \in S}
<1>1. 0 \in Good
  OBVIOUS
<1>2. ASSUME NEW d \in Good PROVE d + 1 \in Good
  <2>1. d \in Nat /\ \A p \in 0 .. k : k - p < d => p \in S
    OBVIOUS
  <2>2. ASSUME NEW p \in 0 .. k, k - p < d + 1 PROVE p \in S
    <3>1. \A q \in p + 1 .. k : q \in 0 .. k /\ k - q < d
      BY <2>1, <2>2
    <3> QED
      BY <2>1, <3>1
  <2> QED
    BY <2>1, <2>2
<1>3. Good = Nat
  <2>1. Good \subseteq Nat
    OBVIOUS
  <2> HIDE DEF Good
  <2> QED
    BY <1>1, <1>2, <2>1, InductionOverNat
<1>4. k + 1 \in Good
  <2> HIDE DEF Good
  <2> QED
    BY <1>3
<1> QED
  BY <1>4

\* A set of natural numbers with a bound has a greatest element.
LEMMA GreatestOfNat ==
    ASSUME NEW k \in Nat, NEW S, S \subseteq 0 .. k, S # {}
    PROVE  Max(S) \in S /\ \A n \in S : n <= Max(S)
<1>1. \E x \in S : \A n \in S : n <= x
  <2>1. SUFFICES ASSUME \A x \in S : \E n \in S : ~(n <= x) PROVE FALSE
    OBVIOUS
  <2> DEFINE T == 0 .. k \ S
  <2>2. \A p \in 0 .. k : (\A q \in p + 1 .. k : q \in T) => p \in T
    BY <2>1
  <2>3. \A p \in 0 .. k : p \in T
    <3> HIDE DEF T
    <3> QED
      BY <2>2, InductionDown
  <2> QED
    BY <2>3
<1>2. PICK x \in S : \A n \in S : n <= x
  BY <1>1
<1> QED
  BY <1>2 DEF Max

\* What a node of a list is.
ListLink == [forward : Int, span : Int]
Towers   == UNION {[0 .. g - 1 -> ListLink] : g \in 1 .. kMaxLevel}
ListNode == [member : Nat, score : Int, backward : Int, level : Towers]

\* A node leads to the next one that is as high, over those between.
LinkIs(list, ord, h, n, p, i) ==
    \/ /\ Forward(list, ord[p], i) = Nil
       /\ \A r \in p + 1 .. n : h[r] <= i
       /\ i < list.level => Span(list, ord[p], i) = n - p
    \/ \E q \in p + 1 .. n :
          /\ Forward(list, ord[p], i) = ord[q] /\ i < h[q]
          /\ \A r \in p + 1 .. q - 1 : h[r] <= i
          /\ Span(list, ord[p], i) = q - p

\* The n nodes of a list in order, after the head, and how high they are.
IsList(list, ord, h, n) ==
    /\ n \in Nat
    /\ ord = [p \in 0 .. n |-> ord[p]] /\ ord[0] = HeadNode
    /\ \A p, q \in 0 .. n : ord[p] = ord[q] => p = q
    /\ \A x \in DOMAIN list.nodes : \E p \in 0 .. n : x = ord[p]
    /\ \A p \in 0 .. n : /\ ord[p] \in Nat /\ ord[p] \in DOMAIN list.nodes
                         /\ list.nodes[ord[p]] \in ListNode
                         /\ h[p] \in 1 .. kMaxLevel
                         /\ DOMAIN list.nodes[ord[p]].level = 0 .. h[p] - 1

\* The links of each node, and the ends of the list.
IsLinked(list, ord, h, n) ==
    /\ h[0] = kMaxLevel
    /\ \A p \in 0 .. n : \A i \in 0 .. h[p] - 1 : LinkIs(list, ord, h, n, p, i)
    /\ \A p \in 0 .. n : list.nodes[ord[p]].backward = IF p <= 1 THEN Nil ELSE ord[p - 1]
    /\ list.tail = IF n = 0 THEN Nil ELSE ord[n]
    /\ list.length = n
    /\ list.level \in 1 .. kMaxLevel
    /\ \A p \in 1 .. n : h[p] <= list.level

\* The pairs are in order.
IsOrdered(list, ord, n) ==
    \A p, q \in 1 .. n : p < q =>
       \/ list.nodes[ord[p]].score < list.nodes[ord[q]].score
       \/ /\ list.nodes[ord[p]].score = list.nodes[ord[q]].score
          /\ list.nodes[ord[p]].member < list.nodes[ord[q]].member

\* The last of the first k nodes that has level i.
LastWith(h, i, k) == Max({r \in 0 .. k : i < h[r]})

LEMMA LastWithIs ==
    ASSUME NEW h, NEW k \in Nat, NEW i \in Nat, \A r \in 0 .. k : h[r] \in Nat, i < h[0],
           NEW l, l = LastWith(h, i, k)
    PROVE  l \in 0 .. k /\ i < h[l] /\ (\A r \in l + 1 .. k : h[r] <= i)
<1> DEFINE S == {r \in 0 .. k : i < h[r]}
<1>1. S \subseteq 0 .. k /\ S # {}
  OBVIOUS
<1>2. l \in S /\ \A r \in S : r <= l
  <2>1. l = Max(S)
    BY DEF LastWith
  <2> HIDE DEF S
  <2> QED
    BY <1>1, <2>1, GreatestOfNat
<1>3. ASSUME NEW r \in l + 1 .. k PROVE h[r] <= i
  BY <1>2
<1> QED
  BY <1>2, <1>3

LEMMA EmptyListIs ==
    ASSUME NEW ord, NEW h, ord = [p \in 0 .. 0 |-> HeadNode], h = [p \in 0 .. 0 |-> kMaxLevel]
    PROVE  IsList(EmptyList, ord, h, 0) /\ IsLinked(EmptyList, ord, h, 0) /\ IsOrdered(EmptyList, ord, 0)
<1>1. PICK list : list = EmptyList
  OBVIOUS
<1>2. kMaxLevel \in Nat /\ kMaxLevel > 0
  BY SkipListAssumption
<1>3. PICK head : head = [member |-> 0, score |-> 0, backward |-> Nil,
                          level |-> [i \in 0 .. kMaxLevel - 1 |-> NullLink]]
  OBVIOUS
<1>4. list.nodes = [m \in {HeadNode} |-> head] /\ list.tail = Nil /\ list.length = 0 /\ list.level = 1
  BY <1>1, <1>3 DEF EmptyList
<1>5. NullLink \in ListLink /\ NullLink.forward = Nil /\ NullLink.span = 0
  BY DEF NullLink, ListLink, Nil
<1>6. head.level \in Towers /\ DOMAIN head.level = 0 .. kMaxLevel - 1 /\ head.backward = Nil
      /\ \A i \in 0 .. kMaxLevel - 1 : head.level[i] = NullLink
  <2>1. [i \in 0 .. kMaxLevel - 1 |-> NullLink] \in [0 .. kMaxLevel - 1 -> ListLink]
    BY <1>5
  <2>2. kMaxLevel \in 1 .. kMaxLevel
    BY <1>2
  <2>3. head.level = [i \in 0 .. kMaxLevel - 1 |-> NullLink] /\ head.backward = Nil
    BY <1>3
  <2>4. head.level \in Towers
    BY <2>1, <2>2, <2>3 DEF Towers
  <2> QED
    BY <2>3, <2>4
<1>7. head \in ListNode
  <2>1. Nil \in Int
    BY DEF Nil
  <2>2. head = [member |-> 0, score |-> 0, backward |-> Nil, level |-> head.level]
    BY <1>3
  <2> QED
    BY <1>6, <2>1, <2>2 DEF ListNode
<1>8. 0 .. 0 = {0} /\ 1 .. 0 = {} /\ ord[0] = 0 /\ h[0] = kMaxLevel /\ list.nodes[0] = head /\ DOMAIN list.nodes = {0}
  BY <1>4 DEF HeadNode
<1>9. IsList(list, ord, h, 0)
  <2>1. ord = [p \in 0 .. 0 |-> ord[p]]
    OBVIOUS
  <2>2. kMaxLevel \in 1 .. kMaxLevel
    BY <1>2
  <2> QED
    BY <1>6, <1>7, <1>8, <2>1, <2>2 DEF IsList, HeadNode
<1>10. IsLinked(list, ord, h, 0)
  <2>1. ASSUME NEW i \in 0 .. kMaxLevel - 1 PROVE LinkIs(list, ord, h, 0, 0, i)
    <3>1. Forward(list, ord[0], i) = Nil /\ Span(list, ord[0], i) = 0
      BY <1>5, <1>6, <1>8 DEF Forward, Span
    <3>2. 0 + 1 .. 0 = {}
      OBVIOUS
    <3> QED
      BY <3>1, <3>2 DEF LinkIs
  <2> QED
    BY <1>2, <1>4, <1>6, <1>8, <2>1 DEF IsLinked
<1>11. IsOrdered(list, ord, 0)
  BY DEF IsOrdered
<1> QED
  BY <1>1, <1>9, <1>10, <1>11

-----------------------------------------------------------------------------
(* The descent.                                                            *)

\* The first k nodes.
FirstNodes(ord, k) == {ord[p] : p \in 1 .. k}

LEMMA ListFacts ==
    ASSUME NEW list, NEW ord, NEW h, NEW n, IsList(list, ord, h, n), IsLinked(list, ord, h, n)
    PROVE  /\ n \in Nat /\ list.level \in Nat /\ list.level > 0 /\ list.level <= kMaxLevel
           /\ \A p \in 0 .. n : h[p] \in Nat /\ h[p] > 0 /\ ord[p] \in Nat /\ ord[p] # Nil
           /\ \A i \in 0 .. list.level - 1 : i \in Nat /\ i < h[0]
           /\ \A x : x \in DOMAIN list.nodes <=> \E p \in 0 .. n : x = ord[p]
<1>1. kMaxLevel \in Nat
  BY SkipListAssumption
<1>2. n \in Nat /\ list.level \in 1 .. kMaxLevel /\ h[0] = kMaxLevel
  BY DEF IsList, IsLinked
<1>3. \A p \in 0 .. n : h[p] \in 1 .. kMaxLevel /\ ord[p] \in Nat
  BY DEF IsList
<1>4. \A p \in 0 .. n : ord[p] # Nil
  BY <1>3 DEF Nil
<1>5. \A x : x \in DOMAIN list.nodes <=> \E p \in 0 .. n : x = ord[p]
  BY DEF IsList
<1> QED
  BY <1>1, <1>2, <1>3, <1>4, <1>5

\* The link of a node on a level leads on before the last of the first k nodes
\* with the level, and leaves the first k from there.
LEMMA NextIs ==
    ASSUME NEW list, NEW ord, NEW h, NEW n, IsList(list, ord, h, n), IsLinked(list, ord, h, n),
           NEW k \in 0 .. n, NEW i \in 0 .. list.level - 1, NEW p \in 0 .. n, i < h[p],
           NEW l, l = LastWith(h, i, k), NEW f, f = Forward(list, ord[p], i)
    PROVE  /\ l \in 0 .. k /\ i < h[l] /\ (p \in 0 .. k => p <= l)
           /\ p < l => \E q \in p + 1 .. l :
                          /\ f = ord[q] /\ i < h[q] /\ Span(list, ord[p], i) = q - p
                          /\ f \in FirstNodes(ord, k) /\ f # Nil
           /\ ~(p < l) => /\ f = Nil \/ f \notin FirstNodes(ord, k)
                          /\ f # Nil => \E q \in p + 1 .. n : q \notin 0 .. k /\ Span(list, ord[p], i) = q - p
<1>1. n \in Nat /\ k \in Nat /\ i \in Nat /\ i < h[0] /\ \A r \in 0 .. k : r \in 0 .. n /\ h[r] \in Nat
  BY ListFacts
<1>2. l \in 0 .. k /\ i < h[l] /\ (\A r \in l + 1 .. k : h[r] <= i)
  BY <1>1, LastWithIs
<1>3. i \in 0 .. h[p] - 1 /\ h[p] \in Nat
  BY ListFacts
<1>4. LinkIs(list, ord, h, n, p, i)
  BY <1>3 DEF IsLinked
<1>5. ASSUME p \in 0 .. k PROVE p <= l
  <2>1. CASE p \in l + 1 .. k
    BY <1>1, <1>2, <1>3, <2>1
  <2> QED
    BY <1>2, <1>5, <2>1
<1>6. ASSUME p < l
      PROVE  \E q \in p + 1 .. l :
                /\ f = ord[q] /\ i < h[q] /\ Span(list, ord[p], i) = q - p
                /\ f \in FirstNodes(ord, k) /\ f # Nil
  <2>1. l \in p + 1 .. n /\ h[l] \in Nat
    BY <1>1, <1>2, <1>6
  <2>2. ~(h[l] <= i)
    BY <1>1, <1>2, <2>1
  <2>3. PICK q \in p + 1 .. n :
           /\ f = ord[q] /\ i < h[q]
           /\ \A r \in p + 1 .. q - 1 : h[r] <= i
           /\ Span(list, ord[p], i) = q - p
    BY <1>4, <2>1, <2>2 DEF LinkIs
  <2>4. q \in p + 1 .. l
    <3>1. ~(l \in p + 1 .. q - 1)
      BY <2>2, <2>3
    <3> QED
      BY <2>1, <2>3, <3>1
  <2>5. q \in 1 .. k /\ q \in 0 .. n
    BY <1>1, <1>2, <2>4
  <2>6. f \in FirstNodes(ord, k)
    BY <2>3, <2>5 DEF FirstNodes
  <2>7. f # Nil
    BY <2>3, <2>5, ListFacts
  <2> QED
    BY <2>3, <2>4, <2>6, <2>7
<1>7. ASSUME ~(p < l), f # Nil
      PROVE  \E q \in p + 1 .. n : q \notin 0 .. k /\ Span(list, ord[p], i) = q - p /\ f = ord[q]
  <2>1. PICK q \in p + 1 .. n : f = ord[q] /\ i < h[q] /\ Span(list, ord[p], i) = q - p
    BY <1>4, <1>7 DEF LinkIs
  <2>2. q \in 0 .. n /\ h[q] \in Nat
    <3>1. q \in 0 .. n
      OBVIOUS
    <3> QED
      BY <3>1, ListFacts
  <2>3. ~(h[q] <= i)
    BY <1>1, <2>1, <2>2
  <2>4. q \notin 0 .. k
    BY <1>1, <1>2, <1>7, <2>2, <2>3
  <2> QED
    BY <2>1, <2>4
<1>8. ASSUME ~(p < l), f # Nil PROVE f \notin FirstNodes(ord, k)
  <2>1. PICK q \in p + 1 .. n : q \notin 0 .. k /\ f = ord[q]
    BY <1>7, <1>8
  <2>2. ASSUME NEW r \in 1 .. k, f = ord[r] PROVE FALSE
    <3>1. r \in 0 .. n /\ q \in 0 .. n /\ r \in 0 .. k
      BY <1>1
    <3>2. r = q
      BY <2>1, <2>2, <3>1 DEF IsList
    <3> QED
      BY <2>1, <3>1, <3>2
  <2> QED
    BY <2>2 DEF FirstNodes
<1> QED
  BY <1>2, <1>5, <1>6, <1>7, <1>8

\* Which nodes have a level, and where they are.
LEMMA NodesWithAre ==
    ASSUME NEW list, NEW ord, NEW h, NEW n, IsList(list, ord, h, n), IsLinked(list, ord, h, n),
           NEW i \in Nat
    PROVE  /\ \A p \in 0 .. n : i < h[p] => ord[p] \in NodesWith(list, i)
           /\ \A m \in NodesWith(list, i) : \E p \in 0 .. n : m = ord[p] /\ i < h[p]
           /\ \E pos : \A p \in 0 .. n : pos[ord[p]] = p
<1>1. \A p \in 0 .. n : /\ ord[p] \in DOMAIN list.nodes
                        /\ i < h[p] <=> i \in DOMAIN list.nodes[ord[p]].level
  <2>1. ASSUME NEW p \in 0 .. n
        PROVE  /\ ord[p] \in DOMAIN list.nodes
               /\ i < h[p] <=> i \in DOMAIN list.nodes[ord[p]].level
    <3>1. h[p] \in Nat
      BY ListFacts
    <3>2. DOMAIN list.nodes[ord[p]].level = 0 .. h[p] - 1 /\ ord[p] \in DOMAIN list.nodes
      BY DEF IsList
    <3> QED
      BY <3>1, <3>2
  <2> QED
    BY <2>1
<1>2. \A p \in 0 .. n : i < h[p] => ord[p] \in NodesWith(list, i)
  BY <1>1 DEF NodesWith
<1>3. ASSUME NEW m \in NodesWith(list, i) PROVE \E p \in 0 .. n : m = ord[p] /\ i < h[p]
  <2>1. m \in DOMAIN list.nodes /\ i \in DOMAIN list.nodes[m].level
    BY DEF NodesWith
  <2>2. PICK p \in 0 .. n : m = ord[p]
    BY <2>1, ListFacts
  <2> QED
    BY <1>1, <2>1, <2>2
<1> DEFINE pos == [m \in DOMAIN list.nodes |-> CHOOSE p \in 0 .. n : ord[p] = m]
<1>4. ASSUME NEW p \in 0 .. n PROVE pos[ord[p]] = p
  <2>1. \A q \in 0 .. n : ord[q] = ord[p] => q = p
    BY DEF IsList
  <2>2. pos[ord[p]] = CHOOSE q \in 0 .. n : ord[q] = ord[p]
    BY <1>1
  <2> QED
    BY <2>1, <2>2
<1> HIDE DEF pos
<1> QED
  BY <1>2, <1>3, <1>4

\* A walk on one level ends at the last of the first k nodes that has it.
LEMMA AdvanceIs ==
    ASSUME NEW list, NEW ord, NEW h, NEW n, IsList(list, ord, h, n), IsLinked(list, ord, h, n),
           NEW k \in 0 .. n, NEW before, before = FirstNodes(ord, k),
           NEW i \in 0 .. list.level - 1, NEW p \in 0 .. k, i < h[p], NEW c \in Int,
           NEW at, at = [node |-> ord[p], rank |-> c], NEW l, l = LastWith(h, i, k)
    PROVE  Advance(list, i, at, before) = [node |-> ord[l], rank |-> (l - p) + c]
<1> DEFINE D == NodesWith(list, i)
           Body(f, m) == LET next == Forward(list, m, i)
                         IN  IF next = Nil \/ next \notin before THEN [node |-> m, rank |-> 0]
                             ELSE [f[next] EXCEPT !.rank = @ + Span(list, m, i)]
           To(q, m) == IF q < l THEN [node |-> ord[l], rank |-> l - q] ELSE [node |-> m, rank |-> 0]
           from == CHOOSE f : f = [m \in D |-> Body(f, m)]
<1>1. Advance(list, i, at, before) = [from[at.node] EXCEPT !.rank = @ + at.rank]
  BY DEF Advance
<1> HIDE DEF D, from
<1>2. n \in Nat /\ k \in Nat /\ i \in Nat /\ \A q \in 0 .. k : q \in 0 .. n
  BY ListFacts
<1>3. /\ l \in 0 .. k /\ i < h[l] /\ p <= l
  <2>1. PICK f : f = Forward(list, ord[p], i)
    OBVIOUS
  <2> QED
    BY <1>2, <2>1, NextIs
<1>4. /\ \A q \in 0 .. n : i < h[q] => ord[q] \in D
      /\ \A m \in D : \E q \in 0 .. n : m = ord[q] /\ i < h[q]
      /\ \E pos : \A q \in 0 .. n : pos[ord[q]] = q
  BY <1>2, NodesWithAre DEF D
<1>5. PICK pos : \A q \in 0 .. n : pos[ord[q]] = q
  BY <1>4
<1>6. ASSUME NEW f, NEW q \in 0 .. n, i < h[q],
             \A r \in q + 1 .. l : i < h[r] => f[ord[r]] = To(r, ord[r])
      PROVE  Body(f, ord[q]) = To(q, ord[q])
  <2>1. PICK next : next = Forward(list, ord[q], i)
    OBVIOUS
  <2>2. CASE q < l
    <3>1. PICK r \in q + 1 .. l :
             /\ next = ord[r] /\ i < h[r] /\ Span(list, ord[q], i) = r - q
             /\ next \in before /\ next # Nil
      BY <1>6, <2>1, <2>2, NextIs
    <3>2. f[next] = To(r, next)
      BY <1>6, <3>1
    <3>3. To(r, next) = [node |-> ord[l], rank |-> l - r]
      BY <1>3, <3>1
    <3>4. Body(f, ord[q]) = [f[next] EXCEPT !.rank = @ + (r - q)]
      BY <2>1, <3>1
    <3>5. (l - r) + (r - q) = l - q
      BY <1>2, <1>3, <3>1
    <3> HIDE DEF To, Body
    <3>6. Body(f, ord[q]) = [node |-> ord[l], rank |-> l - q]
      BY <3>2, <3>3, <3>4, <3>5
    <3> QED
      BY <2>2, <3>6 DEF To
  <2>3. CASE ~(q < l)
    <3>1. next = Nil \/ next \notin before
      BY <1>6, <2>1, <2>3, NextIs
    <3> QED
      BY <2>1, <2>3, <3>1
  <2> QED
    BY <2>2, <2>3
<1> DEFINE g == [m \in D |-> To(pos[m], m)]
<1>7. \A q \in 0 .. n : i < h[q] => g[ord[q]] = To(q, ord[q])
  BY <1>4, <1>5
<1>8. g = [m \in D |-> g[m]]
  OBVIOUS
<1> HIDE DEF g, To, Body
<1>9. g = [m \in D |-> Body(g, m)]
  <2>1. ASSUME NEW m \in D PROVE g[m] = Body(g, m)
    <3>1. PICK q \in 0 .. n : m = ord[q] /\ i < h[q]
      BY <1>4
    <3>2. \A r \in q + 1 .. l : i < h[r] => g[ord[r]] = To(r, ord[r])
      BY <1>2, <1>3, <1>7, <3>1
    <3> QED
      BY <1>6, <1>7, <3>1, <3>2
  <2> QED
    BY <1>8, <2>1
<1>10. from = [m \in D |-> Body(from, m)]
  BY <1>9 DEF from
<1> DEFINE S == {q \in 0 .. l : i < h[q] => from[ord[q]] = To(q, ord[q])}
<1>11. \A q \in 0 .. l : (\A r \in q + 1 .. l : r \in S) => q \in S
  <2>1. ASSUME NEW q \in 0 .. l, \A r \in q + 1 .. l : r \in S, i < h[q]
        PROVE  from[ord[q]] = To(q, ord[q])
    <3>1. q \in 0 .. n /\ ord[q] \in D
      BY <1>2, <1>3, <1>4, <2>1
    <3>2. Body(from, ord[q]) = To(q, ord[q])
      BY <1>6, <2>1, <3>1
    <3> QED
      BY <1>10, <3>1, <3>2
  <2> QED
    BY <2>1
<1>12. p \in S
  <2> HIDE DEF S
  <2>1. l \in Nat /\ p \in 0 .. l
    BY <1>2, <1>3
  <2> QED
    BY <1>11, <2>1, InductionDown
<1>13. from[ord[p]] = [node |-> ord[l], rank |-> l - p]
  <2>1. from[ord[p]] = To(p, ord[p])
    BY <1>12
  <2>2. CASE p < l
    BY <2>1, <2>2 DEF To
  <2>3. CASE p = l
    <3>1. l - p = 0 /\ ~(p < l)
      BY <1>2, <1>3, <2>3
    <3> QED
      BY <2>1, <2>3, <3>1 DEF To
  <2> QED
    BY <1>2, <1>3, <2>2, <2>3
<1> QED
  BY <1>1, <1>13

\* The descent leaves each level at the last of the first k nodes that has it,
\* with its place.
LEMMA DescentIs ==
    ASSUME NEW list, NEW ord, NEW h, NEW n, IsList(list, ord, h, n), IsLinked(list, ord, h, n),
           NEW k \in 0 .. n, NEW before, before = FirstNodes(ord, k),
           NEW path, path = Descent(list, before), NEW i \in 0 .. list.level - 1, NEW l, l = LastWith(h, i, k)
    PROVE  /\ path[i] = [node |-> ord[l], rank |-> l]
           /\ l \in 0 .. k /\ i < h[l] /\ (\A r \in l + 1 .. k : h[r] <= i)
<1> DEFINE top == list.level - 1
           At(j) == [node |-> ord[LastWith(h, j, k)], rank |-> LastWith(h, j, k)]
           Body(f, j) == Advance(list, j, IF j = top THEN Start ELSE f[j + 1], before)
<1>1. path = CHOOSE f : f = [j \in 0 .. top |-> Body(f, j)]
  BY DEF Descent
<1>2. /\ n \in Nat /\ k \in Nat /\ top \in Nat /\ top = list.level - 1
      /\ \A r \in 0 .. k : r \in 0 .. n /\ h[r] \in Nat
      /\ \A j \in 0 .. top : j \in Nat /\ j < h[0] /\ j \in 0 .. list.level - 1
  BY ListFacts
<1>3. ASSUME NEW j \in 0 .. top
      PROVE  LET r == LastWith(h, j, k)
             IN  r \in 0 .. k /\ j < h[r] /\ (\A q \in r + 1 .. k : h[q] <= j)
  BY <1>2, LastWithIs
<1>4. ASSUME NEW j \in 0 .. top, NEW f, j # top => f[j + 1] = At(j + 1)
      PROVE  Body(f, j) = At(j)
  <2>1. PICK r : r = LastWith(h, j, k)
    OBVIOUS
  <2>2. r \in 0 .. k
    BY <1>3, <2>1
  <2>3. CASE j = top
    <3>1. Start = [node |-> ord[0], rank |-> 0]
      BY DEF Start, IsList
    <3>2. 0 \in 0 .. k /\ 0 \in Int /\ (r - 0) + 0 = r
      BY <1>2, <2>2
    <3>3. Advance(list, j, Start, before) = [node |-> ord[r], rank |-> (r - 0) + 0]
      BY <1>2, <2>1, <3>1, <3>2, AdvanceIs
    <3> QED
      BY <2>1, <2>3, <3>2, <3>3
  <2>4. CASE j # top
    <3>1. PICK p : p = LastWith(h, j + 1, k)
      OBVIOUS
    <3>2. j + 1 \in 0 .. top
      BY <1>2, <2>4
    <3>3. p \in 0 .. k /\ j + 1 < h[p]
      BY <1>3, <3>1, <3>2
    <3>4. j < h[p] /\ p \in Int /\ (r - p) + p = r
      BY <1>2, <2>2, <3>3
    <3>5. PICK at : at = [node |-> ord[p], rank |-> p]
      OBVIOUS
    <3>6. f[j + 1] = at
      BY <1>4, <2>4, <3>1, <3>5
    <3>7. Advance(list, j, at, before) = [node |-> ord[r], rank |-> (r - p) + p]
      BY <1>2, <2>1, <3>3, <3>4, <3>5, AdvanceIs
    <3> QED
      BY <2>1, <2>4, <3>4, <3>6, <3>7
  <2> QED
    BY <2>3, <2>4
<1> DEFINE d == [j \in 0 .. top |-> At(j)]
<1>5. \A j \in 0 .. top : d[j] = At(j)
  OBVIOUS
<1>6. d = [j \in 0 .. top |-> d[j]]
  OBVIOUS
<1> HIDE DEF d, At, Body, top
<1>7. d = [j \in 0 .. top |-> Body(d, j)]
  <2>1. ASSUME NEW j \in 0 .. top PROVE d[j] = Body(d, j)
    <3>1. j # top => j + 1 \in 0 .. top
      BY <1>2
    <3> QED
      BY <1>4, <1>5, <3>1
  <2> QED
    BY <1>6, <2>1
<1>8. path = [j \in 0 .. top |-> Body(path, j)]
  BY <1>1, <1>7
<1> DEFINE S == {j \in 0 .. top : path[j] = At(j)}
<1>9. \A j \in 0 .. top : (\A q \in j + 1 .. top : q \in S) => j \in S
  <2>1. ASSUME NEW j \in 0 .. top, \A q \in j + 1 .. top : q \in S PROVE path[j] = At(j)
    <3>1. j # top => j + 1 \in j + 1 .. top
      BY <1>2
    <3>2. j # top => path[j + 1] = At(j + 1)
      BY <2>1, <3>1
    <3>3. Body(path, j) = At(j)
      BY <1>4, <3>2
    <3> QED
      BY <1>8, <3>3
  <2> QED
    BY <2>1
<1>10. i \in S
  <2> HIDE DEF S
  <2>1. i \in 0 .. top
    BY <1>2
  <2> QED
    BY <1>2, <1>9, <2>1, InductionDown
<1>11. path[i] = [node |-> ord[l], rank |-> l]
  BY <1>10 DEF At
<1>12. i \in 0 .. top
  BY <1>2
<1> QED
  BY <1>3, <1>11, <1>12

-----------------------------------------------------------------------------
(* What comes before a pair.                                               *)

LEMMA PrefixIs ==
    ASSUME NEW n \in Nat, NEW T, T \subseteq 1 .. n, \A p \in T : \A r \in 1 .. p : r \in T
    PROVE  \E k \in 0 .. n : T = 1 .. k
<1>1. CASE T = {}
  <2>1. T = 1 .. 0 /\ 0 \in 0 .. n
    BY <1>1
  <2> QED
    BY <2>1
<1>2. CASE T # {}
  <2>1. T \subseteq 0 .. n
    OBVIOUS
  <2>2. PICK k : k = Max(T)
    OBVIOUS
  <2>3. k \in T /\ \A r \in T : r <= k
    BY <1>2, <2>1, <2>2, GreatestOfNat
  <2>4. k \in 1 .. n
    BY <2>3
  <2>5. T = 1 .. k
    <3>1. ASSUME NEW r \in 1 .. k PROVE r \in T
      BY <2>3, <3>1
    <3>2. ASSUME NEW r \in T PROVE r \in 1 .. k
      <4>1. r <= k /\ r \in 1 .. n
        BY <2>3
      <4> QED
        BY <2>4, <4>1
    <3> QED
      BY <3>1, <3>2
  <2> QED
    BY <2>4, <2>5
<1> QED
  BY <1>1, <1>2

\* Score, then member.
IsBefore(s, m, t, o) == s < t \/ (s = t /\ m < o)

LEMMA PairsAre ==
    ASSUME NEW list, NEW ord, NEW h, NEW n, IsList(list, ord, h, n)
    PROVE  /\ \A p \in 0 .. n : /\ list.nodes[ord[p]].score \in Int /\ list.nodes[ord[p]].score # NaN
                                /\ list.nodes[ord[p]].member \in Nat
           /\ \A x : x \in ListNodes(list) <=> \E p \in 1 .. n : x = ord[p]
           /\ n \in Nat
<1>1. \A p \in 0 .. n : /\ list.nodes[ord[p]].score \in Int /\ list.nodes[ord[p]].score # NaN
                        /\ list.nodes[ord[p]].member \in Nat
  <2>1. \A p \in 0 .. n : list.nodes[ord[p]] \in ListNode
    BY DEF IsList
  <2>2. \A node \in ListNode : node.score \in Int /\ node.member \in Nat
    BY DEF ListNode
  <2> QED
    BY <2>1, <2>2, SkipListAssumption
<1>2. n \in Nat /\ ord[0] = HeadNode /\ \A p, q \in 0 .. n : ord[p] = ord[q] => p = q
  BY DEF IsList
<1>3. \A p \in 0 .. n : ord[p] = HeadNode <=> p = 0
  BY <1>2
<1>4. ASSUME NEW x PROVE x \in ListNodes(list) <=> \E p \in 1 .. n : x = ord[p]
  <2>1. x \in DOMAIN list.nodes <=> \E p \in 0 .. n : x = ord[p]
    BY DEF IsList
  <2>2. ASSUME NEW p \in 1 .. n, x = ord[p] PROVE x \in ListNodes(list)
    <3>1. p \in 0 .. n /\ p # 0
      OBVIOUS
    <3> QED
      BY <1>3, <2>1, <2>2, <3>1 DEF ListNodes
  <2>3. ASSUME NEW p \in 0 .. n, x = ord[p], x # HeadNode PROVE p \in 1 .. n
    BY <1>2, <1>3, <2>3
  <2> QED
    BY <2>1, <2>2, <2>3 DEF ListNodes
<1> QED
  BY <1>1, <1>2, <1>4

\* Those that insert(), erase() pass.
LEMMA BeforeIs ==
    ASSUME NEW list, NEW ord, NEW h, NEW n, IsList(list, ord, h, n), IsOrdered(list, ord, n),
           NEW m \in Nat, NEW s \in Int, NEW before, before = Before(list, m, s)
    PROVE  \E k \in 0 .. n :
              /\ before = FirstNodes(ord, k)
              /\ \A p \in 1 .. n :
                    p <= k <=> IsBefore(list.nodes[ord[p]].score, list.nodes[ord[p]].member, s, m)
<1> DEFINE T == {p \in 1 .. n : IsBefore(list.nodes[ord[p]].score, list.nodes[ord[p]].member, s, m)}
<1>1. n \in Nat /\ \A p \in 1 .. n : p \in 0 .. n
  BY PairsAre
<1>2. \A p \in 1 .. n : /\ list.nodes[ord[p]].score \in Int /\ list.nodes[ord[p]].score # NaN
                        /\ list.nodes[ord[p]].member \in Nat
  BY <1>1, PairsAre
<1>3. s # NaN
  BY SkipListAssumption
<1>4. \A p \in 1 .. n : Precedes(list, ord[p], m, s) <=> p \in T
  BY <1>2, <1>3 DEF Precedes, Less, Equal, IsBefore
<1>5. before = {ord[p] : p \in T}
  <2>1. ASSUME NEW x PROVE x \in before <=> \E p \in T : x = ord[p]
    BY <1>4, PairsAre DEF Before
  <2> HIDE DEF T
  <2> QED
    BY <2>1
<1>6. ASSUME NEW p \in T, NEW r \in 1 .. p PROVE r \in T
  <2>1. CASE r = p
    BY <2>1
  <2>2. CASE r < p
    <3>1. p \in 1 .. n /\ r \in 1 .. n
      BY <1>1
    <3>2. IsBefore(list.nodes[ord[r]].score, list.nodes[ord[r]].member,
                   list.nodes[ord[p]].score, list.nodes[ord[p]].member)
      BY <2>2, <3>1 DEF IsOrdered, IsBefore
    <3>3. IsBefore(list.nodes[ord[p]].score, list.nodes[ord[p]].member, s, m)
      OBVIOUS
    <3>4. IsBefore(list.nodes[ord[r]].score, list.nodes[ord[r]].member, s, m)
      BY <1>2, <3>1, <3>2, <3>3 DEF IsBefore
    <3> QED
      BY <3>1, <3>4
  <2> QED
    BY <1>1, <2>1, <2>2
<1> HIDE DEF T
<1>7. T \subseteq 1 .. n
  BY DEF T
<1>8. PICK k \in 0 .. n : before = FirstNodes(ord, k) /\ T = 1 .. k
  <2>1. \A p \in T : \A r \in 1 .. p : r \in T
    BY <1>6
  <2>2. PICK k \in 0 .. n : T = 1 .. k
    BY <1>1, <1>7, <2>1, PrefixIs
  <2>3. before = FirstNodes(ord, k)
    BY <1>5, <2>2 DEF FirstNodes
  <2> QED
    BY <2>2, <2>3
<1>9. \A p \in 1 .. n : p <= k <=> IsBefore(list.nodes[ord[p]].score, list.nodes[ord[p]].member, s, m)
  <2>1. \A p \in 1 .. n : p <= k <=> p \in T
    BY <1>1, <1>8
  <2> QED
    BY <2>1 DEF T
<1> QED
  BY <1>8, <1>9

\* The pair of a node is the pair of no other.
LEMMA PairIsOnce ==
    ASSUME NEW list, NEW ord, NEW h, NEW n, IsList(list, ord, h, n), IsOrdered(list, ord, n),
           NEW p \in 1 .. n, NEW q \in 1 .. n,
           list.nodes[ord[p]].score = list.nodes[ord[q]].score,
           list.nodes[ord[p]].member = list.nodes[ord[q]].member
    PROVE  p = q
<1>1. p \in 0 .. n /\ q \in 0 .. n
  BY PairsAre
<1>2. /\ list.nodes[ord[p]].score \in Int /\ list.nodes[ord[p]].member \in Nat
      /\ list.nodes[ord[q]].score \in Int /\ list.nodes[ord[q]].member \in Nat
  BY <1>1, PairsAre
<1>3. CASE p < q
  BY <1>2, <1>3 DEF IsOrdered
<1>4. CASE q < p
  BY <1>2, <1>4 DEF IsOrdered
<1> QED
  BY <1>1, <1>3, <1>4

\* A new node has a number of its own.
LEMMA FreshNodeIs ==
    ASSUME NEW list, NEW ord, NEW h, NEW n, IsList(list, ord, h, n), NEW x, x = FreshNode(list)
    PROVE  x \in Nat /\ x > 0 /\ x \notin DOMAIN list.nodes
<1> DEFINE D == DOMAIN list.nodes
<1>1. n \in Nat /\ D = {ord[p] : p \in 0 .. n} /\ ord \in [0 .. n -> D] /\ ord[0] = 0
      /\ \A p, q \in 0 .. n : ord[p] = ord[q] => p = q
  BY DEF IsList, HeadNode
<1>2. IsFiniteSet(D) /\ Cardinality(D) = n + 1
  <2>1. IsFiniteSet(0 .. n) /\ Cardinality(0 .. n) = n + 1
    BY <1>1, FS_Interval
  <2>2. ord \in Bijection(0 .. n, D)
    <3>1. ord \in Injection(0 .. n, D)
      BY <1>1 DEF Injection, IsInjective
    <3>2. ord \in Surjection(0 .. n, D)
      BY <1>1 DEF Surjection
    <3> QED
      BY <3>1, <3>2 DEF Bijection
  <2>3. ExistsBijection(0 .. n, D)
    BY <2>2 DEF ExistsBijection
  <2> QED
    BY <2>1, <2>3, FS_Bijection
<1> DEFINE T == 1 .. n + 1 \ D
<1>3. T # {}
  <2>1. SUFFICES ASSUME T = {} PROVE FALSE
    OBVIOUS
  <2>2. 0 .. n + 1 \subseteq D
    <3>1. 0 \in D
      BY <1>1
    <3>2. ASSUME NEW y \in 0 .. n + 1 PROVE y \in D
      <4>1. CASE y = 0
        BY <3>1, <4>1
      <4>2. CASE y \in 1 .. n + 1
        BY <2>1, <4>2
      <4> QED
        BY <1>1, <4>1, <4>2
    <3> QED
      BY <3>2
  <2>3. Cardinality(0 .. n + 1) <= Cardinality(D)
    <3> HIDE DEF D
    <3> QED
      BY <1>2, <2>2, FS_Subset
  <2>4. Cardinality(0 .. n + 1) = n + 2
    BY <1>1, FS_Interval
  <2> QED
    BY <1>1, <1>2, <2>3, <2>4
<1>4. T \subseteq Nat
  BY <1>1
<1>5. x = Min(T)
  BY <1>2 DEF FreshNode
<1>6. x \in T
  <2> HIDE DEF T
  <2> QED
    BY <1>3, <1>4, <1>5, LeastOfNat
<1> QED
  BY <1>1, <1>6

-----------------------------------------------------------------------------
(* What insert() does.                                                     *)

LEMMA LastIs ==
    ASSUME NEW list, NEW ord, NEW h, NEW n, IsList(list, ord, h, n), IsLinked(list, ord, h, n),
           NEW k \in 0 .. n, NEW i \in 0 .. kMaxLevel - 1, NEW l, l = LastWith(h, i, k)
    PROVE  /\ l \in 0 .. k /\ l \in 0 .. n /\ i < h[l] /\ (\A r \in l + 1 .. k : h[r] <= i)
           /\ \A p \in 0 .. k : i < h[p] => p <= l
           /\ ~(i < list.level) => l = 0
           /\ i = 0 => l = k
<1>1. /\ n \in Nat /\ k \in Nat /\ i \in Nat /\ list.level \in Nat
      /\ \A r \in 0 .. k : r \in 0 .. n /\ h[r] \in Nat /\ h[r] > 0
  BY ListFacts
<1>2. i < h[0] /\ \A p \in 1 .. n : h[p] <= list.level
  BY SkipListAssumption DEF IsLinked
<1>3. l \in 0 .. k /\ i < h[l] /\ (\A r \in l + 1 .. k : h[r] <= i)
  BY <1>1, <1>2, LastWithIs
<1>4. ASSUME NEW p \in 0 .. k, i < h[p] PROVE p <= l
  <2>1. CASE p \in l + 1 .. k
    BY <1>1, <1>3, <1>4, <2>1
  <2> QED
    BY <1>1, <1>3, <2>1
<1>5. ASSUME ~(i < list.level) PROVE l = 0
  BY <1>1, <1>2, <1>3, <1>5
<1>6. ASSUME i = 0 PROVE l = k
  <2>1. k \in 0 .. k /\ i < h[k]
    BY <1>1, <1>6
  <2> QED
    BY <1>1, <1>3, <1>4, <2>1
<1> QED
  BY <1>1, <1>3, <1>4, <1>5, <1>6

LEMMA LinkRecord ==
    ASSUME NEW list, NEW ord, NEW h, NEW n, IsList(list, ord, h, n), NEW p \in 0 .. n, NEW i \in 0 .. h[p] - 1
    PROVE  /\ list.nodes[ord[p]].level[i] \in ListLink
           /\ Forward(list, ord[p], i) \in Int /\ Span(list, ord[p], i) \in Int
<1>1. list.nodes[ord[p]] \in ListNode /\ DOMAIN list.nodes[ord[p]].level = 0 .. h[p] - 1
  BY DEF IsList
<1>2. PICK lv : lv = list.nodes[ord[p]].level
  OBVIOUS
<1>3. lv \in Towers
  BY <1>1, <1>2 DEF ListNode
<1>4. PICK g \in 1 .. kMaxLevel : lv \in [0 .. g - 1 -> ListLink]
  BY <1>3 DEF Towers
<1>5. lv[i] \in ListLink
  BY <1>1, <1>2, <1>4
<1>6. \A e \in ListLink : e.forward \in Int /\ e.span \in Int
  BY DEF ListLink
<1> QED
  BY <1>2, <1>5, <1>6 DEF Forward, Span

LEMMA TowerIs ==
    ASSUME NEW g \in 1 .. kMaxLevel, NEW f, f = [i \in 0 .. g - 1 |-> f[i]],
           \A i \in 0 .. g - 1 : f[i] \in ListLink
    PROVE  f \in Towers
<1>1. f \in [0 .. g - 1 -> ListLink]
  OBVIOUS
<1> QED
  BY <1>1 DEF Towers

\* A node with other links.
WithLinks(node, lv, b) == [node EXCEPT !.level = lv, !.backward = b]

\* What insert() leaves of one link, and of the one that passed over the new
\* node.
LinkAfterInsert(list, new, ord, h, lvl, k, x, top, p, i) ==
    IF i < top /\ p = LastWith(h, i, k)
    THEN IF i < lvl THEN Forward(new, ord[p], i) = x /\ Span(new, ord[p], i) = (k - p) + 1
         ELSE /\ Forward(new, ord[p], i) = Forward(list, ord[p], i)
              /\ Span(new, ord[p], i) = Span(list, ord[p], i) + 1
    ELSE /\ Forward(new, ord[p], i) = Forward(list, ord[p], i)
         /\ Span(new, ord[p], i) = Span(list, ord[p], i)

LinkOfInserted(list, new, ord, h, n, k, x, i) ==
    LET l == LastWith(h, i, k)
    IN  /\ Forward(new, x, i) = Forward(list, ord[l], i)
        /\ Span(new, x, i) = (IF i < list.level THEN Span(list, ord[l], i) ELSE n) - (k - l)

IsInserted(list, new, ord, h, n, m, s, lvl, k, x, top) ==
    /\ x \in Nat /\ x > 0 /\ x \notin DOMAIN list.nodes
    /\ top \in 1 .. kMaxLevel /\ lvl <= top /\ list.level <= top /\ (top = lvl \/ top = list.level)
    /\ new.level = top /\ new.length = n + 1
    /\ new.tail = IF k = n THEN x ELSE list.tail
    /\ DOMAIN new.nodes = DOMAIN list.nodes \cup {x}
    /\ new.nodes[x] \in ListNode
    /\ DOMAIN new.nodes[x].level = 0 .. lvl - 1
    /\ new.nodes[x].member = m /\ new.nodes[x].score = s
    /\ new.nodes[x].backward = IF k = 0 THEN Nil ELSE ord[k]
    /\ \A i \in 0 .. lvl - 1 : LinkOfInserted(list, new, ord, h, n, k, x, i)
    /\ \A p \in 0 .. n :
          /\ new.nodes[ord[p]] \in ListNode
          /\ DOMAIN new.nodes[ord[p]].level = 0 .. h[p] - 1
          /\ new.nodes[ord[p]].member = list.nodes[ord[p]].member
          /\ new.nodes[ord[p]].score = list.nodes[ord[p]].score
          /\ new.nodes[ord[p]].backward = IF p = k + 1 THEN x ELSE list.nodes[ord[p]].backward
          /\ \A i \in 0 .. h[p] - 1 : LinkAfterInsert(list, new, ord, h, lvl, k, x, top, p, i)

\* The link of the head or the first on a level that no node reaches.
LEMMA LinkAtEnd ==
    ASSUME NEW list, NEW ord, NEW h, NEW n, IsList(list, ord, h, n), IsLinked(list, ord, h, n),
           NEW i \in 0 .. kMaxLevel - 1, ~(i < list.level)
    PROVE  Forward(list, ord[0], i) = Nil
<1>1. n \in Nat /\ list.level \in Nat /\ i \in Nat /\ i \in 0 .. h[0] - 1 /\ 0 \in 0 .. n
  BY ListFacts, SkipListAssumption DEF IsLinked
<1>2. LinkIs(list, ord, h, n, 0, i)
  BY <1>1 DEF IsLinked
<1>3. ASSUME NEW q \in 0 + 1 .. n, i < h[q] PROVE FALSE
  <2>1. q \in 0 .. n /\ q \in 1 .. n
    BY <1>1
  <2>2. h[q] \in Nat /\ h[q] <= list.level
    BY <2>1, ListFacts DEF IsLinked
  <2> QED
    BY <1>1, <1>3, <2>2
<1> QED
  BY <1>2, <1>3 DEF LinkIs

\* The node after the first k.
LEMMA NextOnFloor ==
    ASSUME NEW list, NEW ord, NEW h, NEW n, IsList(list, ord, h, n), IsLinked(list, ord, h, n), NEW p \in 0 .. n
    PROVE  Forward(list, ord[p], 0) = IF p = n THEN Nil ELSE ord[p + 1]
<1>1. n \in Nat /\ p \in Nat /\ \A r \in 0 .. n : h[r] \in Nat /\ h[r] > 0
  BY ListFacts
<1>2. 0 \in 0 .. h[p] - 1
  BY <1>1
<1>3. LinkIs(list, ord, h, n, p, 0)
  BY <1>2 DEF IsLinked
<1>4. CASE p = n
  BY <1>1, <1>3, <1>4 DEF LinkIs
<1>5. CASE p # n
  <2>1. p + 1 \in p + 1 .. n /\ ~(h[p + 1] <= 0)
    BY <1>1, <1>5
  <2>2. PICK q \in p + 1 .. n : Forward(list, ord[p], 0) = ord[q] /\ \A r \in p + 1 .. q - 1 : h[r] <= 0
    BY <1>3, <2>1 DEF LinkIs
  <2>3. q = p + 1
    <3>1. CASE p + 1 \in p + 1 .. q - 1
      BY <2>1, <2>2, <3>1
    <3> QED
      BY <1>1, <2>2, <3>1
  <2> QED
    BY <1>5, <2>2, <2>3
<1> QED
  BY <1>4, <1>5

LEMMA WhatInsertDoes ==
    ASSUME NEW list, NEW ord, NEW h, NEW n, IsList(list, ord, h, n), IsLinked(list, ord, h, n),
           NEW m \in Nat, NEW s \in Int, NEW lvl \in 1 .. kMaxLevel,
           NEW k \in 0 .. n, Before(list, m, s) = FirstNodes(ord, k),
           NEW new, new = ListInsert(list, m, s, lvl), NEW x, x = FreshNode(list)
    PROVE  \E top : IsInserted(list, new, ord, h, n, m, s, lvl, k, x, top)
<1> DEFINE path  == Descent(list, Before(list, m, s))
           top   == Max({lvl, list.level})
           prev  == [i \in 0 .. top - 1 |-> IF i < list.level THEN path[i].node ELSE HeadNode]
           ahead == [i \in 0 .. top - 1 |-> path[0].rank - (IF i < list.level THEN path[i].rank ELSE 0)]
           wide  == [i \in 0 .. top - 1 |-> IF i < list.level THEN Span(list, prev[i], i) ELSE list.length]
           next  == Forward(list, prev[0], 0)
           link(a, i) ==
             IF i \notin 0 .. top - 1 \/ prev[i] # a THEN list.nodes[a].level[i]
             ELSE IF i < lvl THEN [forward |-> x, span |-> ahead[i] + 1]
             ELSE LongerLink(list.nodes[a].level[i])
           tower == [i \in 0 .. lvl - 1 |-> [forward |-> Forward(list, prev[i], i),
                                             span    |-> wide[i] - ahead[i]]]
           fresh == [member   |-> m,
                     score    |-> s,
                     backward |-> IF prev[0] = HeadNode THEN Nil ELSE prev[0],
                     level    |-> tower]
           nodes == [a \in DOMAIN list.nodes \cup {x} |->
                       IF a = x THEN fresh
                       ELSE [list.nodes[a] EXCEPT !.level    = [i \in DOMAIN list.nodes[a].level |-> link(a, i)],
                                                  !.backward = IF a = next THEN x ELSE list.nodes[a].backward]]
<1>1. new = [nodes  |-> nodes,
             tail   |-> IF next = Nil THEN x ELSE list.tail,
             length |-> list.length + 1,
             level  |-> top]
  BY ZenonT(30) DEF ListInsert
<1> HIDE DEF path, top, prev, ahead, wide, next, link, tower, fresh, nodes
<1>2. n \in Nat /\ k \in Nat /\ lvl \in Nat /\ kMaxLevel \in Nat /\ list.level \in 1 .. kMaxLevel /\ list.length = n
  BY SkipListAssumption DEF IsList, IsLinked
<1>3. x \in Nat /\ x > 0 /\ x \notin DOMAIN list.nodes
  BY FreshNodeIs
<1>4. top \in 1 .. kMaxLevel /\ lvl <= top /\ list.level <= top /\ (top = lvl \/ top = list.level)
  <2>1. PICK P : P = {lvl, list.level}
    OBVIOUS
  <2>2. P \subseteq 0 .. kMaxLevel /\ P # {}
    BY <1>2, <2>1
  <2>3. Max(P) \in P /\ \A r \in P : r <= Max(P)
    BY <1>2, <2>2, GreatestOfNat
  <2>4. top = Max(P)
    BY <2>1 DEF top
  <2> QED
    BY <1>2, <2>1, <2>3, <2>4
<1>5. ASSUME NEW i \in 0 .. top - 1, NEW l, l = LastWith(h, i, k)
      PROVE  /\ i \in 0 .. kMaxLevel - 1 /\ l \in 0 .. k /\ l \in 0 .. n /\ i < h[l]
             /\ prev[i] = ord[l] /\ ahead[i] = k - l
             /\ wide[i] = IF i < list.level THEN Span(list, ord[l], i) ELSE n
  <2>1. i \in 0 .. kMaxLevel - 1
    BY <1>2, <1>4
  <2>2. l \in 0 .. k /\ l \in 0 .. n /\ i < h[l] /\ (~(i < list.level) => l = 0)
    BY <1>5, <2>1, LastIs
  <2>3. i < list.level => path[i].node = ord[l] /\ path[i].rank = l
    <3>1. ASSUME i < list.level PROVE path[i] = [node |-> ord[l], rank |-> l]
      <4>1. i \in 0 .. list.level - 1
        BY <1>2, <1>4, <3>1
      <4> QED
        BY <1>5, <4>1, DescentIs DEF path
    <3> QED
      BY <3>1
  <2>4. path[0].rank = k
    <3>1. 0 \in 0 .. kMaxLevel - 1 /\ 0 \in 0 .. list.level - 1
      BY <1>2
    <3>2. k = LastWith(h, 0, k)
      BY <3>1, LastIs
    <3>3. path[0] = [node |-> ord[k], rank |-> k]
      BY <3>1, <3>2, DescentIs DEF path
    <3> QED
      BY <3>3
  <2>5. ord[0] = HeadNode
    BY DEF IsList
  <2>6. prev[i] = ord[l]
    BY <2>2, <2>3, <2>5 DEF prev
  <2>7. ahead[i] = k - l
    BY <1>2, <2>2, <2>3, <2>4 DEF ahead
  <2>8. wide[i] = IF i < list.level THEN Span(list, ord[l], i) ELSE n
    BY <1>2, <2>6 DEF wide
  <2> QED
    BY <2>1, <2>2, <2>6, <2>7, <2>8
<1>6. prev[0] = ord[k] /\ next = IF k = n THEN Nil ELSE ord[k + 1]
  <2>1. 0 \in 0 .. kMaxLevel - 1 /\ 0 \in 0 .. top - 1
    BY <1>2, <1>4
  <2>2. k = LastWith(h, 0, k)
    BY <2>1, LastIs
  <2>3. prev[0] = ord[k]
    BY <1>5, <2>1, <2>2
  <2> QED
    BY <2>3, NextOnFloor DEF next
<1>7. \A p \in 0 .. n : /\ ord[p] \in Nat /\ ord[p] # Nil /\ ord[p] \in DOMAIN list.nodes
                        /\ (ord[p] = HeadNode <=> p = 0)
                        /\ \A q \in 0 .. n : ord[p] = ord[q] => p = q
                        /\ list.nodes[ord[p]] \in ListNode /\ h[p] \in 1 .. kMaxLevel
                        /\ DOMAIN list.nodes[ord[p]].level = 0 .. h[p] - 1
  <2>1. ord[0] = HeadNode /\ \A p, q \in 0 .. n : ord[p] = ord[q] => p = q
    BY DEF IsList
  <2>2. \A p \in 0 .. n : ord[p] = HeadNode <=> p = 0
    BY <1>2, <2>1
  <2>3. \A p \in 0 .. n : ord[p] # Nil
    BY ListFacts
  <2>4. \A p \in 0 .. n : /\ ord[p] \in Nat /\ ord[p] \in DOMAIN list.nodes
                          /\ list.nodes[ord[p]] \in ListNode /\ h[p] \in 1 .. kMaxLevel
                          /\ DOMAIN list.nodes[ord[p]].level = 0 .. h[p] - 1
    BY DEF IsList
  <2> QED
    BY <2>1, <2>2, <2>3, <2>4
<1>8. ASSUME NEW p \in 0 .. n PROVE ord[p] = next <=> p = k + 1
  <2>1. CASE k = n
    BY <1>2, <1>6, <1>7, <2>1, SMTT(30)
  <2>2. CASE k # n
    <3>1. k + 1 \in 0 .. n
      BY <1>2, <2>2
    <3> QED
      BY <1>6, <1>7, <2>2, <3>1
  <2> QED
    BY <2>1, <2>2
<1>9. next = Nil <=> k = n
  <2>1. k # n => k + 1 \in 0 .. n
    BY <1>2
  <2> QED
    BY <1>6, <1>7, <2>1
<1>10. /\ new.nodes = nodes /\ new.level = top /\ new.length = n + 1
       /\ new.tail = IF k = n THEN x ELSE list.tail
  BY <1>1, <1>2, <1>9
\* The new node.
<1>11. /\ tower = [i \in 0 .. lvl - 1 |-> tower[i]]
       /\ \A i \in 0 .. lvl - 1 : /\ tower[i].forward = Forward(list, prev[i], i)
                                  /\ tower[i].span = wide[i] - ahead[i]
                                  /\ tower[i] = [forward |-> tower[i].forward, span |-> tower[i].span]
  BY DEF tower
<1>12. ASSUME NEW i \in 0 .. lvl - 1
       PROVE  LET l == LastWith(h, i, k)
              IN  /\ tower[i].forward = Forward(list, ord[l], i)
                  /\ tower[i].span = (IF i < list.level THEN Span(list, ord[l], i) ELSE n) - (k - l)
                  /\ tower[i] \in ListLink
  <2>1. PICK l : l = LastWith(h, i, k)
    OBVIOUS
  <2>2. i \in 0 .. top - 1
    BY <1>2, <1>4
  <2>3. l \in 0 .. n /\ i < h[l] /\ prev[i] = ord[l] /\ ahead[i] = k - l
        /\ wide[i] = IF i < list.level THEN Span(list, ord[l], i) ELSE n
    BY <1>5, <2>1, <2>2
  <2>4. i \in 0 .. h[l] - 1
    BY <1>7, <2>3
  <2>5. Forward(list, ord[l], i) \in Int /\ Span(list, ord[l], i) \in Int
    BY <2>3, <2>4, LinkRecord
  <2>6. tower[i].forward = Forward(list, ord[l], i) /\ tower[i].span = wide[i] - ahead[i]
    BY <1>11, <2>3
  <2>7. wide[i] - ahead[i] \in Int /\ k - l \in Int
    BY <1>2, <2>3, <2>5
  <2>8. tower[i] \in ListLink
    BY <1>11, <2>5, <2>6, <2>7 DEF ListLink
  <2> QED
    BY <2>1, <2>3, <2>6, <2>8
<1>13. tower \in Towers
  BY <1>11, <1>12, TowerIs
<1>14. fresh.backward = (IF k = 0 THEN Nil ELSE ord[k]) /\ fresh.backward \in Int
       /\ fresh.member = m /\ fresh.score = s /\ fresh.level = tower
       /\ fresh = [member |-> m, score |-> s, backward |-> fresh.backward, level |-> tower]
  <2>1. fresh.backward = IF prev[0] = HeadNode THEN Nil ELSE prev[0]
    BY DEF fresh
  <2>2. fresh.member = m /\ fresh.score = s /\ fresh.level = tower
    BY DEF fresh
  <2>3. fresh = [member |-> m, score |-> s, backward |-> fresh.backward, level |-> tower]
    BY <2>1 DEF fresh
  <2>4. Nil \in Int
    BY DEF Nil
  <2> QED
    BY <1>6, <1>7, <2>1, <2>2, <2>3, <2>4
<1>15. fresh \in ListNode
  BY <1>13, <1>14 DEF ListNode
<1>16. nodes[x] = fresh /\ DOMAIN nodes = DOMAIN list.nodes \cup {x}
  BY DEF nodes
\* The others.
<1>17. ASSUME NEW p \in 0 .. n, NEW i \in 0 .. h[p] - 1
       PROVE  /\ link(ord[p], i) \in ListLink
              /\ IF i < top /\ p = LastWith(h, i, k)
                 THEN IF i < lvl THEN link(ord[p], i).forward = x /\ link(ord[p], i).span = (k - p) + 1
                      ELSE /\ link(ord[p], i).forward = Forward(list, ord[p], i)
                           /\ link(ord[p], i).span = Span(list, ord[p], i) + 1
                 ELSE /\ link(ord[p], i).forward = Forward(list, ord[p], i)
                      /\ link(ord[p], i).span = Span(list, ord[p], i)
  <2>1. PICK l : l = LastWith(h, i, k)
    OBVIOUS
  <2>2. i \in 0 .. top - 1 <=> i < top
    BY <1>2, <1>4, <1>7
  <2>3. i < top => l \in 0 .. n /\ prev[i] = ord[l] /\ ahead[i] = k - l
    BY <1>5, <2>1, <2>2
  <2>4. i < top => (prev[i] = ord[p] <=> p = l)
    BY <1>7, <2>3
  <2>5. PICK old : old = list.nodes[ord[p]].level[i]
    OBVIOUS
  <2>6. old \in ListLink /\ old.forward = Forward(list, ord[p], i) /\ old.span = Span(list, ord[p], i)
    BY <2>5, LinkRecord DEF Forward, Span
  <2>7. CASE ~(i < top /\ p = l)
    <3>1. link(ord[p], i) = old
      BY <2>2, <2>4, <2>5, <2>7 DEF link
    <3> QED
      BY <2>1, <2>6, <2>7, <3>1
  <2>8. CASE i < top /\ p = l /\ i < lvl
    <3>1. link(ord[p], i) = [forward |-> x, span |-> (k - p) + 1]
      BY <2>2, <2>3, <2>4, <2>8 DEF link
    <3>2. x \in Int /\ (k - p) + 1 \in Int
      BY <1>2, <1>3
    <3> QED
      BY <2>1, <2>8, <3>1, <3>2 DEF ListLink
  <2>9. CASE i < top /\ p = l /\ ~(i < lvl)
    <3>1. link(ord[p], i) = LongerLink(old)
      BY <2>2, <2>3, <2>4, <2>5, <2>9 DEF link
    <3>2. LongerLink(old) \in ListLink /\ LongerLink(old).forward = old.forward /\ LongerLink(old).span = old.span + 1
      BY <2>6 DEF LongerLink, ListLink
    <3> QED
      BY <2>1, <2>6, <2>9, <3>1, <3>2
  <2> QED
    BY <2>7, <2>8, <2>9
<1>18. ASSUME NEW p \in 0 .. n
       PROVE  /\ nodes[ord[p]] \in ListNode
              /\ DOMAIN nodes[ord[p]].level = 0 .. h[p] - 1
              /\ nodes[ord[p]].member = list.nodes[ord[p]].member
              /\ nodes[ord[p]].score = list.nodes[ord[p]].score
              /\ nodes[ord[p]].backward = IF p = k + 1 THEN x ELSE list.nodes[ord[p]].backward
              /\ \A i \in 0 .. h[p] - 1 : nodes[ord[p]].level[i] = link(ord[p], i)
  <2>1. PICK a : a = ord[p]
    OBVIOUS
  <2>2. PICK node : node = list.nodes[a]
    OBVIOUS
  <2>3. node \in ListNode /\ DOMAIN node.level = 0 .. h[p] - 1 /\ a # x /\ a \in DOMAIN list.nodes
    BY <1>3, <1>7, <2>1, <2>2
  <2>4. PICK lv : lv = [i \in 0 .. h[p] - 1 |-> link(a, i)]
    OBVIOUS
  <2>5. lv = [i \in 0 .. h[p] - 1 |-> lv[i]] /\ \A i \in 0 .. h[p] - 1 : lv[i] = link(a, i)
    BY <2>4
  <2>6. lv \in Towers
    <3>1. \A i \in 0 .. h[p] - 1 : lv[i] \in ListLink
      BY <1>17, <2>1, <2>5
    <3> QED
      BY <1>7, <2>5, <3>1, TowerIs
  <2>7. PICK b : b = IF a = next THEN x ELSE node.backward
    OBVIOUS
  <2>8. b \in Int
    BY <1>3, <2>3, <2>7 DEF ListNode
  <2>9. nodes[a] = [node EXCEPT !.level = lv, !.backward = b]
    BY <2>2, <2>3, <2>4, <2>7 DEF nodes
  <2>10. nodes[a] \in ListNode /\ nodes[a].member = node.member /\ nodes[a].score = node.score
         /\ nodes[a].backward = b /\ nodes[a].level = lv
    <3>1. PICK other : other = nodes[a]
      OBVIOUS
    <3>2. other = WithLinks(node, lv, b)
      BY <2>9, <3>1 DEF WithLinks
    <3>3. other \in ListNode /\ other.member = node.member /\ other.score = node.score
          /\ other.backward = b /\ other.level = lv
      BY <2>3, <2>6, <2>8, <3>2 DEF ListNode, WithLinks
    <3> QED
      BY <3>1, <3>3
  <2>11. b = IF p = k + 1 THEN x ELSE node.backward
    BY <1>8, <2>1, <2>7
  <2>12. DOMAIN lv = 0 .. h[p] - 1
    BY <2>5
  <2> QED
    BY <2>1, <2>2, <2>5, <2>10, <2>11, <2>12
<1>19. ASSUME NEW p \in 0 .. n, NEW i \in 0 .. h[p] - 1
       PROVE  LinkAfterInsert(list, new, ord, h, lvl, k, x, top, p, i)
  <2>1. Forward(new, ord[p], i) = link(ord[p], i).forward /\ Span(new, ord[p], i) = link(ord[p], i).span
    BY <1>10, <1>18 DEF Forward, Span
  <2> QED
    BY <1>17, <2>1 DEF LinkAfterInsert
<1>20. ASSUME NEW i \in 0 .. lvl - 1 PROVE LinkOfInserted(list, new, ord, h, n, k, x, i)
  <2>1. Forward(new, x, i) = tower[i].forward /\ Span(new, x, i) = tower[i].span
    BY <1>10, <1>14, <1>16 DEF Forward, Span
  <2> QED
    BY <1>12, <2>1 DEF LinkOfInserted
<1>21. DOMAIN fresh.level = 0 .. lvl - 1
  BY <1>11, <1>14
<1>22. IsInserted(list, new, ord, h, n, m, s, lvl, k, x, top)
  BY <1>3, <1>4, <1>10, <1>14, <1>15, <1>16, <1>18, <1>19, <1>20, <1>21 DEF IsInserted
<1> QED
  BY <1>22

-----------------------------------------------------------------------------
(* The list after insert().                                                *)

\* The longer of two orders has x after the first k.
IsWith(ord, h, n, k, x, lvl, ord2, h2) ==
    /\ ord2 = [r \in 0 .. n + 1 |-> ord2[r]]
    /\ ord2[k + 1] = x /\ h2[k + 1] = lvl
    /\ \A p \in 0 .. k : ord2[p] = ord[p] /\ h2[p] = h[p]
    /\ \A p \in k + 1 .. n : ord2[p + 1] = ord[p] /\ h2[p + 1] = h[p]

LEMMA OrderWith ==
    ASSUME NEW ord, NEW h, NEW n \in Nat, NEW k \in 0 .. n, NEW x, NEW lvl
    PROVE  \E ord2, h2 : IsWith(ord, h, n, k, x, lvl, ord2, h2)
<1> DEFINE With(f, e) == [r \in 0 .. n + 1 |-> IF r <= k THEN f[r] ELSE IF r = k + 1 THEN e ELSE f[r - 1]]
<1>1. ASSUME NEW f, NEW e
      PROVE  /\ With(f, e) = [r \in 0 .. n + 1 |-> With(f, e)[r]]
             /\ With(f, e)[k + 1] = e
             /\ \A p \in 0 .. k : With(f, e)[p] = f[p]
             /\ \A p \in k + 1 .. n : With(f, e)[p + 1] = f[p]
  <2>1. k + 1 \in 0 .. n + 1 /\ ~(k + 1 <= k)
    OBVIOUS
  <2>2. \A p \in 0 .. k : p \in 0 .. n + 1 /\ p <= k
    OBVIOUS
  <2>3. \A p \in k + 1 .. n : p + 1 \in 0 .. n + 1 /\ ~(p + 1 <= k) /\ p + 1 # k + 1 /\ (p + 1) - 1 = p
    OBVIOUS
  <2> QED
    BY <2>1, <2>2, <2>3
<1> HIDE DEF With
<1>2. IsWith(ord, h, n, k, x, lvl, With(ord, x), With(h, lvl))
  BY <1>1 DEF IsWith
<1> QED
  BY <1>2

LEMMA PlacesWith ==
    ASSUME NEW n \in Nat, NEW k \in 0 .. n
    PROVE  /\ \A r \in 0 .. n + 1 : r = k + 1 \/ r \in 0 .. k \/ \E p \in k + 1 .. n : r = p + 1
           /\ \A r \in 1 .. n + 1 : r = k + 1 \/ r \in 1 .. k \/ \E p \in k + 1 .. n : r = p + 1
           /\ k + 1 \in 0 .. n + 1 /\ k + 1 \in 1 .. n + 1
           /\ \A p \in 0 .. k : p \in 0 .. n /\ p \in 0 .. n + 1
           /\ \A p \in 1 .. k : p \in 0 .. k /\ p \in 1 .. n /\ p \in 1 .. n + 1
           /\ \A p \in k + 1 .. n : p \in 0 .. n /\ p \in 1 .. n /\ p + 1 \in 0 .. n + 1 /\ p + 1 \in 1 .. n + 1
           /\ \A p \in 0 .. n : p \in 0 .. k \/ p \in k + 1 .. n
           /\ \A p \in 1 .. n : p \in 1 .. k \/ p \in k + 1 .. n
<1>1. ASSUME NEW r \in 0 .. n + 1, r # k + 1, r \notin 0 .. k PROVE \E p \in k + 1 .. n : r = p + 1
  <2>1. r - 1 \in k + 1 .. n /\ r = (r - 1) + 1
    BY <1>1
  <2> QED
    BY <2>1
<1>2. \A r \in 1 .. n + 1 : r \in 0 .. n + 1 /\ (r \in 0 .. k => r \in 1 .. k)
  OBVIOUS
<1> QED
  BY <1>1, <1>2

\* No node is higher than the levels in use, the head aside.
LEMMA HeightsWith ==
    ASSUME NEW list, NEW ord, NEW h, NEW n, IsList(list, ord, h, n), IsLinked(list, ord, h, n),
           NEW k \in 0 .. n, NEW x, NEW lvl \in 1 .. kMaxLevel, NEW ord2, NEW h2,
           IsWith(ord, h, n, k, x, lvl, ord2, h2)
    PROVE  /\ n \in Nat /\ k \in Nat /\ kMaxLevel \in Nat /\ h2[0] = kMaxLevel
           /\ \A p \in 0 .. n : h[p] \in 1 .. kMaxLevel /\ h[p] \in Nat
           /\ \A r \in 0 .. n + 1 : h2[r] \in 1 .. kMaxLevel
<1>1. n \in Nat /\ kMaxLevel \in Nat /\ k \in Nat
  BY ListFacts, SkipListAssumption
<1>2. \A p \in 0 .. n : h[p] \in 1 .. kMaxLevel /\ h[p] \in Nat
  BY ListFacts DEF IsList
<1>3. ASSUME NEW r \in 0 .. n + 1 PROVE h2[r] \in 1 .. kMaxLevel
  <2>1. CASE r = k + 1
    BY <2>1 DEF IsWith
  <2>2. CASE r \in 0 .. k
    <3>1. r \in 0 .. n
      BY <1>1, <2>2
    <3>2. h2[r] = h[r]
      BY <2>2 DEF IsWith
    <3> QED
      BY <1>2, <3>1, <3>2
  <2>3. CASE \E p \in k + 1 .. n : r = p + 1
    <3>1. PICK p \in k + 1 .. n : r = p + 1
      BY <2>3
    <3>2. p \in 0 .. n
      BY <1>1
    <3>3. h2[r] = h[p]
      BY <3>1 DEF IsWith
    <3> QED
      BY <1>2, <3>2, <3>3
  <2> QED
    BY <1>1, <2>1, <2>2, <2>3, PlacesWith
<1>4. h2[0] = kMaxLevel
  <2>1. 0 \in 0 .. k
    BY <1>1
  <2> QED
    BY <2>1 DEF IsWith, IsLinked
<1> QED
  BY <1>1, <1>2, <1>3, <1>4

LEMMA InsertedIsList ==
    ASSUME NEW list, NEW ord, NEW h, NEW n, IsList(list, ord, h, n), IsLinked(list, ord, h, n),
           NEW m, NEW s, NEW lvl \in 1 .. kMaxLevel, NEW k \in 0 .. n, NEW x, NEW top, NEW new,
           IsInserted(list, new, ord, h, n, m, s, lvl, k, x, top), NEW ord2, NEW h2,
           IsWith(ord, h, n, k, x, lvl, ord2, h2)
    PROVE  IsList(new, ord2, h2, n + 1)
<1>1. n \in Nat /\ k \in Nat /\ n + 1 \in Nat
  BY HeightsWith
<1>2. ord[0] = HeadNode /\ \A p \in 0 .. n : ord[p] \in Nat /\ ord[p] \in DOMAIN list.nodes
  BY DEF IsList
<1>3. x \in Nat /\ x \notin DOMAIN list.nodes /\ DOMAIN new.nodes = DOMAIN list.nodes \cup {x}
  BY DEF IsInserted
<1>4. ord2[k + 1] = x /\ h2[k + 1] = lvl /\ (\A p \in 0 .. k : ord2[p] = ord[p] /\ h2[p] = h[p])
      /\ (\A p \in k + 1 .. n : ord2[p + 1] = ord[p] /\ h2[p + 1] = h[p])
      /\ ord2 = [r \in 0 .. n + 1 |-> ord2[r]]
  BY DEF IsWith
<1>5. \A p \in 0 .. n : \A q \in 0 .. n : ord[p] = ord[q] => p = q
  BY DEF IsList
<1>6. ASSUME NEW r \in 0 .. n + 1, NEW t \in 0 .. n + 1, ord2[r] = ord2[t] PROVE r = t
  <2> DEFINE Of(u) == IF u <= k THEN u ELSE u - 1
  <2>1. ASSUME NEW u \in 0 .. n + 1, u # k + 1
        PROVE  Of(u) \in 0 .. n /\ ord2[u] = ord[Of(u)] /\ ord2[u] # x
    <3>1. CASE u \in 0 .. k
      <4>1. Of(u) = u /\ u \in 0 .. n
        BY <1>1, <3>1
      <4> QED
        BY <1>2, <1>3, <1>4, <3>1, <4>1
    <3>2. CASE u \notin 0 .. k
      <4>1. Of(u) = u - 1 /\ u - 1 \in k + 1 .. n /\ u - 1 \in 0 .. n /\ (u - 1) + 1 = u
        BY <1>1, <2>1, <3>2
      <4>2. ord2[u] = ord[u - 1]
        BY <1>4, <4>1
      <4> QED
        BY <1>2, <1>3, <4>1, <4>2
    <3> QED
      BY <3>1, <3>2
  <2>2. CASE r = k + 1
    BY <1>4, <1>6, <2>1, <2>2
  <2>3. CASE t = k + 1
    BY <1>4, <1>6, <2>1, <2>3
  <2>4. CASE r # k + 1 /\ t # k + 1
    <3>1. Of(r) \in 0 .. n /\ Of(t) \in 0 .. n /\ ord[Of(r)] = ord[Of(t)]
      BY <1>6, <2>1, <2>4
    <3>2. Of(r) = Of(t)
      <4> HIDE DEF Of
      <4> QED
        BY <1>5, <3>1
    <3> QED
      BY <1>1, <2>4, <3>2
  <2> QED
    BY <2>2, <2>3, <2>4
<1>7. ASSUME NEW a \in DOMAIN new.nodes PROVE \E r \in 0 .. n + 1 : a = ord2[r]
  <2>1. CASE a = x
    BY <1>1, <1>4, <2>1, PlacesWith
  <2>2. CASE a \in DOMAIN list.nodes
    <3>1. PICK p \in 0 .. n : a = ord[p]
      BY <2>2 DEF IsList
    <3>2. CASE p \in 0 .. k
      BY <1>1, <1>4, <3>1, <3>2, PlacesWith
    <3>3. CASE p \in k + 1 .. n
      BY <1>1, <1>4, <3>1, <3>3, PlacesWith
    <3> QED
      BY <1>1, <3>1, <3>2, <3>3, PlacesWith
  <2> QED
    BY <1>3, <2>1, <2>2
<1>8. ASSUME NEW r \in 0 .. n + 1
      PROVE  /\ ord2[r] \in Nat /\ ord2[r] \in DOMAIN new.nodes
             /\ new.nodes[ord2[r]] \in ListNode
             /\ DOMAIN new.nodes[ord2[r]].level = 0 .. h2[r] - 1
  <2>1. CASE r = k + 1
    <3>1. new.nodes[x] \in ListNode /\ DOMAIN new.nodes[x].level = 0 .. lvl - 1
      BY DEF IsInserted
    <3>2. ord2[r] = x /\ h2[r] = lvl
      BY <1>4, <2>1
    <3> QED
      BY <1>3, <3>1, <3>2
  <2>2. CASE r # k + 1
    <3>1. \E p \in 0 .. n : ord2[r] = ord[p] /\ h2[r] = h[p]
      <4>1. CASE r \in 0 .. k
        <5>1. r \in 0 .. n
          BY <1>1, <4>1
        <5> QED
          BY <1>4, <4>1, <5>1
      <4>2. CASE r \notin 0 .. k
        <5>1. r - 1 \in k + 1 .. n /\ r - 1 \in 0 .. n /\ (r - 1) + 1 = r
          BY <1>1, <2>2, <4>2
        <5> QED
          BY <1>4, <5>1
      <4> QED
        BY <4>1, <4>2
    <3>2. PICK p \in 0 .. n : ord2[r] = ord[p] /\ h2[r] = h[p]
      BY <3>1
    <3>3. new.nodes[ord[p]] \in ListNode /\ DOMAIN new.nodes[ord[p]].level = 0 .. h[p] - 1
      BY DEF IsInserted
    <3> QED
      BY <1>2, <1>3, <3>2, <3>3
  <2> QED
    BY <2>1, <2>2
<1>9. ord2[0] = HeadNode
  <2>1. 0 \in 0 .. k
    BY <1>1
  <2> QED
    BY <1>2, <1>4, <2>1
<1>10. \A r \in 0 .. n + 1 : h2[r] \in 1 .. kMaxLevel
  BY HeightsWith
<1> QED
  BY <1>1, <1>4, <1>6, <1>7, <1>8, <1>9, <1>10 DEF IsList

\* Where the nodes of the longer list were.
ArePlaced(ord, h, n, k, x, lvl, ord2, h2) ==
    /\ \A r \in 0 .. n + 1 : /\ r <= k => ord2[r] = ord[r] /\ h2[r] = h[r]
                             /\ r = k + 1 => ord2[r] = x /\ h2[r] = lvl
                             /\ r > k + 1 => ord2[r] = ord[r - 1] /\ h2[r] = h[r - 1]
    /\ \A p \in k + 1 .. n : ord2[p + 1] = ord[p] /\ h2[p + 1] = h[p]

LEMMA WithIs ==
    ASSUME NEW ord, NEW h, NEW n \in Nat, NEW k \in 0 .. n, NEW x, NEW lvl, NEW ord2, NEW h2,
           IsWith(ord, h, n, k, x, lvl, ord2, h2)
    PROVE  ArePlaced(ord, h, n, k, x, lvl, ord2, h2)
<1>1. /\ ord2[k + 1] = x /\ h2[k + 1] = lvl
      /\ \A p \in 0 .. k : ord2[p] = ord[p] /\ h2[p] = h[p]
      /\ \A p \in k + 1 .. n : ord2[p + 1] = ord[p] /\ h2[p + 1] = h[p]
  BY DEF IsWith
<1>2. ASSUME NEW r \in 0 .. n + 1, r > k + 1 PROVE ord2[r] = ord[r - 1] /\ h2[r] = h[r - 1]
  <2>1. r - 1 \in k + 1 .. n /\ (r - 1) + 1 = r
    BY <1>2
  <2> QED
    BY <1>1, <2>1
<1>3. \A r \in 0 .. n + 1 : r <= k => r \in 0 .. k
  OBVIOUS
<1> QED
  BY <1>1, <1>2, <1>3 DEF ArePlaced

\* The new node's links.
LEMMA LinkOfNew ==
    ASSUME NEW list, NEW ord, NEW h, NEW n, IsList(list, ord, h, n), IsLinked(list, ord, h, n),
           NEW m, NEW s, NEW lvl \in 1 .. kMaxLevel, NEW k \in 0 .. n, NEW x, NEW top, NEW new,
           IsInserted(list, new, ord, h, n, m, s, lvl, k, x, top), NEW ord2, NEW h2,
           IsWith(ord, h, n, k, x, lvl, ord2, h2), NEW i \in 0 .. lvl - 1
    PROVE  LinkIs(new, ord2, h2, n + 1, k + 1, i)
<1>1. n \in Nat /\ k \in Nat /\ kMaxLevel \in Nat /\ lvl \in Nat /\ i \in Nat /\ i \in 0 .. kMaxLevel - 1
      /\ (\A p \in 0 .. n : h[p] \in Nat) /\ list.level \in Nat
  <2>1. n \in Nat /\ k \in Nat /\ kMaxLevel \in Nat /\ \A p \in 0 .. n : h[p] \in 1 .. kMaxLevel /\ h[p] \in Nat
    BY HeightsWith
  <2>2. list.level \in Nat
    BY ListFacts
  <2> QED
    BY <2>1, <2>2
<1>2. PICK l : l = LastWith(h, i, k)
  OBVIOUS
<1>3. l \in 0 .. k /\ l \in 0 .. n /\ i < h[l] /\ (\A r \in l + 1 .. k : h[r] <= i)
      /\ (~(i < list.level) => l = 0)
  BY <1>1, <1>2, LastIs
<1>4. /\ Forward(new, x, i) = Forward(list, ord[l], i)
      /\ Span(new, x, i) = (IF i < list.level THEN Span(list, ord[l], i) ELSE n) - (k - l)
  BY <1>2 DEF IsInserted, LinkOfInserted
<1>5. LinkIs(list, ord, h, n, l, i)
  BY <1>1, <1>3 DEF IsLinked
<1>6. ord2[k + 1] = x
      /\ (\A r \in 0 .. n + 1 : r > k + 1 => ord2[r] = ord[r - 1] /\ h2[r] = h[r - 1])
      /\ (\A p \in k + 1 .. n : ord2[p + 1] = ord[p] /\ h2[p + 1] = h[p])
  <2>1. /\ \A r \in 0 .. n + 1 : /\ r <= k => ord2[r] = ord[r] /\ h2[r] = h[r]
                                 /\ r = k + 1 => ord2[r] = x /\ h2[r] = lvl
                                 /\ r > k + 1 => ord2[r] = ord[r - 1] /\ h2[r] = h[r - 1]
        /\ \A p \in k + 1 .. n : ord2[p + 1] = ord[p] /\ h2[p + 1] = h[p]
    <3>1. ArePlaced(ord, h, n, k, x, lvl, ord2, h2)
      BY <1>1, WithIs
    <3> QED
      BY <3>1 DEF ArePlaced
  <2>2. ord2[k + 1] = x
    BY DEF IsWith
  <2> QED
    BY <2>1, <2>2
<1>7. CASE /\ Forward(list, ord[l], i) = Nil
           /\ \A r \in l + 1 .. n : h[r] <= i
           /\ i < list.level => Span(list, ord[l], i) = n - l
  <2>1. ASSUME NEW r \in (k + 1) + 1 .. n + 1 PROVE h2[r] <= i
    <3>1. r - 1 \in l + 1 .. n /\ r \in 0 .. n + 1 /\ r > k + 1
      BY <1>1, <1>3
    <3> QED
      BY <1>6, <1>7, <3>1
  <2>2. Span(new, x, i) = (n + 1) - (k + 1)
    <3>1. CASE i < list.level
      <4>1. Span(new, x, i) = (n - l) - (k - l)
        BY <1>4, <1>7, <3>1
      <4> QED
        BY <1>1, <1>3, <4>1
    <3>2. CASE ~(i < list.level)
      <4>1. Span(new, x, i) = n - (k - 0)
        BY <1>3, <1>4, <3>2
      <4> QED
        BY <1>1, <4>1
    <3> QED
      BY <3>1, <3>2
  <2> QED
    BY <1>4, <1>6, <1>7, <2>1, <2>2 DEF LinkIs
<1>8. ASSUME NEW q \in l + 1 .. n,
             /\ Forward(list, ord[l], i) = ord[q] /\ i < h[q]
             /\ \A r \in l + 1 .. q - 1 : h[r] <= i
             /\ Span(list, ord[l], i) = q - l
      PROVE  LinkIs(new, ord2, h2, n + 1, k + 1, i)
  <2>1. q \in k + 1 .. n
    <3>1. q \in 0 .. n
      BY <1>1, <1>3
    <3>2. h[q] \in Nat
      BY <1>1, <3>1
    <3>3. ~(q \in l + 1 .. k)
      BY <1>1, <1>3, <1>8, <3>2
    <3> QED
      BY <1>1, <1>3, <3>3
  <2>2. i < list.level
    <3>1. q \in 1 .. n
      BY <1>1, <2>1
    <3>2. h[q] <= list.level /\ h[q] \in Nat
      BY <1>1, <3>1 DEF IsLinked
    <3> QED
      BY <1>1, <1>8, <3>2
  <2>3. Span(new, x, i) = (q + 1) - (k + 1)
    <3>1. Span(new, x, i) = (q - l) - (k - l)
      BY <1>4, <1>8, <2>2
    <3> QED
      BY <1>1, <1>3, <2>1, <3>1
  <2>4. ASSUME NEW r \in (k + 1) + 1 .. (q + 1) - 1 PROVE h2[r] <= i
    <3>1. r - 1 \in l + 1 .. q - 1 /\ r \in 0 .. n + 1 /\ r > k + 1
      BY <1>1, <1>3, <2>1
    <3> QED
      BY <1>6, <1>8, <3>1
  <2>5. q + 1 \in (k + 1) + 1 .. n + 1 /\ Forward(new, x, i) = ord2[q + 1] /\ i < h2[q + 1]
    <3>1. q + 1 \in (k + 1) + 1 .. n + 1
      BY <1>1, <2>1
    <3> QED
      BY <1>4, <1>6, <1>8, <2>1, <3>1
  <2> QED
    BY <1>6, <2>3, <2>4, <2>5 DEF LinkIs
<1> QED
  BY <1>5, <1>7, <1>8 DEF LinkIs

\* The links of the nodes before it.
LEMMA LinkBeforeNew ==
    ASSUME NEW list, NEW ord, NEW h, NEW n, IsList(list, ord, h, n), IsLinked(list, ord, h, n),
           NEW m, NEW s, NEW lvl \in 1 .. kMaxLevel, NEW k \in 0 .. n, NEW x, NEW top, NEW new,
           IsInserted(list, new, ord, h, n, m, s, lvl, k, x, top), NEW ord2, NEW h2,
           IsWith(ord, h, n, k, x, lvl, ord2, h2), NEW p \in 0 .. k, NEW i \in 0 .. h[p] - 1
    PROVE  LinkIs(new, ord2, h2, n + 1, p, i)
<1>1. n \in Nat /\ k \in Nat /\ kMaxLevel \in Nat /\ lvl \in Nat /\ p \in Nat /\ p \in 0 .. n
      /\ (\A r \in 0 .. n : h[r] \in Nat /\ h[r] \in 1 .. kMaxLevel) /\ list.level \in Nat
  <2>1. n \in Nat /\ k \in Nat /\ kMaxLevel \in Nat /\ \A r \in 0 .. n : h[r] \in 1 .. kMaxLevel /\ h[r] \in Nat
    BY HeightsWith
  <2>2. list.level \in Nat
    BY ListFacts
  <2> QED
    BY <2>1, <2>2
<1>2. i \in 0 .. kMaxLevel - 1 /\ i \in Nat /\ i < h[p]
  BY <1>1
<1>3. PICK l : l = LastWith(h, i, k)
  OBVIOUS
<1>4. l \in 0 .. k /\ l \in 0 .. n /\ i < h[l] /\ (\A r \in l + 1 .. k : h[r] <= i) /\ p <= l
      /\ (~(i < list.level) => l = 0)
  BY <1>2, <1>3, LastIs
<1>5. LinkIs(list, ord, h, n, p, i)
  BY <1>1, <1>2 DEF IsLinked
<1>6. /\ top \in Nat /\ lvl <= top /\ list.level <= top /\ (top = lvl \/ top = list.level) /\ new.level = top
  BY <1>1 DEF IsInserted
<1>7. IF i < top /\ p = l
      THEN IF i < lvl THEN Forward(new, ord[p], i) = x /\ Span(new, ord[p], i) = (k - p) + 1
           ELSE /\ Forward(new, ord[p], i) = Forward(list, ord[p], i)
                /\ Span(new, ord[p], i) = Span(list, ord[p], i) + 1
      ELSE /\ Forward(new, ord[p], i) = Forward(list, ord[p], i)
           /\ Span(new, ord[p], i) = Span(list, ord[p], i)
  BY <1>1, <1>3 DEF IsInserted, LinkAfterInsert
<1>8. /\ \A r \in 0 .. n + 1 : /\ r <= k => ord2[r] = ord[r] /\ h2[r] = h[r]
                               /\ r = k + 1 => ord2[r] = x /\ h2[r] = lvl
                               /\ r > k + 1 => ord2[r] = ord[r - 1] /\ h2[r] = h[r - 1]
      /\ \A r \in k + 1 .. n : ord2[r + 1] = ord[r] /\ h2[r + 1] = h[r]
  <2>1. ArePlaced(ord, h, n, k, x, lvl, ord2, h2)
    BY <1>1, WithIs
  <2> QED
    BY <2>1 DEF ArePlaced
<1>9. ord2[p] = ord[p]
  BY <1>1, <1>8
<1>10. CASE i < lvl /\ p = l
  <2>1. Forward(new, ord2[p], i) = x /\ Span(new, ord2[p], i) = (k + 1) - p
    BY <1>1, <1>6, <1>7, <1>9, <1>10
  <2>2. k + 1 \in p + 1 .. n + 1 /\ ord2[k + 1] = x /\ i < h2[k + 1]
    <3>1. k + 1 \in p + 1 .. n + 1 /\ k + 1 \in 0 .. n + 1
      BY <1>1
    <3> QED
      BY <1>8, <1>10, <3>1
  <2>3. ASSUME NEW r \in p + 1 .. (k + 1) - 1 PROVE h2[r] <= i
    <3>1. r \in l + 1 .. k /\ r \in 0 .. n + 1 /\ r <= k
      BY <1>1, <1>10
    <3> QED
      BY <1>4, <1>8, <3>1
  <2> QED
    BY <2>1, <2>2, <2>3 DEF LinkIs
<1>11. CASE ~(i < lvl) /\ p = l
  <2>1. Forward(new, ord2[p], i) = Forward(list, ord[p], i)
    BY <1>7, <1>9, <1>11
  <2>2. i < top => i < list.level /\ Span(new, ord2[p], i) = Span(list, ord[p], i) + 1
    BY <1>1, <1>2, <1>6, <1>7, <1>9, <1>11
  <2>3. ASSUME NEW r \in k + 1 .. n, \A u \in k + 1 .. r : h[u] <= i
        PROVE  \A u \in p + 1 .. r + 1 : h2[u] <= i
    <3>1. ASSUME NEW u \in p + 1 .. r + 1 PROVE h2[u] <= i
      <4>1. u \in 0 .. n + 1
        BY <1>1, <2>3
      <4>2. CASE u <= k
        <5>1. u \in l + 1 .. k
          BY <1>1, <1>11, <4>2
        <5> QED
          BY <1>4, <1>8, <4>1, <4>2, <5>1
      <4>3. CASE u = k + 1
        BY <1>1, <1>2, <1>8, <1>11, <4>1, <4>3
      <4>4. CASE u > k + 1
        <5>1. u - 1 \in k + 1 .. r
          BY <1>1, <2>3, <4>4
        <5> QED
          BY <1>8, <2>3, <4>1, <4>4, <5>1
      <4> QED
        BY <1>1, <4>1, <4>2, <4>3, <4>4
    <3> QED
      BY <3>1
  <2>4. \A u \in p + 1 .. k + 1 : h2[u] <= i
    <3>1. ASSUME NEW u \in p + 1 .. k + 1 PROVE h2[u] <= i
      <4>1. u \in 0 .. n + 1
        BY <1>1
      <4>2. CASE u <= k
        <5>1. u \in l + 1 .. k
          BY <1>1, <1>11, <4>2
        <5> QED
          BY <1>4, <1>8, <4>1, <4>2, <5>1
      <4>3. CASE u = k + 1
        BY <1>1, <1>2, <1>8, <1>11, <4>1, <4>3
      <4> QED
        BY <1>1, <4>1, <4>2, <4>3
    <3> QED
      BY <3>1
  <2>5. CASE /\ Forward(list, ord[p], i) = Nil
             /\ \A r \in p + 1 .. n : h[r] <= i
             /\ i < list.level => Span(list, ord[p], i) = n - p
    <3>1. \A u \in p + 1 .. n + 1 : h2[u] <= i
      <4>1. CASE k = n
        BY <2>4, <4>1
      <4>2. CASE k # n
        <5>1. n \in k + 1 .. n /\ \A u \in k + 1 .. n : u \in p + 1 .. n
          BY <1>1, <4>2
        <5> QED
          BY <2>3, <2>5, <5>1
      <4> QED
        BY <4>1, <4>2
    <3>2. i < top => Span(new, ord2[p], i) = (n + 1) - p
      BY <1>1, <2>2, <2>5
    <3> QED
      BY <1>6, <2>1, <2>5, <3>1, <3>2 DEF LinkIs
  <2>6. ASSUME NEW q \in p + 1 .. n,
               /\ Forward(list, ord[p], i) = ord[q] /\ i < h[q]
               /\ \A r \in p + 1 .. q - 1 : h[r] <= i
               /\ Span(list, ord[p], i) = q - p
        PROVE  LinkIs(new, ord2, h2, n + 1, p, i)
    <3>1. q \in 1 .. n /\ h[q] \in Nat
      <4>1. q \in 1 .. n /\ q \in 0 .. n
        BY <1>1
      <4> QED
        BY <1>1, <4>1
    <3>2. q \in k + 1 .. n
      <4>1. ~(q \in l + 1 .. k)
        BY <1>2, <1>4, <2>6, <3>1
      <4> QED
        BY <1>1, <1>11, <4>1
    <3>3. i < top
      <4>1. h[q] <= list.level
        BY <3>1 DEF IsLinked
      <4> QED
        BY <1>1, <1>2, <1>6, <2>6, <3>1, <4>1
    <3>4. Span(new, ord2[p], i) = (q + 1) - p
      BY <1>1, <2>2, <2>6, <3>1, <3>3
    <3>5. q + 1 \in p + 1 .. n + 1 /\ Forward(new, ord2[p], i) = ord2[q + 1] /\ i < h2[q + 1]
      <4>1. q + 1 \in p + 1 .. n + 1
        BY <1>1, <3>2
      <4> QED
        BY <1>8, <2>1, <2>6, <3>2, <4>1
    <3>6. \A u \in p + 1 .. (q + 1) - 1 : h2[u] <= i
      <4>1. CASE q = k + 1
        <5>1. (q + 1) - 1 = k + 1
          BY <1>1, <4>1
        <5> QED
          BY <2>4, <5>1
      <4>2. CASE q # k + 1
        <5>1. q - 1 \in k + 1 .. n /\ (q - 1) + 1 = (q + 1) - 1 /\ \A u \in k + 1 .. q - 1 : u \in p + 1 .. q - 1
          BY <1>1, <3>2, <4>2
        <5>2. \A u \in p + 1 .. (q - 1) + 1 : h2[u] <= i
          BY <2>3, <2>6, <5>1
        <5> QED
          BY <5>1, <5>2
      <4> QED
        BY <4>1, <4>2
    <3> QED
      BY <3>4, <3>5, <3>6 DEF LinkIs
  <2> QED
    BY <1>5, <2>5, <2>6 DEF LinkIs
<1>12. CASE p # l
  <2>1. Forward(new, ord2[p], i) = Forward(list, ord[p], i) /\ Span(new, ord2[p], i) = Span(list, ord[p], i)
    BY <1>7, <1>9, <1>12
  <2>2. l \in p + 1 .. n /\ h[l] \in Nat /\ ~(h[l] <= i)
    BY <1>1, <1>2, <1>4, <1>12
  <2>3. PICK q \in p + 1 .. n :
           /\ Forward(list, ord[p], i) = ord[q] /\ i < h[q]
           /\ \A r \in p + 1 .. q - 1 : h[r] <= i
           /\ Span(list, ord[p], i) = q - p
    BY <1>5, <2>2 DEF LinkIs
  <2>4. q \in p + 1 .. k /\ q \in 0 .. n + 1 /\ q <= k
    <3>1. ~(l \in p + 1 .. q - 1)
      BY <2>2, <2>3
    <3> QED
      BY <1>1, <1>4, <2>2, <2>3, <3>1
  <2>5. ord2[q] = ord[q] /\ h2[q] = h[q]
    BY <1>8, <2>4
  <2>6. ASSUME NEW r \in p + 1 .. q - 1 PROVE h2[r] <= i
    <3>1. r \in 0 .. n + 1 /\ r <= k
      BY <1>1, <2>4
    <3> QED
      BY <1>8, <2>3, <3>1
  <2>7. q \in p + 1 .. n + 1
    BY <1>1, <2>4
  <2> QED
    BY <2>1, <2>3, <2>5, <2>6, <2>7 DEF LinkIs
<1> QED
  BY <1>10, <1>11, <1>12

\* The links of the nodes after it.
LEMMA LinkAfterNew ==
    ASSUME NEW list, NEW ord, NEW h, NEW n, IsList(list, ord, h, n), IsLinked(list, ord, h, n),
           NEW m, NEW s, NEW lvl \in 1 .. kMaxLevel, NEW k \in 0 .. n, NEW x, NEW top, NEW new,
           IsInserted(list, new, ord, h, n, m, s, lvl, k, x, top), NEW ord2, NEW h2,
           IsWith(ord, h, n, k, x, lvl, ord2, h2), NEW p \in k + 1 .. n, NEW i \in 0 .. h[p] - 1
    PROVE  LinkIs(new, ord2, h2, n + 1, p + 1, i)
<1>1. n \in Nat /\ k \in Nat /\ kMaxLevel \in Nat /\ list.level \in Nat
      /\ (\A r \in 0 .. n : h[r] \in Nat /\ h[r] \in 1 .. kMaxLevel)
  BY HeightsWith, ListFacts
<1>2. p \in 1 .. n /\ p \in 0 .. n /\ p \in Nat
  BY <1>1
<1>3. i \in 0 .. kMaxLevel - 1 /\ i \in Nat /\ i < h[p]
  BY <1>1, <1>2
<1>4. i < list.level
  <2>1. h[p] <= list.level /\ h[p] \in Nat
    BY <1>1, <1>2 DEF IsLinked
  <2> QED
    BY <1>1, <1>3, <2>1
<1>5. p # LastWith(h, i, k)
  <2>1. PICK l : l = LastWith(h, i, k)
    OBVIOUS
  <2>2. l \in 0 .. k
    BY <1>3, <2>1, LastIs
  <2> QED
    BY <1>1, <1>2, <2>1, <2>2
<1>6. LinkIs(list, ord, h, n, p, i)
  BY <1>2 DEF IsLinked
<1>7. /\ Forward(new, ord[p], i) = Forward(list, ord[p], i)
      /\ Span(new, ord[p], i) = Span(list, ord[p], i)
  BY <1>2, <1>5 DEF IsInserted, LinkAfterInsert
<1>8. /\ \A r \in 0 .. n + 1 : r > k + 1 => ord2[r] = ord[r - 1] /\ h2[r] = h[r - 1]
      /\ \A r \in k + 1 .. n : ord2[r + 1] = ord[r] /\ h2[r + 1] = h[r]
  <2>1. /\ \A r \in 0 .. n + 1 : /\ r <= k => ord2[r] = ord[r] /\ h2[r] = h[r]
                                 /\ r = k + 1 => ord2[r] = x /\ h2[r] = lvl
                                 /\ r > k + 1 => ord2[r] = ord[r - 1] /\ h2[r] = h[r - 1]
        /\ \A r \in k + 1 .. n : ord2[r + 1] = ord[r] /\ h2[r + 1] = h[r]
    <3>1. ArePlaced(ord, h, n, k, x, lvl, ord2, h2)
      BY <1>1, WithIs
    <3> QED
      BY <3>1 DEF ArePlaced
  <2>2. ASSUME NEW r \in 0 .. n + 1, r > k + 1 PROVE ord2[r] = ord[r - 1] /\ h2[r] = h[r - 1]
    BY <2>1, <2>2
  <2> QED
    BY <2>1, <2>2
<1>9. CASE /\ Forward(list, ord[p], i) = Nil
           /\ \A r \in p + 1 .. n : h[r] <= i
           /\ i < list.level => Span(list, ord[p], i) = n - p
  <2>1. ASSUME NEW r \in (p + 1) + 1 .. n + 1 PROVE h2[r] <= i
    <3>1. r - 1 \in p + 1 .. n /\ r \in 0 .. n + 1 /\ r > k + 1
      BY <1>1, <1>2
    <3> QED
      BY <1>8, <1>9, <3>1
  <2>2. Span(new, ord2[p + 1], i) = (n + 1) - (p + 1) /\ Forward(new, ord2[p + 1], i) = Nil
    <3>1. n - p = (n + 1) - (p + 1)
      BY <1>1, <1>2
    <3> QED
      BY <1>4, <1>7, <1>8, <1>9, <3>1
  <2> QED
    BY <2>1, <2>2 DEF LinkIs
<1>10. ASSUME NEW q \in p + 1 .. n,
              /\ Forward(list, ord[p], i) = ord[q] /\ i < h[q]
              /\ \A r \in p + 1 .. q - 1 : h[r] <= i
              /\ Span(list, ord[p], i) = q - p
       PROVE  LinkIs(new, ord2, h2, n + 1, p + 1, i)
  <2>1. q \in k + 1 .. n /\ q + 1 \in (p + 1) + 1 .. n + 1 /\ q - p = (q + 1) - (p + 1)
    BY <1>1, <1>2
  <2>2. Span(new, ord2[p + 1], i) = (q + 1) - (p + 1) /\ Forward(new, ord2[p + 1], i) = ord2[q + 1] /\ i < h2[q + 1]
    BY <1>7, <1>8, <1>10, <2>1
  <2>3. ASSUME NEW r \in (p + 1) + 1 .. (q + 1) - 1 PROVE h2[r] <= i
    <3>1. r - 1 \in p + 1 .. q - 1 /\ r \in 0 .. n + 1 /\ r > k + 1
      BY <1>1, <1>2, <2>1
    <3> QED
      BY <1>8, <1>10, <3>1
  <2> QED
    BY <2>1, <2>2, <2>3 DEF LinkIs
<1> QED
  BY <1>6, <1>9, <1>10 DEF LinkIs

LEMMA InsertedIsLinked ==
    ASSUME NEW list, NEW ord, NEW h, NEW n, IsList(list, ord, h, n), IsLinked(list, ord, h, n),
           NEW m, NEW s, NEW lvl \in 1 .. kMaxLevel, NEW k \in 0 .. n, NEW x, NEW top, NEW new,
           IsInserted(list, new, ord, h, n, m, s, lvl, k, x, top), NEW ord2, NEW h2,
           IsWith(ord, h, n, k, x, lvl, ord2, h2)
    PROVE  IsLinked(new, ord2, h2, n + 1)
<1>1. n \in Nat /\ k \in Nat /\ h2[0] = kMaxLevel
  BY HeightsWith
<1>2. /\ \A r \in 0 .. n + 1 : /\ r <= k => ord2[r] = ord[r] /\ h2[r] = h[r]
                               /\ r = k + 1 => ord2[r] = x /\ h2[r] = lvl
                               /\ r > k + 1 => ord2[r] = ord[r - 1] /\ h2[r] = h[r - 1]
      /\ \A p \in k + 1 .. n : ord2[p + 1] = ord[p] /\ h2[p + 1] = h[p]
  <2>1. ArePlaced(ord, h, n, k, x, lvl, ord2, h2)
    BY <1>1, WithIs
  <2> QED
    BY <2>1 DEF ArePlaced
<1>3. ASSUME NEW r \in 0 .. n + 1, NEW i \in 0 .. h2[r] - 1 PROVE LinkIs(new, ord2, h2, n + 1, r, i)
  <2>1. CASE r = k + 1
    <3>1. i \in 0 .. lvl - 1
      BY <1>2, <2>1
    <3>2. LinkIs(new, ord2, h2, n + 1, k + 1, i)
      BY <3>1, LinkOfNew
    <3> QED
      BY <2>1, <3>2
  <2>2. CASE r <= k
    <3>1. r \in 0 .. k /\ i \in 0 .. h[r] - 1
      BY <1>1, <1>2, <2>2
    <3> QED
      BY <3>1, LinkBeforeNew
  <2>3. CASE r > k + 1
    <3>1. PICK p \in k + 1 .. n : r = p + 1
      <4>1. r - 1 \in k + 1 .. n /\ r = (r - 1) + 1
        BY <1>1, <2>3
      <4> QED
        BY <4>1
    <3>2. i \in 0 .. h[p] - 1
      BY <1>2, <3>1
    <3>3. LinkIs(new, ord2, h2, n + 1, p + 1, i)
      BY <3>2, LinkAfterNew
    <3> QED
      BY <3>1, <3>3
  <2> QED
    BY <1>1, <2>1, <2>2, <2>3
<1>4. \A p \in 0 .. n : list.nodes[ord[p]].backward = IF p <= 1 THEN Nil ELSE ord[p - 1]
  BY DEF IsLinked
<1>5. \A p \in 0 .. n : new.nodes[ord[p]].backward = IF p = k + 1 THEN x ELSE list.nodes[ord[p]].backward
  BY DEF IsInserted
<1>6. ASSUME NEW r \in 0 .. n + 1
      PROVE  new.nodes[ord2[r]].backward = IF r <= 1 THEN Nil ELSE ord2[r - 1]
  <2>1. CASE r = k + 1
    <3>1. new.nodes[ord2[r]].backward = IF k = 0 THEN Nil ELSE ord[k]
      BY <1>2, <2>1 DEF IsInserted
    <3>2. k \in 0 .. n + 1 /\ r - 1 = k /\ (r <= 1 <=> k = 0)
      BY <1>1, <2>1
    <3> QED
      BY <1>1, <1>2, <3>1, <3>2
  <2>2. CASE r <= k
    <3>1. r \in 0 .. n /\ r # k + 1 /\ ord2[r] = ord[r]
      BY <1>1, <1>2, <2>2
    <3>2. new.nodes[ord2[r]].backward = IF r <= 1 THEN Nil ELSE ord[r - 1]
      BY <1>4, <1>5, <3>1
    <3>3. ASSUME ~(r <= 1) PROVE ord2[r - 1] = ord[r - 1]
      <4>1. r - 1 \in 0 .. n + 1 /\ r - 1 <= k
        BY <1>1, <2>2, <3>3
      <4> QED
        BY <1>2, <4>1
    <3> QED
      BY <3>2, <3>3
  <2>3. CASE r > k + 1
    <3>1. PICK p \in k + 1 .. n : r = p + 1
      <4>1. r - 1 \in k + 1 .. n /\ r = (r - 1) + 1
        BY <1>1, <2>3
      <4> QED
        BY <4>1
    <3>2. p \in 0 .. n /\ p \in 0 .. n + 1 /\ ~(r <= 1) /\ r - 1 = p /\ ord2[r] = ord[p]
      BY <1>1, <1>2, <3>1
    <3>3. CASE p = k + 1
      BY <1>2, <1>5, <3>2, <3>3
    <3>4. CASE p # k + 1
      <4>1. ~(p <= 1) /\ p > k + 1
        BY <1>1, <3>1, <3>4
      <4>2. new.nodes[ord2[r]].backward = ord[p - 1]
        BY <1>4, <1>5, <3>2, <3>4, <4>1
      <4>3. ord2[p] = ord[p - 1]
        BY <1>2, <3>2, <4>1
      <4> QED
        BY <3>2, <4>2, <4>3
    <3> QED
      BY <3>3, <3>4
  <2> QED
    BY <1>1, <2>1, <2>2, <2>3
<1>7. new.tail = ord2[n + 1] /\ n + 1 # 0
  <2>1. new.tail = IF k = n THEN x ELSE list.tail
    BY DEF IsInserted
  <2>2. list.tail = IF n = 0 THEN Nil ELSE ord[n]
    BY DEF IsLinked
  <2>3. CASE k = n
    <3>1. n + 1 \in 0 .. n + 1 /\ n + 1 = k + 1
      BY <1>1, <2>3
    <3> QED
      BY <1>1, <1>2, <2>1, <2>3, <3>1
  <2>4. CASE k # n
    <3>1. n \in k + 1 .. n /\ n # 0
      BY <1>1, <2>4
    <3> QED
      BY <1>1, <1>2, <2>1, <2>2, <2>4, <3>1
  <2> QED
    BY <2>3, <2>4
<1>8. top \in 1 .. kMaxLevel /\ lvl <= top /\ list.level <= top /\ new.level = top /\ new.length = n + 1
  BY DEF IsInserted
<1>9. ASSUME NEW r \in 1 .. n + 1 PROVE h2[r] <= top
  <2>1. \A p \in 1 .. n : h[p] <= list.level /\ h[p] \in Nat
    <3>1. \A p \in 1 .. n : p \in 0 .. n
      BY <1>1
    <3> QED
      BY <3>1, ListFacts DEF IsLinked
  <2>2. kMaxLevel \in Nat /\ list.level \in Nat /\ r \in 0 .. n + 1
    BY <1>1, SkipListAssumption, ListFacts
  <2>3. CASE r = k + 1
    BY <1>2, <1>8, <2>2, <2>3
  <2>4. CASE r <= k
    <3>1. r \in 1 .. n /\ h2[r] = h[r]
      BY <1>1, <1>2, <2>2, <2>4
    <3> QED
      BY <1>8, <2>1, <2>2, <3>1
  <2>5. CASE r > k + 1
    <3>1. r - 1 \in 1 .. n /\ h2[r] = h[r - 1]
      BY <1>1, <1>2, <2>2, <2>5
    <3> QED
      BY <1>8, <2>1, <2>2, <3>1
  <2> QED
    BY <1>1, <2>3, <2>4, <2>5
<1> QED
  BY <1>1, <1>3, <1>6, <1>7, <1>8, <1>9 DEF IsLinked

\* The list is sound; a pair is in it.
IsListOf(list, ord, h, n)     == IsList(list, ord, h, n) /\ IsLinked(list, ord, h, n) /\ IsOrdered(list, ord, n)
HasPair(list, ord, n, a, b)   == \E p \in 1 .. n : list.nodes[ord[p]].member = a /\ list.nodes[ord[p]].score = b

\* The pairs of the longer list.
LEMMA PairsWith ==
    ASSUME NEW list, NEW ord, NEW h, NEW n, IsList(list, ord, h, n),
           NEW m \in Nat, NEW s \in Int, NEW lvl \in 1 .. kMaxLevel, NEW k \in 0 .. n, NEW x, NEW top, NEW new,
           IsInserted(list, new, ord, h, n, m, s, lvl, k, x, top), NEW ord2, NEW h2,
           IsWith(ord, h, n, k, x, lvl, ord2, h2)
    PROVE  \A r \in 1 .. n + 1 :
              /\ r = k + 1 => new.nodes[ord2[r]].member = m /\ new.nodes[ord2[r]].score = s
              /\ r <= k => /\ new.nodes[ord2[r]].member = list.nodes[ord[r]].member
                           /\ new.nodes[ord2[r]].score = list.nodes[ord[r]].score
              /\ r > k + 1 => /\ new.nodes[ord2[r]].member = list.nodes[ord[r - 1]].member
                              /\ new.nodes[ord2[r]].score = list.nodes[ord[r - 1]].score
<1>1. n \in Nat /\ k \in Nat /\ lvl \in Nat /\ kMaxLevel \in Nat
  BY SkipListAssumption DEF IsList
<1>2. /\ \A r \in 0 .. n + 1 : /\ r <= k => ord2[r] = ord[r] /\ h2[r] = h[r]
                               /\ r = k + 1 => ord2[r] = x /\ h2[r] = lvl
                               /\ r > k + 1 => ord2[r] = ord[r - 1] /\ h2[r] = h[r - 1]
      /\ \A p \in k + 1 .. n : ord2[p + 1] = ord[p] /\ h2[p + 1] = h[p]
  <2>1. ASSUME NEW r \in 0 .. n + 1
        PROVE  /\ r <= k => ord2[r] = ord[r] /\ h2[r] = h[r]
               /\ r = k + 1 => ord2[r] = x /\ h2[r] = lvl
               /\ r > k + 1 => ord2[r] = ord[r - 1] /\ h2[r] = h[r - 1]
    <3>1. ArePlaced(ord, h, n, k, x, lvl, ord2, h2)
      BY <1>1, WithIs
    <3> QED
      BY <3>1 DEF ArePlaced
  <2>2. \A p \in k + 1 .. n : ord2[p + 1] = ord[p] /\ h2[p + 1] = h[p]
    BY DEF IsWith
  <2> QED
    BY <2>1, <2>2
<1>3. /\ new.nodes[x].member = m /\ new.nodes[x].score = s
      /\ \A p \in 0 .. n : /\ new.nodes[ord[p]].member = list.nodes[ord[p]].member
                           /\ new.nodes[ord[p]].score = list.nodes[ord[p]].score
  BY DEF IsInserted
<1>4. \A r \in 1 .. n + 1 : (r <= k => r \in 0 .. n) /\ (r > k + 1 => r - 1 \in 0 .. n) /\ r \in 0 .. n + 1
  BY <1>1
<1> QED
  BY <1>1, <1>2, <1>3, <1>4

LEMMA ListInsertIs ==
    ASSUME NEW list, NEW ord, NEW h, NEW n, IsListOf(list, ord, h, n),
           NEW m \in Nat, NEW s \in Int, NEW lvl \in 1 .. kMaxLevel, ~HasPair(list, ord, n, m, s),
           NEW new, new = ListInsert(list, m, s, lvl)
    PROVE  \E ord2, h2 :
              /\ IsListOf(new, ord2, h2, n + 1)
              /\ \A a, b : HasPair(new, ord2, n + 1, a, b) <=> HasPair(list, ord, n, a, b) \/ (a = m /\ b = s)
<1>1. IsList(list, ord, h, n) /\ IsLinked(list, ord, h, n) /\ IsOrdered(list, ord, n) /\ n \in Nat
  BY DEF IsListOf, IsList
<1> DEFINE Member(p) == list.nodes[ord[p]].member
           Score(p)  == list.nodes[ord[p]].score
<1>2. PICK k \in 0 .. n :
         /\ Before(list, m, s) = FirstNodes(ord, k)
         /\ \A p \in 1 .. n : p <= k <=> IsBefore(Score(p), Member(p), s, m)
  BY <1>1, BeforeIs
<1>3. PICK x : x = FreshNode(list)
  OBVIOUS
<1>4. PICK top : IsInserted(list, new, ord, h, n, m, s, lvl, k, x, top)
  BY <1>1, <1>2, <1>3, WhatInsertDoes
<1>5. PICK ord2, h2 : IsWith(ord, h, n, k, x, lvl, ord2, h2)
  BY <1>1, OrderWith, ZenonT(30)
<1>6. IsList(new, ord2, h2, n + 1)
  BY <1>1, <1>4, <1>5, InsertedIsList
<1>7. IsLinked(new, ord2, h2, n + 1)
  BY <1>1, <1>4, <1>5, InsertedIsLinked
<1> DEFINE Member2(r) == new.nodes[ord2[r]].member
           Score2(r)  == new.nodes[ord2[r]].score
<1>8. \A r \in 1 .. n + 1 : /\ r = k + 1 => Member2(r) = m /\ Score2(r) = s
                            /\ r <= k => Member2(r) = Member(r) /\ Score2(r) = Score(r)
                            /\ r > k + 1 => Member2(r) = Member(r - 1) /\ Score2(r) = Score(r - 1)
  <2>1. ASSUME NEW r \in 1 .. n + 1
        PROVE
           /\ r = k + 1 => new.nodes[ord2[r]].member = m /\ new.nodes[ord2[r]].score = s
           /\ r <= k => /\ new.nodes[ord2[r]].member = list.nodes[ord[r]].member
                        /\ new.nodes[ord2[r]].score = list.nodes[ord[r]].score
           /\ r > k + 1 => /\ new.nodes[ord2[r]].member = list.nodes[ord[r - 1]].member
                           /\ new.nodes[ord2[r]].score = list.nodes[ord[r - 1]].score
    <3>1. k \in 0 .. n
      BY <1>2
    <3> HIDE DEF Member, Score, Member2, Score2
    <3> QED
      BY <1>1, <1>4, <1>5, <3>1, PairsWith
  <2> QED
    BY <2>1
<1>9. \A p \in 1 .. n : Member(p) \in Nat /\ Score(p) \in Int /\ ~(Member(p) = m /\ Score(p) = s)
  <2>1. \A p \in 1 .. n : p \in 0 .. n
    BY <1>1
  <2>2. \A p \in 0 .. n : Member(p) \in Nat /\ Score(p) \in Int
    BY <1>1, PairsAre
  <2> QED
    BY <2>1, <2>2 DEF HasPair
<1>10. \A p, q \in 1 .. n : p < q => IsBefore(Score(p), Member(p), Score(q), Member(q))
  BY <1>1 DEF IsOrdered, IsBefore
<1> HIDE DEF Member, Score, Member2, Score2
<1>11. ASSUME NEW r \in 1 .. n + 1, NEW t \in 1 .. n + 1, r < t
       PROVE  IsBefore(Score2(r), Member2(r), Score2(t), Member2(t))
  <2>1. CASE t <= k
    <3>1. r <= k /\ r \in 1 .. n /\ t \in 1 .. n
      BY <1>1, <1>11, <2>1
    <3> QED
      BY <1>8, <1>10, <1>11, <2>1, <3>1
  <2>2. CASE t = k + 1
    <3>1. r <= k /\ r \in 1 .. n
      BY <1>1, <1>11, <2>2
    <3> QED
      BY <1>2, <1>8, <2>2, <3>1
  <2>3. CASE t > k + 1 /\ r <= k
    <3>1. r \in 1 .. n /\ t - 1 \in 1 .. n /\ r < t - 1
      BY <1>1, <2>3
    <3> QED
      BY <1>8, <1>10, <2>3, <3>1
  <2>4. CASE t > k + 1 /\ r = k + 1
    <3>1. t - 1 \in 1 .. n /\ ~(t - 1 <= k)
      BY <1>1, <2>4
    <3>2. Member2(r) = m /\ Score2(r) = s /\ Member2(t) = Member(t - 1) /\ Score2(t) = Score(t - 1)
      BY <1>8, <2>4
    <3>3. ~IsBefore(Score(t - 1), Member(t - 1), s, m)
      BY <1>2, <3>1
    <3>4. IsBefore(s, m, Score(t - 1), Member(t - 1))
      BY <1>9, <3>1, <3>3 DEF IsBefore
    <3> QED
      BY <3>2, <3>4
  <2>5. CASE t > k + 1 /\ r > k + 1
    <3>1. r - 1 \in 1 .. n /\ t - 1 \in 1 .. n /\ r - 1 < t - 1
      BY <1>1, <1>11, <2>5
    <3> QED
      BY <1>8, <1>10, <2>5, <3>1
  <2> QED
    BY <1>1, <2>1, <2>2, <2>3, <2>4, <2>5
<1>12. IsOrdered(new, ord2, n + 1)
  BY <1>11 DEF IsOrdered, IsBefore, Member2, Score2
<1>13. ASSUME NEW a, NEW b
       PROVE  HasPair(new, ord2, n + 1, a, b) <=> HasPair(list, ord, n, a, b) \/ (a = m /\ b = s)
  <2>1. ASSUME NEW r \in 1 .. n + 1, Member2(r) = a, Score2(r) = b
        PROVE  (\E p \in 1 .. n : Member(p) = a /\ Score(p) = b) \/ (a = m /\ b = s)
    <3>1. CASE r = k + 1
      BY <1>8, <2>1, <3>1
    <3>2. CASE r <= k
      <4>1. r \in 1 .. n
        BY <1>1, <3>2
      <4> QED
        BY <1>8, <2>1, <3>2, <4>1
    <3>3. CASE r > k + 1
      <4>1. r - 1 \in 1 .. n
        BY <1>1, <3>3
      <4> QED
        BY <1>8, <2>1, <3>3, <4>1
    <3> QED
      BY <1>1, <3>1, <3>2, <3>3
  <2>2. ASSUME a = m, b = s PROVE \E r \in 1 .. n + 1 : Member2(r) = a /\ Score2(r) = b
    <3>1. k + 1 \in 1 .. n + 1
      BY <1>1
    <3> QED
      BY <1>8, <2>2, <3>1
  <2>3. ASSUME NEW p \in 1 .. n, Member(p) = a, Score(p) = b
        PROVE  \E r \in 1 .. n + 1 : Member2(r) = a /\ Score2(r) = b
    <3>1. CASE p <= k
      <4>1. p \in 1 .. n + 1
        BY <1>1
      <4> QED
        BY <1>8, <2>3, <3>1, <4>1
    <3>2. CASE ~(p <= k)
      <4>1. p + 1 \in 1 .. n + 1 /\ p + 1 > k + 1 /\ (p + 1) - 1 = p
        BY <1>1, <3>2
      <4> QED
        BY <1>8, <2>3, <4>1
    <3> QED
      BY <3>1, <3>2
  <2> QED
    BY <2>1, <2>2, <2>3 DEF HasPair, Member, Score, Member2, Score2
<1>14. IsListOf(new, ord2, h2, n + 1)
  BY <1>6, <1>7, <1>12 DEF IsListOf
<1> QED
  BY <1>13, <1>14

-----------------------------------------------------------------------------
(* What remove_node() does.                                                *)

\* What it leaves of one link: one that led to the node after the first k, and
\* one that passed over it.
LinkAfterRemove(list, new, ord, h, k, p, i) ==
    IF i < list.level /\ p = LastWith(h, i, k)
    THEN IF Forward(list, ord[p], i) = ord[k + 1]
         THEN /\ Forward(new, ord[p], i) = Forward(list, ord[k + 1], i)
              /\ Span(new, ord[p], i) = (Span(list, ord[p], i) + Span(list, ord[k + 1], i)) - 1
         ELSE /\ Forward(new, ord[p], i) = Forward(list, ord[p], i)
              /\ Span(new, ord[p], i) = Span(list, ord[p], i) - 1
    ELSE /\ Forward(new, ord[p], i) = Forward(list, ord[p], i)
         /\ Span(new, ord[p], i) = Span(list, ord[p], i)

IsRemoved(list, new, ord, h, n, k) ==
    /\ new.length = n - 1
    /\ new.tail = IF k + 1 = n THEN list.nodes[ord[k + 1]].backward ELSE list.tail
    /\ DOMAIN new.nodes = DOMAIN list.nodes \ {ord[k + 1]}
    /\ new.level = Max({1} \cup {i + 1 : i \in {j \in 0 .. list.level - 1 : Forward(new, HeadNode, j) # Nil}})
    /\ \A p \in 0 .. n : p # k + 1 =>
          /\ new.nodes[ord[p]] \in ListNode
          /\ DOMAIN new.nodes[ord[p]].level = 0 .. h[p] - 1
          /\ new.nodes[ord[p]].member = list.nodes[ord[p]].member
          /\ new.nodes[ord[p]].score = list.nodes[ord[p]].score
          /\ new.nodes[ord[p]].backward = IF p = k + 2 THEN list.nodes[ord[k + 1]].backward
                                          ELSE list.nodes[ord[p]].backward
          /\ \A i \in 0 .. h[p] - 1 : LinkAfterRemove(list, new, ord, h, k, p, i)

\* A link that leads to a node is on a level of the node.
LEMMA LinkLeadsTo ==
    ASSUME NEW list, NEW ord, NEW h, NEW n, IsList(list, ord, h, n), IsLinked(list, ord, h, n),
           NEW p \in 0 .. n, NEW i \in 0 .. h[p] - 1, NEW q \in 0 .. n, Forward(list, ord[p], i) = ord[q]
    PROVE  q \in p + 1 .. n /\ i \in 0 .. h[q] - 1 /\ Span(list, ord[p], i) = q - p
<1>1. n \in Nat /\ h[p] \in Nat /\ i \in Nat /\ ord[q] # Nil /\ \A r \in 0 .. n : h[r] \in Nat
  BY ListFacts
<1>2. LinkIs(list, ord, h, n, p, i)
  BY DEF IsLinked
<1>3. PICK r \in p + 1 .. n : ord[q] = ord[r] /\ i < h[r] /\ Span(list, ord[p], i) = r - p
  BY <1>1, <1>2 DEF LinkIs
<1>4. r \in 0 .. n
  BY <1>1
<1>5. q = r
  BY <1>3, <1>4 DEF IsList
<1>6. h[r] \in Nat
  BY <1>1, <1>4
<1> QED
  BY <1>1, <1>3, <1>5, <1>6

LEMMA WhatRemoveDoes ==
    ASSUME NEW list, NEW ord, NEW h, NEW n, IsList(list, ord, h, n), IsLinked(list, ord, h, n),
           NEW k \in 0 .. n - 1, NEW prev,
           \A i \in 0 .. list.level - 1 : prev[i] = ord[LastWith(h, i, k)],
           NEW x, x = ord[k + 1], NEW new, new = RemoveNode(list, x, prev)
    PROVE  IsRemoved(list, new, ord, h, n, k)
<1> DEFINE node == list.nodes[x]
           next == node.level[0].forward
           link(a, i) ==
             IF i \notin 0 .. list.level - 1 \/ prev[i] # a THEN list.nodes[a].level[i]
             ELSE IF Forward(list, a, i) = x
                  THEN [forward |-> node.level[i].forward,
                        span    |-> Span(list, a, i) + node.level[i].span - 1]
             ELSE ShorterLink(list.nodes[a].level[i])
           nodes == [a \in DOMAIN list.nodes \ {x} |->
                       [list.nodes[a] EXCEPT !.level    = [i \in DOMAIN list.nodes[a].level |-> link(a, i)],
                                             !.backward = IF a = next THEN node.backward
                                                          ELSE list.nodes[a].backward]]
           top == Max({1} \cup {i + 1 : i \in {j \in 0 .. list.level - 1 :
                                                nodes[HeadNode].level[j].forward # Nil}})
<1>1. new = [nodes  |-> nodes,
             tail   |-> IF next = Nil THEN node.backward ELSE list.tail,
             length |-> list.length - 1,
             level  |-> top]
  BY ZenonT(30) DEF RemoveNode
<1> HIDE DEF nodes, top, link
<1>2. n \in Nat /\ k \in Nat /\ kMaxLevel \in Nat /\ list.level \in 1 .. kMaxLevel /\ list.length = n
      /\ k \in 0 .. n /\ k + 1 \in 0 .. n
  <2>1. n \in Nat
    BY DEF IsList
  <2> QED
    BY <2>1, SkipListAssumption DEF IsLinked
<1>3. \A p \in 0 .. n : /\ ord[p] \in Nat /\ ord[p] # Nil /\ ord[p] \in DOMAIN list.nodes
                        /\ (ord[p] = HeadNode <=> p = 0)
                        /\ \A q \in 0 .. n : ord[p] = ord[q] => p = q
                        /\ list.nodes[ord[p]] \in ListNode /\ h[p] \in 1 .. kMaxLevel
                        /\ DOMAIN list.nodes[ord[p]].level = 0 .. h[p] - 1
  <2>1. ord[0] = HeadNode /\ \A p, q \in 0 .. n : ord[p] = ord[q] => p = q
    BY DEF IsList
  <2>2. \A p \in 0 .. n : ord[p] = HeadNode <=> p = 0
    BY <1>2, <2>1
  <2>3. \A p \in 0 .. n : ord[p] # Nil
    BY ListFacts
  <2>4. \A p \in 0 .. n : /\ ord[p] \in Nat /\ ord[p] \in DOMAIN list.nodes
                          /\ list.nodes[ord[p]] \in ListNode /\ h[p] \in 1 .. kMaxLevel
                          /\ DOMAIN list.nodes[ord[p]].level = 0 .. h[p] - 1
    BY DEF IsList
  <2> QED
    BY <2>1, <2>2, <2>3, <2>4
<1>4. next = (IF k + 1 = n THEN Nil ELSE ord[k + 2]) /\ (\A i : node.level[i].forward = Forward(list, x, i))
      /\ (\A i : node.level[i].span = Span(list, x, i))
  <2>1. Forward(list, x, 0) = IF k + 1 = n THEN Nil ELSE ord[(k + 1) + 1]
    BY <1>2, NextOnFloor
  <2>2. (k + 1) + 1 = k + 2
    BY <1>2
  <2> QED
    BY <2>1, <2>2 DEF Forward, Span
<1>5. ASSUME NEW p \in 0 .. n PROVE ord[p] = next <=> p = k + 2
  <2>1. CASE k + 1 = n
    BY <1>2, <1>3, <1>4, <2>1
  <2>2. CASE k + 1 # n
    <3>1. k + 2 \in 0 .. n
      BY <1>2, <2>2
    <3> QED
      BY <1>3, <1>4, <2>2, <3>1
  <2> QED
    BY <2>1, <2>2
<1>6. next = Nil <=> k + 1 = n
  <2>1. k + 1 # n => k + 2 \in 0 .. n
    BY <1>2
  <2> QED
    BY <1>3, <1>4, <2>1
<1>7. ASSUME NEW i \in 0 .. list.level - 1, NEW l, l = LastWith(h, i, k)
      PROVE  l \in 0 .. n /\ prev[i] = ord[l]
  <2>1. i \in 0 .. kMaxLevel - 1
    BY <1>2
  <2> QED
    BY <1>2, <1>7, <2>1, LastIs
<1>8. ASSUME NEW p \in 0 .. n, NEW i \in 0 .. h[p] - 1
      PROVE  /\ link(ord[p], i) \in ListLink
             /\ IF i < list.level /\ p = LastWith(h, i, k)
                THEN IF Forward(list, ord[p], i) = x
                     THEN /\ link(ord[p], i).forward = Forward(list, x, i)
                          /\ link(ord[p], i).span = (Span(list, ord[p], i) + Span(list, x, i)) - 1
                     ELSE /\ link(ord[p], i).forward = Forward(list, ord[p], i)
                          /\ link(ord[p], i).span = Span(list, ord[p], i) - 1
                ELSE /\ link(ord[p], i).forward = Forward(list, ord[p], i)
                     /\ link(ord[p], i).span = Span(list, ord[p], i)
  <2>1. PICK l : l = LastWith(h, i, k)
    OBVIOUS
  <2>2. i \in 0 .. list.level - 1 <=> i < list.level
    BY <1>2, <1>3
  <2>3. i < list.level => (prev[i] = ord[p] <=> p = l)
    BY <1>3, <1>7, <2>1, <2>2
  <2>4. PICK old : old = list.nodes[ord[p]].level[i]
    OBVIOUS
  <2>5. old \in ListLink /\ old.forward = Forward(list, ord[p], i) /\ old.span = Span(list, ord[p], i)
    BY <2>4, LinkRecord DEF Forward, Span
  <2>6. CASE ~(i < list.level /\ p = l)
    <3>1. link(ord[p], i) = old
      BY <2>2, <2>3, <2>4, <2>6 DEF link
    <3> QED
      BY <2>1, <2>5, <2>6, <3>1
  <2>7. CASE i < list.level /\ p = l /\ Forward(list, ord[p], i) = x
    <3>1. i \in 0 .. h[k + 1] - 1
      BY <1>2, <2>7, LinkLeadsTo
    <3>2. Forward(list, x, i) \in Int /\ Span(list, x, i) \in Int
      BY <1>2, <3>1, LinkRecord
    <3>3. Span(list, ord[p], i) \in Int
      BY LinkRecord
    <3>4. PICK b \in Int : b = (Span(list, ord[p], i) + Span(list, x, i)) - 1
      BY <3>2, <3>3
    <3>5. link(ord[p], i) = [forward |-> Forward(list, x, i), span |-> b]
      <4>1. link(ord[p], i) = [forward |-> node.level[i].forward,
                               span    |-> Span(list, ord[p], i) + node.level[i].span - 1]
        BY <2>2, <2>3, <2>7 DEF link
      <4>2. node.level[i].forward = Forward(list, x, i) /\ node.level[i].span = Span(list, x, i)
        BY <1>4
      <4> HIDE DEF node
      <4>3. Span(list, ord[p], i) + node.level[i].span - 1 = b
        BY <3>2, <3>3, <3>4, <4>2
      <4> QED
        BY <4>1, <4>2, <4>3
    <3> QED
      BY <2>1, <2>7, <3>2, <3>4, <3>5 DEF ListLink
  <2>8. CASE i < list.level /\ p = l /\ ~(Forward(list, ord[p], i) = x)
    <3>1. link(ord[p], i) = ShorterLink(old)
      BY <2>2, <2>3, <2>4, <2>8 DEF link
    <3>2. ShorterLink(old) \in ListLink /\ ShorterLink(old).forward = old.forward /\ ShorterLink(old).span = old.span - 1
      BY <2>5 DEF ShorterLink, ListLink
    <3> QED
      BY <2>1, <2>5, <2>8, <3>1, <3>2
  <2> QED
    BY <2>6, <2>7, <2>8
<1>9. ASSUME NEW p \in 0 .. n, p # k + 1
      PROVE  /\ nodes[ord[p]] \in ListNode
             /\ DOMAIN nodes[ord[p]].level = 0 .. h[p] - 1
             /\ nodes[ord[p]].member = list.nodes[ord[p]].member
             /\ nodes[ord[p]].score = list.nodes[ord[p]].score
             /\ nodes[ord[p]].backward = IF p = k + 2 THEN node.backward ELSE list.nodes[ord[p]].backward
             /\ \A i \in 0 .. h[p] - 1 : nodes[ord[p]].level[i] = link(ord[p], i)
  <2>1. PICK a : a = ord[p]
    OBVIOUS
  <2>2. PICK old : old = list.nodes[a]
    OBVIOUS
  <2>3. old \in ListNode /\ DOMAIN old.level = 0 .. h[p] - 1 /\ a # x /\ a \in DOMAIN list.nodes
    BY <1>2, <1>3, <1>9, <2>1, <2>2
  <2>4. PICK lv : lv = [i \in 0 .. h[p] - 1 |-> link(a, i)]
    OBVIOUS
  <2>5. lv = [i \in 0 .. h[p] - 1 |-> lv[i]] /\ \A i \in 0 .. h[p] - 1 : lv[i] = link(a, i)
    BY <2>4
  <2>6. lv \in Towers
    <3>1. \A i \in 0 .. h[p] - 1 : lv[i] \in ListLink
      BY <1>8, <2>1, <2>5
    <3> QED
      BY <1>3, <2>5, <3>1, TowerIs
  <2>7. PICK b : b = IF a = next THEN node.backward ELSE old.backward
    OBVIOUS
  <2>8. b \in Int
    <3>1. node \in ListNode
      BY <1>2, <1>3
    <3>2. \A e \in ListNode : e.backward \in Int
      BY SMTT(20) DEF ListNode
    <3> QED
      BY <2>3, <2>7, <3>1, <3>2
  <2>9. nodes[a] = [old EXCEPT !.level = lv, !.backward = b]
    BY <2>2, <2>3, <2>4, <2>7 DEF nodes
  <2>10. nodes[a] \in ListNode /\ nodes[a].member = old.member /\ nodes[a].score = old.score
         /\ nodes[a].backward = b /\ nodes[a].level = lv
    BY <2>3, <2>6, <2>8, <2>9 DEF ListNode
  <2>11. b = IF p = k + 2 THEN node.backward ELSE old.backward
    BY <1>5, <2>1, <2>7
  <2>12. DOMAIN lv = 0 .. h[p] - 1
    BY <2>5
  <2> QED
    BY <2>1, <2>2, <2>5, <2>10, <2>11, <2>12
<1>10. new.nodes = nodes /\ new.level = top /\ new.length = n - 1
       /\ new.tail = IF k + 1 = n THEN node.backward ELSE list.tail
  BY <1>1, <1>2, <1>6
<1>11. ASSUME NEW p \in 0 .. n, p # k + 1, NEW i \in 0 .. h[p] - 1
       PROVE  LinkAfterRemove(list, new, ord, h, k, p, i)
  <2>1. Forward(new, ord[p], i) = link(ord[p], i).forward /\ Span(new, ord[p], i) = link(ord[p], i).span
    BY <1>9, <1>10, <1>11 DEF Forward, Span
  <2> QED
    BY <1>8, <2>1 DEF LinkAfterRemove
<1>12. DOMAIN nodes = DOMAIN list.nodes \ {x}
  BY DEF nodes
<1>13. top = Max({1} \cup {i + 1 : i \in {j \in 0 .. list.level - 1 : Forward(new, HeadNode, j) # Nil}})
  BY <1>10 DEF top, Forward
<1> HIDE DEF node, next
<1>14. node = list.nodes[ord[k + 1]]
  BY DEF node
<1> QED
  BY <1>9, <1>10, <1>11, <1>12, <1>13, <1>14, SMTT(30) DEF IsRemoved

-----------------------------------------------------------------------------
(* The list after remove_node().  Of two orders, the one of the list is    *)
(* the longer.                                                             *)

IsSequence(ord, n) == ord = [r \in 0 .. n |-> ord[r]]

LEMMA OrderWithout ==
    ASSUME NEW n \in Nat, NEW k \in 0 .. n, NEW ord, NEW h, IsSequence(ord, n + 1)
    PROVE  \E ord2, h2 : /\ IsWith(ord2, h2, n, k, ord[k + 1], h[k + 1], ord, h)
                         /\ IsSequence(ord2, n)
<1> DEFINE Without(f) == [r \in 0 .. n |-> IF r <= k THEN f[r] ELSE f[r + 1]]
<1>1. ASSUME NEW f
      PROVE  /\ Without(f) = [r \in 0 .. n |-> Without(f)[r]]
             /\ \A p \in 0 .. k : f[p] = Without(f)[p]
             /\ \A p \in k + 1 .. n : f[p + 1] = Without(f)[p]
  <2>1. \A p \in 0 .. k : p \in 0 .. n /\ p <= k
    OBVIOUS
  <2>2. \A p \in k + 1 .. n : p \in 0 .. n /\ ~(p <= k)
    OBVIOUS
  <2> QED
    BY <2>1, <2>2
<1> HIDE DEF Without
<1>2. IsWith(Without(ord), Without(h), n, k, ord[k + 1], h[k + 1], ord, h)
  BY <1>1 DEF IsWith, IsSequence
<1> QED
  BY <1>1, <1>2 DEF IsSequence

\* Where the nodes of the list are in the shorter order.
AreShifted(ord, h, ord2, h2, n, k) ==
    /\ \A r \in 0 .. n : /\ r <= k => ord2[r] = ord[r] /\ h2[r] = h[r]
                         /\ r > k => ord2[r] = ord[r + 1] /\ h2[r] = h[r + 1]
    /\ \A r \in 0 .. n + 1 : r > k + 1 => ord2[r - 1] = ord[r] /\ h2[r - 1] = h[r]

LEMMA WithoutIs ==
    ASSUME NEW list, NEW n \in Nat, NEW k \in 0 .. n, NEW ord, NEW h,
           IsList(list, ord, h, n + 1), IsLinked(list, ord, h, n + 1), NEW x, NEW lvl, NEW ord2, NEW h2,
           IsWith(ord2, h2, n, k, x, lvl, ord, h)
    PROVE  /\ kMaxLevel \in Nat /\ list.level \in Nat /\ list.level <= kMaxLevel /\ h2[0] = kMaxLevel
           /\ \A r \in 0 .. n + 1 : h[r] \in Nat /\ h[r] \in 1 .. kMaxLevel
           /\ \A r \in 1 .. n + 1 : h[r] <= list.level
           /\ \A r \in 0 .. n : h2[r] \in Nat /\ h2[r] \in 1 .. kMaxLevel
           /\ \A r \in 1 .. n : h2[r] <= list.level
           /\ AreShifted(ord, h, ord2, h2, n, k)
<1>1. kMaxLevel \in Nat /\ list.level \in Nat /\ list.level <= kMaxLevel
  BY SkipListAssumption, ListFacts
<1>2. ASSUME NEW r \in 0 .. n + 1 PROVE h[r] \in Nat /\ h[r] \in 1 .. kMaxLevel
  <2>1. h[r] \in 1 .. kMaxLevel
    BY DEF IsList
  <2> QED
    BY <1>1, <2>1
<1>3. \A r \in 1 .. n + 1 : h[r] <= list.level
  BY DEF IsLinked
<1>4. /\ \A p \in 0 .. k : ord[p] = ord2[p] /\ h[p] = h2[p]
      /\ \A p \in k + 1 .. n : ord[p + 1] = ord2[p] /\ h[p + 1] = h2[p]
  BY DEF IsWith
<1>5. ASSUME NEW r \in 0 .. n
      PROVE  /\ h2[r] \in Nat /\ h2[r] \in 1 .. kMaxLevel
             /\ r <= k => ord2[r] = ord[r] /\ h2[r] = h[r]
             /\ r > k => ord2[r] = ord[r + 1] /\ h2[r] = h[r + 1]
  <2>1. CASE r <= k
    <3>1. r \in 0 .. k /\ r \in 0 .. n + 1 /\ ~(r > k)
      BY <2>1
    <3> QED
      BY <1>2, <1>4, <3>1
  <2>2. CASE r > k
    <3>1. r \in k + 1 .. n /\ r + 1 \in 0 .. n + 1 /\ ~(r <= k)
      BY <2>2
    <3> QED
      BY <1>2, <1>4, <3>1
  <2> QED
    BY <2>1, <2>2
<1>6. ASSUME NEW r \in 1 .. n PROVE h2[r] <= list.level
  <2>1. r \in 0 .. n /\ r \in 1 .. n + 1 /\ r + 1 \in 1 .. n + 1
    OBVIOUS
  <2> QED
    BY <1>3, <1>5, <2>1
<1>7. ASSUME NEW r \in 0 .. n + 1, r > k + 1 PROVE ord2[r - 1] = ord[r] /\ h2[r - 1] = h[r]
  <2>1. r - 1 \in k + 1 .. n /\ (r - 1) + 1 = r
    BY <1>7
  <2> QED
    BY <1>4, <2>1
<1>8. h2[0] = kMaxLevel
  <2>1. 0 \in 0 .. k
    OBVIOUS
  <2> QED
    BY <1>4, <2>1 DEF IsLinked
<1> QED
  BY <1>1, <1>2, <1>3, <1>5, <1>6, <1>7, <1>8 DEF AreShifted

LEMMA RemovedIsList ==
    ASSUME NEW list, NEW n \in Nat, NEW k \in 0 .. n, NEW ord, NEW h,
           IsList(list, ord, h, n + 1), IsLinked(list, ord, h, n + 1), NEW new,
           IsRemoved(list, new, ord, h, n + 1, k), NEW ord2, NEW h2,
           IsWith(ord2, h2, n, k, ord[k + 1], h[k + 1], ord, h), IsSequence(ord2, n)
    PROVE  IsList(new, ord2, h2, n)
<1>1. /\ \A r \in 0 .. n : /\ h2[r] \in 1 .. kMaxLevel
                           /\ r <= k => ord2[r] = ord[r] /\ h2[r] = h[r]
                           /\ r > k => ord2[r] = ord[r + 1] /\ h2[r] = h[r + 1]
      /\ \A r \in 0 .. n + 1 : r > k + 1 => ord2[r - 1] = ord[r]
  <2>1. AreShifted(ord, h, ord2, h2, n, k)
    BY WithoutIs
  <2>2. \A r \in 0 .. n : h2[r] \in 1 .. kMaxLevel
    BY WithoutIs
  <2>3. \A r \in 1 .. n : h2[r] <= list.level
    BY WithoutIs
  <2> QED
    BY <2>1, <2>2, <2>3 DEF AreShifted
<1>2. /\ ord[0] = HeadNode
      /\ \A p \in 0 .. n + 1 : /\ ord[p] \in Nat /\ ord[p] \in DOMAIN list.nodes
                               /\ \A q \in 0 .. n + 1 : ord[p] = ord[q] => p = q
      /\ \A x \in DOMAIN list.nodes : \E p \in 0 .. n + 1 : x = ord[p]
  BY DEF IsList
<1>3. DOMAIN new.nodes = DOMAIN list.nodes \ {ord[k + 1]}
  BY DEF IsRemoved
<1>4. ASSUME NEW r \in 0 .. n
      PROVE  \E p \in 0 .. n + 1 : /\ p # k + 1 /\ ord2[r] = ord[p] /\ h2[r] = h[p]
                                   /\ p = IF r <= k THEN r ELSE r + 1
  <2>1. CASE r <= k
    <3>1. r \in 0 .. n + 1 /\ r # k + 1
      BY <2>1
    <3> QED
      BY <1>1, <2>1, <3>1
  <2>2. CASE ~(r <= k)
    <3>1. r + 1 \in 0 .. n + 1 /\ r + 1 # k + 1 /\ r > k
      BY <2>2
    <3> QED
      BY <1>1, <2>2, <3>1
  <2> QED
    BY <2>1, <2>2
<1>5. ASSUME NEW r \in 0 .. n, NEW t \in 0 .. n, ord2[r] = ord2[t] PROVE r = t
  <2>1. PICK p \in 0 .. n + 1 : ord2[r] = ord[p] /\ p = IF r <= k THEN r ELSE r + 1
    BY <1>4
  <2>2. PICK q \in 0 .. n + 1 : ord2[t] = ord[q] /\ q = IF t <= k THEN t ELSE t + 1
    BY <1>4
  <2>3. p = q
    BY <1>2, <1>5, <2>1, <2>2
  <2> QED
    BY <2>1, <2>2, <2>3
<1>6. ASSUME NEW a \in DOMAIN new.nodes PROVE \E r \in 0 .. n : a = ord2[r]
  <2>1. PICK p \in 0 .. n + 1 : a = ord[p]
    BY <1>2, <1>3
  <2>2. p # k + 1
    BY <1>3, <2>1
  <2>3. CASE p <= k
    <3>1. p \in 0 .. n
      BY <2>3
    <3> QED
      BY <1>1, <2>1, <2>3, <3>1
  <2>4. CASE p > k + 1
    <3>1. p - 1 \in 0 .. n
      BY <2>4
    <3> QED
      BY <1>1, <2>1, <2>4, <3>1
  <2> QED
    BY <2>2, <2>3, <2>4
<1>7. ASSUME NEW r \in 0 .. n
      PROVE  /\ ord2[r] \in Nat /\ ord2[r] \in DOMAIN new.nodes
             /\ new.nodes[ord2[r]] \in ListNode
             /\ h2[r] \in 1 .. kMaxLevel
             /\ DOMAIN new.nodes[ord2[r]].level = 0 .. h2[r] - 1
  <2>1. PICK p \in 0 .. n + 1 : p # k + 1 /\ ord2[r] = ord[p] /\ h2[r] = h[p]
    BY <1>4
  <2>2. new.nodes[ord[p]] \in ListNode /\ DOMAIN new.nodes[ord[p]].level = 0 .. h[p] - 1
    BY <2>1 DEF IsRemoved
  <2>3. ord[p] # ord[k + 1]
    <3>1. k + 1 \in 0 .. n + 1
      OBVIOUS
    <3> QED
      BY <1>2, <2>1, <3>1
  <2> QED
    BY <1>1, <1>2, <1>3, <2>1, <2>2, <2>3
<1>8. ord2[0] = HeadNode
  BY <1>1, <1>2
<1> QED
  BY <1>5, <1>6, <1>7, <1>8 DEF IsList, IsSequence

\* The links of the nodes before the one that goes.
LEMMA LinkBeforeGap ==
    ASSUME NEW list, NEW n \in Nat, NEW k \in 0 .. n, NEW ord, NEW h,
           IsList(list, ord, h, n + 1), IsLinked(list, ord, h, n + 1), NEW new,
           IsRemoved(list, new, ord, h, n + 1, k), NEW ord2, NEW h2,
           IsWith(ord2, h2, n, k, ord[k + 1], h[k + 1], ord, h), new.level <= list.level,
           new.level \in Nat, NEW p \in 0 .. k, NEW i \in 0 .. h[p] - 1
    PROVE  LinkIs(new, ord2, h2, n, p, i)
<1>1. /\ kMaxLevel \in Nat /\ list.level \in Nat /\ list.level <= kMaxLevel
      /\ \A r \in 0 .. n + 1 : h[r] \in Nat /\ h[r] \in 1 .. kMaxLevel
      /\ \A r \in 1 .. n + 1 : h[r] <= list.level
  BY WithoutIs
<1>2. /\ \A r \in 0 .. n : /\ r <= k => ord2[r] = ord[r] /\ h2[r] = h[r]
                           /\ r > k => ord2[r] = ord[r + 1] /\ h2[r] = h[r + 1]
      /\ \A r \in 1 .. n : h2[r] <= list.level
      /\ \A r \in 0 .. n + 1 : r > k + 1 => ord2[r - 1] = ord[r] /\ h2[r - 1] = h[r]
  <2>1. AreShifted(ord, h, ord2, h2, n, k)
    BY WithoutIs
  <2>2. \A r \in 0 .. n : h2[r] \in 1 .. kMaxLevel
    BY WithoutIs
  <2>3. \A r \in 1 .. n : h2[r] <= list.level
    BY WithoutIs
  <2> QED
    BY <2>1, <2>2, <2>3 DEF AreShifted
<1>3. p \in 0 .. n /\ p \in 0 .. n + 1 /\ k \in 0 .. n + 1 /\ k + 1 \in 0 .. n + 1 /\ p # k + 1 /\ p <= k
  OBVIOUS
<1>4. i \in Nat /\ i < h[p] /\ i \in 0 .. kMaxLevel - 1
  BY <1>1, <1>3
<1>5. ord2[p] = ord[p]
  BY <1>2, <1>3
<1>6. LinkIs(list, ord, h, n + 1, p, i)
  BY <1>3 DEF IsLinked
<1>7. PICK l : l = LastWith(h, i, k)
  OBVIOUS
<1>8. l \in 0 .. k /\ l \in 0 .. n + 1 /\ i < h[l] /\ (\A r \in l + 1 .. k : h[r] <= i) /\ p <= l
  BY <1>3, <1>4, <1>7, LastIs
<1>9. IF i < list.level /\ p = l
      THEN IF Forward(list, ord[p], i) = ord[k + 1]
           THEN /\ Forward(new, ord[p], i) = Forward(list, ord[k + 1], i)
                /\ Span(new, ord[p], i) = (Span(list, ord[p], i) + Span(list, ord[k + 1], i)) - 1
           ELSE /\ Forward(new, ord[p], i) = Forward(list, ord[p], i)
                /\ Span(new, ord[p], i) = Span(list, ord[p], i) - 1
      ELSE /\ Forward(new, ord[p], i) = Forward(list, ord[p], i)
           /\ Span(new, ord[p], i) = Span(list, ord[p], i)
  BY <1>3, <1>7 DEF IsRemoved, LinkAfterRemove
\* What passes over the gap, up to a later node.
<1>10. ASSUME p = l, NEW q \in k + 1 .. n + 1, \A u \in k + 2 .. q - 1 : h[u] <= i
       PROVE  \A r \in p + 1 .. q - 2 : h2[r] <= i
  <2>1. ASSUME NEW r \in p + 1 .. q - 2 PROVE h2[r] <= i
    <3>1. r \in 0 .. n
      BY <1>3
    <3>2. CASE r <= k
      <4>1. r \in l + 1 .. k
        BY <1>3, <1>10, <3>2
      <4> QED
        BY <1>2, <1>8, <3>1, <3>2, <4>1
    <3>3. CASE r > k
      <4>1. r + 1 \in k + 2 .. q - 1
        BY <3>3
      <4> QED
        BY <1>2, <1>10, <3>1, <3>3, <4>1
    <3> QED
      BY <3>1, <3>2, <3>3
  <2> QED
    BY <2>1
<1>11. ASSUME p = l, \A u \in k + 2 .. n + 1 : h[u] <= i
       PROVE  \A r \in p + 1 .. n : h2[r] <= i
  <2>1. ASSUME NEW r \in p + 1 .. n PROVE h2[r] <= i
    <3>1. r \in 0 .. n
      BY <1>3
    <3>2. CASE r <= k
      <4>1. r \in l + 1 .. k
        BY <1>3, <1>11, <3>2
      <4> QED
        BY <1>2, <1>8, <3>1, <3>2, <4>1
    <3>3. CASE r > k
      <4>1. r + 1 \in k + 2 .. n + 1
        BY <3>3
      <4> QED
        BY <1>2, <1>11, <3>1, <3>3, <4>1
    <3> QED
      BY <3>1, <3>2, <3>3
  <2> QED
    BY <2>1
\* To a later node, or to the end.
<1>12. ASSUME p = l, NEW q \in k + 2 .. n + 1, i < h[q], \A u \in k + 2 .. q - 1 : h[u] <= i,
              Forward(new, ord[p], i) = ord[q], Span(new, ord[p], i) = (q - 1) - p
       PROVE  LinkIs(new, ord2, h2, n, p, i)
  <2>1. q - 1 \in p + 1 .. n /\ q \in 0 .. n + 1 /\ q > k + 1 /\ q \in k + 1 .. n + 1 /\ (q - 1) - 1 = q - 2
    BY <1>3
  <2>2. ord2[q - 1] = ord[q] /\ h2[q - 1] = h[q]
    BY <1>2, <2>1
  <2>3. \A r \in p + 1 .. (q - 1) - 1 : h2[r] <= i
    BY <1>10, <1>12, <2>1
  <2> QED
    BY <1>5, <1>12, <2>1, <2>2, <2>3 DEF LinkIs
<1>13. ASSUME p = l, \A u \in k + 2 .. n + 1 : h[u] <= i,
              Forward(new, ord[p], i) = Nil, Span(new, ord[p], i) = n - p
       PROVE  LinkIs(new, ord2, h2, n, p, i)
  <2>1. \A r \in p + 1 .. n : h2[r] <= i
    BY <1>11, <1>13
  <2> QED
    BY <1>5, <1>13, <2>1 DEF LinkIs
<1>14. CASE i < list.level /\ p = l /\ Forward(list, ord[p], i) = ord[k + 1]
  <2>1. i \in 0 .. h[k + 1] - 1 /\ Span(list, ord[p], i) = (k + 1) - p
    BY <1>3, <1>14, LinkLeadsTo
  <2>2. LinkIs(list, ord, h, n + 1, k + 1, i)
    BY <1>3, <2>1 DEF IsLinked
  <2>3. /\ Forward(new, ord[p], i) = Forward(list, ord[k + 1], i)
        /\ Span(new, ord[p], i) = (((k + 1) - p) + Span(list, ord[k + 1], i)) - 1
    BY <1>9, <1>14, <2>1
  <2>4. (k + 1) + 1 = k + 2
    OBVIOUS
  <2>5. CASE /\ Forward(list, ord[k + 1], i) = Nil
             /\ \A r \in (k + 1) + 1 .. n + 1 : h[r] <= i
             /\ i < list.level => Span(list, ord[k + 1], i) = (n + 1) - (k + 1)
    <3>1. Span(new, ord[p], i) = (((k + 1) - p) + ((n + 1) - (k + 1))) - 1
      BY <1>14, <2>3, <2>5
    <3>2. (((k + 1) - p) + ((n + 1) - (k + 1))) - 1 = n - p
      BY <1>3
    <3> QED
      BY <1>13, <1>14, <2>3, <2>4, <2>5, <3>1, <3>2
  <2>6. ASSUME NEW q \in (k + 1) + 1 .. n + 1,
               /\ Forward(list, ord[k + 1], i) = ord[q] /\ i < h[q]
               /\ \A r \in (k + 1) + 1 .. q - 1 : h[r] <= i
               /\ Span(list, ord[k + 1], i) = q - (k + 1)
        PROVE  LinkIs(new, ord2, h2, n, p, i)
    <3>1. Span(new, ord[p], i) = (((k + 1) - p) + (q - (k + 1))) - 1
      BY <2>3, <2>6
    <3>2. (((k + 1) - p) + (q - (k + 1))) - 1 = (q - 1) - p /\ q \in k + 2 .. n + 1
      BY <1>3
    <3> QED
      BY <1>12, <1>14, <2>3, <2>4, <2>6, <3>1, <3>2
  <2> QED
    BY <2>2, <2>5, <2>6 DEF LinkIs
<1>15. CASE i < list.level /\ p = l /\ ~(Forward(list, ord[p], i) = ord[k + 1])
  <2>1. Forward(new, ord[p], i) = Forward(list, ord[p], i) /\ Span(new, ord[p], i) = Span(list, ord[p], i) - 1
    BY <1>9, <1>15
  <2>2. CASE /\ Forward(list, ord[p], i) = Nil
             /\ \A r \in p + 1 .. n + 1 : h[r] <= i
             /\ i < list.level => Span(list, ord[p], i) = (n + 1) - p
    <3>1. Span(new, ord[p], i) = ((n + 1) - p) - 1
      BY <1>15, <2>1, <2>2
    <3>2. ((n + 1) - p) - 1 = n - p /\ \A u \in k + 2 .. n + 1 : u \in p + 1 .. n + 1
      BY <1>3
    <3> QED
      BY <1>13, <1>15, <2>1, <2>2, <3>1, <3>2
  <2>3. ASSUME NEW q \in p + 1 .. n + 1,
               /\ Forward(list, ord[p], i) = ord[q] /\ i < h[q]
               /\ \A r \in p + 1 .. q - 1 : h[r] <= i
               /\ Span(list, ord[p], i) = q - p
        PROVE  LinkIs(new, ord2, h2, n, p, i)
    <3>1. q \in 0 .. n + 1 /\ q # k + 1
      BY <1>3, <1>15, <2>3
    <3>2. h[q] \in Nat
      BY <1>1, <3>1
    <3>3. ~(q \in l + 1 .. k)
      BY <1>4, <1>8, <2>3, <3>2
    <3>4. q \in k + 2 .. n + 1
      BY <1>3, <1>8, <1>15, <3>1, <3>3
    <3>5. Span(new, ord[p], i) = (q - p) - 1
      BY <2>1, <2>3
    <3>6. (q - p) - 1 = (q - 1) - p /\ \A u \in k + 2 .. q - 1 : u \in p + 1 .. q - 1
      BY <1>3, <3>4
    <3> QED
      BY <1>12, <1>15, <2>1, <2>3, <3>4, <3>5, <3>6
  <2> QED
    BY <1>6, <2>2, <2>3 DEF LinkIs
<1>16. CASE i < list.level /\ p # l
  <2>1. Forward(new, ord2[p], i) = Forward(list, ord[p], i) /\ Span(new, ord2[p], i) = Span(list, ord[p], i)
    BY <1>5, <1>9, <1>16
  <2>2. l \in p + 1 .. n + 1 /\ h[l] \in Nat /\ ~(h[l] <= i)
    BY <1>1, <1>3, <1>4, <1>8, <1>16
  <2>3. PICK q \in p + 1 .. n + 1 :
           /\ Forward(list, ord[p], i) = ord[q] /\ i < h[q]
           /\ \A r \in p + 1 .. q - 1 : h[r] <= i
           /\ Span(list, ord[p], i) = q - p
    BY <1>6, <2>2 DEF LinkIs
  <2>4. q \in p + 1 .. n /\ q \in 0 .. n /\ q <= k
    <3>1. ~(l \in p + 1 .. q - 1)
      BY <2>2, <2>3
    <3> QED
      BY <1>3, <1>8, <2>2, <2>3, <3>1
  <2>5. ord2[q] = ord[q] /\ h2[q] = h[q]
    BY <1>2, <2>4
  <2>6. ASSUME NEW r \in p + 1 .. q - 1 PROVE h2[r] <= i
    <3>1. r \in 0 .. n /\ r <= k
      BY <1>3, <2>4
    <3> QED
      BY <1>2, <2>3, <3>1
  <2> QED
    BY <2>1, <2>3, <2>4, <2>5, <2>6 DEF LinkIs
<1>17. CASE ~(i < list.level)
  <2>1. p = 0
    <3>1. ASSUME p # 0 PROVE FALSE
      <4>1. p \in 1 .. n + 1
        BY <3>1
      <4> QED
        BY <1>1, <1>3, <1>4, <1>17, <4>1
    <3> QED
      BY <3>1
  <2>2. Forward(list, ord[p], i) = Nil
    BY <1>4, <1>17, <2>1, LinkAtEnd
  <2>3. Forward(new, ord2[p], i) = Nil
    BY <1>5, <1>9, <1>17, <2>2
  <2>4. ASSUME NEW r \in p + 1 .. n PROVE h2[r] <= i
    <3>1. r \in 1 .. n /\ r \in 0 .. n
      BY <2>1
    <3>2. h2[r] <= list.level /\ h2[r] \in Nat
      BY <3>1, WithoutIs
    <3> QED
      BY <1>1, <1>4, <1>17, <3>2
  <2>5. ~(i < new.level)
    BY <1>1, <1>4, <1>17
  <2> QED
    BY <2>3, <2>4, <2>5 DEF LinkIs
<1> QED
  BY <1>14, <1>15, <1>16, <1>17

\* The links of the nodes after it.
LEMMA LinkAfterGap ==
    ASSUME NEW list, NEW n \in Nat, NEW k \in 0 .. n, NEW ord, NEW h,
           IsList(list, ord, h, n + 1), IsLinked(list, ord, h, n + 1), NEW new,
           IsRemoved(list, new, ord, h, n + 1, k), NEW ord2, NEW h2,
           IsWith(ord2, h2, n, k, ord[k + 1], h[k + 1], ord, h), NEW p \in k + 1 .. n, NEW i \in 0 .. h[p + 1] - 1
    PROVE  LinkIs(new, ord2, h2, n, p, i)
<1>1. /\ kMaxLevel \in Nat /\ list.level \in Nat /\ list.level <= kMaxLevel
      /\ \A r \in 0 .. n + 1 : h[r] \in Nat /\ h[r] \in 1 .. kMaxLevel
      /\ \A r \in 1 .. n + 1 : h[r] <= list.level
  BY WithoutIs
<1>2. /\ \A r \in 0 .. n : r > k => ord2[r] = ord[r + 1] /\ h2[r] = h[r + 1]
      /\ \A r \in 0 .. n + 1 : r > k + 1 => ord2[r - 1] = ord[r] /\ h2[r - 1] = h[r]
  <2>1. AreShifted(ord, h, ord2, h2, n, k)
    BY WithoutIs
  <2>2. \A r \in 0 .. n : h2[r] \in 1 .. kMaxLevel
    BY WithoutIs
  <2>3. \A r \in 1 .. n : h2[r] <= list.level
    BY WithoutIs
  <2> QED
    BY <2>1, <2>2, <2>3 DEF AreShifted
<1>3. p \in 0 .. n /\ p > k /\ p + 1 \in 0 .. n + 1 /\ p + 1 \in 1 .. n + 1 /\ p + 1 # k + 1
  OBVIOUS
<1>4. i \in Nat /\ i < h[p + 1] /\ i \in 0 .. kMaxLevel - 1 /\ i < list.level
  <2>1. h[p + 1] \in 1 .. kMaxLevel /\ h[p + 1] <= list.level
    BY <1>1, <1>3
  <2> QED
    BY <1>1, <2>1
<1>5. p + 1 # LastWith(h, i, k)
  <2>1. PICK l : l = LastWith(h, i, k)
    OBVIOUS
  <2>2. k \in 0 .. n + 1
    OBVIOUS
  <2>3. l \in 0 .. k
    BY <1>4, <2>1, <2>2, LastIs
  <2> QED
    BY <1>3, <2>1, <2>3
<1>6. LinkIs(list, ord, h, n + 1, p + 1, i)
  BY <1>3 DEF IsLinked
<1>7. /\ Forward(new, ord[p + 1], i) = Forward(list, ord[p + 1], i)
      /\ Span(new, ord[p + 1], i) = Span(list, ord[p + 1], i)
  BY <1>3, <1>5 DEF IsRemoved, LinkAfterRemove
<1>8. ord2[p] = ord[p + 1]
  BY <1>2, <1>3
<1>9. CASE /\ Forward(list, ord[p + 1], i) = Nil
           /\ \A r \in (p + 1) + 1 .. n + 1 : h[r] <= i
           /\ i < list.level => Span(list, ord[p + 1], i) = (n + 1) - (p + 1)
  <2>1. ASSUME NEW r \in p + 1 .. n PROVE h2[r] <= i
    <3>1. r + 1 \in (p + 1) + 1 .. n + 1 /\ r \in 0 .. n /\ r > k
      BY <1>3
    <3> QED
      BY <1>2, <1>9, <3>1
  <2>2. Span(new, ord2[p], i) = n - p /\ Forward(new, ord2[p], i) = Nil
    <3>1. n - p = (n + 1) - (p + 1)
      BY <1>3
    <3> QED
      BY <1>4, <1>7, <1>8, <1>9, <3>1
  <2> QED
    BY <2>1, <2>2 DEF LinkIs
<1>10. ASSUME NEW q \in (p + 1) + 1 .. n + 1,
              /\ Forward(list, ord[p + 1], i) = ord[q] /\ i < h[q]
              /\ \A r \in (p + 1) + 1 .. q - 1 : h[r] <= i
              /\ Span(list, ord[p + 1], i) = q - (p + 1)
       PROVE  LinkIs(new, ord2, h2, n, p, i)
  <2>1. q \in 0 .. n + 1 /\ q > k + 1 /\ q - 1 \in p + 1 .. n /\ q - (p + 1) = (q - 1) - p
    BY <1>3
  <2>2. Span(new, ord2[p], i) = (q - 1) - p /\ Forward(new, ord2[p], i) = ord2[q - 1] /\ i < h2[q - 1]
    BY <1>2, <1>7, <1>8, <1>10, <2>1
  <2>3. ASSUME NEW r \in p + 1 .. (q - 1) - 1 PROVE h2[r] <= i
    <3>1. r + 1 \in (p + 1) + 1 .. q - 1 /\ r \in 0 .. n /\ r > k
      BY <1>3, <2>1
    <3> QED
      BY <1>2, <1>10, <3>1
  <2> QED
    BY <2>1, <2>2, <2>3 DEF LinkIs
<1> QED
  BY <1>6, <1>9, <1>10 DEF LinkIs

\* The empty levels are given up, and no other.
LEMMA LevelAfterRemove ==
    ASSUME NEW list, NEW n \in Nat, NEW k \in 0 .. n, NEW ord, NEW h,
           IsList(list, ord, h, n + 1), IsLinked(list, ord, h, n + 1), NEW new,
           IsRemoved(list, new, ord, h, n + 1, k)
    PROVE  /\ new.level \in 1 .. kMaxLevel /\ new.level <= list.level /\ new.level \in Nat
           /\ \A i \in 0 .. list.level - 1 : Forward(new, HeadNode, i) # Nil => i < new.level
<1>1. kMaxLevel \in Nat /\ list.level \in 1 .. kMaxLevel
  BY SkipListAssumption DEF IsLinked
<1>2. PICK S : S = {1} \cup {i + 1 : i \in {j \in 0 .. list.level - 1 : Forward(new, HeadNode, j) # Nil}}
  OBVIOUS
<1>3. S \subseteq 1 .. list.level /\ S # {} /\ S \subseteq 0 .. list.level
  BY <1>1, <1>2
<1>4. new.level = Max(S)
  BY <1>2 DEF IsRemoved
<1>5. Max(S) \in S /\ \A r \in S : r <= Max(S)
  <2>1. PICK t \in Nat : t = list.level
    BY <1>1
  <2>2. S \subseteq 0 .. t
    BY <1>3, <2>1
  <2> QED
    BY <1>3, <2>1, <2>2, GreatestOfNat
<1>6. new.level \in 1 .. list.level
  BY <1>3, <1>4, <1>5
<1>7. ASSUME NEW i \in 0 .. list.level - 1, Forward(new, HeadNode, i) # Nil PROVE i < new.level
  <2>1. i + 1 \in S
    BY <1>2, <1>7
  <2> QED
    BY <1>1, <1>4, <1>5, <1>6, <2>1
<1> QED
  BY <1>1, <1>6, <1>7

LEMMA RemovedIsLinked ==
    ASSUME NEW list, NEW n \in Nat, NEW k \in 0 .. n, NEW ord, NEW h,
           IsList(list, ord, h, n + 1), IsLinked(list, ord, h, n + 1), NEW new,
           IsRemoved(list, new, ord, h, n + 1, k), NEW ord2, NEW h2,
           IsWith(ord2, h2, n, k, ord[k + 1], h[k + 1], ord, h)
    PROVE  IsLinked(new, ord2, h2, n)
<1>1. AreShifted(ord, h, ord2, h2, n, k)
  BY WithoutIs
<1>2. /\ \A r \in 0 .. n : /\ r <= k => ord2[r] = ord[r] /\ h2[r] = h[r]
                           /\ r > k => ord2[r] = ord[r + 1] /\ h2[r] = h[r + 1]
      /\ \A r \in 0 .. n + 1 : r > k + 1 => ord2[r - 1] = ord[r] /\ h2[r - 1] = h[r]
  BY <1>1 DEF AreShifted
<1>3. /\ kMaxLevel \in Nat /\ list.level \in Nat /\ list.level <= kMaxLevel /\ h2[0] = kMaxLevel
      /\ \A r \in 0 .. n : h2[r] \in Nat /\ h2[r] \in 1 .. kMaxLevel
      /\ \A r \in 1 .. n : h2[r] <= list.level
  BY WithoutIs
<1>4. /\ new.level \in 1 .. kMaxLevel /\ new.level <= list.level /\ new.level \in Nat
      /\ \A i \in 0 .. list.level - 1 : Forward(new, HeadNode, i) # Nil => i < new.level
  BY LevelAfterRemove
<1>5. ASSUME NEW r \in 0 .. n, NEW i \in 0 .. h2[r] - 1 PROVE LinkIs(new, ord2, h2, n, r, i)
  <2>1. CASE r <= k
    <3>1. r \in 0 .. k /\ i \in 0 .. h[r] - 1
      BY <1>2, <2>1
    <3> QED
      BY <1>4, <3>1, LinkBeforeGap
  <2>2. CASE r > k
    <3>1. r \in k + 1 .. n /\ i \in 0 .. h[r + 1] - 1
      BY <1>2, <2>2
    <3> QED
      BY <3>1, LinkAfterGap
  <2> QED
    BY <2>1, <2>2
<1>6. ASSUME NEW r \in 1 .. n PROVE h2[r] <= new.level
  <2>1. r \in 0 .. n /\ h2[r] \in 1 .. list.level
    BY <1>3
  <2>2. PICK i \in 0 .. list.level - 1 : h2[r] = i + 1
    <3>1. h2[r] - 1 \in 0 .. list.level - 1 /\ h2[r] = (h2[r] - 1) + 1
      BY <1>3, <2>1
    <3> QED
      BY <3>1
  <2>3. 0 \in 0 .. n /\ i \in 0 .. h2[0] - 1
    BY <1>3
  <2>4. LinkIs(new, ord2, h2, n, 0, i)
    BY <1>5, <2>3
  <2>5. ord2[0] = HeadNode
    <3>1. ord[0] = HeadNode
      BY DEF IsList
    <3>2. 0 \in 0 .. n /\ 0 <= k
      OBVIOUS
    <3> QED
      BY <1>2, <3>1, <3>2
  <2>6. ~(h2[r] <= i) /\ r \in 0 + 1 .. n
    BY <2>2
  <2>7. PICK q \in 0 + 1 .. n : Forward(new, ord2[0], i) = ord2[q]
    BY <2>4, <2>6 DEF LinkIs
  <2>8. ord2[q] # Nil
    <3>1. q \in 0 .. n /\ q \in 0 .. n + 1 /\ q + 1 \in 0 .. n + 1
      OBVIOUS
    <3>2. ord[q] # Nil /\ ord[q + 1] # Nil
      BY <3>1, ListFacts
    <3> QED
      BY <1>2, <3>1, <3>2
  <2>9. i < new.level
    BY <1>4, <2>5, <2>7, <2>8
  <2> QED
    BY <1>4, <2>2, <2>9
<1>7. \A p \in 0 .. n + 1 : list.nodes[ord[p]].backward = IF p <= 1 THEN Nil ELSE ord[p - 1]
  BY DEF IsLinked
<1>8. \A p \in 0 .. n + 1 : p # k + 1 =>
         new.nodes[ord[p]].backward = IF p = k + 2 THEN list.nodes[ord[k + 1]].backward
                                      ELSE list.nodes[ord[p]].backward
  BY DEF IsRemoved
<1>9. k + 1 \in 0 .. n + 1 /\ (k + 1 <= 1 <=> k = 0) /\ (k + 1) - 1 = k
  OBVIOUS
<1>10. list.nodes[ord[k + 1]].backward = IF k = 0 THEN Nil ELSE ord[k]
  BY <1>7, <1>9
<1>11. ASSUME NEW r \in 0 .. n
       PROVE  new.nodes[ord2[r]].backward = IF r <= 1 THEN Nil ELSE ord2[r - 1]
  <2>1. CASE r <= k
    <3>1. r \in 0 .. n + 1 /\ r # k + 1 /\ r # k + 2 /\ ord2[r] = ord[r]
      BY <1>2, <2>1
    <3>2. new.nodes[ord2[r]].backward = IF r <= 1 THEN Nil ELSE ord[r - 1]
      BY <1>7, <1>8, <3>1
    <3>3. ASSUME ~(r <= 1) PROVE ord2[r - 1] = ord[r - 1]
      <4>1. r - 1 \in 0 .. n /\ r - 1 <= k
        BY <2>1, <3>3
      <4> QED
        BY <1>2, <4>1
    <3> QED
      BY <3>2, <3>3
  <2>2. CASE r = k + 1
    <3>1. r + 1 \in 0 .. n + 1 /\ r + 1 # k + 1 /\ r + 1 = k + 2 /\ r > k /\ r - 1 = k /\ (r <= 1 <=> k = 0)
      BY <2>2
    <3>2. new.nodes[ord2[r]].backward = IF k = 0 THEN Nil ELSE ord[k]
      BY <1>2, <1>8, <1>10, <3>1
    <3>3. ord2[k] = ord[k]
      BY <1>2
    <3> QED
      BY <3>1, <3>2, <3>3
  <2>3. CASE r > k + 1
    <3>1. r + 1 \in 0 .. n + 1 /\ r + 1 # k + 1 /\ r + 1 # k + 2 /\ r > k /\ ~(r <= 1) /\ ~(r + 1 <= 1)
          /\ (r + 1) - 1 = r /\ r \in 0 .. n + 1
      BY <2>3
    <3>2. new.nodes[ord2[r]].backward = ord[r]
      BY <1>2, <1>7, <1>8, <3>1
    <3>3. ord2[r - 1] = ord[r]
      BY <1>2, <2>3, <3>1
    <3> QED
      BY <3>1, <3>2, <3>3
  <2> QED
    BY <2>1, <2>2, <2>3
<1>12. new.tail = IF n = 0 THEN Nil ELSE ord2[n]
  <2>1. new.tail = IF k + 1 = n + 1 THEN list.nodes[ord[k + 1]].backward ELSE list.tail
    BY DEF IsRemoved
  <2>2. list.tail = ord[n + 1]
    <3>1. n + 1 # 0
      OBVIOUS
    <3> QED
      BY <3>1 DEF IsLinked
  <2>3. CASE k = n
    <3>1. ord2[k] = ord[k] /\ k + 1 = n + 1
      BY <1>2, <2>3
    <3> QED
      BY <1>10, <2>1, <2>3, <3>1
  <2>4. CASE k # n
    <3>1. n # 0 /\ k + 1 # n + 1 /\ n > k /\ n \in 0 .. n
      BY <2>4
    <3> QED
      BY <1>2, <2>1, <2>2, <3>1
  <2> QED
    BY <2>3, <2>4
<1>13. new.length = n
  <2>1. new.length = (n + 1) - 1
    BY DEF IsRemoved
  <2> QED
    BY <2>1
<1> QED
  BY <1>3, <1>4, <1>5, <1>6, <1>11, <1>12, <1>13 DEF IsLinked

\* Where a node of the shorter list was.
OldPlace(k, r) == IF r <= k THEN r ELSE r + 1

SamePair(new, ord2, r, list, ord, p) ==
    /\ new.nodes[ord2[r]].member = list.nodes[ord[p]].member
    /\ new.nodes[ord2[r]].score = list.nodes[ord[p]].score

\* The pairs of the shorter list.
LEMMA PairsWithout ==
    ASSUME NEW list, NEW n \in Nat, NEW k \in 0 .. n, NEW ord, NEW h,
           IsList(list, ord, h, n + 1), IsLinked(list, ord, h, n + 1), NEW new,
           IsRemoved(list, new, ord, h, n + 1, k), NEW ord2, NEW h2,
           IsWith(ord2, h2, n, k, ord[k + 1], h[k + 1], ord, h), NEW r \in 1 .. n
    PROVE  SamePair(new, ord2, r, list, ord, OldPlace(k, r))
<1>1. AreShifted(ord, h, ord2, h2, n, k)
  BY WithoutIs
<1>2. PICK p : p = OldPlace(k, r)
  OBVIOUS
<1>3. p # k + 1 /\ p \in 0 .. n + 1 /\ r \in 0 .. n
  BY <1>2 DEF OldPlace
<1>4. ord2[r] = ord[p]
  BY <1>1, <1>2, <1>3 DEF AreShifted, OldPlace
<1>5. SamePair(new, ord2, r, list, ord, p)
  BY <1>3, <1>4 DEF IsRemoved, SamePair
<1> QED
  BY <1>2, <1>5

LEMMA ListEraseIs ==
    ASSUME NEW list, NEW ord, NEW h, NEW size, IsListOf(list, ord, h, size),
           NEW m \in Nat, NEW s \in Int, HasPair(list, ord, size, m, s),
           NEW new, new = ListErase(list, m, s)
    PROVE  \E ord2, h2, n :
              /\ IsListOf(new, ord2, h2, n)
              /\ \A a, b : HasPair(new, ord2, n, a, b) <=> HasPair(list, ord, size, a, b) /\ ~(a = m /\ b = s)
<1>1. IsList(list, ord, h, size) /\ IsLinked(list, ord, h, size) /\ IsOrdered(list, ord, size)
  BY DEF IsListOf
<1>2. PICK g \in 1 .. size : list.nodes[ord[g]].member = m /\ list.nodes[ord[g]].score = s
  BY DEF HasPair
<1>3. size \in Nat
  BY <1>1 DEF IsList
<1>4. PICK n \in Nat : size = n + 1
  <2>1. size - 1 \in Nat /\ size = (size - 1) + 1
    BY <1>2, <1>3
  <2> QED
    BY <2>1
<1> DEFINE Member(p) == list.nodes[ord[p]].member
           Score(p)  == list.nodes[ord[p]].score
<1>5. PICK k \in 0 .. size :
         /\ Before(list, m, s) = FirstNodes(ord, k)
         /\ \A p \in 1 .. size : p <= k <=> IsBefore(Score(p), Member(p), s, m)
  BY <1>1, BeforeIs
<1>6. \A p \in 1 .. size : Member(p) \in Nat /\ Score(p) \in Int
  <2>1. \A p \in 1 .. size : p \in 0 .. size
    BY <1>3
  <2>2. \A p \in 0 .. size : Member(p) \in Nat /\ Score(p) \in Int
    BY <1>1, PairsAre
  <2> QED
    BY <2>1, <2>2
<1>7. \A p, q \in 1 .. size : p < q => IsBefore(Score(p), Member(p), Score(q), Member(q))
  BY <1>1 DEF IsOrdered, IsBefore
<1>8. k \in 0 .. n /\ g = k + 1
  <2>1. Member(g) = m /\ Score(g) = s
    BY <1>2
  <2> HIDE DEF Member, Score
  <2>2. ~(g <= k)
    <3>1. ~IsBefore(s, m, s, m)
      BY DEF IsBefore
    <3> QED
      BY <1>2, <1>5, <2>1, <3>1
  <2>3. k + 1 \in 1 .. size
    BY <1>2, <1>3, <1>5, <2>2
  <2>4. ~IsBefore(Score(k + 1), Member(k + 1), s, m)
    BY <1>3, <1>5, <2>3
  <2>5. ~(k + 1 < g)
    BY <1>2, <1>7, <2>1, <2>3, <2>4
  <2> QED
    BY <1>2, <1>3, <1>4, <1>5, <2>2, <2>5
<1>9. PICK x : x = ord[k + 1]
  OBVIOUS
<1>10. PICK path : path = Descent(list, FirstNodes(ord, k))
  OBVIOUS
<1>11. kMaxLevel \in Nat /\ list.level \in 1 .. kMaxLevel
  BY <1>1, SkipListAssumption DEF IsLinked
<1>12. ASSUME NEW i \in 0 .. list.level - 1 PROVE path[i].node = ord[LastWith(h, i, k)]
  <2>1. PICK l : l = LastWith(h, i, k)
    OBVIOUS
  <2>2. path[i] = [node |-> ord[l], rank |-> l]
    BY <1>1, <1>5, <1>10, <2>1, DescentIs
  <2> QED
    BY <2>1, <2>2
<1>13. path[0].node = ord[k]
  <2>1. 0 \in 0 .. list.level - 1 /\ 0 \in 0 .. kMaxLevel - 1
    BY <1>11
  <2>2. k = LastWith(h, 0, k)
    BY <1>1, <1>5, <2>1, LastIs
  <2> QED
    BY <1>12, <2>1, <2>2
<1>14. Forward(list, ord[k], 0) = x
  <2>1. k # size
    BY <1>4, <1>8
  <2> QED
    BY <1>1, <1>5, <1>9, <2>1, NextOnFloor
<1>15. Holds(list, x, m, s)
  <2>1. x \in ListNodes(list)
    <3>1. \A e : e \in ListNodes(list) <=> \E p \in 1 .. size : e = ord[p]
      BY <1>1, PairsAre
    <3> QED
      BY <1>2, <1>8, <1>9, <3>1
  <2>2. s # NaN
    BY SkipListAssumption
  <2> QED
    BY <1>2, <1>8, <1>9, <2>1, <2>2 DEF Holds, Equal
<1> DEFINE prev == [i \in 0 .. list.level - 1 |-> path[i].node]
<1>16. new = RemoveNode(list, x, prev)
  BY <1>5, <1>10, <1>13, <1>14, <1>15 DEF ListErase
<1>17. \A i \in 0 .. list.level - 1 : prev[i] = ord[LastWith(h, i, k)]
  BY <1>12
<1> HIDE DEF prev
<1>18. IsRemoved(list, new, ord, h, n + 1, k)
  <2>1. k \in 0 .. size - 1
    BY <1>4, <1>8
  <2>2. IsRemoved(list, new, ord, h, size, k)
    BY <1>1, <1>9, <1>16, <1>17, <2>1, WhatRemoveDoes
  <2> QED
    BY <1>4, <2>2
<1>19. IsList(list, ord, h, n + 1) /\ IsLinked(list, ord, h, n + 1)
  BY <1>1, <1>4
<1>20. PICK ord2, h2 : /\ IsWith(ord2, h2, n, k, ord[k + 1], h[k + 1], ord, h)
                       /\ IsSequence(ord2, n)
  <2>1. IsSequence(ord, n + 1)
    BY <1>19 DEF IsList, IsSequence
  <2>2. k \in 0 .. n
    BY <1>8
  <2> QED
    BY <2>1, <2>2, OrderWithout
<1>21. IsList(new, ord2, h2, n)
  BY <1>8, <1>18, <1>19, <1>20, RemovedIsList
<1>22. IsLinked(new, ord2, h2, n)
  BY <1>8, <1>18, <1>19, <1>20, RemovedIsLinked
<1> DEFINE Member2(r) == new.nodes[ord2[r]].member
           Score2(r)  == new.nodes[ord2[r]].score
           Old(r)     == OldPlace(k, r)
<1>23. ASSUME NEW r \in 1 .. n
       PROVE  /\ Old(r) \in 1 .. size /\ Old(r) # g
              /\ Member2(r) = Member(Old(r)) /\ Score2(r) = Score(Old(r))
  <2>1. Old(r) \in 1 .. size /\ Old(r) # g
    BY <1>4, <1>8 DEF OldPlace
  <2>2. k \in 0 .. n /\ n \in Nat
    BY <1>4, <1>8
  <2>3. SamePair(new, ord2, r, list, ord, OldPlace(k, r))
    BY <1>18, <1>19, <1>20, <2>2, PairsWithout
  <2> QED
    BY <2>1, <2>3 DEF SamePair
<1> HIDE DEF Member, Score, Member2, Score2
<1>24. ASSUME NEW r \in 1 .. n, NEW t \in 1 .. n, r < t
       PROVE  IsBefore(Score2(r), Member2(r), Score2(t), Member2(t))
  <2>1. Old(r) < Old(t)
    BY <1>8, <1>24 DEF OldPlace
  <2> HIDE DEF Old
  <2> QED
    BY <1>7, <1>23, <2>1
<1>25. IsOrdered(new, ord2, n)
  BY <1>24 DEF IsOrdered, IsBefore, Member2, Score2
<1>26. ASSUME NEW p \in 1 .. size, p # g PROVE \E r \in 1 .. n : p = Old(r)
  <2>1. CASE p <= k
    <3>1. p \in 1 .. n /\ p = Old(p)
      BY <1>8, <2>1 DEF OldPlace
    <3> QED
      BY <3>1
  <2>2. CASE p > k + 1
    <3>1. p - 1 \in 1 .. n /\ p = Old(p - 1)
      BY <1>4, <1>8, <2>2 DEF OldPlace
    <3> QED
      BY <3>1
  <2> QED
    BY <1>3, <1>8, <1>26, <2>1, <2>2
<1>27. \A p \in 1 .. size : p # g <=> ~(Member(p) = m /\ Score(p) = s)
  <2>1. Member(g) = m /\ Score(g) = s
    BY <1>2 DEF Member, Score
  <2>2. ASSUME NEW p \in 1 .. size, Member(p) = m, Score(p) = s PROVE p = g
    BY <1>1, <1>2, <2>2, PairIsOnce DEF Member, Score
  <2> QED
    BY <2>1, <2>2
<1> HIDE DEF Old
<1>28. ASSUME NEW a, NEW b
       PROVE  HasPair(new, ord2, n, a, b) <=> HasPair(list, ord, size, a, b) /\ ~(a = m /\ b = s)
  <2>1. ASSUME NEW r \in 1 .. n, Member2(r) = a, Score2(r) = b
        PROVE  (\E p \in 1 .. size : Member(p) = a /\ Score(p) = b) /\ ~(a = m /\ b = s)
    BY <1>23, <1>27, <2>1
  <2>2. ASSUME NEW p \in 1 .. size, Member(p) = a, Score(p) = b, ~(a = m /\ b = s)
        PROVE  \E r \in 1 .. n : Member2(r) = a /\ Score2(r) = b
    BY <1>23, <1>26, <1>27, <2>2
  <2> QED
    BY <2>1, <2>2 DEF HasPair, Member, Score, Member2, Score2
<1>29. IsListOf(new, ord2, h2, n)
  BY <1>21, <1>22, <1>25 DEF IsListOf
<1> QED
  BY <1>28, <1>29

-----------------------------------------------------------------------------
(* What is read off a list.                                                *)

\* The nodes from place p to place q.
Stretch(ord, p, q) == [j \in 1 .. (q - p) + 1 |-> ord[(p + j) - 1]]

\* A sequence with the nodes from place p on.
IsStretch(s, ord, p, len) ==
    /\ \E S : s \in Seq(S)
    /\ Len(s) = len
    /\ \A j \in 1 .. len : s[j] = ord[(p + j) - 1]

LEMMA StretchIs ==
    ASSUME NEW ord, NEW p \in Nat, NEW q \in Nat, NEW len \in Nat, len = (q - p) + 1
    PROVE  IsStretch(Stretch(ord, p, q), ord, p, len)
<1>1. PICK s : s = [j \in 1 .. len |-> ord[(p + j) - 1]]
  OBVIOUS
<1>2. PICK S : S = {s[j] : j \in 1 .. len}
  OBVIOUS
<1>3. \A j \in 1 .. len : s[j] \in S /\ s[j] = ord[(p + j) - 1]
  BY <1>1, <1>2
<1>4. s \in [1 .. len -> S]
  BY <1>1, <1>3
<1>5. s \in Seq(S) /\ Len(s) = len
  BY <1>4, IsSeqOver
<1>6. s = Stretch(ord, p, q)
  BY <1>1 DEF Stretch
<1>7. IsStretch(s, ord, p, len)
  BY <1>3, <1>5 DEF IsStretch
<1> QED
  BY <1>6, <1>7

LEMMA StretchFront ==
    ASSUME NEW ord, NEW p \in Nat, NEW q \in Nat, p <= q
    PROVE  <<ord[p]>> \o Stretch(ord, p + 1, q) = Stretch(ord, p, q)
<1>1. PICK s : s = Stretch(ord, p + 1, q)
  OBVIOUS
<1>2. PICK t : t = Stretch(ord, p, q)
  OBVIOUS
<1>3. PICK len \in Nat : len = q - p
  OBVIOUS
<1>4. (\E S : s \in Seq(S)) /\ Len(s) = len /\ \A j \in 1 .. len : s[j] = ord[p + j]
  <2>1. p + 1 \in Nat /\ len = (q - (p + 1)) + 1
    BY <1>3
  <2>2. \A j \in 1 .. len : ((p + 1) + j) - 1 = p + j
    OBVIOUS
  <2>3. IsStretch(s, ord, p + 1, len)
    BY <1>1, <2>1, StretchIs
  <2> QED
    BY <2>2, <2>3 DEF IsStretch
<1>5. t = [j \in 1 .. len + 1 |-> ord[(p + j) - 1]]
  BY <1>2, <1>3 DEF Stretch
<1>6. <<ord[p]>> \o s = [j \in 1 .. 1 + len |-> IF j <= 1 THEN ord[p] ELSE s[j - 1]]
  BY <1>4
<1>7. ASSUME NEW j \in 1 .. len + 1
      PROVE  ord[(p + j) - 1] = IF j <= 1 THEN ord[p] ELSE s[j - 1]
  <2>1. CASE j <= 1
    <3>1. (p + j) - 1 = p
      BY <2>1
    <3> QED
      BY <2>1, <3>1
  <2>2. CASE ~(j <= 1)
    <3>1. j - 1 \in 1 .. len /\ p + (j - 1) = (p + j) - 1
      BY <2>2
    <3> QED
      BY <1>4, <2>2, <3>1
  <2> QED
    BY <2>1, <2>2
<1>8. 1 .. 1 + len = 1 .. len + 1
  OBVIOUS
<1>9. <<ord[p]>> \o s = t
  BY <1>5, <1>6, <1>7, <1>8
<1> QED
  BY <1>1, <1>2, <1>9

LEMMA StretchBack ==
    ASSUME NEW ord, NEW p \in Nat, NEW q \in Nat, p <= q + 1
    PROVE  Stretch(ord, p, q) \o <<ord[q + 1]>> = Stretch(ord, p, q + 1)
<1>1. PICK s : s = Stretch(ord, p, q)
  OBVIOUS
<1>2. PICK t : t = Stretch(ord, p, q + 1)
  OBVIOUS
<1>3. PICK len \in Nat : len = (q - p) + 1
  OBVIOUS
<1>4. (\E S : s \in Seq(S)) /\ Len(s) = len /\ \A j \in 1 .. len : s[j] = ord[(p + j) - 1]
  <2>1. IsStretch(s, ord, p, len)
    BY <1>1, <1>3, StretchIs
  <2> QED
    BY <2>1 DEF IsStretch
<1>5. t = [j \in 1 .. len + 1 |-> ord[(p + j) - 1]]
  <2>1. ((q + 1) - p) + 1 = len + 1
    BY <1>3
  <2> QED
    BY <1>2, <2>1 DEF Stretch
<1>6. s \o <<ord[q + 1]>> = [j \in 1 .. len + 1 |-> IF j <= len THEN s[j] ELSE ord[q + 1]]
  <2>1. s \o <<ord[q + 1]>> = [j \in 1 .. len + 1 |-> IF j <= len THEN s[j] ELSE <<ord[q + 1]>>[j - len]]
    BY <1>4
  <2>2. \A j \in 1 .. len + 1 : ~(j <= len) => j - len = 1
    OBVIOUS
  <2>3. <<ord[q + 1]>>[1] = ord[q + 1]
    OBVIOUS
  <2> QED
    BY <2>1, <2>2, <2>3
<1>7. ASSUME NEW j \in 1 .. len + 1
      PROVE  ord[(p + j) - 1] = IF j <= len THEN s[j] ELSE ord[q + 1]
  <2>1. CASE j <= len
    BY <1>4, <2>1
  <2>2. CASE ~(j <= len)
    <3>1. (p + j) - 1 = q + 1
      BY <1>3, <2>2
    <3> QED
      BY <2>2, <3>1
  <2> QED
    BY <2>1, <2>2
<1>8. s \o <<ord[q + 1]>> = t
  BY <1>5, <1>6, <1>7
<1> QED
  BY <1>1, <1>2, <1>8

LEMMA NoStretch == ASSUME NEW ord, NEW n \in Nat PROVE Stretch(ord, n + 1, n) = <<>>
<1>1. n + 1 \in Nat /\ 0 \in Nat /\ 0 = (n - (n + 1)) + 1
  OBVIOUS
<1>2. IsStretch(Stretch(ord, n + 1, n), ord, n + 1, 0)
  BY <1>1, StretchIs
<1>3. PICK s : s = Stretch(ord, n + 1, n)
  OBVIOUS
<1>4. PICK S : s \in Seq(S)
  BY <1>2, <1>3 DEF IsStretch
<1>5. Len(s) = 0
  BY <1>2, <1>3 DEF IsStretch
<1>6. s = <<>>
  BY <1>4, <1>5
<1> QED
  BY <1>3, <1>6

\* Forwards from the first node.
LEMMA ChainFromIs ==
    ASSUME NEW list, NEW ord, NEW h, NEW n, IsList(list, ord, h, n), IsLinked(list, ord, h, n)
    PROVE  ChainFrom(list, Forward(list, HeadNode, 0)) = Stretch(ord, 1, n)
<1> DEFINE D == DOMAIN list.nodes \cup {Nil}
           Body(f, a) == IF a = Nil THEN <<>> ELSE <<a>> \o f[Forward(list, a, 0)]
           chain == CHOOSE f : f = [a \in D |-> Body(f, a)]
<1>1. \A a : ChainFrom(list, a) = chain[a]
  BY DEF ChainFrom
<1> HIDE DEF chain
<1>2. /\ n \in Nat /\ ord[0] = HeadNode
      /\ \A p \in 0 .. n : ord[p] \in DOMAIN list.nodes /\ ord[p] # Nil
      /\ \A a \in DOMAIN list.nodes : \E p \in 0 .. n : a = ord[p]
  <2>1. n \in Nat /\ ord[0] = HeadNode /\ \A p \in 0 .. n : ord[p] \in DOMAIN list.nodes
    BY DEF IsList
  <2>2. \A p \in 0 .. n : ord[p] # Nil
    BY ListFacts
  <2> QED
    BY <2>1, <2>2 DEF IsList
<1>3. PICK pos : \A p \in 0 .. n : pos[ord[p]] = p
  <2>1. \E pos : \A p \in 0 .. n : pos[ord[p]] = p
    <3>1. 0 \in Nat
      OBVIOUS
    <3> QED
      BY <3>1, NodesWithAre
  <2> QED
    BY <2>1
<1>4. Stretch(ord, n + 1, n) = <<>>
  BY <1>2, NoStretch
<1>5. ASSUME NEW f, NEW p \in 0 .. n, f[Nil] = <<>>, p < n => f[ord[p + 1]] = Stretch(ord, p + 1, n)
      PROVE  Body(f, ord[p]) = Stretch(ord, p, n)
  <2>1. Body(f, ord[p]) = <<ord[p]>> \o f[Forward(list, ord[p], 0)]
    BY <1>2
  <2>2. Forward(list, ord[p], 0) = IF p = n THEN Nil ELSE ord[p + 1]
    BY NextOnFloor
  <2>3. f[Forward(list, ord[p], 0)] = Stretch(ord, p + 1, n)
    BY <1>2, <1>4, <1>5, <2>2
  <2> HIDE DEF Body
  <2>4. p \in Nat /\ p <= n
    BY <1>2
  <2> QED
    BY <1>2, <2>1, <2>3, <2>4, StretchFront
<1> DEFINE g == [a \in D |-> IF a = Nil THEN <<>> ELSE Stretch(ord, pos[a], n)]
<1>6. /\ g = [a \in D |-> g[a]] /\ g[Nil] = <<>>
      /\ \A p \in 0 .. n : g[ord[p]] = Stretch(ord, p, n)
  BY <1>2, <1>3
<1> HIDE DEF g
<1>7. \A f : Body(f, Nil) = <<>>
  OBVIOUS
<1> HIDE DEF Body
<1>8. g = [a \in D |-> Body(g, a)]
  <2>1. ASSUME NEW a \in D PROVE g[a] = Body(g, a)
    <3>1. CASE a = Nil
      BY <1>6, <1>7, <3>1
    <3>2. CASE a # Nil
      <4>1. PICK p \in 0 .. n : a = ord[p]
        BY <1>2, <3>2
      <4>2. p < n => p + 1 \in 0 .. n
        BY <1>2
      <4> QED
        BY <1>5, <1>6, <4>1, <4>2
    <3> QED
      BY <3>1, <3>2
  <2> HIDE DEF D
  <2> QED
    BY <1>6, <2>1
<1>9. chain = [a \in D |-> Body(chain, a)]
  BY <1>8 DEF chain
<1>10. chain[Nil] = <<>>
  BY <1>7, <1>9
<1> DEFINE S == {p \in 0 .. n : chain[ord[p]] = Stretch(ord, p, n)}
<1>11. \A p \in 0 .. n : (\A q \in p + 1 .. n : q \in S) => p \in S
  <2>1. ASSUME NEW p \in 0 .. n, \A q \in p + 1 .. n : q \in S PROVE chain[ord[p]] = Stretch(ord, p, n)
    <3>1. p < n => p + 1 \in p + 1 .. n
      BY <1>2
    <3>2. p < n => chain[ord[p + 1]] = Stretch(ord, p + 1, n)
      BY <2>1, <3>1
    <3>3. Body(chain, ord[p]) = Stretch(ord, p, n)
      BY <1>5, <1>10, <3>2
    <3> QED
      BY <1>2, <1>9, <3>3
  <2> QED
    BY <2>1
<1>12. \A p \in 0 .. n : chain[ord[p]] = Stretch(ord, p, n)
  <2>1. \A p \in 0 .. n : p \in S
    <3> HIDE DEF S
    <3> QED
      BY <1>2, <1>11, InductionDown
  <2> QED
    BY <2>1
<1>13. chain[Forward(list, HeadNode, 0)] = Stretch(ord, 1, n)
  <2>1. 0 \in 0 .. n /\ 0 + 1 = 1
    BY <1>2
  <2>2. Forward(list, HeadNode, 0) = IF 0 = n THEN Nil ELSE ord[1]
    BY <1>2, <2>1, NextOnFloor
  <2>3. CASE n = 0
    BY <1>4, <1>10, <2>1, <2>2, <2>3
  <2>4. CASE n # 0
    <3>1. 1 \in 0 .. n
      BY <1>2, <2>4
    <3> QED
      BY <1>12, <2>2, <2>4, <3>1
  <2> QED
    BY <2>3, <2>4
<1> QED
  BY <1>1, <1>13

\* Backwards from the last node.
LEMMA ChainBackIs ==
    ASSUME NEW list, NEW ord, NEW h, NEW n, IsList(list, ord, h, n), IsLinked(list, ord, h, n)
    PROVE  ChainBack(list, list.tail) = Stretch(ord, 1, n)
<1> DEFINE D == DOMAIN list.nodes \cup {Nil}
           Body(f, a) == IF a = Nil THEN <<>> ELSE f[list.nodes[a].backward] \o <<a>>
           chain == CHOOSE f : f = [a \in D |-> Body(f, a)]
           Upto(p) == IF p = 0 THEN <<HeadNode>> ELSE Stretch(ord, 1, p)
<1>1. \A a : ChainBack(list, a) = chain[a]
  BY DEF ChainBack
<1> HIDE DEF chain
<1>2. /\ n \in Nat /\ ord[0] = HeadNode
      /\ \A p \in 0 .. n : ord[p] \in DOMAIN list.nodes /\ ord[p] # Nil
      /\ \A a \in DOMAIN list.nodes : \E p \in 0 .. n : a = ord[p]
  <2>1. n \in Nat /\ ord[0] = HeadNode /\ \A p \in 0 .. n : ord[p] \in DOMAIN list.nodes
    BY DEF IsList
  <2>2. \A p \in 0 .. n : ord[p] # Nil
    BY ListFacts
  <2> QED
    BY <2>1, <2>2 DEF IsList
<1>3. PICK pos : \A p \in 0 .. n : pos[ord[p]] = p
  <2>1. \E pos : \A p \in 0 .. n : pos[ord[p]] = p
    <3>1. 0 \in Nat
      OBVIOUS
    <3> QED
      BY <3>1, NodesWithAre
  <2> QED
    BY <2>1
<1>4. Stretch(ord, 1, 0) = <<>>
  BY NoStretch
<1>5. ASSUME NEW f, NEW p \in 0 .. n, f[Nil] = <<>>, p > 1 => f[ord[p - 1]] = Upto(p - 1)
      PROVE  Body(f, ord[p]) = Upto(p)
  <2>1. PICK b : b = list.nodes[ord[p]].backward
    OBVIOUS
  <2>2. b = IF p <= 1 THEN Nil ELSE ord[p - 1]
    BY <2>1 DEF IsLinked
  <2>3. Body(f, ord[p]) = f[b] \o <<ord[p]>>
    BY <1>2, <2>1
  <2> HIDE DEF Body
  <2>4. CASE p = 0
    <3>1. f[b] = <<>>
      BY <1>5, <2>2, <2>4
    <3>2. <<>> \o <<ord[p]>> = <<ord[p]>>
      OBVIOUS
    <3> QED
      BY <1>2, <2>3, <2>4, <3>1, <3>2
  <2>5. CASE p # 0
    <3>1. p - 1 \in Nat /\ 1 <= (p - 1) + 1 /\ (p - 1) + 1 = p /\ p \in Nat
      BY <1>2, <2>5
    <3>2. f[b] = Stretch(ord, 1, p - 1)
      <4>1. CASE p = 1
        BY <1>4, <1>5, <2>2, <4>1
      <4>2. CASE p # 1
        <5>1. p > 1 /\ ~(p <= 1) /\ p - 1 # 0
          BY <2>5, <3>1, <4>2
        <5> QED
          BY <1>5, <2>2, <5>1
      <4> QED
        BY <4>1, <4>2
    <3>3. PICK q \in Nat : q = p - 1
      BY <3>1
    <3>4. Stretch(ord, 1, q) \o <<ord[q + 1]>> = Stretch(ord, 1, q + 1)
      BY StretchBack
    <3> HIDE DEF Upto
    <3>5. q + 1 = p /\ Upto(p) = Stretch(ord, 1, p)
      BY <2>5, <3>1, <3>3 DEF Upto
    <3> QED
      BY <2>3, <3>2, <3>3, <3>4, <3>5
  <2> QED
    BY <2>4, <2>5
<1> DEFINE g == [a \in D |-> IF a = Nil THEN <<>> ELSE Upto(pos[a])]
<1>6. /\ g = [a \in D |-> g[a]] /\ g[Nil] = <<>>
      /\ \A p \in 0 .. n : g[ord[p]] = Upto(p)
  <2> HIDE DEF Upto
  <2> QED
    BY <1>2, <1>3
<1> HIDE DEF g, Upto
<1>7. \A f : Body(f, Nil) = <<>>
  OBVIOUS
<1> HIDE DEF Body
<1>8. g = [a \in D |-> Body(g, a)]
  <2>1. ASSUME NEW a \in D PROVE g[a] = Body(g, a)
    <3>1. CASE a = Nil
      BY <1>6, <1>7, <3>1
    <3>2. CASE a # Nil
      <4>1. PICK p \in 0 .. n : a = ord[p]
        BY <1>2, <3>2
      <4>2. p > 1 => p - 1 \in 0 .. n
        BY <1>2
      <4> QED
        BY <1>5, <1>6, <4>1, <4>2
    <3> QED
      BY <3>1, <3>2
  <2> HIDE DEF D
  <2> QED
    BY <1>6, <2>1
<1>9. chain = [a \in D |-> Body(chain, a)]
  BY <1>8 DEF chain
<1>10. chain[Nil] = <<>>
  BY <1>7, <1>9
<1>11. ASSUME NEW p \in 0 .. n, p > 1 => chain[ord[p - 1]] = Upto(p - 1)
       PROVE  chain[ord[p]] = Upto(p)
  <2>1. Body(chain, ord[p]) = Upto(p)
    BY <1>5, <1>10, <1>11
  <2> QED
    BY <1>2, <1>9, <2>1
<1> DEFINE S == {p \in Nat : p <= n => chain[ord[p]] = Upto(p)}
<1>12. 0 \in S
  <2>1. 0 \in 0 .. n /\ ~(0 > 1)
    BY <1>2
  <2> QED
    BY <1>11, <2>1
<1>13. ASSUME NEW p \in S PROVE p + 1 \in S
  <2>1. p \in Nat /\ (p <= n => chain[ord[p]] = Upto(p))
    OBVIOUS
  <2>2. ASSUME p + 1 <= n PROVE chain[ord[p + 1]] = Upto(p + 1)
    <3>1. p + 1 \in 0 .. n /\ (p + 1) - 1 = p /\ p <= n
      BY <1>2, <2>1, <2>2
    <3>2. chain[ord[(p + 1) - 1]] = Upto((p + 1) - 1)
      BY <2>1, <3>1
    <3> QED
      BY <1>11, <3>1, <3>2
  <2> QED
    BY <2>1, <2>2
<1>14. S = Nat
  <2>1. S \subseteq Nat
    OBVIOUS
  <2> HIDE DEF S
  <2> QED
    BY <1>12, <1>13, <2>1, InductionOverNat
<1>15. chain[list.tail] = Stretch(ord, 1, n)
  <2>1. list.tail = IF n = 0 THEN Nil ELSE ord[n]
    BY DEF IsLinked
  <2>2. CASE n = 0
    BY <1>4, <1>10, <2>1, <2>2
  <2>3. CASE n # 0
    <3>1. n \in S
      <4> HIDE DEF S
      <4> QED
        BY <1>2, <1>14
    <3>2. n <= n
      BY <1>2
    <3>3. chain[ord[n]] = Upto(n)
      BY <3>1, <3>2
    <3> QED
      BY <2>1, <2>3, <3>3 DEF Upto
  <2> QED
    BY <2>2, <2>3
<1> QED
  BY <1>1, <1>15

-----------------------------------------------------------------------------
(* The list and the dictionary of a sorted set.                            *)

\* The pairs of a list are those of a partial function.
IsPairs(list, ord, n, C) ==
    \A a, b : HasPair(list, ord, n, a, b) <=> (a \in DOMAIN C /\ C[a] = b)

IsListFor(list, C) == \E ord, h, n : IsListOf(list, ord, h, n) /\ IsPairs(list, ord, n, C)

LEMMA EmptyListFor == ASSUME NEW C, C = [k \in {} |-> k] PROVE IsListFor(EmptyList, C)
<1>1. PICK ord : ord = [p \in 0 .. 0 |-> HeadNode]
  OBVIOUS
<1>2. PICK h : h = [p \in 0 .. 0 |-> kMaxLevel]
  OBVIOUS
<1>3. IsListOf(EmptyList, ord, h, 0)
  BY <1>1, <1>2, EmptyListIs DEF IsListOf
<1>4. ASSUME NEW a, NEW b PROVE HasPair(EmptyList, ord, 0, a, b) <=> (a \in DOMAIN C /\ C[a] = b)
  <2>1. DOMAIN C = {} /\ 1 .. 0 = {}
    OBVIOUS
  <2> QED
    BY <2>1 DEF HasPair
<1>5. IsPairs(EmptyList, ord, 0, C)
  BY <1>4 DEF IsPairs
<1> QED
  BY <1>3, <1>5 DEF IsListFor

LEMMA ScoresAre == ASSUME NEW list, NEW C, IsListFor(list, C), NEW m \in DOMAIN C PROVE C[m] \in Int
<1>1. PICK ord, h, n : IsListOf(list, ord, h, n) /\ IsPairs(list, ord, n, C)
  BY DEF IsListFor
<1>2. HasPair(list, ord, n, m, C[m])
  BY <1>1 DEF IsPairs
<1>3. PICK p \in 1 .. n : list.nodes[ord[p]].score = C[m]
  BY <1>2 DEF HasPair
<1>4. n \in Nat /\ \A q \in 0 .. n : list.nodes[ord[q]].score \in Int
  BY <1>1, PairsAre DEF IsListOf
<1> QED
  BY <1>3, <1>4

LEMMA InsertFor ==
    ASSUME NEW list, NEW C, IsListFor(list, C),
           NEW m \in Nat, NEW s \in Int, NEW lvl \in 1 .. kMaxLevel, m \notin DOMAIN C,
           NEW D, DOMAIN D = DOMAIN C \cup {m}, \A k \in DOMAIN D : D[k] = IF k = m THEN s ELSE C[k],
           NEW new, new = ListInsert(list, m, s, lvl)
    PROVE  IsListFor(new, D)
<1>1. PICK ord, h, n : IsListOf(list, ord, h, n) /\ IsPairs(list, ord, n, C)
  BY DEF IsListFor
<1>2. ~HasPair(list, ord, n, m, s)
  BY <1>1 DEF IsPairs
<1>3. PICK ord2, h2 :
         /\ IsListOf(new, ord2, h2, n + 1)
         /\ \A a, b : HasPair(new, ord2, n + 1, a, b) <=> HasPair(list, ord, n, a, b) \/ (a = m /\ b = s)
  BY <1>1, <1>2, ListInsertIs
<1>4. ASSUME NEW a, NEW b
      PROVE  HasPair(new, ord2, n + 1, a, b) <=> (a \in DOMAIN D /\ D[a] = b)
  <2>1. HasPair(list, ord, n, a, b) <=> (a \in DOMAIN C /\ C[a] = b)
    BY <1>1 DEF IsPairs
  <2>2. (a \in DOMAIN C /\ C[a] = b) \/ (a = m /\ b = s) <=> (a \in DOMAIN D /\ D[a] = b)
    OBVIOUS
  <2> QED
    BY <1>3, <2>1, <2>2
<1>5. IsPairs(new, ord2, n + 1, D)
  BY <1>4 DEF IsPairs
<1> QED
  BY <1>3, <1>5 DEF IsListFor

LEMMA EraseFor ==
    ASSUME NEW list, NEW C, IsListFor(list, C), NEW m \in Nat, m \in DOMAIN C,
           NEW D, DOMAIN D = DOMAIN C \ {m}, \A k \in DOMAIN D : D[k] = C[k],
           NEW s, s = C[m], NEW new, new = ListErase(list, m, s)
    PROVE  IsListFor(new, D)
<1>1. PICK ord, h, size : IsListOf(list, ord, h, size) /\ IsPairs(list, ord, size, C)
  BY DEF IsListFor
<1>2. HasPair(list, ord, size, m, s) /\ s \in Int
  BY <1>1, ScoresAre DEF IsPairs
<1>3. PICK ord2, h2, n :
         /\ IsListOf(new, ord2, h2, n)
         /\ \A a, b : HasPair(new, ord2, n, a, b) <=> HasPair(list, ord, size, a, b) /\ ~(a = m /\ b = s)
  BY <1>1, <1>2, ListEraseIs
<1>4. ASSUME NEW a, NEW b
      PROVE  HasPair(new, ord2, n, a, b) <=> (a \in DOMAIN D /\ D[a] = b)
  <2>1. HasPair(list, ord, size, a, b) <=> (a \in DOMAIN C /\ C[a] = b)
    BY <1>1 DEF IsPairs
  <2>2. (a \in DOMAIN C /\ C[a] = b) /\ ~(a = m /\ b = s) <=> (a \in DOMAIN D /\ D[a] = b)
    OBVIOUS
  <2> QED
    BY <1>3, <2>1, <2>2
<1>5. IsPairs(new, ord2, n, D)
  BY <1>4 DEF IsPairs
<1> QED
  BY <1>3, <1>5 DEF IsListFor

\* The list is as long as the dictionary is large.
LEMMA SizeIs ==
    ASSUME NEW t, Sound(t), NEW list, NEW ord, NEW h, NEW n,
           IsListOf(list, ord, h, n), IsPairs(list, ord, n, Contents(t))
    PROVE  n = t.size
<1>1. PICK C : C = Contents(t)
  OBVIOUS
<1>2. DOMAIN C = KeysIn(t) /\ Once(t) /\ t.size = Cardinality(FullSlots(t)) /\ t.cap \in Nat
  <2>1. DOMAIN C = KeysIn(t)
    BY <1>1 DEF Contents, KeysIn
  <2>2. t.cap \in Nat
    BY CapacityFacts DEF Sound, WellFormed
  <2> QED
    BY <2>1, <2>2 DEF Sound, Counted
<1>3. n \in Nat /\ IsList(list, ord, h, n) /\ IsOrdered(list, ord, n) /\ IsPairs(list, ord, n, C)
  BY <1>1 DEF IsListOf, IsList
<1>4. IsFiniteSet(KeysIn(t)) /\ Cardinality(KeysIn(t)) = t.size
  <2> DEFINE S == FullSlots(t)
             K == KeysIn(t)
             f == [i \in S |-> t.slots[i].key]
  <2>1. IsFiniteSet(S)
    <3>1. S \subseteq 0 .. t.cap - 1
      BY DEF FullSlots
    <3>2. IsFiniteSet(0 .. t.cap - 1)
      BY <1>2, FS_Interval
    <3> QED
      BY <3>1, <3>2, FS_Subset
  <2>2. \A i \in S : f[i] \in K
    BY DEF KeysIn
  <2>3. \A k \in K : \E i \in S : f[i] = k
    BY DEF KeysIn
  <2>4. \A i, j \in S : f[i] = f[j] => i = j
    BY <1>2 DEF Once
  <2>5. f \in [S -> K]
    BY <2>2
  <2> HIDE DEF S, K, f
  <2>6. f \in Bijection(S, K)
    BY <2>3, <2>4, <2>5 DEF Bijection, Injection, Surjection, IsInjective
  <2>7. ExistsBijection(S, K)
    BY <2>6 DEF ExistsBijection
  <2>8. IsFiniteSet(K) /\ Cardinality(K) = Cardinality(S)
    BY <2>1, <2>7, FS_Bijection
  <2> QED
    BY <1>2, <2>8 DEF S, K
<1>5. Cardinality(DOMAIN C) = n
  <2> DEFINE P == 1 .. n
             K == DOMAIN C
             f == [p \in P |-> list.nodes[ord[p]].member]
  <2>1. IsFiniteSet(P) /\ Cardinality(P) = n
    BY <1>3, FS_Interval
  <2>2. ASSUME NEW p \in P PROVE f[p] \in K /\ C[f[p]] = list.nodes[ord[p]].score
    <3>1. HasPair(list, ord, n, f[p], list.nodes[ord[p]].score)
      BY DEF HasPair
    <3> QED
      BY <1>3, <3>1 DEF IsPairs
  <2>3. ASSUME NEW k \in K PROVE \E p \in P : f[p] = k
    <3>1. HasPair(list, ord, n, k, C[k])
      BY <1>3 DEF IsPairs
    <3> QED
      BY <3>1 DEF HasPair
  <2>4. ASSUME NEW p \in P, NEW q \in P, f[p] = f[q] PROVE p = q
    <3>1. list.nodes[ord[p]].score = list.nodes[ord[q]].score
      BY <2>2, <2>4
    <3>2. list.nodes[ord[p]].member = list.nodes[ord[q]].member
      BY <2>4
    <3> QED
      BY <1>3, <3>1, <3>2, PairIsOnce
  <2>5. f \in [P -> K]
    BY <2>2
  <2> HIDE DEF P, K, f
  <2>6. f \in Bijection(P, K)
    BY <2>3, <2>4, <2>5 DEF Bijection, Injection, Surjection, IsInjective
  <2>7. ExistsBijection(P, K)
    BY <2>6 DEF ExistsBijection
  <2>8. Cardinality(K) = n
    BY <2>1, <2>7, FS_Bijection
  <2> QED
    BY <2>8 DEF K
<1> QED
  BY <1>2, <1>4, <1>5

\* Score by score, the scores of a sorted set are numbers.
ListInvariant ==
    /\ Values \subseteq Int
    /\ type = "zset" => IsListFor(sl, Contents(dict))

ListKept == type' = type /\ (type = "zset" => IsListFor(sl', Contents(dict')))

\* What the dictionary has for a member, and what is put or dropped.
MorePairs(C, D, k, v) ==
    /\ DOMAIN D = DOMAIN C \cup {k}
    /\ \A j \in DOMAIN D : D[j] = IF j = k THEN v ELSE C[j]

FewerPairs(C, D, k) == DOMAIN D = DOMAIN C \ {k} /\ \A j \in DOMAIN D : D[j] = C[j]

LEMMA PutIs ==
    ASSUME NEW t, NEW u, NEW k, NEW v, IsPut(t, u, k, v), NEW C, C = Contents(t), NEW D, D = Contents(u)
    PROVE  MorePairs(C, D, k, v)
<1>1. DOMAIN Contents(t) = KeysIn(t) /\ DOMAIN Contents(u) = KeysIn(u)
  BY DEF Contents, KeysIn
<1> QED
  BY <1>1 DEF IsPut, MorePairs

LEMMA DropIs ==
    ASSUME NEW t, NEW u, NEW k, IsDrop(t, u, k), NEW C, C = Contents(t), NEW D, D = Contents(u)
    PROVE  FewerPairs(C, D, k)
<1>1. DOMAIN Contents(t) = KeysIn(t) /\ DOMAIN Contents(u) = KeysIn(u)
  BY DEF Contents, KeysIn
<1> QED
  BY <1>1 DEF IsDrop, FewerPairs

LEMMA FoundIs ==
    ASSUME NEW t, Sound(t), NEW m \in Keys, NEW at, at = Find(t, m)
    PROVE  /\ m \in DOMAIN Contents(t) => at >= 0 /\ t.slots[at].value = Contents(t)[m]
           /\ m \notin DOMAIN Contents(t) => at = -1
<1>1. DOMAIN Contents(t) = KeysIn(t)
  BY DEF Contents, KeysIn
<1>2. CASE m \in KeysIn(t)
  <2>1. at >= 0 /\ at \in FullSlots(t) /\ t.slots[at].key = m
    BY <1>2, FindIs
  <2>2. Contents(t)[t.slots[at].key] = t.slots[at].value
    BY <2>1, ContentsAre DEF Sound
  <2> QED
    BY <1>1, <1>2, <2>1, <2>2
<1>3. CASE m \notin KeysIn(t)
  <2>1. at = -1
    BY <1>3, FindIs
  <2> QED
    BY <1>1, <1>3, <2>1
<1> QED
  BY <1>2, <1>3

LEMMA ZSetKeepsList ==
    ASSUME TableInvariant, ListInvariant, NEW m \in Keys, NEW s \in Values, ZSet(m, s)
    PROVE  ListKept
<1>1. PICK C : C = Contents(dict)
  OBVIOUS
<1>2. PICK D : D = Contents(dict')
  OBVIOUS
<1>3. PICK at : at = Find(dict, m)
  OBVIOUS
<1>4. type = "zset" /\ type' = type /\ IsListFor(sl, C) /\ m \in Nat /\ s \in Int
  BY <1>1, ObjectsAssumption DEF ZSet, ListInvariant
<1>5. DOMAIN D = DOMAIN C \cup {m} /\ \A j \in DOMAIN D : D[j] = IF j = m THEN s ELSE C[j]
  <2>1. PICK u : u = dict'
    OBVIOUS
  <2>2. IsPut(dict, u, m, s) /\ D = Contents(u)
    BY <1>2, <2>1, ZSetStep
  <2>3. MorePairs(C, D, m, s)
    BY <1>1, <2>2, PutIs
  <2> QED
    BY <2>3 DEF MorePairs
<1>6. /\ m \in DOMAIN C => at >= 0 /\ dict.slots[at].value = C[m]
      /\ m \notin DOMAIN C => at = -1
  BY <1>1, <1>3, FoundIs DEF TableInvariant
<1>7. CASE at >= 0 /\ dict' = dict /\ sl' = sl
  BY <1>1, <1>4, <1>7 DEF ListKept
<1>8. CASE /\ at >= 0
           /\ \E lvl \in 1 .. kMaxLevel : sl' = Relink(sl, m, dict.slots[at].value, s, lvl)
  <2>1. m \in DOMAIN C /\ dict.slots[at].value = C[m]
    BY <1>6, <1>8
  <2>2. PICK lvl \in 1 .. kMaxLevel : sl' = Relink(sl, m, C[m], s, lvl)
    BY <1>8, <2>1
  <2>3. PICK mid : mid = ListErase(sl, m, C[m])
    OBVIOUS
  <2>4. PICK new : new = ListInsert(mid, m, s, lvl)
    OBVIOUS
  <2>5. sl' = new
    BY <2>2, <2>3, <2>4 DEF Relink
  <2>6. PICK E : E = [k \in DOMAIN C \ {m} |-> C[k]]
    OBVIOUS
  <2>7. DOMAIN E = DOMAIN C \ {m} /\ \A k \in DOMAIN E : E[k] = C[k]
    BY <2>6
  <2>8. IsListFor(mid, E)
    BY <1>4, <2>1, <2>3, <2>7, EraseFor
  <2>9. /\ m \notin DOMAIN E /\ DOMAIN D = DOMAIN E \cup {m}
        /\ \A k \in DOMAIN D : D[k] = IF k = m THEN s ELSE E[k]
    BY <1>5, <2>1, <2>7
  <2>10. IsListFor(new, D)
    BY <1>4, <2>4, <2>8, <2>9, InsertFor
  <2> QED
    BY <1>2, <1>4, <2>5, <2>10 DEF ListKept
<1>9. CASE at < 0 /\ \E lvl \in 1 .. kMaxLevel : sl' = ListInsert(sl, m, s, lvl)
  <2>1. m \notin DOMAIN C
    <3>1. ~(at < 0 /\ at = -1 /\ at >= 0)
      OBVIOUS
    <3>2. m \in DOMAIN C => at \in Nat
      <4>1. m \in KeysIn(dict) => at \in FullSlots(dict) /\ at >= 0
        BY <1>3, FindIs DEF TableInvariant
      <4>2. FullSlots(dict) \subseteq Int
        BY DEF FullSlots
      <4>3. DOMAIN C = KeysIn(dict)
        BY <1>1 DEF Contents, KeysIn
      <4> QED
        BY <4>1, <4>2, <4>3
    <3> QED
      BY <1>9, <3>2
  <2>2. PICK lvl \in 1 .. kMaxLevel : sl' = ListInsert(sl, m, s, lvl)
    BY <1>9
  <2>3. PICK new : new = ListInsert(sl, m, s, lvl)
    OBVIOUS
  <2>4. IsListFor(new, D)
    BY <1>4, <1>5, <2>1, <2>3, InsertFor
  <2> QED
    BY <1>2, <1>4, <2>2, <2>3, <2>4 DEF ListKept
<1> QED
  BY <1>3, <1>7, <1>8, <1>9 DEF ZSet

LEMMA ZRemoveKeepsList ==
    ASSUME TableInvariant, ListInvariant, NEW m \in Keys, ZRemove(m)
    PROVE  ListKept
<1>1. PICK C : C = Contents(dict)
  OBVIOUS
<1>2. PICK D : D = Contents(dict')
  OBVIOUS
<1>3. PICK at : at = Find(dict, m)
  OBVIOUS
<1>4. type = "zset" /\ type' = type /\ IsListFor(sl, C) /\ m \in Nat
  BY <1>1, ObjectsAssumption DEF ZRemove, ListInvariant
<1>5. DOMAIN D = DOMAIN C \ {m} /\ \A j \in DOMAIN D : D[j] = C[j]
  <2>1. PICK u : u = dict'
    OBVIOUS
  <2>2. IsDrop(dict, u, m) /\ D = Contents(u)
    BY <1>2, <2>1, ZRemoveStep
  <2>3. FewerPairs(C, D, m)
    BY <1>1, <2>2, DropIs
  <2> QED
    BY <2>3 DEF FewerPairs
<1>6. /\ m \in DOMAIN C => at >= 0 /\ dict.slots[at].value = C[m]
      /\ m \notin DOMAIN C => at = -1
  BY <1>1, <1>3, FoundIs DEF TableInvariant
<1>7. sl' = IF at < 0 THEN sl ELSE ListErase(sl, m, dict.slots[at].value)
  BY <1>3 DEF ZRemove
<1>8. CASE m \notin DOMAIN C
  <2>1. at < 0
    BY <1>6, <1>8
  <2>2. sl' = sl
    BY <1>7, <2>1
  <2>3. C = [k \in DOMAIN C |-> C[k]] /\ D = [k \in DOMAIN D |-> D[k]]
    BY <1>1, <1>2 DEF Contents
  <2>4. DOMAIN D = DOMAIN C
    BY <1>5, <1>8
  <2>5. D = C
    BY <1>5, <2>3, <2>4
  <2> QED
    BY <1>2, <1>4, <2>2, <2>5 DEF ListKept
<1>9. CASE m \in DOMAIN C
  <2>1. at >= 0 /\ at \in Int /\ dict.slots[at].value = C[m]
    <3>1. m \in KeysIn(dict) => at \in FullSlots(dict)
      BY <1>3, FindIs DEF TableInvariant
    <3>2. FullSlots(dict) \subseteq Int
      BY DEF FullSlots
    <3>3. DOMAIN C = KeysIn(dict)
      BY <1>1 DEF Contents, KeysIn
    <3> QED
      BY <1>6, <1>9, <3>1, <3>2, <3>3
  <2>2. ~(at < 0)
    BY <2>1
  <2>3. PICK new : new = ListErase(sl, m, C[m])
    OBVIOUS
  <2>4. sl' = new
    BY <1>7, <2>1, <2>2, <2>3
  <2>5. IsListFor(new, D)
    BY <1>4, <1>5, <1>9, <2>3, EraseFor
  <2> QED
    BY <1>2, <1>4, <2>4, <2>5 DEF ListKept
<1> QED
  BY <1>8, <1>9

LEMMA ListStep == ASSUME TableInvariant, ListInvariant, [Next]_vars PROVE ListKept
<1>1. KeysOf[type] \subseteq Keys
  BY KeysOfType DEF TableInvariant
<1>2. ASSUME type # "zset", type' = type PROVE ListKept
  BY <1>2 DEF ListKept
<1>3. CASE Next
  <2>1. ASSUME NEW k \in KeysOf[type], NEW v \in Values, TablePut(k, v) PROVE ListKept
    BY <1>2, <2>1 DEF TablePut
  <2>2. ASSUME NEW k \in KeysOf[type], TableErase(k) PROVE ListKept
    BY <1>2, <2>2 DEF TableErase
  <2>3. ASSUME TableClear \/ \E n \in Reservations : TableReserve(n) PROVE ListKept
    BY <1>2, <2>3 DEF TableClear, TableReserve
  <2>4. ASSUME NEW l \in KeysOf[type], (\E vec \in Vectors : Vadd(l, vec)) \/ Vrem(l) PROVE ListKept
    BY <1>2, <2>4 DEF Vadd, Vrem
  <2>5. ASSUME NEW k \in KeysOf[type], NEW v \in Values, ZSet(k, v) PROVE ListKept
    BY <1>1, <2>5, ZSetKeepsList
  <2>6. ASSUME NEW k \in KeysOf[type], ZRemove(k) PROVE ListKept
    BY <1>1, <2>6, ZRemoveKeepsList
  <2> QED
    BY <1>3, <2>1, <2>2, <2>3, <2>4, <2>5, <2>6 DEF Next
<1>4. CASE UNCHANGED vars
  BY <1>4 DEF vars, ListInvariant, ListKept
<1> QED
  BY <1>3, <1>4

LEMMA ListInvariantHolds == Values \subseteq Int /\ Spec => []ListInvariant
<1>1. Values \subseteq Int /\ Init => ListInvariant
  BY TableInit, EmptyListFor DEF Init, ListInvariant
<1>2. TableInvariant /\ ListInvariant /\ [Next]_vars => ListInvariant'
  <2> SUFFICES ASSUME TableInvariant, ListInvariant, [Next]_vars PROVE ListInvariant'
    OBVIOUS
  <2>1. ListKept
    BY ListStep
  <2>2. Values \subseteq Int
    BY DEF ListInvariant
  <2> QED
    BY <2>1, <2>2 DEF ListKept, ListInvariant, IsListFor, IsPairs, HasPair, IsListOf, IsList, IsLinked,
                      IsOrdered, LinkIs, Forward, Span, Contents, FullSlots
<1> QED
  BY <1>1, <1>2, TableInvariantHolds, PTL DEF Spec

LEMMA ChainIs ==
    ASSUME NEW list, NEW ord, NEW h, NEW n, IsListOf(list, ord, h, n),
           NEW chain, chain = ChainFrom(list, Forward(list, HeadNode, 0))
    PROVE  /\ n \in Nat /\ DOMAIN chain = 1 .. n /\ Len(chain) = n
           /\ \A j \in 1 .. n : chain[j] = ord[j]
           /\ ChainBack(list, list.tail) = chain
<1>1. IsList(list, ord, h, n) /\ IsLinked(list, ord, h, n) /\ n \in Nat
  BY DEF IsListOf, IsList
<1>2. chain = Stretch(ord, 1, n)
  BY <1>1, ChainFromIs
<1>3. ChainBack(list, list.tail) = Stretch(ord, 1, n)
  BY <1>1, ChainBackIs
<1>4. IsStretch(chain, ord, 1, n)
  <2>1. 1 \in Nat /\ n = (n - 1) + 1
    BY <1>1
  <2> QED
    BY <1>1, <1>2, <2>1, StretchIs
<1>5. PICK S : chain \in Seq(S)
  BY <1>4 DEF IsStretch
<1>6. Len(chain) = n
  BY <1>4 DEF IsStretch
<1>7. DOMAIN chain = 1 .. n
  BY <1>5, <1>6
<1>8. \A j \in 1 .. n : (1 + j) - 1 = j
  OBVIOUS
<1>9. \A j \in 1 .. n : chain[j] = ord[j]
  BY <1>4, <1>8 DEF IsStretch
<1> QED
  BY <1>1, <1>2, <1>3, <1>6, <1>7, <1>9

\* A node precedes the pair of the next.
LEMMA NextIsLater ==
    ASSUME NEW list, NEW ord, NEW h, NEW n, IsListOf(list, ord, h, n), NEW i \in 1 .. n, i > 1
    PROVE  Precedes(list, ord[i - 1], list.nodes[ord[i]].member, list.nodes[ord[i]].score)
<1>1. IsList(list, ord, h, n) /\ IsOrdered(list, ord, n) /\ n \in Nat
  BY DEF IsListOf, IsList
<1>2. i - 1 \in 1 .. n /\ i - 1 < i /\ i \in 0 .. n /\ i - 1 \in 0 .. n
  BY <1>1
<1>3. /\ list.nodes[ord[i - 1]].score # NaN /\ list.nodes[ord[i]].score # NaN
  BY <1>1, <1>2, PairsAre
<1> QED
  BY <1>1, <1>2, <1>3 DEF IsOrdered, Precedes, Less, Equal

LEMMA ListMatches == ASSUME TableInvariant, ListInvariant PROVE ListMatchesDict
<1>1. SUFFICES ASSUME type = "zset" PROVE ListMatchesDict
  BY DEF ListMatchesDict
<1>2. PICK list : list = sl
  OBVIOUS
<1>3. PICK C : C = Contents(dict)
  OBVIOUS
<1>4. PICK ord, h, n : IsListOf(list, ord, h, n) /\ IsPairs(list, ord, n, C)
  BY <1>1, <1>2, <1>3 DEF ListInvariant, IsListFor
<1>5. PICK chain : chain = ChainFrom(list, Forward(list, HeadNode, 0))
  OBVIOUS
<1>6. /\ n \in Nat /\ DOMAIN chain = 1 .. n /\ Len(chain) = n
      /\ \A j \in 1 .. n : chain[j] = ord[j]
      /\ ChainBack(list, list.tail) = chain
  BY <1>4, <1>5, ChainIs
<1>7. n = dict.size /\ list.length = n
  <2>1. PICK t : t = dict
    OBVIOUS
  <2>2. Sound(t) /\ IsPairs(list, ord, n, Contents(t))
    BY <1>3, <1>4, <2>1 DEF TableInvariant
  <2>3. n = t.size
    BY <1>4, <2>2, SizeIs
  <2>4. list.length = n
    BY <1>4 DEF IsListOf, IsLinked
  <2> QED
    BY <2>1, <2>3, <2>4
<1>8. {<<list.nodes[chain[i]].member, list.nodes[chain[i]].score>> : i \in DOMAIN chain}
        = {<<m, C[m]>> : m \in DOMAIN C}
  <2>1. ASSUME NEW i \in DOMAIN chain
        PROVE  \E m \in DOMAIN C : <<list.nodes[chain[i]].member, list.nodes[chain[i]].score>> = <<m, C[m]>>
    <3>1. HasPair(list, ord, n, list.nodes[chain[i]].member, list.nodes[chain[i]].score)
      BY <1>6 DEF HasPair
    <3> QED
      BY <1>4, <3>1 DEF IsPairs
  <2>2. ASSUME NEW m \in DOMAIN C
        PROVE  \E i \in DOMAIN chain : <<list.nodes[chain[i]].member, list.nodes[chain[i]].score>> = <<m, C[m]>>
    <3>1. HasPair(list, ord, n, m, C[m])
      BY <1>4 DEF IsPairs
    <3>2. PICK p \in 1 .. n : list.nodes[ord[p]].member = m /\ list.nodes[ord[p]].score = C[m]
      BY <3>1 DEF HasPair
    <3> QED
      BY <1>6, <3>2
  <2> QED
    BY <2>1, <2>2
<1>9. ASSUME NEW i \in DOMAIN chain, i > 1
      PROVE  Precedes(list, chain[i - 1], list.nodes[chain[i]].member, list.nodes[chain[i]].score)
  <2>1. i \in 1 .. n /\ i - 1 \in 1 .. n
    BY <1>6, <1>9
  <2>2. chain[i] = ord[i] /\ chain[i - 1] = ord[i - 1]
    BY <1>6, <2>1
  <2> QED
    BY <1>4, <1>9, <2>1, <2>2, NextIsLater
<1> QED
  BY <1>2, <1>3, <1>5, <1>6, <1>7, <1>8, <1>9 DEF ListMatchesDict, Pair

\* The skip list of a sorted set has exactly the pairs of its dictionary, in
\* order, forwards and backwards, whatever was added, moved and removed before
\* (skiplist.hpp:14 and 48), as long as no score is NaN.
THEOREM ListsMatch == Values \subseteq Int /\ Spec => []ListMatchesDict
  BY ListMatches, TableInvariantHolds, ListInvariantHolds, PTL

-----------------------------------------------------------------------------
(* Ranks.                                                                  *)

\* The descent to the first k nodes ends at the last of them.
LEMMA DescentEnds ==
    ASSUME NEW list, NEW ord, NEW h, NEW n, IsListOf(list, ord, h, n),
           NEW k \in 0 .. n, NEW before, before = FirstNodes(ord, k),
           NEW path, path = Descent(list, before)
    PROVE  0 \in 0 .. list.level - 1 /\ path[0] = [node |-> ord[k], rank |-> k] /\ k = LastWith(h, 0, k)
<1>1. IsList(list, ord, h, n) /\ IsLinked(list, ord, h, n)
  BY DEF IsListOf
<1>2. 0 \in 0 .. list.level - 1 /\ 0 \in 0 .. kMaxLevel - 1
  <2>1. list.level \in Nat /\ list.level > 0 /\ list.level <= kMaxLevel /\ kMaxLevel \in Nat
    BY <1>1, ListFacts, SkipListAssumption
  <2> QED
    BY <2>1
<1>3. k = LastWith(h, 0, k)
  BY <1>1, <1>2, LastIs
<1>4. path[0] = [node |-> ord[k], rank |-> k]
  BY <1>1, <1>2, <1>3, DescentIs
<1> QED
  BY <1>2, <1>3, <1>4

\* The first k nodes are those below a score.
AreBelow(list, ord, n, k, v) == \A p \in 1 .. n : p <= k <=> list.nodes[ord[p]].score < v

\* The first node from a score on.
LEMMA FirstGteIs ==
    ASSUME NEW list, NEW ord, NEW h, NEW n, IsListOf(list, ord, h, n), NEW v \in Int
    PROVE  \E k \in 0 .. n :
              /\ AreBelow(list, ord, n, k, v)
              /\ FirstGte(list, v) = IF k = n THEN Nil ELSE ord[k + 1]
<1> DEFINE T == {p \in 1 .. n : list.nodes[ord[p]].score < v}
<1>1. IsList(list, ord, h, n) /\ IsLinked(list, ord, h, n) /\ IsOrdered(list, ord, n)
  BY DEF IsListOf
<1>2. n \in Nat /\ \A p \in 1 .. n : p \in 0 .. n
  BY <1>1, PairsAre
<1>3. \A p \in 1 .. n : list.nodes[ord[p]].score \in Int /\ list.nodes[ord[p]].score # NaN
  BY <1>1, <1>2, PairsAre
<1>4. v # NaN
  BY SkipListAssumption
<1>5. PICK before : before = {x \in ListNodes(list) : Less(list.nodes[x].score, v)}
  OBVIOUS
<1>6. before = {ord[p] : p \in T}
  <2>1. ASSUME NEW x PROVE x \in before <=> \E p \in T : x = ord[p]
    <3>1. x \in ListNodes(list) <=> \E p \in 1 .. n : x = ord[p]
      BY <1>1, PairsAre
    <3>2. \A p \in 1 .. n : Less(list.nodes[ord[p]].score, v) <=> p \in T
      BY <1>3, <1>4 DEF Less
    <3> HIDE DEF T
    <3>3. T \subseteq 1 .. n
      BY DEF T
    <3> QED
      BY <1>5, <3>1, <3>2, <3>3
  <2> HIDE DEF T
  <2> QED
    BY <2>1
<1>7. ASSUME NEW p \in T, NEW r \in 1 .. p PROVE r \in T
  <2>1. p \in 1 .. n /\ r \in 1 .. n /\ (r = p \/ r < p)
    BY <1>2
  <2>2. r < p => list.nodes[ord[r]].score <= list.nodes[ord[p]].score
    BY <1>1, <1>3, <2>1 DEF IsOrdered
  <2> QED
    BY <1>3, <2>1, <2>2
<1>8. T \subseteq 1 .. n
  OBVIOUS
<1> HIDE DEF T
<1>9. \A p \in T : \A r \in 1 .. p : r \in T
  BY <1>7
<1>10. PICK k \in 0 .. n : T = 1 .. k
  BY <1>2, <1>8, <1>9, PrefixIs
<1>11. before = FirstNodes(ord, k)
  BY <1>6, <1>10 DEF FirstNodes
<1>12. AreBelow(list, ord, n, k, v)
  <2>1. \A p \in 1 .. n : p <= k <=> p \in T
    BY <1>2, <1>10
  <2> QED
    BY <2>1 DEF T, AreBelow
<1>13. PICK path : path = Descent(list, before)
  OBVIOUS
<1>14. path[0].node = ord[k]
  <2>1. path[0] = [node |-> ord[k], rank |-> k]
    BY <1>10, <1>11, <1>13, DescentEnds
  <2> QED
    BY <2>1
<1>15. FirstGte(list, v) = Forward(list, ord[k], 0)
  BY <1>5, <1>13, <1>14 DEF FirstGte
<1>16. Forward(list, ord[k], 0) = IF k = n THEN Nil ELSE ord[k + 1]
  BY <1>1, NextOnFloor
<1> QED
  BY <1>10, <1>12, <1>15, <1>16

\* The rank of a pair of the list is its place.
LEMMA RankOfIs ==
    ASSUME NEW list, NEW ord, NEW h, NEW n, IsListOf(list, ord, h, n), NEW q \in 1 .. n,
           NEW m, m = list.nodes[ord[q]].member, NEW s, s = list.nodes[ord[q]].score
    PROVE  RankOf(list, m, s) = q
<1>1. IsList(list, ord, h, n) /\ IsLinked(list, ord, h, n) /\ IsOrdered(list, ord, n)
  BY DEF IsListOf
<1>2. n \in Nat /\ q \in 0 .. n /\ \A p \in 1 .. n : p \in 0 .. n
  BY <1>1, PairsAre
<1>3. \A p \in 1 .. n : /\ list.nodes[ord[p]].score \in Int /\ list.nodes[ord[p]].score # NaN
                        /\ list.nodes[ord[p]].member \in Nat
  BY <1>1, <1>2, PairsAre
<1>4. m \in Nat /\ s \in Int
  BY <1>3
<1>5. PICK k \in 0 .. n :
         /\ Before(list, m, s) = FirstNodes(ord, k)
         /\ \A p \in 1 .. n : p <= k <=> IsBefore(list.nodes[ord[p]].score, list.nodes[ord[p]].member, s, m)
  <2>1. PICK before : before = Before(list, m, s)
    OBVIOUS
  <2>2. \E k \in 0 .. n :
           /\ before = FirstNodes(ord, k)
           /\ \A p \in 1 .. n : p <= k <=> IsBefore(list.nodes[ord[p]].score, list.nodes[ord[p]].member, s, m)
    BY <1>1, <1>4, <2>1, BeforeIs
  <2> QED
    BY <2>1, <2>2
<1>6. ASSUME NEW p \in 1 .. n PROVE p <= k <=> p < q
  <2>1. p < q => IsBefore(list.nodes[ord[p]].score, list.nodes[ord[p]].member, s, m)
    BY <1>1 DEF IsOrdered, IsBefore
  <2>2. p = q => ~IsBefore(list.nodes[ord[p]].score, list.nodes[ord[p]].member, s, m)
    BY <1>4 DEF IsBefore
  <2>3. q < p => ~IsBefore(list.nodes[ord[p]].score, list.nodes[ord[p]].member, s, m)
    BY <1>1, <1>3, <1>4 DEF IsOrdered, IsBefore
  <2>4. p < q \/ p = q \/ q < p
    BY <1>2
  <2> QED
    BY <1>2, <1>5, <2>1, <2>2, <2>3, <2>4
<1>7. k = q - 1
  <2>1. ~(q <= k)
    BY <1>2, <1>6
  <2>2. k + 1 \in 1 .. n
    BY <1>2, <2>1
  <2>3. ~(k + 1 <= k)
    BY <1>2
  <2>4. ~(k + 1 < q)
    BY <1>6, <2>2, <2>3
  <2> QED
    BY <1>2, <2>1, <2>2, <2>4
<1>8. ASSUME NEW x PROVE Holds(list, x, m, s) <=> x = ord[q]
  <2>1. x \in ListNodes(list) <=> \E p \in 1 .. n : x = ord[p]
    BY <1>1, PairsAre
  <2>2. ASSUME NEW p \in 1 .. n, list.nodes[ord[p]].score = s, list.nodes[ord[p]].member = m PROVE p = q
    BY <1>1, <2>2, PairIsOnce
  <2>3. x = ord[q] => Holds(list, x, m, s)
    BY <1>3, <2>1 DEF Holds, Equal
  <2>4. Holds(list, x, m, s) => x = ord[q]
    BY <2>1, <2>2 DEF Holds, Equal
  <2> QED
    BY <2>3, <2>4
<1>9. PICK before : before = Before(list, m, s) \cup {x \in ListNodes(list) : Holds(list, x, m, s)}
  OBVIOUS
<1>10. before = FirstNodes(ord, q)
  <2>1. ASSUME NEW x PROVE x \in before <=> \E p \in 1 .. q : x = ord[p]
    <3>1. x \in before <=> x \in FirstNodes(ord, k) \/ x = ord[q]
      <4>1. ord[q] \in ListNodes(list)
        BY <1>1, PairsAre
      <4> QED
        BY <1>5, <1>8, <1>9, <4>1
    <3>2. x \in FirstNodes(ord, k) <=> \E p \in 1 .. k : x = ord[p]
      BY DEF FirstNodes
    <3>3. \A p : p \in 1 .. q <=> p \in 1 .. k \/ p = q
      BY <1>2, <1>7
    <3> QED
      BY <3>1, <3>2, <3>3
  <2> QED
    BY <2>1 DEF FirstNodes
<1> DEFINE path == Descent(list, before)
           ends == {i \in 0 .. list.level - 1 : Holds(list, path[i].node, m, s)}
<1>11. RankOf(list, m, s) = IF ends = {} THEN 0 ELSE path[Max(ends)].rank
  BY <1>9 DEF RankOf
<1> HIDE DEF path
<1>12. ASSUME NEW i \in ends PROVE path[i].rank = q
  <2>1. PICK l : l = LastWith(h, i, q)
    OBVIOUS
  <2>2. path[i] = [node |-> ord[l], rank |-> l] /\ l \in 0 .. q
    BY <1>1, <1>2, <1>10, <2>1, DescentIs DEF path
  <2>3. path[i].node = ord[q] /\ path[i].node = ord[l] /\ path[i].rank = l
    BY <1>8, <2>2
  <2>4. l \in 0 .. n
    BY <1>2, <2>2
  <2>5. l = q
    BY <1>1, <1>2, <2>3, <2>4 DEF IsList
  <2> QED
    BY <2>3, <2>5
<1>13. 0 \in ends
  <2>1. 0 \in 0 .. list.level - 1 /\ path[0] = [node |-> ord[q], rank |-> q]
    BY <1>2, <1>10, DescentEnds DEF path
  <2>2. Holds(list, path[0].node, m, s)
    BY <1>8, <2>1
  <2> QED
    BY <2>1, <2>2
<1>14. Max(ends) \in ends
  <2>1. list.level \in Nat /\ list.level > 0
    BY <1>1, ListFacts
  <2>2. ends \subseteq 0 .. list.level - 1 /\ ends # {} /\ list.level - 1 \in Nat
    BY <1>13, <2>1
  <2> HIDE DEF ends
  <2> QED
    BY <2>2, GreatestOfNat
<1> HIDE DEF ends
<1> QED
  BY <1>11, <1>12, <1>13, <1>14

\* A walk on one level that goes as far as a rank allows.
LEMMA AdvanceToIs ==
    ASSUME NEW list, NEW ord, NEW h, NEW n, IsList(list, ord, h, n), IsLinked(list, ord, h, n),
           NEW rank \in Nat, NEW k \in 0 .. n, k = IF rank <= n THEN rank ELSE n,
           NEW i \in 0 .. list.level - 1, NEW p \in 0 .. k, i < h[p],
           NEW at, at = [node |-> ord[p], rank |-> p], NEW l, l = LastWith(h, i, k)
    PROVE  AdvanceTo(list, i, at, rank) = [node |-> ord[l], rank |-> l]
<1> DEFINE D == NodesWith(list, i)
           Step(f, m, left) ==
             IF Forward(list, m, i) = Nil \/ Span(list, m, i) > left THEN [node |-> m, rank |-> rank - left]
             ELSE f[Forward(list, m, i)][left - Span(list, m, i)]
           Body(f, m) == [left \in Nat |-> Step(f, m, left)]
           LastAt(x) == LastWith(h, i, IF x <= n THEN x ELSE n)
           To(q, left) == [node |-> ord[LastAt(q + left)], rank |-> (rank - left) + (LastAt(q + left) - q)]
           from == CHOOSE f : f = [m \in D |-> Body(f, m)]
<1>1. AdvanceTo(list, i, at, rank) = from[at.node][rank - at.rank]
  BY DEF AdvanceTo
<1> HIDE DEF D, from
<1>2. n \in Nat /\ k \in Nat /\ i \in Nat /\ \A q \in 0 .. k : q \in 0 .. n
  BY ListFacts
<1>3. /\ \A q \in 0 .. n : i < h[q] => ord[q] \in D
      /\ \A m \in D : \E q \in 0 .. n : m = ord[q] /\ i < h[q]
      /\ \E pos : \A q \in 0 .. n : pos[ord[q]] = q
  BY <1>2, NodesWithAre DEF D
<1>4. PICK pos : \A q \in 0 .. n : pos[ord[q]] = q
  BY <1>3
<1>5. ASSUME NEW f, NEW q \in 0 .. n, i < h[q], NEW left \in Nat,
             \A r \in q + 1 .. n : i < h[r] => \A x \in Nat : f[ord[r]][x] = To(r, x)
      PROVE  Step(f, ord[q], left) = To(q, left)
  <2>1. PICK next : next = Forward(list, ord[q], i)
    OBVIOUS
  <2>2. PICK c : c = IF q + left <= n THEN q + left ELSE n
    OBVIOUS
  <2>3. c \in 0 .. n /\ q \in 0 .. c /\ c <= q + left
    BY <1>2, <2>2
  <2>4. PICK z : z = LastWith(h, i, c)
    OBVIOUS
  <2>5. z = LastAt(q + left)
    BY <2>2, <2>4
  <2>6. /\ z \in 0 .. c /\ q <= z
        /\ q < z => \E r \in q + 1 .. z :
                       next = ord[r] /\ i < h[r] /\ Span(list, ord[q], i) = r - q /\ next # Nil
        /\ ~(q < z) => (next # Nil => \E r \in q + 1 .. n : r \notin 0 .. c /\ Span(list, ord[q], i) = r - q)
    BY <1>5, <2>1, <2>3, <2>4, NextIs
  <2>7. CASE q < z
    <3>1. PICK r \in q + 1 .. z : next = ord[r] /\ i < h[r] /\ Span(list, ord[q], i) = r - q /\ next # Nil
      BY <2>6, <2>7
    <3>2. PICK x : x = left - (r - q)
      OBVIOUS
    <3>3. r \in q + 1 .. n /\ ~(r - q > left) /\ x \in Nat /\ r + x = q + left
      BY <1>2, <2>3, <2>6, <3>1, <3>2
    <3>4. Step(f, ord[q], left) = f[ord[r]][x]
      BY <2>1, <3>1, <3>2, <3>3
    <3>5. f[ord[r]][x] = To(r, x)
      BY <1>5, <3>1, <3>3
    <3>6. (rank - x) + (z - r) = (rank - left) + (z - q)
      BY <1>2, <2>3, <2>6, <3>1, <3>2
    <3> HIDE DEF Step, LastAt
    <3>7. To(r, x) = To(q, left)
      BY <2>5, <3>3, <3>6
    <3> QED
      BY <3>4, <3>5, <3>7
  <2>8. CASE ~(q < z)
    <3>1. z = q
      BY <1>2, <2>3, <2>6, <2>8
    <3>2. next = Nil \/ Span(list, ord[q], i) > left
      <4>1. ASSUME next # Nil PROVE Span(list, ord[q], i) > left
        <5>1. PICK r \in q + 1 .. n : r \notin 0 .. c /\ Span(list, ord[q], i) = r - q
          BY <2>6, <2>8, <4>1
        <5>2. r - q > left
          BY <1>2, <2>2, <2>3, <5>1
        <5> QED
          BY <5>1, <5>2
      <4> QED
        BY <4>1
    <3>3. Step(f, ord[q], left) = [node |-> ord[q], rank |-> rank - left]
      BY <2>1, <3>2
    <3>4. (rank - left) + (q - q) = rank - left
      BY <1>2
    <3> HIDE DEF Step, LastAt
    <3>5. To(q, left) = [node |-> ord[q], rank |-> rank - left]
      BY <2>5, <3>1, <3>4
    <3> QED
      BY <3>3, <3>5
  <2> QED
    BY <2>7, <2>8
<1> HIDE DEF To, Step
<1> DEFINE g == [m \in D |-> [left \in Nat |-> To(pos[m], left)]]
<1>6. g = [m \in D |-> g[m]]
  OBVIOUS
<1>7. \A q \in 0 .. n : i < h[q] => g[ord[q]] = [left \in Nat |-> To(q, left)]
  BY <1>3, <1>4
<1> HIDE DEF g
<1>8. ASSUME NEW q \in 0 .. n, i < h[q] PROVE \A x \in Nat : g[ord[q]][x] = To(q, x)
  BY <1>7, <1>8, ZenonT(30)
<1>9. ASSUME NEW m \in D PROVE g[m] = Body(g, m)
  <2>1. PICK q \in 0 .. n : m = ord[q] /\ i < h[q]
    BY <1>3
  <2>2. \A r \in q + 1 .. n : r \in 0 .. n
    BY <1>2
  <2>3. \A r \in q + 1 .. n : i < h[r] => \A x \in Nat : g[ord[r]][x] = To(r, x)
    BY <1>8, <2>2
  <2>4. \A left \in Nat : Step(g, m, left) = To(q, left)
    BY <1>5, <2>1, <2>3
  <2>5. g[m] = [left \in Nat |-> To(q, left)]
    BY <1>7, <2>1
  <2> QED
    BY <2>4, <2>5
<1> HIDE DEF Body
<1>10. g = [m \in D |-> Body(g, m)]
  BY <1>6, <1>9
<1>11. from = [m \in D |-> Body(from, m)]
  BY <1>10 DEF from
<1> DEFINE S == {q \in 0 .. n : i < h[q] => \A x \in Nat : from[ord[q]][x] = To(q, x)}
<1>12. \A q \in 0 .. n : (\A r \in q + 1 .. n : r \in S) => q \in S
  <2>1. ASSUME NEW q \in 0 .. n, \A r \in q + 1 .. n : r \in S, i < h[q], NEW x \in Nat
        PROVE  from[ord[q]][x] = To(q, x)
    <3>1. Step(from, ord[q], x) = To(q, x)
      BY <1>5, <2>1
    <3>2. from[ord[q]] = Body(from, ord[q])
      BY <1>3, <1>11, <2>1
    <3>3. Body(from, ord[q])[x] = Step(from, ord[q], x)
      BY DEF Body
    <3> QED
      BY <3>1, <3>2, <3>3
  <2> QED
    BY <2>1
<1>13. p \in S
  <2> HIDE DEF S
  <2>1. \A q \in 0 .. n : q \in S
    BY <1>2, <1>12, InductionDown
  <2> QED
    BY <1>2, <2>1
<1>14. rank - p \in Nat /\ p + (rank - p) = rank /\ rank - (rank - p) = p
  BY <1>2
<1>15. from[ord[p]][rank - p] = To(p, rank - p)
  BY <1>13, <1>14
<1>16. LastAt(rank) = l
  OBVIOUS
<1>17. p + (l - p) = l
  <2>1. PICK f : f = Forward(list, ord[p], i)
    OBVIOUS
  <2>2. p \in 0 .. n
    BY <1>2
  <2>3. l \in 0 .. k
    BY <2>1, <2>2, NextIs
  <2> QED
    BY <1>2, <2>3
<1> HIDE DEF LastAt
<1>18. To(p, rank - p) = [node |-> ord[l], rank |-> l]
  <2>1. To(p, rank - p) = [node |-> ord[LastAt(rank)], rank |-> p + (LastAt(rank) - p)]
    BY <1>14 DEF To
  <2> QED
    BY <1>16, <1>17, <2>1
<1> QED
  BY <1>1, <1>15, <1>18

\* Each level of the descent to a rank ends at the last node up to the rank
\* that has the level, and the floor at the node.
LEMMA AtRankIs ==
    ASSUME NEW list, NEW ord, NEW h, NEW n, IsListOf(list, ord, h, n), NEW rank \in Nat
    PROVE  AtRank(list, rank) = IF rank \in 1 .. n THEN ord[rank] ELSE Nil
<1> DEFINE top == list.level - 1
           k == IF rank <= n THEN rank ELSE n
           At(j) == [node |-> ord[LastWith(h, j, k)], rank |-> LastWith(h, j, k)]
           Body(f, j) == AdvanceTo(list, j, IF j = top THEN Start ELSE f[j + 1], rank)
           at == CHOOSE f : f = [j \in 0 .. top |-> Body(f, j)]
           ends == {j \in 0 .. list.level - 1 : at[j].rank = rank /\ at[j].node # HeadNode}
<1>1. AtRank(list, rank) = IF ends = {} THEN Nil ELSE at[Max(ends)].node
  BY DEF AtRank
<1> HIDE DEF at
<1>2. IsList(list, ord, h, n) /\ IsLinked(list, ord, h, n)
  BY DEF IsListOf
<1>3. n \in Nat /\ top \in Nat /\ top = list.level - 1
  BY <1>2, ListFacts
<1>4. k \in 0 .. n /\ (rank \in 0 .. n => k = rank)
  BY <1>3
<1>5. \A j \in 0 .. top : j \in Nat /\ j < h[0] /\ j \in 0 .. list.level - 1
  BY <1>2, <1>3, ListFacts
<1>6. ASSUME NEW j \in 0 .. top
      PROVE  LET r == LastWith(h, j, k)
             IN  r \in 0 .. k /\ j < h[r] /\ (j = 0 => r = k)
  <2>1. j \in 0 .. kMaxLevel - 1
    <3>1. list.level <= kMaxLevel /\ list.level \in Nat /\ kMaxLevel \in Nat
      BY <1>2, ListFacts, SkipListAssumption
    <3> QED
      BY <1>3, <3>1
  <2>2. PICK c : c = k
    OBVIOUS
  <2>3. PICK r : r = LastWith(h, j, c)
    OBVIOUS
  <2>4. c \in 0 .. n
    BY <1>4, <2>2
  <2>5. r \in 0 .. c /\ j < h[r] /\ (j = 0 => r = c)
    BY <1>2, <2>1, <2>3, <2>4, LastIs
  <2> HIDE DEF k
  <2> QED
    BY <2>2, <2>3, <2>5
<1>7. ASSUME NEW c \in 0 .. n, c = k, NEW j \in 0 .. top, NEW p \in 0 .. c, j < h[p],
             NEW a, a = [node |-> ord[p], rank |-> p]
      PROVE  AdvanceTo(list, j, a, rank) = At(j)
  <2>1. PICK l : l = LastWith(h, j, c)
    OBVIOUS
  <2>2. AdvanceTo(list, j, a, rank) = [node |-> ord[l], rank |-> l]
    <3>1. j \in 0 .. list.level - 1
      BY <1>3
    <3> QED
      BY <1>2, <1>7, <2>1, <3>1, AdvanceToIs
  <2> HIDE DEF k
  <2> QED
    BY <1>7, <2>1, <2>2
<1> HIDE DEF k
<1>8. PICK c \in 0 .. n : c = k
  BY <1>4
<1>9. ASSUME NEW j \in 0 .. top, NEW f, j # top => f[j + 1] = At(j + 1)
      PROVE  Body(f, j) = At(j)
  <2>1. CASE j = top
    <3>1. Start = [node |-> ord[0], rank |-> 0]
      BY <1>2 DEF Start, IsList
    <3>2. 0 \in 0 .. c /\ j < h[0]
      BY <1>3, <1>5, <1>8
    <3>3. PICK a : a = Start
      OBVIOUS
    <3> HIDE DEF At, top
    <3>4. AdvanceTo(list, j, a, rank) = At(j)
      BY <1>7, <1>8, <3>1, <3>2, <3>3
    <3> QED
      BY <2>1, <3>3, <3>4
  <2>2. CASE j # top
    <3>1. j + 1 \in 0 .. top
      BY <1>3, <2>2
    <3>2. PICK p : p = LastWith(h, j + 1, k)
      OBVIOUS
    <3>3. p \in 0 .. k /\ j + 1 < h[p]
      BY <1>6, <3>1, <3>2
    <3>4. p \in 0 .. c /\ j < h[p]
      <4>1. p \in 0 .. c /\ p \in 0 .. n
        BY <1>3, <1>8, <3>3
      <4>2. h[p] \in Nat
        BY <1>2, <4>1, ListFacts
      <4> QED
        BY <1>3, <3>3, <4>1, <4>2
    <3>5. PICK a : a = [node |-> ord[p], rank |-> p]
      OBVIOUS
    <3>6. f[j + 1] = a
      BY <1>9, <2>2, <3>2, <3>5
    <3> HIDE DEF At, top
    <3>7. AdvanceTo(list, j, a, rank) = At(j)
      BY <1>7, <1>8, <3>4, <3>5
    <3> QED
      BY <2>2, <3>6, <3>7
  <2> QED
    BY <2>1, <2>2
<1> DEFINE d == [j \in 0 .. top |-> At(j)]
<1>10. \A j \in 0 .. top : d[j] = At(j)
  OBVIOUS
<1>11. d = [j \in 0 .. top |-> d[j]]
  OBVIOUS
<1> HIDE DEF d, At, Body, top
<1>12. d = [j \in 0 .. top |-> Body(d, j)]
  <2>1. ASSUME NEW j \in 0 .. top PROVE d[j] = Body(d, j)
    <3>1. j # top => j + 1 \in 0 .. top
      BY <1>3
    <3> QED
      BY <1>9, <1>10, <3>1
  <2> QED
    BY <1>11, <2>1
<1>13. at = [j \in 0 .. top |-> Body(at, j)]
  BY <1>12 DEF at
<1> DEFINE S == {j \in 0 .. top : at[j] = At(j)}
<1>14. \A j \in 0 .. top : (\A q \in j + 1 .. top : q \in S) => j \in S
  <2>1. ASSUME NEW j \in 0 .. top, \A q \in j + 1 .. top : q \in S PROVE at[j] = At(j)
    <3>1. j # top => j + 1 \in j + 1 .. top
      BY <1>3
    <3>2. j # top => at[j + 1] = At(j + 1)
      BY <2>1, <3>1
    <3>3. Body(at, j) = At(j)
      BY <1>9, <3>2
    <3> QED
      BY <1>13, <3>3
  <2> QED
    BY <2>1
<1>15. \A j \in 0 .. top : at[j] = At(j)
  <2>1. \A j \in 0 .. top : j \in S
    <3> HIDE DEF S
    <3> QED
      BY <1>3, <1>14, InductionDown
  <2> QED
    BY <2>1
<1>16. ASSUME NEW j \in 0 .. top
       PROVE  \E r \in 0 .. k : at[j].rank = r /\ at[j].node = ord[r] /\ (j = 0 => r = k)
  <2>1. PICK r : r = LastWith(h, j, k)
    OBVIOUS
  <2>2. r \in 0 .. k /\ (j = 0 => r = k)
    BY <1>6, <2>1
  <2>3. at[j] = [node |-> ord[r], rank |-> r]
    BY <1>15, <2>1 DEF At
  <2> QED
    BY <2>2, <2>3
<1>17. ord[0] = HeadNode /\ \A p \in 0 .. n : ord[p] = HeadNode => p = 0
  <2>1. 0 \in 0 .. n
    BY <1>3
  <2> QED
    BY <1>2, <2>1 DEF IsList
<1>18. CASE rank \in 1 .. n
  <2>1. k = rank /\ rank # 0 /\ rank \in 0 .. n
    BY <1>4, <1>18
  <2>2. 0 \in ends
    <3>1. 0 \in 0 .. top
      BY <1>3
    <3>2. at[0].rank = rank /\ at[0].node = ord[rank]
      BY <1>16, <2>1, <3>1
    <3>3. ord[rank] # HeadNode
      BY <1>17, <2>1
    <3> QED
      BY <1>3, <3>1, <3>2, <3>3
  <2>3. Max(ends) \in ends
    <3>1. ends \subseteq 0 .. top
      BY <1>3
    <3> HIDE DEF ends
    <3>2. ends # {}
      BY <2>2
    <3> QED
      BY <1>3, <3>1, <3>2, GreatestOfNat
  <2>4. \A j \in ends : at[j].node = ord[rank]
    <3>1. ASSUME NEW j \in ends PROVE at[j].node = ord[rank]
      <4>1. j \in 0 .. top /\ at[j].rank = rank
        BY <1>3
      <4> QED
        BY <1>16, <4>1
    <3> QED
      BY <3>1
  <2> HIDE DEF ends
  <2> QED
    BY <1>1, <1>18, <2>2, <2>3, <2>4
<1>19. CASE rank \notin 1 .. n
  <2>1. ASSUME NEW j \in ends PROVE FALSE
    <3>1. j \in 0 .. top /\ at[j].rank = rank /\ at[j].node # HeadNode
      BY <1>3
    <3>2. PICK r \in 0 .. k : at[j].rank = r /\ at[j].node = ord[r]
      BY <1>16, <3>1
    <3>3. rank \in 0 .. n
      BY <1>3, <1>4, <3>1, <3>2
    <3>4. rank = 0
      BY <1>3, <1>19, <3>3
    <3> QED
      BY <1>17, <3>1, <3>2, <3>4
  <2>2. ends = {}
    BY <2>1
  <2> HIDE DEF ends
  <2> QED
    BY <1>1, <1>19, <2>2
<1> QED
  BY <1>18, <1>19

LEMMA RanksMatch == ASSUME ListInvariant PROVE RanksAreExact
<1>1. SUFFICES ASSUME type = "zset" PROVE RanksAreExact
  BY DEF RanksAreExact
<1>2. PICK list : list = sl
  OBVIOUS
<1>3. PICK ord, h, n : IsListOf(list, ord, h, n)
  BY <1>1, <1>2 DEF ListInvariant, IsListFor
<1>4. PICK chain : chain = ChainFrom(list, Forward(list, HeadNode, 0))
  OBVIOUS
<1>5. /\ n \in Nat /\ DOMAIN chain = 1 .. n /\ Len(chain) = n
      /\ \A j \in 1 .. n : chain[j] = ord[j]
  BY <1>3, <1>4, ChainIs
<1>6. ASSUME NEW i \in DOMAIN chain
      PROVE  /\ RankOf(list, list.nodes[chain[i]].member, list.nodes[chain[i]].score) = i
             /\ AtRank(list, i) = chain[i]
  <2>1. i \in 1 .. n /\ i \in Nat /\ chain[i] = ord[i]
    BY <1>5
  <2>2. PICK m : m = list.nodes[ord[i]].member
    OBVIOUS
  <2>3. PICK s : s = list.nodes[ord[i]].score
    OBVIOUS
  <2>4. RankOf(list, m, s) = i
    BY <1>3, <2>1, <2>2, <2>3, RankOfIs
  <2>5. AtRank(list, i) = ord[i]
    BY <1>3, <2>1, AtRankIs
  <2> QED
    BY <2>1, <2>2, <2>3, <2>4, <2>5
<1>7. AtRank(list, 0) = Nil
  <2>1. 0 \in Nat /\ 0 \notin 1 .. n
    OBVIOUS
  <2> QED
    BY <1>3, <2>1, AtRankIs
<1>8. AtRank(list, Len(chain) + 1) = Nil
  <2>1. n + 1 \in Nat /\ n + 1 \notin 1 .. n
    BY <1>5
  <2>2. AtRank(list, n + 1) = Nil
    BY <1>3, <2>1, AtRankIs
  <2> QED
    BY <1>5, <2>2
<1>9. ASSUME NEW v \in Values
      PROVE  LET from == {i \in DOMAIN chain : ~Less(list.nodes[chain[i]].score, v)}
             IN  FirstGte(list, v) = IF from = {} THEN Nil ELSE chain[Min(from)]
  <2>1. PICK from : from = {i \in DOMAIN chain : ~Less(list.nodes[chain[i]].score, v)}
    OBVIOUS
  <2>2. v \in Int /\ v # NaN
    BY SkipListAssumption DEF ListInvariant
  <2>3. PICK k \in 0 .. n :
           AreBelow(list, ord, n, k, v) /\ FirstGte(list, v) = IF k = n THEN Nil ELSE ord[k + 1]
    BY <1>3, <2>2, FirstGteIs
  <2>4. ASSUME NEW p \in 1 .. n PROVE p \in from <=> k < p
    <3>1. p \in 0 .. n /\ IsList(list, ord, h, n)
      BY <1>3, <1>5 DEF IsListOf
    <3>2. list.nodes[ord[p]].score # NaN
      BY <3>1, PairsAre
    <3>3. Less(list.nodes[chain[p]].score, v) <=> p <= k
      BY <1>5, <2>2, <2>3, <3>2 DEF Less, AreBelow
    <3>4. p <= k <=> ~(k < p)
      BY <1>5, <2>3
    <3> QED
      BY <1>5, <2>1, <3>3, <3>4
  <2>5. from \subseteq 1 .. n /\ from \subseteq Nat
    BY <1>5, <2>1
  <2>6. CASE k = n
    <3>1. from = {}
      BY <1>5, <2>4, <2>5, <2>6
    <3> QED
      BY <2>1, <2>3, <2>6, <3>1
  <2>7. CASE k # n
    <3>1. k + 1 \in 1 .. n /\ k + 1 \in from
      BY <1>5, <2>3, <2>4, <2>7
    <3>2. from # {}
      BY <3>1
    <3>3. Min(from) \in from /\ \A i \in from : Min(from) <= i
      BY <2>5, <3>2, LeastOfNat
    <3>4. Min(from) = k + 1
      <4>1. PICK least : least = Min(from)
        OBVIOUS
      <4>2. least \in 1 .. n /\ k < least /\ least <= k + 1
        BY <2>4, <2>5, <3>1, <3>3, <4>1
      <4>3. least = k + 1
        BY <1>5, <2>3, <4>2
      <4> QED
        BY <4>1, <4>3
    <3>5. chain[k + 1] = ord[k + 1]
      BY <1>5, <3>1
    <3> QED
      BY <2>1, <2>3, <2>7, <3>2, <3>4, <3>5
  <2> QED
    BY <2>6, <2>7
<1> QED
  BY <1>2, <1>4, <1>6, <1>7, <1>8, <1>9 DEF RanksAreExact

\* The spans add up to the place of every node, a place outside finds nothing,
\* and the first node from a score on is the first in order, whatever towers
\* insertions and deletions left (ZRANK, ZRANGE and ZRANGEBYSCORE), as long as
\* no score is NaN.
THEOREM RanksHold == Values \subseteq Int /\ Spec => []RanksAreExact
  BY RanksMatch, ListInvariantHolds, PTL

=============================================================================
