----------------------------- MODULE MpscProofs -----------------------------
(***************************************************************************)
(* Proofs about module Mpsc, for any number of producers, nodes and items: *)
(* no wake-up is lost, no deleted node is linked, and the lock-free stack  *)
(* with its take-all and reversal implements the FIFO of module Mailbox.   *)
(*                                                                         *)
(* The nodes that can be reached from head_, list and prev form three      *)
(* chains.  That the chains are finite, end in Null and share no node with *)
(* each other or with a node still being pushed is the inductive invariant *)
(* (Shape); what ValuesFrom computes from a chain is shown by induction on *)
(* its length.                                                             *)
(***************************************************************************)
EXTENDS Mpsc, SequenceTheorems, FiniteSetTheorems, WellFoundedInduction, TLAPS

\* The type invariant is kept by every step; a producer inside push() has a node.
NodesKnown == \A q \in Producers : pc[q] \in {"load", "link", "cas"} => node[q] \in Addrs
TypeInv == TypeOK /\ NodesKnown

LEMMA InitType == Init => TypeInv
  BY DEF Init, TypeInv, TypeOK, NodesKnown

LEMMA StepType == TypeInv /\ [Next]_vars => TypeInv'
<1> SUFFICES ASSUME TypeInv, [Next]_vars PROVE TypeInv'
  OBVIOUS
<1> USE DEF TypeInv, TypeOK, NodesKnown
<1>1. ASSUME NEW q \in Producers, NewNode(q) PROVE TypeInv'
  BY <1>1 DEF NewNode
<1>2. ASSUME NEW q \in Producers, LoadHead(q) PROVE TypeInv'
  BY <1>2 DEF LoadHead
<1>3. ASSUME NEW q \in Producers, Link(q) PROVE TypeInv'
  BY <1>3 DEF Link
<1>4. ASSUME NEW q \in Producers, CasSucceeds(q) PROVE TypeInv'
  BY <1>4 DEF CasSucceeds
<1>5. ASSUME NEW q \in Producers, CasFails(q) PROVE TypeInv'
  BY <1>5 DEF CasFails
<1>6. ASSUME NEW q \in Producers, Notify(q) PROVE TypeInv'
  BY <1>6 DEF Notify
<1>7. CASE WaitWoken
  BY <1>7 DEF WaitWoken
<1>8. CASE WaitOther
  BY <1>8 DEF WaitOther
<1>9. CASE ClearWake
  BY <1>9 DEF ClearWake
<1>10. CASE Exchange
  BY <1>10 DEF Exchange
<1>11. CASE Reverse
  BY <1>11 DEF Reverse
<1>12. CASE RunAndDelete
  BY <1>12 DEF RunAndDelete
<1>13. CASE UNCHANGED vars
  BY <1>13 DEF vars
<1> QED
  BY <1>1, <1>2, <1>3, <1>4, <1>5, <1>6, <1>7, <1>8, <1>9, <1>10, <1>11, <1>12, <1>13
     DEF Next, Produce, Consume

\* The type invariant, for any number of producers and nodes.
THEOREM TypeCorrect == Spec => []TypeInv
  BY InitType, StepType, PTL DEF Spec
-----------------------------------------------------------------------------
(* Wake-ups.                                                               *)

\* Outside the two steps that empty the queue, queued tasks have a wake-up coming.
WakeupComing ==
    cpc \notin {"clear", "exchange"} /\ head_ # Null
      => wake \/ \E q \in Producers : pc[q] = "notify"

LEMMA StepWakeup == TypeInv /\ WakeupComing /\ [Next]_vars => WakeupComing'
<1> SUFFICES ASSUME TypeInv, WakeupComing, [Next]_vars PROVE WakeupComing'
  OBVIOUS
<1> USE DEF WakeupComing
<1>1. ASSUME NEW q \in Producers, NewNode(q) \/ LoadHead(q) \/ Link(q) \/ CasFails(q)
      PROVE  WakeupComing'
  BY <1>1 DEF NewNode, LoadHead, Link, CasFails, TypeInv, TypeOK
<1>2. ASSUME NEW q \in Producers, CasSucceeds(q) PROVE WakeupComing'
  BY <1>2 DEF CasSucceeds, TypeInv, TypeOK
<1>3. ASSUME NEW q \in Producers, Notify(q) PROVE WakeupComing'
  BY <1>3 DEF Notify
<1>4. CASE Consume \/ WaitOther
  BY <1>4 DEF Consume, WaitWoken, WaitOther, ClearWake, Exchange, Reverse, RunAndDelete
<1>5. CASE UNCHANGED vars
  BY <1>5 DEF vars
<1> QED
  BY <1>1, <1>2, <1>3, <1>4, <1>5 DEF Next, Produce

\* However pushes, notifications and drains interleave, the consumer never goes
\* to sleep on a queue that is not empty without a notification still to come.
THEOREM WakeupsKept == Spec => []NoLostWakeup
<1>1. Init => WakeupComing
  BY DEF Init, WakeupComing
<1>2. WakeupComing => NoLostWakeup
  BY DEF WakeupComing, NoLostWakeup
<1> QED
  BY <1>1, <1>2, StepWakeup, TypeCorrect, PTL DEF Spec
-----------------------------------------------------------------------------
(* What the recursive function Linked computes.                            *)

N == Cardinality(Addrs)
Ptr == Addrs \cup {Null}

\* A set of natural numbers that has 0 and the successor of each element has all.
LEMMA InductionOverNat ==
    ASSUME NEW S, S \subseteq Nat, 0 \in S, \A n \in S : n + 1 \in S
    PROVE  S = Nat
<1> DEFINE R == OpToRel(<, Nat)
           T == Nat \ S
<1>1. SUFFICES ASSUME T # {} PROVE FALSE
  OBVIOUS
<1>2. PICK x \in T : \A y \in T : ~(<<y, x>> \in R)
  <2>1. IsWellFoundedOn(R, Nat)
    BY NatLessThanWellFounded
  <2>2. T \subseteq Nat
    OBVIOUS
  <2> HIDE DEF R, T
  <2> QED
    BY <1>1, <2>1, <2>2, WFMin
<1>3. x \in Nat /\ x # 0 /\ x - 1 \in Nat /\ x - 1 < x
  OBVIOUS
<1>4. x - 1 \notin T
  BY <1>2, <1>3 DEF OpToRel
<1>5. (x - 1) + 1 \in S
  BY <1>3, <1>4
<1> QED
  BY <1>3, <1>5

\* The equation that defines Linked has a solution, so Linked is one.
LEMMA LinkedUnfolds ==
    \A n \in 0 .. N : Linked[n] =
        [a \in Ptr |-> IF n = 0 \/ a = Null THEN <<>> ELSE <<value[a]>> \o Linked[n - 1][next[a]]]
<1> DEFINE Body(g, n) == [a \in Ptr |-> IF n = 0 \/ a = Null THEN <<>>
                                         ELSE <<value[a]>> \o g[n - 1][next[a]]]
           Solves(g, m) == g = [n \in 0 .. m |-> Body(g, n)]
           Solvable == {m \in Nat : \E g : Solves(g, m)}
<1>1. 0 \in Solvable
  <2> DEFINE g == [n \in 0 .. 0 |-> [a \in Ptr |-> <<>>]]
  <2>1. Solves(g, 0)
    OBVIOUS
  <2> HIDE DEF Solves, g
  <2> QED
    BY <2>1
<1>2. ASSUME NEW m \in Solvable PROVE m + 1 \in Solvable
  <2>1. m \in Nat
    OBVIOUS
  <2>2. PICK g : Solves(g, m)
    OBVIOUS
  <2> DEFINE h == [n \in 0 .. m + 1 |-> IF n \in 0 .. m THEN g[n] ELSE Body(g, n)]
  <2>3. ASSUME NEW n \in 0 .. m + 1 PROVE h[n] = Body(h, n)
    <3>1. CASE n = 0
      BY <2>1, <2>2, <3>1
    <3>2. CASE n # 0
      <4>1. n - 1 \in 0 .. m /\ n - 1 \in 0 .. m + 1
        BY <2>1, <3>2
      <4>2. h[n - 1] = g[n - 1]
        BY <4>1
      <4>3. h[n] = Body(g, n)
        <5>1. CASE n \in 0 .. m
          <6>1. g[n] = Body(g, n)
            BY <2>2, <5>1
          <6> HIDE DEF Body, Solves
          <6> QED
            BY <5>1, <6>1
        <5>2. CASE n \notin 0 .. m
          <6> HIDE DEF Body, Solves
          <6> QED
            BY <5>2
        <5> QED
          BY <5>1, <5>2
      <4> HIDE DEF h
      <4> QED
        BY <4>2, <4>3
    <3> QED
      BY <3>1, <3>2
  <2>4. Solves(h, m + 1)
    <3>1. h = [n \in 0 .. m + 1 |-> h[n]]
      OBVIOUS
    <3> HIDE DEF h, Body
    <3> QED
      BY <2>3, <3>1
  <2> HIDE DEF Solves, h
  <2> QED
    BY <2>1, <2>4
<1>3. N \in Solvable
  <2>1. Solvable \subseteq Nat
    OBVIOUS
  <2>2. N \in Nat
    BY MpscAssumption, FS_CardinalityType DEF N, MpscAssumption
  <2> HIDE DEF Solvable
  <2>3. Solvable = Nat
    BY <1>1, <1>2, <2>1, InductionOverNat
  <2> QED
    BY <2>2, <2>3
<1>4. Solves(Linked, N)
  <2>1. Linked = CHOOSE g : Solves(g, N)
    BY DEF Linked, N, Ptr
  <2>2. \E g : Solves(g, N)
    BY <1>3
  <2> HIDE DEF Solves
  <2> QED
    BY <2>1, <2>2
<1> QED
  BY <1>4
-----------------------------------------------------------------------------
(* Chains.                                                                 *)

\* s is the sequence of nodes that the pointers nx link from a to Null.
IsChain(nx, a, s) ==
    /\ s \in Seq(Addrs)
    /\ a = IF Len(s) = 0 THEN Null ELSE s[1]
    /\ \A i \in 1 .. Len(s) : nx[s[i]] = IF i = Len(s) THEN Null ELSE s[i + 1]

Elems(s)  == {s[i] : i \in 1 .. Len(s)}
NoDup(s)  == \A i, j \in 1 .. Len(s) : s[i] = s[j] => i = j
Cons(x, s) == <<x>> \o s
Vals(v, s) == [i \in 1 .. Len(s) |-> v[s[i]]]

LEMMA ConsFacts ==
    ASSUME NEW x \in Addrs, NEW s \in Seq(Addrs)
    PROVE  /\ Cons(x, s) \in Seq(Addrs)
           /\ Len(Cons(x, s)) = Len(s) + 1
           /\ Cons(x, s)[1] = x
           /\ \A i \in 2 .. Len(s) + 1 : Cons(x, s)[i] = s[i - 1]
<1>1. <<x>> \in Seq(Addrs) /\ Len(<<x>>) = 1 /\ <<x>>[1] = x
  OBVIOUS
<1>2. Len(s) \in Nat
  BY LenProperties
<1> QED
  BY <1>1, <1>2, ConcatProperties DEF Cons

\* The first node of a chain that is not empty, and the chain behind it.
LEMMA ChainTail ==
    ASSUME NEW nx, NEW a, NEW s, IsChain(nx, a, s), a # Null
    PROVE  /\ Len(s) \in Nat \ {0} /\ s[1] = a /\ a \in Addrs
           /\ Tail(s) \in Seq(Addrs)
           /\ Len(Tail(s)) = Len(s) - 1
           /\ \A i \in 1 .. Len(s) - 1 : Tail(s)[i] = s[i + 1]
           /\ s = Cons(a, Tail(s))
           /\ IsChain(nx, nx[a], Tail(s))
<1>1. s \in Seq(Addrs) /\ Len(s) \in Nat /\ Len(s) # 0 /\ s # <<>>
  BY LenProperties, EmptySeq DEF IsChain
<1>2. s[1] = a /\ a \in Addrs
  BY <1>1, ElementOfSeq DEF IsChain
<1>3. /\ Tail(s) \in Seq(Addrs) /\ Len(Tail(s)) = Len(s) - 1
      /\ \A i \in 1 .. Len(s) - 1 : Tail(s)[i] = s[i + 1]
  BY <1>1, HeadTailProperties
<1>4. s = Cons(a, Tail(s))
  <2> DEFINE c == Cons(a, Tail(s))
  <2>0. /\ c \in Seq(Addrs) /\ Len(c) = Len(Tail(s)) + 1 /\ c[1] = a
        /\ \A i \in 2 .. Len(Tail(s)) + 1 : c[i] = Tail(s)[i - 1]
    BY <1>2, <1>3, ConsFacts
  <2> HIDE DEF c
  <2>1. /\ c \in Seq(Addrs) /\ Len(c) = Len(s) /\ c[1] = s[1]
        /\ \A i \in 2 .. Len(s) : c[i] = s[i]
    BY <1>1, <1>2, <1>3, <2>0
  <2>2. \A i \in 1 .. Len(s) : c[i] = s[i]
    BY <1>1, <2>1
  <2>3. c = s
    BY <1>1, <2>1, <2>2, SeqEqual
  <2> QED
    BY <2>3 DEF c
<1>5. IsChain(nx, nx[a], Tail(s))
  <2>1. \A i \in 1 .. Len(s) : nx[s[i]] = IF i = Len(s) THEN Null ELSE s[i + 1]
    BY DEF IsChain
  <2> DEFINE t == Tail(s)
  <2>2. /\ t \in Seq(Addrs) /\ Len(t) = Len(s) - 1
        /\ \A i \in 1 .. Len(s) - 1 : t[i] = s[i + 1]
    BY <1>3
  <2> HIDE DEF t
  <2>3. nx[a] = IF Len(t) = 0 THEN Null ELSE t[1]
    <3>1. 1 \in 1 .. Len(s) /\ 1 + 1 = 2
      BY <1>1
    <3>2. nx[s[1]] = IF 1 = Len(s) THEN Null ELSE s[1 + 1]
      BY <2>1, <3>1
    <3> QED
      BY <1>1, <1>2, <2>2, <3>1, <3>2
  <2>4. ASSUME NEW i \in 1 .. Len(t) PROVE nx[t[i]] = IF i = Len(t) THEN Null ELSE t[i + 1]
    <3>1. i + 1 \in 1 .. Len(s) /\ t[i] = s[i + 1]
      BY <1>1, <2>2
    <3>2. nx[s[i + 1]] = IF i + 1 = Len(s) THEN Null ELSE s[(i + 1) + 1]
      BY <2>1, <3>1
    <3>3. i # Len(t) => t[i + 1] = s[(i + 1) + 1]
      BY <1>1, <2>2
    <3> QED
      BY <1>1, <2>2, <3>1, <3>2, <3>3
  <2>5. IsChain(nx, nx[a], t)
    BY <2>2, <2>3, <2>4 DEF IsChain
  <2> QED
    BY <2>5 DEF t
<1> QED
  BY <1>1, <1>2, <1>3, <1>4, <1>5

\* A chain changes only with the pointers of its own nodes.
LEMMA ChainFrame ==
    ASSUME NEW nx, NEW ny, NEW a, NEW s, IsChain(nx, a, s),
           \A x \in Elems(s) : ny[x] = nx[x]
    PROVE  IsChain(ny, a, s)
  BY DEF IsChain, Elems

\* A node whose pointer is the start of a chain makes it longer by one.
LEMMA ChainCons ==
    ASSUME NEW nx, NEW a, NEW s, IsChain(nx, a, s), NEW x \in Addrs, nx[x] = a
    PROVE  IsChain(nx, x, Cons(x, s))
<1>1. s \in Seq(Addrs) /\ Len(s) \in Nat
  BY LenProperties DEF IsChain
<1> DEFINE c == Cons(x, s)
<1>2. /\ c \in Seq(Addrs) /\ Len(c) = Len(s) + 1 /\ c[1] = x
      /\ \A i \in 2 .. Len(s) + 1 : c[i] = s[i - 1]
  BY <1>1, ConsFacts
<1> HIDE DEF c
<1>3. a = IF Len(s) = 0 THEN Null ELSE s[1]
  BY DEF IsChain
<1>4. \A i \in 1 .. Len(s) : nx[s[i]] = IF i = Len(s) THEN Null ELSE s[i + 1]
  BY DEF IsChain
<1>5. ASSUME NEW i \in 1 .. Len(c) PROVE nx[c[i]] = IF i = Len(c) THEN Null ELSE c[i + 1]
  <2>1. CASE i = 1
    BY <1>1, <1>2, <1>3, <2>1
  <2>2. CASE i # 1
    <3>1. i - 1 \in 1 .. Len(s) /\ i \in 2 .. Len(s) + 1
      BY <1>1, <1>2, <2>2
    <3>2. c[i] = s[i - 1]
      BY <1>2, <3>1
    <3>3. i # Len(c) => i + 1 \in 2 .. Len(s) + 1 /\ c[i + 1] = s[i]
      BY <1>1, <1>2, <3>1
    <3> QED
      BY <1>1, <1>2, <1>4, <3>1, <3>2, <3>3
  <2> QED
    BY <2>1, <2>2
<1>6. x = IF Len(c) = 0 THEN Null ELSE c[1]
  BY <1>1, <1>2
<1>7. IsChain(nx, x, c)
  BY <1>2, <1>5, <1>6 DEF IsChain
<1> QED
  BY <1>7 DEF c

\* A chain without repetition is no longer than there are addresses.
LEMMA ChainLength ==
    ASSUME NEW s \in Seq(Addrs), NoDup(s)
    PROVE  /\ Len(s) <= N
           /\ IsFiniteSet(Elems(s))
           /\ Cardinality(Elems(s)) = Len(s)
<1>1. Len(s) \in Nat /\ s \in [1 .. Len(s) -> Addrs]
  BY LenProperties
<1>2. s \in Bijection(1 .. Len(s), Elems(s))
  BY <1>1 DEF Elems, NoDup, Bijection, Injection, Surjection, IsInjective
<1>3. IsFiniteSet(1 .. Len(s)) /\ Cardinality(1 .. Len(s)) = Len(s)
  BY <1>1, FS_Interval
<1>4. IsFiniteSet(Elems(s)) /\ Cardinality(Elems(s)) = Len(s)
  BY <1>2, <1>3, FS_Bijection DEF ExistsBijection
<1>5. Elems(s) \subseteq Addrs
  BY <1>1 DEF Elems
<1>6. Cardinality(Elems(s)) <= N
  BY <1>5, MpscAssumption, FS_Subset DEF MpscAssumption, N
<1> QED
  BY <1>4, <1>6

\* The values of a chain that is not empty.
LEMMA ValsCons ==
    ASSUME NEW v, NEW x \in Addrs, NEW s \in Seq(Addrs)
    PROVE  Vals(v, Cons(x, s)) = <<v[x]>> \o Vals(v, s)
<1> DEFINE V == {v[a] : a \in Addrs}
           c == Cons(x, s)
           l == Vals(v, c)
           r == <<v[x]>> \o Vals(v, s)
<1>1. Len(s) \in Nat /\ s \in [1 .. Len(s) -> Addrs]
  BY LenProperties
<1>2. Vals(v, s) \in Seq(V) /\ Len(Vals(v, s)) = Len(s)
  <2>1. Vals(v, s) \in [1 .. Len(s) -> V]
    BY <1>1 DEF Vals
  <2> HIDE DEF V
  <2> QED
    BY <1>1, <2>1, IsASeq, LenProperties
<1>3. /\ c \in Seq(Addrs) /\ Len(c) = Len(s) + 1 /\ c[1] = x
      /\ \A i \in 2 .. Len(s) + 1 : c[i] = s[i - 1]
  BY ConsFacts
<1> HIDE DEF c
<1>4. l = [i \in 1 .. Len(s) + 1 |-> v[c[i]]]
  BY <1>3 DEF Vals
<1>5. v[x] \in V
  OBVIOUS
<1>6. <<v[x]>> \in Seq(V) /\ Len(<<v[x]>>) = 1 /\ <<v[x]>>[1] = v[x]
  BY <1>5
<1>7. /\ r \in Seq(V) /\ Len(r) = 1 + Len(s) /\ r[1] = v[x]
      /\ \A i \in 2 .. Len(s) + 1 : r[i] = Vals(v, s)[i - 1]
  <2> HIDE DEF V
  <2> QED
    BY <1>1, <1>2, <1>6, ConcatProperties
<1>8. \A i \in 2 .. Len(s) + 1 : Vals(v, s)[i - 1] = v[s[i - 1]]
  BY <1>1 DEF Vals
<1>9. l \in Seq(V) /\ Len(l) = Len(s) + 1
  <2>1. l \in [1 .. Len(s) + 1 -> V]
    BY <1>1, <1>3, <1>4, LenProperties
  <2> HIDE DEF V, l
  <2> QED
    BY <1>1, <2>1, IsASeq, LenProperties
<1>10. \A i \in 1 .. Len(s) + 1 : l[i] = r[i]
  <2> HIDE DEF r, V
  <2> QED
    BY <1>1, <1>3, <1>4, <1>7, <1>8
<1>11. l = r
  <2> HIDE DEF l, r, V
  <2> QED
    BY <1>7, <1>9, <1>10, SeqEqual
<1> QED
  BY <1>11 DEF c

\* Linked collects the values of a chain that is not longer than its bound.
LEMMA LinkedIsVals ==
    ASSUME NEW n \in 0 .. N, NEW a, NEW s, IsChain(next, a, s), Len(s) <= n
    PROVE  Linked[n][a] = Vals(value, s)
<1> DEFINE Right == {m \in Nat : m <= N => \A b, t : IsChain(next, b, t) /\ Len(t) <= m
                                                       => Linked[m][b] = Vals(value, t)}
<1>0. N \in Nat
  BY MpscAssumption, FS_CardinalityType DEF N, MpscAssumption
<1>1. ASSUME NEW m \in 0 .. N, NEW b, NEW t, IsChain(next, b, t), Len(t) = 0
      PROVE  Linked[m][b] = Vals(value, t)
  <2>1. b = Null /\ b \in Ptr
    BY <1>1 DEF IsChain, Ptr
  <2>2. Linked[m][b] = <<>>
    BY <2>1, LinkedUnfolds
  <2>3. Vals(value, t) = <<>>
    BY <1>1 DEF Vals
  <2> QED
    BY <2>2, <2>3
<1>2. 0 \in Right
  <2>1. ASSUME NEW b, NEW t, IsChain(next, b, t), Len(t) <= 0 PROVE Linked[0][b] = Vals(value, t)
    <3>1. Len(t) = 0
      BY <2>1, LenProperties DEF IsChain
    <3> QED
      BY <1>0, <1>1, <2>1, <3>1
  <2> QED
    BY <2>1
<1>3. ASSUME NEW m \in Right PROVE m + 1 \in Right
  <2>1. SUFFICES ASSUME m + 1 <= N, NEW b, NEW t, IsChain(next, b, t), Len(t) <= m + 1
                 PROVE  Linked[m + 1][b] = Vals(value, t)
    OBVIOUS
  <2>2. m \in Nat /\ m + 1 \in 0 .. N /\ m \in 0 .. N /\ m + 1 # 0 /\ (m + 1) - 1 = m
    BY <1>0, <2>1
  <2>3. CASE b = Null
    <3>1. Len(t) = 0
      BY <2>1, <2>3, LenProperties, MpscAssumption DEF IsChain, MpscAssumption
    <3> QED
      BY <1>1, <2>1, <2>2, <3>1
  <2>4. CASE b # Null
    <3>1. /\ b \in Addrs /\ Tail(t) \in Seq(Addrs) /\ Len(Tail(t)) = Len(t) - 1
          /\ t = Cons(b, Tail(t)) /\ IsChain(next, next[b], Tail(t)) /\ Len(t) \in Nat
      BY <2>1, <2>4, ChainTail
    <3>2. Linked[m][next[b]] = Vals(value, Tail(t))
      <4>1. Len(Tail(t)) <= m /\ m <= N
        BY <1>0, <2>1, <2>2, <3>1
      <4>2. \A c, u : IsChain(next, c, u) /\ Len(u) <= m => Linked[m][c] = Vals(value, u)
        BY <4>1
      <4> HIDE DEF Right
      <4> QED
        BY <3>1, <4>1, <4>2
    <3>3. Linked[m + 1][b] = <<value[b]>> \o Linked[m][next[b]]
      <4>1. b \in Ptr
        BY <3>1 DEF Ptr
      <4> DEFINE k == m + 1
      <4>2. Linked[k] = [c \in Ptr |-> IF k = 0 \/ c = Null THEN <<>>
                                         ELSE <<value[c]>> \o Linked[k - 1][next[c]]]
        <5> HIDE DEF Right
        <5> QED
          BY <2>2, LinkedUnfolds
      <4>3. k # 0 /\ k - 1 = m
        BY <2>2
      <4> HIDE DEF k, Right
      <4>4. Linked[k][b] = <<value[b]>> \o Linked[m][next[b]]
        BY <2>4, <4>1, <4>2, <4>3
      <4> QED
        BY <4>4 DEF k
    <3>4. Vals(value, t) = <<value[b]>> \o Vals(value, Tail(t))
      BY <3>1, ValsCons
    <3> HIDE DEF Right
    <3> QED
      BY <3>2, <3>3, <3>4
  <2> QED
    BY <2>3, <2>4
<1>4. Right = Nat
  <2>1. Right \subseteq Nat
    OBVIOUS
  <2> HIDE DEF Right
  <2> QED
    BY <1>2, <1>3, <2>1, InductionOverNat
<1>5. n \in Right
  <2> HIDE DEF Right
  <2> QED
    BY <1>4
<1> QED
  BY <1>5
-----------------------------------------------------------------------------
(* The inductive invariant.                                                *)

Pushing(q) == pc[q] \in {"load", "link", "cas"}
NewNodes   == {node[q] : q \in {r \in Producers : Pushing(r)}}

\* The pointer of a node that is about to be published.
LinksReady ==
    /\ \A q \in Producers : pc[q] = "cas" => next[node[q]] = head[q]
    /\ \A a \in live : value[a] \in Items

\* Each producer has a node of its own, which is in no chain.
NodesApart(U) ==
    /\ \A q \in Producers : Pushing(q) => node[q] \notin U
    /\ \A q, r \in Producers : Pushing(q) /\ Pushing(r) /\ node[q] = node[r] => q = r

\* The consumer works on one list at a time.
ConsumerPhase ==
    /\ cpc # "reverse" <=> list = Null
    /\ cpc \notin {"reverse", "run"} => prev = Null
    /\ cpc = "run" => prev # Null

Apart(h, l, p) ==
    /\ NoDup(h) /\ NoDup(l) /\ NoDup(p)
    /\ Elems(h) \cap Elems(l) = {}
    /\ Elems(h) \cap Elems(p) = {}
    /\ Elems(l) \cap Elems(p) = {}

\* h, l and p are the nodes linked from head_, list and prev; together with
\* the nodes still to be published they are the ones allocated.
Shape(h, l, p) ==
    /\ IsChain(next, head_, h) /\ IsChain(next, list, l) /\ IsChain(next, prev, p)
    /\ Apart(h, l, p)
    /\ NodesApart(Elems(h) \cup Elems(l) \cup Elems(p))
    /\ live = Elems(h) \cup Elems(l) \cup Elems(p) \cup NewNodes

MpscInvariant ==
    /\ TypeInv
    /\ LinksReady
    /\ ConsumerPhase
    /\ \E h, l, p \in Seq(Addrs) : Shape(h, l, p)

\* The elements of a longer chain.
LEMMA ElemsCons ==
    ASSUME NEW x \in Addrs, NEW s \in Seq(Addrs)
    PROVE  /\ Elems(Cons(x, s)) = Elems(s) \cup {x}
           /\ x \notin Elems(s) /\ NoDup(s) <=> NoDup(Cons(x, s))
<1> DEFINE c == Cons(x, s)
<1>1. /\ c \in Seq(Addrs) /\ Len(c) = Len(s) + 1 /\ c[1] = x
      /\ \A i \in 2 .. Len(s) + 1 : c[i] = s[i - 1]
  BY ConsFacts
<1>2. Len(s) \in Nat
  BY LenProperties
<1> HIDE DEF c
<1>3. \A i \in 1 .. Len(s) : i + 1 \in 1 .. Len(c) /\ c[i + 1] = s[i]
  BY <1>1, <1>2
<1>4. \A i \in 1 .. Len(c) : i = 1 \/ (i - 1 \in 1 .. Len(s) /\ c[i] = s[i - 1])
  BY <1>1, <1>2
<1>5. 1 \in 1 .. Len(c)
  BY <1>1, <1>2
<1>6. Elems(c) = Elems(s) \cup {x}
  <2>1. ASSUME NEW y \in Elems(c) PROVE y \in Elems(s) \cup {x}
    BY <1>1, <1>4, <2>1 DEF Elems
  <2>2. ASSUME NEW y \in Elems(s) PROVE y \in Elems(c)
    BY <1>3, <2>2 DEF Elems
  <2>3. x \in Elems(c)
    BY <1>1, <1>5 DEF Elems
  <2> QED
    BY <2>1, <2>2, <2>3
<1>7. ASSUME x \notin Elems(s), NoDup(s) PROVE NoDup(c)
  <2> SUFFICES ASSUME NEW i \in 1 .. Len(c), NEW j \in 1 .. Len(c), c[i] = c[j] PROVE i = j
    BY DEF NoDup
  <2>1. i = 1 => j = 1
    BY <1>1, <1>4, <1>7 DEF Elems
  <2>2. j = 1 => i = 1
    BY <1>1, <1>4, <1>7 DEF Elems
  <2>3. CASE i # 1 /\ j # 1
    <3>1. i - 1 \in 1 .. Len(s) /\ j - 1 \in 1 .. Len(s) /\ s[i - 1] = s[j - 1]
      BY <1>4, <2>3
    <3>2. i - 1 = j - 1
      BY <1>7, <3>1 DEF NoDup
    <3> QED
      BY <3>2
  <2> QED
    BY <2>1, <2>2, <2>3
<1>8. ASSUME NoDup(c) PROVE x \notin Elems(s) /\ NoDup(s)
  <2>1. ASSUME NEW i \in 1 .. Len(s), s[i] = x PROVE FALSE
    <3>1. i + 1 \in 1 .. Len(c) /\ c[i + 1] = c[1]
      BY <1>1, <1>3, <2>1
    <3>2. i + 1 = 1
      BY <1>5, <1>8, <3>1 DEF NoDup
    <3> QED
      BY <3>2
  <2>2. ASSUME NEW i \in 1 .. Len(s), NEW j \in 1 .. Len(s), s[i] = s[j] PROVE i = j
    <3>1. i + 1 \in 1 .. Len(c) /\ j + 1 \in 1 .. Len(c) /\ c[i + 1] = c[j + 1]
      BY <1>3, <2>2
    <3>2. i + 1 = j + 1
      BY <1>8, <3>1 DEF NoDup
    <3> QED
      BY <3>2
  <2> QED
    BY <2>1, <2>2 DEF Elems, NoDup
<1> QED
  BY <1>6, <1>7, <1>8 DEF c

\* The chain of a null pointer is empty.
LEMMA NullChain ==
    ASSUME NEW nx, NEW s, IsChain(nx, Null, s)
    PROVE  s = <<>> /\ Elems(s) = {}
<1>1. s \in Seq(Addrs) /\ Len(s) \in Nat
  BY LenProperties DEF IsChain
<1>2. Len(s) = 0
  <2> SUFFICES ASSUME Len(s) # 0 PROVE FALSE
    OBVIOUS
  <2>1. s[1] \in Addrs /\ s[1] = Null
    BY <1>1, ElementOfSeq DEF IsChain
  <2> QED
    BY <2>1, MpscAssumption DEF MpscAssumption
<1>3. s = <<>>
  BY <1>1, <1>2, EmptySeq
<1> QED
  BY <1>2, <1>3 DEF Elems

LEMMA EmptyChain ==
    ASSUME NEW nx
    PROVE  IsChain(nx, Null, <<>>) /\ Elems(<<>>) = {} /\ NoDup(<<>>)
  BY EmptySeq DEF IsChain, Elems, NoDup

LEMMA InitInvariant == Init => MpscInvariant
<1> SUFFICES ASSUME Init PROVE MpscInvariant
  OBVIOUS
<1>1. NewNodes = {} /\ \A q \in Producers : ~Pushing(q)
  BY DEF Init, NewNodes, Pushing
<1>2. Shape(<<>>, <<>>, <<>>)
  BY <1>1, EmptyChain DEF Init, Shape, Apart, NodesApart
<1>3. LinksReady /\ ConsumerPhase
  BY MpscAssumption DEF Init, LinksReady, ConsumerPhase
<1>4. <<>> \in Seq(Addrs)
  BY EmptySeq
<1> QED
  BY <1>2, <1>3, <1>4, InitType DEF MpscInvariant

\* Steps that touch no node and let nobody enter or leave push().
LEMMA QuietShape ==
    ASSUME UNCHANGED <<head_, next, live, node, list, prev>>,
           \A q \in Producers : Pushing(q)' <=> Pushing(q),
           NEW h \in Seq(Addrs), NEW l \in Seq(Addrs), NEW p \in Seq(Addrs), Shape(h, l, p)
    PROVE  Shape(h, l, p)'
<1>1. NewNodes' = NewNodes
  BY DEF NewNodes
<1> QED
  BY <1>1 DEF Shape, NodesApart

LEMMA QuietStep ==
    ASSUME MpscInvariant, TypeInv', ConsumerPhase',
           UNCHANGED <<head_, next, value, live, node, list, prev>>,
           \A q \in Producers : Pushing(q)' <=> Pushing(q),
           \A q \in Producers : pc'[q] = "cas" => pc[q] = "cas" /\ head'[q] = head[q]
    PROVE  MpscInvariant'
<1>1. PICK h, l, p \in Seq(Addrs) : Shape(h, l, p)
  BY DEF MpscInvariant
<1>3. Shape(h, l, p)'
  BY <1>1, QuietShape
<1>4. LinksReady'
  BY DEF LinksReady, MpscInvariant
<1> QED
  BY <1>3, <1>4 DEF MpscInvariant

\* A new node is in no chain.
LEMMA NewNodeShape ==
    ASSUME MpscInvariant, NEW q \in Producers, NewNode(q),
           NEW h \in Seq(Addrs), NEW l \in Seq(Addrs), NEW p \in Seq(Addrs), Shape(h, l, p)
    PROVE  /\ Shape(h, l, p)'
           /\ \A y \in live : next'[y] = next[y] /\ value'[y] = value[y]
<1>2. PICK a \in Addrs \ live, x \in Items :
        /\ live' = live \cup {a} /\ next' = [next EXCEPT ![a] = Null]
        /\ value' = [value EXCEPT ![a] = x] /\ node' = [node EXCEPT ![q] = a]
  BY DEF NewNode
<1>3. /\ pc[q] = "idle" /\ pc' = [pc EXCEPT ![q] = "load"]
      /\ UNCHANGED <<head_, wake, head, cpc, list, prev>>
  BY DEF NewNode
<1>4. TypeOK
  BY DEF MpscInvariant, TypeInv
<1> DEFINE U == Elems(h) \cup Elems(l) \cup Elems(p)
<1>5. U \subseteq live /\ NewNodes \subseteq live
  BY DEF Shape
<1>6. \A y \in live : next'[y] = next[y] /\ value'[y] = value[y]
  BY <1>2, <1>4 DEF TypeOK
<1>7. IsChain(next', head_', h) /\ IsChain(next', list', l) /\ IsChain(next', prev', p)
  BY <1>3, <1>5, <1>6, ChainFrame DEF Shape
<1>8. \A r \in Producers : Pushing(r)' <=> Pushing(r) \/ r = q
  BY <1>3, <1>4 DEF Pushing, TypeOK
<1>9. ~Pushing(q) /\ \A r \in Producers : r # q => node'[r] = node[r]
  BY <1>2, <1>3, <1>4 DEF Pushing, TypeOK
<1>10. node'[q] = a
  BY <1>2, <1>4 DEF TypeOK
<1>11. NewNodes' = NewNodes \cup {a}
  BY <1>8, <1>9, <1>10 DEF NewNodes
<1>12. NodesApart(U)'
  <2>1. \A r \in Producers : Pushing(r) => node[r] \in live /\ node[r] \notin U
    BY <1>5 DEF Shape, NodesApart, NewNodes
  <2>2. \A r, t \in Producers : Pushing(r) /\ Pushing(t) /\ node[r] = node[t] => r = t
    BY DEF Shape, NodesApart
  <2> HIDE DEF U
  <2> QED
    BY <1>2, <1>5, <1>8, <1>9, <1>10, <2>1, <2>2 DEF NodesApart
<1>13. live' = U \cup NewNodes'
  BY <1>2, <1>11 DEF Shape
<1>14. Shape(h, l, p)'
  BY <1>7, <1>12, <1>13 DEF Shape
<1> QED
  BY <1>6, <1>14

LEMMA NewNodeKeeps ==
    ASSUME MpscInvariant, TypeInv', NEW q \in Producers, NewNode(q)
    PROVE  MpscInvariant'
<1>1. PICK h, l, p \in Seq(Addrs) : Shape(h, l, p)
  BY DEF MpscInvariant
<1>2. PICK a \in Addrs \ live, x \in Items :
        /\ live' = live \cup {a} /\ next' = [next EXCEPT ![a] = Null]
        /\ value' = [value EXCEPT ![a] = x] /\ node' = [node EXCEPT ![q] = a]
  BY DEF NewNode
<1>3. /\ pc[q] = "idle" /\ pc' = [pc EXCEPT ![q] = "load"]
      /\ UNCHANGED <<head_, wake, head, cpc, list, prev>>
  BY DEF NewNode
<1>4. TypeOK
  BY DEF MpscInvariant, TypeInv
<1>5. NewNodes \subseteq live
  BY <1>1 DEF Shape
<1>6. Shape(h, l, p)' /\ \A y \in live : next'[y] = next[y] /\ value'[y] = value[y]
  BY <1>1, NewNodeShape
<1>9. \A r \in Producers : r # q => node'[r] = node[r]
  BY <1>2, <1>3, <1>4 DEF Pushing, TypeOK
<1>15. LinksReady'
  <2>1. \A r \in Producers : pc'[r] = "cas" => r # q /\ pc[r] = "cas" /\ node'[r] = node[r] /\ node[r] \in live
    BY <1>3, <1>4, <1>5, <1>9 DEF TypeOK, NewNodes, Pushing
  <2>2. value'[a] = x
    BY <1>2, <1>4 DEF TypeOK
  <2>3. \A y \in live' : value'[y] \in Items
    BY <1>2, <1>6, <2>2 DEF LinksReady, MpscInvariant
  <2> QED
    BY <1>3, <1>6, <2>1, <2>3 DEF LinksReady, MpscInvariant
<1>16. ConsumerPhase'
  BY <1>3 DEF ConsumerPhase, MpscInvariant
<1> QED
  BY <1>6, <1>15, <1>16 DEF MpscInvariant

\* The node that a producer links is in no chain yet.
LEMMA LinkShape ==
    ASSUME MpscInvariant, NEW q \in Producers, Link(q),
           NEW h \in Seq(Addrs), NEW l \in Seq(Addrs), NEW p \in Seq(Addrs), Shape(h, l, p)
    PROVE  Shape(h, l, p)'
<1>2. /\ pc[q] = "link" /\ next' = [next EXCEPT ![node[q]] = head[q]]
      /\ pc' = [pc EXCEPT ![q] = "cas"]
      /\ UNCHANGED <<head_, value, live, wake, node, head, cpc, list, prev>>
  BY DEF Link
<1>3. TypeOK /\ node[q] \in Addrs /\ Pushing(q)
  BY <1>2 DEF MpscInvariant, TypeInv, NodesKnown, Pushing
<1> DEFINE U == Elems(h) \cup Elems(l) \cup Elems(p)
<1>4. node[q] \notin U /\ \A r \in Producers : r # q /\ Pushing(r) => node[r] # node[q]
  BY <1>3 DEF Shape, NodesApart
<1>5. \A y \in Addrs : y # node[q] => next'[y] = next[y]
  BY <1>2, <1>3 DEF TypeOK
<1>6. U \subseteq Addrs
  BY LenProperties DEF Elems
<1>7. IsChain(next', head_', h) /\ IsChain(next', list', l) /\ IsChain(next', prev', p)
  BY <1>2, <1>4, <1>5, <1>6, ChainFrame DEF Shape
<1>8. \A r \in Producers : Pushing(r)' <=> Pushing(r)
  BY <1>2, <1>3 DEF Pushing, TypeOK
<1>9. NewNodes' = NewNodes
  BY <1>2, <1>8 DEF NewNodes
<1>10. Shape(h, l, p)'
  BY <1>2, <1>7, <1>8, <1>9 DEF Shape, NodesApart
<1> QED
  BY <1>10

LEMMA LinkKeeps ==
    ASSUME MpscInvariant, TypeInv', NEW q \in Producers, Link(q)
    PROVE  MpscInvariant'
<1>1. PICK h, l, p \in Seq(Addrs) : Shape(h, l, p)
  BY DEF MpscInvariant
<1>2. /\ pc[q] = "link" /\ next' = [next EXCEPT ![node[q]] = head[q]]
      /\ pc' = [pc EXCEPT ![q] = "cas"]
      /\ UNCHANGED <<head_, value, live, wake, node, head, cpc, list, prev>>
  BY DEF Link
<1>3. TypeOK /\ node[q] \in Addrs /\ Pushing(q)
  BY <1>2 DEF MpscInvariant, TypeInv, NodesKnown, Pushing
<1>4. \A r \in Producers : r # q /\ Pushing(r) => node[r] # node[q]
  BY <1>1, <1>3 DEF Shape, NodesApart
<1>5. \A y \in Addrs : y # node[q] => next'[y] = next[y]
  BY <1>2, <1>3 DEF TypeOK
<1>10. Shape(h, l, p)'
  BY <1>1, LinkShape
<1>11. LinksReady'
  <2>1. ASSUME NEW r \in Producers, pc'[r] = "cas" PROVE next'[node'[r]] = head'[r]
    <3>1. CASE r = q
      BY <1>2, <1>3, <3>1 DEF TypeOK
    <3>2. CASE r # q
      <4>1. pc[r] = "cas" /\ Pushing(r)
        BY <1>2, <1>3, <2>1, <3>2 DEF TypeOK, Pushing
      <4>2. node[r] \in Addrs /\ next[node[r]] = head[r]
        BY <4>1 DEF MpscInvariant, TypeInv, NodesKnown, LinksReady
      <4> QED
        BY <1>2, <1>4, <1>5, <3>2, <4>1, <4>2
    <3> QED
      BY <3>1, <3>2
  <2> QED
    BY <1>2, <2>1 DEF LinksReady, MpscInvariant
<1>12. ConsumerPhase'
  BY <1>2 DEF ConsumerPhase, MpscInvariant
<1> QED
  BY <1>10, <1>11, <1>12 DEF MpscInvariant

\* The new chain of the queue is the old one behind the node just published.
LEMMA CasShape ==
    ASSUME MpscInvariant, NEW q \in Producers, CasSucceeds(q), NEW x, x = node[q],
           NEW h \in Seq(Addrs), NEW l \in Seq(Addrs), NEW p \in Seq(Addrs), Shape(h, l, p)
    PROVE  /\ x \in Addrs /\ Cons(x, h) \in Seq(Addrs)
           /\ Shape(Cons(x, h), l, p)'
<1>2. /\ pc[q] = "cas" /\ head_ = head[q] /\ head_' = x
      /\ pc' = [pc EXCEPT ![q] = "notify"]
      /\ node' = [node EXCEPT ![q] = Null] /\ head' = [head EXCEPT ![q] = Null]
      /\ UNCHANGED <<next, value, live, wake, cpc, list, prev>>
  BY DEF CasSucceeds
<1>3. TypeOK /\ x \in Addrs /\ Pushing(q) /\ next[x] = head_
  BY <1>2 DEF MpscInvariant, TypeInv, NodesKnown, Pushing, LinksReady
<1> DEFINE U == Elems(h) \cup Elems(l) \cup Elems(p)
           k == Cons(x, h)
<1>4. x \notin U /\ \A r \in Producers : r # q /\ Pushing(r) => node[r] # x
  BY <1>3 DEF Shape, NodesApart
<1>5. k \in Seq(Addrs) /\ Elems(k) = Elems(h) \cup {x} /\ NoDup(k)
  BY <1>3, <1>4, ConsFacts, ElemsCons DEF Shape, Apart
<1>6. IsChain(next', head_', k) /\ IsChain(next', list', l) /\ IsChain(next', prev', p)
  BY <1>2, <1>3, ChainCons DEF Shape
<1>7. \A r \in Producers : Pushing(r)' <=> Pushing(r) /\ r # q
  BY <1>2, <1>3 DEF Pushing, TypeOK
<1>8. \A r \in Producers : r # q => node'[r] = node[r]
  BY <1>2, <1>3 DEF TypeOK
<1> HIDE DEF k
<1>9. NewNodes' = NewNodes \ {x}
  <2>1. ASSUME NEW y \in NewNodes' PROVE y \in NewNodes \ {x}
    BY <1>4, <1>7, <1>8, <2>1 DEF NewNodes
  <2>2. ASSUME NEW y \in NewNodes \ {x} PROVE y \in NewNodes'
    <3>1. PICK r \in Producers : Pushing(r) /\ y = node[r]
      BY <2>2 DEF NewNodes
    <3>2. r # q
      BY <2>2, <3>1
    <3>3. Pushing(r)' /\ node'[r] = y
      BY <1>7, <1>8, <3>1, <3>2
    <3> QED
      BY <3>3 DEF NewNodes
  <2> QED
    BY <2>1, <2>2
<1>10. x \in NewNodes
  BY <1>3 DEF NewNodes
<1>11. NodesApart(Elems(k) \cup Elems(l) \cup Elems(p))'
  <2>1. \A r \in Producers : Pushing(r) => node[r] \notin U
    BY DEF Shape, NodesApart
  <2>2. \A r, t \in Producers : Pushing(r) /\ Pushing(t) /\ node[r] = node[t] => r = t
    BY DEF Shape, NodesApart
  <2>3. \A r \in Producers : Pushing(r)' => node'[r] \notin Elems(k) \cup Elems(l) \cup Elems(p)
    BY <1>4, <1>5, <1>7, <1>8, <2>1
  <2>4. \A r, t \in Producers : Pushing(r)' /\ Pushing(t)' /\ node'[r] = node'[t] => r = t
    BY <1>7, <1>8, <2>2
  <2> QED
    BY <2>3, <2>4 DEF NodesApart
<1>12. Apart(k, l, p)
  BY <1>4, <1>5 DEF Shape, Apart
<1>13. live' = Elems(k) \cup Elems(l) \cup Elems(p) \cup NewNodes'
  <2>1. live' = Elems(h) \cup Elems(l) \cup Elems(p) \cup NewNodes
    BY <1>2 DEF Shape
  <2> QED
    BY <1>5, <1>9, <1>10, <2>1
<1>14. Shape(k, l, p)'
  BY <1>6, <1>11, <1>12, <1>13 DEF Shape
<1> QED
  BY <1>3, <1>5, <1>14 DEF k

LEMMA CasKeeps ==
    ASSUME MpscInvariant, TypeInv', NEW q \in Producers, CasSucceeds(q)
    PROVE  MpscInvariant'
<1>1. PICK h, l, p \in Seq(Addrs) : Shape(h, l, p)
  BY DEF MpscInvariant
<1>2. PICK x : x = node[q]
  OBVIOUS
<1>3. Cons(x, h) \in Seq(Addrs) /\ Shape(Cons(x, h), l, p)'
  BY <1>1, <1>2, CasShape
<1>4. \E k, m, n \in Seq(Addrs) : Shape(k, m, n)'
  BY <1>1, <1>3
<1>5. LinksReady'
  <2>1. \A r \in Producers : pc'[r] = "cas" => pc[r] = "cas" /\ r # q
    BY DEF CasSucceeds, MpscInvariant, TypeInv, TypeOK
  <2>2. \A r \in Producers : r # q => node'[r] = node[r] /\ head'[r] = head[r]
    BY DEF CasSucceeds, MpscInvariant, TypeInv, TypeOK
  <2> QED
    BY <2>1, <2>2 DEF CasSucceeds, LinksReady, MpscInvariant
<1>6. ConsumerPhase'
  BY DEF CasSucceeds, ConsumerPhase, MpscInvariant
<1> QED
  BY <1>4, <1>5, <1>6 DEF MpscInvariant

\* Exchange hands the whole chain of the queue to the consumer.
LEMMA ExchangeShape ==
    ASSUME MpscInvariant, Exchange,
           NEW h \in Seq(Addrs), NEW l \in Seq(Addrs), NEW p \in Seq(Addrs), Shape(h, l, p)
    PROVE  l = <<>> /\ p = <<>> /\ <<>> \in Seq(Addrs) /\ Shape(<<>>, h, <<>>)'
<1>1. /\ cpc = "exchange" /\ list' = head_ /\ head_' = Null
      /\ UNCHANGED <<next, value, live, wake, pc, node, head, prev>>
  BY DEF Exchange
<1>2. list = Null /\ prev = Null
  BY <1>1 DEF MpscInvariant, ConsumerPhase
<1>3. l = <<>> /\ p = <<>> /\ Elems(<<>>) = {}
  BY <1>2, NullChain, EmptyChain DEF Shape
<1>4. NewNodes' = NewNodes /\ \A r \in Producers : Pushing(r)' <=> Pushing(r)
  BY <1>1 DEF NewNodes, Pushing
<1>5. IsChain(next', head_', <<>>) /\ IsChain(next', list', h) /\ IsChain(next', prev', <<>>)
  BY <1>1, <1>2, EmptyChain DEF Shape
<1>6. Apart(<<>>, h, <<>>)
  BY <1>3, EmptyChain DEF Shape, Apart
<1>7. NodesApart(Elems(<<>>) \cup Elems(h) \cup Elems(<<>>))'
  BY <1>1, <1>3, <1>4 DEF Shape, NodesApart
<1>8. live' = Elems(<<>>) \cup Elems(h) \cup Elems(<<>>) \cup NewNodes'
  BY <1>1, <1>3, <1>4 DEF Shape
<1>9. <<>> \in Seq(Addrs)
  BY EmptySeq
<1> QED
  BY <1>3, <1>5, <1>6, <1>7, <1>8, <1>9 DEF Shape

LEMMA ExchangeKeeps ==
    ASSUME MpscInvariant, TypeInv', Exchange
    PROVE  MpscInvariant'
<1>1. PICK h, l, p \in Seq(Addrs) : Shape(h, l, p)
  BY DEF MpscInvariant
<1>2. \E k, m, n \in Seq(Addrs) : Shape(k, m, n)'
  BY <1>1, ExchangeShape
<1>3. LinksReady'
  BY DEF Exchange, LinksReady, MpscInvariant
<1>4. ConsumerPhase'
  BY DEF Exchange, ConsumerPhase, MpscInvariant
<1> QED
  BY <1>2, <1>3, <1>4 DEF MpscInvariant

\* One turn of the reversal moves a node from the front of one chain to the
\* front of the other.
LEMMA ReverseShape ==
    ASSUME MpscInvariant, Reverse, NEW x, x = list,
           NEW h \in Seq(Addrs), NEW l \in Seq(Addrs), NEW p \in Seq(Addrs), Shape(h, l, p)
    PROVE  /\ x \in Addrs /\ Tail(l) \in Seq(Addrs) /\ Cons(x, p) \in Seq(Addrs)
           /\ l = Cons(x, Tail(l))
           /\ Shape(h, Tail(l), Cons(x, p))'
<1>1. /\ cpc = "reverse" /\ list # Null /\ next' = [next EXCEPT ![x] = prev]
      /\ prev' = x /\ list' = next[x]
      /\ UNCHANGED <<head_, value, live, wake, pc, node, head>>
  BY DEF Reverse
<1>2. TypeOK /\ x \in Addrs
  BY <1>1 DEF MpscInvariant, TypeInv, TypeOK
<1> DEFINE t == Tail(l)
           k == Cons(x, p)
<1>3. t \in Seq(Addrs) /\ l = Cons(x, t) /\ IsChain(next, next[x], t)
  BY <1>1, ChainTail DEF Shape
<1> HIDE DEF t
<1>4. /\ NoDup(h) /\ NoDup(l) /\ NoDup(p)
      /\ Elems(h) \cap Elems(l) = {} /\ Elems(h) \cap Elems(p) = {} /\ Elems(l) \cap Elems(p) = {}
  BY DEF Shape, Apart
<1>5. Elems(l) = Elems(t) \cup {x} /\ x \notin Elems(t) /\ NoDup(t)
  BY <1>2, <1>3, <1>4, ElemsCons
<1>6. k \in Seq(Addrs) /\ Elems(k) = Elems(p) \cup {x} /\ NoDup(k)
  BY <1>2, <1>4, <1>5, ConsFacts, ElemsCons
<1>7. \A y \in Addrs : y # x => next'[y] = next[y]
  BY <1>1, <1>2 DEF TypeOK
<1>8. next'[x] = prev
  BY <1>1, <1>2 DEF TypeOK
<1>9. Elems(h) \subseteq Addrs /\ Elems(t) \subseteq Addrs /\ Elems(p) \subseteq Addrs
  BY <1>3, ElementOfSeq DEF Elems
<1>10. x \notin Elems(h) /\ x \notin Elems(p)
  BY <1>4, <1>5
<1>11. IsChain(next', head_', h)
  BY <1>1, <1>7, <1>9, <1>10, ChainFrame DEF Shape
<1>12. IsChain(next', list', t)
  BY <1>1, <1>3, <1>5, <1>7, <1>9, ChainFrame
<1>13. IsChain(next', prev, p)
  BY <1>7, <1>9, <1>10, ChainFrame DEF Shape
<1>14. IsChain(next', prev', k)
  BY <1>1, <1>2, <1>8, <1>13, ChainCons
<1> HIDE DEF k
<1>15. Apart(h, t, k)
  BY <1>4, <1>5, <1>6, <1>10 DEF Apart
<1>16. Elems(h) \cup Elems(t) \cup Elems(k) = Elems(h) \cup Elems(l) \cup Elems(p)
  BY <1>5, <1>6
<1>17. NewNodes' = NewNodes /\ \A r \in Producers : Pushing(r)' <=> Pushing(r)
  BY <1>1 DEF NewNodes, Pushing
<1>18. NodesApart(Elems(h) \cup Elems(t) \cup Elems(k))'
  BY <1>1, <1>16, <1>17 DEF Shape, NodesApart
<1>19. live' = Elems(h) \cup Elems(t) \cup Elems(k) \cup NewNodes'
  BY <1>1, <1>16, <1>17 DEF Shape
<1>20. Shape(h, t, k)'
  BY <1>11, <1>12, <1>14, <1>15, <1>18, <1>19 DEF Shape
<1> QED
  BY <1>2, <1>3, <1>6, <1>20 DEF t, k

LEMMA ReverseKeeps ==
    ASSUME MpscInvariant, TypeInv', Reverse
    PROVE  MpscInvariant'
<1>1. PICK h, l, p \in Seq(Addrs) : Shape(h, l, p)
  BY DEF MpscInvariant
<1>2. PICK x, t : x = list /\ t = Tail(l)
  OBVIOUS
<1>3. /\ x \in Addrs /\ t \in Seq(Addrs) /\ Cons(x, p) \in Seq(Addrs) /\ l = Cons(x, t)
      /\ Shape(h, t, Cons(x, p))'
  BY <1>1, <1>2, ReverseShape
<1>4. LinksReady'
  <2>1. x \in Elems(l)
    <3>1. Elems(Cons(x, t)) = Elems(t) \cup {x}
      BY <1>3, ElemsCons
    <3> QED
      BY <1>3, <3>1
  <2>2. \A r \in Producers : pc[r] = "cas" => node[r] # list /\ node[r] \in Addrs
    BY <1>1, <1>2, <2>1 DEF Shape, NodesApart, Pushing, MpscInvariant, TypeInv, NodesKnown
  <2> QED
    BY <1>2, <2>2 DEF Reverse, LinksReady, MpscInvariant, TypeInv, TypeOK
<1>5. ConsumerPhase'
  BY MpscAssumption DEF Reverse, ConsumerPhase, MpscInvariant, TypeInv, TypeOK
<1>6. \E k, m, n \in Seq(Addrs) : Shape(k, m, n)'
  BY <1>1, <1>3
<1> QED
  BY <1>4, <1>5, <1>6 DEF MpscInvariant

\* The oldest task's node leaves the front of its chain and is no longer
\* allocated.
LEMMA RunShape ==
    ASSUME MpscInvariant, RunAndDelete, NEW x, x = prev,
           NEW h \in Seq(Addrs), NEW l \in Seq(Addrs), NEW p \in Seq(Addrs), Shape(h, l, p)
    PROVE  /\ x \in Addrs /\ Tail(p) \in Seq(Addrs) /\ p = Cons(x, Tail(p))
           /\ Shape(h, l, Tail(p))'
<1>1. /\ cpc = "run" /\ prev # Null /\ prev' = next[x] /\ live' = live \ {x}
      /\ next' = [next EXCEPT ![x] = Null]
      /\ UNCHANGED <<head_, wake, pc, node, head, list>>
  BY DEF RunAndDelete
<1>2. TypeOK /\ x \in Addrs
  BY <1>1 DEF MpscInvariant, TypeInv, TypeOK
<1> DEFINE t == Tail(p)
<1>3. t \in Seq(Addrs) /\ p = Cons(x, t) /\ IsChain(next, next[x], t)
  BY <1>1, ChainTail DEF Shape
<1> HIDE DEF t
<1>4. /\ NoDup(h) /\ NoDup(l) /\ NoDup(p)
      /\ Elems(h) \cap Elems(l) = {} /\ Elems(h) \cap Elems(p) = {} /\ Elems(l) \cap Elems(p) = {}
  BY DEF Shape, Apart
<1>5. Elems(p) = Elems(t) \cup {x} /\ x \notin Elems(t) /\ NoDup(t)
  BY <1>2, <1>3, <1>4, ElemsCons
<1>6. \A y \in Addrs : y # x => next'[y] = next[y]
  BY <1>1, <1>2 DEF TypeOK
<1>7. Elems(h) \subseteq Addrs /\ Elems(l) \subseteq Addrs /\ Elems(t) \subseteq Addrs
  BY <1>3, ElementOfSeq DEF Elems
<1>8. x \notin Elems(h) /\ x \notin Elems(l)
  BY <1>4, <1>5
<1>9. IsChain(next', head_', h) /\ IsChain(next', list', l)
  BY <1>1, <1>6, <1>7, <1>8, ChainFrame DEF Shape
<1>10. IsChain(next', prev', t)
  BY <1>1, <1>3, <1>5, <1>6, <1>7, ChainFrame
<1>11. Apart(h, l, t)
  BY <1>4, <1>5 DEF Apart
<1>12. NewNodes' = NewNodes /\ \A r \in Producers : Pushing(r)' <=> Pushing(r)
  BY <1>1 DEF NewNodes, Pushing
<1>13. /\ \A r \in Producers : Pushing(r) => node[r] \notin Elems(h) \cup Elems(l) \cup Elems(p)
       /\ \A q, r \in Producers : Pushing(q) /\ Pushing(r) /\ node[q] = node[r] => q = r
  BY DEF Shape, NodesApart
<1>14. NodesApart(Elems(h) \cup Elems(l) \cup Elems(t))'
  BY <1>1, <1>5, <1>12, <1>13 DEF NodesApart
<1>15. x \notin NewNodes
  BY <1>5, <1>13 DEF NewNodes
<1>16. live = Elems(h) \cup Elems(l) \cup Elems(p) \cup NewNodes
  BY DEF Shape
<1>17. live' = Elems(h) \cup Elems(l) \cup Elems(t) \cup NewNodes'
  BY <1>1, <1>5, <1>8, <1>12, <1>15, <1>16
<1>18. Shape(h, l, t)'
  BY <1>9, <1>10, <1>11, <1>14, <1>17 DEF Shape
<1> QED
  BY <1>2, <1>3, <1>18 DEF t

LEMMA RunKeeps ==
    ASSUME MpscInvariant, TypeInv', RunAndDelete
    PROVE  MpscInvariant'
<1>1. PICK h, l, p \in Seq(Addrs) : Shape(h, l, p)
  BY DEF MpscInvariant
<1>2. PICK x, t : x = prev /\ t = Tail(p)
  OBVIOUS
<1>3. x \in Addrs /\ t \in Seq(Addrs) /\ p = Cons(x, t) /\ Shape(h, l, t)'
  BY <1>1, <1>2, RunShape
<1>4. LinksReady'
  <2>2. x \in Elems(p)
    <3>1. Elems(Cons(x, t)) = Elems(t) \cup {x}
      BY <1>3, ElemsCons
    <3> QED
      BY <1>3, <3>1
  <2>3. \A r \in Producers : pc[r] = "cas" => node[r] # prev /\ node[r] \in Addrs
    BY <1>1, <1>2, <2>2 DEF Shape, NodesApart, Pushing, MpscInvariant, TypeInv, NodesKnown
  <2> QED
    BY <1>2, <2>3 DEF RunAndDelete, LinksReady, MpscInvariant, TypeInv, TypeOK
<1>5. ConsumerPhase'
  BY MpscAssumption DEF RunAndDelete, ConsumerPhase, MpscInvariant, TypeInv, TypeOK
<1>6. \E k, m, n \in Seq(Addrs) : Shape(k, m, n)'
  BY <1>1, <1>3
<1> QED
  BY <1>4, <1>5, <1>6 DEF MpscInvariant

LEMMA StepInvariant == MpscInvariant /\ [Next]_vars => MpscInvariant'
<1> SUFFICES ASSUME MpscInvariant, [Next]_vars PROVE MpscInvariant'
  OBVIOUS
<1>0. TypeInv' /\ TypeOK /\ ConsumerPhase
  BY StepType DEF MpscInvariant, TypeInv
<1>1. ASSUME NEW q \in Producers, NewNode(q) PROVE MpscInvariant'
  BY <1>0, <1>1, NewNodeKeeps
<1>2. ASSUME NEW q \in Producers, LoadHead(q) \/ CasFails(q) \/ Notify(q) PROVE MpscInvariant'
  <2>1. UNCHANGED <<head_, next, value, live, node, list, prev, cpc>>
    BY <1>2 DEF LoadHead, CasFails, Notify
  <2>2. \A r \in Producers : Pushing(r)' <=> Pushing(r)
    BY <1>0, <1>2 DEF LoadHead, CasFails, Notify, Pushing, TypeOK
  <2>3. \A r \in Producers : pc'[r] = "cas" => pc[r] = "cas" /\ head'[r] = head[r]
    BY <1>0, <1>2 DEF LoadHead, CasFails, Notify, TypeOK
  <2>4. ConsumerPhase'
    BY <1>0, <2>1 DEF ConsumerPhase
  <2> QED
    BY <1>0, <2>1, <2>2, <2>3, <2>4, QuietStep
<1>3. ASSUME NEW q \in Producers, Link(q) PROVE MpscInvariant'
  BY <1>0, <1>3, LinkKeeps
<1>4. ASSUME NEW q \in Producers, CasSucceeds(q) PROVE MpscInvariant'
  BY <1>0, <1>4, CasKeeps
<1>5. CASE WaitWoken \/ WaitOther \/ ClearWake \/ UNCHANGED vars
  <2>1. UNCHANGED <<head_, next, value, live, node, list, prev, pc, head>>
    BY <1>5 DEF WaitWoken, WaitOther, ClearWake, vars
  <2>2. ConsumerPhase'
    BY <1>0, <1>5 DEF WaitWoken, WaitOther, ClearWake, vars, ConsumerPhase
  <2>3. \A r \in Producers : Pushing(r)' <=> Pushing(r)
    BY <2>1 DEF Pushing
  <2> QED
    BY <1>0, <2>1, <2>2, <2>3, QuietStep
<1>6. CASE Exchange
  BY <1>0, <1>6, ExchangeKeeps
<1>7. CASE Reverse
  BY <1>0, <1>7, ReverseKeeps
<1>8. CASE RunAndDelete
  BY <1>0, <1>8, RunKeeps
<1> QED
  BY <1>1, <1>2, <1>3, <1>4, <1>5, <1>6, <1>7, <1>8 DEF Next, Produce, Consume

\* The queue, the list being reversed and the reversed part are three finite
\* chains without a common node, and what is allocated is in one of them or
\* belongs to the one producer that is pushing it.
THEOREM ChainsAreSound == Spec => []MpscInvariant
  BY InitInvariant, StepInvariant, PTL DEF Spec
-----------------------------------------------------------------------------
(* No node is deleted too early, and none is leaked.                       *)

\* ValuesFrom reads the values of a chain, which is never longer than its bound.
LEMMA ChainValues ==
    \A h, l, p \in Seq(Addrs) : Shape(h, l, p)
      => /\ ValuesFrom(head_) = Vals(value, h)
         /\ ValuesFrom(list) = Vals(value, l)
         /\ ValuesFrom(prev) = Vals(value, p)
<1> SUFFICES ASSUME NEW h \in Seq(Addrs), NEW l \in Seq(Addrs), NEW p \in Seq(Addrs), Shape(h, l, p)
             PROVE  /\ ValuesFrom(head_) = Vals(value, h)
                    /\ ValuesFrom(list) = Vals(value, l)
                    /\ ValuesFrom(prev) = Vals(value, p)
  OBVIOUS
<1>1. N \in Nat /\ N \in 0 .. N
  BY MpscAssumption, FS_CardinalityType DEF N, MpscAssumption
<1>2. Len(h) <= N /\ Len(l) <= N /\ Len(p) <= N
  BY ChainLength DEF Shape, Apart
<1>3. Linked[N][head_] = Vals(value, h) /\ Linked[N][list] = Vals(value, l) /\ Linked[N][prev] = Vals(value, p)
  BY <1>1, <1>2, LinkedIsVals DEF Shape
<1> QED
  BY <1>3 DEF ValuesFrom, N

\* A sequence of values is as long as its chain.
LEMMA ValsLength ==
    ASSUME NEW v, NEW s \in Seq(Addrs)
    PROVE  Len(Vals(v, s)) = Len(s) /\ Len(s) \in Nat
<1>1. Len(s) \in Nat
  BY LenProperties
<1> QED
  BY <1>1 DEF Vals

\* The set of pushing producers is as large as the set of their nodes.
LEMMA OneNodeEach ==
    ASSUME MpscInvariant
    PROVE  /\ IsFiniteSet(NewNodes)
           /\ Cardinality({q \in Producers : Pushing(q)}) = Cardinality(NewNodes)
<1> DEFINE W == {q \in Producers : Pushing(q)}
           f == [a \in NewNodes |-> CHOOSE q \in W : node[q] = a]
<1>1. NewNodes \subseteq Addrs
  BY DEF NewNodes, Pushing, MpscInvariant, TypeInv, NodesKnown
<1>2. IsFiniteSet(NewNodes)
  BY <1>1, MpscAssumption, FS_Subset DEF MpscAssumption
<1>3. \A a \in NewNodes : f[a] \in W /\ node[f[a]] = a
  BY DEF NewNodes
<1>4. \A q, r \in W : node[q] = node[r] => q = r
  BY DEF MpscInvariant, Shape, NodesApart
<1>5. \A q \in W : node[q] \in NewNodes /\ f[node[q]] = q
  <2>1. \A q \in W : node[q] \in NewNodes
    BY DEF NewNodes
  <2> HIDE DEF f
  <2> QED
    BY <1>3, <1>4, <2>1
<1>6. f \in [NewNodes -> W]
  BY <1>3
<1> HIDE DEF f, W
<1>7. f \in Bijection(NewNodes, W)
  BY <1>3, <1>5, <1>6 DEF Bijection, Injection, Surjection, IsInjective
<1>8. Cardinality(W) = Cardinality(NewNodes)
  BY <1>2, <1>7, FS_Bijection DEF ExistsBijection
<1> QED
  BY <1>2, <1>8 DEF W

LEMMA DisjointUnion ==
    ASSUME NEW S, NEW T, IsFiniteSet(S), IsFiniteSet(T), S \cap T = {}
    PROVE  IsFiniteSet(S \cup T) /\ Cardinality(S \cup T) = Cardinality(S) + Cardinality(T)
<1>1. /\ IsFiniteSet(S \cup T)
      /\ Cardinality(S \cup T) = Cardinality(S) + Cardinality(T) - Cardinality(S \cap T)
  BY FS_Union
<1>2. Cardinality(S \cap T) = 0
  BY FS_EmptySet
<1>3. Cardinality(S) \in Nat /\ Cardinality(T) \in Nat
  BY FS_CardinalityType
<1> QED
  BY <1>1, <1>2, <1>3

LEMMA NothingDangles == MpscInvariant => NoDanglingNode
<1> SUFFICES ASSUME MpscInvariant PROVE NoDanglingNode
  OBVIOUS
<1>1. PICK h, l, p \in Seq(Addrs) : Shape(h, l, p)
  BY DEF MpscInvariant
<1>2. live = Elems(h) \cup Elems(l) \cup Elems(p) \cup NewNodes
  BY <1>1 DEF Shape
<1>3. /\ IsFiniteSet(Elems(h)) /\ Cardinality(Elems(h)) = Len(h)
      /\ IsFiniteSet(Elems(l)) /\ Cardinality(Elems(l)) = Len(l)
      /\ IsFiniteSet(Elems(p)) /\ Cardinality(Elems(p)) = Len(p)
  BY <1>1, ChainLength DEF Shape, Apart
<1>4. /\ Elems(h) \cap Elems(l) = {}
      /\ (Elems(h) \cup Elems(l)) \cap Elems(p) = {}
      /\ (Elems(h) \cup Elems(l) \cup Elems(p)) \cap NewNodes = {}
  BY <1>1 DEF Shape, Apart, NodesApart, NewNodes
<1>5. IsFiniteSet(NewNodes) /\ Cardinality({q \in Producers : Pushing(q)}) = Cardinality(NewNodes)
  BY OneNodeEach
<1>6. Len(h) \in Nat /\ Len(l) \in Nat /\ Len(p) \in Nat /\ Cardinality(NewNodes) \in Nat
  BY <1>5, LenProperties, FS_CardinalityType
<1>7. Cardinality(live) = Len(h) + Len(l) + Len(p) + Cardinality(NewNodes)
  <2>1. /\ IsFiniteSet(Elems(h) \cup Elems(l))
        /\ Cardinality(Elems(h) \cup Elems(l)) = Len(h) + Len(l)
    <3>1. /\ IsFiniteSet(Elems(h) \cup Elems(l))
          /\ Cardinality(Elems(h) \cup Elems(l)) = Cardinality(Elems(h)) + Cardinality(Elems(l))
      BY <1>3, <1>4, DisjointUnion
    <3> QED
      BY <1>3, <3>1
  <2>2. /\ IsFiniteSet(Elems(h) \cup Elems(l) \cup Elems(p))
        /\ Cardinality(Elems(h) \cup Elems(l) \cup Elems(p)) = Len(h) + Len(l) + Len(p)
    <3>1. PICK S : S = Elems(h) \cup Elems(l)
      OBVIOUS
    <3>2. IsFiniteSet(S) /\ S \cap Elems(p) = {} /\ Cardinality(S) = Len(h) + Len(l)
      BY <1>4, <2>1, <3>1
    <3>3. /\ IsFiniteSet(S \cup Elems(p))
          /\ Cardinality(S \cup Elems(p)) = Cardinality(S) + Cardinality(Elems(p))
      BY <1>3, <3>2, DisjointUnion
    <3> QED
      BY <1>3, <3>1, <3>2, <3>3
  <2> QED
    BY <1>2, <1>4, <1>5, <2>2, DisjointUnion
<1>8. /\ Len(ValuesFrom(head_)) = Len(h)
      /\ Len(ValuesFrom(list)) = Len(l)
      /\ Len(ValuesFrom(prev)) = Len(p)
  BY <1>1, ChainValues, ValsLength
<1>9. TypeOK
  BY DEF MpscInvariant, TypeInv
<1>10. /\ head_ # Null => head_ \in live
       /\ list # Null => list \in live
       /\ prev # Null => prev \in live
  <2>1. ASSUME NEW a, NEW s, IsChain(next, a, s), a # Null PROVE a \in Elems(s)
    <3>1. Len(s) \in Nat \ {0} /\ s[1] = a
      BY <2>1, ChainTail
    <3>2. 1 \in 1 .. Len(s)
      BY <3>1
    <3> QED
      BY <3>1, <3>2 DEF Elems
  <2> QED
    BY <1>1, <1>2, <2>1 DEF Shape
<1>11. \A q \in Producers : pc[q] \in {"load", "link", "cas"} => node[q] \in live
  BY <1>2 DEF NewNodes, Pushing
<1>12. Cardinality({q \in Producers : pc[q] \in {"load", "link", "cas"}}) = Cardinality(NewNodes)
  BY <1>5 DEF Pushing
<1>13. Len(ValuesFrom(head_)) + Len(ValuesFrom(list)) + Len(ValuesFrom(prev))
         + Cardinality({q \in Producers : pc[q] \in {"load", "link", "cas"}})
       = Cardinality(live)
  BY <1>7, <1>8, <1>12
<1> QED
  BY <1>9, <1>10, <1>11, <1>13 DEF NoDanglingNode

\* However addresses are reused, no deleted node is ever linked or published,
\* and every allocated one is in the queue, in the batch or being pushed.
THEOREM NodesAreSafe == Spec => []NoDanglingNode
  BY ChainsAreSound, NothingDangles, PTL
-----------------------------------------------------------------------------
(* The refinement of the FIFO mailbox.                                     *)

Img(v) == {v[a] : a \in Addrs}

LEMMA ValsIsSeq ==
    ASSUME NEW v, NEW s \in Seq(Addrs)
    PROVE  /\ Vals(v, s) \in Seq(Img(v))
           /\ Len(Vals(v, s)) = Len(s) /\ Len(s) \in Nat
           /\ \A i \in 1 .. Len(s) : Vals(v, s)[i] = v[s[i]]
<1>1. Len(s) \in Nat /\ s \in [1 .. Len(s) -> Addrs]
  BY LenProperties
<1>2. Vals(v, s) \in [1 .. Len(s) -> Img(v)]
  BY <1>1 DEF Vals, Img
<1>3. Vals(v, s) \in Seq(Img(v))
  BY <1>1, <1>2
<1> QED
  BY <1>1, <1>3 DEF Vals

LEMMA ReversedIsSeq ==
    ASSUME NEW S, NEW s \in Seq(S)
    PROVE  /\ Reversed(s) \in Seq(S)
           /\ Len(Reversed(s)) = Len(s) /\ Len(s) \in Nat
           /\ \A i \in 1 .. Len(s) : Reversed(s)[i] = s[Len(s) + 1 - i]
<1>1. Len(s) \in Nat /\ s \in [1 .. Len(s) -> S]
  BY LenProperties
<1>2. \A i \in 1 .. Len(s) : Len(s) + 1 - i \in 1 .. Len(s)
  BY <1>1
<1>3. Reversed(s) \in [1 .. Len(s) -> S]
  BY <1>1, <1>2 DEF Reversed
<1>4. Reversed(s) \in Seq(S)
  BY <1>1, <1>3
<1> QED
  BY <1>1, <1>4 DEF Reversed

\* Publishing a node appends its value to the abstract queue.
LEMMA ConsAppends ==
    ASSUME NEW v, NEW x \in Addrs, NEW h \in Seq(Addrs)
    PROVE  Reversed(Vals(v, Cons(x, h))) = Append(Reversed(Vals(v, h)), v[x])
<1> DEFINE c == Cons(x, h)
           a == Vals(v, h)
           b == Vals(v, c)
           l == Reversed(b)
           r == Append(Reversed(a), v[x])
<1>1. /\ c \in Seq(Addrs) /\ Len(c) = Len(h) + 1 /\ c[1] = x /\ Len(h) \in Nat
      /\ \A i \in 2 .. Len(h) + 1 : c[i] = h[i - 1]
  BY ConsFacts, LenProperties
<1> HIDE DEF c
<1>2. a \in Seq(Img(v)) /\ Len(a) = Len(h) /\ \A i \in 1 .. Len(h) : a[i] = v[h[i]]
  BY ValsIsSeq
<1>3. b \in Seq(Img(v)) /\ Len(b) = Len(h) + 1 /\ \A i \in 1 .. Len(h) + 1 : b[i] = v[c[i]]
  BY <1>1, ValsIsSeq
<1>4. v[x] \in Img(v)
  BY DEF Img
<1> HIDE DEF a, b
<1>5. l \in Seq(Img(v)) /\ Len(l) = Len(h) + 1
      /\ \A i \in 1 .. Len(h) + 1 : l[i] = b[Len(h) + 2 - i]
  BY <1>1, <1>3, ReversedIsSeq
<1>6. /\ Reversed(a) \in Seq(Img(v)) /\ Len(Reversed(a)) = Len(h)
      /\ \A i \in 1 .. Len(h) : Reversed(a)[i] = a[Len(h) + 1 - i]
  BY <1>2, ReversedIsSeq
<1>7. /\ r \in Seq(Img(v)) /\ Len(r) = Len(h) + 1 /\ r[Len(h) + 1] = v[x]
      /\ \A i \in 1 .. Len(h) : r[i] = a[Len(h) + 1 - i]
  BY <1>4, <1>6, AppendProperties
<1> HIDE DEF l, r
<1>8. ASSUME NEW i \in 1 .. Len(h) + 1 PROVE l[i] = r[i]
  <2>1. CASE i = Len(h) + 1
    <3>1. l[i] = b[1]
      BY <1>1, <1>5, <2>1
    <3>2. b[1] = v[x]
      BY <1>1, <1>3
    <3> QED
      BY <1>7, <2>1, <3>1, <3>2
  <2>2. CASE i # Len(h) + 1
    <3> DEFINE j == Len(h) + 2 - i
    <3>1. j \in 2 .. Len(h) + 1 /\ j - 1 = Len(h) + 1 - i /\ i \in 1 .. Len(h) /\ j - 1 \in 1 .. Len(h)
      BY <1>1, <2>2
    <3>2. l[i] = b[j] /\ r[i] = a[j - 1]
      BY <1>5, <1>7, <3>1
    <3> HIDE DEF j
    <3>3. b[j] = v[c[j]] /\ c[j] = h[j - 1]
      BY <1>1, <1>3, <3>1
    <3>4. a[j - 1] = v[h[j - 1]]
      BY <1>2, <3>1
    <3> QED
      BY <3>2, <3>3, <3>4
  <2> QED
    BY <2>1, <2>2
<1>9. l = r
  BY <1>5, <1>7, <1>8, SeqEqual
<1> QED
  BY <1>9 DEF l, r, a, b, c

\* One turn of the reversal leaves the abstract batch alone.
LEMMA TurnKeepsBatch ==
    ASSUME NEW v, NEW x \in Addrs, NEW t \in Seq(Addrs), NEW p \in Seq(Addrs)
    PROVE  Reversed(Vals(v, Cons(x, t))) \o Vals(v, p) = Reversed(Vals(v, t)) \o Vals(v, Cons(x, p))
<1> DEFINE a == Reversed(Vals(v, t))
           b == Vals(v, p)
<1>1. a \in Seq(Img(v)) /\ b \in Seq(Img(v))
  BY ValsIsSeq, ReversedIsSeq
<1>2. v[x] \in Img(v) /\ <<v[x]>> \in Seq(Img(v))
  BY DEF Img
<1>3. Reversed(Vals(v, Cons(x, t))) = Append(a, v[x])
  BY ConsAppends
<1>4. Vals(v, Cons(x, p)) = <<v[x]>> \o b
  BY ValsCons
<1> HIDE DEF a, b
<1>5. Append(a, v[x]) = a \o <<v[x]>>
  BY <1>1, <1>2, AppendIsConcat
<1>6. (a \o <<v[x]>>) \o b = a \o (<<v[x]>> \o b)
  BY <1>1, <1>2, ConcatAssociative
<1> QED
  BY <1>3, <1>4, <1>5, <1>6 DEF a, b

\* Running the first task of a reversed chain leaves the tail of the batch.
LEMMA ConsTail ==
    ASSUME NEW v, NEW x \in Addrs, NEW t \in Seq(Addrs)
    PROVE  /\ Vals(v, Cons(x, t)) # <<>>
           /\ Tail(Vals(v, Cons(x, t))) = Vals(v, t)
<1> DEFINE a == Vals(v, t)
<1>1. a \in Seq(Img(v)) /\ v[x] \in Img(v)
  BY ValsIsSeq DEF Img
<1>2. Vals(v, Cons(x, t)) = <<v[x]>> \o a
  BY ValsCons
<1> HIDE DEF a
<1>3. <<v[x]>> \o a # <<>> /\ Tail(<<v[x]>> \o a) = a
  <2>1. <<v[x]>> \in Seq(Img(v)) /\ Len(<<v[x]>>) = 1 /\ <<v[x]>> # <<>> /\ Tail(<<v[x]>>) = <<>>
    BY <1>1
  <2>2. <<v[x]>> \o a \in Seq(Img(v)) /\ Len(<<v[x]>> \o a) = 1 + Len(a)
    BY <1>1, <2>1, ConcatProperties
  <2>3. Len(a) \in Nat /\ \A i \in 1 .. Len(a) : (<<v[x]>> \o a)[i + 1] = a[i]
    BY <1>1, <2>1, ConcatProperties, LenProperties
  <2>4. <<v[x]>> \o a # <<>>
    BY <2>2, <2>3
  <2>5. /\ Tail(<<v[x]>> \o a) \in Seq(Img(v)) /\ Len(Tail(<<v[x]>> \o a)) = Len(a)
        /\ \A i \in 1 .. Len(a) : Tail(<<v[x]>> \o a)[i] = a[i]
    BY <2>2, <2>3, <2>4, HeadTailProperties
  <2>6. Tail(<<v[x]>> \o a) = a
    BY <1>1, <2>5, SeqEqual
  <2> QED
    BY <2>4, <2>6
<1> QED
  BY <1>2, <1>3 DEF a

\* Values outside a chain do not matter to it.
LEMMA ValsFrame ==
    ASSUME NEW v, NEW w, NEW s \in Seq(Addrs), \A a \in Elems(s) : w[a] = v[a]
    PROVE  Vals(w, s) = Vals(v, s)
  BY DEF Vals, Elems

LEMMA EmptyVals ==
    ASSUME NEW v, NEW s \in Seq(Addrs)
    PROVE  /\ Vals(v, <<>>) = <<>> /\ Reversed(Vals(v, <<>>)) = <<>>
           /\ Reversed(Vals(v, <<>>)) \o Vals(v, s) = Vals(v, s)
           /\ Reversed(Vals(v, s)) \o Vals(v, <<>>) = Reversed(Vals(v, s))
<1>1. Vals(v, <<>>) = <<>>
  BY DEF Vals
<1>2. Reversed(<<>>) = <<>>
  BY DEF Reversed
<1>3. Vals(v, s) \in Seq(Img(v)) /\ Reversed(Vals(v, s)) \in Seq(Img(v))
  BY ValsIsSeq, ReversedIsSeq
<1> QED
  BY <1>1, <1>2, <1>3, ConcatEmptySeq

\* The abstract mailbox seen through the chains.
Queue == Reversed(ValuesFrom(head_))
Batch == Reversed(ValuesFrom(list)) \o ValuesFrom(prev)

LEMMA MailboxOfChains ==
    \A h, l, p \in Seq(Addrs) : Shape(h, l, p)
      => Queue = Reversed(Vals(value, h)) /\ Batch = Reversed(Vals(value, l)) \o Vals(value, p)
  BY ChainValues DEF Queue, Batch

LEMMA MailboxOfChainsNext ==
    \A h, l, p \in Seq(Addrs) : Shape(h, l, p)'
      => Queue' = Reversed(Vals(value', h)) /\ Batch' = Reversed(Vals(value', l)) \o Vals(value', p)
<1>1. (\A h, l, p \in Seq(Addrs) : Shape(h, l, p)
         => Queue = Reversed(Vals(value, h)) /\ Batch = Reversed(Vals(value, l)) \o Vals(value, p))'
  BY MailboxOfChains, PTL
<1> QED
  BY <1>1

\* A step that keeps the chains and their values is a stuttering step.
LEMMA MailboxKept ==
    ASSUME NEW h \in Seq(Addrs), NEW l \in Seq(Addrs), NEW p \in Seq(Addrs),
           Shape(h, l, p), Shape(h, l, p)', \A y \in live : value'[y] = value[y]
    PROVE  Queue' = Queue /\ Batch' = Batch
<1>1. Elems(h) \subseteq live /\ Elems(l) \subseteq live /\ Elems(p) \subseteq live
  BY DEF Shape
<1>2. Vals(value', h) = Vals(value, h) /\ Vals(value', l) = Vals(value, l) /\ Vals(value', p) = Vals(value, p)
  BY <1>1, ValsFrame
<1>3. Queue = Reversed(Vals(value, h)) /\ Batch = Reversed(Vals(value, l)) \o Vals(value, p)
  BY MailboxOfChains
<1>4. Queue' = Reversed(Vals(value', h)) /\ Batch' = Reversed(Vals(value', l)) \o Vals(value', p)
  BY MailboxOfChainsNext
<1> QED
  BY <1>2, <1>3, <1>4

PushStep == \E v \in Items : Queue' = Append(Queue, v) /\ Batch' = Batch
TakeStep == Queue # <<>> /\ Batch = <<>> /\ Batch' = Queue /\ Queue' = <<>>
RunStep  == Batch # <<>> /\ Batch' = Tail(Batch) /\ Queue' = Queue

LEMMA CasPushes ==
    ASSUME MpscInvariant, NEW q \in Producers, CasSucceeds(q)
    PROVE  PushStep
<1>1. PICK h, l, p \in Seq(Addrs) : Shape(h, l, p)
  BY DEF MpscInvariant
<1>2. PICK x : x = node[q]
  OBVIOUS
<1>3. x \in Addrs /\ Cons(x, h) \in Seq(Addrs) /\ Shape(Cons(x, h), l, p)'
  BY <1>1, <1>2, CasShape
<1>4. value' = value
  BY DEF CasSucceeds
<1>5. value[x] \in Items
  <2>1. Pushing(q)
    BY DEF CasSucceeds, Pushing
  <2>2. x \in live
    BY <1>1, <1>2, <2>1 DEF Shape, NewNodes
  <2> QED
    BY <2>2 DEF MpscInvariant, LinksReady
<1>6. Queue = Reversed(Vals(value, h)) /\ Batch = Reversed(Vals(value, l)) \o Vals(value, p)
  BY <1>1, MailboxOfChains
<1>7. Queue' = Reversed(Vals(value, Cons(x, h))) /\ Batch' = Reversed(Vals(value, l)) \o Vals(value, p)
  BY <1>1, <1>3, <1>4, MailboxOfChainsNext
<1>8. Queue' = Append(Queue, value[x])
  BY <1>3, <1>6, <1>7, ConsAppends
<1> QED
  BY <1>5, <1>6, <1>7, <1>8 DEF PushStep

LEMMA ExchangeTakes ==
    ASSUME MpscInvariant, Exchange
    PROVE  TakeStep \/ (Queue' = Queue /\ Batch' = Batch)
<1>1. PICK h, l, p \in Seq(Addrs) : Shape(h, l, p)
  BY DEF MpscInvariant
<1>2. l = <<>> /\ p = <<>> /\ <<>> \in Seq(Addrs) /\ Shape(<<>>, h, <<>>)'
  BY <1>1, ExchangeShape
<1>3. value' = value
  BY DEF Exchange
<1>4. Queue = Reversed(Vals(value, h)) /\ Batch = Reversed(Vals(value, <<>>)) \o Vals(value, <<>>)
  BY <1>1, <1>2, MailboxOfChains
<1>5. Queue' = Reversed(Vals(value, <<>>)) /\ Batch' = Reversed(Vals(value, h)) \o Vals(value, <<>>)
  BY <1>1, <1>2, <1>3, MailboxOfChainsNext
<1>6. Batch = <<>> /\ Queue' = <<>> /\ Batch' = Queue
  BY <1>2, <1>4, <1>5, EmptyVals
<1> QED
  BY <1>6 DEF TakeStep

LEMMA ReverseStutters ==
    ASSUME MpscInvariant, Reverse
    PROVE  Queue' = Queue /\ Batch' = Batch
<1>1. PICK h, l, p \in Seq(Addrs) : Shape(h, l, p)
  BY DEF MpscInvariant
<1>2. PICK x : x = list
  OBVIOUS
<1>3. PICK t : t = Tail(l)
  OBVIOUS
<1>4. /\ x \in Addrs /\ t \in Seq(Addrs) /\ Cons(x, p) \in Seq(Addrs) /\ l = Cons(x, t)
      /\ Shape(h, t, Cons(x, p))'
  BY <1>1, <1>2, <1>3, ReverseShape
<1>5. value' = value
  BY DEF Reverse
<1>6. Queue = Reversed(Vals(value, h)) /\ Batch = Reversed(Vals(value, Cons(x, t))) \o Vals(value, p)
  BY <1>1, <1>4, MailboxOfChains
<1>7. Queue' = Reversed(Vals(value, h)) /\ Batch' = Reversed(Vals(value, t)) \o Vals(value, Cons(x, p))
  BY <1>1, <1>4, <1>5, MailboxOfChainsNext
<1> QED
  BY <1>1, <1>4, <1>6, <1>7, TurnKeepsBatch

LEMMA RunRuns ==
    ASSUME MpscInvariant, RunAndDelete
    PROVE  RunStep
<1>1. PICK h, l, p \in Seq(Addrs) : Shape(h, l, p)
  BY DEF MpscInvariant
<1>2. PICK x : x = prev
  OBVIOUS
<1>3. PICK t : t = Tail(p)
  OBVIOUS
<1>4. x \in Addrs /\ t \in Seq(Addrs) /\ p = Cons(x, t) /\ Shape(h, l, t)'
  BY <1>1, <1>2, <1>3, RunShape
<1>5. l = <<>>
  <2>1. list = Null
    BY DEF RunAndDelete, MpscInvariant, ConsumerPhase
  <2> QED
    BY <1>1, <2>1, NullChain DEF Shape
<1>6. \A y \in Addrs : y # x => value'[y] = value[y]
  BY <1>2 DEF RunAndDelete, MpscInvariant, TypeInv, TypeOK
<1>7. Elems(h) \subseteq Addrs /\ Elems(t) \subseteq Addrs
  BY <1>4, ElementOfSeq DEF Elems
<1>8. x \notin Elems(h) /\ x \notin Elems(t)
  <2>1. Elems(p) = Elems(t) \cup {x} /\ x \notin Elems(t)
    BY <1>1, <1>4, ElemsCons DEF Shape, Apart
  <2> QED
    BY <1>1, <2>1 DEF Shape, Apart
<1>9. Vals(value', h) = Vals(value, h) /\ Vals(value', t) = Vals(value, t)
  <2>1. \A y \in Elems(h) : value'[y] = value[y]
    BY <1>6, <1>7, <1>8
  <2>2. \A y \in Elems(t) : value'[y] = value[y]
    BY <1>6, <1>7, <1>8
  <2> QED
    BY <1>1, <1>4, <2>1, <2>2, ValsFrame
<1>10. Queue = Reversed(Vals(value, h)) /\ Batch = Reversed(Vals(value, <<>>)) \o Vals(value, Cons(x, t))
  BY <1>1, <1>4, <1>5, MailboxOfChains
<1>11. Queue' = Reversed(Vals(value', h)) /\ Batch' = Reversed(Vals(value', <<>>)) \o Vals(value', t)
  BY <1>1, <1>4, <1>5, MailboxOfChainsNext
<1>12. Cons(x, t) \in Seq(Addrs)
  BY <1>4, ConsFacts
<1>13. Batch = Vals(value, Cons(x, t)) /\ Batch' = Vals(value', t)
  BY <1>4, <1>10, <1>11, <1>12, EmptyVals
<1>14. Batch # <<>> /\ Tail(Batch) = Vals(value, t)
  BY <1>4, <1>13, ConsTail
<1> QED
  BY <1>9, <1>10, <1>11, <1>13, <1>14 DEF RunStep

\* Every step of the queue is a step of the abstract mailbox or a stutter.
LEMMA StepRefines ==
    ASSUME MpscInvariant, [Next]_vars
    PROVE  PushStep \/ TakeStep \/ RunStep \/ (Queue' = Queue /\ Batch' = Batch)
<1>1. PICK h, l, p \in Seq(Addrs) : Shape(h, l, p)
  BY DEF MpscInvariant
<1> DEFINE Same == Queue' = Queue /\ Batch' = Batch
<1>2. ASSUME NEW q \in Producers, NewNode(q) PROVE Same
  <2>1. Shape(h, l, p)' /\ \A y \in live : value'[y] = value[y]
    BY <1>1, <1>2, NewNodeShape
  <2> QED
    BY <1>1, <2>1, MailboxKept
<1>3. ASSUME NEW q \in Producers, LoadHead(q) \/ CasFails(q) \/ Notify(q) PROVE Same
  <2>1. UNCHANGED <<head_, next, value, live, node, list, prev>>
    BY <1>3 DEF LoadHead, CasFails, Notify
  <2>2. \A r \in Producers : Pushing(r)' <=> Pushing(r)
    BY <1>3 DEF LoadHead, CasFails, Notify, Pushing, MpscInvariant, TypeInv, TypeOK
  <2>3. Shape(h, l, p)'
    BY <1>1, <2>1, <2>2, QuietShape
  <2> QED
    BY <1>1, <2>1, <2>3, MailboxKept
<1>4. ASSUME NEW q \in Producers, Link(q) PROVE Same
  <2>1. Shape(h, l, p)' /\ value' = value
    BY <1>1, <1>4, LinkShape DEF Link
  <2> QED
    BY <1>1, <2>1, MailboxKept
<1>5. ASSUME NEW q \in Producers, CasSucceeds(q) PROVE PushStep
  BY <1>5, CasPushes
<1>6. CASE WaitWoken \/ WaitOther \/ ClearWake \/ UNCHANGED vars
  <2>1. UNCHANGED <<head_, next, value, live, node, list, prev, pc>>
    BY <1>6 DEF WaitWoken, WaitOther, ClearWake, vars
  <2>2. \A r \in Producers : Pushing(r)' <=> Pushing(r)
    BY <2>1 DEF Pushing
  <2>3. Shape(h, l, p)'
    BY <1>1, <2>1, <2>2, QuietShape
  <2> QED
    BY <1>1, <2>1, <2>3, MailboxKept
<1>7. CASE Exchange
  BY <1>7, ExchangeTakes
<1>8. CASE Reverse
  BY <1>8, ReverseStutters
<1>9. CASE RunAndDelete
  BY <1>9, RunRuns
<1> QED
  BY <1>2, <1>3, <1>4, <1>5, <1>6, <1>7, <1>8, <1>9 DEF Next, Produce, Consume

\* In a reachable state the abstract queue is a sequence.
LEMMA QueueIsSeq == MpscInvariant => Queue \in Seq(Img(value))
<1> SUFFICES ASSUME MpscInvariant PROVE Queue \in Seq(Img(value))
  OBVIOUS
<1>1. PICK h, l, p \in Seq(Addrs) : Shape(h, l, p)
  BY DEF MpscInvariant
<1> QED
  BY <1>1, MailboxOfChains, ValsIsSeq, ReversedIsSeq

LEMMA InitRefines == Init => Queue = <<>> /\ Batch = <<>>
<1> SUFFICES ASSUME Init PROVE Queue = <<>> /\ Batch = <<>>
  OBVIOUS
<1>1. PICK h, l, p \in Seq(Addrs) : Shape(h, l, p)
  BY InitInvariant DEF MpscInvariant
<1>2. h = <<>> /\ l = <<>> /\ p = <<>>
  BY <1>1, NullChain DEF Init, Shape
<1>3. Queue = Reversed(Vals(value, <<>>)) /\ Batch = Reversed(Vals(value, <<>>)) \o Vals(value, <<>>)
  BY <1>1, <1>2, MailboxOfChains
<1> QED
  BY <1>1, <1>2, <1>3, EmptyVals

\* The lock-free stack with take-all and reversal is a FIFO mailbox, with any
\* number of producers, whatever addresses are reused and whichever exchanges
\* fail: a push takes effect at its successful exchange.
THEOREM QueueIsFifo == Spec => ImplementsMailbox
<1>1. Init => AbstractMailbox!Init
  BY InitRefines DEF AbstractMailbox!Init, Queue, Batch
<1>2. MpscInvariant /\ [Next]_vars => [AbstractMailbox!Next]_AbstractMailbox!vars
  <2> SUFFICES ASSUME MpscInvariant, [Next]_vars
               PROVE  [AbstractMailbox!Next]_AbstractMailbox!vars
    OBVIOUS
  <2>1. CASE PushStep
    <3>1. PICK v \in Items : Queue' = Append(Queue, v) /\ Batch' = Batch
      BY <2>1 DEF PushStep
    <3>2. Queue \in Seq(Img(value))
      BY QueueIsSeq
    <3>3. Len(Queue') = Len(Queue) + 1 /\ Queue'[Len(Queue) + 1] = v
      BY <3>1, <3>2
    <3>4. AbstractMailbox!Push
      BY <3>1, <3>3 DEF AbstractMailbox!Push, Queue, Batch
    <3> QED
      BY <3>4 DEF AbstractMailbox!Next
  <2>2. CASE TakeStep
    BY <2>2 DEF TakeStep, AbstractMailbox!Next, AbstractMailbox!Take, Queue, Batch
  <2>3. CASE RunStep
    BY <2>3 DEF RunStep, AbstractMailbox!Next, AbstractMailbox!Run, Queue, Batch
  <2>4. CASE Queue' = Queue /\ Batch' = Batch
    BY <2>4 DEF AbstractMailbox!vars, Queue, Batch
  <2> QED
    BY <2>1, <2>2, <2>3, <2>4, StepRefines
<1> QED
  BY <1>1, <1>2, ChainsAreSound, PTL DEF Spec, ImplementsMailbox, AbstractMailbox!Spec
=============================================================================
