-------------------------- MODULE DurabilityProofs --------------------------
(***************************************************************************)
(* Proofs about Durability, for every set of commands whose scores parse,  *)
(* every buffer and fsync period, and every sequence of stops, kills and   *)
(* power losses that tears no record.  (With torn records the guarantees   *)
(* fail: see the run on the torn tail.)                                    *)
(***************************************************************************)
EXTENDS Durability, HandlersProofs

-----------------------------------------------------------------------------
(* Logs.                                                                   *)

Loggable(c) == ScoresParse(c) /\ \E names : WellFormed(c, names)

\* A sequence of whole records.
IsLog(s) == \E C : s \in Seq([cmd : C, n : Nat, torn : {FALSE}]) /\ \A c \in C : Loggable(c)

LEMMA LogParts ==
    ASSUME NEW s, IsLog(s)
    PROVE  /\ Len(s) \in Nat /\ DOMAIN s = 1 .. Len(s)
           /\ \A i \in 1 .. Len(s) : Loggable(s[i].cmd) /\ s[i].n \in Nat /\ s[i].torn = FALSE
<1>1. PICK C : s \in Seq([cmd : C, n : Nat, torn : {FALSE}]) /\ \A c \in C : Loggable(c)
  BY DEF IsLog
<1>2. Len(s) \in Nat /\ DOMAIN s = 1 .. Len(s)
  BY <1>1, LenProperties
<1>3. \A i \in 1 .. Len(s) : s[i] \in [cmd : C, n : Nat, torn : {FALSE}]
  BY <1>1, ElementOfSeq
<1> QED
  BY <1>1, <1>2, <1>3

LEMMA OneEntryLog ==
    ASSUME NEW c, Loggable(c), NEW n \in Nat
    PROVE  IsLog(<<Entry(c, n)>>) /\ Len(<<Entry(c, n)>>) = 1 /\ <<Entry(c, n)>>[1].n = n
<1> DEFINE R(C) == [cmd : C, n : Nat, torn : {FALSE}]
           e    == Entry(c, n)
<1>1. e \in R({c}) /\ e.n = n
  BY DEF Entry
<1> HIDE DEF e
<1>2. <<e>> \in Seq(R({c})) /\ Len(<<e>>) = 1 /\ <<e>>[1] = e
  <2> HIDE DEF R
  <2> QED
    BY <1>1
<1>3. \A d \in {c} : Loggable(d)
  OBVIOUS
<1>4. \E C : <<e>> \in Seq(R(C)) /\ \A d \in C : Loggable(d)
  <2> HIDE DEF R
  <2> QED
    BY <1>2, <1>3
<1>5. IsLog(<<e>>)
  BY <1>4 DEF IsLog
<1> QED
  BY <1>1, <1>2, <1>5 DEF e

LEMMA LogNotEmpty ==
    ASSUME NEW s, IsLog(s)
    PROVE  s # <<>> <=> Len(s) # 0
  BY EmptySeq DEF IsLog

LEMMA LogConcat ==
    ASSUME NEW s, IsLog(s), NEW u, IsLog(u)
    PROVE  /\ IsLog(s \o u) /\ Len(s \o u) = Len(s) + Len(u)
           /\ \A i \in 1 .. Len(s) : (s \o u)[i] = s[i]
           /\ \A i \in 1 .. Len(u) : (s \o u)[Len(s) + i] = u[i]
<1> DEFINE R(C) == [cmd : C, n : Nat, torn : {FALSE}]
<1>1. PICK C : s \in Seq(R(C)) /\ \A c \in C : Loggable(c)
  BY DEF IsLog
<1>2. PICK D : u \in Seq(R(D)) /\ \A c \in D : Loggable(c)
  BY DEF IsLog
<1>3. R(C) \subseteq R(C \cup D) /\ R(D) \subseteq R(C \cup D)
  OBVIOUS
<1>4. \A c \in C \cup D : Loggable(c)
  BY <1>1, <1>2
<1> HIDE DEF R
<1>5. s \in Seq(R(C \cup D)) /\ u \in Seq(R(C \cup D))
  <2>1. s \in Seq(R(C \cup D))
    BY <1>1, <1>3, SeqMonotonic
  <2>2. u \in Seq(R(C \cup D))
    BY <1>2, <1>3, SeqMonotonic
  <2> QED
    BY <2>1, <2>2
<1>6. s \o u \in Seq(R(C \cup D)) /\ Len(s \o u) = Len(s) + Len(u)
  BY <1>5, ConcatProperties
<1>7. Len(s) \in Nat /\ Len(u) \in Nat
  BY <1>5, LenProperties
<1>8. /\ \A i \in 1 .. Len(s) : (s \o u)[i] = s[i]
      /\ \A i \in 1 .. Len(u) : (s \o u)[Len(s) + i] = u[i]
  <2>1. \A i \in 1 .. Len(s) + Len(u) : (s \o u)[i] = IF i <= Len(s) THEN s[i] ELSE u[i - Len(s)]
    BY <1>5, ConcatProperties
  <2> QED
    BY <1>7, <2>1
<1>9. IsLog(s \o u)
  BY <1>4, <1>6 DEF IsLog, R
<1> QED
  BY <1>6, <1>8, <1>9

LEMMA LogPrefix ==
    ASSUME NEW s, IsLog(s), NEW k \in 0 .. Len(s)
    PROVE  /\ IsLog(SubSeq(s, 1, k)) /\ Len(SubSeq(s, 1, k)) = k
           /\ \A i \in 1 .. k : SubSeq(s, 1, k)[i] = s[i]
<1> DEFINE R(C) == [cmd : C, n : Nat, torn : {FALSE}]
<1>1. PICK C : s \in Seq(R(C)) /\ \A c \in C : Loggable(c)
  BY DEF IsLog
<1> HIDE DEF R
<1>2. Len(s) \in Nat
  BY LogParts
<1>3. SubSeq(s, 1, k) \in Seq(R(C)) /\ Len(SubSeq(s, 1, k)) = k /\ \A i \in 1 .. k : SubSeq(s, 1, k)[i] = s[i]
  BY <1>1, <1>2, SubSeqProperties
<1> QED
  BY <1>1, <1>3 DEF IsLog, R

\* A start counts the entries anew.
LEMMA LogRenumbered ==
    ASSUME NEW s, IsLog(s), NEW num, \A i \in 1 .. Len(s) : num[i] \in Nat
    PROVE  LET new == [i \in DOMAIN s |-> [s[i] EXCEPT !.n = num[i]]]
           IN  IsLog(new) /\ Len(new) = Len(s) /\ \A i \in 1 .. Len(s) : new[i].n = num[i]
<1> DEFINE R(C) == [cmd : C, n : Nat, torn : {FALSE}]
           new  == [i \in DOMAIN s |-> [s[i] EXCEPT !.n = num[i]]]
<1>1. PICK C : s \in Seq(R(C)) /\ \A c \in C : Loggable(c)
  BY DEF IsLog
<1>2. Len(s) \in Nat /\ DOMAIN s = 1 .. Len(s)
  BY LogParts
<1>3. \A i \in 1 .. Len(s) : s[i] \in R(C)
  BY <1>1, ElementOfSeq
<1>4. \A i \in 1 .. Len(s) : new[i] \in R(C) /\ new[i].n = num[i]
  BY <1>2, <1>3
<1>5. DOMAIN new = 1 .. Len(s)
  BY <1>2
<1>6. new = [i \in 1 .. Len(s) |-> new[i]]
  BY <1>5
<1> HIDE DEF new, R
<1>7. new \in Seq(R(C)) /\ Len(new) = Len(s)
  <2>1. new \in [1 .. Len(s) -> R(C)]
    BY <1>4, <1>5, <1>6
  <2>2. new \in Seq(R(C))
    BY <1>2, <2>1, SeqDef
  <2> QED
    BY <1>2, <1>5, <2>2, LenProperties
<1>8. IsLog(new)
  BY <1>1, <1>7 DEF IsLog, R
<1> QED
  BY <1>4, <1>7, <1>8 DEF new

LEMMA DelIsLoggable == \A k : Loggable(Command("del", <<k>>, <<>>, {}))
<1> TAKE k
<1> DEFINE c == Command("del", <<k>>, <<>>, {})
<1>1. c.op = "del" /\ c.keys = <<k>> /\ c.args = <<>>
  BY DEF Command
<1> HIDE DEF c
<1>2. c.op \in CommandTable
  BY <1>1 DEF CommandTable
<1>3. c.keys \in Seq({k}) /\ Len(c.keys) = 1
  BY <1>1
<1>4. c.args \in Seq(Int)
  BY <1>1
<1>5. ArityOk(c)
  BY <1>1, <1>3 DEF ArityOk
<1>6. WellFormed(c, {k})
  BY <1>2, <1>3, <1>4, <1>5 DEF WellFormed
<1>7. ScoresParse(c)
  BY <1>1 DEF ScoresParse
<1> QED
  BY <1>6, <1>7 DEF Loggable, c

LEMMA EmptyLog == IsLog(<<>>) /\ Len(<<>>) = 0
<1>1. PICK c : Loggable(c)
  BY DelIsLoggable
<1> DEFINE R(C) == [cmd : C, n : Nat, torn : {FALSE}]
           e    == <<>>
<1>2. e \in Seq(R({c})) /\ Len(e) = 0
  BY EmptySeq
<1> HIDE DEF e
<1>3. \E C : e \in Seq(R(C)) /\ \A d \in C : Loggable(d)
  <2>1. \A d \in {c} : Loggable(d)
    BY <1>1
  <2> HIDE DEF R
  <2> QED
    BY <1>2, <2>1
<1>4. IsLog(e)
  BY <1>3 DEF IsLog
<1> QED
  BY <1>2, <1>4 DEF e

\* What cron() appends.
Dels(k, t, n) ==
    [i \in 1 .. Cardinality(Dead(k, t)) |-> Entry(Command("del", <<SetToSeq(Dead(k, t))[i]>>, <<>>, {}), n)]

LEMMA DelsLog ==
    ASSUME NEW k, Shape(k), NEW t, NEW n \in Nat
    PROVE  /\ IsLog(Dels(k, t, n)) /\ \A i \in 1 .. Len(Dels(k, t, n)) : Dels(k, t, n)[i].n = n
           /\ Dels(k, t, n) = <<>> <=> Dead(k, t) = {}
           /\ Len(Dels(k, t, n)) = Cardinality(Dead(k, t))
<1> DEFINE m == Cardinality(Dead(k, t))
           d == Dels(k, t, n)
           C == {Command("del", <<SetToSeq(Dead(k, t))[i]>>, <<>>, {}) : i \in 1 .. m}
           R == [cmd : C, n : Nat, torn : {FALSE}]
<1>1. IsFiniteSet(Dead(k, t)) /\ m \in Nat /\ (m = 0 <=> Dead(k, t) = {})
  BY CycleShape, FS_CardinalityType, FS_EmptySet
<1>2. \A c \in C : Loggable(c)
  BY DelIsLoggable
<1>3. DOMAIN d = 1 .. m /\ d = [i \in 1 .. m |-> d[i]]
  BY DEF Dels
<1>4. \A i \in 1 .. m : d[i] = Entry(Command("del", <<SetToSeq(Dead(k, t))[i]>>, <<>>, {}), n)
  BY DEF Dels
<1> HIDE DEF d, m
<1>5. \A i \in 1 .. m : d[i] \in R /\ d[i].n = n
  <2> TAKE i \in 1 .. m
  <2> DEFINE c == Command("del", <<SetToSeq(Dead(k, t))[i]>>, <<>>, {})
  <2>1. c \in C /\ d[i] = Entry(c, n)
    BY <1>4
  <2> HIDE DEF c, C
  <2> QED
    BY <2>1 DEF Entry
<1> HIDE DEF R, C
<1>6. d \in [1 .. m -> R]
  BY <1>3, <1>5
<1>7. d \in Seq(R) /\ Len(d) = m
  <2>1. d \in Seq(R)
    BY <1>1, <1>6, SeqDef
  <2> QED
    BY <1>1, <1>3, <2>1, LenProperties
<1>8. IsLog(d)
  BY <1>2, <1>7 DEF IsLog, R
<1>9. d = <<>> <=> m = 0
  BY <1>7, EmptySeq
<1> QED
  BY <1>1, <1>5, <1>7, <1>8, <1>9 DEF d, m
-----------------------------------------------------------------------------
(* Recovery: what it builds is a sound keyspace.                           *)

\* The equation that defines ReplaySteps has a solution, so ReplaySteps is one.
LEMMA ReplayUnfolds ==
    ASSUME NEW k, NEW entries, NEW t, Len(entries) \in Nat
    PROVE  \A i \in 0 .. Len(entries) : ReplaySteps(k, entries, t)[i] =
               IF i = 0 THEN k ELSE Handle(ReplaySteps(k, entries, t)[i - 1], entries[i].cmd, t).ks
<1> DEFINE m == Len(entries)
           Body(g, i) == IF i = 0 THEN k ELSE Handle(g[i - 1], entries[i].cmd, t).ks
           Solves(g, n) == g = [i \in 0 .. n |-> Body(g, i)]
           Solvable == {n \in Nat : \E g : Solves(g, n)}
<1>1. 0 \in Solvable
  <2> DEFINE g == [i \in 0 .. 0 |-> k]
  <2>1. Solves(g, 0)
    OBVIOUS
  <2> HIDE DEF Solves, g
  <2> QED
    BY <2>1
<1>2. ASSUME NEW n \in Solvable PROVE n + 1 \in Solvable
  <2>1. n \in Nat
    OBVIOUS
  <2>2. PICK g : Solves(g, n)
    OBVIOUS
  <2> DEFINE h == [i \in 0 .. n + 1 |-> IF i \in 0 .. n THEN g[i] ELSE Body(g, i)]
  <2>3. ASSUME NEW i \in 0 .. n + 1 PROVE h[i] = Body(h, i)
    <3>1. h[i] = Body(g, i)
      <4>1. CASE i \in 0 .. n
        <5>1. g[i] = Body(g, i)
          BY <2>2, <4>1
        <5> HIDE DEF Body, Solves
        <5> QED
          BY <4>1, <5>1
      <4>2. CASE i \notin 0 .. n
        <5> HIDE DEF Body, Solves
        <5> QED
          BY <4>2
      <4> QED
        BY <4>1, <4>2
    <3>2. CASE i = 0
      BY <3>1, <3>2
    <3>3. CASE i # 0
      <4>1. i - 1 \in 0 .. n /\ i - 1 \in 0 .. n + 1
        BY <2>1, <3>3
      <4>2. h[i - 1] = g[i - 1]
        BY <4>1
      <4> HIDE DEF h
      <4> QED
        BY <3>1, <4>2
    <3> QED
      BY <3>2, <3>3
  <2>4. Solves(h, n + 1)
    <3>1. h = [i \in 0 .. n + 1 |-> h[i]]
      OBVIOUS
    <3> HIDE DEF h, Body
    <3> QED
      BY <2>3, <3>1
  <2> HIDE DEF Solves, h
  <2> QED
    BY <2>1, <2>4
<1>3. m \in Solvable
  <2>1. Solvable \subseteq Nat
    OBVIOUS
  <2> HIDE DEF Solvable
  <2>2. Solvable = Nat
    BY <1>1, <1>2, <2>1, InductionOverNat
  <2> QED
    BY <2>2
<1>4. Solves(ReplaySteps(k, entries, t), m)
  <2>1. ReplaySteps(k, entries, t) = CHOOSE g : Solves(g, m)
    BY DEF ReplaySteps
  <2>2. \E g : Solves(g, m)
    BY <1>3
  <2> HIDE DEF Solves
  <2> QED
    BY <2>1, <2>2
<1> QED
  BY <1>4

LEMMA ReplaySound ==
    ASSUME NEW k, Sound(k), NEW entries, IsLog(entries), NEW t \in Nat
    PROVE  Sound(Replay(k, entries, t))
<1> DEFINE m     == Len(entries)
           after == ReplaySteps(k, entries, t)
           S     == {i \in Nat : i <= m => Sound(after[i])}
<1>1. m \in Nat /\ \A i \in 1 .. m : Loggable(entries[i].cmd)
  BY LogParts
<1>2. \A i \in 0 .. m : after[i] = IF i = 0 THEN k ELSE Handle(after[i - 1], entries[i].cmd, t).ks
  BY <1>1, ReplayUnfolds
<1> HIDE DEF after, m
<1>3. 0 \in S
  BY <1>1, <1>2
<1>4. ASSUME NEW n \in S PROVE n + 1 \in S
  <2>1. n \in Nat
    OBVIOUS
  <2>2. SUFFICES ASSUME n + 1 <= m PROVE Sound(after[n + 1])
    BY <2>1
  <2>3. n + 1 \in 0 .. m /\ n + 1 # 0 /\ (n + 1) - 1 = n /\ n + 1 \in 1 .. m /\ n <= m
    BY <1>1, <2>1, <2>2
  <2>4. after[n + 1] = Handle(after[n], entries[n + 1].cmd, t).ks
    BY <1>2, <2>3
  <2>5. Sound(after[n])
    BY <2>3
  <2>6. PICK names : WellFormed(entries[n + 1].cmd, names)
    BY <1>1, <2>3 DEF Loggable
  <2>7. ScoresParse(entries[n + 1].cmd)
    BY <1>1, <2>3 DEF Loggable
  <2> QED
    BY <2>4, <2>5, <2>6, <2>7, HandleSound
<1>5. S \subseteq Nat
  OBVIOUS
<1>6. m \in S
  <2> HIDE DEF S
  <2> QED
    BY <1>1, <1>3, <1>4, <1>5, InductionOverNat
<1>7. Sound(after[m])
  BY <1>1, <1>6
<1> QED
  BY <1>7 DEF Replay, after, m

SoundImage(i) ==
    \/ \E n : i = [kind |-> "none", n |-> n] \/ i = [kind |-> "truncated", n |-> n]
    \/ \E k, n : Sound(k) /\ i = Image(k, n)

LEMMA LoadSound ==
    ASSUME NEW k, Sound(k), NEW n, NEW t
    PROVE  Sound(Load(Image(k, n), t))
<1> DEFINE image == Image(k, n)
           kept  == {x \in DOMAIN image.dict : ~(image.deadlines[x] # 0 /\ image.deadlines[x] <= t)}
           due   == {y \in kept : image.deadlines[y] # 0}
           d     == [x \in kept |-> image.dict[x]]
           e     == [x \in due |-> image.deadlines[x]]
<1>1. Load(image, t) = [dict |-> d, expires |-> e]
  BY DEF Load
<1>2. image.dict = k.dict /\ \A x \in DOMAIN k.dict : image.deadlines[x] \in Nat
  BY ShapeParts DEF Image, DeadlineOrZero, Sound
<1> HIDE DEF image
<1>3. kept \in SUBSET DOMAIN k.dict /\ due \subseteq kept
  BY <1>2
<1>4. IsFiniteSet(kept)
  BY <1>3, ShapeParts, FS_Subset DEF Sound
<1>5. /\ IsTable(d) /\ DOMAIN d = kept /\ \A x \in kept : d[x] = k.dict[x]
      /\ IsTable(e) /\ DOMAIN e = due
  BY <1>2 DEF IsTable
<1>6. \A x \in due : e[x] \in Nat
  BY <1>2, <1>3
<1> HIDE DEF d, e, kept, due
<1>7. Shape([dict |-> d, expires |-> e])
  BY <1>3, <1>4, <1>5, <1>6, MakeShape
<1>8. SoundObjects([dict |-> d, expires |-> e])
  BY <1>3, <1>5 DEF SoundObjects, Sound
<1> QED
  BY <1>1, <1>7, <1>8 DEF Sound, image

LEMMA ImageKinds ==
    ASSUME NEW i, SoundImage(i)
    PROVE  /\ i.kind = "complete" => \E k, n : Sound(k) /\ i = Image(k, n)
           /\ SoundImage([i EXCEPT !.n = 1])
<1>1. ASSUME NEW n, NEW w \in {"none", "truncated"}, i = [kind |-> w, n |-> n]
      PROVE  i.kind # "complete" /\ SoundImage([i EXCEPT !.n = 1])
  <2>1. [i EXCEPT !.n = 1] = [kind |-> w, n |-> 1] /\ i.kind = w
    BY <1>1
  <2> QED
    BY <2>1 DEF SoundImage
<1>2. ASSUME NEW k, NEW n, Sound(k), i = Image(k, n)
      PROVE  SoundImage([i EXCEPT !.n = 1])
  <2>1. [i EXCEPT !.n = 1] = Image(k, 1)
    BY <1>2 DEF Image
  <2> QED
    BY <1>2, <2>1 DEF SoundImage
<1> QED
  BY <1>1, <1>2 DEF SoundImage

LEMMA EmptySound == Sound(EmptyKeyspace)
  BY EmptyShape DEF Sound, SoundObjects, EmptyKeyspace

\* Without torn records the whole log is replayed.
LEMMA WholeLogReplayed ==
    ASSUME NEW s, IsLog(s)
    PROVE  Replayed(s) = {s}
<1>1. ~\E i \in DOMAIN s : s[i].torn
  BY LogParts
<1>2. Untorn(s) = s
  BY <1>1 DEF Untorn
<1> QED
  BY <1>2 DEF Replayed

LEMMA RecoveredSound ==
    ASSUME SoundImage(snap), IsLog(file), now \in Nat, NEW r \in Recovered(now)
    PROVE  Sound(r)
<1> DEFINE loaded == IF snap.kind = "complete" THEN Load(snap, now) ELSE EmptyKeyspace
<1>1. PICK entries \in IF setup.aof THEN Replayed(file) ELSE {<<>>} : r = Replay(loaded, entries, now)
  BY DEF Recovered
<1>2. IsLog(entries)
  BY <1>1, WholeLogReplayed, EmptyLog
<1>3. Sound(loaded)
  BY ImageKinds, LoadSound, EmptySound
<1> HIDE DEF loaded
<1> QED
  BY <1>1, <1>2, <1>3, ReplaySound
-----------------------------------------------------------------------------
(* The newest change on stable storage.                                    *)

\* A set of numbers that is not empty has a least element.
LEMMA LeastExists ==
    ASSUME NEW T, T \subseteq Nat, T # {}
    PROVE  \E x \in T : \A y \in T : x <= y
<1> DEFINE R == OpToRel(<, Nat)
<1>1. PICK x \in T : \A y \in T : ~(<<y, x>> \in R)
  <2>1. IsWellFoundedOn(R, Nat)
    BY NatLessThanWellFounded
  <2> HIDE DEF R
  <2> QED
    BY <2>1, WFMin
<1>2. ASSUME NEW y \in T PROVE x <= y
  <2>1. x \in Nat /\ y \in Nat /\ ~(<<y, x>> \in R)
    BY <1>1
  <2>2. y < x => <<y, x>> \in R
    BY <2>1 DEF OpToRel
  <2> HIDE DEF R
  <2> QED
    BY <2>1, <2>2
<1> QED
  BY <1>2

\* A bounded one has a largest: the least of its bounds.
LEMMA LargestExists ==
    ASSUME NEW T, T \subseteq Nat, T # {}, NEW top \in Nat, \A x \in T : x <= top
    PROVE  \E x \in T : \A y \in T : x >= y
<1> DEFINE B == {u \in Nat : \A y \in T : y <= u}
<1>1. PICK u \in B : \A w \in B : u <= w
  <2>1. B \subseteq Nat /\ top \in B
    OBVIOUS
  <2> HIDE DEF B
  <2> QED
    BY <2>1, LeastExists
<1>2. u \in Nat /\ \A y \in T : y <= u
  OBVIOUS
<1>3. u \in T
  <2> SUFFICES ASSUME u \notin T PROVE FALSE
    OBVIOUS
  <2>1. \A y \in T : y \in Nat /\ y <= u /\ y # u
    BY <1>2
  <2>2. u - 1 \in Nat
    <3>1. PICK y : y \in T
      OBVIOUS
    <3>2. y \in Nat /\ y <= u /\ y # u
      BY <2>1, <3>1
    <3> HIDE DEF B
    <3> QED
      BY <1>2, <3>2
  <2>3. \A y \in T : y <= u - 1
    BY <1>2, <2>1
  <2>4. u - 1 \in B
    BY <2>2, <2>3
  <2> HIDE DEF B
  <2> QED
    BY <1>1, <1>2, <2>4
<1> QED
  BY <1>2, <1>3

\* Durable as a function of the three variables it reads.
DurableOf(b, f, m) ==
    Max({b} \cup {f[i].n : i \in {j \in 1 .. m : \A l \in 1 .. j : ~f[l].torn}})

LEMMA DurableBounds ==
    ASSUME NEW b \in Nat, NEW f, IsLog(f), NEW m \in 0 .. Len(f), NEW top \in Nat, b <= top,
           \A i \in 1 .. m : f[i].n <= top
    PROVE  /\ DurableOf(b, f, m) \in Nat
           /\ DurableOf(b, f, m) = b \/ \E i \in 1 .. m : DurableOf(b, f, m) = f[i].n
           /\ DurableOf(b, f, m) >= b
           /\ \A i \in 1 .. m : DurableOf(b, f, m) >= f[i].n
           /\ DurableOf(b, f, m) <= top
<1> DEFINE T == {b} \cup {f[i].n : i \in 1 .. m}
<1>1. Len(f) \in Nat /\ \A i \in 1 .. Len(f) : f[i].n \in Nat /\ f[i].torn = FALSE
  BY LogParts
<1>2. {j \in 1 .. m : \A l \in 1 .. j : ~f[l].torn} = 1 .. m
  BY <1>1
<1>3. DurableOf(b, f, m) = Max(T)
  BY <1>2 DEF DurableOf
<1>4. T \subseteq Nat /\ T # {} /\ \A x \in T : x <= top
  BY <1>1
<1>5. \E x \in T : \A y \in T : x >= y
  <2> HIDE DEF T
  <2> QED
    BY <1>4, LargestExists
<1>6. Max(T) \in T /\ \A y \in T : Max(T) >= y
  <2> HIDE DEF T
  <2> QED
    BY <1>5 DEF Max
<1> QED
  BY <1>3, <1>4, <1>6

\* More synced entries, or other ones behind them, lose nothing.
LEMMA DurableGrows ==
    ASSUME NEW b \in Nat, NEW f, IsLog(f), NEW m \in 0 .. Len(f), NEW top \in Nat, b <= top,
           \A i \in 1 .. m : f[i].n <= top,
           NEW g, IsLog(g), NEW p \in 0 .. Len(g), m <= p, NEW high \in Nat, b <= high,
           \A i \in 1 .. p : g[i].n <= high,
           \A i \in 1 .. m : g[i].n = f[i].n
    PROVE  DurableOf(b, f, m) <= DurableOf(b, g, p)
<1>1. Len(f) \in Nat /\ Len(g) \in Nat
  BY LogParts
<1>2. DurableOf(b, f, m) = b \/ \E i \in 1 .. m : DurableOf(b, f, m) = f[i].n
  BY DurableBounds
<1>3. /\ DurableOf(b, g, p) >= b
      /\ \A i \in 1 .. p : DurableOf(b, g, p) >= g[i].n
  BY DurableBounds
<1> QED
  BY <1>1, <1>2, <1>3

\* The changes that the entries of a log stand for.
All(f) == {f[i].n : i \in 1 .. Len(f)}

LEMMA AllConcat ==
    ASSUME NEW s, IsLog(s), NEW u, IsLog(u)
    PROVE  All(s \o u) = All(s) \cup All(u)
<1>1. /\ Len(s \o u) = Len(s) + Len(u) /\ Len(s) \in Nat /\ Len(u) \in Nat
      /\ \A i \in 1 .. Len(s) : (s \o u)[i] = s[i]
      /\ \A i \in 1 .. Len(u) : (s \o u)[Len(s) + i] = u[i]
  BY LogConcat, LogParts
<1>2. \A x \in All(s \o u) : x \in All(s) \cup All(u)
  <2> TAKE x \in All(s \o u)
  <2>1. PICK i \in 1 .. Len(s) + Len(u) : x = (s \o u)[i].n
    BY <1>1 DEF All
  <2>2. CASE i \in 1 .. Len(s)
    BY <1>1, <2>1, <2>2 DEF All
  <2>3. CASE i \notin 1 .. Len(s)
    <3>1. i - Len(s) \in 1 .. Len(u) /\ i = Len(s) + (i - Len(s))
      BY <1>1, <2>3
    <3>2. (s \o u)[i] = u[i - Len(s)]
      BY <1>1, <3>1
    <3> QED
      BY <2>1, <3>1, <3>2 DEF All
  <2> QED
    BY <2>2, <2>3
<1>3. All(s) \subseteq All(s \o u)
  BY <1>1 DEF All
<1>4. All(u) \subseteq All(s \o u)
  <2> SUFFICES ASSUME NEW i \in 1 .. Len(u) PROVE u[i].n \in All(s \o u)
    BY DEF All
  <2>1. Len(s) + i \in 1 .. Len(s \o u) /\ (s \o u)[Len(s) + i] = u[i]
    BY <1>1
  <2> QED
    BY <2>1 DEF All
<1> QED
  BY <1>2, <1>3, <1>4

LEMMA AllEmpty == All(<<>>) = {}
  BY EmptyLog DEF All
-----------------------------------------------------------------------------
(* The inductive invariant.                                                *)

\* The commands ZADD gets have scores that parse, and no record is torn.
CalmSetup(s) == "tear" \notin s.faults /\ \A c \in s.requests : ScoresParse(c)

Calm == CalmSetup(setup)

IsHistory(h, t) ==
    /\ \E S : h \in Seq(S)
    /\ Len(h) \in Nat \ {0}
    /\ \A i \in 1 .. Len(h) : h[i].at \in Nat /\ h[i].at <= t

\* What the process and the machine hold is well formed.
Machine ==
    /\ setup \in Setups
    /\ status \in {"up", "down", "refused"}
    /\ now \in Nat
    /\ Sound(ks) /\ SoundImage(snap) /\ SoundImage(child)
    /\ IsLog(file) /\ IsLog(buf)
    /\ IsHistory(hist, now)

\* Numbers of changes stay within the history.
Numbered ==
    /\ base \in 0 .. Len(hist) /\ acked \in 0 .. Len(hist) /\ synced \in 0 .. Len(file)
    /\ All(file) \subseteq 0 .. Len(hist) /\ All(buf) \subseteq 0 .. Len(hist)
    /\ syncing => status = "up" /\ setup.aof /\ setup.fsync = "always"
    /\ status # "up" => buf = <<>>

\* The last change is in the log, or in the buffer, or what an empty log means.
Newest ==
    setup.aof /\ status = "up" => Len(hist) \in {base} \cup All(file) \cup All(buf)

\* Under "always" the change whose client waits is the last one in the file.
Written ==
    setup.aof /\ setup.fsync = "always" =>
        /\ acked <= Durable
        /\ syncing => Len(file) # 0 /\ file[Len(file)].n = Len(hist)

\* Under "everysec" the changes that are not durable were made since the last
\* fsync, and cron() has not been late for them.
Recent(i) ==
    /\ hist[i].at >= last_fsync
    /\ ~cron_due => hist[i].at = now \/ now - last_fsync < FsyncPeriod
    /\ cron_due => now - hist[i].at <= 1 \/ now - last_fsync <= FsyncPeriod

EverySecond == setup.aof /\ setup.fsync = "everysec" /\ "kill" \notin setup.faults

Window ==
    EverySecond =>
        /\ status # "up" => synced = Len(file)
        /\ status = "up" =>
             /\ last_fsync \in Nat /\ last_fsync <= now
             /\ ~dirty => Durable >= Len(hist)
             /\ \A i \in Durable + 1 .. Len(hist) : Recent(i)

Inv == Machine /\ Numbered /\ Newest /\ Written /\ Window

LEMMA HistoryGrows ==
    ASSUME NEW h, NEW t \in Nat, IsHistory(h, t), NEW k
    PROVE  LET x == [ks |-> k, at |-> t]
           IN  /\ IsHistory(Append(h, x), t) /\ Len(Append(h, x)) = Len(h) + 1
               /\ \A i \in 1 .. Len(h) : Append(h, x)[i] = h[i]
               /\ Append(h, x)[Len(h) + 1].at = t
<1> DEFINE x == [ks |-> k, at |-> t]
<1>1. x.at = t
  OBVIOUS
<1> HIDE DEF x
<1>2. PICK S : h \in Seq(S)
  BY DEF IsHistory
<1>3. h \in Seq(S \cup {x})
  BY <1>2, SeqMonotonic
<1>4. /\ Append(h, x) \in Seq(S \cup {x}) /\ Len(Append(h, x)) = Len(h) + 1
      /\ \A i \in 1 .. Len(h) : Append(h, x)[i] = h[i]
      /\ Append(h, x)[Len(h) + 1] = x
  BY <1>3, AppendProperties
<1>5. Len(h) \in Nat /\ \A i \in 1 .. Len(h) : h[i].at \in Nat /\ h[i].at <= t
  BY DEF IsHistory
<1>6. \A i \in 1 .. Len(h) + 1 : Append(h, x)[i].at \in Nat /\ Append(h, x)[i].at <= t
  BY <1>1, <1>4, <1>5
<1>7. IsHistory(Append(h, x), t)
  BY <1>4, <1>5, <1>6 DEF IsHistory
<1> QED
  BY <1>1, <1>4, <1>7 DEF x

LEMMA HistoryStarts ==
    ASSUME NEW k, NEW t \in Nat
    PROVE  IsHistory(<<[ks |-> k, at |-> t]>>, t) /\ Len(<<[ks |-> k, at |-> t]>>) = 1
<1> DEFINE x == [ks |-> k, at |-> t]
<1>1. x.at = t
  OBVIOUS
<1> HIDE DEF x
<1>2. <<x>> \in Seq({x}) /\ Len(<<x>>) = 1 /\ <<x>>[1] = x
  OBVIOUS
<1> DEFINE h == <<x>>
<1>3. h \in Seq({x}) /\ Len(h) = 1 /\ \A i \in 1 .. Len(h) : h[i].at = t
  BY <1>1, <1>2
<1> HIDE DEF h
<1>4. IsHistory(h, t)
  BY <1>3 DEF IsHistory
<1> QED
  BY <1>2, <1>4 DEF x, h

LEMMA DurableIs == Durable = DurableOf(base, file, synced)
  BY DEF Durable, DurableOf

\* What Durable is bounded by, in every state of the invariant.
LEMMA DurableInv ==
    ASSUME Machine, Numbered
    PROVE  /\ Durable \in Nat /\ Durable >= base /\ Durable <= Len(hist)
           /\ \A i \in 1 .. synced : Durable >= file[i].n
<1>1. Len(file) \in Nat /\ Len(hist) \in Nat /\ base \in Nat /\ base <= Len(hist)
  BY LogParts DEF Machine, Numbered, IsHistory
<1>2. \A i \in 1 .. synced : file[i].n <= Len(hist)
  BY <1>1 DEF Numbered, All
<1> QED
  BY <1>1, <1>2, DurableIs, DurableBounds DEF Machine, Numbered

LEMMA DurableLow ==
    ASSUME NEW b \in Nat, NEW f, IsLog(f), NEW m \in 0 .. Len(f), NEW top \in Nat, b <= top,
           All(f) \subseteq 0 .. top
    PROVE  /\ DurableOf(b, f, m) \in Nat /\ DurableOf(b, f, m) >= b /\ DurableOf(b, f, m) <= top
           /\ \A i \in 1 .. m : DurableOf(b, f, m) >= f[i].n
<1>1. Len(f) \in Nat
  BY LogParts
<1>2. \A i \in 1 .. m : f[i].n <= top
  BY <1>1 DEF All
<1> QED
  BY <1>2, DurableBounds

LEMMA DurableNext ==
    ASSUME Machine', Numbered'
    PROVE  Durable' \in Nat /\ Durable' >= base' /\ Durable' <= Len(hist')
<1>1. Len(file') \in Nat /\ Len(hist') \in Nat /\ base' \in Nat /\ base' <= Len(hist')
  BY LogParts DEF Machine, Numbered, IsHistory
<1>2. IsLog(file') /\ synced' \in 0 .. Len(file') /\ All(file') \subseteq 0 .. Len(hist')
  BY DEF Machine, Numbered
<1>3. Durable' = DurableOf(base', file', synced')
  BY DEF Durable, DurableOf
<1> QED
  BY <1>1, <1>2, <1>3, DurableLow

\* A step that keeps base and the synced entries makes nothing less durable.
LEMMA DurableKept ==
    ASSUME Machine, Numbered, Machine', Numbered', base' = base, synced <= synced',
           \A i \in 1 .. synced : file'[i].n = file[i].n
    PROVE  Durable <= Durable'
<1>1. /\ Len(file) \in Nat /\ Len(hist) \in Nat /\ base \in Nat /\ base <= Len(hist)
      /\ IsLog(file) /\ synced \in 0 .. Len(file)
  BY LogParts DEF Machine, Numbered, IsHistory
<1>2. /\ Len(file') \in Nat /\ Len(hist') \in Nat /\ base' <= Len(hist')
      /\ IsLog(file') /\ synced' \in 0 .. Len(file')
  BY LogParts DEF Machine, Numbered, IsHistory
<1>3. \A i \in 1 .. synced : file[i].n <= Len(hist)
  BY <1>1 DEF Numbered, All
<1>4. \A i \in 1 .. synced' : file'[i].n <= Len(hist')
  BY <1>2 DEF Numbered, All
<1>5. Durable = DurableOf(base, file, synced) /\ Durable' = DurableOf(base', file', synced')
  BY DEF Durable, DurableOf
<1>6. DurableOf(base, file, synced) <= DurableOf(base, file', synced')
  BY <1>1, <1>2, <1>3, <1>4, DurableGrows
<1> QED
  BY <1>5, <1>6

\* The whole log is synced and holds the last change.
LEMMA WholeLogDurable ==
    ASSUME NEW b \in Nat, NEW f, IsLog(f), NEW top \in Nat, b <= top,
           All(f) \subseteq 0 .. top, top \in {b} \cup All(f)
    PROVE  DurableOf(b, f, Len(f)) = top
<1>1. Len(f) \in Nat /\ Len(f) \in 0 .. Len(f)
  BY LogParts
<1> DEFINE D == DurableOf(b, f, Len(f))
<1>2. D \in Nat /\ D >= b /\ D <= top /\ \A i \in 1 .. Len(f) : D >= f[i].n
  BY <1>1, DurableLow
<1> HIDE DEF D
<1>3. D >= top
  BY <1>2 DEF All
<1> QED
  BY <1>2, <1>3 DEF D

LEMMA NothingAbove ==
    ASSUME NEW m \in Nat, NEW n \in Nat, m >= n
    PROVE  m + 1 .. n = {}
<1>1. ~\E i \in Int : m + 1 <= i /\ i <= n
  OBVIOUS
<1> QED
  BY <1>1

LEMMA StillAbove ==
    ASSUME NEW d \in Nat, NEW e \in Nat, d <= e, NEW n \in Nat, NEW i \in e + 1 .. n + 1, i # n + 1
    PROVE  i \in d + 1 .. n /\ i \in 1 .. n
  OBVIOUS

LEMMA FewerAbove ==
    ASSUME NEW d \in Nat, NEW e \in Nat, d <= e, NEW n \in Nat, NEW i \in e + 1 .. n
    PROVE  i \in d + 1 .. n
  OBVIOUS

LEMMA InvInit == Init => Inv
<1> SUFFICES ASSUME Init PROVE Inv
  OBVIOUS
<1>1. Machine
  <2>1. IsHistory(hist, now) /\ Len(hist) = 1
    BY HistoryStarts DEF Init
  <2>2. SoundImage(NoImage)
    BY DEF SoundImage, NoImage
  <2> QED
    BY <2>1, <2>2, EmptyLog, EmptySound DEF Init, Machine
<1>2. Len(hist) = 1 /\ Len(file) = 0 /\ All(file) = {} /\ All(buf) = {}
  BY HistoryStarts, EmptyLog, AllEmpty DEF Init
<1>3. Numbered
  BY <1>2 DEF Init, Numbered
<1>4. Durable >= 1 /\ Durable \in Nat
  BY <1>1, <1>3, DurableInv DEF Init
<1>5. Newest /\ Written
  BY <1>2, <1>4 DEF Init, Newest, Written
<1>6. Window
  BY <1>2, <1>4 DEF Init, Window
<1> QED
  BY <1>1, <1>3, <1>5, <1>6 DEF Inv
-----------------------------------------------------------------------------
(* The steps.                                                              *)

\* append(): nothing leaves the file, and every entry is there or in the buffer.
LEMMA AppendEffect ==
    ASSUME IsLog(file), IsLog(buf), NEW entries, IsLog(entries), AppendLog(entries)
    PROVE  /\ IsLog(file') /\ IsLog(buf')
           /\ Len(file) <= Len(file') /\ \A i \in 1 .. Len(file) : file'[i] = file[i]
           /\ All(file) \cup All(buf) \subseteq All(file') \cup All(buf')
           /\ All(file') \cup All(buf') \subseteq All(file) \cup All(buf) \cup All(entries)
           /\ setup.aof /\ entries # <<>> => dirty' = TRUE /\ All(entries) \subseteq All(file') \cup All(buf')
           /\ ~setup.aof \/ entries = <<>> => buf' = buf /\ file' = file /\ dirty' = dirty
           /\ setup.aof /\ entries # <<>> /\ setup.fsync = "always" =>
                 Len(file') # 0 /\ file'[Len(file')] = entries[Len(entries)]
<1>1. Len(file) \in Nat /\ Len(buf) \in Nat /\ Len(entries) \in Nat
  BY LogParts
<1>2. CASE entries = <<>> \/ ~setup.aof
  <2>1. buf' = buf /\ file' = file /\ dirty' = dirty
    BY <1>2 DEF AppendLog
  <2> QED
    BY <1>1, <1>2, <2>1
<1>3. CASE entries # <<>> /\ setup.aof /\ MustFlush(buf \o entries)
  <2>1. buf' = <<>> /\ file' = file \o buf \o entries /\ dirty' = TRUE
    BY <1>3 DEF AppendLog
  <2>2. /\ IsLog(file \o buf) /\ Len(file \o buf) = Len(file) + Len(buf) /\ All(file \o buf) = All(file) \cup All(buf)
        /\ \A i \in 1 .. Len(file) : (file \o buf)[i] = file[i]
    BY LogConcat, AllConcat
  <2> DEFINE fb == file \o buf
  <2> HIDE DEF fb
  <2>11. IsLog(fb)
    BY <2>2 DEF fb
  <2>3. /\ IsLog(fb \o entries) /\ Len(fb \o entries) = Len(fb) + Len(entries)
        /\ All(fb \o entries) = All(fb) \cup All(entries)
        /\ \A i \in 1 .. Len(fb) : (fb \o entries)[i] = fb[i]
        /\ \A i \in 1 .. Len(entries) : (fb \o entries)[Len(fb) + i] = entries[i]
    BY <2>11, LogConcat, AllConcat
  <2>4. file' = fb \o entries
    BY <2>1 DEF fb
  <2>5. Len(fb) = Len(file) + Len(buf) /\ \A i \in 1 .. Len(file) : fb[i] = file[i]
    BY <2>2 DEF fb
  <2>6. Len(file) <= Len(file') /\ \A i \in 1 .. Len(file) : file'[i] = file[i]
    BY <1>1, <2>3, <2>4, <2>5
  <2>7. Len(entries) # 0
    BY <1>3, LogNotEmpty
  <2>8. Len(file') # 0 /\ file'[Len(file')] = entries[Len(entries)]
    BY <1>1, <2>3, <2>4, <2>5, <2>7
  <2>9. All(file') = All(file) \cup All(buf) \cup All(entries) /\ All(buf') = {}
    BY <2>1, <2>2, <2>3, <2>4, AllEmpty DEF fb
  <2>10. IsLog(buf')
    BY <2>1, EmptyLog
  <2> QED
    BY <1>3, <2>1, <2>3, <2>4, <2>6, <2>8, <2>9, <2>10
<1>4. CASE entries # <<>> /\ setup.aof /\ ~MustFlush(buf \o entries)
  <2>1. buf' = buf \o entries /\ file' = file /\ dirty' = TRUE /\ setup.fsync # "always"
    BY <1>4 DEF AppendLog, MustFlush
  <2>2. IsLog(buf \o entries) /\ All(buf \o entries) = All(buf) \cup All(entries)
    BY LogConcat, AllConcat
  <2>3. IsLog(buf') /\ All(buf') = All(buf) \cup All(entries)
    BY <2>1, <2>2
  <2>4. IsLog(file') /\ Len(file) <= Len(file') /\ \A i \in 1 .. Len(file) : file'[i] = file[i]
    BY <1>1, <2>1
  <2>5. All(file') = All(file)
    BY <2>1
  <2>6. /\ All(file) \cup All(buf) \subseteq All(file') \cup All(buf')
        /\ All(file') \cup All(buf') \subseteq All(file) \cup All(buf) \cup All(entries)
        /\ All(entries) \subseteq All(file') \cup All(buf')
    BY <2>3, <2>5
  <2> HIDE DEF All
  <2> QED
    BY <1>4, <2>1, <2>3, <2>4, <2>6
<1> QED
  BY <1>2, <1>3, <1>4

LEMMA MachineLens ==
    ASSUME Machine
    PROVE  Len(file) \in Nat /\ Len(buf) \in Nat /\ Len(hist) \in Nat /\ Len(hist) # 0
  BY LogParts DEF Machine, IsHistory

\* Steps that touch neither the log nor the history nor the clock.
LEMMA LogUntouched ==
    ASSUME Inv, Machine',
           UNCHANGED <<setup, status, buf, dirty, last_fsync, syncing, cron_due, now, file, synced, hist, base, acked>>
    PROVE  Inv'
<1>1. Durable' = Durable
  BY DEF Durable
<1>2. Numbered' /\ Newest' /\ Written'
  BY <1>1 DEF Inv, Numbered, Newest, Written
<1>3. Window'
  BY <1>1 DEF Inv, Window, EverySecond, Recent
<1> QED
  BY <1>2, <1>3 DEF Inv

LEMMA ForkInv ==
    ASSUME Inv, Fork
    PROVE  Inv'
<1>1. SoundImage(child')
  BY DEF Fork, Inv, Machine, SoundImage
<1>2. Machine'
  BY <1>1 DEF Fork, Inv, Machine
<1> QED
  BY <1>2, LogUntouched DEF Fork

LEMMA SaveInv ==
    ASSUME Inv, Save
    PROVE  Inv'
<1>1. SoundImage(NoImage) /\ SoundImage(Truncated)
  BY DEF SoundImage, NoImage, Truncated
<1>2. SoundImage(snap') /\ SoundImage(child')
  BY <1>1 DEF Save, Inv, Machine
<1>3. Machine'
  BY <1>2 DEF Save, Inv, Machine
<1> QED
  BY <1>3, LogUntouched DEF Save

LEMMA FsyncInv ==
    ASSUME Inv, Fsync
    PROVE  Inv'
<1>1. Machine'
  BY DEF Fsync, Inv, Machine
<1>2. Len(file) \in Nat /\ Len(hist) \in Nat
  BY MachineLens DEF Inv
<1>3. Numbered' /\ Newest'
  BY <1>2 DEF Fsync, Inv, Numbered, Newest
<1>4. setup.aof /\ setup.fsync = "always" /\ Len(file) # 0 /\ file[Len(file)].n = Len(hist)
  BY DEF Fsync, Inv, Numbered, Written
<1>5. Durable' = DurableOf(base, file, Len(file))
  BY DEF Fsync, Durable, DurableOf
<1>6. DurableOf(base, file, Len(file)) >= file[Len(file)].n
  <2>1. IsLog(file) /\ All(file) \subseteq 0 .. Len(hist)
    BY DEF Inv, Machine, Numbered
  <2>2. base \in Nat /\ base <= Len(hist)
    BY <1>2 DEF Inv, Numbered
  <2>3. Len(file) \in 0 .. Len(file) /\ Len(file) \in 1 .. Len(file)
    BY <1>2, <1>4
  <2> QED
    BY <1>2, <2>1, <2>2, <2>3, DurableLow
<1>7. Written'
  BY <1>2, <1>4, <1>5, <1>6 DEF Fsync, Written
<1>8. Window'
  BY <1>4 DEF Fsync, Window, EverySecond
<1> QED
  BY <1>1, <1>3, <1>7, <1>8 DEF Inv

LEMMA TickInv ==
    ASSUME Inv, Tick
    PROVE  Inv'
<1>1. Len(file) \in Nat /\ Len(hist) \in Nat /\ now \in Nat
  BY MachineLens DEF Inv, Machine
<1>2. IsHistory(hist', now')
  BY <1>1 DEF Tick, Inv, Machine, IsHistory
<1>3. Machine'
  BY <1>1, <1>2 DEF Tick, Inv, Machine
<1>4. Durable' = Durable
  BY DEF Tick, Durable
<1>5. Numbered' /\ Newest' /\ Written'
  BY <1>4 DEF Tick, Inv, Numbered, Newest, Written
<1>6. Window'
  <2> SUFFICES ASSUME EverySecond PROVE Window'
    BY DEF Window, EverySecond, Tick
  <2>1. CASE status = "up"
    <3>1. Durable \in Nat
      BY DurableInv DEF Inv
    <3>2. ASSUME NEW i \in Durable + 1 .. Len(hist) PROVE Recent(i)'
      <4>1. Recent(i) /\ last_fsync \in Nat /\ ~cron_due /\ cron_due'
        BY <2>1 DEF Inv, Window, Tick
      <4>2. hist[i].at \in Nat /\ hist[i].at <= now
        BY <1>1, <3>1 DEF Inv, Machine, IsHistory
      <4>3. FsyncPeriod \in Nat
        BY DurabilityAssumption DEF DurabilityAssumption
      <4> QED
        BY <1>1, <4>1, <4>2, <4>3 DEF Recent, Tick
    <3> QED
      BY <1>1, <1>4, <2>1, <3>2 DEF Inv, Window, Tick
  <2>2. CASE status # "up"
    BY <2>2 DEF Inv, Window, Tick
  <2> QED
    BY <2>1, <2>2
<1> QED
  BY <1>3, <1>5, <1>6 DEF Inv
\* The end of a process, whatever the file holds after it, as long as the synced
\* entries are still there.
LEMMA DiesInv ==
    ASSUME Inv, Dies, SoundImage(snap'), SoundImage(child'), IsLog(file'),
           synced' \in 0 .. Len(file'), synced <= synced', \A i \in 1 .. synced : file'[i].n = file[i].n,
           All(file') \subseteq 0 .. Len(hist), EverySecond => synced' = Len(file')
    PROVE  Inv'
<1>1. Machine'
  BY EmptySound, EmptyLog DEF Dies, Inv, Machine
<1>2. Numbered'
  <2>1. All(buf') = {}
    BY AllEmpty DEF Dies
  <2> QED
    BY <2>1 DEF Dies, Inv, Numbered
<1>3. Newest'
  BY DEF Dies, Newest
<1>4. Durable <= Durable'
  BY <1>1, <1>2, DurableKept DEF Dies, Inv
<1>5. Written'
  <2> SUFFICES ASSUME setup.aof, setup.fsync = "always" PROVE acked <= Durable'
    BY DEF Dies, Written
  <2>1. acked <= Durable /\ acked \in Nat /\ Durable \in Nat
    BY MachineLens, DurableInv DEF Inv, Written, Numbered
  <2>2. Durable' \in Nat
    <3>1. Durable' = DurableOf(base', file', synced')
      BY DEF Durable, DurableOf
    <3>2. base' \in Nat /\ Len(hist') \in Nat /\ base' <= Len(hist') /\ All(file') \subseteq 0 .. Len(hist')
      BY <1>2, MachineLens DEF Numbered, Dies, Inv
    <3> QED
      BY <3>1, <3>2, DurableLow
  <2> QED
    BY <1>4, <2>1, <2>2
<1>6. Window'
  BY DEF Dies, Window, EverySecond
<1> QED
  BY <1>1, <1>2, <1>3, <1>5, <1>6 DEF Inv

LEMMA StopInv ==
    ASSUME Inv, Stop
    PROVE  Inv'
<1>1. /\ IsLog(file') /\ Len(file') = Len(file) + Len(buf) /\ All(file') = All(file) \cup All(buf)
      /\ \A i \in 1 .. Len(file) : file'[i] = file[i]
  BY LogConcat, AllConcat DEF Stop, Inv, Machine
<1>2. Len(file) \in Nat /\ Len(buf) \in Nat /\ synced \in 0 .. Len(file)
  BY MachineLens DEF Inv, Numbered
<1>3. synced' \in 0 .. Len(file') /\ synced <= synced' /\ synced' = Len(file')
  BY <1>1, <1>2 DEF Stop
<1>4. \A i \in 1 .. synced : file'[i].n = file[i].n
  BY <1>1, <1>2
<1>5. All(file') \subseteq 0 .. Len(hist)
  BY <1>1 DEF Inv, Numbered
<1>6. SoundImage(snap') /\ SoundImage(child')
  BY DEF Stop, Inv, Machine
<1>7. Dies
  BY DEF Stop
<1> QED
  BY <1>1, <1>3, <1>4, <1>5, <1>6, <1>7, DiesInv

LEMMA KillInv ==
    ASSUME Inv, Kill
    PROVE  Inv'
<1>1. /\ IsLog(file') /\ synced' \in 0 .. Len(file') /\ synced <= synced' /\ All(file') \subseteq 0 .. Len(hist)
      /\ \A i \in 1 .. synced : file'[i].n = file[i].n
      /\ SoundImage(snap') /\ SoundImage(child')
  BY MachineLens DEF Kill, Inv, Machine, Numbered
<1>2. ~EverySecond /\ Dies
  BY DEF Kill, EverySecond
<1> QED
  BY <1>1, <1>2, DiesInv

LEMMA PowerLossInv ==
    ASSUME Calm, Inv, PowerLoss
    PROVE  Inv'
<1>1. PICK k \in synced .. Len(file) : file' = SubSeq(file, 1, k) \o <<>> /\ synced' = Len(file')
  BY DEF PowerLoss, Calm, CalmSetup, Inv, Machine
<1>2. Len(file) \in Nat /\ synced \in 0 .. Len(file) /\ k \in 0 .. Len(file)
  BY MachineLens DEF Inv, Numbered
<1>3. /\ IsLog(SubSeq(file, 1, k)) /\ Len(SubSeq(file, 1, k)) = k
      /\ \A i \in 1 .. k : SubSeq(file, 1, k)[i] = file[i]
  BY <1>2, LogPrefix DEF Inv, Machine
<1>4. IsLog(file') /\ Len(file') = k /\ \A i \in 1 .. k : file'[i] = file[i]
  <2> DEFINE s == SubSeq(file, 1, k)
             e == <<>>
  <2>1. IsLog(s) /\ IsLog(e) /\ Len(e) = 0 /\ file' = s \o e
    BY <1>1, <1>3, EmptyLog
  <2>2. Len(s) = k /\ \A i \in 1 .. k : s[i] = file[i]
    BY <1>3
  <2> HIDE DEF s, e
  <2>3. IsLog(s \o e) /\ Len(s \o e) = Len(s) + Len(e) /\ \A i \in 1 .. Len(s) : (s \o e)[i] = s[i]
    BY <2>1, LogConcat
  <2> QED
    BY <1>2, <2>1, <2>2, <2>3
<1>5. /\ synced' \in 0 .. Len(file') /\ synced <= synced' /\ synced' = Len(file')
      /\ \A i \in 1 .. synced : file'[i].n = file[i].n
  BY <1>1, <1>2, <1>4
<1>6. All(file') \subseteq All(file)
  BY <1>2, <1>4 DEF All
<1>7. All(file') \subseteq 0 .. Len(hist)
  BY <1>6 DEF Inv, Numbered
<1>8. SoundImage(NoImage) /\ SoundImage(Truncated)
  BY DEF SoundImage, NoImage, Truncated
<1>9. SoundImage(snap') /\ SoundImage(child') /\ Dies
  BY <1>8 DEF PowerLoss, Inv, Machine
<1> QED
  BY <1>4, <1>5, <1>7, <1>9, DiesInv

LEMMA RestartInv ==
    ASSUME Inv, Restart
    PROVE  Inv'
<1>1. Len(file) \in Nat /\ Len(hist) \in Nat /\ synced \in 0 .. Len(file) /\ now \in Nat
  BY MachineLens DEF Inv, Numbered, Machine
<1>2. CASE snap.kind = "truncated"
  <2>1. Durable' = Durable
    BY <1>2 DEF Restart, Durable
  <2>2. Machine' /\ Numbered' /\ Newest'
    BY <1>2 DEF Restart, Inv, Machine, Numbered, Newest
  <2>3. Written' /\ Window'
    BY <1>2, <2>1 DEF Restart, Inv, Written, Window, EverySecond
  <2> QED
    BY <2>2, <2>3 DEF Inv
<1>3. CASE snap.kind # "truncated"
  <2> DEFINE num == [i \in 1 .. Len(file) |-> IF i = Len(file) \/ synced = Len(file) THEN 1 ELSE 0]
             new == [i \in DOMAIN file |-> [file[i] EXCEPT !.n = num[i]]]
  <2>1. file' = new
    <3>1. DOMAIN file = 1 .. Len(file)
      BY LogParts DEF Inv, Machine
    <3>2. file' = [i \in DOMAIN file |->
                     [file[i] EXCEPT !.n = IF i = Len(file) \/ synced = Len(file) THEN 1 ELSE 0]]
      BY <1>3 DEF Restart
    <3> QED
      BY <3>1, <3>2
  <2>2. IsLog(new) /\ Len(new) = Len(file) /\ \A i \in 1 .. Len(file) : new[i].n = num[i]
    <3>1. \A i \in 1 .. Len(file) : num[i] \in Nat
      OBVIOUS
    <3> HIDE DEF num
    <3> QED
      BY <3>1, LogRenumbered DEF Inv, Machine
  <2>3. \A i \in 1 .. Len(file) : num[i] \in 0 .. 1 /\ (i = Len(file) => num[i] = 1)
    OBVIOUS
  <2> HIDE DEF new, num
  <2>4. /\ IsLog(file') /\ Len(file') = Len(file) /\ All(file') \subseteq 0 .. 1
        /\ Len(file) # 0 => 1 \in All(file')
    BY <1>1, <2>1, <2>2, <2>3 DEF All
  <2>5. Sound(ks')
    BY <1>1, <1>3, RecoveredSound DEF Restart, Inv, Machine
  <2>6. SoundImage(snap')
    BY <1>3, ImageKinds DEF Restart, Inv, Machine
  <2>7. IsHistory(hist', now') /\ Len(hist') = 1
    BY <1>1, <1>3, HistoryStarts DEF Restart
  <2>8. Machine'
    BY <1>3, <2>4, <2>5, <2>6, <2>7 DEF Restart, Inv, Machine
  <2>9. base' \in 0 .. 1 /\ acked' \in 0 .. 1 /\ (synced = Len(file) => base' = 1)
    BY <1>3 DEF Restart
  <2>10. buf' = <<>> /\ All(buf') = {} /\ ~syncing'
    BY AllEmpty DEF Restart, Inv, Numbered
  <2>11. Numbered'
    BY <1>1, <1>3, <2>4, <2>7, <2>9, <2>10 DEF Restart, Numbered
  <2>12. Newest'
    BY <1>1, <2>4, <2>7, <2>9 DEF Newest
  <2>13. Durable' \in Nat /\ Durable' >= base'
    <3>1. Durable' = DurableOf(base', file', synced')
      BY DEF Durable, DurableOf
    <3>2. synced' \in 0 .. Len(file')
      BY <1>1, <2>4 DEF Restart
    <3> QED
      BY <2>4, <2>9, <3>1, <3>2, DurableLow
  <2>14. Written'
    <3> SUFFICES ASSUME setup.aof, setup.fsync = "always" PROVE acked' <= Durable'
      BY <2>10 DEF Restart, Written
    <3>1. acked <= Durable /\ acked \in Nat /\ Durable \in Nat
      BY <1>1, DurableInv DEF Inv, Written, Numbered
    <3>2. acked' = base'
      BY <1>3, <3>1 DEF Restart
    <3> QED
      BY <2>9, <2>13, <3>2
  <2>15. Window'
    <3> SUFFICES ASSUME EverySecond PROVE Window'
      BY DEF Restart, Window, EverySecond
    <3>1. synced = Len(file)
      BY DEF Restart, Inv, Window
    <3>2. Durable' >= Len(hist')
      BY <2>7, <2>9, <2>13, <3>1
    <3>3. last_fsync' = now /\ now' = now /\ status' = "up"
      BY <1>3 DEF Restart
    <3>4. Durable' + 1 .. Len(hist') = {}
      BY <2>7, <2>13, <3>2, NothingAbove
    <3>5. \A i \in Durable' + 1 .. Len(hist') : Recent(i)'
      BY <3>4
    <3> QED
      BY <1>1, <3>2, <3>3, <3>5 DEF Window
  <2> QED
    BY <2>8, <2>11, <2>12, <2>14, <2>15 DEF Inv
<1> QED
  BY <1>2, <1>3
LEMMA RequestsLoggable ==
    ASSUME Calm, setup \in Setups, NEW c \in setup.requests
    PROVE  WellFormed(c, Keys) /\ ScoresParse(c) /\ Loggable(c)
<1>1. WellFormed(c, Keys)
  BY DurabilityAssumption DEF DurabilityAssumption
<1>2. ScoresParse(c)
  BY DEF Calm, CalmSetup
<1> QED
  BY <1>1, <1>2 DEF Loggable

LEMMA EntryFacts ==
    ASSUME NEW c, Loggable(c), NEW n \in Nat
    PROVE  LET e == <<Entry(c, n)>>
           IN  IsLog(e) /\ e # <<>> /\ All(e) = {n} /\ e[Len(e)].n = n
<1> DEFINE e == <<Entry(c, n)>>
<1>1. IsLog(e) /\ Len(e) = 1 /\ e[1].n = n
  BY OneEntryLog
<1> HIDE DEF e
<1>2. e # <<>>
  BY <1>1, LogNotEmpty
<1>3. All(e) = {n}
  <2>1. 1 .. Len(e) = {1}
    BY <1>1
  <2> QED
    BY <1>1, <2>1 DEF All
<1> QED
  BY <1>1, <1>2, <1>3 DEF e

\* A command that is not marked has changed nothing that shows.
LEMMA UnmarkedInv ==
    ASSUME Calm, Inv, NEW c \in setup.requests, Execute(c), ~Handle(ks, c, now).dirty
    PROVE  Inv'
<1> DEFINE r == Handle(ks, c, now)
<1>1. WellFormed(c, Keys) /\ ScoresParse(c)
  BY RequestsLoggable DEF Inv, Machine
<1>2. Sound(r.ks) /\ Settled(ks, r, now)
  BY <1>1, HandleSound DEF Inv, Machine
<1>3. Live(r.ks, now) = Live(ks, now)
  BY <1>2 DEF Settled
<1>4. hist' = hist /\ acked' = acked /\ ~syncing' /\ ks' = r.ks
  BY <1>3 DEF Execute
<1>5. AppendLog(<<>>)
  BY DEF Execute
<1>6. buf' = buf /\ file' = file /\ dirty' = dirty
  BY <1>5 DEF AppendLog
<1> HIDE DEF r
<1>7. Durable' = Durable
  BY <1>6 DEF Execute, Durable
<1>8. Machine'
  BY <1>2, <1>4, <1>6 DEF Execute, Inv, Machine
<1>9. Numbered' /\ Newest' /\ Written'
  BY <1>4, <1>6, <1>7 DEF Execute, Inv, Numbered, Newest, Written
<1>10. Window'
  BY <1>4, <1>6, <1>7 DEF Execute, Inv, Window, EverySecond, Recent
<1> QED
  BY <1>8, <1>9, <1>10 DEF Inv

\* A marked one is the next change; its entry is in the file or in the buffer.
LEMMA MarkedInv ==
    ASSUME Calm, Inv, NEW c \in setup.requests, Execute(c), Handle(ks, c, now).dirty
    PROVE  Inv'
<1> DEFINE r == Handle(ks, c, now)
           n == Len(hist) + 1
           e == <<Entry(c, n)>>
<1>1. WellFormed(c, Keys) /\ ScoresParse(c) /\ Loggable(c)
  BY RequestsLoggable DEF Inv, Machine
<1>2. Sound(r.ks)
  BY <1>1, HandleSound DEF Inv, Machine
<1>3. /\ Len(file) \in Nat /\ Len(hist) \in Nat /\ now \in Nat /\ n \in Nat
      /\ synced \in 0 .. Len(file) /\ base \in 0 .. Len(hist) /\ acked \in 0 .. Len(hist)
  BY MachineLens DEF Inv, Machine, Numbered
<1>4. IsLog(e) /\ e # <<>> /\ All(e) = {n} /\ e[Len(e)].n = n
  BY <1>1, <1>3, EntryFacts
<1>5. AppendLog(e)
  BY DEF Execute
<1>6. /\ hist' = Append(hist, [ks |-> r.ks, at |-> now])
      /\ ks' = r.ks
      /\ acked' = IF setup.aof /\ setup.fsync = "always" THEN acked ELSE Len(hist')
      /\ syncing' => setup.aof /\ setup.fsync = "always"
      /\ status = "up"
      /\ UNCHANGED <<setup, status, last_fsync, child, cron_due, now, synced, snap, base>>
  BY DEF Execute, Serving
<1> HIDE DEF e, r
<1>7. /\ IsLog(file') /\ IsLog(buf')
      /\ Len(file) <= Len(file') /\ \A i \in 1 .. Len(file) : file'[i] = file[i]
      /\ All(file') \cup All(buf') \subseteq All(file) \cup All(buf) \cup {n}
      /\ setup.aof => dirty' = TRUE /\ n \in All(file') \cup All(buf')
      /\ setup.aof /\ setup.fsync = "always" => Len(file') # 0 /\ file'[Len(file')].n = n
  BY <1>4, <1>5, AppendEffect DEF Inv, Machine
<1>8. /\ IsHistory(hist', now) /\ Len(hist') = n
      /\ \A i \in 1 .. Len(hist) : hist'[i] = hist[i]
      /\ hist'[n].at = now
  BY <1>3, <1>6, HistoryGrows DEF Inv, Machine
<1> HIDE DEF n
<1>9. n = Len(hist) + 1
  BY DEF n
<1>10. Machine'
  BY <1>2, <1>6, <1>7, <1>8 DEF Inv, Machine
<1>11. Len(file') \in Nat
  BY <1>7, LogParts
<1>12. All(file') \subseteq 0 .. n /\ All(buf') \subseteq 0 .. n
  <2>1. All(file) \subseteq 0 .. Len(hist) /\ All(buf) \subseteq 0 .. Len(hist)
    BY DEF Inv, Numbered
  <2>2. 0 .. Len(hist) \subseteq 0 .. n /\ n \in 0 .. n
    BY <1>3, <1>9
  <2> QED
    BY <1>7, <2>1, <2>2
<1>13. Numbered'
  <2>1. base' \in 0 .. Len(hist') /\ acked' \in 0 .. Len(hist') /\ synced' \in 0 .. Len(file')
    BY <1>3, <1>6, <1>7, <1>8, <1>9, <1>11
  <2>2. All(file') \subseteq 0 .. Len(hist') /\ All(buf') \subseteq 0 .. Len(hist')
    BY <1>8, <1>12
  <2> QED
    BY <1>6, <2>1, <2>2 DEF Numbered
<1>14. Newest'
  BY <1>6, <1>7, <1>8 DEF Newest
<1>15. Durable <= Durable' /\ Durable \in Nat /\ Durable' \in Nat
  <2>1. Durable <= Durable'
    <3>1. \A i \in 1 .. synced : file'[i].n = file[i].n
      BY <1>3, <1>7
    <3>2. base' = base /\ synced <= synced'
      BY <1>3, <1>6
    <3>3. Machine /\ Numbered
      BY DEF Inv
    <3> QED
      BY <1>10, <1>13, <3>1, <3>2, <3>3, DurableKept
  <2> QED
    BY <1>10, <1>13, <2>1, DurableInv, DurableNext DEF Inv
<1>16. Written'
  BY <1>3, <1>6, <1>7, <1>8, <1>15 DEF Inv, Written
<1>17. Window'
  <2> SUFFICES ASSUME EverySecond PROVE Window'
    BY <1>6 DEF Window, EverySecond
  <2>1. last_fsync \in Nat /\ last_fsync <= now /\ dirty' = TRUE
    BY <1>6, <1>7 DEF Inv, Window, EverySecond
  <2>2. ASSUME NEW i \in Durable' + 1 .. Len(hist') PROVE Recent(i)'
    <3>1. CASE i = n
      BY <1>3, <1>6, <1>8, <2>1, <3>1 DEF Recent
    <3>2. CASE i # n
      <4>1. i \in Durable + 1 .. Len(hist) /\ i \in 1 .. Len(hist)
        BY <1>3, <1>8, <1>9, <1>15, <3>2, StillAbove
      <4>2. Recent(i)
        BY <1>6, <4>1 DEF Inv, Window
      <4>3. hist'[i].at = hist[i].at
        BY <1>8, <4>1
      <4> QED
        BY <1>6, <4>2, <4>3 DEF Recent
    <3> QED
      BY <3>1, <3>2
  <2> QED
    BY <1>6, <2>1, <2>2 DEF Window
<1> QED
  BY <1>10, <1>13, <1>14, <1>16, <1>17 DEF Inv
LEMMA CycleKeepsSound ==
    ASSUME NEW k, Sound(k), NEW t
    PROVE  Sound(ActiveExpireCycle(k, t))
<1>1. ActiveExpireCycle(k, t) = Without(k, Dead(k, t))
  BY DEF ActiveExpireCycle, Without
<1> QED
  BY <1>1, WithoutSound, CycleShape DEF Sound

\* What cron() does to the log, its two ways told apart.
LEMMA CronParts ==
    ASSUME Inv, Cron
    PROVE  LET dels == Dels(ks, now, Len(hist))
           IN  /\ IsLog(dels) /\ All(dels) \subseteq {Len(hist)} /\ (dels = <<>> <=> Dead(ks, now) = {})
               /\ Sound(ks')
               /\ status = "up" /\ ~syncing /\ cron_due' = FALSE
               /\ \/ /\ setup.aof /\ file' = file \o buf \o dels /\ buf' = <<>> /\ synced' = Len(file')
                     /\ dirty' = FALSE
                     /\ last_fsync' = IF setup.fsync = "everysec" THEN now ELSE last_fsync
                  \/ /\ AppendLog(dels) /\ UNCHANGED <<synced, last_fsync>>
                     /\ setup.aof => ~FsyncDue /\ (setup.fsync = "always" => dels = <<>>)
               /\ UNCHANGED <<setup, status, syncing, child, now, snap, hist, base, acked>>
<1> DEFINE dels == Dels(ks, now, Len(hist))
<1>1. IsLog(dels) /\ (dels = <<>> <=> Dead(ks, now) = {}) /\ \A i \in 1 .. Len(dels) : dels[i].n = Len(hist)
  BY DelsLog, MachineLens DEF Inv, Machine, Sound
<1>2. All(dels) \subseteq {Len(hist)}
  <2> HIDE DEF dels
  <2> QED
    BY <1>1 DEF All
<1>3. Sound(ks')
  BY CycleKeepsSound DEF Cron, Inv, Machine
<1>4. /\ IF setup.aof /\ (FsyncDue \/ (setup.fsync = "always" /\ dels # <<>>))
         THEN /\ file' = file \o buf \o dels
              /\ buf' = <<>>
              /\ synced' = Len(file')
              /\ dirty' = FALSE
              /\ last_fsync' = IF setup.fsync = "everysec" THEN now ELSE last_fsync
         ELSE AppendLog(dels) /\ UNCHANGED <<synced, last_fsync>>
      /\ UNCHANGED <<setup, status, syncing, child, now, snap, hist, base, acked>>
      /\ status = "up" /\ ~syncing /\ cron_due' = FALSE
  BY DEF Cron, Serving, Dels
<1> HIDE DEF dels
<1> QED
  BY <1>1, <1>2, <1>3, <1>4 DEF dels

LEMMA CronSyncsInv ==
    ASSUME Inv, NEW dels, IsLog(dels), All(dels) \subseteq {Len(hist)}, Sound(ks'), status = "up", ~syncing,
           setup.aof, file' = file \o buf \o dels, buf' = <<>>, synced' = Len(file'), dirty' = FALSE,
           last_fsync' = IF setup.fsync = "everysec" THEN now ELSE last_fsync,
           UNCHANGED <<setup, status, syncing, child, now, snap, hist, base, acked>>
    PROVE  Inv'
<1>1. Len(hist) \in Nat /\ base \in 0 .. Len(hist) /\ acked \in 0 .. Len(hist) /\ now \in Nat
  BY MachineLens DEF Inv, Machine, Numbered
<1>2. IsLog(file') /\ All(file') = All(file) \cup All(buf) \cup All(dels)
  <2> DEFINE fb == file \o buf
  <2>1. IsLog(fb) /\ All(fb) = All(file) \cup All(buf)
    BY LogConcat, AllConcat DEF Inv, Machine
  <2>2. file' = fb \o dels
    OBVIOUS
  <2> HIDE DEF fb
  <2>3. IsLog(fb \o dels) /\ All(fb \o dels) = All(fb) \cup All(dels)
    BY <2>1, LogConcat, AllConcat
  <2> QED
    BY <2>1, <2>2, <2>3
<1>3. IsLog(buf') /\ All(buf') = {}
  BY EmptyLog, AllEmpty
<1>4. Machine'
  BY <1>2, <1>3 DEF Inv, Machine
<1>5. All(file') \subseteq 0 .. Len(hist) /\ Len(hist) \in {base} \cup All(file')
  BY <1>1, <1>2 DEF Inv, Numbered, Newest
<1>6. Len(file') \in Nat /\ synced' \in 0 .. Len(file')
  BY <1>2, LogParts
<1>7. Numbered'
  BY <1>3, <1>5, <1>6 DEF Inv, Numbered
<1>8. Newest'
  BY <1>5 DEF Newest
<1>9. Durable' = Len(hist)
  <2>1. Durable' = DurableOf(base, file', Len(file'))
    BY DEF Durable, DurableOf
  <2>2. base \in Nat /\ base <= Len(hist)
    BY <1>1
  <2>3. DurableOf(base, file', Len(file')) = Len(hist)
    BY <1>1, <1>2, <1>5, <2>2, WholeLogDurable
  <2> QED
    BY <2>1, <2>3
<1>10. Written'
  BY <1>1, <1>9 DEF Written
<1>11. Window'
  <2> SUFFICES ASSUME EverySecond PROVE Window'
    BY DEF Window, EverySecond
  <2>1. last_fsync' = now
    BY DEF EverySecond
  <2>2. Durable' + 1 .. Len(hist') = {}
    BY <1>1, <1>9, NothingAbove
  <2> QED
    BY <1>1, <1>9, <2>1, <2>2 DEF Window
<1> QED
  BY <1>4, <1>7, <1>8, <1>10, <1>11 DEF Inv

LEMMA CronAppendsInv ==
    ASSUME Inv, NEW dels, IsLog(dels), All(dels) \subseteq {Len(hist)}, Sound(ks'), status = "up", ~syncing,
           dels = <<>> <=> Dead(ks, now) = {},
           AppendLog(dels), setup.aof => ~FsyncDue, cron_due' = FALSE,
           UNCHANGED <<synced, last_fsync, setup, status, syncing, child, now, snap, hist, base, acked>>
    PROVE  Inv'
<1>1. /\ Len(file) \in Nat /\ Len(hist) \in Nat /\ now \in Nat
      /\ synced \in 0 .. Len(file) /\ base \in 0 .. Len(hist) /\ acked \in 0 .. Len(hist)
  BY MachineLens DEF Inv, Machine, Numbered
<1>2. /\ IsLog(file') /\ IsLog(buf')
      /\ Len(file) <= Len(file') /\ \A i \in 1 .. Len(file) : file'[i] = file[i]
      /\ All(file) \cup All(buf) \subseteq All(file') \cup All(buf')
      /\ All(file') \cup All(buf') \subseteq All(file) \cup All(buf) \cup All(dels)
      /\ setup.aof /\ dels # <<>> => dirty' = TRUE
      /\ ~setup.aof \/ dels = <<>> => buf' = buf /\ file' = file /\ dirty' = dirty
  BY AppendEffect DEF Inv, Machine
<1>3. Machine'
  BY <1>2 DEF Inv, Machine
<1>4. Len(file') \in Nat
  BY <1>2, LogParts
<1>5. All(file') \subseteq 0 .. Len(hist) /\ All(buf') \subseteq 0 .. Len(hist)
  <2>1. Len(hist) \in 0 .. Len(hist)
    BY <1>1
  <2> QED
    BY <1>2, <2>1 DEF Inv, Numbered
<1>6. Numbered'
  <2>1. synced' \in 0 .. Len(file')
    BY <1>1, <1>2, <1>4
  <2> QED
    BY <1>5, <2>1 DEF Inv, Numbered
<1>7. Newest'
  BY <1>2 DEF Inv, Newest
<1>8. Durable <= Durable' /\ Durable \in Nat /\ Durable' \in Nat
  <2>1. Durable <= Durable'
    <3>1. \A i \in 1 .. synced : file'[i].n = file[i].n
      BY <1>1, <1>2
    <3>2. base' = base /\ synced <= synced'
      BY <1>1
    <3>3. Machine /\ Numbered
      BY DEF Inv
    <3> QED
      BY <1>3, <1>6, <3>1, <3>2, <3>3, DurableKept
  <2> QED
    BY <1>3, <1>6, <2>1, DurableInv, DurableNext DEF Inv
<1>9. Written'
  BY <1>1, <1>8 DEF Inv, Written
<1>10. Window'
  <2> SUFFICES ASSUME EverySecond PROVE Window'
    BY DEF Window, EverySecond
  <2>1. setup.aof /\ setup.fsync = "everysec" /\ last_fsync \in Nat /\ last_fsync <= now
    BY DEF EverySecond, Inv, Window
  <2>2. ~dirty' => Durable' >= Len(hist)
    <3>1. ~dirty' => ~dirty
      BY <1>2, <2>1
    <3>2. ~dirty => Durable >= Len(hist)
      BY DEF Inv, Window
    <3> QED
      BY <1>1, <1>8, <3>1, <3>2
  <2>3. CASE ~dirty /\ Dead(ks, now) = {}
    <3>1. ~dirty'
      BY <1>2, <2>3
    <3>2. Durable' + 1 .. Len(hist') = {}
      BY <1>1, <1>8, <2>2, <3>1, NothingAbove
    <3> QED
      BY <2>1, <2>2, <3>2 DEF Window
  <2>4. CASE dirty \/ Dead(ks, now) # {}
    <3>1. now - last_fsync < FsyncPeriod
      <4>1. ~FsyncDue
        BY <2>1
      <4>2. FsyncPeriod \in Nat
        BY DurabilityAssumption DEF DurabilityAssumption
      <4>3. ~(now - last_fsync >= FsyncPeriod)
        BY <2>1, <2>4, <4>1, Zenon DEF FsyncDue
      <4> QED
        BY <1>1, <2>1, <4>2, <4>3
    <3>2. ASSUME NEW i \in Durable' + 1 .. Len(hist') PROVE Recent(i)'
      <4>1. i \in Durable + 1 .. Len(hist)
        <5>1. i \in Durable' + 1 .. Len(hist)
          BY <3>2
        <5> QED
          BY <1>1, <1>8, <5>1, FewerAbove
      <4>2. hist[i].at >= last_fsync
        BY <4>1 DEF Inv, Window, Recent
      <4> QED
        BY <3>1, <4>2 DEF Recent
    <3> QED
      BY <2>1, <2>2, <3>2 DEF Window
  <2> QED
    BY <2>3, <2>4
<1> QED
  BY <1>3, <1>6, <1>7, <1>9, <1>10 DEF Inv

LEMMA CronInv ==
    ASSUME Inv, Cron
    PROVE  Inv'
<1> DEFINE dels == Dels(ks, now, Len(hist))
<1>1. /\ IsLog(dels) /\ All(dels) \subseteq {Len(hist)} /\ (dels = <<>> <=> Dead(ks, now) = {})
      /\ Sound(ks') /\ status = "up" /\ ~syncing /\ cron_due' = FALSE
      /\ UNCHANGED <<setup, status, syncing, child, now, snap, hist, base, acked>>
  BY CronParts
<1>2. \/ /\ setup.aof /\ file' = file \o buf \o dels /\ buf' = <<>> /\ synced' = Len(file')
         /\ dirty' = FALSE
         /\ last_fsync' = IF setup.fsync = "everysec" THEN now ELSE last_fsync
      \/ /\ AppendLog(dels) /\ UNCHANGED <<synced, last_fsync>>
         /\ setup.aof => ~FsyncDue
  BY CronParts
<1> HIDE DEF dels
<1> QED
  BY <1>1, <1>2, CronSyncsInv, CronAppendsInv

LEMMA FlushallInv ==
    ASSUME Inv, Flushall
    PROVE  Inv'
<1>1. /\ Len(file) \in Nat /\ Len(hist) \in Nat /\ now \in Nat
      /\ synced \in 0 .. Len(file) /\ base \in 0 .. Len(hist) /\ acked \in 0 .. Len(hist)
  BY MachineLens DEF Inv, Machine, Numbered
<1>2. /\ IsHistory(hist', now) /\ Len(hist') = Len(hist) + 1
      /\ acked' = Len(hist') /\ ks' = EmptyKeyspace
      /\ status = "up" /\ ~syncing
      /\ UNCHANGED <<setup, status, syncing, child, now, snap>>
  BY <1>1, HistoryGrows DEF Flushall, Serving, Inv, Machine
<1>3. CASE setup.aof
  <2>1. buf' = <<>> /\ file' = <<>> /\ synced' = 0 /\ dirty' = FALSE /\ last_fsync' = now /\ base' = Len(hist')
    BY <1>3 DEF Flushall
  <2>2. IsLog(file') /\ IsLog(buf') /\ Len(file') = 0 /\ All(file') = {} /\ All(buf') = {}
    BY <2>1, EmptyLog, AllEmpty
  <2>3. Machine'
    BY <1>2, <2>2, EmptySound DEF Inv, Machine
  <2>4. Numbered'
    BY <1>1, <1>2, <2>1, <2>2 DEF Inv, Numbered
  <2>5. Newest'
    BY <2>1 DEF Newest
  <2>6. Durable' \in Nat /\ Durable' >= Len(hist')
    BY <2>1, <2>3, <2>4, DurableNext
  <2>7. Written'
    BY <1>2, <2>6 DEF Written
  <2>8. Durable' + 1 .. Len(hist') = {}
    <3>1. Len(hist') \in Nat
      BY <1>1, <1>2
    <3> QED
      BY <2>6, <3>1, NothingAbove
  <2>9. Window'
    <3>1. last_fsync' \in Nat /\ last_fsync' <= now' /\ status' = "up"
      BY <1>1, <1>2, <2>1
    <3>2. \A i \in Durable' + 1 .. Len(hist') : Recent(i)'
      BY <2>8
    <3> QED
      BY <2>6, <3>1, <3>2 DEF Window
  <2> QED
    BY <2>3, <2>4, <2>5, <2>7, <2>9 DEF Inv
<1>4. CASE ~setup.aof
  <2>1. UNCHANGED <<buf, file, synced, dirty, last_fsync, base>>
    BY <1>4 DEF Flushall
  <2>2. Machine'
    BY <1>2, <2>1, EmptySound DEF Inv, Machine
  <2>3. Numbered'
    <3>1. 0 .. Len(hist) \subseteq 0 .. Len(hist') /\ acked' \in 0 .. Len(hist')
      BY <1>1, <1>2
    <3> QED
      BY <1>2, <2>1, <3>1 DEF Inv, Numbered
  <2>4. Newest' /\ Written' /\ Window'
    BY <1>2, <1>4 DEF Newest, Written, Window, EverySecond
  <2> QED
    BY <2>2, <2>3, <2>4 DEF Inv
<1> QED
  BY <1>3, <1>4
LEMMA InvNext ==
    ASSUME Calm, Inv, [Next]_vars
    PROVE  Inv'
<1>1. ASSUME NEW c \in setup.requests, Execute(c) PROVE Inv'
  BY <1>1, MarkedInv, UnmarkedInv
<1>2. CASE Fsync
  BY <1>2, FsyncInv
<1>3. CASE Cron
  BY <1>3, CronInv
<1>4. CASE Flushall
  BY <1>4, FlushallInv
<1>5. CASE Fork
  BY <1>5, ForkInv
<1>6. CASE Save
  BY <1>6, SaveInv
<1>7. CASE Tick
  BY <1>7, TickInv
<1>8. CASE Stop
  BY <1>8, StopInv
<1>9. CASE Kill
  BY <1>9, KillInv
<1>10. CASE PowerLoss
  BY <1>10, PowerLossInv
<1>11. CASE Restart
  BY <1>11, RestartInv
<1>12. CASE UNCHANGED vars
  <2>1. Machine'
    BY <1>12 DEF vars, Inv, Machine
  <2> QED
    BY <1>12, <2>1, LogUntouched DEF vars
<1> QED
  BY <1>1, <1>2, <1>3, <1>4, <1>5, <1>6, <1>7, <1>8, <1>9, <1>10, <1>11, <1>12 DEF Next

\* The setup is chosen once, so a calm one stays calm.
Kept == setup \in Setups /\ (Calm => Inv)

LEMMA KeptHolds == Spec => []Kept
<1>1. Init => Kept
  BY InvInit DEF Init, Kept
<1>2. Kept /\ [Next]_vars => Kept'
  <2> SUFFICES ASSUME Kept, [Next]_vars PROVE Kept'
    OBVIOUS
  <2>1. setup' = setup
    BY DEF Next, Execute, Fsync, Cron, Flushall, Fork, Save, Tick, Stop, Kill, PowerLoss, Dies, Restart, vars
  <2> QED
    BY <2>1, InvNext DEF Kept, Calm
<1> QED
  BY <1>1, <1>2, PTL DEF Spec
-----------------------------------------------------------------------------
(* What the log promises.                                                  *)

\* aof.cpp:29, appendfsync "always": whatever the commands, and however often the
\* process stops, is killed or loses power without tearing a record, a change
\* whose client was answered is on stable storage.
THEOREM AnsweredIsDurable ==
    ASSUME \A s \in Setups : s.aof /\ s.fsync = "always" => CalmSetup(s)
    PROVE  Spec => []AlwaysIsDurable
<1>1. Kept => AlwaysIsDurable
  <2> SUFFICES ASSUME Inv, setup.aof, setup.fsync = "always" PROVE Durable >= acked
    BY DEF AlwaysIsDurable, Kept, Calm
  <2>1. acked <= Durable
    BY DEF Inv, Written
  <2>2. acked \in Nat /\ Durable \in Nat
    BY MachineLens, DurableInv DEF Inv, Numbered
  <2> QED
    BY <2>1, <2>2
<1> QED
  BY <1>1, KeptHolds, PTL

\* aof.cpp:53, appendfsync "everysec": at any moment the changes that a power loss
\* would take were made within the last fsync period, for every period, buffer
\* size, load and order of expiry, appends and ticks.  The setups with that policy
\* see no kill: the log replayed after one may be unsynced, open() does not mark it
\* dirty, and tick() does not sync it before something else is appended.
THEOREM LossIsBounded ==
    ASSUME \A s \in Setups : s.aof /\ s.fsync = "everysec" => CalmSetup(s) /\ "kill" \notin s.faults
    PROVE  Spec => []LossWindow
<1>1. Kept => LossWindow
  <2> SUFFICES ASSUME Inv, setup.aof, setup.fsync = "everysec", status = "up",
                      NEW i \in Durable + 1 .. acked
               PROVE  now - hist[i].at <= FsyncPeriod
    BY DEF LossWindow, Kept, Calm
  <2>1. Durable \in Nat /\ acked \in Nat /\ Len(hist) \in Nat /\ acked <= Len(hist) /\ now \in Nat
    BY MachineLens, DurableInv DEF Inv, Numbered, Machine
  <2>2. i \in Durable + 1 .. Len(hist) /\ i \in 1 .. Len(hist)
    BY <2>1
  <2>3. EverySecond
    BY DEF EverySecond, Inv, Machine
  <2>4. Recent(i) /\ last_fsync \in Nat
    BY <2>2, <2>3 DEF Inv, Window
  <2>5. hist[i].at \in Nat
    BY <2>2 DEF Inv, Machine, IsHistory
  <2>6. FsyncPeriod \in Nat \ {0}
    BY DurabilityAssumption DEF DurabilityAssumption
  <2> QED
    BY <2>1, <2>4, <2>5, <2>6 DEF Recent
<1> QED
  BY <1>1, KeptHolds, PTL

\* shard.cpp:152 and Aof::close(): an orderly stop leaves the last change, and
\* with it all of them, on stable storage.
THEOREM StopKeepsAll ==
    ASSUME \A s \in Setups : s.aof => CalmSetup(s)
    PROVE  Spec => StopLosesNothing
<1>1. Kept /\ [Next]_vars => [setup.aof /\ Stop => Durable' = Len(hist)]_vars
  <2> SUFFICES ASSUME Inv, setup.aof, Stop PROVE Durable' = Len(hist)
    BY DEF Kept, Calm
  <2>1. IsLog(file') /\ All(file') = All(file) \cup All(buf)
    BY LogConcat, AllConcat DEF Stop, Inv, Machine
  <2>2. Len(hist) \in Nat /\ base \in 0 .. Len(hist) /\ status = "up"
    BY MachineLens DEF Stop, Serving, Inv, Numbered
  <2>3. All(file') \subseteq 0 .. Len(hist) /\ Len(hist) \in {base} \cup All(file')
    BY <2>1, <2>2 DEF Inv, Numbered, Newest
  <2>4. Durable' = DurableOf(base, file', Len(file'))
    BY DEF Stop, Dies, Durable, DurableOf
  <2>5. base \in Nat /\ base <= Len(hist)
    BY <2>2
  <2>6. DurableOf(base, file', Len(file')) = Len(hist)
    BY <2>1, <2>2, <2>3, <2>5, WholeLogDurable
  <2> QED
    BY <2>4, <2>6
<1> QED
  BY <1>1, KeptHolds, PTL DEF Spec, StopLosesNothing
=============================================================================
