---------------------------- MODULE ShardProofs ----------------------------
(***************************************************************************)
(* Proofs about module Shard, in three parts.                              *)
(*                                                                         *)
(* Types: every variable keeps its shape.                                  *)
(*                                                                         *)
(* Safety: every key lives on its owner, clients read replies in order,    *)
(* and the mailboxes are used as FIFOs.  This rests on ShardInvariant,     *)
(* whose parts are shown one lemma each to be kept by every step.          *)
(*                                                                         *)
(* Flow: what becomes of the tasks that shards post to each other.  None   *)
(* runs twice, requests of one connection run at another shard in the      *)
(* order in which they were sent, and a reply slot waits for exactly the   *)
(* tasks that are still under way for it.  Most steps only move tasks:     *)
(* from an outbox to an inbox, or from an inbox, as the completion of the  *)
(* request, to an outbox.  Such a move is a bijection of the positions in  *)
(* Lines, so what holds of every task, of every two tasks and of the       *)
(* number of tasks is carried along.                                       *)
(***************************************************************************)
EXTENDS Shard, SequenceTheorems, FiniteSetTheorems, FunctionTheorems, WellFoundedInduction, TLAPS

-----------------------------------------------------------------------------
(* TYPES.                                                                  *)

\* A non-empty set of indices has a greatest element.
LEMMA MaxIndex ==
    ASSUME NEW n \in Nat, NEW S, S \subseteq 1 .. n, S # {}
    PROVE  \E i \in S : \A j \in S : j <= i
<1> DEFINE T == {m \in Nat : n - m \in S}
           R == OpToRel(<, Nat)
<1>1. T \subseteq Nat /\ T # {}
  <2>1. PICK i \in S : TRUE
    OBVIOUS
  <2>2. n - i \in T
    <3>1. n - i \in Nat /\ n - (n - i) = i
      OBVIOUS
    <3> QED
      BY <3>1
  <2> QED
    BY <2>2
<1>2. PICK x \in T : \A y \in T : ~(<<y, x>> \in R)
  <2>1. IsWellFoundedOn(R, Nat)
    BY NatLessThanWellFounded
  <2> HIDE DEF R, T
  <2> QED
    BY <1>1, <2>1, WFMin
<1>3. \A y \in T : ~(y < x)
  BY <1>1, <1>2 DEF OpToRel
<1>4. x \in Nat /\ n - x \in S
  OBVIOUS
<1>5. ASSUME NEW j \in S PROVE j <= n - x
  <2>1. n - j \in Nat /\ n - (n - j) = j
    OBVIOUS
  <2>2. n - j \in T
    BY <2>1
  <2>3. ~(n - j < x)
    BY <2>2, <1>3
  <2>4. j \in Nat /\ x \in Nat
    BY <1>4
  <2> HIDE DEF T, R
  <2> QED
    BY <2>1, <2>3, <2>4
<1> QED
  BY <1>4, <1>5
-----------------------------------------------------------------------------
(* What the handlers compute.                                              *)

\* The handlers map databases to databases.
LEMMA EffectType ==
    ASSUME NEW cmd \in AllCommands, NEW d \in Db
    PROVE  Effect(cmd, d) \in Db
<1> DEFINE n == Len(cmd.keys)
<1>1. /\ cmd.keys \in Seq(Keys) /\ cmd.vals \in Seq(Vals) /\ n \in Nat
      /\ cmd.keys \in [1 .. n -> Keys]
  BY LenProperties DEF AllCommands
<1>2. CASE cmd.op \in {"set", "mset"} /\ WholePairs(cmd)
  <2>1. Len(cmd.vals) = n
    BY <1>2 DEF AllCommands, ArityOk, WholePairs
  <2>2. ASSUME NEW k \in KeysOf(cmd) PROVE Str(cmd.vals[LastIndex(cmd.keys, k)]) \in Object
    <3> DEFINE S == {i \in 1 .. n : cmd.keys[i] = k}
    <3>1. PICK i \in S : \A j \in S : j <= i
      BY MaxIndex, <1>1 DEF KeysOf
    <3>2. LastIndex(cmd.keys, k) \in 1 .. n
      BY <3>1, <1>1 DEF LastIndex
    <3> QED
      BY <3>2, <2>1, <1>1 DEF Object
  <2> QED
    BY <1>2, <2>2 DEF Effect, SetEffect, Db
<1>3. CASE cmd.op = "del"
  BY <1>3 DEF Effect, DelEffect, Db
<1>4. CASE cmd.op = "sadd"
  BY <1>4 DEF Effect, SaddEffect, Db, Object
<1>5. CASE cmd.op = "rename"
  <2>1. cmd.keys[1] \in Keys
    BY <1>1, <1>5 DEF AllCommands, ArityOk
  <2> QED
    BY <1>5, <2>1 DEF Effect, RenameEffect, Db
<1>6. CASE cmd.op \in {"set", "mset"} /\ ~WholePairs(cmd)
  BY <1>6 DEF Effect
<1> QED
  BY <1>2, <1>3, <1>4, <1>5, <1>6 DEF Effect

\* The keys a command names are keys, and commands that use keys have them.
LEMMA CommandKeys ==
    ASSUME NEW cmd \in AllCommands
    PROVE  /\ cmd.op \in Ops
           /\ cmd.keys \in Seq(Keys) /\ cmd.vals \in Seq(Vals)
           /\ Len(cmd.keys) \in Nat
           /\ \A i \in 1 .. Len(cmd.keys) : cmd.keys[i] \in Keys
           /\ KeysOf(cmd) \subseteq Keys
           /\ IsFiniteSet(KeysOf(cmd))
           /\ cmd.op \in OneKeyOps => Len(cmd.keys) = 1
           /\ cmd.op \in ManyKeyOps => Len(cmd.keys) >= 1
           /\ cmd.op = "rename" => Len(cmd.keys) = 2
           /\ cmd.op \in {"set", "mset"} /\ WholePairs(cmd) => Len(cmd.vals) = Len(cmd.keys)
<1> DEFINE n == Len(cmd.keys)
<1>1. cmd.op \in Ops /\ cmd.keys \in Seq(Keys) /\ cmd.vals \in Seq(Vals)
  BY DEF AllCommands
<1>2. /\ n \in Nat
      /\ \A i \in 1 .. n : cmd.keys[i] \in Keys
  BY <1>1, LenProperties, ElementOfSeq
<1>3. KeysOf(cmd) \subseteq Keys
  BY <1>2 DEF KeysOf
<1>4. IsFiniteSet(KeysOf(cmd))
  <2>1. IsFiniteSet(1 .. n)
    BY <1>2, FS_Interval
  <2>2. cmd.keys \in [1 .. n -> Keys]
    BY <1>1, LenProperties
  <2> DEFINE f == [i \in 1 .. n |-> cmd.keys[i]]
  <2>3. f \in Surjection(1 .. n, KeysOf(cmd))
    BY <2>2 DEF Surjection, KeysOf
  <2> QED
    BY <2>1, <2>3, FS_Surjection
<1>5. ArityOk(cmd)
  BY DEF AllCommands
<1> QED
  BY <1>1, <1>2, <1>3, <1>4, <1>5 DEF ArityOk, WholePairs

\* Every handler writes one reply.
LEMMA AnswerType ==
    ASSUME NEW cmd \in AllCommands, NEW d \in Db
    PROVE  Answer(cmd, d) \in HandlerReply
<1> DEFINE n == Len(cmd.keys)
<1>1. ASSUME NEW k \in Keys, d[k] # NoKey, d[k] # SetObj
      PROVE  d[k][2] \in Vals
  BY <1>1 DEF Db, Object, Str
<1>2. CASE cmd.op = "get"
  <2>1. cmd.keys[1] \in Keys
    BY <1>2, CommandKeys DEF OneKeyOps
  <2>2. GetAnswer(cmd, d) \in ScalarReply
    BY <1>1, <2>1, Zenon DEF GetAnswer, ScalarReply, Null, Err, Bulk, ErrorCodes
  <2> QED
    BY <1>2, <2>2 DEF Answer, WholePairs, HandlerReply
<1>3. CASE cmd.op = "mget"
  <2> DEFINE e(i) == IF d[cmd.keys[i]] \in {NoKey, SetObj} THEN Null ELSE Bulk(d[cmd.keys[i]][2])
  <2>1. ASSUME NEW i \in 1 .. n PROVE e(i) \in ScalarReply
    <3>1. cmd.keys[i] \in Keys
      BY CommandKeys
    <3> QED
      BY <1>1, <3>1 DEF ScalarReply, Null, Bulk
  <2>2. [i \in 1 .. n |-> e(i)] \in Seq(ScalarReply)
    <3>1. n \in Nat
      BY CommandKeys
    <3> HIDE DEF e, n
    <3> QED
      BY <2>1, <3>1, IsASeq
  <2>3. MgetAnswer(cmd, d) = Array([i \in 1 .. n |-> e(i)])
    BY DEF MgetAnswer
  <2>4. Answer(cmd, d) = MgetAnswer(cmd, d)
    BY <1>3 DEF Answer, WholePairs
  <2>5. MgetAnswer(cmd, d) \in {"array"} \X Seq(ScalarReply)
    <3> DEFINE a == [i \in 1 .. n |-> e(i)]
    <3>1. a \in Seq(ScalarReply) /\ MgetAnswer(cmd, d) = <<"array", a>>
      BY <2>2, <2>3 DEF Array
    <3> HIDE DEF a
    <3> QED
      BY <3>1
  <2> QED
    BY <2>4, <2>5 DEF HandlerReply
<1>4. CASE cmd.op = "del"
  <2> DEFINE S == {k \in KeysOf(cmd) : d[k] # NoKey}
  <2>1. Cardinality(S) \in Nat
    BY CommandKeys, FS_Subset, FS_CardinalityType
  <2> QED
    BY <1>4, <2>1 DEF Answer, WholePairs, DelAnswer, HandlerReply, ScalarReply, Num
<1>5. CASE cmd.op \in {"exists", "touch"}
  <2> DEFINE S == {i \in 1 .. n : d[cmd.keys[i]] # NoKey}
  <2>1. IsFiniteSet(1 .. n)
    <3>1. n \in Nat
      BY CommandKeys
    <3> HIDE DEF n
    <3> QED
      BY <3>1, FS_Interval
  <2>2. Cardinality(S) \in Nat
    BY <2>1, FS_Subset, FS_CardinalityType
  <2> QED
    BY <1>5, <2>2 DEF Answer, WholePairs, ExistsAnswer, HandlerReply, ScalarReply, Num
<1>6. CASE cmd.op = "sadd"
  BY <1>6 DEF Answer, SaddAnswer, HandlerReply, ScalarReply, Num, Err, ErrorCodes
<1>7. CASE cmd.op = "rename"
  BY <1>7 DEF Answer, RenameAnswer, HandlerReply, ScalarReply, Ok, Err, ErrorCodes
<1>8. CASE cmd.op \in {"ping", "unknown", "flushall", "set", "mset", "malformed"}
  BY <1>8 DEF Answer, HandlerReply, ScalarReply, Ok, Pong, Err, ErrorCodes
<1> QED
  BY <1>2, <1>3, <1>4, <1>5, <1>6, <1>7, <1>8, CommandKeys
     DEF Ops, KeylessOps, OneKeyOps, ManyKeyOps

\* Whatever is read for a value that is missing, the pairs are whole then, and
\* nothing else of the command is different.
LEMMA ReadPairsType ==
    ASSUME NEW cmd \in AllCommands, NEW whole \in ReadPairs(cmd)
    PROVE  /\ whole \in AllCommands /\ WholePairs(whole)
           /\ whole.op = cmd.op /\ whole.keys = cmd.keys
           /\ KeysOf(whole) = KeysOf(cmd) /\ SlotKind(whole) = SlotKind(cmd)
           /\ WholePairs(cmd) => whole = cmd
<1>1. CASE WholePairs(cmd)
  BY <1>1 DEF ReadPairs
<1>2. CASE ~WholePairs(cmd)
  <2>1. PICK v \in Vals : whole = [cmd EXCEPT !.vals = Append(@, v)]
    BY <1>2 DEF ReadPairs
  <2>2. cmd \in [op : Ops, keys : Seq(Keys), vals : Seq(Vals)] /\ ArityOk(cmd)
    BY DEF AllCommands
  <2>3. Append(cmd.vals, v) \in Seq(Vals) /\ Len(Append(cmd.vals, v)) = Len(cmd.vals) + 1
    BY <2>2, AppendProperties
  <2>4. /\ whole \in [op : Ops, keys : Seq(Keys), vals : Seq(Vals)]
        /\ whole.op = cmd.op /\ whole.keys = cmd.keys
        /\ Len(whole.vals) = Len(cmd.vals) + 1
    BY <2>1, <2>2, <2>3
  <2>5. /\ cmd.op = "mset" /\ Len(cmd.keys) \in Nat
        /\ Len(cmd.vals) = Len(cmd.keys) - 1 /\ Len(cmd.keys) >= 1
    <3>1. cmd.op = "mset" /\ Len(cmd.vals) # Len(cmd.keys)
      BY <1>2 DEF WholePairs
    <3> QED
      BY <2>2, <3>1, CommandKeys DEF ArityOk, ManyKeyOps
  <2>6. ArityOk(whole) /\ WholePairs(whole)
    BY <2>4, <2>5 DEF ArityOk, WholePairs, KeylessOps, OneKeyOps, ManyKeyOps
  <2> QED
    BY <1>2, <2>4, <2>6 DEF AllCommands, KeysOf, SlotKind
<1> QED
  BY <1>1, <1>2

\* The sub-requests of a decomposable command are commands.
LEMMA SubCommandType ==
    ASSUME NEW cmd \in AllCommands, WholePairs(cmd), NEW i \in 1 .. Len(cmd.keys)
    PROVE  /\ SubCommand(cmd, i) \in AllCommands
           /\ KeysOf(SubCommand(cmd, i)) = {cmd.keys[i]}
<1> DEFINE c == SubCommand(cmd, i)
<1>1. cmd.keys[i] \in Keys
  BY CommandKeys
<1>2. ASSUME NEW op \in {"get", "exists", "del"},
             c = Command(op, <<cmd.keys[i]>>, <<>>)
      PROVE  c \in AllCommands /\ KeysOf(c) = {cmd.keys[i]}
  <2>1. c.op = op /\ c.keys = <<cmd.keys[i]>> /\ c.vals = <<>>
    BY <1>2 DEF Command
  <2>2. c \in [op : Ops, keys : Seq(Keys), vals : Seq(Vals)]
    BY <1>1, <1>2 DEF Command, Ops, OneKeyOps, ManyKeyOps
  <2>3. ArityOk(c)
    BY <2>1 DEF ArityOk, KeylessOps, OneKeyOps, ManyKeyOps
  <2> HIDE DEF c
  <2> QED
    BY <2>1, <2>2, <2>3 DEF AllCommands, KeysOf
<1>3. ASSUME cmd.op = "mset", c = Command("set", <<cmd.keys[i]>>, <<cmd.vals[i]>>)
      PROVE  c \in AllCommands /\ KeysOf(c) = {cmd.keys[i]}
  <2>0. cmd.vals[i] \in Vals
    BY <1>3, CommandKeys
  <2>1. c.op = "set" /\ c.keys = <<cmd.keys[i]>> /\ c.vals = <<cmd.vals[i]>>
    BY <1>3 DEF Command
  <2>2. c \in [op : Ops, keys : Seq(Keys), vals : Seq(Vals)]
    BY <1>1, <1>3, <2>0 DEF Command, Ops, OneKeyOps
  <2>3. ArityOk(c)
    BY <2>1 DEF ArityOk, KeylessOps, OneKeyOps, ManyKeyOps
  <2> HIDE DEF c
  <2> QED
    BY <2>1, <2>2, <2>3 DEF AllCommands, KeysOf
<1>4. \/ \E op \in {"get", "exists", "del"} : c = Command(op, <<cmd.keys[i]>>, <<>>)
      \/ cmd.op = "mset" /\ c = Command("set", <<cmd.keys[i]>>, <<cmd.vals[i]>>)
  BY DEF SubCommand, SlotKind
<1> QED
  BY <1>2, <1>3, <1>4

-----------------------------------------------------------------------------
(* Sequences.                                                              *)

\* flush_ready() flushes some of the slots and keeps the others.
LEMMA ReadyCountRange ==
    ASSUME NEW p, Len(p) \in Nat
    PROVE  ReadyCount(p) \in 0 .. Len(p)
<1> DEFINE S == {n \in 1 .. Len(p) : \A i \in 1 .. n : p[i].ready}
<1>1. IsFiniteSet(1 .. Len(p)) /\ Cardinality(1 .. Len(p)) = Len(p)
  <2>1. ASSUME NEW m \in Nat
        PROVE  /\ IsFiniteSet(1 .. m)
               /\ Cardinality(1 .. m) = IF 1 > m THEN 0 ELSE m - 1 + 1
    BY FS_Interval
  <2>2. ASSUME NEW m \in Nat PROVE (IF 1 > m THEN 0 ELSE m - 1 + 1) = m
    OBVIOUS
  <2> QED
    BY <2>1, <2>2
<1>2. IsFiniteSet(S) /\ Cardinality(S) <= Cardinality(1 .. Len(p))
  BY <1>1, FS_Subset
<1>3. Cardinality(S) \in Nat
  BY <1>2, FS_CardinalityType
<1> QED
  BY <1>1, <1>2, <1>3 DEF ReadyCount

\* Any two ends of a sequence are sequences of the same things.
LEMMA SplitSeq ==
    ASSUME NEW S, NEW s \in Seq(S), NEW k \in 0 .. Len(s)
    PROVE  /\ SubSeq(s, 1, k) \in Seq(S) /\ Len(SubSeq(s, 1, k)) = k
           /\ \A i \in 1 .. k : SubSeq(s, 1, k)[i] = s[i]
           /\ SubSeq(s, k + 1, Len(s)) \in Seq(S)
           /\ Len(SubSeq(s, k + 1, Len(s))) = Len(s) - k
           /\ \A i \in 1 .. Len(s) - k : SubSeq(s, k + 1, Len(s))[i] = s[k + i]
<1>1. Len(s) \in Nat /\ \A i \in 1 .. Len(s) : s[i] \in S
  BY LenProperties, ElementOfSeq
<1>2. /\ SubSeq(s, 1, k) \in Seq(S)
      /\ Len(SubSeq(s, 1, k)) = IF 1 <= k THEN k - 1 + 1 ELSE 0
      /\ \A i \in 1 .. k - 1 + 1 : SubSeq(s, 1, k)[i] = s[1 + i - 1]
  BY <1>1, SubSeqProperties
<1>3. /\ SubSeq(s, k + 1, Len(s)) \in Seq(S)
      /\ Len(SubSeq(s, k + 1, Len(s))) = IF k + 1 <= Len(s) THEN Len(s) - (k + 1) + 1 ELSE 0
      /\ \A i \in 1 .. Len(s) - (k + 1) + 1 : SubSeq(s, k + 1, Len(s))[i] = s[k + 1 + i - 1]
  BY <1>1, SubSeqProperties
<1> QED
  BY <1>1, <1>2, <1>3

\* What flush_ready() leaves in the pipeline and what it moves to the output.
LEMMA FlushSeq ==
    ASSUME NEW p \in Seq(Slot)
    PROVE  /\ ReadyCount(p) \in 0 .. Len(p)
           /\ Unflushed(p) \in Seq(Slot)
           /\ Len(Unflushed(p)) = Len(p) - ReadyCount(p)
           /\ \A i \in 1 .. Len(p) - ReadyCount(p) : Unflushed(p)[i] = p[ReadyCount(p) + i]
           /\ Flushed(p) \in Seq(SentReply)
           /\ Len(Flushed(p)) = ReadyCount(p)
           /\ \A i \in 1 .. ReadyCount(p) : Flushed(p)[i].seq = p[i].seq
<1>1. Len(p) \in Nat /\ \A i \in 1 .. Len(p) : p[i] \in Slot
  BY LenProperties, ElementOfSeq
<1>2. ReadyCount(p) \in 0 .. Len(p)
  BY <1>1, ReadyCountRange
<1>3. /\ Unflushed(p) \in Seq(Slot)
      /\ Len(Unflushed(p)) = Len(p) - ReadyCount(p)
      /\ \A i \in 1 .. Len(p) - ReadyCount(p) : Unflushed(p)[i] = p[ReadyCount(p) + i]
  BY <1>1, <1>2, SplitSeq DEF Unflushed
<1> DEFINE n == ReadyCount(p)
           e(i) == [seq |-> p[i].seq, bytes |-> p[i].bytes]
<1>4. ASSUME NEW i \in 1 .. n PROVE e(i) \in SentReply
  <2>1. p[i] \in Slot
    BY <1>1, <1>2
  <2> QED
    BY <2>1 DEF Slot, SlotRecord, SentReply
<1>5. n \in Nat
  BY <1>1, <1>2
<1>6. Flushed(p) = [i \in 1 .. n |-> e(i)]
  BY DEF Flushed
<1>7. [i \in 1 .. n |-> e(i)] \in Seq(SentReply)
  <2> HIDE DEF e, n
  <2> QED
    BY <1>4, <1>5, IsASeq
<1>8. Len(Flushed(p)) = n /\ \A i \in 1 .. n : Flushed(p)[i].seq = p[i].seq
  BY <1>5, <1>6
<1> QED
  BY <1>2, <1>3, <1>6, <1>7, <1>8
\* One element is a sequence.
LEMMA SingletonSeq ==
    ASSUME NEW S, NEW x \in S
    PROVE  <<x>> \in Seq(S)
OBVIOUS

-----------------------------------------------------------------------------
(* Slots and tasks.                                                        *)

\* The slots that dispatch() opens.
LEMMA NewSlotType ==
    /\ \A q \in Nat, r \in Reply : ReadySlot(q, r) \in Slot /\ ReadySlot(q, r).seq = q
    /\ \A q \in Nat, kind \in Kinds, n \in Nat \ {0} :
          PendingSlot(q, kind, n) \in Slot /\ PendingSlot(q, kind, n).seq = q
<1>1. ASSUME NEW q \in Nat, NEW r \in Reply
      PROVE  ReadySlot(q, r) \in Slot /\ ReadySlot(q, r).seq = q
  BY DEF ReadySlot, Slot, SlotRecord, Kinds
<1>2. ASSUME NEW q \in Nat, NEW kind \in Kinds, NEW n \in Nat \ {0}
      PROVE  PendingSlot(q, kind, n) \in Slot /\ PendingSlot(q, kind, n).seq = q
  <2> DEFINE f == [i \in 1 .. n |-> NoBytes]
  <2>1. NoBytes \in HandlerReply /\ NoBytes \in Reply
    BY DEF HandlerReply, ScalarReply, Reply
  <2>2. f \in Seq(HandlerReply) /\ Len(f) = n
    <3> HIDE DEF NoBytes
    <3> QED
      BY <2>1, IsASeq
  <2>3. f # <<>>
    BY <2>2
  <2>4. PendingSlot(q, kind, n) =
          [seq |-> q, ready |-> FALSE, bytes |-> NoBytes, kind |-> kind,
           remaining |-> n, frags |-> f, accum |-> 0]
    BY DEF PendingSlot
  <2> HIDE DEF f
  <2> QED
    BY <2>1, <2>2, <2>3, <2>4 DEF Slot, SlotRecord
<1> QED
  BY <1>1, <1>2

\* complete_fragment() makes a slot ready.
LEMMA SlotBytes ==
    ASSUME NEW p \in SlotRecord, NEW b \in Reply
    PROVE  LET q == [p EXCEPT !.bytes = b, !.ready = TRUE]
           IN  /\ q \in SlotRecord /\ q.remaining = p.remaining
               /\ q.seq = p.seq /\ q.kind = p.kind /\ q.frags = p.frags
BY DEF SlotRecord

\* complete_fragment() keeps the slot a slot, at the same sequence number.
LEMMA CompleteSlotType ==
    ASSUME NEW p \in Slot, NEW t \in Done
    PROVE  CompleteSlot(p, t) \in Slot /\ CompleteSlot(p, t).seq = p.seq
<1> DEFINE got == IF t.is_int
               THEN [p EXCEPT !.accum = @ + t.val, !.remaining = @ - 1]
               ELSE [p EXCEPT !.frags[t.index] = t.reply, !.remaining = @ - 1]
           f == [p.frags EXCEPT ![t.index] = t.reply]
           a == p.accum + t.val
           r == p.remaining - 1
<1>0. /\ p \in SlotRecord
      /\ p.kind = "Single" /\ p.remaining > 0 => p.frags # <<>>
  BY DEF Slot
<1>1. /\ t.val \in Nat /\ t.reply \in HandlerReply
      /\ p.remaining \in Int /\ a \in Nat /\ r \in Int
      /\ p.frags \in Seq(HandlerReply)
  BY <1>0 DEF Done, SlotRecord
<1>2. f \in Seq(HandlerReply) /\ (p.frags # <<>> => f # <<>>)
  <2>1. CASE t.index \in 1 .. Len(p.frags)
    BY <2>1, <1>1, ExceptSeq, EmptySeq
  <2>2. CASE t.index \notin 1 .. Len(p.frags)
    <3>1. f = p.frags
      BY <2>2, <1>1, LenProperties
    <3> QED
      BY <3>1, <1>1
  <2> QED
    BY <2>1, <2>2
<1>3. /\ got \in SlotRecord
      /\ got.remaining = r
      /\ got.kind = p.kind
      /\ got.seq = p.seq
      /\ p.frags # <<>> => got.frags # <<>>
  <2>1. CASE t.is_int
    <3>1. got = [p EXCEPT !.accum = a, !.remaining = r]
      BY <2>1, Zenon
    <3> HIDE DEF got, f, a, r
    <3> QED
      BY <3>1, <1>0, <1>1, <1>2 DEF SlotRecord
  <2>2. CASE ~t.is_int
    <3>1. got = [p EXCEPT !.frags = f, !.remaining = r]
      BY <2>2, Zenon
    <3> HIDE DEF got, f, a, r
    <3> QED
      BY <3>1, <1>0, <1>1, <1>2 DEF SlotRecord
  <2> QED
    BY <2>1, <2>2
<1>4. CompleteSlot(p, t) = IF got.remaining = 0
                           THEN [got EXCEPT !.bytes = Assemble(got), !.ready = TRUE]
                           ELSE got
  BY DEF CompleteSlot
<1> HIDE DEF got
<1>5. ASSUME got.remaining = 0 PROVE Assemble(got) \in Reply
  <2>1. p.remaining = 1
    BY <1>1, <1>3, <1>5
  <2>2. CASE got.kind = "Single"
    <3>1. got.frags # <<>> /\ got.frags \in Seq(HandlerReply)
      BY <2>1, <2>2, <1>0, <1>3 DEF SlotRecord
    <3>2. got.frags[1] \in HandlerReply
      BY <3>1, ElementOfSeq, EmptySeq
    <3> QED
      BY <2>2, <3>2 DEF Assemble, Reply
  <2>3. CASE got.kind = "MGet"
    BY <2>3, <1>3 DEF Assemble, Reply, Array, SlotRecord
  <2>4. CASE got.kind = "MSet"
    BY <2>4 DEF Assemble, Reply, HandlerReply, ScalarReply, Ok
  <2>5. CASE got.kind \notin {"Single", "MGet", "MSet"}
    <3>1. Assemble(got) = Num(got.accum)
      BY <2>5, Zenon DEF Assemble
    <3>2. got.accum \in Nat
      BY <1>3 DEF SlotRecord
    <3> QED
      BY <3>1, <3>2 DEF Reply, HandlerReply, ScalarReply, Num
  <2> QED
    BY <2>2, <2>3, <2>4, <2>5
<1>6. CASE got.remaining = 0
  <2>1. CompleteSlot(p, t) = [got EXCEPT !.bytes = Assemble(got), !.ready = TRUE]
    BY <1>4, <1>6
  <2>2. Assemble(got) \in Reply
    BY <1>5, <1>6
  <2>3. /\ CompleteSlot(p, t) \in SlotRecord
        /\ CompleteSlot(p, t).seq = got.seq
        /\ CompleteSlot(p, t).remaining = 0
    BY <2>1, <2>2, <1>1, <1>3, <1>6, SlotBytes
  <2> QED
    BY <2>3, <1>3 DEF Slot
<1>7. CASE got.remaining # 0
  <2>1. CompleteSlot(p, t) = got
    BY <1>4, <1>7
  <2>2. got.remaining > 0 => p.remaining > 0
    BY <1>1, <1>3
  <2> QED
    BY <2>1, <2>2, <1>0, <1>3 DEF Slot
<1> QED
  BY <1>6, <1>7

\* complete_fragment() touches one slot of the pipeline and keeps them in place.
LEMMA CompletedType ==
    ASSUME NEW p \in Seq(Slot), NEW t \in Done
    PROVE  /\ Completed(p, t) \in Seq(Slot)
           /\ Len(Completed(p, t)) = Len(p)
           /\ \A i \in 1 .. Len(p) : Completed(p, t)[i].seq = p[i].seq
<1> DEFINE n == Len(p)
           e(i) == IF p[i].seq = t.seq THEN CompleteSlot(p[i], t) ELSE p[i]
<1>1. n \in Nat /\ \A i \in 1 .. n : p[i] \in Slot
  BY LenProperties, ElementOfSeq
<1>2. \A i \in 1 .. n : e(i) \in Slot /\ e(i).seq = p[i].seq
  BY <1>1, CompleteSlotType
<1>3. Completed(p, t) = [i \in 1 .. n |-> e(i)]
  BY DEF Completed
<1> HIDE DEF e, n
<1>4. [i \in 1 .. n |-> e(i)] \in Seq(Slot)
  BY <1>1, <1>2, IsASeq
<1>5. Len([i \in 1 .. n |-> e(i)]) = n
  BY <1>1
<1> QED
  BY <1>2, <1>3, <1>4, <1>5 DEF n

\* parse_resp_integer gives a count for every reply.
LEMMA ParseType ==
    ASSUME NEW r \in HandlerReply
    PROVE  ParseRespInteger(r) \in Nat
BY DEF ParseRespInteger, HandlerReply, ScalarReply, Ok, Pong, Null, NoBytes

\* The history entries of one command.
LEMMA AccessesType ==
    ASSUME NEW c \in Conns, NEW q \in Nat, NEW first \in Nat \ {0},
           NEW cmd \in AllCommands, NEW d \in Db
    PROVE  Accesses(c, q, first, cmd, d) \in Seq(Access)
<1> DEFINE n == Len(cmd.keys)
           e(i) == [conn |-> c, seq |-> q, index |-> first + i - 1, key |-> cmd.keys[i],
                    before |-> d[cmd.keys[i]], after |-> Effect(cmd, d)[cmd.keys[i]]]
<1>1. n \in Nat /\ \A i \in 1 .. n : cmd.keys[i] \in Keys
  BY CommandKeys
<1>2. Effect(cmd, d) \in Db
  BY EffectType
<1>3. ASSUME NEW i \in 1 .. n PROVE e(i) \in Access
  <2>1. first + i - 1 \in Nat \ {0}
    BY <1>1
  <2>2. d[cmd.keys[i]] \in Object \cup {NoKey}
    BY <1>1 DEF Db
  <2>3. Effect(cmd, d)[cmd.keys[i]] \in Object \cup {NoKey}
    BY <1>1, <1>2 DEF Db
  <2> QED
    BY <1>1, <2>1, <2>2, <2>3 DEF Access
<1>4. Accesses(c, q, first, cmd, d) = [i \in 1 .. n |-> e(i)]
  BY DEF Accesses
<1> HIDE DEF e, n
<1> QED
  BY <1>1, <1>3, <1>4, IsASeq

\* What begin_multikey() posts: one sub-request per key, to the key's owner.
LEMMA FragmentsType ==
    ASSUME NEW c \in Conns, NEW q \in Nat, NEW cmd \in AllCommands, WholePairs(cmd)
    PROVE  /\ Fragments(c, q, cmd) \in Seq([to : Shards, task : Task])
           /\ Len(Fragments(c, q, cmd)) = Len(cmd.keys)
           /\ \A i \in 1 .. Len(cmd.keys) :
                /\ Fragments(c, q, cmd)[i].to = Owner[cmd.keys[i]]
                /\ Fragments(c, q, cmd)[i].task.type = "exec"
                /\ Fragments(c, q, cmd)[i].task.cmd = SubCommand(cmd, i)
<1> DEFINE n == Len(cmd.keys)
           e(i) == To(Owner[cmd.keys[i]],
                      ExecTask(c, q, i, IsIntKind(SlotKind(cmd)), SubCommand(cmd, i)))
<1>1. n \in Nat /\ \A i \in 1 .. n : cmd.keys[i] \in Keys
  BY CommandKeys
<1>2. ASSUME NEW i \in 1 .. n
      PROVE  /\ e(i) \in [to : Shards, task : Task]
             /\ e(i).to = Owner[cmd.keys[i]]
             /\ e(i).task.type = "exec"
             /\ e(i).task.cmd = SubCommand(cmd, i)
  <2> DEFINE sub == SubCommand(cmd, i)
             b   == IsIntKind(SlotKind(cmd))
  <2>1. sub \in AllCommands
    BY SubCommandType
  <2>2. b \in BOOLEAN
    BY DEF IsIntKind
  <2>3. Owner[cmd.keys[i]] \in Shards
    BY <1>1, ShardAssumption DEF ShardAssumption
  <2>4. i \in Nat \ {0}
    BY <1>1
  <2> HIDE DEF sub, b
  <2>5. ExecTask(c, q, i, b, sub) \in Task
    BY <2>1, <2>2, <2>4 DEF ExecTask, Task, Exec
  <2>6. To(Owner[cmd.keys[i]], ExecTask(c, q, i, b, sub)) \in [to : Shards, task : Task]
    BY <2>3, <2>5 DEF To
  <2> QED
    BY <2>6 DEF To, ExecTask, sub, b
<1>3. Fragments(c, q, cmd) = [i \in 1 .. n |-> e(i)]
  BY DEF Fragments
<1> HIDE DEF e, n
<1>4. [i \in 1 .. n |-> e(i)] \in Seq([to : Shards, task : Task])
  BY <1>1, <1>2, IsASeq
<1>5. Len([i \in 1 .. n |-> e(i)]) = n
  BY <1>1
<1> QED
  BY <1>2, <1>3, <1>4, <1>5 DEF n

\* What flush_all_shards posts: a flush for every other shard.
LEMMA FlushPostsType ==
    ASSUME NEW s \in Shards
    PROVE  /\ FlushPosts(s) \in Seq([to : Shards, task : Task])
           /\ \A i \in 1 .. Len(FlushPosts(s)) : FlushPosts(s)[i].task = FlushTask
<1> DEFINE n == NShards - 1
           e(i) == To(IF i - 1 < s THEN i - 1 ELSE i, FlushTask)
<1>1. n \in Nat /\ NShards \in Nat
  BY ShardAssumption DEF ShardAssumption
<1>2. ASSUME NEW i \in 1 .. n
      PROVE  e(i) \in [to : Shards, task : Task] /\ e(i).task = FlushTask
  <2>1. (IF i - 1 < s THEN i - 1 ELSE i) \in Shards
    BY <1>1 DEF Shards
  <2>2. FlushTask \in Task
    BY DEF Task
  <2> HIDE DEF FlushTask
  <2> QED
    BY <2>1, <2>2 DEF To
<1>3. FlushPosts(s) = [i \in 1 .. n |-> e(i)]
  BY DEF FlushPosts
<1> HIDE DEF e, n
<1>4. [i \in 1 .. n |-> e(i)] \in Seq([to : Shards, task : Task])
  BY <1>1, <1>2, IsASeq
<1>5. Len([i \in 1 .. n |-> e(i)]) = n
  BY <1>1
<1> QED
  BY <1>2, <1>3, <1>4, <1>5

\* handle_writable() hands the client a prefix of the output; the connection is
\* then closed and emptied, or keeps the rest.
LEMMA SettleCases ==
    ASSUME NEW c \in Conns, NEW p, NEW o, Len(o) \in Nat,
           closing[c] \in BOOLEAN, WriteAndSettle(c, p, o)
    PROVE  \E k \in 0 .. Len(o), cl \in BOOLEAN :
              /\ delivered' = [delivered EXCEPT ![c] = @ \o SubSeq(o, 1, k)]
              /\ closing' = [closing EXCEPT ![c] = cl]
              /\ \/ CloseConn(c)
                 \/ /\ pipeline' = [pipeline EXCEPT ![c] = p]
                    /\ out' = [out EXCEPT ![c] = SubSeq(o, k + 1, Len(o))]
                    /\ in' = [in EXCEPT ![c] = in[c]]
                    /\ status' = status
<1>1. PICK k \in Writable(Len(o)), fails \in BOOLEAN :
        /\ delivered' = [delivered EXCEPT ![c] = @ \o SubSeq(o, 1, k)]
        /\ CloseOrKeep(c, in[c], p, SubSeq(o, k + 1, Len(o)), closing[c] \/ fails)
  BY Zenon DEF WriteAndSettle
<1>2. k \in 0 .. Len(o)
  BY <1>1 DEF Writable
<1> DEFINE cl == closing[c] \/ fails
<1>3. cl \in BOOLEAN
  OBVIOUS
<1>4. CloseOrKeep(c, in[c], p, SubSeq(o, k + 1, Len(o)), cl)
  BY <1>1
<1> HIDE DEF cl
<1> QED
  BY <1>1, <1>2, <1>3, <1>4, Zenon DEF CloseOrKeep

\* Whatever is written and decided, the connection keeps its shape.
LEMMA SettleType ==
    ASSUME TypeOK, NEW c \in Conns, NEW p \in Seq(Slot), NEW o \in Seq(SentReply),
           WriteAndSettle(c, p, o)
    PROVE  /\ status'    \in [Conns -> {"new", "open", "closed"}]
           /\ in'        \in [Conns -> Seq(AllCommands)]
           /\ closing'   \in [Conns -> BOOLEAN]
           /\ pipeline'  \in [Conns -> Seq(Slot)]
           /\ out'       \in [Conns -> Seq(SentReply)]
           /\ delivered' \in [Conns -> Seq(SentReply)]
<1>1. Len(o) \in Nat /\ closing[c] \in BOOLEAN
  BY LenProperties DEF TypeOK
<1>2. PICK k \in 0 .. Len(o), cl \in BOOLEAN :
        /\ delivered' = [delivered EXCEPT ![c] = @ \o SubSeq(o, 1, k)]
        /\ closing' = [closing EXCEPT ![c] = cl]
        /\ \/ CloseConn(c)
           \/ /\ pipeline' = [pipeline EXCEPT ![c] = p]
              /\ out' = [out EXCEPT ![c] = SubSeq(o, k + 1, Len(o))]
              /\ in' = [in EXCEPT ![c] = in[c]]
              /\ status' = status
  BY <1>1, SettleCases
<1>3. SubSeq(o, 1, k) \in Seq(SentReply) /\ SubSeq(o, k + 1, Len(o)) \in Seq(SentReply)
  BY SplitSeq
<1>4. delivered' \in [Conns -> Seq(SentReply)]
  <2>1. delivered[c] \o SubSeq(o, 1, k) \in Seq(SentReply)
    BY <1>3, ConcatProperties DEF TypeOK
  <2> QED
    BY <1>2, <2>1 DEF TypeOK
<1>5. closing' \in [Conns -> BOOLEAN]
  BY <1>2 DEF TypeOK
<1>6. /\ status'    \in [Conns -> {"new", "open", "closed"}]
      /\ in'        \in [Conns -> Seq(AllCommands)]
      /\ pipeline'  \in [Conns -> Seq(Slot)]
      /\ out'       \in [Conns -> Seq(SentReply)]
  <2>1. CASE CloseConn(c)
    BY <2>1, EmptySeq DEF CloseConn, TypeOK
  <2>2. CASE /\ pipeline' = [pipeline EXCEPT ![c] = p]
             /\ out' = [out EXCEPT ![c] = SubSeq(o, k + 1, Len(o))]
             /\ in' = [in EXCEPT ![c] = in[c]]
             /\ status' = status
    BY <2>2, <1>3 DEF TypeOK
  <2> QED
    BY <1>2, <2>1, <2>2
<1> QED
  BY <1>4, <1>5, <1>6

\* The slot that dispatch() opens, and the command it is for.
LEMMA SubmitType ==
    ASSUME TypeOK, NEW c \in Conns, NEW slot \in Slot, in[c] # <<>>, Submit(c, slot)
    PROVE  /\ pipeline'  \in [Conns -> Seq(Slot)]
           /\ next_seq'  \in [Conns -> Nat]
           /\ submitted' \in [Conns -> Seq(AllCommands)]
<1>1. Head(in[c]) \in AllCommands
  BY HeadTailProperties DEF TypeOK
<1>2. /\ Append(pipeline[c], slot) \in Seq(Slot)
      /\ Append(submitted[c], Head(in[c])) \in Seq(AllCommands)
  BY <1>1, AppendProperties DEF TypeOK
<1> QED
  BY <1>2 DEF Submit, TypeOK

\* What dispatch() has in hand: a command, and the rest of the input.
LEMMA DispatchingType ==
    ASSUME TypeOK, NEW s \in Shards, NEW c \in Conns, Dispatching(s, c)
    PROVE  /\ in[c] # <<>>
           /\ Head(in[c]) \in AllCommands
           /\ in' \in [Conns -> Seq(AllCommands)]
           /\ next_seq[c] \in Nat
           /\ UNCHANGED <<status, closing, out, mailbox, batch, busy, delivered, sent>>
<1>1. in[c] # <<>> /\ in' = [in EXCEPT ![c] = Tail(@)]
      /\ UNCHANGED <<status, closing, out, mailbox, batch, busy, delivered, sent>>
  BY DEF Dispatching, Parsing
<1>2. Head(in[c]) \in AllCommands /\ Tail(in[c]) \in Seq(AllCommands)
  BY <1>1, HeadTailProperties DEF TypeOK
<1> QED
  BY <1>1, <1>2 DEF TypeOK

-----------------------------------------------------------------------------
(* Type correctness.                                                       *)

\* Events of connections keep the types.
LEMMA ConnStepType ==
    ASSUME TypeOK, NEW c \in Conns,
           Accept(c) \/ HandleReadable(c) \/ HandleWritable(c) \/ HandleError(c)
    PROVE  TypeOK'
<1>1. CASE Accept(c)
  BY <1>1 DEF Accept, TypeOK
<1>2. CASE HandleReadable(c)
  <2>1. PICK n \in 0 .. MaxBurst : \E reqs \in [1 .. n -> Requests[c]], eof \in BOOLEAN :
          /\ sent'    = [sent EXCEPT ![c] = @ + n]
          /\ in'      = [in EXCEPT ![c] = @ \o reqs]
          /\ closing' = [closing EXCEPT ![c] = @ \/ eof]
          /\ busy'    = [busy EXCEPT ![Home[c]] = c]
          /\ UNCHANGED <<status, pipeline, next_seq, out, db, mailbox, batch, outbox,
                         submitted, delivered, log>>
    BY <1>2, Zenon DEF HandleReadable
  <2>2. PICK reqs \in [1 .. n -> Requests[c]], eof \in BOOLEAN :
          /\ sent'    = [sent EXCEPT ![c] = @ + n]
          /\ in'      = [in EXCEPT ![c] = @ \o reqs]
          /\ closing' = [closing EXCEPT ![c] = @ \/ eof]
          /\ busy'    = [busy EXCEPT ![Home[c]] = c]
          /\ UNCHANGED <<status, pipeline, next_seq, out, db, mailbox, batch, outbox,
                         submitted, delivered, log>>
    BY <2>1
  <2>3. n \in Nat /\ Requests[c] \subseteq AllCommands
    BY ShardAssumption DEF ShardAssumption
  <2>4. reqs \in Seq(AllCommands)
    <3>1. reqs \in Seq(Requests[c])
      BY <2>3, SeqDef
    <3> QED
      BY <2>3, <3>1, SeqMonotonic
  <2>5. in[c] \o reqs \in Seq(AllCommands)
    BY <2>4, ConcatProperties DEF TypeOK
  <2>6. /\ sent' \in [Conns -> Nat] 
        /\ in' \in [Conns -> Seq(AllCommands)]
        /\ busy' \in [Shards -> Conns \cup {NoConn}]
    <3>1. sent[c] + n \in Nat
      BY <2>3 DEF TypeOK
    <3>2. sent' \in [Conns -> Nat]
      BY <2>2, <3>1, Zenon DEF TypeOK
    <3>3. in' \in [Conns -> Seq(AllCommands)]
      BY <2>2, <2>5, Zenon DEF TypeOK
    <3>4. busy' \in [Shards -> Conns \cup {NoConn}]
      BY <2>2 DEF TypeOK
    <3> QED
      BY <3>2, <3>3, <3>4
  <2>7. closing' \in [Conns -> BOOLEAN]
    <3>1. (closing[c] \/ eof) \in BOOLEAN
      OBVIOUS
    <3> QED
      BY <2>2, <3>1, Zenon DEF TypeOK
  <2> QED
    BY <2>2, <2>6, <2>7 DEF TypeOK
<1>3. CASE HandleWritable(c)
  <2>1. /\ pipeline[c] \in Seq(Slot) /\ out[c] \in Seq(SentReply)
        /\ WriteAndSettle(c, pipeline[c], out[c])
        /\ UNCHANGED <<next_seq, db, mailbox, batch, busy, outbox, submitted, log, sent>>
    BY <1>3 DEF HandleWritable, TypeOK
  <2> QED
    BY <2>1, SettleType DEF TypeOK
<1>4. CASE HandleError(c)
  BY <1>4, EmptySeq DEF HandleError, CloseConn, TypeOK
<1> QED
  BY <1>1, <1>2, <1>3, <1>4

\* dispatch(), whichever way it routes the command, keeps the types.
LEMMA DispatchStepType ==
    ASSUME TypeOK, NEW s \in Shards, NEW c \in Conns, Dispatch(s, c)
    PROVE  TypeOK'
<1> DEFINE cmd == Head(in[c])
<1>0. next_seq[c] \in Nat /\ db[s] \in Db
  BY DEF TypeOK
<1>1. CASE ProtocolError(s, c)
  <2>1. Err("PROTOCOL") \in Reply
    BY DEF Err, Reply, HandlerReply, ScalarReply, ErrorCodes
  <2>2. ReadySlot(next_seq[c], Err("PROTOCOL")) \in Slot
    BY <1>0, <2>1, NewSlotType
  <2>3. in[c] # <<>> /\ Submit(c, ReadySlot(next_seq[c], Err("PROTOCOL")))
    BY <1>1 DEF ProtocolError, Parsing
  <2>4. /\ closing' = [closing EXCEPT ![c] = TRUE]
        /\ UNCHANGED <<status, in, out, db, mailbox, batch, busy, outbox, delivered, log, sent>>
    BY <1>1 DEF ProtocolError
  <2> QED
    BY <2>2, <2>3, <2>4, SubmitType DEF TypeOK
<1> DEFINE Rest == /\ Dispatching(s, c)
                   /\ pipeline'  \in [Conns -> Seq(Slot)]
                   /\ next_seq'  \in [Conns -> Nat]
                   /\ submitted' \in [Conns -> Seq(AllCommands)]
<1>2. ASSUME Dispatching(s, c), NEW r \in Reply, Submit(c, ReadySlot(next_seq[c], r))
      PROVE  Rest
  <2>1. ReadySlot(next_seq[c], r) \in Slot
    BY <1>0, NewSlotType
  <2> QED
    BY <1>2, <2>1, DispatchingType, SubmitType
<1>3. ASSUME Dispatching(s, c), NEW kind \in Kinds, NEW n \in Nat \ {0},
             Submit(c, PendingSlot(next_seq[c], kind, n))
      PROVE  Rest
  <2>1. PendingSlot(next_seq[c], kind, n) \in Slot
    BY <1>0, NewSlotType
  <2> QED
    BY <1>3, <2>1, DispatchingType, SubmitType
<1>4. ASSUME Rest, db' \in [Shards -> Db], log' \in [Shards -> Seq(Access)],
             outbox' \in [Shards -> Seq([to : Shards, task : Task])]
      PROVE  TypeOK'
  BY <1>4, DispatchingType DEF TypeOK
<1>5. ASSUME Dispatching(s, c)
      PROVE  cmd \in AllCommands /\ Answer(cmd, db[s]) \in Reply /\ Effect(cmd, db[s]) \in Db
  <2>1. cmd \in AllCommands
    BY <1>5, DispatchingType
  <2> HIDE DEF cmd
  <2> QED
    BY <1>0, <2>1, AnswerType, EffectType DEF Reply
<1>6. Ok \in Reply /\ Err("CROSSSLOT") \in Reply
  BY DEF Ok, Err, Reply, HandlerReply, ScalarReply, ErrorCodes
<1>7. CASE DispatchKeyless(s, c)
  <2>1. /\ Dispatching(s, c)
        /\ Submit(c, ReadySlot(next_seq[c], Answer(cmd, db[s])))
        /\ UNCHANGED <<db, outbox, log>>
    BY <1>7 DEF DispatchKeyless
  <2>2. Rest
    BY <2>1, <1>2, <1>5
  <2> HIDE DEF Rest
  <2> QED
    BY <1>4, <2>1, <2>2 DEF TypeOK
<1>8. CASE DispatchFlushall(s, c)
  <2>1. /\ Dispatching(s, c)
        /\ Submit(c, ReadySlot(next_seq[c], Ok))
        /\ db' = [db EXCEPT ![s] = EmptyDb]
        /\ outbox' = [outbox EXCEPT ![s] = FlushPosts(s)]
        /\ log' = log
    BY <1>8 DEF DispatchFlushall
  <2>2. Rest
    BY <2>1, <1>2, <1>6
  <2>3. EmptyDb \in Db
    BY DEF EmptyDb, Db
  <2> HIDE DEF Rest
  <2> QED
    BY <1>4, <2>1, <2>2, <2>3, FlushPostsType DEF TypeOK
<1>9. CASE DispatchLocal(s, c)
  <2>1. /\ Dispatching(s, c)
        /\ Submit(c, ReadySlot(next_seq[c], Answer(cmd, db[s])))
        /\ db'  = [db EXCEPT ![s] = Effect(cmd, @)]
        /\ log' = [log EXCEPT ![s] = @ \o Accesses(c, next_seq[c], 1, cmd, db[s])]
        /\ outbox' = outbox
    BY <1>9 DEF DispatchLocal
  <2>2. Rest
    BY <2>1, <1>2, <1>5
  <2>3. db' \in [Shards -> Db]
    BY <2>1, <1>5 DEF TypeOK
  <2>4. Accesses(c, next_seq[c], 1, cmd, db[s]) \in Seq(Access)
    BY <2>1, <1>0, <1>5, AccessesType
  <2>5. log[s] \o Accesses(c, next_seq[c], 1, cmd, db[s]) \in Seq(Access)
    BY <2>4, ConcatProperties DEF TypeOK
  <2>6. log' \in [Shards -> Seq(Access)]
    BY <2>1, <2>5 DEF TypeOK
  <2> HIDE DEF Rest
  <2> QED
    BY <1>4, <2>1, <2>2, <2>3, <2>6 DEF TypeOK
<1>10. CASE DispatchForward(s, c)
  <2> DEFINE t == ExecTask(c, next_seq[c], 1, FALSE, cmd)
             o == Owner[cmd.keys[1]]
  <2>1. /\ Dispatching(s, c)
        /\ cmd.keys # <<>>
        /\ Submit(c, PendingSlot(next_seq[c], "Single", 1))
        /\ outbox' = [outbox EXCEPT ![s] = <<To(o, t)>>]
        /\ UNCHANGED <<db, log>>
    BY <1>10 DEF DispatchForward
  <2>2. Rest
    BY <2>1, <1>3 DEF Kinds
  <2>3. cmd \in AllCommands
    BY <2>1, <1>5
  <2>4. cmd.keys[1] \in Keys
    <3> HIDE DEF cmd
    <3> QED
      BY <2>1, <2>3, CommandKeys, EmptySeq, ElementOfSeq
  <2>5. o \in Shards
    BY <2>4, ShardAssumption DEF ShardAssumption
  <2>6. t \in Task
    <3> HIDE DEF cmd
    <3> QED
      BY <2>3, <1>0 DEF ExecTask, Task, Exec
  <2> HIDE DEF t, o, Rest
  <2>7. To(o, t) \in [to : Shards, task : Task]
    BY <2>5, <2>6 DEF To
  <2>8. <<To(o, t)>> \in Seq([to : Shards, task : Task])
    BY <2>7, SingletonSeq
  <2>9. outbox' \in [Shards -> Seq([to : Shards, task : Task])]
    BY <2>1, <2>8 DEF TypeOK
  <2> QED
    BY <1>4, <2>1, <2>2, <2>9 DEF TypeOK
<1>11. CASE DispatchMultikey(s, c)
  <2>1. /\ Dispatching(s, c)
        /\ SpansShards(cmd)
        /\ Submit(c, PendingSlot(next_seq[c], SlotKind(cmd), Len(cmd.keys)))
        /\ UNCHANGED <<db, log>>
    BY <1>11 DEF DispatchMultikey
  <2>7. PICK whole \in ReadPairs(cmd) :
            outbox' = [outbox EXCEPT ![s] = Fragments(c, next_seq[c], whole)]
    BY <1>11 DEF DispatchMultikey
  <2>2. cmd \in AllCommands
    BY <2>1, <1>5
  <2>3. SlotKind(cmd) \in Kinds
    BY DEF SlotKind, Kinds
  <2>4. Len(cmd.keys) \in Nat \ {0}
    <3> HIDE DEF cmd
    <3> QED
      BY <2>1, <2>2, CommandKeys DEF SpansShards, KeysOf
  <2>5. Rest
    BY <2>1, <2>3, <2>4, <1>3
  <2>6. Fragments(c, next_seq[c], whole) \in Seq([to : Shards, task : Task])
    <3> HIDE DEF cmd
    <3>1. whole \in AllCommands /\ WholePairs(whole)
      BY <2>2, <2>7, ReadPairsType
    <3> QED
      BY <3>1, <1>0, FragmentsType
  <2> HIDE DEF Rest
  <2> QED
    BY <1>4, <2>1, <2>5, <2>6, <2>7 DEF TypeOK
<1>12. CASE DispatchCrossslot(s, c)
  <2>1. /\ Dispatching(s, c)
        /\ Submit(c, ReadySlot(next_seq[c], Err("CROSSSLOT")))
        /\ UNCHANGED <<db, outbox, log>>
    BY <1>12 DEF DispatchCrossslot
  <2>2. Rest
    BY <2>1, <1>2, <1>6
  <2> HIDE DEF Rest
  <2> QED
    BY <1>4, <2>1, <2>2 DEF TypeOK
<1> QED
  BY <1>1, <1>7, <1>8, <1>9, <1>10, <1>11, <1>12 DEF Dispatch

\* The rest of a read event, the mailbox and the tasks keep the types.
LEMMA ShardStepType ==
    ASSUME TypeOK, NEW s \in Shards,
           \/ \E c \in Conns : FinishReadable(s, c)
           \/ Post(s) \/ Drain(s) \/ RunTask(s)
    PROVE  TypeOK'
<1>1. ASSUME NEW c \in Conns, FinishReadable(s, c) PROVE TypeOK'
  <2>1. pipeline[c] \in Seq(Slot) /\ out[c] \in Seq(SentReply)
    BY DEF TypeOK
  <2>2. /\ Unflushed(pipeline[c]) \in Seq(Slot)
        /\ out[c] \o Flushed(pipeline[c]) \in Seq(SentReply)
    BY <2>1, FlushSeq, ConcatProperties
  <2>3. /\ WriteAndSettle(c, Unflushed(pipeline[c]), out[c] \o Flushed(pipeline[c]))
        /\ busy' = [busy EXCEPT ![s] = NoConn]
        /\ UNCHANGED <<next_seq, db, mailbox, batch, outbox, submitted, log, sent>>
    BY <1>1 DEF FinishReadable
  <2> QED
    BY <2>2, <2>3, SettleType DEF TypeOK
<1>2. CASE Post(s)
  <2> DEFINE p == Head(outbox[s])
  <2>1. /\ outbox[s] # <<>> /\ outbox[s] \in Seq([to : Shards, task : Task])
        /\ mailbox' = [mailbox EXCEPT ![p.to] = Append(@, p.task)]
        /\ outbox'  = [outbox EXCEPT ![s] = Tail(@)]
        /\ UNCHANGED <<status, in, closing, pipeline, next_seq, out, db, batch, busy,
                       submitted, delivered, log, sent>>
    BY <1>2 DEF Post, TypeOK
  <2>2. /\ p \in [to : Shards, task : Task]
        /\ Tail(outbox[s]) \in Seq([to : Shards, task : Task])
    BY <2>1, HeadTailProperties
  <2>3. p.to \in Shards /\ p.task \in Task
    BY <2>2
  <2> HIDE DEF p
  <2>4. Append(mailbox[p.to], p.task) \in Seq(Task)
    BY <2>3, AppendProperties DEF TypeOK
  <2> QED
    BY <2>1, <2>2, <2>3, <2>4 DEF TypeOK
<1>3. CASE Drain(s)
  BY <1>3, EmptySeq DEF Drain, TypeOK
<1>4. ASSUME NEW type, Running(s, type)
      PROVE  /\ Head(batch[s]) \in Task /\ Head(batch[s]).type = type
             /\ batch' \in [Shards -> Seq(Task)]
  <2>1. batch[s] # <<>> /\ batch[s] \in Seq(Task)
    BY <1>4 DEF Running, TypeOK
  <2>2. Head(batch[s]) \in Task /\ Tail(batch[s]) \in Seq(Task)
    BY <2>1, HeadTailProperties
  <2> QED
    BY <1>4, <2>2 DEF Running, TypeOK
<1>5. CASE RunExec(s)
  <2> DEFINE t     == Head(batch[s])
             reply == Answer(t.cmd, db[s])
             val   == IF t.is_int THEN ParseRespInteger(reply) ELSE 0
             done  == DoneTask(t.conn, t.seq, t.index, t.is_int, reply, val)
  <2>1. /\ Running(s, "exec")
        /\ db'     = [db EXCEPT ![s] = Effect(t.cmd, @)]
        /\ log'    = [log EXCEPT ![s] = @ \o Accesses(t.conn, t.seq, t.index, t.cmd, db[s])]
        /\ outbox' = [outbox EXCEPT ![s] = <<To(Home[t.conn], done)>>]
        /\ UNCHANGED <<status, in, closing, pipeline, next_seq, out, mailbox, busy,
                       submitted, delivered, sent>>
    BY <1>5 DEF RunExec
  <2>2. t \in Exec /\ batch' \in [Shards -> Seq(Task)]
    BY <2>1, <1>4 DEF Task, Exec, Done, FlushTask
  <2>3. /\ t.cmd \in AllCommands /\ t.conn \in Conns /\ t.seq \in Nat
        /\ t.index \in Nat \ {0} /\ t.is_int \in BOOLEAN
    BY <2>2 DEF Exec
  <2>4. db[s] \in Db
    BY DEF TypeOK
  <2> HIDE DEF t
  <2>5. reply \in HandlerReply /\ Effect(t.cmd, db[s]) \in Db
    BY <2>3, <2>4, AnswerType, EffectType
  <2>6. val \in Nat
    BY <2>5, ParseType
  <2> HIDE DEF reply, val
  <2>7. done \in Task
    BY <2>3, <2>5, <2>6 DEF DoneTask, Done, Task
  <2>8. Home[t.conn] \in Shards
    BY <2>3, ShardAssumption DEF ShardAssumption
  <2> HIDE DEF done
  <2>9. <<To(Home[t.conn], done)>> \in Seq([to : Shards, task : Task])
    <3>1. To(Home[t.conn], done) \in [to : Shards, task : Task]
      BY <2>7, <2>8 DEF To
    <3> QED
      BY <3>1, SingletonSeq
  <2>10. Accesses(t.conn, t.seq, t.index, t.cmd, db[s]) \in Seq(Access)
    BY <2>3, <2>4, AccessesType
  <2>11. log[s] \o Accesses(t.conn, t.seq, t.index, t.cmd, db[s]) \in Seq(Access)
    BY <2>10, ConcatProperties DEF TypeOK
  <2> QED
    BY <2>1, <2>2, <2>5, <2>9, <2>11 DEF TypeOK
<1>6. CASE RunFlush(s)
  <2>1. EmptyDb \in Db
    BY DEF EmptyDb, Db
  <2> QED
    BY <1>4, <1>6, <2>1 DEF RunFlush, TypeOK
<1>7. CASE RunDone(s)
  <2> DEFINE t == Head(batch[s])
             p == Completed(pipeline[t.conn], t)
  <2>1. /\ Running(s, "done")
        /\ WriteAndSettle(t.conn, Unflushed(p), out[t.conn] \o Flushed(p))
        /\ UNCHANGED <<next_seq, db, mailbox, busy, outbox, submitted, log, sent>>
    BY <1>7 DEF RunDone
  <2>2. t \in Done /\ batch' \in [Shards -> Seq(Task)]
    BY <2>1, <1>4 DEF Task, Exec, Done, FlushTask
  <2>3. t.conn \in Conns
    BY <2>2 DEF Done
  <2> HIDE DEF t
  <2>4. p \in Seq(Slot) /\ out[t.conn] \in Seq(SentReply)
    BY <2>2, <2>3, CompletedType DEF TypeOK
  <2> HIDE DEF p
  <2>5. Unflushed(p) \in Seq(Slot) /\ out[t.conn] \o Flushed(p) \in Seq(SentReply)
    BY <2>4, FlushSeq, ConcatProperties
  <2> QED
    BY <2>1, <2>2, <2>3, <2>5, SettleType DEF TypeOK
<1>8. CASE DropDone(s)
  BY <1>4, <1>8 DEF DropDone, TypeOK
<1> QED
  BY <1>1, <1>2, <1>3, <1>5, <1>6, <1>7, <1>8 DEF RunTask

\* Every step of the shards keeps the types.
LEMMA StepType == TypeOK /\ [Next]_vars => TypeOK'
<1> SUFFICES ASSUME TypeOK, [Next]_vars PROVE TypeOK'
  OBVIOUS
<1>1. CASE UNCHANGED vars
  BY <1>1 DEF vars, TypeOK
<1>2. CASE Next
  BY <1>2, ConnStepType, DispatchStepType, ShardStepType DEF Next
<1> QED
  BY <1>1, <1>2

\* TypeOK holds in every state, for any number of shards, connections, keys,
\* requests and faults: what each handler of shard.cpp reads has the shape that
\* it expects, and assemble() always finds the fragment it returns.
THEOREM TypeCorrect == Spec => []TypeOK
<1>1. Init => TypeOK
  BY EmptySeq, ShardAssumption DEF Init, TypeOK, ShardAssumption, EmptyDb, Db
<1> QED
  BY <1>1, StepType, PTL DEF Spec

-----------------------------------------------------------------------------
(* SAFETY.                                                                 *)

-----------------------------------------------------------------------------
(* Which tasks are where.                                                  *)

\* Appending keeps what holds of every element.
LEMMA AppendAll ==
    ASSUME NEW S, NEW q \in Seq(S), NEW x \in S, NEW P(_),
           \A i \in 1 .. Len(q) : P(q[i]), P(x)
    PROVE  \A i \in 1 .. Len(Append(q, x)) : P(Append(q, x)[i])
BY AppendProperties

\* Removing the first element keeps what holds of every element.
LEMMA TailAll ==
    ASSUME NEW S, NEW q \in Seq(S), q # <<>>, NEW P(_),
           \A i \in 1 .. Len(q) : P(q[i])
    PROVE  P(Head(q)) /\ \A i \in 1 .. Len(Tail(q)) : P(Tail(q)[i])
<1>1. /\ Len(q) \in Nat \ {0} /\ Head(q) = q[1] /\ Len(Tail(q)) = Len(q) - 1
      /\ \A i \in 1 .. Len(q) - 1 : Tail(q)[i] = q[i + 1]
  BY HeadTailProperties, EmptySeq
<1> QED
  BY <1>1

\* Keys a command does not name are left alone by its handler.
LEMMA EffectLocal ==
    ASSUME NEW cmd \in AllCommands, NEW d \in Db, NEW k \in Keys, k \notin KeysOf(cmd)
    PROVE  Effect(cmd, d)[k] = d[k]
<1>1. CASE cmd.op \in {"set", "mset"}
  <2>1. CASE WholePairs(cmd)
    BY <1>1, <2>1 DEF Effect, SetEffect
  <2>2. CASE ~WholePairs(cmd)
    BY <1>1, <2>2 DEF Effect
  <2> QED
    BY <2>1, <2>2
<1>2. CASE cmd.op = "del"
  BY <1>2 DEF Effect, DelEffect
<1>3. CASE cmd.op = "sadd"
  <2>0. Len(cmd.keys) = 1
    BY <1>3, CommandKeys DEF OneKeyOps
  <2>1. cmd.keys[1] \in KeysOf(cmd)
    BY <2>0 DEF KeysOf
  <2> QED
    BY <1>3, <2>1 DEF Effect, SaddEffect, Db
<1>4. CASE cmd.op = "rename"
  <2>0. Len(cmd.keys) = 2
    BY <1>4, CommandKeys
  <2>1. cmd.keys[1] \in KeysOf(cmd) /\ cmd.keys[2] \in KeysOf(cmd)
    BY <2>0 DEF KeysOf
  <2> QED
    BY <1>4, <2>1 DEF Effect, RenameEffect, Db
<1>5. CASE cmd.op \notin {"set", "mset", "del", "sadd", "rename"}
  BY <1>5 DEF Effect
<1> QED
  BY <1>1, <1>2, <1>3, <1>4, <1>5

\* dispatch() compares every owner with that of the first key.
LEMMA OneOwner ==
    ASSUME NEW cmd \in AllCommands, cmd.keys # <<>>, ~SpansShards(cmd)
    PROVE  /\ cmd.keys[1] \in Keys
           /\ \A k \in KeysOf(cmd) : Owner[k] = Owner[cmd.keys[1]]
<1>1. Len(cmd.keys) \in Nat \ {0}
  BY CommandKeys, EmptySeq
<1>2. cmd.keys[1] \in KeysOf(cmd)
  BY <1>1 DEF KeysOf
<1> QED
  BY <1>2, CommandKeys DEF SpansShards

\* Executing a command at the owner of its keys keeps every key at its owner.
LEMMA ExecOwnership ==
    ASSUME TypeOK, Ownership, NEW s \in Shards, NEW cmd \in AllCommands,
           \A k \in KeysOf(cmd) : Owner[k] = s,
           db' = [db EXCEPT ![s] = Effect(cmd, @)]
    PROVE  Ownership'
<1> SUFFICES ASSUME NEW r \in Shards, NEW k \in Keys, db'[r][k] # NoKey
             PROVE  Owner[k] = r
  BY DEF Ownership
<1>1. CASE r # s
  BY <1>1 DEF Ownership, TypeOK
<1>2. CASE r = s /\ k \in KeysOf(cmd)
  BY <1>2
<1>3. CASE r = s /\ k \notin KeysOf(cmd)
  <2>1. db[s] \in Db /\ db'[s] = Effect(cmd, db[s])
    BY DEF TypeOK
  <2>2. db'[s][k] = db[s][k]
    BY <1>3, <2>1, EffectLocal
  <2> QED
    BY <1>3, <2>2 DEF Ownership
<1> QED
  BY <1>1, <1>2, <1>3

\* The task at the head of a running batch.
LEMMA RunningTask ==
    ASSUME TypeOK, TasksAddressed, NEW s \in Shards, NEW type, Running(s, type)
    PROVE  /\ Head(batch[s]) \in Task /\ Head(batch[s]).type = type
           /\ Addressed(Head(batch[s]), s)
           /\ \A i \in 1 .. Len(batch'[s]) : Addressed(batch'[s][i], s)
           /\ \A r \in Shards \ {s} : batch'[r] = batch[r]
           /\ batch[s] # <<>> /\ outbox[s] = <<>> /\ batch'[s] = Tail(batch[s])
<1>1. /\ batch[s] # <<>> /\ batch[s] \in Seq(Task) /\ outbox[s] = <<>>
      /\ batch' = [batch EXCEPT ![s] = Tail(@)] /\ Head(batch[s]).type = type
  BY DEF Running, TypeOK
<1>2. Head(batch[s]) \in Task
  BY <1>1, HeadTailProperties
<1>3. \A i \in 1 .. Len(batch[s]) : Addressed(batch[s][i], s)
  BY DEF TasksAddressed
<1> DEFINE P(t) == Addressed(t, s)
<1>4. \A i \in 1 .. Len(batch[s]) : P(batch[s][i])
  BY <1>3
<1> HIDE DEF P
<1>5. P(Head(batch[s])) /\ \A i \in 1 .. Len(Tail(batch[s])) : P(Tail(batch[s])[i])
  BY <1>1, <1>4, TailAll
<1>6. batch'[s] = Tail(batch[s]) /\ \A r \in Shards \ {s} : batch'[r] = batch[r]
  BY <1>1 DEF TypeOK
<1> QED
  BY <1>1, <1>2, <1>5, <1>6 DEF P

\* Steps that leave mailboxes and batches alone and post nothing, or post tasks
\* to the shards they are for.
LEMMA OutboxAddressed ==
    ASSUME TypeOK, TasksAddressed, NEW s \in Shards, NEW q,
           \A i \in 1 .. Len(q) : Addressed(q[i].task, q[i].to),
           outbox' = [outbox EXCEPT ![s] = q], UNCHANGED <<mailbox, batch>>
    PROVE  TasksAddressed'
<1>1. /\ \A r \in Shards : outbox'[r] = IF r = s THEN q ELSE outbox[r]
      /\ mailbox' = mailbox /\ batch' = batch
  BY DEF TypeOK
<1> QED
  BY <1>1 DEF TasksAddressed, Addressed

\* dispatch() forwards requests to the owners of their keys only.
LEMMA DispatchAddressed ==
    ASSUME TypeOK, TasksAddressed, NEW s \in Shards, NEW c \in Conns, Dispatch(s, c)
    PROVE  TasksAddressed'
<1> DEFINE cmd == Head(in[c])
<1>0. ASSUME UNCHANGED <<mailbox, batch, outbox>> PROVE TasksAddressed'
  BY <1>0 DEF TasksAddressed, Addressed
<1>1. CASE ProtocolError(s, c)
  BY <1>0, <1>1 DEF ProtocolError
<1>2. CASE DispatchKeyless(s, c)
  BY <1>0, <1>2 DEF DispatchKeyless, Dispatching
<1>3. CASE DispatchFlushall(s, c)
  <2>1. outbox' = [outbox EXCEPT ![s] = FlushPosts(s)] /\ UNCHANGED <<mailbox, batch>>
    BY <1>3 DEF DispatchFlushall, Dispatching
  <2>2. \A i \in 1 .. Len(FlushPosts(s)) : Addressed(FlushPosts(s)[i].task, FlushPosts(s)[i].to)
    BY FlushPostsType DEF Addressed, FlushTask
  <2> QED
    BY <2>1, <2>2, OutboxAddressed
<1>4. CASE DispatchLocal(s, c)
  BY <1>0, <1>4 DEF DispatchLocal, Dispatching
<1>5. CASE DispatchForward(s, c)
  <2> DEFINE t == ExecTask(c, next_seq[c], 1, FALSE, cmd)
             o == Owner[cmd.keys[1]]
  <2>1. /\ outbox' = [outbox EXCEPT ![s] = <<To(o, t)>>] /\ UNCHANGED <<mailbox, batch>>
        /\ cmd.keys # <<>> /\ ~SpansShards(cmd) /\ Dispatching(s, c)
    BY <1>5 DEF DispatchForward, Dispatching
  <2>2. cmd \in AllCommands
    BY <2>1, DispatchingType
  <2> HIDE DEF cmd
  <2>3. \A k \in KeysOf(cmd) : Owner[k] = o
    BY <2>1, <2>2, OneOwner
  <2>4. t.type = "exec" /\ t.cmd = cmd
    BY DEF ExecTask
  <2> HIDE DEF t, o
  <2>5. Addressed(t, o)
    BY <2>3, <2>4 DEF Addressed
  <2> DEFINE q == <<To(o, t)>>
  <2>6. \A i \in 1 .. Len(q) : Addressed(q[i].task, q[i].to)
    BY <2>5 DEF To
  <2>7. outbox' = [outbox EXCEPT ![s] = q]
    BY <2>1
  <2> HIDE DEF q
  <2> QED
    BY <2>1, <2>6, <2>7, OutboxAddressed
<1>6. CASE DispatchMultikey(s, c)
  <2>0. PICK whole \in ReadPairs(cmd) :
            outbox' = [outbox EXCEPT ![s] = Fragments(c, next_seq[c], whole)]
    BY <1>6 DEF DispatchMultikey
  <2> DEFINE q == Fragments(c, next_seq[c], whole)
  <2>1. /\ outbox' = [outbox EXCEPT ![s] = q] /\ UNCHANGED <<mailbox, batch>>
        /\ Dispatching(s, c)
    BY <1>6, <2>0 DEF DispatchMultikey, Dispatching
  <2>2. cmd \in AllCommands /\ next_seq[c] \in Nat
    BY <2>1, DispatchingType
  <2> HIDE DEF cmd
  <2>4. whole \in AllCommands /\ WholePairs(whole)
    BY <2>0, <2>2, ReadPairsType
  <2>3. \A i \in 1 .. Len(q) : Addressed(q[i].task, q[i].to)
    <3>1. /\ Len(q) = Len(whole.keys)
          /\ \A i \in 1 .. Len(whole.keys) : /\ q[i].to = Owner[whole.keys[i]]
                                             /\ q[i].task.type = "exec"
                                             /\ q[i].task.cmd = SubCommand(whole, i)
      BY <2>2, <2>4, FragmentsType
    <3>2. \A i \in 1 .. Len(whole.keys) : KeysOf(SubCommand(whole, i)) = {whole.keys[i]}
      BY <2>4, SubCommandType
    <3> HIDE DEF q
    <3> QED
      BY <3>1, <3>2 DEF Addressed
  <2> HIDE DEF q
  <2> QED
    BY <2>1, <2>3, OutboxAddressed
<1>7. CASE DispatchCrossslot(s, c)
  BY <1>0, <1>7 DEF DispatchCrossslot, Dispatching
<1> QED
  BY <1>1, <1>2, <1>3, <1>4, <1>5, <1>6, <1>7 DEF Dispatch

\* Pushing, draining and running tasks moves none to the wrong shard, and the
\* completion of a request goes to the home of its connection.
LEMMA ShardAddressed ==
    ASSUME TypeOK, TasksAddressed, NEW s \in Shards,
           Post(s) \/ Drain(s) \/ RunTask(s)
    PROVE  TasksAddressed'
<1>1. CASE Post(s)
  <2> DEFINE p == Head(outbox[s])
             P(x) == Addressed(x.task, x.to)
             Q(t) == Addressed(t, p.to)
  <2>1. /\ outbox[s] # <<>> /\ outbox[s] \in Seq([to : Shards, task : Task])
        /\ mailbox' = [mailbox EXCEPT ![p.to] = Append(@, p.task)]
        /\ outbox'  = [outbox EXCEPT ![s] = Tail(@)]
        /\ batch' = batch
    BY <1>1 DEF Post, TypeOK
  <2>2. p \in [to : Shards, task : Task]
    BY <2>1, HeadTailProperties
  <2>3. p.to \in Shards /\ p.task \in Task
    BY <2>2
  <2>4. \A i \in 1 .. Len(outbox[s]) : P(outbox[s][i])
    BY DEF TasksAddressed
  <2>5. P(p) /\ \A i \in 1 .. Len(Tail(outbox[s])) : P(Tail(outbox[s])[i])
    <3> HIDE DEF P
    <3> QED
      BY <2>1, <2>4, TailAll
  <2> HIDE DEF p
  <2>6. /\ \A i \in 1 .. Len(mailbox[p.to]) : Q(mailbox[p.to][i])
        /\ Q(p.task) /\ mailbox[p.to] \in Seq(Task)
    BY <2>3, <2>5 DEF TasksAddressed, TypeOK
  <2>7. \A i \in 1 .. Len(Append(mailbox[p.to], p.task)) : Q(Append(mailbox[p.to], p.task)[i])
    <3> HIDE DEF Q
    <3> QED
      BY <2>3, <2>6, AppendAll
  <2>8. /\ \A r \in Shards : mailbox'[r] = IF r = p.to THEN Append(mailbox[p.to], p.task)
                                                       ELSE mailbox[r]
        /\ \A r \in Shards : outbox'[r] = IF r = s THEN Tail(outbox[s]) ELSE outbox[r]
    BY <2>1, <2>3 DEF TypeOK
  <2> QED
    <3>1. \A r \in Shards : \A i \in 1 .. Len(mailbox'[r]) : Addressed(mailbox'[r][i], r)
      BY <2>7, <2>8 DEF TasksAddressed
    <3>2. \A r \in Shards : \A i \in 1 .. Len(outbox'[r]) :
             Addressed(outbox'[r][i].task, outbox'[r][i].to)
      BY <2>5, <2>8 DEF TasksAddressed
    <3>3. \A r \in Shards : \A i \in 1 .. Len(batch'[r]) : Addressed(batch'[r][i], r)
      BY <2>1 DEF TasksAddressed
    <3> QED
      BY <3>1, <3>2, <3>3 DEF TasksAddressed
<1>2. CASE Drain(s)
  <2>1. /\ \A r \in Shards : mailbox'[r] = IF r = s THEN <<>> ELSE mailbox[r]
        /\ \A r \in Shards : batch'[r] = IF r = s THEN mailbox[s] ELSE batch[r]
        /\ outbox' = outbox /\ Len(<<>>) = 0
    BY <1>2 DEF Drain, TypeOK
  <2> QED
    BY <2>1 DEF TasksAddressed, Addressed
<1>3. ASSUME NEW type, Running(s, type), UNCHANGED <<mailbox, outbox>>
      PROVE  TasksAddressed'
  <2>1. /\ \A i \in 1 .. Len(batch'[s]) : Addressed(batch'[s][i], s)
        /\ \A r \in Shards \ {s} : batch'[r] = batch[r]
    BY <1>3, RunningTask
  <2> QED
    BY <1>3, <2>1 DEF TasksAddressed, Addressed
<1>4. CASE RunExec(s)
  <2> DEFINE t     == Head(batch[s])
             reply == Answer(t.cmd, db[s])
             val   == IF t.is_int THEN ParseRespInteger(reply) ELSE 0
             done  == DoneTask(t.conn, t.seq, t.index, t.is_int, reply, val)
             q     == <<To(Home[t.conn], done)>>
  <2>1. /\ Running(s, "exec") /\ mailbox' = mailbox
        /\ outbox' = [outbox EXCEPT ![s] = q]
    BY <1>4 DEF RunExec
  <2>2. /\ \A i \in 1 .. Len(batch'[s]) : Addressed(batch'[s][i], s)
        /\ \A r \in Shards \ {s} : batch'[r] = batch[r]
    BY <2>1, RunningTask
  <2>3. done.type = "done" /\ done.conn = t.conn
    BY DEF DoneTask
  <2> HIDE DEF done, t
  <2>4. \A i \in 1 .. Len(q) : Addressed(q[i].task, q[i].to)
    BY <2>3 DEF To, Addressed
  <2> HIDE DEF q
  <2>5. \A r \in Shards : outbox'[r] = IF r = s THEN q ELSE outbox[r]
    BY <2>1 DEF TypeOK
  <2> QED
    <3>1. \A r \in Shards : \A i \in 1 .. Len(mailbox'[r]) : Addressed(mailbox'[r][i], r)
      BY <2>1 DEF TasksAddressed
    <3>2. \A r \in Shards : \A i \in 1 .. Len(outbox'[r]) :
             Addressed(outbox'[r][i].task, outbox'[r][i].to)
      BY <2>4, <2>5 DEF TasksAddressed
    <3>3. \A r \in Shards : \A i \in 1 .. Len(batch'[r]) : Addressed(batch'[r][i], r)
      BY <2>2 DEF TasksAddressed
    <3> QED
      BY <3>1, <3>2, <3>3 DEF TasksAddressed
<1>5. CASE RunFlush(s)
  BY <1>3, <1>5 DEF RunFlush
<1>6. CASE RunDone(s)
  BY <1>3, <1>6 DEF RunDone
<1>7. CASE DropDone(s)
  BY <1>3, <1>7 DEF DropDone
<1> QED
  BY <1>1, <1>2, <1>4, <1>5, <1>6, <1>7 DEF RunTask

\* Tasks stay with the shard they are for.
LEMMA StepAddressed ==
    ASSUME TypeOK, TasksAddressed, Next
    PROVE  TasksAddressed'
<1>0. ASSUME UNCHANGED <<mailbox, batch, outbox>> PROVE TasksAddressed'
  BY <1>0 DEF TasksAddressed, Addressed
<1>1. ASSUME NEW c \in Conns,
             Accept(c) \/ HandleReadable(c) \/ HandleWritable(c) \/ HandleError(c)
      PROVE  TasksAddressed'
  BY <1>0, <1>1 DEF Accept, HandleReadable, HandleWritable, HandleError
<1>2. ASSUME NEW s \in Shards, NEW c \in Conns, FinishReadable(s, c)
      PROVE  TasksAddressed'
  BY <1>0, <1>2 DEF FinishReadable
<1> QED
  BY <1>1, <1>2, DispatchAddressed, ShardAddressed DEF Next

-----------------------------------------------------------------------------
(* Where keys live.                                                        *)

\* Only a command executed at the owner of its keys stores anything.
LEMMA StepOwnership ==
    ASSUME TypeOK, Ownership, TasksAddressed, Next
    PROVE  Ownership'
<1>0. ASSUME UNCHANGED db PROVE Ownership'
  BY <1>0 DEF Ownership
<1>1. ASSUME NEW s \in Shards, db' = [db EXCEPT ![s] = EmptyDb] PROVE Ownership'
  BY <1>1 DEF Ownership, TypeOK, EmptyDb
<1>2. ASSUME NEW c \in Conns,
             Accept(c) \/ HandleReadable(c) \/ HandleWritable(c) \/ HandleError(c)
      PROVE  Ownership'
  BY <1>0, <1>2 DEF Accept, HandleReadable, HandleWritable, HandleError
<1>3. ASSUME NEW s \in Shards, NEW c \in Conns, FinishReadable(s, c)
      PROVE  Ownership'
  BY <1>0, <1>3 DEF FinishReadable
<1>4. ASSUME NEW s \in Shards, NEW c \in Conns, Dispatch(s, c)
      PROVE  Ownership'
  <2>1. CASE DispatchLocal(s, c)
    <3> DEFINE cmd == Head(in[c])
    <3>1. /\ Dispatching(s, c) /\ cmd.keys # <<>> /\ ~SpansShards(cmd)
          /\ Owner[cmd.keys[1]] = s
          /\ db' = [db EXCEPT ![s] = Effect(cmd, @)]
      BY <2>1 DEF DispatchLocal
    <3>2. cmd \in AllCommands
      BY <3>1, DispatchingType
    <3> HIDE DEF cmd
    <3>3. \A k \in KeysOf(cmd) : Owner[k] = s
      BY <3>1, <3>2, OneOwner
    <3> QED
      BY <3>1, <3>2, <3>3, ExecOwnership
  <2>2. CASE DispatchFlushall(s, c)
    BY <2>2, <1>1 DEF DispatchFlushall
  <2>3. CASE ~DispatchLocal(s, c) /\ ~DispatchFlushall(s, c)
    BY <1>0, <1>4, <2>3 DEF Dispatch, ProtocolError, DispatchKeyless, DispatchForward,
                            DispatchMultikey, DispatchCrossslot
  <2> QED
    BY <2>1, <2>2, <2>3
<1>5. ASSUME NEW s \in Shards, Post(s) \/ Drain(s) PROVE Ownership'
  BY <1>0, <1>5 DEF Post, Drain
<1>6. ASSUME NEW s \in Shards, RunTask(s) PROVE Ownership'
  <2>1. CASE RunExec(s)
    <3> DEFINE t == Head(batch[s])
    <3>1. Running(s, "exec") /\ db' = [db EXCEPT ![s] = Effect(t.cmd, @)]
      BY <2>1 DEF RunExec
    <3>2. t \in Task /\ t.type = "exec" /\ Addressed(t, s)
      BY <3>1, RunningTask
    <3>3. t.cmd \in AllCommands
      BY <3>2 DEF Task, Exec, Done, FlushTask
    <3> HIDE DEF t
    <3>4. \A k \in KeysOf(t.cmd) : Owner[k] = s
      BY <3>2 DEF Addressed
    <3> QED
      BY <3>1, <3>3, <3>4, ExecOwnership
  <2>2. CASE RunFlush(s)
    BY <2>2, <1>1 DEF RunFlush
  <2>3. CASE RunDone(s) \/ DropDone(s)
    BY <2>3, <1>0 DEF RunDone, DropDone
  <2> QED
    BY <1>6, <2>1, <2>2, <2>3 DEF RunTask
<1> QED
  BY <1>2, <1>3, <1>4, <1>5, <1>6 DEF Next

-----------------------------------------------------------------------------
(* One handler at a time.                                                  *)

\* Writing output and settling one connection leaves the others' status alone.
LEMMA SettleStatus ==
    ASSUME TypeOK, NEW c \in Conns, NEW p, NEW o, Len(o) \in Nat, WriteAndSettle(c, p, o)
    PROVE  \A d \in Conns \ {c} : status'[d] = status[d]
<1>1. closing[c] \in BOOLEAN
  BY DEF TypeOK
<1>2. CloseConn(c) \/ status' = status
  BY <1>1, SettleCases
<1> QED
  BY <1>2 DEF CloseConn, TypeOK

\* No handler starts while another one of the same shard is under way, and only
\* the home shard of a connection closes it.
LEMMA StepOneHandler ==
    ASSUME TypeOK, TasksAddressed, OneHandlerAtATime, Next
    PROVE  OneHandlerAtATime'
<1>00. ASSUME NEW c \in Conns, NEW s \in Shards, Home[c] = s,
             \A r \in Shards \ {s} : busy'[r] = busy[r] /\ batch'[r] = batch[r],
             busy'[s] = NoConn,
             \A d \in Conns \ {c} : status'[d] = status[d]
      PROVE  OneHandlerAtATime'
  <2> SUFFICES ASSUME NEW r \in Shards, busy'[r] # NoConn
               PROVE  Home[busy'[r]] = r /\ status'[busy'[r]] = "open" /\ batch'[r] = <<>>
    BY DEF OneHandlerAtATime
  <2>1. r # s /\ busy'[r] = busy[r] /\ batch'[r] = batch[r]
    BY <1>00
  <2>2. Home[busy[r]] = r /\ status[busy[r]] = "open" /\ batch[r] = <<>> /\ busy[r] \in Conns
    BY <2>1 DEF OneHandlerAtATime, TypeOK
  <2>3. busy[r] # c
    BY <1>00, <2>1, <2>2
  <2> QED
    BY <1>00, <2>1, <2>2, <2>3
<1>0. ASSUME NEW c \in Conns, busy[Home[c]] = NoConn, busy' = busy, batch' = batch,
             \A d \in Conns \ {c} : status'[d] = status[d]
      PROVE  OneHandlerAtATime'
  <2>1. Home[c] \in Shards
    BY ShardAssumption DEF ShardAssumption
  <2> QED
    BY <1>0, <1>00, <2>1
<1>1. ASSUME NEW c \in Conns, Accept(c) PROVE OneHandlerAtATime'
  BY <1>0, <1>1 DEF Accept, Idle, TypeOK
<1>2. ASSUME NEW c \in Conns, HandleReadable(c) PROVE OneHandlerAtATime'
  <2>1. /\ status[c] = "open" /\ Idle(Home[c]) /\ status' = status /\ batch' = batch
        /\ busy' = [busy EXCEPT ![Home[c]] = c]
    BY <1>2 DEF HandleReadable
  <2> QED
    BY <2>1 DEF OneHandlerAtATime, TypeOK, Idle
<1>3. ASSUME NEW c \in Conns, HandleWritable(c) PROVE OneHandlerAtATime'
  <2>1. /\ Idle(Home[c]) /\ WriteAndSettle(c, pipeline[c], out[c])
        /\ busy' = busy /\ batch' = batch
    BY <1>3 DEF HandleWritable
  <2>2. Len(out[c]) \in Nat
    BY LenProperties DEF TypeOK
  <2>3. \A d \in Conns \ {c} : status'[d] = status[d]
    BY <2>1, <2>2, SettleStatus
  <2> QED
    BY <1>0, <2>1, <2>3 DEF Idle
<1>4. ASSUME NEW c \in Conns, HandleError(c) PROVE OneHandlerAtATime'
  BY <1>0, <1>4 DEF HandleError, CloseConn, Idle, TypeOK
<1>5. ASSUME NEW s \in Shards, NEW c \in Conns, FinishReadable(s, c)
      PROVE  OneHandlerAtATime'
  <2> DEFINE o == out[c] \o Flushed(pipeline[c])
  <2>1. /\ busy[s] = c /\ WriteAndSettle(c, Unflushed(pipeline[c]), o)
        /\ busy' = [busy EXCEPT ![s] = NoConn] /\ batch' = batch
    BY <1>5 DEF FinishReadable
  <2>2. Len(o) \in Nat
    <3>1. pipeline[c] \in Seq(Slot) /\ out[c] \in Seq(SentReply)
      BY DEF TypeOK
    <3>2. o \in Seq(SentReply)
      BY <3>1, FlushSeq, ConcatProperties
    <3> QED
      BY <3>2, LenProperties
  <2>3. \A d \in Conns \ {c} : status'[d] = status[d]
    <3> HIDE DEF o
    <3> QED
      BY <2>1, <2>2, SettleStatus
  <2>4. c # NoConn /\ Home[c] = s
    BY <2>1, ShardAssumption DEF ShardAssumption, OneHandlerAtATime
  <2> QED
    BY <2>1, <2>3, <2>4, <1>00 DEF TypeOK
<1>6. ASSUME NEW s \in Shards, UNCHANGED <<busy, status>>,
             \A r \in Shards \ {s} : batch'[r] = batch[r],
             busy[s] = NoConn \/ batch'[s] = batch[s]
      PROVE  OneHandlerAtATime'
  BY <1>6 DEF OneHandlerAtATime
<1>7. ASSUME NEW s \in Shards, NEW c \in Conns, Dispatch(s, c)
      PROVE  OneHandlerAtATime'
  <2>1. UNCHANGED <<busy, status, batch>>
    BY <1>7 DEF Dispatch, ProtocolError, DispatchKeyless, DispatchFlushall, DispatchLocal,
                DispatchForward, DispatchMultikey, DispatchCrossslot, Dispatching
  <2> QED
    BY <2>1, <1>6
<1>8. ASSUME NEW s \in Shards, Post(s) PROVE OneHandlerAtATime'
  BY <1>6, <1>8 DEF Post
<1>9. ASSUME NEW s \in Shards, Drain(s) PROVE OneHandlerAtATime'
  <2>1. UNCHANGED <<busy, status>> /\ busy[s] = NoConn /\ \A r \in Shards \ {s} : batch'[r] = batch[r]
    BY <1>9 DEF Drain, Idle, TypeOK
  <2> QED
    BY <2>1, <1>6
<1>10. ASSUME NEW s \in Shards, RunTask(s) PROVE OneHandlerAtATime'
  <2>1. ASSUME NEW type, Running(s, type)
        PROVE  busy[s] = NoConn /\ \A r \in Shards \ {s} : batch'[r] = batch[r]
    BY <2>1, RunningTask DEF OneHandlerAtATime
  <2>2. CASE RunExec(s) \/ RunFlush(s) \/ DropDone(s)
    BY <1>6, <2>1, <2>2 DEF RunExec, RunFlush, DropDone
  <2>3. CASE RunDone(s)
    <3> DEFINE t == Head(batch[s])
               p == Completed(pipeline[t.conn], t)
               o == out[t.conn] \o Flushed(p)
    <3>1. Running(s, "done") /\ WriteAndSettle(t.conn, Unflushed(p), o) /\ busy' = busy
      BY <2>3 DEF RunDone
    <3>2. /\ t \in Task /\ t.type = "done" /\ Addressed(t, s)
          /\ \A r \in Shards \ {s} : batch'[r] = batch[r]
      BY <3>1, RunningTask
    <3>3. t \in Done /\ t.conn \in Conns /\ Home[t.conn] = s
      BY <3>2 DEF Task, Exec, Done, FlushTask, Addressed
    <3> HIDE DEF t
    <3>4. Len(o) \in Nat
      <4>1. pipeline[t.conn] \in Seq(Slot) /\ out[t.conn] \in Seq(SentReply)
        BY <3>3 DEF TypeOK
      <4>2. p \in Seq(Slot)
        BY <3>3, <4>1, CompletedType
      <4> HIDE DEF p
      <4>3. o \in Seq(SentReply)
        BY <4>1, <4>2, FlushSeq, ConcatProperties
      <4> QED
        BY <4>3, LenProperties
    <3> HIDE DEF o, p
    <3>5. \A d \in Conns \ {t.conn} : status'[d] = status[d]
      BY <3>1, <3>3, <3>4, SettleStatus
    <3>6. busy[s] = NoConn
      BY <2>1, <3>1
    <3> QED
      BY <3>1, <3>2, <3>3, <3>5, <3>6, <1>00
  <2> QED
    BY <1>10, <2>2, <2>3 DEF RunTask
<1> QED
  BY <1>1, <1>2, <1>3, <1>4, <1>5, <1>7, <1>8, <1>9, <1>10 DEF Next

-----------------------------------------------------------------------------
(* Reply slots in order.                                                   *)

\* Two adjoining runs of sequence numbers make one.
LEMMA ConcatConsecutive ==
    ASSUME NEW S, NEW a \in Seq(S), NEW b \in Seq(S), NEW n \in Nat, NEW m,
           ConsecutiveFrom(a, n), m = n + Len(a), ConsecutiveFrom(b, m)
    PROVE  ConsecutiveFrom(a \o b, n) /\ Len(a \o b) = Len(a) + Len(b)
<1>1. /\ Len(a) \in Nat /\ Len(b) \in Nat /\ Len(a \o b) = Len(a) + Len(b)
      /\ \A i \in 1 .. Len(a) + Len(b) :
            (a \o b)[i] = IF i <= Len(a) THEN a[i] ELSE b[i - Len(a)]
  BY LenProperties, ConcatProperties
<1>2. ASSUME NEW i \in 1 .. Len(a) + Len(b) PROVE (a \o b)[i].seq = n + i - 1
  <2>1. CASE i <= Len(a)
    BY <1>1, <2>1 DEF ConsecutiveFrom
  <2>2. CASE i > Len(a)
    <3>1. i - Len(a) \in 1 .. Len(b)
      BY <1>1, <2>2
    <3>2. b[i - Len(a)].seq = n + Len(a) + (i - Len(a)) - 1
      BY <3>1 DEF ConsecutiveFrom
    <3>3. (a \o b)[i] = b[i - Len(a)]
      BY <1>1, <2>2
    <3> QED
      BY <1>1, <3>2, <3>3
  <2> QED
    BY <1>1, <2>1, <2>2
<1> QED
  BY <1>1, <1>2 DEF ConsecutiveFrom

\* A run of sequence numbers splits into two.
LEMMA SplitConsecutive ==
    ASSUME NEW S, NEW a \in Seq(S), NEW k \in 0 .. Len(a), NEW n \in Nat, ConsecutiveFrom(a, n)
    PROVE  /\ ConsecutiveFrom(SubSeq(a, 1, k), n)
           /\ ConsecutiveFrom(SubSeq(a, k + 1, Len(a)), n + k)
<1>1. Len(a) \in Nat
  BY LenProperties
<1>2. /\ Len(SubSeq(a, 1, k)) = k
      /\ \A i \in 1 .. k : SubSeq(a, 1, k)[i] = a[i]
      /\ Len(SubSeq(a, k + 1, Len(a))) = Len(a) - k
      /\ \A i \in 1 .. Len(a) - k : SubSeq(a, k + 1, Len(a))[i] = a[k + i]
  BY SplitSeq
<1>3. \A i \in 1 .. k : SubSeq(a, 1, k)[i].seq = n + i - 1
  BY <1>1, <1>2 DEF ConsecutiveFrom
<1>4. ASSUME NEW i \in 1 .. Len(a) - k
      PROVE  SubSeq(a, k + 1, Len(a))[i].seq = n + k + i - 1
  <2>1. k + i \in 1 .. Len(a) /\ k \in Nat /\ i \in Nat
    BY <1>1
  <2>2. a[k + i].seq = n + (k + i) - 1
    BY <2>1 DEF ConsecutiveFrom
  <2>3. n + (k + i) - 1 = n + k + i - 1
    BY <2>1
  <2> QED
    BY <1>2, <2>2, <2>3
<1> QED
  BY <1>2, <1>3, <1>4 DEF ConsecutiveFrom

\* flush_ready() moves a prefix of the pipeline to the end of the output.
LEMMA FlushConsecutive ==
    ASSUME NEW o \in Seq(SentReply), NEW p \in Seq(Slot), NEW n \in Nat,
           ConsecutiveFrom(o, n), ConsecutiveFrom(p, n + Len(o))
    PROVE  LET o2 == o \o Flushed(p)
               p2 == Unflushed(p)
           IN  /\ o2 \in Seq(SentReply) /\ p2 \in Seq(Slot)
               /\ ConsecutiveFrom(o2, n)
               /\ ConsecutiveFrom(p2, n + Len(o2))
               /\ Len(o2) + Len(p2) = Len(o) + Len(p)
<1> DEFINE k == ReadyCount(p)
           m == n + Len(o)
<1>1. /\ k \in 0 .. Len(p) /\ Len(o) \in Nat /\ Len(p) \in Nat
      /\ Unflushed(p) \in Seq(Slot) /\ Len(Unflushed(p)) = Len(p) - k
      /\ Flushed(p) \in Seq(SentReply) /\ Len(Flushed(p)) = k
      /\ \A i \in 1 .. k : Flushed(p)[i].seq = p[i].seq
  BY FlushSeq, LenProperties
<1>2. m \in Nat /\ k \in Nat /\ m = n + Len(o) /\ ConsecutiveFrom(p, m)
  BY <1>1
<1> HIDE DEF m
<1>3. ConsecutiveFrom(Flushed(p), m)
  BY <1>1, <1>2 DEF ConsecutiveFrom
<1>4. /\ o \o Flushed(p) \in Seq(SentReply)
      /\ ConsecutiveFrom(o \o Flushed(p), n)
      /\ Len(o \o Flushed(p)) = Len(o) + k
  <2>1. o \o Flushed(p) \in Seq(SentReply)
    BY <1>1, ConcatProperties
  <2> HIDE DEF k
  <2>2. ConsecutiveFrom(o \o Flushed(p), n) /\ Len(o \o Flushed(p)) = Len(o) + Len(Flushed(p))
    BY <1>1, <1>2, <1>3, ConcatConsecutive
  <2> QED
    BY <1>1, <2>1, <2>2
<1>5. ConsecutiveFrom(Unflushed(p), m + k)
  BY <1>1, <1>2, SplitConsecutive DEF Unflushed
<1>6. m + k = n + (Len(o) + k) /\ Len(o) + k + (Len(p) - k) = Len(o) + Len(p)
  BY <1>1, <1>2
<1> HIDE DEF k
<1> QED
  BY <1>1, <1>4, <1>5, <1>6

\* handle_writable() moves a prefix of the output to the client, and closing
\* drops the rest.
LEMMA SettleInOrder ==
    ASSUME TypeOK, SlotsInOrder, NEW c \in Conns, NEW p \in Seq(Slot), NEW o \in Seq(SentReply),
           WriteAndSettle(c, p, o), UNCHANGED next_seq,
           ConsecutiveFrom(o, Len(delivered[c])),
           ConsecutiveFrom(p, Len(delivered[c]) + Len(o)),
           status[c] # "closed" => next_seq[c] = Len(delivered[c]) + Len(o) + Len(p)
    PROVE  SlotsInOrder'
<1> DEFINE n == Len(delivered[c])
<1>1. /\ Len(o) \in Nat /\ closing[c] \in BOOLEAN /\ n \in Nat /\ Len(p) \in Nat
      /\ delivered[c] \in Seq(SentReply) /\ ConsecutiveFrom(delivered[c], 0)
  BY LenProperties DEF TypeOK, SlotsInOrder
<1>2. PICK k \in 0 .. Len(o), cl \in BOOLEAN :
        /\ delivered' = [delivered EXCEPT ![c] = @ \o SubSeq(o, 1, k)]
        /\ closing' = [closing EXCEPT ![c] = cl]
        /\ \/ CloseConn(c)
           \/ /\ pipeline' = [pipeline EXCEPT ![c] = p]
              /\ out' = [out EXCEPT ![c] = SubSeq(o, k + 1, Len(o))]
              /\ in' = [in EXCEPT ![c] = in[c]]
              /\ status' = status
  BY <1>1, SettleCases
<1>3. /\ SubSeq(o, 1, k) \in Seq(SentReply) /\ Len(SubSeq(o, 1, k)) = k
      /\ Len(SubSeq(o, k + 1, Len(o))) = Len(o) - k
      /\ ConsecutiveFrom(SubSeq(o, 1, k), n)
      /\ ConsecutiveFrom(SubSeq(o, k + 1, Len(o)), n + k)
  BY <1>1, SplitSeq, SplitConsecutive
<1> DEFINE d2 == delivered[c] \o SubSeq(o, 1, k)
<1>4. ConsecutiveFrom(d2, 0) /\ Len(d2) = n + k
  <2>1. n = 0 + Len(delivered[c])
    BY <1>1
  <2>2. ConsecutiveFrom(SubSeq(o, 1, k), n)
    BY <1>3
  <2>3. Len(delivered[c]) = n
    OBVIOUS
  <2> HIDE DEF n
  <2> QED
    BY <1>1, <1>3, <2>1, <2>2, <2>3, ConcatConsecutive
<1>5. delivered'[c] = d2
  BY <1>2 DEF TypeOK
<1>6. ASSUME NEW b \in Conns, b # c
      PROVE  /\ delivered'[b] = delivered[b] /\ out'[b] = out[b] /\ pipeline'[b] = pipeline[b]
             /\ status'[b] = status[b]
  BY <1>2, <1>6 DEF CloseConn, TypeOK
<1> DEFINE Good(b) == /\ ConsecutiveFrom(delivered'[b], 0)
                      /\ ConsecutiveFrom(out'[b], Len(delivered'[b]))
                      /\ ConsecutiveFrom(pipeline'[b], Len(delivered'[b]) + Len(out'[b]))
                      /\ status'[b] # "closed" => next_seq'[b] = Len(delivered'[b]) + Len(out'[b])
                                                                  + Len(pipeline'[b])
<1>7. ASSUME NEW b \in Conns, b # c PROVE Good(b)
  BY <1>6, <1>7 DEF SlotsInOrder
<1>8. Good(c)
  <2>1. CASE CloseConn(c)
    <3>1. out'[c] = <<>> /\ pipeline'[c] = <<>> /\ status'[c] = "closed"
      BY <2>1 DEF CloseConn, TypeOK
    <3>2. \A m : ConsecutiveFrom(<<>>, m)
      BY DEF ConsecutiveFrom
    <3> QED
      BY <1>4, <1>5, <3>1, <3>2
  <2>2. CASE /\ pipeline' = [pipeline EXCEPT ![c] = p]
             /\ out' = [out EXCEPT ![c] = SubSeq(o, k + 1, Len(o))]
             /\ status' = status
    <3>1. out'[c] = SubSeq(o, k + 1, Len(o)) /\ pipeline'[c] = p /\ status'[c] = status[c]
      BY <2>2 DEF TypeOK
    <3>2. Len(delivered'[c]) = n + k /\ Len(out'[c]) = Len(o) - k
      BY <1>3, <1>4, <1>5, <3>1
    <3>3. n + k + (Len(o) - k) = n + Len(o)
      BY <1>1
    <3> HIDE DEF n, d2
    <3> QED
      BY <1>3, <1>4, <1>5, <3>1, <3>2, <3>3 DEF n
  <2> QED
    BY <1>2, <2>1, <2>2
<1> QED
  BY <1>7, <1>8 DEF SlotsInOrder, ConsecutiveFrom

\* dispatch() opens the next slot at the end of the pipeline.
LEMMA SubmitInOrder ==
    ASSUME TypeOK, SlotsInOrder, NEW c \in Conns, NEW slot \in Slot, slot.seq = next_seq[c],
           status[c] = "open", Submit(c, slot), UNCHANGED <<status, out, delivered>>
    PROVE  SlotsInOrder'
<1> DEFINE n == Len(delivered[c]) + Len(out[c])
           p == pipeline[c]
<1>1. /\ n \in Nat /\ p \in Seq(Slot) /\ Len(p) \in Nat /\ ConsecutiveFrom(p, n)
      /\ next_seq[c] = n + Len(p)
  <2>1. /\ Len(delivered[c]) \in Nat /\ Len(out[c]) \in Nat
        /\ p \in Seq(Slot) /\ Len(p) \in Nat
    BY LenProperties DEF TypeOK
  <2>2. /\ ConsecutiveFrom(p, n)
        /\ status[c] # "closed" => next_seq[c] = n + Len(p)
    BY Zenon DEF SlotsInOrder
  <2>3. n \in Nat
    <3>1. \A x, y \in Nat : x + y \in Nat
      OBVIOUS
    <3> QED
      BY <2>1, <3>1, Zenon
  <2> HIDE DEF n, p
  <2> QED
    BY <2>1, <2>2, <2>3
<1>2. /\ Len(Append(p, slot)) = Len(p) + 1
      /\ \A i \in 1 .. Len(p) : Append(p, slot)[i] = p[i]
      /\ Append(p, slot)[Len(p) + 1] = slot
  BY <1>1, AppendProperties
<1>3. ConsecutiveFrom(Append(p, slot), n)
  <2> SUFFICES ASSUME NEW i \in 1 .. Len(p) + 1 PROVE Append(p, slot)[i].seq = n + i - 1
    BY <1>2 DEF ConsecutiveFrom
  <2> HIDE DEF n, p
  <2>1. CASE i \in 1 .. Len(p)
    BY <1>1, <1>2, <2>1 DEF ConsecutiveFrom
  <2>2. CASE i = Len(p) + 1
    BY <1>1, <1>2, <2>2
  <2> QED
    BY <1>1, <2>1, <2>2
<1>4. /\ pipeline'[c] = Append(p, slot) /\ next_seq'[c] = next_seq[c] + 1
      /\ \A b \in Conns \ {c} : pipeline'[b] = pipeline[b] /\ next_seq'[b] = next_seq[b]
  BY DEF Submit, TypeOK
<1>5. next_seq'[c] = n + Len(Append(p, slot))
  <2> HIDE DEF n, p
  <2> QED
    BY <1>1, <1>2, <1>4
<1>6. ASSUME NEW b \in Conns
      PROVE  /\ ConsecutiveFrom(delivered'[b], 0)
             /\ ConsecutiveFrom(out'[b], Len(delivered'[b]))
             /\ ConsecutiveFrom(pipeline'[b], Len(delivered'[b]) + Len(out'[b]))
             /\ status'[b] # "closed" => next_seq'[b] = Len(delivered'[b]) + Len(out'[b])
                                                         + Len(pipeline'[b])
  <2>1. CASE b # c
    BY <1>4, <2>1 DEF SlotsInOrder
  <2>2. CASE b = c
    <3>1. Len(delivered'[c]) + Len(out'[c]) = n
      OBVIOUS
    <3>2. ConsecutiveFrom(delivered'[c], 0) /\ ConsecutiveFrom(out'[c], Len(delivered'[c]))
      BY DEF SlotsInOrder
    <3> HIDE DEF n, p
    <3> QED
      BY <1>3, <1>4, <1>5, <2>2, <3>1, <3>2
  <2> QED
    BY <2>1, <2>2
<1> QED
  BY <1>6 DEF SlotsInOrder, ConsecutiveFrom

\* No step loses, repeats or reorders a reply slot of an open connection.
LEMMA StepInOrder ==
    ASSUME TypeOK, OneHandlerAtATime, SlotsInOrder, Next
    PROVE  SlotsInOrder'
<1>0. ASSUME UNCHANGED <<delivered, out, pipeline, next_seq>>,
             \A c \in Conns : status[c] = "closed" => status'[c] = "closed"
      PROVE  SlotsInOrder'
  BY <1>0 DEF SlotsInOrder, ConsecutiveFrom
<1>1. ASSUME NEW c \in Conns
      PROVE  /\ pipeline[c] \in Seq(Slot) /\ out[c] \in Seq(SentReply)
             /\ Len(delivered[c]) \in Nat /\ Len(out[c]) \in Nat /\ Len(pipeline[c]) \in Nat
             /\ ConsecutiveFrom(out[c], Len(delivered[c]))
             /\ ConsecutiveFrom(pipeline[c], Len(delivered[c]) + Len(out[c]))
             /\ status[c] # "closed" => next_seq[c] = Len(delivered[c]) + Len(out[c])
                                                        + Len(pipeline[c])
  <2>1. pipeline[c] \in Seq(Slot) /\ out[c] \in Seq(SentReply) /\ delivered[c] \in Seq(SentReply)
    BY DEF TypeOK
  <2>2. Len(delivered[c]) \in Nat /\ Len(out[c]) \in Nat /\ Len(pipeline[c]) \in Nat
    BY <2>1, LenProperties
  <2> QED
    BY <2>1, <2>2, Zenon DEF SlotsInOrder
<1>2. ASSUME NEW c \in Conns, NEW p \in Seq(Slot), UNCHANGED next_seq,
             Len(p) = Len(pipeline[c]),
             \A i \in 1 .. Len(p) : p[i].seq = pipeline[c][i].seq,
             WriteAndSettle(c, Unflushed(p), out[c] \o Flushed(p))
      PROVE  SlotsInOrder'
  <2> DEFINE n  == Len(delivered[c])
             o  == out[c]
             o2 == o \o Flushed(p)
             p2 == Unflushed(p)
  <2>1. n \in Nat /\ o \in Seq(SentReply) /\ ConsecutiveFrom(o, n) /\ Len(o) \in Nat
    BY <1>1
  <2>2. ConsecutiveFrom(p, n + Len(o))
    BY <1>1, <1>2 DEF ConsecutiveFrom
  <2>3. status[c] # "closed" => next_seq[c] = n + Len(o) + Len(p)
    BY <1>1, <1>2
  <2>4. WriteAndSettle(c, p2, o2)
    BY <1>2
  <2> HIDE DEF n, o
  <2>5. /\ o2 \in Seq(SentReply) /\ p2 \in Seq(Slot)
        /\ ConsecutiveFrom(o2, n)
        /\ ConsecutiveFrom(p2, n + Len(o2))
        /\ Len(o2) + Len(p2) = Len(o) + Len(p)
    BY <2>1, <2>2, FlushConsecutive
  <2> HIDE DEF o2, p2
  <2>6. Len(o2) \in Nat /\ Len(p2) \in Nat /\ Len(p) \in Nat
    BY <2>5, LenProperties
  <2>7. n + Len(o2) + Len(p2) = n + Len(o) + Len(p)
    <3> DEFINE v == Len(o2)  w == Len(p2)  x == Len(o)  y == Len(p)
    <3>1. v \in Nat /\ w \in Nat /\ x \in Nat /\ y \in Nat
      BY <2>1, <2>6
    <3>2. v + w = x + y
      BY <2>5
    <3> HIDE DEF v, w, x, y
    <3>3. n + v + w = n + x + y
      BY <2>1, <3>1, <3>2
    <3> QED
      BY <3>3 DEF v, w, x, y
  <2>8. /\ ConsecutiveFrom(o2, Len(delivered[c]))
        /\ ConsecutiveFrom(p2, Len(delivered[c]) + Len(o2))
        /\ status[c] # "closed" => next_seq[c] = Len(delivered[c]) + Len(o2) + Len(p2)
    BY <2>3, <2>5, <2>7, Zenon DEF n
  <2> QED
    BY <1>2, <2>4, <2>5, <2>8, SettleInOrder
<1>3. ASSUME NEW c \in Conns, Accept(c) PROVE SlotsInOrder'
  BY <1>0, <1>3 DEF Accept, TypeOK
<1>4. ASSUME NEW c \in Conns, HandleReadable(c) PROVE SlotsInOrder'
  BY <1>0, <1>4 DEF HandleReadable
<1>5. ASSUME NEW c \in Conns, HandleWritable(c) PROVE SlotsInOrder'
  <2>1. WriteAndSettle(c, pipeline[c], out[c]) /\ UNCHANGED next_seq
    BY <1>5 DEF HandleWritable
  <2> QED
    BY <1>1, <2>1, SettleInOrder
<1>6. ASSUME NEW c \in Conns, HandleError(c) PROVE SlotsInOrder'
  <2>1. /\ \A b \in Conns : out'[b] = IF b = c THEN <<>> ELSE out[b]
        /\ \A b \in Conns : pipeline'[b] = IF b = c THEN <<>> ELSE pipeline[b]
        /\ \A b \in Conns : status'[b] = IF b = c THEN "closed" ELSE status[b]
        /\ UNCHANGED <<delivered, next_seq>>
    BY <1>6 DEF HandleError, CloseConn, TypeOK
  <2>2. \A m : ConsecutiveFrom(<<>>, m)
    BY DEF ConsecutiveFrom
  <2>3. ASSUME NEW b \in Conns
        PROVE  /\ ConsecutiveFrom(delivered'[b], 0)
               /\ ConsecutiveFrom(out'[b], Len(delivered'[b]))
               /\ ConsecutiveFrom(pipeline'[b], Len(delivered'[b]) + Len(out'[b]))
               /\ status'[b] # "closed" => next_seq'[b] = Len(delivered'[b]) + Len(out'[b])
                                                           + Len(pipeline'[b])
    <3>1. CASE b # c
      BY <2>1, <3>1 DEF SlotsInOrder
    <3>2. CASE b = c
      BY <2>1, <2>2, <3>2 DEF SlotsInOrder
    <3> QED
      BY <3>1, <3>2
  <2> QED
    BY <2>3 DEF SlotsInOrder, ConsecutiveFrom
<1>7. ASSUME NEW s \in Shards, NEW c \in Conns, FinishReadable(s, c) PROVE SlotsInOrder'
  BY <1>1, <1>2, <1>7 DEF FinishReadable
<1>8. ASSUME NEW s \in Shards, NEW c \in Conns, Dispatch(s, c) PROVE SlotsInOrder'
  <2>1. /\ status[c] = "open" /\ next_seq[c] \in Nat /\ db[s] \in Db /\ in[c] # <<>>
        /\ UNCHANGED <<status, out, delivered>>
    <3>1. busy[s] = c /\ UNCHANGED <<status, out, delivered>> /\ in[c] # <<>>
      BY <1>8 DEF Dispatch, ProtocolError, DispatchKeyless, DispatchFlushall, DispatchLocal,
                  DispatchForward, DispatchMultikey, DispatchCrossslot, Dispatching, Parsing
    <3>2. c # NoConn
      BY ShardAssumption DEF ShardAssumption
    <3> QED
      BY <3>1, <3>2 DEF OneHandlerAtATime, TypeOK
  <2>2. Head(in[c]) \in AllCommands
    BY <2>1, HeadTailProperties DEF TypeOK
  <2>3. \E slot \in Slot : slot.seq = next_seq[c] /\ Submit(c, slot)
    <3> DEFINE cmd == Head(in[c])
    <3>1. Ok \in Reply /\ Err("CROSSSLOT") \in Reply /\ Err("PROTOCOL") \in Reply
      BY DEF Ok, Err, Reply, HandlerReply, ScalarReply, ErrorCodes
    <3>2. Answer(cmd, db[s]) \in Reply
      BY <2>1, <2>2, AnswerType DEF Reply
    <3>3. ASSUME NEW r \in Reply, Submit(c, ReadySlot(next_seq[c], r)) 
          PROVE  \E slot \in Slot : slot.seq = next_seq[c] /\ Submit(c, slot)
      BY <2>1, <3>3, NewSlotType
    <3>4. CASE DispatchForward(s, c)
      <4>1. Submit(c, PendingSlot(next_seq[c], "Single", 1)) /\ "Single" \in Kinds
        BY <3>4 DEF DispatchForward, Kinds
      <4> QED
        BY <2>1, <4>1, NewSlotType
    <3>5. CASE DispatchMultikey(s, c)
      <4>1. SpansShards(cmd) /\ Submit(c, PendingSlot(next_seq[c], SlotKind(cmd), Len(cmd.keys)))
        BY <3>5 DEF DispatchMultikey
      <4>2. SlotKind(cmd) \in Kinds
        BY DEF SlotKind, Kinds
      <4>3. Len(cmd.keys) \in Nat \ {0}
        <5> HIDE DEF cmd
        <5> QED
          BY <2>2, <4>1, CommandKeys DEF SpansShards, KeysOf, cmd
      <4> QED
        BY <2>1, <4>1, <4>2, <4>3, NewSlotType
    <3>6. CASE ~DispatchForward(s, c) /\ ~DispatchMultikey(s, c)
      <4>1. \E r \in Reply : Submit(c, ReadySlot(next_seq[c], r))
        <5> HIDE DEF Ok, Err
        <5> QED
          BY <1>8, <3>1, <3>2, <3>6 DEF Dispatch, ProtocolError, DispatchKeyless,
             DispatchFlushall, DispatchLocal, DispatchCrossslot
      <4> QED
        BY <3>3, <4>1
    <3> QED
      BY <3>4, <3>5, <3>6
  <2> QED
    BY <2>1, <2>3, SubmitInOrder
<1>9. ASSUME NEW s \in Shards, Post(s) \/ Drain(s) PROVE SlotsInOrder'
  BY <1>0, <1>9 DEF Post, Drain
<1>10. ASSUME NEW s \in Shards, RunExec(s) \/ RunFlush(s) \/ DropDone(s) PROVE SlotsInOrder'
  BY <1>0, <1>10 DEF RunExec, RunFlush, DropDone
<1>11. ASSUME NEW s \in Shards, RunDone(s) PROVE SlotsInOrder'
  <2> DEFINE t == Head(batch[s])
             p == Completed(pipeline[t.conn], t)
  <2>1. /\ batch[s] # <<>> /\ t.type = "done" /\ UNCHANGED next_seq
        /\ WriteAndSettle(t.conn, Unflushed(p), out[t.conn] \o Flushed(p))
    BY <1>11 DEF RunDone, Running
  <2>2. t \in Task
    BY <2>1, HeadTailProperties DEF TypeOK
  <2>3. t \in Done /\ t.conn \in Conns
    BY <2>1, <2>2 DEF Task, Exec, Done, FlushTask
  <2> HIDE DEF t
  <2>4. /\ p \in Seq(Slot) /\ Len(p) = Len(pipeline[t.conn])
        /\ \A i \in 1 .. Len(pipeline[t.conn]) : p[i].seq = pipeline[t.conn][i].seq
    BY <1>1, <2>3, CompletedType
  <2> HIDE DEF p
  <2> QED
    BY <1>2, <2>1, <2>3, <2>4
<1> QED
  BY <1>3, <1>4, <1>5, <1>6, <1>7, <1>8, <1>9, <1>10, <1>11 DEF Next, RunTask

-----------------------------------------------------------------------------
(* The theorems.                                                           *)

\* ShardInvariant holds initially and is kept by every step, for any number of
\* shards, connections, keys, requests and faults.
THEOREM Invariance == Spec => []ShardInvariant
<1>1. Init => ShardInvariant
  <2> SUFFICES ASSUME Init PROVE ShardInvariant
    OBVIOUS
  <2>1. TypeOK
    BY EmptySeq, ShardAssumption DEF Init, TypeOK, ShardAssumption, EmptyDb, Db
  <2>2. Len(<<>>) = 0
    OBVIOUS
  <2>3. Ownership
    BY DEF Init, Ownership, EmptyDb
  <2>4. TasksAddressed
    BY <2>2 DEF Init, TasksAddressed
  <2>5. OneHandlerAtATime
    BY DEF Init, OneHandlerAtATime
  <2>6. SlotsInOrder
    BY <2>2 DEF Init, SlotsInOrder, ConsecutiveFrom
  <2> QED
    BY <2>1, <2>3, <2>4, <2>5, <2>6 DEF ShardInvariant
<1>2. ShardInvariant /\ [Next]_vars => ShardInvariant'
  <2> SUFFICES ASSUME ShardInvariant, [Next]_vars PROVE ShardInvariant'
    OBVIOUS
  <2>1. TypeOK'
    BY StepType DEF ShardInvariant
  <2>2. CASE Next
    BY <2>1, <2>2, StepAddressed, StepOwnership, StepOneHandler, StepInOrder DEF ShardInvariant
  <2>3. CASE UNCHANGED vars
    <3>1. Ownership' /\ OneHandlerAtATime'
      BY <2>3 DEF vars, ShardInvariant, Ownership, OneHandlerAtATime
    <3>2. TasksAddressed'
      BY <2>3 DEF vars, ShardInvariant, TasksAddressed, Addressed
    <3>3. SlotsInOrder'
      BY <2>3 DEF vars, ShardInvariant, SlotsInOrder, ConsecutiveFrom
    <3> QED
      BY <2>1, <3>1, <3>2, <3>3 DEF ShardInvariant
  <2> QED
    BY <2>2, <2>3
<1> QED
  BY <1>1, <1>2, PTL DEF Spec

\* Clients read the replies of their pipelines in submission order, none skipped
\* and none repeated, whatever the shards, the faults and the interleaving.
THEOREM RepliesInOrder == Spec => []ReplyOrder
<1>1. ShardInvariant => ReplyOrder
  <2> SUFFICES ASSUME ShardInvariant, NEW c \in Conns, NEW i \in 1 .. Len(delivered[c])
               PROVE  delivered[c][i].seq = i - 1
    BY DEF ReplyOrder
  <2>1. delivered[c] \in Seq(SentReply) /\ ConsecutiveFrom(delivered[c], 0)
    BY DEF ShardInvariant, TypeOK, SlotsInOrder
  <2>2. Len(delivered[c]) \in Nat
    BY <2>1, LenProperties
  <2> QED
    BY <2>1, <2>2 DEF ConsecutiveFrom
<1> QED
  BY <1>1, Invariance, PTL

\* A key is only ever stored on the shard that owns it.
THEOREM KeysStayHome == Spec => []Ownership
<1>1. ShardInvariant => Ownership
  BY DEF ShardInvariant
<1> QED
  BY <1>1, Invariance, PTL

\* A closed connection stays closed and its client reads nothing more, whatever
\* completions come back for it later.
THEOREM ClosedStaysClosed == Spec => ClosedIsFinal
<1>1. ASSUME ShardInvariant, [Next]_vars
      PROVE  \A c \in Conns : status[c] = "closed" =>
                 status'[c] = "closed" /\ delivered'[c] = delivered[c]
  <2> SUFFICES ASSUME NEW c \in Conns, status[c] = "closed", Next
               PROVE  status'[c] = "closed" /\ delivered'[c] = delivered[c]
    BY <1>1 DEF vars
  <2>1. TypeOK /\ OneHandlerAtATime
    BY <1>1 DEF ShardInvariant
  <2>2. ASSUME NEW d \in Conns, d # c, NEW p, NEW o, Len(o) \in Nat, WriteAndSettle(d, p, o)
        PROVE  status'[c] = "closed" /\ delivered'[c] = delivered[c]
    <3>1. status'[c] = status[c]
      BY <2>1, <2>2, SettleStatus
    <3>2. \E k \in 0 .. Len(o) : delivered' = [delivered EXCEPT ![d] = @ \o SubSeq(o, 1, k)]
      <4>1. closing[d] \in BOOLEAN
        BY <2>1 DEF TypeOK
      <4>2. \E k \in 0 .. Len(o), cl \in BOOLEAN :
              /\ delivered' = [delivered EXCEPT ![d] = @ \o SubSeq(o, 1, k)]
              /\ closing' = [closing EXCEPT ![d] = cl]
              /\ \/ CloseConn(d)
                 \/ /\ pipeline' = [pipeline EXCEPT ![d] = p]
                    /\ out' = [out EXCEPT ![d] = SubSeq(o, k + 1, Len(o))]
                    /\ in' = [in EXCEPT ![d] = in[d]]
                    /\ status' = status
        BY <2>2, <4>1, SettleCases
      <4> QED
        BY <4>2
    <3> QED
      BY <2>1, <2>2, <3>1, <3>2 DEF TypeOK
  <2>3. ASSUME NEW d \in Conns,
               Accept(d) \/ HandleReadable(d) \/ HandleWritable(d) \/ HandleError(d)
        PROVE  status'[c] = "closed" /\ delivered'[c] = delivered[c]
    <3>1. CASE HandleWritable(d)
      <4>1. d # c /\ WriteAndSettle(d, pipeline[d], out[d]) /\ Len(out[d]) \in Nat
        BY <2>1, <3>1, LenProperties DEF HandleWritable, TypeOK
      <4> QED
        BY <2>2, <4>1
    <3>2. CASE Accept(d) \/ HandleReadable(d) \/ HandleError(d)
      BY <2>1, <3>2 DEF Accept, HandleReadable, HandleError, CloseConn, TypeOK
    <3> QED
      BY <2>3, <3>1, <3>2
  <2>4. ASSUME NEW s \in Shards, NEW d \in Conns, Dispatch(s, d)
        PROVE  status'[c] = "closed" /\ delivered'[c] = delivered[c]
    BY <2>4 DEF Dispatch, ProtocolError, DispatchKeyless, DispatchFlushall, DispatchLocal,
                DispatchForward, DispatchMultikey, DispatchCrossslot, Dispatching
  <2>5. ASSUME NEW s \in Shards, NEW d \in Conns, FinishReadable(s, d)
        PROVE  status'[c] = "closed" /\ delivered'[c] = delivered[c]
    <3> DEFINE o == out[d] \o Flushed(pipeline[d])
    <3>1. busy[s] = d /\ WriteAndSettle(d, Unflushed(pipeline[d]), o)
      BY <2>5 DEF FinishReadable
    <3>2. d # c
      BY <2>1, <3>1, ShardAssumption DEF OneHandlerAtATime, ShardAssumption
    <3>3. pipeline[d] \in Seq(Slot) /\ out[d] \in Seq(SentReply)
      BY <2>1 DEF TypeOK
    <3>4. o \in Seq(SentReply)
      BY <3>3, FlushSeq, ConcatProperties
    <3>5. Len(o) \in Nat
      BY <3>4, LenProperties
    <3> HIDE DEF o
    <3> QED
      BY <2>2, <3>1, <3>2, <3>5
  <2>6. ASSUME NEW s \in Shards, Post(s) \/ Drain(s) \/ RunTask(s)
        PROVE  status'[c] = "closed" /\ delivered'[c] = delivered[c]
    <3>1. CASE RunDone(s)
      <4> DEFINE t == Head(batch[s])
                 p == Completed(pipeline[t.conn], t)
                 o == out[t.conn] \o Flushed(p)
      <4>1. /\ batch[s] # <<>> /\ t.type = "done" /\ status[t.conn] = "open"
            /\ WriteAndSettle(t.conn, Unflushed(p), o)
        BY <3>1 DEF RunDone, Running, Completes
      <4>2. t \in Task
        BY <2>1, <4>1, HeadTailProperties DEF TypeOK
      <4>3. t \in Done /\ t.conn \in Conns /\ t.conn # c
        BY <4>1, <4>2 DEF Task, Exec, Done, FlushTask
      <4> HIDE DEF t
      <4>4. p \in Seq(Slot) /\ out[t.conn] \in Seq(SentReply)
        BY <2>1, <4>3, CompletedType DEF TypeOK
      <4> HIDE DEF p
      <4>5. o \in Seq(SentReply)
        BY <4>4, FlushSeq, ConcatProperties
      <4>6. Len(o) \in Nat
        BY <4>5, LenProperties
      <4> HIDE DEF o
      <4> QED
        BY <2>2, <4>1, <4>3, <4>6
    <3>2. CASE ~RunDone(s)
      BY <2>6, <3>2 DEF Post, Drain, RunTask, RunExec, RunFlush, DropDone
    <3> QED
      BY <3>1, <3>2
  <2> QED
    BY <2>3, <2>4, <2>5, <2>6 DEF Next
<1> QED
  BY <1>1, Invariance, PTL DEF Spec, ClosedIsFinal

-----------------------------------------------------------------------------
(* FLOW.                                                                   *)

-----------------------------------------------------------------------------
(* The invariant.                                                          *)

\* The numbers that the accesses of a request get in the history.
Span(t) == t.index .. t.index + Len(t.cmd.keys) - 1

\* Two tasks for one slot are different fragments, and a fragment has one key.
Apart(t, u) ==
    t.type # "flush" /\ u.type # "flush" /\ t.conn = u.conn /\ t.seq = u.seq =>
        /\ t.index # u.index
        /\ t.type = "exec" => Len(t.cmd.keys) = 1
        /\ u.type = "exec" => Len(u.cmd.keys) = 1

AllApart(lines) ==
    \A p1, p2 \in Positions(lines) :
        p1 # p2 => Apart(lines[p1[1]][p1[2]], lines[p2[1]][p2[2]])

\* A sequence number is used for tasks only after dispatch() has taken it.
AllNumbered(lines, next) ==
    \A p \in Positions(lines) :
        LET t == lines[p[1]][p[2]] IN t.type # "flush" => t.seq < next[t.conn]

\* A request that is under way has not been executed.
AllFresh(lines, lg) ==
    \A p \in Positions(lines) : \A s \in Shards : \A i \in 1 .. Len(lg[s]) :
        LET t == lines[p[1]][p[2]]
            e == lg[s][i]
        IN  t.type = "exec" /\ e.conn = t.conn /\ e.seq = t.seq => e.index \notin Span(t)

LogNumbered ==
    \A s \in Shards : \A i \in 1 .. Len(log[s]) :
        log[s][i].seq < next_seq[log[s][i].conn]

\* Requests leave the shard that dispatched them before it dispatches another
\* command of the same connection.
PostedFirst ==
    \A s \in Shards : \A i \in 1 .. Len(outbox[s]) :
        LET t == outbox[s][i].task
        IN  t.type = "exec" => Home[t.conn] = s /\ t.seq = next_seq[t.conn] - 1

\* Requests of one connection wait in the order in which they were sent.
InboxSorted ==
    \A s \in Shards : \A i, j \in 1 .. Len(Inbox(s)) :
        LET t == Inbox(s)[i]
            u == Inbox(s)[j]
        IN  i < j /\ t.type = "exec" /\ u.type = "exec" /\ t.conn = u.conn => t.seq <= u.seq

\* What another shard's connection has had executed here was sent before what
\* it has waiting here.
LogBeforeInbox ==
    \A s \in Shards : \A i \in 1 .. Len(log[s]), j \in 1 .. Len(Inbox(s)) :
        LET e == log[s][i]
            t == Inbox(s)[j]
        IN  t.type = "exec" /\ e.conn = t.conn /\ Home[t.conn] # s => e.seq <= t.seq

\* RemoteOrder whatever the keys.
LogSorted ==
    \A s \in Shards : \A i, j \in 1 .. Len(log[s]) :
        i < j /\ log[s][i].conn = log[s][j].conn /\ Home[log[s][i].conn] # s =>
            log[s][i].seq <= log[s][j].seq

\* Only an open connection has reply slots.
SlotsAreOpen == \A c \in Conns : status[c] # "open" => pipeline[c] = <<>>

FlowInvariant ==
    /\ AllNumbered(Lines, next_seq)
    /\ AllApart(Lines)
    /\ AllFresh(Lines, log)
    /\ LogNumbered
    /\ AtMostOnce
    /\ PostedFirst
    /\ InboxSorted
    /\ LogBeforeInbox
    /\ LogSorted
    /\ SlotsAreOpen
    /\ RemainingInFlight

-----------------------------------------------------------------------------
(* Lines of tasks and the steps that change them.                          *)

\* The completion of a request stands for the request.
StandsFor(u, t) ==
    \/ u = t
    \/ /\ t.type = "exec" /\ u.type = "done"
       /\ u.conn = t.conn /\ u.seq = t.seq /\ u.index = t.index

\* The task at the head of x leaves, and u that stands for it joins y.
Moves(before, after, x, y, u) ==
    /\ x \in Places /\ y \in Places /\ x # y
    /\ before[x] # <<>>
    /\ StandsFor(u, Head(before[x]))
    /\ after[x] = Tail(before[x])
    /\ after[y] = Append(before[y], u)
    /\ \A z \in Places \ {x, y} : after[z] = before[z]

\* The task at the head of x leaves.
Leaves(before, after, x) ==
    /\ x \in Places
    /\ before[x] # <<>>
    /\ after[x] = Tail(before[x])
    /\ \A z \in Places \ {x} : after[z] = before[z]

\* A handler has q to post.
Posts(before, after, x, q) ==
    /\ x \in Places
    /\ before[x] = <<>>
    /\ after[x] = q
    /\ \A z \in Places \ {x} : after[z] = before[z]

AllLines == [Places -> Seq(Task)]

\* A position is a line and an index into it.
LEMMA PositionIn ==
    ASSUME NEW lines \in AllLines
    PROVE  /\ \A p \in Positions(lines) : /\ p = <<p[1], p[2]>> /\ p[1] \in Places
                                          /\ p[2] \in 1 .. Len(lines[p[1]])
           /\ \A x \in Places : \A i \in 1 .. Len(lines[x]) : <<x, i>> \in Positions(lines)
<1>1. DOMAIN lines = Places /\ \A x \in Places : DOMAIN lines[x] = 1 .. Len(lines[x])
  BY LenProperties DEF AllLines
<1> QED
  BY <1>1 DEF Positions

\* The task at a position.
LEMMA TaskAt ==
    ASSUME NEW lines \in AllLines, NEW p \in Positions(lines)
    PROVE  lines[p[1]][p[2]] \in Task
<1>1. p[1] \in Places /\ p[2] \in 1 .. Len(lines[p[1]]) /\ lines[p[1]] \in Seq(Task)
  BY PositionIn DEF AllLines
<1> QED
  BY <1>1, ElementOfSeq

\* There are finitely many tasks.
LEMMA PositionsFinite ==
    ASSUME NEW lines \in AllLines
    PROVE  IsFiniteSet(Positions(lines))
<1>1. IsFiniteSet(Shards)
  <2>1. NShards - 1 \in Int
    BY ShardAssumption DEF ShardAssumption
  <2>2. ASSUME NEW m \in Int PROVE IsFiniteSet(0 .. m)
    BY FS_Interval
  <2> QED
    BY <2>1, <2>2 DEF Shards
<1>2. IsFiniteSet({"inbox", "outbox"})
  <2>1. ASSUME NEW a, NEW b PROVE IsFiniteSet({a, b})
    <3>1. IsFiniteSet({a}) /\ IsFiniteSet({b})
      BY FS_Singleton
    <3>2. IsFiniteSet({a} \cup {b})
      BY <3>1, FS_Union
    <3>3. {a, b} = {a} \cup {b}
      OBVIOUS
    <3> QED
      BY <3>2, <3>3
  <2> QED
    BY <2>1
<1>3. IsFiniteSet(Places)
  BY <1>1, <1>2, FS_Product DEF Places
<1> DEFINE Of(x) == {x} \X DOMAIN lines[x]
           All == {Of(x) : x \in Places}
<1>4. ASSUME NEW x \in Places PROVE IsFiniteSet(Of(x))
  <2>1. lines[x] \in Seq(Task)
    BY DEF AllLines
  <2>2. DOMAIN lines[x] = 1 .. Len(lines[x]) /\ Len(lines[x]) \in Nat
    BY <2>1, LenProperties
  <2>3. IsFiniteSet(DOMAIN lines[x])
    <3>1. 1 \in Int /\ Len(lines[x]) \in Int
      BY <2>2
    <3>2. IsFiniteSet(1 .. Len(lines[x]))
      BY <3>1, FS_Interval
    <3> QED
      BY <2>2, <3>2
  <2>4. IsFiniteSet({x})
    BY FS_Singleton
  <2> QED
    BY <2>3, <2>4, FS_Product
<1>5. IsFiniteSet(All)
  <2> DEFINE f == [x \in Places |-> Of(x)]
  <2>1. f \in Surjection(Places, All)
    <3> HIDE DEF Of
    <3> QED
      BY DEF Surjection
  <2> HIDE DEF f, All
  <2> QED
    BY <1>3, <2>1, FS_Surjection
<1>6. \A S \in All : IsFiniteSet(S)
  BY <1>4
<1>7. IsFiniteSet(UNION All)
  <2> HIDE DEF All
  <2> QED
    BY <1>5, <1>6, FS_UNION
<1>8. Positions(lines) = UNION All
  BY DEF Positions, AllLines
<1> QED
  BY <1>7, <1>8

\* How many tasks wait for a slot is a number.
LEMMA WaitingFinite ==
    ASSUME NEW lines \in AllLines, NEW c, NEW q
    PROVE  IsFiniteSet(Waiting(lines, c, q)) /\ Cardinality(Waiting(lines, c, q)) \in Nat
<1>1. Waiting(lines, c, q) \subseteq Positions(lines)
  BY DEF Waiting
<1>2. IsFiniteSet(Waiting(lines, c, q))
  BY <1>1, PositionsFinite, FS_Subset
<1> QED
  BY <1>2, FS_CardinalityType

\* f takes the tasks back to where they were, u to the head of x.
MovedBy(f, before, after, x, u) ==
    \A p \in Positions(after) :
       /\ StandsFor(after[p[1]][p[2]], before[f[p][1]][f[p][2]])
       /\ f[p] = <<x, 1>> => after[p[1]][p[2]] = u

\* Moving a task moves its position: nothing else changes place relative to it.
LEMMA MoveMap ==
    ASSUME NEW before \in AllLines, NEW after \in AllLines, NEW x, NEW y, NEW u,
           Moves(before, after, x, y, u)
    PROVE  \E f \in Bijection(Positions(after), Positions(before)) :
              MovedBy(f, before, after, x, u)
<1> DEFINE last == <<y, Len(after[y])>>
           old(p) == IF p = last THEN <<x, 1>>
                     ELSE IF p[1] = x THEN <<x, p[2] + 1>> ELSE p
           new(p) == IF p = <<x, 1>> THEN last
                     ELSE IF p[1] = x THEN <<x, p[2] - 1>> ELSE p
           f == [p \in Positions(after) |-> old(p)]
<1>1. /\ x \in Places /\ y \in Places /\ x # y
      /\ before[x] \in Seq(Task) /\ before[y] \in Seq(Task) /\ before[x] # <<>>
      /\ after[x] = Tail(before[x]) /\ after[y] = Append(before[y], u)
      /\ \A z \in Places \ {x, y} : after[z] = before[z]
      /\ StandsFor(u, Head(before[x]))
  BY DEF Moves, AllLines
<1>2. /\ Len(before[x]) \in Nat \ {0} /\ Len(after[x]) = Len(before[x]) - 1
      /\ Head(before[x]) = before[x][1]
      /\ \A i \in 1 .. Len(after[x]) : after[x][i] = before[x][i + 1]
  BY <1>1, HeadTailProperties, EmptySeq
<1>3. /\ Len(before[y]) \in Nat /\ Len(after[y]) = Len(before[y]) + 1
      /\ \A i \in 1 .. Len(before[y]) : after[y][i] = before[y][i]
      /\ after[y][Len(after[y])] = u
  BY <1>1, LenProperties, AppendProperties
<1>4. ASSUME NEW p \in Positions(after)
      PROVE  /\ old(p) \in Positions(before) /\ new(old(p)) = p
             /\ StandsFor(after[p[1]][p[2]], before[old(p)[1]][old(p)[2]])
  <2>1. /\ p = <<p[1], p[2]>> /\ p[1] \in Places /\ p[2] \in 1 .. Len(after[p[1]])
    BY PositionIn
  <2>2. CASE p = last
    BY <2>2, <1>1, <1>2, <1>3, PositionIn
  <2>3. CASE p # last /\ p[1] = x
    <3>1. old(p) = <<x, p[2] + 1>> /\ p[2] + 1 \in 1 .. Len(before[x])
      BY <2>1, <2>3, <1>1, <1>2
    <3>2. old(p) \in Positions(before)
      BY <3>1, <1>1, PositionIn
    <3>3. old(p) # <<x, 1>> /\ old(p)[1] = x /\ old(p)[2] - 1 = p[2]
      <4>1. p[2] \in Nat /\ p[2] + 1 # 1 /\ (p[2] + 1) - 1 = p[2]
        BY <2>1, <2>3, <1>2
      <4> HIDE DEF old
      <4> QED
        BY <3>1, <4>1
    <3>4. new(old(p)) = p
      BY <3>3, <2>1, <2>3
    <3> QED
      BY <3>1, <3>2, <3>4, <2>1, <2>3, <1>2 DEF StandsFor
  <2>4. CASE p # last /\ p[1] # x
    <3>1. old(p) = p
      BY <2>4
    <3>2. p[2] \in 1 .. Len(before[p[1]]) /\ after[p[1]][p[2]] = before[p[1]][p[2]]
      BY <2>1, <2>4, <1>1, <1>3
    <3>3. p \in Positions(before)
      BY <2>1, <3>2, PositionIn
    <3>4. new(p) = p
      BY <2>1, <2>4
    <3> QED
      BY <3>1, <3>2, <3>3, <3>4 DEF StandsFor
  <2> QED
    BY <2>2, <2>3, <2>4
<1>5. ASSUME NEW p \in Positions(before)
      PROVE  new(p) \in Positions(after) /\ old(new(p)) = p
  <2>1. /\ p = <<p[1], p[2]>> /\ p[1] \in Places /\ p[2] \in 1 .. Len(before[p[1]])
    BY PositionIn
  <2>2. CASE p = <<x, 1>>
    <3>1. new(p) = last /\ old(last) = <<x, 1>>
      BY <2>2
    <3>2. last \in Positions(after)
      BY <1>1, <1>3, PositionIn
    <3> QED
      BY <2>2, <3>1, <3>2
  <2>3. CASE p # <<x, 1>> /\ p[1] = x
    <3>1. new(p) = <<x, p[2] - 1>> /\ p[2] - 1 \in 1 .. Len(after[x])
      BY <2>1, <2>3, <1>2
    <3>2. new(p) \in Positions(after)
      BY <3>1, <1>1, PositionIn
    <3>3. new(p) # last /\ new(p)[1] = x /\ new(p)[2] + 1 = p[2]
      BY <3>1, <2>1, <2>3, <1>1
    <3> QED
      BY <3>2, <3>3, <2>1, <2>3
  <2>4. CASE p # <<x, 1>> /\ p[1] # x
    <3>1. new(p) = p
      BY <2>4
    <3>2. p[2] \in 1 .. Len(after[p[1]]) /\ p # last
      BY <2>1, <2>4, <1>1, <1>3
    <3>3. p \in Positions(after)
      BY <2>1, <3>2, PositionIn
    <3> QED
      BY <2>4, <3>1, <3>2, <3>3
  <2> QED
    BY <2>2, <2>3, <2>4
<1>6. f \in Bijection(Positions(after), Positions(before))
  <2> HIDE DEF old, new
  <2>1. f \in [Positions(after) -> Positions(before)]
    BY <1>4
  <2>2. \A a, b \in Positions(after) : f[a] = f[b] => a = b
    BY <1>4
  <2>3. \A b \in Positions(before) : \E a \in Positions(after) : f[a] = b
    BY <1>5
  <2> HIDE DEF f
  <2> QED
    BY <2>1, <2>2, <2>3 DEF Bijection, Injection, Surjection, IsInjective
<1>7. \A p \in Positions(after) : StandsFor(after[p[1]][p[2]], before[f[p][1]][f[p][2]])
  <2> HIDE DEF old, new
  <2> QED
    BY <1>4
<1>8. ASSUME NEW p \in Positions(after), f[p] = <<x, 1>> PROVE after[p[1]][p[2]] = u
  <2>1. new(<<x, 1>>) = last /\ new(old(p)) = p /\ f[p] = old(p)
    BY <1>4
  <2>2. p = last
    <3> HIDE DEF old, new
    <3> QED
      BY <1>8, <2>1
  <2> QED
    BY <1>3, <2>2
<1> HIDE DEF f
<1> QED
  BY <1>6, <1>7, <1>8 DEF MovedBy

\* When a task leaves, the positions of the others are those there were
\* without the head of its line.
LEMMA LeaveMap ==
    ASSUME NEW before \in AllLines, NEW after \in AllLines, NEW x,
           Leaves(before, after, x)
    PROVE  \E f \in Bijection(Positions(after), Positions(before) \ {<<x, 1>>}) :
              \A p \in Positions(after) : after[p[1]][p[2]] = before[f[p][1]][f[p][2]]
<1> DEFINE old(p) == IF p[1] = x THEN <<x, p[2] + 1>> ELSE p
           new(p) == IF p[1] = x THEN <<x, p[2] - 1>> ELSE p
           f == [p \in Positions(after) |-> old(p)]
           rest == Positions(before) \ {<<x, 1>>}
<1>1. /\ x \in Places /\ before[x] \in Seq(Task) /\ before[x] # <<>>
      /\ after[x] = Tail(before[x])
      /\ \A z \in Places \ {x} : after[z] = before[z]
  BY DEF Leaves, AllLines
<1>2. /\ Len(before[x]) \in Nat \ {0} /\ Len(after[x]) = Len(before[x]) - 1
      /\ Head(before[x]) = before[x][1]
      /\ \A i \in 1 .. Len(after[x]) : after[x][i] = before[x][i + 1]
  BY <1>1, HeadTailProperties, EmptySeq
<1>4. ASSUME NEW p \in Positions(after)
      PROVE  /\ old(p) \in rest /\ new(old(p)) = p
             /\ after[p[1]][p[2]] = before[old(p)[1]][old(p)[2]]
  <2>1. /\ p = <<p[1], p[2]>> /\ p[1] \in Places /\ p[2] \in 1 .. Len(after[p[1]])
    BY PositionIn
  <2>2. CASE p[1] = x
    <3>1. old(p) = <<x, p[2] + 1>> /\ p[2] + 1 \in 1 .. Len(before[x])
      BY <2>1, <2>2, <1>1, <1>2
    <3>2. old(p) \in Positions(before)
      BY <3>1, <1>1, PositionIn
    <3>3. old(p) # <<x, 1>> /\ old(p)[1] = x /\ old(p)[2] - 1 = p[2]
      <4>1. p[2] \in Nat /\ p[2] + 1 # 1 /\ (p[2] + 1) - 1 = p[2]
        BY <2>1, <2>2, <1>2
      <4> HIDE DEF old
      <4> QED
        BY <3>1, <4>1
    <3>4. new(old(p)) = p
      BY <3>3, <2>1, <2>2
    <3> QED
      BY <3>1, <3>2, <3>3, <3>4, <2>1, <2>2, <1>2
  <2>3. CASE p[1] # x
    <3>1. p[2] \in 1 .. Len(before[p[1]]) /\ after[p[1]][p[2]] = before[p[1]][p[2]]
      BY <2>1, <2>3, <1>1
    <3>2. p \in Positions(before) /\ p # <<x, 1>>
      BY <2>1, <2>3, <3>1, PositionIn
    <3> QED
      BY <2>3, <3>1, <3>2
  <2> QED
    BY <2>2, <2>3
<1>5. ASSUME NEW p \in rest
      PROVE  new(p) \in Positions(after) /\ old(new(p)) = p
  <2>1. /\ p = <<p[1], p[2]>> /\ p[1] \in Places /\ p[2] \in 1 .. Len(before[p[1]])
        /\ p # <<x, 1>>
    BY PositionIn
  <2>2. CASE p[1] = x
    <3>1. new(p) = <<x, p[2] - 1>> /\ p[2] - 1 \in 1 .. Len(after[x])
      BY <2>1, <2>2, <1>2
    <3>2. new(p) \in Positions(after)
      <4>1. PICK i \in 1 .. Len(after[x]) : i = p[2] - 1
        BY <3>1
      <4>2. <<x, i>> \in Positions(after)
        BY <1>1, PositionIn
      <4> HIDE DEF new
      <4> QED
        BY <3>1, <4>1, <4>2
    <3>3. new(p)[1] = x /\ new(p)[2] + 1 = p[2]
      BY <3>1, <2>1, <2>2, <1>1
    <3> QED
      BY <3>2, <3>3, <2>1, <2>2
  <2>3. CASE p[1] # x
    <3>1. p[2] \in 1 .. Len(after[p[1]])
      BY <2>1, <2>3, <1>1
    <3>2. p \in Positions(after)
      BY <2>1, <3>1, PositionIn
    <3> QED
      BY <2>3, <3>2
  <2> QED
    BY <2>2, <2>3
<1>6. f \in Bijection(Positions(after), rest)
  <2> HIDE DEF old, new, rest
  <2>1. f \in [Positions(after) -> rest]
    BY <1>4
  <2>2. \A a, b \in Positions(after) : f[a] = f[b] => a = b
    BY <1>4
  <2>3. \A b \in rest : \E a \in Positions(after) : f[a] = b
    BY <1>5
  <2> HIDE DEF f
  <2> QED
    BY <2>1, <2>2, <2>3 DEF Bijection, Injection, Surjection, IsInjective
<1>7. \A p \in Positions(after) : after[p[1]][p[2]] = before[f[p][1]][f[p][2]]
  <2> HIDE DEF old, new, rest
  <2> QED
    BY <1>4
<1> HIDE DEF f
<1> QED
  BY <1>6, <1>7

\* A bijection counts every part it respects.
LEMMA CountByBijection ==
    ASSUME NEW P, NEW R, NEW f \in Bijection(P, R), NEW A \in SUBSET P, NEW B \in SUBSET R,
           \A p \in P : p \in A <=> f[p] \in B, IsFiniteSet(B)
    PROVE  Cardinality(A) = Cardinality(B)
<1> DEFINE g == [p \in A |-> f[p]]
<1>1. /\ f \in [P -> R] /\ \A a, b \in P : f[a] = f[b] => a = b
      /\ \A b \in R : \E a \in P : f[a] = b
  BY DEF Bijection, Injection, Surjection, IsInjective
<1>2. g \in [A -> B]
  BY <1>1
<1>3. \A a, b \in A : g[a] = g[b] => a = b
  BY <1>1
<1>4. \A b \in B : \E a \in A : g[a] = b
  BY <1>1
<1> HIDE DEF g
<1>5. g \in Bijection(A, B)
  BY <1>2, <1>3, <1>4 DEF Bijection, Injection, Surjection, IsInjective
<1>6. ExistsBijection(A, B)
  BY <1>5 DEF ExistsBijection
<1>7. ExistsBijection(B, A)
  BY <1>6, Fun_ExistsBijSymmetric
<1> QED
  BY <1>7, FS_Bijection

\* A completion waits for the slot its request waited for.
LEMMA StandsForSlot ==
    ASSUME NEW t \in Task, NEW u \in Task, StandsFor(u, t)
    PROVE  /\ \A c, q : AboutSlot(u, c, q) <=> AboutSlot(t, c, q)
           /\ u.type = "flush" <=> t.type = "flush"
           /\ u.type = "exec" => u = t
           /\ u.type # "flush" => u.conn = t.conn /\ u.seq = t.seq /\ u.index = t.index
BY DEF StandsFor, AboutSlot

\* Moving a task leaves the numbers of waiting tasks alone.
LEMMA MoveCount ==
    ASSUME NEW before \in AllLines, NEW after \in AllLines, NEW x, NEW y, NEW u,
           Moves(before, after, x, y, u), NEW c, NEW q
    PROVE  Cardinality(Waiting(after, c, q)) = Cardinality(Waiting(before, c, q))
<1>1. PICK f \in Bijection(Positions(after), Positions(before)) :
         \A p \in Positions(after) : StandsFor(after[p[1]][p[2]], before[f[p][1]][f[p][2]])
  BY MoveMap DEF MovedBy
<1>2. \A p \in Positions(after) : f[p] \in Positions(before)
  BY DEF Bijection, Injection
<1>3. \A p \in Positions(after) : p \in Waiting(after, c, q) <=> f[p] \in Waiting(before, c, q)
  <2> TAKE p \in Positions(after)
  <2> DEFINE a == after[p[1]][p[2]]
             b == before[f[p][1]][f[p][2]]
  <2>1. a \in Task /\ b \in Task /\ StandsFor(a, b)
    BY <1>1, <1>2, TaskAt
  <2>2. p \in Waiting(after, c, q) <=> AboutSlot(a, c, q)
    BY DEF Waiting
  <2>3. f[p] \in Waiting(before, c, q) <=> AboutSlot(b, c, q)
    BY <1>2 DEF Waiting
  <2> HIDE DEF a, b
  <2> QED
    BY <2>1, <2>2, <2>3, StandsForSlot
<1>4. /\ Waiting(after, c, q) \in SUBSET Positions(after)
      /\ Waiting(before, c, q) \in SUBSET Positions(before)
  BY DEF Waiting
<1> QED
  BY <1>3, <1>4, WaitingFinite, CountByBijection

\* A task that leaves was waiting for one slot.
LEMMA LeaveCount ==
    ASSUME NEW before \in AllLines, NEW after \in AllLines, NEW x,
           Leaves(before, after, x), NEW c, NEW q
    PROVE  Cardinality(Waiting(after, c, q)) =
              IF AboutSlot(Head(before[x]), c, q)
              THEN Cardinality(Waiting(before, c, q)) - 1
              ELSE Cardinality(Waiting(before, c, q))
<1> DEFINE head == <<x, 1>>
           B == Waiting(before, c, q) \ {head}
           R == Positions(before) \ {head}
<1>1. PICK f \in Bijection(Positions(after), R) :
         \A p \in Positions(after) : after[p[1]][p[2]] = before[f[p][1]][f[p][2]]
  BY LeaveMap
<1>2. \A p \in Positions(after) : f[p] \in R
  BY DEF Bijection, Injection
<1>3. \A p \in Positions(after) : p \in Waiting(after, c, q) <=> f[p] \in B
  BY <1>1, <1>2 DEF Waiting
<1>4. /\ Waiting(after, c, q) \in SUBSET Positions(after) /\ B \in SUBSET R
  BY DEF Waiting
<1>5. /\ IsFiniteSet(B)
      /\ Cardinality(B) = IF head \in Waiting(before, c, q)
                          THEN Cardinality(Waiting(before, c, q)) - 1
                          ELSE Cardinality(Waiting(before, c, q))
  BY WaitingFinite, FS_RemoveElement
<1>6. head \in Waiting(before, c, q) <=> AboutSlot(Head(before[x]), c, q)
  <2>1. x \in Places /\ before[x] \in Seq(Task) /\ before[x] # <<>>
    BY DEF Leaves, AllLines
  <2>2. Len(before[x]) \in Nat \ {0} /\ Head(before[x]) = before[x][1]
    BY <2>1, HeadTailProperties, EmptySeq
  <2>3. head \in Positions(before)
    BY <2>1, <2>2, PositionIn
  <2> QED
    BY <2>2, <2>3 DEF Waiting
<1> HIDE DEF B, R
<1>7. Cardinality(Waiting(after, c, q)) = Cardinality(B)
  BY <1>3, <1>4, <1>5, CountByBijection
<1> QED
  BY <1>5, <1>6, <1>7

\* New posts take places of their own and leave the others alone.
LEMMA PostPositions ==
    ASSUME NEW before \in AllLines, NEW after \in AllLines, NEW x, NEW new \in Seq(Task),
           Posts(before, after, x, new)
    PROVE  /\ \A p : p \in Positions(after) <=> \/ p \in Positions(before)
                                                \/ \E i \in 1 .. Len(new) : p = <<x, i>>
           /\ \A p \in Positions(before) : /\ after[p[1]][p[2]] = before[p[1]][p[2]]
                                            /\ \A i \in 1 .. Len(new) : p # <<x, i>>
           /\ after[x] = new
<1>1. /\ x \in Places /\ before[x] = <<>> /\ after[x] = new
      /\ \A z \in Places \ {x} : after[z] = before[z]
  BY DEF Posts, AllLines
<1>2. Len(before[x]) = 0 /\ Len(new) \in Nat
  BY <1>1, LenProperties
<1>3. ASSUME NEW p
      PROVE  p \in Positions(after) <=> \/ p \in Positions(before)
                                       \/ \E i \in 1 .. Len(new) : p = <<x, i>>
  <2>1. ASSUME p \in Positions(after)
        PROVE  \/ p \in Positions(before)
               \/ \E i \in 1 .. Len(new) : p = <<x, i>>
    <3>1. p = <<p[1], p[2]>> /\ p[1] \in Places /\ p[2] \in 1 .. Len(after[p[1]])
      BY <2>1, PositionIn
    <3>2. CASE p[1] = x
      BY <3>1, <3>2, <1>1
    <3>3. CASE p[1] # x
      <4>1. p[2] \in 1 .. Len(before[p[1]])
        BY <3>1, <3>3, <1>1
      <4>2. <<p[1], p[2]>> \in Positions(before)
        BY <3>1, <4>1, PositionIn
      <4> QED
        BY <3>1, <4>2
    <3> QED
      BY <3>2, <3>3
  <2>2. ASSUME p \in Positions(before) PROVE p \in Positions(after)
    <3>1. p = <<p[1], p[2]>> /\ p[1] \in Places /\ p[2] \in 1 .. Len(before[p[1]])
      BY <2>2, PositionIn
    <3>2. p[1] # x
      BY <3>1, <1>2
    <3>3. p[2] \in 1 .. Len(after[p[1]])
      BY <3>1, <3>2, <1>1
    <3>4. <<p[1], p[2]>> \in Positions(after)
      BY <3>1, <3>3, PositionIn
    <3> QED
      BY <3>1, <3>4
  <2>3. ASSUME NEW i \in 1 .. Len(new), p = <<x, i>> PROVE p \in Positions(after)
    BY <2>3, <1>1, PositionIn
  <2> QED
    BY <2>1, <2>2, <2>3
<1>4. \A p \in Positions(before) : /\ after[p[1]][p[2]] = before[p[1]][p[2]]
                                   /\ \A i \in 1 .. Len(new) : p # <<x, i>>
  <2> TAKE p \in Positions(before)
  <2>1. p[1] \in Places /\ p[2] \in 1 .. Len(before[p[1]])
    BY PositionIn
  <2>2. p[1] # x
    BY <2>1, <1>2
  <2> QED
    BY <2>1, <2>2, <1>1
<1> QED
  BY <1>1, <1>3, <1>4

\* New posts wait for the slot they are about and for no other.
LEMMA PostCount ==
    ASSUME NEW before \in AllLines, NEW after \in AllLines, NEW x, NEW new \in Seq(Task),
           Posts(before, after, x, new), NEW c, NEW q
    PROVE  /\ (\A i \in 1 .. Len(new) : ~AboutSlot(new[i], c, q)) =>
                 Cardinality(Waiting(after, c, q)) = Cardinality(Waiting(before, c, q))
           /\ /\ \A i \in 1 .. Len(new) : AboutSlot(new[i], c, q)
              /\ Waiting(before, c, q) = {}
              => Cardinality(Waiting(after, c, q)) = Len(new)
<1>1. after[x] = new
  BY PostPositions
<1>2. Len(new) \in Nat
  BY LenProperties
<1>3. \A p : p \in Positions(after) <=> \/ p \in Positions(before)
                                        \/ \E i \in 1 .. Len(new) : p = <<x, i>>
  BY PostPositions
<1>4. \A p \in Positions(before) : after[p[1]][p[2]] = before[p[1]][p[2]]
  BY PostPositions
<1>5. ASSUME \A i \in 1 .. Len(new) : ~AboutSlot(new[i], c, q)
      PROVE  Waiting(after, c, q) = Waiting(before, c, q)
  <2>1. ASSUME NEW p PROVE p \in Waiting(after, c, q) <=> p \in Waiting(before, c, q)
    BY <1>1, <1>3, <1>4, <1>5 DEF Waiting
  <2> QED
    BY <2>1
<1>6. ASSUME \A i \in 1 .. Len(new) : AboutSlot(new[i], c, q), Waiting(before, c, q) = {}
      PROVE  Cardinality(Waiting(after, c, q)) = Len(new)
  <2> DEFINE n == Len(new)
             f == [i \in 1 .. n |-> <<x, i>>]
  <2>1. ASSUME NEW p
        PROVE  p \in Waiting(after, c, q) <=> \E i \in 1 .. n : p = <<x, i>>
    <3>1. ASSUME p \in Waiting(after, c, q) PROVE \E i \in 1 .. n : p = <<x, i>>
      BY <3>1, <1>3, <1>4, <1>6 DEF Waiting
    <3>2. ASSUME NEW i \in 1 .. n, p = <<x, i>> PROVE p \in Waiting(after, c, q)
      <4>1. p \in Positions(after)
        BY <1>3, <3>2
      <4>2. after[p[1]][p[2]] = new[i]
        BY <3>2, <1>1
      <4> QED
        BY <4>1, <4>2, <1>6 DEF Waiting
    <3> QED
      BY <3>1, <3>2
  <2>2. f \in Bijection(1 .. n, Waiting(after, c, q))
    <3>1. f \in [1 .. n -> Waiting(after, c, q)]
      BY <2>1
    <3>2. \A a, b \in 1 .. n : f[a] = f[b] => a = b
      OBVIOUS
    <3>3. \A b \in Waiting(after, c, q) : \E a \in 1 .. n : f[a] = b
      BY <2>1
    <3> HIDE DEF f, n
    <3> QED
      BY <3>1, <3>2, <3>3 DEF Bijection, Injection, Surjection, IsInjective
  <2>3. IsFiniteSet(1 .. n) /\ Cardinality(1 .. n) = n
    <3>1. ASSUME NEW m \in Nat
          PROVE  /\ IsFiniteSet(1 .. m)
                 /\ Cardinality(1 .. m) = IF 1 > m THEN 0 ELSE m - 1 + 1
      BY FS_Interval
    <3>2. ASSUME NEW m \in Nat PROVE (IF 1 > m THEN 0 ELSE m - 1 + 1) = m
      OBVIOUS
    <3> QED
      BY <3>1, <3>2, <1>2
  <2> HIDE DEF f, n
  <2>4. ExistsBijection(1 .. n, Waiting(after, c, q))
    BY <2>2 DEF ExistsBijection
  <2>5. Cardinality(Waiting(after, c, q)) = n
    BY <2>3, <2>4, FS_Bijection
  <2> QED
    BY <2>5 DEF n
<1> QED
  BY <1>5, <1>6

-----------------------------------------------------------------------------
(* What the steps of the shards do to the lines.                           *)

\* The tasks a handler has yet to push.
TasksOf(posts) == [i \in 1 .. Len(posts) |-> posts[i].task]

LEMMA TasksOfType ==
    ASSUME NEW posts \in Seq([to : Shards, task : Task])
    PROVE  /\ TasksOf(posts) \in Seq(Task) /\ Len(TasksOf(posts)) = Len(posts)
           /\ \A i \in 1 .. Len(posts) : TasksOf(posts)[i] = posts[i].task
<1> DEFINE n == Len(posts)
<1>0. n \in Nat /\ \A i \in 1 .. n : posts[i] \in [to : Shards, task : Task]
  BY LenProperties, ElementOfSeq
<1>1. n \in Nat /\ \A i \in 1 .. n : posts[i].task \in Task
  BY <1>0
<1>2. TasksOf(posts) = [i \in 1 .. n |-> posts[i].task]
  BY DEF TasksOf
<1> HIDE DEF n
<1>3. [i \in 1 .. n |-> posts[i].task] \in Seq(Task)
  BY <1>1, IsASeq
<1>4. Len([i \in 1 .. n |-> posts[i].task]) = n
  BY <1>1
<1> QED
  BY <1>2, <1>3, <1>4 DEF n

LEMMA TasksOfTail ==
    ASSUME NEW posts \in Seq([to : Shards, task : Task]), posts # <<>>
    PROVE  /\ TasksOf(posts) # <<>> /\ Head(TasksOf(posts)) = Head(posts).task
           /\ TasksOf(Tail(posts)) = Tail(TasksOf(posts))
<1>1. /\ Len(posts) \in Nat \ {0} /\ Head(posts) = posts[1]
      /\ Tail(posts) \in Seq([to : Shards, task : Task]) /\ Len(Tail(posts)) = Len(posts) - 1
      /\ \A i \in 1 .. Len(posts) - 1 : Tail(posts)[i] = posts[i + 1]
  BY HeadTailProperties, EmptySeq
<1> DEFINE a == TasksOf(posts)
           b == TasksOf(Tail(posts))
<1>2. /\ a \in Seq(Task) /\ Len(a) = Len(posts) /\ b \in Seq(Task) /\ Len(b) = Len(posts) - 1
      /\ \A i \in 1 .. Len(posts) : a[i] = posts[i].task
      /\ \A i \in 1 .. Len(posts) - 1 : b[i] = Tail(posts)[i].task
  BY <1>1, TasksOfType
<1> HIDE DEF a, b
<1>3. a # <<>>
  BY <1>1, <1>2
<1>4. /\ Head(a) = a[1] /\ Tail(a) \in Seq(Task) /\ Len(Tail(a)) = Len(a) - 1
      /\ \A i \in 1 .. Len(a) - 1 : Tail(a)[i] = a[i + 1]
  BY <1>2, <1>3, HeadTailProperties
<1>5. b = Tail(a)
  <2>1. \A i \in 1 .. Len(b) : b[i] = Tail(a)[i]
    BY <1>1, <1>2, <1>4
  <2> QED
    BY <1>2, <1>4, <2>1, SeqEqual
<1> QED
  BY <1>1, <1>2, <1>3, <1>4, <1>5 DEF a, b

LinesShape ==
    /\ Lines \in AllLines
    /\ \A s \in Shards : /\ Lines[<<"inbox", s>>] = Inbox(s)
                         /\ Lines[<<"outbox", s>>] = TasksOf(outbox[s])
                         /\ Inbox(s) \in Seq(Task)

LEMMA ShardPlaces ==
    \A s \in Shards : <<"inbox", s>> \in Places /\ <<"outbox", s>> \in Places
BY DEF Places

\* The lines are sequences of tasks.
LEMMA LinesType == TypeOK => LinesShape
<1> SUFFICES ASSUME TypeOK PROVE LinesShape
  OBVIOUS
<1>1. \A s \in Shards : Inbox(s) \in Seq(Task)
  BY ConcatProperties DEF Inbox, TypeOK
<1>2. \A s \in Shards : Outgoing(s) = TasksOf(outbox[s]) /\ Outgoing(s) \in Seq(Task)
  BY TasksOfType DEF Outgoing, TasksOf, TypeOK
<1>3. \A x \in Places : x[2] \in Shards /\ x[1] \in {"inbox", "outbox"}
  BY DEF Places
<1>4. \A s \in Shards : <<"inbox", s>> \in Places /\ <<"outbox", s>> \in Places
  BY DEF Places
<1>5. Lines \in AllLines
  BY <1>1, <1>2, <1>3 DEF Lines, AllLines
<1> QED
  BY <1>1, <1>2, <1>4, <1>5 DEF Lines, LinesShape

\* The lines after a step.
LEMMA NextLines ==
    ASSUME TypeOK'
    PROVE  /\ Lines' \in AllLines
           /\ \A s \in Shards : /\ Lines'[<<"inbox", s>>] = Inbox(s)'
                                /\ Lines'[<<"outbox", s>>] = TasksOf(outbox'[s])
                                /\ Inbox(s)' \in Seq(Task)
<1>1. LinesShape'
  BY LinesType, PTL
<1>2. Task' = Task /\ AllLines' = AllLines
  BY DEF AllLines
<1> QED
  BY <1>1, <1>2 DEF LinesShape, TasksOf

\* A place is the inbox or the outbox of a shard.
LEMMA PlaceCases ==
    \A z \in Places : \E r \in Shards : z = <<"inbox", r>> \/ z = <<"outbox", r>>
BY DEF Places

\* Handlers that post nothing and run no task.
LEMMA SameLines ==
    ASSUME UNCHANGED <<mailbox, batch, outbox>>
    PROVE  Lines' = Lines /\ \A s \in Shards : Inbox(s)' = Inbox(s)
BY DEF Lines, Inbox, Outgoing

\* drain() only turns what was posted into a batch.
LEMMA DrainLines ==
    ASSUME TypeOK, TypeOK', NEW s \in Shards, Drain(s)
    PROVE  Lines' = Lines /\ \A r \in Shards : Inbox(r)' = Inbox(r)
<1>1. /\ batch[s] = <<>> /\ batch'[s] = mailbox[s] /\ mailbox'[s] = <<>> /\ outbox' = outbox
      /\ \A r \in Shards \ {s} : batch'[r] = batch[r] /\ mailbox'[r] = mailbox[r]
      /\ mailbox[s] \in Seq(Task)
  BY DEF Drain, Idle, TypeOK
<1>2. <<>> \o mailbox[s] = mailbox[s] /\ mailbox[s] \o <<>> = mailbox[s]
  BY <1>1, ConcatEmptySeq
<1>3. \A r \in Shards : Inbox(r)' = Inbox(r)
  BY <1>1, <1>2 DEF Inbox
<1>4. \A r \in Shards : Outgoing(r)' = Outgoing(r)
  BY <1>1 DEF Outgoing
<1>5. \A x \in Places : x[2] \in Shards
  BY DEF Places
<1> QED
  BY <1>3, <1>4, <1>5 DEF Lines

\* post() moves a task from the outbox to the inbox it is for.
LEMMA PostLines ==
    ASSUME TypeOK, TypeOK', NEW s \in Shards, Post(s)
    PROVE  \E to \in Shards, t \in Task :
              /\ outbox[s] # <<>> /\ Head(outbox[s]).to = to /\ Head(outbox[s]).task = t
              /\ Inbox(to)' = Append(Inbox(to), t)
              /\ \A r \in Shards \ {to} : Inbox(r)' = Inbox(r)
              /\ Moves(Lines, Lines', <<"outbox", s>>, <<"inbox", to>>, t)
<1>1. /\ outbox[s] # <<>> /\ outbox[s] \in Seq([to : Shards, task : Task])
      /\ mailbox' = [mailbox EXCEPT ![Head(outbox[s]).to] = Append(@, Head(outbox[s]).task)]
      /\ outbox'  = [outbox EXCEPT ![s] = Tail(@)]
      /\ batch' = batch
  BY DEF Post, TypeOK
<1>2. PICK to \in Shards, t \in Task : Head(outbox[s]).to = to /\ Head(outbox[s]).task = t
  <2>1. Head(outbox[s]) \in [to : Shards, task : Task]
    BY <1>1, HeadTailProperties
  <2> QED
    BY <2>1
<1> DEFINE x == <<"outbox", s>>
           y == <<"inbox", to>>
<1>4. /\ mailbox'[to] = Append(mailbox[to], t)
      /\ \A r \in Shards \ {to} : mailbox'[r] = mailbox[r]
      /\ outbox'[s] = Tail(outbox[s])
      /\ \A r \in Shards \ {s} : outbox'[r] = outbox[r]
      /\ mailbox[to] \in Seq(Task) /\ batch[to] \in Seq(Task)
  BY <1>1, <1>2 DEF TypeOK
<1>5. Inbox(to)' = Append(Inbox(to), t)
  <2>1. ASSUME NEW a \in Seq(Task), NEW b \in Seq(Task), NEW u \in Task
        PROVE  a \o Append(b, u) = Append(a \o b, u)
    OBVIOUS
  <2>2. batch[to] \o Append(mailbox[to], t) = Append(batch[to] \o mailbox[to], t)
    BY <2>1, <1>4
  <2> QED
    BY <2>2, <1>1, <1>4 DEF Inbox
<1>6. \A r \in Shards \ {to} : Inbox(r)' = Inbox(r)
  BY <1>1, <1>4 DEF Inbox
<1>7. Moves(Lines, Lines', x, y, t)
  <2>1. /\ Lines[x] = TasksOf(outbox[s]) /\ Lines[y] = Inbox(to)
        /\ x \in Places /\ y \in Places /\ x # y
    BY LinesType, ShardPlaces DEF LinesShape
  <2>2. \A r \in Shards : /\ Lines'[<<"inbox", r>>] = Inbox(r)'
                           /\ Lines'[<<"outbox", r>>] = TasksOf(outbox'[r])
    BY NextLines
  <2>3. /\ Lines[x] # <<>> /\ Head(Lines[x]) = t /\ Lines'[x] = Tail(Lines[x])
    <3>1. Lines'[x] = TasksOf(outbox'[s])
      BY <2>2
    <3>2. /\ TasksOf(outbox[s]) # <<>> /\ Head(TasksOf(outbox[s])) = Head(outbox[s]).task
          /\ TasksOf(Tail(outbox[s])) = Tail(TasksOf(outbox[s]))
      BY <1>1, TasksOfTail
    <3> QED
      BY <1>2, <1>4, <2>1, <3>1, <3>2
  <2>4. Lines'[y] = Append(Lines[y], t)
    BY <1>5, <2>1, <2>2
  <2>5. \A z \in Places \ {x, y} : Lines'[z] = Lines[z]
    <3>1. \A r \in Shards \ {s} : Lines'[<<"outbox", r>>] = Lines[<<"outbox", r>>]
      BY <1>4, <2>2, LinesType DEF LinesShape
    <3>2. \A r \in Shards \ {to} : Lines'[<<"inbox", r>>] = Lines[<<"inbox", r>>]
      BY <1>6, <2>2, LinesType DEF LinesShape
    <3> QED
      BY <3>1, <3>2, PlaceCases
  <2> HIDE DEF x, y
  <2> QED
    BY <2>1, <2>3, <2>4, <2>5 DEF Moves, StandsFor
<1> QED
  BY <1>1, <1>2, <1>5, <1>6, <1>7

\* The first of two sequences that are read as one.
LEMMA ConcatHead ==
    ASSUME NEW S, NEW a \in Seq(S), NEW b \in Seq(S), a # <<>>
    PROVE  a \o b # <<>> /\ Head(a \o b) = Head(a) /\ Tail(a \o b) = Tail(a) \o b
<1>1. /\ Len(a) \in Nat \ {0} /\ Len(b) \in Nat /\ Head(a) = a[1]
      /\ Tail(a) \in Seq(S) /\ Len(Tail(a)) = Len(a) - 1
      /\ \A i \in 1 .. Len(a) - 1 : Tail(a)[i] = a[i + 1]
  BY HeadTailProperties, EmptySeq, LenProperties
<1> DEFINE ab == a \o b
           tb == Tail(a) \o b
<1>2. /\ ab \in Seq(S) /\ Len(ab) = Len(a) + Len(b)
      /\ \A i \in 1 .. Len(a) + Len(b) : ab[i] = IF i <= Len(a) THEN a[i] ELSE b[i - Len(a)]
  BY ConcatProperties
<1>3. /\ tb \in Seq(S) /\ Len(tb) = Len(a) - 1 + Len(b)
      /\ \A i \in 1 .. Len(a) - 1 + Len(b) :
            tb[i] = IF i <= Len(a) - 1 THEN Tail(a)[i] ELSE b[i - (Len(a) - 1)]
  BY <1>1, ConcatProperties
<1> HIDE DEF ab, tb
<1>4. ab # <<>>
  BY <1>1, <1>2
<1>5. /\ Head(ab) = ab[1] /\ Tail(ab) \in Seq(S) /\ Len(Tail(ab)) = Len(ab) - 1
      /\ \A i \in 1 .. Len(ab) - 1 : Tail(ab)[i] = ab[i + 1]
  BY <1>2, <1>4, HeadTailProperties
<1>6. Head(ab) = Head(a)
  BY <1>1, <1>2, <1>5
<1>7. Tail(ab) = tb
  <2>1. \A i \in 1 .. Len(tb) : tb[i] = Tail(ab)[i]
    BY <1>1, <1>2, <1>3, <1>5
  <2>2. Len(tb) = Len(Tail(ab))
    BY <1>1, <1>2, <1>3, <1>5
  <2> QED
    BY <1>3, <1>5, <2>1, <2>2, SeqEqual
<1> QED
  BY <1>4, <1>6, <1>7 DEF ab, tb

\* drain() runs the task at the head of the inbox.
LEMMA RunInbox ==
    ASSUME TypeOK, TypeOK', NEW s \in Shards, NEW type, Running(s, type), mailbox' = mailbox
    PROVE  \E t \in Task :
              /\ t = Head(batch[s]) /\ t.type = type /\ outbox[s] = <<>>
              /\ Inbox(s) # <<>> /\ Head(Inbox(s)) = t /\ Inbox(s)' = Tail(Inbox(s))
              /\ \A r \in Shards \ {s} : Inbox(r)' = Inbox(r)
<1>1. /\ batch[s] # <<>> /\ batch[s] \in Seq(Task) /\ mailbox[s] \in Seq(Task)
      /\ outbox[s] = <<>> /\ Head(batch[s]).type = type
      /\ batch'[s] = Tail(batch[s]) /\ \A r \in Shards \ {s} : batch'[r] = batch[r]
  BY DEF Running, TypeOK
<1>2. Head(batch[s]) \in Task
  BY <1>1, HeadTailProperties
<1>3. /\ batch[s] \o mailbox[s] # <<>>
      /\ Head(batch[s] \o mailbox[s]) = Head(batch[s])
      /\ Tail(batch[s] \o mailbox[s]) = Tail(batch[s]) \o mailbox[s]
  BY <1>1, ConcatHead
<1>4. Inbox(s)' = Tail(Inbox(s)) /\ Head(Inbox(s)) = Head(batch[s]) /\ Inbox(s) # <<>>
  BY <1>1, <1>3 DEF Inbox
<1>5. \A r \in Shards \ {s} : Inbox(r)' = Inbox(r)
  BY <1>1 DEF Inbox
<1> QED
  BY <1>1, <1>2, <1>4, <1>5

\* A completion or a flush leaves when it has run.
LEMMA RunLines ==
    ASSUME TypeOK, TypeOK', NEW s \in Shards, NEW type, Running(s, type),
           UNCHANGED <<mailbox, outbox>>
    PROVE  Leaves(Lines, Lines', <<"inbox", s>>)
<1> DEFINE x == <<"inbox", s>>
<1>1. /\ Inbox(s) # <<>> /\ Inbox(s)' = Tail(Inbox(s))
      /\ \A r \in Shards \ {s} : Inbox(r)' = Inbox(r)
  BY RunInbox
<1>2. \A r \in Shards : /\ Lines'[<<"inbox", r>>] = Inbox(r)'
                        /\ Lines'[<<"outbox", r>>] = TasksOf(outbox'[r])
  BY NextLines
<1>3. \A r \in Shards : /\ Lines[<<"inbox", r>>] = Inbox(r)
                        /\ Lines[<<"outbox", r>>] = TasksOf(outbox[r])
  BY LinesType DEF LinesShape
<1>4. x \in Places /\ Lines[x] # <<>> /\ Lines'[x] = Tail(Lines[x])
  BY <1>1, <1>2, <1>3, ShardPlaces
<1>5. \A z \in Places \ {x} : Lines'[z] = Lines[z]
  <2>1. \A r \in Shards : Lines'[<<"outbox", r>>] = Lines[<<"outbox", r>>]
    BY <1>2, <1>3
  <2>2. \A r \in Shards \ {s} : Lines'[<<"inbox", r>>] = Lines[<<"inbox", r>>]
    BY <1>1, <1>2, <1>3
  <2> QED
    BY <2>1, <2>2, PlaceCases
<1> HIDE DEF x
<1>6. Leaves(Lines, Lines', x)
  BY <1>4, <1>5 DEF Leaves
<1> QED
  BY <1>6 DEF x

\* A request leaves as the completion that its shard has to post.
LEMMA ExecLines ==
    ASSUME TypeOK, TypeOK', NEW s \in Shards, RunExec(s)
    PROVE  \E t \in Exec, u \in Done :
              /\ t = Head(batch[s]) /\ outbox[s] = <<>>
              /\ u.conn = t.conn /\ u.seq = t.seq /\ u.index = t.index
              /\ outbox' = [outbox EXCEPT ![s] = <<To(Home[t.conn], u)>>]
              /\ Inbox(s) # <<>> /\ Head(Inbox(s)) = t /\ Inbox(s)' = Tail(Inbox(s))
              /\ \A r \in Shards \ {s} : Inbox(r)' = Inbox(r)
              /\ Moves(Lines, Lines', <<"inbox", s>>, <<"outbox", s>>, u)
<1> DEFINE x == <<"inbox", s>>
           y == <<"outbox", s>>
           val(t) == IF t.is_int THEN ParseRespInteger(Answer(t.cmd, db[s])) ELSE 0
           done(t) == DoneTask(t.conn, t.seq, t.index, t.is_int, Answer(t.cmd, db[s]), val(t))
<1>1. /\ Running(s, "exec") /\ mailbox' = mailbox
      /\ outbox' = [outbox EXCEPT ![s] = <<To(Home[Head(batch[s]).conn], done(Head(batch[s])))>>]
  BY DEF RunExec
<1>2. PICK t \in Task :
              /\ t = Head(batch[s]) /\ t.type = "exec" /\ outbox[s] = <<>>
              /\ Inbox(s) # <<>> /\ Head(Inbox(s)) = t /\ Inbox(s)' = Tail(Inbox(s))
              /\ \A r \in Shards \ {s} : Inbox(r)' = Inbox(r)
  BY <1>1, RunInbox
<1>3. t \in Exec
  BY <1>2 DEF Task, Exec, Done, FlushTask
<1>4. PICK u \in Done : /\ u.conn = t.conn /\ u.seq = t.seq /\ u.index = t.index
                        /\ outbox' = [outbox EXCEPT ![s] = <<To(Home[t.conn], u)>>]
  <2>1. /\ t.conn \in Conns /\ t.seq \in Nat /\ t.index \in Nat \ {0} /\ t.is_int \in BOOLEAN
        /\ t.cmd \in AllCommands
    BY <1>3 DEF Exec
  <2>2. Answer(t.cmd, db[s]) \in HandlerReply
    BY <2>1, AnswerType DEF TypeOK
  <2>3. val(t) \in Nat
    BY <2>2, ParseType
  <2>4. outbox' = [outbox EXCEPT ![s] = <<To(Home[t.conn], done(t))>>]
    BY <1>1, <1>2
  <2>5. done(t) \in Done /\ done(t).conn = t.conn /\ done(t).seq = t.seq
        /\ done(t).index = t.index
    <3> HIDE DEF val
    <3> QED
      BY <2>1, <2>2, <2>3 DEF DoneTask, Done
  <2> HIDE DEF done
  <2> QED
    BY <2>4, <2>5
<1>5. u \in Task /\ t.type = "exec" /\ u.type = "done"
  BY <1>3 DEF Task, Done, Exec
<1>6. \A r \in Shards : /\ Lines'[<<"inbox", r>>] = Inbox(r)'
                        /\ Lines'[<<"outbox", r>>] = TasksOf(outbox'[r])
  BY NextLines
<1>7. \A r \in Shards : /\ Lines[<<"inbox", r>>] = Inbox(r)
                        /\ Lines[<<"outbox", r>>] = TasksOf(outbox[r])
  BY LinesType DEF LinesShape
<1>8. /\ outbox'[s] = <<To(Home[t.conn], u)>>
      /\ \A r \in Shards \ {s} : outbox'[r] = outbox[r]
  BY <1>4 DEF TypeOK
<1>9. TasksOf(outbox'[s]) = <<u>> /\ TasksOf(outbox[s]) = <<>>
  BY <1>2, <1>8 DEF TasksOf, To
<1>10. Append(<<>>, u) = <<u>>
  OBVIOUS
<1>11. /\ x \in Places /\ y \in Places /\ x # y
       /\ Lines[x] # <<>> /\ Head(Lines[x]) = t /\ Lines'[x] = Tail(Lines[x])
       /\ Lines'[y] = Append(Lines[y], u)
  BY <1>2, <1>6, <1>7, <1>9, <1>10, ShardPlaces
<1>12. \A z \in Places \ {x, y} : Lines'[z] = Lines[z]
  <2>1. \A r \in Shards \ {s} : Lines'[<<"outbox", r>>] = Lines[<<"outbox", r>>]
    BY <1>6, <1>7, <1>8
  <2>2. \A r \in Shards \ {s} : Lines'[<<"inbox", r>>] = Lines[<<"inbox", r>>]
    BY <1>2, <1>6, <1>7
  <2> QED
    BY <2>1, <2>2, PlaceCases
<1>13. StandsFor(u, t)
  BY <1>4, <1>5 DEF StandsFor
<1>14. Moves(Lines, Lines', x, y, u)
  <2> HIDE DEF x, y
  <2> QED
    BY <1>11, <1>12, <1>13 DEF Moves
<1> QED
  BY <1>2, <1>3, <1>4, <1>14

\* What dispatch() has to post.
LEMMA DispatchLines ==
    ASSUME TypeOK, TypeOK', NEW s \in Shards, NEW q,
           outbox[s] = <<>>, outbox'[s] = q, \A r \in Shards \ {s} : outbox'[r] = outbox[r],
           UNCHANGED <<mailbox, batch>>
    PROVE  /\ Posts(Lines, Lines', <<"outbox", s>>, TasksOf(q))
           /\ \A r \in Shards : Inbox(r)' = Inbox(r)
<1> DEFINE x == <<"outbox", s>>
<1>1. \A r \in Shards : Inbox(r)' = Inbox(r)
  BY DEF Inbox
<1>2. \A r \in Shards : /\ Lines'[<<"inbox", r>>] = Inbox(r)'
                        /\ Lines'[<<"outbox", r>>] = TasksOf(outbox'[r])
  BY NextLines
<1>3. \A r \in Shards : /\ Lines[<<"inbox", r>>] = Inbox(r)
                        /\ Lines[<<"outbox", r>>] = TasksOf(outbox[r])
  BY LinesType DEF LinesShape
<1>4. outbox'[s] = q /\ \A r \in Shards \ {s} : outbox'[r] = outbox[r]
  OBVIOUS
<1>5. TasksOf(outbox[s]) = <<>>
  BY DEF TasksOf
<1>6. x \in Places /\ Lines[x] = <<>> /\ Lines'[x] = TasksOf(q)
  BY <1>2, <1>3, <1>4, <1>5, ShardPlaces
<1>7. \A z \in Places \ {x} : Lines'[z] = Lines[z]
  <2>1. \A r \in Shards \ {s} : Lines'[<<"outbox", r>>] = Lines[<<"outbox", r>>]
    BY <1>2, <1>3, <1>4
  <2>2. \A r \in Shards : Lines'[<<"inbox", r>>] = Lines[<<"inbox", r>>]
    BY <1>1, <1>2, <1>3
  <2>3. ASSUME NEW z \in Places \ {x} PROVE Lines'[z] = Lines[z]
    <3>1. PICK r \in Shards : z = <<"inbox", r>> \/ z = <<"outbox", r>>
      BY PlaceCases
    <3> QED
      BY <2>1, <2>2, <3>1
  <2> QED
    BY <2>3
<1>8. Posts(Lines, Lines', x, TasksOf(q))
  <2> HIDE DEF x
  <2> QED
    BY <1>6, <1>7 DEF Posts
<1> QED
  BY <1>1, <1>8

-----------------------------------------------------------------------------
(* The kinds of steps, as far as tasks are concerned.                      *)

InboxesKept(S) == \A r \in S : Inbox(r)' = Inbox(r)

\* Nothing is dispatched, posted or run; a drain may start.
QuietStep ==
    /\ Lines' = Lines /\ InboxesKept(Shards)
    /\ UNCHANGED <<outbox, log, next_seq>>

\* The slot that dispatch() opens at number n of c, and the tasks it is for.
Opens(slot, new, c, n) ==
    /\ slot.seq = n
    /\ slot.ready <=> slot.remaining = 0
    /\ \/ slot.remaining = 0 /\ \A i \in 1 .. Len(new) : new[i].type = "flush"
       \/ /\ slot.remaining = Len(new)
          /\ \A i \in 1 .. Len(new) : new[i] \in Exec /\ new[i].conn = c /\ new[i].seq = n
          /\ \A i, j \in 1 .. Len(new) : i # j =>
                 new[i].index # new[j].index /\ Len(new[i].cmd.keys) = 1

DispatchStep(s, c, slot, q) ==
    /\ Home[c] = s /\ status[c] = "open"
    /\ slot \in Slot /\ q \in Seq([to : Shards, task : Task])
    /\ Opens(slot, TasksOf(q), c, next_seq[c])
    /\ pipeline' = [pipeline EXCEPT ![c] = Append(@, slot)]
    /\ next_seq' = [next_seq EXCEPT ![c] = @ + 1]
    /\ outbox[s] = <<>> /\ outbox'[s] = q
    /\ \A r \in Shards \ {s} : outbox'[r] = outbox[r]
    /\ Posts(Lines, Lines', <<"outbox", s>>, TasksOf(q)) /\ InboxesKept(Shards)
    /\ status' = status
    /\ \/ log' = log
       \/ /\ q = <<>>
          /\ \E cmd \in AllCommands :
                log' = [log EXCEPT ![s] = @ \o Accesses(c, next_seq[c], 1, cmd, db[s])]

PostStep(s, to, t) ==
    /\ to \in Shards /\ t \in Task
    /\ outbox[s] # <<>> /\ Head(outbox[s]).task = t
    /\ outbox'[s] = Tail(outbox[s])
    /\ \A r \in Shards \ {s} : outbox'[r] = outbox[r]
    /\ Moves(Lines, Lines', <<"outbox", s>>, <<"inbox", to>>, t)
    /\ Inbox(to)' = Append(Inbox(to), t) /\ InboxesKept(Shards \ {to})
    /\ UNCHANGED <<log, next_seq>>

ExecStep(s, t, u) ==
    /\ t \in Exec /\ u \in Done
    /\ u.conn = t.conn /\ u.seq = t.seq /\ u.index = t.index
    /\ outbox[s] = <<>> /\ outbox'[s] = <<To(Home[t.conn], u)>>
    /\ \A r \in Shards \ {s} : outbox'[r] = outbox[r]
    /\ Moves(Lines, Lines', <<"inbox", s>>, <<"outbox", s>>, u)
    /\ Inbox(s) # <<>> /\ Head(Inbox(s)) = t
    /\ Inbox(s)' = Tail(Inbox(s)) /\ InboxesKept(Shards \ {s})
    /\ log' = [log EXCEPT ![s] = @ \o Accesses(t.conn, t.seq, t.index, t.cmd, db[s])]
    /\ UNCHANGED next_seq

\* A completion or a flush runs.
LeaveStep(s, t) ==
    /\ t \in Task
    /\ Leaves(Lines, Lines', <<"inbox", s>>)
    /\ Inbox(s) # <<>> /\ Head(Inbox(s)) = t
    /\ Inbox(s)' = Tail(Inbox(s)) /\ InboxesKept(Shards \ {s})
    /\ UNCHANGED <<outbox, log, next_seq>>

FlowStep ==
    \/ QuietStep
    \/ \E s \in Shards, c \in Conns : \E slot, q : DispatchStep(s, c, slot, q)
    \/ \E s \in Shards : \E to, t : PostStep(s, to, t)
    \/ \E s \in Shards : \E t, u : ExecStep(s, t, u)
    \/ \E s \in Shards : \E t : LeaveStep(s, t)

\* A slot that is ready when it is opened waits for no task.
LEMMA ReadyOpens ==
    ASSUME NEW c, NEW n \in Nat, NEW r \in Reply, NEW new,
           \A i \in 1 .. Len(new) : new[i].type = "flush"
    PROVE  ReadySlot(n, r) \in Slot /\ Opens(ReadySlot(n, r), new, c, n)
<1>1. /\ ReadySlot(n, r).seq = n /\ ReadySlot(n, r).ready = TRUE
      /\ ReadySlot(n, r).remaining = 0
  BY DEF ReadySlot
<1> QED
  BY <1>1, NewSlotType DEF Opens

\* Every case of dispatch() opens one slot, and posts what the slot waits for.
LEMMA DispatchCases ==
    ASSUME ShardInvariant, TypeOK', NEW s \in Shards, NEW c \in Conns, Dispatch(s, c)
    PROVE  \E slot, q : DispatchStep(s, c, slot, q)
<1>0. /\ TypeOK /\ outbox[s] = <<>> /\ busy[s] = c /\ in[c] # <<>> /\ c # NoConn
  BY ShardAssumption DEF ShardAssumption, ShardInvariant, Dispatch, ProtocolError,
     DispatchKeyless, DispatchFlushall, DispatchLocal, DispatchForward, DispatchMultikey,
     DispatchCrossslot, Dispatching, Parsing
<1>1. Home[c] = s /\ status[c] = "open"
  BY <1>0 DEF ShardInvariant, OneHandlerAtATime
<1>2. PICK cmd : cmd = Head(in[c])
  OBVIOUS
<1>3. PICK n \in Nat : n = next_seq[c]
  BY <1>0 DEF TypeOK
<1>4. PICK d : d = db[s]
  OBVIOUS
<1>5. cmd \in AllCommands /\ d \in Db
  BY <1>0, <1>2, <1>4, HeadTailProperties DEF TypeOK
<1>6. Len(cmd.keys) \in Nat /\ Answer(cmd, d) \in Reply
  BY <1>5, CommandKeys, AnswerType DEF Reply
<1>7. Ok \in Reply /\ Err("CROSSSLOT") \in Reply /\ Err("PROTOCOL") \in Reply
  BY DEF Ok, Err, Reply, HandlerReply, ScalarReply, ErrorCodes
<1>8. ASSUME NEW slot \in Slot, NEW q \in Seq([to : Shards, task : Task]),
             Opens(slot, TasksOf(q), c, n), Submit(c, slot),
             outbox' = [outbox EXCEPT ![s] = q], UNCHANGED <<status, mailbox, batch>>,
             \/ log' = log
             \/ q = <<>> /\ log' = [log EXCEPT ![s] = @ \o Accesses(c, n, 1, cmd, d)]
      PROVE  \E sl, p : DispatchStep(s, c, sl, p)
  <2>1. outbox'[s] = q /\ \A r \in Shards \ {s} : outbox'[r] = outbox[r]
    BY <1>0, <1>8 DEF TypeOK
  <2>2. Posts(Lines, Lines', <<"outbox", s>>, TasksOf(q)) /\ InboxesKept(Shards)
    BY <1>0, <1>8, <2>1, DispatchLines DEF InboxesKept
  <2>3. /\ pipeline' = [pipeline EXCEPT ![c] = Append(@, slot)]
        /\ next_seq' = [next_seq EXCEPT ![c] = @ + 1]
    BY <1>8 DEF Submit
  <2>4. \/ log' = log
        \/ /\ q = <<>>
           /\ \E x \in AllCommands :
                 log' = [log EXCEPT ![s] = @ \o Accesses(c, next_seq[c], 1, x, db[s])]
    BY <1>3, <1>4, <1>5, <1>8
  <2>5. Opens(slot, TasksOf(q), c, next_seq[c])
    BY <1>3, <1>8
  <2>6. DispatchStep(s, c, slot, q)
    BY <1>0, <1>1, <1>8, <2>1, <2>2, <2>3, <2>4, <2>5 DEF DispatchStep
  <2> QED
    BY <2>6
\* Cases that post nothing.
<1>9. ASSUME NEW r \in Reply, Submit(c, ReadySlot(n, r)),
             UNCHANGED <<status, mailbox, batch, outbox>>,
             \/ log' = log
             \/ log' = [log EXCEPT ![s] = @ \o Accesses(c, n, 1, cmd, d)]
      PROVE  \E sl, p : DispatchStep(s, c, sl, p)
  <2> DEFINE q == <<>>
  <2>1. q \in Seq([to : Shards, task : Task]) /\ TasksOf(q) = <<>>
    BY DEF TasksOf
  <2>2. \A i \in 1 .. Len(TasksOf(q)) : TasksOf(q)[i].type = "flush"
    BY <2>1
  <2>3. outbox' = [outbox EXCEPT ![s] = q] /\ q = <<>>
    BY <1>0, <1>9 DEF TypeOK
  <2> DEFINE slot == ReadySlot(n, r)
  <2> HIDE DEF q
  <2>4. slot \in Slot /\ Opens(slot, TasksOf(q), c, n)
    BY <1>9, <2>2, ReadyOpens
  <2> HIDE DEF slot
  <2> QED
    BY <1>8, <1>9, <2>1, <2>3, <2>4 DEF slot
<1>10. CASE ProtocolError(s, c)
  <2>1. /\ Submit(c, ReadySlot(n, Err("PROTOCOL"))) /\ log' = log
        /\ UNCHANGED <<status, mailbox, batch, outbox>>
    BY <1>3, <1>10 DEF ProtocolError
  <2> QED
    BY <1>7, <1>9, <2>1
<1>11. CASE DispatchKeyless(s, c)
  <2>1. /\ Submit(c, ReadySlot(n, Answer(cmd, d))) /\ log' = log
        /\ UNCHANGED <<status, mailbox, batch, outbox>>
    BY <1>2, <1>3, <1>4, <1>11 DEF DispatchKeyless, Dispatching
  <2> QED
    BY <1>6, <1>9, <2>1
<1>12. CASE DispatchCrossslot(s, c)
  <2>1. /\ Submit(c, ReadySlot(n, Err("CROSSSLOT"))) /\ log' = log
        /\ UNCHANGED <<status, mailbox, batch, outbox>>
    BY <1>3, <1>12 DEF DispatchCrossslot, Dispatching
  <2> QED
    BY <1>7, <1>9, <2>1
<1>13. CASE DispatchLocal(s, c)
  <2>1. /\ Submit(c, ReadySlot(n, Answer(cmd, d)))
        /\ log' = [log EXCEPT ![s] = @ \o Accesses(c, n, 1, cmd, d)]
        /\ UNCHANGED <<status, mailbox, batch, outbox>>
    BY <1>2, <1>3, <1>4, <1>13 DEF DispatchLocal, Dispatching
  <2> QED
    BY <1>6, <1>9, <2>1
<1>14. CASE DispatchFlushall(s, c)
  <2> DEFINE slot == ReadySlot(n, Ok)
             q == FlushPosts(s)
  <2>1. /\ Submit(c, slot) /\ log' = log /\ outbox' = [outbox EXCEPT ![s] = q]
        /\ UNCHANGED <<status, mailbox, batch>>
    BY <1>3, <1>14 DEF DispatchFlushall, Dispatching
  <2>2. /\ q \in Seq([to : Shards, task : Task])
        /\ \A i \in 1 .. Len(q) : q[i].task = FlushTask
    BY FlushPostsType
  <2> HIDE DEF q
  <2>3. \A i \in 1 .. Len(TasksOf(q)) : TasksOf(q)[i].type = "flush"
    <3>1. FlushTask.type = "flush"
      BY DEF FlushTask
    <3>2. Len(TasksOf(q)) = Len(q) /\ \A i \in 1 .. Len(q) : TasksOf(q)[i] = q[i].task
      BY <2>2, TasksOfType
    <3> QED
      BY <2>2, <3>1, <3>2
  <2>4. slot \in Slot /\ Opens(slot, TasksOf(q), c, n)
    BY <1>7, <2>3, ReadyOpens
  <2> HIDE DEF slot
  <2> QED
    BY <1>8, <2>1, <2>2, <2>4
\* Cases that wait.
<1>15. CASE DispatchForward(s, c)
  <2> DEFINE slot == PendingSlot(n, "Single", 1)
             t == ExecTask(c, n, 1, FALSE, cmd)
             to == Owner[cmd.keys[1]]
             q == <<To(to, t)>>
  <2>1. /\ Submit(c, slot) /\ log' = log /\ outbox' = [outbox EXCEPT ![s] = q]
        /\ UNCHANGED <<status, mailbox, batch>> /\ cmd.keys # <<>> /\ ~SpansShards(cmd)
    BY <1>2, <1>3, <1>15 DEF DispatchForward, Dispatching
  <2>2. slot \in Slot /\ slot.seq = n /\ slot.ready = FALSE /\ slot.remaining = 1
    <3>1. slot.seq = n /\ slot.ready = FALSE /\ slot.remaining = 1
      BY DEF PendingSlot
    <3>2. slot \in Slot
      BY NewSlotType DEF Kinds
    <3> QED
      BY <3>1, <3>2
  <2>3. t \in Exec /\ t.conn = c /\ t.seq = n
    BY <1>5 DEF ExecTask, Exec
  <2>4. to \in Shards
    BY <1>5, <2>1, OneOwner, ShardAssumption DEF ShardAssumption
  <2> HIDE DEF slot, t, to
  <2>5. q \in Seq([to : Shards, task : Task]) /\ TasksOf(q) = <<t>>
    <3>1. To(to, t) \in [to : Shards, task : Task] /\ To(to, t).task = t
      BY <2>3, <2>4 DEF To, Task
    <3> HIDE DEF To
    <3> QED
      BY <3>1 DEF TasksOf
  <2>6. Opens(slot, <<t>>, c, n)
    BY <2>2, <2>3 DEF Opens
  <2> HIDE DEF q
  <2> QED
    BY <1>8, <2>1, <2>2, <2>5, <2>6
<1>16. CASE DispatchMultikey(s, c)
  <2>0. PICK whole \in ReadPairs(cmd) :
            outbox' = [outbox EXCEPT ![s] = Fragments(c, n, whole)]
    BY <1>2, <1>3, <1>16 DEF DispatchMultikey
  <2> DEFINE m == Len(cmd.keys)
             slot == PendingSlot(n, SlotKind(cmd), m)
             q == Fragments(c, n, whole)
             new == TasksOf(q)
  <2>1. /\ Submit(c, slot) /\ log' = log /\ outbox' = [outbox EXCEPT ![s] = q]
        /\ UNCHANGED <<status, mailbox, batch>> /\ SpansShards(cmd)
    BY <1>2, <1>3, <1>16, <2>0 DEF DispatchMultikey, Dispatching
  <2>12. whole \in AllCommands /\ WholePairs(whole) /\ whole.keys = cmd.keys
    BY <1>5, <2>0, ReadPairsType
  <2>2. m \in Nat \ {0}
    BY <1>6, <2>1 DEF SpansShards, KeysOf
  <2>3. slot \in Slot /\ slot.seq = n /\ slot.ready = FALSE /\ slot.remaining = m
    <3>1. slot.seq = n /\ slot.ready = FALSE /\ slot.remaining = m
      BY DEF PendingSlot
    <3>2. SlotKind(cmd) \in Kinds
      BY DEF SlotKind, Kinds
    <3>3. slot \in Slot
      <4> HIDE DEF m
      <4> QED
        BY <2>2, <3>2, NewSlotType
    <3> QED
      BY <3>1, <3>3
  <2>4. /\ q \in Seq([to : Shards, task : Task]) /\ Len(q) = m
        /\ \A i \in 1 .. m : /\ q[i].task.type = "exec"
                             /\ q[i].task.cmd = SubCommand(whole, i)
    <3>1. /\ q \in Seq([to : Shards, task : Task]) /\ Len(q) = Len(whole.keys)
          /\ \A i \in 1 .. Len(whole.keys) : /\ q[i].task.type = "exec"
                                             /\ q[i].task.cmd = SubCommand(whole, i)
      BY <1>3, <2>12, FragmentsType
    <3> HIDE DEF q
    <3> QED
      BY <2>12, <3>1
  <2>5. \A i \in 1 .. m : q[i].task.conn = c /\ q[i].task.seq = n /\ q[i].task.index = i
    BY <2>2, <2>12 DEF Fragments, To, ExecTask
  <2>6. \A i \in 1 .. m : Len(SubCommand(whole, i).keys) = 1
    BY DEF SubCommand, Command
  <2> HIDE DEF q, slot
  <2>7. /\ new \in Seq(Task) /\ Len(new) = m
        /\ \A i \in 1 .. m : new[i] = q[i].task
    BY <2>4, TasksOfType
  <2> HIDE DEF new, m
  <2>8. \A i \in 1 .. m : new[i] \in Task /\ new[i].type = "exec"
    BY <2>4, <2>7, ElementOfSeq
  <2>9. \A i \in 1 .. m : new[i] \in Exec
    BY <2>8 DEF Task, Exec, Done, FlushTask
  <2>10. \A i \in 1 .. Len(new) : /\ new[i] \in Exec /\ new[i].conn = c /\ new[i].seq = n
                                  /\ new[i].index = i /\ Len(new[i].cmd.keys) = 1
    BY <2>4, <2>5, <2>6, <2>7, <2>9
  <2>11. Opens(slot, new, c, n)
    BY <2>2, <2>3, <2>7, <2>10 DEF Opens
  <2> QED
    BY <1>8, <2>1, <2>3, <2>4, <2>11 DEF new
<1> QED
  BY <1>10, <1>11, <1>12, <1>13, <1>14, <1>15, <1>16 DEF Dispatch

\* Every step is of one of these kinds.
LEMMA FlowCases ==
    ASSUME ShardInvariant, TypeOK', Next
    PROVE  FlowStep
<1>0. TypeOK
  BY DEF ShardInvariant
<1>1. ASSUME UNCHANGED <<mailbox, batch, outbox, log, next_seq>> PROVE FlowStep
  BY <1>1, SameLines DEF FlowStep, QuietStep, InboxesKept
<1>2. ASSUME NEW c \in Conns,
             Accept(c) \/ HandleReadable(c) \/ HandleWritable(c) \/ HandleError(c)
      PROVE  FlowStep
  BY <1>1, <1>2 DEF Accept, HandleReadable, HandleWritable, HandleError
<1>3. ASSUME NEW s \in Shards, NEW c \in Conns, FinishReadable(s, c) PROVE FlowStep
  BY <1>1, <1>3 DEF FinishReadable
<1>4. ASSUME NEW s \in Shards, NEW c \in Conns, Dispatch(s, c) PROVE FlowStep
  BY <1>4, DispatchCases DEF FlowStep
<1>5. ASSUME NEW s \in Shards, Post(s) PROVE FlowStep
  <2>1. PICK to \in Shards, t \in Task :
              /\ outbox[s] # <<>> /\ Head(outbox[s]).to = to /\ Head(outbox[s]).task = t
              /\ Inbox(to)' = Append(Inbox(to), t)
              /\ \A r \in Shards \ {to} : Inbox(r)' = Inbox(r)
              /\ Moves(Lines, Lines', <<"outbox", s>>, <<"inbox", to>>, t)
    BY <1>0, <1>5, PostLines
  <2>2. /\ outbox'[s] = Tail(outbox[s]) /\ \A r \in Shards \ {s} : outbox'[r] = outbox[r]
        /\ UNCHANGED <<log, next_seq>>
    BY <1>0, <1>5 DEF Post, TypeOK
  <2>3. PostStep(s, to, t)
    BY <2>1, <2>2 DEF PostStep, InboxesKept
  <2> QED
    BY <2>3 DEF FlowStep
<1>6. ASSUME NEW s \in Shards, Drain(s) PROVE FlowStep
  BY <1>0, <1>6, DrainLines DEF Drain, FlowStep, QuietStep, InboxesKept
<1>7. ASSUME NEW s \in Shards, RunExec(s) PROVE FlowStep
  <2>1. PICK t \in Exec, u \in Done :
              /\ t = Head(batch[s]) /\ outbox[s] = <<>>
              /\ u.conn = t.conn /\ u.seq = t.seq /\ u.index = t.index
              /\ outbox' = [outbox EXCEPT ![s] = <<To(Home[t.conn], u)>>]
              /\ Inbox(s) # <<>> /\ Head(Inbox(s)) = t /\ Inbox(s)' = Tail(Inbox(s))
              /\ \A r \in Shards \ {s} : Inbox(r)' = Inbox(r)
              /\ Moves(Lines, Lines', <<"inbox", s>>, <<"outbox", s>>, u)
    BY <1>0, <1>7, ExecLines
  <2>2. /\ log' = [log EXCEPT ![s] = @ \o Accesses(t.conn, t.seq, t.index, t.cmd, db[s])]
        /\ UNCHANGED next_seq
    BY <1>7, <2>1 DEF RunExec
  <2>3. outbox'[s] = <<To(Home[t.conn], u)>> /\ \A r \in Shards \ {s} : outbox'[r] = outbox[r]
    BY <1>0, <2>1 DEF TypeOK
  <2>4. ExecStep(s, t, u)
    BY <2>1, <2>2, <2>3 DEF ExecStep, InboxesKept
  <2> QED
    BY <2>4 DEF FlowStep
<1>8. ASSUME NEW s \in Shards, NEW type, Running(s, type),
             UNCHANGED <<mailbox, outbox, log, next_seq>>
      PROVE  FlowStep
  <2>1. PICK t \in Task :
              /\ Inbox(s) # <<>> /\ Head(Inbox(s)) = t /\ Inbox(s)' = Tail(Inbox(s))
              /\ \A r \in Shards \ {s} : Inbox(r)' = Inbox(r)
    BY <1>0, <1>8, RunInbox
  <2>2. Leaves(Lines, Lines', <<"inbox", s>>)
    BY <1>0, <1>8, RunLines
  <2>3. LeaveStep(s, t)
    BY <1>8, <2>1, <2>2 DEF LeaveStep, InboxesKept
  <2> QED
    BY <2>3 DEF FlowStep
<1>9. ASSUME NEW s \in Shards, RunFlush(s) \/ RunDone(s) \/ DropDone(s) PROVE FlowStep
  BY <1>8, <1>9 DEF RunFlush, RunDone, DropDone
<1> QED
  BY <1>2, <1>3, <1>4, <1>5, <1>6, <1>7, <1>9 DEF Next, RunTask

-----------------------------------------------------------------------------
(* Tasks are numbered, apart from each other and not yet executed.         *)

\* What holds of every task, or of every two, is carried along when each task
\* stands for one that was there.
LEMMA CarriedAlong ==
    ASSUME NEW before \in AllLines, NEW after \in AllLines,
           NEW f \in [Positions(after) -> Positions(before)],
           \A p1, p2 \in Positions(after) : f[p1] = f[p2] => p1 = p2,
           \A p \in Positions(after) : StandsFor(after[p[1]][p[2]], before[f[p][1]][f[p][2]])
    PROVE  /\ \A n : AllNumbered(before, n) => AllNumbered(after, n)
           /\ AllApart(before) => AllApart(after)
           /\ \A lg : AllFresh(before, lg) => AllFresh(after, lg)
<1> DEFINE a(p) == after[p[1]][p[2]]
           b(p) == before[p[1]][p[2]]
<1>1. ASSUME NEW p \in Positions(after)
      PROVE  /\ f[p] \in Positions(before)
             /\ a(p).type = "flush" <=> b(f[p]).type = "flush"
             /\ a(p).type = "exec" => a(p) = b(f[p])
             /\ a(p).type # "flush" => /\ a(p).conn = b(f[p]).conn
                                       /\ a(p).seq = b(f[p]).seq
                                       /\ a(p).index = b(f[p]).index
  <2>1. a(p) \in Task /\ b(f[p]) \in Task /\ f[p] \in Positions(before)
    BY TaskAt
  <2>2. StandsFor(a(p), b(f[p]))
    OBVIOUS
  <2> HIDE DEF a, b
  <2> QED
    BY <2>1, <2>2, StandsForSlot
<1>2. ASSUME NEW n, AllNumbered(before, n) PROVE AllNumbered(after, n)
  <2>1. \A p \in Positions(before) : b(p).type # "flush" => b(p).seq < n[b(p).conn]
    BY <1>2 DEF AllNumbered
  <2>2. \A p \in Positions(after) : a(p).type # "flush" => a(p).seq < n[a(p).conn]
    <3> HIDE DEF a, b
    <3> QED
      BY <1>1, <2>1
  <2> QED
    BY <2>2 DEF AllNumbered
<1>3. ASSUME AllApart(before) PROVE AllApart(after)
  <2>1. \A p1, p2 \in Positions(before) : p1 # p2 => Apart(b(p1), b(p2))
    BY <1>3 DEF AllApart
  <2>2. ASSUME NEW p1 \in Positions(after), NEW p2 \in Positions(after), p1 # p2
        PROVE  Apart(a(p1), a(p2))
    <3>1. f[p1] \in Positions(before) /\ f[p2] \in Positions(before) /\ f[p1] # f[p2]
      BY <2>2
    <3>2. Apart(b(f[p1]), b(f[p2]))
      BY <2>1, <3>1
    <3> HIDE DEF a, b
    <3> QED
      BY <1>1, <3>2 DEF Apart
  <2> QED
    BY <2>2 DEF AllApart
<1>4. ASSUME NEW lg, AllFresh(before, lg) PROVE AllFresh(after, lg)
  <2>1. \A p \in Positions(before) : \A s \in Shards : \A i \in 1 .. Len(lg[s]) :
          b(p).type = "exec" /\ lg[s][i].conn = b(p).conn /\ lg[s][i].seq = b(p).seq
            => lg[s][i].index \notin Span(b(p))
    BY <1>4 DEF AllFresh
  <2>2. \A p \in Positions(after) : \A s \in Shards : \A i \in 1 .. Len(lg[s]) :
          a(p).type = "exec" /\ lg[s][i].conn = a(p).conn /\ lg[s][i].seq = a(p).seq
            => lg[s][i].index \notin Span(a(p))
    <3> TAKE p \in Positions(after)
    <3> TAKE s \in Shards
    <3> TAKE i \in 1 .. Len(lg[s])
    <3> HAVE a(p).type = "exec" /\ lg[s][i].conn = a(p).conn /\ lg[s][i].seq = a(p).seq
    <3>1. a(p) = b(f[p]) /\ f[p] \in Positions(before)
      BY <1>1
    <3> HIDE DEF a, b
    <3> QED
      BY <2>1, <3>1
  <2> QED
    BY <2>2 DEF AllFresh
<1> QED
  BY <1>2, <1>3, <1>4

LEMMA MoveCarries ==
    ASSUME NEW before \in AllLines, NEW after \in AllLines, NEW x, NEW y, NEW u,
           Moves(before, after, x, y, u)
    PROVE  /\ \A n : AllNumbered(before, n) => AllNumbered(after, n)
           /\ AllApart(before) => AllApart(after)
           /\ \A lg : AllFresh(before, lg) => AllFresh(after, lg)
<1>1. PICK f \in Bijection(Positions(after), Positions(before)) :
         \A p \in Positions(after) : StandsFor(after[p[1]][p[2]], before[f[p][1]][f[p][2]])
  BY MoveMap DEF MovedBy
<1>2. /\ f \in [Positions(after) -> Positions(before)]
      /\ \A p1, p2 \in Positions(after) : f[p1] = f[p2] => p1 = p2
  BY DEF Bijection, Injection, IsInjective
<1> QED
  BY <1>1, <1>2, CarriedAlong

LEMMA LeaveCarries ==
    ASSUME NEW before \in AllLines, NEW after \in AllLines, NEW x, Leaves(before, after, x)
    PROVE  /\ \A n : AllNumbered(before, n) => AllNumbered(after, n)
           /\ AllApart(before) => AllApart(after)
           /\ \A lg : AllFresh(before, lg) => AllFresh(after, lg)
<1>1. PICK f \in Bijection(Positions(after), Positions(before) \ {<<x, 1>>}) :
         \A p \in Positions(after) : after[p[1]][p[2]] = before[f[p][1]][f[p][2]]
  BY LeaveMap
<1>2. /\ f \in [Positions(after) -> Positions(before)]
      /\ \A p1, p2 \in Positions(after) : f[p1] = f[p2] => p1 = p2
  BY DEF Bijection, Injection, IsInjective
<1>3. \A p \in Positions(after) : StandsFor(after[p[1]][p[2]], before[f[p][1]][f[p][2]])
  BY <1>1 DEF StandsFor
<1> QED
  BY <1>2, <1>3, CarriedAlong

\* The other requests differ from the one that has just been executed.
LEMMA OthersApart ==
    ASSUME NEW before \in AllLines, NEW after \in AllLines, NEW x, NEW y, NEW u \in Done,
           Moves(before, after, x, y, u), AllApart(before), NEW p \in Positions(after),
           after[p[1]][p[2]].type = "exec"
    PROVE  Apart(after[p[1]][p[2]], Head(before[x]))
<1>1. PICK f \in Bijection(Positions(after), Positions(before)) :
         MovedBy(f, before, after, x, u)
  BY MoveMap
<1>2. f[p] \in Positions(before)
  BY DEF Bijection, Injection
<1>3. u.type = "done"
  BY DEF Done
<1>4. f[p] # <<x, 1>>
  BY <1>1, <1>3 DEF MovedBy
<1>5. x \in Places /\ before[x] \in Seq(Task) /\ before[x] # <<>>
  BY DEF Moves, AllLines
<1>6. Len(before[x]) \in Nat \ {0} /\ Head(before[x]) = before[x][1]
  BY <1>5, HeadTailProperties, EmptySeq
<1>7. <<x, 1>> \in Positions(before)
  BY <1>5, <1>6, PositionIn
<1>8. Apart(before[f[p][1]][f[p][2]], before[x][1])
  BY <1>2, <1>4, <1>7 DEF AllApart
<1>9. after[p[1]][p[2]] = before[f[p][1]][f[p][2]]
  <2>1. after[p[1]][p[2]] \in Task /\ before[f[p][1]][f[p][2]] \in Task
    BY <1>2, TaskAt
  <2>2. StandsFor(after[p[1]][p[2]], before[f[p][1]][f[p][2]])
    BY <1>1 DEF MovedBy
  <2> QED
    BY <2>1, <2>2, StandsForSlot
<1> QED
  BY <1>6, <1>8, <1>9

\* A history in which the numbers from next on do not occur.
Older(lg, next) ==
    \A s \in Shards : \A i \in 1 .. Len(lg[s]) :
       lg[s][i].conn \in Conns /\ lg[s][i].seq < next[lg[s][i].conn]

\* What dispatch() posts gets a new number.
LEMMA PostCarries ==
    ASSUME NEW before \in AllLines, NEW after \in AllLines, NEW x, NEW new \in Seq(Task),
           Posts(before, after, x, new),
           NEW next \in [Conns -> Nat], NEW c \in Conns, NEW slot, Opens(slot, new, c, next[c]),
           AllNumbered(before, next)
    PROVE  /\ AllNumbered(after, [next EXCEPT ![c] = @ + 1])
           /\ AllApart(before) => AllApart(after)
           /\ \A lg : AllFresh(before, lg) /\ Older(lg, next) => AllFresh(after, lg)
<1> DEFINE n == next[c]
           b(p) == before[p[1]][p[2]]
           a(p) == after[p[1]][p[2]]
           next2 == [next EXCEPT ![c] = @ + 1]
<1>0. n \in Nat /\ \A d \in Conns : next2[d] = IF d = c THEN n + 1 ELSE next[d]
  OBVIOUS
<1>1. /\ \A p : p \in Positions(after) <=> \/ p \in Positions(before)
                                            \/ \E i \in 1 .. Len(new) : p = <<x, i>>
      /\ \A p \in Positions(before) : a(p) = b(p) /\ \A i \in 1 .. Len(new) : p # <<x, i>>
      /\ after[x] = new
  BY PostPositions
<1>2. \A i \in 1 .. Len(new) : /\ new[i] \in Task
                               /\ new[i].type # "flush" => /\ new[i].type = "exec"
                                                           /\ new[i].conn = c /\ new[i].seq = n
  <2>1. \A i \in 1 .. Len(new) : new[i] \in Task
    BY ElementOfSeq
  <2> QED
    BY <2>1 DEF Opens, Exec
<1>3. \A i, j \in 1 .. Len(new) : i # j => Apart(new[i], new[j])
  BY DEF Opens, Apart
<1>4. \A p \in Positions(before) : /\ b(p) \in Task
                                   /\ b(p).type # "flush" => b(p).seq < next[b(p).conn]
  BY TaskAt DEF AllNumbered
<1>5. \A t \in Task : t.type # "flush" => t.conn \in Conns /\ t.seq \in Nat
  BY DEF Task, Exec, Done, FlushTask
<1>6. \A p \in Positions(after) : \/ p \in Positions(before) /\ a(p) = b(p)
                                  \/ \E i \in 1 .. Len(new) : p = <<x, i>> /\ a(p) = new[i]
  BY <1>1
<1> HIDE DEF a, b, n, next2
<1>7. AllNumbered(after, next2)
  <2>1. ASSUME NEW p \in Positions(after), a(p).type # "flush"
        PROVE  a(p).seq < next2[a(p).conn]
    <3>1. CASE p \in Positions(before) /\ a(p) = b(p)
      <4>1. b(p).conn \in Conns /\ b(p).seq \in Nat /\ b(p).seq < next[b(p).conn]
        BY <1>4, <1>5, <2>1, <3>1
      <4>2. next[b(p).conn] \in Nat
        BY <4>1
      <4> QED
        BY <1>0, <3>1, <4>1, <4>2 DEF n
    <3>2. ASSUME NEW i \in 1 .. Len(new), a(p) = new[i] PROVE a(p).seq < next2[a(p).conn]
      BY <1>0, <1>2, <2>1, <3>2
    <3> QED
      BY <1>6, <3>1, <3>2
  <2> QED
    BY <2>1 DEF AllNumbered, a
<1>8. ASSUME NEW p \in Positions(before), NEW i \in 1 .. Len(new)
      PROVE  Apart(b(p), new[i]) /\ Apart(new[i], b(p))
  <2>1. CASE b(p).type = "flush" \/ new[i].type = "flush"
    BY <2>1 DEF Apart
  <2>2. CASE b(p).type # "flush" /\ new[i].type # "flush"
    <3>1. b(p).seq < next[b(p).conn] /\ b(p).seq \in Nat /\ new[i].conn = c /\ new[i].seq = n
      BY <1>2, <1>4, <1>5, <2>2
    <3>2. ~(b(p).conn = new[i].conn /\ b(p).seq = new[i].seq)
      BY <1>0, <3>1 DEF n
    <3> QED
      BY <3>2 DEF Apart
  <2> QED
    BY <2>1, <2>2
<1>9. ASSUME AllApart(before) PROVE AllApart(after)
  <2>1. ASSUME NEW p1 \in Positions(after), NEW p2 \in Positions(after), p1 # p2
        PROVE  Apart(a(p1), a(p2))
    <3>1. CASE p1 \in Positions(before) /\ p2 \in Positions(before)
      <4>1. Apart(b(p1), b(p2))
        BY <1>9, <2>1, <3>1 DEF AllApart, b
      <4>2. a(p1) = b(p1) /\ a(p2) = b(p2)
        BY <1>1, <3>1
      <4> QED
        BY <4>1, <4>2
    <3>2. CASE p1 \in Positions(before) /\ p2 \notin Positions(before)
      <4>1. PICK i \in 1 .. Len(new) : p2 = <<x, i>> /\ a(p2) = new[i]
        BY <1>6, <3>2
      <4>2. a(p1) = b(p1)
        BY <1>1, <3>2
      <4> QED
        BY <1>8, <3>2, <4>1, <4>2
    <3>3. CASE p1 \notin Positions(before) /\ p2 \in Positions(before)
      <4>1. PICK i \in 1 .. Len(new) : p1 = <<x, i>> /\ a(p1) = new[i]
        BY <1>6, <3>3
      <4>2. a(p2) = b(p2)
        BY <1>1, <3>3
      <4> QED
        BY <1>8, <3>3, <4>1, <4>2
    <3>4. CASE p1 \notin Positions(before) /\ p2 \notin Positions(before)
      <4>1. PICK i \in 1 .. Len(new) : p1 = <<x, i>> /\ a(p1) = new[i]
        BY <1>6, <3>4
      <4>2. PICK j \in 1 .. Len(new) : p2 = <<x, j>> /\ a(p2) = new[j]
        BY <1>6, <3>4
      <4> QED
        BY <1>3, <2>1, <4>1, <4>2
    <3> QED
      BY <3>1, <3>2, <3>3, <3>4
  <2> QED
    BY <2>1 DEF AllApart, a
<1>10. ASSUME NEW lg, AllFresh(before, lg), Older(lg, next)
       PROVE  AllFresh(after, lg)
  <2>1. ASSUME NEW p \in Positions(after), NEW s \in Shards, NEW i \in 1 .. Len(lg[s]),
               a(p).type = "exec", lg[s][i].conn = a(p).conn, lg[s][i].seq = a(p).seq
        PROVE  lg[s][i].index \notin Span(a(p))
    <3>1. CASE p \in Positions(before) /\ a(p) = b(p)
      BY <1>10, <2>1, <3>1 DEF AllFresh, b
    <3>2. ASSUME NEW j \in 1 .. Len(new), a(p) = new[j] PROVE FALSE
      <4>1. a(p).conn = c /\ a(p).seq = n
        BY <1>2, <2>1, <3>2
      <4>2. lg[s][i].seq < next[lg[s][i].conn]
        BY <1>10 DEF Older
      <4> QED
        BY <1>0, <2>1, <4>1, <4>2 DEF n
    <3> QED
      BY <1>6, <3>1, <3>2
  <2> QED
    BY <2>1 DEF AllFresh, a
<1> QED
  BY <1>7, <1>9, <1>10 DEF next2

-----------------------------------------------------------------------------
(* The history.                                                            *)

EntriesFor(acc, c, q, first, cmd) ==
    /\ acc \in Seq(Access) /\ Len(acc) = Len(cmd.keys)
    /\ \A i \in 1 .. Len(acc) :
          acc[i].conn = c /\ acc[i].seq = q /\ acc[i].index = first + i - 1

\* The history entries of one command carry its number and consecutive indices.
LEMMA AccessesAt ==
    ASSUME NEW c \in Conns, NEW q \in Nat, NEW first \in Nat \ {0},
           NEW cmd \in AllCommands, NEW d \in Db
    PROVE  EntriesFor(Accesses(c, q, first, cmd, d), c, q, first, cmd)
<1> DEFINE acc == Accesses(c, q, first, cmd, d)
<1>1. acc \in Seq(Access)
  BY AccessesType
<1>2. Len(cmd.keys) \in Nat
  BY CommandKeys
<1>3. Len(acc) = Len(cmd.keys)
  BY <1>2 DEF Accesses
<1>4. \A i \in 1 .. Len(acc) :
         acc[i].conn = c /\ acc[i].seq = q /\ acc[i].index = first + i - 1
  BY <1>2, <1>3 DEF Accesses
<1> QED
  BY <1>1, <1>3, <1>4 DEF EntriesFor

\* after is the history before, with acc at the end of shard s.
Extends(before, after, s, acc) ==
    /\ \A r \in Shards : Len(before[r]) \in Nat /\ Len(after[r]) \in Nat
    /\ \A r \in Shards : Len(before[r]) <= Len(after[r])
    /\ \A r \in Shards : \A i \in 1 .. Len(before[r]) : after[r][i] = before[r][i]
    /\ \A r \in Shards : \A i \in 1 .. Len(after[r]) :
          \/ i \in 1 .. Len(before[r])
          \/ r = s /\ i - Len(before[s]) \in 1 .. Len(acc) /\ after[s][i] = acc[i - Len(before[s])]

LEMMA LogGrows ==
    ASSUME TypeOK, NEW s \in Shards, NEW acc \in Seq(Access),
           log' = [log EXCEPT ![s] = @ \o acc]
    PROVE  Extends(log, log', s, acc)
<1>1. /\ log[s] \in Seq(Access) /\ log'[s] = log[s] \o acc
      /\ \A r \in Shards \ {s} : log'[r] = log[r]
  BY DEF TypeOK
<1>2. \A r \in Shards : Len(log[r]) \in Nat
  BY LenProperties DEF TypeOK
<1>3. Len(acc) \in Nat
  BY LenProperties
<1>4. /\ Len(log[s] \o acc) = Len(log[s]) + Len(acc)
      /\ \A i \in 1 .. Len(log[s]) + Len(acc) :
            (log[s] \o acc)[i] = IF i <= Len(log[s]) THEN log[s][i] ELSE acc[i - Len(log[s])]
  BY <1>1, ConcatProperties
<1>5. ASSUME NEW r \in Shards
      PROVE  /\ Len(log[r]) \in Nat /\ Len(log'[r]) \in Nat /\ Len(log[r]) <= Len(log'[r])
             /\ \A i \in 1 .. Len(log[r]) : log'[r][i] = log[r][i]
             /\ \A i \in 1 .. Len(log'[r]) :
                  \/ i \in 1 .. Len(log[r])
                  \/ r = s /\ i - Len(log[s]) \in 1 .. Len(acc) /\ log'[s][i] = acc[i - Len(log[s])]
  <2>1. CASE r # s
    BY <1>1, <1>2, <2>1
  <2>2. CASE r = s
    BY <1>1, <1>2, <1>3, <1>4, <2>2
  <2> QED
    BY <2>1, <2>2
<1> QED
  BY <1>5 DEF Extends

\* Executing one request leaves the others to be executed.
LEMMA GrowFresh ==
    ASSUME NEW lines \in AllLines, NEW before, NEW after, NEW s \in Shards, NEW acc,
           Extends(before, after, s, acc), AllFresh(lines, before),
           \A p \in Positions(lines) : \A j \in 1 .. Len(acc) :
              LET t == lines[p[1]][p[2]]
              IN  t.type = "exec" /\ acc[j].conn = t.conn /\ acc[j].seq = t.seq
                     => acc[j].index \notin Span(t)
    PROVE  AllFresh(lines, after)
<1> DEFINE a(p) == lines[p[1]][p[2]]
<1>1. ASSUME NEW p \in Positions(lines), NEW r \in Shards, NEW i \in 1 .. Len(after[r]),
             a(p).type = "exec", after[r][i].conn = a(p).conn, after[r][i].seq = a(p).seq
      PROVE  after[r][i].index \notin Span(a(p))
  <2>1. CASE i \in 1 .. Len(before[r])
    <3>1. after[r][i] = before[r][i]
      BY <2>1 DEF Extends
    <3> QED
      BY <1>1, <2>1, <3>1 DEF AllFresh
  <2>2. CASE i \notin 1 .. Len(before[r])
    <3>1. r = s /\ i - Len(before[s]) \in 1 .. Len(acc) /\ after[s][i] = acc[i - Len(before[s])]
      BY <2>2 DEF Extends
    <3>2. PICK j \in 1 .. Len(acc) : after[r][i] = acc[j]
      BY <3>1
    <3> QED
      BY <1>1, <3>2
  <2> QED
    BY <2>1, <2>2
<1> QED
  BY <1>1 DEF AllFresh

\* A command that is executed for the first time is executed once.
LEMMA GrowOnce ==
    ASSUME TypeOK, TypeOK', AtMostOnce, NEW s \in Shards, NEW acc \in Seq(Access), NEW first \in Nat,
           NEW c, NEW q,
           Extends(log, log', s, acc),
           \A i \in 1 .. Len(acc) :
              acc[i].conn = c /\ acc[i].seq = q /\ acc[i].index = first + i - 1,
           \A i \in 1 .. Len(log[s]) : log[s][i].conn = c /\ log[s][i].seq = q =>
              log[s][i].index \notin first .. first + Len(acc) - 1
    PROVE  AtMostOnce'
<1>1. ASSUME NEW r \in Shards, NEW i \in 1 .. Len(log'[r]), NEW j \in 1 .. Len(log'[r]),
             log'[r][i].conn = log'[r][j].conn, log'[r][i].seq = log'[r][j].seq,
             log'[r][i].index = log'[r][j].index
      PROVE  i = j
  <2> DEFINE m == Len(log[s])
  <2>0. m \in Nat /\ Len(acc) \in Nat /\ Len(log[r]) \in Nat /\ Len(log'[r]) \in Nat
    BY LenProperties DEF Extends
  <2>1. CASE i \in 1 .. Len(log[r]) /\ j \in 1 .. Len(log[r])
    <3>1. log'[r][i] = log[r][i] /\ log'[r][j] = log[r][j]
      BY <2>1 DEF Extends
    <3> QED
      BY <1>1, <2>1, <3>1 DEF AtMostOnce
  <2>2. ASSUME NEW k \in 1 .. Len(log'[r]), k \notin 1 .. Len(log[r])
        PROVE  /\ r = s /\ k - m \in 1 .. Len(acc)
               /\ log'[r][k].conn = c /\ log'[r][k].seq = q
               /\ log'[r][k].index = first + (k - m) - 1
    <3>1. r = s /\ k - m \in 1 .. Len(acc) /\ log'[s][k] = acc[k - m]
      BY <2>2 DEF Extends
    <3>2. /\ acc[k - m].conn = c /\ acc[k - m].seq = q
          /\ acc[k - m].index = first + (k - m) - 1
      BY <3>1
    <3> QED
      BY <3>1, <3>2
  <2>3. ASSUME NEW k \in 1 .. Len(log[r]), r = s, log'[r][k].conn = c, log'[r][k].seq = q
        PROVE  log'[r][k].index \notin first .. first + Len(acc) - 1
    BY <2>3 DEF Extends
  <2>4. CASE i \notin 1 .. Len(log[r]) /\ j \in 1 .. Len(log[r])
    <3>1. /\ r = s /\ i - m \in 1 .. Len(acc)
          /\ log'[r][i].conn = c /\ log'[r][i].seq = q
          /\ log'[r][i].index = first + (i - m) - 1
      BY <2>2, <2>4
    <3>2. log'[r][j].index \notin first .. first + Len(acc) - 1
      BY <1>1, <2>3, <2>4, <3>1
    <3>3. ASSUME NEW k \in 1 .. Len(acc) PROVE first + k - 1 \in first .. first + Len(acc) - 1
      BY <2>0
    <3> QED
      BY <1>1, <3>1, <3>2, <3>3
  <2>5. CASE i \in 1 .. Len(log[r]) /\ j \notin 1 .. Len(log[r])
    <3>1. /\ r = s /\ j - m \in 1 .. Len(acc)
          /\ log'[r][j].conn = c /\ log'[r][j].seq = q
          /\ log'[r][j].index = first + (j - m) - 1
      BY <2>2, <2>5
    <3>2. log'[r][i].index \notin first .. first + Len(acc) - 1
      BY <1>1, <2>3, <2>5, <3>1
    <3>3. ASSUME NEW k \in 1 .. Len(acc) PROVE first + k - 1 \in first .. first + Len(acc) - 1
      BY <2>0
    <3> QED
      BY <1>1, <3>1, <3>2, <3>3
  <2>6. CASE i \notin 1 .. Len(log[r]) /\ j \notin 1 .. Len(log[r])
    <3>1. /\ log'[r][i].index = first + (i - m) - 1 /\ log'[r][j].index = first + (j - m) - 1
      BY <2>2, <2>6
    <3>2. first + (i - m) - 1 = first + (j - m) - 1
      BY <1>1, <3>1
    <3> QED
      BY <2>0, <3>2
  <2> QED
    BY <2>1, <2>4, <2>5, <2>6
<1> QED
  BY <1>1 DEF AtMostOnce

-----------------------------------------------------------------------------
(* Every task is executed at most once.                                    *)

TasksOnce ==
    /\ AllNumbered(Lines, next_seq)
    /\ AllApart(Lines)
    /\ AllFresh(Lines, log)
    /\ LogNumbered
    /\ AtMostOnce

\* The parts of TasksOnce after a step.
LEMMA NextOnce ==
    ASSUME AllNumbered(Lines', next_seq'), AllApart(Lines'), AllFresh(Lines', log'),
           LogNumbered', AtMostOnce'
    PROVE  TasksOnce'
<1>1. AllNumbered(Lines, next_seq)'
  BY DEF AllNumbered, Positions
<1>2. AllApart(Lines)'
  BY DEF AllApart, Apart, Positions
<1>3. AllFresh(Lines, log)'
  BY DEF AllFresh, Span, Positions
<1> QED
  BY <1>1, <1>2, <1>3 DEF TasksOnce

\* When the history stays, so does what is known of it.
LEMMA SameLog ==
    ASSUME TypeOK, LogNumbered, AtMostOnce, log' = log,
           \A c \in Conns : next_seq[c] \in Nat /\ next_seq'[c] \in Nat /\ next_seq[c] <= next_seq'[c]
    PROVE  LogNumbered' /\ AtMostOnce'
<1>1. ASSUME NEW s \in Shards, NEW i \in 1 .. Len(log[s])
      PROVE  log[s][i].seq < next_seq'[log[s][i].conn]
  <2>1. log[s][i] \in Access
    BY ElementOfSeq DEF TypeOK
  <2>2. log[s][i].conn \in Conns /\ log[s][i].seq \in Nat
    BY <2>1 DEF Access
  <2>3. log[s][i].seq < next_seq[log[s][i].conn]
    BY DEF LogNumbered
  <2> QED
    BY <2>2, <2>3
<1>2. LogNumbered'
  BY <1>1 DEF LogNumbered
<1>3. AtMostOnce'
  BY DEF AtMostOnce
<1> QED
  BY <1>2, <1>3

\* Entries for a number that has been taken.
LEMMA GrowNumbered ==
    ASSUME TypeOK, TypeOK', LogNumbered, NEW s \in Shards, NEW acc \in Seq(Access),
           Extends(log, log', s, acc),
           \A i \in 1 .. Len(acc) : acc[i].seq < next_seq'[acc[i].conn],
           \A c \in Conns : next_seq[c] \in Nat /\ next_seq'[c] \in Nat /\ next_seq[c] <= next_seq'[c]
    PROVE  LogNumbered'
<1>1. ASSUME NEW r \in Shards, NEW i \in 1 .. Len(log'[r])
      PROVE  log'[r][i].seq < next_seq'[log'[r][i].conn]
  <2>1. CASE i \in 1 .. Len(log[r])
    <3>1. log'[r][i] = log[r][i]
      BY <2>1 DEF Extends
    <3>2. log[r][i] \in Access
      BY <2>1, ElementOfSeq DEF TypeOK
    <3>3. log[r][i].conn \in Conns /\ log[r][i].seq \in Nat
      BY <3>2 DEF Access
    <3>4. log[r][i].seq < next_seq[log[r][i].conn]
      BY <2>1 DEF LogNumbered
    <3> QED
      BY <3>1, <3>3, <3>4
  <2>2. CASE i \notin 1 .. Len(log[r])
    <3>1. r = s /\ i - Len(log[s]) \in 1 .. Len(acc) /\ log'[s][i] = acc[i - Len(log[s])]
      BY <2>2 DEF Extends
    <3>2. PICK k \in 1 .. Len(acc) : log'[r][i] = acc[k]
      BY <3>1
    <3> QED
      BY <3>2
  <2> QED
    BY <2>1, <2>2
<1> QED
  BY <1>1 DEF LogNumbered

\* No step lets a task be executed twice.
LEMMA StepOnce ==
    ASSUME TypeOK, TypeOK', TasksOnce, FlowStep
    PROVE  TasksOnce'
<1>0. /\ Lines \in AllLines /\ Lines' \in AllLines
      /\ AllNumbered(Lines, next_seq) /\ AllApart(Lines) /\ AllFresh(Lines, log)
      /\ LogNumbered /\ AtMostOnce
      /\ next_seq \in [Conns -> Nat] /\ next_seq' \in [Conns -> Nat]
  BY LinesType, NextLines DEF LinesShape, TasksOnce, TypeOK
<1>1. CASE QuietStep
  <2>1. Lines' = Lines /\ log' = log /\ next_seq' = next_seq
    BY <1>1 DEF QuietStep
  <2>2. LogNumbered' /\ AtMostOnce'
    BY <1>0, <2>1, SameLog
  <2> QED
    BY <1>0, <2>1, <2>2, NextOnce
<1>2. ASSUME NEW s \in Shards, NEW c \in Conns, NEW slot, NEW q, DispatchStep(s, c, slot, q)
      PROVE  TasksOnce'
  <2> DEFINE new == TasksOf(q)
  <2>1. /\ q \in Seq([to : Shards, task : Task])
        /\ Opens(slot, new, c, next_seq[c])
        /\ next_seq' = [next_seq EXCEPT ![c] = @ + 1]
        /\ Posts(Lines, Lines', <<"outbox", s>>, new)
        /\ \/ log' = log
           \/ /\ q = <<>>
              /\ \E cmd \in AllCommands :
                    log' = [log EXCEPT ![s] = @ \o Accesses(c, next_seq[c], 1, cmd, db[s])]
    BY <1>2 DEF DispatchStep
  <2>2. new \in Seq(Task)
    BY <2>1, TasksOfType
  <2> HIDE DEF new
  <2>3. \A r \in Shards : \A i \in 1 .. Len(log[r]) :
           log[r][i].conn \in Conns /\ log[r][i].seq < next_seq[log[r][i].conn]
    <3>1. \A r \in Shards : \A i \in 1 .. Len(log[r]) : log[r][i] \in Access
      BY ElementOfSeq DEF TypeOK
    <3> QED
      BY <1>0, <3>1 DEF Access, LogNumbered
  <2>4. AllNumbered(Lines', next_seq') /\ AllApart(Lines') /\ AllFresh(Lines', log)
    <3>1. /\ AllNumbered(Lines', [next_seq EXCEPT ![c] = @ + 1])
          /\ AllApart(Lines) => AllApart(Lines')
      BY <1>0, <2>1, <2>2, PostCarries
    <3>2. Older(log, next_seq)
      BY <2>3 DEF Older
    <3>3. AllFresh(Lines', log)
      BY <1>0, <2>1, <2>2, <3>2, PostCarries
    <3> QED
      BY <1>0, <2>1, <3>1, <3>3
  <2>5. \A d \in Conns : next_seq[d] \in Nat /\ next_seq'[d] \in Nat /\ next_seq[d] <= next_seq'[d]
    BY <1>0, <2>1
  <2>6. CASE log' = log
    <3>1. LogNumbered' /\ AtMostOnce'
      BY <1>0, <2>5, <2>6, SameLog
    <3> QED
      BY <2>4, <2>6, <3>1, NextOnce
  <2>7. ASSUME NEW cmd \in AllCommands,
               log' = [log EXCEPT ![s] = @ \o Accesses(c, next_seq[c], 1, cmd, db[s])], q = <<>>
        PROVE  TasksOnce'
    <3> DEFINE acc == Accesses(c, next_seq[c], 1, cmd, db[s])
               n == next_seq[c]
    <3>0. db[s] \in Db
      BY DEF TypeOK
    <3>1. n \in Nat /\ n < next_seq'[c]
      BY <1>0, <2>1
    <3>2. /\ acc \in Seq(Access) /\ Len(acc) = Len(cmd.keys)
          /\ \A i \in 1 .. Len(acc) :
                acc[i].conn = c /\ acc[i].seq = n /\ acc[i].index = 1 + i - 1
      <4>1. 1 \in Nat \ {0}
        OBVIOUS
      <4>2. EntriesFor(acc, c, n, 1, cmd)
        <5> HIDE DEF n
        <5> QED
          BY <3>0, <3>1, <4>1, AccessesAt DEF n
      <4> QED
        BY <4>2 DEF EntriesFor
    <3> HIDE DEF acc
    <3>3. log' = [log EXCEPT ![s] = @ \o acc]
      BY <2>7 DEF acc
    <3>4. Extends(log, log', s, acc)
      BY <3>2, <3>3, LogGrows
    <3>5. AllFresh(Lines', log')
      <4>1. ASSUME NEW p \in Positions(Lines'), NEW j \in 1 .. Len(acc),
                   Lines'[p[1]][p[2]].type = "exec", acc[j].conn = Lines'[p[1]][p[2]].conn,
                   acc[j].seq = Lines'[p[1]][p[2]].seq
            PROVE  FALSE
        <5>1. new = <<>>
          BY <2>7 DEF new, TasksOf
        <5>2. /\ p \in Positions(Lines) \/ \E i \in 1 .. Len(new) : p = <<<<"outbox", s>>, i>>
              /\ p \in Positions(Lines) => Lines'[p[1]][p[2]] = Lines[p[1]][p[2]]
          BY <1>0, <2>1, <2>2, PostPositions
        <5>3. p \in Positions(Lines) /\ Lines'[p[1]][p[2]] = Lines[p[1]][p[2]]
          BY <5>1, <5>2
        <5>4. Lines[p[1]][p[2]].seq < next_seq[Lines[p[1]][p[2]].conn]
          BY <1>0, <4>1, <5>3 DEF AllNumbered
        <5>5. Lines[p[1]][p[2]].seq = n /\ Lines[p[1]][p[2]].conn = c
          BY <3>2, <4>1, <5>3
        <5> QED
          BY <3>1, <5>4, <5>5
      <4>2. \A p \in Positions(Lines') : \A j \in 1 .. Len(acc) :
              LET t == Lines'[p[1]][p[2]]
              IN  t.type = "exec" /\ acc[j].conn = t.conn /\ acc[j].seq = t.seq
                     => acc[j].index \notin Span(t)
        BY <4>1
      <4> QED
        BY <1>0, <2>4, <3>4, <4>2, GrowFresh
    <3>6. AtMostOnce'
      <4>1. \A i \in 1 .. Len(log[s]) : ~(log[s][i].conn = c /\ log[s][i].seq = n)
        BY <2>3, <3>1
      <4>2. 1 \in Nat
        OBVIOUS
      <4> HIDE DEF n
      <4>3. /\ AtMostOnce /\ n \in Nat /\ Extends(log, log', s, acc)
            /\ \A i \in 1 .. Len(acc) :
                  acc[i].conn = c /\ acc[i].seq = n /\ acc[i].index = 1 + i - 1
        BY <1>0, <3>1, <3>2, <3>4
      <4>4. acc \in Seq(Access)
        BY <3>2
      <4>5. \A i \in 1 .. Len(log[s]) : log[s][i].conn = c /\ log[s][i].seq = n =>
               log[s][i].index \notin 1 .. 1 + Len(acc) - 1
        BY <4>1
      <4> QED
        BY <4>2, <4>3, <4>4, <4>5, GrowOnce
    <3>7. LogNumbered'
      <4>1. \A i \in 1 .. Len(acc) : acc[i].seq < next_seq'[acc[i].conn]
        BY <3>1, <3>2
      <4> QED
        BY <1>0, <2>5, <3>2, <3>4, <4>1, GrowNumbered
    <3> QED
      BY <2>4, <3>5, <3>6, <3>7, NextOnce
  <2> QED
    BY <2>1, <2>6, <2>7
<1>3. ASSUME NEW s \in Shards, NEW to, NEW t, PostStep(s, to, t) PROVE TasksOnce'
  <2>1. /\ Moves(Lines, Lines', <<"outbox", s>>, <<"inbox", to>>, t)
        /\ log' = log /\ next_seq' = next_seq
    BY <1>3 DEF PostStep
  <2>2. AllNumbered(Lines', next_seq') /\ AllApart(Lines') /\ AllFresh(Lines', log')
    BY <1>0, <2>1, MoveCarries
  <2>3. LogNumbered' /\ AtMostOnce'
    BY <1>0, <2>1, SameLog
  <2> QED
    BY <2>2, <2>3, NextOnce
<1>4. ASSUME NEW s \in Shards, NEW t, LeaveStep(s, t) PROVE TasksOnce'
  <2>1. /\ Leaves(Lines, Lines', <<"inbox", s>>) /\ log' = log /\ next_seq' = next_seq
    BY <1>4 DEF LeaveStep
  <2>2. AllNumbered(Lines', next_seq') /\ AllApart(Lines') /\ AllFresh(Lines', log')
    BY <1>0, <2>1, LeaveCarries
  <2>3. LogNumbered' /\ AtMostOnce'
    BY <1>0, <2>1, SameLog
  <2> QED
    BY <2>2, <2>3, NextOnce
<1>5. ASSUME NEW s \in Shards, NEW t, NEW u, ExecStep(s, t, u) PROVE TasksOnce'
  <2> DEFINE x == <<"inbox", s>>
             y == <<"outbox", s>>
             acc == Accesses(t.conn, t.seq, t.index, t.cmd, db[s])
  <2>1. /\ t \in Exec /\ u \in Done /\ Moves(Lines, Lines', x, y, u)
        /\ Inbox(s) # <<>> /\ Head(Inbox(s)) = t
        /\ log' = [log EXCEPT ![s] = @ \o acc] /\ next_seq' = next_seq
    BY <1>5 DEF ExecStep
  <2>2. /\ t.conn \in Conns /\ t.seq \in Nat /\ t.index \in Nat \ {0} /\ t.cmd \in AllCommands
        /\ t.type = "exec" /\ Len(t.cmd.keys) \in Nat
    BY <2>1, CommandKeys DEF Exec
  <2>3. /\ acc \in Seq(Access) /\ Len(acc) = Len(t.cmd.keys)
        /\ \A i \in 1 .. Len(acc) :
              acc[i].conn = t.conn /\ acc[i].seq = t.seq /\ acc[i].index = t.index + i - 1
    <3>1. db[s] \in Db
      BY DEF TypeOK
    <3>2. EntriesFor(acc, t.conn, t.seq, t.index, t.cmd)
      BY <2>2, <3>1, AccessesAt
    <3> QED
      BY <3>2 DEF EntriesFor
  <2> HIDE DEF acc
  <2>4. Extends(log, log', s, acc)
    BY <2>1, <2>3, LogGrows
  <2>5. AllNumbered(Lines', next_seq') /\ AllApart(Lines') /\ AllFresh(Lines', log)
    BY <1>0, <2>1, MoveCarries
  <2>6. x \in Places /\ Lines[x] = Inbox(s) /\ Inbox(s) \in Seq(Task)
    BY LinesType, ShardPlaces DEF LinesShape
  <2>7. <<x, 1>> \in Positions(Lines) /\ Lines[x][1] = t
    <3>1. Len(Inbox(s)) \in Nat \ {0} /\ Head(Inbox(s)) = Inbox(s)[1]
      BY <2>1, <2>6, HeadTailProperties, EmptySeq
    <3> QED
      BY <1>0, <2>1, <2>6, <3>1, PositionIn
  <2> HIDE DEF x, y
  <2>8. AllFresh(Lines', log')
    <3>1. ASSUME NEW p \in Positions(Lines'), NEW j \in 1 .. Len(acc),
                 Lines'[p[1]][p[2]].type = "exec", acc[j].conn = Lines'[p[1]][p[2]].conn,
                 acc[j].seq = Lines'[p[1]][p[2]].seq
          PROVE  acc[j].index \notin Span(Lines'[p[1]][p[2]])
      <4>1. PICK v : v = Lines'[p[1]][p[2]]
        OBVIOUS
      <4>2. Apart(v, t)
        BY <1>0, <2>1, <2>6, <3>1, <4>1, OthersApart
      <4>3. v.conn = t.conn /\ v.seq = t.seq /\ v.type = "exec"
        BY <2>3, <3>1, <4>1
      <4>4. v.index # t.index /\ Len(v.cmd.keys) = 1 /\ Len(t.cmd.keys) = 1
        BY <2>2, <4>2, <4>3 DEF Apart
      <4>5. v \in Task
        BY <1>0, <4>1, TaskAt
      <4>6. v.index \in Nat
        BY <4>3, <4>5 DEF Task, Exec, Done, FlushTask
      <4>7. Len(acc) = 1
        BY <2>3, <4>4
      <4>8. acc[j].index = t.index
        BY <2>2, <2>3, <4>7
      <4>9. Span(v) = v.index .. v.index
        BY <4>4, <4>6 DEF Span
      <4> QED
        BY <2>2, <4>1, <4>4, <4>6, <4>8, <4>9
    <3>2. \A p \in Positions(Lines') : \A j \in 1 .. Len(acc) :
            LET v == Lines'[p[1]][p[2]]
            IN  v.type = "exec" /\ acc[j].conn = v.conn /\ acc[j].seq = v.seq
                   => acc[j].index \notin Span(v)
      BY <3>1
    <3> QED
      BY <1>0, <2>4, <2>5, <3>2, GrowFresh
  <2>9. AtMostOnce'
    <3>1. \A i \in 1 .. Len(log[s]) : log[s][i].conn = t.conn /\ log[s][i].seq = t.seq =>
             log[s][i].index \notin t.index .. t.index + Len(acc) - 1
      <4>1. PICK p \in Positions(Lines) : p = <<x, 1>>
        BY <2>7
      <4>2. Lines[p[1]][p[2]] = t
        BY <2>7, <4>1
      <4>3. \A i \in 1 .. Len(log[s]) : log[s][i].conn = t.conn /\ log[s][i].seq = t.seq =>
               log[s][i].index \notin Span(t)
        BY <1>0, <2>2, <4>2 DEF AllFresh
      <4> QED
        BY <2>3, <4>3 DEF Span
    <3>2. PICK c \in Conns, q \in Nat, first \in Nat : c = t.conn /\ q = t.seq /\ first = t.index
      BY <2>2
    <3> QED
      BY <1>0, <2>3, <2>4, <3>1, <3>2, GrowOnce
  <2>10. LogNumbered'
    <3>1. t.seq < next_seq[t.conn]
      BY <1>0, <2>2, <2>7 DEF AllNumbered
    <3>2. \A i \in 1 .. Len(acc) : acc[i].seq < next_seq'[acc[i].conn]
      BY <2>1, <2>3, <3>1
    <3>3. \A c \in Conns : /\ next_seq[c] \in Nat /\ next_seq'[c] \in Nat
                           /\ next_seq[c] <= next_seq'[c]
      BY <1>0, <2>1
    <3> QED
      BY <1>0, <2>3, <2>4, <3>2, <3>3, GrowNumbered
  <2> QED
    BY <2>5, <2>8, <2>9, <2>10, NextOnce
<1> QED
  BY <1>1, <1>2, <1>3, <1>4, <1>5 DEF FlowStep

-----------------------------------------------------------------------------
(* Requests of one connection run at another shard in the order they were  *)
(* sent.                                                                   *)

TasksOrdered ==
    /\ PostedFirst
    /\ InboxSorted
    /\ LogBeforeInbox
    /\ LogSorted

\* The requests in q come in the order of their numbers.
Sorted(q) ==
    \A i, j \in 1 .. Len(q) :
        i < j /\ q[i].type = "exec" /\ q[j].type = "exec" /\ q[i].conn = q[j].conn =>
            q[i].seq <= q[j].seq

\* What lg holds for connections of other shards than s was sent before what q
\* holds for them.
Precedes(lg, q, s) ==
    \A i \in 1 .. Len(lg), j \in 1 .. Len(q) :
        q[j].type = "exec" /\ lg[i].conn = q[j].conn /\ Home[q[j].conn] # s =>
            lg[i].seq <= q[j].seq

LEMMA OrderedBySeq ==
    /\ InboxSorted <=> \A s \in Shards : Sorted(Inbox(s))
    /\ LogBeforeInbox <=> \A s \in Shards : Precedes(log[s], Inbox(s), s)
BY DEF InboxSorted, LogBeforeInbox, Sorted, Precedes

LEMMA SortedTail ==
    ASSUME NEW q \in Seq(Task), q # <<>>, Sorted(q)
    PROVE  /\ Sorted(Tail(q))
           /\ \A lg, s : Precedes(lg, q, s) => Precedes(lg, Tail(q), s)
           /\ \A i \in 1 .. Len(Tail(q)) :
                 /\ Head(q).type = "exec" /\ Tail(q)[i].type = "exec"
                 /\ Tail(q)[i].conn = Head(q).conn
                 => Head(q).seq <= Tail(q)[i].seq
<1>1. /\ Len(q) \in Nat \ {0} /\ Head(q) = q[1] /\ Len(Tail(q)) = Len(q) - 1
      /\ \A i \in 1 .. Len(q) - 1 : Tail(q)[i] = q[i + 1]
  BY HeadTailProperties, EmptySeq
<1>2. Sorted(Tail(q))
  <2>1. ASSUME NEW i \in 1 .. Len(Tail(q)), NEW j \in 1 .. Len(Tail(q)), i < j
        PROVE  /\ Tail(q)[i] = q[i + 1] /\ Tail(q)[j] = q[j + 1]
               /\ i + 1 \in 1 .. Len(q) /\ j + 1 \in 1 .. Len(q) /\ i + 1 < j + 1
    BY <1>1, <2>1
  <2> QED
    BY <2>1 DEF Sorted
<1>3. ASSUME NEW lg, NEW s, Precedes(lg, q, s) PROVE Precedes(lg, Tail(q), s)
  <2>1. ASSUME NEW j \in 1 .. Len(Tail(q))
        PROVE  Tail(q)[j] = q[j + 1] /\ j + 1 \in 1 .. Len(q)
    BY <1>1
  <2> QED
    BY <1>3, <2>1 DEF Precedes
<1>4. ASSUME NEW i \in 1 .. Len(Tail(q))
      PROVE  Tail(q)[i] = q[i + 1] /\ 1 \in 1 .. Len(q) /\ i + 1 \in 1 .. Len(q) /\ 1 < i + 1
  BY <1>1
<1> QED
  BY <1>1, <1>2, <1>3, <1>4 DEF Sorted

LEMMA SortedAppend ==
    ASSUME NEW q \in Seq(Task), NEW t \in Task, Sorted(q),
           t.type = "exec" =>
              \A i \in 1 .. Len(q) : q[i].type = "exec" /\ q[i].conn = t.conn => q[i].seq <= t.seq
    PROVE  /\ Sorted(Append(q, t))
           /\ \A lg, s : /\ Precedes(lg, q, s)
                         /\ t.type = "exec" =>
                              \A i \in 1 .. Len(lg) : lg[i].conn = t.conn => lg[i].seq <= t.seq
                         => Precedes(lg, Append(q, t), s)
<1> DEFINE a == Append(q, t)
           n == Len(q)
<1>1. /\ n \in Nat /\ Len(a) = n + 1 /\ a[n + 1] = t /\ \A i \in 1 .. n : a[i] = q[i]
  BY LenProperties, AppendProperties
<1> HIDE DEF a
<1>2. Sorted(a)
  <2>1. ASSUME NEW i \in 1 .. Len(a), NEW j \in 1 .. Len(a), i < j,
               a[i].type = "exec", a[j].type = "exec", a[i].conn = a[j].conn
        PROVE  a[i].seq <= a[j].seq
    <3>1. i \in 1 .. n /\ a[i] = q[i]
      BY <1>1, <2>1
    <3>2. CASE j \in 1 .. n
      BY <1>1, <2>1, <3>1, <3>2 DEF Sorted
    <3>3. CASE j \notin 1 .. n
      <4>1. j = n + 1
        BY <1>1, <3>3
      <4> QED
        BY <1>1, <2>1, <3>1, <4>1
    <3> QED
      BY <3>2, <3>3
  <2> QED
    BY <2>1 DEF Sorted
<1>3. ASSUME NEW lg, NEW s, Precedes(lg, q, s),
             t.type = "exec" =>
                 \A i \in 1 .. Len(lg) : lg[i].conn = t.conn => lg[i].seq <= t.seq
      PROVE  Precedes(lg, a, s)
  <2>1. ASSUME NEW i \in 1 .. Len(lg), NEW j \in 1 .. Len(a),
               a[j].type = "exec", lg[i].conn = a[j].conn, Home[a[j].conn] # s
        PROVE  lg[i].seq <= a[j].seq
    <3>1. CASE j \in 1 .. n
      BY <1>1, <1>3, <2>1, <3>1 DEF Precedes
    <3>2. CASE j \notin 1 .. n
      <4>1. j = n + 1
        BY <1>1, <3>2
      <4> QED
        BY <1>1, <1>3, <2>1, <4>1
    <3> QED
      BY <3>1, <3>2
  <2> QED
    BY <2>1 DEF Precedes
<1> QED
  BY <1>2, <1>3 DEF a

\* What waits in an inbox has a number that was taken.
LEMMA InboxNumbered ==
    ASSUME TypeOK, AllNumbered(Lines, next_seq), NEW s \in Shards, NEW i \in 1 .. Len(Inbox(s))
    PROVE  /\ Inbox(s)[i] \in Task
           /\ Inbox(s)[i].type # "flush" => /\ Inbox(s)[i].conn \in Conns /\ Inbox(s)[i].seq \in Nat
                                            /\ Inbox(s)[i].seq < next_seq[Inbox(s)[i].conn]
<1>1. /\ Lines \in AllLines /\ Lines[<<"inbox", s>>] = Inbox(s) /\ Inbox(s) \in Seq(Task)
      /\ <<"inbox", s>> \in Places
  BY LinesType, ShardPlaces DEF LinesShape
<1>2. PICK p \in Positions(Lines) : p = <<<<"inbox", s>>, i>>
  BY <1>1, PositionIn
<1>3. Lines[p[1]][p[2]] = Inbox(s)[i]
  BY <1>1, <1>2
<1>4. Inbox(s)[i] \in Task
  BY <1>1, ElementOfSeq
<1>5. Inbox(s)[i].type # "flush" => Inbox(s)[i].seq < next_seq[Inbox(s)[i].conn]
  BY <1>3 DEF AllNumbered
<1> QED
  BY <1>4, <1>5 DEF Task, Exec, Done, FlushTask

\* The order of the history after a step.
LEMMA NextOrdered ==
    ASSUME PostedFirst', \A s \in Shards : Sorted(Inbox(s)'),
           \A s \in Shards : Precedes(log'[s], Inbox(s)', s), LogSorted'
    PROVE  TasksOrdered'
<1>1. InboxSorted'
  BY DEF InboxSorted, Sorted
<1>2. LogBeforeInbox'
  BY DEF LogBeforeInbox, Precedes
<1> QED
  BY <1>1, <1>2 DEF TasksOrdered

\* Requests leave the shard that dispatched them in time.
LEMMA StepPostedFirst ==
    ASSUME TypeOK, TypeOK', PostedFirst, FlowStep
    PROVE  PostedFirst'
<1> DEFINE First(r, t, n) == t.type = "exec" => Home[t.conn] = r /\ t.seq = n[t.conn] - 1
<1>0. \A r \in Shards : \A i \in 1 .. Len(outbox[r]) : First(r, outbox[r][i].task, next_seq)
  BY DEF PostedFirst
<1>1. ASSUME \A r \in Shards : \A i \in 1 .. Len(outbox'[r]) : First(r, outbox'[r][i].task, next_seq')
      PROVE  PostedFirst'
  BY <1>1 DEF PostedFirst
<1>2. CASE QuietStep
  BY <1>0, <1>1, <1>2 DEF QuietStep
<1>3. ASSUME NEW s \in Shards, NEW t, LeaveStep(s, t) PROVE PostedFirst'
  BY <1>0, <1>1, <1>3 DEF LeaveStep
<1>4. ASSUME NEW s \in Shards, NEW t, NEW u, ExecStep(s, t, u) PROVE PostedFirst'
  <2>1. /\ outbox'[s] = <<To(Home[t.conn], u)>> /\ u \in Done /\ next_seq' = next_seq
        /\ \A r \in Shards \ {s} : outbox'[r] = outbox[r]
    BY <1>4 DEF ExecStep
  <2>2. \A i \in 1 .. Len(outbox'[s]) : outbox'[s][i].task.type = "done"
    BY <2>1 DEF To, Done
  <2> QED
    BY <1>0, <1>1, <2>1, <2>2
<1>5. ASSUME NEW s \in Shards, NEW to, NEW t, PostStep(s, to, t) PROVE PostedFirst'
  <2>1. /\ outbox[s] # <<>> /\ outbox'[s] = Tail(outbox[s]) /\ next_seq' = next_seq
        /\ \A r \in Shards \ {s} : outbox'[r] = outbox[r]
    BY <1>5 DEF PostStep
  <2>2. outbox[s] \in Seq([to : Shards, task : Task])
    BY DEF TypeOK
  <2>3. /\ Len(outbox[s]) \in Nat \ {0} /\ Len(Tail(outbox[s])) = Len(outbox[s]) - 1
        /\ \A i \in 1 .. Len(outbox[s]) - 1 : Tail(outbox[s])[i] = outbox[s][i + 1]
    BY <2>1, <2>2, HeadTailProperties, EmptySeq
  <2>4. \A i \in 1 .. Len(outbox'[s]) : First(s, outbox'[s][i].task, next_seq)
    <3> HIDE DEF First
    <3> QED
      BY <1>0, <2>1, <2>3
  <2>5. \A r \in Shards : \A i \in 1 .. Len(outbox'[r]) : First(r, outbox'[r][i].task, next_seq')
    <3> HIDE DEF First
    <3> QED
      BY <1>0, <2>1, <2>4
  <2> QED
    BY <1>1, <2>5
<1>6. ASSUME NEW s \in Shards, NEW c \in Conns, NEW slot, NEW q, DispatchStep(s, c, slot, q)
      PROVE  PostedFirst'
  <2>1. /\ Home[c] = s /\ q \in Seq([to : Shards, task : Task])
        /\ Opens(slot, TasksOf(q), c, next_seq[c])
        /\ next_seq' = [next_seq EXCEPT ![c] = @ + 1]
        /\ outbox'[s] = q /\ \A r \in Shards \ {s} : outbox'[r] = outbox[r]
    BY <1>6 DEF DispatchStep
  <2>2. /\ next_seq[c] \in Nat /\ next_seq'[c] = next_seq[c] + 1
        /\ \A d \in Conns \ {c} : next_seq'[d] = next_seq[d]
    BY <2>1 DEF TypeOK
  <2>3. Len(TasksOf(q)) = Len(q) /\ \A i \in 1 .. Len(q) : TasksOf(q)[i] = q[i].task
    BY <2>1, TasksOfType
  <2>4. \A i \in 1 .. Len(q) :
           q[i].task.type = "exec" => q[i].task.conn = c /\ q[i].task.seq = next_seq[c]
    BY <2>1, <2>3 DEF Opens
  <2>5. \A i \in 1 .. Len(outbox'[s]) : First(s, outbox'[s][i].task, next_seq')
    BY <2>1, <2>2, <2>4
  <2>6. ASSUME NEW r \in Shards \ {s}, NEW i \in 1 .. Len(outbox[r])
        PROVE  First(r, outbox[r][i].task, next_seq')
    <3>1. outbox[r] \in Seq([to : Shards, task : Task])
      BY DEF TypeOK
    <3>2. outbox[r][i] \in [to : Shards, task : Task]
      BY <3>1, ElementOfSeq
    <3>3. outbox[r][i].task \in Task
      BY <3>2
    <3>4. outbox[r][i].task.type = "exec" => outbox[r][i].task.conn \in Conns
      BY <3>3 DEF Task, Exec, Done, FlushTask
    <3>5. First(r, outbox[r][i].task, next_seq)
      BY <1>0
    <3>6. outbox[r][i].task.type = "exec" => outbox[r][i].task.conn # c
      BY <2>1, <3>5
    <3> QED
      BY <2>2, <3>4, <3>5, <3>6
  <2>7. \A r \in Shards : \A i \in 1 .. Len(outbox'[r]) : First(r, outbox'[r][i].task, next_seq')
    <3> HIDE DEF First
    <3> QED
      BY <2>1, <2>5, <2>6
  <2> QED
    BY <1>1, <2>7
<1> QED
  BY <1>2, <1>3, <1>4, <1>5, <1>6 DEF FlowStep

\* Steps that leave the history and the inboxes as they are.
LEMMA SameOrder ==
    ASSUME \A s \in Shards : Sorted(Inbox(s)), \A s \in Shards : Precedes(log[s], Inbox(s), s),
           LogSorted, log' = log, InboxesKept(Shards), PostedFirst'
    PROVE  TasksOrdered'
<1>1. \A s \in Shards : Inbox(s)' = Inbox(s)
  BY DEF InboxesKept
<1>2. \A s \in Shards : Sorted(Inbox(s)')
  BY <1>1
<1>3. \A s \in Shards : Precedes(log'[s], Inbox(s)', s)
  BY <1>1
<1>4. LogSorted'
  BY DEF LogSorted
<1> QED
  BY <1>2, <1>3, <1>4, NextOrdered

\* Executing requests of one number keeps the history in order, when all that
\* the connection had executed there before was sent before.
LEMMA GrowSorted ==
    ASSUME LogSorted, NEW s \in Shards, NEW acc, NEW c \in Conns, NEW n \in Nat,
           Extends(log, log', s, acc),
           \A i \in 1 .. Len(acc) : acc[i].conn = c /\ acc[i].seq = n,
           Home[c] # s => \A i \in 1 .. Len(log[s]) : log[s][i].conn = c => log[s][i].seq <= n
    PROVE  LogSorted'
<1>1. ASSUME NEW r \in Shards, NEW i \in 1 .. Len(log'[r]), NEW j \in 1 .. Len(log'[r]),
             i < j, log'[r][i].conn = log'[r][j].conn, Home[log'[r][i].conn] # r
      PROVE  log'[r][i].seq <= log'[r][j].seq
  <2>1. CASE j \in 1 .. Len(log[r])
    <3>1. i \in 1 .. Len(log[r])
      BY <1>1, <2>1
    <3>2. log'[r][i] = log[r][i] /\ log'[r][j] = log[r][j]
      BY <2>1, <3>1 DEF Extends
    <3> QED
      BY <1>1, <2>1, <3>1, <3>2 DEF LogSorted
  <2>2. CASE j \notin 1 .. Len(log[r])
    <3>1. r = s /\ log'[s][j].conn = c /\ log'[s][j].seq = n
      <4>1. r = s /\ j - Len(log[s]) \in 1 .. Len(acc) /\ log'[s][j] = acc[j - Len(log[s])]
        BY <2>2 DEF Extends
      <4> QED
        BY <4>1
    <3>2. CASE i \in 1 .. Len(log[r])
      <4>1. log'[s][i] = log[s][i]
        BY <3>1, <3>2 DEF Extends
      <4> QED
        BY <1>1, <3>1, <3>2, <4>1
    <3>3. CASE i \notin 1 .. Len(log[r])
      <4>1. i - Len(log[s]) \in 1 .. Len(acc) /\ log'[s][i] = acc[i - Len(log[s])]
        BY <3>1, <3>3 DEF Extends
      <4> QED
        BY <3>1, <4>1
    <3> QED
      BY <3>2, <3>3
  <2> QED
    BY <2>1, <2>2
<1> QED
  BY <1>1 DEF LogSorted

\* The same for what waits in a line q.
LEMMA GrowPrecedes ==
    ASSUME NEW s \in Shards, NEW r \in Shards, NEW acc, NEW c \in Conns, NEW n \in Nat, NEW q,
           Extends(log, log', s, acc),
           \A i \in 1 .. Len(acc) : acc[i].conn = c /\ acc[i].seq = n,
           Precedes(log[r], q, r),
           r = s /\ Home[c] # s =>
              \A j \in 1 .. Len(q) : q[j].type = "exec" /\ q[j].conn = c => n <= q[j].seq
    PROVE  Precedes(log'[r], q, r)
<1>1. ASSUME NEW i \in 1 .. Len(log'[r]), NEW j \in 1 .. Len(q),
             q[j].type = "exec", log'[r][i].conn = q[j].conn, Home[q[j].conn] # r
      PROVE  log'[r][i].seq <= q[j].seq
  <2>1. CASE i \in 1 .. Len(log[r])
    BY <1>1, <2>1 DEF Extends, Precedes
  <2>2. CASE i \notin 1 .. Len(log[r])
    <3>1. r = s /\ log'[s][i].conn = c /\ log'[s][i].seq = n
      <4>1. r = s /\ i - Len(log[s]) \in 1 .. Len(acc) /\ log'[s][i] = acc[i - Len(log[s])]
        BY <2>2 DEF Extends
      <4> QED
        BY <4>1
    <3> QED
      BY <1>1, <3>1
  <2> QED
    BY <2>1, <2>2
<1> QED
  BY <1>1 DEF Precedes

\* No step changes the order of what one connection asks of another shard.
LEMMA StepOrdered ==
    ASSUME TypeOK, TypeOK', TasksOnce, TasksOrdered, FlowStep
    PROVE  TasksOrdered'
<1>0. /\ AllNumbered(Lines, next_seq) /\ LogNumbered /\ PostedFirst /\ LogSorted
      /\ \A s \in Shards : Sorted(Inbox(s))
      /\ \A s \in Shards : Precedes(log[s], Inbox(s), s)
      /\ \A s \in Shards : Inbox(s) \in Seq(Task)
  BY OrderedBySeq, LinesType DEF TasksOnce, TasksOrdered, LinesShape
<1>1. PostedFirst'
  BY <1>0, StepPostedFirst
<1>2. CASE QuietStep
  <2>1. log' = log /\ InboxesKept(Shards)
    BY <1>2 DEF QuietStep
  <2> QED
    BY <1>0, <1>1, <2>1, SameOrder
<1>3. ASSUME NEW s \in Shards, NEW t, LeaveStep(s, t) PROVE TasksOrdered'
  <2>1. /\ Inbox(s) # <<>> /\ Inbox(s)' = Tail(Inbox(s)) /\ log' = log
        /\ \A r \in Shards \ {s} : Inbox(r)' = Inbox(r)
    BY <1>3 DEF LeaveStep, InboxesKept
  <2>2. Sorted(Tail(Inbox(s))) /\ Precedes(log[s], Tail(Inbox(s)), s)
    BY <1>0, <2>1, SortedTail
  <2>3. \A r \in Shards : Sorted(Inbox(r)')
    BY <1>0, <2>1, <2>2
  <2>4. \A r \in Shards : Precedes(log'[r], Inbox(r)', r)
    BY <1>0, <2>1, <2>2
  <2>5. LogSorted'
    BY <1>0, <2>1 DEF LogSorted
  <2> QED
    BY <1>1, <2>3, <2>4, <2>5, NextOrdered
<1>4. ASSUME NEW s \in Shards, NEW to, NEW t, PostStep(s, to, t) PROVE TasksOrdered'
  <2>1. /\ to \in Shards /\ t \in Task /\ outbox[s] # <<>> /\ Head(outbox[s]).task = t
        /\ Inbox(to)' = Append(Inbox(to), t) /\ log' = log
        /\ \A r \in Shards \ {to} : Inbox(r)' = Inbox(r)
    BY <1>4 DEF PostStep, InboxesKept
  <2>2. t.type = "exec" => t.seq = next_seq[t.conn] - 1 /\ t.conn \in Conns
    <3>1. outbox[s] \in Seq([to : Shards, task : Task])
      BY DEF TypeOK
    <3>2. Len(outbox[s]) \in Nat \ {0} /\ Head(outbox[s]) = outbox[s][1]
      BY <2>1, <3>1, HeadTailProperties, EmptySeq
    <3>3. outbox[s][1].task = t /\ 1 \in 1 .. Len(outbox[s])
      BY <2>1, <3>2
    <3>4. t.type = "exec" => t.conn \in Conns
      BY <2>1 DEF Task, Exec, Done, FlushTask
    <3> QED
      BY <1>0, <3>3, <3>4 DEF PostedFirst
  <2>3. \A c \in Conns : next_seq[c] \in Nat
    BY DEF TypeOK
  <2>4. t.type = "exec" =>
           \A i \in 1 .. Len(Inbox(to)) :
              Inbox(to)[i].type = "exec" /\ Inbox(to)[i].conn = t.conn => Inbox(to)[i].seq <= t.seq
    <3> SUFFICES ASSUME t.type = "exec", NEW i \in 1 .. Len(Inbox(to)),
                        Inbox(to)[i].type = "exec", Inbox(to)[i].conn = t.conn
                 PROVE  Inbox(to)[i].seq <= t.seq
      OBVIOUS
    <3>1. Inbox(to)[i].seq \in Nat /\ Inbox(to)[i].seq < next_seq[t.conn]
      BY <1>0, <2>1, InboxNumbered
    <3> QED
      BY <2>2, <2>3, <3>1
  <2>5. t.type = "exec" =>
           \A i \in 1 .. Len(log[to]) : log[to][i].conn = t.conn => log[to][i].seq <= t.seq
    <3> SUFFICES ASSUME t.type = "exec", NEW i \in 1 .. Len(log[to]), log[to][i].conn = t.conn
                 PROVE  log[to][i].seq <= t.seq
      OBVIOUS
    <3>1. log[to][i] \in Access
      BY <2>1, ElementOfSeq DEF TypeOK
    <3>2. log[to][i].seq \in Nat /\ log[to][i].seq < next_seq[t.conn]
      BY <1>0, <2>1, <3>1 DEF Access, LogNumbered
    <3> QED
      BY <2>2, <2>3, <3>2
  <2>6. Sorted(Append(Inbox(to), t)) /\ Precedes(log[to], Append(Inbox(to), t), to)
    BY <1>0, <2>1, <2>4, <2>5, SortedAppend
  <2>7. \A r \in Shards : Sorted(Inbox(r)')
    BY <1>0, <2>1, <2>6
  <2>8. \A r \in Shards : Precedes(log'[r], Inbox(r)', r)
    BY <1>0, <2>1, <2>6
  <2>9. LogSorted'
    BY <1>0, <2>1 DEF LogSorted
  <2> QED
    BY <1>1, <2>7, <2>8, <2>9, NextOrdered
<1>5. ASSUME NEW s \in Shards, NEW t, NEW u, ExecStep(s, t, u) PROVE TasksOrdered'
  <2> DEFINE acc == Accesses(t.conn, t.seq, t.index, t.cmd, db[s])
  <2>1. /\ t \in Exec /\ Inbox(s) # <<>> /\ Head(Inbox(s)) = t
        /\ Inbox(s)' = Tail(Inbox(s)) /\ \A r \in Shards \ {s} : Inbox(r)' = Inbox(r)
        /\ log' = [log EXCEPT ![s] = @ \o acc]
    BY <1>5 DEF ExecStep, InboxesKept
  <2>2. /\ t.conn \in Conns /\ t.seq \in Nat /\ t.index \in Nat \ {0} /\ t.cmd \in AllCommands
        /\ t.type = "exec" /\ db[s] \in Db
    BY <2>1 DEF Exec, TypeOK
  <2>3. EntriesFor(acc, t.conn, t.seq, t.index, t.cmd)
    BY <2>2, AccessesAt
  <2> HIDE DEF acc
  <2>4. /\ acc \in Seq(Access)
        /\ \A i \in 1 .. Len(acc) : acc[i].conn = t.conn /\ acc[i].seq = t.seq
    BY <2>3 DEF EntriesFor
  <2>5. Extends(log, log', s, acc)
    BY <2>1, <2>4, LogGrows
  <2>6. Len(Inbox(s)) \in Nat \ {0} /\ Inbox(s)[1] = t /\ 1 \in 1 .. Len(Inbox(s))
    <3>1. Inbox(s) \in Seq(Task)
      BY <1>0
    <3>2. Len(Inbox(s)) \in Nat \ {0} /\ Head(Inbox(s)) = Inbox(s)[1]
      BY <2>1, <3>1, HeadTailProperties, EmptySeq
    <3> QED
      BY <2>1, <3>2
  <2>7. Home[t.conn] # s =>
           \A i \in 1 .. Len(log[s]) : log[s][i].conn = t.conn => log[s][i].seq <= t.seq
    <3>1. Precedes(log[s], Inbox(s), s)
      BY <1>0
    <3> QED
      BY <2>2, <2>6, <3>1 DEF Precedes
  <2>8. /\ Sorted(Tail(Inbox(s))) /\ Precedes(log[s], Tail(Inbox(s)), s)
        /\ \A i \in 1 .. Len(Tail(Inbox(s))) :
              Tail(Inbox(s))[i].type = "exec" /\ Tail(Inbox(s))[i].conn = t.conn
                 => t.seq <= Tail(Inbox(s))[i].seq
    BY <1>0, <2>1, <2>2, SortedTail
  <2>9. LogSorted'
    <3>1. PICK c \in Conns, n \in Nat : c = t.conn /\ n = t.seq
      BY <2>2
    <3> QED
      BY <1>0, <2>4, <2>5, <2>7, <3>1, GrowSorted
  <2>10. ASSUME NEW r \in Shards PROVE Precedes(log'[r], Inbox(r)', r)
    <3>1. PICK c \in Conns, n \in Nat : c = t.conn /\ n = t.seq
      BY <2>2
    <3>2. CASE r = s
      <4>1. PICK q : q = Tail(Inbox(s))
        OBVIOUS
      <4>2. \A j \in 1 .. Len(q) : q[j].type = "exec" /\ q[j].conn = c => n <= q[j].seq
        BY <2>8, <3>1, <4>1
      <4>3. Precedes(log[s], q, s)
        BY <2>8, <4>1
      <4>4. Precedes(log'[s], q, s)
        BY <2>4, <2>5, <3>1, <4>2, <4>3, GrowPrecedes
      <4> QED
        BY <2>1, <3>2, <4>1, <4>4
    <3>3. CASE r # s
      <4>1. PICK q : q = Inbox(r)
        OBVIOUS
      <4>2. Precedes(log[r], q, r)
        BY <1>0, <4>1
      <4>3. Precedes(log'[r], q, r)
        BY <2>4, <2>5, <3>1, <3>3, <4>2, GrowPrecedes
      <4> QED
        BY <2>1, <3>3, <4>1, <4>3
    <3> QED
      BY <3>2, <3>3
  <2>11. \A r \in Shards : Sorted(Inbox(r)')
    BY <1>0, <2>1, <2>8
  <2> QED
    BY <1>1, <2>9, <2>10, <2>11, NextOrdered
<1>6. ASSUME NEW s \in Shards, NEW c \in Conns, NEW slot, NEW q, DispatchStep(s, c, slot, q)
      PROVE  TasksOrdered'
  <2>1. /\ Home[c] = s /\ InboxesKept(Shards) /\ \A r \in Shards : Inbox(r)' = Inbox(r)
        /\ \/ log' = log
           \/ \E cmd \in AllCommands :
                 log' = [log EXCEPT ![s] = @ \o Accesses(c, next_seq[c], 1, cmd, db[s])]
    BY <1>6 DEF DispatchStep, InboxesKept
  <2>2. CASE log' = log
    BY <1>0, <1>1, <2>1, <2>2, SameOrder
  <2>3. ASSUME NEW cmd \in AllCommands,
               log' = [log EXCEPT ![s] = @ \o Accesses(c, next_seq[c], 1, cmd, db[s])]
        PROVE  TasksOrdered'
    <3>1. PICK n \in Nat : n = next_seq[c]
      BY DEF TypeOK
    <3> DEFINE acc == Accesses(c, n, 1, cmd, db[s])
    <3>2. EntriesFor(acc, c, n, 1, cmd)
      <4>1. 1 \in Nat \ {0} /\ db[s] \in Db
        BY DEF TypeOK
      <4> QED
        BY <4>1, AccessesAt
    <3>3. log' = [log EXCEPT ![s] = @ \o acc]
      BY <2>3, <3>1
    <3> HIDE DEF acc
    <3>4. /\ acc \in Seq(Access)
          /\ \A i \in 1 .. Len(acc) : acc[i].conn = c /\ acc[i].seq = n
      BY <3>2 DEF EntriesFor
    <3>5. Extends(log, log', s, acc)
      BY <3>3, <3>4, LogGrows
    <3>6. LogSorted'
      BY <1>0, <2>1, <3>4, <3>5, GrowSorted
    <3>7. ASSUME NEW r \in Shards PROVE Precedes(log'[r], Inbox(r)', r)
      <4>1. PICK w : w = Inbox(r)
        OBVIOUS
      <4>2. Precedes(log[r], w, r)
        BY <1>0, <4>1
      <4>3. Precedes(log'[r], w, r)
        BY <2>1, <3>4, <3>5, <4>2, GrowPrecedes
      <4> QED
        BY <2>1, <4>1, <4>3
    <3>8. \A r \in Shards : Sorted(Inbox(r)')
      BY <1>0, <2>1
    <3> QED
      BY <1>1, <3>6, <3>7, <3>8, NextOrdered
  <2> QED
    BY <2>1, <2>2, <2>3
<1> QED
  BY <1>2, <1>3, <1>4, <1>5, <1>6 DEF FlowStep

-----------------------------------------------------------------------------
(* A slot waits for the tasks that are under way for it.                   *)

Counted(slot, c, lines) ==
    /\ slot.remaining = Cardinality(Waiting(lines, c, slot.seq))
    /\ slot.ready <=> slot.remaining = 0

SlotsCounted(p, c, lines) == \A i \in 1 .. Len(p) : Counted(p[i], c, lines)

LEMMA CountedSlots ==
    RemainingInFlight <=> \A c \in Conns : SlotsCounted(pipeline[c], c, Lines)
BY DEF RemainingInFlight, InFlight, SlotsCounted, Counted

\* The slots after a step.
LEMMA NextCounted ==
    ASSUME \A c \in Conns : SlotsCounted(pipeline'[c], c, Lines')
    PROVE  RemainingInFlight'
<1>1. ASSUME NEW c \in Conns, NEW i \in 1 .. Len(pipeline'[c])
      PROVE  /\ pipeline'[c][i].remaining = Cardinality(Waiting(Lines', c, pipeline'[c][i].seq))
             /\ pipeline'[c][i].ready <=> pipeline'[c][i].remaining = 0
  BY DEF SlotsCounted, Counted
<1>2. ASSUME NEW c \in Conns, NEW i \in 1 .. Len(pipeline'[c])
      PROVE  InFlight(c, pipeline[c][i].seq)' = Cardinality(Waiting(Lines', c, pipeline'[c][i].seq))
  BY DEF InFlight, Waiting, Positions, AboutSlot
<1> QED
  BY <1>1, <1>2 DEF RemainingInFlight

\* Slots whose tasks are as many as before.
LEMMA SameCount ==
    ASSUME NEW p, NEW c, NEW before, NEW after, SlotsCounted(p, c, before),
           \A i \in 1 .. Len(p) :
              Cardinality(Waiting(after, c, p[i].seq)) = Cardinality(Waiting(before, c, p[i].seq))
    PROVE  SlotsCounted(p, c, after)
BY DEF SlotsCounted, Counted

\* The slots that flush_ready() leaves were there.
LEMMA UnflushedCounted ==
    ASSUME NEW p \in Seq(Slot), NEW c, NEW lines, SlotsCounted(p, c, lines)
    PROVE  SlotsCounted(Unflushed(p), c, lines)
<1> DEFINE n == ReadyCount(p)
<1>1. /\ n \in 0 .. Len(p) /\ Len(Unflushed(p)) = Len(p) - n
      /\ \A i \in 1 .. Len(p) - n : Unflushed(p)[i] = p[n + i]
  BY FlushSeq
<1>2. Len(p) \in Nat
  BY LenProperties
<1> HIDE DEF n
<1>3. ASSUME NEW i \in 1 .. Len(Unflushed(p))
      PROVE  Unflushed(p)[i] = p[n + i] /\ n + i \in 1 .. Len(p)
  BY <1>1, <1>2
<1> QED
  BY <1>3 DEF SlotsCounted

\* What settling a connection does to reply slots.
LEMMA SettleSlots ==
    ASSUME TypeOK, NEW c \in Conns, status[c] = "open", NEW p, NEW o, Len(o) \in Nat,
           WriteAndSettle(c, p, o)
    PROVE  /\ \A d \in Conns \ {c} : pipeline'[d] = pipeline[d] /\ status'[d] = status[d]
           /\ \/ pipeline'[c] = <<>>
              \/ pipeline'[c] = p /\ status'[c] = "open"
<1>1. closing[c] \in BOOLEAN
  BY DEF TypeOK
<1>2. CloseConn(c) \/ (pipeline' = [pipeline EXCEPT ![c] = p] /\ status' = status)
  BY <1>1, SettleCases
<1> QED
  BY <1>2 DEF CloseConn, TypeOK

\* A connection is settled with slots p that wait for what is under way.
LEMMA SettleCounted ==
    ASSUME TypeOK, NEW c \in Conns, status[c] = "open", SlotsAreOpen, NEW p, NEW o, Len(o) \in Nat,
           WriteAndSettle(c, p, o), SlotsCounted(p, c, Lines'),
           \A d \in Conns \ {c} : SlotsCounted(pipeline[d], d, Lines')
    PROVE  SlotsAreOpen' /\ RemainingInFlight'
<1>1. /\ \A d \in Conns \ {c} : pipeline'[d] = pipeline[d] /\ status'[d] = status[d]
      /\ pipeline'[c] = <<>> \/ (pipeline'[c] = p /\ status'[c] = "open")
  BY SettleSlots
<1>2. SlotsAreOpen'
  BY <1>1 DEF SlotsAreOpen
<1>3. SlotsCounted(<<>>, c, Lines')
  BY DEF SlotsCounted
<1>4. \A d \in Conns : SlotsCounted(pipeline'[d], d, Lines')
  BY <1>1, <1>3
<1> QED
  BY <1>2, <1>4, NextCounted

\* complete_fragment() counts one task, and makes the slot ready with the last.
LEMMA CompleteSlotCount ==
    ASSUME NEW p \in Slot, NEW t \in Done
    PROVE  /\ CompleteSlot(p, t).remaining = p.remaining - 1
           /\ CompleteSlot(p, t).seq = p.seq
           /\ p.remaining = 1 => CompleteSlot(p, t).ready
           /\ p.remaining # 1 => CompleteSlot(p, t).ready = p.ready
<1> DEFINE got == IF t.is_int
               THEN [p EXCEPT !.accum = @ + t.val, !.remaining = @ - 1]
               ELSE [p EXCEPT !.frags[t.index] = t.reply, !.remaining = @ - 1]
           f == [p.frags EXCEPT ![t.index] = t.reply]
           a == p.accum + t.val
           r == p.remaining - 1
<1>0. p \in SlotRecord /\ p.remaining \in Int
  BY DEF Slot, SlotRecord
<1>1. /\ got.remaining = r /\ got.ready = p.ready /\ got.seq = p.seq
      /\ {"ready", "remaining", "seq"} \subseteq DOMAIN got
  <2>1. CASE t.is_int
    <3>1. got = [p EXCEPT !.accum = a, !.remaining = r]
      BY <2>1, Zenon
    <3> HIDE DEF got, f, a, r
    <3> QED
      BY <3>1, <1>0 DEF SlotRecord
  <2>2. CASE ~t.is_int
    <3>1. got = [p EXCEPT !.frags = f, !.remaining = r]
      BY <2>2, Zenon
    <3> HIDE DEF got, f, a, r
    <3> QED
      BY <3>1, <1>0 DEF SlotRecord
  <2> QED
    BY <2>1, <2>2
<1>2. CompleteSlot(p, t) = IF got.remaining = 0
                           THEN [got EXCEPT !.bytes = Assemble(got), !.ready = TRUE]
                           ELSE got
  BY DEF CompleteSlot
<1> HIDE DEF got
<1>3. CASE got.remaining = 0
  <2>1. CompleteSlot(p, t) = [got EXCEPT !.bytes = Assemble(got), !.ready = TRUE]
    BY <1>2, <1>3
  <2>2. CompleteSlot(p, t).remaining = r /\ CompleteSlot(p, t).ready /\ CompleteSlot(p, t).seq = p.seq
    BY <1>1, <2>1
  <2>3. p.remaining = 1
    BY <1>0, <1>1, <1>3
  <2> QED
    BY <2>2, <2>3, Zenon
<1>4. CASE got.remaining # 0
  <2>1. CompleteSlot(p, t) = got
    BY <1>2, <1>4
  <2> QED
    BY <1>0, <1>1, <1>4, <2>1
<1> QED
  BY <1>3, <1>4

\* A completion that leaves the lines is one the slot no longer waits for.
LEMMA CompletedCounted ==
    ASSUME NEW before \in AllLines, NEW after \in AllLines, NEW x, Leaves(before, after, x),
           NEW t \in Done, Head(before[x]) = t,
           NEW p \in Seq(Slot), SlotsCounted(p, t.conn, before)
    PROVE  SlotsCounted(Completed(p, t), t.conn, after)
<1> DEFINE c == t.conn
           B(q) == Cardinality(Waiting(before, c, q))
           A(q) == Cardinality(Waiting(after, c, q))
<1>1. Len(p) \in Nat /\ \A i \in 1 .. Len(p) : p[i] \in Slot
  BY LenProperties, ElementOfSeq
<1>2. \A q : A(q) \in Nat /\ A(q) = IF q = t.seq THEN B(q) - 1 ELSE B(q)
  <2>1. \A q : AboutSlot(t, c, q) <=> q = t.seq
    BY DEF AboutSlot, Done
  <2> QED
    BY <2>1, LeaveCount, WaitingFinite
<1>3. \A q : B(q) \in Nat
  BY WaitingFinite
<1>4. /\ Len(Completed(p, t)) = Len(p)
      /\ \A i \in 1 .. Len(p) :
            Completed(p, t)[i] = IF p[i].seq = t.seq THEN CompleteSlot(p[i], t) ELSE p[i]
  BY <1>1 DEF Completed
<1>5. ASSUME NEW i \in 1 .. Len(p) PROVE Counted(Completed(p, t)[i], c, after)
  <2>1. /\ p[i].remaining = B(p[i].seq)
        /\ p[i].ready <=> p[i].remaining = 0
        /\ p[i] \in Slot
    BY <1>1 DEF SlotsCounted, Counted
  <2>2. CASE p[i].seq = t.seq
    <3>1. Completed(p, t)[i] = CompleteSlot(p[i], t)
      BY <1>4, <2>2
    <3> DEFINE new == CompleteSlot(p[i], t)
    <3>2. /\ new.remaining = p[i].remaining - 1 /\ new.seq = p[i].seq
          /\ p[i].remaining = 1 => new.ready
          /\ p[i].remaining # 1 => new.ready = p[i].ready
      BY <2>1, CompleteSlotCount
    <3> HIDE DEF new, A, B
    <3>3. new.remaining = A(new.seq) /\ (new.ready <=> new.remaining = 0)
      BY <1>2, <1>3, <2>1, <2>2, <3>2
    <3> QED
      BY <3>1, <3>3 DEF new, A, Counted
  <2>3. CASE p[i].seq # t.seq
    <3>1. Completed(p, t)[i] = p[i] /\ A(p[i].seq) = B(p[i].seq)
      BY <1>2, <1>4, <2>3
    <3> QED
      BY <2>1, <3>1 DEF Counted
  <2> QED
    BY <2>2, <2>3
<1> QED
  BY <1>4, <1>5 DEF SlotsCounted

\* The slot that dispatch() opens waits for the tasks it posts; the slots before
\* it have lower numbers.
LEMMA DispatchCounted ==
    ASSUME ShardInvariant, TypeOK', AllNumbered(Lines, next_seq), SlotsAreOpen,
           RemainingInFlight, NEW s \in Shards, NEW c \in Conns, NEW slot, NEW q,
           DispatchStep(s, c, slot, q)
    PROVE  SlotsAreOpen' /\ RemainingInFlight'
<1> DEFINE new == TasksOf(q)
           n == next_seq[c]
<1>0. TypeOK /\ SlotsInOrder
  BY DEF ShardInvariant
<1>1. /\ status[c] = "open" /\ status' = status
      /\ slot \in Slot /\ q \in Seq([to : Shards, task : Task])
      /\ Opens(slot, new, c, n)
      /\ pipeline' = [pipeline EXCEPT ![c] = Append(@, slot)]
      /\ Posts(Lines, Lines', <<"outbox", s>>, new)
  BY DEF DispatchStep
<1>2. new \in Seq(Task) /\ Len(new) \in Nat
  BY <1>1, TasksOfType, LenProperties
<1>3. Lines \in AllLines /\ Lines' \in AllLines /\ n \in Nat
  BY <1>0, LinesType, NextLines DEF LinesShape, TypeOK
<1>4. /\ pipeline[c] \in Seq(Slot) /\ pipeline'[c] = Append(pipeline[c], slot)
      /\ \A d \in Conns \ {c} : pipeline'[d] = pipeline[d]
  BY <1>0, <1>1 DEF TypeOK
<1> HIDE DEF new
<1>5. ASSUME NEW d, NEW k, d # c \/ k # n
      PROVE  Cardinality(Waiting(Lines', d, k)) = Cardinality(Waiting(Lines, d, k))
  <2>1. \A i \in 1 .. Len(new) : ~AboutSlot(new[i], d, k)
    BY <1>1, <1>5 DEF Opens, AboutSlot
  <2> QED
    BY <1>1, <1>2, <1>3, <2>1, PostCount
<1>6. Waiting(Lines, c, n) = {}
  <2>1. ASSUME NEW p \in Positions(Lines), AboutSlot(Lines[p[1]][p[2]], c, n) PROVE FALSE
    <3>1. /\ Lines[p[1]][p[2]].type # "flush" /\ Lines[p[1]][p[2]].conn = c
          /\ Lines[p[1]][p[2]].seq = n
      BY <2>1 DEF AboutSlot
    <3>2. Lines[p[1]][p[2]].seq < next_seq[Lines[p[1]][p[2]].conn]
      BY <3>1 DEF AllNumbered
    <3> QED
      BY <1>3, <3>1, <3>2
  <2> QED
    BY <2>1 DEF Waiting
<1>7. Counted(slot, c, Lines')
  <2>1. slot.seq = n /\ (slot.ready <=> slot.remaining = 0)
    BY <1>1 DEF Opens
  <2>2. slot.remaining = Cardinality(Waiting(Lines', c, n))
    <3> HIDE DEF n
    <3>1. CASE slot.remaining = 0 /\ \A i \in 1 .. Len(new) : new[i].type = "flush"
      <4>1. \A i \in 1 .. Len(new) : ~AboutSlot(new[i], c, n)
        BY <3>1 DEF AboutSlot
      <4>2. Cardinality(Waiting(Lines', c, n)) = Cardinality(Waiting(Lines, c, n))
        BY <1>1, <1>2, <1>3, <4>1, PostCount
      <4> QED
        BY <1>6, <3>1, <4>2, FS_EmptySet
    <3>2. CASE /\ slot.remaining = Len(new)
               /\ \A i \in 1 .. Len(new) : new[i] \in Exec /\ new[i].conn = c /\ new[i].seq = n
      <4>1. \A i \in 1 .. Len(new) : AboutSlot(new[i], c, n)
        BY <3>2 DEF AboutSlot, Exec
      <4>2. Cardinality(Waiting(Lines', c, n)) = Len(new)
        BY <1>1, <1>2, <1>3, <1>6, <4>1, PostCount
      <4> QED
        BY <3>2, <4>2
    <3> QED
      BY <1>1, <3>1, <3>2 DEF Opens
  <2> QED
    BY <2>1, <2>2 DEF Counted
<1>8. \A i \in 1 .. Len(pipeline[c]) : pipeline[c][i].seq # n
  <2> DEFINE d == Len(delivered[c])
             o == Len(out[c])
             m == Len(pipeline[c])
  <2>1. d \in Nat /\ o \in Nat /\ m \in Nat
    BY <1>0, LenProperties DEF TypeOK
  <2>2. /\ \A i \in 1 .. m : pipeline[c][i].seq = d + o + i - 1
        /\ n = d + o + m
    BY <1>0, <1>1 DEF SlotsInOrder, ConsecutiveFrom
  <2> HIDE DEF d, o, m, n
  <2>3. \A i \in 1 .. m : pipeline[c][i].seq # n
    BY <2>1, <2>2
  <2> QED
    BY <2>3 DEF m
<1> HIDE DEF n
<1>9. \A d \in Conns : SlotsCounted(pipeline[d], d, Lines)
  BY CountedSlots
<1>10. \A d \in Conns : SlotsCounted(pipeline[d], d, Lines')
  <2>1. ASSUME NEW d \in Conns PROVE SlotsCounted(pipeline[d], d, Lines')
    <3>1. \A i \in 1 .. Len(pipeline[d]) : d # c \/ pipeline[d][i].seq # n
      BY <1>8
    <3>2. \A i \in 1 .. Len(pipeline[d]) :
             Cardinality(Waiting(Lines', d, pipeline[d][i].seq)) =
                Cardinality(Waiting(Lines, d, pipeline[d][i].seq))
      BY <1>5, <3>1
    <3> QED
      BY <1>9, <3>2, SameCount
  <2> QED
    BY <2>1
<1>11. SlotsCounted(Append(pipeline[c], slot), c, Lines')
  <2>1. /\ Len(pipeline[c]) \in Nat /\ Len(Append(pipeline[c], slot)) = Len(pipeline[c]) + 1
        /\ \A i \in 1 .. Len(pipeline[c]) : Append(pipeline[c], slot)[i] = pipeline[c][i]
        /\ Append(pipeline[c], slot)[Len(pipeline[c]) + 1] = slot
    BY <1>1, <1>4, LenProperties, AppendProperties
  <2>2. \A i \in 1 .. Len(pipeline[c]) : Counted(pipeline[c][i], c, Lines')
    BY <1>10 DEF SlotsCounted
  <2>3. ASSUME NEW i \in 1 .. Len(Append(pipeline[c], slot))
        PROVE  Counted(Append(pipeline[c], slot)[i], c, Lines')
    <3>1. CASE i \in 1 .. Len(pipeline[c])
      BY <2>1, <2>2, <3>1
    <3>2. CASE i = Len(pipeline[c]) + 1
      BY <1>7, <2>1, <3>2
    <3> QED
      BY <2>1, <3>1, <3>2
  <2> QED
    BY <2>3 DEF SlotsCounted
<1>12. \A d \in Conns : SlotsCounted(pipeline'[d], d, Lines')
  BY <1>4, <1>10, <1>11
<1>13. SlotsAreOpen'
  BY <1>1, <1>4 DEF SlotsAreOpen
<1> QED
  BY <1>12, <1>13, NextCounted

\* Steps that leave the slots alone, and as many tasks as there were for each.
LEMMA KeepCounted ==
    ASSUME SlotsAreOpen, RemainingInFlight, UNCHANGED <<status, pipeline>>,
           \A c \in Conns : \A i \in 1 .. Len(pipeline[c]) :
              Cardinality(Waiting(Lines', c, pipeline[c][i].seq)) =
                 Cardinality(Waiting(Lines, c, pipeline[c][i].seq))
    PROVE  SlotsAreOpen' /\ RemainingInFlight'
<1>1. SlotsAreOpen'
  BY DEF SlotsAreOpen
<1>2. \A c \in Conns : SlotsCounted(pipeline[c], c, Lines)
  BY CountedSlots
<1>3. \A c \in Conns : SlotsCounted(pipeline'[c], c, Lines')
  BY <1>2, SameCount
<1> QED
  BY <1>1, <1>3, NextCounted

\* No step lets a slot wait for more or fewer tasks than are under way for it.
LEMMA StepCounted ==
    ASSUME ShardInvariant, TypeOK', AllNumbered(Lines, next_seq), SlotsAreOpen,
           RemainingInFlight, Next
    PROVE  SlotsAreOpen' /\ RemainingInFlight'
<1>0. /\ TypeOK /\ TasksAddressed /\ OneHandlerAtATime
      /\ Lines \in AllLines /\ Lines' \in AllLines
      /\ \A c \in Conns : SlotsCounted(pipeline[c], c, Lines)
      /\ \A c \in Conns : pipeline[c] \in Seq(Slot) /\ out[c] \in Seq(SentReply)
  BY LinesType, NextLines, CountedSlots DEF ShardInvariant, LinesShape, TypeOK
<1>1. ASSUME NEW c \in Conns, Accept(c) PROVE SlotsAreOpen' /\ RemainingInFlight'
  <2>1. pipeline' = pipeline /\ Lines' = Lines
    BY <1>1, SameLines DEF Accept
  <2>2. SlotsAreOpen'
    BY <1>0, <1>1, <2>1 DEF Accept, SlotsAreOpen, TypeOK
  <2>3. \A d \in Conns : SlotsCounted(pipeline'[d], d, Lines')
    BY <1>0, <2>1
  <2> QED
    BY <2>2, <2>3, NextCounted
<1>2. ASSUME NEW c \in Conns, HandleReadable(c) PROVE SlotsAreOpen' /\ RemainingInFlight'
  <2>1. UNCHANGED <<status, pipeline, mailbox, batch, outbox>>
    BY <1>2 DEF HandleReadable
  <2>2. Lines' = Lines
    BY <2>1, SameLines
  <2> QED
    BY <2>1, <2>2, KeepCounted
<1>3. ASSUME NEW c \in Conns, HandleWritable(c) PROVE SlotsAreOpen' /\ RemainingInFlight'
  <2>1. /\ status[c] = "open" /\ WriteAndSettle(c, pipeline[c], out[c])
        /\ UNCHANGED <<mailbox, batch, outbox>>
    BY <1>3 DEF HandleWritable
  <2>2. Lines' = Lines /\ Len(out[c]) \in Nat
    BY <1>0, <2>1, SameLines, LenProperties
  <2>3. \A d \in Conns : SlotsCounted(pipeline[d], d, Lines')
    BY <1>0, <2>2
  <2> QED
    BY <1>0, <2>1, <2>2, <2>3, SettleCounted
<1>4. ASSUME NEW c \in Conns, HandleError(c) PROVE SlotsAreOpen' /\ RemainingInFlight'
  <2>1. CloseConn(c) /\ UNCHANGED <<mailbox, batch, outbox>>
    BY <1>4 DEF HandleError
  <2>2. /\ Lines' = Lines /\ pipeline'[c] = <<>>
        /\ \A d \in Conns \ {c} : pipeline'[d] = pipeline[d] /\ status'[d] = status[d]
    BY <1>0, <2>1, SameLines DEF CloseConn, TypeOK
  <2>3. SlotsAreOpen'
    BY <2>2 DEF SlotsAreOpen
  <2>4. SlotsCounted(<<>>, c, Lines')
    BY DEF SlotsCounted
  <2>5. \A d \in Conns : SlotsCounted(pipeline'[d], d, Lines')
    BY <1>0, <2>2, <2>4
  <2> QED
    BY <2>3, <2>5, NextCounted
<1>5. ASSUME NEW s \in Shards, NEW c \in Conns, Dispatch(s, c)
      PROVE  SlotsAreOpen' /\ RemainingInFlight'
  <2>1. PICK slot, q : DispatchStep(s, c, slot, q)
    BY <1>5, DispatchCases
  <2> QED
    BY <2>1, DispatchCounted
<1>6. ASSUME NEW s \in Shards, NEW c \in Conns, FinishReadable(s, c)
      PROVE  SlotsAreOpen' /\ RemainingInFlight'
  <2> DEFINE p == Unflushed(pipeline[c])
             o == out[c] \o Flushed(pipeline[c])
  <2>1. /\ busy[s] = c /\ WriteAndSettle(c, p, o) /\ UNCHANGED <<mailbox, batch, outbox>>
    BY <1>6 DEF FinishReadable
  <2>2. status[c] = "open"
    BY <1>0, <2>1, ShardAssumption DEF OneHandlerAtATime, ShardAssumption
  <2>3. SlotsCounted(p, c, Lines)
    BY <1>0, UnflushedCounted
  <2>4. Len(o) \in Nat
    <3>1. Flushed(pipeline[c]) \in Seq(SentReply)
      BY <1>0, FlushSeq
    <3>2. o \in Seq(SentReply)
      BY <1>0, <3>1, ConcatProperties
    <3> QED
      BY <3>2, LenProperties
  <2> HIDE DEF p, o
  <2>5. Lines' = Lines
    BY <2>1, SameLines
  <2>6. SlotsCounted(p, c, Lines') /\ \A d \in Conns : SlotsCounted(pipeline[d], d, Lines')
    BY <1>0, <2>3, <2>5
  <2> QED
    BY <1>0, <2>1, <2>2, <2>4, <2>6, SettleCounted
<1>7. ASSUME NEW s \in Shards, Post(s) PROVE SlotsAreOpen' /\ RemainingInFlight'
  <2>1. PICK to \in Shards, t \in Task :
           Moves(Lines, Lines', <<"outbox", s>>, <<"inbox", to>>, t)
    BY <1>0, <1>7, PostLines
  <2>2. \A c, q : Cardinality(Waiting(Lines', c, q)) = Cardinality(Waiting(Lines, c, q))
    BY <1>0, <2>1, MoveCount
  <2>3. UNCHANGED <<status, pipeline>>
    BY <1>7 DEF Post
  <2> QED
    BY <2>2, <2>3, KeepCounted
<1>8. ASSUME NEW s \in Shards, Drain(s) PROVE SlotsAreOpen' /\ RemainingInFlight'
  <2>1. Lines' = Lines
    BY <1>0, <1>8, DrainLines
  <2>2. UNCHANGED <<status, pipeline>>
    BY <1>8 DEF Drain
  <2> QED
    BY <2>1, <2>2, KeepCounted
<1>9. ASSUME NEW s \in Shards, RunExec(s) PROVE SlotsAreOpen' /\ RemainingInFlight'
  <2>1. PICK t \in Exec, u \in Done : Moves(Lines, Lines', <<"inbox", s>>, <<"outbox", s>>, u)
    BY <1>0, <1>9, ExecLines
  <2>2. \A c, q : Cardinality(Waiting(Lines', c, q)) = Cardinality(Waiting(Lines, c, q))
    BY <1>0, <2>1, MoveCount
  <2>3. UNCHANGED <<status, pipeline>>
    BY <1>9 DEF RunExec
  <2> QED
    BY <2>2, <2>3, KeepCounted
<1>10. ASSUME NEW s \in Shards, NEW type, Running(s, type), UNCHANGED <<mailbox, outbox>>
       PROVE  /\ Leaves(Lines, Lines', <<"inbox", s>>)
              /\ Head(Lines[<<"inbox", s>>]) = Head(batch[s])
              /\ Head(batch[s]) \in Task /\ Head(batch[s]).type = type
  <2>1. Head(Inbox(s)) = Head(batch[s]) /\ Head(batch[s]) \in Task /\ Head(batch[s]).type = type
    BY <1>0, <1>10, RunInbox
  <2>2. Leaves(Lines, Lines', <<"inbox", s>>)
    BY <1>0, <1>10, RunLines
  <2>3. Lines[<<"inbox", s>>] = Inbox(s)
    BY <1>0, LinesType DEF LinesShape
  <2> QED
    BY <2>1, <2>2, <2>3
<1>11. ASSUME NEW s \in Shards, RunFlush(s) PROVE SlotsAreOpen' /\ RemainingInFlight'
  <2>1. Running(s, "flush") /\ UNCHANGED <<mailbox, outbox, status, pipeline>>
    BY <1>11 DEF RunFlush
  <2>2. Leaves(Lines, Lines', <<"inbox", s>>) /\ Head(Lines[<<"inbox", s>>]).type = "flush"
    BY <1>10, <2>1
  <2>3. \A c, q : ~AboutSlot(Head(Lines[<<"inbox", s>>]), c, q)
    BY <2>2 DEF AboutSlot
  <2>4. \A c, q : Cardinality(Waiting(Lines', c, q)) = Cardinality(Waiting(Lines, c, q))
    BY <1>0, <2>2, <2>3, LeaveCount
  <2> QED
    BY <2>1, <2>4, KeepCounted
<1>12. ASSUME NEW s \in Shards, DropDone(s) PROVE SlotsAreOpen' /\ RemainingInFlight'
  <2> DEFINE t == Head(batch[s])
             x == <<"inbox", s>>
  <2>1. /\ Running(s, "done") /\ ~Completes(t)
        /\ UNCHANGED <<mailbox, outbox, status, pipeline>>
    BY <1>12 DEF DropDone
  <2>2. /\ Leaves(Lines, Lines', x) /\ Head(Lines[x]) = t /\ t \in Task /\ t.type = "done"
    BY <1>10, <2>1
  <2>3. t.conn \in Conns
    BY <2>2 DEF Task, Exec, Done, FlushTask
  <2> HIDE DEF t, x
  <2>4. ASSUME NEW c \in Conns, NEW i \in 1 .. Len(pipeline[c])
        PROVE  ~AboutSlot(t, c, pipeline[c][i].seq)
    <3>1. CASE status[c] # "open"
      <4>1. pipeline[c] = <<>>
        BY <3>1 DEF SlotsAreOpen
      <4> QED
        BY <2>4, <4>1
    <3>2. CASE status[c] = "open"
      BY <2>1, <2>4, <3>2 DEF Completes, AboutSlot
    <3> QED
      BY <3>1, <3>2
  <2>5. \A c \in Conns : \A i \in 1 .. Len(pipeline[c]) :
           Cardinality(Waiting(Lines', c, pipeline[c][i].seq)) =
              Cardinality(Waiting(Lines, c, pipeline[c][i].seq))
    <3>1. ASSUME NEW c, NEW q, ~AboutSlot(t, c, q)
          PROVE  Cardinality(Waiting(Lines', c, q)) = Cardinality(Waiting(Lines, c, q))
      BY <1>0, <2>2, <3>1, LeaveCount
    <3> QED
      BY <2>4, <3>1
  <2> QED
    BY <2>1, <2>5, KeepCounted
<1>13. ASSUME NEW s \in Shards, RunDone(s) PROVE SlotsAreOpen' /\ RemainingInFlight'
  <2> DEFINE t == Head(batch[s])
             x == <<"inbox", s>>
             p == Completed(pipeline[t.conn], t)
             o == out[t.conn] \o Flushed(p)
  <2>1. /\ Running(s, "done") /\ Completes(t) /\ WriteAndSettle(t.conn, Unflushed(p), o)
        /\ UNCHANGED <<mailbox, outbox>>
    BY <1>13 DEF RunDone
  <2>2. /\ Leaves(Lines, Lines', x) /\ Head(Lines[x]) = t /\ t \in Task /\ t.type = "done"
    BY <1>10, <2>1
  <2>3. t \in Done /\ t.conn \in Conns
    BY <2>2 DEF Task, Exec, Done, FlushTask
  <2>4. status[t.conn] = "open"
    BY <2>1 DEF Completes
  <2> HIDE DEF t, x
  <2>5. p \in Seq(Slot)
    BY <1>0, <2>3, CompletedType
  <2>6. SlotsCounted(p, t.conn, Lines')
    <3>1. pipeline[t.conn] \in Seq(Slot) /\ SlotsCounted(pipeline[t.conn], t.conn, Lines)
      BY <1>0, <2>3
    <3> QED
      BY <1>0, <2>2, <2>3, <3>1, CompletedCounted
  <2>7. SlotsCounted(Unflushed(p), t.conn, Lines')
    <3> HIDE DEF p
    <3> QED
      BY <2>5, <2>6, UnflushedCounted
  <2>8. Len(o) \in Nat
    <3> HIDE DEF p
    <3>1. Flushed(p) \in Seq(SentReply) /\ out[t.conn] \in Seq(SentReply)
      BY <1>0, <2>3, <2>5, FlushSeq
    <3>2. o \in Seq(SentReply)
      BY <3>1, ConcatProperties
    <3> QED
      BY <3>2, LenProperties
  <2> HIDE DEF p, o
  <2>9. ASSUME NEW d \in Conns \ {t.conn} PROVE SlotsCounted(pipeline[d], d, Lines')
    <3>1. \A q : ~AboutSlot(Head(Lines[x]), d, q)
      BY <2>2 DEF AboutSlot
    <3>2. \A q : Cardinality(Waiting(Lines', d, q)) = Cardinality(Waiting(Lines, d, q))
      BY <1>0, <2>2, <3>1, LeaveCount
    <3>3. SlotsCounted(pipeline[d], d, Lines)
      BY <1>0
    <3> QED
      BY <3>2, <3>3, SameCount
  <2>10. PICK c \in Conns : c = t.conn
    BY <2>3
  <2>11. PICK r : r = Unflushed(p)
    OBVIOUS
  <2>12. /\ status[c] = "open" /\ WriteAndSettle(c, r, o) /\ SlotsCounted(r, c, Lines')
         /\ \A d \in Conns \ {c} : SlotsCounted(pipeline[d], d, Lines')
    BY <2>1, <2>4, <2>7, <2>9, <2>10, <2>11
  <2> QED
    BY <1>0, <2>8, <2>12, SettleCounted
<1> QED
  BY <1>1, <1>2, <1>3, <1>4, <1>5, <1>6, <1>7, <1>8, <1>9, <1>11, <1>12, <1>13 DEF Next, RunTask

-----------------------------------------------------------------------------
(* The theorems.                                                           *)

LEMMA FlowParts == FlowInvariant <=>
    TasksOnce /\ TasksOrdered /\ SlotsAreOpen /\ RemainingInFlight
BY DEF FlowInvariant, TasksOnce, TasksOrdered

\* Nothing is under way when the server starts.
LEMMA FlowInit == Init => FlowInvariant
<1> SUFFICES ASSUME Init PROVE FlowInvariant
  OBVIOUS
<1>1. Len(<<>>) = 0 /\ <<>> \o <<>> = <<>>
  BY EmptySeq, ConcatEmptySeq
<1>2. \A s \in Shards : /\ batch[s] = <<>> /\ mailbox[s] = <<>> /\ outbox[s] = <<>>
                        /\ log[s] = <<>> /\ Inbox(s) = <<>> /\ Outgoing(s) = <<>>
  BY <1>1 DEF Init, Inbox, Outgoing
<1>3. \A c \in Conns : pipeline[c] = <<>>
  BY DEF Init
<1>4. Positions(Lines) = {}
  <2>1. DOMAIN Lines = Places /\ \A x \in Places : Lines[x] = <<>>
    BY <1>2 DEF Lines, Places
  <2>2. DOMAIN <<>> = {}
    BY EmptySeq
  <2> QED
    BY <2>1, <2>2 DEF Positions
<1>5. TasksOnce
  BY <1>1, <1>2, <1>4 DEF TasksOnce, AllNumbered, AllApart, AllFresh, LogNumbered, AtMostOnce
<1>6. TasksOrdered
  BY <1>1, <1>2 DEF TasksOrdered, PostedFirst, InboxSorted, LogBeforeInbox, LogSorted
<1>7. SlotsAreOpen /\ RemainingInFlight
  BY <1>1, <1>3 DEF SlotsAreOpen, RemainingInFlight
<1> QED
  BY <1>5, <1>6, <1>7, FlowParts

\* A step that changes nothing.
LEMMA FlowStutter ==
    ASSUME FlowInvariant, UNCHANGED vars
    PROVE  FlowInvariant'
<1>1. UNCHANGED <<mailbox, batch, outbox, log, next_seq, pipeline, status>>
  BY DEF vars
<1>2. Lines' = Lines /\ \A s \in Shards : Inbox(s)' = Inbox(s)
  BY <1>1, SameLines
<1>3. TasksOnce'
  <2>1. LogNumbered' /\ AtMostOnce'
    BY <1>1 DEF FlowInvariant, LogNumbered, AtMostOnce
  <2> QED
    BY <1>1, <1>2, <2>1, NextOnce DEF FlowInvariant
<1>4. TasksOrdered'
  <2>1. PostedFirst'
    BY <1>1 DEF FlowInvariant, PostedFirst
  <2>2. InboxesKept(Shards)
    BY <1>2 DEF InboxesKept
  <2> QED
    BY <1>1, <2>1, <2>2, SameOrder, OrderedBySeq DEF FlowInvariant
<1>5. SlotsAreOpen' /\ RemainingInFlight'
  BY <1>1, <1>2, KeepCounted DEF FlowInvariant
<1>6. (TasksOnce /\ TasksOrdered /\ SlotsAreOpen /\ RemainingInFlight)'
  BY <1>3, <1>4, <1>5
<1> QED
  BY <1>6, FlowParts, PTL

\* FlowInvariant holds in every reachable state, for any number of shards,
\* connections, keys and requests and whatever fails.
THEOREM TasksFlow == Spec => []FlowInvariant
<1>1. ShardInvariant /\ FlowInvariant /\ [Next]_vars => FlowInvariant'
  <2> SUFFICES ASSUME ShardInvariant, FlowInvariant, [Next]_vars PROVE FlowInvariant'
    OBVIOUS
  <2>1. CASE UNCHANGED vars
    BY <2>1, FlowStutter
  <2>2. CASE Next
    <3>1. TypeOK /\ TypeOK'
      BY StepType DEF ShardInvariant
    <3>2. TasksOnce /\ TasksOrdered /\ SlotsAreOpen /\ RemainingInFlight
      BY FlowParts
    <3>3. FlowStep
      BY <2>2, <3>1, FlowCases
    <3>4. TasksOnce'
      BY <3>1, <3>2, <3>3, StepOnce
    <3>5. TasksOrdered'
      BY <3>1, <3>2, <3>3, StepOrdered
    <3>6. SlotsAreOpen' /\ RemainingInFlight'
      BY <2>2, <3>1, <3>2, StepCounted DEF TasksOnce
    <3>7. (TasksOnce /\ TasksOrdered /\ SlotsAreOpen /\ RemainingInFlight)'
      BY <3>4, <3>5, <3>6
    <3> QED
      BY <3>7, FlowParts, PTL
  <2> QED
    BY <2>1, <2>2
<1> QED
  BY <1>1, FlowInit, Invariance, PTL DEF Spec

\* No command and no fragment of one is executed twice, whatever connections
\* close and in whatever order mailboxes are drained.
THEOREM RequestsRunOnce == Spec => []AtMostOnce
<1>1. FlowInvariant => AtMostOnce
  BY DEF FlowInvariant
<1> QED
  BY <1>1, TasksFlow, PTL

\* Commands of one connection on one key of another shard are executed there in
\* the order in which they were sent, forwarded or split.
THEOREM RemoteRequestsInOrder == Spec => []RemoteOrder
<1>1. FlowInvariant => RemoteOrder
  BY DEF FlowInvariant, LogSorted, RemoteOrder
<1> QED
  BY <1>1, TasksFlow, PTL

\* A reply slot waits for exactly the requests and completions under way for it,
\* and is ready when there are none: complete_fragment() never assembles a reply
\* early, and no slot waits for a completion that cannot come.
THEOREM SlotsWaitExactly == Spec => []RemainingInFlight
<1>1. FlowInvariant => RemainingInFlight
  BY DEF FlowInvariant
<1> QED
  BY <1>1, TasksFlow, PTL

=============================================================================
