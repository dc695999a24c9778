-------------------------- MODULE LifecycleProofs --------------------------
(***************************************************************************)
(* Proofs about module Lifecycle: a write whose client was answered is     *)
(* never lost by an orderly stop or a failed start, for any number of      *)
(* commands, shards and restarts.                                          *)
(*                                                                         *)
(* A restart with another number of shards may look for a key on another   *)
(* shard than the one whose files hold it, so the theorem is about servers *)
(* whose shard counts route every key alike (RoutesAgree): above all those *)
(* that keep their number of shards.                                       *)
(***************************************************************************)
EXTENDS Lifecycle, SequenceTheorems, FiniteSetTheorems, WellFoundedInduction, TLAPS

RoutesAgree == \A j, k \in ShardCounts, c \in Commands : Hash[c] % j = Hash[c] % k
-----------------------------------------------------------------------------
(* The constants.                                                          *)

\* A set of numbers that is not empty has a least element.
LEMMA LeastExists ==
    ASSUME NEW T, T \subseteq Nat, T # {}
    PROVE  \E x \in T : \A y \in T : x <= y
<1> DEFINE R == OpToRel(<, Nat)
<1>1. PICK x \in T : \A y \in T : ~(<<y, x>> \in R)
  <2>1. IsWellFoundedOn(R, Nat)
    BY NatLessThanWellFounded
  <2> HIDE DEF R
  <2> QED
    BY <2>1, WFMin
<1>2. ASSUME NEW y \in T PROVE x <= y
  <2>1. x \in Nat /\ y \in Nat /\ ~(<<y, x>> \in R)
    BY <1>1
  <2>2. y < x => <<y, x>> \in R
    BY <2>1 DEF OpToRel
  <2> HIDE DEF R
  <2> QED
    BY <2>1, <2>2
<1> QED
  BY <1>2

\* A finite set of numbers that is not empty has a largest element: look at
\* a smallest set without one.
LEMMA LargestExists ==
    ASSUME NEW T, T \subseteq Nat, IsFiniteSet(T), T # {}
    PROVE  \E x \in T : \A y \in T : x >= y
<1> DEFINE HasMax(U) == \E x \in U : \A y \in U : x >= y
           Bad == {m \in Nat : \E U \in SUBSET Nat :
                     IsFiniteSet(U) /\ U # {} /\ Cardinality(U) = m /\ ~HasMax(U)}
<1>1. SUFFICES ASSUME Bad # {} PROVE FALSE
  <2>1. Cardinality(T) \in Nat
    BY FS_CardinalityType
  <2> QED
    BY <2>1
<1>2. PICK m \in Bad : \A k \in Bad : m <= k
  <2>1. Bad \subseteq Nat
    OBVIOUS
  <2> HIDE DEF Bad
  <2> QED
    BY <1>1, <2>1, LeastExists
<1>3. PICK U \in SUBSET Nat : IsFiniteSet(U) /\ U # {} /\ Cardinality(U) = m /\ ~HasMax(U)
  OBVIOUS
<1>4. PICK z : z \in U
  BY <1>3
<1> DEFINE W == U \ {z}
<1>5. IsFiniteSet(W) /\ Cardinality(W) = Cardinality(U) - 1
  BY <1>3, <1>4, FS_RemoveElement
<1>6. Cardinality(W) \in Nat /\ W \in SUBSET Nat
  BY <1>5, FS_CardinalityType
<1>7. CASE W = {}
  <2>1. U = {z} /\ z \in Nat
    BY <1>4, <1>7
  <2>2. HasMax(U)
    BY <2>1
  <2> QED
    BY <1>3, <2>2
<1>8. CASE W # {}
  <2>1. HasMax(W)
    <3>1. Cardinality(W) \notin Bad
      <4>1. m \in Nat /\ ~(m <= Cardinality(W))
        BY <1>3, <1>5, <1>6
      <4> HIDE DEF Bad, W
      <4> QED
        BY <1>2, <4>1
    <3> HIDE DEF W, HasMax
    <3> QED
      BY <1>5, <1>6, <1>8, <3>1
  <2>2. PICK x \in W : \A y \in W : x >= y
    BY <2>1
  <2>3. x \in Nat /\ z \in Nat /\ x \in U
    BY <1>4
  <2>4. CASE x >= z
    <3>1. \A y \in U : x >= y
      BY <2>2, <2>4
    <3> QED
      BY <1>3, <2>3, <3>1
  <2>5. CASE ~(x >= z)
    <3>1. \A y \in U : z >= y
      BY <2>2, <2>3, <2>5
    <3> QED
      BY <1>3, <1>4, <3>1
  <2> QED
    BY <2>4, <2>5
<1> QED
  BY <1>7, <1>8

LEMMA Counts ==
    /\ MaxShards \in ShardCounts /\ MaxShards \in Nat
    /\ \A k \in ShardCounts : k \in Nat /\ k >= 1 /\ k <= MaxShards /\ 0 .. k - 1 \subseteq AllShards
<1>1. \E x \in ShardCounts : \A y \in ShardCounts : x >= y
  BY LifecycleAssumption, LargestExists DEF LifecycleAssumption
<1>2. MaxShards \in ShardCounts /\ \A y \in ShardCounts : MaxShards >= y
  BY <1>1 DEF MaxShards, Max
<1>3. ShardCounts \subseteq Nat \ {0}
  BY LifecycleAssumption DEF LifecycleAssumption
<1> QED
  BY <1>2, <1>3 DEF AllShards

\* The smallest count, with which the model begins, is one of the counts.
LEMMA LeastCount == Min(ShardCounts) \in ShardCounts
<1>1. \E x \in ShardCounts : \A y \in ShardCounts : x <= y
  BY LifecycleAssumption, LeastExists DEF LifecycleAssumption
<1> QED
  BY <1>1 DEF Min
-----------------------------------------------------------------------------
(* The inductive invariant.                                                *)

Running == {"loop", "last", "batch"}
Task    == [kind : {"exec", "done"}, cmd : Commands, from : AllShards]

\* Types: the index of a loop of the control thread is within the shards.
TypeInv ==
    /\ control \in {"down", "init", "launch", "serving", "stopping", "joining"}
    /\ n \in ShardCounts /\ at \in 0 .. n
    /\ thread \in [AllShards -> {"none", "exited"} \cup Running]
    /\ flag \in [AllShards -> BOOLEAN]
    /\ db \in [AllShards -> SUBSET Commands] /\ file \in [AllShards -> SUBSET Commands]
    /\ mailbox \in [AllShards -> Seq(Task)] /\ batch \in [AllShards -> Seq(Task)]
    /\ answered \subseteq Commands /\ unsent \subseteq Commands

\* Which threads there are, and what a shard without one has in memory, while
\* the control thread goes through its loops.
Phases ==
    /\ \A s \in AllShards : s >= n => thread[s] \in {"none", "exited"}
    /\ control = "down" => \A s \in AllShards : thread[s] \notin Running
    /\ control = "init" => /\ \A s \in AllShards : thread[s] \notin Running
                           /\ \A s \in 0 .. at - 1 : db[s] = file[s]
    /\ control = "launch" => \A s \in at .. n - 1 : thread[s] \notin Running /\ db[s] = file[s]
    /\ control = "joining" => \A s \in 0 .. at - 1 : thread[s] \notin Running

\* Command c is safe where routing finds it.
Kept(c) ==
    IF thread[ShardFor(c)] \in Running THEN c \in db[ShardFor(c)] ELSE c \in file[ShardFor(c)]

\* A command waits where its key lives, and one that waits to be answered has
\* been executed and is safe already.
Sound(s) == {t \in Task : /\ t.kind = "exec" => ShardFor(t.cmd) = s
                          /\ t.kind = "done" => Kept(t.cmd)}

TasksSound ==
    \A s \in AllShards : mailbox[s] \in Seq(Sound(s)) /\ batch[s] \in Seq(Sound(s))

LifecycleInvariant ==
    /\ TypeInv
    /\ Phases
    /\ TasksSound
    /\ \A c \in answered : Kept(c)

\* A larger set has more sequences.
LEMMA SeqOfSubset ==
    ASSUME NEW S, NEW T, S \subseteq T, NEW q \in Seq(S)
    PROVE  q \in Seq(T)
<1>1. Len(q) \in Nat /\ q \in [1 .. Len(q) -> S] /\ DOMAIN q = 1 .. Len(q)
  BY LenProperties
<1>2. q \in [1 .. Len(q) -> T]
  BY <1>1
<1> QED
  BY <1>1, <1>2

\* Routing stays within the shards that run.
LEMMA Routing ==
    ASSUME TypeInv, NEW c \in Commands
    PROVE  ShardFor(c) \in 0 .. n - 1 /\ ShardFor(c) \in AllShards
<1>1. Hash[c] \in Nat /\ n \in Nat /\ n >= 1 /\ 0 .. n - 1 \subseteq AllShards
  BY LifecycleAssumption, Counts DEF LifecycleAssumption, TypeInv
<1>2. Hash[c] % n \in 0 .. n - 1
  BY <1>1
<1> QED
  BY <1>1, <1>2 DEF ShardFor

LEMMA InitInvariant == Init => LifecycleInvariant
<1> SUFFICES ASSUME Init PROVE LifecycleInvariant
  OBVIOUS
<1>1. n \in ShardCounts /\ n \in Nat /\ at = 0
  BY LeastCount, Counts DEF Init
<1>2. TypeInv
  BY <1>1 DEF Init, TypeInv
<1>3. Phases
  BY <1>1 DEF Init, Phases, Running
<1>4. TasksSound
  BY DEF Init, TasksSound
<1>5. \A c \in answered : Kept(c)
  BY DEF Init
<1> QED
  BY <1>2, <1>3, <1>4, <1>5 DEF LifecycleInvariant
-----------------------------------------------------------------------------
(* Types.                                                                  *)

\* Performing a task changes the memory of its shard and one mailbox.
LEMMA PerformType ==
    ASSUME NEW s \in AllShards, NEW t \in Task, NEW boxes \in [AllShards -> Seq(Task)],
           Perform(s, t, boxes), TypeInv
    PROVE  /\ db' \in [AllShards -> SUBSET Commands] /\ mailbox' \in [AllShards -> Seq(Task)]
           /\ answered' \subseteq Commands
<1>1. t.cmd \in Commands /\ t.from \in AllShards /\ [t EXCEPT !.kind = "done"] \in Task
  BY DEF Task
<1>2. CASE t.kind = "exec"
  <2>1. /\ db' = [db EXCEPT ![s] = @ \cup {t.cmd}] /\ answered' = answered
        /\ mailbox' = [boxes EXCEPT ![t.from] = Append(@, [t EXCEPT !.kind = "done"])]
    BY <1>2 DEF Perform
  <2>2. boxes[t.from] \in Seq(Task)
    BY <1>1
  <2>3. Append(boxes[t.from], [t EXCEPT !.kind = "done"]) \in Seq(Task)
    BY <1>1, <2>2
  <2> QED
    BY <1>1, <2>1, <2>3 DEF TypeInv
<1>3. CASE t.kind # "exec"
  BY <1>1, <1>3 DEF Perform, TypeInv
<1> QED
  BY <1>2, <1>3

LEMMA StepType == TypeInv /\ [Next]_vars => TypeInv'
<1> SUFFICES ASSUME TypeInv, [Next]_vars PROVE TypeInv'
  OBVIOUS
<1>0. n \in Nat /\ n >= 1 /\ 0 .. n - 1 \subseteq AllShards /\ at \in Nat
  BY Counts DEF TypeInv
<1>1. ASSUME NEW count \in ShardCounts, Start(count) PROVE TypeInv'
  <2>1. count \in Nat
    BY Counts
  <2> QED
    BY <1>1, <2>1 DEF Start, TypeInv, clientVars, metricsVars
<1>2. CASE InitShard
  <2>1. at \in AllShards /\ at + 1 \in 0 .. n
    BY <1>0, <1>2 DEF InitShard
  <2> QED
    BY <1>2, <2>1 DEF InitShard, TypeInv, clientVars
<1>3. CASE LaunchShard
  <2>1. at \in AllShards /\ at + 1 \in 0 .. n
    BY <1>0, <1>3 DEF LaunchShard
  <2> QED
    BY <1>3, <2>1 DEF LaunchShard, TypeInv, Running, clientVars
<1>4. CASE StopShard
  <2>1. at \in AllShards /\ at + 1 \in 0 .. n
    BY <1>0, <1>4 DEF StopShard
  <2> QED
    BY <1>4, <2>1 DEF StopShard, TypeInv, clientVars
<1>11. CASE InitFails \/ InitDone \/ LaunchMetrics \/ Signal \/ SeeSignal \/ StopDone \/ JoinShard \/ Exit
  <2>1. UNCHANGED <<n, shardVars, unsent, answered>>
    BY <1>11 DEF InitFails, InitDone, LaunchMetrics, Signal, SeeSignal, StopDone, JoinShard, Exit, clientVars
  <2>2. at' \in 0 .. n
    BY <1>0, <1>11 DEF InitFails, InitDone, LaunchMetrics, Signal, SeeSignal, StopDone, JoinShard, Exit,
       TypeInv
  <2>3. control' \in {"down", "init", "launch", "serving", "stopping", "joining"}
    BY <1>11 DEF InitFails, InitDone, LaunchMetrics, Signal, SeeSignal, StopDone, JoinShard, Exit, TypeInv
  <2> QED
    BY <2>1, <2>2, <2>3 DEF TypeInv, shardVars
<1>5. ASSUME NEW s \in AllShards, NEW c \in Commands, Handle(s, c) PROVE TypeInv'
  <2>1. ShardFor(c) \in AllShards
    BY Routing
  <2>2. [kind |-> "exec", cmd |-> c, from |-> s] \in Task
    BY DEF Task
  <2>3. db' \in [AllShards -> SUBSET Commands] /\ answered' \subseteq Commands
    <3>1. \/ db' = db /\ answered' = answered
          \/ db' = [db EXCEPT ![s] = @ \cup {c}] /\ answered' = answered \cup {c}
      BY <1>5 DEF Handle
    <3>2. db \in [AllShards -> SUBSET Commands] /\ answered \subseteq Commands
      BY DEF TypeInv
    <3> QED
      BY <3>1, <3>2
  <2>4. mailbox' \in [AllShards -> Seq(Task)]
    <3>1. mailbox[ShardFor(c)] \in Seq(Task)
      BY <2>1 DEF TypeInv
    <3>2. Append(mailbox[ShardFor(c)], [kind |-> "exec", cmd |-> c, from |-> s]) \in Seq(Task)
      BY <2>2, <3>1
    <3> QED
      BY <1>5, <2>1, <3>2 DEF Handle, TypeInv
  <2> QED
    BY <1>5, <2>3, <2>4 DEF Handle, TypeInv, controlVars, metricsVars
<1>6. ASSUME NEW s \in AllShards, RunTask(s) PROVE TypeInv'
  <2>1. Head(mailbox[s]) \in Task /\ [mailbox EXCEPT ![s] = Tail(@)] \in [AllShards -> Seq(Task)]
    BY <1>6 DEF RunTask, TypeInv
  <2>2. /\ db' \in [AllShards -> SUBSET Commands] /\ mailbox' \in [AllShards -> Seq(Task)]
        /\ answered' \subseteq Commands
    BY <1>6, <2>1, PerformType DEF RunTask
  <2> QED
    BY <1>6, <2>2 DEF RunTask, TypeInv, controlVars, metricsVars
<1>7. ASSUME NEW s \in AllShards, LeaveLoop(s) \/ LastDrain(s) \/ CloseLog(s) PROVE TypeInv'
  <2>1. CASE LeaveLoop(s)
    BY <2>1 DEF LeaveLoop, TypeInv, Running, controlVars, clientVars
  <2>2. CASE LastDrain(s)
    <3>1. mailbox[s] \in Seq(Task) /\ <<>> \in Seq(Task)
      BY DEF TypeInv
    <3> QED
      BY <2>2, <3>1 DEF LastDrain, TypeInv, Running, controlVars, clientVars
  <2>3. CASE CloseLog(s)
    BY <2>3 DEF CloseLog, TypeInv, Running, controlVars, clientVars
  <2> QED
    BY <1>7, <2>1, <2>2, <2>3
<1>8. ASSUME NEW s \in AllShards, RunLastTask(s) PROVE TypeInv'
  <2>1. Head(batch[s]) \in Task /\ [batch EXCEPT ![s] = Tail(@)] \in [AllShards -> Seq(Task)]
        /\ mailbox \in [AllShards -> Seq(Task)]
    BY <1>8 DEF RunLastTask, TypeInv
  <2>2. /\ db' \in [AllShards -> SUBSET Commands] /\ mailbox' \in [AllShards -> Seq(Task)]
        /\ answered' \subseteq Commands
    BY <1>8, <2>1, PerformType DEF RunLastTask
  <2> QED
    BY <1>8, <2>1, <2>2 DEF RunLastTask, TypeInv, controlVars, metricsVars
<1>9. ASSUME NEW c \in Commands, NEW s \in AllShards, Send(c, s) \/ MetricsQuery(c, s) PROVE TypeInv'
  BY <1>9 DEF Send, MetricsQuery, TypeInv, controlVars, shardVars, metricsVars
<1>10. CASE MetricsListenFails \/ MetricsStep \/ UNCHANGED vars
  BY <1>10 DEF MetricsListenFails, MetricsStep, MetricsListen, MetricsCheck, MetricsIdle, MetricsReply,
     vars, TypeInv, controlVars, shardVars, clientVars
<1> QED
  BY <1>1, <1>2, <1>3, <1>4, <1>5, <1>6, <1>7, <1>8, <1>9, <1>10, <1>11 DEF Next, ControlStep, ShardStep
-----------------------------------------------------------------------------
(* Safe commands stay safe.                                                *)

\* With counts that agree, no start moves a key to another shard.
LEMMA RoutesStay ==
    ASSUME RoutesAgree, TypeInv, TypeInv', NEW c \in Commands
    PROVE  ShardFor(c)' = ShardFor(c)
  BY DEF RoutesAgree, TypeInv, ShardFor

\* A step in which threads neither start nor end, memories of running shards
\* only grow and files stay.
LEMMA KeptByGrowth ==
    ASSUME RoutesAgree, TypeInv, TypeInv', NEW c \in Commands, Kept(c),
           \A s \in AllShards : thread'[s] \in Running <=> thread[s] \in Running,
           \A s \in AllShards : thread[s] \in Running => db[s] \subseteq db'[s],
           file' = file
    PROVE  Kept(c)'
<1>1. ShardFor(c)' = ShardFor(c) /\ ShardFor(c) \in AllShards
  BY RoutesStay, Routing
<1> HIDE DEF ShardFor
<1> QED
  BY <1>1 DEF Kept

\* Launching a shard makes the memory it has loaded the place to look.
LEMMA KeptByLaunch ==
    ASSUME RoutesAgree, TypeInv, TypeInv', Phases, NEW c \in Commands, Kept(c), LaunchShard
    PROVE  Kept(c)'
<1>1. ShardFor(c)' = ShardFor(c) /\ ShardFor(c) \in AllShards
  BY RoutesStay, Routing
<1>2. at \in Nat /\ n \in Nat /\ at \in at .. n - 1 /\ control = "launch"
  BY Counts DEF LaunchShard, TypeInv
<1>3. thread[at] \notin Running /\ db[at] = file[at]
  BY <1>2 DEF Phases
<1>4. UNCHANGED <<db, file>> /\ thread' = [thread EXCEPT ![at] = "loop"] /\ "loop" \in Running
  BY DEF LaunchShard, Running
<1>5. CASE ShardFor(c) = at
  <2>1. thread'[at] = "loop"
    BY <1>1, <1>4, <1>5 DEF TypeInv
  <2> QED
    BY <1>1, <1>3, <1>4, <1>5, <2>1 DEF Kept
<1>6. CASE ShardFor(c) # at
  <2>1. thread'[ShardFor(c)] = thread[ShardFor(c)]
    BY <1>1, <1>4, <1>6 DEF TypeInv
  <2> QED
    BY <1>1, <1>4, <2>1 DEF Kept
<1> QED
  BY <1>5, <1>6

\* Closing the log makes the file the place to look.
LEMMA KeptByClose ==
    ASSUME RoutesAgree, TypeInv, TypeInv', NEW c \in Commands, Kept(c), NEW s \in AllShards, CloseLog(s)
    PROVE  Kept(c)'
<1>1. ShardFor(c)' = ShardFor(c) /\ ShardFor(c) \in AllShards
  BY RoutesStay, Routing
<1>2. /\ thread[s] \in Running /\ thread' = [thread EXCEPT ![s] = "exited"] /\ "exited" \notin Running
      /\ file' = [file EXCEPT ![s] = db[s]] /\ db' = db
  BY DEF CloseLog, Running
<1>3. CASE ShardFor(c) = s
  <2>1. thread'[s] = "exited" /\ file'[s] = db[s]
    BY <1>2 DEF TypeInv
  <2> QED
    BY <1>1, <1>2, <1>3, <2>1 DEF Kept
<1>4. CASE ShardFor(c) # s
  <2>1. thread'[ShardFor(c)] = thread[ShardFor(c)] /\ file'[ShardFor(c)] = file[ShardFor(c)]
    BY <1>1, <1>2, <1>4 DEF TypeInv
  <2> QED
    BY <1>1, <1>2, <2>1 DEF Kept
<1> QED
  BY <1>3, <1>4

\* Performing a task only adds to the memory of its shard.
LEMMA PerformGrows ==
    ASSUME TypeInv, NEW s \in AllShards, NEW t, NEW boxes, Perform(s, t, boxes)
    PROVE  \A r \in AllShards : db[r] \subseteq db'[r] /\ (r # s => db'[r] = db[r])
<1>1. CASE t.kind = "exec"
  BY <1>1 DEF Perform, TypeInv
<1>2. CASE t.kind # "exec"
  BY <1>2 DEF Perform
<1> QED
  BY <1>1, <1>2

LEMMA KeptStays ==
    ASSUME RoutesAgree, TypeInv, TypeInv', Phases, [Next]_vars, NEW c \in Commands, Kept(c)
    PROVE  Kept(c)'
<1> DEFINE Grows == /\ \A s \in AllShards : thread'[s] \in Running <=> thread[s] \in Running
                    /\ \A s \in AllShards : thread[s] \in Running => db[s] \subseteq db'[s]
                    /\ file' = file
<1>1. ASSUME NEW count \in ShardCounts, Start(count) PROVE Grows
  BY <1>1 DEF Start, Phases, Running
<1>2. ASSUME InitShard PROVE Grows
  <2>1. \A s \in AllShards : thread[s] \notin Running
    BY <1>2 DEF InitShard, Phases
  <2> QED
    BY <1>2, <2>1 DEF InitShard
<1>3. ASSUME \/ InitFails \/ InitDone \/ LaunchMetrics \/ Signal \/ SeeSignal \/ StopShard \/ StopDone
             \/ JoinShard \/ Exit \/ MetricsListenFails \/ MetricsStep \/ UNCHANGED vars
      PROVE  Grows
  <2>1. UNCHANGED <<thread, db, file>>
    BY <1>3 DEF InitFails, InitDone, LaunchMetrics, Signal, SeeSignal, StopShard, StopDone, JoinShard, Exit,
       MetricsListenFails, MetricsStep, MetricsListen, MetricsCheck, MetricsIdle, MetricsReply,
       vars, shardVars
  <2> QED
    BY <2>1
<1>4. ASSUME NEW s \in AllShards, NEW d \in Commands, Handle(s, d) PROVE Grows
  <2>1. UNCHANGED <<thread, file>>
    BY <1>4 DEF Handle
  <2>2. \A r \in AllShards : db[r] \subseteq db'[r]
    BY <1>4 DEF Handle, TypeInv
  <2> QED
    BY <2>1, <2>2
<1>5. ASSUME NEW s \in AllShards, RunTask(s) \/ RunLastTask(s) PROVE Grows
  <2>1. UNCHANGED <<thread, file>>
    BY <1>5 DEF RunTask, RunLastTask
  <2>2. \E t, boxes : Perform(s, t, boxes)
    BY <1>5 DEF RunTask, RunLastTask
  <2>3. \A r \in AllShards : db[r] \subseteq db'[r]
    BY <2>2, PerformGrows
  <2> QED
    BY <2>1, <2>3
<1>6. ASSUME NEW s \in AllShards, LeaveLoop(s) \/ LastDrain(s) PROVE Grows
  BY <1>6 DEF LeaveLoop, LastDrain, TypeInv, Running
<1>7. ASSUME NEW s \in AllShards, NEW d \in Commands, Send(d, s) \/ MetricsQuery(d, s) PROVE Grows
  BY <1>7 DEF Send, MetricsQuery, shardVars
<1>8. Grows => Kept(c)'
  BY KeptByGrowth
<1>9. CASE LaunchShard
  BY <1>9, KeptByLaunch
<1>10. ASSUME NEW s \in AllShards, CloseLog(s) PROVE Kept(c)'
  BY <1>10, KeptByClose
<1> HIDE DEF Grows
<1> QED
  BY <1>1, <1>2, <1>3, <1>4, <1>5, <1>6, <1>7, <1>8, <1>9, <1>10 DEF Next, ControlStep, ShardStep
-----------------------------------------------------------------------------
(* The phases of the control thread.                                       *)

\* A shard that runs is not one that is still to be launched.
LEMMA StepPhases ==
    ASSUME TypeInv, TypeInv', Phases, [Next]_vars
    PROVE  Phases'
<1>0. n \in Nat /\ n >= 1 /\ 0 .. n - 1 \subseteq AllShards /\ at \in 0 .. n
  BY Counts DEF TypeInv
<1>1. ASSUME NEW count \in ShardCounts, Start(count) PROVE Phases'
  BY <1>1, Counts DEF Start, Phases, Running
<1>2. CASE InitShard
  <2>1. at \in AllShards /\ at < n
    BY <1>0, <1>2 DEF InitShard
  <2>2. /\ control = "init" /\ control' = "init" /\ at' = at + 1 /\ n' = n /\ thread' = thread /\ file' = file
        /\ db' = [db EXCEPT ![at] = file[at]]
    BY <1>2 DEF InitShard
  <2>3. \A s \in 0 .. at' - 1 : db'[s] = file'[s]
    BY <1>0, <2>1, <2>2 DEF Phases, TypeInv
  <2> QED
    BY <2>2, <2>3 DEF Phases
<1>3. CASE InitFails \/ Signal \/ SeeSignal \/ LaunchMetrics \/ StopShard
  BY <1>3 DEF InitFails, Signal, SeeSignal, LaunchMetrics, StopShard, Phases, shardVars
<1>4. CASE InitDone
  BY <1>0, <1>4 DEF InitDone, Phases, shardVars
<1>5. CASE LaunchShard
  <2>1. /\ control = "launch" /\ control' = "launch" /\ at' = at + 1 /\ n' = n /\ at < n
        /\ thread' = [thread EXCEPT ![at] = "loop"] /\ UNCHANGED <<db, file>>
    BY <1>5 DEF LaunchShard
  <2>2. \A s \in at' .. n - 1 : s \in AllShards /\ s # at /\ s \in at .. n - 1
    BY <1>0, <2>1
  <2>3. \A s \in at' .. n - 1 : thread'[s] \notin Running /\ db'[s] = file'[s]
    BY <2>1, <2>2 DEF Phases, TypeInv
  <2>4. \A s \in AllShards : s >= n => thread'[s] = thread[s]
    BY <1>0, <2>1 DEF TypeInv
  <2> QED
    BY <2>1, <2>3, <2>4 DEF Phases
<1>6. CASE StopDone
  BY <1>6 DEF StopDone, Phases, shardVars
<1>7. CASE JoinShard
  <2>1. /\ control = "joining" /\ control' = "joining" /\ at' = at + 1 /\ n' = n /\ thread' = thread
        /\ thread[at] \notin Running
    BY <1>7 DEF JoinShard, shardVars, Running
  <2>2. \A s \in 0 .. at' - 1 : thread'[s] \notin Running
    BY <1>0, <2>1 DEF Phases
  <2> QED
    BY <2>1, <2>2 DEF Phases
<1>8. CASE Exit
  <2>1. control = "joining" /\ at = n /\ control' = "down" /\ UNCHANGED <<n, thread>>
    BY <1>8 DEF Exit, shardVars
  <2>2. \A s \in AllShards : thread[s] \notin Running
    <3> SUFFICES ASSUME NEW s \in AllShards PROVE thread[s] \notin Running
      OBVIOUS
    <3>1. s \in Nat
      BY Counts DEF AllShards
    <3>2. CASE s >= n
      BY <3>2 DEF Phases, Running
    <3>3. CASE ~(s >= n)
      BY <1>0, <2>1, <3>1, <3>3 DEF Phases
    <3> QED
      BY <3>2, <3>3
  <2> QED
    BY <2>1, <2>2 DEF Phases
<1>9. ASSUME NEW s \in AllShards, ShardStep(s) PROVE Phases'
  <2>1. UNCHANGED controlVars
    BY <1>9 DEF ShardStep, Handle, RunTask, LeaveLoop, LastDrain, RunLastTask, CloseLog
  <2>2. thread[s] \in Running
    BY <1>9 DEF ShardStep, Handle, RunTask, LeaveLoop, LastDrain, RunLastTask, CloseLog, Running
  <2>3. \A r \in AllShards : r # s => thread'[r] = thread[r] /\ db'[r] = db[r] /\ file'[r] = file[r]
    <3>1. CASE RunTask(s) \/ RunLastTask(s)
      <4>1. UNCHANGED <<thread, file>>
        BY <3>1 DEF RunTask, RunLastTask
      <4>2. \E t, boxes : Perform(s, t, boxes)
        BY <3>1 DEF RunTask, RunLastTask
      <4> QED
        BY <4>1, <4>2, PerformGrows
    <3>2. ASSUME NEW c \in Commands, Handle(s, c)
          PROVE  \A r \in AllShards : r # s => thread'[r] = thread[r] /\ db'[r] = db[r] /\ file'[r] = file[r]
      BY <3>2 DEF Handle, TypeInv
    <3>3. CASE LeaveLoop(s) \/ LastDrain(s) \/ CloseLog(s)
      BY <3>3 DEF LeaveLoop, LastDrain, CloseLog, TypeInv
    <3> QED
      BY <1>9, <3>1, <3>2, <3>3 DEF ShardStep
  <2>4. ~(s >= n)
    BY <2>2 DEF Phases, Running
  <2>5. \A r \in AllShards : thread[r] \notin Running => thread'[r] = thread[r] /\ db'[r] = db[r] /\ file'[r] = file[r]
    BY <2>2, <2>3
  <2>6. UNCHANGED <<control, at, n>>
    BY <2>1 DEF controlVars
  <2>7. control \notin {"down", "init"}
    BY <2>2 DEF Phases
  <2>8. control = "launch" => \A r \in at .. n - 1 : thread'[r] \notin Running /\ db'[r] = file'[r]
    BY <1>0, <2>5 DEF Phases
  <2>9. control = "joining" => \A r \in 0 .. at - 1 : thread'[r] \notin Running
    BY <1>0, <2>5 DEF Phases
  <2>10. \A r \in AllShards : r >= n => thread'[r] \in {"none", "exited"}
    BY <2>3, <2>4 DEF Phases
  <2> QED
    BY <2>6, <2>7, <2>8, <2>9, <2>10 DEF Phases
<1>10. ASSUME NEW s \in AllShards, NEW d \in Commands, Send(d, s) \/ MetricsQuery(d, s) PROVE Phases'
  BY <1>10 DEF Send, MetricsQuery, shardVars, controlVars, Phases
<1>11. CASE MetricsListenFails \/ MetricsStep \/ UNCHANGED vars
  BY <1>11 DEF MetricsListenFails, MetricsStep, MetricsListen, MetricsCheck, MetricsIdle, MetricsReply,
     vars, shardVars, controlVars, Phases
<1> QED
  BY <1>1, <1>2, <1>3, <1>4, <1>5, <1>6, <1>7, <1>8, <1>9, <1>10, <1>11 DEF Next, ControlStep
-----------------------------------------------------------------------------
(* Tasks and answers.                                                      *)

\* What is sound in one state is sound in the next.
LEMMA SoundGrows ==
    ASSUME RoutesAgree, TypeInv, TypeInv', \A c \in Commands : Kept(c) => Kept(c)', NEW s \in AllShards
    PROVE  Sound(s) \subseteq Sound(s)'
<1> SUFFICES ASSUME NEW t \in Sound(s) PROVE t \in Sound(s)'
  OBVIOUS
<1>1. t \in Task /\ t.cmd \in Commands
  BY DEF Sound, Task
<1>2. ShardFor(t.cmd)' = ShardFor(t.cmd)
  BY <1>1, RoutesStay
<1>3. Task' = Task
  BY DEF Task
<1> QED
  BY <1>1, <1>2, <1>3 DEF Sound

\* A task that is performed where it waits leaves its command safe before it
\* posts the completion or answers.
LEMMA PerformSound ==
    ASSUME RoutesAgree, TypeInv, TypeInv', \A c \in Commands : Kept(c) => Kept(c)',
           \A c \in answered : Kept(c),
           NEW s \in AllShards, thread[s] \in Running, thread' = thread,
           NEW t \in Sound(s), NEW boxes \in [AllShards -> Seq(Task)],
           \A r \in AllShards : boxes[r] \in Seq(Sound(r)),
           Perform(s, t, boxes)
    PROVE  /\ \A r \in AllShards : mailbox'[r] \in Seq(Sound(r)')
           /\ \A c \in answered' : Kept(c)'
<1>1. t \in Task /\ t.cmd \in Commands /\ t.from \in AllShards /\ t.kind \in {"exec", "done"}
  BY DEF Sound, Task
<1>2. \A r \in AllShards : boxes[r] \in Seq(Sound(r)')
  <2> SUFFICES ASSUME NEW r \in AllShards PROVE boxes[r] \in Seq(Sound(r)')
    OBVIOUS
  <2>1. Sound(r) \subseteq Sound(r)' /\ boxes[r] \in Seq(Sound(r))
    BY SoundGrows
  <2> QED
    BY <2>1, SeqOfSubset
<1>3. \A c \in answered : Kept(c)'
  BY DEF TypeInv
<1>4. CASE t.kind = "exec"
  <2>1. /\ db' = [db EXCEPT ![s] = @ \cup {t.cmd}] /\ answered' = answered
        /\ mailbox' = [boxes EXCEPT ![t.from] = Append(@, [t EXCEPT !.kind = "done"])]
    BY <1>4 DEF Perform
  <2>2. ShardFor(t.cmd) = s /\ ShardFor(t.cmd)' = s
    BY <1>1, <1>4, RoutesStay DEF Sound
  <2>3. t.cmd \in db'[s]
    BY <2>1 DEF TypeInv
  <2>4. Kept(t.cmd)'
    BY <2>2, <2>3 DEF Kept
  <2> DEFINE d == [t EXCEPT !.kind = "done"]
  <2>5. d \in Task /\ d.kind = "done" /\ d.cmd = t.cmd
    BY <1>1 DEF Task
  <2>6. d \in Sound(t.from)'
    <3>1. Task' = Task
      BY DEF Task
    <3> HIDE DEF d
    <3> QED
      BY <2>4, <2>5, <3>1 DEF Sound
  <2> HIDE DEF d
  <2>7. mailbox' = [boxes EXCEPT ![t.from] = Append(boxes[t.from], d)]
    BY <2>1 DEF d
  <2>8. ASSUME NEW r \in AllShards PROVE mailbox'[r] \in Seq(Sound(r)')
    <3>1. CASE r = t.from
      <4>1. mailbox'[r] = Append(boxes[r], d)
        BY <1>1, <2>7, <3>1
      <4>2. boxes[r] \in Seq(Sound(r)') /\ d \in Sound(r)'
        BY <1>2, <2>6, <3>1
      <4> HIDE DEF Sound
      <4> QED
        BY <4>1, <4>2, AppendProperties
    <3>2. CASE r # t.from
      BY <1>2, <2>7, <3>2
    <3> QED
      BY <3>1, <3>2
  <2> QED
    BY <1>3, <2>1, <2>8
<1>5. CASE t.kind = "done"
  <2>1. answered' = answered \cup {t.cmd} /\ mailbox' = boxes
    BY <1>5 DEF Perform
  <2>2. Kept(t.cmd)'
    BY <1>1, <1>5 DEF Sound
  <2> QED
    BY <1>2, <1>3, <2>1, <2>2
<1> QED
  BY <1>1, <1>4, <1>5

LEMMA StepInvariant ==
    ASSUME RoutesAgree
    PROVE  LifecycleInvariant /\ [Next]_vars => LifecycleInvariant'
<1> SUFFICES ASSUME LifecycleInvariant, [Next]_vars PROVE LifecycleInvariant'
  OBVIOUS
<1>0. TypeInv /\ TypeInv' /\ Phases /\ Phases' /\ TasksSound /\ \A c \in answered : Kept(c)
  BY StepType, StepPhases DEF LifecycleInvariant
<1>1. \A c \in Commands : Kept(c) => Kept(c)'
  BY <1>0, KeptStays
<1>2. \A s \in AllShards : Sound(s) \subseteq Sound(s)'
  BY <1>0, <1>1, SoundGrows
<1>3. \A s \in AllShards : mailbox[s] \in Seq(Sound(s)') /\ batch[s] \in Seq(Sound(s)')
  <2> SUFFICES ASSUME NEW s \in AllShards
               PROVE  mailbox[s] \in Seq(Sound(s)') /\ batch[s] \in Seq(Sound(s)')
    OBVIOUS
  <2>1. Sound(s) \subseteq Sound(s)' /\ mailbox[s] \in Seq(Sound(s)) /\ batch[s] \in Seq(Sound(s))
    BY <1>0, <1>2 DEF TasksSound
  <2> QED
    BY <2>1, SeqOfSubset
<1>4. \A c \in answered : Kept(c)'
  BY <1>0, <1>1 DEF TypeInv
<1> DEFINE Goal == TasksSound' /\ \A c \in answered' : Kept(c)'
<1>5. ASSUME UNCHANGED <<mailbox, batch, answered>> PROVE Goal
  BY <1>3, <1>4, <1>5 DEF TasksSound
<1>6. ASSUME NEW count \in ShardCounts, Start(count) PROVE Goal
  <2>1. answered' = answered /\ \A s \in AllShards : mailbox'[s] = <<>> /\ batch'[s] = <<>>
    BY <1>6 DEF Start, clientVars
  <2>2. \A s \in AllShards : <<>> \in Seq(Sound(s)')
    BY EmptySeq
  <2> QED
    BY <1>4, <2>1, <2>2 DEF TasksSound
<1>7. ASSUME NEW s \in AllShards, NEW c \in Commands, Handle(s, c) PROVE Goal
  <2>1. thread[s] = "loop" /\ batch' = batch /\ thread' = thread
    BY <1>7 DEF Handle
  <2>2. ShardFor(c)' = ShardFor(c) /\ ShardFor(c) \in AllShards
    BY <1>0, RoutesStay, Routing
  <2>3. CASE c \in Blank
    BY <1>5, <1>7, <2>1, <2>3 DEF Handle
  <2>4. CASE c \notin Blank /\ ShardFor(c) = s
    <3>1. db' = [db EXCEPT ![s] = @ \cup {c}] /\ answered' = answered \cup {c} /\ mailbox' = mailbox
      BY <1>7, <2>4 DEF Handle
    <3>2. c \in db'[s]
      BY <1>0, <3>1 DEF TypeInv
    <3>3. Kept(c)'
      BY <2>1, <2>2, <2>4, <3>2 DEF Kept, Running
    <3> QED
      BY <1>3, <1>4, <2>1, <3>1, <3>3 DEF TasksSound
  <2>5. CASE c \notin Blank /\ ShardFor(c) # s
    <3> DEFINE t == [kind |-> "exec", cmd |-> c, from |-> s]
    <3>1. mailbox' = [mailbox EXCEPT ![ShardFor(c)] = Append(mailbox[ShardFor(c)], t)] /\ answered' = answered
      BY <1>7, <2>5 DEF Handle
    <3>2. t \in Task /\ t.kind = "exec" /\ t.cmd = c
      BY DEF Task
    <3> HIDE DEF t
    <3>3. t \in Sound(ShardFor(c))'
      <4>1. Task' = Task
        BY DEF Task
      <4> QED
        BY <2>2, <3>2, <4>1 DEF Sound
    <3>4. ASSUME NEW r \in AllShards PROVE mailbox'[r] \in Seq(Sound(r)')
      <4>1. CASE r = ShardFor(c)
        <5>1. mailbox'[r] = Append(mailbox[r], t)
          BY <1>0, <3>1, <4>1 DEF TypeInv
        <5>2. mailbox[r] \in Seq(Sound(r)') /\ t \in Sound(r)'
          BY <1>3, <2>2, <3>3, <4>1
        <5> QED
          BY <5>1, <5>2, AppendProperties
      <4>2. CASE r # ShardFor(c)
        <5>1. mailbox'[r] = mailbox[r]
          BY <1>0, <3>1, <4>2 DEF TypeInv
        <5> QED
          BY <1>3, <5>1
      <4> QED
        BY <4>1, <4>2
    <3> QED
      BY <1>3, <1>4, <2>1, <3>1, <3>4 DEF TasksSound
  <2> QED
    BY <2>3, <2>4, <2>5
<1>8. ASSUME NEW s \in AllShards, RunTask(s) PROVE Goal
  <2> DEFINE t == Head(mailbox[s])
             boxes == [mailbox EXCEPT ![s] = Tail(mailbox[s])]
  <2>1. /\ thread[s] = "loop" /\ mailbox[s] # <<>> /\ thread' = thread /\ batch' = batch
        /\ Perform(s, t, boxes)
    BY <1>8 DEF RunTask
  <2>2. mailbox[s] \in Seq(Sound(s)) /\ mailbox[s] \in Seq(Task)
    BY <1>0 DEF TasksSound, TypeInv
  <2>3. t \in Sound(s) /\ Tail(mailbox[s]) \in Seq(Sound(s)) /\ Tail(mailbox[s]) \in Seq(Task)
    BY <2>1, <2>2, HeadTailProperties
  <2>4. boxes \in [AllShards -> Seq(Task)] /\ \A r \in AllShards : boxes[r] \in Seq(Sound(r))
    BY <1>0, <2>3 DEF TasksSound, TypeInv
  <2> HIDE DEF t, boxes
  <2>5. thread[s] \in Running
    BY <2>1 DEF Running
  <2>6. (\A r \in AllShards : mailbox'[r] \in Seq(Sound(r)')) /\ \A c \in answered' : Kept(c)'
    BY <1>0, <1>1, <2>1, <2>3, <2>4, <2>5, PerformSound
  <2> QED
    BY <1>3, <2>1, <2>6 DEF TasksSound
<1>9. ASSUME NEW s \in AllShards, RunLastTask(s) PROVE Goal
  <2> DEFINE t == Head(batch[s])
  <2>1. /\ thread[s] = "batch" /\ batch[s] # <<>> /\ thread' = thread
        /\ batch' = [batch EXCEPT ![s] = Tail(batch[s])]
        /\ Perform(s, t, mailbox)
    BY <1>9 DEF RunLastTask
  <2>2. batch[s] \in Seq(Sound(s)')
    BY <1>3
  <2>3. t \in Sound(s) /\ Tail(batch[s]) \in Seq(Sound(s)')
    BY <1>0, <2>1, <2>2, HeadTailProperties DEF TasksSound
  <2>4. mailbox \in [AllShards -> Seq(Task)] /\ \A r \in AllShards : mailbox[r] \in Seq(Sound(r))
    BY <1>0 DEF TasksSound, TypeInv
  <2> HIDE DEF t
  <2>5. thread[s] \in Running
    BY <2>1 DEF Running
  <2>6. (\A r \in AllShards : mailbox'[r] \in Seq(Sound(r)')) /\ \A c \in answered' : Kept(c)'
    BY <1>0, <1>1, <2>1, <2>3, <2>4, <2>5, PerformSound
  <2>7. \A r \in AllShards : batch'[r] \in Seq(Sound(r)')
    BY <1>0, <1>3, <2>1, <2>3 DEF TypeInv
  <2> QED
    BY <2>6, <2>7 DEF TasksSound
<1>10. ASSUME NEW s \in AllShards, LastDrain(s) PROVE Goal
  <2>1. /\ batch' = [batch EXCEPT ![s] = mailbox[s]] /\ mailbox' = [mailbox EXCEPT ![s] = <<>>]
        /\ answered' = answered
    BY <1>10 DEF LastDrain, clientVars
  <2>2. \A r \in AllShards : batch'[r] \in Seq(Sound(r)')
    BY <1>0, <1>3, <2>1 DEF TypeInv
  <2>3. \A r \in AllShards : mailbox'[r] \in Seq(Sound(r)')
    BY <1>0, <1>3, <2>1 DEF TypeInv
  <2> QED
    BY <1>4, <2>1, <2>2, <2>3 DEF TasksSound
<1>11. ASSUME \/ InitShard \/ InitFails \/ InitDone \/ LaunchShard \/ LaunchMetrics \/ Signal \/ SeeSignal
              \/ StopShard \/ StopDone \/ JoinShard \/ Exit \/ MetricsListenFails \/ MetricsStep
              \/ UNCHANGED vars
       PROVE  UNCHANGED <<mailbox, batch, answered>>
  BY <1>11 DEF InitShard, InitFails, InitDone, LaunchShard, LaunchMetrics, Signal, SeeSignal, StopShard,
     StopDone, JoinShard, Exit, MetricsListenFails, MetricsStep, MetricsListen, MetricsCheck, MetricsIdle,
     MetricsReply, vars, shardVars, clientVars
<1>12. ASSUME NEW s \in AllShards, LeaveLoop(s) \/ CloseLog(s)
       PROVE  UNCHANGED <<mailbox, batch, answered>>
  BY <1>12 DEF LeaveLoop, CloseLog, clientVars
<1>13. ASSUME NEW s \in AllShards, NEW d \in Commands, Send(d, s) \/ MetricsQuery(d, s)
       PROVE  UNCHANGED <<mailbox, batch, answered>>
  BY <1>13 DEF Send, MetricsQuery, shardVars
<1> HIDE DEF Goal
<1>14. Goal
  BY <1>5, <1>6, <1>7, <1>8, <1>9, <1>10, <1>11, <1>12, <1>13 DEF Next, ControlStep, ShardStep
<1> QED
  BY <1>0, <1>14 DEF Goal, LifecycleInvariant

\* A write whose client was answered survives every orderly stop, every last
\* drain and every failed start, in memory or in the files from which its shard
\* starts again, as long as no start routes its key to another shard.
THEOREM AnsweredWritesSurvive == RoutesAgree => (Spec => []AnsweredIsKept)
<1> SUFFICES ASSUME RoutesAgree PROVE Spec => []AnsweredIsKept
  OBVIOUS
<1>1. Init => LifecycleInvariant
  BY InitInvariant
<1>2. LifecycleInvariant /\ [Next]_vars => LifecycleInvariant'
  BY StepInvariant
<1>3. LifecycleInvariant => AnsweredIsKept
  BY DEF LifecycleInvariant, AnsweredIsKept, Kept, Running
<1> QED
  BY <1>1, <1>2, <1>3, PTL DEF Spec

\* In particular, no restart with the same number of shards loses one.
THEOREM SameShardCount == (\E k : ShardCounts = {k}) => (Spec => []AnsweredIsKept)
<1>1. (\E k : ShardCounts = {k}) => RoutesAgree
  BY DEF RoutesAgree
<1> QED
  BY <1>1, AnsweredWritesSurvive
=============================================================================
