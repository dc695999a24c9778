-------------------------- MODULE ShardFaithProofs --------------------------
(***************************************************************************)
(* Forwarding and splitting are invisible: what is written under a key,    *)
(* and what a client is answered, is what the handler of the command that  *)
(* the client sent writes and answers for the values that were met, however *)
(* the parts of the command were spread over the shards.                   *)
(***************************************************************************)
EXTENDS ShardProofs

-----------------------------------------------------------------------------
(* What the theorems assume of the requests.                               *)

\* A command whose keys are on several shards names each of them once, has a
\* value for every key if it is an MSET, and is no TOUCH, which is split into DELs.
Clean(cmd) == SpansShards(cmd) =>
    /\ cmd.op # "touch"
    /\ WholePairs(cmd)
    /\ \A i, j \in 1 .. Len(cmd.keys) : cmd.keys[i] = cmd.keys[j] => i = j

SplitsCleanly == \A c \in Conns : \A cmd \in Requests[c] : Clean(cmd)

SplitsMget == \E c \in Conns : \E cmd \in Requests[c] : SpansShards(cmd) /\ cmd.op = "mget"

\* MGET answers null for a key that is not a string, the GETs it is split into
\* answer with an error: no client stores such a key beside a split MGET.
OnlyStrings == SplitsMget => \A c \in Conns : \A cmd \in Requests[c] : cmd.op # "sadd"

-----------------------------------------------------------------------------
(* The invariant.                                                          *)

\* The requests that a command is executed as, by index, and the indices of the
\* keys that each of them accesses.
Parts(cmd)        == IF SpansShards(cmd) THEN 1 .. Len(cmd.keys) ELSE {1}
PartOf(cmd, i)    == IF SpansShards(cmd) THEN SubCommand(cmd, i) ELSE cmd
IndicesOf(cmd, i) == IF SpansShards(cmd) THEN {i} ELSE 1 .. Len(cmd.keys)
IsIntCmd(cmd)     == SpansShards(cmd) /\ IsIntKind(SlotKind(cmd))
KindOf(cmd)       == IF SpansShards(cmd) THEN SlotKind(cmd) ELSE "Single"

\* What history lg has of command q of c: the entries, the indices of the keys
\* accessed, and the values met there.
EntriesIn(lg, c, q) ==
    UNION {{lg[s][i] : i \in {j \in 1 .. Len(lg[s]) : lg[s][j].conn = c /\ lg[s][j].seq = q}}
           : s \in Shards}
Logged(lg, c, q) == {e.index : e \in EntriesIn(lg, c, q)}
Met(lg, c, q) ==
    [k \in Keys |-> IF \E e \in EntriesIn(lg, c, q) : e.key = k
                    THEN (CHOOSE e \in EntriesIn(lg, c, q) : e.key = k).before
                    ELSE NoKey]

\* The tasks under way, and the indices of the parts of a command among them.
TasksIn(lines)   == {lines[p[1]][p[2]] : p \in Positions(lines)}
Due(lines, c, q) == {t.index : t \in {u \in TasksIn(lines) : AboutSlot(u, c, q)}}

\* Clients send the requests they are said to send, and every sequence number
\* that was taken has its command.
SentByClients ==
    \A c \in Conns :
        /\ Len(submitted[c]) = next_seq[c]
        /\ \A i \in 1 .. Len(submitted[c]) : submitted[c][i] \in Requests[c]
        /\ \A i \in 1 .. Len(in[c]) : in[c][i] \in Requests[c]

\* A task is for a part of the command it was posted for.
Carries(t, cmd) ==
    /\ Routed(cmd)
    /\ t.index \in Parts(cmd)
    /\ t.is_int = IsIntCmd(cmd)
    /\ t.type = "exec" => t.cmd = PartOf(cmd, t.index)
    /\ t.type = "done" => t.val = IF t.is_int THEN ParseRespInteger(t.reply) ELSE 0

TasksCarry(lines, sub) ==
    \A t \in TasksIn(lines) : t.type # "flush" => Carries(t, sub[t.conn][t.seq + 1])

\* An access is one of its command and leaves the key as the command would; a
\* command that is not split accesses all its keys at once.
Accessed(e, cmd, logged, met) ==
    /\ Routed(cmd)
    /\ e.index \in 1 .. Len(cmd.keys)
    /\ e.key = cmd.keys[e.index]
    /\ IndicesOf(cmd, e.index) \subseteq logged
    /\ e.before = met[e.key]
    /\ e.after = Effect(cmd, met)[e.key]

LogCarries(lg, sub) ==
    \A c \in Conns, q \in Nat : \A e \in EntriesIn(lg, c, q) :
        Accessed(e, sub[c][q + 1], Logged(lg, c, q), Met(lg, c, q))

\* A completion has the reply of its part for the values that were met.
Reports(t, cmd, logged, met) ==
    t.type = "done" =>
        /\ IndicesOf(cmd, t.index) \subseteq logged
        /\ t.reply = Answer(PartOf(cmd, t.index), met)

TasksReport(lines, sub, lg) ==
    \A t \in TasksIn(lines) : t.type # "flush" =>
        Reports(t, sub[t.conn][t.seq + 1], Logged(lg, t.conn, t.seq), Met(lg, t.conn, t.seq))

\* The reply to a command that was routed to its keys: every key was accessed.
Replied(cmd, bytes, logged, met) ==
    Routed(cmd) => logged = 1 .. Len(cmd.keys) /\ bytes = Answer(cmd, met)

\* A slot has what came back of the parts of its command that are not due.
Collects(p, cmd, due, logged, met) ==
    Routed(cmd) =>
        /\ p.kind = KindOf(cmd)
        /\ \A i \in Parts(cmd) \ due : IndicesOf(cmd, i) \subseteq logged
        /\ IF IsIntCmd(cmd)
           THEN p.accum = Cardinality({i \in Parts(cmd) \ due : met[cmd.keys[i]] # NoKey})
           ELSE /\ Parts(cmd) = 1 .. Len(p.frags)
                /\ \A i \in Parts(cmd) \ due : p.frags[i] = Answer(PartOf(cmd, i), met)

SlotHolds(p, cmd, due, logged, met) ==
    IF p.ready THEN Replied(cmd, p.bytes, logged, met)
    ELSE Collects(p, cmd, due, logged, met)

SlotsHold(pipe, c, lines, sub, lg) ==
    \A i \in 1 .. Len(pipe) :
        LET p == pipe[i]
        IN  /\ p.seq < Len(sub[c])
            /\ SlotHolds(p, sub[c][p.seq + 1], Due(lines, c, p.seq),
                         Logged(lg, c, p.seq), Met(lg, c, p.seq))

RepliesHold(q, c, sub, lg) ==
    \A i \in 1 .. Len(q) :
        LET r == q[i]
        IN  /\ r.seq < Len(sub[c])
            /\ Replied(sub[c][r.seq + 1], r.bytes, Logged(lg, c, r.seq), Met(lg, c, r.seq))

\* No key holds anything but a string, if that matters.
StringsStored ==
    SplitsMget =>
        /\ \A s \in Shards, k \in Keys : db[s][k] # SetObj
        /\ \A s \in Shards : \A i \in 1 .. Len(log[s]) : log[s][i].before # SetObj

\* What is under way and what was executed are parts of what was sent.
FaithOfTasks ==
    /\ SentByClients
    /\ TasksCarry(Lines, submitted)
    /\ LogCarries(log, submitted)

\* What is answered is what the commands answer.
FaithOfReplies ==
    /\ TasksReport(Lines, submitted, log)
    /\ \A c \in Conns : /\ SlotsHold(pipeline[c], c, Lines, submitted, log)
                        /\ RepliesHold(out[c], c, submitted, log)
                        /\ RepliesHold(delivered[c], c, submitted, log)
    /\ StringsStored

-----------------------------------------------------------------------------
(* Commands and their parts.                                               *)

\* What a handler answers and leaves under its keys depends on these keys only.
LEMMA AnswerByKeys ==
    ASSUME NEW cmd \in AllCommands, NEW d, NEW e, \A k \in KeysOf(cmd) : d[k] = e[k]
    PROVE  Answer(cmd, d) = Answer(cmd, e)
<1> DEFINE n == Len(cmd.keys)
<1>1. n \in Nat /\ \A i \in 1 .. n : d[cmd.keys[i]] = e[cmd.keys[i]]
  BY CommandKeys DEF KeysOf
<1>2. CASE cmd.op \in OneKeyOps \cup {"rename"}
  <2>1. d[cmd.keys[1]] = e[cmd.keys[1]]
    BY <1>1, <1>2, CommandKeys
  <2> QED
    BY <1>2, <2>1 DEF Answer, WholePairs, GetAnswer, SaddAnswer, RenameAnswer, OneKeyOps
<1>3. CASE cmd.op = "mget"
  <2>1. MgetAnswer(cmd, d) = MgetAnswer(cmd, e)
    BY <1>1 DEF MgetAnswer
  <2> QED
    BY <1>3, <2>1 DEF Answer, WholePairs
<1>4. CASE cmd.op = "del"
  <2>1. {k \in KeysOf(cmd) : d[k] # NoKey} = {k \in KeysOf(cmd) : e[k] # NoKey}
    OBVIOUS
  <2> QED
    BY <1>4, <2>1 DEF Answer, WholePairs, DelAnswer
<1>5. CASE cmd.op \in {"exists", "touch"}
  <2>1. {i \in 1 .. n : d[cmd.keys[i]] # NoKey} = {i \in 1 .. n : e[cmd.keys[i]] # NoKey}
    BY <1>1
  <2> QED
    BY <1>5, <2>1 DEF Answer, WholePairs, ExistsAnswer
<1>6. CASE cmd.op \in KeylessOps \cup {"mset"}
  BY <1>6 DEF Answer, WholePairs, KeylessOps
<1> QED
  BY <1>2, <1>3, <1>4, <1>5, <1>6, CommandKeys DEF Ops, ManyKeyOps

LEMMA EffectByKeys ==
    ASSUME NEW cmd \in AllCommands, NEW d \in Db, NEW e \in Db,
           \A k \in KeysOf(cmd) : d[k] = e[k], NEW j \in KeysOf(cmd)
    PROVE  Effect(cmd, d)[j] = Effect(cmd, e)[j]
<1>1. j \in Keys /\ d[j] = e[j]
  BY CommandKeys
<1>2. CASE cmd.op \in {"set", "mset"}
  <2>1. CASE WholePairs(cmd)
    BY <1>1, <1>2, <2>1 DEF Effect, SetEffect
  <2>2. CASE ~WholePairs(cmd)
    BY <1>1, <1>2, <2>2 DEF Effect
  <2> QED
    BY <2>1, <2>2
<1>3. CASE cmd.op = "del"
  BY <1>1, <1>3 DEF Effect, DelEffect
<1>4. CASE cmd.op \in {"sadd", "rename"}
  <2>1. cmd.keys[1] \in KeysOf(cmd)
    BY <1>4, CommandKeys DEF KeysOf, OneKeyOps
  <2> DEFINE k == cmd.keys[1]
  <2>2. d[k] = e[k] /\ k \in Keys
    BY <2>1, CommandKeys
  <2>3. CASE cmd.op = "sadd"
    <3>1. Effect(cmd, d) = (IF d[k] = NoKey THEN [d EXCEPT ![k] = SetObj] ELSE d)
      BY <2>3 DEF Effect, SaddEffect
    <3>2. Effect(cmd, e) = (IF e[k] = NoKey THEN [e EXCEPT ![k] = SetObj] ELSE e)
      BY <2>3 DEF Effect, SaddEffect
    <3> HIDE DEF k
    <3> QED
      BY <1>1, <2>2, <3>1, <3>2 DEF Db
  <2>4. CASE cmd.op = "rename"
    BY <1>1, <2>2, <2>4 DEF Effect, RenameEffect
  <2> QED
    BY <1>4, <2>3, <2>4
<1>5. CASE cmd.op \notin {"set", "mset", "del", "sadd", "rename"}
  BY <1>1, <1>5 DEF Effect
<1> QED
  BY <1>2, <1>3, <1>4, <1>5

\* A part of a command has the keys that its indices name.
LEMMA PartKeys ==
    ASSUME NEW cmd \in AllCommands, Routed(cmd), SpansShards(cmd) => WholePairs(cmd),
           NEW i \in Parts(cmd)
    PROVE  /\ PartOf(cmd, i) \in AllCommands /\ i \in Nat \ {0}
           /\ Len(PartOf(cmd, i).keys) \in Nat
           /\ \A m \in 1 .. Len(PartOf(cmd, i).keys) :
                 /\ i + m - 1 \in IndicesOf(cmd, i)
                 /\ PartOf(cmd, i).keys[m] = cmd.keys[i + m - 1]
           /\ IndicesOf(cmd, i) = i .. i + Len(PartOf(cmd, i).keys) - 1
           /\ IndicesOf(cmd, i) \subseteq 1 .. Len(cmd.keys)
           /\ KeysOf(PartOf(cmd, i)) = {cmd.keys[j] : j \in IndicesOf(cmd, i)}
<1>0. Len(cmd.keys) \in Nat
  BY CommandKeys
<1>1. CASE SpansShards(cmd)
  <2>1. i \in 1 .. Len(cmd.keys) /\ PartOf(cmd, i) = SubCommand(cmd, i) /\ IndicesOf(cmd, i) = {i}
    BY <1>1 DEF Parts, PartOf, IndicesOf
  <2>2. /\ SubCommand(cmd, i) \in AllCommands /\ KeysOf(SubCommand(cmd, i)) = {cmd.keys[i]}
        /\ SubCommand(cmd, i).keys = <<cmd.keys[i]>>
    BY <1>1, <2>1, SubCommandType DEF SubCommand, Command
  <2>3. Len(<<cmd.keys[i]>>) = 1 /\ <<cmd.keys[i]>>[1] = cmd.keys[i]
    OBVIOUS
  <2> QED
    BY <1>0, <2>1, <2>2, <2>3
<1>2. CASE ~SpansShards(cmd)
  <2>1. i = 1 /\ PartOf(cmd, i) = cmd /\ IndicesOf(cmd, i) = 1 .. Len(cmd.keys)
    BY <1>2 DEF Parts, PartOf, IndicesOf
  <2> QED
    BY <1>0, <2>1 DEF KeysOf
<1> QED
  BY <1>1, <1>2

\* The part that has an index.
LEMMA PartAt ==
    ASSUME NEW cmd \in AllCommands, Routed(cmd), NEW j \in 1 .. Len(cmd.keys)
    PROVE  \E i \in Parts(cmd) : IndicesOf(cmd, i) = IndicesOf(cmd, j) /\ j \in IndicesOf(cmd, i)
BY DEF Parts, IndicesOf

\* A part leaves a key as the whole command does.
LEMMA SubEffect ==
    ASSUME NEW cmd \in AllCommands, Routed(cmd), Clean(cmd), SpansShards(cmd),
           NEW i \in 1 .. Len(cmd.keys), NEW d \in Db, NEW e \in Db,
           d[cmd.keys[i]] = e[cmd.keys[i]]
    PROVE  Effect(SubCommand(cmd, i), d)[cmd.keys[i]] = Effect(cmd, e)[cmd.keys[i]]
<1> DEFINE k == cmd.keys[i]
           sub == SubCommand(cmd, i)
<1>1. /\ k \in Keys /\ k \in KeysOf(cmd) /\ Len(cmd.keys) \in Nat /\ KeysOf(sub) = {k}
      /\ cmd.op \in {"mget", "mset", "del", "exists"}
      /\ \A j \in 1 .. Len(cmd.keys) : cmd.keys[j] = k => j = i
  BY CommandKeys, SubCommandType DEF Routed, Clean, Decomposable, ManyKeyOps, KeysOf
<1>2. CASE cmd.op \in {"mget", "exists"}
  <2>1. sub.op \in {"get", "exists"}
    BY <1>2 DEF SubCommand, SlotKind, Command
  <2> QED
    BY <1>2, <2>1 DEF Effect
<1>3. CASE cmd.op = "del"
  <2>1. sub.op = "del"
    BY <1>3 DEF SubCommand, SlotKind, Command
  <2>2. k \in KeysOf(sub) /\ k \in KeysOf(cmd) /\ k \in Keys
    BY <1>1
  <2> HIDE DEF sub, k
  <2> QED
    BY <1>3, <2>1, <2>2 DEF Effect, DelEffect, sub, k
<1>4. CASE cmd.op = "mset"
  <2>1. sub = Command("set", <<k>>, <<cmd.vals[i]>>)
    BY <1>4 DEF SubCommand, SlotKind
  <2>2. sub.op = "set" /\ sub.keys = <<k>> /\ sub.vals = <<cmd.vals[i]>>
    BY <2>1 DEF Command
  <2>3. LastIndex(cmd.keys, k) = i
    BY <1>1 DEF LastIndex
  <2>4. LastIndex(sub.keys, k) = 1
    BY <2>2 DEF LastIndex
  <2>5. <<cmd.vals[i]>>[1] = cmd.vals[i]
    OBVIOUS
  <2>6. k \in KeysOf(sub) /\ k \in KeysOf(cmd) /\ k \in Keys
    BY <1>1
  <2> HIDE DEF sub, k
  <2>7. Effect(sub, d)[k] = Str(sub.vals[LastIndex(sub.keys, k)])
    BY <2>2, <2>6 DEF Effect, SetEffect, WholePairs
  <2>8. Effect(cmd, e)[k] = Str(cmd.vals[LastIndex(cmd.keys, k)])
    BY <1>4, <2>6 DEF Effect, SetEffect, Clean
  <2> QED
    BY <2>2, <2>3, <2>4, <2>5, <2>7, <2>8 DEF sub, k
<1> QED
  BY <1>1, <1>2, <1>3, <1>4

\* A command that can be split treats each key by itself.
LEMMA SplitEffect ==
    ASSUME NEW cmd \in AllCommands, Routed(cmd), SpansShards(cmd), NEW k \in Keys,
           NEW d \in Db, NEW e \in Db, d[k] = e[k]
    PROVE  Effect(cmd, d)[k] = Effect(cmd, e)[k]
<1>1. cmd.op \in {"mget", "mset", "del", "exists", "touch"}
  BY DEF Routed, Decomposable, ManyKeyOps
<1> QED
  <2>1. CASE WholePairs(cmd)
    BY <1>1, <2>1 DEF Effect, SetEffect, DelEffect
  <2>2. CASE ~WholePairs(cmd)
    BY <2>2 DEF Effect, WholePairs
  <2> QED
    BY <2>1, <2>2

LEMMA PartEffect ==
    ASSUME NEW cmd \in AllCommands, Routed(cmd), Clean(cmd), NEW i \in Parts(cmd),
           NEW d \in Db, NEW e \in Db, \A k \in KeysOf(PartOf(cmd, i)) : d[k] = e[k],
           NEW j \in IndicesOf(cmd, i)
    PROVE  Effect(PartOf(cmd, i), d)[cmd.keys[j]] = Effect(cmd, e)[cmd.keys[j]]
<1>0. cmd.keys[j] \in KeysOf(PartOf(cmd, i))
  BY PartKeys DEF Clean
<1>1. CASE SpansShards(cmd)
  <2>1. i \in 1 .. Len(cmd.keys) /\ j = i /\ PartOf(cmd, i) = SubCommand(cmd, i)
    BY <1>1 DEF Parts, PartOf, IndicesOf
  <2> QED
    BY <1>0, <1>1, <2>1, SubEffect
<1>2. CASE ~SpansShards(cmd)
  <2>1. PartOf(cmd, i) = cmd
    BY <1>2 DEF PartOf
  <2> QED
    BY <1>0, <2>1, EffectByKeys
<1> QED
  BY <1>1, <1>2

-----------------------------------------------------------------------------
(* The history of a command.                                               *)

AllLogs == [Shards -> Seq(Access)]

LEMMA EntryIn ==
    ASSUME NEW lg, NEW c, NEW q, NEW e
    PROVE  e \in EntriesIn(lg, c, q) <=>
              \E s \in Shards : \E i \in 1 .. Len(lg[s]) :
                 e = lg[s][i] /\ lg[s][i].conn = c /\ lg[s][i].seq = q
BY DEF EntriesIn

LEMMA EntryType ==
    ASSUME NEW lg \in AllLogs, NEW c, NEW q, NEW e \in EntriesIn(lg, c, q)
    PROVE  e \in Access /\ e.conn = c /\ e.seq = q
<1>1. PICK s \in Shards : \E i \in 1 .. Len(lg[s]) :
         e = lg[s][i] /\ lg[s][i].conn = c /\ lg[s][i].seq = q
  BY EntryIn
<1> QED
  BY <1>1, ElementOfSeq DEF AllLogs

\* History lg2 is lg and the accesses acc of shard s.
Adds(lg, lg2, s, acc) == lg2 = [lg EXCEPT ![s] = @ \o acc]

\* What the history has after one more execution.
LEMMA EntriesGrow ==
    ASSUME NEW lg \in AllLogs, NEW s \in Shards, NEW acc \in Seq(Access), NEW c, NEW q, NEW e,
           NEW lg2, Adds(lg, lg2, s, acc)
    PROVE  e \in EntriesIn(lg2, c, q) <=>
              \/ e \in EntriesIn(lg, c, q)
              \/ \E i \in 1 .. Len(acc) : e = acc[i] /\ e.conn = c /\ e.seq = q
<1> DEFINE n == Len(lg[s])
           m == Len(acc)
<1>1. /\ lg2[s] = lg[s] \o acc /\ \A r \in Shards \ {s} : lg2[r] = lg[r]
      /\ lg[s] \in Seq(Access) /\ n \in Nat /\ m \in Nat
  BY LenProperties DEF AllLogs, Adds
<1>2. /\ Len(lg2[s]) = n + m
      /\ \A i \in 1 .. n + m : lg2[s][i] = IF i <= n THEN lg[s][i] ELSE acc[i - n]
  BY <1>1, ConcatProperties
<1> HIDE DEF n, m
<1>3. ASSUME NEW r \in Shards, NEW i \in 1 .. Len(lg2[r])
      PROVE  \/ i \in 1 .. Len(lg[r]) /\ lg2[r][i] = lg[r][i]
             \/ \E j \in 1 .. m : lg2[r][i] = acc[j]
  <2>1. CASE r # s
    BY <1>1, <2>1
  <2>2. CASE r = s /\ i <= n
    BY <1>1, <1>2, <2>2 DEF n
  <2>3. CASE r = s /\ ~(i <= n)
    <3>0. i \in 1 .. n + m
      BY <1>2, <2>3
    <3>1. i - n \in 1 .. m
      BY <1>1, <2>3, <3>0
    <3>2. lg2[r][i] = acc[i - n]
      BY <1>2, <2>3, <3>0
    <3> QED
      BY <3>1, <3>2
  <2> QED
    BY <2>1, <2>2, <2>3
<1>4. ASSUME NEW r \in Shards, NEW i \in 1 .. Len(lg[r])
      PROVE  i \in 1 .. Len(lg2[r]) /\ lg2[r][i] = lg[r][i]
  <2>1. CASE r # s
    BY <1>1, <2>1
  <2>2. CASE r = s
    BY <1>1, <1>2, <2>2 DEF n
  <2> QED
    BY <2>1, <2>2
<1>5. ASSUME NEW j \in 1 .. m
      PROVE  n + j \in 1 .. Len(lg2[s]) /\ lg2[s][n + j] = acc[j]
  <2>1. n + j \in 1 .. n + m /\ ~(n + j <= n) /\ (n + j) - n = j
    BY <1>1
  <2> QED
    BY <1>2, <2>1
<1>6. ASSUME e \in EntriesIn(lg2, c, q)
      PROVE  e \in EntriesIn(lg, c, q) \/ \E i \in 1 .. m : e = acc[i] /\ e.conn = c /\ e.seq = q
  <2>0. PICK r \in Shards : \E i \in 1 .. Len(lg2[r]) :
           e = lg2[r][i] /\ lg2[r][i].conn = c /\ lg2[r][i].seq = q
    BY <1>6, EntryIn
  <2>1. PICK i \in 1 .. Len(lg2[r]) : e = lg2[r][i] /\ lg2[r][i].conn = c /\ lg2[r][i].seq = q
    BY <2>0
  <2>2. CASE i \in 1 .. Len(lg[r]) /\ lg2[r][i] = lg[r][i]
    BY <2>1, <2>2, EntryIn
  <2>3. CASE \E j \in 1 .. m : lg2[r][i] = acc[j]
    BY <2>1, <2>3
  <2> QED
    BY <1>3, <2>2, <2>3
<1>7. ASSUME e \in EntriesIn(lg, c, q) PROVE e \in EntriesIn(lg2, c, q)
  <2>1. PICK r \in Shards : \E i \in 1 .. Len(lg[r]) :
           e = lg[r][i] /\ lg[r][i].conn = c /\ lg[r][i].seq = q
    BY <1>7, EntryIn
  <2> QED
    BY <1>4, <2>1, EntryIn
<1>8. ASSUME NEW j \in 1 .. m, e = acc[j], e.conn = c, e.seq = q PROVE e \in EntriesIn(lg2, c, q)
  BY <1>5, <1>8, EntryIn
<1> QED
  BY <1>6, <1>7, <1>8 DEF m

LEMMA MetType ==
    ASSUME NEW lg \in AllLogs, NEW c, NEW q
    PROVE  Met(lg, c, q) \in Db
<1>1. ASSUME NEW k \in Keys, \E e \in EntriesIn(lg, c, q) : e.key = k
      PROVE  (CHOOSE e \in EntriesIn(lg, c, q) : e.key = k).before \in Object \cup {NoKey}
  <2>1. PICK e : e = CHOOSE x \in EntriesIn(lg, c, q) : x.key = k
    OBVIOUS
  <2>2. e \in EntriesIn(lg, c, q)
    BY <1>1, <2>1
  <2>3. e \in Access
    BY <2>2, EntryType
  <2> QED
    BY <2>1, <2>3 DEF Access
<1> QED
  BY <1>1 DEF Met, Db

\* The value met is the one that an access met.
LEMMA MetIs ==
    ASSUME NEW lg, NEW c, NEW q, NEW k \in Keys, NEW e \in EntriesIn(lg, c, q), e.key = k
    PROVE  \E y \in EntriesIn(lg, c, q) : y.key = k /\ Met(lg, c, q)[k] = y.before
<1>1. PICK y : y = CHOOSE x \in EntriesIn(lg, c, q) : x.key = k
  OBVIOUS
<1>2. y \in EntriesIn(lg, c, q) /\ y.key = k
  BY <1>1
<1>3. Met(lg, c, q)[k] = y.before
  BY <1>1 DEF Met
<1> QED
  BY <1>2, <1>3

\* What was known of the accesses of a command stays when the history grows.
Grown(lg, lg2, c, q, cmd) ==
    /\ Logged(lg, c, q) \subseteq Logged(lg2, c, q)
    /\ \A j \in Logged(lg, c, q) : Met(lg2, c, q)[cmd.keys[j]] = Met(lg, c, q)[cmd.keys[j]]

AllGrown(lg, lg2, sub) == \A c \in Conns, q \in Nat : Grown(lg, lg2, c, q, sub[c][q + 1])

AreAccesses(acc, c, q, i, cmd, d) ==
    /\ acc \in Seq(Access) /\ Len(acc) = Len(cmd.keys)
    /\ \A m \in 1 .. Len(cmd.keys) :
          /\ acc[m] \in Access
          /\ acc[m].conn = c /\ acc[m].seq = q /\ acc[m].index = i + m - 1
          /\ acc[m].key = cmd.keys[m] /\ acc[m].before = d[acc[m].key]
          /\ acc[m].after = Effect(cmd, d)[acc[m].key]

LEMMA AccessFields ==
    ASSUME NEW c \in Conns, NEW q \in Nat, NEW i \in Nat \ {0}, NEW cmd \in AllCommands, NEW d \in Db
    PROVE  AreAccesses(Accesses(c, q, i, cmd, d), c, q, i, cmd, d)
<1> DEFINE acc == Accesses(c, q, i, cmd, d)
<1>1. EntriesFor(acc, c, q, i, cmd)
  BY AccessesAt
<1>2. acc \in Seq(Access) /\ Len(acc) = Len(cmd.keys)
  BY <1>1 DEF EntriesFor
<1>3. ASSUME NEW m \in 1 .. Len(cmd.keys)
      PROVE  acc[m] = [conn |-> c, seq |-> q, index |-> i + m - 1, key |-> cmd.keys[m],
                       before |-> d[cmd.keys[m]], after |-> Effect(cmd, d)[cmd.keys[m]]]
  BY <1>3 DEF Accesses
<1> HIDE DEF acc
<1>4. ASSUME NEW m \in 1 .. Len(cmd.keys)
      PROVE  /\ acc[m] \in Access /\ acc[m].conn = c /\ acc[m].seq = q
             /\ acc[m].index = i + m - 1
             /\ acc[m].key = cmd.keys[m] /\ acc[m].before = d[cmd.keys[m]]
             /\ acc[m].after = Effect(cmd, d)[cmd.keys[m]]
  <2>1. acc[m] \in Access
    BY <1>2, ElementOfSeq
  <2> DEFINE k == cmd.keys[m]
             b == d[cmd.keys[m]]
             a == Effect(cmd, d)[cmd.keys[m]]
             r == [conn |-> c, seq |-> q, index |-> i + m - 1, key |-> k, before |-> b, after |-> a]
  <2>2. acc[m] = r
    BY <1>3
  <2> HIDE DEF k, b, a
  <2>3. /\ r.conn = c /\ r.seq = q /\ r.index = i + m - 1 /\ r.key = k /\ r.before = b
        /\ r.after = a
    OBVIOUS
  <2> HIDE DEF r
  <2> QED
    BY <2>1, <2>2, <2>3 DEF k, b, a
<1>5. AreAccesses(acc, c, q, i, cmd, d)
  BY <1>2, <1>4 DEF AreAccesses
<1> QED
  BY <1>5 DEF acc

\* Executing a part of a command that has not been executed: what it does is
\* what the command does, and what was known of the others stays.
LEMMA ExecGrows ==
    ASSUME NEW lg \in AllLogs, NEW s \in Shards, NEW sub, NEW c0 \in Conns, NEW q0 \in Nat,
           NEW cmd \in AllCommands, cmd = sub[c0][q0 + 1], Routed(cmd), Clean(cmd),
           NEW i \in Parts(cmd), NEW d \in Db, LogCarries(lg, sub),
           \A e \in EntriesIn(lg, c0, q0) : e.index \notin IndicesOf(cmd, i),
           NEW lg2, Adds(lg, lg2, s, Accesses(c0, q0, i, PartOf(cmd, i), d))
    PROVE  /\ LogCarries(lg2, sub)
           /\ AllGrown(lg, lg2, sub)
           /\ IndicesOf(cmd, i) \subseteq Logged(lg2, c0, q0)
           /\ \A k \in KeysOf(PartOf(cmd, i)) : Met(lg2, c0, q0)[k] = d[k]
<1> DEFINE part == PartOf(cmd, i)
           acc == Accesses(c0, q0, i, part, d)
           n == Len(part.keys)
           old == EntriesIn(lg, c0, q0)
           new == EntriesIn(lg2, c0, q0)
           met == Met(lg, c0, q0)
           met2 == Met(lg2, c0, q0)
<1>1. /\ part \in AllCommands /\ i \in Nat \ {0} /\ n \in Nat
      /\ \A m \in 1 .. n : i + m - 1 \in IndicesOf(cmd, i) /\ part.keys[m] = cmd.keys[i + m - 1]
      /\ IndicesOf(cmd, i) = i .. i + n - 1
      /\ IndicesOf(cmd, i) \subseteq 1 .. Len(cmd.keys)
      /\ KeysOf(part) = {cmd.keys[j] : j \in IndicesOf(cmd, i)}
  BY PartKeys DEF Clean
<1>2. /\ acc \in Seq(Access) /\ Len(acc) = n
      /\ \A m \in 1 .. n : /\ acc[m] \in Access /\ acc[m].conn = c0 /\ acc[m].seq = q0
                           /\ acc[m].index = i + m - 1 /\ acc[m].key = part.keys[m]
                           /\ acc[m].before = d[acc[m].key]
                           /\ acc[m].after = Effect(part, d)[acc[m].key]
  <2> HIDE DEF part
  <2>1. AreAccesses(acc, c0, q0, i, part, d)
    BY <1>1, AccessFields
  <2> HIDE DEF acc
  <2> QED
    BY <2>1 DEF AreAccesses
<1>3. Adds(lg, lg2, s, acc)
  OBVIOUS
<1> HIDE DEF part, acc, n
<1>4. lg2 \in AllLogs
  <2>1. lg[s] \o acc \in Seq(Access)
    BY <1>2, ConcatProperties DEF AllLogs
  <2> QED
    BY <1>3, <2>1 DEF AllLogs, Adds
<1>5. ASSUME NEW c, NEW q, c # c0 \/ q # q0
      PROVE  /\ EntriesIn(lg2, c, q) = EntriesIn(lg, c, q)
             /\ Logged(lg2, c, q) = Logged(lg, c, q) /\ Met(lg2, c, q) = Met(lg, c, q)
  <2>1. \A e : e \in EntriesIn(lg2, c, q) <=> e \in EntriesIn(lg, c, q)
    BY <1>2, <1>3, <1>5, EntriesGrow
  <2>2. EntriesIn(lg2, c, q) = EntriesIn(lg, c, q)
    BY <2>1
  <2> QED
    BY <2>2 DEF Logged, Met
<1>6. \A e : e \in new <=> e \in old \/ \E m \in 1 .. n : e = acc[m]
  <2>1. ASSUME NEW e
        PROVE  e \in new <=> \/ e \in old
                             \/ \E m \in 1 .. Len(acc) : e = acc[m] /\ e.conn = c0 /\ e.seq = q0
    BY <1>2, <1>3, EntriesGrow
  <2> QED
    BY <1>2, <2>1
<1>7. ASSUME NEW x \in old
      PROVE  /\ x \in Access /\ Accessed(x, cmd, Logged(lg, c0, q0), met)
             /\ x.index \notin IndicesOf(cmd, i) /\ x.key \in Keys
             /\ x.index \in 1 .. Len(cmd.keys) /\ x.key = cmd.keys[x.index]
             /\ x.before = met[x.key] /\ x.index \in Logged(lg, c0, q0)
  <2>1. x \in Access
    BY EntryType
  <2>2. Accessed(x, cmd, Logged(lg, c0, q0), met)
    BY DEF LogCarries
  <2> QED
    BY <2>1, <2>2 DEF Accessed, Access, Logged
<1>8. ASSUME NEW x \in old PROVE SpansShards(cmd)
  BY <1>7 DEF IndicesOf
<1>9. ASSUME NEW x \in old, NEW m \in 1 .. n PROVE x.key # acc[m].key
  <2>1. x.index \notin IndicesOf(cmd, i) /\ x.index \in 1 .. Len(cmd.keys)
    BY <1>7
  <2>2. i + m - 1 \in IndicesOf(cmd, i) /\ i + m - 1 \in 1 .. Len(cmd.keys)
    BY <1>1
  <2>3. x.key = cmd.keys[x.index] /\ acc[m].key = cmd.keys[i + m - 1]
    BY <1>1, <1>2, <1>7
  <2> QED
    BY <1>8, <2>1, <2>2, <2>3 DEF Clean
<1>10. ASSUME NEW x \in old PROVE met2[x.key] = met[x.key]
  <2>1. x \in new /\ x.key \in Keys
    BY <1>6, <1>7
  <2>2. \A y \in new : y.key = x.key => y.before = met[x.key]
    BY <1>6, <1>7, <1>9
  <2>3. PICK y \in new : y.key = x.key /\ met2[x.key] = y.before
    BY <2>1, MetIs
  <2> QED
    BY <2>2, <2>3
<1>11. ASSUME NEW m \in 1 .. n
       PROVE  acc[m].key \in Keys /\ met2[acc[m].key] = d[acc[m].key] /\ acc[m] \in new
  <2>1. acc[m] \in new /\ acc[m].key \in Keys
    BY <1>2, <1>6 DEF Access
  <2>2. ASSUME NEW y \in new, y.key = acc[m].key PROVE y.before = d[y.key]
    <3>1. PICK k \in 1 .. n : y = acc[k]
      BY <1>6, <1>9, <2>2
    <3> QED
      BY <1>2, <3>1
  <2>3. PICK y \in new : y.key = acc[m].key /\ met2[acc[m].key] = y.before
    BY <2>1, MetIs
  <2> QED
    BY <2>1, <2>2, <2>3
<1>12. ASSUME NEW j \in IndicesOf(cmd, i) PROVE \E m \in 1 .. n : j = i + m - 1
  <2>1. j \in i .. i + n - 1
    BY <1>1
  <2>2. j - i + 1 \in 1 .. n /\ j = i + (j - i + 1) - 1
    BY <1>1, <2>1
  <2> QED
    BY <2>2
<1>13. Logged(lg, c0, q0) \subseteq Logged(lg2, c0, q0) /\ IndicesOf(cmd, i) \subseteq Logged(lg2, c0, q0)
  <2>1. Logged(lg, c0, q0) = {e.index : e \in old} /\ Logged(lg2, c0, q0) = {e.index : e \in new}
    BY DEF Logged
  <2>2. ASSUME NEW j \in IndicesOf(cmd, i) PROVE \E e \in new : e.index = j
    <3>1. PICK m \in 1 .. n : j = i + m - 1
      BY <1>12
    <3> QED
      BY <1>2, <1>11, <3>1
  <2> HIDE DEF old, new
  <2> QED
    BY <1>6, <2>1, <2>2
<1>14. \A k \in KeysOf(part) : met2[k] = d[k]
  <2>1. ASSUME NEW j \in IndicesOf(cmd, i) PROVE met2[cmd.keys[j]] = d[cmd.keys[j]]
    <3>1. PICK m \in 1 .. n : j = i + m - 1
      BY <1>12
    <3>2. acc[m].key = cmd.keys[j]
      BY <1>1, <1>2, <3>1
    <3> QED
      BY <1>11, <3>2
  <2>2. ASSUME NEW k \in KeysOf(part) PROVE met2[k] = d[k]
    <3>1. PICK j \in IndicesOf(cmd, i) : k = cmd.keys[j]
      BY <1>1
    <3> QED
      BY <2>1, <3>1
  <2> QED
    BY <2>2
<1>15. met \in Db /\ met2 \in Db
  BY <1>4, MetType
<1>16. ASSUME NEW y \in new PROVE Accessed(y, cmd, Logged(lg2, c0, q0), met2)
  <2>1. CASE y \in old
    <3>1. SpansShards(cmd)
      BY <1>8, <2>1
    <3>2. /\ y.index \in 1 .. Len(cmd.keys) /\ y.key = cmd.keys[y.index]
          /\ IndicesOf(cmd, y.index) \subseteq Logged(lg, c0, q0)
          /\ y.before = met[y.key] /\ y.after = Effect(cmd, met)[y.key] /\ y.key \in Keys
      BY <1>7, <2>1 DEF Accessed
    <3>3. met2[y.key] = met[y.key]
      BY <1>10, <2>1
    <3> HIDE DEF met, met2
    <3>4. Effect(cmd, met2)[y.key] = Effect(cmd, met)[y.key]
      BY <1>15, <3>1, <3>2, <3>3, SplitEffect
    <3> QED
      BY <1>13, <3>2, <3>3, <3>4 DEF Accessed
  <2>2. ASSUME NEW m \in 1 .. n, y = acc[m] PROVE Accessed(y, cmd, Logged(lg2, c0, q0), met2)
    <3>1. PICK j \in IndicesOf(cmd, i) : j = i + m - 1
      BY <1>1
    <3>2. /\ y.index = j /\ y.key = cmd.keys[j]
          /\ y.before = d[y.key] /\ y.after = Effect(part, d)[y.key]
      <4>1. part.keys[m] = cmd.keys[j]
        BY <1>1, <3>1
      <4> QED
        BY <1>2, <2>2, <3>1, <4>1
    <3>3. j \in 1 .. Len(cmd.keys)
      BY <1>1
    <3>4. IndicesOf(cmd, j) = IndicesOf(cmd, i)
      BY <1>1, <3>1, <3>3 DEF IndicesOf
    <3>5. met2[y.key] = d[y.key]
      BY <1>11, <2>2
    <3> HIDE DEF met, met2
    <3>6. Effect(part, d)[cmd.keys[j]] = Effect(cmd, met2)[cmd.keys[j]]
      <4>1. \A k \in KeysOf(PartOf(cmd, i)) : d[k] = met2[k]
        BY <1>14 DEF part
      <4> QED
        BY <1>15, <4>1, PartEffect DEF part
    <3> QED
      BY <1>13, <3>2, <3>3, <3>4, <3>5, <3>6 DEF Accessed
  <2> QED
    BY <1>6, <2>1, <2>2
<1>17. LogCarries(lg2, sub)
  <2>1. ASSUME NEW c \in Conns, NEW q \in Nat, NEW e \in EntriesIn(lg2, c, q)
        PROVE  Accessed(e, sub[c][q + 1], Logged(lg2, c, q), Met(lg2, c, q))
    <3>1. CASE c # c0 \/ q # q0
      BY <1>5, <2>1, <3>1 DEF LogCarries
    <3>2. CASE c = c0 /\ q = q0
      BY <1>16, <2>1, <3>2
    <3> QED
      BY <3>1, <3>2
  <2> QED
    BY <2>1 DEF LogCarries
<1>18. AllGrown(lg, lg2, sub)
  <2>1. ASSUME NEW c \in Conns, NEW q \in Nat PROVE Grown(lg, lg2, c, q, sub[c][q + 1])
    <3>1. CASE c # c0 \/ q # q0
      BY <1>5, <3>1 DEF Grown
    <3>2. CASE c = c0 /\ q = q0
      <4>1. ASSUME NEW j \in Logged(lg, c0, q0) PROVE met2[cmd.keys[j]] = met[cmd.keys[j]]
        <5>1. PICK x \in old : x.index = j
          BY DEF Logged
        <5> QED
          BY <1>7, <1>10, <5>1
      <4> QED
        BY <1>13, <3>2, <4>1 DEF Grown
    <3> QED
      BY <3>1, <3>2
  <2> QED
    BY <2>1 DEF AllGrown
<1> QED
  BY <1>13, <1>14, <1>17, <1>18 DEF part

\* A history that stays.
LEMMA SameGrown == ASSUME NEW lg, NEW sub PROVE AllGrown(lg, lg, sub)
BY DEF AllGrown, Grown

-----------------------------------------------------------------------------
(* Tasks under way.                                                        *)

LEMMA TaskIn ==
    ASSUME NEW lines \in AllLines
    PROVE  /\ TasksIn(lines) \subseteq Task
           /\ \A x \in Places : \A i \in 1 .. Len(lines[x]) : lines[x][i] \in TasksIn(lines)
           /\ \A t \in TasksIn(lines) : \E x \in Places : \E i \in 1 .. Len(lines[x]) :
                 t = lines[x][i]
<1>1. TasksIn(lines) \subseteq Task
  BY TaskAt DEF TasksIn
<1>2. ASSUME NEW x \in Places, NEW i \in 1 .. Len(lines[x]) PROVE lines[x][i] \in TasksIn(lines)
  <2>1. PICK p \in Positions(lines) : p = <<x, i>>
    BY PositionIn
  <2> QED
    BY <2>1 DEF TasksIn
<1>3. ASSUME NEW t \in TasksIn(lines)
      PROVE  \E x \in Places : \E i \in 1 .. Len(lines[x]) : t = lines[x][i]
  <2>1. PICK p \in Positions(lines) : t = lines[p[1]][p[2]]
    BY DEF TasksIn
  <2>2. p[1] \in Places /\ p[2] \in 1 .. Len(lines[p[1]])
    BY PositionIn
  <2> QED
    BY <2>1, <2>2
<1> QED
  BY <1>1, <1>2, <1>3

\* The head of a line is under way.
LEMMA HeadIn ==
    ASSUME NEW lines \in AllLines, NEW x \in Places, lines[x] # <<>>
    PROVE  Head(lines[x]) \in TasksIn(lines)
<1>1. Len(lines[x]) \in Nat \ {0} /\ Head(lines[x]) = lines[x][1]
  BY HeadTailProperties, EmptySeq DEF AllLines
<1> QED
  BY <1>1, TaskIn

\* A move replaces at most the task that moves.
LEMMA MoveTasks ==
    ASSUME NEW before \in AllLines, NEW after \in AllLines, NEW x, NEW y, NEW u,
           Moves(before, after, x, y, u)
    PROVE  /\ \A t \in TasksIn(after) : t = u \/ t \in TasksIn(before)
           /\ \A c, q : Due(after, c, q) = Due(before, c, q)
           /\ Head(before[x]) \in TasksIn(before)
<1>1. /\ x \in Places /\ y \in Places /\ x # y
      /\ before[x] \in Seq(Task) /\ before[y] \in Seq(Task) /\ before[x] # <<>>
      /\ after[x] = Tail(before[x]) /\ after[y] = Append(before[y], u)
      /\ \A z \in Places \ {x, y} : after[z] = before[z]
  BY DEF Moves, AllLines
<1>2. /\ Len(before[x]) \in Nat \ {0} /\ Len(after[x]) = Len(before[x]) - 1
      /\ \A i \in 1 .. Len(after[x]) : after[x][i] = before[x][i + 1]
  BY <1>1, HeadTailProperties, EmptySeq
<1>3. /\ Len(before[y]) \in Nat /\ Len(after[y]) = Len(before[y]) + 1
      /\ \A i \in 1 .. Len(before[y]) : after[y][i] = before[y][i]
      /\ after[y][Len(before[y]) + 1] = u
  BY <1>1, LenProperties, AppendProperties
<1>4. ASSUME NEW t \in TasksIn(after) PROVE t = u \/ t \in TasksIn(before)
  <2>0. PICK z \in Places : \E i \in 1 .. Len(after[z]) : t = after[z][i]
    BY TaskIn
  <2>1. PICK i \in 1 .. Len(after[z]) : t = after[z][i]
    BY <2>0
  <2>2. CASE z = x
    <3>1. i + 1 \in 1 .. Len(before[x]) /\ t = before[x][i + 1]
      BY <1>2, <2>1, <2>2
    <3> QED
      BY <1>1, <3>1, TaskIn
  <2>3. CASE z = y /\ i \in 1 .. Len(before[y])
    BY <1>1, <1>3, <2>1, <2>3, TaskIn
  <2>4. CASE z = y /\ i \notin 1 .. Len(before[y])
    <3>1. i = Len(before[y]) + 1
      BY <1>3, <2>4
    <3> QED
      BY <1>3, <2>1, <2>4, <3>1
  <2>5. CASE z # x /\ z # y
    <3>1. after[z] = before[z]
      BY <1>1, <2>5
    <3> QED
      BY <2>1, <3>1, TaskIn
  <2> QED
    BY <2>2, <2>3, <2>4, <2>5
<1>5. PICK f \in Bijection(Positions(after), Positions(before)) : MovedBy(f, before, after, x, u)
  BY MoveMap
<1> DEFINE a(p) == after[p[1]][p[2]]
           b(p) == before[p[1]][p[2]]
<1>6. ASSUME NEW p \in Positions(after)
      PROVE  /\ f[p] \in Positions(before) /\ a(p) \in Task /\ b(f[p]) \in Task
             /\ StandsFor(a(p), b(f[p]))
  <2>1. f[p] \in Positions(before)
    BY DEF Bijection, Injection
  <2>2. StandsFor(a(p), b(f[p]))
    BY <1>5 DEF MovedBy
  <2> QED
    BY <2>1, <2>2, TaskAt
<1>7. \A r \in Positions(before) : \E p \in Positions(after) : f[p] = r
  BY DEF Bijection, Surjection
<1>8. ASSUME NEW c, NEW q PROVE Due(after, c, q) = Due(before, c, q)
  <2>1. ASSUME NEW p \in Positions(after)
        PROVE  AboutSlot(a(p), c, q) <=> AboutSlot(b(f[p]), c, q)
    <3> HIDE DEF a, b
    <3> QED
      BY <1>6, StandsForSlot DEF AboutSlot
  <2>2. ASSUME NEW p \in Positions(after), AboutSlot(a(p), c, q) PROVE a(p).index = b(f[p]).index
    <3> HIDE DEF a, b
    <3> QED
      BY <1>6, <2>2, StandsForSlot DEF AboutSlot
  <2>3. \A i : i \in Due(after, c, q) <=> \E p \in Positions(after) : AboutSlot(a(p), c, q) /\ i = a(p).index
    BY DEF Due, TasksIn
  <2>4. \A i : i \in Due(before, c, q) <=> \E p \in Positions(before) : AboutSlot(b(p), c, q) /\ i = b(p).index
    BY DEF Due, TasksIn
  <2> HIDE DEF a, b
  <2>5. \A i : i \in Due(after, c, q) <=> i \in Due(before, c, q)
    BY <1>6, <1>7, <2>1, <2>2, <2>3, <2>4
  <2> QED
    BY <2>5
<1> QED
  BY <1>1, <1>4, <1>8, HeadIn

\* A task that leaves is no longer due; the others are.
LEMMA LeaveTasks ==
    ASSUME NEW before \in AllLines, NEW after \in AllLines, NEW x, Leaves(before, after, x),
           NEW t, Head(before[x]) = t
    PROVE  /\ TasksIn(after) \subseteq TasksIn(before) /\ t \in TasksIn(before)
           /\ \A c, q : ~AboutSlot(t, c, q) => Due(after, c, q) = Due(before, c, q)
           /\ AllApart(before) => \A c, q : AboutSlot(t, c, q) =>
                 /\ Due(after, c, q) = Due(before, c, q) \ {t.index}
                 /\ t.index \in Due(before, c, q)
<1> DEFINE a(p) == after[p[1]][p[2]]
           b(p) == before[p[1]][p[2]]
           h == <<x, 1>>
<1>1. x \in Places /\ before[x] # <<>> /\ before[x] \in Seq(Task)
  BY DEF Leaves, AllLines
<1>2. h \in Positions(before) /\ b(h) = t /\ t \in TasksIn(before)
  <2>1. Len(before[x]) \in Nat \ {0} /\ Head(before[x]) = before[x][1]
    BY <1>1, HeadTailProperties, EmptySeq
  <2> QED
    BY <1>1, <2>1, PositionIn, HeadIn
<1>3. PICK f \in Bijection(Positions(after), Positions(before) \ {h}) :
         \A p \in Positions(after) : a(p) = b(f[p])
  BY LeaveMap
<1> HIDE DEF h
<1>4. /\ \A p \in Positions(after) : f[p] \in Positions(before) /\ f[p] # h
      /\ \A r \in Positions(before) : r # h => \E p \in Positions(after) : f[p] = r
  BY DEF Bijection, Injection, Surjection
<1>5. TasksIn(after) \subseteq TasksIn(before)
  <2> SUFFICES ASSUME NEW p \in Positions(after) PROVE a(p) \in TasksIn(before)
    BY DEF TasksIn
  <2> QED
    BY <1>3, <1>4 DEF TasksIn
<1>6. ASSUME NEW c, NEW q
      PROVE  /\ \A i : i \in Due(after, c, q) <=>
                   \E p \in Positions(after) : AboutSlot(a(p), c, q) /\ i = a(p).index
             /\ \A i : i \in Due(before, c, q) <=>
                   \E p \in Positions(before) : AboutSlot(b(p), c, q) /\ i = b(p).index
  BY DEF Due, TasksIn
<1> HIDE DEF a, b
<1>7. ASSUME NEW c, NEW q, ~AboutSlot(t, c, q) PROVE Due(after, c, q) = Due(before, c, q)
  <2>1. \A i : i \in Due(after, c, q) <=> i \in Due(before, c, q)
    BY <1>2, <1>3, <1>4, <1>6, <1>7
  <2> QED
    BY <2>1
<1>8. ASSUME AllApart(before), NEW c, NEW q, AboutSlot(t, c, q)
      PROVE  Due(after, c, q) = Due(before, c, q) \ {t.index} /\ t.index \in Due(before, c, q)
  <2>1. ASSUME NEW r \in Positions(before), r # h, AboutSlot(b(r), c, q) PROVE b(r).index # t.index
    <3>1. Apart(b(r), b(h))
      BY <1>2, <1>8, <2>1 DEF AllApart, b
    <3> QED
      BY <1>2, <1>8, <2>1, <3>1 DEF Apart, AboutSlot
  <2>2. t.index \in Due(before, c, q)
    BY <1>2, <1>6, <1>8
  <2>3. ASSUME NEW i \in Due(after, c, q) PROVE i \in Due(before, c, q) /\ i # t.index
    BY <1>3, <1>4, <1>6, <2>1
  <2>4. ASSUME NEW i \in Due(before, c, q), i # t.index PROVE i \in Due(after, c, q)
    BY <1>2, <1>3, <1>4, <1>6, <2>4
  <2> QED
    BY <2>2, <2>3, <2>4
<1> QED
  BY <1>2, <1>5, <1>7, <1>8

\* New posts come on top of what is under way.
LEMMA PostTasks ==
    ASSUME NEW before \in AllLines, NEW after \in AllLines, NEW x, NEW new \in Seq(Task),
           Posts(before, after, x, new)
    PROVE  /\ \A t \in TasksIn(after) : t \in TasksIn(before) \/ \E i \in 1 .. Len(new) : t = new[i]
           /\ TasksIn(before) \subseteq TasksIn(after)
           /\ \A i \in 1 .. Len(new) : new[i] \in TasksIn(after)
<1>1. /\ \A p : p \in Positions(after) <=> \/ p \in Positions(before)
                                            \/ \E i \in 1 .. Len(new) : p = <<x, i>>
      /\ \A p \in Positions(before) : after[p[1]][p[2]] = before[p[1]][p[2]]
      /\ after[x] = new /\ x \in Places
  BY PostPositions DEF Posts
<1>2. \A i \in 1 .. Len(new) : new[i] \in TasksIn(after)
  BY <1>1, TaskIn
<1>3. ASSUME NEW p \in Positions(before) PROVE before[p[1]][p[2]] \in TasksIn(after)
  BY <1>1 DEF TasksIn
<1>4. TasksIn(before) \subseteq TasksIn(after)
  BY <1>3 DEF TasksIn
<1>5. ASSUME NEW p \in Positions(after)
      PROVE  after[p[1]][p[2]] \in TasksIn(before) \/ \E i \in 1 .. Len(new) : after[p[1]][p[2]] = new[i]
  <2>1. CASE p \in Positions(before)
    BY <1>1, <2>1 DEF TasksIn
  <2>2. ASSUME NEW i \in 1 .. Len(new), p = <<x, i>> PROVE after[p[1]][p[2]] = new[i]
    BY <1>1, <2>2
  <2> QED
    BY <1>1, <2>1, <2>2
<1>6. ASSUME NEW t \in TasksIn(after)
      PROVE  t \in TasksIn(before) \/ \E i \in 1 .. Len(new) : t = new[i]
  <2>1. PICK p \in Positions(after) : t = after[p[1]][p[2]]
    BY DEF TasksIn
  <2> QED
    BY <1>5, <2>1
<1> QED
  BY <1>2, <1>4, <1>6

-----------------------------------------------------------------------------
(* What dispatch() makes of a command.                                     *)

\* Answered at once, without a look at any key.
AnswersIt(cmd, slot, new) ==
    /\ ~Routed(cmd) /\ slot.ready /\ log' = log
    /\ \A i \in 1 .. Len(new) : new[i].type = "flush"

\* Executed here.
ExecutesIt(s, c, n, cmd, slot, new) ==
    /\ Routed(cmd) /\ ~SpansShards(cmd) /\ new = <<>>
    /\ slot.ready /\ slot.bytes = Answer(cmd, db[s])
    /\ Adds(log, log', s, Accesses(c, n, 1, cmd, db[s]))

\* Forwarded, in as many parts as the slot waits for.
ForwardsIt(c, n, cmd, slot, new, m) ==
    /\ Routed(cmd) /\ log' = log
    /\ m \in Nat \ {0} /\ Parts(cmd) = 1 .. m /\ slot = PendingSlot(n, KindOf(cmd), m)
    /\ Len(new) = m
    /\ \A i \in 1 .. m : new[i] = ExecTask(c, n, i, IsIntCmd(cmd), PartOf(cmd, i))

Dispatched(s, c, n, cmd, slot, new) ==
    /\ n \in Nat /\ n = next_seq[c] /\ cmd \in AllCommands /\ in[c] # <<>> /\ cmd = Head(in[c])
    /\ slot \in Slot /\ slot.seq = n
    /\ pipeline'  = [pipeline EXCEPT ![c] = Append(@, slot)]
    /\ submitted' = [submitted EXCEPT ![c] = Append(@, cmd)]
    /\ next_seq'  = [next_seq EXCEPT ![c] = @ + 1]
    /\ in' = in \/ in' = [in EXCEPT ![c] = Tail(@)]
    /\ out' = out /\ delivered' = delivered
    /\ new \in Seq(Task) /\ Posts(Lines, Lines', <<"outbox", s>>, new)
    /\ \/ AnswersIt(cmd, slot, new)
       \/ ExecutesIt(s, c, n, cmd, slot, new)
       \/ \E m : ForwardsIt(c, n, cmd, slot, new, m)

LEMMA DispatchIs ==
    ASSUME ShardInvariant, TypeOK', NEW s \in Shards, NEW c \in Conns, Dispatch(s, c),
           Clean(Head(in[c]))
    PROVE  \E n, cmd, slot, new : Dispatched(s, c, n, cmd, slot, new)
<1>0. /\ TypeOK /\ outbox[s] = <<>> /\ in[c] # <<>> /\ delivered' = delivered /\ out' = out
      /\ in' = in \/ in' = [in EXCEPT ![c] = Tail(@)]
      /\ UNCHANGED <<mailbox, batch>>
  BY DEF ShardInvariant, Dispatch, ProtocolError, DispatchKeyless, DispatchFlushall,
     DispatchLocal, DispatchForward, DispatchMultikey, DispatchCrossslot, Dispatching, Parsing
<1>1. PICK cmd : cmd = Head(in[c])
  OBVIOUS
<1>2. PICK n \in Nat : n = next_seq[c]
  BY <1>0 DEF TypeOK
<1>3. PICK d : d = db[s]
  OBVIOUS
<1>4. cmd \in AllCommands /\ d \in Db
  BY <1>0, <1>1, <1>3, HeadTailProperties DEF TypeOK
<1>5. Len(cmd.keys) \in Nat /\ Answer(cmd, d) \in Reply
  BY <1>4, CommandKeys, AnswerType DEF Reply
<1>6. Ok \in Reply /\ Err("CROSSSLOT") \in Reply /\ Err("PROTOCOL") \in Reply
  BY DEF Ok, Err, Reply, HandlerReply, ScalarReply, ErrorCodes
<1>7. ASSUME NEW slot \in Slot, slot.seq = n, NEW q \in Seq([to : Shards, task : Task]),
             Submit(c, slot), outbox' = [outbox EXCEPT ![s] = q],
             NEW new, new = TasksOf(q),
             \/ AnswersIt(cmd, slot, new)
             \/ ExecutesIt(s, c, n, cmd, slot, new)
             \/ \E m : ForwardsIt(c, n, cmd, slot, new, m)
      PROVE  \E a, b, x, y : Dispatched(s, c, a, b, x, y)
  <2>1. outbox'[s] = q /\ \A r \in Shards \ {s} : outbox'[r] = outbox[r]
    BY <1>0, <1>7 DEF TypeOK
  <2>2. Posts(Lines, Lines', <<"outbox", s>>, TasksOf(q)) /\ TasksOf(q) \in Seq(Task)
    BY <1>0, <1>7, <2>1, DispatchLines, TasksOfType
  <2>3. /\ pipeline'  = [pipeline EXCEPT ![c] = Append(@, slot)]
        /\ next_seq'  = [next_seq EXCEPT ![c] = @ + 1]
        /\ submitted' = [submitted EXCEPT ![c] = Append(@, cmd)]
    BY <1>1, <1>7 DEF Submit
  <2>4. Dispatched(s, c, n, cmd, slot, new)
    BY <1>0, <1>1, <1>2, <1>4, <1>7, <2>2, <2>3 DEF Dispatched
  <2> QED
    BY <2>4
\* Cases that post nothing.
<1>8. ASSUME NEW r \in Reply, Submit(c, ReadySlot(n, r)), UNCHANGED outbox,
             \/ ~Routed(cmd) /\ log' = log
             \/ /\ Routed(cmd) /\ ~SpansShards(cmd) /\ r = Answer(cmd, d)
                /\ log' = [log EXCEPT ![s] = @ \o Accesses(c, n, 1, cmd, d)]
      PROVE  \E a, b, x, y : Dispatched(s, c, a, b, x, y)
  <2> DEFINE q == <<>>
             slot == ReadySlot(n, r)
  <2>1. q \in Seq([to : Shards, task : Task]) /\ TasksOf(q) = <<>>
    BY DEF TasksOf
  <2>2. outbox' = [outbox EXCEPT ![s] = q]
    BY <1>0, <1>8 DEF TypeOK
  <2>3. slot \in Slot /\ slot.seq = n /\ slot.ready /\ slot.bytes = r
    BY <1>8, NewSlotType DEF ReadySlot
  <2>4. CASE ~Routed(cmd) /\ log' = log
    <3>1. AnswersIt(cmd, slot, TasksOf(q))
      BY <2>1, <2>3, <2>4 DEF AnswersIt
    <3> HIDE DEF slot, q
    <3> QED
      BY <1>7, <1>8, <2>1, <2>2, <2>3, <3>1 DEF slot
  <2>5. CASE /\ Routed(cmd) /\ ~SpansShards(cmd) /\ r = Answer(cmd, d)
             /\ log' = [log EXCEPT ![s] = @ \o Accesses(c, n, 1, cmd, d)]
    <3>1. ExecutesIt(s, c, n, cmd, slot, TasksOf(q))
      BY <1>3, <2>1, <2>3, <2>5 DEF ExecutesIt, Adds
    <3> HIDE DEF slot, q
    <3> QED
      BY <1>7, <1>8, <2>1, <2>2, <2>3, <3>1 DEF slot
  <2> QED
    BY <1>8, <2>4, <2>5
<1>9. ASSUME cmd.op \in KeylessOps PROVE ~Routed(cmd)
  <2>1. Len(cmd.keys) = 0 /\ cmd.keys \in Seq(Keys)
    BY <1>4, <1>9, CommandKeys DEF AllCommands, ArityOk
  <2> QED
    BY <2>1, EmptySeq DEF Routed
<1>10. CASE ProtocolError(s, c)
  <2>1. /\ Submit(c, ReadySlot(n, Err("PROTOCOL"))) /\ log' = log /\ UNCHANGED outbox
        /\ cmd.op = "malformed"
    BY <1>1, <1>2, <1>10 DEF ProtocolError
  <2> QED
    BY <1>6, <1>8, <1>9, <2>1 DEF KeylessOps
<1>11. CASE DispatchKeyless(s, c)
  <2>1. /\ Submit(c, ReadySlot(n, Answer(cmd, d))) /\ log' = log /\ UNCHANGED outbox
        /\ cmd.op \in {"unknown", "ping"}
    BY <1>1, <1>2, <1>3, <1>11 DEF DispatchKeyless
  <2>2. ~Routed(cmd)
    BY <1>9, <2>1 DEF KeylessOps
  <2> QED
    BY <1>5, <1>8, <2>1, <2>2
<1>12. CASE DispatchCrossslot(s, c)
  <2>1. /\ Submit(c, ReadySlot(n, Err("CROSSSLOT"))) /\ log' = log /\ UNCHANGED outbox
        /\ SpansShards(cmd) /\ cmd.op \notin Decomposable
    BY <1>1, <1>2, <1>12 DEF DispatchCrossslot
  <2>2. ~Routed(cmd)
    BY <2>1 DEF Routed
  <2> QED
    BY <1>6, <1>8, <2>1, <2>2
<1>13. CASE DispatchLocal(s, c)
  <2>1. /\ Submit(c, ReadySlot(n, Answer(cmd, d))) /\ UNCHANGED outbox
        /\ log' = [log EXCEPT ![s] = @ \o Accesses(c, n, 1, cmd, d)]
        /\ cmd.keys # <<>> /\ ~SpansShards(cmd)
    BY <1>1, <1>2, <1>3, <1>13 DEF DispatchLocal
  <2>2. Routed(cmd)
    BY <2>1 DEF Routed
  <2> QED
    BY <1>5, <1>8, <2>1, <2>2
<1>14. CASE DispatchFlushall(s, c)
  <2> DEFINE slot == ReadySlot(n, Ok)
             q == FlushPosts(s)
  <2>1. /\ Submit(c, slot) /\ log' = log /\ outbox' = [outbox EXCEPT ![s] = q]
        /\ cmd.op = "flushall"
    BY <1>1, <1>2, <1>14 DEF DispatchFlushall
  <2>2. /\ q \in Seq([to : Shards, task : Task])
        /\ \A i \in 1 .. Len(q) : q[i].task = FlushTask
    BY FlushPostsType
  <2>3. slot \in Slot /\ slot.seq = n /\ slot.ready
    BY <1>6, NewSlotType DEF ReadySlot
  <2>4. ~Routed(cmd)
    BY <1>9, <2>1 DEF KeylessOps
  <2> HIDE DEF q, slot
  <2>5. \A i \in 1 .. Len(TasksOf(q)) : TasksOf(q)[i].type = "flush"
    <3>1. FlushTask.type = "flush"
      BY DEF FlushTask
    <3>2. Len(TasksOf(q)) = Len(q) /\ \A i \in 1 .. Len(q) : TasksOf(q)[i] = q[i].task
      BY <2>2, TasksOfType
    <3> QED
      BY <2>2, <3>1, <3>2
  <2>6. AnswersIt(cmd, slot, TasksOf(q))
    BY <2>1, <2>3, <2>4, <2>5 DEF AnswersIt
  <2> QED
    BY <1>7, <2>1, <2>2, <2>3, <2>6
\* Cases that wait.
<1>15. CASE DispatchForward(s, c)
  <2> DEFINE slot == PendingSlot(n, "Single", 1)
             t == ExecTask(c, n, 1, FALSE, cmd)
             to == Owner[cmd.keys[1]]
             q == <<To(to, t)>>
  <2>1. /\ Submit(c, slot) /\ log' = log /\ outbox' = [outbox EXCEPT ![s] = q]
        /\ cmd.keys # <<>> /\ ~SpansShards(cmd)
    BY <1>1, <1>2, <1>15 DEF DispatchForward
  <2>2. slot \in Slot /\ slot.seq = n
    BY NewSlotType DEF Kinds
  <2>3. t \in Exec
    BY <1>4 DEF ExecTask, Exec
  <2>4. to \in Shards
    BY <1>4, <2>1, OneOwner, ShardAssumption DEF ShardAssumption
  <2>5. /\ Routed(cmd) /\ Parts(cmd) = {1} /\ KindOf(cmd) = "Single" /\ PartOf(cmd, 1) = cmd
        /\ IsIntCmd(cmd) = FALSE
    BY <2>1 DEF Routed, Parts, KindOf, PartOf, IsIntCmd
  <2>6. q \in Seq([to : Shards, task : Task]) /\ TasksOf(q) = <<t>>
    <3> HIDE DEF t, to
    <3>1. To(to, t) \in [to : Shards, task : Task] /\ To(to, t).task = t
      BY <2>3, <2>4 DEF To, Task
    <3> HIDE DEF To
    <3> QED
      BY <3>1 DEF TasksOf
  <2> HIDE DEF q, to
  <2>7. ForwardsIt(c, n, cmd, slot, <<t>>, 1)
    <3>1. Parts(cmd) = 1 .. 1 /\ slot = PendingSlot(n, KindOf(cmd), 1)
      BY <2>5
    <3>2. Len(<<t>>) = 1 /\ <<t>>[1] = ExecTask(c, n, 1, IsIntCmd(cmd), PartOf(cmd, 1))
      BY <2>5
    <3> HIDE DEF t, slot
    <3> QED
      BY <2>1, <2>5, <3>1, <3>2 DEF ForwardsIt
  <2> HIDE DEF t, slot
  <2> QED
    BY <1>7, <2>1, <2>2, <2>6, <2>7
<1>16. CASE DispatchMultikey(s, c)
  <2> DEFINE m == Len(cmd.keys)
             slot == PendingSlot(n, SlotKind(cmd), m)
             q == Fragments(c, n, cmd)
             new == TasksOf(q)
  <2>0. SpansShards(cmd) /\ WholePairs(cmd)
    BY <1>1, <1>16 DEF DispatchMultikey, Clean
  <2>1. /\ Submit(c, slot) /\ log' = log /\ outbox' = [outbox EXCEPT ![s] = q]
        /\ SpansShards(cmd) /\ cmd.op \in Decomposable
    BY <1>1, <1>2, <1>16, <2>0 DEF DispatchMultikey, ReadPairs
  <2>2. m \in Nat \ {0}
    BY <1>5, <2>1 DEF SpansShards, KeysOf
  <2>3. slot \in Slot /\ slot.seq = n
    <3>1. SlotKind(cmd) \in Kinds
      BY DEF SlotKind, Kinds
    <3> HIDE DEF m
    <3> QED
      BY <2>2, <3>1, NewSlotType
  <2>4. q \in Seq([to : Shards, task : Task]) /\ Len(q) = m
    BY <1>4, <2>0, FragmentsType
  <2>5. \A i \in 1 .. m : q[i].task = ExecTask(c, n, i, IsIntKind(SlotKind(cmd)), SubCommand(cmd, i))
    BY <2>2 DEF Fragments, To
  <2>6. /\ Parts(cmd) = 1 .. m /\ KindOf(cmd) = SlotKind(cmd)
        /\ \A i : PartOf(cmd, i) = SubCommand(cmd, i)
        /\ IsIntCmd(cmd) = IsIntKind(SlotKind(cmd))
    BY <2>1 DEF Parts, KindOf, PartOf, IsIntCmd, IsIntKind
  <2>7. Routed(cmd)
    <3>1. Len(cmd.keys) # 0
      BY <2>2
    <3> QED
      BY <2>1, <3>1, EmptySeq DEF Routed
  <2> HIDE DEF q, slot
  <2>8. new \in Seq(Task) /\ Len(new) = m /\ \A i \in 1 .. m : new[i] = q[i].task
    BY <2>4, TasksOfType
  <2> HIDE DEF new, m
  <2>9. ForwardsIt(c, n, cmd, slot, new, m)
    <3>1. slot = PendingSlot(n, KindOf(cmd), m)
      BY <2>6 DEF slot
    <3> QED
      BY <2>1, <2>2, <2>5, <2>6, <2>7, <2>8, <3>1 DEF ForwardsIt
  <2> QED
    BY <1>7, <2>1, <2>3, <2>4, <2>9 DEF new
<1> QED
  BY <1>10, <1>11, <1>12, <1>13, <1>14, <1>15, <1>16 DEF Dispatch

-----------------------------------------------------------------------------
(* What is under way and what was executed are parts of what was sent.     *)

\* The commands that have a number keep it.
SameBelow(sub, sub2, next) ==
    \A d \in Conns, q \in Nat : q < next[d] => sub2[d][q + 1] = sub[d][q + 1]

LEMMA SubmitKeeps ==
    ASSUME TypeOK, SentByClients, NEW c \in Conns, NEW cmd \in AllCommands,
           submitted' = [submitted EXCEPT ![c] = Append(@, cmd)]
    PROVE  /\ SameBelow(submitted, submitted', next_seq)
           /\ submitted'[c] = Append(submitted[c], cmd)
           /\ submitted'[c][next_seq[c] + 1] = cmd
           /\ Len(submitted'[c]) = next_seq[c] + 1
           /\ \A d \in Conns \ {c} : submitted'[d] = submitted[d]
<1>1. /\ submitted'[c] = Append(submitted[c], cmd) /\ submitted[c] \in Seq(AllCommands)
      /\ \A d \in Conns \ {c} : submitted'[d] = submitted[d]
      /\ \A d \in Conns : next_seq[d] \in Nat /\ Len(submitted[d]) = next_seq[d]
  BY DEF TypeOK, SentByClients
<1>2. /\ Len(Append(submitted[c], cmd)) = next_seq[c] + 1
      /\ Append(submitted[c], cmd)[next_seq[c] + 1] = cmd
      /\ \A i \in 1 .. next_seq[c] : Append(submitted[c], cmd)[i] = submitted[c][i]
  BY <1>1, AppendProperties
<1>3. ASSUME NEW d \in Conns, NEW q \in Nat, q < next_seq[d]
      PROVE  submitted'[d][q + 1] = submitted[d][q + 1]
  <2>1. q + 1 \in 1 .. next_seq[d]
    BY <1>1, <1>3
  <2> QED
    BY <1>1, <1>2, <2>1
<1>4. SameBelow(submitted, submitted', next_seq)
  BY <1>3 DEF SameBelow
<1> QED
  BY <1>1, <1>2, <1>4

\* The numbers of the entries of the history have their commands.
LogBelow(lg, next) == \A c \in Conns, q \in Nat : \A e \in EntriesIn(lg, c, q) : q < next[c]

LEMMA EntriesNumbered ==
    ASSUME TypeOK, LogNumbered
    PROVE  LogBelow(log, next_seq)
<1> SUFFICES ASSUME NEW c \in Conns, NEW q \in Nat, NEW e \in EntriesIn(log, c, q)
             PROVE  q < next_seq[c]
  BY DEF LogBelow
<1>1. PICK s \in Shards : \E i \in 1 .. Len(log[s]) :
         e = log[s][i] /\ log[s][i].conn = c /\ log[s][i].seq = q
  BY EntryIn
<1> QED
  BY <1>1 DEF LogNumbered

LEMMA LogStays ==
    ASSUME NEW lg, NEW sub, NEW sub2, NEW next, LogCarries(lg, sub), LogBelow(lg, next),
           SameBelow(sub, sub2, next)
    PROVE  LogCarries(lg, sub2)
<1> SUFFICES ASSUME NEW c \in Conns, NEW q \in Nat, NEW e \in EntriesIn(lg, c, q)
             PROVE  Accessed(e, sub2[c][q + 1], Logged(lg, c, q), Met(lg, c, q))
  BY DEF LogCarries
<1>1. sub2[c][q + 1] = sub[c][q + 1]
  BY DEF LogBelow, SameBelow
<1> QED
  BY <1>1 DEF LogCarries

\* The tasks of a line are about commands that have their number.
TasksBelow(lines, next) ==
    \A t \in TasksIn(lines) : t.type # "flush" =>
        t.conn \in Conns /\ t.seq \in Nat /\ t.seq < next[t.conn]

LEMMA TasksNumbered ==
    ASSUME NEW lines \in AllLines, NEW next, AllNumbered(lines, next)
    PROVE  TasksBelow(lines, next)
<1> SUFFICES ASSUME NEW t \in TasksIn(lines), t.type # "flush"
             PROVE  t.conn \in Conns /\ t.seq \in Nat /\ t.seq < next[t.conn]
  BY DEF TasksBelow
<1>1. t \in Task
  BY TaskIn
<1>2. t.conn \in Conns /\ t.seq \in Nat
  BY <1>1 DEF Task, Exec, Done, FlushTask
<1>3. PICK p \in Positions(lines) : t = lines[p[1]][p[2]]
  BY DEF TasksIn
<1> QED
  BY <1>2, <1>3 DEF AllNumbered

LEMMA TasksStay ==
    ASSUME NEW lines, NEW after, NEW sub, NEW sub2, NEW next, TasksCarry(lines, sub),
           TasksBelow(lines, next), SameBelow(sub, sub2, next),
           \A t \in TasksIn(after) : t \in TasksIn(lines) \/ t.type = "flush"
                                     \/ Carries(t, sub2[t.conn][t.seq + 1])
    PROVE  TasksCarry(after, sub2)
<1> SUFFICES ASSUME NEW t \in TasksIn(after), t.type # "flush"
             PROVE  Carries(t, sub2[t.conn][t.seq + 1])
  BY DEF TasksCarry
<1>1. CASE t \in TasksIn(lines)
  <2>1. Carries(t, sub[t.conn][t.seq + 1])
    BY <1>1 DEF TasksCarry
  <2>2. sub2[t.conn][t.seq + 1] = sub[t.conn][t.seq + 1]
    BY <1>1 DEF TasksBelow, SameBelow
  <2> QED
    BY <2>1, <2>2
<1> QED
  BY <1>1

\* Commands that were sent split cleanly.
LEMMA SentAreClean ==
    ASSUME TypeOK, SplitsCleanly, SentByClients, NEW c \in Conns, NEW q \in Nat, q < next_seq[c]
    PROVE  submitted[c][q + 1] \in AllCommands /\ Clean(submitted[c][q + 1])
<1>1. q + 1 \in 1 .. Len(submitted[c])
  BY DEF SentByClients, TypeOK
<1>2. submitted[c][q + 1] \in Requests[c]
  BY <1>1 DEF SentByClients
<1>3. Requests[c] \subseteq AllCommands
  BY ShardAssumption DEF ShardAssumption
<1> QED
  BY <1>2, <1>3 DEF SplitsCleanly

LEMMA HistoryType ==
    ASSUME TypeOK PROVE log \in AllLogs /\ Lines \in AllLines
BY LinesType DEF TypeOK, AllLogs, LinesShape

LEMMA NextHistoryType ==
    ASSUME TypeOK' PROVE log' \in AllLogs /\ Lines' \in AllLines
BY NextLines DEF TypeOK, AllLogs

\* What the next command of a connection is executed as.
LEMMA DispatchFaith ==
    ASSUME SplitsCleanly, ShardInvariant, TypeOK', FlowInvariant, FaithOfTasks,
           NEW s \in Shards, NEW c \in Conns, NEW n, NEW cmd, NEW slot, NEW new,
           Dispatched(s, c, n, cmd, slot, new)
    PROVE  /\ FaithOfTasks'
           /\ SameBelow(submitted, submitted', next_seq) /\ submitted'[c][n + 1] = cmd
           /\ AllGrown(log, log', submitted')
           /\ EntriesIn(log, c, n) = {}
           /\ ExecutesIt(s, c, n, cmd, slot, new) =>
                 /\ 1 .. Len(cmd.keys) \subseteq Logged(log', c, n)
                 /\ \A k \in KeysOf(cmd) : Met(log', c, n)[k] = db[s][k]
<1>0. /\ TypeOK /\ SentByClients /\ TasksCarry(Lines, submitted) /\ LogCarries(log, submitted)
      /\ AllNumbered(Lines, next_seq) /\ LogNumbered
      /\ log \in AllLogs /\ Lines \in AllLines /\ Lines' \in AllLines
  BY HistoryType, NextHistoryType DEF ShardInvariant, FaithOfTasks, FlowInvariant
<1>1. /\ n \in Nat /\ n = next_seq[c] /\ cmd \in AllCommands /\ in[c] # <<>> /\ cmd = Head(in[c])
      /\ submitted' = [submitted EXCEPT ![c] = Append(@, cmd)]
      /\ next_seq'  = [next_seq EXCEPT ![c] = @ + 1]
      /\ in' = in \/ in' = [in EXCEPT ![c] = Tail(@)]
      /\ new \in Seq(Task) /\ Posts(Lines, Lines', <<"outbox", s>>, new)
      /\ \/ AnswersIt(cmd, slot, new)
         \/ ExecutesIt(s, c, n, cmd, slot, new)
         \/ \E m : ForwardsIt(c, n, cmd, slot, new, m)
  BY DEF Dispatched
<1>2. /\ SameBelow(submitted, submitted', next_seq)
      /\ submitted'[c] = Append(submitted[c], cmd)
      /\ submitted'[c][n + 1] = cmd
      /\ Len(submitted'[c]) = n + 1
      /\ \A d \in Conns \ {c} : submitted'[d] = submitted[d]
  BY <1>0, <1>1, SubmitKeeps
<1>3. cmd \in Requests[c] /\ Clean(cmd)
  <2>1. in[c] \in Seq(AllCommands)
    BY <1>0 DEF TypeOK
  <2>2. Len(in[c]) \in Nat \ {0} /\ Head(in[c]) = in[c][1]
    BY <1>1, <2>1, HeadTailProperties, EmptySeq, LenProperties
  <2> QED
    BY <1>0, <1>1, <2>2 DEF SentByClients, SplitsCleanly
<1>4. SentByClients'
  <2>1. ASSUME NEW d \in Conns, NEW i \in 1 .. Len(submitted'[d])
        PROVE  submitted'[d][i] \in Requests[d]
    <3>1. CASE d = c
      <4>1. submitted[c] \in Seq(AllCommands) /\ Len(submitted[c]) = n
        BY <1>0, <1>1 DEF TypeOK, SentByClients
      <4>2. /\ \A j \in 1 .. n : submitted'[c][j] = submitted[c][j]
            /\ i \in 1 .. n \/ i = n + 1
        BY <1>1, <1>2, <2>1, <3>1, <4>1, AppendProperties
      <4>3. \A j \in 1 .. n : submitted[c][j] \in Requests[c]
        BY <1>0, <4>1 DEF SentByClients
      <4> QED
        BY <1>2, <1>3, <3>1, <4>2, <4>3
    <3>2. CASE d # c
      BY <1>0, <1>2, <2>1, <3>2 DEF SentByClients
    <3> QED
      BY <3>1, <3>2
  <2>2. ASSUME NEW d \in Conns, NEW i \in 1 .. Len(in'[d]) PROVE in'[d][i] \in Requests[d]
    <3>1. CASE in'[d] = in[d]
      BY <1>0, <2>2, <3>1 DEF SentByClients
    <3>2. CASE in'[d] # in[d]
      <4>1. d = c /\ in'[c] = Tail(in[c]) /\ in[c] \in Seq(AllCommands)
        BY <1>0, <1>1, <3>2 DEF TypeOK
      <4>2. Len(in'[c]) = Len(in[c]) - 1 /\ Len(in[c]) \in Nat
            /\ \A j \in 1 .. Len(in'[c]) : in'[c][j] = in[c][j + 1]
        BY <1>1, <4>1, HeadTailProperties, LenProperties
      <4>3. i + 1 \in 1 .. Len(in[c]) /\ in'[d][i] = in[c][i + 1]
        BY <2>2, <4>1, <4>2
      <4> QED
        BY <1>0, <4>1, <4>3 DEF SentByClients
    <3> QED
      BY <3>1, <3>2
  <2>3. ASSUME NEW d \in Conns PROVE Len(submitted'[d]) = next_seq'[d]
    BY <1>0, <1>1, <1>2 DEF TypeOK, SentByClients
  <2> QED
    BY <2>1, <2>2, <2>3 DEF SentByClients
<1>5. TasksBelow(Lines, next_seq) /\ LogBelow(log, next_seq)
  BY <1>0, TasksNumbered, EntriesNumbered
<1>6. TasksCarry(Lines', submitted')
  <2>1. ASSUME NEW i \in 1 .. Len(new)
        PROVE  new[i].type = "flush" \/ Carries(new[i], submitted'[new[i].conn][new[i].seq + 1])
    <3>1. CASE AnswersIt(cmd, slot, new)
      BY <3>1 DEF AnswersIt
    <3>2. CASE ExecutesIt(s, c, n, cmd, slot, new)
      <4>1. Len(new) = 0
        BY <3>2, EmptySeq DEF ExecutesIt
      <4> QED
        BY <4>1
    <3>3. CASE \E m : ForwardsIt(c, n, cmd, slot, new, m)
      <4>1. PICK m : ForwardsIt(c, n, cmd, slot, new, m)
        BY <3>3
      <4>2. Routed(cmd) /\ i \in Parts(cmd)
            /\ new[i] = ExecTask(c, n, i, IsIntCmd(cmd), PartOf(cmd, i))
        BY <4>1 DEF ForwardsIt
      <4>3. new[i].type = "exec" /\ new[i].conn = c /\ new[i].seq = n /\ new[i].index = i
            /\ new[i].is_int = IsIntCmd(cmd) /\ new[i].cmd = PartOf(cmd, i)
        BY <4>2 DEF ExecTask
      <4>4. Carries(new[i], cmd)
        BY <4>2, <4>3 DEF Carries
      <4> QED
        BY <1>2, <4>3, <4>4
    <3> QED
      BY <1>1, <3>1, <3>2, <3>3
  <2>2. \A t \in TasksIn(Lines') : t \in TasksIn(Lines) \/ \E i \in 1 .. Len(new) : t = new[i]
    BY <1>0, <1>1, PostTasks
  <2>3. \A t \in TasksIn(Lines') : t \in TasksIn(Lines) \/ t.type = "flush"
                                   \/ Carries(t, submitted'[t.conn][t.seq + 1])
    BY <2>1, <2>2
  <2> QED
    BY <1>0, <1>2, <1>5, <2>3, TasksStay
<1>7. EntriesIn(log, c, n) = {}
  BY <1>1, <1>5 DEF LogBelow
<1>8. LogCarries(log, submitted')
  BY <1>0, <1>2, <1>5, LogStays
<1>9. CASE log' = log /\ ~ExecutesIt(s, c, n, cmd, slot, new)
  <2>1. AllGrown(log, log', submitted') /\ LogCarries(log', submitted')
    BY <1>8, <1>9, SameGrown
  <2>2. FaithOfTasks'
    BY <1>4, <1>6, <2>1 DEF FaithOfTasks
  <2> QED
    BY <1>2, <1>7, <1>9, <2>1, <2>2
<1>10. CASE ExecutesIt(s, c, n, cmd, slot, new)
  <2>1. Routed(cmd) /\ ~SpansShards(cmd) /\ Adds(log, log', s, Accesses(c, n, 1, cmd, db[s]))
    BY <1>10 DEF ExecutesIt
  <2>2. 1 \in Parts(cmd) /\ PartOf(cmd, 1) = cmd /\ IndicesOf(cmd, 1) = 1 .. Len(cmd.keys)
    BY <2>1 DEF Parts, PartOf, IndicesOf
  <2>3. db[s] \in Db
    BY <1>0 DEF TypeOK
  <2>4. /\ LogCarries(log', submitted')
        /\ AllGrown(log, log', submitted')
        /\ IndicesOf(cmd, 1) \subseteq Logged(log', c, n)
        /\ \A k \in KeysOf(PartOf(cmd, 1)) : Met(log', c, n)[k] = db[s][k]
    <3>1. PICK d \in Db : d = db[s]
      BY <2>3
    <3>2. Adds(log, log', s, Accesses(c, n, 1, PartOf(cmd, 1), d))
      BY <2>1, <2>2, <3>1
    <3>3. \A e \in EntriesIn(log, c, n) : e.index \notin IndicesOf(cmd, 1)
      BY <1>7
    <3>4. /\ log \in AllLogs /\ n \in Nat /\ cmd \in AllCommands /\ Routed(cmd) /\ Clean(cmd)
          /\ cmd = submitted'[c][n + 1] /\ 1 \in Parts(cmd)
      BY <1>0, <1>1, <1>2, <1>3, <2>1, <2>2
    <3>5. /\ LogCarries(log', submitted')
          /\ AllGrown(log, log', submitted')
          /\ IndicesOf(cmd, 1) \subseteq Logged(log', c, n)
          /\ \A k \in KeysOf(PartOf(cmd, 1)) : Met(log', c, n)[k] = d[k]
      BY <1>8, <3>2, <3>3, <3>4, ExecGrows
    <3> QED
      BY <3>1, <3>5
  <2>5. FaithOfTasks'
    BY <1>4, <1>6, <2>4 DEF FaithOfTasks
  <2> QED
    BY <1>2, <1>7, <2>2, <2>4, <2>5
<1> QED
  BY <1>1, <1>9, <1>10 DEF AnswersIt, ForwardsIt

\* The owner of its keys executes request t, and posts completion u.
ExecutedAt(s, t, u) ==
    /\ t \in Exec /\ t \in TasksIn(Lines)
    /\ u \in Done /\ u.conn = t.conn /\ u.seq = t.seq /\ u.index = t.index
    /\ u.is_int = t.is_int /\ u.reply = Answer(t.cmd, db[s])
    /\ u.val = IF u.is_int THEN ParseRespInteger(u.reply) ELSE 0
    /\ Moves(Lines, Lines', <<"inbox", s>>, <<"outbox", s>>, u)
    /\ Adds(log, log', s, Accesses(t.conn, t.seq, t.index, t.cmd, db[s]))
    /\ UNCHANGED <<in, next_seq, submitted, pipeline, out, delivered>>

LEMMA ExecIs ==
    ASSUME ShardInvariant, TypeOK', NEW s \in Shards, RunExec(s)
    PROVE  \E t, u : ExecutedAt(s, t, u)
<1>0. TypeOK /\ Lines \in AllLines
  BY HistoryType DEF ShardInvariant
<1>1. PICK t \in Exec, u \in Done :
              /\ t = Head(batch[s]) /\ outbox[s] = <<>>
              /\ u.conn = t.conn /\ u.seq = t.seq /\ u.index = t.index
              /\ outbox' = [outbox EXCEPT ![s] = <<To(Home[t.conn], u)>>]
              /\ Inbox(s) # <<>> /\ Head(Inbox(s)) = t /\ Inbox(s)' = Tail(Inbox(s))
              /\ \A r \in Shards \ {s} : Inbox(r)' = Inbox(r)
              /\ Moves(Lines, Lines', <<"inbox", s>>, <<"outbox", s>>, u)
  BY <1>0, ExecLines
<1> DEFINE reply == Answer(t.cmd, db[s])
           val == IF t.is_int THEN ParseRespInteger(reply) ELSE 0
           v == DoneTask(t.conn, t.seq, t.index, t.is_int, reply, val)
<1>2. /\ outbox' = [outbox EXCEPT ![s] = <<To(Home[t.conn], v)>>]
      /\ log' = [log EXCEPT ![s] = @ \o Accesses(t.conn, t.seq, t.index, t.cmd, db[s])]
      /\ UNCHANGED <<in, next_seq, submitted, pipeline, out, delivered>>
  BY <1>1 DEF RunExec
<1>3. v.is_int = t.is_int /\ v.reply = reply /\ v.val = val
  BY DEF DoneTask
<1> HIDE DEF v
<1>4. u = v
  <2>1. outbox'[s] = <<To(Home[t.conn], u)>> /\ outbox'[s] = <<To(Home[t.conn], v)>>
    BY <1>0, <1>1, <1>2 DEF TypeOK
  <2>2. outbox'[s][1].task = u
    BY <2>1 DEF To
  <2>3. outbox'[s][1].task = v
    BY <2>1 DEF To
  <2> QED
    BY <2>2, <2>3
<1>5. t \in TasksIn(Lines)
  <2>1. Lines[<<"inbox", s>>] = Inbox(s) /\ <<"inbox", s>> \in Places
    BY <1>0, LinesType, ShardPlaces DEF LinesShape
  <2> QED
    BY <1>0, <1>1, <2>1, HeadIn
<1>6. Adds(log, log', s, Accesses(t.conn, t.seq, t.index, t.cmd, db[s]))
  BY <1>2 DEF Adds
<1>7. u.is_int = t.is_int /\ u.reply = reply /\ u.val = IF u.is_int THEN ParseRespInteger(u.reply) ELSE 0
  BY <1>3, <1>4
<1>8. ExecutedAt(s, t, u)
  BY <1>1, <1>2, <1>5, <1>6, <1>7 DEF ExecutedAt
<1> QED
  BY <1>8

\* Executing a part of a command leaves everything accounted for, and its
\* completion has the reply of the part.
LEMMA ExecFaith ==
    ASSUME SplitsCleanly, ShardInvariant, TypeOK', FlowInvariant, FaithOfTasks,
           NEW s \in Shards, NEW t, NEW u, ExecutedAt(s, t, u)
    PROVE  /\ FaithOfTasks'
           /\ AllGrown(log, log', submitted)
           /\ Reports(u, submitted[u.conn][u.seq + 1],
                      Logged(log', u.conn, u.seq), Met(log', u.conn, u.seq))
<1>0. /\ TypeOK /\ SentByClients /\ TasksCarry(Lines, submitted) /\ LogCarries(log, submitted)
      /\ AllNumbered(Lines, next_seq) /\ AllFresh(Lines, log)
      /\ log \in AllLogs /\ Lines \in AllLines /\ Lines' \in AllLines
  BY HistoryType, NextHistoryType DEF ShardInvariant, FaithOfTasks, FlowInvariant
<1> DEFINE c == t.conn
           q == t.seq
           i == t.index
           x == <<"inbox", s>>
           y == <<"outbox", s>>
<1>1. PICK cmd : cmd = submitted[c][q + 1]
  OBVIOUS
<1>2. /\ t \in Exec /\ t \in TasksIn(Lines)
      /\ u \in Done /\ u.conn = c /\ u.seq = q /\ u.index = i
      /\ u.is_int = t.is_int /\ u.reply = Answer(t.cmd, db[s])
      /\ u.val = IF u.is_int THEN ParseRespInteger(u.reply) ELSE 0
      /\ Moves(Lines, Lines', x, y, u)
      /\ Adds(log, log', s, Accesses(c, q, i, t.cmd, db[s]))
      /\ in' = in /\ next_seq' = next_seq /\ submitted' = submitted
  BY DEF ExecutedAt
<1>3. c \in Conns /\ q \in Nat /\ t.type = "exec" /\ u.type = "done"
  BY <1>2 DEF Exec, Done
<1>4. Carries(t, cmd) /\ q < next_seq[c]
  <2>1. TasksBelow(Lines, next_seq)
    BY <1>0, TasksNumbered
  <2> QED
    BY <1>0, <1>1, <1>2, <1>3, <2>1 DEF TasksCarry, TasksBelow
<1>5. cmd \in AllCommands /\ Clean(cmd)
  BY <1>0, <1>1, <1>3, <1>4, SentAreClean
<1>6. Routed(cmd) /\ i \in Parts(cmd) /\ t.cmd = PartOf(cmd, i) /\ t.is_int = IsIntCmd(cmd)
  BY <1>3, <1>4 DEF Carries
<1>7. \A e \in EntriesIn(log, c, q) : e.index \notin IndicesOf(cmd, i)
  <2>1. Span(t) = IndicesOf(cmd, i)
    BY <1>5, <1>6, PartKeys DEF Span, Clean
  <2>2. ASSUME NEW e \in EntriesIn(log, c, q) PROVE e.index \notin Span(t)
    <3>1. PICK r \in Shards : \E j \in 1 .. Len(log[r]) :
             e = log[r][j] /\ log[r][j].conn = c /\ log[r][j].seq = q
      BY EntryIn
    <3>2. PICK p \in Positions(Lines) : t = Lines[p[1]][p[2]]
      BY <1>2 DEF TasksIn
    <3> QED
      BY <1>0, <1>3, <3>1, <3>2 DEF AllFresh
  <2> QED
    BY <2>1, <2>2
<1>8. PICK d \in Db : d = db[s]
  BY <1>0 DEF TypeOK
<1>9. /\ LogCarries(log', submitted) /\ AllGrown(log, log', submitted)
      /\ IndicesOf(cmd, i) \subseteq Logged(log', c, q)
      /\ \A k \in KeysOf(PartOf(cmd, i)) : Met(log', c, q)[k] = d[k]
  <2>1. Adds(log, log', s, Accesses(c, q, i, PartOf(cmd, i), d))
    BY <1>2, <1>6, <1>8
  <2> HIDE DEF c, q, i
  <2> QED
    BY <1>0, <1>1, <1>3, <1>5, <1>6, <1>7, <2>1, ExecGrows
<1>10. Carries(u, cmd)
  BY <1>2, <1>3, <1>6 DEF Carries
<1>11. TasksCarry(Lines', submitted)
  <2>1. \A w \in TasksIn(Lines') : w = u \/ w \in TasksIn(Lines)
    <3> HIDE DEF x, y
    <3> QED
      BY <1>0, <1>2, MoveTasks
  <2> QED
    BY <1>0, <1>1, <1>2, <1>10, <2>1 DEF TasksCarry
<1>12. FaithOfTasks'
  <2>1. SentByClients'
    BY <1>0, <1>2 DEF SentByClients
  <2> QED
    BY <1>2, <1>9, <1>11, <2>1 DEF FaithOfTasks
<1>13. u.reply = Answer(PartOf(cmd, i), Met(log', c, q))
  <2>1. PartOf(cmd, i) \in AllCommands
    BY <1>5, <1>6, PartKeys DEF Clean
  <2>2. u.reply = Answer(PartOf(cmd, i), d)
    BY <1>2, <1>6, <1>8
  <2>3. Answer(PartOf(cmd, i), d) = Answer(PartOf(cmd, i), Met(log', c, q))
    BY <1>9, <2>1, AnswerByKeys
  <2> QED
    BY <2>2, <2>3
<1>14. Reports(u, cmd, Logged(log', c, q), Met(log', c, q))
  BY <1>2, <1>9, <1>13 DEF Reports
<1> QED
  BY <1>1, <1>2, <1>9, <1>12, <1>14

-----------------------------------------------------------------------------
(* Steps that neither dispatch a command nor execute one.                  *)

Within(x, q) == \E j \in 1 .. Len(q) : x = q[j]

\* Reply r is that of a ready slot of p.
FromSlot(r, p) == \E j \in 1 .. Len(p) : p[j].ready /\ r.seq = p[j].seq /\ r.bytes = p[j].bytes

\* What connection c goes on with comes from slots p and from what was output.
Serves(c, p) ==
    /\ \A d \in Conns \ {c} : /\ pipeline'[d] = pipeline[d] /\ out'[d] = out[d]
                              /\ delivered'[d] = delivered[d]
    /\ \A i \in 1 .. Len(pipeline'[c]) : Within(pipeline'[c][i], p)
    /\ \A i \in 1 .. Len(out'[c]) : Within(out'[c][i], out[c]) \/ FromSlot(out'[c][i], p)
    /\ \A i \in 1 .. Len(delivered'[c]) : \/ Within(delivered'[c][i], delivered[c])
                                          \/ Within(delivered'[c][i], out[c])
                                          \/ FromSlot(delivered'[c][i], p)

\* The inputs stay what the clients send.
InputsKept == \A c \in Conns : \A i \in 1 .. Len(in'[c]) : in'[c][i] \in Requests[c]

\* Writing output and the close decision.
LEMMA SettleServes ==
    ASSUME TypeOK, SentByClients, NEW c \in Conns, NEW p \in Seq(Slot), NEW r \in Seq(Slot),
           NEW o \in Seq(SentReply), WriteAndSettle(c, r, o),
           \A i \in 1 .. Len(r) : Within(r[i], p),
           \A i \in 1 .. Len(o) : Within(o[i], out[c]) \/ FromSlot(o[i], p)
    PROVE  Serves(c, p) /\ InputsKept
<1>0. /\ Len(o) \in Nat /\ closing[c] \in BOOLEAN
      /\ delivered \in [Conns -> Seq(SentReply)] /\ out \in [Conns -> Seq(SentReply)]
      /\ pipeline \in [Conns -> Seq(Slot)] /\ in \in [Conns -> Seq(AllCommands)]
  BY LenProperties DEF TypeOK
<1>1. PICK k \in 0 .. Len(o), cl \in BOOLEAN :
        /\ delivered' = [delivered EXCEPT ![c] = @ \o SubSeq(o, 1, k)]
        /\ closing' = [closing EXCEPT ![c] = cl]
        /\ \/ CloseConn(c)
           \/ /\ pipeline' = [pipeline EXCEPT ![c] = r]
              /\ out' = [out EXCEPT ![c] = SubSeq(o, k + 1, Len(o))]
              /\ in' = [in EXCEPT ![c] = in[c]]
              /\ status' = status
  BY <1>0, SettleCases
<1> DEFINE a == SubSeq(o, 1, k)
           b == SubSeq(o, k + 1, Len(o))
<1>2. /\ a \in Seq(SentReply) /\ Len(a) = k /\ \A i \in 1 .. k : a[i] = o[i]
      /\ Len(b) = Len(o) - k /\ \A i \in 1 .. Len(o) - k : b[i] = o[k + i]
  BY SplitSeq
<1>3. /\ delivered'[c] = delivered[c] \o a
      /\ pipeline'[c] = r \/ pipeline'[c] = <<>>
      /\ out'[c] = b \/ out'[c] = <<>>
      /\ in'[c] = in[c] \/ in'[c] = <<>>
      /\ \A d \in Conns \ {c} : /\ pipeline'[d] = pipeline[d] /\ out'[d] = out[d]
                                /\ delivered'[d] = delivered[d] /\ in'[d] = in[d]
  BY <1>0, <1>1 DEF CloseConn
<1> HIDE DEF a, b
<1>4. \A i \in 1 .. Len(pipeline'[c]) : Within(pipeline'[c][i], p)
  BY <1>3, EmptySeq
<1>5. \A i \in 1 .. Len(out'[c]) : Within(out'[c][i], out[c]) \/ FromSlot(out'[c][i], p)
  <2>1. \A i \in 1 .. Len(b) : k + i \in 1 .. Len(o) /\ b[i] = o[k + i]
    BY <1>0, <1>2
  <2> QED
    BY <1>3, <2>1, EmptySeq
<1>6. ASSUME NEW i \in 1 .. Len(delivered'[c])
      PROVE  \/ Within(delivered'[c][i], delivered[c])
             \/ Within(delivered'[c][i], out[c])
             \/ FromSlot(delivered'[c][i], p)
  <2> DEFINE m == Len(delivered[c])
  <2>1. m \in Nat /\ delivered[c] \in Seq(SentReply)
    BY <1>0, LenProperties
  <2>2. /\ Len(delivered[c] \o a) = m + k
        /\ (delivered[c] \o a)[i] = IF i <= m THEN delivered[c][i] ELSE a[i - m]
    <3>1. /\ Len(delivered[c] \o a) = m + k
          /\ \A j \in 1 .. m + k :
                (delivered[c] \o a)[j] = IF j <= m THEN delivered[c][j] ELSE a[j - m]
      BY <1>2, <2>1, ConcatProperties
    <3> QED
      BY <1>3, <1>6, <3>1
  <2>3. CASE i <= m
    <3>1. i \in 1 .. m /\ delivered'[c][i] = delivered[c][i]
      BY <1>3, <1>6, <2>1, <2>2, <2>3
    <3> QED
      BY <3>1 DEF Within
  <2>4. CASE ~(i <= m)
    <3>1. i - m \in 1 .. k
      BY <1>0, <1>3, <1>6, <2>1, <2>2, <2>4
    <3>2. i - m \in 1 .. Len(o) /\ delivered'[c][i] = o[i - m]
      BY <1>0, <1>2, <1>3, <2>2, <2>4, <3>1
    <3> QED
      BY <3>2
  <2> QED
    BY <2>3, <2>4
<1>7. InputsKept
  <2>1. ASSUME NEW d \in Conns, NEW i \in 1 .. Len(in'[d]) PROVE in'[d][i] \in Requests[d]
    <3>1. in'[d] = in[d] \/ in'[d] = <<>>
      BY <1>3
    <3>2. in'[d] = in[d]
      BY <2>1, <3>1, EmptySeq
    <3> QED
      BY <2>1, <3>2 DEF SentByClients
  <2> QED
    BY <2>1 DEF InputsKept
<1> QED
  BY <1>3, <1>4, <1>5, <1>6, <1>7 DEF Serves

\* flush_ready() takes slots that are ready.
LEMMA FlushedReady ==
    ASSUME NEW p \in Seq(Slot), NEW j \in 1 .. ReadyCount(p)
    PROVE  p[j].ready
<1> DEFINE R == {n \in 1 .. Len(p) : \A i \in 1 .. n : p[i].ready}
<1>1. Len(p) \in Nat /\ ReadyCount(p) = Cardinality(R) /\ ReadyCount(p) \in 0 .. Len(p)
  BY LenProperties, ReadyCountRange DEF ReadyCount
<1>2. SUFFICES ASSUME ~p[j].ready PROVE FALSE
  OBVIOUS
<1>3. R \subseteq 1 .. j - 1
  <2>1. ASSUME NEW n \in R PROVE n < j
    <3>1. n \in Nat /\ j \in Nat /\ j >= 1
      BY <1>1
    <3>2. ~(j \in 1 .. n)
      BY <1>2
    <3> QED
      BY <3>1, <3>2
  <2> QED
    BY <1>1, <2>1
<1>4. PICK m \in Nat : m = j - 1
  BY <1>1
<1>5. IsFiniteSet(1 .. m) /\ Cardinality(1 .. m) = m
  <2>1. IsFiniteSet(1 .. m) /\ Cardinality(1 .. m) = IF 1 > m THEN 0 ELSE m - 1 + 1
    BY FS_Interval
  <2>2. (IF 1 > m THEN 0 ELSE m - 1 + 1) = m
    OBVIOUS
  <2> QED
    BY <2>1, <2>2
<1>6. Cardinality(R) <= m
  <2>1. R \subseteq 1 .. m
    BY <1>3, <1>4
  <2> HIDE DEF R
  <2> QED
    BY <1>5, <2>1, FS_Subset
<1> QED
  BY <1>1, <1>4, <1>6

\* ... and leaves the others.
LEMMA FlushServes ==
    ASSUME NEW p \in Seq(Slot), NEW w \in Seq(SentReply)
    PROVE  /\ Unflushed(p) \in Seq(Slot) /\ w \o Flushed(p) \in Seq(SentReply)
           /\ \A i \in 1 .. Len(Unflushed(p)) : Within(Unflushed(p)[i], p)
           /\ \A i \in 1 .. Len(w \o Flushed(p)) :
                 Within((w \o Flushed(p))[i], w) \/ FromSlot((w \o Flushed(p))[i], p)
<1> DEFINE n == ReadyCount(p)
           f == Flushed(p)
<1>1. /\ n \in 0 .. Len(p) /\ Unflushed(p) \in Seq(Slot) /\ Len(Unflushed(p)) = Len(p) - n
      /\ \A i \in 1 .. Len(p) - n : Unflushed(p)[i] = p[n + i]
      /\ f \in Seq(SentReply) /\ Len(f) = n
  BY FlushSeq
<1>2. Len(p) \in Nat /\ Len(w) \in Nat
  BY LenProperties
<1>3. \A i \in 1 .. n : f[i].seq = p[i].seq /\ f[i].bytes = p[i].bytes
  BY DEF Flushed
<1>4. \A i \in 1 .. n : p[i].ready
  BY FlushedReady
<1> HIDE DEF n, f
<1>5. \A i \in 1 .. Len(Unflushed(p)) : Within(Unflushed(p)[i], p)
  <2>1. ASSUME NEW i \in 1 .. Len(Unflushed(p))
        PROVE  n + i \in 1 .. Len(p) /\ Unflushed(p)[i] = p[n + i]
    BY <1>1, <1>2
  <2> QED
    BY <2>1 DEF Within
<1>6. w \o f \in Seq(SentReply) /\ Len(w \o f) = Len(w) + n
      /\ \A i \in 1 .. Len(w) + n : (w \o f)[i] = IF i <= Len(w) THEN w[i] ELSE f[i - Len(w)]
  BY <1>1, ConcatProperties
<1>7. ASSUME NEW i \in 1 .. Len(w \o f) PROVE Within((w \o f)[i], w) \/ FromSlot((w \o f)[i], p)
  <2>1. CASE i <= Len(w)
    <3>1. i \in 1 .. Len(w) /\ (w \o f)[i] = w[i]
      BY <1>1, <1>2, <1>6, <2>1
    <3> QED
      BY <3>1 DEF Within
  <2>2. CASE ~(i <= Len(w))
    <3>1. PICK j \in 1 .. n : (w \o f)[i] = f[j]
      BY <1>1, <1>2, <1>6, <2>2
    <3>2. j \in 1 .. Len(p)
      BY <1>1, <1>2
    <3> QED
      BY <1>3, <1>4, <3>1, <3>2 DEF FromSlot
  <2> QED
    BY <2>1, <2>2
<1> QED
  BY <1>1, <1>5, <1>6, <1>7 DEF f

\* What such a step does to tasks, slots and replies: nothing, or a connection
\* is served its ready slots or is closed, or a completion has run before that.
OtherStep ==
    /\ UNCHANGED <<log, submitted, next_seq>> /\ InputsKept
    /\ TasksIn(Lines') \subseteq TasksIn(Lines)
    /\ \/ /\ UNCHANGED <<pipeline, out, delivered>>
          /\ \A c \in Conns : \A i \in 1 .. Len(pipeline[c]) :
                Due(Lines', c, pipeline[c][i].seq) = Due(Lines, c, pipeline[c][i].seq)
       \/ \E c \in Conns : Lines' = Lines /\ Serves(c, pipeline[c])
       \/ \E s \in Shards : \E t \in Done :
             /\ t \in TasksIn(Lines)
             /\ Leaves(Lines, Lines', <<"inbox", s>>) /\ Head(Lines[<<"inbox", s>>]) = t
             /\ Serves(t.conn, Completed(pipeline[t.conn], t))

FaithStep ==
    \/ \E s \in Shards, c \in Conns : \E n, cmd, slot, new : Dispatched(s, c, n, cmd, slot, new)
    \/ \E s \in Shards : \E t, u : ExecutedAt(s, t, u)
    \/ OtherStep

\* Inputs that stay or are extended by what the client sends.
LEMMA SameInputs ==
    ASSUME SentByClients, in' = in PROVE InputsKept
BY DEF SentByClients, InputsKept

\* Every step is of one of these kinds.
LEMMA FaithCases ==
    ASSUME SplitsCleanly, ShardInvariant, SlotsAreOpen, SentByClients, TypeOK', Next
    PROVE  FaithStep
<1>0. /\ TypeOK /\ OneHandlerAtATime /\ Lines \in AllLines /\ Lines' \in AllLines
      /\ \A c \in Conns : pipeline[c] \in Seq(Slot) /\ out[c] \in Seq(SentReply)
  BY HistoryType, NextHistoryType DEF ShardInvariant, TypeOK
<1>1. ASSUME NEW c \in Conns, Accept(c) PROVE FaithStep
  <2>1. /\ Lines' = Lines /\ in' = in
        /\ UNCHANGED <<pipeline, out, delivered, log, submitted, next_seq>>
    BY <1>1, SameLines DEF Accept
  <2>2. InputsKept
    BY <2>1, SameInputs
  <2> QED
    BY <2>1, <2>2 DEF FaithStep, OtherStep
<1>2. ASSUME NEW c \in Conns, HandleReadable(c) PROVE FaithStep
  <2>1. PICK n \in 0 .. MaxBurst : \E reqs \in [1 .. n -> Requests[c]] :
           in' = [in EXCEPT ![c] = @ \o reqs]
    BY <1>2 DEF HandleReadable
  <2>2. PICK reqs \in [1 .. n -> Requests[c]] : in' = [in EXCEPT ![c] = @ \o reqs]
    BY <2>1
  <2>3. /\ in'[c] = in[c] \o reqs /\ \A d \in Conns \ {c} : in'[d] = in[d]
        /\ in[c] \in Seq(AllCommands)
    BY <1>0, <2>2 DEF TypeOK
  <2>4. n \in Nat /\ reqs \in Seq(Requests[c]) /\ Len(reqs) = n
    <3>1. n \in Nat
      BY <2>1, ShardAssumption DEF ShardAssumption
    <3> QED
      BY <2>2, <3>1
  <2>5. ASSUME NEW i \in 1 .. Len(in'[c]) PROVE in'[c][i] \in Requests[c]
    <3> DEFINE m == Len(in[c])
    <3>1. /\ Len(in[c] \o reqs) = m + n /\ m \in Nat
          /\ \A j \in 1 .. m + n : (in[c] \o reqs)[j] = IF j <= m THEN in[c][j] ELSE reqs[j - m]
      <4>1. reqs \in Seq(AllCommands)
        <5>1. Requests[c] \subseteq AllCommands
          BY ShardAssumption DEF ShardAssumption
        <5> QED
          BY <2>4, <5>1, SeqMonotonic
      <4>2. m \in Nat
        BY <2>3, LenProperties
      <4> QED
        BY <2>3, <2>4, <4>1, <4>2, ConcatProperties
    <3>2. i \in 1 .. m + n /\ in'[c][i] = IF i <= m THEN in[c][i] ELSE reqs[i - m]
      BY <2>3, <2>5, <3>1
    <3>3. CASE i <= m
      <4>1. i \in 1 .. m /\ in'[c][i] = in[c][i]
        BY <3>1, <3>2, <3>3
      <4> QED
        BY <4>1 DEF SentByClients
    <3>4. CASE ~(i <= m)
      <4>1. i - m \in 1 .. n /\ in'[c][i] = reqs[i - m]
        BY <2>4, <3>1, <3>2, <3>4
      <4> QED
        BY <2>2, <4>1
    <3> QED
      BY <3>3, <3>4
  <2>6. InputsKept
    <3>1. ASSUME NEW d \in Conns, d # c, NEW i \in 1 .. Len(in'[d]) PROVE in'[d][i] \in Requests[d]
      BY <2>3, <3>1 DEF SentByClients
    <3> QED
      BY <2>5, <3>1 DEF InputsKept
  <2>7. Lines' = Lines /\ UNCHANGED <<pipeline, out, delivered, log, submitted, next_seq>>
    BY <1>2, SameLines DEF HandleReadable
  <2> QED
    BY <2>6, <2>7 DEF FaithStep, OtherStep
\* A connection is settled with the slots and the output it has.
<1>3. ASSUME NEW c \in Conns, Lines' = Lines, Serves(c, pipeline[c]), InputsKept,
             UNCHANGED <<log, submitted, next_seq>>
      PROVE  FaithStep
  BY <1>3 DEF FaithStep, OtherStep
<1>4. ASSUME NEW c \in Conns, HandleWritable(c) PROVE FaithStep
  <2> DEFINE p == pipeline[c]
             o == out[c]
  <2>1. /\ WriteAndSettle(c, p, o) /\ Lines' = Lines
        /\ UNCHANGED <<log, submitted, next_seq>>
    BY <1>4, SameLines DEF HandleWritable
  <2>2. (\A i \in 1 .. Len(p) : Within(p[i], p)) /\ (\A i \in 1 .. Len(o) : Within(o[i], o))
    BY DEF Within
  <2>3. Serves(c, p) /\ InputsKept
    <3>1. p \in Seq(Slot) /\ o \in Seq(SentReply)
      BY <1>0
    <3> QED
      BY <1>0, <2>1, <2>2, <3>1, SettleServes
  <2> QED
    BY <1>3, <2>1, <2>3
<1>5. ASSUME NEW c \in Conns, HandleError(c) PROVE FaithStep
  <2>1. /\ CloseConn(c) /\ Lines' = Lines /\ delivered' = delivered
        /\ UNCHANGED <<log, submitted, next_seq>>
    BY <1>5, SameLines DEF HandleError
  <2>2. /\ pipeline'[c] = <<>> /\ out'[c] = <<>> /\ in'[c] = <<>>
        /\ \A d \in Conns \ {c} : pipeline'[d] = pipeline[d] /\ out'[d] = out[d] /\ in'[d] = in[d]
    BY <1>0, <2>1 DEF CloseConn, TypeOK
  <2>3. Serves(c, pipeline[c])
    BY <2>1, <2>2, EmptySeq DEF Serves, Within
  <2>4. InputsKept
    <3>1. ASSUME NEW d \in Conns, NEW i \in 1 .. Len(in'[d]) PROVE in'[d][i] \in Requests[d]
      <4>1. in'[d] = in[d]
        BY <2>2, <3>1, EmptySeq
      <4> QED
        BY <3>1, <4>1 DEF SentByClients
    <3> QED
      BY <3>1 DEF InputsKept
  <2> QED
    BY <1>3, <2>1, <2>3, <2>4
<1>6. ASSUME NEW s \in Shards, NEW c \in Conns, FinishReadable(s, c) PROVE FaithStep
  <2> DEFINE p == pipeline[c]
             r == Unflushed(p)
             o == out[c] \o Flushed(p)
  <2>1. /\ WriteAndSettle(c, r, o) /\ Lines' = Lines
        /\ UNCHANGED <<log, submitted, next_seq>>
    BY <1>6, SameLines DEF FinishReadable
  <2>2. p \in Seq(Slot) /\ out[c] \in Seq(SentReply)
    BY <1>0
  <2>3. /\ r \in Seq(Slot) /\ o \in Seq(SentReply)
        /\ \A i \in 1 .. Len(r) : Within(r[i], p)
        /\ \A i \in 1 .. Len(o) : Within(o[i], out[c]) \/ FromSlot(o[i], p)
    BY <2>2, FlushServes
  <2> HIDE DEF r, o
  <2>4. Serves(c, p) /\ InputsKept
    BY <1>0, <2>1, <2>2, <2>3, SettleServes
  <2> QED
    BY <1>3, <2>1, <2>4
<1>7. ASSUME NEW s \in Shards, NEW c \in Conns, Dispatch(s, c) PROVE FaithStep
  <2>1. in[c] # <<>> /\ in[c] \in Seq(AllCommands)
    BY <1>0, <1>7 DEF Dispatch, ProtocolError, DispatchKeyless, DispatchFlushall, DispatchLocal,
       DispatchForward, DispatchMultikey, DispatchCrossslot, Dispatching, Parsing, TypeOK
  <2>2. Len(in[c]) \in Nat \ {0} /\ Head(in[c]) = in[c][1]
    BY <2>1, HeadTailProperties, EmptySeq, LenProperties
  <2>3. Clean(Head(in[c]))
    BY <2>2 DEF SentByClients, SplitsCleanly
  <2> QED
    BY <1>7, <2>3, DispatchIs DEF FaithStep
\* Tasks move or leave, and no slot is touched.
<1>8. ASSUME UNCHANGED <<in, log, submitted, next_seq, pipeline, out, delivered>>,
             TasksIn(Lines') \subseteq TasksIn(Lines),
             \A c \in Conns : \A i \in 1 .. Len(pipeline[c]) :
                Due(Lines', c, pipeline[c][i].seq) = Due(Lines, c, pipeline[c][i].seq)
      PROVE  FaithStep
  BY <1>8, SameInputs DEF FaithStep, OtherStep
<1>9. ASSUME NEW s \in Shards, Post(s) PROVE FaithStep
  <2>1. PICK to \in Shards, t \in Task :
              /\ outbox[s] # <<>> /\ Head(outbox[s]).task = t
              /\ Moves(Lines, Lines', <<"outbox", s>>, <<"inbox", to>>, t)
    BY <1>0, <1>9, PostLines
  <2>2. Head(Lines[<<"outbox", s>>]) = t
    <3>1. Lines[<<"outbox", s>>] = TasksOf(outbox[s]) /\ outbox[s] \in Seq([to : Shards, task : Task])
      BY <1>0, LinesType DEF LinesShape, TypeOK
    <3>2. Len(outbox[s]) \in Nat \ {0} /\ Head(outbox[s]) = outbox[s][1]
      BY <2>1, <3>1, HeadTailProperties, EmptySeq, LenProperties
    <3>3. /\ TasksOf(outbox[s]) \in Seq(Task) /\ Len(TasksOf(outbox[s])) = Len(outbox[s])
          /\ \A i \in 1 .. Len(outbox[s]) : TasksOf(outbox[s])[i] = outbox[s][i].task
      BY <3>1, TasksOfType
    <3>4. TasksOf(outbox[s]) # <<>>
      BY <3>2, <3>3, EmptySeq
    <3>5. Head(TasksOf(outbox[s])) = TasksOf(outbox[s])[1]
      BY <3>3, <3>4, HeadTailProperties
    <3> QED
      BY <2>1, <3>1, <3>2, <3>3, <3>5
  <2>3. /\ \A u \in TasksIn(Lines') : u = t \/ u \in TasksIn(Lines)
        /\ \A c, q : Due(Lines', c, q) = Due(Lines, c, q)
        /\ t \in TasksIn(Lines)
    BY <1>0, <2>1, <2>2, MoveTasks
  <2>4. UNCHANGED <<in, log, submitted, next_seq, pipeline, out, delivered>>
    BY <1>9 DEF Post
  <2>5. TasksIn(Lines') \subseteq TasksIn(Lines)
    BY <2>3
  <2> QED
    BY <1>8, <2>3, <2>4, <2>5
<1>10. ASSUME NEW s \in Shards, Drain(s) PROVE FaithStep
  <2>1. Lines' = Lines
    BY <1>0, <1>10, DrainLines
  <2>2. UNCHANGED <<in, log, submitted, next_seq, pipeline, out, delivered>>
    BY <1>10 DEF Drain
  <2> QED
    BY <1>8, <2>1, <2>2
<1>11. ASSUME NEW s \in Shards, RunExec(s) PROVE FaithStep
  BY <1>11, ExecIs DEF FaithStep
<1>12. ASSUME NEW s \in Shards, NEW type, Running(s, type), UNCHANGED <<mailbox, outbox>>
       PROVE  \E t \in Task :
                 /\ t = Head(batch[s]) /\ t.type = type
                 /\ Leaves(Lines, Lines', <<"inbox", s>>) /\ Head(Lines[<<"inbox", s>>]) = t
                 /\ TasksIn(Lines') \subseteq TasksIn(Lines) /\ t \in TasksIn(Lines)
                 /\ \A c, q : ~AboutSlot(t, c, q) => Due(Lines', c, q) = Due(Lines, c, q)
  <2>1. PICK t \in Task : t = Head(batch[s]) /\ t.type = type /\ Head(Inbox(s)) = t
    BY <1>0, <1>12, RunInbox
  <2>2. Leaves(Lines, Lines', <<"inbox", s>>)
    BY <1>0, <1>12, RunLines
  <2>3. Head(Lines[<<"inbox", s>>]) = t
    BY <1>0, <2>1, LinesType DEF LinesShape
  <2>4. /\ TasksIn(Lines') \subseteq TasksIn(Lines) /\ t \in TasksIn(Lines)
        /\ \A c, q : ~AboutSlot(t, c, q) => Due(Lines', c, q) = Due(Lines, c, q)
    BY <1>0, <2>2, <2>3, LeaveTasks
  <2> QED
    BY <2>1, <2>2, <2>3, <2>4
<1>13. ASSUME NEW s \in Shards, RunFlush(s) PROVE FaithStep
  <2>1. /\ Running(s, "flush")
        /\ UNCHANGED <<mailbox, outbox, in, log, submitted, next_seq, pipeline, out, delivered>>
    BY <1>13 DEF RunFlush
  <2>2. PICK t \in Task :
                 /\ t.type = "flush" /\ TasksIn(Lines') \subseteq TasksIn(Lines)
                 /\ \A c, q : ~AboutSlot(t, c, q) => Due(Lines', c, q) = Due(Lines, c, q)
    BY <1>12, <2>1
  <2>3. \A c, q : Due(Lines', c, q) = Due(Lines, c, q)
    BY <2>2 DEF AboutSlot
  <2> QED
    BY <1>8, <2>1, <2>2, <2>3
<1>14. ASSUME NEW s \in Shards, DropDone(s) PROVE FaithStep
  <2>1. /\ Running(s, "done") /\ ~Completes(Head(batch[s]))
        /\ UNCHANGED <<mailbox, outbox, in, log, submitted, next_seq, pipeline, out, delivered>>
    BY <1>14 DEF DropDone
  <2>2. PICK t \in Task :
                 /\ t = Head(batch[s]) /\ TasksIn(Lines') \subseteq TasksIn(Lines)
                 /\ \A c, q : ~AboutSlot(t, c, q) => Due(Lines', c, q) = Due(Lines, c, q)
    BY <1>12, <2>1
  <2>3. ASSUME NEW c \in Conns, NEW i \in 1 .. Len(pipeline[c])
        PROVE  ~AboutSlot(t, c, pipeline[c][i].seq)
    <3>1. CASE status[c] # "open"
      <4>1. pipeline[c] = <<>>
        BY <3>1 DEF SlotsAreOpen
      <4> QED
        BY <2>3, <4>1
    <3>2. CASE status[c] = "open"
      BY <2>1, <2>2, <2>3, <3>2 DEF Completes, AboutSlot
    <3> QED
      BY <3>1, <3>2
  <2> QED
    BY <1>8, <2>1, <2>2, <2>3
<1>15. ASSUME NEW s \in Shards, RunDone(s) PROVE FaithStep
  <2>1. Running(s, "done") /\ UNCHANGED <<mailbox, outbox, log, submitted, next_seq>>
    BY <1>15 DEF RunDone
  <2>2. PICK t \in Task :
                 /\ t = Head(batch[s]) /\ t.type = "done"
                 /\ Leaves(Lines, Lines', <<"inbox", s>>) /\ Head(Lines[<<"inbox", s>>]) = t
                 /\ TasksIn(Lines') \subseteq TasksIn(Lines) /\ t \in TasksIn(Lines)
    BY <1>12, <2>1
  <2>3. t \in Done /\ t.conn \in Conns
    BY <2>2 DEF Task, Exec, Done, FlushTask
  <2> DEFINE c == t.conn
             p == Completed(pipeline[c], t)
             r == Unflushed(p)
             o == out[c] \o Flushed(p)
  <2>4. WriteAndSettle(c, r, o)
    BY <1>15, <2>2 DEF RunDone
  <2>5. p \in Seq(Slot) /\ out[c] \in Seq(SentReply)
    BY <1>0, <2>3, CompletedType
  <2> HIDE DEF p
  <2>6. /\ r \in Seq(Slot) /\ o \in Seq(SentReply)
        /\ \A i \in 1 .. Len(r) : Within(r[i], p)
        /\ \A i \in 1 .. Len(o) : Within(o[i], out[c]) \/ FromSlot(o[i], p)
    BY <2>5, FlushServes
  <2> HIDE DEF r, o
  <2>7. Serves(c, p) /\ InputsKept
    BY <1>0, <2>3, <2>4, <2>5, <2>6, SettleServes
  <2> QED
    BY <2>1, <2>2, <2>3, <2>7 DEF FaithStep, OtherStep, p
<1> QED
  BY <1>1, <1>2, <1>4, <1>5, <1>6, <1>7, <1>9, <1>10, <1>11, <1>13, <1>14, <1>15 DEF Next, RunTask

\* No step executes anything but parts of what was sent.
LEMMA StepFaithOfTasks ==
    ASSUME SplitsCleanly, ShardInvariant, TypeOK', FlowInvariant, FaithOfTasks, Next
    PROVE  FaithOfTasks'
<1>0. SlotsAreOpen /\ SentByClients
  BY DEF FlowInvariant, FaithOfTasks
<1>1. FaithStep
  BY <1>0, FaithCases
<1>2. CASE OtherStep
  <2>1. /\ UNCHANGED <<log, submitted, next_seq>> /\ InputsKept
        /\ TasksIn(Lines') \subseteq TasksIn(Lines)
    BY <1>2 DEF OtherStep
  <2>2. SentByClients'
    BY <1>0, <2>1 DEF SentByClients, InputsKept
  <2>3. TasksCarry(Lines', submitted')
    BY <2>1 DEF FaithOfTasks, TasksCarry
  <2> QED
    BY <2>1, <2>2, <2>3 DEF FaithOfTasks
<1> QED
  BY <1>1, <1>2, DispatchFaith, ExecFaith DEF FaithStep

LEMMA FaithInit == Init => FaithOfTasks
<1> SUFFICES ASSUME Init PROVE FaithOfTasks
  OBVIOUS
<1>1. Len(<<>>) = 0
  BY EmptySeq
<1>2. SentByClients
  BY <1>1 DEF Init, SentByClients
<1>3. LogCarries(log, submitted)
  BY <1>1 DEF Init, LogCarries, EntriesIn
<1>4. TasksIn(Lines) = {}
  <2>1. \A s \in Shards : Inbox(s) = <<>> /\ Outgoing(s) = <<>>
    BY <1>1, ConcatEmptySeq DEF Init, Inbox, Outgoing
  <2>2. DOMAIN Lines = Places /\ \A x \in Places : Lines[x] = <<>>
    BY <2>1 DEF Lines, Places
  <2>3. DOMAIN <<>> = {}
    BY EmptySeq
  <2> QED
    BY <2>2, <2>3 DEF TasksIn, Positions
<1> QED
  BY <1>2, <1>3, <1>4 DEF FaithOfTasks, TasksCarry

LEMMA FaithStutter ==
    ASSUME FaithOfTasks, UNCHANGED vars PROVE FaithOfTasks'
<1>1. /\ UNCHANGED <<mailbox, batch, outbox, log, next_seq, in, submitted>>
  BY DEF vars
<1>2. Lines' = Lines
  BY <1>1, SameLines
<1>3. SentByClients'
  BY <1>1 DEF FaithOfTasks, SentByClients
<1> QED
  BY <1>1, <1>2, <1>3 DEF FaithOfTasks

\* What is under way are parts of the commands that were sent, and the history
\* has nothing but what the commands that were sent do.
THEOREM TasksAreFaithful ==
    ASSUME SplitsCleanly
    PROVE  Spec => []FaithOfTasks
<1>1. ShardInvariant /\ FlowInvariant /\ FaithOfTasks /\ [Next]_vars => FaithOfTasks'
  <2>1. ASSUME ShardInvariant, FlowInvariant, FaithOfTasks, UNCHANGED vars PROVE FaithOfTasks'
    BY <2>1, FaithStutter
  <2>2. ASSUME ShardInvariant, FlowInvariant, FaithOfTasks, Next PROVE FaithOfTasks'
    <3>1. TypeOK'
      BY <2>2, StepType DEF ShardInvariant
    <3> QED
      BY <2>2, <3>1, StepFaithOfTasks
  <2> QED
    BY <2>1, <2>2
<1> QED
  BY <1>1, FaithInit, Invariance, TasksFlow, PTL DEF Spec

LEMMA EntriesAre ==
    ASSUME NEW c, NEW q
    PROVE  EntriesOf(c, q) = EntriesIn(log, c, q) /\ Seen(c, q) = Met(log, c, q)
BY DEF EntriesOf, EntriesIn, Seen, Met

\* Forwarding and splitting are invisible in what is written: every access leaves
\* its key as the command that the client sent leaves it for the values that the
\* command met, and there is one of each.
THEOREM EffectsAreFaithful ==
    ASSUME SplitsCleanly
    PROVE  Spec => []FaithfulEffect
<1>1. ShardInvariant /\ FlowInvariant /\ FaithOfTasks => FaithfulEffect
  <2> SUFFICES ASSUME ShardInvariant, FlowInvariant, FaithOfTasks PROVE FaithfulEffect
    OBVIOUS
  <2>1. AtMostOnce
    BY DEF FlowInvariant
  <2>2. ASSUME NEW s \in Shards, NEW i \in 1 .. Len(log[s]), NEW e, e = log[s][i]
        PROVE  e.after = Effect(submitted[e.conn][e.seq + 1], Seen(e.conn, e.seq))[e.key]
    <3>1. e \in Access
      BY <2>2, ElementOfSeq DEF ShardInvariant, TypeOK
    <3>2. e.conn \in Conns /\ e.seq \in Nat
      BY <3>1 DEF Access
    <3>3. e \in EntriesIn(log, e.conn, e.seq)
      BY <2>2, EntryIn
    <3>4. Accessed(e, submitted[e.conn][e.seq + 1], Logged(log, e.conn, e.seq),
                   Met(log, e.conn, e.seq))
      BY <3>2, <3>3 DEF FaithOfTasks, LogCarries
    <3> QED
      BY <3>4, EntriesAre DEF Accessed
  <2> QED
    BY <2>1, <2>2 DEF FaithfulEffect
<1> QED
  BY <1>1, Invariance, TasksFlow, TasksAreFaithful, PTL

-----------------------------------------------------------------------------
(* What is known of an answer stays when the history grows.                *)

\* The accesses and values known of a command are some of those known later.
Kept(cmd, logged, met, logged2, met2) ==
    /\ logged \subseteq logged2 /\ logged2 \subseteq 1 .. Len(cmd.keys)
    /\ \A j \in logged : met2[cmd.keys[j]] = met[cmd.keys[j]]

LEMMA PartAnswerKept ==
    ASSUME NEW cmd \in AllCommands, Routed(cmd), NEW i \in Parts(cmd),
           NEW logged, NEW met, NEW logged2, NEW met2, Kept(cmd, logged, met, logged2, met2),
           IndicesOf(cmd, i) \subseteq logged
    PROVE  Answer(PartOf(cmd, i), met) = Answer(PartOf(cmd, i), met2)
<1>1. CASE SpansShards(cmd) => WholePairs(cmd)
  <2>1. /\ PartOf(cmd, i) \in AllCommands
        /\ KeysOf(PartOf(cmd, i)) = {cmd.keys[j] : j \in IndicesOf(cmd, i)}
    BY <1>1, PartKeys
  <2>2. \A k \in KeysOf(PartOf(cmd, i)) : met[k] = met2[k]
    BY <2>1 DEF Kept
  <2> QED
    BY <2>1, <2>2, AnswerByKeys
\* The SETs of an MSET answer the same whatever they store.
<1>2. CASE SpansShards(cmd) /\ ~WholePairs(cmd)
  <2>1. PartOf(cmd, i).op = "set"
    BY <1>2 DEF PartOf, WholePairs, SubCommand, SlotKind, Command
  <2> QED
    BY <2>1 DEF Answer, WholePairs
<1> QED
  BY <1>1, <1>2

LEMMA ReportsKept ==
    ASSUME NEW cmd \in AllCommands, NEW t, Carries(t, cmd),
           NEW logged, NEW met, NEW logged2, NEW met2, Kept(cmd, logged, met, logged2, met2),
           Reports(t, cmd, logged, met)
    PROVE  Reports(t, cmd, logged2, met2)
<1> SUFFICES ASSUME t.type = "done"
             PROVE  /\ IndicesOf(cmd, t.index) \subseteq logged2
                    /\ t.reply = Answer(PartOf(cmd, t.index), met2)
  BY DEF Reports
<1>1. IndicesOf(cmd, t.index) \subseteq logged /\ t.reply = Answer(PartOf(cmd, t.index), met)
  BY DEF Reports
<1>2. Routed(cmd) /\ t.index \in Parts(cmd)
  BY DEF Carries
<1>3. Answer(PartOf(cmd, t.index), met) = Answer(PartOf(cmd, t.index), met2)
  BY <1>1, <1>2, PartAnswerKept
<1>4. logged \subseteq logged2
  BY DEF Kept
<1> QED
  BY <1>1, <1>3, <1>4

LEMMA RepliedKept ==
    ASSUME NEW cmd \in AllCommands, NEW bytes,
           NEW logged, NEW met, NEW logged2, NEW met2, Kept(cmd, logged, met, logged2, met2),
           Replied(cmd, bytes, logged, met)
    PROVE  Replied(cmd, bytes, logged2, met2)
<1> SUFFICES ASSUME Routed(cmd)
             PROVE  logged2 = 1 .. Len(cmd.keys) /\ bytes = Answer(cmd, met2)
  BY DEF Replied
<1>1. logged = 1 .. Len(cmd.keys) /\ bytes = Answer(cmd, met)
  BY DEF Replied
<1>2. logged2 = logged
  BY <1>1 DEF Kept
<1>3. \A k \in KeysOf(cmd) : met[k] = met2[k]
  BY <1>1 DEF KeysOf, Kept
<1>4. Answer(cmd, met) = Answer(cmd, met2)
  BY <1>3, AnswerByKeys
<1> QED
  BY <1>1, <1>2, <1>4

LEMMA CollectsKept ==
    ASSUME NEW cmd \in AllCommands, NEW p, NEW due,
           NEW logged, NEW met, NEW logged2, NEW met2, Kept(cmd, logged, met, logged2, met2),
           Collects(p, cmd, due, logged, met)
    PROVE  Collects(p, cmd, due, logged2, met2)
<1> SUFFICES ASSUME Routed(cmd) PROVE Collects(p, cmd, due, logged2, met2)
  BY DEF Collects
<1> DEFINE back == Parts(cmd) \ due
<1>1. /\ p.kind = KindOf(cmd)
      /\ \A i \in back : IndicesOf(cmd, i) \subseteq logged
      /\ IsIntCmd(cmd) => p.accum = Cardinality({i \in back : met[cmd.keys[i]] # NoKey})
      /\ ~IsIntCmd(cmd) => /\ Parts(cmd) = 1 .. Len(p.frags)
                           /\ \A i \in back : p.frags[i] = Answer(PartOf(cmd, i), met)
  BY DEF Collects
<1>2. \A i \in back : IndicesOf(cmd, i) \subseteq logged2
  BY <1>1 DEF Kept
<1>3. ASSUME IsIntCmd(cmd)
      PROVE  {i \in back : met[cmd.keys[i]] # NoKey} = {i \in back : met2[cmd.keys[i]] # NoKey}
  <2>1. \A i \in back : i \in IndicesOf(cmd, i)
    BY <1>3 DEF IsIntCmd, IndicesOf
  <2>2. \A i \in back : met2[cmd.keys[i]] = met[cmd.keys[i]]
    BY <1>1, <2>1 DEF Kept
  <2> HIDE DEF back
  <2> QED
    BY <2>2
<1>4. \A i \in back : Answer(PartOf(cmd, i), met) = Answer(PartOf(cmd, i), met2)
  BY <1>1, PartAnswerKept
<1>5. p.kind = KindOf(cmd) /\ \A i \in back : IndicesOf(cmd, i) \subseteq logged2
  BY <1>1, <1>2
<1>6. IsIntCmd(cmd) => p.accum = Cardinality({i \in back : met2[cmd.keys[i]] # NoKey})
  BY <1>1, <1>3
<1>7. ~IsIntCmd(cmd) => /\ Parts(cmd) = 1 .. Len(p.frags)
                        /\ \A i \in back : p.frags[i] = Answer(PartOf(cmd, i), met2)
  BY <1>1, <1>4
<1> QED
  BY <1>5, <1>6, <1>7 DEF Collects

LEMMA SlotHoldsKept ==
    ASSUME NEW cmd \in AllCommands, NEW p, NEW due,
           NEW logged, NEW met, NEW logged2, NEW met2, Kept(cmd, logged, met, logged2, met2),
           SlotHolds(p, cmd, due, logged, met)
    PROVE  SlotHolds(p, cmd, due, logged2, met2)
BY RepliedKept, CollectsKept DEF SlotHolds

\* All of this for every command that has its number.
KeptAll(lg, lg2, sub, sub2) ==
    \A c \in Conns, q \in Nat : q < Len(sub[c]) =>
        /\ q < Len(sub2[c]) /\ sub2[c][q + 1] = sub[c][q + 1] /\ sub[c][q + 1] \in AllCommands
        /\ Kept(sub[c][q + 1], Logged(lg, c, q), Met(lg, c, q), Logged(lg2, c, q), Met(lg2, c, q))

LEMMA LoggedRange ==
    ASSUME NEW lg, NEW sub, LogCarries(lg, sub), NEW c \in Conns, NEW q \in Nat
    PROVE  Logged(lg, c, q) \subseteq 1 .. Len(sub[c][q + 1].keys)
BY DEF LogCarries, Accessed, Logged

\* From now on lengths stand for next_seq.
LEMMA GrownKept ==
    ASSUME TypeOK, SentByClients, SentByClients', NEW lg, NEW lg2,
           SameBelow(submitted, submitted', next_seq),
           \A c \in Conns : next_seq[c] <= next_seq'[c] /\ next_seq'[c] \in Nat,
           AllGrown(lg, lg2, submitted'), LogCarries(lg2, submitted')
    PROVE  KeptAll(lg, lg2, submitted, submitted')
<1> SUFFICES ASSUME NEW c \in Conns, NEW q \in Nat, q < Len(submitted[c])
             PROVE  /\ q < Len(submitted'[c]) /\ submitted'[c][q + 1] = submitted[c][q + 1]
                    /\ submitted[c][q + 1] \in AllCommands
                    /\ Kept(submitted[c][q + 1], Logged(lg, c, q), Met(lg, c, q),
                            Logged(lg2, c, q), Met(lg2, c, q))
  BY DEF KeptAll
<1>1. /\ Len(submitted[c]) = next_seq[c] /\ Len(submitted'[c]) = next_seq'[c]
      /\ next_seq[c] \in Nat /\ next_seq'[c] \in Nat /\ next_seq[c] <= next_seq'[c]
      /\ submitted[c] \in Seq(AllCommands)
  BY DEF TypeOK, SentByClients
<1>2. q < Len(submitted'[c]) /\ q + 1 \in 1 .. Len(submitted[c])
  BY <1>1
<1>3. submitted'[c][q + 1] = submitted[c][q + 1]
  BY <1>1 DEF SameBelow
<1>4. submitted[c][q + 1] \in AllCommands
  BY <1>1, <1>2, ElementOfSeq
<1>5. Grown(lg, lg2, c, q, submitted[c][q + 1])
  BY <1>3 DEF AllGrown
<1>6. Logged(lg2, c, q) \subseteq 1 .. Len(submitted[c][q + 1].keys)
  BY <1>3, LoggedRange
<1> QED
  BY <1>2, <1>3, <1>4, <1>5, <1>6 DEF Kept, Grown

LEMMA RepliesKept ==
    ASSUME NEW q \in Seq(SentReply), NEW c \in Conns, NEW lg, NEW lg2, NEW sub, NEW sub2,
           KeptAll(lg, lg2, sub, sub2), RepliesHold(q, c, sub, lg)
    PROVE  RepliesHold(q, c, sub2, lg2)
<1> SUFFICES ASSUME NEW i \in 1 .. Len(q)
             PROVE  /\ q[i].seq < Len(sub2[c])
                    /\ Replied(sub2[c][q[i].seq + 1], q[i].bytes,
                               Logged(lg2, c, q[i].seq), Met(lg2, c, q[i].seq))
  BY DEF RepliesHold
<1> DEFINE r == q[i]
<1>1. r \in SentReply
  BY ElementOfSeq
<1>2. r.seq \in Nat
  BY <1>1 DEF SentReply
<1>3. r.seq < Len(sub[c]) /\ Replied(sub[c][r.seq + 1], r.bytes, Logged(lg, c, r.seq), Met(lg, c, r.seq))
  BY DEF RepliesHold
<1> HIDE DEF r
<1>4. /\ r.seq < Len(sub2[c]) /\ sub2[c][r.seq + 1] = sub[c][r.seq + 1]
      /\ sub[c][r.seq + 1] \in AllCommands
      /\ Kept(sub[c][r.seq + 1], Logged(lg, c, r.seq), Met(lg, c, r.seq),
              Logged(lg2, c, r.seq), Met(lg2, c, r.seq))
  BY <1>2, <1>3 DEF KeptAll
<1>5. Replied(sub[c][r.seq + 1], r.bytes, Logged(lg2, c, r.seq), Met(lg2, c, r.seq))
  BY <1>3, <1>4, RepliedKept
<1>6. r.seq < Len(sub2[c]) /\ Replied(sub2[c][r.seq + 1], r.bytes,
                                      Logged(lg2, c, r.seq), Met(lg2, c, r.seq))
  BY <1>4, <1>5
<1> QED
  BY <1>6 DEF r

LEMMA SlotsKept ==
    ASSUME NEW pipe \in Seq(Slot), NEW c \in Conns, NEW lg, NEW lg2, NEW sub, NEW sub2,
           NEW lines, NEW lines2,
           KeptAll(lg, lg2, sub, sub2), SlotsHold(pipe, c, lines, sub, lg),
           \A i \in 1 .. Len(pipe) : Due(lines2, c, pipe[i].seq) = Due(lines, c, pipe[i].seq)
    PROVE  SlotsHold(pipe, c, lines2, sub2, lg2)
<1> SUFFICES ASSUME NEW i \in 1 .. Len(pipe)
             PROVE  /\ pipe[i].seq < Len(sub2[c])
                    /\ SlotHolds(pipe[i], sub2[c][pipe[i].seq + 1], Due(lines2, c, pipe[i].seq),
                                 Logged(lg2, c, pipe[i].seq), Met(lg2, c, pipe[i].seq))
  BY DEF SlotsHold
<1> DEFINE p == pipe[i]
<1>1. p \in Slot
  BY ElementOfSeq
<1>2. p.seq \in Nat
  BY <1>1 DEF Slot, SlotRecord
<1>3. /\ p.seq < Len(sub[c])
      /\ SlotHolds(p, sub[c][p.seq + 1], Due(lines2, c, p.seq),
                   Logged(lg, c, p.seq), Met(lg, c, p.seq))
  BY DEF SlotsHold
<1> HIDE DEF p
<1>4. /\ p.seq < Len(sub2[c]) /\ sub2[c][p.seq + 1] = sub[c][p.seq + 1]
      /\ sub[c][p.seq + 1] \in AllCommands
      /\ Kept(sub[c][p.seq + 1], Logged(lg, c, p.seq), Met(lg, c, p.seq),
              Logged(lg2, c, p.seq), Met(lg2, c, p.seq))
  BY <1>2, <1>3 DEF KeptAll
<1>5. SlotHolds(p, sub[c][p.seq + 1], Due(lines2, c, p.seq),
                Logged(lg2, c, p.seq), Met(lg2, c, p.seq))
  BY <1>3, <1>4, SlotHoldsKept
<1>6. /\ p.seq < Len(sub2[c])
      /\ SlotHolds(p, sub2[c][p.seq + 1], Due(lines2, c, p.seq),
                   Logged(lg2, c, p.seq), Met(lg2, c, p.seq))
  BY <1>4, <1>5
<1> QED
  BY <1>6 DEF p

LEMMA TasksReportKept ==
    ASSUME NEW lines, NEW lines2, NEW lg, NEW lg2, NEW sub, NEW sub2, NEW next,
           KeptAll(lg, lg2, sub, sub2), TasksCarry(lines, sub), TasksReport(lines, sub, lg),
           TasksBelow(lines, next), \A c \in Conns : Len(sub[c]) = next[c],
           \A t \in TasksIn(lines2) : t \in TasksIn(lines) \/ t.type # "done"
              \/ Reports(t, sub2[t.conn][t.seq + 1],
                         Logged(lg2, t.conn, t.seq), Met(lg2, t.conn, t.seq))
    PROVE  TasksReport(lines2, sub2, lg2)
<1> SUFFICES ASSUME NEW t \in TasksIn(lines2), t.type # "flush"
             PROVE  Reports(t, sub2[t.conn][t.seq + 1],
                            Logged(lg2, t.conn, t.seq), Met(lg2, t.conn, t.seq))
  BY DEF TasksReport
<1>1. CASE t \in TasksIn(lines)
  <2> DEFINE c == t.conn
             q == t.seq
  <2>1. c \in Conns /\ q \in Nat /\ q < Len(sub[c])
    BY <1>1 DEF TasksBelow
  <2>2. /\ Carries(t, sub[c][q + 1])
        /\ Reports(t, sub[c][q + 1], Logged(lg, c, q), Met(lg, c, q))
    BY <1>1 DEF TasksCarry, TasksReport
  <2> HIDE DEF c, q
  <2>3. /\ sub2[c][q + 1] = sub[c][q + 1] /\ sub[c][q + 1] \in AllCommands
        /\ Kept(sub[c][q + 1], Logged(lg, c, q), Met(lg, c, q), Logged(lg2, c, q), Met(lg2, c, q))
    BY <2>1 DEF KeptAll
  <2>4. Reports(t, sub2[c][q + 1], Logged(lg2, c, q), Met(lg2, c, q))
    BY <2>2, <2>3, ReportsKept
  <2> QED
    BY <2>4 DEF c, q
<1>2. CASE t.type # "done"
  BY <1>2 DEF Reports
<1> QED
  BY <1>1, <1>2

-----------------------------------------------------------------------------
(* complete_fragment() and assemble() answer as the whole command does.    *)

\* How many of a part's one key were there.
One(met, k) == IF met[k] # NoKey THEN 1 ELSE 0

\* What a DEL or EXISTS of one key counts.
LEMMA SubCount ==
    ASSUME NEW cmd \in AllCommands, Routed(cmd), Clean(cmd), IsIntCmd(cmd),
           NEW i \in Parts(cmd), NEW met
    PROVE  /\ Answer(PartOf(cmd, i), met) = Num(One(met, cmd.keys[i]))
           /\ ParseRespInteger(Answer(PartOf(cmd, i), met)) = One(met, cmd.keys[i])
<1> DEFINE k == cmd.keys[i]
           sub == SubCommand(cmd, i)
<1>1. SpansShards(cmd) /\ IsIntKind(SlotKind(cmd)) /\ PartOf(cmd, i) = sub
      /\ i \in 1 .. Len(cmd.keys) /\ cmd.op \in {"del", "exists"}
  BY DEF IsIntCmd, PartOf, Parts, Routed, Clean, Decomposable, ManyKeyOps, IsIntKind, SlotKind
<1>2. sub.keys = <<k>> /\ sub.op = cmd.op
  BY <1>1 DEF SubCommand, SlotKind, Command
<1>3. KeysOf(sub) = {k}
  BY <1>1, SubCommandType DEF Clean
<1> HIDE DEF sub, k
<1>4. Answer(sub, met) = Num(One(met, k))
  <2>1. CASE cmd.op = "del"
    <3>1. Answer(sub, met) = Num(Cardinality({j \in {k} : met[j] # NoKey}))
      BY <1>2, <1>3, <2>1 DEF Answer, WholePairs, DelAnswer
    <3>2. CASE met[k] # NoKey
      <4>1. {j \in {k} : met[j] # NoKey} = {k}
        BY <3>2
      <4> QED
        BY <3>1, <3>2, <4>1, FS_Singleton DEF One
    <3>3. CASE met[k] = NoKey
      <4>1. {j \in {k} : met[j] # NoKey} = {}
        BY <3>3
      <4> QED
        BY <3>1, <3>3, <4>1, FS_EmptySet DEF One
    <3> QED
      BY <3>2, <3>3
  <2>2. CASE cmd.op = "exists"
    <3>1. Answer(sub, met) = Num(Cardinality({j \in 1 .. Len(<<k>>) : met[(<<k>>)[j]] # NoKey}))
      BY <1>2, <2>2 DEF Answer, WholePairs, ExistsAnswer
    <3>2. 1 .. Len(<<k>>) = {1} /\ (<<k>>)[1] = k
      OBVIOUS
    <3>3. CASE met[k] # NoKey
      <4>1. {j \in 1 .. Len(<<k>>) : met[(<<k>>)[j]] # NoKey} = {1}
        BY <3>2, <3>3
      <4> QED
        BY <3>1, <3>3, <4>1, FS_Singleton DEF One
    <3>4. CASE met[k] = NoKey
      <4>1. {j \in 1 .. Len(<<k>>) : met[(<<k>>)[j]] # NoKey} = {}
        BY <3>2, <3>4
      <4> QED
        BY <3>1, <3>4, <4>1, FS_EmptySet DEF One
    <3> QED
      BY <3>3, <3>4
  <2> QED
    BY <1>1, <2>1, <2>2
<1>5. ParseRespInteger(Num(One(met, k))) = One(met, k)
  <2>1. PICK v : v = One(met, k)
    OBVIOUS
  <2>2. ParseRespInteger(Num(v)) = v
    BY DEF ParseRespInteger, Num
  <2> QED
    BY <2>1, <2>2
<1> QED
  BY <1>1, <1>4, <1>5 DEF k

\* The slot after a completion, before it is assembled.
Got(p, t) ==
    IF t.is_int THEN [p EXCEPT !.accum = @ + t.val, !.remaining = @ - 1]
    ELSE [p EXCEPT !.frags[t.index] = t.reply, !.remaining = @ - 1]

LEMMA GotFields ==
    ASSUME NEW p \in Slot, NEW t \in Done
    PROVE  /\ Got(p, t).kind = p.kind /\ Got(p, t).seq = p.seq /\ Got(p, t).ready = p.ready
           /\ Got(p, t).remaining = p.remaining - 1
           /\ t.is_int => Got(p, t).accum = p.accum + t.val /\ Got(p, t).frags = p.frags
           /\ ~t.is_int => /\ Got(p, t).accum = p.accum
                           /\ Got(p, t).frags = [p.frags EXCEPT ![t.index] = t.reply]
           /\ {"ready", "bytes", "kind", "accum", "frags", "seq"} \subseteq DOMAIN Got(p, t)
<1> DEFINE f == [p.frags EXCEPT ![t.index] = t.reply]
           a == p.accum + t.val
           r == p.remaining - 1
<1>0. p \in SlotRecord
  BY DEF Slot
<1>1. CASE t.is_int
  <2>1. Got(p, t) = [p EXCEPT !.accum = a, !.remaining = r]
    BY <1>1, Zenon DEF Got
  <2> HIDE DEF f, a, r
  <2>2. /\ Got(p, t).kind = p.kind /\ Got(p, t).seq = p.seq /\ Got(p, t).ready = p.ready
        /\ Got(p, t).remaining = r /\ Got(p, t).accum = a /\ Got(p, t).frags = p.frags
        /\ {"ready", "bytes", "kind", "accum", "frags", "seq"} \subseteq DOMAIN Got(p, t)
    BY <2>1, <1>0 DEF SlotRecord
  <2> QED
    BY <1>1, <2>2 DEF a, r
<1>2. CASE ~t.is_int
  <2>1. Got(p, t) = [p EXCEPT !.frags = f, !.remaining = r]
    BY <1>2, Zenon DEF Got
  <2> HIDE DEF f, a, r
  <2>2. /\ Got(p, t).kind = p.kind /\ Got(p, t).seq = p.seq /\ Got(p, t).ready = p.ready
        /\ Got(p, t).remaining = r /\ Got(p, t).accum = p.accum /\ Got(p, t).frags = f
        /\ {"ready", "bytes", "kind", "accum", "frags", "seq"} \subseteq DOMAIN Got(p, t)
    BY <2>1, <1>0 DEF SlotRecord
  <2> QED
    BY <1>2, <2>2 DEF f, r
<1> QED
  BY <1>1, <1>2

LEMMA PartsFinite ==
    ASSUME NEW cmd \in AllCommands, NEW S, S \subseteq Parts(cmd)
    PROVE  IsFiniteSet(S) /\ Cardinality(S) \in Nat
<1>1. IsFiniteSet(Parts(cmd))
  <2>1. IsFiniteSet({1})
    BY FS_Singleton
  <2>2. IsFiniteSet(1 .. Len(cmd.keys))
    BY CommandKeys, FS_Interval
  <2> QED
    BY <2>1, <2>2 DEF Parts
<1> QED
  BY <1>1, FS_Subset, FS_CardinalityType

\* One completion more is collected.
LEMMA GotCollects ==
    ASSUME NEW cmd \in AllCommands, Clean(cmd), NEW p \in Slot, NEW t \in Done,
           Carries(t, cmd), NEW logged, NEW met, Reports(t, cmd, logged, met),
           NEW due, t.index \in due, Collects(p, cmd, due, logged, met)
    PROVE  Collects(Got(p, t), cmd, due \ {t.index}, logged, met)
<1> DEFINE i == t.index
           back == Parts(cmd) \ due
           now == Parts(cmd) \ (due \ {i})
           g == Got(p, t)
<1>1. Routed(cmd) /\ i \in Parts(cmd) /\ t.is_int = IsIntCmd(cmd) /\ t.type = "done"
      /\ t.val = IF t.is_int THEN ParseRespInteger(t.reply) ELSE 0
  BY DEF Carries, Done
<1>2. IndicesOf(cmd, i) \subseteq logged /\ t.reply = Answer(PartOf(cmd, i), met)
  BY <1>1 DEF Reports
<1>3. now = back \cup {i} /\ i \notin back
  BY <1>1
<1>4. /\ p.kind = KindOf(cmd) /\ \A j \in back : IndicesOf(cmd, j) \subseteq logged
      /\ IsIntCmd(cmd) => p.accum = Cardinality({j \in back : met[cmd.keys[j]] # NoKey})
      /\ ~IsIntCmd(cmd) => /\ Parts(cmd) = 1 .. Len(p.frags)
                           /\ \A j \in back : p.frags[j] = Answer(PartOf(cmd, j), met)
  BY <1>1 DEF Collects
<1>5. /\ g.kind = p.kind
      /\ t.is_int => g.accum = p.accum + t.val
      /\ ~t.is_int => g.frags = [p.frags EXCEPT ![i] = t.reply]
  BY GotFields
<1>6. p.frags \in Seq(HandlerReply)
  BY DEF Slot, SlotRecord
<1> HIDE DEF g
<1>7. \A j \in now : IndicesOf(cmd, j) \subseteq logged
  BY <1>2, <1>3, <1>4
<1>8. ASSUME IsIntCmd(cmd)
      PROVE  g.accum = Cardinality({j \in now : met[cmd.keys[j]] # NoKey})
  <2> DEFINE B == {j \in back : met[cmd.keys[j]] # NoKey}
             N == {j \in now : met[cmd.keys[j]] # NoKey}
  <2>1. t.val = One(met, cmd.keys[i])
    BY <1>1, <1>2, <1>8, SubCount
  <2>2. g.accum = Cardinality(B) + One(met, cmd.keys[i])
    BY <1>1, <1>4, <1>5, <1>8, <2>1
  <2>3. IsFiniteSet(B) /\ Cardinality(B) \in Nat
    BY PartsFinite
  <2>4. CASE met[cmd.keys[i]] # NoKey
    <3>1. N = B \cup {i} /\ i \notin B
      BY <1>3, <2>4
    <3>2. Cardinality(N) = Cardinality(B) + 1
      <4> HIDE DEF N, B, i
      <4> QED
        BY <2>3, <3>1, FS_AddElement
    <3> QED
      BY <2>2, <2>4, <3>2 DEF One
  <2>5. CASE met[cmd.keys[i]] = NoKey
    <3>1. N = B
      BY <1>3, <2>5
    <3> HIDE DEF N, B
    <3> QED
      BY <2>2, <2>3, <2>5, <3>1 DEF One, N
  <2> QED
    BY <2>4, <2>5
<1>9. ASSUME ~IsIntCmd(cmd)
      PROVE  /\ Parts(cmd) = 1 .. Len(g.frags)
             /\ \A j \in now : g.frags[j] = Answer(PartOf(cmd, j), met)
  <2>1. g.frags = [p.frags EXCEPT ![i] = t.reply] /\ i \in 1 .. Len(p.frags)
    BY <1>1, <1>4, <1>5, <1>9
  <2>2. Len(g.frags) = Len(p.frags) /\ g.frags[i] = t.reply
        /\ \A j \in 1 .. Len(p.frags) : j # i => g.frags[j] = p.frags[j]
    BY <1>6, <2>1, LenProperties
  <2>3. \A j \in back : j \in 1 .. Len(p.frags) /\ j # i
    BY <1>3, <1>4, <1>9
  <2> QED
    BY <1>2, <1>3, <1>4, <1>9, <2>2, <2>3
<1> HIDE DEF now
<1>10. g.kind = KindOf(cmd)
  BY <1>4, <1>5
<1>11. Collects(g, cmd, due \ {i}, logged, met)
  BY <1>7, <1>8, <1>9, <1>10 DEF Collects, now
<1> QED
  BY <1>11 DEF g

\* assemble() makes of the parts' replies what the whole command answers.
LEMMA Assembled ==
    ASSUME NEW cmd \in AllCommands, Routed(cmd), Clean(cmd), NEW g, NEW logged, NEW met \in Db,
           Collects(g, cmd, {}, logged, met), g.frags \in Seq(HandlerReply),
           SpansShards(cmd) /\ cmd.op = "mget" => \A k \in KeysOf(cmd) : met[k] # SetObj
    PROVE  /\ Assemble(g) = Answer(cmd, met)
           /\ 1 .. Len(cmd.keys) \subseteq logged
<1> DEFINE n == Len(cmd.keys)
<1>1. /\ g.kind = KindOf(cmd)
      /\ \A i \in Parts(cmd) : IndicesOf(cmd, i) \subseteq logged
      /\ IsIntCmd(cmd) => g.accum = Cardinality({i \in Parts(cmd) : met[cmd.keys[i]] # NoKey})
      /\ ~IsIntCmd(cmd) => /\ Parts(cmd) = 1 .. Len(g.frags)
                           /\ \A i \in Parts(cmd) : g.frags[i] = Answer(PartOf(cmd, i), met)
  BY DEF Collects
<1>2. 1 .. n \subseteq logged
  BY <1>1, PartAt
<1>3. CASE ~SpansShards(cmd)
  <2>1. g.kind = "Single" /\ 1 \in Parts(cmd) /\ PartOf(cmd, 1) = cmd /\ ~IsIntCmd(cmd)
    BY <1>1, <1>3 DEF KindOf, Parts, PartOf, IsIntCmd
  <2>2. g.frags[1] = Answer(cmd, met)
    BY <1>1, <2>1
  <2> QED
    BY <1>2, <2>1, <2>2 DEF Assemble
<1>4. CASE SpansShards(cmd)
  <2>1. /\ cmd.op \in {"mget", "mset", "del", "exists"} /\ g.kind = SlotKind(cmd)
        /\ Parts(cmd) = 1 .. n /\ n \in Nat /\ IsIntCmd(cmd) = IsIntKind(SlotKind(cmd))
    BY <1>1, <1>4, CommandKeys
       DEF Routed, Clean, Decomposable, ManyKeyOps, KindOf, Parts, IsIntCmd, IsIntKind
  <2>2. CASE cmd.op = "mget"
    <3>1. g.kind = "MGet" /\ ~IsIntCmd(cmd)
      BY <2>1, <2>2 DEF SlotKind, IsIntKind
    <3> DEFINE e(i) == LET o == met[cmd.keys[i]]
                       IN  IF o \in {NoKey, SetObj} THEN Null ELSE Bulk(o[2])
    <3>2. ASSUME NEW i \in 1 .. n PROVE g.frags[i] = e(i)
      <4>1. PartOf(cmd, i) = Command("get", <<cmd.keys[i]>>, <<>>)
        BY <1>4, <2>2 DEF PartOf, SubCommand, SlotKind
      <4>2. PartOf(cmd, i).op = "get" /\ PartOf(cmd, i).keys[1] = cmd.keys[i]
        BY <4>1 DEF Command
      <4>3. g.frags[i] = GetAnswer(PartOf(cmd, i), met)
        BY <1>1, <2>1, <3>1, <4>2 DEF Answer, WholePairs
      <4>4. met[cmd.keys[i]] # SetObj
        BY <1>4, <2>2 DEF KeysOf
      <4> QED
        BY <4>2, <4>3, <4>4 DEF GetAnswer
    <3>3. g.frags = [i \in 1 .. n |-> e(i)]
      <4>1. 1 .. Len(g.frags) = 1 .. n
        BY <1>1, <2>1, <3>1
      <4>2. g.frags \in [1 .. n -> HandlerReply]
        BY <4>1, LenProperties
      <4> HIDE DEF e
      <4> QED
        BY <3>2, <4>2
    <3>4. MgetAnswer(cmd, met) = Array([i \in 1 .. n |-> e(i)])
      BY DEF MgetAnswer
    <3> HIDE DEF e, n
    <3>5. Assemble(g) = Array(g.frags)
      BY <3>1 DEF Assemble
    <3>6. Answer(cmd, met) = MgetAnswer(cmd, met)
      BY <2>2 DEF Answer, WholePairs
    <3> QED
      BY <1>2, <3>3, <3>4, <3>5, <3>6 DEF n
  <2>3. CASE cmd.op = "mset"
    <3>1. g.kind = "MSet"
      BY <2>1, <2>3 DEF SlotKind
    <3> QED
      BY <1>2, <1>4, <2>3, <3>1 DEF Assemble, Answer, Clean
  <2>4. CASE cmd.op \in {"del", "exists"}
    <3> DEFINE S == {i \in 1 .. n : met[cmd.keys[i]] # NoKey}
               T == {k \in KeysOf(cmd) : met[k] # NoKey}
    <3>1. g.kind \in {"DelCount", "ExistsCount"} /\ IsIntCmd(cmd)
      BY <2>1, <2>4 DEF SlotKind, IsIntKind
    <3>2. Assemble(g) = Num(Cardinality(S))
      <4>1. g.accum = Cardinality(S)
        BY <1>1, <2>1, <3>1
      <4> HIDE DEF S
      <4> QED
        BY <3>1, <4>1 DEF Assemble
    <3>3. CASE cmd.op = "exists"
      <4>1. Answer(cmd, met) = Num(Cardinality(S))
        BY <3>3 DEF Answer, WholePairs, ExistsAnswer
      <4> QED
        BY <1>2, <3>2, <4>1
    <3>4. CASE cmd.op = "del"
      <4>1. Answer(cmd, met) = Num(Cardinality(T))
        BY <3>4 DEF Answer, WholePairs, DelAnswer
      <4>2. Cardinality(S) = Cardinality(T)
        <5> DEFINE f == [i \in S |-> cmd.keys[i]]
        <5>1. \A i, j \in 1 .. n : cmd.keys[i] = cmd.keys[j] => i = j
          BY <1>4 DEF Clean
        <5>2. f \in Bijection(S, T)
          <6>1. \A i \in S : f[i] \in T
            BY DEF KeysOf
          <6>2. \A k \in T : \E i \in S : f[i] = k
            BY DEF KeysOf
          <6>3. \A i, j \in S : f[i] = f[j] => i = j
            BY <5>1
          <6>4. f \in [S -> T]
            BY <6>1
          <6> HIDE DEF f, S, T
          <6> QED
            BY <6>2, <6>3, <6>4 DEF Bijection, Injection, Surjection, IsInjective
        <5>3. IsFiniteSet(S)
          BY <2>1, PartsFinite
        <5> HIDE DEF f, S, T
        <5>4. ExistsBijection(S, T)
          BY <5>2 DEF ExistsBijection
        <5> QED
          BY <5>3, <5>4, FS_Bijection
      <4> QED
        BY <1>2, <3>2, <4>1, <4>2
    <3> QED
      BY <2>4, <3>3, <3>4
  <2> QED
    BY <2>1, <2>2, <2>3, <2>4
<1> QED
  BY <1>3, <1>4

\* The slot of a completion after complete_fragment(): its reply, when it was the
\* last one that was due.
LEMMA CompleteHolds ==
    ASSUME NEW cmd \in AllCommands, Clean(cmd), NEW p \in Slot, NEW t \in Done,
           Carries(t, cmd), NEW logged, NEW met \in Db, logged \subseteq 1 .. Len(cmd.keys),
           Reports(t, cmd, logged, met),
           NEW due, t.index \in due, ~p.ready, SlotHolds(p, cmd, due, logged, met),
           p.remaining = 1 => due = {t.index},
           SpansShards(cmd) /\ cmd.op = "mget" => \A k \in KeysOf(cmd) : met[k] # SetObj
    PROVE  SlotHolds(CompleteSlot(p, t), cmd, due \ {t.index}, logged, met)
<1> DEFINE g == Got(p, t)
           now == due \ {t.index}
<1>1. Collects(g, cmd, now, logged, met)
  BY GotCollects DEF SlotHolds
<1>2. CompleteSlot(p, t) = IF g.remaining = 0
                           THEN [g EXCEPT !.bytes = Assemble(g), !.ready = TRUE]
                           ELSE g
  BY DEF CompleteSlot, Got
<1>3. /\ g.ready = p.ready /\ g.remaining = p.remaining - 1 /\ p.remaining \in Int
      /\ {"ready", "bytes"} \subseteq DOMAIN g
      /\ g.frags = p.frags \/ g.frags = [p.frags EXCEPT ![t.index] = t.reply]
  BY GotFields DEF Slot, SlotRecord
<1>4. g.frags \in Seq(HandlerReply)
  <2>1. p.frags \in Seq(HandlerReply) /\ t.reply \in HandlerReply
    BY DEF Slot, SlotRecord, Done
  <2>2. [p.frags EXCEPT ![t.index] = t.reply] \in Seq(HandlerReply)
    <3>1. CASE t.index \in 1 .. Len(p.frags)
      BY <2>1, <3>1, ExceptSeq
    <3>2. CASE t.index \notin 1 .. Len(p.frags)
      <4>1. [p.frags EXCEPT ![t.index] = t.reply] = p.frags
        BY <2>1, <3>2, LenProperties
      <4> QED
        BY <2>1, <4>1
    <3> QED
      BY <3>1, <3>2
  <2> QED
    BY <1>3, <2>1, <2>2
<1> HIDE DEF g
<1>5. CASE g.remaining # 0
  <2>1. CompleteSlot(p, t) = g
    BY <1>2, <1>5
  <2> QED
    BY <1>1, <1>3, <2>1 DEF SlotHolds
<1>6. CASE g.remaining = 0
  <2>1. now = {}
    BY <1>3, <1>6
  <2>2. Routed(cmd)
    BY DEF Carries
  <2>3. Assemble(g) = Answer(cmd, met) /\ logged = 1 .. Len(cmd.keys)
    BY <1>1, <1>4, <2>1, <2>2, Assembled
  <2>4. CompleteSlot(p, t) = [g EXCEPT !.bytes = Assemble(g), !.ready = TRUE]
    BY <1>2, <1>6
  <2>5. CompleteSlot(p, t).ready /\ CompleteSlot(p, t).bytes = Assemble(g)
    BY <1>3, <2>4
  <2> QED
    BY <2>3, <2>5 DEF SlotHolds, Replied
<1> QED
  BY <1>5, <1>6

-----------------------------------------------------------------------------
(* No client stores a set: none is ever stored.                            *)

NoSets(d) == \A k \in Keys : d[k] # SetObj

LEMMA EffectStrings ==
    ASSUME NEW cmd \in AllCommands, cmd.op # "sadd", NEW d \in Db, NoSets(d)
    PROVE  NoSets(Effect(cmd, d))
<1> SUFFICES ASSUME NEW k \in Keys PROVE Effect(cmd, d)[k] # SetObj
  BY DEF NoSets
<1>0. (\A v : Str(v) # SetObj) /\ NoKey # SetObj /\ d[k] # SetObj
  BY DEF NoSets, Str, SetObj, NoKey
<1>1. CASE cmd.op \in {"set", "mset"}
  <2>1. CASE WholePairs(cmd)
    <3>1. Effect(cmd, d)[k]
            = IF k \in KeysOf(cmd) THEN Str(cmd.vals[LastIndex(cmd.keys, k)]) ELSE d[k]
      BY <1>1, <2>1 DEF Effect, SetEffect
    <3> QED
      BY <1>0, <3>1
  <2>2. CASE ~WholePairs(cmd)
    BY <1>0, <1>1, <2>2 DEF Effect
  <2> QED
    BY <2>1, <2>2
<1>2. CASE cmd.op = "del"
  BY <1>0, <1>2 DEF Effect, DelEffect
<1>3. CASE cmd.op = "rename"
  <2> DEFINE src == cmd.keys[1]
             dst == cmd.keys[2]
  <2>1. src \in Keys
    BY <1>3, CommandKeys
  <2>2. d[src] # SetObj
    BY <2>1 DEF NoSets
  <2>3. Effect(cmd, d)[k] \in {d[k], d[src], NoKey}
    BY <1>3 DEF Effect, RenameEffect
  <2> QED
    BY <1>0, <2>2, <2>3
<1>4. CASE cmd.op \notin {"set", "mset", "del", "rename"}
  BY <1>0, <1>4 DEF Effect
<1> QED
  BY <1>1, <1>2, <1>3, <1>4

StringLog(lg) == \A s \in Shards : \A i \in 1 .. Len(lg[s]) : lg[s][i].before # SetObj

\* One execution on a database without sets.
LEMMA ExecStrings ==
    ASSUME TypeOK, NEW s \in Shards, NEW c \in Conns, NEW q \in Nat, NEW i \in Nat \ {0},
           NEW cmd \in AllCommands, cmd.op # "sadd",
           \A r \in Shards : NoSets(db[r]), StringLog(log),
           db' = [db EXCEPT ![s] = Effect(cmd, @)],
           log' = [log EXCEPT ![s] = @ \o Accesses(c, q, i, cmd, db[s])]
    PROVE  (\A r \in Shards : NoSets(db'[r])) /\ StringLog(log')
<1>1. PICK d \in Db : d = db[s]
  BY DEF TypeOK
<1> DEFINE acc == Accesses(c, q, i, cmd, d)
<1>2. db'[s] = Effect(cmd, d) /\ \A r \in Shards \ {s} : db'[r] = db[r]
  BY <1>1 DEF TypeOK
<1>3. NoSets(d) /\ NoSets(Effect(cmd, d))
  BY <1>1, EffectStrings
<1>4. AreAccesses(acc, c, q, i, cmd, d)
  BY AccessFields
<1> HIDE DEF acc
<1>5. acc \in Seq(Access) /\ \A m \in 1 .. Len(acc) : acc[m].before # SetObj
  <2>1. acc \in Seq(Access) /\ \A m \in 1 .. Len(acc) : acc[m].before = d[acc[m].key] /\ acc[m] \in Access
    BY <1>4 DEF AreAccesses
  <2> QED
    BY <1>3, <2>1 DEF NoSets, Access
<1>6. log' = [log EXCEPT ![s] = @ \o acc]
  BY <1>1 DEF acc
<1>7. Extends(log, log', s, acc)
  BY <1>5, <1>6, LogGrows
<1>8. StringLog(log')
  <2>1. ASSUME NEW r \in Shards, NEW j \in 1 .. Len(log'[r]) PROVE log'[r][j].before # SetObj
    <3>1. CASE j \in 1 .. Len(log[r])
      <4>1. log'[r][j] = log[r][j]
        BY <1>7, <3>1 DEF Extends
      <4> QED
        BY <3>1, <4>1 DEF StringLog
    <3>2. CASE j \notin 1 .. Len(log[r])
      <4>1. r = s /\ j - Len(log[s]) \in 1 .. Len(acc) /\ log'[s][j] = acc[j - Len(log[s])]
        BY <1>7, <3>2 DEF Extends
      <4> QED
        BY <1>5, <4>1
    <3> QED
      BY <3>1, <3>2
  <2> QED
    BY <2>1 DEF StringLog
<1> QED
  BY <1>2, <1>3, <1>8

LEMMA StringParts ==
    ASSUME NEW cmd \in AllCommands, cmd.op # "sadd", NEW i
    PROVE  PartOf(cmd, i).op # "sadd"
BY DEF PartOf, SubCommand, SlotKind, Command

\* A database that is only ever cleared or left alone.
LEMMA ClearStrings ==
    ASSUME TypeOK, \A r \in Shards : NoSets(db[r]), NEW s \in Shards,
           db' = db \/ db' = [db EXCEPT ![s] = EmptyDb]
    PROVE  \A r \in Shards : NoSets(db'[r])
<1>1. NoKey # SetObj
  BY DEF NoKey, SetObj
<1>2. NoSets(EmptyDb)
  BY <1>1 DEF NoSets, EmptyDb
<1> QED
  BY <1>2 DEF TypeOK

LEMMA StepStrings ==
    ASSUME OnlyStrings, ShardInvariant, TypeOK', FlowInvariant, FaithOfTasks, StringsStored, Next
    PROVE  StringsStored'
<1> SUFFICES ASSUME SplitsMget
             PROVE  (\A r \in Shards : NoSets(db'[r])) /\ StringLog(log')
  BY DEF StringsStored, NoSets, StringLog
<1>0. /\ TypeOK /\ SentByClients /\ TasksCarry(Lines, submitted)
      /\ AllNumbered(Lines, next_seq) /\ Lines \in AllLines
      /\ (\A r \in Shards : NoSets(db[r])) /\ StringLog(log)
      /\ \A c \in Conns : \A cmd \in Requests[c] : cmd.op # "sadd"
  BY HistoryType DEF ShardInvariant, FlowInvariant, FaithOfTasks, StringsStored, NoSets,
     StringLog, OnlyStrings
<1>1. ASSUME log' = log, NEW s \in Shards, db' = db \/ db' = [db EXCEPT ![s] = EmptyDb]
      PROVE  (\A r \in Shards : NoSets(db'[r])) /\ StringLog(log')
  BY <1>0, <1>1, ClearStrings
<1>2. ASSUME NEW c \in Conns,
             Accept(c) \/ HandleReadable(c) \/ HandleWritable(c) \/ HandleError(c)
      PROVE  (\A r \in Shards : NoSets(db'[r])) /\ StringLog(log')
  <2>1. log' = log /\ db' = db
    BY <1>2 DEF Accept, HandleReadable, HandleWritable, HandleError
  <2> QED
    BY <1>0, <2>1
<1>3. ASSUME NEW s \in Shards, NEW c \in Conns, FinishReadable(s, c)
      PROVE  (\A r \in Shards : NoSets(db'[r])) /\ StringLog(log')
  BY <1>1, <1>3 DEF FinishReadable
<1>4. ASSUME NEW s \in Shards, NEW c \in Conns, Dispatch(s, c)
      PROVE  (\A r \in Shards : NoSets(db'[r])) /\ StringLog(log')
  <2>1. CASE DispatchLocal(s, c)
    <3>0. PICK cmd, n : cmd = Head(in[c]) /\ n = next_seq[c]
      OBVIOUS
    <3>1. /\ in[c] # <<>> /\ db' = [db EXCEPT ![s] = Effect(cmd, @)]
          /\ log' = [log EXCEPT ![s] = @ \o Accesses(c, n, 1, cmd, db[s])]
      BY <2>1, <3>0 DEF DispatchLocal, Dispatching, Parsing
    <3>2. in[c] \in Seq(AllCommands) /\ n \in Nat
      BY <1>0, <3>0 DEF TypeOK
    <3>3. cmd \in AllCommands /\ Len(in[c]) \in Nat \ {0} /\ cmd = in[c][1]
      BY <3>0, <3>1, <3>2, HeadTailProperties, EmptySeq, LenProperties
    <3>4. cmd.op # "sadd"
      BY <1>0, <3>3 DEF SentByClients
    <3>5. 1 \in Nat \ {0} /\ TypeOK /\ (\A r \in Shards : NoSets(db[r])) /\ StringLog(log)
      BY <1>0
    <3>6. cmd \in AllCommands
      BY <3>3
    <3>7. n \in Nat
      BY <3>2
    <3>8. db' = [db EXCEPT ![s] = Effect(cmd, @)]
      BY <3>1
    <3>9. log' = [log EXCEPT ![s] = @ \o Accesses(c, n, 1, cmd, db[s])]
      BY <3>1
    <3> QED
      BY <3>4, <3>5, <3>6, <3>7, <3>8, <3>9, ExecStrings
  <2>2. CASE ~DispatchLocal(s, c)
    BY <1>1, <1>4, <2>2 DEF Dispatch, ProtocolError, DispatchKeyless, DispatchFlushall,
       DispatchForward, DispatchMultikey, DispatchCrossslot, Dispatching
  <2> QED
    BY <2>1, <2>2
<1>5. ASSUME NEW s \in Shards, Post(s) \/ Drain(s) \/ RunFlush(s) \/ RunDone(s) \/ DropDone(s)
      PROVE  (\A r \in Shards : NoSets(db'[r])) /\ StringLog(log')
  BY <1>1, <1>5 DEF Post, Drain, RunFlush, RunDone, DropDone
<1>6. ASSUME NEW s \in Shards, RunExec(s)
      PROVE  (\A r \in Shards : NoSets(db'[r])) /\ StringLog(log')
  <2>1. PICK t \in Exec : t = Head(batch[s]) /\ Inbox(s) # <<>> /\ Head(Inbox(s)) = t
    BY <1>0, <1>6, ExecLines
  <2>2. /\ db' = [db EXCEPT ![s] = Effect(t.cmd, @)]
        /\ log' = [log EXCEPT ![s] = @ \o Accesses(t.conn, t.seq, t.index, t.cmd, db[s])]
    BY <1>6, <2>1 DEF RunExec
  <2>3. t \in TasksIn(Lines)
    <3>1. Lines[<<"inbox", s>>] = Inbox(s) /\ <<"inbox", s>> \in Places
      BY <1>0, LinesType, ShardPlaces DEF LinesShape
    <3> QED
      BY <1>0, <2>1, <3>1, HeadIn
  <2>4. /\ t.conn \in Conns /\ t.seq \in Nat /\ t.index \in Nat \ {0} /\ t.cmd \in AllCommands
        /\ t.type = "exec"
    BY <2>1 DEF Exec
  <2>5. PICK cmd : cmd = submitted[t.conn][t.seq + 1]
    OBVIOUS
  <2>6. Carries(t, cmd) /\ t.seq < next_seq[t.conn]
    <3>1. TasksBelow(Lines, next_seq)
      BY <1>0, TasksNumbered
    <3> QED
      BY <1>0, <2>3, <2>4, <2>5, <3>1 DEF TasksCarry, TasksBelow
  <2>7. cmd \in AllCommands /\ cmd.op # "sadd"
    <3>0. PICK c \in Conns, q \in Nat : c = t.conn /\ q = t.seq
      BY <2>4
    <3>1. q < next_seq[c] /\ next_seq[c] \in Nat /\ Len(submitted[c]) = next_seq[c]
      BY <1>0, <2>6, <3>0 DEF SentByClients, TypeOK
    <3>2. cmd \in Requests[t.conn]
      <4>1. q + 1 \in 1 .. Len(submitted[c])
        BY <3>1
      <4> QED
        BY <1>0, <2>5, <3>0, <4>1 DEF SentByClients
    <3> QED
      BY <1>0, <2>4, <3>2, ShardAssumption DEF ShardAssumption
  <2>8. t.cmd.op # "sadd"
    BY <2>4, <2>6, <2>7, StringParts DEF Carries
  <2> QED
    BY <1>0, <2>2, <2>4, <2>8, ExecStrings
<1> QED
  BY <1>2, <1>3, <1>4, <1>5, <1>6 DEF Next, RunTask

\* The values that a command met are not sets either.
LEMMA MetStrings ==
    ASSUME TypeOK, StringsStored, SplitsMget, NEW c, NEW q, NEW k \in Keys
    PROVE  Met(log, c, q)[k] # SetObj
<1>1. CASE \E e \in EntriesIn(log, c, q) : e.key = k
  <2>1. PICK e \in EntriesIn(log, c, q) : e.key = k /\ Met(log, c, q)[k] = e.before
    BY <1>1, MetIs
  <2>2. PICK s \in Shards : \E i \in 1 .. Len(log[s]) : e = log[s][i]
    BY EntryIn
  <2> QED
    BY <2>1, <2>2 DEF StringsStored
<1>2. CASE ~\E e \in EntriesIn(log, c, q) : e.key = k
  <2>1. Met(log, c, q)[k] = NoKey
    BY <1>2 DEF Met
  <2>2. NoKey # SetObj
    BY DEF NoKey, SetObj
  <2> QED
    BY <2>1, <2>2
<1> QED
  BY <1>1, <1>2

-----------------------------------------------------------------------------
(* Slots, outputs and what was delivered keep to what was executed.        *)

LEMMA ServesHold ==
    ASSUME NEW c \in Conns, NEW p, Serves(c, p), NEW lines, NEW sub, NEW lg,
           SlotsHold(p, c, lines, sub, lg), RepliesHold(out[c], c, sub, lg),
           RepliesHold(delivered[c], c, sub, lg)
    PROVE  /\ SlotsHold(pipeline'[c], c, lines, sub, lg)
           /\ RepliesHold(out'[c], c, sub, lg)
           /\ RepliesHold(delivered'[c], c, sub, lg)
<1> DEFINE HoldsTrue(r) == /\ r.seq < Len(sub[c])
                           /\ Replied(sub[c][r.seq + 1], r.bytes, Logged(lg, c, r.seq),
                                      Met(lg, c, r.seq))
<1>1. /\ \A i \in 1 .. Len(pipeline'[c]) : Within(pipeline'[c][i], p)
      /\ \A i \in 1 .. Len(out'[c]) : Within(out'[c][i], out[c]) \/ FromSlot(out'[c][i], p)
      /\ \A i \in 1 .. Len(delivered'[c]) : \/ Within(delivered'[c][i], delivered[c])
                                            \/ Within(delivered'[c][i], out[c])
                                            \/ FromSlot(delivered'[c][i], p)
  BY DEF Serves
<1>2. ASSUME NEW r, Within(r, out[c]) \/ Within(r, delivered[c]) PROVE HoldsTrue(r)
  BY <1>2 DEF Within, RepliesHold
<1>3. ASSUME NEW r, FromSlot(r, p) PROVE HoldsTrue(r)
  <2>1. PICK j \in 1 .. Len(p) : p[j].ready /\ r.seq = p[j].seq /\ r.bytes = p[j].bytes
    BY <1>3 DEF FromSlot
  <2>2. /\ p[j].seq < Len(sub[c])
        /\ SlotHolds(p[j], sub[c][p[j].seq + 1], Due(lines, c, p[j].seq),
                     Logged(lg, c, p[j].seq), Met(lg, c, p[j].seq))
    BY DEF SlotsHold
  <2> QED
    BY <2>1, <2>2 DEF SlotHolds
<1>4. SlotsHold(pipeline'[c], c, lines, sub, lg)
  <2> SUFFICES ASSUME NEW i \in 1 .. Len(pipeline'[c])
               PROVE  LET x == pipeline'[c][i]
                      IN  /\ x.seq < Len(sub[c])
                          /\ SlotHolds(x, sub[c][x.seq + 1], Due(lines, c, x.seq),
                                       Logged(lg, c, x.seq), Met(lg, c, x.seq))
    BY DEF SlotsHold
  <2>1. PICK j \in 1 .. Len(p) : pipeline'[c][i] = p[j]
    BY <1>1 DEF Within
  <2> QED
    BY <2>1 DEF SlotsHold
<1> HIDE DEF HoldsTrue
<1>5. \A i \in 1 .. Len(out'[c]) : HoldsTrue(out'[c][i])
  BY <1>1, <1>2, <1>3
<1>6. \A i \in 1 .. Len(delivered'[c]) : HoldsTrue(delivered'[c][i])
  BY <1>1, <1>2, <1>3
<1> QED
  BY <1>4, <1>5, <1>6 DEF HoldsTrue, RepliesHold

\* Slots keep what they have as long as the same parts are due.
LEMMA SameDue ==
    ASSUME NEW pipe, NEW c, NEW lines, NEW lines2, NEW sub, NEW lg,
           SlotsHold(pipe, c, lines, sub, lg),
           \A i \in 1 .. Len(pipe) : Due(lines2, c, pipe[i].seq) = Due(lines, c, pipe[i].seq)
    PROVE  SlotsHold(pipe, c, lines2, sub, lg)
BY DEF SlotsHold

\* What is posted is due where it is about.
LEMMA PostDue ==
    ASSUME NEW before \in AllLines, NEW after \in AllLines, NEW x, NEW new \in Seq(Task),
           Posts(before, after, x, new)
    PROVE  /\ \A c, q : (\A i \in 1 .. Len(new) : ~AboutSlot(new[i], c, q)) =>
                           Due(after, c, q) = Due(before, c, q)
           /\ \A c, q : \A i \in 1 .. Len(new) : AboutSlot(new[i], c, q) =>
                           new[i].index \in Due(after, c, q)
<1>1. /\ \A t \in TasksIn(after) : t \in TasksIn(before) \/ \E i \in 1 .. Len(new) : t = new[i]
      /\ TasksIn(before) \subseteq TasksIn(after)
      /\ \A i \in 1 .. Len(new) : new[i] \in TasksIn(after)
  BY PostTasks
<1>2. ASSUME NEW c, NEW q, \A i \in 1 .. Len(new) : ~AboutSlot(new[i], c, q)
      PROVE  Due(after, c, q) = Due(before, c, q)
  <2>1. {u \in TasksIn(after) : AboutSlot(u, c, q)} = {u \in TasksIn(before) : AboutSlot(u, c, q)}
    BY <1>1, <1>2
  <2> QED
    BY <2>1 DEF Due
<1> QED
  BY <1>1, <1>2 DEF Due

\* The slots of a connection after a completion: the last part that was due makes
\* the reply.
LEMMA CompletedHolds ==
    ASSUME SplitsCleanly, OnlyStrings, ShardInvariant, TypeOK', FlowInvariant, FaithOfTasks,
           FaithOfReplies, NEW s \in Shards, NEW t \in Done, t \in TasksIn(Lines),
           Leaves(Lines, Lines', <<"inbox", s>>), Head(Lines[<<"inbox", s>>]) = t
    PROVE  SlotsHold(Completed(pipeline[t.conn], t), t.conn, Lines', submitted, log)
<1> DEFINE x == <<"inbox", s>>
<1>0. /\ TypeOK /\ SentByClients /\ TasksCarry(Lines, submitted) /\ LogCarries(log, submitted)
      /\ AllNumbered(Lines, next_seq) /\ AllApart(Lines) /\ RemainingInFlight
      /\ log \in AllLogs /\ Lines \in AllLines /\ Lines' \in AllLines
      /\ TasksReport(Lines, submitted, log) /\ StringsStored
  BY HistoryType, NextHistoryType DEF ShardInvariant, FaithOfTasks, FaithOfReplies, FlowInvariant
<1>1. PICK c \in Conns, q \in Nat : c = t.conn /\ q = t.seq
  BY DEF Done
<1>2. t.type = "done" /\ t.index \in Nat /\ AboutSlot(t, c, q) /\ t \in Done
  BY <1>1 DEF Done, AboutSlot
<1>3. PICK cmd : cmd = submitted[c][q + 1]
  OBVIOUS
<1>4. Carries(t, cmd) /\ q < next_seq[c]
  <2>1. TasksBelow(Lines, next_seq)
    BY <1>0, TasksNumbered
  <2> QED
    BY <1>0, <1>1, <1>2, <1>3, <2>1 DEF TasksCarry, TasksBelow
<1>5. cmd \in AllCommands /\ Clean(cmd)
  BY <1>0, <1>3, <1>4, SentAreClean
<1>6. PICK logged, met : logged = Logged(log, c, q) /\ met = Met(log, c, q)
  OBVIOUS
<1>7. Reports(t, cmd, logged, met)
  BY <1>0, <1>1, <1>2, <1>3, <1>6 DEF TasksReport
<1>8. logged \subseteq 1 .. Len(cmd.keys) /\ met \in Db
  BY <1>0, <1>3, <1>6, LoggedRange, MetType
<1>9. SpansShards(cmd) /\ cmd.op = "mget" => \A k \in KeysOf(cmd) : met[k] # SetObj
  <2> SUFFICES ASSUME SpansShards(cmd), cmd.op = "mget", NEW k \in KeysOf(cmd)
               PROVE  met[k] # SetObj
    OBVIOUS
  <2>1. cmd \in Requests[c]
    <3>1. q + 1 \in 1 .. Len(submitted[c])
      <4>1. next_seq[c] \in Nat /\ Len(submitted[c]) = next_seq[c]
        BY <1>0 DEF TypeOK, SentByClients
      <4> QED
        BY <1>4, <4>1
    <3> QED
      BY <1>0, <1>3, <3>1 DEF SentByClients
  <2>2. SplitsMget
    BY <2>1 DEF SplitsMget
  <2>3. k \in Keys
    BY <1>5, CommandKeys
  <2> QED
    BY <1>0, <1>6, <2>2, <2>3, MetStrings
<1>10. /\ Due(Lines', c, q) = Due(Lines, c, q) \ {t.index} /\ t.index \in Due(Lines, c, q)
       /\ \A d, r : ~AboutSlot(t, d, r) => Due(Lines', d, r) = Due(Lines, d, r)
  BY <1>0, <1>2, LeaveTasks
<1>11. PICK p \in Seq(Slot) : p = pipeline[c]
  BY <1>0 DEF TypeOK
<1>12. SlotsHold(p, c, Lines, submitted, log)
  BY <1>11 DEF FaithOfReplies
<1>13. /\ Completed(p, t) \in Seq(Slot) /\ Len(Completed(p, t)) = Len(p)
       /\ \A i \in 1 .. Len(p) : Completed(p, t)[i].seq = p[i].seq
       /\ \A i \in 1 .. Len(p) :
             Completed(p, t)[i] = IF p[i].seq = t.seq THEN CompleteSlot(p[i], t) ELSE p[i]
  <2>1. \A i \in 1 .. Len(p) :
             Completed(p, t)[i] = IF p[i].seq = t.seq THEN CompleteSlot(p[i], t) ELSE p[i]
    BY DEF Completed
  <2> QED
    BY <2>1, CompletedType
\* Its own slot waits for it.
<1>14. ASSUME NEW i \in 1 .. Len(p), p[i].seq = q
       PROVE  ~p[i].ready /\ (p[i].remaining = 1 => Due(Lines, c, q) = {t.index})
  <2> DEFINE W == Waiting(Lines, c, q)
  <2>1. p[i].remaining = Cardinality(W) /\ (p[i].ready <=> p[i].remaining = 0)
    BY <1>0, <1>11, <1>14 DEF RemainingInFlight, InFlight
  <2>2. IsFiniteSet(W)
    BY <1>0, WaitingFinite
  <2>3. PICK h \in Positions(Lines) : Lines[h[1]][h[2]] = t
    BY DEF TasksIn
  <2>4. h \in W
    BY <1>2, <2>3 DEF Waiting
  <2> HIDE DEF W
  <2>5. Cardinality(W) # 0
    BY <2>2, <2>4, FS_EmptySet
  <2>6. ASSUME Cardinality(W) = 1 PROVE Due(Lines, c, q) = {t.index}
    <3>1. PICK y : W = {y}
      BY <2>2, <2>6, FS_Singleton
    <3>2. W = {h}
      BY <2>4, <3>1
    <3>3. ASSUME NEW u \in TasksIn(Lines), AboutSlot(u, c, q) PROVE u = t
      <4>1. PICK g \in Positions(Lines) : u = Lines[g[1]][g[2]]
        BY <3>3 DEF TasksIn
      <4>2. g \in W
        BY <3>3, <4>1 DEF Waiting, W
      <4> QED
        BY <2>3, <3>2, <4>1, <4>2
    <3>4. {u \in TasksIn(Lines) : AboutSlot(u, c, q)} = {t}
      BY <1>2, <3>3
    <3> QED
      BY <3>4 DEF Due
  <2> QED
    BY <2>1, <2>5, <2>6
<1>15. ASSUME NEW i \in 1 .. Len(p)
       PROVE  LET y == Completed(p, t)[i]
              IN  /\ y.seq < Len(submitted[c])
                  /\ SlotHolds(y, submitted[c][y.seq + 1], Due(Lines', c, y.seq),
                               Logged(log, c, y.seq), Met(log, c, y.seq))
  <2>1. /\ p[i].seq < Len(submitted[c])
        /\ SlotHolds(p[i], submitted[c][p[i].seq + 1], Due(Lines, c, p[i].seq),
                     Logged(log, c, p[i].seq), Met(log, c, p[i].seq))
    BY <1>12 DEF SlotsHold
  <2>2. CASE p[i].seq # q
    <3>1. Completed(p, t)[i] = p[i]
      BY <1>1, <1>13, <2>2
    <3>2. ~AboutSlot(t, c, p[i].seq)
      BY <1>1, <2>2 DEF AboutSlot
    <3>3. Due(Lines', c, p[i].seq) = Due(Lines, c, p[i].seq)
      BY <1>10, <3>2
    <3> QED
      BY <2>1, <3>1, <3>3
  <2>3. CASE p[i].seq = q
    <3>1. PICK slot \in Slot : slot = p[i]
      BY ElementOfSeq
    <3>2. PICK due : due = Due(Lines, c, q)
      OBVIOUS
    <3>3. ~slot.ready /\ (slot.remaining = 1 => due = {t.index})
      BY <1>14, <2>3, <3>1, <3>2
    <3>4. SlotHolds(slot, cmd, due, logged, met) /\ t.index \in due
      BY <1>3, <1>6, <1>10, <2>1, <2>3, <3>1, <3>2
    <3>5. SlotHolds(CompleteSlot(slot, t), cmd, due \ {t.index}, logged, met)
      BY <1>2, <1>4, <1>5, <1>7, <1>8, <1>9, <3>3, <3>4, CompleteHolds
    <3>6. Completed(p, t)[i] = CompleteSlot(slot, t) /\ Completed(p, t)[i].seq = q
      BY <1>1, <1>13, <2>3, <3>1
    <3>7. Due(Lines', c, q) = due \ {t.index}
      BY <1>10, <3>2
    <3> QED
      BY <1>3, <1>6, <2>1, <2>3, <3>5, <3>6, <3>7
  <2> QED
    BY <2>2, <2>3
<1>16. SlotsHold(Completed(p, t), c, Lines', submitted, log)
  BY <1>13, <1>15 DEF SlotsHold
<1> QED
  BY <1>1, <1>11, <1>16

\* What dispatch() answers is what the command answers, and a slot that waits has
\* nothing yet.
LEMMA NewSlotHolds ==
    ASSUME SplitsCleanly, ShardInvariant, TypeOK', FlowInvariant, FaithOfTasks,
           NEW s \in Shards, NEW c \in Conns, NEW n, NEW cmd, NEW slot, NEW new,
           Dispatched(s, c, n, cmd, slot, new)
    PROVE  SlotHolds(slot, cmd, Due(Lines', c, n), Logged(log', c, n), Met(log', c, n))
<1>0. TypeOK /\ log' \in AllLogs /\ Lines \in AllLines /\ Lines' \in AllLines
  BY HistoryType, NextHistoryType DEF ShardInvariant
<1>1. /\ n \in Nat /\ cmd \in AllCommands
      /\ new \in Seq(Task) /\ Posts(Lines, Lines', <<"outbox", s>>, new)
      /\ \/ AnswersIt(cmd, slot, new)
         \/ ExecutesIt(s, c, n, cmd, slot, new)
         \/ \E m : ForwardsIt(c, n, cmd, slot, new, m)
  BY DEF Dispatched
<1>2. /\ FaithOfTasks' /\ submitted'[c][n + 1] = cmd
      /\ ExecutesIt(s, c, n, cmd, slot, new) =>
            /\ 1 .. Len(cmd.keys) \subseteq Logged(log', c, n)
            /\ \A k \in KeysOf(cmd) : Met(log', c, n)[k] = db[s][k]
  BY DispatchFaith
<1>3. CASE AnswersIt(cmd, slot, new)
  BY <1>3 DEF AnswersIt, SlotHolds, Replied
<1>4. CASE ExecutesIt(s, c, n, cmd, slot, new)
  <2>1. LogCarries(log', submitted')
    BY <1>2 DEF FaithOfTasks
  <2>2. Logged(log', c, n) \subseteq 1 .. Len(cmd.keys)
    BY <1>1, <1>2, <2>1, LoggedRange
  <2>3. slot.ready /\ slot.bytes = Answer(cmd, db[s])
    BY <1>4 DEF ExecutesIt
  <2>4. \A k \in KeysOf(cmd) : db[s][k] = Met(log', c, n)[k]
    BY <1>2, <1>4
  <2>5. Answer(cmd, db[s]) = Answer(cmd, Met(log', c, n))
    BY <1>1, <2>4, AnswerByKeys
  <2>6. Logged(log', c, n) = 1 .. Len(cmd.keys)
    BY <1>2, <1>4, <2>2
  <2> QED
    BY <2>3, <2>5, <2>6 DEF SlotHolds, Replied
<1>5. CASE \E m : ForwardsIt(c, n, cmd, slot, new, m)
  <2>1. PICK m : ForwardsIt(c, n, cmd, slot, new, m)
    BY <1>5
  <2>2. /\ m \in Nat \ {0} /\ Parts(cmd) = 1 .. m /\ slot = PendingSlot(n, KindOf(cmd), m)
        /\ Len(new) = m
        /\ \A i \in 1 .. m : new[i] = ExecTask(c, n, i, IsIntCmd(cmd), PartOf(cmd, i))
    BY <2>1 DEF ForwardsIt
  <2>3. \A i \in 1 .. m : AboutSlot(new[i], c, n) /\ new[i].index = i
    BY <2>2 DEF ExecTask, AboutSlot
  <2>4. PICK due : due = Due(Lines', c, n)
    OBVIOUS
  <2>5. \A i \in Parts(cmd) : i \in due
    <3>1. \A i \in 1 .. Len(new) : AboutSlot(new[i], c, n) => new[i].index \in Due(Lines', c, n)
      BY <1>0, <1>1, PostDue
    <3> QED
      BY <2>2, <2>3, <2>4, <3>1
  <2>6. Parts(cmd) \ due = {}
    BY <2>5
  <2>7. ~slot.ready /\ slot.kind = KindOf(cmd) /\ slot.accum = 0 /\ Len(slot.frags) = m
    BY <2>2 DEF PendingSlot
  <2>8. PICK logged, met : logged = Logged(log', c, n) /\ met = Met(log', c, n)
    OBVIOUS
  <2>9. {i \in Parts(cmd) \ due : met[cmd.keys[i]] # NoKey} = {}
    BY <2>6
  <2>10. Collects(slot, cmd, due, logged, met)
    BY <2>2, <2>6, <2>7, <2>9, FS_EmptySet DEF Collects
  <2> QED
    BY <2>4, <2>7, <2>8, <2>10 DEF SlotHolds
<1> QED
  BY <1>1, <1>3, <1>4, <1>5

LEMMA DispatchReplies ==
    ASSUME SplitsCleanly, ShardInvariant, TypeOK', FlowInvariant, FaithOfTasks, FaithOfReplies,
           NEW s \in Shards, NEW c \in Conns, NEW n, NEW cmd, NEW slot, NEW new,
           Dispatched(s, c, n, cmd, slot, new)
    PROVE  /\ TasksReport(Lines', submitted', log')
           /\ \A d \in Conns : /\ SlotsHold(pipeline'[d], d, Lines', submitted', log')
                               /\ RepliesHold(out'[d], d, submitted', log')
                               /\ RepliesHold(delivered'[d], d, submitted', log')
<1>0. /\ TypeOK /\ SentByClients /\ TasksCarry(Lines, submitted)
      /\ AllNumbered(Lines, next_seq) /\ Lines \in AllLines /\ Lines' \in AllLines
      /\ TasksReport(Lines, submitted, log)
      /\ \A d \in Conns : /\ SlotsHold(pipeline[d], d, Lines, submitted, log)
                          /\ RepliesHold(out[d], d, submitted, log)
                          /\ RepliesHold(delivered[d], d, submitted, log)
  BY HistoryType, NextHistoryType DEF ShardInvariant, FaithOfTasks, FaithOfReplies, FlowInvariant
<1>1. /\ n \in Nat /\ n = next_seq[c] /\ cmd \in AllCommands /\ slot \in Slot /\ slot.seq = n
      /\ pipeline' = [pipeline EXCEPT ![c] = Append(@, slot)]
      /\ next_seq' = [next_seq EXCEPT ![c] = @ + 1]
      /\ out' = out /\ delivered' = delivered
      /\ new \in Seq(Task) /\ Posts(Lines, Lines', <<"outbox", s>>, new)
      /\ \/ AnswersIt(cmd, slot, new)
         \/ ExecutesIt(s, c, n, cmd, slot, new)
         \/ \E m : ForwardsIt(c, n, cmd, slot, new, m)
  BY DEF Dispatched
<1>2. /\ FaithOfTasks' /\ submitted'[c][n + 1] = cmd
      /\ SameBelow(submitted, submitted', next_seq)
      /\ AllGrown(log, log', submitted')
  BY DispatchFaith
<1>3. SentByClients' /\ LogCarries(log', submitted')
  BY <1>2 DEF FaithOfTasks
<1>4. KeptAll(log, log', submitted, submitted')
  <2>0. next_seq \in [Conns -> Nat] /\ next_seq' = [next_seq EXCEPT ![c] = @ + 1]
    BY <1>0, <1>1 DEF TypeOK
  <2>1. \A d \in Conns : next_seq[d] <= next_seq'[d] /\ next_seq'[d] \in Nat
    BY <2>0
  <2> QED
    BY <1>0, <1>2, <1>3, <2>1, GrownKept
<1>5. \A i \in 1 .. Len(new) : /\ new[i].type # "done"
                               /\ \A d, q : AboutSlot(new[i], d, q) => d = c /\ q = n
  <2>1. CASE AnswersIt(cmd, slot, new)
    BY <2>1 DEF AnswersIt, AboutSlot
  <2>2. CASE ExecutesIt(s, c, n, cmd, slot, new)
    <3>1. Len(new) = 0
      BY <2>2, EmptySeq DEF ExecutesIt
    <3> QED
      BY <3>1
  <2>3. CASE \E m : ForwardsIt(c, n, cmd, slot, new, m)
    <3>1. PICK m : ForwardsIt(c, n, cmd, slot, new, m)
      BY <2>3
    <3> QED
      BY <3>1 DEF ForwardsIt, ExecTask, AboutSlot
  <2> QED
    BY <1>1, <2>1, <2>2, <2>3
<1>6. TasksReport(Lines', submitted', log')
  <2>1. \A t \in TasksIn(Lines') : t \in TasksIn(Lines) \/ \E i \in 1 .. Len(new) : t = new[i]
    BY <1>0, <1>1, PostTasks
  <2>2. \A t \in TasksIn(Lines') : t \in TasksIn(Lines) \/ t.type # "done"
    BY <1>5, <2>1
  <2>3. TasksBelow(Lines, next_seq) /\ \A d \in Conns : Len(submitted[d]) = next_seq[d]
    BY <1>0, TasksNumbered DEF SentByClients
  <2> QED
    BY <1>0, <1>4, <2>2, <2>3, TasksReportKept
<1>7. ASSUME NEW d \in Conns
      PROVE  SlotsHold(pipeline[d], d, Lines', submitted', log')
  <2>1. ASSUME NEW i \in 1 .. Len(pipeline[d])
        PROVE  Due(Lines', d, pipeline[d][i].seq) = Due(Lines, d, pipeline[d][i].seq)
    <3>1. pipeline[d][i].seq < Len(submitted[d]) /\ Len(submitted[d]) = next_seq[d]
      BY <1>0 DEF SlotsHold, SentByClients
    <3>2. d # c \/ pipeline[d][i].seq # n
      BY <1>1, <3>1
    <3>3. PICK q : q = pipeline[d][i].seq
      OBVIOUS
    <3>4. ASSUME NEW j \in 1 .. Len(new), AboutSlot(new[j], d, q) PROVE FALSE
      <4>1. d = c /\ q = n
        BY <1>5, <3>4
      <4> QED
        BY <3>2, <3>3, <4>1
    <3>5. new \in Seq(Task) /\ Posts(Lines, Lines', <<"outbox", s>>, new)
      BY <1>1
    <3>6. Due(Lines', d, q) = Due(Lines, d, q)
      BY <1>0, <3>4, <3>5, PostDue
    <3> QED
      BY <3>3, <3>6
  <2>2. pipeline[d] \in Seq(Slot)
    BY <1>0 DEF TypeOK
  <2> QED
    BY <1>0, <1>4, <2>1, <2>2, SlotsKept
<1>8. ASSUME NEW d \in Conns PROVE SlotsHold(pipeline'[d], d, Lines', submitted', log')
  <2>1. CASE d # c
    BY <1>0, <1>1, <1>7, <2>1 DEF TypeOK
  <2>2. CASE d = c
    <3>1. PICK p \in Seq(Slot) : p = pipeline[c]
      BY <1>0 DEF TypeOK
    <3>2. pipeline'[c] = Append(p, slot)
      BY <1>0, <1>1, <3>1 DEF TypeOK
    <3>3. /\ Len(p) \in Nat /\ Len(Append(p, slot)) = Len(p) + 1
          /\ Append(p, slot)[Len(p) + 1] = slot
          /\ \A i \in 1 .. Len(p) : Append(p, slot)[i] = p[i]
      BY <1>1, LenProperties, AppendProperties
    <3>4. n < Len(submitted'[c])
      <4>1. next_seq \in [Conns -> Nat] /\ n = next_seq[c]
            /\ next_seq' = [next_seq EXCEPT ![c] = @ + 1]
        BY <1>0, <1>1 DEF TypeOK
      <4>2. Len(submitted'[c]) = next_seq'[c]
        BY <1>3 DEF SentByClients
      <4> QED
        BY <4>1, <4>2
    <3>5. SlotHolds(slot, cmd, Due(Lines', c, n), Logged(log', c, n), Met(log', c, n))
      BY NewSlotHolds
    <3> SUFFICES ASSUME NEW i \in 1 .. Len(Append(p, slot))
                 PROVE  LET x == Append(p, slot)[i]
                        IN  /\ x.seq < Len(submitted'[c])
                            /\ SlotHolds(x, submitted'[c][x.seq + 1], Due(Lines', c, x.seq),
                                         Logged(log', c, x.seq), Met(log', c, x.seq))
      BY <2>2, <3>2 DEF SlotsHold
    <3>6. CASE i \in 1 .. Len(p)
      BY <1>7, <3>1, <3>3, <3>6 DEF SlotsHold
    <3>7. CASE i \notin 1 .. Len(p)
      <4>1. Append(p, slot)[i] = slot
        BY <3>3, <3>7
      <4> QED
        BY <1>1, <1>2, <3>4, <3>5, <4>1
    <3> QED
      BY <3>6, <3>7
  <2> QED
    BY <2>1, <2>2
<1>9. ASSUME NEW d \in Conns
      PROVE  RepliesHold(out[d], d, submitted', log') /\ RepliesHold(delivered[d], d, submitted', log')
  <2>1. out[d] \in Seq(SentReply) /\ delivered[d] \in Seq(SentReply)
    BY <1>0 DEF TypeOK
  <2> QED
    BY <1>0, <1>4, <2>1, RepliesKept
<1> QED
  BY <1>1, <1>6, <1>8, <1>9

\* An execution adds to the history and replaces a request by its completion.
LEMMA ExecReplies ==
    ASSUME SplitsCleanly, ShardInvariant, TypeOK', FlowInvariant, FaithOfTasks, FaithOfReplies,
           NEW s \in Shards, NEW t, NEW u, ExecutedAt(s, t, u)
    PROVE  /\ TasksReport(Lines', submitted', log')
           /\ \A d \in Conns : /\ SlotsHold(pipeline'[d], d, Lines', submitted', log')
                               /\ RepliesHold(out'[d], d, submitted', log')
                               /\ RepliesHold(delivered'[d], d, submitted', log')
<1>0. /\ TypeOK /\ SentByClients /\ TasksCarry(Lines, submitted)
      /\ AllNumbered(Lines, next_seq) /\ Lines \in AllLines /\ Lines' \in AllLines
      /\ TasksReport(Lines, submitted, log)
      /\ \A d \in Conns : /\ SlotsHold(pipeline[d], d, Lines, submitted, log)
                          /\ RepliesHold(out[d], d, submitted, log)
                          /\ RepliesHold(delivered[d], d, submitted, log)
  BY HistoryType, NextHistoryType DEF ShardInvariant, FaithOfTasks, FaithOfReplies, FlowInvariant
<1>1. /\ Moves(Lines, Lines', <<"inbox", s>>, <<"outbox", s>>, u)
      /\ next_seq' = next_seq /\ submitted' = submitted /\ pipeline' = pipeline
      /\ out' = out /\ delivered' = delivered
  BY DEF ExecutedAt
<1>2. /\ FaithOfTasks' /\ AllGrown(log, log', submitted')
      /\ Reports(u, submitted'[u.conn][u.seq + 1],
                 Logged(log', u.conn, u.seq), Met(log', u.conn, u.seq))
  BY <1>1, ExecFaith
<1>3. SentByClients' /\ LogCarries(log', submitted')
  BY <1>2 DEF FaithOfTasks
<1>4. KeptAll(log, log', submitted, submitted')
  <2>1. \A d \in Conns : next_seq[d] <= next_seq'[d] /\ next_seq'[d] \in Nat
    BY <1>0, <1>1 DEF TypeOK
  <2>2. SameBelow(submitted, submitted', next_seq)
    BY <1>1 DEF SameBelow
  <2> QED
    BY <1>0, <1>2, <1>3, <2>1, <2>2, GrownKept
<1>5. /\ \A w \in TasksIn(Lines') : w = u \/ w \in TasksIn(Lines)
      /\ \A d, q : Due(Lines', d, q) = Due(Lines, d, q)
  BY <1>0, <1>1, MoveTasks
<1>6. TasksReport(Lines', submitted', log')
  <2>1. \A w \in TasksIn(Lines') : w \in TasksIn(Lines) \/ w.type # "done"
           \/ Reports(w, submitted'[w.conn][w.seq + 1],
                      Logged(log', w.conn, w.seq), Met(log', w.conn, w.seq))
    BY <1>2, <1>5
  <2>2. TasksBelow(Lines, next_seq) /\ \A d \in Conns : Len(submitted[d]) = next_seq[d]
    BY <1>0, TasksNumbered DEF SentByClients
  <2> QED
    BY <1>0, <1>4, <2>1, <2>2, TasksReportKept
<1>7. ASSUME NEW d \in Conns
      PROVE  /\ SlotsHold(pipeline[d], d, Lines', submitted', log')
             /\ RepliesHold(out[d], d, submitted', log')
             /\ RepliesHold(delivered[d], d, submitted', log')
  <2>1. pipeline[d] \in Seq(Slot) /\ out[d] \in Seq(SentReply) /\ delivered[d] \in Seq(SentReply)
    BY <1>0 DEF TypeOK
  <2>2. \A i \in 1 .. Len(pipeline[d]) :
           Due(Lines', d, pipeline[d][i].seq) = Due(Lines, d, pipeline[d][i].seq)
    BY <1>5
  <2>3. SlotsHold(pipeline[d], d, Lines', submitted', log')
    BY <1>0, <1>4, <2>1, <2>2, SlotsKept
  <2> QED
    BY <1>0, <1>4, <2>1, <2>3, RepliesKept
<1> QED
  BY <1>1, <1>6, <1>7

\* A step that executes nothing serves what is there.
LEMMA OtherReplies ==
    ASSUME SplitsCleanly, OnlyStrings, ShardInvariant, TypeOK', FlowInvariant, FaithOfTasks,
           FaithOfReplies, OtherStep
    PROVE  /\ TasksReport(Lines', submitted', log')
           /\ \A d \in Conns : /\ SlotsHold(pipeline'[d], d, Lines', submitted', log')
                               /\ RepliesHold(out'[d], d, submitted', log')
                               /\ RepliesHold(delivered'[d], d, submitted', log')
<1>0. /\ TasksReport(Lines, submitted, log) /\ Lines \in AllLines /\ Lines' \in AllLines
      /\ \A d \in Conns : /\ SlotsHold(pipeline[d], d, Lines, submitted, log)
                          /\ RepliesHold(out[d], d, submitted, log)
                          /\ RepliesHold(delivered[d], d, submitted, log)
  BY HistoryType, NextHistoryType DEF ShardInvariant, FaithOfReplies
<1>1. /\ log' = log /\ submitted' = submitted /\ TasksIn(Lines') \subseteq TasksIn(Lines)
  BY DEF OtherStep
<1>2. TasksReport(Lines', submitted', log')
  BY <1>0, <1>1 DEF TasksReport
<1>3. CASE /\ UNCHANGED <<pipeline, out, delivered>>
           /\ \A c \in Conns : \A i \in 1 .. Len(pipeline[c]) :
                 Due(Lines', c, pipeline[c][i].seq) = Due(Lines, c, pipeline[c][i].seq)
  <2>1. ASSUME NEW d \in Conns PROVE SlotsHold(pipeline[d], d, Lines', submitted, log)
    BY <1>0, <1>3, SameDue
  <2> QED
    BY <1>0, <1>1, <1>2, <1>3, <2>1
\* Connection c is served slots p.
<1>4. ASSUME NEW c \in Conns, NEW p, Serves(c, p), SlotsHold(p, c, Lines', submitted, log),
             \A d \in Conns \ {c} : SlotsHold(pipeline[d], d, Lines', submitted, log),
             NEW d \in Conns
      PROVE  /\ SlotsHold(pipeline'[d], d, Lines', submitted, log)
             /\ RepliesHold(out'[d], d, submitted, log)
             /\ RepliesHold(delivered'[d], d, submitted, log)
  <2>1. CASE d = c
    <3>1. RepliesHold(out[c], c, submitted, log) /\ RepliesHold(delivered[c], c, submitted, log)
      BY <1>0
    <3> QED
      BY <1>4, <2>1, <3>1, ServesHold
  <2>2. CASE d # c
    BY <1>0, <1>4, <2>2 DEF Serves
  <2> QED
    BY <2>1, <2>2
<1>5. ASSUME NEW c \in Conns, Lines' = Lines, Serves(c, pipeline[c])
      PROVE  \A d \in Conns : /\ SlotsHold(pipeline'[d], d, Lines', submitted, log)
                              /\ RepliesHold(out'[d], d, submitted, log)
                              /\ RepliesHold(delivered'[d], d, submitted, log)
  BY <1>0, <1>4, <1>5
<1>6. ASSUME NEW s \in Shards, NEW t \in Done, t \in TasksIn(Lines),
             Leaves(Lines, Lines', <<"inbox", s>>), Head(Lines[<<"inbox", s>>]) = t,
             Serves(t.conn, Completed(pipeline[t.conn], t))
      PROVE  \A d \in Conns : /\ SlotsHold(pipeline'[d], d, Lines', submitted, log)
                              /\ RepliesHold(out'[d], d, submitted, log)
                              /\ RepliesHold(delivered'[d], d, submitted, log)
  <2>1. PICK c \in Conns : c = t.conn
    BY DEF Done
  <2>2. PICK p : p = Completed(pipeline[c], t)
    OBVIOUS
  <2>3. SlotsHold(p, c, Lines', submitted, log)
    BY <1>6, <2>1, <2>2, CompletedHolds
  <2>4. ASSUME NEW d \in Conns \ {c} PROVE SlotsHold(pipeline[d], d, Lines', submitted, log)
    <3>1. \A q : ~AboutSlot(t, d, q)
      BY <2>1 DEF AboutSlot
    <3>2. \A q : Due(Lines', d, q) = Due(Lines, d, q)
      BY <1>0, <1>6, <3>1, LeaveTasks
    <3> QED
      BY <1>0, <3>2, SameDue
  <2>5. Serves(c, p)
    BY <1>6, <2>1, <2>2
  <2> QED
    BY <1>4, <2>3, <2>4, <2>5
<1>7. \A d \in Conns : /\ SlotsHold(pipeline'[d], d, Lines', submitted', log')
                       /\ RepliesHold(out'[d], d, submitted', log')
                       /\ RepliesHold(delivered'[d], d, submitted', log')
  BY <1>1, <1>2, <1>3, <1>5, <1>6 DEF OtherStep
<1> QED
  BY <1>2, <1>7

LEMMA StepFaithOfReplies ==
    ASSUME SplitsCleanly, OnlyStrings, ShardInvariant, TypeOK', FlowInvariant, FaithOfTasks,
           FaithOfReplies, Next
    PROVE  FaithOfReplies'
<1>1. SlotsAreOpen /\ SentByClients /\ StringsStored
  BY DEF FlowInvariant, FaithOfTasks, FaithOfReplies
<1>2. FaithStep
  BY <1>1, FaithCases
<1>3. StringsStored'
  BY <1>1, StepStrings
<1>4. /\ TasksReport(Lines', submitted', log')
      /\ \A d \in Conns : /\ SlotsHold(pipeline'[d], d, Lines', submitted', log')
                          /\ RepliesHold(out'[d], d, submitted', log')
                          /\ RepliesHold(delivered'[d], d, submitted', log')
  BY <1>2, DispatchReplies, ExecReplies, OtherReplies DEF FaithStep
<1> QED
  BY <1>3, <1>4 DEF FaithOfReplies

LEMMA RepliesInit == Init => FaithOfReplies
<1> SUFFICES ASSUME Init PROVE FaithOfReplies
  OBVIOUS
<1>1. Len(<<>>) = 0
  BY EmptySeq
<1>2. TasksReport(Lines, submitted, log)
  <2>1. \A s \in Shards : Inbox(s) = <<>> /\ Outgoing(s) = <<>>
    BY <1>1, ConcatEmptySeq DEF Init, Inbox, Outgoing
  <2>2. DOMAIN Lines = Places /\ \A x \in Places : Lines[x] = <<>>
    BY <2>1 DEF Lines, Places
  <2>3. DOMAIN <<>> = {}
    BY EmptySeq
  <2> QED
    BY <2>2, <2>3 DEF TasksReport, TasksIn, Positions
<1>3. \A c \in Conns : pipeline[c] = <<>> /\ out[c] = <<>> /\ delivered[c] = <<>>
  BY DEF Init
<1>4. ASSUME NEW c \in Conns
      PROVE  /\ SlotsHold(pipeline[c], c, Lines, submitted, log)
             /\ RepliesHold(out[c], c, submitted, log)
             /\ RepliesHold(delivered[c], c, submitted, log)
  <2>1. Len(pipeline[c]) = 0 /\ Len(out[c]) = 0 /\ Len(delivered[c]) = 0
    BY <1>1, <1>3
  <2> QED
    BY <2>1 DEF SlotsHold, RepliesHold
<1>5. StringsStored
  <2>1. NoKey # SetObj
    BY DEF NoKey, SetObj
  <2>2. \A s \in Shards : log[s] = <<>> /\ \A k \in Keys : db[s][k] = NoKey
    BY DEF Init, EmptyDb
  <2>3. \A s \in Shards : Len(log[s]) = 0
    BY <1>1, <2>2
  <2> QED
    BY <2>1, <2>2, <2>3 DEF StringsStored
<1> QED
  BY <1>2, <1>4, <1>5 DEF FaithOfReplies

LEMMA RepliesStutter ==
    ASSUME FaithOfReplies, UNCHANGED vars PROVE FaithOfReplies'
<1>1. UNCHANGED <<mailbox, batch, outbox, log, pipeline, out, delivered, submitted, db>>
  BY DEF vars
<1>2. Lines' = Lines
  BY <1>1, SameLines
<1>3. StringsStored'
  BY <1>1 DEF FaithOfReplies, StringsStored
<1> QED
  BY <1>1, <1>2, <1>3 DEF FaithOfReplies

\* Forwarding and splitting are invisible to clients: when a reply to a command
\* that was routed to its keys is read, every key was accessed, and the reply is
\* what the command answers for the values that were met.
THEOREM RepliesAreFaithful ==
    ASSUME SplitsCleanly, OnlyStrings
    PROVE  Spec => []FaithfulReply
<1>1. ShardInvariant /\ FlowInvariant /\ FaithOfTasks /\ FaithOfReplies /\ [Next]_vars
         => FaithOfReplies'
  <2>1. ASSUME ShardInvariant, FlowInvariant, FaithOfTasks, FaithOfReplies, UNCHANGED vars
        PROVE  FaithOfReplies'
    BY <2>1, RepliesStutter
  <2>2. ASSUME ShardInvariant, FlowInvariant, FaithOfTasks, FaithOfReplies, Next
        PROVE  FaithOfReplies'
    <3>1. TypeOK'
      BY <2>2, StepType DEF ShardInvariant
    <3> QED
      BY <2>2, <3>1, StepFaithOfReplies
  <2> QED
    BY <2>1, <2>2
<1>2. ReplyOrder /\ ShardInvariant /\ FaithOfReplies => FaithfulReply
  <2> SUFFICES ASSUME ReplyOrder, ShardInvariant, FaithOfReplies, NEW c \in Conns,
                      NEW i \in 1 .. Len(delivered[c]), Routed(submitted[c][i])
               PROVE  /\ {e.index : e \in EntriesOf(c, i - 1)} = 1 .. Len(submitted[c][i].keys)
                      /\ delivered[c][i].bytes = Answer(submitted[c][i], Seen(c, i - 1))
    BY DEF FaithfulReply
  <2>1. delivered[c][i].seq = i - 1 /\ i \in Nat
    <3>1. Len(delivered[c]) \in Nat
      BY LenProperties DEF ShardInvariant, TypeOK
    <3> QED
      BY <3>1 DEF ReplyOrder
  <2>2. i - 1 + 1 = i
    BY <2>1
  <2>3. Replied(submitted[c][i], delivered[c][i].bytes, Logged(log, c, i - 1), Met(log, c, i - 1))
    BY <2>1, <2>2 DEF FaithOfReplies, RepliesHold
  <2> QED
    BY <2>3, EntriesAre DEF Replied, Logged
<1> QED
  BY <1>1, <1>2, RepliesInit, Invariance, TasksFlow, TasksAreFaithful, RepliesInOrder, PTL DEF Spec

=============================================================================
