----------------------------- MODULE Lifecycle -----------------------------
(***************************************************************************)
(* The life of the server process (server.cpp, main.cpp): start() on the   *)
(* control thread, one thread per shard, the metrics thread with its       *)
(* loopback command, a signal, stop() with its joins, and the next start   *)
(* from the files the last run left, perhaps with another number of        *)
(* shards.                                                                 *)
(*                                                                         *)
(* A command writes one key, which has its name.  It is handled where its  *)
(* connection was accepted and executed where its key lives; how the two   *)
(* shards talk is the subject of module Shard, what the log has at which   *)
(* time of module Durability: here it is complete when it is closed.       *)
(***************************************************************************)
EXTENDS Integers, Sequences, FiniteSets, FiniteSetsExt

CONSTANTS Commands,     \* commands that clients may send once
          Queries,      \* those that are sent through POST /api/query
          Blank,        \* those that parse to no argument at all
          Hash,         \* hash_bytes() of the key of a command
          ShardCounts,  \* what cfg.shards may be at a start
          MaxStarts     \* bound on the number of starts

ASSUME LifecycleAssumption ==
    /\ Queries \subseteq Commands
    /\ Blank \subseteq Commands
    /\ Hash \in [Commands -> Nat]
    /\ ShardCounts \subseteq Nat \ {0} /\ ShardCounts # {} /\ IsFiniteSet(ShardCounts)
    /\ MaxStarts \in Nat

MaxShards == Max(ShardCounts)
AllShards == 0 .. MaxShards - 1

VARIABLES
  control,    \* where the control thread is
  at,         \* the shard its present loop has come to
  n,          \* shards_.size()
  running,    \* Server::running_
  flag,       \* Shard::running_
  thread,     \* per shard: "none", "loop", "last", "batch" or "exited"
  metrics,    \* "none", "start", "check", "wait", "query", "exited"
  query,      \* the command the metrics thread runs, <<>> if none
  listening,  \* shards whose listener is open
  sockets,    \* <<shard, command>>: sent to a listener, not yet read
  mailbox,    \* tasks posted to each shard
  batch,      \* tasks taken by its last drain
  db,         \* keys in memory
  file,       \* keys that the files with a shard's number hold
  unsent,     \* commands not sent yet
  answered,   \* commands whose client has the reply
  starts

controlVars == <<control, at, n, running, listening, starts>>
shardVars   == <<flag, thread, mailbox, batch, db, file>>
clientVars  == <<sockets, unsent, answered>>
metricsVars == <<metrics, query>>
vars == <<controlVars, shardVars, clientVars, metricsVars>>

Shards == 0 .. n - 1

\* Server::shard_for()
ShardFor(c) == Hash[c] % n

Init ==
    /\ control = "down" /\ at = 0 /\ n = Min(ShardCounts) /\ running = FALSE
    /\ listening = {} /\ starts = 0
    /\ flag    = [s \in AllShards |-> FALSE]
    /\ thread  = [s \in AllShards |-> "none"]
    /\ mailbox = [s \in AllShards |-> <<>>]
    /\ batch   = [s \in AllShards |-> <<>>]
    /\ db      = [s \in AllShards |-> {}]
    /\ file    = [s \in AllShards |-> {}]
    /\ sockets = {} /\ unsent = Commands /\ answered = {}
    /\ metrics = "none" /\ query = <<>>
-----------------------------------------------------------------------------
(* The control thread: start(), run_until_signal(), stop().                *)

\* main() makes the server, and start() its shards.
Start(count) ==
    /\ control = "down" /\ starts < MaxStarts
    /\ control' = "init" /\ at' = 0 /\ n' = count /\ starts' = starts + 1
    /\ thread' = [s \in AllShards |-> "none"]
    /\ db'     = [s \in AllShards |-> {}]
    /\ mailbox' = [s \in AllShards |-> <<>>]
    /\ batch'   = [s \in AllShards |-> <<>>]
    /\ UNCHANGED <<running, listening, flag, file, clientVars, metricsVars>>

\* A listener, and init() of its shard, which loads the files of its number.
InitShard ==
    /\ control = "init" /\ at < n
    /\ listening' = listening \cup {at}
    /\ db' = [db EXCEPT ![at] = file[at]]
    /\ at' = at + 1
    /\ UNCHANGED <<control, n, running, starts, flag, thread, mailbox, batch, file,
                   clientVars, metricsVars>>

\* The port is taken, or a file cannot be loaded: main() returns, and the
\* destructor of the server calls stop().
InitFails ==
    /\ control = "init" /\ at < n
    /\ \E opened \in {{}, {at}} : listening' = listening \cup opened
    /\ control' = "stopping" /\ at' = 0
    /\ UNCHANGED <<n, running, starts, shardVars, clientVars, metricsVars>>

InitDone ==
    /\ control = "init" /\ at = n
    /\ running' = TRUE /\ control' = "launch" /\ at' = 0
    /\ UNCHANGED <<n, listening, starts, shardVars, clientVars, metricsVars>>

\* Shard::start()
LaunchShard ==
    /\ control = "launch" /\ at < n
    /\ flag'   = [flag EXCEPT ![at] = TRUE]
    /\ thread' = [thread EXCEPT ![at] = "loop"]
    /\ at' = at + 1
    /\ UNCHANGED <<control, n, running, listening, starts, mailbox, batch, db, file,
                   clientVars, metricsVars>>

LaunchMetrics ==
    /\ control = "launch" /\ at = n
    /\ metrics' = "start" /\ control' = "serving"
    /\ UNCHANGED <<at, n, running, listening, starts, shardVars, clientVars, query>>

\* handle_signal()
Signal ==
    /\ control = "serving" /\ running
    /\ running' = FALSE
    /\ UNCHANGED <<control, at, n, listening, starts, shardVars, clientVars, metricsVars>>

\* The loop of run_until_signal() ends within 100 ms.
SeeSignal ==
    /\ control = "serving" /\ ~running
    /\ control' = "stopping" /\ at' = 0
    /\ UNCHANGED <<n, running, listening, starts, shardVars, clientVars, metricsVars>>

\* Mutant: the last shard is not stopped.
StopAllButLast ==
    /\ control = "stopping" /\ at < n
    /\ flag' = [flag EXCEPT ![at] = (at = n - 1 /\ flag[at])]
    /\ at' = at + 1
    /\ UNCHANGED <<control, n, running, listening, starts, thread, mailbox, batch, db, file,
                   clientVars, metricsVars>>

\* Shard::stop() of one shard after the other.
StopShard ==
    /\ control = "stopping" /\ at < n
    /\ flag' = [flag EXCEPT ![at] = FALSE]
    /\ at' = at + 1
    /\ UNCHANGED <<control, n, running, listening, starts, thread, mailbox, batch, db, file,
                   clientVars, metricsVars>>

StopDone ==
    /\ control = "stopping" /\ at = n
    /\ control' = "joining" /\ at' = 0
    /\ UNCHANGED <<n, running, listening, starts, shardVars, clientVars, metricsVars>>

\* Shard::join(): a thread that was never started is not joinable.
JoinShard ==
    /\ control = "joining" /\ at < n
    /\ thread[at] \in {"none", "exited"}
    /\ at' = at + 1
    /\ UNCHANGED <<control, n, running, listening, starts, shardVars, clientVars, metricsVars>>

\* The metrics thread is joined, the listeners are closed and the shards are
\* destroyed, with their connections and whatever is still in their mailboxes;
\* then the process ends.
Exit ==
    /\ control = "joining" /\ at = n
    /\ metrics \in {"none", "exited"}
    /\ control' = "down" /\ metrics' = "none" /\ query' = <<>>
    /\ listening' = {} /\ sockets' = {}
    /\ UNCHANGED <<at, n, running, starts, shardVars, unsent, answered>>
-----------------------------------------------------------------------------
(* A shard's thread: run().                                                *)

\* A client connects to some listener and sends a command; the kernel accepts
\* it whether or not the shard's thread is running.
Send(c, s) ==
    /\ c \in unsent \ Queries
    /\ s \in listening
    /\ sockets' = sockets \cup {<<s, c>>}
    /\ unsent'  = unsent \ {c}
    /\ UNCHANGED <<controlVars, shardVars, metricsVars, answered>>

\* handle_readable(), dispatch(): answered here, forwarded, or nothing at all.
Handle(s, c) ==
    /\ thread[s] = "loop"
    /\ <<s, c>> \in sockets
    /\ sockets' = sockets \ {<<s, c>>}
    /\ \/ /\ c \in Blank
          /\ UNCHANGED <<db, mailbox, answered>>
       \/ /\ c \notin Blank /\ ShardFor(c) = s
          /\ db'       = [db EXCEPT ![s] = @ \cup {c}]
          /\ answered' = answered \cup {c}
          /\ UNCHANGED mailbox
       \/ /\ c \notin Blank /\ ShardFor(c) # s
          /\ mailbox' = [mailbox EXCEPT ![ShardFor(c)] = Append(@, [kind |-> "exec", cmd |-> c, from |-> s])]
          /\ UNCHANGED <<db, answered>>
    /\ UNCHANGED <<controlVars, metricsVars, flag, thread, batch, file, unsent>>

\* Mutant: the command runs and nobody is told.
PerformSilently(s, task, boxes) ==
    /\ db' = [db EXCEPT ![s] = @ \cup {task.cmd}]
    /\ mailbox' = boxes
    /\ UNCHANGED answered

\* What a task does, on a mailbox function from which it was taken: exec runs
\* the command and posts the completion, done answers the client.
Perform(s, task, boxes) ==
    IF task.kind = "exec"
    THEN /\ db'      = [db EXCEPT ![s] = @ \cup {task.cmd}]
         /\ mailbox' = [boxes EXCEPT ![task.from] = Append(@, [task EXCEPT !.kind = "done"])]
         /\ UNCHANGED answered
    ELSE /\ answered' = answered \cup {task.cmd}
         /\ mailbox'  = boxes
         /\ UNCHANGED db

\* A drain within the loop.
RunTask(s) ==
    /\ thread[s] = "loop" /\ mailbox[s] # <<>>
    /\ Perform(s, Head(mailbox[s]), [mailbox EXCEPT ![s] = Tail(@)])
    /\ UNCHANGED <<controlVars, metricsVars, flag, thread, batch, file, sockets, unsent>>

LeaveLoop(s) ==
    /\ thread[s] = "loop" /\ ~flag[s]
    /\ thread' = [thread EXCEPT ![s] = "last"]
    /\ UNCHANGED <<controlVars, metricsVars, clientVars, flag, mailbox, batch, db, file>>

\* The drain behind the loop takes what is there and no more.
LastDrain(s) ==
    /\ thread[s] = "last"
    /\ thread'  = [thread EXCEPT ![s] = "batch"]
    /\ batch'   = [batch EXCEPT ![s] = mailbox[s]]
    /\ mailbox' = [mailbox EXCEPT ![s] = <<>>]
    /\ UNCHANGED <<controlVars, metricsVars, clientVars, flag, db, file>>

RunLastTask(s) ==
    /\ thread[s] = "batch" /\ batch[s] # <<>>
    /\ batch' = [batch EXCEPT ![s] = Tail(@)]
    /\ Perform(s, Head(batch[s]), mailbox)
    /\ UNCHANGED <<controlVars, metricsVars, flag, thread, file, sockets, unsent>>

\* Mutant: the thread ends without closing the log.
LeaveUnclosed(s) ==
    /\ thread[s] = "batch" /\ batch[s] = <<>>
    /\ thread' = [thread EXCEPT ![s] = "exited"]
    /\ UNCHANGED <<controlVars, metricsVars, clientVars, flag, mailbox, batch, db, file>>

\* aof_.close()
CloseLog(s) ==
    /\ thread[s] = "batch" /\ batch[s] = <<>>
    /\ thread' = [thread EXCEPT ![s] = "exited"]
    /\ file'   = [file EXCEPT ![s] = db[s]]
    /\ UNCHANGED <<controlVars, metricsVars, clientVars, flag, mailbox, batch, db>>
-----------------------------------------------------------------------------
(* The metrics thread: run_metrics_server().  Requests other than          *)
(* /api/query are answered from counters and change nothing.               *)

MetricsListen ==
    /\ metrics = "start"
    /\ metrics' = "check"
    /\ UNCHANGED <<controlVars, shardVars, clientVars, query>>

\* Its port is taken.
MetricsListenFails ==
    /\ metrics = "start"
    /\ metrics' = "exited"
    /\ UNCHANGED <<controlVars, shardVars, clientVars, query>>

MetricsCheck ==
    /\ metrics = "check"
    /\ metrics' = IF running THEN "wait" ELSE "exited"
    /\ UNCHANGED <<controlVars, shardVars, clientVars, query>>

\* poll() times out after 200 ms, or brings another request.
MetricsIdle ==
    /\ metrics = "wait"
    /\ metrics' = "check"
    /\ UNCHANGED <<controlVars, shardVars, clientVars, query>>

\* run_loopback_command(): connect() and write() succeed as long as the
\* listener is open; the read of the reply has no time-out.
MetricsQuery(c, s) ==
    /\ metrics = "wait"
    /\ c \in unsent \cap Queries
    /\ s \in listening
    /\ metrics' = "query" /\ query' = <<c>>
    /\ sockets' = sockets \cup {<<s, c>>}
    /\ unsent'  = unsent \ {c}
    /\ UNCHANGED <<controlVars, shardVars, answered>>

MetricsReply ==
    /\ metrics = "query" /\ query[1] \in answered
    /\ metrics' = "check" /\ query' = <<>>
    /\ UNCHANGED <<controlVars, shardVars, clientVars>>
-----------------------------------------------------------------------------
ControlStep ==
    \/ InitShard \/ InitDone \/ LaunchShard \/ LaunchMetrics
    \/ SeeSignal \/ StopShard \/ StopDone \/ JoinShard \/ Exit

ShardStep(s) ==
    \/ \E c \in Commands : Handle(s, c)
    \/ RunTask(s) \/ LeaveLoop(s) \/ LastDrain(s) \/ RunLastTask(s) \/ CloseLog(s)

MetricsStep == MetricsListen \/ MetricsCheck \/ MetricsIdle \/ MetricsReply

Next ==
    \/ \E count \in ShardCounts : Start(count)
    \/ InitFails
    \/ Signal
    \/ ControlStep
    \/ \E s \in AllShards : ShardStep(s)
    \/ \E c \in Commands, s \in AllShards : Send(c, s) \/ MetricsQuery(c, s)
    \/ MetricsListenFails
    \/ MetricsStep

Spec == Init /\ [][Next]_vars

\* Threads are scheduled: a shard's loop turns at least every 50 ms, and reads
\* its sockets, drains its mailbox and looks at its flag on the way.
FairSpec ==
    /\ Spec
    /\ WF_vars(ControlStep)
    /\ WF_vars(MetricsStep)
    /\ \A s \in AllShards :
         /\ \A c \in Commands : WF_vars(Handle(s, c))
         /\ WF_vars(RunTask(s))
         /\ WF_vars(LeaveLoop(s))
         /\ WF_vars(LastDrain(s) \/ RunLastTask(s) \/ CloseLog(s))
-----------------------------------------------------------------------------
(* Properties.                                                             *)

\* A write whose client was answered is in the memory of its key's shard while
\* that runs, and in the shard's files before and after: no order in which
\* threads stop, no task in the last drain (shard.cpp:151) and no failed start
\* loses it, and the next start finds it where routing looks for it.
AnsweredIsKept ==
    \A c \in answered :
      LET s == ShardFor(c)
      IN  IF thread[s] \in {"loop", "last", "batch"} THEN c \in db[s] ELSE c \in file[s]

\* stop() returns and the process ends, so that main() gets to print that it
\* shuts down gracefully (main.cpp:61).
StopReturns == control = "stopping" ~> control = "down"

\* Nothing but a query of the metrics thread that is never answered keeps
\* stop() from returning: no shard waits for another one to end.
StopWaitsForQueriesOnly ==
    control = "stopping" ~> (control = "down" \/ metrics = "query")

\* While the server runs, the console gets its reply, wherever its connection
\* was accepted and its key lives.
QueryAnswered == metrics = "query" ~> (metrics # "query" \/ ~running)
=============================================================================
