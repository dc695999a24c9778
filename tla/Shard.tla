------------------------------- MODULE Shard -------------------------------
(***************************************************************************)
(* The shards of one server: event loop, connections and their reply       *)
(* pipelines, command routing and the cross-shard mailboxes.               *)
(* Source: src/server/shard.cpp and include/blazekv/shard.hpp.             *)
(*                                                                         *)
(* Each shard is one thread.  What a handler does to its own shard is one  *)
(* step; what it posts to other shards goes through outbox[s] and is       *)
(* pushed one task at a time (Post) before the shard does anything else,   *)
(* so that the other threads run between two pushes as they do in the      *)
(* code.  A connection's request burst is handled one command a step.      *)
(* Mailboxes are the FIFO queues that module Mpsc shows MpscQueue to be.   *)
(*                                                                         *)
(* Persistence, TTLs and metrics are not part of this module.              *)
(***************************************************************************)
EXTENDS Commands

CONSTANTS NShards,      \* shards are 0 .. NShards-1
          Owner,        \* Server::shard_for, key -> shard
          Conns,        \* connections that may be accepted; ids are never reused
          Home,         \* connection -> the shard whose listener accepts it
          NoConn,       \* not a connection
          Requests,     \* connection -> commands its client may send
          MaxRequests,  \* bound: connection -> requests its client sends
          MaxBurst,     \* bound: complete requests one read event delivers
          Faults        \* socket faults that may happen: subset of FaultKinds

Shards     == 0 .. NShards - 1
FaultKinds == {"eof",       \* the client half-closes, or its input is refused
               "reset",     \* the reactor reports kError
               "partial",   \* a write takes only part of the output
               "werr"}      \* a write fails

ASSUME ShardAssumption ==
    /\ NShards \in Nat \ {0}
    /\ Owner \in [Keys -> Shards]
    /\ Home \in [Conns -> Shards]
    /\ NoConn \notin Conns
    /\ Requests \in [Conns -> SUBSET AllCommands]
    /\ MaxRequests \in [Conns -> Nat]
    /\ MaxBurst \in Nat
    /\ Faults \subseteq FaultKinds

VARIABLES
  \* per connection (struct Connection)
  status,       \* "new", "open" (in conns_) or "closed" (erased from conns_)
  in,           \* complete requests received and not yet dispatched
  closing,
  pipeline,     \* reply slots, in sequence order (std::map by seq)
  next_seq,
  out,          \* replies appended to the output buffer and not yet written
  \* per shard (class Shard)
  db,
  mailbox,      \* tasks posted and not yet taken
  batch,        \* tasks taken by the current drain() and not yet run
  busy,         \* connection whose read event is being handled, or NoConn
  outbox,       \* posts the current handler has yet to push
  \* history
  submitted,    \* commands dispatched on each connection, by seq
  delivered,    \* replies each client has received
  log,          \* per shard, every access to a key: who, before and after
  sent          \* number of requests each client has sent

connVars == <<status, in, closing, pipeline, next_seq, out>>
loopVars == <<mailbox, batch, busy, outbox>>
histVars == <<submitted, delivered, log, sent>>
vars == <<status, in, closing, pipeline, next_seq, out, db,
          mailbox, batch, busy, outbox, submitted, delivered, log, sent>>

-----------------------------------------------------------------------------
(* Reply slots (struct PendingReply).                                      *)

Kinds == {"Single", "MGet", "MSet", "DelCount", "ExistsCount"}

ReadySlot(q, reply) ==
    [seq |-> q, ready |-> TRUE, bytes |-> reply, kind |-> "Single",
     remaining |-> 0, frags |-> <<>>, accum |-> 0]

\* Mutant: the slot waits for one fragment, however many were posted.
PendingSlotForOne(q, kind, n) ==
    [seq |-> q, ready |-> FALSE, bytes |-> NoBytes, kind |-> kind,
     remaining |-> 1, frags |-> [i \in 1 .. n |-> NoBytes], accum |-> 0]

PendingSlot(q, kind, n) ==
    [seq |-> q, ready |-> FALSE, bytes |-> NoBytes, kind |-> kind,
     remaining |-> n, frags |-> [i \in 1 .. n |-> NoBytes], accum |-> 0]

\* assemble(): the reply of a slot whose fragments have all come back.
Assemble(p) ==
    CASE p.kind = "Single" -> p.frags[1]
      [] p.kind = "MGet"   -> Array(p.frags)
      [] p.kind = "MSet"   -> Ok
      [] OTHER             -> Num(p.accum)

(* Tasks posted to mailboxes.                                              *)

ExecTask(c, q, i, isInt, cmd) ==
    [type |-> "exec", conn |-> c, seq |-> q, index |-> i, is_int |-> isInt, cmd |-> cmd]
DoneTask(c, q, i, isInt, reply, val) ==
    [type |-> "done", conn |-> c, seq |-> q, index |-> i, is_int |-> isInt,
     reply |-> reply, val |-> val]
FlushTask == [type |-> "flush"]

To(s, task) == [to |-> s, task |-> task]

\* Mutant: the sign is misread.
ParseRespIntegerNegated(reply) == IF reply[1] = "int" THEN -reply[2] ELSE 0

\* parse_resp_integer: what a forwarded DEL or EXISTS counted.
ParseRespInteger(reply) == IF reply[1] = "int" THEN reply[2] ELSE 0

(* History: what running cmd on database d does to each of its keys.  The  *)
(* accesses of one command are numbered by key; a fragment has one.        *)

Accesses(c, q, first, cmd, d) ==
    [i \in 1 .. Len(cmd.keys) |->
        [conn |-> c, seq |-> q, index |-> first + i - 1, key |-> cmd.keys[i],
         before |-> d[cmd.keys[i]], after |-> Effect(cmd, d)[cmd.keys[i]]]]

-----------------------------------------------------------------------------
(* Routing (dispatch, begin_single_forward, begin_multikey).               *)

OwnersOf(cmd) == {Owner[k] : k \in KeysOf(cmd)}

\* Mutant: the owner comparison of dispatch() starts at the wrong key.
SpansShardsLate(cmd) ==
    \E i, j \in 2 .. Len(cmd.keys) : Owner[cmd.keys[i]] # Owner[cmd.keys[j]]

SpansShards(cmd) == \E k1, k2 \in KeysOf(cmd) : Owner[k1] # Owner[k2]

SlotKind(cmd) ==
    CASE cmd.op = "mget"   -> "MGet"
      [] cmd.op = "mset"   -> "MSet"
      [] cmd.op = "exists" -> "ExistsCount"
      [] OTHER             -> "DelCount"

IsIntKind(kind) == kind \in {"DelCount", "ExistsCount"}

\* Mutant: every MSET fragment carries the first value.
SubCommandFirstValue(cmd, i) ==
    CASE SlotKind(cmd) = "MGet" -> Command("get", <<cmd.keys[i]>>, <<>>)
      [] SlotKind(cmd) = "MSet" -> Command("set", <<cmd.keys[i]>>, <<cmd.vals[1]>>)
      [] OTHER                  -> Command("del", <<cmd.keys[i]>>, <<>>)

\* The single-key sub-request for the i-th key.
SubCommand(cmd, i) ==
    CASE SlotKind(cmd) = "MGet"        -> Command("get", <<cmd.keys[i]>>, <<>>)
      [] SlotKind(cmd) = "MSet"        -> Command("set", <<cmd.keys[i]>>, <<cmd.vals[i]>>)
      [] SlotKind(cmd) = "ExistsCount" -> Command("exists", <<cmd.keys[i]>>, <<>>)
      [] OTHER                         -> Command("del", <<cmd.keys[i]>>, <<>>)

\* Mutant: the loop over the keys stops one short.
FragmentsButLast(c, q, cmd) ==
    [i \in 1 .. Len(cmd.keys) - 1 |->
        To(Owner[cmd.keys[i]],
           ExecTask(c, q, i, IsIntKind(SlotKind(cmd)), SubCommand(cmd, i)))]

\* The posts of one spanning command, one per key in key order.  The shard's
\* own keys go through its mailbox too.
Fragments(c, q, cmd) ==
    [i \in 1 .. Len(cmd.keys) |->
        To(Owner[cmd.keys[i]],
           ExecTask(c, q, i, IsIntKind(SlotKind(cmd)), SubCommand(cmd, i)))]

\* The value of the i-th key is read from argv[2 * i + 2] without a look at argc.
\* For the last key of an MSET that has none this is past the end, and the
\* value is whatever is found there.
ReadPairs(cmd) ==
    IF WholePairs(cmd) THEN {cmd} ELSE {[cmd EXCEPT !.vals = Append(@, v)] : v \in Vals}

\* flush_all_shards: one task for every shard but s, in shard order.
FlushPosts(s) ==
    [i \in 1 .. NShards - 1 |-> To(IF i - 1 < s THEN i - 1 ELSE i, FlushTask)]

-----------------------------------------------------------------------------
Init ==
    /\ status    = [c \in Conns |-> "new"]
    /\ in        = [c \in Conns |-> <<>>]
    /\ closing   = [c \in Conns |-> FALSE]
    /\ pipeline  = [c \in Conns |-> <<>>]
    /\ next_seq  = [c \in Conns |-> 0]
    /\ out       = [c \in Conns |-> <<>>]
    /\ db        = [s \in Shards |-> EmptyDb]
    /\ mailbox   = [s \in Shards |-> <<>>]
    /\ batch     = [s \in Shards |-> <<>>]
    /\ busy      = [s \in Shards |-> NoConn]
    /\ outbox    = [s \in Shards |-> <<>>]
    /\ submitted = [c \in Conns |-> <<>>]
    /\ delivered = [c \in Conns |-> <<>>]
    /\ log       = [s \in Shards |-> <<>>]
    /\ sent      = [c \in Conns |-> 0]

\* The loop is between two handlers: reactor wait or the next event.
Idle(s) == busy[s] = NoConn /\ batch[s] = <<>> /\ outbox[s] = <<>>

-----------------------------------------------------------------------------
(* Output.                                                                 *)

\* Mutant: the last slot is never flushed.
ReadyCountButLast(p) ==
    Cardinality({n \in 1 .. Len(p) - 1 : \A i \in 1 .. n : p[i].ready})

\* flush_ready(): the number of leading ready slots.
ReadyCount(p) == Cardinality({n \in 1 .. Len(p) : \A i \in 1 .. n : p[i].ready})

Flushed(p)   == [i \in 1 .. ReadyCount(p) |-> [seq |-> p[i].seq, bytes |-> p[i].bytes]]
Unflushed(p) == SubSeq(p, ReadyCount(p) + 1, Len(p))

\* How many of n buffered replies one handle_writable() may get out.
Writable(n) == IF "partial" \in Faults THEN 0 .. n ELSE {n}

\* close_conn(): the connection leaves conns_ and its buffers are freed.
CloseConn(c) ==
    /\ status'   = [status EXCEPT ![c] = "closed"]
    /\ in'       = [in EXCEPT ![c] = <<>>]
    /\ pipeline' = [pipeline EXCEPT ![c] = <<>>]
    /\ out'      = [out EXCEPT ![c] = <<>>]

\* The end of on_conn_ready() and complete_fragment(): close once nothing is owed.
CloseOrKeep(c, i, p, o, cl) ==
    /\ closing' = [closing EXCEPT ![c] = cl]
    /\ IF cl /\ p = <<>> /\ o = <<>>
       THEN CloseConn(c)
       ELSE /\ pipeline' = [pipeline EXCEPT ![c] = p]
            /\ out'      = [out EXCEPT ![c] = o]
            /\ in'       = [in EXCEPT ![c] = i]
            /\ UNCHANGED status

\* handle_writable() on output o, then the close decision.  A failed write
\* leaves the rest in the buffer and marks the connection as closing.
WriteAndSettle(c, p, o) ==
    \E k \in Writable(Len(o)), fails \in BOOLEAN :
        /\ fails => k < Len(o) /\ "werr" \in Faults
        /\ delivered' = [delivered EXCEPT ![c] = @ \o SubSeq(o, 1, k)]
        /\ CloseOrKeep(c, in[c], p, SubSeq(o, k + 1, Len(o)), closing[c] \/ fails)

-----------------------------------------------------------------------------
(* Events.                                                                 *)

\* Mutant: ids of closed connections are handed out again.
AcceptReusingIds(c) ==
    /\ status[c] \in {"new", "closed"}
    /\ Idle(Home[c])
    /\ status' = [status EXCEPT ![c] = "open"]
    /\ UNCHANGED <<in, closing, pipeline, next_seq, out, db, mailbox, batch, busy,
                   outbox, submitted, delivered, log, sent>>

\* on_listen_ready()
Accept(c) ==
    /\ status[c] = "new"
    /\ Idle(Home[c])
    /\ status' = [status EXCEPT ![c] = "open"]
    /\ UNCHANGED <<in, closing, pipeline, next_seq, out, db, mailbox, batch, busy,
                   outbox, submitted, delivered, log, sent>>

\* handle_readable(), up to process_input(): the read loop appends what has
\* arrived and may meet end of file in the same burst.  Once closing, whatever
\* arrives is no longer parsed, and level-triggered polling repeats the event.
HandleReadable(c) ==
    \E n \in 0 .. MaxBurst : \E reqs \in [1 .. n -> Requests[c]], eof \in BOOLEAN :
        /\ status[c] = "open"
        /\ Idle(Home[c])
        /\ eof => "eof" \in Faults
        /\ IF closing[c] THEN n = 0 /\ ~eof ELSE n > 0 \/ eof
        /\ sent[c] + n <= MaxRequests[c]
        /\ sent'    = [sent EXCEPT ![c] = @ + n]
        /\ in'      = [in EXCEPT ![c] = @ \o reqs]
        /\ closing' = [closing EXCEPT ![c] = @ \/ eof]
        /\ busy'    = [busy EXCEPT ![Home[c]] = c]
        /\ UNCHANGED <<status, pipeline, next_seq, out, db, mailbox, batch, outbox,
                       submitted, delivered, log>>

\* The loop of process_input() has a request to parse.
Parsing(s, c) ==
    /\ busy[s] = c
    /\ outbox[s] = <<>>
    /\ ~closing[c]
    /\ in[c] # <<>>

\* Mutant: the pipeline is not kept in sequence order.
SubmitUnordered(c, slot) ==
    /\ pipeline'  = [pipeline EXCEPT ![c] = <<slot>> \o @]
    /\ next_seq'  = [next_seq EXCEPT ![c] = @ + 1]
    /\ submitted' = [submitted EXCEPT ![c] = Append(@, Head(in[c]))]

\* The reply slot every dispatch() opens at its sequence number.
Submit(c, slot) ==
    /\ pipeline'  = [pipeline EXCEPT ![c] = Append(@, slot)]
    /\ next_seq'  = [next_seq EXCEPT ![c] = @ + 1]
    /\ submitted' = [submitted EXCEPT ![c] = Append(@, Head(in[c]))]

\* A protocol error takes a slot like any other reply and ends the input.
ProtocolError(s, c) ==
    /\ Parsing(s, c)
    /\ Head(in[c]).op = "malformed"
    /\ Submit(c, ReadySlot(next_seq[c], Err("PROTOCOL")))
    /\ closing' = [closing EXCEPT ![c] = TRUE]
    /\ UNCHANGED <<status, in, out, db, mailbox, batch, busy, outbox, delivered, log, sent>>

\* dispatch() of a command that parsed.
Dispatching(s, c) ==
    /\ Parsing(s, c)
    /\ Head(in[c]).op # "malformed"
    /\ in' = [in EXCEPT ![c] = Tail(@)]
    /\ UNCHANGED <<status, closing, out, mailbox, batch, busy, delivered, sent>>

\* No owner to ask: an unknown command, or a keyless one run where it arrived.
DispatchKeyless(s, c) ==
    LET cmd == Head(in[c])
    IN  /\ Dispatching(s, c)
        /\ cmd.op \in {"unknown", "ping"}
        /\ Submit(c, ReadySlot(next_seq[c], Answer(cmd, db[s])))
        /\ UNCHANGED <<db, outbox, log>>

\* FLUSHALL clears this shard at once and posts the others' flushes.
DispatchFlushall(s, c) ==
    /\ Dispatching(s, c)
    /\ Head(in[c]).op = "flushall"
    /\ Submit(c, ReadySlot(next_seq[c], Ok))
    /\ db'     = [db EXCEPT ![s] = EmptyDb]
    /\ outbox' = [outbox EXCEPT ![s] = FlushPosts(s)]
    /\ UNCHANGED log

DispatchLocal(s, c) ==
    LET cmd == Head(in[c])
    IN  /\ Dispatching(s, c)
        /\ cmd.keys # <<>>
        /\ ~SpansShards(cmd)
        /\ Owner[cmd.keys[1]] = s
        /\ Submit(c, ReadySlot(next_seq[c], Answer(cmd, db[s])))
        /\ db'  = [db EXCEPT ![s] = Effect(cmd, @)]
        /\ log' = [log EXCEPT ![s] = @ \o Accesses(c, next_seq[c], 1, cmd, db[s])]
        /\ UNCHANGED outbox

DispatchForward(s, c) ==
    LET cmd == Head(in[c])
    IN  /\ Dispatching(s, c)
        /\ cmd.keys # <<>>
        /\ ~SpansShards(cmd)
        /\ Owner[cmd.keys[1]] # s
        /\ Submit(c, PendingSlot(next_seq[c], "Single", 1))
        /\ outbox' = [outbox EXCEPT ![s] =
              <<To(Owner[cmd.keys[1]], ExecTask(c, next_seq[c], 1, FALSE, cmd))>>]
        /\ UNCHANGED <<db, log>>

DispatchMultikey(s, c) ==
    LET cmd == Head(in[c])
    IN  /\ Dispatching(s, c)
        /\ SpansShards(cmd)
        /\ cmd.op \in Decomposable
        /\ Submit(c, PendingSlot(next_seq[c], SlotKind(cmd), Len(cmd.keys)))
        /\ \E whole \in ReadPairs(cmd) :
              outbox' = [outbox EXCEPT ![s] = Fragments(c, next_seq[c], whole)]
        /\ UNCHANGED <<db, log>>

DispatchCrossslot(s, c) ==
    LET cmd == Head(in[c])
    IN  /\ Dispatching(s, c)
        /\ SpansShards(cmd)
        /\ cmd.op \notin Decomposable
        /\ Submit(c, ReadySlot(next_seq[c], Err("CROSSSLOT")))
        /\ UNCHANGED <<db, outbox, log>>

\* The rest of process_input(), handle_readable() and on_conn_ready() once
\* nothing is left to parse: flush_ready, handle_writable, close decision.
FinishReadable(s, c) ==
    /\ busy[s] = c
    /\ outbox[s] = <<>>
    /\ closing[c] \/ in[c] = <<>>
    /\ WriteAndSettle(c, Unflushed(pipeline[c]), out[c] \o Flushed(pipeline[c]))
    /\ busy' = [busy EXCEPT ![s] = NoConn]
    /\ UNCHANGED <<next_seq, db, mailbox, batch, outbox, submitted, log, sent>>

\* A kWrite event; the socket takes at least one reply.
HandleWritable(c) ==
    /\ status[c] = "open"
    /\ Idle(Home[c])
    /\ out[c] # <<>>
    /\ WriteAndSettle(c, pipeline[c], out[c])
    /\ delivered' # delivered
    /\ UNCHANGED <<next_seq, db, mailbox, batch, busy, outbox, submitted, log, sent>>

\* A kError event closes at once, whatever is owed.
HandleError(c) ==
    /\ "reset" \in Faults
    /\ status[c] = "open"
    /\ Idle(Home[c])
    /\ CloseConn(c)
    /\ UNCHANGED <<closing, next_seq, db, mailbox, batch, busy, outbox,
                   submitted, delivered, log, sent>>

-----------------------------------------------------------------------------
(* Mailboxes.                                                              *)

\* post(): push the next task of the current handler.
Post(s) ==
    LET p == Head(outbox[s])
    IN  /\ outbox[s] # <<>>
        /\ mailbox' = [mailbox EXCEPT ![p.to] = Append(@, p.task)]
        /\ outbox'  = [outbox EXCEPT ![s] = Tail(@)]
        /\ UNCHANGED <<status, in, closing, pipeline, next_seq, out, db, batch, busy,
                       submitted, delivered, log, sent>>

\* Mutant: the drain does not put the tasks back in posting order.
DrainUnreversed(s) ==
    /\ Idle(s)
    /\ mailbox[s] # <<>>
    /\ batch'   = [batch EXCEPT ![s] =
          [i \in 1 .. Len(mailbox[s]) |-> mailbox[s][Len(mailbox[s]) + 1 - i]]]
    /\ mailbox' = [mailbox EXCEPT ![s] = <<>>]
    /\ UNCHANGED <<status, in, closing, pipeline, next_seq, out, db, busy, outbox,
                   submitted, delivered, log, sent>>

\* mailbox_.drain() takes everything posted so far.
Drain(s) ==
    /\ Idle(s)
    /\ mailbox[s] # <<>>
    /\ batch'   = [batch EXCEPT ![s] = mailbox[s]]
    /\ mailbox' = [mailbox EXCEPT ![s] = <<>>]
    /\ UNCHANGED <<status, in, closing, pipeline, next_seq, out, db, busy, outbox,
                   submitted, delivered, log, sent>>

\* Mutant: drain() does not step past the task it runs.
RunningAgain(s, type) ==
    /\ outbox[s] = <<>>
    /\ batch[s] # <<>>
    /\ Head(batch[s]).type = type
    /\ UNCHANGED batch

\* drain() runs the next task of its batch.
Running(s, type) ==
    /\ outbox[s] = <<>>
    /\ batch[s] # <<>>
    /\ Head(batch[s]).type = type
    /\ batch' = [batch EXCEPT ![s] = Tail(@)]

\* The owner executes a forwarded command and posts the reply to its origin.
RunExec(s) ==
    LET t     == Head(batch[s])
        reply == Answer(t.cmd, db[s])
        val   == IF t.is_int THEN ParseRespInteger(reply) ELSE 0
    IN  /\ Running(s, "exec")
        /\ db'     = [db EXCEPT ![s] = Effect(t.cmd, @)]
        /\ log'    = [log EXCEPT ![s] = @ \o Accesses(t.conn, t.seq, t.index, t.cmd, db[s])]
        /\ outbox' = [outbox EXCEPT ![s] =
              <<To(Home[t.conn], DoneTask(t.conn, t.seq, t.index, t.is_int, reply, val))>>]
        /\ UNCHANGED <<status, in, closing, pipeline, next_seq, out, mailbox, busy,
                       submitted, delivered, sent>>

\* Shard::flush()
RunFlush(s) ==
    /\ Running(s, "flush")
    /\ db' = [db EXCEPT ![s] = EmptyDb]
    /\ UNCHANGED <<status, in, closing, pipeline, next_seq, out, mailbox, busy, outbox,
                   submitted, delivered, log, sent>>

\* Mutant: the slot is assembled one fragment early.
CompleteSlotEarly(p, t) ==
    LET got == IF t.is_int
               THEN [p EXCEPT !.accum = @ + t.val, !.remaining = @ - 1]
               ELSE [p EXCEPT !.frags[t.index] = t.reply, !.remaining = @ - 1]
    IN  IF got.remaining <= 1
        THEN [got EXCEPT !.bytes = Assemble(got), !.ready = TRUE]
        ELSE got

\* complete_fragment() on the slot itself.
CompleteSlot(p, t) ==
    LET got == IF t.is_int
               THEN [p EXCEPT !.accum = @ + t.val, !.remaining = @ - 1]
               ELSE [p EXCEPT !.frags[t.index] = t.reply, !.remaining = @ - 1]
    IN  IF got.remaining = 0
        THEN [got EXCEPT !.bytes = Assemble(got), !.ready = TRUE]
        ELSE got

\* complete_fragment() finds the connection and the slot still there.
Completes(t) ==
    /\ status[t.conn] = "open"
    /\ \E i \in 1 .. Len(pipeline[t.conn]) : pipeline[t.conn][i].seq = t.seq

Completed(p, t) ==
    [i \in 1 .. Len(p) |-> IF p[i].seq = t.seq THEN CompleteSlot(p[i], t) ELSE p[i]]

RunDone(s) ==
    LET t == Head(batch[s])
        p == Completed(pipeline[t.conn], t)
    IN  /\ Running(s, "done")
        /\ Completes(t)
        /\ WriteAndSettle(t.conn, Unflushed(p), out[t.conn] \o Flushed(p))
        /\ UNCHANGED <<next_seq, db, mailbox, busy, outbox, submitted, log, sent>>

\* The client is gone: the completion is dropped.
DropDone(s) ==
    /\ Running(s, "done")
    /\ ~Completes(Head(batch[s]))
    /\ UNCHANGED <<status, in, closing, pipeline, next_seq, out, db, mailbox, busy, outbox,
                   submitted, delivered, log, sent>>

-----------------------------------------------------------------------------
Dispatch(s, c) ==
    \/ ProtocolError(s, c)
    \/ DispatchKeyless(s, c)
    \/ DispatchFlushall(s, c)
    \/ DispatchLocal(s, c)
    \/ DispatchForward(s, c)
    \/ DispatchMultikey(s, c)
    \/ DispatchCrossslot(s, c)

RunTask(s) == RunExec(s) \/ RunFlush(s) \/ RunDone(s) \/ DropDone(s)

Next ==
    \/ \E c \in Conns : Accept(c) \/ HandleReadable(c) \/ HandleWritable(c) \/ HandleError(c)
    \/ \E s \in Shards, c \in Conns : Dispatch(s, c) \/ FinishReadable(s, c)
    \/ \E s \in Shards : Post(s) \/ Drain(s) \/ RunTask(s)

Spec == Init /\ [][Next]_vars

\* A shard's thread keeps running what it has started, every turn of its loop
\* drains the mailbox, and a client that is owed output keeps reading it.
Fairness ==
    /\ \A s \in Shards : /\ WF_vars(Post(s))
                         /\ WF_vars(RunTask(s))
                         /\ SF_vars(Drain(s))
    /\ \A s \in Shards, c \in Conns : WF_vars(Dispatch(s, c) \/ FinishReadable(s, c))
    /\ \A c \in Conns : SF_vars(HandleWritable(c))

FairSpec == Spec /\ Fairness
-----------------------------------------------------------------------------
(* Properties.                                                             *)

SlotRecord == [seq : Nat, ready : BOOLEAN, bytes : Reply, kind : Kinds, remaining : Int,
               frags : Seq(HandlerReply), accum : Nat]
\* A slot that waits for the reply of one forwarded command has room for it.
Slot == {p \in SlotRecord : p.kind = "Single" /\ p.remaining > 0 => p.frags # <<>>}
SentReply == [seq : Nat, bytes : Reply]
Exec == [type : {"exec"}, conn : Conns, seq : Nat, index : Nat \ {0}, is_int : BOOLEAN,
         cmd : AllCommands]
Done == [type : {"done"}, conn : Conns, seq : Nat, index : Nat \ {0}, is_int : BOOLEAN,
         reply : HandlerReply, val : Nat]
Task == Exec \cup Done \cup {FlushTask}
Access == [conn : Conns, seq : Nat, index : Nat \ {0}, key : Keys,
           before : Object \cup {NoKey}, after : Object \cup {NoKey}]

\* Type invariant: the shapes of connections, slots, tasks and databases.
TypeOK ==
    /\ status    \in [Conns -> {"new", "open", "closed"}]
    /\ in        \in [Conns -> Seq(AllCommands)]
    /\ closing   \in [Conns -> BOOLEAN]
    /\ pipeline  \in [Conns -> Seq(Slot)]
    /\ next_seq  \in [Conns -> Nat]
    /\ out       \in [Conns -> Seq(SentReply)]
    /\ db        \in [Shards -> Db]
    /\ mailbox   \in [Shards -> Seq(Task)]
    /\ batch     \in [Shards -> Seq(Task)]
    /\ busy      \in [Shards -> Conns \cup {NoConn}]
    /\ outbox    \in [Shards -> Seq([to : Shards, task : Task])]
    /\ submitted \in [Conns -> Seq(AllCommands)]
    /\ delivered \in [Conns -> Seq(SentReply)]
    /\ log       \in [Shards -> Seq(Access)]
    /\ sent      \in [Conns -> Nat]

\* However local commands, forwarded commands and fragments complete, a client
\* reads the replies of its pipeline in submission order, none skipped, none
\* twice (flush_ready, shard.cpp:239; shard.hpp:37).
ReplyOrder ==
    \A c \in Conns : \A i \in 1 .. Len(delivered[c]) : delivered[c][i].seq = i - 1

\* Shared nothing: a key only ever lives on the shard that shard_for names, so
\* no command was executed by a shard that does not own its keys.
Ownership ==
    \A s \in Shards, k \in Keys : db[s][k] # NoKey => Owner[k] = s

(* Why ReplyOrder and Ownership hold: the invariant their proofs induct on. *)

\* A task is where it belongs: requests at the owner of their keys, completions
\* at the home of their connection.
Addressed(t, s) ==
    /\ t.type = "exec" => \A k \in KeysOf(t.cmd) : Owner[k] = s
    /\ t.type = "done" => Home[t.conn] = s

TasksAddressed ==
    \A s \in Shards :
        /\ \A i \in 1 .. Len(mailbox[s]) : Addressed(mailbox[s][i], s)
        /\ \A i \in 1 .. Len(batch[s]) : Addressed(batch[s][i], s)
        /\ \A i \in 1 .. Len(outbox[s]) : Addressed(outbox[s][i].task, outbox[s][i].to)

\* While a read event is handled its connection is open, belongs to this shard,
\* and no task runs that could close it.
OneHandlerAtATime ==
    \A s \in Shards : busy[s] # NoConn =>
        Home[busy[s]] = s /\ status[busy[s]] = "open" /\ batch[s] = <<>>

ConsecutiveFrom(q, n) == \A i \in 1 .. Len(q) : q[i].seq = n + i - 1

\* What a client has read, what is buffered and what is pending are, in this
\* order, the sequence numbers 0, 1, ... up to next_seq of its connection.
SlotsInOrder ==
    \A c \in Conns :
        LET d == Len(delivered[c])
            o == Len(out[c])
            p == Len(pipeline[c])
        IN  /\ ConsecutiveFrom(delivered[c], 0)
            /\ ConsecutiveFrom(out[c], d)
            /\ ConsecutiveFrom(pipeline[c], d + o)
            /\ status[c] # "closed" => next_seq[c] = d + o + p

\* The inductive invariant of the proofs: a handler never works for a closed
\* connection or on a key of another shard, and no reply slot is ever lost.
ShardInvariant == TypeOK /\ Ownership /\ TasksAddressed /\ OneHandlerAtATime /\ SlotsInOrder

EntriesOf(c, q) ==
    UNION {{log[s][i] : i \in {j \in 1 .. Len(log[s]) : log[s][j].conn = c
                                                       /\ log[s][j].seq = q}}
           : s \in Shards}

\* The database as command q of c met it, key by key.
Seen(c, q) ==
    [k \in Keys |-> IF \E e \in EntriesOf(c, q) : e.key = k
                    THEN (CHOOSE e \in EntriesOf(c, q) : e.key = k).before
                    ELSE NoKey]

Routed(cmd) == cmd.keys # <<>> /\ (SpansShards(cmd) => cmd.op \in Decomposable)

\* A reply that reaches a client was computed after every key of its command
\* was accessed, and it is the reply the command's own handler gives for the
\* values met there: forwarding and splitting are invisible in the answer.
FaithfulReply ==
    \A c \in Conns : \A i \in 1 .. Len(delivered[c]) :
        LET cmd == submitted[c][i]
        IN  Routed(cmd) =>
              /\ {e.index : e \in EntriesOf(c, i - 1)} = 1 .. Len(cmd.keys)
              /\ delivered[c][i].bytes = Answer(cmd, Seen(c, i - 1))

\* No command, and no fragment of one, is executed twice.
AtMostOnce ==
    \A s \in Shards : \A i, j \in 1 .. Len(log[s]) :
        /\ log[s][i].conn  = log[s][j].conn
        /\ log[s][i].seq   = log[s][j].seq
        /\ log[s][i].index = log[s][j].index
        => i = j

\* Every access leaves its key as the command the client sent would leave it,
\* and there is only one of each: splitting a command into sub-requests does
\* not change what is written, whatever the order in which mailboxes are
\* drained and connections close.
FaithfulEffect ==
    /\ AtMostOnce
    /\ \A s \in Shards : \A i \in 1 .. Len(log[s]) :
         LET e   == log[s][i]
             cmd == submitted[e.conn][e.seq + 1]
         IN  e.after = Effect(cmd, Seen(e.conn, e.seq))[e.key]

(* Where tasks wait: what a shard has yet to run, the batch it has taken     *)
(* before what was posted since, and what its handler has yet to push.      *)

Places      == {"inbox", "outbox"} \X Shards
Inbox(s)    == batch[s] \o mailbox[s]
Outgoing(s) == [i \in 1 .. Len(outbox[s]) |-> outbox[s][i].task]
Lines       == [x \in Places |-> IF x[1] = "inbox" THEN Inbox(x[2]) ELSE Outgoing(x[2])]

Positions(lines) == UNION {{x} \X DOMAIN lines[x] : x \in DOMAIN lines}

AboutSlot(t, c, q) == t.type # "flush" /\ t.conn = c /\ t.seq = q

Waiting(lines, c, q) ==
    {p \in Positions(lines) : AboutSlot(lines[p[1]][p[2]], c, q)}

InFlight(c, q) == Cardinality(Waiting(Lines, c, q))

\* A slot waits for exactly the fragments still under way: `remaining` never
\* reaches zero early, never goes negative, and no slot is left waiting for
\* nothing.
RemainingInFlight ==
    \A c \in Conns : \A i \in 1 .. Len(pipeline[c]) :
        LET p == pipeline[c][i]
        IN  /\ p.remaining = InFlight(c, p.seq)
            /\ p.ready <=> p.remaining = 0

\* Commands of one connection on one key of another shard execute there in the
\* order they were sent: single-owner forwards and fragments share one FIFO.
RemoteOrder ==
    \A s \in Shards : \A i, j \in 1 .. Len(log[s]) :
        /\ i < j
        /\ log[s][i].conn = log[s][j].conn
        /\ log[s][i].key = log[s][j].key
        /\ Home[log[s][i].conn] # s
        => log[s][i].seq <= log[s][j].seq

\* What DESIGN.md:58 promises of pipelining: commands of one connection on one
\* key execute in the order they were sent, wherever the key lives.
PipelineOrder ==
    \A s \in Shards : \A i, j \in 1 .. Len(log[s]) :
        /\ i < j
        /\ log[s][i].conn = log[s][j].conn
        /\ log[s][i].key = log[s][j].key
        => log[s][i].seq <= log[s][j].seq

\* Every command that was dispatched is answered, unless its connection closes.
EveryCommandAnswered ==
    \A c \in Conns : \A q \in 0 .. MaxRequests[c] - 1 :
        (next_seq[c] > q) ~> (Len(delivered[c]) > q \/ status[c] = "closed")

Executed(c, q) ==
    /\ next_seq[c] > q
    /\ {e.index : e \in EntriesOf(c, q)} = 1 .. Len(submitted[c][q + 1].keys)

\* A dispatched command takes effect on all its keys even when the client that
\* sent it disconnects while its fragments are under way.
NoHalfDoneCommand ==
    \A c \in Conns : \A q \in 0 .. MaxRequests[c] - 1 :
        (next_seq[c] > q /\ Routed(submitted[c][q + 1])) ~> Executed(c, q)

\* A connection that is to be closed does get closed once its replies are out.
ClosingCloses == \A c \in Conns : closing[c] ~> status[c] = "closed"

\* A connection that closed stays closed, and its client reads nothing more:
\* completions that come back for it are dropped.
ClosedIsFinal ==
    [][\A c \in Conns : status[c] = "closed" =>
          status'[c] = "closed" /\ delivered'[c] = delivered[c]]_vars
=============================================================================
