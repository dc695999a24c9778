--------------------------- MODULE RequestStream ---------------------------
(***************************************************************************)
(* The byte stream of one connection (Shard::handle_readable() and         *)
(* process_input()): bytes arrive in bursts of any length, are read in     *)
(* chunks, parsed into commands, dispatched and answered.  The client may  *)
(* shut down its side at any time.                                         *)
(*                                                                         *)
(* The client sends requests: a multibulk request or an inline line with   *)
(* its arguments, or one of the malformed ones.  How a command is executed *)
(* and how its reply waits for those before it are the subject of modules  *)
(* Shard and Store: here a known command is answered by Handler.           *)
(***************************************************************************)
EXTENDS Resp

CONSTANTS Streams,          \* what a client may send, each a sequence of requests
          Known,            \* the names the registry finds
          Handler(_),       \* the reply of a known command
          kReadChunk,       \* the most that one read() takes
          kMaxInlineBuffer  \* the most that may be waiting in `in`

ASSUME RequestStreamAssumption ==
    /\ kReadChunk \in Nat \ {0}
    /\ kMaxInlineBuffer \in Nat

VARIABLES
  stream,     \* the requests of this client
  wire,       \* its bytes that have not been read
  shut,       \* the client has shut down its side
  in,         \* Connection::in
  closing,    \* Connection::closing
  dispatched, \* the commands dispatched so far
  out         \* the bytes appended to Connection::out so far

vars == <<stream, wire, shut, in, closing, dispatched, out>>

\* What the client writes for a request.
Encoding(request) ==
    CASE request.form = "multibulk" -> EncodeMultibulk(request.argv)
      [] request.form = "inline"    -> FlattenSeq([i \in DOMAIN request.argv |-> <<"SP">> \o request.argv[i]]) \o CRLF
      [] request.form = "malformed" -> request.bytes

Init ==
    /\ stream \in Streams
    /\ wire = FlattenSeq([i \in DOMAIN stream |-> Encoding(stream[i])])
    /\ shut = FALSE /\ in = <<>> /\ closing = FALSE
    /\ dispatched = <<>> /\ out = <<>>
-----------------------------------------------------------------------------
Error(text) == [kind |-> "error", val |-> text]

\* dispatch(): the name of an unknown command is put into the error.
Answer(argv) == IF argv[1] \in Known THEN Handler(argv) ELSE Error(<<"unknown", "SP">> \o argv[1])

\* The loop of process_input() from a state [in, dispatched, out, closing];
\* a blank line is dropped.
RECURSIVE ProcessInput(_)
ProcessInput(c) ==
    LET p    == Parse(c.in)
        next == [c EXCEPT !.in = SubSeq(c.in, p.consumed + 1, Len(c.in))]
    IN  IF c.closing \/ p.st = "NeedMore" THEN c
        ELSE IF p.st = "ProtocolError"
        THEN [c EXCEPT !.closing = TRUE, !.out = @ \o Build(Error(<<"protocol">>))]
        ELSE IF p.argv = <<>> THEN ProcessInput(next)
        ELSE ProcessInput([next EXCEPT !.dispatched = Append(@, p.argv),
                                       !.out = @ \o Build(Answer(p.argv))])

\* The reads of handle_readable() when k bytes are there: the loop ends with the
\* first read that is not full, and only a read of nothing sees the end.
SeesEnd(k) == shut /\ k = Len(wire) /\ k % kReadChunk = 0

Readable(k) ==
    /\ k \in 0 .. Len(wire)
    /\ k > 0 \/ (shut /\ ~closing)
    /\ LET bytes == in \o SubSeq(wire, 1, k)
           c     == ProcessInput([in |-> bytes, dispatched |-> dispatched, out |-> out,
                                  closing |-> closing \/ SeesEnd(k) \/ Len(bytes) > kMaxInlineBuffer])
       IN  /\ in' = c.in /\ dispatched' = c.dispatched
           /\ out' = c.out /\ closing' = c.closing
    /\ wire' = SubSeq(wire, k + 1, Len(wire))
    /\ UNCHANGED <<stream, shut>>

\* The client shuts down its side; what it sent before still arrives.
ShutDown ==
    /\ ~shut
    /\ shut' = TRUE
    /\ UNCHANGED <<stream, wire, in, closing, dispatched, out>>

Next == ShutDown \/ \E k \in 0 .. Len(wire) : Readable(k)

Spec == Init /\ [][Next]_vars
-----------------------------------------------------------------------------
(* Properties.                                                             *)

\* The requests whose last byte is among the first k, before a malformed one.
RECURSIVE CompleteIn(_, _)
CompleteIn(requests, k) ==
    IF requests = <<>> \/ Len(Encoding(Head(requests))) > k THEN <<>>
    ELSE IF Head(requests).form = "malformed" THEN <<>>
    ELSE (IF Head(requests).argv = <<>> THEN <<>> ELSE <<Head(requests).argv>>)
         \o CompleteIn(Tail(requests), k - Len(Encoding(Head(requests))))

Arrived == FoldLeft(LAMBDA m, r : m + Len(Encoding(r)), 0, stream) - Len(wire)

\* The commands dispatched are the complete requests that have arrived, with
\* their arguments, however the stream was cut into bursts (shard.cpp:211) and
\* whatever bytes the arguments hold.  Two things lose complete requests: the
\* end of the stream right behind full reads (shard.cpp:196) and a buffer that
\* has grown too large (shard.cpp:205).
BurstsDoNotMatter ==
    LET complete == CompleteIn(stream, Arrived)
    IN  /\ IsPrefix(dispatched, complete)
        /\ ~closing => dispatched = complete
        /\ \/ dispatched = complete
           \/ shut /\ wire = <<>> /\ Len(in) >= kReadChunk
           \/ Arrived > kMaxInlineBuffer

\* What the query console reads (ReplyReader, server.cpp:356).
RECURSIVE ReadAll(_, _)
ReadAll(data, pos) ==
    IF pos > Len(data) THEN <<>>
    ELSE LET one == ReadReply(data, pos) IN <<one.shown>> \o ReadAll(data, one.pos)

Replies == [i \in DOMAIN dispatched |-> Answer(dispatched[i])]

\* How many of the replies come before the first that holds a NUL byte.
BeforeNul ==
    LET held == {i \in DOMAIN Replies : "NUL" \in Range(Build(Replies[i]))}
    IN  IF held = {} THEN Len(Replies) ELSE Min(held) - 1

\* What the console reads back from the output of the connection are the replies
\* of the commands dispatched, in their order: the framing of one reply never
\* reaches into the next one.  This ends with the first reply that holds a NUL,
\* which the reader takes for the end of the stream (server.cpp:405, 418).
RepliesReadBack ==
    LET shown == ReadAll(out, 1)
    IN  /\ IsPrefix(SubSeq(Replies, 1, BeforeNul), shown)
        /\ BeforeNul = Len(dispatched) =>
             /\ Len(shown) > Len(dispatched) => closing /\ Last(shown) = Error(<<"protocol">>)
             /\ Len(shown) <= Len(dispatched) + 1
=============================================================================
