-------------------------- MODULE MCRequestStream --------------------------
(***************************************************************************)
(* An instance of RequestStream for TLC: streams of two requests           *)
(* whose arguments look like parts of the protocol.                        *)
(***************************************************************************)
EXTENDS RequestStream

Multibulk(argv) == [form |-> "multibulk", argv |-> argv]
Inline(argv)    == [form |-> "inline", argv |-> argv]
Malformed(b)    == [form |-> "malformed", bytes |-> b]

MCKnown == {<<"p">>, <<"i">>, <<"g">>, <<"a">>}

\* PING, an integer reply, GET (null without a value), and an array reply.
MCHandler(argv) ==
    LET args == Tail(argv)
        BulkReply(s) == [kind |-> "bulk", val |-> s]
    IN  CASE argv[1] = <<"p">> -> [kind |-> "simple", val |-> <<"ok">>]
          [] argv[1] = <<"i">> -> [kind |-> "integer", val |-> 11 * Len(args) - 1]
          [] argv[1] = <<"g">> -> IF args = <<>> THEN [kind |-> "nil", val |-> "$"] ELSE BulkReply(args[1])
          [] argv[1] = <<"a">> ->
               [kind |-> "array",
                val |-> <<[kind |-> "array", val |-> [k \in DOMAIN args |-> BulkReply(args[k])]],
                          [kind |-> "nil", val |-> "*"]>>]

Payloads == {<<>>, CRLF, <<"CR", "$", "1">>, <<"LF", "*", "0">>, <<"NUL", "CR", "LF">>}

Requests ==
    {Multibulk(<<name, p>>) : name \in {<<"g">>, <<"a">>}, p \in Payloads}
    \cup {Multibulk(<<>>), Multibulk(<<<<"i">>, <<"x">>>>), Multibulk(<<<<"y", "LF">>>>)}
    \cup {Inline(<<>>), Inline(<<<<"p">>>>), Inline(<<<<"i">>, <<"$">>>>)}
    \cup {Malformed(<<"*", "-", "1">> \o CRLF), Malformed(<<"*", "x">> \o CRLF),
          Malformed(<<"*", "1">> \o CRLF \o <<"+", "1">> \o CRLF),
          Malformed(<<"*", "1">> \o CRLF \o <<"$">> \o CRLF)}

\* A line without an end, longer than MaxInlineRequest.
Endless == Malformed([i \in 1 .. 14 |-> "x"])

MCStreams == {<<r, s>> : r \in Requests, s \in Requests \cup {Endless}}
=============================================================================
