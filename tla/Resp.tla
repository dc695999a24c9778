-------------------------------- MODULE Resp --------------------------------
(***************************************************************************)
(* The wire protocol: RequestParser, ReplyBuilder and encode_multibulk()   *)
(* (resp.cpp), and the ReplyReader of the query console (server.cpp).      *)
(*                                                                         *)
(* A buffer is a sequence of bytes.  The bytes that the code tells apart   *)
(* have a name of their own: "CR", "LF", "SP" (a blank or a tab), "NUL",   *)
(* "*", "$", "+", ":", "-" and the digits; any other string is another     *)
(* byte.                                                                   *)
(***************************************************************************)
EXTENDS Integers, Sequences, SequencesExt, FiniteSetsExt

CONSTANT MaxInlineRequest   \* 64 * 1024: an inline request that is too long

Digits == <<"0", "1", "2", "3", "4", "5", "6", "7", "8", "9">>
DigitValue == [d \in Range(Digits) |-> CHOOSE v \in 0 .. 9 : Digits[v + 1] = d]

CRLF == <<"CR", "LF">>

\* append_ll()
AppendLL(v) ==
    LET RECURSIVE Decimal(_)
        Decimal(m) == IF m < 10 THEN <<Digits[m + 1]>>
                      ELSE Append(Decimal(m \div 10), Digits[(m % 10) + 1])
    IN  IF v < 0 THEN <<"-">> \o Decimal(-v) ELSE Decimal(v)

\* to_ll(): a set that holds the number, or nothing if this is none.
ToLL(s) ==
    LET minus  == Len(s) > 0 /\ s[1] = "-"
        digits == IF minus THEN Tail(s) ELSE s
        value  == FoldLeft(LAMBDA v, d : 10 * v + DigitValue[d], 0, digits)
    IN  IF digits = <<>> \/ ~ Range(digits) \subseteq Range(Digits) THEN {}
        ELSE {IF minus THEN -value ELSE value}

\* find_crlf(): the first place from pos on, 0 if there is none yet.
FindCrlf(data, pos) ==
    LET ends == {i \in pos .. Len(data) - 1 : SubSeq(data, i, i + 1) = CRLF}
    IN  IF ends = {} THEN 0 ELSE Min(ends)
-----------------------------------------------------------------------------
(* RequestParser.                                                          *)

NeedMore      == [st |-> "NeedMore"]
ProtocolError == [st |-> "ProtocolError"]
Parsed(argv, consumed) == [st |-> "Ok", argv |-> argv, consumed |-> consumed]

\* Mutant: an argument that ends at `end` is there as soon as its last byte is.
ThereUnterminated(data, end) == end <= Len(data)

\* An argument that ends at `end` is there with the CRLF behind it.
There(data, end) == end + 2 <= Len(data)

\* The arguments from pos on, when `left` of them are still to come.
RECURSIVE Bulks(_, _, _, _)
Bulks(data, pos, left, argv) ==
    IF left = 0 THEN Parsed(argv, pos - 1)
    ELSE IF pos > Len(data) THEN NeedMore
    ELSE IF data[pos] # "$" THEN ProtocolError
    ELSE LET crlf == FindCrlf(data, pos + 1)
             blen == ToLL(SubSeq(data, pos + 1, crlf - 1))
         IN  IF crlf = 0 THEN NeedMore
             ELSE IF \A b \in blen : b < 0 THEN ProtocolError
             ELSE LET end == crlf + 1 + Max(blen)
                  IN  IF ~There(data, end) THEN NeedMore
                      ELSE Bulks(data, end + 3, left - 1,
                                 Append(argv, SubSeq(data, crlf + 2, end)))

MaxArguments == 1024 * 1024

ParseMultibulk(data) ==
    LET crlf  == FindCrlf(data, 1)
        count == ToLL(SubSeq(data, 2, crlf - 1))
    IN  IF crlf = 0 THEN NeedMore
        ELSE IF \A m \in count : m < 0 \/ m > MaxArguments THEN ProtocolError
        ELSE Bulks(data, crlf + 2, Max(count), <<>>)

\* The longest runs of bytes that are no blanks.
Words(line) ==
    LET Blank(i)  == i \notin DOMAIN line \/ line[i] = "SP"
        starts    == {i \in DOMAIN line : ~Blank(i) /\ Blank(i - 1)}
        WordAt(i) == SubSeq(line, i, Min({e \in i .. Len(line) : Blank(e + 1)}))
        ordered   == SetToSortSeq(starts, <)
    IN  [k \in DOMAIN ordered |-> WordAt(ordered[k])]

ParseInline(data) ==
    LET crlf  == FindCrlf(data, 1)
        feeds == {i \in DOMAIN data : data[i] = "LF"}
    IN  IF crlf # 0 THEN Parsed(Words(SubSeq(data, 1, crlf - 1)), crlf + 1)
        ELSE IF feeds # {} THEN Parsed(Words(SubSeq(data, 1, Min(feeds) - 1)), Min(feeds))
        ELSE IF Len(data) > MaxInlineRequest THEN ProtocolError
        ELSE NeedMore

Parse(data) ==
    IF data = <<>> THEN NeedMore
    ELSE IF data[1] = "*" THEN ParseMultibulk(data)
    ELSE ParseInline(data)
-----------------------------------------------------------------------------
(* ReplyBuilder, on reply values: [kind, val] with kind "simple", "error", *)
(* "integer", "bulk", "array" or "nil" (null_bulk and null_array).         *)

\* bulk(), also double_reply() and verbatim()
Bulk(s) == <<"$">> \o AppendLL(Len(s)) \o CRLF \o s \o CRLF

\* array_header(), with the count of the bytes of its elements.
ArrayHeader(m) == <<"*">> \o AppendLL(m) \o CRLF

\* encode_impl()
EncodeMultibulk(argv) == ArrayHeader(Len(argv)) \o FlattenSeq([i \in DOMAIN argv |-> Bulk(argv[i])])

\* The calls of a handler that gives this reply, in their order.
RECURSIVE Build(_)
Build(reply) ==
    CASE reply.kind = "simple"  -> <<"+">> \o reply.val \o CRLF
      [] reply.kind = "error"   -> <<"-">> \o reply.val \o CRLF
      [] reply.kind = "integer" -> <<":">> \o AppendLL(reply.val) \o CRLF
      [] reply.kind = "bulk"    -> Bulk(reply.val)
      [] reply.kind = "nil"     -> <<reply.val, "-", "1">> \o CRLF
      [] reply.kind = "array"   -> ArrayHeader(Len(reply.val))
                                   \o FlattenSeq([i \in DOMAIN reply.val |-> Build(reply.val[i])])
-----------------------------------------------------------------------------
(* ReplyReader: what it has read, [shown, pos], from pos on.               *)

Broken == [kind |-> "protocol error", val |-> <<>>]

\* getc() returns '\0' for a NUL byte as it does at the end of the stream.
FirstOf(bytes, data, pos) ==
    LET ends == {i \in pos .. Len(data) : data[i] \in bytes}
    IN  IF ends = {} THEN Len(data) + 1 ELSE Min(ends)

\* Mutant: the line feed is left for the next read.
ReadLineKeepingFeed(data, pos) ==
    LET stop == FirstOf({"CR", "NUL"}, data, pos)
    IN  [line |-> SubSeq(data, pos, stop - 1), pos |-> stop + 1]

\* read_line(): up to a CR, and one more byte; or up to a NUL.
ReadLine(data, pos) ==
    LET stop == FirstOf({"CR", "NUL"}, data, pos)
    IN  [line |-> SubSeq(data, pos, stop - 1),
         pos  |-> IF stop \in DOMAIN data /\ data[stop] = "CR" THEN stop + 2 ELSE stop + 1]

\* read_n(): m bytes, or up to a NUL.
ReadN(data, pos, m) ==
    LET nul == FirstOf({"NUL"}, data, pos)
    IN  IF nul < pos + m THEN [text |-> SubSeq(data, pos, nul - 1), pos |-> nul + 1]
        ELSE [text |-> SubSeq(data, pos, pos + m - 1), pos |-> pos + m]

\* atoll(): 0 if there is no number
Atoll(s) == IF ToLL(s) = {} THEN 0 ELSE Max(ToLL(s))

RECURSIVE ReadReply(_, _), ReadElements(_, _, _, _)
ReadReply(data, pos) ==
    LET head == ReadLine(data, pos + 1)
        m    == Atoll(head.line)
        bulk == ReadN(data, head.pos, m)
        Shown(kind, val, next) == [shown |-> [kind |-> kind, val |-> val], pos |-> next]
    IN  IF pos > Len(data) THEN [shown |-> Broken, pos |-> pos]
        ELSE CASE data[pos] = "+" -> Shown("simple", head.line, head.pos)
               [] data[pos] = "-" -> Shown("error", head.line, head.pos)
               [] data[pos] = ":" -> Shown("integer", m, head.pos)
               [] data[pos] = "$" -> IF m < 0 THEN Shown("nil", "$", head.pos)
                                     ELSE Shown("bulk", bulk.text, ReadLine(data, bulk.pos).pos)
               [] data[pos] = "*" -> IF m < 0 THEN Shown("nil", "*", head.pos)
                                     ELSE ReadElements(data, head.pos, m, <<>>)
               [] OTHER           -> [shown |-> Broken, pos |-> pos + 1]

ReadElements(data, pos, left, val) ==
    IF left = 0 THEN [shown |-> [kind |-> "array", val |-> val], pos |-> pos]
    ELSE LET one == ReadReply(data, pos)
         IN  ReadElements(data, one.pos, left - 1, Append(val, one.shown))
=============================================================================
