------------------------------ MODULE Handlers ------------------------------
(***************************************************************************)
(* The command handlers (src/commands) as functions of a keyspace, a       *)
(* command and the wall clock.  A handler's result is the keyspace it      *)
(* leaves behind, its reply, and the dirty flag that decides whether       *)
(* exec_core() appends the command to the log.                             *)
(*                                                                         *)
(* Strings are a numeral followed by a number of letters, so that INCR can *)
(* tell integers from text and APPEND is visible.  List elements, hash     *)
(* fields and values, members and scores are integers.  A number outside   *)
(* IntMin .. IntMax stands for an argument that parse_int or parse_double  *)
(* refuses.  Times are ticks of the clock Store and Durability keep.       *)
(***************************************************************************)
EXTENDS Keyspace, Glob, SequencesExt

CONSTANTS IntMax,       \* INT64_MAX, scaled down; one decimal digit
          Spelling,     \* the bytes of a key, as codes
          kRegisters,   \* registers of a HyperLogLog, each one byte of a string
          Register,     \* hash_bytes() of an element: its register
          Rank          \* and its rank there

ASSUME HandlersAssumption ==
    /\ IntMax \in 1 .. 9
    /\ kRegisters \in Nat
    /\ \A e \in DOMAIN Register : Register[e] \in 0 .. kRegisters - 1 /\ Rank[e] \in Nat \ {0}

IntMin     == -IntMax - 1
Parses(n)  == n \in IntMin .. IntMax
Unparsable == IntMax + 1
\* Signed arithmetic that nothing checks, as the build's two's complement has it.
Wrap(n)    == ((n - IntMin) % (2 * (IntMax + 1))) + IntMin

(* Objects: tagged tuples, so that objects of different types compare.     *)

Numeral(n)          == <<"string", <<n>>, 0>>
Text(num, letters)  == <<"string", num, letters>>
\* A string of kRegisters bytes; the bytes of it that are not zero.
Registers(regs)     == <<"string", <<>>, kRegisters, regs>>
ListOf(s)           == <<"list", s>>
HashOf(f)           == <<"hash", f>>
SetOf(S)            == <<"set", S>>
ZSetOf(z)           == <<"zset", z>>

\* An object that commands remove as soon as it is empty.
IsEmptyObject(o) ==
    \/ o[1] = "list" /\ o[2] = <<>>
    \/ o[1] \in {"hash", "zset"} /\ DOMAIN o[2] = {}
    \/ o[1] = "set" /\ o[2] = {}

(* Replies.                                                                *)

Ok       == <<"status">>
Nil      == <<"null">>
Num(n)   == <<"int", n>>
Bulk(x)  == <<"bulk", x>>
Items(s) == <<"array", s>>
Error(e) == <<"error", e>>
IsError(reply) == reply[1] = "error"

Command(op, keys, args, opts) == [op |-> op, keys |-> keys, args |-> args, opts |-> opts]

Read(ks, reply)  == [ks |-> ks, reply |-> reply, dirty |-> FALSE]
Wrote(ks, reply) == [ks |-> ks, reply |-> reply, dirty |-> TRUE]
\* mark_dirty() under a condition.
Marked(ks, reply, changed) == [ks |-> ks, reply |-> reply, dirty |-> changed]

\* get_string, get_list, ...: absent, or of the type the command works on.
IsA(ks, k, type)     == Has(ks, k) => ks.dict[k][1] = type
Value(ks, k, absent) == IF Has(ks, k) THEN ks.dict[k][2] ELSE absent

\* Stores a container a command changed: set() for a new key, in place otherwise.
StoreObject(ks, k, o) == IF Has(ks, k) THEN Update(ks, k, o) ELSE SetKey(ks, k, o)
\* The same, dropping the key once the container is empty.
StoreOrErase(ks, k, o) == IF IsEmptyObject(o) THEN Erase(ks, k) ELSE Update(ks, k, o)

-----------------------------------------------------------------------------
(* Strings (string_cmds.cpp).                                              *)

StrBulk(ks, k) == IF Has(ks, k) THEN Bulk(Tail(ks.dict[k])) ELSE Nil
StrLen(o)      == (CASE o[2] = <<>> -> 0
                     [] o[2] # <<>> /\ Head(o[2]) < 0 -> 2
                     [] OTHER -> 1) + o[3]

\* Mutant: the overflow is reported but the branch goes on.
IncrByGoingOn(ks, k, delta) ==
    LET o   == IF Has(ks, k) THEN ks.dict[k] ELSE Numeral(0)
        sum == Head(o[2]) + delta
    IN  IF o[2] = <<>> \/ o[3] > 0 THEN Read(ks, Error("NOTINT"))
        ELSE Wrote(SetKey(ks, k, Numeral(Wrap(sum))),
                   IF Parses(sum) THEN Num(sum) ELSE Error("OVERFLOW"))

IncrBy(ks, k, delta) ==
    LET o   == IF Has(ks, k) THEN ks.dict[k] ELSE Numeral(0)
        sum == Head(o[2]) + delta
    IN  CASE o[2] = <<>> \/ o[3] > 0 -> Read(ks, Error("NOTINT"))
          [] o[2] # <<>> /\ o[3] = 0 /\ ~Parses(sum) -> Read(ks, Error("OVERFLOW"))
          [] OTHER -> Wrote(SetKey(ks, k, Numeral(sum)), Num(sum))

\* append(): one letter at the end, in place.
AppendLetter(ks, k) ==
    LET o == IF Has(ks, k) THEN Text(ks.dict[k][2], ks.dict[k][3] + 1) ELSE Text(<<>>, 1)
    IN  Wrote(StoreObject(ks, k, o), Num(StrLen(o)))

\* The index arithmetic of LRANGE, ZRANGE and GETRANGE: negative counts from the end.
Slice(s, start, stop) ==
    LET len  == Len(s)
        from == IF start < 0 THEN (IF len + start < 0 THEN 0 ELSE len + start) ELSE start
        upto == IF stop < 0 THEN len + stop ELSE stop
        last == IF upto >= len THEN len - 1 ELSE upto
    IN  IF from > last \/ len = 0 THEN <<>> ELSE SubSeq(s, from + 1, last + 1)

NumeralLen(o) == StrLen(o) - o[3]
LetterA == 97

\* setrange(): one letter at an offset.
SetrangeHandler(ks, k, c) ==
    LET off == c.args[1]
        o   == IF Has(ks, k) THEN ks.dict[k] ELSE Text(<<>>, 0)
        len == IF off + 1 > StrLen(o) THEN off + 1 ELSE StrLen(o)
        new == CASE Len(o) = 4 /\ len = kRegisters -> Registers(Put(o[4], off, LetterA))
                 [] ~(Len(o) = 4 /\ len = kRegisters) /\ off >= NumeralLen(o) ->
                       Text(o[2], len - NumeralLen(o))
                 [] OTHER -> Text(<<>>, len)
    IN  Wrote(SetKey(ks, k, new), Num(len))

\* The bounds of the part of a string that getrange() answers, if any.
GetrangeHandler(ks, k, c) ==
    LET len  == IF Has(ks, k) THEN StrLen(ks.dict[k]) ELSE 0
        part == Slice([i \in 1 .. len |-> i], c.args[1], c.args[2])
    IN  CASE Has(ks, k) /\ ~(Parses(c.args[1]) /\ Parses(c.args[2])) -> Read(ks, Error("NOTINT"))
          [] Has(ks, k) /\ Parses(c.args[1]) /\ Parses(c.args[2]) ->
                Read(ks, Bulk(<<Tail(ks.dict[k]), part>>))
          [] OTHER -> Read(ks, Bulk(<<>>))

\* ensure(): anything that is not kRegisters long counts as no registers.
RegistersOf(o) == IF Len(o) = 4 THEN o[4] ELSE <<>>

\* merge(): the larger one of every register.
MergeRegisters(f, g) ==
    [i \in DOMAIN f \cup DOMAIN g |->
        IF i \notin DOMAIN g THEN f[i]
        ELSE IF i \notin DOMAIN f THEN g[i]
        ELSE IF f[i] < g[i] THEN g[i] ELSE f[i]]

\* add() of one element: f where it is 0, that is undefined, or smaller.
AddElement(f, e) ==
    LET new == Put(<<>>, Register[e], Rank[e])
    IN  MergeRegisters(f, new)

\* pfadd(): a string that is no register array is replaced by one, but only by
\* a call that adds something.
PfaddHandler(ks, k, c) ==
    LET regs    == IF Has(ks, k) THEN RegistersOf(ks.dict[k]) ELSE <<>>
        new     == FoldLeft(AddElement, regs, c.args)
        changed == ~Has(ks, k) \/ new # regs
    IN  Marked(IF changed THEN SetKey(ks, k, Registers(new)) ELSE ks,
               Num(IF changed THEN 1 ELSE 0), changed)

\* The handlers that start with get_string().
StringHandler(ks, k, c) ==
    CASE c.op = "get"    -> Read(ks, StrBulk(ks, k))
      [] c.op = "getset" -> Wrote(SetKey(ks, k, Numeral(c.args[1])), StrBulk(ks, k))
      [] c.op = "strlen" -> Read(ks, Num(IF Has(ks, k) THEN StrLen(ks.dict[k]) ELSE 0))
      [] c.op = "append" -> AppendLetter(ks, k)
      [] c.op = "incrby" -> IncrBy(ks, k, c.args[1])
      [] c.op = "decrby" -> IncrBy(ks, k, Wrap(-c.args[1]))
      [] c.op = "getrange" -> GetrangeHandler(ks, k, c)
      [] c.op = "setrange" -> SetrangeHandler(ks, k, c)
      [] c.op = "pfadd"  -> PfaddHandler(ks, k, c)

\* The deadline SET gives its key, zero for none.
DeadlineAsked(c, kept, now) ==
    CASE "exat" \in c.opts -> c.args[2]
      [] "ex" \in c.opts   -> now + c.args[2]
      [] OTHER             -> kept

\* SET with NX, XX, GET, KEEPTTL, EX (relative) and EXAT (absolute).
SetHandler(ks0, c, now) ==
    LET k        == c.keys[1]
        ks       == Lookup(ks0, k, now)
        badTime  == c.opts \cap {"ex", "exat"} # {} /\ (c.args[2] <= 0 \/ ~Parses(c.args[2]))
        existing == Has(ks, k) /\ IsA(ks, k, "string")
        old      == IF "get" \in c.opts /\ existing THEN StrBulk(ks, k) ELSE Nil
        kept     == IF "keepttl" \in c.opts THEN DeadlineOrZero(ks, k) ELSE 0
        deadline == DeadlineAsked(c, kept, now)
        stored   == SetKey(ks, k, Numeral(c.args[1]))
    IN  CASE badTime -> Read(ks0, Error("EXPIRE"))
          [] ~badTime /\ "nx" \in c.opts /\ existing -> Read(ks, old)
          [] ~badTime /\ "xx" \in c.opts /\ ~Has(ks, k) -> Read(ks, Nil)
          [] OTHER -> Wrote(IF deadline # 0 THEN SetDeadline(stored, k, deadline) ELSE stored,
                            IF "get" \in c.opts THEN old ELSE Ok)

SetnxHandler(ks, c) ==
    IF Has(ks, c.keys[1]) THEN Read(ks, Num(0))
    ELSE Wrote(SetKey(ks, c.keys[1], Numeral(c.args[1])), Num(1))

SetexHandler(ks, c, now) ==
    IF c.args[1] <= 0 \/ ~Parses(c.args[1]) THEN Read(ks, Error("EXPIRE"))
    ELSE Wrote(SetDeadline(SetKey(ks, c.keys[1], Numeral(c.args[2])), c.keys[1],
                           now + c.args[1]), Ok)

\* What looking all the keys up in turn leaves behind.
LookupAll(ks, keys, now) ==
    LET gone == {k \in Range(keys) : Has(ks, k) /\ Expired(ks, k, now)}
    IN  [dict    |-> [k \in DOMAIN ks.dict \ gone |-> ks.dict[k]],
         expires |-> [k \in DOMAIN ks.expires \ gone |-> ks.expires[k]]]

\* The registers of all the strings among the keys; other types are passed over.
MergedRegisters(ks, keys) ==
    LET Merge(f, k) == IF Has(ks, k) /\ ks.dict[k][1] = "string"
                       THEN MergeRegisters(f, RegistersOf(ks.dict[k])) ELSE f
    IN  FoldLeft(Merge, <<>>, keys)

\* pfcount(): the estimate is a function of the registers.
PfcountHandler(ks0, c, now) ==
    LET ks == LookupAll(ks0, c.keys, now)
    IN  Read(ks, <<"estimate", MergedRegisters(ks, c.keys)>>)

\* pfmerge(): the destination is overwritten whatever it holds.
PfmergeHandler(ks0, c, now) ==
    LET ks == LookupAll(ks0, c.keys, now)
    IN  Wrote(SetKey(ks, c.keys[1], Registers(MergedRegisters(ks, c.keys))), Ok)

MgetHandler(ks0, c, now) ==
    LET ks == LookupAll(ks0, c.keys, now)
    IN  Read(ks, Items([i \in DOMAIN c.keys |->
                    IF IsA(ks, c.keys[i], "string") THEN StrBulk(ks, c.keys[i]) ELSE Nil]))

\* set() for one pair after the other: the last one for a key stays.
MsetHandler(ks, c) ==
    LET named       == Range(c.keys)
        LastPair(k) == Max({i \in DOMAIN c.keys : c.keys[i] = k})
    IN  Wrote([dict    |-> [k \in DOMAIN ks.dict \cup named |->
                              IF k \in named THEN Numeral(c.args[LastPair(k)]) ELSE ks.dict[k]],
               expires |-> [k \in DOMAIN ks.expires \ named |-> ks.expires[k]]], Ok)

-----------------------------------------------------------------------------
(* Keys of any type (generic_cmds.cpp, server_cmds.cpp).                   *)

\* del() erases without looking at deadlines.
DelHandler(ks, c) ==
    LET hit == {k \in Range(c.keys) : Has(ks, k)}
    IN  Marked([dict    |-> [k \in DOMAIN ks.dict \ hit |-> ks.dict[k]],
                expires |-> [k \in DOMAIN ks.expires \ Range(c.keys) |-> ks.expires[k]]],
               Num(Cardinality(hit)), hit # {})

ExistsHandler(ks0, c, now) ==
    LET ks == LookupAll(ks0, c.keys, now)
    IN  Read(ks, Num(Cardinality({i \in DOMAIN c.keys : Has(ks, c.keys[i])})))

\* Mutant: a negative span is not cut off at zero.
ExpireHandlerSigned(ks0, c, now) ==
    LET k  == c.keys[1]
        ks == Lookup(ks0, k, now)
    IN  CASE ~Parses(c.args[1]) -> Read(ks0, Error("NOTINT"))
          [] Parses(c.args[1]) /\ ~Has(ks, k) -> Read(ks, Num(0))
          [] OTHER -> Wrote(SetDeadline(ks, k, now + c.args[1]), Num(1))

\* EXPIRE and PEXPIRE (relative), EXPIREAT (absolute); negative counts as zero.
ExpireHandler(ks0, c, now) ==
    LET k    == c.keys[1]
        ks   == Lookup(ks0, k, now)
        span == IF c.args[1] < 0 THEN 0 ELSE c.args[1]
    IN  CASE ~Parses(c.args[1]) -> Read(ks0, Error("NOTINT"))
          [] Parses(c.args[1]) /\ ~Has(ks, k) -> Read(ks, Num(0))
          [] OTHER -> Wrote(SetDeadline(ks, k, IF c.op = "expireat" THEN span ELSE now + span),
                            Num(1))

PersistHandler(ks, k) ==
    LET removed == Has(ks, k) /\ k \in DOMAIN ks.expires
    IN  Marked(IF Has(ks, k) THEN Persist(ks, k) ELSE ks, Num(IF removed THEN 1 ELSE 0), removed)

RenameHandler(ks, c) ==
    LET src   == c.keys[1]
        dst   == c.keys[2]
        dl    == DeadlineOrZero(ks, src)
        moved == SetKey(Erase(ks, src), dst, ks.dict[src])
    IN  IF ~Has(ks, src) THEN Read(ks, Error("NOKEY"))
        ELSE Wrote(IF dl # 0 THEN SetDeadline(moved, dst, dl) ELSE moved, Ok)

\* KEYS and SCAN show what the pattern matches and skip what has expired,
\* without removing it; SCAN may ask for one type.
KeysHandler(ks, c, now) ==
    LET shown == {k \in DOMAIN ks.dict :
                    /\ ~(DeadlineOrZero(ks, k) # 0 /\ DeadlineOrZero(ks, k) <= now)
                    /\ c.opts # {} => ks.dict[k][1] \in c.opts
                    /\ GlobMatch(c.args, Spelling[k])}
    IN  Read(ks, Items(shown))

\* The first entry of the table; RANDOMKEY does not look at deadlines.
RandomkeyHandler(ks) ==
    Read(ks, IF DOMAIN ks.dict = {} THEN Nil
             ELSE Bulk(CHOOSE k \in DOMAIN ks.dict :
                          \A j \in DOMAIN ks.dict : Layout[k] <= Layout[j]))

DbsizeHandler(ks) == Read(ks, Num(Cardinality(DOMAIN ks.dict)))

\* OBJECT ENCODING
ObjectHandler(ks, k) ==
    LET o == ks.dict[k]
    IN  IF ~Has(ks, k) THEN Read(ks, Error("NOKEY"))
        ELSE Read(ks, Bulk(CASE o[1] = "string" -> IF o[2] # <<>> /\ o[3] = 0 THEN "int" ELSE "embstr"
                             [] o[1] = "list" -> "quicklist"
                             [] o[1] \in {"hash", "set"} -> "hashtable"
                             [] o[1] = "zset" -> "skiplist"))

TypeHandler(ks, k) == Read(ks, Bulk(IF Has(ks, k) THEN ks.dict[k][1] ELSE "none"))

-----------------------------------------------------------------------------
(* Lists (list_cmds.cpp).                                                  *)

\* LPUSH puts its arguments one by one at the head.
PushHandler(ks, k, c) ==
    LET l   == Value(ks, k, <<>>)
        new == IF c.op = "lpush" THEN Reverse(c.args) \o l ELSE l \o c.args
    IN  Wrote(StoreObject(ks, k, ListOf(new)), Num(Len(new)))

\* Mutant: the emptied list stays.
PopHandlerKeeping(ks, k, c) ==
    LET l == Value(ks, k, <<>>)
    IN  IF ~Has(ks, k) THEN Read(ks, Nil)
        ELSE Wrote(Update(ks, k, ListOf(IF c.op = "lpop" THEN Tail(l) ELSE Front(l))), Ok)

\* A count is looked at only if nothing follows it (argc() == 3).
HasCount(c) == Len(c.args) = 1

\* With a count the reply is an array; the emptied list goes, dirty in any case.
PopHandler(ks, k, c) ==
    LET l     == Value(ks, k, <<>>)
        count == IF HasCount(c) THEN c.args[1] ELSE 1
        bad   == count < 0 \/ ~Parses(count)
        n     == IF count < Len(l) THEN count ELSE Len(l)
        taken == IF c.op = "lpop" THEN SubSeq(l, 1, n) ELSE SubSeq(Reverse(l), 1, n)
        rest  == IF c.op = "lpop" THEN SubSeq(l, n + 1, Len(l)) ELSE SubSeq(l, 1, Len(l) - n)
    IN  CASE bad -> Read(ks, Error("NOTINT"))
          [] ~bad /\ ~Has(ks, k) -> Read(ks, Nil)
          [] OTHER -> Wrote(StoreOrErase(ks, k, ListOf(rest)),
                            IF HasCount(c) THEN Items(taken) ELSE Bulk(Head(taken)))

\* LINDEX and LSET count from zero, negative indexes from the end.
IndexOf(l, i) == IF i < 0 THEN i + Len(l) + 1 ELSE i + 1

LsetHandler(ks, k, c) ==
    LET l == Value(ks, k, <<>>)
        i == IndexOf(l, c.args[1])
    IN  CASE ~Has(ks, k) -> Read(ks, Error("NOKEY"))
          [] Has(ks, k) /\ ~Parses(c.args[1]) -> Read(ks, Error("NOTINT"))
          [] Has(ks, k) /\ Parses(c.args[1]) /\ i \notin DOMAIN l -> Read(ks, Error("RANGE"))
          [] OTHER -> Wrote(Update(ks, k, ListOf([l EXCEPT ![i] = c.args[2]])), Ok)

\* LRANGE and ZRANGE of elements in order.
Ranged(s, c) ==
    IF Parses(c.args[1]) /\ Parses(c.args[2]) THEN Items(Slice(s, c.args[1], c.args[2]))
    ELSE Error("NOTINT")

ListHandler(ks, k, c) ==
    LET l == Value(ks, k, <<>>)
    IN  CASE c.op \in {"lpush", "rpush"} -> PushHandler(ks, k, c)
          [] c.op \in {"lpop", "rpop"}   -> PopHandler(ks, k, c)
          [] c.op = "llen"   -> Read(ks, Num(Len(l)))
          [] c.op = "lrange" -> Read(ks, Ranged(l, c))
          [] c.op = "lindex" -> LET i == IndexOf(l, c.args[1])
                                IN  Read(ks, IF ~Parses(c.args[1]) THEN Error("NOTINT")
                                             ELSE IF i \in DOMAIN l THEN Bulk(l[i]) ELSE Nil)
          [] c.op = "lset"   -> LsetHandler(ks, k, c)

-----------------------------------------------------------------------------
(* Hashes (hash_cmds.cpp); arguments are field, value pairs.               *)

PairIndexes(args) == 1 .. Len(args) \div 2

HsetHandler(ks, k, c) ==
    LET h      == Value(ks, k, <<>>)
        fields == {c.args[2 * i - 1] : i \in PairIndexes(c.args)}
        LastPair(f) == Max({i \in PairIndexes(c.args) : c.args[2 * i - 1] = f})
        new    == [f \in DOMAIN h \cup fields |-> IF f \in fields THEN c.args[2 * LastPair(f)] ELSE h[f]]
    IN  Wrote(StoreObject(ks, k, HashOf(new)),
              IF c.op = "hmset" THEN Ok ELSE Num(Cardinality(DOMAIN new \ DOMAIN h)))

HdelHandler(ks, k, c) ==
    LET h   == Value(ks, k, <<>>)
        hit == Range(c.args) \cap DOMAIN h
        new == [f \in DOMAIN h \ hit |-> h[f]]
    IN  IF ~Has(ks, k) THEN Read(ks, Num(0))
        ELSE Marked(StoreOrErase(ks, k, HashOf(new)), Num(Cardinality(hit)), hit # {})

\* Unlike INCRBY, HINCRBY does not check for overflow.
HincrbyHandler(ks, k, c) ==
    LET f   == c.args[1]
        h   == Value(ks, k, <<>>)
        cur == IF f \in DOMAIN h THEN h[f] ELSE 0
        sum == Wrap(cur + c.args[2])
    IN  IF ~Parses(cur) THEN Read(ks, Error("NOTINT"))
        ELSE Wrote(StoreObject(ks, k, HashOf(Put(h, f, sum))), Num(sum))

HashHandler(ks, k, c) ==
    LET h == Value(ks, k, <<>>)
        Field(f) == IF f \in DOMAIN h THEN Bulk(h[f]) ELSE Nil
    IN  CASE c.op \in {"hset", "hmset"} -> HsetHandler(ks, k, c)
          [] c.op = "hdel"    -> HdelHandler(ks, k, c)
          [] c.op = "hincrby" -> HincrbyHandler(ks, k, c)
          [] c.op = "hget"    -> Read(ks, Field(c.args[1]))
          [] c.op = "hmget"   -> Read(ks, Items([i \in DOMAIN c.args |-> Field(c.args[i])]))
          [] c.op = "hexists" -> Read(ks, Num(IF c.args[1] \in DOMAIN h THEN 1 ELSE 0))
          [] c.op = "hlen"    -> Read(ks, Num(Cardinality(DOMAIN h)))
          [] c.op = "hkeys"   -> Read(ks, Items(DOMAIN h))
          [] c.op = "hvals"   -> LET order == SetToSortSeq(DOMAIN h, <)
                                 IN  Read(ks, Items([i \in DOMAIN order |-> h[order[i]]]))
          [] c.op = "hgetall" -> Read(ks, Items({<<f, h[f]>> : f \in DOMAIN h}))

-----------------------------------------------------------------------------
(* Sets (set_cmds.cpp).                                                    *)

SaddHandler(ks, k, c) ==
    LET S     == Value(ks, k, {})
        added == Range(c.args) \ S
    IN  Marked(StoreObject(ks, k, SetOf(S \cup added)), Num(Cardinality(added)), added # {})

\* Mutant: SREM forgets to mark the command as a write.
SremHandlerUnmarked(ks, k, c) ==
    LET S   == Value(ks, k, {})
        hit == Range(c.args) \cap S
    IN  IF ~Has(ks, k) THEN Read(ks, Num(0))
        ELSE Read(StoreOrErase(ks, k, SetOf(S \ hit)), Num(Cardinality(hit)))

SremHandler(ks, k, c) ==
    LET S   == Value(ks, k, {})
        hit == Range(c.args) \cap S
    IN  IF ~Has(ks, k) THEN Read(ks, Num(0))
        ELSE Marked(StoreOrErase(ks, k, SetOf(S \ hit)), Num(Cardinality(hit)), hit # {})

\* SPOP takes the first members in table order, here the smallest ones.
SpopHandler(ks, k, c) ==
    LET S      == Value(ks, k, {})
        count  == IF HasCount(c) THEN c.args[1] ELSE 1
        bad    == count < 0 \/ ~Parses(count)
        picked == {m \in S : Cardinality({x \in S : x < m}) < count}
    IN  CASE bad -> Read(ks, Error("NOTINT"))
          [] ~bad /\ ~Has(ks, k) ->
                Read(ks, IF HasCount(c) THEN Items({}) ELSE Nil)
          [] OTHER -> Marked(StoreOrErase(ks, k, SetOf(S \ picked)),
                             IF HasCount(c) THEN Items(picked) ELSE Bulk(CHOOSE m \in picked : TRUE),
                             picked # {})

SetTypeHandler(ks, k, c) ==
    LET S == Value(ks, k, {})
    IN  CASE c.op = "sadd" -> SaddHandler(ks, k, c)
          [] c.op = "srem" -> SremHandler(ks, k, c)
          [] c.op = "spop" -> SpopHandler(ks, k, c)
          [] c.op = "sismember" -> Read(ks, Num(IF c.args[1] \in S THEN 1 ELSE 0))
          [] c.op = "scard"     -> Read(ks, Num(Cardinality(S)))
          [] c.op = "smembers"  -> Read(ks, Items(S))

-----------------------------------------------------------------------------
(* Sorted sets (zset_cmds.cpp): member -> score, ranked by score and then  *)
(* by member, the order of the skip list (skiplist.hpp:26).                *)

Ranks(z)  == LET Before(a, b) == z[a] < z[b] \/ (z[a] = z[b] /\ a < b)
             IN  SetToSortSeq(DOMAIN z, Before)

\* One score, member pair of ZADD.  acc.failed ends the loop at once.
ZaddPair(acc, score0, member, opts) ==
    LET present == member \in DOMAIN acc.z
        score   == IF "incr" \in opts /\ present THEN score0 + acc.z[member] ELSE score0
        skipped == IF present
                   THEN \/ "nx" \in opts
                        \/ "gt" \in opts /\ score <= acc.z[member]
                        \/ "lt" \in opts /\ score >= acc.z[member]
                   ELSE "xx" \in opts
        changes == ~present \/ acc.z[member] # score
    IN  CASE acc.failed -> acc
          [] ~acc.failed /\ ~Parses(score0) -> [acc EXCEPT !.failed = TRUE]
          [] ~acc.failed /\ Parses(score0) /\ skipped -> acc
          [] OTHER -> [acc EXCEPT !.z = Put(@, member, score),
                                  !.added = IF present THEN @ ELSE @ + 1,
                                  !.changed = IF changes THEN @ + 1 ELSE @,
                                  !.last = Bulk(score)]

\* What the first i pairs make of start.
ZaddPairs(start, c) ==
    LET after[i \in 0 .. Len(c.args) \div 2] ==
            IF i = 0 THEN start
            ELSE ZaddPair(after[i - 1], c.args[2 * i - 1], c.args[2 * i], c.opts)
    IN  after

\* A score that does not parse ends the command where it stands: the pairs
\* before it and a newly created set stay, and the command is not marked.
ZaddHandler(ks, k, c) ==
    LET start == [z |-> Value(ks, k, <<>>), added |-> 0, changed |-> 0,
                  last |-> Nil, failed |-> FALSE]
        end == ZaddPairs(start, c)[Len(c.args) \div 2]
        stored == StoreObject(ks, k, ZSetOf(end.z))
    IN  IF end.failed THEN Read(stored, Error("NOTFLOAT"))
        ELSE Marked(IF DOMAIN end.z = {} THEN Erase(stored, k) ELSE stored,
                    CASE "incr" \in c.opts -> end.last
                      [] "incr" \notin c.opts /\ "ch" \in c.opts -> Num(end.changed)
                      [] OTHER -> Num(end.added),
                    end.changed > 0)

ZremHandler(ks, k, c) ==
    LET z   == Value(ks, k, <<>>)
        hit == Range(c.args) \cap DOMAIN z
    IN  IF ~Has(ks, k) THEN Read(ks, Num(0))
        ELSE Marked(StoreOrErase(ks, k, ZSetOf([m \in DOMAIN z \ hit |-> z[m]])),
                    Num(Cardinality(hit)), hit # {})

ZincrbyHandler(ks, k, c) ==
    LET z   == Value(ks, k, <<>>)
        m   == c.args[2]
        sum == c.args[1] + (IF m \in DOMAIN z THEN z[m] ELSE 0)
    IN  Wrote(StoreObject(ks, k, ZSetOf(Put(z, m, sum))), Bulk(sum))

\* Bounds may be exclusive; the scan starts at the first score not below min.
ZrangebyscoreHandler(ks, k, c) ==
    LET z == Value(ks, k, <<>>)
        InRange(m) == /\ IF "minexcl" \in c.opts THEN z[m] > c.args[1] ELSE z[m] >= c.args[1]
                      /\ IF "maxexcl" \in c.opts THEN z[m] < c.args[2] ELSE z[m] <= c.args[2]
    IN  Read(ks, Items(SelectSeq(Ranks(z), InRange)))

ZSetHandler(ks, k, c) ==
    LET z == Value(ks, k, <<>>)
    IN  CASE c.op = "zadd"    -> ZaddHandler(ks, k, c)
          [] c.op = "zrem"    -> ZremHandler(ks, k, c)
          [] c.op = "zincrby" -> ZincrbyHandler(ks, k, c)
          [] c.op = "zcard"   -> Read(ks, Num(Cardinality(DOMAIN z)))
          [] c.op = "zscore"  -> Read(ks, IF c.args[1] \in DOMAIN z THEN Bulk(z[c.args[1]]) ELSE Nil)
          [] c.op = "zrank"   -> Read(ks, IF c.args[1] \in DOMAIN z
                                          THEN Num(IndexFirstSubSeq(<<c.args[1]>>, Ranks(z)) - 1)
                                          ELSE Nil)
          [] c.op = "zrange"  -> Read(ks, Ranged(IF "rev" \in c.opts THEN Reverse(Ranks(z))
                                                 ELSE Ranks(z), c))
          [] c.op = "zrangebyscore" -> ZrangebyscoreHandler(ks, k, c)

-----------------------------------------------------------------------------
(* The handler of every command (registry.cpp).                            *)

StringOps == {"get", "getset", "strlen", "append", "incrby", "decrby", "getrange", "setrange", "pfadd"}
ListOps   == {"lpush", "rpush", "lpop", "rpop", "llen", "lrange", "lindex", "lset"}
HashOps   == {"hset", "hmset", "hdel", "hincrby", "hget", "hmget", "hexists", "hlen", "hkeys", "hvals",
              "hgetall"}
SetOps    == {"sadd", "srem", "spop", "sismember", "scard", "smembers"}
ZSetOps   == {"zadd", "zrem", "zincrby", "zcard", "zscore", "zrank", "zrange", "zrangebyscore"}
TypedOps  == StringOps \cup ListOps \cup HashOps \cup SetOps \cup ZSetOps

TypeOfOp(op) ==
    CASE op \in StringOps -> "string"
      [] op \in ListOps   -> "list"
      [] op \in HashOps   -> "hash"
      [] op \in SetOps    -> "set"
      [] op \in ZSetOps   -> "zset"

\* The names lookup_command() finds.
CommandTable ==
    TypedOps \cup
    {"set", "setnx", "setex", "mget", "mset", "del", "exists", "expire", "expireat", "ttl", "persist",
     "rename", "type", "keys", "scan", "object", "pfcount", "pfmerge", "randomkey", "dbsize"}

\* arity_ok(), in keys and further arguments; the values APPEND and SETRANGE
\* write are not among them.  MSET of a key without a value, which its handler
\* refuses at once, is left out here: all keys are on one shard.  What becomes
\* of it when they are not is in module Shard.
ArityOk(c) ==
    LET keys == Len(c.keys)
        args == Len(c.args)
    IN  /\ CASE c.op \in {"keys", "scan", "randomkey", "dbsize"} -> keys = 0
             [] c.op \in {"mget", "mset", "del", "exists", "pfcount", "pfmerge"} -> keys >= 1
             [] c.op = "rename" -> keys = 2
             [] OTHER           -> keys = 1
        /\ CASE c.op = "mset" -> args = keys
             [] c.op \in {"getset", "incrby", "decrby", "setrange", "setnx", "expire", "expireat", "lindex",
                          "hget", "hexists", "sismember", "zscore", "zrank"} -> args = 1
             [] c.op \in {"setex", "getrange", "lrange", "lset", "hincrby", "zincrby"} -> args = 2
             [] c.op \in {"set", "lpush", "rpush", "hdel", "hmget", "sadd", "srem", "zrem"} -> args >= 1
             [] c.op \in {"hset", "hmset", "zadd", "zrange", "zrangebyscore"} -> args >= 2
             [] OTHER -> TRUE

\* What reaches a handler; names are the keys.
WellFormed(c, names) ==
    /\ c.op \in CommandTable
    /\ c.keys \in Seq(names)
    /\ c.args \in Seq(Int)
    /\ ArityOk(c)

\* Refused before the keyspace is looked at.
Malformed(c) ==
    \/ c.op \in {"incrby", "decrby", "zincrby"} /\ ~Parses(c.args[1])
    \/ c.op = "setrange" /\ (c.args[1] < 0 \/ ~Parses(c.args[1]))
    \/ c.op = "hincrby" /\ ~Parses(c.args[2])
    \/ c.op = "zrangebyscore" /\ (~Parses(c.args[1]) \/ ~Parses(c.args[2]))
    \/ c.op \in {"hset", "hmset", "zadd"} /\ (Len(c.args) % 2 # 0 \/ c.args = <<>>)

TypedHandler(ks, k, c) ==
    IF ~IsA(ks, k, TypeOfOp(c.op)) THEN Read(ks, Error("WRONGTYPE"))
    ELSE CASE c.op \in StringOps -> StringHandler(ks, k, c)
           [] c.op \in ListOps   -> ListHandler(ks, k, c)
           [] c.op \in HashOps   -> HashHandler(ks, k, c)
           [] c.op \in SetOps    -> SetTypeHandler(ks, k, c)
           [] c.op \in ZSetOps   -> ZSetHandler(ks, k, c)

Handle(ks, c, now) ==
    LET found == Lookup(ks, c.keys[1], now)
    IN  CASE c.op \in TypedOps -> IF Malformed(c) THEN Read(ks, Error("SYNTAX"))
                                 ELSE TypedHandler(found, c.keys[1], c)
          [] c.op = "set"       -> SetHandler(ks, c, now)
          [] c.op = "setnx"     -> SetnxHandler(found, c)
          [] c.op = "setex"     -> SetexHandler(ks, c, now)
          [] c.op = "mget"      -> MgetHandler(ks, c, now)
          [] c.op = "mset"      -> MsetHandler(ks, c)
          [] c.op = "del"       -> DelHandler(ks, c)
          [] c.op = "exists"    -> ExistsHandler(ks, c, now)
          [] c.op \in {"expire", "expireat"} -> ExpireHandler(ks, c, now)
          [] c.op = "ttl"       -> Read(found, Num(TtlMs(found, c.keys[1], now)))
          [] c.op = "persist"   -> PersistHandler(found, c.keys[1])
          [] c.op = "rename"    -> RenameHandler(found, c)
          [] c.op = "type"      -> TypeHandler(found, c.keys[1])
          [] c.op \in {"keys", "scan"} -> KeysHandler(ks, c, now)
          [] c.op = "object"    -> ObjectHandler(found, c.keys[1])
          [] c.op = "pfcount"   -> PfcountHandler(ks, c, now)
          [] c.op = "pfmerge"   -> PfmergeHandler(ks, c, now)
          [] c.op = "randomkey" -> RandomkeyHandler(ks)
          [] c.op = "dbsize"    -> DbsizeHandler(ks)
=============================================================================
