------------------------------ MODULE Commands ------------------------------
(***************************************************************************)
(* The command handlers a shard runs against its own slice of the keyspace *)
(* (src/commands), as functions of a database: Effect is the database a    *)
(* command leaves behind, Answer the reply it writes.                      *)
(*                                                                         *)
(* The commands are those that tell the routing cases apart: keyless,      *)
(* single-key, several keys (decomposable or not), reads and writes, and   *)
(* one command that stores a non-string so that WRONGTYPE can happen.  The *)
(* TTL side of the keyspace is in module Keyspace.                         *)
(***************************************************************************)
EXTENDS Integers, Sequences, FiniteSets

CONSTANTS Keys,   \* the keys clients name
          Vals    \* the string payloads clients write

-----------------------------------------------------------------------------
(* Objects and databases.  Every value is a tagged tuple.                  *)

NoKey  == <<"none">>
SetObj == <<"set">>                       \* a set holding the one member SADD adds
Str(v) == <<"string", v>>

Object == {SetObj} \cup {Str(v) : v \in Vals}
Db     == [Keys -> Object \cup {NoKey}]

EmptyDb == [k \in Keys |-> NoKey]         \* Keyspace::clear

(* Replies.                                                                *)

Ok         == <<"status", "OK">>
Pong       == <<"status", "PONG">>
Null       == <<"null">>
Num(n)     == <<"int", n>>
Bulk(v)    == <<"bulk", v>>
Array(s)   == <<"array", s>>
Err(code)  == <<"error", code>>

NoBytes    == <<"empty">>                \* a reply fragment that has not come back

ErrorCodes  == {"ERR", "NOKEY", "WRONGTYPE", "CROSSSLOT", "PROTOCOL"}
ScalarReply == {Ok, Pong, Null, NoBytes} \cup ({"error"} \X ErrorCodes)
                 \cup ({"int"} \X Nat) \cup ({"bulk"} \X Vals)

\* What one handler writes, and what a connection is sent: assemble() may wrap
\* the handlers' replies in one more array.
HandlerReply == ScalarReply \cup ({"array"} \X Seq(ScalarReply))
Reply        == HandlerReply \cup ({"array"} \X Seq(HandlerReply))

-----------------------------------------------------------------------------
(* A parsed command: its name, its keys in argument order (extract_keys)   *)
(* and, for SET and MSET, the value that follows each key.  The last key   *)
(* of an MSET may have none: the command table only asks for three         *)
(* arguments.  "unknown" stands for a name that is not in the command      *)
(* table or has the wrong arity, "malformed" for bytes the request parser  *)
(* rejects.                                                                *)

KeylessOps == {"malformed", "unknown", "ping", "flushall"}
OneKeyOps  == {"get", "set", "sadd"}
ManyKeyOps == {"mget", "mset", "del", "exists", "touch"}
Ops        == KeylessOps \cup OneKeyOps \cup ManyKeyOps \cup {"rename"}

Command(op, keys, vals) == [op |-> op, keys |-> keys, vals |-> vals]

\* The arity column of the command table.
ArityOk(cmd) ==
    LET n == Len(cmd.keys)
        m == Len(cmd.vals)
    IN  /\ cmd.op \in KeylessOps => n = 0
        /\ cmd.op \in OneKeyOps  => n = 1
        /\ cmd.op \in ManyKeyOps => n >= 1
        /\ cmd.op = "rename"      => n = 2
        /\ cmd.op = "set"         => m = n
        /\ cmd.op = "mset"        => m \in {n - 1, n} /\ n + m >= 2

\* MSET's own check, in its handler: a value follows every key.
WholePairs(cmd) == cmd.op = "mset" => Len(cmd.vals) = Len(cmd.keys)

AllCommands == {cmd \in [op : Ops, keys : Seq(Keys), vals : Seq(Vals)] : ArityOk(cmd)}

KeysOf(cmd) == {cmd.keys[i] : i \in 1 .. Len(cmd.keys)}

\* The commands dispatch() splits by key when their keys span shards.
\* UNLINK is DEL by another name (generic_cmds.cpp:70).
Decomposable == ManyKeyOps

-----------------------------------------------------------------------------
(* What each handler does to the database.                                 *)

LastIndex(keys, k) ==
    CHOOSE i \in 1 .. Len(keys) :
        keys[i] = k /\ \A j \in 1 .. Len(keys) : keys[j] = k => j <= i

\* set, and mset key by key: a later pair of the same command wins.
SetEffect(cmd, d) ==
    [k \in Keys |-> IF k \in KeysOf(cmd)
                    THEN Str(cmd.vals[LastIndex(cmd.keys, k)])
                    ELSE d[k]]

DelEffect(cmd, d) ==
    [k \in Keys |-> IF k \in KeysOf(cmd) THEN NoKey ELSE d[k]]

SaddEffect(cmd, d) ==
    LET k == cmd.keys[1]
    IN  IF d[k] = NoKey THEN [d EXCEPT ![k] = SetObj] ELSE d

\* Erases the source before it stores the destination, so RENAME k k keeps k.
RenameEffect(cmd, d) ==
    LET src == cmd.keys[1]
        dst == cmd.keys[2]
    IN  IF d[src] = NoKey THEN d
        ELSE [k \in Keys |-> CASE k = dst -> d[src]
                               [] k # dst /\ k = src -> NoKey
                               [] OTHER -> d[k]]

Effect(cmd, d) ==
    CASE cmd.op \in {"set", "mset"} /\ WholePairs(cmd) -> SetEffect(cmd, d)
      [] cmd.op = "del"    -> DelEffect(cmd, d)
      [] cmd.op = "sadd"   -> SaddEffect(cmd, d)
      [] cmd.op = "rename" -> RenameEffect(cmd, d)
      [] OTHER             -> d

-----------------------------------------------------------------------------
(* What each handler replies.                                              *)

GetAnswer(cmd, d) ==
    LET o == d[cmd.keys[1]]
    IN  CASE o = NoKey  -> Null
          [] o = SetObj -> Err("WRONGTYPE")
          [] OTHER      -> Bulk(o[2])

\* Unlike GET, MGET answers null for a key that holds a non-string.
MgetAnswer(cmd, d) ==
    Array([i \in 1 .. Len(cmd.keys) |->
             LET o == d[cmd.keys[i]]
             IN  IF o \in {NoKey, SetObj} THEN Null ELSE Bulk(o[2])])

\* A key named twice is erased once.
DelAnswer(cmd, d) == Num(Cardinality({k \in KeysOf(cmd) : d[k] # NoKey}))

\* A key named twice counts twice.
ExistsAnswer(cmd, d) ==
    Num(Cardinality({i \in 1 .. Len(cmd.keys) : d[cmd.keys[i]] # NoKey}))

SaddAnswer(cmd, d) ==
    LET o == d[cmd.keys[1]]
    IN  CASE o = NoKey  -> Num(1)
          [] o = SetObj -> Num(0)
          [] OTHER      -> Err("WRONGTYPE")

RenameAnswer(cmd, d) == IF d[cmd.keys[1]] = NoKey THEN Err("NOKEY") ELSE Ok

\* TOUCH is registered with the EXISTS handler (registry.cpp:51).
Answer(cmd, d) ==
    CASE cmd.op = "ping"                -> Pong
      [] cmd.op = "get"                 -> GetAnswer(cmd, d)
      [] cmd.op = "mget"                -> MgetAnswer(cmd, d)
      [] cmd.op = "del"                 -> DelAnswer(cmd, d)
      [] cmd.op \in {"exists", "touch"} -> ExistsAnswer(cmd, d)
      [] cmd.op = "sadd"                -> SaddAnswer(cmd, d)
      [] cmd.op = "rename"              -> RenameAnswer(cmd, d)
      [] cmd.op = "unknown"             -> Err("ERR")
      [] ~WholePairs(cmd)               -> Err("ERR")
      [] OTHER                          -> Ok
=============================================================================
