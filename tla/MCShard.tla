------------------------------ MODULE MCShard ------------------------------
(***************************************************************************)
(* Instances of Shard for TLC: two shards, two connections, three keys.    *)
(* Keys k0 and j0 are owned by shard 0, k1 by shard 1; connection "a" is   *)
(* accepted by shard 0 and "b" by shard 1.                                 *)
(***************************************************************************)
EXTENDS Shard

MCOwner   == [k \in Keys |-> IF k = "k1" THEN 1 ELSE 0]
MCHome    == [c \in Conns |-> IF c = "b" THEN 1 ELSE 0]

MCTwoAndOne == [c \in Conns |-> IF c = "a" THEN 2 ELSE 1]
MCThree     == [c \in Conns |-> 3]

Get(k)      == Command("get", <<k>>, <<>>)
Set(k, v)   == Command("set", <<k>>, <<v>>)
Mget(ks)    == Command("mget", ks, <<>>)
Mset(ks,vs) == Command("mset", ks, vs)
Keyless(op) == Command(op, <<>>, <<>>)

\* Reads and writes, counting and deleting, RENAME split and not: local,
\* forwarded, split and refused; one MSET lacks a value.
MCRoutedRequests ==
    [c \in Conns |->
        IF c = "a"
        THEN {Set("k1", "v"), Mset(<<"k0", "k1">>, <<"w", "v">>), Mget(<<"k1", "k0">>)}
        ELSE {Set("k1", "w"), Command("del", <<"k1", "k0">>, <<>>),
              Command("exists", <<"j0", "k1">>, <<>>), Command("rename", <<"k0", "j0">>, <<>>),
              Command("rename", <<"k0", "k1">>, <<>>), Mset(<<"k0", "j0">>, <<"w">>),
              Keyless("flushall"), Keyless("unknown")}]

\* What a closing connection may have under way.
MCCloseRequests ==
    [c \in Conns |-> {Mset(<<"k0", "k1">>, <<"w", "v">>), Command("sadd", <<"k1">>, <<>>),
                      Keyless("malformed")}]

MCPipelineRequests ==
    [c \in Conns |-> {Get("k0"), Mset(<<"k0", "k1">>, <<"w", "v">>)}]
MCTouchRequests ==
    [c \in Conns |-> {Set("k1", "v"), Command("touch", <<"k0", "k1">>, <<>>)}]
=============================================================================
