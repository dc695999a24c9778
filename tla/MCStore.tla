------------------------------ MODULE MCStore ------------------------------
(***************************************************************************)
(* An instance of Store for TLC: commands of every type on two keys, the   *)
(* commands that meet deadlines, and patterns.                             *)
(***************************************************************************)
EXTENDS Store

MCLayout == [k \in Keys |-> IF k = "x" THEN 1 ELSE IF k = "y" THEN 2 ELSE 3]

\* "aabab" and "b"
MCSpelling == [k \in Keys |-> IF k = "x" THEN <<97, 97, 98, 97, 98>> ELSE <<98>>]

MCRegister == [e \in 1 .. 3 |-> e % 2]
MCRank     == [e \in 1 .. 3 |-> e]

Plain(op, keys, args) == Command(op, keys, args, {})

\* Every handler of the typed commands, and the errors they can meet.
MCTypedRequests ==
    {Plain(op, <<"x">>, <<>>) : op \in {"get", "append", "lpop", "rpop", "spop", "llen", "type"}}
    \cup {Plain("getset", <<"x">>, <<1>>), Plain("strlen", <<"x">>, <<>>),
          Plain("incrby", <<"x">>, <<8>>), Plain("decrby", <<"x">>, <<-3>>),
          Plain("incrby", <<"x">>, <<Unparsable>>),
          Plain("lpush", <<"x">>, <<1, 2>>), Plain("rpush", <<"x">>, <<3>>),
          Plain("lpop", <<"x">>, <<2>>), Plain("rpop", <<"x">>, <<-1>>),
          Plain("lrange", <<"x">>, <<0, -1>>), Plain("lindex", <<"x">>, <<-1>>),
          Plain("lrange", <<"x">>, <<Unparsable, 0>>), Plain("lset", <<"x">>, <<Unparsable, 1>>),
          Plain("lpop", <<"x">>, <<1, 1>>), Plain("lset", <<"x">>, <<1, 3>>), Plain("lset", <<"x">>, <<-1, 1>>),
          Plain("hset", <<"x">>, <<1, 1, 2, Unparsable>>), Plain("hmset", <<"x">>, <<1, 2>>),
          Plain("hdel", <<"x">>, <<1>>), Plain("hdel", <<"x">>, <<1, 2>>),
          Plain("hincrby", <<"x">>, <<2, 1>>), Plain("hget", <<"x">>, <<1>>),
          Plain("hmget", <<"x">>, <<1, 2>>), Plain("hexists", <<"x">>, <<1>>),
          Plain("hlen", <<"x">>, <<>>), Plain("hgetall", <<"x">>, <<>>)}
    \cup {Plain("sadd", <<"x">>, <<1, 2>>), Plain("srem", <<"x">>, <<1>>),
          Plain("srem", <<"x">>, <<1, 2>>), Plain("spop", <<"x">>, <<2>>),
          Plain("sismember", <<"x">>, <<1>>), Plain("scard", <<"x">>, <<>>),
          Plain("smembers", <<"x">>, <<>>),
          Plain("zadd", <<"x">>, <<2, 1, 1, 2>>), Command("zadd", <<"x">>, <<3, 1>>, {"xx", "ch"}),
          Command("zadd", <<"x">>, <<1, 1>>, {"gt"}), Command("zadd", <<"x">>, <<1, 2>>, {"nx"}),
          Command("zadd", <<"x">>, <<1, 1>>, {"lt"}), Command("zadd", <<"x">>, <<1, 1>>, {"incr"}),
          Plain("zrem", <<"x">>, <<1>>), Plain("zrem", <<"x">>, <<1, 2>>),
          Plain("zincrby", <<"x">>, <<1, 2>>), Plain("zcard", <<"x">>, <<>>),
          Plain("zscore", <<"x">>, <<1>>), Plain("zrank", <<"x">>, <<1>>),
          Plain("zrange", <<"x">>, <<0, -2>>), Command("zrange", <<"x">>, <<0, 0>>, {"rev"}),
          Command("zrangebyscore", <<"x">>, <<1, 2>>, {"minexcl"}),
          Command("zrangebyscore", <<"x">>, <<1, 2>>, {"maxexcl"})}
    \cup {Plain("mset", <<"x", "y">>, <<1, 2>>), Plain("mget", <<"x", "y">>, <<>>),
          Plain("del", <<"x", "y">>, <<>>), Plain("rename", <<"x", "y">>, <<>>),
          Plain("rename", <<"x", "x">>, <<>>), Plain("rename", <<"y", "x">>, <<>>),
          Plain("dbsize", <<>>, <<>>), Plain("randomkey", <<>>, <<>>), Plain("object", <<"x">>, <<>>),
          Command("scan", <<>>, <<Star>>, {"list"})}
    \cup {Plain("getrange", <<"x">>, <<-2, 5>>), Plain("setrange", <<"x">>, <<1>>),
          Plain("pfadd", <<"x">>, <<>>), Plain("pfadd", <<"x">>, <<1, 3>>), Plain("pfadd", <<"y">>, <<2>>),
          Plain("pfcount", <<"x", "y">>, <<>>), Plain("pfmerge", <<"y", "x">>, <<>>),
          Plain("hkeys", <<"x">>, <<>>), Plain("hvals", <<"x">>, <<>>)}

\* The commands that give, move, keep, take away or look at deadlines.  The
\* deadlines of x, which is in front, fall before and behind those of y.
MCTimedRequests ==
    UNION {{Plain("expire", <<k>>, <<1>>), Plain("expireat", <<k>>, <<3>>),
            Plain("persist", <<k>>, <<>>), Plain("ttl", <<k>>, <<>>),
            Plain("incrby", <<k>>, <<1>>), Plain("append", <<k>>, <<>>),
            Plain("setnx", <<k>>, <<1>>), Plain("setex", <<k>>, <<1, 2>>)} : k \in {"x"}}
    \cup {Plain("set", <<"y">>, <<1>>),
          Command("set", <<"x">>, <<1, 2>>, {"ex", "nx"}),
          Command("set", <<"x">>, <<2, 3>>, {"exat", "xx", "get"}),
          Command("set", <<"x">>, <<2>>, {"keepttl"}), Command("set", <<"x">>, <<1, 0>>, {"ex"}),
          Plain("expireat", <<"y">>, <<2>>), Plain("expire", <<"y">>, <<-9>>), Plain("expire", <<"y">>, <<Unparsable>>),
          Plain("rename", <<"x", "y">>, <<>>), Plain("mget", <<"y", "x">>, <<>>),
          Plain("exists", <<"x", "y">>, <<>>), Plain("rpush", <<"x">>, <<1>>),
          Plain("keys", <<>>, <<Star>>), Plain("get", <<"y">>, <<>>)}

\* Patterns of stars, jokers and letters, and some with classes: [a-b]*, [^a],
\* *[!a]?b, [ab, \b, and a*[b-]b.
MCPatterns ==
    UNION {[1 .. len -> {Star, AnyOne, 97, 98}] : len \in 0 .. 4}
    \cup {<<Open, 97, Dash, 98, Shut, Star>>, <<Open, 94, 97, Shut>>,
          <<Star, Open, 33, 97, Shut, AnyOne, 98>>, <<Open, 97, 98>>, <<Escape, 98>>,
          <<97, Star, Open, 98, Dash, Shut, 98>>}

MCPatternRequests ==
    {Plain("keys", <<>>, p) : p \in MCPatterns} \cup {Plain("mset", <<"x", "y">>, <<1, 2>>)}

\* Longer sequences of those that change objects.
MCChanging == {"append", "lpop", "rpop", "spop", "incrby", "lpush", "lset", "hset", "hdel", "hincrby",
               "sadd", "srem", "zadd", "zrem", "del", "rename", "setrange", "pfadd", "pfmerge"}
MCChangingRequests == {c \in MCTypedRequests : c.op \in MCChanging}

MCSetups == {[requests |-> MCTypedRequests, commands |-> 3, time |-> 1],
             [requests |-> MCChangingRequests, commands |-> 4, time |-> 1],
             [requests |-> MCTimedRequests, commands |-> 4, time |-> 5],
             [requests |-> MCPatternRequests, commands |-> 2, time |-> 1]}
=============================================================================
