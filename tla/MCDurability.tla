---------------------------- MODULE MCDurability ----------------------------
(***************************************************************************)
(* Instances of Durability for TLC.                                        *)
(***************************************************************************)
EXTENDS Durability

MCLayout == [k \in Keys |-> IF k = "x" THEN 1 ELSE 2]

MCSpelling == [k \in Keys |-> IF k = "x" THEN <<120>> ELSE <<121>>]
MCRegister == [e \in 1 .. 3 |-> e % 2]
MCRank     == [e \in 1 .. 3 |-> e]

Plain(op, keys, args) == Command(op, keys, args, {})

MCSetup(aof, fsync, requests, flushall, snapshots, faults, limit) ==
    [aof |-> aof, fsync |-> fsync, requests |-> requests, flushall |-> flushall,
     snapshots |-> snapshots, faults |-> faults, crashes |-> limit]

\* Commands whose replay gives another state when one of them is lost, repeated
\* or moved; none of them depends on the clock.
MCOrderedRequests ==
    {Plain("set", <<"x">>, <<1>>), Plain("incrby", <<"x">>, <<1>>), Plain("rpush", <<"y">>, <<2>>),
     Plain("lpop", <<"y">>, <<>>), Plain("rename", <<"x", "y">>, <<>>), Plain("get", <<"x">>, <<>>)}

\* Keys that expire while the log is written.  They are ClockFree: x, which is
\* given a deadline, is only overwritten or deleted and never changed in place.
MCExpiringRequests ==
    {Plain("set", <<"x">>, <<1>>), Plain("set", <<"x">>, <<2>>), Plain("expireat", <<"x">>, <<3>>),
     Plain("set", <<"y">>, <<1>>), Plain("del", <<"x", "y">>, <<>>)}

\* Everything about deadlines, relative ones included.
MCTimedRequests ==
    {Plain("set", <<"x">>, <<1>>), Plain("expire", <<"x">>, <<2>>), Plain("expireat", <<"x">>, <<4>>),
     Plain("persist", <<"x">>, <<>>), Plain("incrby", <<"x">>, <<1>>), Plain("rpush", <<"y">>, <<1>>),
     Plain("setex", <<"x">>, <<1, 2>>), Plain("rename", <<"x", "y">>, <<>>)}

\* The log under each policy, without snapshots, and snapshots without the log.
MCSetups ==
    {MCSetup(TRUE, "always", MCOrderedRequests, TRUE, FALSE, {"kill", "power"}, 2),
     MCSetup(TRUE, "everysec", MCExpiringRequests, TRUE, FALSE, {"power"}, 1),
     MCSetup(TRUE, "no", MCOrderedRequests, TRUE, FALSE, {"kill", "power", "tear"}, 1),
     MCSetup(FALSE, "no", MCTimedRequests, TRUE, TRUE, {"kill", "full"}, 1)}

MCTornTail ==
    {MCSetup(TRUE, "always", MCOrderedRequests, FALSE, FALSE, {"power", "tear"}, 2)}
=============================================================================
