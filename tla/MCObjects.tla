----------------------------- MODULE MCObjects -----------------------------
(***************************************************************************)
(* Instances of Objects for TLC.  Key 0 is the empty string.  Groups of    *)
(* two make the table of four slots one of two groups.  Keys 0 and 1 have  *)
(* the same hash, 2 has their control byte and starts in the last slot,    *)
(* where its group wraps.                                                  *)
(***************************************************************************)
EXTENDS Objects

MCH1 == [k \in 0 .. 3 |-> CASE k = 0 -> 0 [] k = 1 -> 0 [] k = 2 -> 3 [] k = 3 -> 1]
MCH2 == [k \in 0 .. 3 |-> CASE k = 0 -> 5 [] k = 1 -> 5 [] k = 2 -> 5 [] k = 3 -> 7]

MCKeysOf == [t \in {"table", "zset", "index"} |->
               CASE t = "table" -> 0 .. 3 [] t = "zset" -> 0 .. 2 [] t = "index" -> 0 .. 1]

\* Three angles, and a vector of another length.
MCVectors == {<<0>>, <<1>>, <<3>>, <<1, 1>>}
=============================================================================
