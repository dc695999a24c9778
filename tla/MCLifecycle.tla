---------------------------- MODULE MCLifecycle ----------------------------
(***************************************************************************)
(* An instance of Lifecycle for TLC: two client commands, one of them      *)
(* blank, and a query, on keys of both shards.                             *)
(***************************************************************************)
EXTENDS Lifecycle

MCHash == [c \in Commands |-> IF c = "q" THEN 1 ELSE 0]
=============================================================================
