----------------------------- MODULE Dictionary -----------------------------
(***************************************************************************)
(* What the containers of a value object promise: a partial function from  *)
(* keys to values, and for every operation the answer whether the key is   *)
(* new, or was there (insert_or_assign(), erase(), ZSetType::set(),        *)
(* ZSetType::remove()).                                                    *)
(***************************************************************************)
CONSTANTS Keys, Values

VARIABLES entries,   \* the partial function
          answer     \* what the last operation returned

vars == <<entries, answer>>

Init ==
    /\ entries = [k \in {} |-> k]
    /\ answer  = FALSE

Put(k, v) ==
    /\ entries' = [j \in DOMAIN entries \cup {k} |-> IF j = k THEN v ELSE entries[j]]
    /\ answer'  = (k \notin DOMAIN entries)

Delete(k) ==
    /\ entries' = [j \in DOMAIN entries \ {k} |-> entries[j]]
    /\ answer'  = (k \in DOMAIN entries)

Empty ==
    /\ entries' = [k \in {} |-> k]
    /\ UNCHANGED answer

Next ==
    \/ \E k \in Keys, v \in Values : Put(k, v)
    \/ \E k \in Keys : Delete(k)
    \/ Empty

Spec == Init /\ [][Next]_vars
=============================================================================
