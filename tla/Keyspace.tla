------------------------------ MODULE Keyspace ------------------------------
(***************************************************************************)
(* The data of one shard: a dictionary of objects and a parallel table of  *)
(* deadlines (include/blazekv/keyspace.hpp, src/store/keyspace.cpp).       *)
(* Every operation is a function of a keyspace ks, a record of two partial *)
(* functions, and of the wall clock.  The operations that look a key up    *)
(* expire it first, so lookup() is the function from the keyspace it is    *)
(* called on to the keyspace it leaves behind.                             *)
(***************************************************************************)
EXTENDS Integers, FiniteSets

CONSTANTS Layout,   \* key -> its place in the iteration order of expires_
          Budget    \* keys one active cycle samples (20, shard.cpp:533)

\* Partial functions.
Put(f, k, v) == [x \in DOMAIN f \cup {k} |-> IF x = k THEN v ELSE f[x]]
Drop(f, k)   == [x \in DOMAIN f \ {k} |-> f[x]]

EmptyKeyspace == [dict |-> <<>>, expires |-> <<>>]

Has(ks, k) == k \in DOMAIN ks.dict

\* Past its deadline; a key that is due at this very tick has expired.
Expired(ks, k, now) == k \in DOMAIN ks.expires /\ ks.expires[k] <= now

\* Mutant: the deadline is left behind when the key goes.
EraseDictOnly(ks, k) == [ks EXCEPT !.dict = Drop(@, k)]

Erase(ks, k) == [dict |-> Drop(ks.dict, k), expires |-> Drop(ks.expires, k)]

\* Mutant: lookup() does not look at the deadline.
LookupStale(ks, k, now) == ks

\* lookup(): found iff Has(Lookup(ks, k, now), k).
Lookup(ks, k, now) == IF Has(ks, k) /\ Expired(ks, k, now) THEN Erase(ks, k) ELSE ks

\* set() clears the deadline of what it overwrites.
SetKey(ks, k, o) == [dict |-> Put(ks.dict, k, o), expires |-> Drop(ks.expires, k)]

\* An object changed in place keeps its deadline.
Update(ks, k, o) == [ks EXCEPT !.dict = Put(@, k, o)]

SetDeadline(ks, k, deadline) == [ks EXCEPT !.expires = Put(@, k, deadline)]
Persist(ks, k) == [ks EXCEPT !.expires = Drop(@, k)]

\* Zero stands for "no deadline", also when the stored deadline is zero.
DeadlineOrZero(ks, k) == IF k \in DOMAIN ks.expires THEN ks.expires[k] ELSE 0

\* ttl_ms() on what its lookup left behind.
TtlMs(ks, k, now) ==
    CASE ~Has(ks, k)                 -> -2
      [] Has(ks, k) /\ k \notin DOMAIN ks.expires -> -1
      [] OTHER -> IF ks.expires[k] > now THEN ks.expires[k] - now ELSE 0

\* Mutant: the budget is off by one.
SampleButOne(ks) ==
    {k \in DOMAIN ks.expires :
        Cardinality({j \in DOMAIN ks.expires : Layout[j] < Layout[k]}) + 1 < Budget}

\* The keys active_expire_cycle() looks at: the first Budget in table order.
Sample(ks) ==
    {k \in DOMAIN ks.expires :
        Cardinality({j \in DOMAIN ks.expires : Layout[j] < Layout[k]}) < Budget}

\* Mutant: the comparison is off by one.
DeadEarly(ks, now) == {k \in Sample(ks) : ks.expires[k] <= now + 1}

\* expired_out of active_expire_cycle().
Dead(ks, now) == {k \in Sample(ks) : ks.expires[k] <= now}

ActiveExpireCycle(ks, now) ==
    [dict    |-> [k \in DOMAIN ks.dict \ Dead(ks, now) |-> ks.dict[k]],
     expires |-> [k \in DOMAIN ks.expires \ Dead(ks, now) |-> ks.expires[k]]]

\* Reference: the keyspace with nothing expired left in it.  Two keyspaces are
\* the same to every client when their live parts are.
Live(ks, now) ==
    LET gone == {k \in DOMAIN ks.dict : Expired(ks, k, now)}
    IN  [dict    |-> [k \in DOMAIN ks.dict \ gone |-> ks.dict[k]],
         expires |-> [k \in DOMAIN ks.expires \ gone |-> ks.expires[k]]]

KeyspaceWellFormed(ks) ==
    /\ DOMAIN ks.expires \subseteq DOMAIN ks.dict
    /\ \A k \in DOMAIN ks.expires : ks.expires[k] \in Nat
=============================================================================
