------------------------------ MODULE Objects ------------------------------
(***************************************************************************)
(* What a shard keeps under one key, if it is not a string or a list       *)
(* (object.hpp, vector_cmds.cpp): one Swiss table, which is what a hash, a *)
(* set and the two tables of a keyspace are; a sorted set, which is a      *)
(* Swiss table from members to scores beside a skip list that orders the   *)
(* same pairs; or a vector index.  The type is fixed when it is made.      *)
(***************************************************************************)
EXTENDS SwissTable, SkipList, Hnsw

CONSTANTS KeysOf,       \* the types of object, and the keys one of each type is used with
          Values,       \* values or scores
          Reservations, \* arguments of reserve()
          Vectors,      \* the vectors of an index; its keys are labels
          MaxLevel,     \* bound on what random_level() draws
          MaxNodes      \* bound on the nodes of an index, tombstones included

Keys == UNION {KeysOf[t] : t \in DOMAIN KeysOf}

ASSUME ObjectsAssumption ==
    /\ Keys \subseteq Nat /\ Keys \subseteq DOMAIN H1
    /\ Reservations \subseteq Nat
    /\ Vectors \subseteq Seq(Int)
    /\ MaxLevel \in Nat

VARIABLES type,      \* "table", "zset" or "index"
          dict,      \* the Swiss table
          sl,        \* the skip list of a sorted set
          vindex,    \* the vector index
          answer     \* what the last operation returned

vars == <<type, dict, sl, vindex, answer>>

\* vector_indexes() has no index for the key; VADD makes one.
NoIndex == EmptyIndex(0)

\* make_hash(), make_set(), make_zset(): the constructors of the containers.
Init ==
    /\ type \in DOMAIN KeysOf
    /\ dict = FreshTable(kGroup)
    /\ sl = EmptyList
    /\ vindex = NoIndex
    /\ answer = FALSE
-----------------------------------------------------------------------------
(* A table.                                                                *)

TablePut(k, v) ==
    LET r == InsertOrAssign(dict, k, v)
    IN  /\ type = "table"
        /\ dict'   = r.table
        /\ answer' = r.result
        /\ UNCHANGED <<type, sl, vindex>>

TableErase(k) ==
    LET r == Erase(dict, k)
    IN  /\ type = "table"
        /\ dict'   = r.table
        /\ answer' = r.result
        /\ UNCHANGED <<type, sl, vindex>>

TableClear ==
    /\ type = "table"
    /\ dict' = Clear(dict)
    /\ UNCHANGED <<type, sl, vindex, answer>>

TableReserve(n) ==
    /\ type = "table"
    /\ dict' = Reserve(dict, n)
    /\ UNCHANGED <<type, sl, vindex, answer>>
-----------------------------------------------------------------------------
(* A sorted set.                                                           *)

\* Mutant: set() leaves the old pair of a member in the list.
RelinkKeepingOld(list, m, old, s, lvl) == ListInsert(list, m, s, lvl)

\* set() for a member whose score changes.
Relink(list, m, old, s, lvl) == ListInsert(ListErase(list, m, old), m, s, lvl)

\* ZSetType::set()
ZSet(m, s) ==
    LET at == Find(dict, m)
        r  == InsertOrAssign(dict, m, s)
    IN  /\ type = "zset"
        /\ UNCHANGED <<type, vindex>>
        /\ \/ /\ at >= 0
              /\ Equal(dict.slots[at].value, s)
              /\ answer' = FALSE
              /\ UNCHANGED <<dict, sl>>
           \/ /\ at >= 0
              /\ ~Equal(dict.slots[at].value, s)
              /\ \E lvl \in 1 .. kMaxLevel :
                    sl' = Relink(sl, m, dict.slots[at].value, s, lvl)
              /\ dict'   = [dict EXCEPT !.slots[at].value = s]
              /\ answer' = FALSE
           \/ /\ at < 0
              /\ dict' = r.table
              /\ \E lvl \in 1 .. kMaxLevel : sl' = ListInsert(sl, m, s, lvl)
              /\ answer' = TRUE

\* ZSetType::remove()
ZRemove(m) ==
    LET at == Find(dict, m)
    IN  /\ type = "zset"
        /\ dict'   = Erase(dict, m).table
        /\ sl'     = IF at < 0 THEN sl ELSE ListErase(sl, m, dict.slots[at].value)
        /\ answer' = (at >= 0)
        /\ UNCHANGED <<type, vindex>>
-----------------------------------------------------------------------------
(* A vector index.                                                         *)

\* vadd() with a vector that parses.
Vadd(l, vec) ==
    LET x == IF vindex = NoIndex THEN EmptyIndex(Len(vec)) ELSE vindex
    IN  /\ type = "index"
        /\ UNCHANGED <<type, dict, sl>>
        /\ \/ /\ x.dim # Len(vec)
              /\ UNCHANGED <<vindex, answer>>
           \/ /\ x.dim = Len(vec)
              /\ l \in DOMAIN x.labels
              /\ vindex' = Update(x, l, vec)
              /\ answer' = FALSE
           \/ /\ x.dim = Len(vec)
              /\ l \notin DOMAIN x.labels
              /\ Len(x.nodes) < MaxNodes
              /\ \E level \in 0 .. MaxLevel, late \in BOOLEAN :
                    vindex' = Insert(x, l, vec, level, late)
              /\ answer' = TRUE

\* vrem()
Vrem(l) ==
    /\ type = "index"
    /\ vindex' = RemoveLabel(vindex, l)
    /\ answer' = (l \in DOMAIN vindex.labels)
    /\ UNCHANGED <<type, dict, sl>>

\* vsim() with a positive count; 32, the constant of its ef, is m0_ for an
\* index made by vadd().
Vsim(x, q, count) == IF x.dim # Len(q) THEN <<>> ELSE Search(x, q, count, count * 4 + m0_)
-----------------------------------------------------------------------------
Next ==
    \/ \E k \in KeysOf[type], v \in Values : TablePut(k, v)
    \/ \E k \in KeysOf[type] : TableErase(k)
    \/ TableClear
    \/ \E n \in Reservations : TableReserve(n)
    \/ \E k \in KeysOf[type], v \in Values : ZSet(k, v)
    \/ \E k \in KeysOf[type] : ZRemove(k)
    \/ \E l \in KeysOf[type], vec \in Vectors : Vadd(l, vec)
    \/ \E l \in KeysOf[type] : Vrem(l)

Spec == Init /\ [][Next]_vars
-----------------------------------------------------------------------------
(* Properties.                                                             *)

\* Deletion and growth never break a probe chain and probing always ends
\* (DESIGN.md, Swiss table; swiss_table.hpp:81 and 128): a search for any key,
\* present or absent, stops; every full slot is the one that a search for its
\* key finds, so no key is in the table twice or out of reach; and the counters
\* that decide on growth are what the control bytes say, the mirrored ones
\* included.
TableIsSound ==
    /\ \A k \in Keys : Returns(dict, k)
    /\ \A i \in FullSlots(dict) : Find(dict, dict.slots[i].key) = i
    /\ dict.size  = Cardinality(FullSlots(dict))
    /\ dict.tombs = Cardinality({i \in 0 .. dict.cap - 1 : dict.ctrl[i] = kDeleted})
    /\ \A i \in 0 .. kGroup - 1 : dict.ctrl[dict.cap + i] = dict.ctrl[i]

\* The object implements a partial function, with the right answers, whatever
\* was inserted, deleted, moved and rehashed before; a vector index is one from
\* labels to vectors.
Dict ==
    INSTANCE Dictionary WITH
      entries <- Contents(dict),
      answer  <- type # "index" /\ answer
LabelDict ==
    INSTANCE Dictionary WITH
      Values  <- Vectors,
      entries <- [l \in DOMAIN vindex.labels |-> vindex.nodes[vindex.labels[l]].vec],
      answer  <- type = "index" /\ answer
ImplementsDictionary == Dict!Spec /\ LabelDict!Spec

Pair(n) == <<sl.nodes[n].member, sl.nodes[n].score>>

\* The list of a sorted set has exactly the pairs of its dictionary, in the
\* order of score and member, forwards from head() and backwards from tail()
\* (the caller keeps the two together, skiplist.hpp:14 and 48).
ListMatchesDict ==
    type = "zset" =>
      LET chain == ChainFrom(sl, Forward(sl, HeadNode, 0))
      IN  /\ {Pair(chain[i]) : i \in DOMAIN chain}
               = {<<m, Contents(dict)[m]>> : m \in DOMAIN Contents(dict)}
          /\ Len(chain) = dict.size
          /\ sl.length = dict.size
          /\ \A i \in DOMAIN chain : i > 1 =>
                Precedes(sl, chain[i - 1], sl.nodes[chain[i]].member, sl.nodes[chain[i]].score)
          /\ ChainBack(sl, sl.tail) = chain

\* ZRANK, ZRANGE and ZRANGEBYSCORE ask the list by rank and by score: the spans
\* add up to the position of every node whatever towers insertions and
\* deletions left, positions outside find nothing, and the first node from a
\* score on is the first in order.
RanksAreExact ==
    type = "zset" =>
      LET chain == ChainFrom(sl, Forward(sl, HeadNode, 0))
      IN  /\ \A i \in DOMAIN chain :
               /\ RankOf(sl, sl.nodes[chain[i]].member, sl.nodes[chain[i]].score) = i
               /\ AtRank(sl, i) = chain[i]
          /\ AtRank(sl, 0) = Nil /\ AtRank(sl, Len(chain) + 1) = Nil
          /\ \A v \in Values :
               LET from == {i \in DOMAIN chain : ~Less(sl.nodes[chain[i]].score, v)}
               IN  FirstGte(sl, v) = IF from = {} THEN Nil ELSE chain[Min(from)]

LiveNodes == {id \in DOMAIN vindex.nodes : ~vindex.nodes[id].deleted}

\* search_layer() and connect() subscript a node's links by a level they take
\* from other nodes (hnsw.cpp:74 and 104): a link on a level leads to another
\* node that has that level, the entry point has every level there is, no list
\* is longer than allowed, and the labels are those of the nodes not deleted.
IndexIsSound ==
    LET ids == DOMAIN vindex.nodes
    IN  /\ \A id \in ids : \A level \in 0 .. Levels(vindex, id) - 1 :
             LET links == Links(vindex, id, level)
             IN  /\ Len(links) <= MaxLinks(level)
                 /\ IsInjective(links)
                 /\ \A i \in DOMAIN links :
                      links[i] \in ids \ {id} /\ level < Levels(vindex, links[i])
        /\ ids # {} => vindex.max_level + 1 = Levels(vindex, vindex.entry)
        /\ \A id \in ids : Levels(vindex, id) <= vindex.max_level + 1
        /\ vindex.labels = [l \in {vindex.nodes[id].label : id \in LiveNodes} |->
                              CHOOSE id \in LiveNodes : vindex.nodes[id].label = l]

\* VSIM answers "the count nearest labels", best first and without those that
\* VREM took away, whatever was moved by a second VADD, as long as no list of
\* level 0 had to be cut; beyond that the index is approximate.
SearchIsExact ==
    Len(vindex.nodes) <= m0_ + 1 =>
      \A q \in Vectors, count \in 1 .. m0_ + 2 :
        LET found   == Vsim(vindex, q, count)
            Far(id) == Distance(q, vindex.nodes[id].vec)
        IN  vindex.dim = Len(q) =>
              /\ Len(found) = Min({count, Cardinality(LiveNodes)})
              /\ IsInjective(found)
              /\ \A i \in DOMAIN found :
                   /\ found[i] \in LiveNodes
                   /\ \A id \in LiveNodes \ {found[j] : j \in 1 .. i} : Far(found[i]) <= Far(id)
=============================================================================
