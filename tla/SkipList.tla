------------------------------ MODULE SkipList ------------------------------
(***************************************************************************)
(* The indexable skip list of skiplist.hpp, as operators on a record:      *)
(*   nodes   the allocated nodes; HeadNode is head_, Nil is nullptr        *)
(*   tail    tail_                                                         *)
(*   length  length_                                                       *)
(*   level   level_                                                        *)
(* A node has a member, a score, the backward pointer and, per level, the  *)
(* forward pointer and its span.  Members are numbers, compared as the     *)
(* code compares strings.  A score is a number or NaN, which compares with *)
(* nothing (IEEE 754).  The level random_level() draws is a parameter.     *)
(***************************************************************************)
EXTENDS Integers, Sequences, FiniteSets, FiniteSetsExt

CONSTANTS kMaxLevel, NaN

ASSUME SkipListAssumption == kMaxLevel \in Nat \ {0} /\ NaN \notin Int

HeadNode == 0
Nil  == -1

Less(a, b)  == a # NaN /\ b # NaN /\ a < b
Equal(a, b) == a # NaN /\ a = b

NullLink == [forward |-> Nil, span |-> 0]

EmptyList ==
    [nodes  |-> [n \in {HeadNode} |-> [member |-> 0, score |-> 0, backward |-> Nil,
                                   level  |-> [i \in 0 .. kMaxLevel - 1 |-> NullLink]]],
     tail   |-> Nil,
     length |-> 0,
     level  |-> 1]

Forward(sl, n, i) == sl.nodes[n].level[i].forward
Span(sl, n, i)    == sl.nodes[n].level[i].span
ListNodes(sl)     == DOMAIN sl.nodes \ {HeadNode}
NodesWith(sl, i)  == {n \in DOMAIN sl.nodes : i \in DOMAIN sl.nodes[n].level}
-----------------------------------------------------------------------------
(* The descent.  A search goes forward on each level, from the highest     *)
(* down, while the next node is in a given set, and counts spans.          *)

Advance(sl, i, at, before) ==
    LET from[n \in NodesWith(sl, i)] ==
          LET next == Forward(sl, n, i)
          IN  IF next = Nil \/ next \notin before THEN [node |-> n, rank |-> 0]
              ELSE [from[next] EXCEPT !.rank = @ + Span(sl, n, i)]
    IN  [from[at.node] EXCEPT !.rank = @ + at.rank]

Start == [node |-> HeadNode, rank |-> 0]

\* Where the descent is when it leaves each level.
Descent(sl, before) ==
    LET at[i \in 0 .. sl.level - 1] ==
          Advance(sl, i, IF i = sl.level - 1 THEN Start ELSE at[i + 1], before)
    IN  at

Precedes(sl, n, m, s) ==
    \/ Less(sl.nodes[n].score, s)
    \/ Equal(sl.nodes[n].score, s) /\ sl.nodes[n].member < m

Before(sl, m, s) == {n \in ListNodes(sl) : Precedes(sl, n, m, s)}

Holds(sl, n, m, s) ==
    n \in ListNodes(sl) /\ Equal(sl.nodes[n].score, s) /\ sl.nodes[n].member = m
-----------------------------------------------------------------------------
(* Changing the list.                                                      *)

FreshNode(sl) == Min((1 .. Cardinality(DOMAIN sl.nodes)) \ DOMAIN sl.nodes)

\* Mutant: a link that passes over a new node keeps its span.
SpanKept(link) == link

\* A link that passes over a node that comes or goes.
LongerLink(link)  == [link EXCEPT !.span = @ + 1]
ShorterLink(link) == [link EXCEPT !.span = @ - 1]

\* insert(): prev is update[], ahead[i] is rank[0] - rank[i].
ListInsert(sl, m, s, lvl) ==
    LET path  == Descent(sl, Before(sl, m, s))
        x     == FreshNode(sl)
        top   == Max({lvl, sl.level})
        prev  == [i \in 0 .. top - 1 |-> IF i < sl.level THEN path[i].node ELSE HeadNode]
        ahead == [i \in 0 .. top - 1 |-> path[0].rank - (IF i < sl.level THEN path[i].rank ELSE 0)]
        wide  == [i \in 0 .. top - 1 |-> IF i < sl.level THEN Span(sl, prev[i], i) ELSE sl.length]
        next  == Forward(sl, prev[0], 0)
        link(n, i) ==
          IF i \notin 0 .. top - 1 \/ prev[i] # n THEN sl.nodes[n].level[i]
          ELSE IF i < lvl THEN [forward |-> x, span |-> ahead[i] + 1]
          ELSE LongerLink(sl.nodes[n].level[i])
        fresh == [member   |-> m,
                  score    |-> s,
                  backward |-> IF prev[0] = HeadNode THEN Nil ELSE prev[0],
                  level    |-> [i \in 0 .. lvl - 1 |-> [forward |-> Forward(sl, prev[i], i),
                                                        span    |-> wide[i] - ahead[i]]]]
    IN  [nodes  |-> [n \in DOMAIN sl.nodes \cup {x} |->
                       IF n = x THEN fresh
                       ELSE [sl.nodes[n] EXCEPT !.level    = [i \in DOMAIN @ |-> link(n, i)],
                                                !.backward = IF n = next THEN x ELSE @]],
         tail   |-> IF next = Nil THEN x ELSE sl.tail,
         length |-> sl.length + 1,
         level  |-> top]

\* remove_node(): x is unlinked where a link leads to it, and the links that
\* pass over it get one shorter; then the empty levels are given up.
RemoveNode(sl, x, prev) ==
    LET node == sl.nodes[x]
        next == node.level[0].forward
        link(n, i) ==
          IF i \notin 0 .. sl.level - 1 \/ prev[i] # n THEN sl.nodes[n].level[i]
          ELSE IF Forward(sl, n, i) = x
               THEN [forward |-> node.level[i].forward,
                     span    |-> Span(sl, n, i) + node.level[i].span - 1]
          ELSE ShorterLink(sl.nodes[n].level[i])
        nodes == [n \in DOMAIN sl.nodes \ {x} |->
                    [sl.nodes[n] EXCEPT !.level    = [i \in DOMAIN @ |-> link(n, i)],
                                        !.backward = IF n = next THEN node.backward ELSE @]]
    IN  [nodes  |-> nodes,
         tail   |-> IF next = Nil THEN node.backward ELSE sl.tail,
         length |-> sl.length - 1,
         level  |-> Max({1} \cup {i + 1 : i \in {j \in 0 .. sl.level - 1 :
                                                   nodes[HeadNode].level[j].forward # Nil}})]

\* erase(): nothing happens if the node behind the descent is another one.
ListErase(sl, m, s) ==
    LET path == Descent(sl, Before(sl, m, s))
        x    == Forward(sl, path[0].node, 0)
    IN  IF Holds(sl, x, m, s)
        THEN RemoveNode(sl, x, [i \in 0 .. sl.level - 1 |-> path[i].node])
        ELSE sl
-----------------------------------------------------------------------------
(* Queries.                                                                *)

\* rank_of(): counted from 1; 0 if no level of the descent ends at the node.
RankOf(sl, m, s) ==
    LET path == Descent(sl, Before(sl, m, s) \cup {n \in ListNodes(sl) : Holds(sl, n, m, s)})
        ends == {i \in 0 .. sl.level - 1 : Holds(sl, path[i].node, m, s)}
    IN  IF ends = {} THEN 0 ELSE path[Max(ends)].rank

\* From a node that is left places before the rank.
AdvanceTo(sl, i, at, rank) ==
    LET from[n \in NodesWith(sl, i)] ==
          [left \in Nat |->
             IF Forward(sl, n, i) = Nil \/ Span(sl, n, i) > left THEN [node |-> n, rank |-> rank - left]
             ELSE from[Forward(sl, n, i)][left - Span(sl, n, i)]]
    IN  from[at.node][rank - at.rank]

\* at_rank(): the node, or Nil.
AtRank(sl, rank) ==
    LET at[i \in 0 .. sl.level - 1] ==
          AdvanceTo(sl, i, IF i = sl.level - 1 THEN Start ELSE at[i + 1], rank)
        ends == {i \in 0 .. sl.level - 1 : at[i].rank = rank /\ at[i].node # HeadNode}
    IN  IF ends = {} THEN Nil ELSE at[Max(ends)].node

\* first_gte(): the node, or Nil.
FirstGte(sl, min) ==
    LET path == Descent(sl, {n \in ListNodes(sl) : Less(sl.nodes[n].score, min)})
    IN  Forward(sl, path[0].node, 0)

\* The nodes from head() on, and from tail() back.
ChainFrom(sl, first) ==
    LET chain[n \in DOMAIN sl.nodes \cup {Nil}] ==
          IF n = Nil THEN <<>> ELSE <<n>> \o chain[Forward(sl, n, 0)]
    IN  chain[first]

ChainBack(sl, last) ==
    LET chain[n \in DOMAIN sl.nodes \cup {Nil}] ==
          IF n = Nil THEN <<>> ELSE chain[sl.nodes[n].backward] \o <<n>>
    IN  chain[last]
=============================================================================
