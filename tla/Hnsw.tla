-------------------------------- MODULE Hnsw --------------------------------
(***************************************************************************)
(* The vector index behind VADD, VSIM and VREM (src/vector/hnsw.cpp): a    *)
(* navigable graph with levels.  Nodes are numbered from 1 in the order of *)
(* their insertion and never go away; links[n] are the neighbours on level *)
(* n - 1.  An integer of a vector stands for an angle: the distance of two *)
(* vectors of length one, as prepare() makes them, grows with the angle    *)
(* between them, and the code uses nothing of distances but their order.   *)
(***************************************************************************)
EXTENDS Integers, Sequences, FiniteSetsExt, SequencesExt

CONSTANTS m_,               \* links of a node on an upper level; twice that on level 0
          ef_construction_  \* candidates looked at while a node is inserted

ASSUME HnswAssumption == m_ \in Nat \ {0} /\ ef_construction_ \in Nat \ {0}

m0_ == 2 * m_
MaxLinks(level) == IF level = 0 THEN m0_ ELSE m_

\* HnswIndex(): no nodes, entry_point_ and max_level_ of -1.
EmptyIndex(dim) ==
    [dim |-> dim, nodes |-> <<>>, labels |-> <<>>, entry |-> -1, max_level |-> -1]

Levels(x, id)       == Len(x.nodes[id].links)
Links(x, id, level) == x.nodes[id].links[level + 1]

SetLinks(x, id, level, links) == [x EXCEPT !.nodes[id].links[level + 1] = links]

\* distance(), up to a monotone function.
Distance(a, b) ==
    LET sum[i \in 0 .. Len(a)] ==
          IF i = 0 THEN 0 ELSE sum[i - 1] + (a[i] - b[i]) * (a[i] - b[i])
    IN  sum[Len(a)]

\* An item <distance, id> of the two heaps, and their order.
Item(x, q, id) == <<Distance(q, x.nodes[id].vec), id>>
Nearer(a, b)   == a[1] < b[1] \/ (a[1] = b[1] /\ a[2] < b[2])
Nearest(heap)  == CHOOSE a \in heap : \A b \in heap \ {a} : Nearer(a, b)
Farthest(heap) == CHOOSE a \in heap : \A b \in heap \ {a} : Nearer(b, a)

\* The ids of a heap, nearest first.
NearestFirst(heap) ==
    LET place(a) == 1 + Cardinality({b \in heap : Nearer(b, a)})
    IN  [n \in 1 .. Cardinality(heap) |-> (CHOOSE a \in heap : place(a) = n)[2]]

\* A neighbour that was not visited, in the inner loop of search_layer().
Visit(heaps, item, ef) ==
    LET grown  == heaps.results \cup {item}
        enters == \/ Cardinality(heaps.results) < ef
                  \/ item[1] < Farthest(heaps.results)[1]
        out    == IF Cardinality(grown) > ef THEN {Farthest(grown)} ELSE {}
    IN  [visited    |-> heaps.visited \cup {item[2]},
         candidates |-> heaps.candidates \cup (IF enters THEN {item} ELSE {}),
         results    |-> IF enters THEN grown \ out ELSE heaps.results]

\* The inner loop.
VisitAll(x, q, ef, heaps, links) ==
    LET seen[n \in 0 .. Len(links)] ==
          IF n = 0 THEN heaps
          ELSE IF links[n] \in seen[n - 1].visited THEN seen[n - 1]
          ELSE Visit(seen[n - 1], Item(x, q, links[n]), ef)
    IN  seen[Len(links)]

\* The outer loop takes the nearest candidate.
Round(x, q, ef, level, heaps) ==
    LET cur  == Nearest(heaps.candidates)
        rest == [heaps EXCEPT !.candidates = @ \ {cur}]
        stop == /\ Cardinality(heaps.results) >= ef
                /\ cur[1] > Farthest(heaps.results)[1]
    IN  IF stop THEN [heaps EXCEPT !.candidates = {}]
        ELSE IF level >= Levels(x, cur[2]) THEN rest
        ELSE VisitAll(x, q, ef, rest, Links(x, cur[2], level))

\* search_layer(): up to ef nodes near q that the links of a level lead to from
\* entry, nearest first.  A node is a candidate once, so there are no more
\* rounds than nodes.
SearchLayer(x, q, entry, ef, level) ==
    LET start == {Item(x, q, entry)}
        loop[n \in 0 .. Len(x.nodes)] ==
          IF n = 0 THEN [visited |-> {entry}, candidates |-> start, results |-> start]
          ELSE IF loop[n - 1].candidates = {} THEN loop[n - 1]
          ELSE Round(x, q, ef, level, loop[n - 1])
    IN  NearestFirst(loop[Len(x.nodes)].results)

\* The back-link from c to a new node: the closest MaxLinks(level) are kept,
\* later nodes first or last among equals, as std::sort() happens to leave them.
BackLink(x, id, level, c, late) ==
    LET clinks == Append(Links(x, c, level), id)
        sorted == NearestFirst({<<Distance(x.nodes[c].vec, x.nodes[a].vec), IF late THEN -a ELSE a>> :
                                  a \in Range(clinks)})
        kept   == IF Len(clinks) > MaxLinks(level)
                  THEN [n \in 1 .. MaxLinks(level) |-> IF late THEN -sorted[n] ELSE sorted[n]]
                  ELSE clinks
    IN  SetLinks(x, c, level, kept)

\* Mutant: no links back.
ConnectOneWay(x, id, level, candidates, late) ==
    LET links == SubSeq(candidates, 1, Min({Len(candidates), MaxLinks(level)}))
    IN  SetLinks(x, id, level, links)

\* connect()
Connect(x, id, level, candidates, late) ==
    LET own    == {n \in DOMAIN candidates : candidates[n] = id}
        others == IF own = {} THEN candidates ELSE RemoveAt(candidates, Min(own))
        links  == SubSeq(others, 1, Min({Len(others), MaxLinks(level)}))
        back[n \in 0 .. Len(links)] ==
          IF n = 0 THEN SetLinks(x, id, level, links)
          ELSE BackLink(back[n - 1], id, level, links[n], late)
    IN  back[Len(links)]

\* Mutant: searches always begin at the latest node.
RaiseToLatest(x, id, level) == [x EXCEPT !.entry = id, !.max_level = Max({@, level})]

\* The end of add(): a node above all others is where searches begin.
Raise(x, id, level) ==
    IF level > x.max_level THEN [x EXCEPT !.entry = id, !.max_level = level] ELSE x

\* A level of add(): those above the new node's are only searched, the others
\* linked.  cur is where the next search begins.
Layer(above, id, vec, level, lvl, late) ==
    LET linked == lvl <= level
        found  == SearchLayer(above.index, vec, above.cur, IF linked THEN ef_construction_ ELSE 1, lvl)
    IN  [index |-> IF linked THEN Connect(above.index, id, lvl, found, late) ELSE above.index,
         cur   |-> Head(found)]

\* add() of a label that is new, with the level that random_level() draws.
Insert(x, label, vec, level, late) ==
    LET id   == Len(x.nodes) + 1
        node == [label |-> label, vec |-> vec, deleted |-> FALSE,
                 links |-> [n \in 1 .. level + 1 |-> <<>>]]
        with == [x EXCEPT !.nodes = Append(@, node),
                          !.labels = [l \in DOMAIN @ \cup {label} |->
                                        IF l = label THEN id ELSE @[l]]]
        \* once the levels above lvl are done
        layer[lvl \in -1 .. x.max_level] ==
          IF lvl = x.max_level THEN [index |-> with, cur |-> x.entry]
          ELSE Layer(layer[lvl + 1], id, vec, level, lvl + 1, late)
    IN  IF x.entry < 0 THEN [with EXCEPT !.entry = id, !.max_level = level]
        ELSE Raise(layer[-1].index, id, level)

\* add() of a label that is there: the vector changes, the links stay.
Update(x, label, vec) ==
    [x EXCEPT !.nodes[x.labels[label]].vec = vec, !.nodes[x.labels[label]].deleted = FALSE]

\* remove(): the node stays in the graph.
RemoveLabel(x, label) ==
    IF label \notin DOMAIN x.labels THEN x
    ELSE [x EXCEPT !.nodes[x.labels[label]].deleted = TRUE,
                   !.labels = [l \in DOMAIN @ \ {label} |-> @[l]]]

\* search(): nodes instead of labels and scores.
Search(x, q, k, ef) ==
    LET found[lvl \in 0 .. x.max_level + 1] ==
          IF lvl > x.max_level THEN <<x.entry>>
          ELSE SearchLayer(x, q, Head(found[lvl + 1]), IF lvl = 0 THEN Max({ef, k}) ELSE 1, lvl)
        live == SelectSeq(found[0], LAMBDA id : ~x.nodes[id].deleted)
    IN  IF x.entry < 0 \/ k = 0 THEN <<>> ELSE SubSeq(live, 1, Min({k, Len(live)}))
=============================================================================
