--------------------------------- MODULE Tree ---------------------------------
(***************************************************************************)
(* The walkers over a tree of folders and leaves that the workspace and    *)
(* the strat calculator share (frontend/src/lib/tree.js).  A tree is a     *)
(* sequence of nodes; a node has an `id` and `kids`, and fields of its     *)
(* owner's.  Document order is the order of `flatten`.                     *)
(***************************************************************************)
EXTENDS Integers, Sequences, FiniteSets, SequencesExt

Root == 0    \* the parent of what lies at the top

RECURSIVE flatten(_)
flatten(nodes) ==
    IF nodes = <<>> THEN <<>>
    ELSE <<Head(nodes)>> \o flatten(Head(nodes).kids) \o flatten(Tail(nodes))

RECURSIVE removeNode(_, _)
removeNode(nodes, id) ==
    LET kept == SelectSeq(nodes, LAMBDA n : n.id # id)
    IN [i \in DOMAIN kept |-> [kept[i] EXCEPT !.kids = removeNode(@, id)]]

\* mapNode with a function that changes the children.
RECURSIVE withKids(_, _, _)
withKids(nodes, id, kids) ==
    [i \in DOMAIN nodes |-> [nodes[i] EXCEPT !.kids = IF nodes[i].id = id THEN kids ELSE withKids(@, id, kids)]]

RECURSIVE depthOf(_)
depthOf(nodes) ==
    IF nodes = <<>> THEN 0
    ELSE LET a == 1 + depthOf(Head(nodes).kids)  b == depthOf(Tail(nodes)) IN IF a > b THEN a ELSE b

idsOf(nodes)    == {n.id : n \in ToSet(flatten(nodes))}
has(nodes, id)  == id \in idsOf(nodes)
find(nodes, id) == SelectSeq(flatten(nodes), LAMBDA n : n.id = id)[1]
kidsOf(nodes, id) == IF id = Root THEN nodes ELSE find(nodes, id).kids
placed(nodes, id, kids) == IF id = Root THEN kids ELSE withKids(nodes, id, kids)

parentOf(nodes, id) ==
    LET above == SelectSeq(flatten(nodes), LAMBDA n : \E k \in ToSet(n.kids) : k.id = id)
    IN IF above = <<>> THEN Root ELSE above[1].id

\* Where a node lives, as remove() hands it to restore(); positions count from 0.
locate(nodes, id) ==
    LET parent == parentOf(nodes, id)
        list   == kidsOf(nodes, parent)
    IN [node |-> find(nodes, id), parent |-> parent,
        index |-> (CHOOSE i \in DOMAIN list : list[i].id = id /\ \A j \in 1..(i - 1) : list[j].id # id) - 1]

spliced(list, index, n) ==
    LET at == IF index > Len(list) THEN Len(list) ELSE index
    IN SubSeq(list, 1, at) \o <<n>> \o SubSeq(list, at + 1, Len(list))

\* Under a parent that is gone nothing is inserted.
insertAt(nodes, n, parent, index) ==
    IF parent # Root /\ ~has(nodes, parent) THEN nodes
    ELSE placed(nodes, parent, spliced(kidsOf(nodes, parent), index, n))
=============================================================================
