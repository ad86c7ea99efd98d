---------------------------- MODULE WorkspaceTree ----------------------------
(***************************************************************************)
(* The tree of saved searches: every operation of the store on it          *)
(* (frontend/src/lib/workspaceStore.js, tree.js), the deletes and undos of *)
(* the views, and the rules the backend holds the document to              *)
(* (backend/app/workspace.py).  A node is a search, a folder or the        *)
(* ExiledExchange2 History folder; `q` is a search's query, 0 for none, and *)
(* `day` when it was filed.  Names stand in the order of the ids.          *)
(***************************************************************************)
EXTENDS Tree

CONSTANTS MaxIds,      \* how many nodes are ever made
          Queries,     \* queries of checked items, 1..n
          HistoryCap,  \* historyPrefs.max
          HistoryLimit,  \* HISTORY_MAX_LIMIT, what a PUT carries of them
          MaxDay,      \* days that pass; rows of an earlier day are past retention
          MaxNodes, MaxDepth,   \* the backend's limits
          MaxDoc,      \* nodes in an exported document
          Hasty        \* does the user select a folder together with what is in it,
                       \* and import while an undo is on offer?

VARIABLES tree,        \* the document
          slot,        \* what the undo toast would bring back
          before,      \* ghost: the document before the last delete, while nothing followed
          exported,    \* an exported document
          given,        \* ids given so far
          today

treeVars == <<tree, slot, before, exported, given, today>>

NoDay  == MaxDay + 1   \* no `ts`: never past retention
NoTree == <<[id |-> -1]>>
NoSlot == [recs |-> <<>>, folder |-> Root, rows |-> <<>>]
Folders == {"folder", "history"}

foldersOf(nodes) == {Root} \cup {n.id : n \in {m \in ToSet(flatten(nodes)) : m.kind \in Folders}}

-----------------------------------------------------------------------------
(* workspace.py: a document the backend stores. *)

validate_workspace(nodes) ==
    /\ Len(flatten(nodes)) <= MaxNodes /\ depthOf(nodes) <= MaxDepth
    /\ \A i, j \in DOMAIN flatten(nodes) : i # j => flatten(nodes)[i].id # flatten(nodes)[j].id

-----------------------------------------------------------------------------
(* The user's edits. *)

search(q, day) == [id |-> given + 1, kind |-> "search", q |-> q, day |-> day, kids |-> <<>>]
folder(kind, id) == [id |-> id, kind |-> kind, q |-> 0, day |-> NoDay, kids |-> <<>>]

Becomes(nodes, new) ==
    /\ given + new <= MaxIds
    /\ tree' = nodes /\ given' = given + new
    /\ before' = NoTree
    /\ UNCHANGED <<slot, exported, today>>

addFolder == Becomes(Append(tree, folder("folder", given + 1)), 1)
addSearch(parent) == Becomes(insertAt(tree, search(0, NoDay), parent, MaxIds), 1)

duplicate(id) ==
    LET w == locate(tree, id)
    IN /\ w.node.kind = "search"
       /\ Becomes(insertAt(tree, [w.node EXCEPT !.id = given + 1], w.parent, w.index + 1), 1)

\* A node is not moved into itself or into what it holds.
refused(nodes, id, parent) == parent = id \/ has(find(nodes, id).kids, parent)

moved(nodes, id, parent, index) ==
    IF refused(nodes, id, parent) THEN nodes
    ELSE LET rest == removeNode(nodes, id)
         IN IF parent = Root \/ has(rest, parent) THEN insertAt(rest, find(nodes, id), parent, index) ELSE rest

move(id, parent, index) ==
    /\ index <= Len(kidsOf(tree, parent))
    /\ Becomes(moved(tree, id, parent, index), 0)

\* SearchTree: the rows of a selection are dropped one after the other.
onMove(a, b, parent, index) ==
    /\ a # b /\ index <= Len(kidsOf(tree, parent))
    /\ Becomes(moved(moved(tree, a, parent, index), b, parent, index + 1), 0)

sortChildren(parent) ==
    LET rank(n) == IF n.kind = "search" THEN MaxIds + n.id ELSE n.id
    IN Becomes(placed(tree, parent, SortSeq(kidsOf(tree, parent), LAMBDA a, b : rank(a) < rank(b))), 0)

-----------------------------------------------------------------------------
(* Deletes and their one undo slot (WorkspaceView.jsx, ee2History.js). *)

Deletes(nodes, kept) ==
    /\ tree' = nodes /\ slot' = kept /\ before' = tree
    /\ UNCHANGED <<exported, given, today>>

remove(id) == Deletes(removeNode(tree, id), [NoSlot EXCEPT !.recs = <<locate(tree, id)>>])

\* Two selected rows, in the order they were selected.
removeMany(a, b) ==
    /\ a # b
    /\ Hasty \/ ~(has(find(tree, a).kids, b) \/ has(find(tree, b).kids, a))
    /\ Deletes(removeNode(removeNode(tree, a), b), [NoSlot EXCEPT !.recs = <<locate(tree, a), locate(tree, b)>>])

\* Re-inserted where it was, at the root when the parent is gone too.
restore(nodes, w) ==
    IF has(nodes, w.node.id) THEN nodes
    ELSE insertAt(nodes, w.node, IF has(nodes, w.parent) THEN w.parent ELSE Root, w.index)

restoreOrderOf(recs) == recs                                             \* mutant
restoreOrder(recs) ==
    IF Len(recs) = 2 /\ recs[2].index < recs[1].index THEN <<recs[2], recs[1]>> ELSE recs

restoreMany(nodes, recs) == FoldSeq(LAMBDA w, t : restore(t, w), nodes, Reverse(restoreOrder(recs)))

-----------------------------------------------------------------------------
(* The ExiledExchange2 History folder. *)

histories(nodes) == SelectSeq(flatten(nodes), LAMBDA n : n.kind = "history")
historyRows == IF histories(tree) = <<>> THEN <<>> ELSE histories(tree)[1].kids

\* The folder is found wherever it is, or made at the top.
ensured == IF histories(tree) = <<>> THEN <<folder("history", given + 2)>> \o tree ELSE tree

trimHistory(rows) ==
    LET fresh == SelectSeq(rows, LAMBDA r : r.day >= today)
    IN SubSeq(fresh, 1, IF Len(fresh) > HistoryCap THEN HistoryCap ELSE Len(fresh))

\* ingest into the folder: the row of the same query makes way, newest first.
ingestHistory(q) ==
    LET h     == histories(ensured)[1]
        twins == SelectSeq(h.kids, LAMBDA k : k.q = q)
        rest  == IF q = 0 \/ twins = <<>> THEN h.kids ELSE SelectSeq(h.kids, LAMBDA k : k # twins[1])
    IN Becomes(withKids(ensured, h.id, trimHistory(<<search(q, today)>> \o rest)),
             IF histories(tree) = <<>> THEN 2 ELSE 1)

RECURSIVE withoutHistory(_)
withoutHistory(nodes) ==
    LET kept == SelectSeq(nodes, LAMBDA n : n.kind # "history")
    IN [i \in DOMAIN kept |-> [kept[i] EXCEPT !.kids = withoutHistory(@)]]

\* ingest of a pasted query: a search the user saved already is selected.
ingest(q, target) ==
    /\ ~\E n \in ToSet(flatten(withoutHistory(tree))) : n.kind = "search" /\ n.q = q
    /\ Becomes(insertAt(tree, search(q, today), IF target # Root /\ find(tree, target).kind = "history" THEN Root ELSE target, MaxIds), 1)

expireHistory ==
    /\ historyRows # trimHistory(historyRows)
    /\ Becomes(withKids(tree, histories(tree)[1].id, trimHistory(historyRows)), 0)

\* What a PUT carries: of the history folder no more than its limit.
sanitize(nodes) ==
    IF histories(nodes) = <<>> THEN nodes
    ELSE LET h == histories(nodes)[1]
         IN withKids(nodes, h.id, SubSeq(h.kids, 1, IF Len(h.kids) > HistoryLimit THEN HistoryLimit ELSE Len(h.kids)))

clearHistory ==
    /\ historyRows # <<>>
    /\ LET h == histories(tree)[1].id
       IN Deletes(withKids(tree, h, <<>>), [NoSlot EXCEPT !.folder = h, !.rows = historyRows])

\* The cleared rows come back in front of the newer ones.
restoreHistory(s) ==
    LET into == IF has(tree, s.folder) THEN tree ELSE ensured
        id   == IF has(tree, s.folder) THEN s.folder ELSE histories(ensured)[1].id
        newer == SelectSeq(find(into, id).kids, LAMBDA k : ~\E r \in ToSet(s.rows) : r.id = k.id)
    IN withKids(into, id, s.rows \o newer)

Undo ==
    /\ slot # NoSlot
    /\ slot' = NoSlot /\ before' = NoTree
    /\ IF slot.recs # <<>>
       THEN tree' = restoreMany(tree, slot.recs) /\ UNCHANGED given
       ELSE /\ tree' = restoreHistory(slot)
            /\ given' = IF has(tree, slot.folder) \/ histories(tree) # <<>> THEN given ELSE given + 2
            /\ given' <= MaxIds
    /\ UNCHANGED <<exported, today>>

Midnight ==
    /\ today < MaxDay /\ today' = today + 1
    /\ UNCHANGED <<tree, slot, before, exported, given>>

-----------------------------------------------------------------------------
(* Export and import. *)

exportWorkspace ==
    /\ exported = NoTree /\ Len(flatten(withoutHistory(tree))) \in 1..MaxDoc
    /\ exported' = withoutHistory(tree)
    /\ UNCHANGED <<tree, slot, before, given, today>>

RECURSIVE renamed(_, _)
renamed(nodes, as) ==
    [i \in DOMAIN nodes |-> [nodes[i] EXCEPT !.id = as[@], !.kids = renamed(@, as)]]

Colliding(taken) == idsOf(exported) \cap taken
reminted(taken) ==
    [id \in idsOf(exported) |-> IF id \in taken THEN given + Cardinality({c \in Colliding(taken) : c <= id}) ELSE id]
remintedNever(taken) == [id \in idsOf(exported) |-> id]                       \* mutant
remint(taken) == reminted(taken)

importWorkspace(mode) ==
    LET base == IF mode = "replace" THEN SelectSeq(tree, LAMBDA n : n.kind = "history") ELSE tree
        new  == Cardinality(Colliding(idsOf(base)))
    IN /\ exported # NoTree /\ given + new <= MaxIds
       /\ Hasty \/ slot = NoSlot
       /\ tree' = base \o renamed(exported, remint(idsOf(base)))
       /\ given' = given + new /\ before' = NoTree
       /\ exported' = IF mode = "replace" THEN NoTree ELSE exported         \* bound
       /\ UNCHANGED <<slot, today>>

-----------------------------------------------------------------------------
TreeInit ==
    /\ tree = <<>> /\ slot = NoSlot /\ before = NoTree /\ exported = NoTree
    /\ given = 0 /\ today = 0

\* The keys of the tree, and the bar above it.
clipboardTarget(id) ==
    IF id = Root \/ find(tree, id).kind \in Folders THEN id ELSE parentOf(tree, id)

\* An item or a query of the clipboard becomes a search, beside row id.
addFromClipboard(id) == \E q \in Queries : ingest(q, clipboardTarget(id))

onTreeKey ==
    \/ addFolder
    \/ \E p \in foldersOf(tree) : addSearch(p)
    \/ \E id \in {Root} \cup idsOf(tree) : addFromClipboard(id)
    \/ \E id \in idsOf(tree) : remove(id)
    \/ \E a, b \in idsOf(tree) : removeMany(a, b)

\* The menu of a row.
menuItems(id) ==
    \/ duplicate(id)
    \/ find(tree, id).kind = "history" /\ clearHistory
    \/ id \in foldersOf(tree) /\ sortChildren(id)
    \/ \E p \in foldersOf(tree) : move(id, p, 0)

\* What the palette offers anywhere works on the top level.
appRuns ==
    \/ addSearch(Root) \/ addFolder \/ sortChildren(Root)
    \/ addFromClipboard(Root)
    \/ histories(tree) # <<>> /\ clearHistory

Drags ==
    \E p \in foldersOf(tree), i \in 0..MaxIds :
       \/ \E id \in idsOf(tree) : move(id, p, i)
       \/ \E a, b \in idsOf(tree) : onMove(a, b, p, i)

TreeNext ==
    \/ onTreeKey \/ Drags \/ appRuns
    \/ \E id \in idsOf(tree) : menuItems(id)
    \/ \E q \in {0} \cup Queries : ingestHistory(q)
    \/ expireHistory \/ Undo \/ Midnight
    \/ exportWorkspace \/ \E mode \in {"merge", "replace"} : importWorkspace(mode)

-----------------------------------------------------------------------------
(* Properties. *)

\* "Keep every PUT inside the backend's limits ... a rejection would mean a bug
\* here" (workspaceStore.js): no operation makes a document it would refuse.
PutsAccepted == validate_workspace(sanitize(tree))

Undone == slot # NoSlot /\ slot' = NoSlot

\* Undo gives back exactly what was there, when nothing happened in between.
UndoIsExact == [][Undone /\ before # NoTree => tree' = before]_<<tree, slot>>
=============================================================================
