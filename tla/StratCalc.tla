------------------------------- MODULE StratCalc -------------------------------
(***************************************************************************)
(* The strat calculator: the document of farming strats, their clocks and  *)
(* the folders they lie in (frontend/src/lib/stratcalc.js), the undo toast *)
(* and the file import of the view (StratCalcView.jsx), the autosave that  *)
(* keeps it (hooks.js) and the rules the backend holds it to               *)
(* (backend/app/stratcalc.py).  What a strat drops and costs is left out   *)
(* but for the keys of its loot rows.                                      *)
(***************************************************************************)
EXTENDS Tree

CONSTANTS MaxStrats, MaxLevels, MaxRows,   \* the backend's limits
          RowKeys,       \* what a loot row can be of
          MaxMade,       \* strats and folders ever made
          MaxClock,      \* how long it goes on
          CalcUsers,     \* [shares, types, acts, visits]: whether strats are exported
                         \* and imported, rows and times typed, how often the document
                         \* is changed and the view opened
          Meanwhile,     \* what the user does while an undo is on offer or a file is
                         \* read: a set of "clock", "edit"
          SlowNetwork    \* does the user do more before a request is answered?

VARIABLES calc,     \* the document of the view, NoCalc while the view is away
          toast,    \* what the undo toast would bring back
          reading,  \* the document an import was started on, NoCalc without one
          file,     \* an exported .arbiterstrat file
          due,      \* the document the autosave's timer will send
          sent,     \* PUTs under way
          strat_calc,   \* what the backend keeps
          made, clock, calcVisits, acts,
          edited,       \* history: the document as last edited
          calcUser

calcVars == <<calc, toast, reading, file, due, sent, strat_calc, made, clock, calcVisits, acts, edited, calcUser>>

NoCalc   == [active |-> -1, strats |-> <<>>, tree |-> <<>>]
blankDoc == [active |-> 0, strats |-> <<>>, tree |-> <<>>]
None     == [what |-> "none"]
Off      == -1
IMPORTED == "Imported"

leaf(id)         == [id |-> id, kind |-> "strat", name |-> "", kids |-> <<>>]
calcFolder(id, name) == [id |-> id, kind |-> "folder", name |-> name, kids |-> <<>>]
blankStrat(id)   == [id |-> id, from |-> Off, banked |-> 0, override |-> FALSE, loot |-> {}]

-----------------------------------------------------------------------------
(* The clock: wall-clock stamps, so leaving the view changes nothing. *)

running(s)      == s.from # Off
elapsed(s, now) == s.banked + (IF running(s) /\ now > s.from THEN now - s.from ELSE 0)
stop(s, now)    == [s EXCEPT !.from = Off, !.banked = elapsed(s, now)]
start(s, now)   == IF running(s) THEN s ELSE [s EXCEPT !.from = now]

-----------------------------------------------------------------------------
(* The document. *)

stratIds(doc)  == {s.id : s \in ToSet(doc.strats)}
strat(doc, id) == SelectSeq(doc.strats, LAMBDA s : s.id = id)[1]
opened(doc)    == strat(doc, doc.active)
edit(doc, s)   == [doc EXCEPT !.strats = [i \in DOMAIN @ |-> IF @[i].id = s.id THEN s ELSE @[i]]]
gone(list, ids) == SelectSeq(list, LAMBDA s : s.id \notin ids)

newStrat(doc, id) ==
    IF Len(doc.strats) >= MaxStrats THEN doc
    ELSE [active |-> id, strats |-> <<blankStrat(id)>> \o doc.strats, tree |-> <<leaf(id)>> \o doc.tree]

\* Start the strat and pause the one running, or pause it.
toggled(s, id) ==
    IF running(s) THEN stop(s, clock)
    ELSE IF s.id = id THEN [start(s, clock) EXCEPT !.override = FALSE] ELSE s
toggle(doc, id) == [doc EXCEPT !.strats = [i \in DOMAIN @ |-> toggled(@[i], id)]]

duplicate(doc, src, id) ==
    IF Len(doc.strats) >= MaxStrats THEN doc
    ELSE [active |-> id,
          strats |-> <<[blankStrat(id) EXCEPT !.loot = strat(doc, src).loot]>> \o doc.strats,
          tree   |-> IF has(doc.tree, src)
                     THEN LET at == locate(doc.tree, src) IN insertAt(doc.tree, leaf(id), at.parent, at.index + 1)
                     ELSE <<leaf(id)>> \o doc.tree]

\* A strat of those left opens: the one edited last, which stamp that is being left out.
opens(doc, left) == IF \E s \in ToSet(left) : s.id = doc.active THEN {doc.active}
                    ELSE IF left = <<>> THEN {0} ELSE {s.id : s \in ToSet(left)}

RECURSIVE heightOf(_)
heightOf(nodes) ==
    IF nodes = <<>> THEN 0
    ELSE LET a == IF Head(nodes).kind = "folder" THEN 1 + heightOf(Head(nodes).kids) ELSE 0
             b == heightOf(Tail(nodes))
         IN IF a > b THEN a ELSE b

stratFolders(nodes) == {n \in ToSet(flatten(nodes)) : n.kind = "folder"}
levelOf(nodes, id)  == Cardinality({n \in stratFolders(nodes) : n.id = id \/ has(n.kids, id)})

moveNode(doc, id, parent, index) ==
    LET n == find(doc.tree, id)
    IN IF \/ parent = id \/ has(n.kids, parent)
          \/ levelOf(doc.tree, parent) + heightOf(<<n>>) > MaxLevels
       THEN doc
       ELSE [doc EXCEPT !.tree = insertAt(removeNode(@, id), n, parent, index)]

RECURSIVE inserted(_, _, _, _)
inserted(nodes, kids, parent, index) ==
    IF kids = <<>> THEN nodes
    ELSE inserted(insertAt(nodes, Head(kids), parent, index), Tail(kids), parent, index + 1)

\* Its strats move up into its place.
removeFolderFlat(doc, at) ==                                              \* mutant
    [doc EXCEPT !.tree = inserted(removeNode(@, at.node.id),
                                  SelectSeq(at.node.kids, LAMBDA n : n.kind = "strat"), at.parent, at.index)]
removeFolder(doc, at) ==
    [doc EXCEPT !.tree = inserted(removeNode(@, at.node.id), at.node.kids, at.parent, at.index)]

-----------------------------------------------------------------------------
(* Undo. *)

\* A clock that ran is paused when another strat's runs by now, its time banked
\* up to that start.
pausedFor(doc, list) ==
    LET others == SelectSeq(doc.strats, LAMBDA s : running(s))
        till(s) == IF others[1].from > s.from THEN others[1].from ELSE s.from
    IN [i \in DOMAIN list |-> IF others # <<>> /\ running(list[i]) THEN stop(list[i], till(list[i])) ELSE list[i]]
pausedBack(doc, list) == pausedFor(doc, list)

\* At the top when the folder it lay in is gone.
backIn(nodes, n, o) ==
    IF o.parent # Root /\ ~has(nodes, o.parent) THEN <<n>> \o nodes ELSE insertAt(nodes, n, o.parent, o.index)

restoreStrat(doc, o) ==
    IF o.strat.id \in stratIds(doc) THEN doc
    ELSE [active |-> IF o.active # 0 THEN o.active ELSE doc.active,
          strats |-> pausedBack(doc, <<o.strat>>) \o doc.strats,
          tree   |-> backIn(doc.tree, leaf(o.strat.id), o)]

restoreFolder(doc, o) ==
    LET inside == flatten(o.node.kids)
    IN [doc EXCEPT !.tree = insertAt(FoldSeq(LAMBDA n, t : removeNode(t, n.id), @, inside), o.node, o.parent, o.index)]

restoreFolderDeep(doc, o) ==
    [active |-> IF o.active # 0 THEN o.active ELSE doc.active,
     strats |-> pausedBack(doc, o.strats) \o doc.strats,
     tree   |-> backIn(doc.tree, o.node, o)]

\* The row goes into the strat open by then.
restoreRow(doc, o) == IF doc.active > 0 THEN edit(doc, [opened(doc) EXCEPT !.loot = @ \cup {o.row}]) ELSE doc

undone(doc, o) ==
    CASE o.what = "strat"  -> restoreStrat(doc, o)
      [] o.what = "folder" -> restoreFolder(doc, o)
      [] o.what = "deep"   -> restoreFolderDeep(doc, o)
      [] o.what = "row"    -> restoreRow(doc, o)

-----------------------------------------------------------------------------
(* What is stored and shared. *)

\* A strat the tree lost comes back on top.
reconcile(nodes, strats) ==
    LET lost == SelectSeq(strats, LAMBDA s : ~has(nodes, s.id))
    IN [i \in DOMAIN lost |-> leaf(lost[i].id)] \o nodes

\* The document read back: of the clocks, the latest start keeps running.
normalize(doc) ==
    LET live   == {s \in ToSet(doc.strats) : running(s)}
        latest == CHOOSE s \in live : \A t \in live : t.from <= s.from
    IN [active |-> IF doc.active \in stratIds(doc) \/ doc.strats = <<>> THEN doc.active ELSE doc.strats[1].id,
        strats |-> LET list == doc.strats IN
                   [i \in DOMAIN list |-> IF running(list[i]) /\ list[i] # latest THEN stop(list[i], latest.from) ELSE list[i]],
        tree   |-> reconcile(doc.tree, doc.strats)]

\* A file never carries a running clock.
exportStrats(doc, id) ==
    LET n == find(doc.tree, id)
            inside == SelectSeq(doc.strats, LAMBDA s : has(<<n>>, s.id))
    IN [doc EXCEPT !.tree = <<n>>, !.strats = [i \in DOMAIN inside |-> stop(inside[i], clock)]]

RECURSIVE fresh(_, _)
fresh(nodes, as) == [i \in DOMAIN nodes |-> [nodes[i] EXCEPT !.id = as[@], !.kids = fresh(@, as)]]

importable(doc, f) ==
    /\ f.strats # <<>> /\ Len(doc.strats) + Len(f.strats) <= MaxStrats
    /\ 1 + heightOf(f.tree) <= MaxLevels

\* Copies with ids of their own, in the folder for them.
importStrats(doc, f) ==
    LET ids  == idsOf(f.tree)
        as   == [id \in ids |-> made + Cardinality({k \in ids : k <= id})]
        mine == SelectSeq(doc.tree, LAMBDA n : n.kind = "folder" /\ n.name = IMPORTED)
        into == IF mine = <<>> THEN calcFolder(made + Cardinality(ids) + 1, IMPORTED) ELSE mine[1]
        base == IF mine = <<>> THEN <<into>> \o doc.tree ELSE doc.tree
    IN [doc EXCEPT !.strats = @ \o [i \in DOMAIN f.strats |-> [f.strats[i] EXCEPT !.id = as[@]]],
                   !.tree = withKids(base, into.id, into.kids \o fresh(f.tree, as))]
idsFor(doc, f) == Cardinality(idsOf(f.tree))
    + (IF \E n \in ToSet(doc.tree) : n.kind = "folder" /\ n.name = IMPORTED THEN 0 ELSE 1)

\* The backend refuses rather than repairs (stratcalc.py).
validate(doc) ==
    /\ Len(doc.strats) <= MaxStrats /\ Cardinality(stratIds(doc)) = Len(doc.strats)
    /\ \A s \in ToSet(doc.strats) : Cardinality(s.loot) <= MaxRows
    /\ Cardinality(idsOf(doc.tree)) = Len(flatten(doc.tree))
    /\ \A n \in ToSet(flatten(doc.tree)) : (n.kind = "strat") = (n.id \in stratIds(doc))
    /\ heightOf(doc.tree) <= MaxLevels

-----------------------------------------------------------------------------
(* What the user does in the view. *)

NoneOut == sent = <<>> \/ SlowNetwork
Shown    == calc # NoCalc /\ NoneOut
Waiting  == toast # None \/ reading # NoCalc

Changes(doc) ==
    /\ calc' = doc /\ due' = (IF doc = calc THEN due ELSE doc)
    /\ edited' = (IF doc = calc THEN edited ELSE doc)
    /\ acts < calcUser.acts /\ acts' = acts + 1 /\ UNCHANGED calcUser

\* A change of the kind; with `n` new ids.
Does(kind, doc, n) ==
    /\ Shown /\ (Waiting => kind \in Meanwhile)
    /\ Changes(doc)
    /\ made' = (IF doc = calc THEN made ELSE made + n) /\ made' <= MaxMade
    /\ UNCHANGED <<toast, reading, file, sent, strat_calc, clock, calcVisits>>

\* A delete, with its Undo toast in place of an earlier one.
Removes(doc, o) ==
    /\ Shown /\ (Waiting => "edit" \in Meanwhile)
    /\ Changes(doc) /\ toast' = o
    /\ UNCHANGED <<reading, file, sent, strat_calc, made, clock, calcVisits>>

NewStrat  == Does("edit", newStrat(calc, made + 1), 1)
NewFolder == Does("edit", [calc EXCEPT !.tree = <<calcFolder(made + 1, "")>> \o @], 1)
Duplicate(id) == Does("edit", duplicate(calc, id, made + 1), 1)
Select(id)    == Does("edit", [calc EXCEPT !.active = id], 0)
Move(id, parent, i) == Does("edit", moveNode(calc, id, parent, i), 0)

TypesHours  == calcUser.types /\ calc.active > 0
ToggleRun   == calc.active > 0 /\ Does("clock", toggle(calc, calc.active), 0)
SetElapsed  == TypesHours /\ Does("clock", edit(calc, [opened(calc) EXCEPT
                   !.from = IF running(opened(calc)) THEN clock ELSE Off, !.banked = 0]), 0)
OverrideOn  == TypesHours /\ Does("clock", edit(calc, [stop(opened(calc), clock) EXCEPT !.override = TRUE]), 0)
OverrideOff == TypesHours /\ Does("clock", edit(calc, [opened(calc) EXCEPT !.override = FALSE]), 0)

AddRow(k) ==
    /\ TypesHours
    /\ LET s == opened(calc)
       IN Does("edit", IF Cardinality(s.loot) >= MaxRows THEN calc ELSE edit(calc, [s EXCEPT !.loot = @ \cup {k}]), 0)
RemoveRow(k) ==
    /\ calc.active > 0 /\ k \in opened(calc).loot
    /\ Removes(edit(calc, [opened(calc) EXCEPT !.loot = @ \ {k}]), [what |-> "row", row |-> k])

\* What lay there, and the strat that was open when it is among what goes.
kept(doc, at, ids) ==
    [parent |-> at.parent, index |-> at.index, node |-> at.node,
     active |-> IF doc.active \in ids THEN doc.active ELSE 0]

RemoveStrat(id) ==
    \E a \in opens(calc, gone(calc.strats, {id})) :
        Removes([active |-> a, strats |-> gone(calc.strats, {id}), tree |-> removeNode(calc.tree, id)],
                kept(calc, locate(calc.tree, id), {id}) @@ [what |-> "strat", strat |-> strat(calc, id)])

RemoveFolder(id) ==
    LET at == locate(calc.tree, id)
    IN Removes(removeFolder(calc, at), at @@ [what |-> "folder"])

RemoveFolderDeep(id) ==
    LET at  == locate(calc.tree, id)
        ids == idsOf(at.node.kids) \cap stratIds(calc)
    IN \E a \in opens(calc, gone(calc.strats, ids)) :
        Removes([active |-> a, strats |-> gone(calc.strats, ids), tree |-> removeNode(calc.tree, id)],
                kept(calc, at, ids) @@ [what |-> "deep", strats |-> SelectSeq(calc.strats, LAMBDA s : s.id \in ids)])

UndoRemove ==
    /\ Shown /\ toast # None
    /\ Changes(undone(calc, toast)) /\ toast' = None
    /\ UNCHANGED <<reading, file, sent, strat_calc, made, clock, calcVisits>>

ToastGoes ==
    /\ Shown /\ toast # None /\ toast' = None
    /\ UNCHANGED <<calc, reading, file, due, sent, strat_calc, made, clock, calcVisits, acts, edited, calcUser>>

Export(id) ==
    /\ calcUser.shares /\ Shown /\ file = NoCalc
    /\ file' = exportStrats(calc, id)
    /\ UNCHANGED <<calc, toast, reading, due, sent, strat_calc, made, clock, calcVisits, acts, edited, calcUser>>

\* The import goes on from the document there was when the file was picked.
ImportStarts ==
    /\ Shown /\ file # NoCalc /\ reading = NoCalc /\ (toast # None => "edit" \in Meanwhile)
    /\ reading' = calc
    /\ UNCHANGED <<calc, toast, file, due, sent, strat_calc, made, clock, calcVisits, acts, edited, calcUser>>

FileRead ==
    /\ Shown /\ reading # NoCalc
    /\ reading' = NoCalc
    /\ IF importable(reading, file)
       THEN /\ Changes(importStrats(reading, file))
            /\ made' = made + idsFor(reading, file) /\ made' <= MaxMade
       ELSE UNCHANGED <<calc, due, made, acts, edited, calcUser>>
    /\ UNCHANGED <<toast, file, sent, strat_calc, clock, calcVisits>>

-----------------------------------------------------------------------------
(* The autosave, the backend and the view coming and going. *)

DebounceEnds ==
    /\ Shown /\ due # NoCalc
    /\ due' = NoCalc /\ sent' = Append(sent, due)
    /\ UNCHANGED <<calc, toast, reading, file, strat_calc, made, clock, calcVisits, acts, edited, calcUser>>

PutArrives(i) ==
    /\ i = 1 \/ SlowNetwork
    /\ sent' = SubSeq(sent, 1, i - 1) \o SubSeq(sent, i + 1, Len(sent))
    /\ strat_calc' = IF validate(sent[i]) THEN sent[i] ELSE strat_calc
    /\ UNCHANGED <<calc, toast, reading, file, due, made, clock, calcVisits, acts, edited, calcUser>>

\* What waits is sent, the toast goes along.
forgets == sent                                                           \* mutant
flushes == IF due = NoCalc THEN sent ELSE Append(sent, due)
Leave ==
    /\ Shown
    /\ calc' = NoCalc /\ due' = NoCalc /\ toast' = None /\ reading' = NoCalc
    /\ sent' = flushes
    /\ UNCHANGED <<file, strat_calc, made, clock, calcVisits, acts, edited, calcUser>>

\* A first visit opens on a blank strat, which is not an edit.
Open ==
    /\ calc = NoCalc /\ NoneOut
    /\ calcVisits < calcUser.visits /\ calcVisits' = calcVisits + 1
    /\ LET doc == normalize(strat_calc)
       IN IF doc.strats # <<>> THEN calc' = doc /\ UNCHANGED made
          ELSE calc' = newStrat(doc, made + 1) /\ made' = made + 1 /\ made' <= MaxMade
    /\ UNCHANGED <<toast, reading, file, due, sent, strat_calc, clock, acts, edited, calcUser>>

TimePasses ==
    /\ NoneOut /\ clock < MaxClock /\ clock' = clock + 1
    /\ UNCHANGED <<calc, toast, reading, file, due, sent, strat_calc, made, calcVisits, acts, edited, calcUser>>

-----------------------------------------------------------------------------
CalcInit ==
    /\ calc = NoCalc /\ toast = None /\ reading = NoCalc /\ file = NoCalc
    /\ due = NoCalc /\ sent = <<>> /\ strat_calc = blankDoc
    /\ made = 0 /\ clock = 0 /\ calcVisits = 0 /\ acts = 0 /\ edited = NoCalc
    /\ calcUser \in CalcUsers

CalcNext ==
    \/ NewStrat \/ NewFolder \/ ToggleRun \/ SetElapsed \/ OverrideOn \/ OverrideOff
    \/ \E id \in stratIds(calc) : Duplicate(id) \/ Select(id) \/ RemoveStrat(id)
    \/ \E k \in RowKeys : AddRow(k) \/ RemoveRow(k)
    \/ \E n \in stratFolders(calc.tree) : RemoveFolder(n.id) \/ RemoveFolderDeep(n.id)
    \/ \E id \in idsOf(calc.tree), i \in 0..MaxMade :
           Move(id, Root, i) \/ \E n \in stratFolders(calc.tree) : Move(id, n.id, i)
    \/ UndoRemove \/ ToastGoes
    \/ \E id \in idsOf(calc.tree) : Export(id)
    \/ ImportStarts \/ FileRead
    \/ DebounceEnds \/ (\E i \in DOMAIN sent : PutArrives(i)) \/ Leave \/ Open \/ TimePasses

-----------------------------------------------------------------------------
(* Properties. *)

\* "Only one strat runs at a time" (stratcalc.js), after an undo and after a load
\* too.
OneClock == \A s, t \in ToSet(calc.strats) : running(s) /\ running(t) => s = t

\* "every strat exactly once" (stratcalc.js): the tree of the sidebar and the list
\* of strats agree.
TreeIsWhole ==
    LET leaves == SelectSeq(flatten(calc.tree), LAMBDA n : n.kind = "strat")
    IN {n.id : n \in ToSet(leaves)} = stratIds(calc) /\ Len(leaves) = Len(calc.strats)

\* An edit made "before the view unmounts ... is saved" (hooks.js): with nothing
\* waiting and nothing under way the backend holds the document as last edited.
CalcIsKept == edited # NoCalc /\ due = NoCalc /\ sent = <<>> => strat_calc = edited

\* The document stays one that can be worked with, on the page and at the backend.
StratsHold == OneClock /\ TreeIsWhole /\ CalcIsKept

\* "every action stays inside them, so the view can never write a document the
\* backend refuses" (stratcalc.js).
NoSaveRefused == \A i \in DOMAIN sent : validate(sent[i])
=============================================================================
