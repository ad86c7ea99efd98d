-------------------------------- MODULE Stash --------------------------------
(***************************************************************************)
(* The holdings of the Stash tab: what the user types is saved after a     *)
(* while (frontend/src/components/StashView.jsx, lib/hooks.js              *)
(* useAutosave), sales fetched from the trade site are credited by the     *)
(* backend (desktop/src/trade/sales.js, backend/app/db.py) and the status  *)
(* poll reads the holdings back (lib/statusStore.js).  A view that was     *)
(* left goes on with a fetch it began.                                     *)
(*                                                                         *)
(* The user is honest: a count typed is what is held at that moment, and   *)
(* what is added was gained.  `Trouble` says what else may happen.         *)
(***************************************************************************)
EXTENDS Integers, Sequences, FiniteSets

CONSTANTS Coins, MaxStashVisits, MaxSales, MaxEdits, MaxFetches, MaxPolls,
          Trouble   \* of "count": a count is typed while sales are fetched
                    \*    "slow":  saves overtake one another and are under way while sales
                    \*             are credited
                    \*    "fail":  a save fails
                    \*    "early": sales are fetched before the holdings are here
                    \*    "late":  a sale between a count and its save

ASSUME StashAssumption == Coins # {}

VARIABLES capital,     \* the holdings on the server
          ledger,      \* sales on the trade site: [of, known, after the last count]
          store,       \* the app's copy: [capital, saving, writes]
          views,       \* every view there has been, the last one on screen or not
          onScreen,
          puts,        \* saves under way
          poll,        \* the status poll under way
          held,        \* what the user really holds
          edits, salesFetches, polls

stashVars == <<capital, ledger, store, views, onScreen, puts, poll, held, edits, salesFetches, polls>>

Nothing == [c \in Coins |-> -1]    \* no quantities
NoPoll  == [writes |-> -1, capital |-> Nothing]
NewView == [qty |-> Nothing, pending |-> Nothing, timer |-> FALSE, hold |-> FALSE,
            recounted |-> {}, fetch |-> "none", added |-> [c \in Coins |-> 0]]
Views   == DOMAIN views
last     == Len(views)
busy(v) == views[v].fetch # "none"

-----------------------------------------------------------------------------
(* useAutosave (hooks.js). *)

save(view, q) == [view EXCEPT !.pending = q, !.timer = ~view.hold]

hold(view)    == [view EXCEPT !.hold = TRUE, !.timer = FALSE]
release(view) == [view EXCEPT !.hold = FALSE, !.timer = view.timer \/ view.pending # Nothing]

\* The saver: what was recounted is forgotten before the save is answered.
putOf(v, q)   == [of |-> v, qty |-> q, counted |-> views[v].recounted, nth |-> store.writes]
saving       == [store EXCEPT !.saving = TRUE, !.writes = @ + 1]
forgot(view) == [view EXCEPT !.recounted = {}]

-----------------------------------------------------------------------------
StashInit ==
    /\ capital = [c \in Coins |-> 0] /\ held = capital
    /\ ledger = <<>>
    /\ store = [capital |-> capital, saving |-> FALSE, writes |-> 0]
    /\ views = <<>> /\ onScreen = FALSE
    /\ puts = {} /\ poll = NoPoll
    /\ edits = 0 /\ salesFetches = 0 /\ polls = 0

OpenTab ==
    /\ ~onScreen /\ last < MaxStashVisits
    /\ onScreen' = TRUE /\ views' = Append(views, NewView)
    /\ UNCHANGED <<capital, ledger, store, puts, poll, held, edits, salesFetches, polls>>

\* The inputs are seeded once, and never while a save is under way.
Seed ==
    /\ onScreen /\ views[last].qty = Nothing /\ ~store.saving
    /\ busy(last) => "early" \in Trouble
    /\ views' = [views EXCEPT ![last].qty = store.capital]
    /\ UNCHANGED <<capital, ledger, store, onScreen, puts, poll, held, edits, salesFetches, polls>>

\* A pending edit is saved at once when the view goes, and stays pending.
LeaveTab ==
    /\ onScreen /\ onScreen' = FALSE
    /\ LET view == views[last]
       IN IF view.pending = Nothing
          THEN views' = [views EXCEPT ![last].timer = FALSE] /\ UNCHANGED <<puts, store>>
          ELSE /\ views' = [views EXCEPT ![last] = forgot([view EXCEPT !.timer = FALSE])]
               /\ puts' = puts \cup {putOf(last, view.pending)} /\ store' = saving
    /\ UNCHANGED <<capital, ledger, poll, held, edits, salesFetches, polls>>

\* A total typed over the old one (setOne, remove); the add bar adds to it.
Counts(c) ==
    /\ onScreen /\ views[last].qty # Nothing /\ edits < MaxEdits /\ edits' = edits + 1
    /\ busy(last) => "count" \in Trouble
    /\ LET view == views[last]
           q    == [view.qty EXCEPT ![c] = held[c]]
       IN views' = [views EXCEPT ![last] = save([view EXCEPT !.qty = q, !.recounted = view.recounted \cup {c}], q)]
    /\ UNCHANGED <<capital, ledger, store, onScreen, puts, poll, held, salesFetches, polls>>

addAmount(qty, c) == [qty EXCEPT ![c] = @ + 1]
AddPicked(c) ==
    /\ onScreen /\ views[last].qty # Nothing /\ edits < MaxEdits /\ edits' = edits + 1
    /\ held' = [held EXCEPT ![c] = @ + 1]
    /\ LET q == addAmount(views[last].qty, c)
       IN views' = [views EXCEPT ![last] = save([@ EXCEPT !.qty = q], q)]
    /\ UNCHANGED <<capital, ledger, store, onScreen, puts, poll, salesFetches, polls>>

\* An item sells.  What was typed but not saved yet does not count it.
Sells(c) ==
    /\ Len(ledger) < MaxSales
    /\ (\E v \in Views : c \in views[v].recounted) \/ (\E p \in puts : c \in p.counted) => "late" \in Trouble
    /\ held' = [held EXCEPT ![c] = @ + 1]
    /\ ledger' = Append(ledger, [of |-> c, known |-> FALSE, after |-> TRUE])
    /\ UNCHANGED <<capital, store, views, onScreen, puts, poll, edits, salesFetches, polls>>

-----------------------------------------------------------------------------
(* Saving. *)

TimerFires(v) ==
    /\ views[v].timer
    /\ views' = [views EXCEPT ![v] = forgot([@ EXCEPT !.timer = FALSE, !.pending = Nothing])]
    /\ puts' = puts \cup {putOf(v, views[v].pending)} /\ store' = saving
    /\ UNCHANGED <<capital, ledger, onScreen, poll, held, edits, salesFetches, polls>>

\* The holdings are replaced; a counted currency is stamped: sales of it made by
\* now are in the count (db.set_capital).  A fetch that waited for it goes on.
SaveLands(p) ==
    /\ (\E o \in puts : o.nth < p.nth) => "slow" \in Trouble
    /\ capital' = p.qty
    /\ ledger' = [i \in DOMAIN ledger |-> [ledger[i] EXCEPT !.after = @ /\ ledger[i].of \notin p.counted]]
    /\ puts' = puts \ {p}
    /\ store' = [capital |-> p.qty, saving |-> FALSE, writes |-> store.writes + 1]
    /\ views' = [v \in Views |-> IF v = p.of /\ views[v].fetch = "flushing" THEN hold([views[v] EXCEPT !.fetch = "asking"])
                                 ELSE views[v]]
    /\ UNCHANGED <<onScreen, poll, held, edits, salesFetches, polls>>

SaveFails(p) ==
    /\ "fail" \in Trouble
    /\ puts' = puts \ {p} /\ store' = [store EXCEPT !.saving = FALSE]
    /\ views' = [v \in Views |-> IF v = p.of /\ views[v].fetch = "flushing" THEN hold([views[v] EXCEPT !.fetch = "asking"])
                                 ELSE views[v]]
    /\ UNCHANGED <<capital, ledger, onScreen, poll, held, edits, salesFetches, polls>>

-----------------------------------------------------------------------------
(* Fetching sales. *)

\* A pending edit is sent first, later ones wait: so no save of the old
\* quantities lands after the credit.
Refresh ==
    /\ onScreen /\ ~busy(last) /\ salesFetches < MaxFetches /\ salesFetches' = salesFetches + 1
    /\ puts # {} => "slow" \in Trouble
    /\ LET view == views[last]
       IN IF view.pending = Nothing
          THEN views' = [views EXCEPT ![last] = hold([view EXCEPT !.fetch = "asking"])] /\ UNCHANGED <<puts, store>>
          ELSE /\ views' = [views EXCEPT ![last] = forgot([view EXCEPT !.timer = FALSE, !.pending = Nothing, !.fetch = "flushing"])]
               /\ puts' = puts \cup {putOf(last, view.pending)} /\ store' = saving
    /\ UNCHANGED <<capital, ledger, onScreen, poll, held, edits, polls>>

\* The site's rows are recorded, and a new one made after the last count of its
\* currency credited, in one transaction (db.sales_ingest).
credited(c) == Cardinality({i \in DOMAIN ledger : ledger[i].of = c /\ ~ledger[i].known /\ ledger[i].after})

Ingested(v) ==
    /\ views[v].fetch = "asking"
    /\ puts # {} => "slow" \in Trouble
    /\ LET added == [c \in Coins |-> credited(c)]
       IN /\ capital' = [c \in Coins |-> capital[c] + added[c]]
          /\ views' = [views EXCEPT ![v] =
                [@ EXCEPT !.added = added, !.fetch = IF \E i \in DOMAIN ledger : ~ledger[i].known THEN "reading" ELSE "done"]]
    /\ ledger' = [i \in DOMAIN ledger |-> [ledger[i] EXCEPT !.known = TRUE]]
    /\ UNCHANGED <<store, onScreen, puts, poll, held, edits, salesFetches, polls>>

\* The site refuses or is away.
FetchFails(v) ==
    /\ views[v].fetch = "asking"
    /\ views' = [views EXCEPT ![v].fetch = "done"]
    /\ UNCHANGED <<capital, ledger, store, onScreen, puts, poll, held, edits, salesFetches, polls>>

\* The holdings are read back, and what the server added joins what was typed.
keepTyped(q, added) == q                                                  \* mutant
addCredit(q, added) == [c \in Coins |-> q[c] + added[c]]

CreditSeen(v) ==
    /\ views[v].fetch = "reading"
    /\ store' = [store EXCEPT !.capital = capital, !.writes = @ + 1]
    /\ LET view == views[v]
           q    == addCredit(view.qty, view.added)
       IN views' = [views EXCEPT ![v] =
              IF view.qty = Nothing \/ q = view.qty THEN [view EXCEPT !.fetch = "done"]
              ELSE [save(release([view EXCEPT !.qty = q]), q) EXCEPT !.fetch = "done"]]
    /\ UNCHANGED <<capital, ledger, onScreen, puts, poll, held, edits, salesFetches, polls>>

FetchEnds(v) ==
    /\ views[v].fetch = "done"
    /\ views' = [views EXCEPT ![v] = [release(@) EXCEPT !.fetch = "none"]]
    /\ UNCHANGED <<capital, ledger, store, onScreen, puts, poll, held, edits, salesFetches, polls>>

-----------------------------------------------------------------------------
(* The status poll. *)

PollStarts ==
    /\ poll = NoPoll /\ polls < MaxPolls /\ polls' = polls + 1
    /\ poll' = [writes |-> store.writes, capital |-> capital]
    /\ UNCHANGED <<capital, ledger, store, views, onScreen, puts, held, edits, salesFetches>>

\* A poll that started before a write does not overwrite it.
PollEnds ==
    /\ poll # NoPoll /\ poll' = NoPoll
    /\ store' = IF store.writes = poll.writes THEN [store EXCEPT !.capital = poll.capital] ELSE store
    /\ UNCHANGED <<capital, ledger, views, onScreen, puts, held, edits, salesFetches, polls>>

StashNext ==
    \/ OpenTab \/ Seed \/ LeaveTab \/ Refresh \/ PollStarts \/ PollEnds
    \/ \E c \in Coins : Counts(c) \/ AddPicked(c) \/ Sells(c)
    \/ \E v \in Views : TimerFires(v) \/ Ingested(v) \/ FetchFails(v) \/ CreditSeen(v) \/ FetchEnds(v)
    \/ \E p \in puts : SaveLands(p) \/ SaveFails(p)

-----------------------------------------------------------------------------
StashQuiet ==
    /\ puts = {} /\ \A i \in DOMAIN ledger : ledger[i].known
    /\ \A v \in Views : views[v].fetch = "none" /\ ~views[v].timer

\* When every edit is saved and every sale fetched, the server holds what the user
\* holds: no sale was counted twice, none was lost, and no edit was erased by a
\* credit that came while it was pending (stash.js: "so neither the credit nor an
\* unsaved edit is lost").
HoldingsAreTrue == StashQuiet => capital = held
=============================================================================
