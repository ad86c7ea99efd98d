-------------------------------- MODULE Reprice --------------------------------
(***************************************************************************)
(* "Reprice in <currency>": a saved search in the embedded trade window,   *)
(* what the trade tap tells of it (desktop/src/trade/tap.js), the pages    *)
(* and the evidence kept of it (frontend/src/lib/tapStore.js, reprice.js), *)
(* the deeper listings fetched for it (desktop/src/trade/listings.js), the *)
(* "Find cheapest" check and the capture of what is run in the window      *)
(* (useReprice.js, WorkspaceView.jsx).                                     *)
(*                                                                         *)
(* A search is an item and the currency it is filtered to.  A listing is   *)
(* its position in what the site lists of the item, cheapest first by the  *)
(* site's own rates.  The price table is one, loaded or not, and the site  *)
(* can filter every currency in it; sorts other than by price are left     *)
(* out.                                                                    *)
(***************************************************************************)
EXTENDS Integers, Sequences, FiniteSets

CONSTANTS Rows,          \* saved searches; HistoryRows of them are EE2's
          HistoryRows, FirstSearches,
          Listed,        \* of each item: what the site lists, [in, amount]
          Worth,         \* the price table: of each currency
          Page,          \* rows the site loads at first, most a fetch may ask for
          Ttl,           \* SIBLING_TTL_MS
          MaxTime, MaxWindows, MaxRuns, MaxHides, MaxFinds

VARIABLES rowQ,       \* the search saved in each row
          active,     \* the selected row
          win,        \* the trade window: its id, whether it reported it, whether
                      \* the site's own landing is still to come
          address,    \* the search in the window's address, as the view knows it
          wire,       \* events under way from main to the page, in order
          pages,      \* per window id: what the tap told of it
          seenAt, recent,
          siblings,   \* per item: the least amounts seen, when, deeper ones fetched?
          deeper,     \* the search being looked into, and how far that is
          asks,       \* fetches of listings under way
          check,      \* "Find cheapest" under way
          undo,       \* what the toast would restore
          hasPrices, shownTab, now, runs, hides, finds,
          ranIn       \* history: what was run, and saved, for which row

repVars == <<rowQ, active, win, address, wire, pages, seenAt, recent, siblings, deeper, asks, check, undo,
             hasPrices, shownTab, now, runs, hides, finds, ranIn>>

ItemsOf    == DOMAIN Listed
Currencies == DOMAIN Worth
AnyCur     == "any"
TradeSearches   == [item : ItemsOf, in : Currencies \cup {AnyCur}]
HomePage   == [item |-> "home", in |-> AnyCur]    \* the site's landing
NoQ        == [item |-> "none", in |-> AnyCur]
SavedSearches == TradeSearches \cup {NoQ}

ASSUME RepriceAssumption ==
    /\ FirstSearches \in [Rows -> SavedSearches] /\ MaxWindows \in Nat \ {0}
    /\ \A item \in ItemsOf : Listed[item] \in Seq([in : Currencies, amount : Nat])

EmptyPage  == [q |-> NoQ, rows |-> {}]
NoCheck    == [item |-> "none"]
NoUndo     == [row |-> 0, q |-> NoQ]
NotDeep    == [q |-> NoQ, sample |-> "todo", gap |-> "todo"]

-----------------------------------------------------------------------------
(* What the site answers, and pages (reprice.js). *)

resultOf(q) == IF q.item \notin ItemsOf THEN {}
               ELSE {i \in DOMAIN Listed[q.item] : q.in \in {AnyCur, Listed[q.item][i].in}}
rankOf(q, i) == Cardinality({j \in resultOf(q) : j <= i})
topOf(q)    == CHOOSE i \in resultOf(q) : \A j \in resultOf(q) : i <= j
firstOf(q)  == {i \in resultOf(q) : rankOf(q, i) <= Page}
worthOf(item, i) == Listed[item][i].amount * Worth[Listed[item][i].in]
least(item, is)  == {i \in is : \A j \in is : worthOf(item, i) < worthOf(item, j) \/ (worthOf(item, i) = worthOf(item, j) /\ i <= j)}

\* A new search is a new page; rows of another search are dropped.
observe(p, x) ==
    CASE x.kind = "search" -> [q |-> x.q, rows |-> {}]
      [] x.kind = "fetch"  -> IF x.q = p.q THEN [p EXCEPT !.rows = @ \cup (x.rows \cap resultOf(p.q))] ELSE p

\* Each currency's smallest loaded amount, with when it was seen.
minsOf(p, at) ==
    {[row |-> i, seen |-> at] : i \in UNION {least(p.q.item, {j \in p.rows : Listed[p.q.item][j].in = c}) : c \in Currencies}}

sparse(item, ms) == {m \in ms : \A n \in ms : Listed[item][n.row].in = Listed[item][m.row].in =>
    worthOf(item, m.row) < worthOf(item, n.row) \/ (worthOf(item, m.row) = worthOf(item, n.row) /\ m.seen <= n.seen)}

freshEntry(e) == e.at >= 0 /\ now - e.at <= Ttl
NoEntry == [mins |-> {}, at |-> -1, sampled |-> FALSE]

\* Evidence joins what is known of the same search under any filter.
joined(item, found, at, sampled) ==
    LET prev == siblings[item]
        was  == freshEntry(prev) /\ prev.sampled
    IN [mins    |-> sparse(item, (IF freshEntry(prev) THEN prev.mins ELSE {}) \cup found),
        at      |-> IF was /\ ~sampled THEN prev.at ELSE at,
        sampled |-> sampled \/ was]
remember(p, at, sampled) ==
    siblings' = IF p.q.item \notin ItemsOf THEN siblings
                ELSE [siblings EXCEPT ![p.q.item] = joined(p.q.item, IF hasPrices THEN minsOf(p, at) ELSE {}, at, sampled)]

sampledRecently(item) == siblings[item].sampled /\ freshEntry(siblings[item])

\* The currency to reprice in: more than 5 % under what the page shows first.
verdict(p) ==
    LET item  == p.q.item
        known == IF freshEntry(siblings[item]) THEN {m.row : m \in siblings[item].mins} ELSE {}
        ids   == resultOf(p.q)
        own   == {i \in known : Listed[item][i].in # p.q.in}
        best  == IF ids = {} THEN least(item, own) ELSE least(item, known \cup p.rows)
        cheap == {b \in best : ids # {} => /\ Listed[item][b].in # Listed[item][topOf(p.q)].in
                                          /\ 100 * worthOf(item, topOf(p.q)) >= 105 * worthOf(item, b)}
    IN IF ~hasPrices \/ (ids # {} /\ topOf(p.q) \notin p.rows) THEN {} ELSE {Listed[item][b].in : b \in cheap}

\* Every Page-th rank past the first page and the last, of those not loaded.
samplePlan(p) ==
    IF p.q.in # AnyCur THEN {}
    ELSE {i \in resultOf(p.q) \ p.rows : LET r == rankOf(p.q, i)
                                         IN  r > Page /\ ((r - 1) % Page = 0 \/ r = Cardinality(resultOf(p.q)))}

\* The unloaded ids just before the first loaded row of the most promising other
\* currency.
gapPlan(p) ==
    LET ids    == resultOf(p.q)
        item   == p.q.item
        other  == {i \in p.rows : Listed[item][i].in # Listed[item][topOf(p.q)].in}
        firsts == {i \in other : \A j \in other : Listed[item][j].in = Listed[item][i].in => i <= j}
        best   == CHOOSE i \in firsts : i \in least(item, firsts)
    IN IF ids = {} \/ topOf(p.q) \notin p.rows \/ ~hasPrices \/ verdict(p) # {} \/ firsts = {} THEN {}
       ELSE {i \in ids : /\ i < best /\ i # topOf(p.q) /\ p.rows \cap (i..(best - 1)) = {}
                         /\ Cardinality(ids \cap (i..(best - 1))) < Page}

judgeable(p) == resultOf(p.q) = {} \/ (topOf(p.q) \in p.rows /\ hasPrices)

-----------------------------------------------------------------------------
(* What the view shows (useReprice.js). *)

own == IF win.told THEN pages[win.id] ELSE EmptyPage
recentFor(q) == IF q \in TradeSearches /\ recent[q].at >= 0 /\ now - recent[q].at <= Ttl THEN recent[q].page ELSE EmptyPage

\* The window's own page, or the last one seen of that exact search when the site
\* redrew it without a request.
pageShown == IF own.q = address /\ own.q # NoQ THEN own
             ELSE IF recentFor(address).q # NoQ THEN recentFor(address) ELSE own
pageIsRows(p)  == p.q = address
isRows(p)      == pageIsRows(p)
applies == active \notin HistoryRows /\ rowQ[active] # NoQ /\ address = rowQ[active]
shown   == shownTab /\ pageShown.q \in TradeSearches /\ applies /\ isRows(pageShown)
offer   == IF shown THEN verdict(pageShown) ELSE {}

findState ==
    CASE ~shown -> "nothing"
      [] shown /\ offer # {} -> "reprice"
      [] OTHER ->
         LET p == pageShown
         IN IF p.q.in = AnyCur \/ ~judgeable(p) THEN "nothing"
            ELSE IF check.item = p.q.item THEN "checking"
            ELSE IF sampledRecently(p.q.item) THEN (IF resultOf(p.q) = {} THEN "nothing" ELSE "cheapest")
            ELSE "find"

-----------------------------------------------------------------------------
(* The site and the window. *)

\* What is run in the window is seen by the tap and in the address, in either
\* order; the site may redraw what it ran before from a cache of its own.
ToldOf(id, q) ==
    LET nav    == [kind |-> "nav", id |-> id, q |-> q]
        search == [kind |-> "search", id |-> id, q |-> q]
        fetch  == [kind |-> "fetch", id |-> id, q |-> q, rows |-> firstOf(q)]
    IN {<<nav, search, fetch>>, <<search, nav, fetch>>}
       \cup (IF q \in TradeSearches /\ recent[q].at >= 0 THEN {<<nav>>} ELSE {})

MarketAndClockStay == UNCHANGED <<hasPrices, now, finds>>

\* A row is opened in a window of its own (a row selected, reloaded, repriced):
\* what is fetched for the last one is dropped, and so is its page.
Mounts(row, saved, q) ==
    /\ win.id < MaxWindows
    /\ rowQ' = saved /\ active' = row
    /\ win' = [id |-> win.id + 1, told |-> FALSE, home |-> q = NoQ]
    /\ pages' = [pages EXCEPT ![win.id] = IF win.told THEN EmptyPage ELSE @]
    /\ seenAt' = [seenAt EXCEPT ![win.id] = IF win.told THEN -1 ELSE @]
    /\ \E events \in ToldOf(win.id + 1, IF q = NoQ THEN HomePage ELSE q) : wire' = wire \o events
    /\ asks' = {[a EXCEPT !.cancelled = TRUE] : a \in asks}
    /\ check' = IF check = NoCheck THEN check ELSE [check EXCEPT !.cancelled = TRUE]
    /\ UNCHANGED <<address, recent, siblings, deeper, shownTab, hides>> /\ MarketAndClockStay

SelectRow(row) ==
    /\ Len(wire) <= 2
    /\ Mounts(row, rowQ, rowQ[row])
    /\ UNCHANGED <<undo, runs, ranIn>>

WindowTold ==
    /\ ~win.told /\ win' = [win EXCEPT !.told = TRUE]
    /\ UNCHANGED <<rowQ, active, address, wire, pages, seenAt, recent, siblings, deeper, asks, check, undo, shownTab, runs, hides, ranIn>>
    /\ MarketAndClockStay

\* The user builds another search in the window and runs it.
RunSearch(q) ==
    /\ wire = <<>> /\ runs < MaxRuns /\ runs' = runs + 1
    /\ ranIn' = ranIn \cup {<<active, q>>}
    /\ \E events \in ToldOf(win.id, q) : wire' = events
    /\ UNCHANGED <<rowQ, active, win, address, pages, seenAt, recent, siblings, deeper, asks, check, undo, shownTab, hides>>
    /\ MarketAndClockStay

-----------------------------------------------------------------------------
(* Events arriving in the page. *)

ev == Head(wire)

\* An address is saved in the active row when it is of this window, not the
\* landing of an empty tab, not another row's search and not a row of EE2's.
acceptsAll(id)      == win.told                                           \* mutant
shouldAcceptNav(id) == win.told /\ id = win.id
accepts(id)         == shouldAcceptNav(id)

owned(q) == \E row \in Rows \ {active} : rowQ[row] = q

Captured(q) ==
    /\ win' = [win EXCEPT !.home = FALSE]
    /\ rowQ' = IF win.home \/ owned(q) \/ active \in HistoryRows THEN rowQ ELSE [rowQ EXCEPT ![active] = q]

NavArrives ==
    /\ wire # <<>> /\ ev.kind = "nav" /\ wire' = Tail(wire)
    /\ IF accepts(ev.id) THEN address' = ev.q /\ Captured(ev.q) ELSE UNCHANGED <<address, rowQ, win>>
    /\ UNCHANGED <<active, pages, seenAt, recent, siblings, deeper, asks, check, undo, shownTab, runs, hides, ranIn>>
    /\ MarketAndClockStay

recently(p, at) == IF p.q \in TradeSearches THEN [recent EXCEPT ![p.q] = [page |-> p, at |-> at]] ELSE recent

TapArrives ==
    /\ wire # <<>> /\ ev.kind \in {"search", "fetch"} /\ wire' = Tail(wire)
    /\ LET p    == observe(pages[ev.id], ev)
           seen == IF ev.kind = "search" THEN [seenAt EXCEPT ![ev.id] = now] ELSE seenAt
       IN /\ pages' = [pages EXCEPT ![ev.id] = p] /\ seenAt' = seen /\ recent' = recently(p, now)
          /\ IF ev.kind = "fetch" THEN remember(p, IF seen[ev.id] >= 0 THEN seen[ev.id] ELSE now, FALSE)
             ELSE UNCHANGED siblings
    /\ UNCHANGED <<rowQ, active, win, address, deeper, asks, check, undo, shownTab, runs, hides, ranIn>>
    /\ MarketAndClockStay

\* The price table; the pages of the last minutes become evidence, as old as they
\* are.
Lately(item) == {i \in DOMAIN seenAt : pages[i].q.item = item /\ seenAt[i] >= 0 /\ now - seenAt[i] <= Ttl}
PricesLoad ==
    /\ ~hasPrices /\ hasPrices' = TRUE /\ \E i \in DOMAIN seenAt : seenAt[i] >= 0
    /\ siblings' = [item \in ItemsOf |->
           LET last == CHOOSE i \in Lately(item) : \A j \in Lately(item) : j <= i
           IN  IF Lately(item) = {} THEN siblings[item]
               ELSE joined(item, UNION {minsOf(pages[i], seenAt[i]) : i \in Lately(item)}, seenAt[last], FALSE)]
    /\ UNCHANGED <<rowQ, active, win, address, wire, pages, seenAt, recent, deeper, asks, check, undo, shownTab, now, runs, hides, finds, ranIn>>

-----------------------------------------------------------------------------
(* Looking deeper. *)

\* A sample of the deeper listings, then the gap before the most promising row:
\* once per search, with ids the search returned.
LookDeeper ==
    LET d    == IF deeper.q = own.q THEN deeper ELSE [NotDeep EXCEPT !.q = own.q]
        mine == IF deeper.q = own.q THEN asks ELSE {[a EXCEPT !.mine = FALSE] : a \in asks}
        looks(step, plan) ==
            IF plan = {} THEN deeper' = [d EXCEPT ![step] = "done"] /\ asks' = mine
            ELSE /\ deeper' = [d EXCEPT ![step] = "pending"]
                 /\ asks' = mine \cup {[id |-> win.id, q |-> own.q, rows |-> plan, step |-> step, mine |-> TRUE, cancelled |-> FALSE]}
    IN /\ shown /\ own.q = address
       /\ \/ /\ d.sample = "todo" /\ sampledRecently(own.q.item)
             /\ deeper' = [d EXCEPT !.sample = "done", !.gap = "done"] /\ asks' = mine
          \/ d.sample = "todo" /\ ~sampledRecently(own.q.item) /\ looks("sample", samplePlan(own))
          \/ /\ d.sample = "done" /\ d.gap = "todo" /\ hasPrices
             /\ resultOf(own.q) # {} /\ topOf(own.q) \in own.rows
             /\ looks("gap", gapPlan(own))
       /\ UNCHANGED <<rowQ, active, win, address, wire, pages, seenAt, recent, siblings, check, undo, shownTab, runs, hides, ranIn>>
       /\ MarketAndClockStay

\* The page as it is now is remembered, with the rows if they are of its search.
Merged(a) ==
    LET p == observe(pages[a.id], [kind |-> "fetch", q |-> a.q, rows |-> a.rows])
    IN /\ pages' = [pages EXCEPT ![a.id] = p] /\ recent' = recently(p, now)
       /\ remember(p, IF seenAt[a.id] >= 0 THEN seenAt[a.id] ELSE now, TRUE)

\* A cancelled fetch may have been sent already; one refused is not tried again.
ListingsAnswered(a) ==
    /\ asks' = asks \ {a}
    /\ \/ Merged(a) /\ deeper' = IF a.mine THEN [deeper EXCEPT ![a.step] = "done"] ELSE deeper
       \/ /\ deeper' = IF a.mine THEN [deeper EXCEPT ![a.step] = IF a.cancelled THEN "todo" ELSE "done"] ELSE deeper
          /\ UNCHANGED <<pages, recent, siblings>>
    /\ UNCHANGED <<rowQ, active, win, address, wire, seenAt, check, undo, shownTab, runs, hides, ranIn>>
    /\ MarketAndClockStay

Find ==
    /\ findState = "find" /\ check = NoCheck
    /\ finds < MaxFinds /\ finds' = finds + 1
    /\ check' = [item |-> pageShown.q.item, cancelled |-> FALSE]
    /\ UNCHANGED <<rowQ, active, win, address, wire, pages, seenAt, recent, siblings, deeper, asks, undo, shownTab, runs, hides, ranIn, hasPrices, now>>

\* The search without its filter, its first page and a sample of the rest.
pageFromRecheck(item) ==
    LET q == [item |-> item, in |-> AnyCur]
        p == [q |-> q, rows |-> firstOf(q)]
    IN [p EXCEPT !.rows = @ \cup samplePlan(p)]

CheckEnds ==
    /\ check # NoCheck /\ check' = NoCheck
    /\ \/ remember(pageFromRecheck(check.item), now, TRUE)
       \/ UNCHANGED siblings
    /\ UNCHANGED <<rowQ, active, win, address, wire, pages, seenAt, recent, deeper, asks, undo, shownTab, runs, hides, ranIn>>
    /\ MarketAndClockStay

-----------------------------------------------------------------------------
(* Repricing, its undo, and the user moving on. *)

RepriceIn(c) ==
    /\ c \in offer
    /\ LET q == [pageShown.q EXCEPT !.in = c]
       IN /\ Mounts(active, [rowQ EXCEPT ![active] = q], q)
          /\ ranIn' = ranIn \cup {<<active, q>>}
    /\ undo' = [row |-> active, q |-> rowQ[active]]
    /\ UNCHANGED runs

\* The window reloads only when the row restored is the one showing.
Undo ==
    /\ undo.row # 0 /\ undo' = NoUndo
    /\ LET saved == [rowQ EXCEPT ![undo.row] = undo.q]
       IN IF undo.row = active THEN Mounts(active, saved, undo.q)
          ELSE /\ rowQ' = saved
               /\ UNCHANGED <<active, win, address, wire, pages, seenAt, recent, siblings, deeper, asks, check, shownTab, hides>>
               /\ MarketAndClockStay
    /\ UNCHANGED <<runs, ranIn>>

ToastEnds ==
    /\ undo.row # 0 /\ undo' = NoUndo
    /\ UNCHANGED <<rowQ, active, win, address, wire, pages, seenAt, recent, siblings, deeper, asks, check, shownTab, runs, hides, ranIn>>
    /\ MarketAndClockStay

Turns ==
    /\ hides < MaxHides /\ hides' = hides + 1 /\ shownTab' = ~shownTab
    /\ asks' = {[a EXCEPT !.cancelled = TRUE] : a \in asks}
    /\ check' = IF check = NoCheck THEN check ELSE [check EXCEPT !.cancelled = TRUE]
    /\ UNCHANGED <<rowQ, active, win, address, wire, pages, seenAt, recent, siblings, deeper, undo, runs, ranIn>>
    /\ MarketAndClockStay

MinutesPass ==
    /\ now < MaxTime /\ now' = now + 1
    /\ UNCHANGED <<rowQ, active, win, address, wire, pages, seenAt, recent, siblings, deeper, asks, check, undo, hasPrices, shownTab, runs, hides, finds, ranIn>>

-----------------------------------------------------------------------------
RepInit ==
    /\ rowQ = FirstSearches /\ active \in Rows
    /\ win = [id |-> 1, told |-> FALSE, home |-> FirstSearches[active] = NoQ] /\ address = NoQ
    /\ pages = [i \in 1..MaxWindows |-> EmptyPage] /\ seenAt = [i \in 1..MaxWindows |-> -1]
    /\ recent = [q \in TradeSearches |-> [page |-> EmptyPage, at |-> -1]]
    /\ siblings = [item \in ItemsOf |-> NoEntry]
    /\ wire \in ToldOf(1, IF FirstSearches[active] = NoQ THEN HomePage ELSE FirstSearches[active])
    /\ deeper = NotDeep /\ asks = {} /\ check = NoCheck /\ undo = NoUndo
    /\ hasPrices = FALSE /\ shownTab = TRUE /\ now = 0 /\ runs = 0 /\ hides = 0 /\ finds = 0
    /\ ranIn = {<<row, FirstSearches[row]>> : row \in Rows}

RepNext ==
    \/ \E row \in Rows : SelectRow(row)
    \/ WindowTold \/ \E q \in TradeSearches : RunSearch(q)
    \/ NavArrives \/ TapArrives \/ PricesLoad
    \/ LookDeeper \/ (\E a \in asks : ListingsAnswered(a)) \/ Find \/ CheckEnds
    \/ (\E c \in Currencies : RepriceIn(c)) \/ Undo \/ ToastEnds \/ Turns \/ MinutesPass

-----------------------------------------------------------------------------
(* Properties. *)

\* An offer names a currency in which this very item is listed, more than 5 % under
\* what the window shows first: no row of another search got into its evidence.
OfferIsCheaper ==
    \A c \in offer :
        LET q == rowQ[active]
        IN \E i \in DOMAIN Listed[q.item] :
              /\ Listed[q.item][i].in = c
              /\ resultOf(q) # {} => /\ c # Listed[q.item][topOf(q)].in
                                    /\ 100 * worthOf(q.item, topOf(q)) >= 105 * worthOf(q.item, i)

\* What a row saves was run for it: never a stale address of another row's window,
\* never the landing of an empty tab (webview.js, WorkspaceView.jsx).
SavedWasRunThere == \A row \in Rows : rowQ[row] = NoQ \/ <<row, rowQ[row]>> \in ranIn

=============================================================================
