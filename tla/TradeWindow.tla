----------------------------- MODULE TradeWindow -----------------------------
(* The trade site beside the searches: the window is made anew for the      *)
(* active row, on its saved search or on the site's home; searches the user *)
(* runs there reach the page as messages, and are saved into the row.      *)
EXTENDS Integers, Sequences, FiniteSets

CONSTANTS Tabs, HistoryTabs,   \* the rows, and those that are ExiledExchange2's
          Slugs,               \* searches the user may run
          BlankAfterBlank,     \* may a blank row be opened from a blank row
          MaxWindowsMade, MaxRunsMade   \* bounds: windows, searches run

NoTab == "none"
Blank == ""
HomeSlug == "home"
Own == "own"       \* a name the user gave

ASSUME WindowAssumption ==
    /\ NoTab \notin Tabs /\ HistoryTabs \subseteq Tabs
    /\ Slugs \cap {Blank, HomeSlug, "item"} = {}

VARIABLES
    rows,     \* row -> its slug, name, and whether it is named by its search
    activeTab, \* activeId
    window,    \* wc: its number; page: the search it shows; landing: its first is still to load
    deps,      \* what homeNav was last started for: the address, and the reloads
    skip,      \* homeNav.current.skip
    windowLoads,   \* wvNonce
    navQueue,  \* messages on their way: the window and the slug
    names,     \* names being read: the row, and what was read
    ran        \* row -> searches the user ran in its window

windowVars == <<rows, activeTab, window, deps, skip, windowLoads, navQueue, names, ran>>

Absentee == [there |-> FALSE, slug |-> Blank, name |-> Blank, auto |-> FALSE]
NewRow == [there |-> TRUE, slug |-> Blank, name |-> Blank, auto |-> TRUE]

\* A history row opens its query: a page of its own, not the home.
mountUrl(t) == IF t \in HistoryTabs THEN "item" ELSE IF t = NoTab THEN HomeSlug
               ELSE IF rows'[t].slug = Blank THEN HomeSlug ELSE rows'[t].slug

WindowInit ==
    /\ rows = [t \in Tabs |-> IF t \in HistoryTabs THEN [NewRow EXCEPT !.auto = FALSE] ELSE Absentee]
    /\ activeTab = NoTab /\ window = [wc |-> 1, page |-> Blank, landing |-> HomeSlug]
    /\ deps = <<HomeSlug, 0>> /\ skip = TRUE /\ windowLoads = 0
    /\ navQueue = <<>> /\ names = {} /\ ran = [t \in Tabs |-> {}]

\* A window for row t: made anew with its key; homeNav is started again when
\* the address or the number of reloads is another one.
Mounts(t, times) ==
    /\ window.wc < MaxWindowsMade
    /\ window' = [wc |-> window.wc + 1, page |-> Blank, landing |-> mountUrl(t)]
    /\ deps' = <<mountUrl(t), times>>
    /\ skip' = IF deps' # deps THEN mountUrl(t) = HomeSlug ELSE skip
Careful(t) == BlankAfterBlank \/ deps[1] # HomeSlug \/ skip \/ mountUrl(t) # HomeSlug

SelectTab(t) ==
    /\ rows[t].there /\ activeTab # t /\ UNCHANGED rows
    /\ activeTab' = t /\ Mounts(t, windowLoads) /\ Careful(t)
    /\ UNCHANGED <<windowLoads, navQueue, names, ran>>
NewTab(t) ==
    /\ ~rows[t].there /\ ran[t] = {} /\ rows' = [rows EXCEPT ![t] = NewRow]
    /\ activeTab' = t /\ Mounts(t, windowLoads) /\ Careful(t)
    /\ UNCHANGED <<windowLoads, navQueue, names, ran>>
DeleteTab(t) ==
    /\ rows[t].there /\ t \notin HistoryTabs /\ rows' = [rows EXCEPT ![t] = Absentee]
    /\ IF activeTab = t THEN activeTab' = NoTab /\ Mounts(NoTab, windowLoads)
       ELSE UNCHANGED <<activeTab, window, deps, skip>>
    /\ UNCHANGED <<windowLoads, navQueue, names, ran>>
RenameTab(t) ==
    /\ rows[t].there /\ t \notin HistoryTabs
    /\ rows' = [rows EXCEPT ![t] = [@ EXCEPT !.name = Own, !.auto = FALSE]]
    /\ UNCHANGED <<activeTab, window, deps, skip, windowLoads, navQueue, names, ran>>
ReloadWindow ==
    /\ UNCHANGED rows /\ windowLoads' = windowLoads + 1 /\ Mounts(activeTab, windowLoads')
    /\ UNCHANGED <<activeTab, navQueue, names, ran>>

\* The site: its first page loads, then the user's searches run.
Told(slug) == navQueue' = Append(navQueue, [wc |-> window.wc, slug |-> slug])
Lands ==
    /\ window.landing # Blank /\ window' = [window EXCEPT !.page = window.landing, !.landing = Blank]
    /\ Told(window.landing)
    /\ UNCHANGED <<rows, activeTab, deps, skip, windowLoads, names, ran>>
UserRuns(slug) ==
    /\ window.landing = Blank /\ Cardinality(UNION {ran[t] : t \in Tabs}) < MaxRunsMade
    /\ activeTab # NoTab /\ window.page # slug
    /\ window' = [window EXCEPT !.page = slug] /\ Told(slug)
    /\ ran' = [ran EXCEPT ![activeTab] = @ \cup {slug}]
    /\ UNCHANGED <<rows, activeTab, deps, skip, windowLoads, names>>

acceptsAny(p) == TRUE
shouldAcceptNav(p) == p.wc = window.wc
\* The home's own landing is not the user's search.
capture == ~skip
findBySlug(slug) == {t \in Tabs : rows[t].there /\ rows[t].slug = slug}
Captures(t, slug) ==
    /\ capture /\ findBySlug(slug) \subseteq {t} /\ t \notin HistoryTabs
WebviewNav ==
    /\ navQueue # <<>> /\ navQueue' = Tail(navQueue)
    /\ LET p == Head(navQueue)
           heard == shouldAcceptNav(p) /\ activeTab # NoTab
       IN  /\ skip' = IF heard THEN FALSE ELSE skip
           /\ IF heard /\ Captures(activeTab, p.slug)
              THEN /\ rows' = [rows EXCEPT ![activeTab] = [@ EXCEPT !.slug = p.slug]]
                   /\ names' = IF rows[activeTab].auto THEN names \cup {[tab |-> activeTab, name |-> window.page]} ELSE names
              ELSE UNCHANGED <<rows, names>>
    /\ UNCHANGED <<activeTab, window, deps, windowLoads, ran>>
autoName(n) ==
    /\ n \in names /\ names' = names \ {n}
    /\ rows' = IF rows[n.tab].there /\ rows[n.tab].auto THEN [rows EXCEPT ![n.tab] = [@ EXCEPT !.name = n.name]] ELSE rows
    /\ UNCHANGED <<activeTab, window, deps, skip, windowLoads, navQueue, ran>>

WindowNext ==
    \/ ReloadWindow \/ Lands \/ WebviewNav
    \/ \E t \in Tabs : SelectTab(t) \/ NewTab(t) \/ DeleteTab(t) \/ RenameTab(t)
    \/ \E slug \in Slugs : UserRuns(slug)
    \/ \E n \in names : autoName(n)
WindowSpec == WindowInit /\ [][WindowNext]_windowVars

-----------------------------------------------------------------------------
(* A row's search is one the user ran in its own window: never the page's   *)
(* own landing, nor what another row's window tells late (webview.js:8-10,  *)
(* WorkspaceView.jsx:361-363).                                              *)
CapturedWasRun == \A t \in Tabs : rows[t].slug = Blank \/ rows[t].slug \in ran[t]

(* Run a search and it is saved: with every message heard, the active row   *)
(* has the search its window shows, unless it was another row's             *)
(* (WorkspaceView.jsx:340-343, :361-366).                                   *)
LastRunIsSaved ==
    navQueue = <<>> /\ activeTab \in Tabs \ HistoryTabs /\ window.page \in ran[activeTab]
    => rows[activeTab].slug = window.page \/ \E t \in Tabs \ {activeTab} : window.page \in ran[t]

(* For a user who opens no blank row from a blank row.                      *)
RowsAreTheirOwn == CapturedWasRun /\ LastRunIsSaved
=============================================================================
