----------------------------- MODULE RouteStream -----------------------------
(***************************************************************************)
(* One route search from the Arbitrage page to the backend and back        *)
(* (frontend RoutesView.jsx, routesStream.js; backend main.py              *)
(* routes_stream, arbitrage/routes.py stream_routes, the graph and route   *)
(* caches): searches in worker threads, saves that drop the caches while   *)
(* one runs, a page that supersedes, times out and retries its searches.   *)
(*                                                                         *)
(* A result is the number of the save it was computed from.  The loops     *)
(* that pass the filters are 1..NLoops in the order the search finds them,   *)
(* and Top is the list the server ends up with (its best `limit`).         *)
(***************************************************************************)
EXTENDS Integers, Sequences

CONSTANTS MaxStreams,   \* searches the page may start
          MaxSaves,     \* saves of capital, settings or recipes
          NLoops, Top,    \* loops found, and those in the final list
          SEARCH_RETRIES       \* SEARCH_RETRIES

ASSUME StreamAssumption ==
    MaxStreams \in Nat /\ MaxSaves \in Nat /\ SEARCH_RETRIES \in Nat /\ NLoops \in Nat /\ Top \subseteq 1..NLoops

VARIABLES saved,        \* how many saves are in user.sqlite
          putter,       \* PUT /api/capital, /settings: "idle" or "stored" (caches not dropped yet)
          graphCache,   \* the save _graph_cache's entry was built from
          routeCache,   \* the save _route_cache's entry was computed from
          search,       \* the server's side of every stream
          wire,         \* events of the page's stream that it has not received
          page          \* the page: its stream, what it collected, what it shows

streamVars == <<saved, putter, graphCache, routeCache, search, wire, page>>

Nothing == -1
Streams == 1..MaxStreams
LoopIds   == 1..NLoops
Fresh   == [pc |-> "none", graph |-> Nothing, capital |-> Nothing, found |-> 0, buf |-> {}, stop |-> FALSE,
            since |-> 0]

OldestSave(s) == IF search[s].graph < search[s].capital THEN search[s].graph ELSE search[s].capital

-----------------------------------------------------------------------------
(* Saves (main.py put_capital, put_settings, put_recipes). *)

SaveStores ==
    /\ putter = "idle" /\ saved < MaxSaves
    /\ saved' = saved + 1 /\ putter' = "stored"
    /\ UNCHANGED <<graphCache, routeCache, search, wire, page>>

SaveDrops ==
    /\ putter = "stored"
    /\ putter' = "idle" /\ graphCache' = Nothing /\ routeCache' = Nothing
    /\ UNCHANGED <<saved, search, wire, page>>

\* GRAPH_TTL_S and routes_cache_s.
GraphExpires ==
    /\ graphCache # Nothing /\ graphCache' = Nothing
    /\ UNCHANGED <<saved, putter, routeCache, search, wire, page>>
RouteExpires ==
    /\ routeCache # Nothing /\ routeCache' = Nothing
    /\ UNCHANGED <<saved, putter, graphCache, search, wire, page>>

-----------------------------------------------------------------------------
(* The search in its worker thread (routes.py stream_routes, main.py gen). *)

Event(type) == [type |-> type, rows |-> {}]
Batch(rows) == [type |-> "routes", rows |-> rows]

StreamGoes(s, new) == search' = [search EXCEPT ![s] = new]
Sends(s, events) == wire' = IF page.es = s THEN wire \o events ELSE wire
Ended(s) == [Fresh EXCEPT !.pc = "over"]

\* cached_graph: a miss builds from what is saved, and keeps it later.
GetsGraph(s) ==
    /\ search[s].pc = "open"
    /\ StreamGoes(s, [search[s] EXCEPT !.pc = IF graphCache = Nothing THEN "build" ELSE "setup",
                                 !.graph = IF graphCache = Nothing THEN saved ELSE graphCache])
    /\ UNCHANGED <<saved, putter, graphCache, routeCache, wire, page>>

KeepsGraph(s) ==
    /\ search[s].pc = "build"
    /\ graphCache' = search[s].graph
    /\ StreamGoes(s, [search[s] EXCEPT !.pc = "setup"])
    /\ UNCHANGED <<saved, putter, routeCache, wire, page>>

\* The holdings are read, and a kept result replays its final list at once.
SetsUp(s) ==
    /\ search[s].pc = "setup"
    /\ IF routeCache # Nothing
       THEN /\ StreamGoes(s, [search[s] EXCEPT !.pc = "done", !.graph = routeCache, !.capital = routeCache])
            /\ Sends(s, <<Event("meta"), Batch(Top), Event("done")>>)
       ELSE /\ StreamGoes(s, [search[s] EXCEPT !.pc = "search", !.capital = saved])
            /\ Sends(s, <<Event("meta")>>)
    /\ UNCHANGED <<saved, putter, graphCache, routeCache, page>>

\* A loop that passes the filters; full or old batches are sent.
Finds(s) ==
    /\ search[s].pc = "search" /\ search[s].found < NLoops
    /\ LET r == search[s].found + 1
           b == search[s].buf \cup {r}
       IN \/ StreamGoes(s, [search[s] EXCEPT !.found = r, !.buf = b]) /\ UNCHANGED wire
          \/ StreamGoes(s, [search[s] EXCEPT !.found = r, !.buf = {}]) /\ Sends(s, <<Batch(b)>>)
    /\ UNCHANGED <<saved, putter, graphCache, routeCache, page>>

FlushedNever(s) == <<>>                                                 \* mutant
\* What is still in the batch goes out before any other event.
Flushed(s) == IF search[s].buf = {} THEN <<>> ELSE <<Batch(search[s].buf)>>

\* Every fiftieth candidate: has the page gone?  Was nothing sent for long?
Checks(s) ==
    /\ search[s].pc = "search"
    /\ \/ /\ search[s].stop
          /\ StreamGoes(s, Ended(s))
          /\ UNCHANGED wire
       \/ /\ ~search[s].stop /\ wire = <<>>
          /\ Sends(s, Flushed(s) \o <<Event("progress")>>)
          /\ StreamGoes(s, [search[s] EXCEPT !.buf = {}])
    /\ UNCHANGED <<saved, putter, graphCache, routeCache, page>>

\* The finished result is kept for the next search, then `done` goes out.
Finishes(s) ==
    /\ search[s].pc = "search" /\ search[s].found = NLoops
    /\ routeCache' = OldestSave(s)
    /\ StreamGoes(s, [search[s] EXCEPT !.pc = "done", !.buf = {}, !.found = 0, !.stop = FALSE])
    /\ Sends(s, Flushed(s) \o <<Event("done")>>)
    /\ UNCHANGED <<saved, putter, graphCache, page>>

Breaks(s) ==
    /\ search[s].pc \in {"open", "search"}
    /\ StreamGoes(s, Ended(s))
    /\ Sends(s, <<Event("error")>>)
    /\ UNCHANGED <<saved, putter, graphCache, routeCache, page>>

\* until_gone: between two chunks the server notices a closed stream.
Notices(s) ==
    /\ search[s].pc \in {"open", "build", "setup", "search"} /\ page.es # s /\ ~search[s].stop
    /\ StreamGoes(s, [search[s] EXCEPT !.stop = TRUE])
    /\ UNCHANGED <<saved, putter, graphCache, routeCache, wire, page>>

-----------------------------------------------------------------------------
(* The page (RoutesView.jsx load, routesStream.js streamSearch). *)

Opened == page.last + 1

\* load(): the stream before reports nothing more.
Loads(retries) ==
    /\ Opened \in Streams
    /\ page' = [page EXCEPT !.es = Opened, !.last = Opened, !.acc = {}, !.streaming = TRUE,
                            !.retries = retries]
    /\ search' = [search EXCEPT ![Opened] = [Fresh EXCEPT !.pc = "open", !.since = saved - (IF putter = "stored" THEN 1 ELSE 0)]]
    /\ wire' = <<>>
    /\ UNCHANGED <<saved, putter, graphCache, routeCache>>

\* An edited filter, a preset, the refresh button, or two minutes gone.
Searches == Loads(page.retries)

Receives ==
    /\ page.es # 0 /\ wire # <<>>
    /\ LET e == Head(wire)
           ended == [page EXCEPT !.es = 0, !.streaming = FALSE]
       IN /\ page' = IF e.type = "done"
                     THEN [ended EXCEPT !.retries = 0, !.shown = page.acc \cap Top, !.of = page.es]
                     ELSE IF e.type = "error" THEN ended
                     ELSE [page EXCEPT !.acc = @ \cup e.rows]
          /\ wire' = Tail(wire)
    /\ UNCHANGED <<saved, putter, graphCache, routeCache, search>>

\* Nothing came for SEARCH_IDLE_MS: search again, a couple of times.
GivesUp(given) ==
    /\ page.es # 0 /\ wire = <<>>
    /\ IF page.retries < SEARCH_RETRIES
       THEN Loads(page.retries + 1)
       ELSE /\ page' = given
            /\ UNCHANGED <<saved, putter, graphCache, routeCache, search, wire>>

IdleForgotten == GivesUp([page EXCEPT !.es = 0])                        \* mutant
IdleTooLong   == GivesUp([page EXCEPT !.es = 0, !.streaming = FALSE])

-----------------------------------------------------------------------------
StreamInit ==
    /\ saved = 0 /\ putter = "idle" /\ graphCache = Nothing /\ routeCache = Nothing
    /\ search = [s \in Streams |-> Fresh]
    /\ wire = <<>>
    /\ page = [es |-> 0, last |-> 0, acc |-> {}, shown |-> {}, of |-> 0, streaming |-> FALSE,
               retries |-> 0]

Works(s) == GetsGraph(s) \/ KeepsGraph(s) \/ SetsUp(s) \/ Finds(s) \/ Finishes(s)

StreamNext ==
    \/ SaveStores \/ SaveDrops \/ GraphExpires \/ RouteExpires
    \/ Searches \/ Receives \/ IdleTooLong
    \/ \E s \in Streams : Works(s) \/ Checks(s) \/ Breaks(s) \/ Notices(s)

-----------------------------------------------------------------------------
(* Properties. *)

\* The page shows one population however it got it (routesStream.js): a fresh
\* search leaves the same list as a replayed one, whole.
SameLoopsEitherWay == page.of # 0 => page.shown = Top

\* The page never sits "searching" for ever.
SearchSettles == page.streaming ~> ~page.streaming

=============================================================================
