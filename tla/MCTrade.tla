------------------------------- MODULE MCTrade -------------------------------
(* The trade side of the page, whose parts share no state, checked         *)
(* together: the live rows, the pings, the repricing and the prices of     *)
(* the strat calculator.  A behaviour is one of one part, chosen at the    *)
(* start.                                                                  *)
EXTENDS LiveSync, LivePings, Reprice, StratPricing

CONSTANTS Parts, unique, map
VARIABLE part

\* The live rows, and two ways to use them.
TwoRows == 1..2
AllSearches == Leagues \X Slugs
Edits == {"edit", "reprice", "league"}
Patiently == [waits |-> TRUE, moves |-> Edits]
OrHastily == {Patiently, [waits |-> FALSE, moves |-> {"edit", "reload"}]}

UniqueThenMap == <<unique, map>>

\* Two items on the trade site, each listed in two currencies.
In(c, n) == [in |-> c, amount |-> n]
TwoItems == [a |-> <<In("ex", 10), In("ex", 11), In("ex", 12), In("ch", 4), In("ch", 6)>>,
             b |-> <<In("ch", 3), In("ex", 4)>>]
PriceTable == [ex |-> 1, ch |-> 2]
OneRowEach == <<[item |-> "a", in |-> "any"], [item |-> "b", in |-> "any"]>>

OnlyPart(p) ==
    /\ part = p /\ UNCHANGED part
    /\ p # "sync" => UNCHANGED vars
    /\ p # "pings" => UNCHANGED pingVars
    /\ p # "reprice" => UNCHANGED repVars
    /\ p # "price" => UNCHANGED priceVars

\* A part that is not taken starts in one state only.
OneStart ==
    /\ part # "sync" => armed = {} /\ \A i \in Items : slug[i] = slug[1]
    /\ part # "sync" => league = (CHOOSE l \in Leagues : TRUE) /\ slug[1] = (CHOOSE s \in Slugs : TRUE)
    /\ part # "sync" => user = CHOOSE u \in Users : TRUE
    /\ part # "reprice" => active = 1 /\ Head(wire).kind = "nav"
    /\ part # "price" => open = CHOOSE s \in Strats : TRUE

TradeInit == part \in Parts /\ Init /\ PingsInit /\ RepInit /\ PriceInit /\ OneStart

TradeNext ==
    \/ OnlyPart("sync") /\ Next
    \/ OnlyPart("pings") /\ PingsNext
    \/ OnlyPart("reprice") /\ RepNext
    \/ OnlyPart("price") /\ PriceNext

TradeSpec == TradeInit /\ [][TradeNext]_<<part, vars, pingVars, repVars, priceVars>>

(* The page handles its messages, main handles the calls, searches are     *)
(* answered, timers fire and effects run; nobody has to click, and no      *)
(* socket has to open.                                                     *)
On(p) == part = p
FairTrade ==
    /\ TradeSpec
    /\ WF_vars(On("sync") /\ Renderer /\ UNCHANGED user)
    /\ WF_vars(On("sync") /\ (HandleStart \/ HandleStop) /\ UNCHANGED user)
    /\ WF_vars(On("sync") /\ EngineSettles /\ UNCHANGED user)
    /\ WF_priceVars(On("price") /\ RunsQueue)
    /\ WF_priceVars(On("price") /\ WaitEnds)
    /\ WF_priceVars(On("price") /\ \E what \in Answers : SearchAnswered(what))

(* What a search showed is used for the row or the line it was run for: the *)
(* offer it founds, the address a row saves, the price a line shows          *)
(* (useReprice.js:72, WorkspaceView.jsx:344-376, stratPricing.js:43).       *)
SearchesAreOwn == OfferIsCheaper /\ SavedWasRunThere /\ PriceIsItsOwn
=============================================================================
