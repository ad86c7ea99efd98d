----------------------------- MODULE StratPricing -----------------------------
(***************************************************************************)
(* How the strat calculator prices what the market does not: one trade     *)
(* search at a time for the uniques, the tablets and the maps of the open  *)
(* strat (frontend/src/lib/stratPricing.js, the links of stratcalc.js), the *)
(* effect of StratCalcView.jsx that runs the queue when what it depends on *)
(* changes, and the window that links a search (TradeBuilder.jsx).         *)
(*                                                                         *)
(* A link is a number of its own, 0 for none; a price is the number of the *)
(* link it was found for.  Of time only the three waits are told apart.    *)
(***************************************************************************)
EXTENDS Integers, Sequences, FiniteSets

CONSTANTS Strats,
          Queue,      \* what is priced, in the order of the queue
          Linkable,   \* the lines a search is linked to; the others are uniques
          MaxLinks, MaxHours, MaxMinutes, MaxRates

VARIABLES line,      \* the priced lines of every strat
          open,      \* the strat shown
          retryAt,   \* why a key is not asked: until the hour, a minute or a rate
                     \* limit is over
          pending,   \* the search under way
          paused,    \* does the trade site make every search wait?
          blocked,   \* not logged in
          rerun,     \* did something change that the effect depends on?
          window,    \* the search the trade window holds, NoWindow without one
          links, hours, minutes, rates    \* how often, for the bounds

priceVars == <<line, open, retryAt, pending, paused, blocked, rerun, window, links, hours, minutes, rates>>

Keys    == {Queue[i] : i \in DOMAIN Queue}
NoJob   == [strat |-> 0, key |-> 0, linked |-> 0]
NoWindow == [key |-> 0, link |-> 0]
Fresh(k) == IF k \in Linkable THEN 0 ELSE 1    \* a unique's search never changes

\* needsFloor, needsLinkPrice: a link, no typed price, none found or an hour old.
Needs(l) == l.link # 0 /\ ~l.typed /\ l.due
DueOf(s) == SelectSeq(Queue, LAMBDA k : Needs(line[s][k]) /\ retryAt[k] = "no")

-----------------------------------------------------------------------------
(* The queue. *)

\* Its wait is over only for the search it was said of.
retryLater(k, why) == retryAt' = [retryAt EXCEPT ![k] = IF @ = "hour" THEN why ELSE @]

\* The effect: the next search the open strat needs.
RunsQueue ==
    /\ rerun /\ rerun' = FALSE
    /\ IF pending # NoJob \/ blocked \/ paused \/ DueOf(open) = <<>>
       THEN UNCHANGED <<pending, retryAt>>
       ELSE LET k == Head(DueOf(open))
            IN /\ pending' = [strat |-> open, key |-> k, linked |-> line[open][k].link]
               /\ retryAt' = [retryAt EXCEPT ![k] = "hour"]
    /\ UNCHANGED <<line, open, paused, blocked, window, links, hours, minutes, rates>>

\* Found, unless the line was linked to another search meanwhile.
stillIts(l, job) == l.link = job.linked
recordFound(job) ==
    LET l == line[job.strat][job.key]
    IN line' = IF l.link # 0 /\ stillIts(l, job)
               THEN [line EXCEPT ![job.strat] = [@ EXCEPT ![job.key] = [l EXCEPT !.found = job.linked, !.due = FALSE]]]
               ELSE line

SearchAnswered(what) ==
    /\ pending # NoJob /\ pending' = NoJob /\ rerun' = TRUE
    /\ CASE what = "prices" -> recordFound(pending) /\ UNCHANGED <<retryAt, paused, blocked, minutes, rates>>
         [] what = "none"   -> UNCHANGED <<line, retryAt, paused, blocked, minutes, rates>>
         [] what = "unpriced" -> /\ minutes < MaxMinutes /\ minutes' = minutes + 1
                                 /\ retryLater(pending.key, "minute")
                                 /\ UNCHANGED <<line, paused, blocked, rates>>
         [] what = "auth"   -> blocked' = TRUE /\ UNCHANGED <<line, retryAt, paused, minutes, rates>>
         [] what = "rate"   -> /\ rates < MaxRates /\ rates' = rates + 1
                               /\ paused' = TRUE /\ retryLater(pending.key, "rate")
                               /\ UNCHANGED <<line, blocked, minutes>>
    /\ UNCHANGED <<open, window, links, hours>>

\* The wait of a rate limit has a timer of its own that runs the queue again.
WakesNever == paused' = FALSE /\ UNCHANGED rerun                          \* mutant
Wakes == paused' = FALSE /\ rerun' = TRUE
WaitEnds ==
    /\ paused /\ Wakes
    /\ retryAt' = [k \in Keys |-> IF retryAt[k] = "rate" THEN "no" ELSE retryAt[k]]
    /\ UNCHANGED <<line, open, pending, blocked, window, links, hours, minutes, rates>>

MinutePasses ==
    /\ \E k \in Keys : retryAt[k] = "minute"
    /\ retryAt' = [k \in Keys |-> IF retryAt[k] = "minute" THEN "no" ELSE retryAt[k]]
    /\ UNCHANGED <<line, open, pending, paused, blocked, rerun, window, links, hours, minutes, rates>>

HourPasses ==
    /\ pending = NoJob /\ ~paused /\ hours < MaxHours /\ hours' = hours + 1
    /\ retryAt' = [k \in Keys |-> "no"]
    /\ line' = [s \in Strats |-> [k \in Keys |-> [line[s][k] EXCEPT !.due = TRUE]]]
    /\ UNCHANGED <<open, pending, paused, blocked, rerun, window, links, minutes, rates>>

-----------------------------------------------------------------------------
(* The user. *)

\* A change of the open strat runs the queue again.
LineEdited(k, l) ==
    /\ line' = [line EXCEPT ![open] = [@ EXCEPT ![k] = l]] /\ rerun' = TRUE
    /\ UNCHANGED <<open, pending, paused, blocked, hours, minutes, rates>>

TypesPrice(k, p) ==
    /\ line[open][k].link # 0 /\ line[open][k].typed # p
    /\ LineEdited(k, [line[open][k] EXCEPT !.typed = p])
    /\ UNCHANGED <<retryAt, window, links>>

Unlinks(k) ==
    /\ k \in Linkable /\ line[open][k].link # 0
    /\ LineEdited(k, [link |-> 0, typed |-> TRUE, found |-> 0, due |-> TRUE])
    /\ UNCHANGED <<retryAt, window, links>>

SelectsStrat(s) ==
    /\ s # open /\ open' = s /\ rerun' = TRUE
    /\ UNCHANGED <<line, retryAt, pending, paused, blocked, window, links, hours, minutes, rates>>

\* The reload of a strat: everything is due and nothing waits but for a rate limit.
Refreshes ==
    /\ retryAt' = [k \in Keys |-> "no"] /\ blocked' = FALSE /\ rerun' = TRUE
    /\ line' = [line EXCEPT ![open] = [k \in Keys |-> [line[open][k] EXCEPT !.due = TRUE]]]
    /\ UNCHANGED <<open, pending, paused, window, links, hours, minutes, rates>>

\* The window opens on the line's search; what is searched in it follows.
OpensWindow(k) ==
    /\ k \in Linkable /\ window = NoWindow
    /\ window' = [key |-> k, link |-> line[open][k].link]
    /\ UNCHANGED <<line, open, retryAt, pending, paused, blocked, rerun, links, hours, minutes, rates>>

SearchesInWindow ==
    /\ window # NoWindow /\ links < MaxLinks
    /\ links' = links + 1 /\ window' = [window EXCEPT !.link = 1 + links']
    /\ UNCHANGED <<line, open, retryAt, pending, paused, blocked, rerun, hours, minutes, rates>>

\* "Use this search": nothing to do when it is the one the line holds.
UsesSearch ==
    /\ window # NoWindow /\ window.link # 0 /\ window' = NoWindow
    /\ IF line[open][window.key].link = window.link
       THEN UNCHANGED <<line, open, retryAt, pending, paused, blocked, rerun, hours, minutes, rates>>
       ELSE /\ LineEdited(window.key, [link |-> window.link, typed |-> FALSE, found |-> 0, due |-> TRUE])
            /\ retryAt' = [retryAt EXCEPT ![window.key] = "no"]
    /\ UNCHANGED links

ClosesWindow ==
    /\ window # NoWindow /\ window' = NoWindow
    /\ UNCHANGED <<line, open, retryAt, pending, paused, blocked, rerun, links, hours, minutes, rates>>

-----------------------------------------------------------------------------
PriceInit ==
    /\ line = [s \in Strats |-> [k \in Keys |-> [link |-> Fresh(k), typed |-> FALSE, found |-> 0, due |-> TRUE]]]
    /\ open \in Strats
    /\ retryAt = [k \in Keys |-> "no"] /\ pending = NoJob /\ paused = FALSE /\ blocked = FALSE
    /\ rerun = TRUE /\ window = NoWindow
    /\ links = 0 /\ hours = 0 /\ minutes = 0 /\ rates = 0

Answers == {"prices", "none", "unpriced", "auth", "rate"}

PriceNext ==
    \/ RunsQueue \/ (\E what \in Answers : SearchAnswered(what))
    \/ WaitEnds \/ MinutePasses \/ HourPasses
    \/ \E k \in Keys : TypesPrice(k, TRUE) \/ TypesPrice(k, FALSE) \/ Unlinks(k) \/ OpensWindow(k)
    \/ \E s \in Strats : SelectsStrat(s)
    \/ Refreshes \/ SearchesInWindow \/ UsesSearch \/ ClosesWindow

-----------------------------------------------------------------------------
(* Properties. *)

\* "That answer is not its" (recordFound): the price a line shows was found for
\* the search it is linked to now, whatever was linked while the search ran.
PriceIsItsOwn == \A s \in Strats, k \in Keys : line[s][k].found \in {0, line[s][k].link}

\* Something the open strat needs, that waits for no more than `why`.
WaitsFor(why) == \E k \in Keys : Needs(line[open][k]) /\ retryAt[k] = why
Asked(why)    == pending # NoJob \/ blocked \/ ~(WaitsFor(why) \/ WaitsFor("no"))

\* "This one is due again when the wait ends ... and nothing else would re-run the
\* queue then" (StratCalcView.jsx): after a rate limit the queue goes on.
RateLimitEnds == WaitsFor("rate") ~> Asked("rate")

\* "No prices yet: again in a minute" (StratCalcView.jsx).
AgainInAMinute == WaitsFor("minute") ~> Asked("minute")
=============================================================================
