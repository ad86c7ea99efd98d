----------------------------- MODULE RouteSearch -----------------------------
(***************************************************************************)
(* Finding routes (backend/app/arbitrage: graph.py search and fills,       *)
(* routes.py, deepscan.py, convert.py; negcycle.py).  A search lists the   *)
(* loops from the currencies held, sizes each in whole lots and fills it   *)
(* step by step; the deep scan adds loops of any length; a conversion is   *)
(* an open path, and where the amount is too small the minimum is named.   *)
(***************************************************************************)
EXTENDS Integers, Sequences, FiniteSets, SequencesExt, TLC

CONSTANTS Books,        \* the markets to search, each a sequence of edges
          Coins,        \* the currencies
          Held,         \* start currencies, in order
          Worth,        \* ref_values of the currencies
          Budget,       \* what may be committed of a currency
          Amounts,      \* amounts to convert
          MaxSteps, MaxCandidates, MaxLoops

VARIABLES book,    \* Graph.adj: the edges in order
          asked,   \* the request
          answer   \* what came back

searchVars == <<book, asked, answer>>

Coarse(x) == x[1] \div x[2]                       \* floor
Prod(x, y) == <<x[1] * y[1], x[2] * y[2]>>
Below(x, y) == x[1] * y[2] < y[1] * x[2]
Recip(x) == <<x[2], x[1]>>
Endless == <<1, 0>>

Offer(a, b, rate, stock) == [src |-> a, dst |-> b, kind |-> "digest", rate |-> rate, stock |-> stock, lot |-> 1]
Craft(a, b, rate, lot) == [src |-> a, dst |-> b, kind |-> "recipe", rate |-> rate, stock |-> 0, lot |-> lot]

-----------------------------------------------------------------------------
(* The fill model (Edge, simulate, route_cap, cycle_unit). *)

capacity_in(e) == IF e.kind = "recipe" THEN Endless ELSE Prod(<<e.stock, 1>>, Recip(e.rate))

\* Up to amt of src: a recipe takes whole lots, a market what is on offer.
fill(e, amt) ==
    LET lots == (amt \div e.lot) * e.lot IN
    IF e.kind = "recipe" THEN [used |-> <<lots, 1>>, out |-> Coarse(Prod(<<lots, 1>>, e.rate))]
    ELSE IF Below(capacity_in(e), <<amt, 1>>) THEN [used |-> capacity_in(e), out |-> e.stock]
    ELSE [used |-> <<amt, 1>>, out |-> Coarse(Prod(<<amt, 1>>, e.rate))]

\* simulate: amounts along the path, and whether a step left some over.
simulate(path, amt) ==
    FoldLeft(LAMBDA s, e : LET f == fill(e, s.amt) IN
                           [amt |-> f.out, left |-> s.left \/ Below(f.used, <<s.amt, 1>>), dry |-> s.dry \/ f.out <= 0],
             [amt |-> amt, left |-> FALSE, dry |-> FALSE], path)

Start(path) == Head(path).src
UsesRecipe(path) == \E i \in 1..Len(path) : path[i].kind = "recipe"

route_cap(path, capital) ==
    FoldLeft(LAMBDA s, e : LET c == Prod(capacity_in(e), Recip(s.scale)) IN
                           [cap |-> IF Below(c, s.cap) THEN c ELSE s.cap, scale |-> Prod(s.scale, e.rate)],
             [cap |-> capital, scale |-> <<1, 1>>], path).cap

\* The smallest start that flows through without waste, up to a limit (512).
UnitLimit == 12
LeastOf(S, none) == IF S = {} THEN none ELSE CHOOSE a \in S : \A x \in S : a <= x
Clean(sim) == ~sim.left /\ ~sim.dry
cycle_unit(path) == IF UsesRecipe(path) THEN LeastOf({a \in 1..UnitLimit : Clean(simulate(path, a))}, 1) ELSE 1

InUnits(amt, unit) == (amt \div unit) * unit
Sized(path, capital) == InUnits(Coarse(route_cap(path, capital)), cycle_unit(path))

-----------------------------------------------------------------------------
(* Enumerating loops and paths (iter_cycles, iter_paths), depth first. *)

OutOf(node) == SelectSeq(book, LAMBDA e : e.src = node)

RECURSIVE Walks(_, _, _, _, _)
Walks(node, path, visited, target, steps) ==
    FlattenSeq([i \in 1..Len(OutOf(node)) |->
        LET e == OutOf(node)[i] IN
        IF e.dst = target /\ (target \in visited => Len(path) >= 1) THEN <<Append(path, e)>>
        ELSE IF e.dst \notin visited /\ Len(path) < steps - 1
             THEN Walks(e.dst, Append(path, e), visited \cup {e.dst}, target, steps)
             ELSE <<>>])

iter_cycles(start, steps) == Walks(start, <<>>, {start}, start, steps)
iter_paths(have, want, steps) == Walks(have, <<>>, {have}, want, steps)

\* cycles_shortest_first: a length at a time, the held currencies taking turns.
RECURSIVE InTurns(_)
InTurns(gens) ==
    LET live == SelectSeq(gens, LAMBDA g : g # <<>>)
    IN IF live = <<>> THEN <<>>
       ELSE [i \in 1..Len(live) |-> Head(live[i])] \o InTurns([i \in 1..Len(live) |-> Tail(live[i])])

OfLength(start, n) == SelectSeq(iter_cycles(start, n), LAMBDA c : Len(c) = n)
ShortestFirst(starts, steps) ==
    FlattenSeq([n \in 1..(steps - 1) |-> InTurns([i \in 1..Len(starts) |-> OfLength(starts[i], n + 1)])])

UpTo(cap, s) == SubSeq(s, 1, IF Len(s) < cap THEN Len(s) ELSE cap)
AllLoops(starts, steps) == FlattenSeq([i \in 1..Len(starts) |-> iter_cycles(starts[i], steps)])

AllOrShortest(all, starts, steps) ==
    IF Len(all) <= MaxCandidates THEN all ELSE UpTo(MaxCandidates, ShortestFirst(starts, steps))
search_cycles(starts, steps) == AllOrShortest(AllLoops(starts, steps), starts, steps)

-----------------------------------------------------------------------------
(* Negative cycles (negcycle.py) and the deep scan (deepscan.py).  A sum of  *)
(* -log(rate) is a product of 1/rate here.                                   *)

Relaxes(e, dist) == Below(Prod(dist[e.src], Recip(e.rate)), dist[e.dst])

\* bellman_ford's round: every edge relaxed from the distances it began with.
Nearer(x, e, v, b) == IF e.dst = v /\ Below(x, b.at) THEN [at |-> x, from |-> e.src] ELSE b
Nearest(edges, t, v) == FoldLeft(LAMBDA b, e : Nearer(Prod(t.dist[e.src], Recip(e.rate)), e, v, b),
                                 [at |-> t.dist[v], from |-> t.pred[v]], edges)
Taken(best) == [dist |-> [v \in Coins |-> best[v].at], pred |-> [v \in Coins |-> best[v].from]]
Round(edges, t) == Taken([v \in Coins |-> Nearest(edges, t, v)])

RoundsTooFew == Cardinality(Coins) - 2                                    \* mutant
Rounds       == Cardinality(Coins) - 1

\* _cycle_through: back over the predecessors until a vertex repeats; "broken"
\* where the chain ends first.
RECURSIVE FirstRepeated(_, _, _)
FirstRepeated(pred, u, visited) ==
    IF u = "null" \/ u \in visited THEN u ELSE FirstRepeated(pred, pred[u], visited \cup {u})
RECURSIVE Around(_, _, _)
Around(pred, v, u) == IF v = u THEN <<>> ELSE Append(Around(pred, pred[v], u), v)

CycleThrough(pred, u) == IF u = "null" THEN <<"broken">> ELSE Append(Around(pred, pred[u], u), u)

Relaxed(edges) == FoldLeft(LAMBDA t, i : Round(edges, t),
                           [dist |-> [c \in Coins |-> <<1, 1>>], pred |-> [c \in Coins |-> "null"]],
                           [i \in 1..Rounds |-> i])
CycleOf(e, pred) == CycleThrough(pred, FirstRepeated(pred, e.src, {e.dst}))
CycleAmong(still, t) ==
    IF still = <<>> THEN <<>> ELSE CycleOf(Head(still), [t.pred EXCEPT ![Head(still).dst] = Head(still).src])
CycleLeft(edges, t) == CycleAmong(SelectSeq(edges, LAMBDA e : Relaxes(e, t.dist)), t)
find_negative_cycle(edges) == CycleLeft(edges, Relaxed(edges))

MarketEdges == SelectSeq(book, LAMBDA e : e.kind # "recipe")
EdgeOn(edges, a, b) == edges[CHOOSE i \in 1..Len(edges) : edges[i].src = a /\ edges[i].dst = b]
LoopOf(edges, cyc) == [i \in 1..Len(cyc) |-> EdgeOn(edges, cyc[i], cyc[IF i = Len(cyc) THEN 1 ELSE i + 1])]

Overpay(e) == Prod(e.rate, <<Worth[e.dst], Worth[e.src]>>)
Worst(loop) == loop[CHOOSE i \in 1..Len(loop) : \A j \in 1..Len(loop) : ~Below(Overpay(loop[i]), Overpay(loop[j]))]

\* deep_loops: a loop, then again without its most over-paying edge.
RECURSIVE deep_loops(_, _)
RECURSIVE AndOthers(_, _, _)
Dropping(edges, dropped) == SelectSeq(edges, LAMBDA e : e # dropped)
Traced(edges, cyc) == IF cyc \in {<<>>, <<"broken">>} THEN cyc ELSE LoopOf(edges, cyc)
AndOthers(edges, loop, n) ==
    IF n = 0 \/ loop = <<>> THEN <<>>
    ELSE <<loop>> \o IF loop = <<"broken">> THEN <<>> ELSE deep_loops(Dropping(edges, Worst(loop)), n - 1)
deep_loops(edges, n) == AndOthers(edges, Traced(edges, find_negative_cycle(edges)), n)

-----------------------------------------------------------------------------
(* The loop search (routes.py _iter_candidates, _route_from). *)

\* A loop sized by what is held of its start, or nothing.
Filled(path, amount, sim) == [path |-> path, amount |-> amount, margin |-> sim.amt - amount, partial |-> sim.left]
RouteOf(path, amount) == IF amount < 1 THEN <<>> ELSE <<Filled(path, amount, simulate(path, amount))>>
RouteFrom(path) == RouteOf(path, Sized(path, <<Budget, 1>>))

Entered(loop, i) == SubSeq(loop, i, Len(loop)) \o SubSeq(loop, 1, i - 1)

\* The deep loops, entered at a held currency, less what was seen.
DeepAll(loops) ==
    FlattenSeq([k \in 1..Len(loops) |->
        SelectSeq([i \in 1..Len(loops[k]) |-> Entered(loops[k], i)], LAMBDA c : Start(c) \in ToSet(Held))])
DeepNew(seen, loops) ==
    FoldLeft(LAMBDA new, c : IF c \in seen \cup ToSet(new) THEN new ELSE Append(new, c), <<>>, DeepAll(loops))

Extended(dfs, deep) == dfs \o DeepNew(ToSet(dfs), deep)
Candidates(steps) == Extended(search_cycles(Held, steps), Dropping(deep_loops(MarketEdges, MaxLoops), <<"broken">>))
Routes(paths) == FlattenSeq([i \in 1..Len(paths) |-> RouteFrom(paths[i])])

FindRoutes(steps) ==
    /\ answer = <<>>
    /\ asked' = [what |-> "loops", steps |-> steps]
    /\ answer' = Routes(Candidates(steps))
    /\ UNCHANGED book

-----------------------------------------------------------------------------
(* Conversions (convert.py). *)

\* The gain of the recipes a path begins with is no mirage.
RECURSIVE LeadingGain(_)
LeadingGain(path) ==
    IF path = <<>> \/ Head(path).kind # "recipe" THEN <<1, 1>>
    ELSE Prod(Overpay(Head(path)), LeadingGain(Tail(path)))

\* _convert_path and _accepted: a whole unit comes out, and no phantom gain.
PathOffer(path, committed, want) ==
    LET out == simulate(path, committed).amt
    IN [path |-> path, committed |-> committed, out |-> out, net |-> out * Worth[want]]
OfferOn(path, amount, want) == PathOffer(path, Sized(path, <<amount, 1>>), want)
accepted(q) ==
    /\ q.committed >= 1 /\ q.out > 0
    /\ ~Below(Prod(LeadingGain(q.path), <<q.committed * Worth[Start(q.path)] * 51, 50>>), <<q.net, 1>>)
Converts(path, amount, want) == accepted(OfferOn(path, amount, want))

Best(quotes, amount) ==
    CHOOSE p \in quotes : \A q \in quotes :
        \/ p.committed >= amount /\ q.committed < amount
        \/ (p.committed >= amount) = (q.committed >= amount) /\ p.net >= q.net

\* _min_amount on one path: raised by doubling until it passes, bisected and
\* walked down in whole lots; nothing where the whole book buys nothing.
RECURSIVE Raised(_, _, _, _)
Raised(ok, top, lo, amt) ==
    IF amt \in ok THEN [lo |-> lo, amt |-> amt]
    ELSE IF amt = top THEN [lo |-> amt, amt |-> 0] ELSE Raised(ok, top, amt, IF 2 * amt < top THEN 2 * amt ELSE top)
RECURSIVE Bisected(_, _, _, _)
Bisected(ok, unit, lo, amt) ==
    LET mid == lo + ((amt - lo) \div (2 * unit)) * unit IN
    IF amt - lo <= unit \/ mid <= lo THEN amt
    ELSE IF mid \in ok THEN Bisected(ok, unit, lo, mid) ELSE Bisected(ok, unit, mid, amt)
RECURSIVE WalkedDown(_, _, _)
WalkedDown(ok, unit, amt) ==
    IF amt - unit < unit \/ amt - unit \notin ok THEN amt ELSE WalkedDown(ok, unit, amt - unit)

Guessed(unit, rate) == unit * ((rate[2] + rate[1] * unit - 1) \div (rate[1] * unit))
Pinned(ok, unit, at) == IF at.amt = 0 THEN 0 ELSE WalkedDown(ok, unit, Bisected(ok, unit, at.lo, at.amt))
LeastThat(ok, unit, top, guess) ==
    IF top < unit \/ top \notin ok THEN 0 ELSE Pinned(ok, unit, Raised(ok, top, 0, IF guess < top THEN guess ELSE top))
Searched(path, unit, top, want) ==
    LeastThat({a \in 1..top : Converts(path, a, want)}, unit, top,
              Guessed(unit, FoldLeft(LAMBDA x, e : Prod(x, e.rate), <<1, 1>>, path)))
MinimumIn(path, unit, want) == Searched(path, unit, InUnits(Coarse(route_cap(path, Endless)), unit), want)
Minimum(path, want) == MinimumIn(path, cycle_unit(path), want)

\* floor(inf) where a path is recipes only: the request fails.
Unbounded(path) == route_cap(path, Endless) = Endless

Conversions(paths, want, amount) ==
    LET quotes == {q \in {OfferOn(p, amount, want) : p \in paths} : accepted(q)} IN
    IF quotes # {} THEN [best |-> Best(quotes, amount).path]
    ELSE IF \E p \in paths : Unbounded(p) THEN [failed |-> TRUE]
    ELSE [minimum |-> LeastOf({Minimum(p, want) : p \in paths} \ {0}, 0)]
Convert(have, want, amount) ==
    /\ answer = <<>>
    /\ asked' = [what |-> "conversion", have |-> have, want |-> want, amount |-> amount]
    /\ answer' = Conversions(ToSet(iter_paths(have, want, MaxSteps)), want, amount)
    /\ UNCHANGED book

SearchInit == book \in Books /\ asked = <<>> /\ answer = <<>>

SearchNext ==
    \/ \E n \in 2..MaxSteps : FindRoutes(n)
    \/ \E h, w \in Coins, a \in Amounts : h # w /\ Convert(h, w, a)

-----------------------------------------------------------------------------
(* Properties. *)

Loops == asked # <<>> /\ asked.what = "loops"
Conversion == asked # <<>> /\ asked.what = "conversion"

\* More steps never lose a loop that fewer steps found, although the search
\* stops at a cap ("raising max_steps SHRANK the list", routes.py).
RaisingStepsLosesNothing ==
    Loops /\ asked.steps > 2 /\ Len(AllLoops(Held, asked.steps - 1)) <= MaxCandidates =>
        ToSet(search_cycles(Held, asked.steps - 1)) \subseteq ToSet(search_cycles(Held, asked.steps))

\* The deep scan finds a loop when there is one, and only loops that gain.
Gains(path) == LET x == FoldLeft(LAMBDA y, e : Prod(y, e.rate), <<1, 1>>, path) IN x[1] > x[2]
AllMarketLoops == UNION {{l \in ToSet(iter_cycles(c, Cardinality(Coins))) : ~UsesRecipe(l)} : c \in Coins}
DeepScanIsRight ==
    LET found == deep_loops(MarketEdges, MaxLoops) IN
    /\ \A i \in 1..Len(found) : found[i] \in AllMarketLoops /\ Gains(found[i])
    /\ found = <<>> => \A l \in AllMarketLoops : ~Gains(l)

\* "A named minimum always has a route": asked again with it, one is found.
MinimumHasARoute ==
    Conversion /\ "minimum" \in DOMAIN answer /\ answer.minimum > 0 =>
        \E p \in ToSet(iter_paths(asked.have, asked.want, MaxSteps)) : Converts(p, answer.minimum, asked.want)

\* A loop of markets is sized so that each step takes all the last one gave.
NothingStranded == Loops => \A i \in 1..Len(answer) : answer[i].partial => UsesRecipe(answer[i].path)

\* No loop is listed twice, whichever search found it and wherever it is entered.
ListedOnce == Loops => Cardinality(ToSet(answer)) = Len(answer)

\* The searches lose no loop they should find, list each once and none that does not
\* pay or strands something on the way, and a minimum they name buys (routes.py,
\* convert.py).
SearchIsRight == RaisingStepsLosesNothing /\ DeepScanIsRight /\ ListedOnce /\ NothingStranded /\ MinimumHasARoute

\* "The amount is always a multiple of this, so we never commit a partial lot."
NeverAPartialLot == Loops => \A i \in 1..Len(answer) : ~answer[i].partial

\* The view says "Minimum N" where the amount is too small: the request never fails.
SaysTheMinimum == Conversion => "failed" \notin DOMAIN answer
=============================================================================
