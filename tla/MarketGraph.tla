----------------------------- MODULE MarketGraph -----------------------------
(***************************************************************************)
(* What the market says things are worth (backend/app/digest.py rates,     *)
(* arbitrage/graph.py build, cull, recipes and the value table).  Hours    *)
(* traded become one rate a market, rates become edges, and the edges      *)
(* price every currency along a chain of markets from the reference.       *)
(* Numbers are exact fractions <<n, d>>; <<1, 0>> is infinity.             *)
(***************************************************************************)
EXTENDS Integers, Sequences, FiniteSets, SequencesExt

CONSTANTS Cur, Ref,
          Markets,       \* the markets that may trade, as pairs <<cur_a, cur_b>>
          Tapes,         \* what a market may have traded: [hours, stock_a, stock_b]
          Weight,        \* what an hour of the tape counts: a half-life passes between two
          Outside,       \* poe2scout's possible closes: functions from some of Cur
          Recipes,       \* recipes.edges(): [from, to, rate, lot]
          Wide,          \* wide_spread
          MinVolume,     \* min_edge_volume_ref_per_h
          Orders,        \* the orders the currencies may have in a dict
          OncePerPair    \* no two recipes convert the same pair

Pairs == {p \in Cur \X Cur : p[1] # p[2]}

ASSUME MarketAssumption ==
    /\ IsFiniteSet(Cur) /\ Ref \in Cur
    /\ Markets \subseteq Pairs /\ \A m \in Markets : <<m[2], m[1]>> \notin Markets
    /\ \A t \in Tapes : /\ t.hours \in Seq([a : Nat, b : Nat]) /\ {t.stock_a, t.stock_b} \subseteq Nat
                       /\ \A i \in DOMAIN t.hours : Weight[i] \in Nat \ {0}
    /\ \A r \in Recipes : <<r.from, r.to>> \in Pairs /\ r.rate \in Nat \X Nat
    /\ \A o \in Orders : /\ o \in Seq(Cur)
                        /\ \A i, j \in DOMAIN o : o[i] = o[j] => i = j

VARIABLES tape,      \* the digest: what each market traded, hour by hour
          scout,     \* poe2scout's closes in use
          edge,      \* Graph.edges
          busiest,   \* Graph.busiest
          order,     \* the order of that dict
          table,     \* Graph.values() and priced_by
          recipes,   \* the recipes not added yet
          graph      \* how far Graph.build is

marketVars == <<tape, scout, order, edge, busiest, table, recipes, graph>>

INF == <<1, 0>>
Zero == <<0, 1>>
One == <<1, 1>>
gcd[p \in Nat \X Nat] == IF p[2] = 0 THEN p[1] ELSE gcd[<<p[2], p[1] % p[2]>>]
CancelledBy(k, n, d) == IF k \in Nat \ {0} /\ n % k = 0 /\ d % k = 0 THEN <<n \div k, d \div k>> ELSE <<n, d>>
Frac(n, d) == IF n = 0 /\ d = 0 THEN Zero ELSE CancelledBy(gcd[<<n, d>>], n, d)
Times(x, y) == Frac(x[1] * y[1], x[2] * y[2])
Over(x) == <<x[2], x[1]>>
Plus(x, y) == Frac(x[1] * y[2] + y[1] * x[2], x[2] * y[2])
Smaller(x, y) == x[1] * y[2] < y[1] * x[2]
AtMost(x, y) == x[1] * y[2] <= y[1] * x[2]
Least(x, y) == IF Smaller(y, x) THEN y ELSE x
Most(x, y) == IF Smaller(x, y) THEN y ELSE x

NoEdge == [kind |-> "none"]

\* The dict d after d.update(f).
Put(d, f) == [x \in DOMAIN f \cup DOMAIN d |-> IF x \in DOMAIN f THEN f[x] ELSE d[x]]
Only(k, x) == [y \in {k} |-> x]

-----------------------------------------------------------------------------
(* A market's rate (digest.py). *)

\* The hours of a tape that traded on both sides, and what each paid, a per b.
Traded(t) == {i \in DOMAIN t.hours : t.hours[i].a > 0 /\ t.hours[i].b > 0}
Executed(t) == {<<t.hours[i].a, t.hours[i].b>> : i \in Traded(t)}

\* traded_bounds: the cheapest and the dearest hour.
Cheapest(t) == CHOOSE x \in Executed(t) : \A y \in Executed(t) : AtMost(x, y)
Dearest(t) == CHOOSE x \in Executed(t) : \A y \in Executed(t) : AtMost(y, x)

FoldRates(t) ==
    LET acc[n \in 0..Len(t.hours)] ==
            IF n = 0 THEN <<0, 0>>
            ELSE IF n \notin Traded(t) THEN acc[n - 1]
            ELSE <<acc[n - 1][1] + Weight[n] * t.hours[n].a, acc[n - 1][2] + Weight[n] * t.hours[n].b>>
    IN acc[Len(t.hours)]

Edge(rate, stock, vol, dead, quoted) ==
    [kind |-> "digest", rate |-> rate, stock |-> stock, vol |-> vol, dead |-> dead, quoted |-> quoted]

\* pair_volume
Volume(t, side) ==
    LET vols[n \in 0..Len(t.hours)] == IF n = 0 THEN 0 ELSE vols[n - 1] + t.hours[n][side]
    IN vols[Len(t.hours)]

\* _deep: a book stands on both sides.  Each covers an average hour (depth_hours),
\* and the thin one is a tenth of the deep one at least (depth_balance).
Deep(t, px) ==
    LET side == <<Times(<<t.stock_b, 1>>, px), <<t.stock_a, 1>>>>
    IN /\ Volume(t, "a") <= t.stock_a * Len(t.hours) /\ Volume(t, "b") <= t.stock_b * Len(t.hours)
       /\ AtMost(Most(side[1], side[2]), Times(<<10, 1>>, Least(side[1], side[2])))

\* A dead market's a per b: what b is bought at, and what it is sold at.
DeadPrices(lo, hi)        == [buy |-> hi, sell |-> lo]

\* directed_rates: the edge out of side x, if the other side is on offer.
Directed(t, out) ==
    LET px == FoldRates(t)
        dead == AtMost(Times(Wide, Cheapest(t)), Dearest(t)) /\ ~Deep(t, px)
        at == IF dead THEN DeadPrices(Cheapest(t), Dearest(t)) ELSE [buy |-> px, sell |-> px]
        rate == IF out = "a" THEN Over(at.buy) ELSE at.sell
        stock == IF out = "a" THEN t.stock_b ELSE t.stock_a
    IN IF Traded(t) = {} \/ stock = 0 THEN NoEdge
       ELSE Edge(rate, stock, Volume(t, out), dead, IF out = "a" THEN Over(px) ELSE px)

Offers(p) == IF p \in Markets THEN Directed(tape[p], "a")
             ELSE IF <<p[2], p[1]>> \in Markets THEN Directed(tape[<<p[2], p[1]>>], "b") ELSE NoEdge
LatestRates == [p \in {x \in Pairs : Offers(x) # NoEdge} |-> Offers(p)]

-----------------------------------------------------------------------------
(* Reading the graph: edge is a dict, as the value tables below are. *)

market_edge(g, a, b) ==
    IF <<a, b>> \notin DOMAIN g THEN NoEdge
    ELSE IF g[<<a, b>>].kind = "recipe" THEN g[<<a, b>>].market ELSE g[<<a, b>>]

HasMarket(g, a, b) == market_edge(g, a, b) # NoEdge
Touches(g, a, b) == HasMarket(g, a, b) \/ HasMarket(g, b, a)

MarketRate(g, a, b) ==
    IF HasMarket(g, a, b) THEN market_edge(g, a, b).rate ELSE Over(market_edge(g, b, a).rate)

Dead(g, u, v) == IF HasMarket(g, u, v) THEN market_edge(g, u, v).dead ELSE market_edge(g, v, u).dead

Sold(g, u, v) == IF HasMarket(g, u, v) THEN <<market_edge(g, u, v).vol, 1>> ELSE Zero

\* Units of u traded an hour: sold, and bought with v.  The ranking takes the
\* way back at its own rate, the walk at the inverse of the way there.
Units(g, u, v) == Plus(Sold(g, u, v), Times(Sold(g, v, u), MarketRate(g, v, u)))
Turnover(g, u, v) == Plus(Sold(g, u, v), Times(Sold(g, v, u), Over(MarketRate(g, u, v))))

\* counterparts_by_volume: THE volume rule.
Neighbours(g, c) == {o \in Cur : Touches(g, c, o) /\ Smaller(Zero, Units(g, c, o))}
Busiest(g) ==
    [c \in {x \in Cur : Neighbours(g, x) # {}} |->
        CHOOSE o \in Neighbours(g, c) : \A x \in Neighbours(g, c) : AtMost(Units(g, c, x), Units(g, c, o))]

\* ref_values: direct markets first, then hop by hop, the best rate at each level.
BestRate(g, a, b) ==
    Most(IF HasMarket(g, a, b) THEN market_edge(g, a, b).rate ELSE Zero,
         IF HasMarket(g, b, a) THEN Over(market_edge(g, b, a).rate) ELSE Zero)

Level(g, v) ==
    LET level == {c \in Cur \ DOMAIN v : \E d \in DOMAIN v : Touches(g, c, d)}
        best(c) == FoldLeft(LAMBDA x, d : Most(x, Times(BestRate(g, c, d), v[d])), Zero, SetToSeq(DOMAIN v))
    IN Put(v, [c \in level |-> best(c)])

ref_values(g) ==
    LET levels[n \in 0..Cardinality(Cur)] == IF n = 0 THEN Only(Ref, One) ELSE Level(g, levels[n - 1])
    IN Put(scout, levels[Cardinality(Cur)])

-----------------------------------------------------------------------------
(* The value table (Graph._widest_values). *)

\* Does poe2scout's close bear the market's claim out?  (OUTSIDE_DISAGREEMENT)
Believable(c, px) ==
    c \in DOMAIN scout => AtMost(Most(scout[c], px), Times(<<10, 1>>, Least(scout[c], px)))

HasLiveMarket(g, c) == \E n \in Cur : Touches(g, c, n) /\ ~Dead(g, c, n)

WidthOf(t, c) == IF c \in DOMAIN t.width THEN t.width[c] ELSE Zero
Widest(t, open) == CHOOSE u \in open : \A x \in open : AtMost(t.width[x], t.width[u])

\* relax, one currency off the heap at a time.  The first pass refuses a dead
\* market to a currency that has a live one; the pass through dead markets
\* leaves what has a price alone.
Popped(g, s, through) ==
    LET t == s.t
        open == DOMAIN t.val \ s.done
        u == Widest(t, open)
        px(v) == Times(MarketRate(g, v, u), t.val[u])
        cand(v) == Least(t.width[u], Times(Turnover(g, u, v), t.val[u]))
        better == {v \in Cur \ (s.done \cup {u} \cup (IF through THEN DOMAIN t.val ELSE {})) :
                      /\ Touches(g, u, v) /\ (through \/ ~Dead(g, u, v) \/ ~HasLiveMarket(g, v))
                      /\ Believable(v, px(v)) /\ Smaller(WidthOf(t, v), cand(v))}
    IN IF open = {} THEN s
       ELSE [t |-> [val   |-> Put(t.val, [v \in better |-> px(v)]),
                    by    |-> Put(t.by, [v \in better |-> u]),
                    width |-> Put(t.width, [v \in better |-> cand(v)])],
             done |-> s.done \cup {u}]

Relax(g, t, through) ==
    LET heap[n \in 0..Cardinality(Cur)] ==
            IF n = 0 THEN [t |-> t, done |-> {}] ELSE Popped(g, heap[n - 1], through)
    IN heap[Cardinality(Cur)].t

Walked(g) ==
    Relax(g, Relax(g, [val |-> Only(Ref, One), by |-> <<>>, width |-> Only(Ref, INF)], FALSE), TRUE)

\* The volume rule's last word on c: what its busiest market says, if that
\* counterpart sits closer to the reference.
CloserAlways(t, b, c) == TRUE                                             \* mutant
Closer(t, b, c)       == Smaller(WidthOf(t, c), WidthOf(t, b))
Mutual(t, b, c) == busiest[b] = c /\ c \in DOMAIN t.val

LastWord(g, t, c) ==
    LET b == busiest[c] IN
    IF c = Ref \/ c \notin DOMAIN busiest THEN t
    ELSE IF b \notin DOMAIN t.val \/ ~Closer(t, b, c) \/ Mutual(t, b, c) THEN t
    ELSE [val   |-> Put(t.val, Only(c, Times(MarketRate(g, c, b), t.val[b]))),
          by    |-> Put(t.by, Only(c, b)),
          width |-> Put(t.width, Only(c, Least(t.width[b], Times(Turnover(g, b, c), t.val[b]))))]

LastWords(g) ==
    LET said[n \in 0..Len(order)] == IF n = 0 THEN Walked(g) ELSE LastWord(g, said[n - 1], order[n])
    IN said[Len(order)]

_widest_values(g) ==
    LET t == LastWords(g)
    IN [val |-> Put(Put(ref_values(g), scout), t.val), by |-> t.by]

-----------------------------------------------------------------------------
(* Building (Graph.build), and the recipes afterwards. *)

Rate ==
    /\ graph = "none" /\ graph' = "rated" /\ edge' = LatestRates
    /\ UNCHANGED <<tape, scout, order, busiest, table, recipes>>

Cull ==
    /\ graph = "rated" /\ graph' = "culled"
    /\ LET rv == ref_values(edge)
           worth(p) == IF p[1] \in DOMAIN rv THEN Times(<<edge[p].vol, 1>>, rv[p[1]]) ELSE Zero
           kept == {p \in DOMAIN edge : AtMost(MinVolume, worth(p))}
       IN edge' = [p \in kept |-> edge[p]]
    /\ UNCHANGED <<tape, scout, order, busiest, table, recipes>>

\* quote_busiest_markets: a dead edge there takes the window rate.
Quoted(p, b) == (p[1] \in DOMAIN b /\ b[p[1]] = p[2]) \/ (p[2] \in DOMAIN b /\ b[p[2]] = p[1])
Quote ==
    /\ graph = "culled" /\ graph' = "quoted"
    /\ busiest' = Busiest(edge)
    /\ edge' = [p \in DOMAIN edge |->
                   IF edge[p].dead /\ Quoted(p, busiest') THEN [edge[p] EXCEPT !.rate = edge[p].quoted, !.dead = FALSE]
                   ELSE edge[p]]
    /\ UNCHANGED <<tape, scout, order, table, recipes>>

\* values(), worked out when first asked for.
Price ==
    /\ graph = "quoted" /\ graph' = "priced" /\ table' = _widest_values(edge)
    /\ UNCHANGED <<tape, scout, order, edge, busiest, recipes>>

\* add_recipe: unless the pair's edge already beats it; the edge rides along.
AddRecipe(r) ==
    /\ graph = "priced" /\ r \in recipes
    /\ recipes' = IF OncePerPair THEN {x \in recipes : <<x.from, x.to>> # <<r.from, r.to>>} ELSE recipes \ {r}
    /\ LET p == <<r.from, r.to>>
           market == IF p \in DOMAIN edge THEN edge[p] ELSE NoEdge
           g == IF market # NoEdge /\ AtMost(r.rate, market.rate) THEN edge
                ELSE Put(edge, Only(p, [kind |-> "recipe", rate |-> r.rate, lot |-> r.lot, vol |-> 0, dead |-> FALSE,
                                   market |-> market]))
       IN edge' = g /\ table' = _widest_values(g)
    /\ UNCHANGED <<tape, scout, order, busiest, graph>>

MarketInit ==
    /\ tape \in [Markets -> Tapes] /\ scout \in Outside /\ order \in Orders
    /\ edge = <<>> /\ busiest = <<>> /\ table = [val |-> <<>>, by |-> <<>>]
    /\ recipes = Recipes /\ graph = "none"

MarketNext == Rate \/ Cull \/ Quote \/ Price \/ \E r \in Recipes : AddRecipe(r)
MarketSpec == MarketInit /\ [][MarketNext]_marketVars

-----------------------------------------------------------------------------
(* Properties. *)

\* The board's line walks priced_by to the reference: it always gets there, no
\* currencies price one another in a circle, although the volume rule re-parents
\* them in the order of a dict.
PricingChainsEnd ==
    /\ \A c \in DOMAIN table.by : table.by[c] \in DOMAIN table.by \cup {Ref}
    /\ \A S \in SUBSET DOMAIN table.by : S # {} => \E c \in S : table.by[c] \notin S

\* No market trades against itself at a gain, quoted or dead (directed_rates).
NoFreeTwoHopLoop ==
    \A p \in Pairs :
        LET there == market_edge(edge, p[1], p[2])  back == market_edge(edge, p[2], p[1])
        IN there # NoEdge /\ back # NoEdge => AtMost(Times(there.rate, back.rate), One)

\* "We cannot print a price nobody paid": every edge lies within its hours.
NobodyPaidLess ==
    \A m \in Markets \cap DOMAIN edge : LET e == edge[m]  t == tape[m] IN
        e.kind = "digest" => AtMost(Cheapest(t), Over(e.rate)) /\ AtMost(Over(e.rate), Dearest(t))

\* The graph's prices can be relied on: each rests on a line of markets to the
\* reference, none was never paid, none is free money (digest.py, graph.py).
PricesHold == PricingChainsEnd /\ NobodyPaidLess /\ NoFreeTwoHopLoop

=============================================================================
