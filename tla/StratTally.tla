----------------------------- MODULE StratTally -----------------------------
(* What one strat's session costs and earned: maps, tablet lines and rows,  *)
(* priced by what was typed, by what a search found, or by the market; and  *)
(* the override, one total instead of the maps' and the tablets'.           *)
EXTENDS Integers, FiniteSets, FiniteSetsExt

CONSTANTS Lids,           \* tablet lines that may be added
          TabletTypes,          \* kind of tablet -> its full uses, 0 when unknown
          MAX_TABLETS,
          MarketPrices,   \* prices of the other currency, 0 when it has none
          MaxTallyEdits   \* bound: edits

\* Amounts are counted exactly in what One divides into: no price of a market loses a remainder.
ASSUME TallyAssumption ==
    /\ IsFiniteSet(Lids) /\ "maps" \notin Lids
    /\ "none" \notin DOMAIN TabletTypes /\ \A k \in DOMAIN TabletTypes : TabletTypes[k] \in Nat
    /\ MAX_TABLETS \in Nat /\ MarketPrices \subseteq {0, 1, 2, 4, 8, 16}
    /\ MaxTallyEdits \in Nat

VARIABLES
    maps,      \* count, price, cur, link
    lines,     \* line -> kind, slots, price, cur, link; NoLine when there is none
    override,  \* on, amount, cur
    drops,     \* loot and fixed: one row each
    market,    \* currency -> its price
    lastCur, tallyEdits

tallyVars == <<maps, lines, override, drops, market, lastCur, tallyEdits>>

\* Prices are in quarters of a divine, amounts of a currency in sixteenths.
One == 16
Typed == {0, One}
Unset == -1        \* null
CostCurs == {"divine", "chaos"}
NoLink == [on |-> FALSE, div |-> Unset]
NoLine == [kind |-> "none", slots |-> 0, price |-> 0, cur |-> "divine", link |-> NoLink]
There(l) == lines[l].kind # "none"

amountWorth(n, cur) == IF n = 0 THEN 0 ELSE IF market[cur] > 0 THEN (n * market[cur]) \div One ELSE Unset
usesOf(l) == IF l.kind = "none" THEN 0 ELSE TabletTypes[l.kind]
\* Typed, else what the linked search found.
unitDiv(x) == IF x.price # Unset THEN amountWorth(x.price, x.cur) ELSE x.link.div
rowValue(r) ==
    LET px == IF r.price # Unset THEN (r.price * 4) \div One
              ELSE IF r.floor # Unset THEN r.floor
              ELSE IF market[r.cur] > 0 THEN market[r.cur] ELSE Unset
    IN  IF r.qty = 0 THEN 0 ELSE IF px = Unset THEN Unset ELSE r.qty * px
Counted(v) == IF v = Unset THEN 0 ELSE v

\* A map wears a tablet by one use: each line's share of its uses is paid.
mapsCost == IF maps.count = 0 THEN 0 ELSE IF unitDiv(maps) = Unset THEN Unset ELSE maps.count * unitDiv(maps)
lineCost(l) ==
    IF usesOf(l) = 0 \/ unitDiv(l) = Unset THEN 0 ELSE (maps.count * l.slots * unitDiv(l)) \div usesOf(l)
Summed(f) == MapThenSumSet(LAMBDA l : f[l], Lids)
itemised == Counted(mapsCost) + Summed([l \in Lids |-> lineCost(lines[l])])
overrideCost == Counted(amountWorth(override.amount, override.cur))
tallyNet == Counted(rowValue(drops.loot)) - Counted(rowValue(drops.fixed)) - (IF override.on THEN overrideCost ELSE itemised)

TallyInit ==
    /\ maps = [count |-> 0, price |-> 0, cur |-> "divine", link |-> NoLink]
    /\ lines = [l \in Lids |-> NoLine]
    /\ override = [on |-> FALSE, amount |-> 0, cur |-> "divine"]
    /\ drops = [loot |-> [cur |-> "chaos", qty |-> 0, price |-> Unset, floor |-> Unset],
                fixed |-> [cur |-> "unique", qty |-> 0, price |-> Unset, floor |-> Unset]]
    /\ market \in [CostCurs \cup {"unique"} -> MarketPrices \cup {4}]
    /\ market.divine = 4 /\ market.unique = 0
    /\ lastCur = "divine" /\ tallyEdits = 0

Edited == tallyEdits < MaxTallyEdits /\ tallyEdits' = tallyEdits + 1

\* The itemised costs are not on the screen while the override is on.
Listed == Edited /\ ~override.on

SetCount(n) == Edited /\ maps' = [maps EXCEPT !.count = n] /\ UNCHANGED <<lines, override, drops, market, lastCur>>
\* One more by the button or the key, and one back.
addMaps(k) == Edited /\ maps.count + k \in 0..2 /\ maps' = [maps EXCEPT !.count = @ + k] /\ UNCHANGED <<lines, override, drops, market, lastCur>>

\* +1 once, and again while it is held.
startHold == addMaps(1)

tabletSlots == Summed([l \in Lids |-> lines[l].slots])
fit(l, n) == LET most == MAX_TABLETS - tabletSlots + lines[l].slots
             IN  IF n > most THEN most ELSE n
addTablet(l, kind) ==
    /\ Listed /\ ~There(l) /\ tabletSlots < MAX_TABLETS
    /\ lines' = [lines EXCEPT ![l] = [NoLine EXCEPT !.kind = kind, !.slots = 1, !.cur = lastCur]]
    /\ UNCHANGED <<maps, override, drops, market, lastCur>>
removeTablet(l) == Listed /\ There(l) /\ lines' = [lines EXCEPT ![l] = NoLine] /\ UNCHANGED <<maps, override, drops, market, lastCur>>
SetSlots(l, n) == Listed /\ There(l) /\ lines' = [lines EXCEPT ![l].slots = fit(l, n)] /\ UNCHANGED <<maps, override, drops, market, lastCur>>

\* The edits a map's price and a tablet line have in common: x becomes y.
Becomes(y, new) ==
    IF y = "maps" THEN maps' = new /\ UNCHANGED lines
    ELSE lines' = [lines EXCEPT ![y] = new] /\ UNCHANGED maps
Priced == {"maps"} \cup {l \in Lids : There(l)}
The(y) == IF y = "maps" THEN maps ELSE lines[y]
Types(y, p) == Listed /\ Becomes(y, [The(y) EXCEPT !.price = p]) /\ UNCHANGED <<override, drops, market, lastCur>>
Blanks(y) == Listed /\ The(y).link.on /\ Becomes(y, [The(y) EXCEPT !.price = Unset]) /\ UNCHANGED <<override, drops, market, lastCur>>
setCostCur(y, c) == Listed /\ Becomes(y, [The(y) EXCEPT !.cur = c]) /\ lastCur' = c /\ UNCHANGED <<override, drops, market>>
linked(y) ==
    /\ Listed /\ Becomes(y, [The(y) EXCEPT !.price = Unset, !.link = [on |-> TRUE, div |-> Unset]])
    /\ UNCHANGED <<override, drops, market, lastCur>>
\* The found price becomes a typed one, in the line's currency if it has a price.
unlinkedInDivines(x) == [x EXCEPT !.price = (Counted(x.link.div) * One) \div 4]
unlinked(x) ==
    IF market[x.cur] > 0 THEN [x EXCEPT !.price = (Counted(x.link.div) * One) \div market[x.cur]]
    ELSE [x EXCEPT !.price = (Counted(x.link.div) * One) \div 4, !.cur = "divine"]
Unlink(y) ==
    /\ Listed /\ The(y).link.on
    /\ LET x == IF The(y).price = Unset THEN unlinked(The(y)) ELSE The(y)
       IN  Becomes(y, [x EXCEPT !.link = NoLink])
    /\ UNCHANGED <<override, drops, market, lastCur>>
\* An average lands: the line follows the search's currency the first time.
found(x, div, cur) ==
    [x EXCEPT !.cur = IF x.price = Unset /\ x.link.div = Unset THEN cur ELSE @, !.link.div = div]
recordLinkPrice(y, div, cur) ==
    /\ The(y).link.on /\ Becomes(y, found(The(y), div, cur))
    /\ UNCHANGED <<override, drops, market, lastCur, tallyEdits>>

overrideOn ==
    /\ Edited /\ ~override.on
    /\ override' = [override EXCEPT !.on = TRUE,
        !.amount = IF @ > 0 THEN @ ELSE IF market[override.cur] > 0 THEN (itemised * One) \div market[override.cur] ELSE 0]
    /\ UNCHANGED <<maps, lines, drops, market, lastCur>>
OverrideGoesOff == Edited /\ override.on /\ override' = [override EXCEPT !.on = FALSE] /\ UNCHANGED <<maps, lines, drops, market, lastCur>>
SetTotal(n) == Edited /\ override.on /\ override' = [override EXCEPT !.amount = n] /\ UNCHANGED <<maps, lines, drops, market, lastCur>>
TotalIn(c) == Edited /\ override.on /\ override' = [override EXCEPT !.cur = c] /\ lastCur' = c /\ UNCHANGED <<maps, lines, drops, market>>

\* The rows: a count, one more, and a price each - 0 goes back to the market's.
SetQty(r, n) == Edited /\ drops' = [drops EXCEPT ![r].qty = n] /\ UNCHANGED <<maps, lines, override, market, lastCur>>
setPrice(r, p) == Edited /\ drops' = [drops EXCEPT ![r].price = IF p > 0 THEN p ELSE Unset] /\ UNCHANGED <<maps, lines, override, market, lastCur>>
recordFloor(div) == drops' = [drops EXCEPT !.fixed.floor = div] /\ UNCHANGED <<maps, lines, override, market, lastCur, tallyEdits>>
PricesPolled(p) ==
    /\ Edited /\ market' = [market EXCEPT !.chaos = p]
    /\ UNCHANGED <<maps, lines, override, drops, lastCur>>

TallyNext ==
    \/ overrideOn \/ OverrideGoesOff
    \/ \E n \in 0..2 : SetCount(n)
    \/ startHold \/ addMaps(-1)
    \/ \E l \in Lids : \/ removeTablet(l)
                       \/ \E kind \in DOMAIN TabletTypes : addTablet(l, kind)
                       \/ \E n \in 1..MAX_TABLETS : SetSlots(l, n)
    \/ \E y \in Priced : \/ Blanks(y) \/ linked(y) \/ Unlink(y)
                         \/ \E p \in Typed : Types(y, p)
                         \/ \E c \in CostCurs : setCostCur(y, c) \/ recordLinkPrice(y, 4, c)
    \/ \E n \in Typed : SetTotal(n)
    \/ \E c \in CostCurs : TotalIn(c)
    \/ \E r \in {"loot", "fixed"} : \/ \E n \in 0..1 : SetQty(r, n)
                                    \/ \E p \in Typed : setPrice(r, p)
    \/ recordFloor(4)
    \/ \E p \in MarketPrices : PricesPolled(p)
TallySpec == TallyInit /\ [][TallyNext]_tallyVars

-----------------------------------------------------------------------------
SlotsFit == tabletSlots <= MAX_TABLETS /\ \A l \in Lids : There(l) => lines[l].slots \in 1..MAX_TABLETS

\* Switching the override on from nothing typed keeps the total.
StartsFromTheTotal == ~override.on /\ override'.on /\ override.amount = 0 /\ market[override.cur] > 0 => tallyNet' = tallyNet
\* Unlinked, what had been found goes on counting.
KeepsThePrice == \A y \in Priced : The(y).link.div # Unset /\ ~The(y)'.link.on /\ (y # "maps" => There(y)') => unitDiv(The(y))' = unitDiv(The(y))
\* What a search finds is never over a typed price.
TypedWins == tallyEdits' = tallyEdits => \A y \in Priced : The(y).price # Unset => unitDiv(The(y))' = unitDiv(The(y))

(* The total does not jump by itself: not as the override is switched on,   *)
(* not as a search is unlinked, not as a price is found for what has a typed *)
(* one; and the tablets fit a map (stratcalc.js:345-346, :431-432, :311).   *)
TotalIsKept == [][StartsFromTheTotal /\ KeepsThePrice /\ TypedWins /\ SlotsFit']_tallyVars
=============================================================================
