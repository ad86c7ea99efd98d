---------------------------- MODULE SearchString ----------------------------
(* The Regex page: what the user asks of a waystone or a tablet, the string *)
(* the game's search box is given for it (lib/regex) and the query the      *)
(* trade site is given for the same selection.  A number is asked for with  *)
(* patterns of digits, as the box knows no comparison; a pattern is here a  *)
(* sequence of sets of digits, in base Base instead of ten, and the text    *)
(* around it only says on which sides the number must end.                  *)
EXTENDS Integers, Sequences, FiniteSets

CONSTANTS Base,        \* ten in the code
          TierMax,     \* sixteen: a number of two digits
          ReviveMax,   \* six: a number of one digit
          UseMax,      \* eighteen
          MaxAsks      \* bound: changes made on the page

ASSUME AskAssumption ==
    /\ Base \in Nat /\ Base > 2 /\ TierMax \in Base .. Base * Base - 1 /\ ReviveMax \in 1 .. Base - 1
    /\ UseMax \in Base .. 2 * Base - 2 /\ MaxAsks \in Nat

VARIABLES ask,        \* the selection shown
          other,      \* the selection of the other kind
          asks        \* changes made so far
askVars == <<ask, other, asks>>

PRICE_MAX == Base * Base * Base - 1
Rarities  == {"normal", "magic", "rare"}
Kinds     == {"ritual", "breach", "abyss"}
\* Modifiers: "res" has a roll, "fixed" has none, "untraded" is not on the trade site.
Mods      == {"res", "fixed", "untraded"}
HasRoll   == {"res", "untraded"}
Traded    == {"res", "fixed"}

----------------------------------------------------------------------------
(* Patterns of digits. *)

\* A number as it is printed; none the page knows is wider.
DigitsOf(n) ==
    LET tens == n \div Base
    IN  IF n < Base THEN <<n>>
        ELSE IF tens < Base THEN <<tens, n % Base>> ELSE <<tens \div Base, tens % Base, n % Base>>
floor10(n)  == (n \div Base) * Base
AnyDigit    == 0 .. Base - 1
Nines(k)    == [i \in 1 .. k |-> Base - 1]
Zeros(k)    == [i \in 1 .. k |-> 0]
Only(ds)    == [i \in DOMAIN ds |-> {ds[i]}]
AnyTimes(k) == [i \in 1 .. k |-> AnyDigit]
Under(first, parts) == {<<first>> \o p : p \in parts}

\* The head that does not start its run, the whole runs, the tail that does not end its run;
\* within, heads and tails spell what follows the first digit.
Spelled(from, to, within, heads, tails) ==
    LET head == \E i \in 2 .. Len(from) : from[i] # 0
        tail == \E i \in 2 .. Len(to) : to[i] # Base - 1
        run  == from[1] + (IF head THEN 1 ELSE 0) .. to[1] - (IF tail THEN 1 ELSE 0)
    IN  IF from[1] = to[1] THEN Under({from[1]}, within)
        ELSE (IF head THEN Under({from[1]}, heads) ELSE {})
             \cup (IF run # {} THEN {<<run>> \o AnyTimes(Len(from) - 1)} ELSE {})
             \cup (IF tail THEN Under({to[1]}, tails) ELSE {})

\* The numbers from .. to, both written with as many digits.
Spans == UNION {[1 .. w -> AnyDigit] \X [1 .. w -> AnyDigit] : w \in 1 .. 3}
span[s \in Spans] ==
    LET f == Tail(s[1])
        t == Tail(s[2])
    IN  IF s[1] = s[2] THEN {Only(s[1])}
        ELSE Spelled(s[1], s[2], span[<<f, t>>], span[<<f, Nines(Len(f))>>], span[<<Zeros(Len(t)), t>>])
minOwnWidth(value, round10) ==                                            \* mutant
    LET s == DigitsOf(IF round10 THEN floor10(value) ELSE value)
    IN  IF s = <<0>> THEN {} ELSE span[<<s, Nines(Len(s))>>]
\* At least n: the numbers as wide as n, and every wider one.
minRegex(value, round10) ==
    LET n == IF round10 THEN floor10(value) ELSE value
        s == DigitsOf(n)
    IN  IF n = 0 THEN {}
        ELSE span[<<s, Nines(Len(s))>>] \cup {AnyTimes(w) : w \in Len(s) + 1 .. 3}
Least(w)   == IF w = 1 THEN 0 ELSE IF w = 2 THEN Base ELSE Base * Base
Most(w)    == IF w = 1 THEN Base - 1 ELSE IF w = 2 THEN Base * Base - 1 ELSE PRICE_MAX
Larger(a, b)  == IF a > b THEN a ELSE b
Smaller(a, b) == IF a < b THEN a ELSE b
OfWidth(lo, hi, w) ==
    LET a == Larger(lo, Least(w))
        b == Smaller(hi, Most(w))
    IN  IF a <= b THEN span[<<DigitsOf(a), DigitsOf(b)>>] ELSE {}

rangeRegex(lo, hi)     == OfWidth(lo, hi, 1) \cup OfWidth(lo, hi, 2)
priceRange(lo, hi)     == UNION {OfWidth(lo, hi, w) : w \in 1 .. 3}
normalizePrice(lo, hi) == [min |-> Smaller(lo, hi), max |-> Larger(lo, hi)]

\* The patterns read a printed number: whole, or the end of it where nothing stands before.
Fits(p, ds)        == Len(p) = Len(ds) /\ \A i \in DOMAIN p : ds[i] \in p[i]
Reads(parts, n)    == parts = {} \/ \E p \in parts : Fits(p, DigitsOf(n))
ReadsEnd(parts, n) ==
    LET ds == DigitsOf(n)
    IN  parts = {} \/ \E p \in parts : Len(p) <= Len(ds) /\ Fits(p, SubSeq(ds, Len(ds) - Len(p) + 1, Len(ds)))

----------------------------------------------------------------------------
(* The terms of the string: what each asks of an item.  No pattern, no term. *)

rarityTerm(picked, r)  == picked \in {{}, Rarities} \/ r \in picked
Whole(lo, hi, least, most) == lo <= least /\ hi >= most
tierTerm(t)    == IF Whole(t.min, t.max, 1, TierMax) THEN {} ELSE rangeRegex(t.min, t.max)
revivesTerm(t) == IF Whole(t.min, t.max, 0, ReviveMax) THEN {} ELSE rangeRegex(t.min, t.max)
usesTerm(u)    == IF u = 0 THEN {} ELSE rangeRegex(u, UseMax)
stateTerm(s, of)  ==
    /\ "delirious" \in s => "delirious" \in of
    /\ "corrupted" \in s /\ "uncorrupted" \notin s => "corrupted" \in of
    /\ "uncorrupted" \in s /\ "corrupted" \notin s => "corrupted" \notin of
kindTerm(picked, k) == picked \in {{}, Kinds} \/ k \in picked

\* A wanted modifier: its token, and its least roll where it has one.  `rolled` maps the
\* modifiers of the item to their rolls.
selectedMod(m, least, round10, rolled) ==
    /\ m \in DOMAIN rolled
    /\ m \in HasRoll => ReadsEnd(minRegex(least, round10), rolled[m])
wantedTerms(a, rolled) ==
    LET has(m) == selectedMod(m, a.want[m], a.round10, rolled)
    IN  IF a.wantMode = "all" THEN \A m \in DOMAIN a.want : has(m)
        ELSE a.want = <<>> \/ \E m \in DOMAIN a.want : has(m)
avoidTerm(a, rolled) == a.avoid \cap DOMAIN rolled = {}

----------------------------------------------------------------------------
(* The query for the trade site. *)

filtered(m, least, rolled) == m \in DOMAIN rolled /\ (m \in HasRoll => rolled[m] >= least)
wantGroups(a, rolled) ==
    LET picked == DOMAIN a.want \cap Traded
    IN  IF a.wantMode = "all" THEN \A m \in picked : filtered(m, a.want[m], rolled)
        ELSE picked = {} \/ \E m \in picked : filtered(m, a.want[m], rolled)
avoidGroup(a, rolled)  == a.avoid \cap Traded \cap DOMAIN rolled = {}
rarityFilter(picked, r) == Cardinality(picked) = 1 => r \in picked
tierFilter(t, n) == (t.min > 1 => n >= t.min) /\ (t.max > 0 /\ t.max < TierMax => n <= t.max)
stateFilter(s, of) ==
    /\ "delirious" \in s => "delirious" \in of
    /\ "corrupted" \in s /\ "uncorrupted" \notin s => "corrupted" \in of
    /\ "uncorrupted" \in s /\ "corrupted" \notin s => "corrupted" \notin of
yieldFilter(least, n) == least > 0 => n >= least
kindFilter(picked, k) == Cardinality(picked) = 1 => k \in picked

----------------------------------------------------------------------------
(* The page. *)

Defaults ==
    [kind |-> "waystone", rarity |-> {}, tier |-> [min |-> 1, max |-> TierMax],
     revives |-> [min |-> 0, max |-> ReviveMax], state |-> {}, packSize |-> 0, round10 |-> FALSE,
     wantMode |-> "any", want |-> <<>>, avoid |-> {}, type |-> {}, uses |-> 0,
     price |-> [min |-> 0, max |-> PRICE_MAX]]

\* The page opens on the selection saved last: bare, or with modifiers in it (and then the
\* bound leaves one change).
Saved ==
    {[Defaults EXCEPT !.want = w, !.avoid = v, !.wantMode = how] :
        w \in UNION {[S -> {0, Base + 1}] : S \in SUBSET Mods}, v \in SUBSET Mods,
        how \in {"any", "all"}}
AskInit ==
    /\ ask \in {s \in Saved : s.avoid \cap DOMAIN s.want = {} /\ \A m \in DOMAIN s.want \ HasRoll : s.want[m] = 0}
    /\ other = [Defaults EXCEPT !.kind = "tablet"]
    /\ asks = IF ask = Defaults THEN 0 ELSE MaxAsks - 1

Asks     == asks < MaxAsks /\ asks' = asks + 1
patch(a) == Asks /\ ask' = a /\ UNCHANGED other

\* The moved end of a range takes the other end along.
dragged(r, side, v) ==
    IF side = "min" THEN [min |-> v, max |-> Larger(r.max, v)]
    ELSE [min |-> Smaller(r.min, v), max |-> v]
Flip(set, x) == IF x \in set THEN set \ {x} ELSE set \cup {x}
NotWanted(want, m) == [x \in DOMAIN want \ {m} |-> want[x]]
AlsoWanted(want, m)    == [x \in DOMAIN want \cup {m} |-> IF x \in DOMAIN want THEN want[x] ELSE 0]

Waystones == ask.kind = "waystone"
SetTier(side, v)    == Waystones /\ patch([ask EXCEPT !.tier = dragged(@, side, v)])
SetRevives(side, v) == Waystones /\ patch([ask EXCEPT !.revives = dragged(@, side, v)])
SetPrice(side, v)   == patch([ask EXCEPT !.price = dragged(@, side, v)])
SetYield(v)         == Waystones /\ patch([ask EXCEPT !.packSize = v])
SetUses(v)          == ~Waystones /\ patch([ask EXCEPT !.uses = v])
ToggleRarity(r)     == patch([ask EXCEPT !.rarity = Flip(@, r)])
ToggleState(s)      == Waystones /\ patch([ask EXCEPT !.state = Flip(@, s)])
ToggleType(k)       == ~Waystones /\ patch([ask EXCEPT !.type = Flip(@, k)])
ToggleRound         == patch([ask EXCEPT !.round10 = ~@])
SetMode(w)          == patch([ask EXCEPT !.wantMode = w])
\* What the other list has picked is not offered.
ToggleWant(m) ==
    /\ m \notin ask.avoid
    /\ patch([ask EXCEPT !.want = IF m \in DOMAIN @ THEN NotWanted(@, m) ELSE AlsoWanted(@, m)])
SetMin(m, v) == m \in DOMAIN ask.want \cap HasRoll /\ patch([ask EXCEPT !.want = [@ EXCEPT ![m] = v]])
ToggleAvoid(m) == Waystones /\ m \notin DOMAIN ask.want /\ patch([ask EXCEPT !.avoid = Flip(@, m)])
\* Each kind keeps a selection of its own.
SetKind == Asks /\ ask' = other /\ other' = ask
Reset   == patch([Defaults EXCEPT !.kind = ask.kind])

AskNext ==
    \/ \E side \in {"min", "max"} :
         \/ \E v \in 1 .. TierMax : SetTier(side, v)
         \/ \E v \in 0 .. ReviveMax : SetRevives(side, v)
         \/ \E v \in 0 .. PRICE_MAX : SetPrice(side, v)
    \/ \E v \in 0 .. PRICE_MAX : SetYield(v)
    \/ \E v \in 0 .. UseMax : SetUses(v)
    \/ \E r \in Rarities : ToggleRarity(r)
    \/ \E s \in {"corrupted", "uncorrupted", "delirious"} : ToggleState(s)
    \/ \E k \in Kinds : ToggleType(k)
    \/ ToggleRound
    \/ \E w \in {"any", "all"} : SetMode(w)
    \/ \E m \in Mods : ToggleWant(m) \/ ToggleAvoid(m)
    \/ \E m \in Mods, v \in 0 .. 2 * Base : SetMin(m, v)
    \/ SetKind \/ Reset

AskSpec == AskInit /\ [][AskNext]_askVars

----------------------------------------------------------------------------
(* Properties. *)

(* The patterns say what was typed: a yield or a number of uses is shown    *)
(* from the one asked for on (from its ten, when rounding), a tier, a       *)
(* number of revives and the whole part of a price inside their range and   *)
(* nowhere else, and a longer number is never taken for its end.            *)
NumbersReadTrue ==
    LET least  == IF ask.round10 THEN floor10(ask.packSize) ELSE ask.packSize
        yield  == minRegex(ask.packSize, ask.round10)
        ends   == normalizePrice(ask.price.min, ask.price.max)
        price  == priceRange(ends.min, ends.max)
        tier   == tierTerm(ask.tier)
        revive == revivesTerm(ask.revives)
        uses   == usesTerm(ask.uses)
    IN  /\ \A n \in 0 .. PRICE_MAX : (ReadsEnd(yield, n) <=> n >= least)
                                     /\ (Reads(price, n) <=> n \in ask.price.min .. ask.price.max)
        /\ \A n \in 1 .. TierMax : Reads(tier, n) <=> n \in ask.tier.min .. ask.tier.max
        /\ \A n \in 0 .. ReviveMax : ReadsEnd(revive, n) <=> n \in ask.revives.min .. ask.revives.max
        /\ \A n \in 1 .. UseMax : ReadsEnd(uses, n) <=> n >= ask.uses

(* "The same selection as a trade query": what the string would light up in *)
(* the stash, the trade search also lists, so that going from one to the    *)
(* other loses no item.  Not asked of a rounded string, which is wider by   *)
(* intent, nor of a tablet's uses, which the trade search always wants      *)
(* full, nor where any one modifier will do and one picked is not on the    *)
(* trade site.                                                              *)
Rolled == {[x \in S |-> IF x \in HasRoll THEN v ELSE 0] : S \in SUBSET Mods, v \in {0, Base - 1, Base + 1, 2 * Base}}
TradeListsWhatShows ==
    LET tier  == tierTerm(ask.tier)
        yield == minRegex(ask.packSize, FALSE)
    IN  /\ \A r \in Rarities : rarityTerm(ask.rarity, r) => rarityFilter(ask.rarity, r)
        /\ \A k \in Kinds : kindTerm(ask.type, k) => kindFilter(ask.type, k)
        /\ \A n \in 1 .. TierMax : Reads(tier, n) => tierFilter(ask.tier, n)
        /\ \A of \in SUBSET {"corrupted", "delirious"} : stateTerm(ask.state, of) => stateFilter(ask.state, of)
        /\ ~ask.round10 => \A n \in 0 .. PRICE_MAX : ReadsEnd(yield, n) => yieldFilter(ask.packSize, n)
        /\ ~ask.round10 /\ (ask.wantMode = "all" \/ DOMAIN ask.want \subseteq Traded) =>
             \A rolled \in Rolled :
                 wantedTerms(ask, rolled) /\ avoidTerm(ask, rolled) => wantGroups(ask, rolled) /\ avoidGroup(ask, rolled)

(* The string the Regex page shows reads as was asked, and its trade query  *)
(* lists what the string shows.                                             *)
AskIsAnswered == NumbersReadTrue /\ TradeListsWhatShows
=============================================================================
