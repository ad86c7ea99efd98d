------------------------------ MODULE RateGate -------------------------------
(***************************************************************************)
(* One rate policy of the outbound gateway (backend/app/gateway.py): its   *)
(* limiter, its penalty box, the backend's own requests that wait for      *)
(* them, the desktop shell that asks for a slot over HTTP and reports what *)
(* the site answered (desktop/src/trade/budget.js), the page the user      *)
(* browses and ExiledExchange2, which spend the same allowance unasked.    *)
(*                                                                         *)
(* Time is in ticks and every time stamp is an age, so that nothing grows. *)
(***************************************************************************)
EXTENDS Naturals, Sequences, FiniteSets, SequencesExt, FiniteSetsExt

-----------------------------------------------------------------------------
(* From the rules a site advertises to the rates a sliding-window limiter    *)
(* accepts, _rate_chain(): a rule and a rate are <<limit, window in ticks>>. *)
Rule == Nat \X Nat

Limit(r) == r[1]
Window(r) == r[2]

(* r lets more through per tick than q does.                               *)
Faster(r, q) == Limit(r) * Window(q) > Limit(q) * Window(r)

(* How many windows of q can touch one window of r, rounded up.            *)
Touching(r, q) == (Window(r) + Window(q) - 1) \div Window(q)

(* The rule that limits a burst of q so that r holds as well.              *)
Tightened(r, q) == <<Max({1, Limit(r) \div Touching(r, q)}), Window(q)>>

WithRuleLoosely(shorter, kept) ==   \* mutant: drops a faster rule without tightening the one before it
    [r \in Rule |->
        LET q == Last(kept)
        IN CASE kept = <<>> -> <<r>>
             [] kept # <<>> /\ Limit(r) <= Limit(q) -> shorter[r]
             [] kept # <<>> /\ Limit(r) > Limit(q) /\ Faster(r, q) -> kept
             [] OTHER -> Append(kept, r)]

(* One call of add() while the chain is kept, when shorter is what add()   *)
(* makes of the chain without its last rule.  Shorter rules that r makes   *)
(* redundant leave; one it is implied by keeps it out, one that lets too   *)
(* much through is tightened in its stead.                                 *)
WithRule(shorter, kept) ==
    [r \in Rule |->
        LET q == Last(kept)
        IN CASE kept = <<>> -> <<r>>
             [] kept # <<>> /\ Limit(r) <= Limit(q) -> shorter[r]
             [] kept # <<>> /\ Limit(r) > Limit(q) /\ Faster(r, q) ->
                   IF Limit(q) * Touching(r, q) <= Limit(r)
                   THEN kept
                   ELSE shorter[Tightened(r, q)]
             [] OTHER -> Append(kept, r)]

(* add(): a longer rule joins the chain.                                   *)
Added[kept \in Seq(Rule)] == WithRule(Added[Front(kept)], kept)

(* by_win: the limits of the rules for one window; the strictest counts.   *)
LimitsOf(list, w) == {Limit(r) : r \in {q \in Range(list) : Limit(q) > 0 /\ Window(q) = w}}

WithWindow(list, kept, w) ==
    IF LimitsOf(list, w) = {} THEN kept ELSE Added[kept][<<Min(LimitsOf(list, w)), w>>]

(* What the limiter library takes: longer windows have larger limits and   *)
(* no higher rate.                                                         *)
Accepted(rates) ==
    /\ rates # <<>>
    /\ \A i \in 1..Len(rates) - 1 :
          /\ Limit(rates[i]) < Limit(rates[i + 1]) /\ Window(rates[i]) < Window(rates[i + 1])
          /\ ~Faster(rates[i + 1], rates[i])

-----------------------------------------------------------------------------
CONSTANTS
    Callers,     \* requests of the backend
    Shell,       \* requests of the desktop shell
    Others,      \* requests nobody asks the gate about
    Rulebook,    \* the lists of rules the site may advertise
    Initial,     \* the policy's rates before the first answer
    Longest,     \* the longest window of them all
    Ban,         \* how long the site refuses once a rule is broken
    HoldCap,     \* the longest hold for a window nearly spent (30 s)
    Retries,     \* how often a backend request is retried
    MaxTrouble   \* bound: requests without a slot and changes of the rules

Actors == Callers \cup Shell \cup Others

(* From the shortest window on.                                            *)
Chain(list) ==
    LET upTo[w \in 0..Longest] == IF w = 0 THEN <<>> ELSE WithWindow(list, upTo[w - 1], w)
    IN upTo[Longest]

(* SAFETY and STATE_HOLD.                                                  *)
Whole(r) == r   \* mutant: no safety factor
Halved(r) == <<Max({1, Limit(r) \div 2}), Window(r)>>

Near(r) == Max({1, (Limit(r) * 4) \div 5})

ASSUME ActorsAssumption ==
    /\ IsFiniteSet(Actors)
    /\ Callers \cap Shell = {} /\ Callers \cap Others = {} /\ Shell \cap Others = {}
ASSUME RulesAssumption ==
    /\ Longest \in Nat \ {0} /\ Accepted(Initial)
    /\ \A list \in Rulebook \cup {Initial} :
          list \in Seq(Rule) /\ list # <<>> /\ \A i \in DOMAIN list : Window(list[i]) \in 1..Longest
ASSUME BoundsAssumption == Ban \in Nat \ {0} /\ {HoldCap, Retries, MaxTrouble} \subseteq Nat

VARIABLES
    limiters,    \* the limiter and its predecessors that are still waited for
    current,     \* the policy's own
    advertised,  \* the rules it was derived from, <<>> at first
    penalty,     \* ticks until penalty_until
    actors,      \* where each request is
    rules,       \* the site: what it advertises,
    hits,        \* what it has counted,
    ban,         \* and for how long it refuses
    known,       \* history: the gate has been told of this ban
    trouble

gate == <<limiters, current, advertised, penalty>>
site == <<rules, hits, ban>>
vars == <<gate, actors, site, known, trouble>>

(* What a limiter or the site keeps: how many in the last w ticks.         *)
Log == [1..Longest -> Nat]
Empty == [w \in 1..Longest |-> 0]
OneMore(log) == [w \in 1..Longest |-> log[w] + 1]
Older(log) == [w \in 1..Longest |-> IF w = 1 THEN 0 ELSE log[w - 1]]

Ids == 1..Cardinality(Callers) + 2
New(rates) == [rates |-> rates, log |-> Empty]
Blank == New(<<>>)

HasSlot(l) == \A i \in DOMAIN l.rates : l.log[Window(l.rates[i])] < Limit(l.rates[i])
Spent(l) == [limiters EXCEPT ![l].log = OneMore(@)]

(* An answer carries what the gate reads from its headers.                 *)
NoAnswer == [status |-> 0, rules |-> <<>>, hold |-> 0, retry |-> 0, live |-> FALSE]
Idle == [phase |-> "idle", at |-> 0, attempt |-> 0, answer |-> NoAnswer]

TypeOK ==
    /\ limiters \in [Ids -> [rates : Seq(Rule), log : Log]] /\ current \in Ids
    /\ advertised \in Rulebook \cup {<<>>} /\ rules \in Rulebook
    /\ penalty \in 0..Max({Ban + 1, HoldCap}) /\ ban \in 0..Ban
    /\ actors \in [Actors -> [phase : {"idle", "held", "limiter", "sent", "answered"},
                              at : Ids \cup {0}, attempt : 0..Retries,
                              answer : [status : {0, 200, 429}, rules : Rulebook \cup {<<>>},
                                        hold : 0..HoldCap, retry : 0..Ban, live : BOOLEAN]]]
    /\ hits \in Log /\ known \in BOOLEAN /\ trouble \in 0..MaxTrouble

Init ==
    /\ limiters = [l \in Ids |-> IF l = 1 THEN New(Initial) ELSE Blank]
    /\ current = 1 /\ advertised = <<>> /\ penalty = 0
    /\ actors = [a \in Actors |-> Idle]
    /\ rules \in Rulebook /\ hits = Empty /\ ban = 0 /\ known = FALSE /\ trouble = 0
-----------------------------------------------------------------------------
Goes(a, phase) == actors' = [actors EXCEPT ![a].phase = phase]
Trouble == trouble < MaxTrouble /\ trouble' = trouble + 1

(* request(): the caller waits out the penalty, five seconds at a time.    *)
Ask(c) ==
    /\ actors[c].phase = "idle"
    /\ Goes(c, "held")
    /\ UNCHANGED <<gate, site, known, trouble>>

(* The limiter has a slot free.                                            *)
TakeFree(c) ==
    /\ actors[c].phase = "held" /\ penalty = 0 /\ HasSlot(limiters[current])
    /\ limiters' = Spent(current)
    /\ Goes(c, "sent")
    /\ UNCHANGED <<current, advertised, penalty, site, known, trouble>>

(* It has none: acquire() waits in the limiter it found, and for nothing   *)
(* else any more.                                                          *)
EnterLimiter(c) ==
    /\ actors[c].phase = "held" /\ penalty = 0 /\ ~HasSlot(limiters[current])
    /\ actors' = [actors EXCEPT ![c].phase = "limiter", ![c].at = current]
    /\ UNCHANGED <<gate, site, known, trouble>>

(* A limiter that nobody waits for any more is gone.                       *)
Kept(ls, as, cur) ==
    [l \in Ids |-> IF l = cur \/ \E c \in Callers : as[c].at = l THEN ls[l] ELSE Blank]

TakeSlot(c) ==
    /\ actors[c].phase = "limiter" /\ HasSlot(limiters[actors[c].at])
    /\ actors' = [actors EXCEPT ![c].phase = "sent", ![c].at = 0]
    /\ limiters' = Kept(Spent(actors[c].at), actors', current)
    /\ UNCHANGED <<current, advertised, penalty, site, known, trouble>>

(* The timeout of 120 s: RateLimited to whoever asked.                     *)
GiveUp(c) ==
    /\ actors[c].phase = "limiter" /\ ~HasSlot(limiters[actors[c].at])
    /\ actors' = [actors EXCEPT ![c] = Idle]
    /\ limiters' = Kept(limiters, actors', current)
    /\ UNCHANGED <<current, advertised, penalty, site, known, trouble>>

(* try_acquire_now(): a slot at once or a refusal, which changes nothing.  *)
TakeNow(s) ==
    /\ actors[s].phase = "idle"
    /\ penalty = 0 /\ HasSlot(limiters[current])
    /\ limiters' = Spent(current)
    /\ Goes(s, "sent")
    /\ UNCHANGED <<current, advertised, penalty, site, known, trouble>>

(* The shell cannot reach the gate and fails open; the page and            *)
(* ExiledExchange2 never ask.                                              *)
Bypass(d) ==
    /\ actors[d].phase = "idle" /\ Trouble
    /\ Goes(d, "sent")
    /\ UNCHANGED <<gate, site, known>>
-----------------------------------------------------------------------------
Broken(log) == \E r \in Range(rules) : log[Window(r)] >= Limit(r)

(* The states in the headers: h is the longest hold they call for, by the  *)
(* windows that are nearly spent, or 0.                                    *)
CallsForHold(h, log) ==
    LET near == {r \in Range(rules) : log[Window(r)] >= Near(r)}
        holds == {0} \cup {Min({Window(r), HoldCap}) : r \in near}
    IN h \in holds /\ \A other \in holds : other <= h

Refusal(t) == [status |-> 429, rules |-> <<>>, hold |-> 0, retry |-> t, live |-> TRUE]
Counted(h) == [status |-> 200, rules |-> rules, hold |-> h, retry |-> 0, live |-> FALSE]

Told(a, answer) ==
    [phase |-> "answered", at |-> 0, attempt |-> actors[a].attempt, answer |-> answer]

(* The site counts a request and answers, or refuses until the ban is over.*)
Arrive(a) ==
    /\ actors[a].phase = "sent"
    /\ IF ban > 0 \/ Broken(hits)
       THEN /\ ban' = IF ban > 0 THEN ban ELSE Ban
            /\ UNCHANGED hits
            /\ actors' = [actors EXCEPT ![a] = Told(a, Refusal(ban'))]
       ELSE /\ hits' = OneMore(hits)
            /\ UNCHANGED ban
            /\ \E h \in 0..HoldCap :
                  /\ CallsForHold(h, hits')
                  /\ actors' = [actors EXCEPT ![a] = Told(a, Counted(h))]
    /\ UNCHANGED <<gate, rules, known, trouble>>

Overwritten(t) == t   \* mutant: penalize() without max

(* penalize(): the later end of the two.                                   *)
Penalized(t) == IF t > penalty THEN t ELSE penalty

Rates == [list \in Rulebook |-> Chain([i \in DOMAIN list |-> Halved(list[i])])]

(* The rates are derived anew, and with them an empty limiter; a chain the *)
(* library rejects leaves the old one in place.                            *)
Derived(as, list) ==
    LET unused == {l \in Ids : l # current /\ \A c \in Callers : as[c].at # l}
    IN /\ advertised' = list
       /\ IF list = advertised \/ ~Accepted(Rates[list])
          THEN UNCHANGED <<limiters, current>>
          ELSE \E l \in unused :
                  /\ \A other \in unused : l <= other
                  /\ current' = l
                  /\ limiters' = Kept([limiters EXCEPT ![l] = New(Rates[list])], as, l)

(* observe_headers(): a 429 says for how long, any other answer which      *)
(* rules there are and how much of them is spent.                          *)
Observe(a, as) ==
    LET answer == actors[a].answer
    IN /\ known' = (known \/ answer.live)
       /\ IF answer.status = 429
          THEN penalty' = Penalized(answer.retry + 1) /\ UNCHANGED <<limiters, current, advertised>>
          ELSE /\ penalty' = IF answer.hold > 0 THEN Penalized(answer.hold) ELSE penalty
               /\ Derived(as, answer.rules)

Retried(c) == actors[c].answer.status = 429 /\ actors[c].attempt < Retries

Retry(n) == [phase |-> "held", at |-> 0, attempt |-> n, answer |-> NoAnswer]

(* request() goes on: a 429 is retried, from the penalty box on.           *)
Answered(c) ==
    /\ actors[c].phase = "answered"
    /\ actors' = [actors EXCEPT ![c] =
          IF Retried(c) THEN Retry(actors[c].attempt + 1) ELSE Idle]
    /\ Observe(c, actors')
    /\ UNCHANGED <<site, trouble>>

(* The shell's report, or the page's headers that the tap passes on.       *)
Report(d) ==
    /\ actors[d].phase = "answered"
    /\ actors' = [actors EXCEPT ![d] = Idle]
    /\ Observe(d, actors')
    /\ UNCHANGED <<site, trouble>>

(* hint(): ExiledExchange2 has spent a slot.                               *)
Hint(d) ==
    /\ actors[d].phase = "answered"
    /\ actors' = [actors EXCEPT ![d] = Idle]
    /\ limiters' = IF HasSlot(limiters[current]) THEN Spent(current) ELSE limiters
    /\ UNCHANGED <<current, advertised, penalty, site, known, trouble>>

(* An answer, or the report of it, is lost on the way.                     *)
Lose(a) ==
    /\ actors[a].phase = "answered"
    /\ actors' = [actors EXCEPT ![a] = Idle]
    /\ UNCHANGED <<gate, site, known, trouble>>
-----------------------------------------------------------------------------
ChangeRules ==
    /\ Trouble
    /\ \E list \in Rulebook \ {rules} : rules' = list
    /\ UNCHANGED <<gate, actors, hits, ban, known>>

Less(n) == IF n = 0 THEN 0 ELSE n - 1

(* A request reaches the site in the tick in which it was sent.            *)
Tick ==
    /\ \A a \in Actors : actors[a].phase # "sent"
    /\ limiters' = [l \in Ids |-> [limiters[l] EXCEPT !.log = Older(@)]]
    /\ hits' = Older(hits) /\ penalty' = Less(penalty) /\ ban' = Less(ban)
    /\ known' = (known /\ ban' > 0)
    /\ actors' = [a \in Actors |-> [actors[a] EXCEPT !.answer.live = @ /\ ban' > 0]]
    /\ UNCHANGED <<current, advertised, rules, trouble>>

Call(c) == Ask(c) \/ TakeFree(c) \/ EnterLimiter(c) \/ TakeSlot(c) \/ GiveUp(c) \/ Answered(c)

Next ==
    \/ Tick \/ ChangeRules
    \/ \E c \in Callers : Call(c)
    \/ \E s \in Shell : TakeNow(s)
    \/ \E d \in Shell \cup Others : Bypass(d) \/ Report(d)
    \/ \E o \in Others : Hint(o)
    \/ \E a \in Actors : Arrive(a) \/ Lose(a)

Spec == Init /\ [][Next]_vars
-----------------------------------------------------------------------------
(* "never loosens a rule": whatever the limiter has let through stays      *)
(* within half of every rule advertised, the ones the chain drops too.     *)
ChainLoosensNothing ==
    \A r \in Range(advertised) : limiters[current].log[Window(r)] <= Limit(Halved(r))

(* The rates a policy starts with imply half of every rule the site may     *)
(* advertise, "headers can only loosen it"; and no rule of the site's is so *)
(* strict that its half is the whole.                                      *)
Cautious ==
    /\ \A q \in Range(Initial) : Limit(q) >= 1
    /\ \A list \in Rulebook : \A r \in Range(list) :
          \E q \in Range(Initial) : Limit(q) * Touching(r, q) <= Limit(Halved(r))
Roomy == \A list \in Rulebook : \A r \in Range(list) : Limit(r) >= 2

(* "so we never approach the real ceiling": the site never refuses a       *)
(* request as long as all of them have a slot and the rules do not change, *)
(* although a new limiter knows nothing of what the old one let through.   *)
NeverRefused ==
    trouble = 0 => \A a \in Actors : actors[a].answer.status # 429

(* The advertised rules hold, and the site agrees (gateway.py).            *)
RulesHold == ChainLoosensNothing /\ NeverRefused

(* Once an answer has told the gate of a ban the box lasts as long as it,  *)
(* whatever older or milder answers come in after that one.                *)
BoxOutlastsBan == known => penalty >= ban

(* "a penalty box that all callers wait on": no slot while it lasts.       *)
AllWaitInTheBox ==
    [][penalty > 0 => \A a \in Callers \cup Shell : actors[a].phase = "limiter" => actors'[a].phase # "sent"]_vars
=============================================================================
