------------------------------ MODULE MCServer ------------------------------
(* The parts of the backend, which share no state, checked together: a     *)
(* behaviour is one of one part, chosen at the start, while the others     *)
(* rest in their initial states.                                           *)
EXTENDS RateGate, AnalyticsJobs, SeedPipeline, DigestSync, RouteStream, MarketGraph, RouteSearch

CONSTANTS Parts, l1, l2
VARIABLE part

(* Rules that a chain has to tighten, two rules for one window, a change. *)
Uneven == << <<4, 3>>, <<6, 4>> >>
TwoScopes == << <<4, 2>>, <<2, 2>>, <<8, 4>> >>
Both == {Uneven, TwoScopes}
Slow == << <<1, 3>> >>

(* What RulesHoldEver assumes is so here.                                  *)
ASSUME SlowIsCautious == Cautious /\ Roomy

(* The two kinds of job the backend asks for.                              *)
TwoKinds == {1, 2}   \* discords, arc
NoJobs == {}
BrokenArc == {<<2, l1>>}

(* The loops of the final list.                                            *)
OnlyFirst == {1}
OnlySecond == {2}

(* Markets over a reference r and three currencies: one that never traded, *)
(* one that is wide but has a book on both sides, two hours that agree on  *)
(* no price, two with a book on one side only.                             *)
Paid(a, b) == [a |-> a, b |-> b]
Tape(hours, a, b) == [hours |-> hours, stock_a |-> a, stock_b |-> b]
FourTapes == {Tape(<<>>, 0, 0), Tape(<<Paid(2, 1), Paid(4, 1)>>, 3, 1), Tape(<<Paid(4, 1), Paid(1, 2)>>, 1, 1),
              Tape(<<Paid(1, 1), Paid(8, 8)>>, 0, 4)}
FiveMarkets == {<<"r", "a">>, <<"r", "b">>, <<"a", "b">>, <<"b", "c">>, <<"a", "c">>}
TwoCloses == {[x \in {} |-> One], [x \in {"b"} |-> <<100, 1>>]}
TwoOrders == {<<"a", "b", "c">>, <<"c", "b", "a">>}
TwoRecipes == {[from |-> "a", to |-> "b", rate |-> <<3, 1>>, lot |-> 1],
               [from |-> "a", to |-> "b", rate |-> <<9, 2>>, lot |-> 2]}
Twice == <<2, 1>>
Halving == <<2, 4>>

(* Books over s, a and b: each market absent or at one of three rates with *)
(* a stock that binds, a recipe or none.                                   *)
AtRates(a, b) == {<<>>} \cup {<<Offer(a, b, r[1], r[2])>> :
                                r \in {<<<<1, 2>>, 2>>, <<<<2, 1>>, 4>>, <<<<5, 3>>, 9>>}}
ManyBooks == {x \o y \o z \o u \o <<Offer("s", "b", <<1, 1>>, 5), Offer("b", "a", <<1, 2>>, 5)>> \o w :
                x \in AtRates("s", "a"), y \in AtRates("a", "s"), z \in AtRates("a", "b"), u \in AtRates("b", "s"),
                w \in {<<>>, <<Craft("a", "b", <<1, 3>>, 3)>>}}
TwoHeld == <<"s", "a">>
Twofold == [c \in Coins |-> IF c = "b" THEN 2 ELSE 1]
-----------------------------------------------------------------------------

OnlyPart(p) ==
    /\ part = p /\ UNCHANGED part
    /\ p # "gate"   => UNCHANGED vars
    /\ p # "jobs"   => UNCHANGED jobVars
    /\ p # "seed"   => UNCHANGED seedVars
    /\ p # "digest" => UNCHANGED digestVars
    /\ p # "stream" => UNCHANGED streamVars
    /\ p # "graph"  => UNCHANGED marketVars
    /\ p # "search" => UNCHANGED searchVars

ServerInit ==
    /\ part \in Parts
    /\ Init /\ (part # "gate" => rules = Uneven)
    /\ IF part = "jobs" THEN JobsInit
       ELSE /\ rows = <<>> /\ cache = [k \in Kinds |-> l1] /\ workers = [w \in Workers |-> Off]
            /\ backend = "up" /\ screen = l1 /\ mishaps = 0 /\ faults = 0
    /\ SeedInit /\ DigestInit /\ StreamInit
    /\ IF part = "graph" THEN MarketInit
       ELSE /\ tape = <<>> /\ scout = <<>> /\ order = <<>> /\ edge = <<>> /\ busiest = <<>>
            /\ table = [val |-> <<>>, by |-> <<>>] /\ recipes = {} /\ graph = "none"
    /\ IF part = "search" THEN SearchInit ELSE book = <<>> /\ asked = <<>> /\ answer = <<>>

ServerNext ==
    \/ OnlyPart("gate") /\ Next
    \/ OnlyPart("jobs") /\ JobsNext
    \/ OnlyPart("seed") /\ SeedNext
    \/ OnlyPart("digest") /\ DigestNext
    \/ OnlyPart("stream") /\ StreamNext
    \/ OnlyPart("graph") /\ MarketNext
    \/ OnlyPart("search") /\ SearchNext

ServerSpec ==
    ServerInit /\ [][ServerNext]_<<part, vars, jobVars, seedVars, digestVars, streamVars, marketVars, searchVars>>

(* The loops of the parts go on; nobody has to switch the league, die or   *)
(* meet trouble.  A dead sidecar is respawned, an orphan is ended.         *)
On(p) == part = p
FairSpec ==
    /\ ServerSpec
    /\ WF_jobVars(On("jobs") /\ AskJobs)
    /\ WF_jobVars(On("jobs") /\ BackendStarts)
    /\ WF_jobVars(On("jobs") /\ \E w \in Workers : Spawn(w))
    /\ \A w \in Workers : WF_jobVars(On("jobs") /\ (Work(w) \/ (Job(w) \in Killing /\ Dies(w))))
    /\ \A w \in Workers : WF_jobVars(On("jobs") /\ Watchdog(w))
    /\ WF_seedVars(On("seed") /\ Polls)
    /\ WF_digestVars(On("digest") /\ Syncs)
    /\ \A s \in Streams : WF_streamVars(On("stream") /\ Works(s))
    /\ WF_streamVars(On("stream") /\ Receives)
    /\ WF_streamVars(On("stream") /\ IdleTooLong)
    /\ WF_streamVars(On("stream") /\ GraphExpires)
    /\ WF_streamVars(On("stream") /\ RouteExpires)
    /\ WF_streamVars(On("stream") /\ SaveDrops)
=============================================================================
