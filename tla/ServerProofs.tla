---------------------------- MODULE ServerProofs ----------------------------
(* The parts of the backend that are proved: the request budget (RateGate),*)
(* the seeds (SeedPipeline), the digest (DigestSync), the stream of the    *)
(* route search (RouteStream), the job queue (AnalyticsJobs) and what the  *)
(* market says things are worth (MarketGraph).  Each part has an inductive *)
(* invariant of its own.                                                   *)
EXTENDS RateGate, SeedPipeline, DigestSync, RouteStream, AnalyticsJobs, MarketGraph,
        FiniteSetTheorems, SequenceTheorems, WellFoundedInduction, TLAPS

-----------------------------------------------------------------------------
(* The request budget.  The penalty box lasts as long as the ban that      *)
(* began it, for any requests, rules, bans and holds, in whatever order    *)
(* the answers come in.                                                    *)
Answer == [status : {0, 200, 429}, rules : Rulebook \cup {<<>>}, hold : Nat, retry : Nat,
           live : BOOLEAN]

Request == [phase : {"idle", "held", "limiter", "sent", "answered"}, at : Ids \cup {0},
            attempt : Nat, answer : Answer]

(* As much of TypeOK as the argument needs: neither logs nor rates.        *)
BoxTypes ==
    /\ penalty \in Nat /\ ban \in Nat /\ known \in BOOLEAN
    /\ rules \in Rulebook /\ current \in Ids
    /\ actors \in [Actors -> Request]

(* An answer that speaks of the present ban is a 429 whose retry-after is  *)
(* no shorter than what is left of it.                                     *)
LiveAnswers ==
    \A a \in Actors : actors[a].answer.live =>
        actors[a].answer.status = 429 /\ 0 < ban /\ ban <= actors[a].answer.retry

(* The present ban is the one the gate knows of.                           *)
KnownIsPresent == known => 0 < ban

BoxInv == BoxTypes /\ LiveAnswers /\ KnownIsPresent /\ BoxOutlastsBan

LEMMA InitBoxInv == Init => BoxInv
<1> SUFFICES ASSUME Init PROVE BoxInv
  OBVIOUS
<1>1. Cardinality(Callers) \in Nat
  BY ActorsAssumption, FS_Subset, FS_CardinalityType DEF Actors
<1>2. current \in Ids
  BY <1>1 DEF Init, Ids
<1> QED
  BY <1>2 DEF Init, BoxInv, BoxTypes, LiveAnswers, KnownIsPresent, BoxOutlastsBan,
    Answer, Request, Idle, NoAnswer

(* A step that leaves the box, the ban and every answer as they are.       *)
LEMMA QuietKeeps ==
  ASSUME BoxInv, BoxTypes', UNCHANGED <<penalty, ban, known>>,
         \A a \in Actors : actors'[a].answer = actors[a].answer \/ ~actors'[a].answer.live
  PROVE  BoxInv'
BY DEF BoxInv, BoxTypes, LiveAnswers, KnownIsPresent, BoxOutlastsBan

(* The steps of a request that touch no answer.                            *)
LEMMA WaitKeeps ==
  ASSUME BoxInv, NEW a \in Actors,
         Ask(a) \/ TakeFree(a) \/ EnterLimiter(a) \/ TakeSlot(a) \/ TakeNow(a) \/ Bypass(a)
  PROVE  BoxInv'
<1>1. BoxTypes'
  BY DEF BoxInv, BoxTypes, Request, Ask, TakeFree, EnterLimiter, TakeSlot, TakeNow, Bypass,
    Goes, gate, site
<1>2. \A b \in Actors : actors'[b].answer = actors[b].answer
  BY DEF BoxInv, BoxTypes, Request, Ask, TakeFree, EnterLimiter, TakeSlot, TakeNow, Bypass, Goes
<1>3. UNCHANGED <<penalty, ban, known>>
  BY DEF Ask, TakeFree, EnterLimiter, TakeSlot, TakeNow, Bypass, gate, site
<1> QED
  BY <1>1, <1>2, <1>3, QuietKeeps

(* The steps after which a request is idle and its answer forgotten.       *)
LEMMA LeaveKeeps ==
  ASSUME BoxInv, NEW a \in Actors, GiveUp(a) \/ Hint(a) \/ Lose(a)
  PROVE  BoxInv'
<1>1. actors' = [actors EXCEPT ![a] = Idle]
  BY DEF GiveUp, Hint, Lose
<1>2. UNCHANGED <<penalty, ban, known, rules, current>>
  BY DEF GiveUp, Hint, Lose, gate, site
<1>3. BoxTypes'
  BY <1>1, <1>2 DEF BoxInv, BoxTypes, Request, Answer, Idle, NoAnswer
<1>4. \A b \in Actors : actors'[b].answer = actors[b].answer \/ ~actors'[b].answer.live
  BY <1>1 DEF BoxInv, BoxTypes, Idle, NoAnswer
<1> QED
  BY <1>2, <1>3, <1>4, QuietKeeps

(* A refusal speaks of the ban it begins or meets; nobody knows of one     *)
(* that only begins.                                                       *)
LEMMA ArriveKeeps ==
  ASSUME BoxInv, NEW a \in Actors, Arrive(a)
  PROVE  BoxInv'
<1> USE DEF BoxInv
<1>1. UNCHANGED <<penalty, known, rules, current>>
  BY DEF Arrive, gate
<1>2. CASE ban > 0 \/ Broken(hits)
  <2>1. ban' = (IF ban > 0 THEN ban ELSE Ban) /\ ban' \in Nat /\ ban' > 0
    <3>1. ban' = (IF ban > 0 THEN ban ELSE Ban)
      BY <1>2 DEF Arrive
    <3>2. ban \in Nat /\ Ban \in Nat /\ Ban > 0
      BY BoundsAssumption DEF BoxTypes
    <3> QED
      BY <3>1, <3>2
  <2>2. actors' = [actors EXCEPT ![a] = Told(a, Refusal(ban'))]
    BY <1>2 DEF Arrive
  <2>3. Told(a, Refusal(ban')) \in Request
    BY <2>1 DEF BoxTypes, Told, Refusal, Request, Answer
  <2>4. BoxTypes'
    <3>1. actors' \in [Actors -> Request]
      BY <2>2, <2>3 DEF BoxTypes
    <3> QED
      BY <1>1, <2>1, <3>1 DEF BoxTypes
  <2>5. LiveAnswers'
    <3> SUFFICES ASSUME NEW b \in Actors, actors'[b].answer.live
                 PROVE  actors'[b].answer.status = 429 /\ 0 < ban' /\ ban' <= actors'[b].answer.retry
      BY DEF LiveAnswers
    <3>1. CASE b = a
      BY <2>1, <2>2, <3>1 DEF BoxTypes, Told, Refusal
    <3>2. CASE b # a
      BY <2>1, <2>2, <3>2 DEF LiveAnswers, BoxTypes
    <3> QED
      BY <3>1, <3>2
  <2> QED
    BY <1>1, <2>1, <2>4, <2>5 DEF KnownIsPresent, BoxOutlastsBan, BoxTypes
<1>3. CASE ~(ban > 0 \/ Broken(hits))
  <2>1. PICK h \in 0..HoldCap : actors' = [actors EXCEPT ![a] = Told(a, Counted(h))]
    BY <1>3 DEF Arrive
  <2>2. h \in Nat /\ ban' = ban
    <3>1. UNCHANGED ban
      BY <1>3 DEF Arrive
    <3>2. HoldCap \in Nat
      BY BoundsAssumption
    <3> QED
      BY <3>1, <3>2
  <2>3. BoxTypes'
    <3>1. Told(a, Counted(h)) \in Request
      BY <2>2 DEF BoxTypes, Told, Counted, Request, Answer
    <3>2. actors' \in [Actors -> Request]
      BY <2>1, <3>1 DEF BoxTypes
    <3> QED
      BY <1>1, <2>2, <3>2 DEF BoxTypes
  <2>4. \A b \in Actors : actors'[b].answer = actors[b].answer \/ ~actors'[b].answer.live
    BY <2>1 DEF BoxTypes, Told, Counted
  <2> QED
    BY <1>1, <2>2, <2>3, <2>4, QuietKeeps
<1> QED
  BY <1>2, <1>3

(* Observing an answer never shortens the box, and what it learns of the   *)
(* present ban it keeps to.                                                *)
LEMMA ObserveEffect ==
  ASSUME BoxInv, NEW a \in Actors, NEW as, Observe(a, as)
  PROVE  /\ penalty' \in Nat /\ penalty <= penalty' /\ current' \in Ids
         /\ known' = (known \/ actors[a].answer.live)
         /\ actors[a].answer.live => ban <= penalty'
<1> DEFINE answer == actors[a].answer
<1>1. answer \in Answer
  BY DEF BoxInv, BoxTypes, Request
<1>2. current' \in Ids
  <2>1. UNCHANGED current \/ Derived(as, answer.rules)
    BY DEF Observe
  <2>2. CASE Derived(as, answer.rules)
    BY <2>2 DEF BoxInv, BoxTypes, Derived
  <2> QED
    BY <2>1, <2>2 DEF BoxInv, BoxTypes
<1>3. answer.live => answer.status = 429 /\ ban <= answer.retry
  BY DEF BoxInv, LiveAnswers
<1>4. penalty' = Penalized(answer.retry + 1) \/ penalty' = Penalized(answer.hold) \/ penalty' = penalty
  BY DEF Observe
<1>5. answer.status = 429 => penalty' = Penalized(answer.retry + 1)
  BY DEF Observe
<1> QED
  BY <1>1, <1>2, <1>3, <1>4, <1>5 DEF BoxInv, BoxTypes, Answer, Penalized, Observe

LEMMA ReportKeeps ==
  ASSUME BoxInv, NEW a \in Actors, Answered(a) \/ Report(a)
  PROVE  BoxInv'
<1>1. PICK next \in Request : actors' = [actors EXCEPT ![a] = next] /\ ~next.answer.live
  <2>1. Idle \in Request /\ ~Idle.answer.live
    BY DEF Idle, NoAnswer, Request, Answer
  <2>2. CASE Report(a)
    BY <2>1, <2>2 DEF Report
  <2>3. CASE Answered(a)
    <3>1. actors' = [actors EXCEPT ![a] = IF Retried(a) THEN Retry(actors[a].attempt + 1) ELSE Idle]
      BY <2>3 DEF Answered
    <3>2. actors[a].attempt + 1 \in Nat
      BY DEF BoxInv, BoxTypes, Request
    <3>3. Retry(actors[a].attempt + 1) \in Request /\ ~Retry(actors[a].attempt + 1).answer.live
      BY <3>2 DEF Retry, NoAnswer, Request, Answer
    <3> QED
      BY <2>1, <3>1, <3>3
  <2> QED
    BY <2>2, <2>3
<1>2. Observe(a, actors') /\ UNCHANGED <<ban, rules>>
  BY DEF Answered, Report, site
<1>3. /\ penalty' \in Nat /\ penalty <= penalty' /\ current' \in Ids
      /\ known' = (known \/ actors[a].answer.live)
      /\ actors[a].answer.live => ban <= penalty'
  BY <1>2, ObserveEffect
<1>4. BoxTypes'
  BY <1>1, <1>2, <1>3 DEF BoxInv, BoxTypes, Request, Answer
<1>5. LiveAnswers'
  BY <1>1, <1>2 DEF BoxInv, BoxTypes, LiveAnswers
<1>6. KnownIsPresent' /\ BoxOutlastsBan'
  BY <1>2, <1>3, <1>4 DEF BoxInv, BoxTypes, LiveAnswers, KnownIsPresent, BoxOutlastsBan
<1> QED
  BY <1>4, <1>5, <1>6 DEF BoxInv

LEMMA TickKeeps ==
  ASSUME BoxInv, Tick
  PROVE  BoxInv'
<1> USE DEF BoxInv
<1>1. penalty' = Less(penalty) /\ ban' = Less(ban) /\ known' = (known /\ ban' > 0)
  BY DEF Tick
<1>2. penalty' \in Nat /\ ban' \in Nat /\ (ban <= penalty => ban' <= penalty') /\ ban' <= ban
  BY <1>1 DEF BoxTypes, Less
<1>3. actors' = [a \in Actors |-> [actors[a] EXCEPT !.answer.live = @ /\ ban' > 0]]
  BY DEF Tick
<1>4. BoxTypes'
  <2>1. \A a \in Actors : actors[a] \in Request
    BY DEF BoxTypes
  <2>2. \A a \in Actors : actors'[a] \in Request
    <3> SUFFICES ASSUME NEW a \in Actors PROVE actors'[a] \in Request
      OBVIOUS
    <3> DEFINE live == actors[a].answer.live /\ ban' > 0
    <3>1. actors'[a] = [actors[a] EXCEPT !.answer.live = @ /\ ban' > 0]
      BY <1>3
    <3>2. actors[a].answer \in Answer /\ live \in BOOLEAN
      BY <2>1 DEF Request
    <3>3. actors'[a] = [actors[a] EXCEPT !.answer = [actors[a].answer EXCEPT !.live = live]]
      BY <2>1, <3>1 DEF Request
    <3> HIDE DEF live
    <3>4. [actors[a].answer EXCEPT !.live = live] \in Answer
      BY <3>2 DEF Answer
    <3> QED
      BY <2>1, <3>3, <3>4 DEF Request
  <2>3. actors' \in [Actors -> Request]
    BY <1>3, <2>2
  <2> QED
    BY <1>1, <1>2, <2>3 DEF BoxTypes, Tick
<1>5. LiveAnswers'
  <2> SUFFICES ASSUME NEW a \in Actors, actors'[a].answer.live
               PROVE  actors'[a].answer.status = 429 /\ 0 < ban' /\ ban' <= actors'[a].answer.retry
    BY DEF LiveAnswers
  <2>1. actors[a] \in Request
    BY DEF BoxTypes
  <2>2. /\ actors'[a].answer.live = (actors[a].answer.live /\ ban' > 0)
        /\ actors'[a].answer.status = actors[a].answer.status
        /\ actors'[a].answer.retry = actors[a].answer.retry
    BY <1>3, <2>1 DEF Request, Answer
  <2>3. actors[a].answer.live /\ 0 < ban'
    BY <1>2, <2>2
  <2>4. actors[a].answer.status = 429 /\ ban <= actors[a].answer.retry
    BY <2>3 DEF LiveAnswers
  <2>5. actors[a].answer.retry \in Nat
    BY <2>1 DEF Request, Answer
  <2>6. ban' <= actors[a].answer.retry
    BY <1>2, <2>4, <2>5 DEF BoxTypes
  <2> QED
    BY <2>2, <2>3, <2>4, <2>6
<1> QED
  BY <1>1, <1>2, <1>4, <1>5 DEF KnownIsPresent, BoxOutlastsBan, BoxTypes

LEMMA NextKeeps == BoxInv /\ [Next]_vars => BoxInv'
<1> SUFFICES ASSUME BoxInv, [Next]_vars PROVE BoxInv'
  OBVIOUS
<1> Callers \subseteq Actors /\ Shell \subseteq Actors /\ Others \subseteq Actors
  BY DEF Actors
<1>1. CASE Tick
  BY <1>1, TickKeeps
<1>2. CASE ChangeRules
  BY <1>2 DEF ChangeRules, gate, BoxInv, BoxTypes, LiveAnswers, KnownIsPresent, BoxOutlastsBan
<1>3. ASSUME NEW c \in Callers, Call(c) PROVE BoxInv'
  BY <1>3, WaitKeeps, LeaveKeeps, ReportKeeps DEF Call
<1>4. ASSUME NEW s \in Shell, TakeNow(s) PROVE BoxInv'
  BY <1>4, WaitKeeps
<1>5. ASSUME NEW d \in Shell \cup Others, Bypass(d) \/ Report(d) PROVE BoxInv'
  BY <1>5, WaitKeeps, ReportKeeps
<1>6. ASSUME NEW o \in Others, Hint(o) PROVE BoxInv'
  BY <1>6, LeaveKeeps
<1>7. ASSUME NEW a \in Actors, Arrive(a) \/ Lose(a) PROVE BoxInv'
  BY <1>7, ArriveKeeps, LeaveKeeps
<1>8. CASE UNCHANGED vars
  BY <1>8 DEF vars, gate, site, BoxInv, BoxTypes, LiveAnswers, KnownIsPresent, BoxOutlastsBan
<1> QED
  BY <1>1, <1>2, <1>3, <1>4, <1>5, <1>6, <1>7, <1>8 DEF Next

(* Whatever the rules, the bans and the holds, and in whatever order the   *)
(* answers reach the gate: the box a 429 began lasts as long as the ban.   *)
THEOREM BoxNeverOpensEarly == Spec => []BoxOutlastsBan
<1>1. BoxInv => BoxOutlastsBan
  BY DEF BoxInv
<1> QED
  BY InitBoxInv, NextKeeps, <1>1, PTL DEF Spec

-----------------------------------------------------------------------------
(* Induction over numbers, by the least one of those left out.             *)
LEMMA EveryNumber ==
    ASSUME NEW S, 0 \in S, \A n \in Nat : n \in S => n + 1 \in S
    PROVE  Nat \subseteq S
<1> DEFINE T == Nat \ S
<1> SUFFICES ASSUME T # {} PROVE FALSE
  OBVIOUS
<1>1. PICK m \in T : \A k \in T : ~ (<<k, m>> \in OpToRel(<, Nat))
  BY WFMin, NatLessThanWellFounded
<1>2. m \in Nat /\ m # 0
  OBVIOUS
<1>3. m - 1 \in Nat /\ m - 1 < m /\ (m - 1) + 1 = m
  BY <1>2
<1>4. m - 1 \in S
  BY <1>1, <1>3 DEF OpToRel
<1> QED
  BY <1>3, <1>4

LEMMA LeastNumber ==
    ASSUME NEW S, S \subseteq Nat, S # {}
    PROVE  Min(S) \in S /\ \A y \in S : Min(S) <= y
<1>1. PICK m \in S : \A k \in S : ~ (<<k, m>> \in OpToRel(<, Nat))
  BY WFMin, NatLessThanWellFounded
<1>2. m \in Nat /\ \A y \in S : y \in Nat /\ ~(y < m)
  BY <1>1 DEF OpToRel
<1>3. \A y \in S : m <= y
  BY <1>2
<1> QED
  BY <1>3 DEF Min

LEMMA GreaterOfTwo == ASSUME NEW x \in Nat PROVE Max({1, x}) = IF x >= 1 THEN x ELSE 1
<1>1. \E y \in {1, x} : \A z \in {1, x} : y >= z
  OBVIOUS
<1>2. Max({1, x}) \in {1, x} /\ \A z \in {1, x} : Max({1, x}) >= z
  BY <1>1 DEF Max
<1> QED
  BY <1>2

LEMMA Quotient ==
    ASSUME NEW a \in Nat, NEW b \in Nat, b > 0
    PROVE  a \div b \in Nat /\ (a \div b) * b <= a /\ a < (a \div b) * b + b
  BY SMT

-----------------------------------------------------------------------------
(* A log keeps a rule when no window of the rule's length, wherever it     *)
(* lies, holds more than its limit.                                        *)
Upto(log, w) == IF w = 0 THEN 0 ELSE log[w]
Keeps(log, q) ==
    \A a, b \in 0..Longest : a <= b /\ b <= a + Window(q) => Upto(log, b) <= Upto(log, a) + Limit(q)
KeepsAll(log, ch) == \A i \in DOMAIN ch : Keeps(log, ch[i])

Sound == {r \in Rule : Limit(r) >= 1 /\ Window(r) \in 1..Longest}

LEMMA UptoType == ASSUME NEW log \in Log, NEW w \in 0..Longest PROVE Upto(log, w) \in Nat
  BY RulesAssumption DEF Log, Upto

LEMMA OneTimeMore ==
    \A n, x \in Nat : n * x \in Nat /\ (n + 1) * x = n * x + x
<1> TAKE n, x \in Nat
<1>1. n * x \in Nat
  OBVIOUS
<1>2. (n + 1) * x = n * x + x
  OBVIOUS
<1> QED
  BY <1>1, <1>2

LEMMA ManyWindows ==
    ASSUME NEW log \in Log, NEW q \in Sound, Keeps(log, q), NEW k \in Nat
    PROVE  \A a, b \in 0..Longest : a <= b /\ b <= a + k * Window(q) => Upto(log, b) <= Upto(log, a) + k * Limit(q)
<1> DEFINE P(n) == \A a, b \in 0..Longest : a <= b /\ b <= a + n * Window(q) => Upto(log, b) <= Upto(log, a) + n * Limit(q)
           S == {n \in Nat : P(n)}
<1>1. Window(q) \in Nat /\ Limit(q) \in Nat /\ Longest \in Nat
  BY RulesAssumption DEF Sound, Rule, Limit, Window
<1>2. 0 \in S
  BY <1>1, UptoType
<1>3. ASSUME NEW n \in Nat, P(n) PROVE P(n + 1)
  <2> SUFFICES ASSUME NEW a \in 0..Longest, NEW b \in 0..Longest, a <= b, b <= a + (n + 1) * Window(q)
               PROVE  Upto(log, b) <= Upto(log, a) + (n + 1) * Limit(q)
    OBVIOUS
  <2> DEFINE c == a + n * Window(q)
  <2>1. /\ n * Window(q) \in Nat /\ n * Limit(q) \in Nat
        /\ (n + 1) * Window(q) = n * Window(q) + Window(q) /\ (n + 1) * Limit(q) = n * Limit(q) + Limit(q)
    BY <1>1, OneTimeMore
  <2>2. Upto(log, a) \in Nat /\ Upto(log, b) \in Nat
    BY UptoType
  <2>3. CASE b <= c
    <3>1. Upto(log, b) <= Upto(log, a) + n * Limit(q)
      BY <1>3, <2>3
    <3> QED
      BY <1>1, <2>1, <2>2, <3>1
  <2>4. CASE ~(b <= c)
    <3>1. c \in 0..Longest /\ a <= c /\ c <= b /\ b <= c + Window(q)
      BY <1>1, <2>1, <2>4
    <3>2. Upto(log, c) <= Upto(log, a) + n * Limit(q)
      BY <1>3, <3>1
    <3>3. Upto(log, b) <= Upto(log, c) + Limit(q) /\ Upto(log, c) \in Nat
      BY <3>1, UptoType DEF Keeps
    <3> QED
      BY <1>1, <2>1, <2>2, <3>2, <3>3
  <2> QED
    BY <2>3, <2>4
<1>4. \A n \in Nat : n \in S => n + 1 \in S
  BY <1>3
<1> HIDE DEF S
<1>5. Nat \subseteq S
  BY <1>2, <1>4, EveryNumber
<1> QED
  BY <1>5 DEF S

(* So many windows of q cover one of r.                                    *)
LEMMA TouchingCovers ==
    ASSUME NEW r \in Sound, NEW q \in Sound
    PROVE  /\ Touching(r, q) \in Nat /\ Touching(r, q) >= 1
           /\ Window(r) <= Touching(r, q) * Window(q)
           /\ (Touching(r, q) - 1) * Window(q) < Window(r)
<1> DEFINE a == Window(r) + Window(q) - 1
           b == Window(q)
           t == a \div b
<1>1. Window(r) \in Nat /\ b \in Nat /\ Window(r) >= 1 /\ b >= 1 /\ a \in Nat
  BY RulesAssumption DEF Sound, Rule, Window
<1>2. t \in Nat /\ t * b <= a /\ a < t * b + b
  BY <1>1, Quotient
<1>3. t >= 1
  <2>1. t = 0 => t * b = 0
    BY <1>1
  <2> QED
    BY <1>1, <1>2, <2>1
<1>4. (t - 1) * b = t * b - b
  BY <1>1, <1>2
<1>5. t * b \in Nat
  BY <1>1, <1>2
<1>6. Window(r) <= t * b /\ (t - 1) * b < Window(r)
  BY <1>1, <1>2, <1>4, <1>5
<1> QED
  BY <1>2, <1>3, <1>6 DEF Touching

(* A log that keeps a rule keeps any that as many of its windows imply.    *)
LEMMA Implied ==
    ASSUME NEW log \in Log, NEW r \in Sound, NEW q \in Sound, Keeps(log, q), NEW l \in Nat,
           Limit(q) * Touching(r, q) <= l, l <= Limit(r)
    PROVE  Keeps(log, r)
<1> DEFINE t == Touching(r, q)
<1>1. t \in Nat /\ Window(r) <= t * Window(q)
  BY TouchingCovers
<1>2. Window(q) \in Nat /\ Limit(q) \in Nat /\ Limit(r) \in Nat /\ Window(r) \in Nat /\ Longest \in Nat
  BY RulesAssumption DEF Sound, Rule, Limit, Window
<1> SUFFICES ASSUME NEW a \in 0..Longest, NEW b \in 0..Longest, a <= b, b <= a + Window(r)
             PROVE  Upto(log, b) <= Upto(log, a) + Limit(r)
  BY DEF Keeps
<1>3. t * Window(q) \in Nat /\ t * Limit(q) \in Nat /\ t * Limit(q) = Limit(q) * t
  BY <1>1, <1>2
<1>4. b <= a + t * Window(q)
  BY <1>1, <1>2, <1>3
<1>5. Upto(log, b) <= Upto(log, a) + t * Limit(q)
  BY <1>1, <1>4, ManyWindows
<1>6. Upto(log, a) \in Nat /\ Upto(log, b) \in Nat
  BY UptoType
<1> HIDE DEF t
<1>7. t * Limit(q) <= Limit(r)
  BY <1>2, <1>3 DEF t
<1> QED
  BY <1>2, <1>3, <1>5, <1>6, <1>7

LEMMA Stricter ==
    ASSUME NEW log \in Log, NEW r \in Sound, NEW q \in Sound, Keeps(log, q), Window(r) <= Window(q), Limit(q) <= Limit(r)
    PROVE  Keeps(log, r)
<1>1. Window(q) \in Nat /\ Limit(q) \in Nat /\ Limit(r) \in Nat /\ Window(r) \in Nat /\ Longest \in Nat
  BY RulesAssumption DEF Sound, Rule, Limit, Window
<1> SUFFICES ASSUME NEW a \in 0..Longest, NEW b \in 0..Longest, a <= b, b <= a + Window(r)
             PROVE  Upto(log, b) <= Upto(log, a) + Limit(r)
  BY DEF Keeps
<1>2. Upto(log, b) <= Upto(log, a) + Limit(q)
  BY <1>1 DEF Keeps
<1> QED
  BY <1>1, <1>2, UptoType

(* What add() tightens a shorter rule to is no longer than it, is one it   *)
(* can take, and implies the longer one.                                   *)
LEMMA TightenedIs ==
    ASSUME NEW r \in Sound, NEW q \in Sound, Faster(r, q), ~(Limit(q) * Touching(r, q) <= Limit(r))
    PROVE  /\ Tightened(r, q) \in Sound /\ Window(Tightened(r, q)) = Window(q)
           /\ Limit(Tightened(r, q)) <= Limit(q)
           /\ Limit(Tightened(r, q)) * Touching(r, q) <= Limit(r)
           /\ Touching(r, Tightened(r, q)) = Touching(r, q)
<1> DEFINE t == Touching(r, q)
           m == Limit(r) \div t
<1>1. t \in Nat /\ t >= 1 /\ (t - 1) * Window(q) < Window(r)
  BY TouchingCovers
<1>2. Window(q) \in Nat /\ Limit(q) \in Nat /\ Limit(r) \in Nat /\ Window(r) \in Nat /\ Limit(q) >= 1 /\ Window(q) >= 1
      /\ Window(q) \in 1..Longest
  BY RulesAssumption DEF Sound, Rule, Limit, Window
<1>3. m \in Nat /\ m * t <= Limit(r) /\ Limit(r) < m * t + t
  BY <1>1, <1>2, Quotient
<1>4. t <= Limit(r)
  <2>1. Window(r) <= Limit(q) * Window(r)
    BY <1>2
  <2>2. (t - 1) * Window(q) < Limit(r) * Window(q)
    BY <1>1, <1>2, <2>1 DEF Faster
  <2>3. t - 1 < Limit(r)
    <3> SUFFICES ASSUME Limit(r) <= t - 1 PROVE FALSE
      BY <1>1, <1>2
    <3>1. Limit(r) * Window(q) <= (t - 1) * Window(q)
      BY <1>1, <1>2
    <3> QED
      BY <1>1, <1>2, <2>2, <3>1
  <2> QED
    BY <1>1, <1>2, <2>3
<1>5. m >= 1
  <2>1. m = 0 => m * t = 0
    BY <1>1
  <2> QED
    BY <1>1, <1>2, <1>3, <1>4, <2>1
<1>6. m <= Limit(q)
  <2> SUFFICES ASSUME Limit(q) <= m PROVE Limit(q) = m
    BY <1>2, <1>3
  <2>1. Limit(q) * t <= m * t
    BY <1>1, <1>2, <1>3
  <2> QED
    BY <1>1, <1>2, <1>3, <2>1
<1>7. Tightened(r, q) = <<m, Window(q)>>
  BY <1>3, <1>5, GreaterOfTwo DEF Tightened
<1> HIDE DEF m
<1>8. Limit(Tightened(r, q)) = m /\ Window(Tightened(r, q)) = Window(q) /\ Tightened(r, q) \in Rule
  BY <1>2, <1>3, <1>7 DEF Limit, Window, Rule
<1> QED
  BY <1>2, <1>3, <1>5, <1>6, <1>8 DEF Sound, Touching

-----------------------------------------------------------------------------
(* A chain the limiter library accepts, with no two of its rules out of    *)
(* order.                                                                  *)
Ascends(ch) ==
    /\ \A i, j \in DOMAIN ch : i < j => Limit(ch[i]) < Limit(ch[j]) /\ Window(ch[i]) < Window(ch[j])
    /\ \A i \in 1..Len(ch) - 1 : ~Faster(ch[i + 1], ch[i])
Chains == {ch \in Seq(Sound) : Ascends(ch)}

Shorter(ch, w) == \A i \in DOMAIN ch : Window(ch[i]) < w

(* What add() owes: a chain that holds whatever the old one held, and the  *)
(* rule that joined.                                                       *)
Loosens(ch, kept, r) == \E log \in Log : KeepsAll(log, ch) /\ ~(KeepsAll(log, kept) /\ Keeps(log, r))
Owed(kept, r, ch) ==
    ch \in Chains /\ ch # <<>> /\ Shorter(ch, Window(r) + 1) /\ ~Loosens(ch, kept, r)

LEMMA SoundTypes ==
    ASSUME NEW r \in Sound
    PROVE  /\ r \in Rule /\ Limit(r) \in Nat /\ Window(r) \in Nat /\ Limit(r) >= 1 /\ Window(r) >= 1
           /\ Window(r) <= Longest /\ Longest \in Nat
  BY RulesAssumption DEF Sound, Rule, Limit, Window

LEMMA FrontOf ==
    ASSUME NEW S, NEW s \in Seq(S), s # <<>>
    PROVE  /\ Front(s) \in Seq(S) /\ Len(Front(s)) = Len(s) - 1 /\ Len(s) \in Nat /\ Len(s) >= 1
           /\ \A i \in 1..Len(s) - 1 : Front(s)[i] = s[i]
           /\ DOMAIN s = 1..Len(s) /\ DOMAIN Front(s) = 1..Len(s) - 1
           /\ Last(s) = s[Len(s)] /\ Last(s) \in S
<1>1. Len(s) \in Nat /\ Len(s) >= 1 /\ DOMAIN s = 1..Len(s)
  BY EmptySeq, LenProperties
<1>2. Front(s) = SubSeq(s, 1, Len(s) - 1)
  BY DEF Front
<1>3. /\ SubSeq(s, 1, Len(s) - 1) \in Seq(S) /\ Len(SubSeq(s, 1, Len(s) - 1)) = Len(s) - 1
      /\ \A i \in 1..Len(s) - 1 : SubSeq(s, 1, Len(s) - 1)[i] = s[i]
  BY <1>1
<1>4. DOMAIN Front(s) = 1..Len(s) - 1
  BY <1>1, <1>2, <1>3, LenProperties
<1>5. Last(s) = s[Len(s)] /\ Last(s) \in S
  BY <1>1, ElementOfSeq DEF Last
<1> QED
  BY <1>1, <1>2, <1>3, <1>4, <1>5

LEMMA FrontChain ==
    ASSUME NEW kept \in Chains, kept # <<>>
    PROVE  Front(kept) \in Chains /\ Last(kept) \in Sound /\ Shorter(Front(kept), Window(Last(kept)))
<1>1. /\ Front(kept) \in Seq(Sound) /\ Len(Front(kept)) = Len(kept) - 1 /\ Len(kept) \in Nat /\ Len(kept) >= 1
      /\ \A i \in 1..Len(kept) - 1 : Front(kept)[i] = kept[i]
      /\ DOMAIN kept = 1..Len(kept) /\ DOMAIN Front(kept) = 1..Len(kept) - 1
      /\ Last(kept) = kept[Len(kept)] /\ Last(kept) \in Sound
  BY FrontOf DEF Chains
<1>2. Ascends(kept)
  BY DEF Chains
<1>3. Ascends(Front(kept))
  <2>1. ASSUME NEW i \in DOMAIN Front(kept), NEW j \in DOMAIN Front(kept), i < j
        PROVE  Limit(Front(kept)[i]) < Limit(Front(kept)[j]) /\ Window(Front(kept)[i]) < Window(Front(kept)[j])
    BY <1>1, <1>2, <2>1 DEF Ascends
  <2>2. ASSUME NEW i \in 1..Len(Front(kept)) - 1
        PROVE  ~Faster(Front(kept)[i + 1], Front(kept)[i])
    <3>1. i \in 1..Len(kept) - 1 /\ i + 1 \in 1..Len(kept) - 1
      BY <1>1
    <3> QED
      BY <1>1, <1>2, <3>1 DEF Ascends
  <2> QED
    BY <2>1, <2>2 DEF Ascends
<1>4. Shorter(Front(kept), Window(Last(kept)))
  <2> SUFFICES ASSUME NEW i \in 1..Len(kept) - 1 PROVE Window(kept[i]) < Window(kept[Len(kept)])
    BY <1>1 DEF Shorter
  <2> QED
    BY <1>1, <1>2 DEF Ascends
<1> QED
  BY <1>1, <1>3, <1>4 DEF Chains

LEMMA KeptInFront ==
    ASSUME NEW kept \in Chains, kept # <<>>, NEW log, KeepsAll(log, Front(kept)), Keeps(log, Last(kept))
    PROVE  KeepsAll(log, kept)
<1>1. /\ Len(kept) \in Nat /\ Len(kept) >= 1
      /\ \A i \in 1..Len(kept) - 1 : Front(kept)[i] = kept[i]
      /\ DOMAIN kept = 1..Len(kept) /\ DOMAIN Front(kept) = 1..Len(kept) - 1
      /\ Last(kept) = kept[Len(kept)]
  BY FrontOf DEF Chains
<1> SUFFICES ASSUME NEW i \in DOMAIN kept PROVE Keeps(log, kept[i])
  BY DEF KeepsAll
<1>2. CASE i = Len(kept)
  BY <1>1, <1>2
<1>3. CASE i # Len(kept)
  <2>1. i \in 1..Len(kept) - 1
    BY <1>1, <1>3
  <2> QED
    BY <1>1, <2>1 DEF KeepsAll
<1> QED
  BY <1>2, <1>3

(* A rule at the end of a chain, longer and no faster than its last one.   *)
LEMMA AppendChain ==
    ASSUME NEW kept \in Chains, NEW r \in Sound, Shorter(kept, Window(r)),
           kept # <<>> => Limit(Last(kept)) < Limit(r) /\ ~Faster(r, Last(kept))
    PROVE  Owed(kept, r, Append(kept, r))
<1> DEFINE ch == Append(kept, r)
           n == Len(kept)
<1>1. /\ kept \in Seq(Sound) /\ n \in Nat /\ DOMAIN kept = 1..n /\ Ascends(kept)
      /\ \A i \in 1..n : kept[i] \in Sound
  BY LenProperties, ElementOfSeq DEF Chains
<1>2. /\ ch \in Seq(Sound) /\ Len(ch) = n + 1 /\ \A i \in 1..n : ch[i] = kept[i]
      /\ ch[n + 1] = r
  BY <1>1, AppendProperties
<1>2a. DOMAIN ch = 1..n + 1
  BY <1>2, LenProperties
<1> HIDE DEF ch
<1>3. \A i \in 1..n : Limit(kept[i]) < Limit(r) /\ Window(kept[i]) < Window(r)
  <2> SUFFICES ASSUME NEW i \in 1..n PROVE Limit(kept[i]) < Limit(r)
    BY <1>1 DEF Shorter
  <2>1. kept # <<>> /\ Last(kept) = kept[n] /\ n \in 1..n
    BY <1>1, EmptySeq DEF Last
  <2>2. i = n \/ Limit(kept[i]) < Limit(kept[n])
    <3>0. n \in Nat
      BY <1>1
    <3> HIDE DEF n
    <3>1. i = n \/ i < n
      BY <3>0
    <3> QED
      BY <1>1, <2>1, <3>1 DEF Ascends
  <2>3. Limit(kept[i]) \in Nat /\ Limit(kept[n]) \in Nat /\ Limit(r) \in Nat
    BY <1>1, <2>1, SoundTypes
  <2> QED
    BY <2>1, <2>2, <2>3
<1>4. Ascends(ch)
  <2>1. ASSUME NEW i \in DOMAIN ch, NEW j \in DOMAIN ch, i < j
        PROVE  Limit(ch[i]) < Limit(ch[j]) /\ Window(ch[i]) < Window(ch[j])
    <3>1. i \in 1..n
      BY <1>1, <1>2a, <2>1
    <3>2. CASE j = n + 1
      BY <1>2, <1>3, <3>1, <3>2
    <3>3. CASE j # n + 1
      <4>1. j \in 1..n
        BY <1>1, <1>2a, <3>3
      <4> QED
        BY <1>1, <1>2, <2>1, <3>1, <4>1 DEF Ascends
    <3> QED
      BY <3>2, <3>3
  <2>2. ASSUME NEW i \in 1..n PROVE ~Faster(ch[i + 1], ch[i])
    <3>1. CASE i = n
      <4>1. kept # <<>> /\ Last(kept) = kept[n]
        BY <1>1, EmptySeq DEF Last
      <4> QED
        BY <1>2, <3>1, <4>1
    <3>2. CASE i # n
      <4>0. n \in Nat
        BY <1>1
      <4> HIDE DEF n
      <4>1. i \in 1..n - 1 /\ i + 1 \in 1..n
        BY <4>0, <3>2
      <4> QED
        BY <1>1, <1>2, <4>1 DEF Ascends
    <3> QED
      BY <3>1, <3>2
  <2> QED
    BY <1>1, <1>2, <2>1, <2>2 DEF Ascends
<1>5. Shorter(ch, Window(r) + 1)
  <2> SUFFICES ASSUME NEW i \in 1..n + 1 PROVE Window(ch[i]) < Window(r) + 1
    BY <1>2a DEF Shorter
  <2>1. Window(r) \in Nat
    BY SoundTypes
  <2>2. CASE i = n + 1
    BY <1>2, <2>1, <2>2
  <2>3. CASE i # n + 1
    <3>1. i \in 1..n
      BY <1>1, <2>3
    <3>2. Window(kept[i]) \in Nat
      BY <1>1, <3>1, SoundTypes
    <3> QED
      BY <1>2, <1>3, <2>1, <3>1, <3>2
  <2> QED
    BY <2>2, <2>3
<1>6. ~Loosens(ch, kept, r)
  <2> SUFFICES ASSUME NEW log \in Log, KeepsAll(log, ch) PROVE KeepsAll(log, kept) /\ Keeps(log, r)
    BY DEF Loosens
  <2>1. \A i \in 1..n : i \in DOMAIN ch
    BY <1>1, <1>2a
  <2>2. n + 1 \in DOMAIN ch
    BY <1>1, <1>2a
  <2> QED
    BY <1>1, <1>2, <2>1, <2>2 DEF KeepsAll
<1>7. ch # <<>>
  BY <1>1, <1>2, EmptySeq
<1> QED
  BY <1>2, <1>4, <1>5, <1>6, <1>7 DEF Owed, Chains, ch

(* A log that keeps the last rule but one, or what it was tightened to.    *)
LEMMA OwedByFront ==
    ASSUME NEW kept \in Chains, kept # <<>>, NEW r \in Sound, NEW s \in Sound, NEW ch,
           Owed(Front(kept), s, ch), Window(s) <= Window(r),
           \A log \in Log : Keeps(log, s) => Keeps(log, Last(kept)) /\ Keeps(log, r)
    PROVE  Owed(kept, r, ch)
<1>1. Shorter(ch, Window(r) + 1)
  <2> SUFFICES ASSUME NEW i \in DOMAIN ch PROVE Window(ch[i]) < Window(r) + 1
    BY DEF Shorter
  <2>1. ch[i] \in Sound
    BY ElementOfSeq, LenProperties DEF Owed, Chains
  <2>2. Window(ch[i]) < Window(s) + 1
    BY DEF Owed, Shorter
  <2> QED
    BY <2>1, <2>2, SoundTypes
<1>2. ~Loosens(ch, kept, r)
  <2> SUFFICES ASSUME NEW log \in Log, KeepsAll(log, ch) PROVE KeepsAll(log, kept) /\ Keeps(log, r)
    BY DEF Loosens
  <2>1. KeepsAll(log, Front(kept)) /\ Keeps(log, s)
    BY DEF Owed, Loosens
  <2> QED
    BY <2>1, KeptInFront
<1> QED
  BY <1>1, <1>2 DEF Owed

(* One call of add(), over calls for a shorter chain that do what it owes. *)
LEMMA WithRuleOwed ==
    ASSUME NEW kept \in Chains, NEW r \in Sound, Shorter(kept, Window(r)), NEW shorter,
           kept # <<>> => \A s \in Sound : Shorter(Front(kept), Window(s)) => Owed(Front(kept), s, shorter[s])
    PROVE  Owed(kept, r, WithRule(shorter, kept)[r])
<1> DEFINE q == Last(kept)
           next == WithRule(shorter, kept)[r]
<1>1. r \in Rule /\ Limit(r) \in Nat /\ Window(r) \in Nat
  BY SoundTypes
<1>2. CASE kept = <<>>
  <2>1. next = <<r>> /\ <<r>> = Append(kept, r)
    BY <1>1, <1>2 DEF WithRule
  <2> QED
    BY <1>2, <2>1, AppendChain
<1>3. CASE kept # <<>>
  <2>1. Front(kept) \in Chains /\ q \in Sound /\ Shorter(Front(kept), Window(q))
    BY <1>3, FrontChain
  <2>2. Limit(q) \in Nat /\ Window(q) \in Nat /\ Window(q) < Window(r)
    <3>1. Len(kept) \in DOMAIN kept /\ q = kept[Len(kept)]
      BY <1>3, FrontOf DEF Chains
    <3> QED
      BY <2>1, <3>1, SoundTypes DEF Shorter
  <2>3. Shorter(Front(kept), Window(r))
    <3> SUFFICES ASSUME NEW i \in DOMAIN Front(kept) PROVE Window(Front(kept)[i]) < Window(r)
      BY DEF Shorter
    <3>1. Front(kept)[i] \in Sound /\ Window(Front(kept)[i]) < Window(q)
      BY <2>1, ElementOfSeq, LenProperties DEF Shorter, Chains
    <3> QED
      BY <1>1, <2>2, <3>1, SoundTypes
  <2>4. CASE Limit(r) <= Limit(q)
    <3>1. next = shorter[r]
      <4>1. ~(Limit(r) > Limit(q))
        BY <1>1, <2>2, <2>4
      <4> QED
        BY <1>1, <1>3, <2>4, <4>1 DEF WithRule
    <3>2. \A log \in Log : Keeps(log, r) => Keeps(log, Last(kept)) /\ Keeps(log, r)
      BY <1>1, <2>1, <2>2, <2>4, Stricter
    <3> QED
      BY <1>1, <1>3, <2>3, <3>1, <3>2, OwedByFront
  <2>5. CASE ~(Limit(r) <= Limit(q)) /\ Faster(r, q) /\ Limit(q) * Touching(r, q) <= Limit(r)
    <3>1. next = kept
      <4>1. Limit(r) > Limit(q)
        BY <1>1, <2>2, <2>5
      <4> QED
        BY <1>1, <1>3, <2>5, <4>1 DEF WithRule
    <3>2. ASSUME NEW log \in Log, KeepsAll(log, kept) PROVE Keeps(log, r)
      <4>1. Keeps(log, q)
        BY <1>3, <3>2, FrontOf DEF KeepsAll, Chains
      <4> QED
        BY <1>1, <2>1, <2>5, <4>1, Implied
    <3>3. Shorter(kept, Window(r) + 1)
      <4> SUFFICES ASSUME NEW i \in DOMAIN kept PROVE Window(kept[i]) < Window(r) + 1
        BY DEF Shorter
      <4>1. kept[i] \in Sound /\ Window(kept[i]) < Window(r)
        BY ElementOfSeq, LenProperties DEF Shorter, Chains
      <4> QED
        BY <1>1, <4>1, SoundTypes
    <3> QED
      BY <1>3, <3>1, <3>2, <3>3 DEF Owed, Loosens
  <2>6. CASE ~(Limit(r) <= Limit(q)) /\ Faster(r, q) /\ ~(Limit(q) * Touching(r, q) <= Limit(r))
    <3> DEFINE s == Tightened(r, q)
    <3>1. /\ s \in Sound /\ Window(s) = Window(q) /\ Limit(s) <= Limit(q)
          /\ Limit(s) * Touching(r, q) <= Limit(r) /\ Touching(r, s) = Touching(r, q)
      BY <2>1, <2>6, TightenedIs
    <3> HIDE DEF s
    <3>2. next = shorter[s]
      <4>1. Limit(r) > Limit(q)
        BY <1>1, <2>2, <2>6
      <4> QED
        BY <1>1, <1>3, <2>6, <4>1 DEF WithRule, s
    <3>3. ASSUME NEW log \in Log, Keeps(log, s) PROVE Keeps(log, q) /\ Keeps(log, r)
      <4>1. Keeps(log, q)
        BY <2>1, <2>2, <3>1, <3>3, Stricter
      <4>2. Limit(r) \in Nat /\ Limit(s) * Touching(r, s) <= Limit(r) /\ Limit(r) <= Limit(r)
        BY <1>1, <3>1
      <4>3. Keeps(log, r)
        BY <3>1, <3>3, <4>2, Implied
      <4> QED
        BY <4>1, <4>3
    <3>4. Owed(Front(kept), s, shorter[s])
      BY <1>3, <2>1, <3>1
    <3>5. Window(s) <= Window(r)
      BY <1>1, <2>2, <3>1
    <3> QED
      BY <1>3, <3>1, <3>2, <3>3, <3>4, <3>5, OwedByFront
  <2>7. CASE ~(Limit(r) <= Limit(q)) /\ ~Faster(r, q)
    <3>1. Limit(r) > Limit(q)
      BY <1>1, <2>2, <2>7
    <3>2. next = Append(kept, r)
      BY <1>1, <1>3, <2>7, <3>1 DEF WithRule
    <3> QED
      BY <2>7, <3>1, <3>2, AppendChain
  <2> QED
    BY <2>4, <2>5, <2>6, <2>7
<1> QED
  BY <1>2, <1>3

-----------------------------------------------------------------------------
(* add() is well defined: what it does to a chain depends only on what it  *)
(* does to the chain without its last rule.                                *)
UpToLength(n) == {kept \in Seq(Rule) : Len(kept) < n}
Partly(f, n) == f = [kept \in UpToLength(n) |-> WithRule(f[Front(kept)], kept)]

LEMMA EmptyChainAlone == \A f, g : WithRule(f, <<>>) = WithRule(g, <<>>)
  BY DEF WithRule

LEMMA PartlyAt ==
    ASSUME NEW n, NEW f, Partly(f, n), NEW kept \in UpToLength(n)
    PROVE  f[kept] = WithRule(f[Front(kept)], kept)
<1> DEFINE g == [k \in UpToLength(n) |-> WithRule(f[Front(k)], k)]
<1>1. g[kept] = WithRule(f[Front(kept)], kept)
  OBVIOUS
<1>2. f = g
  BY DEF Partly
<1> QED
  BY <1>1, <1>2

LEMMA PartlyExists == \A n \in Nat : \E f : Partly(f, n)
<1> DEFINE S == {n \in Nat : \E f : Partly(f, n)}
<1>1. 0 \in S
  <2>1. UpToLength(0) = {}
    <3> SUFFICES ASSUME NEW kept \in Seq(Rule) PROVE ~(Len(kept) < 0)
      BY DEF UpToLength
    <3> QED
      BY LenProperties
  <2> DEFINE e == [kept \in {} |-> <<>>]
  <2>2. e = [kept \in UpToLength(0) |-> WithRule(e[Front(kept)], kept)]
    BY <2>1
  <2> QED
    BY <2>2 DEF Partly
<1>2. ASSUME NEW n \in Nat, n \in S PROVE n + 1 \in S
  <2>1. PICK f : Partly(f, n)
    BY <1>2
  <2> DEFINE g == [kept \in UpToLength(n + 1) |-> WithRule(f[Front(kept)], kept)]
  <2>2. ASSUME NEW kept \in UpToLength(n + 1) PROVE g[kept] = WithRule(g[Front(kept)], kept)
    <3>1. CASE kept = <<>>
      BY <3>1, EmptyChainAlone
    <3>2. CASE kept # <<>>
      <4>1. Front(kept) \in UpToLength(n) /\ Front(kept) \in UpToLength(n + 1)
        <5>1. Front(kept) \in Seq(Rule) /\ Len(Front(kept)) = Len(kept) - 1 /\ Len(kept) \in Nat /\ Len(kept) < n + 1
          BY <3>2, FrontOf DEF UpToLength
        <5> QED
          BY <5>1 DEF UpToLength
      <4>2. g[Front(kept)] = f[Front(kept)]
        BY <2>1, <4>1, PartlyAt
      <4> QED
        BY <4>2
    <3> QED
      BY <3>1, <3>2
  <2>3. g = [kept \in UpToLength(n + 1) |-> WithRule(g[Front(kept)], kept)]
    BY <2>2
  <2> HIDE DEF g
  <2>4. Partly(g, n + 1)
    BY <2>3 DEF Partly
  <2> QED
    BY <2>4
<1>3. \A n \in Nat : n \in S => n + 1 \in S
  BY <1>2
<1> HIDE DEF S
<1>4. Nat \subseteq S
  BY <1>1, <1>3, EveryNumber
<1> QED
  BY <1>4 DEF S

LEMMA PartlyAgree ==
    ASSUME NEW n \in Nat, NEW m \in Nat, NEW f, NEW g, Partly(f, n), Partly(g, m)
    PROVE  \A kept \in UpToLength(n) \cap UpToLength(m) : f[kept] = g[kept]
<1> DEFINE P(k) == \A kept \in UpToLength(n) \cap UpToLength(m) : Len(kept) <= k => f[kept] = g[kept]
           S == {k \in Nat : P(k)}
<1>1. ASSUME NEW kept \in UpToLength(n) \cap UpToLength(m), kept = <<>> PROVE f[kept] = g[kept]
  <2>1. f[kept] = WithRule(f[Front(kept)], kept) /\ g[kept] = WithRule(g[Front(kept)], kept)
    BY PartlyAt
  <2> QED
    BY <1>1, <2>1, EmptyChainAlone
<1>2. 0 \in S
  <2>1. \A kept \in UpToLength(n) : Len(kept) <= 0 => kept = <<>>
    BY EmptySeq, LenProperties DEF UpToLength
  <2> QED
    BY <1>1, <2>1
<1>3. ASSUME NEW k \in Nat, P(k) PROVE P(k + 1)
  <2> SUFFICES ASSUME NEW kept \in UpToLength(n) \cap UpToLength(m), Len(kept) <= k + 1 PROVE f[kept] = g[kept]
    OBVIOUS
  <2>1. CASE kept # <<>>
    <3>1. /\ Front(kept) \in Seq(Rule) /\ Len(Front(kept)) = Len(kept) - 1 /\ Len(kept) \in Nat
          /\ Len(kept) < n /\ Len(kept) < m
      BY <2>1, FrontOf DEF UpToLength
    <3>2. Front(kept) \in UpToLength(n) \cap UpToLength(m) /\ Len(Front(kept)) <= k
      BY <3>1 DEF UpToLength
    <3>3. f[Front(kept)] = g[Front(kept)]
      BY <1>3, <3>2
    <3>4. f[kept] = WithRule(f[Front(kept)], kept) /\ g[kept] = WithRule(g[Front(kept)], kept)
      BY PartlyAt
    <3> QED
      BY <3>3, <3>4
  <2> QED
    BY <1>1, <2>1
<1>4. \A k \in Nat : k \in S => k + 1 \in S
  BY <1>3
<1> HIDE DEF S
<1>5. Nat \subseteq S
  BY <1>2, <1>4, EveryNumber
<1> QED
  <2> SUFFICES ASSUME NEW kept \in UpToLength(n) \cap UpToLength(m) PROVE f[kept] = g[kept]
    OBVIOUS
  <2>1. Len(kept) \in Nat /\ Len(kept) <= Len(kept)
    BY LenProperties DEF UpToLength
  <2>2. Len(kept) \in S
    BY <1>5, <2>1
  <2> QED
    BY <2>1, <2>2 DEF S

LEMMA AddedIs == \A kept \in Seq(Rule) : Added[kept] = WithRule(Added[Front(kept)], kept)
<1> DEFINE A(n) == CHOOSE f : Partly(f, n)
           F == [kept \in Seq(Rule) |-> A(Len(kept) + 1)[kept]]
           Fixpoint(f) == f = [kept \in Seq(Rule) |-> WithRule(f[Front(kept)], kept)]
<1>1. \A n \in Nat : Partly(A(n), n)
  BY PartlyExists
<1> HIDE DEF A
<1>2. ASSUME NEW kept \in Seq(Rule) PROVE F[kept] = WithRule(F[Front(kept)], kept)
  <2> DEFINE n == Len(kept)
  <2>1. n \in Nat /\ n + 1 \in Nat /\ kept \in UpToLength(n + 1)
    BY LenProperties DEF UpToLength
  <2>2. F[kept] = WithRule(A(n + 1)[Front(kept)], kept)
    BY <1>1, <2>1, PartlyAt
  <2>3. CASE kept = <<>>
    BY <2>2, <2>3, EmptyChainAlone
  <2>4. CASE kept # <<>>
    <3>1. Front(kept) \in Seq(Rule) /\ Len(Front(kept)) = n - 1 /\ n >= 1
      BY <2>4, FrontOf
    <3>2. Front(kept) \in UpToLength(n + 1) \cap UpToLength(n) /\ Len(Front(kept)) + 1 = n
      BY <2>1, <3>1 DEF UpToLength
    <3>3. A(n + 1)[Front(kept)] = A(n)[Front(kept)]
      BY <1>1, <2>1, <3>2, PartlyAgree
    <3>4. F[Front(kept)] = A(n)[Front(kept)]
      BY <3>1, <3>2
    <3> QED
      BY <2>2, <3>3, <3>4
  <2> QED
    BY <2>3, <2>4
<1>3. F = [kept \in Seq(Rule) |-> WithRule(F[Front(kept)], kept)]
  BY <1>2
<1> HIDE DEF F
<1>4. Fixpoint(F)
  BY <1>3
<1>5. Added = CHOOSE f : Fixpoint(f)
  BY DEF Added
<1> HIDE DEF Fixpoint
<1>6. Fixpoint(Added)
  BY <1>4, <1>5, Zenon
<1>7. Added = [kept \in Seq(Rule) |-> WithRule(Added[Front(kept)], kept)]
  BY <1>6 DEF Fixpoint
<1> DEFINE G == [kept \in Seq(Rule) |-> WithRule(Added[Front(kept)], kept)]
<1>8. \A kept \in Seq(Rule) : G[kept] = WithRule(Added[Front(kept)], kept)
  OBVIOUS
<1>9. Added = G
  BY <1>7
<1> HIDE DEF G
<1> QED
  BY <1>8, <1>9

LEMMA AddedOwes ==
    \A kept \in Chains, r \in Sound : Shorter(kept, Window(r)) => Owed(kept, r, Added[kept][r])
<1> DEFINE P(n) == \A kept \in Chains, r \in Sound :
                      Len(kept) <= n /\ Shorter(kept, Window(r)) => Owed(kept, r, Added[kept][r])
           S == {n \in Nat : P(n)}
<1>1. \A kept \in Chains : kept \in Seq(Rule) /\ kept \in Seq(Sound) /\ Len(kept) \in Nat
  <2>1. Sound \subseteq Rule
    BY DEF Sound
  <2>2. Seq(Sound) \subseteq Seq(Rule)
    BY <2>1, SeqMonotonic
  <2> QED
    BY <2>2, LenProperties DEF Chains
<1>2. \A kept \in Chains : Added[kept] = WithRule(Added[Front(kept)], kept)
  BY <1>1, AddedIs
<1>3. 0 \in S
  <2> SUFFICES ASSUME NEW kept \in Chains, NEW r \in Sound, Len(kept) <= 0, Shorter(kept, Window(r))
               PROVE  Owed(kept, r, Added[kept][r])
    OBVIOUS
  <2>1. kept = <<>>
    BY <1>1, EmptySeq
  <2>2. Owed(kept, r, WithRule(Added[Front(kept)], kept)[r])
    BY <2>1, WithRuleOwed
  <2> QED
    BY <1>2, <2>2
<1>4. ASSUME NEW n \in Nat, P(n) PROVE P(n + 1)
  <2> SUFFICES ASSUME NEW kept \in Chains, NEW r \in Sound, Len(kept) <= n + 1, Shorter(kept, Window(r))
               PROVE  Owed(kept, r, Added[kept][r])
    OBVIOUS
  <2>1. ASSUME kept # <<>>, NEW s \in Sound, Shorter(Front(kept), Window(s))
        PROVE  Owed(Front(kept), s, Added[Front(kept)][s])
    <3>1. Front(kept) \in Chains
      BY <2>1, FrontChain
    <3>2. Len(Front(kept)) <= n
      <4>1. Len(Front(kept)) = Len(kept) - 1 /\ Len(kept) \in Nat
        BY <1>1, <2>1, FrontOf
      <4> QED
        BY <4>1
    <3> QED
      BY <1>4, <2>1, <3>1, <3>2
  <2>2. Owed(kept, r, WithRule(Added[Front(kept)], kept)[r])
    BY <2>1, WithRuleOwed
  <2> QED
    BY <1>2, <2>2
<1>5. \A n \in Nat : n \in S => n + 1 \in S
  BY <1>4
<1> HIDE DEF S
<1>6. Nat \subseteq S
  BY <1>3, <1>5, EveryNumber
<1> QED
  <2> SUFFICES ASSUME NEW kept \in Chains, NEW r \in Sound, Shorter(kept, Window(r))
               PROVE  Owed(kept, r, Added[kept][r])
    OBVIOUS
  <2>1. Len(kept) \in Nat /\ Len(kept) <= Len(kept)
    BY <1>1
  <2> QED
    BY <1>6, <2>1 DEF S

-----------------------------------------------------------------------------
(* The chain of the rules with a window up to w.                           *)
Holds(list, w, ch) ==
    /\ ch \in Chains /\ Shorter(ch, w + 1)
    /\ ch = <<>> => \A r \in Range(list) : ~(Window(r) <= w)
    /\ \A log \in Log : KeepsAll(log, ch) => \A r \in Range(list) : Window(r) <= w => Keeps(log, r)

LEMMA WithWindowHolds ==
    ASSUME NEW list \in Seq(Sound), NEW w \in 1..Longest, NEW kept, Holds(list, w - 1, kept)
    PROVE  Holds(list, w, WithWindow(list, kept, w))
<1> DEFINE limits == LimitsOf(list, w)
           r == <<Min(limits), w>>
           ch == WithWindow(list, kept, w)
<1>1. Range(list) \subseteq Sound
  BY ElementOfSeq, LenProperties DEF Range
<1>2. w \in Nat /\ Longest \in Nat /\ w >= 1 /\ (w - 1) + 1 = w
  BY RulesAssumption
<1>3. \A q \in Range(list) : Limit(q) \in Nat /\ Limit(q) > 0 /\ Window(q) \in Nat
  BY <1>1, SoundTypes
<1>4. \A q \in Range(list) : Window(q) = w => Limit(q) \in limits
  BY <1>3 DEF LimitsOf
<1>5. CASE limits = {}
  <2>1. ch = kept
    BY <1>5 DEF WithWindow
  <2>2. \A q \in Range(list) : Window(q) <= w => Window(q) <= w - 1
    BY <1>2, <1>3, <1>4, <1>5
  <2>3. Shorter(kept, w + 1)
    <3> SUFFICES ASSUME NEW i \in DOMAIN kept PROVE Window(kept[i]) < w + 1
      BY DEF Shorter
    <3>1. Window(kept[i]) < w
      BY <1>2 DEF Holds, Shorter
    <3>2. kept[i] \in Sound
      BY ElementOfSeq, LenProperties DEF Holds, Chains
    <3> QED
      BY <1>2, <3>1, <3>2, SoundTypes
  <2> QED
    BY <2>1, <2>2, <2>3 DEF Holds
<1>6. CASE limits # {}
  <2>1. limits \subseteq Nat /\ \A l \in limits : l > 0
    BY <1>3 DEF LimitsOf
  <2>2. Min(limits) \in limits /\ \A l \in limits : Min(limits) <= l
    BY <1>6, <2>1, LeastNumber
  <2>3. r \in Sound /\ Limit(r) = Min(limits) /\ Window(r) = w
    BY <1>2, <2>1, <2>2 DEF Sound, Rule, Limit, Window
  <2> HIDE DEF r, limits
  <2>4. kept \in Chains /\ Shorter(kept, Window(r))
    BY <1>2, <2>3 DEF Holds
  <2>5. Owed(kept, r, Added[kept][r])
    BY <2>3, <2>4, AddedOwes
  <2>6. ch = Added[kept][r]
    BY <1>6 DEF WithWindow, limits, r
  <2> HIDE DEF ch
  <2>7. ASSUME NEW log \in Log, KeepsAll(log, ch), NEW q \in Range(list), Window(q) <= w PROVE Keeps(log, q)
    <3>1. KeepsAll(log, kept) /\ Keeps(log, r)
      BY <2>5, <2>6, <2>7 DEF Owed, Loosens
    <3>2. CASE Window(q) = w
      <4>1. Limit(r) <= Limit(q) /\ Window(q) <= Window(r)
        BY <1>2, <1>4, <2>2, <2>3, <3>2
      <4> QED
        BY <1>1, <2>3, <3>1, <4>1, Stricter
    <3>3. CASE Window(q) # w
      <4>1. Window(q) <= w - 1
        BY <1>2, <1>3, <2>7, <3>3
      <4> QED
        BY <3>1, <4>1 DEF Holds
    <3> QED
      BY <3>2, <3>3
  <2>8. ch \in Chains /\ ch # <<>> /\ Shorter(ch, w + 1)
    BY <2>3, <2>5, <2>6 DEF Owed
  <2>9. Holds(list, w, ch)
    BY <2>7, <2>8 DEF Holds
  <2> QED
    BY <2>9 DEF ch
<1> QED
  BY <1>5, <1>6 DEF limits

(* Chain() is the chain of them all.                                       *)
LEMMA ChainHolds == ASSUME NEW list \in Seq(Sound) PROVE Holds(list, Longest, Chain(list))
<1> DEFINE Until(f, n) == f = [w \in 0..n |-> IF w = 0 THEN <<>> ELSE WithWindow(list, f[w - 1], w)]
           S == {n \in Nat : \E f : Until(f, n)}
<1>1. 0 \in S
  <2> DEFINE e == [w \in 0..0 |-> <<>>]
  <2>1. e = [w \in 0..0 |-> IF w = 0 THEN <<>> ELSE WithWindow(list, e[w - 1], w)]
    OBVIOUS
  <2> QED
    BY <2>1
<1>2. ASSUME NEW n \in Nat, NEW f, Until(f, n), NEW w \in 0..n
      PROVE  f[w] = IF w = 0 THEN <<>> ELSE WithWindow(list, f[w - 1], w)
  <2> DEFINE g == [v \in 0..n |-> IF v = 0 THEN <<>> ELSE WithWindow(list, f[v - 1], v)]
  <2>1. g[w] = IF w = 0 THEN <<>> ELSE WithWindow(list, f[w - 1], w)
    OBVIOUS
  <2>2. f = g
    BY <1>2
  <2> HIDE DEF g
  <2> QED
    BY <2>1, <2>2
<1>3. ASSUME NEW n \in Nat, n \in S PROVE n + 1 \in S
  <2>1. PICK f : Until(f, n)
    BY <1>3
  <2> DEFINE g == [w \in 0..n + 1 |-> IF w = 0 THEN <<>> ELSE WithWindow(list, f[w - 1], w)]
  <2>2. ASSUME NEW w \in 0..n + 1 PROVE g[w] = IF w = 0 THEN <<>> ELSE WithWindow(list, g[w - 1], w)
    <3>1. g[w] = IF w = 0 THEN <<>> ELSE WithWindow(list, f[w - 1], w)
      OBVIOUS
    <3>2. CASE w # 0
      <4>1. w - 1 \in 0..n /\ w - 1 \in 0..n + 1
        BY <3>2
      <4>2. g[w - 1] = f[w - 1]
        BY <1>2, <2>1, <4>1
      <4> HIDE DEF g
      <4> QED
        BY <3>1, <4>2
    <3> QED
      BY <3>1, <3>2
  <2>3. g = [w \in 0..n + 1 |-> IF w = 0 THEN <<>> ELSE WithWindow(list, g[w - 1], w)]
    BY <2>2
  <2> HIDE DEF g
  <2> QED
    BY <2>3
<1>4. \A n \in Nat : n \in S => n + 1 \in S
  BY <1>3
<1>5. \E f : Until(f, Longest)
  <2> HIDE DEF S
  <2>1. Nat \subseteq S
    BY <1>1, <1>4, EveryNumber
  <2>2. Longest \in S
    BY <2>1, RulesAssumption
  <2> QED
    BY <2>2 DEF S
<1> DEFINE U(f) == Until(f, Longest)
           u == CHOOSE f : U(f)
<1>6. U(u)
  BY <1>5, Zenon
<1>7. Chain(list) = u[Longest]
  BY DEF Chain
<1> HIDE DEF u, S
<1> DEFINE T == {w \in Nat : w <= Longest => Holds(list, w, u[w])}
<1>8. Longest \in Nat
  BY RulesAssumption
<1>9. \A w \in 0..Longest : u[w] = IF w = 0 THEN <<>> ELSE WithWindow(list, u[w - 1], w)
  BY <1>2, <1>6, <1>8
<1>10. 0 \in T
  <2>1. u[0] = <<>>
    <3>1. 0 \in 0..Longest
      BY <1>8
    <3> QED
      BY <1>9, <3>1
  <2>2. <<>> \in Chains /\ Shorter(<<>>, 0 + 1)
    BY EmptySeq DEF Chains, Ascends, Shorter
  <2>3. \A r \in Range(list) : ~(Window(r) <= 0)
    <3>1. Range(list) \subseteq Sound
      BY ElementOfSeq, LenProperties DEF Range
    <3> QED
      BY <3>1, SoundTypes
  <2> QED
    BY <2>1, <2>2, <2>3 DEF Holds
<1>11. ASSUME NEW w \in Nat, w \in T PROVE w + 1 \in T
  <2> SUFFICES ASSUME w + 1 <= Longest PROVE Holds(list, w + 1, u[w + 1])
    OBVIOUS
  <2>1. w + 1 \in 1..Longest /\ w + 1 \in 0..Longest /\ w <= Longest /\ (w + 1) - 1 = w /\ w + 1 # 0
    BY <1>8
  <2>2. Holds(list, (w + 1) - 1, u[w])
    BY <1>11, <2>1
  <2>3. Holds(list, w + 1, WithWindow(list, u[w], w + 1))
    BY <2>1, <2>2, WithWindowHolds
  <2>4. u[w + 1] = WithWindow(list, u[w], w + 1)
    BY <1>9, <2>1
  <2> QED
    BY <2>3, <2>4
<1>12. \A w \in Nat : w \in T => w + 1 \in T
  BY <1>11
<1>13. Longest \in T
  <2> HIDE DEF T
  <2>1. Nat \subseteq T
    BY <1>10, <1>12, EveryNumber
  <2> QED
    BY <1>8, <2>1
<1> QED
  BY <1>7, <1>8, <1>13

LEMMA AdvertisedRule ==
    ASSUME NEW list \in Rulebook, NEW r \in Range(list)
    PROVE  r \in Rule /\ Window(r) \in 1..Longest /\ Limit(r) \in Nat
<1>1. list \in Seq(Rule) /\ \A i \in DOMAIN list : Window(list[i]) \in 1..Longest
  BY RulesAssumption
<1> QED
  BY <1>1, ElementOfSeq, LenProperties DEF Range, Rule, Limit

LEMMA HalvedIs ==
    ASSUME NEW r \in Rule, Window(r) \in 1..Longest
    PROVE  Halved(r) \in Sound /\ Window(Halved(r)) = Window(r)
<1>1. Limit(r) \in Nat /\ Limit(r) \div 2 \in Nat
  BY Quotient DEF Rule, Limit
<1>2. Max({1, Limit(r) \div 2}) \in Nat /\ Max({1, Limit(r) \div 2}) >= 1
  BY <1>1, GreaterOfTwo
<1> DEFINE m == Max({1, Limit(r) \div 2})
<1> HIDE DEF m
<1>3. Halved(r) = <<m, Window(r)>> /\ m \in Nat /\ m >= 1
  BY <1>2 DEF Halved, m
<1>4. Window(r) \in Nat
  BY DEF Rule, Window
<1> QED
  BY <1>3, <1>4 DEF Sound, Rule, Limit, Window

(* What Policy derives from a list of rules: rates the library accepts,    *)
(* under which every rule of the list holds, halved.                       *)
LEMMA RatesHold ==
    ASSUME NEW list \in Rulebook
    PROVE  /\ Rates[list] \in Seq(Sound) /\ Accepted(Rates[list])
           /\ \A log \in Log, r \in Range(list) : KeepsAll(log, Rates[list]) => Keeps(log, Halved(r))
<1> DEFINE halves == [i \in DOMAIN list |-> Halved(list[i])]
           ch == Chain(halves)
<1>1. /\ list \in Seq(Rule) /\ Len(list) \in Nat /\ DOMAIN list = 1..Len(list) /\ Len(list) >= 1
      /\ \A i \in DOMAIN list : list[i] \in Rule /\ Window(list[i]) \in 1..Longest
  <2>1. list \in Seq(Rule) /\ list # <<>> /\ \A i \in DOMAIN list : Window(list[i]) \in 1..Longest
    BY RulesAssumption
  <2> QED
    BY <2>1, EmptySeq, LenProperties, ElementOfSeq
<1>2. \A r \in Rule : Window(r) \in 1..Longest => Halved(r) \in Sound /\ Window(Halved(r)) = Window(r)
  BY HalvedIs
<1>3. halves \in Seq(Sound)
  <2>1. halves \in [1..Len(list) -> Sound]
    BY <1>1, <1>2
  <2> QED
    BY <1>1, <2>1, SeqDef
<1> HIDE DEF halves
<1>4. Holds(halves, Longest, ch)
  BY <1>3, ChainHolds
<1>5. Rates[list] = ch
  BY DEF Rates, halves
<1>6. \A r \in Range(list) : Halved(r) \in Range(halves) /\ Window(Halved(r)) <= Longest
  <2> SUFFICES ASSUME NEW i \in DOMAIN list PROVE Halved(list[i]) \in Range(halves) /\ Window(Halved(list[i])) <= Longest
    BY DEF Range
  <2>1. halves[i] = Halved(list[i]) /\ i \in DOMAIN halves
    BY DEF halves
  <2> QED
    BY <1>1, <1>2, <2>1, SoundTypes DEF Range
<1>7. ch # <<>>
  <2>1. list[1] \in Range(list)
    BY <1>1 DEF Range
  <2> QED
    BY <1>4, <1>6, <2>1 DEF Holds
<1> HIDE DEF ch
<1>8. Accepted(ch)
  <2>1. ch \in Seq(Sound) /\ Len(ch) \in Nat /\ DOMAIN ch = 1..Len(ch) /\ Ascends(ch)
    BY <1>4, LenProperties DEF Holds, Chains
  <2> SUFFICES ASSUME NEW i \in 1..Len(ch) - 1
               PROVE  Limit(ch[i]) < Limit(ch[i + 1]) /\ Window(ch[i]) < Window(ch[i + 1]) /\ ~Faster(ch[i + 1], ch[i])
    BY <1>7 DEF Accepted
  <2>2. i \in 1..Len(ch) /\ i + 1 \in 1..Len(ch) /\ i < i + 1
    BY <2>1
  <2> QED
    BY <2>1, <2>2 DEF Ascends
<1> QED
  BY <1>4, <1>5, <1>6, <1>8 DEF Holds, Chains

(* What keeps a rule lets through no more than its limit in its window.    *)
LEMMA HeldTo ==
    ASSUME NEW list \in Rulebook, NEW r \in Range(list), NEW log \in Log, Keeps(log, Halved(r))
    PROVE  /\ Window(r) \in 1..Longest /\ Limit(Halved(r)) \in Nat /\ Limit(r) \in Nat
           /\ log[Window(r)] <= Limit(Halved(r))
           /\ Roomy => 2 * Limit(Halved(r)) <= Limit(r)
<1>1. r \in Rule /\ Window(r) \in 1..Longest /\ Window(Halved(r)) = Window(r) /\ Longest \in Nat
  BY AdvertisedRule, HalvedIs, RulesAssumption
<1>2. /\ Limit(r) \in Nat /\ Limit(r) \div 2 \in Nat /\ 2 * (Limit(r) \div 2) <= Limit(r)
      /\ Limit(r) >= 2 => Limit(r) \div 2 >= 1
  <2>1. Limit(r) \in Nat
    BY <1>1 DEF Rule, Limit
  <2> QED
    BY <2>1
<1>3. Limit(Halved(r)) = IF Limit(r) \div 2 >= 1 THEN Limit(r) \div 2 ELSE 1
  BY <1>2, GreaterOfTwo DEF Halved, Limit
<1>4. Upto(log, Window(r)) <= Upto(log, 0) + Limit(Halved(r))
  <2>1. 0 \in 0..Longest /\ Window(r) \in 0..Longest /\ 0 <= Window(r) /\ Window(r) <= 0 + Window(Halved(r))
    BY <1>1
  <2> QED
    BY <2>1 DEF Keeps
<1>5. Upto(log, 0) = 0 /\ Upto(log, Window(r)) = log[Window(r)]
  BY <1>1 DEF Upto
<1>6. Roomy => Limit(r) >= 2
  BY DEF Roomy
<1> QED
  BY <1>1, <1>2, <1>3, <1>4, <1>5, <1>6

-----------------------------------------------------------------------------
(* The logs.  One that grows counts more over a longer time.               *)
Grows(log) == \A a, b \in 0..Longest : a <= b => Upto(log, a) <= Upto(log, b)

Within(rates) == \A i \in DOMAIN rates : rates[i] \in Rule /\ Window(rates[i]) \in 1..Longest

LEMMA EmptyLog == Empty \in Log /\ Grows(Empty) /\ \A q \in Rule : Keeps(Empty, q)
<1>1. Empty \in Log /\ \A w \in 0..Longest : Upto(Empty, w) = 0
  BY RulesAssumption DEF Empty, Log, Upto
<1>2. \A q \in Rule : Limit(q) \in Nat
  BY DEF Rule, Limit
<1> QED
  BY <1>1, <1>2 DEF Grows, Keeps

LEMMA OneMoreLog ==
    ASSUME NEW log \in Log, Grows(log)
    PROVE  /\ OneMore(log) \in Log /\ Grows(OneMore(log))
           /\ \A w \in 1..Longest : OneMore(log)[w] = log[w] + 1
           /\ \A q \in Rule : Window(q) \in 1..Longest /\ Keeps(log, q) /\ log[Window(q)] < Limit(q) => Keeps(OneMore(log), q)
<1>1. Longest \in Nat /\ \A w \in 1..Longest : log[w] \in Nat
  BY RulesAssumption DEF Log
<1>2. OneMore(log) \in Log /\ \A w \in 1..Longest : OneMore(log)[w] = log[w] + 1
  BY <1>1 DEF OneMore, Log
<1>3. \A w \in 0..Longest : Upto(log, w) \in Nat /\ Upto(OneMore(log), w) = IF w = 0 THEN 0 ELSE Upto(log, w) + 1
  BY <1>1, <1>2 DEF Upto
<1>4. Grows(OneMore(log))
  <2> SUFFICES ASSUME NEW a \in 0..Longest, NEW b \in 0..Longest, a <= b
               PROVE  Upto(OneMore(log), a) <= Upto(OneMore(log), b)
    BY DEF Grows
  <2>1. Upto(log, a) <= Upto(log, b)
    BY DEF Grows
  <2> QED
    BY <1>3, <2>1
<1>5. ASSUME NEW q \in Rule, Window(q) \in 1..Longest, Keeps(log, q), log[Window(q)] < Limit(q)
      PROVE  Keeps(OneMore(log), q)
  <2> SUFFICES ASSUME NEW a \in 0..Longest, NEW b \in 0..Longest, a <= b, b <= a + Window(q)
               PROVE  Upto(OneMore(log), b) <= Upto(OneMore(log), a) + Limit(q)
    BY DEF Keeps
  <2>1. Upto(log, b) <= Upto(log, a) + Limit(q) /\ Limit(q) \in Nat /\ Window(q) \in Nat
    BY <1>5 DEF Keeps, Rule, Limit, Window
  <2>2. CASE a = 0 /\ b # 0
    <3>1. Upto(log, b) <= Upto(log, Window(q)) /\ Upto(log, Window(q)) = log[Window(q)]
      <4>1. b <= Window(q) /\ Window(q) \in 0..Longest /\ Window(q) # 0
        BY <1>5, <2>1, <2>2
      <4> QED
        BY <4>1 DEF Grows, Upto
    <3>2. log[Window(q)] \in Nat
      BY <1>1, <1>5
    <3> QED
      BY <1>3, <1>5, <2>1, <2>2, <3>1, <3>2
  <2>3. CASE ~(a = 0 /\ b # 0)
    BY <1>3, <2>1, <2>3
  <2> QED
    BY <2>2, <2>3
<1> QED
  BY <1>2, <1>4, <1>5

LEMMA OlderLog ==
    ASSUME NEW log \in Log, Grows(log)
    PROVE  /\ Older(log) \in Log /\ Grows(Older(log))
           /\ \A q \in Rule : Keeps(log, q) => Keeps(Older(log), q)
<1>1. Longest \in Nat /\ \A w \in 1..Longest : log[w] \in Nat
  BY RulesAssumption DEF Log
<1>2. Older(log) \in Log
  <2> SUFFICES ASSUME NEW w \in 1..Longest PROVE (IF w = 1 THEN 0 ELSE log[w - 1]) \in Nat
    BY DEF Older, Log
  <2>1. w # 1 => w - 1 \in 1..Longest
    BY <1>1
  <2> QED
    BY <1>1, <2>1
<1>3. ASSUME NEW w \in 0..Longest
      PROVE  IF w = 0 THEN Upto(Older(log), w) = 0 ELSE w - 1 \in 0..Longest /\ Upto(Older(log), w) = Upto(log, w - 1)
  <2>1. CASE w = 0
    BY <2>1 DEF Upto
  <2>2. CASE w # 0
    <3>1. w \in 1..Longest /\ w - 1 \in 0..Longest
      BY <1>1, <2>2
    <3>2. Older(log)[w] = IF w = 1 THEN 0 ELSE log[w - 1]
      BY <3>1 DEF Older
    <3> QED
      BY <2>2, <3>1, <3>2 DEF Upto
  <2> QED
    BY <2>1, <2>2
<1>4. \A w \in 0..Longest : Upto(log, w) \in Nat
  BY UptoType
<1>5. Grows(Older(log))
  <2> SUFFICES ASSUME NEW a \in 0..Longest, NEW b \in 0..Longest, a <= b
               PROVE  Upto(Older(log), a) <= Upto(Older(log), b)
    BY DEF Grows
  <2>1. CASE a = 0
    <3>1. Upto(Older(log), a) = 0
      BY <1>3, <2>1
    <3>2. Upto(Older(log), b) \in Nat
      BY <1>2, UptoType
    <3> QED
      BY <3>1, <3>2
  <2>2. CASE a # 0
    <3>1. a - 1 \in 0..Longest /\ b - 1 \in 0..Longest /\ a - 1 <= b - 1 /\ b # 0
      BY <1>1, <2>2
    <3> QED
      BY <1>3, <2>2, <3>1 DEF Grows
  <2> QED
    BY <2>1, <2>2
<1>6. ASSUME NEW q \in Rule, Keeps(log, q) PROVE Keeps(Older(log), q)
  <2> SUFFICES ASSUME NEW a \in 0..Longest, NEW b \in 0..Longest, a <= b, b <= a + Window(q)
               PROVE  Upto(Older(log), b) <= Upto(Older(log), a) + Limit(q)
    BY DEF Keeps
  <2>1. Limit(q) \in Nat /\ Window(q) \in Nat
    BY DEF Rule, Limit, Window
  <2>2. CASE b = 0
    BY <1>3, <2>1, <2>2
  <2>3. CASE b # 0 /\ a = 0
    <3>1. 0 \in 0..Longest /\ b - 1 \in 0..Longest /\ 0 <= b - 1 /\ b - 1 <= 0 + Window(q)
      BY <1>1, <2>1, <2>3
    <3>2. Upto(log, b - 1) <= Upto(log, 0) + Limit(q) /\ Upto(log, 0) = 0
      BY <1>6, <3>1 DEF Keeps, Upto
    <3> QED
      BY <1>3, <2>3, <3>2
  <2>4. CASE b # 0 /\ a # 0
    <3>1. a - 1 \in 0..Longest /\ b - 1 \in 0..Longest /\ a - 1 <= b - 1 /\ b - 1 <= (a - 1) + Window(q)
      BY <1>1, <2>1, <2>4
    <3>2. Upto(log, b - 1) <= Upto(log, a - 1) + Limit(q)
      BY <1>6, <3>1 DEF Keeps
    <3> QED
      BY <1>3, <2>4, <3>2
  <2> QED
    BY <2>2, <2>3, <2>4
<1> QED
  BY <1>2, <1>5, <1>6

-----------------------------------------------------------------------------
(* Every limiter, the old ones too, keeps its own rates in every window;   *)
(* the present one's are the rates of the rules last advertised.           *)
Trusty(l) == l.log \in Log /\ Grows(l.log) /\ KeepsAll(l.log, l.rates) /\ Within(l.rates)

Limiters == [rates : Seq(Rule), log : Log]

GateInv ==
    /\ limiters \in [Ids -> Limiters] /\ \A l \in Ids : Trusty(limiters[l])
    /\ advertised \in Rulebook \cup {<<>>}
    /\ advertised # <<>> => limiters[current].rates = Rates[advertised]
    /\ \A a \in Actors : actors[a].phase = "limiter" => actors[a].at \in Ids
    /\ \A a \in Actors : actors[a].phase = "answered" /\ actors[a].answer.status # 429 => actors[a].answer.rules \in Rulebook

LEMMA InitialWithin == Within(Initial) /\ Initial \in Seq(Rule)
<1>1. Initial \in Seq(Rule) /\ \A i \in DOMAIN Initial : Window(Initial[i]) \in 1..Longest
  BY RulesAssumption
<1> QED
  BY <1>1, ElementOfSeq, LenProperties DEF Within

LEMMA RatesWithin == ASSUME NEW list \in Rulebook PROVE Within(Rates[list]) /\ Rates[list] \in Seq(Rule)
<1>1. Rates[list] \in Seq(Sound)
  BY RatesHold
<1>2. Seq(Sound) \subseteq Seq(Rule)
  <2>1. Sound \subseteq Rule
    BY DEF Sound
  <2> QED
    BY <2>1, SeqMonotonic
<1> QED
  BY <1>1, <1>2, ElementOfSeq, LenProperties DEF Within, Sound

LEMMA NewLimiter ==
    ASSUME NEW rates \in Seq(Rule), Within(rates)
    PROVE  New(rates) \in Limiters /\ Trusty(New(rates)) /\ New(rates).rates = rates /\ New(rates).log = Empty
  BY EmptyLog DEF New, Limiters, Trusty, KeepsAll, Within

LEMMA BlankLimiter == Blank \in Limiters /\ Trusty(Blank)
<1>1. <<>> \in Seq(Rule) /\ Within(<<>>)
  BY EmptySeq DEF Within
<1> QED
  BY <1>1, NewLimiter DEF Blank

(* A slot taken from a limiter that had one.                               *)
LEMMA SpentIs ==
    ASSUME limiters \in [Ids -> Limiters], NEW x \in Ids, Trusty(limiters[x]), HasSlot(limiters[x])
    PROVE  /\ Spent(x) \in [Ids -> Limiters]
           /\ \A l \in Ids \ {x} : Spent(x)[l] = limiters[l]
           /\ Spent(x)[x].rates = limiters[x].rates /\ Spent(x)[x].log = OneMore(limiters[x].log)
           /\ Trusty(Spent(x)[x])
<1>1. PICK u \in Limiters : u = limiters[x]
  OBVIOUS
<1>2. OneMore(u.log) \in Log /\ Grows(OneMore(u.log))
  BY <1>1, OneMoreLog DEF Trusty
<1> DEFINE v == [u EXCEPT !.log = OneMore(u.log)]
<1>3. v \in Limiters /\ v.rates = u.rates /\ v.log = OneMore(u.log)
  BY <1>2 DEF Limiters
<1> HIDE DEF v
<1>4. Spent(x) = [limiters EXCEPT ![x] = v]
  BY <1>1 DEF Spent, v
<1>5. KeepsAll(v.log, v.rates)
  <2> SUFFICES ASSUME NEW i \in DOMAIN u.rates PROVE Keeps(OneMore(u.log), u.rates[i])
    BY <1>3 DEF KeepsAll
  <2>1. u.log[Window(u.rates[i])] < Limit(u.rates[i])
    BY <1>1 DEF HasSlot
  <2> QED
    BY <1>1, <2>1, OneMoreLog DEF Trusty, KeepsAll, Within
<1>6. Trusty(v)
  BY <1>1, <1>2, <1>3, <1>5 DEF Trusty
<1> QED
  BY <1>1, <1>3, <1>4, <1>6

LEMMA KeptIs ==
    ASSUME NEW ls \in [Ids -> Limiters], \A l \in Ids : Trusty(ls[l]), NEW as, NEW cur \in Ids
    PROVE  /\ Kept(ls, as, cur) \in [Ids -> Limiters] /\ \A l \in Ids : Trusty(Kept(ls, as, cur)[l])
           /\ Kept(ls, as, cur)[cur] = ls[cur]
  BY BlankLimiter DEF Kept

LEMMA GateInitOK == Init => GateInv
<1> SUFFICES ASSUME Init PROVE GateInv
  OBVIOUS
<1>1. New(Initial) \in Limiters /\ Trusty(New(Initial))
  BY InitialWithin, NewLimiter
<1>2. limiters \in [Ids -> Limiters] /\ \A l \in Ids : Trusty(limiters[l])
  BY <1>1, BlankLimiter DEF Init
<1> QED
  BY <1>2 DEF Init, GateInv, Idle, NoAnswer

(* Steps that take no slot, and derive no rates.                           *)
LEMMA GateQuiet ==
    ASSUME BoxInv, GateInv, UNCHANGED <<limiters, current, advertised>>,
           NEW a, \A b \in Actors \ {a} : actors'[b] = actors[b],
           a \in Actors => /\ actors'[a].phase = "limiter" => actors'[a].at \in Ids
                           /\ actors'[a].phase = "answered" /\ actors'[a].answer.status # 429 => actors'[a].answer.rules \in Rulebook
    PROVE  GateInv'
  BY DEF GateInv

(* A request that leaves for the site, or leaves.                          *)
LEMMA GateTakes ==
    ASSUME BoxInv, GateInv, HasSlot(limiters[current]), limiters' = Spent(current), UNCHANGED <<current, advertised>>,
           NEW a \in Actors, \A b \in Actors \ {a} : actors'[b] = actors[b], actors'[a].phase \in {"sent", "idle"}
    PROVE  GateInv'
<1>1. current \in Ids
  BY DEF BoxInv, BoxTypes
<1>2. /\ Spent(current) \in [Ids -> Limiters] /\ \A l \in Ids \ {current} : Spent(current)[l] = limiters[l]
      /\ Spent(current)[current].rates = limiters[current].rates /\ Trusty(Spent(current)[current])
  BY <1>1, SpentIs DEF GateInv
<1> QED
  BY <1>1, <1>2 DEF GateInv

LEMMA GateKept ==
    ASSUME BoxInv, GateInv, NEW ls \in [Ids -> Limiters], \A l \in Ids : Trusty(ls[l]), NEW as,
           ls[current].rates = limiters[current].rates,
           limiters' = Kept(ls, as, current), UNCHANGED <<current, advertised>>,
           NEW a \in Actors, \A b \in Actors \ {a} : actors'[b] = actors[b], actors'[a].phase \in {"sent", "idle"}
    PROVE  GateInv'
<1>1. current \in Ids
  BY DEF BoxInv, BoxTypes
<1>2. /\ Kept(ls, as, current) \in [Ids -> Limiters] /\ \A l \in Ids : Trusty(Kept(ls, as, current)[l])
      /\ Kept(ls, as, current)[current] = ls[current]
  BY <1>1, KeptIs
<1>3. /\ limiters' \in [Ids -> Limiters] /\ \A l \in Ids : Trusty(limiters'[l])
      /\ limiters'[current].rates = limiters[current].rates
  BY <1>2
<1>4. \A b \in Actors : actors'[b].phase = "limiter" => actors'[b].at \in Ids
  BY DEF GateInv
<1>5. \A b \in Actors : actors'[b].phase = "answered" /\ actors'[b].answer.status # 429 => actors'[b].answer.rules \in Rulebook
  BY DEF GateInv
<1> QED
  BY <1>3, <1>4, <1>5 DEF GateInv

(* An empty limiter for rates in an unused place.                          *)
WaitedFor(as, l) == \E c \in Callers : as[c].at = l
Anew(u, rates) == u.rates = rates /\ u.log = Empty
Untouched(kept, as, l) == \A k \in Ids \ {l} : WaitedFor(as, k) => kept[k] = limiters[k]
WithNew(l, rates) == [limiters EXCEPT ![l] = New(rates)]

LEMMA NewIs ==
    ASSUME GateInv, NEW l \in Ids, NEW rates \in Seq(Rule), Within(rates), NEW as, NEW kept,
           kept = Kept(WithNew(l, rates), as, l)
    PROVE  /\ kept \in [Ids -> Limiters] /\ \A k \in Ids : Trusty(kept[k])
           /\ Anew(kept[l], rates) /\ Untouched(kept, as, l)
<1>1. New(rates) \in Limiters /\ Trusty(New(rates)) /\ New(rates).rates = rates /\ New(rates).log = Empty
  BY NewLimiter
<1>2. limiters \in [Ids -> Limiters] /\ \A k \in Ids : Trusty(limiters[k])
  BY DEF GateInv
<1>3. PICK u \in Limiters : u = New(rates)
  BY <1>1
<1> DEFINE ls == [limiters EXCEPT ![l] = u]
<1>4. ls \in [Ids -> Limiters] /\ ls[l] = u /\ \A k \in Ids \ {l} : ls[k] = limiters[k]
  BY <1>2
<1>5. kept = Kept(ls, as, l)
  BY <1>3 DEF WithNew
<1> HIDE DEF ls
<1>6. \A k \in Ids : Trusty(ls[k])
  BY <1>1, <1>2, <1>3, <1>4
<1>7. kept \in [Ids -> Limiters] /\ (\A k \in Ids : Trusty(kept[k])) /\ kept[l] = ls[l]
  <2>1. /\ Kept(ls, as, l) \in [Ids -> Limiters] /\ \A k \in Ids : Trusty(Kept(ls, as, l)[k])
        /\ Kept(ls, as, l)[l] = ls[l]
    BY <1>4, <1>6, KeptIs
  <2> QED
    BY <1>5, <2>1
<1>8. \A k \in Ids : WaitedFor(as, k) => kept[k] = ls[k]
  BY <1>5 DEF Kept, WaitedFor
<1> QED
  BY <1>1, <1>3, <1>4, <1>7, <1>8 DEF Anew, Untouched

(* What is derived of rules the site did advertise.                        *)
LEMMA DerivedIs ==
    ASSUME BoxInv, GateInv, NEW list \in Rulebook, NEW as, Derived(as, list)
    PROVE  /\ advertised' = list
           /\ limiters' \in [Ids -> Limiters] /\ \A l \in Ids : Trusty(limiters'[l])
           /\ current' \in Ids /\ limiters'[current'].rates = Rates[list]
           /\ list = advertised => UNCHANGED <<limiters, current>>
           /\ list # advertised => /\ current' # current /\ ~WaitedFor(as, current')
                                   /\ limiters'[current'].log = Empty
                                   /\ \A l \in Ids \ {current'} : WaitedFor(as, l) => limiters'[l] = limiters[l]
<1>1. Accepted(Rates[list]) /\ Within(Rates[list]) /\ Rates[list] \in Seq(Rule)
  BY RatesHold, RatesWithin
<1>2. list # <<>>
  BY RulesAssumption
<1>3. CASE list = advertised
  BY <1>2, <1>3 DEF Derived, GateInv, BoxInv, BoxTypes
<1>4. CASE list # advertised
  <2>1. PICK l \in {k \in Ids : k # current /\ \A c \in Callers : as[c].at # k} :
             current' = l /\ limiters' = Kept([limiters EXCEPT ![l] = New(Rates[list])], as, l)
    BY <1>1, <1>4 DEF Derived
  <2>2. l \in Ids /\ l # current /\ ~WaitedFor(as, l)
    BY DEF WaitedFor
  <2>3. /\ limiters' \in [Ids -> Limiters] /\ \A k \in Ids : Trusty(limiters'[k])
        /\ limiters'[l].rates = Rates[list] /\ limiters'[l].log = Empty
        /\ \A k \in Ids \ {l} : WaitedFor(as, k) => limiters'[k] = limiters[k]
    <3>1. limiters' = Kept(WithNew(l, Rates[list]), as, l)
      BY <2>1 DEF WithNew
    <3>2. /\ limiters' \in [Ids -> Limiters] /\ \A k \in Ids : Trusty(limiters'[k])
          /\ Anew(limiters'[l], Rates[list]) /\ Untouched(limiters', as, l)
      BY <1>1, <2>2, <3>1, NewIs
    <3> QED
      BY <3>2 DEF Anew, Untouched
  <2>4. advertised' = list
    BY DEF Derived
  <2> QED
    BY <1>4, <2>1, <2>2, <2>3, <2>4
<1> QED
  BY <1>3, <1>4

LEMMA GateDerives ==
    ASSUME BoxInv, GateInv, NEW a \in Actors, NEW as, actors[a].phase = "answered", Observe(a, as),
           \A b \in Actors \ {a} : actors'[b] = actors[b], actors'[a].phase \in {"held", "idle"}
    PROVE  GateInv'
<1>1. CASE actors[a].answer.status = 429
  <2>1. UNCHANGED <<limiters, current, advertised>>
    BY <1>1 DEF Observe
  <2> QED
    BY <2>1, GateQuiet
<1>2. CASE actors[a].answer.status # 429
  <2> DEFINE list == actors[a].answer.rules
  <2>1. Derived(as, list)
    BY <1>2 DEF Observe
  <2>2. list \in Rulebook
    BY <1>2 DEF GateInv
  <2> HIDE DEF list
  <2>3. /\ advertised' = list
        /\ limiters' \in [Ids -> Limiters] /\ \A l \in Ids : Trusty(limiters'[l])
        /\ limiters'[current'].rates = Rates[list]
    BY <2>1, <2>2, DerivedIs
  <2> QED
    BY <2>2, <2>3 DEF GateInv
<1> QED
  BY <1>1, <1>2

(* A tick ages every log and leaves the requests where they are.           *)
LEMMA TickIs ==
    ASSUME BoxInv, GateInv, Tick
    PROVE  /\ UNCHANGED <<current, advertised, rules>> /\ limiters' = [l \in Ids |-> limiters'[l]]
           /\ \A l \in Ids : limiters'[l] \in Limiters /\ Trusty(limiters'[l])
           /\ \A l \in Ids : limiters'[l].rates = limiters[l].rates /\ limiters'[l].log = Older(limiters[l].log)
           /\ \A a \in Actors : /\ actors'[a].phase = actors[a].phase /\ actors'[a].at = actors[a].at
                               /\ actors'[a].answer.status = actors[a].answer.status
                               /\ actors'[a].answer.rules = actors[a].answer.rules
<1>1. ASSUME NEW l \in Ids
      PROVE  limiters'[l] \in Limiters /\ Trusty(limiters'[l]) /\ limiters'[l].rates = limiters[l].rates
             /\ limiters'[l].log = Older(limiters[l].log)
  <2>1. PICK u \in Limiters : u = limiters[l]
    BY DEF GateInv
  <2>2. Trusty(u)
    BY <2>1 DEF GateInv
  <2>3. Older(u.log) \in Log /\ Grows(Older(u.log)) /\ \A q \in Rule : Keeps(u.log, q) => Keeps(Older(u.log), q)
    BY <2>2, OlderLog DEF Trusty
  <2> DEFINE v == [u EXCEPT !.log = Older(u.log)]
  <2>4. limiters'[l] = v
    BY <2>1 DEF Tick
  <2>5. v \in Limiters /\ v.rates = u.rates /\ v.log = Older(u.log)
    BY <2>3 DEF Limiters
  <2> HIDE DEF v
  <2>6. Trusty(v)
    BY <2>2, <2>3, <2>5 DEF Trusty, KeepsAll, Within
  <2> QED
    BY <2>1, <2>4, <2>5, <2>6
<1>2. \A a \in Actors : actors'[a].phase = actors[a].phase /\ actors'[a].at = actors[a].at
                        /\ actors'[a].answer.status = actors[a].answer.status /\ actors'[a].answer.rules = actors[a].answer.rules
  <2> SUFFICES ASSUME NEW a \in Actors
               PROVE  actors'[a].phase = actors[a].phase /\ actors'[a].at = actors[a].at
                      /\ actors'[a].answer.status = actors[a].answer.status /\ actors'[a].answer.rules = actors[a].answer.rules
    OBVIOUS
  <2>1. PICK x \in Request : x = actors[a]
    BY DEF BoxInv, BoxTypes
  <2>2. actors'[a] = [x EXCEPT !.answer.live = x.answer.live /\ ban' > 0]
    BY <2>1 DEF Tick
  <2> QED
    BY <2>1, <2>2 DEF Request, Answer
<1> QED
  BY <1>1, <1>2 DEF Tick

LEMMA GateTicks == ASSUME BoxInv, GateInv, Tick PROVE GateInv'
<1>1. limiters' \in [Ids -> Limiters]
  BY TickIs
<1>2. current \in Ids
  BY DEF BoxInv, BoxTypes
<1> QED
  BY <1>1, <1>2, TickIs DEF GateInv

LEMMA GateStep == ASSUME BoxInv, GateInv, [Next]_vars PROVE GateInv'
<1> USE DEF Goes, gate
<1>0. actors \in [Actors -> Request] /\ current \in Ids /\ rules \in Rulebook /\ Callers \cup Shell \cup Others = Actors
  BY DEF BoxInv, BoxTypes, Actors
<1>1. ASSUME NEW a \in Actors, Ask(a) \/ Bypass(a) PROVE GateInv'
  <2>1. /\ UNCHANGED <<limiters, current, advertised>>
        /\ \/ actors' = [actors EXCEPT ![a].phase = "held"]
           \/ actors' = [actors EXCEPT ![a].phase = "sent"]
    BY <1>1 DEF Ask, Bypass
  <2>2. actors'[a].phase \in {"held", "sent"} /\ \A b \in Actors \ {a} : actors'[b] = actors[b]
    BY <1>0, <2>1 DEF Request
  <2> QED
    BY <2>1, <2>2, GateQuiet
<1>2. ASSUME NEW a \in Actors, EnterLimiter(a) PROVE GateInv'
  <2>1. UNCHANGED <<limiters, current, advertised>> /\ actors' = [actors EXCEPT ![a].phase = "limiter", ![a].at = current]
    BY <1>2 DEF EnterLimiter
  <2>2. actors'[a].phase = "limiter" /\ actors'[a].at = current /\ \A b \in Actors \ {a} : actors'[b] = actors[b]
    BY <1>0, <2>1 DEF Request
  <2> QED
    BY <1>0, <2>1, <2>2, GateQuiet
<1>3. ASSUME NEW a \in Actors, TakeFree(a) \/ TakeNow(a) PROVE GateInv'
  <2>1. HasSlot(limiters[current]) /\ limiters' = Spent(current) /\ UNCHANGED <<current, advertised>>
        /\ actors' = [actors EXCEPT ![a].phase = "sent"]
    BY <1>3 DEF TakeFree, TakeNow
  <2>2. actors'[a].phase = "sent" /\ \A b \in Actors \ {a} : actors'[b] = actors[b]
    BY <1>0, <2>1 DEF Request
  <2> QED
    BY <2>1, <2>2, GateTakes
<1>4. ASSUME NEW a \in Callers, TakeSlot(a) PROVE GateInv'
  <2> DEFINE x == actors[a].at
  <2>1. HasSlot(limiters[x]) /\ limiters' = Kept(Spent(x), actors', current) /\ UNCHANGED <<current, advertised>>
        /\ actors' = [actors EXCEPT ![a].phase = "sent", ![a].at = 0] /\ a \in Actors
    BY <1>4 DEF TakeSlot, Actors
  <2>2. actors'[a].phase = "sent" /\ \A b \in Actors \ {a} : actors'[b] = actors[b]
    BY <1>0, <2>1 DEF Request
  <2>3. x \in Ids
    BY <1>4, <2>1 DEF GateInv, TakeSlot
  <2> HIDE DEF x
  <2>4. /\ Spent(x) \in [Ids -> Limiters] /\ \A l \in Ids \ {x} : Spent(x)[l] = limiters[l]
        /\ Spent(x)[x].rates = limiters[x].rates /\ Trusty(Spent(x)[x])
    BY <2>1, <2>3, SpentIs DEF GateInv
  <2>5. \A l \in Ids : Trusty(Spent(x)[l])
    BY <2>4 DEF GateInv
  <2>6. Spent(x)[current].rates = limiters[current].rates
    BY <1>0, <2>4
  <2> QED
    BY <2>1, <2>2, <2>4, <2>5, <2>6, GateKept
<1>5. ASSUME NEW a \in Callers, GiveUp(a) PROVE GateInv'
  <2>1. limiters' = Kept(limiters, actors', current) /\ UNCHANGED <<current, advertised>>
        /\ actors' = [actors EXCEPT ![a] = Idle] /\ a \in Actors
    BY <1>5 DEF GiveUp, Actors
  <2>2. actors'[a].phase = "idle" /\ \A b \in Actors \ {a} : actors'[b] = actors[b]
    BY <1>0, <2>1 DEF Idle
  <2> QED
    BY <2>1, <2>2, GateKept DEF GateInv
<1>6. ASSUME NEW a \in Actors, Answered(a) \/ Report(a) PROVE GateInv'
  <2>1. Observe(a, actors') /\ actors[a].phase = "answered"
    BY <1>6 DEF Answered, Report
  <2>2. \A b \in Actors \ {a} : actors'[b] = actors[b]
    BY <1>0, <1>6 DEF Answered, Report
  <2>3. actors'[a] = Idle \/ actors'[a] = Retry(actors[a].attempt + 1)
    BY <1>0, <1>6 DEF Answered, Report
  <2>4. actors'[a].phase \in {"held", "idle"}
    BY <2>3 DEF Idle, Retry
  <2> QED
    BY <2>1, <2>2, <2>4, GateDerives
<1>7. ASSUME NEW a \in Actors, Hint(a) \/ Lose(a) PROVE GateInv'
  <2>1. actors' = [actors EXCEPT ![a] = Idle] /\ UNCHANGED <<current, advertised>>
    BY <1>7 DEF Hint, Lose
  <2>2. actors'[a].phase = "idle" /\ \A b \in Actors \ {a} : actors'[b] = actors[b]
    BY <1>0, <2>1 DEF Idle
  <2>3. \/ UNCHANGED limiters
        \/ HasSlot(limiters[current]) /\ limiters' = Spent(current)
    BY <1>7 DEF Hint, Lose
  <2> QED
    BY <2>1, <2>2, <2>3, GateTakes, GateQuiet
<1>8. ASSUME NEW a \in Actors, Arrive(a) PROVE GateInv'
  <2>1. UNCHANGED <<limiters, current, advertised>>
    BY <1>8 DEF Arrive
  <2>2. CASE ban > 0 \/ Broken(hits)
    <3>1. actors' = [actors EXCEPT ![a] = Told(a, Refusal(ban'))]
      BY <1>8, <2>2 DEF Arrive
    <3>2. /\ actors'[a].phase = "answered" /\ actors'[a].answer.status = 429
          /\ \A b \in Actors \ {a} : actors'[b] = actors[b]
      BY <1>0, <3>1 DEF Told, Refusal
    <3> QED
      BY <2>1, <3>2, GateQuiet
  <2>3. CASE ~(ban > 0 \/ Broken(hits))
    <3>1. PICK h \in 0..HoldCap : actors' = [actors EXCEPT ![a] = Told(a, Counted(h))]
      BY <1>8, <2>3 DEF Arrive
    <3>2. /\ actors'[a].phase = "answered" /\ actors'[a].answer.rules = rules
          /\ \A b \in Actors \ {a} : actors'[b] = actors[b]
      BY <1>0, <3>1 DEF Told, Counted
    <3> QED
      BY <1>0, <2>1, <3>2, GateQuiet
  <2> QED
    BY <2>2, <2>3
<1>9. CASE ChangeRules \/ UNCHANGED vars
  <2>1. UNCHANGED <<limiters, current, advertised, actors>>
    BY <1>9 DEF ChangeRules, vars
  <2> QED
    BY <2>1 DEF GateInv
<1> QED
  BY <1>0, <1>1, <1>2, <1>3, <1>4, <1>5, <1>6, <1>7, <1>8, <1>9, GateTicks DEF Next, Call

(* What the limiter has let through stays within half of every rule the    *)
(* site last advertised, in every window, the rules the chain drops too:   *)
(* for any rules, however often they change (gateway.py, _rate_chain).     *)
THEOREM ChainLoosensNothingEver == Spec => []ChainLoosensNothing
<1>1. Init => BoxInv /\ GateInv
  BY InitBoxInv, GateInitOK
<1>2. BoxInv /\ GateInv /\ [Next]_vars => (BoxInv /\ GateInv)'
  BY NextKeeps, GateStep
<1>3. BoxInv /\ GateInv => ChainLoosensNothing
  <2> SUFFICES ASSUME BoxInv, GateInv, NEW r \in Range(advertised)
               PROVE  limiters[current].log[Window(r)] <= Limit(Halved(r))
    BY DEF ChainLoosensNothing
  <2> DEFINE log == limiters[current].log
  <2>1. advertised # <<>> /\ advertised \in Rulebook /\ current \in Ids
    <3>1. Range(<<>>) = {}
      BY EmptySeq DEF Range
    <3> QED
      BY <3>1 DEF GateInv, BoxInv, BoxTypes
  <2>2. Trusty(limiters[current]) /\ limiters[current].rates = Rates[advertised]
    BY <2>1 DEF GateInv
  <2>3. log \in Log /\ Keeps(log, Halved(r))
    BY <2>1, <2>2, RatesHold DEF Trusty
  <2> QED
    BY <2>1, <2>3, HeldTo
<1> QED
  BY <1>1, <1>2, <1>3, PTL DEF Spec

-----------------------------------------------------------------------------
(* What the site counts.  Under rules that do not change and with no       *)
(* request without a slot, all it has counted has been let through by two  *)
(* limiters: the present one, and the one before it, whose log is g.       *)
Sent == {a \in Actors : actors[a].phase = "sent"}

Ledger(g, o) ==
    /\ g \in Log /\ Grows(g) /\ KeepsAll(g, Initial)
    /\ o \in Ids \cup {0} /\ o # current
    /\ \A c \in Callers : actors[c].at \in {0, current, o}
    /\ \A c \in Callers : actors[c].at = o /\ o # 0 => limiters[o].rates = Initial /\ limiters[o].log = g
    /\ \A w \in 1..Longest : hits[w] + Cardinality(Sent) <= g[w] + limiters[current].log[w]
    /\ advertised = <<>> => limiters[current].rates = Initial /\ g = Empty /\ o = 0

Friendly ==
    /\ ban = 0 /\ hits \in Log /\ advertised \in {<<>>, rules}
    /\ \A a \in Actors : /\ actors[a].answer.status # 429
                         /\ actors[a].phase = "answered" => actors[a].answer.rules = rules

Calm == Friendly /\ \E g, o : Ledger(g, o)

LedgerInv == trouble \in Nat /\ (trouble = 0 => Calm)

(* A request sets out, arrives, or does something else.                    *)
LEMMA SentIs ==
    ASSUME NEW a \in Actors, \A b \in Actors \ {a} : actors'[b] = actors[b]
    PROVE  /\ Cardinality(Sent) \in Nat /\ Cardinality(Sent') \in Nat
           /\ (actors[a].phase = "sent" <=> actors'[a].phase = "sent") => Cardinality(Sent') = Cardinality(Sent)
           /\ actors[a].phase # "sent" /\ actors'[a].phase = "sent" => Cardinality(Sent') = Cardinality(Sent) + 1
           /\ actors[a].phase = "sent" /\ actors'[a].phase # "sent" => Cardinality(Sent) = Cardinality(Sent') + 1
<1>1. IsFiniteSet(Sent) /\ IsFiniteSet(Sent')
  <2>1. Sent \subseteq Actors /\ Sent' \subseteq Actors
    BY DEF Sent
  <2> QED
    BY <2>1, ActorsAssumption, FS_Subset
<1>2. Cardinality(Sent) \in Nat /\ Cardinality(Sent') \in Nat
  BY <1>1, FS_CardinalityType
<1>3. (actors[a].phase = "sent" <=> actors'[a].phase = "sent") => Sent' = Sent
  BY DEF Sent
<1>4. actors[a].phase # "sent" /\ actors'[a].phase = "sent" => Sent' = Sent \cup {a} /\ a \notin Sent
  BY DEF Sent
<1>5. actors[a].phase = "sent" /\ actors'[a].phase # "sent" => Sent = Sent' \cup {a} /\ a \notin Sent'
  BY DEF Sent
<1> QED
  BY <1>1, <1>2, <1>3, <1>4, <1>5, FS_AddElement

(* The rates a policy starts with imply half of every rule.                *)
LEMMA StartsKeep ==
    ASSUME Cautious, NEW list \in Rulebook, NEW r \in Range(list), NEW log \in Log, KeepsAll(log, Initial)
    PROVE  Keeps(log, Halved(r))
<1>1. PICK q \in Range(Initial) : Limit(q) * Touching(r, q) <= Limit(Halved(r)) /\ Limit(q) >= 1
  BY DEF Cautious
<1>2. PICK i \in DOMAIN Initial : Initial[i] = q
  BY DEF Range
<1>3. q \in Sound /\ Keeps(log, q)
  <2>1. Keeps(log, q)
    BY <1>2 DEF KeepsAll
  <2>2. q \in Rule /\ Window(q) \in 1..Longest
    BY <1>2, InitialWithin DEF Within
  <2> QED
    BY <1>1, <2>1, <2>2 DEF Sound
<1>4. r \in Rule /\ Window(r) \in 1..Longest
  BY AdvertisedRule
<1> DEFINE h == Halved(r)
<1>5. h \in Sound /\ Window(h) = Window(r)
  BY <1>4, HalvedIs
<1>6. Touching(h, q) = Touching(r, q)
  BY <1>5 DEF Touching
<1> HIDE DEF h
<1>7. Limit(h) \in Nat /\ Limit(q) * Touching(h, q) <= Limit(h) /\ Limit(h) <= Limit(h)
  <2>1. Limit(h) \in Nat
    BY <1>5 DEF Sound, Rule, Limit
  <2> QED
    BY <1>1, <1>6, <2>1 DEF h
<1> QED
  BY <1>3, <1>5, <1>7, Implied DEF h

-----------------------------------------------------------------------------
(* Steps that leave what the ledger counts, or add to the present log.     *)
LEMMA FriendlyGoes ==
    ASSUME Friendly, UNCHANGED <<ban, hits, rules>>, advertised' \in {<<>>, rules},
           NEW a, \A b \in Actors \ {a} : actors'[b] = actors[b], a \in Actors => actors'[a].answer.status # 429,
           a \in Actors => actors'[a].phase # "answered"
    PROVE  Friendly'
  BY DEF Friendly

LEMMA LogsAreLogs ==
    ASSUME BoxInv, GateInv
    PROVE  /\ limiters[current].log \in Log /\ \A w \in 1..Longest : limiters[current].log[w] \in Nat
           /\ current \in Ids
  BY DEF BoxInv, BoxTypes, GateInv, Trusty, Log

LEMMA LedgerGoes ==
    ASSUME BoxInv, GateInv, BoxInv', GateInv', NEW g, NEW o, Ledger(g, o), hits \in Log, UNCHANGED <<current, advertised, hits>>,
           \A c \in Callers : actors'[c].at \in {0, current, actors[c].at},
           \A c \in Callers : actors'[c].at = o /\ o # 0 => limiters'[o] = limiters[o],
           limiters'[current].rates = limiters[current].rates,
           Cardinality(Sent) \in Nat, Cardinality(Sent') \in Nat,
           \A w \in 1..Longest :
              Cardinality(Sent') + limiters[current].log[w] <= Cardinality(Sent) + limiters'[current].log[w]
    PROVE  Ledger(g, o)'
<1>1. \A c \in Callers : actors'[c].at \in {0, current, o}
  BY DEF Ledger
<1>2. \A c \in Callers : actors'[c].at = o /\ o # 0 => limiters'[o].rates = Initial /\ limiters'[o].log = g
  <2> SUFFICES ASSUME NEW c \in Callers, actors'[c].at = o, o # 0
               PROVE  limiters'[o].rates = Initial /\ limiters'[o].log = g
    OBVIOUS
  <2>1. actors[c].at = o
    BY DEF Ledger
  <2> QED
    BY <2>1 DEF Ledger
<1>3. \A w \in 1..Longest : hits[w] + Cardinality(Sent') <= g[w] + limiters'[current].log[w]
  <2> SUFFICES ASSUME NEW w \in 1..Longest PROVE hits[w] + Cardinality(Sent') <= g[w] + limiters'[current].log[w]
    OBVIOUS
  <2>1. hits[w] \in Nat /\ g[w] \in Nat /\ limiters[current].log[w] \in Nat
    BY LogsAreLogs DEF Ledger, Log
  <2>2. limiters'[current].log[w] \in Nat
    BY DEF BoxInv, BoxTypes, GateInv, Trusty, Log
  <2>3. hits[w] + Cardinality(Sent) <= g[w] + limiters[current].log[w]
    BY DEF Ledger
  <2> QED
    BY <2>1, <2>2, <2>3
<1>4. limiters'[current].rates = limiters[current].rates
  OBVIOUS
<1> QED
  BY <1>1, <1>2, <1>3, <1>4 DEF Ledger

(* The limiters that are waited for are those of ls now.                   *)
Follows(ls) ==
    /\ limiters'[current] = ls[current]
    /\ \A l \in Ids \ {current} : WaitedFor(actors', l) => limiters'[l] = ls[l]

(* Nobody sets out, and no slot is taken.                                  *)
LEMMA LedgerRests ==
    ASSUME BoxInv, GateInv, BoxInv', GateInv', Calm, UNCHANGED <<current, advertised, hits, ban, rules>>,
           Follows(limiters),
           NEW a \in Actors, \A b \in Actors \ {a} : actors'[b] = actors[b],
           actors'[a].answer.status # 429, actors'[a].phase \in {"idle", "held", "limiter"}, actors[a].phase # "sent",
           actors'[a].at \in {0, current, actors[a].at}
    PROVE  Calm'
<1>1. PICK g, o : Ledger(g, o)
  BY DEF Calm
<1>2. Friendly'
  BY FriendlyGoes DEF Calm, Friendly
<1>3. Cardinality(Sent) \in Nat /\ Cardinality(Sent') = Cardinality(Sent)
  BY SentIs
<1>4. \A w \in 1..Longest : limiters[current].log[w] \in Nat
  BY LogsAreLogs
<1>5. \A c \in Callers : actors'[c].at \in {0, current, actors[c].at}
  BY DEF Actors
<1>6. \A c \in Callers : actors'[c].at = o /\ o # 0 => limiters'[o] = limiters[o]
  BY <1>1 DEF Ledger, WaitedFor, Follows
<1>7. Ledger(g, o)'
  BY <1>1, <1>3, <1>4, <1>5, <1>6, LedgerGoes DEF Calm, Friendly, Follows
<1> QED
  BY <1>2, <1>7 DEF Calm

(* A slot of the present limiter is taken; the request sets out, or had    *)
(* set out unasked.                                                        *)
LEMMA LedgerTakes ==
    ASSUME BoxInv, GateInv, BoxInv', GateInv', Calm, UNCHANGED <<current, advertised, hits, ban, rules>>,
           HasSlot(limiters[current]), NEW ls, ls = Spent(current),
           Follows(ls),
           NEW a \in Actors, \A b \in Actors \ {a} : actors'[b] = actors[b],
           actors'[a].answer.status # 429, actors'[a].phase \in {"idle", "sent"}, actors[a].phase # "sent",
           actors'[a].at \in {0, actors[a].at}
    PROVE  Calm'
<1>1. PICK g, o : Ledger(g, o)
  BY DEF Calm
<1>2. Friendly'
  BY FriendlyGoes DEF Calm, Friendly
<1>3. Cardinality(Sent) \in Nat /\ Cardinality(Sent') \in Nat /\ Cardinality(Sent') <= Cardinality(Sent) + 1
  BY SentIs
<1>4. current \in Ids /\ limiters[current].log \in Log /\ \A w \in 1..Longest : limiters[current].log[w] \in Nat
  BY LogsAreLogs
<1>5. /\ \A l \in Ids \ {current} : ls[l] = limiters[l]
      /\ ls[current].rates = limiters[current].rates /\ ls[current].log = OneMore(limiters[current].log)
  BY <1>4, SpentIs DEF GateInv
<1>6. \A w \in 1..Longest : limiters'[current].log[w] = limiters[current].log[w] + 1
  <2>1. limiters'[current].log = OneMore(limiters[current].log)
    BY <1>5 DEF Follows
  <2> QED
    BY <2>1 DEF OneMore
<1>7. \A w \in 1..Longest :
         Cardinality(Sent') + limiters[current].log[w] <= Cardinality(Sent) + limiters'[current].log[w]
  BY <1>3, <1>4, <1>6
<1>8. \A c \in Callers : actors'[c].at \in {0, current, actors[c].at}
  BY DEF Actors
<1>9. \A c \in Callers : actors'[c].at = o /\ o # 0 => limiters'[o] = limiters[o]
  BY <1>1, <1>5 DEF Ledger, WaitedFor, Follows
<1>10. limiters'[current].rates = limiters[current].rates
  BY <1>5 DEF Follows
<1>11. Ledger(g, o)'
  BY <1>1, <1>3, <1>7, <1>8, <1>9, <1>10, LedgerGoes DEF Calm, Friendly
<1> QED
  BY <1>2, <1>11 DEF Calm

(* The one before it lets a waiting request through: its log grows.        *)
LEMMA LedgerTakesOld ==
    ASSUME BoxInv, GateInv, BoxInv', GateInv', Calm, UNCHANGED <<current, advertised, hits, ban, rules>>,
           NEW a \in Callers, actors[a].at \in Ids \ {current}, HasSlot(limiters[actors[a].at]), NEW ls, ls = Spent(actors[a].at),
           Follows(ls),
           \A b \in Actors \ {a} : actors'[b] = actors[b],
           actors'[a].answer.status # 429, actors'[a].phase = "sent", actors[a].phase # "sent", actors'[a].at = 0
    PROVE  Calm'
<1>1. PICK g, o : Ledger(g, o)
  BY DEF Calm
<1>2. Friendly'
  BY FriendlyGoes DEF Calm, Friendly, Actors
<1>3. Cardinality(Sent) \in Nat /\ Cardinality(Sent') \in Nat /\ Cardinality(Sent') = Cardinality(Sent) + 1
  BY SentIs DEF Actors
<1>4. current \in Ids /\ limiters[current].log \in Log /\ \A w \in 1..Longest : limiters[current].log[w] \in Nat
  BY LogsAreLogs
<1>5. actors[a].at = o /\ o \in Ids /\ o # 0 /\ o # current /\ 0 \notin Ids
  BY <1>1 DEF Ledger, Ids
<1>6. limiters[o].rates = Initial /\ limiters[o].log = g /\ g \in Log /\ Grows(g) /\ KeepsAll(g, Initial)
  BY <1>1, <1>5 DEF Ledger
<1>7. /\ \A l \in Ids \ {o} : ls[l] = limiters[l]
      /\ ls[o].rates = Initial /\ ls[o].log = OneMore(g)
      /\ Trusty(ls[o])
  BY <1>5, <1>6, SpentIs DEF GateInv
<1> DEFINE n == OneMore(g)
<1>8. n \in Log /\ Grows(n) /\ KeepsAll(n, Initial) /\ \A w \in 1..Longest : n[w] = g[w] + 1 /\ g[w] \in Nat
  <2>1. n \in Log /\ Grows(n) /\ KeepsAll(n, Initial)
    BY <1>7 DEF Trusty
  <2>2. \A w \in 1..Longest : n[w] = g[w] + 1 /\ g[w] \in Nat
    BY <1>6 DEF OneMore, Log
  <2> QED
    BY <2>1, <2>2
<1>9. limiters'[current] = limiters[current]
  BY <1>4, <1>5, <1>7 DEF Follows
<1>10. \A c \in Callers : actors'[c].at = o => limiters'[o].rates = Initial /\ limiters'[o].log = n
  BY <1>5, <1>7 DEF WaitedFor, Follows
<1>11. \A c \in Callers : actors'[c].at \in {0, current, o}
  BY <1>1 DEF Ledger, Actors
<1>12. advertised # <<>>
  BY <1>1, <1>5 DEF Ledger
<1>13. \A w \in 1..Longest : hits[w] + Cardinality(Sent') <= n[w] + limiters[current].log[w]
  <2> SUFFICES ASSUME NEW w \in 1..Longest PROVE hits[w] + Cardinality(Sent') <= n[w] + limiters[current].log[w]
    OBVIOUS
  <2>1. hits[w] \in Nat /\ hits[w] + Cardinality(Sent) <= g[w] + limiters[current].log[w]
    BY <1>1 DEF Ledger, Calm, Friendly, Log
  <2>2. n[w] = g[w] + 1 /\ g[w] \in Nat /\ limiters[current].log[w] \in Nat
    BY <1>4, <1>8
  <2> HIDE DEF n
  <2> QED
    BY <1>3, <2>1, <2>2
<1> HIDE DEF n
<1>14. Ledger(n, o)'
  BY <1>5, <1>8, <1>9, <1>10, <1>11, <1>12, <1>13 DEF Ledger
<1> QED
  BY <1>2, <1>14 DEF Calm

(* The rules are new to the gate: the log it leaves takes the place of an  *)
(* empty one.                                                              *)
LEMMA LedgerDerives ==
    ASSUME BoxInv, GateInv, BoxInv', GateInv', Calm, UNCHANGED <<hits, ban, rules>>,
           NEW a \in Actors, \A b \in Actors \ {a} : actors'[b] = actors[b],
           actors[a].phase = "answered", Observe(a, actors'), actors'[a] = Idle
    PROVE  Calm'
<1>1. PICK g, o : Ledger(g, o)
  BY DEF Calm
<1>2. Derived(actors', rules)
  BY DEF Observe, Calm, Friendly
<1>3. rules \in Rulebook /\ rules # <<>>
  BY RulesAssumption DEF BoxInv, BoxTypes
<1>4. /\ advertised' = rules
      /\ rules = advertised => UNCHANGED <<limiters, current>>
      /\ rules # advertised => /\ current' # current /\ limiters'[current'].log = Empty
                               /\ \A l \in Ids \ {current'} : WaitedFor(actors', l) => limiters'[l] = limiters[l]
  BY <1>2, <1>3, DerivedIs
<1>5. /\ actors'[a].answer.status # 429 /\ actors'[a].phase = "idle" /\ actors'[a].at = 0
  BY DEF Idle, NoAnswer
<1>6. CASE rules = advertised
  BY <1>4, <1>5, <1>6, LedgerRests DEF Follows
<1>7. CASE rules # advertised
  <2>1. advertised = <<>> /\ limiters[current].rates = Initial /\ g = Empty /\ o = 0
    BY <1>1, <1>7 DEF Ledger, Calm, Friendly
  <2>2. Friendly'
    BY <1>4, <1>5, FriendlyGoes DEF Calm
  <2>3. Cardinality(Sent) \in Nat /\ Cardinality(Sent') = Cardinality(Sent)
    BY <1>5, SentIs
  <2>4. PICK l \in Ids : l = current
    BY LogsAreLogs
  <2>5. PICK n \in Log : n = limiters[current].log
    BY LogsAreLogs
  <2>6. Grows(n) /\ KeepsAll(n, Initial)
    BY <2>1, <2>4, <2>5 DEF GateInv, Trusty
  <2>7. l # current'
    BY <1>4, <1>7, <2>4
  <2>8. \A c \in Callers : actors'[c].at \in {0, l}
    BY <1>1, <1>5, <2>1, <2>4 DEF Ledger, Actors
  <2>9. \A c \in Callers : actors'[c].at = l /\ l # 0 => limiters'[l].rates = Initial /\ limiters'[l].log = n
    <3> SUFFICES ASSUME NEW c \in Callers, actors'[c].at = l PROVE limiters'[l].rates = Initial /\ limiters'[l].log = n
      OBVIOUS
    <3>1. WaitedFor(actors', l)
      BY DEF WaitedFor
    <3>2. limiters'[l] = limiters[l]
      BY <1>4, <1>7, <2>7, <3>1
    <3> QED
      BY <2>1, <2>4, <2>5, <3>2
  <2>10. \A w \in 1..Longest : hits[w] + Cardinality(Sent') <= n[w] + limiters'[current'].log[w]
    <3> SUFFICES ASSUME NEW w \in 1..Longest PROVE hits[w] + Cardinality(Sent') <= n[w] + limiters'[current'].log[w]
      OBVIOUS
    <3>1. hits[w] \in Nat /\ hits[w] + Cardinality(Sent) <= g[w] + n[w]
      BY <1>1, <2>5 DEF Ledger, Calm, Friendly, Log
    <3>2. g[w] = 0 /\ limiters'[current'].log[w] = 0
      BY <1>4, <1>7, <2>1 DEF Empty
    <3>3. n[w] \in Nat
      BY DEF Log
    <3> QED
      BY <2>3, <3>1, <3>2, <3>3
  <2>11. Ledger(n, l)'
    BY <1>3, <1>4, <2>6, <2>7, <2>8, <2>9, <2>10 DEF Ledger
  <2> QED
    BY <2>2, <2>11 DEF Calm
<1> QED
  BY <1>6, <1>7

(* What both have let through is below every limit: the site answers.      *)
LEMMA NothingBreaks ==
    ASSUME Cautious, Roomy, BoxInv, GateInv, Calm, Cardinality(Sent) \in Nat \ {0}
    PROVE  ~Broken(hits)
<1>1. PICK g, o : Ledger(g, o)
  BY DEF Calm
<1>2. rules \in Rulebook
  BY DEF BoxInv, BoxTypes
<1> SUFFICES ASSUME NEW r \in Range(rules) PROVE hits[Window(r)] < Limit(r)
  <2>1. \A r \in Range(rules) : Window(r) \in 1..Longest /\ Limit(r) \in Nat
    BY <1>2, AdvertisedRule
  <2>2. \A w \in 1..Longest : hits[w] \in Nat
    BY DEF Calm, Friendly, Log
  <2> QED
    BY <2>1, <2>2 DEF Broken
<1>3. PICK log \in Log : log = limiters[current].log
  BY LogsAreLogs
<1>4. Keeps(log, Halved(r))
  <2>1. CASE advertised = <<>>
    <3>1. KeepsAll(log, Initial)
      BY <1>1, <1>3, <2>1, LogsAreLogs DEF Ledger, GateInv, Trusty
    <3> QED
      BY <1>2, <3>1, StartsKeep
  <2>2. CASE advertised # <<>>
    <3>1. advertised = rules /\ KeepsAll(log, Rates[rules])
      BY <1>3, <2>2, LogsAreLogs DEF Calm, Friendly, GateInv, Trusty
    <3> QED
      BY <1>2, <3>1, RatesHold
  <2> QED
    BY <2>1, <2>2
<1>5. g \in Log /\ Keeps(g, Halved(r))
  BY <1>1, <1>2, StartsKeep DEF Ledger
<1>6. /\ Window(r) \in 1..Longest /\ Limit(Halved(r)) \in Nat /\ Limit(r) \in Nat /\ 2 * Limit(Halved(r)) <= Limit(r)
      /\ log[Window(r)] <= Limit(Halved(r)) /\ g[Window(r)] <= Limit(Halved(r))
  BY <1>2, <1>4, <1>5, HeldTo
<1>7. hits[Window(r)] + Cardinality(Sent) <= g[Window(r)] + log[Window(r)]
  BY <1>1, <1>3, <1>6 DEF Ledger
<1>8. hits[Window(r)] \in Nat /\ g[Window(r)] \in Nat /\ log[Window(r)] \in Nat
  BY <1>5, <1>6 DEF Calm, Friendly, Log
<1> QED
  BY <1>6, <1>7, <1>8

LEMMA LedgerArrives ==
    ASSUME Cautious, Roomy, BoxInv, GateInv, BoxInv', GateInv', Calm, NEW a \in Actors, Arrive(a)
    PROVE  Calm'
<1>0. actors \in [Actors -> Request]
  BY DEF BoxInv, BoxTypes
<1>1. actors[a].phase = "sent" /\ UNCHANGED <<limiters, current, advertised, rules>>
  BY DEF Arrive, gate
<1>2. actors'[a].phase = "answered" /\ \A b \in Actors \ {a} : actors'[b] = actors[b]
  <2>1. CASE ban > 0 \/ Broken(hits)
    <3>1. actors' = [actors EXCEPT ![a] = Told(a, Refusal(ban'))]
      BY <2>1 DEF Arrive
    <3> QED
      BY <1>0, <3>1 DEF Told
  <2>2. CASE ~(ban > 0 \/ Broken(hits))
    <3>1. PICK h \in 0..HoldCap : actors' = [actors EXCEPT ![a] = Told(a, Counted(h))]
      BY <2>2 DEF Arrive
    <3> QED
      BY <1>0, <3>1 DEF Told
  <2> QED
    BY <2>1, <2>2
<1>3. Cardinality(Sent) \in Nat \ {0} /\ Cardinality(Sent') \in Nat /\ Cardinality(Sent) = Cardinality(Sent') + 1
  BY <1>1, <1>2, SentIs
<1>4. ~(ban > 0 \/ Broken(hits))
  BY <1>3, NothingBreaks DEF Calm, Friendly
<1>5. hits' = OneMore(hits) /\ ban' = ban
  BY <1>4 DEF Arrive
<1>6. PICK h \in 0..HoldCap : actors' = [actors EXCEPT ![a] = Told(a, Counted(h))]
  BY <1>4 DEF Arrive
<1>7. actors'[a].at = 0 /\ actors'[a].answer.status = 200 /\ actors'[a].answer.rules = rules
  BY <1>0, <1>6 DEF Told, Counted
<1>8. hits \in Log /\ hits' \in Log /\ \A w \in 1..Longest : hits'[w] = hits[w] + 1 /\ hits[w] \in Nat
  <2>1. hits \in Log
    BY DEF Calm, Friendly
  <2>2. \A w \in 1..Longest : hits[w] \in Nat /\ hits[w] + 1 \in Nat
    BY <2>1 DEF Log
  <2> QED
    BY <1>5, <2>1, <2>2 DEF OneMore, Log
<1>9. Friendly'
  BY <1>1, <1>2, <1>5, <1>7, <1>8 DEF Calm, Friendly
<1>10. PICK g, o : Ledger(g, o)
  BY DEF Calm
<1>11. \A w \in 1..Longest : hits'[w] + Cardinality(Sent') <= g[w] + limiters[current].log[w]
  <2> SUFFICES ASSUME NEW w \in 1..Longest PROVE hits'[w] + Cardinality(Sent') <= g[w] + limiters[current].log[w]
    OBVIOUS
  <2>1. hits[w] + Cardinality(Sent) <= g[w] + limiters[current].log[w]
    BY <1>10 DEF Ledger
  <2>2. g[w] \in Nat /\ limiters[current].log[w] \in Nat
    BY <1>10, LogsAreLogs DEF Ledger, Log
  <2> QED
    BY <1>3, <1>8, <2>1, <2>2
<1>12. \A c \in Callers : actors'[c].at = 0 \/ actors'[c] = actors[c]
  BY <1>2, <1>7 DEF Actors
<1>13. 0 \notin Ids
  BY DEF Ids
<1>14. Ledger(g, o)'
  BY <1>1, <1>10, <1>11, <1>12, <1>13 DEF Ledger
<1> QED
  BY <1>9, <1>14 DEF Calm

(* A tick: nobody is on the way, and every log forgets the same.           *)
LEMMA LedgerTicks ==
    ASSUME BoxInv, GateInv, Calm, Tick
    PROVE  Calm'
<1>1. PICK g, o : Ledger(g, o)
  BY DEF Calm
<1>2. UNCHANGED <<current, advertised, rules>> /\ hits' = Older(hits) /\ ban' = 0
  BY DEF Tick, Less, Calm, Friendly
<1>3. \A l \in Ids : limiters'[l].rates = limiters[l].rates /\ limiters'[l].log = Older(limiters[l].log)
  BY TickIs
<1>4. \A a \in Actors : /\ actors'[a].phase = actors[a].phase /\ actors'[a].at = actors[a].at
                        /\ actors'[a].answer.status = actors[a].answer.status
                        /\ actors'[a].answer.rules = actors[a].answer.rules
  BY TickIs
<1>5. Sent = {} /\ Sent' = {}
  BY <1>4 DEF Sent, Tick
<1>6. Cardinality(Sent) = 0 /\ Cardinality(Sent') = 0
  <2>1. Cardinality({}) = 0
    BY FS_EmptySet
  <2> QED
    BY <1>5, <2>1
<1>7. hits \in Log /\ hits' \in Log
  <2> SUFFICES ASSUME NEW w \in 1..Longest PROVE (IF w = 1 THEN 0 ELSE hits[w - 1]) \in Nat
    BY <1>2 DEF Calm, Friendly, Older, Log
  <2>1. Longest \in Nat /\ hits \in Log
    BY RulesAssumption DEF Calm, Friendly
  <2>2. w # 1 => w - 1 \in 1..Longest
    BY <2>1
  <2> QED
    BY <2>1, <2>2 DEF Log
<1>8. Friendly'
  BY <1>2, <1>4, <1>7 DEF Calm, Friendly
<1> DEFINE n == Older(g)
<1>9. n \in Log /\ Grows(n) /\ KeepsAll(n, Initial)
  <2>1. g \in Log /\ Grows(g) /\ KeepsAll(g, Initial)
    BY <1>1 DEF Ledger
  <2> QED
    BY <2>1, OlderLog, InitialWithin DEF KeepsAll, Within
<1>10. current \in Ids /\ limiters[current].log \in Log /\ limiters'[current].log = Older(limiters[current].log)
       /\ limiters'[current].rates = limiters[current].rates
  BY <1>3, LogsAreLogs
<1>11. \A w \in 1..Longest : hits'[w] + Cardinality(Sent') <= n[w] + limiters'[current].log[w]
  <2> SUFFICES ASSUME NEW w \in 1..Longest PROVE Older(hits)[w] <= Older(g)[w] + Older(limiters[current].log)[w]
    BY <1>2, <1>6, <1>7, <1>10 DEF Log
  <2>1. CASE w = 1
    BY <2>1 DEF Older
  <2>2. CASE w # 1
    <3>1. w - 1 \in 1..Longest
      BY <2>2, RulesAssumption
    <3>2. hits[w - 1] + 0 <= g[w - 1] + limiters[current].log[w - 1] /\ hits[w - 1] \in Nat
      BY <1>1, <1>6, <1>7, <3>1 DEF Ledger, Log
    <3> QED
      BY <2>2, <3>2 DEF Older
  <2> QED
    BY <2>1, <2>2
<1>12. advertised = <<>> => limiters[current].rates = Initial /\ n = Empty /\ o = 0
  <2>1. Older(Empty) = Empty
    <3>1. \A w \in 1..Longest : w # 1 => w - 1 \in 1..Longest
      BY RulesAssumption
    <3> QED
      BY <3>1 DEF Older, Empty
  <2> QED
    BY <1>1, <2>1 DEF Ledger
<1>13. \A c \in Callers : actors'[c].at = o /\ o # 0 => limiters'[o].rates = Initial /\ limiters'[o].log = n
  <2> SUFFICES ASSUME NEW c \in Callers, actors'[c].at = o, o # 0
               PROVE  limiters'[o].rates = Initial /\ limiters'[o].log = n
    OBVIOUS
  <2>1. o \in Ids /\ limiters[o].rates = Initial /\ limiters[o].log = g
    BY <1>1, <1>4 DEF Ledger, Actors
  <2> QED
    BY <1>3, <2>1
<1>14. \A c \in Callers : actors'[c].at \in {0, current, o}
  BY <1>1, <1>4 DEF Ledger, Actors
<1>15. o \in Ids \cup {0} /\ o # current
  BY <1>1 DEF Ledger
<1> HIDE DEF n
<1>16. Ledger(n, o)'
  BY <1>2, <1>9, <1>10, <1>11, <1>12, <1>13, <1>14, <1>15 DEF Ledger
<1> QED
  BY <1>8, <1>16 DEF Calm

-----------------------------------------------------------------------------
LEMMA LedgerInitOK == Init => LedgerInv
<1> SUFFICES ASSUME Init PROVE LedgerInv
  OBVIOUS
<1>1. /\ current = 1 /\ advertised = <<>> /\ hits = Empty /\ ban = 0 /\ trouble = 0
      /\ \A a \in Actors : actors[a] = Idle
  BY DEF Init
<1>2. 1 \in Ids /\ limiters[1] = New(Initial)
  <2>1. IsFiniteSet(Callers)
    BY ActorsAssumption, FS_Subset DEF Actors
  <2>2. Cardinality(Callers) \in Nat
    BY <2>1, FS_CardinalityType
  <2>3. 1 \in Ids
    BY <2>2 DEF Ids
  <2> QED
    BY <2>3 DEF Init
<1>3. Empty \in Log /\ Grows(Empty) /\ KeepsAll(Empty, Initial)
  BY EmptyLog, InitialWithin DEF KeepsAll, Within
<1>4. Friendly
  BY <1>1, <1>3 DEF Friendly, Idle, NoAnswer
<1>5. Cardinality(Sent) = 0
  <2>1. Sent = {}
    BY <1>1 DEF Sent, Idle
  <2> QED
    BY <2>1, FS_EmptySet
<1>6. limiters[current].rates = Initial /\ limiters[current].log = Empty
  BY <1>1, <1>2 DEF New
<1>7. \A w \in 1..Longest : hits[w] + Cardinality(Sent) <= Empty[w] + limiters[current].log[w]
  BY <1>1, <1>5, <1>6 DEF Empty
<1>8. \A c \in Callers : actors[c].at = 0
  BY <1>1 DEF Actors, Idle
<1>9. Ledger(Empty, 0)
  BY <1>1, <1>3, <1>6, <1>7, <1>8 DEF Ledger
<1> QED
  BY <1>1, <1>4, <1>9 DEF LedgerInv, Calm

LEMMA LedgerStep ==
    ASSUME Cautious, Roomy, BoxInv, GateInv, BoxInv', GateInv', LedgerInv, [Next]_vars
    PROVE  LedgerInv'
<1> USE DEF Goes, gate, site
<1> DEFINE Troubled == ChangeRules \/ \E d \in Shell \cup Others : Bypass(d)
<1>1. Troubled => trouble' = trouble + 1
  BY DEF ChangeRules, Bypass, Trouble
<1>2. ~Troubled => trouble' = trouble
  BY DEF Next, Call, Tick, Ask, TakeFree, EnterLimiter, TakeSlot, GiveUp, Answered, TakeNow, Report, Hint, Arrive, Lose, vars
<1> SUFFICES ASSUME ~Troubled, trouble = 0 PROVE Calm'
  BY <1>1, <1>2 DEF LedgerInv
<1>3. Calm
  BY DEF LedgerInv
<1>0. /\ actors \in [Actors -> Request] /\ current \in Ids /\ Callers \cup Shell \cup Others = Actors
      /\ \A a \in Actors : actors[a].answer.status # 429
  BY <1>3 DEF BoxInv, BoxTypes, Actors, Calm, Friendly
<1>4. ASSUME NEW a \in Actors, Ask(a) \/ EnterLimiter(a) PROVE Calm'
  <2>1. /\ UNCHANGED <<limiters, current, advertised, hits, ban, rules>> /\ actors[a].phase \in {"idle", "held"}
        /\ \/ actors' = [actors EXCEPT ![a].phase = "held"]
           \/ actors' = [actors EXCEPT ![a].phase = "limiter", ![a].at = current]
    BY <1>4 DEF Ask, EnterLimiter
  <2>2. PICK x \in Request : x = actors[a]
    BY <1>0
  <2>3. /\ \A b \in Actors \ {a} : actors'[b] = actors[b]
        /\ actors'[a] = [x EXCEPT !.phase = "held"] \/ actors'[a] = [x EXCEPT !.phase = "limiter", !.at = current]
    <3>1. CASE actors' = [actors EXCEPT ![a].phase = "held"]
      BY <1>0, <2>2, <3>1
    <3>2. CASE actors' = [actors EXCEPT ![a].phase = "limiter", ![a].at = current]
      BY <1>0, <2>2, <3>2
    <3> QED
      BY <2>1, <3>1, <3>2
  <2>4. actors'[a].phase \in {"held", "limiter"} /\ actors'[a].at \in {0, current, actors[a].at}
        /\ actors'[a].answer.status # 429
    <3>1. x.answer.status # 429
      BY <1>0, <2>2
    <3>2. CASE actors'[a] = [x EXCEPT !.phase = "held"]
      BY <2>2, <3>1, <3>2 DEF Request
    <3>3. CASE actors'[a] = [x EXCEPT !.phase = "limiter", !.at = current]
      BY <2>2, <3>1, <3>3 DEF Request
    <3> QED
      BY <2>3, <3>2, <3>3
  <2> QED
    BY <1>3, <2>1, <2>3, <2>4, LedgerRests DEF Follows
<1>5. ASSUME NEW a \in Actors, TakeFree(a) \/ TakeNow(a) PROVE Calm'
  <2>1. /\ HasSlot(limiters[current]) /\ limiters' = Spent(current) /\ UNCHANGED <<current, advertised, hits, ban, rules>>
        /\ actors[a].phase \in {"idle", "held"} /\ actors' = [actors EXCEPT ![a].phase = "sent"]
    BY <1>5 DEF TakeFree, TakeNow
  <2>2. PICK x \in Request : x = actors[a]
    BY <1>0
  <2>3. actors'[a] = [x EXCEPT !.phase = "sent"] /\ \A b \in Actors \ {a} : actors'[b] = actors[b]
    BY <1>0, <2>1, <2>2
  <2>4. actors'[a].phase = "sent" /\ actors'[a].at = actors[a].at /\ actors'[a].answer.status # 429
    BY <1>0, <2>2, <2>3 DEF Request
  <2> QED
    BY <1>3, <2>1, <2>3, <2>4, LedgerTakes DEF Follows
<1>6. ASSUME NEW a \in Callers, TakeSlot(a) PROVE Calm'
  <2> DEFINE x == actors[a].at
  <2>1. /\ HasSlot(limiters[x]) /\ limiters' = Kept(Spent(x), actors', current)
        /\ UNCHANGED <<current, advertised, hits, ban, rules>>
        /\ actors' = [actors EXCEPT ![a].phase = "sent", ![a].at = 0] /\ a \in Actors /\ actors[a].phase = "limiter"
    BY <1>6 DEF TakeSlot, Actors
  <2>2. PICK u \in Request : u = actors[a]
    BY <1>0, <2>1
  <2>3. actors'[a] = [u EXCEPT !.phase = "sent", !.at = 0] /\ \A b \in Actors \ {a} : actors'[b] = actors[b]
    BY <1>0, <2>1, <2>2
  <2>4. actors'[a].phase = "sent" /\ actors'[a].at = 0 /\ actors'[a].answer.status # 429
    BY <1>0, <2>1, <2>2, <2>3 DEF Request
  <2>5. x \in Ids
    BY <2>1 DEF GateInv
  <2> HIDE DEF x
  <2>6. PICK ls : ls = Spent(x)
    OBVIOUS
  <2>7. Follows(ls)
    BY <1>0, <2>1, <2>6 DEF Kept, WaitedFor, Follows
  <2>8. CASE x = current
    <3>1. HasSlot(limiters[current]) /\ ls = Spent(current)
      BY <2>1, <2>6, <2>8
    <3>2. actors[a].phase # "sent" /\ actors'[a].phase \in {"idle", "sent"} /\ actors'[a].at \in {0, actors[a].at}
      BY <2>1, <2>4
    <3> QED
      BY <1>3, <2>1, <2>3, <2>4, <2>7, <3>1, <3>2, LedgerTakes
  <2>9. CASE x # current
    <3>1. HasSlot(limiters[actors[a].at]) /\ ls = Spent(actors[a].at) /\ actors[a].at \in Ids \ {current}
      BY <2>1, <2>5, <2>6, <2>9 DEF x
    <3>2. actors[a].phase # "sent"
      BY <2>1
    <3> QED
      BY <1>3, <2>1, <2>3, <2>4, <2>7, <3>1, <3>2, LedgerTakesOld
  <2> QED
    BY <2>8, <2>9
<1>7. ASSUME NEW a \in Callers, GiveUp(a) PROVE Calm'
  <2>1. /\ limiters' = Kept(limiters, actors', current) /\ UNCHANGED <<current, advertised, hits, ban, rules>>
        /\ actors' = [actors EXCEPT ![a] = Idle] /\ a \in Actors /\ actors[a].phase = "limiter"
    BY <1>7 DEF GiveUp, Actors
  <2>2. actors'[a] = Idle /\ \A b \in Actors \ {a} : actors'[b] = actors[b]
    BY <1>0, <2>1
  <2>3. Follows(limiters)
    BY <1>0, <2>1 DEF Kept, WaitedFor, Follows
  <2>4. actors'[a].phase = "idle" /\ actors'[a].at = 0 /\ actors'[a].answer.status # 429
    BY <2>2 DEF Idle, NoAnswer
  <2> QED
    BY <1>3, <2>1, <2>2, <2>3, <2>4, LedgerRests
<1>8. ASSUME NEW a \in Actors, Answered(a) \/ Report(a) PROVE Calm'
  <2>1. Observe(a, actors') /\ actors[a].phase = "answered" /\ UNCHANGED <<hits, ban, rules>>
    BY <1>8 DEF Answered, Report
  <2>2. actors' = [actors EXCEPT ![a] = Idle]
    BY <1>0, <1>8 DEF Answered, Report, Retried
  <2>3. actors'[a] = Idle /\ \A b \in Actors \ {a} : actors'[b] = actors[b]
    BY <1>0, <2>2
  <2> QED
    BY <1>3, <2>1, <2>3, LedgerDerives
<1>9. ASSUME NEW a \in Actors, Hint(a) \/ Lose(a) PROVE Calm'
  <2>1. actors' = [actors EXCEPT ![a] = Idle] /\ UNCHANGED <<current, advertised, hits, ban, rules>> /\ actors[a].phase = "answered"
    BY <1>9 DEF Hint, Lose
  <2>2. actors'[a] = Idle /\ \A b \in Actors \ {a} : actors'[b] = actors[b]
    BY <1>0, <2>1
  <2>3. \/ UNCHANGED limiters
        \/ HasSlot(limiters[current]) /\ limiters' = Spent(current)
    BY <1>9 DEF Hint, Lose
  <2>4. actors'[a].phase = "idle" /\ actors'[a].at = 0 /\ actors'[a].answer.status # 429
    BY <2>2 DEF Idle, NoAnswer
  <2> QED
    BY <1>3, <2>1, <2>2, <2>3, <2>4, LedgerTakes, LedgerRests DEF Follows
<1>10. CASE UNCHANGED vars
  <2>1. PICK g, o : Ledger(g, o)
    BY <1>3 DEF Calm
  <2>2. Ledger(g, o)' /\ Friendly'
    BY <1>3, <1>10, <2>1 DEF vars, Calm, Friendly, Ledger, Sent
  <2> QED
    BY <2>2 DEF Calm
<1> QED
  BY <1>0, <1>1, <1>2, <1>3, <1>4, <1>5, <1>6, <1>7, <1>8, <1>9, <1>10, LedgerArrives, LedgerTicks DEF Next, Call

(* The site's rules hold and it never refuses a request, for any requests, *)
(* rules and rates to start with, as long as those imply half of every     *)
(* rule and every rule has a half (gateway.py, Policy).                    *)
THEOREM RulesHoldEver == ASSUME Cautious, Roomy PROVE Spec => []RulesHold
<1>1. Init => BoxInv /\ GateInv /\ LedgerInv
  BY InitBoxInv, GateInitOK, LedgerInitOK
<1>2. BoxInv /\ GateInv /\ LedgerInv /\ [Next]_vars => (BoxInv /\ GateInv /\ LedgerInv)'
  <2>1. BoxInv /\ GateInv /\ [Next]_vars => BoxInv' /\ GateInv'
    BY NextKeeps, GateStep
  <2> QED
    BY <2>1, LedgerStep
<1>3. LedgerInv => NeverRefused
  BY DEF LedgerInv, Calm, Friendly, NeverRefused
<1>4. Spec => []NeverRefused
  BY <1>1, <1>2, <1>3, PTL DEF Spec
<1>5. ChainLoosensNothing /\ NeverRefused => RulesHold
  BY DEF RulesHold
<1> QED
  BY <1>4, <1>5, ChainLoosensNothingEver, PTL

-----------------------------------------------------------------------------
(* The seeds.  The least and the greatest of some days.                    *)
LEMMA LeastIsThere ==
    ASSUME NEW S, S \subseteq Nat, S # {}
    PROVE  Smallest(S) \in S /\ \A y \in S : Smallest(S) <= y
<1> DEFINE R == OpToRel(<, Nat)
<1>1. PICK x \in S : \A y \in S : ~ (<<y, x>> \in R)
  BY WFMin, NatLessThanWellFounded
<1>2. x \in Nat /\ \A y \in S : y \in Nat /\ ~(y < x)
  BY <1>1 DEF OpToRel
<1>3. ASSUME NEW y \in S PROVE x <= y
  <2>1. x \in Nat /\ y \in Nat /\ ~(y < x)
    BY <1>2
  <2> QED
    BY <2>1
<1> QED
  BY <1>3 DEF Smallest

LEMMA GreatestIsThere ==
    ASSUME NEW S, S \subseteq Day, S # {}
    PROVE  Largest(S) \in S /\ \A y \in S : y <= Largest(S)
<1> DEFINE T == {Days - d : d \in S}
<1>1. Days \in Nat /\ \A d \in S : d \in 1..Days
  BY SeedAssumption DEF Day
<1>2. T \subseteq Nat /\ T # {}
  BY <1>1
<1>3. PICK m \in T : \A y \in T : m <= y
  BY <1>2, LeastIsThere
<1>4. PICK x \in S : m = Days - x
  OBVIOUS
<1>5. ASSUME NEW y \in S PROVE y <= x
  <2>1. Days - x <= Days - y
    BY <1>3, <1>4
  <2> QED
    BY <1>1, <2>1
<1> QED
  BY <1>5 DEF Largest

-----------------------------------------------------------------------------
Rows == [Items -> [Day -> 0..MaxRev]]

SeedTypes ==
    /\ posted \in [rev : Rows, moves : [Items -> Nat], day : Day, gone : SUBSET Items]
    /\ DOMAIN srv = {"rows", "stamp", "fp", "cut"} /\ srv.rows \in Rows /\ srv.cut.day \in Int
    /\ DOMAIN srv.fp = Items /\ \A i \in Items : srv.fp[i].through \in Int
    /\ DOMAIN poll = {"pc", "list", "todo", "failed", "fetched"}
    /\ clock \in Day

(* Nothing is posted for later days, and no row of the server is ahead of  *)
(* the site.                                                               *)
Ahead == \A i \in Items, d \in Day : d > posted.day => posted.rev[i][d] = 0
Behind == \A i \in Items, d \in Day : srv.rows[i][d] <= posted.rev[i][d]

(* Up to day c, which the site does not change any more, the rows of every *)
(* tracked item are final.                                                 *)
Final(given, c) ==
    /\ c \in Int /\ c < posted.day
    /\ \A i \in Tracked(given) \ posted.gone, d \in Day : d <= c => given[i][d] = posted.rev[i][d]

(* A record vouches only for what was fetched when it was final.           *)
Vouching ==
    \A i \in Items \ posted.gone : srv.fp[i].vouch =>
        /\ srv.fp[i].through < posted.day
        /\ \A d \in Day : d <= srv.fp[i].through => srv.rows[i][d] = posted.rev[i][d]

(* The listing a poll works with still says what the site says, of the     *)
(* days it shows to be final.                                              *)
Lists(list) ==
    /\ final_through(list) \in Int /\ final_through(list) < posted.day
    /\ final_through(list) # NoDay => final_through(list) \in Day /\ \E i \in Items : list[i][final_through(list)] # 0
    /\ \A i \in Items \ posted.gone, d \in Day : d <= final_through(list) => list[i][d] = Listing(i)[d]

SeedInv ==
    /\ SeedTypes /\ Ahead /\ Behind /\ Vouching
    /\ Final(srv.rows, srv.cut.day)
    /\ poll.pc = "fetching" => Lists(poll.list)
    /\ seed.cut \in Int /\ Final(seed.rows, seed.cut)

-----------------------------------------------------------------------------
LEMMA SeedInitOK == SeedInit => SeedInv
<1> SUFFICES ASSUME SeedInit PROVE SeedInv
  OBVIOUS
<1>1. NoRows \in Rows /\ \A i \in Items, d \in Day : NoRows[i][d] = 0
  BY SeedAssumption DEF NoRows, Rows
<1>2. 1 \in Day
  BY SeedAssumption DEF Day
<1>3. posted.rev = NoRows /\ posted.day = 1 /\ posted.gone = {} /\ posted \in [rev : Rows, moves : [Items -> Nat], day : Day, gone : SUBSET Items]
  BY <1>1, <1>2 DEF SeedInit
<1>4. srv.rows = NoRows /\ srv.cut.day = NoDay /\ DOMAIN srv = {"rows", "stamp", "fp", "cut"}
      /\ DOMAIN srv.fp = Items /\ \A i \in Items : srv.fp[i].through = NoDay /\ srv.fp[i].vouch = FALSE
  BY DEF SeedInit, NoFp
<1>5. poll.pc = "idle" /\ DOMAIN poll = {"pc", "list", "todo", "failed", "fetched"} /\ seed.cut = NoDay /\ seed.rows = NoRows /\ clock = 1
  BY DEF SeedInit, NoPoll
<1>6. NoDay \in Int /\ NoDay < 1 /\ Tracked(NoRows) = {}
  BY <1>1 DEF NoDay, Tracked
<1>7. SeedTypes /\ Ahead /\ Behind /\ Vouching
  BY <1>1, <1>3, <1>4, <1>5, <1>6, SeedAssumption DEF SeedTypes, Ahead, Behind, Vouching, Rows
<1>8. Final(NoRows, NoDay)
  BY <1>3, <1>6 DEF Final
<1> QED
  BY <1>4, <1>5, <1>6, <1>7, <1>8 DEF SeedInv

(* What a fetch stores: the answer where the answer speaks, else the row.  *)
LEMMA StoredRow ==
    ASSUME NEW row \in [Day -> 0..MaxRev], NEW answer \in [Day -> 0..MaxRev]
    PROVE  /\ Stored(row, answer) \in [Day -> 0..MaxRev]
           /\ (\A d \in Day : answer[d] = 0) => Stored(row, answer) = row
           /\ (\A d \in Day : row[d] <= answer[d]) => Stored(row, answer) = answer
<1> DEFINE span == {d \in Day : answer[d] # 0}
           within(d) == span # {} /\ Smallest(span) <= d /\ d <= Largest(span)
<1>1. Stored(row, answer) = [d \in Day |-> IF within(d) THEN answer[d] ELSE row[d]]
  BY DEF Stored
<1>2. \A d \in span : within(d)
  <2>1. span \subseteq Nat /\ span \subseteq Day
    BY DEF Day
  <2> QED
    BY <2>1, LeastIsThere, GreatestIsThere
<1>3. \A d \in Day : ~within(d) => answer[d] = 0
  BY <1>2
<1>4. (\A d \in Day : answer[d] = 0) => span = {}
  OBVIOUS
<1>5. span = {} => \A d \in Day : ~within(d)
  OBVIOUS
<1> HIDE DEF span, within
<1>6. Stored(row, answer) \in [Day -> 0..MaxRev]
  BY <1>1
<1>7. ASSUME \A d \in Day : answer[d] = 0 PROVE Stored(row, answer) = row
  BY <1>1, <1>4, <1>5, <1>7
<1>8. ASSUME \A d \in Day : row[d] <= answer[d] PROVE Stored(row, answer) = answer
  <2>1. \A d \in Day : ~within(d) => row[d] = answer[d]
    <3> SUFFICES ASSUME NEW d \in Day, ~within(d) PROVE row[d] = answer[d]
      OBVIOUS
    <3>1. answer[d] = 0 /\ row[d] \in 0..MaxRev /\ row[d] <= answer[d]
      BY <1>3, <1>8
    <3> QED
      BY <3>1, SeedAssumption
  <2> QED
    BY <1>1, <2>1
<1> QED
  BY <1>6, <1>7, <1>8

(* fetch_item touches one row and no record.                               *)
LEMMA FetchEffect ==
    ASSUME SeedTypes, NEW i \in Items, NEW answer, NEW db, db = fetch_item(srv, i, answer)
    PROVE  /\ db.rows = [srv.rows EXCEPT ![i] = Stored(srv.rows[i], answer)]
           /\ db.fp = srv.fp /\ db.cut = srv.cut /\ DOMAIN db = {"rows", "stamp", "fp", "cut"}
<1>1. DOMAIN srv = {"rows", "stamp", "fp", "cut"}
  BY DEF SeedTypes
<1> DEFINE R == [srv.rows EXCEPT ![i] = Stored(srv.rows[i], answer)]
           S == [j \in Watched |-> IF j = i THEN Now(i) ELSE srv.stamp[j]]
<1>3. db = [srv EXCEPT !.rows = R, !.stamp = S]
  BY DEF fetch_item
<1> HIDE DEF R, S
<1>4. DOMAIN db = {"rows", "stamp", "fp", "cut"}
  BY <1>1, <1>3
<1>5. db.fp = srv.fp /\ db.cut = srv.cut
  BY <1>1, <1>3
<1>6. db.rows = R
  BY <1>1, <1>3
<1> QED
  BY <1>4, <1>5, <1>6 DEF R

LEMMA FetchStamps ==
    ASSUME SeedTypes, NEW i \in Items, NEW answer, NEW db, db = fetch_item(srv, i, answer)
    PROVE  db.stamp = [j \in Watched |-> IF j = i THEN Now(i) ELSE srv.stamp[j]]
<1>1. DOMAIN srv = {"rows", "stamp", "fp", "cut"}
  BY DEF SeedTypes
<1> DEFINE R == [srv.rows EXCEPT ![i] = Stored(srv.rows[i], answer)]
           S == [j \in Watched |-> IF j = i THEN Now(i) ELSE srv.stamp[j]]
<1>2. db = [srv EXCEPT !.rows = R, !.stamp = S]
  BY DEF fetch_item
<1> HIDE DEF R, S
<1>3. db.stamp = S
  BY <1>1, <1>2
<1> QED
  BY <1>3 DEF S

-----------------------------------------------------------------------------
(* The newest day a listing of the site shows to be final is behind the    *)
(* day the site is posting.                                                *)
LEMMA ListingIsFinal ==
    ASSUME SeedTypes, Ahead, NEW list, list = [i \in Items |-> Listing(i)]
    PROVE  Lists(list)
<1> DEFINE moved(d) == {i \in Listed(list, d) : \E e \in Day : e > d /\ list[i][e] # 0}
           done == {d \in Day : 2 * Cardinality(moved(d)) > Cardinality(Listed(list, d))}
<1>1. final_through(list) = IF done = {} THEN NoDay ELSE Largest(done)
  BY DEF final_through
<1>2. posted.day \in Nat /\ posted.day >= 1 /\ posted.rev \in Rows /\ Day \subseteq Nat
  BY DEF SeedTypes, Day
<1>3. \A i \in Items, d \in Day : list[i][d] = Listing(i)[d] /\ (list[i][d] # 0 => posted.rev[i][d] # 0)
  <2>1. \A i \in Items : list[i] = Listing(i)
    OBVIOUS
  <2> QED
    BY <2>1 DEF Listing
<1>4. ASSUME NEW d \in done PROVE d \in Day /\ d < posted.day /\ \E i \in Items : list[i][d] # 0
  <2>1. d \in Day /\ 2 * Cardinality(moved(d)) > Cardinality(Listed(list, d))
    BY <1>4
  <2>2. IsFiniteSet(Listed(list, d)) /\ IsFiniteSet(moved(d))
    <3>1. Listed(list, d) \subseteq Items /\ moved(d) \subseteq Items
      BY DEF Listed
    <3> QED
      BY <3>1, SeedAssumption, FS_Subset
  <2>3. Cardinality(Listed(list, d)) \in Nat
    BY <2>2, FS_CardinalityType
  <2>4. moved(d) # {}
    <3> SUFFICES ASSUME moved(d) = {} PROVE FALSE
      OBVIOUS
    <3>1. Cardinality(moved(d)) = 0
      BY FS_EmptySet
    <3> QED
      BY <2>1, <2>3, <3>1
  <2>5. PICK i \in Listed(list, d) : \E e \in Day : e > d /\ list[i][e] # 0
    BY <2>4
  <2>6. i \in Items /\ list[i][d] # 0
    BY <2>5 DEF Listed
  <2>7. PICK e \in Day : e > d /\ list[i][e] # 0
    BY <2>5
  <2>8. ~(e > posted.day)
    BY <1>3, <2>6, <2>7 DEF Ahead
  <2>9. d < posted.day
    BY <1>2, <2>1, <2>7, <2>8
  <2> QED
    BY <2>1, <2>6, <2>9
<1>5. done # {} => Largest(done) \in done
  <2>1. done \subseteq Day
    OBVIOUS
  <2> QED
    BY <2>1, GreatestIsThere
<1> HIDE DEF done
<1>6. CASE done = {}
  BY <1>1, <1>2, <1>3, <1>6 DEF Lists, NoDay
<1>7. CASE done # {}
  <2>1. final_through(list) \in done
    BY <1>1, <1>5, <1>7
  <2>2. final_through(list) \in Day /\ final_through(list) < posted.day
        /\ \E i \in Items : list[i][final_through(list)] # 0
    BY <1>4, <2>1
  <2>3. final_through(list) \in Int
    BY <2>2, SeedAssumption DEF Day
  <2> QED
    BY <1>3, <2>2, <2>3 DEF Lists
<1> QED
  BY <1>6, <1>7

(* What assess calls the cut is final.                                     *)
LEMMA CutIsFinal ==
    ASSUME SeedTypes, Ahead, Behind, Vouching, NEW list, Lists(list)
    PROVE  Final(srv.rows, assess(list, srv.rows, srv.fp).cut)
<1> DEFINE through == final_through(list)
           earliest == Smallest({d \in Day : Listed(list, d) # {}})
           amiss(i, d) == /\ earliest <= d /\ d <= through
                          /\ d > Vouched(list[i], srv.fp[i])
                          /\ list[i][d] # srv.rows[i][d]
           bad == {b \in Tracked(srv.rows) \X Day : amiss(b[1], b[2])}
           cut == IF through = NoDay THEN NoDay
                  ELSE IF bad = {} THEN through ELSE Smallest({b[2] : b \in bad}) - 1
<1>1. assess(list, srv.rows, srv.fp).cut = cut
  BY DEF assess
<1>2. posted.day \in Nat /\ posted.day >= 1 /\ Day \subseteq Nat /\ through \in Int /\ through < posted.day
  BY DEF SeedTypes, Day, Lists
<1>3. CASE through = NoDay
  <2>1. cut = NoDay /\ NoDay \in Int /\ NoDay < posted.day /\ \A d \in Day : ~(d <= NoDay)
    BY <1>2, <1>3 DEF NoDay
  <2> QED
    BY <1>1, <2>1 DEF Final
<1>4. CASE through # NoDay
  <2>1. \A d \in Day : d < earliest => Listed(list, d) = {}
    <3> DEFINE S == {d \in Day : Listed(list, d) # {}}
    <3>1. S \subseteq Nat /\ S # {}
      BY <1>2, <1>4 DEF Lists, Listed
    <3>2. earliest \in S /\ \A y \in S : earliest <= y
      BY <3>1, LeastIsThere
    <3> QED
      BY <1>2, <3>1, <3>2
  <2>2. earliest \in Nat
    <3> DEFINE S == {d \in Day : Listed(list, d) # {}}
    <3>1. S \subseteq Nat /\ S # {}
      BY <1>2, <1>4 DEF Lists, Listed
    <3> QED
      BY <3>1, LeastIsThere
  <2>3. cut \in Int /\ cut <= through /\ \A i \in Tracked(srv.rows), d \in Day : d <= cut => ~amiss(i, d)
    <3>1. CASE bad = {}
      <4>1. \A i \in Tracked(srv.rows), d \in Day : ~amiss(i, d)
        <5> SUFFICES ASSUME NEW i \in Tracked(srv.rows), NEW d \in Day, amiss(i, d) PROVE FALSE
          OBVIOUS
        <5>1. <<i, d>> \in bad
          OBVIOUS
        <5> QED
          BY <3>1, <5>1
      <4>2. cut = through
        BY <1>4, <3>1
      <4> HIDE DEF cut, through, amiss
      <4>3. cut \in Int /\ cut <= through
        BY <1>2, <4>2
      <4> QED
        BY <4>1, <4>3
    <3>2. CASE bad # {}
      <4> DEFINE B == {b[2] : b \in bad}
      <4>1. \A b \in bad : b[1] \in Tracked(srv.rows) /\ b[2] \in Day /\ amiss(b[1], b[2])
        OBVIOUS
      <4>2. B \subseteq Nat /\ B # {}
        BY <1>2, <3>2, <4>1
      <4>3. Smallest(B) \in B /\ \A y \in B : Smallest(B) <= y
        BY <4>2, LeastIsThere
      <4>4. cut = Smallest(B) - 1 /\ Smallest(B) \in Nat
        BY <1>4, <3>2, <4>2, <4>3
      <4>5. Smallest(B) <= through
        BY <4>1, <4>3
      <4>6. ASSUME NEW i \in Tracked(srv.rows), NEW d \in Day, amiss(i, d) PROVE Smallest(B) <= d
        <5>1. <<i, d>> \in bad
          BY <4>6
        <5>2. <<i, d>>[2] = d
          OBVIOUS
        <5>3. d \in B
          <6> HIDE DEF bad
          <6> QED
            BY <5>1, <5>2
        <5> QED
          BY <4>3, <5>3
      <4> HIDE DEF B, amiss, cut, through
      <4>7. cut \in Int /\ cut <= through
        BY <1>2, <4>4, <4>5
      <4>8. ASSUME NEW i \in Tracked(srv.rows), NEW d \in Day, d <= cut PROVE ~amiss(i, d)
        <5>1. d \in Nat /\ ~(Smallest(B) <= d)
          BY <1>2, <4>4, <4>8
        <5> QED
          BY <4>6, <5>1
      <4> QED
        BY <4>7, <4>8
    <3> QED
      BY <3>1, <3>2
  <2>4. ASSUME NEW i \in Tracked(srv.rows) \ posted.gone, NEW d \in Day, d <= cut
        PROVE  srv.rows[i][d] = posted.rev[i][d]
    <3>0. /\ i \in Items \ posted.gone /\ d <= through /\ ~amiss(i, d) /\ d \in Nat
          /\ list[i][d] = Listing(i)[d] /\ srv.rows[i][d] <= posted.rev[i][d]
          /\ srv.rows[i][d] \in 0..MaxRev /\ posted.rev[i][d] \in 0..MaxRev
      <4>1. i \in Items \ posted.gone
        BY DEF Tracked
      <4>2. d \in Nat /\ ~amiss(i, d)
        <5> HIDE DEF amiss, cut
        <5> QED
          BY <1>2, <2>3, <2>4
      <4>3. d <= through
        <5>1. cut \in Int /\ through \in Int /\ cut <= through /\ d <= cut
          BY <1>2, <2>3, <2>4
        <5> HIDE DEF cut, through
        <5> QED
          BY <4>2, <5>1
      <4> HIDE DEF amiss, cut
      <4> QED
        BY <4>1, <4>2, <4>3 DEF Lists, Behind, SeedTypes, Rows
    <3>1. CASE d < earliest
      <4>1. list[i][d] = 0
        BY <2>1, <3>0, <3>1 DEF Listed
      <4>2. posted.rev[i][d] = 0
        BY <3>0, <4>1, SeedAssumption DEF Listing
      <4> QED
        BY <3>0, <4>2
    <3>2. CASE ~(d < earliest) /\ list[i][d] = srv.rows[i][d]
      BY <3>0, <3>2, SeedAssumption DEF Listing
    <3>3. CASE ~(d < earliest) /\ list[i][d] # srv.rows[i][d]
      <4>1. ~(d > Vouched(list[i], srv.fp[i]))
        BY <2>2, <3>0, <3>3
      <4>2. srv.fp[i].vouch /\ Vouched(list[i], srv.fp[i]) = srv.fp[i].through
        BY <3>0, <4>1 DEF Vouched, NoDay
      <4>3. d <= srv.fp[i].through
        BY <3>0, <4>1, <4>2 DEF SeedTypes
      <4> QED
        BY <3>0, <4>2, <4>3 DEF Vouching
    <3> QED
      BY <3>1, <3>2, <3>3
  <2>5. cut < posted.day
    <3>1. cut \in Int /\ cut <= through /\ through \in Int /\ through < posted.day /\ posted.day \in Nat
      BY <1>2, <2>3
    <3> HIDE DEF cut, through
    <3> QED
      BY <3>1
  <2> QED
    BY <1>1, <2>3, <2>4, <2>5 DEF Final
<1> QED
  BY <1>3, <1>4

-----------------------------------------------------------------------------
(* The steps.  The site only adds to the day it posts, which no final day  *)
(* is.                                                                     *)
LEMMA SeedSiteTrades == ASSUME SeedInv, NEW i \in Items, SiteTrades(i) PROVE SeedInv'
<1> DEFINE d0 == posted.day
           rev == [posted.rev EXCEPT ![i] = [posted.rev[i] EXCEPT ![d0] = posted.rev[i][d0] + 1]]
<1>1. /\ posted \in [rev : Rows, moves : [Items -> Nat], day : Day, gone : SUBSET Items] /\ posted.rev \in Rows /\ d0 \in Day
      /\ posted.rev[i][d0] \in 0..MaxRev
  BY DEF SeedInv, SeedTypes, Rows
<1>2. Day \subseteq Nat /\ MaxRev \in Nat \ {0}
  BY SeedAssumption DEF Day
<1>3. posted.rev[i][d0] + 1 \in 0..MaxRev
  BY <1>1, <1>2 DEF SiteTrades
<1> DEFINE moves == [posted.moves EXCEPT ![i] = posted.moves[i] + 1]
<1>4. posted' = [posted EXCEPT !.rev = rev, !.moves = moves]
  BY <1>1 DEF SiteTrades
<1>4a. rev \in Rows /\ moves \in [Items -> Nat]
  BY <1>1, <1>3 DEF Rows
<1>5. posted' \in [rev : Rows, moves : [Items -> Nat], day : Day, gone : SUBSET Items]
      /\ posted'.rev = rev /\ posted'.day = d0 /\ posted'.gone = posted.gone
  BY <1>1, <1>4, <1>4a
<1>6. \A j \in Items, d \in Day : /\ rev[j][d] >= posted.rev[j][d] /\ (d # d0 => rev[j][d] = posted.rev[j][d])
                                  /\ rev[j][d] \in Nat /\ posted.rev[j][d] \in Nat
  BY <1>1, <1>2, <1>3 DEF Rows
<1>7. UNCHANGED <<clock, srv, poll, seed>>
  BY DEF SiteTrades
<1> HIDE DEF rev
<1>8. SeedTypes'
  BY <1>5, <1>7 DEF SeedInv, SeedTypes
<1>9. Ahead'
  <2>1. \A d \in Day : d > d0 => d # d0
    <3> HIDE DEF d0
    <3> SUFFICES ASSUME NEW d \in Day, d > d0 PROVE d # d0
      OBVIOUS
    <3>1. d \in Nat /\ d0 \in Nat
      BY <1>1, <1>2
    <3> QED
      BY <3>1
  <2>2. \A j \in Items, d \in Day : d > d0 => rev[j][d] = 0
    BY <1>6, <2>1 DEF SeedInv, Ahead
  <2> QED
    BY <1>5, <2>2 DEF Ahead
<1>10. Behind'
  <2>0. srv.rows \in Rows
    BY DEF SeedInv, SeedTypes
  <2>1. \A j \in Items, d \in Day : srv.rows[j][d] \in Nat
    BY <1>2, <2>0 DEF Rows
  <2> QED
    BY <1>5, <1>6, <1>7, <2>1 DEF SeedInv, Behind
<1>11. \A c \in Int, d \in Day : c < d0 /\ d <= c => d # d0
  <2> HIDE DEF d0
  <2> SUFFICES ASSUME NEW c \in Int, NEW d \in Day, c < d0, d <= c PROVE d # d0
    OBVIOUS
  <2>1. d \in Nat /\ d0 \in Nat
    BY <1>1, <1>2
  <2> QED
    BY <2>1
<1>12. \A j \in Items : srv.fp[j].through \in Int
  BY DEF SeedInv, SeedTypes
<1>13. Vouching'
  BY <1>5, <1>6, <1>7, <1>11, <1>12 DEF SeedInv, Vouching
<1>14. \A j \in Items, given, d \in Day : j \in Tracked(given) => j \in Items
  OBVIOUS
<1>15. Final(srv.rows, srv.cut.day)' /\ (seed.cut \in Int /\ Final(seed.rows, seed.cut))'
  BY <1>5, <1>6, <1>7, <1>11 DEF SeedInv, Final, Tracked
<1>16. poll'.pc = "fetching" => Lists(poll.list)'
  <2> SUFFICES ASSUME poll.pc = "fetching" PROVE Lists(poll.list)'
    BY <1>7
  <2>1. Lists(poll.list)
    BY DEF SeedInv
  <2>2. \A j \in Items, d \in Day : d # d0 => Listing(j)'[d] = Listing(j)[d]
    BY <1>5, <1>6 DEF Listing
  <2> QED
    BY <1>5, <1>7, <1>11, <2>1, <2>2 DEF Lists
<1> QED
  BY <1>8, <1>9, <1>10, <1>13, <1>15, <1>16 DEF SeedInv

(* A later day, or an item that has gone, only takes cases away.           *)
LEMMA SeedMovesOn ==
    ASSUME SeedInv, posted' \in [rev : Rows, moves : [Items -> Nat], day : Day, gone : SUBSET Items], posted'.rev = posted.rev,
           posted'.day >= posted.day, posted.gone \subseteq posted'.gone,
           UNCHANGED <<srv, poll, seed>>, clock' \in Day
    PROVE  SeedInv'
<1>1. posted.day \in Nat /\ posted'.day \in Nat /\ Day \subseteq Nat
  BY SeedAssumption DEF SeedInv, SeedTypes, Day
<1>2. SeedTypes'
  BY DEF SeedInv, SeedTypes
<1>3. Ahead' /\ Behind'
  <2>1. ASSUME NEW d \in Day, d > posted'.day PROVE d > posted.day
    <3> DEFINE new == posted'.day
               old == posted.day
    <3>1. d \in Nat /\ new \in Nat /\ old \in Nat /\ new >= old /\ d > new
      BY <1>1, <2>1
    <3> HIDE DEF new, old
    <3>2. d > old
      BY <3>1
    <3> QED
      BY <3>2 DEF old
  <2>2. Ahead'
    BY <2>1 DEF SeedInv, Ahead
  <2> QED
    BY <2>2 DEF SeedInv, Behind
<1>4. Vouching'
  <2>1. \A i \in Items : srv.fp[i].through \in Int
    BY DEF SeedInv, SeedTypes
  <2>2. \A c \in Int : c < posted.day => c < posted'.day
    BY <1>1
  <2> QED
    BY <2>1, <2>2 DEF SeedInv, Vouching
<1>5. ASSUME NEW c \in Int, NEW given, Final(given, c) PROVE Final(given, c)'
  <2>1. c < posted'.day
    BY <1>1, <1>5 DEF Final
  <2>2. Tracked(given)' = Tracked(given)
    BY DEF Tracked
  <2> QED
    BY <1>5, <2>1, <2>2 DEF Final
<1>6. Final(srv.rows, srv.cut.day)' /\ (seed.cut \in Int /\ Final(seed.rows, seed.cut))'
  BY <1>5 DEF SeedInv, Final, Tracked
<1>7. poll'.pc = "fetching" => Lists(poll.list)'
  <2> SUFFICES ASSUME poll.pc = "fetching" PROVE Lists(poll.list)'
    OBVIOUS
  <2>1. Lists(poll.list)
    BY DEF SeedInv
  <2>2. \A i \in Items \ posted'.gone : i \notin posted.gone /\ Listing(i)' = Listing(i)
    BY DEF Listing
  <2> QED
    BY <1>1, <2>1, <2>2 DEF Lists
<1> QED
  BY <1>2, <1>3, <1>4, <1>6, <1>7 DEF SeedInv

LEMMA SeedSiteMovesOn == ASSUME SeedInv, SiteMovesOn \/ Midnight \/ \E i \in Items : SiteDelists(i) PROVE SeedInv'
<1>1. posted \in [rev : Rows, moves : [Items -> Nat], day : Day, gone : SUBSET Items] /\ clock \in Day /\ posted.day \in Nat /\ Days \in Nat
  BY SeedAssumption DEF SeedInv, SeedTypes, Day
<1>2. CASE SiteMovesOn
  <2>1. posted' = [posted EXCEPT !.day = posted.day + 1] /\ posted.day + 1 \in Day
    BY <1>1, <1>2 DEF SiteMovesOn, Day
  <2>2. posted' \in [rev : Rows, moves : [Items -> Nat], day : Day, gone : SUBSET Items] /\ posted'.rev = posted.rev
        /\ posted'.day = posted.day + 1 /\ posted'.gone = posted.gone
    BY <1>1, <2>1
  <2>3. posted'.day >= posted.day /\ UNCHANGED <<srv, poll, seed>> /\ clock' \in Day
    BY <1>1, <1>2, <2>2 DEF SiteMovesOn
  <2> QED
    BY <2>2, <2>3, SeedMovesOn
<1>3. CASE Midnight
  <2>1. UNCHANGED <<posted, srv, poll, seed>> /\ clock' \in Day /\ posted.day >= posted.day
    BY <1>1, <1>3 DEF Midnight, Day
  <2> QED
    BY <1>1, <2>1, SeedMovesOn
<1>4. CASE \E i \in Items : SiteDelists(i)
  <2>1. PICK i \in Items : SiteDelists(i)
    BY <1>4
  <2>2. posted' = [posted EXCEPT !.gone = posted.gone \cup {i}] /\ UNCHANGED <<clock, srv, poll, seed>>
    BY <2>1 DEF SiteDelists
  <2>3. posted' \in [rev : Rows, moves : [Items -> Nat], day : Day, gone : SUBSET Items] /\ posted'.rev = posted.rev
        /\ posted'.day = posted.day /\ posted'.gone = posted.gone \cup {i}
    BY <1>1, <2>2
  <2> QED
    BY <1>1, <2>2, <2>3, SeedMovesOn
<1> QED
  BY <1>2, <1>3, <1>4

(* What a fetch of the item's history, or an empty answer, leaves.         *)
LEMMA SeedFetched ==
    ASSUME SeedInv, NEW i \in Items, i \notin posted.gone, NEW db,
           db.rows = [srv.rows EXCEPT ![i] = Stored(srv.rows[i], History(i))]
    PROVE  db.rows = [srv.rows EXCEPT ![i] = posted.rev[i]] /\ db.rows \in Rows
<1>1. srv.rows[i] \in [Day -> 0..MaxRev] /\ posted.rev[i] \in [Day -> 0..MaxRev] /\ History(i) = posted.rev[i]
  BY DEF SeedInv, SeedTypes, Rows, History
<1>2. \A d \in Day : srv.rows[i][d] <= posted.rev[i][d]
  BY DEF SeedInv, Behind
<1>3. Stored(srv.rows[i], History(i)) = posted.rev[i]
  BY <1>1, <1>2, StoredRow
<1>4. srv.rows \in Rows
  BY DEF SeedInv, SeedTypes
<1> QED
  BY <1>1, <1>3, <1>4 DEF Rows

(* The invariant after the server has taken one item's rows as they are.   *)
LEMMA SeedTaken ==
    ASSUME SeedInv, NEW i \in Items, i \notin posted.gone,
           srv'.rows = [srv.rows EXCEPT ![i] = posted.rev[i]], srv'.cut = srv.cut, UNCHANGED posted
    PROVE  Behind' /\ Final(srv.rows, srv.cut.day)'
           /\ \A j \in Items, d \in Day : srv'.rows[j][d] = srv.rows[j][d] \/ srv'.rows[j][d] = posted.rev[j][d]
<1>1. srv.rows \in Rows /\ posted.rev \in Rows
  BY DEF SeedInv, SeedTypes
<1>2. \A j \in Items : srv'.rows[j] = IF j = i THEN posted.rev[i] ELSE srv.rows[j]
  BY <1>1 DEF Rows
<1>3. \A d \in Day : posted.rev[i][d] \in 0..MaxRev
  BY <1>1 DEF Rows
<1>4. Behind'
  BY <1>2, <1>3, SeedAssumption DEF SeedInv, Behind
<1>5. \A j \in Tracked(srv.rows)' : j = i \/ j \in Tracked(srv.rows)
  BY <1>2 DEF Tracked
<1>6. Final(srv.rows, srv.cut.day)'
  BY <1>2, <1>5 DEF SeedInv, Final, Tracked
<1> QED
  BY <1>2, <1>4, <1>6

LEMMA SeedServerCrawls == ASSUME SeedInv, NEW i \in Items, ServerCrawls(i) PROVE SeedInv'
<1>1. srv' = fetch_item(srv, i, History(i)) /\ i \notin posted.gone /\ UNCHANGED <<posted, clock, poll, seed>>
  BY DEF ServerCrawls
<1>2. SeedTypes
  BY DEF SeedInv
<1>3. /\ srv'.rows = [srv.rows EXCEPT ![i] = Stored(srv.rows[i], History(i))]
      /\ srv'.fp = srv.fp /\ srv'.cut = srv.cut /\ DOMAIN srv' = {"rows", "stamp", "fp", "cut"}
  BY <1>1, <1>2, FetchEffect
<1>4. srv'.rows = [srv.rows EXCEPT ![i] = posted.rev[i]] /\ srv'.rows \in Rows
  BY <1>1, <1>3, SeedFetched
<1>5. Behind' /\ Final(srv.rows, srv.cut.day)'
      /\ \A j \in Items, d \in Day : srv'.rows[j][d] = srv.rows[j][d] \/ srv'.rows[j][d] = posted.rev[j][d]
  BY <1>1, <1>3, <1>4, SeedTaken
<1>6. SeedTypes'
  BY <1>1, <1>2, <1>3, <1>4 DEF SeedTypes
<1>7. Ahead' /\ (poll'.pc = "fetching" => Lists(poll.list)') /\ (seed.cut \in Int /\ Final(seed.rows, seed.cut))'
  BY <1>1 DEF SeedInv, Ahead, Lists, Listing, Final, Tracked
<1>8. Vouching'
  BY <1>1, <1>3, <1>5 DEF SeedInv, Vouching
<1> QED
  BY <1>5, <1>6, <1>7, <1>8 DEF SeedInv

(* The poll.  What it reads is the site's listing; a record of what it     *)
(* fetched vouches only when the rows are the site's.                      *)
LEMMA SeedPollLists == ASSUME SeedInv, PollLists PROVE SeedInv'
<1> DEFINE list == [i \in Items |-> Listing(i)]
           todo == to_fetch(assess(list, srv.rows, srv.fp), list, srv.fp)
<1>1. poll' = [NoPoll EXCEPT !.pc = "fetching", !.list = list, !.todo = todo] /\ UNCHANGED <<posted, clock, srv, seed>>
  BY DEF PollLists
<1>2. Lists(list)
  BY ListingIsFinal DEF SeedInv
<1> HIDE DEF list, todo
<1>3. poll'.list = list /\ DOMAIN poll' = {"pc", "list", "todo", "failed", "fetched"}
  BY <1>1 DEF NoPoll
<1>4. Lists(poll.list)'
  BY <1>1, <1>2, <1>3 DEF Lists, Listing
<1>5. SeedTypes'
  BY <1>1, <1>3 DEF SeedInv, SeedTypes
<1> QED
  BY <1>1, <1>4, <1>5 DEF SeedInv, Ahead, Behind, Vouching, Final, Tracked

LEMMA SeedPollFetches == ASSUME SeedInv, NEW i \in Items, PollFetches(i) PROVE SeedInv'
<1> DEFINE through == final_through(poll.list)
           rec(vouch) == [through |-> through, fp |-> fingerprint(poll.list[i], through), vouch |-> vouch]
           next(failed) == [poll EXCEPT !.todo = @ \ {i}, !.failed = @ \/ failed, !.fetched = @ \/ ~failed]
<1>1. UNCHANGED <<posted, clock, seed>> /\ SeedTypes /\ poll.pc = "fetching" /\ Lists(poll.list)
  BY DEF PollFetches, SeedInv
<1>2. through \in Int /\ through < posted.day
  BY <1>1 DEF Lists
<1>3. poll' = next(FALSE) \/ poll' = next(TRUE)
  BY DEF PollFetches
<1>4. poll'.list = poll.list /\ DOMAIN poll' = {"pc", "list", "todo", "failed", "fetched"}
  BY <1>1, <1>3 DEF SeedTypes
<1>5. Ahead' /\ Lists(poll.list)' /\ (seed.cut \in Int /\ Final(seed.rows, seed.cut))'
  BY <1>1, <1>4 DEF SeedInv, Ahead, Lists, Listing, Final, Tracked
<1>6. ASSUME NEW vouch, NEW base, DOMAIN base = {"rows", "stamp", "fp", "cut"}, base.fp = srv.fp, base.cut = srv.cut,
             srv' = [base EXCEPT !.fp = [srv.fp EXCEPT ![i] = rec(vouch)]]
      PROVE  /\ srv'.rows = base.rows /\ srv'.cut = srv.cut /\ DOMAIN srv' = {"rows", "stamp", "fp", "cut"}
             /\ DOMAIN srv'.fp = Items /\ \A j \in Items : srv'.fp[j].through \in Int
             /\ \A j \in Items : j # i => srv'.fp[j] = srv.fp[j]
             /\ srv'.fp[i].vouch = vouch /\ srv'.fp[i].through = through
  <2> DEFINE r == rec(vouch)
  <2>1. r.vouch = vouch /\ r.through = through
    OBVIOUS
  <2> HIDE DEF r
  <2>2. DOMAIN srv.fp = Items /\ \A j \in Items : srv.fp[j].through \in Int
    BY <1>1 DEF SeedTypes
  <2> DEFINE fp == [srv.fp EXCEPT ![i] = r]
  <2>3. srv'.fp = fp /\ srv'.rows = base.rows /\ srv'.cut = srv.cut /\ DOMAIN srv' = {"rows", "stamp", "fp", "cut"}
    BY <1>6 DEF r
  <2>4. DOMAIN fp = Items /\ fp[i] = r /\ \A j \in Items : j # i => fp[j] = srv.fp[j]
    BY <2>2
  <2> HIDE DEF fp, through
  <2> QED
    BY <1>2, <2>1, <2>2, <2>3, <2>4
<1> HIDE DEF through, next
<1>7. CASE i \notin posted.gone /\ srv' = [fetch_item(srv, i, History(i)) EXCEPT !.fp = [@ EXCEPT ![i] = rec(\E d \in Day : History(i)[d] # 0)]]
  <2> DEFINE base == fetch_item(srv, i, History(i))
             vouch == \E d \in Day : History(i)[d] # 0
  <2>1. /\ base.rows = [srv.rows EXCEPT ![i] = Stored(srv.rows[i], History(i))]
        /\ base.fp = srv.fp /\ base.cut = srv.cut /\ DOMAIN base = {"rows", "stamp", "fp", "cut"}
    BY <1>1, FetchEffect
  <2>2. base.rows = [srv.rows EXCEPT ![i] = posted.rev[i]] /\ base.rows \in Rows
    BY <1>7, <2>1, SeedFetched
  <2>3. srv' = [base EXCEPT !.fp = [srv.fp EXCEPT ![i] = rec(vouch)]]
    BY <1>7, <2>1
  <2> HIDE DEF base, vouch
  <2>4. /\ srv'.rows = base.rows /\ srv'.cut = srv.cut /\ DOMAIN srv' = {"rows", "stamp", "fp", "cut"}
        /\ DOMAIN srv'.fp = Items /\ \A j \in Items : srv'.fp[j].through \in Int
        /\ \A j \in Items : j # i => srv'.fp[j] = srv.fp[j]
        /\ srv'.fp[i].through = through
    BY <1>6, <2>1, <2>3
  <2>5. Behind' /\ Final(srv.rows, srv.cut.day)'
        /\ \A j \in Items, d \in Day : srv'.rows[j][d] = srv.rows[j][d] \/ srv'.rows[j][d] = posted.rev[j][d]
    BY <1>1, <1>7, <2>2, <2>4, SeedTaken
  <2>6. SeedTypes'
    BY <1>1, <1>4, <2>2, <2>4 DEF SeedTypes
  <2>7. Vouching'
    <3>1. \A d \in Day : srv'.rows[i][d] = posted.rev[i][d]
      BY <1>1, <2>2, <2>4 DEF SeedTypes, Rows
    <3> QED
      BY <1>1, <1>2, <2>4, <2>5, <3>1 DEF SeedInv, Vouching
  <2> QED
    BY <1>5, <2>5, <2>6, <2>7 DEF SeedInv
<1>8. CASE i \in posted.gone /\ srv' = [srv EXCEPT !.fp = [@ EXCEPT ![i] = rec(TRUE)]]
  <2>1. DOMAIN srv = {"rows", "stamp", "fp", "cut"}
    BY <1>1 DEF SeedTypes
  <2>2. /\ srv'.rows = srv.rows /\ srv'.cut = srv.cut /\ DOMAIN srv' = {"rows", "stamp", "fp", "cut"}
        /\ DOMAIN srv'.fp = Items /\ \A j \in Items : srv'.fp[j].through \in Int
        /\ \A j \in Items : j # i => srv'.fp[j] = srv.fp[j]
    BY <1>6, <1>8, <2>1
  <2>3. SeedTypes'
    BY <1>1, <1>4, <2>2 DEF SeedTypes
  <2>4. Behind' /\ Final(srv.rows, srv.cut.day)'
    BY <1>1, <2>2 DEF SeedInv, Behind, Final, Tracked
  <2>5. Vouching'
    BY <1>1, <1>8, <2>2 DEF SeedInv, Vouching
  <2> QED
    BY <1>5, <2>3, <2>4, <2>5 DEF SeedInv
<1>9. CASE srv' = [fetch_item(srv, i, NoRows[i]) EXCEPT !.fp = [@ EXCEPT ![i] = rec(FALSE)]]
  <2> DEFINE base == fetch_item(srv, i, NoRows[i])
  <2>1. /\ base.rows = [srv.rows EXCEPT ![i] = Stored(srv.rows[i], NoRows[i])]
        /\ base.fp = srv.fp /\ base.cut = srv.cut /\ DOMAIN base = {"rows", "stamp", "fp", "cut"}
    BY <1>1, FetchEffect
  <2>2. base.rows = srv.rows
    <3>1. NoRows[i] \in [Day -> 0..MaxRev] /\ \A d \in Day : NoRows[i][d] = 0
      BY SeedAssumption DEF NoRows
    <3>2. srv.rows[i] \in [Day -> 0..MaxRev] /\ srv.rows \in Rows
      BY <1>1 DEF SeedTypes, Rows
    <3>3. Stored(srv.rows[i], NoRows[i]) = srv.rows[i]
      BY <3>1, <3>2, StoredRow
    <3> QED
      BY <2>1, <3>2, <3>3 DEF Rows
  <2>3. srv' = [base EXCEPT !.fp = [srv.fp EXCEPT ![i] = rec(FALSE)]]
    BY <1>9, <2>1
  <2> HIDE DEF base
  <2>4. /\ srv'.rows = srv.rows /\ srv'.cut = srv.cut /\ DOMAIN srv' = {"rows", "stamp", "fp", "cut"}
        /\ DOMAIN srv'.fp = Items /\ \A j \in Items : srv'.fp[j].through \in Int
        /\ \A j \in Items : j # i => srv'.fp[j] = srv.fp[j]
        /\ srv'.fp[i].vouch = FALSE
    BY <1>6, <2>1, <2>2, <2>3
  <2>5. SeedTypes'
    BY <1>1, <1>4, <2>4 DEF SeedTypes
  <2>6. Behind' /\ Final(srv.rows, srv.cut.day)'
    BY <1>1, <2>4 DEF SeedInv, Behind, Final, Tracked
  <2>7. Vouching'
    BY <1>1, <2>4 DEF SeedInv, Vouching
  <2> QED
    BY <1>5, <2>5, <2>6, <2>7 DEF SeedInv
<1>10. CASE UNCHANGED srv
  <2>1. SeedTypes'
    BY <1>1, <1>4, <1>10 DEF SeedTypes
  <2> QED
    BY <1>1, <1>5, <1>10, <2>1 DEF SeedInv, Behind, Vouching, Final, Tracked
<1> QED
  BY <1>7, <1>8, <1>9, <1>10 DEF PollFetches, through

LEMMA SeedPollEnds == ASSUME SeedInv, PollEnds PROVE SeedInv'
<1> DEFINE a == assess(poll.list, srv.rows, srv.fp)
<1>1. srv' = [srv EXCEPT !.cut = [day |-> CutAfter(a), done |-> TRUE]] /\ poll' = NoPoll /\ UNCHANGED <<posted, clock, seed>>
      /\ poll.pc = "fetching"
  BY DEF PollEnds
<1>2. Final(srv.rows, a.cut) /\ Final(srv.rows, srv.cut.day) /\ SeedTypes
  BY <1>1, CutIsFinal DEF SeedInv
<1> HIDE DEF a
<1>3. CutAfter(a) = srv.cut.day \/ CutAfter(a) = a.cut
  BY DEF CutAfter
<1>4. Final(srv.rows, CutAfter(a)) /\ CutAfter(a) \in Int
  BY <1>2, <1>3 DEF Final
<1>5. srv'.rows = srv.rows /\ srv'.fp = srv.fp /\ srv'.cut.day = CutAfter(a) /\ DOMAIN srv' = {"rows", "stamp", "fp", "cut"}
  BY <1>1, <1>2 DEF SeedTypes
<1>6. poll'.pc = "idle" /\ DOMAIN poll' = {"pc", "list", "todo", "failed", "fetched"}
  BY <1>1 DEF NoPoll
<1>7. SeedTypes'
  BY <1>1, <1>2, <1>4, <1>5, <1>6 DEF SeedTypes
<1>8. Final(srv.rows, srv.cut.day)'
  BY <1>1, <1>4, <1>5 DEF Final, Tracked
<1> QED
  BY <1>1, <1>5, <1>6, <1>7, <1>8 DEF SeedInv, Ahead, Behind, Vouching, Final, Tracked

LEMMA SeedRestarts == ASSUME SeedInv, ServerRestarts PROVE SeedInv'
<1>1. poll' = NoPoll /\ UNCHANGED <<posted, clock, srv, seed>>
  BY DEF ServerRestarts
<1>2. poll'.pc = "idle" /\ DOMAIN poll' = {"pc", "list", "todo", "failed", "fetched"}
  BY <1>1 DEF NoPoll
<1> QED
  BY <1>1, <1>2 DEF SeedInv, SeedTypes, Ahead, Behind, Vouching, Final, Tracked

(* A seed has the server's rows up to its cut and no others.               *)
LEMMA SeedExport == ASSUME SeedInv, Export PROVE SeedInv'
<1> DEFINE cut == srv.cut.day
           given == [i \in Items |-> [d \in Day |-> IF d <= cut THEN srv.rows[i][d] ELSE 0]]
<1>1. seed'.cut = cut /\ seed'.rows = given /\ UNCHANGED <<posted, clock, srv, poll>>
  BY DEF Export
<1>2. Final(srv.rows, cut)
  BY DEF SeedInv
<1>3. \A i \in Items, d \in Day : given[i][d] = IF d <= cut THEN srv.rows[i][d] ELSE 0
  OBVIOUS
<1> HIDE DEF given
<1>4. \A i \in Tracked(given) : i \in Tracked(srv.rows)
  BY <1>3 DEF Tracked
<1>5. Final(given, cut)
  BY <1>2, <1>3, <1>4 DEF Final, Tracked
<1>6. cut \in Int
  BY DEF SeedInv, SeedTypes
<1> HIDE DEF cut
<1>7. (seed.cut \in Int /\ Final(seed.rows, seed.cut))'
  BY <1>1, <1>5, <1>6 DEF Final, Tracked
<1>8. SeedTypes' /\ Ahead' /\ Behind' /\ Vouching' /\ Final(srv.rows, srv.cut.day)' /\ (poll'.pc = "fetching" => Lists(poll.list)')
  BY <1>1 DEF SeedInv, SeedTypes, Ahead, Behind, Vouching, Final, Tracked, Lists, Listing
<1> QED
  BY <1>7, <1>8 DEF SeedInv

LEMMA SeedRest == ASSUME SeedInv, UNCHANGED <<posted, clock, srv, poll, seed>> PROVE SeedInv'
  BY DEF SeedInv, SeedTypes, Ahead, Behind, Vouching, Final, Tracked, Lists, Listing

-----------------------------------------------------------------------------
(* What the client holds of an item it watches.  A row shows in the fetch  *)
(* stamp beside it.                                                        *)
Stamped(held, stamp) == \A i \in Watched, d \in Day : held[i][d] # 0 => stamp[i] > Moments * d

(* A fetch made before the item first traded: whatever the client has of   *)
(* the item, it fetched later.                                             *)
Earlier(at, i) ==
    /\ at <= Moments * clock
    /\ (\E d \in Day : cli.rows[i][d] # 0) => cli.stamp[i] > at

ClientTypes ==
    /\ posted.day <= clock
    /\ cli \in [version : Int, rows : [Watched -> [Day -> 0..MaxRev]], stamp : [Watched -> Int]]
    /\ srv.stamp \in [Watched -> Int]
    /\ seed \in [version : Int, date : Int, cut : Int, rows : Rows, stamp : [Watched -> Int]]

(* An item that has rows has changed; no client and no seed is ahead of it.*)
Changed == \A i \in Items : posted.moves[i] = 0 <=> \A d \in Day : posted.rev[i][d] = 0
NotAhead ==
    /\ \A i \in Watched, d \in Day : cli.rows[i][d] <= posted.rev[i][d]
    /\ \A i \in Items, d \in Day : seed.rows[i][d] <= posted.rev[i][d]

(* The seed has nothing past its cut, and comes from the server's rows.    *)
SeedEnds ==
    /\ \A i \in Items, d \in Day : seed.rows[i][d] # 0 => d <= seed.cut /\ i \in Tracked(srv.rows)
    /\ \A i \in Watched : seed.stamp[i] <= 0 \/ seed.stamp[i] <= EndOf(seed.cut)

(* Of an item the seed does not hold, the site has nothing that old, or    *)
(* the seed's fetch came before all of it.                                 *)
Untold ==
    /\ \A i \in Watched \ Tracked(srv.rows) : Earlier(srv.stamp[i], i)
    /\ \A i \in Watched \ (posted.gone \cup Tracked(seed.rows)) :
          (\A d \in Day : d <= seed.cut => posted.rev[i][d] = 0) \/ Earlier(seed.stamp[i], i)

ClientInv ==
    /\ ClientTypes /\ Changed /\ NotAhead /\ SeedEnds /\ Untold
    /\ Stamped(cli.rows, cli.stamp) /\ Stamped(srv.rows, srv.stamp) /\ Stamped(seed.rows, seed.stamp)
    /\ poll.todo \subseteq Tracked(srv.rows)

LEMMA MomentsGrow ==
    /\ Moments \in Nat \ {0}
    /\ \A a \in Int : Moments * a \in Int /\ EndOf(a) = Moments * a + Moments
    /\ \A a, b \in Int : a <= b => Moments * a <= Moments * b
    /\ \A a, b \in Int : a < b => Moments * a + Moments <= Moments * b
<1>1. Moments \in Nat \ {0}
  <2>1. Days \in Nat /\ MaxRev \in Nat
    BY SeedAssumption
  <2>2. Days * MaxRev \in Nat
    BY <2>1
  <2> HIDE DEF Moments
  <2> QED
    BY <2>2 DEF Moments
<1>2. \A m \in Nat \ {0}, a \in Int : m * a \in Int /\ m * (a + 1) = m * a + m
  OBVIOUS
<1>3. \A m \in Nat \ {0}, k \in Nat : m * k \in Nat
  OBVIOUS
<1>4. \A m \in Nat \ {0}, a, b \in Int : m * b = m * a + m * (b - a)
  OBVIOUS
<1>5. ASSUME NEW a \in Int, NEW b \in Int, a <= b PROVE Moments * a <= Moments * b
  <2>1. b - a \in Nat
    BY <1>5
  <2>2. Moments * (b - a) \in Nat /\ Moments * b = Moments * a + Moments * (b - a) /\ Moments * a \in Int
    BY <1>1, <1>2, <1>3, <1>4, <2>1
  <2> QED
    BY <2>2
<1>6. ASSUME NEW a \in Int, NEW b \in Int, a < b PROVE Moments * a + Moments <= Moments * b
  <2>1. a + 1 <= b /\ a + 1 \in Int
    BY <1>6
  <2>2. Moments * (a + 1) <= Moments * b
    BY <1>5, <2>1
  <2> QED
    BY <1>1, <1>2, <2>2
<1> QED
  BY <1>1, <1>2, <1>5, <1>6 DEF EndOf

(* A fetch is stamped later than every day it brings rows of, and a fetch  *)
(* of an item that has not traded brings none.                             *)
LEMMA FetchStamp ==
    ASSUME SeedInv, ClientInv, NEW i \in Items
    PROVE  /\ Now(i) \in Int
           /\ \A d \in Day : posted.rev[i][d] # 0 => Now(i) > Moments * d /\ Now(i) > Moments * clock
           /\ (\A d \in Day : posted.rev[i][d] = 0) => Now(i) = Moments * clock
<1>1. clock \in Int /\ posted.moves[i] \in Nat /\ posted.day \in Int /\ posted.day <= clock
  BY SeedAssumption DEF SeedInv, SeedTypes, ClientInv, ClientTypes, Day
<1>2. Moments * clock \in Int /\ \A d \in Day : Moments * d \in Int /\ d \in Int
  BY <1>1, MomentsGrow DEF Day
<1>3. ASSUME NEW d \in Day, posted.rev[i][d] # 0 PROVE d <= clock /\ posted.moves[i] # 0
  <2>1. ~(d > posted.day)
    BY <1>3 DEF SeedInv, Ahead
  <2>2. posted.moves[i] # 0
    BY <1>3 DEF ClientInv, Changed
  <2> QED
    BY <1>1, <1>2, <2>1, <2>2
<1>4. (\A d \in Day : posted.rev[i][d] = 0) => posted.moves[i] = 0
  BY DEF ClientInv, Changed
<1>5. \A d \in Day : d <= clock => Moments * d <= Moments * clock
  BY <1>1, <1>2, MomentsGrow
<1> DEFINE m(d) == Moments * d
<1>6. /\ Now(i) = m(clock) + posted.moves[i] /\ m(clock) \in Int /\ \A d \in Day : m(d) \in Int
      /\ \A d \in Day : d <= clock => m(d) <= m(clock)
  BY <1>2, <1>5 DEF Now
<1> HIDE DEF m
<1>7. Now(i) \in Int /\ (\A d \in Day : posted.rev[i][d] # 0 => Now(i) > m(d) /\ Now(i) > m(clock))
      /\ ((\A d \in Day : posted.rev[i][d] = 0) => Now(i) = m(clock))
  BY <1>1, <1>3, <1>4, <1>6
<1> QED
  BY <1>7 DEF m

LEMMA ClientInitOK == SeedInit => ClientInv
<1> SUFFICES ASSUME SeedInit PROVE ClientInv
  OBVIOUS
<1>1. NoRows \in Rows /\ \A i \in Items, d \in Day : NoRows[i][d] = 0
  BY SeedAssumption DEF NoRows, Rows
<1>2. NoStamps \in [Watched -> Int] /\ \A i \in Watched : NoStamps[i] = 0
  BY DEF NoStamps
<1>3. /\ posted.rev = NoRows /\ posted.day = 1 /\ clock = 1 /\ posted.gone = {}
      /\ \A i \in Items : posted.moves[i] = 0
      /\ srv.rows = NoRows /\ srv.stamp = NoStamps
      /\ seed = [version |-> 0, date |-> 0, cut |-> NoDay, rows |-> NoRows, stamp |-> NoStamps]
      /\ cli = [version |-> 0, rows |-> [i \in Watched |-> NoRows[i]], stamp |-> NoStamps]
  BY DEF SeedInit
<1>4. poll.todo = {}
  BY DEF SeedInit, NoPoll
<1>5. Watched \subseteq Items /\ \A i \in Watched : NoRows[i] \in [Day -> 0..MaxRev]
  BY <1>1, SeedAssumption DEF Rows
<1>6. /\ seed.cut \in Int /\ seed.rows = NoRows /\ seed.stamp = NoStamps /\ cli.stamp = NoStamps
      /\ \A i \in Watched, d \in Day : cli.rows[i][d] = 0
  BY <1>1, <1>3, <1>5 DEF NoDay
<1>7. ClientTypes
  BY <1>1, <1>2, <1>3, <1>5 DEF ClientTypes, NoDay
<1>8. Changed /\ NotAhead
  BY <1>1, <1>3, <1>5, <1>6 DEF Changed, NotAhead
<1>9. SeedEnds
  BY <1>1, <1>2, <1>6 DEF SeedEnds
<1>10. 0 <= Moments * 1
  BY MomentsGrow
<1>11. \A i \in Watched : Earlier(0, i)
  BY <1>3, <1>6, <1>10 DEF Earlier
<1>12. Untold
  BY <1>2, <1>3, <1>6, <1>11 DEF Untold
<1> QED
  BY <1>1, <1>3, <1>4, <1>5, <1>6, <1>7, <1>8, <1>9, <1>12 DEF ClientInv, Stamped

(* The site and the clock.  What is posted is on a day no seed ends on,    *)
(* and a later day only makes an early fetch earlier.                      *)
LEMMA ClientSiteTrades == ASSUME SeedInv, ClientInv, NEW i \in Items, SiteTrades(i) PROVE ClientInv'
<1> DEFINE d0 == posted.day
           rev == [posted.rev EXCEPT ![i] = [posted.rev[i] EXCEPT ![d0] = posted.rev[i][d0] + 1]]
           moves == [posted.moves EXCEPT ![i] = posted.moves[i] + 1]
<1>1. posted \in [rev : Rows, moves : [Items -> Nat], day : Day, gone : SUBSET Items]
      /\ posted.rev[i][d0] \in Nat /\ d0 \in Day /\ posted.rev \in Rows /\ posted.moves[i] \in Nat
  BY SeedAssumption DEF SeedInv, SeedTypes, Rows
<1>2. posted' = [posted EXCEPT !.rev = rev, !.moves = moves] /\ UNCHANGED <<clock, srv, poll, seed, cli>>
  BY <1>1 DEF SiteTrades
<1>3. posted'.rev = rev /\ posted'.moves = moves /\ posted'.day = d0 /\ posted'.gone = posted.gone
  BY <1>1, <1>2
<1>4. /\ \A j \in Items, d \in Day : j # i \/ d # d0 => rev[j][d] = posted.rev[j][d]
      /\ rev[i][d0] = posted.rev[i][d0] + 1 /\ moves[i] = posted.moves[i] + 1
      /\ \A j \in Items : j # i => moves[j] = posted.moves[j]
  BY <1>1 DEF Rows
<1> HIDE DEF rev, moves
<1>5. Changed'
  BY <1>1, <1>3, <1>4 DEF ClientInv, Changed
<1>6. NotAhead'
  <2>1. /\ \A j \in Watched : j \in Items /\ \A d \in Day : cli.rows[j][d] \in Nat
        /\ \A j \in Items, d \in Day : seed.rows[j][d] \in Nat
    BY SeedAssumption DEF ClientInv, ClientTypes, Rows
  <2>2. \A j \in Items, d \in Day : posted.rev[j][d] \in Nat
    BY <1>1, SeedAssumption DEF Rows
  <2>3. \A j \in Items, d \in Day : rev[j][d] \in Nat /\ posted.rev[j][d] <= rev[j][d]
    BY <1>1, <1>4, <2>2
  <2> QED
    BY <1>2, <1>3, <2>1, <2>2, <2>3 DEF ClientInv, NotAhead
<1>7. \A d \in Day : d <= seed.cut => d # d0
  <2>1. seed.cut \in Int /\ seed.cut < d0 /\ d0 \in Int
    BY <1>1 DEF SeedInv, Final, Day
  <2> HIDE DEF d0
  <2> QED
    BY <2>1 DEF Day
<1>8. Untold'
  BY <1>2, <1>3, <1>4, <1>7, SeedAssumption DEF ClientInv, Untold, Earlier, Tracked
<1>9. ClientTypes' /\ SeedEnds'
  BY <1>2, <1>3 DEF ClientInv, ClientTypes, SeedEnds, Tracked
<1> QED
  BY <1>2, <1>5, <1>6, <1>8, <1>9 DEF ClientInv, Stamped, Tracked

LEMMA ClientLater ==
    ASSUME SeedInv, ClientInv, UNCHANGED <<srv, poll, seed, cli>>,
           posted'.rev = posted.rev, posted'.moves = posted.moves, posted.gone \subseteq posted'.gone,
           clock' \in Int, clock <= clock', posted'.day <= clock'
    PROVE  ClientInv'
<1>1. clock \in Int /\ \A i \in Watched : srv.stamp[i] \in Int /\ seed.stamp[i] \in Int
  BY DEF SeedInv, SeedTypes, ClientInv, ClientTypes, Day
<1>2. Moments * clock <= Moments * clock' /\ Moments * clock \in Int /\ Moments * clock' \in Int
  BY <1>1, MomentsGrow
<1>3. ASSUME NEW at \in Int, NEW i, Earlier(at, i) PROVE Earlier(at, i)'
  <2>1. at <= Moments * clock /\ ((\E d \in Day : cli.rows[i][d] # 0) => cli.stamp[i] > at)
    BY <1>3 DEF Earlier
  <2>2. at <= Moments * clock'
    BY <1>2, <2>1
  <2> QED
    BY <2>1, <2>2 DEF Earlier
<1>4. Untold'
  BY <1>1, <1>3 DEF ClientInv, Untold, Tracked
<1> QED
  BY <1>4 DEF ClientInv, ClientTypes, Changed, NotAhead, SeedEnds, Stamped, Tracked

LEMMA ClientSiteMovesOn == ASSUME SeedInv, ClientInv, SiteMovesOn \/ Midnight \/ \E i \in Items : SiteDelists(i) PROVE ClientInv'
<1>1. posted \in [rev : Rows, moves : [Items -> Nat], day : Day, gone : SUBSET Items] /\ posted.day \in Int /\ clock \in Int
      /\ posted.day <= clock
  BY DEF SeedInv, SeedTypes, ClientInv, ClientTypes, Day
<1>2. CASE SiteMovesOn
  <2>1. posted' = [posted EXCEPT !.day = posted.day + 1] /\ posted.day < clock /\ UNCHANGED <<clock, srv, poll, seed, cli>>
    BY <1>2 DEF SiteMovesOn
  <2>2. posted'.rev = posted.rev /\ posted'.moves = posted.moves /\ posted'.gone = posted.gone /\ posted'.day = posted.day + 1
    BY <1>1, <2>1
  <2>3. posted'.day <= clock' /\ clock <= clock' /\ clock' \in Int
    BY <1>1, <2>1, <2>2
  <2> QED
    BY <2>1, <2>2, <2>3, ClientLater
<1>3. CASE Midnight
  <2>1. clock' = clock + 1 /\ UNCHANGED <<posted, srv, poll, seed, cli>>
    BY <1>3 DEF Midnight
  <2>2. posted'.day <= clock' /\ clock <= clock' /\ clock' \in Int
    BY <1>1, <2>1
  <2> QED
    BY <2>1, <2>2, ClientLater
<1>4. CASE \E i \in Items : SiteDelists(i)
  <2>1. PICK i \in Items : SiteDelists(i)
    BY <1>4
  <2>2. posted' = [posted EXCEPT !.gone = posted.gone \cup {i}] /\ UNCHANGED <<clock, srv, poll, seed, cli>>
    BY <2>1 DEF SiteDelists
  <2>3. posted'.rev = posted.rev /\ posted'.moves = posted.moves /\ posted'.day = posted.day /\ posted'.gone = posted.gone \cup {i}
    BY <1>1, <2>2
  <2>4. posted'.day <= clock' /\ clock <= clock' /\ clock' \in Int
    BY <1>1, <2>2, <2>3
  <2> QED
    BY <2>2, <2>3, <2>4, ClientLater
<1> QED
  BY <1>2, <1>3, <1>4

(* What the invariant says of the server's rows when the server fetched an *)
(* item, with rows or without, and stamped it.                             *)
LEMMA ClientServerFetched ==
    ASSUME SeedInv, ClientInv, NEW i \in Items, UNCHANGED <<posted, clock, seed, cli>>, poll'.todo \subseteq poll.todo,
           srv'.stamp = [j \in Watched |-> IF j = i THEN Now(i) ELSE srv.stamp[j]],
           \/ srv'.rows = [srv.rows EXCEPT ![i] = posted.rev[i]]
           \/ srv'.rows = srv.rows /\ i \in Tracked(srv.rows)
    PROVE  ClientInv'
<1>1. srv.rows \in Rows /\ posted.rev \in Rows /\ Watched \subseteq Items /\ MaxRev \in Nat
  BY SeedAssumption DEF SeedInv, SeedTypes
<1>2. \A j \in Items : j # i => srv'.rows[j] = srv.rows[j]
  BY <1>1 DEF Rows
<1>3. srv'.rows[i] = posted.rev[i] \/ (srv'.rows[i] = srv.rows[i] /\ i \in Tracked(srv.rows))
  BY <1>1 DEF Rows
<1>4. \A j \in Items, d \in Day : srv.rows[j][d] # 0 => posted.rev[j][d] # 0
  <2> SUFFICES ASSUME NEW j \in Items, NEW d \in Day, srv.rows[j][d] # 0 PROVE posted.rev[j][d] # 0
    OBVIOUS
  <2>1. srv.rows[j][d] \in 0..MaxRev /\ srv.rows[j][d] <= posted.rev[j][d]
    BY <1>1 DEF SeedInv, Behind, Rows
  <2> QED
    BY <1>1, <2>1
<1>5. Tracked(srv.rows) \subseteq Tracked(srv'.rows)
  BY <1>2, <1>3, <1>4 DEF Tracked
<1>6. /\ Now(i) \in Int
      /\ \A d \in Day : posted.rev[i][d] # 0 => Now(i) > Moments * d
      /\ (\A d \in Day : posted.rev[i][d] = 0) => Now(i) = Moments * clock
  BY FetchStamp
<1>7. srv'.stamp \in [Watched -> Int] /\ \A j \in Watched : srv'.stamp[j] = IF j = i THEN Now(i) ELSE srv.stamp[j]
  BY <1>6 DEF ClientInv, ClientTypes
<1>8. ClientTypes' /\ Changed' /\ NotAhead' /\ Stamped(cli.rows, cli.stamp)' /\ Stamped(seed.rows, seed.stamp)'
  BY <1>7 DEF ClientInv, ClientTypes, Changed, NotAhead, Stamped
<1>9. Tracked(srv.rows)' = Tracked(srv'.rows) /\ Tracked(seed.rows)' = Tracked(seed.rows)
  BY DEF Tracked
<1>10. SeedEnds'
  BY <1>5, <1>9 DEF ClientInv, SeedEnds
<1>11. Stamped(srv.rows, srv.stamp)'
  BY <1>1, <1>2, <1>3, <1>4, <1>6, <1>7 DEF ClientInv, Stamped
<1>12. ASSUME NEW j \in Watched, j \notin Tracked(srv'.rows) PROVE Earlier(srv'.stamp[j], j)
  <2>1. CASE j = i
    <3>1. \A d \in Day : srv'.rows[i][d] = 0
      BY <1>12, <2>1 DEF Tracked
    <3>2. \A d \in Day : posted.rev[i][d] = 0
      BY <1>3, <1>5, <1>12, <2>1, <3>1
    <3>3. srv'.stamp[i] = Moments * clock /\ Moments * clock \in Int
      BY <1>6, <1>7, <2>1, <3>2
    <3>4. \A d \in Day : cli.rows[i][d] = 0
      <4> SUFFICES ASSUME NEW d \in Day PROVE cli.rows[i][d] = 0
        OBVIOUS
      <4>1. cli.rows[i][d] \in 0..MaxRev /\ cli.rows[i][d] <= 0
        BY <2>1, <3>2 DEF ClientInv, ClientTypes, NotAhead
      <4> QED
        BY <1>1, <4>1
    <3> QED
      BY <2>1, <3>3, <3>4 DEF Earlier
  <2>2. CASE j # i
    BY <1>5, <1>7, <1>12, <2>2 DEF ClientInv, Untold
  <2> QED
    BY <2>1, <2>2
<1>13. Untold'
  BY <1>9, <1>12 DEF ClientInv, Untold, Earlier
<1>14. poll'.todo \subseteq Tracked(srv.rows)'
  BY <1>5, <1>9 DEF ClientInv
<1> QED
  BY <1>8, <1>10, <1>11, <1>13, <1>14 DEF ClientInv

LEMMA ClientServerCrawls == ASSUME SeedInv, ClientInv, NEW i \in Items, ServerCrawls(i) PROVE ClientInv'
<1>1. srv' = fetch_item(srv, i, History(i)) /\ i \notin posted.gone /\ UNCHANGED <<posted, clock, poll, seed, cli>>
  BY DEF ServerCrawls
<1>2. /\ srv'.rows = [srv.rows EXCEPT ![i] = Stored(srv.rows[i], History(i))]
      /\ srv'.stamp = [j \in Watched |-> IF j = i THEN Now(i) ELSE srv.stamp[j]]
  BY <1>1, FetchEffect, FetchStamps DEF SeedInv
<1>3. srv'.rows = [srv.rows EXCEPT ![i] = posted.rev[i]]
  BY <1>1, <1>2, SeedFetched
<1> QED
  BY <1>1, <1>2, <1>3, ClientServerFetched

LEMMA ClientPollLists == ASSUME SeedInv, ClientInv, PollLists PROVE ClientInv'
<1> DEFINE list == [i \in Items |-> Listing(i)]
           a == assess(list, srv.rows, srv.fp)
           todo == to_fetch(a, list, srv.fp)
<1>1. poll' = [NoPoll EXCEPT !.pc = "fetching", !.list = list, !.todo = todo] /\ UNCHANGED <<posted, clock, srv, seed, cli>>
  BY DEF PollLists
<1>2. a.stale \subseteq Tracked(srv.rows)
  BY DEF assess
<1> HIDE DEF a
<1>3. todo \subseteq a.stale
  BY DEF to_fetch
<1> HIDE DEF list, todo
<1>4. poll'.todo = todo
  BY <1>1 DEF NoPoll
<1> QED
  BY <1>1, <1>2, <1>3, <1>4 DEF ClientInv, ClientTypes, Changed, NotAhead, SeedEnds, Untold, Earlier, Stamped, Tracked

LEMMA ClientSame ==
    ASSUME ClientInv, UNCHANGED <<posted, clock, seed, cli>>, srv'.rows = srv.rows, srv'.stamp = srv.stamp,
           poll'.todo \subseteq poll.todo
    PROVE  ClientInv'
  BY DEF ClientInv, ClientTypes, Changed, NotAhead, SeedEnds, Untold, Earlier, Stamped, Tracked

LEMMA ClientPollFetches == ASSUME SeedInv, ClientInv, NEW i \in Items, PollFetches(i) PROVE ClientInv'
<1> DEFINE through == final_through(poll.list)
           rec(vouch) == [through |-> through, fp |-> fingerprint(poll.list[i], through), vouch |-> vouch]
           next(failed) == [poll EXCEPT !.todo = poll.todo \ {i}, !.failed = poll.failed \/ failed,
                                        !.fetched = poll.fetched \/ ~failed]
<1>1. UNCHANGED <<posted, clock, seed, cli>> /\ SeedTypes /\ i \in Tracked(srv.rows)
  BY DEF PollFetches, SeedInv, ClientInv
<1>2. poll' = next(FALSE) \/ poll' = next(TRUE)
  BY DEF PollFetches
<1>3. poll'.todo \subseteq poll.todo
  <2>1. "todo" \in DOMAIN poll
    BY <1>1 DEF SeedTypes
  <2>2. \A failed : next(failed).todo = poll.todo \ {i}
    BY <2>1
  <2> HIDE DEF next
  <2> QED
    BY <1>2, <2>2
<1>4. ASSUME NEW r, NEW base, DOMAIN base = {"rows", "stamp", "fp", "cut"}, srv' = [base EXCEPT !.fp = [base.fp EXCEPT ![i] = r]]
      PROVE  srv'.rows = base.rows /\ srv'.stamp = base.stamp
  BY <1>4
<1> HIDE DEF next, rec, through
<1>5. ASSUME i \notin posted.gone, NEW r, srv' = [fetch_item(srv, i, History(i)) EXCEPT !.fp = [@ EXCEPT ![i] = r]]
      PROVE  ClientInv'
  <2> DEFINE base == fetch_item(srv, i, History(i))
  <2>1. /\ base.rows = [srv.rows EXCEPT ![i] = Stored(srv.rows[i], History(i))]
        /\ base.stamp = [j \in Watched |-> IF j = i THEN Now(i) ELSE srv.stamp[j]]
        /\ DOMAIN base = {"rows", "stamp", "fp", "cut"}
    BY <1>1, FetchEffect, FetchStamps
  <2>2. base.rows = [srv.rows EXCEPT ![i] = posted.rev[i]]
    BY <1>5, <2>1, SeedFetched
  <2>3. srv' = [base EXCEPT !.fp = [base.fp EXCEPT ![i] = r]]
    BY <1>5
  <2> HIDE DEF base
  <2>4. srv'.rows = base.rows /\ srv'.stamp = base.stamp
    BY <1>4, <2>1, <2>3
  <2> QED
    BY <1>1, <1>3, <2>1, <2>2, <2>4, ClientServerFetched
<1>6. ASSUME NEW r, srv' = [srv EXCEPT !.fp = [@ EXCEPT ![i] = r]] PROVE ClientInv'
  <2>1. DOMAIN srv = {"rows", "stamp", "fp", "cut"}
    BY <1>1 DEF SeedTypes
  <2>2. srv'.rows = srv.rows /\ srv'.stamp = srv.stamp
    BY <1>4, <1>6, <2>1
  <2> QED
    BY <1>1, <1>3, <2>2, ClientSame
<1>7. ASSUME NEW r, srv' = [fetch_item(srv, i, NoRows[i]) EXCEPT !.fp = [@ EXCEPT ![i] = r]] PROVE ClientInv'
  <2> DEFINE base == fetch_item(srv, i, NoRows[i])
  <2>1. /\ base.rows = [srv.rows EXCEPT ![i] = Stored(srv.rows[i], NoRows[i])]
        /\ base.stamp = [j \in Watched |-> IF j = i THEN Now(i) ELSE srv.stamp[j]]
        /\ DOMAIN base = {"rows", "stamp", "fp", "cut"}
    BY <1>1, FetchEffect, FetchStamps
  <2>2. base.rows = srv.rows
    <3>1. NoRows[i] \in [Day -> 0..MaxRev] /\ \A d \in Day : NoRows[i][d] = 0
      BY SeedAssumption DEF NoRows
    <3>2. srv.rows[i] \in [Day -> 0..MaxRev] /\ srv.rows \in Rows
      BY <1>1 DEF SeedTypes, Rows
    <3>3. Stored(srv.rows[i], NoRows[i]) = srv.rows[i]
      BY <3>1, <3>2, StoredRow
    <3> QED
      BY <2>1, <3>2, <3>3 DEF Rows
  <2>3. srv' = [base EXCEPT !.fp = [base.fp EXCEPT ![i] = r]]
    BY <1>7
  <2> HIDE DEF base
  <2>4. srv'.rows = srv.rows /\ srv'.stamp = base.stamp
    BY <1>4, <2>1, <2>2, <2>3
  <2> QED
    BY <1>1, <1>3, <2>1, <2>4, ClientServerFetched
<1>8. CASE UNCHANGED srv
  BY <1>1, <1>3, <1>8, ClientSame
<1> QED
  BY <1>5, <1>6, <1>7, <1>8 DEF PollFetches

LEMMA ClientPollStops == ASSUME SeedInv, ClientInv, PollEnds \/ ServerRestarts PROVE ClientInv'
<1>1. poll' = NoPoll /\ UNCHANGED <<posted, clock, seed, cli>>
  BY DEF PollEnds, ServerRestarts
<1>2. poll'.todo \subseteq poll.todo
  BY <1>1 DEF NoPoll
<1>3. srv'.rows = srv.rows /\ srv'.stamp = srv.stamp
  <2>1. DOMAIN srv = {"rows", "stamp", "fp", "cut"}
    BY DEF SeedInv, SeedTypes
  <2>2. ASSUME NEW c, srv' = [srv EXCEPT !.cut = c] PROVE srv'.rows = srv.rows /\ srv'.stamp = srv.stamp
    BY <2>1, <2>2
  <2> QED
    BY <2>2 DEF PollEnds, ServerRestarts
<1> QED
  BY <1>1, <1>2, <1>3, ClientSame

(* A seed is published: of an item it does not hold the server has no row  *)
(* up to the cut, so the site has none, or no row at all.                  *)
LEMMA ClientExport == ASSUME SeedInv, ClientInv, Export PROVE ClientInv'
<1> DEFINE cut == srv.cut.day
           given == [i \in Items |-> [d \in Day |-> IF d <= cut THEN srv.rows[i][d] ELSE 0]]
           stamp == [i \in Watched |-> ShippedStamp(srv.stamp[i], cut)]
<1>1. seed' = [version |-> seed.version + 1, date |-> clock, cut |-> cut, rows |-> given, stamp |-> stamp]
      /\ UNCHANGED <<posted, clock, srv, poll, cli>>
  BY DEF Export
<1>2. srv.rows \in Rows /\ cut \in Int /\ Final(srv.rows, cut) /\ clock \in Int /\ Watched \subseteq Items /\ MaxRev \in Nat
  BY SeedAssumption DEF SeedInv, SeedTypes, Day
<1>3. srv.stamp \in [Watched -> Int] /\ seed.version \in Int
  BY DEF ClientInv, ClientTypes
<1>4. /\ \A i \in Items, d \in Day : given[i][d] = IF d <= cut THEN srv.rows[i][d] ELSE 0
      /\ \A i \in Watched : stamp[i] = ShippedStamp(srv.stamp[i], cut)
  BY <1>2
<1>5. given \in Rows
  BY <1>2 DEF Rows
<1>6. EndOf(cut) \in Int
  BY <1>2, MomentsGrow DEF EndOf
<1>7. stamp \in [Watched -> Int] /\ \A i \in Watched : /\ stamp[i] = 0 \/ (stamp[i] <= srv.stamp[i] /\ stamp[i] <= EndOf(cut))
                                                       /\ stamp[i] = 0 \/ stamp[i] = srv.stamp[i] \/ stamp[i] = EndOf(cut)
                                                       /\ stamp[i] = 0 => cut = NoDay \/ srv.stamp[i] = 0 \/ EndOf(cut) = 0
  BY <1>3, <1>6 DEF ShippedStamp
<1> HIDE DEF given, stamp, cut
<1>8. seed'.rows = given /\ seed'.stamp = stamp /\ seed'.cut = cut
      /\ seed' \in [version : Int, date : Int, cut : Int, rows : Rows, stamp : [Watched -> Int]]
  BY <1>1, <1>2, <1>3, <1>5, <1>7
<1>9. ClientTypes' /\ NotAhead'
  <2>1. \A i \in Items, d \in Day : given[i][d] <= posted.rev[i][d]
    <3> SUFFICES ASSUME NEW i \in Items, NEW d \in Day PROVE given[i][d] <= posted.rev[i][d]
      OBVIOUS
    <3>1. srv.rows[i][d] <= posted.rev[i][d] /\ srv.rows[i][d] \in 0..MaxRev /\ posted.rev[i][d] \in 0..MaxRev
      BY <1>2 DEF SeedInv, Behind, SeedTypes, Rows
    <3> QED
      BY <1>2, <1>4, <3>1
  <2> QED
    BY <1>1, <1>8, <2>1 DEF ClientInv, ClientTypes, NotAhead
<1>10. SeedEnds'
  <2>1. \A i \in Items, d \in Day : given[i][d] # 0 => d <= cut /\ i \in Tracked(srv.rows)
    BY <1>4 DEF Tracked
  <2>2. \A i \in Watched : stamp[i] <= 0 \/ stamp[i] <= EndOf(cut)
    BY <1>7
  <2> QED
    BY <1>1, <1>8, <2>1, <2>2 DEF SeedEnds, Tracked
<1>11. Stamped(given, stamp)
  <2> SUFFICES ASSUME NEW i \in Watched, NEW d \in Day, given[i][d] # 0 PROVE stamp[i] > Moments * d
    BY DEF Stamped
  <2>1. d <= cut /\ srv.rows[i][d] # 0 /\ d \in Int /\ d >= 1
    BY <1>2, <1>4 DEF Day
  <2>2. srv.stamp[i] > Moments * d
    BY <2>1 DEF ClientInv, Stamped
  <2>3. Moments * d \in Int /\ Moments * d <= Moments * cut /\ Moments * cut \in Int /\ Moments \in Nat \ {0}
        /\ EndOf(cut) = Moments * cut + Moments
    BY <1>2, <2>1, MomentsGrow
  <2>4. Moments * 0 <= Moments * d /\ Moments * 0 = 0
    BY <2>1, MomentsGrow
  <2>5. cut # NoDay
    BY <1>2, <2>1 DEF NoDay
  <2> DEFINE m == Moments * d
             n == Moments * cut
  <2>6. /\ m \in Int /\ n \in Int /\ m <= n /\ 0 <= m /\ srv.stamp[i] > m /\ EndOf(cut) = n + Moments
        /\ srv.stamp[i] \in Int /\ stamp[i] \in Int
    BY <1>3, <1>7, <2>2, <2>3, <2>4
  <2> HIDE DEF m, n
  <2>7. stamp[i] > m
    BY <1>7, <2>3, <2>5, <2>6
  <2> QED
    BY <2>7 DEF m
<1>12. ASSUME NEW i \in Watched, i \notin posted.gone, i \notin Tracked(given)
       PROVE  (\A d \in Day : d <= cut => posted.rev[i][d] = 0) \/ Earlier(stamp[i], i)
  <2>1. CASE i \in Tracked(srv.rows)
    <3>1. \A d \in Day : d <= cut => srv.rows[i][d] = 0
      BY <1>2, <1>4, <1>12 DEF Tracked
    <3> QED
      BY <1>12, <2>1, <3>1, <1>2 DEF Final
  <2>2. CASE i \notin Tracked(srv.rows)
    <3>1. Earlier(srv.stamp[i], i)
      BY <2>2 DEF ClientInv, Untold
    <3>2. Moments * clock \in Int /\ 0 <= Moments * clock
      <4>1. 0 <= clock /\ clock \in Int
        BY DEF SeedInv, SeedTypes, Day
      <4> QED
        BY <4>1, MomentsGrow
    <3>3. cli.stamp[i] \in Int /\ srv.stamp[i] \in Int /\ stamp[i] \in Int
      BY <1>3, <1>7 DEF ClientInv, ClientTypes
    <3>4. stamp[i] <= Moments * clock
      BY <1>7, <3>1, <3>2, <3>3 DEF Earlier
    <3>5. ASSUME NEW d \in Day, cli.rows[i][d] # 0 PROVE cli.stamp[i] > stamp[i]
      <4>1. cli.stamp[i] > srv.stamp[i]
        BY <3>1, <3>5 DEF Earlier
      <4>2. cli.stamp[i] > Moments * d
        BY <3>5 DEF ClientInv, Stamped
      <4>3. d \in Int /\ 0 <= d
        BY DEF Day
      <4>4. Moments * d \in Int /\ 0 <= Moments * d
        BY <4>3, MomentsGrow
      <4> QED
        BY <1>7, <3>3, <4>1, <4>2, <4>4
    <3> QED
      BY <3>4, <3>5 DEF Earlier
  <2> QED
    BY <2>1, <2>2
<1>13. Untold'
  BY <1>1, <1>8, <1>12 DEF ClientInv, Untold, Earlier, Tracked
<1> QED
  BY <1>1, <1>8, <1>9, <1>10, <1>11, <1>13 DEF ClientInv, Changed, Stamped, Tracked

(* The client.  Its own crawl brings everything the site has.              *)
LEMMA ClientCrawlTakes ==
    ASSUME SeedInv, ClientInv, NEW i \in Items, ClientCrawls(i)
    PROVE  /\ i \in Watched /\ UNCHANGED <<posted, clock, srv, poll, seed>>
           /\ cli' \in [version : Int, rows : [Watched -> [Day -> 0..MaxRev]], stamp : [Watched -> Int]]
           /\ cli'.rows[i] = posted.rev[i] /\ cli'.stamp[i] = Now(i)
           /\ \A j \in Watched : j # i => cli'.rows[j] = cli.rows[j] /\ cli'.stamp[j] = cli.stamp[j]
<1>1. i \in Watched /\ cli' = fetch_item(cli, i, History(i)) /\ UNCHANGED <<posted, clock, srv, poll, seed>>
  BY DEF ClientCrawls
<1>2. cli \in [version : Int, rows : [Watched -> [Day -> 0..MaxRev]], stamp : [Watched -> Int]]
  BY DEF ClientInv, ClientTypes
<1>3. cli.rows[i] \in [Day -> 0..MaxRev] /\ posted.rev[i] \in [Day -> 0..MaxRev] /\ History(i) = posted.rev[i]
  BY <1>1, <1>2 DEF SeedInv, SeedTypes, Rows, History
<1>4. \A d \in Day : cli.rows[i][d] <= posted.rev[i][d]
  BY <1>1 DEF ClientInv, NotAhead
<1>5. Stored(cli.rows[i], History(i)) = posted.rev[i]
  BY <1>3, <1>4, StoredRow
<1> DEFINE R == [cli.rows EXCEPT ![i] = posted.rev[i]]
           S == [j \in Watched |-> IF j = i THEN Now(i) ELSE cli.stamp[j]]
<1>6. cli' = [cli EXCEPT !.rows = R, !.stamp = S]
  BY <1>1, <1>5 DEF fetch_item
<1>7. Now(i) \in Int
  BY FetchStamp
<1>8. R \in [Watched -> [Day -> 0..MaxRev]] /\ S \in [Watched -> Int]
  BY <1>2, <1>3, <1>7
<1>9. R[i] = posted.rev[i] /\ S[i] = Now(i) /\ \A j \in Watched : j # i => R[j] = cli.rows[j] /\ S[j] = cli.stamp[j]
  BY <1>1, <1>2
<1> HIDE DEF R, S
<1>10. cli'.rows = R /\ cli'.stamp = S
       /\ cli' \in [version : Int, rows : [Watched -> [Day -> 0..MaxRev]], stamp : [Watched -> Int]]
  BY <1>2, <1>6, <1>8
<1> QED
  BY <1>1, <1>9, <1>10

LEMMA ClientClientCrawls == ASSUME SeedInv, ClientInv, NEW i \in Items, ClientCrawls(i) PROVE ClientInv'
<1>1. /\ i \in Watched /\ UNCHANGED <<posted, clock, srv, poll, seed>>
      /\ cli' \in [version : Int, rows : [Watched -> [Day -> 0..MaxRev]], stamp : [Watched -> Int]]
      /\ cli'.rows[i] = posted.rev[i] /\ cli'.stamp[i] = Now(i)
      /\ \A j \in Watched : j # i => cli'.rows[j] = cli.rows[j] /\ cli'.stamp[j] = cli.stamp[j]
  BY ClientCrawlTakes
<1>2. /\ Now(i) \in Int
      /\ \A d \in Day : posted.rev[i][d] # 0 => Now(i) > Moments * d /\ Now(i) > Moments * clock
  BY FetchStamp
<1>3. ClientTypes' /\ Changed' /\ SeedEnds'
  BY <1>1 DEF ClientInv, ClientTypes, Changed, SeedEnds, Tracked
<1>4. NotAhead'
  <2>1. \A d \in Day : posted.rev[i][d] \in Int
    BY SeedAssumption DEF SeedInv, SeedTypes, Rows
  <2>2. \A j \in Watched, d \in Day : cli'.rows[j][d] <= posted.rev[j][d]
    <3> SUFFICES ASSUME NEW j \in Watched, NEW d \in Day PROVE cli'.rows[j][d] <= posted.rev[j][d]
      OBVIOUS
    <3>1. CASE j = i
      BY <1>1, <2>1, <3>1
    <3>2. CASE j # i
      BY <1>1, <3>2 DEF ClientInv, NotAhead
    <3> QED
      BY <3>1, <3>2
  <2> QED
    BY <1>1, <2>2 DEF ClientInv, NotAhead
<1>5. Stamped(cli.rows, cli.stamp)'
  BY <1>1, <1>2 DEF ClientInv, Stamped
<1>6. ASSUME NEW at \in Int, NEW j \in Watched, Earlier(at, j) PROVE Earlier(at, j)'
  <2>1. CASE j = i
    <3>1. at <= Moments * clock /\ Moments * clock \in Int
      <4>1. clock \in Int
        BY DEF SeedInv, SeedTypes, Day
      <4> QED
        BY <1>6, <4>1, MomentsGrow DEF Earlier
    <3>2. (\E d \in Day : posted.rev[i][d] # 0) => Now(i) > at
      BY <1>2, <3>1
    <3> QED
      BY <1>1, <2>1, <3>1, <3>2 DEF Earlier
  <2>2. CASE j # i
    BY <1>1, <1>6, <2>2 DEF Earlier
  <2> QED
    BY <2>1, <2>2
<1>7. \A j \in Watched : srv.stamp[j] \in Int /\ seed.stamp[j] \in Int
  BY DEF ClientInv, ClientTypes
<1>8. Untold'
  BY <1>1, <1>6, <1>7 DEF ClientInv, Untold, Tracked
<1> QED
  BY <1>1, <1>3, <1>4, <1>5, <1>8 DEF ClientInv, Stamped, Tracked

(* A client takes a seed: what it keeps, and what it gives up.             *)
LEMMA AdoptTakes ==
    ASSUME SeedInv, ClientInv, Adopt
    PROVE  /\ UNCHANGED <<posted, clock, srv, poll, seed>>
           /\ cli' \in [version : Int, rows : [Watched -> [Day -> 0..MaxRev]], stamp : [Watched -> Int]]
           /\ \A i \in Watched, d \in Day :
                 cli'.rows[i][d] = IF i \in carry_crawl /\ cli.rows[i][d] # 0 THEN cli.rows[i][d] ELSE seed.rows[i][d]
           /\ \A i \in Watched : cli'.stamp[i] = IF i \in carry_crawl THEN cli.stamp[i] ELSE seed.stamp[i]
<1> DEFINE R == [i \in Watched |-> [d \in Day |->
                   IF i \in carry_crawl /\ cli.rows[i][d] # 0 THEN cli.rows[i][d] ELSE seed.rows[i][d]]]
           S == [i \in Watched |-> IF i \in carry_crawl THEN cli.stamp[i] ELSE seed.stamp[i]]
<1>1. cli' = [version |-> seed.version, rows |-> R, stamp |-> S] /\ UNCHANGED <<posted, clock, srv, poll, seed>>
  BY DEF Adopt
<1>2. /\ cli \in [version : Int, rows : [Watched -> [Day -> 0..MaxRev]], stamp : [Watched -> Int]]
      /\ seed \in [version : Int, date : Int, cut : Int, rows : Rows, stamp : [Watched -> Int]]
      /\ Watched \subseteq Items
  BY SeedAssumption DEF ClientInv, ClientTypes
<1>3. /\ \A i \in Watched, d \in Day : cli.rows[i][d] \in 0..MaxRev /\ seed.rows[i][d] \in 0..MaxRev
      /\ \A i \in Watched : cli.stamp[i] \in Int /\ seed.stamp[i] \in Int
      /\ seed.version \in Int
  BY <1>2 DEF Rows
<1> HIDE DEF carry_crawl
<1>4. R \in [Watched -> [Day -> 0..MaxRev]] /\ S \in [Watched -> Int]
  BY <1>3
<1>5. \A i \in Watched, d \in Day :
         R[i][d] = IF i \in carry_crawl /\ cli.rows[i][d] # 0 THEN cli.rows[i][d] ELSE seed.rows[i][d]
  OBVIOUS
<1>6. \A i \in Watched : S[i] = IF i \in carry_crawl THEN cli.stamp[i] ELSE seed.stamp[i]
  OBVIOUS
<1> HIDE DEF R, S
<1> QED
  BY <1>1, <1>3, <1>4, <1>5, <1>6

LEMMA ClientAdopts == ASSUME SeedInv, ClientInv, Adopt PROVE ClientInv'
<1>1. /\ UNCHANGED <<posted, clock, srv, poll, seed>>
      /\ cli' \in [version : Int, rows : [Watched -> [Day -> 0..MaxRev]], stamp : [Watched -> Int]]
      /\ \A i \in Watched, d \in Day :
            cli'.rows[i][d] = IF i \in carry_crawl /\ cli.rows[i][d] # 0 THEN cli.rows[i][d] ELSE seed.rows[i][d]
      /\ \A i \in Watched : cli'.stamp[i] = IF i \in carry_crawl THEN cli.stamp[i] ELSE seed.stamp[i]
  BY AdoptTakes
<1>2. /\ \A i \in Watched : i \in Items /\ cli.stamp[i] \in Int /\ seed.stamp[i] \in Int
      /\ \A i \in Watched : i \in carry_crawl => cli.stamp[i] > seed.stamp[i]
  BY SeedAssumption DEF ClientInv, ClientTypes, carry_crawl
<1>3. \A d \in Day : Moments * d \in Int
  BY MomentsGrow DEF Day
<1> HIDE DEF carry_crawl
<1>4. ClientTypes' /\ Changed' /\ SeedEnds'
  BY <1>1 DEF ClientInv, ClientTypes, Changed, SeedEnds, Tracked
<1>5. NotAhead'
  BY <1>1, <1>2 DEF ClientInv, NotAhead
<1>6. Stamped(cli.rows, cli.stamp)'
  <2> SUFFICES ASSUME NEW i \in Watched, NEW d \in Day, cli'.rows[i][d] # 0 PROVE cli'.stamp[i] > Moments * d
    BY DEF Stamped
  <2>1. CASE i \in carry_crawl /\ cli.rows[i][d] # 0
    BY <1>1, <2>1 DEF ClientInv, Stamped
  <2>2. CASE ~(i \in carry_crawl /\ cli.rows[i][d] # 0)
    <3>1. seed.stamp[i] > Moments * d
      BY <1>1, <2>2 DEF ClientInv, Stamped
    <3> DEFINE m == Moments * d
    <3>2. m \in Int /\ seed.stamp[i] > m
      BY <1>3, <3>1
    <3> HIDE DEF m
    <3>3. cli'.stamp[i] > m
      BY <1>1, <1>2, <3>2
    <3> QED
      BY <3>3 DEF m
  <2> QED
    BY <2>1, <2>2
<1>7. ASSUME NEW at, NEW i \in Watched \ Tracked(seed.rows), Earlier(at, i) PROVE Earlier(at, i)'
  <2>1. \A d \in Day : seed.rows[i][d] = 0
    BY <1>2 DEF Tracked
  <2>2. \A d \in Day : cli'.rows[i][d] # 0 => i \in carry_crawl /\ cli.rows[i][d] # 0
    BY <1>1, <2>1
  <2> QED
    BY <1>1, <1>7, <2>2 DEF Earlier
<1>8. Tracked(seed.rows) \subseteq Tracked(srv.rows)
  BY DEF ClientInv, SeedEnds, Tracked
<1>9. Untold'
  BY <1>1, <1>7, <1>8 DEF ClientInv, Untold, Tracked
<1> QED
  BY <1>1, <1>4, <1>5, <1>6, <1>9 DEF ClientInv, Stamped, Tracked

(* A row that changes hands is a final one: the client's own crawl of a    *)
(* day past the cut is newer than any stamp the seed ships, and of an item *)
(* the seed does not hold there is nothing to take over.                   *)
LEMMA AdoptOnlyAdvances ==
    ASSUME SeedInv, ClientInv, Adopt, NEW i \in Watched \ posted.gone, NEW d \in Day
    PROVE  cli'.rows[i][d] >= cli.rows[i][d]
<1>1. cli'.rows[i][d] = IF i \in carry_crawl /\ cli.rows[i][d] # 0 THEN cli.rows[i][d] ELSE seed.rows[i][d]
  BY AdoptTakes
<1>2. /\ cli.rows[i][d] \in 0..MaxRev /\ seed.rows[i][d] \in 0..MaxRev /\ MaxRev \in Nat /\ i \in Items
      /\ cli.stamp[i] \in Int /\ seed.stamp[i] \in Int /\ seed.cut \in Int
  BY SeedAssumption DEF ClientInv, ClientTypes, Rows
<1>3. CASE cli.rows[i][d] = 0
  BY <1>1, <1>2, <1>3
<1>4. CASE i \in carry_crawl /\ cli.rows[i][d] # 0
  BY <1>1, <1>2, <1>4
<1>5. CASE i \notin carry_crawl /\ cli.rows[i][d] # 0
  <2>1. cli.stamp[i] > Moments * d
    BY <1>5 DEF ClientInv, Stamped
  <2>2. d \in Int /\ 0 <= d
    BY DEF Day
  <2>3. Moments * d \in Int /\ 0 <= Moments * d
    BY <2>2, MomentsGrow
  <2>4. cli.stamp[i] <= seed.stamp[i]
    BY <1>2, <1>5, <2>1, <2>3 DEF carry_crawl
  <2>5. d <= seed.cut
    <3>1. seed.stamp[i] <= EndOf(seed.cut)
      BY <1>2, <2>1, <2>3, <2>4 DEF ClientInv, SeedEnds
    <3>2. seed.cut < d => Moments * seed.cut + Moments <= Moments * d
      BY <1>2, <2>2, MomentsGrow
    <3>3. EndOf(seed.cut) = Moments * seed.cut + Moments /\ Moments * seed.cut \in Int /\ Moments \in Nat
      BY <1>2, MomentsGrow
    <3> DEFINE m == Moments * d
               n == Moments * seed.cut
    <3>4. /\ cli.stamp[i] > m /\ cli.stamp[i] <= seed.stamp[i] /\ seed.stamp[i] <= n + Moments
          /\ m \in Int /\ n \in Int /\ Moments \in Nat /\ (seed.cut < d => n + Moments <= m)
      BY <2>1, <2>3, <2>4, <3>1, <3>2, <3>3
    <3> HIDE DEF m, n
    <3> QED
      BY <1>2, <2>2, <3>4
  <2>6. cli.rows[i][d] <= posted.rev[i][d]
    BY DEF ClientInv, NotAhead
  <2>7. CASE i \in Tracked(seed.rows)
    <3>1. seed.rows[i][d] = posted.rev[i][d]
      BY <2>5, <2>7 DEF SeedInv, Final
    <3> QED
      BY <1>1, <1>2, <1>5, <2>6, <3>1
  <2>8. CASE i \notin Tracked(seed.rows)
    <3>1. posted.rev[i][d] # 0
      BY <1>2, <1>5, <2>6
    <3>2. Earlier(seed.stamp[i], i)
      BY <2>5, <2>8, <3>1 DEF ClientInv, Untold
    <3>3. cli.stamp[i] > seed.stamp[i]
      BY <1>5, <3>2 DEF Earlier
    <3> QED
      BY <1>2, <2>4, <3>3
  <2> QED
    BY <2>7, <2>8
<1> QED
  BY <1>3, <1>4, <1>5

LEMMA SeedSteps ==
    ASSUME SeedInv, ClientInv, [SeedNext]_seedVars
    PROVE  SeedInv' /\ ClientInv'
<1>1. CASE UNCHANGED seedVars
  BY <1>1, SeedRest, ClientSame DEF seedVars
<1>2. ASSUME NEW i \in Items, SiteTrades(i) PROVE SeedInv' /\ ClientInv'
  BY <1>2, SeedSiteTrades, ClientSiteTrades
<1>3. ASSUME NEW i \in Items, SiteDelists(i) PROVE SeedInv' /\ ClientInv'
  BY <1>3, SeedSiteMovesOn, ClientSiteMovesOn
<1>4. ASSUME NEW i \in Items, ServerCrawls(i) PROVE SeedInv' /\ ClientInv'
  BY <1>4, SeedServerCrawls, ClientServerCrawls
<1>5. ASSUME NEW i \in Items, ClientCrawls(i) PROVE SeedInv' /\ ClientInv'
  <2>1. UNCHANGED <<posted, clock, srv, poll, seed>>
    BY <1>5 DEF ClientCrawls
  <2> QED
    BY <1>5, <2>1, SeedRest, ClientClientCrawls
<1>6. CASE SiteMovesOn \/ Midnight
  BY <1>6, SeedSiteMovesOn, ClientSiteMovesOn
<1>7. CASE PollLists
  BY <1>7, SeedPollLists, ClientPollLists
<1>8. CASE PollEnds
  BY <1>8, SeedPollEnds, ClientPollStops
<1>9. ASSUME NEW i \in Items, PollFetches(i) PROVE SeedInv' /\ ClientInv'
  BY <1>9, SeedPollFetches, ClientPollFetches
<1>10. CASE ServerRestarts
  BY <1>10, SeedRestarts, ClientPollStops
<1>11. CASE Export
  BY <1>11, SeedExport, ClientExport
<1>12. CASE Adopt
  <2>1. UNCHANGED <<posted, clock, srv, poll, seed>>
    BY <1>12 DEF Adopt
  <2> QED
    BY <1>12, <2>1, SeedRest, ClientAdopts
<1> QED
  BY <1>1, <1>2, <1>3, <1>4, <1>5, <1>6, <1>7, <1>8, <1>9, <1>10, <1>11, <1>12 DEF SeedNext, Polls

(* The rows of the client change only when it crawls, which brings what    *)
(* the site has, and when it adopts a seed.                                *)
LEMMA SeedStepsAdvance ==
    ASSUME SeedInv, ClientInv, [SeedNext]_seedVars
    PROVE  [\A i \in Watched \ posted.gone, d \in Day : cli'.rows[i][d] >= cli.rows[i][d]]_cli
<1>1. \A i \in Watched, d \in Day : cli.rows[i][d] \in Int
  BY SeedAssumption DEF ClientInv, ClientTypes
<1>2. ASSUME NEW i \in Items, ClientCrawls(i), NEW j \in Watched \ posted.gone, NEW d \in Day
      PROVE  cli'.rows[j][d] >= cli.rows[j][d]
  <2>1. cli'.rows[i] = posted.rev[i] /\ \A k \in Watched : k # i => cli'.rows[k] = cli.rows[k]
    BY <1>2, ClientCrawlTakes
  <2>2. cli.rows[j][d] <= posted.rev[j][d]
    BY DEF ClientInv, NotAhead
  <2>3. posted.rev[i][d] \in 0..MaxRev /\ MaxRev \in Nat
    BY SeedAssumption DEF SeedInv, SeedTypes, Rows
  <2> QED
    BY <1>1, <2>1, <2>2, <2>3
<1>3. ASSUME Adopt PROVE \A i \in Watched \ posted.gone, d \in Day : cli'.rows[i][d] >= cli.rows[i][d]
  BY <1>3, AdoptOnlyAdvances
<1>4. \/ UNCHANGED cli \/ Adopt \/ \E i \in Items : ClientCrawls(i)
  BY DEF SeedNext, Polls, SiteTrades, SiteDelists, ServerCrawls, SiteMovesOn, Midnight, PollLists, PollEnds, PollFetches,
         ServerRestarts, Export, seedVars
<1> QED
  BY <1>2, <1>3, <1>4

(* Whatever the site, the server and the clients do, and whichever answers *)
(* are lost: a seed holds, of every item the site still lists, exactly the *)
(* rows the site ended up with (seedready.py, _seed_cuts), and a client    *)
(* that adopts one never goes back to an older row (db.py, _carry_crawl).  *)
THEOREM SeedsAreSoundEver == SeedInit /\ [][SeedNext]_seedVars => SeedsAreSound
<1>1. SeedInit => SeedInv /\ ClientInv
  BY SeedInitOK, ClientInitOK
<1>2. SeedInv /\ ClientInv /\ [SeedNext]_seedVars => SeedInv' /\ ClientInv'
  BY SeedSteps
<1>3. SeedInv' => ShipsOnlyFinalDays'
  BY DEF SeedInv, Final, ShipsOnlyFinalDays
<1>4. SeedInv /\ ClientInv /\ [SeedNext]_seedVars => [RowsOnlyAdvance]_cli
  BY SeedStepsAdvance DEF RowsOnlyAdvance
<1>5. SeedInv /\ ClientInv /\ UNCHANGED cli => RowsOnlyAdvance
  <2>1. ClientInv => \A i \in Watched, d \in Day : cli.rows[i][d] \in Int
    BY SeedAssumption DEF ClientInv, ClientTypes
  <2> QED
    BY <2>1 DEF RowsOnlyAdvance
<1>6. SeedInv /\ ClientInv /\ [SeedNext]_seedVars => [ShipsOnlyFinalDays' /\ RowsOnlyAdvance]_seedVars
  BY <1>2, <1>3, <1>4, <1>5
<1> QED
  BY <1>1, <1>2, <1>6, PTL DEF SeedsAreSound

-----------------------------------------------------------------------------
(* The digest.  An hour is reached by a set of stored hours when one of    *)
(* them is at least as late, or the hour itself has left the window.       *)
Reached(h, stored) == h = NoHour \/ (\E k \in stored : k >= h) \/ h < hour - Keep

DigestTypes ==
    /\ hour \in Nat
    /\ market \in [rows : SUBSET Int, cursor : Int, version : {0, 1}]
    /\ bundled \in [rows : SUBSET Int, cursor : Int, version : {0, 1}]
    /\ lastHour \in Int
    /\ sync \in [pc : {"idle", "fetch", "mark", "advance"}, at : Int]
    /\ reader \in [pc : {"idle", "building"}, at : Int]
    /\ memo \in [filled : BOOLEAN, version : Int, seen : SUBSET Int]

(* Whatever hour is spoken of as stored is reached: the last hour, the one *)
(* before a cursor, the one being stored, the stamps of memo and reader.   *)
DigestInv ==
    /\ DigestTypes
    /\ Reached(lastHour, market.rows)
    /\ market.cursor # NoHour => Reached(market.cursor - 1, market.rows)
    /\ bundled.version = 1 => Reached(bundled.cursor - 1, bundled.rows)
    /\ sync.pc \in {"mark", "advance"} => sync.at \in market.rows
    /\ reader.pc = "building" => Reached(reader.at, market.rows)
    /\ memo.filled => Reached(memo.version, memo.seen)

LEMMA DigestInitOK == DigestInit => DigestInv
  BY DEF DigestInit, DigestInv, DigestTypes, Reached, NoHour, NoSync, NoMemo

LEMMA DigestTypesKept == DigestTypes /\ [DigestNext]_digestVars => DigestTypes'
<1> SUFFICES ASSUME DigestTypes, [DigestNext]_digestVars PROVE DigestTypes'
  OBVIOUS
<1> USE DigestAssumption DEF DigestTypes, NoHour
<1>1. CASE HourPasses
  BY <1>1 DEF HourPasses
<1>2. CASE SyncStarts
  BY <1>2 DEF SyncStarts, StartsSaying
<1>3. CASE NotPublished \/ FetchFails \/ Marks
  BY <1>3 DEF NotPublished, FetchFails, Marks, NoSync
<1>4. CASE Stores
  BY <1>4 DEF Stores
<1>5. CASE Advances
  BY <1>5 DEF Advances, NoSync
<1>6. CASE Prunes
  BY <1>6 DEF Prunes
<1>7. CASE ReadStarts \/ ReadBuilds \/ MemoExpires
  <2>1. reader' \in [pc : {"idle", "building"}, at : Int]
    BY <1>7 DEF ReadStarts, ReadBuilds, MemoExpires, NoSync
  <2>2. memo' \in [filled : BOOLEAN, version : Int, seen : SUBSET Int]
    <3>1. market.rows \in SUBSET Int /\ reader.at \in Int
      OBVIOUS
    <3>2. CASE ReadBuilds
      BY <3>1, <3>2 DEF ReadBuilds
    <3>3. CASE ReadStarts \/ MemoExpires
      <4>1. NoMemo \in [filled : BOOLEAN, version : Int, seen : SUBSET Int]
        BY DEF NoMemo
      <4> QED
        BY <3>3, <4>1 DEF ReadStarts, MemoExpires
    <3> QED
      BY <1>7, <3>2, <3>3
  <2> QED
    BY <1>7, <2>1, <2>2 DEF ReadStarts, ReadBuilds, MemoExpires
<1>8. CASE Bundles
  BY <1>8 DEF Bundles
<1>9. CASE Restarts
  BY <1>9 DEF Restarts, NoSync, NoMemo
<1>10. CASE UNCHANGED digestVars
  BY <1>10 DEF digestVars
<1> QED
  BY <1>1, <1>2, <1>3, <1>4, <1>5, <1>6, <1>7, <1>8, <1>9, <1>10 DEF DigestNext, Syncs

(* What was reached stays so as hours pass, are stored and are pruned.     *)
LEMMA ReachedStays ==
    ASSUME NEW h \in Int, NEW now \in Int, NEW then \in Int, now <= then,
           NEW stored \in SUBSET Int, NEW kept, \A k \in stored : k \in kept \/ k < then - Keep,
           h = NoHour \/ (\E k \in stored : k >= h) \/ h < now - Keep
    PROVE  h = NoHour \/ (\E k \in kept : k >= h) \/ h < then - Keep
<1>1. Keep \in Int
  BY DigestAssumption
<1> QED
  BY <1>1

LEMMA DigestStepKeeps == DigestInv /\ [DigestNext]_digestVars => DigestInv'
<1> SUFFICES ASSUME DigestInv, [DigestNext]_digestVars PROVE DigestInv'
  OBVIOUS
<1>0. DigestTypes /\ DigestTypes'
  BY DigestTypesKept DEF DigestInv
<1>1. CASE HourPasses
  <2>1. hour <= hour' /\ UNCHANGED <<market, bundled, lastHour, sync, memo, reader>>
    BY <1>0, <1>1 DEF HourPasses, DigestTypes
  <2>2. ASSUME NEW h \in Int, NEW s \in SUBSET Int, Reached(h, s)
        PROVE  h = NoHour \/ (\E k \in s : k >= h) \/ h < hour' - Keep
    <3>1. hour \in Int /\ hour' \in Int
      BY <1>0 DEF DigestTypes
    <3> QED
      BY <2>1, <2>2, <3>1, ReachedStays DEF Reached
  <2>3. Reached(lastHour, market.rows)'
    BY <1>0, <2>1, <2>2 DEF DigestInv, DigestTypes, Reached
  <2>4. (market.cursor # NoHour => Reached(market.cursor - 1, market.rows))'
    BY <1>0, <2>1, <2>2 DEF DigestInv, DigestTypes, Reached
  <2>5. (bundled.version = 1 => Reached(bundled.cursor - 1, bundled.rows))'
    BY <1>0, <2>1, <2>2 DEF DigestInv, DigestTypes, Reached
  <2>6. (reader.pc = "building" => Reached(reader.at, market.rows))'
    BY <1>0, <2>1, <2>2 DEF DigestInv, DigestTypes, Reached
  <2>7. (memo.filled => Reached(memo.version, memo.seen))'
    BY <1>0, <2>1, <2>2 DEF DigestInv, DigestTypes, Reached
  <2> QED
    BY <1>0, <2>1, <2>3, <2>4, <2>5, <2>6, <2>7 DEF DigestInv
<1>2. CASE SyncStarts
  <2>1. UNCHANGED <<hour, market, bundled, memo, reader>> /\ sync'.pc = "fetch"
    BY <1>2 DEF SyncStarts, StartsSaying
  <2>2. lastHour' = lastHour \/ (market.cursor # NoHour /\ lastHour' = market.cursor - 1)
    BY <1>2 DEF SyncStarts, StartsSaying
  <2> QED
    BY <1>0, <2>1, <2>2 DEF DigestInv, Reached
<1>3. CASE NotPublished \/ FetchFails
  BY <1>0, <1>3 DEF NotPublished, FetchFails, NoSync, DigestInv, Reached
<1>4. CASE Marks
  <2>1. sync.at \in market.rows /\ sync.at \in Int /\ lastHour' = sync.at /\ sync'.at = sync.at
    BY <1>0, <1>4 DEF Marks, DigestInv, DigestTypes
  <2> QED
    BY <1>0, <1>4, <2>1 DEF Marks, DigestInv, Reached
<1>5. CASE Stores
  <2>1. market'.rows = market.rows \cup {sync.at} /\ market'.cursor = market.cursor /\ sync'.at = sync.at
    BY <1>0, <1>5 DEF Stores, DigestTypes
  <2> QED
    BY <1>0, <1>5, <2>1 DEF Stores, DigestInv, Reached
<1>6. CASE Advances
  <2>1. sync.at \in market.rows /\ sync.at \in Int /\ market'.rows = market.rows
    BY <1>0, <1>6 DEF Advances, DigestInv, DigestTypes
  <2>2. market'.cursor \in {sync.at, sync.at + 1} /\ sync'.pc \in {"idle", "fetch"}
    BY <1>0, <1>6 DEF Advances, DigestTypes, NoSync
  <2>3. Reached(market'.cursor - 1, market.rows)
    BY <2>1, <2>2 DEF Reached
  <2> QED
    BY <1>0, <1>6, <2>1, <2>2, <2>3 DEF Advances, DigestInv, Reached
<1>7. CASE Prunes
  <2>1. market'.rows = {h \in market.rows : InWindow(h)} /\ market'.cursor = market.cursor /\ sync.pc = "idle"
    BY <1>0, <1>7 DEF Prunes, DigestTypes
  <2>2. hour' = hour /\ UNCHANGED <<bundled, lastHour, sync, memo, reader>>
    BY <1>7 DEF Prunes
  <2>3. \A k \in market.rows : k \in market'.rows \/ k < hour - Keep
    BY <1>0, <2>1, DigestAssumption DEF InWindow, DigestTypes
  <2>4. ASSUME NEW h \in Int, Reached(h, market.rows)
        PROVE  h = NoHour \/ (\E k \in market'.rows : k >= h) \/ h < hour - Keep
    <3>1. hour \in Int /\ hour' \in Int /\ hour <= hour' /\ market.rows \in SUBSET Int /\ market'.rows \in SUBSET Int
      BY <1>0, <2>2 DEF DigestTypes
    <3> QED
      BY <2>2, <2>3, <2>4, <3>1, ReachedStays DEF Reached
  <2> QED
    BY <1>0, <2>1, <2>2, <2>4 DEF DigestInv, DigestTypes, Reached
<1>8. CASE ReadStarts \/ ReadBuilds \/ MemoExpires
  BY <1>0, <1>8 DEF ReadStarts, ReadBuilds, MemoExpires, NoSync, NoMemo, DigestInv, Reached
<1>9. CASE Bundles
  <2>1. hour - 1 \in bundled'.rows /\ bundled'.cursor \in {hour - 1, hour} /\ hour \in Nat
    BY <1>0, <1>9, DigestAssumption DEF Bundles, InWindow, DigestTypes
  <2>2. Reached(bundled'.cursor - 1, bundled'.rows)
    BY <2>1 DEF Reached
  <2> QED
    BY <1>0, <1>9, <2>2 DEF Bundles, DigestInv, Reached
<1>10. CASE Restarts
  <2>1. lastHour' = NoHour /\ sync'.pc = "idle" /\ ~memo'.filled /\ reader'.pc = "idle" /\ UNCHANGED <<hour, bundled>>
    BY <1>10 DEF Restarts, NoSync, NoMemo
  <2>2. market' = market \/ (bundled.version = 1 /\ market' = bundled)
    BY <1>0, <1>10 DEF Restarts, DigestTypes
  <2> QED
    BY <1>0, <2>1, <2>2 DEF DigestInv, Reached
<1>11. CASE UNCHANGED digestVars
  BY <1>0, <1>11 DEF digestVars, DigestInv, Reached
<1> QED
  BY <1>1, <1>2, <1>3, <1>4, <1>5, <1>6, <1>7, <1>8, <1>9, <1>10, <1>11 DEF DigestNext, Syncs

(* The hours below the one being fetched are stored, and so are those below *)
(* a seed's cursor.                                                         *)
GapInv ==
    /\ NoGap
    /\ sync.pc # "idle" =>
          \A h \in Hour : first <= h /\ h < sync.at /\ InWindow(h) => h \in market.rows
    /\ bundled.version = 1 =>
          \A h \in Hour : h < bundled.cursor /\ InWindow(h) => h \in bundled.rows

LEMMA GapInitOK == DigestInit => GapInv
  BY DEF DigestInit, GapInv, NoGap, NoSync

LEMMA GapStepKeeps == DigestInv /\ GapInv /\ [DigestNext]_digestVars => GapInv'
<1> SUFFICES ASSUME DigestInv, GapInv, [DigestNext]_digestVars PROVE GapInv'
  OBVIOUS
<1>0. DigestTypes /\ DigestTypes'
  BY DigestTypesKept DEF DigestInv
<1>a. Hour \subseteq Int /\ Keep \in Int
  BY DigestAssumption DEF Hour
<1>1. CASE HourPasses
  <2>1. hour' = hour + 1 /\ UNCHANGED <<market, first, bundled, sync>>
    BY <1>1 DEF HourPasses
  <2>2. \A h \in Hour : InWindow(h)' => InWindow(h)
    BY <1>0, <1>a, <2>1 DEF DigestTypes, InWindow
  <2> QED
    BY <2>1, <2>2 DEF GapInv, NoGap
<1>2. CASE SyncStarts
  <2>1. UNCHANGED <<hour, market, bundled>>
    BY <1>2 DEF SyncStarts, StartsSaying
  <2>2. CASE market.cursor = NoHour
    <3>1. sync'.at = first' /\ first' \in Int
      BY <1>0, <1>2, <2>2, DigestAssumption DEF SyncStarts, StartsSaying, DigestTypes
    <3> QED
      BY <1>a, <2>1, <2>2, <3>1 DEF GapInv, NoGap, InWindow
  <2>3. CASE market.cursor # NoHour
    <3>1. sync'.at = market.cursor /\ first' = first
      BY <1>2, <2>3 DEF SyncStarts, StartsSaying
    <3> QED
      BY <2>1, <2>3, <3>1 DEF GapInv, NoGap, InWindow
  <2> QED
    BY <2>2, <2>3
<1>3. CASE NotPublished \/ FetchFails
  BY <1>3 DEF NotPublished, FetchFails, NoSync, GapInv, NoGap, InWindow
<1>4. CASE Marks
  <2>1. sync'.at = sync.at /\ sync.pc # "idle" /\ UNCHANGED <<hour, market, first, bundled>>
    BY <1>0, <1>4 DEF Marks, DigestTypes
  <2> QED
    BY <2>1 DEF GapInv, NoGap, InWindow
<1>5. CASE Stores
  <2>1. /\ market.rows \subseteq market'.rows /\ market'.cursor = market.cursor
        /\ sync'.at = sync.at /\ sync.pc # "idle" /\ UNCHANGED <<hour, first, bundled>>
    BY <1>0, <1>5 DEF Stores, DigestTypes
  <2> QED
    BY <2>1 DEF GapInv, NoGap, InWindow
<1>6. CASE Advances
  <2>1. /\ sync.pc # "idle" /\ sync.at \in market.rows /\ sync.at \in Int /\ market'.rows = market.rows
        /\ UNCHANGED <<hour, first, bundled>>
    BY <1>0, <1>6 DEF Advances, DigestInv, DigestTypes
  <2>2. /\ market'.cursor \in {sync.at, sync.at + 1}
        /\ sync'.pc # "idle" => sync'.at = sync.at + 1
    BY <1>0, <1>6 DEF Advances, DigestTypes, NoSync
  <2>3. \A h \in Hour : first <= h /\ h < sync.at + 1 /\ InWindow(h) => h \in market.rows
    BY <1>a, <2>1 DEF GapInv
  <2>4. NoGap'
    BY <1>a, <2>1, <2>2, <2>3 DEF NoGap, InWindow
  <2> QED
    BY <2>1, <2>2, <2>3, <2>4 DEF GapInv, InWindow
<1>7. CASE Prunes
  <2>1. /\ market'.rows = {h \in market.rows : InWindow(h)} /\ market'.cursor = market.cursor
        /\ sync.pc = "idle" /\ UNCHANGED <<hour, first, bundled, sync>>
    BY <1>0, <1>7 DEF Prunes, DigestTypes
  <2> QED
    BY <2>1 DEF GapInv, NoGap, InWindow
<1>8. CASE ReadStarts \/ ReadBuilds \/ MemoExpires \/ UNCHANGED digestVars
  BY <1>8 DEF ReadStarts, ReadBuilds, MemoExpires, digestVars, GapInv, NoGap, InWindow
<1>9. CASE Bundles
  <2>1. /\ bundled'.cursor \in {hour - 1, hour} /\ bundled'.rows = {h \in 0..(hour - 1) : InWindow(h)}
        /\ hour \in Nat /\ UNCHANGED <<hour, market, first, sync>>
    BY <1>0, <1>9 DEF Bundles, DigestTypes
  <2>2. \A h \in Hour : h < bundled'.cursor /\ InWindow(h) => h \in bundled'.rows
    BY <2>1, DigestAssumption DEF Hour
  <2> QED
    BY <2>1, <2>2 DEF GapInv, NoGap, InWindow
<1>10. CASE Restarts
  <2>1. sync'.pc = "idle" /\ UNCHANGED <<hour, bundled>>
    BY <1>10 DEF Restarts, NoSync
  <2>2. (market' = market /\ first' = first) \/ (bundled.version = 1 /\ market' = bundled)
    BY <1>0, <1>10 DEF Restarts, DigestTypes
  <2> QED
    BY <2>1, <2>2 DEF GapInv, NoGap, InWindow
<1> QED
  BY <1>1, <1>2, <1>3, <1>4, <1>5, <1>6, <1>7, <1>8, <1>9, <1>10 DEF DigestNext, Syncs

(* A memo that passes for current was built from rows that reach the hour  *)
(* it is stamped with, unless that hour has left the window, and no hour   *)
(* of the window is missing below the cursor, for any window and any       *)
(* number of hours, failures, restarts and seeds (digest.py, cache.py).    *)
THEOREM DigestIsSoundEver == DigestSpec => []DigestIsSound
<1>1. DigestInv => MemoReachesItsHour
  <2> SUFFICES ASSUME DigestInv, memo.filled, memo.version # NoHour
               PROVE  (\E h \in memo.seen : h >= memo.version) \/ ~InWindow(memo.version)
    BY DEF MemoReachesItsHour
  <2> QED
    BY DigestAssumption DEF DigestInv, DigestTypes, Reached, InWindow
<1>2. DigestInv /\ GapInv => DigestIsSound
  BY <1>1 DEF DigestIsSound, GapInv
<1> QED
  BY <1>2, DigestInitOK, DigestStepKeeps, GapInitOK, GapStepKeeps, PTL DEF DigestSpec

-----------------------------------------------------------------------------
(* The route search.  Nothing the search found is lost on its way: it is   *)
(* in the batch, in an event that was not received, or in the page's list. *)
Events == [type : {"meta", "routes", "progress", "done", "error"}, rows : SUBSET LoopIds]
Search == [pc : {"none", "open", "build", "setup", "search", "done", "over"}, graph : Int, capital : Int,
           found : Nat, buf : SUBSET LoopIds, stop : BOOLEAN, since : Int]
Page == [es : {0} \cup Streams, last : Nat, acc : SUBSET LoopIds, shown : SUBSET LoopIds,
         of : {0} \cup Streams, streaming : BOOLEAN, retries : Nat]

StreamTypes ==
    /\ wire \in Seq(Events) /\ search \in [Streams -> Search] /\ page \in Page
    /\ saved \in Int /\ graphCache \in Int /\ routeCache \in Int
    /\ \A s \in Streams : search[s].pc \in {"open", "build", "setup"} => search[s].found = 0

(* The loop is in the list, or in one of the first n events.               *)
Had(r, list, w, n) == r \in list \/ \E k \in 1..n : r \in w[k].rows

NoneLost(list, w, rec) ==
    /\ \A k \in 1..Len(w) : w[k].type = "done" =>
          k = Len(w) /\ rec.pc \in {"done", "over"} /\ \A r \in Top : Had(r, list, w, Len(w) - 1)
    /\ rec.pc = "search" => \A r \in 1..rec.found : r \in rec.buf \/ Had(r, list, w, Len(w))

StreamInv ==
    /\ StreamTypes
    /\ page.es # 0 => NoneLost(page.acc, wire, search[page.es])
    /\ SameLoopsEitherWay

LEMMA StreamInitOK == StreamInit => StreamInv
<1> SUFFICES ASSUME StreamInit PROVE StreamInv
  OBVIOUS
<1>1. Fresh \in Search /\ Fresh.pc = "none"
  BY DEF Fresh, Search, Nothing
<1>2. wire \in Seq(Events)
  BY EmptySeq DEF StreamInit
<1> QED
  BY <1>1, <1>2 DEF StreamInit, StreamInv, StreamTypes, Page, SameLoopsEitherWay, Nothing

LEMMA Records ==
    /\ Fresh \in Search
    /\ \A s : Ended(s) \in Search /\ Ended(s).pc = "over"
    /\ \A n \in Int : LET rec == [Fresh EXCEPT !.pc = "open", !.since = n]
                      IN rec \in Search /\ rec.pc = "open" /\ rec.found = 0
<1>1. Fresh \in Search /\ Fresh.found = 0
  BY DEF Fresh, Search, Nothing
<1>2. [Fresh EXCEPT !.pc = "over"] \in Search /\ [Fresh EXCEPT !.pc = "over"].pc = "over"
  BY <1>1 DEF Search
<1>3. ASSUME NEW n \in Int
      PROVE  /\ [Fresh EXCEPT !.pc = "open", !.since = n] \in Search
             /\ [Fresh EXCEPT !.pc = "open", !.since = n].pc = "open"
             /\ [Fresh EXCEPT !.pc = "open", !.since = n].found = 0
  BY <1>1 DEF Search
<1> QED
  BY <1>1, <1>2, <1>3 DEF Ended

(* Events behind events.                                                   *)
LEMMA Joined ==
    ASSUME NEW w \in Seq(Events), NEW ev \in Seq(Events), NEW list
    PROVE  /\ w \o ev \in Seq(Events) /\ Len(w \o ev) = Len(w) + Len(ev)
           /\ \A k \in 1..Len(w \o ev) : \/ k \in 1..Len(w) /\ (w \o ev)[k] = w[k]
                                         \/ k - Len(w) \in 1..Len(ev) /\ (w \o ev)[k] = ev[k - Len(w)]
           /\ \A r : \A n \in 0..Len(ev) :
                Had(r, list, w, Len(w)) \/ (\E k \in 1..n : r \in ev[k].rows) => Had(r, list, w \o ev, Len(w) + n)
<1> DEFINE t == w \o ev
<1>1. /\ t \in Seq(Events) /\ Len(t) = Len(w) + Len(ev) /\ Len(w) \in Nat /\ Len(ev) \in Nat
      /\ \A k \in 1..(Len(w) + Len(ev)) : t[k] = IF k <= Len(w) THEN w[k] ELSE ev[k - Len(w)]
  BY ConcatProperties, LenProperties
<1> HIDE DEF t
<1>2. \A k \in 1..Len(t) : \/ k \in 1..Len(w) /\ t[k] = w[k]
                           \/ k - Len(w) \in 1..Len(ev) /\ t[k] = ev[k - Len(w)]
  BY <1>1
<1>3. ASSUME NEW r, NEW n \in 0..Len(ev), Had(r, list, w, Len(w)) \/ \E k \in 1..n : r \in ev[k].rows
      PROVE  Had(r, list, t, Len(w) + n)
  <2>1. ASSUME NEW k \in 1..Len(w), r \in w[k].rows PROVE \E m \in 1..(Len(w) + n) : r \in t[m].rows
    <3>1. k \in 1..(Len(w) + n) /\ k \in 1..(Len(w) + Len(ev)) /\ t[k] = w[k]
      BY <1>1
    <3> QED
      BY <2>1, <3>1
  <2>2. ASSUME NEW k \in 1..n, r \in ev[k].rows PROVE \E m \in 1..(Len(w) + n) : r \in t[m].rows
    <3>1. Len(w) + k \in 1..(Len(w) + n) /\ Len(w) + k \in 1..(Len(w) + Len(ev)) /\ (Len(w) + k) - Len(w) = k
          /\ ~(Len(w) + k <= Len(w))
      BY <1>1
    <3>2. t[Len(w) + k] = ev[k]
      BY <1>1, <3>1
    <3> QED
      BY <2>2, <3>1, <3>2
  <2> QED
    BY <1>3, <2>1, <2>2 DEF Had
<1> QED
  BY <1>1, <1>2, <1>3 DEF t

(* The batch goes out before the event e.                                  *)
FlushedWith(s, e) == Flushed(s) \o <<e>>
AllOut(ev, batch, e) ==
    /\ ev \in Seq(Events) /\ Len(ev) \in {1, 2} /\ ev[Len(ev)] = e
    /\ \A k \in 1..(Len(ev) - 1) : ev[k].type = "routes"
    /\ \A r \in batch : \E k \in 1..(Len(ev) - 1) : r \in ev[k].rows

LEMMA FlushedFirst ==
    ASSUME NEW s \in Streams, search[s] \in Search, NEW e \in Events
    PROVE  AllOut(FlushedWith(s, e), search[s].buf, e)
<1> DEFINE b == Batch(search[s].buf)  ev == FlushedWith(s, e)
<1>1. <<e>> \in Seq(Events) /\ Len(<<e>>) = 1 /\ <<e>>[1] = e
  OBVIOUS
<1>2. CASE search[s].buf = {}
  <2>1. ev = <<e>>
    BY <1>1, <1>2, ConcatEmptySeq DEF Flushed, FlushedWith
  <2>2. 1..(Len(ev) - 1) = {}
    BY <1>1, <2>1
  <2> QED
    BY <1>1, <1>2, <2>1, <2>2 DEF AllOut
<1>3. CASE search[s].buf # {}
  <2>1. b \in Events /\ b.type = "routes" /\ b.rows = search[s].buf
    BY DEF Batch, Events, Search
  <2> HIDE DEF b
  <2>2. <<b>> \in Seq(Events) /\ Len(<<b>>) = 1 /\ <<b>>[1] = b
    BY <2>1
  <2>3. Flushed(s) = <<b>>
    BY <1>3 DEF Flushed, b
  <2>4. /\ <<b>> \o <<e>> \in Seq(Events) /\ Len(<<b>> \o <<e>>) = 2
        /\ (<<b>> \o <<e>>)[1] = b /\ (<<b>> \o <<e>>)[2] = e
    BY <1>1, <2>2, ConcatProperties
  <2>5. ev \in Seq(Events) /\ Len(ev) = 2 /\ ev[1] = b /\ ev[2] = e
    BY <2>3, <2>4 DEF FlushedWith
  <2>6. 1..(Len(ev) - 1) = {1}
    BY <2>5
  <2> QED
    BY <2>1, <2>5, <2>6 DEF AllOut
<1> QED
  BY <1>2, <1>3

(* A stream's record is replaced by one of the same kind.                  *)
LEMMA OneStream ==
    ASSUME StreamTypes, NEW s \in Streams, NEW rec \in Search, StreamGoes(s, rec)
    PROVE  /\ search' \in [Streams -> Search] /\ search'[s] = rec
           /\ \A o \in Streams \ {s} : search'[o] = search[o]
  BY DEF StreamGoes, StreamTypes

(* A step of a stream whose events the page, if it listens, gets in order. *)
LEMMA StreamStep ==
    ASSUME StreamInv, NEW s \in Streams, NEW rec \in Search, NEW ev \in Seq(Events),
           StreamGoes(s, rec), Sends(s, ev), UNCHANGED page,
           saved' \in Int, graphCache' \in Int, routeCache' \in Int,
           rec.pc \in {"open", "build", "setup"} => rec.found = 0,
           page.es = s =>
              /\ search[s].pc \notin {"done", "over"}
              /\ \A k \in 1..Len(ev) : ev[k].type = "done" => k = Len(ev) /\ rec.pc = "done"
              /\ \A k \in 1..Len(ev) : ev[k].type = "done" =>
                    \A r \in Top : Had(r, page.acc, wire, Len(wire)) \/ \E m \in 1..(Len(ev) - 1) : r \in ev[m].rows
              /\ rec.pc = "search" =>
                    \A r \in 1..rec.found : \/ r \in rec.buf \/ Had(r, page.acc, wire, Len(wire))
                                            \/ \E m \in 1..Len(ev) : r \in ev[m].rows
    PROVE  StreamInv'
<1>1. /\ search' \in [Streams -> Search] /\ search'[s] = rec
      /\ \A o \in Streams \ {s} : search'[o] = search[o]
  BY OneStream DEF StreamInv
<1>2. wire \in Seq(Events) /\ Len(wire) \in Nat /\ Len(ev) \in Nat /\ page \in Page
  BY LenProperties DEF StreamInv, StreamTypes
<1>3. CASE page.es = s
  <2> DEFINE t == wire \o ev
  <2>1. wire' = t
    BY <1>3 DEF Sends
  <2>2. /\ t \in Seq(Events) /\ Len(t) = Len(wire) + Len(ev)
        /\ \A k \in 1..Len(t) : \/ k \in 1..Len(wire) /\ t[k] = wire[k]
                                \/ k - Len(wire) \in 1..Len(ev) /\ t[k] = ev[k - Len(wire)]
        /\ \A r : \A n \in 0..Len(ev) :
              Had(r, page.acc, wire, Len(wire)) \/ (\E k \in 1..n : r \in ev[k].rows) => Had(r, page.acc, t, Len(wire) + n)
    BY <1>2, Joined
  <2> HIDE DEF t
  <2>3. \A k \in 1..Len(wire) : wire[k].type # "done"
    BY <1>2, <1>3 DEF StreamInv, NoneLost, Streams
  <2>4. ASSUME NEW k \in 1..Len(t), t[k].type = "done"
        PROVE  k = Len(t) /\ rec.pc = "done" /\ \A r \in Top : Had(r, page.acc, t, Len(t) - 1)
    <3>1. k - Len(wire) \in 1..Len(ev) /\ ev[k - Len(wire)].type = "done"
      BY <2>2, <2>3, <2>4
    <3>2. k - Len(wire) = Len(ev) /\ rec.pc = "done"
      BY <1>3, <3>1
    <3>3. Len(ev) - 1 \in 0..Len(ev) /\ Len(t) - 1 = Len(wire) + (Len(ev) - 1) /\ k = Len(t)
      BY <1>2, <2>2, <3>1, <3>2
    <3>4. \A r \in Top : Had(r, page.acc, wire, Len(wire)) \/ \E m \in 1..(Len(ev) - 1) : r \in ev[m].rows
      BY <1>3, <3>1
    <3>5. \A r \in Top : Had(r, page.acc, t, Len(wire) + (Len(ev) - 1))
      BY <2>2, <3>3, <3>4
    <3> QED
      BY <3>2, <3>3, <3>5
  <2>5. ASSUME rec.pc = "search", NEW r \in 1..rec.found PROVE r \in rec.buf \/ Had(r, page.acc, t, Len(t))
    <3>1. Len(ev) \in 0..Len(ev) /\ Len(t) = Len(wire) + Len(ev)
      BY <1>2, <2>2
    <3>2. \/ r \in rec.buf \/ Had(r, page.acc, wire, Len(wire))
          \/ \E m \in 1..Len(ev) : r \in ev[m].rows
      BY <1>3, <2>5
    <3>3. Had(r, page.acc, wire, Len(wire)) \/ (\E m \in 1..Len(ev) : r \in ev[m].rows)
          => Had(r, page.acc, t, Len(wire) + Len(ev))
      BY <2>2, <3>1
    <3> QED
      BY <3>1, <3>2, <3>3
  <2>6. NoneLost(page.acc, t, rec)
    BY <2>4, <2>5 DEF NoneLost
  <2> QED
    BY <1>1, <1>3, <2>1, <2>2, <2>6 DEF StreamInv, StreamTypes, SameLoopsEitherWay
<1>4. CASE page.es # s
  <2>1. wire' = wire
    BY <1>4 DEF Sends
  <2>2. page.es # 0 => page.es \in Streams \ {s}
    BY <1>2, <1>4 DEF Page
  <2> QED
    BY <1>1, <2>1, <2>2 DEF StreamInv, StreamTypes, SameLoopsEitherWay
<1> QED
  BY <1>3, <1>4

(* A step of a stream that sends nothing.                                  *)
LEMMA SilentStep ==
    ASSUME StreamInv, NEW s \in Streams, NEW rec \in Search, StreamGoes(s, rec), UNCHANGED <<wire, page>>,
           saved' \in Int, graphCache' \in Int, routeCache' \in Int,
           rec.pc \in {"open", "build", "setup"} => rec.found = 0,
           page.es = s => search[s].pc \notin {"done", "over"},
           page.es = s /\ rec.pc = "search" =>
              \A r \in 1..rec.found : r \in rec.buf \/ Had(r, page.acc, wire, Len(wire))
    PROVE  StreamInv'
<1>1. /\ search' \in [Streams -> Search] /\ search'[s] = rec
      /\ \A o \in Streams \ {s} : search'[o] = search[o]
  BY OneStream DEF StreamInv
<1>2. CASE page.es = s
  <2>1. \A k \in 1..Len(wire) : wire[k].type # "done"
    BY <1>2 DEF StreamInv, NoneLost, Streams
  <2>2. NoneLost(page.acc, wire, rec)
    BY <1>2, <2>1 DEF NoneLost
  <2> QED
    BY <1>1, <1>2, <2>2 DEF StreamInv, StreamTypes, SameLoopsEitherWay
<1>3. CASE page.es # s
  <2>1. page.es # 0 => page.es \in Streams \ {s}
    BY <1>3 DEF Page, StreamInv, StreamTypes
  <2> QED
    BY <1>1, <2>1 DEF StreamInv, StreamTypes, SameLoopsEitherWay
<1> QED
  BY <1>2, <1>3

-----------------------------------------------------------------------------
LEMMA QuietStep ==
    ASSUME StreamInv, UNCHANGED <<search, wire, page>>, saved' \in Int, graphCache' \in Int, routeCache' \in Int
    PROVE  StreamInv'
  BY DEF StreamInv, StreamTypes, SameLoopsEitherWay

LEMMA SavesKeep ==
    ASSUME StreamInv, SaveStores \/ SaveDrops \/ GraphExpires \/ RouteExpires
    PROVE  StreamInv'
  BY QuietStep DEF StreamInv, StreamTypes, SaveStores, SaveDrops, GraphExpires, RouteExpires, Nothing

LEMMA SearchSteps ==
    ASSUME StreamInv, NEW s \in Streams,
           GetsGraph(s) \/ KeepsGraph(s) \/ SetsUp(s) \/ Finds(s) \/ Finishes(s) \/ Checks(s) \/ Breaks(s) \/ Notices(s)
    PROVE  StreamInv'
<1> DEFINE o == search[s]
<1>0. /\ o \in Search /\ wire \in Seq(Events) /\ saved \in Int /\ graphCache \in Int /\ routeCache \in Int
      /\ o.pc \in {"open", "build", "setup"} => o.found = 0
  BY DEF StreamInv, StreamTypes
<1>00. \A type \in {"meta", "progress", "done", "error"} : Event(type) \in Events /\ Event(type).type = type
  BY DEF Event, Events
<1>01. \A given \in SUBSET LoopIds : Batch(given) \in Events /\ Batch(given).type = "routes" /\ Batch(given).rows = given
  BY DEF Batch, Events
<1>02. page.es = s /\ o.pc = "search" => \A r \in 1..o.found : r \in o.buf \/ Had(r, page.acc, wire, Len(wire))
  BY DEF StreamInv, NoneLost, Streams
<1>03. OldestSave(s) \in Int
  BY <1>0 DEF OldestSave, Search
<1> HIDE DEF o
<1>1. CASE GetsGraph(s)
  <2> DEFINE rec == [o EXCEPT !.pc = IF graphCache = Nothing THEN "build" ELSE "setup",
                              !.graph = IF graphCache = Nothing THEN saved ELSE graphCache]
  <2>1. rec \in Search /\ rec.pc \in {"build", "setup"} /\ rec.found = o.found /\ o.pc = "open"
    BY <1>0, <1>1 DEF Search, GetsGraph, o
  <2>2. StreamGoes(s, rec) /\ UNCHANGED <<saved, graphCache, routeCache, wire, page>>
    BY <1>1 DEF GetsGraph, o
  <2> HIDE DEF rec
  <2> QED
    BY <1>0, <2>1, <2>2, SilentStep DEF o
<1>2. CASE KeepsGraph(s)
  <2> DEFINE rec == [o EXCEPT !.pc = "setup"]
  <2>1. rec \in Search /\ rec.pc = "setup" /\ rec.found = o.found /\ o.pc = "build"
    BY <1>0, <1>2 DEF Search, KeepsGraph, o
  <2>2. StreamGoes(s, rec) /\ UNCHANGED <<saved, routeCache, wire, page>> /\ graphCache' \in Int
    BY <1>0, <1>2 DEF KeepsGraph, o, Search
  <2> HIDE DEF rec
  <2> QED
    BY <1>0, <2>1, <2>2, SilentStep DEF o
<1>3. CASE SetsUp(s) /\ routeCache # Nothing
  <2> DEFINE rec == [o EXCEPT !.pc = "done", !.graph = routeCache, !.capital = routeCache]
             ev == <<Event("meta"), Batch(Top), Event("done")>>
  <2>1. rec \in Search /\ rec.pc = "done" /\ o.pc = "setup"
    BY <1>0, <1>3 DEF Search, SetsUp, o
  <2>2. StreamGoes(s, rec) /\ Sends(s, ev) /\ UNCHANGED <<saved, graphCache, routeCache, page>>
    BY <1>3 DEF SetsUp, o
  <2>3. /\ ev \in Seq(Events) /\ Len(ev) = 3 /\ ev[1].type = "meta" /\ ev[2].type = "routes"
        /\ \A r \in Top : r \in ev[2].rows
    <3>1. Top \in SUBSET LoopIds
      BY StreamAssumption DEF LoopIds
    <3> QED
      BY <3>1, <1>00, <1>01
  <2> HIDE DEF rec, ev
  <2>4. \A k \in 1..Len(ev) : ev[k].type = "done" => k = Len(ev)
    BY <2>3
  <2>5. \A r \in Top : \E m \in 1..(Len(ev) - 1) : r \in ev[m].rows
    BY <2>3
  <2> QED
    BY <1>0, <2>1, <2>2, <2>3, <2>4, <2>5, StreamStep DEF o
<1>4. CASE SetsUp(s) /\ routeCache = Nothing
  <2> DEFINE rec == [o EXCEPT !.pc = "search", !.capital = saved]  ev == <<Event("meta")>>
  <2>1. rec \in Search /\ rec.pc = "search" /\ rec.found = 0 /\ o.pc = "setup"
    BY <1>0, <1>4 DEF Search, SetsUp, o
  <2>2. StreamGoes(s, rec) /\ Sends(s, ev) /\ UNCHANGED <<saved, graphCache, routeCache, page>>
    BY <1>4 DEF SetsUp, o
  <2>3. ev \in Seq(Events) /\ Len(ev) = 1 /\ ev[1].type = "meta"
    BY <1>00
  <2> HIDE DEF rec, ev
  <2>4. \A k \in 1..Len(ev) : ev[k].type # "done"
    BY <2>3
  <2>5. \A r \in 1..rec.found : FALSE
    BY <2>1
  <2>6. saved' \in Int /\ graphCache' \in Int /\ routeCache' \in Int
    BY <1>0, <2>2
  <2> QED
    BY <1>0, <2>1, <2>2, <2>3, <2>4, <2>5, <2>6, StreamStep DEF o
<1>5. CASE Finds(s)
  <2> DEFINE r == o.found + 1  b == o.buf \cup {r}
  <2>0. o.pc = "search" /\ o.found \in Nat /\ o.found < NLoops /\ o.buf \in SUBSET LoopIds
    BY <1>0, <1>5 DEF Search, Finds, o
  <2>1. o.pc = "search" /\ r \in Nat /\ b \in SUBSET LoopIds /\ \A x \in 1..r : x \in 1..o.found \/ x \in b
    <3>1. r \in LoopIds
      BY <2>0, StreamAssumption DEF LoopIds
    <3>2. \A x \in 1..r : x \in 1..o.found \/ x = r
      BY <2>0
    <3> QED
      BY <2>0, <3>1, <3>2
  <2>2. CASE StreamGoes(s, [o EXCEPT !.found = r, !.buf = b]) /\ UNCHANGED wire
    <3> DEFINE rec == [o EXCEPT !.found = r, !.buf = b]
    <3>1. rec \in Search /\ rec.pc = "search" /\ rec.found = r /\ rec.buf = b
      BY <1>0, <2>1 DEF Search
    <3>2. StreamGoes(s, rec) /\ UNCHANGED <<saved, graphCache, routeCache, wire, page>>
      BY <1>5, <2>2 DEF Finds
    <3>3. \A x \in o.buf : x \in b
      OBVIOUS
    <3> HIDE DEF rec, r, b
    <3> QED
      BY <1>0, <1>02, <2>1, <3>1, <3>2, <3>3, SilentStep DEF o
  <2>3. CASE StreamGoes(s, [o EXCEPT !.found = r, !.buf = {}]) /\ Sends(s, <<Batch(b)>>)
    <3> DEFINE rec == [o EXCEPT !.found = r, !.buf = {}]  ev == <<Batch(b)>>
    <3>1. rec \in Search /\ rec.pc = "search" /\ rec.found = r
      BY <1>0, <2>1 DEF Search
    <3>2. StreamGoes(s, rec) /\ Sends(s, ev) /\ UNCHANGED <<saved, graphCache, routeCache, page>>
      BY <1>5, <2>3 DEF Finds
    <3>3. ev \in Seq(Events) /\ Len(ev) = 1 /\ ev[1].type = "routes" /\ \A x \in b : x \in ev[1].rows
      BY <1>01, <2>1
    <3>4. \A x \in o.buf : x \in b
      OBVIOUS
    <3> HIDE DEF rec, r, b, ev
    <3>5. \A x \in b : \E m \in 1..Len(ev) : x \in ev[m].rows
      BY <3>3
    <3>6. page.es = s => \A x \in 1..rec.found : Had(x, page.acc, wire, Len(wire)) \/ \E m \in 1..Len(ev) : x \in ev[m].rows
      BY <1>02, <2>1, <3>1, <3>4, <3>5
    <3>7. \A k \in 1..Len(ev) : ev[k].type # "done"
      BY <3>3
    <3> QED
      BY <1>0, <2>1, <3>1, <3>2, <3>3, <3>6, <3>7, StreamStep DEF o
  <2> QED
    BY <1>5, <2>2, <2>3 DEF Finds, o
<1>6. CASE Checks(s) /\ o.stop
  <2>1. CASE StreamGoes(s, Ended(s)) /\ UNCHANGED wire
    <3>1. Ended(s) \in Search /\ Ended(s).pc = "over" /\ o.pc = "search"
      BY <1>6, Records DEF Checks, o
    <3>2. UNCHANGED <<saved, graphCache, routeCache, wire, page>>
      BY <1>6, <2>1 DEF Checks
    <3> QED
      BY <1>0, <2>1, <3>1, <3>2, SilentStep DEF o
  <2> QED
    BY <1>6, <2>1 DEF Checks, o
<1>7. CASE Checks(s) /\ ~o.stop
  <2> DEFINE rec == [o EXCEPT !.buf = {}]  ev == FlushedWith(s, Event("progress"))
  <2>1. rec \in Search /\ rec.pc = "search" /\ rec.found = o.found /\ o.pc = "search"
    BY <1>0, <1>7 DEF Search, Checks, o
  <2>2. StreamGoes(s, rec) /\ Sends(s, ev) /\ UNCHANGED <<saved, graphCache, routeCache, page>>
    BY <1>7 DEF Checks, o, FlushedWith
  <2>3. /\ ev \in Seq(Events) /\ Len(ev) \in {1, 2} /\ ev[Len(ev)].type = "progress"
        /\ \A k \in 1..(Len(ev) - 1) : ev[k].type = "routes"
        /\ \A r \in o.buf : \E k \in 1..(Len(ev) - 1) : r \in ev[k].rows
    <3>1. Event("progress") \in Events /\ Event("progress").type = "progress" /\ search[s] \in Search
      BY <1>0, <1>00 DEF o
    <3>2. AllOut(ev, search[s].buf, Event("progress"))
      BY <3>1, FlushedFirst
    <3> HIDE DEF ev
    <3> QED
      BY <3>1, <3>2 DEF AllOut, o
  <2> HIDE DEF rec, ev
  <2>4. \A k \in 1..Len(ev) : ev[k].type # "done"
    BY <2>3
  <2>5. \A r \in o.buf : \E k \in 1..Len(ev) : r \in ev[k].rows
    BY <2>3
  <2> QED
    BY <1>0, <1>02, <2>1, <2>2, <2>3, <2>4, <2>5, StreamStep DEF o
<1>8. CASE Finishes(s)
  <2> DEFINE rec == [o EXCEPT !.pc = "done", !.buf = {}, !.found = 0, !.stop = FALSE]
             ev == FlushedWith(s, Event("done"))
  <2>1. rec \in Search /\ rec.pc = "done" /\ o.pc = "search" /\ o.found = NLoops
    BY <1>0, <1>8 DEF Search, Finishes, o
  <2>2. StreamGoes(s, rec) /\ Sends(s, ev) /\ UNCHANGED <<saved, graphCache, page>> /\ routeCache' \in Int
    BY <1>8, <1>03 DEF Finishes, o, FlushedWith
  <2>3. /\ ev \in Seq(Events) /\ Len(ev) \in {1, 2}
        /\ \A k \in 1..(Len(ev) - 1) : ev[k].type = "routes"
        /\ \A r \in o.buf : \E k \in 1..(Len(ev) - 1) : r \in ev[k].rows
    <3>1. Event("done") \in Events /\ Event("done").type = "done" /\ search[s] \in Search
      BY <1>0, <1>00 DEF o
    <3>2. AllOut(ev, search[s].buf, Event("done"))
      BY <3>1, FlushedFirst
    <3> HIDE DEF ev
    <3> QED
      BY <3>1, <3>2 DEF AllOut, o
  <2> HIDE DEF rec, ev
  <2>4. \A k \in 1..Len(ev) : ev[k].type = "done" => k = Len(ev)
    BY <2>3
  <2>5. page.es = s => \A r \in Top : Had(r, page.acc, wire, Len(wire)) \/ \E m \in 1..(Len(ev) - 1) : r \in ev[m].rows
    BY <1>02, <2>1, <2>3, StreamAssumption
  <2> QED
    BY <1>0, <2>1, <2>2, <2>3, <2>4, <2>5, StreamStep DEF o
<1>9. CASE Breaks(s)
  <2> DEFINE ev == <<Event("error")>>
  <2>1. Ended(s) \in Search /\ Ended(s).pc = "over" /\ o.pc \in {"open", "search"}
    BY <1>9, Records DEF Breaks, o
  <2>2. StreamGoes(s, Ended(s)) /\ Sends(s, ev) /\ UNCHANGED <<saved, graphCache, routeCache, page>>
    BY <1>9 DEF Breaks
  <2>3. ev \in Seq(Events) /\ Len(ev) = 1 /\ ev[1].type = "error"
    BY <1>00
  <2> HIDE DEF ev
  <2> QED
    BY <1>0, <2>1, <2>2, <2>3, StreamStep DEF o
<1>10. CASE Notices(s)
  <2> DEFINE rec == [o EXCEPT !.stop = TRUE]
  <2>1. rec \in Search /\ rec.pc = o.pc /\ rec.found = o.found /\ page.es # s
    BY <1>0, <1>10 DEF Search, Notices, o
  <2>2. StreamGoes(s, rec) /\ UNCHANGED <<saved, graphCache, routeCache, wire, page>>
    BY <1>10 DEF Notices, o
  <2> HIDE DEF rec
  <2> QED
    BY <1>0, <2>1, <2>2, SilentStep DEF o
<1> QED
  BY <1>1, <1>2, <1>3, <1>4, <1>5, <1>6, <1>7, <1>8, <1>9, <1>10 DEF Nothing
-----------------------------------------------------------------------------
LEMMA LoadsKeep ==
    ASSUME StreamInv, NEW n \in Nat, Loads(n)
    PROVE  StreamInv'
<1> DEFINE rec == [Fresh EXCEPT !.pc = "open", !.since = saved - (IF putter = "stored" THEN 1 ELSE 0)]
<1>1. rec \in Search /\ rec.pc = "open" /\ rec.found = 0
  <2>1. saved - (IF putter = "stored" THEN 1 ELSE 0) \in Int
    BY DEF StreamInv, StreamTypes
  <2> QED
    BY <2>1, Records
<1>2. Opened \in Streams /\ Opened \in Nat /\ search' = [search EXCEPT ![Opened] = rec]
  BY StreamAssumption DEF Loads, Streams
<1> HIDE DEF rec
<1>3. /\ search' \in [Streams -> Search] /\ search'[Opened] = rec
      /\ \A o \in Streams \ {Opened} : search'[o] = search[o]
  BY <1>1, <1>2 DEF StreamInv, StreamTypes
<1>4. page' \in Page /\ page'.es = Opened /\ page'.shown = page.shown /\ page'.of = page.of
  BY <1>2 DEF Loads, Page, StreamInv, StreamTypes
<1>5. wire' = <<>> /\ wire' \in Seq(Events) /\ Len(wire') = 0 /\ UNCHANGED <<saved, graphCache, routeCache>>
  BY EmptySeq DEF Loads
<1>6. NoneLost(page'.acc, wire', rec)
  BY <1>1, <1>5 DEF NoneLost
<1>7. StreamTypes'
  BY <1>1, <1>3, <1>4, <1>5 DEF StreamInv, StreamTypes
<1> QED
  BY <1>3, <1>4, <1>6, <1>7 DEF StreamInv, SameLoopsEitherWay

LEMMA GiveUpKeeps ==
    ASSUME StreamInv, IdleTooLong
    PROVE  StreamInv'
<1>1. CASE page.retries < SEARCH_RETRIES
  <2>1. page.retries + 1 \in Nat
    BY DEF StreamInv, StreamTypes, Page
  <2> QED
    BY <1>1, <2>1, LoadsKeep DEF IdleTooLong, GivesUp
<1>2. CASE ~(page.retries < SEARCH_RETRIES)
  <2>1. page' = [page EXCEPT !.es = 0, !.streaming = FALSE] /\ UNCHANGED <<saved, graphCache, routeCache, search, wire>>
    BY <1>2 DEF IdleTooLong, GivesUp
  <2>2. page' \in Page /\ page'.es = 0 /\ page'.shown = page.shown /\ page'.of = page.of
    BY <2>1 DEF StreamInv, StreamTypes, Page
  <2> QED
    BY <2>1, <2>2 DEF StreamInv, StreamTypes, SameLoopsEitherWay
<1> QED
  BY <1>1, <1>2

LEMMA ReceivesKeeps ==
    ASSUME StreamInv, Receives
    PROVE  StreamInv'
<1> DEFINE e == Head(wire)  t == Tail(wire)
<1>1. wire \in Seq(Events) /\ wire # <<>> /\ page.es # 0 /\ page \in Page /\ search \in [Streams -> Search]
  BY DEF Receives, StreamInv, StreamTypes
<1>2. /\ e \in Events /\ e = wire[1] /\ t \in Seq(Events) /\ Len(t) = Len(wire) - 1 /\ Len(wire) \in Nat /\ Len(wire) >= 1
      /\ \A k \in 1..Len(t) : t[k] = wire[k + 1]
  BY <1>1, HeadTailProperties, LenProperties, EmptySeq
<1>3. wire' = t /\ UNCHANGED <<saved, graphCache, routeCache, search>>
  BY DEF Receives
<1>4. NoneLost(page.acc, wire, search[page.es])
  BY <1>1 DEF StreamInv
<1>5. CASE e.type = "done"
  <2>1. page' = [page EXCEPT !.es = 0, !.streaming = FALSE, !.retries = 0, !.shown = page.acc \cap Top, !.of = page.es]
    BY <1>1, <1>5 DEF Receives, Page
  <2>2. page' \in Page /\ page'.es = 0 /\ page'.shown = page.acc \cap Top
    BY <1>1, <2>1 DEF Page
  <2>3. \A r \in Top : r \in page.acc
    <3>1. 1 \in 1..Len(wire) /\ wire[1].type = "done"
      BY <1>2, <1>5
    <3>2. 1 = Len(wire) /\ \A r \in Top : Had(r, page.acc, wire, Len(wire) - 1)
      BY <1>4, <3>1 DEF NoneLost
    <3>3. Len(wire) - 1 = 0
      BY <3>2
    <3>4. \A k \in 1..0 : FALSE
      OBVIOUS
    <3> QED
      BY <3>2, <3>3, <3>4 DEF Had
  <2> QED
    BY <1>2, <1>3, <2>2, <2>3 DEF StreamInv, StreamTypes, SameLoopsEitherWay
<1>6. CASE e.type = "error"
  <2>1. page' = [page EXCEPT !.es = 0, !.streaming = FALSE]
    BY <1>6 DEF Receives
  <2>2. page' \in Page /\ page'.es = 0 /\ page'.shown = page.shown /\ page'.of = page.of
    BY <1>1, <2>1 DEF Page
  <2> QED
    BY <1>2, <1>3, <2>2 DEF StreamInv, StreamTypes, SameLoopsEitherWay
<1>7. CASE e.type \notin {"done", "error"}
  <2> DEFINE list == page.acc \cup e.rows
  <2>1. page' = [page EXCEPT !.acc = @ \cup e.rows]
    BY <1>7 DEF Receives
  <2>2. page' \in Page /\ page'.es = page.es /\ page'.acc = list /\ page'.shown = page.shown /\ page'.of = page.of
    BY <1>1, <1>2, <2>1 DEF Page, Events
  <2>3. \A r : \A n \in 1..Len(wire) : Had(r, page.acc, wire, n) => Had(r, list, t, n - 1)
    <3> SUFFICES ASSUME NEW r, NEW n \in 1..Len(wire), NEW k \in 1..n, r \in wire[k].rows
                 PROVE  r \in list \/ \E m \in 1..(n - 1) : r \in t[m].rows
      BY DEF Had
    <3>1. CASE k = 1
      BY <1>2, <3>1
    <3>2. CASE k # 1
      <4>1. k - 1 \in 1..(n - 1) /\ k - 1 \in 1..Len(t) /\ (k - 1) + 1 = k
        BY <1>2, <3>2
      <4>2. t[k - 1] = wire[k]
        BY <1>2, <4>1
      <4> QED
        BY <4>1, <4>2
    <3> QED
      BY <3>1, <3>2
  <2> HIDE DEF list, t, e
  <2>4. ASSUME NEW k \in 1..Len(t), t[k].type = "done"
        PROVE  k = Len(t) /\ search[page.es].pc \in {"done", "over"} /\ \A r \in Top : Had(r, list, t, Len(t) - 1)
    <3>1. k + 1 \in 1..Len(wire) /\ wire[k + 1].type = "done"
      BY <1>2, <2>4
    <3>2. k + 1 = Len(wire) /\ search[page.es].pc \in {"done", "over"} /\ \A r \in Top : Had(r, page.acc, wire, Len(wire) - 1)
      BY <1>4, <3>1 DEF NoneLost
    <3>3. Len(wire) - 1 \in 1..Len(wire) /\ (Len(wire) - 1) - 1 = Len(t) - 1
      BY <1>2, <3>1, <3>2
    <3> QED
      BY <1>2, <2>3, <3>2, <3>3
  <2>5. ASSUME search[page.es].pc = "search", NEW r \in 1..search[page.es].found
        PROVE  r \in search[page.es].buf \/ Had(r, list, t, Len(t))
    <3>1. r \in search[page.es].buf \/ Had(r, page.acc, wire, Len(wire))
      BY <1>4, <2>5 DEF NoneLost
    <3> QED
      BY <1>2, <2>3, <3>1
  <2>6. NoneLost(list, t, search[page.es])
    BY <2>4, <2>5 DEF NoneLost
  <2> QED
    BY <1>2, <1>3, <2>2, <2>6 DEF StreamInv, StreamTypes, SameLoopsEitherWay
<1> QED
  BY <1>5, <1>6, <1>7

LEMMA StreamStepKeeps == StreamInv /\ [StreamNext]_streamVars => StreamInv'
<1> SUFFICES ASSUME StreamInv, [StreamNext]_streamVars PROVE StreamInv'
  OBVIOUS
<1>1. CASE SaveStores \/ SaveDrops \/ GraphExpires \/ RouteExpires
  BY <1>1, SavesKeep
<1>2. CASE Searches
  <2>1. page.retries \in Nat
    BY DEF StreamInv, StreamTypes, Page
  <2> QED
    BY <1>2, <2>1, LoadsKeep DEF Searches
<1>3. CASE Receives
  BY <1>3, ReceivesKeeps
<1>4. CASE IdleTooLong
  BY <1>4, GiveUpKeeps
<1>5. ASSUME NEW s \in Streams, Works(s) \/ Checks(s) \/ Breaks(s) \/ Notices(s) PROVE StreamInv'
  BY <1>5, SearchSteps DEF Works
<1>6. CASE UNCHANGED streamVars
  BY <1>6, QuietStep DEF streamVars, StreamInv, StreamTypes
<1> QED
  BY <1>1, <1>2, <1>3, <1>4, <1>5, <1>6 DEF StreamNext

(* A fresh search and a replayed one leave the same list, whole, for any   *)
(* loops, filters, saves, retries and searches that supersede each other   *)
(* (main.py routes_stream, routesStream.js).                               *)
THEOREM SameLoopsEver == StreamInit /\ [][StreamNext]_streamVars => []SameLoopsEitherWay
<1>1. StreamInv => SameLoopsEitherWay
  BY DEF StreamInv
<1> QED
  BY <1>1, StreamInitOK, StreamStepKeeps, PTL

-----------------------------------------------------------------------------
(* The job queue.  Every fault leaves at most one row that nobody works on *)
(* or one process more, and a process works on one row.                    *)
OfKindIn(t, k) == {i \in DOMAIN t : t[i].kind = k}
AdriftIn(t)    == {i \in DOMAIN t : t[i].state = "running" /\ t[i].by = {}}
AliveIn(W)     == {w \in Workers : W[w].phase # "off"}
OrphansIn(W)   == {w \in Workers : W[w].phase # "off" /\ W[w].orphan}
AtWorkIn(W)    == {w \in Workers : W[w].phase \in {"loop", "idle", "busy"}}

OneRowEach(t)     == \A i \in DOMAIN t, j \in DOMAIN t : t[i].by \cap t[j].by # {} => i = j
OwnersBusy(t, W)  == \A i \in DOMAIN t : \A w \in t[i].by : W[w].phase = "busy"
InTurn(t, n)      == n = 0 => \A i \in DOMAIN t : ~t[i].beaten /\ (t[i].by # {} => i = 1)
FewOfAKind(t, n)  == \A k \in Kinds : Cardinality(OfKindIn(t, k)) <= 2 + n
RowsHold(t, n)    == OneRowEach(t) /\ InTurn(t, n) /\ FewOfAKind(t, n)
FewHands(t, W, n) ==
    /\ Cardinality(AliveIn(W)) <= 1 + n /\ Cardinality(OrphansIn(W)) <= n
    /\ Cardinality(AdriftIn(t)) + Cardinality(AtWorkIn(W)) <= 1 + n
JobInv == JobsTypeOK /\ RowsHold(rows, faults) /\ OwnersBusy(rows, workers) /\ FewHands(rows, workers, faults)

LEMMA TableSets ==
    ASSUME NEW t \in Seq(Row)
    PROVE  /\ DOMAIN t = 1..Len(t) /\ Len(t) \in Nat /\ \A i \in DOMAIN t : t[i] \in Row
           /\ \A k : IsFiniteSet(OfKindIn(t, k)) /\ Cardinality(OfKindIn(t, k)) \in Nat
           /\ IsFiniteSet(AdriftIn(t)) /\ Cardinality(AdriftIn(t)) \in Nat
<1>1. DOMAIN t = 1..Len(t) /\ Len(t) \in Nat /\ \A i \in DOMAIN t : t[i] \in Row
  BY LenProperties, ElementOfSeq
<1>2. IsFiniteSet(DOMAIN t)
  BY <1>1, FS_Interval
<1>3. AdriftIn(t) \subseteq DOMAIN t /\ \A k : OfKindIn(t, k) \subseteq DOMAIN t
  BY DEF AdriftIn, OfKindIn
<1> QED
  BY <1>1, <1>2, <1>3, FS_Subset, FS_CardinalityType

LEMMA HandSets ==
    ASSUME NEW W
    PROVE  /\ IsFiniteSet(AliveIn(W)) /\ IsFiniteSet(OrphansIn(W)) /\ IsFiniteSet(AtWorkIn(W))
           /\ Cardinality(AliveIn(W)) \in Nat /\ Cardinality(OrphansIn(W)) \in Nat /\ Cardinality(AtWorkIn(W)) \in Nat
<1>1. AliveIn(W) \subseteq Workers /\ OrphansIn(W) \subseteq Workers /\ AtWorkIn(W) \subseteq Workers
  BY DEF AliveIn, OrphansIn, AtWorkIn
<1> QED
  BY <1>1, WorkersAssumption, FS_Subset, FS_CardinalityType

(* Rows that stay where they are, with no new hand on them.                *)
LEMMA RowsKept ==
    ASSUME NEW n \in Nat, NEW t \in Seq(Row), NEW s \in Seq(Row), DOMAIN s = DOMAIN t, RowsHold(t, n),
           \A i \in DOMAIN t : s[i].kind = t[i].kind /\ s[i].by \subseteq t[i].by /\ (n = 0 /\ s[i].beaten => t[i].beaten)
    PROVE  RowsHold(s, n)
<1>1. \A k : OfKindIn(s, k) = OfKindIn(t, k)
  BY DEF OfKindIn
<1>2. FewOfAKind(s, n)
  BY <1>1 DEF RowsHold, FewOfAKind
<1>3. OneRowEach(s)
  BY DEF RowsHold, OneRowEach
<1>4. InTurn(s, n)
  BY DEF RowsHold, InTurn
<1> QED
  BY <1>2, <1>3, <1>4 DEF RowsHold

LEMMA MoreFaults ==
    ASSUME NEW n \in Nat, NEW t \in Seq(Row), RowsHold(t, n) PROVE RowsHold(t, n + 1)
<1>1. \A k : Cardinality(OfKindIn(t, k)) \in Nat
  BY TableSets
<1>2. FewOfAKind(t, n + 1)
  BY <1>1 DEF RowsHold, FewOfAKind
<1> QED
  BY <1>2 DEF RowsHold, InTurn

(* A row less.                                                             *)
WasAt(m, i) == IF m < i THEN m ELSE m + 1

LEMMA RowGone ==
    ASSUME NEW t \in Seq(Row), NEW i \in DOMAIN t
    PROVE  /\ RemoveAt(t, i) \in Seq(Row)
           /\ \A m \in DOMAIN RemoveAt(t, i) :
                 m \in Nat \ {0} /\ WasAt(m, i) \in DOMAIN t \ {i} /\ RemoveAt(t, i)[m] = t[WasAt(m, i)]
<1> DEFINE a == SubSeq(t, 1, i - 1)  b == SubSeq(t, i + 1, Len(t))  s == a \o b
<1>1. t \in Seq(Row) /\ Len(t) \in Nat /\ DOMAIN t = 1..Len(t) /\ i \in 1..Len(t)
  BY LenProperties
<1>2. a \in Seq(Row) /\ Len(a) = i - 1 /\ \A k \in 1..(i - 1) : a[k] = t[k]
  <2>1. i - 1 \in Int /\ \A k \in 1..(i - 1) : t[k] \in Row
    BY <1>1, ElementOfSeq
  <2>2. /\ a \in Seq(Row) /\ Len(a) = IF 1 <= i - 1 THEN (i - 1) - 1 + 1 ELSE 0
        /\ \A k \in 1..((i - 1) - 1 + 1) : a[k] = t[1 + k - 1]
    BY <2>1, SubSeqProperties
  <2> HIDE DEF a
  <2>3. (i - 1) - 1 + 1 = i - 1 /\ Len(a) = i - 1 /\ \A k \in 1..(i - 1) : 1 + k - 1 = k
    BY <1>1, <2>2
  <2> QED
    BY <2>2, <2>3
<1>3. b \in Seq(Row) /\ Len(b) = Len(t) - i /\ \A k \in 1..(Len(t) - i) : b[k] = t[i + k]
  <2>1. i + 1 \in Int /\ Len(t) \in Int /\ \A k \in (i + 1)..Len(t) : t[k] \in Row
    BY <1>1, ElementOfSeq
  <2>2. /\ b \in Seq(Row) /\ Len(b) = IF i + 1 <= Len(t) THEN Len(t) - (i + 1) + 1 ELSE 0
        /\ \A k \in 1..(Len(t) - (i + 1) + 1) : b[k] = t[i + 1 + k - 1]
    BY <2>1, SubSeqProperties
  <2> HIDE DEF b
  <2>3. Len(t) - (i + 1) + 1 = Len(t) - i /\ i \in Nat /\ i <= Len(t)
    BY <1>1
  <2>4. Len(b) = Len(t) - i
    BY <1>1, <2>2, <2>3
  <2>5. \A k \in 1..(Len(t) - i) : i + 1 + k - 1 = i + k
    BY <1>1
  <2> QED
    BY <2>2, <2>3, <2>4, <2>5
<1> HIDE DEF a, b
<1>4. s \in Seq(Row) /\ Len(s) = Len(t) - 1
      /\ \A k \in 1..(Len(t) - 1) : s[k] = IF k <= i - 1 THEN a[k] ELSE b[k - (i - 1)]
  <2>1. /\ s \in Seq(Row) /\ Len(s) = Len(a) + Len(b)
        /\ \A k \in 1..(Len(a) + Len(b)) : s[k] = IF k <= Len(a) THEN a[k] ELSE b[k - Len(a)]
    BY <1>2, <1>3, ConcatProperties
  <2> HIDE DEF s
  <2>2. Len(a) = i - 1 /\ Len(a) + Len(b) = Len(t) - 1
    BY <1>1, <1>2, <1>3
  <2> QED
    BY <2>1, <2>2
<1>5. DOMAIN s = 1..(Len(t) - 1)
  BY <1>4, LenProperties
<1> HIDE DEF s
<1>6. \A k \in DOMAIN s : k \in Nat \ {0} /\ s[k] = t[WasAt(k, i)] /\ WasAt(k, i) \in DOMAIN t \ {i}
  <2> SUFFICES ASSUME NEW k \in DOMAIN s
               PROVE  k \in Nat \ {0} /\ s[k] = t[WasAt(k, i)] /\ WasAt(k, i) \in DOMAIN t \ {i}
    OBVIOUS
  <2>1. CASE k < i
    BY <1>1, <1>2, <1>4, <1>5, <2>1 DEF WasAt
  <2>2. CASE ~(k < i)
    <3>1. k \in Nat /\ i \in Nat /\ Len(t) \in Nat /\ k <= Len(t) - 1 /\ i <= k
      BY <1>1, <1>5, <2>2
    <3>2. k - (i - 1) \in 1..(Len(t) - i) /\ i + (k - (i - 1)) = k + 1 /\ ~(k <= i - 1)
      BY <3>1
    <3>3. k - (i - 1) \in 1..(Len(t) - i) /\ s[k] = b[k - (i - 1)] /\ i + (k - (i - 1)) = k + 1
      BY <1>4, <1>5, <3>2
    <3> QED
      BY <1>1, <1>3, <1>5, <2>2, <3>3 DEF WasAt
  <2> QED
    BY <2>1, <2>2
<1>7. RemoveAt(t, i) = s
  BY DEF RemoveAt, a, b, s
<1> QED
  BY <1>4, <1>6, <1>7

LEMMA FewerLeft ==
    ASSUME NEW i \in Nat, NEW T \in SUBSET Nat, NEW S, IsFiniteSet(S), \A m \in T : WasAt(m, i) \in S
    PROVE  IsFiniteSet(T) /\ Cardinality(T) <= Cardinality(S)
<1> DEFINE f == [m \in T |-> WasAt(m, i)]
<1>1. f \in [T -> S]
  OBVIOUS
<1>2. ASSUME NEW m \in T, NEW k \in T, f[m] = f[k] PROVE m = k
  BY <1>2 DEF WasAt
<1>3. f \in Injection(T, S)
  BY <1>1, <1>2 DEF Injection, IsInjective
<1> QED
  BY <1>3, FS_Injection

LEMMA RowsLess ==
    ASSUME NEW n \in Nat, NEW t \in Seq(Row), NEW i \in DOMAIN t, t[i].by # {}, RowsHold(t, n)
    PROVE  /\ RemoveAt(t, i) \in Seq(Row) /\ RowsHold(RemoveAt(t, i), n)
           /\ Cardinality(AdriftIn(RemoveAt(t, i))) <= Cardinality(AdriftIn(t))
           /\ \A m \in DOMAIN RemoveAt(t, i) : \E j \in DOMAIN t \ {i} : RemoveAt(t, i)[m].by = t[j].by
<1> PICK s : s = RemoveAt(t, i)
  OBVIOUS
<1>1. /\ s \in Seq(Row)
      /\ \A m \in DOMAIN s : m \in Nat \ {0} /\ WasAt(m, i) \in DOMAIN t \ {i} /\ s[m] = t[WasAt(m, i)]
  BY RowGone
<1>2. i \in Nat /\ DOMAIN t = 1..Len(t) /\ Len(t) \in Nat
  BY TableSets
<1>3. Cardinality(AdriftIn(s)) <= Cardinality(AdriftIn(t))
  <2>1. AdriftIn(s) \in SUBSET Nat /\ \A m \in AdriftIn(s) : WasAt(m, i) \in AdriftIn(t)
    BY <1>1 DEF AdriftIn
  <2> QED
    BY <1>2, <2>1, TableSets, FewerLeft
<1>4. FewOfAKind(s, n)
  <2> SUFFICES ASSUME NEW k \in Kinds PROVE Cardinality(OfKindIn(s, k)) <= 2 + n
    BY DEF FewOfAKind
  <2>1. OfKindIn(s, k) \in SUBSET Nat /\ \A m \in OfKindIn(s, k) : WasAt(m, i) \in OfKindIn(t, k)
    BY <1>1 DEF OfKindIn
  <2>2. Cardinality(OfKindIn(s, k)) <= Cardinality(OfKindIn(t, k))
    BY <1>2, <2>1, TableSets, FewerLeft
  <2>3. Cardinality(OfKindIn(t, k)) <= 2 + n /\ Cardinality(OfKindIn(t, k)) \in Nat /\ Cardinality(OfKindIn(s, k)) \in Nat
    BY <1>1, TableSets DEF RowsHold, FewOfAKind
  <2> QED
    BY <2>2, <2>3
<1>5. OneRowEach(s)
  <2> SUFFICES ASSUME NEW m \in DOMAIN s, NEW k \in DOMAIN s, s[m].by \cap s[k].by # {} PROVE m = k
    BY DEF OneRowEach
  <2>1. WasAt(m, i) = WasAt(k, i)
    BY <1>1 DEF RowsHold, OneRowEach
  <2> QED
    BY <1>1, <1>2, <2>1 DEF WasAt
<1>6. InTurn(s, n)
  <2> SUFFICES ASSUME n = 0, NEW m \in DOMAIN s PROVE ~s[m].beaten /\ s[m].by = {}
    BY DEF InTurn
  <2>1. i = 1 /\ ~t[WasAt(m, i)].beaten /\ (t[WasAt(m, i)].by # {} => WasAt(m, i) = 1)
    BY <1>1 DEF RowsHold, InTurn
  <2> QED
    BY <1>1, <2>1
<1> QED
  BY <1>1, <1>3, <1>4, <1>5, <1>6 DEF RowsHold

(* What a process does to the counts of processes.                         *)
LEMMA HandMoves ==
    ASSUME NEW W \in [Workers -> Process], NEW w \in Workers, NEW p \in Process, NEW V, V = [W EXCEPT ![w] = p],
           p.phase # "off", W[w].phase # "off", p.orphan = W[w].orphan
    PROVE  /\ V \in [Workers -> Process] /\ AliveIn(V) = AliveIn(W) /\ OrphansIn(V) = OrphansIn(W)
           /\ AtWorkIn(V) = IF p.phase \in {"loop", "idle", "busy"} THEN AtWorkIn(W) \cup {w} ELSE AtWorkIn(W) \ {w}
  BY DEF AliveIn, OrphansIn, AtWorkIn

LEMMA OffIs == Off \in Process /\ Off.phase = "off" /\ Off.orphan = FALSE
  BY DEF Off, Process

LEMMA HandEnds ==
    ASSUME NEW W \in [Workers -> Process], NEW w \in Workers, NEW V, V = [W EXCEPT ![w] = Off]
    PROVE  /\ V \in [Workers -> Process] /\ AliveIn(V) = AliveIn(W) \ {w} /\ OrphansIn(V) = OrphansIn(W) \ {w}
           /\ AtWorkIn(V) = AtWorkIn(W) \ {w}
<1> PICK p \in Process : p = Off /\ p.phase = "off" /\ p.orphan = FALSE
  BY OffIs
<1>1. V \in [Workers -> Process] /\ V[w] = p /\ \A v \in Workers \ {w} : V[v] = W[v]
  OBVIOUS
<1> QED
  BY <1>1 DEF AliveIn, OrphansIn, AtWorkIn

(* Every running row has nobody or a process of its own.                   *)
LEMMA FewRunning ==
    ASSUME NEW n \in Nat, NEW t \in Seq(Row), NEW W \in [Workers -> Process],
           OneRowEach(t), OwnersBusy(t, W), FewHands(t, W, n), NEW S \in SUBSET DOMAIN t, \A i \in S : t[i].state = "running"
    PROVE  IsFiniteSet(S) /\ Cardinality(S) <= 1 + n
<1> DEFINE A == S \cap AdriftIn(t)
           B == {i \in S : t[i].by # {}}
           f == [i \in B |-> CHOOSE w \in t[i].by : TRUE]
<1>1. \A i \in DOMAIN t : t[i].by \subseteq Workers
  BY TableSets DEF Row
<1>2. f \in [B -> AtWorkIn(W)] /\ \A i \in B : f[i] \in t[i].by
  <2> SUFFICES ASSUME NEW i \in B PROVE f[i] \in t[i].by /\ f[i] \in AtWorkIn(W)
    OBVIOUS
  <2>1. f[i] \in t[i].by
    OBVIOUS
  <2> QED
    BY <1>1, <2>1 DEF OwnersBusy, AtWorkIn
<1>3. \A i \in B, j \in B : f[i] = f[j] => i = j
  BY <1>2 DEF OneRowEach
<1>4. f \in Injection(B, AtWorkIn(W))
  BY <1>2, <1>3 DEF Injection, IsInjective
<1>5. IsFiniteSet(B) /\ Cardinality(B) <= Cardinality(AtWorkIn(W))
  BY <1>4, HandSets, FS_Injection
<1>6. IsFiniteSet(A) /\ Cardinality(A) <= Cardinality(AdriftIn(t))
  BY TableSets, FS_Subset
<1>7. S = A \cup B
  BY DEF AdriftIn
<1> HIDE DEF A, B
<1>8. IsFiniteSet(A \cup B) /\ Cardinality(A \cup B) <= Cardinality(A) + Cardinality(B)
  <2>1. IsFiniteSet(A \cup B) /\ Cardinality(A \cup B) = Cardinality(A) + Cardinality(B) - Cardinality(A \cap B)
    BY <1>5, <1>6, FS_Union
  <2>2. IsFiniteSet(A \cap B)
    BY <1>5, FS_Subset
  <2>3. Cardinality(A) \in Nat /\ Cardinality(B) \in Nat /\ Cardinality(A \cap B) \in Nat
    BY <1>5, <1>6, <2>2, FS_CardinalityType
  <2> QED
    BY <2>1, <2>3
<1>9. Cardinality(A) \in Nat /\ Cardinality(B) \in Nat /\ Cardinality(A \cup B) \in Nat
      /\ Cardinality(AdriftIn(t)) \in Nat /\ Cardinality(AtWorkIn(W)) \in Nat
  BY <1>5, <1>6, <1>8, FS_CardinalityType, TableSets, HandSets
<1>10. Cardinality(AdriftIn(t)) + Cardinality(AtWorkIn(W)) <= 1 + n
  BY DEF FewHands
<1>11. Cardinality(A \cup B) <= 1 + n
  BY <1>5, <1>6, <1>8, <1>9, <1>10
<1> QED
  BY <1>7, <1>8, <1>11

(* The rows asked for come last, one of a kind.                            *)
Asked(t, s, c, new) ==
    /\ DOMAIN s = 1..(Len(t) + c)
    /\ \A i \in DOMAIN t : s[i].kind = t[i].kind /\ s[i].state = t[i].state /\ s[i].by = t[i].by /\ s[i].beaten = t[i].beaten
    /\ \A m \in 1..c : /\ s[Len(t) + m].kind = new[m] /\ s[Len(t) + m].state = "queued"
                       /\ s[Len(t) + m].by = {} /\ ~s[Len(t) + m].beaten
                       /\ \A i \in DOMAIN t : t[i].kind = new[m] => t[i].state = "running"

LEMMA RowsAsked ==
    ASSUME NEW n \in Nat, NEW t \in Seq(Row), NEW W \in [Workers -> Process], NEW s \in Seq(Row), NEW c \in Nat,
           NEW new \in [1..c -> Kinds], \A m \in 1..c, k \in 1..c : m < k => new[m] < new[k],
           RowsHold(t, n), OwnersBusy(t, W), FewHands(t, W, n),
           Asked(t, s, c, new)
    PROVE  RowsHold(s, n) /\ OwnersBusy(s, W) /\ FewHands(s, W, n)
<1> USE DEF Asked
<1>1. DOMAIN t = 1..Len(t) /\ Len(t) \in Nat
  BY TableSets
<1>2. DOMAIN t \subseteq DOMAIN s /\ \A i \in DOMAIN s : i \in DOMAIN t \/ (i - Len(t) \in 1..c /\ i = Len(t) + (i - Len(t)))
  BY <1>1
<1>3. \A i \in DOMAIN s : i \notin DOMAIN t => s[i].state = "queued" /\ s[i].by = {} /\ ~s[i].beaten
  BY <1>2
<1>4. AdriftIn(s) = AdriftIn(t)
  BY <1>2, <1>3 DEF AdriftIn
<1>5. OneRowEach(s) /\ InTurn(s, n) /\ OwnersBusy(s, W)
  <2>1. \A i \in DOMAIN s : s[i].by # {} => i \in DOMAIN t /\ s[i].by = t[i].by
    BY <1>3
  <2>2. \A i \in DOMAIN s : s[i].beaten => i \in DOMAIN t /\ t[i].beaten
    BY <1>3
  <2>3. OneRowEach(s)
    BY <2>1 DEF RowsHold, OneRowEach
  <2>4. InTurn(s, n)
    <3> SUFFICES ASSUME n = 0, NEW i \in DOMAIN s PROVE ~s[i].beaten /\ (s[i].by # {} => i = 1)
      BY DEF InTurn
    <3>1. \A j \in DOMAIN t : ~t[j].beaten /\ (t[j].by # {} => j = 1)
      BY DEF RowsHold, InTurn
    <3> QED
      BY <2>1, <2>2, <3>1
  <2>5. OwnersBusy(s, W)
    <3> SUFFICES ASSUME NEW i \in DOMAIN s, NEW v \in s[i].by PROVE W[v].phase = "busy"
      BY DEF OwnersBusy
    <3>1. i \in DOMAIN t /\ v \in t[i].by
      BY <2>1
    <3> QED
      BY <3>1 DEF OwnersBusy
  <2> QED
    BY <2>3, <2>4, <2>5
<1>6. FewOfAKind(s, n)
  <2> SUFFICES ASSUME NEW k \in Kinds PROVE Cardinality(OfKindIn(s, k)) <= 2 + n
    BY DEF FewOfAKind
  <2>1. Cardinality(OfKindIn(t, k)) <= 2 + n /\ IsFiniteSet(OfKindIn(t, k)) /\ Cardinality(OfKindIn(t, k)) \in Nat
    BY TableSets DEF RowsHold, FewOfAKind
  <2>2. CASE \E m \in 1..c : new[m] = k
    <3>1. PICK m \in 1..c : new[m] = k
      BY <2>2
    <3>2. \A j \in 1..c : new[j] = k => j = m
      <4> SUFFICES ASSUME NEW j \in 1..c, new[j] = k PROVE j = m
        OBVIOUS
      <4>1. k \in Nat /\ ~(k < k)
        BY KindsAssumption
      <4>2. ~(j < m) /\ ~(m < j)
        BY <3>1, <4>1
      <4> QED
        BY <4>2
    <3>3. OfKindIn(s, k) = OfKindIn(t, k) \cup {Len(t) + m}
      <4>1. ASSUME NEW i \in OfKindIn(s, k) PROVE i \in OfKindIn(t, k) \/ i = Len(t) + m
        <5>1. i \in DOMAIN s /\ s[i].kind = k
          BY DEF OfKindIn
        <5>2. CASE i \in DOMAIN t
          BY <5>1, <5>2 DEF OfKindIn
        <5>3. CASE i - Len(t) \in 1..c /\ i = Len(t) + (i - Len(t))
          <6>1. PICK j \in 1..c : i = Len(t) + j
            BY <5>3
          <6>2. new[j] = k
            BY <5>1, <6>1
          <6> QED
            BY <3>2, <6>1, <6>2
        <5> QED
          BY <1>2, <5>1, <5>2, <5>3
      <4>2. OfKindIn(t, k) \subseteq OfKindIn(s, k)
        BY <1>2 DEF OfKindIn
      <4>3. Len(t) + m \in OfKindIn(s, k)
        BY <1>1, <3>1 DEF OfKindIn
      <4> QED
        BY <4>1, <4>2, <4>3
    <3>4. Cardinality(OfKindIn(s, k)) <= Cardinality(OfKindIn(t, k)) + 1
      <4>1. PICK T : T = OfKindIn(t, k)
        OBVIOUS
      <4>2. PICK x : x = Len(t) + m
        OBVIOUS
      <4>3. IsFiniteSet(T) /\ Cardinality(T) \in Nat
        BY <2>1, <4>1
      <4>4. Cardinality(T \cup {x}) = IF x \in T THEN Cardinality(T) ELSE Cardinality(T) + 1
        BY <4>3, FS_AddElement
      <4>5. Cardinality(T \cup {x}) <= Cardinality(T) + 1
        BY <4>3, <4>4
      <4> QED
        BY <3>3, <4>1, <4>2, <4>5
    <3>5. Cardinality(OfKindIn(t, k)) <= 1 + n
      <4>1. OfKindIn(t, k) \in SUBSET DOMAIN t /\ \A i \in OfKindIn(t, k) : t[i].state = "running"
        BY <3>1 DEF OfKindIn
      <4> QED
        BY <4>1, FewRunning DEF RowsHold
    <3>6. Cardinality(OfKindIn(s, k)) \in Nat
      BY TableSets
    <3> QED
      BY <2>1, <3>4, <3>5, <3>6
  <2>3. CASE ~\E m \in 1..c : new[m] = k
    <3>1. OfKindIn(s, k) = OfKindIn(t, k)
      BY <1>2, <2>3 DEF OfKindIn
    <3> QED
      BY <2>1, <3>1
  <2> QED
    BY <2>2, <2>3
<1> QED
  BY <1>4, <1>5, <1>6 DEF RowsHold, FewHands

LEMMA TableOf ==
    ASSUME NEW t \in Seq(Row), NEW s, s = [i \in DOMAIN t |-> s[i]], \A i \in DOMAIN t : s[i] \in Row
    PROVE  s \in Seq(Row) /\ DOMAIN s = DOMAIN t
<1>1. DOMAIN t = 1..Len(t) /\ Len(t) \in Nat
  BY TableSets
<1>2. s \in [1..Len(t) -> Row]
  BY <1>1
<1> QED
  BY <1>1, <1>2, SeqDef

QueuedAgain(t, S) == [i \in DOMAIN t |-> IF i \in S THEN [t[i] EXCEPT !.state = "queued", !.old = FALSE] ELSE t[i]]
LeftBy(t, w)      == [i \in DOMAIN t |-> [t[i] EXCEPT !.by = t[i].by \ {w}]]

LEMMA RowsQueued ==
    ASSUME NEW t \in Seq(Row), NEW S, NEW s, s = QueuedAgain(t, S)
    PROVE  /\ s \in Seq(Row) /\ DOMAIN s = DOMAIN t
           /\ \A i \in DOMAIN t : /\ s[i].kind = t[i].kind /\ s[i].by = t[i].by /\ s[i].beaten = t[i].beaten
                                  /\ (i \in S => s[i].state = "queued") /\ (i \notin S => s[i].state = t[i].state)
<1> USE DEF QueuedAgain
<1>1. ASSUME NEW i \in DOMAIN t
      PROVE  s[i] \in Row /\ s[i].kind = t[i].kind /\ s[i].by = t[i].by /\ s[i].beaten = t[i].beaten
             /\ (i \in S => s[i].state = "queued") /\ (i \notin S => s[i].state = t[i].state)
  <2>1. PICK x \in Row : x = t[i]
    BY TableSets
  <2>2. CASE i \in S
    <3>1. s[i] = [x EXCEPT !.state = "queued", !.old = FALSE]
      BY <2>1, <2>2
    <3> QED
      BY <2>1, <2>2, <3>1 DEF Row
  <2>3. CASE i \notin S
    BY <2>1, <2>3
  <2> QED
    BY <2>2, <2>3
<1>2. s \in Seq(Row) /\ DOMAIN s = DOMAIN t
  BY <1>1, TableOf
<1> QED
  BY <1>1, <1>2

LEMMA RowsFreed ==
    ASSUME NEW t \in Seq(Row), NEW w, NEW s, s = LeftBy(t, w)
    PROVE  /\ s \in Seq(Row) /\ DOMAIN s = DOMAIN t
           /\ \A i \in DOMAIN t : /\ s[i].kind = t[i].kind /\ s[i].by = t[i].by \ {w} /\ s[i].beaten = t[i].beaten
                                  /\ s[i].state = t[i].state
<1> USE DEF LeftBy
<1>1. ASSUME NEW i \in DOMAIN t
      PROVE  s[i] \in Row /\ s[i].kind = t[i].kind /\ s[i].by = t[i].by \ {w} /\ s[i].beaten = t[i].beaten
             /\ s[i].state = t[i].state
  <2>1. PICK x \in Row : x = t[i]
    BY TableSets
  <2>2. s[i] = [x EXCEPT !.by = x.by \ {w}]
    BY <2>1
  <2> QED
    BY <2>1, <2>2 DEF Row
<1>2. s \in Seq(Row) /\ DOMAIN s = DOMAIN t
  <2>1. DOMAIN s = 1..Len(t) /\ DOMAIN t = 1..Len(t) /\ Len(t) \in Nat
    BY TableSets
  <2>2. s \in [1..Len(t) -> Row]
    BY <1>1, <2>1
  <2> QED
    BY <2>1, <2>2, SeqDef
<1> QED
  BY <1>1, <1>2

LEMMA JobParts ==
    ASSUME JobInv
    PROVE  /\ rows \in Seq(Row) /\ workers \in [Workers -> Process] /\ faults \in Nat /\ faults \in 0..MaxFaults
           /\ cache \in [Kinds -> Leagues \cup {None}]
           /\ backend \in {"down", "new", "up"} /\ screen \in Leagues /\ mishaps \in 0..MaxMishaps /\ mishaps \in Nat
           /\ RowsHold(rows, faults) /\ OwnersBusy(rows, workers) /\ FewHands(rows, workers, faults)
  BY FaultsAssumption DEF JobInv, JobsTypeOK

LEMMA FaultIs == ASSUME JobInv, Fault PROVE faults' = faults + 1 /\ faults' \in 0..MaxFaults
  BY JobParts, FaultsAssumption DEF Fault

LEMMA JobsStart == JobsInit => JobInv
<1> SUFFICES ASSUME JobsInit PROVE JobInv
  OBVIOUS
<1>1. /\ rows = <<>> /\ cache = [k \in Kinds |-> None] /\ workers = [w \in Workers |-> Off] /\ backend = "new"
      /\ screen \in Leagues /\ mishaps = 0 /\ faults = 0
  BY DEF JobsInit
<1>2. JobsTypeOK
  BY <1>1, OffIs, FaultsAssumption DEF JobsTypeOK
<1>3. DOMAIN rows = {}
  BY <1>1
<1>4. \A w \in Workers : workers[w].phase = "off"
  BY <1>1, OffIs
<1>5. AliveIn(workers) = {} /\ OrphansIn(workers) = {} /\ AtWorkIn(workers) = {} /\ AdriftIn(rows) = {}
      /\ \A k : OfKindIn(rows, k) = {}
  BY <1>3, <1>4 DEF AliveIn, OrphansIn, AtWorkIn, AdriftIn, OfKindIn
<1>6. Cardinality({}) = 0
  BY FS_EmptySet
<1>7. FewOfAKind(rows, 0) /\ FewHands(rows, workers, 0)
  BY <1>5, <1>6 DEF FewOfAKind, FewHands
<1>8. OneRowEach(rows) /\ InTurn(rows, 0) /\ OwnersBusy(rows, workers)
  BY <1>3 DEF OneRowEach, InTurn, OwnersBusy
<1> QED
  BY <1>1, <1>2, <1>7, <1>8 DEF JobInv, RowsHold

LEMMA JobsAsked == ASSUME JobInv, AskJobs PROVE JobInv'
<1>1. PICK t : t = rows
  OBVIOUS
<1>2. /\ t \in Seq(Row) /\ workers \in [Workers -> Process] /\ faults \in Nat /\ screen \in Leagues
      /\ RowsHold(t, faults) /\ OwnersBusy(t, workers) /\ FewHands(t, workers, faults)
  BY <1>1, JobParts
<1>3. PICK c : c = Cardinality(Wanted)
  OBVIOUS
<1>4. c \in Nat
  <2>1. Wanted \in SUBSET Kinds
    BY DEF Wanted
  <2> QED
    BY <1>3, <2>1, KindsAssumption, FS_Subset, FS_CardinalityType
<1>5. PICK new \in [1..c -> Wanted] :
         /\ \A m \in DOMAIN new, n \in DOMAIN new : m < n => new[m] < new[n]
         /\ rows' = [i \in DOMAIN rows |-> [rows[i] EXCEPT !.old = rows[i].old \/ (backend = "up" /\ i \in Running)]]
                    \o [n \in DOMAIN new |-> Enqueued(new[n])]
  BY <1>3 DEF AskJobs
<1>6. PICK a : a = [i \in DOMAIN t |-> [t[i] EXCEPT !.old = t[i].old \/ (backend = "up" /\ i \in Running)]]
  OBVIOUS
<1>7. PICK b : b = [n \in 1..c |-> Enqueued(new[n])]
  OBVIOUS
<1>8. rows' = a \o b
  BY <1>1, <1>5, <1>6, <1>7
<1>9. /\ a \in Seq(Row) /\ DOMAIN a = DOMAIN t
      /\ \A i \in DOMAIN t : a[i].kind = t[i].kind /\ a[i].by = t[i].by /\ a[i].beaten = t[i].beaten /\ a[i].state = t[i].state
  <2>1. ASSUME NEW i \in DOMAIN t, NEW x, x = t[i], NEW y, y = a[i]
        PROVE  y \in Row /\ y.kind = x.kind /\ y.by = x.by /\ y.beaten = x.beaten /\ y.state = x.state
    <3>1. x \in Row
      BY <1>2, <2>1, TableSets
    <3>2. PICK o \in BOOLEAN : o = (x.old \/ (backend = "up" /\ i \in Running))
      OBVIOUS
    <3>3. y = [x EXCEPT !.old = o]
      BY <1>6, <2>1, <3>2
    <3> QED
      BY <3>1, <3>3 DEF Row
  <2>2. a \in Seq(Row) /\ DOMAIN a = DOMAIN t
    BY <1>2, <1>6, <2>1, TableOf
  <2> QED
    BY <2>1, <2>2
<1>10. /\ b \in Seq(Row) /\ Len(b) = c
       /\ \A m \in 1..c : b[m].kind = new[m] /\ b[m].state = "queued" /\ b[m].by = {} /\ b[m].beaten = FALSE
  <2>1. \A m \in 1..c : new[m] \in Kinds
    BY <1>5 DEF Wanted
  <2>2. \A m \in 1..c : b[m] \in Row /\ b[m].kind = new[m] /\ b[m].state = "queued" /\ b[m].by = {} /\ b[m].beaten = FALSE
    BY <1>2, <1>7, <2>1 DEF Enqueued, Row
  <2>3. b \in [1..c -> Row]
    BY <1>7, <2>2
  <2>4. b \in Seq(Row)
    BY <1>4, <2>3, SeqDef
  <2> QED
    BY <1>4, <1>7, <2>2, <2>4, LenProperties
<1>11. PICK s : s = rows'
  OBVIOUS
<1>12. Len(a) = Len(t) /\ Len(t) \in Nat /\ DOMAIN t = 1..Len(t)
  BY <1>2, <1>9, LenProperties
<1>13. /\ s \in Seq(Row) /\ Len(s) = Len(t) + c
       /\ \A i \in 1..(Len(t) + c) : s[i] = IF i <= Len(t) THEN a[i] ELSE b[i - Len(t)]
  BY <1>8, <1>9, <1>10, <1>11, <1>12, ConcatProperties
<1>14. DOMAIN s = 1..(Len(t) + c)
  BY <1>13, LenProperties
<1>15. \A i \in DOMAIN t : s[i] = a[i]
  BY <1>4, <1>12, <1>13
<1>16. \A m \in 1..c : s[Len(t) + m] = b[m]
  BY <1>4, <1>12, <1>13
<1>17. \A m \in 1..c : \A i \in DOMAIN t : t[i].kind = new[m] => t[i].state = "running"
  <2> SUFFICES ASSUME NEW m \in 1..c, NEW i \in DOMAIN t, t[i].kind = new[m] PROVE t[i].state = "running"
    OBVIOUS
  <2>1. OfKind(new[m]) \cap Queued = {}
    BY <1>5 DEF Wanted
  <2>2. t[i].state # "queued"
    BY <1>1, <2>1 DEF OfKind, Queued
  <2>3. t[i] \in Row
    BY <1>2, TableSets
  <2> QED
    BY <2>2, <2>3 DEF Row
<1>18. new \in [1..c -> Kinds] /\ \A m \in 1..c, k \in 1..c : m < k => new[m] < new[k]
  BY <1>5 DEF Wanted
<1>19. RowsHold(s, faults) /\ OwnersBusy(s, workers) /\ FewHands(s, workers, faults)
  <2>1. \A i \in DOMAIN t : s[i].kind = t[i].kind /\ s[i].state = t[i].state /\ s[i].by = t[i].by /\ s[i].beaten = t[i].beaten
    BY <1>9, <1>15
  <2>2. \A m \in 1..c : /\ s[Len(t) + m].kind = new[m] /\ s[Len(t) + m].state = "queued"
                        /\ s[Len(t) + m].by = {} /\ ~s[Len(t) + m].beaten
                        /\ \A i \in DOMAIN t : t[i].kind = new[m] => t[i].state = "running"
    BY <1>10, <1>16, <1>17
  <2>3. PICK n \in Nat : n = faults
    BY <1>2
  <2>4. PICK W \in [Workers -> Process] : W = workers
    BY <1>2
  <2>5. RowsHold(t, n) /\ OwnersBusy(t, W) /\ FewHands(t, W, n)
    BY <1>2, <2>3, <2>4
  <2>6. Asked(t, s, c, new)
    BY <1>14, <2>1, <2>2 DEF Asked
  <2>7. RowsHold(s, n) /\ OwnersBusy(s, W) /\ FewHands(s, W, n)
    BY <1>2, <1>4, <1>13, <1>18, <2>5, <2>6, RowsAsked
  <2> QED
    BY <2>3, <2>4, <2>7
<1>20. UNCHANGED <<cache, workers, screen, faults>> /\ backend' = "up" /\ mishaps' \in 0..MaxMishaps
  BY JobParts, FaultsAssumption DEF AskJobs
<1>21. JobsTypeOK'
  BY <1>11, <1>13, <1>20, JobParts DEF JobsTypeOK
<1> QED
  BY <1>11, <1>19, <1>20, <1>21 DEF JobInv

(* What a step must show.                                                  *)
LEMMA JobKept ==
    ASSUME NEW t \in Seq(Row), NEW W \in [Workers -> Process], NEW n \in 0..MaxFaults,
           rows' = t, workers' = W, faults' = n, cache' \in [Kinds -> Leagues \cup {None}],
           backend' \in {"down", "new", "up"}, screen' \in Leagues, mishaps' \in 0..MaxMishaps,
           RowsHold(t, n), OwnersBusy(t, W), FewHands(t, W, n)
    PROVE  JobInv'
  BY DEF JobInv, JobsTypeOK

LEMMA HandsStill ==
    ASSUME NEW n \in Nat, NEW t \in Seq(Row), NEW s \in Seq(Row), NEW W, NEW V, FewHands(t, W, n),
           AliveIn(V) = AliveIn(W), OrphansIn(V) = OrphansIn(W), AtWorkIn(V) = AtWorkIn(W),
           Cardinality(AdriftIn(s)) <= Cardinality(AdriftIn(t))
    PROVE  FewHands(s, V, n)
<1>1. Cardinality(AdriftIn(s)) \in Nat /\ Cardinality(AdriftIn(t)) \in Nat /\ Cardinality(AtWorkIn(W)) \in Nat
  BY TableSets, HandSets
<1> QED
  BY <1>1 DEF FewHands

LEMMA OneHandMore ==
    ASSUME NEW n \in Nat, NEW t \in Seq(Row), NEW s \in Seq(Row), NEW W, NEW V, FewHands(t, W, n),
           AliveIn(V) = AliveIn(W), OrphansIn(V) = OrphansIn(W),
           Cardinality(AdriftIn(s)) + Cardinality(AtWorkIn(V)) <= Cardinality(AdriftIn(t)) + Cardinality(AtWorkIn(W)) + 1
    PROVE  FewHands(s, V, n + 1)
<1>1. /\ Cardinality(AdriftIn(s)) \in Nat /\ Cardinality(AdriftIn(t)) \in Nat
      /\ Cardinality(AtWorkIn(W)) \in Nat /\ Cardinality(AtWorkIn(V)) \in Nat
      /\ Cardinality(AliveIn(W)) \in Nat /\ Cardinality(OrphansIn(W)) \in Nat
  BY TableSets, HandSets
<1> QED
  BY <1>1 DEF FewHands

LEMMA OneMember == ASSUME NEW S, IsFiniteSet(S), NEW x PROVE IsFiniteSet(S \cup {x}) /\ Cardinality(S \cup {x}) <= Cardinality(S) + 1
<1>1. IsFiniteSet(S \cup {x}) /\ Cardinality(S \cup {x}) = IF x \in S THEN Cardinality(S) ELSE Cardinality(S) + 1
  BY FS_AddElement
<1>2. Cardinality(S) \in Nat
  BY FS_CardinalityType
<1> QED
  BY <1>1, <1>2

LEMMA JobsSpawned == ASSUME JobInv, NEW w \in Workers, Spawn(w) PROVE JobInv'
<1> PICK t \in Seq(Row), W \in [Workers -> Process], n \in Nat :
        t = rows /\ W = workers /\ n = faults /\ n \in 0..MaxFaults /\ RowsHold(t, n) /\ OwnersBusy(t, W) /\ FewHands(t, W, n)
  BY JobParts
<1> PICK p : p = [Off EXCEPT !.phase = "boot", !.fresh = TRUE]
  OBVIOUS
<1>1. p \in Process /\ p.phase = "boot" /\ p.orphan = FALSE
  BY DEF Off, Process
<1> PICK V : V = [W EXCEPT ![w] = p]
  OBVIOUS
<1>2. V \in [Workers -> Process] /\ V[w] = p /\ \A v \in Workers \ {w} : V[v] = W[v]
  BY <1>1
<1>3. W[w].phase = "off" /\ \A v \in Workers : W[v].phase # "off" => W[v].orphan
  BY DEF Spawn
<1>4. AliveIn(V) = AliveIn(W) \cup {w} /\ OrphansIn(V) = OrphansIn(W) /\ AtWorkIn(V) = AtWorkIn(W) /\ AliveIn(W) = OrphansIn(W)
  BY <1>1, <1>2, <1>3 DEF AliveIn, OrphansIn, AtWorkIn
<1>5. Cardinality(AliveIn(V)) <= 1 + n
  <2>1. Cardinality(AliveIn(V)) <= Cardinality(OrphansIn(W)) + 1
    BY <1>4, HandSets, OneMember
  <2>2. Cardinality(OrphansIn(W)) <= n /\ Cardinality(OrphansIn(W)) \in Nat /\ Cardinality(AliveIn(V)) \in Nat
    BY HandSets DEF FewHands
  <2> QED
    BY <2>1, <2>2
<1>6. FewHands(t, V, n)
  BY <1>4, <1>5 DEF FewHands
<1>7. OwnersBusy(t, V)
  <2> SUFFICES ASSUME NEW i \in DOMAIN t, NEW v \in t[i].by PROVE V[v].phase = "busy"
    BY DEF OwnersBusy
  <2>1. W[v].phase = "busy" /\ v \in Workers
    BY TableSets DEF OwnersBusy, Row
  <2> QED
    BY <1>2, <1>3, <2>1
<1>8. rows' = t /\ workers' = V /\ faults' = n /\ UNCHANGED <<cache, backend, screen, mishaps>>
  BY DEF Spawn
<1> QED
  BY <1>2, <1>6, <1>7, <1>8, JobParts, JobKept

(* A process that was not busy is on no row.                               *)
LEMMA NotItsOwn ==
    ASSUME NEW t \in Seq(Row), NEW W \in [Workers -> Process], OwnersBusy(t, W), NEW w \in Workers, W[w].phase # "busy",
           NEW V, \A v \in Workers \ {w} : V[v] = W[v]
    PROVE  (\A i \in DOMAIN t : w \notin t[i].by) /\ OwnersBusy(t, V)
<1>1. \A i \in DOMAIN t : w \notin t[i].by
  BY DEF OwnersBusy
<1>2. \A i \in DOMAIN t : t[i].by \subseteq Workers
  BY TableSets DEF Row
<1> QED
  BY <1>1, <1>2 DEF OwnersBusy

(* Rows that are queued again keep all but their state.                    *)
LEMMA HealedRows ==
    ASSUME NEW n \in Nat, NEW t \in Seq(Row), NEW W, NEW S, NEW s, RowsHold(t, n), OwnersBusy(t, W),
           s = QueuedAgain(t, S)
    PROVE  /\ s \in Seq(Row) /\ RowsHold(s, n) /\ OwnersBusy(s, W)
           /\ AdriftIn(s) = AdriftIn(t) \ S
<1>1. /\ s \in Seq(Row) /\ DOMAIN s = DOMAIN t
      /\ \A i \in DOMAIN t : /\ s[i].kind = t[i].kind /\ s[i].by = t[i].by /\ s[i].beaten = t[i].beaten
                             /\ (i \in S => s[i].state = "queued") /\ (i \notin S => s[i].state = t[i].state)
  BY RowsQueued
<1>2. RowsHold(s, n)
  BY <1>1, RowsKept
<1> QED
  BY <1>1, <1>2 DEF OwnersBusy, AdriftIn

LEMMA JobsBooted == ASSUME JobInv, NEW w \in Workers, Boot(w) PROVE JobInv'
<1> PICK t \in Seq(Row), W \in [Workers -> Process], n \in Nat :
        t = rows /\ W = workers /\ n = faults /\ n \in 0..MaxFaults /\ RowsHold(t, n) /\ OwnersBusy(t, W) /\ FewHands(t, W, n)
  BY JobParts
<1> PICK q \in Process : q = W[w] /\ q.phase = "boot"
  BY DEF Boot
<1> PICK p : p = [q EXCEPT !.phase = "loop"]
  OBVIOUS
<1>1. p \in Process /\ p.phase = "loop" /\ p.orphan = q.orphan
  BY DEF Process
<1> PICK V : V = [W EXCEPT ![w] = p]
  OBVIOUS
<1>2. V \in [Workers -> Process] /\ V[w] = p /\ \A v \in Workers \ {w} : V[v] = W[v]
  BY <1>1
<1>3. AliveIn(V) = AliveIn(W) /\ OrphansIn(V) = OrphansIn(W) /\ AtWorkIn(V) = AtWorkIn(W) \cup {w}
  BY <1>1, <1>2 DEF AliveIn, OrphansIn, AtWorkIn
<1>4. OwnersBusy(t, V)
  BY <1>2, NotItsOwn
<1>5. workers' = V /\ UNCHANGED <<cache, backend, screen, mishaps>>
  BY DEF Boot
<1>6. CASE Requeued(Running) /\ UNCHANGED faults
  <2>1. PICK s : s = QueuedAgain(t, Running)
    OBVIOUS
  <2>2. s \in Seq(Row) /\ RowsHold(s, n) /\ OwnersBusy(s, V) /\ AdriftIn(s) = AdriftIn(t) \ Running
    BY <1>4, <2>1, HealedRows
  <2>3. AdriftIn(s) = {}
    BY <2>2 DEF AdriftIn, Running
  <2>4. AtWorkIn(V) \subseteq AliveIn(W)
    BY <1>3 DEF AtWorkIn, AliveIn
  <2>5. Cardinality(AtWorkIn(V)) <= Cardinality(AliveIn(W))
    BY <2>4, HandSets, FS_Subset
  <2>6. FewHands(s, V, n)
    <3>1. Cardinality(AdriftIn(s)) = 0
      BY <2>3, FS_EmptySet
    <3>2. Cardinality(AtWorkIn(V)) \in Nat /\ Cardinality(AliveIn(W)) \in Nat
      BY HandSets
    <3> QED
      BY <1>3, <2>5, <3>1, <3>2 DEF FewHands
  <2>7. rows' = s /\ faults' = n
    BY <1>6, <2>1 DEF Requeued, QueuedAgain
  <2> QED
    BY <1>2, <1>5, <2>2, <2>6, <2>7, JobParts, JobKept
<1>7. CASE Fault /\ UNCHANGED rows
  <2>1. RowsHold(t, n + 1)
    BY MoreFaults
  <2>2. FewHands(t, V, n + 1)
    <3>1. Cardinality(AtWorkIn(V)) <= Cardinality(AtWorkIn(W)) + 1
      BY <1>3, HandSets, OneMember
    <3>2. Cardinality(AtWorkIn(V)) \in Nat /\ Cardinality(AtWorkIn(W)) \in Nat /\ Cardinality(AdriftIn(t)) \in Nat
      BY HandSets, TableSets
    <3>3. Cardinality(AdriftIn(t)) + Cardinality(AtWorkIn(V)) <= Cardinality(AdriftIn(t)) + Cardinality(AtWorkIn(W)) + 1
      BY <3>1, <3>2
    <3> QED
      BY <1>3, <3>3, OneHandMore
  <2>3. rows' = t /\ faults' = n + 1 /\ n + 1 \in 0..MaxFaults
    BY <1>7, FaultIs
  <2> QED
    BY <1>2, <1>4, <1>5, <2>1, <2>2, <2>3, JobParts, JobKept
<1> QED
  BY <1>6, <1>7 DEF Boot

LEMMA JobsFoundNone == ASSUME JobInv, NEW w \in Workers, FindEmpty(w) PROVE JobInv'
<1> PICK t \in Seq(Row), W \in [Workers -> Process], n \in Nat :
        t = rows /\ W = workers /\ n = faults /\ n \in 0..MaxFaults /\ RowsHold(t, n) /\ OwnersBusy(t, W) /\ FewHands(t, W, n)
  BY JobParts
<1> PICK q \in Process : q = W[w] /\ q.phase = "loop"
  BY DEF FindEmpty
<1> PICK p : p = [q EXCEPT !.phase = "idle"]
  OBVIOUS
<1>1. p \in Process /\ p.phase = "idle" /\ p.orphan = q.orphan
  BY DEF Process
<1> PICK V : V = [W EXCEPT ![w] = p]
  OBVIOUS
<1>2. V \in [Workers -> Process] /\ V[w] = p /\ \A v \in Workers \ {w} : V[v] = W[v]
  BY <1>1
<1>3. AliveIn(V) = AliveIn(W) /\ OrphansIn(V) = OrphansIn(W) /\ AtWorkIn(V) = AtWorkIn(W)
  BY <1>1, <1>2 DEF AliveIn, OrphansIn, AtWorkIn
<1>4. OwnersBusy(t, V) /\ FewHands(t, V, n)
  BY <1>2, <1>3, NotItsOwn DEF FewHands
<1>5. workers' = V /\ UNCHANGED <<rows, cache, backend, screen, mishaps, faults>>
  BY DEF FindEmpty
<1> QED
  BY <1>2, <1>4, <1>5, JobParts, JobKept

LEMMA JobsIdled == ASSUME JobInv, NEW w \in Workers, IdlePass(w) PROVE JobInv'
<1> PICK t \in Seq(Row), W \in [Workers -> Process], n \in Nat :
        t = rows /\ W = workers /\ n = faults /\ n \in 0..MaxFaults /\ RowsHold(t, n) /\ OwnersBusy(t, W) /\ FewHands(t, W, n)
  BY JobParts
<1> PICK q \in Process : q = W[w] /\ q.phase = "idle"
  BY DEF IdlePass
<1> PICK p : p = [q EXCEPT !.phase = "loop", !.fresh = FALSE]
  OBVIOUS
<1>1. p \in Process /\ p.phase = "loop" /\ p.orphan = q.orphan
  BY DEF Process
<1> PICK V : V = [W EXCEPT ![w] = p]
  OBVIOUS
<1>2. V \in [Workers -> Process] /\ V[w] = p /\ \A v \in Workers \ {w} : V[v] = W[v]
  BY <1>1
<1>3. AliveIn(V) = AliveIn(W) /\ OrphansIn(V) = OrphansIn(W) /\ AtWorkIn(V) = AtWorkIn(W)
  BY <1>1, <1>2 DEF AliveIn, OrphansIn, AtWorkIn
<1>4. OwnersBusy(t, V) /\ FewHands(t, V, n)
  BY <1>2, <1>3, NotItsOwn DEF FewHands
<1>5. workers' = V /\ UNCHANGED <<cache, backend, screen, mishaps>>
  BY DEF IdlePass
<1> PICK S : S = {i \in Running : rows[i].old}
  OBVIOUS
<1>6. CASE Requeued(S) /\ UNCHANGED faults
  <2>1. PICK s : s = QueuedAgain(t, S)
    OBVIOUS
  <2>2. \A T, u : u = QueuedAgain(t, T) => u \in Seq(Row) /\ RowsHold(u, n) /\ OwnersBusy(u, V) /\ AdriftIn(u) = AdriftIn(t) \ T
    BY <1>4, HealedRows
  <2>3. s \in Seq(Row) /\ RowsHold(s, n) /\ OwnersBusy(s, V) /\ AdriftIn(s) = AdriftIn(t) \ S
    BY <2>1, <2>2
  <2>4. Cardinality(AdriftIn(s)) <= Cardinality(AdriftIn(t))
    BY <2>3, TableSets, FS_Subset
  <2>5. FewHands(s, V, n)
    BY <1>3, <2>3, <2>4, HandsStill
  <2>6. rows' = s /\ faults' = n
    BY <1>6, <2>1 DEF Requeued, QueuedAgain
  <2> QED
    BY <1>2, <1>5, <2>3, <2>5, <2>6, JobParts, JobKept
<1>7. CASE Fault /\ UNCHANGED rows
  <2>1. RowsHold(t, n + 1)
    BY MoreFaults
  <2>2. FewHands(t, V, n + 1)
    <3>1. Cardinality(AtWorkIn(W)) \in Nat /\ Cardinality(AdriftIn(t)) \in Nat
      BY HandSets, TableSets
    <3>2. Cardinality(AdriftIn(t)) + Cardinality(AtWorkIn(V)) <= Cardinality(AdriftIn(t)) + Cardinality(AtWorkIn(W)) + 1
      BY <1>3, <3>1
    <3> QED
      BY <1>3, <3>2, OneHandMore
  <2>3. rows' = t /\ faults' = n + 1 /\ n + 1 \in 0..MaxFaults
    BY <1>7, FaultIs
  <2> QED
    BY <1>2, <1>4, <1>5, <2>1, <2>2, <2>3, JobParts, JobKept
<1> QED
  BY <1>6, <1>7 DEF IdlePass

(* The row that was claimed.                                               *)
Claimed(t, i, w) == [t EXCEPT ![i].state = "running", ![i].old = FALSE, ![i].by = t[i].by \cup {w}]

LEMMA ClaimedRows ==
    ASSUME NEW t \in Seq(Row), NEW i \in DOMAIN t, NEW w \in Workers, NEW s, s = Claimed(t, i, w)
    PROVE  /\ s \in Seq(Row) /\ DOMAIN s = DOMAIN t
           /\ s[i].kind = t[i].kind /\ s[i].by = t[i].by \cup {w} /\ s[i].beaten = t[i].beaten
           /\ \A j \in DOMAIN t \ {i} : s[j] = t[j]
<1> PICK x \in Row : x = t[i]
  BY TableSets
<1> PICK y : y = [x EXCEPT !.state = "running", !.old = FALSE, !.by = x.by \cup {w}]
  OBVIOUS
<1>1. y \in Row /\ y.kind = x.kind /\ y.by = x.by \cup {w} /\ y.beaten = x.beaten
  BY DEF Row
<1>2. DOMAIN t = 1..Len(t) /\ Len(t) \in Nat /\ \A j \in DOMAIN t : t[j] \in Row
  BY TableSets
<1>3. s = [t EXCEPT ![i] = y]
  BY DEF Claimed
<1>4. DOMAIN s = DOMAIN t /\ s[i] = y /\ \A j \in DOMAIN t \ {i} : s[j] = t[j]
  BY <1>3
<1>5. s \in [1..Len(t) -> Row]
  BY <1>1, <1>2, <1>3
<1>6. s \in Seq(Row)
  BY <1>2, <1>5, SeqDef
<1> QED
  BY <1>1, <1>4, <1>6

(* Without a fault nothing runs while a process asks for work.             *)
LEMMA NothingRuns ==
    ASSUME NEW t \in Seq(Row), NEW W \in [Workers -> Process], OwnersBusy(t, W), FewHands(t, W, 0),
           NEW w \in Workers, W[w].phase = "loop", NEW j \in DOMAIN t
    PROVE  t[j].state = "queued" /\ t[j].by = {}
<1>1. IsFiniteSet(AtWorkIn(W)) /\ w \in AtWorkIn(W)
  BY HandSets DEF AtWorkIn
<1>2. Cardinality(AtWorkIn(W)) \in Nat /\ Cardinality(AtWorkIn(W) \ {w}) = Cardinality(AtWorkIn(W)) - 1
      /\ IsFiniteSet(AtWorkIn(W) \ {w})
  BY <1>1, HandSets, FS_RemoveElement
<1>3. Cardinality(AtWorkIn(W) \ {w}) \in Nat /\ Cardinality(AdriftIn(t)) \in Nat
  BY <1>2, FS_CardinalityType, TableSets
<1>4. Cardinality(AdriftIn(t)) + Cardinality(AtWorkIn(W)) <= 1
  BY DEF FewHands
<1>5. Cardinality(AtWorkIn(W) \ {w}) = 0 /\ Cardinality(AdriftIn(t)) = 0
  BY <1>2, <1>3, <1>4
<1>6. AtWorkIn(W) \ {w} = {} /\ AdriftIn(t) = {}
  BY <1>2, <1>5, FS_EmptySet, TableSets
<1>7. t[j] \in Row
  BY TableSets
<1>8. t[j].by = {}
  <2> SUFFICES ASSUME NEW v \in t[j].by PROVE FALSE
    OBVIOUS
  <2>1. v \in Workers /\ W[v].phase = "busy"
    BY <1>7 DEF OwnersBusy, Row
  <2>2. v \in AtWorkIn(W) \ {w}
    BY <2>1 DEF AtWorkIn
  <2> QED
    BY <1>6, <2>2
<1> QED
  BY <1>6, <1>7, <1>8 DEF AdriftIn, Row

LEMMA JobsClaimed == ASSUME JobInv, NEW w \in Workers, Claim(w) PROVE JobInv'
<1> PICK t \in Seq(Row), W \in [Workers -> Process], n \in Nat :
        t = rows /\ W = workers /\ n = faults /\ n \in 0..MaxFaults /\ RowsHold(t, n) /\ OwnersBusy(t, W) /\ FewHands(t, W, n)
  BY JobParts
<1> PICK q \in Process : q = W[w] /\ q.phase = "loop"
  BY DEF Claim
<1>1. PICK i \in DOMAIN t :
         /\ Oldest(i)
         /\ rows' = Claimed(t, i, w)
         /\ workers' = [W EXCEPT ![w].phase = "busy", ![w].kind = t[i].kind, ![w].league = t[i].league]
  BY DEF Claim, Claimed
<1> PICK x \in Row : x = t[i]
  BY TableSets
<1> PICK p : p = [q EXCEPT !.phase = "busy", !.kind = x.kind, !.league = x.league]
  OBVIOUS
<1>2. p \in Process /\ p.phase = "busy" /\ p.orphan = q.orphan
  BY DEF Process, Row
<1> PICK V : V = [W EXCEPT ![w] = p]
  OBVIOUS
<1>3. V \in [Workers -> Process] /\ V[w] = p /\ \A v \in Workers \ {w} : V[v] = W[v]
  BY <1>2
<1>4. AliveIn(V) = AliveIn(W) /\ OrphansIn(V) = OrphansIn(W) /\ AtWorkIn(V) = AtWorkIn(W)
  BY <1>2, <1>3 DEF AliveIn, OrphansIn, AtWorkIn
<1> PICK s : s = Claimed(t, i, w)
  OBVIOUS
<1>5. /\ s \in Seq(Row) /\ DOMAIN s = DOMAIN t
      /\ s[i].kind = t[i].kind /\ s[i].by = t[i].by \cup {w} /\ s[i].beaten = t[i].beaten
      /\ \A j \in DOMAIN t \ {i} : s[j] = t[j]
  BY ClaimedRows
<1>6. (\A j \in DOMAIN t : w \notin t[j].by) /\ OwnersBusy(t, V)
  BY <1>3, NotItsOwn
<1>7. OneRowEach(s)
  <2> SUFFICES ASSUME NEW j \in DOMAIN s, NEW k \in DOMAIN s, NEW v \in s[j].by \cap s[k].by PROVE j = k
    BY DEF OneRowEach
  <2>1. CASE v = w
    BY <1>5, <1>6, <2>1
  <2>2. CASE v # w
    <3>1. v \in t[j].by /\ v \in t[k].by
      BY <1>5, <2>2
    <3> QED
      BY <1>5, <3>1 DEF RowsHold, OneRowEach
  <2> QED
    BY <2>1, <2>2
<1>8. FewOfAKind(s, n)
  <2>1. \A k : OfKindIn(s, k) = OfKindIn(t, k)
    BY <1>5 DEF OfKindIn
  <2> QED
    BY <2>1 DEF RowsHold, FewOfAKind
<1>9. InTurn(s, n)
  <2> SUFFICES ASSUME n = 0 PROVE \A j \in DOMAIN s : ~s[j].beaten /\ (s[j].by # {} => j = 1)
    BY DEF InTurn
  <2>1. \A j \in DOMAIN t : t[j].state = "queued" /\ t[j].by = {}
    BY NothingRuns
  <2>2. \A j \in DOMAIN t : i <= j
    BY <1>1, <2>1 DEF Oldest, Queued
  <2>3. DOMAIN t = 1..Len(t) /\ Len(t) \in Nat
    BY TableSets
  <2>4. i = 1
    <3>1. i \in 1..Len(t) /\ 1 \in 1..Len(t)
      BY <2>3
    <3>2. i <= 1
      BY <2>2, <2>3, <3>1
    <3> QED
      BY <2>3, <3>1, <3>2
  <2> QED
    BY <1>5, <2>1, <2>4 DEF RowsHold, InTurn
<1>10. AdriftIn(s) \subseteq AdriftIn(t)
  <2>1. \A j \in DOMAIN t : s[j].by = {} => s[j] = t[j]
    BY <1>5
  <2> QED
    BY <1>5, <2>1 DEF AdriftIn
<1>11. Cardinality(AdriftIn(s)) <= Cardinality(AdriftIn(t))
  BY <1>10, TableSets, FS_Subset
<1>12. FewHands(s, V, n)
  BY <1>4, <1>5, <1>11, HandsStill
<1>13. OwnersBusy(s, V)
  BY <1>2, <1>3, <1>5, <1>6 DEF OwnersBusy
<1>14. rows' = s /\ workers' = V /\ UNCHANGED <<cache, backend, screen, mishaps, faults>>
  BY <1>1 DEF Claim
<1> QED
  BY <1>3, <1>5, <1>7, <1>8, <1>9, <1>12, <1>13, <1>14, JobParts, JobKept DEF RowsHold

(* The row its process is done with goes; no other is that process's.      *)
RowOf(t, w)     == {i \in DOMAIN t : w \in t[i].by}
Shortened(t, w) == IF RowOf(t, w) = {} THEN t ELSE RemoveAt(t, CHOOSE i \in RowOf(t, w) : TRUE)

LEMMA DoneWith ==
    ASSUME NEW n \in Nat, NEW t \in Seq(Row), NEW w, NEW W, RowsHold(t, n), OwnersBusy(t, W),
           NEW V, \A v \in Workers \ {w} : V[v] = W[v], NEW s, s = Shortened(t, w)
    PROVE  /\ s \in Seq(Row) /\ RowsHold(s, n) /\ OwnersBusy(s, V)
           /\ Cardinality(AdriftIn(s)) <= Cardinality(AdriftIn(t))
<1>1. \A i \in DOMAIN t : t[i].by \subseteq Workers
  BY TableSets DEF Row
<1>2. CASE RowOf(t, w) = {}
  <2>1. s = t
    BY <1>2 DEF Shortened
  <2>2. \A i \in DOMAIN t : w \notin t[i].by
    BY <1>2 DEF RowOf
  <2>3. Cardinality(AdriftIn(t)) \in Nat
    BY TableSets
  <2>4. OwnersBusy(s, V)
    BY <1>1, <2>1, <2>2 DEF OwnersBusy
  <2> QED
    BY <2>1, <2>3, <2>4
<1>3. CASE RowOf(t, w) # {}
  <2>1. PICK i \in RowOf(t, w) : s = RemoveAt(t, i)
    BY <1>3 DEF Shortened
  <2>2. i \in DOMAIN t /\ w \in t[i].by
    BY DEF RowOf
  <2>3. /\ s \in Seq(Row) /\ RowsHold(s, n) /\ Cardinality(AdriftIn(s)) <= Cardinality(AdriftIn(t))
        /\ \A m \in DOMAIN s : \E j \in DOMAIN t \ {i} : s[m].by = t[j].by
    <3>1. t[i].by # {}
      BY <2>2
    <3>2. /\ RemoveAt(t, i) \in Seq(Row) /\ RowsHold(RemoveAt(t, i), n)
          /\ Cardinality(AdriftIn(RemoveAt(t, i))) <= Cardinality(AdriftIn(t))
          /\ \A m \in DOMAIN RemoveAt(t, i) : \E j \in DOMAIN t \ {i} : RemoveAt(t, i)[m].by = t[j].by
      BY <2>2, <3>1, RowsLess
    <3> QED
      BY <2>1, <3>2
  <2>4. \A j \in DOMAIN t \ {i} : w \notin t[j].by
    BY <2>2 DEF RowsHold, OneRowEach
  <2>5. OwnersBusy(s, V)
    <3> SUFFICES ASSUME NEW m \in DOMAIN s, NEW v \in s[m].by PROVE V[v].phase = "busy"
      BY DEF OwnersBusy
    <3>1. PICK j \in DOMAIN t \ {i} : s[m].by = t[j].by
      BY <2>3
    <3>2. v \in Workers \ {w} /\ W[v].phase = "busy"
      BY <1>1, <2>4, <3>1 DEF OwnersBusy
    <3> QED
      BY <3>2
  <2> QED
    BY <2>3, <2>5
<1> QED
  BY <1>2, <1>3

LEMMA BackIs ==
    ASSUME JobInv, NEW w \in Workers
    PROVE  Back(w) \in Process /\ Back(w).phase = "loop" /\ Back(w).orphan = workers[w].orphan
           /\ [Back(w) EXCEPT !.fresh = workers[w].fresh] \in Process
           /\ [Back(w) EXCEPT !.fresh = workers[w].fresh].phase = "loop"
           /\ [Back(w) EXCEPT !.fresh = workers[w].fresh].orphan = workers[w].orphan
<1> PICK q \in Process : q = workers[w]
  BY JobParts
<1> PICK o \in BOOLEAN, f \in BOOLEAN : o = q.orphan /\ f = q.fresh
  BY DEF Process
<1> PICK z : z = [phase |-> "off", fresh |-> FALSE, orphan |-> FALSE, kind |-> 0, league |-> None]
  OBVIOUS
<1> PICK b : b = [z EXCEPT !.phase = "loop", !.fresh = TRUE, !.orphan = o]
  OBVIOUS
<1> PICK r : r = [b EXCEPT !.fresh = f]
  OBVIOUS
<1>1. b = [phase |-> "loop", fresh |-> TRUE, orphan |-> o, kind |-> 0, league |-> None]
  OBVIOUS
<1>2. r = [phase |-> "loop", fresh |-> f, orphan |-> o, kind |-> 0, league |-> None]
  BY <1>1
<1>3. Back(w) = b /\ [b EXCEPT !.fresh = workers[w].fresh] = r /\ workers[w].orphan = o
  BY DEF Back, Off
<1>4. b \in Process /\ b.phase = "loop" /\ b.orphan = o
  BY <1>1 DEF Process
<1>5. r \in Process /\ r.phase = "loop" /\ r.orphan = o
  BY <1>2 DEF Process
<1> QED
  BY <1>3, <1>4, <1>5

(* The rows an older result was beaten on are marked.                      *)
Marked(t, S, w) == [i \in DOMAIN t |-> [t[i] EXCEPT !.beaten = t[i].beaten \/ (i \in S /\ \E j \in RowOf(t, w) : i < j)]]

LEMMA MarkedRows ==
    ASSUME NEW n \in Nat, NEW t \in Seq(Row), NEW W, RowsHold(t, n), OwnersBusy(t, W), NEW w, NEW S,
           NEW u, u = Marked(t, S, w)
    PROVE  /\ u \in Seq(Row) /\ RowsHold(u, n) /\ OwnersBusy(u, W) /\ RowOf(u, w) = RowOf(t, w)
           /\ Cardinality(AdriftIn(u)) <= Cardinality(AdriftIn(t))
<1> USE DEF Marked
<1>1. ASSUME NEW i \in DOMAIN t
      PROVE  /\ u[i] \in Row /\ u[i].kind = t[i].kind /\ u[i].by = t[i].by /\ u[i].state = t[i].state
             /\ (u[i].beaten => t[i].beaten \/ \E j \in RowOf(t, w) : i < j)
  <2> PICK x \in Row : x = t[i]
    BY TableSets
  <2> PICK b \in BOOLEAN : b = (x.beaten \/ (i \in S /\ \E j \in RowOf(t, w) : i < j))
    OBVIOUS
  <2>1. u[i] = [x EXCEPT !.beaten = b]
    OBVIOUS
  <2>2. u[i] \in Row /\ u[i].kind = x.kind /\ u[i].by = x.by /\ u[i].state = x.state /\ u[i].beaten = b
    BY <2>1 DEF Row
  <2> QED
    BY <2>2
<1>2. DOMAIN u = DOMAIN t /\ DOMAIN t = 1..Len(t) /\ Len(t) \in Nat
  BY TableSets
<1>3. u \in Seq(Row)
  <2>1. u \in [1..Len(t) -> Row]
    BY <1>1, <1>2
  <2> QED
    BY <1>2, <2>1, SeqDef
<1> HIDE DEF RowsHold
<1>4. ASSUME n = 0, NEW i \in DOMAIN t, u[i].beaten PROVE t[i].beaten
  <2> SUFFICES ASSUME NEW j \in RowOf(t, w), i < j PROVE FALSE
    BY <1>1, <1>4
  <2>1. j = 1
    BY <1>4 DEF RowOf, RowsHold, InTurn
  <2> QED
    BY <1>2, <2>1
<1>5. \A i \in DOMAIN t : u[i].kind = t[i].kind /\ u[i].by \subseteq t[i].by /\ (n = 0 /\ u[i].beaten => t[i].beaten)
  BY <1>1, <1>4
<1>6. RowsHold(u, n)
  BY <1>2, <1>3, <1>5, RowsKept
<1>7. AdriftIn(u) = AdriftIn(t) /\ RowOf(u, w) = RowOf(t, w) /\ OwnersBusy(u, W)
  BY <1>1, <1>2 DEF AdriftIn, RowOf, OwnersBusy
<1>8. Cardinality(AdriftIn(t)) \in Nat
  BY TableSets
<1> QED
  BY <1>3, <1>6, <1>7, <1>8

LEMMA JobsFinished == ASSUME JobInv, NEW w \in Workers, Finish(w) PROVE JobInv'
<1> PICK t \in Seq(Row), W \in [Workers -> Process], n \in Nat :
        t = rows /\ W = workers /\ n = faults /\ n \in 0..MaxFaults /\ RowsHold(t, n) /\ OwnersBusy(t, W) /\ FewHands(t, W, n)
  BY JobParts
<1> PICK S : S = OfKind(workers[w].kind)
  OBVIOUS
<1> PICK u : u = Marked(t, S, w)
  OBVIOUS
<1>1. /\ u \in Seq(Row) /\ RowsHold(u, n) /\ OwnersBusy(u, W) /\ RowOf(u, w) = RowOf(t, w)
      /\ Cardinality(AdriftIn(u)) <= Cardinality(AdriftIn(t))
  BY MarkedRows
<1> PICK s : s = Shortened(u, w)
  OBVIOUS
<1>2. Its(w) = RowOf(t, w)
  BY DEF Its, RowOf
<1>3. rows' = s
  <2>1. rows' = Without(w, u)
    BY <1>2 DEF Finish, Marked
  <2> QED
    BY <1>1, <1>2, <2>1 DEF Without, Shortened
<1> PICK p \in Process : p = Back(w) /\ p.phase = "loop" /\ p.orphan = W[w].orphan
  BY BackIs
<1> PICK V : V = [W EXCEPT ![w] = p]
  OBVIOUS
<1> PICK q \in Process : q = W[w] /\ q.phase = "busy"
  BY DEF Finish
<1>4. V \in [Workers -> Process] /\ V[w] = p /\ \A v \in Workers \ {w} : V[v] = W[v]
  OBVIOUS
<1>5. /\ V \in [Workers -> Process] /\ \A v \in Workers \ {w} : V[v] = W[v]
      /\ AliveIn(V) = AliveIn(W) /\ OrphansIn(V) = OrphansIn(W) /\ AtWorkIn(V) = AtWorkIn(W)
  BY <1>4 DEF AliveIn, OrphansIn, AtWorkIn
<1>6. s \in Seq(Row) /\ RowsHold(s, n) /\ OwnersBusy(s, V) /\ Cardinality(AdriftIn(s)) <= Cardinality(AdriftIn(u))
  BY <1>1, <1>5, DoneWith
<1>7. Cardinality(AdriftIn(s)) <= Cardinality(AdriftIn(t))
  <2>1. Cardinality(AdriftIn(s)) \in Nat /\ Cardinality(AdriftIn(u)) \in Nat /\ Cardinality(AdriftIn(t)) \in Nat
    BY <1>1, <1>6, TableSets
  <2> QED
    BY <1>1, <1>6, <2>1
<1>8. FewHands(s, V, n)
  BY <1>5, <1>6, <1>7, HandsStill
<1>9. cache' \in [Kinds -> Leagues \cup {None}]
  <2>1. PICK c \in [Kinds -> Leagues \cup {None}] : c = cache
    BY JobParts
  <2>2. PICK k : k = workers[w].kind
    OBVIOUS
  <2>3. PICK l \in Leagues \cup {None} : l = q.league
    BY DEF Process
  <2>4. cache' = [c EXCEPT ![k] = l]
    BY <2>1, <2>2, <2>3 DEF Finish
  <2> QED
    BY <2>4
<1>10. workers' = V /\ UNCHANGED <<backend, screen, mishaps, faults>>
  BY DEF Finish
<1> QED
  BY <1>3, <1>5, <1>6, <1>8, <1>9, <1>10, JobParts, JobKept

LEMMA JobsFailed == ASSUME JobInv, NEW w \in Workers, Fail(w) PROVE JobInv'
<1> PICK t \in Seq(Row), W \in [Workers -> Process], n \in Nat :
        t = rows /\ W = workers /\ n = faults /\ n \in 0..MaxFaults /\ RowsHold(t, n) /\ OwnersBusy(t, W) /\ FewHands(t, W, n)
  BY JobParts
<1> PICK s : s = Shortened(t, w)
  OBVIOUS
<1>1. Its(w) = RowOf(t, w)
  BY DEF Its, RowOf
<1>2. rows' = s
  BY <1>1 DEF Fail, Without, Shortened
<1> PICK p \in Process : p = Back(w) /\ p.phase = "loop" /\ p.orphan = W[w].orphan
  BY BackIs
<1> PICK V : V = [W EXCEPT ![w] = p]
  OBVIOUS
<1> PICK q \in Process : q = W[w] /\ q.phase = "busy"
  BY DEF Fail
<1>3. V \in [Workers -> Process] /\ V[w] = p /\ \A v \in Workers \ {w} : V[v] = W[v]
  OBVIOUS
<1>4. /\ V \in [Workers -> Process] /\ \A v \in Workers \ {w} : V[v] = W[v]
      /\ AliveIn(V) = AliveIn(W) /\ OrphansIn(V) = OrphansIn(W) /\ AtWorkIn(V) = AtWorkIn(W)
  BY <1>3 DEF AliveIn, OrphansIn, AtWorkIn
<1>5. s \in Seq(Row) /\ RowsHold(s, n) /\ OwnersBusy(s, V) /\ Cardinality(AdriftIn(s)) <= Cardinality(AdriftIn(t))
  BY <1>4, DoneWith
<1>6. FewHands(s, V, n)
  BY <1>4, <1>5, HandsStill
<1>7. workers' = V /\ UNCHANGED <<cache, backend, screen, mishaps>>
  BY DEF Fail
<1>8. CASE faults' = n
  BY <1>2, <1>4, <1>5, <1>6, <1>7, <1>8, JobParts, JobKept
<1>9. CASE Fault
  <2>1. RowsHold(s, n + 1)
    BY <1>5, MoreFaults
  <2>2. FewHands(s, V, n + 1)
    <3>1. Cardinality(AtWorkIn(V)) \in Nat /\ Cardinality(AdriftIn(s)) \in Nat
          /\ Cardinality(AliveIn(V)) \in Nat /\ Cardinality(OrphansIn(V)) \in Nat
      BY <1>5, HandSets, TableSets
    <3> QED
      BY <1>6, <3>1 DEF FewHands
  <2>3. faults' = n + 1 /\ n + 1 \in 0..MaxFaults
    BY <1>9, FaultIs
  <2> QED
    BY <1>2, <1>4, <1>5, <1>7, <2>1, <2>2, <2>3, JobParts, JobKept
<1> QED
  BY <1>8, <1>9 DEF Fail

(* A process leaves its row as it is.                                      *)
LEMMA FreedRows ==
    ASSUME NEW n \in Nat, NEW t \in Seq(Row), NEW W, RowsHold(t, n), OwnersBusy(t, W), NEW w,
           NEW V, \A v \in Workers \ {w} : V[v] = W[v], NEW s, s = LeftBy(t, w)
    PROVE  /\ s \in Seq(Row) /\ RowsHold(s, n) /\ OwnersBusy(s, V)
           /\ Cardinality(AdriftIn(s)) <= Cardinality(AdriftIn(t)) + 1
           /\ (RowOf(t, w) = {} => Cardinality(AdriftIn(s)) <= Cardinality(AdriftIn(t)))
<1>1. /\ s \in Seq(Row) /\ DOMAIN s = DOMAIN t
      /\ \A i \in DOMAIN t : /\ s[i].kind = t[i].kind /\ s[i].by = t[i].by \ {w} /\ s[i].beaten = t[i].beaten
                             /\ s[i].state = t[i].state
  BY RowsFreed
<1>2. RowsHold(s, n)
  BY <1>1, RowsKept
<1>3. \A i \in DOMAIN t : t[i].by \subseteq Workers
  BY TableSets DEF Row
<1>4. OwnersBusy(s, V)
  BY <1>1, <1>3 DEF OwnersBusy
<1>5. Cardinality(AdriftIn(t)) \in Nat /\ IsFiniteSet(AdriftIn(t))
  BY TableSets
<1>6. CASE \E i \in DOMAIN t : w \in t[i].by
  <2>1. PICK i \in DOMAIN t : w \in t[i].by
    BY <1>6
  <2>2. AdriftIn(s) \subseteq AdriftIn(t) \cup {i}
    <3> SUFFICES ASSUME NEW j \in AdriftIn(s), j # i PROVE j \in AdriftIn(t)
      OBVIOUS
    <3>1. j \in DOMAIN t /\ w \notin t[j].by
      BY <1>1, <2>1 DEF AdriftIn, RowsHold, OneRowEach
    <3> QED
      BY <1>1, <3>1 DEF AdriftIn
  <2>3. IsFiniteSet(AdriftIn(t) \cup {i}) /\ Cardinality(AdriftIn(t) \cup {i}) <= Cardinality(AdriftIn(t)) + 1
    BY <1>5, OneMember
  <2>4. Cardinality(AdriftIn(s)) <= Cardinality(AdriftIn(t) \cup {i}) /\ Cardinality(AdriftIn(t) \cup {i}) \in Nat
        /\ Cardinality(AdriftIn(s)) \in Nat
    BY <1>1, <2>2, <2>3, FS_Subset, FS_CardinalityType, TableSets
  <2>5. RowOf(t, w) # {}
    BY <2>1 DEF RowOf
  <2> QED
    BY <1>1, <1>2, <1>4, <1>5, <2>3, <2>4, <2>5
<1>7. CASE ~\E i \in DOMAIN t : w \in t[i].by
  <2>1. AdriftIn(s) = AdriftIn(t)
    BY <1>1, <1>7 DEF AdriftIn
  <2> QED
    BY <1>1, <1>2, <1>4, <1>5, <2>1
<1> QED
  BY <1>6, <1>7

LEMMA JobsAbandoned == ASSUME JobInv, NEW w \in Workers, Abandon(w) PROVE JobInv'
<1> PICK t \in Seq(Row), W \in [Workers -> Process], n \in Nat :
        t = rows /\ W = workers /\ n = faults /\ n \in 0..MaxFaults /\ RowsHold(t, n) /\ OwnersBusy(t, W) /\ FewHands(t, W, n)
  BY JobParts
<1> PICK s : s = LeftBy(t, w)
  OBVIOUS
<1>1. rows' = s
  BY DEF Abandon, Released, LeftBy
<1> PICK p \in Process : p = [Back(w) EXCEPT !.fresh = workers[w].fresh] /\ p.phase = "loop" /\ p.orphan = W[w].orphan
  BY BackIs
<1> PICK V : V = [W EXCEPT ![w] = p]
  OBVIOUS
<1> PICK q \in Process : q = W[w] /\ q.phase = "busy"
  BY DEF Abandon
<1>2. V \in [Workers -> Process] /\ V[w] = p /\ \A v \in Workers \ {w} : V[v] = W[v]
  OBVIOUS
<1>3. AliveIn(V) = AliveIn(W) /\ OrphansIn(V) = OrphansIn(W) /\ AtWorkIn(V) = AtWorkIn(W)
  BY <1>2 DEF AliveIn, OrphansIn, AtWorkIn
<1>4. /\ s \in Seq(Row) /\ RowsHold(s, n) /\ OwnersBusy(s, V)
      /\ Cardinality(AdriftIn(s)) <= Cardinality(AdriftIn(t)) + 1
  BY <1>2, FreedRows
<1>5. RowsHold(s, n + 1)
  BY <1>4, MoreFaults
<1>6. FewHands(s, V, n + 1)
  <2>1. Cardinality(AtWorkIn(W)) \in Nat /\ Cardinality(AdriftIn(s)) \in Nat /\ Cardinality(AdriftIn(t)) \in Nat
    BY <1>4, HandSets, TableSets
  <2>2. Cardinality(AdriftIn(s)) + Cardinality(AtWorkIn(V)) <= Cardinality(AdriftIn(t)) + Cardinality(AtWorkIn(W)) + 1
    BY <1>3, <1>4, <2>1
  <2> QED
    BY <1>3, <1>4, <2>2, OneHandMore
<1>7. faults' = n + 1 /\ n + 1 \in 0..MaxFaults
  BY FaultIs DEF Abandon
<1>8. workers' = V /\ UNCHANGED <<cache, backend, screen, mishaps>>
  BY DEF Abandon
<1> QED
  BY <1>1, <1>2, <1>4, <1>5, <1>6, <1>7, <1>8, JobParts, JobKept

LEMMA JobsEnded ==
    ASSUME JobInv, NEW w \in Workers, Ends(w), UNCHANGED <<cache, backend, screen, faults>>, mishaps' \in 0..MaxMishaps
    PROVE  JobInv'
<1> PICK t \in Seq(Row), W \in [Workers -> Process], n \in Nat :
        t = rows /\ W = workers /\ n = faults /\ n \in 0..MaxFaults /\ RowsHold(t, n) /\ OwnersBusy(t, W) /\ FewHands(t, W, n)
  BY JobParts
<1> PICK s : s = LeftBy(t, w)
  OBVIOUS
<1> PICK p \in Process : p = Off /\ p.phase = "off" /\ p.orphan = FALSE
  BY OffIs
<1> PICK V : V = [W EXCEPT ![w] = p]
  OBVIOUS
<1>1. rows' = s /\ workers' = V
  BY DEF Ends, Released, LeftBy
<1>2. V \in [Workers -> Process] /\ V[w] = p /\ \A v \in Workers \ {w} : V[v] = W[v]
  OBVIOUS
<1>3. AliveIn(V) = AliveIn(W) \ {w} /\ OrphansIn(V) = OrphansIn(W) \ {w} /\ AtWorkIn(V) = AtWorkIn(W) \ {w}
  BY <1>2 DEF AliveIn, OrphansIn, AtWorkIn
<1>4. /\ s \in Seq(Row) /\ RowsHold(s, n) /\ OwnersBusy(s, V)
      /\ Cardinality(AdriftIn(s)) <= Cardinality(AdriftIn(t)) + 1
      /\ (W[w].phase = "busy" \/ Cardinality(AdriftIn(s)) <= Cardinality(AdriftIn(t)))
  <2>1. s \in Seq(Row) /\ RowsHold(s, n) /\ OwnersBusy(s, V) /\ Cardinality(AdriftIn(s)) <= Cardinality(AdriftIn(t)) + 1
    BY <1>2, FreedRows
  <2>2. RowOf(t, w) = {} => Cardinality(AdriftIn(s)) <= Cardinality(AdriftIn(t))
    BY <1>2, FreedRows
  <2>3. W[w].phase = "busy" \/ RowOf(t, w) = {}
    BY DEF OwnersBusy, RowOf
  <2> QED
    BY <2>1, <2>2, <2>3
<1>5. /\ Cardinality(AliveIn(V)) <= Cardinality(AliveIn(W)) /\ Cardinality(OrphansIn(V)) <= Cardinality(OrphansIn(W))
      /\ Cardinality(AtWorkIn(V)) <= Cardinality(AtWorkIn(W))
  BY <1>3, HandSets, FS_Subset
<1>6. W[w].phase = "busy" => Cardinality(AtWorkIn(V)) = Cardinality(AtWorkIn(W)) - 1
  <2> HAVE W[w].phase = "busy"
  <2>1. w \in AtWorkIn(W)
    BY DEF AtWorkIn
  <2> QED
    BY <1>3, <2>1, HandSets, FS_RemoveElement
<1>7. /\ Cardinality(AliveIn(V)) \in Nat /\ Cardinality(AliveIn(W)) \in Nat
      /\ Cardinality(OrphansIn(V)) \in Nat /\ Cardinality(OrphansIn(W)) \in Nat
      /\ Cardinality(AtWorkIn(V)) \in Nat /\ Cardinality(AtWorkIn(W)) \in Nat
      /\ Cardinality(AdriftIn(s)) \in Nat /\ Cardinality(AdriftIn(t)) \in Nat
  BY <1>4, HandSets, TableSets
<1>8. FewHands(s, V, n)
  <2>1. Cardinality(AdriftIn(s)) + Cardinality(AtWorkIn(V)) <= Cardinality(AdriftIn(t)) + Cardinality(AtWorkIn(W))
    BY <1>4, <1>5, <1>6, <1>7
  <2> QED
    BY <1>5, <1>7, <2>1 DEF FewHands
<1> QED
  BY <1>1, <1>2, <1>4, <1>8, JobParts, JobKept

LEMMA JobsOrphaned == ASSUME JobInv, BackendDies PROVE JobInv'
<1> PICK t \in Seq(Row), W \in [Workers -> Process], n \in Nat :
        t = rows /\ W = workers /\ n = faults /\ n \in 0..MaxFaults /\ RowsHold(t, n) /\ OwnersBusy(t, W) /\ FewHands(t, W, n)
  BY JobParts
<1> PICK V : V = workers'
  OBVIOUS
<1>1. ASSUME NEW w \in Workers
      PROVE  V[w] \in Process /\ V[w].phase = W[w].phase /\ (W[w].phase # "off" => V[w].orphan)
  <2> PICK q \in Process : q = W[w]
    OBVIOUS
  <2> PICK p : p = [q EXCEPT !.orphan = TRUE]
    OBVIOUS
  <2>1. p \in Process /\ p.phase = q.phase /\ p.orphan = TRUE
    BY DEF Process
  <2>2. V[w] = IF q.phase = "off" THEN Off ELSE p
    BY DEF BackendDies
  <2> QED
    BY <2>1, <2>2, OffIs
<1>2. V \in [Workers -> Process]
  <2>1. V = [w \in Workers |-> V[w]]
    BY DEF BackendDies
  <2> QED
    BY <1>1, <2>1
<1>3. AliveIn(V) = AliveIn(W) /\ OrphansIn(V) = AliveIn(W) /\ AtWorkIn(V) = AtWorkIn(W)
  BY <1>1 DEF AliveIn, OrphansIn, AtWorkIn
<1>4. OwnersBusy(t, V)
  <2>1. \A i \in DOMAIN t : t[i].by \subseteq Workers
    BY TableSets DEF Row
  <2> QED
    BY <1>1, <2>1 DEF OwnersBusy
<1>5. FewHands(t, V, n + 1)
  <2>1. Cardinality(AtWorkIn(W)) \in Nat /\ Cardinality(AdriftIn(t)) \in Nat /\ Cardinality(AliveIn(W)) \in Nat
    BY HandSets, TableSets
  <2> QED
    BY <1>3, <2>1 DEF FewHands
<1>6. RowsHold(t, n + 1)
  BY MoreFaults
<1>7. faults' = n + 1 /\ n + 1 \in 0..MaxFaults
  BY FaultIs DEF BackendDies
<1>8. backend' = "down" /\ UNCHANGED <<rows, cache, screen, mishaps>>
  BY DEF BackendDies
<1> QED
  BY <1>2, <1>4, <1>5, <1>6, <1>7, <1>8, JobParts, JobKept

LEMMA JobsStepped == ASSUME JobInv, [JobsNext]_jobVars PROVE JobInv'
<1>1. CASE AskJobs
  BY <1>1, JobsAsked
<1>2. CASE SwitchLeague \/ BackendStarts \/ UNCHANGED jobVars
  <2>1. /\ UNCHANGED <<rows, workers, faults, cache, mishaps>> /\ screen' \in Leagues /\ backend' \in {"down", "new", "up"}
    BY <1>2, JobParts DEF SwitchLeague, BackendStarts, jobVars
  <2> QED
    BY <2>1, JobParts, JobKept
<1>3. CASE BackendDies
  BY <1>3, JobsOrphaned
<1>4. ASSUME NEW w \in Workers, Sidecar(w) PROVE JobInv'
  <2>1. CASE Dies(w) \/ Watchdog(w)
    <3>1. Ends(w) /\ UNCHANGED <<cache, backend, screen, faults>>
      BY <2>1 DEF Dies, Watchdog
    <3>2. mishaps' \in 0..MaxMishaps
      BY <2>1, JobParts, FaultsAssumption DEF Dies, Watchdog
    <3> QED
      BY <3>1, <3>2, JobsEnded
  <2>2. CASE Spawn(w) \/ Work(w)
    BY <2>2, JobsSpawned, JobsBooted, JobsClaimed, JobsFoundNone, JobsIdled, JobsFinished, JobsFailed, JobsAbandoned DEF Work
  <2> QED
    BY <1>4, <2>1, <2>2 DEF Sidecar
<1> QED
  BY <1>1, <1>2, <1>3, <1>4 DEF JobsNext

(* "enqueue coalesces per kind, so this never piles up" (main.py), for any *)
(* kinds, leagues, processes and faults; and while one process works and   *)
(* the database takes its writes, no result goes back on a later one: the  *)
(* queue's claim order is enough (analytics.py claim, complete).           *)
THEOREM QueueIsSoundEver ==
    JobsInit /\ [][JobsNext]_jobVars => [](JobsTypeOK /\ NeverPilesUp) /\ CacheNeverGoesBack
<1>1. JobInv => JobsTypeOK /\ NeverPilesUp
  <2> SUFFICES ASSUME JobInv PROVE JobsTypeOK /\ NeverPilesUp
    OBVIOUS
  <2>1. \A k : OfKind(k) = OfKindIn(rows, k)
    BY DEF OfKind, OfKindIn
  <2> QED
    BY <2>1 DEF JobInv, RowsHold, FewOfAKind, NeverPilesUp
<1>2. JobInv /\ [JobsNext]_jobVars
      => [(cache' # cache /\ faults = 0) =>
             \A w \in Workers : workers'[w] # workers[w] => \A i \in Its(w) : ~rows[i].beaten]_jobVars
  BY DEF JobInv, RowsHold, InTurn, Its
<1> QED
  BY <1>1, <1>2, JobsStart, JobsStepped, PTL DEF CacheNeverGoesBack

-----------------------------------------------------------------------------
(* The market's prices.  A fraction is a pair that is not <<0, 0>>; of those *)
(* "at most" is a total preorder, and cancelling leaves a fraction what it   *)
(* is as far as "at most one" goes.                                          *)
Quantity == Nat \X Nat
Fraction == {x \in Quantity : x[1] > 0 \/ x[2] > 0}

LEMMA Products ==
    ASSUME NEW a \in Nat, NEW b \in Nat
    PROVE  /\ a * b \in Nat
           /\ a > 0 /\ b > 0 => a * b > 0
           /\ a * b > 0 => a > 0 /\ b > 0
  BY SMT

LEMMA ScaledUp ==
    ASSUME NEW a \in Nat, NEW b \in Nat, NEW k \in Nat, a <= b
    PROVE  a * k <= b * k
  BY SMT

LEMMA ScaledDown ==
    ASSUME NEW a \in Nat, NEW b \in Nat, NEW k \in Nat, k > 0, a * k <= b * k
    PROVE  a <= b
  BY SMT

LEMMA AtMostIsTransitive ==
    ASSUME NEW x \in Fraction, NEW y \in Fraction, NEW z \in Fraction, AtMost(x, y), AtMost(y, z)
    PROVE  AtMost(x, z)
<1>1. PICK a \in Nat, b \in Nat : x[1] = a /\ x[2] = b /\ (a > 0 \/ b > 0)
  BY DEF Fraction, Quantity
<1>2. PICK p \in Nat, q \in Nat : y[1] = p /\ y[2] = q /\ (p > 0 \/ q > 0)
  BY DEF Fraction, Quantity
<1>3. PICK c \in Nat, d \in Nat : z[1] = c /\ z[2] = d /\ (c > 0 \/ d > 0)
  BY DEF Fraction, Quantity
<1>4. a * q <= p * b /\ p * d <= c * q
  BY <1>1, <1>2, <1>3 DEF AtMost
<1>5. a * d \in Nat /\ c * b \in Nat /\ a * q \in Nat /\ p * b \in Nat /\ p * d \in Nat /\ c * q \in Nat
  BY Products
<1>6. CASE q > 0
  <2>1. (a * q) * d <= (p * b) * d
    BY <1>4, <1>5, ScaledUp
  <2>2. (p * d) * b <= (c * q) * b
    BY <1>4, <1>5, ScaledUp
  <2>3. (a * d) * q = (a * q) * d /\ (p * b) * d = (p * d) * b /\ (c * q) * b = (c * b) * q
    OBVIOUS
  <2>4. (a * d) * q <= (c * b) * q
    <3>1. (a * d) * q \in Nat /\ (p * b) * d \in Nat /\ (c * b) * q \in Nat
      BY <1>5, Products
    <3> QED
      BY <2>1, <2>2, <2>3, <3>1
  <2>5. a * d <= c * b
    BY <1>5, <1>6, <2>4, ScaledDown
  <2> QED
    BY <1>1, <1>3, <2>5 DEF AtMost
<1>7. CASE q = 0
  <2>1. p > 0 /\ c * q = 0
    BY <1>2, <1>7
  <2>2. d = 0
    BY <1>4, <1>5, <2>1, Products
  <2>3. a * d = 0
    BY <2>2
  <2>4. a * d <= c * b
    BY <1>5, <2>3
  <2> QED
    BY <1>1, <1>3, <2>4 DEF AtMost
<1> QED
  BY <1>6, <1>7

LEMMA AtMostIsTotal ==
    ASSUME NEW x \in Quantity, NEW y \in Quantity
    PROVE  /\ AtMost(x, x)
           /\ AtMost(x, y) \/ AtMost(y, x)
           /\ Smaller(x, y) <=> ~AtMost(y, x)
           /\ Smaller(x, y) => AtMost(x, y)
           /\ AtMost(x, y) <=> AtMost(Over(y), Over(x))
<1>1. PICK a \in Nat, b \in Nat : x[1] = a /\ x[2] = b
  BY DEF Quantity
<1>2. PICK p \in Nat, q \in Nat : y[1] = p /\ y[2] = q
  BY DEF Quantity
<1>3. a * q \in Nat /\ p * b \in Nat /\ a * b \in Nat /\ q * a = a * q /\ b * p = p * b
  BY Products
<1> QED
  BY <1>1, <1>2, <1>3 DEF AtMost, Smaller, Over

LEMMA LeastIs ==
    ASSUME NEW x \in Fraction, NEW y \in Fraction
    PROVE  Least(x, y) \in Fraction /\ AtMost(Least(x, y), x)
<1>1. x \in Quantity /\ y \in Quantity
  BY DEF Fraction
<1> QED
  BY <1>1, AtMostIsTotal DEF Least

LEMMA CancelledIs ==
    ASSUME NEW k, NEW n \in Nat, NEW d \in Nat, n > 0 \/ d > 0
    PROVE  /\ CancelledBy(k, n, d) \in Fraction
           /\ n <= d => CancelledBy(k, n, d)[1] <= CancelledBy(k, n, d)[2]
<1>1. CASE ~(k \in Nat \ {0} /\ n % k = 0 /\ d % k = 0)
  <2>1. CancelledBy(k, n, d) = <<n, d>>
    BY <1>1 DEF CancelledBy
  <2> QED
    BY <2>1 DEF Fraction, Quantity
<1>2. CASE k \in Nat \ {0} /\ n % k = 0 /\ d % k = 0
  <2> DEFINE m == n \div k
             e == d \div k
  <2>1. CancelledBy(k, n, d) = <<m, e>>
    BY <1>2 DEF CancelledBy
  <2>2. k \in Nat /\ k > 0
    BY <1>2
  <2>3. m \in Nat /\ e \in Nat
    BY <2>2
  <2>4. n = m * k /\ d = e * k
    BY <1>2, <2>2
  <2> HIDE DEF m, e
  <2>5. m > 0 \/ e > 0
    <3>1. m = 0 => n = 0
      BY <2>2, <2>4
    <3>2. e = 0 => d = 0
      BY <2>2, <2>4
    <3> QED
      BY <1>2, <2>3, <3>1, <3>2
  <2>6. n <= d => m <= e
    BY <2>2, <2>3, <2>4, ScaledDown
  <2> QED
    BY <2>1, <2>3, <2>5, <2>6 DEF Fraction, Quantity
<1> QED
  BY <1>1, <1>2

LEMMA FracIs ==
    ASSUME NEW n \in Nat, NEW d \in Nat
    PROVE  /\ Frac(n, d) \in Fraction
           /\ n <= d => AtMost(Frac(n, d), One)
<1>1. CASE n = 0 /\ d = 0
  <2>1. Frac(n, d) = <<0, 1>>
    BY <1>1 DEF Frac, Zero
  <2> QED
    BY <2>1 DEF Fraction, Quantity, AtMost, One
<1>2. CASE n > 0 \/ d > 0
  <2> DEFINE f == CancelledBy(gcd[<<n, d>>], n, d)
  <2>1. Frac(n, d) = f
    BY <1>2 DEF Frac
  <2>2. f \in Fraction /\ (n <= d => f[1] <= f[2])
    BY <1>2, CancelledIs
  <2> HIDE DEF f
  <2>3. f[1] <= f[2] => AtMost(f, One)
    BY <2>2 DEF AtMost, One, Fraction, Quantity
  <2> QED
    BY <2>1, <2>2, <2>3
<1> QED
  BY <1>1, <1>2

LEMMA TimesIs ==
    ASSUME NEW x \in Quantity, NEW y \in Quantity
    PROVE  /\ Times(x, y) \in Fraction
           /\ Plus(x, y) \in Fraction
           /\ AtMost(x, Over(y)) => AtMost(Times(x, y), One)
<1>1. PICK a \in Nat, b \in Nat : x[1] = a /\ x[2] = b
  BY DEF Quantity
<1>2. PICK p \in Nat, q \in Nat : y[1] = p /\ y[2] = q
  BY DEF Quantity
<1>3. a * p \in Nat /\ b * q \in Nat /\ a * q \in Nat /\ p * b \in Nat /\ q * b = b * q /\ a * q + p * b \in Nat
  BY Products
<1>4. Times(x, y) = Frac(a * p, b * q) /\ Plus(x, y) = Frac(a * q + p * b, b * q)
  BY <1>1, <1>2 DEF Times, Plus
<1>5. AtMost(x, Over(y)) => a * p <= b * q
  BY <1>1, <1>2, <1>3 DEF AtMost, Over
<1> QED
  BY <1>3, <1>4, <1>5, FracIs

LEMMA OverIs == ASSUME NEW x \in Quantity PROVE Over(x) \in Quantity /\ Over(Over(x)) = x
  BY DEF Over, Quantity


-----------------------------------------------------------------------------
(* Of finitely many things with a fraction each one has the greatest, for   *)
(* there is no least set without one.                                       *)
LEMMA GreatestOf ==
    ASSUME NEW S, IsFiniteSet(S), S # {}, NEW f, \A x \in S : f[x] \in Fraction
    PROVE  \E x \in S : \A y \in S : AtMost(f[y], f[x])
<1> DEFINE Has(R) == \E x \in R : \A y \in R : AtMost(f[y], f[x])
           T == {R \in SUBSET S : R # {} /\ ~Has(R)}
           N == {Cardinality(R) : R \in T}
<1> SUFFICES ASSUME T # {} PROVE FALSE
  OBVIOUS
<1>1. \A R \in SUBSET S : IsFiniteSet(R) /\ Cardinality(R) \in Nat
  BY FS_Subset, FS_CardinalityType
<1>2. N \subseteq Nat /\ N # {}
  BY <1>1
<1>3. PICK m \in N : \A k \in N : ~ (<<k, m>> \in OpToRel(<, Nat))
  BY <1>2, WFMin, NatLessThanWellFounded
<1>4. \A k \in N : ~(k < m)
  BY <1>2, <1>3 DEF OpToRel
<1>5. PICK R \in T : m = Cardinality(R)
  OBVIOUS
<1>6. PICK x \in R : TRUE
  OBVIOUS
<1> DEFINE Q == R \ {x}
<1>7. Q \in SUBSET S /\ Cardinality(Q) < Cardinality(R) /\ x \in S
  <2>1. IsFiniteSet(R) /\ Cardinality(R) \in Nat /\ x \in R /\ R \subseteq S
    BY <1>1, <1>6
  <2>2. Cardinality(Q) = Cardinality(R) - 1
    BY <2>1, FS_RemoveElement
  <2> QED
    BY <2>1, <2>2
<1>8. Q \notin T
  BY <1>4, <1>5, <1>7
<1>9. AtMost(f[x], f[x])
  BY <1>7, AtMostIsTotal DEF Fraction
<1>10. Q # {}
  BY <1>6, <1>9
<1>11. PICK z \in Q : \A y \in Q : AtMost(f[y], f[z])
  BY <1>7, <1>8, <1>10
<1>12. f[z] \in Fraction /\ f[x] \in Fraction /\ f[z] \in Quantity /\ f[x] \in Quantity
  BY <1>7, <1>11 DEF Fraction
<1>13. CASE AtMost(f[x], f[z])
  <2>1. \A y \in R : AtMost(f[y], f[z])
    BY <1>11, <1>13
  <2> QED
    BY <2>1
<1>14. CASE AtMost(f[z], f[x])
  <2>1. \A y \in Q : AtMost(f[y], f[x])
    BY <1>7, <1>11, <1>12, <1>14, AtMostIsTransitive
  <2>2. \A y \in R : AtMost(f[y], f[x])
    BY <1>9, <2>1
  <2> QED
    BY <1>6, <2>2
<1> QED
  BY <1>12, <1>13, <1>14, AtMostIsTotal

-----------------------------------------------------------------------------
(* A loop of N rounds, each a step from what the one before left, can be     *)
(* taken: what a recursive function over 0..N is defined to be exists.       *)
StepsIn(s, N, X) == s \in [X \X (1..N) -> X]
RunsFrom(f, b, s, N, X) == f \in [0..N -> X] /\ f[0] = b /\ \A n \in 1..N : f[n] = s[<<f[n - 1], n>>]

LEMMA LoopRuns ==
    ASSUME NEW N \in Nat, NEW X, NEW b \in X, NEW s, StepsIn(s, N, X)
    PROVE  \E f : RunsFrom(f, b, s, N, X)
<1> USE DEF StepsIn, RunsFrom
<1> DEFINE Runs(k, f) == f[0] = b /\ \A n \in 1..k : f[n] = s[<<f[n - 1], n>>]
           C == {k \in Nat : k <= N => \E f \in [0..k -> X] : Runs(k, f)}
<1>1. 0 \in C
  <2> DEFINE f == [n \in 0..0 |-> b]
  <2>1. f \in [0..0 -> X] /\ Runs(0, f)
    OBVIOUS
  <2> QED
    BY <2>1
<1>2. ASSUME NEW k \in Nat, k \in C PROVE k + 1 \in C
  <2> SUFFICES ASSUME k + 1 <= N PROVE \E f \in [0..(k + 1) -> X] : Runs(k + 1, f)
    OBVIOUS
  <2>1. PICK f \in [0..k -> X] : Runs(k, f)
    BY <1>2
  <2> DEFINE g == [n \in 0..(k + 1) |-> IF n = k + 1 THEN s[<<f[k], k + 1>>] ELSE f[n]]
  <2>2. s[<<f[k], k + 1>>] \in X
    BY <2>1
  <2>3. g \in [0..(k + 1) -> X]
    BY <2>1, <2>2
  <2>4. g[0] = b
    BY <2>1
  <2>5. ASSUME NEW n \in 1..(k + 1) PROVE g[n] = s[<<g[n - 1], n>>]
    <3>1. CASE n = k + 1
      <4>1. n - 1 = k /\ k \in 0..(k + 1) /\ k # k + 1
        BY <3>1
      <4>2. g[n - 1] = f[k] /\ g[n] = s[<<f[k], k + 1>>]
        BY <3>1, <4>1
      <4> QED
        BY <3>1, <4>2
    <3>2. CASE n # k + 1
      <4>1. n \in 1..k /\ n - 1 \in 0..k /\ n - 1 # k + 1
        BY <3>2
      <4> QED
        BY <2>1, <3>2, <4>1
    <3> QED
      BY <3>1, <3>2
  <2> QED
    BY <2>3, <2>4, <2>5
<1> HIDE DEF C
<1>3. Nat \subseteq C
  BY <1>1, <1>2, EveryNumber
<1>4. N \in C
  BY <1>3
<1> QED
  BY <1>4 DEF C

-----------------------------------------------------------------------------
(* A tape: the rate of its market lies between its cheapest and its dearest *)
(* hour, whatever the hours weigh.                                          *)

LEMMA TapeIs ==
    ASSUME NEW t \in Tapes
    PROVE  /\ Len(t.hours) \in Nat /\ DOMAIN t.hours = 1..Len(t.hours)
           /\ \A n \in 1..Len(t.hours) : /\ t.hours[n].a \in Nat /\ t.hours[n].b \in Nat
                                         /\ Weight[n] \in Nat
           /\ t.stock_a \in Nat /\ t.stock_b \in Nat
<1>1. t.hours \in Seq([a : Nat, b : Nat]) /\ {t.stock_a, t.stock_b} \subseteq Nat /\ \A i \in DOMAIN t.hours : Weight[i] \in Nat
  BY MarketAssumption
<1>2. Len(t.hours) \in Nat /\ DOMAIN t.hours = 1..Len(t.hours)
  BY <1>1, LenProperties
<1>3. \A n \in 1..Len(t.hours) : t.hours[n] \in [a : Nat, b : Nat]
  BY <1>1, <1>2, ElementOfSeq
<1> QED
  BY <1>1, <1>2, <1>3

LEMMA LoopKeeps ==
    ASSUME NEW N \in Nat, NEW X, NEW v, v[0] \in X, \A n \in 1..N : v[n - 1] \in X => v[n] \in X
    PROVE  \A n \in 0..N : v[n] \in X
<1> DEFINE C == {n \in Nat : n <= N => v[n] \in X}
<1>1. 0 \in C
  OBVIOUS
<1>2. ASSUME NEW n \in Nat, n \in C PROVE n + 1 \in C
  <2> SUFFICES ASSUME n + 1 <= N PROVE v[n + 1] \in X
    OBVIOUS
  <2>1. n + 1 \in 1..N /\ (n + 1) - 1 = n /\ v[n] \in X
    BY <1>2
  <2> QED
    BY <2>1
<1> HIDE DEF C
<1>3. Nat \subseteq C
  BY <1>1, <1>2, EveryNumber
<1> QED
  BY <1>3 DEF C

VolFix(f, t, side) == f = [n \in 0..Len(t.hours) |-> IF n = 0 THEN 0 ELSE f[n - 1] + t.hours[n][side]]
VolOf(t, side) == CHOOSE f : VolFix(f, t, side)

LEMMA VolumeIs ==
    ASSUME NEW t \in Tapes, NEW side \in {"a", "b"}
    PROVE  Volume(t, side) \in Nat
<1> DEFINE N == Len(t.hours)
           s == [x \in Nat \X (1..N) |-> x[1] + t.hours[x[2]][side]]
<1>1. N \in Nat /\ \A n \in 1..N : t.hours[n][side] \in Nat
  BY TapeIs
<1> HIDE DEF N
<1>2. s \in [Nat \X (1..N) -> Nat]
  BY <1>1
<1>3. \A x \in Nat, n \in 1..N : s[<<x, n>>] = x + t.hours[n][side]
  OBVIOUS
<1> HIDE DEF s
<1>4. PICK f : RunsFrom(f, 0, s, N, Nat)
  BY <1>1, <1>2, LoopRuns DEF StepsIn
<1>5. \A n \in 1..N : f[n] = f[n - 1] + t.hours[n][side]
  <2> SUFFICES ASSUME NEW n \in 1..N PROVE f[n] = f[n - 1] + t.hours[n][side]
    OBVIOUS
  <2>1. n - 1 \in 0..N
    BY <1>1
  <2>2. f[n - 1] \in Nat
    BY <1>4, <2>1 DEF RunsFrom
  <2> QED
    BY <1>3, <1>4, <2>2 DEF RunsFrom
<1>6. VolFix(f, t, side)
  <2>1. f = [n \in 0..N |-> IF n = 0 THEN 0 ELSE f[n - 1] + t.hours[n][side]]
    BY <1>1, <1>4, <1>5 DEF RunsFrom
  <2> QED
    BY <2>1 DEF VolFix, N
<1>7. VolFix(VolOf(t, side), t, side)
  BY <1>6 DEF VolOf
<1>8. ASSUME NEW v, VolFix(v, t, side) PROVE v[N] \in Nat
  <2>1. v = [n \in 0..N |-> IF n = 0 THEN 0 ELSE v[n - 1] + t.hours[n][side]]
    BY <1>8 DEF VolFix, N
  <2>2. v[0] \in Nat /\ \A n \in 1..N : v[n] = v[n - 1] + t.hours[n][side]
    BY <1>1, <2>1
  <2>3. ASSUME NEW n \in 1..N, v[n - 1] \in Nat PROVE v[n] \in Nat
    <3>1. v[n] = v[n - 1] + t.hours[n][side] /\ t.hours[n][side] \in Nat
      BY <1>1, <2>2
    <3> QED
      BY <2>3, <3>1
  <2>4. \A n \in 0..N : v[n] \in Nat
    BY <1>1, <2>2, <2>3, LoopKeeps
  <2> QED
    BY <1>1, <2>4
<1>9. Volume(t, side) = VolOf(t, side)[Len(t.hours)]
  BY DEF Volume, VolOf, VolFix
<1>10. VolOf(t, side)[N] \in Nat
  BY <1>7, <1>8
<1> QED
  BY <1>9, <1>10 DEF N

\* What an hour paid.
Pay(t) == [i \in Traded(t) |-> <<t.hours[i].a, t.hours[i].b>>]

LEMMA PayIs ==
    ASSUME NEW t \in Tapes
    PROVE  /\ IsFiniteSet(Traded(t)) /\ Traded(t) \subseteq 1..Len(t.hours)
           /\ \A i \in Traded(t) : Pay(t)[i] \in Fraction /\ Over(Pay(t)[i]) \in Fraction
           /\ \A x : x \in Executed(t) <=> \E i \in Traded(t) : x = Pay(t)[i]
<1>1. Traded(t) \subseteq 1..Len(t.hours) /\ Len(t.hours) \in Nat
  BY TapeIs DEF Traded
<1>2. IsFiniteSet(1..Len(t.hours))
  BY <1>1, FS_Interval
<1>3. IsFiniteSet(Traded(t))
  BY <1>1, <1>2, FS_Subset
<1>4. ASSUME NEW i \in Traded(t) PROVE Pay(t)[i] \in Fraction /\ Over(Pay(t)[i]) \in Fraction
  <2>1. t.hours[i].a \in Nat /\ t.hours[i].b \in Nat /\ t.hours[i].a > 0 /\ t.hours[i].b > 0
    BY <1>1, TapeIs DEF Traded
  <2>2. Pay(t)[i] = <<t.hours[i].a, t.hours[i].b>>
    BY DEF Pay
  <2> QED
    BY <2>1, <2>2 DEF Over, Fraction, Quantity
<1>5. \A x : x \in Executed(t) <=> \E i \in Traded(t) : x = Pay(t)[i]
  BY DEF Executed, Pay
<1> QED
  BY <1>1, <1>3, <1>4, <1>5

LEMMA BoundsAreHours ==
    ASSUME NEW t \in Tapes, Traded(t) # {}
    PROVE  /\ Cheapest(t) \in Fraction /\ \A i \in Traded(t) : AtMost(Cheapest(t), Pay(t)[i])
           /\ Dearest(t) \in Fraction /\ \A i \in Traded(t) : AtMost(Pay(t)[i], Dearest(t))
           /\ AtMost(Cheapest(t), Dearest(t))
<1>1. \E x \in Executed(t) : \A y \in Executed(t) : AtMost(y, x)
  <2>1. PICK j \in Traded(t) : \A i \in Traded(t) : AtMost(Pay(t)[i], Pay(t)[j])
    BY PayIs, GreatestOf
  <2>2. Pay(t)[j] \in Executed(t) /\ \A y \in Executed(t) : AtMost(y, Pay(t)[j])
    BY <2>1, PayIs
  <2> QED
    BY <2>2
<1>2. \E x \in Executed(t) : \A y \in Executed(t) : AtMost(x, y)
  <2> DEFINE f == [i \in Traded(t) |-> Over(Pay(t)[i])]
  <2>1. \A i \in Traded(t) : f[i] \in Fraction
    BY PayIs
  <2>2. PICK j \in Traded(t) : \A i \in Traded(t) : AtMost(f[i], f[j])
    <3> HIDE DEF f
    <3> QED
      BY <2>1, PayIs, GreatestOf
  <2>3. ASSUME NEW i \in Traded(t) PROVE AtMost(Pay(t)[j], Pay(t)[i])
    <3>1. AtMost(Over(Pay(t)[i]), Over(Pay(t)[j]))
      BY <2>2
    <3>2. Pay(t)[i] \in Quantity /\ Pay(t)[j] \in Quantity
      BY PayIs DEF Fraction
    <3> QED
      BY <3>1, <3>2, AtMostIsTotal
  <2>4. Pay(t)[j] \in Executed(t) /\ \A y \in Executed(t) : AtMost(Pay(t)[j], y)
    BY <2>3, PayIs
  <2> QED
    BY <2>4
<1>3. Cheapest(t) \in Executed(t) /\ \A y \in Executed(t) : AtMost(Cheapest(t), y)
  BY <1>2 DEF Cheapest
<1>4. Dearest(t) \in Executed(t) /\ \A y \in Executed(t) : AtMost(y, Dearest(t))
  BY <1>1 DEF Dearest
<1>5. \A x \in Executed(t) : x \in Fraction
  BY PayIs
<1>6. \A i \in Traded(t) : Pay(t)[i] \in Executed(t)
  BY PayIs
<1> QED
  BY <1>3, <1>4, <1>5, <1>6

\* Adding an hour to a sum leaves it between bounds that the hour lies between.
WithHour(x, w, h) == <<x[1] + w * h[1], x[2] + w * h[2]>>

LEMMA MediantLies ==
    ASSUME NEW lo \in Quantity, NEW hi \in Quantity, NEW x \in Quantity, NEW h \in Quantity, NEW w \in Nat,
           AtMost(lo, x), AtMost(x, hi), AtMost(lo, h), AtMost(h, hi)
    PROVE  WithHour(x, w, h) \in Quantity /\ AtMost(lo, WithHour(x, w, h)) /\ AtMost(WithHour(x, w, h), hi)
<1>1. PICK a \in Nat, b \in Nat : x = <<a, b>>
  BY DEF Quantity
<1>2. PICK c \in Nat, d \in Nat : h = <<c, d>>
  BY DEF Quantity
<1>3. PICK l \in Nat, m \in Nat : lo = <<l, m>>
  BY DEF Quantity
<1>4. PICK p \in Nat, q \in Nat : hi = <<p, q>>
  BY DEF Quantity
<1>5. w * c \in Nat /\ w * d \in Nat
  BY Products
<1>6. WithHour(x, w, h) = <<a + w * c, b + w * d>>
  BY <1>1, <1>2 DEF WithHour
<1>7. l * b <= a * m /\ a * q <= p * b /\ l * d <= c * m /\ c * q <= p * d
  BY <1>1, <1>2, <1>3, <1>4 DEF AtMost
<1>8. l * (b + w * d) <= (a + w * c) * m
  <2>1. l * d \in Nat /\ c * m \in Nat /\ l * b \in Nat /\ a * m \in Nat
    BY Products
  <2>2. (l * d) * w <= (c * m) * w
    BY <1>7, <2>1, ScaledUp
  <2>3. l * (b + w * d) = l * b + (l * d) * w
    OBVIOUS
  <2>4. (a + w * c) * m = a * m + (c * m) * w
    OBVIOUS
  <2>5. (l * d) * w \in Nat /\ (c * m) * w \in Nat
    BY <2>1, Products
  <2> QED
    BY <1>7, <2>1, <2>2, <2>3, <2>4, <2>5
<1>9. (a + w * c) * q <= p * (b + w * d)
  <2>1. c * q \in Nat /\ p * d \in Nat /\ a * q \in Nat /\ p * b \in Nat
    BY Products
  <2>2. (c * q) * w <= (p * d) * w
    BY <1>7, <2>1, ScaledUp
  <2>3. p * (b + w * d) = p * b + (p * d) * w
    OBVIOUS
  <2>4. (a + w * c) * q = a * q + (c * q) * w
    OBVIOUS
  <2>5. (c * q) * w \in Nat /\ (p * d) * w \in Nat
    BY <2>1, Products
  <2> QED
    BY <1>7, <2>1, <2>2, <2>3, <2>4, <2>5
<1>10. WithHour(x, w, h) \in Quantity
  BY <1>5, <1>6 DEF Quantity
<1>11. lo[1] = l /\ lo[2] = m /\ hi[1] = p /\ hi[2] = q
  BY <1>3, <1>4
<1>12. WithHour(x, w, h)[1] = a + w * c /\ WithHour(x, w, h)[2] = b + w * d
  BY <1>6
<1> QED
  BY <1>8, <1>9, <1>10, <1>11, <1>12 DEF AtMost

FoldStep(t, x, n) == IF n \notin Traded(t) THEN x ELSE WithHour(x, Weight[n], Pay(t)[n])
FoldFix(f, t) ==
    f = [n \in 0..Len(t.hours) |->
            IF n = 0 THEN <<0, 0>>
            ELSE IF n \notin Traded(t) THEN f[n - 1]
            ELSE <<f[n - 1][1] + Weight[n] * t.hours[n].a, f[n - 1][2] + Weight[n] * t.hours[n].b>>]
FoldOf(t) == CHOOSE f : FoldFix(f, t)

LEMMA FoldFixIs ==
    ASSUME NEW t \in Tapes, NEW f
    PROVE  FoldFix(f, t) <=> f = [n \in 0..Len(t.hours) |-> IF n = 0 THEN <<0, 0>> ELSE FoldStep(t, f[n - 1], n)]
<1> DEFINE N == Len(t.hours)
<1>1. ASSUME NEW n \in 0..N
      PROVE  (IF n = 0 THEN <<0, 0>> ELSE FoldStep(t, f[n - 1], n))
             = (IF n = 0 THEN <<0, 0>>
                ELSE IF n \notin Traded(t) THEN f[n - 1]
                ELSE <<f[n - 1][1] + Weight[n] * t.hours[n].a, f[n - 1][2] + Weight[n] * t.hours[n].b>>)
  <2>1. n \in Traded(t) => Pay(t)[n] = <<t.hours[n].a, t.hours[n].b>>
    BY DEF Pay
  <2> QED
    BY <2>1 DEF FoldStep, WithHour
<1> QED
  BY <1>1 DEF FoldFix

LEMMA RateLiesBetween ==
    ASSUME NEW t \in Tapes, NEW lo \in Quantity, NEW hi \in Quantity,
           \A i \in Traded(t) : AtMost(lo, Pay(t)[i]) /\ AtMost(Pay(t)[i], hi)
    PROVE  FoldRates(t) \in Quantity /\ AtMost(lo, FoldRates(t)) /\ AtMost(FoldRates(t), hi)
<1> DEFINE N == Len(t.hours)
           X == {x \in Quantity : AtMost(lo, x) /\ AtMost(x, hi)}
           s == [y \in X \X (1..N) |-> FoldStep(t, y[1], y[2])]
<1>1. N \in Nat
  BY TapeIs
<1> HIDE DEF N
<1>2. <<0, 0>> \in X
  <2>1. lo[1] \in Nat /\ lo[2] \in Nat /\ hi[1] \in Nat /\ hi[2] \in Nat
    BY DEF Quantity
  <2> QED
    BY <2>1 DEF AtMost, Quantity
<1>3. ASSUME NEW x \in X, NEW n \in 1..N PROVE FoldStep(t, x, n) \in X
  <2>1. CASE n \notin Traded(t)
    BY <2>1 DEF FoldStep
  <2>2. CASE n \in Traded(t)
    <3>1. Pay(t)[n] \in Quantity /\ Weight[n] \in Nat
      BY <2>2, PayIs, TapeIs DEF Fraction, N
    <3>2. WithHour(x, Weight[n], Pay(t)[n]) \in X
      BY <2>2, <3>1, MediantLies
    <3> QED
      BY <2>2, <3>2 DEF FoldStep
  <2> QED
    BY <2>1, <2>2
<1>4. StepsIn(s, N, X)
  <2> HIDE DEF X
  <2> QED
    BY <1>3 DEF StepsIn
<1>5. \A x \in X, n \in 1..N : s[<<x, n>>] = FoldStep(t, x, n)
  OBVIOUS
<1> HIDE DEF s, X
<1>6. PICK f : RunsFrom(f, <<0, 0>>, s, N, X)
  BY <1>1, <1>2, <1>4, LoopRuns
<1>7. \A n \in 1..N : f[n] = FoldStep(t, f[n - 1], n)
  <2> SUFFICES ASSUME NEW n \in 1..N PROVE f[n] = FoldStep(t, f[n - 1], n)
    OBVIOUS
  <2>1. n - 1 \in 0..N
    BY <1>1
  <2>2. f[n - 1] \in X
    BY <1>6, <2>1 DEF RunsFrom
  <2> QED
    BY <1>5, <1>6, <2>2 DEF RunsFrom
<1>8. FoldFix(f, t)
  <2>1. f = [n \in 0..N |-> IF n = 0 THEN <<0, 0>> ELSE FoldStep(t, f[n - 1], n)]
    <3>1. ASSUME NEW n \in 0..N PROVE f[n] = IF n = 0 THEN <<0, 0>> ELSE FoldStep(t, f[n - 1], n)
      <4>1. n # 0 => n \in 1..N
        BY <1>1
      <4> QED
        BY <1>6, <1>7, <4>1 DEF RunsFrom
    <3>2. f \in [0..N -> X]
      BY <1>6 DEF RunsFrom
    <3> QED
      BY <3>1, <3>2
  <2> QED
    BY <2>1, FoldFixIs DEF N
<1>9. FoldFix(FoldOf(t), t)
  BY <1>8 DEF FoldOf
<1>10. ASSUME NEW v, FoldFix(v, t) PROVE v[N] \in X
  <2>1. v = [n \in 0..N |-> IF n = 0 THEN <<0, 0>> ELSE FoldStep(t, v[n - 1], n)]
    BY <1>10, FoldFixIs DEF N
  <2>2. v[0] \in X /\ \A n \in 1..N : v[n] = FoldStep(t, v[n - 1], n)
    BY <1>1, <1>2, <2>1
  <2>3. \A n \in 1..N : v[n - 1] \in X => v[n] \in X
    BY <1>3, <2>2
  <2>4. \A n \in 0..N : v[n] \in X
    BY <1>1, <2>2, <2>3, LoopKeeps
  <2> QED
    BY <1>1, <2>4
<1>11. FoldRates(t) = FoldOf(t)[Len(t.hours)]
  BY DEF FoldRates, FoldOf, FoldFix
<1>12. FoldOf(t)[N] \in X
  BY <1>9, <1>10
<1> QED
  BY <1>11, <1>12 DEF N, X

-----------------------------------------------------------------------------
(* Reading a graph whose market edges are what a digest gives.              *)
DigestEdge == [kind : {"digest"}, rate : Quantity, stock : Nat, vol : Nat, dead : BOOLEAN, quoted : Quantity]
GraphIs(g) == \A a, b \in Cur : HasMarket(g, a, b) => market_edge(g, a, b) \in DigestEdge

LEMMA MarketRateIs ==
    ASSUME NEW g, GraphIs(g), NEW a \in Cur, NEW b \in Cur, Touches(g, a, b)
    PROVE  MarketRate(g, a, b) \in Quantity
<1>1. CASE HasMarket(g, a, b)
  BY <1>1 DEF GraphIs, MarketRate, DigestEdge
<1>2. CASE ~HasMarket(g, a, b)
  <2>1. HasMarket(g, b, a)
    BY <1>2 DEF Touches
  <2>2. market_edge(g, b, a).rate \in Quantity
    BY <2>1 DEF GraphIs, DigestEdge
  <2> QED
    BY <1>2, <2>2, OverIs DEF MarketRate
<1> QED
  BY <1>1, <1>2

LEMMA UnitsIs ==
    ASSUME NEW g, GraphIs(g), NEW u \in Cur, NEW v \in Cur, Touches(g, u, v)
    PROVE  Units(g, u, v) \in Fraction /\ Turnover(g, u, v) \in Fraction
<1>1. ASSUME NEW a \in Cur, NEW b \in Cur PROVE Sold(g, a, b) \in Quantity
  <2>1. CASE HasMarket(g, a, b)
    BY <2>1 DEF GraphIs, Sold, DigestEdge, Quantity
  <2>2. CASE ~HasMarket(g, a, b)
    BY <2>2 DEF Sold, Quantity, Zero
  <2> QED
    BY <2>1, <2>2
<1>2. MarketRate(g, v, u) \in Quantity
  <2>1. Touches(g, v, u)
    BY DEF Touches
  <2> QED
    BY <2>1, MarketRateIs
<1>3. Times(Sold(g, v, u), MarketRate(g, v, u)) \in Quantity
  <2>1. Sold(g, v, u) \in Quantity
    BY <1>1
  <2> QED
    BY <1>2, <2>1, TimesIs DEF Fraction
<1>4. Sold(g, u, v) \in Quantity
  BY <1>1
<1>5. Times(Sold(g, v, u), Over(MarketRate(g, u, v))) \in Quantity
  <2>1. Sold(g, v, u) \in Quantity
    BY <1>1
  <2>2. Over(MarketRate(g, u, v)) \in Quantity
    BY MarketRateIs, OverIs
  <2> QED
    BY <2>1, <2>2, TimesIs DEF Fraction
<1> QED
  BY <1>3, <1>4, <1>5, TimesIs DEF Units, Turnover

-----------------------------------------------------------------------------
(* Value tables: prices, parents and widths of some of the currencies.      *)
RowsOf(V) == UNION {[D -> V] : D \in SUBSET Cur}
Tables == [val : RowsOf(Quantity), by : RowsOf(Cur), width : RowsOf(Fraction)]

TableIs(t) ==
    /\ t \in Tables
    /\ Ref \in DOMAIN t.val /\ t.width[Ref] = INF
    /\ DOMAIN t.width = DOMAIN t.val /\ DOMAIN t.by = DOMAIN t.val \ {Ref}
    /\ \A c \in DOMAIN t.by : t.by[c] \in DOMAIN t.val

\* No set of currencies prices itself.
Grounded(by) == \A S \in SUBSET DOMAIN by : S # {} => \E c \in S : by[c] \notin S

\* Nothing is wider than what it was priced by.
Narrows(t) == \A c \in DOMAIN t.by : AtMost(WidthOf(t, c), WidthOf(t, t.by[c]))

\* Members of B are priced by u from now on.
Moved(t, B, u, p, k) == [val |-> Put(t.val, p), by |-> Put(t.by, [v \in B |-> u]), width |-> Put(t.width, k)]

LEMMA RowsAre ==
    ASSUME NEW V, NEW f
    PROVE  f \in RowsOf(V) <=> DOMAIN f \in SUBSET Cur /\ f \in [DOMAIN f -> V]
  BY DEF RowsOf

Entries(p, B, V) == B \in SUBSET Cur /\ p \in [B -> V]
JoinedRow(r, f, B, p) ==
    DOMAIN r = B \cup DOMAIN f /\ \A c \in B \cup DOMAIN f : r[c] = IF c \in B THEN p[c] ELSE f[c]

LEMMA RowsJoin ==
    ASSUME NEW V, NEW f, f \in RowsOf(V), NEW B, NEW p, Entries(p, B, V), NEW r, r = Put(f, p)
    PROVE  r \in RowsOf(V) /\ JoinedRow(r, f, B, p)
<1> DEFINE D == B \cup DOMAIN f
           j == [c \in D |-> IF c \in B THEN p[c] ELSE f[c]]
<1>1. DOMAIN f \in SUBSET Cur /\ f \in [DOMAIN f -> V]
  BY RowsAre
<1> USE DEF Entries, JoinedRow
<1>2. r = j
  <2>1. DOMAIN p = B
    OBVIOUS
  <2> QED
    BY <2>1 DEF Put
<1>3. j \in [D -> V] /\ D \in SUBSET Cur /\ DOMAIN j = D
  BY <1>1
<1>4. j \in RowsOf(V)
  BY <1>3 DEF RowsOf
<1> HIDE DEF j
<1>5. \A c \in D : j[c] = IF c \in B THEN p[c] ELSE f[c]
  BY DEF j
<1> QED
  BY <1>2, <1>3, <1>4, <1>5

LEMMA WidthIs ==
    ASSUME NEW t, TableIs(t), NEW c
    PROVE  WidthOf(t, c) \in Fraction /\ WidthOf(t, c) \in Quantity
<1>1. t.width \in RowsOf(Fraction)
  BY DEF TableIs, Tables
<1>2. t.width \in [DOMAIN t.width -> Fraction]
  BY <1>1, RowsAre
<1>3. Zero \in Fraction
  BY DEF Zero, Fraction, Quantity
<1>4. WidthOf(t, c) \in Fraction
  BY <1>2, <1>3 DEF WidthOf
<1> QED
  BY <1>4 DEF Fraction

LEMMA MovedIs ==
    ASSUME NEW t, TableIs(t), NEW B \in SUBSET Cur, Ref \notin B, NEW u \in DOMAIN t.val, u \notin B,
           NEW p \in [B -> Quantity], NEW k \in [B -> Fraction], NEW m, m = Moved(t, B, u, p, k)
    PROVE  /\ TableIs(m)
           /\ DOMAIN m.by = B \cup DOMAIN t.by /\ DOMAIN m.val = B \cup DOMAIN t.val
           /\ \A c \in DOMAIN m.by : m.by[c] = IF c \in B THEN u ELSE t.by[c]
           /\ \A c \in Cur : WidthOf(m, c) = IF c \in B THEN k[c] ELSE WidthOf(t, c)
<1>1. t.val \in RowsOf(Quantity) /\ t.by \in RowsOf(Cur) /\ t.width \in RowsOf(Fraction)
  BY DEF TableIs, Tables
<1>2. u \in Cur
  BY <1>1, RowsAre
<1> DEFINE q == [v \in B |-> u]
<1>3. q \in [B -> Cur]
  BY <1>2
<1>4. \A c \in B : q[c] = u
  OBVIOUS
<1> HIDE DEF q
<1>5. m = [val |-> Put(t.val, p), by |-> Put(t.by, q), width |-> Put(t.width, k)]
  BY DEF Moved, q
<1>6. m.val = Put(t.val, p) /\ m.by = Put(t.by, q) /\ m.width = Put(t.width, k)
  BY <1>5
<1>0. Entries(p, B, Quantity) /\ Entries(q, B, Cur) /\ Entries(k, B, Fraction)
  BY <1>3 DEF Entries
<1>a. m.val \in RowsOf(Quantity) /\ JoinedRow(m.val, t.val, B, p)
  BY <1>0, <1>1, <1>6, RowsJoin
<1>b. m.by \in RowsOf(Cur) /\ JoinedRow(m.by, t.by, B, q)
  BY <1>0, <1>1, <1>6, RowsJoin
<1>c. m.width \in RowsOf(Fraction) /\ JoinedRow(m.width, t.width, B, k)
  BY <1>0, <1>1, <1>6, RowsJoin
<1>7. m.val \in RowsOf(Quantity) /\ DOMAIN m.val = B \cup DOMAIN t.val
  BY <1>a DEF JoinedRow
<1>8. /\ m.by \in RowsOf(Cur) /\ DOMAIN m.by = B \cup DOMAIN t.by
      /\ \A c \in B \cup DOMAIN t.by : m.by[c] = IF c \in B THEN q[c] ELSE t.by[c]
  BY <1>b DEF JoinedRow
<1>9. /\ m.width \in RowsOf(Fraction) /\ DOMAIN m.width = B \cup DOMAIN t.width
      /\ \A c \in B \cup DOMAIN t.width : m.width[c] = IF c \in B THEN k[c] ELSE t.width[c]
  BY <1>c DEF JoinedRow
<1>10. m \in Tables
  <2>1. m = [val |-> m.val, by |-> m.by, width |-> m.width]
    BY <1>5, <1>6
  <2> QED
    BY <1>7, <1>8, <1>9, <2>1 DEF Tables
<1>11. \A c \in DOMAIN m.by : m.by[c] = IF c \in B THEN u ELSE t.by[c]
  BY <1>4, <1>8
<1>12. \A c \in DOMAIN m.by : m.by[c] \in DOMAIN m.val
  BY <1>7, <1>8, <1>11 DEF TableIs
<1>13. DOMAIN m.width = DOMAIN m.val /\ DOMAIN m.by = DOMAIN m.val \ {Ref}
  BY <1>7, <1>8, <1>9 DEF TableIs
<1>14. Ref \in DOMAIN m.val /\ m.width[Ref] = INF
  BY <1>7, <1>9 DEF TableIs
<1>15. TableIs(m)
  BY <1>10, <1>12, <1>13, <1>14 DEF TableIs
<1>16. \A c \in Cur : WidthOf(m, c) = IF c \in B THEN k[c] ELSE WidthOf(t, c)
  BY <1>9 DEF WidthOf
<1> QED
  BY <1>7, <1>8, <1>11, <1>15, <1>16

LEMMA NothingIsWider == \A x \in Quantity : ~Smaller(INF, x)
  BY DEF Smaller, INF, Quantity

-----------------------------------------------------------------------------
(* The walk.  What a currency was priced by is off the heap, or was settled *)
(* before, and neither gets another price: so the walk goes round nowhere,  *)
(* and a chain narrows on its way from the reference.                       *)
Walks(settled) ==
    {s \in [t : Tables, done : SUBSET Cur] :
        /\ TableIs(s.t) /\ Grounded(s.t.by) /\ Narrows(s.t)
        /\ s.done \subseteq DOMAIN s.t.val /\ settled \subseteq DOMAIN s.t.val
        /\ \A c \in DOMAIN s.t.by : s.t.by[c] \in s.done \cup settled}

PriceBy(g, t, u, v) == Times(MarketRate(g, v, u), t.val[u])
Cand(g, t, u, v) == Least(t.width[u], Times(Turnover(g, u, v), t.val[u]))
Better(g, s, through, u) ==
    {v \in Cur \ (s.done \cup {u} \cup (IF through THEN DOMAIN s.t.val ELSE {})) :
        /\ Touches(g, u, v) /\ (through \/ ~Dead(g, u, v) \/ ~HasLiveMarket(g, v))
        /\ Believable(v, PriceBy(g, s.t, u, v)) /\ Smaller(WidthOf(s.t, v), Cand(g, s.t, u, v))}
PoppedBy(g, s, u, B) ==
    [t |-> Moved(s.t, B, u, [v \in B |-> PriceBy(g, s.t, u, v)], [v \in B |-> Cand(g, s.t, u, v)]),
     done |-> s.done \cup {u}]

LEMMA PoppedIs ==
    ASSUME NEW g, NEW s, NEW through, NEW open, NEW u,
           open = DOMAIN s.t.val \ s.done, u = Widest(s.t, open)
    PROVE  Popped(g, s, through)
               = IF open = {} THEN s ELSE PoppedBy(g, s, u, Better(g, s, through, u))
  BY Zenon DEF Popped, PoppedBy, Better, Moved, PriceBy, Cand

LEMMA GroundedByOthers ==
    ASSUME NEW t, TableIs(t), Grounded(t.by), NEW B \in SUBSET Cur, NEW u, u \notin B,
           NEW by, DOMAIN by = B \cup DOMAIN t.by, \A c \in DOMAIN by : by[c] = IF c \in B THEN u ELSE t.by[c],
           \A c \in DOMAIN t.by : t.by[c] \notin B
    PROVE  Grounded(by)
<1> SUFFICES ASSUME NEW S \in SUBSET DOMAIN by, S # {} PROVE \E c \in S : by[c] \notin S
  BY DEF Grounded
<1>1. CASE S \subseteq B
  BY <1>1
<1>2. CASE ~(S \subseteq B)
  <2> DEFINE R == S \ B
  <2>1. R # {} /\ R \in SUBSET DOMAIN t.by
    BY <1>2
  <2>2. PICK c \in R : t.by[c] \notin R
    BY <2>1 DEF Grounded
  <2>3. c \in S /\ by[c] = t.by[c] /\ t.by[c] \notin B
    BY <2>1, <2>2
  <2> QED
    BY <2>2, <2>3
<1> QED
  BY <1>1, <1>2

LEMMA PopKeeps ==
    ASSUME NEW g, GraphIs(g), NEW through, NEW settled, through \/ settled = {},
           NEW s \in Walks(settled)
    PROVE  Popped(g, s, through) \in Walks(settled)
<1> DEFINE t == s.t
           open == DOMAIN t.val \ s.done
           u == Widest(t, open)
           B == Better(g, s, through, u)
           p == [v \in B |-> PriceBy(g, t, u, v)]
           k == [v \in B |-> Cand(g, t, u, v)]
           m == Moved(t, B, u, p, k)
<1>1. Popped(g, s, through) = IF open = {} THEN s ELSE PoppedBy(g, s, u, B)
  BY PoppedIs
<1>2. CASE open = {}
  BY <1>1, <1>2
<1>3. CASE open # {}
  <2>1. /\ TableIs(t) /\ Grounded(t.by) /\ Narrows(t) /\ s.done \in SUBSET Cur
        /\ s.done \subseteq DOMAIN t.val /\ settled \subseteq DOMAIN t.val
        /\ \A c \in DOMAIN t.by : t.by[c] \in s.done \cup settled
    BY DEF Walks
  <2>2. /\ t.val \in RowsOf(Quantity) /\ t.width \in RowsOf(Fraction)
        /\ DOMAIN t.width = DOMAIN t.val
    BY <2>1 DEF TableIs, Tables
  <2>3. DOMAIN t.val \in SUBSET Cur /\ t.val \in [DOMAIN t.val -> Quantity] /\ t.width \in [DOMAIN t.val -> Fraction]
    BY <2>2, RowsAre
  <2>4. IsFiniteSet(open)
    <3>1. open \in SUBSET Cur /\ IsFiniteSet(Cur)
      BY <2>3, MarketAssumption
    <3> QED
      BY <3>1, FS_Subset
  <2>5. \E x \in open : \A y \in open : AtMost(t.width[y], t.width[x])
    <3>1. \A x \in open : t.width[x] \in Fraction
      BY <2>3
    <3> QED
      BY <1>3, <2>4, <3>1, GreatestOf
  <2>6. u \in open
    BY <2>5 DEF Widest
  <2>7. u \in DOMAIN t.val /\ u \in Cur /\ u \notin s.done
    BY <2>3, <2>6
  <2>8. B \in SUBSET Cur /\ u \notin B /\ B \cap (s.done \cup settled) = {}
    BY <2>1 DEF Better
  <2>9. \A v \in B : Touches(g, u, v) /\ Smaller(WidthOf(t, v), Cand(g, t, u, v))
    BY DEF Better
  <2>10. \A v \in B : /\ PriceBy(g, t, u, v) \in Quantity
                      /\ Cand(g, t, u, v) \in Fraction /\ AtMost(Cand(g, t, u, v), t.width[u])
    <3> SUFFICES ASSUME NEW v \in B
                 PROVE  /\ PriceBy(g, t, u, v) \in Quantity
                        /\ Cand(g, t, u, v) \in Fraction /\ AtMost(Cand(g, t, u, v), t.width[u])
      OBVIOUS
    <3>1. v \in Cur /\ Touches(g, u, v) /\ Touches(g, v, u)
      BY <2>8, <2>9 DEF Touches
    <3>2. MarketRate(g, v, u) \in Quantity /\ Turnover(g, u, v) \in Fraction
      BY <2>7, <3>1, MarketRateIs, UnitsIs
    <3>3. t.val[u] \in Quantity /\ t.width[u] \in Fraction
      BY <2>3, <2>7
    <3>4. Times(MarketRate(g, v, u), t.val[u]) \in Quantity
      BY <3>2, <3>3, TimesIs DEF Fraction
    <3>5. Times(Turnover(g, u, v), t.val[u]) \in Fraction
      BY <3>2, <3>3, TimesIs DEF Fraction
    <3> QED
      BY <3>3, <3>4, <3>5, LeastIs DEF PriceBy, Cand
  <2>11. Ref \notin B
    <3>1. WidthOf(t, Ref) = INF
      BY <2>1 DEF TableIs, WidthOf
    <3>2. \A v \in B : Cand(g, t, u, v) \in Quantity
      BY <2>10 DEF Fraction
    <3> QED
      BY <2>9, <3>1, <3>2, NothingIsWider
  <2>12. p \in [B -> Quantity] /\ k \in [B -> Fraction] /\ \A v \in B : k[v] = Cand(g, t, u, v)
    BY <2>10
  <2>13. PoppedBy(g, s, u, B) = [t |-> m, done |-> s.done \cup {u}]
    BY DEF PoppedBy
  <2> HIDE DEF open, u, B, p, k
  <2>14. /\ TableIs(m) /\ DOMAIN m.by = B \cup DOMAIN t.by /\ DOMAIN m.val = B \cup DOMAIN t.val
         /\ \A c \in DOMAIN m.by : m.by[c] = IF c \in B THEN u ELSE t.by[c]
         /\ \A c \in Cur : WidthOf(m, c) = IF c \in B THEN k[c] ELSE WidthOf(t, c)
    <3> HIDE DEF t
    <3> QED
      BY <2>1, <2>7, <2>8, <2>11, <2>12, MovedIs
  <2> HIDE DEF m
  <2>15. \A c \in DOMAIN t.by : t.by[c] \notin B /\ t.by[c] \in Cur
    BY <2>1, <2>3, <2>8
  <2>16. Grounded(m.by)
    <3> HIDE DEF t
    <3> QED
      BY <2>1, <2>8, <2>14, <2>15, GroundedByOthers
  <2>17. Narrows(m)
    <3> SUFFICES ASSUME NEW c \in DOMAIN m.by PROVE AtMost(WidthOf(m, c), WidthOf(m, m.by[c]))
      BY DEF Narrows
    <3>1. CASE c \in B
      <4>1. m.by[c] = u /\ WidthOf(m, u) = WidthOf(t, u) /\ WidthOf(m, c) = Cand(g, t, u, c) /\ c \in Cur
        BY <2>7, <2>8, <2>12, <2>14, <3>1
      <4>2. WidthOf(t, u) = t.width[u]
        BY <2>2, <2>7 DEF WidthOf
      <4> QED
        BY <2>10, <3>1, <4>1, <4>2
    <3>2. CASE c \notin B
      <4>1. c \in DOMAIN t.by /\ m.by[c] = t.by[c]
        BY <2>14, <3>2
      <4>2. c \in Cur
        BY <2>1, <2>3, <4>1 DEF TableIs
      <4>3. WidthOf(m, c) = WidthOf(t, c) /\ WidthOf(m, t.by[c]) = WidthOf(t, t.by[c])
        BY <2>14, <2>15, <3>2, <4>1, <4>2
      <4> QED
        BY <2>1, <4>1, <4>3 DEF Narrows
    <3> QED
      BY <3>1, <3>2
  <2>18. \A c \in DOMAIN m.by : m.by[c] \in (s.done \cup {u}) \cup settled
    BY <2>1, <2>14
  <2>19. [t |-> m, done |-> s.done \cup {u}] \in Walks(settled)
    <3> DEFINE r == [t |-> m, done |-> s.done \cup {u}]
    <3>1. r.t = m /\ r.done = s.done \cup {u}
      OBVIOUS
    <3>2. m \in Tables
      BY <2>14 DEF TableIs
    <3>3. s.done \cup {u} \in SUBSET Cur /\ s.done \cup {u} \subseteq DOMAIN m.val /\ settled \subseteq DOMAIN m.val
      BY <2>1, <2>7, <2>14
    <3>4. r \in [t : Tables, done : SUBSET Cur]
      BY <3>2, <3>3
    <3> HIDE DEF r
    <3> QED
      BY <2>14, <2>16, <2>17, <2>18, <3>1, <3>3, <3>4 DEF Walks
  <2> QED
    BY <1>1, <1>3, <2>13, <2>19
<1> QED
  BY <1>2, <1>3

Chained(t) == TableIs(t) /\ Grounded(t.by) /\ Narrows(t)

HeapFix(f, g, t, through) ==
    f = [n \in 0..Cardinality(Cur) |->
            IF n = 0 THEN [t |-> t, done |-> {}] ELSE Popped(g, f[n - 1], through)]
HeapOf(g, t, through) == CHOOSE f : HeapFix(f, g, t, through)

LEMMA RelaxKeeps ==
    ASSUME NEW g, GraphIs(g), NEW t, Chained(t), NEW through, NEW settled, through \/ settled = {},
           settled \subseteq DOMAIN t.val, \A c \in DOMAIN t.by : t.by[c] \in settled
    PROVE  Chained(Relax(g, t, through))
<1> DEFINE N == Cardinality(Cur)
           X == Walks(settled)
           b == [t |-> t, done |-> {}]
           s == [y \in X \X (1..N) |-> Popped(g, y[1], through)]
<1>1. N \in Nat
  BY MarketAssumption, FS_CardinalityType
<1>2. b \in X
  <2>1. b.t = t /\ b.done = {}
    OBVIOUS
  <2>2. b \in [t : Tables, done : SUBSET Cur]
    BY DEF Chained, TableIs
  <2> HIDE DEF b
  <2> QED
    BY <2>1, <2>2 DEF Walks, Chained
<1>3. \A x \in X : Popped(g, x, through) \in X
  BY PopKeeps
<1> HIDE DEF X, N, b
<1>4. StepsIn(s, N, X)
  BY <1>3 DEF StepsIn
<1>5. \A x \in X, n \in 1..N : s[<<x, n>>] = Popped(g, x, through)
  OBVIOUS
<1> HIDE DEF s
<1>6. PICK f : RunsFrom(f, b, s, N, X)
  BY <1>1, <1>2, <1>4, LoopRuns
<1>7. ASSUME NEW n \in 0..N PROVE f[n] = IF n = 0 THEN b ELSE Popped(g, f[n - 1], through)
  <2>1. CASE n = 0
    BY <1>6, <2>1 DEF RunsFrom
  <2>2. CASE n # 0
    <3>1. n \in 1..N /\ n - 1 \in 0..N
      BY <1>1, <2>2
    <3>2. f[n - 1] \in X
      BY <1>6, <3>1 DEF RunsFrom
    <3> QED
      BY <1>5, <1>6, <2>2, <3>1, <3>2 DEF RunsFrom
  <2> QED
    BY <2>1, <2>2
<1>8. HeapFix(f, g, t, through)
  <2>1. f \in [0..N -> X]
    BY <1>6 DEF RunsFrom
  <2>2. f = [n \in 0..N |-> IF n = 0 THEN b ELSE Popped(g, f[n - 1], through)]
    BY <1>7, <2>1
  <2> QED
    BY <2>2 DEF HeapFix, N, b
<1>9. HeapFix(HeapOf(g, t, through), g, t, through)
  BY <1>8 DEF HeapOf
<1>10. ASSUME NEW v, HeapFix(v, g, t, through) PROVE v[N] \in X
  <2>1. v = [n \in 0..N |-> IF n = 0 THEN b ELSE Popped(g, v[n - 1], through)]
    BY <1>10 DEF HeapFix, N, b
  <2>2. v[0] \in X /\ \A n \in 1..N : v[n] = Popped(g, v[n - 1], through)
    BY <1>1, <1>2, <2>1
  <2>3. \A n \in 1..N : v[n - 1] \in X => v[n] \in X
    BY <1>3, <2>2
  <2>4. \A n \in 0..N : v[n] \in X
    BY <1>1, <2>2, <2>3, LoopKeeps
  <2> QED
    BY <1>1, <2>4
<1>11. Relax(g, t, through) = HeapOf(g, t, through)[N].t
  BY DEF Relax, HeapOf, HeapFix, N
<1>12. HeapOf(g, t, through)[N] \in X
  BY <1>9, <1>10
<1> QED
  BY <1>11, <1>12 DEF X, Walks, Chained

LEMMA WalkedIs ==
    ASSUME NEW g, GraphIs(g)
    PROVE  Chained(Walked(g))
<1> DEFINE start == [val |-> Only(Ref, One), by |-> <<>>, width |-> Only(Ref, INF)]
           passed == Relax(g, start, FALSE)
<1>1. Ref \in Cur
  BY MarketAssumption
<1>2. One \in Quantity /\ INF \in Fraction
  BY DEF One, INF, Quantity, Fraction
<1>3. start.val = Only(Ref, One) /\ start.by = <<>> /\ start.width = Only(Ref, INF)
  OBVIOUS
<1>4. Only(Ref, One) \in RowsOf(Quantity) /\ Only(Ref, INF) \in RowsOf(Fraction)
  <2>1. {Ref} \in SUBSET Cur /\ Only(Ref, One) \in [{Ref} -> Quantity] /\ Only(Ref, INF) \in [{Ref} -> Fraction]
    BY <1>1, <1>2 DEF Only
  <2> QED
    BY <2>1 DEF RowsOf
<1>5. <<>> \in RowsOf(Cur) /\ DOMAIN <<>> = {}
  <2>1. DOMAIN <<>> = {}
    OBVIOUS
  <2>2. <<>> \in [{} -> Cur]
    OBVIOUS
  <2> QED
    BY <2>1, <2>2, RowsAre
<1>6. DOMAIN Only(Ref, One) = {Ref} /\ DOMAIN Only(Ref, INF) = {Ref} /\ Only(Ref, INF)[Ref] = INF
  BY DEF Only
<1>7. start \in Tables
  BY <1>4, <1>5 DEF Tables
<1> HIDE DEF start
<1>8. TableIs(start)
  BY <1>3, <1>5, <1>6, <1>7 DEF TableIs
<1>9. Chained(start)
  BY <1>3, <1>5, <1>8 DEF Chained, Grounded, Narrows
<1>10. Chained(passed)
  BY <1>3, <1>5, <1>9, RelaxKeeps
<1>11. Walked(g) = Relax(g, passed, TRUE)
  BY DEF Walked, start
<1> HIDE DEF passed
<1>12. \A c \in DOMAIN passed.by : passed.by[c] \in DOMAIN passed.val
  BY <1>10 DEF Chained, TableIs
<1> QED
  BY <1>10, <1>11, <1>12, RelaxKeeps

-----------------------------------------------------------------------------
(* The last words.  As long as nobody has had a word on a, everything that  *)
(* gets its price by way of a is at most as wide as a.  So a counterpart    *)
(* wider than c is none of those priced by way of c, and moving c under it  *)
(* closes no circle; what it closes is a set that holds for the rest.       *)
HoldsUp(t, D, a) ==
    /\ D \in SUBSET Cur /\ a \in D
    /\ \A d \in DOMAIN t.by : t.by[d] \in D => d \in D
    /\ \A d \in D : AtMost(WidthOf(t, d), WidthOf(t, a))
AheadOf(t, a) == \E D : HoldsUp(t, D, a)

LEMMA ChainedIsAhead ==
    ASSUME NEW t, Chained(t), NEW a \in Cur
    PROVE  AheadOf(t, a)
<1> DEFINE D == {d \in Cur : AtMost(WidthOf(t, d), WidthOf(t, a))}
<1>1. TableIs(t) /\ Narrows(t)
  BY DEF Chained
<1>2. \A d : WidthOf(t, d) \in Fraction /\ WidthOf(t, d) \in Quantity
  BY <1>1, WidthIs
<1>3. a \in D
  BY <1>2, AtMostIsTotal
<1>4. ASSUME NEW d \in DOMAIN t.by, t.by[d] \in D PROVE d \in D
  <2>1. AtMost(WidthOf(t, d), WidthOf(t, t.by[d])) /\ AtMost(WidthOf(t, t.by[d]), WidthOf(t, a))
    BY <1>1, <1>4 DEF Narrows
  <2>2. d \in Cur
    BY <1>1, RowsAre DEF TableIs, Tables
  <2> QED
    BY <1>2, <2>1, <2>2, AtMostIsTransitive
<1>5. HoldsUp(t, D, a)
  BY <1>3, <1>4 DEF HoldsUp
<1> QED
  BY <1>5 DEF AheadOf

LEMMA MovesStayGrounded ==
    ASSUME NEW t, TableIs(t), Grounded(t.by), NEW c, NEW b, NEW D, HoldsUp(t, D, c), b \notin D,
           NEW by, DOMAIN by = {c} \cup DOMAIN t.by, \A d \in DOMAIN by : by[d] = IF d = c THEN b ELSE t.by[d]
    PROVE  Grounded(by)
<1> SUFFICES ASSUME NEW S \in SUBSET DOMAIN by, S # {}, \A d \in S : by[d] \in S PROVE FALSE
  BY DEF Grounded
<1> DEFINE R == S \ D
<1>1. c \in D /\ \A d \in DOMAIN t.by : t.by[d] \in D => d \in D
  BY DEF HoldsUp
<1>2. R \in SUBSET DOMAIN t.by
  BY <1>1
<1>3. \A d \in R : by[d] = t.by[d] /\ by[d] \in S /\ by[d] \notin D
  BY <1>1, <1>2
<1>4. R = {}
  BY <1>2, <1>3 DEF Grounded
<1>5. S \subseteq D
  BY <1>4
<1>6. c \notin S
  BY <1>5
<1>7. S \in SUBSET DOMAIN t.by /\ \A d \in S : by[d] = t.by[d]
  BY <1>6
<1> QED
  BY <1>7 DEF Grounded

LEMMA MovesStayAhead ==
    ASSUME NEW t, TableIs(t), NEW c \in Cur, NEW b, NEW D, HoldsUp(t, D, c), Smaller(WidthOf(t, c), WidthOf(t, b)),
           NEW a \in Cur, a # c, AheadOf(t, a),
           NEW m, TableIs(m), DOMAIN m.by = {c} \cup DOMAIN t.by,
           \A d \in DOMAIN m.by : m.by[d] = IF d = c THEN b ELSE t.by[d],
           \A d \in Cur : d # c => WidthOf(m, d) = WidthOf(t, d),
           AtMost(WidthOf(m, c), WidthOf(t, b))
    PROVE  AheadOf(m, a)
<1>1. PICK E : HoldsUp(t, E, a)
  BY DEF AheadOf
<1>2. \A d : WidthOf(t, d) \in Fraction /\ WidthOf(m, d) \in Fraction /\ WidthOf(t, d) \in Quantity
  BY WidthIs
<1>3. CASE b \in E
  <2> DEFINE F == E \cup D
  <2>1. F \in SUBSET Cur /\ a \in F
    BY <1>1 DEF HoldsUp
  <2>2. \A d \in DOMAIN m.by : m.by[d] \in F => d \in F
    BY <1>1 DEF HoldsUp
  <2>3. AtMost(WidthOf(t, b), WidthOf(t, a))
    BY <1>1, <1>3 DEF HoldsUp
  <2>4. AtMost(WidthOf(t, c), WidthOf(t, b))
    BY <1>2, AtMostIsTotal
  <2>5. AtMost(WidthOf(t, c), WidthOf(t, a))
    BY <1>2, <2>3, <2>4, AtMostIsTransitive
  <2>6. \A d \in D : AtMost(WidthOf(t, d), WidthOf(t, a))
    <3> SUFFICES ASSUME NEW d \in D PROVE AtMost(WidthOf(t, d), WidthOf(t, a))
      OBVIOUS
    <3>1. AtMost(WidthOf(t, d), WidthOf(t, c))
      BY DEF HoldsUp
    <3> QED
      BY <1>2, <2>5, <3>1, AtMostIsTransitive
  <2>7. AtMost(WidthOf(m, c), WidthOf(t, a))
    BY <1>2, <2>3, AtMostIsTransitive
  <2>8. \A d \in E : AtMost(WidthOf(t, d), WidthOf(t, a))
    BY <1>1 DEF HoldsUp
  <2>9. WidthOf(m, a) = WidthOf(t, a)
    OBVIOUS
  <2>10. \A d \in F : AtMost(WidthOf(m, d), WidthOf(m, a))
    BY <2>1, <2>6, <2>7, <2>8, <2>9
  <2>11. HoldsUp(m, F, a)
    BY <2>1, <2>2, <2>10 DEF HoldsUp
  <2> QED
    BY <2>11 DEF AheadOf
<1>4. CASE b \notin E
  <2> DEFINE F == E \ {c}
  <2>1. F \in SUBSET Cur /\ a \in F
    BY <1>1 DEF HoldsUp
  <2>2. ASSUME NEW d \in DOMAIN m.by, m.by[d] \in F PROVE d \in F
    <3>1. d # c
      BY <1>4, <2>2
    <3>2. d \in DOMAIN t.by /\ t.by[d] \in E
      BY <2>2, <3>1
    <3> QED
      BY <1>1, <3>1, <3>2 DEF HoldsUp
  <2>3. \A d \in F : AtMost(WidthOf(m, d), WidthOf(m, a))
    BY <1>1, <2>1 DEF HoldsUp
  <2>4. HoldsUp(m, F, a)
    BY <2>1, <2>2, <2>3 DEF HoldsUp
  <2> QED
    BY <2>4 DEF AheadOf
<1> QED
  BY <1>3, <1>4

\* The counterparts by volume are counterparts.
Counterparts(g, of) == \A c \in DOMAIN of : of[c] \in Cur /\ Touches(g, c, of[c])

LEMMA LastWordKeeps ==
    ASSUME NEW g, GraphIs(g), Counterparts(g, busiest), NEW t, TableIs(t), NEW c \in Cur
    PROVE  /\ TableIs(LastWord(g, t, c))
           /\ Grounded(t.by) /\ AheadOf(t, c) => Grounded(LastWord(g, t, c).by)
           /\ AheadOf(t, c) => \A a \in Cur : a # c /\ AheadOf(t, a) => AheadOf(LastWord(g, t, c), a)
<1> DEFINE b == busiest[c]
           m == LastWord(g, t, c)
           x == Times(MarketRate(g, c, b), t.val[b])
           w == Least(t.width[b], Times(Turnover(g, b, c), t.val[b]))
<1>1. CASE c = Ref \/ c \notin DOMAIN busiest \/ b \notin DOMAIN t.val \/ ~Closer(t, b, c) \/ Mutual(t, b, c)
  <2>1. m = t
    BY <1>1 DEF LastWord
  <2> QED
    BY <2>1
<1>2. CASE ~(c = Ref \/ c \notin DOMAIN busiest \/ b \notin DOMAIN t.val \/ ~Closer(t, b, c) \/ Mutual(t, b, c))
  <2>1. c # Ref /\ c \in DOMAIN busiest /\ b \in DOMAIN t.val /\ Smaller(WidthOf(t, c), WidthOf(t, b))
    BY <1>2 DEF Closer
  <2>2. b \in Cur /\ Touches(g, c, b) /\ Touches(g, b, c)
    BY <2>1 DEF Counterparts, Touches
  <2>3. t.val[b] \in Quantity /\ t.width[b] \in Fraction /\ WidthOf(t, b) = t.width[b]
    BY <2>1, RowsAre DEF TableIs, Tables, WidthOf
  <2>4. b # c
    <3>1. WidthOf(t, c) \in Quantity /\ AtMost(WidthOf(t, c), WidthOf(t, c))
      BY WidthIs, AtMostIsTotal
    <3> QED
      BY <2>1, <3>1, AtMostIsTotal
  <2>5. x \in Quantity
    <3>1. MarketRate(g, c, b) \in Quantity
      BY <2>2, MarketRateIs
    <3> QED
      BY <2>3, <3>1, TimesIs DEF Fraction
  <2>6. w \in Fraction /\ AtMost(w, WidthOf(t, b))
    <3>1. Turnover(g, b, c) \in Quantity
      BY <2>2, UnitsIs DEF Fraction
    <3>2. Times(Turnover(g, b, c), t.val[b]) \in Fraction
      BY <2>3, <3>1, TimesIs
    <3> QED
      BY <2>3, <3>2, LeastIs
  <2>7. m = [val |-> Put(t.val, Only(c, x)), by |-> Put(t.by, Only(c, b)), width |-> Put(t.width, Only(c, w))]
    BY <1>2 DEF LastWord
  <2> HIDE DEF x, w, b
  <2>8. m = Moved(t, {c}, b, Only(c, x), Only(c, w))
    BY <2>7 DEF Moved, Only
  <2>9. Only(c, x) \in [{c} -> Quantity] /\ Only(c, w) \in [{c} -> Fraction] /\ Only(c, w)[c] = w
    BY <2>5, <2>6 DEF Only
  <2> HIDE DEF m
  <2>10. /\ TableIs(m) /\ DOMAIN m.by = {c} \cup DOMAIN t.by
         /\ \A d \in DOMAIN m.by : m.by[d] = IF d \in {c} THEN b ELSE t.by[d]
         /\ \A d \in Cur : WidthOf(m, d) = IF d \in {c} THEN Only(c, w)[d] ELSE WidthOf(t, d)
    <3> DEFINE B == {c}
               p == Only(c, x)
               k == Only(c, w)
    <3>1. B \in SUBSET Cur /\ Ref \notin B /\ b \notin B
      BY <2>1, <2>4
    <3>2. p \in [B -> Quantity] /\ k \in [B -> Fraction] /\ m = Moved(t, B, b, p, k)
      BY <2>8, <2>9
    <3> HIDE DEF B, p, k
    <3>3. /\ TableIs(m) /\ DOMAIN m.by = B \cup DOMAIN t.by
          /\ \A d \in DOMAIN m.by : m.by[d] = IF d \in B THEN b ELSE t.by[d]
          /\ \A d \in Cur : WidthOf(m, d) = IF d \in B THEN k[d] ELSE WidthOf(t, d)
      BY <2>1, <3>1, <3>2, MovedIs
    <3> QED
      BY <3>3 DEF B, k
  <2>11. \A d \in DOMAIN m.by : m.by[d] = IF d = c THEN b ELSE t.by[d]
    BY <2>10
  <2>12. (\A d \in Cur : d # c => WidthOf(m, d) = WidthOf(t, d)) /\ WidthOf(m, c) = w
    BY <2>9, <2>10
  <2>13. ASSUME NEW D, HoldsUp(t, D, c) PROVE b \notin D
    <3>1. b \in D => AtMost(WidthOf(t, b), WidthOf(t, c))
      BY <2>13 DEF HoldsUp
    <3>2. WidthOf(t, b) \in Quantity /\ WidthOf(t, c) \in Quantity
      BY WidthIs
    <3> QED
      BY <2>1, <3>1, <3>2, AtMostIsTotal
  <2>14. ASSUME Grounded(t.by), AheadOf(t, c) PROVE Grounded(m.by)
    <3> DEFINE by == m.by
    <3>1. PICK D : HoldsUp(t, D, c)
      BY <2>14 DEF AheadOf
    <3>2. b \notin D
      BY <2>13, <3>1
    <3>3. DOMAIN by = {c} \cup DOMAIN t.by /\ \A d \in DOMAIN by : by[d] = IF d = c THEN b ELSE t.by[d]
      BY <2>10, <2>11
    <3> HIDE DEF by
    <3>4. Grounded(by)
      BY <2>14, <3>1, <3>2, <3>3, MovesStayGrounded
    <3> QED
      BY <3>4 DEF by
  <2>15. ASSUME AheadOf(t, c), NEW a \in Cur, a # c, AheadOf(t, a) PROVE AheadOf(m, a)
    <3>1. PICK D : HoldsUp(t, D, c)
      BY <2>15 DEF AheadOf
    <3> QED
      BY <2>1, <2>6, <2>10, <2>11, <2>12, <2>15, <3>1, MovesStayAhead
  <2> QED
    BY <2>10, <2>14, <2>15 DEF m
<1> QED
  BY <1>1, <1>2

SaidFix(f, g) == f = [n \in 0..Len(order) |-> IF n = 0 THEN Walked(g) ELSE LastWord(g, f[n - 1], order[n])]
SaidOf(g) == CHOOSE f : SaidFix(f, g)

\* After n words: whoever has had none is ahead of what it prices.
AfterWords(t, n) ==
    /\ TableIs(t) /\ Grounded(t.by)
    /\ \A a \in Cur : (\A i \in 1..n : order[i] # a) => AheadOf(t, a)

LEMMA WordKeepsOrder ==
    ASSUME NEW g, GraphIs(g), Counterparts(g, busiest), order \in Orders,
           NEW n \in 1..Len(order), NEW t, AfterWords(t, n - 1)
    PROVE  AfterWords(LastWord(g, t, order[n]), n)
<1> DEFINE c == order[n]
           m == LastWord(g, t, c)
<1>1. /\ order \in Seq(Cur) /\ \A i, j \in DOMAIN order : order[i] = order[j] => i = j
  BY MarketAssumption
<1>2. Len(order) \in Nat /\ DOMAIN order = 1..Len(order)
  BY <1>1, LenProperties
<1>3. c \in Cur
  BY <1>1, <1>2
<1>4. \A i \in 1..(n - 1) : order[i] # c
  <2> SUFFICES ASSUME NEW i \in 1..(n - 1) PROVE order[i] # c
    OBVIOUS
  <2>1. i \in DOMAIN order /\ n \in DOMAIN order /\ i # n
    BY <1>2
  <2> QED
    BY <1>1, <2>1
<1>5. TableIs(t) /\ Grounded(t.by) /\ AheadOf(t, c)
  BY <1>3, <1>4 DEF AfterWords
<1> HIDE DEF c, m
<1>6. /\ TableIs(m) /\ Grounded(m.by)
      /\ \A a \in Cur : a # c /\ AheadOf(t, a) => AheadOf(m, a)
  BY <1>3, <1>5, LastWordKeeps DEF m
<1>7. ASSUME NEW a \in Cur, \A i \in 1..n : order[i] # a PROVE AheadOf(m, a)
  <2>1. n \in 1..n /\ \A i \in 1..(n - 1) : i \in 1..n
    BY <1>2
  <2>2. a # c
    BY <1>7, <2>1 DEF c
  <2>3. AheadOf(t, a)
    BY <1>7, <2>1 DEF AfterWords
  <2> QED
    BY <1>6, <2>2, <2>3
<1> QED
  BY <1>6, <1>7 DEF AfterWords, m, c

LEMMA WordsEnd ==
    ASSUME NEW g, GraphIs(g), Counterparts(g, busiest), order \in Orders
    PROVE  TableIs(LastWords(g)) /\ Grounded(LastWords(g).by)
<1> DEFINE N == Len(order)
           X == {t \in Tables : TableIs(t)}
           b == Walked(g)
           s == [y \in X \X (1..N) |-> LastWord(g, y[1], order[y[2]])]
<1>1. N \in Nat /\ \A n \in 1..N : order[n] \in Cur
  <2>1. order \in Seq(Cur)
    BY MarketAssumption
  <2> QED
    BY <2>1, LenProperties, ElementOfSeq
<1>2. Chained(b)
  BY WalkedIs
<1>3. b \in X
  BY <1>2 DEF Chained, TableIs
<1>4. ASSUME NEW x \in X, NEW n \in 1..N PROVE LastWord(g, x, order[n]) \in X
  <2>1. order[n] \in Cur /\ TableIs(x)
    BY <1>1
  <2>2. TableIs(LastWord(g, x, order[n]))
    BY <2>1, LastWordKeeps
  <2> QED
    BY <2>2 DEF TableIs
<1> HIDE DEF X, N, b
<1>5. StepsIn(s, N, X)
  BY <1>4 DEF StepsIn
<1>6. \A x \in X, n \in 1..N : s[<<x, n>>] = LastWord(g, x, order[n])
  OBVIOUS
<1> HIDE DEF s
<1>7. PICK f : RunsFrom(f, b, s, N, X)
  BY <1>1, <1>3, <1>5, LoopRuns
<1>8. ASSUME NEW n \in 0..N PROVE f[n] = IF n = 0 THEN b ELSE LastWord(g, f[n - 1], order[n])
  <2>1. CASE n = 0
    BY <1>7, <2>1 DEF RunsFrom
  <2>2. CASE n # 0
    <3>1. n \in 1..N /\ n - 1 \in 0..N
      BY <1>1, <2>2
    <3>2. f[n - 1] \in X
      BY <1>7, <3>1 DEF RunsFrom
    <3> QED
      BY <1>6, <1>7, <2>2, <3>1, <3>2 DEF RunsFrom
  <2> QED
    BY <2>1, <2>2
<1>9. SaidFix(f, g)
  <2>1. f \in [0..N -> X]
    BY <1>7 DEF RunsFrom
  <2>2. f = [n \in 0..N |-> IF n = 0 THEN b ELSE LastWord(g, f[n - 1], order[n])]
    BY <1>8, <2>1
  <2> QED
    BY <2>2 DEF SaidFix, N, b
<1>10. SaidFix(SaidOf(g), g)
  BY <1>9 DEF SaidOf
<1>11. ASSUME NEW v, SaidFix(v, g) PROVE AfterWords(v[N], N)
  <2> DEFINE C == {n \in Nat : n <= N => AfterWords(v[n], n)}
  <2>1. v = [n \in 0..N |-> IF n = 0 THEN b ELSE LastWord(g, v[n - 1], order[n])]
    BY <1>11 DEF SaidFix, N, b
  <2>2. v[0] = b /\ \A n \in 1..N : v[n] = LastWord(g, v[n - 1], order[n])
    BY <1>1, <2>1
  <2>3. 0 \in C
    <3>1. \A a \in Cur : AheadOf(b, a)
      BY <1>2, ChainedIsAhead
    <3>2. AfterWords(b, 0)
      BY <1>2, <3>1 DEF AfterWords, Chained
    <3> QED
      BY <2>2, <3>2
  <2>4. ASSUME NEW n \in Nat, n \in C PROVE n + 1 \in C
    <3> SUFFICES ASSUME n + 1 <= N PROVE AfterWords(v[n + 1], n + 1)
      OBVIOUS
    <3>1. n + 1 \in 1..N /\ (n + 1) - 1 = n /\ AfterWords(v[n], n)
      BY <1>1, <2>4
    <3>2. v[n + 1] = LastWord(g, v[n], order[n + 1])
      BY <2>2, <3>1
    <3> DEFINE j == n + 1
    <3>3. j \in 1..Len(order) /\ AfterWords(v[n], j - 1)
      BY <3>1 DEF N
    <3> HIDE DEF j
    <3>4. AfterWords(LastWord(g, v[n], order[j]), j)
      BY <3>3, WordKeepsOrder
    <3> QED
      BY <3>2, <3>4 DEF j
  <2> HIDE DEF C
  <2>5. Nat \subseteq C
    BY <2>3, <2>4, EveryNumber
  <2> QED
    BY <1>1, <2>5 DEF C
<1>12. LastWords(g) = SaidOf(g)[N]
  BY DEF LastWords, SaidOf, SaidFix, N
<1>13. AfterWords(SaidOf(g)[N], N)
  BY <1>10, <1>11
<1> QED
  BY <1>12, <1>13 DEF AfterWords

LEMMA ChainsEnd ==
    ASSUME NEW g, GraphIs(g), Counterparts(g, busiest), order \in Orders, NEW by, by = _widest_values(g).by
    PROVE  /\ \A c \in DOMAIN by : by[c] \in DOMAIN by \cup {Ref}
           /\ Grounded(by)
<1> DEFINE t == LastWords(g)
<1>1. by = t.by
  BY DEF _widest_values
<1>2. TableIs(t) /\ Grounded(t.by)
  BY WordsEnd
<1> HIDE DEF t
<1>3. \A c \in DOMAIN t.by : t.by[c] \in DOMAIN t.by \cup {Ref}
  BY <1>2 DEF TableIs
<1> QED
  BY <1>1, <1>2, <1>3

-----------------------------------------------------------------------------
(* The edges a digest gives.  A market is bought at one price and sold at    *)
(* another, both of which its hours paid.                                    *)

\* The tape behind a pair's edge.
Traceable(p) == p \in Markets \/ <<p[2], p[1]>> \in Markets
TapeOf(p) == IF p \in Markets THEN tape[p] ELSE tape[<<p[2], p[1]>>]

IsDead(t) == AtMost(Times(Wide, Cheapest(t)), Dearest(t)) /\ ~Deep(t, FoldRates(t))

\* What a tape's market is bought and sold at, at the window rate if `asked`.
Bought(t, asked) == IF IsDead(t) /\ ~asked THEN Dearest(t) ELSE FoldRates(t)
Gets(t, asked) == IF IsDead(t) /\ ~asked THEN Cheapest(t) ELSE FoldRates(t)
RateOf(p, asked) == IF p \in Markets THEN Over(Bought(TapeOf(p), asked)) ELSE Gets(TapeOf(p), asked)

ReadAs(p, asked, e) == e \in DigestEdge /\ Traceable(p) /\ Traded(TapeOf(p)) # {} /\ e.rate = RateOf(p, asked)
JustRead(p, e) == ReadAs(p, FALSE, e) /\ e.dead = IsDead(TapeOf(p)) /\ e.quoted = RateOf(p, TRUE)

LEMMA SidesLie ==
    ASSUME NEW t \in Tapes, Traded(t) # {}, NEW asked \in BOOLEAN
    PROVE  /\ Bought(t, asked) \in Quantity /\ Gets(t, asked) \in Quantity
           /\ AtMost(Gets(t, asked), Bought(t, asked))
           /\ AtMost(Cheapest(t), Bought(t, asked)) /\ AtMost(Bought(t, asked), Dearest(t))
<1> DEFINE lo == Cheapest(t)
           hi == Dearest(t)
           px == FoldRates(t)
<1>1. /\ lo \in Quantity /\ hi \in Quantity /\ AtMost(lo, hi)
      /\ \A i \in Traded(t) : AtMost(lo, Pay(t)[i]) /\ AtMost(Pay(t)[i], hi)
  BY BoundsAreHours DEF Fraction
<1>2. px \in Quantity /\ AtMost(lo, px) /\ AtMost(px, hi)
  <2> HIDE DEF lo, hi
  <2> QED
    BY <1>1, RateLiesBetween
<1>3. \A x \in Quantity : AtMost(x, x)
  <2> SUFFICES ASSUME NEW x \in Quantity PROVE AtMost(x, x)
    OBVIOUS
  <2>1. PICK n \in Nat, d \in Nat : x[1] = n /\ x[2] = d
    BY DEF Quantity
  <2>2. n * d \in Nat
    BY Products
  <2> QED
    BY <2>1, <2>2 DEF AtMost
<1> HIDE DEF lo, hi, px
<1>4. /\ Bought(t, asked) = IF IsDead(t) /\ ~asked THEN hi ELSE px
      /\ Gets(t, asked) = IF IsDead(t) /\ ~asked THEN lo ELSE px
  BY DEF Bought, Gets, lo, hi, px
<1>5. CASE IsDead(t) /\ ~asked
  BY <1>1, <1>3, <1>4, <1>5 DEF lo, hi
<1>6. CASE ~(IsDead(t) /\ ~asked)
  BY <1>2, <1>3, <1>4, <1>6 DEF lo, hi
<1> QED
  BY <1>5, <1>6

LEMMA DirectedIs ==
    ASSUME NEW t \in Tapes, NEW out \in {"a", "b"}, Directed(t, out) # NoEdge
    PROVE  /\ Directed(t, out) \in DigestEdge /\ Traded(t) # {}
           /\ Directed(t, out).dead = IsDead(t)
           /\ Directed(t, out).rate = IF out = "a" THEN Over(Bought(t, FALSE)) ELSE Gets(t, FALSE)
           /\ Directed(t, out).quoted = IF out = "a" THEN Over(Bought(t, TRUE)) ELSE Gets(t, TRUE)
<1> DEFINE px == FoldRates(t)
           at == IF IsDead(t) THEN DeadPrices(Cheapest(t), Dearest(t)) ELSE [buy |-> px, sell |-> px]
           rate == IF out = "a" THEN Over(at.buy) ELSE at.sell
           stock == IF out = "a" THEN t.stock_b ELSE t.stock_a
           quoted == IF out = "a" THEN Over(px) ELSE px
           vol == Volume(t, out)
           dead == IsDead(t)
<1>1. Traded(t) # {} /\ Directed(t, out) = Edge(rate, stock, vol, dead, quoted)
  BY DEF Directed, IsDead
<1>2. at.buy = Bought(t, FALSE) /\ at.sell = Gets(t, FALSE)
  BY DEF DeadPrices, Bought, Gets
<1>3. px = Bought(t, TRUE) /\ px = Gets(t, TRUE)
  BY DEF Bought, Gets
<1>4. /\ Bought(t, FALSE) \in Quantity /\ Gets(t, FALSE) \in Quantity
      /\ Bought(t, TRUE) \in Quantity /\ Gets(t, TRUE) \in Quantity
  BY <1>1, SidesLie
<1>5. /\ rate = IF out = "a" THEN Over(Bought(t, FALSE)) ELSE Gets(t, FALSE)
      /\ quoted = IF out = "a" THEN Over(Bought(t, TRUE)) ELSE Gets(t, TRUE)
  <2> HIDE DEF at, px
  <2> QED
    BY <1>2, <1>3
<1>6. stock \in Nat /\ vol \in Nat
  BY TapeIs, VolumeIs
<1>7. dead \in BOOLEAN
  BY DEF IsDead
<1> HIDE DEF rate, stock, quoted, vol, dead
<1>8. rate \in Quantity /\ quoted \in Quantity
  BY <1>4, <1>5, OverIs
<1>9. Edge(rate, stock, vol, dead, quoted) \in DigestEdge
  BY <1>6, <1>7, <1>8 DEF Edge, DigestEdge
<1>10. /\ Directed(t, out).dead = dead /\ Directed(t, out).rate = rate /\ Directed(t, out).quoted = quoted
  BY <1>1 DEF Edge
<1> QED
  BY <1>1, <1>5, <1>9, <1>10 DEF dead

LEMMA OffersAreFresh ==
    ASSUME tape \in [Markets -> Tapes], NEW p \in Pairs, Offers(p) # NoEdge
    PROVE  JustRead(p, Offers(p))
<1>1. CASE p \in Markets
  <2> DEFINE t == tape[p]
  <2>1. t \in Tapes /\ Offers(p) = Directed(t, "a") /\ TapeOf(p) = t /\ Traceable(p)
    BY <1>1 DEF Offers, TapeOf, Traceable
  <2> HIDE DEF t
  <2>2. /\ Directed(t, "a") \in DigestEdge /\ Traded(t) # {}
        /\ Directed(t, "a").dead = IsDead(t)
        /\ Directed(t, "a").rate = Over(Bought(t, FALSE))
        /\ Directed(t, "a").quoted = Over(Bought(t, TRUE))
    BY <2>1, DirectedIs
  <2> QED
    BY <1>1, <2>1, <2>2 DEF JustRead, ReadAs, RateOf
<1>2. CASE p \notin Markets
  <2> DEFINE m == <<p[2], p[1]>>
             t == tape[m]
  <2>1. t \in Tapes /\ Offers(p) = Directed(t, "b") /\ TapeOf(p) = t /\ Traceable(p)
    BY <1>2 DEF Offers, TapeOf, Traceable
  <2> HIDE DEF t
  <2>2. /\ Directed(t, "b") \in DigestEdge /\ Traded(t) # {}
        /\ Directed(t, "b").dead = IsDead(t)
        /\ Directed(t, "b").rate = Gets(t, FALSE)
        /\ Directed(t, "b").quoted = Gets(t, TRUE)
    BY <2>1, DirectedIs
  <2> QED
    BY <1>2, <2>1, <2>2 DEF JustRead, ReadAs, RateOf
<1> QED
  BY <1>1, <1>2

LEMMA TapeOfIs ==
    ASSUME tape \in [Markets -> Tapes], NEW p, Traceable(p)
    PROVE  TapeOf(p) \in Tapes
  BY DEF TapeOf, Traceable

\* There and back is no gain.
LEMMA TwoHops ==
    ASSUME tape \in [Markets -> Tapes], NEW a \in Cur, NEW b \in Cur, NEW asked \in BOOLEAN,
           NEW e, ReadAs(<<a, b>>, asked, e), NEW f, ReadAs(<<b, a>>, asked, f)
    PROVE  AtMost(Times(e.rate, f.rate), One)
<1> DEFINE p == <<a, b>>
           q == <<b, a>>
           t == TapeOf(p)
           y == Bought(t, asked)
           z == Gets(t, asked)
<1>1. t \in Tapes /\ Traded(t) # {} /\ e.rate = RateOf(p, asked) /\ f.rate = RateOf(q, asked)
  BY TapeOfIs DEF ReadAs
<1>2. (p \in Markets /\ q \notin Markets) \/ (p \notin Markets /\ q \in Markets)
  <2>1. p \in Markets \/ q \in Markets
    BY DEF ReadAs, Traceable
  <2>2. \A m \in Markets : <<m[2], m[1]>> \notin Markets
    BY MarketAssumption
  <2> QED
    BY <2>1, <2>2
<1>3. TapeOf(q) = t
  BY <1>2 DEF TapeOf
<1>4. y \in Quantity /\ z \in Quantity /\ AtMost(z, y)
  <2> HIDE DEF t
  <2> QED
    BY <1>1, SidesLie
<1>5. (e.rate = Over(y) /\ f.rate = z) \/ (e.rate = z /\ f.rate = Over(y))
  BY <1>1, <1>2, <1>3 DEF RateOf
<1> HIDE DEF p, q, t, y, z
<1>6. Over(y) \in Quantity /\ Over(Over(y)) = y
  BY <1>4, OverIs
<1>7. AtMost(Over(y), Over(z))
  <2>1. PICK i \in Nat, j \in Nat : y = <<i, j>>
    BY <1>4 DEF Quantity
  <2>2. PICK k \in Nat, l \in Nat : z = <<k, l>>
    BY <1>4 DEF Quantity
  <2>3. k * j <= i * l
    BY <1>4, <2>1, <2>2 DEF AtMost
  <2>4. k * j = j * k /\ i * l = l * i
    BY SMT
  <2> QED
    BY <2>1, <2>2, <2>3, <2>4 DEF AtMost, Over
<1>8. AtMost(Times(Over(y), z), One)
  BY <1>4, <1>6, <1>7, TimesIs
<1>9. AtMost(Times(z, Over(y)), One)
  <2>1. AtMost(z, Over(Over(y)))
    BY <1>4, <1>6
  <2> QED
    BY <1>4, <1>6, <2>1, TimesIs
<1> QED
  BY <1>5, <1>8, <1>9

-----------------------------------------------------------------------------
(* The inductive invariant: every edge is read off its tape, or is a recipe  *)
(* that such an edge rides along on, and the counterparts by volume are      *)
(* still counterparts.                                                       *)
InUse == graph \in {"quoted", "priced"}
AskedAbout(p) == InUse /\ Quoted(p, busiest)

Carries(r, asked, p) == r.kind = "recipe" /\ (r.market = NoEdge \/ ReadAs(p, asked, r.market))
SoundEdge(p, e) == ReadAs(p, AskedAbout(p), e) \/ Carries(e, AskedAbout(p), p)

GraphTypes ==
    /\ tape \in [Markets -> Tapes] /\ order \in Orders /\ recipes \subseteq Recipes
    /\ graph \in {"none", "rated", "culled", "quoted", "priced"}
EdgesAreSound == \A p \in DOMAIN edge : p \in Pairs /\ SoundEdge(p, edge[p])
UntilQuoted ==
    /\ graph = "none" => edge = <<>>
    /\ graph \in {"rated", "culled"} => \A p \in DOMAIN edge : JustRead(p, edge[p])
RecipesAreNew == \A r \in recipes : <<r.from, r.to>> \in DOMAIN edge => edge[<<r.from, r.to>>].kind = "digest"
BusiestTrade == InUse => DOMAIN busiest \subseteq Cur /\ Counterparts(edge, busiest)

MarketInv ==
    GraphTypes /\ EdgesAreSound /\ UntilQuoted /\ RecipesAreNew /\ BusiestTrade /\ PricingChainsEnd

LEMMA KindsDiffer ==
    /\ \A e \in DigestEdge : e.kind = "digest" /\ e # NoEdge
    /\ \A p, asked, e : ReadAs(p, asked, e) => e.kind = "digest" /\ e # NoEdge /\ e \in DigestEdge
<1>1. \A e \in DigestEdge : e.kind = "digest"
  BY DEF DigestEdge
<1>2. NoEdge.kind = "none"
  BY DEF NoEdge
<1> QED
  BY <1>1, <1>2 DEF ReadAs

\* What the readers of the graph see of a sound edge is read off its tape.
LEMMA SeenIsRead ==
    ASSUME EdgesAreSound, NEW a \in Cur, NEW b \in Cur, market_edge(edge, a, b) # NoEdge
    PROVE  ReadAs(<<a, b>>, AskedAbout(<<a, b>>), market_edge(edge, a, b))
<1> DEFINE p == <<a, b>>
<1>1. p \in DOMAIN edge /\ market_edge(edge, a, b) = IF edge[p].kind = "recipe" THEN edge[p].market ELSE edge[p]
  BY DEF market_edge
<1>2. ReadAs(p, AskedAbout(p), edge[p]) \/ Carries(edge[p], AskedAbout(p), p)
  BY <1>1 DEF EdgesAreSound, SoundEdge
<1> HIDE DEF p
<1>3. CASE ReadAs(p, AskedAbout(p), edge[p])
  <2>1. edge[p].kind = "digest"
    BY <1>3, KindsDiffer
  <2> QED
    BY <1>1, <1>3, <2>1 DEF p
<1>4. CASE Carries(edge[p], AskedAbout(p), p)
  BY <1>1, <1>4 DEF Carries, p
<1> QED
  BY <1>2, <1>3, <1>4

LEMMA SoundGraph == ASSUME EdgesAreSound PROVE GraphIs(edge)
<1> SUFFICES ASSUME NEW a \in Cur, NEW b \in Cur, HasMarket(edge, a, b) PROVE market_edge(edge, a, b) \in DigestEdge
  BY DEF GraphIs
<1>1. ReadAs(<<a, b>>, AskedAbout(<<a, b>>), market_edge(edge, a, b))
  BY SeenIsRead DEF HasMarket
<1> QED
  BY <1>1, KindsDiffer

LEMMA AskedBothWays ==
    ASSUME NEW a, NEW b
    PROVE  AskedAbout(<<a, b>>) = AskedAbout(<<b, a>>) /\ AskedAbout(<<a, b>>) \in BOOLEAN
  BY DEF AskedAbout, InUse, Quoted

LEMMA PricesFollow == MarketInv => PricesHold
<1> SUFFICES ASSUME MarketInv PROVE NobodyPaidLess /\ NoFreeTwoHopLoop
  BY DEF PricesHold, MarketInv
<1> USE DEF MarketInv
<1>1. NobodyPaidLess
  <2> SUFFICES ASSUME NEW m \in Markets \cap DOMAIN edge, edge[m].kind = "digest"
               PROVE  AtMost(Cheapest(tape[m]), Over(edge[m].rate)) /\ AtMost(Over(edge[m].rate), Dearest(tape[m]))
    BY DEF NobodyPaidLess
  <2> DEFINE asked == AskedAbout(m)
             t == tape[m]
             y == Bought(t, asked)
  <2>1. ReadAs(m, asked, edge[m])
    BY DEF EdgesAreSound, SoundEdge, Carries
  <2>2. t \in Tapes /\ TapeOf(m) = t
    BY DEF GraphTypes, TapeOf
  <2>3. asked \in BOOLEAN
    BY DEF AskedAbout, InUse, Quoted
  <2> HIDE DEF asked, t
  <2>4. Traded(t) # {} /\ edge[m].rate = Over(y)
    BY <2>1, <2>2 DEF ReadAs, RateOf
  <2>5. y \in Quantity /\ AtMost(Cheapest(t), y) /\ AtMost(y, Dearest(t))
    BY <2>2, <2>3, <2>4, SidesLie
  <2> HIDE DEF y
  <2>6. Over(edge[m].rate) = y
    BY <2>4, <2>5, OverIs
  <2> QED
    BY <2>5, <2>6 DEF t
<1>2. NoFreeTwoHopLoop
  <2> SUFFICES ASSUME NEW a \in Cur, NEW b \in Cur, market_edge(edge, a, b) # NoEdge, market_edge(edge, b, a) # NoEdge
               PROVE  AtMost(Times(market_edge(edge, a, b).rate, market_edge(edge, b, a).rate), One)
    BY DEF NoFreeTwoHopLoop, Pairs
  <2>1. /\ ReadAs(<<a, b>>, AskedAbout(<<a, b>>), market_edge(edge, a, b))
        /\ ReadAs(<<b, a>>, AskedAbout(<<b, a>>), market_edge(edge, b, a))
    BY SeenIsRead
  <2>2. AskedAbout(<<a, b>>) = AskedAbout(<<b, a>>) /\ AskedAbout(<<a, b>>) \in BOOLEAN
    BY AskedBothWays
  <2>3. tape \in [Markets -> Tapes]
    BY DEF GraphTypes
  <2> QED
    BY <2>1, <2>2, <2>3, TwoHops
<1> QED
  BY <1>1, <1>2

\* The volume rule's counterparts, as they are worked out.
LEMMA BusiestIs ==
    ASSUME NEW g, GraphIs(g)
    PROVE  Counterparts(g, Busiest(g))
<1> SUFFICES ASSUME NEW c \in DOMAIN Busiest(g) PROVE Busiest(g)[c] \in Cur /\ Touches(g, c, Busiest(g)[c])
  BY DEF Counterparts
<1> DEFINE N == Neighbours(g, c)
           f == [o \in N |-> Units(g, c, o)]
<1>1. c \in Cur /\ N # {} /\ N \subseteq Cur
  BY DEF Busiest, Neighbours
<1>2. \A o \in N : Touches(g, c, o)
  BY DEF Neighbours
<1>3. IsFiniteSet(N)
  BY <1>1, FS_Subset, MarketAssumption
<1>4. \A o \in N : f[o] \in Fraction
  BY <1>1, <1>2, UnitsIs
<1> HIDE DEF N
<1>5. \A o \in N : f[o] = Units(g, c, o)
  OBVIOUS
<1> HIDE DEF f
<1>6. \E o \in N : \A x \in N : AtMost(f[x], f[o])
  BY <1>1, <1>3, <1>4, GreatestOf
<1>7. \E o \in N : \A x \in N : AtMost(Units(g, c, x), Units(g, c, o))
  BY <1>5, <1>6
<1>8. Busiest(g)[c] = CHOOSE o \in N : \A x \in N : AtMost(Units(g, c, x), Units(g, c, o))
  BY DEF Busiest, N
<1>9. Busiest(g)[c] \in N
  BY <1>7, <1>8
<1> QED
  BY <1>1, <1>2, <1>9

\* What has the same market edges has the same counterparts.
SameMarkets(g, h) == \A a, b \in Cur : market_edge(g, a, b) = market_edge(h, a, b)

LEMMA SameCounterparts ==
    ASSUME NEW g, NEW h, SameMarkets(g, h), NEW of, DOMAIN of \subseteq Cur, Counterparts(g, of)
    PROVE  Counterparts(h, of)
  BY DEF SameMarkets, Counterparts, Touches, HasMarket

LEMMA MarketStarts == MarketInit => MarketInv
<1> SUFFICES ASSUME MarketInit PROVE MarketInv
  OBVIOUS
<1>1. DOMAIN edge = {} /\ DOMAIN table.by = {}
  BY DEF MarketInit
<1>2. GraphTypes /\ graph = "none" /\ edge = <<>>
  BY DEF MarketInit, GraphTypes
<1>3. EdgesAreSound /\ RecipesAreNew
  BY <1>1 DEF EdgesAreSound, RecipesAreNew
<1>4. UntilQuoted /\ BusiestTrade
  BY <1>2 DEF UntilQuoted, BusiestTrade, InUse
<1>5. PricingChainsEnd
  BY <1>1 DEF PricingChainsEnd
<1> QED
  BY <1>2, <1>3, <1>4, <1>5 DEF MarketInv

\* An edge read off the digest, or still there after the cull, is sound until
\* the busiest markets are quoted.
LEMMA FreshIsSound ==
    ASSUME NEW p, NEW e, JustRead(p, e), ~InUse
    PROVE  SoundEdge(p, e) /\ e.kind = "digest"
  BY KindsDiffer DEF JustRead, SoundEdge, AskedAbout

LEMMA RateKeeps == MarketInv /\ Rate => MarketInv'
<1> SUFFICES ASSUME MarketInv, Rate PROVE MarketInv'
  OBVIOUS
<1>1. GraphTypes' /\ graph' = "rated" /\ PricingChainsEnd'
  BY DEF MarketInv, Rate, GraphTypes, PricingChainsEnd
<1>2. ~InUse'
  BY <1>1 DEF InUse
<1>3. ASSUME NEW p \in DOMAIN edge' PROVE p \in Pairs /\ JustRead(p, edge[p])'
  <2>1. p \in Pairs /\ Offers(p) # NoEdge /\ edge'[p] = Offers(p)
    BY DEF Rate, LatestRates
  <2>2. JustRead(p, Offers(p))
    BY <2>1, OffersAreFresh DEF MarketInv, GraphTypes
  <2>3. tape' = tape
    BY DEF Rate
  <2> QED
    BY <2>1, <2>2, <2>3 DEF JustRead, ReadAs, TapeOf, RateOf
<1>4. ASSUME NEW p \in DOMAIN edge' PROVE SoundEdge(p, edge[p])' /\ edge'[p].kind = "digest"
  <2>1. JustRead(p, edge[p])'
    BY <1>3
  <2>2. AskedAbout(p)' = FALSE
    BY <1>2 DEF AskedAbout
  <2>3. edge'[p] \in DigestEdge
    BY <2>1 DEF JustRead, ReadAs
  <2>4. SoundEdge(p, edge[p])'
    BY <2>1, <2>2 DEF JustRead, ReadAs, SoundEdge
  <2> QED
    BY <2>3, <2>4, KindsDiffer
<1>5. EdgesAreSound' /\ RecipesAreNew'
  BY <1>3, <1>4 DEF EdgesAreSound, RecipesAreNew
<1>6. UntilQuoted'
  BY <1>1, <1>3 DEF UntilQuoted
<1>7. BusiestTrade'
  BY <1>2 DEF BusiestTrade
<1> QED
  BY <1>1, <1>5, <1>6, <1>7 DEF MarketInv

LEMMA CullKeeps == MarketInv /\ Cull => MarketInv'
<1> SUFFICES ASSUME MarketInv, Cull PROVE MarketInv'
  OBVIOUS
<1>1. GraphTypes' /\ graph' = "culled" /\ PricingChainsEnd'
  BY DEF MarketInv, Cull, GraphTypes, PricingChainsEnd
<1>2. ~InUse'
  BY <1>1 DEF InUse
<1>3. ASSUME NEW p \in DOMAIN edge' PROVE p \in DOMAIN edge /\ edge'[p] = edge[p]
  BY DEF Cull
<1>4. ASSUME NEW p \in DOMAIN edge' PROVE p \in Pairs /\ JustRead(p, edge[p])'
  <2>1. p \in Pairs /\ JustRead(p, edge[p])
    BY <1>3 DEF MarketInv, EdgesAreSound, UntilQuoted, Cull
  <2>2. tape' = tape
    BY DEF Cull
  <2> QED
    BY <1>3, <2>1, <2>2 DEF JustRead, ReadAs, TapeOf, RateOf
<1>5. ASSUME NEW p \in DOMAIN edge' PROVE SoundEdge(p, edge[p])' /\ edge'[p].kind = "digest"
  <2>1. JustRead(p, edge[p])'
    BY <1>4
  <2>2. AskedAbout(p)' = FALSE
    BY <1>2 DEF AskedAbout
  <2>3. edge'[p] \in DigestEdge
    BY <2>1 DEF JustRead, ReadAs
  <2>4. SoundEdge(p, edge[p])'
    BY <2>1, <2>2 DEF JustRead, ReadAs, SoundEdge
  <2> QED
    BY <2>3, <2>4, KindsDiffer
<1>6. EdgesAreSound' /\ RecipesAreNew'
  BY <1>4, <1>5 DEF EdgesAreSound, RecipesAreNew
<1>7. UntilQuoted'
  BY <1>1, <1>4 DEF UntilQuoted
<1>8. BusiestTrade'
  BY <1>2 DEF BusiestTrade
<1> QED
  BY <1>1, <1>6, <1>7, <1>8 DEF MarketInv

\* A busiest market that is dead takes the window rate.
LEMMA QuotedIsRead ==
    ASSUME NEW p, NEW e, JustRead(p, e), NEW asked \in BOOLEAN, NEW f,
           f = IF e.dead /\ asked THEN [e EXCEPT !.rate = e.quoted, !.dead = FALSE] ELSE e
    PROVE  ReadAs(p, asked, f)
<1>1. /\ e \in DigestEdge /\ Traceable(p) /\ Traded(TapeOf(p)) # {} /\ e.rate = RateOf(p, FALSE)
      /\ e.dead = IsDead(TapeOf(p)) /\ e.quoted = RateOf(p, TRUE)
  BY DEF JustRead, ReadAs
<1>2. CASE e.dead /\ asked
  <2>1. f = [e EXCEPT !.rate = e.quoted, !.dead = FALSE]
    BY <1>2
  <2>2. f \in DigestEdge /\ f.rate = e.quoted
    BY <1>1, <2>1 DEF DigestEdge
  <2> QED
    BY <1>1, <1>2, <2>2 DEF ReadAs
<1>3. CASE ~(e.dead /\ asked)
  <2>1. f = e
    BY <1>3
  <2>2. RateOf(p, FALSE) = RateOf(p, asked)
    BY <1>1, <1>3 DEF RateOf, Bought, Gets
  <2> QED
    BY <1>1, <2>1, <2>2 DEF ReadAs
<1> QED
  BY <1>2, <1>3

LEMMA QuoteKeeps == MarketInv /\ Quote => MarketInv'
<1> SUFFICES ASSUME MarketInv, Quote PROVE MarketInv'
  OBVIOUS
<1>1. GraphTypes' /\ graph' = "quoted" /\ PricingChainsEnd'
  BY DEF MarketInv, Quote, GraphTypes, PricingChainsEnd
<1>2. InUse' /\ DOMAIN edge' = DOMAIN edge /\ tape' = tape /\ busiest' = Busiest(edge) /\ recipes' = recipes
  BY <1>1 DEF InUse, Quote
<1>3. ASSUME NEW p \in DOMAIN edge
      PROVE  p \in Pairs /\ ReadAs(p, AskedAbout(p), edge[p])'
  <2> DEFINE e == edge[p]
             asked == Quoted(p, busiest')
  <2>1. p \in Pairs /\ JustRead(p, e)
    BY DEF MarketInv, EdgesAreSound, UntilQuoted, Quote
  <2>2. edge'[p] = IF e.dead /\ asked THEN [e EXCEPT !.rate = e.quoted, !.dead = FALSE] ELSE e
    BY DEF Quote
  <2>3. asked \in BOOLEAN
    BY DEF Quoted
  <2>4. AskedAbout(p)' = asked
    <3>1. AskedAbout(p)' = (InUse' /\ asked)
      BY DEF AskedAbout, Quoted
    <3> QED
      BY <1>2, <2>3, <3>1
  <2> HIDE DEF e, asked
  <2>5. ReadAs(p, asked, edge'[p])
    BY <2>1, <2>2, <2>3, QuotedIsRead
  <2>6. ReadAs(p, AskedAbout(p)', edge'[p])
    BY <2>4, <2>5
  <2> QED
    BY <1>2, <2>1, <2>6 DEF ReadAs, TapeOf, RateOf
<1>4. ASSUME NEW p \in DOMAIN edge PROVE edge'[p].kind = "digest" /\ edge[p].kind = "digest" /\ edge'[p] # NoEdge
  <2>1. ReadAs(p, FALSE, edge[p])
    BY DEF MarketInv, UntilQuoted, Quote, JustRead
  <2>2. edge'[p] \in DigestEdge
    BY <1>3 DEF ReadAs
  <2> QED
    BY <2>1, <2>2, KindsDiffer
<1>5. EdgesAreSound'
  BY <1>2, <1>3 DEF EdgesAreSound, SoundEdge
<1>6. RecipesAreNew'
  BY <1>2, <1>4 DEF RecipesAreNew
<1>7. UntilQuoted'
  BY <1>1 DEF UntilQuoted
<1>8. BusiestTrade'
  <2>1. Counterparts(edge, busiest')
    BY <1>2, SoundGraph, BusiestIs DEF MarketInv
  <2>2. DOMAIN busiest' \subseteq Cur
    BY <1>2 DEF Busiest
  <2>3. ASSUME NEW a \in Cur, NEW b \in Cur, HasMarket(edge, a, b) PROVE HasMarket(edge', a, b)
    BY <1>2, <1>4, <2>3 DEF HasMarket, market_edge
  <2>4. Counterparts(edge', busiest')
    BY <2>1, <2>2, <2>3 DEF Counterparts, Touches
  <2> QED
    BY <2>2, <2>4 DEF BusiestTrade
<1> QED
  BY <1>1, <1>5, <1>6, <1>7, <1>8 DEF MarketInv

\* A table worked out over a sound graph has chains that end.
LEMMA PricedChainsEnd ==
    ASSUME NEW g, GraphIs(g), Counterparts(g, busiest), order \in Orders, table' = _widest_values(g)
    PROVE  PricingChainsEnd'
<1> DEFINE by == _widest_values(g).by
<1>1. /\ \A c \in DOMAIN by : by[c] \in DOMAIN by \cup {Ref}
      /\ Grounded(by)
  <2> HIDE DEF by
  <2>1. by = _widest_values(g).by
    BY DEF by
  <2> QED
    BY <2>1, ChainsEnd
<1>2. table'.by = by
  OBVIOUS
<1> HIDE DEF by
<1> QED
  BY <1>1, <1>2 DEF PricingChainsEnd, Grounded

LEMMA PriceKeeps == MarketInv /\ Price => MarketInv'
<1> SUFFICES ASSUME MarketInv, Price PROVE MarketInv'
  OBVIOUS
<1>1. GraphTypes' /\ graph' = "priced" /\ graph = "quoted"
  BY DEF MarketInv, Price, GraphTypes
<1>2. InUse /\ InUse' /\ edge' = edge /\ tape' = tape /\ busiest' = busiest /\ recipes' = recipes
  BY <1>1 DEF InUse, Price
<1>3. EdgesAreSound'
  BY <1>2 DEF MarketInv, EdgesAreSound, SoundEdge, Carries, ReadAs, TapeOf, RateOf, AskedAbout
<1>4. RecipesAreNew' /\ UntilQuoted' /\ BusiestTrade'
  BY <1>1, <1>2 DEF MarketInv, RecipesAreNew, UntilQuoted, BusiestTrade
<1>5. PricingChainsEnd'
  <2>1. GraphIs(edge)
    BY SoundGraph DEF MarketInv
  <2>2. Counterparts(edge, busiest) /\ order \in Orders
    BY <1>2 DEF MarketInv, BusiestTrade, GraphTypes
  <2>3. table' = _widest_values(edge)
    BY DEF Price
  <2> QED
    BY <2>1, <2>2, <2>3, PricedChainsEnd
<1> QED
  BY <1>1, <1>3, <1>4, <1>5 DEF MarketInv

\* The edge a recipe lays over what stood there, and the graph after it.
Conversion(r, under) ==
    [kind |-> "recipe", rate |-> r.rate, lot |-> r.lot, vol |-> 0, dead |-> FALSE, market |-> under]
Laid(r) ==
    LET p == <<r.from, r.to>>
        under == IF p \in DOMAIN edge THEN edge[p] ELSE NoEdge
    IN IF under # NoEdge /\ AtMost(r.rate, under.rate) THEN edge ELSE Put(edge, Only(p, Conversion(r, under)))

LEMMA LaidIs ==
    ASSUME EdgesAreSound, RecipesAreNew, NEW r \in recipes, <<r.from, r.to>> \in Pairs
    PROVE  /\ \A p \in DOMAIN Laid(r) : p \in Pairs /\ SoundEdge(p, Laid(r)[p])
           /\ \A p \in DOMAIN Laid(r) : p # <<r.from, r.to>> => p \in DOMAIN edge /\ Laid(r)[p] = edge[p]
           /\ SameMarkets(edge, Laid(r))
<1> DEFINE q == <<r.from, r.to>>
           under == IF q \in DOMAIN edge THEN edge[q] ELSE NoEdge
           e == Conversion(r, under)
           h == Put(edge, Only(q, e))
<1>1. CASE Laid(r) = edge
  BY <1>1 DEF EdgesAreSound, SameMarkets
<1>2. CASE Laid(r) # edge
  <2>1. Laid(r) = h
    BY <1>2 DEF Laid
  <2>2. under = NoEdge \/ ReadAs(q, AskedAbout(q), under)
    <3>1. q \in DOMAIN edge => edge[q].kind = "digest" /\ SoundEdge(q, edge[q])
      BY DEF RecipesAreNew, EdgesAreSound
    <3> HIDE DEF q
    <3> QED
      BY <3>1 DEF SoundEdge, Carries
  <2>3. e.kind = "recipe" /\ e.market = under
    BY DEF Conversion
  <2>4. under = IF q \in DOMAIN edge THEN edge[q] ELSE NoEdge
    OBVIOUS
  <2>5. q \in DOMAIN edge => edge[q].kind = "digest"
    BY DEF RecipesAreNew
  <2>6. q \in Pairs
    OBVIOUS
  <2> HIDE DEF e, under
  <2>7. DOMAIN h = {q} \cup DOMAIN edge /\ h[q] = e /\ \A p \in DOMAIN edge : p # q => h[p] = edge[p]
    <3> HIDE DEF q
    <3> QED
      BY DEF Put, Only
  <2> HIDE DEF h
  <2>8. SoundEdge(q, e)
    BY <2>2, <2>3 DEF SoundEdge, Carries
  <2>9. ASSUME NEW p \in DOMAIN h PROVE p \in Pairs /\ SoundEdge(p, h[p])
    <3>1. CASE p = q
      BY <2>6, <2>7, <2>8, <3>1
    <3>2. CASE p # q
      BY <2>7, <2>9, <3>2 DEF EdgesAreSound
    <3> QED
      BY <3>1, <3>2
  <2>10. ASSUME NEW p \in DOMAIN h, p # q PROVE p \in DOMAIN edge /\ h[p] = edge[p]
    BY <2>7, <2>10
  <2>11. ASSUME NEW a \in Cur, NEW b \in Cur PROVE market_edge(edge, a, b) = market_edge(h, a, b)
    <3> DEFINE p == <<a, b>>
    <3>1. CASE p = q
      <4>1. market_edge(h, a, b) = under
        BY <2>3, <2>7, <3>1 DEF market_edge
      <4>2. market_edge(edge, a, b) = under
        <5>1. CASE q \in DOMAIN edge
          BY <2>4, <2>5, <3>1, <5>1 DEF market_edge
        <5>2. CASE q \notin DOMAIN edge
          BY <2>4, <3>1, <5>2 DEF market_edge
        <5> QED
          BY <5>1, <5>2
      <4> QED
        BY <4>1, <4>2
    <3>2. CASE p # q
      BY <2>7, <3>2 DEF market_edge
    <3> QED
      BY <3>1, <3>2
  <2>12. SameMarkets(edge, h)
    BY <2>11 DEF SameMarkets
  <2> QED
    BY <2>1, <2>9, <2>10, <2>12
<1> QED
  BY <1>1, <1>2

LEMMA AddRecipeKeeps ==
    ASSUME OncePerPair, NEW r \in Recipes, MarketInv, AddRecipe(r)
    PROVE  MarketInv'
<1> DEFINE q == <<r.from, r.to>>
<1>1. /\ GraphTypes' /\ graph = "priced" /\ graph' = "priced" /\ r \in recipes
      /\ recipes' = {x \in recipes : <<x.from, x.to>> # q}
  BY DEF MarketInv, AddRecipe, GraphTypes
<1>2. InUse /\ InUse' /\ tape' = tape /\ busiest' = busiest /\ order' = order
  BY <1>1 DEF InUse, AddRecipe
<1>3. edge' = Laid(r) /\ table' = _widest_values(Laid(r))
  BY DEF AddRecipe, Laid, Conversion
<1>4. q \in Pairs
  BY MarketAssumption
<1>5. /\ \A p \in DOMAIN Laid(r) : p \in Pairs /\ SoundEdge(p, Laid(r)[p])
      /\ \A p \in DOMAIN Laid(r) : p # q => p \in DOMAIN edge /\ Laid(r)[p] = edge[p]
      /\ SameMarkets(edge, Laid(r))
  BY <1>1, <1>4, LaidIs DEF MarketInv
<1> HIDE DEF q
<1>6. EdgesAreSound'
  <2>1. \A p \in DOMAIN edge' : p \in Pairs /\ SoundEdge(p, edge'[p])
    BY <1>3, <1>5
  <2> QED
    BY <1>2, <2>1 DEF EdgesAreSound, SoundEdge, Carries, ReadAs, TapeOf, RateOf, AskedAbout
<1>7. RecipesAreNew'
  BY <1>1, <1>3, <1>5 DEF MarketInv, RecipesAreNew
<1>8. UntilQuoted'
  BY <1>1 DEF UntilQuoted
<1>9. GraphIs(edge') /\ Counterparts(edge', busiest) /\ DOMAIN busiest \subseteq Cur
  <2>1. GraphIs(edge) /\ Counterparts(edge, busiest) /\ DOMAIN busiest \subseteq Cur
    BY <1>2, SoundGraph DEF MarketInv, BusiestTrade
  <2>2. SameMarkets(edge, edge')
    BY <1>3, <1>5
  <2>3. Counterparts(edge', busiest)
    BY <2>1, <2>2, SameCounterparts
  <2>4. GraphIs(edge')
    BY <2>1, <2>2 DEF GraphIs, SameMarkets, HasMarket
  <2> QED
    BY <2>1, <2>3, <2>4
<1>10. BusiestTrade'
  BY <1>2, <1>9 DEF BusiestTrade
<1>11. PricingChainsEnd'
  <2>1. order \in Orders
    BY DEF MarketInv, GraphTypes
  <2>2. table' = _widest_values(edge')
    BY <1>3
  <2> QED
    BY <1>9, <2>1, <2>2, PricedChainsEnd
<1> QED
  BY <1>1, <1>6, <1>7, <1>8, <1>10, <1>11 DEF MarketInv

\* However the hours traded and whatever they weigh, whatever poe2scout's closes
\* and the recipes say, and in whatever order the currencies stand in the dict of
\* counterparts: every price rests on a line of markets that ends at the
\* reference, every market is sold for what some hour of it bounds, and buying
\* there and back is no gain (digest.py directed_rates, graph.py build, cull,
\* quote_busiest_markets, _widest_values, add_recipe).
THEOREM PricesHoldEver ==
    ASSUME OncePerPair
    PROVE  MarketSpec => []PricesHold
<1>1. MarketInv /\ [MarketNext]_marketVars => MarketInv'
  <2> SUFFICES ASSUME MarketInv, [MarketNext]_marketVars PROVE MarketInv'
    OBVIOUS
  <2>1. CASE Rate
    BY <2>1, RateKeeps
  <2>2. CASE Cull
    BY <2>2, CullKeeps
  <2>3. CASE Quote
    BY <2>3, QuoteKeeps
  <2>4. CASE Price
    BY <2>4, PriceKeeps
  <2>5. ASSUME NEW r \in Recipes, AddRecipe(r) PROVE MarketInv'
    BY <2>5, AddRecipeKeeps
  <2>6. CASE UNCHANGED marketVars
    <3>1. /\ tape' = tape /\ order' = order /\ edge' = edge /\ busiest' = busiest
          /\ table' = table /\ recipes' = recipes /\ graph' = graph
      BY <2>6 DEF marketVars
    <3> QED
      BY <3>1 DEF MarketInv, GraphTypes, EdgesAreSound, UntilQuoted, RecipesAreNew, BusiestTrade, PricingChainsEnd,
                  SoundEdge, Carries, JustRead, ReadAs, TapeOf, RateOf, AskedAbout, InUse
  <2> QED
    BY <2>1, <2>2, <2>3, <2>4, <2>5, <2>6 DEF MarketNext
<1>2. MarketInit => MarketInv
  BY MarketStarts
<1>3. MarketInv => PricesHold
  BY PricesFollow
<1> QED
  BY <1>1, <1>2, <1>3, PTL DEF MarketSpec

=============================================================================
