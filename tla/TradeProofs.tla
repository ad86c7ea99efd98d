---------------------------- MODULE TradeProofs ----------------------------
(* The trade side of the page: the renderer and the engine come into step  *)
(* for any rows, searches and allowance (what a patient user armed is what *)
(* runs), a listing is alerted once whatever the list forgets, and what a  *)
(* search showed is used for the row or the line it was run for.           *)
EXTENDS MCTrade, SearchRegistryProofs, SequenceTheorems

Full == Cardinality(Active(running)) >= MAX_SOCKETS

(* What is on its way: starts and stops to main, refusals to the page.     *)
StartOf(i) == \E c \in Range(calls) : c.item = i /\ c.search # None
StopOf(i) == \E c \in Range(calls) : c.item = i /\ c.search = None
RefusalOf(i) == \E e \in Range(events) : e.refused = i
Arming == \E i \in Items : StartOf(i) \/ RefusalOf(i)

Calls == [item : Items, search : Searches \cup {None}]
Events == [ids : SUBSET Items, refused : Items \cup {None}]

(* The variables' types, the queues' as sequences.                         *)
Types ==
    /\ armed \in SUBSET Items /\ slug \in [Items -> Slugs]
    /\ league \in Leagues /\ loaded \in BOOLEAN /\ view \in SUBSET Items
    /\ lastKey = None \/ lastKey \in [league : Leagues, ids : SUBSET Items]
    /\ calls \in Seq(Calls) /\ events \in Seq(Events)
    /\ user \in Users

(* The last table on its way is the last one told; with none on its way it *)
(* is the page's copy.                                                     *)
LastTold ==
    /\ (\A k \in DOMAIN events : events[k].refused # None) => view = told
    /\ \A k \in DOMAIN events :
          events[k].refused = None /\ (\A m \in DOMAIN events : m > k => events[m].refused # None)
          => events[k].ids = told

(* Nothing happens before the workspace has come.                          *)
NothingYet ==
    ~loaded => /\ calls = <<>> /\ events = <<>> /\ starting = 0
               /\ view = {} /\ Active(running) = {} /\ lastKey = None

(* An armed row runs, or is asked for, or is refused; a row that is not    *)
(* armed does not run, or is stopped.                                      *)
Accounted ==
    loaded => /\ \A i \in armed : running[i] # None \/ StartOf(i) \/ RefusalOf(i)
              /\ \A i \in Items \ armed : running[i] = None \/ StopOf(i)

(* One move of a patient user only starts or only stops.                   *)
OneWay ==
    /\ \A i \in Items : StartOf(i) => i \in armed \/ Full
    /\ \A i \in Items : RefusalOf(i) => running[i] = None /\ Full
    /\ \A i \in Items : StopOf(i) => ~Arming /\ i \notin armed

(* While rows are started, the tables told only lag.                       *)
Lagging ==
    Arming => /\ view \subseteq Active(running)
              /\ \A e \in Range(events) : e.refused = None => e.ids \subseteq Active(running)

(* What the last reconcile asked for is what is armed.                     *)
AskedFor == loaded => lastKey = [league |-> league, ids |-> armed]

InStep == NothingYet /\ LastTold /\ Accounted /\ OneWay /\ Lagging /\ AskedFor
-----------------------------------------------------------------------------
(* Sequences: what Tail and Append leave of the members.                   *)
LEMMA TailMembers ==
    ASSUME NEW S, NEW s \in Seq(S), s # <<>>
    PROVE  /\ Tail(s) \in Seq(S) /\ Head(s) \in S /\ Head(s) = s[1] /\ 1 \in DOMAIN s
           /\ \A k \in DOMAIN Tail(s) : k + 1 \in DOMAIN s /\ Tail(s)[k] = s[k + 1] /\ k + 1 > 1
           /\ \A k \in DOMAIN s : k = 1 \/ (k - 1 \in DOMAIN Tail(s) /\ Tail(s)[k - 1] = s[k])
           /\ DOMAIN s \subseteq Int /\ DOMAIN Tail(s) \subseteq Int
<1>1. Len(s) \in Nat \ {0} /\ DOMAIN s = 1..Len(s)
  BY LenProperties, EmptySeq
<1>2. Tail(s) \in Seq(S) /\ Head(s) \in S /\ Len(Tail(s)) = Len(s) - 1 /\ Head(s) = s[1]
  BY HeadTailProperties
<1>3. DOMAIN Tail(s) = 1..(Len(s) - 1)
  BY <1>2, LenProperties
<1>4. \A k \in 1..(Len(s) - 1) : Tail(s)[k] = s[k + 1]
  BY <1>2, HeadTailProperties
<1> QED
  BY <1>1, <1>2, <1>3, <1>4

LEMMA AppendMembers ==
    ASSUME NEW S, NEW s \in Seq(S), NEW e \in S
    PROVE  /\ Append(s, e) \in Seq(S)
           /\ DOMAIN Append(s, e) = DOMAIN s \cup {Len(s) + 1}
           /\ \A k \in DOMAIN s : Append(s, e)[k] = s[k] /\ k < Len(s) + 1
           /\ Append(s, e)[Len(s) + 1] = e
           /\ Len(s) \in Nat /\ DOMAIN s = 1..Len(s)
<1>1. Len(s) \in Nat /\ DOMAIN s = 1..Len(s)
  BY LenProperties
<1>2. Append(s, e) \in Seq(S) /\ Len(Append(s, e)) = Len(s) + 1
  BY AppendProperties
<1>3. DOMAIN Append(s, e) = 1..(Len(s) + 1)
  BY <1>2, LenProperties
<1> QED
  BY <1>1, <1>2, <1>3, AppendProperties

LEMMA TailRange ==
    ASSUME NEW S, NEW s \in Seq(S), s # <<>>
    PROVE  Tail(s) \in Seq(S) /\ Head(s) \in S /\ Range(s) = Range(Tail(s)) \cup {Head(s)}
<1> DEFINE t == Tail(s)
<1>1. /\ t \in Seq(S) /\ Head(s) \in S /\ Head(s) = s[1] /\ 1 \in DOMAIN s
      /\ \A k \in DOMAIN t : k + 1 \in DOMAIN s /\ t[k] = s[k + 1]
      /\ \A k \in DOMAIN s : k = 1 \/ (k - 1 \in DOMAIN t /\ t[k - 1] = s[k])
  BY TailMembers
<1> HIDE DEF t
<1>2. Range(t) \cup {Head(s)} \subseteq Range(s)
  BY <1>1 DEF Range
<1>3. Range(s) \subseteq Range(t) \cup {Head(s)}
  BY <1>1 DEF Range
<1> QED
  BY <1>1, <1>2, <1>3 DEF t

LEMMA AppendRange ==
    ASSUME NEW S, NEW s \in Seq(S), NEW e \in S
    PROVE  Append(s, e) \in Seq(S) /\ Range(Append(s, e)) = Range(s) \cup {e}
BY AppendMembers DEF Range

(* Every order of a finite set has all its members.                        *)
LEMMA OrderIsOnto ==
    ASSUME NEW S, IsFiniteSet(S), NEW q \in SetToSeqs(S)
    PROVE  q \in Seq(S) /\ Range(q) = S
<1>1. Cardinality(S) \in Nat
  BY FS_CardinalityType
<1>2. q \in [1..Cardinality(S) -> S] /\ \A i, j \in 1..Cardinality(S) : i # j => q[i] # q[j]
  BY DEF SetToSeqs
<1>3. q \in Injection(1..Cardinality(S), S)
  BY <1>2 DEF Injection, IsInjective
<1>4. IsFiniteSet(1..Cardinality(S)) /\ Cardinality(1..Cardinality(S)) = Cardinality(S)
  BY <1>1, FS_Interval
<1>5. q \in Surjection(1..Cardinality(S), S)
  BY <1>3, <1>4, FS_Injection
<1>6. q \in Seq(S)
  BY <1>1, <1>2
<1> QED
  BY <1>2, <1>5, <1>6 DEF Surjection, Range
-----------------------------------------------------------------------------
(* What taking a call or an event from its queue, and sending an event,    *)
(* leave on its way.                                                       *)
LEMMA CallTaken ==
    ASSUME calls \in Seq(Calls), calls # <<>>, calls' = Tail(calls)
    PROVE  /\ calls' \in Seq(Calls) /\ Head(calls) \in Calls
           /\ \A i : StartOf(i) => StartOf(i)' \/ (Head(calls).item = i /\ Head(calls).search # None)
           /\ \A i : StopOf(i) => StopOf(i)' \/ (Head(calls).item = i /\ Head(calls).search = None)
           /\ \A i : (StartOf(i)' => StartOf(i)) /\ (StopOf(i)' => StopOf(i))
           /\ Head(calls).search # None => StartOf(Head(calls).item)
           /\ Head(calls).search = None => StopOf(Head(calls).item)
<1>1. calls' \in Seq(Calls) /\ Head(calls) \in Calls /\ Range(calls) = Range(calls') \cup {Head(calls)}
  BY TailRange
<1> QED
  BY <1>1 DEF StartOf, StopOf

LEMMA EventTaken ==
    ASSUME events \in Seq(Events), events # <<>>, events' = Tail(events)
    PROVE  /\ events' \in Seq(Events) /\ Head(events) \in Events
           /\ Range(events') \subseteq Range(events) /\ Head(events) \in Range(events)
           /\ \A i : RefusalOf(i) => RefusalOf(i)' \/ Head(events).refused = i
           /\ \A i : RefusalOf(i)' => RefusalOf(i)
           /\ RefusalOf(Head(events).refused)
<1>1. events' \in Seq(Events) /\ Head(events) \in Events /\ Range(events) = Range(events') \cup {Head(events)}
  BY TailRange
<1> QED
  BY <1>1 DEF RefusalOf

LEMMA EventSent ==
    ASSUME events \in Seq(Events), NEW e \in Events, events' = Append(events, e)
    PROVE  /\ events' \in Seq(Events) /\ Range(events') = Range(events) \cup {e}
           /\ \A i : RefusalOf(i)' <=> RefusalOf(i) \/ e.refused = i
<1>1. events' \in Seq(Events) /\ Range(events') = Range(events) \cup {e}
  BY AppendRange
<1> QED
  BY <1>1 DEF RefusalOf

(* The table told last stays the last one on its way, or the page's copy.  *)
LEMMA TableSent ==
    ASSUME events \in Seq(Events), told' \in SUBSET Items,
           events' = Append(events, [ids |-> told', refused |-> None])
    PROVE  LastTold'
<1> DEFINE e == [ids |-> told', refused |-> None]
           t == Append(events, e)
<1>0. e \in Events /\ e.refused = None /\ e.ids = told'
  BY DEF Events
<1>1. /\ DOMAIN t = DOMAIN events \cup {Len(events) + 1}
      /\ \A k \in DOMAIN events : t[k] = events[k] /\ k < Len(events) + 1
      /\ t[Len(events) + 1] = e
  BY <1>0, AppendMembers
<1>2. events' = t
  OBVIOUS
<1> HIDE DEF t, e
<1> QED
  BY <1>0, <1>1, <1>2 DEF LastTold

LEMMA RefusalSent ==
    ASSUME events \in Seq(Events), LastTold, NEW i \in Items,
           events' = Append(events, [ids |-> {}, refused |-> i]), told' = told, view' = view
    PROVE  LastTold'
<1> DEFINE e == [ids |-> {}, refused |-> i]
           t == Append(events, e)
<1>0. e \in Events /\ e.refused # None
  BY NoneIsNothingElse DEF Events
<1>1. /\ DOMAIN t = DOMAIN events \cup {Len(events) + 1}
      /\ \A k \in DOMAIN events : t[k] = events[k]
      /\ t[Len(events) + 1] = e
  BY <1>0, AppendMembers
<1>2. events' = t
  OBVIOUS
<1> HIDE DEF t, e
<1> QED
  BY <1>0, <1>1, <1>2 DEF LastTold

LEMMA LastToldTaken ==
    ASSUME events \in Seq(Events), LastTold, events # <<>>, events' = Tail(events), told' = told,
           view' = IF Head(events).refused = None THEN Head(events).ids ELSE view
    PROVE  LastTold'
<1> DEFINE t == Tail(events)
<1>1. /\ Head(events) = events[1] /\ 1 \in DOMAIN events
      /\ \A k \in DOMAIN t : k + 1 \in DOMAIN events /\ t[k] = events[k + 1] /\ k + 1 > 1
      /\ \A k \in DOMAIN events : k = 1 \/ (k - 1 \in DOMAIN t /\ t[k - 1] = events[k])
      /\ DOMAIN events \subseteq Int /\ DOMAIN t \subseteq Int
  BY TailMembers
<1>2. events' = t
  OBVIOUS
<1> HIDE DEF t
<1>3. ASSUME \A k \in DOMAIN t : t[k].refused # None
      PROVE  view' = told
  <2>1. \A k \in DOMAIN events : k # 1 => events[k].refused # None
    BY <1>1, <1>3
  <2>2. CASE events[1].refused = None
    BY <1>1, <2>1, <2>2 DEF LastTold
  <2>3. CASE events[1].refused # None
    BY <1>1, <2>1, <2>3 DEF LastTold
  <2> QED
    BY <2>2, <2>3
<1>4. ASSUME NEW k \in DOMAIN t, t[k].refused = None,
             \A m \in DOMAIN t : m > k => t[m].refused # None
      PROVE  t[k].ids = told
  <2>1. ASSUME NEW m \in DOMAIN events, m > k + 1
        PROVE  events[m].refused # None
    <3>1. m \in Int /\ k \in Int /\ k + 1 > 1
      BY <1>1
    <3>2. m # 1 /\ m - 1 > k
      BY <2>1, <3>1
    <3> QED
      BY <1>1, <1>4, <3>2, SMTT(30)
  <2> QED
    BY <1>1, <1>4, <2>1 DEF LastTold
<1> QED
  BY <1>2, <1>3, <1>4 DEF LastTold

(* reconcile() asks for what the key calls for, and for nothing twice.     *)
LEMMA Reconciled ==
    ASSUME NEW last, Reconcile(last), calls \in Seq(Calls), armed' \in SUBSET Items, view' \in SUBSET Items,
           slug' \in [Items -> Slugs], league' \in Leagues
    PROVE  LET key == [league |-> league', ids |-> armed'] IN
           /\ calls' \in Seq(Calls)
           /\ ~loaded' \/ key = last => lastKey' = last /\ calls' = calls
           /\ loaded' /\ key # last =>
                 /\ lastKey' = key
                 /\ \A i \in Items : StartOf(i)' <=> StartOf(i) \/ i \in armed' \ view'
                 /\ \A i \in Items : StopOf(i)' <=> StopOf(i) \/ i \in view' \ armed'
<1> DEFINE key == [league |-> league', ids |-> armed']
<1>1. CASE ~loaded' \/ key = last
  BY <1>1 DEF Reconcile
<1>2. CASE loaded' /\ key # last
  <2>1. PICK more \in SetToSeqs(armed' \ view'), less \in SetToSeqs(view' \ armed') :
           lastKey' = key /\ calls' = calls \o StartsOf(more) \o StopsOf(less)
    BY <1>2 DEF Reconcile
  <2>2. IsFiniteSet(armed' \ view') /\ IsFiniteSet(view' \ armed')
    BY ItemsAreFinite, FS_Subset
  <2>3. more \in Seq(armed' \ view') /\ Range(more) = armed' \ view'
    BY <2>2, OrderIsOnto
  <2>4. less \in Seq(view' \ armed') /\ Range(less) = view' \ armed'
    BY <2>2, OrderIsOnto
  <2>5. \A i \in Items : /\ StartCall(i) \in Calls /\ StartCall(i).item = i /\ StartCall(i).search # None
                         /\ StopCall(i) \in Calls /\ StopCall(i).item = i /\ StopCall(i).search = None
    BY SearchesAssumption, NoneIsNoSearch DEF StartCall, StopCall, Calls
  <2> DEFINE a == StartsOf(more)
             b == StopsOf(less)
  <2>6. a \in Seq(Calls) /\ Range(a) = {StartCall(i) : i \in armed' \ view'}
    <3>1. Len(more) \in Nat /\ DOMAIN more = 1..Len(more)
      BY <2>3, LenProperties
    <3>2. \A k \in DOMAIN more : more[k] \in armed' \ view'
      BY <2>3, ElementOfSeq, <3>1
    <3> QED
      BY <2>3, <2>5, <3>1, <3>2 DEF StartsOf, Range
  <2>7. b \in Seq(Calls) /\ Range(b) = {StopCall(i) : i \in view' \ armed'}
    <3>1. Len(less) \in Nat /\ DOMAIN less = 1..Len(less)
      BY <2>4, LenProperties
    <3>2. \A k \in DOMAIN less : less[k] \in view' \ armed'
      BY <2>4, ElementOfSeq, <3>1
    <3> QED
      BY <2>4, <2>5, <3>1, <3>2 DEF StopsOf, Range
  <2>8. calls' = (calls \o a) \o b
    BY <2>1
  <2> HIDE DEF a, b
  <2>9. calls \o a \in Seq(Calls) /\ Range(calls \o a) = Range(calls) \cup Range(a)
    BY <2>6, ConcatProperties, RangeConcatenation
  <2> DEFINE ca == calls \o a
  <2>. ca \in Seq(Calls)
    BY <2>9
  <2> HIDE DEF ca
  <2>14. ca \o b \in Seq(Calls) /\ Range(ca \o b) = Range(ca) \cup Range(b)
    BY <2>7, ConcatProperties, RangeConcatenation
  <2>10. calls' \in Seq(Calls) /\ Range(calls') = Range(calls \o a) \cup Range(b)
    BY <2>14, <2>8 DEF ca
  <2>11. Range(calls') = Range(calls) \cup {StartCall(i) : i \in armed' \ view'} \cup {StopCall(i) : i \in view' \ armed'}
    BY <2>6, <2>7, <2>9, <2>10
  <2>12. \A i \in Items : StartOf(i)' <=> StartOf(i) \/ i \in armed' \ view'
    BY <2>5, <2>11 DEF StartOf
  <2>13. \A i \in Items : StopOf(i)' <=> StopOf(i) \/ i \in view' \ armed'
    BY <2>5, <2>11 DEF StopOf
  <2> QED
    BY <1>2, <2>1, <2>10, <2>12, <2>13
<1> QED
  BY <1>1, <1>2
-----------------------------------------------------------------------------
(* The engine as the page sees it takes the registry's steps only.         *)
LEMMA RegistrySteps == Types /\ [Next]_vars => [RegistryNext]_regVars
<1> SUFFICES ASSUME Types, [Next]_vars PROVE [RegistryNext]_regVars
  OBVIOUS
<1>1. ASSUME HandleStart PROVE [RegistryNext]_regVars
  <2>1. Head(calls) \in Calls /\ Head(calls).search # None
    BY <1>1, CallTaken DEF HandleStart, Types
  <2>2. Head(calls).item \in Items /\ Head(calls).search \in Searches
    BY <2>1 DEF Calls
  <2> QED
    BY <1>1, <2>2 DEF HandleStart, RegistryNext
<1>2. ASSUME HandleStop PROVE [RegistryNext]_regVars
  <2>1. Head(calls) \in Calls
    BY <1>2, CallTaken DEF HandleStop, Types
  <2>2. {Head(calls).item} \in SUBSET Items
    BY <2>1 DEF Calls
  <2> QED
    BY <1>2, <2>2 DEF HandleStop, RegistryNext
<1>3. CASE EngineSettles \/ EngineOpens
  BY <1>3 DEF EngineSettles, EngineOpens, RegistryNext
<1>4. CASE User \/ Renderer
  BY <1>4 DEF User, EditArmed, Reprice, SetLeague, Reload, Renderer, Load, ReceiveState, ReceiveRefusal
<1>5. CASE UNCHANGED vars
  BY <1>5 DEF vars
<1> QED
  BY <1>1, <1>2, <1>3, <1>4, <1>5 DEF Next, Engine

LEMMA TypesKept == Types /\ RegistryTypeOK /\ RegistryTypeOK' /\ [Next]_vars => Types'
<1> SUFFICES ASSUME Types, RegistryTypeOK, RegistryTypeOK', [Next]_vars PROVE Types'
  OBVIOUS
<1> USE DEF Types
<1>14. user' = user
  BY DEF Next, vars
<1>0. ASSUME NEW last, Reconcile(last), armed' \in SUBSET Items, view' \in SUBSET Items,
             slug' \in [Items -> Slugs], league' \in Leagues,
             last = None \/ last \in [league : Leagues, ids : SUBSET Items]
      PROVE  calls' \in Seq(Calls) /\ (lastKey' = None \/ lastKey' \in [league : Leagues, ids : SUBSET Items])
  BY <1>0, Reconciled
<1>1. ASSUME NEW ids \in SUBSET Items, EditArmed(ids) PROVE Types'
  BY <1>14, <1>0, <1>1 DEF EditArmed
<1>2. ASSUME NEW i \in Items, NEW s \in Slugs, Reprice(i, s) PROVE Types'
  BY <1>14, <1>0, <1>2 DEF Reprice
<1>3. ASSUME NEW l \in Leagues, SetLeague(l) PROVE Types'
  BY <1>14, <1>0, <1>3 DEF SetLeague
<1>4. ASSUME Reload PROVE Types'
  BY <1>14, <1>4 DEF Reload
<1>5. ASSUME Load PROVE Types'
  BY <1>14, <1>0, <1>5 DEF Load
<1>6. ASSUME ReceiveState PROVE Types'
  <2>1. events' \in Seq(Events) /\ Head(events).ids \in SUBSET Items
    BY <1>6, EventTaken DEF ReceiveState, Events
  <2> QED
    BY <1>14, <1>0, <1>6, <2>1 DEF ReceiveState, rows
<1>7. ASSUME ReceiveRefusal PROVE Types'
  <2>1. events' \in Seq(Events)
    BY <1>7, EventTaken DEF ReceiveRefusal
  <2> QED
    BY <1>14, <1>0, <1>7, <2>1 DEF ReceiveRefusal
<1>8. ASSUME NEW ids \in SUBSET Items, NEW r \in Items \cup {None}, Sent(ids, r) PROVE events' \in Seq(Events)
  BY <1>8, EventSent DEF Sent, Events
<1>9. told' \in SUBSET Items
  BY DEF RegistryTypeOK
<1>10. ASSUME HandleStart PROVE Types'
  <2>1. calls' \in Seq(Calls) /\ Head(calls).item \in Items
    BY <1>10, CallTaken DEF HandleStart, Calls
  <2> QED
    BY <1>14, <1>8, <1>10, <2>1 DEF HandleStart, page, rows
<1>11. ASSUME HandleStop PROVE Types'
  <2>1. calls' \in Seq(Calls)
    BY <1>11, CallTaken DEF HandleStop
  <2> QED
    BY <1>14, <1>8, <1>9, <1>11, <2>1 DEF HandleStop, Announced, page, rows
<1>12. CASE EngineSettles \/ EngineOpens
  BY <1>14, <1>8, <1>9, <1>12 DEF EngineSettles, EngineOpens, Announced, page, rows
<1>13. CASE UNCHANGED vars
  BY <1>13 DEF vars, page, rows
<1> QED
  BY <1>1, <1>2, <1>3, <1>4, <1>5, <1>6, <1>7, <1>10, <1>11, <1>12, <1>13 DEF Next, User, Renderer, Engine
-----------------------------------------------------------------------------
(* The patient user's steps, one lemma for each.                           *)
LEMMA AtRest ==
    ASSUME Types, RegistryTypeOK, ToldTheTruth, InStep, Quiet, loaded
    PROVE  /\ armed = Active(running) /\ view = armed
           /\ \A i : ~StartOf(i) /\ ~StopOf(i) /\ ~RefusalOf(i)
           /\ ~Arming /\ events = <<>> /\ calls = <<>> /\ lastKey = [league |-> league, ids |-> armed]
<1>1. Range(calls) = {} /\ Range(events) = {} /\ DOMAIN events = {}
  BY DEF Quiet, Range
<1>2. \A i : ~StartOf(i) /\ ~StopOf(i) /\ ~RefusalOf(i)
  BY <1>1 DEF StartOf, StopOf, RefusalOf
<1>3. armed = Active(running)
  BY <1>2 DEF InStep, Accounted, Active, Types
<1>4. told = Active(running)
  BY DEF ToldTheTruth, Quiet
<1>5. view = told
  BY <1>1 DEF InStep, LastTold
<1> QED
  BY <1>2, <1>3, <1>4, <1>5 DEF Quiet, Arming, InStep, AskedFor

LEMMA EditKeepsStep ==
    ASSUME Types, Types', RegistryTypeOK, ToldTheTruth, InStep, user.waits, NEW ids \in SUBSET Items, EditArmed(ids)
    PROVE  InStep'
<1>1. Quiet /\ loaded /\ ids # armed /\ (armed \subseteq ids \/ ids \subseteq armed) /\ Reconcile(lastKey)
  BY DEF EditArmed, Ready
<1>2. /\ armed' = ids /\ slug' = slug /\ league' = league /\ loaded' = loaded /\ view' = view
      /\ events' = events /\ running' = running /\ starting' = starting /\ told' = told
  BY DEF EditArmed, regVars
<1>3. /\ armed = Active(running) /\ view = armed /\ ~Arming /\ events = <<>> /\ lastKey = [league |-> league, ids |-> armed]
      /\ \A i : ~StartOf(i) /\ ~StopOf(i) /\ ~RefusalOf(i)
  BY <1>1, AtRest
<1>4. /\ lastKey' = [league |-> league, ids |-> ids]
      /\ \A i \in Items : StartOf(i)' <=> i \in ids \ armed
      /\ \A i \in Items : StopOf(i)' <=> i \in armed \ ids
  <2>1. [league |-> league', ids |-> armed'] # lastKey
    BY <1>1, <1>2, <1>3
  <2> QED
    BY <1>1, <1>2, <1>3, <2>1, Reconciled DEF Types
<1>5. \A i : ~RefusalOf(i)'
  BY <1>2, <1>3 DEF RefusalOf
<1>6. Active(running)' = armed
  BY <1>2, <1>3 DEF Active
<1>7. NothingYet' /\ LastTold' /\ AskedFor'
  BY <1>1, <1>2, <1>4 DEF NothingYet, LastTold, AskedFor, InStep
<1>8. Accounted'
  BY <1>2, <1>4, <1>6 DEF Accounted, Active, Types
<1>9. OneWay'
  BY <1>1, <1>2, <1>4, <1>5 DEF OneWay, Arming
<1>10. Lagging'
  BY <1>2, <1>3, <1>6 DEF Lagging, Range
<1> QED
  BY <1>7, <1>8, <1>9, <1>10 DEF InStep

LEMMA RepriceKeepsStep ==
    ASSUME Types, Types', RegistryTypeOK, ToldTheTruth, InStep, user.waits, NEW i \in Items, NEW s \in Slugs, Reprice(i, s)
    PROVE  InStep'
<1>1. /\ Quiet /\ loaded /\ Reconcile(lastKey) /\ UNCHANGED <<armed, league, loaded, view, events, running, starting, told>>
  BY DEF Reprice, Ready, regVars
<1>2. [league |-> league', ids |-> armed'] = lastKey
  BY <1>1, AtRest
<1>3. lastKey' = lastKey /\ calls' = calls
  BY <1>1, <1>2, Reconciled DEF Types
<1> QED
  BY <1>1, <1>3 DEF InStep, NothingYet, LastTold, Accounted, OneWay, Lagging, AskedFor, Active, Arming, StartOf, StopOf, RefusalOf, Full

LEMMA LeagueKeepsStep ==
    ASSUME Types, Types', RegistryTypeOK, ToldTheTruth, InStep, user.waits, NEW l \in Leagues, SetLeague(l)
    PROVE  InStep'
<1>1. Quiet /\ loaded /\ Reconcile(None)
  BY DEF SetLeague, Ready
<1>2. /\ armed' = armed /\ slug' = slug /\ league' = l /\ loaded' = loaded /\ view' = view
      /\ events' = events /\ running' = running /\ starting' = starting /\ told' = told
  BY DEF SetLeague, regVars
<1>3. /\ armed = Active(running) /\ view = armed /\ events = <<>>
      /\ \A i : ~StartOf(i) /\ ~StopOf(i) /\ ~RefusalOf(i)
  BY <1>1, AtRest
<1>4. /\ lastKey' = [league |-> l, ids |-> armed]
      /\ \A i \in Items : ~StartOf(i)' /\ ~StopOf(i)'
  <2>1. [league |-> league', ids |-> armed'] # None
    BY <1>2, NoneIsNothingElse DEF Types
  <2> QED
    BY <1>1, <1>2, <1>3, <2>1, Reconciled DEF Types
<1>5. \A i : ~RefusalOf(i)'
  BY <1>2, <1>3 DEF RefusalOf
<1>6. Active(running)' = armed /\ ~Arming'
  BY <1>2, <1>3, <1>4, <1>5 DEF Active, Arming
<1>7. NothingYet' /\ LastTold' /\ AskedFor'
  BY <1>1, <1>2, <1>4 DEF NothingYet, LastTold, AskedFor, InStep
<1>8. Accounted'
  BY <1>2, <1>4, <1>6 DEF Accounted, Active, Types
<1>9. OneWay' /\ Lagging'
  BY <1>4, <1>5, <1>6 DEF OneWay, Lagging
<1> QED
  BY <1>7, <1>8, <1>9 DEF InStep

LEMMA LoadKeepsStep ==
    ASSUME Types, Types', RegistryTypeOK, InStep, Load
    PROVE  InStep'
<1>1. ~loaded /\ loaded' /\ Reconcile(lastKey)
  BY DEF Load
<1>2. /\ armed' = armed /\ slug' = slug /\ league' = league /\ view' = view
      /\ events' = events /\ running' = running /\ starting' = starting /\ told' = told
  BY DEF Load, regVars
<1>3. calls = <<>> /\ events = <<>> /\ view = {} /\ Active(running) = {} /\ lastKey = None
  BY <1>1 DEF InStep, NothingYet
<1>4. \A i : ~StartOf(i) /\ ~StopOf(i) /\ ~RefusalOf(i)'
  BY <1>2, <1>3 DEF StartOf, StopOf, RefusalOf, Range
<1>5. /\ lastKey' = [league |-> league, ids |-> armed]
      /\ \A i \in Items : StartOf(i)' <=> i \in armed
      /\ \A i \in Items : ~StopOf(i)'
  <2>1. [league |-> league', ids |-> armed'] # None
    BY <1>2, NoneIsNothingElse DEF Types
  <2> QED
    BY <1>1, <1>2, <1>3, <1>4, <2>1, Reconciled DEF Types
<1>6. NothingYet' /\ LastTold' /\ AskedFor'
  BY <1>1, <1>2, <1>5 DEF NothingYet, LastTold, AskedFor, InStep
<1>7. Accounted'
  BY <1>2, <1>3, <1>5 DEF Accounted, Active, Types
<1>8. OneWay'
  BY <1>2, <1>4, <1>5 DEF OneWay
<1>9. Lagging'
  BY <1>2, <1>3 DEF Lagging, Range
<1> QED
  BY <1>6, <1>7, <1>8, <1>9 DEF InStep

LEMMA ReceiveStateKeepsStep ==
    ASSUME Types, Types', RegistryTypeOK, InStep, ReceiveState
    PROVE  InStep'
<1>1. /\ events # <<>> /\ events' = Tail(events) /\ Head(events).refused = None /\ view' = Head(events).ids
      /\ armed' = armed /\ slug' = slug /\ league' = league /\ loaded' = loaded
      /\ running' = running /\ starting' = starting /\ told' = told
  BY DEF ReceiveState, rows, regVars
<1>2. /\ events' \in Seq(Events) /\ Head(events) \in Events
      /\ Range(events') \subseteq Range(events) /\ Head(events) \in Range(events)
      /\ \A i : RefusalOf(i) => RefusalOf(i)' \/ Head(events).refused = i
      /\ \A i : RefusalOf(i)' => RefusalOf(i)
  BY <1>1, EventTaken DEF Types
<1>3. loaded
  BY <1>1 DEF InStep, NothingYet
<1>4. [league |-> league', ids |-> armed'] = lastKey
  BY <1>1, <1>3 DEF InStep, AskedFor
<1>5. lastKey' = lastKey /\ calls' = calls
  <2>1. CASE Reconcile(lastKey)
    BY <2>1, <1>1, <1>4, Reconciled DEF Types
  <2> QED
    BY <2>1 DEF ReceiveState
<1>6. \A i \in Items : (StartOf(i)' <=> StartOf(i)) /\ (StopOf(i)' <=> StopOf(i)) /\ (RefusalOf(i)' <=> RefusalOf(i))
  BY <1>1, <1>2, <1>5, NoneIsNothingElse DEF StartOf, StopOf
<1>7. NothingYet' /\ AskedFor'
  BY <1>1, <1>3, <1>5 DEF InStep, NothingYet, AskedFor
<1>8. LastTold'
  BY <1>1, LastToldTaken DEF InStep, Types
<1>9. Accounted'
  BY <1>1, <1>6 DEF InStep, Accounted, Types
<1>10. Arming' => Arming
  BY <1>6 DEF Arming
<1>11. OneWay'
  BY <1>1, <1>6, <1>10 DEF InStep, OneWay, Full, Active
<1>12. Lagging'
  BY <1>1, <1>2, <1>10 DEF InStep, Lagging, Active
<1> QED
  BY <1>7, <1>8, <1>9, <1>11, <1>12 DEF InStep

LEMMA ReceiveRefusalKeepsStep ==
    ASSUME Types, Types', RegistryTypeOK, InStep, ReceiveRefusal
    PROVE  InStep'
<1> DEFINE r == Head(events).refused
<1>1. /\ events # <<>> /\ events' = Tail(events) /\ r # None /\ view' = view /\ armed' = armed \ {r}
      /\ slug' = slug /\ league' = league /\ loaded' = loaded
      /\ running' = running /\ starting' = starting /\ told' = told /\ Reconcile(lastKey)
  BY DEF ReceiveRefusal, regVars
<1>2. /\ events' \in Seq(Events) /\ Head(events) \in Events
      /\ Range(events') \subseteq Range(events)
      /\ \A i : RefusalOf(i) => RefusalOf(i)' \/ r = i
      /\ \A i : RefusalOf(i)' => RefusalOf(i)
      /\ RefusalOf(r)
  BY <1>1, EventTaken DEF Types
<1>3. loaded /\ r \in Items
  BY <1>1, <1>2 DEF InStep, NothingYet, Events
<1>4. Arming /\ running[r] = None /\ Full
  BY <1>2, <1>3 DEF Arming, InStep, OneWay
<1>5. \A i \in Items : ~StopOf(i)
  BY <1>4 DEF InStep, OneWay
<1>6. view \subseteq Active(running) /\ Active(running) \subseteq armed'
  BY <1>1, <1>3, <1>4, <1>5 DEF InStep, Lagging, Accounted, Active
<1>7. /\ lastKey' = [league |-> league', ids |-> armed']
      /\ \A i \in Items : StartOf(i)' => StartOf(i) \/ i \in armed'
      /\ \A i \in Items : StartOf(i) => StartOf(i)'
      /\ \A i \in Items : ~StopOf(i)'
  <2>1. CASE [league |-> league', ids |-> armed'] = lastKey
    <3>1. lastKey' = lastKey /\ calls' = calls
      BY <1>1, <2>1, Reconciled DEF Types
    <3> QED
      BY <1>5, <2>1, <3>1 DEF StartOf, StopOf
  <2>2. CASE [league |-> league', ids |-> armed'] # lastKey
    <3>1. /\ lastKey' = [league |-> league', ids |-> armed']
          /\ \A i \in Items : StartOf(i)' <=> StartOf(i) \/ i \in armed' \ view'
          /\ \A i \in Items : StopOf(i)' <=> StopOf(i) \/ i \in view' \ armed'
      BY <1>1, <1>3, <2>2, Reconciled DEF Types
    <3> QED
      BY <1>1, <1>5, <1>6, <3>1
  <2> QED
    BY <2>1, <2>2
<1>8. NothingYet' /\ AskedFor'
  BY <1>1, <1>3, <1>7 DEF NothingYet, AskedFor
<1>9. LastTold'
  BY <1>1, LastToldTaken DEF InStep, Types
<1>10. Accounted'
  BY <1>1, <1>2, <1>3, <1>4, <1>5, <1>7 DEF InStep, Accounted, Types
<1>11. OneWay'
  BY <1>1, <1>2, <1>4, <1>7 DEF InStep, OneWay, Full, Active
<1>12. Lagging'
  BY <1>1, <1>2, <1>4 DEF InStep, Lagging, Active
<1> QED
  BY <1>8, <1>9, <1>10, <1>11, <1>12 DEF InStep

(* More rows run after a start, and no fewer than before.                  *)
LEMMA FullStays ==
    ASSUME RegistryTypeOK, RegistryTypeOK', Active(running) \subseteq Active(running)', Full
    PROVE  Full'
<1> DEFINE A == Active(running)
           B == Active(running)'
<1>1. IsFiniteSet(B) /\ A \subseteq B
  BY ItemsAreFinite, FS_Subset DEF Active
<1>2. IsFiniteSet(A) /\ Cardinality(A) <= Cardinality(B) /\ Cardinality(A) \in Nat /\ Cardinality(B) \in Nat
  BY <1>1, FS_Subset, FS_CardinalityType
<1>3. Cardinality(A) >= MAX_SOCKETS
  BY DEF Full
<1>4. Full' <=> Cardinality(B) >= MAX_SOCKETS
  BY DEF Full
<1> HIDE DEF A, B
<1> QED
  BY <1>2, <1>3, <1>4, CapIsNatural

LEMMA StartKeepsStep ==
    ASSUME Types, Types', RegistryTypeOK, RegistryTypeOK', InStep, HandleStart
    PROVE  InStep'
<1> DEFINE i == Head(calls).item
           q == Head(calls).search
<1>1. /\ calls # <<>> /\ calls' = Tail(calls) /\ q # None
      /\ armed' = armed /\ league' = league /\ loaded' = loaded /\ view' = view /\ lastKey' = lastKey
  BY DEF HandleStart, page, rows
<1>2. /\ Head(calls) \in Calls
      /\ \A j : StartOf(j) => StartOf(j)' \/ i = j
      /\ \A j : (StartOf(j)' => StartOf(j)) /\ (StopOf(j)' => StopOf(j))
      /\ StartOf(i)
  BY <1>1, CallTaken DEF Types
<1>3. i \in Items /\ loaded /\ q \in Searches
  BY <1>1, <1>2 DEF InStep, NothingYet, Calls
<1>4. Arming /\ \A j \in Items : ~StopOf(j) /\ ~StopOf(j)'
  BY <1>2, <1>3 DEF Arming, InStep, OneWay
<1>5. NothingYet' /\ AskedFor'
  BY <1>1, <1>3 DEF InStep, NothingYet, AskedFor
<1>6. CASE Start(i, q) /\ UNCHANGED events
  <2>1. /\ running[i] = None /\ ~Full /\ running' = [running EXCEPT ![i] = q] /\ told' = told /\ events' = events
    <3>1. Cardinality(Active(running)) < MAX_SOCKETS /\ Cardinality(Active(running)) \in Nat
      BY <1>6, ItemsAreFinite, FS_Subset, FS_CardinalityType DEF Start, Active
    <3> QED
      BY <1>6, <3>1, CapIsNatural DEF Start, Full
  <2>2. /\ \A j \in Items : running'[j] = IF j = i THEN q ELSE running[j]
        /\ Active(running) \subseteq Active(running)'
    BY <1>3, <2>1, NoneIsNoSearch DEF RegistryTypeOK, Active
  <2>3. \A j \in Items : ~RefusalOf(j) /\ ~RefusalOf(j)'
    BY <2>1 DEF InStep, OneWay, RefusalOf
  <2>4. LastTold'
    BY <1>1, <2>1 DEF InStep, LastTold
  <2>8. i \in armed
    BY <1>2, <1>3, <2>1 DEF InStep, OneWay
  <2>5. Accounted'
    BY <1>1, <1>2, <1>3, <1>4, <2>2, <2>3, <2>8, NoneIsNoSearch DEF InStep, Accounted, Types
  <2>6. OneWay'
    BY <1>1, <1>2, <1>4, <2>1, <2>3 DEF InStep, OneWay
  <2>7. Lagging'
    BY <1>1, <1>4, <2>1, <2>2 DEF InStep, Lagging
  <2> QED
    BY <1>5, <2>4, <2>5, <2>6, <2>7 DEF InStep
<1>7. CASE running[i] # None /\ UNCHANGED <<events, regVars>>
  <2>1. running' = running /\ told' = told /\ events' = events
    BY <1>7 DEF regVars
  <2>2. \A j : RefusalOf(j)' <=> RefusalOf(j)
    BY <2>1 DEF RefusalOf
  <2>3. LastTold'
    BY <1>1, <2>1 DEF InStep, LastTold
  <2>4. Accounted'
    BY <1>1, <1>2, <1>3, <1>4, <1>7, <2>1, <2>2 DEF InStep, Accounted, Types
  <2>5. OneWay'
    BY <1>1, <1>2, <1>4, <2>1, <2>2 DEF InStep, OneWay, Full, Active
  <2>6. Lagging'
    BY <1>1, <1>4, <2>1 DEF InStep, Lagging, Active
  <2> QED
    BY <1>5, <2>3, <2>4, <2>5, <2>6 DEF InStep
<1>8. CASE running[i] = None /\ Cardinality(Active(running)) >= MAX_SOCKETS /\ Sent({}, i) /\ UNCHANGED regVars
  <2> DEFINE e == [ids |-> {}, refused |-> i]
  <2>1. running' = running /\ told' = told /\ events' = Append(events, e) /\ Full
    BY <1>8 DEF regVars, Sent, Full
  <2>2. e \in Events /\ e.ids = {} /\ e.refused = i
    BY <1>3 DEF Events
  <2>3. /\ Range(events') = Range(events) \cup {e}
        /\ \A j : RefusalOf(j)' <=> RefusalOf(j) \/ i = j
    BY <2>1, <2>2, EventSent DEF Types
  <2>4. LastTold'
    BY <1>1, <1>3, <2>1, RefusalSent DEF InStep, Types
  <2>5. Accounted'
    BY <1>1, <1>2, <1>3, <1>4, <2>1, <2>3 DEF InStep, Accounted, Types
  <2>6. OneWay'
    BY <1>1, <1>2, <1>4, <1>8, <2>1, <2>3 DEF InStep, OneWay, Full, Active
  <2>7. Lagging'
    BY <1>1, <1>4, <2>1, <2>2, <2>3 DEF InStep, Lagging, Active
  <2> QED
    BY <1>5, <2>4, <2>5, <2>6, <2>7 DEF InStep
<1> QED
  BY <1>6, <1>7, <1>8 DEF HandleStart

LEMMA StopKeepsStep ==
    ASSUME Types, Types', RegistryTypeOK, RegistryTypeOK', InStep, HandleStop
    PROVE  InStep'
<1> DEFINE i == Head(calls).item
<1>1. /\ calls # <<>> /\ calls' = Tail(calls) /\ Head(calls).search = None
      /\ armed' = armed /\ league' = league /\ loaded' = loaded /\ view' = view /\ lastKey' = lastKey
  BY DEF HandleStop, page, rows
<1>2. /\ Head(calls) \in Calls
      /\ \A j : StopOf(j) => StopOf(j)' \/ i = j
      /\ \A j : (StartOf(j)' => StartOf(j)) /\ (StopOf(j)' => StopOf(j))
      /\ StopOf(i)
  BY <1>1, CallTaken DEF Types
<1>3. i \in Items /\ loaded
  BY <1>1, <1>2 DEF InStep, NothingYet, Calls
<1>4. i \notin armed /\ \A j \in Items : ~StartOf(j) /\ ~RefusalOf(j) /\ ~StartOf(j)'
  BY <1>2, <1>3 DEF Arming, InStep, OneWay
<1>5. NothingYet' /\ AskedFor'
  BY <1>1, <1>3 DEF InStep, NothingYet, AskedFor
<1>6. CASE running[i] = None /\ UNCHANGED <<events, regVars>>
  <2>1. running' = running /\ told' = told /\ events' = events
    BY <1>6 DEF regVars
  <2>2. \A j \in Items : ~RefusalOf(j)'
    BY <1>4, <2>1 DEF RefusalOf
  <2>3. LastTold'
    BY <1>1, <2>1 DEF InStep, LastTold
  <2>4. Accounted'
    BY <1>1, <1>2, <1>3, <1>4, <1>6, <2>1 DEF InStep, Accounted, Types
  <2>5. OneWay' /\ Lagging'
    BY <1>1, <1>2, <1>4, <2>2 DEF InStep, OneWay, Lagging, Arming
  <2> QED
    BY <1>5, <2>3, <2>4, <2>5 DEF InStep
<1>7. CASE Stop({i}) /\ Announced
  <2> DEFINE e == [ids |-> told', refused |-> None]
  <2>1. running' = [j \in Items |-> IF j = i THEN None ELSE running[j]] /\ events' = Append(events, e)
    BY <1>7 DEF Stop, Announced, Sent
  <2>2. e \in Events /\ e.refused = None /\ told' \in SUBSET Items
    BY DEF Events, RegistryTypeOK
  <2>3. \A j \in Items : ~RefusalOf(j)'
    BY <1>4, <2>1, <2>2, EventSent, NoneIsNothingElse DEF Types
  <2>4. LastTold'
    BY <2>1, <2>2, TableSent DEF Types
  <2>5. Accounted'
    BY <1>1, <1>2, <1>3, <1>4, <2>1 DEF InStep, Accounted, Types
  <2>6. OneWay' /\ Lagging'
    BY <1>1, <1>2, <1>4, <2>3 DEF InStep, OneWay, Lagging, Arming
  <2> QED
    BY <1>5, <2>4, <2>5, <2>6 DEF InStep
<1> QED
  BY <1>6, <1>7 DEF HandleStop

LEMMA TellingKeepsStep ==
    ASSUME Types, Types', RegistryTypeOK, RegistryTypeOK', InStep, EngineSettles \/ EngineOpens
    PROVE  InStep'
<1> DEFINE e == [ids |-> told', refused |-> None]
<1>1. /\ armed' = armed /\ league' = league /\ loaded' = loaded /\ view' = view /\ lastKey' = lastKey
      /\ calls' = calls /\ running' = running /\ told' = Active(running) /\ events' = Append(events, e)
  BY DEF EngineSettles, EngineOpens, Settle, Announce, Announced, Sent, page, rows
<1>2. loaded
  BY DEF EngineSettles, EngineOpens, Settle, InStep, NothingYet
<1>3. e \in Events /\ e.refused = None /\ e.ids = told' /\ told' \in SUBSET Items
  BY DEF Events, RegistryTypeOK
<1>4. /\ Range(events') = Range(events) \cup {e}
      /\ \A j \in Items : RefusalOf(j)' <=> RefusalOf(j)
  BY <1>1, <1>3, EventSent, NoneIsNothingElse DEF Types
<1>5. \A j : (StartOf(j)' <=> StartOf(j)) /\ (StopOf(j)' <=> StopOf(j))
  BY <1>1 DEF StartOf, StopOf
<1>6. NothingYet' /\ AskedFor'
  BY <1>1, <1>2 DEF InStep, NothingYet, AskedFor
<1>7. LastTold'
  BY <1>1, <1>3, TableSent DEF Types
<1>8. Accounted'
  BY <1>1, <1>4, <1>5 DEF InStep, Accounted, Types
<1>9. Arming' <=> Arming
  BY <1>4, <1>5 DEF Arming
<1>10. OneWay'
  BY <1>1, <1>4, <1>5, <1>9 DEF InStep, OneWay, Full, Active
<1>11. Lagging'
  BY <1>1, <1>3, <1>4, <1>9 DEF InStep, Lagging, Active
<1> QED
  BY <1>6, <1>7, <1>8, <1>10, <1>11 DEF InStep
-----------------------------------------------------------------------------
(* The page and the handlers use the engine as its registry: LiveSync      *)
(* implements SearchRegistry, so what is proved of it holds here.          *)
THEOREM SyncUsesRegistry == Spec => [](Types /\ RegistryTypeOK) /\ RegistrySpec
<1>1. Init => Types /\ RegistryTypeOK /\ RegistryInit
  <2> SUFFICES ASSUME Init PROVE Types /\ RegistryTypeOK /\ RegistryInit
    OBVIOUS
  <2>1. RegistryTypeOK
    BY DEF Init, RegistryInit, RegistryTypeOK
  <2>2. <<>> \in Seq(Calls) /\ <<>> \in Seq(Events)
    BY EmptySeq
  <2>3. Types
    BY <2>2 DEF Init, Types
  <2> QED
    BY <2>1, <2>3 DEF Init
<1>2. Types /\ RegistryTypeOK /\ [Next]_vars => [RegistryNext]_regVars
  BY RegistrySteps
<1>3. RegistryTypeOK /\ [RegistryNext]_regVars => RegistryTypeOK'
  <2> SUFFICES ASSUME RegistryTypeOK, [RegistryNext]_regVars PROVE RegistryTypeOK'
    OBVIOUS
  <2>1. ASSUME NEW i \in Items, NEW s \in Searches, Start(i, s) PROVE RegistryTypeOK'
    BY <2>1 DEF RegistryTypeOK, Start
  <2>2. ASSUME NEW gone \in SUBSET Items, Stop(gone) PROVE RegistryTypeOK'
    BY <2>2 DEF RegistryTypeOK, Stop, Active
  <2>3. CASE Settle \/ Announce \/ UNCHANGED regVars
    BY <2>3 DEF RegistryTypeOK, Settle, Announce, Active, regVars
  <2> QED
    BY <2>1, <2>2, <2>3 DEF RegistryNext
<1>4. Types /\ RegistryTypeOK /\ RegistryTypeOK' /\ [Next]_vars => Types'
  BY TypesKept
<1> QED
  BY <1>1, <1>2, <1>3, <1>4, PTL DEF Spec, RegistrySpec

(* "Every search node with armed:true should be running; everything else   *)
(* stopped" (liveWiring.js): for a user who waits for the engine between   *)
(* two moves, whatever rows, searches and allowance there are.             *)
THEOREM PatientComesInStep == Spec => []PatientInStep
<1> DEFINE I == Patient => InStep
<1>1. Init => I
  BY DEF Init, InStep, NothingYet, LastTold, Accounted, OneWay, Lagging, AskedFor, RegistryInit, Active,
         StartOf, StopOf, RefusalOf, Arming, Range
<1>2. I /\ Types /\ Types' /\ RegistryTypeOK /\ RegistryTypeOK' /\ ToldTheTruth /\ [Next]_vars => I'
  <2> SUFFICES ASSUME Patient', I, Types, Types', RegistryTypeOK, RegistryTypeOK', ToldTheTruth, [Next]_vars
               PROVE  InStep'
    OBVIOUS
  <2>1. user' = user
    BY DEF Next, vars
  <2>2. InStep /\ user.waits /\ "reload" \notin user.moves
    BY <2>1 DEF Patient
  <2> HIDE DEF I
  <2>3. CASE User
    <3>1. ~Reload
      BY <2>2 DEF Reload, Ready
    <3> QED
      BY <2>2, <2>3, <3>1, EditKeepsStep, RepriceKeepsStep, LeagueKeepsStep DEF User
  <2>4. CASE Renderer
    BY <2>2, <2>4, LoadKeepsStep, ReceiveStateKeepsStep, ReceiveRefusalKeepsStep DEF Renderer
  <2>5. CASE Engine \/ EngineOpens
    BY <2>2, <2>5, StartKeepsStep, StopKeepsStep, TellingKeepsStep DEF Engine
  <2>6. CASE UNCHANGED vars
    BY <2>2, <2>6 DEF vars, page, rows, regVars, InStep, NothingYet, LastTold, Accounted, OneWay, Lagging, AskedFor,
                      Active, StartOf, StopOf, RefusalOf, Arming, Full
  <2> QED
    BY <2>3, <2>4, <2>5, <2>6 DEF Next
<1>3. I /\ Types /\ RegistryTypeOK /\ ToldTheTruth => PatientInStep
  BY AtRest DEF PatientInStep, InStepWhenQuiet
<1> HIDE DEF I
<1> QED
  BY <1>1, <1>2, <1>3, SyncUsesRegistry, RegistryTellsTheTruth, PTL DEF Spec

-----------------------------------------------------------------------------
(* The pings.  What was alerted is remembered, whatever left the list.     *)
PingInv ==
    /\ alerted \in [Listings -> Nat] /\ AlertedOnce
    /\ \A l \in Listings : alerted[l] > 0 => l \in seen

LEMMA PingStep == PingInv /\ [PingsNext]_pingVars => PingInv'
<1> SUFFICES ASSUME PingInv, [PingsNext]_pingVars PROVE PingInv'
  OBVIOUS
<1>1. CASE PingArrives
  <2> DEFINE l == Head(pingWire)
             list == IF l \in seen THEN pings ELSE addPing(l)
  <2>1. /\ seen' = seen \cup {l}
        /\ alerted' = IF Len(list) = Len(pings) THEN alerted ELSE [alerted EXCEPT ![l] = alerted[l] + 1]
    BY <1>1 DEF PingArrives, remembered
  <2>2. CASE l \in seen \/ Len(list) = Len(pings)
    <3>1. alerted' = alerted
      BY <2>1, <2>2
    <3> QED
      BY <2>1, <3>1 DEF PingInv, AlertedOnce
  <2>3. CASE l \notin seen /\ Len(list) # Len(pings)
    <3>1. alerted' = [alerted EXCEPT ![l] = alerted[l] + 1]
      BY <2>1, <2>3
    <3>2. l \in Listings => alerted[l] = 0
      BY <2>3 DEF PingInv
    <3> HIDE DEF l, list
    <3>3. \A x \in Listings : alerted'[x] = IF x = l THEN 1 ELSE alerted[x]
      BY <3>1, <3>2 DEF PingInv
    <3>4. alerted' \in [Listings -> Nat]
      <4>1. alerted \in [Listings -> Nat]
        BY DEF PingInv
      <4>2. CASE l \in Listings
        BY <3>1, <3>2, <4>1, <4>2
      <4>3. CASE l \notin Listings
        BY <3>1, <4>1, <4>3
      <4> QED
        BY <4>2, <4>3
    <3> QED
      BY <2>1, <3>3, <3>4 DEF PingInv, AlertedOnce
  <2> QED
    BY <2>2, <2>3
<1>2. CASE UNCHANGED <<seen, alerted>>
  BY <1>2 DEF PingInv, AlertedOnce
<1>3. CASE \E w \in Watches : MessageComes(w)
  BY <1>2, <1>3 DEF MessageComes
<1>4. CASE \E f \in fetches : ChunkFetched(f) \/ FetchRefused(f)
  BY <1>2, <1>4 DEF ChunkFetched, FetchRefused
<1>5. CASE OpenLive \/ LeaveLive \/ Clear
  BY <1>2, <1>5 DEF OpenLive, LeaveLive, Clear
<1>6. CASE \E p \in DOMAIN buttons : Travel(p) \/ GoesStale(p) \/ LimitEnds(p)
  BY <1>2, <1>6 DEF Travel, GoesStale, LimitEnds
<1>7. CASE \E post \in posts : WhisperAnswered(post)
  BY <1>2, <1>7 DEF WhisperAnswered
<1>8. CASE \E l \in Listings : TokenDies(l)
  BY <1>2, <1>8 DEF TokenDies
<1>9. CASE UNCHANGED pingVars
  BY <1>2, <1>9 DEF pingVars
<1> QED
  BY <1>1, <1>3, <1>4, <1>5, <1>6, <1>7, <1>8, <1>9 DEF PingsNext

(* No listing is alerted twice, for any searches, fetches and lengths of   *)
(* the list (pingStore.js, liveWiring.js).                                 *)
THEOREM AlertedOnceEver == PingsInit /\ [][PingsNext]_pingVars => []AlertedOnce
<1>1. PingsInit => PingInv
  BY DEF PingsInit, PingInv, AlertedOnce
<1>2. PingInv => AlertedOnce
  BY DEF PingInv
<1> QED
  BY <1>1, <1>2, PingStep, PTL

-----------------------------------------------------------------------------
(* The prices.  A line's price is its own, whatever search is under way and *)
(* whatever the window holds.                                               *)
PricedLine == [link : Nat, typed : BOOLEAN, found : Nat, due : BOOLEAN]
PriceInv ==
    /\ line \in [Strats -> [Keys -> PricedLine]] /\ open \in Strats
    /\ window \in [key : Keys \cup {0}, link : Nat] /\ links \in Nat
    /\ PriceIsItsOwn

Put(f, s, k, l) == [f EXCEPT ![s] = [@ EXCEPT ![k] = l]]

\* One line becomes another, whose price is its own.
LEMMA LineChange ==
    ASSUME NEW f \in [Strats -> [Keys -> PricedLine]], NEW s \in Strats, NEW k, NEW l,
           k \in Keys => l \in PricedLine /\ l.found \in {0, l.link},
           \A t \in Strats, j \in Keys : f[t][j].found \in {0, f[t][j].link}
    PROVE  /\ Put(f, s, k, l) \in [Strats -> [Keys -> PricedLine]]
           /\ \A t \in Strats, j \in Keys : Put(f, s, k, l)[t][j].found \in {0, Put(f, s, k, l)[t][j].link}
<1>1. \A t \in Strats, j \in Keys : Put(f, s, k, l)[t][j] = IF t = s /\ j = k THEN l ELSE f[t][j]
  BY DEF Put
<1>2. Put(f, s, k, l) \in [Strats -> [Keys -> PricedLine]]
  BY DEF Put
<1> QED BY <1>1, <1>2

LEMMA PriceStep == PriceInv /\ [PriceNext]_priceVars => PriceInv'
<1> SUFFICES ASSUME PriceInv, [PriceNext]_priceVars PROVE PriceInv'
  OBVIOUS
<1> USE DEF PriceInv
<1>1. CASE UNCHANGED priceVars
  BY <1>1 DEF priceVars, PriceIsItsOwn
<1>2. CASE RunsQueue \/ WaitEnds \/ MinutePasses \/ ClosesWindow \/ SearchesInWindow \/ \E s \in Strats : SelectsStrat(s)
  <2>1. line' = line /\ open' \in Strats
    BY <1>2 DEF RunsQueue, WaitEnds, MinutePasses, ClosesWindow, SearchesInWindow, SelectsStrat
  <2>2. links' \in Nat
    BY <1>2 DEF RunsQueue, WaitEnds, MinutePasses, ClosesWindow, SearchesInWindow, SelectsStrat
  <2>3. window' \in {window, NoWindow} \/ window' = [window EXCEPT !.link = 1 + links']
    BY <1>2 DEF RunsQueue, WaitEnds, MinutePasses, ClosesWindow, SearchesInWindow, SelectsStrat
  <2>4. window' \in [key : Keys \cup {0}, link : Nat]
    BY <2>2, <2>3 DEF NoWindow
  <2> QED BY <2>1, <2>2, <2>4 DEF PriceIsItsOwn
<1>3. ASSUME NEW k \in Keys, OpensWindow(k) PROVE PriceInv'
  <2>1. line[open][k] \in PricedLine
    OBVIOUS
  <2> QED BY <1>3, <2>1 DEF OpensWindow, PriceIsItsOwn, PricedLine
<1>4. ASSUME NEW what \in Answers, SearchAnswered(what) PROVE PriceInv'
  <2>1. UNCHANGED <<open, window, links>>
    BY <1>4 DEF SearchAnswered
  <2>2. CASE line' = line
    BY <2>1, <2>2 DEF PriceIsItsOwn
  <2>3. CASE recordFound(pending) /\ line' # line
    <3> DEFINE l == line[pending.strat][pending.key]
               m == [l EXCEPT !.found = pending.linked, !.due = FALSE]
    <3>1. l.link # 0 /\ l.link = pending.linked
          /\ line' = Put(line, pending.strat, pending.key, m)
      BY <2>3 DEF recordFound, stillIts, Put
    <3>2. pending.strat \in Strats
      BY <3>1, <2>3 DEF Put
    <3>3. pending.key \in Keys => m \in PricedLine /\ m.found \in {0, m.link}
      <4> SUFFICES ASSUME pending.key \in Keys PROVE m \in PricedLine /\ m.found \in {0, m.link}
        OBVIOUS
      <4>1. l \in PricedLine
        BY <3>2
      <4> QED BY <4>1, <3>1 DEF PricedLine
    <3> HIDE DEF m, l
    <3>4. line' \in [Strats -> [Keys -> PricedLine]] /\ \A t \in Strats, j \in Keys : line'[t][j].found \in {0, line'[t][j].link}
      BY <3>1, <3>2, <3>3, LineChange DEF PriceIsItsOwn
    <3> QED BY <3>4, <2>1 DEF PriceIsItsOwn
  <2> QED BY <1>4, <2>2, <2>3 DEF SearchAnswered, Answers
<1>5. ASSUME NEW k, NEW l, LineEdited(k, l), k \in Keys => l \in PricedLine /\ l.found \in {0, l.link},
             window' = window \/ window' = NoWindow, links' = links
      PROVE  PriceInv'
  <2>1. line' \in [Strats -> [Keys -> PricedLine]] /\ \A t \in Strats, j \in Keys : line'[t][j].found \in {0, line'[t][j].link}
    <3>1. line' = Put(line, open, k, l)
      BY <1>5 DEF LineEdited, Put
    <3> QED BY <1>5, <3>1, LineChange DEF PriceIsItsOwn
  <2> QED BY <1>5, <2>1 DEF LineEdited, PriceIsItsOwn, NoWindow
<1>6. ASSUME NEW k \in Keys, NEW p \in BOOLEAN, TypesPrice(k, p) PROVE PriceInv'
  <2> DEFINE l == [line[open][k] EXCEPT !.typed = p]
  <2>1. line[open][k] \in PricedLine /\ line[open][k].found \in {0, line[open][k].link}
    BY DEF PriceIsItsOwn
  <2>2. l \in PricedLine /\ l.found \in {0, l.link}
    BY <2>1 DEF PricedLine
  <2>3. LineEdited(k, l) /\ window' = window /\ links' = links
    BY <1>6 DEF TypesPrice
  <2> HIDE DEF l
  <2> QED BY <2>2, <2>3, <1>5
<1>7. ASSUME NEW k \in Keys, Unlinks(k) PROVE PriceInv'
  <2>1. [link |-> 0, typed |-> TRUE, found |-> 0, due |-> TRUE] \in PricedLine
    BY DEF PricedLine
  <2> QED BY <1>5, <1>7, <2>1 DEF Unlinks
<1>8. CASE UsesSearch
  <2>1. CASE line' = line
    BY <1>8, <2>1 DEF UsesSearch, PriceIsItsOwn, NoWindow, LineEdited
  <2>2. CASE line' # line
    <3>1. LineEdited(window.key, [link |-> window.link, typed |-> FALSE, found |-> 0, due |-> TRUE])
      BY <1>8, <2>2 DEF UsesSearch
    <3>2. [link |-> window.link, typed |-> FALSE, found |-> 0, due |-> TRUE] \in PricedLine
      BY DEF PricedLine
    <3> QED BY <1>5, <1>8, <3>1, <3>2 DEF UsesSearch
  <2> QED BY <2>1, <2>2
<1>9. CASE Refreshes \/ HourPasses
  <2> DEFINE Due(s, k) == [line[s][k] EXCEPT !.due = TRUE]
  <2>1. UNCHANGED <<open, window, links>>
    BY <1>9 DEF Refreshes, HourPasses
  <2>2. \A s \in Strats, k \in Keys : Due(s, k) \in PricedLine /\ Due(s, k).found = line[s][k].found /\ Due(s, k).link = line[s][k].link
    <3> SUFFICES ASSUME NEW s \in Strats, NEW k \in Keys
                 PROVE  Due(s, k) \in PricedLine /\ Due(s, k).found = line[s][k].found /\ Due(s, k).link = line[s][k].link
      OBVIOUS
    <3>1. line[s][k] \in PricedLine
      OBVIOUS
    <3> QED BY <3>1 DEF PricedLine
  <2>3. \E which \in SUBSET Strats :
           line' = [s \in Strats |-> IF s \in which THEN [k \in Keys |-> Due(s, k)] ELSE line[s]]
    <3>1. CASE Refreshes
      <4>1. line' = [s \in Strats |-> IF s \in {open} THEN [k \in Keys |-> Due(s, k)] ELSE line[s]]
        BY <3>1 DEF Refreshes
      <4> QED BY <4>1
    <3>2. CASE HourPasses
      <4>1. line' = [s \in Strats |-> IF s \in Strats THEN [k \in Keys |-> Due(s, k)] ELSE line[s]]
        BY <3>2 DEF HourPasses
      <4> QED BY <4>1
    <3> QED BY <1>9, <3>1, <3>2
  <2>4. PICK which \in SUBSET Strats :
           line' = [s \in Strats |-> IF s \in which THEN [k \in Keys |-> Due(s, k)] ELSE line[s]]
    BY <2>3
  <2> HIDE DEF Due
  <2>5. line' \in [Strats -> [Keys -> PricedLine]]
    BY <2>2, <2>4
  <2>6. \A s \in Strats, k \in Keys : line'[s][k] \in {line[s][k], Due(s, k)}
    BY <2>4
  <2>7. PriceIsItsOwn'
    BY <2>2, <2>6 DEF PriceIsItsOwn
  <2> QED BY <2>1, <2>5, <2>7
<1> QED BY <1>1, <1>2, <1>3, <1>4, <1>6, <1>7, <1>8, <1>9 DEF PriceNext

(* A price a line shows was found for the search it is linked to now,       *)
(* whatever was linked, typed or unlinked while the search ran, for any     *)
(* strats, lines and queue (stratPricing.js, recordFound).                  *)
THEOREM PricesAreTheirOwn == PriceInit /\ [][PriceNext]_priceVars => []PriceIsItsOwn
<1>1. PriceInit => PriceInv
  <2> SUFFICES ASSUME PriceInit PROVE PriceInv
    OBVIOUS
  <2>1. \A k \in Keys : [link |-> Fresh(k), typed |-> FALSE, found |-> 0, due |-> TRUE] \in PricedLine
    BY DEF Fresh, PricedLine
  <2> QED BY <2>1 DEF PriceInit, PriceInv, PriceIsItsOwn, NoWindow
<1> QED BY <1>1, PriceStep, PTL DEF PriceInv

-----------------------------------------------------------------------------
(* The repriced searches.  The evidence of an item names listings of it,    *)
(* and the one address still on its way from the window showing is either   *)
(* the landing of an empty tab or a search run for the row selected.        *)
Windows   == 1..MaxWindows
Sites     == TradeSearches \cup {HomePage, NoQ}
Positions == UNION {DOMAIN Listed[item] : item \in ItemsOf}
PageSet   == {p \in [q : Sites, rows : SUBSET Positions] : p.q.item \in ItemsOf => p.rows \subseteq DOMAIN Listed[p.q.item]}
WireEvents ==
    [kind : {"nav", "search"}, id : Windows, q : Sites]
    \cup [kind : {"fetch"}, id : Windows, q : Sites, rows : SUBSET Positions]
AsksTyped == [id : Windows, q : Sites, rows : SUBSET Positions, step : {"sample", "gap"}, mine : BOOLEAN, cancelled : BOOLEAN]

SavedFor(saves, ran) == \A row \in Rows : saves[row] = NoQ \/ <<row, saves[row]>> \in ran
RowsTyped ==
    /\ rowQ \in [Rows -> SavedSearches] /\ active \in Rows
    /\ win \in [id : Windows, told : BOOLEAN, home : BOOLEAN]
    /\ address \in Sites /\ ranIn \subseteq Rows \X SavedSearches
    /\ wire \in Seq(WireEvents)
UndoIsOfRow == undo.row # 0 =>
    undo.row \in Rows /\ undo.q \in SavedSearches /\ (undo.q = NoQ \/ <<undo.row, undo.q>> \in ranIn)
\* An address of the window showing.
IsNav(e, id) == e.kind = "nav" /\ e.id = id
OnTheWay(w, id, home, row, ran) ==
    /\ \A n \in 1..Len(w) : w[n].id <= id
    /\ \A n \in 1..Len(w) : IsNav(w[n], id) => home \/ <<row, w[n].q>> \in ran
    /\ \A m, n \in 1..Len(w) : IsNav(w[m], id) /\ IsNav(w[n], id) => m = n
RowInv == RowsTyped /\ UndoIsOfRow /\ OnTheWay(wire, win.id, win.home, active, ranIn) /\ SavedWasRunThere

OfItem(item, ms) == \A m \in ms : m.row \in DOMAIN Listed[item]
EvidenceInv ==
    /\ pages \in [Windows -> PageSet] /\ recent \in [TradeSearches -> [page : PageSet, at : Int]]
    /\ siblings = [item \in ItemsOf |-> siblings[item]] /\ \A item \in ItemsOf : OfItem(item, siblings[item].mins)
    /\ asks \subseteq AsksTyped /\ now \in Int
RepInv == RowInv /\ EvidenceInv /\ DOMAIN seenAt = Windows

-----------------------------------------------------------------------------
(* What the site answers, and evidence. *)
LEMMA ResultsOfItem == \A q : resultOf(q) \subseteq Positions /\ firstOf(q) \subseteq resultOf(q)
                              /\ (q.item \in ItemsOf => resultOf(q) \subseteq DOMAIN Listed[q.item])
  BY DEF resultOf, firstOf, Positions

LEMMA TradeSearchSites == /\ TradeSearches \subseteq Sites /\ SavedSearches \subseteq Sites
                          /\ EmptyPage \in PageSet /\ NoQ \in SavedSearches
                          /\ \A q \in TradeSearches : q.item \in ItemsOf
<1>1. [q |-> NoQ, rows |-> {}] \in [q : Sites, rows : SUBSET Positions]
  BY DEF Sites
<1> QED BY <1>1 DEF Sites, SavedSearches, EmptyPage, PageSet, TradeSearches

LEMMA ObservedPage ==
    ASSUME NEW p \in PageSet, NEW x, x.kind = "search" \/ x.kind = "fetch", x.q \in Sites
    PROVE  observe(p, x) \in PageSet
<1>1. CASE x.kind = "search"
  <2>1. [q |-> x.q, rows |-> {}] \in [q : Sites, rows : SUBSET Positions]
    OBVIOUS
  <2> QED BY <1>1, <2>1 DEF observe, PageSet
<1>2. CASE x.kind = "fetch"
  <2> DEFINE more == p.rows \cup (x.rows \cap resultOf(p.q))
  <2>1. p \in [q : Sites, rows : SUBSET Positions]
    BY DEF PageSet
  <2>2. more \subseteq Positions /\ (p.q.item \in ItemsOf => more \subseteq DOMAIN Listed[p.q.item])
    BY ResultsOfItem DEF PageSet
  <2>3. observe(p, x) \in {p, [p EXCEPT !.rows = more]}
    BY <1>2 DEF observe
  <2> HIDE DEF more
  <2>4. [p EXCEPT !.rows = more] \in PageSet
    BY <2>1, <2>2 DEF PageSet
  <2> QED BY <2>3, <2>4
<1> QED BY <1>1, <1>2

LEMMA MinsOfItem ==
    ASSUME NEW p \in PageSet, p.q.item \in ItemsOf, NEW at
    PROVE  OfItem(p.q.item, minsOf(p, at))
  BY DEF OfItem, minsOf, least, PageSet

LEMMA JoinedOfItem ==
    ASSUME EvidenceInv, NEW item \in ItemsOf, NEW found, OfItem(item, found), NEW at, NEW sampled
    PROVE  OfItem(item, joined(item, found, at, sampled).mins)
<1>1. joined(item, found, at, sampled).mins \subseteq siblings[item].mins \cup found
  BY DEF joined, sparse
<1> QED BY <1>1 DEF EvidenceInv, OfItem

LEMMA Remembers ==
    ASSUME EvidenceInv, NEW p \in PageSet, NEW at, NEW sampled, remember(p, at, sampled)
    PROVE  siblings' = [item \in ItemsOf |-> siblings'[item]] /\ \A item \in ItemsOf : OfItem(item, siblings'[item].mins)
<1>1. CASE p.q.item \notin ItemsOf
  BY <1>1 DEF remember, EvidenceInv
<1>2. CASE p.q.item \in ItemsOf
  <2> DEFINE ms == IF hasPrices THEN minsOf(p, at) ELSE {}
             e == joined(p.q.item, ms, at, sampled)
  <2>1. OfItem(p.q.item, ms)
    BY <1>2, MinsOfItem DEF OfItem
  <2>2. siblings' = [siblings EXCEPT ![p.q.item] = e]
    BY <1>2 DEF remember
  <2> HIDE DEF ms
  <2>3. OfItem(p.q.item, e.mins)
    BY <1>2, <2>1, JoinedOfItem
  <2> HIDE DEF e
  <2> QED BY <1>2, <2>2, <2>3 DEF EvidenceInv
<1> QED BY <1>1, <1>2

LEMMA RecentlyTyped ==
    ASSUME EvidenceInv, NEW p \in PageSet
    PROVE  recently(p, now) \in [TradeSearches -> [page : PageSet, at : Int]]
  BY DEF EvidenceInv, recently

-----------------------------------------------------------------------------
(* Events on their way. *)
LEMMA ToldEvents ==
    ASSUME NEW id \in Windows, NEW q \in Sites, NEW t \in ToldOf(id, q)
    PROVE  /\ t \in Seq(WireEvents)
           /\ \A n \in 1..Len(t) : t[n].id = id /\ (t[n].kind = "nav" => t[n].q = q)
           /\ \A m, n \in 1..Len(t) : t[m].kind = "nav" /\ t[n].kind = "nav" => m = n
<1> DEFINE nav    == [kind |-> "nav", id |-> id, q |-> q]
           search == [kind |-> "search", id |-> id, q |-> q]
           fetch  == [kind |-> "fetch", id |-> id, q |-> q, rows |-> firstOf(q)]
<1>1. t = <<nav, search, fetch>> \/ t = <<search, nav, fetch>> \/ t = <<nav>>
  BY DEF ToldOf
<1>2. nav \in WireEvents /\ search \in WireEvents
  BY DEF WireEvents
<1>3. fetch \in WireEvents
  BY ResultsOfItem DEF WireEvents
<1>4. /\ nav.kind = "nav" /\ nav.id = id /\ nav.q = q
      /\ search.kind = "search" /\ search.id = id /\ fetch.kind = "fetch" /\ fetch.id = id
  OBVIOUS
<1> HIDE DEF nav, search, fetch
<1>5. CASE t = <<nav, search, fetch>>
  BY <1>2, <1>3, <1>4, <1>5
<1>6. CASE t = <<search, nav, fetch>>
  BY <1>2, <1>3, <1>4, <1>6
<1>7. CASE t = <<nav>>
  BY <1>2, <1>4, <1>7
<1> QED BY <1>1, <1>5, <1>6, <1>7

LEMMA WireTyped ==
    ASSUME NEW w \in Seq(WireEvents), NEW n \in 1..Len(w)
    PROVE  w[n] \in WireEvents /\ w[n].id \in Windows /\ w[n].q \in Sites /\ w[n].kind \in {"nav", "search", "fetch"}
<1>1. w[n] \in WireEvents
  BY ElementOfSeq
<1> QED BY <1>1 DEF WireEvents

\* Another window: only its own events are of it.
LEMMA NextWindow ==
    ASSUME NEW w \in Seq(WireEvents), NEW id \in Windows, id + 1 \in Windows,
           \A n \in 1..Len(w) : w[n].id <= id,
           NEW q \in Sites, NEW t \in ToldOf(id + 1, q),
           NEW home, NEW row, NEW ran, home \/ <<row, q>> \in ran
    PROVE  w \o t \in Seq(WireEvents) /\ OnTheWay(w \o t, id + 1, home, row, ran)
<1>1. /\ t \in Seq(WireEvents)
      /\ \A n \in 1..Len(t) : t[n].id = id + 1 /\ (t[n].kind = "nav" => t[n].q = q)
      /\ \A m, n \in 1..Len(t) : t[m].kind = "nav" /\ t[n].kind = "nav" => m = n
  BY ToldEvents
<1>2. w \o t \in Seq(WireEvents) /\ Len(w \o t) = Len(w) + Len(t) /\ Len(w) \in Nat /\ Len(t) \in Nat
  BY <1>1, ConcatProperties, LenProperties
<1>3. \A n \in 1..Len(w) : (w \o t)[n] = w[n]
  BY <1>1, <1>2, ConcatProperties
<1>4. \A n \in (Len(w) + 1)..Len(w \o t) : n - Len(w) \in 1..Len(t) /\ (w \o t)[n] = t[n - Len(w)]
  <2> SUFFICES ASSUME NEW n \in (Len(w) + 1)..Len(w \o t) PROVE n - Len(w) \in 1..Len(t) /\ (w \o t)[n] = t[n - Len(w)]
    OBVIOUS
  <2>1. n \in 1..Len(w) + Len(t) /\ ~(n <= Len(w)) /\ n - Len(w) \in 1..Len(t)
    BY <1>2
  <2> QED BY <1>1, <1>2, <2>1, ConcatProperties
<1>5. \A n \in 1..Len(w \o t) : n \in 1..Len(w) \/ n \in (Len(w) + 1)..Len(w \o t)
  BY <1>2
<1>6. \A n \in 1..Len(w) : w[n].id \in Int /\ w[n].id # id + 1 /\ w[n].id <= id + 1
  BY WireTyped DEF Windows
<1>7. \A n \in 1..Len(w \o t) : (w \o t)[n].id <= id + 1
  BY <1>1, <1>3, <1>4, <1>5, <1>6 DEF Windows
<1>8. \A n \in 1..Len(w \o t) : IsNav((w \o t)[n], id + 1) => n - Len(w) \in 1..Len(t) /\ (w \o t)[n] = t[n - Len(w)]
  BY <1>3, <1>4, <1>5, <1>6 DEF IsNav
<1>9. \A m, n \in 1..Len(w \o t) : IsNav((w \o t)[m], id + 1) /\ IsNav((w \o t)[n], id + 1) => m = n
  <2> SUFFICES ASSUME NEW m \in 1..Len(w \o t), NEW n \in 1..Len(w \o t),
                      IsNav((w \o t)[m], id + 1), IsNav((w \o t)[n], id + 1) PROVE m = n
    OBVIOUS
  <2>1. m - Len(w) = n - Len(w)
    BY <1>1, <1>8 DEF IsNav
  <2> QED BY <1>2, <2>1
<1>10. \A n \in 1..Len(w \o t) : IsNav((w \o t)[n], id + 1) => home \/ <<row, (w \o t)[n].q>> \in ran
  <2> SUFFICES ASSUME NEW n \in 1..Len(w \o t), IsNav((w \o t)[n], id + 1) PROVE (w \o t)[n].q = q
    OBVIOUS
  <2>1. n - Len(w) \in 1..Len(t) /\ (w \o t)[n] = t[n - Len(w)]
    BY <1>8
  <2> QED BY <1>1, <2>1 DEF IsNav
<1> QED BY <1>2, <1>7, <1>9, <1>10 DEF OnTheWay

\* One event arrives.
LEMMA WireTail ==
    ASSUME NEW w \in Seq(WireEvents), w # <<>>, NEW id, NEW home, NEW row, NEW ran, OnTheWay(w, id, home, row, ran)
    PROVE  /\ Tail(w) \in Seq(WireEvents) /\ OnTheWay(Tail(w), id, home, row, ran)
           /\ IsNav(Head(w), id) => (home \/ <<row, Head(w).q>> \in ran) /\ OnTheWay(Tail(w), id, FALSE, row, ran)
           /\ Head(w) \in WireEvents
<1>1. /\ Len(w) \in Nat /\ Len(w) >= 1 /\ Len(Tail(w)) = Len(w) - 1 /\ Tail(w) \in Seq(WireEvents) /\ Head(w) = w[1]
      /\ \A n \in 1..Len(Tail(w)) : Tail(w)[n] = w[n + 1]
  BY HeadTailProperties, LenProperties, EmptySeq
<1>2. \A n \in 1..Len(Tail(w)) : n + 1 \in 1..Len(w) /\ n + 1 # 1
  BY <1>1
<1>3. OnTheWay(Tail(w), id, home, row, ran)
  <2>1. \A m, n \in 1..Len(Tail(w)) : IsNav(Tail(w)[m], id) /\ IsNav(Tail(w)[n], id) => m = n
    <3> SUFFICES ASSUME NEW m \in 1..Len(Tail(w)), NEW n \in 1..Len(Tail(w)),
                        IsNav(Tail(w)[m], id), IsNav(Tail(w)[n], id) PROVE m = n
      OBVIOUS
    <3>1. m + 1 = n + 1
      BY <1>1, <1>2 DEF OnTheWay
    <3> QED BY <1>1, <3>1
  <2> QED BY <1>1, <1>2, <2>1 DEF OnTheWay
<1>4. 1 \in 1..Len(w)
  BY <1>1
<1>5. IsNav(Head(w), id) => \A n \in 1..Len(Tail(w)) : ~IsNav(Tail(w)[n], id)
  BY <1>1, <1>2, <1>4 DEF OnTheWay
<1>6. IsNav(Head(w), id) => home \/ <<row, Head(w).q>> \in ran
  BY <1>1, <1>4 DEF OnTheWay
<1>7. Head(w) \in WireEvents
  BY <1>1, <1>4, WireTyped
<1> QED BY <1>1, <1>3, <1>5, <1>6, <1>7 DEF OnTheWay

-----------------------------------------------------------------------------
(* The steps, for what the rows save. *)
LEMMA MountsKeeps ==
    ASSUME RowInv, NEW row \in Rows, NEW saved \in [Rows -> SavedSearches], NEW q, q = saved[row], Mounts(row, saved, q),
           ranIn \subseteq ranIn', ranIn' \subseteq Rows \X SavedSearches, SavedFor(saved, ranIn')
    PROVE  RowsTyped' /\ OnTheWay(wire, win.id, win.home, active, ranIn)' /\ SavedWasRunThere'
<1> DEFINE at == IF q = NoQ THEN HomePage ELSE q
<1>1. PICK t \in ToldOf(win.id + 1, at) : wire' = wire \o t
  BY DEF Mounts
<1>2. win \in [id : Windows, told : BOOLEAN, home : BOOLEAN] /\ win.id < MaxWindows /\ wire \in Seq(WireEvents)
  BY DEF RowInv, RowsTyped, Mounts
<1>3. win.id \in Windows /\ win.id + 1 \in Windows
  BY <1>2, RepriceAssumption DEF Windows
<1>4. at \in Sites /\ q \in SavedSearches
  BY TradeSearchSites DEF Sites, SavedSearches
<1>5. win' = [id |-> win.id + 1, told |-> FALSE, home |-> q = NoQ] /\ active' = row /\ rowQ' = saved /\ address' = address
  BY DEF Mounts
<1>6. q = NoQ \/ <<row, at>> \in ranIn'
  BY DEF SavedFor
<1>7. \A n \in 1..Len(wire) : wire[n].id <= win.id
  BY DEF RowInv, OnTheWay
<1> HIDE DEF at
<1>8. wire' \in Seq(WireEvents) /\ OnTheWay(wire', win.id + 1, q = NoQ, row, ranIn')
  <2> DEFINE home == q = NoQ
  <2>1. home \/ <<row, at>> \in ranIn'
    BY <1>6
  <2> HIDE DEF home
  <2>2. wire \o t \in Seq(WireEvents) /\ OnTheWay(wire \o t, win.id + 1, home, row, ranIn')
    BY <1>2, <1>3, <1>4, <1>7, <2>1, NextWindow
  <2> QED BY <1>1, <2>2 DEF home
<1>9. RowsTyped'
  BY <1>3, <1>5, <1>8 DEF RowInv, RowsTyped
<1>10. SavedWasRunThere'
  BY <1>5 DEF SavedFor, SavedWasRunThere
<1>11. OnTheWay(wire, win.id, win.home, active, ranIn)'
  <2>1. win'.id = win.id + 1 /\ win'.home = (q = NoQ)
    BY <1>5
  <2> QED BY <1>5, <1>8, <2>1
<1> QED BY <1>9, <1>10, <1>11

LEMMA SelectKeeps == ASSUME RowInv, NEW row \in Rows, SelectRow(row) PROVE RowInv'
<1>1. /\ Mounts(row, rowQ, rowQ[row]) /\ UNCHANGED <<undo, ranIn>>
      /\ rowQ \in [Rows -> SavedSearches] /\ SavedFor(rowQ, ranIn') /\ ranIn \subseteq Rows \X SavedSearches
  BY DEF SelectRow, RowInv, RowsTyped, SavedWasRunThere, SavedFor
<1>2. RowsTyped' /\ OnTheWay(wire, win.id, win.home, active, ranIn)' /\ SavedWasRunThere'
  BY <1>1, MountsKeeps
<1> QED BY <1>1, <1>2 DEF RowInv, UndoIsOfRow

LEMMA OfferedSearch ==
    ASSUME NEW c \in offer PROVE shown /\ pageShown.q \in TradeSearches
  BY DEF offer, shown

LEMMA RepriceKeeps == ASSUME RowInv, NEW c \in Currencies, RepriceIn(c) PROVE RowInv'
<1> DEFINE q == [pageShown.q EXCEPT !.in = c]
           saved == [rowQ EXCEPT ![active] = q]
<1>1. Mounts(active, saved, q) /\ ranIn' = ranIn \cup {<<active, q>>} /\ undo' = [row |-> active, q |-> rowQ[active]]
  BY DEF RepriceIn
<1>2. q \in TradeSearches
  BY OfferedSearch DEF RepriceIn, TradeSearches
<1> HIDE DEF q
<1>3. saved \in [Rows -> SavedSearches] /\ active \in Rows /\ saved[active] = q /\ rowQ[active] \in SavedSearches
  BY <1>2 DEF RowInv, RowsTyped, SavedSearches
<1>4. ranIn' \subseteq Rows \X SavedSearches /\ ranIn \subseteq ranIn'
  BY <1>1, <1>2 DEF RowInv, RowsTyped, SavedSearches
<1>5. SavedFor(saved, ranIn')
  BY <1>1, <1>3 DEF RowInv, RowsTyped, SavedFor, SavedWasRunThere
<1>6. UndoIsOfRow'
  BY <1>1, <1>3, <1>4 DEF RowInv, SavedWasRunThere, UndoIsOfRow
<1> HIDE DEF saved
<1>7. RowsTyped' /\ OnTheWay(wire, win.id, win.home, active, ranIn)' /\ SavedWasRunThere'
  BY <1>1, <1>3, <1>4, <1>5, MountsKeeps
<1> QED BY <1>6, <1>7 DEF RowInv

LEMMA UndoKeeps == ASSUME RowInv, Undo PROVE RowInv'
<1> DEFINE saved == [rowQ EXCEPT ![undo.row] = undo.q]
<1>1. undo.row \in Rows /\ undo.q \in SavedSearches /\ (undo.q = NoQ \/ <<undo.row, undo.q>> \in ranIn)
  BY DEF Undo, RowInv, UndoIsOfRow
<1>2. saved \in [Rows -> SavedSearches] /\ SavedFor(saved, ranIn) /\ saved[undo.row] = undo.q
  BY <1>1 DEF RowInv, RowsTyped, SavedFor, SavedWasRunThere
<1>3. ranIn' = ranIn /\ UndoIsOfRow' /\ ranIn \subseteq Rows \X SavedSearches /\ active \in Rows
  BY DEF Undo, UndoIsOfRow, NoUndo, RowInv, RowsTyped
<1>4. CASE undo.row = active
  <2>1. Mounts(active, saved, undo.q)
    BY <1>4 DEF Undo
  <2> HIDE DEF saved
  <2>2. RowsTyped' /\ OnTheWay(wire, win.id, win.home, active, ranIn)' /\ SavedWasRunThere'
    BY <1>2, <1>3, <1>4, <2>1, MountsKeeps
  <2> QED BY <1>3, <2>2 DEF RowInv
<1>5. CASE undo.row # active
  <2>1. rowQ' = saved /\ UNCHANGED <<active, win, address, wire>>
    BY <1>5 DEF Undo
  <2> HIDE DEF saved
  <2> QED BY <1>2, <1>3, <2>1 DEF RowInv, RowsTyped, SavedFor, SavedWasRunThere
<1> QED BY <1>4, <1>5

LEMMA RunKeeps == ASSUME RowInv, NEW q \in TradeSearches, RunSearch(q) PROVE RowInv'
<1>1. PICK t \in ToldOf(win.id, q) : wire' = t
  BY DEF RunSearch
<1>2. win.id \in Windows /\ q \in Sites /\ q \in SavedSearches /\ active \in Rows
  BY TradeSearchSites DEF RowInv, RowsTyped, SavedSearches
<1>3. /\ t \in Seq(WireEvents)
      /\ \A n \in 1..Len(t) : t[n].id = win.id /\ (t[n].kind = "nav" => t[n].q = q)
      /\ \A m, n \in 1..Len(t) : t[m].kind = "nav" /\ t[n].kind = "nav" => m = n
  BY <1>2, ToldEvents
<1>4. ranIn' = ranIn \cup {<<active, q>>} /\ UNCHANGED <<rowQ, active, win, address, undo>>
  BY DEF RunSearch
<1>5. OnTheWay(wire', win.id, win.home, active, ranIn')
  BY <1>1, <1>2, <1>3, <1>4 DEF OnTheWay, IsNav, Windows
<1>6. RowsTyped'
  BY <1>1, <1>2, <1>3, <1>4 DEF RowInv, RowsTyped
<1> QED BY <1>4, <1>5, <1>6 DEF RowInv, UndoIsOfRow, SavedWasRunThere

LEMMA NavKeeps == ASSUME RowInv, NavArrives PROVE RowInv'
<1>1. /\ wire \in Seq(WireEvents) /\ wire # <<>> /\ wire' = Tail(wire) /\ ev = Head(wire) /\ ev.kind = "nav"
      /\ OnTheWay(wire, win.id, win.home, active, ranIn)
  BY DEF NavArrives, RowInv, RowsTyped, ev
<1>2. /\ wire' \in Seq(WireEvents) /\ OnTheWay(wire', win.id, win.home, active, ranIn) /\ ev \in WireEvents
      /\ IsNav(ev, win.id) => (win.home \/ <<active, ev.q>> \in ranIn) /\ OnTheWay(wire', win.id, FALSE, active, ranIn)
  <2>1. /\ Tail(wire) \in Seq(WireEvents) /\ OnTheWay(Tail(wire), win.id, win.home, active, ranIn)
        /\ IsNav(Head(wire), win.id) => (win.home \/ <<active, Head(wire).q>> \in ranIn)
                                      /\ OnTheWay(Tail(wire), win.id, FALSE, active, ranIn)
        /\ Head(wire) \in WireEvents
    BY <1>1, WireTail
  <2> QED BY <1>1, <2>1
<1>3. UNCHANGED <<active, undo, ranIn>>
  BY DEF NavArrives
<1>4. CASE ~accepts(ev.id)
  <2>1. UNCHANGED <<address, rowQ, win>>
    BY <1>4 DEF NavArrives
  <2> QED BY <1>2, <1>3, <2>1 DEF RowInv, RowsTyped, UndoIsOfRow, SavedWasRunThere
<1>5. CASE accepts(ev.id)
  <2>1. address' = ev.q /\ win' = [win EXCEPT !.home = FALSE] /\ IsNav(ev, win.id)
        /\ (rowQ' = rowQ \/ (~win.home /\ rowQ' = [rowQ EXCEPT ![active] = ev.q]))
    BY <1>1, <1>5 DEF NavArrives, Captured, accepts, shouldAcceptNav, IsNav
  <2>2. win' \in [id : Windows, told : BOOLEAN, home : BOOLEAN] /\ win'.id = win.id /\ win'.home = FALSE
    BY <2>1 DEF RowInv, RowsTyped
  <2>3. ev.q \in Sites
    BY <1>2 DEF WireEvents
  <2>4. rowQ' = [rowQ EXCEPT ![active] = ev.q] /\ ~win.home => <<active, ev.q>> \in ranIn /\ ev.q \in SavedSearches
    BY <1>2, <2>1 DEF RowInv, RowsTyped
  <2>5. rowQ' \in [Rows -> SavedSearches] /\ SavedFor(rowQ', ranIn)
    BY <2>1, <2>4 DEF RowInv, RowsTyped, SavedFor, SavedWasRunThere
  <2>6. RowsTyped'
    BY <1>2, <1>3, <2>1, <2>2, <2>3, <2>5 DEF RowInv, RowsTyped
  <2>7. OnTheWay(wire, win.id, win.home, active, ranIn)'
    BY <1>2, <1>3, <2>1, <2>2
  <2> QED BY <1>3, <2>5, <2>6, <2>7 DEF RowInv, UndoIsOfRow, SavedFor, SavedWasRunThere
<1> QED BY <1>4, <1>5

LEMMA TapKeepsRows == ASSUME RowInv, TapArrives PROVE RowInv'
<1>1. /\ wire \in Seq(WireEvents) /\ wire # <<>> /\ wire' = Tail(wire)
      /\ OnTheWay(wire, win.id, win.home, active, ranIn) /\ UNCHANGED <<rowQ, active, win, address, undo, ranIn>>
  BY DEF TapArrives, RowInv, RowsTyped
<1>2. wire' \in Seq(WireEvents) /\ OnTheWay(wire', win.id, win.home, active, ranIn)
  BY <1>1, WireTail
<1> QED BY <1>1, <1>2 DEF RowInv, RowsTyped, UndoIsOfRow, SavedWasRunThere

RestOfNext == PricesLoad \/ LookDeeper \/ (\E a \in asks : ListingsAnswered(a)) \/ Find \/ CheckEnds \/ Turns \/ MinutesPass
LEMMA RowStep == RowInv /\ [RepNext]_repVars => RowInv'
<1> SUFFICES ASSUME RowInv, [RepNext]_repVars PROVE RowInv'
  OBVIOUS
<1>1. CASE UNCHANGED repVars \/ RestOfNext \/ ToastEnds \/ WindowTold
  <2>1. UNCHANGED <<rowQ, active, address, wire, ranIn>> /\ (undo' = undo \/ undo' = NoUndo)
        /\ (win' = win \/ win' = [win EXCEPT !.told = TRUE])
    BY <1>1 DEF repVars, RestOfNext, PricesLoad, LookDeeper, ListingsAnswered, Find, CheckEnds, ToastEnds, Turns,
                MinutesPass, WindowTold
  <2>2. win' \in [id : Windows, told : BOOLEAN, home : BOOLEAN] /\ win'.id = win.id /\ win'.home = win.home
    BY <2>1 DEF RowInv, RowsTyped
  <2> QED BY <2>1, <2>2 DEF RowInv, RowsTyped, UndoIsOfRow, SavedWasRunThere, NoUndo
<1> QED BY <1>1, SelectKeeps, RunKeeps, NavKeeps, TapKeepsRows, RepriceKeeps, UndoKeeps DEF RepNext, RestOfNext
-----------------------------------------------------------------------------
(* The steps, for the evidence. *)
LEMMA OwnPages ==
    ASSUME RepInv
    PROVE  /\ win.id \in Windows /\ pages[win.id] \in PageSet
           /\ own \in PageSet /\ pageShown \in PageSet /\ own.q \in Sites
<1>1. win.id \in Windows /\ pages[win.id] \in PageSet
  BY DEF RepInv, RowInv, RowsTyped, EvidenceInv
<1>2. own \in PageSet
  BY <1>1, TradeSearchSites DEF own
<1>3. \A q : recentFor(q) \in PageSet
  BY TradeSearchSites DEF recentFor, RepInv, EvidenceInv
<1>4. pageShown \in PageSet
  BY <1>2, <1>3 DEF pageShown
<1> QED BY <1>1, <1>2, <1>4 DEF PageSet

LEMMA Cancelled == asks \subseteq AsksTyped => {[a EXCEPT !.cancelled = TRUE] : a \in asks} \subseteq AsksTyped
<1>1. ASSUME NEW a \in AsksTyped PROVE [a EXCEPT !.cancelled = TRUE] \in AsksTyped
  BY DEF AsksTyped
<1> QED BY <1>1

LEMMA MountsEvidence ==
    ASSUME RepInv, NEW row, NEW saved, NEW q, Mounts(row, saved, q)
    PROVE  EvidenceInv'
<1>1. UNCHANGED <<recent, siblings, now>>
  BY DEF Mounts, MarketAndClockStay
<1>2. pages' \in [Windows -> PageSet]
  BY TradeSearchSites DEF Mounts, RepInv, EvidenceInv
<1>3. asks' \subseteq AsksTyped
  BY Cancelled DEF Mounts, RepInv, EvidenceInv
<1> QED BY <1>1, <1>2, <1>3 DEF RepInv, EvidenceInv

LEMMA TapEvidence == ASSUME RepInv, TapArrives PROVE EvidenceInv'
<1> DEFINE p == observe(pages[ev.id], ev)
<1>1. ev \in WireEvents /\ (ev.kind = "search" \/ ev.kind = "fetch")
  <2>1. wire \in Seq(WireEvents) /\ wire # <<>> /\ (ev.kind = "search" \/ ev.kind = "fetch") /\ ev = Head(wire)
    BY DEF TapArrives, RepInv, RowInv, RowsTyped, ev
  <2> QED BY <2>1, HeadTailProperties
<1>2. ev.id \in Windows /\ ev.q \in Sites
  BY <1>1 DEF WireEvents
<1>3. p \in PageSet
  BY <1>1, <1>2, ObservedPage DEF RepInv, EvidenceInv
<1>4. pages' = [pages EXCEPT ![ev.id] = p] /\ recent' = recently(p, now) /\ UNCHANGED <<asks, now>>
  BY DEF TapArrives, MarketAndClockStay
<1>5. siblings' = siblings \/ \E at : remember(p, at, FALSE)
  BY DEF TapArrives
<1> HIDE DEF p
<1>6. siblings' = [item \in ItemsOf |-> siblings'[item]] /\ \A item \in ItemsOf : OfItem(item, siblings'[item].mins)
  BY <1>3, <1>5, Remembers DEF RepInv, EvidenceInv
<1>7. recent' \in [TradeSearches -> [page : PageSet, at : Int]]
  BY <1>3, <1>4, RecentlyTyped DEF RepInv
<1>8. pages' \in [Windows -> PageSet]
  BY <1>2, <1>3, <1>4 DEF RepInv, EvidenceInv
<1> QED BY <1>4, <1>6, <1>7, <1>8 DEF RepInv, EvidenceInv

LEMMA PricesEvidence == ASSUME RepInv, PricesLoad PROVE EvidenceInv'
<1>1. UNCHANGED <<pages, recent, asks, now>>
  BY DEF PricesLoad
<1>2. \A item \in ItemsOf : siblings'[item] = siblings[item]
         \/ \E at : siblings'[item] = joined(item, UNION {minsOf(pages[i], seenAt[i]) : i \in Lately(item)}, at, FALSE)
  BY DEF PricesLoad
<1>3. ASSUME NEW item \in ItemsOf PROVE OfItem(item, siblings'[item].mins)
  <2> DEFINE all == UNION {minsOf(pages[i], seenAt[i]) : i \in Lately(item)}
  <2>1. \A i \in Lately(item) : OfItem(item, minsOf(pages[i], seenAt[i]))
    <3> SUFFICES ASSUME NEW i \in Lately(item) PROVE OfItem(item, minsOf(pages[i], seenAt[i]))
      OBVIOUS
    <3>1. i \in Windows /\ pages[i].q.item = item /\ pages[i] \in PageSet
      BY DEF Lately, RepInv, EvidenceInv
    <3> QED BY <3>1, MinsOfItem
  <2>2. OfItem(item, all)
    BY <2>1 DEF OfItem
  <2> HIDE DEF all
  <2>3. \A at : OfItem(item, joined(item, all, at, FALSE).mins)
    BY <2>2, JoinedOfItem DEF RepInv
  <2> QED BY <1>2, <2>3 DEF RepInv, EvidenceInv, all
<1>4. siblings' = [item \in ItemsOf |-> siblings'[item]]
  BY DEF PricesLoad
<1> QED BY <1>1, <1>3, <1>4 DEF RepInv, EvidenceInv

LEMMA DeeperEvidence == ASSUME RepInv, LookDeeper PROVE EvidenceInv'
<1> DEFINE mine == IF deeper.q = own.q THEN asks ELSE {[a EXCEPT !.mine = FALSE] : a \in asks}
           Ask(step, plan) == [id |-> win.id, q |-> own.q, rows |-> plan, step |-> step, mine |-> TRUE, cancelled |-> FALSE]
<1>1. UNCHANGED <<pages, recent, siblings, now>>
  BY DEF LookDeeper, MarketAndClockStay
<1>2. mine \subseteq AsksTyped
  BY DEF RepInv, EvidenceInv, AsksTyped
<1>3. asks' = mine \/ asks' = mine \cup {Ask("sample", samplePlan(own))} \/ asks' = mine \cup {Ask("gap", gapPlan(own))}
  BY DEF LookDeeper
<1>4. samplePlan(own) \subseteq Positions /\ gapPlan(own) \subseteq Positions
  BY ResultsOfItem DEF samplePlan, gapPlan
<1>5. Ask("sample", samplePlan(own)) \in AsksTyped /\ Ask("gap", gapPlan(own)) \in AsksTyped
  BY <1>4, OwnPages DEF AsksTyped
<1> HIDE DEF mine, Ask
<1>6. asks' \subseteq AsksTyped
  BY <1>2, <1>3, <1>5
<1> QED BY <1>1, <1>6 DEF RepInv, EvidenceInv

LEMMA ListingsEvidence == ASSUME RepInv, NEW a \in asks, ListingsAnswered(a) PROVE EvidenceInv'
<1> DEFINE x == [kind |-> "fetch", q |-> a.q, rows |-> a.rows]
           p == observe(pages[a.id], x)
<1>1. a.id \in Windows /\ a.q \in Sites /\ asks' \subseteq AsksTyped /\ now' = now
  BY DEF RepInv, EvidenceInv, AsksTyped, ListingsAnswered, MarketAndClockStay
<1>2. x.kind = "fetch" /\ x.q \in Sites /\ pages[a.id] \in PageSet
  BY <1>1 DEF RepInv, EvidenceInv
<1>3. CASE Merged(a)
  <2>1. pages' = [pages EXCEPT ![a.id] = p] /\ recent' = recently(p, now) /\ \E at : remember(p, at, TRUE)
    BY <1>3 DEF Merged
  <2> HIDE DEF x
  <2>2. p \in PageSet
    BY <1>2, ObservedPage
  <2> HIDE DEF p
  <2>3. siblings' = [item \in ItemsOf |-> siblings'[item]] /\ \A item \in ItemsOf : OfItem(item, siblings'[item].mins)
    BY <2>1, <2>2, Remembers DEF RepInv
  <2>4. recent' \in [TradeSearches -> [page : PageSet, at : Int]]
    BY <2>1, <2>2, RecentlyTyped DEF RepInv
  <2>5. pages' \in [Windows -> PageSet]
    BY <1>1, <2>1, <2>2 DEF RepInv, EvidenceInv
  <2> QED BY <1>1, <2>3, <2>4, <2>5 DEF RepInv, EvidenceInv
<1>4. CASE UNCHANGED <<pages, recent, siblings>>
  BY <1>1, <1>4 DEF RepInv, EvidenceInv
<1> QED BY <1>3, <1>4 DEF ListingsAnswered

LEMMA CheckEvidence == ASSUME RepInv, CheckEnds PROVE EvidenceInv'
<1> DEFINE p == pageFromRecheck(check.item)
<1>1. UNCHANGED <<pages, recent, asks, now>> /\ (siblings' = siblings \/ remember(p, now, TRUE))
  BY DEF CheckEnds, MarketAndClockStay
<1>2. CASE remember(p, now, TRUE) /\ p.q.item \in ItemsOf
  <2> DEFINE q == [item |-> check.item, in |-> AnyCur]
             base == [q |-> q, rows |-> firstOf(q)]
             all == firstOf(q) \cup samplePlan(base)
  <2>1. p = [base EXCEPT !.rows = all]
    BY DEF pageFromRecheck
  <2>2. p = [q |-> q, rows |-> all]
    BY <2>1
  <2>3. q \in TradeSearches /\ q.item \in ItemsOf
    BY <1>2, <2>2 DEF TradeSearches
  <2>4. samplePlan(base) \subseteq resultOf(base.q)
    BY DEF samplePlan
  <2>5. all \subseteq Positions /\ all \subseteq DOMAIN Listed[q.item]
    BY <2>3, <2>4, ResultsOfItem
  <2> HIDE DEF q, all, p
  <2>6. p \in PageSet
    BY <2>2, <2>3, <2>5, TradeSearchSites DEF PageSet
  <2>7. siblings' = [item \in ItemsOf |-> siblings'[item]] /\ \A item \in ItemsOf : OfItem(item, siblings'[item].mins)
    BY <1>2, <2>6, Remembers DEF RepInv
  <2> QED BY <1>1, <2>7 DEF RepInv, EvidenceInv
<1>3. CASE siblings' = siblings
  BY <1>1, <1>3 DEF RepInv, EvidenceInv
<1> QED BY <1>1, <1>2, <1>3 DEF remember

LEMMA SeenStep == [RepNext]_repVars => DOMAIN seenAt' = DOMAIN seenAt
<1> SUFFICES ASSUME RepNext PROVE DOMAIN seenAt' = DOMAIN seenAt
  BY DEF repVars
<1>1. CASE TapArrives
  BY <1>1 DEF TapArrives
<1>2. ASSUME NEW row, NEW saved, NEW q, Mounts(row, saved, q) PROVE DOMAIN seenAt' = DOMAIN seenAt
  BY <1>2 DEF Mounts
<1>3. CASE Undo
  BY <1>2, <1>3 DEF Undo
<1>4. CASE (\E row \in Rows : SelectRow(row)) \/ \E c \in Currencies : RepriceIn(c)
  BY <1>2, <1>4 DEF SelectRow, RepriceIn
<1>5. CASE WindowTold \/ (\E q \in TradeSearches : RunSearch(q)) \/ NavArrives \/ PricesLoad \/ LookDeeper \/ Find
           \/ (\E a \in asks : ListingsAnswered(a)) \/ CheckEnds \/ ToastEnds \/ Turns \/ MinutesPass
  BY <1>5 DEF WindowTold, RunSearch, NavArrives, PricesLoad, LookDeeper, Find, ListingsAnswered, CheckEnds, ToastEnds,
              Turns, MinutesPass
<1> QED BY <1>1, <1>3, <1>4, <1>5 DEF RepNext

LEMMA EvidenceStep == RepInv /\ [RepNext]_repVars => EvidenceInv'
<1> SUFFICES ASSUME RepInv, [RepNext]_repVars PROVE EvidenceInv'
  OBVIOUS
<1>1. CASE UNCHANGED repVars \/ WindowTold \/ (\E q \in TradeSearches : RunSearch(q)) \/ NavArrives \/ Find \/ ToastEnds
  <2>1. UNCHANGED <<pages, recent, siblings, asks, now>>
    BY <1>1 DEF repVars, WindowTold, RunSearch, NavArrives, Find, ToastEnds, MarketAndClockStay
  <2> QED BY <2>1 DEF RepInv, EvidenceInv
<1>2. CASE MinutesPass \/ Turns
  <2>1. UNCHANGED <<pages, recent, siblings>> /\ now' \in Int
    BY <1>2 DEF MinutesPass, Turns, MarketAndClockStay, RepInv, EvidenceInv
  <2>2. asks' \subseteq AsksTyped
    BY <1>2, Cancelled DEF MinutesPass, Turns, RepInv, EvidenceInv
  <2> QED BY <2>1, <2>2 DEF RepInv, EvidenceInv
<1>3. ASSUME NEW row \in Rows, SelectRow(row) PROVE EvidenceInv'
  BY <1>3, MountsEvidence DEF SelectRow
<1>4. ASSUME NEW c \in Currencies, RepriceIn(c) PROVE EvidenceInv'
  BY <1>4, MountsEvidence DEF RepriceIn
<1>5. CASE Undo
  <2>1. CASE undo.row = active
    BY <1>5, <2>1, MountsEvidence DEF Undo
  <2>2. CASE undo.row # active
    BY <1>5, <2>2 DEF Undo, MarketAndClockStay, RepInv, EvidenceInv
  <2> QED BY <2>1, <2>2
<1> QED BY <1>1, <1>2, <1>3, <1>4, <1>5, TapEvidence, PricesEvidence, DeeperEvidence, ListingsEvidence, CheckEvidence
        DEF RepNext

-----------------------------------------------------------------------------
LEMMA OffersAreCheaper == RepInv => OfferIsCheaper
<1> SUFFICES ASSUME RepInv, NEW c \in offer
             PROVE  \E i \in DOMAIN Listed[rowQ[active].item] :
                       /\ Listed[rowQ[active].item][i].in = c
                       /\ resultOf(rowQ[active]) # {} =>
                             /\ c # Listed[rowQ[active].item][topOf(rowQ[active])].in
                             /\ 100 * worthOf(rowQ[active].item, topOf(rowQ[active])) >= 105 * worthOf(rowQ[active].item, i)
  BY DEF OfferIsCheaper
<1> DEFINE q == pageShown.q
<1>1. q = rowQ[active] /\ q \in TradeSearches /\ q.item \in ItemsOf /\ c \in verdict(pageShown)
  BY TradeSearchSites DEF offer, shown, applies, isRows, pageIsRows
<1>2. pageShown.rows \subseteq DOMAIN Listed[q.item] /\ \A m \in siblings[q.item].mins : m.row \in DOMAIN Listed[q.item]
  BY <1>1, OwnPages DEF PageSet, RepInv, EvidenceInv, OfItem
<1>3. PICK i : /\ i \in pageShown.rows \cup {m.row : m \in siblings[q.item].mins} /\ Listed[q.item][i].in = c
               /\ resultOf(q) # {} => /\ Listed[q.item][i].in # Listed[q.item][topOf(q)].in
                                      /\ 100 * worthOf(q.item, topOf(q)) >= 105 * worthOf(q.item, i)
  BY <1>1 DEF verdict, least
<1>4. i \in DOMAIN Listed[q.item]
  BY <1>2, <1>3
<1> HIDE DEF q
<1> QED BY <1>1, <1>3, <1>4

(* For any rows, searches, listings, prices and order of what the window    *)
(* tells: an offer names a currency the very item is listed in, more than   *)
(* 5 % under what is shown first, and what a row saves was run for it       *)
(* (useReprice.js:72, WorkspaceView.jsx:344-376).                           *)
THEOREM SearchesStayWithTheirRow == RepInit /\ [][RepNext]_repVars => [](OfferIsCheaper /\ SavedWasRunThere)
<1>1. RepInit => RepInv
  <2> SUFFICES ASSUME RepInit PROVE RepInv
    OBVIOUS
  <2> DEFINE q == IF FirstSearches[active] = NoQ THEN HomePage ELSE FirstSearches[active]
  <2>1. wire \in ToldOf(1, q) /\ 1 \in Windows /\ q \in Sites /\ win = [id |-> 1, told |-> FALSE, home |-> FirstSearches[active] = NoQ]
    BY RepriceAssumption, TradeSearchSites DEF RepInit, Windows, Sites
  <2>2. FirstSearches[active] = NoQ \/ <<active, q>> \in ranIn
    BY DEF RepInit
  <2> HIDE DEF q
  <2>3. wire \in Seq(WireEvents) /\ OnTheWay(wire, 1, FirstSearches[active] = NoQ, active, ranIn)
    <3>1. /\ wire \in Seq(WireEvents)
          /\ \A n \in 1..Len(wire) : wire[n].id = 1 /\ (wire[n].kind = "nav" => wire[n].q = q)
          /\ \A m, n \in 1..Len(wire) : wire[m].kind = "nav" /\ wire[n].kind = "nav" => m = n
      BY <2>1, ToldEvents
    <3> QED BY <2>2, <3>1 DEF OnTheWay, IsNav
  <2>4. RowsTyped
    BY <2>1, <2>3, RepriceAssumption, TradeSearchSites DEF RepInit, RowsTyped
  <2>5. RowInv
    <3>1. OnTheWay(wire, win.id, win.home, active, ranIn)
      BY <2>1, <2>3
    <3> QED BY <2>4, <3>1 DEF RepInit, RowInv, UndoIsOfRow, NoUndo, SavedWasRunThere
  <2>6. EvidenceInv
    <3>1. pages \in [Windows -> PageSet] /\ recent \in [TradeSearches -> [page : PageSet, at : Int]]
      BY TradeSearchSites DEF RepInit, Windows
    <3>2. siblings = [item \in ItemsOf |-> siblings[item]] /\ \A item \in ItemsOf : OfItem(item, siblings[item].mins)
      BY DEF RepInit, NoEntry, OfItem
    <3> QED BY <3>1, <3>2 DEF RepInit, EvidenceInv
  <2> QED BY <2>5, <2>6 DEF RepInit, RepInv, Windows
<1>2. RepInv /\ [RepNext]_repVars => RepInv'
  BY RowStep, EvidenceStep, SeenStep DEF RepInv
<1>3. RepInv => OfferIsCheaper /\ SavedWasRunThere
  BY OffersAreCheaper DEF RepInv, RowInv
<1> QED BY <1>1, <1>2, <1>3, PTL

-----------------------------------------------------------------------------
(* What a search showed is used for the row or the line it was run for,     *)
(* checked together with the other parts of the page (useReprice.js:72,     *)
(* WorkspaceView.jsx:344-376, stratPricing.js:43).                          *)
THEOREM SearchesAreOwnEver == TradeSpec => []SearchesAreOwn
<1>1. TradeInit => RepInit /\ PriceInit
  BY DEF TradeInit
<1>2. [TradeNext]_<<part, vars, pingVars, repVars, priceVars>> => [RepNext]_repVars /\ [PriceNext]_priceVars
  BY DEF TradeNext, OnlyPart
<1>3. TradeSpec => (RepInit /\ [][RepNext]_repVars) /\ (PriceInit /\ [][PriceNext]_priceVars)
  BY <1>1, <1>2, PTL DEF TradeSpec
<1>4. OfferIsCheaper /\ SavedWasRunThere /\ PriceIsItsOwn => SearchesAreOwn
  BY DEF SearchesAreOwn
<1> QED BY <1>3, <1>4, SearchesStayWithTheirRow, PricesAreTheirOwn, PTL
=============================================================================
