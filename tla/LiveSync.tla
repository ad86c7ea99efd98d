------------------------------ MODULE LiveSync ------------------------------
(***************************************************************************)
(* The renderer keeping the live-search engine in step with the workspace: *)
(* useLiveSync in frontend/src/lib/liveWiring.js, over the IPC handlers of *)
(* desktop/src/trade/index.js.                                             *)
(*                                                                         *)
(* The renderer asks (calls: start and stop, in order), the engine answers *)
(* (events: its table, or a refusal, in order).  The renderer decides from *)
(* its copy of the table, which is as old as the events still on the way.  *)
(* The engine itself is SearchRegistry, which LiveEngine implements.       *)
(***************************************************************************)
EXTENDS SearchRegistry, Sequences, SequencesExt

CONSTANTS
    Leagues, Slugs, \* a search is a slug of a league
    Users,          \* who is at the desk: [waits, moves], whether for the engine
                    \* between two moves, of edit, reprice, league and reload
    MaxQueue        \* bound: calls, events and pending starts at once

ASSUME SearchesAssumption == Searches = Leagues \X Slugs
ASSUME NoneIsNothingElse == None \notin Items /\ None \notin [league : Leagues, ids : SUBSET Items]
ASSUME UsersAssumption ==
    Users \subseteq [waits : BOOLEAN, moves : SUBSET {"edit", "reprice", "league", "reload"}]

VARIABLES
    armed,      \* rows the workspace says are live
    slug,       \* the search each row holds
    league,     \* the league the app is set to
    loaded,     \* the workspace and the league are known
    view,       \* usePings.engine.activeIds, the renderer's copy of the table
    lastKey,    \* what the last reconcile asked for, or None
    calls,      \* start and stop invocations on their way to main
    events,     \* engine-state and refusals on their way to the renderer
    user

rows == <<armed, slug, league, loaded>>
page == <<rows, view, lastKey>>
vars == <<page, calls, events, regVars, user>>

TypeOK ==
    /\ armed \subseteq Items /\ slug \in [Items -> Slugs]
    /\ league \in Leagues /\ loaded \in BOOLEAN
    /\ view \subseteq Items
    /\ lastKey = None \/ lastKey \in [league : Leagues, ids : SUBSET Items]
    /\ \A k \in DOMAIN calls : calls[k].item \in Items /\ calls[k].search \in Searches \cup {None}
    /\ \A k \in DOMAIN events : events[k].ids \subseteq Items /\ events[k].refused \in Items \cup {None}
    /\ RegistryTypeOK

Init ==
    /\ armed \in SUBSET Items /\ slug \in [Items -> Slugs] /\ league \in Leagues
    /\ loaded = FALSE /\ view = {} /\ lastKey = None
    /\ calls = <<>> /\ events = <<>>
    /\ RegistryInit
    /\ user \in Users
-----------------------------------------------------------------------------
StartCall(i) == [item |-> i, search |-> <<league', slug'[i]>>]
StopCall(i) == [item |-> i, search |-> None]
StartsOf(q) == [k \in DOMAIN q |-> StartCall(q[k])]
StopsOf(q) == [k \in DOMAIN q |-> StopCall(q[k])]

ReconcileStartsOnly(last) ==   \* mutant: rows no longer armed are not stopped
    LET key == [league |-> league', ids |-> armed'] IN
    IF ~loaded' \/ key = last
    THEN lastKey' = last /\ UNCHANGED calls
    ELSE lastKey' = key /\ \E q \in SetToSeqs(armed' \ view') : calls' = calls \o StartsOf(q)

(* reconcile(), run against the rows and the copy the step leaves behind:  *)
(* nothing while the key is the last one, else a start for every armed row *)
(* missing from the copy, in the tree's order, and a stop for every other  *)
(* id in it, in the table's.                                               *)
Reconcile(last) ==
    LET key == [league |-> league', ids |-> armed'] IN
    IF ~loaded' \/ key = last
    THEN lastKey' = last /\ UNCHANGED calls
    ELSE /\ lastKey' = key
         /\ \E more \in SetToSeqs(armed' \ view'), less \in SetToSeqs(view' \ armed') :
               calls' = calls \o StartsOf(more) \o StopsOf(less)

Quiet == calls = <<>> /\ events = <<>> /\ starting = 0

Ready(move) == move \in user.moves /\ (user.waits => Quiet) /\ Len(calls) < MaxQueue

(* Go live, arm a folder, restore; or stop, disarm a folder, delete: the   *)
(* workspace store gets more armed rows or fewer, and its subscribers run. *)
EditArmed(ids) ==
    /\ Ready("edit") /\ loaded /\ ids # armed
    /\ armed \subseteq ids \/ ids \subseteq armed
    /\ armed' = ids
    /\ UNCHANGED <<slug, league, loaded, view, events, regVars>>
    /\ Reconcile(lastKey)

(* repriceSearch and the slug capture give a row another search.           *)
Reprice(i, s) ==
    /\ Ready("reprice") /\ loaded /\ s # slug[i]
    /\ slug' = [slug EXCEPT ![i] = s]
    /\ UNCHANGED <<armed, league, loaded, view, events, regVars>>
    /\ Reconcile(lastKey)

(* Another league: the effect is torn down and set up with an empty key.   *)
SetLeague(l) ==
    /\ Ready("league") /\ loaded /\ l # league
    /\ league' = l
    /\ UNCHANGED <<armed, slug, loaded, view, events, regVars>>
    /\ Reconcile(None)

(* The window reloads (View > Reload, or a fresh login): the page's memory *)
(* is gone, main keeps its sockets.  Bound: nothing is on its way then.    *)
Reload ==
    /\ Ready("reload") /\ loaded /\ Quiet
    /\ loaded' = FALSE /\ view' = {} /\ lastKey' = None
    /\ UNCHANGED <<armed, slug, league, calls, events, regVars>>

(* The workspace arrives in a new page.                                    *)
Load ==
    /\ ~loaded
    /\ loaded' = TRUE
    /\ UNCHANGED <<armed, slug, league, view, events, regVars>>
    /\ Reconcile(lastKey)

(* An event arrives.  A table whose size differs from the copy's reruns    *)
(* reconcile; a refused row is disarmed and the workspace subscription     *)
(* reruns it.                                                              *)
ReceiveState ==
    /\ events # <<>> /\ Head(events).refused = None
    /\ events' = Tail(events)
    /\ view' = Head(events).ids
    /\ UNCHANGED <<rows, regVars>>
    /\ IF Cardinality(view') = Cardinality(view)
       THEN UNCHANGED <<lastKey, calls>>
       ELSE Reconcile(lastKey)

RefusalIgnored ==   \* mutant: a refused row stays armed
    /\ events # <<>> /\ Head(events).refused # None
    /\ events' = Tail(events)
    /\ UNCHANGED <<rows, view, lastKey, calls, regVars>>

ReceiveRefusal ==
    /\ events # <<>> /\ Head(events).refused # None
    /\ events' = Tail(events)
    /\ armed' = armed \ {Head(events).refused}
    /\ UNCHANGED <<slug, league, loaded, view, regVars>>
    /\ Reconcile(lastKey)
-----------------------------------------------------------------------------
Sent(ids, refused) ==
    /\ Len(events) < MaxQueue
    /\ events' = Append(events, [ids |-> ids, refused |-> refused])

Announced == Sent(told', None)

(* trade:start-search.  A running item answers `already` and announces     *)
(* nothing; over the cap the answer is a refusal.                          *)
HandleStart ==
    /\ calls # <<>> /\ Head(calls).search # None
    /\ calls' = Tail(calls)
    /\ LET i == Head(calls).item IN
        \/ /\ starting < MaxQueue
           /\ Start(i, Head(calls).search)
           /\ UNCHANGED events
        \/ /\ running[i] # None
           /\ UNCHANGED <<events, regVars>>
        \/ /\ running[i] = None
           /\ Cardinality(Active(running)) >= MAX_SOCKETS
           /\ Sent({}, i)
           /\ UNCHANGED regVars
    /\ UNCHANGED page

(* trade:stop-search.                                                      *)
HandleStop ==
    /\ calls # <<>> /\ Head(calls).search = None
    /\ calls' = Tail(calls)
    /\ IF running[Head(calls).item] = None
       THEN UNCHANGED <<events, regVars>>
       ELSE Stop({Head(calls).item}) /\ Announced
    /\ UNCHANGED page

EngineSettles == Settle /\ Announced /\ UNCHANGED <<page, calls>>

(* A socket opened; its own turn of the loop announces the table.  Bound:  *)
(* it leaves room in the queue for the answers to the calls.               *)
EngineOpens ==
    /\ Active(running) # {} /\ Len(events) + 1 < MaxQueue
    /\ Announce /\ Announced /\ UNCHANGED <<page, calls>>

User == \/ \E ids \in SUBSET Items : EditArmed(ids)
        \/ \E i \in Items, s \in Slugs : Reprice(i, s)
        \/ \E l \in Leagues : SetLeague(l)
        \/ Reload

Renderer == Load \/ ReceiveState \/ ReceiveRefusal

Engine == HandleStart \/ HandleStop \/ EngineSettles

Next == UNCHANGED user /\ (User \/ Renderer \/ Engine \/ EngineOpens)

Spec == Init /\ [][Next]_vars

(* The page handles its messages and main handles the calls; nobody has to *)
(* click, and no socket has to open.                                       *)
FairSpec == Spec /\ WF_vars(Renderer /\ UNCHANGED user) /\ WF_vars((HandleStart \/ HandleStop) /\ UNCHANGED user)
                 /\ WF_vars(EngineSettles /\ UNCHANGED user)
-----------------------------------------------------------------------------
(* With nothing on its way, exactly the armed rows run: the liveWiring     *)
(* comment, "every search node with armed:true should be running;          *)
(* everything else stopped".                                               *)
InStepWhenQuiet == (Quiet /\ loaded) => Active(running) = armed

(* It holds as long as the user waits for the engine between two moves and *)
(* the page is not reloaded.                                               *)
Patient == user.waits /\ "reload" \notin user.moves
PatientInStep == Patient => InStepWhenQuiet

(* A row a patient user leaves armed comes to run or is disarmed by a      *)
(* refusal.                                                                *)
ArmedRuns == \A i \in Items : (Patient /\ i \in armed) ~> (running[i] # None \/ i \notin armed)
=============================================================================
