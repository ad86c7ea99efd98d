---------------------------- MODULE AnalyticsJobs ----------------------------
(***************************************************************************)
(* The heavy-analytics pipeline: the backend's _analytics_loop asks for    *)
(* work (backend/app/main.py), the job table and the result cache are the  *)
(* only crossing point (backend/app/analytics.py), a sidecar process       *)
(* claims, computes and writes (backend/sidecar/runner.py), a supervisor   *)
(* respawns it (sidecar_supervisor.py), a watchdog ends it when its        *)
(* backend is gone (watchdog.py).                                          *)
(*                                                                         *)
(* Finished rows (done, error) leave the model as they leave the queue:    *)
(* nothing reads them but the diagnostics, and prune_jobs deletes them.    *)
(***************************************************************************)
EXTENDS Naturals, Sequences, FiniteSets, SequencesExt

CONSTANTS
    Kinds,       \* the job kinds, in the order the backend enqueues them
    Leagues,
    Workers,     \* sidecar processes
    None,        \* no league
    Raising,     \* <<kind, league>> whose compute raises an exception
    Killing,     \* <<kind, league>> whose compute kills the process natively
    MaxMishaps,  \* bound: sidecars that die by themselves, and periodic requests
                 \* that find the sidecar still at work after two hours
    MaxFaults    \* bound: writes the database refuses, and backends that die

ASSUME KindsAssumption == Kinds \subseteq Nat \ {0} /\ IsFiniteSet(Kinds)
ASSUME NoneAssumption == None \notin Leagues
ASSUME OutcomesAssumption == Raising \cup Killing \subseteq Kinds \X Leagues
ASSUME FaultsAssumption == MaxMishaps \in Nat /\ MaxFaults \in Nat
ASSUME WorkersAssumption == IsFiniteSet(Workers)

VARIABLES
    rows,        \* analytics_jobs: the unfinished rows, by id
    cache,       \* analytics_cache: the league of each kind's result
    workers,     \* what each sidecar process is at
    backend,     \* "down", "new" (it has not asked yet) or "up"
    screen,      \* the league on screen
    mishaps,     \* how many of the two bounded kinds of trouble
    faults       \* there have been

jobVars == <<rows, cache, workers, backend, screen, mishaps, faults>>

(* old: started 120 s ago or more.  beaten: the result of a later row of   *)
(* the kind is in already.  by: the processes that work on it.             *)
Row == [kind : Kinds, league : Leagues, state : {"queued", "running"},
        old : BOOLEAN, beaten : BOOLEAN, by : SUBSET Workers]

(* A busy process holds a copy of its job; fresh is the loop's idle == 0.  *)
Process == [phase : {"off", "boot", "loop", "busy", "idle"}, fresh : BOOLEAN, orphan : BOOLEAN,
            kind : Kinds \cup {0}, league : Leagues \cup {None}]

JobsTypeOK ==
    /\ rows \in Seq(Row)
    /\ cache \in [Kinds -> Leagues \cup {None}]
    /\ workers \in [Workers -> Process]
    /\ backend \in {"down", "new", "up"} /\ screen \in Leagues
    /\ mishaps \in 0..MaxMishaps /\ faults \in 0..MaxFaults

Off == [phase |-> "off", fresh |-> FALSE, orphan |-> FALSE, kind |-> 0, league |-> None]

Queued == {i \in DOMAIN rows : rows[i].state = "queued"}
Running == {i \in DOMAIN rows : rows[i].state = "running"}
OfKind(k) == {i \in DOMAIN rows : rows[i].kind = k}

JobsInit ==
    /\ rows = <<>>
    /\ cache = [k \in Kinds |-> None]
    /\ workers = [w \in Workers |-> Off]
    /\ backend = "new" /\ screen \in Leagues
    /\ mishaps = 0 /\ faults = 0
-----------------------------------------------------------------------------

(* enqueue() coalesces: a queued job of the kind stands for the new one,   *)
(* whatever its league.                                                    *)
Wanted == {k \in Kinds : OfKind(k) \cap Queued = {}}

Enqueued(k) ==
    [kind |-> k, league |-> screen, state |-> "queued", old |-> FALSE, beaten |-> FALSE, by |-> {}]

AtRest ==
    /\ Queued = {}
    /\ \E w \in Workers : workers[w].phase # "off"
    /\ \A w \in Workers : workers[w].phase # "off" => workers[w].phase = "loop" /\ ~workers[w].fresh

(* The periodic request: a new backend's first one after 20 s, the others  *)
(* every two hours, when the sidecar has long been idle, or else has had   *)
(* trouble, and what was running at the last one is old.                   *)
AskJobs ==
    /\ \/ backend = "new" /\ UNCHANGED mishaps
       \/ backend = "up" /\ AtRest /\ UNCHANGED mishaps
       \/ backend = "up" /\ ~AtRest /\ mishaps < MaxMishaps /\ mishaps' = mishaps + 1
    /\ backend' = "up"
    /\ \E new \in [1..Cardinality(Wanted) -> Wanted] :
          /\ \A m \in DOMAIN new, n \in DOMAIN new : m < n => new[m] < new[n]
          /\ rows' = [i \in DOMAIN rows |->
                         [rows[i] EXCEPT !.old = @ \/ (backend = "up" /\ i \in Running)]]
                     \o [n \in DOMAIN new |-> Enqueued(new[n])]
    /\ UNCHANGED <<cache, workers, screen, faults>>

SwitchLeague ==
    /\ \E l \in Leagues \ {screen} : screen' = l
    /\ UNCHANGED <<rows, cache, workers, backend, mishaps, faults>>
-----------------------------------------------------------------------------
Fault == faults < MaxFaults /\ faults' = faults + 1

RequeuedNone(S) ==   \* mutant: no self-heal
    UNCHANGED rows

(* requeue_stale(): these rows are queued again.                           *)
Requeued(S) ==
    rows' = [i \in DOMAIN rows |->
        IF i \in S THEN [rows[i] EXCEPT !.state = "queued", !.old = FALSE] ELSE rows[i]]

(* The supervisor starts a sidecar when its last one is gone.              *)
Spawn(w) ==
    /\ backend # "down"
    /\ workers[w].phase = "off"
    /\ \A v \in Workers : workers[v].phase # "off" => workers[v].orphan
    /\ workers' = [workers EXCEPT ![w] = [Off EXCEPT !.phase = "boot", !.fresh = TRUE]]
    /\ UNCHANGED <<rows, cache, backend, screen, mishaps, faults>>

(* At startup every running row is an orphan's (older_than_s=0); when the  *)
(* database refuses, the sidecar goes on without.                          *)
Boot(w) ==
    /\ workers[w].phase = "boot"
    /\ \/ Requeued(Running) /\ UNCHANGED faults
       \/ Fault /\ UNCHANGED rows
    /\ workers' = [workers EXCEPT ![w].phase = "loop"]
    /\ UNCHANGED <<cache, backend, screen, mishaps>>

Oldest(i) == i \in Queued /\ \A j \in Queued : i <= j

(* claim(): the oldest queued row of any kind.                             *)
Claim(w) ==
    /\ workers[w].phase = "loop"
    /\ \E i \in DOMAIN rows :
          /\ Oldest(i)
          /\ rows' = [rows EXCEPT ![i].state = "running", ![i].old = FALSE, ![i].by = @ \cup {w}]
          /\ workers' = [workers EXCEPT ![w].phase = "busy", ![w].kind = rows[i].kind,
                                        ![w].league = rows[i].league]
    /\ UNCHANGED <<cache, backend, screen, mishaps, faults>>

(* An empty queue; the first time after a start or a job, the loop heals   *)
(* what has been running for 120 s.                                        *)
FindEmpty(w) ==
    /\ workers[w].phase = "loop" /\ workers[w].fresh
    /\ Queued = {}
    /\ workers' = [workers EXCEPT ![w].phase = "idle"]
    /\ UNCHANGED <<rows, cache, backend, screen, mishaps, faults>>

IdlePass(w) ==
    /\ workers[w].phase = "idle"
    /\ \/ Requeued({i \in Running : rows[i].old}) /\ UNCHANGED faults
       \/ Fault /\ UNCHANGED rows
    /\ workers' = [workers EXCEPT ![w].phase = "loop", ![w].fresh = FALSE]
    /\ UNCHANGED <<cache, backend, screen, mishaps>>
-----------------------------------------------------------------------------
Job(w) == <<workers[w].kind, workers[w].league>>
Its(w) == {i \in DOMAIN rows : w \in rows[i].by}

Back(w) == [Off EXCEPT !.phase = "loop", !.fresh = TRUE, !.orphan = workers[w].orphan]

(* The process is no longer working on its row, which stays as it is.      *)
Released(w) == [i \in DOMAIN rows |-> [rows[i] EXCEPT !.by = @ \ {w}]]

(* Its row is done or in error, unless another process has seen to that.   *)
Without(w, table) ==
    IF Its(w) = {} THEN table ELSE RemoveAt(table, CHOOSE i \in Its(w) : TRUE)

(* complete(): the result and the done mark in one transaction, whatever   *)
(* has become of the row meanwhile.                                        *)
Finish(w) ==
    /\ workers[w].phase = "busy" /\ Job(w) \notin Raising \cup Killing
    /\ cache' = [cache EXCEPT ![workers[w].kind] = workers[w].league]
    /\ rows' = Without(w, [i \in DOMAIN rows |-> [rows[i] EXCEPT
                  !.beaten = @ \/ (i \in OfKind(workers[w].kind) /\ \E j \in Its(w) : i < j)]])
    /\ workers' = [workers EXCEPT ![w] = Back(w)]
    /\ UNCHANGED <<backend, screen, mishaps, faults>>

(* fail(): the compute raised, or the database refused the result.         *)
Fail(w) ==
    /\ workers[w].phase = "busy" /\ Job(w) \notin Killing
    /\ IF Job(w) \in Raising THEN UNCHANGED faults ELSE Fault
    /\ rows' = Without(w, rows)
    /\ workers' = [workers EXCEPT ![w] = Back(w)]
    /\ UNCHANGED <<cache, backend, screen, mishaps>>

(* The database refused fail() as well: the loop goes on, the row stays.   *)
Abandon(w) ==
    /\ workers[w].phase = "busy" /\ Job(w) \notin Killing
    /\ Fault
    /\ rows' = Released(w)
    /\ workers' = [workers EXCEPT ![w] = [Back(w) EXCEPT !.fresh = workers[w].fresh]]
    /\ UNCHANGED <<cache, backend, screen, mishaps>>

Ends(w) == workers' = [workers EXCEPT ![w] = Off] /\ rows' = Released(w)

(* The compute takes the process down with it, or something else does.     *)
Dies(w) ==
    /\ workers[w].phase # "off"
    /\ IF Job(w) \in Killing THEN UNCHANGED mishaps
                             ELSE mishaps < MaxMishaps /\ mishaps' = mishaps + 1
    /\ Ends(w)
    /\ UNCHANGED <<cache, backend, screen, faults>>
-----------------------------------------------------------------------------
BackendDies ==
    /\ backend # "down" /\ Fault
    /\ backend' = "down"
    /\ workers' = [w \in Workers |->
          IF workers[w].phase = "off" THEN Off ELSE [workers[w] EXCEPT !.orphan = TRUE]]
    /\ UNCHANGED <<rows, cache, screen, mishaps>>

BackendStarts ==
    /\ backend = "down"
    /\ backend' = "new"
    /\ UNCHANGED <<rows, cache, workers, screen, mishaps, faults>>

(* The sidecar's stdin is at its end, or its parent gone for two polls.    *)
Watchdog(w) ==
    /\ workers[w].phase # "off" /\ workers[w].orphan
    /\ Ends(w)
    /\ UNCHANGED <<cache, backend, screen, mishaps, faults>>

Work(w) ==
    \/ Boot(w) \/ Claim(w) \/ FindEmpty(w) \/ IdlePass(w)
    \/ Finish(w) \/ Fail(w) \/ Abandon(w)

Sidecar(w) == Spawn(w) \/ Work(w) \/ Dies(w) \/ Watchdog(w)

JobsNext == AskJobs \/ SwitchLeague \/ BackendDies \/ BackendStarts \/ \E w \in Workers : Sidecar(w)
-----------------------------------------------------------------------------

(* "so the pipeline recovers instead of wedging forever" (runner.py): the  *)
(* requests made for a league that has left the screen are all worked off, *)
(* whatever dies or is refused meanwhile.                                  *)
Recovers ==
    \A l \in Leagues :
        <>[](screen # l) => <>[](\A i \in DOMAIN rows : rows[i].league # l)

(* "enqueue coalesces per kind, so this never piles up" (main.py): one row *)
(* queued and one running of a kind, and one more for every refused write  *)
(* or backend's death.                                                     *)
NeverPilesUp == \A k \in Kinds : Cardinality(OfKind(k)) <= 2 + faults

(* The result on display is never replaced by that of an older request,    *)
(* as long as one process works and the database takes its writes.         *)
CacheNeverGoesBack ==
    [][(cache' # cache /\ faults = 0) =>
          \A w \in Workers : workers'[w] # workers[w] => \A i \in Its(w) : ~rows[i].beaten]_jobVars

(* The queue keeps going: it is worked off, never piles up, and what it    *)
(* shows only moves on (analytics.py, runner.py).                          *)
QueueGoesOn == Recovers /\ [](JobsTypeOK /\ NeverPilesUp) /\ CacheNeverGoesBack

=============================================================================
