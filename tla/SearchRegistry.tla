--------------------------- MODULE SearchRegistry ---------------------------
(***************************************************************************)
(* What the live-search engine (desktop/src/trade/engine.js) promises to   *)
(* its caller: a bounded table of searches that changes only when the      *)
(* caller starts or stops one, and an "engine-state" announcement that is  *)
(* the truth again as soon as no start is still on its way.  LiveEngine    *)
(* implements this module; LiveSync composes it with the renderer.         *)
(***************************************************************************)
EXTENDS Integers, FiniteSets

CONSTANTS
    Items,        \* ids of the search rows that may go live
    Searches,     \* what a row searches for: a league and a slug
    None,         \* no search, no record, no socket
    MAX_SOCKETS   \* live searches one account may hold

ASSUME NoneIsNoSearch == None \notin Searches
ASSUME ItemsAreFinite == IsFiniteSet(Items)
ASSUME CapIsNatural == MAX_SOCKETS \in Nat

VARIABLES
    running,      \* [Items -> Searches or None]: the engine's table
    starting,     \* how many startSearch calls have not announced yet
    told          \* ids in the last announcement (trade:engine-state)

regVars == <<running, starting, told>>

Active(table) == {i \in Items : table[i] # None}

RegistryInit ==
    /\ running = [i \in Items |-> None]
    /\ starting = 0
    /\ told = {}

(* A search enters the table; the announcement follows the first connect.  *)
Start(i, s) ==
    /\ running[i] = None
    /\ Cardinality(Active(running)) < MAX_SOCKETS
    /\ running' = [running EXCEPT ![i] = s]
    /\ starting' = starting + 1
    /\ UNCHANGED told

(* One startSearch call reaches its announcement.                          *)
Settle ==
    /\ starting > 0
    /\ starting' = starting - 1
    /\ told' = Active(running)
    /\ UNCHANGED running

(* Any set of searches leaves the table; the leaving is announced.         *)
Stop(gone) ==
    /\ gone # {} /\ gone \subseteq Active(running)
    /\ running' = [i \in Items |-> IF i \in gone THEN None ELSE running[i]]
    /\ told' = Active(running')
    /\ UNCHANGED starting

(* A socket opened: the table is announced again.                          *)
Announce ==
    /\ told' = Active(running)
    /\ UNCHANGED <<running, starting>>

RegistryNext ==
    \/ \E i \in Items, s \in Searches : Start(i, s)
    \/ Settle
    \/ \E gone \in SUBSET Items : Stop(gone)
    \/ Announce

RegistrySpec == RegistryInit /\ [][RegistryNext]_regVars

RegistryTypeOK ==
    /\ running \in [Items -> Searches \cup {None}]
    /\ starting \in Nat
    /\ told \subseteq Items

(* The caller's copy of the table is right whenever no start is pending.   *)
ToldTheTruth == starting = 0 => told = Active(running)

(* The account's allowance is never exceeded by the table.                 *)
WithinCap == Cardinality(Active(running)) <= MAX_SOCKETS
=============================================================================
