----------------------------- MODULE DigestSync -----------------------------
(***************************************************************************)
(* The hourly currency digest (backend/app/digest.py) and the market       *)
(* database it fills (db.py): a cursor walks the site's hours, rows and    *)
(* cursor reach the disk in two transactions, readers are answered from a  *)
(* memo stamped with the last stored hour (cache.py), old hours are        *)
(* pruned, and a start may replace the database by a bundled seed.         *)
(***************************************************************************)
EXTENDS Integers, FiniteSets

CONSTANTS MaxHour,       \* hours are 0..MaxHour
          BackfillHours, \* how far back a cold start begins
          Keep,          \* MARKET_RETENTION_DAYS, in hours
          MaxFailures     \* failed fetches and restarts

ASSUME DigestAssumption ==
    MaxHour \in Nat /\ BackfillHours \in Nat /\ Keep \in Nat \ {0} /\ MaxFailures \in Nat

VARIABLES hour,      \* the hour it is; the site has published those before it
          market,    \* the database: rows (hours stored), cursor, version of its seed
          first,     \* ghost: the hour its rows begin with
          bundled,   \* the seed bundled with the installed build
          lastHour,  \* state["last_hour"]
          sync,      \* where sync_once is, and the hour it is at
          memo,      \* _rate_cache: the version it is stamped with and the hours it was built from
          reader,    \* a request that found no valid memo and is building one
          failures

digestVars == <<hour, market, first, bundled, lastHour, sync, memo, reader, failures>>

NoHour == -1
Hour == 0..MaxHour
NoSync == [pc |-> "idle", at |-> NoHour]
NoMemo == [filled |-> FALSE, version |-> NoHour, seen |-> {}]

Earliest(S) == CHOOSE h \in S : \A k \in S : h <= k
InWindow(h) == h >= hour - Keep

-----------------------------------------------------------------------------
HourPasses ==
    /\ hour < MaxHour
    /\ hour' = hour + 1
    /\ UNCHANGED <<market, first, bundled, lastHour, sync, memo, reader, failures>>

\* A cold start goes back BackfillHours; a restart says what is stored already.
StartsSaying(last) ==
    /\ sync.pc = "idle"
    /\ LET from == IF hour > BackfillHours THEN hour - BackfillHours ELSE 0
       IN IF market.cursor = NoHour
          THEN /\ sync' = [pc |-> "fetch", at |-> from]
               /\ first' = from
               /\ UNCHANGED lastHour
          ELSE /\ sync' = [pc |-> "fetch", at |-> market.cursor]
               /\ lastHour' = IF lastHour = NoHour THEN last ELSE lastHour
               /\ UNCHANGED first
    /\ UNCHANGED <<hour, market, bundled, memo, reader, failures>>

SyncStartsAhead == StartsSaying(market.cursor)          \* mutant
SyncStarts      == StartsSaying(market.cursor - 1)

\* The tip hour is not published yet: caught up.
NotPublished ==
    /\ sync.pc = "fetch" /\ sync.at >= hour
    /\ sync' = NoSync
    /\ UNCHANGED <<hour, market, first, bundled, lastHour, memo, reader, failures>>

FetchFails ==
    /\ sync.pc = "fetch" /\ failures < MaxFailures
    /\ sync' = NoSync /\ failures' = failures + 1
    /\ UNCHANGED <<hour, market, first, bundled, lastHour, memo, reader>>

\* _store: the hour's rows, in a transaction of their own.
Stores ==
    /\ sync.pc = "fetch" /\ sync.at < hour
    /\ market' = [market EXCEPT !.rows = @ \cup {sync.at}]
    /\ sync' = [sync EXCEPT !.pc = "mark"]
    /\ UNCHANGED <<hour, first, bundled, lastHour, memo, reader, failures>>

Marks ==
    /\ sync.pc = "mark"
    /\ lastHour' = sync.at
    /\ sync' = [sync EXCEPT !.pc = "advance"]
    /\ UNCHANGED <<hour, market, first, bundled, memo, reader, failures>>

\* kv_set: the next hour, or this one again when the site names no later one.
Advances ==
    /\ sync.pc = "advance"
    /\ \/ /\ market' = [market EXCEPT !.cursor = sync.at + 1]
          /\ sync' = [pc |-> "fetch", at |-> sync.at + 1]
       \/ /\ sync.at = hour - 1
          /\ market' = [market EXCEPT !.cursor = sync.at]
          /\ sync' = NoSync
    /\ UNCHANGED <<hour, first, bundled, lastHour, memo, reader, failures>>

\* prune_old, after a pass.
Prunes ==
    /\ sync.pc = "idle"
    /\ market' = [market EXCEPT !.rows = {h \in @ : InWindow(h)}]
    /\ UNCHANGED <<hour, first, bundled, lastHour, sync, memo, reader, failures>>

-----------------------------------------------------------------------------
\* cache.memo: a request that finds the memo stamped with another hour builds
\* it from the rows; the stamp was taken before they are read.
ReadStarts ==
    /\ reader.pc = "idle"
    /\ ~(memo.filled /\ memo.version = lastHour)
    /\ reader' = [pc |-> "building", at |-> lastHour]
    /\ UNCHANGED <<hour, market, first, bundled, lastHour, sync, memo, failures>>

ReadBuilds ==
    /\ reader.pc = "building"
    /\ memo' = [filled |-> TRUE, version |-> reader.at, seen |-> market.rows]
    /\ reader' = NoSync
    /\ UNCHANGED <<hour, market, first, bundled, lastHour, sync, failures>>

\* RATE_CACHE_S is over.
MemoExpires ==
    /\ memo.filled /\ memo' = NoMemo
    /\ UNCHANGED <<hour, market, first, bundled, lastHour, sync, reader, failures>>

-----------------------------------------------------------------------------
\* An update bundles a seed made on a server that was caught up.
Bundles ==
    /\ bundled.version = 0 /\ hour > 0
    /\ \E cursor \in {hour - 1, hour} :
         bundled' = [version |-> 1, cursor |-> cursor, rows |-> {h \in 0..(hour - 1) : InWindow(h)}]
    /\ UNCHANGED <<hour, market, first, lastHour, sync, memo, reader, failures>>

\* _boot_databases: a newer seed replaces the market database as a whole.
Restarts ==
    /\ failures < MaxFailures
    /\ failures' = failures + 1
    /\ IF bundled.version > market.version
       THEN /\ market' = bundled
            /\ first' = Earliest(bundled.rows \cup {bundled.cursor})
       ELSE UNCHANGED <<market, first>>
    /\ lastHour' = NoHour /\ sync' = NoSync /\ memo' = NoMemo /\ reader' = NoSync
    /\ UNCHANGED <<hour, bundled>>

-----------------------------------------------------------------------------
DigestInit ==
    /\ hour = 0
    /\ market = [version |-> 0, cursor |-> NoHour, rows |-> {}]
    /\ first = NoHour
    /\ bundled = [version |-> 0, cursor |-> NoHour, rows |-> {}]
    /\ lastHour = NoHour /\ sync = NoSync /\ memo = NoMemo /\ reader = NoSync
    /\ failures = 0

Syncs == SyncStarts \/ NotPublished \/ Stores \/ Marks \/ Advances

DigestNext ==
    \/ HourPasses \/ Syncs \/ FetchFails \/ Prunes
    \/ ReadStarts \/ ReadBuilds \/ MemoExpires \/ Bundles \/ Restarts

DigestFairness == WF_digestVars(Syncs)
DigestSpec == DigestInit /\ [][DigestNext]_digestVars /\ DigestFairness

-----------------------------------------------------------------------------
(* Properties. *)

\* A memo that passes for current was built from rows that reach the hour it is
\* stamped with, unless that hour has been pruned since.
MemoReachesItsHour ==
    memo.filled /\ memo.version # NoHour =>
        (\E h \in memo.seen : h >= memo.version) \/ ~InWindow(memo.version)

\* Ingestion is gap-filling (docs/db-architecture.md): whatever stops it where,
\* every hour from the first to the cursor that is still kept is stored.
NoGap ==
    market.cursor # NoHour =>
        \A h \in Hour : first <= h /\ h < market.cursor /\ InWindow(h) => h \in market.rows

\* What the digest answers rests on every hour it should (digest.py, cache.py).
DigestIsSound == MemoReachesItsHour /\ NoGap
=============================================================================
