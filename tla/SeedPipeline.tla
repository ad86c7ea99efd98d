---------------------------- MODULE SeedPipeline ----------------------------
(***************************************************************************)
(* How a day of prices travels from poe2scout through the publishing       *)
(* server to a client (backend/app/seedready.py, leaguehistory.py, db.py,  *)
(* ops/export-market-snapshot.py), for one league that is still running.   *)
(*                                                                         *)
(* The site posts daily rows that keep changing until it moves on to the   *)
(* next day, and it shows them twice: in a listing of all items and in the *)
(* history of one item.  The two views of the items in Odd never agree.    *)
(* A row is the number of times the site changed it, 0 for no row.  The    *)
(* server crawls histories, and an hourly poll compares what it holds with *)
(* the listing, fetches what is not final and records the newest day that  *)
(* is final for every item, the cut.  A seed ends on the cut.  A client    *)
(* crawls for itself and adopts newer seeds.                               *)
(***************************************************************************)
EXTENDS Integers, FiniteSets

CONSTANTS Items,        \* items of the league that are tracked
          Odd,          \* those whose listing never equals their history
          Watched,      \* those whose fetch stamps and client rows are followed
          Days,         \* the last day modelled: days are 1..Days
          MaxRev,       \* how often the site changes one row
          MaxMisses,   \* failed, empty and lost answers
          MaxVersions   \* how many seeds are published

ASSUME SeedAssumption ==
    /\ IsFiniteSet(Items) /\ Odd \subseteq Items /\ Watched \subseteq Items
    /\ Days \in Nat \ {0} /\ MaxRev \in Nat \ {0} /\ MaxMisses \in Nat /\ MaxVersions \in Nat

VARIABLES posted,       \* the site's rows, how often each item changed, the day it is
                        \* posting, delisted items
          clock,        \* today
          srv,          \* the server's market database
          poll,         \* the running poll
          seed,         \* the published seed
          cli,          \* a client's market database
          misses

seedVars == <<posted, clock, srv, poll, seed, cli, misses>>

NoDay == -1             \* no day is verified (None)
Day   == 1..Days
NoFp  == [through |-> NoDay, fp |-> [d \in Day |-> 0], vouch |-> FALSE]
NoPoll == [pc |-> "idle", list |-> [i \in Items |-> [d \in Day |-> 0]],
           todo |-> {}, failed |-> FALSE, fetched |-> FALSE]
NoRows   == [i \in Items |-> [d \in Day |-> 0]]
NoStamps == [i \in Watched |-> 0]

Largest(S)  == CHOOSE x \in S : \A y \in S : y <= x
Smallest(S) == CHOOSE x \in S : \A y \in S : x <= y

\* A moment, for one item: the day and how often the item had changed by then,
\* so that two fetches in one moment saw the same rows.
Moments    == Days * MaxRev + 1
EndOf(day) == Moments * (day + 1)

-----------------------------------------------------------------------------
(* The site (external). *)

History(i) == posted.rev[i]
Now(i)     == Moments * clock + posted.moves[i]
Listing(i) ==
    [d \in Day |-> IF i \in posted.gone \/ posted.rev[i][d] = 0 THEN 0
                   ELSE IF i \in Odd THEN MaxRev + posted.rev[i][d] ELSE posted.rev[i][d]]

\* An item trades on the day the site is posting.
SiteTrades(i) ==
    /\ i \notin posted.gone
    /\ posted.rev[i][posted.day] < (IF posted.day = Days THEN 1 ELSE MaxRev)   \* bound
    /\ posted' = [posted EXCEPT !.rev = [posted.rev EXCEPT ![i] = [posted.rev[i] EXCEPT ![posted.day] = @ + 1]],
                                !.moves = [posted.moves EXCEPT ![i] = @ + 1]]
    /\ UNCHANGED <<clock, srv, poll, seed, cli, misses>>

\* The site finishes a day for every item at once; it may lag behind the clock.
SiteMovesOn ==
    /\ posted.day < clock
    /\ posted' = [posted EXCEPT !.day = @ + 1]
    /\ UNCHANGED <<clock, srv, poll, seed, cli, misses>>

Midnight ==
    /\ clock < Days
    /\ clock' = clock + 1
    /\ UNCHANGED <<posted, srv, poll, seed, cli, misses>>

SiteDelists(i) ==
    /\ misses < MaxMisses
    /\ i \notin posted.gone
    /\ posted' = [posted EXCEPT !.gone = @ \cup {i}]
    /\ misses' = misses + 1
    /\ UNCHANGED <<clock, srv, poll, seed, cli>>

-----------------------------------------------------------------------------
(* seedready.py: what the listing proves about the rows. *)

Listed(list, d) == {i \in Items : list[i][d] # 0}

\* The newest day on which most items that traded already report a later one.
final_through(list) ==
    LET moved(d) == {i \in Listed(list, d) : \E e \in Day : e > d /\ list[i][e] # 0}
        done     == {d \in Day : 2 * Cardinality(moved(d)) > Cardinality(Listed(list, d))}
    IN IF done = {} THEN NoDay ELSE Largest(done)

fingerprint(row, through) == [d \in Day |-> IF d <= through THEN row[d] ELSE 0]

\* The site still lists what it did when the fingerprint was taken.
unchanged(row, rec, through) ==
    \A d \in Day : d <= through /\ row[d] # 0 => d <= rec.through /\ rec.fp[d] = row[d]

Tracked(rows) == {i \in Items : \E d \in Day : rows[i][d] # 0}

\* Mutant: a record made from an answer without rows vouches as well.
VouchedBlindly(list, rec) == IF unchanged(list, rec, rec.through) THEN rec.through ELSE NoDay
Vouched(list, rec) == IF rec.vouch /\ unchanged(list, rec, rec.through) THEN rec.through ELSE NoDay

assess(list, rows, fp) ==
    LET through == final_through(list)
        first   == Smallest({d \in Day : Listed(list, d) # {}})
        amiss(i, d) == /\ first <= d /\ d <= through
                       /\ d > Vouched(list[i], fp[i])
                       /\ list[i][d] # rows[i][d]
        bad     == {b \in Tracked(rows) \X Day : amiss(b[1], b[2])}
    IN IF through = NoDay THEN [through |-> NoDay, cut |-> NoDay, stale |-> {}]
       ELSE [through |-> through,
             cut     |-> IF bad = {} THEN through ELSE Smallest({b[2] : b \in bad}) - 1,
             stale   |-> {b[1] : b \in bad}]

to_fetchOnce(a, list, fp) == {i \in a.stale : fp[i] = NoFp}         \* mutant
to_fetch(a, list, fp) ==
    {i \in a.stale : fp[i] = NoFp \/ ~unchanged(list[i], fp[i], a.through)}

-----------------------------------------------------------------------------
(* leaguehistory.py: fetching one item's history. *)

\* What a database holds of an item after an answer: the site's rows replace
\* those inside the answer's span, and a row it withdrew goes with them.
Stored(rows, answer) ==
    LET span == {d \in Day : answer[d] # 0}
    IN [d \in Day |-> IF span # {} /\ Smallest(span) <= d /\ d <= Largest(span) THEN answer[d] ELSE rows[d]]

fetch_item(db, i, answer) ==
    [db EXCEPT !.rows  = [@ EXCEPT ![i] = Stored(db.rows[i], answer)],
               !.stamp = [j \in Watched |-> IF j = i THEN Now(i) ELSE @[j]]]

\* One step of the server's crawl.  The poll holds the same lock.
ServerCrawls(i) ==
    /\ poll.pc = "idle"
    /\ i \notin posted.gone
    /\ srv' = fetch_item(srv, i, History(i))
    /\ UNCHANGED <<posted, clock, poll, seed, cli, misses>>

ClientCrawls(i) ==
    /\ i \in Watched \ posted.gone
    /\ cli' = fetch_item(cli, i, History(i))
    /\ UNCHANGED <<posted, clock, srv, poll, seed, misses>>

-----------------------------------------------------------------------------
(* seedready.py: one poll of the league. *)

\* The listing is read and judged.  A page that fails, or a listing with no
\* finished day where there was one, leaves everything as it is.
PollLists ==
    LET list == [i \in Items |-> Listing(i)]
        a    == assess(list, srv.rows, srv.fp)
    IN /\ poll.pc = "idle"
       /\ ~(srv.cut.day # NoDay /\ final_through(list) = NoDay)
       /\ poll' = [NoPoll EXCEPT !.pc = "fetching", !.list = list, !.todo = to_fetch(a, list, srv.fp)]
       /\ UNCHANGED <<posted, clock, srv, seed, cli, misses>>

\* One item of the poll.  An answer without rows proves nothing and vouches for
\* nothing; a 404 confirms that the item is gone; a failure is left for later.
PollFetches(i) ==
    LET through == final_through(poll.list)
        rec(vouch) == [through |-> through, fp |-> fingerprint(poll.list[i], through), vouch |-> vouch]
        next(failed) == [poll EXCEPT !.todo = @ \ {i}, !.failed = @ \/ failed, !.fetched = @ \/ ~failed]
    IN /\ poll.pc = "fetching" /\ i \in poll.todo
       /\ \/ /\ i \notin posted.gone
             /\ srv' = [fetch_item(srv, i, History(i)) EXCEPT !.fp = [@ EXCEPT ![i] = rec(\E d \in Day : History(i)[d] # 0)]]
             /\ poll' = next(FALSE)
             /\ UNCHANGED misses
          \/ /\ i \in posted.gone
             /\ srv' = [srv EXCEPT !.fp = [@ EXCEPT ![i] = rec(TRUE)]]
             /\ poll' = next(FALSE)
             /\ UNCHANGED misses
          \/ /\ i \notin posted.gone /\ misses < MaxMisses      \* an empty answer
             /\ srv' = [fetch_item(srv, i, NoRows[i]) EXCEPT !.fp = [@ EXCEPT ![i] = rec(FALSE)]]
             /\ poll' = next(FALSE)
             /\ misses' = misses + 1
          \/ /\ misses < MaxMisses                            \* no answer
             /\ poll' = next(TRUE)
             /\ misses' = misses + 1
             /\ UNCHANGED srv
       /\ UNCHANGED <<posted, clock, seed, cli>>

\* A failed request never costs the league days that were verified before.
CutAfter(a) ==
    IF poll.failed /\ srv.cut.day # NoDay /\ a.cut < srv.cut.day THEN srv.cut.day ELSE a.cut

PollEnds ==
    /\ poll.pc = "fetching" /\ poll.todo = {}
    /\ LET a == assess(poll.list, srv.rows, srv.fp)
       IN srv' = [srv EXCEPT !.cut = [day |-> CutAfter(a), done |-> TRUE]]
    /\ poll' = NoPoll
    /\ UNCHANGED <<posted, clock, seed, cli, misses>>

\* The server stops in the middle of a poll; what it wrote stays.
ServerRestarts ==
    /\ poll.pc = "fetching" /\ misses < MaxMisses
    /\ poll' = NoPoll /\ misses' = misses + 1
    /\ UNCHANGED <<posted, clock, srv, seed, cli>>

-----------------------------------------------------------------------------
(* ops/export-market-snapshot.py and db.py: publishing and adopting. *)

is_newer == seed.version = 0 \/ seed.date < clock \/ seed.cut < srv.cut.day

\* A fetch stamp claims everything the site had then, so none may claim more
\* than the rows that are left.
ShippedStamp(at, cut) ==
    IF cut = NoDay THEN 0 ELSE IF at > EndOf(cut) THEN EndOf(cut) ELSE at

Export ==
    /\ srv.cut.done /\ is_newer /\ seed.version < MaxVersions
    /\ LET cut == srv.cut.day
       IN seed' = [version |-> seed.version + 1, date |-> clock, cut |-> cut,
                   rows  |-> [i \in Items |-> [d \in Day |-> IF d <= cut THEN srv.rows[i][d] ELSE 0]],
                   stamp |-> [i \in Watched |-> ShippedStamp(srv.stamp[i], cut)]]
    /\ UNCHANGED <<posted, clock, srv, poll, cli, misses>>

\* The items whose own crawl the client keeps over the seed's.
carry_crawl == {i \in Watched : cli.stamp[i] # 0 /\ cli.stamp[i] > seed.stamp[i]}

Adopt ==
    /\ seed.version > cli.version
    /\ cli' = [version |-> seed.version,
               rows  |-> [i \in Watched |-> [d \in Day |->
                            IF i \in carry_crawl /\ cli.rows[i][d] # 0 THEN cli.rows[i][d] ELSE seed.rows[i][d]]],
               stamp |-> [i \in Watched |-> IF i \in carry_crawl THEN cli.stamp[i] ELSE seed.stamp[i]]]
    /\ UNCHANGED <<posted, clock, srv, poll, seed, misses>>

-----------------------------------------------------------------------------
SeedInit ==
    /\ posted = [rev |-> NoRows, moves |-> [i \in Items |-> 0], day |-> 1, gone |-> {}]
    /\ clock = 1
    /\ srv = [rows |-> NoRows, stamp |-> NoStamps, fp |-> [i \in Items |-> NoFp],
              cut |-> [day |-> NoDay, done |-> FALSE]]
    /\ poll = NoPoll
    /\ seed = [version |-> 0, date |-> 0, cut |-> NoDay, rows |-> NoRows, stamp |-> NoStamps]
    /\ cli = [version |-> 0, rows |-> [i \in Watched |-> NoRows[i]], stamp |-> NoStamps]
    /\ misses = 0

Polls == PollLists \/ PollEnds \/ \E i \in Items : PollFetches(i)

SeedNext ==
    \/ \E i \in Items : SiteTrades(i) \/ SiteDelists(i) \/ ServerCrawls(i) \/ ClientCrawls(i)
    \/ SiteMovesOn \/ Midnight \/ Polls \/ ServerRestarts \/ Export \/ Adopt

-----------------------------------------------------------------------------
(* Properties. *)

\* What a seed promises (seedready.py, _seed_cuts): up to its last day every
\* row is the one the site ended up with, for every tracked item, and no day
\* the site still changes is in it.
ShipsOnlyFinalDays ==
    /\ seed.cut < posted.day
    /\ \A i \in Tracked(seed.rows) \ posted.gone, d \in Day : d <= seed.cut => seed.rows[i][d] = posted.rev[i][d]

\* "An update never restarts a crawl the client already did" (db.py, _carry_crawl):
\* no row of the client, of an item the site still lists, is ever replaced by an
\* older state of it.
RowsOnlyAdvance == \A i \in Watched \ posted.gone, d \in Day : cli'.rows[i][d] >= cli.rows[i][d]

\* What a client installs is final, and costs it nothing it had (seedready.py, db.py):
\* every step leads to a state whose seed is final and takes no row of the client back.
SeedsAreSound == [][ShipsOnlyFinalDays' /\ RowsOnlyAdvance]_seedVars

CutIsBehind ==
    LET through == final_through([i \in Items |-> Listing(i)])
    IN through # NoDay /\ srv.cut.day # through

\* Answers with rows have not all come: such an item is kept back on purpose.
OnlyEmptyAnswers(i) == srv.fp[i] # NoFp /\ ~srv.fp[i].vouch
\* to_fetch takes an item that left the listing for one fetched as it is now.
LeftUnasked(i) == i \in posted.gone /\ \E d \in Day : d > srv.fp[i].through /\ srv.rows[i][d] # 0

\* Once the site rests the cut reaches the last finished day (poll_league),
\* but for the two kinds of item that are not asked about again.
CutCatchesUp == <>[](CutIsBehind => \E i \in Items : OnlyEmptyAnswers(i) \/ LeftUnasked(i))

\* "The stale items worth a request: all of them, except one already fetched
\* against exactly what poe2scout reports now" (to_fetch): a stale item is
\* asked about, so only answers without rows keep the seed back.
StaleItemsAsked == <>[](CutIsBehind => \E i \in Items : OnlyEmptyAnswers(i))
=============================================================================
