----------------------------- MODULE LiveEngine -----------------------------
(***************************************************************************)
(* The live-search engine of the desktop app, desktop/src/trade/engine.js. *)
(*                                                                         *)
(* One record per started search sits in the Map `sockets`; its WebSocket  *)
(* handlers, its reconnect timer and its suspended _connect calls all hold *)
(* on to the record or to the item id after the record left the Map.  Each *)
(* action is one turn of the event loop: code between two awaits, or one   *)
(* callback.  Record and socket identities are recycled once nothing holds *)
(* them, so behaviours are unbounded although Recs and Socks are finite.   *)
(***************************************************************************)
EXTENDS Integers, FiniteSets

CONSTANTS
    Items, Searches, None, MAX_SOCKETS,
    Recs,               \* identities of connection records
    Socks,              \* identities of WebSocket objects
    AttemptCap,         \* attempts at which the delay has reached BACKOFF_MAX
    StopDuringConnect   \* may a stop arrive while a _connect is suspended?

ASSUME CapAssumption == MAX_SOCKETS \in Nat
ASSUME BackoffAssumption == AttemptCap \in Nat \ {0}
ASSUME NoneAssumption == None \notin Items \cup Searches \cup Recs \cup Socks
ASSUME EnvironmentAssumption == StopDuringConnect \in BOOLEAN

VARIABLES
    sockets,      \* the Map: item -> its record, or None
    rec,          \* the fields of every record
    connects,     \* _connect calls suspended at `await cookieHeader()`
    overwritten,  \* items with a pending timeout whose handle was replaced
    sock,         \* every WebSocket's state and the record its handlers hold
    told,         \* activeIds of the last trade:engine-state
    shown         \* the last trade:search-state of each item

vars == <<sockets, rec, connects, overwritten, sock, told, shown>>

Active(table) == {i \in Items : table[i] # None}

Blank == [item |-> None, search |-> None, ws |-> None,
          attempts |-> 0, stopped |-> TRUE, timer |-> FALSE]

Free == [state |-> "free", rec |-> None]

Labels == {"none", "connecting", "live", "reconnecting", "auth", "error"}

Record == [item : Items \cup {None}, search : Searches \cup {None},
           ws : Socks \cup {None}, attempts : 0..AttemptCap,
           stopped : BOOLEAN, timer : BOOLEAN]

Socket == [state : {"free", "connecting", "open", "closing"}, rec : Recs \cup {None}]

TypeOK ==
    /\ sockets \in [Items -> Recs \cup {None}]
    /\ rec \in [Recs -> Record]
    /\ connects \subseteq [rec : Recs, by : {"start", "timer"}]
    /\ overwritten \subseteq Items
    /\ sock \in [Socks -> Socket]
    /\ told \subseteq Items
    /\ shown \in [Items -> Labels]

Init ==
    /\ sockets = [i \in Items |-> None]
    /\ rec = [r \in Recs |-> Blank]
    /\ connects = {}
    /\ overwritten = {}
    /\ sock = [w \in Socks |-> Free]
    /\ told = {}
    /\ shown = [i \in Items |-> "none"]

-----------------------------------------------------------------------------
(* Nothing holds the record any more: the garbage collector may have it.   *)
Unreferenced(r) ==
    /\ \A i \in Items : sockets[i] # r
    /\ \A c \in connects : c.rec # r
    /\ \A w \in Socks : sock[w].rec # r

(* startSearch: a second start of a running item and a start over the cap  *)
(* return without touching the table.                                      *)
StartSearch(i, s) ==
    /\ sockets[i] = None
    /\ Cardinality(Active(sockets)) < MAX_SOCKETS
    /\ \E r \in Recs :
        /\ Unreferenced(r)
        /\ sockets' = [sockets EXCEPT ![i] = r]
        /\ rec' = [rec EXCEPT ![r] =
                     [Blank EXCEPT !.item = i, !.search = s, !.stopped = FALSE]]
        /\ connects' = connects \cup {[rec |-> r, by |-> "start"]}
    /\ shown' = [shown EXCEPT ![i] = "connecting"]
    /\ UNCHANGED <<overwritten, sock, told>>

(* emitState, for the Map as the step leaves it.                           *)
EmitNothing(table) == UNCHANGED told   \* mutant: the table change is not announced

emitState(table) == told' = Active(table)

(* The end of startSearch announces; a reconnect does not.                 *)
AnnounceAfter(c) == IF c.by = "start" THEN emitState(sockets) ELSE UNCHANGED told

(* cookieHeader resolved: the socket is created for the record _connect    *)
(* looked up before the await, whatever happened to it meanwhile.          *)
ConnectCreates(c) ==
    /\ c \in connects
    /\ \E w \in Socks :
        /\ sock[w] = Free
        /\ sock' = [sock EXCEPT ![w] = [state |-> "connecting", rec |-> c.rec]]
        /\ rec' = [rec EXCEPT ![c.rec].ws = w]
    /\ connects' = connects \ {c}
    /\ AnnounceAfter(c)
    /\ UNCHANGED <<sockets, overwritten, shown>>

(* _scheduleReconnect(i) applied to the records `rs`: it works on whichever *)
(* record the Map holds for the item now, and replaces its timer handle.   *)
(* The delay doubles with the attempts until it reaches BACKOFF_MAX.       *)
Current(i, rs) == sockets[i] # None /\ ~rs[sockets[i]].stopped

Another(attempts) == IF attempts < AttemptCap THEN attempts + 1 ELSE attempts

LabelReconnecting(i) == shown' = [shown EXCEPT ![i] = "reconnecting"]

ScheduleReconnect(i, rs) ==
    IF Current(i, rs)
    THEN /\ rec' = [rs EXCEPT ![sockets[i]].attempts = Another(@),
                              ![sockets[i]].timer = TRUE]
         /\ overwritten' = IF rs[sockets[i]].timer THEN overwritten \cup {i}
                                                   ELSE overwritten
         /\ LabelReconnecting(i)
    ELSE rec' = rs /\ UNCHANGED <<overwritten, shown>>

ConnectGivesUp(c) ==   \* mutant: the catch block does not reschedule
    /\ c \in connects
    /\ connects' = connects \ {c}
    /\ AnnounceAfter(c)
    /\ UNCHANGED <<sockets, rec, overwritten, sock, shown>>

(* Reading the cookies, or the constructor, threw.                         *)
ConnectFails(c) ==
    /\ c \in connects
    /\ connects' = connects \ {c}
    /\ ScheduleReconnect(rec[c.rec].item, rec)
    /\ AnnounceAfter(c)
    /\ UNCHANGED <<sockets, sock>>

(* The timeout fires _connect(itemId).  Bound: one _connect started by a   *)
(* timer is suspended per record.                                          *)
TimerFires(i) ==
    /\ sockets[i] # None
    /\ rec[sockets[i]].timer
    /\ [rec |-> sockets[i], by |-> "timer"] \notin connects
    /\ rec' = [rec EXCEPT ![sockets[i]].timer = FALSE]
    /\ connects' = connects \cup {[rec |-> sockets[i], by |-> "timer"]}
    /\ UNCHANGED <<sockets, overwritten, sock, told, shown>>

(* A timeout nobody can clear fires: it connects whatever the Map holds    *)
(* for the item, or nothing.  The same bound holds.                        *)
OverwrittenTimerFires(i) ==
    /\ i \in overwritten
    /\ [rec |-> sockets[i], by |-> "timer"] \notin connects
    /\ overwritten' = overwritten \ {i}
    /\ connects' = IF Current(i, rec)
                   THEN connects \cup {[rec |-> sockets[i], by |-> "timer"]}
                   ELSE connects
    /\ UNCHANGED <<sockets, rec, sock, told, shown>>
-----------------------------------------------------------------------------
ItemOf(w) == rec[sock[w].rec].item

(* Fields the open and the close handlers write.                           *)
Opened(r) == [rec EXCEPT ![r].attempts = 0]

Closed(r) == [rec EXCEPT ![r].ws = None]

SocketOpens(w) ==
    /\ sock[w].state = "connecting"
    /\ sock' = [sock EXCEPT ![w].state = "open"]
    /\ rec' = Opened(sock[w].rec)
    /\ shown' = [shown EXCEPT ![ItemOf(w)] = "live"]
    /\ emitState(sockets)
    /\ UNCHANGED <<sockets, connects, overwritten>>

(* unexpected-response: 401 and 403 are `auth`, the rest `error`; the      *)
(* socket is terminated and its close event is on the way.                 *)
HandshakeRejected(w, label) ==
    /\ sock[w].state = "connecting"
    /\ sock' = [sock EXCEPT ![w].state = "closing"]
    /\ shown' = [shown EXCEPT ![ItemOf(w)] = label]
    /\ UNCHANGED <<sockets, rec, connects, overwritten, told>>

(* The error event; ws always follows it with close.                       *)
SocketErrors(w) ==
    /\ sock[w].state # "free"
    /\ sock' = [sock EXCEPT ![w].state = "closing"]
    /\ shown' = [shown EXCEPT ![ItemOf(w)] = "error"]
    /\ UNCHANGED <<sockets, rec, connects, overwritten, told>>

(* The close event clears rec.ws, whichever socket rec.ws names by now.    *)
SocketCloses(w) ==
    /\ sock[w].state # "free"
    /\ sock' = [sock EXCEPT ![w] = Free]
    /\ LET r == sock[w].rec IN
        IF rec[r].stopped
        THEN rec' = Closed(r) /\ UNCHANGED <<overwritten, shown>>
        ELSE ScheduleReconnect(rec[r].item, Closed(r))
    /\ UNCHANGED <<sockets, connects, told>>
-----------------------------------------------------------------------------
(* rec.stopped = true and clearTimeout, for the records being stopped.     *)
Halted(stopping) ==
    [r \in Recs |-> IF r \in stopping
                    THEN [rec[r] EXCEPT !.stopped = TRUE, !.timer = FALSE]
                    ELSE rec[r]]

(* rec.ws?.close(), for the records being stopped.                         *)
ClosedByNothing(stopping) == sock   \* mutant: the socket is not closed

ClosedBy(stopping) ==
    [w \in Socks |-> IF \E r \in stopping : rec[r].ws = w
                     THEN [sock[w] EXCEPT !.state = "closing"]
                     ELSE sock[w]]

(* stopSearch for every item of `gone` at once: one item from the renderer, *)
(* all of them from stopAll at quit.                                       *)
StopSearches(gone) ==
    /\ gone # {} /\ gone \subseteq Active(sockets)
    /\ LET stopping == {sockets[i] : i \in gone} IN
        /\ StopDuringConnect \/ \A c \in connects : c.rec \notin stopping
        /\ rec' = Halted(stopping)
        /\ sock' = ClosedBy(stopping)
    /\ sockets' = [i \in Items |-> IF i \in gone THEN None ELSE sockets[i]]
    /\ emitState(sockets')
    /\ UNCHANGED <<connects, overwritten, shown>>

stopSearch(i) == StopSearches({i})

stopAll == StopSearches(Active(sockets))

Next ==
    \/ \E i \in Items, s \in Searches : StartSearch(i, s)
    \/ \E c \in connects : ConnectCreates(c) \/ ConnectFails(c)
    \/ \E i \in Items : TimerFires(i) \/ OverwrittenTimerFires(i) \/ stopSearch(i)
    \/ stopAll
    \/ \E w \in Socks :
        \/ SocketOpens(w) \/ SocketErrors(w) \/ SocketCloses(w)
        \/ \E label \in {"auth", "error"} : HandshakeRejected(w, label)

Spec == Init /\ [][Next]_vars

(* Promises settle, timeouts fire, no connection or closing handshake      *)
(* lasts for ever; a connect tried again and again succeeds in the end.    *)
Connects(r, Step(_)) == \E c \in connects : c.rec = r /\ Step(c)

Fairness ==
    /\ \A r \in Recs : /\ WF_vars(Connects(r, ConnectCreates) \/ Connects(r, ConnectFails))
                       /\ SF_vars(Connects(r, ConnectCreates))
    /\ \A i \in Items : WF_vars(TimerFires(i)) /\ WF_vars(OverwrittenTimerFires(i))
    /\ \A w \in Socks : SF_vars(SocketOpens(w)) /\ WF_vars(SocketCloses(w))

FairSpec == Spec /\ Fairness
-----------------------------------------------------------------------------
(* A search the Map holds is never stranded: a _connect, a socket or a     *)
(* timer is always about to move it on, whatever stops, restarts, failures *)
(* and orphaned callbacks came before.                                     *)
InHand(i) ==
    LET r == sockets[i] IN
    \/ \E c \in connects : c.rec = r
    \/ \E w \in Socks : sock[w].rec = r
    \/ rec[r].timer
    \/ i \in overwritten

NeverStranded == \A i \in Items : sockets[i] # None => InHand(i)

(* The handlers test rec.stopped, the timers and the messages test the Map: *)
(* the two tests always agree for everything still holding a record.       *)
StoppedAgreesWithMap ==
    \A r \in Recs : (~rec[r].stopped) <=> (\E i \in Items : sockets[i] = r /\ rec[r].item = i)

(* A record's reference is good: stopSearch closes a socket of its own     *)
(* record, never a recycled one.                                           *)
ReferenceIsOwn ==
    \A r \in Recs : rec[r].ws # None => sock[rec[r].ws].rec = r

(* GGG allows MAX_SOCKETS live searches; every socket not yet told to      *)
(* close counts against it.                                                *)
Holding == {w \in Socks : sock[w].state \in {"connecting", "open"}}

(* Every socket left open belongs to a search somebody can still stop.     *)
NoLeakedSocket ==
    \A w \in Holding : LET r == sock[w].rec IN ~rec[r].stopped /\ rec[r].ws = w

(* "GGG closes excess live searches": the cap on the Map caps the sockets. *)
SocketsWithinCap == Cardinality(Holding) <= MAX_SOCKETS

(* The sockets GGG counts are those the user sees and can stop, and no     *)
(* more of them than it allows (engine.js).                                *)
SocketsAreCounted == NoLeakedSocket /\ SocketsWithinCap

(* A row the renderer counts as active and labels live has an open socket. *)
LiveLabelTruthful ==
    \A i \in told : (sockets[i] # None /\ shown[i] = "live") =>
        \E w \in Socks : sock[w].rec = sockets[i] /\ sock[w].state = "open"

(* A search that stays on goes live, over any number of lost connections.  *)
Connected(i) == \E w \in Socks : sock[w].rec = sockets[i] /\ sock[w].state = "open"

GoesLive == \A i \in Items : sockets[i] # None ~> (Connected(i) \/ sockets[i] = None)

(* The engine implements the registry its caller relies on.                *)
REG == INSTANCE SearchRegistry WITH
    running <- [i \in Items |-> IF sockets[i] = None THEN None ELSE rec[sockets[i]].search],
    starting <- Cardinality({c \in connects : c.by = "start"})

ImplementsRegistry == REG!RegistrySpec
=============================================================================
