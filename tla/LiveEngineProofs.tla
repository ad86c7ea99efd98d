-------------------------- MODULE LiveEngineProofs --------------------------
(* The engine's bookkeeping, for any rows, records, sockets and caps, and  *)
(* with stops allowed at every moment: a search in the Map is never left   *)
(* without something that will move it on.                                 *)
EXTENDS LiveEngine, FiniteSetTheorems, TLAPS

(* The Map and the stopped flags agree, in both directions.                *)
MapAgrees ==
    /\ \A i \in Items : sockets[i] # None =>
          ~rec[sockets[i]].stopped /\ rec[sockets[i]].item = i
    /\ \A r \in Recs : ~rec[r].stopped =>
          rec[r].item \in Items /\ sockets[rec[r].item] = r

(* Whatever still holds a record holds one that was started; a free socket *)
(* holds none.                                                             *)
HeldRecordsAreNamed ==
    /\ \A c \in connects : rec[c.rec].item \in Items
    /\ \A w \in Socks : sock[w].state # "free" =>
          sock[w].rec \in Recs /\ rec[sock[w].rec].item \in Items
    /\ \A w \in Socks : sock[w].state = "free" => sock[w].rec = None

IInv == TypeOK /\ MapAgrees /\ HeldRecordsAreNamed /\ ReferenceIsOwn /\ NeverStranded

LEMMA InitIInv == Init => IInv
BY NoneAssumption, BackoffAssumption
DEF Init, IInv, TypeOK, MapAgrees, HeldRecordsAreNamed, ReferenceIsOwn, NeverStranded,
    Blank, Free, Labels, Record, Socket

LEMMA StartKeeps ==
  ASSUME IInv, NEW i \in Items, NEW s \in Searches, StartSearch(i, s)
  PROVE  IInv'
<1> USE NoneAssumption, BackoffAssumption
<1>1. PICK r \in Recs :
        /\ Unreferenced(r)
        /\ sockets' = [sockets EXCEPT ![i] = r]
        /\ rec' = [rec EXCEPT ![r] = [item |-> i, search |-> s, ws |-> None,
                     attempts |-> 0, stopped |-> FALSE, timer |-> FALSE]]
        /\ connects' = connects \cup {[rec |-> r, by |-> "start"]}
  BY DEF StartSearch, Blank
<1>2. UNCHANGED <<overwritten, sock, told>> /\ shown' = [shown EXCEPT ![i] = "connecting"]
  BY DEF StartSearch
<1>3. TypeOK'
  BY <1>1, <1>2 DEF IInv, TypeOK, Labels, Record
<1>4. MapAgrees'
  BY <1>1, <1>2 DEF IInv, TypeOK, MapAgrees, Unreferenced, StartSearch, Record
<1>5. HeldRecordsAreNamed'
  BY <1>1, <1>2 DEF IInv, TypeOK, HeldRecordsAreNamed, Unreferenced, Record
<1>7. ReferenceIsOwn'
  BY <1>1, <1>2 DEF IInv, TypeOK, ReferenceIsOwn
<1>6. NeverStranded'
  <2> SUFFICES ASSUME NEW j \in Items, sockets'[j] # None
               PROVE  InHand(j)'
    BY DEF NeverStranded
  <2>1. CASE j = i
    <3>1. sockets'[j] = r /\ [rec |-> r, by |-> "start"] \in connects'
      BY <1>1, <2>1 DEF IInv, TypeOK
    <3> QED
      BY <3>1 DEF InHand
  <2>2. CASE j # i
    <3>1. sockets'[j] = sockets[j] /\ sockets[j] \in Recs /\ sockets[j] # r
      BY <1>1, <2>2 DEF IInv, TypeOK, Unreferenced
    <3>2. rec'[sockets[j]] = rec[sockets[j]] /\ connects \subseteq connects'
      BY <1>1, <3>1 DEF IInv, TypeOK
    <3>3. InHand(j)
      BY <3>1 DEF IInv, NeverStranded
    <3> QED
      BY <1>2, <3>1, <3>2, <3>3 DEF InHand
  <2> QED
    BY <2>1, <2>2
<1> QED
  BY <1>3, <1>4, <1>5, <1>6, <1>7 DEF IInv

LEMMA CreateKeeps ==
  ASSUME IInv, NEW c \in connects, ConnectCreates(c)
  PROVE  IInv'
<1> USE NoneAssumption
<1>1. PICK w \in Socks :
        /\ sock[w] = Free
        /\ sock' = [sock EXCEPT ![w] = [state |-> "connecting", rec |-> c.rec]]
        /\ rec' = [rec EXCEPT ![c.rec].ws = w]
  BY DEF ConnectCreates
<1>2. /\ connects' = connects \ {c}
      /\ UNCHANGED <<sockets, overwritten, shown>>
      /\ told' \subseteq Items
  BY DEF ConnectCreates, AnnounceAfter, emitState, Active, IInv, TypeOK
<1>3. c.rec \in Recs
  BY DEF IInv, TypeOK
<1>4. TypeOK'
  <2>1. sock' \in [Socks -> Socket]
    BY <1>1, <1>3 DEF IInv, TypeOK, Socket
  <2>2. [rec[c.rec] EXCEPT !.ws = w] \in Record
    BY <1>3 DEF IInv, TypeOK, Record
  <2>3. rec' \in [Recs -> Record]
    BY <1>1, <2>2 DEF IInv, TypeOK
  <2> QED
    BY <1>2, <2>1, <2>3 DEF IInv, TypeOK
<1>5. MapAgrees' /\ HeldRecordsAreNamed'
  BY <1>1, <1>2, <1>3 DEF IInv, TypeOK, MapAgrees, HeldRecordsAreNamed, Record, Socket
<1>6. NeverStranded'
  BY <1>1, <1>2, <1>3 DEF IInv, TypeOK, NeverStranded, InHand, Free
<1>7. ReferenceIsOwn'
  BY <1>1, <1>3 DEF IInv, TypeOK, ReferenceIsOwn, Free, Record
<1> QED
  BY <1>4, <1>5, <1>6, <1>7 DEF IInv

(* What rescheduling does to the fields the invariant reads.               *)
LEMMA ScheduleEffect ==
  ASSUME IInv, NEW i \in Items, NEW rs \in [Recs -> Record], UNCHANGED sockets,
         \A r \in Recs : /\ rs[r].item = rec[r].item
                         /\ rs[r].stopped = rec[r].stopped
                         /\ rs[r].timer = rec[r].timer,
         ScheduleReconnect(i, rs)
  PROVE  /\ rec' \in [Recs -> Record]
         /\ overwritten' \subseteq Items /\ overwritten \subseteq overwritten'
         /\ shown' \in [Items -> Labels]
         /\ \A r \in Recs : /\ rec'[r].item = rec[r].item
                            /\ rec'[r].stopped = rec[r].stopped
                            /\ rec'[r].ws = rs[r].ws
                            /\ rec[r].timer => rec'[r].timer
         /\ sockets[i] # None => rec'[sockets[i]].timer
<1> USE NoneAssumption, BackoffAssumption
<1>1. CASE Current(i, rs)
  <2>1. sockets[i] \in Recs
    BY <1>1 DEF Current, IInv, TypeOK
  <2>2. rec' = [rs EXCEPT ![sockets[i]].attempts = Another(@), ![sockets[i]].timer = TRUE]
    BY <1>1 DEF ScheduleReconnect
  <2>3. Another(rs[sockets[i]].attempts) \in 0..AttemptCap
    BY <2>1 DEF Another, Record
  <2>4. [rs[sockets[i]] EXCEPT !.attempts = Another(@), !.timer = TRUE] \in Record
    <3> DEFINE old == rs[sockets[i]]
               a == Another(old.attempts)
    <3>1. old \in Record /\ a \in 0..AttemptCap
      BY <2>1, <2>3
    <3> HIDE DEF old, a
    <3>2. [old EXCEPT !.attempts = a, !.timer = TRUE] \in Record
      BY <3>1 DEF Record
    <3> QED
      BY <3>2 DEF old, a
  <2>5. rec' = [rs EXCEPT ![sockets[i]] =
                  [rs[sockets[i]] EXCEPT !.attempts = Another(@), !.timer = TRUE]]
    BY <2>1, <2>2 DEF Record
  <2>6. rec' \in [Recs -> Record]
    BY <2>4, <2>5
  <2>7. \A r \in Recs : /\ rec'[r].item = rec[r].item
                        /\ rec'[r].stopped = rec[r].stopped
                        /\ rec'[r].ws = rs[r].ws
                        /\ rec[r].timer => rec'[r].timer
    BY <2>1, <2>5 DEF Record
  <2>8. rec'[sockets[i]].timer
    BY <2>1, <2>5 DEF Record
  <2>9. /\ overwritten' \subseteq Items /\ overwritten \subseteq overwritten'
        /\ shown' \in [Items -> Labels]
    BY <1>1 DEF ScheduleReconnect, LabelReconnecting, IInv, TypeOK, Labels
  <2> QED
    BY <2>6, <2>7, <2>8, <2>9
<1>2. CASE ~Current(i, rs)
  <2>1. rec' = rs /\ UNCHANGED <<overwritten, shown>>
    BY <1>2 DEF ScheduleReconnect
  <2>2. sockets[i] = None
    BY <1>2 DEF Current, IInv, TypeOK, MapAgrees
  <2> QED
    BY <2>1, <2>2 DEF IInv, TypeOK
<1> QED
  BY <1>1, <1>2

LEMMA FailKeeps ==
  ASSUME IInv, NEW c \in connects, ConnectFails(c)
  PROVE  IInv'
<1> USE NoneAssumption
<1>1. c.rec \in Recs /\ rec[c.rec].item \in Items
  BY DEF IInv, TypeOK, HeldRecordsAreNamed
<1>2. /\ connects' = connects \ {c}
      /\ UNCHANGED <<sockets, sock>>
      /\ ScheduleReconnect(rec[c.rec].item, rec)
      /\ told' \subseteq Items
  BY DEF ConnectFails, AnnounceAfter, emitState, Active, IInv, TypeOK
<1>3. /\ rec' \in [Recs -> Record]
      /\ overwritten' \subseteq Items /\ overwritten \subseteq overwritten'
      /\ shown' \in [Items -> Labels]
      /\ \A r \in Recs : /\ rec'[r].item = rec[r].item
                         /\ rec'[r].stopped = rec[r].stopped
                         /\ rec'[r].ws = rec[r].ws
                         /\ rec[r].timer => rec'[r].timer
      /\ sockets[rec[c.rec].item] # None => rec'[sockets[rec[c.rec].item]].timer
  BY <1>1, <1>2, ScheduleEffect DEF IInv, TypeOK
<1>4. TypeOK'
  BY <1>2, <1>3 DEF IInv, TypeOK
<1>5. MapAgrees' /\ HeldRecordsAreNamed' /\ ReferenceIsOwn'
  BY <1>2, <1>3 DEF IInv, TypeOK, MapAgrees, HeldRecordsAreNamed, ReferenceIsOwn
<1>6. NeverStranded'
  <2> SUFFICES ASSUME NEW j \in Items, sockets[j] # None
               PROVE  InHand(j)'
    BY <1>2 DEF NeverStranded
  <2>1. sockets[j] \in Recs /\ rec[sockets[j]].item = j /\ InHand(j)
    BY DEF IInv, TypeOK, MapAgrees, NeverStranded
  <2>2. CASE sockets[j] = c.rec
    BY <1>2, <1>3, <2>1, <2>2 DEF InHand
  <2>3. CASE sockets[j] # c.rec
    BY <1>2, <1>3, <2>1, <2>3 DEF InHand
  <2> QED
    BY <2>2, <2>3
<1> QED
  BY <1>4, <1>5, <1>6 DEF IInv

(* What the two updates of a record leave alone.                           *)
LEMMA TimerCleared ==
  ASSUME NEW f \in [Recs -> Record], NEW q \in Recs
  PROVE  \A r \in Recs :
            LET g == [f EXCEPT ![q].timer = FALSE] IN
            /\ g[r].item = f[r].item /\ g[r].search = f[r].search
            /\ g[r].stopped = f[r].stopped /\ g[r].ws = f[r].ws
            /\ r # q => g[r].timer = f[r].timer
<1>1. \A x \in Record : LET y == [x EXCEPT !.timer = FALSE] IN
        y.item = x.item /\ y.search = x.search /\ y.stopped = x.stopped /\ y.ws = x.ws
  BY DEF Record
<1> QED
  BY <1>1

LEMMA HaltedKeeps ==
  ASSUME NEW f \in [Recs -> Record], NEW S
  PROVE  \A r \in Recs :
            LET x == IF r \in S THEN [f[r] EXCEPT !.stopped = TRUE, !.timer = FALSE] ELSE f[r]
            IN  x.search = f[r].search /\ (f[r].stopped => x.stopped)
<1>1. \A x \in Record : LET y == [x EXCEPT !.stopped = TRUE, !.timer = FALSE] IN
        y.search = x.search /\ y.stopped
  BY DEF Record
<1> QED
  BY <1>1

LEMMA TimerKeeps ==
  ASSUME IInv, NEW i \in Items, TimerFires(i)
  PROVE  IInv'
<1> USE NoneAssumption
<1>1. /\ sockets[i] \in Recs
      /\ rec' = [rec EXCEPT ![sockets[i]].timer = FALSE]
      /\ connects' = connects \cup {[rec |-> sockets[i], by |-> "timer"]}
      /\ UNCHANGED <<sockets, overwritten, sock, told, shown>>
  BY DEF TimerFires, IInv, TypeOK
<1>2. [rec[sockets[i]] EXCEPT !.timer = FALSE] \in Record
  <2>1. \A x \in Record : [x EXCEPT !.timer = FALSE] \in Record
    BY DEF Record
  <2> QED
    BY <1>1, <2>1 DEF IInv, TypeOK
<1>3. TypeOK'
  <2>1. rec' \in [Recs -> Record]
    BY <1>1, <1>2 DEF IInv, TypeOK
  <2> QED
    BY <1>1, <2>1 DEF IInv, TypeOK
<1>4. \A r \in Recs : /\ rec'[r].item = rec[r].item
                      /\ rec'[r].stopped = rec[r].stopped
                      /\ rec'[r].ws = rec[r].ws
                      /\ r # sockets[i] => rec'[r].timer = rec[r].timer
  BY <1>1, TimerCleared DEF IInv, TypeOK
<1>5. MapAgrees' /\ HeldRecordsAreNamed' /\ ReferenceIsOwn'
  BY <1>1, <1>4 DEF IInv, TypeOK, MapAgrees, HeldRecordsAreNamed, ReferenceIsOwn
<1>6. NeverStranded'
  <2> SUFFICES ASSUME NEW j \in Items, sockets[j] # None
               PROVE  InHand(j)'
    BY <1>1 DEF NeverStranded
  <2>1. sockets[j] \in Recs /\ InHand(j)
    BY DEF IInv, TypeOK, NeverStranded
  <2>2. CASE sockets[j] = sockets[i]
    <3>1. [rec |-> sockets[i], by |-> "timer"] \in connects'
      BY <1>1
    <3> QED
      BY <1>1, <2>2, <3>1 DEF InHand
  <2>3. CASE sockets[j] # sockets[i]
    BY <1>1, <1>4, <2>1, <2>3 DEF InHand
  <2> QED
    BY <2>2, <2>3
<1> QED
  BY <1>3, <1>5, <1>6 DEF IInv

LEMMA OverwrittenTimerKeeps ==
  ASSUME IInv, NEW i \in Items, OverwrittenTimerFires(i)
  PROVE  IInv'
<1> USE NoneAssumption
<1>1. /\ overwritten' = overwritten \ {i}
      /\ UNCHANGED <<sockets, rec, sock, told, shown>>
  BY DEF OverwrittenTimerFires
<1>2. CASE Current(i, rec)
  <2>1. /\ connects' = connects \cup {[rec |-> sockets[i], by |-> "timer"]}
        /\ sockets[i] \in Recs
    BY <1>2 DEF OverwrittenTimerFires, Current, IInv, TypeOK
  <2>2. TypeOK' /\ MapAgrees' /\ HeldRecordsAreNamed' /\ ReferenceIsOwn'
    BY <1>1, <2>1 DEF IInv, TypeOK, MapAgrees, HeldRecordsAreNamed, ReferenceIsOwn
  <2>3. NeverStranded'
    <3> SUFFICES ASSUME NEW j \in Items, sockets[j] # None
                 PROVE  InHand(j)'
      BY <1>1 DEF NeverStranded
    <3>1. InHand(j)
      BY DEF IInv, NeverStranded
    <3>2. CASE j = i
      <4>1. [rec |-> sockets[i], by |-> "timer"] \in connects'
        BY <2>1
      <4> QED
        BY <1>1, <3>2, <4>1 DEF InHand
    <3>3. CASE j # i
      BY <1>1, <2>1, <3>1, <3>3 DEF InHand
    <3> QED
      BY <3>2, <3>3
  <2> QED
    BY <2>2, <2>3 DEF IInv
<1>3. CASE ~Current(i, rec)
  <2>1. connects' = connects /\ sockets[i] = None
    BY <1>3 DEF OverwrittenTimerFires, Current, IInv, TypeOK, MapAgrees
  <2>2. TypeOK' /\ MapAgrees' /\ HeldRecordsAreNamed' /\ ReferenceIsOwn'
    BY <1>1, <2>1 DEF IInv, TypeOK, MapAgrees, HeldRecordsAreNamed, ReferenceIsOwn
  <2>3. NeverStranded'
    BY <1>1, <2>1 DEF IInv, NeverStranded, InHand
  <2> QED
    BY <2>2, <2>3 DEF IInv
<1> QED
  BY <1>2, <1>3

LEMMA OpenKeeps ==
  ASSUME IInv, NEW w \in Socks, SocketOpens(w)
  PROVE  IInv'
<1> USE NoneAssumption, BackoffAssumption
<1>1. /\ sock[w].state = "connecting" /\ sock[w].rec \in Recs /\ ItemOf(w) \in Items
      /\ sock' = [sock EXCEPT ![w].state = "open"]
      /\ rec' = [rec EXCEPT ![sock[w].rec].attempts = 0]
      /\ shown' = [shown EXCEPT ![ItemOf(w)] = "live"]
      /\ told' \subseteq Items
      /\ UNCHANGED <<sockets, connects, overwritten>>
  BY DEF SocketOpens, Opened, emitState, Active, ItemOf, IInv, TypeOK, HeldRecordsAreNamed
<1>2. TypeOK'
  <2>1. [rec[sock[w].rec] EXCEPT !.attempts = 0] \in Record
    BY <1>1 DEF IInv, TypeOK, Record
  <2>2. rec' \in [Recs -> Record]
    BY <1>1, <2>1 DEF IInv, TypeOK
  <2>3. sock' \in [Socks -> Socket]
    BY <1>1 DEF IInv, TypeOK, Socket
  <2>4. shown' \in [Items -> Labels]
    BY <1>1 DEF IInv, TypeOK, Labels
  <2> QED
    BY <1>1, <2>2, <2>3, <2>4 DEF IInv, TypeOK
<1>3. \A r \in Recs : /\ rec'[r].item = rec[r].item
                      /\ rec'[r].stopped = rec[r].stopped
                      /\ rec'[r].timer = rec[r].timer
                      /\ rec'[r].ws = rec[r].ws
  BY <1>1 DEF IInv, TypeOK, Record
<1>4. \A v \in Socks : sock'[v].rec = sock[v].rec
  BY <1>1 DEF IInv, TypeOK, Socket
<1>5. \A v \in Socks : sock'[v].state = "free" <=> sock[v].state = "free"
  BY <1>1 DEF IInv, TypeOK, Socket
<1>6. MapAgrees' /\ HeldRecordsAreNamed' /\ ReferenceIsOwn'
  BY <1>1, <1>3, <1>4, <1>5
  DEF IInv, TypeOK, MapAgrees, HeldRecordsAreNamed, ReferenceIsOwn, Record
<1>7. NeverStranded'
  BY <1>1, <1>3, <1>4 DEF IInv, TypeOK, NeverStranded, InHand
<1> QED
  BY <1>2, <1>6, <1>7 DEF IInv

(* A rejected handshake and an error event do the same to the invariant.   *)
LEMMA ClosingKeeps ==
  ASSUME IInv, NEW w \in Socks, NEW label \in Labels, sock[w].state # "free",
         sock' = [sock EXCEPT ![w].state = "closing"],
         shown' = [shown EXCEPT ![ItemOf(w)] = label],
         UNCHANGED <<sockets, rec, connects, overwritten, told>>
  PROVE  IInv'
<1> USE NoneAssumption
<1>1. sock' \in [Socks -> Socket] /\ shown' \in [Items -> Labels]
  BY DEF IInv, TypeOK, Socket
<1>2. TypeOK'
  BY <1>1 DEF IInv, TypeOK
<1>3. \A v \in Socks : /\ sock'[v].rec = sock[v].rec
                       /\ sock'[v].state = "free" <=> sock[v].state = "free"
  BY DEF IInv, TypeOK, Socket
<1>4. MapAgrees' /\ HeldRecordsAreNamed' /\ NeverStranded'
  BY <1>3 DEF IInv, MapAgrees, HeldRecordsAreNamed, NeverStranded, InHand
<1>5. ReferenceIsOwn'
  BY <1>3 DEF IInv, TypeOK, ReferenceIsOwn, Record
<1> QED
  BY <1>2, <1>4, <1>5 DEF IInv

LEMMA CloseKeeps ==
  ASSUME IInv, NEW w \in Socks, SocketCloses(w)
  PROVE  IInv'
<1> USE NoneAssumption
<1> DEFINE r == sock[w].rec
<1>1. /\ r \in Recs /\ rec[r].item \in Items
      /\ sock' = [sock EXCEPT ![w] = Free]
      /\ UNCHANGED <<sockets, connects, told>>
  BY DEF SocketCloses, IInv, HeldRecordsAreNamed
<1>2. [rec[r] EXCEPT !.ws = None] \in Record
  BY <1>1 DEF IInv, TypeOK, Record
<1>3. /\ Closed(r) \in [Recs -> Record]
      /\ \A q \in Recs : /\ Closed(r)[q].item = rec[q].item
                         /\ Closed(r)[q].stopped = rec[q].stopped
                         /\ Closed(r)[q].timer = rec[q].timer
                         /\ Closed(r)[q].ws = IF q = r THEN None ELSE rec[q].ws
  BY <1>1, <1>2 DEF Closed, IInv, TypeOK, Record
<1>4. /\ rec' \in [Recs -> Record]
      /\ overwritten' \subseteq Items /\ overwritten \subseteq overwritten'
      /\ shown' \in [Items -> Labels]
      /\ \A q \in Recs : /\ rec'[q].item = rec[q].item
                         /\ rec'[q].stopped = rec[q].stopped
                         /\ rec'[q].ws = Closed(r)[q].ws
                         /\ rec[q].timer => rec'[q].timer
      /\ ~rec[r].stopped /\ sockets[rec[r].item] # None
            => rec'[sockets[rec[r].item]].timer
  <2>1. CASE rec[r].stopped
    BY <1>3, <2>1 DEF SocketCloses, IInv, TypeOK
  <2>2. CASE ~rec[r].stopped
    <3>1. ScheduleReconnect(rec[r].item, Closed(r))
      BY <2>2 DEF SocketCloses
    <3> HIDE DEF r
    <3> QED
      BY <1>1, <1>3, <3>1, ScheduleEffect
  <2> QED
    BY <2>1, <2>2
<1>5. sock' \in [Socks -> Socket]
  BY <1>1 DEF Free, IInv, TypeOK, Socket
<1>6. TypeOK'
  BY <1>1, <1>4, <1>5 DEF IInv, TypeOK
<1>7. MapAgrees'
  BY <1>1, <1>4 DEF IInv, TypeOK, MapAgrees
<1>8. HeldRecordsAreNamed'
  BY <1>1, <1>4 DEF Free, IInv, TypeOK, HeldRecordsAreNamed
<1>10. ReferenceIsOwn'
  BY <1>1, <1>3, <1>4 DEF IInv, TypeOK, ReferenceIsOwn, Record
<1>9. NeverStranded'
  <2> SUFFICES ASSUME NEW j \in Items, sockets[j] # None
               PROVE  InHand(j)'
    BY <1>1 DEF NeverStranded
  <2>1. /\ sockets[j] \in Recs /\ rec[sockets[j]].item = j /\ ~rec[sockets[j]].stopped
        /\ InHand(j)
    BY DEF IInv, TypeOK, MapAgrees, NeverStranded
  <2>2. CASE sockets[j] = r
    BY <1>1, <1>4, <2>1, <2>2 DEF InHand
  <2>3. CASE sockets[j] # r
    <3>1. \A v \in Socks : sock[v].rec = sockets[j] => sock'[v].rec = sockets[j]
      BY <1>1, <2>3 DEF IInv, TypeOK
    <3> QED
      BY <1>1, <1>4, <2>1, <3>1 DEF InHand
  <2> QED
    BY <2>2, <2>3
<1> QED
  BY <1>6, <1>7, <1>8, <1>9, <1>10 DEF IInv

LEMMA StopKeeps ==
  ASSUME IInv, NEW gone \in SUBSET Items, StopSearches(gone)
  PROVE  IInv'
<1> USE NoneAssumption
<1>1. PICK stopping :
      /\ stopping = {sockets[i] : i \in gone}
      /\ rec' = Halted(stopping)
      /\ sock' = ClosedBy(stopping)
      /\ sockets' = [i \in Items |-> IF i \in gone THEN None ELSE sockets[i]]
      /\ told' \subseteq Items
      /\ UNCHANGED <<connects, overwritten, shown>>
  BY DEF StopSearches, emitState, Active
<1>2. \A i \in gone : sockets[i] \in Recs \cap stopping
  BY <1>1 DEF StopSearches, Active, IInv, TypeOK
<1>3. \A i \in Items \ gone : sockets[i] \notin stopping
  <2> SUFFICES ASSUME NEW i \in Items \ gone, NEW j \in gone, sockets[i] = sockets[j]
               PROVE  FALSE
    BY <1>1
  <2>1. rec[sockets[i]].item = i /\ rec[sockets[j]].item = j
    BY <1>2 DEF IInv, MapAgrees
  <2> QED
    BY <2>1
<1>4. stopping \subseteq Recs /\ \A r \in stopping : rec[r].item \in gone
  BY <1>1, <1>2 DEF IInv, MapAgrees
<1>5. rec' \in [Recs -> Record]
  <2>1. \A x \in Record : [x EXCEPT !.stopped = TRUE, !.timer = FALSE] \in Record
    BY DEF Record
  <2> QED
    BY <1>1, <2>1 DEF Halted, IInv, TypeOK
<1>6. \A r \in Recs : /\ rec'[r].item = rec[r].item
                      /\ rec'[r].ws = rec[r].ws
                      /\ r \in stopping => rec'[r].stopped
                      /\ r \notin stopping => rec'[r] = rec[r]
  BY <1>1 DEF Halted, IInv, TypeOK, Record
<1>7. sock' \in [Socks -> Socket]
  BY <1>1 DEF ClosedBy, IInv, TypeOK, Socket
<1>8. \A w \in Socks : sock'[w].rec = sock[w].rec
  BY <1>1 DEF ClosedBy, IInv, TypeOK, Socket
<1>9. \A w \in Socks : sock'[w].state = "free" <=> sock[w].state = "free"
  <2> SUFFICES ASSUME NEW w \in Socks, NEW r \in stopping, rec[r].ws = w
               PROVE  sock[w].state # "free" /\ sock'[w].state = "closing"
    BY <1>1 DEF ClosedBy, IInv, TypeOK, Socket
  <2>1. r \in Recs /\ sock[w].rec = r
    BY <1>4 DEF IInv, ReferenceIsOwn
  <2>2. sock'[w] = [sock[w] EXCEPT !.state = "closing"]
    BY <1>1 DEF ClosedBy
  <2> QED
    BY <2>1, <2>2 DEF IInv, TypeOK, HeldRecordsAreNamed, Socket
<1>10. TypeOK'
  BY <1>1, <1>5, <1>7 DEF IInv, TypeOK
<1>11. UNCHANGED <<connects, overwritten>>
       /\ \A i \in Items : sockets'[i] = IF i \in gone THEN None ELSE sockets[i]
  BY <1>1
<1>12. MapAgrees'
  <2>1. ASSUME NEW i \in Items, sockets'[i] # None
        PROVE  ~rec'[sockets'[i]].stopped /\ rec'[sockets'[i]].item = i
    <3>1. i \notin gone /\ sockets'[i] = sockets[i] /\ sockets[i] \in Recs
      BY <1>11, <2>1 DEF IInv, TypeOK
    <3>2. rec'[sockets[i]] = rec[sockets[i]]
      BY <1>3, <1>6, <3>1
    <3> QED
      BY <2>1, <3>1, <3>2 DEF IInv, MapAgrees
  <2>2. ASSUME NEW r \in Recs, ~rec'[r].stopped
        PROVE  rec'[r].item \in Items /\ sockets'[rec'[r].item] = r
    <3>1. ~rec[r].stopped /\ r \notin stopping /\ rec'[r].item = rec[r].item
      BY <1>6, <2>2
    <3>2. rec[r].item \in Items /\ sockets[rec[r].item] = r
      BY <3>1 DEF IInv, MapAgrees
    <3>3. rec[r].item \notin gone
      BY <1>1, <3>1, <3>2
    <3> QED
      BY <1>11, <3>1, <3>2, <3>3
  <2> QED
    BY <2>1, <2>2 DEF MapAgrees
<1>13. HeldRecordsAreNamed'
  <2>1. ASSUME NEW c \in connects'
        PROVE  rec'[c.rec].item \in Items
    <3>1. c \in connects /\ c.rec \in Recs
      BY <1>11 DEF IInv, TypeOK
    <3> QED
      BY <1>6, <3>1 DEF IInv, HeldRecordsAreNamed
  <2>2. ASSUME NEW w \in Socks, sock'[w].state # "free"
        PROVE  sock'[w].rec \in Recs /\ rec'[sock'[w].rec].item \in Items
    BY <1>6, <1>8, <1>9, <2>2 DEF IInv, HeldRecordsAreNamed
  <2>3. ASSUME NEW w \in Socks, sock'[w].state = "free"
        PROVE  sock'[w].rec = None
    BY <1>8, <1>9, <2>3 DEF IInv, HeldRecordsAreNamed
  <2> QED
    BY <2>1, <2>2, <2>3 DEF HeldRecordsAreNamed
<1>14. ReferenceIsOwn'
  <2> SUFFICES ASSUME NEW r \in Recs, rec'[r].ws # None
               PROVE  sock'[rec'[r].ws].rec = r
    BY DEF ReferenceIsOwn
  <2>1. rec'[r].ws = rec[r].ws /\ rec[r].ws \in Socks
    BY <1>6 DEF IInv, TypeOK, Record
  <2> QED
    BY <1>8, <2>1 DEF IInv, ReferenceIsOwn
<1>15. NeverStranded'
  <2> SUFFICES ASSUME NEW j \in Items, sockets'[j] # None
               PROVE  InHand(j)'
    BY DEF NeverStranded
  <2>1. j \notin gone /\ sockets'[j] = sockets[j] /\ sockets[j] \in Recs
    BY <1>11 DEF IInv, TypeOK
  <2>2. rec'[sockets[j]] = rec[sockets[j]]
    BY <1>3, <1>6, <2>1
  <2>3. InHand(j)
    BY <2>1 DEF IInv, NeverStranded
  <2> QED
    BY <1>8, <1>11, <2>1, <2>2, <2>3 DEF InHand
<1> QED
  BY <1>10, <1>12, <1>13, <1>14, <1>15 DEF IInv

(* Every step keeps the invariant, one case per action.                    *)
LEMMA StepKeeps == IInv /\ [Next]_vars => IInv'
<1> SUFFICES ASSUME IInv, [Next]_vars
             PROVE  IInv'
  OBVIOUS
<1>1. CASE \E i \in Items, s \in Searches : StartSearch(i, s)
  BY <1>1, StartKeeps
<1>2. CASE \E c \in connects : ConnectCreates(c) \/ ConnectFails(c)
  BY <1>2, CreateKeeps, FailKeeps
<1>3. CASE \E i \in Items : TimerFires(i) \/ OverwrittenTimerFires(i)
  BY <1>3, TimerKeeps, OverwrittenTimerKeeps
<1>4. CASE (\E i \in Items : stopSearch(i)) \/ stopAll
  <2>1. PICK gone \in SUBSET Items : StopSearches(gone)
    BY <1>4 DEF stopSearch, stopAll, Active
  <2> QED
    BY <2>1, StopKeeps
<1>5. CASE \E w \in Socks : SocketOpens(w)
  BY <1>5, OpenKeeps
<1>6. CASE \E w \in Socks : SocketCloses(w)
  BY <1>6, CloseKeeps
<1>7. CASE \E w \in Socks : SocketErrors(w)
  BY <1>7, ClosingKeeps DEF SocketErrors, Labels
<1>8. CASE \E w \in Socks : \E label \in {"auth", "error"} : HandshakeRejected(w, label)
  BY <1>8, ClosingKeeps DEF HandshakeRejected, Labels
<1>9. CASE UNCHANGED vars
  BY <1>9 DEF vars, IInv, TypeOK, MapAgrees, HeldRecordsAreNamed, ReferenceIsOwn,
              NeverStranded, InHand
<1> QED
  BY <1>1, <1>2, <1>3, <1>4, <1>5, <1>6, <1>7, <1>8, <1>9 DEF Next

LEMMA EngineInvariant == Spec => []IInv
BY InitIInv, StepKeeps, PTL DEF Spec

(* Every variable of the engine keeps its type.                            *)
THEOREM EngineTypes == Spec => []TypeOK
<1>1. IInv => TypeOK
  BY DEF IInv
<1> QED
  BY <1>1, EngineInvariant, PTL

(* A search in the Map always has a _connect call, a socket or a timeout   *)
(* that will move it on.                                                   *)
THEOREM EngineNeverStrands == Spec => []NeverStranded
<1>1. IInv => NeverStranded
  BY DEF IInv
<1> QED
  BY <1>1, EngineInvariant, PTL

(* The handlers' test (rec.stopped) and the timers' test (the Map) agree.  *)
THEOREM EngineTestsAgree == Spec => []StoppedAgreesWithMap
<1>1. IInv => StoppedAgreesWithMap
  BY NoneAssumption DEF IInv, TypeOK, MapAgrees, StoppedAgreesWithMap
<1> QED
  BY <1>1, EngineInvariant, PTL

(* stopSearch closes a socket of the record it stops, never another one.   *)
THEOREM EngineClosesItsOwn == Spec => []ReferenceIsOwn
<1>1. IInv => ReferenceIsOwn
  BY DEF IInv
<1> QED
  BY <1>1, EngineInvariant, PTL
-----------------------------------------------------------------------------
(* The engine implements the registry.  A running record has a search, and *)
(* of the calls on their way only finitely many were started.              *)
Searching == \A r \in Recs : ~rec[r].stopped => rec[r].search \in Searches
RefInv == IInv /\ IsFiniteSet(connects) /\ Searching

Running == [i \in Items |-> IF sockets[i] = None THEN None ELSE rec[sockets[i]].search]
Starts == {c \in connects : c.by = "start"}

LEMMA SameCount == ASSUME NEW S PROVE REG!Cardinality(S) = Cardinality(S)
  BY DEF REG!Cardinality, Cardinality

LEMMA RunningIsActive ==
    /\ RefInv => REG!Active(Running) = Active(sockets)
    /\ RefInv' => REG!Active(Running)' = Active(sockets)'
<1>1. ASSUME RefInv PROVE REG!Active(Running) = Active(sockets)
  <2>1. \A i \in Items : sockets[i] # None => rec[sockets[i]].search # None
    BY <1>1, NoneAssumption DEF RefInv, IInv, TypeOK, MapAgrees, Searching
  <2> QED
    BY <2>1 DEF REG!Active, Active, Running
<1>2. ASSUME RefInv' PROVE REG!Active(Running)' = Active(sockets)'
  <2>1. \A i \in Items : sockets'[i] # None => rec'[sockets'[i]].search # None
    BY <1>2, NoneAssumption DEF RefInv, IInv, TypeOK, MapAgrees, Searching
  <2> QED
    BY <2>1 DEF REG!Active, Active, Running
<1> QED
  BY <1>1, <1>2

(* What a step does to the searches of the records.                        *)
LEMMA ScheduleKeepsSearches ==
  ASSUME NEW i \in Items, NEW rs \in [Recs -> Record], ScheduleReconnect(i, rs), sockets[i] \in Recs \cup {None}
  PROVE  \A r \in Recs : rec'[r].search = rs[r].search
<1>1. CASE Current(i, rs)
  <2>1. rec' = [rs EXCEPT ![sockets[i]].attempts = Another(@), ![sockets[i]].timer = TRUE] /\ sockets[i] \in Recs
    BY <1>1 DEF ScheduleReconnect, Current
  <2>2. rec' = [rs EXCEPT ![sockets[i]] = [rs[sockets[i]] EXCEPT !.attempts = Another(@), !.timer = TRUE]]
    BY <2>1 DEF Record
  <2> QED
    BY <2>1, <2>2 DEF Record
<1>2. CASE ~Current(i, rs)
  BY <1>2 DEF ScheduleReconnect
<1> QED
  BY <1>1, <1>2

Others ==
    \/ \E c \in connects : ConnectCreates(c) \/ ConnectFails(c)
    \/ \E i \in Items : TimerFires(i) \/ OverwrittenTimerFires(i)
    \/ \E w \in Socks :
        \/ SocketOpens(w) \/ SocketErrors(w) \/ SocketCloses(w)
        \/ \E label \in {"auth", "error"} : HandshakeRejected(w, label)

LEMMA OthersKeepSearches ==
  ASSUME IInv, Others
  PROVE  UNCHANGED sockets /\ \A r \in Recs : rec'[r].search = rec[r].search
<1>1. ASSUME NEW c \in connects, ConnectCreates(c) PROVE UNCHANGED sockets /\ \A r \in Recs : rec'[r].search = rec[r].search
  BY <1>1 DEF ConnectCreates, IInv, TypeOK, Record
<1>2. ASSUME NEW c \in connects, ConnectFails(c) PROVE UNCHANGED sockets /\ \A r \in Recs : rec'[r].search = rec[r].search
  <2>1. ScheduleReconnect(rec[c.rec].item, rec) /\ UNCHANGED sockets
    BY <1>2 DEF ConnectFails
  <2>2. rec[c.rec].item \in Items /\ rec \in [Recs -> Record] /\ sockets[rec[c.rec].item] \in Recs \cup {None}
    BY DEF IInv, TypeOK, HeldRecordsAreNamed
  <2> QED
    BY <2>1, <2>2, ScheduleKeepsSearches
<1>3. ASSUME NEW i \in Items, TimerFires(i) PROVE UNCHANGED sockets /\ \A r \in Recs : rec'[r].search = rec[r].search
  BY <1>3, NoneAssumption DEF TimerFires, IInv, TypeOK, Record
<1>4. ASSUME NEW i \in Items, OverwrittenTimerFires(i) PROVE UNCHANGED sockets /\ \A r \in Recs : rec'[r].search = rec[r].search
  BY <1>4 DEF OverwrittenTimerFires
<1>5. ASSUME NEW w \in Socks, SocketOpens(w) PROVE UNCHANGED sockets /\ \A r \in Recs : rec'[r].search = rec[r].search
  BY <1>5 DEF SocketOpens, Opened, IInv, TypeOK, Record
<1>6. ASSUME NEW w \in Socks, SocketCloses(w) PROVE UNCHANGED sockets /\ \A r \in Recs : rec'[r].search = rec[r].search
  <2> DEFINE q == sock[w].rec
  <2>1. UNCHANGED sockets /\ q \in Recs /\ rec[q].item \in Items /\ sockets[rec[q].item] \in Recs \cup {None}
    BY <1>6 DEF SocketCloses, IInv, TypeOK, HeldRecordsAreNamed
  <2>2. /\ Closed(q) \in [Recs -> Record] /\ \A r \in Recs : Closed(q)[r].search = rec[r].search
    <3>1. [rec[q] EXCEPT !.ws = None] \in Record
      BY <2>1 DEF IInv, TypeOK, Record
    <3> QED
      BY <2>1, <3>1 DEF Closed, IInv, TypeOK, Record
  <2>3. rec' = Closed(q) \/ ScheduleReconnect(rec[q].item, Closed(q))
    BY <1>6 DEF SocketCloses
  <2> HIDE DEF q
  <2> QED
    BY <2>1, <2>2, <2>3, ScheduleKeepsSearches
<1>7. ASSUME NEW w \in Socks, SocketErrors(w) \/ \E label \in {"auth", "error"} : HandshakeRejected(w, label)
      PROVE  UNCHANGED sockets /\ \A r \in Recs : rec'[r].search = rec[r].search
  BY <1>7 DEF SocketErrors, HandshakeRejected
<1> QED
  BY <1>1, <1>2, <1>3, <1>4, <1>5, <1>6, <1>7 DEF Others

LEMMA StartImplements ==
  ASSUME RefInv, NEW i \in Items, NEW s \in Searches, StartSearch(i, s)
  PROVE  REG!Start(i, s) /\ IsFiniteSet(connects)' /\ Searching'
<1>1. PICK r \in Recs :
        /\ Unreferenced(r)
        /\ sockets' = [sockets EXCEPT ![i] = r]
        /\ rec' = [rec EXCEPT ![r] = [item |-> i, search |-> s, ws |-> None,
                     attempts |-> 0, stopped |-> FALSE, timer |-> FALSE]]
        /\ connects' = connects \cup {[rec |-> r, by |-> "start"]}
  BY DEF StartSearch, Blank
<1>2. sockets[i] = None /\ Cardinality(Active(sockets)) < MAX_SOCKETS /\ UNCHANGED told
  BY DEF StartSearch
<1>3. IsFiniteSet(connects') /\ IsFiniteSet(Starts)
  BY <1>1, FS_AddElement, FS_Subset DEF RefInv, Starts
<1>4. Searching'
  BY <1>1 DEF RefInv, IInv, TypeOK, Searching
<1>5. Running' = [Running EXCEPT ![i] = s]
  <2>1. \A j \in Items : sockets'[j] = IF j = i THEN r ELSE sockets[j]
    BY <1>1 DEF RefInv, IInv, TypeOK
  <2>2. rec'[r].search = s /\ \A q \in Recs : q # r => rec'[q] = rec[q]
    BY <1>1 DEF RefInv, IInv, TypeOK
  <2>3. \A j \in Items : sockets[j] # r /\ sockets[j] \in Recs \cup {None}
    BY <1>1 DEF Unreferenced, RefInv, IInv, TypeOK
  <2> QED
    BY <2>1, <2>2, <2>3, NoneAssumption DEF Running
<1>6. Cardinality(Starts') = Cardinality(Starts) + 1
  <2> DEFINE c == [rec |-> r, by |-> "start"]
  <2>1. c \notin Starts
    BY <1>1 DEF Unreferenced, Starts
  <2>2. Starts' = Starts \cup {c}
    BY <1>1 DEF Starts
  <2> HIDE DEF c
  <2> QED
    BY <1>3, <2>1, <2>2, FS_AddElement
<1>7. Running[i] = None /\ REG!Cardinality(REG!Active(Running)) < MAX_SOCKETS
  BY <1>2, RunningIsActive, SameCount DEF Running
<1>8. REG!Start(i, s)
  <2>1. Running' = [Running EXCEPT ![i] = s] /\ UNCHANGED told
    BY <1>2, <1>5
  <2> QED
    BY <1>6, <1>7, <2>1 DEF REG!Start, Running, Starts
<1> QED
  BY <1>3, <1>4, <1>8

LEMMA StopImplements ==
  ASSUME RefInv, RefInv', NEW gone \in SUBSET Items, StopSearches(gone)
  PROVE  REG!Stop(gone)
<1>1. /\ gone # {} /\ gone \subseteq Active(sockets) /\ told' = Active(sockets') /\ UNCHANGED connects
      /\ sockets' = [i \in Items |-> IF i \in gone THEN None ELSE sockets[i]]
      /\ rec' = Halted({sockets[i] : i \in gone})
  BY DEF StopSearches, emitState
<1>2. \A r \in Recs : rec'[r].search = rec[r].search
  BY <1>1, HaltedKeeps DEF Halted, RefInv, IInv, TypeOK
<1>3. Running' = [i \in Items |-> IF i \in gone THEN None ELSE Running[i]]
  BY <1>1, <1>2 DEF Running, RefInv, IInv, TypeOK
<1>4. told' = REG!Active(Running)' /\ gone \subseteq REG!Active(Running)
  BY <1>1, RunningIsActive DEF Active
<1> QED
  BY <1>1, <1>3, <1>4 DEF REG!Stop, REG!Active, Running

(* A step that leaves the Map alone settles a start, announces, or is none *)
(* of the registry's.                                                      *)
LEMMA OthersImplement ==
  ASSUME RefInv, Others
  PROVE  /\ IsFiniteSet(connects)' /\ UNCHANGED Running
         /\ \/ told' = Active(sockets) /\ Starts # {} /\ Cardinality(Starts') = Cardinality(Starts) - 1
            \/ told' = Active(sockets) /\ UNCHANGED Starts
            \/ UNCHANGED <<told, Starts>>
<1>1. UNCHANGED Running
  BY OthersKeepSearches DEF RefInv, Running, IInv, TypeOK
<1>2. IsFiniteSet(Starts) /\ IsFiniteSet(connects)
  BY FS_Subset DEF RefInv, Starts
<1>3. ASSUME NEW c \in connects, ConnectCreates(c) \/ ConnectFails(c)
      PROVE  /\ IsFiniteSet(connects)'
             /\ \/ told' = Active(sockets) /\ Starts # {} /\ Cardinality(Starts') = Cardinality(Starts) - 1
                \/ UNCHANGED <<told, Starts>>
  <2>1. connects' = connects \ {c} /\ AnnounceAfter(c)
    BY <1>3 DEF ConnectCreates, ConnectFails
  <2>2. IsFiniteSet(connects')
    BY <1>2, <2>1, FS_RemoveElement
  <2>3. CASE c.by = "start"
    <3>1. c \in Starts /\ Starts' = Starts \ {c} /\ told' = Active(sockets)
      BY <2>1, <2>3 DEF Starts, AnnounceAfter, emitState
    <3> QED
      BY <1>2, <2>2, <3>1, FS_RemoveElement
  <2>4. CASE c.by # "start"
    BY <2>1, <2>2, <2>4 DEF Starts, AnnounceAfter
  <2> QED
    BY <2>3, <2>4
<1>4. ASSUME NEW i \in Items, TimerFires(i) \/ OverwrittenTimerFires(i)
      PROVE  IsFiniteSet(connects)' /\ UNCHANGED <<told, Starts>>
  <2>1. (connects' = connects \/ connects' = connects \cup {[rec |-> sockets[i], by |-> "timer"]}) /\ UNCHANGED told
    BY <1>4 DEF TimerFires, OverwrittenTimerFires
  <2>2. IsFiniteSet(connects')
    BY <1>2, <2>1, FS_AddElement
  <2> QED
    BY <2>1, <2>2 DEF Starts
<1>5. ASSUME NEW w \in Socks, SocketOpens(w)
      PROVE  UNCHANGED connects /\ told' = Active(sockets)
  BY <1>5 DEF SocketOpens, emitState
<1>6. ASSUME NEW w \in Socks, SocketErrors(w) \/ SocketCloses(w) \/ \E label \in {"auth", "error"} : HandshakeRejected(w, label)
      PROVE  UNCHANGED <<connects, told>>
  BY <1>6 DEF SocketErrors, SocketCloses, HandshakeRejected
<1> QED
  BY <1>1, <1>2, <1>3, <1>4, <1>5, <1>6 DEF Others, Starts

LEMMA RefSteps ==
  ASSUME RefInv, [Next]_vars
  PROVE  RefInv' /\ [REG!RegistryNext]_(REG!regVars)
<1>0. IInv /\ IInv'
  BY StepKeeps DEF RefInv
<1>1. CASE UNCHANGED vars
  BY <1>0, <1>1 DEF vars, RefInv, Searching, REG!regVars
<1>2. ASSUME NEW i \in Items, NEW s \in Searches, StartSearch(i, s)
      PROVE  RefInv' /\ REG!RegistryNext
  BY <1>0, <1>2, StartImplements DEF RefInv, REG!RegistryNext
<1>3. ASSUME NEW gone \in SUBSET Items, StopSearches(gone)
      PROVE  RefInv' /\ REG!RegistryNext
  <2>1. \A r \in Recs : rec'[r].search = rec[r].search /\ (rec[r].stopped => rec'[r].stopped)
    BY <1>0, <1>3, HaltedKeeps DEF StopSearches, Halted, IInv, TypeOK
  <2>2. RefInv'
    BY <1>0, <1>3, <2>1 DEF RefInv, Searching, StopSearches
  <2> QED
    BY <1>3, <2>2, StopImplements DEF REG!RegistryNext
<1>4. CASE Others
  <2>1. \A r \in Recs : rec'[r].search = rec[r].search
    BY <1>0, <1>4, OthersKeepSearches
  <2>2. Searching'
    <3> SUFFICES ASSUME NEW r \in Recs, ~rec'[r].stopped PROVE rec'[r].search \in Searches
      BY DEF Searching
    <3>1. sockets'[rec'[r].item] = r /\ rec'[r].item \in Items /\ UNCHANGED sockets
      BY <1>0, <1>4, OthersKeepSearches DEF IInv, MapAgrees
    <3>2. ~rec[r].stopped
      BY <1>0, <3>1, NoneAssumption DEF IInv, TypeOK, MapAgrees
    <3> QED
      BY <2>1, <3>2 DEF RefInv, Searching
  <2>3. RefInv'
    BY <1>0, <1>4, <2>2, OthersImplement DEF RefInv
  <2>4. UNCHANGED Running /\ REG!Active(Running) = Active(sockets) /\ IsFiniteSet(Starts)
    BY <1>4, OthersImplement, RunningIsActive, FS_Subset DEF RefInv, Starts
  <2>5. CASE told' = Active(sockets) /\ Starts # {} /\ Cardinality(Starts') = Cardinality(Starts) - 1
    <3>1. Cardinality(Starts) > 0
      BY <2>4, <2>5, FS_EmptySet, FS_CardinalityType
    <3> QED
      BY <2>3, <2>4, <2>5, <3>1 DEF REG!RegistryNext, REG!Settle, Running, Starts
  <2>6. CASE told' = Active(sockets) /\ UNCHANGED Starts
    BY <2>3, <2>4, <2>6 DEF REG!RegistryNext, REG!Announce, Running, Starts
  <2>7. CASE UNCHANGED <<told, Starts>>
    BY <2>3, <2>4, <2>7 DEF REG!regVars, Running, Starts
  <2> QED
    BY <1>4, <2>5, <2>6, <2>7, OthersImplement
<1>5. CASE (\E i \in Items : stopSearch(i)) \/ stopAll
  <2>1. PICK gone \in SUBSET Items : StopSearches(gone)
    BY <1>5 DEF stopSearch, stopAll, Active
  <2> QED
    BY <1>3, <2>1
<1> QED
  BY <1>1, <1>2, <1>4, <1>5 DEF Next, Others

(* Sockets, timeouts and orphaned callbacks included, the engine does only *)
(* what the registry its caller relies on may do (engine.js).              *)
THEOREM EngineImplementsRegistry == Spec => ImplementsRegistry
<1>1. Init => RefInv /\ REG!RegistryInit
  <2> SUFFICES ASSUME Init PROVE RefInv /\ REG!RegistryInit
    OBVIOUS
  <2>1. IInv
    BY InitIInv
  <2>2. connects = {} /\ IsFiniteSet(connects) /\ Searching
    BY FS_EmptySet DEF Init, Searching, Blank
  <2>3. Cardinality({c \in connects : c.by = "start"}) = 0
    <3>1. {c \in connects : c.by = "start"} = {}
      BY <2>2
    <3> QED
      BY <3>1, FS_EmptySet
  <2> QED
    BY <2>1, <2>2, <2>3 DEF Init, RefInv, REG!RegistryInit
<1>2. RefInv /\ [Next]_vars => RefInv' /\ [REG!RegistryNext]_(REG!regVars)
  BY RefSteps
<1> QED
  BY <1>1, <1>2, PTL DEF Spec, ImplementsRegistry, REG!RegistrySpec
-----------------------------------------------------------------------------
(* When no stop comes while a _connect is suspended, one thing at a time   *)
(* moves a running search on, and a stopped one has only a closing socket. *)
OneConnect == \A c, d \in connects : c.rec = d.rec => c = d
ConnectsAlone ==
    \A c \in connects : /\ ~rec[c.rec].stopped /\ ~rec[c.rec].timer
                        /\ \A w \in Socks : sock[w].rec # c.rec
SocketAlone ==
    \A w \in Socks : sock[w].state # "free" =>
        IF rec[sock[w].rec].stopped THEN sock[w].state = "closing"
        ELSE rec[sock[w].rec].ws = w /\ ~rec[sock[w].rec].timer
OneSocket == \A v, w \in Socks : sock[v].state # "free" /\ sock[v].rec = sock[w].rec => v = w
TimersRun == \A r \in Recs : rec[r].timer => ~rec[r].stopped
LiveIsOpen ==
    \A i \in Items : sockets[i] # None /\ shown[i] = "live" =>
        \E w \in Socks : sock[w].rec = sockets[i] /\ sock[w].state = "open"
OneHand ==
    overwritten = {} /\ OneConnect /\ ConnectsAlone /\ SocketAlone /\ OneSocket /\ TimersRun /\ LiveIsOpen

LEMMA StartOneHand ==
  ASSUME IInv, IInv', OneHand, NEW i \in Items, NEW s \in Searches, StartSearch(i, s)
  PROVE  OneHand'
<1> USE NoneAssumption
<1>1. PICK r \in Recs :
        /\ Unreferenced(r)
        /\ sockets' = [sockets EXCEPT ![i] = r]
        /\ rec' = [rec EXCEPT ![r] = [item |-> i, search |-> s, ws |-> None,
                     attempts |-> 0, stopped |-> FALSE, timer |-> FALSE]]
        /\ connects' = connects \cup {[rec |-> r, by |-> "start"]}
  BY DEF StartSearch, Blank
<1>2. UNCHANGED <<overwritten, sock>> /\ shown' = [shown EXCEPT ![i] = "connecting"]
  BY DEF StartSearch
<1>3. /\ rec'[r].stopped = FALSE /\ rec'[r].timer = FALSE /\ \A q \in Recs : q # r => rec'[q] = rec[q]
      /\ \A c \in connects : c.rec # r /\ c.rec \in Recs
      /\ \A w \in Socks : sock[w].rec # r /\ (sock[w].state # "free" => sock[w].rec \in Recs)
  BY <1>1 DEF Unreferenced, IInv, TypeOK, HeldRecordsAreNamed
<1>4. OneConnect' /\ ConnectsAlone'
  BY <1>1, <1>2, <1>3 DEF OneHand, OneConnect, ConnectsAlone
<1>5. SocketAlone' /\ OneSocket' /\ TimersRun'
  BY <1>2, <1>3 DEF OneHand, SocketAlone, OneSocket, TimersRun
<1>6. LiveIsOpen'
  BY <1>1, <1>2 DEF OneHand, LiveIsOpen, IInv, TypeOK
<1> QED
  BY <1>2, <1>4, <1>5, <1>6 DEF OneHand

LEMMA CreateOneHand ==
  ASSUME IInv, IInv', OneHand, NEW c \in connects, ConnectCreates(c)
  PROVE  OneHand'
<1> USE NoneAssumption
<1>1. PICK w \in Socks :
        /\ sock[w] = Free
        /\ sock' = [sock EXCEPT ![w] = [state |-> "connecting", rec |-> c.rec]]
        /\ rec' = [rec EXCEPT ![c.rec].ws = w]
  BY DEF ConnectCreates
<1>2. connects' = connects \ {c} /\ UNCHANGED <<sockets, overwritten, shown>> /\ c.rec \in Recs
  BY DEF ConnectCreates, IInv, TypeOK
<1>3. \A q \in Recs : /\ rec'[q].stopped = rec[q].stopped /\ rec'[q].timer = rec[q].timer
                      /\ rec'[q].ws = IF q = c.rec THEN w ELSE rec[q].ws
  BY <1>1, <1>2 DEF IInv, TypeOK, Record
<1>4. /\ sock'[w].state = "connecting" /\ sock'[w].rec = c.rec /\ sock[w].state = "free"
      /\ \A v \in Socks : v # w => sock'[v] = sock[v]
      /\ \A v \in Socks : sock[v].state # "free" => sock[v].rec \in Recs
      /\ \A v \in Socks : sock[v].rec # c.rec
      /\ \A d \in connects : d.rec \in Recs /\ (d.rec = c.rec => d = c)
      /\ ~rec[c.rec].stopped /\ ~rec[c.rec].timer
  BY <1>1, <1>2 DEF Free, IInv, TypeOK, HeldRecordsAreNamed, OneHand, ConnectsAlone, OneConnect
<1>5. OneConnect' /\ ConnectsAlone'
  BY <1>2, <1>3, <1>4 DEF OneHand, OneConnect, ConnectsAlone
<1>6. SocketAlone'
  BY <1>2, <1>3, <1>4 DEF OneHand, SocketAlone
<1>7. OneSocket' /\ TimersRun'
  BY <1>2, <1>3, <1>4 DEF OneHand, OneSocket, TimersRun
<1>8. LiveIsOpen'
  BY <1>2, <1>4 DEF OneHand, LiveIsOpen
<1> QED
  BY <1>2, <1>5, <1>6, <1>7, <1>8 DEF OneHand

(* A running record that failed is rescheduled, it alone.                  *)
LEMMA Rescheduled ==
  ASSUME IInv, NEW r \in Recs, ~rec[r].stopped, ~rec[r].timer, NEW rs \in [Recs -> Record],
         \A q \in Recs : rs[q].item = rec[q].item /\ rs[q].stopped = rec[q].stopped /\ rs[q].timer = rec[q].timer,
         ScheduleReconnect(rec[r].item, rs)
  PROVE  /\ rec[r].item \in Items /\ sockets[rec[r].item] = r
         /\ overwritten' = overwritten /\ shown' = [shown EXCEPT ![rec[r].item] = "reconnecting"]
         /\ rec'[r].timer /\ ~rec'[r].stopped
         /\ \A q \in Recs : q # r => rec'[q] = rs[q]
<1> USE NoneAssumption
<1>1. rec[r].item \in Items /\ sockets[rec[r].item] = r /\ Current(rec[r].item, rs)
  BY DEF IInv, MapAgrees, Current
<1>2. /\ rec' = [rs EXCEPT ![r].attempts = Another(@), ![r].timer = TRUE]
      /\ overwritten' = overwritten /\ shown' = [shown EXCEPT ![rec[r].item] = "reconnecting"]
  BY <1>1 DEF ScheduleReconnect, LabelReconnecting
<1>3. rec' = [rs EXCEPT ![r] = [rs[r] EXCEPT !.attempts = Another(@), !.timer = TRUE]]
  BY <1>2 DEF Record
<1>4. rec'[r].timer /\ rec'[r].stopped = rs[r].stopped /\ \A q \in Recs : q # r => rec'[q] = rs[q]
  BY <1>3 DEF Record
<1> QED
  BY <1>1, <1>2, <1>4

LEMMA FailOneHand ==
  ASSUME IInv, IInv', OneHand, NEW c \in connects, ConnectFails(c)
  PROVE  OneHand'
<1> USE NoneAssumption
<1>1. /\ c.rec \in Recs /\ ~rec[c.rec].stopped /\ ~rec[c.rec].timer /\ \A w \in Socks : sock[w].rec # c.rec
      /\ \A d \in connects : d.rec \in Recs /\ (d.rec = c.rec => d = c)
      /\ \A v \in Socks : sock[v].state # "free" => sock[v].rec \in Recs
  BY DEF IInv, TypeOK, HeldRecordsAreNamed, OneHand, ConnectsAlone, OneConnect
<1>2. connects' = connects \ {c} /\ UNCHANGED <<sockets, sock>> /\ ScheduleReconnect(rec[c.rec].item, rec)
  BY DEF ConnectFails
<1>3. /\ rec[c.rec].item \in Items /\ sockets[rec[c.rec].item] = c.rec
      /\ overwritten' = overwritten /\ shown' = [shown EXCEPT ![rec[c.rec].item] = "reconnecting"]
      /\ rec'[c.rec].timer /\ ~rec'[c.rec].stopped
      /\ \A q \in Recs : q # c.rec => rec'[q] = rec[q]
  BY <1>1, <1>2, Rescheduled DEF IInv, TypeOK
<1>4. OneConnect' /\ ConnectsAlone'
  BY <1>1, <1>2, <1>3 DEF OneHand, OneConnect, ConnectsAlone
<1>5. SocketAlone' /\ OneSocket' /\ TimersRun'
  BY <1>1, <1>2, <1>3 DEF OneHand, SocketAlone, OneSocket, TimersRun
<1>6. LiveIsOpen'
  BY <1>2, <1>3 DEF OneHand, LiveIsOpen, IInv, TypeOK
<1> QED
  BY <1>3, <1>4, <1>5, <1>6 DEF OneHand

LEMMA TimerOneHand ==
  ASSUME IInv, IInv', OneHand, NEW i \in Items, TimerFires(i)
  PROVE  OneHand'
<1> USE NoneAssumption
<1>1. PICK r \in Recs : r = sockets[i] /\ rec[r].timer
  BY DEF TimerFires, IInv, TypeOK
<1>2. /\ rec' = [rec EXCEPT ![r].timer = FALSE]
      /\ connects' = connects \cup {[rec |-> r, by |-> "timer"]}
      /\ UNCHANGED <<sockets, overwritten, sock, told, shown>>
  BY <1>1 DEF TimerFires
<1>3. \A q \in Recs : /\ rec'[q].stopped = rec[q].stopped /\ rec'[q].ws = rec[q].ws
                      /\ rec'[q].timer => q # r /\ rec[q].timer
  BY <1>2 DEF IInv, TypeOK, Record
<1>4. /\ ~rec[r].stopped /\ \A c \in connects : c.rec \in Recs /\ c.rec # r
      /\ \A w \in Socks : sock[w].rec # r /\ (sock[w].state # "free" => sock[w].rec \in Recs)
  <2>1. ~rec[r].stopped /\ \A c \in connects : c.rec \in Recs /\ c.rec # r
    BY <1>1 DEF OneHand, TimersRun, ConnectsAlone, IInv, TypeOK
  <2>2. ASSUME NEW w \in Socks PROVE sock[w].rec # r /\ (sock[w].state # "free" => sock[w].rec \in Recs)
    BY <1>1, <2>1 DEF OneHand, SocketAlone, IInv, TypeOK, HeldRecordsAreNamed
  <2> QED
    BY <2>1, <2>2
<1>5. OneConnect' /\ ConnectsAlone'
  BY <1>2, <1>3, <1>4 DEF OneHand, OneConnect, ConnectsAlone
<1>6. SocketAlone' /\ OneSocket' /\ TimersRun' /\ LiveIsOpen'
  BY <1>2, <1>3, <1>4 DEF OneHand, SocketAlone, OneSocket, TimersRun, LiveIsOpen
<1> QED
  BY <1>2, <1>5, <1>6 DEF OneHand

LEMMA OpenOneHand ==
  ASSUME IInv, IInv', OneHand, NEW w \in Socks, SocketOpens(w)
  PROVE  OneHand'
<1> USE NoneAssumption
<1>1. PICK r \in Recs : r = sock[w].rec /\ sock[w].state = "connecting" /\ rec[r].item \in Items
  BY DEF SocketOpens, IInv, HeldRecordsAreNamed
<1>2. /\ sock' = [sock EXCEPT ![w].state = "open"] /\ rec' = [rec EXCEPT ![r].attempts = 0]
      /\ shown' = [shown EXCEPT ![rec[r].item] = "live"] /\ UNCHANGED <<sockets, connects, overwritten>>
  BY <1>1 DEF SocketOpens, Opened, ItemOf
<1>3. \A q \in Recs : rec'[q].stopped = rec[q].stopped /\ rec'[q].ws = rec[q].ws /\ rec'[q].timer = rec[q].timer
  BY <1>2 DEF IInv, TypeOK, Record
<1>4. \A v \in Socks : sock'[v].rec = sock[v].rec /\ sock'[v].state = IF v = w THEN "open" ELSE sock[v].state
  BY <1>2 DEF IInv, TypeOK, Socket
<1>5. /\ \A c \in connects : c.rec \in Recs
      /\ \A v \in Socks : sock[v].state # "free" => sock[v].rec \in Recs
  BY DEF IInv, TypeOK, HeldRecordsAreNamed
<1>6. ~rec[r].stopped /\ sockets[rec[r].item] = r
  BY <1>1 DEF OneHand, SocketAlone, IInv, MapAgrees
<1>7. OneConnect' /\ ConnectsAlone'
  BY <1>2, <1>3, <1>4, <1>5 DEF OneHand, OneConnect, ConnectsAlone
<1>8. SocketAlone' /\ OneSocket' /\ TimersRun'
  BY <1>1, <1>3, <1>4, <1>5, <1>6 DEF OneHand, SocketAlone, OneSocket, TimersRun
<1>9. LiveIsOpen'
  <2> SUFFICES ASSUME NEW i \in Items, sockets[i] # None, shown'[i] = "live"
               PROVE  \E v \in Socks : sock'[v].rec = sockets[i] /\ sock'[v].state = "open"
    BY <1>2 DEF LiveIsOpen
  <2>1. CASE i = rec[r].item
    BY <1>1, <1>4, <1>6, <2>1
  <2>2. CASE i # rec[r].item
    <3>1. shown[i] = "live"
      BY <1>2, <2>2 DEF IInv, TypeOK
    <3> QED
      BY <1>4, <3>1 DEF OneHand, LiveIsOpen
  <2> QED
    BY <2>1, <2>2
<1> QED
  BY <1>2, <1>7, <1>8, <1>9 DEF OneHand

LEMMA ClosingOneHand ==
  ASSUME IInv, IInv', OneHand, NEW w \in Socks, NEW label \in Labels \ {"live"}, sock[w].state # "free",
         sock' = [sock EXCEPT ![w].state = "closing"],
         shown' = [shown EXCEPT ![ItemOf(w)] = label],
         UNCHANGED <<sockets, rec, connects, overwritten>>
  PROVE  OneHand'
<1> USE NoneAssumption
<1>1. \A v \in Socks : sock'[v].rec = sock[v].rec /\ sock'[v].state = IF v = w THEN "closing" ELSE sock[v].state
  BY DEF IInv, TypeOK, Socket
<1>2. OneConnect' /\ ConnectsAlone' /\ SocketAlone' /\ OneSocket' /\ TimersRun'
  BY <1>1 DEF OneHand, OneConnect, ConnectsAlone, SocketAlone, OneSocket, TimersRun
<1>3. LiveIsOpen'
  <2> SUFFICES ASSUME NEW i \in Items, sockets[i] # None, shown'[i] = "live"
               PROVE  \E v \in Socks : sock'[v].rec = sockets[i] /\ sock'[v].state = "open"
    BY DEF LiveIsOpen
  <2>1. i # ItemOf(w) /\ shown[i] = "live" /\ shown[i] = shown'[i]
    BY DEF IInv, TypeOK
  <2>2. PICK v \in Socks : sock[v].rec = sockets[i] /\ sock[v].state = "open"
    BY <2>1 DEF OneHand, LiveIsOpen
  <2>3. rec[sockets[i]].item = i
    BY DEF IInv, MapAgrees
  <2>4. v # w
    BY <2>1, <2>2, <2>3 DEF ItemOf
  <2> QED
    BY <1>1, <2>2, <2>4
<1> QED
  BY <1>2, <1>3 DEF OneHand

LEMMA CloseOneHand ==
  ASSUME IInv, IInv', OneHand, NEW w \in Socks, SocketCloses(w)
  PROVE  OneHand'
<1> USE NoneAssumption
<1>1. PICK r \in Recs : r = sock[w].rec /\ sock[w].state # "free" /\ rec[r].item \in Items
  BY DEF SocketCloses, IInv, HeldRecordsAreNamed
<1>2. sock' = [sock EXCEPT ![w] = Free] /\ UNCHANGED <<sockets, connects>>
  BY DEF SocketCloses
<1>3. /\ Closed(r) \in [Recs -> Record]
      /\ \A q \in Recs : /\ Closed(r)[q].item = rec[q].item
                         /\ Closed(r)[q].stopped = rec[q].stopped
                         /\ Closed(r)[q].timer = rec[q].timer
                         /\ q # r => Closed(r)[q].ws = rec[q].ws
  <2>1. [rec[r] EXCEPT !.ws = None] \in Record
    BY DEF IInv, TypeOK, Record
  <2> QED
    BY <2>1 DEF Closed, IInv, TypeOK, Record
<1>4. /\ \A v \in Socks : v # w => sock'[v] = sock[v] /\ sock[v].rec # r
      /\ sock'[w].state = "free" /\ sock'[w].rec = None
      /\ \A c \in connects : c.rec \in Recs /\ c.rec # r
      /\ \A v \in Socks : sock[v].state # "free" => sock[v].rec \in Recs
      /\ \A v \in Socks : sock[v].state = "free" => sock[v].rec = None
  BY <1>1, <1>2 DEF Free, IInv, TypeOK, HeldRecordsAreNamed, OneHand, OneSocket, ConnectsAlone
<1>5. CASE rec[r].stopped
  <2>1. rec' = Closed(r) /\ UNCHANGED <<overwritten, shown>>
    BY <1>1, <1>5 DEF SocketCloses
  <2>2. OneConnect' /\ ConnectsAlone' /\ TimersRun'
    BY <1>2, <1>3, <1>4, <2>1 DEF OneHand, OneConnect, ConnectsAlone, TimersRun
  <2>3. SocketAlone' /\ OneSocket'
    BY <1>3, <1>4, <2>1 DEF OneHand, SocketAlone, OneSocket
  <2>4. LiveIsOpen'
    <3>1. \A i \in Items : sockets[i] # r
      BY <1>5 DEF IInv, MapAgrees
    <3> QED
      BY <1>1, <1>2, <1>4, <2>1, <3>1 DEF OneHand, LiveIsOpen
  <2> QED
    BY <2>1, <2>2, <2>3, <2>4 DEF OneHand
<1>6. CASE ~rec[r].stopped
  <2>1. ScheduleReconnect(rec[r].item, Closed(r)) /\ ~rec[r].timer
    BY <1>1, <1>6 DEF SocketCloses, OneHand, SocketAlone
  <2>2. /\ rec[r].item \in Items /\ sockets[rec[r].item] = r
        /\ overwritten' = overwritten /\ shown' = [shown EXCEPT ![rec[r].item] = "reconnecting"]
        /\ rec'[r].timer /\ ~rec'[r].stopped
        /\ \A q \in Recs : q # r => rec'[q] = Closed(r)[q]
    <3> DEFINE rs == Closed(r)
    <3> HIDE DEF rs
    <3>1. rs \in [Recs -> Record] /\ ScheduleReconnect(rec[r].item, rs)
          /\ \A q \in Recs : rs[q].item = rec[q].item /\ rs[q].stopped = rec[q].stopped /\ rs[q].timer = rec[q].timer
      BY <1>3, <2>1 DEF rs
    <3>2. /\ rec[r].item \in Items /\ sockets[rec[r].item] = r
          /\ overwritten' = overwritten /\ shown' = [shown EXCEPT ![rec[r].item] = "reconnecting"]
          /\ rec'[r].timer /\ ~rec'[r].stopped
          /\ \A q \in Recs : q # r => rec'[q] = rs[q]
      BY <1>6, <2>1, <3>1, Rescheduled
    <3> QED
      BY <3>2 DEF rs
  <2>3. OneConnect' /\ ConnectsAlone' /\ TimersRun'
    BY <1>2, <1>3, <1>4, <2>2 DEF OneHand, OneConnect, ConnectsAlone, TimersRun
  <2>4. SocketAlone' /\ OneSocket'
    BY <1>3, <1>4, <2>2 DEF OneHand, SocketAlone, OneSocket
  <2>5. LiveIsOpen'
    <3> SUFFICES ASSUME NEW i \in Items, sockets[i] # None, shown'[i] = "live"
                 PROVE  \E v \in Socks : sock'[v].rec = sockets[i] /\ sock'[v].state = "open"
      BY <1>2 DEF LiveIsOpen
    <3>1. i # rec[r].item /\ shown[i] = "live"
      BY <2>2 DEF IInv, TypeOK
    <3>2. PICK v \in Socks : sock[v].rec = sockets[i] /\ sock[v].state = "open"
      BY <3>1 DEF OneHand, LiveIsOpen
    <3>3. v # w
      BY <1>1, <3>1, <3>2 DEF IInv, MapAgrees
    <3> QED
      BY <1>4, <3>2, <3>3
  <2> QED
    BY <2>2, <2>3, <2>4, <2>5 DEF OneHand
<1> QED
  BY <1>5, <1>6

LEMMA StopOneHand ==
  ASSUME ~StopDuringConnect, IInv, IInv', OneHand, NEW gone \in SUBSET Items, StopSearches(gone)
  PROVE  OneHand'
<1> USE NoneAssumption
<1>1. PICK stopping :
      /\ stopping = {sockets[i] : i \in gone} /\ \A c \in connects : c.rec \notin stopping
      /\ rec' = Halted(stopping)
      /\ sock' = ClosedBy(stopping)
      /\ sockets' = [i \in Items |-> IF i \in gone THEN None ELSE sockets[i]]
      /\ UNCHANGED <<connects, overwritten, shown>>
  BY DEF StopSearches
<1>2. \A i \in gone : sockets[i] \in Recs /\ sockets[i] # None
  BY DEF StopSearches, Active, IInv, TypeOK
<1>3. stopping \subseteq Recs /\ \A r \in stopping : ~rec[r].stopped /\ rec[r].item \in gone
  BY <1>1, <1>2 DEF IInv, MapAgrees
<1>4. \A q \in Recs : /\ q \in stopping => rec'[q].stopped /\ ~rec'[q].timer
                      /\ q \notin stopping => rec'[q] = rec[q]
                      /\ rec'[q].ws = rec[q].ws
  <2>1. ASSUME NEW x \in Record
        PROVE  LET y == [x EXCEPT !.stopped = TRUE, !.timer = FALSE] IN y.stopped /\ ~y.timer /\ y.ws = x.ws
    BY <2>1 DEF Record
  <2>2. rec \in [Recs -> Record]
    BY DEF IInv, TypeOK
  <2> QED
    BY <1>1, <2>1, <2>2 DEF Halted
<1>5. \A w \in Socks : /\ sock'[w].rec = sock[w].rec
                       /\ sock'[w].state = IF \E r \in stopping : rec[r].ws = w THEN "closing" ELSE sock[w].state
  BY <1>1 DEF ClosedBy, IInv, TypeOK, Socket
<1>6. \A w \in Socks : (\E r \in stopping : rec[r].ws = w) => sock[w].rec \in stopping /\ sock[w].state # "free"
  <2> SUFFICES ASSUME NEW w \in Socks, NEW r \in stopping, rec[r].ws = w PROVE sock[w].rec = r /\ sock[w].state # "free"
    BY <1>3
  <2>1. sock[w].rec = r /\ r # None
    BY <1>3 DEF IInv, ReferenceIsOwn
  <2> QED
    BY <2>1 DEF IInv, HeldRecordsAreNamed
<1>7. /\ \A c \in connects : c.rec \in Recs
      /\ \A v \in Socks : sock[v].state # "free" => sock[v].rec \in Recs
  BY DEF IInv, TypeOK, HeldRecordsAreNamed
<1>8. OneConnect' /\ ConnectsAlone' /\ TimersRun'
  BY <1>1, <1>4, <1>5, <1>7 DEF OneHand, OneConnect, ConnectsAlone, TimersRun
<1>9. SocketAlone'
  <2> SUFFICES ASSUME NEW w \in Socks, sock'[w].state # "free"
               PROVE  IF rec'[sock'[w].rec].stopped THEN sock'[w].state = "closing"
                      ELSE rec'[sock'[w].rec].ws = w /\ ~rec'[sock'[w].rec].timer
    BY DEF SocketAlone
  <2>1. sock[w].state # "free" /\ sock[w].rec \in Recs
    BY <1>5, <1>6, <1>7
  <2>2. CASE sock[w].rec \in stopping
    BY <1>3, <1>4, <1>5, <2>1, <2>2 DEF OneHand, SocketAlone
  <2>3. CASE sock[w].rec \notin stopping
    BY <1>4, <1>5, <1>6, <2>1, <2>3 DEF OneHand, SocketAlone
  <2> QED
    BY <2>2, <2>3
<1>10. OneSocket'
  BY <1>5, <1>6 DEF OneHand, OneSocket
<1>11. LiveIsOpen'
  <2> SUFFICES ASSUME NEW i \in Items, sockets'[i] # None, shown[i] = "live"
               PROVE  \E v \in Socks : sock'[v].rec = sockets'[i] /\ sock'[v].state = "open"
    BY <1>1 DEF LiveIsOpen
  <2>1. i \notin gone /\ sockets'[i] = sockets[i]
    BY <1>1
  <2>2. PICK v \in Socks : sock[v].rec = sockets[i] /\ sock[v].state = "open"
    BY <2>1 DEF OneHand, LiveIsOpen
  <2>3. sockets[i] \notin stopping
    BY <1>3, <2>1 DEF IInv, MapAgrees
  <2> QED
    BY <1>5, <1>6, <2>1, <2>2, <2>3
<1> QED
  BY <1>1, <1>8, <1>9, <1>10, <1>11 DEF OneHand

LEMMA CalmSteps == ASSUME ~StopDuringConnect, IInv, OneHand, [Next]_vars PROVE IInv' /\ OneHand'
<1>0. IInv'
  BY StepKeeps
<1>1. CASE \E i \in Items, s \in Searches : StartSearch(i, s)
  BY <1>0, <1>1, StartOneHand
<1>2. CASE \E c \in connects : ConnectCreates(c) \/ ConnectFails(c)
  BY <1>0, <1>2, CreateOneHand, FailOneHand
<1>3. CASE \E i \in Items : TimerFires(i) \/ OverwrittenTimerFires(i)
  <2>1. \A i \in Items : ~OverwrittenTimerFires(i)
    BY DEF OneHand, OverwrittenTimerFires
  <2> QED
    BY <1>0, <1>3, <2>1, TimerOneHand
<1>4. CASE (\E i \in Items : stopSearch(i)) \/ stopAll
  <2>1. PICK gone \in SUBSET Items : StopSearches(gone)
    BY <1>4 DEF stopSearch, stopAll, Active
  <2> QED
    BY <1>0, <2>1, StopOneHand
<1>5. CASE \E w \in Socks : SocketOpens(w) \/ SocketCloses(w)
  BY <1>0, <1>5, OpenOneHand, CloseOneHand
<1>6. CASE \E w \in Socks : SocketErrors(w)
  BY <1>0, <1>6, ClosingOneHand DEF SocketErrors, Labels
<1>7. CASE \E w \in Socks : \E label \in {"auth", "error"} : HandshakeRejected(w, label)
  BY <1>0, <1>7, ClosingOneHand DEF HandshakeRejected, Labels
<1>8. CASE UNCHANGED vars
  BY <1>0, <1>8 DEF vars, OneHand, OneConnect, ConnectsAlone, SocketAlone, OneSocket, TimersRun, LiveIsOpen
<1> QED
  BY <1>0, <1>1, <1>2, <1>3, <1>4, <1>5, <1>6, <1>7, <1>8 DEF Next

LEMMA CalmInvariant == ASSUME ~StopDuringConnect PROVE Spec => [](IInv /\ OneHand)
<1>1. Init => IInv /\ OneHand
  BY InitIInv, NoneAssumption DEF Init, OneHand, OneConnect, ConnectsAlone, SocketAlone, OneSocket, TimersRun, LiveIsOpen, Blank, Free
<1>2. IInv /\ OneHand /\ [Next]_vars => (IInv /\ OneHand)'
  BY CalmSteps
<1> QED
  BY <1>1, <1>2, PTL DEF Spec

(* The cap of startSearch bounds the Map.                                  *)
MapWithinCap == IsFiniteSet(Active(sockets)) /\ Cardinality(Active(sockets)) <= MAX_SOCKETS

LEMMA CapSteps == ASSUME TypeOK, MapWithinCap, [Next]_vars PROVE MapWithinCap'
<1> DEFINE A == Active(sockets)
<1>0. IsFiniteSet(A) /\ Cardinality(A) \in Nat /\ Cardinality(A) <= MAX_SOCKETS
  BY FS_CardinalityType DEF MapWithinCap
<1>a. MapWithinCap' <=> IsFiniteSet(Active(sockets')) /\ Cardinality(Active(sockets')) <= MAX_SOCKETS
  BY DEF MapWithinCap, Active
<1>1. ASSUME NEW i \in Items, NEW s \in Searches, StartSearch(i, s) PROVE MapWithinCap'
  <2>1. Active(sockets') = A \cup {i} /\ i \notin A
    BY <1>1, NoneAssumption DEF StartSearch, Active, TypeOK
  <2>2. IsFiniteSet(A \cup {i}) /\ Cardinality(A \cup {i}) = Cardinality(A) + 1
    BY <1>0, <2>1, FS_AddElement
  <2>3. Cardinality(A) < MAX_SOCKETS
    BY <1>1 DEF StartSearch
  <2> HIDE DEF A
  <2> QED
    BY <1>0, <1>a, <2>1, <2>2, <2>3, CapAssumption
<1>2. ASSUME NEW gone \in SUBSET Items, StopSearches(gone) PROVE MapWithinCap'
  <2>1. Active(sockets') \subseteq A
    BY <1>2 DEF StopSearches, Active
  <2>2. /\ IsFiniteSet(Active(sockets')) /\ Cardinality(Active(sockets')) \in Nat
        /\ Cardinality(Active(sockets')) <= Cardinality(A)
    BY <1>0, <2>1, FS_Subset, FS_CardinalityType
  <2> HIDE DEF A
  <2> QED
    BY <1>0, <1>a, <2>2, CapAssumption
<1>3. CASE UNCHANGED sockets
  BY <1>3 DEF MapWithinCap, Active
<1>4. ASSUME NEW i \in Items, stopSearch(i) PROVE MapWithinCap'
  BY <1>2, <1>4 DEF stopSearch
<1>5. CASE stopAll
  BY <1>2, <1>5 DEF stopAll, Active
<1>6. (\E i \in Items, s \in Searches : StartSearch(i, s)) \/ (\E i \in Items : stopSearch(i)) \/ stopAll \/ UNCHANGED sockets
  BY DEF Next, vars, ConnectCreates, ConnectFails, TimerFires, OverwrittenTimerFires, SocketOpens,
         SocketErrors, SocketCloses, HandshakeRejected
<1> QED
  BY <1>1, <1>3, <1>4, <1>5, <1>6

LEMMA CapInvariant == Spec => []MapWithinCap
<1>1. Init => MapWithinCap
  <2>1. Init => Active(sockets) = {}
    BY DEF Init, Active
  <2> QED
    BY <2>1, FS_EmptySet, CapAssumption DEF MapWithinCap
<1>2. TypeOK /\ MapWithinCap /\ [Next]_vars => MapWithinCap'
  BY CapSteps
<1> QED
  BY <1>1, <1>2, EngineTypes, PTL DEF Spec

(* Each socket not closing is that of a running search of its own: there   *)
(* are no more of them than searches.                                      *)
LEMMA OneSearchEach == ASSUME IInv, NoLeakedSocket, MapWithinCap PROVE SocketsWithinCap
<1> DEFINE A == Active(sockets)
           f == [i \in A |-> rec[sockets[i]].ws]
           T == {f[i] : i \in A}
<1>1. \A w \in Holding : \E i \in A : f[i] = w
  <2> SUFFICES ASSUME NEW w \in Holding PROVE \E i \in A : f[i] = w
    OBVIOUS
  <2>1. sock[w].rec \in Recs /\ ~rec[sock[w].rec].stopped /\ rec[sock[w].rec].ws = w
    BY DEF Holding, NoLeakedSocket, IInv, HeldRecordsAreNamed
  <2>2. PICK i \in Items : i = rec[sock[w].rec].item /\ sockets[i] = sock[w].rec
    BY <2>1 DEF IInv, MapAgrees
  <2>3. i \in A
    BY <2>1, <2>2, NoneAssumption DEF Active
  <2> QED
    BY <2>1, <2>2, <2>3
<1>2. f \in Surjection(A, T)
  BY DEF Surjection
<1>3. IsFiniteSet(T) /\ Cardinality(T) <= Cardinality(A)
  <2>1. IsFiniteSet(A)
    BY DEF MapWithinCap
  <2> HIDE DEF A, T, f
  <2> QED
    BY <1>2, <2>1, FS_Surjection
<1>4. Holding \subseteq T
  BY <1>1
<1>5. Cardinality(Holding) <= Cardinality(T) /\ IsFiniteSet(Holding)
  BY <1>3, <1>4, FS_Subset
<1>6. Cardinality(A) <= MAX_SOCKETS
  BY DEF MapWithinCap
<1>7. Cardinality(A) \in Nat /\ Cardinality(T) \in Nat /\ Cardinality(Holding) \in Nat
  BY <1>3, <1>5, FS_CardinalityType DEF MapWithinCap
<1> HIDE DEF A, T, f
<1> QED
  BY <1>3, <1>5, <1>6, <1>7, CapAssumption DEF SocketsWithinCap

(* No socket is left behind, and there are never more than GGG allows:     *)
(* each one not closing is the socket of a running search, for a stop that *)
(* never comes while _connect waits for the cookies (engine.js).           *)
THEOREM EngineLeaksNothing == ASSUME ~StopDuringConnect PROVE Spec => []SocketsAreCounted
<1>1. IInv /\ OneHand => NoLeakedSocket
  BY DEF OneHand, SocketAlone, NoLeakedSocket, Holding
<1>2. IInv /\ NoLeakedSocket /\ MapWithinCap => SocketsAreCounted
  BY OneSearchEach DEF SocketsAreCounted
<1> QED
  BY <1>1, <1>2, CalmInvariant, CapInvariant, PTL

(* A row labelled live has an open socket, under the same hypothesis.      *)
THEOREM EngineLabelsTruly == ASSUME ~StopDuringConnect PROVE Spec => []LiveLabelTruthful
<1>1. IInv /\ OneHand => LiveLabelTruthful
  BY DEF OneHand, LiveIsOpen, LiveLabelTruthful, IInv, TypeOK
<1> QED
  BY <1>1, CalmInvariant, PTL
=============================================================================
