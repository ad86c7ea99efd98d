----------------------------- MODULE PageProofs -----------------------------
(* Parts of the page, for any signals, toasts, screens, rows and searches: *)
(* what each of them promises the user.                                    *)
EXTENDS Navigation, Toasts, Signals, TradeWindow, Release, ThemeColors, SearchString, StratTally,
        SequenceTheorems, FiniteSetTheorems, WellFoundedInduction, TLAPS

-----------------------------------------------------------------------------
(* The inbox of signals: what is read as dismissed was dismissed.          *)
DismissedByUser == acked \cup poll.acked \cup inbox.acked \subseteq dismissed
InboxInv == CountedWasTold /\ DismissedByUser

(* What the inbox counts as new was alerted of, or there at the first      *)
(* load, or dismissed and back again (signalStore.js), however polls and   *)
(* dismissals mix and whichever polls are lost.                            *)
THEOREM CountedWasToldEver == SignalsSpec => []CountedWasTold
<1>1. SignalsInit => InboxInv
  BY DEF SignalsInit, InboxInv, CountedWasTold, DismissedByUser, NothingAsked
<1>2. InboxInv /\ [SignalsNext]_signalVars => InboxInv'
  <2> SUFFICES ASSUME InboxInv, [SignalsNext]_signalVars PROVE InboxInv'
    OBVIOUS
  <2> USE DEF InboxInv, CountedWasTold, DismissedByUser
  <2>1. ASSUME NEW k \in Spikes, Recomputed(k) PROVE InboxInv'
    BY <2>1 DEF Recomputed
  <2>2. CASE Polls
    BY <2>2 DEF Polls, Asked
  <2>3. CASE PollLost
    BY <2>3 DEF PollLost, NothingAsked
  <2>4. CASE PollLands
    <3>1. inbox'.keys = poll.keys /\ inbox'.acked = poll.acked /\ poll'.acked = {}
      BY <2>4 DEF PollLands, NothingAsked
    <3>2. CountedWasTold'
      <4> SUFFICES ASSUME NEW k \in poll.keys \ poll.acked PROVE k \in told' \cup firstSeen' \cup dismissed'
        BY <3>1
      <4>1. CASE loaded
        BY <2>4, <4>1 DEF PollLands, fresh, newSignals
      <4>2. CASE ~loaded
        BY <2>4, <4>2 DEF PollLands
      <4> QED
        BY <4>1, <4>2
    <3> QED
      BY <2>4, <3>1, <3>2 DEF PollLands
  <2>5. ASSUME NEW keys \in SUBSET Spikes, Acks(keys) PROVE InboxInv'
    BY <2>5 DEF Acks, Asked
  <2>6. CASE ackAll
    BY <2>6 DEF ackAll, Asked
  <2>7. CASE UNCHANGED signalVars
    BY <2>7 DEF signalVars
  <2> QED
    BY <2>1, <2>2, <2>3, <2>4, <2>5, <2>6, <2>7 DEF SignalsNext
<1> QED
  BY <1>1, <1>2, PTL DEF SignalsSpec, InboxInv

-----------------------------------------------------------------------------
(* The screens: a timer put off is for the screen asked for, which is      *)
(* drawn; a screen not drawn yet finds its sub-view in pendingTrading.     *)
Subs == {"none", "stash", "calc", "hold", "market", "workspace", "live", "regex"}
Shown ==
    /\ subs \in [TABS -> Subs] /\ pending \in Subs /\ asked \in [section : TABS, sub : Subs]
    /\ drawn \in TABS /\ tab \in TABS /\ tab = asked.section
    /\ subs[drawn] = sub
    /\ timers = <<>> \/ (timers = <<asked>> /\ tab = drawn)
    /\ tab # drawn => tab = "Trading" /\ pending = "live" /\ asked.sub = "live"
    /\ tab = drawn /\ timers = <<>> /\ asked.sub # None => sub = asked.sub

LEMMA FourTabs == TABS = {"Board", "Stash", "Economy", "Trading"} /\ \A t \in TABS : DESTS[t][1] \in Subs
<1>1. TABS = {"Board", "Stash", "Economy", "Trading"}
  BY DEF TABS, DESTS
<1>2. DESTS["Board"][1] = "none" /\ DESTS["Stash"][1] = "stash" /\ DESTS["Economy"][1] = "hold" /\ DESTS["Trading"][1] = "workspace"
  BY DEF DESTS, None
<1> SUFFICES ASSUME NEW t \in TABS PROVE DESTS[t][1] \in Subs
  BY <1>1
<1>3. CASE t = "Board"
  BY <1>2, <1>3 DEF Subs
<1>4. CASE t = "Stash"
  BY <1>2, <1>4 DEF Subs
<1>5. CASE t = "Economy"
  BY <1>2, <1>5 DEF Subs
<1>6. CASE t = "Trading"
  BY <1>2, <1>6 DEF Subs
<1> QED
  BY <1>1, <1>3, <1>4, <1>5, <1>6

LEMMA ScreensAre ==
    ASSUME NEW d \in Screens
    PROVE  d = [section |-> d.section, sub |-> d.sub] /\ d.section \in TABS /\ d.sub \in Subs
           /\ d \in [section : TABS, sub : Subs]
<1>1. PICK t \in TABS : \E s \in subsOf(t) : d = [section |-> t, sub |-> s]
  BY DEF Screens
<1>2. DESTS["Board"] = <<"none">> /\ DESTS["Stash"] = <<"stash", "calc">> /\ DESTS["Economy"] = <<"hold", "market">>
      /\ DESTS["Trading"] = <<"workspace", "live", "regex">>
  BY DEF DESTS, None
<1>3. DOMAIN DESTS[t] \subseteq 1..3 /\ \A i \in DOMAIN DESTS[t] : DESTS[t][i] \in Subs
  <2>1. CASE t = "Board"
    BY <1>2, <2>1 DEF Subs
  <2>2. CASE t = "Stash"
    BY <1>2, <2>2 DEF Subs
  <2>3. CASE t = "Economy"
    BY <1>2, <2>3 DEF Subs
  <2>4. CASE t = "Trading"
    BY <1>2, <2>4 DEF Subs
  <2> QED
    BY FourTabs, <2>1, <2>2, <2>3, <2>4
<1>4. subsOf(t) \subseteq Subs
  BY <1>3 DEF subsOf
<1> QED
  BY <1>1, <1>4

(* Where the page comes to rest it shows the screen last asked for, and    *)
(* the palette knows which one that is (App.jsx, nav.js).                  *)
THEOREM AskedScreenShowsEver == NavSpec => []AskedScreenShows
<1>1. NavInit => Shown
  BY FourTabs DEF NavInit, Shown, None, Subs
<1>2. Shown /\ [NavNext]_navVars => Shown'
  <2> SUFFICES ASSUME Shown, [NavNext]_navVars PROVE Shown'
    OBVIOUS
  <2>1. ASSUME NEW t \in TABS, NEW s \in Subs, Click(t), asked' = [section |-> t, sub |-> s],
               \/ timers' = <<>> /\ s = None
               \/ timers' = <<asked'>>
        PROVE  Shown'
    <3>1. sub' \in Subs /\ pending' \in Subs /\ tab' = t /\ drawn' = t /\ subs' \in [TABS -> Subs] /\ subs'[t] = sub'
      <4>1. tab' = t /\ drawn' = t
        BY <2>1 DEF Click, ViewMade
      <4>2. CASE t = drawn
        BY <2>1, <4>1, <4>2 DEF Shown, Click, ViewMade
      <4>3. CASE t # drawn
        <5>1. sub' \in Subs
          BY <2>1, <4>3, FourTabs DEF Shown, Click, ViewMade, consumePendingTrading, Subs
        <5>2. subs' = [subs EXCEPT ![t] = sub'] /\ pending' \in Subs
          BY <2>1, <4>3 DEF Shown, Click, ViewMade, None, Subs
        <5> QED
          BY <4>1, <5>1, <5>2 DEF Shown
      <4> QED
        BY <4>2, <4>3
    <3>2. <<asked'>> # <<>> /\ asked' \in [section : TABS, sub : Subs] /\ asked'.section = t /\ asked'.sub = s
      BY <2>1
    <3> QED
      BY <2>1, <3>1, <3>2 DEF Shown
  <2>2. ASSUME NEW t \in TABS, TabClick(t) PROVE Shown'
    BY <2>1, <2>2 DEF TabClick, AsksFor, None, Subs
  <2>3. ASSUME NEW d \in Screens, SubClick(d.sub) PROVE Shown'
    BY <2>3, ScreensAre DEF SubClick, AsksFor, Shown
  <2>4. ASSUME NEW d \in Screens, goSub(d) \/ goScreen(d) PROVE Shown'
    <3>1. Leads(d) /\ d.section \in TABS /\ d.sub \in Subs /\ asked' = d
      BY <2>4, ScreensAre DEF goSub, goScreen, Leads, AsksFor
    <3>2. timers = <<>> /\ Append(<<>>, d) = <<d>>
      BY <3>1 DEF Leads, AsksFor
    <3> QED
      BY <2>1, <3>1, <3>2, ScreensAre DEF Leads
  <2>5. CASE TimerFires
    <3>1. timers = <<asked>> /\ Head(timers) = asked /\ timers' = <<>> /\ tab = drawn
      BY <2>5 DEF TimerFires, Shown
    <3> QED
      BY <2>5, <3>1, FourTabs DEF TimerFires, openTrading, openSub, keptForLater, Shown
  <2>6. CASE goLive
    BY <2>6, FourTabs DEF goLive, AsksFor, openTrading, keptForLater, Shown, Subs
  <2>7. CASE Draws
    BY <2>7, FourTabs DEF Draws, ViewMade, consumePendingTrading, Shown, None, Subs
  <2>8. ASSUME NEW d \in Screens, runTarget(d) PROVE Shown'
    BY <2>8 DEF runTarget, Shown
  <2>9. CASE UNCHANGED navVars
    BY <2>9 DEF navVars, Shown
  <2> QED
    BY <2>2, <2>3, <2>4, <2>5, <2>6, <2>7, <2>8, <2>9 DEF NavNext
<1>3. Shown => AskedScreenShows
  BY DEF Shown, AskedScreenShows, Settled, screen
<1> QED
  BY <1>1, <1>2, <1>3, PTL DEF NavSpec

-----------------------------------------------------------------------------
(* The toasts: each has an id of its own, and time that runs.              *)
Ids(n) == {Banner} \cup {<<"t", k>> : k \in 1..n}
ToastSet(n) == [id : Ids(n), timers : Nat]
OwnIds(s) == \A i, j \in DOMAIN s : s[i].id = s[j].id => i = j
TimeRuns(s) == \A i \in DOMAIN s : s[i].timers > 0 \/ over = s[i].id
Stack(s, n) == s \in Seq(ToastSet(n)) /\ OwnIds(s) /\ TimeRuns(s)
ToastInv == emitted \in Nat /\ Stack(stack, emitted)

LEMMA PartOfAStack ==
    ASSUME NEW n, NEW s, Stack(s, n), NEW a \in 1..(Len(s) + 1)
    PROVE  Stack(SubSeq(s, a, Len(s)), n)
<1> DEFINE t == SubSeq(s, a, Len(s))
<1>1. s \in Seq(ToastSet(n)) /\ Len(s) \in Nat /\ DOMAIN s = 1..Len(s) /\ a \in Nat
  BY LenProperties DEF Stack
<1>2. t \in Seq(ToastSet(n)) /\ Len(t) = Len(s) - a + 1 /\ \A k \in 1..(Len(s) - a + 1) : t[k] = s[a + k - 1]
  BY <1>1, SubSeqProperties
<1>3. DOMAIN t = 1..(Len(s) - a + 1)
  BY <1>2, LenProperties
<1> HIDE DEF t
<1>4. \A k \in DOMAIN t : t[k] = s[a + k - 1] /\ a + k - 1 \in DOMAIN s
  <2> SUFFICES ASSUME NEW k \in DOMAIN t
               PROVE  t[k] = s[a + k - 1] /\ a + k - 1 \in DOMAIN s
    OBVIOUS
  <2>1. k \in 1..(Len(s) - a + 1)
    BY <1>3
  <2>2. t[k] = s[a + k - 1]
    BY <1>2, <2>1
  <2>3. a + k - 1 \in 1..Len(s)
    <3>1. a \in Nat /\ Len(s) \in Nat /\ 1 <= a
      BY <1>1
    <3> QED
      BY <2>1, <3>1
  <2> QED
    BY <1>1, <2>2, <2>3
<1>5. TimeRuns(t)
  BY <1>4 DEF Stack, TimeRuns
<1>6. OwnIds(t)
  <2> SUFFICES ASSUME NEW i \in DOMAIN t, NEW j \in DOMAIN t, t[i].id = t[j].id PROVE i = j
    BY DEF OwnIds
  <2>1. a + i - 1 = a + j - 1
    BY <1>4 DEF Stack, OwnIds
  <2> QED
    BY <1>1, <1>3, <2>1
<1> QED
  BY <1>2, <1>5, <1>6 DEF Stack, t

(* Without a toast: the others are left, in their order.                   *)
LEMMA OneLess ==
    ASSUME NEW n, NEW s, Stack(s, n), NEW i \in DOMAIN s
    PROVE  /\ Stack(RemoveAt(s, i), n)
           /\ \A k \in DOMAIN RemoveAt(s, i) : RemoveAt(s, i)[k].id # s[i].id
<1> DEFINE a == SubSeq(s, 1, i - 1)  b == SubSeq(s, i + 1, Len(s))  t == a \o b
<1>1. s \in Seq(ToastSet(n)) /\ Len(s) \in Nat /\ DOMAIN s = 1..Len(s) /\ i \in 1..Len(s)
  BY LenProperties DEF Stack
<1>2. a \in Seq(ToastSet(n)) /\ Len(a) = i - 1 /\ \A k \in 1..(i - 1) : a[k] = s[k]
  BY <1>1, SubSeqProperties
<1>3. b \in Seq(ToastSet(n)) /\ Len(b) = Len(s) - i /\ \A k \in 1..(Len(s) - i) : b[k] = s[i + k]
  <2>1. i + 1 \in Int /\ Len(s) \in Int /\ \A k \in (i + 1)..Len(s) : s[k] \in ToastSet(n)
    BY <1>1, ElementOfSeq
  <2>2. /\ b \in Seq(ToastSet(n)) /\ Len(b) = IF i + 1 <= Len(s) THEN Len(s) - (i + 1) + 1 ELSE 0
        /\ \A k \in 1..(Len(s) - (i + 1) + 1) : b[k] = s[i + 1 + k - 1]
    BY <2>1, SubSeqProperties
  <2> HIDE DEF b
  <2>3. Len(s) - (i + 1) + 1 = Len(s) - i /\ i \in Nat /\ i <= Len(s)
    BY <1>1
  <2>4. Len(b) = Len(s) - i
    BY <1>1, <2>2, <2>3
  <2>5. \A k \in 1..(Len(s) - i) : i + 1 + k - 1 = i + k
    BY <1>1
  <2> QED
    BY <2>2, <2>3, <2>4, <2>5
<1> HIDE DEF a, b
<1>4. t \in Seq(ToastSet(n)) /\ Len(t) = Len(s) - 1
      /\ \A k \in 1..(Len(s) - 1) : t[k] = IF k <= i - 1 THEN a[k] ELSE b[k - (i - 1)]
  <2>1. /\ t \in Seq(ToastSet(n)) /\ Len(t) = Len(a) + Len(b)
        /\ \A k \in 1..(Len(a) + Len(b)) : t[k] = IF k <= Len(a) THEN a[k] ELSE b[k - Len(a)]
    BY <1>2, <1>3, ConcatProperties
  <2> HIDE DEF t
  <2>2. Len(a) = i - 1 /\ Len(a) + Len(b) = Len(s) - 1
    BY <1>1, <1>2, <1>3
  <2> QED
    BY <2>1, <2>2
<1>5. DOMAIN t = 1..(Len(s) - 1)
  BY <1>4, LenProperties
<1> HIDE DEF t
<1>6. \A k \in DOMAIN t : t[k] = s[IF k < i THEN k ELSE k + 1] /\ (IF k < i THEN k ELSE k + 1) \in DOMAIN s \ {i}
  <2> SUFFICES ASSUME NEW k \in DOMAIN t
               PROVE  t[k] = s[IF k < i THEN k ELSE k + 1] /\ (IF k < i THEN k ELSE k + 1) \in DOMAIN s \ {i}
    OBVIOUS
  <2>1. CASE k < i
    BY <1>1, <1>2, <1>4, <1>5, <2>1
  <2>2. CASE ~(k < i)
    <3>1. k - (i - 1) \in 1..(Len(s) - i) /\ t[k] = b[k - (i - 1)] /\ i + (k - (i - 1)) = k + 1
      BY <1>1, <1>4, <1>5, <2>2
    <3> QED
      BY <1>1, <1>3, <1>5, <2>2, <3>1
  <2> QED
    BY <2>1, <2>2
<1>7. TimeRuns(t)
  BY <1>6 DEF Stack, TimeRuns
<1>8. OwnIds(t)
  <2> SUFFICES ASSUME NEW k \in DOMAIN t, NEW m \in DOMAIN t, t[k].id = t[m].id PROVE k = m
    BY DEF OwnIds
  <2>1. (IF k < i THEN k ELSE k + 1) = (IF m < i THEN m ELSE m + 1)
    BY <1>6 DEF Stack, OwnIds
  <2> QED
    BY <1>1, <1>5, <2>1
<1>9. \A k \in DOMAIN t : t[k].id # s[i].id
  BY <1>6 DEF Stack, OwnIds
<1>10. RemoveAt(s, i) = t
  BY DEF RemoveAt, a, b, t
<1> QED
  BY <1>4, <1>7, <1>8, <1>9, <1>10 DEF Stack

LEMMA WithoutIt ==
    ASSUME ToastInv, NEW id
    PROVE  Stack(Without(id), emitted) /\ \A k \in DOMAIN Without(id) : Without(id)[k].id # id
<1>1. CASE IsShown(id)
  <2>1. At(id) \in DOMAIN stack /\ stack[At(id)].id = id
    BY <1>1 DEF IsShown, At
  <2> QED
    BY <1>1, <2>1, OneLess DEF Without, ToastInv
<1>2. CASE ~IsShown(id)
  BY <1>2 DEF IsShown, Without, ToastInv
<1> QED
  BY <1>1, <1>2

(* A toast of a new id, or the banner in the place of the one before.      *)
LEMMA ANewToast ==
    ASSUME ToastInv, NEW id \in Ids(emitted + 1), id = Banner \/ id = PlainId, Emit(id)
    PROVE  ToastInv'
<1> DEFINE w == Without(id)  s == Last3(w)  e == [id |-> id, timers |-> 1]  t == Append(s, e)
<1>1. Stack(w, emitted) /\ \A k \in DOMAIN w : w[k].id # id
  BY WithoutIt
<1> HIDE DEF w
<1>2. Len(w) \in Nat /\ DOMAIN w = 1..Len(w) /\ w \in Seq(ToastSet(emitted))
  BY <1>1, LenProperties DEF Stack
<1>3. PICK a \in 1..(Len(w) + 1) : s = SubSeq(w, a, Len(w))
  <2>1. CASE Len(w) > 3
    <3>1. s = SubSeq(w, Len(w) - 2, Len(w))
      BY <2>1 DEF Last3
    <3>2. Len(w) - 2 \in 1..(Len(w) + 1)
      BY <1>2, <2>1
    <3> QED
      BY <3>1, <3>2
  <2>2. CASE ~(Len(w) > 3)
    <3>1. s = SubSeq(w, 1, Len(w))
      BY <2>2 DEF Last3
    <3> QED
      BY <1>2, <2>2, <3>1
  <2> QED
    BY <2>1, <2>2
<1>4. Stack(s, emitted)
  BY <1>1, <1>3, PartOfAStack
<1>5. \A k \in DOMAIN s : s[k].id # id
  <2>1. Len(s) = Len(w) - a + 1 /\ \A k \in 1..(Len(w) - a + 1) : s[k] = w[a + k - 1]
    BY <1>2, <1>3, SubSeqProperties
  <2>2. DOMAIN s = 1..(Len(w) - a + 1)
    BY <1>4, <2>1, LenProperties DEF Stack
  <2> QED
    BY <1>1, <1>2, <2>1, <2>2
<1> HIDE DEF s
<1>6. emitted \in Nat /\ Ids(emitted) \subseteq Ids(emitted + 1)
  BY DEF ToastInv, Ids
<1>7. ToastSet(emitted) \subseteq ToastSet(emitted + 1) /\ e \in ToastSet(emitted + 1) /\ e.id = id /\ e.timers = 1
  BY <1>6 DEF ToastSet
<1> HIDE DEF e
<1>8. s \in Seq(ToastSet(emitted + 1)) /\ Len(s) \in Nat /\ DOMAIN s = 1..Len(s)
  BY <1>4, <1>7 DEF Stack
<1>9. t \in Seq(ToastSet(emitted + 1)) /\ Len(t) = Len(s) + 1 /\ t[Len(s) + 1] = e /\ \A k \in 1..Len(s) : t[k] = s[k]
  BY <1>7, <1>8, AppendProperties
<1>10. DOMAIN t = 1..(Len(s) + 1)
  BY <1>9, LenProperties
<1> HIDE DEF t
<1>11. OwnIds(t)
  BY <1>4, <1>5, <1>7, <1>8, <1>9, <1>10 DEF Stack, OwnIds
<1>12. TimeRuns(t)
  BY <1>4, <1>7, <1>8, <1>9, <1>10 DEF Stack, TimeRuns
<1>13. stack' = t /\ emitted' = emitted + 1 /\ over' = over
  BY DEF Emit, e, s, t, w
<1>14. Stack(stack, emitted)'
  BY <1>9, <1>11, <1>12, <1>13 DEF Stack, OwnIds, TimeRuns
<1> QED
  BY <1>6, <1>13, <1>14 DEF ToastInv

(* The time of one toast is changed; the others and the ids stay.          *)
LEMMA TimeChanged ==
    ASSUME ToastInv, NEW i \in DOMAIN stack, NEW left \in Nat,
           stack' = [stack EXCEPT ![i].timers = left], UNCHANGED emitted,
           \A k \in DOMAIN stack \ {i} : stack[k].timers > 0 \/ over' = stack[k].id,
           left > 0 \/ over' = stack[i].id
    PROVE  ToastInv'
<1>1. stack \in Seq(ToastSet(emitted)) /\ DOMAIN stack = 1..Len(stack) /\ stack[i] \in ToastSet(emitted)
  BY LenProperties DEF ToastInv, Stack
<1> DEFINE e == [stack[i] EXCEPT !.timers = left]
<1>2. e \in ToastSet(emitted) /\ e.id = stack[i].id /\ e.timers = left
  BY <1>1 DEF ToastSet
<1>3. stack' = [stack EXCEPT ![i] = e]
  OBVIOUS
<1> HIDE DEF e
<1>4. stack' \in Seq(ToastSet(emitted)) /\ DOMAIN stack' = DOMAIN stack /\ stack'[i] = e
      /\ \A k \in DOMAIN stack : k # i => stack'[k] = stack[k]
  BY <1>1, <1>2, <1>3, ExceptSeq
<1>5. \A k \in DOMAIN stack : stack'[k].id = stack[k].id
  BY <1>2, <1>4
<1>6. OwnIds(stack)'
  BY <1>4, <1>5 DEF ToastInv, Stack, OwnIds
<1>7. TimeRuns(stack)'
  BY <1>2, <1>4, <1>5 DEF TimeRuns
<1> QED
  BY <1>4, <1>6, <1>7 DEF ToastInv, Stack

(* No toast stays for good: whatever was replaced, pushed out or left, its *)
(* time runs unless the pointer is over it (App.jsx).                      *)
THEOREM EveryToastGoesEver == ToastsSpec => []EveryToastGoes
<1>1. ToastsInit => ToastInv
  <2> SUFFICES ASSUME ToastsInit PROVE ToastInv
    OBVIOUS
  <2>1. stack = <<>> /\ stack \in Seq(ToastSet(0)) /\ DOMAIN stack = {} /\ emitted = 0
    BY DEF ToastsInit
  <2> QED
    BY <2>1 DEF ToastInv, Stack, OwnIds, TimeRuns
<1>2. ToastInv /\ [ToastsNext]_toastVars => ToastInv'
  <2> SUFFICES ASSUME ToastInv, [ToastsNext]_toastVars PROVE ToastInv'
    OBVIOUS
  <2>1. emitted \in Nat /\ stack \in Seq(ToastSet(emitted)) /\ \A i \in DOMAIN stack : stack[i] \in ToastSet(emitted)
    BY DEF ToastInv, Stack
  <2>2. Banner \in Ids(emitted + 1) /\ PlainId \in Ids(emitted + 1)
    BY <2>1 DEF Ids, PlainId
  <2>3. CASE Emit(Banner) \/ Emit(PlainId)
    BY <2>2, <2>3, ANewToast
  <2>4. ASSUME NEW id, TakeDown(id) PROVE ToastInv'
    <3>1. stack' = Without(id) /\ UNCHANGED <<over, emitted>> /\ Stack(Without(id), emitted)
      BY <2>4, WithoutIt DEF TakeDown
    <3> QED
      BY <2>1, <3>1 DEF ToastInv, Stack, OwnIds, TimeRuns
  <2>5. ASSUME NEW i \in DOMAIN stack, PointerEnter(stack[i].id) PROVE ToastInv'
    <3>1. At(stack[i].id) = i
      BY DEF At, ToastInv, Stack, OwnIds
    <3>2. stack' = [stack EXCEPT ![i].timers = paused(stack[i].timers)] /\ over' = stack[i].id /\ over = NoId /\ UNCHANGED emitted
      BY <2>5, <3>1 DEF PointerEnter
    <3>3. paused(stack[i].timers) \in Nat
      BY <2>1 DEF paused, ToastSet
    <3>4. \A k \in DOMAIN stack : stack[k].id # NoId
      BY <2>1 DEF ToastSet, Ids, Banner, NoId
    <3>5. \A k \in DOMAIN stack : stack[k].timers > 0
      BY <3>2, <3>4 DEF ToastInv, Stack, TimeRuns
    <3> QED
      BY <3>2, <3>3, <3>5, TimeChanged
  <2>6. CASE PointerLeave
    <3>1. CASE IsShown(over)
      <4>1. At(over) \in DOMAIN stack /\ stack[At(over)].id = over
        BY <3>1 DEF IsShown, At
      <4>2. resumed(stack[At(over)].timers) \in Nat /\ resumed(stack[At(over)].timers) > 0
        BY <2>1, <4>1 DEF resumed, ToastSet
      <4>3. \A k \in DOMAIN stack \ {At(over)} : stack[k].timers > 0
        BY <4>1 DEF ToastInv, Stack, TimeRuns, OwnIds
      <4>4. stack' = [stack EXCEPT ![At(over)].timers = resumed(stack[At(over)].timers)] /\ UNCHANGED emitted
        BY <2>6, <3>1, <4>1 DEF PointerLeave
      <4> QED
        BY <4>1, <4>2, <4>3, <4>4, TimeChanged
    <3>2. CASE ~IsShown(over)
      BY <2>6, <3>2 DEF PointerLeave, IsShown, ToastInv, Stack, OwnIds, TimeRuns
    <3> QED
      BY <3>1, <3>2
  <2>7. CASE UNCHANGED toastVars
    BY <2>7 DEF toastVars, ToastInv, Stack, OwnIds, TimeRuns
  <2> QED
    BY <2>3, <2>4, <2>5, <2>6, <2>7 DEF ToastsNext, TimeUp
<1>3. ToastInv => EveryToastGoes
  BY DEF ToastInv, Stack, TimeRuns, EveryToastGoes
<1> QED
  BY <1>1, <1>2, <1>3, PTL DEF ToastsSpec

-----------------------------------------------------------------------------
(* The trade window: what a message of the window shown may say.           *)
Addresses == Slugs \cup {Blank, HomeSlug, "item"}
RowSet == [there : BOOLEAN, slug : Addresses, name : Addresses \cup {Own}, auto : BOOLEAN]
WindowTypes ==
    /\ rows \in [Tabs -> RowSet]
    /\ activeTab \in Tabs \cup {NoTab}
    /\ window \in [wc : Nat, page : Addresses, landing : Addresses]
    /\ navQueue \in Seq([wc : Nat, slug : Addresses])
    /\ names \subseteq [tab : Tabs, name : Addresses]
    /\ ran \in [Tabs -> SUBSET Slugs]
    /\ windowLoads \in Nat /\ skip \in BOOLEAN /\ deps \in Addresses \X Nat

Now(k) == navQueue[k].wc = window.wc
Landed(k) == Now(k) /\ navQueue[k].slug = HomeSlug
Early == window.landing # Blank

(* The site loads its page, then the user runs searches.                   *)
LandsFirst ==
    /\ Early => window.page = Blank /\ \A k \in DOMAIN navQueue : ~Now(k)
    /\ \A k \in DOMAIN navQueue : navQueue[k].wc <= window.wc
    /\ \A k \in DOMAIN navQueue : Landed(k) => \A m \in DOMAIN navQueue : m < k => ~Now(m)
    /\ window.landing = HomeSlug => ~Early \/ \A k \in DOMAIN navQueue : ~Landed(k)

(* What the window shows is its row's: the home, the history row's query,  *)
(* or a search the user ran in it.                                         *)
OfTheRow(slug) ==
    \/ slug = HomeSlug
    \/ slug = "item" /\ activeTab \in HistoryTabs
    \/ slug \in ran[activeTab]
ItsOwnPages ==
    activeTab # NoTab => /\ rows[activeTab].there
                         /\ Early => OfTheRow(window.landing)
                         /\ \A k \in DOMAIN navQueue : Now(k) => OfTheRow(navQueue[k].slug)

(* The next message is skipped exactly when it is the home's landing.      *)
SkipsTheLanding ==
    /\ deps[2] = windowLoads /\ (deps[1] # HomeSlug => ~skip)
    /\ activeTab # NoTab => (skip <=> window.landing = HomeSlug \/ \E k \in DOMAIN navQueue : Landed(k))

(* The last message of the window tells its page, and was it heard, the    *)
(* page is saved.                                                          *)
LastSaved == rows[activeTab].slug = window.page \/ \E t \in Tabs \ {activeTab} : window.page \in ran[t]
LastTells ==
    /\ \A k \in DOMAIN navQueue :
          Now(k) /\ (\A m \in DOMAIN navQueue : m > k => ~Now(m)) => navQueue[k].slug = window.page
    /\ (\A k \in DOMAIN navQueue : ~Now(k)) /\ activeTab \in Tabs \ HistoryTabs /\ window.page \in ran[activeTab] => LastSaved

WindowInv == WindowTypes /\ CapturedWasRun /\ LandsFirst /\ ItsOwnPages /\ SkipsTheLanding /\ LastTells

LEMMA Messages ==
    ASSUME WindowTypes
    PROVE  /\ Len(navQueue) \in Nat /\ DOMAIN navQueue = 1..Len(navQueue)
           /\ \A k \in DOMAIN navQueue : navQueue[k] \in [wc : Nat, slug : Addresses] /\ navQueue[k].wc \in Nat
<1>1. navQueue \in Seq([wc : Nat, slug : Addresses])
  BY DEF WindowTypes
<1>2. Len(navQueue) \in Nat /\ DOMAIN navQueue = 1..Len(navQueue)
  BY <1>1, LenProperties
<1>3. \A k \in DOMAIN navQueue : navQueue[k] \in [wc : Nat, slug : Addresses]
  BY <1>1, <1>2, ElementOfSeq
<1> QED
  BY <1>2, <1>3

LEMMA WindowStart == WindowInit => WindowInv
<1> SUFFICES ASSUME WindowInit PROVE WindowInv
  OBVIOUS
<1>1. /\ navQueue = <<>> /\ navQueue \in Seq([wc : Nat, slug : Addresses]) /\ DOMAIN navQueue = {}
      /\ activeTab = NoTab /\ skip = TRUE /\ windowLoads = 0 /\ names = {} /\ ran = [t \in Tabs |-> {}]
  BY DEF WindowInit
<1>2. window = [wc |-> 1, page |-> Blank, landing |-> HomeSlug] /\ deps = <<HomeSlug, 0>>
  BY DEF WindowInit
<1>3. NewRow \in RowSet /\ NewRow.slug = Blank
  BY DEF NewRow, Addresses, RowSet
<1>4. [NewRow EXCEPT !.auto = FALSE] \in RowSet
      /\ [NewRow EXCEPT !.auto = FALSE].slug = Blank
  BY <1>3 DEF RowSet
<1>5. Absentee \in RowSet /\ Absentee.slug = Blank
  BY DEF Absentee, Addresses, RowSet
<1>6. rows \in [Tabs -> RowSet]
      /\ \A t \in Tabs : rows[t].slug = Blank
  BY <1>4, <1>5 DEF WindowInit
<1>7. WindowTypes
  BY <1>1, <1>2, <1>6 DEF WindowTypes, Addresses
<1>8. LandsFirst /\ SkipsTheLanding /\ ItsOwnPages /\ LastTells
  BY <1>1, <1>2, WindowAssumption DEF LandsFirst, SkipsTheLanding, ItsOwnPages, LastTells, Early
<1> QED
  BY <1>6, <1>7, <1>8 DEF WindowInv, CapturedWasRun

(* A window made anew: nothing on its way is of it.                        *)
LEMMA NewWindow ==
    ASSUME WindowInv, WindowTypes', CapturedWasRun', NEW t \in Tabs \cup {NoTab}, NEW times, Mounts(t, times),
           activeTab' = t, UNCHANGED <<navQueue, ran>>, times = windowLoads',
           t # NoTab => rows'[t].there,
           t # NoTab => Careful(t) \/ times # windowLoads, ~BlankAfterBlank
    PROVE  WindowInv'
<1>1. window' = [wc |-> window.wc + 1, page |-> Blank, landing |-> mountUrl(t)] /\ deps' = <<mountUrl(t), times>>
      /\ skip' = IF deps' # deps THEN mountUrl(t) = HomeSlug ELSE skip
  BY DEF Mounts
<1>2. window \in [wc : Nat, page : Addresses, landing : Addresses] /\ ran \in [Tabs -> SUBSET Slugs]
      /\ rows' \in [Tabs -> RowSet]
  BY DEF WindowInv, WindowTypes
<1>3. window'.wc = window.wc + 1 /\ window'.wc > window.wc /\ window'.page = Blank /\ window'.landing = mountUrl(t)
  BY <1>1, <1>2
<1>4. \A k \in DOMAIN navQueue' : ~Now(k)'
  <2>1. \A k \in DOMAIN navQueue : navQueue[k].wc <= window.wc /\ navQueue[k].wc \in Nat
    BY Messages DEF WindowInv, LandsFirst
  <2> QED
    BY <1>2, <1>3, <2>1 DEF Now
<1>5. LandsFirst'
  <2>1. \A k \in DOMAIN navQueue' : navQueue'[k].wc <= window'.wc
    <3>1. \A k \in DOMAIN navQueue : navQueue[k].wc <= window.wc /\ navQueue[k].wc \in Nat
      BY Messages DEF WindowInv, LandsFirst
    <3> QED
      BY <1>2, <1>3, <3>1
  <2> QED
    BY <1>3, <1>4, <2>1 DEF LandsFirst, Landed
<1>6. mountUrl(t) \notin {Blank, HomeSlug, "item"} => t \in Tabs /\ mountUrl(t) \in ran'[t]
  BY <1>2 DEF mountUrl, CapturedWasRun
<1>7. ItsOwnPages'
  <2>1. mountUrl(t) = "item" => t \in HistoryTabs
    <3> SUFFICES ASSUME mountUrl(t) = "item", t \notin HistoryTabs PROVE FALSE
      OBVIOUS
    <3>1. t \in Tabs /\ rows'[t].slug = "item"
      BY DEF mountUrl, HomeSlug
    <3>2. "item" \in ran'[t]
      BY <3>1 DEF CapturedWasRun, Blank
    <3> QED
      BY <1>2, <3>1, <3>2, WindowAssumption
  <2>2. mountUrl(t) # Blank
    BY DEF mountUrl, HomeSlug, Blank
  <2> QED
    BY <1>3, <1>4, <1>6, <2>1, <2>2 DEF ItsOwnPages, OfTheRow
<1>8. SkipsTheLanding'
  <2>1. deps \in Addresses \X Nat /\ deps[2] = windowLoads /\ (deps[1] # HomeSlug => ~skip) /\ deps = <<deps[1], deps[2]>>
    BY DEF WindowInv, WindowTypes, SkipsTheLanding
  <2>2. deps'[1] = mountUrl(t) /\ deps'[2] = times
    BY <1>1
  <2>3. deps' = deps => deps[1] = mountUrl(t) /\ times = windowLoads
    BY <2>1, <2>2
  <2>4. mountUrl(t) # HomeSlug => ~skip'
    BY <1>1, <2>1, <2>3
  <2>5. t # NoTab /\ mountUrl(t) = HomeSlug => skip'
    BY <1>1, <2>3 DEF Careful
  <2> QED
    BY <1>3, <1>4, <2>2, <2>4, <2>5 DEF SkipsTheLanding, Landed
<1>9. LastTells'
  <2>1. Blank \notin Slugs
    BY WindowAssumption
  <2> QED
    BY <1>2, <1>3, <1>4, <2>1 DEF LastTells
<1> QED
  BY <1>5, <1>7, <1>8, <1>9 DEF WindowInv

LEMMA RowsOf ==
    ASSUME WindowTypes
    PROVE  /\ NewRow \in RowSet /\ NewRow.there /\ NewRow.slug = Blank /\ Absentee \in RowSet /\ Absentee.slug = Blank
           /\ \A t \in Tabs : /\ rows[t] \in RowSet
                              /\ [rows[t] EXCEPT !.name = Own, !.auto = FALSE] \in RowSet
                              /\ [rows[t] EXCEPT !.name = Own, !.auto = FALSE].slug = rows[t].slug
                              /\ [rows[t] EXCEPT !.name = Own, !.auto = FALSE].there = rows[t].there
           /\ \A t \in Tabs, x \in Addresses :
                 /\ [rows[t] EXCEPT !.name = x] \in RowSet
                 /\ [rows[t] EXCEPT !.name = x].slug = rows[t].slug /\ [rows[t] EXCEPT !.name = x].there = rows[t].there
                 /\ [rows[t] EXCEPT !.slug = x] \in RowSet
                 /\ [rows[t] EXCEPT !.slug = x].slug = x /\ [rows[t] EXCEPT !.slug = x].there = rows[t].there
<1>1. NewRow \in RowSet /\ NewRow.there /\ NewRow.slug = Blank /\ Absentee \in RowSet /\ Absentee.slug = Blank
  BY DEF NewRow, Absentee, RowSet, Addresses
<1>2. \A t \in Tabs : rows[t] \in RowSet
  BY DEF WindowTypes
<1>3. ASSUME NEW r \in RowSet
      PROVE  /\ [r EXCEPT !.name = Own, !.auto = FALSE] \in RowSet
             /\ [r EXCEPT !.name = Own, !.auto = FALSE].slug = r.slug
             /\ [r EXCEPT !.name = Own, !.auto = FALSE].there = r.there
  BY DEF RowSet
<1>4. ASSUME NEW r \in RowSet, NEW x \in Addresses
      PROVE  /\ [r EXCEPT !.name = x] \in RowSet
             /\ [r EXCEPT !.name = x].slug = r.slug /\ [r EXCEPT !.name = x].there = r.there
             /\ [r EXCEPT !.slug = x] \in RowSet
             /\ [r EXCEPT !.slug = x].slug = x /\ [r EXCEPT !.slug = x].there = r.there
  BY DEF RowSet
<1> QED
  BY <1>1, <1>2, <1>3, <1>4

LEMMA MountsTypes ==
    ASSUME WindowTypes, NEW t \in Tabs \cup {NoTab}, Mounts(t, windowLoads'), activeTab' = t, windowLoads' \in Nat,
           rows' \in [Tabs -> RowSet], UNCHANGED <<navQueue, names, ran>>
    PROVE  WindowTypes'
<1>1. mountUrl(t) \in Addresses
  <2>1. t \in Tabs => rows'[t].slug \in Addresses
    BY DEF RowSet
  <2> QED
    BY <2>1 DEF mountUrl, Addresses
<1>2. window' \in [wc : Nat, page : Addresses, landing : Addresses] /\ deps' \in Addresses \X Nat /\ skip' \in BOOLEAN
  <2>1. window.wc \in Nat /\ skip \in BOOLEAN
    BY DEF WindowTypes
  <2>2. window' = [wc |-> window.wc + 1, page |-> Blank, landing |-> mountUrl(t)] /\ deps' = <<mountUrl(t), windowLoads'>>
        /\ skip' = IF deps' # deps THEN mountUrl(t) = HomeSlug ELSE skip
    BY DEF Mounts
  <2>3. skip' \in BOOLEAN
    BY <2>1, <2>2
  <2>4. Blank \in Addresses
    BY DEF Addresses
  <2> QED
    BY <1>1, <2>1, <2>2, <2>3, <2>4
<1> QED
  BY <1>2 DEF WindowTypes

(* A step on other rows, or on a row's name.                               *)
LEMMA OtherRows ==
    ASSUME WindowInv, activeTab \in Tabs => rows'[activeTab].slug = rows[activeTab].slug /\ rows'[activeTab].there = rows[activeTab].there,
           UNCHANGED <<activeTab, window, deps, skip, windowLoads, navQueue, ran>>, activeTab \in Tabs \cup {NoTab}
    PROVE  LandsFirst' /\ ItsOwnPages' /\ SkipsTheLanding' /\ LastTells'
<1>1. LandsFirst' /\ SkipsTheLanding'
  BY DEF WindowInv, LandsFirst, SkipsTheLanding, Landed, Now, Early
<1>2. ItsOwnPages'
  BY DEF WindowInv, ItsOwnPages, OfTheRow, Now, Early
<1>3. LastTells'
  BY DEF WindowInv, LastTells, LastSaved, Now
<1> QED
  BY <1>1, <1>2, <1>3

(* Another row, a new one, or one deleted.                                 *)
LEMMA TabSteps ==
    ASSUME WindowInv, ~BlankAfterBlank, NEW t \in Tabs, SelectTab(t) \/ NewTab(t) \/ DeleteTab(t)
    PROVE  WindowInv'
<1>1. WindowTypes /\ rows \in [Tabs -> RowSet] /\ t # NoTab /\ activeTab \in Tabs \cup {NoTab} /\ windowLoads \in Nat
  BY WindowAssumption DEF WindowInv, WindowTypes
<1>2. CASE SelectTab(t)
  <2>1. Mounts(t, windowLoads) /\ activeTab' = t /\ Careful(t) /\ UNCHANGED <<rows, windowLoads, navQueue, names, ran>>
    BY <1>2 DEF SelectTab
  <2>2. CapturedWasRun' /\ rows'[t].there
    BY <1>2, <2>1 DEF WindowInv, CapturedWasRun, SelectTab
  <2>3. WindowTypes'
    BY <1>1, <2>1, MountsTypes
  <2> QED
    BY <1>1, <2>1, <2>2, <2>3, NewWindow
<1>3. CASE NewTab(t)
  <2>1. /\ Mounts(t, windowLoads) /\ activeTab' = t /\ Careful(t) /\ UNCHANGED <<windowLoads, navQueue, names, ran>>
        /\ rows' = [rows EXCEPT ![t] = NewRow]
    BY <1>3 DEF NewTab
  <2>2. CapturedWasRun' /\ rows'[t].there /\ rows' \in [Tabs -> RowSet]
    BY <1>1, <2>1, RowsOf DEF WindowInv, CapturedWasRun
  <2>3. WindowTypes'
    BY <1>1, <2>1, <2>2, MountsTypes
  <2> QED
    BY <1>1, <2>1, <2>2, <2>3, NewWindow
<1>4. CASE DeleteTab(t)
  <2>1. /\ rows' = [rows EXCEPT ![t] = Absentee] /\ UNCHANGED <<windowLoads, navQueue, names, ran>>
        /\ rows' \in [Tabs -> RowSet]
    BY <1>1, <1>4, RowsOf DEF DeleteTab
  <2>2. CapturedWasRun'
    BY <1>1, <2>1, RowsOf DEF WindowInv, CapturedWasRun
  <2>3. CASE activeTab = t
    <3>1. activeTab' = NoTab /\ Mounts(NoTab, windowLoads)
      BY <1>4, <2>3 DEF DeleteTab
    <3>2. WindowTypes'
      BY <1>1, <2>1, <3>1, MountsTypes
    <3> QED
      BY <2>1, <2>2, <3>1, <3>2, NewWindow
  <2>4. CASE activeTab # t
    <3>1. UNCHANGED <<activeTab, window, deps, skip>>
      BY <1>4, <2>4 DEF DeleteTab
    <3>2. activeTab \in Tabs => rows'[activeTab] = rows[activeTab]
      BY <1>1, <2>1, <2>4
    <3>3. WindowTypes'
      BY <1>1, <2>1, <3>1 DEF WindowTypes
    <3> QED
      BY <1>1, <2>1, <2>2, <3>1, <3>2, <3>3, OtherRows DEF WindowInv
  <2> QED
    BY <2>3, <2>4
<1> QED
  BY <1>2, <1>3, <1>4

LEMMA ReloadStep == ASSUME WindowInv, ~BlankAfterBlank, ReloadWindow PROVE WindowInv'
<1>1. WindowTypes /\ rows \in [Tabs -> RowSet] /\ activeTab \in Tabs \cup {NoTab} /\ windowLoads \in Nat
  BY DEF WindowInv, WindowTypes
<1>2. /\ Mounts(activeTab, windowLoads') /\ windowLoads' = windowLoads + 1
        /\ UNCHANGED <<rows, activeTab, navQueue, names, ran>>
  BY DEF ReloadWindow
<1>3. CapturedWasRun' /\ (activeTab # NoTab => rows'[activeTab].there)
  BY <1>2 DEF WindowInv, CapturedWasRun, ItsOwnPages
<1>4. WindowTypes'
  BY <1>1, <1>2, MountsTypes
<1> QED
  BY <1>1, <1>2, <1>3, <1>4, NewWindow

(* The window tells of a page: the message is its last one.                *)
LEMMA TellsOfIt ==
    ASSUME WindowInv, NEW slug \in Addresses, Told(slug), window'.wc = window.wc, NEW n, n = Len(navQueue) + 1
    PROVE  /\ navQueue' \in Seq([wc : Nat, slug : Addresses])
           /\ DOMAIN navQueue' = DOMAIN navQueue \cup {n}
           /\ \A k \in DOMAIN navQueue : navQueue'[k] = navQueue[k] /\ k < n /\ (Now(k)' <=> Now(k))
           /\ navQueue'[n].slug = slug /\ navQueue'[n].wc = window.wc /\ Now(n)'
<1> DEFINE e == [wc |-> window.wc, slug |-> slug]
<1>1. navQueue \in Seq([wc : Nat, slug : Addresses]) /\ Len(navQueue) \in Nat /\ DOMAIN navQueue = 1..Len(navQueue)
      /\ window.wc \in Nat
  BY Messages DEF WindowInv, WindowTypes
<1>2. e \in [wc : Nat, slug : Addresses] /\ e.slug = slug /\ e.wc = window.wc
  BY <1>1
<1>3. navQueue' = Append(navQueue, e)
  BY DEF Told
<1> HIDE DEF e
<1>4. /\ navQueue' \in Seq([wc : Nat, slug : Addresses]) /\ Len(navQueue') = n
      /\ navQueue'[n] = e /\ \A k \in 1..Len(navQueue) : navQueue'[k] = navQueue[k]
  BY <1>1, <1>2, <1>3, AppendProperties
<1>5. DOMAIN navQueue' = 1..n
  BY <1>4, LenProperties
<1>6. \A k \in DOMAIN navQueue : navQueue'[k] = navQueue[k] /\ k < n
  BY <1>1, <1>4
<1>7. DOMAIN navQueue' = DOMAIN navQueue \cup {n}
  BY <1>1, <1>5
<1>8. \A k \in DOMAIN navQueue : Now(k)' <=> Now(k)
  BY <1>6 DEF Now
<1>9. Now(n)'
  BY <1>2, <1>4 DEF Now
<1> QED
  BY <1>2, <1>4, <1>6, <1>7, <1>8, <1>9

LEMMA SiteSteps ==
    ASSUME WindowInv, Lands \/ \E slug \in Slugs : UserRuns(slug)
    PROVE  WindowInv'
<1>n. PICK n : n = Len(navQueue) + 1
  OBVIOUS
<1>1. /\ WindowTypes /\ window \in [wc : Nat, page : Addresses, landing : Addresses] /\ ran \in [Tabs -> SUBSET Slugs]
      /\ Len(navQueue) \in Nat /\ DOMAIN navQueue = 1..Len(navQueue) /\ Slugs \subseteq Addresses /\ Blank \in Addresses
      /\ activeTab \in Tabs \cup {NoTab} /\ NoTab \notin Tabs
  BY Messages, WindowAssumption DEF WindowInv, WindowTypes, Addresses
<1>2. PICK slug \in Addresses :
         /\ Told(slug) /\ window' = [window EXCEPT !.page = slug, !.landing = Blank]
         /\ \/ slug = window.landing /\ Early /\ UNCHANGED ran
            \/ ~Early /\ slug \in Slugs /\ activeTab \in Tabs /\ ran' = [ran EXCEPT ![activeTab] = @ \cup {slug}]
  <2>1. CASE Lands
    BY <1>1, <2>1 DEF Lands, Early
  <2>2. ASSUME NEW slug \in Slugs, UserRuns(slug)
        PROVE  /\ slug \in Addresses /\ Told(slug) /\ window' = [window EXCEPT !.page = slug, !.landing = Blank]
               /\ ~Early /\ activeTab \in Tabs /\ ran' = [ran EXCEPT ![activeTab] = @ \cup {slug}]
    <3>1. window.landing = Blank /\ window' = [window EXCEPT !.page = slug]
      BY <2>2 DEF UserRuns
    <3> QED
      BY <1>1, <2>2, <3>1 DEF UserRuns, Early
  <2> QED
    BY <2>1, <2>2
<1>3. UNCHANGED <<rows, activeTab, deps, skip, windowLoads, names>>
  BY DEF Lands, UserRuns
<1>4. window'.wc = window.wc /\ window'.page = slug /\ window'.landing = Blank
      /\ window' \in [wc : Nat, page : Addresses, landing : Addresses]
  <2>1. ASSUME NEW r \in [wc : Nat, page : Addresses, landing : Addresses]
        PROVE  /\ [r EXCEPT !.page = slug, !.landing = Blank] \in [wc : Nat, page : Addresses, landing : Addresses]
               /\ [r EXCEPT !.page = slug, !.landing = Blank].wc = r.wc
               /\ [r EXCEPT !.page = slug, !.landing = Blank].page = slug
               /\ [r EXCEPT !.page = slug, !.landing = Blank].landing = Blank
    BY <1>1
  <2>2. window \in [wc : Nat, page : Addresses, landing : Addresses]
    BY <1>1
  <2>3. window' = [window EXCEPT !.page = slug, !.landing = Blank]
    BY <1>2
  <2> QED
    BY <2>1, <2>2, <2>3
<1>5. /\ navQueue' \in Seq([wc : Nat, slug : Addresses]) /\ DOMAIN navQueue' = DOMAIN navQueue \cup {n}
      /\ \A k \in DOMAIN navQueue : navQueue'[k] = navQueue[k] /\ k < n /\ (Now(k)' <=> Now(k))
      /\ navQueue'[n].slug = slug /\ navQueue'[n].wc = window.wc /\ Now(n)'
  <2>1. Told(slug) /\ window'.wc = window.wc
    BY <1>2, <1>4
  <2> QED
    BY <1>n, <2>1, TellsOfIt
<1>6. ran' \in [Tabs -> SUBSET Slugs] /\ \A t \in Tabs : ran[t] \subseteq ran'[t]
  BY <1>1, <1>2
<1>7. WindowTypes' /\ CapturedWasRun'
  BY <1>1, <1>3, <1>4, <1>5, <1>6 DEF WindowInv, WindowTypes, CapturedWasRun
<1>8. slug = HomeSlug => \A k \in DOMAIN navQueue : ~Now(k)
  BY <1>2, WindowAssumption DEF WindowInv, LandsFirst
<1>9. LandsFirst'
  <2>1. \A k \in DOMAIN navQueue' : navQueue'[k].wc <= window'.wc
    BY <1>1, <1>4, <1>5 DEF WindowInv, LandsFirst
  <2>2. ~Early'
    BY <1>4 DEF Early
  <2>3. \A k \in DOMAIN navQueue' : Landed(k)' => \A m \in DOMAIN navQueue' : m < k => ~Now(m)'
    <3> SUFFICES ASSUME NEW k \in DOMAIN navQueue', Landed(k)', NEW m \in DOMAIN navQueue', m < k PROVE ~Now(m)'
      OBVIOUS
    <3>1. m \in DOMAIN navQueue
      BY <1>n, <1>1, <1>5
    <3>2. CASE k = n
      BY <1>5, <1>8, <3>1, <3>2 DEF Landed
    <3>3. CASE k # n
      BY <1>5, <3>1, <3>3 DEF WindowInv, LandsFirst, Landed
    <3> QED
      BY <3>2, <3>3
  <2> QED
    BY <1>4, <2>1, <2>2, <2>3 DEF LandsFirst
<1>10. ItsOwnPages'
  <2> SUFFICES ASSUME activeTab # NoTab PROVE ItsOwnPages'
    BY <1>3 DEF ItsOwnPages
  <2>1. activeTab \in Tabs /\ rows'[activeTab].there /\ ran[activeTab] \subseteq ran'[activeTab]
    BY <1>1, <1>3, <1>6 DEF WindowInv, ItsOwnPages
  <2>2. OfTheRow(slug)'
    BY <1>1, <1>2, <1>3, <2>1 DEF WindowInv, ItsOwnPages, OfTheRow
  <2>3. ASSUME NEW x, OfTheRow(x) PROVE OfTheRow(x)'
    BY <1>3, <2>1, <2>3 DEF OfTheRow
  <2>4. ASSUME NEW k \in DOMAIN navQueue', Now(k)', NEW x, x = navQueue'[k].slug PROVE OfTheRow(x)'
    <3>1. CASE k = n
      BY <1>5, <2>2, <2>4, <3>1
    <3>2. CASE k # n
      <4>1. k \in DOMAIN navQueue /\ Now(k) /\ x = navQueue[k].slug
        BY <1>5, <2>4, <3>2
      <4> QED
        BY <1>3, <2>3, <4>1 DEF WindowInv, ItsOwnPages
    <3> QED
      BY <3>1, <3>2
  <2>5. ASSUME NEW k \in DOMAIN navQueue', Now(k)' PROVE OfTheRow(navQueue[k].slug)'
    <3>1. PICK x : x = navQueue'[k].slug
      OBVIOUS
    <3>2. OfTheRow(x)'
      BY <2>4, <2>5, <3>1
    <3> QED
      BY <3>1, <3>2 DEF OfTheRow
  <2> QED
    BY <1>3, <1>4, <2>1, <2>2, <2>5 DEF ItsOwnPages, OfTheRow, Early
<1>11. SkipsTheLanding'
  <2>1. (\E k \in DOMAIN navQueue' : Landed(k)') <=> slug = HomeSlug \/ \E k \in DOMAIN navQueue : Landed(k)
    <3>1. \A k \in DOMAIN navQueue : Landed(k)' <=> Landed(k)
      BY <1>5 DEF Landed
    <3>2. Landed(n)' <=> slug = HomeSlug
      BY <1>5 DEF Landed
    <3> QED
      BY <1>5, <3>1, <3>2
  <2>2. slug = HomeSlug <=> window.landing = HomeSlug
    BY <1>2, WindowAssumption DEF Early, HomeSlug, Blank
  <2> QED
    BY <1>3, <1>4, <2>1, <2>2 DEF WindowInv, SkipsTheLanding, HomeSlug, Blank
<1>12. LastTells'
  <2>1. \A k \in DOMAIN navQueue' : Now(k)' /\ (\A m \in DOMAIN navQueue' : m > k => ~Now(m)') => navQueue'[k].slug = window'.page
    <3> SUFFICES ASSUME NEW k \in DOMAIN navQueue', Now(k)', \A m \in DOMAIN navQueue' : m > k => ~Now(m)'
                 PROVE  navQueue'[k].slug = window'.page
      OBVIOUS
    <3>1. n \in DOMAIN navQueue' /\ n \in Nat
      BY <1>n, <1>1, <1>5
    <3>2. k = n
      BY <1>1, <1>5, <3>1
    <3> QED
      BY <1>4, <1>5, <3>2
  <2>2. n \in DOMAIN navQueue' /\ Now(n)'
    BY <1>5
  <2> QED
    BY <2>1, <2>2 DEF LastTells
<1> QED
  BY <1>7, <1>9, <1>10, <1>11, <1>12 DEF WindowInv
LEMMA OneRow ==
    ASSUME WindowTypes, NEW t \in Tabs, NEW r \in RowSet, rows' = [rows EXCEPT ![t] = r], r.there = rows[t].there
    PROVE  /\ rows' \in [Tabs -> RowSet] /\ rows'[t] = r
           /\ \A u \in Tabs : rows'[u].there = rows[u].there /\ (u # t => rows'[u] = rows[u])
  BY DEF WindowTypes

LEMMA NameSteps ==
    ASSUME WindowInv, (\E t \in Tabs : RenameTab(t)) \/ \E n \in names : autoName(n)
    PROVE  WindowInv'
<1>1. WindowTypes /\ rows \in [Tabs -> RowSet] /\ activeTab \in Tabs \cup {NoTab} /\ names \subseteq [tab : Tabs, name : Addresses]
  BY DEF WindowInv, WindowTypes
<1>2. /\ UNCHANGED <<activeTab, window, deps, skip, windowLoads, navQueue, ran>> /\ names' \subseteq names
      /\ rows' \in [Tabs -> RowSet] /\ \A t \in Tabs : rows'[t].slug = rows[t].slug /\ rows'[t].there = rows[t].there
  <2>1. ASSUME NEW t \in Tabs, RenameTab(t) PROVE <1>2!1 /\ <1>2!2
    <3>1. PICK r : r = [rows[t] EXCEPT !.name = Own, !.auto = FALSE]
      OBVIOUS
    <3>2. r \in RowSet /\ r.slug = rows[t].slug /\ r.there = rows[t].there
      BY <1>1, <3>1, RowsOf
    <3>3. rows' = [rows EXCEPT ![t] = r] /\ UNCHANGED <<activeTab, window, deps, skip, windowLoads, navQueue, names, ran>>
      BY <1>1, <2>1, <3>1 DEF RenameTab
    <3> QED
      BY <1>1, <3>2, <3>3, OneRow
  <2>2. ASSUME NEW n \in names, autoName(n) PROVE <1>2!1 /\ <1>2!2
    <3>1. n.tab \in Tabs /\ n.name \in Addresses
      BY <1>1
    <3>2. UNCHANGED <<activeTab, window, deps, skip, windowLoads, navQueue, ran>> /\ names' \subseteq names
      BY <2>2 DEF autoName
    <3>3. CASE rows' = rows
      BY <1>1, <3>2, <3>3
    <3>4. CASE rows' # rows
      <4>1. PICK r : r = [rows[n.tab] EXCEPT !.name = n.name]
        OBVIOUS
      <4>2. r \in RowSet /\ r.slug = rows[n.tab].slug /\ r.there = rows[n.tab].there
        BY <1>1, <3>1, <4>1, RowsOf
      <4>3. rows' = [rows EXCEPT ![n.tab] = r]
        BY <1>1, <2>2, <3>1, <3>4, <4>1 DEF autoName
      <4> QED
        BY <1>1, <3>1, <3>2, <4>2, <4>3, OneRow
    <3> QED
      BY <3>3, <3>4
  <2> QED
    BY <2>1, <2>2
<1>3. WindowTypes' /\ CapturedWasRun'
  BY <1>1, <1>2 DEF WindowInv, WindowTypes, CapturedWasRun
<1> QED
  BY <1>1, <1>2, <1>3, OtherRows DEF WindowInv

(* The head of the messages is read.                                       *)
LEMMA Popped ==
    ASSUME WindowTypes, navQueue # <<>>, navQueue' = Tail(navQueue), UNCHANGED window
    PROVE  /\ 1 \in DOMAIN navQueue /\ Head(navQueue) = navQueue[1]
           /\ navQueue' \in Seq([wc : Nat, slug : Addresses])
           /\ \A k \in DOMAIN navQueue' : /\ k \in Nat /\ k + 1 \in DOMAIN navQueue /\ k + 1 > 1
                                          /\ navQueue'[k] = navQueue[k + 1]
                                          /\ (Now(k)' <=> Now(k + 1)) /\ (Landed(k)' <=> Landed(k + 1))
           /\ \A m \in DOMAIN navQueue : m \in Nat /\ (m = 1 \/ (m > 1 /\ m - 1 \in DOMAIN navQueue'))
<1>1. navQueue \in Seq([wc : Nat, slug : Addresses]) /\ Len(navQueue) \in Nat /\ DOMAIN navQueue = 1..Len(navQueue)
  BY Messages DEF WindowTypes
<1>2. /\ Head(navQueue) = navQueue[1] /\ Len(navQueue) >= 1
      /\ navQueue' \in Seq([wc : Nat, slug : Addresses]) /\ Len(navQueue') = Len(navQueue) - 1
      /\ \A k \in 1..(Len(navQueue) - 1) : navQueue'[k] = navQueue[k + 1]
  BY <1>1, HeadTailProperties, EmptySeq
<1>3. DOMAIN navQueue' = 1..(Len(navQueue) - 1)
  BY <1>1, <1>2, LenProperties
<1>4. \A k \in DOMAIN navQueue' : k \in Nat /\ k + 1 \in DOMAIN navQueue /\ k + 1 > 1 /\ navQueue'[k] = navQueue[k + 1]
  BY <1>1, <1>2, <1>3
<1>5. \A k \in DOMAIN navQueue' : (Now(k)' <=> Now(k + 1)) /\ (Landed(k)' <=> Landed(k + 1))
  BY <1>4 DEF Now, Landed
<1>6. \A m \in DOMAIN navQueue : m \in Nat /\ (m = 1 \/ (m > 1 /\ m - 1 \in DOMAIN navQueue'))
  BY <1>1, <1>3
<1>7. 1 \in DOMAIN navQueue
  BY <1>1, <1>2
<1> QED
  BY <1>2, <1>4, <1>5, <1>6, <1>7

(* The order of the messages that are left, and the window's last one.     *)
LEMMA NavOrder ==
    ASSUME WindowInv, navQueue # <<>>, navQueue' = Tail(navQueue), UNCHANGED window
    PROVE  /\ LandsFirst'
           /\ \A k \in DOMAIN navQueue' : Now(k)' /\ (\A m \in DOMAIN navQueue' : m > k => ~Now(m)')
                                          => navQueue'[k].slug = window'.page
<1>1. WindowTypes
  BY DEF WindowInv
<1>2. LandsFirst'
  <2>1. \A k \in DOMAIN navQueue' : navQueue'[k].wc <= window'.wc
    BY <1>1, Popped DEF WindowInv, LandsFirst
  <2>2. \A k \in DOMAIN navQueue' : Landed(k)' => \A m \in DOMAIN navQueue' : m < k => ~Now(m)'
    <3> SUFFICES ASSUME NEW k \in DOMAIN navQueue', Landed(k)', NEW m \in DOMAIN navQueue', m < k PROVE ~Now(m)'
      OBVIOUS
    <3>1. k + 1 \in DOMAIN navQueue /\ m + 1 \in DOMAIN navQueue /\ m + 1 < k + 1 /\ Landed(k + 1) /\ (Now(m)' <=> Now(m + 1))
      BY <1>1, Popped
    <3> QED
      BY <3>1 DEF WindowInv, LandsFirst
  <2>3. \A k \in DOMAIN navQueue' : (Now(k)' => \E m \in DOMAIN navQueue : Now(m)) /\ (Landed(k)' => \E m \in DOMAIN navQueue : Landed(m))
    BY <1>1, Popped
  <2>4. Early' <=> Early
    BY DEF Early
  <2> QED
    BY <2>1, <2>2, <2>3, <2>4 DEF WindowInv, LandsFirst
<1>3. ASSUME NEW k \in DOMAIN navQueue', Now(k)', \A m \in DOMAIN navQueue' : m > k => ~Now(m)'
      PROVE  navQueue'[k].slug = window'.page
  <2>1. k \in Nat /\ k + 1 \in DOMAIN navQueue /\ navQueue'[k] = navQueue[k + 1] /\ Now(k + 1)
    BY <1>1, <1>3, Popped
  <2>2. ASSUME NEW m \in DOMAIN navQueue, m > k + 1, Now(m) PROVE FALSE
    <3>1. m \in Nat /\ m - 1 \in DOMAIN navQueue' /\ m - 1 > k /\ m - 1 + 1 = m
      BY <1>1, <2>1, <2>2, Popped
    <3>2. Now(m - 1)' <=> Now(m - 1 + 1)
      BY <1>1, <3>1, Popped
    <3> QED
      BY <1>3, <2>2, <3>1, <3>2
  <2> QED
    BY <2>1, <2>2 DEF WindowInv, LastTells
<1> QED
  BY <1>2, <1>3

LEMMA LastHeard ==
    ASSUME WindowInv, navQueue # <<>>, navQueue' = Tail(navQueue), UNCHANGED window, Now(1),
           \A k \in DOMAIN navQueue' : ~Now(k)'
    PROVE  Head(navQueue).slug = window.page
<1>1. WindowTypes
  BY DEF WindowInv
<1>2. ASSUME NEW m \in DOMAIN navQueue, m > 1, Now(m) PROVE FALSE
  <2>1. m \in Nat /\ m - 1 \in DOMAIN navQueue' /\ m - 1 + 1 = m
    BY <1>1, <1>2, Popped
  <2>2. Now(m - 1)' <=> Now(m - 1 + 1)
    BY <1>1, <2>1, Popped
  <2> QED
    BY <1>2, <2>1, <2>2
<1>3. 1 \in DOMAIN navQueue /\ Head(navQueue) = navQueue[1]
  BY <1>1, Popped
<1> QED
  BY <1>2, <1>3 DEF WindowInv, LastTells

(* A message is read: heard, it may be saved.                              *)
LEMMA NavStep ==
    ASSUME WindowInv, WebviewNav
    PROVE  WindowInv'
<1> DEFINE p == Head(navQueue)
<1>1. /\ WindowTypes /\ rows \in [Tabs -> RowSet] /\ activeTab \in Tabs \cup {NoTab} /\ ran \in [Tabs -> SUBSET Slugs]
      /\ names \subseteq [tab : Tabs, name : Addresses] /\ window.page \in Addresses /\ skip \in BOOLEAN
  BY DEF WindowInv, WindowTypes
<1>2. navQueue # <<>> /\ navQueue' = Tail(navQueue) /\ UNCHANGED <<activeTab, window, deps, windowLoads, ran>>
  BY DEF WebviewNav
<1>3. p = navQueue[1] /\ 1 \in DOMAIN navQueue /\ p.slug \in Addresses /\ (p.wc = window.wc <=> Now(1))
  BY <1>1, <1>2, Popped, Messages DEF Now
<1>4. CASE ~Now(1) \/ activeTab = NoTab
  <2>1. UNCHANGED <<skip, rows, names>>
    BY <1>3, <1>4 DEF WebviewNav, shouldAcceptNav
  <2>2. WindowTypes' /\ CapturedWasRun'
    BY <1>1, <1>2, <2>1, Popped DEF WindowInv, WindowTypes, CapturedWasRun
  <2>3. SkipsTheLanding'
    <3>1. activeTab # NoTab => ((\E k \in DOMAIN navQueue' : Landed(k)') <=> \E m \in DOMAIN navQueue : Landed(m))
      <4> SUFFICES ASSUME activeTab # NoTab
                   PROVE  (\E k \in DOMAIN navQueue' : Landed(k)') <=> \E m \in DOMAIN navQueue : Landed(m)
        OBVIOUS
      <4>1. ASSUME NEW m \in DOMAIN navQueue, Landed(m) PROVE \E k \in DOMAIN navQueue' : Landed(k)'
        <5>1. m \in Nat /\ m # 1 /\ m - 1 \in DOMAIN navQueue'
          BY <1>1, <1>2, <1>4, <4>1, Popped DEF Landed
        <5>2. Landed(m - 1)' <=> Landed(m - 1 + 1)
          BY <1>1, <1>2, <5>1, Popped
        <5>3. m - 1 + 1 = m
          BY <5>1
        <5> QED
          BY <4>1, <5>1, <5>2, <5>3
      <4> QED
        BY <1>1, <1>2, <4>1, Popped
    <3> QED
      BY <1>2, <2>1, <3>1 DEF WindowInv, SkipsTheLanding
  <2>4. (\A k \in DOMAIN navQueue' : ~Now(k)') /\ activeTab \in Tabs => \A m \in DOMAIN navQueue : ~Now(m)
    <3> SUFFICES ASSUME \A k \in DOMAIN navQueue' : ~Now(k)', activeTab \in Tabs, NEW m \in DOMAIN navQueue, Now(m) PROVE FALSE
      OBVIOUS
    <3>1. m \in Nat /\ m # 1 /\ m - 1 \in DOMAIN navQueue'
      BY <1>1, <1>2, <1>4, WindowAssumption, Popped
    <3>2. (Now(m - 1)' <=> Now(m - 1 + 1)) /\ m - 1 + 1 = m
      BY <1>1, <1>2, <3>1, Popped
    <3> QED
      BY <3>1, <3>2
  <2>5. (\A k \in DOMAIN navQueue' : ~Now(k)') /\ activeTab' \in Tabs \ HistoryTabs /\ window'.page \in ran'[activeTab'] => LastSaved'
    BY <1>2, <2>1, <2>4 DEF WindowInv, LastTells, LastSaved
  <2>6. ItsOwnPages'
    BY <1>1, <1>2, <2>1, Popped DEF WindowInv, ItsOwnPages, OfTheRow, Early
  <2> QED
    BY <1>2, <2>2, <2>3, <2>5, <2>6, NavOrder DEF WindowInv, LastTells
<1>5. CASE Now(1) /\ activeTab # NoTab
  <2>1. activeTab \in Tabs /\ activeTab' = activeTab /\ ~Early /\ window.landing = Blank /\ skip' = FALSE
    BY <1>1, <1>2, <1>3, <1>5 DEF WindowInv, LandsFirst, WebviewNav, shouldAcceptNav, Early
  <2>2. \A m \in DOMAIN navQueue : m > 1 => ~Landed(m)
    BY <1>3, <1>5 DEF WindowInv, LandsFirst
  <2>3. skip <=> p.slug = HomeSlug
    <3>1. \A m \in DOMAIN navQueue : m = 1 \/ m > 1
      BY <1>1, <1>2, Popped
    <3>2. (\E m \in DOMAIN navQueue : Landed(m)) <=> p.slug = HomeSlug
      BY <1>3, <1>5, <2>2, <3>1 DEF Landed
    <3> QED
      BY <1>1, <1>5, <2>1, <3>2 DEF WindowInv, SkipsTheLanding, Blank, HomeSlug
  <2>4. SkipsTheLanding'
    <3>1. \A k \in DOMAIN navQueue' : ~Landed(k)'
      BY <1>1, <1>2, <2>2, Popped
    <3> QED
      BY <1>2, <2>1, <3>1 DEF WindowInv, SkipsTheLanding, Blank, HomeSlug
  <2>5. OfTheRow(p.slug)
    BY <1>3, <1>5 DEF WindowInv, ItsOwnPages
  <2>6. CASE Captures(activeTab, p.slug)
    <3>1. rows' = [rows EXCEPT ![activeTab] = [@ EXCEPT !.slug = p.slug]] /\ names' \subseteq names \cup {[tab |-> activeTab, name |-> window.page]}
      BY <1>3, <1>5, <2>6 DEF WebviewNav, shouldAcceptNav
    <3>2. /\ rows' \in [Tabs -> RowSet] /\ rows'[activeTab].slug = p.slug
          /\ \A t \in Tabs : rows'[t].there = rows[t].there /\ (t # activeTab => rows'[t] = rows[t])
      <4>1. PICK r : r = [rows[activeTab] EXCEPT !.slug = p.slug]
        OBVIOUS
      <4>2. r \in RowSet /\ r.slug = p.slug /\ r.there = rows[activeTab].there
        BY <1>1, <1>3, <2>1, <4>1, RowsOf
      <4>3. rows' = [rows EXCEPT ![activeTab] = r]
        BY <1>1, <2>1, <3>1, <4>1
      <4> QED
        BY <1>1, <2>1, <4>2, <4>3, OneRow
    <3>3. p.slug \in ran[activeTab]
      BY <2>3, <2>5, <2>6 DEF Captures, capture, OfTheRow
    <3>4. WindowTypes'
      <4>1. [tab |-> activeTab, name |-> window.page] \in [tab : Tabs, name : Addresses]
        BY <1>1, <2>1
      <4>2. names' \subseteq [tab : Tabs, name : Addresses]
        BY <1>1, <3>1, <4>1
      <4>3. navQueue' \in Seq([wc : Nat, slug : Addresses])
        BY <1>1, <1>2, Popped
      <4> QED
        BY <1>1, <1>2, <2>1, <3>2, <4>2, <4>3 DEF WindowTypes
    <3>5. CapturedWasRun'
      BY <1>2, <3>2, <3>3 DEF WindowInv, CapturedWasRun
    <3>6. ItsOwnPages'
      BY <1>1, <1>2, <2>1, <3>2, Popped DEF WindowInv, ItsOwnPages, OfTheRow, Early
    <3>7. (\A k \in DOMAIN navQueue' : ~Now(k)') => LastSaved'
      BY <1>2, <1>5, <2>1, <3>2, LastHeard DEF LastSaved
    <3> QED
      BY <1>2, <2>4, <3>4, <3>5, <3>6, <3>7, NavOrder DEF WindowInv, LastTells
  <2>7. CASE ~Captures(activeTab, p.slug)
    <3>1. UNCHANGED <<rows, names>>
      BY <1>3, <1>5, <2>7 DEF WebviewNav, shouldAcceptNav
    <3>2. WindowTypes' /\ CapturedWasRun'
      BY <1>1, <1>2, <2>1, <3>1, Popped DEF WindowInv, WindowTypes, CapturedWasRun
    <3>3. ItsOwnPages'
      BY <1>1, <1>2, <2>1, <3>1, Popped DEF WindowInv, ItsOwnPages, OfTheRow, Early
    <3>4. ASSUME \A k \in DOMAIN navQueue' : ~Now(k)', activeTab \in Tabs \ HistoryTabs, window.page \in ran[activeTab] PROVE LastSaved'
      <4>1. p.slug = window.page /\ p.slug \in Slugs /\ p.slug # Blank /\ p.slug # HomeSlug
        BY <1>1, <1>2, <1>5, <2>1, <3>4, LastHeard, WindowAssumption
      <4>2. PICK t \in Tabs : t # activeTab /\ rows[t].slug = p.slug
        BY <2>3, <2>7, <3>4, <4>1 DEF Captures, capture, findBySlug
      <4>3. window.page \in ran[t]
        BY <4>1, <4>2 DEF WindowInv, CapturedWasRun
      <4> QED
        BY <1>2, <4>2, <4>3 DEF LastSaved
    <3> QED
      BY <1>2, <2>4, <3>2, <3>3, <3>4, NavOrder DEF WindowInv, LastTells
  <2> QED
    BY <2>6, <2>7
<1> QED
  BY <1>4, <1>5

LEMMA WindowSteps == ASSUME ~BlankAfterBlank, WindowInv, [WindowNext]_windowVars PROVE WindowInv'
<1>1. CASE UNCHANGED windowVars
  BY <1>1 DEF windowVars, WindowInv, WindowTypes, CapturedWasRun, LandsFirst, ItsOwnPages, SkipsTheLanding, LastTells,
              LastSaved, OfTheRow, Landed, Now, Early
<1>2. CASE ReloadWindow
  BY <1>2, ReloadStep
<1>3. ASSUME NEW t \in Tabs, SelectTab(t) \/ NewTab(t) \/ DeleteTab(t) PROVE WindowInv'
  BY <1>3, TabSteps
<1> QED
  BY <1>1, <1>2, <1>3, SiteSteps, NameSteps, NavStep DEF WindowNext

(* Whatever the order of messages, a row's search is one run in its own    *)
(* window, and the last one run is saved (webview.js, WorkspaceView.jsx),  *)
(* for a user who opens no blank row from a blank row.                     *)
THEOREM RowsAreTheirOwnEver == ASSUME ~BlankAfterBlank PROVE WindowSpec => []RowsAreTheirOwn
<1>1. WindowInit => WindowInv
  BY WindowStart
<1>2. WindowInv /\ [WindowNext]_windowVars => WindowInv'
  BY WindowSteps
<1>3. WindowInv => RowsAreTheirOwn
  <2> SUFFICES ASSUME WindowInv PROVE LastRunIsSaved
    BY DEF WindowInv, RowsAreTheirOwn
  <2> SUFFICES ASSUME navQueue = <<>>, activeTab \in Tabs \ HistoryTabs, window.page \in ran[activeTab] PROVE LastSaved
    BY DEF LastRunIsSaved, LastSaved
  <2>1. DOMAIN navQueue = {}
    BY EmptySeq
  <2> QED
    BY <2>1 DEF WindowInv, LastTells
<1> QED
  BY <1>1, <1>2, <1>3, PTL DEF WindowSpec

-----------------------------------------------------------------------------
(* The release.  The Mac's files are the Mac's, its manifest up only with  *)
(* its image; as long as the release is checked or public, the CI runs     *)
(* take turns, and nobody works while the script judges it.                *)
Steps == {"off", "ensure", "has", "watch", "upload", "stream", "landed?", "publish", "flip", "live", "rollback",
          "pull", "ended", "succeeded"}
Asset == [state : {"absent", "starter", "uploaded"}, of : Workers \cup {NoRun}]
Uploading(w) == at[w] \in {"upload", "stream", "landed?"}

ReleaseTypes ==
    /\ at \in [Workers -> Steps] /\ pos \in [Workers -> {1, 2}] /\ assets \in [Names -> Asset] /\ alone \in BOOLEAN
    /\ \A c \in CIRuns : at[c] \in {"off", "ensure", "upload", "stream", "landed?", "ended", "succeeded"}

OfMac ==
    /\ \A n \in {"mac.yml", "dmg"} : assets[n].state = "uploaded" => assets[n].of = Mac
    /\ assets["mac.yml"].state = "uploaded" => assets["dmg"].state = "uploaded"
    /\ Uploading(Mac) /\ pos[Mac] = 2 => landed(assets["dmg"], Mac)
    /\ at[Mac] \in {"has", "watch"} => pos[Mac] = 1

InTurn ==
    /\ \A c, d \in CIRuns : Running(c) /\ Running(d) => c = d
    /\ assets["win.yml"].state = "uploaded" => landed(assets["exe"], assets["win.yml"].of)
    /\ \A c \in CIRuns : Running(c) =>
          IF Uploading(c) /\ pos[c] = 2 THEN landed(assets["exe"], c) ELSE assets["win.yml"].state # "uploaded"

Checked == alone /\ (github = "public" \/ at[Mac] = "flip")
Resting == alone /\ \/ at[Mac] \in {"flip", "live", "rollback", "pull"}
                    \/ said \in {"rolled back", "manifests deleted"} /\ ~Running(Mac)
Words == ~Running(Mac) =>
    /\ said = "rolled back" => github # "public"
    /\ alone /\ said = "manifests deleted" => \A y \in Manifests : assets[y].state # "uploaded"

ReleaseInv == ReleaseTypes /\ OfMac /\ (Checked => InTurn) /\ (Resting => NoneRuns) /\ Words

LEMMA ReleaseNames ==
    /\ Mac \in Workers /\ CIRuns = Workers \ {Mac} /\ Manifests = {"win.yml", "mac.yml"}
    /\ Names = {"win.yml", "mac.yml", "exe", "dmg"}
    /\ AbsentAsset \in Asset /\ AbsentAsset.state = "absent"
    /\ Named["win.yml"] = "exe" /\ Named["mac.yml"] = "dmg"
<1>1. Mac \in Workers /\ CIRuns = Workers \ {Mac} /\ Manifests = {"win.yml", "mac.yml"}
  BY ReleaseAssumption DEF Workers, Mac, Manifests
<1>2. Named["win.yml"] = "exe" /\ Named["mac.yml"] = "dmg"
  BY DEF Named, Manifests
<1>3. Names = {"win.yml", "mac.yml", "exe", "dmg"}
  BY <1>2 DEF Names, Manifests
<1>4. AbsentAsset \in Asset /\ AbsentAsset.state = "absent"
  BY DEF AbsentAsset, Asset
<1> QED
  BY <1>1, <1>2, <1>3, <1>4

(* Installers first, manifests last.                                       *)
LEMMA UploadsInOrder ==
    /\ uploadOrder(FilesOf(Mac)) = <<"dmg", "mac.yml">>
    /\ \A c \in CIRuns : uploadOrder(FilesOf(c)) = <<"exe", "win.yml">>
    /\ \A w \in Workers : Len(uploadOrder(FilesOf(w))) = 2
<1>1. uploadOrder(FilesOf(Mac)) = <<"dmg", "mac.yml">>
  <2>1. FilesOf(Mac) = {"mac.yml", "dmg"}
    BY DEF FilesOf
  <2>2. (CHOOSE f \in FilesOf(Mac) : f \notin Manifests) = "dmg" /\ (CHOOSE f \in FilesOf(Mac) : f \in Manifests) = "mac.yml"
    BY <2>1 DEF Manifests
  <2> QED
    BY <2>2 DEF uploadOrder
<1>2. ASSUME NEW c \in CIRuns PROVE uploadOrder(FilesOf(c)) = <<"exe", "win.yml">>
  <2>1. FilesOf(c) = {"exe", "win.yml"}
    BY ReleaseAssumption DEF FilesOf, Mac
  <2>2. (CHOOSE f \in FilesOf(c) : f \notin Manifests) = "exe" /\ (CHOOSE f \in FilesOf(c) : f \in Manifests) = "win.yml"
    BY <2>1 DEF Manifests
  <2> QED
    BY <2>2 DEF uploadOrder
<1>3. \A w \in Workers : Len(uploadOrder(FilesOf(w))) = 2
  BY DEF uploadOrder
<1> QED
  BY <1>1, <1>2, <1>3

LEMMA CurrentFile ==
    ASSUME ReleaseTypes, NEW w \in Workers
    PROVE  /\ w = Mac => Current(w) = IF pos[w] = 1 THEN "dmg" ELSE "mac.yml"
           /\ w # Mac => Current(w) = IF pos[w] = 1 THEN "exe" ELSE "win.yml"
           /\ Current(w) \in Names
<1>1. pos[w] \in {1, 2}
  BY DEF ReleaseTypes
<1>2. w = Mac => Current(w) = IF pos[w] = 1 THEN "dmg" ELSE "mac.yml"
  BY <1>1, UploadsInOrder DEF Current
<1>3. w # Mac => Current(w) = IF pos[w] = 1 THEN "exe" ELSE "win.yml"
  BY <1>1, UploadsInOrder, ReleaseNames DEF Current
<1> QED
  BY <1>2, <1>3, ReleaseNames

LEMMA ReleaseStarts == ReleaseInit => ReleaseInv
<1> SUFFICES ASSUME ReleaseInit PROVE ReleaseInv
  OBVIOUS
<1>1. ReleaseTypes
  BY ReleaseNames DEF ReleaseInit, ReleaseTypes, Steps
<1>2. \A n \in Names : assets[n].state = "absent"
  BY ReleaseNames DEF ReleaseInit
<1>3. \A w \in Workers : at[w] = "off" /\ ~Running(w) /\ ~Uploading(w)
  BY DEF ReleaseInit, Running, Uploading
<1>4. github = "none" /\ said = ""
  BY DEF ReleaseInit
<1> QED
  BY <1>1, <1>2, <1>3, <1>4, ReleaseNames DEF ReleaseInv, OfMac, Checked, Resting, Words

(* A process that goes on alone.                                           *)
LEMMA GoesTo ==
    ASSUME ReleaseTypes, NEW w \in Workers, NEW step \in Steps, Goes(w, step)
    PROVE  /\ at' \in [Workers -> Steps] /\ at'[w] = step
           /\ \A v \in Workers : v # w => at'[v] = at[v]
  BY DEF ReleaseTypes, Goes

(* A step of the script leaves the CI runs where they are.                 *)
LEMMA MacWorks ==
    ASSUME ReleaseInv, NEW step \in Steps, Goes(Mac, step),
           pos' \in [Workers -> {1, 2}], \A c \in CIRuns : pos'[c] = pos[c],
           assets' \in [Names -> Asset], alone' \in BOOLEAN,
           assets'["exe"] = assets["exe"],
           assets'["win.yml"] = assets["win.yml"] \/ assets'["win.yml"].state = "absent",
           \A n \in {"mac.yml", "dmg"} : assets'[n].state = "uploaded" => assets'[n].of = Mac,
           assets'["mac.yml"].state = "uploaded" => assets'["dmg"].state = "uploaded",
           step \in {"upload", "stream", "landed?"} /\ pos'[Mac] = 2 => landed(assets'["dmg"], Mac),
           step \in {"has", "watch"} => pos'[Mac] = 1
    PROVE  /\ ReleaseTypes' /\ OfMac' /\ (InTurn => InTurn') /\ (NoneRuns => NoneRuns')
           /\ at'[Mac] = step /\ \A c \in CIRuns : at'[c] = at[c]
<1>1. at' \in [Workers -> Steps] /\ at'[Mac] = step /\ \A c \in CIRuns : at'[c] = at[c]
  BY GoesTo, ReleaseNames DEF ReleaseInv
<1>2. ReleaseTypes'
  BY <1>1 DEF ReleaseInv, ReleaseTypes
<1>3. OfMac'
  BY <1>1 DEF OfMac, Uploading, landed
<1>4. InTurn => InTurn'
  BY <1>1, ReleaseNames DEF InTurn, Running, Uploading, landed
<1>5. NoneRuns => NoneRuns'
  BY <1>1 DEF NoneRuns, Running
<1> QED
  BY <1>1, <1>2, <1>3, <1>4, <1>5

(* A step of a CI run, which is the only one while others would matter.    *)
LEMMA RunWorks ==
    ASSUME ReleaseInv, NEW c \in CIRuns, Running(c), NEW step, Goes(c, step),
           step \in {"ensure", "upload", "stream", "landed?", "ended", "succeeded"},
           pos' \in [Workers -> {1, 2}], pos'[Mac] = pos[Mac], \A d \in CIRuns \ {c} : pos'[d] = pos[d],
           assets' \in [Names -> Asset], UNCHANGED <<alone, said>>,
           assets'["dmg"] = assets["dmg"], assets'["mac.yml"] = assets["mac.yml"],
           github' = "public" <=> github = "public",
           InTurn => /\ assets'["win.yml"].state = "uploaded" => landed(assets'["exe"], assets'["win.yml"].of)
                     /\ step \notin {"ended", "succeeded"} =>
                           IF step # "ensure" /\ pos'[c] = 2 THEN landed(assets'["exe"], c)
                           ELSE assets'["win.yml"].state # "uploaded"
    PROVE  ReleaseInv'
<1>1. at' \in [Workers -> Steps] /\ at'[c] = step /\ at'[Mac] = at[Mac] /\ \A d \in CIRuns \ {c} : at'[d] = at[d]
  <2>1. step \in Steps /\ c \in Workers /\ Mac # c /\ CIRuns \subseteq Workers /\ Mac \in Workers
    BY ReleaseNames DEF Steps
  <2>2. ReleaseTypes
    BY DEF ReleaseInv
  <2> QED
    BY <2>1, <2>2, GoesTo
<1>2. ReleaseTypes'
  BY <1>1 DEF ReleaseInv, ReleaseTypes
<1>3. OfMac'
  BY <1>1 DEF ReleaseInv, OfMac, Uploading, landed
<1>4. ~Resting /\ ~Resting'
  <2>1. ~Resting
    BY DEF ReleaseInv, NoneRuns
  <2> QED
    BY <1>1, <2>1 DEF Resting, Running
<1>5. Words'
  BY <1>1, <1>4 DEF ReleaseInv, Words, Resting, Running
<1>6. InTurn => InTurn'
  <2> SUFFICES ASSUME InTurn PROVE InTurn'
    OBVIOUS
  <2>1. \A d \in CIRuns \ {c} : ~Running(d) /\ ~Running(d)'
    BY <1>1 DEF InTurn, Running
  <2>2. Running(c)' => step \notin {"ended", "succeeded"}
    BY <1>1 DEF Running
  <2>3. Uploading(c)' <=> step \in {"upload", "stream", "landed?"}
    BY <1>1 DEF Uploading
  <2> QED
    BY <2>1, <2>2, <2>3 DEF InTurn, landed
<1>7. Checked' => Checked
  BY <1>1 DEF Checked
<1> QED
  BY <1>2, <1>3, <1>4, <1>5, <1>6, <1>7 DEF ReleaseInv

LEMMA MacGoes ==
    ASSUME ReleaseInv, NEW step \in Steps, Goes(Mac, step), UNCHANGED assets,
           pos' \in [Workers -> {1, 2}], \A c \in CIRuns : pos'[c] = pos[c], alone' \in BOOLEAN,
           step \in {"upload", "stream", "landed?"} /\ pos'[Mac] = 2 => landed(assets["dmg"], Mac),
           step \in {"has", "watch"} => pos'[Mac] = 1
    PROVE  /\ ReleaseTypes' /\ OfMac' /\ (InTurn => InTurn') /\ (NoneRuns => NoneRuns')
           /\ at'[Mac] = step /\ \A c \in CIRuns : at'[c] = at[c]
<1>1. /\ \A n \in {"mac.yml", "dmg"} : assets[n].state = "uploaded" => assets[n].of = Mac
      /\ assets["mac.yml"].state = "uploaded" => assets["dmg"].state = "uploaded"
      /\ assets \in [Names -> Asset]
  BY DEF ReleaseInv, OfMac, ReleaseTypes
<1> QED
  BY <1>1, MacWorks

LEMMA ScriptSteps ==
    ASSUME ReleaseInv, StartsScript \/ Dies(Mac) \/ ensureDraft(Mac) \/ Has \/ Watches \/ verify \/ GoesPublic \/ LiveCheck \/ Rollback \/ PullsManifests
    PROVE  ReleaseInv'
<1>0. /\ ReleaseTypes /\ OfMac /\ pos \in [Workers -> {1, 2}] /\ alone \in BOOLEAN /\ Mac \in Workers /\ CIRuns = Workers \ {Mac}
      /\ assets \in [Names -> Asset] /\ (Checked => InTurn) /\ (Resting => NoneRuns) /\ Words
  BY ReleaseNames DEF ReleaseInv, ReleaseTypes
<1>1. CASE StartsScript
  <2>1. "ensure" \in Steps /\ Goes(Mac, "ensure") /\ UNCHANGED <<assets, pos, alone, github>> /\ said' = "" /\ ~Running(Mac)
    BY <1>1 DEF StartsScript, Steps, githubVars
  <2>2. ReleaseTypes' /\ OfMac' /\ (InTurn => InTurn') /\ at'[Mac] = "ensure"
    BY <1>0, <2>1, MacGoes
  <2> QED
    BY <1>0, <2>1, <2>2 DEF ReleaseInv, Checked, Resting, Words, Running
<1>2. CASE Dies(Mac)
  <2>1. "ended" \in Steps /\ Goes(Mac, "ended") /\ UNCHANGED <<assets, pos, alone, github>> /\ said' = "died"
    BY <1>2 DEF Dies, Ends, Steps, githubVars
  <2>2. ReleaseTypes' /\ OfMac' /\ (InTurn => InTurn') /\ at'[Mac] = "ended"
    BY <1>0, <2>1, MacGoes
  <2> QED
    BY <1>0, <2>1, <2>2 DEF ReleaseInv, Checked, Resting, Words
<1>3. CASE ensureDraft(Mac)
  <2>1. "has" \in Steps /\ Goes(Mac, "has") /\ UNCHANGED <<assets, alone, said>> /\ at[Mac] = "ensure"
        /\ pos' = [pos EXCEPT ![Mac] = 1] /\ (github' = "public" => github = "public")
    BY <1>3 DEF ensureDraft, Steps
  <2>2. pos' \in [Workers -> {1, 2}] /\ pos'[Mac] = 1 /\ \A c \in CIRuns : pos'[c] = pos[c]
    BY <1>0, <2>1
  <2>3. ReleaseTypes' /\ OfMac' /\ (InTurn => InTurn') /\ at'[Mac] = "has"
    BY <1>0, <2>1, <2>2, MacGoes
  <2> QED
    BY <1>0, <2>1, <2>3 DEF ReleaseInv, Checked, Resting, Words, Running
<1>4. CASE Has
  <2>0. at[Mac] = "has" /\ pos[Mac] = 1 /\ UNCHANGED <<github, assets, pos, said>>
    BY <1>0, <1>4 DEF Has, OfMac, githubVars
  <2>1. CASE Goes(Mac, "upload") /\ UNCHANGED alone
    <3>1. "upload" \in Steps
      BY DEF Steps
    <3>2. ReleaseTypes' /\ OfMac' /\ (InTurn => InTurn') /\ at'[Mac] = "upload"
      BY <1>0, <2>0, <2>1, <3>1, MacGoes
    <3> QED
      BY <1>0, <2>0, <2>1, <3>2 DEF ReleaseInv, Checked, Resting, Words, Running
  <2>2. ASSUME assets["win.yml"].state # "uploaded", NEW c \in CIRuns, at[c] = "off",
               at' = [at EXCEPT ![c] = "ensure", ![Mac] = "watch"], alone' = (alone /\ (github = "public" => NoneRuns))
        PROVE  ReleaseInv'
    <3>1. /\ at' \in [Workers -> Steps] /\ at'[c] = "ensure" /\ at'[Mac] = "watch"
          /\ \A d \in CIRuns \ {c} : at'[d] = at[d]
      BY <1>0, <2>2 DEF ReleaseTypes, Steps
    <3>2. ReleaseTypes'
      BY <1>0, <2>0, <2>2, <3>1 DEF ReleaseTypes
    <3>3. OfMac'
      BY <1>0, <2>0, <3>1 DEF OfMac, Uploading
    <3>4. Checked' => InTurn'
      <4> SUFFICES ASSUME Checked' PROVE InTurn'
        OBVIOUS
      <4>1. alone /\ github = "public" /\ NoneRuns
        BY <2>0, <2>2, <3>1 DEF Checked
      <4>2. InTurn
        BY <1>0, <4>1 DEF Checked
      <4>3. \A d \in CIRuns : Running(d)' => d = c
        BY <3>1, <4>1 DEF NoneRuns, Running
      <4>4. ~Uploading(c)'
        BY <3>1 DEF Uploading
      <4> QED
        BY <2>0, <2>2, <4>2, <4>3, <4>4 DEF InTurn
    <3>5. ~Resting' /\ Running(Mac)'
      BY <3>1 DEF Resting, Running
    <3> QED
      BY <3>2, <3>3, <3>4, <3>5 DEF ReleaseInv, Words
  <2> QED
    BY <1>4, <2>1, <2>2 DEF Has
<1>5. CASE Watches
  <2>1. /\ at[Mac] = "watch" /\ pos[Mac] = 1 /\ UNCHANGED <<assets, pos, alone, github>>
        /\ \/ Goes(Mac, "upload")
           \/ Goes(Mac, "ended") /\ said' = "CI failed"
    BY <1>0, <1>5 DEF Watches, Ends, OfMac, githubVars
  <2>2. "upload" \in Steps /\ "ended" \in Steps
    BY DEF Steps
  <2>5. UNCHANGED assets /\ pos' \in [Workers -> {1, 2}] /\ pos'[Mac] = 1 /\ (\A c \in CIRuns : pos'[c] = pos[c]) /\ alone' \in BOOLEAN
    BY <1>0, <2>1
  <2>3. CASE Goes(Mac, "upload")
    <3>1. ReleaseTypes' /\ OfMac' /\ (InTurn => InTurn') /\ at'[Mac] = "upload"
      BY <2>2, <2>3, <2>5, MacGoes
    <3> QED
      BY <1>0, <2>1, <3>1 DEF ReleaseInv, Checked, Resting, Words, Running
  <2>4. CASE Goes(Mac, "ended") /\ said' = "CI failed"
    <3>1. ReleaseTypes' /\ OfMac' /\ (InTurn => InTurn') /\ at'[Mac] = "ended"
      BY <1>0, <2>1, <2>2, <2>4, MacGoes
    <3> QED
      BY <1>0, <2>1, <2>4, <3>1 DEF ReleaseInv, Checked, Resting, Words, Running
  <2> QED
    BY <2>1, <2>3, <2>4
<1>6. CASE verify
  <2>0. /\ at[Mac] = "publish" /\ UNCHANGED <<assets, pos, github>> /\ alone' = (alone /\ NoneRuns)
        /\ "flip" \in Steps /\ "ended" \in Steps /\ alone' \in BOOLEAN
    BY <1>0, <1>6 DEF verify, githubVars, Steps
  <2>1. CASE problems(assets) = {} /\ Goes(Mac, "flip") /\ UNCHANGED said
    <3>1. ReleaseTypes' /\ OfMac' /\ (NoneRuns => NoneRuns') /\ at'[Mac] = "flip" /\ \A c \in CIRuns : at'[c] = at[c]
      BY <1>0, <2>0, <2>1, MacGoes
    <3>2. landed(assets["exe"], assets["win.yml"].of)
      <4>1. assets["exe"].state = "uploaded"
        BY <2>1, ReleaseNames DEF problems
      <4>2. assets[Named["win.yml"]].of = assets["win.yml"].of
        BY <2>1, ReleaseNames DEF problems, OtherBytes, expectedManifests
      <4> QED
        BY <4>1, <4>2, ReleaseNames DEF landed
    <3>3. NoneRuns => InTurn'
      BY <2>0, <3>1, <3>2 DEF NoneRuns, InTurn, Running
    <3> QED
      BY <1>0, <2>0, <2>1, <3>1, <3>3 DEF ReleaseInv, Checked, Resting, Words, Running
  <2>2. CASE Goes(Mac, "ended") /\ said' = "incomplete"
    <3>1. ReleaseTypes' /\ OfMac' /\ (InTurn => InTurn') /\ at'[Mac] = "ended"
      BY <1>0, <2>0, <2>2, MacGoes
    <3> QED
      BY <1>0, <2>0, <2>2, <3>1 DEF ReleaseInv, Checked, Resting, Words
  <2> QED
    BY <1>6, <2>1, <2>2 DEF verify, Ends
<1>7. CASE GoesPublic
  <2>0. /\ at[Mac] = "flip" /\ UNCHANGED <<assets, pos, alone>> /\ (github' = "public" \/ github' = github)
        /\ "live" \in Steps /\ "ended" \in Steps
    BY <1>7 DEF GoesPublic, Steps
  <2>1. CASE Goes(Mac, "live") /\ UNCHANGED said
    <3>1. ReleaseTypes' /\ OfMac' /\ (InTurn => InTurn') /\ (NoneRuns => NoneRuns') /\ at'[Mac] = "live"
      BY <1>0, <2>0, <2>1, MacGoes
    <3> QED
      BY <1>0, <2>0, <3>1 DEF ReleaseInv, Checked, Resting, Words, Running
  <2>2. CASE Goes(Mac, "ended") /\ said' = "could not publish"
    <3>1. ReleaseTypes' /\ OfMac' /\ (InTurn => InTurn') /\ at'[Mac] = "ended"
      BY <1>0, <2>0, <2>2, MacGoes
    <3> QED
      BY <1>0, <2>0, <2>2, <3>1 DEF ReleaseInv, Checked, Resting, Words
  <2> QED
    BY <1>7, <2>1, <2>2 DEF GoesPublic, Ends
<1>8. CASE LiveCheck
  <2>0. at[Mac] = "live" /\ UNCHANGED <<assets, pos, alone, github>> /\ "rollback" \in Steps /\ "ended" \in Steps
    BY <1>8 DEF LiveCheck, Steps, githubVars
  <2>1. CASE Goes(Mac, "ended") /\ said' = "live"
    <3>1. ReleaseTypes' /\ OfMac' /\ (InTurn => InTurn') /\ at'[Mac] = "ended"
      BY <1>0, <2>0, <2>1, MacGoes
    <3> QED
      BY <1>0, <2>0, <2>1, <3>1 DEF ReleaseInv, Checked, Resting, Words
  <2>2. CASE Goes(Mac, "rollback") /\ UNCHANGED said
    <3>1. ReleaseTypes' /\ OfMac' /\ (InTurn => InTurn') /\ (NoneRuns => NoneRuns') /\ at'[Mac] = "rollback"
      BY <1>0, <2>0, <2>2, MacGoes
    <3> QED
      BY <1>0, <2>0, <2>2, <3>1 DEF ReleaseInv, Checked, Resting, Words, Running
  <2>3. CASE UNCHANGED <<at, said>>
    BY <1>0, <2>0, <2>3 DEF ReleaseInv, ReleaseTypes, OfMac, InTurn, NoneRuns, Checked, Resting, Words, Running, Uploading, landed
  <2> QED
    BY <1>8, <2>1, <2>2, <2>3 DEF LiveCheck, Ends
<1>9. CASE Rollback
  <2>0. /\ at[Mac] = "rollback" /\ UNCHANGED <<assets, pos, alone>> /\ (github' = "draft" \/ github' = github)
        /\ "pull" \in Steps /\ "ended" \in Steps
    BY <1>9 DEF Rollback, Steps
  <2>1. CASE Goes(Mac, "ended") /\ said' = "rolled back" /\ github' = "draft"
    <3>1. ReleaseTypes' /\ OfMac' /\ (NoneRuns => NoneRuns') /\ at'[Mac] = "ended"
      BY <1>0, <2>0, <2>1, MacGoes
    <3> QED
      BY <1>0, <2>0, <2>1, <3>1 DEF ReleaseInv, Checked, Resting, Words
  <2>2. CASE Goes(Mac, "pull") /\ UNCHANGED said
    <3>1. ReleaseTypes' /\ OfMac' /\ (InTurn => InTurn') /\ (NoneRuns => NoneRuns') /\ at'[Mac] = "pull"
      BY <1>0, <2>0, <2>2, MacGoes
    <3> QED
      BY <1>0, <2>0, <2>2, <3>1 DEF ReleaseInv, Checked, Resting, Words, Running
  <2> QED
    BY <1>9, <2>1, <2>2 DEF Rollback, Ends, WhenNotRedrafted
<1>10. CASE PullsManifests
  <2>0. /\ at[Mac] = "pull" /\ UNCHANGED <<pos, alone, github>> /\ Goes(Mac, "ended") /\ said' = "manifests deleted"
        /\ assets' = [n \in Names |-> IF n \in Manifests THEN AbsentAsset ELSE assets[n]] /\ "ended" \in Steps
    BY <1>10 DEF PullsManifests, Ends, Steps, githubVars
  <2>1. /\ assets' \in [Names -> Asset] /\ assets'["exe"] = assets["exe"] /\ assets'["dmg"] = assets["dmg"]
        /\ assets'["win.yml"].state = "absent" /\ assets'["mac.yml"].state = "absent"
    BY <1>0, <2>0, ReleaseNames
  <2>2. ReleaseTypes' /\ OfMac' /\ (InTurn => InTurn') /\ (NoneRuns => NoneRuns') /\ at'[Mac] = "ended"
    BY <1>0, <2>0, <2>1, MacWorks DEF OfMac
  <2> QED
    BY <1>0, <2>0, <2>1, <2>2, ReleaseNames DEF ReleaseInv, Checked, Resting, Words
<1> QED
  BY <1>1, <1>2, <1>3, <1>4, <1>5, <1>6, <1>7, <1>8, <1>9, <1>10

(* The uploads of the script and those of a CI run.                        *)
LEMMA NextFile ==
    ASSUME ReleaseTypes, NEW w \in Workers, Next1(w)
    PROVE  \/ pos[w] = 2 /\ Goes(w, IF w = Mac THEN "publish" ELSE "succeeded") /\ UNCHANGED pos
           \/ pos[w] = 1 /\ Goes(w, "upload") /\ pos' \in [Workers -> {1, 2}] /\ pos'[w] = 2
              /\ \A v \in Workers \ {w} : pos'[v] = pos[v]
<1>1. pos \in [Workers -> {1, 2}] /\ Len(uploadOrder(FilesOf(w))) = 2
  BY UploadsInOrder DEF ReleaseTypes
<1>2. CASE pos[w] = 2
  BY <1>1, <1>2 DEF Next1
<1>3. CASE pos[w] = 1
  <2>1. Goes(w, "upload") /\ pos' = [pos EXCEPT ![w] = 2]
    BY <1>1, <1>3 DEF Next1
  <2> QED
    BY <1>1, <1>3, <2>1
<1> QED
  BY <1>1, <1>2, <1>3

LEMMA MacUploads ==
    ASSUME ReleaseInv, UploadLooks(Mac) \/ streamUp(Mac) \/ UploadAsks(Mac)
    PROVE  ReleaseInv'
<1>0. /\ ReleaseTypes /\ OfMac /\ pos \in [Workers -> {1, 2}] /\ alone \in BOOLEAN /\ Mac \in Workers /\ CIRuns = Workers \ {Mac}
      /\ assets \in [Names -> Asset] /\ (Checked => InTurn) /\ (Resting => NoneRuns) /\ Words
  BY ReleaseNames DEF ReleaseInv, ReleaseTypes
<1>1. /\ Uploading(Mac) /\ Running(Mac) /\ UNCHANGED <<github, alone>>
      /\ at[Mac] \notin {"flip", "live", "rollback", "pull"}
  BY DEF UploadLooks, streamUp, UploadAsks, Uploading, Running, githubVars
<1>2. Current(Mac) = IF pos[Mac] = 1 THEN "dmg" ELSE "mac.yml"
  BY <1>0, CurrentFile
<1>3. ASSUME ReleaseTypes', OfMac', InTurn => InTurn', at'[Mac] \in {"publish", "upload", "stream", "landed?"} \/ (at'[Mac] = "ended" /\ said' = "upload failed")
      PROVE  ReleaseInv'
  <2>1. ~Resting' /\ Words'
    BY <1>3 DEF Resting, Words, Running
  <2>2. Checked' => Checked
    BY <1>1, <1>3 DEF Checked
  <2> QED
    BY <1>0, <1>3, <2>1, <2>2 DEF ReleaseInv
<1>4. \A n \in {"mac.yml", "dmg"} : assets[n].state = "uploaded" => assets[n].of = Mac
  BY <1>0 DEF OfMac
<1>5. CASE landed(assets[Current(Mac)], Mac) /\ Next1(Mac) /\ UNCHANGED assets
  <2>1. CASE pos[Mac] = 2 /\ Goes(Mac, "publish") /\ UNCHANGED pos
    <3>1. "publish" \in Steps
      BY DEF Steps
    <3>2. ReleaseTypes' /\ OfMac' /\ (InTurn => InTurn') /\ at'[Mac] = "publish"
      BY <1>0, <1>1, <1>5, <2>1, <3>1, MacGoes
    <3> QED
      BY <1>3, <3>2
  <2>2. CASE pos[Mac] = 1 /\ Goes(Mac, "upload") /\ pos' \in [Workers -> {1, 2}] /\ pos'[Mac] = 2
             /\ \A v \in Workers \ {Mac} : pos'[v] = pos[v]
    <3>1. "upload" \in Steps /\ landed(assets["dmg"], Mac)
      BY <1>2, <1>5, <2>2 DEF Steps
    <3>2. ReleaseTypes' /\ OfMac' /\ (InTurn => InTurn') /\ at'[Mac] = "upload"
      BY <1>0, <1>1, <1>5, <2>2, <3>1, MacGoes
    <3> QED
      BY <1>3, <3>2
  <2> QED
    BY <1>0, <1>5, <2>1, <2>2, NextFile
<1>6. CASE ~landed(assets[Current(Mac)], Mac) /\ Goes(Mac, "stream") /\ UNCHANGED pos
           /\ assets' = [assets EXCEPT ![Current(Mac)] = AbsentAsset]
  <2>1. /\ assets' \in [Names -> Asset] /\ assets'["exe"] = assets["exe"] /\ assets'["win.yml"] = assets["win.yml"]
        /\ assets'[Current(Mac)].state = "absent" /\ \A n \in Names : n # Current(Mac) => assets'[n] = assets[n]
    BY <1>0, <1>2, <1>6, ReleaseNames
  <2>2. "dmg" \in Names /\ "mac.yml" \in Names /\ "stream" \in Steps
    BY ReleaseNames DEF Steps
  <2>3. CASE pos[Mac] = 1
    <3>1. assets["dmg"].state # "uploaded" /\ assets["mac.yml"].state # "uploaded"
      BY <1>0, <1>2, <1>4, <1>6, <2>3 DEF OfMac, landed
    <3>2. assets'["dmg"].state # "uploaded" /\ assets'["mac.yml"].state # "uploaded"
      BY <1>2, <2>1, <2>2, <2>3, <3>1
    <3>3. ReleaseTypes' /\ OfMac' /\ (InTurn => InTurn') /\ at'[Mac] = "stream"
      BY <1>0, <1>1, <1>6, <2>1, <2>2, <2>3, <3>2, MacWorks
    <3> QED
      BY <1>3, <3>3
  <2>4. CASE pos[Mac] = 2
    <3>1. landed(assets["dmg"], Mac)
      BY <1>0, <1>1, <2>4 DEF OfMac
    <3>2. assets'["dmg"] = assets["dmg"] /\ assets'["mac.yml"].state = "absent"
      BY <1>2, <2>1, <2>2, <2>4
    <3>3. ReleaseTypes' /\ OfMac' /\ (InTurn => InTurn') /\ at'[Mac] = "stream"
      BY <1>0, <1>1, <1>4, <1>6, <2>1, <2>2, <3>1, <3>2, MacWorks
    <3> QED
      BY <1>3, <3>3
  <2> QED
    BY <1>0, <2>3, <2>4
<1>7. CASE Goes(Mac, "landed?") /\ UNCHANGED <<assets, pos>>
  <2>1. "landed?" \in Steps /\ (pos'[Mac] = 2 => landed(assets["dmg"], Mac))
    BY <1>0, <1>1, <1>7 DEF Steps, OfMac
  <2>2. ReleaseTypes' /\ OfMac' /\ (InTurn => InTurn') /\ at'[Mac] = "landed?"
    BY <1>0, <1>1, <1>7, <2>1, MacGoes
  <2> QED
    BY <1>3, <2>2
<1>8. ASSUME NEW a \in Asset, a.of = Mac \/ a.state # "uploaded", assets[Current(Mac)].state = "absent",
             Goes(Mac, "landed?"), UNCHANGED pos, assets' = [assets EXCEPT ![Current(Mac)] = a]
      PROVE  ReleaseInv'
  <2>1. /\ assets' \in [Names -> Asset] /\ assets'["exe"] = assets["exe"] /\ assets'["win.yml"] = assets["win.yml"]
        /\ assets'[Current(Mac)] = a /\ \A n \in Names : n # Current(Mac) => assets'[n] = assets[n]
    BY <1>0, <1>2, <1>8, ReleaseNames
  <2>2. "dmg" \in Names /\ "mac.yml" \in Names /\ "landed?" \in Steps
    BY ReleaseNames DEF Steps
  <2>3. \A n \in {"mac.yml", "dmg"} : assets'[n].state = "uploaded" => assets'[n].of = Mac
    BY <1>4, <1>8, <2>1, <2>2
  <2>4. assets'["mac.yml"].state = "uploaded" => assets'["dmg"].state = "uploaded"
    <3>1. CASE pos[Mac] = 1
      <4>1. assets'["mac.yml"].state # "uploaded"
        BY <1>0, <1>2, <1>8, <2>1, <2>2, <3>1 DEF OfMac
      <4> QED
        BY <4>1
    <3>2. CASE pos[Mac] = 2
      <4>1. assets'["dmg"].state = "uploaded"
        BY <1>0, <1>1, <1>2, <2>1, <2>2, <3>2 DEF OfMac, landed
      <4> QED
        BY <4>1
    <3> QED
      BY <1>0, <3>1, <3>2
  <2>5. pos'[Mac] = 2 => landed(assets'["dmg"], Mac)
    BY <1>0, <1>1, <1>2, <1>8, <2>1, <2>2 DEF OfMac
  <2>6. ReleaseTypes' /\ OfMac' /\ (InTurn => InTurn') /\ at'[Mac] = "landed?"
    BY <1>0, <1>1, <1>8, <2>1, <2>2, <2>3, <2>4, <2>5, MacWorks
  <2> QED
    BY <1>3, <2>6
<1>9. CASE Goes(Mac, "upload") /\ UNCHANGED <<assets, pos>>
  <2>1. "upload" \in Steps /\ (pos'[Mac] = 2 => landed(assets["dmg"], Mac))
    BY <1>0, <1>1, <1>9 DEF Steps, OfMac
  <2>2. ReleaseTypes' /\ OfMac' /\ (InTurn => InTurn') /\ at'[Mac] = "upload"
    BY <1>0, <1>1, <1>9, <2>1, MacGoes
  <2> QED
    BY <1>3, <2>2
<1>10. CASE Goes(Mac, "ended") /\ said' = "upload failed" /\ UNCHANGED <<assets, pos>>
  <2>1. "ended" \in Steps
    BY DEF Steps
  <2>2. ReleaseTypes' /\ OfMac' /\ (InTurn => InTurn') /\ at'[Mac] = "ended"
    BY <1>0, <1>1, <1>10, <2>1, MacGoes
  <2> QED
    BY <1>3, <1>10, <2>2
<1>11. CASE UploadLooks(Mac)
  BY <1>5, <1>6, <1>11 DEF UploadLooks
<1>12. CASE streamUp(Mac)
  <2>1. CASE UNCHANGED assets
    BY <1>7, <1>12, <2>1 DEF streamUp
  <2>2. ASSUME assets[Current(Mac)].state = "absent", NEW got \in {"absent", "starter", "uploaded"},
               assets' = [assets EXCEPT ![Current(Mac)] = [state |-> got, of |-> IF got = "absent" THEN NoRun ELSE Mac]]
        PROVE  ReleaseInv'
    <3> DEFINE a == [state |-> got, of |-> IF got = "absent" THEN NoRun ELSE Mac]
    <3>1. a \in Asset /\ (a.of = Mac \/ a.state # "uploaded")
      BY <1>0 DEF Asset
    <3>2. Goes(Mac, "landed?") /\ UNCHANGED pos
      BY <1>12 DEF streamUp
    <3> HIDE DEF a
    <3>3. assets' = [assets EXCEPT ![Current(Mac)] = a]
      BY <2>2 DEF a
    <3> QED
      BY <1>8, <2>2, <3>1, <3>2, <3>3
  <2> QED
    BY <1>12, <2>1, <2>2 DEF streamUp
<1>13. CASE UploadAsks(Mac)
  BY <1>5, <1>9, <1>10, <1>13 DEF UploadAsks, Ends
<1> QED
  BY <1>11, <1>12, <1>13

LEMMA RunUploads ==
    ASSUME ReleaseInv, NEW c \in CIRuns, Dies(c) \/ ensureDraft(c) \/ UploadLooks(c) \/ streamUp(c) \/ UploadAsks(c)
    PROVE  ReleaseInv'
<1>0. /\ ReleaseTypes /\ pos \in [Workers -> {1, 2}] /\ c \in Workers /\ c # Mac /\ CIRuns = Workers \ {Mac} /\ Mac \in Workers
      /\ assets \in [Names -> Asset]
  BY ReleaseNames DEF ReleaseInv, ReleaseTypes
<1>1. Running(c) /\ UNCHANGED <<alone, said>>
  BY <1>0 DEF Dies, ensureDraft, UploadLooks, streamUp, UploadAsks, Ends, Running, githubVars
<1>2. Current(c) = IF pos[c] = 1 THEN "exe" ELSE "win.yml"
  BY <1>0, CurrentFile
<1>3. InTurn => /\ assets["win.yml"].state = "uploaded" => landed(assets["exe"], assets["win.yml"].of)
                /\ IF Uploading(c) /\ pos[c] = 2 THEN landed(assets["exe"], c) ELSE assets["win.yml"].state # "uploaded"
  BY <1>1 DEF InTurn
<1>4. ASSUME NEW step \in {"upload", "stream", "landed?", "ended", "succeeded"}, Goes(c, step), UNCHANGED <<assets, pos, github>>,
             step \in {"upload", "stream", "landed?"} => Uploading(c)
      PROVE  ReleaseInv'
  <2>1. InTurn => /\ assets'["win.yml"].state = "uploaded" => landed(assets'["exe"], assets'["win.yml"].of)
                  /\ step \notin {"ended", "succeeded"} =>
                        IF step # "ensure" /\ pos'[c] = 2 THEN landed(assets'["exe"], c)
                        ELSE assets'["win.yml"].state # "uploaded"
    BY <1>3, <1>4
  <2> QED
    BY <1>0, <1>1, <1>4, <2>1, RunWorks
<1>5. CASE Dies(c)
  BY <1>0, <1>4, <1>5 DEF Dies, Ends, githubVars
<1>6. CASE ensureDraft(c)
  <2>1. /\ Goes(c, "upload") /\ UNCHANGED assets /\ pos' = [pos EXCEPT ![c] = 1] /\ ~Uploading(c)
        /\ (github' = "public" <=> github = "public")
    BY <1>0, <1>6 DEF ensureDraft, Uploading
  <2>2. pos' \in [Workers -> {1, 2}] /\ pos'[c] = 1 /\ pos'[Mac] = pos[Mac] /\ \A d \in CIRuns \ {c} : pos'[d] = pos[d]
    BY <1>0, <2>1
  <2> QED
    BY <1>0, <1>1, <1>3, <2>1, <2>2, RunWorks
<1>7. CASE landed(assets[Current(c)], c) /\ Next1(c) /\ UNCHANGED <<assets, github>>
  <2>1. CASE pos[c] = 2 /\ Goes(c, "succeeded") /\ UNCHANGED pos
    BY <1>4, <1>7, <2>1
  <2>2. CASE pos[c] = 1 /\ Goes(c, "upload") /\ pos' \in [Workers -> {1, 2}] /\ pos'[c] = 2
             /\ \A v \in Workers \ {c} : pos'[v] = pos[v]
    <3>1. landed(assets["exe"], c)
      BY <1>2, <1>7, <2>2
    <3>2. pos'[Mac] = pos[Mac] /\ \A d \in CIRuns \ {c} : pos'[d] = pos[d]
      BY <1>0, <2>2
    <3> QED
      BY <1>0, <1>1, <1>3, <1>7, <2>2, <3>1, <3>2, RunWorks
  <2> QED
    BY <1>0, <1>7, <2>1, <2>2, NextFile
<1>8. ASSUME NEW a \in Asset, a.of = c \/ a.state # "uploaded", NEW step \in {"stream", "landed?"}, Goes(c, step), Uploading(c),
             UNCHANGED <<pos, github>>, assets' = [assets EXCEPT ![Current(c)] = a]
      PROVE  ReleaseInv'
  <2>1. "exe" \in Names /\ "win.yml" \in Names /\ "dmg" \in Names /\ "mac.yml" \in Names
    BY ReleaseNames
  <2>2. assets' \in [Names -> Asset] /\ assets'["dmg"] = assets["dmg"] /\ assets'["mac.yml"] = assets["mac.yml"]
    BY <1>0, <1>2, <1>8, <2>1
  <2>3. CASE pos[c] = 1
    <3>1. assets'["win.yml"] = assets["win.yml"]
      BY <1>0, <1>2, <1>8, <2>1, <2>3
    <3>2. InTurn => assets'["win.yml"].state # "uploaded"
      BY <1>3, <2>3, <3>1
    <3>3. pos'[c] # 2
      BY <1>8, <2>3
    <3> QED
      BY <1>0, <1>1, <1>8, <2>2, <3>2, <3>3, RunWorks
  <2>4. CASE pos[c] = 2
    <3>1. assets'["win.yml"] = a /\ assets'["exe"] = assets["exe"]
      BY <1>0, <1>2, <1>8, <2>1, <2>4
    <3>2. InTurn => landed(assets'["exe"], c)
      BY <1>3, <1>8, <2>4, <3>1
    <3>3. pos'[c] = 2 /\ (assets'["win.yml"].state = "uploaded" => assets'["win.yml"].of = c)
      BY <1>8, <2>4, <3>1
    <3> QED
      BY <1>0, <1>1, <1>8, <2>2, <3>2, <3>3, RunWorks
  <2> QED
    BY <1>0, <2>3, <2>4
<1>9. CASE UploadLooks(c)
  <2>1. Uploading(c) /\ UNCHANGED github
    BY <1>9 DEF UploadLooks, Uploading, githubVars
  <2>2. AbsentAsset \in Asset /\ AbsentAsset.state # "uploaded"
    BY ReleaseNames
  <2> QED
    BY <1>7, <1>8, <1>9, <2>1, <2>2 DEF UploadLooks
<1>10. CASE streamUp(c)
  <2>1. Goes(c, "landed?") /\ Uploading(c) /\ UNCHANGED <<pos, github>>
    BY <1>10 DEF streamUp, Uploading, githubVars
  <2>2. CASE UNCHANGED assets
    BY <1>4, <2>1, <2>2
  <2>3. ASSUME NEW got \in {"absent", "starter", "uploaded"},
               assets' = [assets EXCEPT ![Current(c)] = [state |-> got, of |-> IF got = "absent" THEN NoRun ELSE c]]
        PROVE  ReleaseInv'
    <3> DEFINE a == [state |-> got, of |-> IF got = "absent" THEN NoRun ELSE c]
    <3>1. a \in Asset /\ (a.of = c \/ a.state # "uploaded")
      BY <1>0 DEF Asset
    <3> HIDE DEF a
    <3>2. assets' = [assets EXCEPT ![Current(c)] = a]
      BY <2>3 DEF a
    <3> QED
      BY <1>8, <2>1, <3>1, <3>2
  <2> QED
    BY <1>10, <2>2, <2>3 DEF streamUp
<1>11. CASE UploadAsks(c)
  <2>1. Uploading(c) /\ UNCHANGED <<assets, github>>
    BY <1>11 DEF UploadAsks, Uploading, githubVars
  <2>2. CASE landed(assets[Current(c)], c) /\ Next1(c)
    BY <1>7, <2>1, <2>2
  <2>3. CASE UNCHANGED pos /\ (Goes(c, "ended") \/ Goes(c, "upload"))
    BY <1>4, <2>1, <2>3
  <2> QED
    BY <1>11, <2>2, <2>3 DEF UploadAsks, Ends
<1> QED
  BY <1>5, <1>6, <1>9, <1>10, <1>11

(* A release is offered whole or not at all, whichever of the script and   *)
(* the CI runs dies and is started again, and a publish that took it back  *)
(* leaves nothing to update to: for any CI runs, deaths, tries and answers *)
(* that are lost, if no CI run was still at work as the release was        *)
(* checked, or as another was started for a public one.                    *)
THEOREM OfferedWholeEver == ReleaseSpec => []OfferedWholeOrNot
<1>1. ReleaseInit => ReleaseInv
  BY ReleaseStarts
<1>2. ReleaseInv /\ [ReleaseNext]_releaseVars => ReleaseInv'
  <2> SUFFICES ASSUME ReleaseInv, [ReleaseNext]_releaseVars PROVE ReleaseInv'
    OBVIOUS
  <2>1. CASE StartsScript \/ Has \/ Watches \/ verify \/ GoesPublic \/ LiveCheck \/ Rollback \/ PullsManifests
    BY <2>1, ScriptSteps
  <2>2. ASSUME NEW w \in Workers, Dies(w) \/ ensureDraft(w) \/ UploadLooks(w) \/ streamUp(w) \/ UploadAsks(w) PROVE ReleaseInv'
    <3>1. w = Mac \/ w \in CIRuns
      BY ReleaseNames
    <3>2. CASE w = Mac
      BY <2>2, <3>2, ScriptSteps, MacUploads
    <3>3. CASE w \in CIRuns
      BY <2>2, <3>3, RunUploads
    <3> QED
      BY <3>1, <3>2, <3>3
  <2>3. CASE UNCHANGED releaseVars
    BY <2>3 DEF releaseVars, ReleaseInv, ReleaseTypes, OfMac, InTurn, NoneRuns, Checked, Resting, Words, Running, Uploading, landed
  <2> QED
    BY <2>1, <2>2, <2>3 DEF ReleaseNext
<1>3. ReleaseInv => OfferedWholeOrNot
  <2> SUFFICES ASSUME ReleaseInv PROVE OfferedWholeOrNot
    OBVIOUS
  <2>1. ASSUME alone, NEW y \in Manifests, Offered(y) PROVE landed(assets[Named[y]], assets[y].of)
    <3>1. Checked /\ assets[y].state = "uploaded"
      BY <2>1 DEF Checked, Offered
    <3>2. CASE y = "win.yml"
      BY <3>1, <3>2, ReleaseNames DEF ReleaseInv, InTurn
    <3>3. CASE y = "mac.yml"
      BY <3>1, <3>3, ReleaseNames DEF ReleaseInv, OfMac, landed
    <3> QED
      BY <3>2, <3>3, ReleaseNames
  <2>2. TakenBack
    BY DEF ReleaseInv, Words, TakenBack, Offered
  <2> QED
    BY <2>1, <2>2 DEF OfferedWholeOrNot, ClientsFindTheFile
<1> QED
  BY <1>1, <1>2, <1>3, PTL DEF ReleaseSpec

-----------------------------------------------------------------------------
(* The builder's colours, for any scale of shades.                         *)
Table == [TOKEN_KEYS -> Shades]
ColorsInv == colors \in Table
Floors == {Strong, Plain}

LEMMA EnsuredIs ==
    ASSUME NEW fg \in Shades, NEW bg \in Shades, NEW min \in 1 .. White
    PROVE  ensureContrast(fg, bg, min) \in Shades
  BY ColorAssumption DEF ensureContrast, contrast, Clamped, Shades

LEMMA MixedIs ==
    ASSUME NEW a \in Shades, NEW b \in Shades, NEW tenths \in 0 .. 10
    PROVE  mix(a, b, tenths) \in Shades
<1>1. White \in Nat /\ a \in Nat /\ b \in Nat /\ a <= White /\ b <= White
  BY ColorAssumption DEF Shades
<1>2. /\ 0 <= a * (10 - tenths) /\ a * (10 - tenths) <= White * (10 - tenths)
      /\ 0 <= b * tenths /\ b * tenths <= White * tenths
  BY <1>1
<1> DEFINE s == a * (10 - tenths) + b * tenths + 5
<1>3. s \in Nat /\ s <= White * 10 + 5
  BY <1>1, <1>2
<1> HIDE DEF s
<1>4. s \div 10 \in 0 .. White
  BY <1>1, <1>3
<1> QED
  BY <1>4 DEF s, mix, Shades

(* Text picked to read on both surfaces lends its readability to the       *)
(* muted text between it and the panel;                                    *)
LEMMA MutedReads ==
    ASSUME NEW bg \in Shades, NEW panel \in Shades, NEW ink \in Shades,
           contrast(ink, panel) >= Strong, contrast(ink, bg) >= Strong
    PROVE  LET m == ensureContrast(ensureContrast(mix(ink, panel, IF ink < bg THEN 3 ELSE 4), panel, Plain), bg, Plain)
           IN  contrast(m, panel) >= Plain /\ contrast(m, bg) >= Plain
  BY ColorAssumption DEF ensureContrast, contrast, Clamped, Shades, mix

(* and an accent that reads on the panel has room for the text on it.      *)
LEMMA OnGoldReads ==
    ASSUME NEW bg \in Shades, NEW panel \in Shades, NEW ink \in Shades, NEW gold \in Shades,
           contrast(ink, panel) >= Strong, contrast(ink, bg) >= Strong, contrast(gold, panel) >= Plain
    PROVE  contrast(ensureContrast(mix(gold, IF ink < bg THEN adjustL(panel, 1) ELSE bg, 9), gold, Plain), gold) >= Plain
  BY ColorAssumption DEF ensureContrast, contrast, Clamped, Shades, mix, adjustL

(* Both presses, for a colour on two surfaces with room on its side.       *)
Fixed(fg, b, m) == IF contrast(fg, b) < m THEN ensureContrast(fg, b, m) ELSE fg
FixedOnBoth(fg, b1, b2, m) ==
    IF contrast(fg, b2) < m THEN ensureContrast(Fixed(fg, b1, m), b2, m) ELSE Fixed(fg, b1, m)

Clear(a, b, m) == contrast(a, b) >= m
HasRoom(fg, b, m) == (fg >= b /\ b + m <= White) \/ (fg < b /\ b - m >= 0)
HasRoomOnBoth(fg, b1, b2, m) ==
    \/ fg >= b1 /\ fg >= b2 /\ b1 + m <= White /\ b2 + m <= White
    \/ fg < b1 /\ fg < b2 /\ b1 - m >= 0 /\ b2 - m >= 0

LEMMA FixedReads ==
    ASSUME NEW fg \in Shades, NEW b \in Shades, NEW m \in Floors
    PROVE  /\ Fixed(fg, b, m) \in Shades
           /\ HasRoom(fg, b, m) => Clear(Fixed(fg, b, m), b, m)
           /\ Clear(fg, b, m) => Fixed(fg, b, m) = fg
  BY ColorAssumption DEF Floors, ensureContrast, contrast, Clamped, Shades, Clear, Fixed, HasRoom

LEMMA FixedOnBothReads ==
    ASSUME NEW fg \in Shades, NEW b1 \in Shades, NEW b2 \in Shades, NEW m \in Floors
    PROVE  /\ FixedOnBoth(fg, b1, b2, m) \in Shades
           /\ HasRoomOnBoth(fg, b1, b2, m) => /\ Clear(FixedOnBoth(fg, b1, b2, m), b1, m)
                                              /\ Clear(FixedOnBoth(fg, b1, b2, m), b2, m)
           /\ Clear(fg, b1, m) /\ Clear(fg, b2, m) => FixedOnBoth(fg, b1, b2, m) = fg
  BY ColorAssumption DEF Floors, ensureContrast, contrast, Clamped, Shades, Clear, Fixed, FixedOnBoth, HasRoomOnBoth

LEMMA DerivedTable == ASSUME NEW p \in [PRIMARY_KEYS -> Shades] PROVE derive(p) \in Table
<1> DEFINE muted == mix(p["ink"], p["panel"], IF isLightTheme(p) THEN 3 ELSE 4)
           on    == mix(p["gold"], IF isLightTheme(p) THEN adjustL(p["panel"], 1) ELSE p["bg"], 9)
<1>1. p["ink"] \in Shades /\ p["panel"] \in Shades /\ p["gold"] \in Shades /\ p["bg"] \in Shades
  BY DEF PRIMARY_KEYS
<1>2. adjustL(p["panel"], 1) \in Shades
  BY <1>1, ColorAssumption DEF adjustL, Clamped, Shades
<1>3. muted \in Shades /\ on \in Shades
  BY <1>1, <1>2, MixedIs
<1> HIDE DEF muted, on
<1>4. Plain \in 1 .. White
  BY ColorAssumption
<1>5. legible(muted, p) \in Shades /\ ensureContrast(on, p["gold"], Plain) \in Shades
  BY <1>1, <1>3, <1>4, EnsuredIs DEF legible
<1>6. derive(p) = [k \in TOKEN_KEYS |-> IF k = "muted" THEN legible(muted, p)
                                        ELSE IF k = "inkOnGold" THEN ensureContrast(on, p["gold"], Plain) ELSE p[k]]
  BY DEF derive, muted, on
<1> QED
  BY <1>5, <1>6 DEF Table, TOKEN_KEYS, DERIVED_KEYS

LEMMA RulesAre ==
    /\ DOMAIN CONTRAST_RULES = 1 .. 6 /\ Len(CONTRAST_RULES) = 6
    /\ CONTRAST_RULES[1] = Rule("ink", "panel", Strong) /\ CONTRAST_RULES[2] = Rule("ink", "bg", Strong)
    /\ CONTRAST_RULES[3] = Rule("muted", "panel", Plain) /\ CONTRAST_RULES[4] = Rule("muted", "bg", Plain)
    /\ CONTRAST_RULES[5] = Rule("gold", "panel", Plain) /\ CONTRAST_RULES[6] = Rule("inkOnGold", "gold", Plain)
  BY DEF CONTRAST_RULES

LEMMA RuleIs == \A fg, bg, m : Rule(fg, bg, m).fg = fg /\ Rule(fg, bg, m).bg = bg /\ Rule(fg, bg, m).min = m
  BY DEF Rule

LEMMA FaintIs ==
    ASSUME NEW t
    PROVE  /\ TooFaint(t, CONTRAST_RULES[1]) <=> contrast(t["ink"], t["panel"]) < Strong
           /\ TooFaint(t, CONTRAST_RULES[2]) <=> contrast(t["ink"], t["bg"]) < Strong
           /\ TooFaint(t, CONTRAST_RULES[3]) <=> contrast(t["muted"], t["panel"]) < Plain
           /\ TooFaint(t, CONTRAST_RULES[4]) <=> contrast(t["muted"], t["bg"]) < Plain
           /\ TooFaint(t, CONTRAST_RULES[5]) <=> contrast(t["gold"], t["panel"]) < Plain
           /\ TooFaint(t, CONTRAST_RULES[6]) <=> contrast(t["inkOnGold"], t["gold"]) < Plain
  BY RulesAre, RuleIs DEF TooFaint

-----------------------------------------------------------------------------
(* Auto-fix, rule by rule.                                                 *)
Press(t, i, u) == IF i \in contrastIssues(t) THEN Nudged(u, CONTRAST_RULES[i]) ELSE u

LEMMA PressesAre ==
    ASSUME NEW t
    PROVE  autoFixContrast(t) =
               Press(t, 6, Press(t, 5, Press(t, 4, Press(t, 3, Press(t, 2, Press(t, 1, t))))))
<1> DEFINE Until(f) == f = [i \in 0 .. Len(CONTRAST_RULES) |-> IF i = 0 THEN t
                               ELSE IF i \in contrastIssues(t) THEN Nudged(f[i - 1], CONTRAST_RULES[i]) ELSE f[i - 1]]
           u1 == Press(t, 1, t)
           u2 == Press(t, 2, u1)
           u3 == Press(t, 3, u2)
           u4 == Press(t, 4, u3)
           u5 == Press(t, 5, u4)
           u6 == Press(t, 6, u5)
           g  == [i \in 0 .. 6 |-> IF i = 0 THEN t ELSE IF i = 1 THEN u1 ELSE IF i = 2 THEN u2 ELSE IF i = 3 THEN u3
                                   ELSE IF i = 4 THEN u4 ELSE IF i = 5 THEN u5 ELSE u6]
<1>1. Until(g)
  <2>1. ASSUME NEW i \in 0 .. 6
        PROVE  g[i] = IF i = 0 THEN t ELSE IF i \in contrastIssues(t) THEN Nudged(g[i - 1], CONTRAST_RULES[i]) ELSE g[i - 1]
    <3>1. i # 0 => g[i] = Press(t, i, g[i - 1])
      <4> HIDE DEF u1, u2, u3, u4, u5, u6
      <4>1. g[0] = t /\ g[1] = u1 /\ g[2] = u2 /\ g[3] = u3 /\ g[4] = u4 /\ g[5] = u5 /\ g[6] = u6
        OBVIOUS
      <4> HIDE DEF g
      <4>2. i # 0 => i \in {1, 2, 3, 4, 5, 6}
        OBVIOUS
      <4> QED
        BY <4>1, <4>2 DEF u1, u2, u3, u4, u5, u6
    <3>2. g[0] = t
      OBVIOUS
    <3> HIDE DEF g
    <3> QED
      BY <3>1, <3>2 DEF Press
  <2>2. Len(CONTRAST_RULES) = 6
    BY RulesAre
  <2>3. g = [i \in 0 .. 6 |-> IF i = 0 THEN t
                ELSE IF i \in contrastIssues(t) THEN Nudged(g[i - 1], CONTRAST_RULES[i]) ELSE g[i - 1]]
    BY <2>1
  <2> HIDE DEF g
  <2> QED
    BY <2>2, <2>3
<1> HIDE DEF g
<1> DEFINE f == CHOOSE h : Until(h)
<1>2. Until(f)
  <2> HIDE DEF Until
  <2> QED
    BY <1>1, Zenon
<1>3. autoFixContrast(t) = f[Len(CONTRAST_RULES)]
  BY DEF autoFixContrast
<1>4. Len(CONTRAST_RULES) = 6
  BY RulesAre
<1> HIDE DEF f
<1>5. ASSUME NEW i \in 0 .. 6
      PROVE  f[i] = IF i = 0 THEN t ELSE IF i \in contrastIssues(t) THEN Nudged(f[i - 1], CONTRAST_RULES[i]) ELSE f[i - 1]
  <2> DEFINE h == [j \in 0 .. 6 |-> IF j = 0 THEN t
                      ELSE IF j \in contrastIssues(t) THEN Nudged(f[j - 1], CONTRAST_RULES[j]) ELSE f[j - 1]]
  <2>1. h[i] = IF i = 0 THEN t ELSE IF i \in contrastIssues(t) THEN Nudged(f[i - 1], CONTRAST_RULES[i]) ELSE f[i - 1]
    OBVIOUS
  <2>2. f = h
    BY <1>2, <1>4
  <2> HIDE DEF h
  <2> QED
    BY <2>1, <2>2
<1>6. f[0] = t /\ f[1] = Press(t, 1, f[0]) /\ f[2] = Press(t, 2, f[1]) /\ f[3] = Press(t, 3, f[2])
      /\ f[4] = Press(t, 4, f[3]) /\ f[5] = Press(t, 5, f[4]) /\ f[6] = Press(t, 6, f[5])
  BY <1>5 DEF Press
<1> QED
  BY <1>3, <1>4, <1>6

(* What a rule's press leaves, and what it changes.                        *)
LEMMA PressIs ==
    ASSUME NEW t, NEW i \in 1 .. 6, NEW u \in Table, NEW fg \in TOKEN_KEYS, NEW bg \in TOKEN_KEYS, NEW m \in 1 .. White,
           CONTRAST_RULES[i] = Rule(fg, bg, m)
    PROVE  /\ Press(t, i, u) \in Table /\ \A k \in TOKEN_KEYS \ {fg} : Press(t, i, u)[k] = u[k]
           /\ Press(t, i, u)[fg] = IF TooFaint(t, CONTRAST_RULES[i]) THEN ensureContrast(u[fg], u[bg], m) ELSE u[fg]
<1>1. i \in contrastIssues(t) <=> TooFaint(t, CONTRAST_RULES[i])
  BY RulesAre DEF contrastIssues
<1>2. u[fg] \in Shades /\ u[bg] \in Shades
  BY DEF Table
<1>3. ensureContrast(u[fg], u[bg], m) \in Shades
  BY <1>2, EnsuredIs
<1> DEFINE e == ensureContrast(u[fg], u[bg], m)
<1>4. Nudged(u, CONTRAST_RULES[i]) = [u EXCEPT ![fg] = e]
  <2>1. CONTRAST_RULES[i].fg = fg /\ CONTRAST_RULES[i].bg = bg /\ CONTRAST_RULES[i].min = m
    BY RuleIs
  <2> QED
    BY <2>1 DEF Nudged
<1> HIDE DEF e
<1>5. [u EXCEPT ![fg] = e] \in Table /\ [u EXCEPT ![fg] = e][fg] = e /\ \A k \in TOKEN_KEYS \ {fg} : [u EXCEPT ![fg] = e][k] = u[k]
  BY <1>3 DEF Table, e
<1> QED
  BY <1>1, <1>4, <1>5 DEF Press, e

LEMMA AutoFixIs ==
    ASSUME NEW t \in Table
    PROVE  LET u == autoFixContrast(t)
           IN  /\ u \in Table /\ u["bg"] = t["bg"] /\ u["panel"] = t["panel"]
               /\ u["ink"] = FixedOnBoth(t["ink"], t["panel"], t["bg"], Strong)
               /\ u["muted"] = FixedOnBoth(t["muted"], t["panel"], t["bg"], Plain)
               /\ u["gold"] = Fixed(t["gold"], t["panel"], Plain)
               /\ u["inkOnGold"] = IF contrast(t["inkOnGold"], t["gold"]) < Plain
                                   THEN ensureContrast(t["inkOnGold"], u["gold"], Plain) ELSE t["inkOnGold"]
<1> DEFINE u1 == Press(t, 1, t)
           u2 == Press(t, 2, u1)
           u3 == Press(t, 3, u2)
           u4 == Press(t, 4, u3)
           u5 == Press(t, 5, u4)
           u6 == Press(t, 6, u5)
<1>0. /\ autoFixContrast(t) = u6 /\ Strong \in 1 .. White /\ Plain \in 1 .. White
      /\ {"ink", "panel", "bg", "muted", "gold", "inkOnGold"} = TOKEN_KEYS
  BY PressesAre, ColorAssumption DEF TOKEN_KEYS, PRIMARY_KEYS, DERIVED_KEYS
<1>a. /\ "ink" \in TOKEN_KEYS /\ "panel" \in TOKEN_KEYS /\ "bg" \in TOKEN_KEYS /\ "muted" \in TOKEN_KEYS
      /\ "gold" \in TOKEN_KEYS /\ "inkOnGold" \in TOKEN_KEYS
  BY DEF TOKEN_KEYS, PRIMARY_KEYS, DERIVED_KEYS
<1>1. /\ u1 \in Table /\ \A k \in TOKEN_KEYS \ {"ink"} : u1[k] = t[k]
      /\ u1["ink"] = IF TooFaint(t, CONTRAST_RULES[1]) THEN ensureContrast(t["ink"], t["panel"], Strong) ELSE t["ink"]
  BY <1>0, <1>a, RulesAre, PressIs
<1> HIDE DEF u1
<1>2. /\ u2 \in Table /\ \A k \in TOKEN_KEYS \ {"ink"} : u2[k] = u1[k]
      /\ u2["ink"] = IF TooFaint(t, CONTRAST_RULES[2]) THEN ensureContrast(u1["ink"], u1["bg"], Strong) ELSE u1["ink"]
  BY <1>0, <1>a, <1>1, RulesAre, PressIs
<1> HIDE DEF u2
<1>3. /\ u3 \in Table /\ \A k \in TOKEN_KEYS \ {"muted"} : u3[k] = u2[k]
      /\ u3["muted"] = IF TooFaint(t, CONTRAST_RULES[3]) THEN ensureContrast(u2["muted"], u2["panel"], Plain) ELSE u2["muted"]
  BY <1>0, <1>a, <1>2, RulesAre, PressIs
<1> HIDE DEF u3
<1>4. /\ u4 \in Table /\ \A k \in TOKEN_KEYS \ {"muted"} : u4[k] = u3[k]
      /\ u4["muted"] = IF TooFaint(t, CONTRAST_RULES[4]) THEN ensureContrast(u3["muted"], u3["bg"], Plain) ELSE u3["muted"]
  BY <1>0, <1>a, <1>3, RulesAre, PressIs
<1> HIDE DEF u4
<1>5. /\ u5 \in Table /\ \A k \in TOKEN_KEYS \ {"gold"} : u5[k] = u4[k]
      /\ u5["gold"] = IF TooFaint(t, CONTRAST_RULES[5]) THEN ensureContrast(u4["gold"], u4["panel"], Plain) ELSE u4["gold"]
  BY <1>0, <1>a, <1>4, RulesAre, PressIs
<1> HIDE DEF u5
<1>6. /\ u6 \in Table /\ \A k \in TOKEN_KEYS \ {"inkOnGold"} : u6[k] = u5[k]
      /\ u6["inkOnGold"] = IF TooFaint(t, CONTRAST_RULES[6]) THEN ensureContrast(u5["inkOnGold"], u5["gold"], Plain)
                           ELSE u5["inkOnGold"]
  BY <1>0, <1>a, <1>5, RulesAre, PressIs
<1> HIDE DEF u6
<1>7. /\ u6["bg"] = t["bg"] /\ u6["panel"] = t["panel"]
      /\ u1["panel"] = t["panel"] /\ u1["bg"] = t["bg"] /\ u2["panel"] = t["panel"] /\ u2["bg"] = t["bg"] /\ u2["muted"] = t["muted"]
      /\ u3["bg"] = t["bg"] /\ u4["gold"] = t["gold"] /\ u4["panel"] = t["panel"] /\ u5["inkOnGold"] = t["inkOnGold"]
      /\ u6["ink"] = u2["ink"] /\ u6["muted"] = u4["muted"] /\ u6["gold"] = u5["gold"]
  BY <1>a, <1>1, <1>2, <1>3, <1>4, <1>5, <1>6
<1>8. u6["ink"] = FixedOnBoth(t["ink"], t["panel"], t["bg"], Strong)
  BY <1>1, <1>2, <1>7, FaintIs DEF FixedOnBoth, Fixed
<1>9. u6["muted"] = FixedOnBoth(t["muted"], t["panel"], t["bg"], Plain)
  BY <1>3, <1>4, <1>7, FaintIs DEF FixedOnBoth, Fixed
<1>10. u6["gold"] = Fixed(t["gold"], t["panel"], Plain)
  BY <1>5, <1>7, FaintIs DEF Fixed
<1>11. u6["inkOnGold"] = IF contrast(t["inkOnGold"], t["gold"]) < Plain
                         THEN ensureContrast(t["inkOnGold"], u6["gold"], Plain) ELSE t["inkOnGold"]
  BY <1>6, <1>7, FaintIs
<1> QED
  BY <1>0, <1>6, <1>7, <1>8, <1>9, <1>10, <1>11

-----------------------------------------------------------------------------
(* The room a colour has, by the surfaces its rules name.                  *)
LEMMA RoomIs ==
    ASSUME NEW t \in Table
    PROVE  /\ Room(t, "ink") => HasRoomOnBoth(t["ink"], t["panel"], t["bg"], Strong)
           /\ Room(t, "muted") => HasRoomOnBoth(t["muted"], t["panel"], t["bg"], Plain)
           /\ Room(t, "gold") => HasRoom(t["gold"], t["panel"], Plain)
           /\ Room(t, "inkOnGold") => HasRoom(t["inkOnGold"], t["gold"], Plain)
<1> DEFINE On(fg) == {i \in 1 .. 6 : CONTRAST_RULES[i].fg = fg}
<1>1. /\ CONTRAST_RULES[1].fg = "ink" /\ CONTRAST_RULES[2].fg = "ink" /\ CONTRAST_RULES[3].fg = "muted"
      /\ CONTRAST_RULES[4].fg = "muted" /\ CONTRAST_RULES[5].fg = "gold" /\ CONTRAST_RULES[6].fg = "inkOnGold"
      /\ CONTRAST_RULES[1].bg = "panel" /\ CONTRAST_RULES[2].bg = "bg" /\ CONTRAST_RULES[3].bg = "panel"
      /\ CONTRAST_RULES[4].bg = "bg" /\ CONTRAST_RULES[5].bg = "panel" /\ CONTRAST_RULES[6].bg = "gold"
      /\ CONTRAST_RULES[1].min = Strong /\ CONTRAST_RULES[2].min = Strong /\ CONTRAST_RULES[3].min = Plain
      /\ CONTRAST_RULES[4].min = Plain /\ CONTRAST_RULES[5].min = Plain /\ CONTRAST_RULES[6].min = Plain
  BY RulesAre, RuleIs
<1>2. 1 \in On("ink") /\ 2 \in On("ink") /\ 3 \in On("muted") /\ 4 \in On("muted") /\ 5 \in On("gold") /\ 6 \in On("inkOnGold")
  BY <1>1
<1>3. \A fg : Room(t, fg) <=>
        \/ /\ \A i \in On(fg) : t[fg] >= t[CONTRAST_RULES[i].bg]
           /\ \A i \in On(fg) : t[CONTRAST_RULES[i].bg] + CONTRAST_RULES[i].min <= White
        \/ /\ \A i \in On(fg) : t[fg] < t[CONTRAST_RULES[i].bg]
           /\ \A i \in On(fg) : t[CONTRAST_RULES[i].bg] - CONTRAST_RULES[i].min >= 0
  BY RulesAre DEF Room
<1> HIDE DEF On
<1> QED
  BY <1>1, <1>2, <1>3 DEF HasRoom, HasRoomOnBoth

(* Two presses, for any table.                                             *)
LEMMA TwoPresses == ASSUME NEW t \in Table, colors = t PROVE TwoPressesDo
<1> DEFINE u == autoFixContrast(t)
           v == autoFixContrast(u)
<1>0. /\ Strong \in Floors /\ Plain \in Floors /\ Strong \in Int /\ Plain \in Int
      /\ "ink" \in TOKEN_KEYS /\ "panel" \in TOKEN_KEYS /\ "bg" \in TOKEN_KEYS /\ "muted" \in TOKEN_KEYS
      /\ "gold" \in TOKEN_KEYS /\ "inkOnGold" \in TOKEN_KEYS
  BY ColorAssumption DEF TOKEN_KEYS, PRIMARY_KEYS, DERIVED_KEYS, Floors
<1>1. /\ u \in Table /\ u["bg"] = t["bg"] /\ u["panel"] = t["panel"]
      /\ u["ink"] = FixedOnBoth(t["ink"], t["panel"], t["bg"], Strong)
      /\ u["muted"] = FixedOnBoth(t["muted"], t["panel"], t["bg"], Plain)
      /\ u["gold"] = Fixed(t["gold"], t["panel"], Plain)
  BY AutoFixIs
<1> HIDE DEF u
<1>2. /\ v \in Table /\ v["bg"] = u["bg"] /\ v["panel"] = u["panel"]
      /\ v["ink"] = FixedOnBoth(u["ink"], u["panel"], u["bg"], Strong)
      /\ v["muted"] = FixedOnBoth(u["muted"], u["panel"], u["bg"], Plain)
      /\ v["gold"] = Fixed(u["gold"], u["panel"], Plain)
      /\ v["inkOnGold"] = IF contrast(u["inkOnGold"], u["gold"]) < Plain
                          THEN ensureContrast(u["inkOnGold"], v["gold"], Plain) ELSE u["inkOnGold"]
  BY <1>1, AutoFixIs
<1> HIDE DEF v
<1>3. \A k \in TOKEN_KEYS : t[k] \in Shades /\ u[k] \in Shades /\ v[k] \in Shades
  BY <1>1, <1>2 DEF Table
<1>s. /\ t["ink"] \in Shades /\ t["muted"] \in Shades /\ t["gold"] \in Shades /\ t["panel"] \in Shades /\ t["bg"] \in Shades
      /\ u["ink"] \in Shades /\ u["muted"] \in Shades /\ u["gold"] \in Shades /\ u["inkOnGold"] \in Shades
      /\ u["panel"] = t["panel"] /\ u["bg"] = t["bg"]
  BY <1>0, <1>1, <1>3
<1>4. ASSUME Room(t, "ink"), Room(t, "muted"), Room(t, "gold"), Room(u, "inkOnGold")
      PROVE  /\ HasRoomOnBoth(t["ink"], t["panel"], t["bg"], Strong)
             /\ HasRoomOnBoth(t["muted"], t["panel"], t["bg"], Plain)
             /\ HasRoom(t["gold"], t["panel"], Plain)
             /\ HasRoom(u["inkOnGold"], u["gold"], Plain)
  BY <1>1, <1>4, RoomIs
<1>5. ASSUME Room(t, "ink"), Room(t, "muted"), Room(t, "gold"), Room(u, "inkOnGold")
      PROVE  contrastIssues(v) = {}
  <2>1. Clear(u["ink"], t["panel"], Strong) /\ Clear(u["ink"], t["bg"], Strong)
    <3>1. HasRoomOnBoth(t["ink"], t["panel"], t["bg"], Strong)
      BY <1>4, <1>5
    <3>2. t["ink"] \in Shades /\ t["panel"] \in Shades /\ t["bg"] \in Shades /\ Strong \in Floors
      BY <1>0, <1>s
    <3> DEFINE x == FixedOnBoth(t["ink"], t["panel"], t["bg"], Strong)
    <3>3. Clear(x, t["panel"], Strong) /\ Clear(x, t["bg"], Strong)
      BY <3>1, <3>2, FixedOnBothReads
    <3>4. u["ink"] = x
      BY <1>1
    <3> QED
      BY <3>3, <3>4
  <2>2. Clear(u["muted"], t["panel"], Plain) /\ Clear(u["muted"], t["bg"], Plain)
    <3>1. HasRoomOnBoth(t["muted"], t["panel"], t["bg"], Plain)
      BY <1>4, <1>5
    <3>2. t["muted"] \in Shades /\ t["panel"] \in Shades /\ t["bg"] \in Shades /\ Plain \in Floors
      BY <1>0, <1>s
    <3> DEFINE x == FixedOnBoth(t["muted"], t["panel"], t["bg"], Plain)
    <3>3. Clear(x, t["panel"], Plain) /\ Clear(x, t["bg"], Plain)
      BY <3>1, <3>2, FixedOnBothReads
    <3>4. u["muted"] = x
      BY <1>1
    <3> QED
      BY <3>3, <3>4
  <2>3. Clear(u["gold"], t["panel"], Plain)
    <3>1. HasRoom(t["gold"], t["panel"], Plain)
      BY <1>4, <1>5
    <3>2. t["gold"] \in Shades /\ t["panel"] \in Shades /\ Plain \in Floors
      BY <1>0, <1>s
    <3>3. Clear(Fixed(t["gold"], t["panel"], Plain), t["panel"], Plain)
      BY <3>1, <3>2, FixedReads
    <3>4. u["gold"] = Fixed(t["gold"], t["panel"], Plain)
      BY <1>1
    <3> QED
      BY <3>3, <3>4
  <2>4. v["ink"] = u["ink"] /\ v["muted"] = u["muted"] /\ v["gold"] = u["gold"]
    <3>1. FixedOnBoth(u["ink"], t["panel"], t["bg"], Strong) = u["ink"]
      BY <1>0, <1>s, <2>1, FixedOnBothReads
    <3>2. FixedOnBoth(u["muted"], t["panel"], t["bg"], Plain) = u["muted"]
      BY <1>0, <1>s, <2>2, FixedOnBothReads
    <3>3. Fixed(u["gold"], t["panel"], Plain) = u["gold"]
      BY <1>0, <1>s, <2>3, FixedReads
    <3> QED
      BY <1>1, <1>2, <3>1, <3>2, <3>3
  <2>5. v["inkOnGold"] = Fixed(u["inkOnGold"], u["gold"], Plain)
    BY <1>2, <2>4 DEF Fixed
  <2>6. Clear(v["inkOnGold"], v["gold"], Plain)
    <3>1. HasRoom(u["inkOnGold"], u["gold"], Plain) /\ u["inkOnGold"] \in Shades /\ u["gold"] \in Shades /\ Plain \in Floors
      BY <1>0, <1>s, <1>4, <1>5
    <3>2. Clear(Fixed(u["inkOnGold"], u["gold"], Plain), u["gold"], Plain)
      BY <3>1, FixedReads
    <3> QED
      BY <2>4, <2>5, <3>2
  <2>7. \A i \in 1 .. 6 : ~TooFaint(v, CONTRAST_RULES[i])
    <3>1. \A a, b \in Shades : contrast(a, b) \in Int
      BY DEF Shades, contrast
    <3>2. /\ ~(contrast(v["ink"], v["panel"]) < Strong) /\ ~(contrast(v["ink"], v["bg"]) < Strong)
          /\ ~(contrast(v["muted"], v["panel"]) < Plain) /\ ~(contrast(v["muted"], v["bg"]) < Plain)
          /\ ~(contrast(v["gold"], v["panel"]) < Plain) /\ ~(contrast(v["inkOnGold"], v["gold"]) < Plain)
      BY <1>0, <1>1, <1>2, <1>3, <2>1, <2>2, <2>3, <2>4, <2>6, <3>1 DEF Clear
    <3>3. \A i \in 1 .. 6 : i = 1 \/ i = 2 \/ i = 3 \/ i = 4 \/ i = 5 \/ i = 6
      OBVIOUS
    <3> QED
      BY <3>2, <3>3, FaintIs
  <2> QED
    BY <2>7, RulesAre DEF contrastIssues
<1>6. v["bg"] = t["bg"] /\ v["panel"] = t["panel"]
  BY <1>1, <1>2
<1>7. TwoPressesDo <=> LET twice == v
                       IN  /\ \A k \in {"bg", "panel"} : twice[k] = t[k]
                           /\ (\A fg \in {"ink", "muted", "gold"} : Room(t, fg)) /\ Room(u, "inkOnGold")
                                 => contrastIssues(twice) = {}
  BY DEF TwoPressesDo, u, v
<1> QED
  BY <1>5, <1>6, <1>7

LEMMA DefaultsAreSensible == ASSUME NEW t \in Table, colors = t PROVE SensibleDefaults
<1> DEFINE p == primariesOf(t)
           d == derive(p)
<1>1. /\ p["ink"] \in Shades /\ p["panel"] \in Shades /\ p["gold"] \in Shades /\ p["bg"] \in Shades
      /\ p \in [PRIMARY_KEYS -> Shades]
  BY DEF primariesOf, Table, TOKEN_KEYS, PRIMARY_KEYS
<1> HIDE DEF p
<1>2. d \in Table
  BY <1>1, DerivedTable
<1>3. /\ d["ink"] = p["ink"] /\ d["panel"] = p["panel"] /\ d["bg"] = p["bg"] /\ d["gold"] = p["gold"]
      /\ d["muted"] = ensureContrast(ensureContrast(mix(p["ink"], p["panel"], IF p["ink"] < p["bg"] THEN 3 ELSE 4),
                                                     p["panel"], Plain), p["bg"], Plain)
      /\ d["inkOnGold"] = ensureContrast(mix(p["gold"], IF p["ink"] < p["bg"] THEN adjustL(p["panel"], 1) ELSE p["bg"], 9),
                                         p["gold"], Plain)
  BY DEF derive, isLightTheme, legible, TOKEN_KEYS, PRIMARY_KEYS, DERIVED_KEYS
<1> HIDE DEF d
<1> DEFINE AllRead(fgs) == \A i \in DOMAIN CONTRAST_RULES : CONTRAST_RULES[i].fg \in fgs => ~TooFaint(d, CONTRAST_RULES[i])
<1>4. /\ CONTRAST_RULES[1].fg = "ink" /\ CONTRAST_RULES[2].fg = "ink" /\ CONTRAST_RULES[3].fg = "muted"
      /\ CONTRAST_RULES[4].fg = "muted" /\ CONTRAST_RULES[5].fg = "gold" /\ CONTRAST_RULES[6].fg = "inkOnGold"
  BY RulesAre, RuleIs
<1>5. \A a, b \in Shades : contrast(a, b) \in Int
  BY DEF Shades, contrast
<1>6. Strong \in Int /\ Plain \in Int /\ \A k \in TOKEN_KEYS : d[k] \in Shades
  BY <1>2, ColorAssumption DEF Table
<1>7. ASSUME AllRead({"ink", "gold"}) PROVE AllRead(DERIVED_KEYS)
  <2>1. contrast(p["ink"], p["panel"]) >= Strong /\ contrast(p["ink"], p["bg"]) >= Strong /\ contrast(p["gold"], p["panel"]) >= Plain
    <3>1. ~TooFaint(d, CONTRAST_RULES[1]) /\ ~TooFaint(d, CONTRAST_RULES[2]) /\ ~TooFaint(d, CONTRAST_RULES[5])
      BY <1>4, <1>7, RulesAre
    <3> QED
      BY <1>1, <1>3, <1>5, <1>6, <3>1, FaintIs
  <2>2. contrast(d["muted"], d["panel"]) >= Plain /\ contrast(d["muted"], d["bg"]) >= Plain
    BY <1>1, <1>3, <2>1, MutedReads
  <2>3. contrast(d["inkOnGold"], d["gold"]) >= Plain
    BY <1>1, <1>3, <2>1, OnGoldReads
  <2>4. ~TooFaint(d, CONTRAST_RULES[3]) /\ ~TooFaint(d, CONTRAST_RULES[4]) /\ ~TooFaint(d, CONTRAST_RULES[6])
    <3>1. "muted" \in TOKEN_KEYS /\ "inkOnGold" \in TOKEN_KEYS
      BY DEF TOKEN_KEYS, DERIVED_KEYS
    <3> QED
      BY <1>1, <1>3, <1>5, <1>6, <2>2, <2>3, <3>1, FaintIs
  <2>5. \A i \in 1 .. 6 : i = 1 \/ i = 2 \/ i = 3 \/ i = 4 \/ i = 5 \/ i = 6
    OBVIOUS
  <2> QED
    BY <1>4, <2>4, <2>5, RulesAre DEF DERIVED_KEYS
<1>8. SensibleDefaults <=> (AllRead({"ink", "gold"}) => AllRead(DERIVED_KEYS))
  BY DEF SensibleDefaults, d, p
<1> QED
  BY <1>7, <1>8

(* Whatever is picked, pinned, reset and fixed: colours derived from text  *)
(* and an accent that read can be read, and two presses of Auto-fix make   *)
(* every colour readable that has room (themeDerive.js, color.js), on any  *)
(* scale on which 7:1 and 4.5:1 do not fit one after the other.            *)
THEOREM ColorsAreLegibleEver == ColorsSpec => []ColorsAreLegible
<1>1. ColorsInit => ColorsInv
  BY DerivedTable DEF ColorsInit, ColorsInv
<1>2. ColorsInv /\ [ColorsNext]_colorVars => ColorsInv'
  <2> SUFFICES ASSUME ColorsInv, [ColorsNext]_colorVars PROVE ColorsInv'
    OBVIOUS
  <2> USE DEF ColorsInv
  <2>0. primariesOf(colors) \in [PRIMARY_KEYS -> Shades] /\ DERIVED_KEYS \subseteq TOKEN_KEYS
    BY DEF primariesOf, Table, TOKEN_KEYS
  <2>1. ASSUME NEW k \in PRIMARY_KEYS, NEW c \in Shades, setPrimary(k, c) PROVE ColorsInv'
    <3> DEFINE next == [primariesOf(colors) EXCEPT ![k] = c]
               before == derive(primariesOf(colors))
               after == derive(next)
    <3>1. next \in [PRIMARY_KEYS -> Shades]
      BY <2>0
    <3> HIDE DEF next
    <3>2. before \in Table /\ after \in Table
      BY <2>0, <3>1, DerivedTable
    <3>3. colors' = [j \in TOKEN_KEYS |-> IF j \in DERIVED_KEYS THEN Clamped(after[j] + colors[j] - before[j]) ELSE after[j]]
      BY <2>1 DEF setPrimary, Edit, rederive, next
    <3> HIDE DEF before, after
    <3>4. \A j \in TOKEN_KEYS : after[j] \in Shades /\ colors[j] \in Shades /\ before[j] \in Shades
      BY <3>2 DEF Table
    <3>5. \A x \in Int : Clamped(x) \in Shades
      BY ColorAssumption DEF Clamped, Shades
    <3>6. \A j \in TOKEN_KEYS : Clamped(after[j] + colors[j] - before[j]) \in Shades
      BY <3>4, <3>5 DEF Shades
    <3> QED
      BY <3>3, <3>4, <3>6 DEF Table
  <2>2. ASSUME NEW k \in DERIVED_KEYS, NEW c \in Shades, setDerived(k, c) PROVE ColorsInv'
    BY <2>0, <2>2 DEF setDerived, Edit, Table
  <2>3. ASSUME NEW k \in DERIVED_KEYS, resetDerived(k) PROVE ColorsInv'
    <3>1. derive(primariesOf(colors))[k] \in Shades
      BY <2>0, DerivedTable DEF Table
    <3> QED
      BY <2>0, <2>3, <3>1 DEF resetDerived, Edit, Table
  <2>4. CASE AutoFix
    BY <2>4, AutoFixIs DEF AutoFix
  <2>5. CASE UNCHANGED colorVars
    BY <2>5 DEF colorVars
  <2> QED
    BY <2>1, <2>2, <2>3, <2>4, <2>5 DEF ColorsNext
<1>3. ColorsInv => ColorsAreLegible
  <2> SUFFICES ASSUME ColorsInv PROVE ColorsAreLegible
    OBVIOUS
  <2>1. PICK t \in Table : colors = t
    BY DEF ColorsInv
  <2> QED
    BY <2>1, TwoPresses, DefaultsAreSensible DEF ColorsAreLegible
<1> QED
  BY <1>1, <1>2, <1>3, PTL DEF ColorsSpec

-----------------------------------------------------------------------------
(* The Regex page's patterns, for any base and any bounds.  Texts are read  *)
(* in the order of the dictionary, which for texts of one width is that of  *)
(* the numbers.                                                            *)
Texts(w)          == [1 .. w -> AnyDigit]
Patterns(w)       == {p \in Seq(SUBSET AnyDigit) : Len(p) = w}
Covers(parts, ds) == \E p \in parts : Fits(p, ds)
Widths            == 1 .. 3

\* a is not after b in the dictionary
UpTo(a, b) ==
    \/ a[1] < b[1]
    \/ /\ a[1] = b[1]
       /\ Len(a) > 1 => \/ a[2] < b[2]
                        \/ a[2] = b[2] /\ (Len(a) > 2 => a[3] <= b[3])

LEMMA Digits == Base \in Nat /\ Base > 2 /\ AnyDigit \subseteq Nat /\ 0 \in AnyDigit /\ Base - 1 \in AnyDigit
                /\ \A x \in AnyDigit : 0 <= x /\ x <= Base - 1
  BY AskAssumption DEF AnyDigit

LEMMA TextIs ==
    ASSUME NEW w \in Widths, NEW ds \in Texts(w)
    PROVE  /\ ds \in Seq(AnyDigit) /\ Len(ds) = w /\ DOMAIN ds = 1 .. w
           /\ \A i \in 1 .. w : ds[i] \in AnyDigit
  BY DEF Texts, Widths

LEMMA TextOf ==
    ASSUME NEW w \in Widths, NEW ds \in Seq(AnyDigit), Len(ds) = w
    PROVE  ds \in Texts(w)
  BY LenProperties DEF Texts

LEMMA SameText ==
    ASSUME NEW w \in Widths, NEW a \in Texts(w), NEW b \in Texts(w), \A i \in 1 .. w : a[i] = b[i]
    PROVE  a = b
<1>1. a \in Seq(AnyDigit) /\ b \in Seq(AnyDigit) /\ Len(a) = w /\ Len(b) = w
  BY TextIs
<1> QED
  BY <1>1, SeqEqual

LEMMA TailIs ==
    ASSUME NEW w \in Widths, w > 1, NEW ds \in Texts(w)
    PROVE  /\ w - 1 \in Widths /\ Tail(ds) \in Texts(w - 1)
           /\ \A i \in 1 .. w - 1, j \in 2 .. w : j = i + 1 => Tail(ds)[i] = ds[j]
<1>0. ds \in Seq(AnyDigit) /\ Len(ds) = w
  BY TextIs
<1>1. ds \in Seq(AnyDigit) /\ Len(ds) = w /\ ds # <<>>
  BY <1>0
<1>2. Tail(ds) \in Seq(AnyDigit) /\ Len(Tail(ds)) = w - 1 /\ \A i \in 1 .. Len(Tail(ds)) : Tail(ds)[i] = ds[i + 1]
  BY <1>1, HeadTailProperties
<1>3. w - 1 \in Widths
  BY DEF Widths
<1>4. \A i \in 1 .. w - 1, j \in 2 .. w : j = i + 1 => Tail(ds)[i] = ds[j]
  BY <1>2
<1> QED
  BY <1>2, <1>3, <1>4, TextOf

LEMMA EndsAre ==
    ASSUME NEW w \in Widths
    PROVE  /\ Nines(w) \in Texts(w) /\ Zeros(w) \in Texts(w)
           /\ \A i \in 1 .. w : Nines(w)[i] = Base - 1 /\ Zeros(w)[i] = 0
  BY Digits DEF Nines, Zeros, Texts

LEMMA UpToOne ==
    ASSUME NEW a \in Texts(1), NEW b \in Texts(1)
    PROVE  UpTo(a, b) <=> a[1] <= b[1]
<1>1. 1 \in Widths /\ 1 \in 1 .. 1
  BY DEF Widths
<1>2. Len(a) = 1 /\ a[1] \in Nat /\ b[1] \in Nat
  BY <1>1, TextIs, Digits
<1> QED
  BY <1>2 DEF UpTo

LEMMA UpToTwo ==
    ASSUME NEW a \in Texts(2), NEW b \in Texts(2)
    PROVE  UpTo(a, b) <=> (a[1] < b[1] \/ (a[1] = b[1] /\ a[2] <= b[2]))
<1>1. 2 \in Widths /\ 1 \in 1 .. 2 /\ 2 \in 1 .. 2
  BY DEF Widths
<1>2. Len(a) = 2 /\ a[2] \in Nat /\ b[2] \in Nat
  BY <1>1, TextIs, Digits
<1> QED
  BY <1>2 DEF UpTo

LEMMA UpToThree ==
    ASSUME NEW a \in Texts(3), NEW b \in Texts(3)
    PROVE  UpTo(a, b) <=> (a[1] < b[1] \/ (a[1] = b[1] /\ (a[2] < b[2] \/ (a[2] = b[2] /\ a[3] <= b[3]))))
<1>1. 3 \in Widths
  BY DEF Widths
<1>2. Len(a) = 3
  BY <1>1, TextIs
<1> QED
  BY <1>2 DEF UpTo

\* A tail is a text of its own, that the lemmas below speak of without the text it ends.
LEMMA TailOf ==
    ASSUME NEW w \in Widths, w > 1, NEW a \in Texts(w)
    PROVE  \E x \in Texts(w - 1) : x = Tail(a) /\ \A i \in 1 .. w - 1, j \in 2 .. w : j = i + 1 => x[i] = a[j]
  BY TailIs

LEMMA UpToTail ==
    ASSUME NEW w \in Widths, w > 1, NEW a \in Texts(w), NEW b \in Texts(w)
    PROVE  UpTo(a, b) <=> (a[1] < b[1] \/ (a[1] = b[1] /\ UpTo(Tail(a), Tail(b))))
<1>1. PICK x \in Texts(w - 1) : x = Tail(a) /\ \A i \in 1 .. w - 1, j \in 2 .. w : j = i + 1 => x[i] = a[j]
  BY TailOf
<1>2. PICK y \in Texts(w - 1) : y = Tail(b) /\ \A i \in 1 .. w - 1, j \in 2 .. w : j = i + 1 => y[i] = b[j]
  BY TailOf
<1>3. x[1] = a[2] /\ y[1] = b[2]
  <2>1. 1 \in 1 .. w - 1 /\ 2 \in 2 .. w /\ 2 = 1 + 1
    BY DEF Widths
  <2> QED
    BY <1>1, <1>2, <2>1
<1>4. CASE w = 2
  <2>1. UpTo(x, y) <=> a[2] <= b[2]
    BY <1>3, <1>4, UpToOne
  <2> QED
    BY <1>1, <1>2, <1>4, <2>1, UpToTwo
<1>5. CASE w = 3
  <2>1. x[2] = a[3] /\ y[2] = b[3]
    <3>1. 2 \in 1 .. w - 1 /\ 3 \in 2 .. w /\ 3 = 2 + 1
      BY <1>5
    <3> QED
      BY <1>1, <1>2, <3>1
  <2>2. UpTo(x, y) <=> (a[2] < b[2] \/ (a[2] = b[2] /\ a[3] <= b[3]))
    BY <1>3, <1>5, <2>1, UpToTwo
  <2> QED
    BY <1>1, <1>2, <1>5, <2>2, UpToThree
<1> QED
  BY <1>4, <1>5 DEF Widths

LEMMA UpToBoth ==
    ASSUME NEW w \in Widths, NEW a \in Texts(w), NEW b \in Texts(w), UpTo(a, b), UpTo(b, a)
    PROVE  a = b
<1>1. /\ Len(a) = w /\ Len(b) = w
      /\ \A i \in 1 .. w : a[i] \in Nat /\ b[i] \in Nat
  BY TextIs, Digits
<1>2. a[1] = b[1]
  BY <1>1 DEF UpTo, Widths
<1>3. w > 1 => a[2] = b[2]
  BY <1>1, <1>2 DEF UpTo, Widths
<1>4. w > 2 => a[3] = b[3]
  BY <1>1, <1>2, <1>3 DEF UpTo, Widths
<1> QED
  BY <1>2, <1>3, <1>4, SameText DEF Widths

LEMMA UpToItself ==
    ASSUME NEW w \in Widths, NEW a \in Texts(w)
    PROVE  UpTo(a, a)
<1>1. Len(a) = w /\ \A i \in 1 .. w : a[i] \in Nat
  BY TextIs, Digits
<1> QED
  BY <1>1 DEF UpTo, Widths

LEMMA UpToEnds ==
    ASSUME NEW w \in Widths, NEW a \in Texts(w)
    PROVE  UpTo(a, Nines(w)) /\ UpTo(Zeros(w), a)
<1>1. Len(a) = w /\ \A i \in 1 .. w : a[i] \in Nat /\ 0 <= a[i] /\ a[i] <= Base - 1
  BY TextIs, Digits
<1>2. Len(Zeros(w)) = w /\ \A i \in 1 .. w : Nines(w)[i] = Base - 1 /\ Zeros(w)[i] = 0
  BY EndsAre, TextIs
<1>3. UpTo(a, Nines(w))
  BY <1>1, <1>2, Digits DEF UpTo, Widths
<1>4. UpTo(Zeros(w), a)
  BY <1>1, <1>2, Digits DEF UpTo, Widths
<1> QED
  BY <1>3, <1>4

LEMMA PatternIs ==
    ASSUME NEW w \in Nat, NEW p \in Patterns(w)
    PROVE  p \in Seq(SUBSET AnyDigit) /\ Len(p) = w /\ DOMAIN p = 1 .. w
<1>1. p \in Seq(SUBSET AnyDigit) /\ Len(p) = w
  BY DEF Patterns
<1> QED
  BY <1>1, LenProperties

LEMMA UnderIs ==
    ASSUME NEW w \in Widths, NEW first \in SUBSET AnyDigit, NEW p \in Patterns(w - 1)
    PROVE  \E q \in Patterns(w) : /\ q = <<first>> \o p /\ q[1] = first
                                  /\ \A i \in 1 .. w - 1, j \in 2 .. w : j = i + 1 => q[j] = p[i]
<1> DEFINE q == <<first>> \o p
<1>0. w - 1 \in Nat
  BY DEF Widths
<1>1. <<first>> \in Seq(SUBSET AnyDigit) /\ Len(<<first>>) = 1 /\ <<first>>[1] = first
  OBVIOUS
<1>2. p \in Seq(SUBSET AnyDigit) /\ Len(p) = w - 1
  BY <1>0, PatternIs
<1>3. /\ q \in Seq(SUBSET AnyDigit) /\ Len(q) = Len(<<first>>) + Len(p)
      /\ \A i \in 1 .. Len(<<first>>) + Len(p) : q[i] = IF i <= Len(<<first>>) THEN <<first>>[i] ELSE p[i - Len(<<first>>)]
  BY <1>1, <1>2, ConcatProperties
<1> HIDE DEF q
<1>4. q \in Patterns(w)
  <2>1. Len(q) = w
    BY <1>0, <1>1, <1>2, <1>3 DEF Widths
  <2> QED
    BY <1>3, <2>1 DEF Patterns
<1>5. q[1] = first
  <2>1. 1 \in 1 .. Len(<<first>>) + Len(p) /\ 1 <= Len(<<first>>)
    BY <1>0, <1>1, <1>2
  <2> QED
    BY <1>1, <1>3, <2>1
<1>6. ASSUME NEW i \in 1 .. w - 1, NEW j \in 2 .. w, j = i + 1 PROVE q[j] = p[i]
  <2>1. j \in 1 .. Len(<<first>>) + Len(p) /\ ~(j <= Len(<<first>>)) /\ j - Len(<<first>>) = i
    BY <1>0, <1>1, <1>2, <1>6
  <2> QED
    BY <1>3, <2>1
<1> QED
  BY <1>4, <1>5, <1>6 DEF q

LEMMA FitsUnder ==
    ASSUME NEW w \in Widths, NEW first \in SUBSET AnyDigit, NEW p \in Patterns(w - 1), NEW ds \in Texts(w)
    PROVE  Fits(<<first>> \o p, ds) <=> (ds[1] \in first /\ (w > 1 => Fits(p, Tail(ds))))
<1>1. PICK q \in Patterns(w) : /\ q = <<first>> \o p /\ q[1] = first
                               /\ \A i \in 1 .. w - 1, j \in 2 .. w : j = i + 1 => q[j] = p[i]
  BY UnderIs
<1>2. w \in Nat /\ w - 1 \in Nat
  BY DEF Widths
<1>3. Len(q) = w /\ DOMAIN q = 1 .. w /\ Len(p) = w - 1 /\ DOMAIN p = 1 .. w - 1 /\ Len(ds) = w
  BY <1>2, PatternIs, TextIs
<1>4. Fits(q, ds) <=> \A i \in 1 .. w : ds[i] \in q[i]
  BY <1>3 DEF Fits
<1>5. CASE w = 1
  <2>1. \A i \in 1 .. w : i = 1
    BY <1>5
  <2>2. 1 \in 1 .. w /\ ~(w > 1)
    BY <1>5
  <2> QED
    BY <1>1, <1>4, <2>1, <2>2
<1>6. CASE w > 1
  <2>1. PICK x \in Texts(w - 1) : x = Tail(ds) /\ \A i \in 1 .. w - 1, j \in 2 .. w : j = i + 1 => x[i] = ds[j]
    BY <1>6, TailOf
  <2>2. w - 1 \in Widths
    BY <1>6 DEF Widths
  <2>3. Fits(p, x) <=> \A i \in 1 .. w - 1 : x[i] \in p[i]
    BY <1>3, <2>2, TextIs DEF Fits
  <2>4. (\A i \in 1 .. w : ds[i] \in q[i]) => \A i \in 1 .. w - 1 : x[i] \in p[i]
    <3> SUFFICES ASSUME \A i \in 1 .. w : ds[i] \in q[i], NEW i \in 1 .. w - 1 PROVE x[i] \in p[i]
      OBVIOUS
    <3> DEFINE j == i + 1
    <3>1. j \in 1 .. w /\ j \in 2 .. w /\ j = i + 1
      BY <1>2
    <3> HIDE DEF j
    <3> QED
      BY <1>1, <2>1, <3>1
  <2>5. ds[1] \in q[1] /\ (\A i \in 1 .. w - 1 : x[i] \in p[i]) => \A i \in 1 .. w : ds[i] \in q[i]
    <3> SUFFICES ASSUME ds[1] \in q[1], \A i \in 1 .. w - 1 : x[i] \in p[i], NEW j \in 1 .. w PROVE ds[j] \in q[j]
      OBVIOUS
    <3> DEFINE i == j - 1
    <3>1. CASE j > 1
      <4>1. i \in 1 .. w - 1 /\ j \in 2 .. w /\ j = i + 1
        BY <1>2, <3>1
      <4> HIDE DEF i
      <4> QED
        BY <1>1, <2>1, <4>1
    <3>2. CASE j = 1
      BY <3>2
    <3> QED
      BY <3>1, <3>2
  <2>6. 1 \in 1 .. w
    BY <1>2, <1>6
  <2> QED
    BY <1>1, <1>4, <1>6, <2>1, <2>3, <2>4, <2>5, <2>6
<1> QED
  BY <1>5, <1>6 DEF Widths

LEMMA WholeRun ==
    ASSUME NEW k \in 0 .. 3
    PROVE  AnyTimes(k) \in Patterns(k) /\ \A ds \in Texts(k) : k \in Widths => Fits(AnyTimes(k), ds)
<1>1. AnyTimes(k) \in [1 .. k -> SUBSET AnyDigit]
  BY DEF AnyTimes
<1>2. AnyTimes(k) \in Seq(SUBSET AnyDigit)
  BY <1>1, SeqDef
<1>3. DOMAIN AnyTimes(k) = 1 .. k /\ \A i \in 1 .. k : AnyTimes(k)[i] = AnyDigit
  BY DEF AnyTimes
<1>4. Len(AnyTimes(k)) = k
  BY <1>2, <1>3, LenProperties
<1>5. ASSUME NEW ds \in Texts(k), k \in Widths PROVE Fits(AnyTimes(k), ds)
  <2>1. Len(ds) = k /\ \A i \in 1 .. k : ds[i] \in AnyDigit
    BY <1>5, TextIs
  <2> QED
    BY <1>3, <1>4, <2>1 DEF Fits
<1> QED
  BY <1>2, <1>4, <1>5 DEF Patterns

LEMMA RunIs ==
    ASSUME NEW w \in Widths, NEW run \in SUBSET AnyDigit
    PROVE  /\ <<run>> \o AnyTimes(w - 1) \in Patterns(w)
           /\ \A ds \in Texts(w) : Fits(<<run>> \o AnyTimes(w - 1), ds) <=> ds[1] \in run
<1>1. w - 1 \in 0 .. 3
  BY DEF Widths
<1>2. AnyTimes(w - 1) \in Patterns(w - 1)
  BY <1>1, WholeRun
<1>3. <<run>> \o AnyTimes(w - 1) \in Patterns(w)
  BY <1>2, UnderIs
<1>4. ASSUME NEW ds \in Texts(w) PROVE Fits(<<run>> \o AnyTimes(w - 1), ds) <=> ds[1] \in run
  <2>1. w > 1 => Fits(AnyTimes(w - 1), Tail(ds))
    <3> SUFFICES ASSUME w > 1 PROVE Fits(AnyTimes(w - 1), Tail(ds))
      OBVIOUS
    <3>1. Tail(ds) \in Texts(w - 1) /\ w - 1 \in Widths
      BY TailIs
    <3> QED
      BY <1>1, <3>1, WholeRun
  <2> QED
    BY <1>2, <2>1, FitsUnder
<1> QED
  BY <1>3, <1>4

LEMMA OnlyIs ==
    ASSUME NEW w \in Widths, NEW a \in Texts(w)
    PROVE  Only(a) \in Patterns(w) /\ \A ds \in Texts(w) : Fits(Only(a), ds) <=> ds = a
<1>0. w \in Nat /\ DOMAIN a = 1 .. w /\ Len(a) = w /\ \A i \in 1 .. w : a[i] \in AnyDigit
  <2>1. DOMAIN a = 1 .. w /\ Len(a) = w /\ \A i \in 1 .. w : a[i] \in AnyDigit
    BY TextIs
  <2> QED
    BY <2>1 DEF Widths
<1>1. Only(a) \in [1 .. w -> SUBSET AnyDigit]
  BY <1>0 DEF Only
<1>2. Only(a) \in Seq(SUBSET AnyDigit)
  BY <1>0, <1>1, SeqDef
<1>3. DOMAIN Only(a) = 1 .. w /\ \A i \in 1 .. w : Only(a)[i] = {a[i]}
  BY <1>0 DEF Only
<1>4. Len(Only(a)) = w
  BY <1>0, <1>2, <1>3, LenProperties
<1>5. ASSUME NEW ds \in Texts(w) PROVE Fits(Only(a), ds) <=> ds = a
  <2>1. Len(ds) = w
    BY TextIs
  <2>2. Fits(Only(a), ds) <=> \A i \in 1 .. w : ds[i] = a[i]
    BY <1>3, <1>4, <2>1 DEF Fits
  <2> QED
    BY <2>2, SameText
<1> QED
  BY <1>2, <1>4, <1>5 DEF Patterns

LEMMA UnderCovers ==
    ASSUME NEW w \in Widths, w > 1, NEW x \in AnyDigit, NEW parts \in SUBSET Patterns(w - 1)
    PROVE  /\ Under({x}, parts) \subseteq Patterns(w)
           /\ \A ds \in Texts(w) : Covers(Under({x}, parts), ds) <=> (ds[1] = x /\ Covers(parts, Tail(ds)))
<1>1. {x} \in SUBSET AnyDigit
  OBVIOUS
<1>2. Under({x}, parts) \subseteq Patterns(w)
  <2> DEFINE q(p) == <<{x}>> \o p
  <2>1. ASSUME NEW p \in parts PROVE q(p) \in Patterns(w)
    <3>1. p \in Patterns(w - 1)
      OBVIOUS
    <3> QED
      BY <1>1, <3>1, UnderIs
  <2>2. Under({x}, parts) = {q(p) : p \in parts}
    BY DEF Under
  <2> HIDE DEF q
  <2> QED
    BY <2>1, <2>2
<1>3. ASSUME NEW ds \in Texts(w)
      PROVE  Covers(Under({x}, parts), ds) <=> (ds[1] = x /\ Covers(parts, Tail(ds)))
  <2>1. Covers(Under({x}, parts), ds) <=> \E p \in parts : Fits(<<{x}>> \o p, ds)
    BY DEF Covers, Under
  <2>2. \A p \in parts : Fits(<<{x}>> \o p, ds) <=> (ds[1] = x /\ Fits(p, Tail(ds)))
    BY <1>1, FitsUnder
  <2> QED
    BY <2>1, <2>2 DEF Covers
<1> QED
  BY <1>2, <1>3

\* parts, of w digits each, read the texts from f to t and no other of that width
Exact(parts, w, f, t) ==
    /\ parts \subseteq Patterns(w)
    /\ \A ds \in Texts(w) : Covers(parts, ds) <=> (UpTo(f, ds) /\ UpTo(ds, t))

LEMMA HeadStarts ==
    ASSUME NEW w \in Widths, w > 1, NEW f \in Texts(w), NEW ds \in Texts(w - 1), ~ \E i \in 2 .. Len(f) : f[i] # 0
    PROVE  UpTo(Tail(f), ds)
<1>1. PICK x \in Texts(w - 1) : x = Tail(f) /\ \A i \in 1 .. w - 1, j \in 2 .. w : j = i + 1 => x[i] = f[j]
  BY TailOf
<1>2. w - 1 \in Widths /\ w \in Nat
  BY DEF Widths
<1>3. Zeros(w - 1) \in Texts(w - 1) /\ \A i \in 1 .. w - 1 : Zeros(w - 1)[i] = 0
  BY <1>2, EndsAre
<1>4. ASSUME NEW i \in 1 .. w - 1 PROVE x[i] = Zeros(w - 1)[i]
  <2> DEFINE j == i + 1
  <2>1. j \in 2 .. w /\ j = i + 1
    BY <1>2
  <2> HIDE DEF j
  <2>2. f[j] = 0
    BY <2>1, TextIs
  <2> QED
    BY <1>1, <1>3, <2>1, <2>2
<1>5. x = Zeros(w - 1)
  BY <1>2, <1>3, <1>4, SameText
<1> QED
  BY <1>1, <1>2, <1>5, UpToEnds

LEMMA TailEnds ==
    ASSUME NEW w \in Widths, w > 1, NEW t \in Texts(w), NEW ds \in Texts(w - 1), ~ \E i \in 2 .. Len(t) : t[i] # Base - 1
    PROVE  UpTo(ds, Tail(t))
<1>1. PICK x \in Texts(w - 1) : x = Tail(t) /\ \A i \in 1 .. w - 1, j \in 2 .. w : j = i + 1 => x[i] = t[j]
  BY TailOf
<1>2. w - 1 \in Widths /\ w \in Nat
  BY DEF Widths
<1>3. Nines(w - 1) \in Texts(w - 1) /\ \A i \in 1 .. w - 1 : Nines(w - 1)[i] = Base - 1
  BY <1>2, EndsAre
<1>4. ASSUME NEW i \in 1 .. w - 1 PROVE x[i] = Nines(w - 1)[i]
  <2> DEFINE j == i + 1
  <2>1. j \in 2 .. w /\ j = i + 1
    BY <1>2
  <2> HIDE DEF j
  <2>2. t[j] = Base - 1
    BY <2>1, TextIs
  <2> QED
    BY <1>1, <1>3, <2>1, <2>2
<1>5. x = Nines(w - 1)
  BY <1>2, <1>3, <1>4, SameText
<1> QED
  BY <1>1, <1>2, <1>5, UpToEnds

LEMMA UpToSplit ==
    ASSUME NEW w \in Widths, NEW a \in Texts(w), NEW b \in Texts(w)
    PROVE  UpTo(a, b) <=> (a[1] < b[1] \/ (a[1] = b[1] /\ (w > 1 => UpTo(Tail(a), Tail(b)))))
<1>1. a[1] \in Nat /\ b[1] \in Nat
  <2>1. 1 \in 1 .. w
    BY DEF Widths
  <2> QED
    BY <2>1, TextIs, Digits
<1>2. CASE w = 1
  <2>1. UpTo(a, b) <=> a[1] <= b[1]
    BY <1>2, UpToOne
  <2>2. ~(w > 1)
    BY <1>2
  <2> QED
    BY <1>1, <2>1, <2>2
<1>3. CASE w > 1
  BY <1>3, UpToTail
<1> QED
  BY <1>2, <1>3 DEF Widths

LEMMA SpelledWithin ==
    ASSUME NEW w \in Widths, w > 1, NEW f \in Texts(w), NEW t \in Texts(w), f[1] = t[1],
           NEW within, Exact(within, w - 1, Tail(f), Tail(t))
    PROVE  Exact(Under({f[1]}, within), w, f, t)
<1>1. f[1] \in AnyDigit
  <2>1. 1 \in 1 .. w
    BY DEF Widths
  <2> QED
    BY <2>1, TextIs
<1>2. within \in SUBSET Patterns(w - 1)
  BY DEF Exact
<1>3. Under({f[1]}, within) \subseteq Patterns(w)
  BY <1>1, <1>2, UnderCovers
<1>4. ASSUME NEW ds \in Texts(w)
      PROVE  Covers(Under({f[1]}, within), ds) <=> (UpTo(f, ds) /\ UpTo(ds, t))
  <2>1. Covers(Under({f[1]}, within), ds) <=> (ds[1] = f[1] /\ Covers(within, Tail(ds)))
    BY <1>1, <1>2, UnderCovers
  <2>2. Covers(within, Tail(ds)) <=> (UpTo(Tail(f), Tail(ds)) /\ UpTo(Tail(ds), Tail(t)))
    BY TailIs DEF Exact
  <2>3. ds[1] \in Nat /\ f[1] \in Nat
    <3>1. 1 \in 1 .. w
      BY DEF Widths
    <3> QED
      BY <3>1, TextIs, Digits
  <2>4. UpTo(f, ds) <=> (f[1] < ds[1] \/ (f[1] = ds[1] /\ UpTo(Tail(f), Tail(ds))))
    BY UpToTail
  <2>5. UpTo(ds, t) <=> (ds[1] < t[1] \/ (ds[1] = t[1] /\ UpTo(Tail(ds), Tail(t))))
    BY UpToTail
  <2> QED
    BY <2>1, <2>2, <2>3, <2>4, <2>5
<1> QED
  BY <1>3, <1>4 DEF Exact

LEMMA SpelledApart ==
    ASSUME NEW w \in Widths, NEW f \in Texts(w), NEW t \in Texts(w), f[1] < t[1], NEW within, NEW heads, NEW tails,
           w > 1 => Exact(heads, w - 1, Tail(f), Nines(w - 1)), w > 1 => Exact(tails, w - 1, Zeros(w - 1), Tail(t))
    PROVE  Exact(Spelled(f, t, within, heads, tails), w, f, t)
<1> DEFINE head == \E i \in 2 .. Len(f) : f[i] # 0
           tail == \E i \in 2 .. Len(t) : t[i] # Base - 1
           run  == f[1] + (IF head THEN 1 ELSE 0) .. t[1] - (IF tail THEN 1 ELSE 0)
           H == IF head THEN Under({f[1]}, heads) ELSE {}
           R == IF run # {} THEN {<<run>> \o AnyTimes(w - 1)} ELSE {}
           T == IF tail THEN Under({t[1]}, tails) ELSE {}
<1>0. /\ Len(f) = w /\ Len(t) = w /\ f[1] \in AnyDigit /\ t[1] \in AnyDigit /\ f[1] \in Nat /\ t[1] \in Nat
      /\ f[1] < Base /\ t[1] < Base
  <2>1. 1 \in 1 .. w
    BY DEF Widths
  <2>2. Len(f) = w /\ Len(t) = w /\ f[1] \in AnyDigit /\ t[1] \in AnyDigit
    BY <2>1, TextIs
  <2> QED
    BY <2>2, AskAssumption DEF AnyDigit
<1>1. Spelled(f, t, within, heads, tails) = H \cup R \cup T
  BY <1>0 DEF Spelled
<1>2. (head \/ tail) => w > 1
  BY <1>0 DEF Widths
<1>3. \A d \in Nat : d \in run <=> f[1] + (IF head THEN 1 ELSE 0) <= d /\ d <= t[1] - (IF tail THEN 1 ELSE 0)
  BY <1>0
<1>4. run \in SUBSET AnyDigit
  BY <1>0, Digits DEF AnyDigit
<1>6. /\ H \subseteq Patterns(w)
      /\ \A ds \in Texts(w) : Covers(H, ds) <=> (head /\ ds[1] = f[1] /\ UpTo(Tail(f), Tail(ds)))
  <2>1. CASE ~head
    BY <2>1 DEF Covers
  <2>2. CASE head
    <3>1. w > 1 /\ heads \in SUBSET Patterns(w - 1) /\ w - 1 \in Widths
      BY <1>2, <2>2 DEF Exact, Widths
    <3>2. ASSUME NEW ds \in Texts(w) PROVE Covers(heads, Tail(ds)) <=> UpTo(Tail(f), Tail(ds))
      <4>1. Tail(ds) \in Texts(w - 1)
        BY <3>1, TailIs
      <4> QED
        BY <3>1, <4>1, UpToEnds DEF Exact
    <3>3. /\ Under({f[1]}, heads) \subseteq Patterns(w)
          /\ \A ds \in Texts(w) : Covers(Under({f[1]}, heads), ds) <=> (ds[1] = f[1] /\ Covers(heads, Tail(ds)))
      BY <1>0, <3>1, UnderCovers
    <3>4. H = Under({f[1]}, heads)
      BY <2>2
    <3> HIDE DEF H, head
    <3> QED
      BY <2>2, <3>2, <3>3, <3>4
  <2> QED
    BY <2>1, <2>2
<1>7. /\ T \subseteq Patterns(w)
      /\ \A ds \in Texts(w) : Covers(T, ds) <=> (tail /\ ds[1] = t[1] /\ UpTo(Tail(ds), Tail(t)))
  <2>1. CASE ~tail
    BY <2>1 DEF Covers
  <2>2. CASE tail
    <3>1. w > 1 /\ tails \in SUBSET Patterns(w - 1) /\ w - 1 \in Widths
      BY <1>2, <2>2 DEF Exact, Widths
    <3>2. ASSUME NEW ds \in Texts(w) PROVE Covers(tails, Tail(ds)) <=> UpTo(Tail(ds), Tail(t))
      <4>1. Tail(ds) \in Texts(w - 1)
        BY <3>1, TailIs
      <4> QED
        BY <3>1, <4>1, UpToEnds DEF Exact
    <3>3. /\ Under({t[1]}, tails) \subseteq Patterns(w)
          /\ \A ds \in Texts(w) : Covers(Under({t[1]}, tails), ds) <=> (ds[1] = t[1] /\ Covers(tails, Tail(ds)))
      BY <1>0, <3>1, UnderCovers
    <3>4. T = Under({t[1]}, tails)
      BY <2>2
    <3> HIDE DEF T, tail
    <3> QED
      BY <2>2, <3>2, <3>3, <3>4
  <2> QED
    BY <2>1, <2>2
<1> HIDE DEF run
<1>8. /\ R \subseteq Patterns(w)
      /\ \A ds \in Texts(w) : Covers(R, ds) <=> ds[1] \in run
  <2>1. CASE run = {}
    BY <2>1 DEF Covers
  <2>2. CASE run # {}
    <3> DEFINE q == <<run>> \o AnyTimes(w - 1)
    <3>1. q \in Patterns(w) /\ \A ds \in Texts(w) : Fits(q, ds) <=> ds[1] \in run
      BY <1>4, RunIs
    <3>2. R = {q}
      BY <2>2
    <3> HIDE DEF q, R
    <3> QED
      BY <3>1, <3>2 DEF Covers
  <2> QED
    BY <2>1, <2>2
<1> HIDE DEF H, R, T
<1>9. ASSUME NEW ds \in Texts(w)
      PROVE  Covers(H \cup R \cup T, ds) <=> (UpTo(f, ds) /\ UpTo(ds, t))
  <2>1. Covers(H \cup R \cup T, ds) <=> (Covers(H, ds) \/ Covers(R, ds) \/ Covers(T, ds))
    BY DEF Covers
  <2>2. ds[1] \in Nat
    <3>1. 1 \in 1 .. w
      BY DEF Widths
    <3> QED
      BY <3>1, TextIs, Digits
  <2>3. UpTo(f, ds) <=> (f[1] < ds[1] \/ (f[1] = ds[1] /\ (w > 1 => UpTo(Tail(f), Tail(ds)))))
    BY UpToSplit
  <2>4. UpTo(ds, t) <=> (ds[1] < t[1] \/ (ds[1] = t[1] /\ (w > 1 => UpTo(Tail(ds), Tail(t)))))
    BY UpToSplit
  <2>5. w > 1 /\ ~head => UpTo(Tail(f), Tail(ds))
    BY TailIs, HeadStarts
  <2>6. w > 1 /\ ~tail => UpTo(Tail(ds), Tail(t))
    BY TailIs, TailEnds
  <2> HIDE DEF head, tail
  <2>7. ds[1] \in run <=> f[1] + (IF head THEN 1 ELSE 0) <= ds[1] /\ ds[1] <= t[1] - (IF tail THEN 1 ELSE 0)
    BY <1>3, <2>2
  <2> QED
    BY <1>0, <1>2, <1>6, <1>7, <1>8, <2>1, <2>2, <2>3, <2>4, <2>5, <2>6, <2>7
<1> QED
  BY <1>1, <1>6, <1>7, <1>8, <1>9 DEF Exact

-----------------------------------------------------------------------------
(* The patterns are those that span's equation asks for: each width rests   *)
(* on the one below, so an equation for three widths has a solution.        *)
SpanOf(F, s) ==
    IF s[1] = s[2] THEN {Only(s[1])}
    ELSE Spelled(s[1], s[2], F[<<Tail(s[1]), Tail(s[2])>>],
                 F[<<Tail(s[1]), Nines(Len(Tail(s[1])))>>], F[<<Zeros(Len(Tail(s[2]))), Tail(s[2])>>])
Solves(F)      == F = [s \in Spans |-> SpanOf(F, s)]
Following(F)       == [s \in Spans |-> SpanOf(F, s)]
Agree(F, G, w) == \A f \in Texts(w), t \in Texts(w) : F[<<f, t>>] = G[<<f, t>>]

LEMMA PairIs ==
    ASSUME NEW w \in Widths, NEW f \in Texts(w), NEW t \in Texts(w)
    PROVE  <<f, t>> \in Spans /\ <<f, t>>[1] = f /\ <<f, t>>[2] = t
<1>1. <<f, t>> \in Texts(w) \X Texts(w)
  OBVIOUS
<1>2. Spans = UNION {Texts(v) \X Texts(v) : v \in Widths}
  BY DEF Spans, Texts, Widths
<1>3. <<f, t>> \in Spans
  BY <1>1, <1>2
<1> QED
  BY <1>3

LEMMA SpanOfPair ==
    ASSUME NEW w \in Widths, NEW f \in Texts(w), NEW t \in Texts(w), NEW F
    PROVE  /\ f = t => SpanOf(F, <<f, t>>) = {Only(f)}
           /\ f # t /\ ~(w > 1) => SpanOf(F, <<f, t>>) = Spelled(f, t, {}, {}, {})
           /\ f # t /\ w > 1 => SpanOf(F, <<f, t>>) = Spelled(f, t, F[<<Tail(f), Tail(t)>>],
                                        F[<<Tail(f), Nines(w - 1)>>], F[<<Zeros(w - 1), Tail(t)>>])
<1> DEFINE G(n) == Spelled(f, t, F[<<Tail(f), Tail(t)>>], F[<<Tail(f), Nines(n)>>], F[<<Zeros(n), Tail(t)>>])
<1>1. SpanOf(F, <<f, t>>) = IF f = t THEN {Only(f)}
        ELSE Spelled(f, t, F[<<Tail(f), Tail(t)>>], F[<<Tail(f), Nines(Len(Tail(f)))>>], F[<<Zeros(Len(Tail(t))), Tail(t)>>])
  BY DEF SpanOf
<1>2. ASSUME f # t, ~(w > 1) PROVE SpanOf(F, <<f, t>>) = Spelled(f, t, {}, {}, {})
  <2>1. Len(f) = 1 /\ Len(t) = 1
    BY <1>2, TextIs DEF Widths
  <2>2. f[1] # t[1]
    BY <1>2, SameText DEF Widths
  <2>3. ~(\E i \in 2 .. Len(f) : f[i] # 0) /\ ~(\E i \in 2 .. Len(t) : t[i] # Base - 1)
    BY <2>1
  <2>4. \A a, b, c : Spelled(f, t, a, b, c) = Spelled(f, t, {}, {}, {})
    BY <2>2, <2>3 DEF Spelled
  <2> QED
    BY <1>1, <1>2, <2>4
<1>3. ASSUME w > 1 PROVE Len(Tail(f)) = w - 1 /\ Len(Tail(t)) = w - 1
  BY <1>3, TailIs, TextIs
<1> QED
  BY <1>1, <1>2, <1>3

LEMMA SpanRests ==
    ASSUME NEW w \in Widths, NEW F, NEW G, w > 1 => Agree(F, G, w - 1),
           NEW f \in Texts(w), NEW t \in Texts(w)
    PROVE  SpanOf(F, <<f, t>>) = SpanOf(G, <<f, t>>)
<1>1. CASE f = t
  <2>1. SpanOf(F, <<f, t>>) = {Only(f)}
    BY <1>1, SpanOfPair
  <2>2. SpanOf(G, <<f, t>>) = {Only(f)}
    BY <1>1, SpanOfPair
  <2> QED
    BY <2>1, <2>2
<1>2. CASE f # t /\ ~(w > 1)
  <2>1. SpanOf(F, <<f, t>>) = Spelled(f, t, {}, {}, {})
    BY <1>2, SpanOfPair
  <2>2. SpanOf(G, <<f, t>>) = Spelled(f, t, {}, {}, {})
    BY <1>2, SpanOfPair
  <2> QED
    BY <2>1, <2>2
<1>3. CASE f # t /\ w > 1
  <2>1. Tail(f) \in Texts(w - 1) /\ Tail(t) \in Texts(w - 1) /\ w - 1 \in Widths
    BY <1>3, TailIs
  <2>2. Nines(w - 1) \in Texts(w - 1) /\ Zeros(w - 1) \in Texts(w - 1)
    BY <2>1, EndsAre
  <2>3. /\ F[<<Tail(f), Tail(t)>>] = G[<<Tail(f), Tail(t)>>]
        /\ F[<<Tail(f), Nines(w - 1)>>] = G[<<Tail(f), Nines(w - 1)>>]
        /\ F[<<Zeros(w - 1), Tail(t)>>] = G[<<Zeros(w - 1), Tail(t)>>]
    BY <1>3, <2>1, <2>2 DEF Agree
  <2>4. SpanOf(F, <<f, t>>) = Spelled(f, t, F[<<Tail(f), Tail(t)>>], F[<<Tail(f), Nines(w - 1)>>], F[<<Zeros(w - 1), Tail(t)>>])
    BY <1>3, SpanOfPair
  <2>5. SpanOf(G, <<f, t>>) = Spelled(f, t, G[<<Tail(f), Tail(t)>>], G[<<Tail(f), Nines(w - 1)>>], G[<<Zeros(w - 1), Tail(t)>>])
    BY <1>3, SpanOfPair
  <2> QED
    BY <2>3, <2>4, <2>5
<1> QED
  BY <1>1, <1>2, <1>3 DEF Widths

LEMMA NextAgrees ==
    ASSUME NEW w \in Widths, NEW F, NEW G, w > 1 => Agree(F, G, w - 1)
    PROVE  Agree(Following(F), Following(G), w)
<1> SUFFICES ASSUME NEW f \in Texts(w), NEW t \in Texts(w) PROVE Following(F)[<<f, t>>] = Following(G)[<<f, t>>]
  BY DEF Agree
<1>1. Following(F)[<<f, t>>] = SpanOf(F, <<f, t>>) /\ Following(G)[<<f, t>>] = SpanOf(G, <<f, t>>)
  BY PairIs DEF Following
<1> QED
  BY <1>1, SpanRests

LEMMA SpanEquation == Solves(span)
<1> DEFINE F0 == [s \in Spans |-> {}]
           F1 == Following(F0)
           F2 == Following(F1)
           F3 == Following(F2)
           F4 == Following(F3)
<1> HIDE DEF F0
<1>1. 1 \in Widths /\ 2 \in Widths /\ 3 \in Widths /\ 2 - 1 = 1 /\ 3 - 1 = 2 /\ ~(1 > 1)
  BY DEF Widths
<1>2. Agree(F1, F2, 1) /\ Agree(F2, F3, 1) /\ Agree(F3, F4, 1)
  BY <1>1, NextAgrees
<1>3. Agree(F2, F3, 2) /\ Agree(F3, F4, 2)
  BY <1>1, <1>2, NextAgrees
<1>4. Agree(F3, F4, 3)
  BY <1>1, <1>3, NextAgrees
<1>5. \A s \in Spans : \E w \in {1, 2, 3} : \E f \in Texts(w), t \in Texts(w) : s = <<f, t>>
  BY DEF Spans, Texts, Widths
<1>6. \A s \in Spans : F3[s] = F4[s]
  BY <1>2, <1>3, <1>4, <1>5 DEF Agree
<1>7. F3 = F4
  <2>1. DOMAIN F3 = Spans /\ DOMAIN F4 = Spans /\ F3 = [s \in Spans |-> F3[s]] /\ F4 = [s \in Spans |-> F4[s]]
    BY DEF Following
  <2> HIDE DEF F3, F4
  <2> QED
    BY <1>6, <2>1
<1>8. Solves(F3)
  BY <1>7 DEF Solves, Following
<1>9. span = CHOOSE F : Solves(F)
  BY DEF span, Solves, SpanOf
<1> HIDE DEF F3
<1> QED
  BY <1>8, <1>9, Zenon

LEMMA SpanIs ==
    ASSUME NEW w \in Widths, NEW f \in Texts(w), NEW t \in Texts(w)
    PROVE  span[<<f, t>>] = SpanOf(span, <<f, t>>)
<1> DEFINE h == [s \in Spans |-> SpanOf(span, s)]
<1>1. h[<<f, t>>] = SpanOf(span, <<f, t>>)
  BY PairIs
<1>2. span = h
  BY SpanEquation DEF Solves
<1> HIDE DEF h
<1> QED
  BY <1>1, <1>2

-----------------------------------------------------------------------------
(* A span reads the texts between its ends and no other.                    *)
SpansRead(w) == \A f \in Texts(w), t \in Texts(w) : UpTo(f, t) => Exact(span[<<f, t>>], w, f, t)

LEMMA OneRead ==
    ASSUME NEW w \in Widths, NEW f \in Texts(w)
    PROVE  Exact({Only(f)}, w, f, f)
<1>1. {Only(f)} \subseteq Patterns(w)
  BY OnlyIs
<1>2. ASSUME NEW ds \in Texts(w) PROVE Covers({Only(f)}, ds) <=> (UpTo(f, ds) /\ UpTo(ds, f))
  <2>1. Covers({Only(f)}, ds) <=> ds = f
    BY OnlyIs DEF Covers
  <2> QED
    BY <2>1, UpToBoth, UpToItself
<1> QED
  BY <1>1, <1>2 DEF Exact

LEMMA NextWidthReads ==
    ASSUME NEW w \in Widths, w > 1 => SpansRead(w - 1)
    PROVE  SpansRead(w)
<1> SUFFICES ASSUME NEW f \in Texts(w), NEW t \in Texts(w), UpTo(f, t)
             PROVE  Exact(span[<<f, t>>], w, f, t)
  BY DEF SpansRead
<1>0. span[<<f, t>>] = SpanOf(span, <<f, t>>)
  BY SpanIs
<1>1. CASE f = t
  <2>1. span[<<f, t>>] = {Only(f)}
    BY <1>0, <1>1, SpanOfPair
  <2> QED
    BY <1>1, <2>1, OneRead
<1> DEFINE within == span[<<Tail(f), Tail(t)>>]
           heads  == span[<<Tail(f), Nines(w - 1)>>]
           tails  == span[<<Zeros(w - 1), Tail(t)>>]
<1>2. ASSUME w > 1
      PROVE  /\ Exact(heads, w - 1, Tail(f), Nines(w - 1)) /\ Exact(tails, w - 1, Zeros(w - 1), Tail(t))
             /\ f[1] = t[1] => Exact(within, w - 1, Tail(f), Tail(t))
  <2>1. w - 1 \in Widths /\ Tail(f) \in Texts(w - 1) /\ Tail(t) \in Texts(w - 1)
    BY <1>2, TailIs
  <2>2. Nines(w - 1) \in Texts(w - 1) /\ Zeros(w - 1) \in Texts(w - 1)
    BY <2>1, EndsAre
  <2>3. UpTo(Tail(f), Nines(w - 1)) /\ UpTo(Zeros(w - 1), Tail(t))
    BY <2>1, UpToEnds
  <2>4. f[1] = t[1] => UpTo(Tail(f), Tail(t))
    <3>1. f[1] \in Nat /\ t[1] \in Nat
      <4>1. 1 \in 1 .. w
        BY DEF Widths
      <4> QED
        BY <4>1, TextIs, Digits
    <3> QED
      BY <1>2, <3>1, UpToTail
  <2> QED
    BY <1>2, <2>1, <2>2, <2>3, <2>4 DEF SpansRead
<1> HIDE DEF within, heads, tails
<1>3. f[1] \in Nat /\ t[1] \in Nat /\ (f[1] < t[1] \/ f[1] = t[1])
  <2>1. 1 \in 1 .. w
    BY DEF Widths
  <2>2. f[1] \in Nat /\ t[1] \in Nat
    BY <2>1, TextIs, Digits
  <2> QED
    BY <2>2, UpToSplit
<1>4. CASE f # t /\ f[1] = t[1]
  <2>1. w > 1
    <3>1. w = 1 => f = t
      BY <1>4, SameText
    <3> QED
      BY <1>4, <3>1 DEF Widths
  <2>2. span[<<f, t>>] = Spelled(f, t, within, heads, tails)
    BY <1>4, <2>1, <1>0, SpanOfPair DEF within, heads, tails
  <2>3. Spelled(f, t, within, heads, tails) = Under({f[1]}, within)
    BY <1>4 DEF Spelled
  <2>4. Exact(within, w - 1, Tail(f), Tail(t))
    BY <1>2, <1>4, <2>1
  <2> QED
    BY <1>4, <2>1, <2>2, <2>3, <2>4, SpelledWithin
<1>5. CASE f[1] < t[1]
  <2>1. f # t
    BY <1>3, <1>5
  <2>2. CASE w > 1
    <3>1. span[<<f, t>>] = Spelled(f, t, within, heads, tails)
      BY <2>1, <2>2, <1>0, SpanOfPair DEF within, heads, tails
    <3> QED
      BY <1>2, <1>5, <2>2, <3>1, SpelledApart
  <2>3. CASE ~(w > 1)
    <3>1. span[<<f, t>>] = Spelled(f, t, {}, {}, {})
      BY <2>1, <2>3, <1>0, SpanOfPair
    <3> QED
      BY <1>5, <2>3, <3>1, SpelledApart
  <2> QED
    BY <2>2, <2>3
<1> QED
  BY <1>1, <1>3, <1>4, <1>5

LEMMA SpanReads == \A w \in Widths : SpansRead(w)
<1>1. 1 \in Widths /\ 2 \in Widths /\ 3 \in Widths /\ ~(1 > 1) /\ 2 - 1 = 1 /\ 3 - 1 = 2
  BY DEF Widths
<1>2. SpansRead(1)
  BY <1>1, NextWidthReads
<1>3. SpansRead(2)
  BY <1>1, <1>2, NextWidthReads
<1>4. SpansRead(3)
  BY <1>1, <1>3, NextWidthReads
<1> QED
  BY <1>2, <1>3, <1>4 DEF Widths

-----------------------------------------------------------------------------
(* Numbers and the texts they are printed as.                               *)
Numbers    == 0 .. PRICE_MAX
WidthOf(n) == IF n < Base THEN 1 ELSE IF n < Base * Base THEN 2 ELSE 3

LEMMA Places ==
    ASSUME NEW b \in Nat, b > 0, NEW p \in Nat, NEW q \in Nat, NEW r \in 0 .. b - 1, NEW s \in 0 .. b - 1
    PROVE  /\ b * p + r <= b * q + s <=> (p < q \/ (p = q /\ r <= s))
<1>1. ASSUME p < q PROVE b * p + r <= b * q + s
  <2>1. b * (p + 1) <= b * q
    BY <1>1
  <2> QED
    BY <2>1
<1>2. ASSUME q < p PROVE ~(b * p + r <= b * q + s)
  <2>1. b * (q + 1) <= b * p
    BY <1>2
  <2> QED
    BY <2>1
<1>3. ASSUME p = q PROVE b * p + r <= b * q + s <=> r <= s
  <2>1. b * p \in Int /\ b * p = b * q
    BY <1>3
  <2> QED
    BY <2>1
<1> QED
  BY <1>1, <1>2, <1>3

LEMMA PlacesOf ==
    ASSUME NEW n \in Nat
    PROVE  /\ n \div Base \in Nat /\ n % Base \in AnyDigit
           /\ n = Base * (n \div Base) + (n % Base)
  BY AskAssumption DEF AnyDigit

LEMMA InOrder ==
    ASSUME NEW m \in Nat, NEW n \in Nat
    PROVE  m <= n <=> (m \div Base < n \div Base \/ (m \div Base = n \div Base /\ m % Base <= n % Base))
<1>1. Base \in Nat /\ Base > 0
  BY AskAssumption
<1>2. m % Base \in 0 .. Base - 1 /\ n % Base \in 0 .. Base - 1
  BY PlacesOf DEF AnyDigit
<1> DEFINE p == m \div Base
           q == n \div Base
           r == m % Base
           s == n % Base
<1>3. p \in Nat /\ q \in Nat /\ m = Base * p + r /\ n = Base * q + s
  BY PlacesOf
<1> HIDE DEF p, q, r, s
<1>4. r \in 0 .. Base - 1 /\ s \in 0 .. Base - 1
  BY <1>2 DEF r, s
<1>5. Base * p + r <= Base * q + s <=> (p < q \/ (p = q /\ r <= s))
  BY <1>1, <1>3, <1>4, Places
<1> QED
  BY <1>3, <1>5 DEF p, q, r, s

LEMMA TensAre ==
    ASSUME NEW n \in Numbers
    PROVE  /\ n \in Nat /\ n \div Base \in Nat /\ (n < Base <=> n \div Base = 0)
           /\ n \div Base < Base <=> n < Base * Base
           /\ (n \div Base) \div Base \in AnyDigit
<1>1. Base \in Nat /\ Base > 0 /\ n \in Nat /\ n < Base * Base * Base
  BY AskAssumption DEF Numbers, PRICE_MAX
<1> DEFINE q == n \div Base
           r == n % Base
<1>2. q \in Nat /\ r \in 0 .. Base - 1 /\ n = Base * q + r
  BY <1>1, PlacesOf DEF AnyDigit
<1> HIDE DEF q, r
<1>3. \A x \in Nat : Base * q + r < Base * x <=> q < x
  <2> SUFFICES ASSUME NEW x \in Nat PROVE Base * q + r < Base * x <=> q < x
    OBVIOUS
  <2>1. 0 \in 0 .. Base - 1
    BY <1>1
  <2>2. Base * x + 0 <= Base * q + r <=> (x < q \/ (x = q /\ 0 <= r))
    BY <1>1, <1>2, <2>1, Places
  <2>3. Base * x \in Int /\ Base * q \in Int
    BY <1>1, <1>2
  <2> QED
    BY <1>2, <2>2, <2>3
<1>4. n < Base <=> q = 0
  <2>1. Base * q + r < Base * 1 <=> q < 1
    BY <1>3
  <2> QED
    BY <1>1, <1>2, <2>1
<1>5. q < Base <=> n < Base * Base
  BY <1>1, <1>2, <1>3
<1>6. q < Base * Base
  <2>1. Base * Base \in Nat /\ Base * Base * Base = Base * (Base * Base)
    BY <1>1
  <2> QED
    BY <1>1, <1>2, <1>3, <2>1
<1>7. q \div Base \in AnyDigit
  <2>1. q \div Base \in Nat /\ q % Base \in 0 .. Base - 1 /\ q = Base * (q \div Base) + (q % Base)
    BY <1>1, <1>2, PlacesOf DEF AnyDigit
  <2> DEFINE c == q \div Base
             d == q % Base
  <2> HIDE DEF c, d
  <2>2. c \in Nat /\ d \in 0 .. Base - 1 /\ q = Base * c + d
    BY <2>1 DEF c, d
  <2>3. 0 \in 0 .. Base - 1
    BY <1>1
  <2>4. Base * Base + 0 <= Base * c + d <=> (Base < c \/ (Base = c /\ 0 <= d))
    BY <1>1, <2>2, <2>3, Places
  <2>5. Base * Base \in Int /\ Base * c \in Int
    BY <1>1, <2>2
  <2>6. c < Base
    BY <1>1, <1>6, <2>2, <2>4, <2>5
  <2> QED
    BY <1>1, <2>2, <2>6 DEF c, AnyDigit
<1> QED
  BY <1>1, <1>2, <1>4, <1>5, <1>7 DEF q

LEMMA PrintedIs ==
    ASSUME NEW n \in Numbers
    PROVE  /\ WidthOf(n) \in Widths /\ DigitsOf(n) \in Texts(WidthOf(n))
           /\ WidthOf(n) = 1 => DigitsOf(n) = <<n>>
           /\ WidthOf(n) = 2 => DigitsOf(n) = <<n \div Base, n % Base>>
           /\ WidthOf(n) = 3 => DigitsOf(n) = <<(n \div Base) \div Base, (n \div Base) % Base, n % Base>>
<1>0. /\ n \in Nat /\ n \div Base \in Nat /\ (n \div Base < Base <=> n < Base * Base)
      /\ (n \div Base) \div Base \in AnyDigit /\ Base \in Nat /\ Base > 2
  BY TensAre, AskAssumption
<1>1. CASE n < Base
  <2>1. DigitsOf(n) = <<n>> /\ WidthOf(n) = 1
    BY <1>1 DEF DigitsOf, WidthOf
  <2>2. n \in AnyDigit
    BY <1>0, <1>1 DEF AnyDigit
  <2>3. <<n>> \in Seq(AnyDigit) /\ Len(<<n>>) = 1 /\ 1 \in Widths
    BY <2>2 DEF Widths
  <2>4. DigitsOf(n) \in Texts(1)
    BY <2>1, <2>3, TextOf
  <2> QED
    BY <2>1, <2>3, <2>4
<1>2. CASE ~(n < Base) /\ n \div Base < Base
  <2>1. DigitsOf(n) = <<n \div Base, n % Base>> /\ WidthOf(n) = 2
    BY <1>0, <1>2 DEF DigitsOf, WidthOf
  <2>2. n \div Base \in AnyDigit /\ n % Base \in AnyDigit
    <3>1. n \div Base \in AnyDigit
      BY <1>0, <1>2 DEF AnyDigit
    <3> QED
      BY <1>0, <3>1, PlacesOf
  <2>3. <<n \div Base, n % Base>> \in Seq(AnyDigit) /\ Len(<<n \div Base, n % Base>>) = 2 /\ 2 \in Widths
    BY <2>2 DEF Widths
  <2>4. DigitsOf(n) \in Texts(2)
    BY <2>1, <2>3, TextOf
  <2> QED
    BY <2>1, <2>3, <2>4
<1>3. CASE ~(n < Base) /\ ~(n \div Base < Base)
  <2> DEFINE c == (n \div Base) \div Base
             d == (n \div Base) % Base
             e == n % Base
  <2>1. DigitsOf(n) = <<c, d, e>> /\ WidthOf(n) = 3
    BY <1>0, <1>3 DEF DigitsOf, WidthOf
  <2>2. c \in AnyDigit /\ d \in AnyDigit /\ e \in AnyDigit
    BY <1>0, PlacesOf
  <2> HIDE DEF c, d, e
  <2>3. <<c, d, e>> \in Seq(AnyDigit) /\ Len(<<c, d, e>>) = 3 /\ 3 \in Widths
    BY <2>2 DEF Widths
  <2>4. DigitsOf(n) \in Texts(3)
    BY <2>1, <2>3, TextOf
  <2> QED
    BY <2>1, <2>3, <2>4 DEF c, d, e
<1> QED
  BY <1>1, <1>2, <1>3

LEMMA PrintedInOrder ==
    ASSUME NEW m \in Numbers, NEW n \in Numbers, WidthOf(m) = WidthOf(n)
    PROVE  UpTo(DigitsOf(m), DigitsOf(n)) <=> m <= n
<1>1. m \in Nat /\ n \in Nat /\ m \div Base \in Nat /\ n \div Base \in Nat
  BY TensAre
<1>2. /\ WidthOf(m) \in Widths /\ DigitsOf(m) \in Texts(WidthOf(m)) /\ DigitsOf(n) \in Texts(WidthOf(m))
  BY PrintedIs
<1>3. m <= n <=> (m \div Base < n \div Base \/ (m \div Base = n \div Base /\ m % Base <= n % Base))
  BY <1>1, InOrder
<1>4. CASE WidthOf(m) = 1
  <2>1. DigitsOf(m) = <<m>> /\ DigitsOf(n) = <<n>>
    BY <1>4, PrintedIs
  <2>2. UpTo(DigitsOf(m), DigitsOf(n)) <=> DigitsOf(m)[1] <= DigitsOf(n)[1]
    BY <1>2, <1>4, UpToOne
  <2> QED
    BY <2>1, <2>2
<1>5. CASE WidthOf(m) = 2
  <2>1. DigitsOf(m) = <<m \div Base, m % Base>> /\ DigitsOf(n) = <<n \div Base, n % Base>>
    BY <1>5, PrintedIs
  <2>2. UpTo(DigitsOf(m), DigitsOf(n)) <=>
          (DigitsOf(m)[1] < DigitsOf(n)[1] \/ (DigitsOf(m)[1] = DigitsOf(n)[1] /\ DigitsOf(m)[2] <= DigitsOf(n)[2]))
    BY <1>2, <1>5, UpToTwo
  <2> QED
    BY <1>3, <2>1, <2>2
<1>6. CASE WidthOf(m) = 3
  <2> DEFINE p == m \div Base
             q == n \div Base
             r == m % Base
             s == n % Base
  <2>1. DigitsOf(m) = <<p \div Base, p % Base, r>> /\ DigitsOf(n) = <<q \div Base, q % Base, s>>
    BY <1>6, PrintedIs
  <2>2. UpTo(DigitsOf(m), DigitsOf(n)) <=>
          (DigitsOf(m)[1] < DigitsOf(n)[1] \/ (DigitsOf(m)[1] = DigitsOf(n)[1] /\
             (DigitsOf(m)[2] < DigitsOf(n)[2] \/ (DigitsOf(m)[2] = DigitsOf(n)[2] /\ DigitsOf(m)[3] <= DigitsOf(n)[3]))))
    BY <1>2, <1>6, UpToThree
  <2>3. p \in Nat /\ q \in Nat
    BY <1>1
  <2>4. m <= n <=> (p < q \/ (p = q /\ r <= s))
    BY <1>3
  <2> HIDE DEF p, q, r, s
  <2>5. p <= q <=> (p \div Base < q \div Base \/ (p \div Base = q \div Base /\ p % Base <= q % Base))
    BY <2>3, InOrder
  <2>6. q <= p <=> (q \div Base < p \div Base \/ (q \div Base = p \div Base /\ q % Base <= p % Base))
    BY <2>3, InOrder
  <2>7. p \div Base \in Nat /\ q \div Base \in Nat /\ p % Base \in Nat /\ q % Base \in Nat
    BY <2>3, PlacesOf, Digits
  <2>8. UpTo(DigitsOf(m), DigitsOf(n)) <=>
          (p \div Base < q \div Base \/ (p \div Base = q \div Base /\
             (p % Base < q % Base \/ (p % Base = q % Base /\ r <= s))))
    BY <2>1, <2>2
  <2>9. (p = q) <=> (p \div Base = q \div Base /\ p % Base = q % Base)
    BY <2>3, <2>5, <2>6, <2>7
  <2> DEFINE c == p \div Base
             d == q \div Base
             e == p % Base
             f == q % Base
  <2> HIDE DEF c, d, e, f
  <2> QED
    BY <2>3, <2>4, <2>5, <2>6, <2>7, <2>8, <2>9
<1> QED
  BY <1>2, <1>4, <1>5, <1>6 DEF Widths

LEMMA WidthsInOrder ==
    ASSUME NEW m \in Numbers, NEW n \in Numbers, m <= n
    PROVE  WidthOf(m) <= WidthOf(n)
<1>1. m \in Nat /\ n \in Nat /\ Base \in Nat /\ Base > 2 /\ Base * Base \in Nat
  BY AskAssumption DEF Numbers, PRICE_MAX
<1>2. Base <= Base * Base
  BY <1>1
<1> QED
  BY <1>1, <1>2 DEF WidthOf

LEMMA ScaleIs ==
    /\ PRICE_MAX \in Nat /\ Base * Base \in Nat /\ Base < Base * Base /\ Base * Base <= PRICE_MAX /\ Base <= PRICE_MAX
    /\ 2 * Base <= PRICE_MAX /\ Base \in Nat /\ Base > 2
<1>1. Base \in Nat /\ Base > 2
  BY AskAssumption
<1>2. Base * Base \in Nat /\ 3 * Base <= Base * Base
  BY <1>1
<1> DEFINE q == Base * Base
<1>3. PRICE_MAX = Base * q - 1
  BY <1>1 DEF PRICE_MAX
<1> HIDE DEF q
<1>4. q \in Nat /\ 3 * Base <= q
  BY <1>2 DEF q
<1>5. Base * q >= 3 * q
  BY <1>1, <1>4
<1>6. Base * q \in Nat
  BY <1>1, <1>4
<1> QED
  BY <1>1, <1>3, <1>4, <1>5, <1>6 DEF q

LEMMA WidthIs ==
    ASSUME NEW n \in Numbers, NEW w \in Widths
    PROVE  /\ WidthOf(n) = w <=> (Least(w) <= n /\ n <= Most(w))
           /\ Least(w) \in Numbers /\ Most(w) \in Numbers
<1>1. n \in Nat /\ n <= PRICE_MAX
  BY ScaleIs DEF Numbers
<1> USE ScaleIs
<1>2. CASE w = 1
  BY <1>1, <1>2 DEF WidthOf, Least, Most, Numbers
<1>3. CASE w = 2
  BY <1>1, <1>3 DEF WidthOf, Least, Most, Numbers
<1>4. CASE w = 3
  BY <1>1, <1>4 DEF WidthOf, Least, Most, Numbers
<1> QED
  BY <1>2, <1>3, <1>4 DEF Widths

LEMMA PrintedWidth ==
    ASSUME NEW n \in Numbers
    PROVE  /\ WidthOf(n) \in Widths /\ WidthOf(n) \in Nat /\ DigitsOf(n) \in Texts(WidthOf(n))
           /\ DigitsOf(n) \in Seq(AnyDigit) /\ Len(DigitsOf(n)) = WidthOf(n)
<1>1. WidthOf(n) \in Widths /\ DigitsOf(n) \in Texts(WidthOf(n))
  BY PrintedIs
<1>2. DigitsOf(n) \in Seq(AnyDigit) /\ Len(DigitsOf(n)) = WidthOf(n)
  BY <1>1, TextIs
<1>3. Widths \subseteq Nat
  BY DEF Widths
<1> QED
  BY <1>1, <1>2, <1>3

-----------------------------------------------------------------------------
(* What the patterns of a range, and of a least number, read.               *)
LEMMA FitsItsWidth ==
    ASSUME NEW w \in Widths, NEW p \in Patterns(w), NEW n \in Numbers, Fits(p, DigitsOf(n))
    PROVE  WidthOf(n) = w
<1>1. Len(p) = w
  BY PatternIs DEF Widths
<1>2. Len(DigitsOf(n)) = WidthOf(n)
  BY PrintedIs, TextIs
<1> QED
  BY <1>1, <1>2 DEF Fits

LEMMA OfWidthReads ==
    ASSUME NEW w \in Widths, NEW lo \in Numbers, NEW hi \in Numbers
    PROVE  /\ OfWidth(lo, hi, w) \subseteq Patterns(w)
           /\ \A n \in Numbers : Covers(OfWidth(lo, hi, w), DigitsOf(n)) <=> (WidthOf(n) = w /\ lo <= n /\ n <= hi)
           /\ OfWidth(lo, hi, w) # {} => lo <= Most(w) /\ Least(w) <= hi
<1> DEFINE a == Larger(lo, Least(w))
           b == Smaller(hi, Most(w))
           parts == span[<<DigitsOf(a), DigitsOf(b)>>]
<1>1. Least(w) \in Numbers /\ Most(w) \in Numbers /\ Numbers \subseteq Nat
  <2>1. lo \in Numbers
    OBVIOUS
  <2> QED
    BY <2>1, WidthIs DEF Numbers
<1>2. lo \in Nat /\ hi \in Nat /\ Least(w) \in Nat /\ Most(w) \in Nat
  BY <1>1
<1>3. a \in Numbers /\ b \in Numbers /\ a >= lo /\ a >= Least(w) /\ b <= hi /\ b <= Most(w)
  BY <1>1, <1>2 DEF Larger, Smaller
<1>4. \A n \in Numbers : (WidthOf(n) = w /\ lo <= n /\ n <= hi) <=> (a <= n /\ n <= b)
  <2> SUFFICES ASSUME NEW n \in Numbers PROVE (WidthOf(n) = w /\ lo <= n /\ n <= hi) <=> (a <= n /\ n <= b)
    OBVIOUS
  <2>1. WidthOf(n) = w <=> (Least(w) <= n /\ n <= Most(w))
    BY WidthIs
  <2>2. n \in Nat
    BY <1>1
  <2> QED
    BY <1>2, <2>1, <2>2 DEF Larger, Smaller
<1>5. OfWidth(lo, hi, w) = IF a <= b THEN parts ELSE {}
  BY DEF OfWidth
<1> HIDE DEF a, b, parts
<1>6. CASE ~(a <= b)
  <2>1. a \in Nat /\ b \in Nat
    BY <1>1, <1>3
  <2>2. \A n \in Numbers : ~(a <= n /\ n <= b)
    BY <1>1, <1>6, <2>1
  <2> QED
    BY <1>4, <1>5, <1>6, <2>2 DEF Covers
<1>7. CASE a <= b
  <2>1. WidthOf(a) = w /\ WidthOf(b) = w
    <3>1. a \in Nat /\ b \in Nat
      BY <1>1, <1>3
    <3>2. Least(w) <= a /\ a <= Most(w) /\ Least(w) <= b /\ b <= Most(w)
      BY <1>2, <1>3, <1>7, <3>1
    <3> QED
      BY <1>3, <3>2, WidthIs
  <2>2. DigitsOf(a) \in Texts(w) /\ DigitsOf(b) \in Texts(w) /\ UpTo(DigitsOf(a), DigitsOf(b))
    BY <1>3, <1>7, <2>1, PrintedIs, PrintedInOrder
  <2>3. Exact(parts, w, DigitsOf(a), DigitsOf(b))
    BY <2>2, SpanReads DEF SpansRead, parts
  <2>4. ASSUME NEW n \in Numbers PROVE Covers(parts, DigitsOf(n)) <=> (a <= n /\ n <= b)
    <3>1. CASE WidthOf(n) = w
      <4>1. DigitsOf(n) \in Texts(w)
        BY <3>1, PrintedIs
      <4>2. (UpTo(DigitsOf(a), DigitsOf(n)) <=> a <= n) /\ (UpTo(DigitsOf(n), DigitsOf(b)) <=> n <= b)
        BY <1>3, <2>1, <3>1, PrintedInOrder
      <4> QED
        BY <2>3, <4>1, <4>2 DEF Exact
    <3>2. CASE WidthOf(n) # w
      <4>1. ~Covers(parts, DigitsOf(n))
        BY <2>3, <3>2, FitsItsWidth DEF Exact, Covers
      <4> QED
        BY <1>4, <3>2, <4>1
    <3> QED
      BY <3>1, <3>2
  <2>5. lo <= Most(w) /\ Least(w) <= hi
    <3>1. a \in Nat /\ b \in Nat
      BY <1>1, <1>3
    <3> QED
      BY <1>2, <1>3, <1>7, <3>1
  <2> QED
    BY <1>4, <1>5, <1>7, <2>3, <2>4, <2>5 DEF Exact
<1> QED
  BY <1>6, <1>7

LEMMA EndIsAll ==
    ASSUME NEW n \in Numbers, NEW p \in Patterns(WidthOf(n))
    PROVE  /\ Len(p) <= Len(DigitsOf(n))
           /\ Fits(p, SubSeq(DigitsOf(n), Len(DigitsOf(n)) - Len(p) + 1, Len(DigitsOf(n)))) <=> Fits(p, DigitsOf(n))
<1> DEFINE ds == DigitsOf(n)
           w  == WidthOf(n)
<1>1. w \in Widths /\ w \in Nat /\ ds \in Seq(AnyDigit) /\ Len(ds) = w
  BY PrintedWidth
<1>2. Len(p) = w
  BY <1>1, PatternIs
<1> HIDE DEF ds, w
<1>3. SubSeq(ds, 1, Len(ds)) = ds
  BY <1>1, SubSeqFull
<1>4. Len(ds) - Len(p) + 1 = 1 /\ Len(p) <= Len(ds)
  BY <1>1, <1>2
<1>5. SubSeq(ds, Len(ds) - Len(p) + 1, Len(ds)) = ds
  BY <1>3, <1>4
<1> QED
  BY <1>4, <1>5 DEF ds

\* the patterns of minRegex, of a number as it is printed
MinParts(n) == span[<<DigitsOf(n), Nines(Len(DigitsOf(n)))>>] \cup {AnyTimes(v) : v \in Len(DigitsOf(n)) + 1 .. 3}

LEMMA MinReads ==
    ASSUME NEW n \in Numbers, NEW k \in Numbers
    PROVE  ReadsEnd(MinParts(n), k) <=> k >= n
<1> DEFINE w == WidthOf(n)
           parts == span[<<DigitsOf(n), Nines(w)>>]
<1>1. w \in Widths /\ w \in Nat /\ DigitsOf(n) \in Texts(w) /\ Len(DigitsOf(n)) = w
  BY PrintedWidth
<1>2. Nines(w) \in Texts(w) /\ UpTo(DigitsOf(n), Nines(w))
  BY <1>1, EndsAre, UpToEnds
<1>3. Exact(parts, w, DigitsOf(n), Nines(w))
  BY <1>1, <1>2, SpanReads DEF SpansRead
<1>4. MinParts(n) = parts \cup {AnyTimes(v) : v \in w + 1 .. 3}
  BY <1>1 DEF MinParts
<1>5. n \in Nat /\ k \in Nat
  BY ScaleIs DEF Numbers
<1> DEFINE u == WidthOf(k)
           ds == DigitsOf(k)
<1>6. u \in Widths /\ u \in Nat /\ ds \in Texts(u) /\ Len(ds) = u
  BY PrintedWidth
<1> HIDE DEF w, u, ds, parts
<1>7. \A p \in parts : Len(p) = w
  BY <1>1, <1>3, PatternIs DEF Exact
<1>8. \A v \in w + 1 .. 3 : AnyTimes(v) \in Patterns(v) /\ Len(AnyTimes(v)) = v /\ v \in Widths
  <2> SUFFICES ASSUME NEW v \in w + 1 .. 3 PROVE AnyTimes(v) \in Patterns(v) /\ Len(AnyTimes(v)) = v /\ v \in Widths
    OBVIOUS
  <2>1. v \in 0 .. 3 /\ v \in Nat /\ v \in Widths
    BY <1>1 DEF Widths
  <2>2. AnyTimes(v) \in Patterns(v)
    BY <2>1, WholeRun
  <2> QED
    BY <2>1, <2>2, PatternIs
<1>9. ReadsEnd(MinParts(n), k) <=>
        (MinParts(n) = {} \/ \E p \in MinParts(n) : Len(p) <= u /\ Fits(p, SubSeq(ds, u - Len(p) + 1, u)))
  BY <1>6 DEF ReadsEnd, ds
<1>10. CASE u < w
  <2>1. ~(k >= n)
    <3>1. n <= k => w <= u
      BY WidthsInOrder DEF w, u
    <3> QED
      BY <1>1, <1>5, <1>6, <1>10, <3>1
  <2>2. \A p \in MinParts(n) : ~(Len(p) <= u)
    <3>1. \A p \in parts : ~(Len(p) <= u)
      BY <1>1, <1>6, <1>7, <1>10
    <3>2. \A v \in w + 1 .. 3 : ~(Len(AnyTimes(v)) <= u)
      BY <1>1, <1>6, <1>8, <1>10
    <3> QED
      BY <1>4, <3>1, <3>2
  <2>3. MinParts(n) # {}
    <3>1. Covers(parts, DigitsOf(n))
      BY <1>1, <1>2, <1>3, UpToItself DEF Exact
    <3> QED
      BY <1>4, <3>1 DEF Covers
  <2> QED
    BY <1>9, <2>1, <2>2, <2>3
<1>11. CASE u > w
  <2>1. k >= n
    <3>1. k <= n => u <= w
      BY WidthsInOrder DEF w, u
    <3> QED
      BY <1>1, <1>5, <1>6, <1>11, <3>1
  <2>2. u \in w + 1 .. 3
    BY <1>1, <1>6, <1>11 DEF Widths
  <2>3. Fits(AnyTimes(u), ds)
    <3>1. u \in 0 .. 3
      BY <1>6 DEF Widths
    <3> QED
      BY <1>6, <3>1, WholeRun
  <2>4. Len(AnyTimes(u)) <= u /\ Fits(AnyTimes(u), SubSeq(ds, u - Len(AnyTimes(u)) + 1, u))
    <3>1. AnyTimes(u) \in Patterns(u) /\ Len(ds) = u
      BY <1>6, <1>8, <2>2
    <3> QED
      BY <2>3, <3>1, EndIsAll DEF u, ds
  <2>5. AnyTimes(u) \in MinParts(n)
    BY <1>4, <2>2
  <2> QED
    BY <1>9, <2>1, <2>4, <2>5
<1>12. CASE u = w
  <2>1. ReadsEnd(MinParts(n), k) <=> Covers(parts, ds)
    <3>1. \A p \in parts : Len(p) <= u /\ (Fits(p, SubSeq(ds, u - Len(p) + 1, u)) <=> Fits(p, ds))
      <4> SUFFICES ASSUME NEW p \in parts PROVE Len(p) <= u /\ (Fits(p, SubSeq(ds, u - Len(p) + 1, u)) <=> Fits(p, ds))
        OBVIOUS
      <4>1. p \in Patterns(WidthOf(k)) /\ Len(ds) = u
        BY <1>3, <1>6, <1>12 DEF Exact, u
      <4> QED
        BY <4>1, EndIsAll DEF u, ds
    <3>2. \A v \in w + 1 .. 3 : ~(Len(AnyTimes(v)) <= u)
      BY <1>1, <1>6, <1>8, <1>12
    <3>3. MinParts(n) # {}
      <4>1. Covers(parts, DigitsOf(n))
        BY <1>1, <1>2, <1>3, UpToItself DEF Exact
      <4> QED
        BY <1>4, <4>1 DEF Covers
    <3> QED
      BY <1>4, <1>9, <3>1, <3>2, <3>3 DEF Covers
  <2>2. Covers(parts, ds) <=> UpTo(DigitsOf(n), ds)
    <3>1. ds \in Texts(w) /\ UpTo(ds, Nines(w))
      BY <1>1, <1>6, <1>12, UpToEnds
    <3> QED
      BY <1>3, <3>1 DEF Exact
  <2>3. UpTo(DigitsOf(n), ds) <=> n <= k
    BY <1>12, PrintedInOrder DEF u, w, ds
  <2> QED
    BY <1>5, <2>1, <2>2, <2>3
<1> QED
  BY <1>1, <1>6, <1>10, <1>11, <1>12

-----------------------------------------------------------------------------
(* The terms read what was typed.                                           *)
LEMMA LeastReads ==
    ASSUME NEW v \in Numbers, NEW r \in BOOLEAN, NEW k \in Numbers
    PROVE  ReadsEnd(minRegex(v, r), k) <=> k >= (IF r THEN floor10(v) ELSE v)
<1> DEFINE n == IF r THEN floor10(v) ELSE v
<1>1. n \in Numbers /\ n \in Nat /\ k \in Nat
  <2>1. v \in Nat /\ k \in Nat /\ v \div Base \in Nat /\ v % Base \in Nat /\ v = Base * (v \div Base) + (v % Base)
    BY ScaleIs, PlacesOf, Digits DEF Numbers
  <2> DEFINE q == v \div Base
             e == v % Base
  <2>2. floor10(v) = q * Base
    BY DEF floor10
  <2> HIDE DEF q, e
  <2>3. q * Base \in Nat /\ q * Base <= v
    BY <2>1, ScaleIs DEF q, e
  <2>4. floor10(v) \in Numbers
    BY <2>1, <2>2, <2>3, ScaleIs DEF Numbers
  <2> QED
    BY <2>1, <2>4 DEF Numbers
<1>2. minRegex(v, r) = IF n = 0 THEN {} ELSE MinParts(n)
  BY DEF minRegex, MinParts
<1> HIDE DEF n
<1>3. CASE n = 0
  BY <1>1, <1>2, <1>3 DEF ReadsEnd, n
<1>4. CASE n # 0
  <2>1. ReadsEnd(MinParts(n), k) <=> k >= n
    BY <1>1, MinReads
  <2> QED
    BY <1>2, <1>4, <2>1 DEF n
<1> QED
  BY <1>3, <1>4

LEMMA PriceReads ==
    ASSUME NEW lo \in Numbers, NEW hi \in Numbers, lo <= hi, NEW n \in Numbers
    PROVE  Reads(priceRange(lo, hi), n) <=> n \in lo .. hi
<1>1. \A k \in Numbers : Covers(priceRange(lo, hi), DigitsOf(k)) <=> (lo <= k /\ k <= hi)
  <2> SUFFICES ASSUME NEW k \in Numbers
               PROVE  Covers(priceRange(lo, hi), DigitsOf(k)) <=> (lo <= k /\ k <= hi)
    OBVIOUS
  <2>1. Covers(priceRange(lo, hi), DigitsOf(k)) <=> \E w \in Widths : Covers(OfWidth(lo, hi, w), DigitsOf(k))
    BY DEF priceRange, Covers, Widths
  <2>2. \A w \in Widths : Covers(OfWidth(lo, hi, w), DigitsOf(k)) <=> (WidthOf(k) = w /\ lo <= k /\ k <= hi)
    BY OfWidthReads
  <2> QED
    BY <2>1, <2>2, PrintedWidth
<1>2. lo \in Nat /\ hi \in Nat /\ n \in Nat
  BY ScaleIs DEF Numbers
<1>3. priceRange(lo, hi) # {}
  BY <1>1, <1>2 DEF Covers
<1> QED
  BY <1>1, <1>2, <1>3 DEF Reads, Covers

LEMMA RangeIs ==
    ASSUME NEW lo \in Numbers, NEW hi \in Numbers, lo <= hi, hi < Base * Base
    PROVE  /\ rangeRegex(lo, hi) # {}
           /\ \A n \in Numbers : Covers(rangeRegex(lo, hi), DigitsOf(n)) <=> (lo <= n /\ n <= hi)
<1>0. lo \in Nat /\ hi \in Nat /\ Numbers \subseteq Nat
  BY ScaleIs DEF Numbers
<1>1. \A n \in Numbers : Covers(rangeRegex(lo, hi), DigitsOf(n)) <=> (lo <= n /\ n <= hi)
  <2> SUFFICES ASSUME NEW n \in Numbers
               PROVE  Covers(rangeRegex(lo, hi), DigitsOf(n)) <=> (lo <= n /\ n <= hi)
    OBVIOUS
  <2>1. Covers(rangeRegex(lo, hi), DigitsOf(n)) <=> (Covers(OfWidth(lo, hi, 1), DigitsOf(n)) \/ Covers(OfWidth(lo, hi, 2), DigitsOf(n)))
    BY DEF rangeRegex, Covers
  <2>2. 1 \in Widths /\ 2 \in Widths
    BY DEF Widths
  <2>3. /\ Covers(OfWidth(lo, hi, 1), DigitsOf(n)) <=> (WidthOf(n) = 1 /\ lo <= n /\ n <= hi)
        /\ Covers(OfWidth(lo, hi, 2), DigitsOf(n)) <=> (WidthOf(n) = 2 /\ lo <= n /\ n <= hi)
    BY <2>2, OfWidthReads
  <2>4. n <= hi => WidthOf(n) \in {1, 2}
    BY <1>0, ScaleIs DEF WidthOf
  <2> QED
    BY <2>1, <2>3, <2>4
<1>2. rangeRegex(lo, hi) # {}
  BY <1>0, <1>1 DEF Covers
<1> QED
  BY <1>1, <1>2

LEMMA BoundsAre ==
    /\ TierMax \in Nat /\ TierMax < Base * Base /\ 1 .. TierMax \subseteq Numbers
    /\ ReviveMax \in Nat /\ ReviveMax < Base /\ 0 .. ReviveMax \subseteq Numbers
    /\ UseMax \in Nat /\ UseMax < Base * Base /\ 0 .. UseMax \subseteq Numbers
    /\ 0 .. 2 * Base \subseteq Numbers
<1>1. Base \in Nat /\ Base > 2 /\ Base * Base \in Nat /\ TierMax \in Base .. Base * Base - 1 /\ ReviveMax \in 1 .. Base - 1
      /\ UseMax \in Base .. 2 * Base - 2
  BY AskAssumption, ScaleIs
<1>2. 2 * Base <= Base * Base
  BY <1>1
<1> DEFINE q == Base * Base
<1> HIDE DEF q
<1>3. q \in Nat /\ TierMax \in Base .. q - 1 /\ 2 * Base <= q /\ q <= PRICE_MAX /\ PRICE_MAX \in Nat
  BY <1>1, <1>2, ScaleIs DEF q
<1> QED
  BY <1>1, <1>3 DEF Numbers, q

LEMMA EndReads ==
    ASSUME NEW n \in Numbers, NEW parts \in SUBSET Patterns(WidthOf(n))
    PROVE  ReadsEnd(parts, n) <=> (parts = {} \/ Covers(parts, DigitsOf(n)))
<1>1. ReadsEnd(parts, n) <=>
        (parts = {} \/ \E p \in parts : Len(p) <= Len(DigitsOf(n)) /\ Fits(p, SubSeq(DigitsOf(n), Len(DigitsOf(n)) - Len(p) + 1, Len(DigitsOf(n)))))
  BY DEF ReadsEnd
<1>2. \A p \in parts : /\ Len(p) <= Len(DigitsOf(n))
                       /\ Fits(p, SubSeq(DigitsOf(n), Len(DigitsOf(n)) - Len(p) + 1, Len(DigitsOf(n)))) <=> Fits(p, DigitsOf(n))
  BY EndIsAll
<1> QED
  BY <1>1, <1>2 DEF Covers

LEMMA TierReads ==
    ASSUME NEW t, t.min \in 1 .. TierMax, t.max \in 1 .. TierMax, t.min <= t.max, NEW n \in 1 .. TierMax
    PROVE  Reads(tierTerm(t), n) <=> n \in t.min .. t.max
<1>0. TierMax \in Nat /\ TierMax < Base * Base /\ n \in Numbers /\ t.min \in Numbers /\ t.max \in Numbers /\ Base * Base \in Nat
  BY BoundsAre, ScaleIs
<1>1. CASE Whole(t.min, t.max, 1, TierMax)
  <2>1. tierTerm(t) = {}
    BY <1>1 DEF tierTerm
  <2>2. t.min <= 1 /\ t.max >= TierMax
    BY <1>1 DEF Whole
  <2> QED
    BY <1>0, <2>1, <2>2 DEF Reads
<1>2. CASE ~Whole(t.min, t.max, 1, TierMax)
  <2>1. tierTerm(t) = rangeRegex(t.min, t.max)
    BY <1>2 DEF tierTerm
  <2>2. t.max < Base * Base
    BY <1>0
  <2>3. rangeRegex(t.min, t.max) # {} /\ (Covers(rangeRegex(t.min, t.max), DigitsOf(n)) <=> (t.min <= n /\ n <= t.max))
    BY <1>0, <2>2, RangeIs
  <2> QED
    BY <1>0, <2>1, <2>3 DEF Reads, Covers
<1> QED
  BY <1>1, <1>2

LEMMA RevivesRead ==
    ASSUME NEW t, t.min \in 0 .. ReviveMax, t.max \in 0 .. ReviveMax, t.min <= t.max, NEW n \in 0 .. ReviveMax
    PROVE  ReadsEnd(revivesTerm(t), n) <=> n \in t.min .. t.max
<1>0. /\ ReviveMax \in Nat /\ ReviveMax < Base /\ Base \in Nat /\ Base > 2 /\ Base < Base * Base /\ Base * Base \in Nat
      /\ n \in Numbers /\ t.min \in Numbers /\ t.max \in Numbers
  BY BoundsAre, ScaleIs
<1>1. CASE Whole(t.min, t.max, 0, ReviveMax)
  <2>1. revivesTerm(t) = {}
    BY <1>1 DEF revivesTerm
  <2>2. t.min <= 0 /\ t.max >= ReviveMax
    BY <1>1 DEF Whole
  <2> QED
    BY <1>0, <2>1, <2>2 DEF ReadsEnd
<1>2. CASE ~Whole(t.min, t.max, 0, ReviveMax)
  <2>1. revivesTerm(t) = rangeRegex(t.min, t.max)
    BY <1>2 DEF revivesTerm
  <2>2. t.max < Base * Base /\ t.max < Base /\ WidthOf(n) = 1 /\ 1 \in Widths /\ 2 \in Widths /\ Least(2) = Base
    BY <1>0 DEF WidthOf, Widths, Least
  <2>3. rangeRegex(t.min, t.max) # {} /\ (Covers(rangeRegex(t.min, t.max), DigitsOf(n)) <=> (t.min <= n /\ n <= t.max))
    BY <1>0, <2>2, RangeIs
  <2>4. OfWidth(t.min, t.max, 1) \subseteq Patterns(1) /\ (OfWidth(t.min, t.max, 2) # {} => Least(2) <= t.max)
    BY <1>0, <2>2, OfWidthReads
  <2>5. ~(Least(2) <= t.max)
    BY <1>0, <2>2
  <2>6. rangeRegex(t.min, t.max) \in SUBSET Patterns(WidthOf(n))
    BY <2>2, <2>4, <2>5 DEF rangeRegex
  <2> QED
    BY <1>0, <2>1, <2>3, <2>6, EndReads
<1> QED
  BY <1>1, <1>2

LEMMA UsesRead ==
    ASSUME NEW u \in 0 .. UseMax, NEW n \in 1 .. UseMax
    PROVE  ReadsEnd(usesTerm(u), n) <=> n >= u
<1>0. /\ UseMax \in Nat /\ UseMax < Base * Base /\ UseMax \in Numbers /\ u \in Numbers /\ n \in Numbers
      /\ Base \in Nat /\ Base > 2 /\ Base < Base * Base /\ Base * Base \in Nat /\ n \in Nat /\ u \in Nat
  BY BoundsAre, ScaleIs
<1>1. CASE u = 0
  <2>1. usesTerm(u) = {}
    BY <1>1 DEF usesTerm
  <2> QED
    BY <1>0, <1>1, <2>1 DEF ReadsEnd
<1>2. CASE u # 0
  <2> DEFINE one == OfWidth(u, UseMax, 1)
             two == OfWidth(u, UseMax, 2)
  <2>1. usesTerm(u) = one \cup two
    BY <1>2 DEF usesTerm, rangeRegex
  <2>2. one \cup two # {} /\ (Covers(one \cup two, DigitsOf(n)) <=> u <= n)
    <3>1. u <= UseMax /\ n <= UseMax
      BY <1>0
    <3>2. rangeRegex(u, UseMax) # {} /\ (Covers(rangeRegex(u, UseMax), DigitsOf(n)) <=> (u <= n /\ n <= UseMax))
      BY <1>0, <3>1, RangeIs
    <3> QED
      BY <3>1, <3>2 DEF rangeRegex
  <2>3. 1 \in Widths /\ 2 \in Widths /\ Most(1) = Base - 1
    BY DEF Widths, Most
  <2>4. one \subseteq Patterns(1) /\ two \subseteq Patterns(2) /\ (one # {} => u <= Base - 1)
    BY <1>0, <2>3, OfWidthReads
  <2> HIDE DEF one, two
  <2>5. Len(DigitsOf(n)) = WidthOf(n) /\ WidthOf(n) \in {1, 2}
    BY <1>0, PrintedWidth DEF WidthOf
  <2>6. \A p \in two : Len(p) = 2
    BY <2>4, PatternIs
  <2>7. ReadsEnd(one \cup two, n) <=>
          \E p \in one \cup two : Len(p) <= Len(DigitsOf(n)) /\ Fits(p, SubSeq(DigitsOf(n), Len(DigitsOf(n)) - Len(p) + 1, Len(DigitsOf(n))))
    BY <2>2 DEF ReadsEnd
  <2>8. CASE WidthOf(n) = 1
    <3>1. \A p \in two : ~(Len(p) <= Len(DigitsOf(n))) /\ ~Fits(p, DigitsOf(n))
      <4>1. \A p \in two : ~(Len(p) <= Len(DigitsOf(n))) /\ Len(p) # Len(DigitsOf(n))
        BY <2>5, <2>6, <2>8
      <4> QED
        BY <4>1 DEF Fits
    <3>2. \A p \in one : Len(p) <= Len(DigitsOf(n)) /\ (Fits(p, SubSeq(DigitsOf(n), Len(DigitsOf(n)) - Len(p) + 1, Len(DigitsOf(n)))) <=> Fits(p, DigitsOf(n)))
      BY <1>0, <2>4, <2>8, EndIsAll
    <3> QED
      BY <1>0, <2>1, <2>2, <2>7, <3>1, <3>2 DEF Covers
  <2>9. CASE WidthOf(n) = 2
    <3>1. \A p \in two : Len(p) <= Len(DigitsOf(n)) /\ (Fits(p, SubSeq(DigitsOf(n), Len(DigitsOf(n)) - Len(p) + 1, Len(DigitsOf(n)))) <=> Fits(p, DigitsOf(n)))
      BY <1>0, <2>4, <2>9, EndIsAll
    <3>2. n >= Base
      BY <1>0, <2>9 DEF WidthOf
    <3>3. CASE one = {}
      BY <1>0, <2>1, <2>2, <2>7, <3>1, <3>3 DEF Covers
    <3>4. CASE one # {}
      <4>1. n >= u
        BY <1>0, <2>4, <3>2, <3>4
      <4>2. Covers(two, DigitsOf(n))
        <5>1. Covers(OfWidth(u, UseMax, 2), DigitsOf(n)) <=> (WidthOf(n) = 2 /\ u <= n /\ n <= UseMax)
          BY <1>0, <2>3, OfWidthReads
        <5> QED
          BY <1>0, <2>9, <4>1, <5>1 DEF two
      <4> QED
        BY <2>1, <2>7, <3>1, <4>1, <4>2 DEF Covers
    <3> QED
      BY <3>3, <3>4
  <2> QED
    BY <2>5, <2>8, <2>9
<1> QED
  BY <1>1, <1>2

-----------------------------------------------------------------------------
(* The selections the page can hold: the ends of a range keep their order.  *)
EndsIn(lo, hi) == {r \in [min : lo .. hi, max : lo .. hi] : r.min <= r.max}
Wants    == UNION {[S -> 0 .. 2 * Base] : S \in SUBSET Mods}
States   == {"corrupted", "uncorrupted", "delirious"}
Selections ==
    [kind : {"waystone", "tablet"}, rarity : SUBSET Rarities, tier : EndsIn(1, TierMax),
     revives : EndsIn(0, ReviveMax), state : SUBSET States, packSize : 0 .. PRICE_MAX, round10 : BOOLEAN,
     wantMode : {"any", "all"}, want : Wants, avoid : SUBSET Mods, type : SUBSET Kinds, uses : 0 .. UseMax,
     price : EndsIn(0, PRICE_MAX)]
AskInv == ask \in Selections /\ other \in Selections

LEMMA DefaultsAreOne == Defaults \in Selections
<1>1. TierMax \in Nat /\ TierMax >= 1 /\ ReviveMax \in Nat /\ UseMax \in Nat /\ PRICE_MAX \in Nat
  BY AskAssumption, BoundsAre, ScaleIs
<1>2. [min |-> 1, max |-> TierMax] \in EndsIn(1, TierMax) /\ [min |-> 0, max |-> ReviveMax] \in EndsIn(0, ReviveMax)
      /\ [min |-> 0, max |-> PRICE_MAX] \in EndsIn(0, PRICE_MAX)
  BY <1>1 DEF EndsIn
<1>3. <<>> \in Wants
  <2>1. <<>> \in [{} -> 0 .. 2 * Base] /\ {} \in SUBSET Mods
    OBVIOUS
  <2> QED
    BY <2>1 DEF Wants
<1> QED
  BY <1>1, <1>2, <1>3 DEF Defaults, Selections

LEMMA AskStarts == AskInit => AskInv
<1> SUFFICES ASSUME AskInit PROVE AskInv
  OBVIOUS
<1>1. Defaults \in Selections
  BY DefaultsAreOne
<1>2. other \in Selections
  <2>1. other = [Defaults EXCEPT !.kind = "tablet"]
    BY DEF AskInit
  <2> QED
    BY <1>1, <2>1 DEF Selections
<1> DEFINE A == UNION {[S -> {0, Base + 1}] : S \in SUBSET Mods}
           E(w, v, how) == [Defaults EXCEPT !.want = w, !.avoid = v, !.wantMode = how]
<1>3. PICK w \in A, v \in SUBSET Mods, how \in {"any", "all"} : ask = E(w, v, how)
  <2>1. ask \in Saved
    BY DEF AskInit
  <2>2. Saved = {E(w, v, how) : w \in A, v \in SUBSET Mods, how \in {"any", "all"}}
    BY DEF Saved
  <2> HIDE DEF A, E
  <2> QED
    BY <2>1, <2>2
<1>4. w \in Wants
  <2>1. {0, Base + 1} \subseteq 0 .. 2 * Base
    BY ScaleIs
  <2>2. PICK S \in SUBSET Mods : w \in [S -> {0, Base + 1}]
    OBVIOUS
  <2>3. w \in [S -> 0 .. 2 * Base]
    BY <2>1, <2>2
  <2> QED
    BY <2>3 DEF Wants
<1>5. ask \in Selections
  BY <1>1, <1>3, <1>4 DEF Selections
<1> QED
  BY <1>2, <1>5 DEF AskInv

LEMMA DraggedIs ==
    ASSUME NEW lo \in Nat, NEW hi \in Nat, NEW r \in EndsIn(lo, hi), NEW side \in {"min", "max"}, NEW v \in lo .. hi
    PROVE  dragged(r, side, v) \in EndsIn(lo, hi)
<1>1. r.min \in lo .. hi /\ r.max \in lo .. hi /\ r.min <= r.max
  BY DEF EndsIn
<1>2. Larger(r.max, v) \in lo .. hi /\ Larger(r.max, v) >= v /\ Smaller(r.min, v) \in lo .. hi /\ Smaller(r.min, v) <= v
  BY <1>1 DEF Larger, Smaller
<1> HIDE DEF Larger, Smaller
<1>3. CASE side = "min"
  BY <1>2, <1>3 DEF dragged, EndsIn
<1>4. CASE side = "max"
  BY <1>2, <1>4 DEF dragged, EndsIn
<1> QED
  BY <1>3, <1>4

LEMMA WantsAre ==
    ASSUME NEW want \in Wants, NEW m \in Mods
    PROVE  /\ NotWanted(want, m) \in Wants /\ AlsoWanted(want, m) \in Wants
           /\ \A v \in 0 .. 2 * Base : [want EXCEPT ![m] = v] \in Wants
<1>1. PICK S \in SUBSET Mods : want \in [S -> 0 .. 2 * Base]
  BY DEF Wants
<1>2. 0 \in 0 .. 2 * Base
  BY ScaleIs
<1>3. NotWanted(want, m) \in [S \ {m} -> 0 .. 2 * Base] /\ S \ {m} \in SUBSET Mods
  BY <1>1 DEF NotWanted
<1>4. AlsoWanted(want, m) \in [S \cup {m} -> 0 .. 2 * Base] /\ S \cup {m} \in SUBSET Mods
  BY <1>1, <1>2 DEF AlsoWanted
<1>5. \A v \in 0 .. 2 * Base : [want EXCEPT ![m] = v] \in [S -> 0 .. 2 * Base]
  BY <1>1
<1> QED
  BY <1>3, <1>4, <1>5 DEF Wants

LEMMA AskStays == AskInv /\ [AskNext]_askVars => AskInv'
<1> SUFFICES ASSUME AskInv, [AskNext]_askVars PROVE AskInv'
  OBVIOUS
<1>0. ask \in Selections /\ other \in Selections
  BY DEF AskInv
<1>1. ASSUME NEW a \in Selections, patch(a) PROVE AskInv'
  BY <1>0, <1>1 DEF AskInv, patch
<1>2. /\ ask.tier \in EndsIn(1, TierMax) /\ ask.revives \in EndsIn(0, ReviveMax) /\ ask.price \in EndsIn(0, PRICE_MAX)
      /\ ask.want \in Wants
  BY <1>0 DEF Selections
<1>3. TierMax \in Nat /\ ReviveMax \in Nat /\ PRICE_MAX \in Nat /\ 1 \in Nat /\ 0 \in Nat
  BY BoundsAre, ScaleIs
<1>4. ASSUME NEW side \in {"min", "max"}, NEW v \in 1 .. TierMax, SetTier(side, v) PROVE AskInv'
  <2>1. dragged(ask.tier, side, v) \in EndsIn(1, TierMax)
    BY <1>2, <1>3, DraggedIs
  <2>2. [ask EXCEPT !.tier = dragged(@, side, v)] \in Selections
    BY <1>0, <2>1 DEF Selections
  <2> QED
    BY <1>1, <1>4, <2>2 DEF SetTier
<1>5. ASSUME NEW side \in {"min", "max"}, NEW v \in 0 .. ReviveMax, SetRevives(side, v) PROVE AskInv'
  <2>1. dragged(ask.revives, side, v) \in EndsIn(0, ReviveMax)
    BY <1>2, <1>3, DraggedIs
  <2>2. [ask EXCEPT !.revives = dragged(@, side, v)] \in Selections
    BY <1>0, <2>1 DEF Selections
  <2> QED
    BY <1>1, <1>5, <2>2 DEF SetRevives
<1>6. ASSUME NEW side \in {"min", "max"}, NEW v \in 0 .. PRICE_MAX, SetPrice(side, v) PROVE AskInv'
  <2>1. dragged(ask.price, side, v) \in EndsIn(0, PRICE_MAX)
    BY <1>2, <1>3, DraggedIs
  <2>2. [ask EXCEPT !.price = dragged(@, side, v)] \in Selections
    BY <1>0, <2>1 DEF Selections
  <2> QED
    BY <1>1, <1>6, <2>2 DEF SetPrice
<1>7. ASSUME NEW v \in 0 .. PRICE_MAX, SetYield(v) PROVE AskInv'
  <2>1. [ask EXCEPT !.packSize = v] \in Selections
    BY <1>0 DEF Selections
  <2> QED
    BY <1>1, <1>7, <2>1 DEF SetYield
<1>8. ASSUME NEW v \in 0 .. UseMax, SetUses(v) PROVE AskInv'
  <2>1. [ask EXCEPT !.uses = v] \in Selections
    BY <1>0 DEF Selections
  <2> QED
    BY <1>1, <1>8, <2>1 DEF SetUses
<1>9. ASSUME NEW r \in Rarities, ToggleRarity(r) PROVE AskInv'
  <2>1. [ask EXCEPT !.rarity = Flip(@, r)] \in Selections
    <3>1. ask.rarity \in SUBSET Rarities
      BY <1>0 DEF Selections
    <3>2. Flip(ask.rarity, r) \in SUBSET Rarities
      BY <3>1 DEF Flip
    <3> QED
      BY <1>0, <3>2 DEF Selections
  <2> QED
    BY <1>1, <1>9, <2>1 DEF ToggleRarity
<1>10. ASSUME NEW s \in States, ToggleState(s) PROVE AskInv'
  <2>1. [ask EXCEPT !.state = Flip(@, s)] \in Selections
    <3>1. ask.state \in SUBSET States
      BY <1>0 DEF Selections
    <3>2. Flip(ask.state, s) \in SUBSET States
      BY <3>1 DEF Flip
    <3> QED
      BY <1>0, <3>2 DEF Selections
  <2> QED
    BY <1>1, <1>10, <2>1 DEF ToggleState
<1>11. ASSUME NEW k \in Kinds, ToggleType(k) PROVE AskInv'
  <2>1. [ask EXCEPT !.type = Flip(@, k)] \in Selections
    <3>1. ask.type \in SUBSET Kinds
      BY <1>0 DEF Selections
    <3>2. Flip(ask.type, k) \in SUBSET Kinds
      BY <3>1 DEF Flip
    <3> QED
      BY <1>0, <3>2 DEF Selections
  <2> QED
    BY <1>1, <1>11, <2>1 DEF ToggleType
<1>12. CASE ToggleRound
  <2>1. [ask EXCEPT !.round10 = ~@] \in Selections
    BY <1>0 DEF Selections
  <2> QED
    BY <1>1, <1>12, <2>1 DEF ToggleRound
<1>13. ASSUME NEW w \in {"any", "all"}, SetMode(w) PROVE AskInv'
  <2>1. [ask EXCEPT !.wantMode = w] \in Selections
    BY <1>0 DEF Selections
  <2> QED
    BY <1>1, <1>13, <2>1 DEF SetMode
<1>14. ASSUME NEW m \in Mods, ToggleWant(m) PROVE AskInv'
  <2> DEFINE want == IF m \in DOMAIN ask.want THEN NotWanted(ask.want, m) ELSE AlsoWanted(ask.want, m)
  <2>1. want \in Wants
    BY <1>2, WantsAre
  <2>2. patch([ask EXCEPT !.want = want])
    BY <1>14 DEF ToggleWant
  <2> HIDE DEF want
  <2>3. [ask EXCEPT !.want = want] \in Selections
    BY <1>0, <2>1 DEF Selections
  <2> QED
    BY <1>1, <2>2, <2>3
<1>15. ASSUME NEW m \in Mods, ToggleAvoid(m) PROVE AskInv'
  <2>1. [ask EXCEPT !.avoid = Flip(@, m)] \in Selections
    <3>1. ask.avoid \in SUBSET Mods
      BY <1>0 DEF Selections
    <3>2. Flip(ask.avoid, m) \in SUBSET Mods
      BY <3>1 DEF Flip
    <3> QED
      BY <1>0, <3>2 DEF Selections
  <2> QED
    BY <1>1, <1>15, <2>1 DEF ToggleAvoid
<1>16. ASSUME NEW m \in Mods, NEW v \in 0 .. 2 * Base, SetMin(m, v) PROVE AskInv'
  <2> DEFINE want == [ask.want EXCEPT ![m] = v]
  <2>1. want \in Wants
    BY <1>2, WantsAre
  <2>2. patch([ask EXCEPT !.want = want])
    BY <1>16 DEF SetMin
  <2> HIDE DEF want
  <2>3. [ask EXCEPT !.want = want] \in Selections
    BY <1>0, <2>1 DEF Selections
  <2> QED
    BY <1>1, <2>2, <2>3
<1>17. CASE SetKind
  BY <1>0, <1>17 DEF SetKind, AskInv
<1>18. CASE Reset
  <2>1. [Defaults EXCEPT !.kind = ask.kind] \in Selections
    BY <1>0, DefaultsAreOne DEF Selections
  <2> QED
    BY <1>1, <1>18, <2>1 DEF Reset
<1>19. CASE UNCHANGED askVars
  BY <1>0, <1>19 DEF askVars, AskInv
<1> QED
  BY <1>4, <1>5, <1>6, <1>7, <1>8, <1>9, <1>10, <1>11, <1>12, <1>13, <1>14, <1>15, <1>16, <1>17, <1>18, <1>19 DEF AskNext, States

-----------------------------------------------------------------------------
(* What the string and the query say of a selection.                        *)
LEMMA NumbersDo == AskInv => NumbersReadTrue
<1> SUFFICES ASSUME AskInv PROVE NumbersReadTrue
  OBVIOUS
<1>1. /\ ask.tier.min \in 1 .. TierMax /\ ask.tier.max \in 1 .. TierMax /\ ask.tier.min <= ask.tier.max
      /\ ask.revives.min \in 0 .. ReviveMax /\ ask.revives.max \in 0 .. ReviveMax /\ ask.revives.min <= ask.revives.max
      /\ ask.price.min \in Numbers /\ ask.price.max \in Numbers /\ ask.price.min <= ask.price.max
      /\ ask.packSize \in Numbers /\ ask.round10 \in BOOLEAN /\ ask.uses \in 0 .. UseMax
  <2>1. /\ ask.tier \in EndsIn(1, TierMax) /\ ask.revives \in EndsIn(0, ReviveMax) /\ ask.price \in EndsIn(0, PRICE_MAX)
        /\ ask.packSize \in Numbers /\ ask.round10 \in BOOLEAN /\ ask.uses \in 0 .. UseMax
    BY DEF AskInv, Selections, Numbers
  <2> QED
    BY <2>1 DEF EndsIn, Numbers
<1>2. \A n \in Numbers : ReadsEnd(minRegex(ask.packSize, ask.round10), n)
                         <=> n >= (IF ask.round10 THEN floor10(ask.packSize) ELSE ask.packSize)
  BY <1>1, LeastReads
<1>3. \A n \in Numbers : Reads(priceRange(ask.price.min, ask.price.max), n) <=> n \in ask.price.min .. ask.price.max
  BY <1>1, PriceReads
<1>4. normalizePrice(ask.price.min, ask.price.max) = [min |-> ask.price.min, max |-> ask.price.max]
  <2>1. ask.price.min \in Nat /\ ask.price.max \in Nat
    BY <1>1, ScaleIs DEF Numbers
  <2> QED
    BY <1>1, <2>1 DEF normalizePrice, Larger, Smaller
<1>5. \A n \in 1 .. TierMax : Reads(tierTerm(ask.tier), n) <=> n \in ask.tier.min .. ask.tier.max
  BY <1>1, TierReads
<1>6. \A n \in 0 .. ReviveMax : ReadsEnd(revivesTerm(ask.revives), n) <=> n \in ask.revives.min .. ask.revives.max
  BY <1>1, RevivesRead
<1>7. \A n \in 1 .. UseMax : ReadsEnd(usesTerm(ask.uses), n) <=> n >= ask.uses
  BY <1>1, UsesRead
<1> QED
  BY <1>2, <1>3, <1>4, <1>5, <1>6, <1>7 DEF NumbersReadTrue, Numbers

LEMMA PickedOne ==
    ASSUME NEW of, NEW x \in of, NEW y \in of, x # y, IsFiniteSet(of), NEW picked \in {{}, of}
    PROVE  Cardinality(picked) # 1
<1>1. picked = {} => Cardinality(picked) = 0
  BY FS_EmptySet
<1>2. ASSUME picked = of PROVE Cardinality(picked) # 1
  <2> SUFFICES ASSUME Cardinality(of) = 1 PROVE FALSE
    BY <1>2
  <2>1. \E z : of = {z}
    BY FS_Singleton
  <2> QED
    BY <2>1
<1> QED
  BY <1>1, <1>2

LEMMA QueryLists == AskInv => TradeListsWhatShows
<1> SUFFICES ASSUME AskInv PROVE TradeListsWhatShows
  OBVIOUS
<1>1. /\ ask.tier.min \in 1 .. TierMax /\ ask.tier.max \in 1 .. TierMax /\ ask.tier.min <= ask.tier.max
      /\ ask.packSize \in Numbers /\ ask.want \in Wants
  <2>1. ask.tier \in EndsIn(1, TierMax) /\ ask.packSize \in Numbers /\ ask.want \in Wants
    BY DEF AskInv, Selections, Numbers
  <2> QED
    BY <2>1 DEF EndsIn
<1>2. ASSUME NEW r \in Rarities, rarityTerm(ask.rarity, r) PROVE rarityFilter(ask.rarity, r)
  <2>1. "normal" \in Rarities /\ "magic" \in Rarities /\ "normal" # "magic"
    BY DEF Rarities
  <2>2. IsFiniteSet(Rarities)
    <3>1. Rarities = {"normal"} \cup {"magic"} \cup {"rare"}
      BY DEF Rarities
    <3> QED
      BY <3>1, FS_Singleton, FS_Union
  <2> QED
    BY <1>2, <2>1, <2>2, PickedOne DEF rarityTerm, rarityFilter
<1>3. ASSUME NEW k \in Kinds, kindTerm(ask.type, k) PROVE kindFilter(ask.type, k)
  <2>1. "ritual" \in Kinds /\ "breach" \in Kinds /\ "ritual" # "breach"
    BY DEF Kinds
  <2>2. IsFiniteSet(Kinds)
    <3>1. Kinds = {"ritual"} \cup {"breach"} \cup {"abyss"}
      BY DEF Kinds
    <3> QED
      BY <3>1, FS_Singleton, FS_Union
  <2> QED
    BY <1>3, <2>1, <2>2, PickedOne DEF kindTerm, kindFilter
<1>4. ASSUME NEW n \in 1 .. TierMax, Reads(tierTerm(ask.tier), n) PROVE tierFilter(ask.tier, n)
  <2>1. n \in ask.tier.min .. ask.tier.max
    BY <1>1, <1>4, TierReads
  <2> QED
    BY <2>1 DEF tierFilter
<1>5. \A of \in SUBSET {"corrupted", "delirious"} : stateTerm(ask.state, of) => stateFilter(ask.state, of)
  BY DEF stateTerm, stateFilter
<1>6. ASSUME NEW n \in Numbers, ReadsEnd(minRegex(ask.packSize, FALSE), n) PROVE yieldFilter(ask.packSize, n)
  <2>1. n >= ask.packSize
    BY <1>1, <1>6, LeastReads
  <2> QED
    BY <2>1 DEF yieldFilter
<1>7. ASSUME ~ask.round10, ask.wantMode = "all" \/ DOMAIN ask.want \subseteq Traded, NEW rolled \in Rolled,
             wantedTerms(ask, rolled), avoidTerm(ask, rolled)
      PROVE  wantGroups(ask, rolled) /\ avoidGroup(ask, rolled)
  <2>1. \A m \in DOMAIN ask.want : ask.want[m] \in Numbers
    <3>1. PICK S \in SUBSET Mods : ask.want \in [S -> 0 .. 2 * Base]
      BY <1>1 DEF Wants
    <3> QED
      BY <3>1, BoundsAre
  <2>2. \A m \in DOMAIN rolled : rolled[m] \in Numbers
    <3>1. PICK S \in SUBSET Mods, v \in {0, Base - 1, Base + 1, 2 * Base} : rolled = [x \in S |-> IF x \in HasRoll THEN v ELSE 0]
      BY DEF Rolled
    <3>2. 0 \in Numbers /\ v \in Numbers
      BY ScaleIs DEF Numbers
    <3> QED
      BY <3>1, <3>2
  <2>3. ASSUME NEW m \in DOMAIN ask.want, selectedMod(m, ask.want[m], ask.round10, rolled)
        PROVE  filtered(m, ask.want[m], rolled)
    <3>1. m \in DOMAIN rolled
      BY <2>3 DEF selectedMod
    <3>2. ASSUME m \in HasRoll PROVE rolled[m] >= ask.want[m]
      <4>1. ReadsEnd(minRegex(ask.want[m], ask.round10), rolled[m])
        BY <2>3, <3>2 DEF selectedMod
      <4>2. ask.round10 = FALSE
        BY <1>7 DEF AskInv, Selections
      <4>3. ask.want[m] \in Numbers /\ rolled[m] \in Numbers
        BY <2>1, <2>2, <3>1
      <4> QED
        BY <4>1, <4>2, <4>3, LeastReads
    <3> QED
      BY <3>1, <3>2 DEF filtered
  <2>4. avoidGroup(ask, rolled)
    BY <1>7 DEF avoidTerm, avoidGroup
  <2>5. CASE ask.wantMode = "all"
    <3>1. \A m \in DOMAIN ask.want : selectedMod(m, ask.want[m], ask.round10, rolled)
      BY <1>7, <2>5 DEF wantedTerms
    <3> QED
      BY <2>3, <2>4, <2>5, <3>1 DEF wantGroups
  <2>6. CASE ask.wantMode # "all"
    <3>1. ask.want = <<>> \/ \E m \in DOMAIN ask.want : selectedMod(m, ask.want[m], ask.round10, rolled)
      BY <1>7, <2>6 DEF wantedTerms
    <3>2. CASE ask.want = <<>>
      <4>1. DOMAIN ask.want = {}
        BY <3>2
      <4> QED
        BY <2>4, <2>6, <4>1 DEF wantGroups
    <3>3. CASE \E m \in DOMAIN ask.want : selectedMod(m, ask.want[m], ask.round10, rolled)
      BY <1>7, <2>3, <2>4, <2>6, <3>3 DEF wantGroups
    <3> QED
      BY <3>1, <3>2, <3>3
  <2> QED
    BY <2>5, <2>6
<1> QED
  BY <1>2, <1>3, <1>4, <1>5, <1>6, <1>7 DEF TradeListsWhatShows, Numbers

(* Whatever is picked, dragged, typed and switched, the string of the Regex *)
(* page reads as was asked, and its trade query lists what the string shows *)
(* (lib/regex), in any base and for any tiers, revives and uses.            *)
THEOREM AskIsAnsweredEver == AskSpec => []AskIsAnswered
<1>1. AskInv => AskIsAnswered
  BY NumbersDo, QueryLists DEF AskIsAnswered
<1> QED
  BY <1>1, AskStarts, AskStays, PTL DEF AskSpec

-----------------------------------------------------------------------------
(* What is said of a set of lines is said by adding one line after another *)
(* to none: induction over finite sets, by a least one left out.           *)
LEMMA LeastCount ==
    ASSUME NEW T, T # {}, \A S \in T : IsFiniteSet(S)
    PROVE  \E S \in T : \A R \in T : Cardinality(S) <= Cardinality(R)
<1> DEFINE N == {Cardinality(S) : S \in T}
<1>1. N \subseteq Nat /\ N # {}
  BY FS_CardinalityType
<1>2. PICK m \in N : \A k \in N : ~ (<<k, m>> \in OpToRel(<, Nat))
  BY <1>1, WFMin, NatLessThanWellFounded
<1>3. \A k \in N : k \in Nat /\ m \in Nat /\ ~(k < m)
  BY <1>1, <1>2 DEF OpToRel
<1>4. PICK S \in T : m = Cardinality(S)
  OBVIOUS
<1>5. \A R \in T : Cardinality(R) \in N
  OBVIOUS
<1>6. \A R \in T : m <= Cardinality(R)
  BY <1>3, <1>5
<1> QED
  BY <1>4, <1>6

LEMMA EverySubset ==
    ASSUME NEW A, IsFiniteSet(A), NEW C, {} \in C,
           \A S \in SUBSET A : S # {} /\ (\A R \in SUBSET A : Cardinality(R) < Cardinality(S) => R \in C) => S \in C
    PROVE  SUBSET A \subseteq C
<1> DEFINE T == (SUBSET A) \ C
<1> SUFFICES ASSUME T # {} PROVE FALSE
  OBVIOUS
<1>1. \A S \in SUBSET A : IsFiniteSet(S) /\ Cardinality(S) \in Nat
  BY FS_Subset, FS_CardinalityType
<1>2. PICK S \in T : \A R \in T : Cardinality(S) <= Cardinality(R)
  BY <1>1, LeastCount
<1>3. \A R \in SUBSET A : Cardinality(R) < Cardinality(S) => R \in C
  BY <1>1, <1>2
<1> QED
  BY <1>2, <1>3

LEMMA OneFewer ==
    ASSUME NEW S, IsFiniteSet(S), S # {}, NEW x \in S
    PROVE  /\ IsFiniteSet(S \ {x}) /\ Cardinality(S \ {x}) \in Nat /\ Cardinality(S) \in Nat
           /\ Cardinality(S \ {x}) < Cardinality(S)
  BY FS_RemoveElement, FS_CardinalityType, FS_Subset

\* The sum as the library adds it up: one member chosen, the rest summed.
Pick(S) == CHOOSE x \in S : TRUE
Adds(f, g, S) == IF S = {} THEN 0 ELSE g[Pick(S)] + f[S \ {Pick(S)}]
Sums(f, g, A) == f = [S \in SUBSET A |-> Adds(f, g, S)]
SumOf(g, A) == CHOOSE f : Sums(f, g, A)

LEMMA LibrarySums == ASSUME NEW A, NEW g PROVE MapThenSumSet(LAMBDA l : g[l], A) = SumOf(g, A)[A]
  BY Zenon DEF MapThenSumSet, MapThenFoldSet, SumOf, Sums, Adds, Pick

LEMMA Picked == \A S : S # {} => Pick(S) \in S
  BY DEF Pick

\* Up to n members the equation has a solution, and only one.
OfAtMost(A, n) == {S \in SUBSET A : Cardinality(S) <= n}
SumsTo(f, g, A, n) == \A S \in OfAtMost(A, n) : f[S] = Adds(f, g, S)

LEMMA SumsAgree ==
    ASSUME NEW A, IsFiniteSet(A), NEW g, NEW f, NEW h, NEW m \in Nat, NEW n \in Nat,
           SumsTo(f, g, A, m), SumsTo(h, g, A, n)
    PROVE  \A S \in OfAtMost(A, m) \cap OfAtMost(A, n) : f[S] = h[S]
<1> DEFINE C == {S \in SUBSET A : S \in OfAtMost(A, m) \cap OfAtMost(A, n) => f[S] = h[S]}
<1>1. \A S \in SUBSET A : IsFiniteSet(S) /\ Cardinality(S) \in Nat
  BY FS_Subset, FS_CardinalityType
<1>2. {} \in C
  BY DEF SumsTo, Adds
<1>3. ASSUME NEW S \in SUBSET A, S # {}, \A R \in SUBSET A : Cardinality(R) < Cardinality(S) => R \in C
      PROVE  S \in C
  <2> SUFFICES ASSUME S \in OfAtMost(A, m), S \in OfAtMost(A, n) PROVE f[S] = h[S]
    OBVIOUS
  <2> DEFINE R == S \ {Pick(S)}
  <2>1. Pick(S) \in S
    BY <1>3, Picked
  <2>2. R \in SUBSET A /\ Cardinality(R) \in Nat /\ Cardinality(R) < Cardinality(S)
    BY <1>1, <1>3, <2>1, OneFewer
  <2>3. R \in C
    BY <1>3, <2>2
  <2>4. R \in OfAtMost(A, m) \cap OfAtMost(A, n)
    BY <1>1, <2>2 DEF OfAtMost
  <2>5. f[R] = h[R]
    BY <2>3, <2>4
  <2>6. f[S] = Adds(f, g, S) /\ h[S] = Adds(h, g, S)
    BY DEF SumsTo
  <2> QED
    BY <2>5, <2>6 DEF Adds
<1> HIDE DEF C
<1>4. SUBSET A \subseteq C
  BY <1>2, <1>3, EverySubset
<1> QED
  BY <1>4 DEF C, OfAtMost

LEMMA SumsToAll ==
    ASSUME NEW A, IsFiniteSet(A), NEW g, NEW n \in Nat
    PROVE  \E f : SumsTo(f, g, A, n)
<1> DEFINE T == {k \in Nat : ~ \E f : SumsTo(f, g, A, k)}
<1> SUFFICES ASSUME T # {} PROVE FALSE
  OBVIOUS
<1>1. \A S \in SUBSET A : IsFiniteSet(S) /\ Cardinality(S) \in Nat
  BY FS_Subset, FS_CardinalityType
<1>2. PICK k \in T : \A j \in T : ~ (<<j, k>> \in OpToRel(<, Nat))
  BY WFMin, NatLessThanWellFounded
<1>3. CASE k = 0
  <2> DEFINE f == [S \in SUBSET A |-> 0]
  <2>1. \A S \in OfAtMost(A, 0) : S = {}
    BY <1>1, FS_EmptySet DEF OfAtMost
  <2>2. SumsTo(f, g, A, 0)
    BY <2>1 DEF SumsTo, Adds, OfAtMost
  <2> QED
    BY <1>3, <2>2
<1>4. CASE k # 0
  <2>1. k - 1 \in Nat /\ k - 1 < k
    BY <1>4
  <2>2. k - 1 \notin T
    BY <1>2, <2>1 DEF OpToRel
  <2>3. PICK f : SumsTo(f, g, A, k - 1)
    BY <2>1, <2>2
  <2> DEFINE h == [S \in SUBSET A |-> IF Cardinality(S) <= k - 1 THEN f[S] ELSE Adds(f, g, S)]
  <2>4. ASSUME NEW S \in OfAtMost(A, k) PROVE h[S] = Adds(h, g, S)
    <3>1. S \in SUBSET A /\ h[S] = Adds(f, g, S)
      BY <1>1, <2>3 DEF SumsTo, OfAtMost
    <3>2. CASE S = {}
      BY <3>1, <3>2 DEF Adds
    <3>3. CASE S # {}
      <4> DEFINE R == S \ {Pick(S)}
      <4>1. R \in SUBSET A /\ Cardinality(R) \in Nat /\ Cardinality(R) < Cardinality(S)
        BY <1>1, <3>1, <3>3, Picked, OneFewer
      <4>2. Cardinality(S) \in Nat /\ Cardinality(S) <= k
        BY <1>1 DEF OfAtMost
      <4>3. h[R] = f[R]
        BY <2>1, <4>1, <4>2
      <4> HIDE DEF h
      <4> QED
        BY <3>1, <3>3, <4>3 DEF Adds
    <3> QED
      BY <3>2, <3>3
  <2> HIDE DEF h
  <2>5. SumsTo(h, g, A, k)
    BY <2>4 DEF SumsTo
  <2> QED
    BY <2>5
<1> QED
  BY <1>3, <1>4

LEMMA SumIs ==
    ASSUME NEW A, IsFiniteSet(A), NEW g
    PROVE  \A S \in SUBSET A : SumOf(g, A)[S] = Adds(SumOf(g, A), g, S)
<1> DEFINE n == Cardinality(A)
<1>1. n \in Nat /\ \A S \in SUBSET A : Cardinality(S) \in Nat /\ Cardinality(S) <= n
  BY FS_Subset, FS_CardinalityType
<1>2. PICK f : SumsTo(f, g, A, n)
  BY <1>1, SumsToAll
<1> DEFINE h == [S \in SUBSET A |-> f[S]]
<1>3. \A S \in SUBSET A : h[S] = Adds(h, g, S)
  <2> SUFFICES ASSUME NEW S \in SUBSET A PROVE h[S] = Adds(h, g, S)
    OBVIOUS
  <2>1. f[S] = Adds(f, g, S)
    BY <1>1, <1>2 DEF SumsTo, OfAtMost
  <2>2. S \ {Pick(S)} \in SUBSET A /\ h[S \ {Pick(S)}] = f[S \ {Pick(S)}] /\ h[S] = f[S]
    OBVIOUS
  <2> QED
    BY <2>1, <2>2 DEF Adds
<1>4. Sums(h, g, A)
  <2>1. h = [S \in SUBSET A |-> h[S]]
    OBVIOUS
  <2> HIDE DEF h
  <2> QED
    BY <1>3, <2>1 DEF Sums
<1> HIDE DEF h
<1>5. Sums(SumOf(g, A), g, A)
  BY <1>4, Zenon DEF SumOf
<1> DEFINE F == SumOf(g, A)
           G == [S \in SUBSET A |-> Adds(F, g, S)]
<1> HIDE DEF F
<1>6. F = G
  BY <1>5 DEF Sums, F
<1>7. \A S \in SUBSET A : G[S] = Adds(F, g, S)
  OBVIOUS
<1> HIDE DEF G
<1> QED
  BY <1>6, <1>7 DEF F

\* Whole numbers add up to one, and never to less than one of them.
LEMMA SumNatural ==
    ASSUME NEW A, IsFiniteSet(A), NEW g \in [A -> Nat]
    PROVE  /\ \A S \in SUBSET A : SumOf(g, A)[S] \in Nat
           /\ \A S \in SUBSET A : (\A x \in S : g[x] = 0) => SumOf(g, A)[S] = 0
<1> DEFINE F == SumOf(g, A)
           C == {S \in SUBSET A : F[S] \in Nat /\ ((\A x \in S : g[x] = 0) => F[S] = 0)}
<1>0. \A S \in SUBSET A : F[S] = Adds(F, g, S)
  BY SumIs
<1>1. \A S \in SUBSET A : IsFiniteSet(S) /\ Cardinality(S) \in Nat
  BY FS_Subset, FS_CardinalityType
<1> HIDE DEF F
<1>2. {} \in C
  BY <1>0 DEF Adds
<1>3. ASSUME NEW S \in SUBSET A, S # {}, \A R \in SUBSET A : Cardinality(R) < Cardinality(S) => R \in C
      PROVE  S \in C
  <2> DEFINE p == Pick(S)
             R == S \ {p}
  <2>1. p \in S
    BY <1>3, Picked
  <2> HIDE DEF p
  <2>2. R \in SUBSET A /\ Cardinality(R) < Cardinality(S)
    BY <1>1, <1>3, <2>1, OneFewer
  <2>3. F[R] \in Nat /\ ((\A x \in R : g[x] = 0) => F[R] = 0)
    BY <1>3, <2>2
  <2>4. F[S] = g[p] + F[R] /\ g[p] \in Nat
    BY <1>0, <1>3, <2>1 DEF Adds, p
  <2>5. F[S] \in Nat
    BY <2>3, <2>4
  <2>6. ASSUME \A x \in S : g[x] = 0 PROVE F[S] = 0
    BY <2>1, <2>3, <2>4, <2>6
  <2> QED
    BY <2>5, <2>6
<1> HIDE DEF C
<1>4. SUBSET A \subseteq C
  BY <1>2, <1>3, EverySubset
<1> QED
  BY <1>4 DEF C, F

\* One line changes: the sum changes by as much.
LEMMA SumChanges ==
    ASSUME NEW A, IsFiniteSet(A), NEW g \in [A -> Nat], NEW h \in [A -> Nat], NEW x \in A,
           \A y \in A \ {x} : h[y] = g[y]
    PROVE  SumOf(h, A)[A] = SumOf(g, A)[A] + h[x] - g[x]
<1> DEFINE F == SumOf(g, A)
           H == SumOf(h, A)
           C == {S \in SUBSET A : H[S] = F[S] + (IF x \in S THEN h[x] - g[x] ELSE 0)}
<1>0. \A S \in SUBSET A : F[S] = Adds(F, g, S) /\ H[S] = Adds(H, h, S) /\ F[S] \in Nat /\ H[S] \in Nat
  BY SumIs, SumNatural
<1>1. \A S \in SUBSET A : IsFiniteSet(S) /\ Cardinality(S) \in Nat
  BY FS_Subset, FS_CardinalityType
<1> HIDE DEF F, H
<1>2. {} \in C
  <2>1. {} \in SUBSET A /\ F[{}] = 0 /\ H[{}] = 0
    BY <1>0 DEF Adds
  <2> QED
    BY <2>1
<1>3. ASSUME NEW S \in SUBSET A, S # {}, \A R \in SUBSET A : Cardinality(R) < Cardinality(S) => R \in C
      PROVE  S \in C
  <2> DEFINE p == Pick(S)
             R == S \ {p}
  <2>1. p \in S
    BY <1>3, Picked
  <2> HIDE DEF p
  <2>2. R \in SUBSET A /\ Cardinality(R) < Cardinality(S)
    BY <1>1, <1>3, <2>1, OneFewer
  <2>3. H[R] = F[R] + (IF x \in R THEN h[x] - g[x] ELSE 0)
    BY <1>3, <2>2
  <2>4. F[S] = g[p] + F[R] /\ H[S] = h[p] + H[R] /\ F[R] \in Nat /\ H[R] \in Nat
    BY <1>0, <1>3, <2>1, <2>2 DEF Adds, p
  <2>5. h[p] \in Nat /\ g[p] \in Nat /\ h[x] \in Nat /\ g[x] \in Nat /\ (p # x => h[p] = g[p])
    BY <2>1
  <2>6. x \in R <=> (x \in S /\ x # p)
    BY <2>1
  <2>7. H[S] = F[S] + (IF x \in S THEN h[x] - g[x] ELSE 0)
    BY <2>1, <2>3, <2>4, <2>5, <2>6
  <2> QED
    BY <2>7
<1> HIDE DEF C
<1>4. A \in C
  BY <1>2, <1>3, EverySubset
<1> QED
  BY <1>4 DEF C, F, H

-----------------------------------------------------------------------------
(* One strat's tally: what a thing may hold, and the tablets on a map.     *)
Amounts == Nat \cup {Unset}
Worths  == {0, 1, 2, 4, 8, 16}
Links   == {k \in [on : BOOLEAN, div : Amounts] : k.div # Unset => k.on}
MapRuns == [count : Nat, price : Amounts, cur : CostCurs, link : Links]
Tablets == [kind : DOMAIN TabletTypes \cup {"none"}, slots : Nat, price : Amounts, cur : CostCurs, link : Links]
SlotsSound(x) == IF x.kind = "none" THEN x.slots = 0 ELSE x.slots \in 1..MAX_TABLETS
TallyTypes ==
    /\ maps \in MapRuns /\ lines \in [Lids -> Tablets]
    /\ override \in [on : BOOLEAN, amount : Nat, cur : CostCurs]
    /\ market \in [CostCurs \cup {"unique"} -> Worths] /\ market.divine = 4
    /\ lastCur \in CostCurs /\ tallyEdits \in Nat
TabletsFit == tabletSlots <= MAX_TABLETS /\ \A l \in Lids : SlotsSound(lines[l])
TallyInv == TallyTypes /\ TabletsFit

\* An amount typed for a worth is worth just that.
LEMMA ExactAmount ==
    ASSUME NEW n \in Nat, NEW m \in Worths, m > 0
    PROVE  /\ (n * One) \div m \in Nat
           /\ (((n * One) \div m) * m) \div One = n
           /\ (n * One) \div m = 0 => n = 0
<1>1. CASE m = 1
  BY <1>1 DEF One
<1>2. CASE m = 2
  BY <1>2 DEF One
<1>3. CASE m = 4
  BY <1>3 DEF One
<1>4. CASE m = 8
  BY <1>4 DEF One
<1>5. CASE m = 16
  BY <1>5 DEF One
<1> QED
  BY <1>1, <1>2, <1>3, <1>4, <1>5 DEF Worths

LEMMA SummedIs == ASSUME NEW g \in [Lids -> Nat] PROVE Summed(g) = SumOf(g, Lids)[Lids] /\ Summed(g) \in Nat
<1>1. IsFiniteSet(Lids)
  BY TallyAssumption
<1>2. Summed(g) = SumOf(g, Lids)[Lids]
  BY LibrarySums DEF Summed
<1> QED
  BY <1>1, <1>2, SumNatural

SlotsOf(ls) == [l \in Lids |-> ls[l].slots]
LEMMA TabletSlotsAre ==
    ASSUME TallyTypes
    PROVE  SlotsOf(lines) \in [Lids -> Nat] /\ tabletSlots = SumOf(SlotsOf(lines), Lids)[Lids] /\ tabletSlots \in Nat
<1>1. SlotsOf(lines) \in [Lids -> Nat]
  BY DEF SlotsOf, TallyTypes, Tablets
<1>2. tabletSlots = Summed(SlotsOf(lines))
  BY DEF tabletSlots, SlotsOf
<1> QED
  BY <1>1, <1>2, SummedIs

LEMMA Multiplied == \A a, b \in Nat : a * b \in Nat
  OBVIOUS
LEMMA Divided == \A a \in Nat, b \in Nat \ {0} : a \div b \in Nat
  OBVIOUS

LEMMA WorthIsAmount ==
    ASSUME TallyTypes, NEW n \in Nat, NEW c \in CostCurs
    PROVE  amountWorth(n, c) \in Amounts
<1>1. market[c] \in Worths
  BY DEF TallyTypes
<1>2. market[c] \in Nat
  BY <1>1 DEF Worths
<1>3. n * market[c] \in Nat
  BY <1>2, Multiplied
<1>4. (n * market[c]) \div One \in Nat
  BY <1>3, Divided DEF One
<1> QED
  BY <1>4 DEF amountWorth, Amounts

LEMMA UnitIsAmount ==
    ASSUME TallyTypes, NEW x, x.price \in Amounts, x.cur \in CostCurs, x.link \in Links
    PROVE  unitDiv(x) \in Amounts
<1>1. x.link.div \in Amounts
  BY DEF Links
<1>2. x.price # Unset => x.price \in Nat
  BY DEF Amounts
<1> QED
  BY <1>1, <1>2, WorthIsAmount DEF unitDiv

LEMMA ItemisedIsNatural == ASSUME TallyTypes PROVE itemised \in Nat
<1> DEFINE g == [l \in Lids |-> lineCost(lines[l])]
<1>1. ASSUME NEW l \in Lids PROVE lineCost(lines[l]) \in Nat
  <2> DEFINE x == lines[l]
  <2>1. x \in Tablets /\ maps.count \in Nat
    BY DEF TallyTypes, MapRuns
  <2>2. x.slots \in Nat /\ usesOf(x) \in Nat /\ unitDiv(x) \in Amounts
    BY <2>1, UnitIsAmount, TallyAssumption DEF Tablets, usesOf
  <2> HIDE DEF x
  <2>3. CASE usesOf(x) = 0 \/ unitDiv(x) = Unset
    BY <2>3 DEF lineCost, x
  <2>4. CASE ~(usesOf(x) = 0 \/ unitDiv(x) = Unset)
    <3>1. unitDiv(x) \in Nat /\ usesOf(x) \in Nat \ {0}
      BY <2>2, <2>4 DEF Amounts
    <3>2. maps.count * x.slots * unitDiv(x) \in Nat
      BY <2>1, <2>2, <3>1, Multiplied
    <3>3. (maps.count * x.slots * unitDiv(x)) \div usesOf(x) \in Nat
      BY <3>1, <3>2, Divided
    <3> QED
      BY <2>4, <3>3 DEF lineCost, x
  <2> QED
    BY <2>3, <2>4
<1>2. g \in [Lids -> Nat]
  BY <1>1
<1>3. Summed(g) \in Nat
  BY <1>2, SummedIs
<1>4. Counted(mapsCost) \in Nat
  <2>1. maps.count \in Nat /\ unitDiv(maps) \in Amounts
    BY UnitIsAmount DEF TallyTypes, MapRuns
  <2>2. unitDiv(maps) # Unset => unitDiv(maps) \in Nat /\ maps.count * unitDiv(maps) \in Nat
    BY <2>1, Multiplied DEF Amounts
  <2> QED
    BY <2>1, <2>2 DEF Counted, mapsCost
<1> QED
  BY <1>3, <1>4 DEF itemised

\* An edit of a map's price or a line leaves it one, of as many slots.
Edits(x, new) ==
    /\ x \in MapRuns => new \in MapRuns
    /\ x \in Tablets => new \in Tablets /\ new.kind = x.kind /\ new.slots = x.slots
LEMMA NewPrice == \A x \in MapRuns \cup Tablets, p \in Amounts : Edits(x, [x EXCEPT !.price = p])
  BY DEF Edits, MapRuns, Tablets
LEMMA NewCur == \A x \in MapRuns \cup Tablets, c \in CostCurs : Edits(x, [x EXCEPT !.cur = c])
  BY DEF Edits, MapRuns, Tablets
LEMMA NewLink == \A x \in MapRuns \cup Tablets, k \in Links : Edits(x, [x EXCEPT !.link = k])
  BY DEF Edits, MapRuns, Tablets
LEMMA EditsInTurn == ASSUME NEW x, NEW y, NEW z, Edits(x, y), Edits(y, z) PROVE Edits(x, z)
  BY DEF Edits

LEMMA TheIsThing ==
    ASSUME TallyTypes, NEW y \in Priced
    PROVE  /\ The(y) \in MapRuns \cup Tablets
           /\ The(y).price \in Amounts /\ The(y).cur \in CostCurs /\ The(y).link \in Links
           /\ The(y).link.div \in Amounts
<1>1. The(y) \in MapRuns \cup Tablets
  BY DEF TallyTypes, The, Priced
<1>2. The(y).price \in Amounts /\ The(y).cur \in CostCurs /\ The(y).link \in Links
  BY <1>1 DEF MapRuns, Tablets
<1> QED
  BY <1>1, <1>2 DEF Links

\* Unlinked, what had been found goes on counting.
LEMMA UnlinkedCounts ==
    ASSUME TallyTypes, NEW x \in MapRuns \cup Tablets, x.price = Unset
    PROVE  /\ Edits(x, unlinked(x))
           /\ x.link.div # Unset => unitDiv(unlinked(x)) = x.link.div
<1> DEFINE n == Counted(x.link.div)
<1>1. x.cur \in CostCurs /\ x.link.div \in Amounts /\ n \in Nat
  BY DEF MapRuns, Tablets, Links, Counted, Amounts
<1>2. market[x.cur] \in Worths /\ market["divine"] = 4 /\ 4 \in Worths /\ "divine" \in CostCurs /\ market[x.cur] \in Int
  BY <1>1 DEF TallyTypes, Worths, CostCurs
<1>3. x.link.div # Unset => n = x.link.div
  BY DEF Counted
<1> HIDE DEF n
<1>4. CASE market[x.cur] > 0
  <2> DEFINE p == (n * One) \div market[x.cur]
             u == [x EXCEPT !.price = p]
  <2>1. p \in Nat /\ (p * market[x.cur]) \div One = n /\ (p = 0 => n = 0)
    BY <1>1, <1>2, <1>4, ExactAmount
  <2> HIDE DEF p
  <2>2. u.price = p /\ u.cur = x.cur /\ Edits(x, u)
    BY <2>1, NewPrice DEF MapRuns, Tablets, Amounts
  <2>3. unlinked(x) = u
    BY <1>4 DEF unlinked, p, n
  <2> HIDE DEF u
  <2>4. p # Unset
    BY <2>1 DEF Unset
  <2>5. unitDiv(u) = amountWorth(p, x.cur)
    BY <2>2, <2>4 DEF unitDiv
  <2>6. amountWorth(p, x.cur) = n
    BY <1>4, <2>1 DEF amountWorth
  <2> QED
    BY <1>3, <2>2, <2>3, <2>5, <2>6
<1>5. CASE ~(market[x.cur] > 0)
  <2> DEFINE p == (n * One) \div 4
             v == [x EXCEPT !.price = p]
             u == [v EXCEPT !.cur = "divine"]
  <2>1. p \in Nat /\ (p * 4) \div One = n /\ (p = 0 => n = 0)
    BY <1>1, <1>2, ExactAmount
  <2> HIDE DEF p
  <2>2. v \in MapRuns \cup Tablets /\ Edits(x, v) /\ p \in Amounts
    BY <2>1, NewPrice DEF Edits, Amounts
  <2>3. Edits(v, u)
    BY <1>2, <2>2, NewCur
  <2>4. u.price = p /\ u.cur = "divine" /\ Edits(x, u)
    BY <2>2, <2>3, EditsInTurn DEF MapRuns, Tablets
  <2>5. unlinked(x) = u
    BY <1>5 DEF unlinked, p, n
  <2> HIDE DEF u
  <2>6. p # Unset
    BY <2>1 DEF Unset
  <2>7. unitDiv(u) = amountWorth(p, "divine")
    BY <2>4, <2>6 DEF unitDiv
  <2>8. amountWorth(p, "divine") = n
    BY <1>2, <2>1 DEF amountWorth
  <2> QED
    BY <1>3, <2>4, <2>5, <2>7, <2>8
<1> QED
  BY <1>4, <1>5

\* One thing becomes another: the rest stay, and so do the slots.
LEMMA BecomesKeeps ==
    ASSUME TallyInv, NEW y \in Priced, NEW new, Edits(The(y), new), Becomes(y, new),
           UNCHANGED <<override, market>>, lastCur' \in CostCurs, tallyEdits' \in Nat
    PROVE  /\ TallyInv' /\ The(y)' = new
           /\ \A z \in Priced \ {y} : The(z)' = The(z)
<1>1. /\ maps' \in MapRuns /\ lines' \in [Lids -> Tablets] /\ The(y)' = new
      /\ \A z \in Priced \ {y} : The(z)' = The(z)
      /\ \A l \in Lids : lines'[l].kind = lines[l].kind /\ lines'[l].slots = lines[l].slots
  <2>1. CASE y = "maps"
    BY <2>1, TallyAssumption DEF TallyInv, TallyTypes, Becomes, Edits, The, Priced
  <2>2. CASE y # "maps"
    <3>1. y \in Lids /\ lines' = [lines EXCEPT ![y] = new] /\ maps' = maps /\ The(y) = lines[y] /\ lines[y] \in Tablets
      BY <2>2 DEF Becomes, Priced, The, TallyInv, TallyTypes
    <3>2. new \in Tablets /\ new.kind = lines[y].kind /\ new.slots = lines[y].slots
      BY <3>1 DEF Edits
    <3> QED
      BY <2>2, <3>1, <3>2 DEF TallyInv, TallyTypes, The, Priced
  <2> QED
    BY <2>1, <2>2
<1>2. TallyTypes'
  BY <1>1 DEF TallyInv, TallyTypes
<1>3. SlotsOf(lines') = SlotsOf(lines)
  BY <1>1 DEF SlotsOf
<1>4. tabletSlots' = tabletSlots
  <2>1. tabletSlots = Summed(SlotsOf(lines)) /\ tabletSlots' = Summed(SlotsOf(lines'))
    BY DEF tabletSlots, SlotsOf
  <2> QED
    BY <1>3, <2>1
<1>5. \A l \in Lids : SlotsSound(lines'[l])
  BY <1>1 DEF TallyInv, TabletsFit, SlotsSound
<1>6. tabletSlots' <= MAX_TABLETS
  BY <1>4 DEF TallyInv, TabletsFit
<1> QED
  BY <1>1, <1>2, <1>5, <1>6 DEF TallyInv, TabletsFit

\* A line is added, taken away or given other slots.
LEMMA LineKeeps ==
    ASSUME TallyInv, NEW l \in Lids, NEW x \in Tablets, SlotsSound(x), lines' = [lines EXCEPT ![l] = x],
           tabletSlots - lines[l].slots + x.slots <= MAX_TABLETS,
           UNCHANGED <<maps, override, market, lastCur>>, tallyEdits' \in Nat
    PROVE  TallyInv'
<1>1. TallyTypes /\ TallyTypes'
  BY DEF TallyInv, TallyTypes
<1>2. /\ SlotsOf(lines) \in [Lids -> Nat] /\ SlotsOf(lines') \in [Lids -> Nat]
      /\ \A k \in Lids \ {l} : SlotsOf(lines')[k] = SlotsOf(lines)[k]
      /\ SlotsOf(lines)[l] = lines[l].slots /\ SlotsOf(lines')[l] = x.slots
  BY <1>1 DEF TallyTypes, SlotsOf, Tablets
<1>3. /\ tabletSlots = SumOf(SlotsOf(lines), Lids)[Lids] /\ tabletSlots' = SumOf(SlotsOf(lines'), Lids)[Lids]
  <2>1. tabletSlots = Summed(SlotsOf(lines)) /\ tabletSlots' = Summed(SlotsOf(lines'))
    BY DEF tabletSlots, SlotsOf
  <2> QED
    BY <1>2, <2>1, SummedIs
<1>4. IsFiniteSet(Lids)
  BY TallyAssumption
<1>5. SumOf(SlotsOf(lines'), Lids)[Lids] = SumOf(SlotsOf(lines), Lids)[Lids] + SlotsOf(lines')[l] - SlotsOf(lines)[l]
  <2> DEFINE g == SlotsOf(lines)
             h == SlotsOf(lines')
  <2>1. g \in [Lids -> Nat] /\ h \in [Lids -> Nat] /\ \A k \in Lids \ {l} : h[k] = g[k]
    BY <1>2
  <2> HIDE DEF g, h
  <2>2. SumOf(h, Lids)[Lids] = SumOf(g, Lids)[Lids] + h[l] - g[l]
    BY <1>4, <2>1, SumChanges
  <2> QED
    BY <2>2 DEF g, h
<1>6. tabletSlots \in Nat /\ lines[l].slots \in Nat /\ x.slots \in Nat /\ MAX_TABLETS \in Nat
  BY <1>1, TabletSlotsAre, TallyAssumption DEF TallyTypes, Tablets
<1>7. tabletSlots' <= MAX_TABLETS
  BY <1>2, <1>3, <1>5, <1>6
<1>8. \A k \in Lids : SlotsSound(lines'[k])
  BY DEF TallyInv, TallyTypes, TabletsFit
<1> QED
  BY <1>1, <1>7, <1>8 DEF TallyInv, TabletsFit

LEMMA RestKeeps ==
    ASSUME TallyInv, UNCHANGED lines, maps' \in MapRuns, tallyEdits' \in Nat, lastCur' \in CostCurs,
           override' \in [on : BOOLEAN, amount : Nat, cur : CostCurs],
           market' \in [CostCurs \cup {"unique"} -> Worths], market'["divine"] = 4
    PROVE  TallyInv'
<1>1. TallyTypes'
  BY DEF TallyInv, TallyTypes
<1>2. tabletSlots' = tabletSlots
  <2>1. tabletSlots = Summed(SlotsOf(lines)) /\ tabletSlots' = Summed(SlotsOf(lines'))
    BY DEF tabletSlots, SlotsOf
  <2> QED
    BY <2>1
<1> QED
  BY <1>1, <1>2 DEF TallyInv, TabletsFit

LEMMA TallyStarts == TallyInit => TallyInv
<1> SUFFICES ASSUME TallyInit PROVE TallyInv
  OBVIOUS
<1>1. NoLink \in Links /\ NoLine \in Tablets /\ NoLine.slots = 0 /\ SlotsSound(NoLine)
  BY DEF NoLink, NoLine, Links, Tablets, Amounts, CostCurs, SlotsSound, Unset
<1>2. maps \in MapRuns /\ override \in [on : BOOLEAN, amount : Nat, cur : CostCurs]
  BY <1>1 DEF TallyInit, MapRuns, Amounts, CostCurs
<1>3. MarketPrices \cup {4} \subseteq Worths
  BY TallyAssumption DEF Worths
<1>4. market \in [CostCurs \cup {"unique"} -> Worths] /\ market["divine"] = 4
  <2>1. market \in [CostCurs \cup {"unique"} -> MarketPrices \cup {4}] /\ market["divine"] = 4
    BY DEF TallyInit
  <2> QED
    BY <1>3, <2>1
<1>5. TallyTypes
  BY <1>1, <1>2, <1>4 DEF TallyInit, TallyTypes, CostCurs
<1>6. tabletSlots = 0
  <2> DEFINE g == SlotsOf(lines)
  <2>1. g \in [Lids -> Nat] /\ \A l \in Lids : g[l] = 0
    BY <1>1 DEF TallyInit, SlotsOf
  <2>2. tabletSlots = SumOf(g, Lids)[Lids]
    BY <1>5, TabletSlotsAre
  <2> HIDE DEF g
  <2>3. SumOf(g, Lids)[Lids] = 0
    BY <2>1, SumNatural, TallyAssumption
  <2> QED
    BY <2>2, <2>3
<1> QED
  BY <1>1, <1>5, <1>6, TallyAssumption DEF TallyInv, TabletsFit, TallyInit

\* A search stays linked on whatever is still there.
StaysLinked == \A y \in Priced : The(y).link.on /\ (y # "maps" => There(y)') => The(y)'.link.on
Kept == TallyInv' /\ StartsFromTheTotal /\ KeepsThePrice /\ TypedWins

LEMMA EditKeeps ==
    ASSUME TallyInv, TallyInv', StaysLinked, override'.on => override.on,
           tallyEdits' = tallyEdits + 1 \/ UNCHANGED <<maps, lines, market>>
    PROVE  Kept
<1>1. StartsFromTheTotal
  BY DEF StartsFromTheTotal
<1>2. KeepsThePrice
  <2> SUFFICES ASSUME NEW y \in Priced, The(y).link.div # Unset, ~The(y)'.link.on, y # "maps" => There(y)' PROVE FALSE
    BY DEF KeepsThePrice
  <2>1. The(y).link.on
    BY TheIsThing DEF TallyInv, Links
  <2> QED
    BY <2>1 DEF StaysLinked
<1>3. TypedWins
  <2>1. CASE tallyEdits' = tallyEdits + 1
    BY <2>1 DEF TypedWins, TallyInv, TallyTypes
  <2>2. CASE UNCHANGED <<maps, lines, market>>
    BY <2>2 DEF TypedWins, The, unitDiv, amountWorth
  <2> QED
    BY <2>1, <2>2
<1> QED
  BY <1>1, <1>2, <1>3 DEF Kept

\* A thing edited, its search left or linked anew.
LEMMA ThingKeeps ==
    ASSUME TallyInv, NEW y \in Priced, NEW new, Edits(The(y), new), Becomes(y, new), The(y).link.on => new.link.on,
           UNCHANGED <<override, market>>, lastCur' \in CostCurs, tallyEdits' = tallyEdits + 1
    PROVE  Kept
<1>1. tallyEdits' \in Nat
  BY DEF TallyInv, TallyTypes
<1>2. TallyInv' /\ The(y)' = new /\ \A z \in Priced \ {y} : The(z)' = The(z)
  BY <1>1, BecomesKeeps
<1>3. StaysLinked
  BY <1>2 DEF StaysLinked
<1> QED
  BY <1>2, <1>3, EditKeeps

LEMMA PricedEdits ==
    ASSUME TallyInv, NEW y \in Priced
    PROVE  /\ \A p \in Typed : Types(y, p) => Kept
           /\ Blanks(y) => Kept
           /\ \A c \in CostCurs : setCostCur(y, c) => Kept
           /\ linked(y) => Kept
<1> DEFINE x == The(y)
<1>0. /\ x \in MapRuns \cup Tablets /\ Unset \in Amounts /\ Typed \subseteq Amounts
      /\ TallyTypes /\ lastCur \in CostCurs
  BY TheIsThing DEF TallyInv, Amounts, TallyTypes, Typed, One
<1>1. ASSUME NEW p \in Amounts PROVE Edits(x, [x EXCEPT !.price = p]) /\ [x EXCEPT !.price = p].link = x.link
  BY <1>0, NewPrice DEF MapRuns, Tablets
<1>2. ASSUME NEW c \in CostCurs PROVE Edits(x, [x EXCEPT !.cur = c]) /\ [x EXCEPT !.cur = c].link = x.link
  BY <1>0, NewCur DEF MapRuns, Tablets
<1> DEFINE k == [on |-> TRUE, div |-> Unset]
           v == [x EXCEPT !.price = Unset]
           u == [v EXCEPT !.link = k]
<1>3. Edits(x, u) /\ u.link.on
  <2>1. k \in Links
    BY <1>0 DEF Links
  <2>2. v \in MapRuns \cup Tablets
    BY <1>0, <1>1 DEF Edits
  <2>3. Edits(v, u)
    BY <2>1, <2>2, NewLink
  <2>4. u.link = k
    BY <2>2 DEF MapRuns, Tablets
  <2> QED
    BY <1>0, <1>1, <2>3, <2>4, EditsInTurn
<1>4. u = [x EXCEPT !.price = Unset, !.link = k]
  OBVIOUS
<1>5. ASSUME NEW p \in Typed, Types(y, p) PROVE Kept
  BY <1>0, <1>1, <1>5, ThingKeeps DEF Types, Listed, Edited
<1>6. ASSUME Blanks(y) PROVE Kept
  BY <1>0, <1>1, <1>6, ThingKeeps DEF Blanks, Listed, Edited
<1>7. ASSUME NEW c \in CostCurs, setCostCur(y, c) PROVE Kept
  BY <1>0, <1>2, <1>7, ThingKeeps DEF setCostCur, Listed, Edited
<1>8. ASSUME linked(y) PROVE Kept
  <2>1. Becomes(y, u) /\ UNCHANGED <<override, market>> /\ lastCur' \in CostCurs /\ tallyEdits' = tallyEdits + 1
    BY <1>0, <1>4, <1>8 DEF linked, Listed, Edited
  <2> HIDE DEF u, x
  <2> QED
    BY <1>3, <2>1, ThingKeeps DEF x
<1> QED
  BY <1>5, <1>6, <1>7, <1>8

\* Unlinked, the thing is worth what it was.
LEMMA UnlinkKeeps == ASSUME TallyInv, NEW y \in Priced, Unlink(y) PROVE Kept
<1> DEFINE t == The(y)
           x == IF t.price = Unset THEN unlinked(t) ELSE t
           new == [x EXCEPT !.link = NoLink]
<1>0. TallyTypes /\ t \in MapRuns \cup Tablets /\ t.link.div \in Amounts /\ NoLink \in Links
  BY TheIsThing DEF TallyInv, NoLink, Links, Amounts
<1>1. UNCHANGED <<override, drops, market, lastCur>> /\ tallyEdits' = tallyEdits + 1 /\ Becomes(y, new)
  BY DEF Unlink, Listed, Edited
<1>2. Edits(t, x) /\ x \in MapRuns \cup Tablets
  <2>1. Edits(t, x)
    BY <1>0, UnlinkedCounts DEF Edits
  <2> QED
    BY <1>0, <2>1 DEF Edits
<1>3. t.link.div # Unset => unitDiv(x) = unitDiv(t) /\ x.price # Unset
  <2>1. CASE t.price = Unset
    <3>1. x = unlinked(t) /\ unitDiv(t) = t.link.div
      BY <2>1 DEF unitDiv
    <3>2. t.link.div # Unset => unitDiv(x) = t.link.div
      BY <1>0, <2>1, <3>1, UnlinkedCounts
    <3>3. x.price # Unset
      <4> DEFINE n == Counted(t.link.div)
      <4>1. n \in Nat /\ t.cur \in CostCurs /\ market[t.cur] \in Worths
        BY <1>0 DEF Counted, Amounts, MapRuns, Tablets, TallyTypes
      <4>2. market[t.cur] > 0 => (n * One) \div market[t.cur] \in Nat
        BY <4>1, ExactAmount
      <4>3. (n * One) \div 4 \in Nat
        BY <4>1, ExactAmount DEF Worths
      <4> HIDE DEF n
      <4>4. x.price = (IF market[t.cur] > 0 THEN (n * One) \div market[t.cur] ELSE (n * One) \div 4)
        BY <1>0, <3>1 DEF unlinked, n, MapRuns, Tablets
      <4> QED
        BY <4>2, <4>3, <4>4 DEF Unset
    <3> QED
      BY <3>1, <3>2, <3>3
  <2> QED
    BY <2>1
<1> HIDE DEF x
<1>4. Edits(t, new) /\ new.price = x.price /\ new.cur = x.cur /\ new.link = NoLink
  <2>1. Edits(x, new)
    BY <1>0, <1>2, NewLink
  <2> QED
    BY <1>2, <2>1, EditsInTurn DEF MapRuns, Tablets
<1>5. tallyEdits' \in Nat /\ lastCur' \in CostCurs
  BY <1>0, <1>1 DEF TallyTypes
<1> HIDE DEF new
<1>6. TallyInv' /\ The(y)' = new /\ \A z \in Priced \ {y} : The(z)' = The(z)
  BY <1>1, <1>4, <1>5, BecomesKeeps
<1>7. KeepsThePrice
  <2> SUFFICES ASSUME NEW z \in Priced, The(z).link.div # Unset, ~The(z)'.link.on PROVE unitDiv(The(z))' = unitDiv(The(z))
    BY DEF KeepsThePrice
  <2>1. CASE z = y
    <3>1. The(z)' = new /\ The(z) = t
      BY <1>6, <2>1
    <3>2. unitDiv(x) = amountWorth(x.price, x.cur) /\ unitDiv(x) = unitDiv(t) /\ x.price # Unset
      BY <1>3, <3>1 DEF unitDiv
    <3>3. market' = market
      BY <1>1
    <3>4. unitDiv(The(z))' = amountWorth(x.price, x.cur)
      BY <1>4, <3>1, <3>2, <3>3 DEF unitDiv, amountWorth
    <3> QED
      BY <3>1, <3>2, <3>4
  <2>2. CASE z # y
    <3>1. The(z)' = The(z)
      BY <1>6, <2>2
    <3>2. The(z).link.on
      BY <1>0, TheIsThing DEF Links
    <3> QED
      BY <3>1, <3>2
  <2> QED
    BY <2>1, <2>2
<1>8. StartsFromTheTotal /\ TypedWins
  BY <1>0, <1>1 DEF StartsFromTheTotal, TypedWins, TallyTypes
<1> QED
  BY <1>6, <1>7, <1>8 DEF Kept

\* A price found counts only where none is typed.
LEMMA FoundKeeps ==
    ASSUME TallyInv, NEW y \in Priced, NEW c \in CostCurs, recordLinkPrice(y, 4, c) PROVE Kept
<1> DEFINE x == The(y)
           cur == IF x.price = Unset /\ x.link.div = Unset THEN c ELSE x.cur
           k == [x.link EXCEPT !.div = 4]
           v == [x EXCEPT !.cur = cur]
           new == [v EXCEPT !.link = k]
<1>0. TallyTypes /\ x \in MapRuns \cup Tablets /\ x.cur \in CostCurs /\ x.link \in Links /\ x.link.on
  BY TheIsThing DEF TallyInv, recordLinkPrice
<1>1. UNCHANGED <<override, drops, market, lastCur, tallyEdits>> /\ Becomes(y, new)
  <2>1. new = found(x, 4, c)
    BY <1>0 DEF found, MapRuns, Tablets
  <2> HIDE DEF new, x
  <2> QED
    BY <2>1 DEF recordLinkPrice, x
<1>2. cur \in CostCurs /\ k \in Links /\ k.on
  BY <1>0 DEF Links, Amounts
<1> HIDE DEF cur, k
<1>3. Edits(x, v) /\ v \in MapRuns \cup Tablets /\ v.price = x.price /\ v.cur = cur
  BY <1>0, <1>2, NewCur DEF Edits, MapRuns, Tablets
<1>4. Edits(v, new) /\ new.price = x.price /\ new.cur = cur /\ new.link = k
  BY <1>2, <1>3, NewLink DEF MapRuns, Tablets
<1>5. Edits(x, new)
  BY <1>3, <1>4, EditsInTurn
<1>6. tallyEdits' \in Nat /\ lastCur' \in CostCurs
  BY <1>0, <1>1 DEF TallyTypes
<1> HIDE DEF new, v
<1>7. TallyInv' /\ The(y)' = new /\ \A z \in Priced \ {y} : The(z)' = The(z)
  BY <1>1, <1>5, <1>6, BecomesKeeps
<1>8. KeepsThePrice
  <2> SUFFICES ASSUME NEW z \in Priced, The(z).link.div # Unset, ~The(z)'.link.on PROVE FALSE
    BY DEF KeepsThePrice
  <2>1. The(z).link.on
    BY <1>0, TheIsThing DEF Links
  <2> QED
    BY <1>2, <1>4, <1>7, <2>1
<1>9. TypedWins
  <2> SUFFICES ASSUME NEW z \in Priced, The(z).price # Unset PROVE unitDiv(The(z))' = unitDiv(The(z))
    BY DEF TypedWins
  <2>1. The(z)'.price = The(z).price /\ The(z)'.cur = The(z).cur
    <3>1. CASE z = y
      <4>1. x.price # Unset
        BY <3>1
      <4>2. cur = x.cur
        BY <4>1 DEF cur
      <4> QED
        BY <1>4, <1>7, <3>1, <4>2
    <3> QED
      BY <1>7, <3>1
  <2>2. market' = market
    BY <1>1
  <2> QED
    BY <2>1, <2>2 DEF unitDiv, amountWorth
<1>10. StartsFromTheTotal
  BY <1>1 DEF StartsFromTheTotal
<1> QED
  BY <1>7, <1>8, <1>9, <1>10 DEF Kept

LEMMA LinesKeep ==
    ASSUME TallyInv, NEW l \in Lids
    PROVE  /\ removeTablet(l) => Kept
           /\ \A kind \in DOMAIN TabletTypes : addTablet(l, kind) => Kept
           /\ \A n \in 1..MAX_TABLETS : SetSlots(l, n) => Kept
<1>0. /\ TallyTypes /\ tabletSlots \in Nat /\ MAX_TABLETS \in Nat /\ lines[l] \in Tablets /\ lines[l].slots \in Nat
      /\ lastCur \in CostCurs /\ tallyEdits \in Nat /\ tabletSlots <= MAX_TABLETS /\ SlotsSound(lines[l])
      /\ "none" \notin DOMAIN TabletTypes
  BY TabletSlotsAre, TallyAssumption DEF TallyInv, TallyTypes, TabletsFit, Tablets
<1>1. ASSUME removeTablet(l) PROVE Kept
  <2>1. NoLine \in Tablets /\ NoLine.slots = 0 /\ NoLine.kind = "none"
    BY DEF NoLine, NoLink, Links, Tablets, Amounts, CostCurs, Unset
  <2>2. lines' = [lines EXCEPT ![l] = NoLine] /\ UNCHANGED <<maps, override, market, lastCur>> /\ tallyEdits' = tallyEdits + 1
    BY <1>1 DEF removeTablet, Listed, Edited
  <2> DEFINE x == NoLine
  <2>5. SlotsSound(x) /\ tabletSlots - lines[l].slots + x.slots <= MAX_TABLETS /\ tallyEdits' \in Nat
    BY <1>0, <2>1, <2>2 DEF SlotsSound
  <2>6. x \in Tablets /\ lines' = [lines EXCEPT ![l] = x]
    BY <2>1, <2>2
  <2> HIDE DEF x
  <2>3. TallyInv'
    BY <2>2, <2>5, <2>6, LineKeeps
  <2>4. StaysLinked
    BY <1>0, <2>1, <2>2 DEF StaysLinked, The, There, Priced, TallyTypes
  <2> QED
    BY <2>2, <2>3, <2>4, EditKeeps
<1>2. ASSUME NEW kind \in DOMAIN TabletTypes, addTablet(l, kind) PROVE Kept
  <2> DEFINE x == [NoLine EXCEPT !.kind = kind, !.slots = 1, !.cur = lastCur]
  <2>1. x \in Tablets /\ x.slots = 1 /\ x.kind # "none"
    BY <1>0 DEF NoLine, NoLink, Links, Tablets, Amounts, CostCurs, Unset
  <2>2. /\ lines' = [lines EXCEPT ![l] = x] /\ UNCHANGED <<maps, override, market, lastCur>> /\ tallyEdits' = tallyEdits + 1
        /\ ~There(l) /\ tabletSlots < MAX_TABLETS
    BY <1>2 DEF addTablet, Listed, Edited
  <2> HIDE DEF x
  <2>3. lines[l].slots = 0
    BY <1>0, <2>2 DEF There, SlotsSound
  <2>4. SlotsSound(x)
    BY <1>0, <2>1, <2>2 DEF SlotsSound
  <2>7. tabletSlots - lines[l].slots + x.slots <= MAX_TABLETS /\ tallyEdits' \in Nat
    BY <1>0, <2>1, <2>2, <2>3
  <2>5. TallyInv'
    BY <2>1, <2>2, <2>4, <2>7, LineKeeps
  <2>6. StaysLinked
    BY <1>0, <2>2, TallyAssumption DEF StaysLinked, The, There, Priced, TallyTypes
  <2> QED
    BY <2>2, <2>5, <2>6, EditKeeps
<1>3. ASSUME NEW n \in 1..MAX_TABLETS, SetSlots(l, n) PROVE Kept
  <2> DEFINE s == fit(l, n)
             x == [lines[l] EXCEPT !.slots = s]
  <2>1. There(l) /\ lines[l].slots \in 1..MAX_TABLETS
    BY <1>0, <1>3 DEF SetSlots, There, SlotsSound
  <2>2. s \in 1..MAX_TABLETS /\ tabletSlots - lines[l].slots + s <= MAX_TABLETS
    BY <1>0, <2>1 DEF fit
  <2>3. lines' = [lines EXCEPT ![l].slots = s] /\ UNCHANGED <<maps, override, market, lastCur>> /\ tallyEdits' = tallyEdits + 1
    BY <1>3 DEF SetSlots, Listed, Edited
  <2> HIDE DEF s
  <2>4. x \in Tablets /\ x.slots = s /\ x.kind = lines[l].kind /\ x.link = lines[l].link /\ s \in Nat
    BY <1>0, <2>2 DEF Tablets
  <2>5. lines' = [lines EXCEPT ![l] = x]
    BY <1>0, <2>3 DEF TallyTypes
  <2> HIDE DEF x
  <2>6. SlotsSound(x)
    BY <2>1, <2>2, <2>4 DEF SlotsSound, There
  <2>9. tabletSlots - lines[l].slots + x.slots <= MAX_TABLETS /\ tallyEdits' \in Nat
    BY <1>0, <2>2, <2>3, <2>4
  <2>7. TallyInv'
    BY <2>3, <2>4, <2>5, <2>6, <2>9, LineKeeps
  <2>8. StaysLinked
    BY <1>0, <2>3, <2>4, <2>5 DEF StaysLinked, The, There, Priced, TallyTypes
  <2> QED
    BY <2>3, <2>7, <2>8, EditKeeps
<1> QED
  BY <1>1, <1>2, <1>3

LEMMA CountKeeps ==
    ASSUME TallyInv, NEW n \in Nat, maps' = [maps EXCEPT !.count = n], UNCHANGED <<lines, override, market, lastCur>>,
           tallyEdits' = tallyEdits + 1
    PROVE  Kept
<1>1. maps' \in MapRuns /\ maps'.link = maps.link
  BY DEF TallyInv, TallyTypes, MapRuns
<1>2. TallyInv'
  BY <1>1, RestKeeps DEF TallyInv, TallyTypes
<1>3. StaysLinked
  BY <1>1 DEF StaysLinked, The
<1> QED
  BY <1>2, <1>3, EditKeeps

\* Switched on from nothing typed, the override is what was itemised.
LEMMA OverrideKeeps == ASSUME TallyInv, overrideOn PROVE Kept
<1> DEFINE m == market[override.cur]
           n == IF override.amount > 0 THEN override.amount ELSE IF m > 0 THEN (itemised * One) \div m ELSE 0
<1>0. /\ TallyTypes /\ itemised \in Nat /\ override \in [on : BOOLEAN, amount : Nat, cur : CostCurs] /\ m \in Worths
      /\ market' = market /\ UNCHANGED <<maps, lines, drops, lastCur>> /\ ~override.on /\ tallyEdits' = tallyEdits + 1
  BY ItemisedIsNatural DEF TallyInv, TallyTypes, overrideOn, Edited
<1>1. m > 0 => (itemised * One) \div m \in Nat
  BY <1>0, ExactAmount
<1>2. override' = [override EXCEPT !.on = TRUE, !.amount = n] /\ n \in Nat
  BY <1>0, <1>1 DEF overrideOn
<1>3. override' \in [on : BOOLEAN, amount : Nat, cur : CostCurs] /\ override'.on /\ override'.amount = n /\ override'.cur = override.cur
  BY <1>0, <1>2
<1>4. TallyInv'
  BY <1>0, <1>3, RestKeeps DEF TallyTypes
<1>5. StartsFromTheTotal
  <2> SUFFICES ASSUME override.amount = 0, market[override.cur] > 0 PROVE tallyNet' = tallyNet
    BY DEF StartsFromTheTotal
  <2>1. n = (itemised * One) \div m /\ m > 0
    BY <1>0
  <2>2. n \in Nat /\ (n * m) \div One = itemised /\ (n = 0 => itemised = 0)
    BY <1>0, <2>1, ExactAmount
  <2> HIDE DEF n
  <2>4. overrideCost' = Counted(IF n = 0 THEN 0 ELSE IF m > 0 THEN (n * m) \div One ELSE Unset)
    BY <1>0, <1>3 DEF overrideCost, amountWorth
  <2>5. overrideCost' = itemised
    BY <1>0, <2>1, <2>2, <2>4 DEF Counted, Unset
  <2> DEFINE got == Counted(rowValue(drops.loot)) - Counted(rowValue(drops.fixed))
  <2>6. tallyNet = got - itemised
    BY <1>0 DEF tallyNet
  <2>7. got' = got
    BY <1>0 DEF Counted, rowValue
  <2>8. tallyNet' = got' - overrideCost'
    BY <1>3 DEF tallyNet
  <2> QED
    BY <2>5, <2>6, <2>7, <2>8
<1>6. KeepsThePrice
  <2> SUFFICES ASSUME NEW y \in Priced, The(y).link.div # Unset, ~The(y)'.link.on PROVE FALSE
    BY DEF KeepsThePrice
  <2> QED
    BY <1>0, TheIsThing DEF Links, The
<1>7. TypedWins
  BY <1>0 DEF TypedWins, TallyTypes
<1> QED
  BY <1>4, <1>5, <1>6, <1>7 DEF Kept

\* The total typed, the rows, the market.
LEMMA OthersKeep ==
    ASSUME TallyInv, UNCHANGED <<maps, lines>>, override'.on => override.on, lastCur' \in CostCurs,
           override' \in [on : BOOLEAN, amount : Nat, cur : CostCurs],
           market' \in [CostCurs \cup {"unique"} -> Worths], market'["divine"] = 4,
           tallyEdits' = tallyEdits + 1 \/ UNCHANGED <<market, tallyEdits>>
    PROVE  Kept
<1>1. TallyInv'
  BY RestKeeps DEF TallyInv, TallyTypes
<1>2. StaysLinked
  BY DEF StaysLinked, The
<1> QED
  BY <1>1, <1>2, EditKeeps

LEMMA TallyStep == ASSUME TallyInv, [TallyNext]_tallyVars PROVE Kept
<1> USE DEF Edited, Listed
<1>0. /\ TallyTypes /\ override \in [on : BOOLEAN, amount : Nat, cur : CostCurs] /\ lastCur \in CostCurs /\ maps.count \in Int
      /\ market \in [CostCurs \cup {"unique"} -> Worths] /\ market["divine"] = 4 /\ Typed \subseteq Nat
      /\ MarketPrices \subseteq Worths
  BY TallyAssumption DEF TallyInv, TallyTypes, Typed, One, MapRuns, Worths
<1>1. CASE overrideOn
  BY <1>1, OverrideKeeps
<1>2. CASE OverrideGoesOff
  BY <1>0, <1>2, OthersKeep DEF OverrideGoesOff
<1>3. ASSUME NEW n \in 0..2, SetCount(n) PROVE Kept
  BY <1>3, CountKeeps DEF SetCount
<1>4. ASSUME NEW k \in {1, -1}, addMaps(k) PROVE Kept
  <2>1. maps.count + k \in Nat /\ maps' = [maps EXCEPT !.count = maps.count + k]
    BY <1>4 DEF addMaps
  <2> QED
    BY <1>4, <2>1, CountKeeps DEF addMaps
<1>5. CASE startHold \/ addMaps(-1)
  BY <1>4, <1>5 DEF startHold
<1>6. ASSUME NEW l \in Lids, \/ removeTablet(l)
                             \/ \E kind \in DOMAIN TabletTypes : addTablet(l, kind)
                             \/ \E n \in 1..MAX_TABLETS : SetSlots(l, n)
      PROVE  Kept
  BY <1>6, LinesKeep
<1>7. ASSUME NEW y \in Priced, \/ Blanks(y) \/ linked(y) \/ Unlink(y)
                               \/ \E p \in Typed : Types(y, p)
                               \/ \E c \in CostCurs : setCostCur(y, c) \/ recordLinkPrice(y, 4, c)
      PROVE  Kept
  BY <1>7, PricedEdits, UnlinkKeeps, FoundKeeps
<1>8. ASSUME NEW n \in Typed, SetTotal(n) PROVE Kept
  BY <1>0, <1>8, OthersKeep DEF SetTotal
<1>9. ASSUME NEW c \in CostCurs, TotalIn(c) PROVE Kept
  BY <1>0, <1>9, OthersKeep DEF TotalIn
<1>10. ASSUME NEW r \in {"loot", "fixed"}, \/ \E n \in 0..1 : SetQty(r, n)
                                           \/ \E p \in Typed : setPrice(r, p)
       PROVE  Kept
  BY <1>0, <1>10, OthersKeep DEF SetQty, setPrice
<1>11. CASE recordFloor(4)
  BY <1>0, <1>11, OthersKeep DEF recordFloor
<1>12. ASSUME NEW p \in MarketPrices, PricesPolled(p) PROVE Kept
  <2>1. /\ market' = [market EXCEPT !["chaos"] = p] /\ UNCHANGED <<lines, override, lastCur, maps>>
        /\ tallyEdits' = tallyEdits + 1 /\ p \in Worths
    BY <1>0, <1>12 DEF PricesPolled
  <2>2. market' \in [CostCurs \cup {"unique"} -> Worths] /\ market'["divine"] = 4
    BY <1>0, <2>1 DEF CostCurs
  <2> QED
    BY <1>0, <2>1, <2>2, OthersKeep
<1>13. CASE UNCHANGED tallyVars
  BY <1>0, <1>13, OthersKeep DEF tallyVars
<1> QED
  BY <1>1, <1>2, <1>3, <1>5, <1>6, <1>7, <1>8, <1>9, <1>10, <1>11, <1>12, <1>13 DEF TallyNext

(* The total does not jump by itself, and the tablets fit a map, for any    *)
(* lines, tablets, slots and edits: TotalIsKept of stratcalc.js's tally,    *)
(* in prices that lose no remainder.                                        *)
THEOREM TotalIsKeptEver == TallySpec => TotalIsKept
<1>1. TallyInv => SlotsFit
  BY DEF TallyInv, TabletsFit, SlotsFit, SlotsSound, There
<1>2. TallyInv /\ [TallyNext]_tallyVars
         => TallyInv' /\ [StartsFromTheTotal /\ KeepsThePrice /\ TypedWins /\ SlotsFit']_tallyVars
  <2> SUFFICES ASSUME TallyInv, [TallyNext]_tallyVars
               PROVE  TallyInv' /\ StartsFromTheTotal /\ KeepsThePrice /\ TypedWins /\ SlotsFit'
    OBVIOUS
  <2>1. Kept
    BY TallyStep
  <2>2. TallyInv' => SlotsFit'
    BY <1>1, PTL
  <2> QED
    BY <2>1, <2>2 DEF Kept
<1> QED
  BY TallyStarts, <1>2, PTL DEF TallySpec, TotalIsKept
=============================================================================
