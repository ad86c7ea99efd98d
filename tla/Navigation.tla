----------------------------- MODULE Navigation -----------------------------
(* The screens of the page: tabs, the sub-views some of them hold, and the  *)
(* requests which lead to one.  A tab's view is made anew each time it is   *)
(* shown, and may be made only after the event that asks for its sub-view.  *)
EXTENDS Integers, Sequences

CONSTANTS MaxNavs   \* bound: requests and clicks

VARIABLES
    tab,       \* App's tab
    drawn,     \* the tab React has drawn
    sub,       \* the sub-view the drawn tab shows
    pending,   \* pendingTrading
    timers,    \* calls put off with setTimeout(.., 0), in order
    subs,      \* section -> the sub-view it last reported
    hunts,     \* screens whose control a command looks for
    asked,     \* the screen last asked for; its sub may be left open
    navs

navVars == <<tab, drawn, sub, pending, timers, subs, hunts, asked, navs>>

None == "none"
\* A section's sub-views, the one it opens on first.
DESTS == [Board |-> <<None>>, Stash |-> <<"stash", "calc">>, Economy |-> <<"hold", "market">>, Trading |-> <<"workspace", "live", "regex">>]
TABS == DOMAIN DESTS
subsOf(t) == {DESTS[t][i] : i \in DOMAIN DESTS[t]}
Screens == UNION {{[section |-> t, sub |-> s] : s \in subsOf(t)} : t \in TABS}

\* openTrading keeps what it asked for; a Trading view made later takes it.
forgets(s) == None
keptForLater(s) == s
consumePendingTrading == IF pending = None THEN "workspace" ELSE pending
\* What is on the screen once React has drawn t.
ViewMade(t) ==
    /\ drawn' = t
    /\ IF t = drawn THEN UNCHANGED <<sub, pending, subs>>
       ELSE /\ sub' = (IF t = "Trading" THEN consumePendingTrading ELSE DESTS[t][1])
            /\ pending' = IF t = "Trading" THEN None ELSE pending
            /\ subs' = [subs EXCEPT ![t] = sub']

NavInit ==
    /\ tab = "Board" /\ drawn = "Board" /\ sub = None /\ pending = None /\ timers = <<>>
    /\ subs = [t \in TABS |-> None] /\ hunts = {} /\ asked = [section |-> "Board", sub |-> None] /\ navs = 0

\* A timer of no delay has run before anything else is asked for.
AsksFor(t, s) == timers = <<>> /\ navs < MaxNavs /\ navs' = navs + 1 /\ asked' = [section |-> t, sub |-> s]
\* React draws what a click asked for before anything else runs.
Click(t) == tab' = t /\ ViewMade(t)

TabClick(t) == AsksFor(t, None) /\ Click(t) /\ UNCHANGED <<timers, hunts>>
SubClick(s) ==
    /\ s # None /\ tab = drawn /\ s \in subsOf(drawn) /\ AsksFor(drawn, s)
    /\ sub' = s /\ subs' = [subs EXCEPT ![drawn] = s]
    /\ UNCHANGED <<tab, drawn, pending, timers, hunts>>
\* A command, or a button that leads elsewhere.
Leads(d) ==
    /\ AsksFor(d.section, d.sub) /\ Click(d.section)
    /\ timers' = IF d.sub = None THEN timers ELSE Append(timers, d)
goSub(d) == Leads(d) /\ UNCHANGED hunts
\* A command that then works a control there.
goScreen(d) == Leads(d) /\ hunts' = hunts \cup {d}

openTrading(s) ==
    /\ IF drawn = "Trading" THEN sub' = s /\ subs' = [subs EXCEPT !.Trading = s] ELSE UNCHANGED <<sub, subs>>
    /\ pending' = keptForLater(s)
openSub(d) ==
    /\ IF drawn = d.section THEN sub' = d.sub /\ subs' = [subs EXCEPT ![d.section] = d.sub] ELSE UNCHANGED <<sub, subs>>
    /\ UNCHANGED pending
TimerFires ==
    /\ timers # <<>> /\ timers' = Tail(timers)
    /\ IF Head(timers).section = "Trading" THEN openTrading(Head(timers).sub) ELSE openSub(Head(timers))
    /\ UNCHANGED <<tab, drawn, hunts, asked, navs>>
\* The hotkey or a notification, from outside the page: drawn a little later.
goLive ==
    /\ AsksFor("Trading", "live") /\ openTrading("live") /\ tab' = "Trading"
    /\ UNCHANGED <<drawn, timers, hunts>>
Draws == tab # drawn /\ ViewMade(tab) /\ UNCHANGED <<tab, timers, hunts, asked, navs>>

\* Once its screen is drawn the control is worked; after a while it is given up.
runTarget(d) ==
    /\ d \in hunts /\ hunts' = hunts \ {d}
    /\ UNCHANGED <<tab, drawn, sub, pending, timers, subs, asked, navs>>

NavNext ==
    \/ TimerFires \/ goLive \/ Draws
    \/ \E t \in TABS : TabClick(t)
    \/ \E d \in Screens : SubClick(d.sub) \/ goSub(d) \/ goScreen(d) \/ runTarget(d)
NavSpec == NavInit /\ [][NavNext]_navVars

-----------------------------------------------------------------------------
Settled == tab = drawn /\ timers = <<>>
\* The screen the palette lists the actions of.
screen == [section |-> tab, sub |-> subs[tab]]

(* Where the page comes to rest it shows the screen last asked for, however *)
(* the views were made meanwhile, and the palette knows which one it is     *)
(* (App.jsx:152-155).                                                       *)
AskedScreenShows ==
    Settled => /\ tab = asked.section /\ (asked.sub # None => sub = asked.sub)
               /\ screen.sub = sub
=============================================================================
