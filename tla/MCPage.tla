------------------------------- MODULE MCPage -------------------------------
(* Parts of the page which share no state, checked together: the settings, *)
(* the colour theme and its tables, the Regex page, the screens, the       *)
(* notices, the inbox of signals, the trade window, a strat's tally - and    *)
(* the release of the desktop.  A behaviour is one of one part, chosen at the start.      *)
EXTENDS Settings, Theme, ThemeColors, SearchString, Release, Navigation, Toasts, Signals, TradeWindow, StratTally

CONSTANT Parts
TabletKinds == [any |-> 2, odd |-> 0]
VARIABLE part

OnlyPart(p) ==
    /\ part = p /\ UNCHANGED part
    /\ p # "settings" => UNCHANGED settingsVars
    /\ p # "theme" => UNCHANGED themeVars
    /\ p # "colors" => UNCHANGED colorVars
    /\ p # "ask" => UNCHANGED askVars
    /\ p # "release" => UNCHANGED releaseVars
    /\ p # "nav" => UNCHANGED navVars
    /\ p # "toasts" => UNCHANGED toastVars
    /\ p # "signals" => UNCHANGED signalVars
    /\ p # "window" => UNCHANGED windowVars
    /\ p # "tally" => UNCHANGED tallyVars

\* A part that is not taken starts in one state only.
Idle(p, first) == part # p => first
PageInit ==
    /\ part \in Parts
    /\ SettingsInit
    /\ ThemeInit /\ Idle("theme", mirror = Look(DEFAULT_THEME, NoTable) /\ saved.customs = CHOOSE f \in OneOfMine : TRUE)
    /\ ColorsInit /\ Idle("colors", \A k \in PRIMARY_KEYS : colors[k] = 0)
    /\ AskInit /\ Idle("ask", ask = Defaults)
    /\ ReleaseInit /\ NavInit /\ ToastsInit /\ WindowInit
    /\ SignalsInit /\ Idle("signals", fired = {})
    /\ TallyInit /\ Idle("tally", market.chaos = 4)

PageNext ==
    \/ OnlyPart("settings") /\ SettingsNext
    \/ OnlyPart("theme") /\ ThemeNext
    \/ OnlyPart("colors") /\ ColorsNext
    \/ OnlyPart("ask") /\ AskNext
    \/ OnlyPart("release") /\ ReleaseNext
    \/ OnlyPart("nav") /\ NavNext
    \/ OnlyPart("toasts") /\ ToastsNext
    \/ OnlyPart("signals") /\ SignalsNext
    \/ OnlyPart("window") /\ WindowNext
    \/ OnlyPart("tally") /\ TallyNext

pageSumVars == <<part, settingsVars, themeVars, colorVars, askVars, releaseVars, navVars, toastVars, signalVars, windowVars, tallyVars>>
PageSpec == PageInit /\ [][PageNext]_pageSumVars
=============================================================================
