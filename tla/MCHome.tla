------------------------------- MODULE MCHome -------------------------------
(* Parts of the page and of the desktop around it, which share no state,   *)
(* checked together: the strat calculator, the Stash tab, the shell's own  *)
(* life and its problem reports.  A behaviour is one of one part.          *)
EXTENDS StratCalc, Stash, Lifecycle, Feedback

CONSTANT Parts
VARIABLE part

\* One makes more of strats and folders, one shares them and comes back.
MakesOrShares == {[shares |-> FALSE, types |-> FALSE, acts |-> 5, visits |-> 1],
                  [shares |-> TRUE, types |-> TRUE, acts |-> 3, visits |-> 2]}

TwoScreens == <<"board", "stash">>

OnlyPart(p) ==
    /\ part = p /\ UNCHANGED part
    /\ p # "calc" => UNCHANGED calcVars
    /\ p # "stash" => UNCHANGED stashVars
    /\ p # "life" => UNCHANGED lifeVars
    /\ p # "report" => UNCHANGED feedbackVars

\* A part that is not taken starts in one state only.
Idle(p, first) == part # p => first
HomeInit ==
    /\ part \in Parts
    /\ CalcInit /\ Idle("calc", calcUser = CHOOSE u \in CalcUsers : TRUE)
    /\ StashInit
    /\ LifeInit /\ Idle("life", current /\ site = "signedIn")
    /\ FeedbackInit /\ Idle("report", reports = <<>>)

HomeNext ==
    \/ OnlyPart("calc") /\ CalcNext
    \/ OnlyPart("stash") /\ StashNext
    \/ OnlyPart("life") /\ LifeNext
    \/ OnlyPart("report") /\ FeedbackNext

homeVars == <<part, calcVars, stashVars, lifeVars, feedbackVars>>
HomeSpec == HomeInit /\ [][HomeNext]_homeVars

(* Timers fire and the system tells of a process that ended.  The user has *)
(* to do nothing.                                                          *)
On(p) == part = p
FairHome ==
    /\ HomeSpec
    /\ WF_lifeVars(On("life") /\ \E p \in exits : ExitTold(p))
    /\ WF_lifeVars(On("life") /\ Restarts)
=============================================================================
