------------------------------ MODULE MCShell -------------------------------
(* The parts of the desktop and of the page, which share no state, checked *)
(* together: a behaviour is one of one part, chosen at the start.          *)
EXTENDS WorkspaceSave, WorkspaceTree, HistoryFeed, ClipCapture

CONSTANT Parts
VARIABLE part

OnlyPart(p) ==
    /\ part = p /\ UNCHANGED part
    /\ p # "save" => UNCHANGED vars
    /\ p # "tree" => UNCHANGED treeVars
    /\ p # "feed" => UNCHANGED feedVars
    /\ p # "clip" => UNCHANGED clipVars

ShellInit ==
    /\ part \in Parts
    /\ Init /\ TreeInit /\ FeedInit
    /\ ClipInit /\ (part # "clip" => ~ee2.here)

ShellNext ==
    \/ OnlyPart("save") /\ Next
    \/ OnlyPart("tree") /\ TreeNext
    \/ OnlyPart("feed") /\ FeedNext
    \/ OnlyPart("clip") /\ ClipNext

ShellSpec == ShellInit /\ [][ShellNext]_<<part, vars, treeVars, feedVars, clipVars>>

(* Timeouts run, requests are answered or fail, processes make progress    *)
(* and EE2 is looked for again and again.  Nobody has to edit, load, hide, *)
(* reload, quit, check an item, or bind a key.                             *)
On(p) == part = p
FairSpec ==
    /\ ShellSpec
    /\ WF_vars(On("save") /\ Running /\ Tick)
    /\ WF_vars(On("save") /\ Running /\ DebounceFires)
    /\ WF_vars(On("save") /\ Running /\ Network)
    /\ \A w \in Workers : WF_feedVars(On("feed") /\ WorkerSteps(w))
    /\ \A k \in FeedItems : WF_feedVars(On("feed") /\ TimesOut(k))
    /\ WF_clipVars(On("clip") /\ Detects)
    /\ WF_clipVars(On("clip") /\ EvaluatePresence)
    /\ WF_clipVars(On("clip") /\ Realigns)

(* The watching of EE2 goes on: every checked item is settled and comes in *)
(* its turn, EE2's presence and its combos are followed, and the clipboard *)
(* is polled as often as the hook's silence asks for (worker-host.js,      *)
(* exiled-exchange/index.js, ee2-config.js, capture.js).                   *)
WatchGoesOn ==
    /\ EveryItemSettles /\ PresenceFollowed /\ RebindsFollowed
    /\ [](CadenceFits /\ IntentsInOrder)
=============================================================================
