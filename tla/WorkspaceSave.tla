---------------------------- MODULE WorkspaceSave ----------------------------
(***************************************************************************)
(* How the Trading workspace reaches the disk: the store's save lifecycle  *)
(* (frontend/src/lib/workspaceStore.js), the PUT and GET it sends to the   *)
(* backend, reloads of the page, and main's quit sequence                  *)
(* (desktop/src/main.js), which asks for one last flush.                   *)
(*                                                                         *)
(* A document is the set of edits it contains: whatever an edit does       *)
(* (rename, move, delete, arm), it must be in every later document.        *)
(***************************************************************************)
EXTENDS Integers, Sequences, SequencesExt

CONSTANTS
    MaxEdits,    \* bound: edits made in a behaviour
    MaxWire,     \* bound: requests on their way at once
    Failures,    \* may requests fail while the backend is up?
    Prompt       \* are requests handled in the order they were sent, do loads
                 \* that succeed answer before the first save goes out, and
                 \* does nobody edit between hydrate and its timeout?

ASSUME BoundsAssumption == MaxEdits \in Nat /\ MaxWire \in Nat
ASSUME ModesAssumption == Failures \in BOOLEAN /\ Prompt \in BOOLEAN

VARIABLES
    doc,         \* the tree in the store
    loaded,      \* no; yes; or failed: an empty tree that is not the user's
    armed,       \* saves are on (set one tick after hydrate)
    ticks,       \* hydrate's setTimeout(0) calls still to run
    queue,       \* pendingIntents: edits that arrived before the document
    timer,       \* saveTimer: none, set (the save is scheduled), or stale (cleared
                 \* by a failed load, which leaves the variable as it was)
    saveState,   \* the dot: idle, dirty, saving or error
    wire,        \* requests on their way, in the order they were sent
    server,      \* the document in user.sqlite
    made,        \* how many edits were made
    backend,     \* up, dying (told to stop) or down
    owed,        \* history: what the store held when the user quit
    quit         \* no, asked (ws:flush sent), flushing, flushed or expired (1 s)

page == <<doc, loaded, armed, ticks, queue, timer, saveState>>
main == <<backend, quit, owed>>
vars == <<page, wire, server, made, main>>

Edits == 1..MaxEdits
Request == [kind : {"load", "put"}, doc : SUBSET Edits, mine : BOOLEAN, last : BOOLEAN]

TypeOK ==
    /\ doc \subseteq Edits /\ queue \subseteq Edits /\ server \subseteq Edits /\ owed \subseteq Edits
    /\ loaded \in {"no", "yes", "failed"} /\ armed \in BOOLEAN
    /\ ticks \in 0..MaxWire /\ timer \in {"none", "set", "stale"}
    /\ saveState \in {"idle", "dirty", "saving", "error"}
    /\ wire \in Seq(Request) /\ Len(wire) <= MaxWire
    /\ made \in 0..MaxEdits
    /\ backend \in {"up", "dying", "down"}
    /\ quit \in {"no", "asked", "flushing", "flushed", "expired"}

NewPage ==
    /\ doc' = {} /\ loaded' = "no" /\ armed' = FALSE /\ ticks' = 0
    /\ queue' = {} /\ timer' = "none" /\ saveState' = "idle"

Init ==
    /\ doc = {} /\ loaded = "no" /\ armed = FALSE /\ ticks = 0
    /\ queue = {} /\ timer = "none" /\ saveState = "idle"
    /\ wire = <<>> /\ server = {} /\ made = 0
    /\ backend = "up" /\ quit = "no" /\ owed = {}
-----------------------------------------------------------------------------
PutOf(last) == [kind |-> "put", doc |-> doc, mine |-> TRUE, last |-> last]

Puts == {k \in DOMAIN wire : wire[k].kind = "put"}

PersistOnce ==   \* mutant: an edit while a save is under way schedules none of its own
    IF armed /\ loaded = "yes"
    THEN saveState' = "dirty" /\ timer' = IF saveState = "saving" THEN timer ELSE "set"
    ELSE UNCHANGED <<saveState, timer>>

(* persist(): nothing before arming or after a failed load, else the dot   *)
(* turns dirty and the debounce starts again.                              *)
Persist ==
    IF armed /\ loaded = "yes"
    THEN saveState' = "dirty" /\ timer' = "set"
    ELSE UNCHANGED <<saveState, timer>>

SaveUnguarded(last) ==   \* mutant: a failed load does not stop the saves
    /\ timer' = "none"
    /\ saveState' = "saving"
    /\ wire' = Append(wire, PutOf(last))

(* save(): cancels the debounce; PUTs what the store holds now.            *)
Save(last) ==
    /\ timer' = "none"
    /\ IF armed /\ loaded = "yes"
       THEN saveState' = "saving" /\ wire' = Append(wire, PutOf(last))
       ELSE UNCHANGED <<saveState, wire>>

(* flush(): saves unless there is nothing to save.                         *)
Flush(last) ==
    IF timer # "none" \/ saveState # "idle" THEN Save(last) ELSE UNCHANGED <<timer, saveState, wire>>

(* Any of the store's mutations.                                           *)
Edit ==
    /\ loaded = "yes" /\ (Prompt => armed) /\ made < MaxEdits
    /\ made' = made + 1
    /\ doc' = doc \cup {made'}
    /\ Persist
    /\ UNCHANGED <<loaded, armed, ticks, queue, wire, server, main>>

(* ingest() before the document is there: kept for later.                  *)
IngestEarly ==
    /\ loaded = "no" /\ made < MaxEdits
    /\ made' = made + 1
    /\ queue' = queue \cup {made'}
    /\ UNCHANGED <<doc, loaded, armed, ticks, timer, saveState, wire, server, main>>

(* loadWorkspace(): by each of the hooks that find no document, or Retry.  *)
Load ==
    /\ loaded # "yes" /\ Len(wire) + ticks < MaxWire
    /\ wire' = Append(wire, [kind |-> "load", doc |-> {}, mine |-> TRUE, last |-> FALSE])
    /\ UNCHANGED <<page, server, made, main>>

(* hydrate's timeout: saves are on, the early intents are applied, or, in  *)
(* a page whose other load has failed meanwhile, dropped.                  *)
Tick ==
    /\ ticks > 0
    /\ ticks' = ticks - 1
    /\ armed' = TRUE
    /\ queue' = {}
    /\ IF loaded = "yes" /\ queue # {}
       THEN doc' = doc \cup queue /\ saveState' = "dirty" /\ timer' = "set"
       ELSE UNCHANGED <<doc, saveState, timer>>
    /\ UNCHANGED <<loaded, wire, server, made, main>>

DebounceFires ==
    /\ timer = "set" /\ Len(wire) < MaxWire
    /\ Save(FALSE)
    /\ UNCHANGED <<doc, loaded, armed, ticks, queue, server, made, main>>

(* The tab is hidden.                                                      *)
Hide ==
    /\ Len(wire) < MaxWire
    /\ Flush(FALSE)
    /\ UNCHANGED <<doc, loaded, armed, ticks, queue, server, made, main>>

(* The page reloads: a flush on pagehide, and its memory is gone.          *)
Reload ==
    /\ quit = "no" /\ Len(wire) < MaxWire
    /\ NewPage
    /\ LET sent == IF (timer # "none" \/ saveState # "idle") /\ armed /\ loaded = "yes"
                   THEN Append(wire, PutOf(FALSE)) ELSE wire
       IN wire' = [k \in DOMAIN sent |-> [sent[k] EXCEPT !.mine = FALSE]]
    /\ UNCHANGED <<server, made, main>>
-----------------------------------------------------------------------------
(* The backend handles a request that is on its way.                       *)
Handled(k, kind) ==
    /\ backend # "down"
    /\ k \in DOMAIN wire /\ wire[k].kind = kind
    /\ Prompt => k = 1
    /\ wire' = RemoveAt(wire, k)

(* The load answers: hydrate, if the page that asked is still there.       *)
LoadAnswers(k) ==
    /\ Handled(k, "load")
    /\ Prompt => \A p \in Puts : ~wire[p].mine
    /\ IF wire[k].mine
       THEN /\ doc' = server /\ loaded' = "yes" /\ armed' = FALSE
            /\ ticks' = ticks + 1 /\ saveState' = "idle"
            /\ UNCHANGED <<queue, timer>>
       ELSE UNCHANGED page
    /\ UNCHANGED <<server, made, main>>

(* failLoad(): an empty tree, disarmed, the debounce cancelled.            *)
FailLoad ==
    /\ doc' = {} /\ loaded' = "failed" /\ saveState' = "idle" /\ armed' = FALSE
    /\ timer' = IF timer = "none" THEN "none" ELSE "stale"

(* A PUT answered: an edit made meanwhile keeps its own dot.               *)
IdleIfSaving == saveState' = IF saveState = "saving" THEN "idle" ELSE saveState

Answered(k, Dot) ==
    IF wire[k].mine THEN Dot /\ UNCHANGED <<doc, loaded, armed, ticks, queue, timer>>
                    ELSE UNCHANGED page

PutAnswers(k) ==
    /\ Handled(k, "put")
    /\ server' = wire[k].doc
    /\ Answered(k, IdleIfSaving)
    /\ UNCHANGED <<made, main>>

(* The PUT was stored and its answer lost.                                 *)
PutAnswerLost(k) ==
    /\ Failures
    /\ Handled(k, "put")
    /\ server' = wire[k].doc
    /\ Answered(k, saveState' = "error")
    /\ UNCHANGED <<made, main>>

(* A request fails, at any time: refused, timed out, or no backend.        *)
Fails(k) ==
    /\ Failures \/ backend = "down"
    /\ k \in DOMAIN wire
    /\ wire' = RemoveAt(wire, k)
    /\ IF wire[k].kind = "put"
       THEN Answered(k, saveState' = "error")
       ELSE IF wire[k].mine THEN FailLoad /\ UNCHANGED <<ticks, queue>> ELSE UNCHANGED page
    /\ UNCHANGED <<server, made, main>>
-----------------------------------------------------------------------------
(* before-quit: the first listener holds the quit and asks the page to     *)
(* flush; the second, in the same emit, stops the backend.                 *)
BeforeQuit ==
    /\ quit = "no"
    /\ quit' = "asked"
    /\ owed' = doc
    /\ backend' = "dying"
    /\ UNCHANGED <<page, wire, server, made>>

BackendDies ==
    /\ backend = "dying"
    /\ backend' = "down"
    /\ UNCHANGED <<page, wire, server, made, quit, owed>>

(* The page hears ws:flush.                                                *)
FlushForQuit ==
    /\ quit = "asked" /\ Len(wire) < MaxWire
    /\ quit' = "flushing"
    /\ Flush(TRUE)
    /\ UNCHANGED <<doc, loaded, armed, ticks, queue, server, made, backend, owed>>

(* ws:flushed, once the flush has settled either way: the app ends.        *)
Flushed ==
    /\ quit = "flushing" /\ \A p \in Puts : ~wire[p].last
    /\ quit' = "flushed"
    /\ UNCHANGED <<page, wire, server, made, backend, owed>>

(* Or 1 s is over first.                                                   *)
QuitTimeout ==
    /\ quit = "asked" \/ (quit = "flushing" /\ \E p \in Puts : wire[p].last)
    /\ quit' = "expired"
    /\ UNCHANGED <<page, wire, server, made, backend, owed>>

Running == quit \in {"no", "asked", "flushing"}

Store == Edit \/ IngestEarly \/ Load \/ Tick \/ DebounceFires \/ Hide \/ Reload

Network ==
    \E k \in DOMAIN wire : LoadAnswers(k) \/ PutAnswers(k) \/ PutAnswerLost(k) \/ Fails(k)

Quitting == BeforeQuit \/ BackendDies \/ FlushForQuit \/ Flushed \/ QuitTimeout

Next == Running /\ (Store \/ Network \/ Quitting)

Spec == Init /\ [][Next]_vars
-----------------------------------------------------------------------------

(* What reached the disk stays: no later save, load, failure or reload     *)
(* writes a document without it.                                           *)
SavedStays == server \subseteq server'

(* The dot is honest: idle, with no PUT on its way, means that what the    *)
(* user sees is what the disk holds.                                       *)
IdleIsSaved ==
    (loaded = "yes" /\ armed /\ saveState = "idle" /\ Puts = {}) => doc = server

(* What was saved stays saved, and the dot says so (workspaceStore.js):    *)
(* every step keeps what the disk held and leads to an honest dot.         *)
SavesHold == [][SavedStays /\ IdleIsSaved']_vars

(* An edit in the store reaches the disk, or the dot turns to error, or    *)
(* the document it was made in is gone (a reload, a failed load, a quit).  *)
EditsSaved ==
    \A e \in Edits :
        e \in doc ~> (e \in server \/ saveState = "error" \/ e \notin doc \/ quit # "no")

(* "Give the renderer a beat to flush its debounced workspace save before  *)
(* we go" (main.js): once the page said the flush is through, within its   *)
(* second, what the store held when the user quit is on the disk.          *)
QuitSaves == quit = "flushed" => (owed \cap doc) \subseteq server
=============================================================================
