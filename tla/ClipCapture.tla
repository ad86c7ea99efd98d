----------------------------- MODULE ClipCapture -----------------------------
(***************************************************************************)
(* Seeing which item the player checks: the ExiledExchange2 integration    *)
(* (desktop/src/integrations/exiled-exchange: index.js, clipboard-watcher, *)
(* hotkey-watcher, ee2-config, detect).  A price check puts the item on    *)
(* the clipboard for a moment and restores what was there.  Arbiter hooks  *)
(* the keyboard for EE2's combos and reads the clipboard in a burst when   *)
(* one is pressed, beside a poll, which is fast when the hook is deaf.     *)
(* Items that hash alike are one item here.                                *)
(***************************************************************************)
EXTENDS Integers, FiniteSets

CONSTANTS Items,
          MaxChecks,    \* price checks made with EE2's hotkey
          MaxCopies,    \* plain copies, of items or other text
          MaxComings    \* how often EE2 comes or goes, or is given another combo

ASSUME ItemsAssumption == Items \cap {"text", "nothing"} = {}

VARIABLES ee2,      \* is EE2 here, and which combo is bound in it
          seen,     \* the detection: asked, or what it found and was not acted on yet
          mode,     \* are the observers up?
          hook,     \* the keyboard hook
          poll,     \* the clipboard watcher
          burst,    \* the reads after a hotkey
          board,    \* the clipboard
          flow,     \* EE2's price check
          last,     \* _lastEmit, while it is younger than 1.5 s
          unreported, \* ghost: items copied and not reported since
          counts

clipVars == <<ee2, seen, mode, hook, poll, burst, board, flow, last, unreported, counts>>
observers == <<hook, poll, burst, mode>>

Text == "text"           \* anything that is no item
Nothing == "nothing"
NoHook == [ok |-> FALSE, deaf |-> FALSE, saw |-> FALSE, timer |-> FALSE, combo |-> 0, changed |-> FALSE]
NoPoll == [pc |-> "off", fast |-> FALSE, at |-> Nothing]
IsItem(x) == x \in Items  \* looks like one, and parses to one with a name
NoBurst == [pc |-> "off", base |-> Nothing, got |-> FALSE]
NoFlow == [pc |-> "idle", item |-> Nothing, prev |-> Nothing, due |-> FALSE]

-----------------------------------------------------------------------------
(* Presence (index.js start, _evaluatePresence, _activate, _deactivate). *)

\* The detection takes a while; what it found is acted on at its end.
Detects ==
    /\ seen = "asked"
    /\ seen' = IF ee2.here THEN "found" ELSE "missing"
    /\ UNCHANGED <<ee2, observers, board, flow, last, unreported, counts>>

Shortcuts == ee2.combo      \* readShortcuts: what EE2's configuration says now
Hooking(h, combo) == [h EXCEPT !.combo = IF h.ok THEN combo ELSE 0]    \* setShortcuts
Paced(p, fast) == [p EXCEPT !.fast = fast]      \* setIntervalMs

\* Degraded: the poll takes over from a hook that did not load.
Activated(ok, deaf, mac) ==
    /\ mode' = "active"
    /\ hook' = Hooking([NoHook EXCEPT !.ok = ok, !.deaf = deaf, !.timer = ok /\ mac], Shortcuts)
    /\ poll' = Paced([NoPoll EXCEPT !.pc = "seeding"], ~ok)
    /\ UNCHANGED burst

Deactivated ==
    /\ mode' = "idle" /\ hook' = NoHook /\ poll' = NoPoll /\ UNCHANGED burst

Detected(found)     == (mode = "active") = found

\* A check under way while the observers come or go is no one's promise.
EvaluatePresence ==
    /\ seen # "asked"
    /\ LET found == seen = "found"
       IN IF Detected(found) THEN UNCHANGED <<observers, flow>>
          ELSE /\ flow' = [flow EXCEPT !.due = FALSE]
               /\ IF found
                  THEN \E ok, deaf, mac \in BOOLEAN : (deaf => mac) /\ (mac => ok) /\ Activated(ok, deaf, mac)
                  ELSE Deactivated
    /\ seen' = "asked"
    /\ UNCHANGED <<ee2, board, last, unreported, counts>>

-----------------------------------------------------------------------------
(* The hook (hotkey-watcher.js, ee2-config.js watchConfig). *)

Relaxed(p) == Paced(p, FALSE)               \* _relaxClipboard

\* onFirstKey: keys do arrive.
FirstKey ==
    /\ hook.ok /\ ~hook.deaf /\ ~hook.saw
    /\ hook' = [hook EXCEPT !.saw = TRUE]
    /\ poll' = IF poll.pc = "off" THEN poll ELSE Relaxed(poll)
    /\ UNCHANGED <<ee2, seen, mode, burst, board, flow, last, unreported, counts>>

\* No key within HEALTH_MS: _degradeToClipboard.
HealthTimer ==
    /\ hook.timer
    /\ hook' = [hook EXCEPT !.timer = FALSE]
    /\ poll' = IF hook.saw THEN poll ELSE Paced(poll, TRUE)
    /\ UNCHANGED <<ee2, seen, mode, burst, board, flow, last, unreported, counts>>

\* The user binds another combo; the config is read again a moment later.
Rebinds ==
    /\ ee2.here /\ flow.pc = "idle" /\ counts.comings < MaxComings
    /\ ee2' = [ee2 EXCEPT !.combo = 1 - @]
    /\ hook' = IF hook.ok THEN [hook EXCEPT !.changed = TRUE] ELSE hook
    /\ counts' = [counts EXCEPT !.comings = @ + 1]
    /\ UNCHANGED <<seen, mode, poll, burst, board, flow, last, unreported>>

RealignsHook    == hook' = [Hooking(hook, Shortcuts) EXCEPT !.changed = FALSE]
Realigns ==
    /\ hook.changed /\ RealignsHook
    /\ UNCHANGED <<ee2, seen, mode, poll, burst, board, flow, last, unreported, counts>>

-----------------------------------------------------------------------------
(* Reporting an item (_emitItem). *)

Reports(x) ==
    IF last = x THEN UNCHANGED <<last, unreported>>
    ELSE /\ last' = x /\ unreported' = unreported \ {x}

\* 1.5 s pass, which is longer than a check.
LastFades ==
    /\ last # Nothing /\ flow.pc = "idle" /\ last' = Nothing
    /\ UNCHANGED <<ee2, seen, observers, board, flow, unreported, counts>>

-----------------------------------------------------------------------------
(* The poll (ClipboardWatcher) and the burst (captureItemBurst). *)

Seeds ==
    /\ poll.pc = "seeding"
    /\ poll' = [poll EXCEPT !.pc = "on", !.at = board]
    /\ UNCHANGED <<ee2, seen, mode, hook, burst, board, flow, last, unreported, counts>>

\* A tick reports what was not there at the tick before, if it is an item.
TickDue == poll.pc = "on" /\ board \notin {Nothing, poll.at}

Ticks ==
    /\ TickDue
    /\ poll' = [poll EXCEPT !.at = board]
    /\ IF IsItem(board) THEN Reports(board) ELSE UNCHANGED <<last, unreported>>
    /\ UNCHANGED <<ee2, seen, mode, hook, burst, board, flow, counts>>

\* The baseline: what was on the clipboard when the combo was pressed.
Baseline ==
    /\ burst.pc = "base"
    /\ burst' = [burst EXCEPT !.pc = "on", !.base = board]
    /\ UNCHANGED <<ee2, seen, mode, hook, poll, board, flow, last, unreported, counts>>

\* mutant: the burst stops at the first change, an item or not
CapturesAChange ==
    /\ burst.pc = "on" /\ board # burst.base
    /\ burst' = NoBurst
    /\ IF IsItem(board) THEN Reports(board) ELSE UNCHANGED <<last, unreported>>
    /\ UNCHANGED <<ee2, seen, mode, hook, poll, board, flow, counts>>

CaptureDue == burst.pc = "on" /\ IsItem(board) /\ board # burst.base

Captures ==
    /\ CaptureDue
    /\ burst' = NoBurst /\ Reports(board)
    /\ UNCHANGED <<ee2, seen, mode, hook, poll, board, flow, counts>>

\* durationMs: longer than a check takes.
BurstEnds ==
    /\ burst.pc = "on" /\ flow.pc = "idle" /\ burst' = NoBurst
    /\ UNCHANGED <<ee2, seen, mode, hook, poll, board, flow, last, unreported, counts>>

-----------------------------------------------------------------------------
(* The world: EE2, the game, the player (external). *)

ComesOrGoes ==
    /\ counts.comings < MaxComings /\ flow.pc = "idle"
    /\ ee2' = [ee2 EXCEPT !.here = ~@]
    /\ counts' = [counts EXCEPT !.comings = @ + 1]
    /\ UNCHANGED <<seen, observers, board, flow, last, unreported>>

Hears == hook.ok /\ ~hook.deaf /\ hook.combo = ee2.combo

\* Is the coming item sure to be noticed?  By the burst, or by the fast poll.
Noticed(x) == x \notin {board, last} /\ (Hears \/ (poll.pc = "on" /\ poll.fast /\ poll.at = board))

\* The combo is pressed: _onHotkey begins a burst.
Press(x) ==
    /\ ee2.here /\ flow.pc = "idle" /\ burst.pc = "off" /\ counts.checks < MaxChecks
    /\ hook.ok /\ ~hook.deaf => hook.saw      \* the press is a key itself
    /\ flow' = [pc |-> "pressed", item |-> x, prev |-> board, due |-> Noticed(x)]
    /\ burst' = IF Hears THEN [NoBurst EXCEPT !.pc = "base"] ELSE burst
    /\ counts' = [counts EXCEPT !.checks = @ + 1]
    /\ UNCHANGED <<ee2, seen, mode, hook, poll, board, last, unreported>>

\* EE2 clears the clipboard, the game copies the item, EE2 restores the clipboard.
Clears ==
    /\ flow.pc = "pressed" /\ burst.pc # "base"
    /\ flow' = [flow EXCEPT !.pc = "cleared"] /\ board' = Nothing
    /\ UNCHANGED <<ee2, seen, observers, last, unreported, counts>>

GameCopies ==
    /\ flow.pc = "cleared"
    /\ flow' = [flow EXCEPT !.pc = "shown"] /\ board' = flow.item /\ unreported' = unreported \cup {flow.item}
    /\ UNCHANGED <<ee2, seen, observers, last, counts>>

\* RESTORE_AFTER, 120 ms: a burst reads every 15 ms and the fast poll every 90 ms.
Restores ==
    /\ flow.pc = "shown"
    /\ ~CaptureDue /\ ~(poll.fast /\ TickDue)
    /\ flow' = [flow EXCEPT !.pc = "idle"] /\ board' = flow.prev
    /\ UNCHANGED <<ee2, seen, observers, last, unreported, counts>>

PlayerCopies(x) ==
    /\ flow.pc = "idle" /\ counts.copies < MaxCopies
    /\ board' = x /\ unreported' = unreported \cup ({x} \cap Items)
    /\ counts' = [counts EXCEPT !.copies = @ + 1] /\ flow' = NoFlow
    /\ UNCHANGED <<ee2, seen, observers, last>>

-----------------------------------------------------------------------------
ClipInit ==
    /\ ee2 \in [here : BOOLEAN, combo : {0}]
    /\ seen = "asked" /\ mode = "idle"
    /\ hook = NoHook /\ poll = NoPoll /\ burst = NoBurst
    /\ board = Text /\ flow = NoFlow /\ last = Nothing
    /\ unreported = {}
    /\ counts = [checks |-> 0, copies |-> 0, comings |-> 0]

ClipNext ==
    \/ Detects \/ EvaluatePresence \/ FirstKey \/ HealthTimer \/ Rebinds \/ Realigns
    \/ LastFades \/ Seeds \/ Ticks \/ Baseline \/ Captures \/ BurstEnds \/ ComesOrGoes
    \/ Clears \/ GameCopies \/ Restores
    \/ \E x \in Items : Press(x) \/ \E y \in Items \cup {Text} : PlayerCopies(y)

-----------------------------------------------------------------------------
(* Properties. *)

\* A check that the hook or the fast poll could see is reported, although the
\* item is on the clipboard for 120 ms only (README of the package).
EveryCheckCaptured == flow.pc = "idle" /\ flow.due /\ mode = "active" => flow.item \notin unreported

\* The poll is fast while it is all there is: a hook that did not load, or one
\* that heard no key before HEALTH_MS; and slow as soon as a key arrived.
CadenceFits ==
    mode = "active" =>
        /\ ~hook.ok => poll.fast
        /\ (hook.deaf /\ ~hook.timer) => poll.fast
        /\ hook.saw => ~poll.fast

\* EE2 installed or removed, or given other combos, while Arbiter runs.
PresenceFollowed == <>[]((mode = "active") = ee2.here)
RebindsFollowed  == <>[](hook.ok => hook.combo = ee2.combo)

=============================================================================
