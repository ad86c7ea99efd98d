----------------------------- MODULE HistoryFeed -----------------------------
(***************************************************************************)
(* Checked items on their way into the ExiledExchange2 history             *)
(* (desktop/src/ee2-history: index.js the consumer in main, worker-host.js *)
(* and worker.js the process that builds the query; main.js the window).   *)
(* Items are numbered as they come: checked in the game, or pasted by the  *)
(* user, which asks for an answer and not for a row of the history.        *)
(***************************************************************************)
EXTENDS Integers, Sequences, FiniteSets, SequencesExt

CONSTANTS MaxItems,    \* items checked or pasted
          Pastes,      \* those of them that are pasted
          Workers,     \* identities of worker processes, used again when free
          Buffer,      \* NO_WINDOW_BUFFER
          MaxTrouble,  \* failures of spawn, init, build or process, and reloads
          MaxToggles   \* how often the history is switched on or off

VARIABLES enabled,     \* what the page last told main
          proc,        \* the worker in use
          throttled,   \* less than RESTART_MIN_MS since lastFailure
          wk,          \* every worker process and the builds it was asked for
          call,        \* every item's buildIntent
          held,        \* intents that wait for a window
          window,      \* sender: main has a window to send to; up: the page listens
          got,         \* what the page received
          wrong        \* failures and switches so far

feedVars == <<enabled, proc, throttled, wk, call, held, window, got, wrong>>

NoWorker == 0
FeedItems == 1..MaxItems
Off == [pc |-> "gone", asked |-> <<>>]

Checked   == {k \in FeedItems : call[k].pc # "none"}
Waiting(w) == {k \in FeedItems : call[k].by = w /\ call[k].pc \in {"warming", "asked"}}
Calls     == UNION {Waiting(w) : w \in Workers}
Spare     == {w \in Workers : wk[w].pc = "gone" /\ Waiting(w) = {}}
Trouble   == wrong.trouble < MaxTrouble /\ wrong' = [wrong EXCEPT !.trouble = @ + 1]

Settled(calls, ks, how) == [k \in FeedItems |-> IF k \in ks THEN [pc |-> how, by |-> NoWorker] ELSE calls[k]]
Killed(ws, w) == IF w = NoWorker \/ ws[w].pc = "gone" THEN ws ELSE [ws EXCEPT ![w].pc = "killed"]
Spawned(ws, w) == [ws EXCEPT ![w] = [pc |-> "starting", asked |-> <<>>]]

-----------------------------------------------------------------------------
(* The consumer (ee2-history/index.js). *)

\* request(): a worker that is ready is asked at once, another one first warms up.
AskOf(ws, k, w) ==
    /\ wk'   = IF ws[w].pc = "ready" THEN [ws EXCEPT ![w].asked = Append(@, k)] ELSE ws
    /\ call' = [call EXCEPT ![k] = [pc |-> IF ws[w].pc = "ready" THEN "asked" ELSE "warming", by |-> w]]

Turn(k) == call[k].pc = "none" /\ \A j \in 1..(k - 1) : call[j].pc # "none"

\* buildIntent, ensureWorker.
Asks(k) ==
    \/ /\ proc = NoWorker /\ throttled
       /\ call' = Settled(call, {k}, "noworker")
       /\ UNCHANGED <<proc, throttled, wk, wrong>>
    \/ /\ proc = NoWorker /\ ~throttled /\ Trouble       \* spawn throws
       /\ call' = Settled(call, {k}, "noworker")
       /\ throttled' = TRUE
       /\ UNCHANGED <<proc, wk>>
    \/ /\ proc = NoWorker /\ ~throttled
       /\ \E w \in Spare : proc' = w /\ AskOf(Spawned(wk, w), k, w)
       /\ UNCHANGED <<throttled, wrong>>
    \/ /\ proc # NoWorker /\ wk[proc].pc # "broken"
       /\ AskOf(wk, k, proc)
       /\ UNCHANGED <<proc, throttled, wrong>>
    \/ /\ proc # NoWorker /\ wk[proc].pc = "broken"      \* its init had failed
       /\ call' = Settled(call, {k}, "failed")
       /\ wk' = Killed(wk, proc) /\ proc' = NoWorker /\ throttled' = TRUE
       /\ UNCHANGED wrong

CheckItem(k) ==
    /\ k \notin Pastes /\ Turn(k)
    /\ IF enabled THEN Asks(k)
       ELSE call' = Settled(call, {k}, "disabled") /\ UNCHANGED <<proc, throttled, wk, wrong>>
    /\ UNCHANGED <<enabled, held, window, got>>

\* The user pastes an item, whether the history is on or off.
PasteItem(k) ==
    /\ k \in Pastes /\ Turn(k) /\ Asks(k)
    /\ UNCHANGED <<enabled, held, window, got>>

\* onDetected: EE2 was seen running, the worker is started ahead of the first item.
Warm ==
    /\ enabled /\ proc = NoWorker /\ ~throttled
    /\ \E w \in Spare : proc' = w /\ wk' = Spawned(wk, w)
    /\ UNCHANGED <<enabled, throttled, call, held, window, got, wrong>>

\* The catch of buildIntent: the worker is given up, whichever is in use.
GiveUp(k) ==
    /\ call' = Settled(call, {k}, "failed")
    /\ wk' = Killed(wk, call[k].by) /\ proc' = NoWorker /\ throttled' = TRUE

ThrottleEnds ==                \* five minutes, while a call lasts seconds
    /\ throttled /\ Calls = {} /\ throttled' = FALSE
    /\ UNCHANGED <<enabled, proc, wk, call, held, window, got, wrong>>

SetEnabled(v) ==
    /\ enabled' = v
    /\ IF v THEN UNCHANGED <<wk, proc>> ELSE wk' = Killed(wk, proc) /\ proc' = NoWorker

\* The user switches the history on or off.
Toggle ==
    /\ wrong.toggles < MaxToggles /\ wrong' = [wrong EXCEPT !.toggles = @ + 1]
    /\ SetEnabled(~enabled)
    /\ UNCHANGED <<throttled, call, held, window, got>>

-----------------------------------------------------------------------------
(* The worker and its host. *)

BecomesReady(w) ==
    /\ wk[w].pc = "starting"
    /\ wk' = [wk EXCEPT ![w] = [pc |-> "ready", asked |-> SetToSortSeq(Waiting(w), <)]]
    /\ call' = [k \in FeedItems |-> IF k \in Waiting(w) THEN [call[k] EXCEPT !.pc = "asked"] ELSE call[k]]
    /\ UNCHANGED <<enabled, proc, throttled, held, window, got, wrong>>

InitFails(w) ==
    /\ wk[w].pc = "starting" /\ Trouble
    /\ IF Waiting(w) = {}
       THEN wk' = [wk EXCEPT ![w].pc = "broken"] /\ UNCHANGED <<call, proc, throttled>>
       ELSE /\ call' = Settled(call, Waiting(w), "failed")
            /\ wk' = Killed(wk, w) /\ proc' = NoWorker /\ throttled' = TRUE
    /\ UNCHANGED <<enabled, held, window, got>>

\* The page takes what is handed to it, in that order.
Hands(ks) == got' = got \o ks

\* One intent for the page, or for the buffer while there is no window.
Emits(k) ==
    \/ /\ ~window.sender /\ Len(held) < Buffer
       /\ held' = Append(held, k) /\ call' = Settled(call, {k}, "held") /\ UNCHANGED got
    \/ /\ ~window.sender /\ Len(held) >= Buffer
       /\ call' = Settled(call, {k}, "dropped") /\ UNCHANGED <<held, got>>
    \/ /\ window.sender /\ window.up
       /\ Hands(<<k>>) /\ call' = Settled(call, {k}, "sent") /\ UNCHANGED held
    \/ /\ window.sender /\ ~window.up                                   \* it reloads
       /\ call' = Settled(call, {k}, "lost") /\ UNCHANGED <<held, got>>

\* What a paste asked for, which nobody but the asker gets.
Replies(k) == call' = Settled(call, {k}, "answered") /\ UNCHANGED <<held, got>>

\* A built query, or the word that the item is a currency.
Answers(w) ==
    /\ wk[w].pc \in {"ready", "killed"} /\ wk[w].asked # <<>>
    /\ LET k == Head(wk[w].asked)
       IN IF call[k].pc = "asked" /\ call[k].by = w
          THEN \/ k \notin Pastes /\ Emits(k)
               \/ k \in Pastes /\ Replies(k)
               \/ call' = Settled(call, {k}, "currency") /\ UNCHANGED <<held, got>>
          ELSE UNCHANGED <<call, held, got>>           \* it had timed out
    /\ wk' = [wk EXCEPT ![w].asked = Tail(@)]
    /\ UNCHANGED <<enabled, proc, throttled, window, wrong>>

Hangs(w) ==
    /\ wk[w].pc \in {"starting", "ready"} /\ Trouble
    /\ wk' = [wk EXCEPT ![w].pc = "hung"]
    /\ UNCHANGED <<enabled, proc, throttled, call, held, window, got>>

\* BUILD_TIMEOUT_MS, which also bounds the wait for the init.
Expires(k, phases) ==
    /\ call[k].pc \in phases /\ wk[call[k].by].pc \in {"hung", "killed", "gone"}
    /\ GiveUp(k)
    /\ UNCHANGED <<enabled, held, window, got, wrong>>
TimesOutAsked(k) == Expires(k, {"asked"})                               \* mutant
TimesOut(k)      == Expires(k, {"warming", "asked"})

Crashes(w) ==
    /\ wk[w].pc \in {"starting", "ready", "broken", "hung"} /\ Trouble
    /\ wk' = Killed(wk, w)
    /\ UNCHANGED <<enabled, proc, throttled, call, held, window, got>>

\* IDLE_EXIT_MS without a request.
IdleExit(w) ==
    /\ wk[w].pc \in {"starting", "ready", "broken", "hung"} /\ Waiting(w) = {}
    /\ wk' = Killed(wk, w)
    /\ UNCHANGED <<enabled, proc, throttled, call, held, window, got, wrong>>

\* The exit event: the builds it was asked for are rejected, and the consumer
\* forgets the worker it uses.
Exits(w) ==
    /\ wk[w].pc = "killed"
    /\ call' = Settled(call, {k \in Waiting(w) : call[k].pc = "asked"}, "failed")
    /\ wk' = [wk EXCEPT ![w] = Off] /\ proc' = NoWorker /\ throttled' = TRUE
    /\ UNCHANGED <<enabled, held, window, got, wrong>>

-----------------------------------------------------------------------------
(* The window (main.js): did-finish-load, a reload, closed. *)

LoadsWith(kept) ==
    /\ ~window.up
    /\ window' = [sender |-> TRUE, up |-> TRUE]
    /\ Hands(held) /\ held' = kept
    /\ UNCHANGED <<enabled, proc, throttled, wk, call, wrong>>
WindowLoads        == LoadsWith(<<>>)

WindowGoes(sender) ==
    /\ window.up /\ Trouble
    /\ window' = [sender |-> sender, up |-> FALSE]
    /\ UNCHANGED <<enabled, proc, throttled, wk, call, held, got>>

-----------------------------------------------------------------------------
FeedInit ==
    /\ enabled = TRUE /\ proc = NoWorker /\ throttled = FALSE
    /\ wk = [w \in Workers |-> Off]
    /\ call = [k \in FeedItems |-> [pc |-> "none", by |-> NoWorker]]
    /\ held = <<>> /\ got = <<>>
    /\ window = [sender |-> FALSE, up |-> FALSE]
    /\ wrong = [trouble |-> 0, toggles |-> 0]

WorkerSteps(w) == BecomesReady(w) \/ Answers(w) \/ Exits(w)

FeedNext ==
    \/ \E k \in FeedItems : CheckItem(k) \/ PasteItem(k) \/ TimesOut(k)
    \/ Warm \/ ThrottleEnds \/ Toggle
    \/ \E w \in Workers : WorkerSteps(w) \/ InitFails(w) \/ Hangs(w) \/ Crashes(w) \/ IdleExit(w)
    \/ WindowLoads \/ \E sender \in BOOLEAN : WindowGoes(sender)

-----------------------------------------------------------------------------
(* Properties. *)

\* The page receives the items in the order they were checked, each once.
IntentsInOrder == \A i, j \in DOMAIN got : i < j => got[i] < got[j]

\* No item waits for ever for a worker that died, hung or never came up.
EveryItemSettles == \A k \in FeedItems : call[k].pc \in {"warming", "asked"} ~> call[k].pc \notin {"warming", "asked"}

=============================================================================
