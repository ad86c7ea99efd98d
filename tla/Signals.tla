------------------------------- MODULE Signals -------------------------------
(* The inbox of market signals: a mirror of the backend's, polled, which    *)
(* alerts of what a poll newly finds; dismissals are kept by the backend.   *)
EXTENDS Integers, FiniteSets

CONSTANTS Spikes,    \* signals: an item and the day of its spike
          MaxPolls   \* bound: polls asked

VARIABLES
    fired, acked,  \* the backend's signals, and those of them dismissed
    poll,          \* the answer on its way to the page, or Nothing
    inbox,         \* useSignals: the keys, and those read as dismissed
    loaded, polled,
    told, firstSeen, dismissed   \* keys alerted of, there at the first load, dismissed by the user

signalVars == <<fired, acked, poll, inbox, loaded, polled, told, firstSeen, dismissed>>

NothingAsked == [keys |-> {}, acked |-> {}, ok |-> FALSE]

SignalsInit ==
    /\ fired \in SUBSET Spikes /\ acked = {} /\ poll = NothingAsked
    /\ inbox = [keys |-> {}, acked |-> {}] /\ loaded = FALSE /\ polled = 0
    /\ told = {} /\ firstSeen = {} /\ dismissed = {}

\* The sidecar computes them anew; dismissals are kept.
Recomputed(k) ==
    /\ fired' = IF k \in fired THEN fired \ {k} ELSE fired \cup {k}
    /\ UNCHANGED <<acked, poll, inbox, loaded, polled, told, firstSeen, dismissed>>
\* Every minute, as the window shows again, and after a dismissal.
Asked(keys, done) == [keys |-> keys, acked |-> done \cap keys, ok |-> TRUE]
Polls ==
    /\ poll = NothingAsked /\ polled < MaxPolls /\ polled' = polled + 1
    /\ poll' = Asked(fired, acked)
    /\ UNCHANGED <<fired, acked, inbox, loaded, told, firstSeen, dismissed>>
PollLost ==
    /\ poll # NothingAsked /\ poll' = NothingAsked
    /\ UNCHANGED <<fired, acked, inbox, loaded, polled, told, firstSeen, dismissed>>

newWhenMore(prev, next) == IF Cardinality(next.keys) > Cardinality(prev.keys) THEN (next.keys \ next.acked) \ prev.keys ELSE {}
newSignals(prev, next) == (next.keys \ next.acked) \ prev.keys
fresh == IF loaded THEN newSignals(inbox, poll) ELSE {}
PollLands ==
    /\ poll # NothingAsked /\ poll' = NothingAsked
    /\ inbox' = [keys |-> poll.keys, acked |-> poll.acked] /\ loaded' = TRUE
    /\ firstSeen' = IF loaded THEN firstSeen ELSE poll.keys
    /\ told' = told \cup fresh
    /\ UNCHANGED <<fired, acked, polled, dismissed>>

\* A dismissal from the orb; those of signals that are gone are dropped, and
\* the inbox is read again.
Acks(keys) ==
    /\ poll = NothingAsked /\ keys # {} /\ keys \subseteq inbox.keys \ inbox.acked
    /\ acked' = (acked \cup keys) \cap fired /\ dismissed' = dismissed \cup keys
    /\ poll' = Asked(fired, acked')
    /\ UNCHANGED <<fired, inbox, loaded, polled, told, firstSeen>>
\* "Dismiss all" takes what the backend has, listed here or not.
ackAll ==
    /\ poll = NothingAsked /\ inbox.keys \ inbox.acked # {}
    /\ acked' = fired /\ dismissed' = dismissed \cup fired
    /\ poll' = Asked(fired, acked')
    /\ UNCHANGED <<fired, inbox, loaded, polled, told, firstSeen>>

SignalsNext ==
    \/ Polls \/ PollLost \/ PollLands \/ ackAll
    \/ \E k \in Spikes : Recomputed(k)
    \/ \E keys \in SUBSET Spikes : Acks(keys)
SignalsSpec == SignalsInit /\ [][SignalsNext]_signalVars

-----------------------------------------------------------------------------
(* What the inbox counts as new was alerted of, was there at the first      *)
(* load, or was dismissed once and has come again (signalStore.js:30, :34).  *)
CountedWasTold == \A k \in inbox.keys \ inbox.acked : k \in told \cup firstSeen \cup dismissed
=============================================================================
