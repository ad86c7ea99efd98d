------------------------------- MODULE Toasts -------------------------------
(* The page's one stack of notices: each goes by itself after its time,     *)
(* which stops while the pointer is over it; a banner with an id takes the  *)
(* place of the one before.                                                 *)
EXTENDS Integers, Sequences, SequencesExt

CONSTANT MaxToasts   \* bound: toasts emitted

VARIABLES
    stack,     \* the toasts shown, oldest first: id, and timeouts that will remove it
    over,      \* the id of the toast the pointer is over
    emitted    \* how many there were: a toast without an id is named by it

toastVars == <<stack, over, emitted>>

NoId == <<"none", 0>>
Banner == <<"live", 0>>
PlainId == <<"t", emitted + 1>>
ToastsInit == stack = <<>> /\ over = NoId /\ emitted = 0

IsShown(id) == \E i \in DOMAIN stack : stack[i].id = id
At(id) == CHOOSE i \in DOMAIN stack : stack[i].id = id
\* No two toasts have one id.
Without(id) == IF IsShown(id) THEN RemoveAt(stack, At(id)) ELSE stack
Last3(s) == SubSeq(s, IF Len(s) > 3 THEN Len(s) - 2 ELSE 1, Len(s))

Emit(id) ==
    /\ emitted < MaxToasts /\ emitted' = emitted + 1
    /\ stack' = Append(Last3(Without(id)), [id |-> id, timers |-> 1])
    /\ UNCHANGED over
\* Its time is up, its button dismisses it, or it is clicked.
TakeDown(id) == IsShown(id) /\ stack' = Without(id) /\ UNCHANGED <<over, emitted>>
TimeUp(id) == (\E i \in DOMAIN stack : stack[i].id = id /\ stack[i].timers > 0) /\ TakeDown(id)

\* pause() clears the timeout set last; resume() sets one.
paused(n) == IF n > 0 THEN n - 1 ELSE 0
staysPaused(n) == n
resumed(n) == n + 1
PointerEnter(id) ==
    /\ over = NoId /\ IsShown(id) /\ over' = id
    /\ stack' = [stack EXCEPT ![At(id)].timers = paused(@)]
    /\ UNCHANGED emitted
PointerLeave ==
    /\ over # NoId /\ over' = NoId
    /\ stack' = IF IsShown(over) THEN [stack EXCEPT ![At(over)].timers = resumed(@)] ELSE stack
    /\ UNCHANGED emitted

ToastsNext ==
    \/ Emit(Banner) \/ Emit(PlainId) \/ PointerLeave
    \/ \E i \in DOMAIN stack : TakeDown(stack[i].id) \/ TimeUp(stack[i].id) \/ PointerEnter(stack[i].id)
ToastsSpec == ToastsInit /\ [][ToastsNext]_toastVars

-----------------------------------------------------------------------------
(* No toast stays for good: whatever was replaced, pushed out or left, its  *)
(* time runs unless the pointer is over it (App.jsx:78-87).                 *)
EveryToastGoes == \A i \in DOMAIN stack : stack[i].timers > 0 \/ over = stack[i].id
=============================================================================
