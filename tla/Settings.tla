------------------------------ MODULE Settings ------------------------------
(* The settings and those who write them: the store that keeps a copy of    *)
(* the backend's and sends the saves one after the other (statusStore.js),  *)
(* the debounced saves of a view (hooks.js), and the Arbitrage page         *)
(* (RoutesView.jsx), whose filters, sliders and presets all write the same  *)
(* settings.  The filters are saved as one block, and the sliders as one.   *)
EXTENDS Integers, Sequences, FiniteSets

CONSTANTS Absent,      \* no payload, no form, no answer
          MaxTouches,  \* bound: what the user does
          MaxOpens,    \* bound: visits of the page
          MaxLosses,   \* bound: requests that fail
          MaxWaiting   \* bound: requests under way or waiting when the user does something


VARIABLES settings,   \* the backend's settings
          copy,       \* the renderer's copy, Absent before it has one
          wire,       \* requests under way, those the backend has answered first
          saves,      \* saves waiting for their turn
          form,       \* the filters as shown, Absent while the page is away
          formArmed,  \* the saved filters were loaded: edits save
          formDue,    \* filters waiting for the timer of their save
          knob,       \* the slider as shown, Absent until it has loaded
          knobDue,    \* a slider's value waiting for its timer
          pick,       \* how far the picking of the preset is
          wished,     \* history: what the user set each setting to last
          touched,    \* history: the settings the user ever set
          hurried,    \* history: the user did something while a request was under way
          lost,       \* history: requests that failed
          touches, visits

pageVars     == <<form, formArmed, formDue, knob, knobDue, pick>>
userVars     == <<wished, touched, hurried, touches, visits>>
settingsVars == <<settings, copy, wire, saves, pageVars, userVars, lost>>

\* Each setting is what it was saved as long ago, or its default.
Default == 0
Mine    == 1
Keys    == {"margin", "start", "weight"}
Patches == UNION {[S -> {Default, Mine}] : S \in SUBSET Keys}
ASSUME SettingsAssumption ==
    /\ Absent \notin Patches \cup {Default, Mine}
    /\ MaxTouches \in Nat /\ MaxOpens \in Nat /\ MaxLosses \in Nat /\ MaxWaiting \in Nat

Filters == {"margin", "start"}
PRESET  == [k \in {"margin", "weight"} |-> Default]
Over(s, p) == [k \in DOMAIN s |-> IF k \in DOMAIN p THEN p[k] ELSE s[k]]
filtersFromSettings(s) == [k \in Filters |-> s[k]]
DEFAULT_FILTERS == [k \in Filters |-> Default]
weightOf(v)     == [k \in {"weight"} |-> v]

Request(what, p) == [what |-> what, patch |-> p, answer |-> Absent]
Read(what)     == Request(what, Absent)
Save(what, p)  == Request(what, p)

SettingsInit ==
    /\ settings = [k \in Keys |-> Mine] /\ copy = Absent
    /\ wire = <<Read("boot")>> /\ saves = <<>>
    /\ form = Absent /\ formArmed = FALSE /\ formDue = Absent
    /\ knob = Absent /\ knobDue = Absent /\ pick = "idle"
    /\ wished = settings /\ touched = {} /\ hurried = FALSE /\ touches = 0 /\ visits = 0 /\ lost = 0

----------------------------------------------------------------------------
(* The copy: a read goes out at once, a save when those before it are in.  *)

Out(w)     == \E i \in DOMAIN w : w[i].patch # Absent
Sends(w, queue) ==
    IF Out(w) \/ queue = <<>> THEN wire' = w /\ saves' = queue
    ELSE wire' = Append(w, Head(queue)) /\ saves' = Tail(queue)

AllBut(w, i) == SubSeq(w, 1, i - 1) \o SubSeq(w, i + 1, Len(w))

\* The backend takes its requests in any order, and answers in that order.
BackendTakes(i) ==
    LET rest == AllBut(wire, i)
        n    == Cardinality({j \in DOMAIN rest : rest[j].answer # Absent})
    IN  /\ wire[i].answer = Absent
        /\ settings' = IF wire[i].patch = Absent THEN settings ELSE Over(settings, wire[i].patch)
        /\ wire' = SubSeq(rest, 1, n) \o <<[wire[i] EXCEPT !.answer = settings']>> \o SubSeq(rest, n + 1, Len(rest))
        /\ UNCHANGED <<copy, saves, pageVars, userVars, lost>>

\* The sliders are drawn anew: they read the settings, and what was due is sent.
Due(what, p) == IF p = Absent THEN <<>> ELSE <<Save(what, p)>>
KnobDue      == Due("save", IF knobDue = Absent THEN Absent ELSE weightOf(knobDue))
Redraws      == knob' = Absent /\ knobDue' = Absent
\* Reads of a view that has gone are answered to nobody.
Unheard(w, whats) == [i \in DOMAIN w |-> IF w[i].what \in whats THEN [w[i] EXCEPT !.what = "boot"] ELSE w[i]]

\* An answer replaces the copy; the view that asked takes it if it is still there, and a
\* picked preset is shown.
Answered ==
    LET r == Head(wire)
        shows == form # Absent
    IN  /\ wire # <<>> /\ r.answer # Absent
        /\ copy' = r.answer
        /\ IF shows /\ r.what \in {"form", "pick"}
           THEN form' = filtersFromSettings(r.answer) ELSE form' = form
        /\ formArmed' = (formArmed \/ (r.what = "form" /\ shows))
        /\ IF r.what = "pick" /\ shows THEN Redraws
           ELSE /\ knob' = IF r.what = "knob" /\ shows THEN r.answer["weight"] ELSE knob
                /\ UNCHANGED knobDue
        /\ pick' = IF r.what = "flush" THEN "flushed" ELSE IF r.what = "pick" THEN "idle" ELSE pick
        /\ Sends(IF r.what = "pick" /\ shows THEN Append(Unheard(Tail(wire), {"knob"}), Read("knob")) ELSE Tail(wire),
                 saves \o (IF r.what = "pick" /\ shows THEN KnobDue ELSE <<>>))
    /\ UNCHANGED <<settings, formDue, userVars, lost>>

\* A request fails before the backend has taken it.  A form whose load failed shows the
\* defaults and saves nothing.
armedAfter(r)  == formArmed
RequestFails(i) ==
    LET r == wire[i]
    IN  /\ lost < MaxLosses /\ lost' = lost + 1 /\ r.answer = Absent
        /\ pick' = IF r.what = "flush" THEN "flushed" ELSE IF r.what = "pick" THEN "idle" ELSE pick
        /\ formArmed' = armedAfter(r)
        /\ Sends(AllBut(wire, i), saves)
        /\ UNCHANGED <<settings, copy, form, formDue, knob, knobDue, userVars>>

----------------------------------------------------------------------------
(* The page. *)

Busy    == saves # <<>> \/ pick # "idle" \/ \E i \in DOMAIN wire : wire[i].what # "boot"
Idles   == Len(wire) + Len(saves) <= MaxWaiting
Touches == Idles /\ touches < MaxTouches /\ touches' = touches + 1 /\ hurried' = (hurried \/ Busy)
Chooses(p) == wished' = Over(wished, p) /\ touched' = touched \cup DOMAIN p

OpenPage ==
    /\ form = Absent /\ Idles /\ visits < MaxOpens /\ visits' = visits + 1
    /\ hurried' = (hurried \/ Busy)
    /\ form' = IF copy # Absent THEN filtersFromSettings(copy) ELSE DEFAULT_FILTERS
    /\ formArmed' = (copy # Absent)
    /\ Redraws
    /\ LET w == Append(wire, Read("knob"))
       IN  wire' = IF copy = Absent THEN Append(w, Read("form")) ELSE w
    /\ UNCHANGED <<settings, copy, saves, formDue, pick, wished, touched, touches, lost>>

\* What waits for a timer is sent when the view goes.
LeavePage ==
    /\ form # Absent /\ form' = Absent /\ formArmed' = FALSE /\ formDue' = Absent
    /\ Redraws
    /\ Sends(Unheard(wire, {"form", "knob"}), saves \o Due("save", formDue) \o KnobDue)
    /\ UNCHANGED <<settings, copy, pick, userVars, lost>>

EditFilter(k, v) ==
    /\ form # Absent /\ form[k] # v /\ Touches
    /\ form' = [form EXCEPT ![k] = v]
    /\ formDue' = IF formArmed THEN form' ELSE formDue
    /\ IF formArmed THEN Chooses([x \in {k} |-> v]) ELSE UNCHANGED <<wished, touched>>
    /\ UNCHANGED <<settings, copy, wire, saves, formArmed, knob, knobDue, pick, visits, lost>>

FormTimer ==
    /\ formDue # Absent /\ formDue' = Absent
    /\ Sends(wire, saves \o Due("save", formDue))
    /\ UNCHANGED <<settings, copy, form, formArmed, knob, knobDue, pick, userVars, lost>>

EditKnob(v) ==
    /\ knob # Absent /\ knob # v /\ Touches
    /\ knob' = v /\ knobDue' = v /\ Chooses(weightOf(v))
    /\ UNCHANGED <<settings, copy, wire, saves, form, formArmed, formDue, pick, visits, lost>>

KnobTimer ==
    /\ knobDue # Absent /\ knobDue' = Absent
    /\ Sends(wire, saves \o KnobDue)
    /\ UNCHANGED <<settings, copy, form, formArmed, formDue, knob, pick, userVars, lost>>

\* A preset: the sliders are redrawn, which sends what they had due, the filters' edit is sent
\* and waited for, then the preset goes.
Flush       == Due("flush", formDue)
FlushesNot  == <<>>                                                       \* mutant
FlushesFirst == Flush
Pick ==
    /\ form # Absent /\ pick = "idle" /\ Touches
    /\ Redraws
    /\ formDue' = IF FlushesFirst = <<>> THEN formDue ELSE Absent
    /\ pick' = IF FlushesFirst = <<>> THEN "flushed" ELSE "flushing"
    /\ Sends(Append(Unheard(wire, {"knob"}), Read("knob")), saves \o KnobDue \o FlushesFirst)
    /\ Chooses(PRESET)
    /\ UNCHANGED <<settings, copy, form, formArmed, visits, lost>>
PickSends ==
    /\ pick = "flushed" /\ pick' = "saving"
    /\ Sends(wire, Append(saves, Save("pick", PRESET)))
    /\ UNCHANGED <<settings, copy, form, formArmed, formDue, knob, knobDue, userVars, lost>>

SettingsNext ==
    \/ \E i \in DOMAIN wire : BackendTakes(i) \/ RequestFails(i)
    \/ Answered \/ FormTimer \/ KnobTimer \/ PickSends
    \/ OpenPage \/ LeavePage \/ Pick
    \/ \E v \in {Default, Mine} : EditKnob(v) \/ \E k \in Filters : EditFilter(k, v)

SettingsSpec == SettingsInit /\ [][SettingsNext]_settingsVars

----------------------------------------------------------------------------
(* Properties. *)

(* What the user never set stays as it was saved, whatever fails and however *)
(* the page is left and opened: "a failed load shows defaults but must never *)
(* write them over the user's saved selections" (RegexView.jsx:30-31).       *)
UntouchedStays == \A k \in Keys \ touched : settings[k] = Mine

(* For a user who lets requests end before going on, everything at rest      *)
(* tells the same: the backend has what was wished last, a preset wins its   *)
(* own values and an edit made before it keeps the others                    *)
(* (RoutesView.jsx:103-107), and the copy and the page show it.              *)
RestTellsTheSame ==
    ~Busy /\ wire = <<>> /\ formDue = Absent /\ knobDue = Absent /\ ~hurried /\ lost = 0 =>
        /\ settings = wished
        /\ copy # Absent => copy = settings
        /\ form # Absent => form = filtersFromSettings(settings)
        /\ knob # Absent => knob = settings["weight"]

(* The settings are what the user wished, in failure and at rest             *)
(* (statusStore.js, hooks.js).                                               *)
WishesKept == UntouchedStays /\ RestTellsTheSame
=============================================================================
