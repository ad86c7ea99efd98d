-------------------------------- MODULE Theme --------------------------------
(* The colour theme: the settings hold the choice and the user's own themes, *)
(* the page paints it, local storage has a copy for the next start, and the  *)
(* desktop shell one for the window behind the page (themeStore.js,          *)
(* ThemeBuilder.jsx, main.js ui:setTheme).  A colour table is a value: what  *)
(* is in one is ThemeColors' matter.                                         *)
EXTENDS Integers, Sequences, FiniteSets

CONSTANTS NoTable,    \* no colour table, no theme being edited
          Presets,    \* the themes of styles.css
          DEFAULT_THEME,
          ThemeIds,   \* ids a theme of the user's own can get
          ColorTables,     \* colour tables
          MaxDeeds,   \* bound: what the user does
          MaxLoads,   \* bound: reads of the settings
          MaxReloads   \* bound: reloads of the page

ASSUME ThemeAssumption ==
    /\ DEFAULT_THEME \in Presets /\ Presets \cap ThemeIds = {} /\ ThemeIds # {}
    /\ NoTable \notin ColorTables \cup ThemeIds /\ \A S \in SUBSET ThemeIds : NoTable \notin [S -> ColorTables]
    /\ MaxDeeds \in Nat /\ MaxLoads \in Nat /\ MaxReloads \in Nat

VARIABLES saved,       \* the backend's settings: [theme, customs]
          themeId,     \* useTheme: id
          customs,     \* useTheme: the user's own themes, id -> table
          previewing,  \* useTheme: an unsaved table is painted over the choice
          painted,     \* <html>: [theme, table]
          mirror,      \* localStorage: [theme, table], read before the first paint
          backdrop,    \* the shell's: [theme, table]
          themePuts,   \* settings saves, sent one at a time in this order
          load,        \* the read of the settings: "none", "asked" or "read", and its answer
          answer,
          building,    \* the settings page and its builder are open
          editId,      \* ThemeBuilder: the theme being edited
          draft,       \* ThemeBuilder: [id, table] with its unsaved edits
          previewDue,  \* ThemeBuilder: the table its preview timer will paint
          saveDue,     \* ThemeBuilder: the list its save timer will send
          mine,        \* history: the themes the user made, with their last tables
          rash,        \* history: the user did what the code has no answer to
          deeds, loads, reloads

paintVars   == <<painted, mirror, backdrop>>
builderVars == <<building, editId, draft, previewDue, saveDue>>
themeVars   == <<saved, themeId, customs, previewing, paintVars, themePuts, load, answer, builderVars, mine, rash,
                 deeds, loads, reloads>>

Look(t, c)  == [theme |-> t, table |-> c]
WithTheme(f, id, c) == [x \in DOMAIN f \cup {id} |-> IF x = id THEN c ELSE f[x]]
But(f, id)     == [x \in DOMAIN f \ {id} |-> f[x]]
tableOf(list, id) == IF id \in DOMAIN list THEN list[id] ELSE NoTable

\* paintTheme: an own theme needs its table, else the default is painted.
Painting(id, c) ==
    IF id \in ThemeIds /\ c # NoTable THEN Look(id, c)
    ELSE Look(IF id \in Presets THEN id ELSE DEFAULT_THEME, NoTable)
PaintsOnly(look)  == painted' = look /\ UNCHANGED <<mirror, backdrop>>
Paints(look) == painted' = look /\ mirror' = look /\ backdrop' = look

\* The user has made one theme before.
FirstId   == CHOOSE i \in ThemeIds : TRUE
OneOfMine == [{FirstId} -> ColorTables]
ThemeInit ==
    /\ mine \in OneOfMine
    /\ \E t \in Presets \cup {FirstId} :
          /\ saved = [theme |-> t, customs |-> mine]
          /\ mirror = Look(t, tableOf(mine, t))
    /\ painted = mirror /\ backdrop = mirror
    /\ themeId = DEFAULT_THEME /\ customs = <<>> /\ previewing = FALSE
    /\ themePuts = <<>> /\ load = "asked" /\ answer = NoTable
    /\ building = FALSE /\ editId = NoTable /\ draft = NoTable /\ previewDue = NoTable /\ saveDue = NoTable
    /\ rash = FALSE /\ deeds = 0 /\ loads = 0 /\ reloads = 0

----------------------------------------------------------------------------
(* The settings (statusStore.js). *)

\* What the builder is editing after the list or the pick of it changed.
Drafted(list, id) ==
    IF id \notin DOMAIN list THEN NoTable
    ELSE IF draft # NoTable /\ draft.id = id THEN draft
    ELSE [id |-> id, table |-> list[id]]

LoadRead ==
    /\ load = "asked" /\ load' = "read" /\ answer' = saved
    /\ UNCHANGED <<saved, themeId, customs, previewing, paintVars, themePuts, builderVars, mine, rash, deeds, loads, reloads>>

\* The answer wins over what the page has (sync).
LoadAnswered ==
    /\ load = "read" /\ load' = "none" /\ answer' = NoTable
    /\ customs' = answer.customs
    /\ LET look == Painting(answer.theme, tableOf(customs', answer.theme))
       IN  Paints(look) /\ themeId' = look.theme
    /\ draft' = Drafted(customs', editId)
    /\ UNCHANGED <<saved, previewing, themePuts, building, editId, previewDue, saveDue, mine, rash, deeds, loads, reloads>>

\* A save reaches the backend and its answer the page: the list's save then paints the
\* chosen theme again, or the default when it is no more.
PutDone ==
    /\ themePuts # <<>>
    /\ LET p    == Head(themePuts)
           gone == "customs" \in DOMAIN p /\ themeId \in ThemeIds /\ ~previewing /\ themeId \notin DOMAIN p.customs
       IN  /\ saved' = [k \in DOMAIN saved |-> IF k \in DOMAIN p THEN p[k] ELSE saved[k]]
           /\ IF "customs" \in DOMAIN p /\ themeId \in ThemeIds /\ ~previewing
              THEN Paints(Painting(themeId, tableOf(p.customs, themeId))) ELSE UNCHANGED paintVars
           /\ themeId' = IF gone THEN DEFAULT_THEME ELSE themeId
           /\ themePuts' = Tail(themePuts) \o (IF gone THEN <<[theme |-> DEFAULT_THEME]>> ELSE <<>>)
    /\ UNCHANGED <<customs, previewing, load, answer, builderVars, mine, rash, deeds, loads, reloads>>

----------------------------------------------------------------------------
(* The user: a theme picked in the settings or the palette, the builder. *)

Deed == deeds < MaxDeeds /\ deeds' = deeds + 1
\* Picks and edits while the settings are being read, and a list changed by hand while an
\* edit's own list waits for its timer.
Hasty(unsaved) == rash' = (rash \/ load # "none" \/ unsaved)

ApplyTo(id) ==
    LET look == Painting(id, tableOf(customs, id))
    IN  Paints(look) /\ themeId' = look.theme /\ previewing' = FALSE /\ themePuts' = Append(themePuts, [theme |-> look.theme])

\* Use also stops a preview that is about to be painted.
Use(id, fromBuilder) ==
    /\ fromBuilder => building /\ id \in ThemeIds
    /\ Deed /\ Hasty(FALSE) /\ id # themeId /\ id \in Presets \cup DOMAIN customs
    /\ ApplyTo(id)
    /\ previewDue' = IF fromBuilder THEN NoTable ELSE previewDue
    /\ UNCHANGED <<saved, customs, load, answer, building, editId, draft, saveDue, mine, loads, reloads>>

\* A new theme, of a preset or of another of the user's.
Makes(id, c) ==
    /\ building /\ Deed /\ Hasty(saveDue # NoTable) /\ id \in ThemeIds \ DOMAIN mine
    /\ customs' = WithTheme(customs, id, c) /\ themePuts' = Append(themePuts, [customs |-> customs'])
    /\ editId' = id /\ draft' = [id |-> id, table |-> c]
    /\ mine' = WithTheme(mine, id, c)
    /\ UNCHANGED <<saved, themeId, previewing, paintVars, load, answer, building, previewDue, saveDue, loads, reloads>>

Edits(id) ==
    /\ building /\ Deed /\ Hasty(saveDue # NoTable) /\ id \in DOMAIN customs /\ id # editId
    /\ editId' = id /\ draft' = [id |-> id, table |-> customs[id]]
    /\ UNCHANGED <<saved, themeId, customs, previewing, paintVars, themePuts, load, answer, building, previewDue, saveDue, mine, loads, reloads>>

\* A colour is changed: the timers start again, the save's with the list as it is now.
Recolors(c) ==
    /\ Deed /\ Hasty(FALSE) /\ draft # NoTable /\ draft.table # c
    /\ draft' = [draft EXCEPT !.table = c]
    /\ previewDue' = c /\ saveDue' = WithTheme(customs, draft.id, c)
    /\ mine' = WithTheme(mine, draft.id, c)
    /\ UNCHANGED <<saved, themeId, customs, previewing, paintVars, themePuts, load, answer, building, editId, loads, reloads>>

PreviewTimer ==
    /\ previewDue # NoTable /\ previewDue' = NoTable
    /\ PaintsOnly(Look("custom", previewDue)) /\ previewing' = TRUE
    /\ UNCHANGED <<saved, themeId, customs, themePuts, load, answer, building, editId, draft, saveDue, mine, rash, deeds, loads, reloads>>

SaveTimer ==
    /\ saveDue # NoTable /\ saveDue' = NoTable
    /\ customs' = saveDue /\ themePuts' = Append(themePuts, [customs |-> saveDue])
    /\ draft' = Drafted(customs', editId)
    /\ UNCHANGED <<saved, themeId, previewing, paintVars, load, answer, building, editId, previewDue, mine, rash, deeds, loads, reloads>>

\* A deleted theme that is in use gives way to the default first.
TimersRun     == UNCHANGED <<previewDue, saveDue>>                                \* mutant
TimersStopped == previewDue' = NoTable /\ saveDue' = NoTable
RemovesTheme(id) ==
    /\ building /\ Deed /\ Hasty(saveDue # NoTable /\ (draft = NoTable \/ draft.id # id)) /\ id \in DOMAIN customs
    /\ IF id = themeId
       THEN /\ Paints(Look(DEFAULT_THEME, NoTable)) /\ themeId' = DEFAULT_THEME /\ previewing' = FALSE
            /\ themePuts' = Append(Append(themePuts, [theme |-> DEFAULT_THEME]), [customs |-> But(customs, id)])
       ELSE /\ themePuts' = Append(themePuts, [customs |-> But(customs, id)]) /\ UNCHANGED <<paintVars, themeId, previewing>>
    /\ customs' = But(customs, id) /\ mine' = But(mine, id)
    /\ editId' = IF editId = id THEN NoTable ELSE editId
    /\ draft' = Drafted(customs', editId')
    /\ TimersStopped
    /\ UNCHANGED <<saved, load, answer, building, loads, reloads>>

\* The builder is left: its preview ends, and the chosen theme comes back.
LeavesPreview == UNCHANGED <<paintVars, previewing>>                            \* mutant
EndsPreview ==
    IF previewing THEN previewing' = FALSE /\ Paints(Painting(themeId, tableOf(customs, themeId)))
    ELSE UNCHANGED <<paintVars, previewing>>
LeavesBuilder ==
    /\ building /\ building' = FALSE
    /\ EndsPreview
    /\ editId' = NoTable /\ draft' = NoTable /\ previewDue' = NoTable
    /\ UNCHANGED <<saved, themeId, customs, themePuts, load, answer, saveDue, mine, rash, deeds, loads, reloads>>

\* The settings page and the Arbitrage page read the settings when they are opened.
OpensSettings(page) ==
    /\ ~building /\ building' = (page = "settings")
    /\ load = "none" /\ loads < MaxLoads /\ loads' = loads + 1 /\ load' = "asked" /\ answer' = NoTable
    /\ rash' = (rash \/ themePuts # <<>> \/ saveDue # NoTable)
    /\ UNCHANGED <<saved, themeId, customs, previewing, paintVars, themePuts, editId, draft, previewDue, saveDue, mine, deeds, reloads>>

\* The page is loaded anew: the mirror is painted, what was not sent is lost.
Starts ==
    /\ reloads < MaxReloads /\ reloads' = reloads + 1
    /\ rash' = (rash \/ themePuts # <<>> \/ saveDue # NoTable)
    /\ Paints(Painting(mirror.theme, mirror.table))
    /\ themeId' = DEFAULT_THEME /\ customs' = <<>> /\ previewing' = FALSE
    /\ themePuts' = <<>> /\ load' = "asked" /\ answer' = NoTable
    /\ building' = FALSE /\ editId' = NoTable /\ draft' = NoTable /\ previewDue' = NoTable /\ saveDue' = NoTable
    /\ UNCHANGED <<saved, mine, deeds, loads>>

ThemeNext ==
    \/ LoadRead \/ LoadAnswered \/ PutDone \/ PreviewTimer \/ SaveTimer
    \/ (\E page \in {"settings", "arbitrage"} : OpensSettings(page)) \/ LeavesBuilder \/ Starts
    \/ \E id \in Presets \cup ThemeIds, b \in BOOLEAN : Use(id, b)
    \/ \E id \in ThemeIds : Edits(id) \/ RemovesTheme(id)
    \/ \E id \in ThemeIds, c \in ColorTables : Makes(id, c)
    \/ \E c \in ColorTables : Recolors(c)

ThemeSpec == ThemeInit /\ [][ThemeNext]_themeVars

----------------------------------------------------------------------------
(* Properties. *)

Resting == themePuts = <<>> /\ load = "none" /\ previewDue = NoTable /\ saveDue = NoTable

(* For a user who lets the settings be read, and an edit be saved before the *)
(* list is changed by hand: once all is at rest and no builder previews, the *)
(* page, local storage and the shell show the chosen theme as the settings    *)
(* have it, so the next start shows nothing else (themeStore.js:5-8).        *)
OneTheme ==
    Resting /\ ~(previewing /\ building) /\ ~rash =>
        LET look == Painting(saved.theme, tableOf(saved.customs, saved.theme))
        IN  themeId = look.theme /\ painted = look /\ mirror = look /\ backdrop = look

(* For the same user no theme he made is ever lost, nor its last edit, and a *)
(* deleted one does not come back.                                           *)
ThemesKept == Resting /\ ~rash => saved.customs = mine /\ customs = mine

(* At rest one theme is shown everywhere, and the themes are the user's      *)
(* (themeStore.js, ThemeBuilder.jsx).                                        *)
ThemesAgree == OneTheme /\ ThemesKept
=============================================================================
