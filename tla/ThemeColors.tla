----------------------------- MODULE ThemeColors -----------------------------
(* What is in a colour table of the theme builder (themeDerive.js, color.js, *)
(* ThemeBuilder.jsx): the primaries the user picks, the colours derived from *)
(* them, a derived colour pinned by hand, and Auto-fix.  A colour is its     *)
(* shade, 0 black and White white, and contrast the distance of two shades:  *)
(* hue and chroma have no part in which text can be read.  Of the derived    *)
(* colours the two that are text are kept.                                   *)
EXTENDS Integers, Sequences

CONSTANTS White,       \* the lightest shade
          Strong,      \* contrast the text needs (7:1)
          Plain,       \* contrast every other colour needs (4.5:1)
          MaxRecolors     \* bound: edits of a table

\* The scale is that of 21:1, on which 7:1 and 4.5:1 do not both find room one after the other.
ASSUME ColorAssumption ==
    /\ White \in Nat /\ Plain \in 1 .. White /\ Strong \in Plain .. White /\ White < Plain + Strong
    /\ MaxRecolors \in Nat

VARIABLES colors,      \* the draft's table
          recolors
colorVars == <<colors, recolors>>

Shades       == 0 .. White
PRIMARY_KEYS == {"bg", "panel", "ink", "gold"}
DERIVED_KEYS == {"muted", "inkOnGold"}
TOKEN_KEYS   == PRIMARY_KEYS \cup DERIVED_KEYS
primariesOf(t) == [k \in PRIMARY_KEYS |-> t[k]]

----------------------------------------------------------------------------
(* color.js *)

Clamped(x)   == IF x < 0 THEN 0 ELSE IF x > White THEN White ELSE x
contrast(a, b) == IF a > b THEN a - b ELSE b - a
\* tenths of the way from a to b
mix(a, b, tenths) == (a * (10 - tenths) + b * tenths + 5) \div 10
adjustL(c, by) == Clamped(c + by)

\* Away from bg on the side where fg is, as far as it must, or to the end of the scale.
ensureContrast(fg, bg, min) ==
    IF contrast(fg, bg) >= min THEN fg
    ELSE IF fg >= bg THEN Clamped(bg + min) ELSE Clamped(bg - min)

----------------------------------------------------------------------------
(* themeDerive.js *)

isLightTheme(p) == p["ink"] < p["bg"]

\* A derived colour that is text reads on both surfaces.
legibleOnPanel(c, p) == ensureContrast(c, p["panel"], Plain)                   \* mutant
legible(c, p) == ensureContrast(ensureContrast(c, p["panel"], Plain), p["bg"], Plain)

derive(p) ==
    LET light == isLightTheme(p)
        hi    == adjustL(p["panel"], 1)
        muted == mix(p["ink"], p["panel"], IF light THEN 3 ELSE 4)
        on    == mix(p["gold"], IF light THEN hi ELSE p["bg"], 9)
    IN  [k \in TOKEN_KEYS |->
           IF k = "muted" THEN legible(muted, p)
           ELSE IF k = "inkOnGold" THEN ensureContrast(on, p["gold"], Plain)
           ELSE p[k]]

\* A derived colour keeps its distance from what the formula gives.
rederive(t, next) ==
    LET before == derive(primariesOf(t))
        after  == derive(next)
    IN  [k \in TOKEN_KEYS |-> IF k \in DERIVED_KEYS THEN Clamped(after[k] + t[k] - before[k]) ELSE after[k]]

Rule(fg, bg, min) == [fg |-> fg, bg |-> bg, min |-> min]
CONTRAST_RULES == << Rule("ink", "panel", Strong), Rule("ink", "bg", Strong), Rule("muted", "panel", Plain),
                     Rule("muted", "bg", Plain), Rule("gold", "panel", Plain), Rule("inkOnGold", "gold", Plain) >>

TooFaint(t, r)       == contrast(t[r.fg], t[r.bg]) < r.min
contrastIssues(t) == {i \in DOMAIN CONTRAST_RULES : TooFaint(t, CONTRAST_RULES[i])}

\* Each issue the table had is nudged, in the order of the rules.
Nudged(t, r) == [t EXCEPT ![r.fg] = ensureContrast(t[r.fg], t[r.bg], r.min)]
autoFixContrast(t) ==
    LET upTo[i \in 0 .. Len(CONTRAST_RULES)] ==
            IF i = 0 THEN t
            ELSE IF i \in contrastIssues(t) THEN Nudged(upTo[i - 1], CONTRAST_RULES[i]) ELSE upTo[i - 1]
    IN  upTo[Len(CONTRAST_RULES)]

----------------------------------------------------------------------------
(* ThemeBuilder.jsx: the pickers, the reset buttons, Auto-fix. *)

Edit(new) == recolors < MaxRecolors /\ recolors' = recolors + 1 /\ new # colors /\ colors' = new

setPrimary(k, c)  == Edit(rederive(colors, [primariesOf(colors) EXCEPT ![k] = c]))
setDerived(k, c)  == Edit([colors EXCEPT ![k] = c])
resetDerived(k)   == Edit([colors EXCEPT ![k] = derive(primariesOf(colors))[k]])
AutoFix ==
    /\ contrastIssues(colors) # {}
    /\ colors' = autoFixContrast(colors)
    /\ UNCHANGED recolors

ColorsInit ==
    /\ \E p \in [PRIMARY_KEYS -> Shades] : colors = derive(p)
    /\ recolors = 0
ColorsNext ==
    \/ \E k \in PRIMARY_KEYS, c \in Shades : setPrimary(k, c)
    \/ \E k \in DERIVED_KEYS, c \in Shades : setDerived(k, c)
    \/ \E k \in DERIVED_KEYS : resetDerived(k)
    \/ AutoFix
ColorsSpec == ColorsInit /\ [][ColorsNext]_colorVars

----------------------------------------------------------------------------
(* Properties. *)

(* "Sensible defaults never violate the linter's floors"                     *)
(* (themeDerive.js:83-86): where the text and the accent the user picked can *)
(* be read, so can every colour derived from them.                           *)
SensibleDefaults ==
    LET t == derive(primariesOf(colors))
        Reads(fgs) == \A i \in DOMAIN CONTRAST_RULES :
                         CONTRAST_RULES[i].fg \in fgs => ~TooFaint(t, CONTRAST_RULES[i])
    IN  Reads({"ink", "gold"}) => Reads(DERIVED_KEYS)

\* Some shade on the side where fg is can be read on every surface fg is on.
Room(t, fg) ==
    LET on == {i \in DOMAIN CONTRAST_RULES : CONTRAST_RULES[i].fg = fg}
        up == \A i \in on : t[fg] >= t[CONTRAST_RULES[i].bg]
    IN  \/ up /\ \A i \in on : t[CONTRAST_RULES[i].bg] + CONTRAST_RULES[i].min <= White
        \/ /\ \A i \in on : t[fg] < t[CONTRAST_RULES[i].bg]
           /\ \A i \in on : t[CONTRAST_RULES[i].bg] - CONTRAST_RULES[i].min >= 0

(* Auto-fix makes every colour readable that has room on its side, whatever  *)
(* was picked and pinned before, and leaves the surfaces alone; a second     *)
(* press may be needed, as the first one can move the accent under the text  *)
(* that is on it.                                                            *)
TwoPressesDo ==
    LET twice == autoFixContrast(autoFixContrast(colors))
    IN  /\ \A k \in {"bg", "panel"} : twice[k] = colors[k]
        /\ (\A fg \in {"ink", "muted", "gold"} : Room(colors, fg)) /\ Room(autoFixContrast(colors), "inkOnGold")
              => contrastIssues(twice) = {}

(* The builder's colours can be read, at once or after two presses of fix.  *)
ColorsAreLegible == SensibleDefaults /\ TwoPressesDo
=============================================================================
