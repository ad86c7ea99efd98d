--------------------------- MODULE SettingsProofs ---------------------------
(* The settings keep what the user wished, and the colour theme's copies    *)
(* agree, whatever is asked of the backend meanwhile: for any bounds.       *)
EXTENDS Settings, Theme, SequenceTheorems, FiniteSetTheorems, TLAPS

(* The settings: their saves go one after the other.                        *)

Values == {Default, Mine}
Full   == [Keys -> Values]
Whats  == {"boot", "knob", "form", "save", "flush", "pick"}
Requests == {r \in [what : Whats, patch : Patches \cup {Absent}, answer : Full \cup {Absent}] :
                 r.patch = Absent <=> r.what \in {"boot", "knob", "form"}}

\* A setting that nobody touched goes nowhere but as it was.
CleanPatch(p, T) == \A k \in Keys \ T : k \in DOMAIN p => p[k] = Mine
Clean(T)   == {r \in Requests : /\ r.patch # Absent => CleanPatch(r.patch, T)
                                /\ r.answer # Absent => CleanPatch(r.answer, T)
                                /\ r.what = "flush" => DOMAIN PRESET \subseteq T}
CleanSaves(T)   == {r \in Clean(T) : r.patch # Absent /\ r.answer = Absent}
\* The backend answers in the order it takes.
AnsweredFirst(w) == \E n \in 0..Len(w) : \A i \in 1..Len(w) : w[i].answer # Absent <=> i <= n
SettingsTypes ==
    /\ touched \in SUBSET Keys /\ hurried \in BOOLEAN /\ lost \in Nat /\ wished \in Full
    /\ settings \in Full /\ CleanPatch(settings, touched)
    /\ copy # Absent => copy \in Full /\ CleanPatch(copy, touched)
    /\ wire \in Seq(Clean(touched)) /\ AnsweredFirst(wire) /\ saves \in Seq(CleanSaves(touched))
    /\ formArmed \in BOOLEAN
    /\ form # Absent => form \in [Filters -> Values] /\ (formArmed => CleanPatch(form, touched))
    /\ formDue # Absent => formDue \in [Filters -> Values] /\ CleanPatch(formDue, touched)
    /\ knob # Absent => knob \in Values /\ CleanPatch(weightOf(knob), touched)
    /\ knobDue # Absent => knobDue \in Values /\ CleanPatch(weightOf(knobDue), touched)
    /\ pick \in {"idle", "flushing", "flushed", "saving"}
    /\ pick # "idle" => DOMAIN PRESET \subseteq touched

-----------------------------------------------------------------------------
\* What the backend will have under a key once the saves are in: w are under way, q wait.
Going(r) == r.patch # Absent /\ r.answer = Absent
Ahead(st, w, k, v) ==
    /\ \A i \in 1..Len(w) : Going(w[i]) /\ k \in DOMAIN w[i].patch => w[i].patch[k] = v
    /\ (\A i \in 1..Len(w) : ~(Going(w[i]) /\ k \in DOMAIN w[i].patch)) => st[k] = v
Ends(st, w, q, k, v) ==
    /\ \A i \in 1..Len(q) :
          k \in DOMAIN q[i].patch /\ (\A j \in i+1..Len(q) : k \notin DOMAIN q[j].patch) => q[i].patch[k] = v
    /\ (\A i \in 1..Len(q) : k \notin DOMAIN q[i].patch) => Ahead(st, w, k, v)

OneSave(w)  == \A i, j \in 1..Len(w) : w[i].patch # Absent /\ w[j].patch # Absent => i = j
\* An edit sent before a preset, and the preset, have no save after them.
Special(r)  == r.what \in {"flush", "pick"}
GoesWith(r, pk) == (r.what = "flush" => pk = "flushing") /\ (r.what = "pick" => pk = "saving")
Specials(w, q, pk) ==
    /\ \A i \in 1..Len(q) : Special(q[i]) => i = Len(q) /\ GoesWith(q[i], pk)
    /\ \A i \in 1..Len(w) : Special(w[i]) => q = <<>> /\ GoesWith(w[i], pk)

\* The copy is of the backend's last change, or an answer on its way is.
Told(w, st, c) ==
    /\ \A i \in 1..Len(w) : w[i].answer # Absent /\ (\A j \in i+1..Len(w) : w[j].answer # Absent => w[j].patch = Absent)
                               => w[i].answer = st
    /\ (\A i \in 1..Len(w) : w[i].answer # Absent => w[i].patch = Absent) => c = Absent \/ c = st

Asks(w, whats) == \E i \in 1..Len(w) : w[i].what \in whats

Line(w, q, pk) == OneSave(w) /\ Specials(w, q, pk)
IsDue(k) ==
    \/ k \in Filters /\ formDue # Absent
    \/ k = "weight" /\ knobDue # Absent
    \/ pick \in {"flushing", "flushed"} /\ k \in DOMAIN PRESET
Dues ==
    /\ formDue # Absent => formDue = filtersFromSettings(wished)
    /\ knobDue # Absent => knobDue = wished["weight"]
    /\ pick \in {"flushing", "flushed"} => \A k \in DOMAIN PRESET : wished[k] = PRESET[k]
    /\ pick # "idle" => formDue = Absent /\ knobDue = Absent
Comes == \A k \in Keys : IsDue(k) \/ Ends(settings, wire, saves, k, wished[k])
Shows ==
    /\ form = Absent => knob = Absent /\ formDue = Absent /\ knobDue = Absent /\ ~Asks(wire, {"form", "knob"})
    /\ form # Absent /\ formArmed /\ pick = "idle" => form = filtersFromSettings(wished)
    /\ form # Absent /\ ~formArmed => Asks(wire, {"form"})
    /\ knob # Absent /\ pick = "idle" => knob = wished["weight"]
    /\ Asks(wire, {"form", "knob"}) /\ pick = "idle" => saves = <<>> /\ formDue = Absent /\ knobDue = Absent /\ ~Out(wire)
Calm ==
    /\ Line(wire, saves, pick) /\ (~Out(wire) => saves = <<>>)
    /\ Told(wire, settings, copy) /\ Dues /\ Comes /\ Shows

WishInv == SettingsTypes /\ (~hurried /\ lost = 0 => Calm)

-----------------------------------------------------------------------------
LEMMA OnePart ==
    ASSUME NEW T, NEW r \in Clean(T)
    PROVE  /\ r.what \in Whats /\ r.patch \in Patches \cup {Absent} /\ r.answer \in Full \cup {Absent}
           /\ r \in [what : Whats, patch : Patches \cup {Absent}, answer : Full \cup {Absent}]
           /\ r.patch = Absent <=> r.what \in {"boot", "knob", "form"}
           /\ Special(r) => r.patch # Absent
BY DEF Clean, Requests, Special

LEMMA Values01 == Absent \notin Values /\ Absent \notin Full /\ Absent \notin [Filters -> Values] /\ Absent \notin Patches
<1>1. Keys \in SUBSET Keys /\ Filters \in SUBSET Keys
  BY DEF Keys, Filters
<1> QED
  BY <1>1, SettingsAssumption DEF SettingsAssumption, Patches, Values, Full

LEMMA PatchesAre ==
    /\ \A f \in [Filters -> Values] : f \in Patches /\ f # Absent /\ DOMAIN f = Filters
    /\ \A v \in Values : weightOf(v) \in Patches /\ weightOf(v) # Absent /\ DOMAIN weightOf(v) = {"weight"} /\ weightOf(v)["weight"] = v
    /\ PRESET \in Patches /\ PRESET # Absent /\ DOMAIN PRESET = {"margin", "weight"} /\ DOMAIN PRESET \subseteq Keys
<1>1. Filters \in SUBSET Keys /\ {"weight"} \in SUBSET Keys /\ {"margin", "weight"} \in SUBSET Keys
  BY DEF Keys, Filters
<1>2. \A f \in [Filters -> Values] : f \in Patches
  BY <1>1 DEF Patches, Values
<1>3. \A v \in Values : weightOf(v) \in [{"weight"} -> Values]
  BY DEF weightOf
<1>4. PRESET \in [{"margin", "weight"} -> Values]
  BY DEF PRESET, Values
<1>5. PRESET \in Patches /\ \A v \in Values : weightOf(v) \in Patches
  BY <1>1, <1>3, <1>4 DEF Patches, Values
<1> QED
  BY <1>1, <1>2, <1>3, <1>4, <1>5, Values01 DEF weightOf, PRESET

LEMMA PatchIs ==
    ASSUME NEW p \in Patches
    PROVE  DOMAIN p \subseteq Keys /\ \A k \in DOMAIN p : p[k] \in Values
BY DEF Patches, Values

LEMMA OverIs ==
    ASSUME NEW st \in Full, NEW p \in Patches
    PROVE  Over(st, p) \in Full /\ \A k \in Keys : Over(st, p)[k] = IF k \in DOMAIN p THEN p[k] ELSE st[k]
BY PatchIs DEF Over, Full

LEMMA Mentions ==
    ASSUME NEW T, NEW p, CleanPatch(p, T), NEW T2, T \subseteq T2
    PROVE  CleanPatch(p, T2)
BY DEF CleanPatch

LEMMA CleanGrows ==
    ASSUME NEW T, NEW T2, T \subseteq T2
    PROVE  Clean(T) \subseteq Clean(T2) /\ CleanSaves(T) \subseteq CleanSaves(T2)
BY DEF Clean, CleanSaves, CleanPatch

-----------------------------------------------------------------------------
\* Without its i-th a sequence has the others, those after it one place earlier.
LEMMA AllButIs ==
    ASSUME NEW S, NEW w \in Seq(S), NEW i \in 1..Len(w)
    PROVE  /\ AllBut(w, i) \in Seq(S) /\ Len(AllBut(w, i)) = Len(w) - 1
           /\ \A j \in 1..Len(w) - 1 : AllBut(w, i)[j] = IF j < i THEN w[j] ELSE w[j + 1]
<1> DEFINE a == SubSeq(w, 1, i - 1)
           b == SubSeq(w, i + 1, Len(w))
<1>1. Len(w) \in Nat /\ \A j \in 1..Len(w) : w[j] \in S
  BY LenProperties, ElementOfSeq
<1>2. a \in Seq(S) /\ Len(a) = i - 1 /\ \A j \in 1..i-1 : a[j] = w[j]
  BY <1>1, SubSeqProperties
<1>3. b \in Seq(S) /\ Len(b) = Len(w) - i /\ \A j \in 1..Len(w)-i : b[j] = w[i + j]
  <2>1. i + 1 \in 1..Len(w) + 1 /\ Len(w) \in i..Len(w)
    BY <1>1
  <2>2. b \in Seq(S) /\ Len(b) = Len(w) - i
    BY <1>1, <2>1, SubSeqProperties
  <2>3. \A j \in 1..Len(w)-i : b[j] = w[(i + 1) + j - 1]
    BY <1>1, <2>1, <2>2, SubSeqProperties
  <2> QED
    BY <1>1, <2>2, <2>3
<1> HIDE DEF a, b
<1> DEFINE c == a \o b
<1>4. c \in Seq(S) /\ Len(c) = Len(a) + Len(b)
      /\ \A j \in 1..Len(a) + Len(b) : c[j] = IF j <= Len(a) THEN a[j] ELSE b[j - Len(a)]
  BY <1>2, <1>3, ConcatProperties
<1> HIDE DEF c
<1>5. i \in Int /\ Len(a) + Len(b) = Len(w) - 1
  BY <1>1, <1>2, <1>3
<1>6. ASSUME NEW j \in 1..Len(w) - 1 PROVE c[j] = IF j < i THEN w[j] ELSE w[j + 1]
  <2>0. j \in 1..Len(a) + Len(b)
    BY <1>5
  <2>1. CASE j < i
    <3>1. j \in 1..i-1 /\ j <= Len(a)
      BY <1>1, <1>2, <2>1
    <3> QED
      BY <1>2, <1>4, <2>0, <2>1, <3>1
  <2>2. CASE ~(j < i)
    <3>1. ~(j <= Len(a)) /\ j - Len(a) \in 1..Len(w) - i /\ i + (j - Len(a)) = j + 1
      BY <1>1, <1>2, <2>2
    <3>2. c[j] = b[j - Len(a)]
      BY <1>4, <2>0, <3>1
    <3>3. b[j - Len(a)] = w[j + 1]
      BY <1>3, <3>1
    <3> QED
      BY <2>2, <3>2, <3>3
  <2> QED
    BY <2>1, <2>2
<1> QED
  BY <1>4, <1>5, <1>6 DEF AllBut, a, b, c

\* The i-th moved up behind the first n, with an answer.
Moved(w, i, n, e) == SubSeq(AllBut(w, i), 1, n) \o <<e>> \o SubSeq(AllBut(w, i), n + 1, Len(AllBut(w, i)))
LEMMA MovedIs ==
    ASSUME NEW S, NEW w \in Seq(S), NEW i \in 1..Len(w), NEW n \in Nat, n < i, NEW e \in S
    PROVE  /\ Moved(w, i, n, e) \in Seq(S) /\ Len(Moved(w, i, n, e)) = Len(w)
           /\ \A j \in 1..Len(w) : Moved(w, i, n, e)[j] =
                 IF j <= n THEN w[j] ELSE IF j = n + 1 THEN e ELSE IF j <= i THEN w[j - 1] ELSE w[j]
<1> DEFINE r == AllBut(w, i)
           a == SubSeq(r, 1, n)
           b == SubSeq(r, n + 1, Len(r))
<1>1. /\ Len(w) \in Nat /\ r \in Seq(S) /\ Len(r) = Len(w) - 1
      /\ \A j \in 1..Len(r) : r[j] = IF j < i THEN w[j] ELSE w[j + 1]
  BY LenProperties, AllButIs
<1> HIDE DEF r
<1>2. \A j \in 1..Len(r) : r[j] \in S
  BY <1>1, ElementOfSeq
<1>3. a \in Seq(S) /\ Len(a) = n /\ \A j \in 1..n : a[j] = r[j]
  BY <1>1, <1>2, SubSeqProperties
<1>4. b \in Seq(S) /\ Len(b) = Len(r) - n /\ \A j \in 1..Len(r)-n : b[j] = r[n + j]
  <2>1. n + 1 \in 1..Len(r) + 1 /\ Len(r) \in n..Len(r)
    BY <1>1
  <2>2. b \in Seq(S) /\ Len(b) = Len(r) - n
    BY <1>1, <1>2, <2>1, SubSeqProperties
  <2>3. \A j \in 1..Len(r)-n : b[j] = r[(n + 1) + j - 1]
    BY <1>1, <1>2, <2>1, <2>2, SubSeqProperties
  <2> QED
    BY <1>1, <2>2, <2>3
<1> HIDE DEF a, b
<1>5. <<e>> \in Seq(S) /\ Len(<<e>>) = 1 /\ <<e>>[1] = e
  OBVIOUS
<1> DEFINE ae == a \o <<e>>
<1>6. ae \in Seq(S) /\ Len(ae) = n + 1 /\ \A j \in 1..n+1 : ae[j] = IF j <= n THEN r[j] ELSE e
  <2>1. ae \in Seq(S) /\ Len(ae) = Len(a) + Len(<<e>>)
        /\ \A j \in 1..Len(a) + Len(<<e>>) : ae[j] = IF j <= Len(a) THEN a[j] ELSE <<e>>[j - Len(a)]
    BY <1>3, <1>5, ConcatProperties
  <2> HIDE DEF ae
  <2> QED
    BY <1>3, <1>5, <2>1
<1> HIDE DEF ae
<1> DEFINE c == ae \o b
<1>7. c \in Seq(S) /\ Len(c) = Len(ae) + Len(b)
      /\ \A j \in 1..Len(ae) + Len(b) : c[j] = IF j <= Len(ae) THEN ae[j] ELSE b[j - Len(ae)]
  BY <1>4, <1>6, ConcatProperties
<1> HIDE DEF c
<1>8. i \in Int /\ Len(ae) + Len(b) = Len(w)
  BY <1>1, <1>4, <1>6
<1>9. ASSUME NEW j \in 1..Len(w)
      PROVE  c[j] = IF j <= n THEN w[j] ELSE IF j = n + 1 THEN e ELSE IF j <= i THEN w[j - 1] ELSE w[j]
  <2>0. j \in 1..Len(ae) + Len(b)
    BY <1>8
  <2>1. CASE j <= n
    <3>1. j \in 1..n+1 /\ j <= Len(ae) /\ j \in 1..Len(r) /\ j < i
      BY <1>1, <1>6, <2>1
    <3>2. r[j] = w[j]
      BY <1>1, <3>1
    <3> QED
      BY <1>6, <1>7, <2>0, <2>1, <3>1, <3>2
  <2>2. CASE j = n + 1
    <3>1. j \in 1..n+1 /\ j <= Len(ae) /\ ~(j <= n)
      BY <1>1, <1>6, <2>2
    <3> QED
      BY <1>6, <1>7, <2>0, <2>2, <3>1
  <2>3. CASE j > n + 1
    <3>1. ~(j <= Len(ae)) /\ j - Len(ae) \in 1..Len(r) - n /\ n + (j - Len(ae)) = j - 1 /\ j - 1 \in 1..Len(r)
      BY <1>1, <1>6, <2>3
    <3>2. c[j] = b[j - Len(ae)]
      BY <1>7, <2>0, <3>1
    <3>3. b[j - Len(ae)] = r[j - 1]
      BY <1>4, <3>1
    <3>4. (j - 1 < i <=> j <= i) /\ (j - 1) + 1 = j /\ ~(j <= n) /\ j # n + 1
      BY <1>1, <2>3
    <3>5. r[j - 1] = IF j <= i THEN w[j - 1] ELSE w[j]
      BY <1>1, <3>1, <3>4
    <3> QED
      BY <3>2, <3>3, <3>4, <3>5
  <2> QED
    BY <2>1, <2>2, <2>3
<1> QED
  BY <1>7, <1>8, <1>9 DEF Moved, r, a, b, ae, c

\* Reads nobody hears any more are the same requests under another name.
LEMMA UnheardIs ==
    ASSUME NEW T, NEW w \in Seq(Clean(T)), NEW whats \in SUBSET {"form", "knob"}
    PROVE  /\ Unheard(w, whats) \in Seq(Clean(T)) /\ Len(Unheard(w, whats)) = Len(w)
           /\ \A i \in 1..Len(w) : /\ Unheard(w, whats)[i].patch = w[i].patch /\ Unheard(w, whats)[i].answer = w[i].answer
                                  /\ Unheard(w, whats)[i].what = IF w[i].what \in whats THEN "boot" ELSE w[i].what
<1>1. Len(w) \in Nat /\ DOMAIN w = 1..Len(w) /\ \A i \in 1..Len(w) : w[i] \in Clean(T)
  BY LenProperties, ElementOfSeq
<1> DEFINE u(r) == IF r.what \in whats THEN [r EXCEPT !.what = "boot"] ELSE r
<1>2. ASSUME NEW r \in Clean(T)
      PROVE  /\ u(r) \in Clean(T) /\ u(r).patch = r.patch /\ u(r).answer = r.answer
             /\ u(r).what = IF r.what \in whats THEN "boot" ELSE r.what
  <2>1. r \in [what : Whats, patch : Patches \cup {Absent}, answer : Full \cup {Absent}]
    BY OnePart
  <2>2. CASE r.what \in whats
    <3> DEFINE e == [r EXCEPT !.what = "boot"]
    <3>1. e \in [what : Whats, patch : Patches \cup {Absent}, answer : Full \cup {Absent}]
          /\ e.what = "boot" /\ e.patch = r.patch /\ e.answer = r.answer
      BY <2>1 DEF Whats
    <3>2. r.patch = Absent
      BY <2>2, OnePart
    <3> HIDE DEF e
    <3>3. e \in Clean(T)
      BY <3>1, <3>2 DEF Clean, Requests
    <3> QED
      BY <2>2, <3>1, <3>3 DEF e
  <2>3. CASE r.what \notin whats
    BY <2>3
  <2> QED
    BY <2>2, <2>3
<1>3. Unheard(w, whats) = [i \in 1..Len(w) |-> u(w[i])]
  BY <1>1 DEF Unheard
<1> HIDE DEF u
<1>4. Unheard(w, whats) \in [1..Len(w) -> Clean(T)]
  BY <1>1, <1>2, <1>3
<1>5. Unheard(w, whats) \in Seq(Clean(T)) /\ Len(Unheard(w, whats)) = Len(w)
  BY <1>1, <1>4
<1> QED
  BY <1>1, <1>2, <1>3, <1>5

-----------------------------------------------------------------------------
LEMMA WireIs ==
    ASSUME NEW T, NEW w \in Seq(Clean(T))
    PROVE  /\ Len(w) \in Nat /\ DOMAIN w = 1..Len(w) /\ \A i \in 1..Len(w) : w[i] \in Clean(T)
           /\ Out(w) <=> \E i \in 1..Len(w) : w[i].patch # Absent
BY LenProperties, ElementOfSeq DEF Out

SameGoing(w, x) ==
    /\ \A i \in 1..Len(w) : Going(w[i]) => \E j \in 1..Len(x) : Going(x[j]) /\ x[j].patch = w[i].patch
    /\ \A j \in 1..Len(x) : Going(x[j]) => \E i \in 1..Len(w) : Going(w[i]) /\ x[j].patch = w[i].patch

LEMMA EndsSame ==
    ASSUME NEW st, NEW w, NEW x, NEW q, NEW k, NEW v, SameGoing(w, x), Ends(st, w, q, k, v)
    PROVE  Ends(st, x, q, k, v)
<1>1. Ahead(st, w, k, v) => Ahead(st, x, k, v)
  <2> SUFFICES ASSUME Ahead(st, w, k, v) PROVE Ahead(st, x, k, v)
    OBVIOUS
  <2>1. ASSUME NEW j \in 1..Len(x), Going(x[j]), k \in DOMAIN x[j].patch PROVE x[j].patch[k] = v
    <3>1. PICK i \in 1..Len(w) : Going(w[i]) /\ x[j].patch = w[i].patch
      BY <2>1 DEF SameGoing
    <3> QED
      BY <2>1, <3>1 DEF Ahead
  <2>2. ASSUME \A i \in 1..Len(x) : ~(Going(x[i]) /\ k \in DOMAIN x[i].patch)
        PROVE  \A i \in 1..Len(w) : ~(Going(w[i]) /\ k \in DOMAIN w[i].patch)
    BY <2>2 DEF SameGoing
  <2> QED
    BY <2>1, <2>2 DEF Ahead
<1> QED
  BY <1>1 DEF Ends

\* A save that waits last tells of its own settings, and of no other.
LEMMA WaitsLast ==
    ASSUME NEW T, NEW st, NEW w, NEW q \in Seq(CleanSaves(T)), NEW p \in CleanSaves(T), NEW k, NEW v
    PROVE  /\ Append(q, p) \in Seq(CleanSaves(T))
           /\ k \in DOMAIN p.patch => Ends(st, w, Append(q, p), k, p.patch[k])
           /\ (k \notin DOMAIN p.patch /\ Ends(st, w, q, k, v)) => Ends(st, w, Append(q, p), k, v)
<1> DEFINE a == Append(q, p)
<1>1. /\ Len(q) \in Nat /\ Len(a) = Len(q) + 1 /\ a[Len(a)] = p /\ a \in Seq(CleanSaves(T))
      /\ \A i \in 1..Len(q) : a[i] = q[i]
  BY AppendProperties, LenProperties
<1> HIDE DEF a
<1>2. ASSUME k \in DOMAIN p.patch PROVE Ends(st, w, a, k, p.patch[k])
  <2>1. \A i \in 1..Len(a) : (\A j \in i+1..Len(a) : k \notin DOMAIN a[j].patch) => i = Len(a)
    BY <1>1, <1>2
  <2>2. ~\A i \in 1..Len(a) : k \notin DOMAIN a[i].patch
    BY <1>1, <1>2
  <2> QED
    BY <1>1, <2>1, <2>2 DEF Ends
<1>3. ASSUME k \notin DOMAIN p.patch, Ends(st, w, q, k, v) PROVE Ends(st, w, a, k, v)
  <2>1. ASSUME NEW i \in 1..Len(a), k \in DOMAIN a[i].patch, \A j \in i+1..Len(a) : k \notin DOMAIN a[j].patch
        PROVE  a[i].patch[k] = v
    <3>1. i \in 1..Len(q)
      BY <1>1, <1>3, <2>1
    <3>2. \A j \in i+1..Len(q) : k \notin DOMAIN q[j].patch
      BY <1>1, <2>1
    <3> QED
      BY <1>1, <1>3, <2>1, <3>1, <3>2 DEF Ends
  <2>2. (\A i \in 1..Len(a) : k \notin DOMAIN a[i].patch) => \A i \in 1..Len(q) : k \notin DOMAIN q[i].patch
    BY <1>1
  <2> QED
    BY <1>3, <2>1, <2>2 DEF Ends
<1> QED
  BY <1>1, <1>2, <1>3 DEF a

LEMMA DueIs ==
    ASSUME NEW T, NEW q \in Seq(CleanSaves(T)), NEW p, p # Absent => p \in Patches /\ CleanPatch(p, T),
           NEW what \in {"save", "flush", "pick"}, what = "flush" => DOMAIN PRESET \subseteq T
    PROVE  /\ q \o Due(what, p) = (IF p = Absent THEN q ELSE Append(q, Save(what, p)))
           /\ p # Absent => /\ Save(what, p) \in CleanSaves(T) /\ Save(what, p).what = what /\ Save(what, p).patch = p
                            /\ Save(what, p).answer = Absent
<1>1. CASE p = Absent
  BY <1>1, ConcatEmptySeq DEF Due
<1>2. CASE p # Absent
  <2>1. Save(what, p) \in [what : Whats, patch : Patches \cup {Absent}, answer : Full \cup {Absent}]
        /\ Save(what, p).what = what /\ Save(what, p).patch = p /\ Save(what, p).answer = Absent
    BY <1>2 DEF Save, Request, Whats
  <2>2. Save(what, p) \in CleanSaves(T)
    BY <1>2, <2>1 DEF CleanSaves, Clean, Requests
  <2>3. q \o Due(what, p) = Append(q, Save(what, p))
    BY <1>2, <2>2, AppendIsConcat DEF Due
  <2> QED
    BY <1>2, <2>1, <2>2, <2>3
<1> QED
  BY <1>1, <1>2

LEMMA ReadIs ==
    ASSUME NEW T, NEW what \in {"boot", "knob", "form"}
    PROVE  Read(what) \in Clean(T) /\ Read(what).what = what /\ Read(what).patch = Absent /\ Read(what).answer = Absent
<1>1. Read(what) \in [what : Whats, patch : Patches \cup {Absent}, answer : Full \cup {Absent}]
      /\ Read(what).what = what /\ Read(what).patch = Absent /\ Read(what).answer = Absent
  BY DEF Read, Request, Whats
<1> QED
  BY <1>1 DEF Clean, Requests

\* A request that goes out.
LEMMA GoesOut ==
    ASSUME NEW T, NEW w \in Seq(Clean(T)), NEW r \in Clean(T), r.answer = Absent, NEW st, NEW c, NEW whats
    PROVE  /\ Append(w, r) \in Seq(Clean(T))
           /\ AnsweredFirst(w) => AnsweredFirst(Append(w, r))
           /\ Told(w, st, c) => Told(Append(w, r), st, c)
           /\ Asks(Append(w, r), whats) <=> (Asks(w, whats) \/ r.what \in whats)
           /\ (OneSave(w) /\ (r.patch = Absent \/ ~Out(w))) => OneSave(Append(w, r))
           /\ Out(Append(w, r)) <=> (Out(w) \/ r.patch # Absent)
           /\ r.patch = Absent => SameGoing(w, Append(w, r))
<1> DEFINE a == Append(w, r)
<1>1. /\ Len(w) \in Nat /\ Len(a) = Len(w) + 1 /\ a[Len(a)] = r /\ a \in Seq(Clean(T))
      /\ \A i \in 1..Len(w) : a[i] = w[i]
  BY AppendProperties, LenProperties
<1> HIDE DEF a
<1>2. 1..Len(a) = 1..Len(w) \cup {Len(a)} /\ Len(a) \notin 1..Len(w)
  BY <1>1
<1>3. AnsweredFirst(w) => AnsweredFirst(a)
  <2> SUFFICES ASSUME NEW n \in 0..Len(w), \A i \in 1..Len(w) : w[i].answer # Absent <=> i <= n
               PROVE  AnsweredFirst(a)
    BY DEF AnsweredFirst
  <2>1. n \in 0..Len(a) /\ \A i \in 1..Len(a) : a[i].answer # Absent <=> i <= n
    BY <1>1, <1>2
  <2> QED
    BY <2>1 DEF AnsweredFirst
<1>4. Told(w, st, c) => Told(a, st, c)
  <2> SUFFICES ASSUME Told(w, st, c) PROVE Told(a, st, c)
    OBVIOUS
  <2>1. ASSUME NEW i \in 1..Len(a), a[i].answer # Absent, \A j \in i+1..Len(a) : a[j].answer # Absent => a[j].patch = Absent
        PROVE  a[i].answer = st
    <3>1. i \in 1..Len(w)
      BY <1>1, <1>2, <2>1
    <3>2. \A j \in i+1..Len(w) : w[j].answer # Absent => w[j].patch = Absent
      BY <1>1, <2>1
    <3> QED
      BY <1>1, <2>1, <3>1, <3>2 DEF Told
  <2>2. ASSUME \A i \in 1..Len(a) : a[i].answer # Absent => a[i].patch = Absent
        PROVE  \A i \in 1..Len(w) : w[i].answer # Absent => w[i].patch = Absent
    BY <1>1, <2>2
  <2> QED
    BY <2>1, <2>2 DEF Told
<1>5. Asks(a, whats) <=> (Asks(w, whats) \/ r.what \in whats)
  BY <1>1, <1>2 DEF Asks
<1>6. Out(a) <=> (Out(w) \/ r.patch # Absent)
  BY <1>1, <1>2, WireIs
<1>7. (OneSave(w) /\ (r.patch = Absent \/ ~Out(w))) => OneSave(a)
  BY <1>1, <1>2, WireIs DEF OneSave
<1>8. r.patch = Absent => SameGoing(w, a)
  BY <1>1, <1>2 DEF SameGoing, Going
<1> QED
  BY <1>1, <1>3, <1>4, <1>5, <1>6, <1>7, <1>8 DEF a

LEMMA UnheardKeeps ==
    ASSUME NEW T, NEW w \in Seq(Clean(T)), NEW whats \in SUBSET {"form", "knob"}, NEW st, NEW c
    PROVE  /\ AnsweredFirst(w) => AnsweredFirst(Unheard(w, whats))
           /\ Told(w, st, c) => Told(Unheard(w, whats), st, c)
           /\ \A x \in whats : ~Asks(Unheard(w, whats), {x})
           /\ \A x \in Whats \ (whats \cup {"boot"}) : Asks(Unheard(w, whats), {x}) <=> Asks(w, {x})
           /\ OneSave(w) => OneSave(Unheard(w, whats))
           /\ Out(Unheard(w, whats)) <=> Out(w)
           /\ SameGoing(w, Unheard(w, whats))
<1> DEFINE u == Unheard(w, whats)
<1>1. /\ Len(w) \in Nat /\ Len(u) = Len(w) /\ u \in Seq(Clean(T))
      /\ \A i \in 1..Len(w) : u[i].patch = w[i].patch /\ u[i].answer = w[i].answer
      /\ \A i \in 1..Len(w) : u[i].what = IF w[i].what \in whats THEN "boot" ELSE w[i].what
  BY UnheardIs, WireIs
<1> HIDE DEF u
<1>2. AnsweredFirst(w) => AnsweredFirst(u)
  BY <1>1 DEF AnsweredFirst
<1>3. Told(w, st, c) => Told(u, st, c)
  <2> SUFFICES ASSUME Told(w, st, c) PROVE Told(u, st, c)
    OBVIOUS
  <2>1. ASSUME NEW i \in 1..Len(u), u[i].answer # Absent, \A j \in i+1..Len(u) : u[j].answer # Absent => u[j].patch = Absent
        PROVE  u[i].answer = st
    <3>1. \A j \in i+1..Len(w) : w[j].answer # Absent => w[j].patch = Absent
      BY <1>1, <2>1
    <3> QED
      BY <1>1, <2>1, <3>1 DEF Told
  <2>2. (\A i \in 1..Len(u) : u[i].answer # Absent => u[i].patch = Absent) => (c = Absent \/ c = st)
    BY <1>1 DEF Told
  <2> QED
    BY <2>1, <2>2 DEF Told
<1>4. \A x \in whats : ~Asks(u, {x})
  BY <1>1 DEF Asks
<1>5. \A x \in Whats \ (whats \cup {"boot"}) : Asks(u, {x}) <=> Asks(w, {x})
  BY <1>1 DEF Asks
<1>6. OneSave(w) => OneSave(u)
  BY <1>1 DEF OneSave
<1>7. Out(u) <=> Out(w)
  BY <1>1, WireIs
<1>8. SameGoing(w, u)
  BY <1>1 DEF SameGoing, Going
<1> QED
  BY <1>2, <1>3, <1>4, <1>5, <1>6, <1>7, <1>8 DEF u

\* The first answer is taken.
LEMMA TailKeeps ==
    ASSUME NEW T, NEW w \in Seq(Clean(T)), w # <<>>, NEW st, NEW c, NEW whats
    PROVE  /\ Tail(w) \in Seq(Clean(T)) /\ Head(w) = w[1] /\ 1 \in 1..Len(w) /\ Head(w) \in Clean(T)
           /\ AnsweredFirst(w) => AnsweredFirst(Tail(w))
           /\ (w[1].answer # Absent /\ Told(w, st, c)) => Told(Tail(w), st, w[1].answer)
           /\ Asks(w, whats) <=> (Asks(Tail(w), whats) \/ w[1].what \in whats)
           /\ OneSave(w) => OneSave(Tail(w)) /\ (w[1].patch # Absent => ~Out(Tail(w)))
           /\ Out(w) <=> (Out(Tail(w)) \/ w[1].patch # Absent)
           /\ w[1].answer # Absent => SameGoing(w, Tail(w))
<1> DEFINE t == Tail(w)
<1>1. /\ Len(w) \in Nat /\ Len(t) = Len(w) - 1 /\ t \in Seq(Clean(T)) /\ Head(w) = w[1] /\ Len(w) >= 1
      /\ \A i \in 1..Len(t) : t[i] = w[i + 1]
  BY HeadTailProperties, LenProperties, EmptySeq
<1> HIDE DEF t
<1>2. 1 \in 1..Len(w) /\ Len(t) \in Nat /\ (\A i \in 1..Len(t) : i + 1 \in 1..Len(w)) /\ w[1] \in Clean(T)
  BY <1>1, WireIs
<1>3. \A i \in 1..Len(w) : i = 1 \/ (i - 1 \in 1..Len(t) /\ t[i - 1] = w[i])
  BY <1>1
<1>4. AnsweredFirst(w) => AnsweredFirst(t)
  <2> SUFFICES ASSUME NEW n \in 0..Len(w), \A i \in 1..Len(w) : w[i].answer # Absent <=> i <= n
               PROVE  AnsweredFirst(t)
    BY DEF AnsweredFirst
  <2> DEFINE m == IF n = 0 THEN 0 ELSE n - 1
  <2>1. m \in 0..Len(t) /\ \A i \in 1..Len(t) : i <= m <=> i + 1 <= n
    BY <1>1
  <2>2. \A i \in 1..Len(t) : t[i].answer # Absent <=> i <= m
    BY <1>1, <1>2, <2>1
  <2> QED
    BY <2>1, <2>2 DEF AnsweredFirst
<1>5. (w[1].answer # Absent /\ Told(w, st, c)) => Told(t, st, w[1].answer)
  <2> SUFFICES ASSUME w[1].answer # Absent, Told(w, st, c) PROVE Told(t, st, w[1].answer)
    OBVIOUS
  <2>1. ASSUME NEW i \in 1..Len(t), t[i].answer # Absent, \A j \in i+1..Len(t) : t[j].answer # Absent => t[j].patch = Absent
        PROVE  t[i].answer = st
    <3>1. ASSUME NEW j \in (i+1)+1..Len(w), w[j].answer # Absent PROVE w[j].patch = Absent
      <4>1. j - 1 \in i+1..Len(t) /\ t[j - 1] = w[j]
        BY <1>1, <3>1
      <4> QED
        BY <2>1, <3>1, <4>1
    <3> QED
      BY <1>1, <1>2, <2>1, <3>1 DEF Told
  <2>2. ASSUME \A i \in 1..Len(t) : t[i].answer # Absent => t[i].patch = Absent PROVE w[1].answer = st
    <3>1. ASSUME NEW j \in 1+1..Len(w), w[j].answer # Absent PROVE w[j].patch = Absent
      <4>1. j - 1 \in 1..Len(t) /\ t[j - 1] = w[j]
        BY <1>1, <3>1
      <4> QED
        BY <2>2, <3>1, <4>1
    <3> QED
      BY <1>2, <3>1 DEF Told
  <2> QED
    BY <2>1, <2>2 DEF Told
<1>6. Asks(w, whats) <=> (Asks(t, whats) \/ w[1].what \in whats)
  BY <1>1, <1>2, <1>3 DEF Asks
<1>7. OneSave(w) => OneSave(t) /\ (w[1].patch # Absent => ~Out(t))
  <2> SUFFICES ASSUME OneSave(w) PROVE OneSave(t) /\ (w[1].patch # Absent => ~Out(t))
    OBVIOUS
  <2>1. ASSUME NEW i \in 1..Len(t), NEW j \in 1..Len(t), t[i].patch # Absent, t[j].patch # Absent PROVE i = j
    <3>1. i + 1 \in 1..Len(w) /\ j + 1 \in 1..Len(w) /\ w[i + 1].patch # Absent /\ w[j + 1].patch # Absent
      BY <1>1, <1>2, <2>1
    <3>2. i + 1 = j + 1
      BY <2>1, <3>1 DEF OneSave
    <3> QED
      BY <3>2
  <2>2. ASSUME w[1].patch # Absent, NEW i \in 1..Len(t), t[i].patch # Absent PROVE FALSE
    <3>1. 1 = i + 1
      BY <1>1, <1>2, <2>2 DEF OneSave
    <3> QED
      BY <3>1
  <2> QED
    BY <1>1, <2>1, <2>2, WireIs DEF OneSave
<1>8. Out(w) <=> (Out(t) \/ w[1].patch # Absent)
  <2>0. /\ Out(w) <=> \E i \in 1..Len(w) : w[i].patch # Absent
        /\ Out(t) <=> \E i \in 1..Len(t) : t[i].patch # Absent
    BY <1>1, WireIs
  <2>1. ASSUME NEW i \in 1..Len(w), w[i].patch # Absent PROVE (\E j \in 1..Len(t) : t[j].patch # Absent) \/ w[1].patch # Absent
    BY <1>3, <2>1
  <2>2. ASSUME NEW i \in 1..Len(t), t[i].patch # Absent PROVE \E j \in 1..Len(w) : w[j].patch # Absent
    BY <1>1, <1>2, <2>2
  <2> QED
    BY <1>2, <2>0, <2>1, <2>2
<1>9. ASSUME w[1].answer # Absent PROVE SameGoing(w, t)
  <2>1. ASSUME NEW i \in 1..Len(w), Going(w[i]) PROVE \E j \in 1..Len(t) : Going(t[j]) /\ t[j].patch = w[i].patch
    <3>1. i # 1
      BY <1>9, <2>1 DEF Going
    <3> QED
      BY <1>3, <2>1, <3>1
  <2>2. ASSUME NEW j \in 1..Len(t), Going(t[j]) PROVE \E i \in 1..Len(w) : Going(w[i]) /\ t[j].patch = w[i].patch
    BY <1>1, <1>2, <2>2
  <2> QED
    BY <2>1, <2>2 DEF SameGoing
<1> QED
  BY <1>1, <1>2, <1>4, <1>5, <1>6, <1>7, <1>8, <1>9 DEF t

-----------------------------------------------------------------------------
\* The next save goes when no other is under way.
SentAs(w, q, w1, q1) == IF Out(w) \/ q = <<>> THEN w1 = w /\ q1 = q ELSE w1 = Append(w, Head(q)) /\ q1 = Tail(q)
LEMMA SendsIs == \A w, q : Sends(w, q) <=> SentAs(w, q, wire', saves')
BY DEF Sends, SentAs

LEMMA SentKeeps ==
    ASSUME NEW T, NEW w \in Seq(Clean(T)), NEW q \in Seq(CleanSaves(T)), NEW w1, NEW q1, SentAs(w, q, w1, q1),
           NEW st, NEW c, NEW pk
    PROVE  /\ w1 \in Seq(Clean(T)) /\ q1 \in Seq(CleanSaves(T))
           /\ Line(w, q, pk) => Line(w1, q1, pk)
           /\ AnsweredFirst(w) => AnsweredFirst(w1)
           /\ ~Out(w1) => q1 = <<>> /\ ~Out(w) /\ q = <<>>
           /\ Told(w, st, c) => Told(w1, st, c)
           /\ \A x \in {"form", "knob"} : Asks(w1, {x}) <=> Asks(w, {x})
           /\ \A k, v : Ends(st, w, q, k, v) => Ends(st, w1, q1, k, v)
<1>1. CASE Out(w) \/ q = <<>>
  BY <1>1 DEF SentAs
<1>2. CASE ~Out(w) /\ q # <<>>
  <2> DEFINE r == Head(q)
             a == Append(w, r)
             t == Tail(q)
  <2>1. /\ w1 = a /\ q1 = t
    BY <1>2 DEF SentAs
  <2>2. /\ r \in CleanSaves(T) /\ t \in Seq(CleanSaves(T)) /\ Len(q) \in Nat /\ Len(t) = Len(q) - 1 /\ Len(q) >= 1
        /\ r = q[1] /\ \A i \in 1..Len(t) : t[i] = q[i + 1]
    BY <1>2, HeadTailProperties, LenProperties, EmptySeq
  <2>3. r \in Clean(T) /\ r.patch # Absent /\ r.answer = Absent /\ r.what \notin {"form", "knob"}
    BY <2>2, OnePart DEF CleanSaves
  <2>4. /\ Len(w) \in Nat /\ Len(a) = Len(w) + 1 /\ a[Len(a)] = r /\ \A i \in 1..Len(w) : a[i] = w[i]
    BY <2>3, AppendProperties, LenProperties
  <2>5. \A i \in 1..Len(w) : w[i].patch = Absent /\ ~Special(w[i])
    BY <1>2, WireIs, OnePart
  <2>6. /\ a \in Seq(Clean(T)) /\ Out(a) /\ (OneSave(w) => OneSave(a)) /\ (AnsweredFirst(w) => AnsweredFirst(a))
        /\ (Told(w, st, c) => Told(a, st, c))
        /\ \A x \in {"form", "knob"} : Asks(a, {x}) <=> Asks(w, {x})
    BY <1>2, <2>3, GoesOut
  <2> HIDE DEF a, t, r
  <2>7. ASSUME Specials(w, q, pk) PROVE Specials(a, t, pk)
    <3>1. ASSUME NEW i \in 1..Len(t), Special(t[i]) PROVE i = Len(t) /\ GoesWith(t[i], pk)
      <4>1. i + 1 \in 1..Len(q) /\ t[i] = q[i + 1]
        BY <2>2
      <4>2. i + 1 = Len(q) /\ GoesWith(q[i + 1], pk)
        BY <2>7, <3>1, <4>1 DEF Specials
      <4> QED
        BY <2>2, <4>1, <4>2
    <3>2. ASSUME NEW i \in 1..Len(a), Special(a[i]) PROVE t = <<>> /\ GoesWith(a[i], pk)
      <4>1. i = Len(a) /\ a[i] = q[1]
        BY <2>2, <2>4, <2>5, <3>2
      <4>2. 1 = Len(q) /\ GoesWith(q[1], pk)
        BY <2>2, <2>7, <3>2, <4>1 DEF Specials
      <4>3. t = <<>>
        BY <2>2, <4>2, EmptySeq
      <4> QED
        BY <4>1, <4>2, <4>3
    <3> QED
      BY <3>1, <3>2 DEF Specials
  <2>8. ASSUME NEW k, NEW v, Ends(st, w, q, k, v) PROVE Ends(st, a, t, k, v)
    <3>1. ASSUME NEW i \in 1..Len(t), k \in DOMAIN t[i].patch, \A j \in i+1..Len(t) : k \notin DOMAIN t[j].patch
          PROVE  t[i].patch[k] = v
      <4>1. i + 1 \in 1..Len(q) /\ t[i] = q[i + 1]
        BY <2>2
      <4>2. ASSUME NEW j \in (i+1)+1..Len(q) PROVE k \notin DOMAIN q[j].patch
        <5>1. j - 1 \in i+1..Len(t) /\ t[j - 1] = q[j]
          BY <2>2
        <5> QED
          BY <3>1, <5>1
      <4> QED
        BY <2>8, <3>1, <4>1, <4>2 DEF Ends
    <3>2. ASSUME \A i \in 1..Len(t) : k \notin DOMAIN t[i].patch PROVE Ahead(st, a, k, v)
      <4>1. ASSUME NEW j \in 2..Len(q) PROVE k \notin DOMAIN q[j].patch
        <5>1. j - 1 \in 1..Len(t) /\ t[j - 1] = q[j]
          BY <2>2
        <5> QED
          BY <3>2, <5>1
      <4>2. Going(a[Len(a)]) /\ Len(a) \in 1..Len(a) /\ \A i \in 1..Len(a) : Going(a[i]) => i = Len(a)
        BY <2>3, <2>4, <2>5 DEF Going
      <4>3. CASE k \in DOMAIN q[1].patch
        <5>1. q[1].patch[k] = v
          BY <2>2, <2>8, <4>1, <4>3 DEF Ends
        <5> QED
          BY <2>2, <2>4, <4>2, <4>3, <5>1 DEF Ahead
      <4>4. CASE k \notin DOMAIN q[1].patch
        <5>1. \A i \in 1..Len(q) : k \notin DOMAIN q[i].patch
          BY <2>2, <4>1, <4>4
        <5>2. st[k] = v
          BY <2>5, <2>8, <5>1 DEF Ends, Ahead, Going
        <5> QED
          BY <2>2, <2>4, <4>2, <4>4, <5>2 DEF Ahead
      <4> QED
        BY <4>3, <4>4
    <3> QED
      BY <3>1, <3>2 DEF Ends
  <2> QED
    BY <1>2, <2>1, <2>2, <2>6, <2>7, <2>8 DEF Line
<1> QED
  BY <1>1, <1>2

\* Nothing to come: the settings are it.
LEMMA Settled ==
    ASSUME NEW T, NEW w \in Seq(Clean(T)), ~Out(w), NEW st, NEW k, NEW v, Ends(st, w, <<>>, k, v)
    PROVE  st[k] = v
BY WireIs, EmptySeq DEF Ends, Ahead, Going

\* The backend takes a request: it answers with what it has then, behind the answers before it.
LEMMA Taken ==
    ASSUME NEW T, NEW w \in Seq(Clean(T)), NEW i \in 1..Len(w), w[i].answer = Absent,
           NEW st \in Full, CleanPatch(st, T), NEW st1, st1 = (IF w[i].patch = Absent THEN st ELSE Over(st, w[i].patch))
    PROVE  /\ st1 \in Full /\ CleanPatch(st1, T) /\ st1 # Absent
           /\ [w[i] EXCEPT !.answer = st1] \in Clean(T)
           /\ [w[i] EXCEPT !.answer = st1].what = w[i].what /\ [w[i] EXCEPT !.answer = st1].patch = w[i].patch
           /\ [w[i] EXCEPT !.answer = st1].answer = st1
<1> DEFINE r == w[i]
<1>1. r \in Clean(T)
  BY WireIs
<1>2. r \in [what : Whats, patch : Patches \cup {Absent}, answer : Full \cup {Absent}] /\ (r.patch = Absent <=> r.what \in {"boot", "knob", "form"})
      /\ (r.patch # Absent => CleanPatch(r.patch, T)) /\ (r.what = "flush" => DOMAIN PRESET \subseteq T)
  BY <1>1, OnePart DEF Clean
<1> HIDE DEF r
<1>3. st1 \in Full /\ CleanPatch(st1, T)
  <2>1. CASE r.patch = Absent
    BY <2>1 DEF r
  <2>2. CASE r.patch # Absent
    <3>1. st1 = Over(st, r.patch) /\ r.patch \in Patches
      BY <1>2, <2>2 DEF r
    <3>2. st1 \in Full /\ \A k \in Keys : st1[k] = IF k \in DOMAIN r.patch THEN r.patch[k] ELSE st[k]
      BY <3>1, OverIs
    <3>3. CleanPatch(st1, T)
      BY <1>2, <2>2, <3>2 DEF CleanPatch, Full
    <3> QED
      BY <3>2, <3>3
  <2> QED
    BY <2>1, <2>2
<1>4. st1 # Absent
  BY <1>3, Values01
<1> DEFINE e == [r EXCEPT !.answer = st1]
<1>5. e \in [what : Whats, patch : Patches \cup {Absent}, answer : Full \cup {Absent}]
      /\ e.what = r.what /\ e.patch = r.patch /\ e.answer = st1
  BY <1>2, <1>3
<1> HIDE DEF e
<1>6. e \in Clean(T)
  BY <1>2, <1>3, <1>5 DEF Clean, Requests
<1> QED
  BY <1>3, <1>4, <1>5, <1>6 DEF e, r

LEMMA TakenKeeps ==
    ASSUME NEW T, NEW w \in Seq(Clean(T)), NEW i \in 1..Len(w), w[i].answer = Absent,
           NEW st \in Full, NEW st1 \in Full, st1 = (IF w[i].patch = Absent THEN st ELSE Over(st, w[i].patch)),
           NEW e \in Clean(T), e.what = w[i].what, e.patch = w[i].patch, e.answer = st1,
           NEW n \in 0..Len(w), \A j \in 1..Len(w) : w[j].answer # Absent <=> j <= n,
           NEW q, NEW c, NEW pk
    PROVE  /\ OneSave(w) => OneSave(Moved(w, i, n, e))
           /\ Specials(w, q, pk) => Specials(Moved(w, i, n, e), q, pk)
           /\ AnsweredFirst(Moved(w, i, n, e))
           /\ Told(w, st, c) => Told(Moved(w, i, n, e), st1, c)
           /\ \A x \in {"form", "knob"} : Asks(Moved(w, i, n, e), {x}) <=> Asks(w, {x})
           /\ Out(Moved(w, i, n, e)) <=> Out(w)
           /\ \A k \in Keys : \A v : (OneSave(w) /\ Ends(st, w, q, k, v)) => Ends(st1, Moved(w, i, n, e), q, k, v)
<1> DEFINE m == Moved(w, i, n, e)
<1>1. n \in Nat /\ n < i /\ Len(w) \in Nat /\ i \in Int
  BY WireIs
<1>2. /\ m \in Seq(Clean(T)) /\ Len(m) = Len(w)
      /\ \A j \in 1..Len(w) : m[j] = IF j <= n THEN w[j] ELSE IF j = n + 1 THEN e ELSE IF j <= i THEN w[j - 1] ELSE w[j]
  BY <1>1, MovedIs
<1> HIDE DEF m
<1> DEFINE f(j) == IF j <= n THEN j ELSE IF j = n + 1 THEN i ELSE IF j <= i THEN j - 1 ELSE j
           g(j) == IF j <= n THEN j ELSE IF j = i THEN n + 1 ELSE IF j < i THEN j + 1 ELSE j
<1>3. \A j \in 1..Len(w) : f(j) \in 1..Len(w) /\ g(j) \in 1..Len(w) /\ f(g(j)) = j /\ g(f(j)) = j
  BY <1>1
<1>4. \A j \in 1..Len(w) : f(j) = i <=> j = n + 1
  BY <1>1
<1>5. \A j \in 1..Len(w) : m[j] = IF j = n + 1 THEN e ELSE w[f(j)]
  BY <1>1, <1>2
<1>6. \A j \in 1..Len(w) : m[j].what = w[f(j)].what /\ m[j].patch = w[f(j)].patch
                         /\ m[j].answer = IF j = n + 1 THEN st1 ELSE w[f(j)].answer
  BY <1>4, <1>5
<1>7. n + 1 \in 1..Len(w) /\ (\A j \in 1..n : f(j) = j) /\ (\A j \in 1..Len(w) : j <= n + 1 <=> (j <= n \/ j = n + 1))
      /\ (\A j \in 1..Len(w) : j > n + 1 => f(j) > n) /\ f(n + 1) = i
  BY <1>1
<1>8. st1 # Absent
  BY Values01
<1> HIDE DEF f, g
<1>17. \A j \in 1..Len(w) : m[g(j)].what = w[j].what /\ m[g(j)].patch = w[j].patch /\ g(j) \in 1..Len(m)
  <2> TAKE j \in 1..Len(w)
  <2> DEFINE h == g(j)
  <2>1. h \in 1..Len(w) /\ f(h) = j
    BY <1>3
  <2> HIDE DEF h
  <2>2. m[h].what = w[f(h)].what /\ m[h].patch = w[f(h)].patch
    BY <1>6, <2>1
  <2> QED
    BY <1>2, <2>1, <2>2 DEF h
<1>18. \A j \in 1..Len(m) : m[j].what = w[f(j)].what /\ m[j].patch = w[f(j)].patch /\ f(j) \in 1..Len(w) /\ j \in 1..Len(w)
  BY <1>2, <1>3, <1>6
<1> HIDE DEF f, g
<1>9. OneSave(w) => OneSave(m)
  <2> SUFFICES ASSUME OneSave(w), NEW a \in 1..Len(w), NEW b \in 1..Len(w), m[a].patch # Absent, m[b].patch # Absent PROVE a = b
    BY <1>2 DEF OneSave
  <2>1. f(a) \in 1..Len(w) /\ f(b) \in 1..Len(w) /\ w[f(a)].patch # Absent /\ w[f(b)].patch # Absent
    BY <1>3, <1>6
  <2>2. f(a) = f(b)
    BY <2>1 DEF OneSave
  <2> QED
    BY <1>3, <2>2
<1>10. Specials(w, q, pk) => Specials(m, q, pk)
  <2> SUFFICES ASSUME Specials(w, q, pk) PROVE Specials(m, q, pk)
    OBVIOUS
  <2>1. ASSUME NEW j \in 1..Len(m), Special(m[j]) PROVE q = <<>> /\ GoesWith(m[j], pk)
    <3>1. Special(w[f(j)]) /\ f(j) \in 1..Len(w)
      BY <1>18, <2>1 DEF Special
    <3>2. q = <<>> /\ GoesWith(w[f(j)], pk)
      BY <3>1 DEF Specials
    <3> QED
      BY <1>18, <3>2 DEF GoesWith
  <2> QED
    BY <2>1 DEF Specials
<1>11. \A j \in 1..Len(w) : m[j].answer # Absent <=> j <= n + 1
  <2> TAKE j \in 1..Len(w)
  <2>1. CASE j <= n
    <3>1. j \in 1..n /\ j # n + 1 /\ j <= n + 1
      BY <1>1, <2>1
    <3>2. m[j].answer = w[j].answer
      BY <1>6, <1>7, <3>1
    <3> QED
      BY <2>1, <3>1, <3>2
  <2>2. CASE j = n + 1
    <3>1. m[j].answer = st1 /\ j <= n + 1
      BY <1>1, <1>6, <2>2
    <3> QED
      BY <1>8, <3>1
  <2>3. CASE j > n + 1
    <3>1. f(j) > n /\ f(j) \in 1..Len(w)
      BY <1>3, <1>7, <2>3
    <3>2. w[f(j)].answer = Absent
      BY <1>1, <3>1
    <3> QED
      BY <1>1, <1>6, <2>3, <3>2
  <2> QED
    BY <1>1, <2>1, <2>2, <2>3
<1>12. AnsweredFirst(m)
  <2>1. n + 1 \in 0..Len(m)
    BY <1>1, <1>2, <1>7
  <2> QED
    BY <1>2, <1>11, <2>1 DEF AnsweredFirst
<1>13. Told(w, st, c) => Told(m, st1, c)
  <2> SUFFICES ASSUME Told(w, st, c) PROVE Told(m, st1, c)
    OBVIOUS
  <2>1. ASSUME NEW a \in 1..Len(m), m[a].answer # Absent, \A j \in a+1..Len(m) : m[j].answer # Absent => m[j].patch = Absent
        PROVE  m[a].answer = st1
    <3>1. CASE a = n + 1
      BY <1>6, <1>2, <3>1
    <3>2. CASE a # n + 1
      <4>1. a <= n /\ a \in 1..Len(w) /\ m[a].answer = w[a].answer /\ f(a) = a
        BY <1>1, <1>2, <1>6, <1>7, <1>11, <2>1, <3>2
      <4>2. n + 1 \in a+1..Len(m) /\ m[n + 1].answer # Absent
        BY <1>1, <1>2, <1>6, <1>7, <1>8, <4>1
      <4>3. w[i].patch = Absent
        BY <1>6, <1>7, <2>1, <4>2
      <4>4. ASSUME NEW j \in a+1..Len(w), w[j].answer # Absent PROVE w[j].patch = Absent
        <5>1. j <= n /\ j \in 1..Len(w) /\ j \in 1..n
          BY <1>1, <4>1, <4>4
        <5>2. m[j].answer # Absent /\ m[j].patch = w[j].patch /\ j \in a+1..Len(m)
          BY <1>1, <1>2, <1>6, <1>7, <1>11, <4>4, <5>1
        <5> QED
          BY <2>1, <5>2
      <4>5. w[a].answer = st
        BY <2>1, <4>1, <4>4 DEF Told
      <4> QED
        BY <4>1, <4>3, <4>5
    <3> QED
      BY <3>1, <3>2
  <2>2. ASSUME \A a \in 1..Len(m) : m[a].answer # Absent => m[a].patch = Absent PROVE c = Absent \/ c = st1
    <3>1. w[i].patch = Absent
      BY <1>2, <1>6, <1>7, <1>8, <2>2
    <3>2. ASSUME NEW j \in 1..Len(w), w[j].answer # Absent PROVE w[j].patch = Absent
      <4>1. j <= n /\ j \in 1..n /\ j # n + 1
        BY <1>1, <3>2
      <4>2. m[j].answer # Absent /\ m[j].patch = w[j].patch
        BY <1>6, <1>7, <3>2, <4>1
      <4> QED
        BY <1>2, <2>2, <4>2
    <3> QED
      BY <3>1, <3>2 DEF Told
  <2> QED
    BY <2>1, <2>2 DEF Told
<1>14. \A x \in {"form", "knob"} : Asks(m, {x}) <=> Asks(w, {x})
  <2> TAKE x \in {"form", "knob"}
  <2>1. ASSUME Asks(m, {x}) PROVE Asks(w, {x})
    BY <1>18, <2>1 DEF Asks
  <2>2. ASSUME Asks(w, {x}) PROVE Asks(m, {x})
    BY <1>17, <2>2 DEF Asks
  <2> QED
    BY <2>1, <2>2
<1>15. Out(m) <=> Out(w)
  <2>0. (Out(m) <=> \E j \in 1..Len(m) : m[j].patch # Absent) /\ (Out(w) <=> \E j \in 1..Len(w) : w[j].patch # Absent)
    BY <1>2, WireIs
  <2>1. Out(m) => Out(w)
    BY <1>18, <2>0
  <2>2. Out(w) => Out(m)
    BY <1>17, <2>0
  <2> QED
    BY <2>1, <2>2
<1>16. ASSUME NEW k \in Keys, NEW v, OneSave(w), Ends(st, w, q, k, v) PROVE Ends(st1, m, q, k, v)
  <2>1. ASSUME Ahead(st, w, k, v) PROVE Ahead(st1, m, k, v)
    <3>1. \A j \in 1..Len(w) : Going(m[j]) => Going(w[f(j)]) /\ f(j) # i
      BY <1>4, <1>6, <1>8 DEF Going
    <3>2. \A j \in 1..Len(m) : (Going(m[j]) /\ k \in DOMAIN m[j].patch) => m[j].patch[k] = v
      <4> TAKE j \in 1..Len(m)
      <4> HAVE Going(m[j]) /\ k \in DOMAIN m[j].patch
      <4>1. f(j) \in 1..Len(w) /\ m[j].patch = w[f(j)].patch /\ Going(w[f(j)])
        BY <1>18, <3>1
      <4> QED
        BY <2>1, <4>1 DEF Ahead
    <3>3. ASSUME \A j \in 1..Len(m) : ~(Going(m[j]) /\ k \in DOMAIN m[j].patch) PROVE st1[k] = v
      <4>1. CASE w[i].patch = Absent
        <5>1. ASSUME NEW j \in 1..Len(w), Going(w[j]), k \in DOMAIN w[j].patch PROVE FALSE
          <6>1. j # i
            BY <4>1, <5>1 DEF Going
          <6>2. g(j) \in 1..Len(w) /\ f(g(j)) = j /\ g(j) # n + 1
            BY <1>3, <1>4, <6>1
          <6>3. Going(m[g(j)]) /\ m[g(j)].patch = w[j].patch
            BY <1>6, <5>1, <6>2 DEF Going
          <6> QED
            BY <1>2, <3>3, <5>1, <6>2, <6>3
        <5> QED
          BY <2>1, <4>1, <5>1 DEF Ahead
      <4>2. CASE w[i].patch # Absent
        <5>1. \A j \in 1..Len(w) : Going(w[j]) => j = i
          BY <1>16, <4>2 DEF OneSave, Going
        <5>2. Going(w[i])
          BY <4>2 DEF Going
        <5>3. w[i].patch \in Patches
          BY <4>2, WireIs, OnePart
        <5>4. st1[k] = IF k \in DOMAIN w[i].patch THEN w[i].patch[k] ELSE st[k]
          BY <4>2, <5>3, OverIs
        <5>5. CASE k \in DOMAIN w[i].patch
          BY <2>1, <5>2, <5>4, <5>5 DEF Ahead
        <5>6. CASE k \notin DOMAIN w[i].patch
          BY <2>1, <5>1, <5>4, <5>6 DEF Ahead
        <5> QED
          BY <5>5, <5>6
      <4> QED
        BY <4>1, <4>2
    <3> QED
      BY <3>2, <3>3 DEF Ahead
  <2> QED
    BY <1>16, <2>1 DEF Ends
<1> QED
  BY <1>9, <1>10, <1>12, <1>13, <1>14, <1>15, <1>16 DEF m

LEMMA CountIs ==
    ASSUME NEW T, NEW w \in Seq(Clean(T)), NEW i \in 1..Len(w), w[i].answer = Absent,
           NEW n \in 0..Len(w), \A j \in 1..Len(w) : w[j].answer # Absent <=> j <= n
    PROVE  /\ Cardinality({j \in DOMAIN AllBut(w, i) : AllBut(w, i)[j].answer # Absent}) = n
           /\ AnsweredFirst(AllBut(w, i))
<1> DEFINE r == AllBut(w, i)
<1>1. Len(w) \in Nat /\ i \in Int /\ n < i
  BY WireIs
<1>2. /\ r \in Seq(Clean(T)) /\ Len(r) = Len(w) - 1 /\ DOMAIN r = 1..Len(w)-1
      /\ \A j \in 1..Len(w)-1 : r[j] = IF j < i THEN w[j] ELSE w[j + 1]
  BY AllButIs, WireIs
<1> HIDE DEF r
<1>3. \A j \in 1..Len(w)-1 : r[j].answer # Absent <=> j <= n
  BY <1>1, <1>2
<1>4. {j \in DOMAIN r : r[j].answer # Absent} = 1..n
  BY <1>1, <1>2, <1>3
<1>5. Cardinality(1..n) = n
  BY FS_Interval
<1>6. AnsweredFirst(r)
  <2>1. n \in 0..Len(r)
    BY <1>1, <1>2
  <2> QED
    BY <1>2, <1>3, <2>1 DEF AnsweredFirst
<1> QED
  BY <1>4, <1>5, <1>6 DEF r

-----------------------------------------------------------------------------
LEMMA FiltersOf ==
    ASSUME NEW st \in Full
    PROVE  /\ filtersFromSettings(st) \in [Filters -> Values] /\ (\A k \in Filters : filtersFromSettings(st)[k] = st[k])
           /\ \A T : CleanPatch(st, T) => CleanPatch(filtersFromSettings(st), T) /\ CleanPatch(weightOf(st["weight"]), T)
           /\ st["weight"] \in Values
BY DEF filtersFromSettings, Full, Filters, Keys, CleanPatch, weightOf

LEMMA KnobDueIs ==
    ASSUME NEW T, NEW q \in Seq(CleanSaves(T)), knobDue # Absent => knobDue \in Values /\ CleanPatch(weightOf(knobDue), T)
    PROVE  /\ q \o KnobDue = (IF knobDue = Absent THEN q ELSE Append(q, Save("save", weightOf(knobDue))))
           /\ knobDue # Absent => /\ Save("save", weightOf(knobDue)) \in CleanSaves(T)
                                 /\ Save("save", weightOf(knobDue)).what = "save" /\ Save("save", weightOf(knobDue)).patch = weightOf(knobDue)
           /\ q \o KnobDue \in Seq(CleanSaves(T))
<1> DEFINE p == IF knobDue = Absent THEN Absent ELSE weightOf(knobDue)
<1>1. p # Absent => p \in Patches /\ CleanPatch(p, T)
  BY PatchesAre
<1>2. p = Absent <=> knobDue = Absent
  BY PatchesAre
<1>3. KnobDue = Due("save", p)
  BY DEF KnobDue
<1>4. knobDue # Absent => p = weightOf(knobDue)
  OBVIOUS
<1> HIDE DEF p
<1>5. /\ q \o KnobDue = (IF p = Absent THEN q ELSE Append(q, Save("save", p)))
      /\ p # Absent => Save("save", p) \in CleanSaves(T) /\ Save("save", p).what = "save" /\ Save("save", p).patch = p
  BY <1>1, <1>3, DueIs
<1>6. q \o KnobDue \in Seq(CleanSaves(T))
  BY <1>5, AppendProperties
<1> QED
  BY <1>2, <1>4, <1>5, <1>6

LEMMA FormDueIs ==
    ASSUME NEW T, NEW q \in Seq(CleanSaves(T)), formDue # Absent => formDue \in [Filters -> Values] /\ CleanPatch(formDue, T),
           NEW what \in {"save", "flush"}, what = "flush" => DOMAIN PRESET \subseteq T
    PROVE  /\ q \o Due(what, formDue) = (IF formDue = Absent THEN q ELSE Append(q, Save(what, formDue)))
           /\ formDue # Absent => /\ Save(what, formDue) \in CleanSaves(T) /\ Save(what, formDue).what = what
                                 /\ Save(what, formDue).patch = formDue
           /\ q \o Due(what, formDue) \in Seq(CleanSaves(T))
<1>1. formDue # Absent => formDue \in Patches /\ CleanPatch(formDue, T)
  BY PatchesAre
<1>2. /\ q \o Due(what, formDue) = (IF formDue = Absent THEN q ELSE Append(q, Save(what, formDue)))
      /\ formDue # Absent => Save(what, formDue) \in CleanSaves(T) /\ Save(what, formDue).what = what /\ Save(what, formDue).patch = formDue
  BY <1>1, DueIs
<1>3. q \o Due(what, formDue) \in Seq(CleanSaves(T))
  BY <1>2, AppendProperties
<1> QED
  BY <1>2, <1>3

LEMMA TypesStart == SettingsInit => SettingsTypes
<1> SUFFICES ASSUME SettingsInit PROVE SettingsTypes
  OBVIOUS
<1>1. settings \in Full /\ CleanPatch(settings, {})
  BY DEF SettingsInit, Full, Values, CleanPatch
<1>2. Read("boot") \in Clean({}) /\ Read("boot").answer = Absent
  BY ReadIs
<1>3. wire \in Seq(Clean({})) /\ Len(wire) = 1 /\ wire[1] = Read("boot")
  BY <1>2 DEF SettingsInit
<1>4. AnsweredFirst(wire)
  <2>1. 0 \in 0..Len(wire) /\ \A i \in 1..Len(wire) : wire[i].answer # Absent <=> i <= 0
    BY <1>2, <1>3
  <2> QED
    BY <2>1 DEF AnsweredFirst
<1>5. saves \in Seq(CleanSaves({}))
  BY EmptySeq DEF SettingsInit
<1> QED
  BY <1>1, <1>3, <1>4, <1>5 DEF SettingsInit, SettingsTypes

LEMMA TypesKept == SettingsTypes /\ [SettingsNext]_settingsVars => SettingsTypes'
<1> SUFFICES ASSUME SettingsTypes, [SettingsNext]_settingsVars PROVE SettingsTypes'
  OBVIOUS
<1> DEFINE T == touched
<1>0. /\ T \in SUBSET Keys /\ wire \in Seq(Clean(T)) /\ saves \in Seq(CleanSaves(T)) /\ AnsweredFirst(wire)
      /\ settings \in Full /\ CleanPatch(settings, T) /\ Len(wire) \in Nat /\ DOMAIN wire = 1..Len(wire)
      /\ \A i \in 1..Len(wire) : wire[i] \in Clean(T)
  BY WireIs DEF SettingsTypes
<1> HIDE DEF T
<1>1. ASSUME NEW i \in DOMAIN wire, BackendTakes(i) PROVE SettingsTypes'
  <2> DEFINE e == [wire[i] EXCEPT !.answer = settings']
  <2>0. i \in 1..Len(wire) /\ wire[i].answer = Absent /\ settings' = IF wire[i].patch = Absent THEN settings ELSE Over(settings, wire[i].patch)
    BY <1>0, <1>1 DEF BackendTakes
  <2>1. PICK n \in 0..Len(wire) : \A j \in 1..Len(wire) : wire[j].answer # Absent <=> j <= n
    BY <1>0 DEF AnsweredFirst
  <2>2. n \in Nat /\ n < i /\ Cardinality({j \in DOMAIN AllBut(wire, i) : AllBut(wire, i)[j].answer # Absent}) = n
    BY <1>0, <2>0, <2>1, CountIs
  <2>3. wire' = Moved(wire, i, n, e)
    BY <1>1, <2>2 DEF BackendTakes, Moved
  <2>4. settings' \in Full /\ CleanPatch(settings', T) /\ e \in Clean(T) /\ e.what = wire[i].what /\ e.patch = wire[i].patch /\ e.answer = settings'
    BY <1>0, <2>0, Taken
  <2> HIDE DEF e
  <2>5. wire' \in Seq(Clean(T))
    BY <1>0, <2>0, <2>2, <2>3, <2>4, MovedIs
  <2>6. AnsweredFirst(wire')
    BY <1>0, <2>0, <2>1, <2>3, <2>4, TakenKeeps
  <2>7. UNCHANGED <<copy, saves, form, formArmed, formDue, knob, knobDue, pick, wished, touched, hurried, lost>>
    BY <1>1 DEF BackendTakes, pageVars, userVars
  <2> QED
    BY <2>4, <2>5, <2>6, <2>7 DEF SettingsTypes, T
<1>2. ASSUME NEW i \in DOMAIN wire, RequestFails(i) PROVE SettingsTypes'
  <2> DEFINE w == AllBut(wire, i)
  <2>0. i \in 1..Len(wire) /\ wire[i].answer = Absent /\ lost' = lost + 1 /\ formArmed' = formArmed
        /\ pick' \in {"idle", "flushed", pick} /\ (pick' # "idle" => pick # "idle" \/ wire[i].what = "flush")
        /\ UNCHANGED <<settings, copy, form, formDue, knob, knobDue, wished, touched, hurried>>
    BY <1>0, <1>2 DEF RequestFails, armedAfter, userVars
  <2>1. PICK n \in 0..Len(wire) : \A j \in 1..Len(wire) : wire[j].answer # Absent <=> j <= n
    BY <1>0 DEF AnsweredFirst
  <2>2. w \in Seq(Clean(T)) /\ AnsweredFirst(w)
    BY <1>0, <2>0, <2>1, CountIs, AllButIs
  <2>3. SentAs(w, saves, wire', saves')
    BY <1>2, SendsIs DEF RequestFails
  <2>5. pick' # "idle" => DOMAIN PRESET \subseteq T
    BY <1>0, <2>0 DEF SettingsTypes, T, Clean
  <2>6. pick' \in {"idle", "flushing", "flushed", "saving"}
    BY <2>0 DEF SettingsTypes
  <2> HIDE DEF w
  <2>4. wire' \in Seq(Clean(T)) /\ saves' \in Seq(CleanSaves(T)) /\ AnsweredFirst(wire')
    BY <1>0, <2>2, <2>3, SentKeeps
  <2>7. lost' \in Nat
    BY <2>0 DEF SettingsTypes
  <2> QED
    BY <2>0, <2>4, <2>5, <2>6, <2>7 DEF SettingsTypes, T
<1>3. CASE Answered
  <2> DEFINE r == Head(wire)
             picked == r.what = "pick" /\ form # Absent
             u == Unheard(Tail(wire), {"knob"})
             w == IF picked THEN Append(u, Read("knob")) ELSE Tail(wire)
             q == saves \o (IF picked THEN KnobDue ELSE <<>>)
  <2>1. wire # <<>> /\ r.answer # Absent /\ SentAs(w, q, wire', saves')
    BY <1>3, SendsIs DEF Answered
  <2>2. /\ Tail(wire) \in Seq(Clean(T)) /\ AnsweredFirst(Tail(wire)) /\ r \in Clean(T)
    BY <1>0, <2>1, TailKeeps
  <2>3. r.answer \in Full /\ CleanPatch(r.answer, T) /\ (r.what = "flush" => DOMAIN PRESET \subseteq T)
    BY <2>1, <2>2, OnePart DEF Clean
  <2>4. u \in Seq(Clean(T)) /\ AnsweredFirst(u)
    BY <2>2, UnheardIs, UnheardKeeps
  <2>5. w \in Seq(Clean(T)) /\ AnsweredFirst(w)
    BY <2>2, <2>4, ReadIs, GoesOut
  <2>6. q \in Seq(CleanSaves(T))
    <3>1. saves \o KnobDue \in Seq(CleanSaves(T))
      BY <1>0, KnobDueIs DEF SettingsTypes, T
    <3>2. saves \o <<>> = saves
      BY <1>0, ConcatEmptySeq
    <3> QED
      BY <1>0, <3>1, <3>2
  <2>7. /\ copy' = r.answer
        /\ form' = (IF form # Absent /\ r.what \in {"form", "pick"} THEN filtersFromSettings(r.answer) ELSE form)
        /\ formArmed' = (formArmed \/ (r.what = "form" /\ form # Absent))
        /\ knob' \in {knob, Absent, r.answer["weight"]}
        /\ knobDue' \in {knobDue, Absent}
        /\ pick' = IF r.what = "flush" THEN "flushed" ELSE IF r.what = "pick" THEN "idle" ELSE pick
        /\ UNCHANGED <<settings, formDue, wished, touched, hurried, lost>>
    BY <1>3 DEF Answered, Redraws, userVars
  <2> HIDE DEF w, q, u, r
  <2>8. wire' \in Seq(Clean(T)) /\ saves' \in Seq(CleanSaves(T)) /\ AnsweredFirst(wire')
    BY <2>1, <2>5, <2>6, SentKeeps
  <2>9. form' # Absent => form' \in [Filters -> Values] /\ (formArmed' => CleanPatch(form', T))
    BY <2>3, <2>7, FiltersOf DEF SettingsTypes, T
  <2>10. knob' # Absent => knob' \in Values /\ CleanPatch(weightOf(knob'), T)
    BY <2>3, <2>7, FiltersOf DEF SettingsTypes, T
  <2>11. pick' \in {"idle", "flushing", "flushed", "saving"} /\ (pick' # "idle" => DOMAIN PRESET \subseteq T)
    BY <2>3, <2>7 DEF SettingsTypes, T
  <2>12. formArmed' \in BOOLEAN
    BY <2>7 DEF SettingsTypes
  <2> QED
    BY <2>3, <2>7, <2>8, <2>9, <2>10, <2>11, <2>12 DEF SettingsTypes, T
<1>4. CASE FormTimer
  <2>1. SentAs(wire, saves \o Due("save", formDue), wire', saves') /\ formDue' = Absent
        /\ UNCHANGED <<settings, copy, form, formArmed, knob, knobDue, pick, wished, touched, hurried, lost>>
    BY <1>4, SendsIs DEF FormTimer, userVars
  <2>2. saves \o Due("save", formDue) \in Seq(CleanSaves(T))
    BY <1>0, FormDueIs DEF SettingsTypes, T
  <2>3. wire' \in Seq(Clean(T)) /\ saves' \in Seq(CleanSaves(T)) /\ AnsweredFirst(wire')
    BY <1>0, <2>1, <2>2, SentKeeps
  <2> QED
    BY <2>1, <2>3 DEF SettingsTypes, T
<1>5. CASE KnobTimer
  <2>1. SentAs(wire, saves \o KnobDue, wire', saves') /\ knobDue' = Absent
        /\ UNCHANGED <<settings, copy, form, formArmed, formDue, knob, pick, wished, touched, hurried, lost>>
    BY <1>5, SendsIs DEF KnobTimer, userVars
  <2>2. saves \o KnobDue \in Seq(CleanSaves(T))
    BY <1>0, KnobDueIs DEF SettingsTypes, T
  <2>3. wire' \in Seq(Clean(T)) /\ saves' \in Seq(CleanSaves(T)) /\ AnsweredFirst(wire')
    BY <1>0, <2>1, <2>2, SentKeeps
  <2> QED
    BY <2>1, <2>3 DEF SettingsTypes, T
<1>6. CASE PickSends
  <2> DEFINE p == Save("pick", PRESET)
  <2>1. SentAs(wire, Append(saves, p), wire', saves') /\ pick' = "saving" /\ pick = "flushed"
        /\ UNCHANGED <<settings, copy, form, formArmed, formDue, knob, knobDue, wished, touched, hurried, lost>>
    BY <1>6, SendsIs DEF PickSends, userVars
  <2>2. DOMAIN PRESET \subseteq T
    BY <2>1 DEF SettingsTypes, T
  <2>3. p \in CleanSaves(T)
    <3>1. CleanPatch(PRESET, T) /\ PRESET # Absent /\ PRESET \in Patches
      BY <2>2, PatchesAre DEF CleanPatch
    <3> QED
      BY <1>0, <3>1, DueIs
  <2> HIDE DEF p
  <2>4. Append(saves, p) \in Seq(CleanSaves(T))
    BY <1>0, <2>3, AppendProperties
  <2>5. wire' \in Seq(Clean(T)) /\ saves' \in Seq(CleanSaves(T)) /\ AnsweredFirst(wire')
    BY <1>0, <2>1, <2>4, SentKeeps
  <2> QED
    BY <2>1, <2>2, <2>5 DEF SettingsTypes, T
<1>7. CASE OpenPage
  <2> DEFINE w == Append(wire, Read("knob"))
  <2>1. w \in Seq(Clean(T)) /\ AnsweredFirst(w)
    BY <1>0, ReadIs, GoesOut
  <2>2. wire' = (IF copy = Absent THEN Append(w, Read("form")) ELSE w)
    BY <1>7 DEF OpenPage
  <2> HIDE DEF w
  <2>3. wire' \in Seq(Clean(T)) /\ AnsweredFirst(wire')
    BY <2>1, <2>2, ReadIs, GoesOut
  <2>4. /\ form' = (IF copy # Absent THEN filtersFromSettings(copy) ELSE DEFAULT_FILTERS) /\ formArmed' = (copy # Absent)
        /\ knob' = Absent /\ knobDue' = Absent /\ hurried' = (hurried \/ Busy)
        /\ UNCHANGED <<settings, copy, saves, formDue, pick, wished, touched, lost>>
    BY <1>7 DEF OpenPage, Redraws
  <2>5. DEFAULT_FILTERS \in [Filters -> Values]
    BY DEF DEFAULT_FILTERS, Values
  <2>6. form' # Absent => form' \in [Filters -> Values] /\ (formArmed' => CleanPatch(form', T))
    BY <2>4, <2>5, FiltersOf DEF SettingsTypes, T
  <2>7. hurried' \in BOOLEAN /\ formArmed' \in BOOLEAN
    BY <2>4 DEF SettingsTypes
  <2> QED
    BY <1>0, <2>3, <2>4, <2>6, <2>7 DEF SettingsTypes, T
<1>8. CASE LeavePage
  <2> DEFINE u == Unheard(wire, {"form", "knob"})
             q == saves \o Due("save", formDue)
  <2>1. SentAs(u, q \o KnobDue, wire', saves') /\ form' = Absent /\ formArmed' = FALSE /\ formDue' = Absent
        /\ knob' = Absent /\ knobDue' = Absent /\ UNCHANGED <<settings, copy, pick, wished, touched, hurried, lost>>
    BY <1>8, SendsIs DEF LeavePage, userVars, Redraws
  <2>2. u \in Seq(Clean(T)) /\ AnsweredFirst(u)
    BY <1>0, UnheardIs, UnheardKeeps
  <2>3. q \in Seq(CleanSaves(T))
    BY <1>0, FormDueIs DEF SettingsTypes, T
  <2> HIDE DEF u, q
  <2>4. q \o KnobDue \in Seq(CleanSaves(T))
    BY <2>3, KnobDueIs DEF SettingsTypes, T
  <2>5. wire' \in Seq(Clean(T)) /\ saves' \in Seq(CleanSaves(T)) /\ AnsweredFirst(wire')
    BY <2>1, <2>2, <2>4, SentKeeps
  <2> QED
    BY <2>1, <2>5 DEF SettingsTypes, T
<1>9. CASE Pick
  <2> DEFINE u == Append(Unheard(wire, {"knob"}), Read("knob"))
             q == saves \o KnobDue
             T2 == T \cup DOMAIN PRESET
  <2>1. /\ SentAs(u, q \o Flush, wire', saves') /\ formDue' \in {formDue, Absent} /\ pick' \in {"flushed", "flushing"}
        /\ knob' = Absent /\ knobDue' = Absent /\ UNCHANGED <<settings, copy, form, formArmed, lost>>
        /\ wished' = Over(wished, PRESET) /\ touched' = T2 /\ hurried' = (hurried \/ Busy)
    BY <1>9, SendsIs DEF Pick, Redraws, Touches, Chooses, FlushesFirst, T
  <2>2. Unheard(wire, {"knob"}) \in Seq(Clean(T)) /\ AnsweredFirst(Unheard(wire, {"knob"}))
    BY <1>0, UnheardIs, UnheardKeeps
  <2>3. u \in Seq(Clean(T)) /\ AnsweredFirst(u)
    BY <2>2, ReadIs, GoesOut
  <2>4. q \in Seq(CleanSaves(T))
    BY <1>0, KnobDueIs DEF SettingsTypes, T
  <2>5. T \subseteq T2 /\ DOMAIN PRESET \subseteq T2 /\ T2 \in SUBSET Keys
    BY <1>0, PatchesAre
  <2> HIDE DEF u, q, T2
  <2>6. u \in Seq(Clean(T2)) /\ q \in Seq(CleanSaves(T2))
    BY <2>3, <2>4, <2>5, CleanGrows, SeqMonotonic
  <2>7. \A p : CleanPatch(p, T) => CleanPatch(p, T2)
    BY <2>5 DEF CleanPatch
  <2>8. q \o Flush \in Seq(CleanSaves(T2))
    <3>1. formDue # Absent => formDue \in [Filters -> Values] /\ CleanPatch(formDue, T2)
      BY <2>7 DEF SettingsTypes, T
    <3> QED
      BY <2>5, <2>6, <3>1, FormDueIs DEF Flush
  <2>9. wire' \in Seq(Clean(T2)) /\ saves' \in Seq(CleanSaves(T2)) /\ AnsweredFirst(wire')
    BY <2>1, <2>3, <2>6, <2>8, SentKeeps
  <2>10. wished' \in Full
    BY <2>1, PatchesAre, OverIs DEF SettingsTypes
  <2>11. hurried' \in BOOLEAN
    BY <2>1 DEF SettingsTypes
  <2> QED
    BY <2>1, <2>5, <2>7, <2>9, <2>10, <2>11 DEF SettingsTypes, T
<1>10. ASSUME NEW v \in Values, EditKnob(v) PROVE SettingsTypes'
  <2> DEFINE T2 == T \cup {"weight"}
  <2>1. /\ knob' = v /\ knobDue' = v /\ wished' = Over(wished, weightOf(v)) /\ touched' = T2 /\ hurried' = (hurried \/ Busy)
        /\ UNCHANGED <<settings, copy, wire, saves, form, formArmed, formDue, pick, lost>>
    BY <1>10, PatchesAre DEF EditKnob, Touches, Chooses, T
  <2>2. T \subseteq T2 /\ T2 \in SUBSET Keys
    BY <1>0 DEF Keys
  <2>3. CleanPatch(weightOf(v), T2)
    BY PatchesAre DEF CleanPatch
  <2> HIDE DEF T2
  <2>4. \A p : CleanPatch(p, T) => CleanPatch(p, T2)
    BY <2>2 DEF CleanPatch
  <2>5. wire' \in Seq(Clean(T2)) /\ saves' \in Seq(CleanSaves(T2)) /\ AnsweredFirst(wire')
    <3>1. wire' = wire /\ saves' = saves
      BY <2>1
    <3>2. Clean(T) \subseteq Clean(T2) /\ CleanSaves(T) \subseteq CleanSaves(T2)
      BY <2>2, CleanGrows
    <3>3. wire \in Seq(Clean(T2)) /\ saves \in Seq(CleanSaves(T2))
      BY <1>0, <3>2, SeqMonotonic
    <3> QED
      BY <1>0, <3>1, <3>3
  <2>6. wished' \in Full
    BY <2>1, PatchesAre, OverIs DEF SettingsTypes
  <2>7. hurried' \in BOOLEAN
    BY <2>1 DEF SettingsTypes
  <2>8. pick # "idle" => DOMAIN PRESET \subseteq T2
    BY <2>2 DEF SettingsTypes, T
  <2> QED
    BY <2>1, <2>2, <2>3, <2>4, <2>5, <2>6, <2>7, <2>8 DEF SettingsTypes, T
<1>11. ASSUME NEW k \in Filters, NEW v \in Values, EditFilter(k, v) PROVE SettingsTypes'
  <2> DEFINE T2 == T \cup {k}
             p == [x \in {k} |-> v]
  <2>1. /\ form # Absent /\ form' = [form EXCEPT ![k] = v] /\ formDue' = (IF formArmed THEN form' ELSE formDue)
        /\ formArmed => wished' = Over(wished, p) /\ touched' = T2
        /\ ~formArmed => UNCHANGED <<wished, touched>>
        /\ hurried' = (hurried \/ Busy)
        /\ UNCHANGED <<settings, copy, wire, saves, formArmed, knob, knobDue, pick, lost>>
    BY <1>11 DEF EditFilter, Touches, Chooses, T
  <2>2. T \subseteq T2 /\ T2 \in SUBSET Keys /\ k \in Keys
    BY <1>0 DEF Keys, Filters
  <2>3. form \in [Filters -> Values] /\ form' \in [Filters -> Values] /\ form' # Absent
        /\ \A x \in Filters : form'[x] = IF x = k THEN v ELSE form[x]
    BY <2>1, Values01 DEF SettingsTypes
  <2>4. p \in Patches
    <3>1. p \in [{k} -> Values] /\ {k} \in SUBSET Keys
      BY <2>2
    <3> HIDE DEF p
    <3> QED
      BY <3>1 DEF Patches, Values
  <2> HIDE DEF p
  <2>5. hurried' \in BOOLEAN
    BY <2>1 DEF SettingsTypes
  <2>6. CASE ~formArmed
    BY <1>0, <2>1, <2>3, <2>5, <2>6 DEF SettingsTypes, T
  <2>7. CASE formArmed
    <3>1. CleanPatch(form', T2)
      BY <2>1, <2>3, <2>7 DEF SettingsTypes, T, CleanPatch
    <3> HIDE DEF T2
    <3>2. \A x : CleanPatch(x, T) => CleanPatch(x, T2)
      BY <2>2 DEF CleanPatch
    <3>3. wire' \in Seq(Clean(T2)) /\ saves' \in Seq(CleanSaves(T2)) /\ AnsweredFirst(wire')
      BY <1>0, <2>1, <2>2, CleanGrows, SeqMonotonic
    <3>4. wished' \in Full
      BY <2>1, <2>4, <2>7, OverIs DEF SettingsTypes
    <3>5. pick # "idle" => DOMAIN PRESET \subseteq T2
      BY <2>2 DEF SettingsTypes, T
    <3> QED
      BY <2>1, <2>2, <2>3, <2>5, <2>7, <3>1, <3>2, <3>3, <3>4, <3>5 DEF SettingsTypes, T
  <2> QED
    BY <2>6, <2>7
<1>12. CASE UNCHANGED settingsVars
  <2>1. UNCHANGED <<settings, copy, wire, saves, form, formArmed, formDue, knob, knobDue, pick, wished, touched, hurried, lost>>
    BY <1>12 DEF settingsVars, pageVars, userVars
  <2> QED
    BY <2>1 DEF SettingsTypes
<1> QED
  BY <1>1, <1>2, <1>3, <1>4, <1>5, <1>6, <1>7, <1>8, <1>9, <1>10, <1>11, <1>12 DEF SettingsNext, Values

-----------------------------------------------------------------------------
Plain(w, q) == (\A i \in 1..Len(q) : ~Special(q[i])) /\ (\A i \in 1..Len(w) : ~Special(w[i]))

LEMMA NoSpecials ==
    ASSUME NEW w, NEW q, NEW pk \in {"idle", "flushed"}, Specials(w, q, pk)
    PROVE  Plain(w, q)
BY DEF Specials, Special, GoesWith, Plain

LEMMA PlainIsSpecial ==
    ASSUME NEW w, NEW q, NEW pk, Plain(w, q)
    PROVE  Specials(w, q, pk)
BY DEF Specials, Plain

LEMMA PlainAppended ==
    ASSUME NEW T, NEW w, NEW q \in Seq(CleanSaves(T)), NEW p \in CleanSaves(T), Plain(w, q)
    PROVE  /\ ~Special(p) => Plain(w, Append(q, p))
           /\ \A pk : GoesWith(p, pk) => Specials(w, Append(q, p), pk)
<1> DEFINE a == Append(q, p)
<1>1. /\ Len(q) \in Nat /\ Len(a) = Len(q) + 1 /\ a[Len(a)] = p
      /\ \A i \in 1..Len(q) : a[i] = q[i]
  BY AppendProperties, LenProperties
<1> HIDE DEF a
<1>2. 1..Len(a) = 1..Len(q) \cup {Len(a)}
  BY <1>1
<1>3. ~Special(p) => Plain(w, a)
  BY <1>1, <1>2 DEF Plain
<1>4. ASSUME NEW pk, GoesWith(p, pk) PROVE Specials(w, a, pk)
  BY <1>1, <1>2, <1>4 DEF Specials, Plain
<1> QED
  BY <1>3, <1>4 DEF a

\* What was due has no save that others wait for.
LEMMA PlainDues ==
    ASSUME NEW T, NEW w, NEW q \in Seq(CleanSaves(T)), Plain(w, q)
    PROVE  /\ (formDue # Absent => formDue \in [Filters -> Values] /\ CleanPatch(formDue, T))
                  => Plain(w, q \o Due("save", formDue))
           /\ (knobDue # Absent => knobDue \in Values /\ CleanPatch(weightOf(knobDue), T)) => Plain(w, q \o KnobDue)
<1>2. ASSUME formDue # Absent => formDue \in [Filters -> Values] /\ CleanPatch(formDue, T)
      PROVE  Plain(w, q \o Due("save", formDue))
  <2> DEFINE p == Save("save", formDue)
  <2>1. /\ q \o Due("save", formDue) = (IF formDue = Absent THEN q ELSE Append(q, p))
        /\ formDue # Absent => p \in CleanSaves(T) /\ p.what = "save"
    BY <1>2, FormDueIs
  <2> HIDE DEF p
  <2>2. formDue # Absent => ~Special(p)
    BY <2>1 DEF Special
  <2> QED
    BY <2>1, <2>2, PlainAppended
<1>3. ASSUME knobDue # Absent => knobDue \in Values /\ CleanPatch(weightOf(knobDue), T)
      PROVE  Plain(w, q \o KnobDue)
  <2> DEFINE p == Save("save", weightOf(knobDue))
  <2>1. /\ q \o KnobDue = (IF knobDue = Absent THEN q ELSE Append(q, p))
        /\ knobDue # Absent => p \in CleanSaves(T) /\ p.what = "save"
    BY <1>3, KnobDueIs
  <2> HIDE DEF p
  <2>2. knobDue # Absent => ~Special(p)
    BY <2>1 DEF Special
  <2> QED
    BY <2>1, <2>2, PlainAppended
<1> QED
  BY <1>2, <1>3

LEMMA SpecialsTail ==
    ASSUME NEW T, NEW w \in Seq(Clean(T)), w # <<>>, OneSave(w), NEW q, NEW pk, Specials(w, q, pk)
    PROVE  /\ Specials(Tail(w), q, pk)
           /\ Special(w[1]) => q = <<>> /\ GoesWith(w[1], pk) /\ \A pk2 : Specials(Tail(w), q, pk2)
<1> DEFINE t == Tail(w)
<1>1. /\ t \in Seq(Clean(T)) /\ 1 \in 1..Len(w) /\ w[1] \in Clean(T) /\ (w[1].patch # Absent => ~Out(t))
      /\ Len(t) = Len(w) - 1 /\ Len(w) \in Nat /\ \A i \in 1..Len(t) : t[i] = w[i + 1]
  BY TailKeeps, HeadTailProperties, LenProperties
<1> HIDE DEF t
<1>2. Specials(t, q, pk)
  <2>1. \A i \in 1..Len(t) : i + 1 \in 1..Len(w)
    BY <1>1
  <2> QED
    BY <1>1, <2>1 DEF Specials
<1>3. ASSUME Special(w[1]) PROVE q = <<>> /\ GoesWith(w[1], pk) /\ \A pk2 : Specials(t, q, pk2)
  <2>1. q = <<>> /\ GoesWith(w[1], pk)
    BY <1>1, <1>3 DEF Specials
  <2>2. w[1].patch # Absent
    BY <1>1, <1>3, OnePart
  <2>3. \A i \in 1..Len(t) : ~Special(t[i])
    BY <1>1, <2>2, WireIs, OnePart
  <2>4. Len(q) = 0
    BY <2>1, EmptySeq
  <2> QED
    BY <2>1, <2>3, <2>4 DEF Specials
<1> QED
  BY <1>2, <1>3 DEF t

LEMMA AsksEither == \A w : Asks(w, {"form", "knob"}) <=> Asks(w, {"form"}) \/ Asks(w, {"knob"})
BY DEF Asks

\* With nothing on its way the settings are those wished, and answers tell of them.
LEMMA Still ==
    ASSUME SettingsTypes, Calm, saves = <<>>, ~Out(wire), \A k \in Keys : ~IsDue(k)
    PROVE  settings = wished
<1>1. \A k \in Keys : settings[k] = wished[k]
  BY Settled DEF Calm, Comes, SettingsTypes
<1> QED
  BY <1>1 DEF SettingsTypes, Full

LEMMA AnswerIs ==
    ASSUME SettingsTypes, Calm, wire # <<>>, wire[1].answer # Absent, ~Out(Tail(wire))
    PROVE  wire[1].answer = settings
<1>1. 1 \in 1..Len(wire) /\ Len(wire) \in Nat
  BY TailKeeps, WireIs DEF SettingsTypes
<1>2. \A j \in 1+1..Len(wire) : wire[j].patch = Absent
  <2> DEFINE t == Tail(wire)
  <2>1. Len(t) = Len(wire) - 1 /\ (\A i \in 1..Len(t) : t[i] = wire[i + 1]) /\ t \in Seq(Clean(touched))
    BY HeadTailProperties DEF SettingsTypes
  <2>2. \A i \in 1..Len(t) : t[i].patch = Absent
    BY <2>1, WireIs
  <2> HIDE DEF t
  <2> TAKE j \in 1+1..Len(wire)
  <2>3. j - 1 \in 1..Len(t) /\ t[j - 1] = wire[j]
    BY <1>1, <2>1
  <2> QED
    BY <2>2, <2>3
<1> QED
  BY <1>1, <1>2 DEF Calm, Told

LEMMA IdleIs ==
    ASSUME SettingsTypes, Calm, ~Busy
    PROVE  /\ saves = <<>> /\ pick = "idle" /\ ~Out(wire) /\ ~Asks(wire, {"form", "knob"}) /\ Plain(wire, saves)
           /\ copy = Absent \/ copy = settings
           /\ \A k \in Keys : ~IsDue(k) => settings[k] = wished[k]
           /\ (form # Absent /\ formArmed) => form = filtersFromSettings(wished)
           /\ form # Absent => formArmed
           /\ form = Absent => settings = wished
<1>1. saves = <<>> /\ pick = "idle" /\ \A i \in 1..Len(wire) : wire[i].what = "boot"
  BY WireIs DEF Busy, SettingsTypes
<1>2. ~Out(wire) /\ \A i \in 1..Len(wire) : wire[i].patch = Absent
  BY <1>1, WireIs, OnePart DEF SettingsTypes
<1>3. ~Asks(wire, {"form", "knob"}) /\ ~Asks(wire, {"form"})
  BY <1>1 DEF Asks
<1>4. copy = Absent \/ copy = settings
  BY <1>2 DEF Calm, Told
<1>5. \A k \in Keys : ~IsDue(k) => settings[k] = wished[k]
  BY <1>1, <1>2, Settled DEF Calm, Comes, SettingsTypes
<1>6. Plain(wire, saves)
  BY <1>1, EmptySeq DEF Plain, Special
<1>7. form = Absent => settings = wished
  <2> SUFFICES ASSUME form = Absent PROVE settings = wished
    OBVIOUS
  <2>1. \A k \in Keys : ~IsDue(k)
    BY <1>1 DEF Calm, Shows, IsDue
  <2> QED
    BY <1>1, <1>2, <2>1, Still
<1> QED
  BY <1>1, <1>2, <1>3, <1>4, <1>5, <1>6, <1>7 DEF Calm, Shows

LEMMA CalmStart == SettingsInit => Calm
<1> SUFFICES ASSUME SettingsInit PROVE Calm
  OBVIOUS
<1>1. Read("boot").what = "boot" /\ Read("boot").patch = Absent /\ Read("boot").answer = Absent
  BY ReadIs
<1>2. Len(wire) = 1 /\ wire[1] = Read("boot") /\ DOMAIN wire = 1..1 /\ Len(saves) = 0
  BY DEF SettingsInit
<1>3. Line(wire, saves, pick) /\ ~Out(wire)
  BY <1>1, <1>2 DEF Line, OneSave, Specials, Special, Out
<1>4. Told(wire, settings, copy)
  BY <1>1, <1>2 DEF Told, SettingsInit
<1>5. Dues
  BY DEF Dues, SettingsInit
<1>6. Comes
  BY <1>1, <1>2 DEF Comes, Ends, Ahead, Going, SettingsInit
<1>7. Shows
  BY <1>1, <1>2 DEF Shows, SettingsInit, Asks
<1> QED
  BY <1>3, <1>4, <1>5, <1>6, <1>7 DEF Calm, SettingsInit

LEMMA CalmTaken ==
    ASSUME SettingsTypes, Calm, NEW i \in DOMAIN wire, BackendTakes(i)
    PROVE  Calm'
<1> DEFINE T == touched
           e == [wire[i] EXCEPT !.answer = settings']
<1>0. /\ wire \in Seq(Clean(T)) /\ settings \in Full /\ CleanPatch(settings, T) /\ AnsweredFirst(wire) /\ Len(wire) \in Nat
      /\ i \in 1..Len(wire) /\ wire[i].answer = Absent
      /\ settings' = IF wire[i].patch = Absent THEN settings ELSE Over(settings, wire[i].patch)
  BY WireIs DEF SettingsTypes, BackendTakes
<1> HIDE DEF T
<1>1. PICK n \in 0..Len(wire) : \A j \in 1..Len(wire) : wire[j].answer # Absent <=> j <= n
  BY <1>0 DEF AnsweredFirst
<1>2. Cardinality({j \in DOMAIN AllBut(wire, i) : AllBut(wire, i)[j].answer # Absent}) = n
  BY <1>0, <1>1, CountIs
<1>3. wire' = Moved(wire, i, n, e)
  BY <1>2 DEF BackendTakes, Moved
<1>4. settings' \in Full /\ e \in Clean(T) /\ e.what = wire[i].what /\ e.patch = wire[i].patch /\ e.answer = settings'
  BY <1>0, Taken
<1> HIDE DEF e
<1>5. /\ OneSave(wire) => OneSave(wire')
      /\ Specials(wire, saves, pick) => Specials(wire', saves, pick)
      /\ Told(wire, settings, copy) => Told(wire', settings', copy)
      /\ \A x \in {"form", "knob"} : Asks(wire', {x}) <=> Asks(wire, {x})
      /\ Out(wire') <=> Out(wire)
      /\ \A k \in Keys : \A v : (OneSave(wire) /\ Ends(settings, wire, saves, k, v)) => Ends(settings', wire', saves, k, v)
  BY <1>0, <1>1, <1>3, <1>4, TakenKeeps
<1>6. UNCHANGED <<copy, saves, form, formArmed, formDue, knob, knobDue, pick, wished>>
  BY DEF BackendTakes, pageVars, userVars
<1>7. Line(wire', saves', pick') /\ (~Out(wire') => saves' = <<>>) /\ Told(wire', settings', copy')
  BY <1>5, <1>6 DEF Calm, Line
<1>8. Dues'
  BY <1>6 DEF Calm, Dues
<1>9. Comes'
  <2> SUFFICES ASSUME NEW k \in Keys, ~(IsDue(k)') PROVE Ends(settings', wire', saves', k, wished'[k])
    BY DEF Comes
  <2>1. Ends(settings, wire, saves, k, wished[k])
    BY <1>6 DEF Calm, Comes, IsDue
  <2> QED
    BY <1>5, <1>6, <2>1 DEF Calm, Line
<1>10. Shows'
  BY <1>5, <1>6, AsksEither DEF Calm, Shows
<1> QED
  BY <1>7, <1>8, <1>9, <1>10 DEF Calm

LEMMA CalmTimers ==
    ASSUME SettingsTypes, Calm, FormTimer \/ KnobTimer
    PROVE  Calm'
<1> DEFINE T == touched
<1>0. wire \in Seq(Clean(T)) /\ saves \in Seq(CleanSaves(T))
  BY DEF SettingsTypes
<1>1. pick = "idle" /\ form # Absent /\ ~Asks(wire, {"form", "knob"})
  BY DEF FormTimer, KnobTimer, Calm, Dues, Shows
<1>2. Plain(wire, saves)
  BY <1>1, NoSpecials DEF Calm, Line
<1>3. /\ UNCHANGED <<settings, copy, form, formArmed, knob, pick, wished>>
      /\ formDue' \in {formDue, Absent} /\ knobDue' \in {knobDue, Absent}
  BY DEF FormTimer, KnobTimer, userVars
<1>4. \E q \in Seq(CleanSaves(T)) :
         /\ SentAs(wire, q, wire', saves') /\ Plain(wire, q)
         /\ \A k \in Keys : ~(IsDue(k)') => Ends(settings, wire, q, k, wished[k])
  <2>1. CASE FormTimer
    <3> DEFINE p == Save("save", formDue)
    <3>1. formDue # Absent /\ formDue' = Absent /\ knobDue' = knobDue /\ SentAs(wire, saves \o Due("save", formDue), wire', saves')
      BY <2>1, SendsIs DEF FormTimer
    <3>2. /\ saves \o Due("save", formDue) = Append(saves, p) /\ p \in CleanSaves(T) /\ p.what = "save" /\ p.patch = formDue
      BY <1>0, <3>1, FormDueIs DEF SettingsTypes
    <3>3. formDue = filtersFromSettings(wished) /\ DOMAIN formDue = Filters /\ \A k \in Filters : formDue[k] = wished[k]
      BY <3>1 DEF Calm, Dues, filtersFromSettings
    <3> HIDE DEF p, T
    <3>4. Append(saves, p) \in Seq(CleanSaves(T)) /\ Plain(wire, Append(saves, p))
      BY <1>0, <1>2, <3>2, PlainAppended, AppendProperties DEF Special
    <3>5. ASSUME NEW k \in Keys, ~(IsDue(k)') PROVE Ends(settings, wire, Append(saves, p), k, wished[k])
      <4>1. CASE k \in Filters
        <5>1. k \in DOMAIN p.patch /\ p.patch[k] = wished[k]
          BY <3>2, <3>3, <4>1
        <5>2. Ends(settings, wire, Append(saves, p), k, p.patch[k])
          BY <1>0, <3>2, <5>1, WaitsLast
        <5> QED
          BY <5>1, <5>2
      <4>2. CASE k \notin Filters
        <5>1. ~IsDue(k)
          BY <1>3, <3>1, <3>5, <4>2 DEF IsDue
        <5>2. Ends(settings, wire, saves, k, wished[k]) /\ k \notin DOMAIN p.patch
          BY <3>2, <3>3, <4>2, <5>1 DEF Calm, Comes
        <5> QED
          BY <1>0, <3>2, <5>2, WaitsLast
      <4> QED
        BY <4>1, <4>2
    <3> QED
      BY <3>1, <3>2, <3>4, <3>5
  <2>2. CASE KnobTimer
    <3> DEFINE p == Save("save", weightOf(knobDue))
    <3>1. knobDue # Absent /\ knobDue' = Absent /\ formDue' = formDue /\ SentAs(wire, saves \o KnobDue, wire', saves')
      BY <2>2, SendsIs DEF KnobTimer
    <3>2. /\ saves \o KnobDue = Append(saves, p) /\ p \in CleanSaves(T) /\ p.what = "save" /\ p.patch = weightOf(knobDue)
      BY <1>0, <3>1, KnobDueIs DEF SettingsTypes
    <3>3. DOMAIN p.patch = {"weight"} /\ p.patch["weight"] = wished["weight"] /\ "weight" \notin Filters
      BY <3>1, <3>2, PatchesAre DEF Calm, Dues, SettingsTypes, Filters
    <3> HIDE DEF p, T
    <3>4. Append(saves, p) \in Seq(CleanSaves(T)) /\ Plain(wire, Append(saves, p))
      BY <1>0, <1>2, <3>2, PlainAppended, AppendProperties DEF Special
    <3>5. ASSUME NEW k \in Keys, ~(IsDue(k)') PROVE Ends(settings, wire, Append(saves, p), k, wished[k])
      <4>1. CASE k = "weight"
        <5>1. Ends(settings, wire, Append(saves, p), k, p.patch[k])
          BY <1>0, <3>2, <3>3, <4>1, WaitsLast
        <5> QED
          BY <3>3, <4>1, <5>1
      <4>2. CASE k # "weight"
        <5>1. ~IsDue(k)
          BY <1>3, <3>1, <3>5, <4>2 DEF IsDue
        <5>2. Ends(settings, wire, saves, k, wished[k]) /\ k \notin DOMAIN p.patch
          BY <3>3, <4>2, <5>1 DEF Calm, Comes
        <5> QED
          BY <1>0, <3>2, <5>2, WaitsLast
      <4> QED
        BY <4>1, <4>2
    <3> QED
      BY <3>1, <3>2, <3>4, <3>5
  <2> QED
    BY <2>1, <2>2
<1>5. PICK q \in Seq(CleanSaves(T)) :
         /\ SentAs(wire, q, wire', saves') /\ Plain(wire, q)
         /\ \A k \in Keys : ~(IsDue(k)') => Ends(settings, wire, q, k, wished[k])
  BY <1>4
<1> HIDE DEF T
<1>6. Line(wire, q, pick)
  BY <1>5, PlainIsSpecial DEF Calm, Line
<1>7. /\ Line(wire', saves', pick) /\ (~Out(wire') => saves' = <<>>) /\ Told(wire', settings, copy)
      /\ \A x \in {"form", "knob"} : Asks(wire', {x}) <=> Asks(wire, {x})
      /\ \A k, v : Ends(settings, wire, q, k, v) => Ends(settings, wire', saves', k, v)
  BY <1>0, <1>5, <1>6, SentKeeps DEF Calm
<1>8. Dues'
  BY <1>3, <1>1 DEF Calm, Dues
<1>9. Comes'
  <2> SUFFICES ASSUME NEW k \in Keys, ~(IsDue(k)') PROVE Ends(settings', wire', saves', k, wished'[k])
    BY DEF Comes
  <2> QED
    BY <1>3, <1>5, <1>7
<1>10. Shows'
  BY <1>1, <1>3, <1>7, AsksEither DEF Calm, Shows
<1> QED
  BY <1>3, <1>7, <1>8, <1>9, <1>10 DEF Calm

\* What was due joins what waits.
LEMMA DuesJoin ==
    ASSUME SettingsTypes, Calm, NEW w, NEW k \in Keys, NEW what \in {"save", "flush"}, what = "flush" => DOMAIN PRESET \subseteq touched,
           \/ k \in Filters /\ formDue # Absent
           \/ k = "weight" /\ knobDue # Absent
           \/ Ends(settings, w, saves, k, wished[k])
    PROVE  /\ Ends(settings, w, (saves \o Due(what, formDue)) \o KnobDue, k, wished[k])
           /\ Ends(settings, w, (saves \o KnobDue) \o Due(what, formDue), k, wished[k])
<1> DEFINE T == touched
           f == Save(what, formDue)
           n == Save("save", weightOf(knobDue))
<1>0. saves \in Seq(CleanSaves(T)) /\ DOMAIN PRESET \subseteq Keys
  BY PatchesAre DEF SettingsTypes
<1>1. formDue # Absent => /\ f \in CleanSaves(T) /\ DOMAIN f.patch = Filters /\ \A x \in Filters : f.patch[x] = wished[x]
  BY <1>0, FormDueIs DEF Calm, Dues, filtersFromSettings, SettingsTypes
<1>2. knobDue # Absent => /\ n \in CleanSaves(T) /\ DOMAIN n.patch = {"weight"} /\ n.patch["weight"] = wished["weight"]
  BY <1>0, KnobDueIs, PatchesAre DEF Calm, Dues, SettingsTypes
<1>3. \A q \in Seq(CleanSaves(T)) :
         /\ q \o Due(what, formDue) = (IF formDue = Absent THEN q ELSE Append(q, f)) /\ q \o Due(what, formDue) \in Seq(CleanSaves(T))
         /\ q \o KnobDue = (IF knobDue = Absent THEN q ELSE Append(q, n)) /\ q \o KnobDue \in Seq(CleanSaves(T))
  BY FormDueIs, KnobDueIs DEF SettingsTypes
<1>4. "weight" \notin Filters /\ Keys = Filters \cup {"weight"}
  BY DEF Filters, Keys
<1> HIDE DEF T, f, n
\* Each joining keeps what the other set, and sets its own.
<1>5. ASSUME NEW q \in Seq(CleanSaves(T))
      PROVE  /\ (k \in Filters /\ formDue # Absent) \/ Ends(settings, w, q, k, wished[k])
                    => Ends(settings, w, q \o Due(what, formDue), k, wished[k])
             /\ (k = "weight" /\ knobDue # Absent) \/ Ends(settings, w, q, k, wished[k])
                    => Ends(settings, w, q \o KnobDue, k, wished[k])
  <2>1. ASSUME (k \in Filters /\ formDue # Absent) \/ Ends(settings, w, q, k, wished[k])
        PROVE  Ends(settings, w, q \o Due(what, formDue), k, wished[k])
    <3>1. CASE formDue = Absent
      BY <1>3, <2>1, <3>1
    <3>2. CASE formDue # Absent /\ k \in Filters
      <4>1. Ends(settings, w, Append(q, f), k, f.patch[k])
        BY <1>1, <3>2, WaitsLast
      <4> QED
        BY <1>1, <1>3, <3>2, <4>1
    <3>3. CASE formDue # Absent /\ k \notin Filters
      <4>1. Ends(settings, w, Append(q, f), k, wished[k])
        BY <1>1, <2>1, <3>3, WaitsLast
      <4> QED
        BY <1>3, <3>3, <4>1
    <3> QED
      BY <3>1, <3>2, <3>3
  <2>2. ASSUME (k = "weight" /\ knobDue # Absent) \/ Ends(settings, w, q, k, wished[k])
        PROVE  Ends(settings, w, q \o KnobDue, k, wished[k])
    <3>1. CASE knobDue = Absent
      BY <1>3, <2>2, <3>1
    <3>2. CASE knobDue # Absent /\ k = "weight"
      <4>1. Ends(settings, w, Append(q, n), k, n.patch[k])
        BY <1>2, <3>2, WaitsLast
      <4> QED
        BY <1>2, <1>3, <3>2, <4>1
    <3>3. CASE knobDue # Absent /\ k # "weight"
      <4>1. Ends(settings, w, Append(q, n), k, wished[k])
        BY <1>2, <2>2, <3>3, WaitsLast
      <4> QED
        BY <1>3, <3>3, <4>1
    <3> QED
      BY <3>1, <3>2, <3>3
  <2> QED
    BY <2>1, <2>2
<1>6. saves \o Due(what, formDue) \in Seq(CleanSaves(T)) /\ saves \o KnobDue \in Seq(CleanSaves(T))
  BY <1>0, <1>3
<1>7. CASE (k \in Filters /\ formDue # Absent) \/ Ends(settings, w, saves, k, wished[k])
  <2>1. Ends(settings, w, saves \o Due(what, formDue), k, wished[k])
    BY <1>0, <1>5, <1>7
  <2>2. Ends(settings, w, (saves \o Due(what, formDue)) \o KnobDue, k, wished[k])
    BY <1>5, <1>6, <2>1
  <2>3. Ends(settings, w, saves, k, wished[k]) => Ends(settings, w, saves \o KnobDue, k, wished[k])
    BY <1>0, <1>5
  <2>4. Ends(settings, w, (saves \o KnobDue) \o Due(what, formDue), k, wished[k])
    BY <1>5, <1>6, <1>7, <2>3
  <2> QED
    BY <2>2, <2>4
<1>8. CASE k = "weight" /\ knobDue # Absent
  <2>1. Ends(settings, w, (saves \o Due(what, formDue)) \o KnobDue, k, wished[k])
    BY <1>5, <1>6, <1>8
  <2>2. Ends(settings, w, saves \o KnobDue, k, wished[k])
    BY <1>0, <1>5, <1>8
  <2>3. Ends(settings, w, (saves \o KnobDue) \o Due(what, formDue), k, wished[k])
    BY <1>5, <1>6, <2>2
  <2> QED
    BY <2>1, <2>3
<1> QED
  BY <1>7, <1>8

LEMMA CalmLeaves ==
    ASSUME SettingsTypes, Calm, LeavePage
    PROVE  Calm'
<1> DEFINE T == touched
           u == Unheard(wire, {"form", "knob"})
           q == (saves \o Due("save", formDue)) \o KnobDue
<1>0. wire \in Seq(Clean(T)) /\ saves \in Seq(CleanSaves(T))
  BY DEF SettingsTypes
<1>1. /\ SentAs(u, q, wire', saves') /\ form' = Absent /\ formDue' = Absent /\ knob' = Absent /\ knobDue' = Absent
      /\ UNCHANGED <<settings, copy, pick, wished>>
  BY SendsIs DEF LeavePage, userVars, Redraws
<1>2. /\ u \in Seq(Clean(T)) /\ (OneSave(wire) => OneSave(u)) /\ Told(u, settings, copy) /\ SameGoing(wire, u)
      /\ ~Asks(u, {"form"}) /\ ~Asks(u, {"knob"})
  BY <1>0, UnheardIs, UnheardKeeps DEF Calm
<1>3. Specials(u, q, pick) /\ q \in Seq(CleanSaves(T))
  <2>1. Specials(u, saves, pick)
    <3>0. Len(u) = Len(wire)
          /\ \A i \in 1..Len(wire) : u[i].what = IF wire[i].what \in {"form", "knob"} THEN "boot" ELSE wire[i].what
      BY <1>0, UnheardIs
    <3> HIDE DEF u
    <3>1. \A i \in 1..Len(wire) : Special(u[i]) <=> Special(wire[i])
      BY <3>0 DEF Special
    <3>2. \A i \in 1..Len(wire) : Special(wire[i]) => u[i].what = wire[i].what
      BY <3>0 DEF Special
    <3>3. Len(u) = Len(wire)
      BY <3>0
    <3> HIDE DEF u
    <3> QED
      BY <3>1, <3>2, <3>3 DEF Calm, Line, Specials, GoesWith
  <2>2. CASE pick = "idle"
    <3>1. Plain(u, saves)
      BY <2>1, <2>2, NoSpecials
    <3> DEFINE q1 == saves \o Due("save", formDue)
    <3>0. /\ formDue # Absent => formDue \in [Filters -> Values] /\ CleanPatch(formDue, T)
          /\ knobDue # Absent => knobDue \in Values /\ CleanPatch(weightOf(knobDue), T)
      BY DEF SettingsTypes
    <3> HIDE DEF T, u
    <3>2. q1 \in Seq(CleanSaves(T)) /\ Plain(u, q1)
      BY <1>0, <3>0, <3>1, FormDueIs, PlainDues
    <3> HIDE DEF q1
    <3>3. q1 \o KnobDue \in Seq(CleanSaves(T)) /\ Plain(u, q1 \o KnobDue)
      BY <3>0, <3>2, KnobDueIs, PlainDues
    <3> QED
      BY <3>3, PlainIsSpecial DEF q1
  <2>3. CASE pick # "idle"
    <3>1. formDue = Absent /\ knobDue = Absent
      BY <2>3 DEF Calm, Dues
    <3>2. q = saves
      BY <1>0, <3>1, FormDueIs, KnobDueIs
    <3> HIDE DEF q
    <3> QED
      BY <1>0, <2>1, <3>2
  <2> QED
    BY <2>2, <2>3
<1>4. ASSUME NEW k \in Keys, ~(IsDue(k)') PROVE Ends(settings, u, q, k, wished[k])
  <2>1. ~(pick \in {"flushing", "flushed"} /\ k \in DOMAIN PRESET)
    BY <1>1, <1>4 DEF IsDue
  <2>2. (k \in Filters /\ formDue # Absent) \/ (k = "weight" /\ knobDue # Absent) \/ Ends(settings, wire, saves, k, wished[k])
    BY <2>1 DEF Calm, Comes, IsDue
  <2>3. Ends(settings, wire, saves, k, wished[k]) => Ends(settings, u, saves, k, wished[k])
    BY <1>2, EndsSame
  <2> HIDE DEF u
  <2> QED
    BY <2>2, <2>3, DuesJoin
<1> HIDE DEF T, u, q
<1>5. Line(u, q, pick)
  BY <1>2, <1>3 DEF Calm, Line
<1>6. /\ Line(wire', saves', pick) /\ (~Out(wire') => saves' = <<>>) /\ Told(wire', settings, copy)
      /\ \A x \in {"form", "knob"} : Asks(wire', {x}) <=> Asks(u, {x})
      /\ \A k, v : Ends(settings, u, q, k, v) => Ends(settings, wire', saves', k, v)
  <2>1. u \in Seq(Clean(T)) /\ q \in Seq(CleanSaves(T)) /\ SentAs(u, q, wire', saves') /\ Told(u, settings, copy)
    BY <1>1, <1>2, <1>3
  <2>4. Line(wire', saves', pick)
    BY <1>5, <2>1, SentKeeps
  <2>5. ~Out(wire') => saves' = <<>>
    BY <2>1, SentKeeps
  <2>6. Told(wire', settings, copy)
    BY <2>1, SentKeeps
  <2>2. \A x \in {"form", "knob"} : Asks(wire', {x}) <=> Asks(u, {x})
    BY <1>1, <1>2, <1>3, SentKeeps
  <2>3. \A k, v : Ends(settings, u, q, k, v) => Ends(settings, wire', saves', k, v)
    BY <1>1, <1>2, <1>3, SentKeeps
  <2> QED
    BY <2>2, <2>3, <2>4, <2>5, <2>6
<1>7. Dues'
  BY <1>1 DEF Calm, Dues
<1>8. Comes'
  BY <1>1, <1>4, <1>6 DEF Comes
<1>9. Shows'
  BY <1>1, <1>2, <1>6, AsksEither DEF Shows
<1> QED
  BY <1>1, <1>6, <1>7, <1>8, <1>9 DEF Calm

LEMMA CalmPicks ==
    ASSUME SettingsTypes, Calm, ~Busy, Pick
    PROVE  Calm'
<1> DEFINE T == touched \cup DOMAIN PRESET
           h == Unheard(wire, {"knob"})
           u == Append(h, Read("knob"))
           q == (saves \o KnobDue) \o Due("flush", formDue)
<1>0. wire \in Seq(Clean(touched)) /\ saves \in Seq(CleanSaves(touched))
  BY DEF SettingsTypes
<1>1. /\ form # Absent /\ pick = "idle"
      /\ formDue' = (IF Due("flush", formDue) = <<>> THEN formDue ELSE Absent)
      /\ pick' = (IF Due("flush", formDue) = <<>> THEN "flushed" ELSE "flushing")
      /\ SentAs(u, q, wire', saves') /\ knob' = Absent /\ knobDue' = Absent /\ wished' = Over(wished, PRESET)
      /\ UNCHANGED <<settings, copy, form, formArmed>>
  BY SendsIs DEF Pick, Redraws, Chooses, FlushesFirst, Flush
<1>2. /\ formDue = Absent => formDue' = Absent /\ pick' = "flushed"
      /\ formDue # Absent => formDue' = Absent /\ pick' = "flushing"
  <2>1. formDue = Absent => Due("flush", formDue) = <<>>
    BY DEF Due
  <2>2. formDue # Absent => Due("flush", formDue) # <<>>
    BY DEF Due
  <2> QED
    BY <1>1, <2>1, <2>2
<1>3. saves = <<>> /\ ~Out(wire) /\ Plain(wire, saves) /\ ~Asks(wire, {"form"}) /\ formArmed
  BY <1>1, IdleIs, AsksEither
<1>4. /\ h \in Seq(Clean(touched)) /\ (OneSave(wire) => OneSave(h)) /\ Told(h, settings, copy) /\ SameGoing(wire, h) /\ ~Out(h)
      /\ ~Asks(h, {"form"})
  <2>1. "form" \in Whats \ ({"knob"} \cup {"boot"})
    BY DEF Whats
  <2> QED
    BY <1>0, <1>3, <2>1, UnheardIs, UnheardKeeps DEF Calm
<1>5. /\ u \in Seq(Clean(touched)) /\ OneSave(u) /\ Told(u, settings, copy) /\ SameGoing(h, u) /\ ~Out(u)
  <2> HIDE DEF h
  <2> QED
    BY <1>4, ReadIs, GoesOut DEF Calm, Line
<1>6. u \in Seq(Clean(T)) /\ saves \in Seq(CleanSaves(T))
  <2>1. Clean(touched) \subseteq Clean(T) /\ CleanSaves(touched) \subseteq CleanSaves(T)
    BY CleanGrows
  <2> HIDE DEF T, u
  <2> QED
    BY <1>0, <1>5, <2>1, SeqMonotonic
<1>7. \A p : CleanPatch(p, touched) => CleanPatch(p, T)
  BY DEF CleanPatch
<1>8. DOMAIN PRESET \subseteq T
  OBVIOUS
<1> HIDE DEF h, u, T
<1>9. Specials(u, q, pick') /\ q \in Seq(CleanSaves(T))
  <2> DEFINE q1 == saves \o KnobDue
  <2>0. Plain(u, saves)
    <3>1. \A i \in 1..Len(u) : ~Special(u[i])
      BY <1>5, WireIs, OnePart
    <3> QED
      BY <1>3, <3>1 DEF Plain
  <2>01. /\ knobDue # Absent => knobDue \in Values /\ CleanPatch(weightOf(knobDue), T)
         /\ formDue # Absent => formDue \in [Filters -> Values] /\ CleanPatch(formDue, T)
    BY <1>7 DEF SettingsTypes
  <2>1. q1 \in Seq(CleanSaves(T)) /\ Plain(u, q1)
    <3>1. CASE knobDue = Absent
      BY <1>6, <2>0, <3>1, KnobDueIs
    <3>2. CASE knobDue # Absent
      BY <1>6, <2>0, <2>01, KnobDueIs, PlainDues
    <3> QED
      BY <3>1, <3>2
  <2> HIDE DEF q1
  <2>2. q = q1 \o Due("flush", formDue)
    BY DEF q1
  <2> HIDE DEF q
  <2>3. CASE formDue = Absent
    <3>1. q = q1
      BY <2>1, <2>2, <2>3, FormDueIs, <1>8
    <3> QED
      BY <2>1, <3>1, PlainIsSpecial
  <2>4. CASE formDue # Absent
    <3> DEFINE p == Save("flush", formDue)
    <3>1. q = Append(q1, p) /\ p \in CleanSaves(T) /\ p.what = "flush"
      BY <1>8, <2>01, <2>1, <2>2, <2>4, FormDueIs
    <3>2. GoesWith(p, pick')
      BY <1>2, <2>4, <3>1 DEF GoesWith
    <3> HIDE DEF p
    <3> QED
      BY <2>1, <3>1, <3>2, PlainAppended, AppendProperties
  <2> QED
    BY <2>3, <2>4
<1>10. PRESET \in Patches /\ DOMAIN PRESET = {"margin", "weight"} /\ wished \in Full
  BY PatchesAre DEF SettingsTypes
<1>11. \A k \in Keys : wished'[k] = IF k \in DOMAIN PRESET THEN PRESET[k] ELSE wished[k]
  BY <1>1, <1>10, OverIs
<1>12. ASSUME NEW k \in Keys, ~(IsDue(k)') PROVE Ends(settings, u, q, k, wished'[k])
  <2>1. k \notin DOMAIN PRESET /\ k # "weight"
    BY <1>2, <1>10, <1>12 DEF IsDue
  <2>2. (k \in Filters /\ formDue # Absent) \/ Ends(settings, wire, saves, k, wished[k])
    BY <1>1, <2>1 DEF Calm, Comes, IsDue
  <2>3. Ends(settings, wire, saves, k, wished[k]) => Ends(settings, u, saves, k, wished[k])
    BY <1>4, <1>5, EndsSame
  <2>4. Ends(settings, u, q, k, wished[k])
    <3>1. /\ saves \in Seq(CleanSaves(T)) /\ k \notin DOMAIN weightOf(knobDue)
          /\ (knobDue # Absent => knobDue \in Values /\ CleanPatch(weightOf(knobDue), T))
          /\ (formDue # Absent => formDue \in [Filters -> Values] /\ CleanPatch(formDue, T))
      BY <1>6, <1>7, <2>1 DEF SettingsTypes, weightOf
    <3> DEFINE q1 == saves \o KnobDue
    <3>2. q1 \in Seq(CleanSaves(T)) /\ (Ends(settings, u, saves, k, wished[k]) => Ends(settings, u, q1, k, wished[k]))
      <4>1. CASE knobDue = Absent
        BY <3>1, <4>1, KnobDueIs
      <4>2. CASE knobDue # Absent
        <5> DEFINE n == Save("save", weightOf(knobDue))
        <5>1. q1 = Append(saves, n) /\ n \in CleanSaves(T) /\ n.patch = weightOf(knobDue)
          BY <3>1, <4>2, KnobDueIs
        <5> HIDE DEF n, q1
        <5> QED
          BY <3>1, <5>1, WaitsLast
      <4> QED
        BY <4>1, <4>2
    <3>3. q = q1 \o Due("flush", formDue)
      OBVIOUS
    <3> HIDE DEF q1, q
    <3>4. CASE formDue = Absent
      <4>1. q = q1
        BY <1>8, <3>1, <3>2, <3>3, <3>4, FormDueIs
      <4> QED
        BY <2>2, <2>3, <3>2, <3>4, <4>1
    <3>5. CASE formDue # Absent
      <4> DEFINE p == Save("flush", formDue)
      <4>1. q = Append(q1, p) /\ p \in CleanSaves(T) /\ p.patch = formDue
        BY <1>8, <3>1, <3>2, <3>3, <3>5, FormDueIs
      <4>2. k \in DOMAIN p.patch /\ p.patch[k] = wished[k]
        <5>1. k \in Filters
          BY <2>1 DEF Keys, Filters
        <5> QED
          BY <3>1, <3>5, <4>1, <5>1 DEF Calm, Dues, filtersFromSettings
      <4> HIDE DEF p
      <4>3. Ends(settings, u, Append(q1, p), k, p.patch[k])
        BY <3>2, <4>1, <4>2, WaitsLast
      <4> QED
        BY <4>1, <4>2, <4>3
    <3> QED
      BY <3>4, <3>5
  <2> QED
    BY <1>11, <2>1, <2>4
<1> HIDE DEF q
<1>13. Line(u, q, pick')
  BY <1>5, <1>9 DEF Line
<1>14. /\ Line(wire', saves', pick') /\ (~Out(wire') => saves' = <<>>) /\ Told(wire', settings, copy)
       /\ \A k, v : Ends(settings, u, q, k, v) => Ends(settings, wire', saves', k, v)
  BY <1>1, <1>5, <1>6, <1>9, <1>13, SentKeeps
<1>15. Dues'
  <2>1. \A k \in DOMAIN PRESET : k \in Keys
    BY <1>10 DEF Keys
  <2> QED
    BY <1>1, <1>2, <1>11, <2>1 DEF Dues
<1>16. Comes'
  BY <1>1, <1>12, <1>14 DEF Comes
<1>17. Shows'
  BY <1>1, <1>2, <1>3 DEF Shows
<1> QED
  BY <1>1, <1>14, <1>15, <1>16, <1>17 DEF Calm

\* With no save under way and none waiting a key has what the backend has.
LEMMA NoneOut ==
    ASSUME NEW T, NEW w \in Seq(Clean(T)), ~Out(w)
    PROVE  OneSave(w) /\ Plain(w, <<>>) /\ \A st, k : Ends(st, w, <<>>, k, st[k])
<1>1. \A i \in 1..Len(w) : w[i].patch = Absent /\ ~Special(w[i])
  BY WireIs, OnePart
<1>2. Len(<<>>) = 0
  OBVIOUS
<1>3. \A st, k : Ends(st, w, <<>>, k, st[k])
  BY <1>1, <1>2 DEF Ends, Ahead, Going
<1> QED
  BY <1>1, <1>2, <1>3 DEF OneSave, Plain

LEMMA CalmPickSends ==
    ASSUME SettingsTypes, Calm, PickSends
    PROVE  Calm'
<1> DEFINE T == touched
           p == Save("pick", PRESET)
           q == Append(saves, p)
<1>0. wire \in Seq(Clean(T)) /\ saves \in Seq(CleanSaves(T))
  BY DEF SettingsTypes
<1>1. /\ pick = "flushed" /\ pick' = "saving" /\ SentAs(wire, q, wire', saves')
      /\ UNCHANGED <<settings, copy, form, formArmed, formDue, knob, knobDue, wished>>
  BY SendsIs DEF PickSends, userVars
<1>2. formDue = Absent /\ knobDue = Absent /\ \A k \in DOMAIN PRESET : wished[k] = PRESET[k]
  BY <1>1 DEF Calm, Dues
<1>3. p \in CleanSaves(T) /\ p.what = "pick" /\ p.patch = PRESET
  <2>1. CleanPatch(PRESET, T) /\ PRESET \in Patches /\ PRESET # Absent
    BY <1>1, PatchesAre DEF SettingsTypes, CleanPatch
  <2> QED
    BY <1>0, <2>1, DueIs
<1>4. Plain(wire, saves)
  BY <1>1, NoSpecials DEF Calm, Line
<1> HIDE DEF T, p
<1>5. q \in Seq(CleanSaves(T)) /\ Specials(wire, q, "saving")
  <2>1. GoesWith(p, "saving")
    BY <1>3 DEF GoesWith
  <2> QED
    BY <1>0, <1>3, <1>4, <2>1, PlainAppended, WaitsLast
<1>6. ASSUME NEW k \in Keys PROVE Ends(settings, wire, q, k, wished[k])
  <2>1. CASE k \in DOMAIN PRESET
    <3>1. Ends(settings, wire, q, k, p.patch[k])
      BY <1>0, <1>3, <2>1, WaitsLast
    <3> QED
      BY <1>2, <1>3, <2>1, <3>1
  <2>2. CASE k \notin DOMAIN PRESET
    <3>1. Ends(settings, wire, saves, k, wished[k])
      BY <1>2, <2>2 DEF Calm, Comes, IsDue
    <3> QED
      BY <1>0, <1>3, <2>2, <3>1, WaitsLast
  <2> QED
    BY <2>1, <2>2
<1> HIDE DEF q
<1>7. Line(wire, q, "saving")
  BY <1>5 DEF Line, Calm
<1>8. Told(wire, settings, copy)
  BY DEF Calm
<1>9. Line(wire', saves', "saving") /\ (~Out(wire') => saves' = <<>>)
  BY <1>0, <1>1, <1>5, <1>7, SentKeeps
<1>10. Told(wire', settings, copy)
  BY <1>0, <1>1, <1>5, <1>8, SentKeeps
<1>11. \A x \in {"form", "knob"} : Asks(wire', {x}) <=> Asks(wire, {x})
  BY <1>0, <1>1, <1>5, SentKeeps
<1>12. \A k \in Keys : Ends(settings, wire', saves', k, wished[k])
  BY <1>0, <1>1, <1>5, <1>6, SentKeeps
<1>13. Dues'
  BY <1>1, <1>2 DEF Dues
<1>14. Comes'
  BY <1>1, <1>12 DEF Comes
<1>15. Shows'
  BY <1>1, <1>11, AsksEither DEF Calm, Shows
<1> QED
  BY <1>1, <1>9, <1>10, <1>13, <1>14, <1>15 DEF Calm

LEMMA CalmOpens ==
    ASSUME SettingsTypes, Calm, ~Busy, OpenPage
    PROVE  Calm'
<1> DEFINE T == touched
           w == Append(wire, Read("knob"))
           x == Append(w, Read("form"))
<1>0. wire \in Seq(Clean(T)) /\ Told(wire, settings, copy) /\ OneSave(wire)
  BY DEF SettingsTypes, Calm, Line
<1>1. /\ form = Absent /\ knob' = Absent /\ knobDue' = Absent /\ formArmed' = (copy # Absent)
      /\ form' = (IF copy # Absent THEN filtersFromSettings(copy) ELSE DEFAULT_FILTERS)
      /\ wire' = (IF copy = Absent THEN x ELSE w)
      /\ UNCHANGED <<settings, copy, saves, formDue, pick, wished>>
  BY DEF OpenPage, Redraws
<1>2. /\ saves = <<>> /\ pick = "idle" /\ ~Out(wire) /\ settings = wished /\ (copy = Absent \/ copy = settings)
      /\ formDue = Absent /\ settings \in Full
  BY <1>1, IdleIs DEF Calm, Shows, SettingsTypes
<1>3. form' # Absent /\ (copy # Absent => form' = filtersFromSettings(wished))
  <2>1. DEFAULT_FILTERS \in [Filters -> Values]
    BY DEF DEFAULT_FILTERS, Values
  <2>2. filtersFromSettings(settings) \in [Filters -> Values]
    BY <1>2, FiltersOf
  <2> QED
    BY <1>1, <1>2, <2>1, <2>2, Values01
<1>4. /\ Read("knob") \in Clean(T) /\ Read("knob").what = "knob" /\ Read("knob").patch = Absent /\ Read("knob").answer = Absent
      /\ Read("form") \in Clean(T) /\ Read("form").what = "form" /\ Read("form").patch = Absent /\ Read("form").answer = Absent
  BY ReadIs
<1> HIDE DEF T
<1>5. w \in Seq(Clean(T)) /\ Told(w, settings, copy) /\ ~Out(w)
  BY <1>0, <1>2, <1>4, GoesOut
<1> HIDE DEF w
<1>6. x \in Seq(Clean(T)) /\ Told(x, settings, copy) /\ ~Out(x) /\ Asks(x, {"form"})
  BY <1>4, <1>5, GoesOut
<1> HIDE DEF x
<1>7. wire' \in Seq(Clean(T)) /\ Told(wire', settings, copy) /\ ~Out(wire') /\ (copy = Absent => Asks(wire', {"form"}))
  BY <1>1, <1>5, <1>6
<1>8. OneSave(wire') /\ Plain(wire', <<>>) /\ \A k : Ends(settings, wire', <<>>, k, settings[k])
  BY <1>7, NoneOut
<1>9. Line(wire', saves', pick')
  BY <1>1, <1>2, <1>8, PlainIsSpecial DEF Line
<1>10. Dues'
  BY <1>1, <1>2 DEF Dues
<1>11. Comes'
  BY <1>1, <1>2, <1>8 DEF Comes
<1>12. Shows'
  BY <1>1, <1>2, <1>3, <1>7 DEF Shows
<1> QED
  BY <1>1, <1>2, <1>7, <1>9, <1>10, <1>11, <1>12 DEF Calm

LEMMA CalmEditsKnob ==
    ASSUME SettingsTypes, Calm, ~Busy, NEW v \in Values, EditKnob(v)
    PROVE  Calm'
<1>1. /\ knob # Absent /\ knob' = v /\ knobDue' = v /\ wished' = Over(wished, weightOf(v))
      /\ UNCHANGED <<settings, copy, wire, saves, form, formArmed, formDue, pick>>
  BY DEF EditKnob, Chooses
<1>2. saves = <<>> /\ pick = "idle" /\ ~Asks(wire, {"form", "knob"}) /\ form # Absent /\ formArmed /\ form = filtersFromSettings(wished)
  BY <1>1, IdleIs DEF Calm, Shows
<1>3. \A k \in Keys : wished'[k] = IF k = "weight" THEN v ELSE wished[k]
  <2> DEFINE p == weightOf(v)
  <2>1. p \in Patches /\ DOMAIN p = {"weight"} /\ p["weight"] = v /\ wished \in Full
    BY PatchesAre DEF SettingsTypes
  <2>2. wished' = Over(wished, p)
    BY <1>1
  <2> HIDE DEF p
  <2> QED
    BY <2>1, <2>2, OverIs
<1>4. filtersFromSettings(wished') = filtersFromSettings(wished) /\ "weight" \in Keys /\ "weight" \notin Filters
  BY <1>3 DEF filtersFromSettings, Filters, Keys
<1>5. v # Absent
  BY Values01
<1>6. Dues'
  BY <1>1, <1>2, <1>3, <1>4 DEF Calm, Dues
<1>7. Comes'
  <2> SUFFICES ASSUME NEW k \in Keys, ~(IsDue(k)') PROVE Ends(settings', wire', saves', k, wished'[k])
    BY DEF Comes
  <2>1. k # "weight" /\ ~IsDue(k)
    BY <1>1, <1>5 DEF IsDue
  <2> QED
    BY <1>1, <1>3, <2>1 DEF Calm, Comes
<1>8. Shows'
  BY <1>1, <1>2, <1>3, <1>4 DEF Shows
<1> QED
  BY <1>1, <1>6, <1>7, <1>8 DEF Calm

LEMMA CalmEditsFilter ==
    ASSUME SettingsTypes, Calm, ~Busy, NEW f \in Filters, NEW v \in Values, EditFilter(f, v)
    PROVE  Calm'
<1> DEFINE p == [x \in {f} |-> v]
<1>1. /\ form # Absent /\ saves = <<>> /\ pick = "idle" /\ ~Asks(wire, {"form", "knob"}) /\ formArmed
      /\ form = filtersFromSettings(wished)
  BY IdleIs DEF EditFilter
<1>2. /\ form' = [form EXCEPT ![f] = v] /\ formDue' = form' /\ wished' = Over(wished, p)
      /\ UNCHANGED <<settings, copy, wire, saves, formArmed, knob, knobDue, pick>>
  BY <1>1 DEF EditFilter, Chooses
<1>3. f \in Keys /\ f # "weight" /\ "weight" \in Keys
  BY DEF Filters, Keys
<1>4. p \in Patches
  <2>1. p \in [{f} -> Values] /\ {f} \in SUBSET Keys
    BY <1>3
  <2> HIDE DEF p
  <2> QED
    BY <2>1 DEF Patches, Values
<1>5. \A k \in Keys : wished'[k] = IF k = f THEN v ELSE wished[k]
  BY <1>2, <1>4, OverIs DEF SettingsTypes
<1>6. form' = filtersFromSettings(wished')
  BY <1>1, <1>2, <1>5 DEF filtersFromSettings, Filters, Keys
<1>7. form' # Absent
  <2>1. form' \in [Filters -> Values]
    BY <1>1, <1>2 DEF SettingsTypes
  <2> QED
    BY <2>1, Values01
<1>8. Dues'
  BY <1>1, <1>2, <1>3, <1>5, <1>6 DEF Calm, Dues
<1>9. Comes'
  <2> SUFFICES ASSUME NEW k \in Keys, ~(IsDue(k)') PROVE Ends(settings', wire', saves', k, wished'[k])
    BY DEF Comes
  <2>1. k # f /\ ~IsDue(k)
    BY <1>2, <1>7 DEF IsDue
  <2> QED
    BY <1>2, <1>5, <2>1 DEF Calm, Comes
<1>10. Shows'
  BY <1>1, <1>2, <1>3, <1>5, <1>6, <1>7 DEF Calm, Shows
<1> QED
  BY <1>2, <1>8, <1>9, <1>10 DEF Calm

LEMMA CalmAnswered ==
    ASSUME SettingsTypes, Calm, Answered
    PROVE  Calm'
<1> DEFINE T == touched
           r == wire[1]
           t == Tail(wire)
<1>0. /\ wire \in Seq(Clean(T)) /\ saves \in Seq(CleanSaves(T)) /\ settings \in Full
      /\ OneSave(wire) /\ Specials(wire, saves, pick) /\ Told(wire, settings, copy)
  BY DEF SettingsTypes, Calm, Line
<1>1. wire # <<>> /\ Head(wire) = r /\ r \in Clean(T) /\ r.answer # Absent /\ Len(wire) \in Nat /\ 1 \in 1..Len(wire)
  BY <1>0, TailKeeps, LenProperties DEF Answered
<1>2. /\ copy' = r.answer /\ UNCHANGED <<settings, formDue, wished>>
      /\ form' = IF form # Absent /\ r.what \in {"form", "pick"} THEN filtersFromSettings(r.answer) ELSE form
      /\ formArmed' = (formArmed \/ (r.what = "form" /\ form # Absent))
      /\ pick' = IF r.what = "flush" THEN "flushed" ELSE IF r.what = "pick" THEN "idle" ELSE pick
  BY <1>1 DEF Answered, userVars
<1>3. /\ t \in Seq(Clean(T)) /\ OneSave(t) /\ Told(t, settings, r.answer) /\ SameGoing(wire, t)
      /\ (r.patch # Absent => ~Out(t)) /\ (~Out(wire) => ~Out(t))
  BY <1>0, <1>1, TailKeeps
<1>4. /\ Asks(wire, {"form"}) <=> (Asks(t, {"form"}) \/ r.what = "form")
      /\ Asks(wire, {"knob"}) <=> (Asks(t, {"knob"}) \/ r.what = "knob")
  BY <1>0, <1>1, TailKeeps
<1>5. Specials(t, saves, pick) /\ (Special(r) => saves = <<>> /\ GoesWith(r, pick) /\ \A pk : Specials(t, saves, pk))
  BY <1>0, <1>1, SpecialsTail
<1>6. Special(r) <=> r.what \in {"flush", "pick"}
  BY DEF Special
<1>7. r.what = "flush" => pick = "flushing"
  BY <1>5, <1>6 DEF GoesWith
<1>8. r.what = "pick" => pick = "saving"
  BY <1>5, <1>6 DEF GoesWith
<1>9. Specials(t, saves, pick')
  BY <1>2, <1>5, <1>6
<1>10. ASSUME NEW k \in Keys, ~IsDue(k) PROVE Ends(settings, t, saves, k, wished[k])
  BY <1>3, <1>10, EndsSame DEF Calm, Comes
<1>11. ~Out(t) => r.answer = settings
  BY <1>1, AnswerIs
\* The answer to a read that shows: the user waits, so the backend has what was wished.
<1>12. ASSUME r.what \in {"form", "knob"}, pick = "idle"
       PROVE  saves = <<>> /\ formDue = Absent /\ knobDue = Absent /\ ~Out(t) /\ settings = wished /\ r.answer = wished
  <2>1. saves = <<>> /\ formDue = Absent /\ knobDue = Absent /\ ~Out(wire)
    BY <1>4, <1>12, AsksEither DEF Calm, Shows
  <2>2. \A k \in Keys : ~IsDue(k)
    BY <1>12, <2>1 DEF IsDue
  <2> QED
    BY <1>3, <1>11, <2>1, <2>2, Still
<1> HIDE DEF r, t
<1>13. CASE ~(r.what = "pick" /\ form # Absent)
  <2>1. SentAs(t, saves, wire', saves')
    <3>1. Sends(t, saves)
      BY <1>0, <1>1, <1>13, ConcatEmptySeq DEF Answered, t
    <3> QED
      BY <3>1, SendsIs
  <2>2. /\ knobDue' = knobDue
        /\ knob' = IF r.what = "knob" /\ form # Absent THEN r.answer["weight"] ELSE knob
    BY <1>1, <1>13 DEF Answered
  <2>3. Line(t, saves, pick')
    BY <1>3, <1>9 DEF Line
  <2>4. Line(wire', saves', pick') /\ (~Out(wire') => saves' = <<>>)
    <3>1. Line(wire', saves', pick')
      BY <1>0, <1>3, <2>1, <2>3, SentKeeps
    <3>2. ~Out(wire') => saves' = <<>>
      BY <1>0, <1>3, <2>1, SentKeeps
    <3> QED
      BY <3>1, <3>2
  <2>5. Told(wire', settings, r.answer)
    BY <1>0, <1>3, <2>1, SentKeeps
  <2>6. /\ Asks(wire', {"form"}) <=> Asks(t, {"form"})
        /\ Asks(wire', {"knob"}) <=> Asks(t, {"knob"})
    BY <1>0, <1>3, <2>1, SentKeeps
  <2>7. \A k \in Keys : ~IsDue(k) => Ends(settings, wire', saves', k, wished[k])
    BY <1>0, <1>3, <1>10, <2>1, SentKeeps
  <2>8. pick' \in {"flushing", "flushed"} <=> pick \in {"flushing", "flushed"}
    BY <1>2, <1>7, <1>8
  <2>9. Dues'
    <3>1. pick' # "idle" => pick # "idle"
      BY <1>2, <1>7
    <3> QED
      BY <1>2, <2>2, <2>8, <3>1 DEF Calm, Dues
  <2>10. Comes'
    <3> SUFFICES ASSUME NEW k \in Keys, ~(IsDue(k)') PROVE Ends(settings', wire', saves', k, wished'[k])
      BY DEF Comes
    <3>1. ~IsDue(k)
      BY <1>2, <2>2, <2>8 DEF IsDue
    <3> QED
      BY <1>2, <2>7, <3>1
  <2>11. pick' = "idle" => pick = "idle" \/ form = Absent
    BY <1>2, <1>13
  <2>12. form' = Absent => form = Absent
    <3>1. r.answer \in Full
      BY <1>1, OnePart
    <3>2. filtersFromSettings(r.answer) # Absent
      BY <3>1, FiltersOf, Values01
    <3> QED
      BY <1>2, <3>2
  <2>13. form = Absent => form' = Absent
    BY <1>2
  <2>14. Shows'
    <3>1. ASSUME form' = Absent PROVE knob' = Absent /\ formDue' = Absent /\ knobDue' = Absent /\ ~Asks(wire', {"form", "knob"})
      BY <1>2, <1>4, <2>2, <2>6, <2>12, <3>1, AsksEither DEF Calm, Shows
    <3>2. ASSUME form' # Absent, formArmed', pick' = "idle" PROVE form' = filtersFromSettings(wished')
      <4>1. pick = "idle" /\ form # Absent
        BY <2>11, <2>13, <3>2
      <4>2. CASE r.what = "form"
        BY <1>2, <1>12, <4>1, <4>2
      <4>3. CASE r.what # "form"
        BY <1>2, <1>13, <3>2, <4>1, <4>3 DEF Calm, Shows
      <4> QED
        BY <4>2, <4>3
    <3>3. ASSUME form' # Absent, ~formArmed' PROVE Asks(wire', {"form"})
      <4>1. form # Absent /\ ~formArmed /\ r.what # "form"
        BY <1>2, <2>13, <3>3
      <4> QED
        BY <1>4, <2>6, <4>1 DEF Calm, Shows
    <3>4. ASSUME knob' # Absent, pick' = "idle" PROVE knob' = wished'["weight"]
      <4>1. form # Absent
        BY <2>2, <3>4 DEF Calm, Shows
      <4>2. pick = "idle"
        BY <2>11, <3>4, <4>1
      <4>3. CASE r.what = "knob"
        BY <1>2, <1>12, <2>2, <4>1, <4>2, <4>3
      <4>4. CASE r.what # "knob"
        BY <1>2, <2>2, <3>4, <4>2, <4>4 DEF Calm, Shows
      <4> QED
        BY <4>3, <4>4
    <3>5. ASSUME Asks(wire', {"form", "knob"}), pick' = "idle"
          PROVE  saves' = <<>> /\ formDue' = Absent /\ knobDue' = Absent /\ ~Out(wire')
      <4>1. Asks(wire, {"form", "knob"}) /\ form # Absent
        BY <1>4, <2>6, <3>5, AsksEither DEF Calm, Shows
      <4>2. saves = <<>> /\ formDue = Absent /\ knobDue = Absent /\ ~Out(wire)
        BY <2>11, <3>5, <4>1 DEF Calm, Shows
      <4>3. wire' = t /\ saves' = <<>>
        BY <1>3, <2>1, <4>2 DEF SentAs
      <4> QED
        BY <1>2, <1>3, <2>2, <4>2, <4>3
    <3> QED
      BY <3>1, <3>2, <3>3, <3>4, <3>5 DEF Shows
  <2> QED
    BY <1>2, <2>4, <2>5, <2>9, <2>10, <2>14 DEF Calm
<1>14. CASE r.what = "pick" /\ form # Absent
  <2> DEFINE h == Unheard(t, {"knob"})
             w == Append(h, Read("knob"))
  <2>1. pick = "saving" /\ saves = <<>> /\ formDue = Absent /\ knobDue = Absent
    BY <1>5, <1>6, <1>8, <1>14 DEF Calm, Dues
  <2>2. ~Out(t)
    BY <1>1, <1>3, <1>6, <1>14, OnePart
  <2>3. /\ knob' = Absent /\ knobDue' = Absent
        /\ SentAs(w, saves \o KnobDue, wire', saves')
    <3>1. knob' = Absent /\ knobDue' = Absent /\ Sends(w, saves \o KnobDue)
      BY <1>1, <1>14 DEF Answered, Redraws, t
    <3> QED
      BY <3>1, SendsIs
  <2>4. wire' = w /\ saves' = <<>>
    <3>1. saves \o KnobDue = <<>>
      BY <1>0, <2>1, KnobDueIs
    <3> QED
      BY <2>3, <3>1 DEF SentAs
  <2>5. /\ h \in Seq(Clean(T)) /\ ~Out(h) /\ Told(h, settings, r.answer) /\ (Asks(t, {"form"}) => Asks(h, {"form"}))
    <3>1. "form" \in Whats \ ({"knob"} \cup {"boot"})
      BY DEF Whats
    <3> QED
      BY <1>3, <2>2, <3>1, UnheardIs, UnheardKeeps
  <2>6. Read("knob") \in Clean(T) /\ Read("knob").what = "knob" /\ Read("knob").patch = Absent /\ Read("knob").answer = Absent
    BY ReadIs
  <2> HIDE DEF h
  <2>7. w \in Seq(Clean(T)) /\ ~Out(w) /\ Told(w, settings, r.answer) /\ (Asks(h, {"form"}) => Asks(w, {"form"}))
    BY <2>5, <2>6, GoesOut
  <2> HIDE DEF w
  <2>8. settings = wished
    <3>1. ASSUME NEW k \in Keys PROVE settings[k] = wished[k]
      <4>1. ~IsDue(k)
        BY <2>1 DEF IsDue
      <4> QED
        BY <1>3, <1>10, <2>1, <2>2, <4>1, Settled
    <3> QED
      BY <3>1 DEF SettingsTypes, Full
  <2>9. r.answer = wished /\ form' = filtersFromSettings(wished) /\ form' # Absent /\ pick' = "idle" /\ formArmed' = formArmed
    <3>1. r.answer = wished
      BY <1>11, <2>2, <2>8
    <3>2. filtersFromSettings(wished) # Absent
      BY <1>0, <2>8, FiltersOf, Values01
    <3> QED
      BY <1>2, <1>14, <3>1, <3>2 DEF SettingsTypes
  <2>10. OneSave(w) /\ Plain(w, <<>>) /\ \A k : Ends(settings, w, <<>>, k, settings[k])
    BY <2>7, NoneOut
  <2>11. Line(wire', saves', pick')
    BY <2>4, <2>10, PlainIsSpecial DEF Line
  <2>12. Dues'
    BY <1>2, <2>1, <2>3, <2>9 DEF Dues
  <2>13. Comes'
    BY <1>2, <2>4, <2>8, <2>10 DEF Comes
  <2>14. ~formArmed => Asks(wire', {"form"})
    BY <1>4, <1>14, <2>4, <2>5, <2>7 DEF Calm, Shows
  <2>15. Shows'
    BY <1>2, <2>1, <2>3, <2>4, <2>7, <2>9, <2>14 DEF Shows
  <2> QED
    BY <1>2, <2>4, <2>7, <2>11, <2>12, <2>13, <2>15 DEF Calm
<1> QED
  BY <1>13, <1>14

\* A user who waits has a calm page, whatever step is taken.
LEMMA CalmKept == WishInv /\ [SettingsNext]_settingsVars => (~hurried' /\ lost' = 0 => Calm')
<1> SUFFICES ASSUME WishInv, [SettingsNext]_settingsVars, ~hurried', lost' = 0 PROVE Calm'
  OBVIOUS
<1>0. SettingsTypes /\ lost \in Nat
  BY DEF WishInv, SettingsTypes
<1>1. ASSUME NEW i \in DOMAIN wire, BackendTakes(i) PROVE Calm'
  BY <1>1, CalmTaken DEF WishInv, BackendTakes, userVars
<1>2. ASSUME NEW i \in DOMAIN wire, RequestFails(i) PROVE Calm'
  <2>1. lost' = lost + 1
    BY <1>2 DEF RequestFails
  <2> QED
    BY <1>0, <2>1
<1>3. CASE Answered
  BY <1>3, CalmAnswered DEF WishInv, Answered, userVars
<1>4. CASE FormTimer \/ KnobTimer
  BY <1>4, CalmTimers DEF WishInv, FormTimer, KnobTimer, userVars
<1>5. CASE PickSends
  BY <1>5, CalmPickSends DEF WishInv, PickSends, userVars
<1>6. CASE OpenPage
  BY <1>6, CalmOpens DEF WishInv, OpenPage
<1>7. CASE LeavePage
  BY <1>7, CalmLeaves DEF WishInv, LeavePage, userVars
<1>8. CASE Pick
  BY <1>8, CalmPicks DEF WishInv, Pick, Touches
<1>9. ASSUME NEW v \in Values, EditKnob(v) PROVE Calm'
  BY <1>9, CalmEditsKnob DEF WishInv, EditKnob, Touches
<1>10. ASSUME NEW f \in Filters, NEW v \in Values, EditFilter(f, v) PROVE Calm'
  BY <1>10, CalmEditsFilter DEF WishInv, EditFilter, Touches
<1>11. CASE UNCHANGED settingsVars
  <2>1. UNCHANGED <<settings, copy, wire, saves, form, formArmed, formDue, knob, knobDue, pick, wished, touched, hurried, lost>>
    BY <1>11 DEF settingsVars, pageVars, userVars
  <2>2. Calm
    BY <2>1 DEF WishInv
  <2> QED
    BY <2>1, <2>2 DEF Calm, Line, Dues, Comes, IsDue, Shows
<1> QED
  BY <1>1, <1>2, <1>3, <1>4, <1>5, <1>6, <1>7, <1>8, <1>9, <1>10, <1>11 DEF SettingsNext, Values

LEMMA WishTold == WishInv => WishesKept
<1> SUFFICES ASSUME WishInv PROVE WishesKept
  OBVIOUS
<1>1. UntouchedStays
  BY DEF WishInv, SettingsTypes, CleanPatch, UntouchedStays, Full
<1>2. RestTellsTheSame
  <2> SUFFICES ASSUME ~Busy, wire = <<>>, formDue = Absent, knobDue = Absent, ~hurried, lost = 0
               PROVE  /\ settings = wished
                      /\ copy # Absent => copy = settings
                      /\ form # Absent => form = filtersFromSettings(settings)
                      /\ knob # Absent => knob = settings["weight"]
    BY DEF RestTellsTheSame
  <2>1. SettingsTypes /\ Calm
    BY DEF WishInv
  <2>2. /\ saves = <<>> /\ pick = "idle" /\ ~Out(wire) /\ (copy = Absent \/ copy = settings)
        /\ (form # Absent => formArmed /\ form = filtersFromSettings(wished))
    BY <2>1, IdleIs
  <2>3. \A k \in Keys : ~IsDue(k)
    BY <2>2 DEF IsDue
  <2>4. settings = wished
    BY <2>1, <2>2, <2>3, Still
  <2>5. knob # Absent => knob = settings["weight"]
    BY <2>1, <2>2, <2>4 DEF Calm, Shows
  <2> QED
    BY <2>2, <2>4, <2>5
<1> QED
  BY <1>1, <1>2 DEF WishesKept

(* The settings are what the user wished: what was never set stays as it was *)
(* saved whatever fails and however the page is left (RegexView.jsx:30-31),  *)
(* and for a user who lets requests end, everything at rest tells what was   *)
(* wished last, a preset and the edit before it included                     *)
(* (statusStore.js, RoutesView.jsx:103-107).                                 *)
THEOREM WishesKeptEver == SettingsSpec => []WishesKept
<1>1. SettingsInit => WishInv
  BY TypesStart, CalmStart DEF WishInv
<1>2. WishInv /\ [SettingsNext]_settingsVars => WishInv'
  BY TypesKept, CalmKept DEF WishInv
<1>3. WishInv => WishesKept
  BY WishTold
<1> QED
  BY <1>1, <1>2, <1>3, PTL DEF SettingsSpec

-----------------------------------------------------------------------------
(* The colour theme: what is picked, made and previewed.                    *)

Lists == UNION {[S -> ColorTables] : S \in SUBSET ThemeIds}
Picks == Presets \cup ThemeIds
ThemePuts == [theme : Picks] \cup [customs : Lists]
ThemeTypes ==
    /\ saved \in [theme : Picks, customs : Lists] /\ mine \in Lists /\ themePuts \in Seq(ThemePuts)
    /\ draft # NoTable => draft \in [id : ThemeIds, table : ColorTables]
    /\ editId \in ThemeIds \cup {NoTable} /\ previewDue \in ColorTables \cup {NoTable}
    /\ load \in {"none", "asked", "read"} /\ building \in BOOLEAN /\ previewing \in BOOLEAN

\* The settings are being read: what was made is there, and nothing else is under way.
Reading ==
    /\ themePuts = <<>> /\ saveDue = NoTable /\ previewDue = NoTable /\ ~previewing
    /\ saved.customs = mine /\ saved.theme \in Presets \cup DOMAIN mine
    /\ load = "read" => answer = saved

\* What the settings will have under a key once the saves are in.
EndsWith(s, puts, key, v) ==
    /\ \A i \in 1..Len(puts) :
          key \in DOMAIN puts[i] /\ (\A j \in i+1..Len(puts) : key \notin DOMAIN puts[j]) => puts[i][key] = v
    /\ (\A i \in 1..Len(puts) : key \notin DOMAIN puts[i]) => s[key] = v
HasList(puts) == \E i \in 1..Len(puts) : "customs" \in DOMAIN puts[i]

AtWork ==
    /\ customs \in Lists /\ themeId \in Presets \cup DOMAIN customs
    /\ EndsWith(saved, themePuts, "theme", themeId) /\ EndsWith(saved, themePuts, "customs", customs)
    /\ saveDue = NoTable => mine = customs
    /\ saveDue # NoTable => saveDue = mine /\ DOMAIN mine = DOMAIN customs
    /\ saveDue # NoTable /\ draft # NoTable => But(mine, draft.id) = But(customs, draft.id)
    /\ draft # NoTable => draft.id \in DOMAIN customs
    /\ ~previewing /\ (themeId \in Presets \/ ~HasList(themePuts)) => mirror = Painting(themeId, tableOf(customs, themeId))

Pages ==
    /\ building \/ (~previewing /\ draft = NoTable /\ editId = NoTable /\ previewDue = NoTable)
    /\ mirror = backdrop /\ (previewing \/ painted = mirror)

ThemeInv ==
    /\ rash \in BOOLEAN
    /\ ~rash => ThemeTypes /\ Pages /\ (load # "none" => Reading) /\ (load = "none" => AtWork)

LEMMA ListFacts ==
    ASSUME NEW f \in Lists
    PROVE  /\ f # NoTable /\ DOMAIN f \subseteq ThemeIds /\ f = [x \in DOMAIN f |-> f[x]]
           /\ \A x \in DOMAIN f : f[x] \in ColorTables /\ f[x] # NoTable
BY ThemeAssumption DEF Lists, ThemeAssumption

LEMMA IsList ==
    ASSUME NEW S \in SUBSET ThemeIds, NEW f, f \in [S -> ColorTables]
    PROVE  f \in Lists
BY DEF Lists

LEMMA ButIsList ==
    ASSUME NEW f \in Lists, NEW id
    PROVE  But(f, id) \in Lists /\ DOMAIN But(f, id) = DOMAIN f \ {id}
<1>1. But(f, id) \in [DOMAIN f \ {id} -> ColorTables]
  BY ListFacts DEF But
<1> QED
  BY <1>1, ListFacts, IsList

LEMMA WithIsList ==
    ASSUME NEW f \in Lists, NEW id \in ThemeIds, NEW c \in ColorTables
    PROVE  /\ WithTheme(f, id, c) \in Lists /\ DOMAIN WithTheme(f, id, c) = DOMAIN f \cup {id}
           /\ But(WithTheme(f, id, c), id) = But(f, id)
<1>1. WithTheme(f, id, c) \in [DOMAIN f \cup {id} -> ColorTables]
  BY ListFacts DEF WithTheme
<1>2. DOMAIN f \cup {id} \in SUBSET ThemeIds
  BY ListFacts
<1>3. But(WithTheme(f, id, c), id) = But(f, id)
  BY DEF But, WithTheme
<1> QED
  BY <1>1, <1>2, <1>3, IsList

\* What two lists have but for one theme makes what they have with it.
LEMMA WithAfterBut ==
    ASSUME NEW f \in Lists, NEW g \in Lists, NEW id \in DOMAIN f, NEW c, DOMAIN f = DOMAIN g, But(f, id) = But(g, id)
    PROVE  WithTheme(f, id, c) = WithTheme(g, id, c)
<1>1. \A x \in DOMAIN f \ {id} : But(f, id)[x] = f[x] /\ But(g, id)[x] = g[x]
  BY DEF But
<1> QED
  BY <1>1 DEF WithTheme

LEMMA Painted ==
    ASSUME NEW f \in Lists, NEW id \in Presets \cup DOMAIN f
    PROVE  Painting(id, tableOf(f, id)).theme = id
BY ListFacts, ThemeAssumption DEF Painting, tableOf, Look, ThemeAssumption

LEMMA PaintedInPicks ==
    ASSUME NEW f, NEW id
    PROVE  Painting(id, tableOf(f, id)).theme \in Presets \cup (DOMAIN f \cap ThemeIds)
BY ThemeAssumption DEF Painting, tableOf, Look, ThemeAssumption

LEMMA PutKinds ==
    /\ \A t : DOMAIN [theme |-> t] = {"theme"} /\ [theme |-> t].theme = t
    /\ \A l : DOMAIN [customs |-> l] = {"customs"} /\ [customs |-> l].customs = l
    /\ \A t \in Picks : [theme |-> t] \in ThemePuts
    /\ \A l \in Lists : [customs |-> l] \in ThemePuts
<1>1. \A t : DOMAIN [theme |-> t] = {"theme"} /\ [theme |-> t].theme = t
  OBVIOUS
<1>2. \A l : DOMAIN [customs |-> l] = {"customs"} /\ [customs |-> l].customs = l
  OBVIOUS
<1>3. \A t \in Picks : [theme |-> t] \in ThemePuts
  BY DEF ThemePuts
<1>4. \A l \in Lists : [customs |-> l] \in ThemePuts
  BY DEF ThemePuts
<1> QED
  BY <1>1, <1>2, <1>3, <1>4

LEMMA PutIs ==
    ASSUME NEW p \in ThemePuts
    PROVE  \/ (DOMAIN p = {"theme"} /\ p.theme \in Picks)
           \/ (DOMAIN p = {"customs"} /\ p.customs \in Lists)
<1>1. CASE p \in [theme : Picks]
  BY <1>1
<1>2. CASE p \in [customs : Lists]
  BY <1>2
<1> QED
  BY <1>1, <1>2 DEF ThemePuts

\* A save put last tells of its own keys, and of no other.
LEMMA EndsAppended ==
    ASSUME NEW s, NEW puts \in Seq(ThemePuts), NEW p \in ThemePuts, NEW key, NEW v
    PROVE  /\ key \in DOMAIN p => EndsWith(s, Append(puts, p), key, p[key])
           /\ (key \notin DOMAIN p /\ EndsWith(s, puts, key, v)) => EndsWith(s, Append(puts, p), key, v)
<1> DEFINE q == Append(puts, p)
<1>1. /\ Len(puts) \in Nat /\ Len(q) = Len(puts) + 1 /\ q[Len(q)] = p
      /\ \A i \in 1..Len(puts) : q[i] = puts[i]
  BY AppendProperties, LenProperties
<1> HIDE DEF q
<1>2. ASSUME key \in DOMAIN p PROVE EndsWith(s, q, key, p[key])
  <2>1. \A i \in 1..Len(q) : (\A j \in i+1..Len(q) : key \notin DOMAIN q[j]) => i = Len(q)
    BY <1>1, <1>2
  <2>2. ~\A i \in 1..Len(q) : key \notin DOMAIN q[i]
    BY <1>1, <1>2
  <2> QED
    BY <1>1, <2>1, <2>2 DEF EndsWith
<1>3. ASSUME key \notin DOMAIN p, EndsWith(s, puts, key, v) PROVE EndsWith(s, q, key, v)
  <2>1. ASSUME NEW i \in 1..Len(q), key \in DOMAIN q[i], \A j \in i+1..Len(q) : key \notin DOMAIN q[j]
        PROVE  q[i][key] = v
    <3>1. i \in 1..Len(puts)
      BY <1>1, <1>3, <2>1
    <3>2. \A j \in i+1..Len(puts) : key \notin DOMAIN puts[j]
      BY <1>1, <2>1
    <3> QED
      BY <1>1, <1>3, <2>1, <3>1, <3>2 DEF EndsWith
  <2>2. (\A i \in 1..Len(q) : key \notin DOMAIN q[i]) => \A i \in 1..Len(puts) : key \notin DOMAIN puts[i]
    BY <1>1
  <2> QED
    BY <1>3, <2>1, <2>2 DEF EndsWith
<1> QED
  BY <1>2, <1>3 DEF q

\* What the settings end with is no other once the first save is in.
Saved(s, p) == [k \in DOMAIN s |-> IF k \in DOMAIN p THEN p[k] ELSE s[k]]
LEMMA EndsDone ==
    ASSUME NEW s, NEW puts \in Seq(ThemePuts), puts # <<>>, NEW key \in DOMAIN s, NEW v, EndsWith(s, puts, key, v)
    PROVE  EndsWith(Saved(s, Head(puts)), Tail(puts), key, v)
<1> DEFINE q == Tail(puts)
<1>1. /\ Len(q) \in Nat /\ Len(puts) = Len(q) + 1 /\ Head(puts) = puts[1]
      /\ \A i \in 1..Len(q) : q[i] = puts[i + 1]
  BY HeadTailProperties, LenProperties
<1> HIDE DEF q
<1>2. ASSUME NEW i \in 1..Len(q), key \in DOMAIN q[i], \A j \in i+1..Len(q) : key \notin DOMAIN q[j]
      PROVE  q[i][key] = v
  <2>1. i + 1 \in 1..Len(puts) /\ q[i] = puts[i + 1]
    BY <1>1
  <2>2. ASSUME NEW j \in (i+1)+1..Len(puts) PROVE key \notin DOMAIN puts[j]
    <3>1. j - 1 \in i+1..Len(q) /\ q[j - 1] = puts[j]
      BY <1>1
    <3> QED
      BY <1>2, <3>1
  <2> QED
    BY <1>2, <2>1, <2>2 DEF EndsWith
<1>3. ASSUME \A i \in 1..Len(q) : key \notin DOMAIN q[i] PROVE Saved(s, puts[1])[key] = v
  <2>1. ASSUME NEW j \in 2..Len(puts) PROVE key \notin DOMAIN puts[j]
    <3>1. j - 1 \in 1..Len(q) /\ q[j - 1] = puts[j]
      BY <1>1
    <3> QED
      BY <1>3, <3>1
  <2>2. CASE key \in DOMAIN puts[1]
    BY <1>1, <2>1, <2>2 DEF EndsWith, Saved
  <2>3. CASE key \notin DOMAIN puts[1]
    <3>1. \A i \in 1..Len(puts) : key \notin DOMAIN puts[i]
      BY <1>1, <2>1, <2>3
    <3> QED
      BY <2>3, <3>1 DEF EndsWith, Saved
  <2> QED
    BY <2>2, <2>3
<1> QED
  BY <1>1, <1>2, <1>3 DEF EndsWith, q

\* The saves of the chosen theme and of the list, put last.
LEMMA PutsTheme ==
    ASSUME NEW s, NEW puts \in Seq(ThemePuts), NEW t \in Picks, NEW l, EndsWith(s, puts, "customs", l)
    PROVE  /\ Append(puts, [theme |-> t]) \in Seq(ThemePuts)
           /\ EndsWith(s, Append(puts, [theme |-> t]), "theme", t)
           /\ EndsWith(s, Append(puts, [theme |-> t]), "customs", l)
<1> DEFINE p == [theme |-> t]
<1>1. p \in ThemePuts /\ DOMAIN p = {"theme"} /\ p["theme"] = t
  BY PutKinds
<1> HIDE DEF p
<1>2. Append(puts, p) \in Seq(ThemePuts)
  BY <1>1, AppendProperties
<1> QED
  BY <1>1, <1>2, EndsAppended DEF p

LEMMA PutsList ==
    ASSUME NEW s, NEW puts \in Seq(ThemePuts), NEW l \in Lists, NEW t, EndsWith(s, puts, "theme", t)
    PROVE  /\ Append(puts, [customs |-> l]) \in Seq(ThemePuts)
           /\ EndsWith(s, Append(puts, [customs |-> l]), "theme", t)
           /\ EndsWith(s, Append(puts, [customs |-> l]), "customs", l)
<1> DEFINE p == [customs |-> l]
<1>1. p \in ThemePuts /\ DOMAIN p = {"customs"} /\ p["customs"] = l
  BY PutKinds
<1> HIDE DEF p
<1>2. Append(puts, p) \in Seq(ThemePuts)
  BY <1>1, AppendProperties
<1> QED
  BY <1>1, <1>2, EndsAppended DEF p

\* A list that was put waits to be saved.
LEMMA ListsWait ==
    ASSUME NEW puts \in Seq(ThemePuts), NEW p \in ThemePuts
    PROVE  HasList(Append(puts, p)) <=> (HasList(puts) \/ "customs" \in DOMAIN p)
<1> DEFINE q == Append(puts, p)
<1>1. /\ Len(puts) \in Nat /\ Len(q) = Len(puts) + 1 /\ q[Len(q)] = p
      /\ \A i \in 1..Len(puts) : q[i] = puts[i]
  BY AppendProperties, LenProperties
<1> HIDE DEF q
<1>2. 1..Len(q) = (1..Len(puts)) \cup {Len(q)}
  BY <1>1
<1>3. HasList(q) <=> (HasList(puts) \/ "customs" \in DOMAIN p)
  BY <1>1, <1>2 DEF HasList
<1> QED
  BY <1>3 DEF q

LEMMA ListsDone ==
    ASSUME NEW puts \in Seq(ThemePuts), puts # <<>>
    PROVE  HasList(puts) <=> (HasList(Tail(puts)) \/ "customs" \in DOMAIN Head(puts))
<1> DEFINE q == Tail(puts)
<1>1. /\ Len(q) \in Nat /\ Len(puts) = Len(q) + 1 /\ Head(puts) = puts[1]
      /\ \A i \in 1..Len(q) : q[i] = puts[i + 1]
  BY HeadTailProperties, LenProperties
<1> HIDE DEF q
<1>2. ASSUME HasList(puts) PROVE HasList(q) \/ "customs" \in DOMAIN puts[1]
  <2>1. PICK i \in 1..Len(puts) : "customs" \in DOMAIN puts[i]
    BY <1>2 DEF HasList
  <2>2. CASE i = 1
    BY <2>1, <2>2
  <2>3. CASE i # 1
    <3>1. i - 1 \in 1..Len(q) /\ q[i - 1] = puts[i]
      BY <1>1, <2>3
    <3> QED
      BY <2>1, <3>1 DEF HasList
  <2> QED
    BY <2>2, <2>3
<1>3. ASSUME HasList(q) PROVE HasList(puts)
  <2>1. PICK i \in 1..Len(q) : "customs" \in DOMAIN q[i]
    BY <1>3 DEF HasList
  <2>2. i + 1 \in 1..Len(puts)
    BY <1>1
  <2> QED
    BY <1>1, <2>1, <2>2 DEF HasList
<1>4. 1 \in 1..Len(puts)
  BY <1>1
<1>5. HasList(puts) <=> (HasList(q) \/ "customs" \in DOMAIN puts[1])
  BY <1>2, <1>3, <1>4 DEF HasList
<1> QED
  BY <1>1, <1>5 DEF q

\* Before the user was rash the lists tell of one another, and the page of them.
InStep == ThemeTypes /\ Pages /\ (load # "none" => Reading) /\ (load = "none" => AtWork)

(* With everything saved and no preview open, the backend, the store, the    *)
(* page and the picture kept for the next start have one theme and one list  *)
(* of the user's own, for a user who makes none before the first load is in   *)
(* (themeStore.js:62-103, ThemeBuilder.jsx:40-73).                           *)
THEOREM ThemesAgreeEver == ThemeSpec => []ThemesAgree
<1>1. ThemeInit => ThemeInv
  <2> SUFFICES ASSUME ThemeInit PROVE ThemeInv
    OBVIOUS
  <2>0. mine \in Lists /\ DOMAIN mine = {FirstId} /\ FirstId \in ThemeIds
    <3>1. FirstId \in ThemeIds
      BY ThemeAssumption DEF ThemeAssumption, FirstId
    <3> QED
      BY <3>1, IsList DEF ThemeInit, OneOfMine
  <2>1. PICK t \in Presets \cup {FirstId} : saved = [theme |-> t, customs |-> mine]
    BY DEF ThemeInit
  <2>2. saved \in [theme : Picks, customs : Lists] /\ saved.theme = t /\ saved.customs = mine
    BY <2>0, <2>1 DEF Picks
  <2>3. themePuts \in Seq(ThemePuts)
    BY EmptySeq DEF ThemeInit
  <2>4. ThemeTypes
    BY <2>0, <2>2, <2>3 DEF ThemeInit, ThemeTypes
  <2>5. Pages
    BY DEF ThemeInit, Pages
  <2>6. Reading
    BY <2>0, <2>2 DEF ThemeInit, Reading
  <2> QED
    BY <2>4, <2>5, <2>6 DEF ThemeInit, ThemeInv
<1>2. ThemeInv /\ [ThemeNext]_themeVars => ThemeInv'
  <2> SUFFICES ASSUME ThemeInv, [ThemeNext]_themeVars PROVE ThemeInv'
    OBVIOUS
  <2>0. ASSUME ~rash PROVE InStep
    BY <2>0 DEF ThemeInv, InStep
  <2>00. rash \in BOOLEAN
    BY DEF ThemeInv
  <2>1. CASE LoadRead
    <3>1. rash' = rash
      BY <2>1 DEF LoadRead
    <3>2. ASSUME ~rash PROVE InStep'
      BY <2>0, <2>1, <3>2 DEF LoadRead, InStep, ThemeTypes, Pages, Reading, paintVars, builderVars
    <3> QED
      BY <2>00, <3>1, <3>2 DEF ThemeInv, InStep
  <2>2. CASE LoadAnswered
    <3>1. rash' = rash
      BY <2>2 DEF LoadAnswered
    <3>2. ASSUME ~rash PROVE InStep'
      <4>1. ThemeTypes /\ Pages /\ Reading /\ answer = saved
        BY <2>0, <2>2, <3>2 DEF InStep, LoadAnswered, Reading
      <4>2. saved.customs = mine /\ mine \in Lists /\ saved.theme \in Presets \cup DOMAIN mine
        BY <4>1 DEF Reading, ThemeTypes
      <4>3. customs' = mine /\ mirror' = Painting(saved.theme, tableOf(mine, saved.theme)) /\ themeId' = saved.theme
        BY <2>2, <4>1, <4>2, Painted DEF LoadAnswered, Paints
      <4>4. /\ draft' # NoTable => draft' \in [id : ThemeIds, table : ColorTables] /\ draft'.id \in DOMAIN mine
            /\ editId = NoTable => draft' = NoTable
        <5>1. draft' = Drafted(mine, editId)
          BY <2>2, <4>3 DEF LoadAnswered
        <5>2. NoTable \notin DOMAIN mine
          BY <4>2, ListFacts, ThemeAssumption DEF ThemeAssumption
        <5> QED
          BY <5>1, <5>2, <4>1, <4>2, ListFacts DEF Drafted, ThemeTypes
      <4>5. ThemeTypes'
        BY <2>2, <4>1, <4>4 DEF LoadAnswered, ThemeTypes
      <4>6. Pages'
        BY <2>2, <4>1, <4>4 DEF LoadAnswered, Pages, Paints
      <4>7. EndsWith(saved, <<>>, "theme", saved.theme) /\ EndsWith(saved, <<>>, "customs", mine)
        BY <4>2 DEF EndsWith
      <4>8. AtWork'
        BY <2>2, <4>1, <4>2, <4>3, <4>4, <4>7 DEF LoadAnswered, AtWork, Reading
      <4> QED
        BY <2>2, <4>5, <4>6, <4>8 DEF InStep, LoadAnswered
    <3> QED
      BY <2>00, <3>1, <3>2 DEF ThemeInv, InStep
  <2>3. CASE PutDone
    <3>1. rash' = rash
      BY <2>3 DEF PutDone
    <3>2. ASSUME ~rash PROVE InStep'
      <4>1. ThemeTypes /\ Pages /\ AtWork /\ load = "none" /\ themePuts # <<>>
        BY <2>0, <2>3, <3>2 DEF InStep, PutDone, Reading, ThemeTypes
      <4> DEFINE p    == Head(themePuts)
                 rest == Tail(themePuts)
                 list == "customs" \in DOMAIN p
                 gone == list /\ themeId \in ThemeIds /\ ~previewing /\ themeId \notin DOMAIN p.customs
                 sv   == Saved(saved, p)
      <4>2. /\ saved' = sv
            /\ IF list /\ themeId \in ThemeIds /\ ~previewing
               THEN Paints(Painting(themeId, tableOf(p.customs, themeId))) ELSE UNCHANGED paintVars
            /\ themeId' = IF gone THEN DEFAULT_THEME ELSE themeId
            /\ themePuts' = rest \o (IF gone THEN <<[theme |-> DEFAULT_THEME]>> ELSE <<>>)
            /\ UNCHANGED <<customs, previewing, load, answer, builderVars, mine, rash, deeds, loads, reloads>>
        BY <2>3 DEF PutDone, Saved
      <4>3. p \in ThemePuts /\ rest \in Seq(ThemePuts) /\ Len(rest) \in Nat
        BY <4>1, HeadTailProperties, LenProperties DEF ThemeTypes
      <4>4. EndsWith(sv, rest, "theme", themeId) /\ EndsWith(sv, rest, "customs", customs)
        <5>1. "theme" \in DOMAIN saved /\ "customs" \in DOMAIN saved
          BY <4>1 DEF ThemeTypes
        <5> QED
          BY <4>1, <5>1, EndsDone DEF AtWork, ThemeTypes
      <4>5. sv \in [theme : Picks, customs : Lists]
        <5>0. saved \in [theme : Picks, customs : Lists]
          BY <4>1 DEF ThemeTypes
        <5>1. DOMAIN saved = {"theme", "customs"} /\ saved["theme"] \in Picks /\ saved["customs"] \in Lists
          BY <5>0
        <5>2. sv = [theme |-> sv["theme"], customs |-> sv["customs"]]
          BY <5>1 DEF Saved
        <5>3. sv["theme"] \in Picks /\ sv["customs"] \in Lists
          BY <5>1, <4>3, PutIs DEF Saved
        <5> HIDE DEF sv
        <5> QED
          BY <5>2, <5>3
      <4>6. DEFAULT_THEME \in Presets /\ DEFAULT_THEME \in Picks
        BY ThemeAssumption DEF ThemeAssumption, Picks
      <4>7. HasList(themePuts) <=> (HasList(rest) \/ list)
        BY <4>1, ListsDone DEF ThemeTypes
      <4>8. customs' = customs /\ mine' = mine /\ previewing' = previewing /\ load' = load /\ answer' = answer
            /\ building' = building /\ editId' = editId /\ draft' = draft /\ previewDue' = previewDue /\ saveDue' = saveDue
        BY <4>2 DEF builderVars
      <4> HIDE DEF sv, rest
      <4>9. Pages'
        BY <4>1, <4>2, <4>8 DEF Pages, Paints, paintVars
      <4>10. CASE gone
        <5> DEFINE t == DEFAULT_THEME
        <5>1. themePuts' = Append(rest, [theme |-> DEFAULT_THEME])
          <6>1. themePuts' = rest \o <<[theme |-> DEFAULT_THEME]>>
            BY <4>2, <4>10
          <6> QED
            BY <6>1, <4>3, AppendIsConcat
        <5>2. themePuts' \in Seq(ThemePuts) /\ EndsWith(sv, themePuts', "theme", DEFAULT_THEME)
              /\ EndsWith(sv, themePuts', "customs", customs)
          BY <5>1, <4>3, <4>4, <4>6, PutsTheme
        <5>3. themeId' = DEFAULT_THEME /\ saved' = sv
          BY <4>2, <4>10
        <5>4. mirror' = Painting(DEFAULT_THEME, tableOf(customs, DEFAULT_THEME))
          <6>1. mirror' = Painting(themeId, tableOf(p.customs, themeId))
            BY <4>2, <4>10 DEF Paints
          <6> QED
            BY <6>1, <4>10, <4>6, ThemeAssumption DEF Painting, tableOf, Look, ThemeAssumption
        <5>5. ThemeTypes'
          BY <4>1, <4>5, <4>8, <5>2, <5>3 DEF ThemeTypes
        <5>6. AtWork'
          BY <4>1, <4>6, <4>8, <5>2, <5>3, <5>4 DEF AtWork
        <5> QED
          BY <4>1, <4>8, <4>9, <5>5, <5>6 DEF InStep
      <4>11. CASE ~gone
        <5>1. themePuts' = rest
          <6>1. themePuts' = rest \o <<>>
            BY <4>2, <4>11
          <6> QED
            BY <6>1, <4>3, ConcatEmptySeq
        <5>2. themeId' = themeId /\ saved' = sv
          BY <4>2, <4>11
        <5>3. ASSUME ~previewing, themeId \in Presets \/ ~HasList(rest)
              PROVE  mirror' = Painting(themeId, tableOf(customs, themeId))
          <6>1. CASE ~list
            <7>1. mirror' = mirror
              BY <4>2, <6>1 DEF paintVars
            <7> QED
              BY <4>1, <4>7, <5>3, <6>1, <7>1 DEF AtWork
          <6>2. CASE list /\ themeId \notin Presets
            <7>1. sv.customs = customs
              BY <4>4, <5>3, <6>2 DEF EndsWith, HasList
            <7>2. sv.customs = p.customs
              BY <4>1, <6>2 DEF sv, Saved, ThemeTypes
            <7>3. themeId \in ThemeIds
              BY <4>1, <6>2, ListFacts DEF AtWork
            <7> QED
              BY <4>2, <5>3, <6>2, <7>1, <7>2, <7>3 DEF Paints
          <6>3. CASE themeId \in Presets
            <7>1. mirror' = mirror
              BY <4>2, <6>3, ThemeAssumption DEF paintVars, ThemeAssumption
            <7> QED
              BY <4>1, <5>3, <6>3, <7>1 DEF AtWork
          <6> QED
            BY <6>1, <6>2, <6>3
        <5>5. ThemeTypes'
          BY <4>1, <4>3, <4>5, <4>8, <5>1, <5>2 DEF ThemeTypes
        <5>6. AtWork'
          BY <4>1, <4>4, <4>8, <5>1, <5>2, <5>3 DEF AtWork
        <5> QED
          BY <4>1, <4>8, <4>9, <5>5, <5>6 DEF InStep
      <4> QED
        BY <4>10, <4>11
    <3> QED
      BY <2>00, <3>1, <3>2 DEF ThemeInv, InStep
  <2>4. CASE PreviewTimer
    <3>1. rash' = rash
      BY <2>4 DEF PreviewTimer
    <3>2. ASSUME ~rash PROVE InStep'
      <4>1. ThemeTypes /\ Pages /\ AtWork /\ load = "none" /\ building
        BY <2>0, <2>4, <3>2 DEF InStep, PreviewTimer, Reading, Pages, ThemeTypes
      <4> QED
        BY <2>4, <4>1 DEF PreviewTimer, PaintsOnly, InStep, ThemeTypes, Pages, AtWork
    <3> QED
      BY <2>00, <3>1, <3>2 DEF ThemeInv, InStep
  <2>5. CASE SaveTimer
    <3>1. rash' = rash
      BY <2>5 DEF SaveTimer
    <3>2. ASSUME ~rash PROVE InStep'
      <4>1. ThemeTypes /\ Pages /\ AtWork /\ load = "none" /\ saveDue = mine /\ DOMAIN mine = DOMAIN customs
        BY <2>0, <2>5, <3>2 DEF InStep, SaveTimer, Reading, AtWork, ThemeTypes
      <4>2. mine \in Lists /\ mine # NoTable /\ NoTable \notin DOMAIN mine
        BY <4>1, ListFacts, ThemeAssumption DEF ThemeTypes, ThemeAssumption
      <4>3. customs' = mine /\ themePuts' = Append(themePuts, [customs |-> mine]) /\ draft' = Drafted(mine, editId)
            /\ UNCHANGED <<saved, themeId, previewing, mirror, backdrop, painted, load, answer, building, editId, previewDue, mine>>
        BY <2>5, <4>1 DEF SaveTimer, paintVars
      <4>4. /\ draft' # NoTable => (draft' \in [id : ThemeIds, table : ColorTables] /\ draft'.id \in DOMAIN mine)
            /\ editId = NoTable => draft' = NoTable
        BY <4>1, <4>2, <4>3, ListFacts DEF Drafted, ThemeTypes
      <4>5. themePuts' \in Seq(ThemePuts) /\ EndsWith(saved, themePuts', "theme", themeId)
            /\ EndsWith(saved, themePuts', "customs", mine)
        BY <4>1, <4>2, <4>3, PutsList DEF ThemeTypes, AtWork
      <4>6. HasList(themePuts')
        BY <4>1, <4>2, <4>3, ListsWait, PutKinds DEF ThemeTypes
      <4>7. ThemeTypes'
        BY <4>1, <4>3, <4>4, <4>5 DEF ThemeTypes
      <4>8. Pages'
        BY <4>1, <4>3, <4>4 DEF Pages
      <4>9. saveDue' = NoTable
        BY <2>5 DEF SaveTimer
      <4>10. ASSUME ~previewing', themeId' \in Presets
             PROVE  mirror' = Painting(themeId', tableOf(customs', themeId'))
        <5>1. mirror = Painting(themeId, tableOf(customs, themeId))
          BY <4>1, <4>3, <4>10 DEF AtWork
        <5> QED
          BY <5>1, <4>3, <4>10, ThemeAssumption DEF Painting, ThemeAssumption
      <4>11. AtWork'
        BY <4>1, <4>2, <4>3, <4>4, <4>5, <4>6, <4>9, <4>10 DEF AtWork
      <4> QED
        BY <4>1, <4>3, <4>7, <4>8, <4>11 DEF InStep
    <3> QED
      BY <2>00, <3>1, <3>2 DEF ThemeInv, InStep
  <2>6. ASSUME NEW page \in {"settings", "arbitrage"}, OpensSettings(page) PROVE ThemeInv'
    <3>1. rash' \in BOOLEAN /\ (~rash' => ~rash /\ themePuts = <<>> /\ saveDue = NoTable)
      BY <2>00, <2>6 DEF OpensSettings
    <3>2. ASSUME ~rash' PROVE InStep'
      <4>1. ThemeTypes /\ Pages /\ AtWork /\ ~building /\ load = "none" /\ themePuts = <<>> /\ saveDue = NoTable
        BY <2>0, <2>6, <3>1, <3>2 DEF InStep, OpensSettings
      <4>2. saved.customs = mine /\ saved.theme \in Presets \cup DOMAIN mine
        BY <4>1 DEF AtWork, EndsWith
      <4> QED
        BY <2>6, <4>1, <4>2 DEF OpensSettings, InStep, ThemeTypes, Pages, Reading, paintVars
    <3> QED
      BY <3>1, <3>2 DEF ThemeInv, InStep
  <2>7. CASE LeavesBuilder
    <3>1. rash' = rash
      BY <2>7 DEF LeavesBuilder
    <3>2. ASSUME ~rash PROVE InStep'
      <4>1. ThemeTypes /\ Pages /\ (load # "none" => Reading) /\ (load = "none" => AtWork) /\ building
        BY <2>0, <2>7, <3>2 DEF InStep, LeavesBuilder
      <4>2. ~previewing'
        BY <2>7, <4>1 DEF LeavesBuilder, EndsPreview, ThemeTypes
      <4>3. /\ previewing => mirror' = Painting(themeId, tableOf(customs, themeId)) /\ backdrop' = mirror' /\ painted' = mirror'
            /\ ~previewing => UNCHANGED <<mirror, backdrop, painted>>
        BY <2>7 DEF LeavesBuilder, EndsPreview, Paints, paintVars
      <4>4. Pages' /\ ThemeTypes'
        <5>1. /\ building' = FALSE /\ editId' = NoTable /\ draft' = NoTable /\ previewDue' = NoTable
              /\ UNCHANGED <<saved, mine, themePuts, load>>
          BY <2>7 DEF LeavesBuilder
        <5>2. mirror' = backdrop' /\ painted' = mirror'
          BY <4>1, <4>3 DEF Pages, ThemeTypes
        <5>3. previewing' = FALSE
          BY <2>7, <4>1 DEF LeavesBuilder, EndsPreview, ThemeTypes
        <5>4. Pages'
          BY <5>1, <5>2, <5>3 DEF Pages
        <5>5. ThemeTypes'
          BY <4>1, <5>1, <5>3 DEF ThemeTypes
        <5> QED
          BY <5>4, <5>5
      <4>5. load # "none" => Reading'
        BY <2>7, <4>1, <4>2 DEF LeavesBuilder, Reading
      <4>6. load = "none" => AtWork'
        BY <2>7, <4>1, <4>2, <4>3 DEF LeavesBuilder, AtWork
      <4> QED
        BY <2>7, <4>4, <4>5, <4>6 DEF InStep, LeavesBuilder
    <3> QED
      BY <2>00, <3>1, <3>2 DEF ThemeInv, InStep
  <2>8. CASE Starts
    <3>1. rash' \in BOOLEAN /\ (~rash' => ~rash /\ themePuts = <<>> /\ saveDue = NoTable)
      BY <2>00, <2>8 DEF Starts
    <3>2. ASSUME ~rash' PROVE InStep'
      <4>1. ThemeTypes /\ (load # "none" => Reading) /\ (load = "none" => AtWork) /\ themePuts = <<>> /\ saveDue = NoTable
        BY <2>0, <3>1, <3>2 DEF InStep
      <4>2. saved.customs = mine /\ saved.theme \in Presets \cup DOMAIN mine
        BY <4>1 DEF AtWork, EndsWith, Reading
      <4>3. <<>> \in Seq(ThemePuts)
        BY EmptySeq
      <4> QED
        BY <2>8, <4>1, <4>2, <4>3 DEF Starts, InStep, ThemeTypes, Pages, Reading, Paints
    <3> QED
      BY <3>1, <3>2 DEF ThemeInv, InStep
  <2>9. ASSUME NEW id \in Presets \cup ThemeIds, NEW b \in BOOLEAN, Use(id, b) PROVE ThemeInv'
    <3>1. rash' \in BOOLEAN /\ (~rash' => ~rash /\ load = "none")
      BY <2>00, <2>9 DEF Use, Hasty
    <3>2. ASSUME ~rash' PROVE InStep'
      <4>1. ThemeTypes /\ Pages /\ AtWork /\ id \in Presets \cup DOMAIN customs
        BY <2>0, <2>9, <3>1, <3>2 DEF InStep, Use
      <4>2. Painting(id, tableOf(customs, id)).theme = id /\ id \in Picks
        BY <4>1, Painted DEF AtWork, Picks
      <4>3. /\ mirror' = Painting(id, tableOf(customs, id)) /\ painted' = mirror' /\ backdrop' = mirror'
            /\ themeId' = id /\ previewing' = FALSE /\ themePuts' = Append(themePuts, [theme |-> id])
        BY <2>9, <4>2 DEF Use, ApplyTo, Paints
      <4>4. themePuts' \in Seq(ThemePuts) /\ EndsWith(saved, themePuts', "theme", id)
            /\ EndsWith(saved, themePuts', "customs", customs)
        BY <4>1, <4>2, <4>3, PutsTheme DEF AtWork, ThemeTypes
      <4>5. ThemeTypes' /\ Pages'
        BY <2>9, <4>1, <4>3, <4>4 DEF Use, ThemeTypes, Pages
      <4>6. AtWork'
        BY <2>9, <4>1, <4>3, <4>4 DEF Use, AtWork
      <4> QED
        BY <2>9, <3>1, <3>2, <4>5, <4>6 DEF InStep, Use
    <3> QED
      BY <3>1, <3>2 DEF ThemeInv, InStep
  <2>10. ASSUME NEW id \in ThemeIds, Edits(id) PROVE ThemeInv'
    <3>1. rash' \in BOOLEAN /\ (~rash' => ~rash /\ load = "none" /\ saveDue = NoTable)
      BY <2>00, <2>10 DEF Edits, Hasty
    <3>2. ASSUME ~rash' PROVE InStep'
      <4>1. ThemeTypes /\ Pages /\ AtWork
        BY <2>0, <3>1, <3>2 DEF InStep
      <4>2. draft' \in [id : ThemeIds, table : ColorTables] /\ draft'.id = id /\ id \in DOMAIN customs
        BY <2>10, <4>1, ListFacts DEF Edits, AtWork
      <4> QED
        BY <2>10, <3>1, <3>2, <4>1, <4>2 DEF Edits, InStep, ThemeTypes, Pages, AtWork, paintVars
    <3> QED
      BY <3>1, <3>2 DEF ThemeInv, InStep
  <2>11. ASSUME NEW id \in ThemeIds, RemovesTheme(id) PROVE ThemeInv'
    <3>1. rash' \in BOOLEAN /\ (~rash' => ~rash /\ load = "none" /\ (saveDue # NoTable => draft # NoTable /\ draft.id = id))
      BY <2>00, <2>11 DEF RemovesTheme, Hasty
    <3>2. ASSUME ~rash' PROVE InStep'
      <4>1. ThemeTypes /\ Pages /\ AtWork /\ id \in DOMAIN customs /\ building
        BY <2>0, <2>11, <3>1, <3>2 DEF InStep, RemovesTheme
      <4> DEFINE l == But(customs, id)
      <4>2. l \in Lists /\ DOMAIN l = DOMAIN customs \ {id} /\ But(mine, id) = l
        BY <3>1, <3>2, <4>1, ButIsList DEF AtWork
      <4>3. /\ customs' = l /\ mine' = l /\ previewDue' = NoTable /\ saveDue' = NoTable
            /\ editId' = IF editId = id THEN NoTable ELSE editId
            /\ draft' = Drafted(l, editId')
            /\ UNCHANGED <<saved, load, answer, building>>
        BY <2>11, <4>2 DEF RemovesTheme, TimersStopped
      <4>4. DEFAULT_THEME \in Presets /\ DEFAULT_THEME \in Picks
        BY ThemeAssumption DEF ThemeAssumption, Picks
      <4>5. NoTable \notin DOMAIN l
        BY <4>2, ListFacts, ThemeAssumption DEF ThemeAssumption
      <4> HIDE DEF l
      <4>6. draft' # NoTable => (draft' \in [id : ThemeIds, table : ColorTables] /\ draft'.id \in DOMAIN l)
        BY <4>1, <4>2, <4>3, ListFacts DEF Drafted, ThemeTypes
      <4>7. /\ themePuts' \in Seq(ThemePuts) /\ EndsWith(saved, themePuts', "theme", themeId')
            /\ EndsWith(saved, themePuts', "customs", l) /\ themeId' \in Presets \cup DOMAIN l
            /\ mirror' = backdrop' /\ (previewing' \/ painted' = mirror')
            /\ previewing' \in BOOLEAN
            /\ ((~previewing' /\ themeId' \in Presets) => mirror' = Look(themeId', NoTable))
            /\ HasList(themePuts')
        <5>1. CASE id = themeId
          <6> DEFINE one == Append(themePuts, [theme |-> DEFAULT_THEME])
          <6>1. one \in Seq(ThemePuts) /\ EndsWith(saved, one, "theme", DEFAULT_THEME)
            BY <4>1, <4>4, PutsTheme DEF ThemeTypes, AtWork
          <6>2. themePuts' = Append(one, [customs |-> l])
            BY <2>11, <5>1 DEF RemovesTheme, l
          <6>3. /\ mirror' = Look(DEFAULT_THEME, NoTable) /\ backdrop' = mirror' /\ painted' = mirror'
                /\ themeId' = DEFAULT_THEME /\ previewing' = FALSE
            BY <2>11, <5>1 DEF RemovesTheme, Paints
          <6> HIDE DEF one
          <6>4. HasList(themePuts')
            BY <6>1, <6>2, <4>2, ListsWait, PutKinds
          <6> QED
            BY <4>2, <4>4, <6>1, <6>2, <6>3, <6>4, PutsList
        <5>2. CASE id # themeId
          <6>1. /\ themePuts' = Append(themePuts, [customs |-> l])
                /\ UNCHANGED <<painted, mirror, backdrop, themeId, previewing>>
            BY <2>11, <5>2 DEF RemovesTheme, paintVars, l
          <6>2. ~previewing /\ themeId \in Presets => mirror = Look(themeId, NoTable)
            BY <4>1, ThemeAssumption DEF AtWork, Painting, ThemeAssumption
          <6>3. HasList(themePuts')
            BY <6>1, <4>1, <4>2, ListsWait, PutKinds DEF ThemeTypes
          <6>4. /\ themePuts' \in Seq(ThemePuts) /\ EndsWith(saved, themePuts', "theme", themeId)
                /\ EndsWith(saved, themePuts', "customs", l)
            BY <4>1, <4>2, <6>1, PutsList DEF ThemeTypes, AtWork
          <6> QED
            BY <4>1, <4>2, <5>2, <6>1, <6>2, <6>3, <6>4 DEF ThemeTypes, AtWork, Pages
        <5> QED
          BY <5>1, <5>2
      <4>8. ThemeTypes'
        BY <4>1, <4>2, <4>3, <4>6, <4>7 DEF ThemeTypes
      <4>9. Pages'
        BY <4>1, <4>3, <4>7 DEF Pages
      <4>10. themeId' \in Presets => Painting(themeId', tableOf(customs', themeId')) = Look(themeId', NoTable)
        BY ThemeAssumption DEF Painting, ThemeAssumption
      <4>11. AtWork'
        BY <4>2, <4>3, <4>6, <4>7, <4>10 DEF AtWork
      <4> QED
        BY <3>1, <3>2, <4>3, <4>8, <4>9, <4>11 DEF InStep
    <3> QED
      BY <3>1, <3>2 DEF ThemeInv, InStep
  <2>12. ASSUME NEW id \in ThemeIds, NEW c \in ColorTables, Makes(id, c) PROVE ThemeInv'
    <3>1. rash' \in BOOLEAN /\ (~rash' => ~rash /\ load = "none" /\ saveDue = NoTable)
      BY <2>00, <2>12 DEF Makes, Hasty
    <3>2. ASSUME ~rash' PROVE InStep'
      <4>1. ThemeTypes /\ Pages /\ AtWork /\ mine = customs /\ building
        BY <2>0, <2>12, <3>1, <3>2 DEF InStep, AtWork, Makes
      <4> DEFINE l == WithTheme(customs, id, c)
      <4>2. l \in Lists /\ DOMAIN l = DOMAIN customs \cup {id}
        BY <4>1, WithIsList DEF AtWork
      <4>3. /\ customs' = l /\ mine' = l /\ editId' = id /\ draft' = [id |-> id, table |-> c]
            /\ themePuts' = Append(themePuts, [customs |-> l]) /\ saveDue' = NoTable
            /\ UNCHANGED <<saved, themeId, previewing, mirror, painted, backdrop, load, answer, building, previewDue>>
        BY <2>12, <3>1, <3>2, <4>1 DEF Makes, paintVars
      <4> HIDE DEF l
      <4>4. /\ themePuts' \in Seq(ThemePuts) /\ EndsWith(saved, themePuts', "theme", themeId)
            /\ EndsWith(saved, themePuts', "customs", l) /\ HasList(themePuts')
        BY <4>1, <4>2, <4>3, PutsList, ListsWait, PutKinds DEF ThemeTypes, AtWork
      <4>5. ThemeTypes' /\ Pages'
        BY <4>1, <4>2, <4>3, <4>4 DEF ThemeTypes, Pages
      <4>6. (~previewing /\ themeId \in Presets) => mirror = Painting(themeId, tableOf(l, themeId))
        BY <4>1, ThemeAssumption DEF AtWork, Painting, ThemeAssumption
      <4>7. AtWork'
        BY <4>1, <4>2, <4>3, <4>4, <4>6 DEF AtWork
      <4> QED
        BY <3>1, <3>2, <4>3, <4>5, <4>7 DEF InStep
    <3> QED
      BY <3>1, <3>2 DEF ThemeInv, InStep
  <2>13. ASSUME NEW c \in ColorTables, Recolors(c) PROVE ThemeInv'
    <3>1. rash' \in BOOLEAN /\ (~rash' => ~rash /\ load = "none")
      BY <2>00, <2>13 DEF Recolors, Hasty
    <3>2. ASSUME ~rash' PROVE InStep'
      <4>1. /\ ThemeTypes /\ Pages /\ AtWork /\ draft # NoTable /\ building
            /\ draft \in [id : ThemeIds, table : ColorTables] /\ draft.id \in DOMAIN customs
        BY <2>0, <2>13, <3>1, <3>2 DEF InStep, Recolors, ThemeTypes, AtWork, Pages
      <4> DEFINE d == draft.id
                 l == WithTheme(mine, d, c)
      <4>2. DOMAIN mine = DOMAIN customs /\ But(mine, d) = But(customs, d) /\ mine \in Lists /\ customs \in Lists
        BY <4>1 DEF AtWork, ThemeTypes
      <4>3. WithTheme(customs, d, c) = l
        BY <4>1, <4>2, WithAfterBut
      <4>4. l \in Lists /\ DOMAIN l = DOMAIN customs /\ But(l, d) = But(customs, d) /\ l # NoTable
        <5>0. d \in ThemeIds /\ d \in DOMAIN customs
          BY <4>1
        <5> HIDE DEF d
        <5>1. l \in Lists /\ DOMAIN l = DOMAIN mine \cup {d}
          BY <4>2, <5>0, WithIsList
        <5>2. But(WithTheme(customs, d, c), d) = But(customs, d)
          BY <4>2, <5>0, WithIsList
        <5> HIDE DEF l
        <5> QED
          BY <4>2, <4>3, <5>0, <5>1, <5>2, ListFacts
      <4>5. /\ mine' = l /\ saveDue' = l /\ previewDue' = c /\ draft' = [draft EXCEPT !.table = c]
            /\ UNCHANGED <<saved, themeId, customs, previewing, mirror, painted, backdrop, themePuts, load, answer, building, editId>>
        BY <2>13, <4>3 DEF Recolors, paintVars
      <4>6. draft' \in [id : ThemeIds, table : ColorTables] /\ draft'.id = d
        BY <4>1, <4>5
      <4> HIDE DEF l, d
      <4>7. ThemeTypes' /\ Pages'
        BY <4>1, <4>4, <4>5, <4>6 DEF ThemeTypes, Pages
      <4>8. AtWork'
        BY <4>1, <4>4, <4>5, <4>6 DEF AtWork, d
      <4> QED
        BY <3>1, <3>2, <4>5, <4>7, <4>8 DEF InStep
    <3> QED
      BY <3>1, <3>2 DEF ThemeInv, InStep
  <2>14. CASE UNCHANGED themeVars
    <3>1. UNCHANGED <<saved, themeId, customs, previewing, painted, mirror, backdrop, themePuts, load, answer,
                      building, editId, draft, previewDue, saveDue, mine, rash>>
      BY <2>14 DEF themeVars, paintVars, builderVars
    <3> QED
      BY <3>1 DEF ThemeInv, ThemeTypes, Pages, Reading, AtWork
  <2> QED
    BY <2>1, <2>2, <2>3, <2>4, <2>5, <2>6, <2>7, <2>8, <2>9, <2>10, <2>11, <2>12, <2>13, <2>14 DEF ThemeNext
<1>3. ThemeInv => ThemesAgree
  <2> SUFFICES ASSUME ThemeInv, Resting, ~rash PROVE ThemesAgree
    BY DEF ThemesAgree, OneTheme, ThemesKept
  <2>1. ThemeTypes /\ Pages /\ AtWork /\ themePuts = <<>> /\ saveDue = NoTable
    BY DEF ThemeInv, Resting
  <2>2. saved.theme = themeId /\ saved.customs = customs /\ mine = customs /\ ~HasList(themePuts)
    BY <2>1 DEF AtWork, EndsWith, HasList
  <2>3. Painting(themeId, tableOf(customs, themeId)).theme = themeId
    BY <2>1, Painted DEF AtWork
  <2>4. ~(previewing /\ building) => ~previewing
    BY <2>1 DEF Pages
  <2> QED
    BY <2>1, <2>2, <2>3, <2>4 DEF ThemesAgree, OneTheme, ThemesKept, AtWork, Pages
<1> QED
  BY <1>1, <1>2, <1>3, PTL DEF ThemeSpec
=============================================================================
