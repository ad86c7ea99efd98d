---------------------------- MODULE ShellProofs -----------------------------
(***************************************************************************)
(* Proofs about the desktop's side of the page: what reached the disk      *)
(* stays there (WorkspaceSave), and no price check that could be seen is   *)
(* missed (ClipCapture).                                                   *)
(***************************************************************************)
EXTENDS WorkspaceSave, ClipCapture, SequenceTheorems, TLAPS

-----------------------------------------------------------------------------
(* Saves.  The requests on their way form a chain: what the disk holds is  *)
(* in every PUT, a PUT is in every later one, and a page's own requests    *)
(* come after those of the pages before it.                                *)
Chain(w, disk) ==
    /\ w \in Seq(Request)
    /\ \A p \in DOMAIN w : w[p].kind = "put" => disk \subseteq w[p].doc
    /\ \A p, q \in DOMAIN w : p < q /\ w[p].kind = "put" /\ w[q].kind = "put" => w[p].doc \subseteq w[q].doc
    /\ \A p, q \in DOMAIN w : p < q /\ w[p].mine => w[q].mine

Below(w, d) == \A p \in DOMAIN w : w[p].kind = "put" => w[p].doc \subseteq d

SaveInv ==
    /\ doc \subseteq Edits /\ queue \subseteq Edits /\ server \subseteq Edits /\ made \in 0..MaxEdits
    /\ Chain(wire, server)
    /\ loaded = "yes" => server \subseteq doc /\ Below(wire, doc)

(* A request of this page joins the others.                                *)
LEMMA ChainGrows ==
    ASSUME NEW w, NEW disk, NEW d, NEW r \in Request, Chain(w, disk), r.mine,
           r.kind = "put" => disk \subseteq r.doc /\ Below(w, r.doc)
    PROVE  /\ Chain(Append(w, r), disk)
           /\ Below(w, d) /\ (r.kind = "put" => r.doc \subseteq d) => Below(Append(w, r), d)
<1> DEFINE t == Append(w, r)
<1>1. w \in Seq(Request) /\ Len(w) \in Nat /\ DOMAIN w = 1..Len(w)
  BY LenProperties DEF Chain
<1>2. t \in Seq(Request) /\ Len(t) = Len(w) + 1 /\ t[Len(w) + 1] = r /\ \A k \in 1..Len(w) : t[k] = w[k]
  BY <1>1, AppendProperties
<1>3. DOMAIN t = 1..(Len(w) + 1)
  BY <1>1, <1>2, LenProperties
<1> HIDE DEF t
<1>4. \A k \in DOMAIN t : (k \in DOMAIN w /\ t[k] = w[k]) \/ (k = Len(w) + 1 /\ t[k] = r)
  BY <1>1, <1>2, <1>3
<1>5. \A p, q \in DOMAIN t : p < q => p \in DOMAIN w
  BY <1>1, <1>3
<1>6. Chain(t, disk)
  <2>1. \A p \in DOMAIN t : t[p].kind = "put" => disk \subseteq t[p].doc
    BY <1>4 DEF Chain
  <2>2. ASSUME NEW p \in DOMAIN t, NEW q \in DOMAIN t, p < q, t[p].kind = "put", t[q].kind = "put"
        PROVE  t[p].doc \subseteq t[q].doc
    <3>1. p \in DOMAIN w /\ t[p] = w[p]
      BY <1>1, <1>2, <1>5, <2>2
    <3> QED
      BY <1>4, <2>2, <3>1 DEF Chain, Below
  <2>3. ASSUME NEW p \in DOMAIN t, NEW q \in DOMAIN t, p < q, t[p].mine PROVE t[q].mine
    <3>1. p \in DOMAIN w /\ t[p] = w[p]
      BY <1>1, <1>2, <1>5, <2>3
    <3> QED
      BY <1>4, <2>3, <3>1 DEF Chain
  <2> QED
    BY <1>2, <2>1, <2>2, <2>3 DEF Chain
<1>7. Below(w, d) /\ (r.kind = "put" => r.doc \subseteq d) => Below(t, d)
  BY <1>4 DEF Below
<1> QED
  BY <1>6, <1>7 DEF t

(* Where a sequence's elements were before one of them left.               *)
Was(i, k) == IF k < i THEN k ELSE k + 1

LEMMA RemovedFrom ==
    ASSUME NEW w \in Seq(Request), NEW i \in DOMAIN w
    PROVE  LET t == RemoveAt(w, i) IN
           /\ t \in Seq(Request) /\ DOMAIN t = 1..(Len(w) - 1)
           /\ \A k \in DOMAIN t : Was(i, k) \in DOMAIN w /\ t[k] = w[Was(i, k)]
<1> DEFINE a == SubSeq(w, 1, i - 1)  b == SubSeq(w, i + 1, Len(w))  t == a \o b
<1>1. Len(w) \in Nat /\ DOMAIN w = 1..Len(w) /\ i \in 1..Len(w)
  BY LenProperties
<1>2. a \in Seq(Request) /\ Len(a) = i - 1 /\ \A k \in 1..(i - 1) : a[k] = w[k]
  BY <1>1, SubSeqProperties, SMTT(30)
<1>3. b \in Seq(Request) /\ Len(b) = Len(w) - i /\ \A k \in 1..(Len(w) - i) : b[k] = w[i + k]
  BY <1>1, SubSeqProperties, SMTT(30)
<1> HIDE DEF a, b
<1>4. t \in Seq(Request) /\ Len(t) = Len(w) - 1 /\ \A k \in 1..(Len(w) - 1) : t[k] = IF k <= i - 1 THEN a[k] ELSE b[k - (i - 1)]
  <2>1. /\ t \in Seq(Request) /\ Len(t) = Len(a) + Len(b)
        /\ \A k \in 1..(Len(a) + Len(b)) : t[k] = IF k <= Len(a) THEN a[k] ELSE b[k - Len(a)]
    BY <1>2, <1>3, ConcatProperties
  <2> QED
    BY <1>1, <1>2, <1>3, <2>1, SMTT(30)
<1>5. DOMAIN t = 1..(Len(w) - 1)
  BY <1>1, <1>4, LenProperties
<1> HIDE DEF t
<1>6. ASSUME NEW k \in DOMAIN t PROVE Was(i, k) \in DOMAIN w /\ t[k] = w[Was(i, k)]
  <2>1. CASE k < i
    BY <1>1, <1>2, <1>4, <1>5, <2>1, SMTT(30) DEF Was
  <2>2. CASE ~(k < i)
    <3>1. k - (i - 1) \in 1..(Len(w) - i) /\ i + (k - (i - 1)) = k + 1 /\ k + 1 \in 1..Len(w)
      BY <1>1, <1>5, <2>2
    <3>2. t[k] = b[k - (i - 1)]
      BY <1>1, <1>4, <1>5, <2>2
    <3> QED
      BY <1>1, <1>3, <1>5, <2>2, <3>1, <3>2 DEF Was
  <2> QED
    BY <2>1, <2>2
<1>7. t = RemoveAt(w, i)
  BY DEF t, a, b, RemoveAt
<1> QED
  BY <1>4, <1>5, <1>6, <1>7

(* A request is gone: handled, failed, or lost.                            *)
LEMMA ChainShrinks ==
    ASSUME NEW w, NEW disk, Chain(w, disk), NEW i \in DOMAIN w
    PROVE  /\ Chain(RemoveAt(w, i), disk)
           /\ \A d : Below(w, d) => Below(RemoveAt(w, i), d)
           /\ i = 1 /\ w[1].kind = "put" => Chain(RemoveAt(w, i), w[1].doc)
<1> DEFINE t == RemoveAt(w, i)
<1>1. w \in Seq(Request) /\ Len(w) \in Nat /\ DOMAIN w = 1..Len(w) /\ i \in 1..Len(w)
  BY LenProperties DEF Chain
<1>2. /\ t \in Seq(Request) /\ DOMAIN t = 1..(Len(w) - 1)
      /\ \A k \in DOMAIN t : Was(i, k) \in DOMAIN w /\ t[k] = w[Was(i, k)] /\ k \in Int
  BY <1>1, RemovedFrom
<1> HIDE DEF t
<1>3. \A p, q \in DOMAIN t : p < q => Was(i, p) < Was(i, q)
  BY <1>1, <1>2 DEF Was
<1>4. i = 1 => \A k \in DOMAIN t : 1 < Was(i, k)
  BY <1>1, <1>2 DEF Was
<1>5. 1 \in DOMAIN w
  BY <1>1
<1>6. Chain(t, disk)
  BY <1>2, <1>3 DEF Chain
<1>7. \A d : Below(w, d) => Below(t, d)
  BY <1>2 DEF Below
<1>8. i = 1 /\ w[1].kind = "put" => Chain(t, w[1].doc)
  BY <1>2, <1>4, <1>5, <1>6 DEF Chain
<1> QED
  BY <1>6, <1>7, <1>8 DEF t

(* The page that sent them is gone.                                        *)
LEMMA ChainUnowned ==
    ASSUME NEW w, NEW disk, Chain(w, disk)
    PROVE  Chain([k \in DOMAIN w |-> [w[k] EXCEPT !.mine = FALSE]], disk)
<1> DEFINE t == [k \in DOMAIN w |-> [w[k] EXCEPT !.mine = FALSE]]
<1>1. w \in Seq(Request) /\ Len(w) \in Nat /\ DOMAIN w = 1..Len(w)
  BY LenProperties DEF Chain
<1>2. \A k \in DOMAIN w : w[k] \in Request
  BY <1>1, ElementOfSeq
<1>3. \A k \in DOMAIN w : t[k] \in Request /\ t[k].kind = w[k].kind /\ t[k].doc = w[k].doc /\ t[k].mine = FALSE
  BY <1>2 DEF Request
<1>4. DOMAIN t = 1..Len(w)
  BY <1>1
<1> HIDE DEF t
<1>5. t \in Seq(Request)
  <2>1. t = [k \in 1..Len(w) |-> t[k]]
    BY <1>1 DEF t
  <2> QED
    BY <1>1, <1>3, <2>1
<1>6. Chain(t, disk)
  BY <1>1, <1>3, <1>4, <1>5 DEF Chain
<1> QED
  BY <1>6 DEF t
-----------------------------------------------------------------------------
LEMMA SaveInitOK == Init => SaveInv
<1> SUFFICES ASSUME Init PROVE SaveInv
  OBVIOUS
<1>1. wire \in Seq(Request) /\ DOMAIN wire = {} /\ made \in 0..MaxEdits
  BY BoundsAssumption, EmptySeq DEF Init
<1> QED
  BY <1>1 DEF Init, SaveInv, Chain, Below

(* A save sends what the store holds, if the store holds the user's tree.  *)
LEMMA SaveKeeps ==
    ASSUME SaveInv, NEW final \in BOOLEAN, Save(final),
           UNCHANGED <<doc, loaded, queue, server, made>>
    PROVE  SaveInv'
<1>1. CASE armed /\ loaded = "yes"
  <2>1. PutOf(final) \in Request /\ PutOf(final).mine /\ PutOf(final).kind = "put" /\ PutOf(final).doc = doc
    BY DEF PutOf, Request, SaveInv
  <2>2. wire' = Append(wire, PutOf(final)) /\ Chain(wire, server) /\ server \subseteq doc /\ Below(wire, doc)
    BY <1>1 DEF Save, SaveInv
  <2>3. Chain(wire', server) /\ Below(wire', doc)
    BY <2>1, <2>2, ChainGrows
  <2> QED
    BY <2>3 DEF SaveInv
<1>2. CASE ~(armed /\ loaded = "yes")
  BY <1>2 DEF Save, SaveInv
<1> QED
  BY <1>1, <1>2

LEMMA FlushKeeps ==
    ASSUME SaveInv, NEW final \in BOOLEAN, Flush(final),
           UNCHANGED <<doc, loaded, queue, server, made>>
    PROVE  SaveInv'
<1>1. CASE timer # "none" \/ saveState # "idle"
  BY <1>1, SaveKeeps DEF Flush
<1>2. CASE ~(timer # "none" \/ saveState # "idle")
  BY <1>2 DEF Flush, SaveInv
<1> QED
  BY <1>1, <1>2

LEMMA EditKeeps == SaveInv /\ Edit => SaveInv'
<1> SUFFICES ASSUME SaveInv, Edit PROVE SaveInv'
  OBVIOUS
<1>1. made' \in 0..MaxEdits /\ made' \in Edits
  BY BoundsAssumption DEF SaveInv, Edit, Edits
<1>2. doc' = doc \cup {made'} /\ UNCHANGED <<queue, server, wire, loaded>>
  BY DEF Edit
<1>3. Below(wire, doc) => Below(wire, doc')
  BY <1>2 DEF Below
<1> QED
  BY <1>1, <1>2, <1>3 DEF SaveInv

LEMMA IngestKeeps == SaveInv /\ IngestEarly => SaveInv'
  BY BoundsAssumption DEF SaveInv, IngestEarly, Edits, main

LEMMA LoadKeeps == SaveInv /\ Load => SaveInv'
<1> SUFFICES ASSUME SaveInv, Load PROVE SaveInv'
  OBVIOUS
<1> DEFINE r == [kind |-> "load", doc |-> {}, mine |-> TRUE, last |-> FALSE]
<1>1. r \in Request /\ r.mine /\ r.kind = "load"
  BY DEF Request
<1>2. wire' = Append(wire, r) /\ loaded' # "yes"
  BY DEF Load, page
<1>3. Chain(wire', server)
  BY <1>1, <1>2, ChainGrows DEF SaveInv
<1> QED
  BY <1>2, <1>3 DEF SaveInv, Load, page

LEMMA TickKeeps == SaveInv /\ Tick => SaveInv'
  BY DEF SaveInv, Tick, Below, main

LEMMA ReloadKeeps == SaveInv /\ Reload => SaveInv'
<1> SUFFICES ASSUME SaveInv, Reload PROVE SaveInv'
  OBVIOUS
<1> DEFINE sent == IF (timer # "none" \/ saveState # "idle") /\ armed /\ loaded = "yes"
                   THEN Append(wire, PutOf(FALSE)) ELSE wire
<1>1. Chain(sent, server)
  <2>1. CASE (timer # "none" \/ saveState # "idle") /\ armed /\ loaded = "yes"
    <3>1. PutOf(FALSE) \in Request /\ PutOf(FALSE).mine /\ PutOf(FALSE).kind = "put" /\ PutOf(FALSE).doc = doc
      BY DEF PutOf, Request, SaveInv
    <3> QED
      BY <2>1, <3>1, ChainGrows DEF SaveInv
  <2>2. CASE ~((timer # "none" \/ saveState # "idle") /\ armed /\ loaded = "yes")
    BY <2>2 DEF SaveInv
  <2> QED
    BY <2>1, <2>2
<1>2. wire' = [k \in DOMAIN sent |-> [sent[k] EXCEPT !.mine = FALSE]]
  BY DEF Reload
<1> HIDE DEF sent
<1>3. Chain(wire', server)
  BY <1>1, <1>2, ChainUnowned
<1> QED
  BY <1>3 DEF SaveInv, Reload, NewPage

(* One of the requests comes to its end, in the order they were sent.      *)
LEMMA LoadAnswersKeeps ==
    ASSUME Prompt, SaveInv, NEW k \in DOMAIN wire, LoadAnswers(k)
    PROVE  SaveInv'
<1>1. k = 1 /\ wire' = RemoveAt(wire, k) /\ Chain(wire', server) /\ \A d : Below(wire, d) => Below(wire', d)
  BY ChainShrinks DEF LoadAnswers, Handled, SaveInv
<1>2. CASE wire[k].mine
  <2>1. ASSUME NEW p \in DOMAIN wire, wire[p].kind = "put" PROVE FALSE
    <3>1. wire \in Seq(Request) /\ p \in Nat /\ 1 <= p
      BY LenProperties DEF SaveInv, Chain
    <3>2. p # 1 /\ ~wire[p].mine
      BY <1>1, <2>1 DEF LoadAnswers, Handled, Puts
    <3> QED
      BY <1>1, <1>2, <3>1, <3>2 DEF SaveInv, Chain
  <2>2. Below(wire, server)
    BY <2>1 DEF Below
  <2> QED
    BY <1>1, <1>2, <2>2 DEF LoadAnswers, SaveInv, main
<1>3. CASE ~wire[k].mine
  BY <1>1, <1>3 DEF LoadAnswers, SaveInv, page, main
<1> QED
  BY <1>2, <1>3

LEMMA PutAnswersKeeps ==
    ASSUME Prompt, SaveInv, NEW k \in DOMAIN wire, PutAnswers(k) \/ PutAnswerLost(k)
    PROVE  SaveInv' /\ server \subseteq server'
<1>1. k = 1 /\ wire[1].kind = "put" /\ wire' = RemoveAt(wire, k) /\ server' = wire[1].doc
  BY DEF PutAnswers, PutAnswerLost, Handled
<1>2. Chain(wire', server') /\ \A d : Below(wire, d) => Below(wire', d)
  BY <1>1, ChainShrinks DEF SaveInv
<1>3. UNCHANGED <<doc, loaded, queue, made>>
  BY DEF PutAnswers, PutAnswerLost, Answered, page
<1>4. server \subseteq server'
  BY <1>1 DEF SaveInv, Chain
<1>5. wire[1] \in Request
  BY <1>1, ElementOfSeq DEF SaveInv, Chain
<1>6. server' \subseteq Edits
  BY <1>1, <1>5 DEF Request
<1>7. loaded = "yes" => server' \subseteq doc
  BY <1>1 DEF SaveInv, Below
<1> QED
  BY <1>2, <1>3, <1>4, <1>6, <1>7 DEF SaveInv

LEMMA FailsKeeps ==
    ASSUME SaveInv, NEW k \in DOMAIN wire, Fails(k)
    PROVE  SaveInv'
<1>1. wire' = RemoveAt(wire, k) /\ Chain(wire', server) /\ \A d : Below(wire, d) => Below(wire', d)
  BY ChainShrinks DEF Fails, SaveInv
<1>2. UNCHANGED <<server, queue, made>>
  BY DEF Fails, Answered, page
<1>3. (loaded' = "failed" /\ doc' = {}) \/ UNCHANGED <<loaded, doc>>
  BY DEF Fails, Answered, FailLoad, page
<1> QED
  BY <1>1, <1>2, <1>3 DEF SaveInv

LEMMA SaveStepKeeps ==
    ASSUME Prompt, SaveInv, [Next]_vars
    PROVE  SaveInv' /\ server \subseteq server'
<1>1. CASE Edit
  BY <1>1, EditKeeps DEF Edit
<1>2. CASE IngestEarly
  BY <1>2, IngestKeeps DEF IngestEarly
<1>3. CASE Load
  BY <1>3, LoadKeeps DEF Load
<1>4. CASE Tick
  BY <1>4, TickKeeps DEF Tick
<1>5. CASE DebounceFires
  BY <1>5, SaveKeeps DEF DebounceFires
<1>6. CASE Hide
  BY <1>6, FlushKeeps DEF Hide
<1>7. CASE Reload
  BY <1>7, ReloadKeeps DEF Reload
<1>8. CASE Network
  <2>1. PICK k \in DOMAIN wire : LoadAnswers(k) \/ PutAnswers(k) \/ PutAnswerLost(k) \/ Fails(k)
    BY <1>8 DEF Network
  <2>2. CASE LoadAnswers(k)
    BY <2>2, LoadAnswersKeeps DEF LoadAnswers
  <2>3. CASE PutAnswers(k) \/ PutAnswerLost(k)
    BY <2>3, PutAnswersKeeps
  <2>4. CASE Fails(k)
    BY <2>4, FailsKeeps DEF Fails
  <2> QED
    BY <2>1, <2>2, <2>3, <2>4
<1>9. CASE FlushForQuit
  BY <1>9, FlushKeeps DEF FlushForQuit
<1>10. CASE BeforeQuit \/ BackendDies \/ Flushed \/ QuitTimeout \/ UNCHANGED vars
  BY <1>10 DEF BeforeQuit, BackendDies, Flushed, QuitTimeout, vars, page, main, SaveInv
<1> QED
  BY <1>1, <1>2, <1>3, <1>4, <1>5, <1>6, <1>7, <1>8, <1>9, <1>10 DEF Next, Store, Quitting

-----------------------------------------------------------------------------
(* The dot.  Unless edits wait (dirty) or a save failed (error), the last  *)
(* PUT on its way carries what the store holds, or none is and the disk    *)
(* holds it; a page with the user's tree owns every request on its way.    *)
NoPut(w) == \A p \in DOMAIN w : w[p].kind # "put"
LastPut(w, d) ==
    \E q \in DOMAIN w : /\ w[q].kind = "put" /\ w[q].doc = d
                        /\ \A p \in DOMAIN w : p > q => w[p].kind # "put"
Settled(w, disk, d) == (NoPut(w) /\ disk = d) \/ LastPut(w, d)
Owned(w) == \A p \in DOMAIN w : w[p].mine

DotInv ==
    loaded = "yes" =>
        /\ Owned(wire)
        /\ ~armed => NoPut(wire) /\ server = doc
        /\ armed /\ saveState \in {"idle", "saving"} => Settled(wire, server, doc)

LEMMA OwnedShrinks ==
    ASSUME NEW w \in Seq(Request), NEW i \in DOMAIN w
    PROVE  /\ Owned(w) => Owned(RemoveAt(w, i))
           /\ NoPut(w) => NoPut(RemoveAt(w, i))
  BY RemovedFrom DEF Owned, NoPut

(* The first PUT is stored: the disk is what the last one will make it.    *)
LEMMA SettledShrinks ==
    ASSUME NEW w \in Seq(Request), 1 \in DOMAIN w, w[1].kind = "put", NEW disk, NEW d, Settled(w, disk, d)
    PROVE  Settled(RemoveAt(w, 1), w[1].doc, d)
<1> DEFINE t == RemoveAt(w, 1)
<1>1. DOMAIN w = 1..Len(w) /\ Len(w) \in Nat
  BY LenProperties
<1>2. DOMAIN t = 1..(Len(w) - 1) /\ \A k \in DOMAIN t : t[k] = w[k + 1] /\ k \in Int /\ k + 1 \in DOMAIN w
  BY <1>1, RemovedFrom DEF Was
<1> HIDE DEF t
<1>3. PICK q \in DOMAIN w : /\ w[q].kind = "put" /\ w[q].doc = d
                            /\ \A p \in DOMAIN w : p > q => w[p].kind # "put"
  BY DEF Settled, NoPut, LastPut
<1>4. CASE q = 1
  <2>1. NoPut(t)
    BY <1>1, <1>2, <1>3, <1>4 DEF NoPut
  <2> QED
    BY <1>3, <1>4, <2>1 DEF Settled, t
<1>5. CASE q # 1
  <2>1. q - 1 \in DOMAIN t /\ (q - 1) + 1 = q
    BY <1>1, <1>2, <1>3, <1>5
  <2>2. \A p \in DOMAIN t : p > q - 1 => t[p].kind # "put"
    BY <1>1, <1>2, <1>3, <2>1
  <2>3. t[q - 1].kind = "put" /\ t[q - 1].doc = d
    BY <1>2, <1>3, <2>1
  <2> QED
    BY <2>1, <2>2, <2>3 DEF Settled, LastPut, t
<1> QED
  BY <1>4, <1>5

LEMMA SettledGrows ==
    ASSUME NEW w \in Seq(Request), NEW r \in Request, r.mine, Owned(w), NEW disk
    PROVE  /\ Owned(Append(w, r))
           /\ r.kind = "put" => Settled(Append(w, r), disk, r.doc)
<1> DEFINE t == Append(w, r)
<1>1. Len(w) \in Nat /\ DOMAIN w = 1..Len(w) /\ t[Len(w) + 1] = r /\ \A k \in 1..Len(w) : t[k] = w[k]
  BY LenProperties, AppendProperties
<1>2. DOMAIN t = 1..(Len(w) + 1)
  BY <1>1, AppendProperties, LenProperties
<1> HIDE DEF t
<1>3. Owned(t)
  BY <1>1, <1>2 DEF Owned
<1>4. r.kind = "put" => LastPut(t, r.doc)
  <2>1. Len(w) + 1 \in DOMAIN t /\ \A p \in DOMAIN t : ~(p > Len(w) + 1)
    BY <1>1, <1>2
  <2> QED
    BY <1>1, <2>1 DEF LastPut
<1> QED
  BY <1>3, <1>4 DEF Settled, t

LEMMA DotSave ==
    ASSUME SaveInv, DotInv, NEW final \in BOOLEAN, Save(final), UNCHANGED <<doc, loaded, armed, server>>
    PROVE  DotInv'
<1>1. CASE armed /\ loaded = "yes"
  <2>1. PutOf(final) \in Request /\ PutOf(final).mine /\ PutOf(final).kind = "put" /\ PutOf(final).doc = doc
    BY DEF PutOf, Request, SaveInv
  <2>2. wire' = Append(wire, PutOf(final)) /\ wire \in Seq(Request) /\ Owned(wire)
    BY <1>1 DEF Save, SaveInv, Chain, DotInv
  <2>3. Owned(wire') /\ Settled(wire', server, doc)
    BY <2>1, <2>2, SettledGrows
  <2> QED
    BY <1>1, <2>3 DEF DotInv
<1>2. CASE ~(armed /\ loaded = "yes")
  BY <1>2 DEF Save, DotInv
<1> QED
  BY <1>1, <1>2

LEMMA DotFlush ==
    ASSUME SaveInv, DotInv, NEW final \in BOOLEAN, Flush(final), UNCHANGED <<doc, loaded, armed, server>>
    PROVE  DotInv'
<1>1. CASE timer # "none" \/ saveState # "idle"
  BY <1>1, DotSave DEF Flush
<1>2. CASE ~(timer # "none" \/ saveState # "idle")
  BY <1>2 DEF Flush, DotInv
<1> QED
  BY <1>1, <1>2

(* An answer to this page's load finds no PUT on its way; to a page with   *)
(* the user's tree no other page's load is answered.                       *)
LEMMA DotLoadAnswers ==
    ASSUME Prompt, SaveInv, DotInv, NEW k \in DOMAIN wire, LoadAnswers(k)
    PROVE  DotInv'
<1>1. /\ k = 1 /\ wire' = RemoveAt(wire, k) /\ server' = server /\ wire \in Seq(Request)
      /\ \A p \in DOMAIN wire : wire[p].kind = "put" => ~wire[p].mine
  BY DEF LoadAnswers, Handled, Puts, SaveInv, Chain
<1>2. CASE wire[k].mine
  <2>1. Owned(wire)
    <3>1. \A p \in DOMAIN wire : p = 1 \/ 1 < p
      BY <1>1, LenProperties
    <3> QED
      BY <1>1, <1>2, <3>1 DEF SaveInv, Chain, Owned
  <2>2. NoPut(wire)
    BY <1>1, <2>1 DEF NoPut, Owned
  <2>3. Owned(wire') /\ NoPut(wire')
    BY <1>1, <2>1, <2>2, OwnedShrinks
  <2> QED
    BY <1>1, <1>2, <2>3 DEF LoadAnswers, DotInv
<1>3. CASE ~wire[k].mine
  BY <1>3 DEF LoadAnswers, page, DotInv, Owned
<1> QED
  BY <1>2, <1>3

LEMMA DotPutAnswers ==
    ASSUME Prompt, SaveInv, DotInv, NEW k \in DOMAIN wire, PutAnswers(k) \/ PutAnswerLost(k)
    PROVE  DotInv'
<1>1. /\ k = 1 /\ wire[1].kind = "put" /\ wire' = RemoveAt(wire, 1) /\ server' = wire[1].doc
      /\ wire \in Seq(Request) /\ UNCHANGED <<doc, loaded, armed>>
  BY DEF PutAnswers, PutAnswerLost, Handled, Answered, page, SaveInv, Chain
<1>2. SUFFICES ASSUME loaded = "yes" PROVE DotInv'
  BY <1>1 DEF DotInv
<1>3. Owned(wire') /\ armed
  BY <1>1, <1>2, OwnedShrinks DEF DotInv, NoPut
<1>4. saveState' \in {"idle", "saving"} => saveState \in {"idle", "saving"}
  BY <1>1, <1>2 DEF PutAnswers, PutAnswerLost, Answered, IdleIfSaving, DotInv, Owned
<1>5. saveState' \in {"idle", "saving"} => Settled(wire', server', doc)
  BY <1>1, <1>2, <1>3, <1>4, SettledShrinks DEF DotInv
<1> QED
  BY <1>1, <1>3, <1>5 DEF DotInv

LEMMA DotFails ==
    ASSUME SaveInv, DotInv, NEW k \in DOMAIN wire, Fails(k)
    PROVE  DotInv'
<1>1. wire' = RemoveAt(wire, k) /\ wire \in Seq(Request) /\ UNCHANGED server
  BY DEF Fails, SaveInv, Chain
<1>2. CASE loaded = "yes"
  <2>1. wire[k].mine /\ Owned(wire')
    BY <1>1, <1>2, OwnedShrinks DEF DotInv, Owned
  <2>2. CASE wire[k].kind = "put"
    <3>1. saveState' = "error" /\ armed /\ UNCHANGED <<doc, loaded, armed>>
      BY <1>2, <2>1, <2>2 DEF Fails, Answered, DotInv, NoPut
    <3> QED
      BY <2>1, <3>1 DEF DotInv
  <2>3. CASE wire[k].kind # "put"
    BY <2>1, <2>3 DEF Fails, FailLoad, DotInv
  <2> QED
    BY <2>2, <2>3
<1>3. CASE loaded # "yes"
  BY <1>3 DEF Fails, FailLoad, Answered, page, DotInv
<1> QED
  BY <1>2, <1>3

LEMMA DotStepKeeps ==
    ASSUME Prompt, SaveInv, DotInv, [Next]_vars
    PROVE  DotInv'
<1>1. CASE Edit
  BY <1>1 DEF Edit, Persist, DotInv, main
<1>2. CASE IngestEarly \/ Load \/ Reload
  BY <1>2 DEF IngestEarly, Load, Reload, NewPage, page, DotInv
<1>3. CASE Tick
  <2>1. NoPut(wire) /\ server = doc => Settled(wire, server, doc)
    BY DEF Settled
  <2> QED
    BY <1>3, <2>1 DEF Tick, DotInv
<1>4. CASE DebounceFires
  BY <1>4, DotSave DEF DebounceFires
<1>5. CASE Hide
  BY <1>5, DotFlush DEF Hide
<1>6. CASE Network
  <2>1. PICK k \in DOMAIN wire : LoadAnswers(k) \/ PutAnswers(k) \/ PutAnswerLost(k) \/ Fails(k)
    BY <1>6 DEF Network
  <2> QED
    BY <2>1, DotLoadAnswers, DotPutAnswers, DotFails
<1>7. CASE FlushForQuit
  BY <1>7, DotFlush DEF FlushForQuit
<1>8. CASE BeforeQuit \/ BackendDies \/ Flushed \/ QuitTimeout \/ UNCHANGED vars
  BY <1>8 DEF BeforeQuit, BackendDies, Flushed, QuitTimeout, vars, page, DotInv
<1> QED
  BY <1>1, <1>2, <1>3, <1>4, <1>5, <1>6, <1>7, <1>8 DEF Next, Store, Quitting

(* What reached the disk stays: no later save, load, failure or reload     *)
(* writes a document without it; and the dot is idle, with no PUT on its   *)
(* way, only over a document the disk holds.  For any number of edits and  *)
(* requests, as long as requests are handled in the order they were sent   *)
(* (workspaceStore.js).                                                    *)
THEOREM SavesHoldEver == ASSUME Prompt PROVE Spec => SavesHold
<1>1. Init => SaveInv /\ DotInv
  BY SaveInitOK DEF Init, DotInv
<1>2. SaveInv /\ DotInv /\ [Next]_vars => (SaveInv /\ DotInv)'
  BY SaveStepKeeps, DotStepKeeps
<1>3. SaveInv /\ [Next]_vars => [SavedStays]_vars
  BY SaveStepKeeps DEF SavedStays
<1>4. SaveInv /\ DotInv => IdleIsSaved
  <2> SUFFICES ASSUME SaveInv, DotInv, loaded = "yes", armed, saveState = "idle", Puts = {} PROVE doc = server
    BY DEF IdleIsSaved
  <2>1. NoPut(wire) /\ ~LastPut(wire, doc)
    BY DEF NoPut, LastPut, Puts
  <2> QED
    BY <2>1 DEF DotInv, Settled
<1> QED
  BY <1>1, <1>2, <1>3, <1>4, PTL DEF Spec, SavesHold

-----------------------------------------------------------------------------
(* Price checks.  While a check that will be noticed is under way, it is   *)
(* the burst that watches for its item, with a baseline that is not it, or *)
(* the fast poll, which saw something else last and which no key slows     *)
(* down any more.                                                          *)
Coming == flow.pc \in {"pressed", "cleared", "shown"} /\ flow.due
BurstWatches ==
    \/ burst.pc = "base" /\ flow.pc = "pressed"
    \/ burst.pc = "on" /\ burst.base # flow.item
PollWatches ==
    /\ poll.pc = "on" /\ poll.fast /\ poll.at # flow.item
    /\ hook.ok /\ ~hook.deaf => hook.saw
    /\ flow.pc = "pressed" => poll.at = board
Watched(x) == last # x /\ (BurstWatches \/ PollWatches)

Board == Items \cup {Text, Nothing}
Cadence == [pc : {"off", "seeding", "on"}, fast : BOOLEAN, at : Board]
Keyboard == [ok : BOOLEAN, deaf : BOOLEAN, saw : BOOLEAN, timer : BOOLEAN, combo : {0, 1}, changed : BOOLEAN]
Reads == [pc : {"off", "base", "on"}, base : Board, got : BOOLEAN]
Flow == [pc : {"idle", "pressed", "cleared", "shown"}, item : Board, prev : Board, due : BOOLEAN]
Presence == [here : BOOLEAN, combo : {0, 1}]
ClipTypes ==
    /\ ee2 \in Presence /\ board \in Board /\ hook \in Keyboard
    /\ poll \in Cadence /\ burst \in Reads /\ flow \in Flow

ItemNoticed ==
    /\ flow.pc # "idle" => flow.item \in Items
    /\ Coming => \/ Watched(flow.item)
                 \/ flow.pc = "shown" /\ flow.item \notin unreported
    /\ Coming /\ flow.pc = "pressed" => board # flow.item /\ (burst.pc = "on" => burst.base = board)
    /\ Coming /\ flow.pc = "cleared" => board = Nothing
    /\ Coming /\ flow.pc = "shown" => board = flow.item
    /\ flow.pc = "idle" /\ flow.due => flow.item \notin unreported

ClipInv == ClipTypes /\ ItemNoticed

LEMMA ClipInitOK == ClipInit => ClipInv
  BY DEF ClipInit, ClipInv, ClipTypes, ItemNoticed, Coming, Board, Cadence, Keyboard, Reads, Flow, Presence, NoHook, NoPoll, NoBurst, NoFlow

LEMMA TypesKept == ClipTypes /\ [ClipNext]_clipVars => ClipTypes'
<1> SUFFICES ASSUME ClipTypes, [ClipNext]_clipVars PROVE ClipTypes'
  OBVIOUS
<1> USE DEF ClipTypes
<1>1. CASE Detects \/ LastFades \/ UNCHANGED clipVars
  BY <1>1 DEF Detects, LastFades, clipVars, observers
<1>2. CASE EvaluatePresence
  <2>1. flow' \in Flow
    BY <1>2 DEF EvaluatePresence, Flow
  <2>2. UNCHANGED <<ee2, board, burst>>
    BY <1>2 DEF EvaluatePresence, Activated, Deactivated, observers, Hooking, Shortcuts, Paced
  <2>3. UNCHANGED <<hook, poll>> \/ Deactivated \/ \E ok, deaf, mac \in BOOLEAN : Activated(ok, deaf, mac)
    BY <1>2 DEF EvaluatePresence, observers
  <2>4. NoHook \in Keyboard /\ NoPoll \in Cadence
    BY DEF NoHook, Keyboard, NoPoll, Cadence, Board
  <2>5. ASSUME NEW ok \in BOOLEAN, NEW deaf \in BOOLEAN, NEW mac \in BOOLEAN, Activated(ok, deaf, mac)
        PROVE  hook' \in Keyboard /\ poll' \in Cadence
    <3>1. hook' = [ok |-> ok, deaf |-> deaf, saw |-> FALSE, timer |-> ok /\ mac, combo |-> IF ok THEN ee2.combo ELSE 0, changed |-> FALSE]
      BY <2>5 DEF Activated, NoHook, Hooking, Shortcuts, Paced
    <3>2. poll' = [pc |-> "seeding", fast |-> ~ok, at |-> Nothing]
      BY <2>5 DEF Activated, NoPoll, Hooking, Shortcuts, Paced
    <3>3. ee2.combo \in {0, 1}
      BY DEF Presence
    <3> QED
      BY <3>1, <3>2, <3>3 DEF Keyboard, Cadence, Board
  <2> QED
    BY <2>1, <2>2, <2>3, <2>4, <2>5 DEF Deactivated
<1>3. CASE FirstKey
  <2>1. hook' \in Keyboard
    BY <1>3 DEF FirstKey, Keyboard
  <2>2. poll' \in Cadence
    BY <1>3 DEF FirstKey, Relaxed, Cadence, Paced
  <2> QED
    BY <1>3, <2>1, <2>2 DEF FirstKey
<1>4. CASE HealthTimer
  <2>1. hook' \in Keyboard
    BY <1>4 DEF HealthTimer, Keyboard, Paced
  <2>2. poll' \in Cadence
    BY <1>4 DEF HealthTimer, Cadence, Paced
  <2> QED
    BY <1>4, <2>1, <2>2 DEF HealthTimer, Paced
<1>5. CASE Realigns
  BY <1>5 DEF Realigns, RealignsHook, Keyboard, Presence, Hooking, Shortcuts
<1>6. CASE Rebinds
  <2>1. ee2' \in Presence
    BY <1>6 DEF Rebinds, Presence
  <2>2. hook' \in Keyboard
    BY <1>6 DEF Rebinds, Keyboard
  <2> QED
    BY <1>6, <2>1, <2>2 DEF Rebinds
<1>7. CASE ComesOrGoes
  BY <1>7 DEF ComesOrGoes, observers, Presence
<1>8. CASE Seeds \/ Ticks
  BY <1>8 DEF Seeds, Ticks, Cadence, IsItem
<1>9. CASE Baseline \/ Captures \/ BurstEnds
  <2>1. burst' = NoBurst \/ burst' = [burst EXCEPT !.pc = "on", !.base = board]
    BY <1>9 DEF Baseline, Captures, BurstEnds
  <2>2. NoBurst \in Reads /\ [burst EXCEPT !.pc = "on", !.base = board] \in Reads
    BY DEF NoBurst, Reads, Board
  <2> QED
    BY <1>9, <2>1, <2>2 DEF Baseline, Captures, BurstEnds
<1>10. CASE Clears \/ GameCopies \/ Restores
  <2>1. flow' \in Flow
    BY <1>10 DEF Clears, GameCopies, Restores, Flow
  <2>2. board' \in Board
    BY <1>10 DEF Clears, GameCopies, Restores, Flow, Board
  <2> QED
    BY <1>10, <2>1, <2>2 DEF Clears, GameCopies, Restores, observers
<1>11. ASSUME NEW x \in Items, Press(x) PROVE ClipTypes'
  <2>1. Noticed(x) \in BOOLEAN /\ x \in Board
    BY DEF Noticed, Hears, Board
  <2>2. flow' \in Flow
    BY <1>11, <2>1 DEF Press, Flow
  <2>3. burst' \in Reads
    BY <1>11 DEF Press, NoBurst, Reads, Board
  <2> QED
    BY <1>11, <2>2, <2>3 DEF Press
<1>12. ASSUME NEW x \in Items \cup {Text}, PlayerCopies(x) PROVE ClipTypes'
  BY <1>12 DEF PlayerCopies, NoFlow, observers, Flow, Board
<1> QED
  BY <1>1, <1>2, <1>3, <1>4, <1>5, <1>6, <1>7, <1>8, <1>9, <1>10, <1>11, <1>12 DEF ClipNext

(* Reporting an item takes it off the list, whether now or before.         *)
LEMMA ReportTakes ==
    ASSUME NEW x, NEW y, Reports(x)
    PROVE  /\ y # x => last' = last \/ last' # y
           /\ y \notin unreported => y \notin unreported'
           /\ last # x => x \notin unreported'
  BY DEF Reports

LEMMA ItemStaysNoticed == ClipInv /\ [ClipNext]_clipVars => ItemNoticed'
<1> SUFFICES ASSUME ClipTypes, ItemNoticed, [ClipNext]_clipVars PROVE ItemNoticed'
  BY DEF ClipInv
<1> USE DEF ClipTypes, Cadence, Keyboard, Reads, Flow, ItemNoticed, Coming, Watched, BurstWatches, PollWatches
<1>1. CASE Detects \/ LastFades \/ UNCHANGED clipVars
  BY <1>1 DEF Detects, LastFades, clipVars, observers
<1>2. CASE EvaluatePresence
  BY <1>2 DEF EvaluatePresence, observers
<1>3. CASE FirstKey
  BY <1>3 DEF FirstKey, Relaxed, Paced
<1>4. CASE HealthTimer \/ Realigns
  <2>1. UNCHANGED <<flow, burst, board, last, unreported>>
    BY <1>4 DEF HealthTimer, Realigns, Paced
  <2>2. hook'.ok = hook.ok /\ hook'.deaf = hook.deaf /\ hook'.saw = hook.saw
    <3>1. CASE HealthTimer
      BY <3>1 DEF HealthTimer
    <3>2. CASE Realigns
      BY <3>2 DEF Realigns, RealignsHook, Hooking
    <3> QED
      BY <1>4, <3>1, <3>2
  <2>3. poll'.pc = poll.pc /\ poll'.at = poll.at /\ (poll.fast => poll'.fast)
    BY <1>4 DEF HealthTimer, Realigns, Paced
  <2> QED
    BY <2>1, <2>2, <2>3
<1>5. CASE Rebinds \/ ComesOrGoes
  BY <1>5 DEF Rebinds, ComesOrGoes, observers
<1>6. CASE Seeds \/ Baseline \/ BurstEnds
  <2>1. CASE Seeds
    BY <2>1 DEF Seeds
  <2>2. CASE Baseline
    BY <2>2 DEF Baseline
  <2>3. CASE BurstEnds
    BY <2>3 DEF BurstEnds, NoBurst
  <2> QED
    BY <1>6, <2>1, <2>2, <2>3
<1>7. CASE Ticks
  <2>1. CASE board \in Items
    <3>1. Reports(board)
      BY <1>7, <2>1 DEF Ticks, IsItem
    <3> QED
      BY <1>7, <2>1, <3>1, ReportTakes, ItemsAssumption DEF Ticks, TickDue, Nothing, IsItem
  <2>2. CASE board \notin Items
    BY <1>7, <2>2 DEF Ticks, TickDue, IsItem
  <2> QED
    BY <2>1, <2>2
<1>8. CASE Captures
  BY <1>8, ReportTakes, ItemsAssumption DEF Captures, CaptureDue, NoBurst, Nothing, IsItem
<1>9. CASE Clears
  BY <1>9 DEF Clears, observers
<1>10. CASE GameCopies
  BY <1>10 DEF GameCopies, observers
<1>11. CASE Restores
  BY <1>11, ItemsAssumption DEF Restores, CaptureDue, TickDue, observers, Nothing, IsItem
<1>12. ASSUME NEW x \in Items, Press(x) PROVE ItemNoticed'
  BY <1>12 DEF Press, Noticed, Hears, NoBurst
<1>13. ASSUME NEW x \in Items \cup {Text}, PlayerCopies(x) PROVE ItemNoticed'
  BY <1>13 DEF PlayerCopies, NoFlow, observers
<1> QED
  BY <1>1, <1>2, <1>3, <1>4, <1>5, <1>6, <1>7, <1>8, <1>9, <1>10, <1>11, <1>12, <1>13 DEF ClipNext

(* A check that the hook or the fast poll could see is reported, for any   *)
(* items and any number of checks, copies and comings of ExiledExchange2   *)
(* (clipboard-watcher.js, hotkey-watcher.js).                              *)
THEOREM EveryCheckCapturedEver == ClipInit /\ [][ClipNext]_clipVars => []EveryCheckCaptured
<1>1. ClipInit => ClipInv
  BY ClipInitOK
<1>2. ClipInv /\ [ClipNext]_clipVars => ClipInv'
  BY TypesKept, ItemStaysNoticed DEF ClipInv
<1>3. ClipInv => EveryCheckCaptured
  BY DEF ClipInv, ItemNoticed, EveryCheckCaptured
<1> QED
  BY <1>1, <1>2, <1>3, PTL
=============================================================================
