------------------------------- MODULE LivePings -------------------------------
(***************************************************************************)
(* From a live search's message to the button the user travels with: the   *)
(* engine fetches what was announced (desktop/src/trade/engine.js), the    *)
(* page keeps a list of pings (frontend/src/lib/pingStore.js) and alerts   *)
(* (liveWiring.js), and the Live view shows one button for the newest ping *)
(* and one for each recent one (LiveView.jsx, PingButton.jsx), each with a *)
(* machine of its own (pingMachine.js).                                    *)
(*                                                                         *)
(* A ping is its listing: pings of one listing are told apart by nothing   *)
(* the store looks at.  What an item costs, who sells it and how the       *)
(* banner looks are left out.                                              *)
(***************************************************************************)
EXTENDS Integers, Sequences, FiniteSets, SequencesExt, Functions

CONSTANTS Listings, Watches,
          FetchChunk,     \* listings a fetch asks for
          PingsMax,       \* MAX: pings kept
          Recent,         \* rows under the newest ping
          MaxMessages, MaxClicks, MaxLiveVisits, MaxClears

VARIABLES fetches,    \* fetches under way: [of, left], a chunk at a time
          pingWire,       \* pings under way from main to the page, in order
          pings, seen, unseen,
          alerted,    \* history: how often each listing was alerted
          buttons,    \* the buttons on screen, by place: 0 the newest ping's,
                      \* which has no key, a listing's own for the recent rows
          posts,      \* whispers under way: the listing, and the place clicked
          dead,       \* listings whose token is past its life
          viewed, messages, clicks, liveVisits, clears

pingVars == <<fetches, pingWire, pings, seen, unseen, alerted, buttons, posts, dead, viewed, messages, clicks, liveVisits, clears>>

NewestPlace == "newest"
Nowhere     == "nowhere"

-----------------------------------------------------------------------------
(* The machine of a button (pingMachine.js). *)

enabled(m) == m.state \in {"fresh", "stale"}

answered(m, event, l) ==
    LET to == CASE event = "SEND"   /\ enabled(m) -> "sending"
                [] event = "EXPIRE" /\ enabled(m) -> "expired"
                [] event = "GONE"   /\ m.state \in {"fresh", "stale", "pending", "expired"} -> "gone"
                [] event = "OK"     /\ m.state = "sending" -> "pending"
                [] event = "FALSE"  /\ m.state = "sending" -> "gone"
                [] event = "RATE"   /\ m.state = "sending" -> "rateLimited"
                [] event = "ERR"    /\ m.state = "sending" -> "stale"
                [] OTHER -> m.state
    IN IF to = m.state THEN m ELSE [state |-> to, of |-> l]

\* The effects of a button that shows a ping it did not show before.
shows(m, l) == IF l \in dead THEN answered(m, "EXPIRE", l) ELSE m
mounted(l)  == shows([state |-> "fresh", of |-> l], l)

-----------------------------------------------------------------------------
(* What the Live view renders (LiveView.jsx). *)

shownAt(list) == [p \in {NewestPlace} |-> Head(list)] @@ [l \in ToSet(SubSeq(list, 2, IF Len(list) < 1 + Recent THEN Len(list) ELSE 1 + Recent)) |-> l]

rendered(list) ==
    IF ~viewed \/ list = <<>> THEN <<>>
    ELSE LET at == shownAt(list)
         IN [p \in DOMAIN at |->
                IF p \notin DOMAIN buttons THEN mounted(at[p])
                ELSE IF at[p] # (shownAt(pings))[p] THEN shows(buttons[p], at[p]) ELSE buttons[p]]

\* An answer to a button that is gone goes nowhere.
stillThere(bs) == {IF p.place \in DOMAIN bs THEN p ELSE [p EXCEPT !.place = Nowhere] : p \in posts}

-----------------------------------------------------------------------------
PingsInit ==
    /\ fetches = {} /\ pingWire = <<>> /\ pings = <<>> /\ seen = {} /\ unseen = 0
    /\ alerted = [l \in Listings |-> 0] /\ buttons = <<>> /\ posts = {} /\ dead = {}
    /\ viewed = FALSE /\ messages = 0 /\ clicks = 0 /\ liveVisits = 0 /\ clears = 0

\* A live search announces listings.  Two searches may announce the same one.
MessageComes(w) ==
    /\ messages < MaxMessages /\ messages' = messages + 1
    /\ \E ids \in {s \in SeqOf(Listings, 2) : s # <<>> /\ IsInjective(s)} :
          fetches' = fetches \cup {[of |-> w, nth |-> messages, left |-> ids]}
    /\ UNCHANGED <<pingWire, pings, seen, unseen, alerted, buttons, posts, dead, viewed, clicks, liveVisits, clears>>

\* A chunk is answered with those still listed, each a ping of its own.
ChunkFetched(f) ==
    LET n == IF Len(f.left) < FetchChunk THEN Len(f.left) ELSE FetchChunk
    IN /\ \E still \in SUBSET ToSet(SubSeq(f.left, 1, n)) :
             pingWire' = pingWire \o SelectSeq(SubSeq(f.left, 1, n), LAMBDA l : l \in still)
       /\ fetches' = (fetches \ {f}) \cup (IF n = Len(f.left) THEN {} ELSE {[f EXCEPT !.left = SubSeq(@, n + 1, Len(@))]})
       /\ UNCHANGED <<pings, seen, unseen, alerted, buttons, posts, dead, viewed, messages, clicks, liveVisits, clears>>

\* A refused fetch, by the budget or with a 429, drops what is left of its message.
FetchRefused(f) ==
    /\ fetches' = fetches \ {f}
    /\ UNCHANGED <<pingWire, pings, seen, unseen, alerted, buttons, posts, dead, viewed, messages, clicks, liveVisits, clears>>

\* The store takes a listing once and keeps the newest PingsMax; the page alerts
\* when the list has grown.
addPing(l) == LET all == <<l>> \o pings IN IF Len(all) > PingsMax THEN SubSeq(all, 1, PingsMax) ELSE all
rememberedWhileListed(list, l) == (seen \cup {l}) \cap ToSet(list)         \* mutant
remembered(list, l) == seen \cup {l}

PingArrives ==
    /\ pingWire # <<>> /\ pingWire' = Tail(pingWire)
    /\ LET l == Head(pingWire)
           list == IF l \in seen THEN pings ELSE addPing(l)
       IN /\ pings' = list
          /\ seen' = remembered(list, l)
          /\ unseen' = IF l \in seen THEN unseen ELSE unseen + 1
          /\ alerted' = IF Len(list) = Len(pings) THEN alerted ELSE [alerted EXCEPT ![l] = @ + 1]
          /\ buttons' = rendered(list)
          /\ posts' = stillThere(rendered(list))
    /\ UNCHANGED <<fetches, dead, viewed, messages, clicks, liveVisits, clears>>

\* Entering Live clears the badge; leaving it drops the buttons.
OpenLive ==
    /\ ~viewed /\ liveVisits < MaxLiveVisits /\ liveVisits' = liveVisits + 1
    /\ viewed' = TRUE /\ unseen' = 0
    /\ buttons' = IF pings = <<>> THEN <<>> ELSE [p \in DOMAIN shownAt(pings) |-> mounted((shownAt(pings))[p])]
    /\ UNCHANGED <<fetches, pingWire, pings, seen, alerted, posts, dead, messages, clicks, clears>>

LeaveLive ==
    /\ viewed /\ viewed' = FALSE
    /\ buttons' = <<>> /\ posts' = stillThere(<<>>)
    /\ UNCHANGED <<fetches, pingWire, pings, seen, unseen, alerted, dead, messages, clicks, liveVisits, clears>>

\* The Clear button: what was seen stays seen.
Clear ==
    /\ viewed /\ pings # <<>> /\ clears < MaxClears /\ clears' = clears + 1
    /\ pings' = <<>> /\ unseen' = 0
    /\ buttons' = <<>> /\ posts' = stillThere(<<>>)
    /\ UNCHANGED <<fetches, pingWire, seen, alerted, dead, viewed, messages, clicks, liveVisits>>

\* One click, one whisper, with the token of the ping the button shows.
Travel(p) ==
    /\ enabled(buttons[p]) /\ clicks < MaxClicks /\ clicks' = clicks + 1
    /\ LET l == (shownAt(pings))[p]
       IN /\ buttons' = [buttons EXCEPT ![p] = answered(@, "SEND", l)]
          /\ posts' = posts \cup {[of |-> l, place |-> p, nth |-> clicks]}
    /\ UNCHANGED <<fetches, pingWire, pings, seen, unseen, alerted, dead, viewed, messages, liveVisits, clears>>

\* Travelling, sold, rate limited or failed.  The answer goes to the button that
\* was clicked, whatever ping it shows by now.
WhisperAnswered(post) ==
    /\ posts' = posts \ {post}
    /\ \E event \in {"OK", "FALSE", "RATE", "ERR"} :
          buttons' = IF post.place = Nowhere THEN buttons ELSE [buttons EXCEPT ![post.place] = answered(@, event, post.of)]
    /\ UNCHANGED <<fetches, pingWire, pings, seen, unseen, alerted, dead, viewed, messages, clicks, liveVisits, clears>>

\* A token's five minutes are over: the button that shows it is told, once.
TokenDies(l) ==
    /\ l \in seen \ dead /\ dead' = dead \cup {l}
    /\ buttons' = [p \in DOMAIN buttons |-> IF (shownAt(pings))[p] = l THEN answered(buttons[p], "EXPIRE", l) ELSE buttons[p]]
    /\ UNCHANGED <<fetches, pingWire, pings, seen, unseen, alerted, posts, viewed, messages, clicks, liveVisits, clears>>

\* The machine's own delays: 45 s to stale, 30 s of a rate limit.
GoesStale(p) ==
    /\ buttons[p].state = "fresh" /\ buttons' = [buttons EXCEPT ![p].state = "stale"]
    /\ UNCHANGED <<fetches, pingWire, pings, seen, unseen, alerted, posts, dead, viewed, messages, clicks, liveVisits, clears>>

LimitEnds(p) ==
    /\ buttons[p].state = "rateLimited" /\ buttons' = [buttons EXCEPT ![p].state = "fresh"]
    /\ UNCHANGED <<fetches, pingWire, pings, seen, unseen, alerted, posts, dead, viewed, messages, clicks, liveVisits, clears>>

PingsNext ==
    \/ \E w \in Watches : MessageComes(w)
    \/ \E f \in fetches : ChunkFetched(f) \/ FetchRefused(f)
    \/ PingArrives \/ OpenLive \/ LeaveLive \/ Clear
    \/ \E p \in DOMAIN buttons : Travel(p) \/ GoesStale(p) \/ LimitEnds(p)
    \/ \E post \in posts : WhisperAnswered(post)
    \/ \E l \in Listings : TokenDies(l)

-----------------------------------------------------------------------------
\* A listing is alerted at most once, whichever searches announce it, however
\* often, and whatever was cleared or pushed out of the list since (pingStore.js
\* "deduped by listingId so a burst doesn't machine-gun").
AlertedOnce == \A l \in Listings : alerted[l] <= 1

\* liveWiring.js: the page "turns each ping into a store entry plus a notify".
EveryPingAlerts == [][\A l \in seen' \ seen : alerted'[l] > 0]_pingVars

\* pingMachine.js: "the button/orb always reflect a real state": of the newest
\* ping's button, what was sent, sold or expired is the ping it shows.
NewestTellsOfItsPing ==
    NewestPlace \in DOMAIN buttons /\ buttons[NewestPlace].state \in {"sending", "pending", "gone", "expired"}
        => buttons[NewestPlace].of = Head(pings)
=============================================================================
