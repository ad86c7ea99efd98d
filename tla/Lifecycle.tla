------------------------------ MODULE Lifecycle ------------------------------
(***************************************************************************)
(* The desktop shell around the page (desktop/src/main.js): it starts the  *)
(* bundled backend and starts it again when it dies (respawn.js), runs the *)
(* updater, stops the backend to install an update or to quit, and signs   *)
(* the user in to the trade site (poelogin.js).  The update chip of the    *)
(* page is UpdateStatus.jsx, the Connect button session.js.                *)
(*                                                                         *)
(* Windows: updates are downloaded and installed in place.  Time passes    *)
(* only where a delay may end; a backend that dies ran for a minute or not. *)
(***************************************************************************)
EXTENDS Integers, FiniteSets

CONSTANTS MaxStarts, MaxDelay,     \* in doublings of the first second
          MaxChecks, MaxLogins,
          Closing      \* when the user may close the login window: on the "page",
                       \* while its "cookie" is read, while that is "posting"

VARIABLES app,        \* "booting", "running", "quitting", "gone"
          alive,      \* backend processes that run, by number
          exits,      \* processes whose end was not told yet
          proc,       \* backendProc: the process to kill, 0 for none
          starts, delay, waiting, stopped, stopping,    \* the respawner's, backendStopping
          bound,      \* did the first start bind in time: backendUrl is set either way
          latest,     \* the site's answer to an update check under way
          current,    \* does a release newer than this build exist?
          downloaded, \* is an update on disk, ready to install?
          chip,       \* what the page's chip shows
          installing, flushed,
          lastAnswer, \* history: what the last finished check found
          checks,
          login,      \* the login window
          site, posted, loginVerdict, logins

lifeVars == <<app, alive, exits, proc, starts, delay, waiting, stopped, stopping, bound, latest, current, downloaded,
              chip, installing, flushed, lastAnswer, checks, login, site, posted, loginVerdict, logins>>
backendVars == <<alive, exits, proc, starts, delay, waiting, stopped, stopping, bound>>
updateVars  == <<latest, current, downloaded, chip, lastAnswer, checks>>
loginVars   == <<login, site, posted, loginVerdict, logins>>

NoLogin == [at |-> "none", open |-> FALSE]
Up == app \in {"booting", "running", "quitting"}

LifeInit ==
    /\ app = "booting" /\ alive = {1} /\ exits = {} /\ proc = 1 /\ starts = 1
    /\ delay = 0 /\ waiting = FALSE /\ stopped = FALSE /\ stopping = FALSE /\ bound = FALSE
    /\ latest = "none" /\ current \in BOOLEAN /\ downloaded = FALSE /\ chip = "idle"
    /\ installing = FALSE /\ flushed = FALSE /\ lastAnswer = "none" /\ checks = 0
    /\ login = NoLogin /\ site \in {"signedIn", "signedOut"} /\ posted = FALSE /\ loginVerdict = "none" /\ logins = 0

-----------------------------------------------------------------------------
(* The backend and its respawner. *)

\* A process ends, by a crash or because it was killed.  One that never started
\* ends likewise: `error` without a pid counts as an exit, once.
BackendDies ==
    /\ Up /\ \E p \in alive : alive' = alive \ {p} /\ exits' = exits \cup {p}
    /\ UNCHANGED <<app, proc, starts, delay, waiting, stopped, stopping, bound, installing, flushed, updateVars, loginVars>>

\* exited(): no restart of what was asked for; else one is scheduled and the next
\* wait doubles, from the first again when this one had run for a minute.
restarts == ~(stopping \/ stopped)

doubled(long) == LET d == IF long THEN 0 ELSE delay IN IF d < MaxDelay THEN d + 1 ELSE MaxDelay

ExitTold(p) ==
    /\ Up /\ p \in exits /\ exits' = exits \ {p}
    /\ proc' = 0
    /\ IF restarts THEN waiting' = TRUE /\ \E long \in BOOLEAN : delay' = doubled(long)
                   ELSE UNCHANGED <<waiting, delay>>
    /\ UNCHANGED <<app, alive, starts, stopped, stopping, bound, installing, flushed, updateVars, loginVars>>

\* The wait is over: a process is spawned, or the spawn throws and counts as one
\* that has died.
givenUp    == FALSE                                                        \* mutant
afterThrow == restarts

Restarts ==
    /\ Up /\ waiting /\ starts < MaxStarts /\ starts' = starts + 1
    /\ \/ /\ waiting' = FALSE /\ alive' = alive \cup {starts'} /\ proc' = starts' /\ UNCHANGED delay
       \/ /\ waiting' = afterThrow /\ delay' = (IF afterThrow THEN doubled(FALSE) ELSE delay)
          /\ proc' = 0 /\ UNCHANGED alive
    /\ UNCHANGED <<app, exits, stopped, stopping, bound, installing, flushed, updateVars, loginVars>>

\* Two minutes at most; the window opens whatever came of it.
waitFor == alive # {}
BootEnds ==
    /\ app = "booting" /\ app' = "running"
    /\ bound' = waitFor
    /\ UNCHANGED <<alive, exits, proc, starts, delay, waiting, stopped, stopping, installing, flushed, updateVars, loginVars>>

\* stopBackend(): a restart that waits is dropped for good, the process is killed.
keepWaiting == waiting                                                    \* mutant: the timer is not cancelled
dropWaiting == FALSE

Stopped ==
    /\ stopped' = TRUE /\ waiting' = dropWaiting
    /\ stopping' = (stopping \/ proc # 0)
    /\ alive' = alive \ {proc} /\ exits' = exits \cup (alive \cap {proc})
    /\ proc' = 0

-----------------------------------------------------------------------------
(* Updates. *)

chipShows(phase) == chip' = IF app = "running" THEN phase ELSE chip

\* At startup, every half hour, from the chip, the menu, and a change of channel.
Checks ==
    /\ app = "running" /\ latest = "none" /\ checks < MaxChecks /\ checks' = checks + 1
    /\ latest' = "asked" /\ chipShows("checking")
    /\ UNCHANGED <<app, backendVars, current, downloaded, lastAnswer, installing, flushed, loginVars>>

\* An empty channel, and no network, are answered like the newest version.
benignErrors == {"noChannel", "offline"}

CheckAnswered ==
    /\ app = "running" /\ latest = "asked"
    /\ \/ /\ current /\ latest' = "none" /\ lastAnswer' = "none-newer" /\ chipShows("none") /\ UNCHANGED downloaded
       \/ /\ ~current /\ latest' = "loading" /\ lastAnswer' = "newer" /\ chipShows("downloading") /\ UNCHANGED downloaded
       \/ \E e \in benignErrors \cup {"broken"} :
            /\ latest' = "none" /\ lastAnswer' = e /\ chipShows(IF e \in benignErrors THEN "none" ELSE "error")
            /\ UNCHANGED downloaded
    /\ UNCHANGED <<app, backendVars, current, checks, installing, flushed, loginVars>>

Downloaded ==
    /\ app = "running" /\ latest = "loading" /\ latest' = "none"
    /\ \/ downloaded' = TRUE /\ chipShows("ready") /\ UNCHANGED lastAnswer
       \/ UNCHANGED downloaded /\ \E e \in {"offline", "broken"} : lastAnswer' = e /\ chipShows(IF e \in benignErrors THEN "none" ELSE "error")
    /\ UNCHANGED <<app, backendVars, current, checks, installing, flushed, loginVars>>

\* A newer release is published.
Published ==
    /\ Up /\ current /\ current' = FALSE
    /\ UNCHANGED <<app, backendVars, latest, downloaded, chip, lastAnswer, checks, installing, flushed, loginVars>>

\* A reloaded page knows of no update until the next event.
Reloads ==
    /\ app = "running" /\ chip # "idle" /\ chip' = "idle"
    /\ UNCHANGED <<app, backendVars, latest, current, downloaded, lastAnswer, checks, installing, flushed, loginVars>>

\* The flush is asked for, not waited for; the backend goes first, for it would
\* lock the folder; then, after 400 ms, the installer.
Install ==
    /\ app = "running" /\ chip = "ready" /\ ~installing /\ installing' = TRUE /\ flushed' = TRUE
    /\ Stopped
    /\ UNCHANGED <<app, starts, delay, bound, updateVars, loginVars>>

InstallerRuns ==
    /\ app = "running" /\ installing /\ installing' = FALSE
    /\ \/ app' = "gone" /\ UNCHANGED chip
       \/ UNCHANGED app /\ chipShows("error")
    /\ UNCHANGED <<backendVars, latest, current, downloaded, lastAnswer, checks, flushed, loginVars>>

\* Quitting is put off once for the flush; both listeners run, so the backend is
\* stopped at the first attempt already.
Quits ==
    /\ app = "running"
    /\ app' = (IF flushed THEN "gone" ELSE "quitting") /\ Stopped
    /\ UNCHANGED <<starts, delay, bound, updateVars, installing, flushed, loginVars>>

QuitsForReal ==
    /\ app = "quitting" /\ flushed' = TRUE /\ app' = "gone"
    /\ UNCHANGED <<backendVars, updateVars, installing, loginVars>>

-----------------------------------------------------------------------------
(* Signing in: a page that says it is signed in is looked for; its cookie is *)
(* handed to the backend, once.                                             *)

Connect ==
    /\ app = "running" /\ login = NoLogin /\ logins < MaxLogins /\ logins' = logins + 1
    /\ login' = [at |-> "page", open |-> TRUE]
    /\ posted' = FALSE /\ loginVerdict' = "waits"
    /\ UNCHANGED <<app, backendVars, updateVars, installing, flushed, site>>

\* The user signs in on the page.
SignsIn ==
    /\ login.open /\ site = "signedOut" /\ site' = "signedIn"
    /\ UNCHANGED <<app, backendVars, updateVars, installing, flushed, login, posted, loginVerdict, logins>>

\* A page with the log-out link; the probe is awaited, then the cookie.
Probed ==
    /\ login.at = "page" /\ login.open /\ site = "signedIn"
    /\ login' = [login EXCEPT !.at = "cookie"]
    /\ UNCHANGED <<app, backendVars, updateVars, installing, flushed, site, posted, loginVerdict, logins>>

CookieRead ==
    /\ login.at = "cookie" /\ login' = [login EXCEPT !.at = "posting"]
    /\ UNCHANGED <<app, backendVars, updateVars, installing, flushed, site, posted, loginVerdict, logins>>

\* The first result is the verdict.
finish(r) == loginVerdict' = IF loginVerdict = "waits" THEN r ELSE loginVerdict

Posted ==
    /\ login.at = "posting" /\ login' = NoLogin
    /\ \/ alive # {} /\ posted' = TRUE /\ finish("connected")
       \/ UNCHANGED posted /\ finish("refused")
    /\ UNCHANGED <<app, backendVars, updateVars, installing, flushed, site, logins>>

\* Closing the window is a verdict only before the sign-in was seen.
confirmed == login.at = "posting"

ClosesLogin ==
    /\ login.open /\ login.at \in Closing
    /\ login' = IF login.at = "page" THEN NoLogin ELSE [login EXCEPT !.open = FALSE]
    /\ IF confirmed THEN UNCHANGED loginVerdict ELSE finish("closed")
    /\ UNCHANGED <<app, backendVars, updateVars, installing, flushed, site, posted, logins>>

LifeNext ==
    \/ BackendDies \/ (\E p \in exits : ExitTold(p)) \/ Restarts \/ BootEnds
    \/ Checks \/ CheckAnswered \/ Downloaded \/ Published \/ Reloads \/ Install \/ InstallerRuns \/ Quits \/ QuitsForReal
    \/ Connect \/ SignsIn \/ Probed \/ CookieRead \/ Posted \/ ClosesLogin
LifeSpec == LifeInit /\ [][LifeNext]_lifeVars

-----------------------------------------------------------------------------
\* There is one backend at most, running, dying or waiting to be started; and once
\* it was stopped, for an update or to quit, none is started again (respawn.js
\* "never after stopBackend()"), whatever died or was waited for at that moment.
OneBackend ==
    /\ Cardinality(alive) + (IF waiting THEN 1 ELSE 0) <= 1
    /\ stopped => alive = {} /\ ~waiting
    /\ \A p \in alive : proc = p

\* A backend that dies while nothing stops it is replaced: /api is not lost until
\* the user relaunches.
BackendComesBack == (app = "running" /\ alive = {} /\ starts < MaxStarts) ~> (alive # {} \/ stopped \/ starts = MaxStarts)

\* The Connect button's verdict is the backend's: a session it took is never
\* reported as a login that was given up.
VerdictIsTrue == login = NoLogin /\ posted => loginVerdict = "connected"

\* The shell's own word can be relied on: about its backend and about a login.
ShellHolds == OneBackend /\ VerdictIsTrue

\* UpdateStatus.jsx: the tick "marks that the last check found us current".
TickIsTrue == chip = "none" => lastAnswer = "none-newer"
=============================================================================
