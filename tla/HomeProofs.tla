----------------------------- MODULE HomeProofs -----------------------------
(* The shell's backend, its login window and its reports, for any number   *)
(* of restarts, logins, screens and kept files.                            *)
EXTENDS Lifecycle, Feedback, Stash, FiniteSetTheorems, SequenceTheorems, TLAPS

(* A process runs, or one has died and its end was not told, or a restart  *)
(* waits: never two of the three, and none but an end once it was stopped. *)
Backend ==
    /\ alive \subseteq {proc}
    /\ alive = {} \/ exits = {}
    /\ \A p, q \in exits : p = q
    /\ waiting \in BOOLEAN /\ (waiting => alive = {} /\ exits = {})
    /\ stopped \in BOOLEAN /\ (stopped => alive = {} /\ ~waiting)

THEOREM BackendKept == LifeSpec => []Backend
<1>1. LifeInit => Backend
  BY DEF LifeInit, Backend
<1>2. Backend /\ [LifeNext]_lifeVars => Backend'
  <2> SUFFICES ASSUME Backend, [LifeNext]_lifeVars PROVE Backend'
    OBVIOUS
  <2> USE DEF Backend, backendVars
  <2>1. CASE BackendDies
    BY <2>1 DEF BackendDies
  <2>2. ASSUME NEW p \in exits, ExitTold(p) PROVE Backend'
    BY <2>2 DEF ExitTold, restarts
  <2>3. CASE Restarts
    <3>1. CASE waiting' = FALSE /\ alive' = alive \cup {starts'} /\ proc' = starts'
      BY <2>3, <3>1 DEF Restarts
    <3>2. CASE waiting' = afterThrow /\ proc' = 0 /\ UNCHANGED alive
      BY <2>3, <3>2 DEF Restarts, afterThrow, restarts
    <3> QED
      BY <2>3, <3>1, <3>2 DEF Restarts
  <2>4. CASE Install \/ Quits
    BY <2>4 DEF Install, Quits, Stopped, dropWaiting
  <2>5. CASE BootEnds
    BY <2>5 DEF BootEnds
  <2>6. CASE Checks \/ CheckAnswered \/ Downloaded \/ Published \/ Reloads \/ InstallerRuns \/ QuitsForReal
    BY <2>6 DEF Checks, CheckAnswered, Downloaded, Published, Reloads, InstallerRuns, QuitsForReal
  <2>7. CASE Connect \/ SignsIn \/ Probed \/ CookieRead \/ Posted \/ ClosesLogin
    BY <2>7 DEF Connect, SignsIn, Probed, CookieRead, Posted, ClosesLogin
  <2>8. CASE UNCHANGED lifeVars
    BY <2>8 DEF lifeVars
  <2> QED
    BY <2>1, <2>2, <2>3, <2>4, <2>5, <2>6, <2>7, <2>8 DEF LifeNext
<1> QED
  BY <1>1, <1>2, PTL DEF LifeSpec

(* One backend at most runs or waits to be started, and none after the     *)
(* shell stopped it (main.js stopBackend, respawn.js), whatever dies when. *)
THEOREM OneBackendEver == LifeSpec => []OneBackend
<1>1. Backend => OneBackend
  <2> SUFFICES ASSUME Backend PROVE OneBackend
    OBVIOUS
  <2>1. alive = {} \/ alive = {proc}
    BY DEF Backend
  <2>2. Cardinality({}) = 0 /\ Cardinality({proc}) = 1
    BY FS_EmptySet, FS_Singleton
  <2> QED
    BY <2>1, <2>2 DEF Backend, OneBackend
<1> QED
  BY <1>1, BackendKept, PTL

(* A login that is under way was not posted and has no verdict yet; one    *)
(* that is over and was posted is connected.                               *)
LoginVerdict ==
    /\ login \in [at : {"none", "page", "cookie", "posting"}, open : BOOLEAN]
    /\ login.at = "none" => login = NoLogin
    /\ login.at # "none" => posted = FALSE /\ loginVerdict = "waits"
    /\ posted \in BOOLEAN /\ (posted => loginVerdict = "connected")

(* Unless the window is closed while its cookie is read, the shell's word  *)
(* holds: about its backend and about a login (poelogin.js).               *)
THEOREM ShellHoldsTrue == ASSUME "cookie" \notin Closing PROVE LifeSpec => []ShellHolds
<1>1. LifeInit => LoginVerdict
  <2> SUFFICES ASSUME LifeInit PROVE LoginVerdict
    OBVIOUS
  <2>1. login = NoLogin /\ NoLogin \in [at : {"none", "page", "cookie", "posting"}, open : BOOLEAN] /\ NoLogin.at = "none"
    BY DEF LifeInit, NoLogin
  <2> QED
    BY <2>1 DEF LifeInit, LoginVerdict
<1>2. LoginVerdict /\ [LifeNext]_lifeVars => LoginVerdict'
  <2> SUFFICES ASSUME LoginVerdict, [LifeNext]_lifeVars PROVE LoginVerdict'
    OBVIOUS
  <2> USE DEF LoginVerdict, NoLogin, loginVars
  <2>1. CASE Connect
    BY <2>1 DEF Connect
  <2>2. CASE SignsIn
    BY <2>2 DEF SignsIn
  <2>3. CASE Probed
    BY <2>3 DEF Probed
  <2>4. CASE CookieRead
    BY <2>4 DEF CookieRead
  <2>5. CASE Posted
    <3>1. login' = NoLogin /\ login'.at = "none" /\ login' \in [at : {"none", "page", "cookie", "posting"}, open : BOOLEAN]
      BY <2>5 DEF Posted
    <3>2. posted' \in BOOLEAN /\ (posted' => loginVerdict' = "connected")
      <4>1. login.at = "posting" /\ posted = FALSE /\ loginVerdict = "waits"
        BY <2>5 DEF Posted
      <4>2. CASE posted' = TRUE /\ finish("connected")
        BY <4>1, <4>2 DEF finish
      <4>3. CASE UNCHANGED posted
        BY <4>1, <4>3
      <4> QED
        BY <2>5, <4>2, <4>3 DEF Posted
    <3> QED
      BY <3>1, <3>2
  <2>6. CASE ClosesLogin
    BY <2>6 DEF ClosesLogin, finish, confirmed
  <2>7. ASSUME UNCHANGED loginVars PROVE LoginVerdict'
    BY <2>7
  <2>8. CASE BackendDies \/ (\E p \in exits : ExitTold(p)) \/ Restarts \/ BootEnds
    BY <2>7, <2>8 DEF BackendDies, ExitTold, Restarts, BootEnds
  <2>9. CASE Checks \/ CheckAnswered \/ Downloaded \/ Published \/ Reloads \/ Install \/ InstallerRuns \/ Quits \/ QuitsForReal
    BY <2>7, <2>9 DEF Checks, CheckAnswered, Downloaded, Published, Reloads, Install, InstallerRuns, Quits, QuitsForReal
  <2>10. CASE UNCHANGED lifeVars
    BY <2>7, <2>10 DEF lifeVars
  <2> QED
    BY <2>1, <2>2, <2>3, <2>4, <2>5, <2>6, <2>8, <2>9, <2>10 DEF LifeNext
<1>3. LoginVerdict => VerdictIsTrue
  BY DEF LoginVerdict, VerdictIsTrue, NoLogin
<1> QED
  BY <1>1, <1>2, <1>3, OneBackendEver, PTL DEF LifeSpec, ShellHolds

-----------------------------------------------------------------------------
(* Reports: their types.                                                   *)
Screens == ToSet(Dests)
Jobs == [pc : {"current", "loading", "walking", "bundling", "made", "failed"}, at : Nat \ {0},
         shots : SUBSET Screens, missing : SUBSET Screens]
Files == [job : Nat, shots : SUBSET Screens, missing : SUBSET Screens, partial : BOOLEAN]
Dialogs == [pc : {"closed", "packaging", "ready", "error"}, job : Nat, report : Nat]
ReportTypes ==
    /\ jobs \in Seq(Jobs) /\ reports \in Seq(Files) /\ dialog \in Dialogs
    /\ throttle \in Nat

NoneUnder == \A j \in DOMAIN jobs : ~Under(j)
Newest(r) == 1 \in DOMAIN reports /\ reports[1].job = r

(* What a job that is not finished has pictured or missed so far.          *)
Seen(n) == {Dests[i] : i \in {k \in DOMAIN Dests : k < n}}
Walked(job) ==
    /\ job.pc \in {"current", "loading"} => job.at = 1 /\ job.shots = {} /\ job.missing = {}
    /\ job.pc = "walking" => job.shots \cup job.missing = Seen(job.at)
    /\ job.pc = "bundling" => job.shots \cup job.missing = Screens

(* One job is under way at most, the last one; the filter is on its window *)
(* while that exists.                                                      *)
OneJob ==
    /\ \A j \in DOMAIN jobs : Walked(jobs[j]) /\ (j < Len(jobs) => ~Under(j))
    /\ \A j \in hidden : j \in DOMAIN jobs /\ jobs[j].pc \in {"loading", "walking"} /\ filtered = j
    /\ ~wrote

(* A report that is offered is the newest file, and no job will displace   *)
(* it while it is.                                                         *)
NewestOffered ==
    /\ throttle # 0 => NoneUnder /\ Newest(throttle)
    /\ dialog.pc = "ready" => NoneUnder /\ Newest(dialog.report)
    /\ dialog.pc = "packaging" => dialog.job \in DOMAIN jobs /\ dialog.job = Len(jobs)
    /\ \A j \in DOMAIN jobs : j = Len(jobs) /\ jobs[j].pc = "made" => Newest(j)

AllAccounted == \A i \in DOMAIN reports : reports[i].job # 0 => Accounted(reports[i])
ReportInv == ReportTypes /\ OneJob /\ NewestOffered /\ AllAccounted

LEMMA ReportStart == FeedbackInit => ReportInv
<1> SUFFICES ASSUME FeedbackInit PROVE ReportInv
  OBVIOUS
<1>1. PICK n \in 0..KEEP_REPORTS : reports = [i \in 1..n |-> [job |-> 0, shots |-> {}, missing |-> {}, partial |-> FALSE]]
  BY DEF FeedbackInit
<1>2. n \in Nat
  BY FeedbackAssumption
<1>3. reports \in Seq(Files) /\ DOMAIN reports = 1..n /\ \A i \in 1..n : reports[i].job = 0
  BY <1>1, <1>2 DEF Files
<1>4. jobs = <<>> /\ jobs \in Seq(Jobs) /\ DOMAIN jobs = {} /\ Len(jobs) = 0
  BY DEF FeedbackInit
<1>5. dialog \in Dialogs /\ dialog.pc = "closed" /\ throttle = 0
  BY DEF FeedbackInit, NoDialog, Dialogs
<1>6. hidden = {} /\ ~wrote
  BY DEF FeedbackInit
<1> QED
  BY <1>3, <1>4, <1>5, <1>6 DEF ReportInv, ReportTypes, OneJob, NewestOffered, AllAccounted

(* A job that goes on: the others stay as they are.                        *)
LEMMA OthersStay ==
    ASSUME ReportTypes, NEW j \in DOMAIN jobs, NEW job \in Jobs, Goes(j, job)
    PROVE  /\ jobs' \in Seq(Jobs) /\ DOMAIN jobs' = DOMAIN jobs /\ Len(jobs') = Len(jobs)
           /\ jobs'[j] = job /\ \A k \in DOMAIN jobs : k # j => jobs'[k] = jobs[k]
           /\ Len(jobs) \in Nat /\ DOMAIN jobs = 1..Len(jobs) /\ jobs[j] \in Jobs
           /\ j \in Nat \ {0}
BY DEF ReportTypes, Goes

(* The kept files are the newest ones.                                     *)
LEMMA PruneKeeps ==
    ASSUME NEW S, NEW files \in Seq(S), Len(files) >= 1
    PROVE  /\ prune(files) \in Seq(S) /\ 1 \in DOMAIN prune(files)
           /\ \A i \in DOMAIN prune(files) : i \in DOMAIN files /\ prune(files)[i] = files[i]
<1> DEFINE n == IF Len(files) > KEEP_REPORTS THEN KEEP_REPORTS ELSE Len(files)
<1>1. n \in 1..Len(files) /\ Len(files) \in Nat /\ DOMAIN files = 1..Len(files)
  BY FeedbackAssumption, LenProperties
<1>2. prune(files) = SubSeq(files, 1, n)
  BY DEF prune
<1> HIDE DEF n
<1>3. Len(prune(files)) = n /\ \A i \in 1..n : prune(files)[i] = files[i]
  BY <1>1, <1>2
<1>4. prune(files) \in Seq(S)
  BY <1>1, <1>2
<1>5. DOMAIN prune(files) = 1..n
  BY <1>3, <1>4, LenProperties
<1> QED
  BY <1>1, <1>3, <1>4, <1>5

(* The job under way takes a step of its walk and is under way still.      *)
LEMMA WalkStep ==
    ASSUME ReportInv, NEW j \in DOMAIN jobs, NEW job \in Jobs, Goes(j, job), Under(j),
           job.pc \notin {"made", "failed"}, Walked(job),
           hidden' \subseteq {j}, j \in hidden' => job.pc \in {"loading", "walking"} /\ filtered' = j,
           UNCHANGED <<wrote, reports, throttle, dialog>>
    PROVE  ReportInv'
<1>1. /\ jobs' \in Seq(Jobs) /\ DOMAIN jobs' = DOMAIN jobs /\ Len(jobs') = Len(jobs)
      /\ jobs'[j] = job /\ \A k \in DOMAIN jobs : k # j => jobs'[k] = jobs[k]
      /\ Len(jobs) \in Nat /\ DOMAIN jobs = 1..Len(jobs)
  BY OthersStay DEF ReportInv
<1>2. j = Len(jobs)
  BY <1>1 DEF ReportInv, OneJob
<1>3. OneJob'
  <2>1. \A k \in DOMAIN jobs' : Walked(jobs'[k]) /\ (k < Len(jobs') => ~Under(k)')
    BY <1>1, <1>2 DEF ReportInv, OneJob, Under
  <2>2. \A k \in hidden' : k \in DOMAIN jobs' /\ jobs'[k].pc \in {"loading", "walking"} /\ filtered' = k
    BY <1>1
  <2> QED
    BY <2>1, <2>2 DEF ReportInv, OneJob
<1>4. ~NoneUnder
  BY DEF NoneUnder
<1>5. NewestOffered'
  BY <1>1, <1>2, <1>4 DEF ReportInv, NewestOffered, Newest
<1>6. ReportTypes' /\ AllAccounted'
  BY <1>1 DEF ReportInv, ReportTypes, AllAccounted
<1> QED
  BY <1>3, <1>5, <1>6 DEF ReportInv

(* The hidden window's own steps.                                          *)
LEMMA WindowSteps ==
    ASSUME ReportInv, ~BlankShots, NEW j \in DOMAIN jobs,
           Hides(j) \/ Loads(j) \/ LoadFails(j) \/ Shoots(j) \/ WalkEnds(j)
    PROVE  ReportInv'
<1> DEFINE job == jobs[j]
<1>1. job \in Jobs /\ Walked(job) /\ Len(jobs) \in Nat /\ DOMAIN jobs = 1..Len(jobs)
  BY DEF ReportInv, ReportTypes, OneJob
<1>2. Under(j) => hidden \subseteq {j} /\ (j \in hidden => job.pc \in {"loading", "walking"} /\ filtered = j)
  BY <1>1 DEF ReportInv, OneJob, Under
<1>3. CASE Hides(j)
  <2>1. [job EXCEPT !.pc = "loading"] \in Jobs /\ Walked([job EXCEPT !.pc = "loading"]) /\ Under(j)
    BY <1>1, <1>3 DEF Hides, Jobs, Walked, Under
  <2> QED
    BY <1>2, <1>3, <2>1, WalkStep DEF Hides, Jobs
<1>4. CASE Loads(j)
  <2>1. Seen(1) = {}
    BY FeedbackAssumption, LenProperties DEF Seen
  <2>2. [job EXCEPT !.pc = "walking"] \in Jobs /\ Walked([job EXCEPT !.pc = "walking"]) /\ Under(j)
    BY <1>1, <1>4, <2>1 DEF Loads, Jobs, Walked, Under
  <2> QED
    BY <1>2, <1>4, <2>2, WalkStep DEF Loads, Jobs
<1>5. CASE LoadFails(j)
  <2> DEFINE over == [[job EXCEPT !.missing = ToSet(Dests)] EXCEPT !.pc = "bundling"]
  <2>1. over \in Jobs /\ Walked(over) /\ Under(j) /\ over.pc = "bundling"
    BY <1>1, <1>5 DEF LoadFails, Jobs, Walked, Under, Screens
  <2> QED
    BY <1>2, <1>5, <2>1, WalkStep DEF LoadFails, Unhides
<1>6. CASE WalkEnds(j)
  <2>1. Len(Dests) \in Nat /\ DOMAIN Dests = 1..Len(Dests)
    BY FeedbackAssumption, LenProperties
  <2>2. job.at > Len(Dests) /\ job.pc = "walking" /\ job.at \in Nat
    BY <1>1, <1>6 DEF WalkEnds, Jobs
  <2>3. Seen(job.at) = Screens
    BY <2>1, <2>2 DEF Seen, Screens, ToSet
  <2>4. [job EXCEPT !.pc = "bundling"] \in Jobs /\ Walked([job EXCEPT !.pc = "bundling"]) /\ Under(j)
    BY <1>1, <2>2, <2>3 DEF Jobs, Walked, Under
  <2> QED
    BY <1>2, <1>6, <2>4, WalkStep DEF WalkEnds, Unhides, Jobs
<1>7. CASE Shoots(j)
  <2> DEFINE d == Dests[job.at]  next == [job EXCEPT !.at = @ + 1]
             got == [next EXCEPT !.shots = @ \cup {d}]  not == [next EXCEPT !.missing = @ \cup {d}]
  <2>1. Len(Dests) \in Nat /\ DOMAIN Dests = 1..Len(Dests)
    BY FeedbackAssumption, LenProperties
  <2>2. job.pc = "walking" /\ job.at \in 1..Len(Dests) /\ job.shots \cup job.missing = Seen(job.at)
    BY <1>1, <1>7, <2>1 DEF Shoots, Jobs, Walked
  <2>3. d \in Screens /\ Seen(job.at + 1) = Seen(job.at) \cup {d}
    BY <2>1, <2>2 DEF Seen, Screens, ToSet
  <2>n. next \in Jobs /\ next.pc = "walking" /\ next.at = job.at + 1 /\ next.shots = job.shots /\ next.missing = job.missing
    BY <1>1, <2>2 DEF Jobs
  <2> HIDE DEF next
  <2>4. got \in Jobs /\ got.pc = "walking" /\ got.at = job.at + 1 /\ got.shots \cup got.missing = Seen(job.at + 1)
    BY <2>n, <2>2, <2>3 DEF Jobs
  <2>5. not \in Jobs /\ not.pc = "walking" /\ not.at = job.at + 1 /\ not.shots \cup not.missing = Seen(job.at + 1)
    BY <2>n, <2>2, <2>3 DEF Jobs
  <2>6. Under(j) /\ UNCHANGED <<hidden, filtered, wrote, reports, throttle, dialog>> /\ (Goes(j, got) \/ Goes(j, not))
    BY <1>7, <2>2 DEF Shoots, Under, next
  <2>7. Walked(got) /\ Walked(not)
    BY <2>4, <2>5 DEF Walked
  <2> HIDE DEF got, not
  <2>8. CASE Goes(j, got)
    BY <1>2, <2>2, <2>4, <2>6, <2>7, <2>8, WalkStep
  <2>9. CASE Goes(j, not)
    BY <1>2, <2>2, <2>5, <2>6, <2>7, <2>9, WalkStep
  <2> QED
    BY <2>6, <2>8, <2>9
<1> QED
  BY <1>3, <1>4, <1>5, <1>6, <1>7

(* A package that is made is the newest file; one that fails leaves none.  *)
LEMMA PackageSteps ==
    ASSUME ReportInv, NEW j \in DOMAIN jobs, packageReport(j) \/ PackageFails(j)
    PROVE  ReportInv'
<1> DEFINE job == jobs[j]
<1>1. /\ job \in Jobs /\ job.pc = "bundling" /\ Walked(job) /\ Under(j)
      /\ Len(jobs) \in Nat /\ DOMAIN jobs = 1..Len(jobs)
  BY DEF ReportInv, ReportTypes, OneJob, packageReport, PackageFails, Under
<1>2. j = Len(jobs) /\ j \in Nat \ {0} /\ j \notin hidden /\ ~NoneUnder
  BY <1>1 DEF ReportInv, OneJob, NoneUnder
<1>3. hidden = {} /\ throttle = 0 /\ dialog.pc # "ready"
  BY <1>1, <1>2 DEF ReportInv, OneJob, NewestOffered, Under
<1>4. PICK pc \in {"made", "failed"} : Goes(j, [job EXCEPT !.pc = pc]) /\ (pc = "made" <=> packageReport(j))
  BY DEF packageReport, PackageFails
<1> DEFINE over == [job EXCEPT !.pc = pc]
<1>5. over \in Jobs /\ over.pc = pc /\ over.shots = job.shots /\ over.missing = job.missing
  BY <1>1 DEF Jobs
<1> HIDE DEF over
<1>6. /\ jobs' \in Seq(Jobs) /\ DOMAIN jobs' = DOMAIN jobs /\ Len(jobs') = Len(jobs)
      /\ jobs'[j] = over /\ \A k \in DOMAIN jobs : k # j => jobs'[k] = jobs[k]
  BY <1>4, <1>5, OthersStay DEF ReportInv, over
<1>7. NoneUnder'
  BY <1>1, <1>2, <1>4, <1>5, <1>6 DEF ReportInv, OneJob, NoneUnder, Under
<1>8. OneJob'
  <2>1. UNCHANGED <<hidden, wrote>>
    BY DEF packageReport, PackageFails
  <2>2. Walked(over)
    BY <1>4, <1>5 DEF Walked
  <2> QED
    BY <1>3, <1>6, <1>7, <2>1, <2>2 DEF ReportInv, OneJob, NoneUnder
<1>9. CASE packageReport(j)
  <2>1. PICK kept \in SUBSET job.shots :
           reports' = prune(<<[job |-> j, shots |-> kept, missing |-> job.missing, partial |-> kept # job.shots]>> \o reports)
    BY <1>9 DEF packageReport, pack
  <2> DEFINE file == [job |-> j, shots |-> kept, missing |-> job.missing, partial |-> kept # job.shots]
             files == <<file>> \o reports
  <2>2. file \in Files /\ file.job = j /\ Accounted(file)
    BY <1>1, <1>2 DEF Files, Jobs, Walked, Accounted, Screens
  <2> HIDE DEF file
  <2>3. files \in Seq(Files) /\ Len(files) = Len(reports) + 1 /\ Len(reports) \in Nat /\ files[1] = file
    BY <2>2, LenProperties DEF ReportInv, ReportTypes
  <2>4. \A i \in DOMAIN files : i = 1 \/ (i - 1 \in DOMAIN reports /\ files[i] = reports[i - 1])
    BY <2>2, LenProperties DEF ReportInv, ReportTypes
  <2> HIDE DEF files
  <2>5. /\ prune(files) \in Seq(Files) /\ 1 \in DOMAIN prune(files)
        /\ \A i \in DOMAIN prune(files) : i \in DOMAIN files /\ prune(files)[i] = files[i]
    BY <2>3, PruneKeeps
  <2>6. reports' = prune(files)
    BY <2>1 DEF file, files
  <2>7. AllAccounted'
    <3> SUFFICES ASSUME NEW i \in DOMAIN prune(files), prune(files)[i].job # 0 PROVE Accounted(prune(files)[i])
      BY <2>6 DEF AllAccounted, Accounted
    <3>1. CASE i = 1
      BY <2>2, <2>3, <2>5, <3>1
    <3>2. CASE i # 1
      <4>1. PICK k \in DOMAIN reports : prune(files)[i] = reports[k]
        BY <2>4, <2>5, <3>2
      <4> QED
        BY <4>1 DEF ReportInv, AllAccounted
    <3> QED
      BY <3>1, <3>2
  <2>8. Newest(j)'
    BY <2>2, <2>3, <2>5, <2>6 DEF Newest
  <2>9. NewestOffered'
    BY <1>2, <1>3, <1>6, <1>7, <1>9, <2>8 DEF ReportInv, NewestOffered, packageReport
  <2>10. ReportTypes'
    BY <1>2, <1>6, <1>9, <2>5, <2>6 DEF ReportInv, ReportTypes, packageReport
  <2> QED
    BY <1>8, <2>7, <2>9, <2>10 DEF ReportInv
<1>10. CASE PackageFails(j)
  <2>1. UNCHANGED <<reports, throttle, dialog>> /\ pc = "failed"
    BY <1>2, <1>3, <1>4, <1>10 DEF packageReport, PackageFails
  <2> QED
    BY <1>2, <1>3, <1>5, <1>6, <1>8, <2>1 DEF ReportInv, ReportTypes, NewestOffered, AllAccounted
<1> QED
  BY <1>9, <1>10

(* The dialog asks for a package, is answered, or is closed.               *)
LEMMA DialogSteps ==
    ASSUME ReportInv, OpenDialog \/ CloseDialog \/ Answers \/ MinuteGone
    PROVE  ReportInv'
<1>1. /\ jobs \in Seq(Jobs) /\ Len(jobs) \in Nat /\ DOMAIN jobs = 1..Len(jobs) /\ dialog \in Dialogs
      /\ \A j \in DOMAIN jobs : jobs[j] \in Jobs
  BY DEF ReportInv, ReportTypes
<1>2. UNCHANGED <<hidden, filtered, wrote, reports>>
  BY DEF OpenDialog, CloseDialog, Answers, MinuteGone
<1>3. ASSUME UNCHANGED <<jobs, throttle>>, dialog' \in Dialogs,
             dialog'.pc = "ready" => NoneUnder /\ Newest(dialog'.report),
             dialog'.pc = "packaging" => dialog'.job \in DOMAIN jobs /\ dialog'.job = Len(jobs)
      PROVE  ReportInv'
  <2>1. OneJob' /\ ReportTypes' /\ AllAccounted'
    BY <1>2, <1>3 DEF ReportInv, OneJob, Under, ReportTypes, AllAccounted, Accounted
  <2>2. NewestOffered'
    BY <1>2, <1>3 DEF ReportInv, NewestOffered, NoneUnder, Under, Newest
  <2> QED
    BY <2>1, <2>2 DEF ReportInv
<1>4. CASE OpenDialog /\ throttle # 0
  <2>1. dialog' = [pc |-> "ready", job |-> 0, report |-> throttle] /\ UNCHANGED <<jobs, throttle>>
    BY <1>4 DEF OpenDialog
  <2> QED
    BY <1>3, <1>4, <2>1 DEF ReportInv, ReportTypes, NewestOffered, Dialogs
<1>5. CASE OpenDialog /\ throttle = 0 /\ inflight # {}
  <2>1. inflight = {Len(jobs)}
    BY <1>1, <1>5 DEF inflight, ReportInv, OneJob
  <2>2. dialog' = [pc |-> "packaging", job |-> Len(jobs), report |-> 0] /\ UNCHANGED <<jobs, throttle>>
    BY <1>5, <2>1 DEF OpenDialog
  <2>3. Len(jobs) \in DOMAIN jobs
    BY <2>1 DEF inflight
  <2> QED
    BY <1>1, <1>3, <2>2, <2>3 DEF Dialogs
<1>6. CASE OpenDialog /\ throttle = 0 /\ inflight = {}
  <2>1. /\ jobs' = Append(jobs, NewJob) /\ dialog' = [pc |-> "packaging", job |-> Len(jobs) + 1, report |-> 0]
        /\ throttle' = 0 /\ NewJob \in Jobs /\ Walked(NewJob) /\ NewJob.pc = "current"
    BY <1>6 DEF OpenDialog, NewJob, Jobs, Walked
  <2>2. /\ jobs' \in Seq(Jobs) /\ Len(jobs') = Len(jobs) + 1 /\ DOMAIN jobs' = 1..(Len(jobs) + 1)
        /\ jobs'[Len(jobs) + 1] = NewJob /\ \A j \in DOMAIN jobs : jobs'[j] = jobs[j]
    BY <1>1, <2>1
  <2>3. \A j \in DOMAIN jobs : ~Under(j)
    BY <1>6 DEF inflight
  <2>4. OneJob'
    BY <1>1, <1>2, <2>1, <2>2, <2>3 DEF ReportInv, OneJob, Under
  <2>5. dialog' \in Dialogs /\ dialog'.pc = "packaging" /\ dialog'.job = Len(jobs')
    BY <1>1, <2>1, <2>2 DEF Dialogs
  <2>6. NewestOffered'
    BY <1>1, <2>1, <2>2, <2>5 DEF NewestOffered
  <2> QED
    BY <1>2, <2>1, <2>2, <2>4, <2>5, <2>6 DEF ReportInv, ReportTypes, AllAccounted, Accounted
<1>7. CASE CloseDialog
  BY <1>3, <1>7 DEF CloseDialog, NoDialog, Dialogs
<1>8. CASE Answers
  <2>1. dialog.job \in DOMAIN jobs /\ dialog.job = Len(jobs) /\ ~Under(dialog.job) /\ UNCHANGED <<jobs, throttle>>
    BY <1>8 DEF Answers, ReportInv, NewestOffered
  <2>2. NoneUnder
    BY <1>1, <2>1 DEF NoneUnder, ReportInv, OneJob
  <2>3. CASE jobs[dialog.job].pc = "made"
    <3>1. dialog' = [pc |-> "ready", job |-> 0, report |-> dialog.job] /\ Newest(dialog.job)
      BY <1>8, <2>1, <2>3 DEF Answers, ReportInv, NewestOffered
    <3>2. dialog' \in Dialogs /\ dialog'.pc = "ready" /\ dialog'.report = dialog.job
      BY <1>1, <3>1 DEF Dialogs
    <3> QED
      BY <1>3, <2>1, <2>2, <3>1, <3>2
  <2>4. CASE jobs[dialog.job].pc # "made"
    <3>1. dialog' \in Dialogs /\ dialog'.pc = "error"
      BY <1>8, <2>4 DEF Answers, Dialogs, NoDialog
    <3> QED
      BY <1>3, <2>1, <3>1
  <2> QED
    BY <2>3, <2>4
<1>9. CASE MinuteGone
  <2>1. throttle' = 0 /\ UNCHANGED <<jobs, dialog>>
    BY <1>9 DEF MinuteGone
  <2>2. OneJob' /\ ReportTypes' /\ AllAccounted'
    BY <1>2, <2>1 DEF ReportInv, OneJob, Under, ReportTypes, AllAccounted, Accounted
  <2>3. NewestOffered'
    BY <1>2, <2>1 DEF ReportInv, NewestOffered, NoneUnder, Under, Newest
  <2> QED
    BY <2>2, <2>3 DEF ReportInv
<1> QED
  BY <1>4, <1>5, <1>6, <1>7, <1>8, <1>9

(* What is offered is there, what it lacks it says, and the window that is *)
(* walked through the screens never writes (feedback/index.js, snap.js),   *)
(* when no picture of a hidden window comes out empty.                     *)
THEOREM ReportsAreSound == ASSUME ~BlankShots PROVE FeedbackSpec => []ReportIsSound
<1>1. ReportInv /\ [FeedbackNext]_feedbackVars => ReportInv'
  <2> SUFFICES ASSUME ReportInv, [FeedbackNext]_feedbackVars PROVE ReportInv'
    OBVIOUS
  <2>1. CASE OpenDialog \/ CloseDialog \/ Answers \/ MinuteGone
    BY <2>1, DialogSteps
  <2>2. ASSUME NEW j \in DOMAIN jobs, Hides(j) \/ Loads(j) \/ LoadFails(j) \/ Shoots(j) \/ WalkEnds(j)
        PROVE  ReportInv'
    BY <2>2, WindowSteps
  <2>3. ASSUME NEW j \in DOMAIN jobs, packageReport(j) \/ PackageFails(j) PROVE ReportInv'
    BY <2>3, PackageSteps
  <2>4. ASSUME NEW j \in DOMAIN jobs, HiddenPageWrites(j) PROVE ReportInv'
    <3>1. ~wrote' /\ UNCHANGED <<jobs, hidden, filtered, reports, throttle, dialog>>
      BY <2>4 DEF HiddenPageWrites, ReportInv, OneJob
    <3> QED
      BY <3>1 DEF ReportInv, ReportTypes, OneJob, NewestOffered, AllAccounted, NoneUnder, Newest, Under, Accounted
  <2>5. CASE UNCHANGED feedbackVars
    BY <2>5 DEF feedbackVars, ReportInv, ReportTypes, OneJob, NewestOffered, AllAccounted, NoneUnder, Newest, Under, Accounted
  <2> QED
    BY <2>1, <2>2, <2>3, <2>4, <2>5 DEF FeedbackNext
<1>2. ReportInv => ReportIsSound
  BY DEF ReportInv, OneJob, NewestOffered, AllAccounted, Newest, ReportIsSound
<1> QED
  BY <1>1, <1>2, ReportStart, PTL DEF FeedbackSpec

-----------------------------------------------------------------------------
(* The Stash tab, opened once, in a world without the troubles the module  *)
(* lists.  One view, and what it shows.                                    *)
Quantities == [Coins -> Nat]
ViewType == [qty : [Coins -> Int], pending : [Coins -> Int], timer : BOOLEAN, hold : BOOLEAN, recounted : SUBSET Coins,
             fetch : {"none", "flushing", "asking", "reading", "done"}, added : Quantities]
SaleType == [of : Coins, known : BOOLEAN, after : BOOLEAN]
PutType  == [of : {1}, qty : Quantities, counted : SUBSET Coins, nth : Nat]

StashTypes ==
    /\ capital \in Quantities /\ held \in Quantities
    /\ ledger \in Seq(SaleType)
    /\ store \in [capital : Quantities, saving : BOOLEAN, writes : Nat]
    /\ onScreen \in BOOLEAN
    /\ puts \in SUBSET PutType /\ \A p \in puts : p.nth < store.writes
    /\ poll \in [writes : Int, capital : [Coins -> Int]] /\ poll.writes <= store.writes
    /\ poll # NoPoll => poll.capital \in Quantities
OneView == views \in Seq(ViewType) /\ Len(views) <= 1 /\ (onScreen => Len(views) = 1)

(* The flags: a timer and a hold exclude each other, an edit on the screen *)
(* has one of them, and a hold ends with its fetch.                        *)
Flags(u, shown) ==
    /\ u.pending # Nothing => u.pending = u.qty
    /\ u.timer => u.pending # Nothing /\ (shown \/ u.fetch \in {"done", "none"})
    /\ u.hold => u.fetch \in {"asking", "reading", "done"} /\ ~u.timer
    /\ u.fetch \in {"asking", "reading"} => u.hold
    /\ shown /\ u.pending # Nothing => u.timer \/ u.hold
    /\ u.recounted # {} => u.pending # Nothing /\ u.fetch = "none"

(* What the view shows is what the server has, or will have when the saves *)
(* under way have landed, but for an edit not sent and a credit not seen.  *)
Unsent(u, shown) == u.timer \/ (shown /\ u.pending # Nothing)
LastPut(p, P) == \A o \in P \ {p} : o.nth < p.nth
Sent(u, shown, P, cap) ==
    ~Unsent(u, shown) =>
        /\ P # {} => \E p \in P : LastPut(p, P) /\ p.qty = u.qty
        /\ P = {} /\ (u.fetch = "reading" => u.qty = addCredit(u.qty, u.added)) => cap = u.qty

(* And it makes up what the user holds, with the credit it has not seen    *)
(* and the sales not credited yet; a count not saved yet has them in it.   *)
Recounts(u, P, c) == c \in u.recounted \/ \E p \in P : c \in p.counted
Unseen(u, c) == IF u.fetch = "reading" THEN u.added[c] ELSE 0
MakesUp(u, P, own, owed) == \A c \in Coins : own[c] = u.qty[c] + Unseen(u, c) + (IF Recounts(u, P, c) THEN 0 ELSE owed[c])

(* Before the inputs are seeded nothing was typed, and the copy they will  *)
(* be seeded from is what the server has.                                  *)
Untouched(reading, P, own, cap, owed, copy, ask) ==
    /\ P = {}
    /\ \A c \in Coins : own[c] = cap[c] + owed[c]
    /\ reading \/ (copy.capital = cap /\ (ask.writes = copy.writes => ask.capital = cap))

ViewHolds(u, shown, P, own, cap, owed, copy, ask) ==
    /\ Flags(u, shown)
    /\ u.qty = Nothing => u.pending = Nothing /\ Untouched(u.fetch = "reading", P, own, cap, owed, copy, ask)
    /\ u.qty # Nothing => u.qty \in Quantities /\ Sent(u, shown, P, cap) /\ MakesUp(u, P, own, owed)

Owed == [c \in Coins |-> credited(c)]
StashInv ==
    /\ StashTypes /\ OneView
    /\ views = <<>> => Untouched(FALSE, puts, held, capital, Owed, store, poll)
    /\ \A v \in Views : ViewHolds(views[v], onScreen, puts, held, capital, Owed, store, poll)

-----------------------------------------------------------------------------
LEMMA NotNothing == ASSUME NEW q \in Quantities PROVE q # Nothing
<1>1. PICK c \in Coins : TRUE
  BY StashAssumption
<1>2. q[c] \in Nat /\ Nothing[c] = -1
  BY DEF Quantities, Nothing
<1> QED
  BY <1>2

(* What is to be credited.                                                 *)
Due(l, c) == {i \in DOMAIN l : l[i].of = c /\ ~l[i].known /\ l[i].after}

LEMMA DueFinite ==
    ASSUME NEW l \in Seq(SaleType), NEW c \in Coins
    PROVE  IsFiniteSet(Due(l, c)) /\ Cardinality(Due(l, c)) \in Nat
<1>1. DOMAIN l = 1..Len(l) /\ Len(l) \in Nat
  BY LenProperties
<1>2. IsFiniteSet(DOMAIN l)
  BY <1>1, FS_Interval
<1>3. Due(l, c) \subseteq DOMAIN l
  BY DEF Due
<1> QED
  BY <1>2, <1>3, FS_Subset, FS_CardinalityType

LEMMA DueSold ==
    ASSUME NEW l \in Seq(SaleType), NEW c \in Coins,
           NEW s, s = [of |-> c, known |-> FALSE, after |-> TRUE]
    PROVE  /\ Append(l, s) \in Seq(SaleType)
           /\ \A d \in Coins : Cardinality(Due(Append(l, s), d)) = Cardinality(Due(l, d)) + (IF d = c THEN 1 ELSE 0)
<1>1. s \in SaleType
  BY DEF SaleType
<1> DEFINE m == Append(l, s)
           n == Len(l) + 1
<1>2. /\ m \in Seq(SaleType) /\ DOMAIN m = 1..n /\ Len(l) \in Nat /\ DOMAIN l = 1..Len(l) /\ m[n] = s
      /\ \A i \in 1..Len(l) : m[i] = l[i]
  BY <1>1, AppendProperties, LenProperties
<1> HIDE DEF m, n
<1>3. /\ n \notin DOMAIN l /\ DOMAIN m = DOMAIN l \cup {n} /\ \A i \in DOMAIN l : m[i] = l[i]
      /\ m[n].of = c /\ m[n].known = FALSE /\ m[n].after = TRUE
  BY <1>2 DEF n
<1>4. ASSUME NEW d \in Coins PROVE Cardinality(Due(m, d)) = Cardinality(Due(l, d)) + (IF d = c THEN 1 ELSE 0)
  <2>1. IsFiniteSet(Due(l, d)) /\ Cardinality(Due(l, d)) \in Nat /\ n \notin Due(l, d)
    BY <1>3, DueFinite DEF Due
  <2>2. CASE d = c
    <3>1. Due(m, d) = Due(l, d) \cup {n}
      BY <1>3, <2>2, Zenon DEF Due
    <3> QED
      BY <2>1, <2>2, <3>1, FS_AddElement
  <2>3. CASE d # c
    <3>1. Due(m, d) = Due(l, d)
      BY <1>3, <2>3, Zenon DEF Due
    <3> QED
      BY <2>1, <2>3, <3>1
  <2> QED
    BY <2>2, <2>3
<1> QED
  BY <1>2, <1>4 DEF m

CountedIn(l, S) == [i \in DOMAIN l |-> [l[i] EXCEPT !.after = l[i].after /\ l[i].of \notin S]]

LEMMA DueSaved ==
    ASSUME NEW l \in Seq(SaleType), NEW S \in SUBSET Coins
    PROVE  CountedIn(l, S) \in Seq(SaleType) /\ \A c \in Coins : Due(CountedIn(l, S), c) = IF c \in S THEN {} ELSE Due(l, c)
<1> PICK m : m = CountedIn(l, S)
  OBVIOUS
<1>0. m = [i \in DOMAIN l |-> [l[i] EXCEPT !.after = l[i].after /\ l[i].of \notin S]]
  BY DEF CountedIn
<1>1. DOMAIN l = 1..Len(l) /\ Len(l) \in Nat /\ \A i \in DOMAIN l : l[i] \in SaleType
  BY LenProperties, ElementOfSeq
<1>2. \A i \in DOMAIN l : /\ m[i] \in SaleType /\ m[i].of = l[i].of /\ m[i].known = l[i].known
                          /\ m[i].after = (l[i].after /\ l[i].of \notin S)
  <2> SUFFICES ASSUME NEW i \in DOMAIN l, NEW x, x = l[i], NEW y, y = m[i]
               PROVE  y \in SaleType /\ y.of = x.of /\ y.known = x.known /\ y.after = (x.after /\ x.of \notin S)
    OBVIOUS
  <2>1. x \in SaleType
    BY <1>1
  <2>2. PICK left \in BOOLEAN : left = (x.after /\ x.of \notin S)
    OBVIOUS
  <2>3. y = [x EXCEPT !.after = left]
    BY <1>0, <2>2
  <2> QED
    BY <2>1, <2>2, <2>3 DEF SaleType
<1>3. DOMAIN m = 1..Len(l)
  BY <1>0, <1>1
<1>4. m \in Seq(SaleType)
  <2>1. m \in [1..Len(l) -> SaleType]
    BY <1>0, <1>1, <1>2
  <2> QED
    BY <1>1, <2>1, SeqDef
<1>5. ASSUME NEW c \in Coins PROVE Due(m, c) = IF c \in S THEN {} ELSE Due(l, c)
  <2>1. \A i : i \in Due(m, c) <=> i \in DOMAIN l /\ l[i].of = c /\ ~l[i].known /\ l[i].after /\ l[i].of \notin S
    BY <1>0, <1>1, <1>2, <1>3 DEF Due
  <2>2. \A i : i \in Due(l, c) <=> i \in DOMAIN l /\ l[i].of = c /\ ~l[i].known /\ l[i].after
    BY DEF Due
  <2> QED
    BY <2>1, <2>2
<1> QED
  BY <1>4, <1>5

LEMMA DueKnown ==
    ASSUME NEW l \in Seq(SaleType), NEW m, m = [i \in DOMAIN l |-> [l[i] EXCEPT !.known = TRUE]]
    PROVE  m \in Seq(SaleType) /\ \A c \in Coins : Due(m, c) = {}
<1>1. DOMAIN l = 1..Len(l) /\ Len(l) \in Nat /\ \A i \in DOMAIN l : l[i] \in SaleType
  BY LenProperties, ElementOfSeq
<1>2. \A i \in DOMAIN l : m[i] \in SaleType /\ m[i].known = TRUE
  BY <1>1 DEF SaleType
<1>3. m \in [1..Len(l) -> SaleType]
  BY <1>1, <1>2
<1>4. m \in Seq(SaleType)
  BY <1>1, <1>3, SeqDef
<1>5. \A c \in Coins : Due(m, c) = {}
  BY <1>1, <1>2, <1>3 DEF Due
<1> QED
  BY <1>4, <1>5

LEMMA OwedIs ==
    ASSUME StashInv
    PROVE  \A c \in Coins : Owed[c] = Cardinality(Due(ledger, c)) /\ Owed[c] \in Nat
<1>1. ledger \in Seq(SaleType)
  BY DEF StashInv, StashTypes
<1>2. \A c \in Coins : credited(c) = Cardinality(Due(ledger, c))
  BY DEF credited, Due
<1> QED
  BY <1>1, <1>2, DueFinite DEF Owed

LEMMA OneViewSet ==
    ASSUME NEW s \in Seq(ViewType), Len(s) = 1, NEW w \in ViewType, NEW t, t = [s EXCEPT ![1] = w]
    PROVE  t \in Seq(ViewType) /\ Len(t) = 1 /\ t[1] = w /\ DOMAIN t = {1} /\ t # <<>>
<1>1. DOMAIN s = 1..1
  BY LenProperties
<1>2. t = [v \in 1..1 |-> w]
  <2>1. 1..1 = {1}
    OBVIOUS
  <2> QED
    BY <1>1, <2>1, Zenon
<1>3. t \in [1..1 -> ViewType]
  BY <1>2
<1>4. t \in Seq(ViewType)
  BY <1>3, SeqDef
<1>5. Len(t) = 1
  BY <1>2, <1>4, LenProperties
<1> QED
  BY <1>2, <1>4, <1>5, EmptySeq

(* A step that leaves one view, w.                                         *)
LEMMA ViewStep ==
    ASSUME StashInv, StashTypes', Len(views) = 1, NEW w \in ViewType, views' = [views EXCEPT ![1] = w],
           ViewHolds(w, onScreen', puts', held', capital', Owed', store', poll')
    PROVE  StashInv'
<1>1. views \in Seq(ViewType)
  BY DEF StashInv, OneView
<1>2. views' \in Seq(ViewType) /\ Len(views') = 1 /\ views'[1] = w /\ DOMAIN views' = {1} /\ views' # <<>>
  BY <1>1, OneViewSet
<1> QED
  BY <1>2 DEF StashInv, OneView, Views

LEMMA TheView ==
    ASSUME StashInv, Len(views) = 1
    PROVE  /\ views \in Seq(ViewType) /\ Views = {1} /\ last = 1 /\ views[1] \in ViewType
           /\ ViewHolds(views[1], onScreen, puts, held, capital, Owed, store, poll)
<1>1. views \in Seq(ViewType)
  BY DEF StashInv, OneView
<1>2. DOMAIN views = {1} /\ views[1] \in ViewType
  BY <1>1, LenProperties, ElementOfSeq
<1> QED
  BY <1>1, <1>2 DEF StashInv, Views, last

LEMMA ViewThere ==
    ASSUME StashInv
    PROVE  (onScreen => Len(views) = 1) /\ (\A v \in Views : v = 1 /\ Len(views) = 1) /\ (Len(views) = 1 \/ views = <<>>)
<1>1. views \in Seq(ViewType) /\ Len(views) <= 1 /\ (onScreen => Len(views) = 1)
  BY DEF StashInv, OneView
<1>2. Len(views) \in Nat /\ DOMAIN views = 1..Len(views)
  BY <1>1, LenProperties
<1>3. Len(views) = 0 => views = <<>>
  BY <1>1, EmptySeq
<1> QED
  BY <1>1, <1>2, <1>3 DEF Views

-----------------------------------------------------------------------------
LEMMA OwedStays == ASSUME UNCHANGED ledger PROVE Owed' = Owed
  BY DEF Owed, credited

(* A view whose flags change and nothing else.                             *)
LEMMA FlagsOnly ==
    ASSUME NEW u \in ViewType, NEW w \in ViewType, NEW shown, NEW seen, NEW P, NEW own, NEW cap, NEW owed, NEW copy, NEW ask,
           ViewHolds(u, shown, P, own, cap, owed, copy, ask), Flags(w, seen),
           w.qty = u.qty, w.pending = u.pending, w.added = u.added, w.recounted = u.recounted,
           (w.fetch = "reading") <=> (u.fetch = "reading"),
           ~Unsent(w, seen) => ~Unsent(u, shown)
    PROVE  ViewHolds(w, seen, P, own, cap, owed, copy, ask)
<1>1. Sent(u, shown, P, cap) => Sent(w, seen, P, cap)
  BY DEF Sent
<1>2. MakesUp(u, P, own, owed) => MakesUp(w, P, own, owed)
  <2>1. \A c : (Recounts(w, P, c) <=> Recounts(u, P, c)) /\ Unseen(w, c) = Unseen(u, c)
    BY DEF Recounts, Unseen
  <2> QED
    BY <2>1 DEF MakesUp
<1> QED
  BY <1>1, <1>2 DEF ViewHolds

LEMMA StashStart == StashInit => StashInv
<1> SUFFICES ASSUME StashInit PROVE StashInv
  OBVIOUS
<1>1. /\ capital = [c \in Coins |-> 0] /\ held = capital /\ ledger = <<>> /\ views = <<>> /\ puts = {} /\ onScreen = FALSE
      /\ store = [capital |-> capital, saving |-> FALSE, writes |-> 0] /\ poll = NoPoll
  BY DEF StashInit
<1>2. capital \in Quantities /\ \A c \in Coins : capital[c] = 0
  BY <1>1 DEF Quantities
<1>3. store.capital = capital /\ store.writes = 0 /\ store \in [capital : Quantities, saving : BOOLEAN, writes : Nat]
  BY <1>1, <1>2
<1>4. poll.writes = -1 /\ poll \in [writes : Int, capital : [Coins -> Int]]
  BY <1>1 DEF NoPoll, Nothing
<1>5. ledger \in Seq(SaleType) /\ views \in Seq(ViewType) /\ Len(views) = 0 /\ DOMAIN views = {}
  BY <1>1, EmptySeq
<1>6. StashTypes /\ OneView
  <2>1. held \in Quantities /\ puts \in SUBSET PutType /\ onScreen \in BOOLEAN
        /\ \A p \in puts : p.nth < store.writes
    BY <1>1, <1>2
  <2> QED
    BY <1>1, <1>2, <1>3, <1>4, <1>5, <2>1 DEF StashTypes, OneView
<1>7. \A c \in Coins : Owed[c] = 0
  <2>1. \A c \in Coins : Due(ledger, c) = {}
    BY <1>1 DEF Due
  <2>2. \A c \in Coins : credited(c) = Cardinality(Due(ledger, c))
    BY DEF credited, Due
  <2> QED
    BY <2>1, <2>2, FS_EmptySet DEF Owed
<1>8. Untouched(FALSE, puts, held, capital, Owed, store, poll)
  BY <1>1, <1>2, <1>3, <1>4, <1>7 DEF Untouched
<1> QED
  BY <1>5, <1>6, <1>8 DEF StashInv, Views

LEMMA StashOpens == ASSUME StashInv, MaxStashVisits = 1, OpenTab PROVE StashInv'
<1>1. /\ last < 1 /\ onScreen' = TRUE /\ views' = Append(views, NewView)
      /\ UNCHANGED <<capital, ledger, store, puts, poll, held, edits, salesFetches, polls>>
  BY DEF OpenTab
<1>2. views \in Seq(ViewType) /\ Len(views) \in Nat /\ (Len(views) = 1 \/ views = <<>>)
  BY ViewThere, LenProperties DEF StashInv, OneView
<1>3. views = <<>>
  BY <1>1, <1>2 DEF last
<1>4. NewView \in ViewType /\ NewView.qty = Nothing /\ NewView.pending = Nothing /\ NewView.timer = FALSE /\ NewView.hold = FALSE
      /\ NewView.recounted = {} /\ NewView.fetch = "none"
  BY DEF NewView, ViewType, Nothing, Quantities
<1>5. views' \in Seq(ViewType) /\ Len(views') = 1 /\ DOMAIN views' = {1} /\ views'[1] = NewView /\ views' # <<>>
  <2>1. views' \in Seq(ViewType) /\ Len(views') = Len(views) + 1 /\ views'[Len(views) + 1] = NewView /\ views' # <<>>
    BY <1>1, <1>2, <1>4, AppendProperties
  <2>2. Len(views) = 0
    BY <1>3
  <2>3. DOMAIN views' = 1..1
    BY <2>1, <2>2, LenProperties
  <2> QED
    BY <2>1, <2>2, <2>3
<1>6. Owed' = Owed
  BY <1>1, OwedStays
<1>7. Untouched(FALSE, puts, held, capital, Owed, store, poll)
  BY <1>3 DEF StashInv
<1>8. Flags(NewView, TRUE)
  BY <1>4 DEF Flags
<1>9. ViewHolds(NewView, onScreen', puts', held', capital', Owed', store', poll')
  BY <1>1, <1>4, <1>6, <1>7, <1>8 DEF ViewHolds, Untouched
<1>10. StashTypes' /\ OneView'
  BY <1>1, <1>5 DEF StashInv, StashTypes, OneView
<1> QED
  BY <1>5, <1>9, <1>10 DEF StashInv, Views

LEMMA StashSeeds == ASSUME StashInv, Trouble = {}, Seed PROVE StashInv'
<1> DEFINE u == views[1]
<1>1. /\ views \in Seq(ViewType) /\ last = 1 /\ u \in ViewType /\ Len(views) = 1 /\ onScreen = TRUE
      /\ ViewHolds(u, onScreen, puts, held, capital, Owed, store, poll) /\ StashTypes
  BY ViewThere, TheView DEF Seed, StashInv
<1>2. u.qty = Nothing /\ u.fetch = "none" /\ views' = [views EXCEPT ![1].qty = store.capital]
      /\ UNCHANGED <<capital, ledger, store, onScreen, puts, poll, held, edits, salesFetches, polls>>
  BY <1>1 DEF Seed, busy
<1>3. PICK w : w = [u EXCEPT !.qty = store.capital]
  OBVIOUS
<1>4. views' = [views EXCEPT ![1] = w]
  BY <1>2, <1>3
<1>5. puts = {} /\ u.pending = Nothing /\ store.capital = capital /\ \A c \in Coins : held[c] = capital[c] + Owed[c]
  BY <1>1, <1>2 DEF ViewHolds, Untouched
<1> HIDE DEF u
<1>5a. capital \in Quantities /\ capital \in [Coins -> Int]
  BY <1>1 DEF StashTypes, Quantities
<1>6. w \in ViewType /\ w.qty = capital /\ w.pending = Nothing /\ w.fetch = "none"
      /\ w.timer = u.timer /\ w.hold = u.hold /\ w.recounted = u.recounted
  BY <1>1, <1>2, <1>3, <1>5, <1>5a DEF ViewType
<1>7. Flags(w, onScreen) /\ w.recounted = {}
  BY <1>1, <1>2, <1>5, <1>6 DEF ViewHolds, Flags
<1>8. Sent(w, onScreen, puts, capital)
  BY <1>5, <1>6 DEF Sent
<1>9. MakesUp(w, puts, held, Owed)
  <2>1. \A c \in Coins : ~Recounts(w, puts, c) /\ Unseen(w, c) = 0
    BY <1>5, <1>6, <1>7 DEF Recounts, Unseen
  <2>2. \A c \in Coins : capital[c] \in Nat
    BY <1>5a DEF Quantities
  <2> QED
    BY <1>5, <1>6, <2>1, <2>2 DEF MakesUp
<1>10. ViewHolds(w, onScreen', puts', held', capital', Owed', store', poll')
  BY <1>2, <1>5a, <1>6, <1>7, <1>8, <1>9, OwedStays, NotNothing DEF ViewHolds
<1>11. StashTypes'
  BY <1>1, <1>2 DEF StashTypes
<1> QED
  BY <1>1, <1>4, <1>6, <1>10, <1>11, ViewStep

(* A step that sends what is pending, in the view w it leaves: nothing is  *)
(* lost on the way, and a count goes with it.                              *)
LEMMA StashSends ==
    ASSUME StashInv, Len(views) = 1, NEW w \in ViewType, NEW u, u = views[1], u.pending # Nothing,
           views' = [views EXCEPT ![1] = w], puts' = puts \cup {putOf(1, u.pending)}, store' = saving,
           onScreen' \in BOOLEAN, UNCHANGED <<capital, ledger, poll, held>>,
           w.qty = u.qty, w.added = u.added, w.recounted = {}, (w.fetch = "reading") <=> (u.fetch = "reading"),
           Flags(w, onScreen')
    PROVE  StashInv'
<1>1. /\ views \in Seq(ViewType) /\ u \in ViewType /\ StashTypes
      /\ ViewHolds(u, onScreen, puts, held, capital, Owed, store, poll)
  BY TheView DEF StashInv
<1>2. u.pending = u.qty /\ u.qty # Nothing /\ u.qty \in Quantities /\ MakesUp(u, puts, held, Owed)
  BY <1>1 DEF ViewHolds, Flags
<1>3. PICK p0 : p0 = putOf(1, u.pending)
  OBVIOUS
<1>4. p0 = [of |-> 1, qty |-> u.pending, counted |-> u.recounted, nth |-> store.writes]
  BY <1>3 DEF putOf
<1>5. puts \subseteq PutType /\ (\A p \in puts : p.nth < store.writes) /\ store.writes \in Nat
      /\ store \in [capital : Quantities, saving : BOOLEAN, writes : Nat] /\ poll.writes \in Int /\ poll.writes <= store.writes
  BY <1>1 DEF StashTypes
<1>6. PICK copy : copy = store
  OBVIOUS
<1>7. PICK P : P = puts \cup {p0}
  OBVIOUS
<1>8. P = puts' /\ p0.of = 1 /\ p0.qty = u.qty /\ p0.counted = u.recounted /\ p0.nth = copy.writes
  BY <1>2, <1>3, <1>4, <1>6, <1>7
<1>9. P \subseteq PutType /\ \A p \in P : p.nth < copy.writes + 1
  <2>1. p0 \in PutType
    BY <1>1, <1>2, <1>4, <1>5 DEF PutType, ViewType
  <2>2. copy.writes \in Nat /\ (\A p \in puts : p.nth < copy.writes /\ p.nth \in Nat)
    BY <1>5, <1>6 DEF PutType
  <2> QED
    BY <1>5, <1>7, <1>8, <2>1, <2>2
<1>10. \A shown : Sent(w, shown, P, capital)
  <2>1. LastPut(p0, P)
    BY <1>5, <1>6, <1>7, <1>8 DEF LastPut
  <2>2. p0 \in P /\ P # {} /\ p0.qty = w.qty
    BY <1>7, <1>8
  <2> QED
    BY <2>1, <2>2 DEF Sent
<1>11. MakesUp(w, P, held, Owed)
  <2>1. \A c : Recounts(w, P, c) <=> Recounts(u, puts, c)
    BY <1>7, <1>8 DEF Recounts
  <2>2. \A c : Unseen(w, c) = Unseen(u, c)
    BY DEF Unseen
  <2> QED
    BY <1>2, <2>1, <2>2 DEF MakesUp
<1>12. PICK new : new = [copy EXCEPT !.saving = TRUE, !.writes = copy.writes + 1]
  OBVIOUS
<1>13. store' = new
  BY <1>6, <1>12 DEF saving
<1>14. copy \in [capital : Quantities, saving : BOOLEAN, writes : Nat]
  BY <1>5, <1>6
<1>15. new \in [capital : Quantities, saving : BOOLEAN, writes : Nat] /\ new.writes = copy.writes + 1
  <2>1. PICK n \in Nat : n = copy.writes + 1
    BY <1>14
  <2>2. new = [copy EXCEPT !.saving = TRUE, !.writes = n]
    BY <1>12, <2>1
  <2> QED
    BY <1>14, <2>1, <2>2
<1>16. StashTypes'
  <2>1. poll.writes <= new.writes /\ \A p \in P : p.nth < new.writes
    BY <1>5, <1>6, <1>9, <1>15
  <2> QED
    BY <1>1, <1>8, <1>9, <1>13, <1>15, <2>1 DEF StashTypes
<1>17. ViewHolds(w, onScreen', puts', held', capital', Owed', store', poll')
  BY <1>2, <1>8, <1>10, <1>11, OwedStays DEF ViewHolds
<1> QED
  BY <1>16, <1>17, ViewStep

(* A step that changes the flags of the view.                              *)
LEMMA StashFlags ==
    ASSUME StashInv, Len(views) = 1, NEW w \in ViewType, NEW u, u = views[1], views' = [views EXCEPT ![1] = w],
           onScreen' \in BOOLEAN, UNCHANGED <<capital, ledger, store, puts, poll, held>>, Flags(w, onScreen'),
           w.qty = u.qty, w.pending = u.pending, w.added = u.added, w.recounted = u.recounted,
           (w.fetch = "reading") <=> (u.fetch = "reading"),
           ~Unsent(w, onScreen') => ~Unsent(u, onScreen)
    PROVE  StashInv'
<1>1. /\ u \in ViewType /\ ViewHolds(u, onScreen, puts, held, capital, Owed, store, poll) /\ StashTypes
  BY TheView DEF StashInv
<1>2. ViewHolds(w, onScreen', puts, held, capital, Owed, store, poll)
  BY <1>1, FlagsOnly
<1>3. StashTypes'
  BY <1>1 DEF StashTypes
<1> QED
  BY <1>2, <1>3, OwedStays, ViewStep

LEMMA StashLeaves == ASSUME StashInv, LeaveTab PROVE StashInv'
<1>1. /\ onScreen /\ onScreen' = FALSE /\ Len(views) = 1 /\ last = 1
      /\ UNCHANGED <<capital, ledger, poll, held, edits, salesFetches, polls>>
  BY ViewThere DEF LeaveTab, last
<1>2. PICK u : u = views[1]
  OBVIOUS
<1>3. u \in ViewType /\ ViewHolds(u, onScreen, puts, held, capital, Owed, store, poll)
  BY <1>1, <1>2, TheView
<1>4. CASE u.pending = Nothing
  <2>1. PICK w : w = [u EXCEPT !.timer = FALSE]
    OBVIOUS
  <2>2. views' = [views EXCEPT ![1] = w] /\ UNCHANGED <<puts, store>>
    BY <1>1, <1>2, <1>4, <2>1 DEF LeaveTab
  <2>3. w \in ViewType /\ w.qty = u.qty /\ w.pending = u.pending /\ w.added = u.added /\ w.recounted = u.recounted
        /\ w.fetch = u.fetch /\ w.timer = FALSE /\ w.hold = u.hold
    BY <1>3, <2>1 DEF ViewType
  <2>4. ~u.timer /\ Flags(w, FALSE)
    BY <1>3, <1>4, <2>3 DEF ViewHolds, Flags
  <2>5. ~Unsent(u, onScreen)
    BY <1>4, <2>4 DEF Unsent
  <2> QED
    BY <1>1, <1>2, <2>2, <2>3, <2>4, <2>5, StashFlags
<1>5. CASE u.pending # Nothing
  <2>1. PICK w : w = forgot([u EXCEPT !.timer = FALSE])
    OBVIOUS
  <2>2. views' = [views EXCEPT ![1] = w] /\ puts' = puts \cup {putOf(1, u.pending)} /\ store' = saving
    BY <1>1, <1>2, <1>5, <2>1 DEF LeaveTab
  <2>3. w \in ViewType /\ w.qty = u.qty /\ w.pending = u.pending /\ w.added = u.added /\ w.recounted = {}
        /\ w.fetch = u.fetch /\ w.timer = FALSE /\ w.hold = u.hold
    BY <1>3, <2>1 DEF ViewType, forgot
  <2>4. Flags(w, FALSE)
    BY <1>3, <1>5, <2>3 DEF ViewHolds, Flags
  <2> QED
    BY <1>1, <1>2, <1>5, <2>2, <2>3, <2>4, StashSends
<1> QED
  BY <1>4, <1>5

LEMMA StashTimer == ASSUME StashInv, NEW v \in Views, TimerFires(v) PROVE StashInv'
<1>1. v = 1 /\ Len(views) = 1
  BY ViewThere
<1>2. PICK u : u = views[1]
  OBVIOUS
<1>3. u \in ViewType /\ ViewHolds(u, onScreen, puts, held, capital, Owed, store, poll) /\ onScreen \in BOOLEAN
  BY <1>1, <1>2, TheView DEF StashInv, StashTypes
<1>4. PICK w : w = forgot([u EXCEPT !.timer = FALSE, !.pending = Nothing])
  OBVIOUS
<1>5. /\ u.timer /\ views' = [views EXCEPT ![1] = w] /\ puts' = puts \cup {putOf(1, u.pending)} /\ store' = saving
      /\ UNCHANGED <<capital, ledger, onScreen, poll, held, edits, salesFetches, polls>>
  BY <1>1, <1>2, <1>4 DEF TimerFires
<1>6. Nothing \in [Coins -> Int]
  BY DEF Nothing
<1>7. w \in ViewType /\ w.qty = u.qty /\ w.pending = Nothing /\ w.added = u.added /\ w.recounted = {}
      /\ w.fetch = u.fetch /\ w.timer = FALSE /\ w.hold = u.hold
  BY <1>3, <1>4, <1>6 DEF ViewType, forgot
<1>8. u.pending # Nothing /\ Flags(w, onScreen)
  BY <1>3, <1>5, <1>7 DEF ViewHolds, Flags
<1> QED
  BY <1>1, <1>2, <1>3, <1>5, <1>7, <1>8, StashSends

LEMMA StashRefreshes == ASSUME StashInv, Refresh PROVE StashInv'
<1>1. Len(views) = 1 /\ last = 1 /\ onScreen = TRUE /\ UNCHANGED <<capital, ledger, onScreen, poll, held, edits, polls>>
  BY ViewThere DEF Refresh, last, StashInv, StashTypes
<1>2. PICK u : u = views[1]
  OBVIOUS
<1>3. u \in ViewType /\ ViewHolds(u, onScreen, puts, held, capital, Owed, store, poll) /\ u.fetch = "none"
  BY <1>1, <1>2, TheView DEF Refresh, busy
<1>4. CASE u.pending = Nothing
  <2>1. PICK w : w = hold([u EXCEPT !.fetch = "asking"])
    OBVIOUS
  <2>2. views' = [views EXCEPT ![1] = w] /\ UNCHANGED <<puts, store>>
    BY <1>1, <1>2, <1>4, <2>1 DEF Refresh
  <2>3. w \in ViewType /\ w.qty = u.qty /\ w.pending = u.pending /\ w.added = u.added /\ w.recounted = u.recounted
        /\ w.fetch = "asking" /\ w.timer = FALSE /\ w.hold = TRUE
    BY <1>3, <2>1 DEF ViewType, hold
  <2>4. ~u.timer /\ Flags(w, onScreen)
    BY <1>3, <1>4, <2>3 DEF ViewHolds, Flags
  <2>5. ~Unsent(u, onScreen)
    BY <1>4, <2>4 DEF Unsent
  <2> QED
    BY <1>1, <1>2, <1>3, <2>2, <2>3, <2>4, <2>5, StashFlags
<1>5. CASE u.pending # Nothing
  <2>1. PICK w : w = forgot([u EXCEPT !.timer = FALSE, !.pending = Nothing, !.fetch = "flushing"])
    OBVIOUS
  <2>2. views' = [views EXCEPT ![1] = w] /\ puts' = puts \cup {putOf(1, u.pending)} /\ store' = saving
    BY <1>1, <1>2, <1>5, <2>1 DEF Refresh
  <2>3. Nothing \in [Coins -> Int]
    BY DEF Nothing
  <2>4. w \in ViewType /\ w.qty = u.qty /\ w.pending = Nothing /\ w.added = u.added /\ w.recounted = {}
        /\ w.fetch = "flushing" /\ w.timer = FALSE /\ w.hold = u.hold
    BY <1>3, <2>1, <2>3 DEF ViewType, forgot
  <2>5. Flags(w, onScreen)
    BY <1>3, <1>5, <2>4 DEF ViewHolds, Flags
  <2> QED
    BY <1>1, <1>2, <1>3, <1>5, <2>2, <2>4, <2>5, StashSends
<1> QED
  BY <1>4, <1>5

LEMMA StashFails == ASSUME StashInv, NEW v \in Views, FetchFails(v) PROVE StashInv'
<1>1. v = 1 /\ Len(views) = 1
  BY ViewThere
<1>2. PICK u : u = views[1]
  OBVIOUS
<1>3. u \in ViewType /\ ViewHolds(u, onScreen, puts, held, capital, Owed, store, poll) /\ onScreen \in BOOLEAN
  BY <1>1, <1>2, TheView DEF StashInv, StashTypes
<1>4. PICK w : w = [u EXCEPT !.fetch = "done"]
  OBVIOUS
<1>5. u.fetch = "asking" /\ views' = [views EXCEPT ![1] = w]
      /\ UNCHANGED <<capital, ledger, store, onScreen, puts, poll, held, edits, salesFetches, polls>>
  BY <1>1, <1>2, <1>4 DEF FetchFails
<1>6. w \in ViewType /\ w.qty = u.qty /\ w.pending = u.pending /\ w.added = u.added /\ w.recounted = u.recounted
      /\ w.fetch = "done" /\ w.timer = u.timer /\ w.hold = u.hold
  BY <1>3, <1>4 DEF ViewType
<1>7. Flags(w, onScreen) /\ (Unsent(w, onScreen) <=> Unsent(u, onScreen))
  BY <1>3, <1>5, <1>6 DEF ViewHolds, Flags, Unsent
<1> QED
  BY <1>1, <1>2, <1>3, <1>5, <1>6, <1>7, StashFlags

LEMMA StashFetchEnds == ASSUME StashInv, NEW v \in Views, FetchEnds(v) PROVE StashInv'
<1>1. v = 1 /\ Len(views) = 1
  BY ViewThere
<1>2. PICK u : u = views[1]
  OBVIOUS
<1>3. u \in ViewType /\ ViewHolds(u, onScreen, puts, held, capital, Owed, store, poll) /\ onScreen \in BOOLEAN
  BY <1>1, <1>2, TheView DEF StashInv, StashTypes
<1>4. PICK w : w = [release(u) EXCEPT !.fetch = "none"]
  OBVIOUS
<1>5. u.fetch = "done" /\ views' = [views EXCEPT ![1] = w]
      /\ UNCHANGED <<capital, ledger, store, onScreen, puts, poll, held, edits, salesFetches, polls>>
  BY <1>1, <1>2, <1>4 DEF FetchEnds
<1>6. w \in ViewType /\ w.qty = u.qty /\ w.pending = u.pending /\ w.added = u.added /\ w.recounted = u.recounted
      /\ w.fetch = "none" /\ w.timer = (u.timer \/ u.pending # Nothing) /\ w.hold = FALSE
  BY <1>3, <1>4 DEF ViewType, release
<1>7. Flags(w, onScreen) /\ (~Unsent(w, onScreen) => ~Unsent(u, onScreen))
  BY <1>3, <1>5, <1>6 DEF ViewHolds, Flags, Unsent
<1> QED
  BY <1>1, <1>2, <1>3, <1>5, <1>6, <1>7, StashFlags

LEMMA OwedNext == \A c \in Coins : Owed'[c] = Cardinality(Due(ledger', c))
  BY DEF Owed, credited, Due

(* A step that puts an edit, q, in the view.                               *)
LEMMA StashEdits ==
    ASSUME StashInv, Len(views) = 1, onScreen = TRUE, NEW u, u = views[1], NEW q \in Quantities, NEW w \in ViewType,
           views' = [views EXCEPT ![1] = w], held' \in Quantities,
           UNCHANGED <<capital, ledger, store, onScreen, puts, poll>>,
           w.qty = q, w.pending = q, w.timer = ~u.hold, w.hold = u.hold, w.fetch = u.fetch,
           w.recounted # {} => u.recounted # {} \/ u.fetch = "none",
           MakesUp(w, puts, held', Owed)
    PROVE  StashInv'
<1>1. /\ u \in ViewType /\ ViewHolds(u, onScreen, puts, held, capital, Owed, store, poll) /\ StashTypes
  BY TheView DEF StashInv
<1>2. q # Nothing
  BY NotNothing
<1>3. Flags(w, TRUE)
  BY <1>1, <1>2 DEF ViewHolds, Flags, ViewType
<1>4. Unsent(w, TRUE)
  BY <1>2 DEF Unsent
<1>5. Sent(w, TRUE, puts, capital)
  BY <1>4 DEF Sent
<1>6. ViewHolds(w, onScreen', puts', held', capital', Owed', store', poll')
  BY <1>2, <1>3, <1>5, OwedStays DEF ViewHolds
<1>7. StashTypes'
  BY <1>1 DEF StashTypes
<1> QED
  BY <1>6, <1>7, ViewStep

LEMMA StashCounts == ASSUME StashInv, Trouble = {}, NEW c \in Coins, Counts(c) PROVE StashInv'
<1>1. /\ onScreen = TRUE /\ last = 1 /\ Len(views) = 1 /\ held \in Quantities
      /\ UNCHANGED <<capital, ledger, store, onScreen, puts, poll, held, salesFetches, polls>>
  BY ViewThere DEF Counts, last, StashInv, StashTypes
<1>2. PICK u : u = views[1]
  OBVIOUS
<1>3. u \in ViewType /\ ViewHolds(u, onScreen, puts, held, capital, Owed, store, poll)
  BY <1>1, <1>2, TheView
<1>4. PICK q : q = [u.qty EXCEPT ![c] = held[c]]
  OBVIOUS
<1>5. PICK w : w = save([u EXCEPT !.qty = q, !.recounted = u.recounted \cup {c}], q)
  OBVIOUS
<1>6. u.qty # Nothing /\ u.fetch = "none" /\ views' = [views EXCEPT ![1] = w]
  BY <1>1, <1>2, <1>4, <1>5 DEF Counts, busy
<1>7. u.qty \in Quantities /\ MakesUp(u, puts, held, Owed)
  BY <1>3, <1>6 DEF ViewHolds
<1>8. q \in Quantities /\ q[c] = held[c] /\ \A d \in Coins : d # c => q[d] = u.qty[d]
  BY <1>1, <1>4, <1>7 DEF Quantities
<1>9. q \in [Coins -> Int]
  BY <1>8 DEF Quantities
<1>10. w \in ViewType /\ w.qty = q /\ w.pending = q /\ w.timer = ~u.hold /\ w.hold = u.hold /\ w.fetch = u.fetch
       /\ w.added = u.added /\ w.recounted = u.recounted \cup {c}
  BY <1>3, <1>5, <1>9 DEF ViewType, save
<1>11. MakesUp(w, puts, held, Owed)
  <2>1. Recounts(w, puts, c) /\ \A d \in Coins : d # c => (Recounts(w, puts, d) <=> Recounts(u, puts, d))
    BY <1>10 DEF Recounts
  <2>2. \A d \in Coins : Unseen(w, d) = 0 /\ Unseen(u, d) = 0
    BY <1>6, <1>10 DEF Unseen
  <2>3. held[c] \in Nat
    BY <1>1 DEF Quantities
  <2> QED
    BY <1>7, <1>8, <1>10, <2>1, <2>2, <2>3 DEF MakesUp
<1> QED
  BY <1>1, <1>2, <1>6, <1>8, <1>10, <1>11, StashEdits

LEMMA StashAdds == ASSUME StashInv, NEW c \in Coins, AddPicked(c) PROVE StashInv'
<1>1. /\ onScreen = TRUE /\ last = 1 /\ Len(views) = 1 /\ held \in Quantities /\ held' = [held EXCEPT ![c] = held[c] + 1]
      /\ UNCHANGED <<capital, ledger, store, onScreen, puts, poll, salesFetches, polls>>
  BY ViewThere DEF AddPicked, last, StashInv, StashTypes
<1>2. PICK u : u = views[1]
  OBVIOUS
<1>3. u \in ViewType /\ ViewHolds(u, onScreen, puts, held, capital, Owed, store, poll)
  BY <1>1, <1>2, TheView
<1>4. PICK q : q = [u.qty EXCEPT ![c] = u.qty[c] + 1]
  OBVIOUS
<1>5. PICK w : w = save([u EXCEPT !.qty = q], q)
  OBVIOUS
<1>6. u.qty # Nothing /\ views' = [views EXCEPT ![1] = w]
  BY <1>1, <1>2, <1>4, <1>5 DEF AddPicked, addAmount
<1>7. u.qty \in Quantities /\ MakesUp(u, puts, held, Owed)
  BY <1>3, <1>6 DEF ViewHolds
<1>8. q \in Quantities /\ held' \in Quantities
      /\ \A d \in Coins : q[d] = u.qty[d] + (IF d = c THEN 1 ELSE 0) /\ held'[d] = held[d] + (IF d = c THEN 1 ELSE 0)
  BY <1>1, <1>4, <1>7 DEF Quantities
<1>9. q \in [Coins -> Int]
  BY <1>8 DEF Quantities
<1>10. w \in ViewType /\ w.qty = q /\ w.pending = q /\ w.timer = ~u.hold /\ w.hold = u.hold /\ w.fetch = u.fetch
       /\ w.added = u.added /\ w.recounted = u.recounted
  BY <1>3, <1>5, <1>9 DEF ViewType, save
<1>11. PICK own : own = held'
  OBVIOUS
<1>12. MakesUp(w, puts, own, Owed)
  <2>1. \A d \in Coins : (Recounts(w, puts, d) <=> Recounts(u, puts, d)) /\ Unseen(w, d) = Unseen(u, d)
    BY <1>10 DEF Recounts, Unseen
  <2>2. \A d \in Coins : u.qty[d] \in Nat /\ held[d] \in Nat /\ Unseen(u, d) \in Nat /\ Owed[d] \in Nat
    BY <1>1, <1>3, <1>7, OwedIs DEF Quantities, ViewType, Unseen
  <2> QED
    BY <1>7, <1>8, <1>10, <1>11, <2>1, <2>2 DEF MakesUp
<1> QED
  BY <1>1, <1>2, <1>6, <1>8, <1>10, <1>11, <1>12, StashEdits

(* An item sells: one more to be credited, of a currency no count of which *)
(* is on the way.                                                          *)
LEMMA StashSells == ASSUME StashInv, Trouble = {}, NEW c \in Coins, Sells(c) PROVE StashInv'
<1>1. /\ held' = [held EXCEPT ![c] = held[c] + 1] /\ ledger' = Append(ledger, [of |-> c, known |-> FALSE, after |-> TRUE])
      /\ UNCHANGED <<capital, store, views, onScreen, puts, poll, edits, salesFetches, polls>>
      /\ (\A v \in Views : c \notin views[v].recounted) /\ \A p \in puts : c \notin p.counted
  BY DEF Sells
<1>2. StashTypes /\ ledger \in Seq(SaleType) /\ held \in Quantities
  BY DEF StashInv, StashTypes
<1>3. /\ ledger' \in Seq(SaleType)
      /\ \A d \in Coins : Cardinality(Due(ledger', d)) = Cardinality(Due(ledger, d)) + (IF d = c THEN 1 ELSE 0)
  BY <1>1, <1>2, DueSold
<1>4. \A d \in Coins : Owed'[d] = Owed[d] + (IF d = c THEN 1 ELSE 0) /\ Owed[d] \in Nat
  BY <1>3, OwedIs, OwedNext
<1>5. held' \in Quantities /\ \A d \in Coins : held'[d] = held[d] + (IF d = c THEN 1 ELSE 0) /\ held[d] \in Nat
  BY <1>1, <1>2 DEF Quantities
<1>6. PICK own : own = held'
  OBVIOUS
<1>7. PICK owed : owed = Owed'
  OBVIOUS
<1>8. capital \in Quantities
  BY <1>2 DEF StashTypes
<1>9. ASSUME NEW b \in BOOLEAN, Untouched(b, puts, held, capital, Owed, store, poll)
      PROVE  Untouched(b, puts, own, capital, owed, store, poll)
  <2>1. \A d \in Coins : capital[d] \in Nat
    BY <1>8 DEF Quantities
  <2> QED
    BY <1>4, <1>5, <1>6, <1>7, <1>9, <2>1 DEF Untouched
<1>10. ASSUME NEW v \in Views PROVE ViewHolds(views[v], onScreen, puts, own, capital, owed, store, poll)
  <2>1. PICK u : u = views[1]
    OBVIOUS
  <2>2. v = 1 /\ u \in ViewType /\ ViewHolds(u, onScreen, puts, held, capital, Owed, store, poll)
    BY <2>1, ViewThere, TheView
  <2>3. ~Recounts(u, puts, c)
    BY <1>1, <2>1, <2>2 DEF Recounts
  <2>4. ASSUME u.qty # Nothing PROVE MakesUp(u, puts, own, owed)
    <3>1. u.qty \in Quantities /\ MakesUp(u, puts, held, Owed)
      BY <2>2, <2>4 DEF ViewHolds
    <3>2. \A d \in Coins : u.qty[d] \in Nat /\ Unseen(u, d) \in Nat
      BY <2>2, <3>1 DEF Quantities, ViewType, Unseen
    <3> QED
      BY <1>4, <1>5, <1>6, <1>7, <2>3, <3>1, <3>2 DEF MakesUp
  <2>5. ViewHolds(u, onScreen, puts, own, capital, owed, store, poll)
    BY <1>9, <2>2, <2>4 DEF ViewHolds
  <2> QED
    BY <2>1, <2>2, <2>5
<1>11. StashTypes' /\ OneView'
  BY <1>1, <1>2, <1>3, <1>5 DEF StashTypes, StashInv, OneView
<1>12. views = <<>> => Untouched(FALSE, puts, own, capital, owed, store, poll)
  BY <1>9 DEF StashInv
<1> QED
  BY <1>1, <1>6, <1>7, <1>10, <1>11, <1>12 DEF StashInv, Views

(* The oldest save lands: what it counted is in it, and a fetch that       *)
(* waited for it goes on.                                                  *)
LEMMA StashLands == ASSUME StashInv, Trouble = {}, NEW p \in puts, SaveLands(p) PROVE StashInv'
<1>1. /\ \A o \in puts : ~(o.nth < p.nth)
      /\ capital' = p.qty /\ puts' = puts \ {p}
      /\ ledger' = [i \in DOMAIN ledger |-> [ledger[i] EXCEPT !.after = ledger[i].after /\ ledger[i].of \notin p.counted]]
      /\ store' = [capital |-> p.qty, saving |-> FALSE, writes |-> store.writes + 1]
      /\ views' = [v \in Views |-> IF v = p.of /\ views[v].fetch = "flushing" THEN hold([views[v] EXCEPT !.fetch = "asking"])
                                   ELSE views[v]]
      /\ UNCHANGED <<onScreen, poll, held, edits, salesFetches, polls>>
  BY DEF SaveLands
<1>2. /\ StashTypes /\ ledger \in Seq(SaleType) /\ p \in PutType /\ p.of = 1 /\ p.qty \in Quantities /\ p.counted \subseteq Coins
      /\ puts \subseteq PutType /\ store.writes \in Nat /\ poll.writes \in Int /\ poll.writes <= store.writes
      /\ \A o \in puts : o.nth \in Nat /\ o.nth < store.writes
  BY DEF StashInv, StashTypes, PutType
<1>3. Len(views) = 1
  BY ViewThere DEF StashInv, Untouched
<1>4. PICK u : u = views[1]
  OBVIOUS
<1>5. u \in ViewType /\ ViewHolds(u, onScreen, puts, held, capital, Owed, store, poll) /\ Views = {1} /\ onScreen \in BOOLEAN
  BY <1>2, <1>3, <1>4, TheView DEF StashTypes
<1>6. u.qty # Nothing /\ u.qty \in Quantities /\ Flags(u, onScreen) /\ Sent(u, onScreen, puts, capital) /\ MakesUp(u, puts, held, Owed)
  BY <1>5 DEF ViewHolds, Untouched
<1>7. PICK w : w = IF u.fetch = "flushing" THEN hold([u EXCEPT !.fetch = "asking"]) ELSE u
  OBVIOUS
<1>8. views' = [views EXCEPT ![1] = w]
  <2>1. DOMAIN views = {1}
    BY <1>5 DEF Views
  <2> QED
    BY <1>1, <1>2, <1>4, <1>5, <1>7, <2>1
<1>9. /\ w \in ViewType /\ w.qty = u.qty /\ w.pending = u.pending /\ w.added = u.added /\ w.recounted = u.recounted
      /\ u.fetch = "flushing" => w.fetch = "asking" /\ w.timer = FALSE /\ w.hold = TRUE
      /\ u.fetch # "flushing" => w = u
  BY <1>5, <1>7 DEF ViewType, hold
<1>10. Flags(w, onScreen) /\ (~Unsent(w, onScreen) => ~Unsent(u, onScreen))
  <2>1. CASE u.fetch = "flushing"
    BY <1>5, <1>6, <1>9, <2>1 DEF Flags, Unsent
  <2>2. CASE u.fetch # "flushing"
    BY <1>6, <1>9, <2>2
  <2> QED
    BY <2>1, <2>2
<1>11. /\ ledger' \in Seq(SaleType)
       /\ \A c \in Coins : Due(ledger', c) = IF c \in p.counted THEN {} ELSE Due(ledger, c)
  <2>1. ledger' = CountedIn(ledger, p.counted)
    BY <1>1, Zenon DEF CountedIn
  <2>2. PICK S \in SUBSET Coins : S = p.counted
    BY <1>2
  <2>3. PICK m : m = CountedIn(ledger, S)
    OBVIOUS
  <2>4. m \in Seq(SaleType) /\ \A c \in Coins : Due(m, c) = IF c \in S THEN {} ELSE Due(ledger, c)
    BY <1>2, <2>3, DueSaved
  <2>5. ledger' = m
    BY <2>1, <2>2, <2>3
  <2> QED
    BY <2>2, <2>4, <2>5
<1>12. \A c \in Coins : Owed'[c] = IF c \in p.counted THEN 0 ELSE Owed[c]
  BY <1>11, OwedIs, OwedNext, FS_EmptySet
<1>13. PICK owed : owed = Owed'
  OBVIOUS
<1>14. PICK Q : Q = puts \ {p}
  OBVIOUS
<1>15. Sent(w, onScreen, Q, p.qty)
  <2> SUFFICES ASSUME ~Unsent(w, onScreen)
               PROVE  /\ Q # {} => \E o \in Q : LastPut(o, Q) /\ o.qty = w.qty
                      /\ Q = {} => p.qty = w.qty
    BY DEF Sent
  <2>1. PICK r \in puts : LastPut(r, puts) /\ r.qty = u.qty
    BY <1>6, <1>10 DEF Sent
  <2>2. r # p \/ Q = {}
    BY <1>1, <1>14, <2>1 DEF LastPut
  <2>3. ASSUME Q # {} PROVE r \in Q /\ LastPut(r, Q)
    BY <1>14, <2>1, <2>2, <2>3 DEF LastPut
  <2>4. Q = {} => r = p
    BY <1>14
  <2> QED
    BY <1>9, <2>1, <2>3, <2>4
<1>16. MakesUp(w, Q, held, owed)
  <2>1. \A c : c \notin p.counted => (Recounts(w, Q, c) <=> Recounts(u, puts, c))
    BY <1>9, <1>14 DEF Recounts
  <2>2. \A c : c \in p.counted => Recounts(u, puts, c)
    BY DEF Recounts
  <2>3. \A c : Unseen(w, c) = Unseen(u, c)
    BY <1>9 DEF Unseen
  <2> QED
    BY <1>6, <1>9, <1>12, <1>13, <2>1, <2>2, <2>3 DEF MakesUp
<1>17. PICK copy : copy = store'
  OBVIOUS
<1>18. ViewHolds(w, onScreen, Q, held, p.qty, owed, copy, poll)
  BY <1>6, <1>9, <1>10, <1>15, <1>16 DEF ViewHolds
<1>19. StashTypes'
  <2>1. store' \in [capital : Quantities, saving : BOOLEAN, writes : Nat] /\ store'.writes = store.writes + 1
    BY <1>1, <1>2
  <2>2. poll'.writes <= store'.writes /\ (\A o \in puts' : o.nth < store'.writes) /\ puts' \subseteq PutType
    BY <1>1, <1>2, <2>1
  <2> QED
    BY <1>1, <1>2, <1>11, <2>1, <2>2 DEF StashTypes
<1>20. ViewHolds(w, onScreen', puts', held', capital', Owed', store', poll')
  BY <1>1, <1>13, <1>14, <1>17, <1>18
<1> QED
  BY <1>3, <1>8, <1>9, <1>19, <1>20, ViewStep

(* The sales are credited; the view has not seen it.                       *)
LEMMA StashIngests == ASSUME StashInv, Trouble = {}, NEW v \in Views, Ingested(v) PROVE StashInv'
<1>1. v = 1 /\ Len(views) = 1
  BY ViewThere
<1>2. PICK u : u = views[1]
  OBVIOUS
<1>3. /\ u \in ViewType /\ ViewHolds(u, onScreen, puts, held, capital, Owed, store, poll)
      /\ StashTypes /\ ledger \in Seq(SaleType) /\ capital \in Quantities
  BY <1>1, <1>2, TheView DEF StashInv, StashTypes
<1>4. PICK w : w = [u EXCEPT !.added = Owed, !.fetch = IF \E i \in DOMAIN ledger : ~ledger[i].known THEN "reading" ELSE "done"]
  OBVIOUS
<1>5. /\ u.fetch = "asking" /\ puts = {} /\ views' = [views EXCEPT ![1] = w]
      /\ capital' = [c \in Coins |-> capital[c] + Owed[c]]
      /\ ledger' = [i \in DOMAIN ledger |-> [ledger[i] EXCEPT !.known = TRUE]]
      /\ UNCHANGED <<store, onScreen, puts, poll, held, edits, salesFetches, polls>>
  BY <1>1, <1>2, <1>4 DEF Ingested, Owed
<1>6. (\A c \in Coins : Owed[c] \in Nat) /\ Owed \in Quantities
  BY OwedIs DEF Owed, Quantities
<1>7. /\ w \in ViewType /\ w.qty = u.qty /\ w.pending = u.pending /\ w.added = Owed /\ w.recounted = u.recounted
      /\ w.fetch \in {"reading", "done"} /\ w.timer = u.timer /\ w.hold = u.hold
      /\ (w.fetch = "done" => \A i \in DOMAIN ledger : ledger[i].known)
  BY <1>3, <1>4, <1>6 DEF ViewType
<1>8. Flags(w, onScreen) /\ (Unsent(w, onScreen) <=> Unsent(u, onScreen)) /\ u.recounted = {}
  BY <1>3, <1>5, <1>7 DEF ViewHolds, Flags, Unsent
<1>9. w.fetch = "done" => \A c \in Coins : Owed[c] = 0
  <2> SUFFICES ASSUME w.fetch = "done", NEW c \in Coins PROVE Owed[c] = 0
    OBVIOUS
  <2>1. Due(ledger, c) = {}
    BY <1>7 DEF Due
  <2> QED
    BY <2>1, OwedIs, FS_EmptySet
<1>10. ledger' \in Seq(SaleType) /\ \A c \in Coins : Due(ledger', c) = {}
  BY <1>3, <1>5, DueKnown
<1>11. \A c \in Coins : Owed'[c] = 0
  BY <1>10, OwedNext, FS_EmptySet
<1>12. PICK cap : cap = capital'
  OBVIOUS
<1>13. cap = [c \in Coins |-> capital[c] + Owed[c]] /\ cap \in Quantities /\ \A c \in Coins : capital[c] \in Nat
  BY <1>3, <1>5, <1>6, <1>12 DEF Quantities
<1>14. w.fetch = "done" => cap = capital
  <2>1. w.fetch = "done" => \A c \in Coins : cap[c] = capital[c]
    BY <1>9, <1>13
  <2> QED
    BY <1>3, <1>13, <2>1 DEF Quantities
<1>15. PICK owed : owed = Owed'
  OBVIOUS
<1>16. Untouched(FALSE, puts, held, capital, Owed, store, poll) => Untouched(w.fetch = "reading", puts, held, cap, owed, store, poll)
  <2> SUFFICES ASSUME Untouched(FALSE, puts, held, capital, Owed, store, poll)
               PROVE  Untouched(w.fetch = "reading", puts, held, cap, owed, store, poll)
    OBVIOUS
  <2>1. \A c \in Coins : held[c] = cap[c] + owed[c]
    BY <1>6, <1>11, <1>13, <1>15 DEF Untouched
  <2> QED
    BY <1>7, <1>14, <2>1 DEF Untouched
<1>17. ASSUME u.qty # Nothing PROVE Sent(w, onScreen, puts, cap)
  <2> SUFFICES ASSUME ~Unsent(w, onScreen), w.fetch = "reading" => w.qty = addCredit(w.qty, w.added) PROVE cap = w.qty
    BY <1>5 DEF Sent
  <2>1. capital = u.qty
    BY <1>3, <1>5, <1>8, <1>17 DEF ViewHolds, Sent
  <2>2. CASE w.fetch = "done"
    BY <1>7, <1>14, <2>1, <2>2
  <2>3. CASE w.fetch = "reading"
    BY <1>7, <1>13, <2>1, <2>3 DEF addCredit
  <2> QED
    BY <1>7, <2>2, <2>3
<1>18. ASSUME u.qty # Nothing PROVE MakesUp(w, puts, held, owed)
  <2>1. MakesUp(u, puts, held, Owed) /\ u.qty \in Quantities
    BY <1>3, <1>18 DEF ViewHolds
  <2>2. \A c : ~Recounts(w, puts, c) /\ ~Recounts(u, puts, c) /\ Unseen(u, c) = 0
    BY <1>5, <1>7, <1>8 DEF Recounts, Unseen
  <2>3. \A c \in Coins : Unseen(w, c) = Owed[c]
    BY <1>7, <1>9 DEF Unseen
  <2>4. \A c \in Coins : u.qty[c] \in Nat
    BY <2>1 DEF Quantities
  <2> QED
    BY <1>6, <1>7, <1>11, <1>15, <2>1, <2>2, <2>3, <2>4 DEF MakesUp
<1>19. ViewHolds(w, onScreen, puts, held, cap, owed, store, poll)
  BY <1>3, <1>5, <1>7, <1>8, <1>16, <1>17, <1>18 DEF ViewHolds
<1>20. StashTypes'
  BY <1>3, <1>5, <1>10, <1>12, <1>13 DEF StashTypes
<1>21. ViewHolds(w, onScreen', puts', held', capital', Owed', store', poll')
  BY <1>5, <1>12, <1>15, <1>19
<1> QED
  BY <1>1, <1>5, <1>7, <1>20, <1>21, ViewStep

(* The view sees the credit and adds it to what was typed.                 *)
LEMMA StashCredits == ASSUME StashInv, NEW v \in Views, CreditSeen(v) PROVE StashInv'
<1>1. v = 1 /\ Len(views) = 1
  BY ViewThere
<1>2. PICK u : u = views[1]
  OBVIOUS
<1>3. /\ u \in ViewType /\ ViewHolds(u, onScreen, puts, held, capital, Owed, store, poll)
      /\ StashTypes /\ capital \in Quantities /\ store.writes \in Nat /\ poll.writes \in Int /\ poll.writes <= store.writes
      /\ store \in [capital : Quantities, saving : BOOLEAN, writes : Nat] /\ onScreen \in BOOLEAN
  BY <1>1, <1>2, TheView DEF StashInv, StashTypes
<1>4. PICK q : q = addCredit(u.qty, u.added)
  OBVIOUS
<1>5. PICK w : w = IF u.qty = Nothing \/ q = u.qty THEN [u EXCEPT !.fetch = "done"]
                   ELSE [save(release([u EXCEPT !.qty = q]), q) EXCEPT !.fetch = "done"]
  OBVIOUS
<1>6. /\ u.fetch = "reading" /\ views' = [views EXCEPT ![1] = w]
      /\ store' = [store EXCEPT !.capital = capital, !.writes = store.writes + 1]
      /\ UNCHANGED <<capital, ledger, onScreen, puts, poll, held, edits, salesFetches, polls>>
  BY <1>1, <1>2, <1>4, <1>5 DEF CreditSeen
<1>7. PICK copy : copy = store'
  OBVIOUS
<1>8. copy \in [capital : Quantities, saving : BOOLEAN, writes : Nat] /\ copy.capital = capital /\ copy.writes = store.writes + 1
  <2>1. PICK old : old = store
    OBVIOUS
  <2>2. old \in [capital : Quantities, saving : BOOLEAN, writes : Nat]
    BY <1>3, <2>1
  <2>3. PICK cap : cap = capital
    OBVIOUS
  <2>4. PICK n \in Nat : n = old.writes + 1
    BY <2>2
  <2>5. copy = [old EXCEPT !.capital = cap, !.writes = n] /\ cap \in Quantities
    BY <1>3, <1>6, <1>7, <2>1, <2>3, <2>4
  <2>6. copy \in [capital : Quantities, saving : BOOLEAN, writes : Nat] /\ copy.capital = cap /\ copy.writes = n
    BY <2>2, <2>5
  <2> QED
    BY <2>1, <2>3, <2>4, <2>6
<1>9. StashTypes'
  <2>1. /\ store' \in [capital : Quantities, saving : BOOLEAN, writes : Nat] /\ poll'.writes <= store'.writes
        /\ \A p \in puts : p.nth < store.writes => p.nth < store'.writes
    BY <1>3, <1>6, <1>7, <1>8 DEF StashTypes, PutType
  <2> QED
    BY <1>3, <1>6, <2>1 DEF StashTypes
<1>10. u.hold /\ ~u.timer /\ u.recounted = {}
  BY <1>3, <1>6 DEF ViewHolds, Flags, ViewType
<1>11. u.qty \in [Coins -> Int] /\ u.added \in Quantities /\ u.pending \in [Coins -> Int]
  BY <1>3 DEF ViewType
<1>12. q = [c \in Coins |-> u.qty[c] + u.added[c]] /\ q \in [Coins -> Int]
  BY <1>4, <1>11 DEF addCredit, Quantities
<1>13. CASE u.qty = Nothing \/ q = u.qty
  <2>1. w \in ViewType /\ w.qty = u.qty /\ w.pending = u.pending /\ w.timer = u.timer /\ w.hold = u.hold
        /\ w.recounted = u.recounted /\ w.added = u.added /\ w.fetch = "done"
    BY <1>3, <1>5, <1>13 DEF ViewType
  <2>2. Flags(w, onScreen) /\ (Unsent(w, onScreen) <=> Unsent(u, onScreen))
    BY <1>3, <1>10, <2>1 DEF ViewHolds, Flags, Unsent
  <2>3. Untouched(TRUE, puts, held, capital, Owed, store, poll) => Untouched(FALSE, puts, held, capital, Owed, copy, poll)
    BY <1>3, <1>8 DEF Untouched
  <2>4. ASSUME u.qty # Nothing PROVE Sent(w, onScreen, puts, capital)
    BY <1>3, <1>4, <1>13, <2>1, <2>2, <2>4 DEF ViewHolds, Sent
  <2>5. ASSUME u.qty # Nothing PROVE MakesUp(w, puts, held, Owed)
    <3>1. MakesUp(u, puts, held, Owed) /\ u.qty \in Quantities
      BY <1>3, <2>5 DEF ViewHolds
    <3>2. \A c : (Recounts(w, puts, c) <=> Recounts(u, puts, c)) /\ Unseen(u, c) = u.added[c] /\ Unseen(w, c) = 0
      BY <1>6, <2>1 DEF Recounts, Unseen
    <3>3. \A c \in Coins : u.qty[c] \in Nat /\ u.added[c] \in Nat /\ u.qty[c] = u.qty[c] + u.added[c]
      BY <1>11, <1>12, <1>13, <2>5, <3>1 DEF Quantities
    <3>4. \A c \in Coins : u.added[c] = 0
      BY <3>3
    <3> QED
      BY <2>1, <3>1, <3>2, <3>4 DEF MakesUp
  <2>6. ViewHolds(w, onScreen, puts, held, capital, Owed, copy, poll)
    BY <1>3, <1>6, <2>1, <2>2, <2>3, <2>4, <2>5 DEF ViewHolds
  <2>7. ViewHolds(w, onScreen', puts', held', capital', Owed', store', poll')
    BY <1>6, <1>7, <2>6, OwedStays
  <2> QED
    BY <1>1, <1>6, <1>9, <2>1, <2>7, ViewStep
<1>14. CASE u.qty # Nothing /\ q # u.qty
  <2>1. u.qty \in Quantities /\ MakesUp(u, puts, held, Owed)
    BY <1>3, <1>14 DEF ViewHolds
  <2>2. q \in Quantities
    BY <1>11, <1>12, <2>1 DEF Quantities
  <2>3. q # Nothing
    BY <2>2, NotNothing
  <2>4. w = [save(release([u EXCEPT !.qty = q]), q) EXCEPT !.fetch = "done"]
    BY <1>5, <1>14
  <2>5. w \in ViewType /\ w.qty = q /\ w.pending = q /\ w.timer = TRUE /\ w.hold = FALSE
        /\ w.recounted = u.recounted /\ w.added = u.added /\ w.fetch = "done"
    BY <1>3, <1>12, <2>4 DEF ViewType, save, release
  <2>6. Flags(w, onScreen) /\ Unsent(w, onScreen)
    BY <1>10, <2>3, <2>5 DEF Flags, Unsent
  <2>7. Sent(w, onScreen, puts, capital)
    BY <2>6 DEF Sent
  <2>8. MakesUp(w, puts, held, Owed)
    <3>1. \A c : (Recounts(w, puts, c) <=> Recounts(u, puts, c)) /\ Unseen(u, c) = u.added[c] /\ Unseen(w, c) = 0
      BY <1>6, <2>5 DEF Recounts, Unseen
    <3>2. \A c \in Coins : u.qty[c] \in Nat /\ u.added[c] \in Nat /\ q[c] = u.qty[c] + u.added[c]
      BY <1>11, <1>12, <2>1 DEF Quantities
    <3> QED
      BY <2>1, <2>5, <3>1, <3>2 DEF MakesUp
  <2>9. ViewHolds(w, onScreen, puts, held, capital, Owed, copy, poll)
    BY <2>2, <2>3, <2>5, <2>6, <2>7, <2>8 DEF ViewHolds
  <2>10. ViewHolds(w, onScreen', puts', held', capital', Owed', store', poll')
    BY <1>6, <1>7, <2>9, OwedStays
  <2> QED
    BY <1>1, <1>6, <1>9, <2>5, <2>10, ViewStep
<1> QED
  BY <1>13, <1>14

(* The polls only move the app's copy.                                     *)
LEMMA StashPolled ==
    ASSUME StashInv, StashTypes', UNCHANGED <<capital, ledger, views, onScreen, puts, held>>,
           Untouched(FALSE, puts, held, capital, Owed, store, poll) => Untouched(FALSE, puts, held, capital, Owed, store', poll')
    PROVE  StashInv'
<1>1. \A b \in BOOLEAN : Untouched(b, puts, held, capital, Owed, store, poll) => Untouched(b, puts, held, capital, Owed, store', poll')
  BY DEF Untouched
<1>2. ASSUME NEW v \in Views PROVE ViewHolds(views[v], onScreen, puts, held, capital, Owed, store', poll')
  <2>1. PICK u : u = views[v]
    OBVIOUS
  <2>2. ViewHolds(u, onScreen, puts, held, capital, Owed, store, poll)
    BY <2>1 DEF StashInv
  <2> QED
    BY <1>1, <2>1, <2>2 DEF ViewHolds
<1> QED
  BY <1>1, <1>2, OwedStays DEF StashInv, OneView, Views

LEMMA StashPolls == ASSUME StashInv, PollStarts \/ PollEnds PROVE StashInv'
<1>1. /\ StashTypes /\ store \in [capital : Quantities, saving : BOOLEAN, writes : Nat] /\ capital \in Quantities
      /\ poll.writes \in Int /\ \A p \in puts : p.nth < store.writes
  BY DEF StashInv, StashTypes
<1>2. CASE PollStarts
  <2>1. /\ poll' = [writes |-> store.writes, capital |-> capital]
        /\ UNCHANGED <<capital, ledger, store, views, onScreen, puts, held, edits, salesFetches>>
    BY <1>2 DEF PollStarts
  <2>2. poll' \in [writes : Int, capital : [Coins -> Int]] /\ poll'.writes <= store.writes /\ poll'.capital = capital
    BY <1>1, <2>1 DEF Quantities
  <2>3. StashTypes'
    BY <1>1, <2>1, <2>2 DEF StashTypes
  <2>4. Untouched(FALSE, puts, held, capital, Owed, store, poll) => Untouched(FALSE, puts, held, capital, Owed, store', poll')
    BY <2>1, <2>2 DEF Untouched
  <2> QED
    BY <2>1, <2>3, <2>4, StashPolled
<1>3. CASE PollEnds
  <2>1. /\ poll # NoPoll /\ poll' = NoPoll
        /\ store' = IF store.writes = poll.writes THEN [store EXCEPT !.capital = poll.capital] ELSE store
        /\ UNCHANGED <<capital, ledger, views, onScreen, puts, held, edits, salesFetches, polls>>
    BY <1>3 DEF PollEnds
  <2>2. poll.capital \in Quantities
    BY <1>1, <2>1 DEF StashTypes
  <2>3. /\ store' \in [capital : Quantities, saving : BOOLEAN, writes : Nat] /\ store'.writes = store.writes
        /\ store'.capital = IF store.writes = poll.writes THEN poll.capital ELSE store.capital
    <3>1. CASE store.writes = poll.writes
      BY <1>1, <2>1, <2>2, <3>1
    <3>2. CASE store.writes # poll.writes
      BY <1>1, <2>1, <3>2
    <3> QED
      BY <3>1, <3>2
  <2>4. poll'.writes = -1 /\ poll' \in [writes : Int, capital : [Coins -> Int]]
    BY <2>1 DEF NoPoll, Nothing
  <2>5. store.writes \in Nat /\ poll'.writes <= store'.writes /\ poll'.writes # store'.writes
    BY <1>1, <2>3, <2>4
  <2>6. StashTypes'
    BY <1>1, <2>1, <2>3, <2>4, <2>5 DEF StashTypes
  <2>7. Untouched(FALSE, puts, held, capital, Owed, store, poll) => Untouched(FALSE, puts, held, capital, Owed, store', poll')
    BY <2>3, <2>5 DEF Untouched
  <2> QED
    BY <2>1, <2>6, <2>7, StashPolled
<1> QED
  BY <1>2, <1>3

LEMMA StashSteps ==
    ASSUME StashInv, Trouble = {}, MaxStashVisits = 1, [StashNext]_stashVars PROVE StashInv'
<1>1. ASSUME NEW p \in puts PROVE ~SaveFails(p)
  BY DEF SaveFails
<1>2. CASE UNCHANGED stashVars
  BY <1>2, OwedStays DEF stashVars, StashInv, StashTypes, OneView, Views
<1>3. CASE \E c \in Coins : Counts(c) \/ AddPicked(c) \/ Sells(c)
  BY <1>3, StashCounts, StashAdds, StashSells
<1>4. CASE \E v \in Views : TimerFires(v) \/ Ingested(v) \/ FetchFails(v) \/ CreditSeen(v) \/ FetchEnds(v)
  BY <1>4, StashTimer, StashIngests, StashFails, StashCredits, StashFetchEnds
<1>5. CASE \E p \in puts : SaveLands(p) \/ SaveFails(p)
  BY <1>1, <1>5, StashLands
<1> QED
  BY <1>2, <1>3, <1>4, <1>5, StashOpens, StashSeeds, StashLeaves, StashRefreshes, StashPolls DEF StashNext

LEMMA StashTrue == ASSUME StashInv PROVE HoldingsAreTrue
<1> SUFFICES ASSUME StashQuiet PROVE capital = held
  BY DEF HoldingsAreTrue
<1>1. /\ puts = {} /\ (\A i \in DOMAIN ledger : ledger[i].known)
      /\ \A v \in Views : views[v].fetch = "none" /\ ~views[v].timer
  BY DEF StashQuiet
<1>2. capital \in Quantities /\ held \in Quantities /\ onScreen \in BOOLEAN
  BY DEF StashInv, StashTypes
<1>3. \A c \in Coins : Owed[c] = 0
  <2>1. \A c \in Coins : Due(ledger, c) = {}
    BY <1>1 DEF Due
  <2> QED
    BY <2>1, OwedIs, FS_EmptySet
<1>4. \A c \in Coins : capital[c] \in Nat
  BY <1>2 DEF Quantities
<1>5. ASSUME NEW b \in BOOLEAN, Untouched(b, puts, held, capital, Owed, store, poll) PROVE capital = held
  <2>1. \A c \in Coins : held[c] = capital[c]
    BY <1>3, <1>4, <1>5 DEF Untouched
  <2> QED
    BY <1>2, <2>1 DEF Quantities
<1>6. CASE views = <<>>
  BY <1>5, <1>6 DEF StashInv
<1>7. CASE Len(views) = 1
  <2>1. PICK u : u = views[1]
    OBVIOUS
  <2>2. /\ u \in ViewType /\ ViewHolds(u, onScreen, puts, held, capital, Owed, store, poll)
        /\ u.fetch = "none" /\ ~u.timer
    BY <1>1, <1>7, <2>1, TheView
  <2>3. CASE u.qty = Nothing
    BY <1>5, <2>2, <2>3 DEF ViewHolds
  <2>4. CASE u.qty # Nothing
    <3>1. u.qty \in Quantities /\ MakesUp(u, puts, held, Owed) /\ Sent(u, onScreen, puts, capital)
      BY <2>2, <2>4 DEF ViewHolds
    <3>2. ~Unsent(u, onScreen)
      BY <2>2 DEF ViewHolds, Flags, Unsent
    <3>3. capital = u.qty
      BY <1>1, <2>2, <3>1, <3>2 DEF Sent
    <3>4. \A c \in Coins : held[c] = u.qty[c]
      BY <1>3, <1>4, <2>2, <3>1, <3>3 DEF MakesUp, Unseen
    <3> QED
      BY <1>2, <3>3, <3>4 DEF Quantities
  <2> QED
    BY <2>3, <2>4
<1> QED
  BY <1>6, <1>7, ViewThere

(* No sale is counted twice, none is lost and no edit is erased by a       *)
(* credit that came while it was pending, whatever the currencies and the  *)
(* order of edits, saves, sales, fetches and polls (StashView.jsx,         *)
(* lib/stash.js): when all is quiet the server holds what the user holds.  *)
(* The tab is opened once and nothing of Trouble happens; with either, TLC *)
(* shows how the two come apart.                                           *)
THEOREM HoldingsAreTrueEver ==
    ASSUME Trouble = {}, MaxStashVisits = 1 PROVE StashInit /\ [][StashNext]_stashVars => []HoldingsAreTrue
<1>1. StashInv /\ [StashNext]_stashVars => StashInv'
  BY StashSteps
<1> QED
  BY <1>1, StashStart, StashTrue, PTL
=============================================================================
