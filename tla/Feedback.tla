------------------------------ MODULE Feedback ------------------------------
(* "Report a problem": the dialog, the package it asks for, the hidden       *)
(* window that is walked through the screens, and the files kept.            *)
EXTENDS Integers, Sequences, FiniteSets, SequencesExt

CONSTANTS Dests,         \* the screens, in order
          KEEP_REPORTS,
          BlankShots,    \* can a hidden window's picture come out empty?
          MaxReports     \* bound: packages, and the times the dialog is opened
ASSUME FeedbackAssumption == Dests \in Seq(ToSet(Dests)) /\ KEEP_REPORTS \in Nat \ {0} /\ BlankShots \in BOOLEAN

VARIABLES
    jobs,      \* the packages, in the order they were asked for
    hidden,    \* the jobs whose hidden window exists
    filtered,  \* the job whose window may not write; 0 for none
    wrote,     \* ghost: a hidden window has written
    reports,   \* the reports folder, newest first
    throttle,  \* the last report made, in the last minute; 0 for none
    dialog, dialogs

feedbackVars == <<jobs, hidden, filtered, wrote, reports, throttle, dialog, dialogs>>

NoDialog == [pc |-> "closed", job |-> 0, report |-> 0]
NewJob == [pc |-> "current", at |-> 1, shots |-> {}, missing |-> {}]
Under(j) == jobs[j].pc \notin {"made", "failed"}

FeedbackInit ==
    /\ jobs = <<>> /\ hidden = {} /\ filtered = 0 /\ wrote = FALSE
    /\ \E n \in 0..KEEP_REPORTS : reports = [i \in 1..n |-> [job |-> 0, shots |-> {}, missing |-> {}, partial |-> FALSE]]
    /\ throttle = 0 /\ dialog = NoDialog /\ dialogs = 0

\* feedback:package: the last one for a minute, the one under way, or a new one.
inflightNever == {}
inflight == {j \in DOMAIN jobs : Under(j)}
OpenDialog ==
    /\ dialog.pc = "closed" /\ dialogs < MaxReports /\ dialogs' = dialogs + 1
    /\ IF throttle # 0 THEN dialog' = [pc |-> "ready", job |-> 0, report |-> throttle] /\ UNCHANGED jobs
       ELSE IF inflight # {} THEN dialog' = [pc |-> "packaging", job |-> CHOOSE j \in inflight : TRUE, report |-> 0] /\ UNCHANGED jobs
       ELSE jobs' = Append(jobs, NewJob) /\ dialog' = [pc |-> "packaging", job |-> Len(jobs) + 1, report |-> 0]
    /\ UNCHANGED <<hidden, filtered, wrote, reports, throttle>>
CloseDialog == dialog.pc # "closed" /\ dialog' = NoDialog /\ UNCHANGED <<jobs, hidden, filtered, wrote, reports, throttle, dialogs>>

Goes(j, job) == jobs' = [jobs EXCEPT ![j] = job]

\* The visible window is pictured; then the filter, and the hidden window.
Hides(j) ==
    /\ jobs[j].pc = "current" /\ Goes(j, [jobs[j] EXCEPT !.pc = "loading"])
    /\ filtered' = j /\ hidden' = hidden \cup {j}
    /\ UNCHANGED <<wrote, reports, throttle, dialog, dialogs>>

\* The walk is over, by its end or a failed load: filter off, window gone.
Unhides(j, job) ==
    /\ Goes(j, [job EXCEPT !.pc = "bundling"]) /\ filtered' = 0 /\ hidden' = hidden \ {j}
    /\ UNCHANGED <<wrote, reports, throttle, dialog, dialogs>>
Loads(j) ==
    /\ jobs[j].pc = "loading" /\ Goes(j, [jobs[j] EXCEPT !.pc = "walking"])
    /\ UNCHANGED <<hidden, filtered, wrote, reports, throttle, dialog, dialogs>>
LoadFails(j) == jobs[j].pc = "loading" /\ Unhides(j, [jobs[j] EXCEPT !.missing = ToSet(Dests)])

\* A screen is pictured, or fails, or there is no time for it.
Shoots(j) ==
    /\ jobs[j].pc = "walking" /\ jobs[j].at <= Len(Dests)
    /\ LET d == Dests[jobs[j].at]  job == [jobs[j] EXCEPT !.at = @ + 1]
       IN  \/ Goes(j, [job EXCEPT !.shots = @ \cup {d}])
           \/ Goes(j, [job EXCEPT !.missing = @ \cup {d}])
           \/ BlankShots /\ Goes(j, job)
    /\ UNCHANGED <<hidden, filtered, wrote, reports, throttle, dialog, dialogs>>
WalkEnds(j) == jobs[j].pc = "walking" /\ jobs[j].at > Len(Dests) /\ Unhides(j, jobs[j])

\* What a screen's own effects would send; the filter knows one window.
HiddenPageWrites(j) ==
    /\ j \in hidden /\ jobs[j].pc # "current" /\ wrote' = (filtered # j)
    /\ UNCHANGED <<jobs, hidden, filtered, reports, throttle, dialog, dialogs>>

prune(files) == SubSeq(files, 1, IF Len(files) > KEEP_REPORTS THEN KEEP_REPORTS ELSE Len(files))
\* Pictures are dropped until the rest fits; state and logs never fail it.
pack(j, kept) == [job |-> j, shots |-> kept, missing |-> jobs[j].missing, partial |-> kept # jobs[j].shots]
packageReport(j) ==
    /\ jobs[j].pc = "bundling" /\ Goes(j, [jobs[j] EXCEPT !.pc = "made"]) /\ throttle' = j
    /\ \E kept \in SUBSET jobs[j].shots : reports' = prune(<<pack(j, kept)>> \o reports)
    /\ UNCHANGED <<hidden, filtered, wrote, dialog, dialogs>>
PackageFails(j) ==
    /\ jobs[j].pc = "bundling" /\ Goes(j, [jobs[j] EXCEPT !.pc = "failed"])
    /\ UNCHANGED <<hidden, filtered, wrote, reports, throttle, dialog, dialogs>>
Answers ==
    /\ dialog.pc = "packaging" /\ ~Under(dialog.job)
    /\ dialog' = IF jobs[dialog.job].pc = "made" THEN [pc |-> "ready", job |-> 0, report |-> dialog.job]
                 ELSE [NoDialog EXCEPT !.pc = "error"]
    /\ UNCHANGED <<jobs, hidden, filtered, wrote, reports, throttle, dialogs>>
MinuteGone == throttle # 0 /\ throttle' = 0 /\ UNCHANGED <<jobs, hidden, filtered, wrote, reports, dialog, dialogs>>

FeedbackNext ==
    \/ OpenDialog \/ CloseDialog \/ Answers \/ MinuteGone
    \/ \E j \in DOMAIN jobs : Hides(j) \/ Loads(j) \/ LoadFails(j) \/ Shoots(j) \/ WalkEnds(j) \/ HiddenPageWrites(j) \/ packageReport(j) \/ PackageFails(j)
FeedbackSpec == FeedbackInit /\ [][FeedbackNext]_feedbackVars

-----------------------------------------------------------------------------
\* A picture that is not in the report is told of in it.
Accounted(r) == r.partial \/ r.shots \cup r.missing = ToSet(Dests)

(* The hidden window never writes (snap.js:7-9), the file that is offered is *)
(* there although old ones are pruned, and a report says what it lacks.      *)
ReportIsSound ==
    /\ ~wrote
    /\ dialog.pc = "ready" => \E i \in DOMAIN reports : reports[i].job = dialog.report
    /\ \A i \in DOMAIN reports : reports[i].job # 0 => Accounted(reports[i])
=============================================================================
