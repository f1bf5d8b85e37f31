---------------------------- MODULE ProfileTracker ----------------------------
(***************************************************************************)
(* The low-pass-rate tracker                                               *)
(* (src/pipeline/auto_result_tool/collect_lowpassratio_profiles.py): for   *)
(* each launch of prow with a low pass rate, a Jira sub-task for each of   *)
(* its suites with a low pass rate.  The sub-tasks are listed anew for     *)
(* each suite.                                                             *)
(***************************************************************************)
EXTENDS SubTasks, SequencesExt

CONSTANTS Profiles   \* the launches the portal may hold, each a sequence of
                     \* [installed, passed, failed, destructive, suites],
                     \* suites of [subject, passed, failed]

ASSUME ProfileTrackerAssumption ==
    \A p \in Profiles : p \in Seq([installed : BOOLEAN, passed : Nat, failed : Nat,
                                   destructive : BOOLEAN, suites : Seq([subject : Subject, passed : Nat, failed : Nat])])

VARIABLES
    profiles,  \* the launches, one of Profiles
    lpc,       \* "idle", "launch", "suites"
    lnum,      \* the launch at hand
    snum,      \* the suite at hand
    lseen,     \* number of sub-tasks just listed; -1: not listed yet
    lwhole,    \* history: this run passed over nothing
    ldone      \* history: the run read all launches

lvars == <<profiles, lpc, lnum, snum, lseen, lwhole, ldone, jira>>

NotListed == 0 - 1
AtMost(x, percent) == 100 * x.passed <= percent * (x.passed + x.failed)
Below(x, percent) == 100 * x.passed < percent * (x.passed + x.failed)
Ran(x) == x.passed + x.failed > 0
\* Mutant: launches are looked at whose installation failed.
WorthAnyway(l) == Ran(l) /\ AtMost(l, 90)
\* Launches with a failed installation are not looked at, nor are good ones.
Worth(l) == l.installed /\ Ran(l) /\ AtMost(l, 90)
Launch == profiles[lnum]
TheSuite == Launch.suites[snum]

LowInit ==
    /\ profiles \in Profiles /\ TasksInit
    /\ lpc = "idle" /\ lnum = 1 /\ snum = 1 /\ lseen = NotListed /\ lwhole = TRUE /\ ldone = FALSE

\* A listing of the launches that fails ends the run.
GetProwCaseResult ==
    /\ lpc = "idle"
    /\ \E a \in ReadAnswer :
         /\ Count(a)
         /\ lpc' = IF a = "ok" THEN "launch" ELSE "idle"
    /\ lnum' = 1 /\ snum' = 1 /\ lseen' = NotListed /\ lwhole' = TRUE /\ ldone' = FALSE
    /\ closed' = [closed EXCEPT !.now = 0]
    /\ UNCHANGED <<profiles, tasks>>

LaunchesDone ==
    /\ lpc = "launch" /\ lnum > Len(profiles)
    /\ lpc' = "idle" /\ ldone' = TRUE
    /\ UNCHANGED <<profiles, lnum, snum, lseen, lwhole, jira, faults>>

SkipLaunch ==
    /\ lpc = "launch" /\ lnum <= Len(profiles)
    /\ ~Worth(Launch)
    /\ lnum' = lnum + 1
    /\ UNCHANGED <<profiles, lpc, snum, lseen, lwhole, ldone, jira, faults>>

\* "return ''": a launch whose items are gone ends the run.
ReadSuites ==
    /\ lpc = "launch" /\ lnum <= Len(profiles)
    /\ Worth(Launch)
    /\ \E a \in ReadAnswer :
         /\ Count(a)
         /\ IF a # "ok" THEN lnum' = lnum + 1 /\ lwhole' = FALSE /\ UNCHANGED <<lpc, snum>>
            ELSE IF Launch.suites = <<>> THEN lpc' = "idle" /\ UNCHANGED <<lnum, snum, lwhole>>
            ELSE lpc' = "suites" /\ snum' = 1 /\ UNCHANGED <<lnum, lwhole>>
    /\ UNCHANGED <<profiles, lseen, ldone, jira>>

\* Mutant: one threshold for every suite.
LowAny(s) == Ran(s) /\ Below(s, 90)
LowSuite(s) == Ran(s) /\ Below(s, IF Launch.destructive THEN 50 ELSE 90)

NextSuite ==
    /\ lpc = "suites" /\ lseen = NotListed
    /\ snum <= Len(Launch.suites) /\ ~LowSuite(TheSuite)
    /\ snum' = snum + 1
    /\ UNCHANGED <<profiles, lpc, lnum, lseen, lwhole, ldone, jira, faults>>

SuitesDone ==
    /\ lpc = "suites" /\ snum > Len(Launch.suites)
    /\ lpc' = "launch" /\ lnum' = lnum + 1
    /\ UNCHANGED <<profiles, snum, lseen, lwhole, ldone, jira, faults>>

\* Mutant: one sub-task too many is looked at.
NTasksBeyond == Len(tasks) + 1
NTasks == Len(tasks)

ListTasks ==
    /\ lpc = "suites" /\ lseen = NotListed
    /\ snum <= Len(Launch.suites) /\ LowSuite(TheSuite)
    /\ lseen' = NTasks
    /\ UNCHANGED <<profiles, lpc, lnum, snum, lwhole, ldone, jira, faults>>

\* Mutant: the first suite tracked ends its launch.
AfterTrackLaunch(a) == "launch"
AfterTrack(a) == IF a = "ok" THEN "suites" ELSE "launch"

\* An error of Jira ends the launch: its other suites are passed over.
TrackSuite ==
    /\ lpc = "suites" /\ lseen # NotListed
    /\ \E a \in Answer :
         /\ Count(a)
         /\ CreateSubTask(TheSuite.subject, lseen, a)
         /\ lpc' = AfterTrack(a)
         /\ snum' = snum + 1
         /\ lnum' = IF lpc' = "launch" THEN lnum + 1 ELSE lnum
         /\ lwhole' = (lwhole /\ a = "ok")
    /\ lseen' = NotListed
    /\ UNCHANGED <<profiles, ldone, closed>>

LowDies == /\ lpc # "idle" /\ Die /\ lpc' = "idle" /\ lseen' = NotListed
           /\ UNCHANGED <<profiles, lnum, snum, lwhole, ldone, jira>>

LowCloses == /\ \E i \in DOMAIN tasks : CloseTask(i)
             /\ UNCHANGED <<profiles, lpc, lnum, snum, lseen, lwhole, ldone, faults>>

LowStep == \/ GetProwCaseResult \/ LaunchesDone \/ SkipLaunch \/ ReadSuites \/ NextSuite
           \/ SuitesDone \/ ListTasks \/ TrackSuite
LowNext == LowStep \/ LowDies \/ LowCloses
-----------------------------------------------------------------------------
\* Types of the tracker's state.
LowTypeOK ==
    /\ lpc \in {"idle", "launch", "suites"}
    /\ lnum \in 1..(Len(profiles) + 1) /\ snum \in Nat \ {0}
    /\ lseen \in NotListed..Len(tasks) /\ lwhole \in BOOLEAN /\ ldone \in BOOLEAN

\* A run that passed over nothing leaves a sub-task naming every suite under
\* 90% (50% of a destructive profile) of every launch that was installed, ran
\* and is at or under 90%.
LowSuitesTracked ==
    ldone /\ lwhole =>
        \A n \in DOMAIN profiles : \A m \in DOMAIN profiles[n].suites :
            LET l == profiles[n] s == l.suites[m]
            IN Ran(s) /\ l.installed /\ Ran(l) /\ AtMost(l, 90) /\ Below(s, IF l.destructive THEN 50 ELSE 90) => Tracked(s.subject)

\* The converse: no sub-task for a suite that is not low in any of these.
OnlyLowTracked ==
    \A i \in DOMAIN tasks : \E n \in DOMAIN profiles : \E m \in DOMAIN profiles[n].suites :
        LET l == profiles[n] s == l.suites[m]
        IN /\ s.subject = tasks[i].subject /\ l.installed /\ Ran(l) /\ AtMost(l, 90)
           /\ Ran(s) /\ Below(s, IF l.destructive THEN 50 ELSE 90)
=============================================================================
