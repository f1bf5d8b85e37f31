------------------------------ MODULE Trackers ------------------------------
(***************************************************************************)
(* The scripts that keep sheets and Jira sub-tasks together: each          *)
(* behaviour uses one of them, the others stay in their initial state.     *)
(***************************************************************************)
EXTENDS CaseTracker, ProfileTracker, BuildSheet, ImpactBugs

VARIABLE tool

Init ==
    /\ tool \in {"case", "profile", "build", "bugs"} /\ faults = 0
    /\ CaseInit /\ LowInit /\ SheetInit /\ BugsInit
    /\ tool # "case" => items = CHOOSE p \in Portals : TRUE
    /\ tool # "profile" => profiles = CHOOSE p \in Profiles : TRUE

CaseOnly == <<portal, cpc, reading, sheet, today, done>>
LowOnly == <<profiles, lpc, lnum, snum, lseen, lwhole, ldone>>
Case(A) == tool = "case" /\ A /\ UNCHANGED <<tool, LowOnly, gvars, bvars>>
Profile(A) == tool = "profile" /\ A /\ UNCHANGED <<tool, CaseOnly, gvars, bvars>>
Sheet(A) == tool = "build" /\ A /\ UNCHANGED <<tool, cvars, LowOnly, bvars>>
Bugs(A) == tool = "bugs" /\ A /\ UNCHANGED <<tool, cvars, LowOnly, gvars>>
Next == Case(CaseNext) \/ Profile(LowNext) \/ Sheet(SheetNext) \/ Bugs(BugsNext)
vars == <<tool, faults, cvars, LowOnly, gvars, bvars>>

\* The scripts are run again and again, and days pass.
Spec == /\ Init /\ [][Next]_vars
        /\ WF_vars(Case(CaseStep)) /\ WF_vars(Case(NextDay)) /\ WF_vars(Bugs(BugsStep))

\* The variables of the script that runs, and of the others, have their types.
TypesOK == CaseTypeOK /\ LowTypeOK /\ SheetTypeOK /\ BugsTypeOK

\* Though answers are lost and runs die, nothing is made a second time: a
\* subject has one sub-task and a bug one row.
NothingTwice == OneTaskPerSubject /\ OneRowPerBug

\* A run that came through leaves a sub-task for every unstable case, or for
\* every low suite, and low suites only.
TrackedExactly == UnstableTracked /\ LowSuitesTracked /\ (tool = "profile" => OnlyLowTracked)

\* Repeated runs get a sub-task to what is unstable, though each of them may
\* be cut short.
UnstableGetTracked == tool = "case" => UnstableEventuallyTracked

\* Through failing calls and changes the sheet comes to hold a row with the
\* current value for each labelled bug.
BugsConverge == tool = "bugs" => SheetConverges
=============================================================================
