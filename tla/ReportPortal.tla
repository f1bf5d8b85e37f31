---------------------------- MODULE ReportPortal ----------------------------
(***************************************************************************)
(* How the jobs of one pipeline build keep their results in ReportPortal   *)
(* (src/pipeline/reportportal.py), called by ocgfc to choose what a        *)
(* rebuild runs again and by ocgr to report what it ran.                   *)
(*                                                                         *)
(* All launches carry the name of the pipeline build; a team's results are *)
(* one launch, found by its attributes.  Each HTTP call of the client is a *)
(* step of its own: other jobs act between two of them, a call may fail,   *)
(* may be carried out although its answer is lost, and the job may be      *)
(* killed.  Names, times, logs and profile attributes are left out.        *)
(***************************************************************************)
EXTENDS Calls, FiniteSetsExt

CONSTANTS Job,        \* Jenkins jobs of the pipeline build, each with its own build type
          NCase,      \* number of test cases
          TeamOf,     \* the subteam of each case
          CasesOf,    \* the cases the filters of each job select
          Outcome,    \* "PASSED", "FAILED", "SKIPPED"
          Budgets,    \* how often each job is built, one choice per behaviour
          MaxLaunch, MaxItem  \* bounds on what is ever created

Case == 1..NCase
Team == {TeamOf[c] : c \in Case}
None == "none"

ASSUME ReportPortalAssumption ==
    /\ NCase \in Nat \ {0} /\ MaxLaunch \in Nat /\ MaxItem \in Nat
    /\ TeamOf \in [Case -> STRING] /\ None \notin Team
    /\ CasesOf \in [Job -> SUBSET Case]
    /\ Outcome \subseteq {"PASSED", "FAILED", "SKIPPED"}
    /\ Budgets \subseteq [Job -> Nat]

\* The jobs that are built share no case.  Their filters differ in practice; two
\* that ran the same case would each replace what the other one reports.
JobsApart ==
    \A b \in Budgets : \A j, k \in Job :
      j # k /\ b[j] > 0 /\ b[k] > 0 => CasesOf[j] \cap CasesOf[k] = {}

VARIABLES
    launch,   \* the server's launches, in the order of their creation
    item,     \* the server's test items (steps)
    items,    \* number of items ever created
    job,      \* the program counter and the locals of each job's client
    left,     \* builds each job still gets
    built,    \* jobs that were built before: the next build is a rebuild
    latest    \* history: what each case did when it was last executed

vars == <<launch, item, items, job, left, built, faults, latest>>
server == <<launch, item, items>>

Launch == 1..Len(launch)
GolangLaunches == {l \in Launch : launch[l].golang}
LaunchesOf(t) == {l \in GolangLaunches : launch[l].team = t}
TeamsOf(S) == {TeamOf[c] : c \in S}
CasesIn(S, T) == {c \in S : TeamOf[c] \in T}
\* Mutant: the filter by name is dropped.
ItemsOfLaunch(l, c) == {i \in item : i.launch = l}
ItemsOf(l, c) == {i \in item : i.launch = l /\ i.case = c}
FailedIn(l) == {i.case : i \in {x \in item : x.launch = l /\ x.status = "FAILED"}}

\* What a job's client holds between two builds.
Idle == [pc |-> "idle", run |-> {}, new |-> {}, ask |-> {}, file |-> [c \in Case |-> None],
         teams |-> {}, team |-> None, l |-> 0, todo |-> {}, cur |-> 0, ids |-> {}, seen |-> {},
         kept |-> {}, nums |-> {}, result |-> "PASSED"]

Init == /\ launch = <<>> /\ item = {} /\ items = 0
        /\ job = [j \in Job |-> Idle]
        /\ left \in Budgets
        /\ built = {} /\ faults = 0
        /\ latest = [c \in Case |-> None]

At(j, pc) == job[j].pc = pc
Here(j) == job[j].l
\* Mutant: only a launch that passed is found.
FoundPassed(t) == {l \in LaunchesOf(t) : launch[l].status = "PASSED"}
\* getLaunchIdWithLaunchName with the team as filter.
FoundLaunches(t) == LaunchesOf(t)
\* Mutant: a case gets its new item whatever became of the old.
NeverLeftAlone(j, c) == FALSE
\* Mutant: a case whose items were deleted is left alone.
LeftAloneIfDeleted(j, c) == job[j].seen # {}
\* A case of the file with a child that could not be deleted is left alone.
LeftAlone(j, c) == c \in job[j].kept
\* Mutant: only failures carry a status.
StatusIfFailed(j, c) == IF job[j].file[c] = "FAILED" THEN "FAILED" ELSE None
\* The status finishChild sends.
StatusOf(j, c) == job[j].file[c]
FileCases(j) == {c \in Case : job[j].file[c] # None /\ TeamOf[c] = job[j].team}

(***************************************************************************)
(* ocgfc: what a build runs.  -NOREPLACE keeps the whole scenario.         *)
(***************************************************************************)
WholeScenario(j) == [job EXCEPT ![j].pc = "execute", ![j].run = CasesOf[j]]

StartBuild(j) ==
    /\ At(j, "idle") /\ left[j] > 0
    /\ left' = [left EXCEPT ![j] = @ - 1]
    /\ built' = built \cup {j}
    /\ job' = IF j \in built THEN [job EXCEPT ![j].pc = "check"] ELSE WholeScenario(j)
    /\ UNCHANGED <<server, faults, latest>>

\* The launches that hold results of this job; teams without one are new.
CheckLaunches(j) ==
    /\ At(j, "check")
    /\ \E a \in ReadAnswer :
         LET matched == {l \in GolangLaunches : j \in launch[l].nums}
             unmatched == TeamsOf(CasesOf[j]) \ {launch[l].team : l \in matched}
         IN /\ Count(a)
            /\ job' = IF a = "error" \/ GolangLaunches = {} THEN WholeScenario(j)
                      ELSE [job EXCEPT ![j].pc = "ask", ![j].ask = matched,
                              ![j].new = CasesIn(CasesOf[j], unmatched)]
    /\ UNCHANGED <<server, left, built, latest>>

\* Mutant: a launch overwrites the failed cases of the one before.
AskFailedLast(j) ==
    /\ At(j, "ask") /\ job[j].ask # {}
    /\ \E a \in ReadAnswer :
         LET l == Min(job[j].ask)
         IN /\ Count(a)
            /\ job' = [job EXCEPT ![j].ask = @ \ {l}, ![j].run = FailedIn(l)]
    /\ UNCHANGED <<server, left, built, latest>>

\* One page of the launch's failed items.  An error status is noted and the
\* launch is passed over; an exception gives up and keeps the scenario.
AskFailed(j) ==
    /\ At(j, "ask") /\ job[j].ask # {}
    /\ \E a \in ReadAnswer, exception \in BOOLEAN :
         LET l == Min(job[j].ask)
         IN /\ Count(a)
            /\ exception => a = "error"
            /\ job' = IF exception THEN WholeScenario(j)
                      ELSE [job EXCEPT ![j].ask = @ \ {l},
                              ![j].run = IF a = "ok" THEN @ \cup FailedIn(l) ELSE @]
    /\ UNCHANGED <<server, left, built, latest>>

\* Nothing failed and no team is new: -NORERUN, the build ends.
NoRerun(j) == At(j, "ask") /\ job[j].ask = {} /\ job[j].run \cup job[j].new = {}

Choose(j) ==
    /\ At(j, "ask") /\ job[j].ask = {}
    /\ job' = IF NoRerun(j) THEN [job EXCEPT ![j] = Idle]
              ELSE [job EXCEPT ![j].pc = "execute", ![j].run = @ \cup job[j].new]
    /\ UNCHANGED <<server, left, built, faults, latest>>

\* The tests run and leave one file per team.
Execute(j) ==
    /\ At(j, "execute")
    /\ \E out \in [job[j].run \cap CasesOf[j] -> Outcome] :
         /\ latest' = [c \in Case |-> IF c \in DOMAIN out THEN out[c] ELSE latest[c]]
         /\ job' = [job EXCEPT ![j] = [Idle EXCEPT !.pc = "report",
                       !.file = [c \in Case |-> IF c \in DOMAIN out THEN out[c] ELSE None],
                       !.teams = TeamsOf(DOMAIN out)]]
    /\ UNCHANGED <<server, left, built, faults>>

(***************************************************************************)
(* ocgr: one client per team.  logResult imports the file of a team that   *)
(* has no launch and otherwise replaces its cases in the launch.           *)
(***************************************************************************)
LogResult(j) ==
    /\ At(j, "report") /\ job[j].teams # {}
    /\ \E a \in ReadAnswer, t \in job[j].teams :
         /\ Count(a)
         /\ IF a = "error" \/ FoundLaunches(t) = {}
            THEN job' = [job EXCEPT ![j].pc = "import", ![j].team = t, ![j].teams = @ \ {t}]
            ELSE \E l \in FoundLaunches(t) :
                 job' = [job EXCEPT ![j].pc = "get", ![j].team = t, ![j].teams = @ \ {t},
                           ![j].l = l, ![j].seen = {}, ![j].kept = {}, ![j].result = "PASSED",
                           ![j].todo = {c \in Case : job[j].file[c] # None /\ TeamOf[c] = t}]
    /\ UNCHANGED <<server, left, built, latest>>

EndBuild(j) ==
    /\ At(j, "report") /\ job[j].teams = {}
    /\ job' = [job EXCEPT ![j] = Idle]
    /\ UNCHANGED <<server, left, built, faults, latest>>

\* The server makes a launch with an item per case of the file; nobody finds
\* it by name and team before it has its attributes.
Import(j) ==
    /\ At(j, "import") /\ Len(launch) < MaxLaunch
    /\ items + Cardinality(FileCases(j)) <= MaxItem
    /\ \E a \in Answer :
         LET file == job[j].file
             Id(c) == items + Cardinality({d \in FileCases(j) : d <= c})
             status == IF \E c \in FileCases(j) : file[c] = "FAILED" THEN "FAILED" ELSE "PASSED"
         IN /\ Count(a)
            /\ IF a = "error" THEN UNCHANGED server
               ELSE /\ launch' = Append(launch, [golang |-> FALSE, team |-> None,
                                                 nums |-> {}, status |-> status])
                    /\ item' = item \cup {[id |-> Id(c), launch |-> Len(launch) + 1, case |-> c,
                                           status |-> file[c]] : c \in FileCases(j)}
                    /\ items' = items + Cardinality(FileCases(j))
            /\ job' = IF a = "ok" THEN [job EXCEPT ![j].pc = "getid", ![j].l = Len(launch) + 1]
                      ELSE [job EXCEPT ![j].pc = "report"]
    /\ UNCHANGED <<left, built, latest>>

GetLaunchId(j) ==
    /\ At(j, "getid")
    /\ \E a \in ReadAnswer :
         /\ Count(a)
         /\ job' = [job EXCEPT ![j].pc = IF a = "ok" THEN "attrs" ELSE "report"]
    /\ UNCHANGED <<server, left, built, latest>>

AddAttributes(j) ==
    /\ At(j, "attrs")
    /\ \E a \in Answer :
         /\ Count(a)
         /\ launch' = IF a = "error" THEN launch
                      ELSE [launch EXCEPT ![Here(j)].golang = TRUE, ![Here(j)].nums = {j},
                                          ![Here(j)].team = job[j].team]
    /\ job' = [job EXCEPT ![j].pc = "report"]
    /\ UNCHANGED <<item, items, left, built, latest>>

(***************************************************************************)
(* rerunResult: delete the old items of every case of the file, add the    *)
(* build number, start the launch again, add the new items, finish.        *)
(***************************************************************************)
\* A read that fails looks like a case without items.
GetChild(j) ==
    /\ At(j, "get") /\ job[j].todo # {}
    /\ \E a \in ReadAnswer :
         LET c == Min(job[j].todo)
             found == IF a = "ok" THEN {i.id : i \in ItemsOf(Here(j), c)} ELSE {}
         IN /\ Count(a)
            /\ job' = [job EXCEPT ![j].pc = IF found = {} THEN "get" ELSE "delete",
                         ![j].cur = c, ![j].ids = found, ![j].todo = @ \ {c},
                         ![j].seen = @ \cup found]
    /\ UNCHANGED <<server, left, built, latest>>

\* Mutant: a delete is tried again until it succeeds.
DeleteUntilGone(j) ==
    /\ At(j, "delete")
    /\ \E a \in Answer :
         LET id == Min(job[j].ids)
             there == \E i \in item : i.id = id
         IN /\ Count(a)
            /\ item' = IF a = "error" THEN item ELSE {i \in item : i.id # id}
            /\ job' = IF a = "ok" /\ there
                      THEN [job EXCEPT ![j].ids = @ \ {id},
                                       ![j].pc = IF job[j].ids = {id} THEN "get" ELSE "delete"]
                      ELSE job
    /\ UNCHANGED <<launch, items, left, built, latest>>

DeleteChild(j) ==
    /\ At(j, "delete")
    /\ \E a \in Answer :
         LET id == Min(job[j].ids)
             there == \E i \in item : i.id = id
         IN /\ Count(a)
            /\ item' = IF a = "error" THEN item ELSE {i \in item : i.id # id}
            /\ job' = [job EXCEPT ![j].ids = @ \ {id},
                         ![j].pc = IF job[j].ids = {id} THEN "get" ELSE "delete",
                         ![j].kept = IF a = "ok" /\ there THEN @ ELSE @ \cup {job[j].cur}]
    /\ UNCHANGED <<launch, items, left, built, latest>>

\* addMoreBuildNumToLaunch reads the attribute; its result is not looked at.
ReadBuildNums(j) ==
    /\ At(j, "get") /\ job[j].todo = {}
    /\ \E a \in ReadAnswer :
         LET nums == launch[Here(j)].nums
         IN /\ Count(a)
            /\ job' = [job EXCEPT ![j].nums = nums,
                  ![j].pc = IF a = "error" \/ nums = {} \/ j \in nums THEN "launch" ELSE "nums"]
    /\ UNCHANGED <<server, left, built, latest>>

\* The update names the old value: the server refuses it when it changed.
AddBuildNum(j) ==
    /\ At(j, "nums")
    /\ \E a \in Answer :
         /\ Count(a)
         /\ launch' = IF a # "error" /\ launch[Here(j)].nums = job[j].nums
                      THEN [launch EXCEPT ![Here(j)].nums = @ \cup {j}] ELSE launch
    /\ job' = [job EXCEPT ![j].pc = "launch"]
    /\ UNCHANGED <<item, items, left, built, latest>>

\* Without the launch there is nothing to finish, and nothing to put back.
StartLaunch(j) ==
    /\ At(j, "launch")
    /\ \E a \in Answer :
         /\ Count(a)
         /\ launch' = IF a = "error" THEN launch ELSE [launch EXCEPT ![Here(j)].status = "RUNNING"]
         /\ job' = [job EXCEPT ![j].pc = IF a = "ok" THEN "suite" ELSE "report"]
    /\ UNCHANGED <<item, items, left, built, latest>>

\* Mutant: a suite that cannot be started ends the rerun.
StartSuiteOrLeave(j) ==
    /\ At(j, "suite")
    /\ \E a \in Answer :
         /\ Count(a)
         /\ job' = IF a = "ok" THEN [job EXCEPT ![j].pc = "cases", ![j].todo = FileCases(j)]
                   ELSE [job EXCEPT ![j].pc = "report"]
    /\ UNCHANGED <<server, left, built, latest>>

StartSuite(j) ==
    /\ At(j, "suite")
    /\ \E a \in Answer :
         /\ Count(a)
         /\ job' = IF a = "ok" THEN [job EXCEPT ![j].pc = "cases", ![j].todo = FileCases(j)]
                   ELSE [job EXCEPT ![j].pc = "finish"]
    /\ UNCHANGED <<server, left, built, latest>>

\* replaceChild and createChild differ in the times they send.
StartChild(j) ==
    /\ At(j, "cases") /\ job[j].todo # {} /\ items < MaxItem
    /\ \E a \in Answer :
         LET c == Min(job[j].todo)
             result == IF job[j].file[c] = "FAILED" THEN "FAILED" ELSE job[j].result
         IN IF LeftAlone(j, c)
            THEN /\ a = "ok"
                 /\ job' = [job EXCEPT ![j].todo = @ \ {c}, ![j].result = result]
                 /\ UNCHANGED <<item, items, faults>>
            ELSE /\ Count(a)
                 /\ IF a = "error" THEN UNCHANGED <<item, items>>
                    ELSE /\ item' = item \cup {[id |-> items + 1, launch |-> Here(j), case |-> c,
                                                status |-> "OPEN"]}
                         /\ items' = items + 1
                 /\ job' = [job EXCEPT ![j].pc = IF a = "ok" THEN "child" ELSE "cases", ![j].cur = c,
                              ![j].ids = IF a = "ok" THEN {items + 1} ELSE {},
                              ![j].todo = @ \ {c}, ![j].result = result]
    /\ UNCHANGED <<launch, left, built, latest>>

\* The logs are posted before the status; any failure leaves the item open.
FinishChild(j) ==
    /\ At(j, "child")
    /\ \E a \in Answer :
         /\ Count(a)
         /\ item' = IF a = "error" THEN item
                    ELSE {IF i.id \in job[j].ids THEN [i EXCEPT !.status = StatusOf(j, i.case)] ELSE i
                          : i \in item}
    /\ job' = [job EXCEPT ![j].pc = "cases", ![j].ids = {}]
    /\ UNCHANGED <<launch, items, left, built, latest>>

\* The finally block: the suite, whatever the answer, then the launch.
FinishSuite(j) ==
    /\ At(j, "cases") /\ job[j].todo = {}
    /\ \E a \in Answer : Count(a)
    /\ job' = [job EXCEPT ![j].pc = "finish"]
    /\ UNCHANGED <<server, left, built, latest>>

FinishLaunch(j) ==
    /\ At(j, "finish")
    /\ \E a \in Answer :
         /\ Count(a)
         /\ launch' = IF a = "error" THEN launch
                      ELSE [launch EXCEPT ![Here(j)].status = job[j].result]
    /\ job' = [job EXCEPT ![j].pc = "report"]
    /\ UNCHANGED <<item, items, left, built, latest>>

\* Jenkins aborts the build, or its agent is lost.
Kill(j) ==
    /\ ~At(j, "idle")
    /\ Die
    /\ job' = [job EXCEPT ![j] = Idle]
    /\ UNCHANGED <<server, left, built, latest>>

Step(j) == \/ CheckLaunches(j) \/ AskFailed(j) \/ Choose(j) \/ Execute(j) \/ LogResult(j)
           \/ EndBuild(j) \/ Import(j) \/ GetLaunchId(j) \/ AddAttributes(j) \/ GetChild(j)
           \/ DeleteChild(j) \/ ReadBuildNums(j) \/ AddBuildNum(j) \/ StartLaunch(j)
           \/ StartSuite(j) \/ StartChild(j) \/ FinishChild(j) \/ FinishSuite(j) \/ FinishLaunch(j)

Next == \E j \in Job : StartBuild(j) \/ Step(j) \/ Kill(j)

Spec == Init /\ [][Next]_vars

\* A client waits for its calls and does nothing else; they return.
FairSpec == Spec /\ \A j \in Job : WF_vars(Step(j))

-----------------------------------------------------------------------------
Status == Outcome \cup {"OPEN"}
Pcs == {"idle", "check", "ask", "execute", "report", "import", "getid", "attrs", "get", "delete",
        "nums", "launch", "suite", "cases", "child", "finish"}

Restarted == {"suite", "cases", "child", "finish"}

\* The variables have their types, and an item is only ever in an existing launch.
TypeOK ==
    /\ \A l \in Launch : launch[l] \in [golang : BOOLEAN, team : Team \cup {None}, nums : SUBSET Job,
                                       status : {"RUNNING", "PASSED", "FAILED"}]
    /\ item \subseteq [id : 1..items, launch : Launch, case : Case, status : Status]
    /\ items \in 0..MaxItem /\ Len(launch) <= MaxLaunch
    /\ \A j \in Job :
        /\ job[j].pc \in Pcs /\ job[j].l \in Launch \cup {0}
        /\ job[j].file \in [Case -> Outcome \cup {None}]
        /\ job[j].team \in Team \cup {None} /\ job[j].teams \subseteq Team
        /\ (job[j].run \cup job[j].new \cup job[j].todo \cup job[j].kept) \subseteq Case
        /\ (job[j].ids \cup job[j].seen) \subseteq 1..items
        /\ (job[j].nums \subseteq Job) /\ job[j].ask \subseteq Launch
    /\ latest \in [Case -> Outcome \cup {None}]
    /\ faults \in 0..MaxFaults

\* When no call failed, no job is at work and no team was imported twice by a
\* race, the launch shows for every case one item, with what the case did when
\* it last ran: the whole of import and rerunResult, over any number of rebuilds.
ShownIsLatest ==
    (faults = 0 /\ (\A j \in Job : At(j, "idle")) /\ (\A t \in Team : Cardinality(LaunchesOf(t)) <= 1))
    => \A c \in Case : latest[c] # None =>
         \E i \in item : /\ {x \in item : x.case = c} = {i}
                         /\ i.status = latest[c] /\ i.launch \in LaunchesOf(TeamOf[c])

\* A job that is rebuilt after builds without a failed call never splits a team
\* over two launches (logResult looks before it imports).
OneLaunchPerTeam ==
    (faults = 0 /\ Cardinality(built) <= 1) => \A t \in Team : Cardinality(LaunchesOf(t)) <= 1

\* What ReportPortal shows is what ran last, and in one place.
ShownOnce == ShownIsLatest /\ OneLaunchPerTeam

\* "No need to rerun it" (ginkgo-test.sh:147) is right as long as no call
\* failed, whatever two jobs do to the launches of a team at the same time.
NoRerunSound ==
    \A j \in Job : NoRerun(j) /\ faults = 0 => \A c \in CasesOf[j] : latest[c] \in Outcome \ {"FAILED"}

\* The same without the condition: a build that is not rerun has no failed case.
NoFailureForgotten ==
    \A j \in Job : NoRerun(j) => \A c \in CasesOf[j] : latest[c] # "FAILED"

\* The finally block of rerunResult: a client that restarted the launch leaves it
\* finished, with the status it computed, unless it is killed or that very call fails.
FinallyFinishes ==
    [][\A j \in Job :
         job[j].pc \in Restarted /\ job'[j].pc \notin Restarted
         => \/ job'[j] = Idle
            \/ launch'[Here(j)].status = job[j].result
            \/ At(j, "finish") /\ faults' > faults]_vars

\* A rerun adds an item only after every item it found for the case is gone:
\* a delete that fails, or whose answer is lost, never leads to a second result.
NewReplacesSeen ==
    [][\A j \in Job, i \in item' \ item :
         At(j, "cases") /\ job'[j] # job[j] /\ i.id > items
         => ~\E x \in item : x.id \in job[j].seen /\ x.case = i.case]_vars

\* What a rerun did not run keeps its result, and a result is never overwritten
\* in place: only a job that ran the case deletes the case's items.
OthersKept ==
    [][\A i \in item :
         \/ i \in item'
         \/ \E j \in Job : /\ At(j, "child") /\ i.status = "OPEN" /\ i.id \in job[j].ids
         \/ \E j \in Job : /\ At(j, "delete") /\ Here(j) = i.launch
                             /\ job[j].file[i.case] # None]_vars

\* A rerun replaces what it ran, nothing twice and nothing else, and finishes.
RerunReplaces == FinallyFinishes /\ NewReplacesSeen /\ OthersKept

\* Every build ends, whatever fails on the way.
BuildsEnd == \A j \in Job : []<>At(j, "idle")
=============================================================================
