# A verification project for extended-platform-tests

This directory holds TLA+ models of the program that runs the end-to-end tests
of this repository (`src/cmd/extended-platform-tests`, `src/pkg/test/ginkgo`,
`src/pkg/monitor`) and of the scripts that report, rerun and track their results
(`src/pipeline`), the TLC configurations that check them, and theorems that
TLAPS proves. `PROJECT.json` ties every definition to the lines it models,
every run to the question it answers, every property to the faults it detects.

    tlc -workers 2 -config TestQueue.cfg MCTestQueue
    tlapm TestQueueProofs.tla

## 1. The system and its parts

`extended-platform-tests run SUITE` selects tests, starts a monitor of the
cluster, executes the tests in parallel, each in a child process of the same
binary (`run-test NAME`), retries a few failures, writes a JUnit report and
exits. `run-monitor` runs the monitor alone and prints what it records.

| Component | State it keeps | Operations | Talks to |
|---|---|---|---|
| Test queue (`queue.go`) | ring of tests, active exclusion classes, mutex, condition variable, list of set-aside `[Serial]` tests | `pop`, `done`, `Close`, `Take`, `Execute` | called by the suite runner, calls `testStatus.Run` from its worker goroutines |
| Test execution (`status.go`, `test.go`, `cmd_runtest.go`) | child process, timer goroutine, flags of the test case | `Run`, `runWithTimeout`, the child's `Run` and exit status | operating system: start, SIGINT, SIGABRT, wait |
| Suite runner (`cmd_runsuite.go`, `junit.go`) | two or three queues in turn, flags of all tests, lists of failures and retries, context, signal goroutine | `Options.Run`, `summarizeTests`, `writeJUnitReport` | queue, test execution, monitor, signals |
| Monitor (`monitor.go`, `types.go`) | events and samples under a lock, sampling goroutine | `Record`, `sample`, `Events`, `Conditions` | recorders and samplers write, suite runner and `run-monitor` read |
| `run-monitor` (`cmd.go`) | `last`, what was printed | polling loop, final report | monitor, signals |
| Event watch (`event.go`) | resource version, open watch | list, watch, deliver, start over | API server; writes to the monitor |
| Health samplers, error-recording list-watcher (`sampler.go`, `api.go`) | `available`, `receivedError` | sample, list, watch | API server; writes to the monitor |
| Informers (`pod.go`, `node.go`, `operator.go`) | client-go stores | add, update and delete handlers, list filter | API server; writes to the monitor |
| Selection (`ginkgo.go`, `test.go`, `e2e.go`) | none | filters over lists of names | suite runner |
| Disruption harness, OAuth token requests, test helpers (`test/extended/util`) | see section 7 | | cluster |
| ReportPortal client (`pipeline/reportportal.py`, called by `ocgfc`, `ocgr`, `ocpf`, `ginkgo-test.sh`) | launches, items and attributes at the server; per call of the script its locals | `logResult` (import or rerun), `getFailCaseID`, `putProfileLaunch` | ReportPortal over HTTP; other jobs do the same at the same time |
| Result file (`pipeline/handleresult.py`) | the JUnit file of a run, one file per subteam | replace, split, generate, health check, result | called by `ocgr` and other jobs |
| Bulk update (`pipeline/updateresultrp.py`) | none of its own | read launches and items in pages, update items | ReportPortal |
| Pass rates (`pipeline/passrate.py`) | `rpstat-*.json`, rates per slot | get, curve | ReportPortal |
| Trackers (`pipeline/auto_result_tool/collect_*.py`) | sheets, Jira sub-tasks, `end_num` of a configuration file | collect, write rows, track | ReportPortal, Jenkins, Google sheets, Jira |
| Test cases, test data, notifications, other CI, console tests | see section 7 | | cluster, web services |

A Jenkins job runs the tests (`extended-platform-tests run`), `handleresult.py`
cuts the JUnit file into one file per subteam, `reportportal.py` reports each,
and a rebuild of the job asks `reportportal.py` which cases failed and runs
those only. Other jobs and cron read ReportPortal afterwards: trackers, rates,
bulk updates.

Which behaviours are hard. The queue's condition variable is built on a lock
that does nothing, so a `Broadcast` may come between the failed `pop` of a
worker and its `Wait`; `Close` empties ring and classes under running tests;
`[Serial]` tests are taken by parallel workers and must still run alone. Three
parties end a test: its spec, a timer with a minute of grace, and the context.
A signal may come at any step of `Options.Run`, and flags, counters and lists
of failures are computed in different places. Recorders, a sampling goroutine
that releases the lock while it measures, and pollers share the monitor. A
watch breaks, expires, or outlives its context. The Python clients make one
HTTP call after the other with nothing that holds them together: any of them
may fail, be carried out although its answer is lost, or be the last one before
the job is aborted; what was read is stale when it is used; and every script is
simply run again, over what the last run left behind. `PROJECT.json` lists each as a
hazard with its line and the properties that cover it.

What makes each part correct:

- queue: tests of one exclusion class never overlap; `[Serial]` tests run
  alone and last; no test is lost or run twice; a lost wake-up strands no
  queued test; `Execute` returns;
- test execution: one verdict; only a spec that passed is a success; a timeout
  ends a test;
- suite runner: exit status 0 is earned; smoke tests come first; retries are
  bounded by the allowed flakes; the report says what the summary says; the run
  ends, unless a test hangs whose timeout an interruption has called off;
- monitor: intervals are the runs of consecutive samples; and, while nobody sets
  the wall clock back, lists are in order of time, queries exact at their
  bounds, and a poller repeats nothing and misses nothing but an event that
  shares its stamp with something it has seen;
- event watch: only an expiry skips events; it goes on after one; it stops
  with its context;
- ReportPortal client: as long as no call fails, what is shown for a case is
  what it did last, and once; a team has one launch; a rebuild that runs nothing
  has nothing to run.  Whatever fails, a rerun adds a result only where it has
  deleted, or is about to delete, the results of the case it has seen, touches
  no others, and a launch it restarted is finished if the client lives;
- result file: no result is lost or doubled on the way to a team's file, counts
  agree with entries (but for two attributes that do not follow), a failure is
  shown and fails the build, unless the script that shows it breaks down;
- paging tools: nothing is left out silently; only what was chosen is changed;
  rates are those of all suites; a profile keeps its last launch;
- trackers: one sub-task per subject and one row per bug, whatever is lost or
  killed; everything low is tracked, and nothing else; a build that is saved as
  done is in the sheet, but for a build that still ran when it was read, one
  without a `LAUNCH_NAME`, and failing calls.

## 2. Plan

Written, in this order:

1. `TestExecution`, what an execution of a queue promises, and `TestQueue`,
   shown to implement it; `TestQueueProofs`.
2. `TestRun`, one test in its child process; `TestRunProofs`.
3. `RunSuite`, which composes the runner with `TestExecution` (and so with any
   queue that implements it); `RunSuiteProofs`.
4. `Monitor` with `run-monitor`, and `EventWatch`, one of its recorders;
   `MonitorProofs` for both.
5. `Calls`, the failing calls of the Python clients, and with it `ReportPortal`,
   `ProfileLaunch`, `UpdateResults`, `PassRate`, `CaseTracker` and
   `ProfileTracker` over `SubTasks`, `BuildSheet`, `ImpactBugs`; `ResultFile`;
   `ReportPortalProofs` and `ResultFileProofs`. `PortalTools` composes the
   three tools that read page by page, `Trackers` the four scripts that keep
   sheets and sub-tasks; `PortalToolsProofs` and `TrackersProofs`.

Next:

6. `HealthSampler`: the goroutine of `sampler.go`, its reader in the monitor
   and the context that makes a request fail; `PodInformer`: the in-place filter
   of `pod.go` lists and relists; `Selection`, `Disruption`, `TokenRequest`.

Parameters are CONSTANTS with named assumptions, and no module declares a
RECURSIVE operator, so each can be proved about.

## 3. Modules

**TestQueue** (`queue.go`). `queue` is the ring seen from `q.queue` on, and
`RingTake` what `Prev`, `Unlink` and `q.queue = ...` leave of it: the head moves
to the entry before the one taken. `active` is the map of classes. A worker's
`pc` says where it is: in `pop`, between a failed `pop` and `Wait`
(`beforeWait`), asleep, between `pop` and the callback's decision (`taken`),
running the test, or about to call `done` (`release`). Each action is what a
goroutine does between two points at which others can interfere: one critical
section of `q.lock`, or one call. `Wait` is separate from `PopBlocked` because
`nopLock` makes it so. `Cancel` is the context, `Close` the goroutine that
waits for it. The caller's part of `Execute` is `Join`, `StartSerial`,
`FinishSerial`, `Return`. A test without an exclusion class has `NoClass`. The
order of the ring is arbitrary: `newParallelTestQueue` shuffles nothing, but
the list it is given is in no particular order.

**TestExecution** is abstract: sets of waiting, running and finished tests. It
is the interface of the queue, and `RunSuite` uses it as its queue. The
refinement counts a test as waiting while it is in the ring, taken, or set
aside.

**TestRun** (`testStatus.Run`, `runWithTimeout`, `TestOptions.Run`, exit
statuses of `main`). `Behaviour` of the spec is a parameter: it passes, skips,
fails, panics, ends in an unknown state, hangs, or is deaf to SIGINT. What a
SIGINT does to the child is the Go runtime's and ginkgo's doing and is external
(`SpecInterrupted`). `c.Process` is nil until `StartChild`.

**RunSuite** (`Options.Run` from the first queue on). `Entry` are positions of
the list of tests and `CaseOf` the test case at each: a count above one puts a
test case there several times, and its executions share one set of flags.
`phase` is the place in `Options.Run`. `Summarized` and `Reported` are the two
`switch` statements over the flags, in their different orders. The monitor
contributes `anomaly`: whether error events were seen. `handler` is the signal
goroutine, with the signal it drops while it is cancelling.

**Monitor** (`monitor.go`, `cmd.go`). Stamps are `time.Now().UTC()`, which drops
the monotonic reading: the clock is the wall clock. `Now` lets two stamps be
equal, and lets somebody set the clock back (`setBacks`), which `monitor.go:129`
itself looks for. Events carry only their stamp, samples the set of conditions.
`Kept` is the binary search (`Search`, round by round, so that it means
something in a list that is out of order) and the scan of both filters, `Extend` the body of
the loop of `filterSamples` with its two maps, `UpTo` and `Intervals` the loop. A
sample is two steps, because the lock is not held while samplers run.
`PollTick` and `PollDone` are the loop of `run-monitor`, `Report` the rest of
its `Run`, which sleeps 150 ms and waits for nobody: it may come before the last
poll and the last sample. Lists of intervals are sets: order among equal starts is unspecified.

**EventWatch** (`event.go`). The n-th event of the cluster has resource version
n. Lists, watches and streams fail; old versions are compacted. `pc` is the
place in the two nested loops. `WatchFails` leaves everything unchanged: that
is the `continue` of the inner loop.

**Calls** is shared by the clients of web services: a call answers, fails
without effect, or is carried out and its answer lost; `MaxFaults` bounds how
many calls fail or clients die in a behaviour. A client is a program counter
and its locals; every HTTP call is one step.

**ReportPortal** (`reportportal.py`). `launch` and `item` are the server;
`job[j]` the client of one Jenkins job. `StartBuild`, `CheckLaunches`,
`AskFailed`, `Choose` are `ocgfc`/`getFailCaseID` of a rebuild; `Execute` the
test run; `LogResult`, `Import`, `GetLaunchId`, `AddAttributes` the import of a
team's file; `GetChild` to `FinishLaunch` `rerunResult` in the order of its
calls, with its `finally`. `seen` and `kept` are `deletedList` and
`shouldDeletedList`. `latest` is a history variable: what a case did when last
executed.

**ProfileLaunch** is `putProfileLaunch`; **UpdateResults** the whole of
`updateresultrp.py`; **PassRate** `get` and the data of `curve`. All three read
page by page; a page that fails is passed over, a first page that fails ends
the reading. What a page holds follows from the place of each entry in the
order of the server (`Rank`, `PageAt` in `Calls`). `PassRate` also has the float of `int(p/n*100)`: exact but for
multiples of 50 tests, where the product may come out just below a whole
number (`Inexact`); there the model takes either value.

**ResultFile** (`handleresult.py`). A test has a list of ids, the word its name
begins with, and its result elements. A `Mention` is a place where a test names
an id; a name may repeat one. The summary is a loop over tests and the ids of
each (`SummaryUpTo`, `IdsUpTo`), with the one local `result` that survives from
id to id. `Import`, `PrintResult` and `Decide` are the end of `ocgr`: any import
may fail; `get` may raise (its exit status is dropped by `|| true`); the text it
wrote may hold the word FAIL in a title, an author or an exception; and the exit
status follows from that word and from the imports (`ocgr:296-309`). The health
check takes a team's file or, where there is none, makes a new one.

**SubTasks** is what both trackers do with Jira: the first sub-task whose
summary contains the subject is commented and reopened, else one is created.
**CaseTracker** reads queries, launches and pages, writes the sheet of the day
and goes through its rows; **ProfileTracker** goes through low launches and
their low suites; **BuildSheet** takes build after build, those that still run
and those without a `LAUNCH_NAME` included, and keeps `end_num` in
a file it empties first (`excuse` remembers why rows of a build may be missing);
**ImpactBugs** updates rows by number and inserts new
ones on top. People close sub-tasks, change bugs and mistype links.

`PortalTools` and `Trackers` put several of these scripts in one run: each
behaviour chooses one `tool`, and the others stay in their initial state. The
scripts share no state but web services they use for different things, so
nothing is lost by that.

`MC*.tla` give the constants that a `.cfg` cannot write. Operators marked
`Mutant` are faulty variants of the definition that follows them; nothing in a
specification uses them. They document which fault each property detects.

## 4. What the runs show

| Run | Shows |
|---|---|
| `queue` | three workers, all 120 orders of five tests, two `[Serial]`, three of one class, interruption anywhere: exclusion, serial alone, nothing lost or twice, no stranded queue, refinement of `TestExecution`; every parallel test runs, and `Execute` returns unless a worker sleeps for good |
| `test_run` | verdicts, and termination by timeout |
| `suite` | what exit status 0 promises, smoke tests first, bounded retries, report and summary agree, the run ends unless a test hangs after an interruption |
| `suite_report_counts` | **violation**: a passed test is counted as a failure, and not as a test |
| `monitor` | queries equal their definition for every window; polling prints no event twice and misses none but one that shares its stamp with something seen, under a clock that repeats; intervals are exact even if it is set back |
| `event_watch` | only an expiry skips events; nothing else is recorded; it resumes |
| `event_watch_stops` | **violation**: a done context leaves the inner loop spinning |
| `report_portal` | one job built three times, or two jobs that share a team: what is shown is what ran last, one launch per team, `NORERUN` is right, all without faults; and with faults a rerun replaces only what it has seen and touches no others, a restarted launch is finished, builds end |
| `report_portal_forgotten` | **violation**: one failed call lets a rebuild say "No need to rerun it" although a case failed |
| `result_file` | every file of up to three tests: split, generate, health check, counts, summary, exit status of `ocgr` with failing imports and a `get` that breaks down |
| `portal_tools` | bulk update, pass rates and fake launches under failing pages, lost answers, interruptions and changes by others |
| `trackers` | sheets and sub-tasks under failing calls, lost answers, kills, and people who close and change things |

The violations are findings with the quoted promise.

A property that a run checks is often a conjunction of named parts, each with
its own comment and at least one mutant of the code that breaks it:

| Property | Parts |
|---|---|
| `NoForbiddenOverlap` | `MutualExclusion`, `SerialAlone` |
| `TestsConserved` | `NoTestDuplicated`, `NoTestLost` |
| `ExecutionCompletes` | `ExecuteReturns`, `ParallelTestsRun` |
| `TimeoutEnds` | `ReturnsUnlessInterrupted`, `TimedOutReturns` |
| `RetriesWithinFlakes` | `FlakesBounded`, `RetriedOnlyFailures` |
| `QueriesExact` | `RecordedInOrder`, `BoundsExact`, `ConditionQueryExact` |
| `RecordedExactly` | `OnlyExpirySkips`, `NothingElseRecorded` |
| `KeepsRecording` | `EventuallyRecorded`, `ResumesAfterExpiry` |
| `ShownOnce` | `ShownIsLatest`, `OneLaunchPerTeam` |
| `RerunReplaces` | `FinallyFinishes`, `NewReplacesSeen`, `OthersKept` |
| `ResultsKept` | `SplitComplete`, `HealthCheckAdds`, `CountsMatch`, `GenerateAgreesWithSplit` |
| `SummarySound` | `FailureShown`, `SummaryExact`, `NoFailureFromNowhere`, `StatusJust` |
| `UpdateExact` | `LeftOutOnlyIfTold`, `OnlyChosen` |
| `RatesSound` | `RatesExact`, `CurvesAligned`, `OtherSlotsKept` |
| `ProfilesCovered` | `LastLaunchKept`, `FakesSettle` |
| `NothingTwice` | `OneTaskPerSubject`, `OneRowPerBug` |
| `TrackedExactly` | `UnstableTracked`, `LowSuitesTracked`, `OnlyLowTracked` |
| `BuildsKept` | `LinkedToOwnBuild`, `SavedBuildWritten`, `LostOnlyOverNothing` |

Known divergences that no run shows. The lost wake-up of the queue is latent in
this commit: no code assigns `testExclusion`, so `pop` never blocks; the theorem
`ShippedNeverWaits` says so, and `queue` shows that even with classes only the
*serial* tests are lost: the worker that holds the class always pops again.
After an interruption a test's timeout is no longer enforced (`test.go:171`:
the select takes `ctx.Done` once and ends), so a test that hangs keeps the run
for ever. With a count above one a test that
failed once and passed once is summed up as passed (`status.go:150`). A sample
without any condition is not stored, so a condition that was gone for a whole
interval is reported as one that persisted (`monitor.go:88`). An event with the
stamp of one that a poll has printed is never printed (`cmd.go:65`: queries begin
after `last`), and a list that goes back in time is searched as if it were in
order. In the summary of a result file a failure of one id is printed for the
ids after it in the same list (`handleresult.py:169`), and a build whose `get`
breaks down succeeds (`ocgr:296`). A build that still runs is passed over for
good, and the first build of a process without a failed case loses the saved
number (`collect_result_to_googlesheet.py:61`, `:263`). For version 4.16 the
trend sheet gets no entry (`collect_case_result.py:500-513`: the `else` of the
second `if` returns). The models contain all but the last: they are why
`ExecuteReturns`, `ReturnsUnlessInterrupted`, `RunEnds`, `ConditionQueryExact`,
`PrintedExactlyOnce`, `SummaryExact`, `StatusJust` and `BuildsKept` say what they
say.

Bounds. Queue: a lost wake-up needs two workers and a class with two tests;
set-aside tests need one more, and a third worker lets the others race (no
symmetry, because the run checks liveness). Suite: four tests give one smoke test, one
`[Serial]` test and two failures, so that exceeding, meeting and staying below
the allowed flakes (2, 1, 0) all occur. Monitor: two calls of `Record` of one
condition each, whose stamps may be equal or, once, go back; two samples and the
final one, two conditions: an interval can begin, go on, end and begin again. The
conditions are symmetric: the code only compares them. `EventWatch`: three events,
one outside the system namespaces, two failures, expiries bounded by the events
that can be compacted. The bounds are guards of `Record`, `SampleTick`,
`NewEvent` and of failures before the interruption; everything the program does
by itself is unbounded.

`ReportPortal`: three builds of one job see an import, a rerun and a rerun of
that; two jobs on one team's launch, one of them rebuilt, interleave every
call; two faults allow a failure and another one in its handling (one is enough
for the violation). `ResultFile`: three tests with shared ids let an earlier
and a later test of the same id disagree, and a test with two ids between them;
one list of ids holds an id twice; the one team the script knows may be without
a file, and so may `Unknown`.
`PortalTools`: pages of one entry, so every list has a first and further pages;
two runs of the update, three of the rates over two slots, one with 28 of 48
and 1 of 2 tests of a team (29/50 is the inexact case). `Trackers`: four
launches over three queries with one that is empty, a case repeated within a
launch, an id that is part of another, an author nobody knows, profiles one of
whose installation failed, four builds one of which has no failure and one no
`LAUNCH_NAME`, two bugs and three changes. Page sizes of 300 and 2000
in the code become 1 or 2: only the number of pages matters.

`CHECK_DEADLOCK FALSE` stands in every configuration: each of these programs
ends, and its last state has no successor. Where ending is the point, a
liveness property states it.

Fairness. Goroutines that can run are run (weak fairness of each worker, of the
caller, of the closing, timer and watching goroutines): Go's scheduler
is preemptive and mutexes are not held for ever. A test's function returns in
the queue model; `TestRun` is where that is examined. In the suite model it
returns as long as the run is not interrupted, by its timeout at the latest
(`TimeoutEnds`); after an interruption nothing makes it return, as
`test.go:171-175` no longer looks at the timer, and `RunEnds` allows for it. Specs that can
end do; a select with a channel that stays ready takes it in the end. Signals,
new events, compactions and failures are never fair. A Python client goes on to
its next call (its sessions have time limits or Jenkins aborts the build), which
is all `BuildsEnd` needs. `FakesSettle`, `UnstableEventuallyTracked` and
`SheetConverges` assume that Jenkins or cron starts the script again and that
days pass; faults and people's changes are bounded, so such a property speaks
of the time after the last of them.

## 5. What is proved

`TestQueueProofs` proves for every finite set of tests, every non-empty set of
workers, every choice of `[Serial]` tests and of classes (assumptions
`TestAssumption`, `WorkerAssumption`, `SerialAssumption` and those on the two
null values, named in `TestQueue` and evaluated by every run):

- `TypeCorrect`: `TypeOK`, inductive by itself with the lemma that taking an
  entry leaves a sequence of tests that is one shorter.
- `MutualExclusionHolds`, `QueueNeverStranded`. Neither is inductive. `Close`
  forgets active classes, so exclusion needs to know that the ring is empty from
  then on; and a blocked entry keeps a worker busy only if every active class
  has a holder, which will pop again.
  `ClassesHeld` says both; the three together are `ExclusionInv`.
- `ShippedNeverWaits`: without classes no worker ever waits for a wake-up, so
  that `ExecuteReturns` comes down to `Execute` returning.
- `OverlapsExcluded` and `ConservesTests`: the properties the run checks, from
  the theorems on their parts.
- `NoTestRunTwice`, `NoTestForgotten`, `SerialTestsAlone`, from
  `ConservationInv`: lemmas say which entries `RingTake`, `Append` and `Tail`
  keep, and each step moves at most one test between ring, workers, list,
  caller and finished tests. That the ring starts with every test once rests on
  the pigeonhole theorem for finite sets (`RingInit`).
- `QueueImplementsExecution`: every step is a step of `TestExecution` or a
  stutter. Starting a test needs exclusion and serial-alone of the state before,
  `Close` maps to giving up, `pop` and setting aside are stutters.

`TestRunProofs`, for every set of behaviours a spec may show:

- `VerdictIsSound`. `VerdictSound` speaks of the flag after the return, so
  `VerdictInv` adds which statuses a child may end with (0 only of a spec that
  passed, 3 only of one that skipped) and that the status of a test that
  returned is final: changing it takes a child that is up. `TypeCorrect` needs
  the same invariant, because `failures` is counted once.

`RunSuiteProofs`, for every finite list of tests, repetitions included, every
choice of smoke and `[Serial]` tests and every number of flakes (`EntryAssumption`
to `JUnitAssumption`):

- `TypeCorrect`; `QueueInvHolds`: unless the run is interrupted every entry is
  in some queue or finished, and an execution that is over leaves nothing
  behind; from it `SmokeTestsFirst`.
- `SuccessEarned`. Exit status 0 is decided from `count` and `failing`, the
  promise is about executions. `FlagInv` ties flags to the history of
  executions, `RetryInv` ties `count` and `failing` to the flags: after the
  summary no flag of a test case changes (retries run on copies), so an entry
  that left `failing` left it because its copy passed.
- `RetriesEarned` and `ReportSound`, for a list without repetitions
  (`NoRepetition`, a count of one; with repetitions the two executions of a test
  case share its flags, and an entry may be counted as passed and as failed).
  Then `OnceInv` holds: a test case has no flag before its one execution and one
  flag afterwards. `FlakesInv` says that a run that retries, or whose failures a
  retry has changed, had counted no more failures than it allows; `ReportInv`
  that the counters and the report are numbers of entries by flag, which the
  flags still show when the report is written.

`MonitorProofs`, for every set of conditions and every number of records and
samples (`CondAssumption`, `BoundAssumption`):

- `ConditionQueriesExact`, that the loop of `filterSamples` returns the longest
  runs of samples that report a condition, of those a query keeps, whatever the
  clock did. The loop is a recursive function (`UpTo`), so the proof is by
  induction, which the provers only take about a set: `Least` (a set of numbers
  has a least one) gives `Induction`, and this first `UpToDef` (the recursion
  defines a function), then `UpToExact`. What is carried along says after each
  sample which intervals are open and which are closed (`OpenExact`,
  `ClosedExact`): an open one is a run that ends at the last sample kept. What
  `Kept` keeps is an interval of positions even in a list that is out of order:
  the search drops a first part, the scan stops somewhere.
- `AllQueriesExact`, with the order of the lists (`OrderInv`: while nobody sets
  the clock back no stamp is ahead of it, and it does not go back) and
  the binary search: another induction, over its rounds, says that in a list in order it ends
  between the last position at or before the bound and the first after it.
- `TypeCorrect` and `PrintsExactlyOnce`. A poll may move `last` to the start of
  an interval. `PrintInv` says that `last` is never ahead of the clock, that there
  is something stamped `last`, and that an event up to `last` was printed, once,
  unless it shares its stamp with something found before; so a poll, which takes
  exactly what is after `last`, prints nothing twice.

The same module for `EventWatch`, for every number of events and failures and
every set of system events (`SystemAssumption`, `WatchBounds`):

- `WatchTypeCorrect` and `RecordsExactly`. `RecordingInv` adds that without an expiry
  the goroutine never comes back to the list, so `rv` is the version of the
  first list and a watch that is opened again starts at or before the first
  event that might be missing.

`ReportPortalProofs`, for every number of jobs, cases, rebuilds and faults
(`ReportPortalAssumption`, `CallsAssumption`):

- `TypeCorrect`, with the lemmas on what a step of one client leaves of the
  server: launches are appended or changed in place, ids of items are unique and
  never used again.
- `ReplacesInPlace`, the action property `RerunReplaces`. A step is judged by
  what the client remembers, so the invariant `Inv` says that this memory is
  true: an item in `seen` is deleted, about to be deleted, or its case is in
  `kept` (`ReplaceOK`); the ids to be deleted are items of the case in hand and
  of this launch; the item just started is still open; and no two clients hold
  the same new item (`ChildrenApart`). Nothing is assumed about failing calls,
  lost answers, kills or jobs that share a case.

Its second part is for jobs that share no case (`JobsApart`, which the runs
evaluate; two jobs that ran the same case would each replace what the other
reports) and as long as no call fails, which is what both properties say. With a
fault both are false, as `report_portal_forgotten` shows of the second one:

- `LatestShown`, that is `ShownOnce`. `PlaceInv` says where things are: every
  item is in a launch of its team, or in one whose importer is still to give it
  its attributes, and no two importers share one. `SoloInv` counts launches: a
  job that is alone finds the launch of a team before it imports another.
  `ShownInv` follows the items of a case through import and rerun (`CaseOK`):
  its result is still in the file of the job that ran it (`Pending`), or it is
  shown once in a launch of its team (`Settled`).
- `NothingForgotten`, that is `NoRerunSound`. `KnownInv` says that a failure is
  never out of sight: it is in a launch that carries the job's build number, or
  in the file the job is still to report, or no launch of the team carries the
  job, so the case is new and runs again. While a rebuild asks, what it has not
  yet read is still to be asked about (`KnownOK`).

Both rest on `Frame`: what a step of one job leaves alone, so that each
invariant has to be shown for the job that steps only. Both premises hold
backwards (faults are never taken back, two launches of a team never become
one), so a step may assume them of the state before.

`TrackersProofs`, for every portal, set of cases and of launches, page size,
threshold, sequence of builds, number of bugs and of faults (`CaseAssumption`,
`SubTaskAssumption`, `ProfileTrackerAssumption`, `BuildAssumption`,
`BugAssumption`). `Accounts` is the inductive invariant; it has a part for each
script and one for Jira, and each rests on what the script remembers being true:

- `TypeCorrect` and `NothingMadeTwice`. The tracker of unstable cases lists the sub-tasks
  once, before its rows, so it must not meet a subject again: `ListedLongAgo`
  says that every sub-task that came after the listing is for a row it is past,
  and the rows have distinct cases, because `NewCasesFacts` says that a case is
  added when it is first met only. The tracker of low pass rates lists them
  anew for every suite (`LowInv`: what it listed is all there is). `CreateFacts`
  and `CreateOnce` say of both what `create_sub_task` does. A bug is inserted
  only if no row of the sheet has it (`BugsInv`), though rows that lost their
  answer may be there.
- `TracksExactly`: what a run is past is tracked
  (`RowsTracked`, `LowBefore`), and nobody takes a sub-task away
  (`StaysTracked`: who closes one is counted). The first attempt to prove
  `LowSuitesTracked` failed: a launch none of whose tests passed or failed is
  skipped (`collect_lowpassratio_profiles.py:152`), which the property now says.
- `BuildsAreKept`: `BuildProgress` says that, of a build that nothing excuses
  (`Clean`), the cases still to be written are the last ones and those before
  them are in the sheet, the newest perhaps without its link, which goes to the
  first row. While rows are written the build at hand is not one that is saved
  (`NotSaved`), so what is excused then is not either.
- `RowsAreExact`, that is `RowsExact`. `ReadInv` follows the reading: of the launch
  at hand the pages before the next one are recorded (`PartRead`), and of every
  launch the run is past what each case ended with (`InGot`), unless the run
  passed over something. A case repeated on a later page is recorded again, so
  the last result stays; `PagesReach` says that the pages reach to the end of a
  list, `TimesFacts` that then the results counted for a row are, one to one,
  the launches of the case.

The loops over a list are recursive functions (`EntriesUpTo`); `EntriesPicks`
says, by induction over a set of numbers as in `MonitorProofs`, that they keep
the entries at their places, each once and in order.

`ResultFileProofs`, for every list of tests, ids repeated within a name or
between names included (`ResultFileAssumption`). The loops are recursive
functions; `LoopExists` and `Induction` do for all of them what they do in
`MonitorProofs`. `IInv` adds three things to the properties: `cases` stays a
list of tests, before the removal the monitor has one case at most
(`MonitorOnce`: the removal counts without all of them, and takes one out), and
the teams' files are sequences of entries (`FilesOK`).

- `TypeCorrect` and `KeepsResults`. What `Split` writes (`TeamFile`) for a team lists
  every place where one of its tests names an id (`FileHits`), and `Tally`
  counts these places, so the counts of a team's file are those of the results
  in it (`TallyIs`).
- `SummaryIsSound`, that is `SummarySound`. `IdsDone` says what the loop over
  the ids of one test makes of the summary and of the local `result`: a failure
  comes from this test or was in the summary, none is lost. `CaseDone` says it
  of one case, `Shown` of the first n: a failure comes from a case that failed,
  every such case shows in its lines, and an id that no test names with another
  shows FAIL before PASS before SKIP. The exit status follows from what is
  printed and from the imports.

`PortalToolsProofs`, for every number of items, launches, suites, slots and
profiles, every page size and every number of runs, faults and changes
(`UpdateAssumption`, `PassRateAssumption`, `ProfileAssumption`,
`CallsAssumption`). `IInv` has a part for each tool, and faults are the only
thing they share:

- `TypeCorrect`. That a profile has at most one fake launch more than there were
  faults takes `ProfileInv`: when one is imported there are at most as many as
  faults, because the query said there was none or failed.
- `UpdatesExactly`, that is `UpdateExact`. `LeftOutOnlyIfTold` speaks of the end
  of a run; `CompleteInv` follows it: of the launches what is on the pages so far
  is found (`Reached`), then every matching item of the author is in a launch
  still to be handled, and of the launch at hand what is on the pages so far is
  to be passed. `AllReached` says that the pages of a list reach to its end.
- `RatesAreSound`, that is `RatesSound`. `WholeInv` does the same for launches and
  suites, so a run that passed over no page has read them all; `RatesFacts`
  bounds the rates, those that floating point cuts one short included, and
  `TotalNat` says that the loop over the suites is defined.
- `KeepsLastLaunch`, for which `ProfileInv` says that a fake is only looked up and
  deleted next to another launch.

Only model-checked: liveness (`ExecuteReturns`, `ParallelTestsRun`, the
properties of `TestRun`, `RunEnds`, `BuildsEnd`, the liveness of `EventWatch` and
of the scripts, `FakesSettle` among it), which is out of the prover's reach.

## 6. Abstractions worth knowing

- The flags of a test case shared by two executions are written without a lock.
  The outcomes of the race are the same flags, set in either order, and the
  model sets them one execution at a time. Times and output of the test case
  race, too, and are left out.
- Errors of writing the report are printed and change nothing.
- A child whose descendants keep its output open would delay `CombinedOutput`;
  a child ends with its descendants here.
- `Monitor`'s clock is set back at most `MaxSetBacks` times; a clock that is set
  forward is one that advanced, as only the order of stamps matters.
- `GraceEnds` assumes that a minute is longer than starting a process.
- Test names are distinct within a team's file; two cases of one name would
  share their place in `deletedList`.
- Every launch and item the server lists carries an `endTime`. For one that is
  still open `reportportal.py` would raise and give up before it deletes
  anything.
- Lists of launches and of failed items fit one page of `reportportal.py`
  (300), as its comments suppose.
- The comment, the story points and the transition of a Jira sub-task are one
  step; so are the columns of a row of the bug sheet, but for the check of its
  tracking link. The assignee column is left out.
- `ProfileTracker` sees the launches of the version and days asked for, without
  the option that names one profile or team.
- The trend sheet of `CaseTracker` is its entry for today's sheet only, which is
  made before the sheet gets its name (`today`); the copy of the template that a
  refused name leaves behind is left out.

## 7. What is not modelled

Selection of tests, health samplers, informers, the disruption harness and OAuth
token requests are planned (section 2). Not planned:

- the test cases under `test/extended` (straight scenarios against a live
  cluster: what they check is OpenShift, not this program), their helpers and
  cloud clients (pure I/O), test data and generated code, Cypress tests;
- commands of `reportportal.py` that are one call (delete by name, a single
  attribute, merge), `create_issue` of the bug sheet (a person's command);
- scripts that read once and post or print: `collect_*_to_slack.py`,
  `getfailcaseid.py`, `unifycirp.py`, `summary_olm_test_result.py`, and
  `fastfixmonitor.py`, whose `exit(0)` comes before its actions ("bugzilla is
  not used");
- the remaining shell, Jenkins and lint scripts (`hack`), which keep no state.
