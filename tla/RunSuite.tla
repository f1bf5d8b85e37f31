----------------------------- MODULE RunSuite -----------------------------
(***************************************************************************)
(* Options.Run after the tests were selected: the smoke tests, then the    *)
(* other tests, are executed by a queue; the flags their executions set    *)
(* are summed up; few enough failures are retried to tell flakes; the      *)
(* JUnit report is written; and the result becomes the exit status.  A     *)
(* goroutine turns a first signal into a cancellation and a second one     *)
(* into an exit.  A queue behaves as TestExecution says, which TestQueue   *)
(* implements.                                                             *)
(*                                                                         *)
(* With a count above one the list of tests holds the same *testCase       *)
(* several times: its executions share one set of flags.                   *)
(***************************************************************************)
EXTENDS Integers, FiniteSets

CONSTANTS
  Entry,      (* positions of the list of tests                            *)
  Case,       (* the test cases                                            *)
  CaseOf,     (* the test case at each position                            *)
  Smoke,      (* the test cases named [Smoke]                              *)
  SerialCase, (* the test cases named [Serial]                             *)
  MaxFlakes,  (* suite.MaximumAllowedFlakes                                *)
  JUnitDir    (* whether a directory for the JUnit report was given        *)

ASSUME EntryAssumption  == IsFiniteSet(Entry) /\ Entry # {}
ASSUME CaseAssumption   == CaseOf \in [Entry -> Case]
ASSUME NameAssumption   == Smoke \subseteq Case /\ SerialCase \subseteq Case
ASSUME FlakesAssumption == MaxFlakes \in Nat
ASSUME JUnitAssumption  == JUnitDir \in BOOLEAN

VARIABLES
  phase,      (* where Options.Run is                                      *)
  waiting,    (* the queue being executed: tests not started,              *)
  running,    (* tests being run,                                          *)
  finished,   (* tests whose run has returned                              *)
  over,       (* and whether Execute has returned                          *)
  cancelled,  (* ctx is done                                               *)
  handler,    (* the goroutine reading abortCh                             *)
  flags,      (* the flags set on each test case                           *)
  retry,      (* the flags set on the retried copy of each entry           *)
  count,      (* pass, fail, skip of summarizeTests                        *)
  failing,    (* the entries reported as failing                           *)
  anomaly,    (* the monitor saw error events                              *)
  report,     (* the JUnit report                                          *)
  exit,       (* the exit status of the process                            *)
  log         (* history: the outcomes of the executions of each test case *)

queueVars   == <<waiting, running, finished, over>>
verdictVars == <<count, failing, anomaly, report, exit>>
vars == <<phase, queueVars, cancelled, handler, flags, retry, verdictVars, log>>

Flag == {"success", "failed", "skipped"}
NoReport == [tests |-> 0, failed |-> 0, skipped |-> 0, cases |-> {}]
NoExit == -1

NoClass == "none"
Queue == INSTANCE TestExecution WITH
  Test     <- Entry,
  Serial   <- {e \in Entry : CaseOf[e] \in SerialCase},
  Class    <- [e \in Entry |-> NoClass],
  returned <- over

(* splitTests by [Smoke]                                                   *)
SmokeEntries == {e \in Entry : CaseOf[e] \in Smoke}

-----------------------------------------------------------------------------
Init ==
  /\ phase = "smoke"
  /\ waiting = SmokeEntries
  /\ running = {}
  /\ finished = {}
  /\ over = FALSE
  /\ cancelled = FALSE
  /\ handler = "first"
  /\ flags = [c \in Case |-> {}]
  /\ retry = [e \in Entry |-> {}]
  /\ count = [pass |-> 0, fail |-> 0, skip |-> 0]
  /\ failing = {}
  /\ anomaly = FALSE
  /\ report = NoReport
  /\ exit = NoExit
  /\ log = [c \in Case |-> {}]

Executing == phase \in {"smoke", "normal", "retry"} /\ ~over
Alive     == exit = NoExit

(* The queue starts a test, gives tests up, or returns.                    *)
QueueStep ==
  /\ Alive /\ Executing
  /\ \/ \E e \in Entry : Queue!StartParallel(e) \/ Queue!StartSerial(e)
     \/ Queue!GiveUp
     \/ Queue!Return
  /\ UNCHANGED <<phase, handler, flags, retry, verdictVars, log>>

(* testStatus.Run returns with the outcome of one execution.  A retry runs *)
(* on a copy of the test case, every other execution on the test case.     *)
FinishTest(e, outcome) ==
  /\ Alive /\ Executing
  /\ Queue!Finish(e)
  /\ log' = [log EXCEPT ![CaseOf[e]] = @ \union {outcome}]
  /\ IF phase = "retry"
     THEN /\ retry' = [retry EXCEPT ![e] = @ \union {outcome}]
          /\ UNCHANGED flags
     ELSE /\ flags' = [flags EXCEPT ![CaseOf[e]] = @ \union {outcome}]
          /\ UNCHANGED retry
  /\ UNCHANGED <<phase, handler, verdictVars>>

(* newParallelTestQueue(tests)                                             *)
NewQueue(tests) ==
  /\ waiting' = tests
  /\ running' = {}
  /\ over' = FALSE

(* Mutant: the other tests are started without waiting for Execute.        *)
RunNormalAtOnce ==
  /\ Alive /\ phase = "smoke"
  /\ phase' = "normal"
  /\ NewQueue(Entry \ SmokeEntries)
  /\ UNCHANGED <<finished, cancelled, handler, flags, retry, verdictVars, log>>

(* Mutant: an interrupted run does not go on to the other tests.           *)
RunNormalUnlessCancelled ==
  /\ Alive /\ phase = "smoke" /\ over /\ ~cancelled
  /\ phase' = "normal"
  /\ NewQueue(Entry \ SmokeEntries)
  /\ UNCHANGED <<finished, cancelled, handler, flags, retry, verdictVars, log>>

RunNormal ==
  /\ Alive /\ phase = "smoke" /\ over
  /\ phase' = "normal"
  /\ NewQueue(Entry \ SmokeEntries)
  /\ UNCHANGED <<finished, cancelled, handler, flags, retry, verdictVars, log>>

-----------------------------------------------------------------------------
(* summarizeTests looks at success first, writeJUnitReport at skipped.     *)
Summarized == [e \in Entry |->
  LET f == flags[CaseOf[e]]
  IN  IF "success" \in f THEN "pass"
      ELSE IF "failed" \in f THEN "fail"
      ELSE IF "skipped" \in f THEN "skip" ELSE "none"]

(* Mutant: the skipped tests are left out of the report.                   *)
ReportedUnlessSkipped == [e \in Entry |->
  LET f == flags[CaseOf[e]]
  IN  IF "failed" \in f THEN "failed"
      ELSE IF "success" \in f THEN "success" ELSE "none"]

Reported == [e \in Entry |->
  LET f == flags[CaseOf[e]]
  IN  IF "skipped" \in f THEN "skipped"
      ELSE IF "failed" \in f THEN "failed"
      ELSE IF "success" \in f THEN "success" ELSE "none"]

EntriesThat(verdict, v) == {e \in Entry : verdict[e] = v}

(* Mutant: a counter that starts at one.                                   *)
NumberFromOne(verdict, v) == 1 + Cardinality(EntriesThat(verdict, v))

Number(verdict, v) == Cardinality(EntriesThat(verdict, v))

(* Mutant: failures are retried however many they are.                     *)
SummarizeRetryAll ==
  /\ Alive /\ phase = "normal" /\ over
  /\ count' = [pass |-> Number(Summarized, "pass"),
               fail |-> Number(Summarized, "fail"),
               skip |-> Number(Summarized, "skip")]
  /\ failing' = EntriesThat(Summarized, "fail")
  /\ anomaly' \in BOOLEAN
  /\ IF count'.fail > 0
     THEN phase' = "retry" /\ NewQueue(failing') /\ UNCHANGED finished
     ELSE phase' = "report" /\ UNCHANGED queueVars
  /\ UNCHANGED <<cancelled, handler, flags, retry, report, exit, log>>

(* Count the results, look for anomalies of the cluster, and retry the     *)
(* failures if there are few enough of them.                               *)
Summarize ==
  /\ Alive /\ phase = "normal" /\ over
  /\ count' = [pass |-> Number(Summarized, "pass"),
               fail |-> Number(Summarized, "fail"),
               skip |-> Number(Summarized, "skip")]
  /\ failing' = EntriesThat(Summarized, "fail")
  /\ anomaly' \in BOOLEAN
  /\ IF count'.fail > 0 /\ count'.fail <= MaxFlakes
     THEN phase' = "retry" /\ NewQueue(failing') /\ UNCHANGED finished
     ELSE phase' = "report" /\ UNCHANGED queueVars
  /\ UNCHANGED <<cancelled, handler, flags, retry, report, exit, log>>

(* Mutant: one retry that passes clears every failure.                     *)
JudgeRetriesTogether ==
  /\ Alive /\ phase = "retry" /\ over
  /\ phase' = "report"
  /\ failing' = IF \E e \in failing : "success" \in retry[e] THEN {} ELSE failing
  /\ UNCHANGED <<queueVars, cancelled, handler, flags, retry, count, anomaly,
                 report, exit, log>>

(* If a retry passed, only the tests that failed again stay failing.       *)
JudgeRetries ==
  /\ Alive /\ phase = "retry" /\ over
  /\ phase' = "report"
  /\ LET flaky == {e \in failing : "success" \in retry[e]}
     IN  failing' = failing \ flaky
  /\ UNCHANGED <<queueVars, cancelled, handler, flags, retry, count, anomaly,
                 report, exit, log>>

(* writeJUnitReport: a passed test is counted as a failure and not as a    *)
(* test; the anomalies of the cluster are one more failed test.            *)
WriteReport ==
  /\ Alive /\ phase = "report"
  /\ phase' = "judge"
  /\ LET extra   == IF anomaly THEN 1 ELSE 0
         skipped == Number(Reported, "skipped")
         failed  == Number(Reported, "failed")
         success == Number(Reported, "success")
     IN  report' = IF ~JUnitDir THEN report
                   ELSE [tests   |-> skipped + failed + extra,
                         failed  |-> failed + success + extra,
                         skipped |-> skipped,
                         cases   |-> {e \in Entry : Reported[e] # "none"}]
  /\ UNCHANGED <<queueVars, cancelled, handler, flags, retry, count, failing,
                 anomaly, exit, log>>

(* The error of Run, or ctx.Err(), makes main exit with status 1.          *)
Judge ==
  /\ Alive /\ phase = "judge"
  /\ phase' = "returned"
  /\ exit' = IF \/ count.fail > 0 /\ (failing # {} \/ MaxFlakes = 0)
                \/ cancelled
             THEN 1 ELSE 0
  /\ UNCHANGED <<queueVars, cancelled, handler, flags, retry, count, failing,
                 anomaly, report, log>>

-----------------------------------------------------------------------------
(* A signal the goroutine is ready to receive; one that arrives while it   *)
(* is cancelling is dropped, because abortCh has no buffer.                *)
FirstSignal ==
  /\ Alive /\ handler = "first"
  /\ handler' = "cancelling"
  /\ UNCHANGED <<phase, queueVars, cancelled, flags, retry, verdictVars, log>>

CancelRun ==
  /\ Alive /\ handler = "cancelling"
  /\ handler' = "second"
  /\ cancelled' = TRUE
  /\ UNCHANGED <<phase, queueVars, flags, retry, verdictVars, log>>

(* os.Exit(130) for a SIGINT, os.Exit(0) for a SIGTERM.                    *)
SecondSignal ==
  /\ Alive /\ handler = "second"
  /\ exit' \in {130, 0}
  /\ UNCHANGED <<phase, queueVars, cancelled, handler, flags, retry, count,
                 failing, anomaly, report, log>>

Finish == \E e \in Entry, o \in Flag : FinishTest(e, o)
Execution == QueueStep \/ Finish
Main == RunNormal \/ Summarize \/ JudgeRetries \/ WriteReport \/ Judge
Signals == FirstSignal \/ CancelRun \/ SecondSignal

Next == Execution \/ Main \/ Signals

Spec == Init /\ [][Next]_vars

(* The goroutines run; signals are the user's.  A test returns because its *)
(* timeout ends it, but only until the run is interrupted: from then on    *)
(* runWithTimeout waits for the timeout no longer, and what an interrupted *)
(* test does with its SIGINT is its own affair.                            *)
FairSpec ==
  /\ Spec
  /\ WF_vars(QueueStep) /\ WF_vars(~cancelled /\ Finish)
  /\ WF_vars(Main) /\ WF_vars(CancelRun)

-----------------------------------------------------------------------------
(* Every variable stays within its type.                                   *)
TypeOK ==
  /\ phase \in {"smoke", "normal", "retry", "report", "judge", "returned"}
  /\ waiting \subseteq Entry /\ running \subseteq Entry
  /\ finished \subseteq Entry /\ over \in BOOLEAN
  /\ cancelled \in BOOLEAN
  /\ handler \in {"first", "cancelling", "second"}
  /\ flags \in [Case -> SUBSET Flag]
  /\ retry \in [Entry -> SUBSET Flag]
  /\ count \in [pass : 0 .. Cardinality(Entry), fail : 0 .. Cardinality(Entry),
                skip : 0 .. Cardinality(Entry)]
  /\ failing \subseteq Entry
  /\ anomaly \in BOOLEAN
  /\ report.cases \subseteq Entry
  /\ exit \in {NoExit, 0, 1, 130}
  /\ log \in [Case -> SUBSET Flag]

(* A run that returns without an error executed every test, and every test *)
(* whose execution failed passed in another execution.                     *)
SuccessIsEarned ==
  phase = "returned" /\ exit = 0 =>
    /\ finished = Entry
    /\ \A c \in Case : "failed" \in log[c] => "success" \in log[c]

(* "The number of flakes that may occur before this test is marked as a    *)
(* failure": a run that returns without an error had at most so many.      *)
FlakesBounded ==
  phase = "returned" /\ exit = 0 =>
    Cardinality({e \in Entry : "failed" \in flags[CaseOf[e]]}) <= MaxFlakes

(* No other test is started before every smoke test has returned, [Serial] *)
(* smoke tests included, unless the run is interrupted.                    *)
SmokeFirst ==
  \A e \in (running \union finished) \ SmokeEntries :
    SmokeEntries \subseteq finished \/ cancelled

(* A test is executed again only if it failed, and only in a run with no   *)
(* more failures than the suite allows flakes.                             *)
RetriedOnlyFailures ==
  [][\A e \in Entry : e \in running' \ running /\ phase = "retry" =>
        /\ flags[CaseOf[e]] = {"failed"}
        /\ Cardinality({d \in Entry : flags[CaseOf[d]] = {"failed"}}) <= MaxFlakes]_vars

(* Retries are for the failures of a run within its flakes, and a run that *)
(* they turn into a success is within them.                                *)
RetriesWithinFlakes == []FlakesBounded /\ RetriedOnlyFailures

(* The report has one case per executed test, and says of each what the    *)
(* summary says: the failed cases are those that made the summary count a  *)
(* failure, flakes included.                                               *)
ReportMatchesSummary ==
  JUnitDir /\ phase \in {"judge", "returned"} =>
    /\ finished \subseteq report.cases
    /\ Number(Reported, "failed") = count.fail
    /\ report.skipped = count.skip
    /\ count.pass + count.fail + count.skip = Cardinality(report.cases)

(* "NumTests records the number of tests in the TestSuite" and "NumFailed  *)
(* records the number of failed tests in the suite".                       *)
ReportCountsTests ==
  JUnitDir /\ phase = "judge" =>
    LET extra == IF anomaly THEN 1 ELSE 0
    IN  /\ report.tests = Cardinality(report.cases) + extra
        /\ report.failed = Number(Reported, "failed") + extra

(* The run comes to an end, with an exit status, interrupted or not: what  *)
(* can keep it is only a test that was started, does not return, and whose *)
(* timeout an interruption has called off.                                 *)
RunEnds ==
  \/ <>(exit # NoExit)
  \/ \E e \in Entry : <>[](cancelled /\ e \in running)
=============================================================================
