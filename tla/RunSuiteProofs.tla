--------------------------- MODULE RunSuiteProofs ---------------------------
(***************************************************************************)
(* Theorems about RunSuite, for every list of tests, every choice of smoke *)
(* and [Serial] tests and every number of allowed flakes.  Lists may have  *)
(* repetitions unless a theorem assumes NoRepetition: an entry of a test   *)
(* case that is executed twice may count as a failure and be reported as a *)
(* success, because both executions set flags of the one test case.        *)
(***************************************************************************)
EXTENDS RunSuite, FiniteSetTheorems, TLAPS

(* What a step of the queue does for the rest of the runner: it starts a   *)
(* waiting test, gives tests up after an interruption, or returns with     *)
(* nothing running and, unless it was interrupted, nothing waiting.        *)
LEMMA QueueSteps ==
  ASSUME QueueStep
  PROVE  /\ Alive /\ Executing
         /\ UNCHANGED <<phase, handler, flags, retry, verdictVars, log, finished, cancelled>>
         /\ \/ \E e \in waiting : /\ waiting' = waiting \ {e}
                                  /\ running' = running \union {e}
                                  /\ over' = over
            \/ cancelled /\ waiting' \subseteq waiting /\ UNCHANGED <<running, over>>
            \/ /\ running = {} /\ running' = {}
               /\ waiting = {} \/ cancelled
               /\ waiting' = {} /\ over' = TRUE
<1>1. CASE \E e \in Entry : Queue!StartParallel(e) \/ Queue!StartSerial(e)
  <2>1. PICK e \in Entry : Queue!StartParallel(e) \/ Queue!StartSerial(e)
    BY <1>1
  <2>2. e \in waiting /\ waiting' = waiting \ {e} /\ running' = running \union {e}
    BY <2>1 DEF Queue!StartParallel, Queue!StartSerial
  <2>3. UNCHANGED <<finished, cancelled, over>>
    BY <2>1 DEF Queue!StartParallel, Queue!StartSerial
  <2> QED
    BY <2>2, <2>3 DEF QueueStep
<1>2. CASE Queue!GiveUp
  BY <1>2 DEF Queue!GiveUp, QueueStep
<1>3. CASE Queue!Return
  BY <1>3 DEF Queue!Return, QueueStep
<1> QED
  BY <1>1, <1>2, <1>3 DEF QueueStep

(* What is counted and retried is a set of entries, and so finite.         *)
LEMMA EntriesCounted ==
  ASSUME NEW verdict, NEW v
  PROVE  /\ EntriesThat(verdict, v) \subseteq Entry
         /\ IsFiniteSet(EntriesThat(verdict, v))
         /\ Number(verdict, v) \in 0 .. Cardinality(Entry)
<1>1. EntriesThat(verdict, v) \subseteq Entry
  BY DEF EntriesThat
<1>2. /\ IsFiniteSet(EntriesThat(verdict, v))
      /\ Cardinality(EntriesThat(verdict, v)) <= Cardinality(Entry)
  BY <1>1, EntryAssumption, FS_Subset
<1>3. Cardinality(EntriesThat(verdict, v)) \in Nat /\ Cardinality(Entry) \in Nat
  BY <1>2, EntryAssumption, FS_CardinalityType
<1> QED
  BY <1>1, <1>2, <1>3 DEF Number

(* Every variable stays within its type, counters within the number of     *)
(* tests.                                                                  *)
THEOREM TypeCorrect == Spec => []TypeOK
<1>1. Init => TypeOK
  <2>1. Cardinality(Entry) \in Nat
    BY EntryAssumption, FS_CardinalityType
  <2>2. ASSUME Init
        PROVE  count \in [pass : 0 .. Cardinality(Entry), fail : 0 .. Cardinality(Entry),
                          skip : 0 .. Cardinality(Entry)]
    BY <2>1, <2>2 DEF Init
  <2>3. Init => report.cases \subseteq Entry
    BY DEF Init, NoReport
  <2>4. Init => waiting \subseteq Entry
    BY DEF Init, SmokeEntries
  <2> QED
    BY <2>2, <2>3, <2>4 DEF Init, TypeOK
<1>2. TypeOK /\ [Next]_vars => TypeOK'
  <2> SUFFICES ASSUME TypeOK, [Next]_vars
               PROVE  TypeOK'
    OBVIOUS
  <2> USE DEF TypeOK
  <2>1. CASE QueueStep
    <3>1. /\ waiting' \subseteq Entry /\ running' \subseteq Entry /\ over' \in BOOLEAN
      BY <2>1, QueueSteps
    <3>2. UNCHANGED <<phase, handler, flags, retry, count, failing, anomaly, report, exit,
                      log, finished, cancelled>>
      BY <2>1, QueueSteps DEF verdictVars
    <3> QED
      BY <3>1, <3>2
  <2>2. ASSUME NEW e \in Entry, NEW o \in Flag, FinishTest(e, o)
        PROVE  TypeOK'
    <3>1. CaseOf[e] \in Case
      BY CaseAssumption
    <3>2. log' \in [Case -> SUBSET Flag]
      BY <2>2, <3>1 DEF FinishTest
    <3>3. flags' \in [Case -> SUBSET Flag] /\ retry' \in [Entry -> SUBSET Flag]
      BY <2>2, <3>1 DEF FinishTest
    <3>4. /\ running' \subseteq Entry /\ finished' \subseteq Entry
          /\ UNCHANGED <<waiting, cancelled, over, phase, handler, verdictVars>>
      BY <2>2 DEF FinishTest, Queue!Finish
    <3> QED
      BY <3>2, <3>3, <3>4 DEF verdictVars
  <2>3. CASE RunNormal
    BY <2>3 DEF RunNormal, NewQueue, verdictVars
  <2>4. CASE Summarize
    <3>1. count' \in [pass : 0 .. Cardinality(Entry), fail : 0 .. Cardinality(Entry),
                      skip : 0 .. Cardinality(Entry)]
      <4> HIDE DEF TypeOK
      <4> QED
        BY <2>4, EntriesCounted DEF Summarize
    <3>2. failing' \subseteq Entry
      BY <2>4, EntriesCounted DEF Summarize
    <3>3. /\ phase' \in {"retry", "report"}
          /\ waiting' \subseteq Entry /\ running' \subseteq Entry /\ over' \in BOOLEAN
          /\ anomaly' \in BOOLEAN
          /\ UNCHANGED <<finished, cancelled, handler, flags, retry, report, exit, log>>
      BY <2>4, <3>2 DEF Summarize, NewQueue, queueVars
    <3> QED
      BY <3>1, <3>2, <3>3
  <2>5. CASE JudgeRetries
    BY <2>5 DEF JudgeRetries, queueVars
  <2>6. CASE WriteReport
    <3>1. report'.cases \subseteq Entry
      <4>1. CASE ~JUnitDir
        BY <2>6, <4>1 DEF WriteReport
      <4>2. CASE JUnitDir
        BY <2>6, <4>2 DEF WriteReport
      <4> QED
        BY <4>1, <4>2
    <3> QED
      BY <2>6, <3>1 DEF WriteReport, queueVars
  <2>7. CASE Judge
    BY <2>7 DEF Judge, queueVars
  <2>8. CASE FirstSignal
    BY <2>8 DEF FirstSignal, queueVars, verdictVars
  <2>9. CASE CancelRun
    BY <2>9 DEF CancelRun, queueVars, verdictVars
  <2>10. CASE SecondSignal
    BY <2>10 DEF SecondSignal, queueVars
  <2>11. CASE UNCHANGED vars
    BY <2>11 DEF vars, queueVars, verdictVars
  <2> QED
    BY <2>1, <2>2, <2>3, <2>4, <2>5, <2>6, <2>7, <2>8, <2>9, <2>10, <2>11
       DEF Next, Execution, Finish, Main, Signals
<1> QED
  BY <1>1, <1>2, PTL DEF Spec

-----------------------------------------------------------------------------
(* Where the tests are.  While the smoke tests are executed there are no   *)
(* others; unless the run is interrupted no entry gets lost between the    *)
(* queues; and an execution that is over has left nothing behind.          *)
QueueInv ==
  /\ phase = "smoke" => waiting \union running \union finished \subseteq SmokeEntries
  /\ phase = "smoke" /\ ~cancelled => SmokeEntries \subseteq waiting \union running \union finished
  /\ phase # "smoke" /\ ~cancelled => /\ SmokeEntries \subseteq finished
                                      /\ Entry \subseteq waiting \union running \union finished
  /\ over => waiting = {} /\ running = {}
  /\ phase \in {"report", "judge", "returned"} => over

(* Each step moves one test, gives tests up because of an interruption, or *)
(* begins a new queue when the one before is over.                         *)
THEOREM QueueInvHolds == Spec => []QueueInv
<1>1. Init => QueueInv
  BY DEF Init, QueueInv
<1>2. TypeOK /\ QueueInv /\ [Next]_vars => QueueInv'
  <2> SUFFICES ASSUME TypeOK, QueueInv, [Next]_vars
               PROVE  QueueInv'
    OBVIOUS
  <2> USE DEF QueueInv
  <2>0. SmokeEntries' = SmokeEntries /\ SmokeEntries \subseteq Entry
    BY DEF SmokeEntries
  <2>1. CASE QueueStep
    <3>1. UNCHANGED <<phase, finished, cancelled>> /\ ~over /\ phase \in {"smoke", "normal", "retry"}
      BY <2>1, QueueSteps DEF Executing
    <3>2. CASE \E e \in waiting : /\ waiting' = waiting \ {e}
                                  /\ running' = running \union {e}
                                  /\ over' = over
      BY <2>0, <3>1, <3>2
    <3>3. CASE cancelled /\ waiting' \subseteq waiting /\ UNCHANGED <<running, over>>
      BY <2>0, <3>1, <3>3
    <3>4. CASE /\ running = {} /\ running' = {}
               /\ waiting = {} \/ cancelled
               /\ waiting' = {} /\ over' = TRUE
      BY <2>0, <3>1, <3>4
    <3> QED
      BY <2>1, <3>2, <3>3, <3>4, QueueSteps
  <2>2. ASSUME NEW e \in Entry, NEW o \in Flag, FinishTest(e, o)
        PROVE  QueueInv'
    <3>1. /\ e \in running /\ running' = running \ {e} /\ finished' = finished \union {e}
          /\ UNCHANGED <<phase, waiting, cancelled, over>>
      BY <2>2 DEF FinishTest, Queue!Finish
    <3> QED
      BY <2>0, <3>1
  <2>3. CASE RunNormal
    BY <2>0, <2>3 DEF RunNormal, NewQueue
  <2>4. CASE Summarize
    <3>1. /\ phase = "normal" /\ over /\ UNCHANGED <<finished, cancelled>>
          /\ \/ phase' = "retry" /\ waiting' = failing' /\ running' = {} /\ over' = FALSE
             \/ phase' = "report" /\ UNCHANGED <<waiting, running, over>>
      BY <2>4 DEF Summarize, NewQueue, queueVars
    <3> QED
      BY <2>0, <3>1
  <2>5. CASE JudgeRetries
    BY <2>0, <2>5 DEF JudgeRetries, queueVars
  <2>6. CASE WriteReport
    BY <2>0, <2>6 DEF WriteReport, queueVars
  <2>7. CASE Judge
    BY <2>0, <2>7 DEF Judge, queueVars
  <2>8. CASE FirstSignal
    BY <2>0, <2>8 DEF FirstSignal, queueVars
  <2>9. CASE CancelRun
    BY <2>0, <2>9 DEF CancelRun, queueVars
  <2>10. CASE SecondSignal
    BY <2>0, <2>10 DEF SecondSignal, queueVars
  <2>11. CASE UNCHANGED vars
    BY <2>0, <2>11 DEF vars, queueVars
  <2> QED
    BY <2>1, <2>2, <2>3, <2>4, <2>5, <2>6, <2>7, <2>8, <2>9, <2>10, <2>11
       DEF Next, Execution, Finish, Main, Signals
<1> QED
  BY <1>1, <1>2, TypeCorrect, PTL DEF Spec

(* No other test is started before every smoke test has returned, [Serial] *)
(* smoke tests included, unless the run is interrupted.                    *)
THEOREM SmokeTestsFirst == Spec => []SmokeFirst
<1>1. QueueInv => SmokeFirst
  BY DEF QueueInv, SmokeFirst
<1> QED
  BY <1>1, QueueInvHolds, PTL

-----------------------------------------------------------------------------
(* The flags of a test case and of its retried copies are the outcomes of  *)
(* its executions, and only a test case with an entry is executed.         *)
FlagInv ==
  /\ \A c \in Case : \A o \in log[c] :
       o \in flags[c] \/ \E e \in Entry : CaseOf[e] = c /\ o \in retry[e]
  /\ \A c \in Case : flags[c] \subseteq log[c]
  /\ \A e \in Entry : retry[e] \subseteq log[CaseOf[e]]
  /\ \A c \in Case : flags[c] # {} => \E e \in Entry : CaseOf[e] = c

(* Only FinishTest changes flags, and it changes the log with them.        *)
THEOREM FlagInvHolds == Spec => []FlagInv
<1>1. Init => FlagInv
  BY CaseAssumption DEF Init, FlagInv
<1>2. TypeOK /\ FlagInv /\ [Next]_vars => FlagInv'
  <2> SUFFICES ASSUME TypeOK, FlagInv, [Next]_vars
               PROVE  FlagInv'
    OBVIOUS
  <2>1. ASSUME NEW e \in Entry, NEW o \in Flag, FinishTest(e, o)
        PROVE  FlagInv'
    <3>1. CaseOf[e] \in Case /\ \A d \in Entry : CaseOf[d] \in Case
      BY CaseAssumption
    <3>2. /\ log \in [Case -> SUBSET Flag] /\ flags \in [Case -> SUBSET Flag]
          /\ retry \in [Entry -> SUBSET Flag]
      BY DEF TypeOK
    <3>3. log' = [log EXCEPT ![CaseOf[e]] = @ \union {o}]
      BY <2>1 DEF FinishTest
    <3>4. CASE phase = "retry"
      <4>1. retry' = [retry EXCEPT ![e] = @ \union {o}] /\ flags' = flags
        BY <2>1, <3>4 DEF FinishTest
      <4> QED
        BY <3>1, <3>2, <3>3, <4>1 DEF FlagInv
    <3>5. CASE phase # "retry"
      <4>1. flags' = [flags EXCEPT ![CaseOf[e]] = @ \union {o}] /\ retry' = retry
        BY <2>1, <3>5 DEF FinishTest
      <4> QED
        BY <3>1, <3>2, <3>3, <4>1 DEF FlagInv
    <3> QED
      BY <3>4, <3>5
  <2>2. ASSUME UNCHANGED <<flags, retry, log>>
        PROVE  FlagInv'
    BY <2>2 DEF FlagInv
  <2>3. CASE QueueStep
    BY <2>2, <2>3, QueueSteps
  <2>4. CASE Main
    BY <2>2, <2>4 DEF Main, RunNormal, Summarize, JudgeRetries, WriteReport, Judge
  <2>5. CASE Signals
    BY <2>2, <2>5 DEF Signals, FirstSignal, CancelRun, SecondSignal
  <2>6. CASE UNCHANGED vars
    BY <2>2, <2>6 DEF vars
  <2> QED
    BY <2>1, <2>3, <2>4, <2>5, <2>6 DEF Next, Execution, Finish
<1> QED
  BY <1>1, <1>2, TypeCorrect, PTL DEF Spec

(* The entries the summary counts as failures.                             *)
Failed == EntriesThat(Summarized, "fail")

(* What is retried, and what a retry may take off the list of failures;    *)
(* and what the exit status of a run that returned rests on.               *)
RetryInv ==
  /\ phase \in {"smoke", "normal"} => retry = [e \in Entry |-> {}]
  /\ phase = "retry" => failing = Failed /\ waiting \union running \subseteq Failed
  /\ phase \notin {"smoke", "normal"} =>
       /\ count.fail = Cardinality(Failed)
       /\ failing \subseteq Failed
       /\ \A e \in Failed \ failing : "success" \in retry[e]
       /\ \A e \in Entry : retry[e] # {} => e \in Failed
  /\ phase = "returned" => exit # NoExit
  /\ phase = "returned" /\ exit = 0 => ~cancelled /\ (count.fail = 0 \/ failing = {})

(* Once the failures are counted no flag of a test case changes any more:  *)
(* retries run on copies.                                                  *)
THEOREM RetryInvHolds == Spec => []RetryInv
<1>1. Init => RetryInv
  BY DEF Init, RetryInv
<1>2. TypeOK /\ QueueInv /\ RetryInv /\ [Next]_vars => RetryInv'
  <2> SUFFICES ASSUME TypeOK, QueueInv, RetryInv, [Next]_vars
               PROVE  RetryInv'
    OBVIOUS
  <2>0. flags' = flags => Failed' = Failed
    BY DEF Failed, EntriesThat, Summarized
  <2>1. CASE QueueStep
    <3>1. /\ UNCHANGED <<phase, flags, retry, count, failing, exit, cancelled>>
          /\ phase \in {"smoke", "normal", "retry"}
      BY <2>1, QueueSteps DEF verdictVars, Executing
    <3>2. waiting' \union running' \subseteq waiting \union running
      BY <2>1, QueueSteps
    <3> QED
      BY <2>0, <3>1, <3>2 DEF RetryInv
  <2>2. ASSUME NEW e \in Entry, NEW o \in Flag, FinishTest(e, o)
        PROVE  RetryInv'
    <3>1. /\ UNCHANGED <<phase, count, failing, exit, cancelled, waiting>>
          /\ e \in running /\ running' = running \ {e}
          /\ phase \in {"smoke", "normal", "retry"}
      BY <2>2 DEF FinishTest, Queue!Finish, verdictVars, Executing
    <3>2. CASE phase = "retry"
      <4>1. retry' = [retry EXCEPT ![e] = @ \union {o}] /\ Failed' = Failed
        BY <2>0, <2>2, <3>2 DEF FinishTest
      <4>2. retry \in [Entry -> SUBSET Flag]
        BY DEF TypeOK
      <4> QED
        BY <3>1, <3>2, <4>1, <4>2 DEF RetryInv
    <3>3. CASE phase # "retry"
      BY <2>2, <3>1, <3>3 DEF FinishTest, RetryInv
    <3> QED
      BY <3>2, <3>3
  <2>3. CASE RunNormal
    BY <2>3 DEF RunNormal, verdictVars, RetryInv
  <2>4. CASE Summarize
    <3>1. /\ phase = "normal" /\ over /\ flags' = flags /\ retry' = retry
          /\ phase' \in {"retry", "report"}
          /\ failing' = Failed /\ count'.fail = Cardinality(Failed)
      BY <2>4 DEF Summarize, Failed, Number
    <3>2. phase' = "retry" => waiting' = failing' /\ running' = {}
      BY <2>4 DEF Summarize, NewQueue
    <3>3. \A e \in Entry : retry[e] = {}
      BY <3>1 DEF RetryInv
    <3> QED
      BY <2>0, <3>1, <3>2, <3>3 DEF RetryInv
  <2>5. CASE JudgeRetries
    <3>1. /\ phase = "retry" /\ phase' = "report"
          /\ failing' = failing \ {e \in failing : "success" \in retry[e]}
          /\ UNCHANGED <<flags, retry, count, exit, cancelled>>
      BY <2>5 DEF JudgeRetries
    <3> QED
      BY <2>0, <3>1 DEF RetryInv
  <2>6. CASE WriteReport
    BY <2>0, <2>6 DEF WriteReport, RetryInv
  <2>7. CASE Judge
    <3>1. /\ phase = "judge" /\ phase' = "returned" /\ exit' \in {0, 1}
          /\ UNCHANGED <<flags, retry, count, failing, cancelled>>
      BY <2>7 DEF Judge
    <3>2. exit' = 0 => ~cancelled /\ ~(count.fail > 0 /\ failing # {})
      BY <2>7 DEF Judge
    <3>3. count.fail \in Nat
      <4>1. count.fail \in 0 .. Cardinality(Entry) /\ Cardinality(Entry) \in Nat
        BY EntryAssumption, FS_CardinalityType DEF TypeOK
      <4> QED
        BY <4>1
    <3> QED
      BY <2>0, <3>1, <3>2, <3>3 DEF RetryInv, NoExit
  <2>8. CASE FirstSignal
    BY <2>0, <2>8 DEF FirstSignal, queueVars, verdictVars, RetryInv
  <2>9. CASE CancelRun
    BY <2>0, <2>9 DEF CancelRun, queueVars, verdictVars, RetryInv, Alive
  <2>10. CASE SecondSignal
    BY <2>0, <2>10 DEF SecondSignal, queueVars, RetryInv, Alive
  <2>11. CASE UNCHANGED vars
    BY <2>0, <2>11 DEF vars, queueVars, verdictVars, RetryInv
  <2> QED
    BY <2>1, <2>2, <2>3, <2>4, <2>5, <2>6, <2>7, <2>8, <2>9, <2>10, <2>11
       DEF Next, Execution, Finish, Main, Signals
<1> QED
  BY <1>1, <1>2, TypeCorrect, QueueInvHolds, PTL DEF Spec

(* A run that returns without an error executed every test, and every test *)
(* with an execution that failed passed in another one.                    *)
THEOREM SuccessEarned == Spec => []SuccessIsEarned
<1>1. TypeOK /\ QueueInv /\ FlagInv /\ RetryInv => SuccessIsEarned
  <2> SUFFICES ASSUME TypeOK, QueueInv, FlagInv, RetryInv, phase = "returned", exit = 0
               PROVE  /\ finished = Entry
                      /\ \A c \in Case : "failed" \in log[c] => "success" \in log[c]
    BY DEF SuccessIsEarned
  <2>1. finished = Entry
    <3>1. over /\ ~cancelled
      BY DEF QueueInv, RetryInv
    <3>2. waiting = {} /\ running = {}
      BY <3>1 DEF QueueInv
    <3>3. Entry \subseteq finished
      BY <3>1, <3>2 DEF QueueInv
    <3>4. finished \subseteq Entry
      BY DEF TypeOK
    <3> QED
      BY <3>3, <3>4
  <2>2. ASSUME NEW c \in Case, "failed" \in log[c], "success" \notin log[c]
        PROVE  FALSE
    <3>1. PICK e \in Failed : CaseOf[e] = c
      <4>1. CASE "failed" \in flags[c]
        <5>1. PICK e \in Entry : CaseOf[e] = c
          BY <4>1 DEF FlagInv
        <5>2. "success" \notin flags[c]
          BY <2>2 DEF FlagInv
        <5>3. e \in Failed
          BY <4>1, <5>1, <5>2 DEF Failed, EntriesThat, Summarized
        <5> QED
          BY <5>1, <5>3
      <4>2. CASE "failed" \notin flags[c]
        <5>1. PICK e \in Entry : CaseOf[e] = c /\ "failed" \in retry[e]
          BY <2>2, <4>2 DEF FlagInv
        <5> QED
          BY <5>1 DEF RetryInv
      <4> QED
        BY <4>1, <4>2
    <3>2. count.fail # 0
      <4>1. IsFiniteSet(Failed)
        BY EntriesCounted DEF Failed
      <4>2. Cardinality(Failed) # 0
        BY <3>1, <4>1, FS_EmptySet
      <4> QED
        BY <4>2 DEF RetryInv
    <3>3. "success" \in retry[e]
      BY <3>1, <3>2 DEF RetryInv
    <3>4. e \in Entry
      BY <3>1 DEF Failed, EntriesThat
    <3> QED
      BY <2>2, <3>1, <3>3, <3>4 DEF FlagInv
  <2> QED
    BY <2>1, <2>2
<1> QED
  BY <1>1, TypeCorrect, QueueInvHolds, FlagInvHolds, RetryInvHolds, PTL

-----------------------------------------------------------------------------
(* The list of tests repeats no test case, as with a count of one.         *)
NoRepetition == \A d, e \in Entry : CaseOf[d] = CaseOf[e] => d = e

(* Then every test case is executed at most once before the summary, and   *)
(* has one flag from then on; what was executed has a flag.                *)
OnceInv ==
  /\ waiting \intersect running = {}
  /\ phase \in {"smoke", "normal"} =>
       \A e \in waiting \union running : flags[CaseOf[e]] = {}
  /\ phase = "smoke" => \A e \in Entry \ SmokeEntries : flags[CaseOf[e]] = {}
  /\ \A e \in Entry : flags[CaseOf[e]] \in {{}} \union {{o} : o \in Flag}
  /\ \A e \in finished : flags[CaseOf[e]] # {}

(* An entry leaves the queue when it is executed, and its flag is the only *)
(* one that changes.                                                       *)
THEOREM OnceInvHolds ==
  ASSUME NoRepetition
  PROVE  Spec => []OnceInv
<1>1. Init => OnceInv
  <2> SUFFICES ASSUME Init
               PROVE  OnceInv
    OBVIOUS
  <2>1. \A e \in Entry : flags[CaseOf[e]] = {}
    BY CaseAssumption DEF Init
  <2>2. waiting \subseteq Entry /\ running = {} /\ finished = {}
    BY DEF Init, SmokeEntries
  <2> QED
    BY <2>1, <2>2 DEF OnceInv
<1>2. TypeOK /\ QueueInv /\ RetryInv /\ OnceInv /\ [Next]_vars => OnceInv'
  <2> SUFFICES ASSUME TypeOK, QueueInv, RetryInv, OnceInv, [Next]_vars
               PROVE  OnceInv'
    OBVIOUS
  <2>0. /\ SmokeEntries' = SmokeEntries /\ SmokeEntries \subseteq Entry
        /\ waiting \subseteq Entry /\ running \subseteq Entry /\ finished \subseteq Entry
    BY DEF SmokeEntries, TypeOK
  <2>1. CASE QueueStep
    <3>1. UNCHANGED <<phase, flags, finished>>
      BY <2>1, QueueSteps
    <3>2. /\ waiting' \union running' \subseteq waiting \union running
          /\ waiting' \intersect running' = {}
      BY <2>1, QueueSteps DEF OnceInv
    <3> QED
      BY <2>0, <3>1, <3>2 DEF OnceInv
  <2>2. ASSUME NEW e \in Entry, NEW o \in Flag, FinishTest(e, o)
        PROVE  OnceInv'
    <3>1. /\ phase' = phase /\ phase \in {"smoke", "normal", "retry"} /\ waiting' = waiting
          /\ e \in running /\ running' = running \ {e} /\ finished' = finished \union {e}
      BY <2>2 DEF FinishTest, Queue!Finish, Executing
    <3>2. CASE phase = "retry"
      <4>1. flags' = flags
        BY <2>2, <3>2 DEF FinishTest
      <4>2. e \in Failed
        BY <3>1, <3>2 DEF RetryInv
      <4>3. flags[CaseOf[e]] # {}
        BY <4>2 DEF Failed, EntriesThat, Summarized
      <4> QED
        BY <2>0, <3>1, <3>2, <4>1, <4>3 DEF OnceInv
    <3>3. CASE phase # "retry"
      <4>1. flags' = [flags EXCEPT ![CaseOf[e]] = @ \union {o}]
        BY <2>2, <3>3 DEF FinishTest
      <4>2. flags[CaseOf[e]] = {}
        BY <3>1, <3>3 DEF OnceInv
      <4>3. CaseOf[e] \in Case /\ flags \in [Case -> SUBSET Flag]
        BY CaseAssumption DEF TypeOK
      <4>4. flags'[CaseOf[e]] = {o}
        BY <4>1, <4>2, <4>3
      <4>5. \A d \in Entry : d # e => flags'[CaseOf[d]] = flags[CaseOf[d]]
        BY <4>1, <4>3, CaseAssumption, NoRepetition DEF NoRepetition
      <4>6. phase = "smoke" => e \in SmokeEntries
        BY <3>1 DEF QueueInv
      <4>7. e \notin waiting
        BY <3>1 DEF OnceInv
      <4>8. \A d \in waiting' \union running' : d \in Entry /\ d # e /\ flags[CaseOf[d]] = {}
        BY <2>0, <3>1, <3>3, <4>7 DEF OnceInv
      <4>9. \A d \in finished' : flags'[CaseOf[d]] # {}
        BY <2>0, <3>1, <4>4, <4>5 DEF OnceInv
      <4>10. \A d \in Entry : flags'[CaseOf[d]] \in {{}} \union {{x} : x \in Flag}
        BY <4>4, <4>5 DEF OnceInv
      <4>11. phase' = "smoke" => \A d \in Entry \ SmokeEntries' : flags'[CaseOf[d]] = {}
        BY <2>0, <3>1, <4>5, <4>6 DEF OnceInv
      <4>12. \A d \in waiting' \union running' : flags'[CaseOf[d]] = {}
        BY <4>5, <4>8
      <4>13. waiting' \intersect running' = {}
        BY <3>1 DEF OnceInv
      <4> QED
        BY <4>9, <4>10, <4>11, <4>12, <4>13 DEF OnceInv
    <3> QED
      BY <3>2, <3>3
  <2>3. CASE RunNormal
    BY <2>0, <2>3 DEF RunNormal, NewQueue, verdictVars, OnceInv
  <2>4. CASE Summarize
    <3>1. /\ UNCHANGED <<flags, finished>> /\ phase' \in {"retry", "report"}
          /\ running' = {} \/ UNCHANGED <<waiting, running>>
      BY <2>4 DEF Summarize, NewQueue, queueVars
    <3> QED
      BY <2>0, <3>1 DEF OnceInv
  <2>5. CASE JudgeRetries \/ WriteReport \/ Judge
    BY <2>0, <2>5 DEF JudgeRetries, WriteReport, Judge, queueVars, OnceInv
  <2>6. CASE Signals
    BY <2>0, <2>6 DEF Signals, FirstSignal, CancelRun, SecondSignal, queueVars, OnceInv
  <2>7. CASE UNCHANGED vars
    BY <2>0, <2>7 DEF vars, queueVars, OnceInv
  <2> QED
    BY <2>1, <2>2, <2>3, <2>4, <2>5, <2>6, <2>7 DEF Next, Execution, Finish, Main
<1> QED
  BY <1>1, <1>2, TypeCorrect, QueueInvHolds, RetryInvHolds, PTL DEF Spec

(* A test case with one flag is counted and reported by it.                *)
LEMMA OneFlag ==
  ASSUME OnceInv, NEW e \in Entry
  PROVE  /\ Summarized[e] = "fail" <=> flags[CaseOf[e]] = {"failed"}
         /\ Summarized[e] = "pass" <=> flags[CaseOf[e]] = {"success"}
         /\ Summarized[e] = "skip" <=> flags[CaseOf[e]] = {"skipped"}
         /\ Summarized[e] = "none" <=> flags[CaseOf[e]] = {}
         /\ "failed" \in flags[CaseOf[e]] <=> flags[CaseOf[e]] = {"failed"}
         /\ Reported[e] = "failed" <=> Summarized[e] = "fail"
         /\ Reported[e] = "skipped" <=> Summarized[e] = "skip"
         /\ Reported[e] = "none" <=> Summarized[e] = "none"
         /\ Summarized[e] \in {"pass", "fail", "skip", "none"}
<1> DEFINE f == flags[CaseOf[e]]
<1>1. f \in {{}, {"success"}, {"failed"}, {"skipped"}}
  BY DEF OnceInv, Flag
<1>2. /\ Summarized[e] = IF "success" \in f THEN "pass"
                         ELSE IF "failed" \in f THEN "fail"
                         ELSE IF "skipped" \in f THEN "skip" ELSE "none"
      /\ Reported[e] = IF "skipped" \in f THEN "skipped"
                       ELSE IF "failed" \in f THEN "failed"
                       ELSE IF "success" \in f THEN "success" ELSE "none"
  BY DEF Summarized, Reported
<1> HIDE DEF f
<1>3. CASE f = {}
  BY <1>2, <1>3 DEF f
<1>4. CASE f = {"success"}
  BY <1>2, <1>4 DEF f
<1>5. CASE f = {"failed"}
  BY <1>2, <1>5 DEF f
<1>6. CASE f = {"skipped"}
  BY <1>2, <1>6 DEF f
<1> QED
  BY <1>1, <1>3, <1>4, <1>5, <1>6

(* Tests are retried, and failures taken off the list, only in a run       *)
(* within its flakes.                                                      *)
FlakesInv ==
  /\ phase = "retry" => count.fail <= MaxFlakes
  /\ phase \notin {"smoke", "normal"} /\ failing # Failed => count.fail <= MaxFlakes

(* Only Summarize starts retries, and it looks at the failures it counted. *)
THEOREM FlakesInvHolds == Spec => []FlakesInv
<1>1. Init => FlakesInv
  BY DEF Init, FlakesInv
<1>2. TypeOK /\ FlakesInv /\ [Next]_vars => FlakesInv'
  <2> SUFFICES ASSUME TypeOK, FlakesInv, [Next]_vars
               PROVE  FlakesInv'
    OBVIOUS
  <2>0. flags' = flags => Failed' = Failed
    BY DEF Failed, EntriesThat, Summarized
  <2>1. CASE QueueStep
    BY <2>0, <2>1, QueueSteps DEF verdictVars, FlakesInv
  <2>2. ASSUME NEW e \in Entry, NEW o \in Flag, FinishTest(e, o)
        PROVE  FlakesInv'
    <3>1. UNCHANGED <<phase, count, failing>> /\ phase \in {"smoke", "normal", "retry"}
      BY <2>2 DEF FinishTest, verdictVars, Executing
    <3>2. phase = "retry" => flags' = flags
      BY <2>2 DEF FinishTest
    <3> QED
      BY <2>0, <3>1, <3>2 DEF FlakesInv
  <2>3. CASE RunNormal
    BY <2>3 DEF RunNormal, FlakesInv
  <2>4. CASE Summarize
    <3>1. failing' = Failed /\ Failed' = Failed
      BY <2>0, <2>4 DEF Summarize, Failed
    <3>2. phase' = "retry" => count'.fail <= MaxFlakes
      BY <2>4 DEF Summarize
    <3> QED
      BY <3>1, <3>2 DEF FlakesInv
  <2>5. CASE JudgeRetries
    BY <2>0, <2>5 DEF JudgeRetries, FlakesInv
  <2>6. CASE WriteReport \/ Judge
    BY <2>0, <2>6 DEF WriteReport, Judge, FlakesInv
  <2>7. CASE Signals
    BY <2>0, <2>7 DEF Signals, FirstSignal, CancelRun, SecondSignal, verdictVars, FlakesInv
  <2>8. CASE UNCHANGED vars
    BY <2>0, <2>8 DEF vars, verdictVars, FlakesInv
  <2> QED
    BY <2>1, <2>2, <2>3, <2>4, <2>5, <2>6, <2>7, <2>8 DEF Next, Execution, Finish, Main
<1> QED
  BY <1>1, <1>2, TypeCorrect, PTL DEF Spec

(* Only tests that failed are executed again, and only in a run with no    *)
(* more failures than the suite allows flakes; a run that returns without  *)
(* an error had no more, for every number of them.                         *)
THEOREM RetriesEarned ==
  ASSUME NoRepetition
  PROVE  Spec => RetriesWithinFlakes
<1>1. TypeOK /\ RetryInv /\ OnceInv /\ FlakesInv => FlakesBounded
  <2> SUFFICES ASSUME TypeOK, RetryInv, OnceInv, FlakesInv, phase = "returned", exit = 0
               PROVE  Cardinality({e \in Entry : "failed" \in flags[CaseOf[e]]}) <= MaxFlakes
    BY DEF FlakesBounded
  <2>1. {e \in Entry : "failed" \in flags[CaseOf[e]]} = Failed
    BY OneFlag DEF Failed, EntriesThat
  <2>2. count.fail = Cardinality(Failed) /\ (count.fail = 0 \/ failing = {})
    BY DEF RetryInv
  <2>3. CASE count.fail = 0
    <3>1. count.fail <= MaxFlakes
      BY <2>3, FlakesAssumption
    <3> QED
      BY <2>1, <2>2, <3>1
  <2>4. CASE count.fail # 0
    <3>1. Failed # {}
      BY <2>2, <2>4, FS_EmptySet
    <3> QED
      BY <2>1, <2>2, <2>4, <3>1 DEF FlakesInv
  <2> QED
    BY <2>3, <2>4
<1>2. TypeOK /\ RetryInv /\ OnceInv /\ FlakesInv /\ [Next]_vars =>
        \A e \in Entry : e \in running' \ running /\ phase = "retry" =>
          /\ flags[CaseOf[e]] = {"failed"}
          /\ Cardinality({d \in Entry : flags[CaseOf[d]] = {"failed"}}) <= MaxFlakes
  <2> SUFFICES ASSUME TypeOK, RetryInv, OnceInv, FlakesInv, [Next]_vars,
                      NEW e \in Entry, e \in running' \ running, phase = "retry"
               PROVE  /\ flags[CaseOf[e]] = {"failed"}
                      /\ Cardinality({d \in Entry : flags[CaseOf[d]] = {"failed"}}) <= MaxFlakes
    OBVIOUS
  <2>1. e \in waiting
    <3>1. ASSUME running' \subseteq running
          PROVE  FALSE
      BY <3>1
    <3>2. CASE QueueStep
      BY <3>2, QueueSteps
    <3>3. ASSUME NEW d \in Entry, NEW o \in Flag, FinishTest(d, o)
          PROVE  FALSE
      BY <3>1, <3>3 DEF FinishTest, Queue!Finish
    <3>4. CASE Main
      BY <3>1, <3>4 DEF Main, RunNormal, Summarize, JudgeRetries, WriteReport, Judge, queueVars
    <3>5. CASE Signals \/ UNCHANGED vars
      BY <3>1, <3>5 DEF Signals, FirstSignal, CancelRun, SecondSignal, vars, queueVars
    <3> QED
      BY <3>2, <3>3, <3>4, <3>5 DEF Next, Execution, Finish
  <2>2. e \in Failed
    BY <2>1 DEF RetryInv
  <2>3. {d \in Entry : flags[CaseOf[d]] = {"failed"}} = Failed
    BY OneFlag DEF Failed, EntriesThat
  <2> QED
    BY <2>2, <2>3 DEF RetryInv, FlakesInv
<1>3. Spec => []FlakesBounded
  BY <1>1, TypeCorrect, RetryInvHolds, OnceInvHolds, FlakesInvHolds, PTL
<1>4. Spec => RetriedOnlyFailures
  BY <1>2, TypeCorrect, RetryInvHolds, OnceInvHolds, FlakesInvHolds, PTL
     DEF Spec, RetriedOnlyFailures
<1> QED
  BY <1>3, <1>4 DEF RetriesWithinFlakes

-----------------------------------------------------------------------------
(* The report was written from the flags the summary counted.              *)
ReportInv ==
  /\ phase \notin {"smoke", "normal"} =>
       /\ count.pass = Number(Summarized, "pass")
       /\ count.fail = Number(Summarized, "fail")
       /\ count.skip = Number(Summarized, "skip")
  /\ JUnitDir /\ phase \in {"judge", "returned"} =>
       /\ report.skipped = Number(Reported, "skipped")
       /\ report.cases = {e \in Entry : Reported[e] # "none"}

(* WriteReport looks at the flags the summary looked at.                   *)
THEOREM ReportInvHolds == Spec => []ReportInv
<1>1. Init => ReportInv
  BY DEF Init, ReportInv
<1>2. ReportInv /\ [Next]_vars => ReportInv'
  <2> SUFFICES ASSUME ReportInv, [Next]_vars
               PROVE  ReportInv'
    OBVIOUS
  <2>0. flags' = flags => Summarized' = Summarized /\ Reported' = Reported
    BY DEF Summarized, Reported
  <2>1. ASSUME UNCHANGED <<phase, count, report>>,
               phase \notin {"smoke", "normal"} => flags' = flags
        PROVE  ReportInv'
    <3>1. CASE phase \in {"smoke", "normal"}
      BY <2>1, <3>1 DEF ReportInv
    <3>2. CASE phase \notin {"smoke", "normal"}
      <4>1. Summarized' = Summarized /\ Reported' = Reported
        BY <2>0, <2>1, <3>2
      <4> QED
        BY <2>1, <4>1 DEF ReportInv, Number, EntriesThat
    <3> QED
      BY <3>1, <3>2
  <2>2. CASE QueueStep
    BY <2>1, <2>2, QueueSteps DEF verdictVars
  <2>3. ASSUME NEW e \in Entry, NEW o \in Flag, FinishTest(e, o)
        PROVE  ReportInv'
    BY <2>1, <2>3 DEF FinishTest, verdictVars, Executing
  <2>4. CASE RunNormal
    BY <2>4 DEF RunNormal, ReportInv
  <2>5. CASE Summarize
    <3>1. Summarized' = Summarized
      BY <2>0, <2>5 DEF Summarize
    <3>2. /\ count'.pass = Number(Summarized, "pass")
          /\ count'.fail = Number(Summarized, "fail")
          /\ count'.skip = Number(Summarized, "skip")
          /\ phase' \in {"retry", "report"}
      BY <2>5 DEF Summarize
    <3> QED
      BY <3>1, <3>2 DEF ReportInv, Number, EntriesThat
  <2>6. CASE JudgeRetries
    <3>1. /\ UNCHANGED <<count, flags>> /\ phase = "retry" /\ phase' = "report"
          /\ Summarized' = Summarized
      BY <2>0, <2>6 DEF JudgeRetries
    <3> QED
      BY <3>1 DEF ReportInv, Number, EntriesThat
  <2>7. CASE WriteReport
    <3>1. /\ UNCHANGED <<count, flags>> /\ phase = "report" /\ phase' = "judge"
          /\ Summarized' = Summarized /\ Reported' = Reported
      BY <2>0, <2>7 DEF WriteReport
    <3>2. JUnitDir => /\ report'.skipped = Number(Reported, "skipped")
                      /\ report'.cases = {e \in Entry : Reported[e] # "none"}
      BY <2>7 DEF WriteReport
    <3> QED
      BY <3>1, <3>2 DEF ReportInv, Number, EntriesThat
  <2>8. CASE Judge
    <3>1. /\ UNCHANGED <<count, flags, report>> /\ phase = "judge" /\ phase' = "returned"
          /\ Summarized' = Summarized /\ Reported' = Reported
      BY <2>0, <2>8 DEF Judge
    <3> QED
      BY <3>1 DEF ReportInv, Number, EntriesThat
  <2>9. CASE Signals
    BY <2>1, <2>9 DEF Signals, FirstSignal, CancelRun, SecondSignal, verdictVars
  <2>10. CASE UNCHANGED vars
    BY <2>1, <2>10 DEF vars, verdictVars
  <2> QED
    BY <2>2, <2>3, <2>4, <2>5, <2>6, <2>7, <2>8, <2>9, <2>10 DEF Next, Execution, Finish, Main
<1> QED
  BY <1>1, <1>2, PTL DEF Spec

(* The report has one case for each executed test and says of it what the  *)
(* summary counted, however many tests there are.                          *)
THEOREM ReportSound ==
  ASSUME NoRepetition
  PROVE  Spec => []ReportMatchesSummary
<1>1. TypeOK /\ OnceInv /\ ReportInv => ReportMatchesSummary
  <2> SUFFICES ASSUME TypeOK, OnceInv, ReportInv, JUnitDir, phase \in {"judge", "returned"}
               PROVE  /\ finished \subseteq report.cases
                      /\ Number(Reported, "failed") = count.fail
                      /\ report.skipped = count.skip
                      /\ count.pass + count.fail + count.skip = Cardinality(report.cases)
    BY DEF ReportMatchesSummary
  <2> DEFINE Pass == EntriesThat(Summarized, "pass")
             Fail == EntriesThat(Summarized, "fail")
             Skip == EntriesThat(Summarized, "skip")
  <2>1. /\ EntriesThat(Reported, "failed") = Fail
        /\ EntriesThat(Reported, "skipped") = Skip
    BY OneFlag DEF EntriesThat
  <2>2. report.cases = Pass \union Fail \union Skip
    <3>1. report.cases = {e \in Entry : Reported[e] # "none"}
      BY DEF ReportInv
    <3>2. \A e \in Entry : Reported[e] # "none" <=>
                             Summarized[e] \in {"pass", "fail", "skip"}
      BY OneFlag
    <3> QED
      BY <3>1, <3>2 DEF EntriesThat
  <2>3. finished \subseteq report.cases
    <3>1. report.cases = {e \in Entry : Reported[e] # "none"}
      BY DEF ReportInv
    <3>2. \A e \in finished : e \in Entry /\ flags[CaseOf[e]] # {}
      BY DEF OnceInv, TypeOK
    <3>3. \A e \in finished : Reported[e] # "none"
      BY <3>2, OneFlag
    <3> QED
      BY <3>1, <3>2, <3>3
  <2>4. /\ count.pass = Cardinality(Pass) /\ count.fail = Cardinality(Fail)
        /\ count.skip = Cardinality(Skip) /\ report.skipped = Cardinality(Skip)
    BY <2>1 DEF ReportInv, Number
  <2>5. /\ Pass \intersect Fail = {} /\ (Pass \union Fail) \intersect Skip = {}
    BY DEF EntriesThat
  <2>6. IsFiniteSet(Pass) /\ IsFiniteSet(Fail) /\ IsFiniteSet(Skip)
    BY EntriesCounted
  <2> HIDE DEF Pass, Fail, Skip
  <2>7. /\ IsFiniteSet(Pass \union Fail)
        /\ Cardinality(Pass \union Fail) = Cardinality(Pass) + Cardinality(Fail)
    <3>1. Cardinality(Pass \intersect Fail) = 0
      BY <2>5, FS_EmptySet
    <3>2. Cardinality(Pass) \in Nat /\ Cardinality(Fail) \in Nat
      BY <2>6, FS_CardinalityType
    <3>3. Cardinality(Pass \union Fail) =
            Cardinality(Pass) + Cardinality(Fail) - Cardinality(Pass \intersect Fail)
      BY <2>6, FS_Union
    <3>4. IsFiniteSet(Pass \union Fail)
      BY <2>6, FS_Union
    <3> QED
      BY <3>1, <3>2, <3>3, <3>4
  <2>8. Cardinality(report.cases) = Cardinality(Pass \union Fail) + Cardinality(Skip)
    <3>1. Cardinality((Pass \union Fail) \intersect Skip) = 0
      BY <2>5, FS_EmptySet
    <3>2. Cardinality(Pass \union Fail) \in Nat /\ Cardinality(Skip) \in Nat
      BY <2>6, <2>7, FS_CardinalityType
    <3>3. Cardinality((Pass \union Fail) \union Skip) =
            Cardinality(Pass \union Fail) + Cardinality(Skip)
              - Cardinality((Pass \union Fail) \intersect Skip)
      BY <2>6, <2>7, FS_Union
    <3> QED
      BY <2>2, <3>1, <3>2, <3>3
  <2>9. Number(Reported, "failed") = count.fail
    BY <2>1, <2>4 DEF Number
  <2> QED
    BY <2>3, <2>4, <2>7, <2>8, <2>9
<1> QED
  BY <1>1, TypeCorrect, OnceInvHolds, ReportInvHolds, PTL
=============================================================================
