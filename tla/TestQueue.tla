----------------------------- MODULE TestQueue -----------------------------
(***************************************************************************)
(* parallelByFileTestQueue: the queue the runner executes its tests with.  *)
(* Workers take tests from a ring under a mutex, skip the tests whose      *)
(* exclusion class is being run, and sleep on a condition variable when    *)
(* only such tests are left.  [Serial] tests are set aside and run one by  *)
(* one by the caller once every worker has returned.  A closer goroutine   *)
(* empties the ring when the run is cancelled.                             *)
(*                                                                         *)
(* The condition variable is built on a lock that does nothing, so the     *)
(* failed pop and the registration of the waiter are two steps and a       *)
(* Broadcast between them is not seen by the worker.                       *)
(***************************************************************************)
EXTENDS Integers, Sequences, FiniteSets

CONSTANTS
  Test,      (* the entries of the queue; a test queued twice is two       *)
  Worker,    (* the `parallelism` goroutines of Execute                    *)
  Serial,    (* the entries whose name contains [Serial]                   *)
  Class,     (* testExclusion of each entry                                *)
  NoClass,   (* the empty testExclusion                                    *)
  NoTest     (* a nil *testCase                                            *)

ASSUME TestAssumption   == IsFiniteSet(Test) /\ NoTest \notin Test
ASSUME SerialAssumption == Serial \subseteq Test
ASSUME WorkerAssumption == IsFiniteSet(Worker) /\ Worker # {}
ASSUME ClassAssumption  == DOMAIN Class = Test

VARIABLES
  queue,     (* the ring, read from the entry q.queue points to            *)
  active,    (* exclusion classes being run                                *)
  pc,        (* what each worker does next                                 *)
  held,      (* the test each worker took                                  *)
  serial,    (* [Serial] tests set aside and not yet reached by the caller *)
  main,      (* what the caller of Execute does next                       *)
  current,   (* the [Serial] test the caller runs                          *)
  cancelled, (* parentCtx is done                                          *)
  closed,    (* the closer goroutine has run Close                         *)
  finished   (* history: tests whose fn returned                           *)

workerVars == <<pc, held>>
mainVars   == <<main, current>>
vars == <<queue, active, pc, held, serial, main, current, cancelled, closed,
          finished>>

-----------------------------------------------------------------------------
(* container/ring, as pop uses it.                                         *)

(* Mutant: the entry after the one taken is unlinked as well.              *)
RingTakeTwo(s, i) ==
  [k \in 1 .. Len(s) - 2 |-> s[IF i + k + 1 <= Len(s) THEN i + k + 1
                                                     ELSE i + k + 1 - Len(s)]]

(* The test at i leaves the ring and the ring is then read from the entry  *)
(* before it: q.queue = r.Prev(); q.queue.Unlink(1).                       *)
RingTake(s, i) ==
  LET n == Len(s)
  IN  [k \in 1 .. n - 1 |->
         s[IF k = 1 THEN (IF i = 1 THEN n ELSE i - 1)
           ELSE IF i + k - 1 <= n THEN i + k - 1 ELSE i + k - 1 - n]]

Entries(s) == {s[i] : i \in 1 .. Len(s)}

Orders == {s \in [1 .. Cardinality(Test) -> Test] :
             \A i, j \in DOMAIN s : s[i] = s[j] => i = j}

-----------------------------------------------------------------------------
Init ==
  /\ queue \in Orders
  /\ active = {}
  /\ pc = [w \in Worker |-> "pop"]
  /\ held = [w \in Worker |-> NoTest]
  /\ serial = <<>>
  /\ main = "wait"
  /\ current = NoTest
  /\ cancelled = FALSE
  /\ closed = FALSE
  /\ finished = {}

(* cond.Broadcast: every registered waiter goes back to pop.               *)
Broadcast(p) == [w \in Worker |-> IF p[w] = "sleep" THEN "pop" ELSE p[w]]

(* Mutant: pop does not look at the active classes.                        *)
NeverBlocked(t) == FALSE

Blocked(t) == Class[t] \in active

(* pop takes the first entry, in ring order, that no active class blocks.  *)
FirstFree(i) ==
  /\ i \in 1 .. Len(queue)
  /\ ~Blocked(queue[i])
  /\ \A j \in 1 .. i - 1 : Blocked(queue[j])

Pop(w) ==
  /\ pc[w] = "pop"
  /\ \E i \in 1 .. Len(queue) :
       /\ FirstFree(i)
       /\ held' = [held EXCEPT ![w] = queue[i]]
       /\ active' = active \union ({Class[queue[i]]} \ {NoClass})
       /\ queue' = RingTake(queue, i)
  /\ pc' = [pc EXCEPT ![w] = "taken"]
  /\ UNCHANGED <<serial, mainVars, cancelled, closed, finished>>

(* Mutant: Take reports success when pop found nothing.                    *)
PopEmptyAndStay(w) ==
  /\ pc[w] = "pop"
  /\ Len(queue) = 0
  /\ pc' = Broadcast(pc)
  /\ UNCHANGED <<queue, active, held, serial, mainVars, cancelled, closed,
                 finished>>

(* An empty ring: wake the sleepers, and the worker returns.               *)
PopEmpty(w) ==
  /\ pc[w] = "pop"
  /\ Len(queue) = 0
  /\ pc' = [Broadcast(pc) EXCEPT ![w] = "exit"]
  /\ UNCHANGED <<queue, active, held, serial, mainVars, cancelled, closed,
                 finished>>

(* Every entry is blocked: pop returns and releases the mutex, the worker  *)
(* is not registered with the condition variable yet.                      *)
PopBlocked(w) ==
  /\ pc[w] = "pop"
  /\ Len(queue) > 0
  /\ \A i \in 1 .. Len(queue) : Blocked(queue[i])
  /\ pc' = [pc EXCEPT ![w] = "beforeWait"]
  /\ UNCHANGED <<queue, active, held, serial, mainVars, cancelled, closed,
                 finished>>

(* cond.Wait registers the worker.                                         *)
Wait(w) ==
  /\ pc[w] = "beforeWait"
  /\ pc' = [pc EXCEPT ![w] = "sleep"]
  /\ UNCHANGED <<queue, active, held, serial, mainVars, cancelled, closed,
                 finished>>

(* Mutant: the callback sets the test aside and goes on to run it.         *)
SetAsideAndRun(w) ==
  /\ pc[w] = "taken"
  /\ held[w] \in Serial
  /\ serial' = Append(serial, held[w])
  /\ pc' = [pc EXCEPT ![w] = "running"]
  /\ UNCHANGED <<queue, active, held, mainVars, cancelled, closed, finished>>

(* Mutant: the callback sets a test aside whatever its name.               *)
SetAnyAside(w) ==
  /\ pc[w] = "taken"
  /\ serial' = Append(serial, held[w])
  /\ pc' = [pc EXCEPT ![w] = "release"]
  /\ UNCHANGED <<queue, active, held, mainVars, cancelled, closed, finished>>

(* The callback of Execute: a [Serial] test is set aside ...               *)
SetAside(w) ==
  /\ pc[w] = "taken"
  /\ held[w] \in Serial
  /\ serial' = Append(serial, held[w])
  /\ pc' = [pc EXCEPT ![w] = "release"]
  /\ UNCHANGED <<queue, active, held, mainVars, cancelled, closed, finished>>

(* ... and any other test is run, whether or not the run was cancelled.    *)
Start(w) ==
  /\ pc[w] = "taken"
  /\ held[w] \notin Serial
  /\ pc' = [pc EXCEPT ![w] = "running"]
  /\ UNCHANGED <<queue, active, held, serial, mainVars, cancelled, closed,
                 finished>>

Finish(w) ==
  /\ pc[w] = "running"
  /\ finished' = finished \union {held[w]}
  /\ pc' = [pc EXCEPT ![w] = "release"]
  /\ UNCHANGED <<queue, active, held, serial, mainVars, cancelled, closed>>

(* Mutant: done wakes the sleepers and leaves the class active.            *)
DoneKeepsClass(w) ==
  /\ pc[w] = "release"
  /\ held' = [held EXCEPT ![w] = NoTest]
  /\ pc' = [Broadcast(pc) EXCEPT ![w] = "pop"]
  /\ UNCHANGED <<queue, active, serial, mainVars, cancelled, closed, finished>>

(* The deferred q.done(test), then the next iteration of the worker.       *)
Done(w) ==
  /\ pc[w] = "release"
  /\ active' = active \ {Class[held[w]]}
  /\ held' = [held EXCEPT ![w] = NoTest]
  /\ pc' = [Broadcast(pc) EXCEPT ![w] = "pop"]
  /\ UNCHANGED <<queue, serial, mainVars, cancelled, closed, finished>>

WorkerStep(w) ==
  \/ Pop(w) \/ PopEmpty(w) \/ PopBlocked(w) \/ Wait(w)
  \/ SetAside(w) \/ Start(w) \/ Finish(w) \/ Done(w)

-----------------------------------------------------------------------------
(* The signal handler, or the caller, cancels the context.                 *)
Cancel ==
  /\ ~cancelled
  /\ cancelled' = TRUE
  /\ UNCHANGED <<queue, active, workerVars, serial, mainVars, closed, finished>>

(* The goroutine Execute starts first: <-parentCtx.Done(); q.Close().      *)
Close ==
  /\ cancelled
  /\ ~closed
  /\ closed' = TRUE
  /\ queue' = <<>>
  /\ active' = {}
  /\ pc' = Broadcast(pc)
  /\ UNCHANGED <<held, serial, mainVars, cancelled, finished>>

(* Mutant: wg.Add(1), so the first worker to return releases the caller.   *)
JoinFirst ==
  /\ main = "wait"
  /\ \E w \in Worker : pc[w] = "exit"
  /\ main' = "serial"
  /\ UNCHANGED <<queue, active, workerVars, serial, current, cancelled, closed,
                 finished>>

(* wg.Wait()                                                               *)
Join ==
  /\ main = "wait"
  /\ \A w \in Worker : pc[w] = "exit"
  /\ main' = "serial"
  /\ UNCHANGED <<queue, active, workerVars, serial, current, cancelled, closed,
                 finished>>

(* The loop over the tests set aside looks at the context before each one. *)
StartSerial ==
  /\ main = "serial"
  /\ serial # <<>>
  /\ ~cancelled
  /\ current' = Head(serial)
  /\ serial' = Tail(serial)
  /\ main' = "running"
  /\ UNCHANGED <<queue, active, workerVars, cancelled, closed, finished>>

FinishSerial ==
  /\ main = "running"
  /\ finished' = finished \union {current}
  /\ current' = NoTest
  /\ main' = "serial"
  /\ UNCHANGED <<queue, active, workerVars, serial, cancelled, closed>>

Return ==
  /\ main = "serial"
  /\ serial = <<>> \/ cancelled
  /\ main' = "returned"
  /\ UNCHANGED <<queue, active, workerVars, serial, current, cancelled, closed,
                 finished>>

MainStep == Join \/ StartSerial \/ FinishSerial \/ Return

Next == (\E w \in Worker : WorkerStep(w)) \/ Cancel \/ Close \/ MainStep

Spec == Init /\ [][Next]_vars

(* Every goroutine the scheduler can run is run, and every fn returns; the *)
(* interruption is the user's and is not fair.                             *)
FairSpec ==
  /\ Spec
  /\ \A w \in Worker : WF_vars(WorkerStep(w))
  /\ WF_vars(Close)
  /\ WF_vars(MainStep)

-----------------------------------------------------------------------------
Busy   == {w \in Worker : pc[w] \in {"taken", "running", "release"}}
Running == {held[w] : w \in {v \in Worker : pc[v] = "running"}}
             \union (IF main = "running" THEN {current} ELSE {})
Taken  == {held[w] : w \in {v \in Worker : pc[v] = "taken"}}

(* Every variable stays within its type; a worker holds a test exactly     *)
(* from pop to done, the caller exactly while it runs one.                 *)
TypeOK ==
  /\ queue \in Seq(Test)
  /\ active \subseteq {Class[t] : t \in Test} \ {NoClass}
  /\ pc \in [Worker -> {"pop", "beforeWait", "sleep", "taken", "running",
                        "release", "exit"}]
  /\ held \in [Worker -> Test \union {NoTest}]
  /\ serial \in Seq(Serial)
  /\ main \in {"wait", "serial", "running", "returned"}
  /\ current \in Serial \union {NoTest}
  /\ cancelled \in BOOLEAN
  /\ closed \in BOOLEAN
  /\ finished \subseteq Test
  /\ \A w \in Worker : held[w] \in Test <=> w \in Busy
  /\ current \in Test <=> main = "running"

(* Two tests of one exclusion class are never out of the queue together,   *)
(* although Close forgets which classes are active while tests of those    *)
(* classes still run.                                                      *)
MutualExclusion ==
  \A v, w \in Busy :
    v # w /\ Class[held[v]] # NoClass => Class[held[v]] # Class[held[w]]

(* No worker runs a [Serial] test; the caller runs one only when no worker *)
(* is left that could run another test, and, in a run nobody interrupted,  *)
(* after every other test.                                                 *)
SerialAlone ==
  /\ \A w \in Worker : pc[w] = "running" => held[w] \notin Serial
  /\ main # "wait" =>
       /\ \A w \in Worker : pc[w] = "exit"
       /\ cancelled \/ Test \ Serial \subseteq finished

(* No two tests overlap that must not, by their class or by [Serial].      *)
NoForbiddenOverlap == MutualExclusion /\ SerialAlone

(* Ring, workers, list of set-aside tests and caller never share a test,   *)
(* and a test whose fn returned is in none of them again: no test is run   *)
(* twice.                                                                  *)
NoTestDuplicated ==
  /\ \A i, j \in 1 .. Len(queue) : queue[i] = queue[j] => i = j
  /\ \A i, j \in 1 .. Len(serial) : serial[i] = serial[j] => i = j
  /\ \A v, w \in Busy : held[v] = held[w] => v = w
  /\ \A w \in Busy : held[w] \notin Entries(queue)
  /\ \A w \in Busy : held[w] \in finished \union Entries(serial)
                       <=> pc[w] = "release"
  /\ Entries(queue) \intersect Entries(serial) = {}
  /\ finished \intersect (Entries(queue) \union Entries(serial)) = {}
  /\ main = "running" => current \notin finished \union Entries(serial)

(* Unless the run is interrupted, every test is somewhere: still queued,   *)
(* taken, set aside, run by the caller, or finished; so an execution that  *)
(* returns has run every test.                                             *)
NoTestLost ==
  cancelled \/ Test \subseteq Entries(queue) \union Taken \union Running
                              \union Entries(serial) \union finished

(* Wherever a test goes between ring, workers, list and caller, it is in   *)
(* one place, and it is run.                                               *)
TestsConserved == NoTestDuplicated /\ NoTestLost

(* As long as a test is queued some worker is neither asleep, nor about to *)
(* sleep, nor gone: a wake-up lost between pop and Wait never strands the  *)
(* tests that are left.                                                    *)
QueueNotStranded ==
  Len(queue) > 0 => \E w \in Worker : pc[w] = "pop" \/ w \in Busy

(* What keeps them true.  Until Close, a class is active as long as a test *)
(* of the class is out of the queue; an active class always has such a     *)
(* test; and the ring stays empty once it was closed or a worker left.     *)
ClassesHeld ==
  /\ closed \/ \A w \in Busy : Class[held[w]] \in active \union {NoClass}
  /\ \A k \in active : \E w \in Busy : Class[held[w]] = k
  /\ closed => Len(queue) = 0
  /\ \A w \in Worker : pc[w] = "exit" => Len(queue) = 0

(* The queue implements the execution its callers rely on.                 *)
Execution == INSTANCE TestExecution WITH
  waiting  <- IF main = "returned" THEN {}
              ELSE Entries(queue) \union Taken \union Entries(serial),
  running  <- Running,
  returned <- main = "returned"
ImplementsExecution == Execution!Spec

(* Execute returns, interrupted or not, unless in the end some worker is   *)
(* asleep for good.  Without exclusion classes, as the runner builds its   *)
(* tests, none ever goes to sleep, and Execute returns.                    *)
ExecuteReturns ==
  <>(main = "returned") \/ <>[](\E w \in Worker : pc[w] = "sleep")

(* Every test that is not [Serial] is run, unless the run is interrupted.  *)
ParallelTestsRun ==
  \A t \in Test \ Serial : <>(t \in finished \/ cancelled)

(* Cancelled or not, an execution comes to its end, and a lost wake-up     *)
(* costs neither it nor a test that may run in parallel.                   *)
ExecutionCompletes == ExecuteReturns /\ ParallelTestsRun
=============================================================================
