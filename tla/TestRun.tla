------------------------------ MODULE TestRun ------------------------------
(***************************************************************************)
(* One execution of a test: testStatus.Run starts the binary again with    *)
(* run-test NAME, a goroutine of runWithTimeout interrupts and aborts that *)
(* child, and the child's exit status becomes the verdict of the test.     *)
(* Time is abstract: a timer may fire at any moment after it was armed.    *)
(* How the child reacts to a signal is the Go runtime's and ginkgo's doing *)
(* and is not in this repository: a SIGINT interrupts the spec, or ends a  *)
(* process that has no handler yet, unless the spec is deaf to it; a       *)
(* SIGABRT always ends the process, with status 2.                         *)
(***************************************************************************)
EXTENDS Integers, FiniteSets

CONSTANT Behaviour  (* how the spec of the test may behave                 *)

Ending    == {"pass", "skip", "fail", "panic", "unknown"}
NotEnding == {"hang",  (* does not end, but can be interrupted             *)
              "deaf"}  (* does not end and ignores SIGINT                  *)

ASSUME BehaviourAssumption == Behaviour \subseteq Ending \union NotEnding

VARIABLES
  spec,      (* the behaviour of the test's spec                           *)
  call,      (* where testStatus.Run is                                    *)
  process,   (* the child; c.Process is nil while it is "none"             *)
  sigint,    (* the child has been sent a SIGINT                           *)
  status,    (* what c.CombinedOutput reports of the child                 *)
  killer,    (* the goroutine of runWithTimeout                            *)
  cancelled, (* ctx is done                                                *)
  flags,     (* those of success, failed and skipped that are set          *)
  failures   (* testStatus.failures                                        *)

child == <<process, sigint, status>>
vars  == <<spec, call, child, killer, cancelled, flags, failures>>

(* ExitStatus() of a child a signal ended is -1; the other two stand for   *)
(* an error that is no ExitError, and for a child that has not ended.      *)
BySignal   == -1
NotStarted == -2
NoStatus   == -3

(* The run may be interrupted before the test is started: the queue's      *)
(* workers do not look at the context.  Without a positive timeout there   *)
(* is no goroutine.                                                        *)
Init ==
  /\ spec \in Behaviour
  /\ call = "starting"
  /\ process = "none"
  /\ sigint = FALSE
  /\ status = NoStatus
  /\ killer \in {"armed", "absent"}
  /\ cancelled \in BOOLEAN
  /\ flags = {}
  /\ failures = 0

-----------------------------------------------------------------------------
(* TestOptions.Run and main: the status of the child for each outcome of   *)
(* its spec.  An outcome Run does not know is an error main exits 1 for.   *)
ExitOf(outcome) ==
  CASE outcome = "pass" -> 0
    [] outcome = "skip" -> 3
    [] OTHER            -> 1

(* Mutant: only status 1 is a failure.                                     *)
OnlyOneFails(code) ==
  CASE code = 0 -> "success"
    [] code = 1 -> "failed"
    [] OTHER    -> "skipped"

(* testStatus.Run: the flag a status sets.                                 *)
FlagOf(code) ==
  CASE code = 0 -> "success"
    [] code = 3 -> "skipped"
    [] OTHER    -> "failed"

-----------------------------------------------------------------------------
(* Mutant: an error from c.Start is dropped.                               *)
StartDropsError ==
  /\ call = "starting"
  /\ call' = "waiting"
  /\ process' \in {"up", "gone"}
  /\ UNCHANGED <<spec, sigint, status, killer, cancelled, flags, failures>>

(* c.Start, which may fail.                                                *)
StartChild ==
  /\ call = "starting"
  /\ call' = "waiting"
  /\ \/ process' = "up" /\ status' = status
     \/ process' = "gone" /\ status' = NotStarted
  /\ UNCHANGED <<spec, sigint, killer, cancelled, flags, failures>>

(* The spec comes to an end by itself.                                     *)
SpecEnds ==
  /\ process = "up"
  /\ spec \in Ending
  /\ process' = "gone"
  /\ status' = ExitOf(spec)
  /\ UNCHANGED <<spec, call, sigint, killer, cancelled, flags, failures>>

(* A SIGINT ends the child, in ginkgo's hands or before ginkgo has them.   *)
SpecInterrupted ==
  /\ process = "up"
  /\ sigint
  /\ spec # "deaf"
  /\ process' = "gone"
  /\ status' \in {ExitOf("interrupted"), BySignal}
  /\ UNCHANGED <<spec, call, sigint, killer, cancelled, flags, failures>>

(* c.Process.Signal(SIGINT), if there is a process and it has not ended.   *)
Interrupt ==
  /\ sigint' = (sigint \/ process = "up")
  /\ UNCHANGED <<process, status>>

(* <-time.After(timeout)                                                   *)
TimerFires ==
  /\ killer = "armed"
  /\ killer' = "grace"
  /\ Interrupt
  /\ UNCHANGED <<spec, call, cancelled, flags, failures>>

(* Mutant: the goroutine only interrupts a second time.                    *)
GraceInterrupts ==
  /\ killer = "grace"
  /\ call # "starting"
  /\ killer' = "done"
  /\ Interrupt
  /\ UNCHANGED <<spec, call, cancelled, flags, failures>>

(* <-time.After(time.Minute): a minute is longer than starting a process.  *)
GraceEnds ==
  /\ killer = "grace"
  /\ call # "starting"
  /\ killer' = "done"
  /\ IF process = "up"
     THEN process' = "gone" /\ status' = 2 /\ sigint' = sigint
     ELSE UNCHANGED child
  /\ UNCHANGED <<spec, call, cancelled, flags, failures>>

(* <-ctx.Done(): a SIGINT and nothing after it.                            *)
ContextDone ==
  /\ killer = "armed"
  /\ cancelled
  /\ killer' = "done"
  /\ Interrupt
  /\ UNCHANGED <<spec, call, cancelled, flags, failures>>

(* c.CombinedOutput() returns; the flag is set, and the deferred function  *)
(* counts a failure.                                                       *)
Return ==
  /\ call = "waiting"
  /\ process = "gone"
  /\ call' = "returned"
  /\ flags' = flags \union {FlagOf(status)}
  /\ failures' = failures + (IF flags' = {"failed"} THEN 1 ELSE 0)
  /\ UNCHANGED <<spec, child, killer, cancelled>>

Cancel ==
  /\ ~cancelled
  /\ cancelled' = TRUE
  /\ UNCHANGED <<spec, call, child, killer, flags, failures>>

Killer == TimerFires \/ GraceEnds \/ ContextDone

Next == StartChild \/ SpecEnds \/ SpecInterrupted \/ Killer \/ Return \/ Cancel

Spec == Init /\ [][Next]_vars

(* Timers fire, processes that can end do, and the interruption is the     *)
(* user's.                                                                 *)
FairSpec ==
  /\ Spec
  /\ WF_vars(StartChild) /\ WF_vars(Return)
  /\ WF_vars(SpecEnds) /\ WF_vars(SpecInterrupted)
  /\ WF_vars(Killer)

-----------------------------------------------------------------------------
(* Every variable stays within its type, and a child has a status exactly  *)
(* once it is gone.                                                        *)
TypeOK ==
  /\ spec \in Behaviour
  /\ call \in {"starting", "waiting", "returned"}
  /\ process \in {"none", "up", "gone"}
  /\ sigint \in BOOLEAN
  /\ status \in {0, 1, 2, 3, BySignal, NotStarted, NoStatus}
  /\ killer \in {"absent", "armed", "grace", "done"}
  /\ cancelled \in BOOLEAN
  /\ flags \subseteq {"success", "failed", "skipped"}
  /\ failures \in {0, 1}
  /\ process = "none" <=> call = "starting"
  /\ process = "gone" <=> status # NoStatus

(* A returned test has one verdict.  Only a spec that passed makes it a    *)
(* success and only one that skipped makes it skipped: an interrupted,     *)
(* aborted or hanging child, or one that never started, is a failure, and  *)
(* the progress line counts it.                                            *)
VerdictSound ==
  call = "returned" =>
    /\ Cardinality(flags) = 1
    /\ "success" \in flags => spec = "pass"
    /\ "skipped" \in flags => spec = "skip"
    /\ failures = 1 <=> "failed" \in flags

(* Unless the run is interrupted, a test with a timeout returns, however   *)
(* badly its spec behaves.                                                 *)
ReturnsUnlessInterrupted ==
  killer = "armed" ~> (call = "returned" \/ cancelled)

(* A test whose timer has fired returns even if the run is interrupted     *)
(* during the minute of grace.                                             *)
TimedOutReturns == killer = "grace" ~> call = "returned"

(* The timer ends a test, whichever of it, the child and the interruption  *)
(* comes first; only an interruption before the timer fires disarms it.    *)
TimeoutEnds == ReturnsUnlessInterrupted /\ TimedOutReturns
=============================================================================
