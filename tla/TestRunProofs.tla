--------------------------- MODULE TestRunProofs ---------------------------
(***************************************************************************)
(* Theorems about TestRun, for every set of behaviours the spec may show.  *)
(***************************************************************************)
EXTENDS TestRun, FiniteSetTheorems, TLAPS

(* What a verdict rests on: statuses 0 and 3 come only from specs that     *)
(* passed or skipped, nothing is set before the call returns, and what is  *)
(* set then is the flag of the status the child has for good.              *)
VerdictInv ==
  /\ status = 0 => spec = "pass"
  /\ status = 3 => spec = "skip"
  /\ call # "returned" => flags = {} /\ failures = 0
  /\ call = "returned" =>
       /\ process = "gone"
       /\ flags = {FlagOf(status)}
       /\ failures = IF FlagOf(status) = "failed" THEN 1 ELSE 0

(* A status change needs a child that is up, so none follows a return.     *)
THEOREM VerdictInvHolds == Spec => []VerdictInv
<1>1. Init => VerdictInv
  BY DEF Init, VerdictInv, NoStatus
<1>2. VerdictInv /\ [Next]_vars => VerdictInv'
  <2> SUFFICES ASSUME VerdictInv, [Next]_vars
               PROVE  VerdictInv'
    OBVIOUS
  <2> USE DEF VerdictInv
  <2>1. CASE StartChild
    BY <2>1 DEF StartChild, NotStarted
  <2>2. CASE SpecEnds
    BY <2>2 DEF SpecEnds, ExitOf, Ending
  <2>3. CASE SpecInterrupted
    BY <2>3 DEF SpecInterrupted, ExitOf, BySignal
  <2>4. CASE TimerFires
    BY <2>4 DEF TimerFires, Interrupt
  <2>5. CASE GraceEnds
    <3>1. CASE process = "up"
      BY <2>5, <3>1 DEF GraceEnds
    <3>2. CASE process # "up"
      BY <2>5, <3>2 DEF GraceEnds, child
    <3> QED
      BY <3>1, <3>2
  <2>6. CASE ContextDone
    BY <2>6 DEF ContextDone, Interrupt
  <2>7. CASE Return
    <3>1. flags' = {FlagOf(status)} /\ UNCHANGED <<spec, process, status>> /\ call' = "returned"
      BY <2>7 DEF Return, child
    <3>2. failures' = IF FlagOf(status) = "failed" THEN 1 ELSE 0
      <4>1. failures' = failures + (IF {FlagOf(status)} = {"failed"} THEN 1 ELSE 0) /\ failures = 0
        BY <2>7, <3>1 DEF Return
      <4>2. {FlagOf(status)} = {"failed"} <=> FlagOf(status) = "failed"
        OBVIOUS
      <4> QED
        BY <4>1, <4>2
    <3> QED
      BY <2>7, <3>1, <3>2 DEF Return
  <2>8. CASE Cancel
    BY <2>8 DEF Cancel, child
  <2>9. CASE UNCHANGED vars
    BY <2>9 DEF vars, child
  <2> QED
    BY <2>1, <2>2, <2>3, <2>4, <2>5, <2>6, <2>7, <2>8, <2>9 DEF Next, Killer
<1> QED
  BY <1>1, <1>2, PTL DEF Spec

(* Every variable stays within its type, and a child has a status exactly  *)
(* once it is gone: no signal, timer or start error leaves it without one. *)
THEOREM TypeCorrect == Spec => []TypeOK
<1>1. Init => TypeOK
  BY BehaviourAssumption DEF Init, TypeOK, NoStatus
<1>2. TypeOK /\ VerdictInv /\ [Next]_vars => TypeOK'
  <2> SUFFICES ASSUME TypeOK, VerdictInv, [Next]_vars
               PROVE  TypeOK'
    OBVIOUS
  <2> USE DEF TypeOK, BySignal, NotStarted, NoStatus
  <2>1. CASE StartChild
    BY <2>1 DEF StartChild
  <2>2. CASE SpecEnds
    BY <2>2 DEF SpecEnds, ExitOf
  <2>3. CASE SpecInterrupted
    BY <2>3 DEF SpecInterrupted, ExitOf
  <2>4. CASE TimerFires
    BY <2>4 DEF TimerFires, Interrupt
  <2>5. CASE GraceEnds
    <3>1. CASE process = "up"
      BY <2>5, <3>1 DEF GraceEnds
    <3>2. CASE process # "up"
      BY <2>5, <3>2 DEF GraceEnds, child
    <3> QED
      BY <3>1, <3>2
  <2>6. CASE ContextDone
    BY <2>6 DEF ContextDone, Interrupt
  <2>7. CASE Return
    BY <2>7 DEF Return, FlagOf, child, VerdictInv
  <2>8. CASE Cancel
    BY <2>8 DEF Cancel, child
  <2>9. CASE UNCHANGED vars
    BY <2>9 DEF vars, child
  <2> QED
    BY <2>1, <2>2, <2>3, <2>4, <2>5, <2>6, <2>7, <2>8, <2>9 DEF Next, Killer
<1> QED
  BY <1>1, <1>2, VerdictInvHolds, PTL DEF Spec

(* A returned test has one verdict: a success only if its spec passed,     *)
(* skipped only if it skipped, and everything else, start errors, signals, *)
(* aborts and interruptions included, is a failure that is counted.        *)
THEOREM VerdictIsSound == Spec => []VerdictSound
<1>1. VerdictInv => VerdictSound
  <2> SUFFICES ASSUME VerdictInv, call = "returned"
               PROVE  /\ Cardinality(flags) = 1
                      /\ "success" \in flags => spec = "pass"
                      /\ "skipped" \in flags => spec = "skip"
                      /\ failures = 1 <=> "failed" \in flags
    BY DEF VerdictSound
  <2>1. flags = {FlagOf(status)}
    BY DEF VerdictInv
  <2>2. Cardinality(flags) = 1
    BY <2>1, FS_Singleton
  <2>3. "success" \in flags => spec = "pass"
    BY <2>1 DEF VerdictInv, FlagOf
  <2>4. "skipped" \in flags => spec = "skip"
    BY <2>1 DEF VerdictInv, FlagOf
  <2>5. failures = 1 <=> "failed" \in flags
    BY <2>1 DEF VerdictInv
  <2> QED
    BY <2>2, <2>3, <2>4, <2>5
<1> QED
  BY <1>1, VerdictInvHolds, PTL
=============================================================================
