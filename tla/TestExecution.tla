--------------------------- MODULE TestExecution ---------------------------
(***************************************************************************)
(* What one execution of a test queue promises to the rest of the runner,  *)
(* without rings, workers, condition variables or locks.  A test waits,    *)
(* runs once, and is then finished; two tests of one exclusion class never *)
(* run together; a [Serial] test runs alone and after every other test;    *)
(* only a cancellation makes the execution give up a test.                 *)
(***************************************************************************)
EXTENDS FiniteSets

CONSTANTS
  Test,      (* the tests handed to the queue                              *)
  Serial,    (* those with [Serial] in their name                          *)
  Class,     (* the exclusion class of each test                           *)
  NoClass    (* the class of the tests that exclude nobody                 *)

VARIABLES
  waiting,   (* tests not started yet                                      *)
  running,   (* tests being run                                            *)
  finished,  (* tests whose run has returned                               *)
  cancelled, (* the run was interrupted                                    *)
  returned   (* the execution is over                                      *)

vars == <<waiting, running, finished, cancelled, returned>>

Conflict(t, u) == t # u /\ Class[t] # NoClass /\ Class[t] = Class[u]

Init ==
  /\ waiting = Test
  /\ running = {}
  /\ finished = {}
  /\ cancelled = FALSE
  /\ returned = FALSE

StartParallel(t) ==
  /\ t \in waiting \ Serial
  /\ \A u \in running : u \notin Serial /\ ~Conflict(t, u)
  /\ waiting' = waiting \ {t}
  /\ running' = running \union {t}
  /\ UNCHANGED <<finished, cancelled, returned>>

StartSerial(t) ==
  /\ t \in waiting \intersect Serial
  /\ running = {}
  /\ waiting \subseteq Serial
  /\ waiting' = waiting \ {t}
  /\ running' = {t}
  /\ UNCHANGED <<finished, cancelled, returned>>

Finish(t) ==
  /\ t \in running
  /\ running' = running \ {t}
  /\ finished' = finished \union {t}
  /\ UNCHANGED <<waiting, cancelled, returned>>

Cancel ==
  /\ cancelled' = TRUE
  /\ UNCHANGED <<waiting, running, finished, returned>>

(* An interrupted execution forgets tests it has not started.              *)
GiveUp ==
  /\ cancelled
  /\ \E dropped \in SUBSET waiting : waiting' = waiting \ dropped
  /\ UNCHANGED <<running, finished, cancelled, returned>>

Return ==
  /\ running = {}
  /\ waiting = {} \/ cancelled
  /\ waiting' = {}
  /\ returned' = TRUE
  /\ UNCHANGED <<running, finished, cancelled>>

Next ==
  \/ \E t \in Test : StartParallel(t) \/ StartSerial(t) \/ Finish(t)
  \/ Cancel
  \/ GiveUp
  \/ Return

Spec == Init /\ [][Next]_vars
=============================================================================
