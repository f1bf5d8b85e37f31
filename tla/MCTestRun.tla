----------------------------- MODULE MCTestRun -----------------------------
(* TestRun with every behaviour of a spec.                                 *)
EXTENDS TestRun

AllBehaviours == Ending \union NotEnding
=============================================================================
