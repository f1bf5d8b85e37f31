---------------------------- MODULE MCRunSuite ----------------------------
(* Instances of RunSuite.                                                  *)
EXTENDS RunSuite, TLC

CONSTANTS a, b, c, d

(* Each test once: a is a smoke test, d is [Serial].                       *)
Once == (1 :> a) @@ (2 :> b) @@ (3 :> c) @@ (4 :> d)
=============================================================================
