---------------------------- MODULE MCTestQueue ----------------------------
(* An instance of TestQueue: five tests, of which two are [Serial], and an *)
(* exclusion class of three.                                               *)
EXTENDS TestQueue, TLC

CONSTANTS a, b, c, s, r, A

(* a, b and the [Serial] test s exclude one another, c and r nobody.       *)
OneClass == (a :> A) @@ (b :> A) @@ (c :> NoClass) @@ (s :> A) @@ (r :> NoClass)
=============================================================================
