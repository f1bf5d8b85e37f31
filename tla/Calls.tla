-------------------------------- MODULE Calls --------------------------------
(***************************************************************************)
(* The calls of the pipeline's Python clients to web services.  A call     *)
(* that fails is a fault, and so is the death of the client; a read that   *)
(* fails changes nothing, a write that fails may have been carried out     *)
(* although its answer was lost.                                           *)
(***************************************************************************)
EXTENDS SequencesExt

CONSTANT MaxFaults   \* bound on the faults of a behaviour

ASSUME CallsAssumption == MaxFaults \in Nat

VARIABLE faults      \* faults so far

Answer == {"ok"} \cup IF faults < MaxFaults THEN {"error", "lost"} ELSE {}
ReadAnswer == Answer \ {"lost"}
Count(a) == faults' = IF a = "ok" THEN faults ELSE faults + 1
Die == faults < MaxFaults /\ faults' = faults + 1

\* Page k of a list of n entries, in pages of the given size, as indices.
PageOf(k, n, size) == {i \in 1..n : (k - 1) * size < i /\ i <= k * size}
\* Page k of a set of numbers in ascending order.
Rank(x, S) == Cardinality({y \in S : y <= x})
PageAt(S, k, size) == {x \in S : (k - 1) * size < Rank(x, S) /\ Rank(x, S) <= k * size}
PagesOf(n, size) == (n + size - 1) \div size
=============================================================================
