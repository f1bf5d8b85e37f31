----------------------------- MODULE MCMonitor -----------------------------
(* Instances of Monitor.                                                    *)
EXTENDS Monitor, TLC

(* Nothing distinguishes one condition from another.                        *)
ConditionSymmetry == Permutations(Cond)
=============================================================================
