--------------------------- MODULE MCEventWatch ----------------------------
(* Instances of EventWatch.                                                *)
EXTENDS EventWatch
=============================================================================
