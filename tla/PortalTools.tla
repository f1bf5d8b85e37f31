---------------------------- MODULE PortalTools ----------------------------
(***************************************************************************)
(* The tools that read ReportPortal page by page together: each behaviour  *)
(* uses one of them, the others stay in their initial state.               *)
(***************************************************************************)
EXTENDS UpdateResults, PassRate, ProfileLaunch

VARIABLE tool

vars == <<tool, faults, uvars, rvars, pvars>>

Init ==
    /\ tool \in {"update", "rate", "profile"} /\ faults = 0
    /\ UpdateInit /\ RateInit /\ ProfileInit
    /\ tool # "rate" => slot = CHOOSE s \in Slot : TRUE

UpdateTool == tool = "update" /\ UpdateNext /\ UNCHANGED <<tool, rvars, pvars>>
RateTool == tool = "rate" /\ RateNext /\ UNCHANGED <<tool, uvars, pvars>>
ProfileTool(A) == tool = "profile" /\ A /\ UNCHANGED <<tool, uvars, rvars>>
Next == UpdateTool \/ RateTool \/ ProfileTool(ProfileNext)

\* Jenkins starts the profile job again and again, and its steps are run.
Spec == Init /\ [][Next]_vars /\ WF_vars(ProfileTool(ProfileStep))

\* The variables of the tool that runs, and of the others, have their types.
TypesOK == UpdateTypeOK /\ RateTypeOK /\ ProfileTypeOK

\* Whatever calls fail on the way a profile keeps a launch, and in the end it
\* has exactly the fake it needs.
ProfilesCovered == LastLaunchKept /\ (tool = "profile" => FakesSettle)
=============================================================================
