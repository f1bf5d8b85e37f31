---------------------------- MODULE ProfileLaunch ----------------------------
(***************************************************************************)
(* A launch for every profile (putProfileLaunch of                         *)
(* src/pipeline/reportportal.py): a profile of the repository without any  *)
(* launch gets an empty "fake" one, the fake goes when the profile has a   *)
(* real one or is removed.  Jenkins runs it again and again.               *)
(***************************************************************************)
EXTENDS Calls

CONSTANTS NProfile, MaxChanges  \* profiles; changes of the repository and of the real launches

Profile == 1..NProfile

ASSUME ProfileAssumption == NProfile \in Nat /\ MaxChanges \in Nat

VARIABLES
    inRepo,   \* profiles that have a file
    real,     \* number of real launches of each profile
    fakes,    \* number of fake launches with attributes
    ppc,      \* "idle", "list", "clean", "each", "find", "delete", "import", "getid", "attrs"
    listed,   \* the profiles this run found in the repository, still to be handled
    stale,    \* fake launches of other profiles, still to be deleted
    cur,      \* the profile being handled
    back,     \* where the run goes on after a delete
    changes

pvars == <<inRepo, real, fakes, ppc, listed, stale, cur, back, changes>>
portal == <<inRepo, real, fakes, changes>>

ProfileInit ==
    /\ inRepo = Profile
    /\ real = [p \in Profile |-> 0] /\ fakes = [p \in Profile |-> 0]
    /\ ppc = "idle" /\ listed = {} /\ stale = {} /\ cur = 0 /\ back = "each" /\ changes = 0

PutProfileLaunch ==
    /\ ppc = "idle" /\ inRepo # {}
    /\ listed' = inRepo /\ ppc' = "list" /\ stale' = {}
    /\ UNCHANGED <<portal, cur, back, faults>>

\* Without the list nothing is cleaned up in this run.
ListFakes ==
    /\ ppc = "list"
    /\ \E a \in ReadAnswer :
         /\ Count(a)
         /\ stale' = IF a = "ok" THEN {p \in Profile : fakes[p] > 0} \ listed ELSE {}
    /\ ppc' = "clean"
    /\ UNCHANGED <<portal, listed, cur, back>>

NextStale ==
    /\ ppc = "clean"
    /\ IF stale = {} THEN /\ ppc' = "each" /\ UNCHANGED <<stale, cur, back>>
       ELSE /\ cur' = Min(stale) /\ stale' = stale \ {cur'} /\ ppc' = "find" /\ back' = "clean"
    /\ UNCHANGED <<portal, listed, faults>>

\* Mutant: a launch that has company is looked up like a single one.
ForAlone(n) == IF n = 0 THEN "import" ELSE "find"
\* Mutant: a single fake launch is not replaced.
ForKeeps(n) == IF n = 0 THEN "import" ELSE "each"
\* Mutant: a profile with a launch gets another.
ForAlways(n) == IF n > 1 THEN "find" ELSE "import"
\* What to do for a profile with n launches.
For(n) == IF n = 0 THEN "import" ELSE IF n > 1 THEN "find" ELSE "each"

\* A query that fails looks like a profile without launches.
NextProfile ==
    /\ ppc = "each"
    /\ IF listed = {} THEN ppc' = "idle" /\ UNCHANGED <<listed, cur, back, faults>>
       ELSE /\ cur' = Min(listed) /\ listed' = listed \ {cur'} /\ back' = "each"
            /\ \E a \in ReadAnswer :
                 LET n == IF a = "ok" THEN real[cur'] + fakes[cur'] ELSE 0
                 IN /\ Count(a)
                    /\ ppc' = For(n)
    /\ UNCHANGED <<portal, stale>>

\* The first launch with the fake's name and the profile.
FindFake ==
    /\ ppc = "find"
    /\ \E a \in ReadAnswer :
         /\ Count(a)
         /\ ppc' = IF a = "ok" /\ fakes[cur] > 0 THEN "delete" ELSE back
    /\ UNCHANGED <<portal, listed, stale, cur, back>>

DeleteFake ==
    /\ ppc = "delete"
    /\ \E a \in Answer :
         /\ Count(a)
         /\ fakes' = IF a = "error" THEN fakes ELSE [fakes EXCEPT ![cur] = @ - 1]
    /\ ppc' = back
    /\ UNCHANGED <<inRepo, real, listed, stale, cur, back, changes>>

\* importResult; before it has its attributes no query finds the launch.
ImportFake ==
    /\ ppc \in {"import", "getid"}
    /\ \E a \in Answer :
         /\ Count(a)
         /\ ppc' = IF a # "ok" THEN "each" ELSE IF ppc = "import" THEN "getid" ELSE "attrs"
    /\ UNCHANGED <<portal, listed, stale, cur, back>>

AttributeFake ==
    /\ ppc = "attrs"
    /\ \E a \in Answer :
         /\ Count(a)
         /\ fakes' = IF a = "error" THEN fakes ELSE [fakes EXCEPT ![cur] = @ + 1]
    /\ ppc' = "each"
    /\ UNCHANGED <<inRepo, real, listed, stale, cur, back, changes>>

PutDies == ppc # "idle" /\ Die /\ ppc' = "idle" /\ UNCHANGED <<portal, listed, stale, cur, back>>

\* Pipelines report real launches, and people change the list of profiles.
PortalChanges(p) ==
    /\ changes < MaxChanges
    /\ changes' = changes + 1
    /\ \/ real' = [real EXCEPT ![p] = @ + 1] /\ UNCHANGED inRepo
       \/ inRepo' = SymDiff(inRepo, {p}) /\ UNCHANGED real
    /\ UNCHANGED <<fakes, ppc, listed, stale, cur, back, faults>>

ProfileStep == \/ PutProfileLaunch \/ ListFakes \/ NextStale \/ NextProfile \/ FindFake
               \/ DeleteFake \/ ImportFake \/ AttributeFake
ProfileNext == ProfileStep \/ PutDies \/ \E p \in Profile : PortalChanges(p)
-----------------------------------------------------------------------------
ProfileTypeOK ==
    /\ inRepo \subseteq Profile /\ real \in [Profile -> 0..MaxChanges]
    /\ fakes \in [Profile -> 0..(MaxFaults + 1)]
    /\ (listed \cup stale) \subseteq Profile /\ cur \in Profile \cup {0} /\ back \in {"clean", "each"}
    /\ ppc \in {"idle", "list", "clean", "each", "find", "delete", "import", "getid", "attrs"}

\* A profile that this run found in the repository never loses its last launch
\* to the tool, whatever fails: a fake is deleted only next to another launch.
LastLaunchKept ==
    [][\A p \in inRepo : real[p] + fakes[p] > 0 /\ back = "each" => real'[p] + fakes'[p] > 0]_pvars

\* Run again and again, the tool ends with one fake launch for a profile that
\* has no real one, none for a profile that has one or is gone, however many
\* fakes earlier failures left behind.
FakesSettle ==
    <>[](inRepo = {} \/ \A p \in Profile :
           fakes[p] = IF p \in inRepo /\ real[p] = 0 THEN 1 ELSE 0)
=============================================================================
