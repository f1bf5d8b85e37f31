-------------------------- MODULE MCReportPortal --------------------------
EXTENDS ReportPortal
CONSTANTS j1, j2, j3
MCTeamOf == [c \in 1..NCase |-> IF c = 3 THEN "t2" ELSE "t1"]
MCCasesOf == [j \in Job |-> CASE j = j1 -> {1, 3} [] j = j2 -> {1} [] j = j3 -> {2}]
\* One job built three times, or two jobs side by side, one of them rebuilt.
MCBudgets == {[j \in Job |-> IF j = j1 THEN 3 ELSE 0],
              [j \in Job |-> CASE j = j1 -> 0 [] j = j2 -> 2 [] j = j3 -> 1]}
ASSUME MCJobsApart == JobsApart
=============================================================================
