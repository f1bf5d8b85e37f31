SPECIFICATION FairSpec
CONSTANTS
    j1 = j1
    j2 = j2
    j3 = j3
    Job = {j1, j2, j3}
    NCase = 3
    TeamOf <- MCTeamOf
    CasesOf <- MCCasesOf
    Outcome = {"PASSED", "FAILED"}
    Budgets <- MCBudgets
    MaxFaults = 2
    MaxLaunch = 7
    MaxItem = 12
INVARIANT TypeOK
INVARIANT ShownOnce
 
PROPERTY RerunReplaces
PROPERTY BuildsEnd
CHECK_DEADLOCK FALSE
