SPECIFICATION Spec
CONSTANTS
    j1 = j1
    j2 = j2
    j3 = j3
    Job = {j1, j2, j3}
    NCase = 3
    TeamOf <- MCTeamOf
    CasesOf <- MCCasesOf
    Outcome = {"PASSED", "FAILED"}
    Budgets <- MCBudgets
    MaxFaults = 1
    MaxLaunch = 7
    MaxItem = 12
CHECK_DEADLOCK FALSE
INVARIANT NoFailureForgotten
