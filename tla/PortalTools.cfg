SPECIFICATION Spec
CONSTANTS
    MaxFaults = 2
    NLaunch = 2
    NItem = 4
    LaunchOf <- MCLaunchOf
    Mine <- MCMine
    PageSize = 1
    MaxRuns = 2
    MaxOthers = 1
    Slot = {1, 2}
    Suite <- MCSuite
    SuitesOf <- MCSuites
    RTeam = {"OLM", "SDN"}
    RPageSize = 1
    MaxGets = 3
    NProfile = 2
    MaxChanges = 3
INVARIANT TypesOK
PROPERTY UpdateExact
PROPERTY RatesSound
PROPERTY ProfilesCovered
CHECK_DEADLOCK FALSE
