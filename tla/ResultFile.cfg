SPECIFICATION Spec
CONSTANTS
    CaseId = {"11111", "22222"}
    IdLists <- MCIdLists
    Subteam = {"OLM"}
    Word = {"OLM", "other"}
    MaxTests = 3
INVARIANT TypeOK
INVARIANT ResultsKept
INVARIANT SummarySound
CHECK_DEADLOCK FALSE
