SPECIFICATION Spec
CONSTANTS
    MaxFaults = 2
    Subject <- MCSubject
    Within <- MCWithin
    MaxCloses = 1
    LaunchesIn <- MCLaunchesIn
    Portals <- MCPortals
    KnownAuthor <- MCKnownAuthors
    Threshold = 85
    CPageSize = 2
    Profiles <- MCProfiles
    BuildCases <- MCBuildCases
    Unnamed = {2}
    NBug = 2
    MaxBugChanges = 3
INVARIANT TypesOK
INVARIANT NothingTwice
INVARIANT RowsExact
INVARIANT TrackedExactly
INVARIANT BuildsKept
PROPERTY UnstableGetTracked
PROPERTY BugsConverge
CHECK_DEADLOCK FALSE
