CONSTANT Behaviour <- AllBehaviours
SPECIFICATION FairSpec
INVARIANT TypeOK
INVARIANT VerdictSound
PROPERTY TimeoutEnds
CHECK_DEADLOCK FALSE
