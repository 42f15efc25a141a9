SPECIFICATION Spec
CONSTANTS
    MILLIS_PER_SECOND = 10
    MAX_NUM_PREVIOUS_BOOST_FRAMES = 4
    MIN_AGE = 8
    MAX_AGE = 15
    Gaps <- MCRegularGaps
    MaxStall = 9
    Interruptions <- MCInterruptions
    NULL = NULL
    Horizon = 30
    MaxConnections = 2
INVARIANTS
    AgeAccurate
    FindsOldest
    ReferenceSurvives
