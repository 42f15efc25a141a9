CONSTANTS
    MAX_INTERPOLATOR_FRAMES = 3
    MAX_INTERPOLATOR_FRAME_TIME_DIFF_MILLIS = 4
    MILLIS_PER_SECOND = 10
    Values <- MCValues
    InitialValue = 0
    NonFinite = NonFinite
    NAN = NAN
    LookBacks <- MCLookBacks
    MaxSilence = 6
    Horizon = 21
SPECIFICATION TimelineSpec
INVARIANTS
    GapsRelatable
    CalculationOnTimeline
    NoReplay
    PlaybackAvailable
PROPERTY
    ImplementsWindow
CHECK_DEADLOCK FALSE
