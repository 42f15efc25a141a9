SPECIFICATION Spec
CONSTANTS
    HALF_SECOND = 4
    MAX_NUM_TIME_DIFFERENCE_RECORDS = 3
    INIT_CYCLES_TO_UPDATE_SIM_TIME_DIFF = 1
    Sources = {1}
    Offsets <- MCBehind
    Latencies = {0, 1}
    Failures = {}
    NAN = NAN
INVARIANTS
    BehindIsNegative
