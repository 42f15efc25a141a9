SPECIFICATION FairSpec
CONSTANTS
    HALF_SECOND = 4
    MAX_NUM_TIME_DIFFERENCE_RECORDS = 2
    INIT_CYCLES_TO_UPDATE_SIM_TIME_DIFF = 1
    Sources <- MCSources
    Offsets <- MCAhead
    Latencies = {0, 1}
    Failures = {"timespec_get", "mtx_lock"}
    NAN = NAN
INVARIANTS
    DiffsExact
    QueryTrailsPsx
PROPERTIES
    SettlesOnSource
