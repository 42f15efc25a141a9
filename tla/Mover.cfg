CONSTANTS
    Hosts = {h1}
    DEFAULT_HOSTNAME = h1
    NULL = NULL
    MaxAddresses = 1
    MaxLinesPerRecv = 1
    NumChannels = 2
    MAX_INTERPOLATOR_FRAMES = 2
    MAX_NUM_PREVIOUS_BOOST_FRAMES = 2
    MaxFrames = 3
    MaxConnections = 2
    Failures <- MCAllFailures
    MaxFaults = 1
SPECIFICATION Spec
INVARIANTS
    PoseConsistent
    InterpolatorsAgree
    PoseWithinConnection
    HistoryInOrder
CHECK_DEADLOCK FALSE
