CONSTANTS
    Hosts = {h1, h2}
    DEFAULT_HOSTNAME = h1
    NULL = NULL
    MaxAddresses = 1
    MaxLinesPerRecv = 1
    NumChannels = 2
    MAX_INTERPOLATOR_FRAMES = 2
    MAX_NUM_PREVIOUS_BOOST_FRAMES = 2
    MaxFrames = 1
    MaxConnections = 1
    Failures <- MCPluginFailures
    MaxFaults = 2
SPECIFICATION Spec
INVARIANT
    RestartPossible
