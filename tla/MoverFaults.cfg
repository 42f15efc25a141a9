CONSTANTS
    Hosts = {h1, h2}
    DEFAULT_HOSTNAME = h1
    NULL = NULL
    MaxAddresses = 1
    MaxLinesPerRecv = 1
    NumChannels = 2
    MAX_INTERPOLATOR_FRAMES = 2
    MAX_NUM_PREVIOUS_BOOST_FRAMES = 2
    MaxFrames = 2
    MaxConnections = 2
    Failures <- MCPluginFailures
    MaxFaults = 1
SPECIFICATION FairSpec
INVARIANTS
    RestartPossible
    ClientRestored
    EstablishedAccurate
    ReportedHost
    CallbackHasResources
PROPERTIES
    MainThreadReturns
    FrameApplied
