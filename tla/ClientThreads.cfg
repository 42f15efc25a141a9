SPECIFICATION CompositionSpec
CONSTANTS
    Hosts = {h1, h2}
    NULL = NULL
    MaxAddresses = 2
    MaxLinesPerRecv = 2
    Failures <- MCFailures
    Threads = {t1, t2, t3}
    Funcs = {h1, h2}
    Results = {r0, r1}
    ZEROED = ZEROED
    UNALLOCATED = UNALLOCATED
    FREED = FREED
INVARIANTS
    NothingLeaks
    ThreadHasClient
    ThreadRunsItsClient
    ShutdownIsPrompt
    WrappersOwned
PROPERTIES
    ImplementsSession
    ImplementsC11
    DestroyReturns
    ReconnectsAfterLoss
CHECK_DEADLOCK FALSE
