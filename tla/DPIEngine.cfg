SPECIFICATION Spec
CONSTANTS
    NumLBs = 2
    FpsPerLB = 2
    QueueSize = 1
    NumFlows = 2
    Flow <- MCFlow
    Hash <- MCHash
    MaxPackets = 2
    MaxFiles = 2
CHECK_DEADLOCK FALSE
INVARIANTS
    TypeOK
    Conservation
    NoPushAfterShutdown
    QuietStopLosesNothing
PROPERTIES
    ImplementsFlowFilter
