SPECIFICATION Spec
CONSTANTS
    NumLBs = 1
    FpsPerLB = 1
    QueueSize = 1
    NumFlows = 1
    Flow <- MCFlow
    Hash <- MCHash
    MaxPackets = 2
    MaxFiles = 1
CHECK_DEADLOCK FALSE
INVARIANT ForwardedIsWritten
