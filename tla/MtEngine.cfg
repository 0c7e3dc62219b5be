SPECIFICATION FairSpec
CONSTANTS
    Flow <- MCFlow
    Name <- MCName
    NoName = ""
    AppOf <- MCAppOf
    BlockedIPs = {}
    BlockedApps = {"YOUTUBE"}
    BlockedNames = {}
    NumLBs = 1
    FpsPerLB = 2
    QueueSize = 1
    Hash <- MCHash
    Captured <- MCCaptured
    MaxPackets = 3
INVARIANTS
    TypeOK
    FileIsPrefix
    ForwardedIsWritten
PROPERTY
    ProcessReturns
