SPECIFICATION Spec
CONSTANTS
    Packet <- MCPacket
    PortRules <- MCPortRules
    BadIP = {"bad", "bad2"}
    DomainClass <- MCDomainClass
    Ignored <- MCIgnored
    ScanLimit = 2
    MaxPackets = 3
    MaxTime = 1
    MaxRequests = 3
CHECK_DEADLOCK FALSE
INVARIANTS
    TypeOK
    OneCasePerOffender
    ScanReportedOnce
PROPERTIES
    DecisionLands
    DecisionHitsFirst
