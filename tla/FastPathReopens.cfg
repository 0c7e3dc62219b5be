SPECIFICATION Spec
CONSTANTS
    Tuple <- MCTuple
    Payload <- MCPayload
    FlagSets <- MCFlagSets
    AppOf <- MCAppOf
    Rule <- MCRule
    MaxConnections = 2
    Timeout = 0
    MaxPackets = 2
    MaxChanges = 0
    MaxTime = 0
CHECK_DEADLOCK FALSE
PROPERTY BlockedFlowStaysDropped
