SPECIFICATION Spec
CONSTANTS
    Tuple <- MCTuple
    Payload <- MCPayload
    FlagSets <- MCFlagSets
    AppOf <- MCAppOf
    Rule <- MCRule
    MaxConnections = 2
    Timeout = 0
    MaxPackets = 3
    MaxChanges = 1
    MaxTime = 1
CHECK_DEADLOCK FALSE
INVARIANT TypeOK
PROPERTIES
    StandingRuleEnforced
    BlockedUntilClosed
    RemovalJustified
    ClassificationStable
