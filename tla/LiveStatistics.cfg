SPECIFICATION Spec
CONSTANTS
    Frame <- MCFrame
    AppOf <- MCAppOf
    ExportEvery = 2
    RehashAt = {2}
    MaxFrames = 4
    MaxListings = 1
CHECK_DEADLOCK FALSE
INVARIANTS
    TypeOK
    TablesAgree
    
PROPERTIES
    ListingComplete
