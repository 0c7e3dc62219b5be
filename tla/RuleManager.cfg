SPECIFICATION Spec
CONSTANTS
    c1 = c1
    c2 = c2
    Caller = {c1, c2}
    addr = addr
    pattern = pattern
    domain = domain
    port = port
    shortPort = shortPort
    Rule <- MCRule
    Table <- MCTable
    Pattern = {pattern}
    Torn <- MCTorn
    MaxCopies = 2
    MaxChanges = 2
    MaxCalls = 3
    NameOf <- MCNameOf
    Char <- MCChar
    Lower <- MCLower
    Label <- MCLabel
    MaxLabels = 3
SYMMETRY Symmetry
INVARIANTS
    TypeOK
    RulesBlockSubdomains
PROPERTIES
    SaveFaithful
    ClearedStayGone
    LoadRestores
