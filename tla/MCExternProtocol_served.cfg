SPECIFICATION FairQuitSpec
CHECK_DEADLOCK FALSE
CONSTANTS
    Iface <- OneIface
    Exports <- ServerExports
    Imports <- ClientImports
    Begins <- OneBegins
    Conduct <- Conducts
    MaxOid = 9
    MaxCalls = 2
    MaxEnds = 1
PROPERTY CallsServed
PROPERTY DropDestroys
PROPERTY ClosedCleans
