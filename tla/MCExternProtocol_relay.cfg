SPECIFICATION QuitSpec
CHECK_DEADLOCK FALSE
CONSTANTS
    Iface <- OneIface
    Exports <- ServerExports
    Imports <- ClientImports
    Begins <- OneBegins
    Conduct <- Conducts
    MaxOid = 9
    MaxCalls = 2
    MaxEnds = 2
INVARIANT RelaysSound
INVARIANT CallsRouted
INVARIANT AnswersMatch
