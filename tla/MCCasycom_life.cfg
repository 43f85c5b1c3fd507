SPECIFICATION Spec
CONSTANTS
    A = A
    B = B
    iA = iA
    iB = iB
    NoClass = NoClass
    Class <- OneClass
    Iface <- OneIface
    Dtables <- OneDtables
    ObjectTable <- OneTable
    DefaultObject = NoClass
    AppIface = iA
    OnDestroyed = {A}
    OnError = {A}
    ActiveDtor = {}
    LinkAny = TRUE
    MaxOid = 3
    MaxLinks = 4
    MaxQueue = 2
    MaxCalls = 1
INVARIANT TypeOK
INVARIANT MapWellFormed
INVARIANT SearchesAgree
INVARIANT HeapAccounted
INVARIANT LinksLive
INVARIANT ResetFrees
