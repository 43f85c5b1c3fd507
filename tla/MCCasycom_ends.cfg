SPECIFICATION FairSpec
CONSTANTS
    A = A
    B = B
    iA = iA
    iB = iB
    NoClass = NoClass
    Class <- OneClass
    Iface <- OneIface
    Dtables <- OneDtables
    ObjectTable <- OneTable
    DefaultObject = NoClass
    AppIface = iA
    OnDestroyed = {}
    OnError = {A}
    ActiveDtor = {A}
    LinkAny = FALSE
    MaxOid = 3
    MaxLinks = 3
    MaxQueue = 2
    MaxCalls = 1
PROPERTY UnusedDestroyed
 
PROPERTY ErrorNotLost
