SPECIFICATION Spec
CONSTANTS
    A = A
    B = B
    iA = iA
    iB = iB
    NoClass = NoClass
    Class <- TwoClasses
    Iface <- TwoIfaces
    Dtables <- TwoDtables
    ObjectTable <- TwoTable
    DefaultObject = NoClass
    AppIface = iA
    OnDestroyed = {}
    OnError = {}
    ActiveDtor = {B}
    LinkAny = FALSE
    MaxOid = 3
    MaxLinks = 4
    MaxQueue = 2
    MaxCalls = 2
INVARIANT DestroyedOnce
