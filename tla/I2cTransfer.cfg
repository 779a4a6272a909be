SPECIFICATION Spec
CONSTANTS
    t1 = t1
    t2 = t2
    hw1 = hw1
    sw1 = sw1
    None = None
    Tasks = {t1, t2}
    HwDevices = {hw1}
    SoftDevices = {sw1}
    MayRefuse = {}
    Requests = {"valid", "readOnly", "empty"}
    WireCodes = {0, 6}
CHECK_DEADLOCK FALSE
INVARIANTS
    TypeOK
    CompletionReachesStarter
    ResultIsOwn
    NoMissedEnd
PROPERTIES
    StepsOfBus
    HolderReturns
