SPECIFICATION Spec
CONSTANTS
    t1 = t1
    t2 = t2
    t3 = t3
    d1 = d1
    None = None
    Tasks = {t1, t2, t3}
    Devices = {d1}
    Configurers = {t2, t3}
    Requests = {"valid", "empty"}
CHECK_DEADLOCK FALSE
INVARIANTS
    TypeOK
    SleeperServed
PROPERTIES
    StepsOfBus
    HolderReturns
