SPECIFICATION Spec
CONSTANTS
    t1 = t1
    t2 = t2
    t3 = t3
    a0 = a0
    a1 = a1
    d9 = d9
    cb1 = cb1
    None = None
    Tasks = {t1, t2, t3}
    Inputs = {a0, a1}
    Reads <- Readers
    Starts <- Starters
    Timed = {t2, t3}
    NSlots = 2
    NCallBacks = 1
    CallBacks = {cb1}
INVARIANTS
    TypeOK
    SlotsOwned
    OneConversion
    FreshRead
PROPERTIES
    WaiterReturns
