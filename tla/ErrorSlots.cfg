SPECIFICATION Spec
CONSTANTS
    t1 = t1
    t2 = t2
    e1 = e1
    e2 = e2
    None = None
    NoError = NoError
    Tasks = {t1, t2}
    Types = {e1, e2}
    NSlots = 2
INVARIANTS
    TypeOK
    SlotsAccounted
    EnoughSlots
PROPERTIES
    StepsOfBoard
