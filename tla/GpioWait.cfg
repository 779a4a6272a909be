SPECIFICATION Spec
CONSTANTS
    t1 = t1
    t2 = t2
    t3 = t3
    r1 = r1
    r2 = r2
    led = led
    sw1 = sw1
    sw3 = sw3
    None = None
    IdZero = led
    Waiters = {t1, t2, t3}
    WaitsFor <- Pairs
    Registrars = {}
    Firing = {led, sw3}
    Timed = {t2, t3}
    NSlots = 2
    NCallBacks = 1
SYMMETRY PairSymmetry
INVARIANTS
    TypeOK
    SlotsOwned
    NotSleptThrough
    NoSlotLeaks
