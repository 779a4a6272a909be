SPECIFICATION Spec
CONSTANTS
    t1 = t1
    t2 = t2
    t3 = t3
    r1 = r1
    r2 = r2
    led = led
    sw1 = sw1
    sw3 = sw3
    None = None
    IdZero = led
    Waiters = {t1}
    WaitsFor <- OneWaiter
    Registrars = {}
    Firing = {sw1}
    Timed = {}
    NSlots = 1
    NCallBacks = 1
INVARIANTS
    NoNullHandle
