SPECIFICATION PortSpec
CONSTANTS
    t1 = t1
    r1 = r1
    r2 = r2
    led = led
    sw1 = sw1
    sw3 = sw3
    d1 = d1
    None = None
    IdZero = d1
    Waiters = {t1}
    WaitsFor <- OneEach
    Registrars = {r1}
    Firing = {sw1, sw3, d1}
    Timed = {t1}
    PortA = {d1}
    NSlots = 1
    NCallBacks = 2
INVARIANTS
    EdgeNotLost
    SeenMeansEdge
PROPERTIES
    CallBackKept
