SPECIFICATION ApplicationSpec
CONSTANTS
    t1 = t1
    t2 = t2
    out1 = out1
    out2 = out2
    Nobody = Nobody
    \* NotifyShared
    Tasks = {t1, t2}
    Device = i2c
    WireCodes = {0, 6}
    Pin = int1
    Timed = {t2}
    NSlots = 2
    None = Nobody
    \* SoftTimers
    Users = {t1, t2}
    Calls <- MCCalls
    NTimers = 2
    Base <- MCBase
    ClockMhz = 2
    TickUs = 2
    HalfRange = 3
    MaxAge = 5
    NoTimer = Nobody
    \* Mma8451
    Callers = {t1, t2}
    Rates = {r1, r2}
    FirstRate = r1
    BusFails = TRUE
    \* EfLeds
    Leds = {led1}
    Time <- MCTime
    MaxIndex = 6
    Null = Nobody
    \* EfHalPwm
    PwmTasks = {t1, t2}
    Outputs = {out1, out2}
    WaitsOn <- MCWaitsOn
    MayTimeOut = {t2}
    NEntries = 2
    IdNought = out1
    Free = Nobody
INVARIANTS
    TransferUndisturbed
    ElapsedAccounted
    TickRestored
    CopyIsTrue
    StandbyIsBrief
    LedFollows
    OwnOutputServed
PROPERTIES
    HonestUnlessLeft
