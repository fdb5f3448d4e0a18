SPECIFICATION Spec
CONSTANTS
    r1 = r1
    w1 = w1
    gw1 = gw1
    m1 = m1
    m2 = m2
    m3 = m3
    References = {}
    Windows <- OneWindow
    EventOf <- EventOfOne
    WindowEnd <- EndsAtOne
    MessageIds = {m1,m2,m3}
    MaxReceives = 2
    MaxTriggers = 1
    MaxFaults = 2
    MaxMaintenance = 1
    MaxClock = 1
INVARIANTS TypeOK PointersResolve
PROPERTIES NoJobForgotten AcknowledgedMeansStored PollsUntilTheEnd
CHECK_DEADLOCK FALSE
