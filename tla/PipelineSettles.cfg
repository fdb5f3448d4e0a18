SPECIFICATION FairSpec
CONSTANTS
    r1 = r1
    w1 = w1
    gw1 = gw1
    m1 = m1
    m2 = m2
    m3 = m3
    References <- OneReference
    Windows <- OneWindow
    EventOf <- EventOfOne
    WindowEnd <- EndsAtOne
    MessageIds = {m1,m2,m3}
    MaxReceives = 2
    MaxTriggers = 1
    MaxFaults = 1
    MaxMaintenance = 0
    MaxClock = 1
PROPERTIES EveryJobSettles
CHECK_DEADLOCK FALSE
