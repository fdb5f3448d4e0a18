SPECIFICATION Spec
CONSTANTS
    w1 = w1
    Windows <- OneWindow
    StartOf <- StartsAtOne
    EndOf <- EndsAtThree
    CollectorRuns = {TRUE, FALSE}
    Commands = {"begin", "pause", "rebaseline", "end", "restore"}
    MaxFirings = 1
    MaxReplans = 1
    MaxRebaselines = 2
    MaxCrashes = 1
    MaxClock = 3
CHECK_DEADLOCK FALSE
PROPERTY OperatorOwnsSchedules
PROPERTY StatesComeBack
PROPERTY CollectorRestored
PROPERTY RebaselineIsQuiet
