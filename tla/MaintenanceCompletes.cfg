SPECIFICATION FairSpec
CONSTANTS
    w1 = w1
    Windows <- OneWindow
    StartOf <- StartsAtOne
    EndOf <- EndsAtThree
    CollectorRuns = {TRUE}
    Commands = {"begin", "end"}
    MaxFirings = 2
    MaxReplans = 1
    MaxRebaselines = 0
    MaxCrashes = 2
    MaxClock = 3
CHECK_DEADLOCK FALSE
PROPERTY MaintenanceCompletes
