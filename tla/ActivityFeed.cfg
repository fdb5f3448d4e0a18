SPECIFICATION FairSpec
CONSTANTS
    Writers = {lambda, command}
    lambda = lambda
    command = command
    None = None
    Limit = 2
    MaxId = 4
    MaxDeaths = 1
    MaxRebaselines = 1
    MaxErrors = 1
    MaxVisits = 2
INVARIANTS NoGaps
CHECK_DEADLOCK FALSE
PROPERTIES CatchesUp
