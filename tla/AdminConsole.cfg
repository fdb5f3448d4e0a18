SPECIFICATION FairSpec
CONSTANTS
    Commands = {"local-dev", "prod-maintenance-begin", "aws-queues-drain", "aws-dlq-peek"}
    MaxTasks = 3
    MaxStops = 2
    MaxLogFailures = 1
INVARIANTS OneOperation RunnerNeverRefuses QuietExit
PROPERTIES TerminationIsConfirmed EscalationIsOffered BusyForAReason
CHECK_DEADLOCK FALSE
