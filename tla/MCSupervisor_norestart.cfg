SPECIFICATION Spec
CONSTANTS
    r1 = r1
    r2 = r2
    r3 = r3
    Runners <- MCRunners
    Cron = FALSE
    Faults = {}
    MaxFaults = 0
PROPERTIES
    RunnerRestarts
CHECK_DEADLOCK FALSE
