SPECIFICATION Spec
CONSTANTS
    r1 = r1
    r2 = r2
    r3 = r3
    Runners <- MCRunners
    Cron = TRUE
    Faults = {"start", "stop", "kill", "reboot", "reuse"}
    MaxFaults = 2
INVARIANTS
    TypeOK
    BotsBounded
PROPERTIES
    BotComesBack
CHECK_DEADLOCK FALSE
