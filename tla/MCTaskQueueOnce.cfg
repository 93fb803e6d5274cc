SPECIFICATION OnceFairSpec
CONSTANTS
    Task = {t1, t2}
    Machine = {haze, kush}
    Target = {haze, kush}
    DefaultMachine = haze
    Priority = {1}
    Stamp <- MCStamp
    Limit <- MCLimit
PROPERTIES ImplementsScheduler EveryEntryLaunched
CHECK_DEADLOCK FALSE
