CONSTANTS
    t1 = t1
    t2 = t2
    Task = {t1, t2}
    Fickle = {t1}
    L1 = 2
    L2 = 2
    L3 = 2
    MaxTick = 5
SPECIFICATION Spec
INVARIANTS TypeOK Placement CountNotBelow NotOverslept
PROPERTIES SchedulerSpec OverdueTasksRun
CHECK_DEADLOCK FALSE
