SPECIFICATION Spec
CONSTANTS
    Tasks <- MCTasks
    Recurring <- MCRecurring
    LongTasks <- MCLongTasks
    NoTask = NoTask
    MaxFibers = 3
    MaxCycles = 3
    MaxSessions = 2
    MaxKills = 1
CHECK_DEADLOCK FALSE
INVARIANTS
    SlicesStayInTheirCycle
    SwitchesAreFollowed
    OneRowPerRecurringTask
