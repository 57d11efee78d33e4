CONSTANTS
    Timers <- MCTimers
    Tasks <- MCTasks
    TimerOf <- MCTimerOf
    Delay <- MCDelay
    Periodic = {"loop"}
    MaxSleep = 3
    Slack = 2
    StopAtStart = FALSE
SPECIFICATION FairSpec
INVARIANTS
    TypeOK
    NoTaskAfterDestroy
    
    NeverLate
PROPERTIES
    TasksRun
    JoinReturns
CHECK_DEADLOCK FALSE
