SPECIFICATION FairSpec
CHECK_DEADLOCK FALSE
CONSTANTS
    a = a
    b = b
    Timers <- TwoTimers
    Fds = {1}
    Conditions = {"read"}
    Timeouts = {1}
    Loops = {"main", "own"}
    INT_MAX = 3
    TIMER_MAX = 15
    MaxNow = 2
    MaxWatch = 3
INVARIANT ListSound
INVARIANT OneAnswer
INVARIANT NotForgotten
INVARIANT NoOversleep
PROPERTY ReadyAnswered
