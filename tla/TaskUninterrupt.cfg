\* Four slots (the idle task, the first process and two more), one SIGSTOP.
CONSTANTS
    TASK_MAX = 4
    TASK_TICKS = 1
    MaxStops = 1
SPECIFICATION Spec
INVARIANT WaitUninterrupted
CHECK_DEADLOCK FALSE
