\* Two processes and the idle task, buffers of two characters, reads of up to
\* two characters, writes of one, two characters typed and a third when the buffer is full.
CONSTANTS
    p1 = p1
    p2 = p2
    Proc = {idle, p1, p2}
    Idle = idle
    BUFSIZ = 3
    VMIN = 1
    MaxLen = 2
    MaxWrite = 1
    MaxTyped = 2
SPECIFICATION Spec
INVARIANT EofReadsZero
CHECK_DEADLOCK FALSE
SYMMETRY Symmetry
