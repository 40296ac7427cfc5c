\* Two processes at each end, so that the assertion in block_as can fail; a
\* ring of three bytes whose counters wrap around after four rounds, and
\* requests larger than the ring.
CONSTANTS
    Readers = {r1, r2}
    Writers = {w1, w2}
    SIZ = 3
    WRAP = 12
    LABELS = 4
    MaxReq = 4
SPECIFICATION Spec
INVARIANTS TypeOK StreamIntact NoSleepOnWork AssertMeansSharing
PROPERTIES IsChannel PipeMoves
CHECK_DEADLOCK FALSE
