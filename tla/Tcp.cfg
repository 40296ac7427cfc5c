SPECIFICATION Spec
CONSTANTS
  Kid = {k1}
  ISS = {0}
  SEQ = 16
  Backlogs = {1, 2}
  WriteSizes = {1}
  MaxWork = 2
  Len0 = 1
INVARIANT TypeOK StreamIntact AckedIsReceived EndIsLast NoSleepOnWork ConnectPending
CHECK_DEADLOCK FALSE
