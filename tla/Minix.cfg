SPECIFICATION Spec
CONSTANTS
  Name = {f, g, h}
  NIno = 4
  NZone = 4
  DirCap = 2
  RDev = {0, 2, 9}
  MaxBlocks = 2
  MaxCrash = 2
INVARIANT OwnedOnce Durable
CHECK_DEADLOCK FALSE
