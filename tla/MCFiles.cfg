SPECIFICATION Spec
CONSTANTS
  Proc = {p0, p1}
  Boot = p0
  Path = {"d", "a", "b"}
  Up <- MCUp
  Root = "root"
  Pipe = "pipe"
  Gone = "gone"
  MAX_FILE = 2
  NFile = 2
  MaxLeft = 1
INVARIANT RefersCounted FreedMeansSharing
CHECK_DEADLOCK FALSE
