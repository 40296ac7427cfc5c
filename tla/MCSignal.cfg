SPECIFICATION Spec
CONSTANTS
  Proc <- MCProc
  Sig = {1, 2, 18}
  SIGCONT = 18
  SIGSTOP = 19
  NoDefault = {2}
  Acts <- MCActs
  Masks <- MCMasks
  Perm <- MCPerm
  MaxCalls = 5
INVARIANT TypeOK FramesNest NoReentry
CHECK_DEADLOCK FALSE
