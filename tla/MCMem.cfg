SPECIFICATION Spec
CONSTANTS
  Ranges <- MCRanges
  PAGE = 6
  NODE = 2
  TABLE = 3
  Sizes = {3, 9}
  Nums = {1, 2}
  Cap = 33
INVARIANT HeapTiled PagesAccounted
CHECK_DEADLOCK FALSE
