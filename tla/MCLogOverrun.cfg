\* The log of mkfs (NLOG = LOGSIZE), calls that write MAXOPBLOCKS blocks.
SPECIFICATION Spec
SYMMETRY Symmetry
CONSTANTS
  Proc = {p1, p2, p3}
  Val = {v1, v2}
  MAXOPBLOCKS = 1
  LOGSIZE = 3
  NLOG = 3
  LOGSTART = 0
  FSSIZE = 6
  OpBlocks = 1
INVARIANT LogFits
