\* Two processes, calls below MAXOPBLOCKS, the log of mkfs (NLOG = LOGSIZE), crashes
\* anywhere; no symmetry, for liveness.
SPECIFICATION FairSpec
CONSTANTS
  Proc = {p1, p2}
  Val = {v1, v2}
  MAXOPBLOCKS = 2
  LOGSIZE = 4
  NLOG = 4
  LOGSTART = 0
  FSSIZE = 7
  OpBlocks = 1
INVARIANTS
  LogInv
  SpaceIsThere
  QuiescentIsDurable
PROPERTIES
  CrashAtomic
  WriteAhead
  SleepersWake
