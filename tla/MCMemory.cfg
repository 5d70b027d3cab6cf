\* Two processes on fourteen pages of two words; the calls are bounded, and a behaviour ends
\* with the last of them or with a panic.
SPECIFICATION Spec
CHECK_DEADLOCK FALSE
CONSTANTS
  Procs = {p1, p2}
  initproc = p1
  NPAGES = 14
  PGSIZE = 2
  NPTENTRIES = 2
  KERNBASE = 12
  NKTAB = 1
  Deltas <- MCDeltas
  Images <- MCImages
  ArgSizes = {1, 3}
  PTRSIZE = 1
  ReadSizes <- MCReadSizes
  Lengths = {6}
  MAXCALLS = 5
INVARIANTS
  PagesAccounted
  SpaceIsFlat
  HaltOnlyIfDamaged
  LoadedDirectory
