\* Two processes and three blocks, one of each kind, share two buffers, which may be
\* pinned; one transfer may fail.
SPECIFICATION Spec
CONSTANTS
  Proc = {p1, p2}
  Buf = {b1, b2}
  Block = {logblk, indblk, datblk}
  LogBlock = {logblk}
  Indirect = {indblk}
  Value = {v0, v1}
  NoBlock = NoBlock
  MAXHOLD = 2
  MAXPIN = 2
  MAXERR = 1
SYMMETRY Symmetry
INVARIANTS
  CacheSound
  SleepersHaveWaker
  PanicOnlyWhenFull
PROPERTIES
  IsBlockStore
