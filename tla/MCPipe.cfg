\* Two processes, one killable, a buffer of two bytes, counters that wrap around after two
\* rounds; no symmetry, for liveness.
SPECIFICATION FairSpec
CONSTANTS
  Proc = {p1, p2}
  Killable = {p1}
  Byte = {b0, b1}
  PIPESIZE = 2
  WRAP = 4
  MAXN = 2
CHECK_DEADLOCK FALSE
INVARIANTS
  PipeSound
  SleepersJustified
PROPERTIES
  IsFifo
  EndOfFile
