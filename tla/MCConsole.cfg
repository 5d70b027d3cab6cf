\* Two CPUs and two processes, timer ticks on the first CPU, an input ring of two characters
\* whose indices wrap at four.
SPECIFICATION Spec
SYMMETRY Symmetry
VIEW Live
CONSTANTS
  Cpus = {c0, c1}
  NoCpu = NoCpu
  Procs = {p1, p2}
  NoProc = NoProc
  cpu0 = c0
  Timers = {c0}
  Locks = {"cons", "ptable"}
  INPUT_BUF = 2
  WRAP = 4
  Counts = {0, 2}
INVARIANTS
  InterruptsSound
  LocksSound
  ReadersServed
PROPERTIES
  ConsoleInput
