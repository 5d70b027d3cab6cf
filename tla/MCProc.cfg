\* Two CPUs, init and three more processes: enough for init to inherit a zombie
\* from a process that is not its child.
SPECIFICATION Spec
CONSTANTS
  CPU = {c1, c2}
  NPROC = 4
  MAXPID = 4
  KillPids = {2}
SYMMETRY Symmetry
INVARIANTS
  TableSound
  StacksOwned
  ParentAlive
  WaiterMissesNothing
