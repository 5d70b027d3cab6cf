\* One CPU, init and one more process at a time.
SPECIFICATION FairSpec
CONSTANTS
  CPU = {c1}
  NPROC = 2
  MAXPID = 3
  KillPids = {2, 3}
PROPERTIES
  KilledExits
  RunnableRuns
