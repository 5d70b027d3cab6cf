\* One failed system call at most, descriptors for nested pipelines, and an input that ends:
\* a shell that waits for another line is no deadlock.
SPECIFICATION FairSpec
CONSTANTS
  NPROC = 7
  NOFILE = 7
  NBUF = 11
  MAXARGS = 3
  WRAP = 16
  MAXID = 9
  Inputs <- MCInputs
CHECK_DEADLOCK FALSE
INVARIANTS
  AcceptsGrammar
  DescriptorsAsTyped
  OrderAsTyped
PROPERTIES
  ShellGoesOn
