\* Two processes race on a tree of two or three directories; every call counts.
SPECIFICATION Spec
CONSTANTS
  Proc = {p1, p2}
  initproc = p1
  NoProc = NoProc
  Name <- MCName
  Calls <- MCCalls
  Trees <- MCTrees
  NINODES = 4
  NINODE = 4
  NFILE = 1
  NOFILE = 2
  MAXCALLS = 3
INVARIANTS
  ReferencesExact
  CountsExact
  NothingDangles
  Reclaimed
  NoCircularWait
