\* Two processes, two files of up to three blocks, five data blocks; chunks of one block.
SPECIFICATION Spec
CONSTANTS
  Proc = {p1, p2}
  NoProc = NoProc
  NINODES = 3
  BSIZE = 2
  NDIRECT = 1
  IPB = 4
  LOGSIZE = 6
  NDATA = 5
  ROOTSIZE = 1
  Sizes = {4}
SYMMETRY Symmetry
INVARIANTS
  BlocksAccounted
  ContentIsFlat
  ChunkFits
