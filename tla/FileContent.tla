----------------------------- MODULE FileContent -----------------------------
(***************************************************************************)
(* Blocks and the contents of files: balloc, bfree, bmap, itrunc, readi    *)
(* and writei of fs.c under fileread and filewrite of file.c, on an image  *)
(* that mkfs.c has built.                                                  *)
(*                                                                         *)
(* An inode is locked over one chunk of filewrite; processes that write    *)
(* different files meet in the bitmap.  A step is one turn of the loop of  *)
(* writei or itrunc.  A block is a function from 0 .. BSIZE - 1; an        *)
(* indirect block holds as many block numbers.                             *)
(***************************************************************************)
EXTENDS Integers, Sequences, FiniteSets, FiniteSetsExt

CONSTANTS
  Proc, NoProc,
  NINODES,   \* inodes; 1 is the root directory, the others are files
  BSIZE, NDIRECT, IPB,
  LOGSIZE,
  NDATA,     \* data blocks of the disk
  ROOTSIZE,  \* size of the root directory when mkfs has entered all files
  Sizes      \* sizes of the requests that are made

\* Chunks of filewrite are not empty, and the root directory is no larger than a file may be.
ASSUME FileContentAssumption ==
  /\ NoProc \notin Proc
  /\ NINODES \in Nat \ {0} /\ BSIZE \in Nat \ {0} /\ IPB \in Nat \ {0}
  /\ NDIRECT \in Nat /\ NDATA \in Nat
  /\ LOGSIZE \in Nat /\ LOGSIZE >= 6
  /\ ROOTSIZE \in Nat /\ ROOTSIZE < (NDIRECT + BSIZE) * BSIZE
  /\ Sizes \subseteq Nat

VARIABLES
  phase,      \* "mkfs" or "up"
  freeblock,  \* mkfs's next free block
  used,       \* blocks marked in the bitmap
  blk,        \* contents of the data blocks
  size, addrs,  \* fields of the inodes
  lock,       \* I_BUSY: the process that has the inode locked
  ino, off,   \* inode and offset of the file that each process has open; 0 is none
  th,         \* the call that each process is in
  logged,     \* blocks that the chunk in progress has logged (history)
  panicked

vars == <<phase, freeblock, used, blk, size, addrs, lock, ino, off, th, logged, panicked>>

Inum == 1 .. NINODES
NINDIRECT == BSIZE
MAXFILE == NDIRECT + NINDIRECT

\* The layout of mkfs: boot block, superblock, log, inodes, bitmap.
inodestart == 2 + LOGSIZE
bmapstart == inodestart + NINODES \div IPB + 1
nmeta == bmapstart + 1
FSSIZE == nmeta + NDATA
Data == nmeta .. FSSIZE - 1
IBLOCK(i) == i \div IPB + inodestart
Zeroes == [k \in 0 .. BSIZE - 1 |-> 0]
NoAddrs == [k \in 0 .. NDIRECT |-> 0]
Idle == [pc |-> "user", n |-> 0, tot |-> 0, n1 |-> 0]

Init ==
  /\ phase = "mkfs" /\ freeblock = nmeta
  /\ used = {}
  /\ blk = [b \in Data |-> Zeroes]
  /\ size = [i \in Inum |-> 0]
  /\ addrs = [i \in Inum |-> NoAddrs]
  /\ lock = [i \in Inum |-> NoProc]
  /\ ino = [p \in Proc |-> 0] /\ off = [p \in Proc |-> 0]
  /\ th = [p \in Proc |-> Idle]
  /\ logged = [p \in Proc |-> {}]
  /\ panicked = FALSE

-----------------------------------------------------------------------------
(***************************************************************************)
(* bmap.                                                                   *)
(***************************************************************************)

\* Blocks that balloc may take, s being those in use; it takes the first.
Unmarked(s) == {b \in 0 .. FSSIZE - 1 : b \notin s}

\* Blocks that are listed in the indirect block.
Indirect(bn) == bn >= NDIRECT

\* The address that bmap finds for block bn of inode i, 0 if there is none.
Mapped(i, bn) ==
  IF ~Indirect(bn) THEN addrs[i][bn]
  ELSE IF addrs[i][NDIRECT] = 0 THEN 0 ELSE blk[addrs[i][NDIRECT]][bn - NDIRECT]

\* The blocks that bmap gets from balloc: the indirect block first.
Wanted(i, bn) ==
  (IF Indirect(bn) /\ addrs[i][NDIRECT] = 0 THEN 1 ELSE 0) + (IF Mapped(i, bn) = 0 THEN 1 ELSE 0)

\* The outcome of bmap(i, bn): new values of used, addrs and blk, the address, and
\* the blocks that are logged.
bmap(i, bn) ==
  LET first == Min(Unmarked(used))
      ind == IF addrs[i][NDIRECT] = 0 THEN first ELSE addrs[i][NDIRECT]
      newind == Indirect(bn) /\ addrs[i][NDIRECT] = 0
      addr == IF Mapped(i, bn) # 0 THEN Mapped(i, bn)
              ELSE Min(Unmarked(IF newind THEN used \cup {first} ELSE used))
      new == (IF newind THEN {ind} ELSE {}) \cup (IF Mapped(i, bn) = 0 THEN {addr} ELSE {})
      zeroed == [b \in Data |-> IF b \in new THEN Zeroes ELSE blk[b]]
  IN [addr |-> addr,
      used |-> used \cup new,
      addrs |-> IF ~Indirect(bn) THEN [addrs EXCEPT ![i][bn] = addr]
                ELSE [addrs EXCEPT ![i][NDIRECT] = ind],
      blk |-> IF Indirect(bn) THEN [zeroed EXCEPT ![ind][bn - NDIRECT] = addr] ELSE zeroed,
      logged |-> IF new = {} THEN {} ELSE new \cup {bmapstart} \cup (IF Indirect(bn) THEN {ind} ELSE {})]

\* The byte at offset o of inode i; 0 if there is no block.
ByteAt(i, o) ==
  IF Mapped(i, o \div BSIZE) = 0 THEN 0 ELSE blk[Mapped(i, o \div BSIZE)][o % BSIZE]

\* The bytes that programs write: every byte tells its file and its offset.
Mark(i, o) == 10 * i + o

\* Mutant: bytes are copied to the start of the block.
Written_start(b, i, o, n) == [k \in 0 .. BSIZE - 1 |-> IF k < n THEN Mark(i, o + k) ELSE b[k]]

\* Block b after n bytes are written to it from offset o of file i on.
Written(b, i, o, n) ==
  [k \in 0 .. BSIZE - 1 |-> IF k >= o % BSIZE /\ k < (o % BSIZE) + n THEN Mark(i, o - (o % BSIZE) + k) ELSE b[k]]

-----------------------------------------------------------------------------
(***************************************************************************)
(* mkfs.                                                                   *)
(***************************************************************************)

\* iappend of one block or less to inode i (one entry to the root directory), which
\* takes blocks in sequence.
iappend(i, n) ==
  LET bn == size[i] \div BSIZE
      newind == Indirect(bn) /\ addrs[i][NDIRECT] = 0
      ind == IF newind THEN freeblock ELSE addrs[i][NDIRECT]
      addr == IF Mapped(i, bn) # 0 THEN Mapped(i, bn) ELSE IF newind THEN freeblock + 1 ELSE freeblock
      written == Written(blk[addr], i, size[i], n)
  IN
  /\ phase = "mkfs" /\ (IF i = 1 THEN n = 1 /\ size[1] < ROOTSIZE ELSE size[1] > 0)
  /\ bn < MAXFILE /\ (size[i] % BSIZE) + n <= BSIZE /\ freeblock + Wanted(i, bn) <= FSSIZE
  /\ freeblock' = freeblock + Wanted(i, bn)
  /\ addrs' = [addrs EXCEPT ![i][IF Indirect(bn) THEN NDIRECT ELSE bn] = IF Indirect(bn) THEN ind ELSE addr]
  /\ blk' = IF Indirect(bn) THEN [blk EXCEPT ![ind][bn - NDIRECT] = addr, ![addr] = written]
            ELSE [blk EXCEPT ![addr] = written]
  /\ size' = [size EXCEPT ![i] = @ + n]
  /\ UNCHANGED <<phase, used, lock, ino, off, th, logged, panicked>>

\* Mutant: the bitmap of mkfs leaves out the last block it has used.
Image_short == 0 .. freeblock - 2

\* mkfs's balloc marks everything up to freeblock.
Image == 0 .. freeblock - 1

\* The end of mkfs: the size of the root directory is rounded up, and beyond a
\* whole number of blocks by one more; the bitmap is written.
mkfs_end ==
  /\ phase = "mkfs" /\ size[1] = ROOTSIZE
  /\ phase' = "up"
  /\ size' = [size EXCEPT ![1] = (@ \div BSIZE + 1) * BSIZE]
  /\ used' = Image
  /\ UNCHANGED <<freeblock, blk, addrs, lock, ino, off, th, logged, panicked>>

-----------------------------------------------------------------------------
(***************************************************************************)
(* Opening and writing.                                                    *)
(***************************************************************************)

At(p, l) == phase = "up" /\ th[p].pc = l
Goto(p, t) == th' = [th EXCEPT ![p] = t]
Same == UNCHANGED <<phase, freeblock>>

\* The process has file i open, at its start.
open(p, i) ==
  /\ At(p, "user") /\ i > 1
  /\ \A q \in Proc : th[q].pc = "itrunc" => lock[i] # q
  /\ ino' = [ino EXCEPT ![p] = i] /\ off' = [off EXCEPT ![p] = 0]
  /\ Same /\ UNCHANGED <<used, blk, size, addrs, lock, th, logged, panicked>>

\* filewrite of n bytes.
filewrite(p, n) ==
  /\ At(p, "user") /\ ino[p] # 0
  /\ Goto(p, [Idle EXCEPT !.pc = "chunk", !.n = n])
  /\ Same /\ UNCHANGED <<used, blk, size, addrs, lock, ino, off, logged, panicked>>

\* Mutant: the factor 2 for the blocks of the bitmap is forgotten.
MaxChunk_full == (LOGSIZE - 1 - 1 - 2) * BSIZE

\* filewrite's max.
MaxChunk == ((LOGSIZE - 1 - 1 - 2) \div 2) * BSIZE

\* A chunk begins: begin_op, ilock and the tests of writei; or filewrite returns.
filewrite_chunk(p) ==
  LET n1 == Min({th[p].n, MaxChunk})
      i == ino[p]
  IN
  /\ At(p, "chunk")
  /\ \/ /\ th[p].n > 0 /\ lock[i] = NoProc
        /\ off[p] <= size[i] /\ off[p] + n1 <= MAXFILE * BSIZE
        /\ lock' = [lock EXCEPT ![i] = p]
        /\ Goto(p, [th[p] EXCEPT !.pc = "writei", !.n1 = n1, !.tot = 0])
     \/ /\ th[p].n > 0 /\ lock[i] = NoProc
        /\ off[p] > size[i] \/ off[p] + n1 > MAXFILE * BSIZE
        /\ Goto(p, Idle)
        /\ UNCHANGED lock
     \/ /\ th[p].n = 0
        /\ Goto(p, Idle)
        /\ UNCHANGED lock
  /\ logged' = [logged EXCEPT ![p] = {}]
  /\ Same /\ UNCHANGED <<used, blk, size, addrs, ino, off, panicked>>

\* One turn of writei's loop, or panic("balloc: out of blocks").
writei(p) ==
  LET t == th[p]
      i == ino[p]
      o == off[p] + t.tot
      bn == o \div BSIZE
      m == Min({t.n1 - t.tot, BSIZE - (o % BSIZE)})
      b == bmap(i, bn)
  IN
  /\ At(p, "writei") /\ t.tot < t.n1
  /\ \/ /\ Wanted(i, bn) <= Cardinality(Unmarked(used))
        /\ used' = b.used /\ addrs' = b.addrs
        /\ blk' = [b.blk EXCEPT ![b.addr] = Written(@, i, o, m)]
        /\ logged' = [logged EXCEPT ![p] = @ \cup b.logged \cup {b.addr}]
        /\ Goto(p, [t EXCEPT !.tot = @ + m])
        /\ UNCHANGED panicked
     \/ /\ Wanted(i, bn) > Cardinality(Unmarked(used))
        /\ panicked' = TRUE
        /\ UNCHANGED <<used, addrs, blk, logged, th>>
  /\ Same /\ UNCHANGED <<size, lock, ino, off>>

\* The end of writei and of the chunk: the size grows, the inode is logged and
\* unlocked, the offset of the file moves.
writei_end(p) ==
  LET t == th[p]
      i == ino[p]
      o == off[p] + t.n1
  IN
  /\ At(p, "writei") /\ t.tot = t.n1
  /\ size' = [size EXCEPT ![i] = Max({@, o})]
  /\ logged' = [logged EXCEPT ![p] = IF o > size[i] THEN @ \cup {IBLOCK(i)} ELSE @]
  /\ off' = [off EXCEPT ![p] = o]
  /\ lock' = [lock EXCEPT ![i] = NoProc]
  /\ Goto(p, [t EXCEPT !.pc = "chunk", !.n = @ - t.n1])
  /\ Same /\ UNCHANGED <<used, blk, addrs, ino, panicked>>

-----------------------------------------------------------------------------
(***************************************************************************)
(* Reading and truncating.                                                 *)
(***************************************************************************)

\* readi stops at the end of the file.
ReadTo(i, o, n) == IF o + n > size[i] THEN size[i] ELSE o + n

\* fileread, with the inode locked: the offset moves by the bytes that are there.
\* (bmap allocates nothing here as long as every block below size is mapped.)
fileread(p, n) ==
  LET i == ino[p] IN
  /\ At(p, "user") /\ i # 0 /\ lock[i] = NoProc /\ off[p] <= size[i]
  /\ off' = [off EXCEPT ![p] = ReadTo(i, @, n)]
  /\ Same /\ UNCHANGED <<used, blk, size, addrs, lock, ino, th, logged, panicked>>

\* The block at place k of inode i, in the order in which itrunc frees them: the indirect
\* block is the last one.
BlockAt(i, k) == IF k = MAXFILE THEN addrs[i][NDIRECT] ELSE Mapped(i, k)

\* The places of the blocks that itrunc has still to free at place k.
Left(i, k) == {l \in k .. MAXFILE : BlockAt(i, l) # 0}

\* iput frees file i, which nobody has open.
iput(p, i) ==
  /\ At(p, "user") /\ i > 1 /\ size[i] > 0
  /\ lock[i] = NoProc /\ \A q \in Proc : ino[q] # i
  /\ lock' = [lock EXCEPT ![i] = p]
  /\ Goto(p, [Idle EXCEPT !.pc = "itrunc", !.n = i])
  /\ Same /\ UNCHANGED <<used, blk, size, addrs, ino, off, logged, panicked>>

\* The size that itrunc leaves.
Truncated(i) == 0

\* bfree of block b, or panic("freeing free block").
bfree(b) == used' = used \ {b} /\ panicked' = (b \notin used)

\* One bfree of itrunc, or its end.  (The addresses are erased at the end: nobody looks at
\* them before.)
itrunc(p) ==
  LET t == th[p]
      i == t.n
      k == Min(Left(i, t.tot))
  IN
  /\ At(p, "itrunc")
  /\ \/ /\ Left(i, t.tot) # {}
        /\ bfree(BlockAt(i, k))
        /\ Goto(p, [t EXCEPT !.tot = k + 1])
        /\ UNCHANGED <<addrs, size, lock>>
     \/ /\ Left(i, t.tot) = {}
        /\ addrs' = [addrs EXCEPT ![i] = NoAddrs]
        /\ size' = [size EXCEPT ![i] = Truncated(i)]
        /\ lock' = [lock EXCEPT ![i] = NoProc]
        /\ Goto(p, Idle)
        /\ UNCHANGED <<used, panicked>>
  /\ Same /\ UNCHANGED <<blk, ino, off, logged>>

Next ==
  \/ ~panicked /\ \E i \in Inum, n \in 1 .. BSIZE : iappend(i, n)
  \/ ~panicked /\ mkfs_end
  \/ ~panicked /\ \E p \in Proc :
       \/ \E i \in Inum : open(p, i) \/ iput(p, i)
       \/ \E n \in Sizes : filewrite(p, n) \/ fileread(p, n)
       \/ filewrite_chunk(p) \/ writei(p) \/ writei_end(p) \/ itrunc(p)
  \/ panicked /\ UNCHANGED vars

Spec == Init /\ [][Next]_vars

-----------------------------------------------------------------------------
(***************************************************************************)
(* Properties.                                                             *)
(***************************************************************************)

TypeOK ==
  /\ used \subseteq 0 .. FSSIZE - 1
  /\ blk \in [Data -> [0 .. BSIZE - 1 -> Nat]]
  /\ size \in [Inum -> 0 .. MAXFILE * BSIZE]
  /\ addrs \in [Inum -> [0 .. NDIRECT -> {0} \cup Data]]
  /\ ino \in [Proc -> 0 .. NINODES] /\ off \in [Proc -> 0 .. MAXFILE * BSIZE]

\* itrunc is at work on inode i.
Truncating(i) == lock[i] # NoProc /\ th[lock[i]].pc = "itrunc"

\* The first place of inode i that itrunc has not yet passed.
From(i) == IF Truncating(i) THEN th[lock[i]].tot ELSE 0

\* The places where inode i has a block.
Held(i) == Left(i, From(i))

\* A block belongs to one place of one file at most, and the bitmap marks the blocks of
\* the files and the metadata and nothing else, whatever processes allocate and free
\* at the same time.
BitmapIsExact ==
  phase = "up" /\ ~panicked =>
    /\ used = (0 .. nmeta - 1) \cup UNION {{BlockAt(i, k) : k \in Held(i)} : i \in Inum}
    /\ \A i, j \in Inum : \A k \in Held(i), l \in Held(j) :
         BlockAt(i, k) = BlockAt(j, l) => i = j /\ k = l

\* What is read through bmap, direct and indirect, is what was written, byte for
\* byte: also for files of mkfs, for writes that begin or end inside a block, and
\* for blocks that other files have given back.
ContentIsFlat ==
  ~panicked =>
    \A i \in Inum \ {1} :
      lock[i] = NoProc => \A o \in 0 .. size[i] - 1 : ByteAt(i, o) = Mark(i, o)

\* Every block below the size of a file is mapped, so that bmap allocates nothing
\* when it is called by fileread, outside of any transaction.
ReadsAllocateNothing ==
  phase = "up" => \A i \in Inum : lock[i] = NoProc => \A o \in 0 .. size[i] - 1 : Mapped(i, o \div BSIZE) # 0

\* One chunk of filewrite fits into an empty log of mkfs, "including i-node,
\* indirect block, allocation blocks, and 2 blocks of slop".
ChunkFits == \A p \in Proc : Cardinality(logged[p]) <= LOGSIZE - 1

\* Every block is free, or metadata, or belongs to one place of one file, and no part of a
\* file is without a block.
BlocksAccounted == TypeOK /\ BitmapIsExact /\ ReadsAllocateNothing
=============================================================================
