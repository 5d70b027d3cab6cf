-------------------------- MODULE FileContentProofs --------------------------
(***************************************************************************)
(* Proofs about FileContent, for every number of processes, files and      *)
(* blocks, every block size and every size of the log.                     *)
(***************************************************************************)
EXTENDS FileContent, FiniteSetTheorems, WellFoundedInduction, TLAPS

(***************************************************************************)
(* Numbers.                                                                *)
(***************************************************************************)

\* A set of natural numbers has a least one.
LEMMA LeastOf ==
  ASSUME NEW S, S \subseteq Nat, S # {}
  PROVE  \E x \in S : \A y \in S : x <= y
  <1> DEFINE R == OpToRel(<, Nat)
  <1>1. \A x, y \in Nat : <<x, y>> \in R <=> x < y
    BY DEF OpToRel
  <1>2. IsWellFoundedOn(R, Nat)
    BY NatLessThanWellFounded
  <1> HIDE DEF R
  <1>3. PICK x \in S : \A y \in S : ~(<<y, x>> \in R)
    BY <1>2, WFMin
  <1>4. ASSUME NEW y \in S PROVE x <= y
    <2>1. x \in Nat /\ y \in Nat
      OBVIOUS
    <2>2. ~(<<y, x>> \in R)
      BY <1>3
    <2>3. ~(y < x)
      BY <1>1, <2>1, <2>2
    <2> QED
      BY <2>1, <2>3
  <1> QED
    BY <1>4

\* Division with a remainder.
LEMMA Euclid ==
  ASSUME NEW m \in Nat \ {0}, NEW a \in Nat
  PROVE  /\ a \div m \in Nat /\ a % m \in 0 .. m - 1
         /\ a = m * (a \div m) + (a % m)
  OBVIOUS

\* Products are monotonic.
LEMMA MulMono ==
  ASSUME NEW m \in Nat, NEW a \in Nat, NEW b \in Nat, a <= b
  PROVE  m * a <= m * b /\ a * m = m * a /\ b * m = m * b
  OBVIOUS

\* The quotient is the number of whole multiples.
LEMMA DivBound ==
  ASSUME NEW m \in Nat \ {0}, NEW a \in Nat, NEW b \in Nat
  PROVE  a < m * b <=> a \div m < b
  <1> DEFINE q == a \div m
             r == a % m
  <1>1. q \in Nat /\ r \in 0 .. m - 1 /\ a = m * q + r
    BY Euclid
  <1> HIDE DEF q, r
  <1>2. ASSUME q < b PROVE a < m * b
    <2>1. m * (q + 1) <= m * b
      BY <1>1, <1>2, MulMono
    <2>2. m * (q + 1) = m * q + m
      BY <1>1
    <2> QED
      BY <1>1, <2>1, <2>2
  <1>3. ASSUME b <= q PROVE ~(a < m * b)
    <2>1. m * b <= m * q
      BY <1>1, <1>3, MulMono
    <2> QED
      BY <1>1, <2>1
  <1> QED
    BY <1>1, <1>2, <1>3 DEF q

(***************************************************************************)
(* The inductive invariant.                                                *)
(***************************************************************************)

\* The blocks that are taken: mkfs counts them, later the bitmap marks them.
Marked == IF phase = "mkfs" THEN Image ELSE used

Call == [pc : {"user", "chunk", "writei", "itrunc"}, n : Nat, tot : Nat, n1 : Nat]

Typed ==
  /\ TypeOK
  /\ phase \in {"mkfs", "up"} /\ freeblock \in nmeta .. FSSIZE
  /\ lock \in [Inum -> Proc \cup {NoProc}]
  /\ th \in [Proc -> Call]
  /\ logged \in [Proc -> SUBSET (0 .. FSSIZE - 1)]

\* What a place of a file holds is the number of a data block, also when it is read from an
\* indirect block.
PlacesHoldBlocks == \A i \in Inum : \A k \in From(i) .. MAXFILE : BlockAt(i, k) \in {0} \cup Data

\* Two places never hold the same block.
PlacesDiffer ==
  \A i, j \in Inum : \A k \in Held(i), l \in Held(j) : BlockAt(i, k) = BlockAt(j, l) => i = j /\ k = l

\* The marked blocks are the metadata and what the files hold.
MarkedIsHeld ==
  /\ \A b \in 0 .. nmeta - 1 : b \in Marked
  /\ \A i \in Inum : \A k \in Held(i) : BlockAt(i, k) \in Marked
  /\ \A b \in Marked : b < nmeta \/ \E i \in Inum : \E k \in Held(i) : BlockAt(i, k) = b

\* mkfs works alone, on a disk of zeroes.
MkfsAlone ==
  phase = "mkfs" =>
    /\ \A i \in Inum : lock[i] = NoProc
    /\ \A b \in freeblock .. FSSIZE - 1 : blk[b] = Zeroes

\* Whoever writes or truncates a file has it locked; nobody has open what is truncated.
CallOK(p) ==
  LET t == th[p]
      i == ino[p]
  IN  /\ i # 1
      /\ t.pc \in {"chunk", "writei"} => i # 0
      /\ t.pc = "writei" =>
           /\ lock[i] = p
           /\ t.tot <= t.n1 /\ t.n1 <= t.n /\ t.n1 <= MaxChunk
           /\ off[p] <= size[i] /\ off[p] + t.n1 <= MAXFILE * BSIZE
      /\ t.pc = "itrunc" =>
           /\ t.n \in Inum \ {1} /\ lock[t.n] = p /\ t.tot <= MAXFILE + 1
           /\ \A q \in Proc : ino[q] # t.n

\* A lock has a holder that will release it.
LockOK(i) ==
  LET t == th[lock[i]]
  IN  lock[i] # NoProc => \/ t.pc = "writei" /\ ino[lock[i]] = i
                          \/ t.pc = "itrunc" /\ t.n = i

\* Offset o of file i is mapped.
HasByte(i, o) == Mapped(i, o \div BSIZE) # 0

\* It holds what was written there.
Right(i, o) == HasByte(i, o) /\ ByteAt(i, o) = Mark(i, o)

\* The root directory of mkfs does not end with a block.
RootEndsInside == ROOTSIZE % BSIZE # 0

\* The bytes of a file are right up to its size, and those of a chunk as far as writei is.
FilesFlat == \A i \in Inum \ {1} : ~Truncating(i) => \A o \in 0 .. size[i] - 1 : Right(i, o)
ChunksFlat ==
  \A p \in Proc : th[p].pc = "writei" => \A o \in off[p] .. off[p] + th[p].tot - 1 : Right(ino[p], o)
RootMapped == RootEndsInside => \A o \in 0 .. size[1] - 1 : HasByte(1, o)

\* A chunk has logged the blocks it has been through, the indirect block and the bitmap.
LoggedIs(p) ==
  LET t == th[p]
      i == ino[p]
  IN  t.pc = "writei" =>
        /\ t.tot = 0 => logged[p] = {}
        /\ 0 \notin logged[p]
        /\ \A b \in logged[p] :
             \/ b \in {bmapstart, addrs[i][NDIRECT]}
             \/ \E k \in (off[p] \div BSIZE) .. ((off[p] + t.tot - 1) \div BSIZE) : b = Mapped(i, k)

ContentInv ==
  /\ Typed
  /\ PlacesHoldBlocks /\ PlacesDiffer /\ MarkedIsHeld
  /\ MkfsAlone
  /\ \A p \in Proc : CallOK(p)
  /\ \A i \in Inum : LockOK(i)
  /\ FilesFlat /\ ChunksFlat /\ RootMapped
  /\ \A p \in Proc : LoggedIs(p)
  /\ ChunkFits

-----------------------------------------------------------------------------
(***************************************************************************)
(* Numbers.                                                                *)
(***************************************************************************)

\* The layout of the disk.
LEMMA Layout ==
  /\ BSIZE \in Nat \ {0} /\ NDIRECT \in Nat /\ NINDIRECT = BSIZE
  /\ MAXFILE \in Nat \ {0} /\ MAXFILE = NDIRECT + BSIZE
  /\ nmeta \in Nat \ {0} /\ FSSIZE \in Nat /\ nmeta <= FSSIZE
  /\ Data = nmeta .. FSSIZE - 1 /\ 0 \notin Data /\ Data \subseteq Nat
  /\ bmapstart \in 0 .. nmeta - 1
  /\ \A i \in Inum : IBLOCK(i) \in 0 .. nmeta - 1
  /\ 1 \in Inum /\ Inum \subseteq Nat \ {0}
  <1>1. NINODES \in Nat \ {0} /\ BSIZE \in Nat \ {0} /\ NDIRECT \in Nat /\ NDATA \in Nat
        /\ IPB \in Nat \ {0} /\ LOGSIZE \in Nat /\ LOGSIZE >= 6
    BY FileContentAssumption
  <1>2. NINODES \div IPB \in Nat
    BY <1>1, Euclid
  <1>3. inodestart \in Nat /\ inodestart >= 8
    BY <1>1 DEF inodestart
  <1>4. bmapstart \in Nat /\ bmapstart = inodestart + NINODES \div IPB + 1 /\ nmeta = bmapstart + 1
    BY <1>2, <1>3 DEF bmapstart, nmeta
  <1>5. ASSUME NEW i \in Inum PROVE IBLOCK(i) \in 0 .. nmeta - 1
    <2>1. i \in Nat /\ i <= NINODES
      BY <1>1 DEF Inum
    <2> DEFINE q == NINODES \div IPB
               d == i \div IPB
    <2>2. q \in Nat /\ d \in Nat /\ NINODES % IPB \in 0 .. IPB - 1
          /\ NINODES = IPB * q + (NINODES % IPB)
      BY <1>1, <2>1, Euclid
    <2> HIDE DEF d
    <2>3. i < IPB * (q + 1)
      <3>1. IPB * (q + 1) = IPB * q + IPB
        BY <1>1, <2>2
      <3> QED
        BY <1>1, <2>1, <2>2, <3>1
    <2>4. d < q + 1
      BY <1>1, <2>1, <2>2, <2>3, DivBound DEF d
    <2> QED
      BY <1>3, <1>4, <2>2, <2>4 DEF IBLOCK, d
  <1>6. Data = nmeta .. FSSIZE - 1 /\ FSSIZE = nmeta + NDATA
    BY DEF Data, FSSIZE
  <1>7. NINDIRECT = BSIZE /\ MAXFILE = NDIRECT + BSIZE
    BY DEF NINDIRECT, MAXFILE
  <1>8. 1 \in Inum /\ Inum \subseteq Nat \ {0}
    BY <1>1 DEF Inum
  <1> QED
    BY <1>1, <1>3, <1>4, <1>5, <1>6, <1>7, <1>8

\* Blocks and bytes of an offset.
LEMMA Offset ==
  ASSUME NEW o \in Nat
  PROVE  /\ o \div BSIZE \in Nat /\ o % BSIZE \in 0 .. BSIZE - 1
         /\ o = BSIZE * (o \div BSIZE) + (o % BSIZE)
         /\ o < MAXFILE * BSIZE => o \div BSIZE \in 0 .. MAXFILE - 1
  <1>1. BSIZE \in Nat \ {0} /\ MAXFILE \in Nat
    BY Layout
  <1>2. /\ o \div BSIZE \in Nat /\ o % BSIZE \in 0 .. BSIZE - 1
        /\ o = BSIZE * (o \div BSIZE) + (o % BSIZE)
    BY <1>1, Euclid
  <1>3. MAXFILE * BSIZE = BSIZE * MAXFILE
    BY <1>1
  <1>4. o < BSIZE * MAXFILE <=> o \div BSIZE < MAXFILE
    BY <1>1, DivBound
  <1> QED
    BY <1>1, <1>2, <1>3, <1>4

\* Offsets in the same block differ as their places in it do.
LEMMA InBlock ==
  ASSUME NEW o \in Nat, NEW x \in Nat, x \div BSIZE = o \div BSIZE
  PROVE  x - o = (x % BSIZE) - (o % BSIZE) /\ o - (o % BSIZE) + (x % BSIZE) = x
  <1> DEFINE q == o \div BSIZE
             r == o % BSIZE
             s == x % BSIZE
             m == BSIZE * q
  <1>a. BSIZE \in Nat \ {0}
    BY Layout
  <1>b. q \in Nat /\ r \in 0 .. BSIZE - 1 /\ s \in 0 .. BSIZE - 1
    BY Offset
  <1>0. q \in Nat /\ BSIZE \in Nat /\ r \in Int /\ s \in Int
    BY <1>a, <1>b
  <1>1. m \in Int /\ r \in Int /\ s \in Int /\ o = m + r
    BY <1>0, Offset
  <1>2. x = m + s
    BY Offset
  <1> HIDE DEF m, r, s
  <1>3. x - o = s - r /\ o - r + s = x
    BY <1>1, <1>2
  <1> QED
    BY <1>3 DEF r, s

\* The offsets up to the end of a block are in it.
LEMMA SameBlock ==
  ASSUME NEW o \in Nat, NEW x \in Nat, o <= x, x < o + (BSIZE - (o % BSIZE))
  PROVE  x \div BSIZE = o \div BSIZE
  <1> DEFINE q == o \div BSIZE
             r == o % BSIZE
             d == x \div BSIZE
  <1>0. BSIZE \in Nat \ {0}
    BY Layout
  <1>1. q \in Nat /\ r \in 0 .. BSIZE - 1 /\ d \in Nat /\ o = BSIZE * q + r
    BY Offset
  <1>2. x < o + (BSIZE - r)
    OBVIOUS
  <1>3. BSIZE * (q + 1) = BSIZE * q + BSIZE
    BY <1>0, <1>1
  <1>4. x < BSIZE * (q + 1) <=> d < q + 1
    BY <1>0, <1>1, DivBound
  <1>5. x < BSIZE * q <=> d < q
    BY <1>0, <1>1, DivBound
  <1> HIDE DEF q, r, d
  <1>6. BSIZE * q \in Nat
    BY <1>0, <1>1
  <1>7. d < q + 1 /\ ~(d < q)
    BY <1>0, <1>1, <1>2, <1>3, <1>4, <1>5, <1>6
  <1> QED
    BY <1>1, <1>7 DEF q, d

\* The least element.
LEMMA MinOf ==
  ASSUME NEW S, S \subseteq Nat, S # {}
  PROVE  Min(S) \in S /\ \A y \in S : Min(S) <= y
  <1>1. \E x \in S : \A y \in S : x <= y
    BY LeastOf
  <1> QED
    BY <1>1 DEF Min

\* The smaller one of two numbers.
LEMMA MinTwo ==
  ASSUME NEW a \in Nat, NEW b \in Nat
  PROVE  Min({a, b}) = IF a <= b THEN a ELSE b
  <1>1. Min({a, b}) \in {a, b} /\ \A y \in {a, b} : Min({a, b}) <= y
    BY MinOf
  <1> QED
    BY <1>1

\* The greater one of two numbers.
LEMMA MaxTwo ==
  ASSUME NEW a \in Nat, NEW b \in Nat
  PROVE  Max({a, b}) = IF a <= b THEN b ELSE a
  <1>1. \E x \in {a, b} : \A y \in {a, b} : x >= y
    OBVIOUS
  <1>2. Max({a, b}) \in {a, b} /\ \A y \in {a, b} : Max({a, b}) >= y
    BY <1>1 DEF Max
  <1> QED
    BY <1>2

-----------------------------------------------------------------------------
(***************************************************************************)
(* bmap, in mkfs and in the kernel: the block of place bn of inode i is    *)
(* addr, the indirect block is ind.                                        *)
(***************************************************************************)

\* A block that is not there yet comes from the unmarked ones.
Fetched(i, bn, addr, ind) ==
  /\ addr \in Data
  /\ Mapped(i, bn) # 0 => addr = Mapped(i, bn)
  /\ Mapped(i, bn) = 0 => addr \notin Marked
  /\ Indirect(bn) =>
       /\ ind \in Data /\ ind # addr
       /\ addrs[i][NDIRECT] # 0 => ind = addrs[i][NDIRECT]
       /\ addrs[i][NDIRECT] = 0 => ind \notin Marked

\* The blocks that are new.
Fresh(i, bn, addr, ind) ==
  {b \in Data : \/ b = addr /\ Mapped(i, bn) = 0
                \/ b = ind /\ Indirect(bn) /\ addrs[i][NDIRECT] = 0}

\* A new block is zero.
Zeroed(i, bn, addr, ind, b) == IF b \in Fresh(i, bn, addr, ind) THEN Zeroes ELSE blk[b]

\* The addresses are entered, and m bytes are written from offset o on.
MapStep(i, bn, addr, ind, o, m) ==
  /\ addrs' = IF Indirect(bn) THEN [addrs EXCEPT ![i][NDIRECT] = ind]
              ELSE [addrs EXCEPT ![i][bn] = addr]
  /\ blk' = [b \in Data |->
               IF b = addr THEN Written(Zeroed(i, bn, addr, ind, b), i, o, m)
               ELSE IF b = ind /\ Indirect(bn)
                    THEN [Zeroed(i, bn, addr, ind, b) EXCEPT ![bn - NDIRECT] = addr]
                    ELSE Zeroed(i, bn, addr, ind, b)]
  /\ Marked' = Marked \cup Fresh(i, bn, addr, ind)
  /\ lock' = lock
  /\ \A j \in Inum : (Truncating(j)' <=> Truncating(j)) /\ From(j)' = From(j)

\* Place k of inode j stays as it is.
Elsewhere(i, bn, j, k) == ~(j = i /\ (k = bn \/ (Indirect(bn) /\ k = MAXFILE)))

\* The types of blocks and addresses.
Tables ==
  /\ blk \in [Data -> [0 .. BSIZE - 1 -> Nat]]
  /\ addrs \in [Inum -> [0 .. NDIRECT -> {0} \cup Data]]

\* Blocks in use: what the proofs about bmap need of the invariant.
BlocksInv == Tables /\ PlacesHoldBlocks /\ PlacesDiffer /\ MarkedIsHeld /\ \A i \in Inum : From(i) \in Nat

\* The block of a place is held if there is one.
LEMMA HeldIs ==
  ASSUME NEW i \in Inum, NEW k, From(i) \in Nat
  PROVE  k \in Held(i) <=> k \in From(i) .. MAXFILE /\ BlockAt(i, k) # 0
  BY DEF Held, Left

\* Where the address of a place is.
LEMMA AtPlace ==
  ASSUME NEW i \in Inum, NEW k \in 0 .. MAXFILE
  PROVE  BlockAt(i, k) = IF k = MAXFILE THEN addrs[i][NDIRECT]
                         ELSE IF k < NDIRECT THEN addrs[i][k]
                         ELSE IF addrs[i][NDIRECT] = 0 THEN 0 ELSE blk[addrs[i][NDIRECT]][k - NDIRECT]
  <1>1. NDIRECT \in Nat /\ k \in Nat
    BY Layout
  <1> QED
    BY <1>1 DEF BlockAt, Mapped, Indirect

\* The blocks of other places are neither new nor changed by the step.
LEMMA OtherBlock ==
  ASSUME BlocksInv, NEW i \in Inum, From(i) = 0, NEW bn \in 0 .. MAXFILE - 1, NEW addr, NEW ind,
         Fetched(i, bn, addr, ind), NEW o, NEW m, MapStep(i, bn, addr, ind, o, m),
         NEW j \in Inum, NEW k \in Held(j), Elsewhere(i, bn, j, k)
  PROVE  /\ BlockAt(j, k) \in Data /\ BlockAt(j, k) # addr /\ (Indirect(bn) => BlockAt(j, k) # ind)
         /\ blk'[BlockAt(j, k)] = blk[BlockAt(j, k)]
  <1>0. From(j) \in Nat /\ MAXFILE \in Nat /\ NDIRECT \in Nat /\ NDIRECT <= MAXFILE
    BY Layout DEF BlocksInv
  <1>1. k \in From(j) .. MAXFILE /\ BlockAt(j, k) # 0
    BY <1>0, HeldIs
  <1>2. BlockAt(j, k) \in Data /\ BlockAt(j, k) \in Marked
    BY <1>1 DEF BlocksInv, PlacesHoldBlocks, MarkedIsHeld
  <1>3. BlockAt(j, k) # addr
    <2>1. CASE Mapped(i, bn) = 0
      BY <1>2, <2>1 DEF Fetched
    <2>2. CASE Mapped(i, bn) # 0
      <3>1. addr = BlockAt(i, bn) /\ BlockAt(i, bn) # 0
        BY <1>0, <2>2 DEF Fetched, BlockAt
      <3>2. bn \in Held(i)
        BY <1>0, <3>1, HeldIs
      <3> QED
        BY <3>1, <3>2 DEF BlocksInv, PlacesDiffer, Elsewhere
    <2> QED
      BY <2>1, <2>2
  <1>4. ASSUME Indirect(bn) PROVE BlockAt(j, k) # ind
    <2>1. CASE addrs[i][NDIRECT] = 0
      BY <1>2, <1>4, <2>1 DEF Fetched
    <2>2. CASE addrs[i][NDIRECT] # 0
      <3>1. ind = BlockAt(i, MAXFILE) /\ BlockAt(i, MAXFILE) # 0
        BY <1>4, <2>2 DEF Fetched, BlockAt
      <3>2. MAXFILE \in Held(i)
        BY <1>0, <3>1, HeldIs
      <3> QED
        BY <1>4, <3>1, <3>2 DEF BlocksInv, PlacesDiffer, Elsewhere
    <2> QED
      BY <2>1, <2>2
  <1>5. BlockAt(j, k) \notin Fresh(i, bn, addr, ind)
    BY <1>2, <1>3, <1>4 DEF Fresh
  <1>6. blk'[BlockAt(j, k)] = blk[BlockAt(j, k)]
    BY <1>2, <1>3, <1>4, <1>5 DEF MapStep, Zeroed
  <1> QED
    BY <1>2, <1>3, <1>4, <1>6

\* After the step the place holds addr and the others what they held.
LEMMA PlacesAfter ==
  ASSUME BlocksInv, NEW i \in Inum, From(i) = 0, NEW bn \in 0 .. MAXFILE - 1, NEW addr, NEW ind,
         Fetched(i, bn, addr, ind), NEW o, NEW m, MapStep(i, bn, addr, ind, o, m)
  PROVE  /\ BlockAt(i, bn)' = addr
         /\ Indirect(bn) => BlockAt(i, MAXFILE)' = ind
         /\ \A j \in Inum : \A k \in From(j) .. MAXFILE :
              Elsewhere(i, bn, j, k) => BlockAt(j, k)' = BlockAt(j, k)
  <1>0. /\ MAXFILE \in Nat /\ NDIRECT \in Nat /\ BSIZE \in Nat \ {0} /\ MAXFILE = NDIRECT + BSIZE
        /\ 0 \notin Data /\ bn \in Nat /\ bn < MAXFILE
    BY Layout
  <1>t. /\ blk \in [Data -> [0 .. BSIZE - 1 -> Nat]]
        /\ addrs \in [Inum -> [0 .. NDIRECT -> {0} \cup Data]]
    BY DEF BlocksInv, Tables
  <1>s. \A b \in Data : Zeroed(i, bn, addr, ind, b) \in [0 .. BSIZE - 1 -> Nat]
    BY <1>t DEF Zeroed, Zeroes
  <1>a. /\ addrs' = IF Indirect(bn) THEN [addrs EXCEPT ![i][NDIRECT] = ind]
                    ELSE [addrs EXCEPT ![i][bn] = addr]
        /\ \A b \in Data : b # addr =>
             blk'[b] = IF b = ind /\ Indirect(bn)
                       THEN [Zeroed(i, bn, addr, ind, b) EXCEPT ![bn - NDIRECT] = addr]
                       ELSE Zeroed(i, bn, addr, ind, b)
    BY DEF MapStep
  <1>i. Indirect(bn) <=> bn >= NDIRECT
    BY DEF Indirect
  <1>p. \A j \in Inum, k \in 0 .. MAXFILE :
          BlockAt(j, k)' = IF k = MAXFILE THEN addrs'[j][NDIRECT]
                           ELSE IF k < NDIRECT THEN addrs'[j][k]
                           ELSE IF addrs'[j][NDIRECT] = 0 THEN 0
                           ELSE blk'[addrs'[j][NDIRECT]][k - NDIRECT]
    <2> SUFFICES ASSUME NEW j \in Inum, NEW k \in 0 .. MAXFILE
                 PROVE  BlockAt(j, k)' = IF k = MAXFILE THEN addrs'[j][NDIRECT]
                           ELSE IF k < NDIRECT THEN addrs'[j][k]
                           ELSE IF addrs'[j][NDIRECT] = 0 THEN 0
                           ELSE blk'[addrs'[j][NDIRECT]][k - NDIRECT]
      OBVIOUS
    <2> QED
      BY <1>0 DEF BlockAt, Mapped, Indirect
  <1>1. CASE ~Indirect(bn)
    <2>1. bn < NDIRECT /\ addrs' = [addrs EXCEPT ![i][bn] = addr]
      BY <1>0, <1>1, <1>a, <1>i
    <2>2. BlockAt(i, bn)' = addr
      BY <1>0, <1>t, <1>p, <2>1
    <2>3. ASSUME NEW j \in Inum, NEW k \in From(j) .. MAXFILE, Elsewhere(i, bn, j, k)
          PROVE  BlockAt(j, k)' = BlockAt(j, k)
      <3>0. From(j) \in Nat /\ k \in 0 .. MAXFILE
        BY <1>0 DEF BlocksInv
      <3>1. addrs'[j][NDIRECT] = addrs[j][NDIRECT] /\ (k < NDIRECT => addrs'[j][k] = addrs[j][k])
        BY <1>0, <1>t, <2>1, <2>3, <3>0 DEF Elsewhere
      <3>2. CASE k = MAXFILE \/ k < NDIRECT \/ addrs[j][NDIRECT] = 0
        BY <1>p, <3>0, <3>1, <3>2, AtPlace
      <3>3. CASE ~(k = MAXFILE \/ k < NDIRECT \/ addrs[j][NDIRECT] = 0)
        <4>1. MAXFILE \in From(j) .. MAXFILE /\ BlockAt(j, MAXFILE) = addrs[j][NDIRECT]
          BY <1>0, <3>0 DEF BlockAt
        <4>2. MAXFILE \in Held(j)
          BY <3>0, <3>3, <4>1, HeldIs
        <4>3. blk'[addrs[j][NDIRECT]] = blk[addrs[j][NDIRECT]]
          <5>1. Elsewhere(i, bn, j, MAXFILE)
            BY <1>0, <1>1 DEF Elsewhere
          <5> QED
            BY <4>1, <4>2, <5>1, OtherBlock
        <4> QED
          BY <1>p, <3>0, <3>1, <3>3, <4>3, AtPlace
      <3> QED
        BY <3>2, <3>3
    <2> QED
      BY <1>1, <2>2, <2>3
  <1>2. CASE Indirect(bn)
    <2>1. NDIRECT <= bn /\ addrs' = [addrs EXCEPT ![i][NDIRECT] = ind]
      BY <1>2, <1>a, <1>i
    <2>a. ind \in Data /\ ind # addr /\ addr \in Data
      BY <1>2 DEF Fetched
    <2>2. addrs'[i][NDIRECT] = ind /\ ind # 0
      BY <1>0, <1>t, <2>1, <2>a
    <2>3. blk'[ind] = [Zeroed(i, bn, addr, ind, ind) EXCEPT ![bn - NDIRECT] = addr]
      BY <1>2, <1>a, <2>a
    <2>4. BlockAt(i, bn)' = addr
      <3>1. bn - NDIRECT \in 0 .. BSIZE - 1
        BY <1>0, <2>1
      <3>2. blk'[ind][bn - NDIRECT] = addr
        BY <1>s, <2>a, <2>3, <3>1
      <3>3. BlockAt(i, bn)' = blk'[ind][bn - NDIRECT]
        BY <1>0, <1>p, <2>1, <2>2
      <3> QED
        BY <3>2, <3>3
    <2>5. BlockAt(i, MAXFILE)' = ind
      BY <1>0, <1>p, <2>2
    <2>6. ASSUME NEW j \in Inum, NEW k \in From(j) .. MAXFILE, Elsewhere(i, bn, j, k)
          PROVE  BlockAt(j, k)' = BlockAt(j, k)
      <3>0. From(j) \in Nat /\ k \in 0 .. MAXFILE
        BY <1>0 DEF BlocksInv
      <3>1. CASE j # i
        <4>1. addrs'[j] = addrs[j]
          BY <1>t, <2>1, <3>1
        <4>2. CASE k = MAXFILE \/ k < NDIRECT \/ addrs[j][NDIRECT] = 0
          BY <1>p, <3>0, <4>1, <4>2, AtPlace
        <4>3. CASE ~(k = MAXFILE \/ k < NDIRECT \/ addrs[j][NDIRECT] = 0)
          <5>1. MAXFILE \in From(j) .. MAXFILE /\ BlockAt(j, MAXFILE) = addrs[j][NDIRECT]
            BY <1>0, <3>0 DEF BlockAt
          <5>2. MAXFILE \in Held(j)
            BY <3>0, <4>3, <5>1, HeldIs
          <5>3. Elsewhere(i, bn, j, MAXFILE)
            BY <3>1 DEF Elsewhere
          <5>4. blk'[addrs[j][NDIRECT]] = blk[addrs[j][NDIRECT]]
            BY <5>1, <5>2, <5>3, OtherBlock
          <5> QED
            BY <1>p, <3>0, <4>1, <4>3, <5>4, AtPlace
        <4> QED
          BY <4>2, <4>3
      <3>2. CASE j = i
        <4>1. k # bn /\ k # MAXFILE
          BY <1>2, <2>6, <3>2 DEF Elsewhere
        <4>2. CASE k < NDIRECT
          <5>1. addrs'[i][k] = addrs[i][k]
            BY <1>0, <1>t, <2>1, <3>0, <4>2
          <5> QED
            BY <1>p, <3>0, <3>2, <4>1, <4>2, <5>1, AtPlace
        <4>3. CASE ~(k < NDIRECT)
          <5>1. k - NDIRECT \in 0 .. BSIZE - 1 /\ k - NDIRECT # bn - NDIRECT
            BY <1>0, <3>0, <4>1, <4>3
          <5>2. BlockAt(i, k)' = blk'[ind][k - NDIRECT]
            BY <1>p, <2>2, <3>0, <4>1, <4>3
          <5>3. blk'[ind][k - NDIRECT] = Zeroed(i, bn, addr, ind, ind)[k - NDIRECT]
            BY <1>s, <2>a, <2>3, <5>1
          <5>4. CASE addrs[i][NDIRECT] = 0
            <6>1. ind \in Fresh(i, bn, addr, ind)
              BY <1>2, <2>a, <5>4 DEF Fresh
            <6>2. Zeroed(i, bn, addr, ind, ind)[k - NDIRECT] = 0
              BY <5>1, <6>1 DEF Zeroed, Zeroes
            <6> QED
              BY <3>0, <3>2, <4>1, <4>3, <5>2, <5>3, <5>4, <6>2, AtPlace
          <5>5. CASE addrs[i][NDIRECT] # 0
            <6>1. ind = addrs[i][NDIRECT]
              BY <1>2, <5>5 DEF Fetched
            <6>2. ind \notin Fresh(i, bn, addr, ind)
              BY <2>a, <5>5 DEF Fresh
            <6>3. Zeroed(i, bn, addr, ind, ind) = blk[ind]
              BY <6>2 DEF Zeroed
            <6> QED
              BY <3>0, <3>2, <4>1, <4>3, <5>2, <5>3, <5>5, <6>1, <6>3, AtPlace
          <5> QED
            BY <5>4, <5>5
        <4> QED
          BY <4>2, <4>3
      <3> QED
        BY <3>1, <3>2
    <2> QED
      BY <2>4, <2>5, <2>6
  <1> QED
    BY <1>1, <1>2

\* The step keeps what the blocks in use satisfy.
LEMMA MapBlocks ==
  ASSUME BlocksInv, NEW i \in Inum, From(i) = 0, NEW bn \in 0 .. MAXFILE - 1, NEW addr, NEW ind,
         Fetched(i, bn, addr, ind), NEW o \in Nat, NEW m, MapStep(i, bn, addr, ind, o, m)
  PROVE  BlocksInv'
  <1>0. /\ MAXFILE \in Nat /\ NDIRECT \in Nat /\ BSIZE \in Nat \ {0} /\ MAXFILE = NDIRECT + BSIZE
        /\ 0 \notin Data /\ bn \in Nat /\ bn < MAXFILE /\ bn # MAXFILE /\ Data \subseteq Nat
    BY Layout
  <1>f. \A j \in Inum : From(j)' = From(j) /\ From(j) \in Nat
    BY DEF MapStep, BlocksInv
  <1>a. addr \in Data /\ (Indirect(bn) => ind \in Data /\ ind # addr)
    BY DEF Fetched
  <1>1. BlockAt(i, bn)' = addr /\ (Indirect(bn) => BlockAt(i, MAXFILE)' = ind)
    BY PlacesAfter
  <1>2. \A j \in Inum : \A k \in From(j) .. MAXFILE :
          Elsewhere(i, bn, j, k) => BlockAt(j, k)' = BlockAt(j, k)
    BY PlacesAfter
  <1>3. \A j \in Inum : \A k : k \in Held(j)' <=> k \in From(j) .. MAXFILE /\ BlockAt(j, k)' # 0
    BY <1>f DEF Held, Left
  <1>4. \A j \in Inum : \A k : Elsewhere(i, bn, j, k) => (k \in Held(j)' <=> k \in Held(j))
    BY <1>f, <1>2, <1>3, HeldIs
  <1>5. \A j \in Inum, k \in Nat :
          Elsewhere(i, bn, j, k) \/ (j = i /\ k = bn) \/ (Indirect(bn) /\ j = i /\ k = MAXFILE)
    BY DEF Elsewhere
  <1>6. bn \in Held(i)' /\ (Indirect(bn) => MAXFILE \in Held(i)')
    BY <1>0, <1>f, <1>a, <1>1, <1>3
  <1>7. \A j \in Inum : \A k \in Held(j)' : k \in From(j) .. MAXFILE /\ k \in Nat
    BY <1>0, <1>f, <1>3
  <1>8. Tables'
    <2>1. /\ blk \in [Data -> [0 .. BSIZE - 1 -> Nat]]
          /\ addrs \in [Inum -> [0 .. NDIRECT -> {0} \cup Data]]
      BY DEF BlocksInv, Tables
    <2>2. addrs' \in [Inum -> [0 .. NDIRECT -> {0} \cup Data]]
      <3>1. CASE Indirect(bn)
        BY <1>0, <1>a, <2>1, <3>1 DEF MapStep
      <3>2. CASE ~Indirect(bn)
        BY <1>0, <1>a, <2>1, <3>2 DEF MapStep, Indirect
      <3> QED
        BY <3>1, <3>2
    <2>3. \A b \in Data : Zeroed(i, bn, addr, ind, b) \in [0 .. BSIZE - 1 -> Nat]
      BY <2>1 DEF Zeroed, Zeroes
    <2>4. ASSUME NEW z \in [0 .. BSIZE - 1 -> Nat] PROVE Written(z, i, o, m) \in [0 .. BSIZE - 1 -> Nat]
      <3> SUFFICES ASSUME NEW k \in 0 .. BSIZE - 1 PROVE Mark(i, o - (o % BSIZE) + k) \in Nat
        BY <2>4 DEF Written
      <3>1. o - (o % BSIZE) \in Nat
        <4>1. o \div BSIZE \in Nat /\ o % BSIZE \in 0 .. BSIZE - 1 /\ o = BSIZE * (o \div BSIZE) + (o % BSIZE)
          BY Offset
        <4>2. BSIZE * (o \div BSIZE) \in Nat
          BY <1>0, <4>1
        <4> QED
          BY <1>0, <4>1, <4>2
      <3>2. i \in Nat /\ k \in Nat
        BY <1>0, Layout
      <3> QED
        BY <3>1, <3>2 DEF Mark
    <2>5. ASSUME NEW b \in Data
          PROVE  (IF b = addr THEN Written(Zeroed(i, bn, addr, ind, b), i, o, m)
               ELSE IF b = ind /\ Indirect(bn)
                    THEN [Zeroed(i, bn, addr, ind, b) EXCEPT ![bn - NDIRECT] = addr]
                    ELSE Zeroed(i, bn, addr, ind, b)) \in [0 .. BSIZE - 1 -> Nat]
      BY <1>0, <1>a, <2>3, <2>4
    <2>6. blk' \in [Data -> [0 .. BSIZE - 1 -> Nat]]
      BY <2>5 DEF MapStep
    <2> QED
      BY <2>2, <2>6 DEF Tables
  <1>9. PlacesHoldBlocks'
    <2> SUFFICES ASSUME NEW j \in Inum, NEW k \in From(j) .. MAXFILE
                 PROVE  BlockAt(j, k)' \in {0} \cup Data
      BY <1>f DEF PlacesHoldBlocks
    <2>1. CASE Elsewhere(i, bn, j, k)
      BY <1>2, <2>1 DEF BlocksInv, PlacesHoldBlocks
    <2>2. CASE ~Elsewhere(i, bn, j, k)
      BY <1>a, <1>1, <2>2 DEF Elsewhere
    <2> QED
      BY <2>1, <2>2
  <1>10. PlacesDiffer'
    <2> SUFFICES ASSUME NEW x \in Inum, NEW j \in Inum, NEW k \in Held(x)', NEW l \in Held(j)',
                        BlockAt(x, k)' = BlockAt(j, l)'
                 PROVE  x = j /\ k = l
      BY DEF PlacesDiffer
    <2>1. CASE Elsewhere(i, bn, x, k) /\ Elsewhere(i, bn, j, l)
      <3>1. k \in Held(x) /\ l \in Held(j)
        BY <1>4, <2>1
      <3>2. BlockAt(x, k) = BlockAt(j, l)
        BY <1>2, <1>7, <2>1
      <3> QED
        BY <3>1, <3>2 DEF BlocksInv, PlacesDiffer
    <2>2. CASE Elsewhere(i, bn, x, k) /\ ~Elsewhere(i, bn, j, l)
      <3>1. k \in Held(x) /\ BlockAt(x, k)' = BlockAt(x, k)
        BY <1>2, <1>4, <1>7, <2>2
      <3>2. BlockAt(x, k) # addr /\ (Indirect(bn) => BlockAt(x, k) # ind)
        BY <2>2, <3>1, OtherBlock
      <3>3. BlockAt(j, l)' = addr \/ (Indirect(bn) /\ BlockAt(j, l)' = ind)
        BY <1>1, <2>2 DEF Elsewhere
      <3> QED
        BY <3>1, <3>2, <3>3
    <2>3. CASE ~Elsewhere(i, bn, x, k) /\ Elsewhere(i, bn, j, l)
      <3>1. l \in Held(j) /\ BlockAt(j, l)' = BlockAt(j, l)
        BY <1>2, <1>4, <1>7, <2>3
      <3>2. BlockAt(j, l) # addr /\ (Indirect(bn) => BlockAt(j, l) # ind)
        BY <2>3, <3>1, OtherBlock
      <3>3. BlockAt(x, k)' = addr \/ (Indirect(bn) /\ BlockAt(x, k)' = ind)
        BY <1>1, <2>3 DEF Elsewhere
      <3> QED
        BY <3>1, <3>2, <3>3
    <2>4. CASE ~Elsewhere(i, bn, x, k) /\ ~Elsewhere(i, bn, j, l)
      BY <1>a, <1>1, <2>4 DEF Elsewhere
    <2> QED
      BY <2>1, <2>2, <2>3, <2>4
  <1>11. MarkedIsHeld'
    <2>m. Marked' = Marked \cup Fresh(i, bn, addr, ind)
      BY DEF MapStep
    <2>o. /\ \A b \in 0 .. nmeta - 1 : b \in Marked
          /\ \A j \in Inum : \A k \in Held(j) : BlockAt(j, k) \in Marked
          /\ \A b \in Marked : b < nmeta \/ \E j \in Inum : \E k \in Held(j) : BlockAt(j, k) = b
      BY DEF BlocksInv, MarkedIsHeld
    <2>1. addr \in Marked'
      <3>1. CASE Mapped(i, bn) = 0
        BY <1>a, <2>m, <3>1 DEF Fresh
      <3>2. CASE Mapped(i, bn) # 0
        <4>1. BlockAt(i, bn) = addr /\ BlockAt(i, bn) # 0
          BY <1>0, <3>2 DEF Fetched, BlockAt
        <4>2. bn \in Held(i)
          BY <1>0, <4>1, HeldIs
        <4> QED
          BY <2>m, <2>o, <4>1, <4>2
      <3> QED
        BY <3>1, <3>2
    <2>2. Indirect(bn) => ind \in Marked'
      <3>1. CASE Indirect(bn) /\ addrs[i][NDIRECT] = 0
        BY <1>a, <2>m, <3>1 DEF Fresh
      <3>2. CASE Indirect(bn) /\ addrs[i][NDIRECT] # 0
        <4>1. BlockAt(i, MAXFILE) = ind /\ BlockAt(i, MAXFILE) # 0
          BY <1>0, <3>2 DEF Fetched, BlockAt
        <4>2. MAXFILE \in Held(i)
          BY <1>0, <4>1, HeldIs
        <4> QED
          BY <2>m, <2>o, <4>1, <4>2
      <3> QED
        BY <3>1, <3>2
    <2>3. ASSUME NEW j \in Inum, NEW k \in Held(j)' PROVE BlockAt(j, k)' \in Marked'
      <3>1. CASE Elsewhere(i, bn, j, k)
        BY <1>2, <1>4, <1>7, <2>m, <2>o, <2>3, <3>1
      <3>2. CASE ~Elsewhere(i, bn, j, k)
        BY <1>1, <2>1, <2>2, <3>2 DEF Elsewhere
      <3> QED
        BY <3>1, <3>2
    <2>4. ASSUME NEW b \in Marked', ~(b < nmeta) PROVE \E j \in Inum : \E k \in Held(j)' : BlockAt(j, k)' = b
      <3>1. CASE b \in Fresh(i, bn, addr, ind)
        BY <1>1, <1>6, <3>1 DEF Fresh
      <3>2. CASE b \in Marked
        <4>0. PICK j \in Inum : \E k \in Held(j) : BlockAt(j, k) = b
          BY <2>4, <2>o, <3>2
        <4>1. PICK k \in Held(j) : BlockAt(j, k) = b
          BY <4>0
        <4>2. k \in From(j) .. MAXFILE /\ k \in Nat /\ b # 0
          BY <1>0, <1>f, <4>1, HeldIs
        <4>3. CASE Elsewhere(i, bn, j, k)
          BY <1>2, <1>4, <4>1, <4>2, <4>3
        <4>4. CASE j = i /\ k = bn
          <5>1. addr = b
            BY <1>0, <4>1, <4>2, <4>4 DEF Fetched, BlockAt
          <5> QED
            BY <1>1, <1>6, <5>1
        <4>5. CASE Indirect(bn) /\ j = i /\ k = MAXFILE
          <5>1. ind = b
            BY <4>1, <4>2, <4>5 DEF Fetched, BlockAt
          <5> QED
            BY <1>1, <1>6, <4>5, <5>1
        <4> QED
          BY <1>5, <4>2, <4>3, <4>4, <4>5
      <3> QED
        BY <2>m, <3>1, <3>2
    <2>5. \A b \in 0 .. nmeta - 1 : b \in Marked'
      BY <2>m, <2>o
    <2> QED
      BY <2>3, <2>4, <2>5 DEF MarkedIsHeld
  <1> QED
    BY <1>f, <1>8, <1>9, <1>10, <1>11 DEF BlocksInv

\* The step writes its bytes and keeps all others.
LEMMA MapBytes ==
  ASSUME BlocksInv, NEW i \in Inum, From(i) = 0, NEW bn \in 0 .. MAXFILE - 1, NEW addr, NEW ind,
         Fetched(i, bn, addr, ind), NEW o \in Nat, o \div BSIZE = bn, NEW m \in Nat,
         m <= BSIZE - (o % BSIZE), MapStep(i, bn, addr, ind, o, m)
  PROVE  /\ \A j \in Inum : From(j) = 0 => \A x \in 0 .. MAXFILE * BSIZE - 1 :
              (HasByte(j, x) => HasByte(j, x)') /\ (Right(j, x) => Right(j, x)')
         /\ \A x \in o .. o + m - 1 : Right(i, x)'
  <1>0. /\ MAXFILE \in Nat /\ NDIRECT \in Nat /\ BSIZE \in Nat \ {0} /\ MAXFILE = NDIRECT + BSIZE
        /\ 0 \notin Data /\ bn \in Nat /\ bn < MAXFILE /\ bn # MAXFILE /\ Data \subseteq Nat
    BY Layout
  <1>a. addr \in Data /\ addr # 0
    BY <1>0 DEF Fetched
  <1>1. BlockAt(i, bn)' = addr
    BY PlacesAfter
  <1>m. \A j \in Inum, k \in 0 .. MAXFILE - 1 : Mapped(j, k) = BlockAt(j, k) /\ Mapped(j, k)' = BlockAt(j, k)'
    <2> SUFFICES ASSUME NEW j \in Inum, NEW k \in 0 .. MAXFILE - 1
                 PROVE Mapped(j, k) = BlockAt(j, k) /\ Mapped(j, k)' = BlockAt(j, k)'
      OBVIOUS
    <2>1. k # MAXFILE
      BY <1>0
    <2> QED
      BY <2>1 DEF BlockAt
  <1>b. \A j \in Inum, x \in Nat :
          Right(j, x)' <=> HasByte(j, x)' /\ blk'[Mapped(j, x \div BSIZE)'][x % BSIZE] = Mark(j, x)
    BY DEF Right, HasByte, ByteAt, Mark
  <1>c. \A j \in Inum, x \in Nat :
          Right(j, x) <=> HasByte(j, x) /\ blk[Mapped(j, x \div BSIZE)][x % BSIZE] = Mark(j, x)
    BY DEF Right, HasByte, ByteAt
  <1>h. \A j \in Inum, x \in Nat : /\ HasByte(j, x)' <=> Mapped(j, x \div BSIZE)' # 0
                                   /\ HasByte(j, x) <=> Mapped(j, x \div BSIZE) # 0
    BY DEF HasByte
  <1>w. ASSUME NEW z, NEW x \in Nat, x \div BSIZE = bn
        PROVE  Written(z, i, o, m)[x % BSIZE] = IF x >= o /\ x < o + m THEN Mark(i, x) ELSE z[x % BSIZE]
    <2>1. x - o = (x % BSIZE) - (o % BSIZE) /\ o - (o % BSIZE) + (x % BSIZE) = x
      BY <1>w, InBlock
    <2>2. x % BSIZE \in 0 .. BSIZE - 1 /\ o % BSIZE \in 0 .. BSIZE - 1
      BY Offset
    <2> DEFINE r == o % BSIZE
               s == x % BSIZE
    <2>3. Written(z, i, o, m)[s] = IF s >= r /\ s < r + m THEN Mark(i, o - r + s) ELSE z[s]
      BY <2>2 DEF Written
    <2>4. r \in Int /\ s \in Int
      BY <1>0, <2>2
    <2>5. x - o = s - r /\ o - r + s = x
      BY <2>1
    <2> HIDE DEF r, s
    <2>6. (s >= r /\ s < r + m) <=> (x >= o /\ x < o + m)
      BY <2>4, <2>5
    <2> QED
      BY <2>3, <2>5, <2>6 DEF s
  <1>2. ASSUME NEW j \in Inum, From(j) = 0, NEW x \in 0 .. MAXFILE * BSIZE - 1, HasByte(j, x)
        PROVE  HasByte(j, x)' /\ (Right(j, x) => Right(j, x)')
    <2> DEFINE k == x \div BSIZE
    <2>0. x \in Nat /\ x < MAXFILE * BSIZE
      BY <1>0
    <2>a. k \in 0 .. MAXFILE - 1
      BY <2>0, Offset
    <2>1. k \in 0 .. MAXFILE - 1 /\ k \in 0 .. MAXFILE
      BY <1>0, <2>a
    <2> HIDE DEF k
    <2>2. Mapped(j, k) # 0 /\ BlockAt(j, k) = Mapped(j, k) /\ Mapped(j, k)' = BlockAt(j, k)'
      BY <1>2, <1>h, <1>m, <2>0, <2>1 DEF k
    <2>3. k \in Held(j)
      BY <1>2, <2>1, <2>2, HeldIs, <1>0
    <2>4. CASE Elsewhere(i, bn, j, k)
      <3>1. BlockAt(j, k)' = BlockAt(j, k)
        BY <1>2, <2>1, <2>4, PlacesAfter
      <3>2. blk'[BlockAt(j, k)] = blk[BlockAt(j, k)]
        BY <2>3, <2>4, OtherBlock
      <3> QED
        BY <1>b, <1>c, <1>h, <2>0, <2>2, <3>1, <3>2 DEF k
    <2>5. CASE ~Elsewhere(i, bn, j, k)
      <3>1. j = i /\ k = bn
        BY <1>0, <2>1, <2>5 DEF Elsewhere
      <3>2. Mapped(i, bn) = addr /\ Mapped(i, bn)' = addr
        BY <1>1, <2>2, <3>1 DEF Fetched
      <3>3. addr \notin Fresh(i, bn, addr, ind)
        BY <1>a, <3>2 DEF Fresh, Fetched
      <3>4. blk'[addr] = Written(blk[addr], i, o, m)
        BY <1>a, <3>3 DEF MapStep, Zeroed
      <3>5. blk'[addr][x % BSIZE] = IF x >= o /\ x < o + m THEN Mark(i, x) ELSE blk[addr][x % BSIZE]
        BY <1>w, <2>0, <3>1, <3>4 DEF k
      <3>6. HasByte(j, x)'
        BY <1>a, <1>h, <2>0, <3>1, <3>2 DEF k
      <3>7. ASSUME Right(j, x) PROVE blk[addr][x % BSIZE] = Mark(i, x)
        BY <1>c, <2>0, <3>1, <3>2, <3>7 DEF k
      <3>8. ASSUME Right(j, x) PROVE blk'[Mapped(j, x \div BSIZE)'][x % BSIZE] = Mark(j, x)
        BY <3>1, <3>2, <3>5, <3>7, <3>8 DEF k
      <3> QED
        BY <1>b, <2>0, <3>6, <3>8
    <2> QED
      BY <2>4, <2>5
  <1>3. ASSUME NEW x \in o .. o + m - 1 PROVE Right(i, x)'
    <2>0. x \in Nat /\ x >= o /\ x < o + m
      OBVIOUS
    <2>1. x \div BSIZE = bn
      <3>1. o % BSIZE \in 0 .. BSIZE - 1
        BY Offset
      <3>2. x < o + (BSIZE - (o % BSIZE))
        BY <1>0, <2>0, <3>1
      <3> QED
        BY <2>0, <3>2, SameBlock
    <2>2. Mapped(i, x \div BSIZE)' = addr
      BY <1>0, <1>1, <1>m, <2>1
    <2>3. blk'[addr] = Written(Zeroed(i, bn, addr, ind, addr), i, o, m)
      BY <1>a DEF MapStep
    <2>4. blk'[addr][x % BSIZE] = Mark(i, x)
      BY <1>w, <2>0, <2>1, <2>3
    <2> QED
      BY <1>a, <1>b, <1>h, <2>0, <2>2, <2>4
  <1>4. ASSUME NEW j \in Inum, NEW x, Right(j, x) PROVE HasByte(j, x)
    BY <1>4 DEF Right
  <1> QED
    BY <1>2, <1>3, <1>4

\* Quotients are monotonic.
LEMMA DivMono ==
  ASSUME NEW a \in Nat, NEW b \in Nat, a <= b
  PROVE  a \div BSIZE <= b \div BSIZE
  <1> DEFINE q == a \div BSIZE
             d == b \div BSIZE
  <1>0. BSIZE \in Nat \ {0}
    BY Layout
  <1>1. q \in Nat /\ d \in Nat
    BY Offset
  <1>2. a < BSIZE * q <=> q < q
    BY <1>0, <1>1, DivBound
  <1>3. b < BSIZE * q <=> d < q
    BY <1>0, <1>1, DivBound
  <1>4. BSIZE * q \in Nat
    BY <1>0, <1>1
  <1> HIDE DEF q, d
  <1>5. ~(d < q)
    BY <1>1, <1>2, <1>3, <1>4
  <1> QED
    BY <1>1, <1>5 DEF q, d

-----------------------------------------------------------------------------
(***************************************************************************)
(* What the steps leave alone.                                             *)
(***************************************************************************)

\* The parts of the invariant.
LEMMA Parts ==
  ASSUME ContentInv
  PROVE  /\ phase \in {"mkfs", "up"} /\ freeblock \in nmeta .. FSSIZE
         /\ used \subseteq 0 .. FSSIZE - 1
         /\ blk \in [Data -> [0 .. BSIZE - 1 -> Nat]]
         /\ size \in [Inum -> 0 .. MAXFILE * BSIZE]
         /\ addrs \in [Inum -> [0 .. NDIRECT -> {0} \cup Data]]
         /\ ino \in [Proc -> 0 .. NINODES] /\ off \in [Proc -> 0 .. MAXFILE * BSIZE]
         /\ lock \in [Inum -> Proc \cup {NoProc}] /\ th \in [Proc -> Call]
         /\ logged \in [Proc -> SUBSET (0 .. FSSIZE - 1)]
         /\ NoProc \notin Proc /\ MAXFILE * BSIZE \in Nat
  <1>1. MAXFILE * BSIZE \in Nat
    BY Layout
  <1> QED
    BY <1>1, FileContentAssumption DEF ContentInv, Typed, TypeOK

\* Places are counted from 0.
LEMMA FromIs ==
  ASSUME ContentInv, NEW i \in Inum
  PROVE  From(i) \in 0 .. MAXFILE + 1 /\ (~Truncating(i) => From(i) = 0)
  <1>0. MAXFILE \in Nat
    BY Layout
  <1>1. CASE ~Truncating(i)
    BY <1>0, <1>1 DEF From
  <1>2. CASE Truncating(i)
    <2>1. lock[i] \in Proc /\ th[lock[i]].pc = "itrunc"
      BY <1>2, Parts DEF Truncating
    <2>2. CallOK(lock[i]) /\ th[lock[i]] \in Call
      BY <2>1, Parts DEF ContentInv
    <2>3. th[lock[i]].tot \in Nat /\ th[lock[i]].tot <= MAXFILE + 1
      BY <2>1, <2>2 DEF CallOK, Call
    <2> QED
      BY <1>0, <1>2, <2>3 DEF From
  <1> QED
    BY <1>1, <1>2

\* The part about blocks.
LEMMA BlocksOf ==
  ASSUME ContentInv
  PROVE  BlocksInv
  <1>1. \A i \in Inum : From(i) \in Nat
    BY FromIs, Layout
  <1>2. Tables
    BY Parts DEF Tables
  <1> QED
    BY <1>1, <1>2 DEF ContentInv, BlocksInv

\* A step that changes no block and no address.
Quiet ==
  /\ addrs' = addrs /\ blk' = blk /\ Marked' = Marked
  /\ \A j \in Inum : From(j)' = From(j)

\* It keeps what the blocks in use satisfy.
LEMMA QuietBlocks ==
  ASSUME BlocksInv, Quiet
  PROVE  BlocksInv'
  <1>1. \A j \in Inum, k \in Nat : BlockAt(j, k)' = BlockAt(j, k)
    BY DEF Quiet, BlockAt, Mapped, Indirect
  <1>2. \A j \in Inum : From(j)' = From(j) /\ From(j) \in Nat
    BY DEF Quiet, BlocksInv
  <1>3. MAXFILE \in Nat
    BY Layout
  <1>4. \A j \in Inum : Held(j)' = Held(j) /\ Held(j) \subseteq Nat
    BY <1>1, <1>2, <1>3 DEF Held, Left
  <1>5. PlacesHoldBlocks'
    BY <1>1, <1>2, <1>3 DEF BlocksInv, PlacesHoldBlocks
  <1>6. PlacesDiffer'
    BY <1>1, <1>4 DEF BlocksInv, PlacesDiffer
  <1>7. MarkedIsHeld'
    <2>1. /\ \A b \in 0 .. nmeta - 1 : b \in Marked
          /\ \A i \in Inum : \A k \in Held(i) : BlockAt(i, k) \in Marked
          /\ \A b \in Marked : b < nmeta \/ \E i \in Inum : \E k \in Held(i) : BlockAt(i, k) = b
      BY DEF BlocksInv, MarkedIsHeld
    <2>2. Marked' = Marked
      BY DEF Quiet
    <2>3. \A i \in Inum : \A k \in Held(i)' : BlockAt(i, k)' \in Marked'
      BY <1>1, <1>4, <2>1, <2>2
    <2>4. \A b \in Marked' : b < nmeta \/ \E i \in Inum : \E k \in Held(i)' : BlockAt(i, k)' = b
      BY <1>1, <1>4, <2>1, <2>2
    <2> QED
      BY <2>1, <2>2, <2>3, <2>4 DEF MarkedIsHeld
  <1>8. Tables'
    BY DEF BlocksInv, Tables, Quiet
  <1> QED
    BY <1>2, <1>5, <1>6, <1>7, <1>8 DEF BlocksInv

\* A step of process p, which goes to t: others find their files as they left them.
Step(p, t) ==
  /\ th' = [th EXCEPT ![p] = t] /\ t \in Call
  /\ lock' \in [Inum -> Proc \cup {NoProc}]
  /\ \A j \in Inum : lock[j] \notin {p, NoProc} => lock'[j] = lock[j] /\ size'[j] = size[j]
  /\ \A j \in Inum : lock'[j] \notin {p, NoProc} => lock'[j] = lock[j]
  /\ \A q \in Proc \ {p} : off'[q] = off[q] /\ ino'[q] = ino[q] /\ logged'[q] = logged[q]

\* What p has open is not truncated by others.
LEMMA OthersCalls ==
  ASSUME ContentInv, NEW p \in Proc, NEW t, Step(p, t), NEW q \in Proc \ {p},
         ino'[p] = ino[p] \/ ~Truncating(ino'[p])
  PROVE  CallOK(q)'
  <1>0. /\ ino \in [Proc -> 0 .. NINODES] /\ lock \in [Inum -> Proc \cup {NoProc}]
        /\ NoProc \notin Proc /\ CallOK(q)
    BY Parts DEF ContentInv
  <1>1. th'[q] = th[q] /\ off'[q] = off[q] /\ ino'[q] = ino[q]
    BY Parts DEF Step
  <1>2. ASSUME th[q].pc = "writei"
        PROVE  lock'[ino[q]] = q /\ size'[ino[q]] = size[ino[q]]
    <2>1. ino[q] \in 0 .. NINODES /\ ino[q] # 0 /\ lock[ino[q]] = q
      BY <1>0, <1>2 DEF CallOK
    <2>2. ino[q] \in Inum
      BY <2>1, FileContentAssumption DEF Inum
    <2> QED
      BY <1>0, <2>1, <2>2 DEF Step
  <1>3. ASSUME th[q].pc = "itrunc"
        PROVE  lock'[th[q].n] = q /\ \A r \in Proc : ino'[r] # th[q].n
    <2>1. th[q].n \in Inum /\ lock[th[q].n] = q /\ \A r \in Proc : ino[r] # th[q].n
      BY <1>0, <1>3 DEF CallOK
    <2>2. lock'[th[q].n] = q
      BY <1>0, <2>1 DEF Step
    <2>3. Truncating(th[q].n)
      BY <1>0, <1>3, <2>1 DEF Truncating
    <2>4. ino'[p] # th[q].n
      BY <2>1, <2>3
    <2>5. \A r \in Proc : ino'[r] # th[q].n
      BY <2>1, <2>4 DEF Step
    <2> QED
      BY <2>2, <2>5
  <1> QED
    BY <1>0, <1>1, <1>2, <1>3 DEF CallOK

\* A lock that somebody else holds is in order.
LEMMA OthersLocks ==
  ASSUME ContentInv, NEW p \in Proc, NEW t, Step(p, t), NEW i \in Inum, lock'[i] # p
  PROVE  LockOK(i)'
  <1>1. CASE lock'[i] = NoProc
    BY <1>1 DEF LockOK
  <1>2. CASE lock'[i] # NoProc
    <2>1. lock'[i] = lock[i] /\ lock[i] \in Proc \ {p}
      BY <1>2, Parts DEF Step
    <2>2. th'[lock[i]] = th[lock[i]] /\ ino'[lock[i]] = ino[lock[i]]
      BY <2>1, Parts DEF Step
    <2>3. LockOK(i)
      BY DEF ContentInv
    <2> QED
      BY <2>1, <2>2, <2>3 DEF LockOK
  <1> QED
    BY <1>1, <1>2

\* No file changes between being truncated and not, unless p has to do with it.
LEMMA FromKept ==
  ASSUME ContentInv, NEW p \in Proc, NEW t, Step(p, t), NEW j \in Inum,
         \/ lock[j] \notin {p, NoProc}
         \/ th[p].pc # "itrunc" /\ t.pc # "itrunc"
         \/ lock[j] = NoProc /\ lock'[j] = NoProc
  PROVE  (Truncating(j)' <=> Truncating(j)) /\ From(j)' = From(j)
  <1>0. lock \in [Inum -> Proc \cup {NoProc}] /\ th \in [Proc -> Call] /\ NoProc \notin Proc
    BY Parts
  <1>1. CASE lock[j] \notin {p, NoProc}
    <2>1. lock'[j] = lock[j] /\ lock[j] \in Proc \ {p} /\ th'[lock[j]] = th[lock[j]]
      BY <1>0, <1>1 DEF Step
    <2> QED
      BY <2>1 DEF Truncating, From
  <1>2. CASE lock[j] \in {p, NoProc} /\ th[p].pc # "itrunc" /\ t.pc # "itrunc"
    <2>1. lock'[j] \in {p, NoProc}
      BY <1>2 DEF Step
    <2>2. th'[p] = t
      BY <1>0 DEF Step
    <2>3. ~Truncating(j) /\ ~Truncating(j)'
      BY <1>2, <2>1, <2>2 DEF Truncating
    <2> QED
      BY <2>3 DEF From
  <1>3. CASE lock[j] = NoProc /\ lock'[j] = NoProc
    BY <1>3 DEF Truncating, From
  <1> QED
    BY <1>1, <1>2, <1>3

\* A step of p that writes no block and erases the addresses of the files D at most keeps
\* the invariant if p itself and the marked blocks are in order.
LEMMA KeptStep ==
  ASSUME ContentInv, NEW p \in Proc, NEW t, Step(p, t), blk' = blk, phase' = "up", Typed',
         BlocksInv', NEW D \in SUBSET (Inum \ {1}),
         \A j \in Inum \ D : addrs'[j] = addrs[j],
         \A j \in D : size'[j] = 0 /\ \A q \in Proc : ino[q] # j,
         CallOK(p)', ino'[p] = ino[p] \/ ~Truncating(ino'[p]),
         \A j \in Inum : lock'[j] = p => LockOK(j)',
         \A j \in Inum \ ({1} \cup D) :
           ~Truncating(j)' => ~Truncating(j) /\ \A o \in 0 .. size'[j] - 1 : Right(j, o),
         size'[1] = size[1],
         t.pc = "writei" => t.tot = 0 /\ logged'[p] = {},
         Cardinality(logged'[p]) <= LOGSIZE - 1
  PROVE  ContentInv'
  <1>1. PlacesHoldBlocks' /\ PlacesDiffer' /\ MarkedIsHeld'
    BY DEF BlocksInv
  <1>2. MkfsAlone'
    BY DEF MkfsAlone
  <1>3. \A q \in Proc : CallOK(q)'
    BY OthersCalls
  <1>4. \A i \in Inum : LockOK(i)'
    BY OthersLocks
  <1>m. \A j \in Inum \ D : \A k : Mapped(j, k)' = Mapped(j, k)
    BY DEF Mapped, Indirect
  <1>5. \A j \in Inum \ D : \A o : (HasByte(j, o)' <=> HasByte(j, o)) /\ (Right(j, o)' <=> Right(j, o))
    BY <1>m DEF Right, HasByte, ByteAt, Mark
  <1>6. FilesFlat'
    <2> SUFFICES ASSUME NEW j \in Inum \ {1}, ~Truncating(j)'
                 PROVE  (\A o \in 0 .. size[j] - 1 : Right(j, o))'
      BY DEF FilesFlat
    <2>1. CASE j \in D
      BY <2>1
    <2>2. CASE j \notin D
      BY <1>5, <2>2
    <2> QED
      BY <2>1, <2>2
  <1>t. th'[p] = t /\ \A q \in Proc \ {p} : th'[q] = th[q]
    BY Parts DEF Step
  <1>o. \A q \in Proc \ {p} : off'[q] = off[q] /\ ino'[q] = ino[q] /\ logged'[q] = logged[q]
    BY DEF Step
  <1>w. ASSUME NEW q \in Proc, th[q].pc = "writei" PROVE ino[q] \in Inum \ D
    <2>1. CallOK(q) /\ ino[q] \in 0 .. NINODES
      BY Parts DEF ContentInv
    <2>2. ino[q] # 0
      BY <1>w, <2>1 DEF CallOK
    <2> QED
      BY <2>1, <2>2, FileContentAssumption DEF Inum
  <1>7. ChunksFlat'
    <2> SUFFICES ASSUME NEW q \in Proc, th'[q].pc = "writei"
                 PROVE  (\A o \in off[q] .. off[q] + th[q].tot - 1 : Right(ino[q], o))'
      BY DEF ChunksFlat
    <2>1. CASE q = p
      <3>1. off'[p] \in Nat /\ th'[p].tot = 0
        BY <1>t, <2>1, Parts DEF Typed, TypeOK
      <3> QED
        BY <2>1, <3>1
    <2>2. CASE q # p
      <3>1. th'[q] = th[q] /\ off'[q] = off[q] /\ ino'[q] = ino[q]
        BY <1>o, <1>t, <2>2
      <3>2. \A o \in off[q] .. off[q] + th[q].tot - 1 : Right(ino[q], o)
        BY <3>1 DEF ContentInv, ChunksFlat
      <3>3. addrs'[ino[q]] = addrs[ino[q]]
        BY <1>w, <3>1
      <3>4. \A o : Right(ino[q], o) => Right(ino[q], o)'
        BY <3>1, <3>3 DEF Right, HasByte, ByteAt, Mark, Mapped, Indirect
      <3> QED
        BY <3>1, <3>2, <3>4
    <2> QED
      BY <2>1, <2>2
  <1>8. RootMapped'
    <2>1. 1 \in Inum \ D
      BY Layout
    <2> QED
      BY <1>5, <2>1 DEF ContentInv, RootMapped
  <1>9. ASSUME NEW q \in Proc PROVE LoggedIs(q)'
    <2>1. CASE q = p
      BY <1>t, <2>1 DEF LoggedIs
    <2>2. CASE q # p /\ th[q].pc = "writei"
      <3>1. LoggedIs(q)
        BY DEF ContentInv
      <3>2. th'[q] = th[q] /\ off'[q] = off[q] /\ ino'[q] = ino[q] /\ logged'[q] = logged[q]
        BY <1>t, <1>o, <2>2
      <3>3. addrs'[ino[q]] = addrs[ino[q]] /\ \A k : Mapped(ino[q], k)' = Mapped(ino[q], k)
        BY <1>w, <2>2, <3>2 DEF Mapped, Indirect
      <3> QED
        BY <3>1, <3>2, <3>3 DEF LoggedIs
    <2>3. CASE q # p /\ th[q].pc # "writei"
      BY <1>t, <2>3 DEF LoggedIs
    <2> QED
      BY <2>1, <2>2, <2>3
  <1>10. ChunkFits'
    BY <1>o DEF ContentInv, ChunkFits
  <1> QED
    BY <1>1, <1>2, <1>3, <1>4, <1>6, <1>7, <1>8, <1>9, <1>10 DEF ContentInv

\* The same when no block and no address changes.
LEMMA QuietStep ==
  ASSUME ContentInv, NEW p \in Proc, NEW t, Step(p, t), Quiet, phase' = "up", Typed',
         CallOK(p)', ino'[p] = ino[p] \/ ~Truncating(ino'[p]),
         \A j \in Inum : lock'[j] = p => LockOK(j)',
         \A j \in Inum \ {1} : ~Truncating(j)' => ~Truncating(j) /\ \A o \in 0 .. size'[j] - 1 : Right(j, o),
         size'[1] = size[1],
         t.pc = "writei" => t.tot = 0 /\ logged'[p] = {},
         Cardinality(logged'[p]) <= LOGSIZE - 1
  PROVE  ContentInv'
  <1>1. BlocksInv'
    BY BlocksOf, QuietBlocks
  <1>2. blk' = blk /\ addrs' = addrs
    BY DEF Quiet
  <1> DEFINE D == {}
  <1>3. D \in SUBSET (Inum \ {1}) /\ \A j \in Inum \ D : addrs'[j] = addrs[j]
    BY <1>2
  <1>4. \A j \in D : size'[j] = 0 /\ \A q \in Proc : ino[q] # j
    OBVIOUS
  <1>5. \A j \in Inum \ ({1} \cup D) :
          ~Truncating(j)' => ~Truncating(j) /\ \A o \in 0 .. size'[j] - 1 : Right(j, o)
    OBVIOUS
  <1> HIDE DEF D
  <1> QED
    BY <1>1, <1>2, <1>3, <1>4, <1>5, KeptStep

-----------------------------------------------------------------------------
(***************************************************************************)
(* The steps that change no block.                                         *)
(***************************************************************************)

\* The bytes below the size of a file that nobody truncates.
LEMMA FlatNow ==
  ASSUME ContentInv, NEW j \in Inum \ {1}, ~Truncating(j)
  PROVE  \A o \in 0 .. size[j] - 1 : Right(j, o)
  BY DEF ContentInv, FilesFlat

\* The set of logged blocks of p fits.
LEMMA FitsNow ==
  ASSUME ContentInv, NEW p \in Proc
  PROVE  Cardinality(logged[p]) <= LOGSIZE - 1
  BY DEF ContentInv, ChunkFits

\* open.
LEMMA StepOpen ==
  ASSUME ContentInv, NEW p \in Proc, NEW i \in Inum, open(p, i)
  PROVE  ContentInv'
  <1>0. At(p, "user") /\ i > 1 /\ (\A q \in Proc : th[q].pc = "itrunc" => lock[i] # q)
        /\ ino' = [ino EXCEPT ![p] = i] /\ off' = [off EXCEPT ![p] = 0]
        /\ UNCHANGED <<phase, freeblock, used, blk, size, addrs, lock, th, logged, panicked>>
    BY DEF open, Same
  <1>1. th[p].pc = "user" /\ th[p] \in Call /\ phase = "up" /\ th' = [th EXCEPT ![p] = th[p]]
    BY <1>0, Parts DEF At
  <1>2. Step(p, th[p]) /\ Quiet
    <2>1. Step(p, th[p])
      BY <1>0, <1>1, Parts DEF Step
    <2>2. \A j \in Inum : From(j)' = From(j)
      BY <1>0 DEF From, Truncating
    <2> QED
      BY <1>0, <2>1, <2>2 DEF Quiet, Marked, Image
  <1>3. ~Truncating(i) /\ ino'[p] = i
    BY <1>0, Parts DEF Truncating
  <1>4. i \in 0 .. NINODES
    BY FileContentAssumption DEF Inum
  <1>5. Typed'
    <2>1. Typed /\ MAXFILE * BSIZE \in Nat
      BY Parts DEF ContentInv
    <2>2. ino' \in [Proc -> 0 .. NINODES] /\ off' \in [Proc -> 0 .. MAXFILE * BSIZE]
      BY <1>0, <1>4, <2>1 DEF Typed, TypeOK
    <2> QED
      BY <1>0, <2>1, <2>2 DEF Typed, TypeOK
  <1>6. CallOK(p)'
    BY <1>0, <1>1, <1>3, Layout DEF CallOK
  <1>7. \A j \in Inum : lock'[j] = p => LockOK(j)'
    <2> SUFFICES ASSUME NEW j \in Inum, lock[j] = p PROVE FALSE
      BY <1>0
    <2>1. LockOK(j)
      BY DEF ContentInv
    <2> QED
      BY <1>1, <2>1, Parts DEF LockOK
  <1>8. \A j \in Inum \ {1} : ~Truncating(j)' => ~Truncating(j) /\ \A o \in 0 .. size'[j] - 1 : Right(j, o)
    <2> SUFFICES ASSUME NEW j \in Inum \ {1}, ~Truncating(j)'
                 PROVE  ~Truncating(j) /\ \A o \in 0 .. size'[j] - 1 : Right(j, o)
      OBVIOUS
    <2>1. ~Truncating(j)
      BY <1>0 DEF Truncating
    <2> QED
      BY <1>0, <2>1, FlatNow
  <1>9. Cardinality(logged'[p]) <= LOGSIZE - 1
    BY <1>0, FitsNow
  <1> QED
    BY <1>0, <1>1, <1>2, <1>3, <1>5, <1>6, <1>7, <1>8, <1>9, QuietStep

\* filewrite is called.
LEMMA StepFilewrite ==
  ASSUME ContentInv, NEW p \in Proc, NEW n \in Sizes, filewrite(p, n)
  PROVE  ContentInv'
  <1> DEFINE t == [Idle EXCEPT !.pc = "chunk", !.n = n]
  <1>0. At(p, "user") /\ ino[p] # 0 /\ th' = [th EXCEPT ![p] = t]
        /\ UNCHANGED <<phase, freeblock, used, blk, size, addrs, lock, ino, off, logged, panicked>>
    BY DEF filewrite, Same, Goto
  <1>1. th[p].pc = "user" /\ phase = "up"
    BY <1>0 DEF At
  <1>t. t \in Call /\ t.pc = "chunk"
    BY FileContentAssumption DEF Call, Idle
  <1>2. Step(p, t) /\ Quiet
    <2>1. Step(p, t)
      BY <1>0, <1>t, Parts DEF Step
    <2>2. \A j \in Inum : From(j)' = From(j)
      BY <1>0, <1>1, <1>t, <2>1, FromKept
    <2> QED
      BY <1>0, <2>1, <2>2 DEF Quiet, Marked, Image
  <1>3. th'[p] = t
    BY <1>0, Parts
  <1>5. Typed'
    <2>1. Typed
      BY DEF ContentInv
    <2>2. th' \in [Proc -> Call]
      BY <1>0, <1>t, <2>1 DEF Typed
    <2> QED
      BY <1>0, <2>1, <2>2 DEF Typed, TypeOK
  <1>6. CallOK(p)'
    BY <1>0, <1>3, <1>t DEF CallOK, ContentInv
  <1>7. \A j \in Inum : lock'[j] = p => LockOK(j)'
    <2> SUFFICES ASSUME NEW j \in Inum, lock[j] = p PROVE FALSE
      BY <1>0
    <2>1. LockOK(j)
      BY DEF ContentInv
    <2> QED
      BY <1>1, <2>1, Parts DEF LockOK
  <1>8. \A j \in Inum \ {1} : ~Truncating(j)' => ~Truncating(j) /\ \A o \in 0 .. size'[j] - 1 : Right(j, o)
    <2> SUFFICES ASSUME NEW j \in Inum \ {1}, ~Truncating(j)'
                 PROVE  ~Truncating(j) /\ \A o \in 0 .. size'[j] - 1 : Right(j, o)
      OBVIOUS
    <2>1. ~Truncating(j)
      BY <1>1, <1>2, <1>t, FromKept
    <2> QED
      BY <1>0, <2>1, FlatNow
  <1>9. Cardinality(logged'[p]) <= LOGSIZE - 1
    BY <1>0, FitsNow
  <1> HIDE DEF t
  <1> QED
    BY <1>0, <1>1, <1>2, <1>5, <1>6, <1>7, <1>8, <1>9, <1>t, QuietStep

-----------------------------------------------------------------------------
(***************************************************************************)
(* How many blocks a chunk logs.                                           *)
(***************************************************************************)

\* S holds blocks of the places lo to hi, the bitmap and the indirect block a.
Covered(S, a, f, lo, hi) == \A b \in S : b \in {bmapstart, a} \/ \E k \in lo .. hi : b = f[k]

\* Then it is not larger than that.
LEMMA RangeBound ==
  ASSUME NEW S, NEW a, NEW f, NEW lo \in Nat, NEW hi \in Nat, lo <= hi, Covered(S, a, f, lo, hi)
  PROVE  IsFiniteSet(S) /\ Cardinality(S) \in Nat /\ Cardinality(S) <= hi - lo + 3
  <1> DEFINE T == {f[k] : k \in lo .. hi}
             U == T \cup {a}
             V == U \cup {bmapstart}
  <1>1. IsFiniteSet(lo .. hi) /\ Cardinality(lo .. hi) = hi - lo + 1
    BY FS_Interval
  <1>2. IsFiniteSet(T) /\ Cardinality(T) <= Cardinality(lo .. hi)
    <2> DEFINE g == [k \in lo .. hi |-> f[k]]
    <2>1. g \in Surjection(lo .. hi, T)
      BY DEF Surjection
    <2> QED
      BY <1>1, <2>1, FS_Surjection
  <1>3. S \subseteq V
    BY DEF Covered
  <1> HIDE DEF T
  <1>4. IsFiniteSet(U) /\ (Cardinality(U) = Cardinality(T) \/ Cardinality(U) = Cardinality(T) + 1)
    BY <1>2, FS_AddElement
  <1> HIDE DEF U
  <1>5. IsFiniteSet(V) /\ (Cardinality(V) = Cardinality(U) \/ Cardinality(V) = Cardinality(U) + 1)
    BY <1>4, FS_AddElement
  <1> HIDE DEF V
  <1>6. IsFiniteSet(S) /\ Cardinality(S) <= Cardinality(V)
    BY <1>3, <1>5, FS_Subset
  <1>7. Cardinality(S) \in Nat /\ Cardinality(T) \in Nat /\ Cardinality(U) \in Nat /\ Cardinality(V) \in Nat
    BY <1>2, <1>4, <1>5, <1>6, FS_CardinalityType
  <1> QED
    BY <1>1, <1>2, <1>4, <1>5, <1>6, <1>7

\* A chunk spans one block more than it fills.
LEMMA ChunkSpan ==
  ASSUME NEW o \in Nat, NEW n \in Nat, 0 < n, n <= MaxChunk
  PROVE  /\ (o + n - 1) \div BSIZE \in Nat /\ o \div BSIZE \in Nat
         /\ o \div BSIZE <= (o + n - 1) \div BSIZE
         /\ (o + n - 1) \div BSIZE - (o \div BSIZE) + 3 <= LOGSIZE - 2
  <1> DEFINE q == o \div BSIZE
             r == o % BSIZE
             d == (o + n - 1) \div BSIZE
             M == (LOGSIZE - 1 - 1 - 2) \div 2
  <1>0. BSIZE \in Nat \ {0} /\ LOGSIZE \in Nat /\ LOGSIZE >= 6 /\ o + n - 1 \in Nat
    BY Layout, FileContentAssumption
  <1>1. q \in Nat /\ d \in Nat /\ r \in 0 .. BSIZE - 1 /\ o = BSIZE * q + r
    BY <1>0, Offset
  <1>2. M \in Nat /\ M + 5 <= LOGSIZE
    BY <1>0
  <1>3. q <= d
    BY <1>0, DivMono
  <1>4. n <= M * BSIZE
    BY DEF MaxChunk
  <1>5. o + n - 1 < BSIZE * (q + M + 1) <=> d < q + M + 1
    BY <1>0, <1>1, <1>2, DivBound
  <1> HIDE DEF q, r, d, M
  <1>6. BSIZE * (q + M + 1) = BSIZE * q + M * BSIZE + BSIZE
    BY <1>0, <1>1, <1>2
  <1>a. BSIZE * q \in Nat /\ M * BSIZE \in Nat
    BY <1>0, <1>1, <1>2
  <1>7. o + n - 1 < BSIZE * q + M * BSIZE + BSIZE
    BY <1>0, <1>1, <1>4, <1>a
  <1>8. d < q + M + 1
    BY <1>5, <1>6, <1>7
  <1> QED
    BY <1>0, <1>1, <1>2, <1>3, <1>8 DEF q, d

\* The chunk in progress leaves room for its inode.
LEMMA ChunkBound ==
  ASSUME ContentInv, NEW p \in Proc, th[p].pc = "writei"
  PROVE  IsFiniteSet(logged[p]) /\ Cardinality(logged[p]) \in Nat /\ Cardinality(logged[p]) <= LOGSIZE - 2
  <1> DEFINE t == th[p]
             i == ino[p]
             o == off[p]
             f == [k \in Nat |-> Mapped(i, k)]
  <1>0. t \in Call /\ o \in Nat /\ LOGSIZE \in Nat /\ LOGSIZE >= 6
    BY Parts, FileContentAssumption
  <1>t. t.tot \in Nat /\ t.n1 \in Nat
    BY <1>0 DEF Call
  <1>1. LoggedIs(p) /\ CallOK(p)
    BY DEF ContentInv
  <1>m. MaxChunk \in Nat
    <2>1. BSIZE \in Nat /\ (LOGSIZE - 1 - 1 - 2) \div 2 \in Nat
      BY <1>0, Layout
    <2> QED
      BY <2>1 DEF MaxChunk
  <1>2. t.tot <= MaxChunk
    BY <1>1, <1>t, <1>m DEF CallOK
  <1>3. CASE t.tot = 0
    <2>1. logged[p] = {}
      BY <1>1, <1>3 DEF LoggedIs
    <2> QED
      BY <1>0, <2>1, FS_EmptySet
  <1>4. CASE t.tot # 0
    <2> DEFINE lo == o \div BSIZE
               hi == (o + t.tot - 1) \div BSIZE
    <2>0. 0 < t.tot
      BY <1>t, <1>4
    <2>1. lo \in Nat /\ hi \in Nat /\ lo <= hi /\ hi - lo + 3 <= LOGSIZE - 2
      BY <1>0, <1>t, <1>2, <2>0, ChunkSpan
    <2>2. \A b \in logged[p] :
             b \in {bmapstart, addrs[i][NDIRECT]} \/ \E k \in lo .. hi : b = Mapped(i, k)
      BY <1>1 DEF LoggedIs
    <2> HIDE DEF lo, hi
    <2>3. Covered(logged[p], addrs[i][NDIRECT], f, lo, hi)
      BY <2>1, <2>2 DEF Covered
    <2> HIDE DEF f
    <2>4. IsFiniteSet(logged[p]) /\ Cardinality(logged[p]) \in Nat /\ Cardinality(logged[p]) <= hi - lo + 3
      BY <2>1, <2>3, RangeBound
    <2> QED
      BY <1>0, <2>1, <2>4
  <1> QED
    BY <1>3, <1>4

\* The file a process is writing to.
LEMMA WriterFile ==
  ASSUME ContentInv, NEW p \in Proc, ino[p] # 0
  PROVE  ino[p] \in Inum \ {1}
  <1>1. ino[p] \in 0 .. NINODES /\ CallOK(p)
    BY Parts DEF ContentInv
  <1> QED
    BY <1>1, FileContentAssumption DEF CallOK, Inum

\* A process that neither writes nor truncates has nothing locked.
LEMMA HoldsNothing ==
  ASSUME ContentInv, NEW p \in Proc, th[p].pc \in {"user", "chunk"}, NEW j \in Inum
  PROVE  lock[j] # p
  <1>1. LockOK(j)
    BY DEF ContentInv
  <1> QED
    BY <1>1, Parts DEF LockOK

\* One that writes has locked the file it writes.
LEMMA HoldsOne ==
  ASSUME ContentInv, NEW p \in Proc, th[p].pc = "writei", NEW j \in Inum
  PROVE  lock[j] = p <=> j = ino[p]
  <1>1. LockOK(j) /\ CallOK(p)
    BY DEF ContentInv
  <1> QED
    BY <1>1, Parts DEF LockOK, CallOK

\* A chunk of filewrite begins, or filewrite returns.
LEMMA StepChunk ==
  ASSUME ContentInv, NEW p \in Proc, filewrite_chunk(p)
  PROVE  ContentInv'
  <1> DEFINE n1 == Min({th[p].n, MaxChunk})
             i == ino[p]
             t == th'[p]
  <1>0. At(p, "chunk") /\ logged' = [logged EXCEPT ![p] = {}]
        /\ UNCHANGED <<phase, freeblock, used, blk, size, addrs, ino, off, panicked>>
    BY DEF filewrite_chunk, Same
  <1>1. th[p].pc = "chunk" /\ phase = "up"
    BY <1>0 DEF At
  <1>c. th[p] \in Call /\ th[p].n \in Nat
    BY Parts DEF Call
  <1>i. i \in Inum \ {1}
    <2>1. CallOK(p)
      BY DEF ContentInv
    <2>2. ino[p] # 0
      BY <1>1, <2>1 DEF CallOK
    <2> QED
      BY <2>2, WriterFile
  <1>m. MaxChunk \in Nat
    <2>1. BSIZE \in Nat /\ (LOGSIZE - 1 - 1 - 2) \div 2 \in Nat
      BY FileContentAssumption, Layout
    <2> QED
      BY <2>1 DEF MaxChunk
  <1>n. n1 \in Nat /\ n1 <= th[p].n /\ n1 <= MaxChunk
    BY <1>c, <1>m, MinTwo
  <1> HIDE DEF n1
  <1>2. \/ /\ lock[i] = NoProc /\ off[p] <= size[i] /\ off[p] + n1 <= MAXFILE * BSIZE
           /\ lock' = [lock EXCEPT ![i] = p]
           /\ th' = [th EXCEPT ![p] = [th[p] EXCEPT !.pc = "writei", !.n1 = n1, !.tot = 0]]
        \/ lock' = lock /\ th' = [th EXCEPT ![p] = Idle]
    BY DEF filewrite_chunk, Goto, n1
  <1>3. CASE /\ lock[i] = NoProc /\ off[p] <= size[i] /\ off[p] + n1 <= MAXFILE * BSIZE
             /\ lock' = [lock EXCEPT ![i] = p]
             /\ th' = [th EXCEPT ![p] = [th[p] EXCEPT !.pc = "writei", !.n1 = n1, !.tot = 0]]
    <2> DEFINE s == [th[p] EXCEPT !.pc = "writei", !.n1 = n1, !.tot = 0]
    <2>1. s \in Call /\ s.pc = "writei" /\ s.n1 = n1 /\ s.tot = 0 /\ s.n = th[p].n
      BY <1>c, <1>n DEF Call
    <2>2. th' = [th EXCEPT ![p] = s] /\ th'[p] = s
      BY <1>3, Parts
    <2> HIDE DEF s
    <2>3. Step(p, s) /\ Quiet /\ \A j \in Inum : Truncating(j)' <=> Truncating(j)
      <3>1. Step(p, s)
        BY <1>0, <1>3, <1>i, <2>1, <2>2, Parts DEF Step
      <3>2. \A j \in Inum : (Truncating(j)' <=> Truncating(j)) /\ From(j)' = From(j)
        BY <1>1, <2>1, <3>1, FromKept
      <3> QED
        BY <1>0, <3>1, <3>2 DEF Quiet, Marked, Image
    <2>4. Typed'
      <3>1. Typed
        BY DEF ContentInv
      <3>2. lock' \in [Inum -> Proc \cup {NoProc}] /\ th' \in [Proc -> Call]
            /\ logged' \in [Proc -> SUBSET (0 .. FSSIZE - 1)]
        BY <1>0, <1>3, <2>1, <2>2, <3>1 DEF Typed
      <3> QED
        BY <1>0, <3>1, <3>2 DEF Typed, TypeOK
    <2>5. CallOK(p)'
      <3>1. lock'[i] = p
        BY <1>3, <1>i, Parts
      <3>2. th'[p] = s /\ ino'[p] = i /\ off'[p] = off[p] /\ size'[i] = size[i] /\ i # 1 /\ i # 0
        BY <1>0, <1>i, <2>2, Layout
      <3>3. s.tot <= s.n1 /\ s.n1 <= s.n /\ s.n1 <= MaxChunk /\ off[p] <= size[i]
            /\ off[p] + s.n1 <= MAXFILE * BSIZE
        BY <1>3, <1>n, <2>1
      <3> HIDE DEF i
      <3> QED
        BY <2>1, <3>1, <3>2, <3>3 DEF CallOK
    <2>6. \A j \in Inum : lock'[j] = p => LockOK(j)'
      <3> SUFFICES ASSUME NEW j \in Inum, lock'[j] = p PROVE LockOK(j)'
        OBVIOUS
      <3>1. j = i
        BY <1>1, <1>3, HoldsNothing, Parts
      <3> QED
        BY <1>0, <2>1, <2>2, <3>1 DEF LockOK
    <2>7. \A j \in Inum \ {1} : ~Truncating(j)' => ~Truncating(j) /\ \A o \in 0 .. size'[j] - 1 : Right(j, o)
      BY <1>0, <2>3, FlatNow
    <2>8. Cardinality(logged'[p]) <= LOGSIZE - 1 /\ logged'[p] = {}
      BY <1>0, Parts, FS_EmptySet, FileContentAssumption
    <2> QED
      BY <1>0, <1>1, <2>1, <2>3, <2>4, <2>5, <2>6, <2>7, <2>8, QuietStep
  <1>4. CASE lock' = lock /\ th' = [th EXCEPT ![p] = Idle]
    <2>1. Idle \in Call /\ Idle.pc = "user"
      BY DEF Call, Idle
    <2>2. th'[p] = Idle
      BY <1>4, Parts
    <2>3. Step(p, Idle) /\ Quiet /\ \A j \in Inum : Truncating(j)' <=> Truncating(j)
      <3>1. Step(p, Idle)
        BY <1>0, <1>4, <2>1, Parts DEF Step
      <3>2. \A j \in Inum : (Truncating(j)' <=> Truncating(j)) /\ From(j)' = From(j)
        BY <1>1, <2>1, <3>1, FromKept
      <3> QED
        BY <1>0, <3>1, <3>2 DEF Quiet, Marked, Image
    <2>4. Typed'
      <3>1. Typed
        BY DEF ContentInv
      <3>2. th' \in [Proc -> Call] /\ logged' \in [Proc -> SUBSET (0 .. FSSIZE - 1)]
        BY <1>0, <1>4, <2>1, <3>1 DEF Typed
      <3> QED
        BY <1>0, <1>4, <3>1, <3>2 DEF Typed, TypeOK
    <2>5. CallOK(p)'
      BY <1>0, <1>i, <2>1, <2>2 DEF CallOK
    <2>6. \A j \in Inum : lock'[j] = p => LockOK(j)'
      BY <1>1, <1>4, HoldsNothing
    <2>7. \A j \in Inum \ {1} : ~Truncating(j)' => ~Truncating(j) /\ \A o \in 0 .. size'[j] - 1 : Right(j, o)
      BY <1>0, <2>3, FlatNow
    <2>8. Cardinality(logged'[p]) <= LOGSIZE - 1 /\ logged'[p] = {}
      BY <1>0, Parts, FS_EmptySet, FileContentAssumption
    <2> QED
      BY <1>0, <1>1, <2>1, <2>3, <2>4, <2>5, <2>6, <2>7, <2>8, QuietStep
  <1> QED
    BY <1>2, <1>3, <1>4

\* fileread.
LEMMA StepRead ==
  ASSUME ContentInv, NEW p \in Proc, NEW n \in Sizes, fileread(p, n)
  PROVE  ContentInv'
  <1> DEFINE i == ino[p]
  <1>0. At(p, "user") /\ i # 0 /\ off[p] <= size[i] /\ off' = [off EXCEPT ![p] = ReadTo(i, @, n)]
        /\ UNCHANGED <<phase, freeblock, used, blk, size, addrs, lock, ino, th, logged, panicked>>
    BY DEF fileread, Same
  <1>1. th[p].pc = "user" /\ th[p] \in Call /\ phase = "up" /\ th' = [th EXCEPT ![p] = th[p]]
    BY <1>0, Parts DEF At
  <1>i. i \in Inum \ {1}
    BY <1>0, WriterFile
  <1>2. Step(p, th[p]) /\ Quiet /\ \A j \in Inum : Truncating(j)' <=> Truncating(j)
    <2>1. Step(p, th[p])
      BY <1>0, <1>1, Parts DEF Step
    <2>2. \A j \in Inum : (Truncating(j)' <=> Truncating(j)) /\ From(j)' = From(j)
      BY <1>1, <2>1, FromKept
    <2> QED
      BY <1>0, <2>1, <2>2 DEF Quiet, Marked, Image
  <1>3. ReadTo(i, off[p], n) \in 0 .. MAXFILE * BSIZE
    <2>1. off[p] \in 0 .. MAXFILE * BSIZE /\ size[i] \in 0 .. MAXFILE * BSIZE /\ n \in Nat
      BY <1>i, Parts, FileContentAssumption
    <2> QED
      BY <2>1, Parts DEF ReadTo
  <1>4. Typed'
    <2>1. Typed
      BY DEF ContentInv
    <2>2. off' \in [Proc -> 0 .. MAXFILE * BSIZE]
      BY <1>0, <1>3, Parts
    <2> QED
      BY <1>0, <2>1, <2>2 DEF Typed, TypeOK
  <1>5. CallOK(p)'
    BY <1>0, <1>1, <1>i DEF CallOK
  <1>6. \A j \in Inum : lock'[j] = p => LockOK(j)'
    BY <1>0, <1>1, HoldsNothing
  <1>7. \A j \in Inum \ {1} : ~Truncating(j)' => ~Truncating(j) /\ \A o \in 0 .. size'[j] - 1 : Right(j, o)
    BY <1>0, <1>2, FlatNow
  <1>8. Cardinality(logged'[p]) <= LOGSIZE - 1
    BY <1>0, FitsNow
  <1> QED
    BY <1>0, <1>1, <1>2, <1>4, <1>5, <1>6, <1>7, <1>8, QuietStep

\* The end of writei and of the chunk.
LEMMA StepWriteEnd ==
  ASSUME ContentInv, NEW p \in Proc, writei_end(p)
  PROVE  ContentInv'
  <1> DEFINE i == ino[p]
             t == th[p]
             o == off[p] + t.n1
             s == [t EXCEPT !.pc = "chunk", !.n = @ - t.n1]
  <1>0. At(p, "writei") /\ t.tot = t.n1
        /\ size' = [size EXCEPT ![i] = Max({@, o})]
        /\ logged' = [logged EXCEPT ![p] = IF o > size[i] THEN @ \cup {IBLOCK(i)} ELSE @]
        /\ off' = [off EXCEPT ![p] = o]
        /\ lock' = [lock EXCEPT ![i] = NoProc]
        /\ th' = [th EXCEPT ![p] = s]
        /\ UNCHANGED <<phase, freeblock, used, blk, addrs, ino, panicked>>
    BY DEF writei_end, Same, Goto
  <1>1. t.pc = "writei" /\ phase = "up"
    BY <1>0 DEF At
  <1>c. t \in Call /\ t.n \in Nat /\ t.n1 \in Nat /\ t.tot \in Nat
    BY Parts DEF Call
  <1>k. /\ ino[p] # 0 /\ lock[i] = p /\ t.n1 <= t.n /\ off[p] <= size[i] /\ o <= MAXFILE * BSIZE
    BY <1>1 DEF ContentInv, CallOK
  <1>i. i \in Inum \ {1}
    BY <1>k, WriterFile
  <1>b. off[p] \in Nat /\ size[i] \in 0 .. MAXFILE * BSIZE /\ o \in Nat /\ MAXFILE * BSIZE \in Nat
    BY <1>c, <1>i, Parts
  <1>s. s \in Call /\ s.pc = "chunk"
    <2>1. t.n - t.n1 \in Nat
      BY <1>c, <1>k
    <2> QED
      BY <1>c, <2>1 DEF Call
  <1>x. size'[i] = IF size[i] <= o THEN o ELSE size[i]
    <2>1. size'[i] = Max({size[i], o})
      BY <1>0, <1>i, Parts
    <2>2. size[i] \in Nat
      BY <1>b
    <2> QED
      BY <1>b, <2>1, <2>2, MaxTwo
  <1>y. \A j \in Inum \ {i} : size'[j] = size[j] /\ lock'[j] = lock[j]
    BY <1>0, Parts
  <1>z. lock'[i] = NoProc /\ th'[p] = s
    BY <1>0, <1>i, Parts
  <1> HIDE DEF s
  <1>2. Step(p, s) /\ Quiet /\ \A j \in Inum : Truncating(j)' <=> Truncating(j)
    <2>1. Step(p, s)
      <3>1. lock' \in [Inum -> Proc \cup {NoProc}]
        BY <1>0, Parts
      <3> QED
        BY <1>0, <1>k, <1>s, <1>y, <1>z, <3>1 DEF Step
    <2>2. \A j \in Inum : (Truncating(j)' <=> Truncating(j)) /\ From(j)' = From(j)
      BY <1>1, <1>s, <2>1, FromKept
    <2> QED
      BY <1>0, <2>1, <2>2 DEF Quiet, Marked, Image
  <1>3. IBLOCK(i) \in 0 .. FSSIZE - 1
    <2>1. IBLOCK(i) \in 0 .. nmeta - 1 /\ nmeta \in Nat /\ FSSIZE \in Nat /\ nmeta <= FSSIZE
      BY <1>i, Layout
    <2> HIDE DEF i
    <2> QED
      BY <2>1
  <1>4. Typed'
    <2>1. Typed
      BY DEF ContentInv
    <2>2. size' \in [Inum -> 0 .. MAXFILE * BSIZE]
      <3>1. size'[i] \in 0 .. MAXFILE * BSIZE
        BY <1>b, <1>k, <1>x
      <3> QED
        BY <1>0, <3>1, <1>i, Parts
    <2>3. off' \in [Proc -> 0 .. MAXFILE * BSIZE]
      BY <1>0, <1>b, <1>k, Parts
    <2>4. logged' \in [Proc -> SUBSET (0 .. FSSIZE - 1)]
      BY <1>0, <1>3, Parts
    <2>5. lock' \in [Inum -> Proc \cup {NoProc}] /\ th' \in [Proc -> Call]
      BY <1>0, <1>s, Parts
    <2> QED
      BY <1>0, <2>1, <2>2, <2>3, <2>4, <2>5 DEF Typed, TypeOK
  <1>5. CallOK(p)'
    BY <1>0, <1>i, <1>k, <1>s, <1>z DEF CallOK
  <1>6. \A j \in Inum : lock'[j] = p => LockOK(j)'
    <2> SUFFICES ASSUME NEW j \in Inum, lock'[j] = p PROVE FALSE
      OBVIOUS
    <2>1. p # NoProc
      BY Parts
    <2>2. j # i
      BY <1>z, <2>1
    <2> QED
      BY <1>1, <1>y, <2>2, HoldsOne
  <1>7. ASSUME NEW j \in Inum \ {1}, ~Truncating(j)'
        PROVE  ~Truncating(j) /\ \A x \in 0 .. size'[j] - 1 : Right(j, x)
    <2>1. ~Truncating(j)
      BY <1>2, <1>7
    <2>2. \A x \in 0 .. size[j] - 1 : Right(j, x)
      BY <2>1, FlatNow
    <2>3. CASE j # i
      BY <1>y, <2>1, <2>2, <2>3
    <2>4. CASE j = i
      <3>1. \A x \in off[p] .. off[p] + t.n1 - 1 : Right(i, x)
        BY <1>0, <1>1 DEF ContentInv, ChunksFlat
      <3>2. ASSUME NEW x \in 0 .. size'[i] - 1 PROVE x \in 0 .. size[i] - 1 \/ x \in off[p] .. off[p] + t.n1 - 1
        BY <1>b, <1>c, <1>k, <1>x
      <3> QED
        BY <2>1, <2>2, <2>4, <3>1, <3>2
    <2> QED
      BY <2>3, <2>4
  <1>8. Cardinality(logged'[p]) <= LOGSIZE - 1
    <2>1. IsFiniteSet(logged[p]) /\ Cardinality(logged[p]) \in Nat /\ Cardinality(logged[p]) <= LOGSIZE - 2
      BY <1>1, ChunkBound
    <2>2. Cardinality(logged[p] \cup {IBLOCK(i)}) \in {Cardinality(logged[p]), Cardinality(logged[p]) + 1}
      BY <2>1, FS_AddElement
    <2>3. logged'[p] = logged[p] \/ logged'[p] = logged[p] \cup {IBLOCK(i)}
      BY <1>0, Parts
    <2>4. LOGSIZE \in Nat
      BY FileContentAssumption
    <2>5. Cardinality(logged'[p]) = Cardinality(logged[p]) \/ Cardinality(logged'[p]) = Cardinality(logged[p]) + 1
      BY <2>2, <2>3
    <2> QED
      BY <2>1, <2>4, <2>5
  <1>9. size'[1] = size[1] /\ ino'[p] = ino[p] /\ phase' = "up"
    BY <1>0, <1>1, <1>i, <1>y, Layout
  <1> QED
    BY <1>2, <1>4, <1>5, <1>6, <1>7, <1>8, <1>9, <1>s, QuietStep

\* iput begins to free a file.
LEMMA StepIput ==
  ASSUME ContentInv, NEW p \in Proc, NEW i \in Inum, iput(p, i)
  PROVE  ContentInv'
  <1> DEFINE s == [Idle EXCEPT !.pc = "itrunc", !.n = i]
  <1>0. At(p, "user") /\ i > 1 /\ lock[i] = NoProc /\ (\A q \in Proc : ino[q] # i)
        /\ lock' = [lock EXCEPT ![i] = p] /\ th' = [th EXCEPT ![p] = s]
        /\ UNCHANGED <<phase, freeblock, used, blk, size, addrs, ino, off, logged, panicked>>
    BY DEF iput, Same, Goto
  <1>1. th[p].pc = "user" /\ phase = "up"
    BY <1>0 DEF At
  <1>s. s \in Call /\ s.pc = "itrunc" /\ s.n = i /\ s.tot = 0
    BY Layout DEF Call, Idle
  <1>z. lock'[i] = p /\ th'[p] = s /\ (\A j \in Inum \ {i} : lock'[j] = lock[j]) /\ p # NoProc
    BY <1>0, Parts
  <1> HIDE DEF s
  <1>2. Step(p, s) /\ Quiet /\ \A j \in Inum \ {i} : Truncating(j)' <=> Truncating(j)
    <2>1. Step(p, s)
      <3>1. lock' \in [Inum -> Proc \cup {NoProc}]
        BY <1>0, Parts
      <3> QED
        BY <1>0, <1>s, <1>z, <3>1 DEF Step
    <2>2. ASSUME NEW j \in Inum \ {i} PROVE (Truncating(j)' <=> Truncating(j)) /\ From(j)' = From(j)
      <3>1. lock[j] # p
        BY <1>1, HoldsNothing
      <3> QED
        BY <1>z, <2>1, <3>1, FromKept
    <2>3. From(i)' = From(i)
      BY <1>0, <1>s, <1>z DEF From, Truncating
    <2> QED
      BY <1>0, <2>1, <2>2, <2>3 DEF Quiet, Marked, Image
  <1>4. Typed'
    <2>1. Typed
      BY DEF ContentInv
    <2>2. lock' \in [Inum -> Proc \cup {NoProc}] /\ th' \in [Proc -> Call]
      BY <1>0, <1>s, Parts
    <2> QED
      BY <1>0, <2>1, <2>2 DEF Typed, TypeOK
  <1>5. CallOK(p)'
    <2>1. CallOK(p)
      BY DEF ContentInv
    <2> QED
      BY <1>0, <1>s, <1>z, <2>1, Layout DEF CallOK
  <1>6. \A j \in Inum : lock'[j] = p => LockOK(j)'
    <2> SUFFICES ASSUME NEW j \in Inum, lock'[j] = p PROVE LockOK(j)'
      OBVIOUS
    <2>1. j = i
      BY <1>1, <1>z, HoldsNothing
    <2> QED
      BY <1>s, <1>z, <2>1 DEF LockOK
  <1>7. ASSUME NEW j \in Inum \ {1}, ~Truncating(j)'
        PROVE  ~Truncating(j) /\ \A o \in 0 .. size'[j] - 1 : Right(j, o)
    <2>1. j # i
      BY <1>7, <1>s, <1>z DEF Truncating
    <2> QED
      BY <1>0, <1>2, <1>7, <2>1, FlatNow
  <1>8. Cardinality(logged'[p]) <= LOGSIZE - 1
    BY <1>0, FitsNow
  <1> QED
    BY <1>0, <1>1, <1>2, <1>4, <1>5, <1>6, <1>7, <1>8, <1>s, QuietStep

-----------------------------------------------------------------------------
(***************************************************************************)
(* itrunc.                                                                 *)
(***************************************************************************)

\* The file that a process truncates.
LEMMA TruncFile ==
  ASSUME ContentInv, NEW p \in Proc, th[p].pc = "itrunc"
  PROVE  /\ th[p].n \in Inum \ {1} /\ lock[th[p].n] = p /\ Truncating(th[p].n)
         /\ From(th[p].n) = th[p].tot /\ th[p].tot \in Nat /\ th[p].tot <= MAXFILE + 1
         /\ \A q \in Proc : ino[q] # th[p].n
         /\ \A j \in Inum : lock[j] = p => j = th[p].n
  <1>1. CallOK(p) /\ th[p] \in Call /\ p # NoProc
    BY Parts DEF ContentInv
  <1>2. /\ th[p].n \in Inum \ {1} /\ lock[th[p].n] = p /\ th[p].tot <= MAXFILE + 1
        /\ \A q \in Proc : ino[q] # th[p].n
    BY <1>1 DEF CallOK
  <1>3. Truncating(th[p].n) /\ From(th[p].n) = th[p].tot
    BY <1>1, <1>2 DEF Truncating, From
  <1>4. \A j \in Inum : lock[j] = p => j = th[p].n
    BY <1>1 DEF ContentInv, LockOK
  <1> QED
    BY <1>1, <1>2, <1>3, <1>4 DEF Call

\* bfree of the first block that is left.
LEMMA StepFree ==
  ASSUME ContentInv, NEW p \in Proc, itrunc(p), NEW i, th[p].n = i, Left(i, th[p].tot) # {}
  PROVE  ContentInv'
  <1> DEFINE t == th[p]
             k == Min(Left(i, t.tot))
             s == [t EXCEPT !.tot = k + 1]
             b == BlockAt(i, k)
  <1>0. At(p, "itrunc") /\ used' = used \ {b} /\ th' = [th EXCEPT ![p] = s]
        /\ UNCHANGED <<phase, freeblock, blk, ino, off, logged, addrs, size, lock>>
    BY DEF itrunc, bfree, Same, Goto
  <1>1. t.pc = "itrunc" /\ phase = "up"
    BY <1>0 DEF At
  <1>2. /\ i \in Inum \ {1} /\ lock[i] = p /\ Truncating(i) /\ From(i) = t.tot /\ t.tot \in Nat
        /\ (\A q \in Proc : ino[q] # i) /\ t \in Call /\ p # NoProc
        /\ \A j \in Inum : lock[j] = p => j = i
    BY <1>1, TruncFile, Parts
  <1>m. MAXFILE \in Nat
    BY Layout
  <1>3. k \in Left(i, t.tot) /\ \A l \in Left(i, t.tot) : k <= l
    <2>1. Left(i, t.tot) \subseteq Nat
      BY <1>2, <1>m DEF Left
    <2> QED
      BY <2>1, MinOf
  <1>4. Held(i) = Left(i, t.tot)
    BY <1>2 DEF Held
  <1>5. k \in t.tot .. MAXFILE /\ b # 0 /\ k \in Held(i)
    BY <1>3, <1>4 DEF Left
  <1>k. k \in Nat /\ k + 1 \in Nat /\ k + 1 <= MAXFILE + 1 /\ t.tot <= k
    BY <1>2, <1>5, <1>m
  <1>s. s \in Call /\ s.pc = "itrunc" /\ s.n = i /\ s.tot = k + 1
    BY <1>1, <1>2, <1>k DEF Call
  <1>z. th'[p] = s
    BY <1>0, Parts
  <1> HIDE DEF k, s
  <1>6. Step(p, s)
    BY <1>0, <1>s, Parts DEF Step
  <1>7. \A j \in Inum \ {i} : (Truncating(j)' <=> Truncating(j)) /\ From(j)' = From(j)
    BY <1>0, <1>2, <1>6, FromKept
  <1>8. Truncating(i)' /\ From(i)' = k + 1
    BY <1>0, <1>2, <1>s, <1>z DEF From, Truncating
  <1>9. BlocksInv'
    <2>0. BlocksInv
      BY BlocksOf
    <2>1. \A j, l : BlockAt(j, l)' = BlockAt(j, l)
      BY <1>0 DEF BlockAt, Mapped, Indirect
    <2>2. \A j \in Inum \ {i} : Held(j)' = Held(j)
      BY <1>7, <2>1 DEF Held, Left
    <2>3. Held(i)' = Held(i) \ {k}
      <3>1. \A l : l \in Held(i)' <=> l \in k + 1 .. MAXFILE /\ BlockAt(i, l) # 0
        BY <1>8, <2>1 DEF Held, Left
      <3>2. \A l : l \in Held(i) <=> l \in t.tot .. MAXFILE /\ BlockAt(i, l) # 0
        BY <1>4 DEF Left
      <3>3. \A l \in Held(i) : k <= l
        BY <1>3, <1>4
      <3>4. ASSUME NEW l \in Held(i), l # k PROVE l \in Held(i)'
        <4>1. l \in t.tot .. MAXFILE /\ k <= l
          BY <3>2, <3>3
        <4>2. l \in k + 1 .. MAXFILE
          BY <1>2, <1>k, <1>m, <3>4, <4>1
        <4> QED
          BY <3>1, <3>2, <4>2
      <3>5. ASSUME NEW l \in Held(i)' PROVE l \in Held(i) /\ l # k
        <4>1. l \in k + 1 .. MAXFILE
          BY <3>1
        <4>2. l \in t.tot .. MAXFILE /\ l # k
          BY <1>2, <1>k, <1>m, <4>1
        <4> QED
          BY <3>1, <3>2, <4>2
      <3> QED
        BY <3>4, <3>5
    <2>4. PlacesHoldBlocks'
      <3> SUFFICES ASSUME NEW j \in Inum, NEW l \in From(j)' .. MAXFILE
                   PROVE  BlockAt(j, l) \in {0} \cup Data
        BY <2>1 DEF PlacesHoldBlocks
      <3>1. CASE j = i
        <4>1. l \in t.tot .. MAXFILE
          BY <1>2, <1>8, <1>k, <1>m, <3>1
        <4> QED
          BY <1>2, <2>0, <3>1, <4>1 DEF BlocksInv, PlacesHoldBlocks
      <3>2. CASE j # i
        BY <1>7, <2>0, <3>2 DEF BlocksInv, PlacesHoldBlocks
      <3> QED
        BY <3>1, <3>2
    <2>5. \A j \in Inum : Held(j)' \subseteq Held(j)
      BY <2>2, <2>3
    <2>6. PlacesDiffer'
      BY <2>0, <2>1, <2>5 DEF BlocksInv, PlacesDiffer
    <2>7. MarkedIsHeld'
      <3>1. Marked = used /\ Marked' = used'
        BY <1>0, <1>1 DEF Marked
      <3>2. b \in Data
        BY <1>2, <1>5, <2>0 DEF BlocksInv, PlacesHoldBlocks
      <3>3. \A x \in 0 .. nmeta - 1 : x \in Marked'
        BY <1>0, <2>0, <3>1, <3>2, Layout DEF BlocksInv, MarkedIsHeld
      <3>4. ASSUME NEW j \in Inum, NEW l \in Held(j)' PROVE BlockAt(j, l) \in Marked'
        <4>1. l \in Held(j) /\ ~(j = i /\ l = k)
          BY <2>3, <2>5
        <4>2. BlockAt(j, l) # b
          BY <1>2, <1>5, <2>0, <4>1 DEF BlocksInv, PlacesDiffer
        <4>3. BlockAt(j, l) \in Marked
          BY <2>0, <4>1 DEF BlocksInv, MarkedIsHeld
        <4> QED
          BY <1>0, <3>1, <4>2, <4>3
      <3>5. ASSUME NEW x \in Marked', ~(x < nmeta) PROVE \E j \in Inum : \E l \in Held(j)' : BlockAt(j, l) = x
        <4>1. x \in Marked /\ x # b
          BY <1>0, <3>1
        <4>2. PICK j \in Inum : \E l \in Held(j) : BlockAt(j, l) = x
          BY <2>0, <3>5, <4>1 DEF BlocksInv, MarkedIsHeld
        <4>3. PICK l \in Held(j) : BlockAt(j, l) = x
          BY <4>2
        <4>4. l \in Held(j)'
          BY <2>2, <2>3, <4>1, <4>3
        <4> QED
          BY <4>3, <4>4
      <3> QED
        BY <2>1, <3>3, <3>4, <3>5 DEF MarkedIsHeld
    <2>8. \A j \in Inum : From(j)' \in Nat
      BY <1>7, <1>8, <1>k, <2>0 DEF BlocksInv
    <2>9. Tables'
      BY <1>0, <2>0 DEF BlocksInv, Tables
    <2> QED
      BY <2>4, <2>6, <2>7, <2>8, <2>9 DEF BlocksInv
  <1>10. Typed'
    <2>1. Typed
      BY DEF ContentInv
    <2>2. th' \in [Proc -> Call] /\ used' \subseteq 0 .. FSSIZE - 1
      BY <1>0, <1>s, Parts
    <2> QED
      BY <1>0, <2>1, <2>2 DEF Typed, TypeOK
  <1>11. CallOK(p)'
    <2>1. CallOK(p)
      BY DEF ContentInv
    <2> QED
      BY <1>0, <1>2, <1>k, <1>s, <1>z, <2>1 DEF CallOK
  <1>12. \A j \in Inum : lock'[j] = p => LockOK(j)'
    BY <1>0, <1>2, <1>s, <1>z DEF LockOK
  <1>13. ASSUME NEW j \in Inum \ {1}, ~Truncating(j)'
         PROVE  ~Truncating(j) /\ \A o \in 0 .. size'[j] - 1 : Right(j, o)
    <2>1. ~Truncating(j)
      BY <1>7, <1>8, <1>13
    <2> QED
      BY <1>0, <2>1, FlatNow
  <1>14. Cardinality(logged'[p]) <= LOGSIZE - 1
    BY <1>0, FitsNow
  <1> DEFINE D == {}
  <1>15. D \in SUBSET (Inum \ {1}) /\ \A j \in Inum \ D : addrs'[j] = addrs[j]
    BY <1>0
  <1>16. \A j \in D : size'[j] = 0 /\ \A q \in Proc : ino[q] # j
    OBVIOUS
  <1>17. \A j \in Inum \ ({1} \cup D) :
           ~Truncating(j)' => ~Truncating(j) /\ \A o \in 0 .. size'[j] - 1 : Right(j, o)
    BY <1>13
  <1> HIDE DEF D
  <1> QED
    BY <1>0, <1>1, <1>6, <1>9, <1>10, <1>11, <1>12, <1>14, <1>15, <1>16, <1>17, <1>s, KeptStep

\* The end of itrunc, when no block is left.
LEMMA StepTruncEnd ==
  ASSUME ContentInv, NEW p \in Proc, itrunc(p), NEW i, th[p].n = i, Left(i, th[p].tot) = {}
  PROVE  ContentInv'
  <1> DEFINE t == th[p]
  <1>0. At(p, "itrunc") /\ addrs' = [addrs EXCEPT ![i] = NoAddrs]
        /\ size' = [size EXCEPT ![i] = 0] /\ lock' = [lock EXCEPT ![i] = NoProc]
        /\ th' = [th EXCEPT ![p] = Idle]
        /\ UNCHANGED <<phase, freeblock, blk, ino, off, logged, used, panicked>>
    BY DEF itrunc, Same, Goto, Truncated
  <1>1. t.pc = "itrunc" /\ phase = "up"
    BY <1>0 DEF At
  <1>2. /\ i \in Inum \ {1} /\ lock[i] = p /\ Truncating(i) /\ From(i) = t.tot /\ t.tot \in Nat
        /\ (\A q \in Proc : ino[q] # i) /\ t \in Call /\ p # NoProc
        /\ \A j \in Inum : lock[j] = p => j = i
    BY <1>1, TruncFile, Parts
  <1>m. MAXFILE \in Nat /\ NDIRECT \in Nat /\ BSIZE \in Nat \ {0} /\ MAXFILE = NDIRECT + BSIZE
    BY Layout
  <1>s. Idle \in Call /\ Idle.pc = "user"
    BY DEF Call, Idle
  <1>z. /\ th'[p] = Idle /\ lock'[i] = NoProc /\ addrs'[i] = NoAddrs /\ size'[i] = 0
        /\ \A j \in Inum \ {i} : lock'[j] = lock[j] /\ addrs'[j] = addrs[j] /\ size'[j] = size[j]
    BY <1>0, <1>2, Parts
  <1>6. Step(p, Idle)
    <2>1. lock' \in [Inum -> Proc \cup {NoProc}]
      BY <1>0, Parts
    <2> QED
      BY <1>0, <1>2, <1>s, <1>z, <2>1 DEF Step
  <1>7. ASSUME NEW j \in Inum \ {i} PROVE (Truncating(j)' <=> Truncating(j)) /\ From(j)' = From(j)
    BY <1>2, <1>6, <1>z, FromKept
  <1>8. ~Truncating(i)' /\ From(i)' = 0
    BY <1>z DEF From, Truncating
  <1>9. BlocksInv'
    <2>0. BlocksInv
      BY BlocksOf
    <2>1. \A j \in Inum \ {i} : \A l : BlockAt(j, l)' = BlockAt(j, l)
      BY <1>0, <1>z DEF BlockAt, Mapped, Indirect
    <2>2. ASSUME NEW j \in Inum \ {i} PROVE Held(j)' = Held(j)
      BY <1>7, <2>1 DEF Held, Left
    <2>3. Held(i) = {}
      BY <1>2 DEF Held
    <2>4. \A l \in 0 .. MAXFILE : BlockAt(i, l)' = 0
      <3>1. NoAddrs[NDIRECT] = 0
        BY <1>m DEF NoAddrs
      <3>2. ASSUME NEW l \in 0 .. MAXFILE, l < NDIRECT PROVE NoAddrs[l] = 0
        BY <1>m, <3>2 DEF NoAddrs
      <3> QED
        BY <1>m, <1>z, <3>1, <3>2 DEF BlockAt, Mapped, Indirect
    <2>5. Held(i)' = {}
      BY <1>8, <2>4 DEF Held, Left
    <2>6. PlacesHoldBlocks'
      <3> SUFFICES ASSUME NEW j \in Inum, NEW l \in From(j)' .. MAXFILE
                   PROVE  BlockAt(j, l)' \in {0} \cup Data
        BY DEF PlacesHoldBlocks
      <3>1. CASE j = i
        BY <1>8, <2>4, <3>1
      <3>2. CASE j # i
        BY <1>7, <2>0, <2>1, <3>2 DEF BlocksInv, PlacesHoldBlocks
      <3> QED
        BY <3>1, <3>2
    <2>7. PlacesDiffer'
      <3> SUFFICES ASSUME NEW x \in Inum, NEW j \in Inum, NEW k \in Held(x)', NEW l \in Held(j)',
                          BlockAt(x, k)' = BlockAt(j, l)'
                   PROVE  x = j /\ k = l
        BY DEF PlacesDiffer
      <3>1. x # i /\ j # i
        BY <2>5
      <3>2. k \in Held(x) /\ l \in Held(j) /\ BlockAt(x, k) = BlockAt(j, l)
        BY <2>1, <2>2, <3>1
      <3> QED
        BY <2>0, <3>2 DEF BlocksInv, PlacesDiffer
    <2>8. MarkedIsHeld'
      <3>1. Marked' = Marked
        BY <1>0, <1>1 DEF Marked, Image
      <3>2. /\ \A x \in 0 .. nmeta - 1 : x \in Marked
            /\ \A j \in Inum : \A k \in Held(j) : BlockAt(j, k) \in Marked
            /\ \A x \in Marked : x < nmeta \/ \E j \in Inum : \E k \in Held(j) : BlockAt(j, k) = x
        BY <2>0 DEF BlocksInv, MarkedIsHeld
      <3>3. ASSUME NEW j \in Inum, NEW l \in Held(j)' PROVE BlockAt(j, l)' \in Marked'
        <4>1. j # i
          BY <2>5
        <4> QED
          BY <2>1, <2>2, <3>1, <3>2, <4>1
      <3>4. ASSUME NEW x \in Marked', ~(x < nmeta) PROVE \E j \in Inum : \E l \in Held(j)' : BlockAt(j, l)' = x
        <4>1. PICK j \in Inum : \E l \in Held(j) : BlockAt(j, l) = x
          BY <3>1, <3>2, <3>4
        <4>2. PICK l \in Held(j) : BlockAt(j, l) = x
          BY <4>1
        <4>3. j # i
          BY <2>3
        <4>4. l \in Held(j)' /\ BlockAt(j, l)' = x
          BY <2>1, <2>2, <4>2, <4>3
        <4> QED
          BY <4>4
      <3> QED
        BY <3>1, <3>2, <3>3, <3>4 DEF MarkedIsHeld
    <2>9. ASSUME NEW j \in Inum PROVE From(j)' \in Nat
      BY <1>7, <1>8, <2>0 DEF BlocksInv
    <2>10. Tables'
      <3>1. NoAddrs \in [0 .. NDIRECT -> {0} \cup Data]
        BY DEF NoAddrs
      <3> QED
        BY <1>0, <2>0, <3>1 DEF BlocksInv, Tables
    <2> QED
      BY <2>6, <2>7, <2>8, <2>9, <2>10 DEF BlocksInv
  <1>10. Typed'
    <2>1. Typed
      BY DEF ContentInv
    <2>2. /\ th' \in [Proc -> Call] /\ lock' \in [Inum -> Proc \cup {NoProc}]
          /\ size' \in [Inum -> 0 .. MAXFILE * BSIZE]
      <3>1. MAXFILE * BSIZE \in Nat
        BY <1>m
      <3>2. 0 \in 0 .. MAXFILE * BSIZE
        BY <3>1
      <3>3. size' \in [Inum -> 0 .. MAXFILE * BSIZE]
        BY <1>0, <2>1, <3>2 DEF Typed, TypeOK
      <3>4. th' \in [Proc -> Call] /\ lock' \in [Inum -> Proc \cup {NoProc}]
        BY <1>0, <1>s, Parts
      <3> QED
        BY <3>3, <3>4
    <2>3. addrs' \in [Inum -> [0 .. NDIRECT -> {0} \cup Data]] /\ blk' \in [Data -> [0 .. BSIZE - 1 -> Nat]]
      BY <1>9 DEF BlocksInv, Tables
    <2> QED
      BY <1>0, <2>1, <2>2, <2>3 DEF Typed, TypeOK
  <1>11. CallOK(p)'
    <2>1. CallOK(p)
      BY DEF ContentInv
    <2> QED
      BY <1>0, <1>s, <1>z, <2>1 DEF CallOK
  <1>12. \A j \in Inum : lock'[j] = p => LockOK(j)'
    BY <1>2, <1>z
  <1> DEFINE D == {i}
  <1>15. D \in SUBSET (Inum \ {1}) /\ \A j \in Inum \ D : addrs'[j] = addrs[j]
    BY <1>2, <1>z
  <1>16. \A j \in D : size'[j] = 0 /\ \A q \in Proc : ino[q] # j
    BY <1>2, <1>z
  <1>17. \A j \in Inum \ ({1} \cup D) :
           ~Truncating(j)' => ~Truncating(j) /\ \A o \in 0 .. size'[j] - 1 : Right(j, o)
    <2> SUFFICES ASSUME NEW j \in Inum \ {1}, j # i, ~Truncating(j)'
                 PROVE  ~Truncating(j) /\ \A o \in 0 .. size'[j] - 1 : Right(j, o)
      OBVIOUS
    <2>1. ~Truncating(j)
      BY <1>7
    <2> QED
      BY <1>z, <2>1, FlatNow
  <1>18. Cardinality(logged'[p]) <= LOGSIZE - 1 /\ size'[1] = size[1]
    BY <1>0, <1>2, <1>z, FitsNow, Layout
  <1> HIDE DEF D
  <1> QED
    BY <1>0, <1>1, <1>6, <1>9, <1>10, <1>11, <1>12, <1>15, <1>16, <1>17, <1>18, <1>s, KeptStep

\* itrunc.
LEMMA StepItrunc ==
  ASSUME ContentInv, NEW p \in Proc, itrunc(p)
  PROVE  ContentInv'
  BY StepFree, StepTruncEnd

-----------------------------------------------------------------------------
(***************************************************************************)
(* writei.                                                                 *)
(***************************************************************************)

\* balloc finds data blocks only, and as many as are counted.
LEMMA Balloc ==
  ASSUME BlocksInv, phase = "up", used \subseteq 0 .. FSSIZE - 1,
         NEW n \in {1, 2}, n <= Cardinality(Unmarked(used))
  PROVE  /\ Min(Unmarked(used)) \in Data /\ Min(Unmarked(used)) \notin Marked
         /\ n = 2 => LET c == Min(Unmarked(used \cup {Min(Unmarked(used))}))
                     IN  c \in Data /\ c \notin Marked /\ c # Min(Unmarked(used))
  <1> DEFINE U == Unmarked(used)
             a == Min(U)
             V == Unmarked(used \cup {a})
  <1>1. FSSIZE \in Nat /\ nmeta \in Nat /\ Data = nmeta .. FSSIZE - 1
    BY Layout
  <1>2. \A b \in U : b \in Data /\ b \notin Marked /\ b \in Nat
    <2>1. Marked = used /\ \A b \in 0 .. nmeta - 1 : b \in used
      BY DEF Marked, BlocksInv, MarkedIsHeld
    <2> QED
      BY <1>1, <2>1 DEF Unmarked
  <1>3. IsFiniteSet(U)
    <2>1. IsFiniteSet(0 .. FSSIZE - 1) /\ U \subseteq 0 .. FSSIZE - 1
      BY <1>1, FS_Interval DEF Unmarked
    <2> QED
      BY <2>1, FS_Subset
  <1>4. U # {}
    BY FS_EmptySet
  <1>5. a \in U
    <2>1. U \subseteq Nat
      BY <1>2
    <2> HIDE DEF U
    <2> QED
      BY <1>4, <2>1, MinOf
  <1>6. ASSUME n = 2 PROVE Min(V) \in U \ {a}
    <2>1. V = U \ {a}
      BY DEF Unmarked
    <2>2. Cardinality(U) \in Nat /\ Cardinality(U \ {a}) = Cardinality(U) - 1 /\ IsFiniteSet(U \ {a})
      BY <1>3, <1>5, FS_RemoveElement, FS_CardinalityType
    <2>3. U \ {a} # {}
      BY <1>6, <2>2, FS_EmptySet
    <2>4. U \ {a} \subseteq Nat
      BY <1>2
    <2> HIDE DEF U, a, V
    <2> QED
      BY <2>1, <2>3, <2>4, MinOf
  <1> QED
    BY <1>2, <1>5, <1>6

\* What b, an outcome of bmap, makes of the blocks when m bytes are written from offset o on.
\* What is logged is the bitmap, the block and the indirect block.
Found(b, i, bn, ind, o, m) ==
  /\ Fetched(i, bn, b.addr, ind)
  /\ b.used = used \cup Fresh(i, bn, b.addr, ind)
  /\ b.addrs = IF Indirect(bn) THEN [addrs EXCEPT ![i][NDIRECT] = ind]
               ELSE [addrs EXCEPT ![i][bn] = b.addr]
  /\ [b.blk EXCEPT ![b.addr] = Written(@, i, o, m)] =
       [x \in Data |->
          IF x = b.addr THEN Written(Zeroed(i, bn, b.addr, ind, x), i, o, m)
          ELSE IF x = ind /\ Indirect(bn)
               THEN [Zeroed(i, bn, b.addr, ind, x) EXCEPT ![bn - NDIRECT] = b.addr]
               ELSE Zeroed(i, bn, b.addr, ind, x)]
  /\ \A x \in b.logged : x \in {bmapstart, b.addr} \/ (x = ind /\ Indirect(bn))

\* bmap fetches the block of its place.
LEMMA Bmap ==
  ASSUME BlocksInv, phase = "up", used \subseteq 0 .. FSSIZE - 1,
         NEW i \in Inum, From(i) = 0, NEW bn \in 0 .. MAXFILE - 1,
         Wanted(i, bn) <= Cardinality(Unmarked(used)), NEW o, NEW m
  PROVE  \E ind : Found(bmap(i, bn), i, bn, ind, o, m)
  <1> DEFINE r == addrs[i][NDIRECT]
             first == Min(Unmarked(used))
             ind == IF r = 0 THEN first ELSE r
             newind == Indirect(bn) /\ r = 0
             addr == IF Mapped(i, bn) # 0 THEN Mapped(i, bn)
                     ELSE Min(Unmarked(IF newind THEN used \cup {first} ELSE used))
             new == (IF newind THEN {ind} ELSE {}) \cup (IF Mapped(i, bn) = 0 THEN {addr} ELSE {})
             zeroed == [x \in Data |-> IF x \in new THEN Zeroes ELSE blk[x]]
             f == Fresh(i, bn, addr, ind)
             b == bmap(i, bn)
  <1>0. /\ b.addr = addr /\ b.used = used \cup new
        /\ b.addrs = IF ~Indirect(bn) THEN [addrs EXCEPT ![i][bn] = addr]
                     ELSE [addrs EXCEPT ![i][NDIRECT] = ind]
        /\ b.blk = IF Indirect(bn) THEN [zeroed EXCEPT ![ind][bn - NDIRECT] = addr] ELSE zeroed
        /\ b.logged = IF new = {} THEN {} ELSE new \cup {bmapstart} \cup (IF Indirect(bn) THEN {ind} ELSE {})
    BY DEF bmap
  <1>l. MAXFILE \in Nat /\ 0 \notin Data /\ bn \in 0 .. MAXFILE /\ bn # MAXFILE /\ MAXFILE \in 0 .. MAXFILE
    BY Layout
  <1>h. /\ Mapped(i, bn) \in {0} \cup Data /\ r \in {0} \cup Data
        /\ Mapped(i, bn) # 0 => bn \in Held(i) /\ BlockAt(i, bn) = Mapped(i, bn)
        /\ r # 0 => MAXFILE \in Held(i) /\ BlockAt(i, MAXFILE) = r
    <2>1. BlockAt(i, bn) = Mapped(i, bn) /\ BlockAt(i, MAXFILE) = r
      BY <1>l DEF BlockAt
    <2>2. BlockAt(i, bn) \in {0} \cup Data /\ BlockAt(i, MAXFILE) \in {0} \cup Data
      BY <1>l DEF BlocksInv, PlacesHoldBlocks
    <2> QED
      BY <1>l, <2>1, <2>2, HeldIs
  <1>1. newind => Mapped(i, bn) = 0
    BY DEF Mapped
  <1>w. Wanted(i, bn) = (IF newind THEN 1 ELSE 0) + (IF Mapped(i, bn) = 0 THEN 1 ELSE 0)
    BY DEF Wanted
  <1>2. newind => first \in Data /\ first \notin Marked /\ addr \in Data /\ addr \notin Marked /\ addr # first
    <2> SUFFICES ASSUME newind
                 PROVE  first \in Data /\ first \notin Marked /\ addr \in Data /\ addr \notin Marked /\ addr # first
      OBVIOUS
    <2>1. 2 <= Cardinality(Unmarked(used)) /\ addr = Min(Unmarked(used \cup {first}))
      BY <1>1, <1>w
    <2> QED
      BY <2>1, Balloc
  <1>3. ~newind /\ Mapped(i, bn) = 0 => addr \in Data /\ addr \notin Marked
    <2> SUFFICES ASSUME ~newind, Mapped(i, bn) = 0 PROVE addr \in Data /\ addr \notin Marked
      OBVIOUS
    <2>1. 1 <= Cardinality(Unmarked(used)) /\ addr = first
      BY <1>w
    <2> QED
      BY <2>1, Balloc
  <1>4. Mapped(i, bn) # 0 => addr = Mapped(i, bn)
    OBVIOUS
  <1>5. (r # 0 => ind = r) /\ (r = 0 => ind = first)
    OBVIOUS
  <1>6. newind <=> Indirect(bn) /\ r = 0
    OBVIOUS
  <1>7. new = (IF newind THEN {ind} ELSE {}) \cup (IF Mapped(i, bn) = 0 THEN {addr} ELSE {})
    OBVIOUS
  <1> HIDE DEF addr, ind, newind, new, first
  <1>8. addr \in Data /\ (Mapped(i, bn) = 0 => addr \notin Marked)
    BY <1>2, <1>3, <1>4, <1>h
  <1>9. ASSUME Indirect(bn)
        PROVE  ind \in Data /\ ind # addr /\ (r # 0 => ind = r) /\ (r = 0 => ind \notin Marked)
    <2>1. CASE r = 0
      BY <1>2, <1>5, <1>6, <1>9, <2>1
    <2>2. CASE r # 0
      <3>1. ind = r /\ ind \in Data /\ ind \in Marked
        BY <1>5, <1>h, <2>2 DEF BlocksInv, MarkedIsHeld
      <3>2. ind # addr
        <4>1. CASE Mapped(i, bn) = 0
          BY <1>8, <3>1, <4>1
        <4>2. CASE Mapped(i, bn) # 0
          BY <1>4, <1>h, <1>l, <2>2, <3>1, <4>2 DEF BlocksInv, PlacesDiffer
        <4> QED
          BY <4>1, <4>2
      <3> QED
        BY <2>2, <3>1, <3>2
    <2> QED
      BY <2>1, <2>2
  <1>10. Fetched(i, bn, addr, ind)
    BY <1>4, <1>8, <1>9 DEF Fetched
  <1>11. new = f
    BY <1>6, <1>7, <1>8, <1>9 DEF Fresh
  <1>12. [b.blk EXCEPT ![addr] = Written(@, i, o, m)] =
           [x \in Data |->
              IF x = addr THEN Written(Zeroed(i, bn, addr, ind, x), i, o, m)
              ELSE IF x = ind /\ Indirect(bn)
                   THEN [Zeroed(i, bn, addr, ind, x) EXCEPT ![bn - NDIRECT] = addr]
                   ELSE Zeroed(i, bn, addr, ind, x)]
    <2>1. zeroed = [x \in Data |-> Zeroed(i, bn, addr, ind, x)]
      BY <1>11 DEF Zeroed
    <2> HIDE DEF zeroed
    <2>2. CASE ~Indirect(bn)
      BY <1>0, <1>8, <2>1, <2>2
    <2>3. CASE Indirect(bn)
      <3>1. b.blk = [zeroed EXCEPT ![ind] = [zeroed[ind] EXCEPT ![bn - NDIRECT] = addr]]
        BY <1>0, <2>3
      <3>2. ind \in Data /\ ind # addr
        BY <1>9, <2>3
      <3> QED
        BY <1>8, <2>1, <2>3, <3>1, <3>2
    <2> QED
      BY <2>2, <2>3
  <1>13. \A x \in b.logged : x \in {bmapstart, addr} \/ (x = ind /\ Indirect(bn))
    BY <1>0, <1>6, <1>7
  <1> HIDE DEF b, f
  <1>14. Found(b, i, bn, ind, o, m)
    BY <1>0, <1>10, <1>11, <1>12, <1>13 DEF f, Found
  <1> QED
    BY <1>14 DEF b

\* The bytes of the file that q has open after a step.
LEMMA OpenAfter ==
  ASSUME NEW q \in Proc, NEW j, ino'[q] = j
  PROVE  /\ \A x : Right(j, x)' => Right(ino[q], x)'
         /\ LoggedIs(q)' <=>
              (th'[q].pc = "writei" =>
                 /\ th'[q].tot = 0 => logged'[q] = {}
                 /\ 0 \notin logged'[q]
                 /\ \A b \in logged'[q] :
                      \/ b \in {bmapstart, addrs'[j][NDIRECT]}
                      \/ \E k \in (off'[q] \div BSIZE) .. ((off'[q] + th'[q].tot - 1) \div BSIZE) :
                           b = Mapped(j, k)')
  <1>1. \A x : Right(j, x)' => Right(ino[q], x)'
    BY DEF Right, HasByte, ByteAt, Mark, Mapped, Indirect
  <1>2. \A k : Mapped(ino[q], k)' = Mapped(j, k)'
    BY DEF Mapped, Indirect
  <1> QED
    BY <1>1, <1>2 DEF LoggedIs

\* A turn of writei's loop that finds its blocks: m bytes are written from offset o on, into
\* block bn of file i, which is addr.
LEMMA StepWritten ==
  ASSUME ContentInv, NEW p \in Proc, phase = "up", th[p].pc = "writei", th[p].tot < th[p].n1,
         NEW i, ino[p] = i, NEW o, o = off[p] + th[p].tot, NEW bn, bn = o \div BSIZE,
         NEW m, m = Min({th[p].n1 - th[p].tot, BSIZE - (o % BSIZE)}),
         NEW b, NEW ind, Found(b, i, bn, ind, o, m), used' = b.used, addrs' = b.addrs,
         blk' = [b.blk EXCEPT ![b.addr] = Written(@, i, o, m)],
         logged' = [logged EXCEPT ![p] = @ \cup b.logged \cup {b.addr}],
         th' = [th EXCEPT ![p] = [th[p] EXCEPT !.tot = @ + m]],
         UNCHANGED <<phase, freeblock, size, lock, ino, off>>
  PROVE  ContentInv'
  <1> DEFINE t == th[p]
             s == [t EXCEPT !.tot = @ + m]
             a == off[p]
             addr == b.addr
             L == b.logged \cup {b.addr}
  <1>u. /\ Fetched(i, bn, addr, ind)
        /\ used' = used \cup Fresh(i, bn, addr, ind)
        /\ addrs' = IF Indirect(bn) THEN [addrs EXCEPT ![i][NDIRECT] = ind]
                    ELSE [addrs EXCEPT ![i][bn] = addr]
        /\ blk' = [x \in Data |->
                     IF x = addr THEN Written(Zeroed(i, bn, addr, ind, x), i, o, m)
                     ELSE IF x = ind /\ Indirect(bn)
                          THEN [Zeroed(i, bn, addr, ind, x) EXCEPT ![bn - NDIRECT] = addr]
                          ELSE Zeroed(i, bn, addr, ind, x)]
        /\ logged' = [logged EXCEPT ![p] = @ \cup L]
        /\ \A x \in L : x \in {bmapstart, addr} \/ (x = ind /\ Indirect(bn))
    BY DEF Found
  <1> HIDE DEF addr, L
  <1>0. CallOK(p) /\ t \in Call /\ a \in Nat /\ p # NoProc /\ MAXFILE * BSIZE \in Nat
    BY Parts DEF ContentInv
  <1>1. /\ t.tot \in Nat /\ t.n1 \in Nat /\ i \in Inum \ {1} /\ lock[i] = p /\ a + t.n1 <= MAXFILE * BSIZE
        /\ t.n1 <= MaxChunk /\ t.n1 <= t.n /\ a <= size[i]
    <2>1. i # 0 /\ lock[i] = p /\ a + t.n1 <= MAXFILE * BSIZE /\ t.n1 <= MaxChunk /\ t.n1 <= t.n /\ a <= size[i]
      BY <1>0 DEF CallOK
    <2>2. i \in Inum \ {1}
      BY <2>1, WriterFile
    <2> QED
      BY <1>0, <2>1, <2>2 DEF Call
  <1>2. o \in Nat /\ o < MAXFILE * BSIZE
    BY <1>0, <1>1
  <1>3. bn \in 0 .. MAXFILE - 1 /\ bn \in Nat /\ o % BSIZE \in 0 .. BSIZE - 1 /\ BSIZE \in Nat \ {0} /\ MAXFILE \in Nat
    BY <1>2, Offset, Layout
  <1>4. m \in Nat /\ 0 < m /\ m <= t.n1 - t.tot /\ m <= BSIZE - (o % BSIZE)
    <2> DEFINE y == t.n1 - t.tot
               z == BSIZE - (o % BSIZE)
    <2>1. y \in Nat \ {0} /\ z \in Nat \ {0}
      BY <1>1, <1>3
    <2>2. m = Min({y, z})
      OBVIOUS
    <2> HIDE DEF y, z
    <2>3. m = IF y <= z THEN y ELSE z
      BY <2>1, <2>2, MinTwo
    <2>4. m \in Nat /\ 0 < m /\ m <= y /\ m <= z
      BY <2>1, <2>3
    <2> QED
      BY <2>4 DEF y, z
  <1>s. s \in Call /\ s.pc = "writei" /\ s.tot = t.tot + m /\ s.n1 = t.n1 /\ s.n = t.n
    BY <1>0, <1>1, <1>4 DEF Call
  <1>z. th'[p] = s /\ logged'[p] = logged[p] \cup L
        /\ \A q \in Proc \ {p} : th'[q] = th[q] /\ logged'[q] = logged[q]
    BY <1>u, Parts
  <1> HIDE DEF s
  <1>5. Step(p, s)
    BY <1>s, <1>u, Parts DEF Step, s
  <1>6. ASSUME NEW j \in Inum PROVE (Truncating(j)' <=> Truncating(j)) /\ From(j)' = From(j)
    BY <1>5, <1>s, FromKept
  <1>f. From(i) = 0 /\ ~Truncating(i)
    BY <1>1 DEF From, Truncating
  <1>b. BlocksInv
    BY BlocksOf
  <1>7. MapStep(i, bn, addr, ind, o, m)
    <2>1. Marked' = Marked \cup Fresh(i, bn, addr, ind)
      BY <1>u DEF Marked
    <2> QED
      BY <1>6, <1>u, <2>1 DEF MapStep
  <1>8. BlocksInv'
    BY <1>1, <1>2, <1>3, <1>7, <1>b, <1>f, <1>u, MapBlocks
  <1>9. /\ \A j \in Inum : From(j) = 0 => \A x \in 0 .. MAXFILE * BSIZE - 1 :
              (HasByte(j, x) => HasByte(j, x)') /\ (Right(j, x) => Right(j, x)')
        /\ \A x \in o .. o + m - 1 : Right(i, x)'
    BY <1>1, <1>2, <1>3, <1>4, <1>7, <1>b, <1>f, <1>u, MapBytes
  <1>10. /\ BlockAt(i, bn)' = addr
         /\ Indirect(bn) => BlockAt(i, MAXFILE)' = ind
         /\ \A j \in Inum : \A k \in From(j) .. MAXFILE :
              Elsewhere(i, bn, j, k) => BlockAt(j, k)' = BlockAt(j, k)
    BY <1>1, <1>3, <1>7, <1>b, <1>f, <1>u, PlacesAfter
  <1>d. addr \in Data /\ (Indirect(bn) => ind \in Data)
    BY <1>u DEF Fetched
  <1>v. FSSIZE \in Nat /\ nmeta \in Nat /\ Data = nmeta .. FSSIZE - 1 /\ bmapstart \in 0 .. nmeta - 1 /\ nmeta <= FSSIZE
        /\ 0 \notin Data /\ bmapstart # 0
    <2>1. NINODES \in Nat /\ IPB \in Nat \ {0} /\ LOGSIZE \in Nat
      BY FileContentAssumption
    <2>2. NINODES \div IPB \in Nat
      BY <2>1, Euclid
    <2>3. bmapstart # 0
      BY <2>1, <2>2 DEF bmapstart, inodestart
    <2> QED
      BY <2>3, Layout
  <1>11. Typed'
    <2>1. Typed
      BY DEF ContentInv
    <2>2. addrs' \in [Inum -> [0 .. NDIRECT -> {0} \cup Data]] /\ blk' \in [Data -> [0 .. BSIZE - 1 -> Nat]]
      BY <1>8 DEF BlocksInv, Tables
    <2>3. used' \subseteq 0 .. FSSIZE - 1
      <3>1. Fresh(i, bn, addr, ind) \subseteq 0 .. FSSIZE - 1
        BY <1>v DEF Fresh
      <3> QED
        BY <1>u, <3>1, Parts
    <2>4. th' \in [Proc -> Call]
      BY <1>s, Parts DEF s
    <2>5. logged' \in [Proc -> SUBSET (0 .. FSSIZE - 1)]
      <3>1. L \subseteq 0 .. FSSIZE - 1
        BY <1>d, <1>u, <1>v
      <3> QED
        BY <1>u, <3>1, Parts
    <2> QED
      BY <2>1, <2>2, <2>3, <2>4, <2>5 DEF Typed, TypeOK
  <1>12. ASSUME NEW q \in Proc PROVE CallOK(q)'
    <2>1. CASE q = p
      <3>1. s.pc = "writei" /\ s.tot <= s.n1 /\ s.n1 <= s.n /\ s.n1 <= MaxChunk
        BY <1>1, <1>4, <1>s
      <3>2. a + s.n1 <= MAXFILE * BSIZE /\ i # 0 /\ i # 1
        BY <1>1, <1>s, Layout
      <3> QED
        BY <1>1, <1>z, <2>1, <3>1, <3>2 DEF CallOK
    <2>2. CASE q # p
      BY <1>5, <2>2, OthersCalls
    <2> QED
      BY <2>1, <2>2
  <1>13. ASSUME NEW j \in Inum PROVE LockOK(j)'
    <2>1. CASE lock[j] = p
      <3>1. j = i
        BY <2>1, HoldsOne
      <3> QED
        BY <1>1, <1>s, <1>z, <3>1 DEF LockOK
    <2>2. CASE lock[j] # p
      BY <1>5, <2>2, OthersLocks
    <2> QED
      BY <2>1, <2>2
  <1>14. FilesFlat'
    <2> SUFFICES ASSUME NEW j \in Inum \ {1}, ~Truncating(j)', NEW x \in 0 .. size[j] - 1
                 PROVE  Right(j, x)'
      BY DEF FilesFlat
    <2>1. ~Truncating(j) /\ From(j) = 0
      BY <1>6, FromIs
    <2>2. Right(j, x)
      BY <2>1, FlatNow
    <2>3. x \in 0 .. MAXFILE * BSIZE - 1
      <3>1. size[j] \in 0 .. MAXFILE * BSIZE
        BY Parts
      <3> QED
        BY <1>0, <3>1
    <2> QED
      BY <1>9, <2>1, <2>2, <2>3
  <1>w. ASSUME NEW q \in Proc, th[q].pc = "writei"
        PROVE  /\ ino[q] \in Inum /\ From(ino[q]) = 0 /\ (q # p => ino[q] # i)
               /\ off[q] \in Nat /\ th[q].tot \in Nat /\ off[q] + th[q].tot <= MAXFILE * BSIZE
    <2>1. CallOK(q) /\ th[q] \in Call /\ off[q] \in Nat /\ q # NoProc
      BY Parts DEF ContentInv
    <2>2. /\ ino[q] # 0 /\ lock[ino[q]] = q /\ th[q].tot <= th[q].n1
          /\ off[q] + th[q].n1 <= MAXFILE * BSIZE
      BY <1>w, <2>1 DEF CallOK
    <2>3. th[q].tot \in Nat /\ th[q].n1 \in Nat
      BY <2>1 DEF Call
    <2>4. ino[q] \in Inum
      BY <2>2, WriterFile
    <2> QED
      BY <1>0, <1>1, <1>w, <2>1, <2>2, <2>3, <2>4 DEF From, Truncating
  <1>15. ChunksFlat'
    <2> SUFFICES ASSUME NEW q \in Proc, th'[q].pc = "writei",
                        NEW x \in off'[q] .. off'[q] + th'[q].tot - 1
                 PROVE  Right(ino[q], x)'
      BY DEF ChunksFlat
    <2>j. PICK j : j = ino[q]
      OBVIOUS
    <2>1. ASSUME th[q].pc = "writei", x \in off[q] .. off[q] + th[q].tot - 1 PROVE Right(j, x)'
      <3>1. Right(j, x)
        BY <2>1, <2>j DEF ContentInv, ChunksFlat
      <3>2. j \in Inum /\ From(j) = 0 /\ x \in 0 .. MAXFILE * BSIZE - 1
        BY <1>0, <1>w, <2>1, <2>j
      <3> QED
        BY <1>9, <3>1, <3>2
    <2>2. ASSUME q # p PROVE Right(j, x)'
      <3>1. th'[q] = th[q] /\ off'[q] = off[q]
        BY <1>z, <2>2
      <3>2. th[q].pc = "writei" /\ x \in off[q] .. off[q] + th[q].tot - 1
        BY <3>1
      <3> QED
        BY <2>1, <3>2
    <2>3. ASSUME q = p PROVE Right(j, x)'
      <3>1. x \in a .. a + (t.tot + m) - 1 /\ o = a + t.tot
        BY <1>s, <1>z, <2>3
      <3>2. x \in a .. a + t.tot - 1 \/ x \in o .. o + m - 1
        BY <1>0, <1>1, <1>4, <3>1
      <3>3. j = i
        BY <2>3, <2>j
      <3> QED
        BY <1>9, <2>1, <2>3, <3>2, <3>3
    <2>4. Right(j, x)'
      BY <2>2, <2>3
    <2> QED
      <3>1. ino'[q] = j
        BY <2>j
      <3> QED
        BY <2>4, <3>1, OpenAfter
  <1>16. RootMapped'
    <2>1. 1 \in Inum /\ From(1) = 0
      <3>1. LockOK(1) /\ 1 \in Inum
        BY Layout DEF ContentInv
      <3>2. \A q \in Proc : CallOK(q)
        BY DEF ContentInv
      <3>3. ~Truncating(1)
        BY <3>1, <3>2, Parts DEF Truncating, LockOK, CallOK
      <3> QED
        BY <3>1, <3>3 DEF From
    <2> SUFFICES ASSUME RootEndsInside, NEW x \in 0 .. size[1] - 1 PROVE HasByte(1, x)'
      BY DEF RootMapped
    <2>2. HasByte(1, x)
      BY DEF ContentInv, RootMapped
    <2>3. x \in 0 .. MAXFILE * BSIZE - 1
      <3>1. size[1] \in 0 .. MAXFILE * BSIZE
        BY <2>1, Parts
      <3> QED
        BY <1>0, <3>1
    <2> QED
      BY <1>9, <2>1, <2>2, <2>3
  <1> DEFINE lo == a \div BSIZE
             hi == (a + t.tot + m - 1) \div BSIZE
  <1>17. hi = bn
    <2>1. o + m - 1 \in Nat /\ o <= o + m - 1 /\ o + m - 1 < o + (BSIZE - (o % BSIZE))
      BY <1>2, <1>3, <1>4
    <2>2. a + t.tot + m - 1 = o + m - 1
      BY <1>0, <1>1, <1>4
    <2> QED
      BY <1>2, <2>1, <2>2, SameBlock
  <1>h. lo \in Nat /\ lo <= bn /\ bn - lo + 3 <= LOGSIZE - 2
    <2>1. t.tot + m \in Nat /\ 0 < t.tot + m /\ t.tot + m <= MaxChunk
      <3>1. MaxChunk \in Int
        <4>0. LOGSIZE \in Nat /\ LOGSIZE >= 6
          BY FileContentAssumption
        <4>1. BSIZE \in Int /\ (LOGSIZE - 1 - 1 - 2) \div 2 \in Int
          BY <4>0, Layout
        <4> QED
          BY <4>1 DEF MaxChunk
      <3> QED
        BY <1>1, <1>4, <3>1
    <2>2. a + (t.tot + m) - 1 = a + t.tot + m - 1
      BY <1>0, <1>1, <1>4
    <2>3. hi - lo + 3 <= LOGSIZE - 2 /\ lo <= hi /\ lo \in Nat
      BY <1>0, <2>1, <2>2, ChunkSpan
    <2> QED
      BY <1>17, <2>3
  <1>p. \A k \in 0 .. MAXFILE - 1 : Mapped(i, k) # 0 => Mapped(i, k)' = Mapped(i, k)
    <2> SUFFICES ASSUME NEW k \in 0 .. MAXFILE - 1, Mapped(i, k) # 0 PROVE Mapped(i, k)' = Mapped(i, k)
      OBVIOUS
    <2>0. k \in From(i) .. MAXFILE /\ k # MAXFILE
      BY <1>3, <1>f
    <2>1. Mapped(i, k) = BlockAt(i, k) /\ Mapped(i, k)' = BlockAt(i, k)'
      BY <2>0 DEF BlockAt
    <2>2. CASE k = bn
      BY <1>10, <1>u, <2>1, <2>2 DEF Fetched
    <2>3. CASE k # bn
      BY <1>1, <1>10, <2>0, <2>1, <2>3 DEF Elsewhere
    <2> QED
      BY <2>2, <2>3
  <1>r. /\ addrs[i][NDIRECT] # 0 => addrs'[i][NDIRECT] = addrs[i][NDIRECT]
        /\ Indirect(bn) => addrs'[i][NDIRECT] = ind
    <2>1. \A j \in Inum : BlockAt(j, MAXFILE) = addrs[j][NDIRECT] /\ BlockAt(j, MAXFILE)' = addrs'[j][NDIRECT]
      BY DEF BlockAt
    <2>2. CASE Indirect(bn)
      BY <1>1, <1>10, <1>u, <2>1, <2>2 DEF Fetched
    <2>3. CASE ~Indirect(bn)
      <3>1. Elsewhere(i, bn, i, MAXFILE) /\ MAXFILE \in From(i) .. MAXFILE
        BY <1>3, <1>f, <2>3 DEF Elsewhere
      <3> QED
        BY <1>1, <1>10, <2>1, <2>3, <3>1
    <2> QED
      BY <2>2, <2>3
  <1>m. Mapped(i, bn)' = addr
    <2>1. Mapped(i, bn)' = BlockAt(i, bn)'
      BY <1>3 DEF BlockAt
    <2> QED
      BY <1>10, <2>1
  <1>18. /\ 0 \notin logged'[p]
         /\ \A c \in logged'[p] : c \in {bmapstart, addrs'[i][NDIRECT]} \/ \E k \in lo .. bn : c = Mapped(i, k)'
    <2>1. LoggedIs(p)
      BY DEF ContentInv
    <2>2. 0 \notin logged[p] /\ (t.tot = 0 => logged[p] = {})
      BY <2>1 DEF LoggedIs
    <2>3. \A c \in logged[p] :
             \/ c \in {bmapstart, addrs[i][NDIRECT]}
             \/ \E k \in lo .. ((a + t.tot - 1) \div BSIZE) : c = Mapped(i, k)
      BY <2>1 DEF LoggedIs
    <2>4. ASSUME NEW c \in logged[p]
          PROVE  c \in {bmapstart, addrs'[i][NDIRECT]} \/ \E k \in lo .. bn : c = Mapped(i, k)'
      <3>0. c # 0 /\ t.tot # 0
        BY <2>2
      <3>1. CASE c \in {bmapstart, addrs[i][NDIRECT]}
        BY <1>r, <3>0, <3>1
      <3>2. CASE \E k \in lo .. ((a + t.tot - 1) \div BSIZE) : c = Mapped(i, k)
        <4>1. PICK k \in lo .. ((a + t.tot - 1) \div BSIZE) : c = Mapped(i, k)
          BY <3>2
        <4>2. o - 1 \in Nat /\ a + t.tot - 1 = o - 1 /\ o - 1 <= o
          BY <1>0, <1>1, <3>0
        <4>3. (o - 1) \div BSIZE <= bn /\ (o - 1) \div BSIZE \in Nat
          BY <1>2, <4>2, DivMono, Offset
        <4>4. k \in lo .. bn
          BY <1>3, <1>h, <4>1, <4>2, <4>3
        <4>5. k \in 0 .. MAXFILE - 1
          BY <1>3, <1>h, <4>4
        <4> QED
          BY <1>p, <3>0, <4>1, <4>4, <4>5
      <3> QED
        BY <2>3, <3>1, <3>2
    <2>5. ASSUME NEW c \in L
          PROVE  c # 0 /\ (c \in {bmapstart, addrs'[i][NDIRECT]} \/ \E k \in lo .. bn : c = Mapped(i, k)')
      <3>1. bn \in lo .. bn
        BY <1>3, <1>h
      <3> QED
        BY <1>d, <1>m, <1>r, <1>u, <1>v, <3>1
    <2> QED
      BY <1>z, <2>2, <2>4, <2>5
  <1>19. ASSUME NEW q \in Proc PROVE LoggedIs(q)'
    <2>1. CASE q = p
      <3>1. th'[p].tot # 0 /\ off'[p] + th'[p].tot - 1 = a + t.tot + m - 1 /\ off'[p] = a /\ ino'[p] = i
        <4>1. th'[p].tot = t.tot + m /\ off'[p] = a /\ ino'[p] = i
          BY <1>s, <1>z
        <4> QED
          BY <1>0, <1>1, <1>4, <4>1
      <3>2. \A c \in logged'[p] :
              \/ c \in {bmapstart, addrs'[i][NDIRECT]}
              \/ \E k \in (off'[p] \div BSIZE) .. ((off'[p] + th'[p].tot - 1) \div BSIZE) : c = Mapped(i, k)'
        BY <1>17, <1>18, <3>1
      <3>3. 0 \notin logged'[p]
        BY <1>18
      <3>4. LoggedIs(p)'
        BY <3>1, <3>2, <3>3, OpenAfter
      <3> QED
        BY <2>1, <3>4
    <2>2. CASE q # p /\ th[q].pc = "writei"
      <3> DEFINE lq == off[q] \div BSIZE
                 hq == (off[q] + th[q].tot - 1) \div BSIZE
      <3>0. PICK j : j = ino[q]
        OBVIOUS
      <3>1. /\ j \in Inum /\ From(j) = 0 /\ j # i /\ off[q] \in Nat /\ th[q].tot \in Nat
            /\ off[q] + th[q].tot <= MAXFILE * BSIZE
        BY <1>w, <2>2, <3>0
      <3>2. \A k \in 0 .. MAXFILE : BlockAt(j, k)' = BlockAt(j, k)
        BY <1>10, <3>1 DEF Elsewhere
      <3>3. addrs'[j][NDIRECT] = addrs[j][NDIRECT] /\ \A k \in 0 .. MAXFILE - 1 : Mapped(j, k)' = Mapped(j, k)
        <4>1. MAXFILE \in 0 .. MAXFILE /\ \A k \in 0 .. MAXFILE - 1 : k \in 0 .. MAXFILE /\ k # MAXFILE
          BY <1>3
        <4> QED
          BY <3>2, <4>1 DEF BlockAt
      <3>4. /\ th[q].tot = 0 => logged[q] = {}
            /\ 0 \notin logged[q]
            /\ \A c \in logged[q] :
                 \/ c \in {bmapstart, addrs[j][NDIRECT]}
                 \/ \E k \in lq .. hq : c = Mapped(j, k)
        BY <2>2, <3>0 DEF ContentInv, LoggedIs
      <3>5. th[q].tot # 0 => \A k \in lq .. hq : k \in 0 .. MAXFILE - 1
        <4> SUFFICES ASSUME th[q].tot # 0 PROVE \A k \in lq .. hq : k \in 0 .. MAXFILE - 1
          OBVIOUS
        <4>1. off[q] + th[q].tot - 1 \in Nat /\ off[q] + th[q].tot - 1 < MAXFILE * BSIZE
          BY <1>0, <3>1
        <4>2. lq \in Nat /\ hq \in 0 .. MAXFILE - 1
          BY <3>1, <4>1, Offset
        <4> QED
          BY <1>3, <4>2
      <3>6. \A c \in logged[q] :
                 \/ c \in {bmapstart, addrs'[j][NDIRECT]}
                 \/ \E k \in lq .. hq : c = Mapped(j, k)'
        BY <3>3, <3>4, <3>5
      <3>7. \A k : Mapped(ino[q], k)' = Mapped(j, k)'
        BY <3>0 DEF Mapped, Indirect
      <3> QED
        BY <1>z, <2>2, <3>0, <3>4, <3>6, <3>7 DEF LoggedIs
    <2>3. CASE q # p /\ th[q].pc # "writei"
      BY <1>z, <2>3 DEF LoggedIs
    <2> QED
      BY <2>1, <2>2, <2>3
  <1>20. ChunkFits'
    <2>1. Cardinality(logged'[p]) <= LOGSIZE - 1
      <3> DEFINE f == [k \in Nat |-> Mapped(i, k)']
      <3>1. Covered(logged'[p], addrs'[i][NDIRECT], f, lo, bn)
        BY <1>18, <1>h, <1>3 DEF Covered
      <3> HIDE DEF f, lo
      <3>2. Cardinality(logged'[p]) \in Nat /\ Cardinality(logged'[p]) <= bn - lo + 3
        BY <1>3, <1>h, <3>1, RangeBound
      <3> QED
        BY <1>3, <1>h, <3>2, FileContentAssumption
    <2> QED
      BY <1>z, <2>1, FitsNow DEF ChunkFits
  <1>21. MkfsAlone'
    BY DEF MkfsAlone
  <1> QED
    BY <1>8, <1>11, <1>12, <1>13, <1>14, <1>15, <1>16, <1>19, <1>20, <1>21 DEF ContentInv, BlocksInv

\* A turn of writei's loop.  When balloc panics nothing else changes.
LEMMA StepWritei ==
  ASSUME ContentInv, NEW p \in Proc, writei(p)
  PROVE  ContentInv'
  <1> DEFINE t == th[p]
             i == ino[p]
             o == off[p] + t.tot
             bn == o \div BSIZE
             m == Min({t.n1 - t.tot, BSIZE - (o % BSIZE)})
             b == bmap(i, bn)
  <1>0. /\ phase = "up" /\ t.pc = "writei" /\ t.tot < t.n1
        /\ UNCHANGED <<phase, freeblock, size, lock, ino, off>>
    BY DEF writei, At, Same
  <1>1. CASE /\ Wanted(i, bn) <= Cardinality(Unmarked(used))
             /\ used' = b.used /\ addrs' = b.addrs
             /\ blk' = [b.blk EXCEPT ![b.addr] = Written(@, i, o, m)]
             /\ logged' = [logged EXCEPT ![p] = @ \cup b.logged \cup {b.addr}]
             /\ Goto(p, [t EXCEPT !.tot = @ + m])
    <2>0. BlocksInv /\ used \subseteq 0 .. FSSIZE - 1
      BY Parts, BlocksOf
    <2>1. i \in Inum /\ From(i) = 0 /\ bn \in 0 .. MAXFILE - 1
      <3>1. CallOK(p) /\ t \in Call /\ off[p] \in Nat /\ p # NoProc /\ MAXFILE * BSIZE \in Nat
        BY Parts DEF ContentInv
      <3>2. i # 0 /\ lock[i] = p /\ off[p] + t.n1 <= MAXFILE * BSIZE
        BY <1>0, <3>1 DEF CallOK
      <3>3. t.tot \in Nat /\ t.n1 \in Nat
        BY <3>1 DEF Call
      <3>4. o \in Nat /\ o < MAXFILE * BSIZE
        BY <1>0, <3>1, <3>2, <3>3
      <3>5. bn \in 0 .. MAXFILE - 1
        BY <3>4, Offset
      <3>6. i \in Inum
        BY <3>2, WriterFile
      <3>7. From(i) = 0
        BY <1>0, <3>1, <3>2 DEF From, Truncating
      <3> QED
        BY <3>5, <3>6, <3>7
    <2>2. PICK ind : Found(b, i, bn, ind, o, m)
      BY <1>0, <1>1, <2>0, <2>1, Bmap
    <2>3. th' = [th EXCEPT ![p] = [th[p] EXCEPT !.tot = @ + m]]
      BY <1>1 DEF Goto
    <2> HIDE DEF b
    <2> QED
      BY <1>0, <1>1, <2>2, <2>3, StepWritten
  <1>2. CASE UNCHANGED <<used, addrs, blk, logged, th>>
    <2>1. Typed'
      BY <1>0, <1>2 DEF ContentInv, Typed, TypeOK
    <2>2. \A j : (Truncating(j)' <=> Truncating(j)) /\ From(j)' = From(j)
      BY <1>0, <1>2 DEF From, Truncating
    <2>3. Quiet
      BY <1>0, <1>2, <2>2 DEF Quiet, Marked, Image
    <2>4. BlocksInv'
      BY <2>3, BlocksOf, QuietBlocks
    <2>5. \A j, k : (Right(j, k)' <=> Right(j, k)) /\ (HasByte(j, k)' <=> HasByte(j, k)) /\ Mapped(j, k)' = Mapped(j, k)
      BY <1>2 DEF Right, HasByte, ByteAt, Mark, Mapped, Indirect
    <2>6. FilesFlat' /\ RootMapped'
      BY <1>0, <2>2, <2>5 DEF ContentInv, FilesFlat, RootMapped
    <2>7. ChunksFlat'
      BY <1>0, <1>2 DEF ContentInv, ChunksFlat, Right, HasByte, ByteAt, Mark, Mapped, Indirect
    <2>8. (\A q \in Proc : CallOK(q))' /\ (\A j \in Inum : LockOK(j))'
      BY <1>0, <1>2 DEF ContentInv, CallOK, LockOK
    <2>9. (\A q \in Proc : LoggedIs(q))' /\ ChunkFits' /\ MkfsAlone'
      BY <1>0, <1>2 DEF ContentInv, LoggedIs, ChunkFits, MkfsAlone, Mapped, Indirect
    <2> QED
      BY <2>1, <2>4, <2>6, <2>7, <2>8, <2>9 DEF ContentInv, BlocksInv
  <1> QED
    BY <1>1, <1>2 DEF writei

-----------------------------------------------------------------------------
(***************************************************************************)
(* mkfs.                                                                   *)
(***************************************************************************)

\* While mkfs works no process writes or truncates.
LEMMA NobodyWrites ==
  ASSUME ContentInv, phase = "mkfs"
  PROVE  /\ \A j \in Inum : lock[j] = NoProc /\ ~Truncating(j) /\ From(j) = 0
         /\ \A p \in Proc : th[p].pc \notin {"writei", "itrunc"}
  <1>1. \A j \in Inum : lock[j] = NoProc
    BY DEF ContentInv, MkfsAlone
  <1>2. ASSUME NEW p \in Proc, th[p].pc \in {"writei", "itrunc"} PROVE FALSE
    <2>1. CallOK(p) /\ p # NoProc
      BY Parts DEF ContentInv
    <2>2. CASE th[p].pc = "writei"
      <3>1. ino[p] # 0 /\ lock[ino[p]] = p
        BY <2>1, <2>2 DEF CallOK
      <3>2. ino[p] \in Inum
        BY <3>1, WriterFile
      <3> QED
        BY <1>1, <2>1, <3>1, <3>2
    <2>3. CASE th[p].pc = "itrunc"
      BY <1>1, <2>1, <2>3 DEF CallOK
    <2> QED
      BY <1>2, <2>2, <2>3
  <1> QED
    BY <1>1, <1>2 DEF Truncating, From

\* iappend maps its block as bmap does: the blocks that mkfs has not counted are zero.
LEMMA IappendMaps ==
  ASSUME ContentInv, NEW i \in Inum, NEW n \in 1 .. BSIZE, iappend(i, n),
         NEW o, o = size[i], NEW bn, bn = o \div BSIZE, bn \in 0 .. MAXFILE - 1
  PROVE  \E addr, ind : Fetched(i, bn, addr, ind) /\ MapStep(i, bn, addr, ind, o, n)
  <1> DEFINE r == addrs[i][NDIRECT]
             newind == Indirect(bn) /\ r = 0
             ind == IF newind THEN freeblock ELSE r
             addr == IF Mapped(i, bn) # 0 THEN Mapped(i, bn) ELSE IF newind THEN freeblock + 1 ELSE freeblock
             written == Written(blk[addr], i, o, n)
             f == Fresh(i, bn, addr, ind)
             w == (IF newind THEN 1 ELSE 0) + (IF Mapped(i, bn) = 0 THEN 1 ELSE 0)
  <1>0. /\ phase = "mkfs" /\ freeblock + w <= FSSIZE /\ freeblock' = freeblock + w
        /\ addrs' = [addrs EXCEPT ![i][IF Indirect(bn) THEN NDIRECT ELSE bn] = IF Indirect(bn) THEN ind ELSE addr]
        /\ blk' = IF Indirect(bn) THEN [blk EXCEPT ![ind][bn - NDIRECT] = addr, ![addr] = written]
                  ELSE [blk EXCEPT ![addr] = written]
        /\ UNCHANGED <<phase, used, lock, ino, off, th, logged, panicked>>
    BY DEF iappend, Wanted
  <1>1. /\ nmeta \in Nat /\ FSSIZE \in Nat /\ Data = nmeta .. FSSIZE - 1 /\ 0 \notin Data
        /\ MAXFILE \in Nat /\ bn \in 0 .. MAXFILE /\ bn # MAXFILE /\ MAXFILE \in 0 .. MAXFILE
        /\ freeblock \in nmeta .. FSSIZE /\ blk \in [Data -> [0 .. BSIZE - 1 -> Nat]]
    <2>1. MAXFILE \in Nat
      BY Layout
    <2>2. bn \in 0 .. MAXFILE /\ bn # MAXFILE /\ MAXFILE \in 0 .. MAXFILE
      BY <2>1
    <2> QED
      BY <2>1, <2>2, Layout, Parts
  <1>2. Marked = 0 .. freeblock - 1 /\ Marked' = 0 .. (freeblock + w) - 1
    BY <1>0 DEF Marked, Image
  <1>f. From(i) = 0
    BY <1>0, NobodyWrites
  <1>b. BlocksInv
    BY BlocksOf
  <1>h. /\ Mapped(i, bn) \in {0} \cup Data /\ r \in {0} \cup Data
        /\ Mapped(i, bn) # 0 => bn \in Held(i) /\ BlockAt(i, bn) = Mapped(i, bn)
        /\ r # 0 => MAXFILE \in Held(i) /\ BlockAt(i, MAXFILE) = r
    <2>1. BlockAt(i, bn) = Mapped(i, bn) /\ BlockAt(i, MAXFILE) = r
      BY <1>1 DEF BlockAt
    <2>2. BlockAt(i, bn) \in {0} \cup Data /\ BlockAt(i, MAXFILE) \in {0} \cup Data
      BY <1>1, <1>b, <1>f DEF BlocksInv, PlacesHoldBlocks
    <2> QED
      BY <1>1, <1>f, <2>1, <2>2, HeldIs
  <1>3. newind => Mapped(i, bn) = 0
    BY DEF Mapped
  <1>4. /\ newind => w = 2 /\ ind = freeblock /\ addr = freeblock + 1
        /\ ~newind => ind = r
        /\ ~newind /\ Mapped(i, bn) = 0 => w = 1 /\ addr = freeblock
        /\ Mapped(i, bn) # 0 => w = 0 /\ addr = Mapped(i, bn)
        /\ w \in Nat
    BY <1>3
  <1>5. newind <=> Indirect(bn) /\ r = 0
    OBVIOUS
  <1>6. written = Written(blk[addr], i, o, n)
    OBVIOUS
  <1> HIDE DEF newind, ind, addr, w, written
  <1>7. addr \in Data /\ (Mapped(i, bn) = 0 => addr \notin Marked)
    BY <1>0, <1>1, <1>2, <1>4, <1>h
  <1>8. ASSUME Indirect(bn)
        PROVE  ind \in Data /\ ind # addr /\ (r # 0 => ind = r) /\ (r = 0 => ind \notin Marked)
    <2>1. CASE r = 0
      <3>1. newind
        BY <1>5, <1>8, <2>1
      <3> QED
        BY <1>0, <1>1, <1>2, <1>4, <2>1, <3>1
    <2>2. CASE r # 0
      <3>1. ind = r /\ ind \in Data /\ ind \in Marked
        BY <1>4, <1>5, <1>b, <1>h, <2>2 DEF BlocksInv, MarkedIsHeld
      <3>2. ind # addr
        <4>1. CASE Mapped(i, bn) = 0
          BY <1>7, <3>1, <4>1
        <4>2. CASE Mapped(i, bn) # 0
          BY <1>1, <1>4, <1>b, <1>h, <2>2, <3>1, <4>2 DEF BlocksInv, PlacesDiffer
        <4> QED
          BY <4>1, <4>2
      <3> QED
        BY <2>2, <3>1, <3>2
    <2> QED
      BY <2>1, <2>2
  <1>9. Fetched(i, bn, addr, ind)
    BY <1>4, <1>7, <1>8 DEF Fetched
  <1>10. \A b \in Data : Zeroed(i, bn, addr, ind, b) = blk[b]
    <2> SUFFICES ASSUME NEW b \in f PROVE blk[b] = Zeroes
      BY DEF Zeroed
    <2>1. b \in Data /\ b \notin Marked
      BY <1>7, <1>8 DEF Fresh
    <2>2. b \in freeblock .. FSSIZE - 1
      BY <1>1, <1>2, <2>1
    <2> QED
      BY <1>0, <2>2 DEF ContentInv, MkfsAlone
  <1>11. Marked' = Marked \cup f
    <2>n. freeblock \in Nat
      BY <1>1
    <2>1. f = {b \in Data : \/ b = addr /\ Mapped(i, bn) = 0
                            \/ b = ind /\ newind}
      BY <1>5 DEF Fresh
    <2>2. CASE newind
      <3>1. f = {freeblock, freeblock + 1}
        BY <1>3, <1>4, <1>5, <1>7, <1>8, <2>1, <2>2
      <3>2. Marked' = 0 .. (freeblock + 2) - 1
        BY <1>2, <1>4, <2>2
      <3>3. \A x : x \in 0 .. (freeblock + 2) - 1 <=> x \in 0 .. freeblock - 1 \/ x \in {freeblock, freeblock + 1}
        BY <2>n
      <3> QED
        BY <1>2, <3>1, <3>2, <3>3
    <2>3. CASE ~newind /\ Mapped(i, bn) = 0
      <3>1. f = {freeblock}
        BY <1>4, <1>7, <2>1, <2>3
      <3>2. Marked' = 0 .. (freeblock + 1) - 1
        BY <1>2, <1>4, <2>3
      <3>3. \A x : x \in 0 .. (freeblock + 1) - 1 <=> x \in 0 .. freeblock - 1 \/ x \in {freeblock}
        BY <2>n
      <3> QED
        BY <1>2, <3>1, <3>2, <3>3
    <2>4. CASE ~newind /\ Mapped(i, bn) # 0
      <3>1. f = {}
        BY <2>1, <2>4
      <3>2. Marked' = 0 .. freeblock - 1
        BY <1>1, <1>2, <1>4, <2>4
      <3> QED
        BY <1>2, <3>1, <3>2
    <2> QED
      BY <2>2, <2>3, <2>4
  <1>12. addrs' = IF Indirect(bn) THEN [addrs EXCEPT ![i][NDIRECT] = ind]
                  ELSE [addrs EXCEPT ![i][bn] = addr]
    BY <1>0
  <1>13. blk' = [b \in Data |->
                   IF b = addr THEN Written(Zeroed(i, bn, addr, ind, b), i, o, n)
                   ELSE IF b = ind /\ Indirect(bn)
                        THEN [Zeroed(i, bn, addr, ind, b) EXCEPT ![bn - NDIRECT] = addr]
                        ELSE Zeroed(i, bn, addr, ind, b)]
    <2>1. blk' = [b \in Data |->
                    IF b = addr THEN written
                    ELSE IF b = ind /\ Indirect(bn) THEN [blk[b] EXCEPT ![bn - NDIRECT] = addr] ELSE blk[b]]
      <3>1. CASE ~Indirect(bn)
        BY <1>0, <1>1, <1>7, <3>1
      <3>2. CASE Indirect(bn)
        <4>1. blk' = [[blk EXCEPT ![ind] = [blk[ind] EXCEPT ![bn - NDIRECT] = addr]] EXCEPT ![addr] = written]
          BY <1>0, <3>2
        <4>2. ind \in Data /\ ind # addr
          BY <1>8, <3>2
        <4> QED
          BY <1>1, <1>7, <3>2, <4>1, <4>2
      <3> QED
        BY <3>1, <3>2
    <2> QED
      BY <1>6, <1>7, <1>10, <2>1
  <1>14. \A j \in Inum : (Truncating(j)' <=> Truncating(j)) /\ From(j)' = From(j)
    BY <1>0 DEF Truncating, From
  <1>15. MapStep(i, bn, addr, ind, o, n)
    BY <1>0, <1>11, <1>12, <1>13, <1>14 DEF MapStep
  <1> QED
    BY <1>9, <1>15

\* iappend of one block or less.
LEMMA StepIappend ==
  ASSUME ContentInv, NEW i \in Inum, NEW n \in 1 .. BSIZE, iappend(i, n)
  PROVE  ContentInv'
  <1>0. /\ phase = "mkfs" /\ size[i] \div BSIZE < MAXFILE /\ (size[i] % BSIZE) + n <= BSIZE
        /\ freeblock + Wanted(i, size[i] \div BSIZE) <= FSSIZE
        /\ freeblock' = freeblock + Wanted(i, size[i] \div BSIZE)
        /\ size' = [size EXCEPT ![i] = @ + n]
        /\ UNCHANGED <<phase, used, lock, ino, off, th, logged, panicked>>
    BY DEF iappend
  <1>1. PICK o, bn : o = size[i] /\ bn = o \div BSIZE
    OBVIOUS
  <1>2. /\ o \in Nat /\ bn \in Nat /\ bn \in 0 .. MAXFILE - 1 /\ BSIZE \in Nat \ {0} /\ MAXFILE \in Nat
        /\ MAXFILE * BSIZE \in Nat /\ o % BSIZE \in 0 .. BSIZE - 1 /\ n \in Nat /\ 0 < n
        /\ n <= BSIZE - (o % BSIZE)
    <2>1. o \in Nat /\ MAXFILE * BSIZE \in Nat /\ BSIZE \in Nat \ {0} /\ MAXFILE \in Nat
      BY <1>1, Parts, Layout
    <2>2. bn \in Nat /\ o % BSIZE \in 0 .. BSIZE - 1
      BY <1>1, <2>1, Offset
    <2> QED
      BY <1>0, <1>1, <2>1, <2>2
  <1>3. PICK addr, ind : Fetched(i, bn, addr, ind) /\ MapStep(i, bn, addr, ind, o, n)
    BY <1>1, <1>2, IappendMaps
  <1>b. BlocksInv
    BY BlocksOf
  <1>f. /\ \A j \in Inum : lock[j] = NoProc /\ ~Truncating(j) /\ From(j) = 0
        /\ \A p \in Proc : th[p].pc \notin {"writei", "itrunc"}
    BY <1>0, NobodyWrites
  <1>4. BlocksInv'
    BY <1>2, <1>3, <1>b, <1>f, MapBlocks
  <1>5. /\ \A j \in Inum : \A x \in 0 .. MAXFILE * BSIZE - 1 :
              (HasByte(j, x) => HasByte(j, x)') /\ (Right(j, x) => Right(j, x)')
        /\ \A x \in o .. o + n - 1 : Right(i, x)'
    BY <1>1, <1>2, <1>3, <1>b, <1>f, MapBytes
  <1>6. o + n <= MAXFILE * BSIZE
    <2>1. o = BSIZE * bn + (o % BSIZE)
      BY <1>1, <1>2, Offset
    <2>2. BSIZE * (bn + 1) <= BSIZE * MAXFILE
      <3>1. bn + 1 \in Nat /\ bn + 1 <= MAXFILE
        BY <1>2
      <3> QED
        BY <1>2, <3>1, MulMono
    <2>3. BSIZE * (bn + 1) = BSIZE * bn + BSIZE /\ BSIZE * bn \in Nat /\ BSIZE * MAXFILE = MAXFILE * BSIZE
      BY <1>2
    <2> QED
      BY <1>2, <2>1, <2>2, <2>3
  <1>z. size'[i] = o + n /\ \A j \in Inum \ {i} : size'[j] = size[j]
    BY <1>0, <1>1, Parts
  <1>7. Typed'
    <2>1. Typed
      BY DEF ContentInv
    <2>2. addrs' \in [Inum -> [0 .. NDIRECT -> {0} \cup Data]] /\ blk' \in [Data -> [0 .. BSIZE - 1 -> Nat]]
      BY <1>4 DEF BlocksInv, Tables
    <2>3. size' \in [Inum -> 0 .. MAXFILE * BSIZE]
      <3>1. o + n \in 0 .. MAXFILE * BSIZE
        BY <1>2, <1>6
      <3>2. size' = [size EXCEPT ![i] = o + n]
        BY <1>0, <1>1
      <3> QED
        BY <2>1, <3>1, <3>2 DEF Typed, TypeOK
    <2>4. freeblock' \in nmeta .. FSSIZE
      <3>1. Wanted(i, bn) \in Nat
        BY DEF Wanted
      <3>2. freeblock \in nmeta .. FSSIZE /\ nmeta \in Nat /\ FSSIZE \in Nat
        BY Parts, Layout
      <3> QED
        BY <1>0, <1>1, <3>1, <3>2
    <2> QED
      BY <1>0, <2>1, <2>2, <2>3, <2>4 DEF Typed, TypeOK
  <1>8. MkfsAlone'
    <2> SUFFICES ASSUME NEW b \in freeblock' .. FSSIZE - 1 PROVE blk'[b] = Zeroes
      BY <1>0, <1>f DEF MkfsAlone
    <2>1. freeblock' \in nmeta .. FSSIZE /\ nmeta \in Nat /\ FSSIZE \in Nat /\ Data = nmeta .. FSSIZE - 1
          /\ freeblock \in nmeta .. FSSIZE
      BY <1>7, Layout, Parts DEF Typed
    <2>2. b \in Data /\ b \notin Marked'
      BY <1>0, <2>1 DEF Marked, Image
    <2>3. b \notin Marked /\ b \notin Fresh(i, bn, addr, ind)
      BY <1>3, <2>2 DEF MapStep
    <2>4. BlockAt(i, bn)' = addr /\ (Indirect(bn) => BlockAt(i, MAXFILE)' = ind)
      BY <1>2, <1>3, <1>b, <1>f, PlacesAfter
    <2>5. b # addr /\ (Indirect(bn) => b # ind)
      <3>1. From(i)' = 0 /\ MAXFILE \in 0 .. MAXFILE /\ bn \in 0 .. MAXFILE
        BY <1>2, <1>3, <1>f DEF MapStep
      <3>2. \A k \in 0 .. MAXFILE : BlockAt(i, k)' # 0 => k \in Held(i)'
        BY <3>1 DEF Held, Left
      <3>3. \A k \in 0 .. MAXFILE : BlockAt(i, k)' # 0 => BlockAt(i, k)' \in Marked'
        BY <1>4, <3>2 DEF BlocksInv, MarkedIsHeld
      <3>4. addr # 0 /\ (Indirect(bn) => ind # 0)
        BY <1>3, Layout DEF Fetched
      <3> QED
        BY <2>2, <2>4, <3>1, <3>3, <3>4
    <2>6. blk'[b] = blk[b]
      BY <1>3, <2>2, <2>3, <2>5 DEF MapStep, Zeroed
    <2>7. b \in freeblock .. FSSIZE - 1
      BY <1>0, <2>1, <2>2, <2>3 DEF Marked, Image
    <2> QED
      BY <1>0, <2>6, <2>7 DEF ContentInv, MkfsAlone
  <1>9. \A p \in Proc : CallOK(p)'
    <2> SUFFICES ASSUME NEW p \in Proc PROVE CallOK(p)'
      OBVIOUS
    <2>1. CallOK(p)
      BY DEF ContentInv
    <2> QED
      BY <1>0, <1>f, <2>1 DEF CallOK
  <1>10. \A j \in Inum : LockOK(j)'
    BY <1>0, <1>f DEF LockOK
  <1>s. ASSUME NEW j \in Inum, NEW x \in 0 .. size[j] - 1 PROVE x \in 0 .. MAXFILE * BSIZE - 1
    <2>1. size[j] \in 0 .. MAXFILE * BSIZE
      BY Parts
    <2> QED
      BY <1>2, <2>1
  <1>x. ASSUME NEW x \in 0 .. size'[i] - 1 PROVE x \in 0 .. size[i] - 1 \/ x \in o .. o + n - 1
    BY <1>1, <1>2, <1>z
  <1>11. FilesFlat'
    <2> SUFFICES ASSUME NEW j \in Inum \ {1}, NEW x \in 0 .. size'[j] - 1 PROVE Right(j, x)'
      BY DEF FilesFlat
    <2>1. \A y \in 0 .. size[j] - 1 : Right(j, y)'
      BY <1>5, <1>f, <1>s, FlatNow
    <2>2. CASE j = i
      BY <1>5, <1>x, <2>1, <2>2
    <2>3. CASE j # i
      BY <1>z, <2>1, <2>3
    <2> QED
      BY <2>2, <2>3
  <1>12. ChunksFlat'
    BY <1>0, <1>f DEF ChunksFlat
  <1>13. RootMapped'
    <2> SUFFICES ASSUME RootEndsInside, NEW x \in 0 .. size'[1] - 1 PROVE HasByte(1, x)'
      BY DEF RootMapped
    <2>0. 1 \in Inum
      BY Layout
    <2>1. \A y \in 0 .. size[1] - 1 : HasByte(1, y)'
      BY <1>5, <1>s, <2>0 DEF ContentInv, RootMapped
    <2>2. CASE 1 = i
      <3>1. \A y \in o .. o + n - 1 : HasByte(i, y)'
        BY <1>5 DEF Right
      <3> QED
        BY <1>x, <2>1, <2>2, <3>1
    <2>3. CASE 1 # i
      BY <1>z, <2>0, <2>1, <2>3
    <2> QED
      BY <2>2, <2>3
  <1>14. \A p \in Proc : LoggedIs(p)'
    BY <1>0, <1>f DEF LoggedIs
  <1>15. ChunkFits'
    BY <1>0 DEF ContentInv, ChunkFits
  <1> QED
    BY <1>4, <1>7, <1>8, <1>9, <1>10, <1>11, <1>12, <1>13, <1>14, <1>15 DEF ContentInv, BlocksInv

\* The end of mkfs: the last block of the root directory is there when the directory ends
\* inside of it.
LEMMA StepMkfsEnd ==
  ASSUME ContentInv, mkfs_end
  PROVE  ContentInv'
  <1> DEFINE q == ROOTSIZE \div BSIZE
             e == (q + 1) * BSIZE
  <1>0. /\ phase = "mkfs" /\ phase' = "up" /\ size[1] = ROOTSIZE /\ used' = Image
        /\ size' = [size EXCEPT ![1] = (@ \div BSIZE + 1) * BSIZE]
        /\ UNCHANGED <<freeblock, blk, addrs, lock, ino, off, th, logged, panicked>>
    BY DEF mkfs_end
  <1>1. /\ BSIZE \in Nat \ {0} /\ MAXFILE \in Nat /\ MAXFILE * BSIZE \in Nat /\ 1 \in Inum
        /\ ROOTSIZE \in Nat /\ ROOTSIZE < MAXFILE * BSIZE
    BY Layout, Parts, FileContentAssumption DEF MAXFILE, NINDIRECT
  <1>2. q \in 0 .. MAXFILE - 1 /\ q \in Nat /\ ROOTSIZE % BSIZE \in 0 .. BSIZE - 1
        /\ ROOTSIZE = BSIZE * q + (ROOTSIZE % BSIZE)
    BY <1>1, Offset
  <1>z. size'[1] = e /\ \A j \in Inum \ {1} : size'[j] = size[j]
    BY <1>0, <1>1, Parts
  <1> HIDE DEF q
  <1>3. e = BSIZE * q + BSIZE /\ e = BSIZE * (q + 1) /\ BSIZE * q \in Nat /\ e \in Nat
    BY <1>1, <1>2
  <1>4. e <= MAXFILE * BSIZE
    <2>1. q + 1 \in Nat /\ q + 1 <= MAXFILE
      BY <1>1, <1>2
    <2>2. BSIZE * (q + 1) <= BSIZE * MAXFILE
      BY <1>1, <2>1, MulMono
    <2>3. BSIZE * MAXFILE = MAXFILE * BSIZE
      BY <1>1
    <2> QED
      BY <1>3, <2>2, <2>3
  <1>f. /\ \A j \in Inum : lock[j] = NoProc /\ ~Truncating(j) /\ From(j) = 0
        /\ \A p \in Proc : th[p].pc \notin {"writei", "itrunc"}
    BY <1>0, NobodyWrites
  <1>5. Quiet
    <2>1. Marked' = Marked
      BY <1>0 DEF Marked
    <2>2. \A j \in Inum : From(j)' = From(j)
      BY <1>0 DEF From, Truncating
    <2> QED
      BY <1>0, <2>1, <2>2 DEF Quiet
  <1>6. BlocksInv'
    BY <1>5, BlocksOf, QuietBlocks
  <1>7. Typed'
    <2>1. Typed
      BY DEF ContentInv
    <2>2. size' \in [Inum -> 0 .. MAXFILE * BSIZE]
      <3>1. e \in 0 .. MAXFILE * BSIZE
        BY <1>1, <1>3, <1>4
      <3>2. size' = [size EXCEPT ![1] = e]
        BY <1>0 DEF q
      <3> QED
        BY <2>1, <3>1, <3>2 DEF Typed, TypeOK
    <2>3. used' \subseteq 0 .. FSSIZE - 1
      <3>1. freeblock \in nmeta .. FSSIZE /\ nmeta \in Nat /\ FSSIZE \in Nat
        BY Parts, Layout
      <3> QED
        BY <1>0, <3>1 DEF Image
    <2> QED
      BY <1>0, <2>1, <2>2, <2>3 DEF Typed, TypeOK
  <1>8. MkfsAlone'
    BY <1>0 DEF MkfsAlone
  <1>9. \A p \in Proc : CallOK(p)'
    <2> SUFFICES ASSUME NEW p \in Proc PROVE CallOK(p)'
      OBVIOUS
    <2>1. CallOK(p)
      BY DEF ContentInv
    <2> QED
      BY <1>0, <1>f, <2>1 DEF CallOK
  <1>10. \A j \in Inum : LockOK(j)'
    BY <1>0, <1>f DEF LockOK
  <1>m. \A j, x : (HasByte(j, x)' <=> HasByte(j, x)) /\ (Right(j, x)' <=> Right(j, x))
    BY <1>0 DEF Right, HasByte, ByteAt, Mark, Mapped, Indirect
  <1>11. FilesFlat'
    <2> SUFFICES ASSUME NEW j \in Inum \ {1}, NEW x \in 0 .. size'[j] - 1 PROVE Right(j, x)'
      BY DEF FilesFlat
    <2> QED
      BY <1>f, <1>m, <1>z, FlatNow
  <1>12. ChunksFlat'
    BY <1>0, <1>f DEF ChunksFlat
  <1>13. RootMapped'
    <2> SUFFICES ASSUME RootEndsInside, NEW x \in 0 .. e - 1 PROVE HasByte(1, x)
      BY <1>m, <1>z DEF RootMapped
    <2>1. \A y \in 0 .. ROOTSIZE - 1 : HasByte(1, y)
      BY <1>0 DEF ContentInv, RootMapped
    <2>2. CASE x < ROOTSIZE
      <3>1. x \in 0 .. ROOTSIZE - 1
        BY <1>1, <1>3, <2>2
      <3> QED
        BY <2>1, <3>1
    <2>3. CASE ~(x < ROOTSIZE)
      <3> DEFINE y == ROOTSIZE - 1
      <3>1. ROOTSIZE % BSIZE # 0
        BY DEF RootEndsInside
      <3>2. /\ y \in Nat /\ x \in Nat /\ ~(y < BSIZE * q) /\ ~(x < BSIZE * q)
            /\ y < BSIZE * (q + 1) /\ x < BSIZE * (q + 1)
        BY <1>1, <1>2, <1>3, <2>3, <3>1
      <3>3. y \div BSIZE \in Nat /\ x \div BSIZE \in Nat /\ q + 1 \in Nat
        BY <1>2, <3>2, Offset
      <3>4. /\ ~(y \div BSIZE < q) /\ y \div BSIZE < q + 1
            /\ ~(x \div BSIZE < q) /\ x \div BSIZE < q + 1
        BY <1>1, <1>2, <3>2, <3>3, DivBound
      <3>5. y \div BSIZE = x \div BSIZE
        BY <1>2, <3>3, <3>4
      <3>6. HasByte(1, y)
        BY <1>1, <2>1, <3>2
      <3> QED
        BY <3>5, <3>6 DEF HasByte
    <2> QED
      BY <2>2, <2>3
  <1>14. \A p \in Proc : LoggedIs(p)'
    BY <1>0, <1>f DEF LoggedIs
  <1>15. ChunkFits'
    BY <1>0 DEF ContentInv, ChunkFits
  <1> QED
    BY <1>6, <1>7, <1>8, <1>9, <1>10, <1>11, <1>12, <1>13, <1>14, <1>15 DEF ContentInv, BlocksInv

-----------------------------------------------------------------------------
(***************************************************************************)
(* The theorems.                                                           *)
(***************************************************************************)

\* The empty disk of mkfs.
LEMMA ContentInit ==
  ASSUME Init
  PROVE  ContentInv
  <1>0. /\ phase = "mkfs" /\ freeblock = nmeta /\ used = {}
        /\ blk = [b \in Data |-> Zeroes] /\ size = [i \in Inum |-> 0]
        /\ addrs = [i \in Inum |-> NoAddrs] /\ lock = [i \in Inum |-> NoProc]
        /\ ino = [p \in Proc |-> 0] /\ off = [p \in Proc |-> 0] /\ th = [p \in Proc |-> Idle]
        /\ logged = [p \in Proc |-> {}]
    BY DEF Init
  <1>1. /\ MAXFILE \in Nat /\ BSIZE \in Nat \ {0} /\ NDIRECT \in Nat /\ MAXFILE * BSIZE \in Nat
        /\ nmeta \in Nat /\ FSSIZE \in Nat /\ nmeta <= FSSIZE /\ NINODES \in Nat
        /\ LOGSIZE \in Nat /\ LOGSIZE >= 6 /\ MAXFILE = NDIRECT + BSIZE
    <2>1. MAXFILE \in Nat /\ BSIZE \in Nat
      BY Layout
    <2>2. MAXFILE * BSIZE \in Nat
      BY <2>1
    <2> QED
      BY <2>2, Layout, FileContentAssumption
  <1>2. Typed
    <2>1. Zeroes \in [0 .. BSIZE - 1 -> Nat] /\ NoAddrs \in [0 .. NDIRECT -> {0} \cup Data]
      BY DEF Zeroes, NoAddrs
    <2>2. 0 \in 0 .. MAXFILE * BSIZE /\ 0 \in 0 .. NINODES /\ nmeta \in nmeta .. FSSIZE
      BY <1>1
    <2>3. Idle \in Call
      BY DEF Idle, Call
    <2>4. TypeOK
      BY <1>0, <2>1, <2>2 DEF TypeOK
    <2> QED
      BY <1>0, <2>2, <2>3, <2>4 DEF Typed
  <1>3. \A i \in Inum : ~Truncating(i) /\ From(i) = 0
    BY <1>0 DEF Truncating, From
  <1>4. \A i \in Inum : \A k \in 0 .. MAXFILE : BlockAt(i, k) = 0
    <2>1. \A k \in 0 .. NDIRECT : NoAddrs[k] = 0
      BY DEF NoAddrs
    <2> QED
      BY <1>0, <1>1, <2>1, AtPlace
  <1>5. \A i \in Inum : Held(i) = {}
    BY <1>3, <1>4 DEF Held, Left
  <1>6. PlacesHoldBlocks /\ PlacesDiffer
    BY <1>3, <1>4, <1>5 DEF PlacesHoldBlocks, PlacesDiffer
  <1>7. MarkedIsHeld
    BY <1>0, <1>1, <1>5 DEF MarkedIsHeld, Marked, Image
  <1>8. MkfsAlone
    BY <1>0, <1>1, Layout DEF MkfsAlone
  <1>9. (\A p \in Proc : CallOK(p)) /\ (\A i \in Inum : LockOK(i))
    BY <1>0 DEF CallOK, LockOK, Idle
  <1>10. FilesFlat /\ ChunksFlat /\ RootMapped
    BY <1>0, Layout DEF FilesFlat, ChunksFlat, RootMapped, Idle
  <1>11. \A p \in Proc : LoggedIs(p)
    BY <1>0 DEF LoggedIs, Idle
  <1>12. ChunkFits
    <2>1. \A p \in Proc : logged[p] = {}
      BY <1>0
    <2>2. Cardinality({}) = 0
      BY FS_EmptySet
    <2> QED
      BY <1>1, <2>1, <2>2 DEF ChunkFits
  <1> QED
    BY <1>2, <1>6, <1>7, <1>8, <1>9, <1>10, <1>11, <1>12 DEF ContentInv

\* A step that changes nothing.
LEMMA ContentStutter ==
  ASSUME ContentInv, UNCHANGED vars
  PROVE  ContentInv'
  <1>0. UNCHANGED <<phase, freeblock, used, blk, size, addrs, lock, ino, off, th, logged, panicked>>
    BY DEF vars
  <1>1. Typed'
    BY <1>0 DEF ContentInv, Typed, TypeOK
  <1>2. \A j : (Truncating(j)' <=> Truncating(j)) /\ From(j)' = From(j)
    BY <1>0 DEF From, Truncating
  <1>3. BlocksInv'
    <2>1. Quiet
      BY <1>0, <1>2 DEF Quiet, Marked, Image
    <2> QED
      BY <2>1, BlocksOf, QuietBlocks
  <1>4. \A j, k : (Right(j, k)' <=> Right(j, k)) /\ (HasByte(j, k)' <=> HasByte(j, k))
    BY <1>0 DEF Right, HasByte, ByteAt, Mark, Mapped, Indirect
  <1>5. FilesFlat' /\ RootMapped'
    BY <1>0, <1>2, <1>4 DEF ContentInv, FilesFlat, RootMapped
  <1>6. ChunksFlat'
    BY <1>0 DEF ContentInv, ChunksFlat, Right, HasByte, ByteAt, Mark, Mapped, Indirect
  <1>7. (\A q \in Proc : CallOK(q))' /\ (\A j \in Inum : LockOK(j))'
    BY <1>0 DEF ContentInv, CallOK, LockOK
  <1>8. (\A q \in Proc : LoggedIs(q))' /\ ChunkFits' /\ MkfsAlone'
    BY <1>0 DEF ContentInv, LoggedIs, ChunkFits, MkfsAlone, Mapped, Indirect
  <1> QED
    BY <1>1, <1>3, <1>5, <1>6, <1>7, <1>8 DEF ContentInv, BlocksInv

\* The inductive invariant holds in every state.
THEOREM ContentCorrect == Spec => []ContentInv
  <1>1. Init => ContentInv
    BY ContentInit
  <1>2. ContentInv /\ [Next]_vars => ContentInv'
    <2> SUFFICES ASSUME ContentInv, [Next]_vars PROVE ContentInv'
      OBVIOUS
    <2>1. CASE \E i \in Inum, n \in 1 .. BSIZE : iappend(i, n)
      BY <2>1, StepIappend
    <2>2. CASE mkfs_end
      BY <2>2, StepMkfsEnd
    <2>3. ASSUME NEW p \in Proc,
                 \/ \E i \in Inum : open(p, i) \/ iput(p, i)
                 \/ \E n \in Sizes : filewrite(p, n) \/ fileread(p, n)
                 \/ filewrite_chunk(p) \/ writei(p) \/ writei_end(p) \/ itrunc(p)
          PROVE  ContentInv'
      BY <2>3, StepOpen, StepIput, StepFilewrite, StepRead, StepChunk, StepWritei, StepWriteEnd, StepItrunc
    <2>4. CASE UNCHANGED vars
      BY <2>4, ContentStutter
    <2> QED
      BY <2>1, <2>2, <2>3, <2>4 DEF Next
  <1> QED
    BY <1>1, <1>2, PTL DEF Spec

\* However processes interleave their turns of writei and itrunc, what is read of a file
\* through bmap, direct and indirect, is what was written to it, byte for byte: files of
\* mkfs, writes that begin or end inside a block and reused blocks included.
THEOREM ContentIsFlatAlways == Spec => []ContentIsFlat
  <1>1. ContentInv => ContentIsFlat
    <2> SUFFICES ASSUME ContentInv, NEW i \in Inum \ {1}, lock[i] = NoProc, NEW o \in 0 .. size[i] - 1
                 PROVE  ByteAt(i, o) = Mark(i, o)
      BY DEF ContentIsFlat
    <2>1. ~Truncating(i)
      BY DEF Truncating
    <2> QED
      BY <2>1, FlatNow DEF Right
  <1> QED
    BY <1>1, ContentCorrect, PTL

\* No chunk of filewrite logs more blocks than the log of mkfs has room for, wherever the
\* chunk begins and whatever it has to allocate.
THEOREM ChunkFitsAlways == Spec => []ChunkFits
  <1>1. ContentInv => ChunkFits
    BY DEF ContentInv
  <1> QED
    BY <1>1, ContentCorrect, PTL

\* When the root directory of mkfs does not end with a block, every block is free, or
\* metadata, or belongs to one place of one file, whatever is allocated and freed at the
\* same time, and no part of a file is without a block: fileread never allocates.
THEOREM BlocksAccountedAlways ==
  ASSUME RootEndsInside
  PROVE  Spec => []BlocksAccounted
  <1>1. ContentInv => BlocksAccounted
    <2> SUFFICES ASSUME ContentInv PROVE BlocksAccounted
      OBVIOUS
    <2>1. TypeOK
      BY DEF ContentInv, Typed
    <2>2. BitmapIsExact
      <3> SUFFICES ASSUME phase = "up"
                   PROVE  /\ used = (0 .. nmeta - 1) \cup UNION {{BlockAt(i, k) : k \in Held(i)} : i \in Inum}
                          /\ PlacesDiffer
        BY DEF BitmapIsExact, PlacesDiffer
      <3>1. Marked = used /\ MarkedIsHeld /\ PlacesDiffer
        BY DEF Marked, ContentInv
      <3>2. used \subseteq 0 .. FSSIZE - 1 /\ nmeta \in Nat /\ FSSIZE \in Nat
        BY Parts, Layout
      <3>3. ASSUME NEW b \in used
            PROVE  b \in (0 .. nmeta - 1) \cup UNION {{BlockAt(i, k) : k \in Held(i)} : i \in Inum}
        <4>1. b \in Int /\ 0 <= b
          BY <3>2
        <4>2. CASE b < nmeta
          BY <3>2, <4>1, <4>2
        <4>3. CASE ~(b < nmeta)
          BY <3>1, <4>3 DEF MarkedIsHeld
        <4> QED
          BY <4>2, <4>3
      <3>4. ASSUME NEW b \in (0 .. nmeta - 1) \cup UNION {{BlockAt(i, k) : k \in Held(i)} : i \in Inum}
            PROVE  b \in used
        BY <3>1 DEF MarkedIsHeld
      <3> QED
        BY <3>1, <3>3, <3>4
    <2>3. ReadsAllocateNothing
      <3> SUFFICES ASSUME NEW i \in Inum, lock[i] = NoProc, NEW o \in 0 .. size[i] - 1
                   PROVE  HasByte(i, o)
        BY DEF ReadsAllocateNothing, HasByte
      <3>1. CASE i = 1
        BY <3>1 DEF ContentInv, RootMapped
      <3>2. CASE i # 1
        <4>1. ~Truncating(i)
          BY DEF Truncating
        <4> QED
          BY <3>2, <4>1, FlatNow DEF Right
      <3> QED
        BY <3>1, <3>2
    <2> QED
      BY <2>1, <2>2, <2>3 DEF BlocksAccounted
  <1> QED
    BY <1>1, ContentCorrect, PTL

\* bfree never meets a block that is already free ("freeing free block"): whatever a
\* truncation frees is still marked, although it walks the file in many steps while others
\* allocate and free.
THEOREM FreesMarkedBlocks == Spec => [][\A p \in Proc : itrunc(p) /\ ~panicked => ~panicked']_vars
  <1>1. ASSUME ContentInv, NEW p \in Proc, itrunc(p), ~panicked
        PROVE  ~panicked'
    <2> DEFINE i == th[p].n
               k == Min(Left(i, th[p].tot))
    <2>1. th[p].pc = "itrunc" /\ phase = "up"
      BY <1>1 DEF itrunc, At
    <2>2. i \in Inum /\ From(i) = th[p].tot /\ th[p].tot \in Nat /\ MAXFILE \in Nat
      BY <1>1, <2>1, TruncFile, Layout
    <2>3. CASE Left(i, th[p].tot) # {}
      <3>1. Left(i, th[p].tot) \subseteq Nat /\ Held(i) = Left(i, th[p].tot)
        BY <2>2 DEF Left, Held
      <3>2. k \in Held(i)
        BY <2>3, <3>1, MinOf
      <3>3. BlockAt(i, k) \in used
        BY <1>1, <2>1, <2>2, <3>2 DEF ContentInv, MarkedIsHeld, Marked
      <3> HIDE DEF i, k
      <3>4. panicked' = (BlockAt(i, k) \notin used)
        BY <1>1, <2>3 DEF itrunc, bfree, i, k
      <3> QED
        BY <3>3, <3>4
    <2>4. CASE Left(i, th[p].tot) = {}
      BY <1>1, <2>4 DEF itrunc
    <2> QED
      BY <2>3, <2>4
  <1>2. ContentInv => [\A p \in Proc : itrunc(p) /\ ~panicked => ~panicked']_vars
    BY <1>1
  <1> QED
    BY <1>2, ContentCorrect, PTL

=============================================================================
