----------------------------- MODULE PipeProofs -----------------------------
(***************************************************************************)
(* Proofs about Pipe, for every number of processes, every size of the     *)
(* buffer and every multiple of it at which the counters wrap around:      *)
(* the page outlives its users, whoever sleeps has a reason to, and the    *)
(* circular buffer implements a bounded first-in first-out queue.          *)
(***************************************************************************)
EXTENDS Pipe, FiniteSetTheorems, SequenceTheorems, TLAPS

(***************************************************************************)
(* The arithmetic of a ring buffer whose counters wrap around: a byte lies *)
(* at its counter modulo the size m of the buffer, and counters are kept   *)
(* modulo W, a multiple of m.                                              *)
(***************************************************************************)

\* A remainder lies below its modulus.
LEMMA ModRange ==
  ASSUME NEW m \in Nat \ {0}, NEW a \in Int
  PROVE  a % m \in 0 .. m - 1
  OBVIOUS

\* A remainder is determined by any division with a remainder below the modulus.
LEMMA ModIs ==
  ASSUME NEW m \in Nat \ {0}, NEW q \in Int, NEW x \in 0 .. m - 1,
         NEW a \in Int, a = m * q + x
  PROVE  a % m = x
  OBVIOUS

\* Adding a multiple of the modulus, as a counter that wraps around does, leaves the
\* place in the buffer alone.
LEMMA ModPlus ==
  ASSUME NEW m \in Nat \ {0}, NEW w \in Nat, w % m = 0, NEW a \in Nat
  PROVE  (a + w) % m = a % m
  <1> DEFINE q == a \div m
             k == w \div m
             x == a % m
             s == q + k
  <1>1. q \in Int /\ k \in Int /\ s \in Int
    OBVIOUS
  <1>2. a = m * q + x /\ w = m * k
    OBVIOUS
  <1>3. x \in 0 .. m - 1
    BY ModRange
  <1>4. m * s = m * q + m * k
    BY <1>1
  <1>5. a + w \in Int
    OBVIOUS
  <1> HIDE DEF q, k, x, s
  <1>6. a + w = m * s + x
    <2> DEFINE mq == m * q
               mk == m * k
               ms == m * s
    <2>1. mq \in Int /\ mk \in Int /\ ms \in Int
      BY <1>1
    <2>2. ms = mq + mk /\ a = mq + x /\ w = mk
      BY <1>2, <1>4
    <2> HIDE DEF mq, mk, ms
    <2>3. a + w = ms + x
      BY <2>1, <2>2, <1>3
    <2> QED
      BY <2>3 DEF ms
  <1> DEFINE c == a + w
  <1>7. c \in Int /\ c = m * s + x
    BY <1>5, <1>6
  <1> HIDE DEF c
  <1>8. c % m = x
    BY <1>1, <1>3, <1>7, ModIs
  <1> QED
    BY <1>8 DEF c, x

\* Two numbers less than a modulus apart have different remainders: bytes that are in
\* the pipe together lie in different places.
LEMMA ModDistinct ==
  ASSUME NEW m \in Nat \ {0}, NEW a \in Nat, NEW b \in Nat, a < b, b < a + m
  PROVE  a % m # b % m
  <1> DEFINE q == a \div m
             k == b \div m
  <1>1. q \in Int /\ k \in Int
    OBVIOUS
  <1>2. a = m * q + (a % m) /\ b = m * k + (b % m)
    OBVIOUS
  <1>3. a % m \in 0 .. m - 1 /\ b % m \in 0 .. m - 1
    BY ModRange
  <1> HIDE DEF q, k
  <1> SUFFICES ASSUME a % m = b % m PROVE FALSE
    OBVIOUS
  <1>4. q < k => m * q + m <= m * k
    BY <1>1
  <1>5. k <= q => m * k <= m * q
    BY <1>1
  <1> QED
    BY <1>1, <1>2, <1>3, <1>4, <1>5

\* The difference of two counters, either of which may have wrapped around.
LEMMA Gap ==
  ASSUME NEW W \in Nat \ {0}, NEW r \in 0 .. W - 1, NEW w \in 0 .. W - 1
  PROVE  (w - r) % W = IF r <= w THEN w - r ELSE w - r + W
  <1>1. CASE r <= w
    BY <1>1
  <1>2. CASE w < r
    <2> DEFINE a == w - r
               x == a + W
    <2>1. a \in Int /\ x \in 0 .. W - 1 /\ a = W * (0 - 1) + x
      BY <1>2
    <2> HIDE DEF a, x
    <2>2. a % W = x
      BY <2>1, ModIs
    <2> QED
      BY <1>2, <2>2 DEF a, x
  <1> QED
    BY <1>1, <1>2

\* A counter that is advanced by at most W wraps around once at most.
LEMMA Advance ==
  ASSUME NEW W \in Nat \ {0}, NEW r \in 0 .. W - 1, NEW d \in 0 .. W
  PROVE  (r + d) % W = IF r + d < W THEN r + d ELSE r + d - W
  <1>1. CASE r + d < W
    BY <1>1
  <1>2. CASE r + d >= W
    <2> DEFINE a == r + d
               x == a - W
    <2>1. a \in Int /\ x \in 0 .. W - 1 /\ a = W * 1 + x
      BY <1>2
    <2> HIDE DEF a, x
    <2>2. a % W = x
      BY <2>1, ModIs
    <2> QED
      BY <1>2, <2>2 DEF a, x
  <1> QED
    BY <1>1, <1>2

-----------------------------------------------------------------------------
(***************************************************************************)
(* The counters.                                                           *)
(***************************************************************************)

\* The difference of the counters, either of which may have wrapped around.
LEMMA GapIs ==
  ASSUME NEW r \in 0 .. WRAP - 1, NEW w \in 0 .. WRAP - 1
  PROVE  (w - r) % WRAP = IF r <= w THEN w - r ELSE w - r + WRAP
  <1>1. WRAP \in Nat \ {0}
    BY PipeAssumption
  <1> QED
    BY <1>1, Gap

\* A counter that is advanced by less than WRAP wraps around once at most.
LEMMA AdvanceIs ==
  ASSUME NEW r \in 0 .. WRAP - 1, NEW d \in 0 .. WRAP - 1
  PROVE  (r + d) % WRAP = IF r + d < WRAP THEN r + d ELSE r + d - WRAP
  <1>1. WRAP \in Nat \ {0} /\ d \in 0 .. WRAP
    BY PipeAssumption
  <1> QED
    BY <1>1, Advance

\* pipewrite's test says that PIPESIZE bytes are stored, wherever the counters are.
LEMMA FullIs ==
  ASSUME NEW r \in 0 .. WRAP - 1, NEW w \in 0 .. WRAP - 1
  PROVE  w = (r + PIPESIZE) % WRAP <=> (w - r) % WRAP = PIPESIZE
  <1>1. PIPESIZE \in 0 .. WRAP - 1 /\ WRAP \in Nat \ {0} /\ PIPESIZE # 0
    BY PipeAssumption
  <1>2. (r + PIPESIZE) % WRAP = IF r + PIPESIZE < WRAP THEN r + PIPESIZE ELSE r + PIPESIZE - WRAP
    BY <1>1, AdvanceIs
  <1>3. (w - r) % WRAP = IF r <= w THEN w - r ELSE w - r + WRAP
    BY GapIs
  <1> QED
    BY <1>1, <1>2, <1>3

\* A byte put into a pipe that is not full: one more is stored, in the place behind the
\* others, where none of them lies.
LEMMA PutCounts ==
  ASSUME NEW r \in 0 .. WRAP - 1, NEW w \in 0 .. WRAP - 1,
         (w - r) % WRAP < PIPESIZE
  PROVE  LET g == (w - r) % WRAP
         IN  /\ (w + 1) % WRAP \in 0 .. WRAP - 1
             /\ (((w + 1) % WRAP) - r) % WRAP = g + 1
             /\ (r + g) % PIPESIZE = w % PIPESIZE
             /\ \A k \in 1 .. g : (r + k - 1) % PIPESIZE # w % PIPESIZE
  <1> DEFINE g == (w - r) % WRAP
             v == (w + 1) % WRAP
  <1>1. PIPESIZE \in Nat \ {0} /\ WRAP \in Nat \ {0} /\ WRAP > PIPESIZE /\ WRAP % PIPESIZE = 0
    BY PipeAssumption
  <1>2. g = IF r <= w THEN w - r ELSE w - r + WRAP
    BY GapIs
  <1>3. v = IF w + 1 < WRAP THEN w + 1 ELSE w + 1 - WRAP
    <2>1. 1 \in 0 .. WRAP - 1
      BY <1>1
    <2> QED
      BY <2>1, AdvanceIs
  <1>4. g \in 0 .. PIPESIZE - 1
    BY <1>1, <1>2
  <1> HIDE DEF g, v
  <1>5. v \in 0 .. WRAP - 1
    BY <1>1, <1>3
  <1>6. (v - r) % WRAP = g + 1
    <2>1. (v - r) % WRAP = IF r <= v THEN v - r ELSE v - r + WRAP
      BY <1>5, GapIs
    <2> QED
      BY <1>1, <1>2, <1>3, <1>4, <2>1
  <1>7. (r + g) % PIPESIZE = w % PIPESIZE
    <2>1. r + g = w \/ r + g = w + WRAP
      BY <1>1, <1>2
    <2>2. w \in Nat /\ WRAP \in Nat
      BY <1>1
    <2>3. (w + WRAP) % PIPESIZE = w % PIPESIZE
      BY ONLY <1>1, <2>2, ModPlus
    <2> QED
      BY <2>1, <2>3
  <1>8. ASSUME NEW k \in 1 .. g
        PROVE  (r + k - 1) % PIPESIZE # w % PIPESIZE
    <2> DEFINE a == r + k - 1
               b == r + g
    <2>1. a \in Nat /\ b \in Nat /\ a < b /\ b < a + PIPESIZE
      BY <1>1, <1>4
    <2> HIDE DEF a, b
    <2>2. a % PIPESIZE # b % PIPESIZE
      BY <1>1, <2>1, ModDistinct
    <2>3. b % PIPESIZE = w % PIPESIZE
      BY <1>7 DEF b
    <2>4. a % PIPESIZE # w % PIPESIZE
      BY <2>2, <2>3
    <2> QED
      BY <2>4 DEF a
  <1> QED
    BY <1>5, <1>6, <1>7, <1>8 DEF g, v

\* A byte taken from a pipe that is not empty: one less is stored, and the others keep
\* their places.
LEMMA GetCounts ==
  ASSUME NEW r \in 0 .. WRAP - 1, NEW w \in 0 .. WRAP - 1, r # w
  PROVE  LET g == (w - r) % WRAP
             s == (r + 1) % WRAP
         IN  /\ s \in 0 .. WRAP - 1
             /\ g \in Nat \ {0}
             /\ (w - s) % WRAP = g - 1
             /\ \A k \in Nat \ {0} : (s + k - 1) % PIPESIZE = (r + k) % PIPESIZE
  <1> DEFINE g == (w - r) % WRAP
             s == (r + 1) % WRAP
  <1>1. PIPESIZE \in Nat \ {0} /\ WRAP \in Nat \ {0} /\ WRAP > PIPESIZE /\ WRAP % PIPESIZE = 0
    BY PipeAssumption
  <1>2. g = IF r <= w THEN w - r ELSE w - r + WRAP
    BY GapIs
  <1>3. s = IF r + 1 < WRAP THEN r + 1 ELSE r + 1 - WRAP
    <2>1. 1 \in 0 .. WRAP - 1
      BY <1>1
    <2> QED
      BY <2>1, AdvanceIs
  <1> HIDE DEF g, s
  <1>4. s \in 0 .. WRAP - 1
    BY <1>1, <1>3
  <1>5. g \in Nat \ {0}
    BY <1>1, <1>2
  <1>6. (w - s) % WRAP = g - 1
    <2>1. (w - s) % WRAP = IF s <= w THEN w - s ELSE w - s + WRAP
      BY <1>4, GapIs
    <2> QED
      BY <1>1, <1>2, <1>3, <2>1
  <1>7. ASSUME NEW k \in Nat \ {0}
        PROVE  (s + k - 1) % PIPESIZE = (r + k) % PIPESIZE
    <2> DEFINE a == s + k - 1
    <2>1. a \in Nat
      BY <1>4
    <2>2. r + k = a \/ r + k = a + WRAP
      BY <1>1, <1>3
    <2> HIDE DEF a
    <2>3. (a + WRAP) % PIPESIZE = a % PIPESIZE
      BY <1>1, <2>1, ModPlus
    <2>4. a % PIPESIZE = (r + k) % PIPESIZE
      BY <2>2, <2>3
    <2> QED
      BY <2>4 DEF a
  <1> QED
    BY <1>4, <1>5, <1>6, <1>7 DEF g, s

-----------------------------------------------------------------------------
(***************************************************************************)
(* The inductive invariant.                                                *)
(***************************************************************************)

WritePCs == {"w_acquire", "w_loop", "w_sleep", "w_switch", "w_asleep"}
ReadPCs == {"r_acquire", "r_loop", "r_sleep", "r_switch", "r_asleep", "r_copy"}
LockedPCs == {"w_loop", "w_sleep", "w_switch", "r_loop", "r_sleep", "r_switch", "r_copy"}
SwitchPCs == {"w_switch", "r_switch"}

Typed ==
  /\ lock \subseteq Proc /\ ptlock \subseteq Proc
  /\ data \in [0 .. PIPESIZE - 1 -> Byte]
  /\ nread \in 0 .. WRAP - 1 /\ nwrite \in 0 .. WRAP - 1
  /\ readopen \in BOOLEAN /\ writeopen \in BOOLEAN /\ allocated \in BOOLEAN
  /\ stranded \in BOOLEAN
  /\ ends \in [Proc -> SUBSET {"r", "w"}]
  /\ pc \in [Proc -> PCs]
  /\ left \in [Proc -> 0 .. MAXN]
  /\ killed \in [Proc -> BOOLEAN]
  /\ out \in [Proc -> Byte]

\* p->lock is held over piperead and pipewrite but not while they sleep, ptable.lock from
\* the end of sleep to the switch, each by one process.
LocksHeld ==
  /\ \A p \in Proc : p \in lock <=> pc[p] \in LockedPCs
  /\ \A p \in Proc : p \in ptlock <=> pc[p] \in SwitchPCs
  /\ \A p, q \in lock : p = q
  /\ \A p, q \in ptlock : p = q

\* An end stays open until the process that closes it, one only, has got p->lock; that
\* process has dropped the last reference to it.
EndsOpen ==
  /\ \A p \in Proc : "r" \in ends[p] => readopen
  /\ \A p \in Proc : "w" \in ends[p] => writeopen
  /\ \A p \in Proc : pc[p] \in ReadPCs => "r" \in ends[p]
  /\ \A p \in Proc : pc[p] \in WritePCs => "w" \in ends[p]
  /\ \A p \in Proc : pc[p] = "close_r" => readopen
  /\ \A p \in Proc : pc[p] = "close_w" => writeopen
  /\ \A p, q \in Proc : pc[p] = "close_r" => "r" \notin ends[q]
  /\ \A p, q \in Proc : pc[p] = "close_w" => "w" \notin ends[q]

\* One process closes an end, and one, which comes last, frees the page.
OneCloses ==
  /\ \A p, q \in Proc : pc[p] = "close_r" /\ pc[q] = "close_r" => p = q
  /\ \A p, q \in Proc : pc[p] = "close_w" /\ pc[q] = "close_w" => p = q
  /\ \A p, q \in Proc : pc[p] = "kfree" /\ pc[q] = "kfree" => p = q
  /\ \A p \in Proc : pc[p] = "kfree" => ~readopen /\ ~writeopen
  /\ NoUseAfterFree

\* SleepersJustified for every state.  The process that holds p->lock may be about to
\* wake the sleepers: a writer in its loop wakes the readers before it leaves, a reader
\* that copies the writers.  Who is on its way to sleep still has its reason.
Sleepers ==
  /\ \A p \in Proc : pc[p] \in {"r_sleep", "r_switch"} => Empty /\ writeopen
  /\ \A p \in Proc : pc[p] \in {"w_sleep", "w_switch"} => Full /\ readopen
  /\ \A p \in Proc : pc[p] = "r_asleep" =>
       /\ writeopen
       /\ Empty \/ stranded \/ \E q \in lock : pc[q] = "w_loop"
  /\ \A p \in Proc : pc[p] = "w_asleep" =>
       /\ readopen
       /\ Full \/ \E q \in lock : pc[q] = "r_copy"

\* The counters are never more than the size of the buffer apart.
Bounded == Stored <= PIPESIZE

PipeInv ==
  /\ Typed
  /\ LocksHeld
  /\ EndsOpen
  /\ OneCloses
  /\ Sleepers
  /\ Bounded

-----------------------------------------------------------------------------
(***************************************************************************)
(* Every step preserves the invariant.                                     *)
(***************************************************************************)

\* A new pipe: nobody is inside the kernel on this pipe, which was not allocated.
LEMMA PipeallocInv ==
  ASSUME PipeInv, NEW p \in Proc, pipealloc(p)
  PROVE  PipeInv'
  <1> USE DEF PipeInv
  <1>1. Typed'
    BY PipeAssumption DEF Typed, PCs, pipealloc
  <1>2. LocksHeld'
    BY DEF Typed, LocksHeld, LockedPCs, SwitchPCs, pipealloc
  <1>3. EndsOpen'
    BY DEF Typed, LocksHeld, EndsOpen, OneCloses, NoUseAfterFree, ReadPCs, WritePCs,
       pipealloc
  <1>4. OneCloses'
    BY DEF Typed, EndsOpen, OneCloses, NoUseAfterFree, PCs, ReadPCs, WritePCs, pipealloc
  <1>5. Sleepers'
    BY DEF Typed, LocksHeld, EndsOpen, OneCloses, NoUseAfterFree, Sleepers, Empty, Full,
       LockedPCs, ReadPCs, WritePCs, pipealloc
  <1>6. Bounded'
    <2>1. (0 - 0) % WRAP = 0
      BY PipeAssumption
    <2> QED
      BY <2>1, PipeAssumption DEF Bounded, Stored, pipealloc
  <1> QED
    BY <1>1, <1>2, <1>3, <1>4, <1>5, <1>6

\* The child's ends are open because its parent's are.
LEMMA ForkInv ==
  ASSUME PipeInv, NEW p \in Proc, NEW q \in Proc, fork(p, q)
  PROVE  PipeInv'
  <1> USE DEF PipeInv
  <1>1. Typed'
    BY PipeAssumption DEF Typed, PCs, fork, buffer
  <1>2. LocksHeld'
    BY DEF Typed, LocksHeld, LockedPCs, SwitchPCs, fork, buffer
  <1>3. EndsOpen'
    BY DEF Typed, LocksHeld, EndsOpen, OneCloses, NoUseAfterFree, ReadPCs, WritePCs,
       fork, buffer
  <1>4. OneCloses'
    BY DEF Typed, EndsOpen, OneCloses, NoUseAfterFree, PCs, ReadPCs, WritePCs, fork,
       buffer
  <1>5. Sleepers'
    BY DEF Typed, LocksHeld, EndsOpen, OneCloses, NoUseAfterFree, Sleepers, Empty, Full,
       LockedPCs, ReadPCs, WritePCs, fork, buffer
  <1>6. Bounded'
    BY DEF Bounded, Stored, fork, buffer
  <1> QED
    BY <1>1, <1>2, <1>3, <1>4, <1>5, <1>6

\* The last reference to an end makes its process the closer of the end.
LEMMA FilecloseInv ==
  ASSUME PipeInv, NEW p \in Proc, NEW e \in {"r", "w"}, fileclose(p, e)
  PROVE  PipeInv'
  <1> USE DEF PipeInv
  <1>1. Typed'
    BY PipeAssumption DEF Typed, PCs, fileclose, LastRef, Goto, buffer
  <1>2. LocksHeld'
    BY DEF Typed, LocksHeld, LockedPCs, SwitchPCs, fileclose, LastRef, Goto, buffer
  <1>3. EndsOpen'
    BY DEF Typed, LocksHeld, EndsOpen, OneCloses, NoUseAfterFree, ReadPCs, WritePCs,
       fileclose, LastRef, Goto, buffer
  <1>4. OneCloses'
    BY DEF Typed, EndsOpen, OneCloses, NoUseAfterFree, PCs, ReadPCs, WritePCs,
       fileclose, LastRef, Goto, buffer
  <1>5. Sleepers'
    BY DEF Typed, LocksHeld, EndsOpen, OneCloses, NoUseAfterFree, Sleepers, Empty, Full,
       LockedPCs, ReadPCs, WritePCs, fileclose, LastRef, Goto, buffer
  <1>6. Bounded'
    BY DEF Bounded, Stored, fileclose, LastRef, Goto, buffer
  <1> QED
    BY <1>1, <1>2, <1>3, <1>4, <1>5, <1>6

\* Closing an end wakes those who slept because it was open.
LEMMA PipecloseInv ==
  ASSUME PipeInv, NEW p \in Proc, pipeclose(p)
  PROVE  PipeInv'
  <1> USE DEF PipeInv
  <1>1. Typed'
    BY PipeAssumption DEF Typed, PCs, pipeclose, CloseWakes, WakeupGoto, LockFree
  <1>2. LocksHeld'
    BY DEF Typed, LocksHeld, LockedPCs, SwitchPCs, pipeclose, CloseWakes, WakeupGoto,
       LockFree
  <1>3. EndsOpen'
    BY DEF Typed, LocksHeld, EndsOpen, OneCloses, NoUseAfterFree, ReadPCs, WritePCs,
       pipeclose, CloseWakes, WakeupGoto, LockFree
  <1>4. OneCloses'
    BY DEF Typed, EndsOpen, OneCloses, NoUseAfterFree, PCs, ReadPCs, WritePCs,
       pipeclose, CloseWakes, WakeupGoto, LockFree
  <1>5. Sleepers'
    BY DEF Typed, LocksHeld, EndsOpen, OneCloses, NoUseAfterFree, Sleepers, Empty, Full,
       LockedPCs, ReadPCs, WritePCs, pipeclose, CloseWakes, WakeupGoto, LockFree
  <1>6. Bounded'
    BY DEF Bounded, Stored, pipeclose, CloseWakes, WakeupGoto, LockFree
  <1> QED
    BY <1>1, <1>2, <1>3, <1>4, <1>5, <1>6

\* The page is freed when nobody has an end or is inside the kernel.
LEMMA PipefreeInv ==
  ASSUME PipeInv, NEW p \in Proc, pipefree(p)
  PROVE  PipeInv'
  <1> USE DEF PipeInv
  <1>1. Typed'
    BY PipeAssumption DEF Typed, PCs, pipefree, Goto
  <1>2. LocksHeld'
    BY DEF Typed, LocksHeld, LockedPCs, SwitchPCs, pipefree, Goto
  <1>3. EndsOpen'
    BY DEF Typed, LocksHeld, EndsOpen, OneCloses, NoUseAfterFree, ReadPCs, WritePCs,
       pipefree, Goto
  <1>4. OneCloses'
    BY DEF Typed, EndsOpen, OneCloses, NoUseAfterFree, PCs, ReadPCs, WritePCs, pipefree,
       Goto
  <1>5. Sleepers'
    BY DEF Typed, LocksHeld, EndsOpen, OneCloses, NoUseAfterFree, Sleepers, Empty, Full,
       LockedPCs, ReadPCs, WritePCs, pipefree, Goto
  <1>6. Bounded'
    BY DEF Bounded, Stored, pipefree, Goto
  <1> QED
    BY <1>1, <1>2, <1>3, <1>4, <1>5, <1>6

\* Entering pipewrite.
LEMMA SysWriteInv ==
  ASSUME PipeInv, NEW p \in Proc, NEW n \in 0 .. MAXN, sys_write(p, n)
  PROVE  PipeInv'
  <1> USE DEF PipeInv
  <1>1. Typed'
    BY PipeAssumption DEF Typed, PCs, sys_write, Goto, buffer
  <1>2. LocksHeld'
    BY DEF Typed, LocksHeld, LockedPCs, SwitchPCs, sys_write, Goto, buffer
  <1>3. EndsOpen'
    BY DEF Typed, LocksHeld, EndsOpen, OneCloses, NoUseAfterFree, ReadPCs, WritePCs,
       sys_write, Goto, buffer
  <1>4. OneCloses'
    BY DEF Typed, EndsOpen, OneCloses, NoUseAfterFree, PCs, ReadPCs, WritePCs,
       sys_write, Goto, buffer
  <1>5. Sleepers'
    BY DEF Typed, LocksHeld, EndsOpen, OneCloses, NoUseAfterFree, Sleepers, Empty, Full,
       LockedPCs, ReadPCs, WritePCs, sys_write, Goto, buffer
  <1>6. Bounded'
    BY DEF Bounded, Stored, sys_write, Goto, buffer
  <1> QED
    BY <1>1, <1>2, <1>3, <1>4, <1>5, <1>6

\* pipewrite takes p->lock.
LEMMA PipewriteAcquireInv ==
  ASSUME PipeInv, NEW p \in Proc, pipewrite_acquire(p)
  PROVE  PipeInv'
  <1> USE DEF PipeInv
  <1>1. Typed'
    BY PipeAssumption DEF Typed, PCs, pipewrite_acquire, LockFree, Goto, buffer
  <1>2. LocksHeld'
    BY DEF Typed, LocksHeld, LockedPCs, SwitchPCs, pipewrite_acquire, LockFree, Goto,
       buffer
  <1>3. EndsOpen'
    BY DEF Typed, LocksHeld, EndsOpen, OneCloses, NoUseAfterFree, ReadPCs, WritePCs,
       pipewrite_acquire, LockFree, Goto, buffer
  <1>4. OneCloses'
    BY DEF Typed, EndsOpen, OneCloses, NoUseAfterFree, PCs, ReadPCs, WritePCs,
       pipewrite_acquire, LockFree, Goto, buffer
  <1>5. Sleepers'
    BY DEF Typed, LocksHeld, EndsOpen, OneCloses, NoUseAfterFree, Sleepers, Empty, Full,
       LockedPCs, ReadPCs, WritePCs, pipewrite_acquire, LockFree, Goto, buffer
  <1>6. Bounded'
    BY DEF Bounded, Stored, pipewrite_acquire, LockFree, Goto, buffer
  <1> QED
    BY <1>1, <1>2, <1>3, <1>4, <1>5, <1>6

\* A turn of pipewrite's loops, in which readers sleep on bytes that the writer still has
\* to announce.
LEMMA PipewriteInv ==
  ASSUME PipeInv, NEW p \in Proc, pipewrite(p)
  PROVE  PipeInv'
  <1> USE DEF PipeInv
  <1>1. Typed'
    <2>1. nwrite' \in 0 .. WRAP - 1
      <3>1. nwrite + 1 \in Int /\ WRAP \in Nat \ {0}
        BY PipeAssumption DEF Typed
      <3>2. (nwrite + 1) % WRAP \in 0 .. WRAP - 1
        BY <3>1, ModRange
      <3> QED
        BY <3>2 DEF Typed, pipewrite
    <2>2. lock' \subseteq Proc /\ stranded' \in BOOLEAN /\ left' \in [Proc -> 0 .. MAXN]
      BY PipeAssumption DEF Typed, pipewrite
    <2>3. data' \in [0 .. PIPESIZE - 1 -> Byte]
      BY DEF Typed, pipewrite
    <2>4. pc' \in [Proc -> PCs]
      BY DEF Typed, PCs, pipewrite, WakeupGoto, Goto
    <2> QED
      BY <2>1, <2>2, <2>3, <2>4 DEF Typed, pipewrite
  <1>2. LocksHeld'
    BY DEF Typed, LocksHeld, LockedPCs, SwitchPCs, pipewrite, WakeupGoto, Goto
  <1>3. EndsOpen'
    BY DEF Typed, LocksHeld, EndsOpen, OneCloses, NoUseAfterFree, ReadPCs, WritePCs,
       pipewrite, WakeupGoto, Goto
  <1>4. OneCloses'
    BY DEF Typed, EndsOpen, OneCloses, NoUseAfterFree, PCs, ReadPCs, WritePCs,
       pipewrite, WakeupGoto, Goto
  <1>5. Sleepers'
    BY DEF Typed, LocksHeld, EndsOpen, OneCloses, NoUseAfterFree, Sleepers, Empty, Full,
       LockedPCs, ReadPCs, WritePCs, pipewrite, WakeupGoto, Goto
  <1>6. Bounded'
    <2> nread \in 0 .. WRAP - 1 /\ nwrite \in 0 .. WRAP - 1
      BY DEF Typed
    <2>1. CASE nwrite' = nwrite
      BY <2>1 DEF Bounded, Stored, pipewrite
    <2>2. CASE ~Full /\ nwrite' = (nwrite + 1) % WRAP
      <3>1. Stored < PIPESIZE
        <4>1. Stored # PIPESIZE
          BY <2>2, FullIs DEF Full, Stored
        <4>2. Stored \in Int
          BY PipeAssumption, GapIs DEF Stored
        <4> QED
          BY <4>1, <4>2, PipeAssumption DEF Bounded
      <3>2. (nwrite' - nread) % WRAP = Stored + 1
        BY <2>2, <3>1, PutCounts DEF Stored
      <3>3. Stored' = Stored + 1 /\ Stored \in Int
        BY <3>2, PipeAssumption, GapIs DEF Stored, pipewrite
      <3> QED
        BY <3>1, <3>3, PipeAssumption DEF Bounded
    <2> QED
      BY <2>1, <2>2 DEF pipewrite
  <1> QED
    BY <1>1, <1>2, <1>3, <1>4, <1>5, <1>6

\* Entering piperead.
LEMMA SysReadInv ==
  ASSUME PipeInv, NEW p \in Proc, NEW n \in 0 .. MAXN, sys_read(p, n)
  PROVE  PipeInv'
  <1> USE DEF PipeInv
  <1>1. Typed'
    BY PipeAssumption DEF Typed, PCs, sys_read, Goto, buffer
  <1>2. LocksHeld'
    BY DEF Typed, LocksHeld, LockedPCs, SwitchPCs, sys_read, Goto, buffer
  <1>3. EndsOpen'
    BY DEF Typed, LocksHeld, EndsOpen, OneCloses, NoUseAfterFree, ReadPCs, WritePCs,
       sys_read, Goto, buffer
  <1>4. OneCloses'
    BY DEF Typed, EndsOpen, OneCloses, NoUseAfterFree, PCs, ReadPCs, WritePCs, sys_read,
       Goto, buffer
  <1>5. Sleepers'
    BY DEF Typed, LocksHeld, EndsOpen, OneCloses, NoUseAfterFree, Sleepers, Empty, Full,
       LockedPCs, ReadPCs, WritePCs, sys_read, Goto, buffer
  <1>6. Bounded'
    BY DEF Bounded, Stored, sys_read, Goto, buffer
  <1> QED
    BY <1>1, <1>2, <1>3, <1>4, <1>5, <1>6

\* piperead takes p->lock.
LEMMA PipereadAcquireInv ==
  ASSUME PipeInv, NEW p \in Proc, piperead_acquire(p)
  PROVE  PipeInv'
  <1> USE DEF PipeInv
  <1>1. Typed'
    BY PipeAssumption DEF Typed, PCs, piperead_acquire, LockFree, Goto, buffer
  <1>2. LocksHeld'
    BY DEF Typed, LocksHeld, LockedPCs, SwitchPCs, piperead_acquire, LockFree, Goto,
       buffer
  <1>3. EndsOpen'
    BY DEF Typed, LocksHeld, EndsOpen, OneCloses, NoUseAfterFree, ReadPCs, WritePCs,
       piperead_acquire, LockFree, Goto, buffer
  <1>4. OneCloses'
    BY DEF Typed, EndsOpen, OneCloses, NoUseAfterFree, PCs, ReadPCs, WritePCs,
       piperead_acquire, LockFree, Goto, buffer
  <1>5. Sleepers'
    BY DEF Typed, LocksHeld, EndsOpen, OneCloses, NoUseAfterFree, Sleepers, Empty, Full,
       LockedPCs, ReadPCs, WritePCs, piperead_acquire, LockFree, Goto, buffer
  <1>6. Bounded'
    BY DEF Bounded, Stored, piperead_acquire, LockFree, Goto, buffer
  <1> QED
    BY <1>1, <1>2, <1>3, <1>4, <1>5, <1>6

\* piperead's test for an empty pipe.
LEMMA PipereadInv ==
  ASSUME PipeInv, NEW p \in Proc, piperead(p)
  PROVE  PipeInv'
  <1> USE DEF PipeInv
  <1>1. Typed'
    <2>1. left' = [left EXCEPT ![p] = 0] \/ left' = left
      BY DEF piperead
    <2>2. lock' \subseteq Proc /\ left' \in [Proc -> 0 .. MAXN]
      BY <2>1, PipeAssumption DEF Typed, piperead
    <2>3. pc' \in [Proc -> PCs]
      BY DEF Typed, PCs, piperead, Goto
    <2> QED
      BY <2>2, <2>3 DEF Typed, piperead, buffer
  <1>2. LocksHeld'
    BY DEF Typed, LocksHeld, LockedPCs, SwitchPCs, piperead, Goto, buffer
  <1>3. EndsOpen'
    BY DEF Typed, LocksHeld, EndsOpen, OneCloses, NoUseAfterFree, ReadPCs, WritePCs,
       piperead, Goto, buffer
  <1>4. OneCloses'
    BY DEF Typed, EndsOpen, OneCloses, NoUseAfterFree, PCs, ReadPCs, WritePCs, piperead,
       Goto, buffer
  <1>5. Sleepers'
    BY DEF Typed, LocksHeld, EndsOpen, OneCloses, NoUseAfterFree, Sleepers, Empty, Full,
       LockedPCs, ReadPCs, WritePCs, piperead, Goto, buffer
  <1>6. Bounded'
    BY DEF Bounded, Stored, piperead, Goto, buffer
  <1> QED
    BY <1>1, <1>2, <1>3, <1>4, <1>5, <1>6

\* A turn of piperead's copy loop, in which writers sleep on places that the reader still
\* has to announce.
LEMMA PipereadCopyInv ==
  ASSUME PipeInv, NEW p \in Proc, piperead_copy(p)
  PROVE  PipeInv'
  <1> USE DEF PipeInv
  <1> nread \in 0 .. WRAP - 1 /\ nwrite \in 0 .. WRAP - 1
    BY DEF Typed
  <1>1. Typed'
    <2>1. nread' \in 0 .. WRAP - 1
      <3>1. nread + 1 \in Int /\ WRAP \in Nat \ {0}
        BY PipeAssumption DEF Typed
      <3>2. (nread + 1) % WRAP \in 0 .. WRAP - 1
        BY <3>1, ModRange
      <3> QED
        BY <3>2 DEF Typed, piperead_copy
    <2>2. lock' \subseteq Proc /\ left' \in [Proc -> 0 .. MAXN]
      BY PipeAssumption DEF Typed, piperead_copy
    <2>3. out' \in [Proc -> Byte]
      <3>1. nread % PIPESIZE \in 0 .. PIPESIZE - 1
        BY PipeAssumption, ModRange DEF Typed
      <3> QED
        BY <3>1 DEF Typed, piperead_copy
    <2>4. pc' \in [Proc -> PCs]
      BY DEF Typed, PCs, piperead_copy, WakeupGoto
    <2> QED
      BY <2>1, <2>2, <2>3, <2>4 DEF Typed, piperead_copy
  <1>2. /\ pc[p] = "r_copy"
        /\ UNCHANGED <<ptlock, nwrite, readopen, writeopen, allocated, stranded, ends>>
    BY DEF piperead_copy
  <1>3. CASE ~Empty /\ nread' = (nread + 1) % WRAP /\ pc' = pc /\ lock' = lock
    <2>1. LocksHeld'
      BY <1>2, <1>3 DEF LocksHeld
    <2>2. EndsOpen' /\ OneCloses'
      BY <1>2, <1>3 DEF EndsOpen, OneCloses, NoUseAfterFree
    <2>3. Sleepers'
      <3>1. lock = {p}
        BY <1>2 DEF LocksHeld, LockedPCs
      <3>2. \A q \in Proc : pc[q] \notin {"r_sleep", "r_switch", "w_sleep", "w_switch"}
        BY <1>2, <3>1 DEF LocksHeld, LockedPCs
      <3>3. \A q \in Proc : pc[q] = "r_asleep" => writeopen /\ stranded
        BY <1>2, <1>3, <3>1 DEF Sleepers
      <3>4. \A q \in Proc : pc[q] = "w_asleep" => readopen
        BY DEF Sleepers
      <3>5. \E q \in lock' : pc'[q] = "r_copy"
        BY <1>2, <1>3, <3>1
      <3> QED
        BY <1>2, <1>3, <3>2, <3>3, <3>4, <3>5 DEF Sleepers
    <2>4. Bounded'
      <3>1. Stored \in Nat /\ (nwrite - nread') % WRAP = Stored - 1
        BY <1>3, GetCounts DEF Stored, Empty
      <3>2. Stored' = Stored - 1
        BY <1>2, <3>1 DEF Stored
      <3> QED
        BY <3>1, <3>2, PipeAssumption DEF Bounded
    <2> QED
      BY <1>1, <2>1, <2>2, <2>3, <2>4
  <1>4. CASE nread' = nread /\ lock' = lock \ {p} /\ WakeupGoto("w_asleep", p, "user")
    <2>1. LocksHeld'
      BY <1>2, <1>4 DEF Typed, LocksHeld, LockedPCs, SwitchPCs, WakeupGoto
    <2>2. EndsOpen'
      BY <1>2, <1>4 DEF Typed, EndsOpen, ReadPCs, WritePCs, WakeupGoto
    <2>3. OneCloses'
      BY <1>2, <1>4 DEF Typed, OneCloses, NoUseAfterFree, WakeupGoto
    <2>4. Sleepers'
      <3>1. lock = {p}
        BY <1>2 DEF LocksHeld, LockedPCs
      <3>2. \A q \in Proc : pc'[q] # "w_asleep" /\ (pc'[q] = "r_asleep" => pc[q] = "r_asleep")
        BY <1>4 DEF Typed, WakeupGoto
      <3>3. \A q \in Proc : pc'[q] \notin {"r_sleep", "r_switch", "w_sleep", "w_switch"}
        BY <2>1, <1>4, <3>1 DEF LocksHeld, LockedPCs
      <3>4. Empty' = Empty
        BY <1>2, <1>4 DEF Empty
      <3>5. \A q \in Proc : pc[q] = "r_asleep" => writeopen /\ (Empty \/ stranded)
        BY <1>2, <3>1 DEF Sleepers
      <3> QED
        BY <1>2, <3>2, <3>3, <3>4, <3>5 DEF Sleepers
    <2>5. Bounded'
      BY <1>2, <1>4 DEF Bounded, Stored
    <2> QED
      BY <1>1, <2>1, <2>2, <2>3, <2>4, <2>5
  <1> QED
    BY <1>3, <1>4 DEF piperead_copy

\* sleep takes ptable.lock under p->lock.
LEMMA SleepInv ==
  ASSUME PipeInv, NEW p \in Proc, sleep(p)
  PROVE  PipeInv'
  <1> USE DEF PipeInv
  <1>1. Typed'
    BY PipeAssumption DEF Typed, PCs, sleep, SleepLocks, Goto, buffer
  <1>2. LocksHeld'
    BY DEF Typed, LocksHeld, LockedPCs, SwitchPCs, sleep, SleepLocks, Goto, buffer
  <1>3. EndsOpen'
    BY DEF Typed, LocksHeld, EndsOpen, OneCloses, NoUseAfterFree, ReadPCs, WritePCs,
       sleep, SleepLocks, Goto, buffer
  <1>4. OneCloses'
    BY DEF Typed, EndsOpen, OneCloses, NoUseAfterFree, PCs, ReadPCs, WritePCs, sleep,
       SleepLocks, Goto, buffer
  <1>5. Sleepers'
    BY DEF Typed, LocksHeld, EndsOpen, OneCloses, NoUseAfterFree, Sleepers, Empty, Full,
       LockedPCs, ReadPCs, WritePCs, sleep, SleepLocks, Goto, buffer
  <1>6. Bounded'
    BY DEF Bounded, Stored, sleep, SleepLocks, Goto, buffer
  <1> QED
    BY <1>1, <1>2, <1>3, <1>4, <1>5, <1>6

\* sleep leaves with both locks released: its reason to sleep still holds.
LEMMA SleepSwitchInv ==
  ASSUME PipeInv, NEW p \in Proc, sleep_switch(p)
  PROVE  PipeInv'
  <1> USE DEF PipeInv
  <1>1. Typed'
    BY PipeAssumption DEF Typed, PCs, sleep_switch, Goto, buffer
  <1>2. LocksHeld'
    BY DEF Typed, LocksHeld, LockedPCs, SwitchPCs, sleep_switch, Goto, buffer
  <1>3. EndsOpen'
    BY DEF Typed, LocksHeld, EndsOpen, OneCloses, NoUseAfterFree, ReadPCs, WritePCs,
       sleep_switch, Goto, buffer
  <1>4. OneCloses'
    BY DEF Typed, EndsOpen, OneCloses, NoUseAfterFree, PCs, ReadPCs, WritePCs,
       sleep_switch, Goto, buffer
  <1>5. Sleepers'
    BY DEF Typed, LocksHeld, EndsOpen, OneCloses, NoUseAfterFree, Sleepers, Empty, Full,
       LockedPCs, ReadPCs, WritePCs, sleep_switch, Goto, buffer
  <1>6. Bounded'
    BY DEF Bounded, Stored, sleep_switch, Goto, buffer
  <1> QED
    BY <1>1, <1>2, <1>3, <1>4, <1>5, <1>6

\* kill wakes a sleeper and disturbs nobody else.
LEMMA KillInv ==
  ASSUME PipeInv, NEW p \in Proc, kill(p)
  PROVE  PipeInv'
  <1> USE DEF PipeInv
  <1>1. Typed'
    BY PipeAssumption DEF Typed, PCs, kill, Goto, buffer
  <1>2. LocksHeld'
    BY DEF Typed, LocksHeld, LockedPCs, SwitchPCs, kill, Goto, buffer
  <1>3. EndsOpen'
    BY DEF Typed, LocksHeld, EndsOpen, OneCloses, NoUseAfterFree, ReadPCs, WritePCs,
       kill, Goto, buffer
  <1>4. OneCloses'
    BY DEF Typed, EndsOpen, OneCloses, NoUseAfterFree, PCs, ReadPCs, WritePCs, kill,
       Goto, buffer
  <1>5. Sleepers'
    BY DEF Typed, LocksHeld, EndsOpen, OneCloses, NoUseAfterFree, Sleepers, Empty, Full,
       LockedPCs, ReadPCs, WritePCs, kill, Goto, buffer
  <1>6. Bounded'
    BY DEF Bounded, Stored, kill, Goto, buffer
  <1> QED
    BY <1>1, <1>2, <1>3, <1>4, <1>5, <1>6

\* The invariant holds before the first pipe is made.
LEMMA InitInv == Init => PipeInv
  <1> SUFFICES ASSUME Init PROVE PipeInv
    OBVIOUS
  <1>1. Typed
    <2>1. 0 \in 0 .. WRAP - 1 /\ 0 \in 0 .. MAXN
      BY PipeAssumption
    <2>2. nread \in 0 .. WRAP - 1 /\ nwrite \in 0 .. WRAP - 1 /\ left \in [Proc -> 0 .. MAXN]
      BY <2>1 DEF Init
    <2>3. lock \subseteq Proc /\ ptlock \subseteq Proc /\ ends \in [Proc -> SUBSET {"r", "w"}]
      BY DEF Init
    <2>4. pc \in [Proc -> PCs] /\ killed \in [Proc -> BOOLEAN]
      BY DEF Init, PCs
    <2> QED
      BY <2>2, <2>3, <2>4 DEF Init, Typed
  <1>2. LocksHeld /\ EndsOpen /\ OneCloses /\ Sleepers
    BY DEF Init, LocksHeld, EndsOpen, OneCloses, NoUseAfterFree, Sleepers, LockedPCs,
           SwitchPCs, ReadPCs, WritePCs
  <1>3. Bounded
    <2>1. (0 - 0) % WRAP = 0
      BY PipeAssumption
    <2> QED
      BY <2>1, PipeAssumption DEF Init, Bounded, Stored
  <1> QED
    BY <1>1, <1>2, <1>3 DEF PipeInv

\* Every step of the pipe's processes preserves the invariant.
LEMMA NextInv == PipeInv /\ [Next]_vars => PipeInv'
  <1> SUFFICES ASSUME PipeInv, [Next]_vars PROVE PipeInv'
    OBVIOUS
  <1>1. CASE UNCHANGED vars
    BY <1>1 DEF vars, PipeInv, Typed, LocksHeld, EndsOpen, OneCloses, NoUseAfterFree,
                Sleepers, Empty, Full, Bounded, Stored
  <1>2. ASSUME NEW p \in Proc, pipealloc(p) \/ Inside(p) \/ kill(p)
        PROVE  PipeInv'
    <2>1. CASE pipealloc(p)
      BY <2>1, PipeallocInv
    <2>2. CASE Inside(p)
      BY <2>2, PipecloseInv, PipefreeInv, PipewriteAcquireInv, PipewriteInv,
         PipereadAcquireInv, PipereadInv, PipereadCopyInv, SleepInv, SleepSwitchInv
         DEF Inside
    <2>3. CASE kill(p)
      BY <2>3, KillInv
    <2> QED
      BY <1>2, <2>1, <2>2, <2>3
  <1>3. ASSUME NEW p \in Proc, NEW q \in Proc, fork(p, q)
        PROVE  PipeInv'
    BY <1>3, ForkInv
  <1>4. ASSUME NEW p \in Proc, NEW e \in {"r", "w"}, fileclose(p, e)
        PROVE  PipeInv'
    BY <1>4, FilecloseInv
  <1>5. ASSUME NEW p \in Proc, NEW n \in 0 .. MAXN, sys_write(p, n) \/ sys_read(p, n)
        PROVE  PipeInv'
    BY <1>5, SysWriteInv, SysReadInv
  <1> QED
    BY <1>1, <1>2, <1>3, <1>4, <1>5 DEF Next

\* PipeInv holds in every reachable state, whatever the number of processes.
THEOREM PipeCorrect == Spec => []PipeInv
  BY InitInv, NextInv, PTL DEF Spec

\* A set without two different members has at most one.
LEMMA AtMostOne ==
  ASSUME NEW S, \A a, b \in S : a = b
  PROVE  Cardinality(S) <= 1
  <1>1. CASE S = {}
    BY <1>1, FS_EmptySet
  <1>2. CASE S # {}
    <2>1. PICK a \in S : TRUE
      BY <1>2
    <2>2. S = {a}
      BY <2>1
    <2> QED
      BY <2>2, FS_Singleton
  <1> QED
    BY <1>1, <1>2

\* The page of the pipe is not freed while a process has an end of it open or is inside
\* piperead, pipewrite or pipeclose, and locks, counters and ends keep their types.
THEOREM PipeIsSound == Spec => []PipeSound
  <1>1. PipeInv => PipeSound
    <2> SUFFICES ASSUME PipeInv PROVE PipeSound
      OBVIOUS
    <2>1. Cardinality(lock) <= 1 /\ Cardinality(ptlock) <= 1
      BY AtMostOne DEF PipeInv, LocksHeld
    <2> QED
      BY <2>1 DEF PipeInv, Typed, OneCloses, PipeSound, TypeOK
  <1> QED
    BY <1>1, PipeCorrect, PTL

\* No wakeup is lost: when p->lock is free, readers sleep only on an empty pipe that can
\* still be written (or one that a killed writer has left), and writers only on a full one
\* that can still be read.
THEOREM SleepersHaveReason == Spec => []SleepersJustified
  <1>1. PipeInv => SleepersJustified
    BY DEF PipeInv, Sleepers, SleepersJustified
  <1> QED
    BY <1>1, PipeCorrect, PTL

-----------------------------------------------------------------------------
(***************************************************************************)
(* The circular buffer implements Fifo.                                    *)
(***************************************************************************)

\* Contents is a sequence of at most PIPESIZE bytes, taken from the buffer in turn.
ContentsTyped ==
  /\ Stored \in 0 .. PIPESIZE
  /\ Contents \in Seq(Byte)
  /\ Len(Contents) = Stored
  /\ \A k \in 1 .. Stored : Contents[k] = data[(nread + k - 1) % PIPESIZE]

\* The bytes in the pipe are a sequence of at most PIPESIZE bytes.
LEMMA ContentsSeq == PipeInv => ContentsTyped
  <1> SUFFICES ASSUME PipeInv PROVE ContentsTyped
    OBVIOUS
  <1> nread \in 0 .. WRAP - 1 /\ nwrite \in 0 .. WRAP - 1
    BY DEF PipeInv, Typed
  <1>1. Stored \in 0 .. PIPESIZE
    BY PipeAssumption, GapIs DEF PipeInv, Bounded, Stored
  <1>2. ASSUME NEW k \in 1 .. Stored
        PROVE  data[(nread + k - 1) % PIPESIZE] \in Byte
    <2>1. nread + k - 1 \in Int
      BY <1>1
    <2>2. (nread + k - 1) % PIPESIZE \in 0 .. PIPESIZE - 1
      BY <2>1, PipeAssumption, ModRange
    <2> QED
      BY <2>2 DEF PipeInv, Typed
  <1>3. Contents \in Seq(Byte) /\ Len(Contents) = Stored
    BY <1>1, <1>2 DEF Contents
  <1>4. \A k \in 1 .. Stored : Contents[k] = data[(nread + k - 1) % PIPESIZE]
    BY DEF Contents
  <1> QED
    BY <1>1, <1>3, <1>4 DEF ContentsTyped

\* An empty pipe is the empty queue, in this state and in the next.
LEMMA EmptyContents ==
  PipeInv /\ nread = nwrite => Contents = <<>>
  <1> SUFFICES ASSUME PipeInv, nread = nwrite PROVE Contents = <<>>
    OBVIOUS
  <1>1. nread \in 0 .. WRAP - 1 /\ WRAP \in Nat \ {0}
    BY PipeAssumption DEF PipeInv, Typed
  <1>2. Stored = 0
    BY <1>1 DEF Stored
  <1>3. Contents \in Seq(Byte) /\ Len(Contents) = 0
    BY <1>2, ContentsSeq DEF ContentsTyped
  <1> QED
    BY <1>3, EmptySeq

\* A byte that pipewrite copies is appended to the queue: it goes behind all others,
\* where it overwrites none of them, wherever the counters have wrapped around.
LEMMA PutRefines ==
  ASSUME PipeInv, PipeInv', NEW b \in Byte, ~Full,
         data' = [data EXCEPT ![nwrite % PIPESIZE] = b],
         nwrite' = (nwrite + 1) % WRAP, nread' = nread
  PROVE  Len(Contents) < PIPESIZE /\ Contents' = Append(Contents, b)
  <1> DEFINE g == Stored
             c == Contents
             d == Contents'
  <1>1. nread \in 0 .. WRAP - 1 /\ nwrite \in 0 .. WRAP - 1 /\ PIPESIZE \in Nat \ {0}
    BY PipeAssumption DEF PipeInv, Typed
  <1>2. /\ g \in 0 .. PIPESIZE /\ c \in Seq(Byte) /\ Len(c) = g
        /\ \A k \in 1 .. g : c[k] = data[(nread + k - 1) % PIPESIZE]
    BY ContentsSeq DEF ContentsTyped
  <1>3. /\ Stored' \in 0 .. PIPESIZE /\ d \in Seq(Byte) /\ Len(d) = Stored'
        /\ \A k \in 1 .. Stored' : d[k] = data'[(nread' + k - 1) % PIPESIZE]
    <2>1. ContentsTyped'
      BY ContentsSeq, PTL
    <2> QED
      BY <2>1 DEF ContentsTyped
  <1>4. g < PIPESIZE
    <2>1. Stored # PIPESIZE
      BY <1>1, FullIs DEF Full, Stored
    <2> QED
      BY <1>1, <1>2, <2>1
  <1>5. /\ Stored' = g + 1
        /\ (nread + g) % PIPESIZE = nwrite % PIPESIZE
        /\ \A k \in 1 .. g : (nread + k - 1) % PIPESIZE # nwrite % PIPESIZE
    BY <1>1, <1>4, PutCounts DEF Stored
  <1>6. /\ DOMAIN data = 0 .. PIPESIZE - 1
        /\ nwrite % PIPESIZE \in 0 .. PIPESIZE - 1
    BY <1>1, ModRange DEF PipeInv, Typed
  <1> DEFINE a == Append(c, b)
  <1>7. /\ a \in Seq(Byte) /\ Len(a) = g + 1
        /\ \A k \in 1 .. g : a[k] = c[k]
        /\ a[g + 1] = b
    BY <1>2, AppendProperties
  <1> HIDE DEF g, c, d, a
  <1>8. ASSUME NEW k \in 1 .. Len(d)
        PROVE  d[k] = a[k]
    <2>1. CASE k = g + 1
      <3>1. nread + k - 1 = nread + g
        BY <1>1, <1>2, <2>1
      <3>2. d[k] = data'[nwrite % PIPESIZE]
        BY <1>3, <1>5, <3>1
      <3> QED
        BY <1>6, <1>7, <2>1, <3>2
    <2>2. CASE k \in 1 .. g
      <3>1. k \in 1 .. Stored' /\ Stored' = Len(d)
        BY <1>3
      <3>2. d[k] = data'[(nread + k - 1) % PIPESIZE]
        BY <1>3, <3>1
      <3>3. data'[(nread + k - 1) % PIPESIZE] = data[(nread + k - 1) % PIPESIZE]
        <4> DEFINE i == (nread + k - 1) % PIPESIZE
        <4>1. nread + k - 1 \in Int
          BY <1>1, <1>2, <2>2
        <4>2. i \in 0 .. PIPESIZE - 1
          BY <1>1, <4>1, ModRange
        <4>3. i # nwrite % PIPESIZE
          BY <1>5, <2>2
        <4> HIDE DEF i
        <4>4. data'[i] = data[i]
          BY <1>6, <4>2, <4>3
        <4> QED
          BY <4>4 DEF i
      <3> QED
        BY <1>2, <1>7, <2>2, <3>2, <3>3
    <2> QED
      BY <1>2, <1>3, <1>5, <2>1, <2>2
  <1>9. d = a
    BY <1>3, <1>5, <1>7, <1>8, SeqEqual
  <1> QED
    BY <1>2, <1>4, <1>9 DEF a, c, d, g

\* A byte that piperead copies is the head of the queue, and the others stay.
LEMMA GetRefines ==
  ASSUME PipeInv, PipeInv', ~Empty,
         nread' = (nread + 1) % WRAP, nwrite' = nwrite, data' = data
  PROVE  /\ Contents # <<>>
         /\ Head(Contents) = data[nread % PIPESIZE]
         /\ Contents' = Tail(Contents)
  <1> DEFINE g == Stored
             c == Contents
             d == Contents'
  <1>1. nread \in 0 .. WRAP - 1 /\ nwrite \in 0 .. WRAP - 1 /\ PIPESIZE \in Nat \ {0}
    BY PipeAssumption DEF PipeInv, Typed
  <1>2. /\ g \in 0 .. PIPESIZE /\ c \in Seq(Byte) /\ Len(c) = g
        /\ \A k \in 1 .. g : c[k] = data[(nread + k - 1) % PIPESIZE]
    BY ContentsSeq DEF ContentsTyped
  <1>3. /\ Stored' \in 0 .. PIPESIZE /\ d \in Seq(Byte) /\ Len(d) = Stored'
        /\ \A k \in 1 .. Stored' : d[k] = data'[(nread' + k - 1) % PIPESIZE]
    <2>1. ContentsTyped'
      BY ContentsSeq, PTL
    <2> QED
      BY <2>1 DEF ContentsTyped
  <1>4. /\ g \in Nat \ {0} /\ Stored' = g - 1
        /\ \A k \in Nat \ {0} : (nread' + k - 1) % PIPESIZE = (nread + k) % PIPESIZE
    BY <1>1, GetCounts DEF Stored, Empty
  <1> HIDE DEF g, c, d
  <1>5. c # <<>>
    BY <1>2, <1>4, EmptySeq
  <1> DEFINE t == Tail(c)
  <1>6. /\ t \in Seq(Byte) /\ Len(t) = g - 1
        /\ \A k \in 1 .. Len(t) : t[k] = c[k + 1]
    BY <1>2, <1>5, HeadTailProperties
  <1>7. Head(c) = data[nread % PIPESIZE]
    <2>1. Head(c) = c[1]
      BY <1>2, <1>5
    <2>2. 1 \in 1 .. g /\ nread + 1 - 1 = nread
      BY <1>1, <1>4
    <2> QED
      BY <1>2, <2>1, <2>2
  <1> HIDE DEF t
  <1>8. ASSUME NEW k \in 1 .. Len(d)
        PROVE  d[k] = t[k]
    <2>1. k \in 1 .. Stored' /\ k \in 1 .. Len(t) /\ k + 1 \in 1 .. g /\ k \in Nat \ {0}
      BY <1>3, <1>4, <1>6
    <2>2. d[k] = data[(nread + k) % PIPESIZE]
      BY <1>3, <1>4, <2>1
    <2>3. nread + (k + 1) - 1 = nread + k
      BY <1>1, <2>1
    <2>4. c[k + 1] = data[(nread + k) % PIPESIZE]
      BY <1>2, <2>1, <2>3
    <2> QED
      BY <1>6, <2>1, <2>2, <2>4
  <1>9. d = t
    BY <1>3, <1>4, <1>6, <1>8, SeqEqual
  <1> QED
    BY <1>5, <1>7, <1>9 DEF c, d, t

\* Every step of the pipe is a step of the queue: a byte copied in is put, one copied
\* out is got, a new pipe drops what the last one held, and nothing else touches it.
LEMMA StepRefines == PipeInv /\ PipeInv' /\ [Next]_vars => [F!Next]_(F!vars)
  <1> SUFFICES ASSUME PipeInv, PipeInv', [Next]_vars PROVE [F!Next]_(F!vars)
    OBVIOUS
  <1>1. ASSUME data' = data, nread' = nread, nwrite' = nwrite, out' = out
        PROVE  F!vars' = F!vars
    BY <1>1 DEF F!vars, Contents, Stored
  <1>2. CASE UNCHANGED vars
    BY <1>1, <1>2 DEF vars
  <1>3. ASSUME NEW p \in Proc, pipealloc(p)
        PROVE  F!Next
    <2>1. (nread = nwrite)' /\ out' = out
      BY <1>3 DEF pipealloc
    <2>2. (Contents = <<>>)'
      BY <2>1, EmptyContents, PTL
    <2> QED
      BY <2>1, <2>2 DEF F!Next, F!Drop
  <1>4. ASSUME NEW p \in Proc, pipewrite(p)
        PROVE  F!Next \/ F!vars' = F!vars
    <2>1. nread' = nread /\ out' = out
      BY <1>4 DEF pipewrite
    <2>2. CASE data' = data /\ nwrite' = nwrite
      BY <1>1, <2>1, <2>2
    <2>3. ASSUME NEW b \in Byte, ~Full, data' = [data EXCEPT ![nwrite % PIPESIZE] = b],
                 nwrite' = (nwrite + 1) % WRAP
          PROVE  F!Next
      <3>1. Len(Contents) < PIPESIZE /\ Contents' = Append(Contents, b)
        BY <2>1, <2>3, PutRefines
      <3> QED
        BY <2>1, <3>1 DEF F!Next, F!Put
    <2> QED
      BY <1>4, <2>2, <2>3 DEF pipewrite
  <1>5. ASSUME NEW p \in Proc, piperead_copy(p)
        PROVE  F!Next \/ F!vars' = F!vars
    <2>1. nwrite' = nwrite /\ data' = data
      BY <1>5 DEF piperead_copy
    <2>2. CASE nread' = nread /\ out' = out
      BY <1>1, <2>1, <2>2
    <2>3. CASE /\ ~Empty
               /\ nread' = (nread + 1) % WRAP
               /\ out' = [out EXCEPT ![p] = data[nread % PIPESIZE]]
      <3>1. /\ Contents # <<>>
            /\ Head(Contents) = data[nread % PIPESIZE]
            /\ Contents' = Tail(Contents)
        BY <2>1, <2>3, GetRefines
      <3> QED
        BY <2>3, <3>1 DEF F!Next, F!Get
    <2> QED
      BY <1>5, <2>2, <2>3 DEF piperead_copy
  <1>6. ASSUME NEW p \in Proc,
               \/ pipeclose(p) \/ pipefree(p) \/ pipewrite_acquire(p)
               \/ piperead_acquire(p) \/ piperead(p) \/ sleep(p) \/ sleep_switch(p)
               \/ kill(p)
        PROVE  F!vars' = F!vars
    BY <1>1, <1>6 DEF pipeclose, pipefree, pipewrite_acquire, piperead_acquire, piperead,
                      sleep, sleep_switch, kill, buffer
  <1>7. ASSUME NEW p \in Proc, NEW q \in Proc, fork(p, q)
        PROVE  F!vars' = F!vars
    BY <1>1, <1>7 DEF fork, buffer
  <1>8. ASSUME NEW p \in Proc, NEW e \in {"r", "w"}, fileclose(p, e)
        PROVE  F!vars' = F!vars
    BY <1>1, <1>8 DEF fileclose, buffer
  <1>9. ASSUME NEW p \in Proc, NEW n \in 0 .. MAXN, sys_write(p, n) \/ sys_read(p, n)
        PROVE  F!vars' = F!vars
    BY <1>1, <1>9 DEF sys_write, sys_read, buffer
  <1> QED
    BY <1>2, <1>3, <1>4, <1>5, <1>6, <1>7, <1>8, <1>9 DEF Next, Inside

\* The pipe implements a bounded first-in first-out queue: for every buffer size and
\* every multiple of it at which nread and nwrite wrap around, no byte is lost, doubled,
\* reordered or overwritten before it is read.
THEOREM BufferIsFifo == Spec => IsFifo
  <1>1. Init => F!Init
    <2> SUFFICES ASSUME Init PROVE F!Init
      OBVIOUS
    <2>1. Contents = <<>>
      BY InitInv, EmptyContents DEF Init
    <2> QED
      BY <2>1 DEF Init, F!Init
  <1> QED
    BY <1>1, StepRefines, PipeCorrect, PTL DEF Spec, IsFifo, F!Spec

=============================================================================
