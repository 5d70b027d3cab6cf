-------------------------- MODULE BufferCacheProofs --------------------------
(***************************************************************************)
(* Proofs about BufferCache, for every number of processes, buffers and    *)
(* blocks: a block has one buffer and a buffer one holder, the drive       *)
(* serves the queue in order, whoever sleeps is woken, bget runs out of    *)
(* buffers only when none is left, and cache, queue and drive together     *)
(* implement a store of blocks.                                            *)
(***************************************************************************)
EXTENDS BufferCache, FiniteSetTheorems, SequenceTheorems, WellFoundedInduction, TLAPS

(***************************************************************************)
(* Numbers.                                                                *)
(***************************************************************************)

\* A set of natural numbers has a least one.
LEMMA LeastOf ==
  ASSUME NEW S, S \subseteq Nat, S # {}
  PROVE  \E x \in S : \A y \in S : x <= y
  <1> DEFINE R == OpToRel(<, Nat)
  <1>1. \A x, y \in Nat : <<x, y>> \in R <=> x < y
    BY DEF OpToRel
  <1>2. IsWellFoundedOn(R, Nat)
    BY NatLessThanWellFounded
  <1> HIDE DEF R
  <1>3. PICK x \in S : \A y \in S : ~(<<y, x>> \in R)
    BY <1>2, WFMin
  <1>4. ASSUME NEW y \in S PROVE x <= y
    <2>1. x \in Nat /\ y \in Nat
      OBVIOUS
    <2>2. ~(<<y, x>> \in R)
      BY <1>3
    <2>3. ~(y < x)
      BY <1>1, <2>1, <2>2
    <2> QED
      BY <2>1, <2>3
  <1> QED
    BY <1>4

\* A set of natural numbers with a bound has a greatest one.
LEMMA GreatestOf ==
  ASSUME NEW S, NEW n \in Nat, S \subseteq 0 .. n, S # {}
  PROVE  \E x \in S : \A y \in S : x >= y
  <1> DEFINE T == {n - x : x \in S}
  <1>1. T \subseteq Nat
    <2> SUFFICES ASSUME NEW x \in S PROVE n - x \in Nat
      OBVIOUS
    <2>1. x \in 0 .. n
      OBVIOUS
    <2> QED
      BY <2>1
  <1>2. T # {}
    OBVIOUS
  <1>3. PICK z \in T : \A y \in T : z <= y
    <2> HIDE DEF T
    <2> QED
      BY <1>1, <1>2, LeastOf
  <1>4. PICK x \in S : z = n - x
    BY <1>3
  <1>5. ASSUME NEW y \in S PROVE x >= y
    <2>1. n - x <= n - y
      BY <1>3, <1>4
    <2>2. x \in 0 .. n /\ y \in 0 .. n
      OBVIOUS
    <2> QED
      BY <2>1, <2>2
  <1> QED
    BY <1>5

(***************************************************************************)
(* The inductive invariant.                                                *)
(***************************************************************************)

Elems(s) == {s[i] : i \in DOMAIN s}
Distinct(s) == \A i, j \in DOMAIN s : s[i] = s[j] => i = j

GetPCs == {"bget", "bsleep"}
WaitPCs == {"isleep", "iwait"}
IoPCs == {"iderw", "isleep", "iwait"}

\* A busy buffer has one holder, which holds it once and with a block in it.
HeldOnce ==
  /\ \A p \in Proc : Distinct(held[p])
  /\ \A p, q \in Proc : \A b \in Buf : b \in Holds(p) /\ b \in Holds(q) => p = q
  /\ \A b \in Buf : busy[b] <=> \E p \in Proc : b \in Holds(p)
  /\ \A p \in Proc : \A b \in Holds(p) : blockno[b] \in Block

\* A block is in one buffer at most.
OneBuffer == \A b, c \in Buf : blockno[b] = blockno[c] /\ b # c => blockno[b] = NoBlock

\* A process in bget asks for a block of a lower level than those it holds.
WantsNext ==
  \A p \in Proc : pc[p] \in GetPCs =>
    want[p] \in Block /\ Len(held[p]) < MAXHOLD /\ Nest(p, want[p])

\* Only the buffer that is being transferred, the last one of its holder, may be invalid.
OnlyTopInvalid ==
  /\ \A p \in Proc : pc[p] \in IoPCs => held[p] # <<>>
  /\ \A p \in Proc : \A b \in Holds(p) : valid[b] \/ (pc[p] \in IoPCs /\ b = Top(p))

\* A process sleeps in bget on a busy buffer with its block, in iderw on its own.
Channels ==
  \A p \in Proc :
    /\ pc[p] = "bsleep" => \E b \in Buf : chan[p] = {b} /\ busy[b] /\ blockno[b] = want[p]
    /\ pc[p] = "isleep" => chan[p] = {Top(p)}
    /\ pc[p] \notin {"bsleep", "isleep"} => chan[p] = {}

\* The queue holds the buffers of processes that wait in iderw, each once and until its
\* transfer is done.
QueueWaits ==
  /\ Distinct(idequeue)
  /\ \A b \in Elems(idequeue) : ~Synced(b) /\ \E p \in Proc : pc[p] \in WaitPCs /\ Top(p) = b
  /\ \A p \in Proc : pc[p] = "iderw" => ~Synced(Top(p))
  /\ \A p \in Proc : pc[p] = "isleep" => Top(p) \in Elems(idequeue)
  /\ \A p \in Proc : pc[p] = "iwait" => Top(p) \in Elems(idequeue) \/ Synced(Top(p))

\* A clean buffer agrees with the disk unless a transfer has failed.
CleanIsSaved ==
  \A b \in Buf : Synced(b) /\ blockno[b] \in Block \ failed => data[b] = disk[blockno[b]]

\* Only data that was read before is changed.
DirtyIsValid == \A b \in Buf : dirty[b] => valid[b]

CacheInv ==
  /\ TypeOK
  /\ HeldOnce
  /\ OneBuffer
  /\ WantsNext
  /\ OnlyTopInvalid
  /\ Channels
  /\ QueueWaits
  /\ DriveServesHead
  /\ CleanIsSaved
  /\ DirtyIsValid
  /\ PanicOnlyWhenFull

-----------------------------------------------------------------------------
(***************************************************************************)
(* Sequences of buffers.                                                   *)
(***************************************************************************)

\* A buffer behind the others.
LEMMA ElemsAppend ==
  ASSUME NEW S, NEW s \in Seq(S), NEW b \in S
  PROVE  /\ Append(s, b) \in Seq(S) /\ Append(s, b) # <<>>
         /\ Len(Append(s, b)) = Len(s) + 1
         /\ Append(s, b)[Len(s) + 1] = b
         /\ Elems(Append(s, b)) = Elems(s) \cup {b}
         /\ Distinct(s) /\ b \notin Elems(s) => Distinct(Append(s, b))
  <1> DEFINE t == Append(s, b)
             n == Len(s)
  <1>1. /\ t \in Seq(S) /\ t # <<>> /\ Len(t) = n + 1 /\ n \in Nat
        /\ \A i \in 1 .. n : t[i] = s[i]
        /\ t[n + 1] = b
        /\ DOMAIN s = 1 .. n /\ DOMAIN t = 1 .. n + 1
    BY AppendProperties, LenProperties
  <1> HIDE DEF t, n
  <1>2. Elems(t) = Elems(s) \cup {b}
    <2>1. ASSUME NEW x \in Elems(t) PROVE x \in Elems(s) \cup {b}
      BY <1>1 DEF Elems
    <2>2. ASSUME NEW x \in Elems(s) PROVE x \in Elems(t)
      BY <1>1 DEF Elems
    <2>3. b \in Elems(t)
      BY <1>1 DEF Elems
    <2> QED
      BY <2>1, <2>2, <2>3
  <1>3. Distinct(s) /\ b \notin Elems(s) => Distinct(t)
    BY <1>1 DEF Distinct, Elems
  <1> QED
    BY <1>1, <1>2, <1>3 DEF t, n

\* The first buffer and the others.
LEMMA ElemsTail ==
  ASSUME NEW S, NEW s \in Seq(S), s # <<>>
  PROVE  /\ Tail(s) \in Seq(S) /\ Head(s) \in S /\ Head(s) \in Elems(s)
         /\ Elems(s) = Elems(Tail(s)) \cup {Head(s)}
         /\ Distinct(s) => Head(s) \notin Elems(Tail(s)) /\ Distinct(Tail(s))
  <1> DEFINE t == Tail(s)
             n == Len(s)
  <1>1. /\ t \in Seq(S) /\ Head(s) \in S /\ n \in Nat \ {0}
        /\ DOMAIN s = 1 .. n /\ DOMAIN t = 1 .. n - 1
        /\ \A i \in 1 .. n - 1 : t[i] = s[i + 1]
        /\ Head(s) = s[1]
    BY HeadTailProperties, LenProperties, EmptySeq
  <1> HIDE DEF t, n
  <1>2. Elems(s) = Elems(t) \cup {s[1]}
    <2>1. ASSUME NEW i \in 1 .. n PROVE s[i] \in Elems(t) \cup {s[1]}
      <3>1. i = 1 \/ (i - 1 \in 1 .. n - 1 /\ (i - 1) + 1 = i)
        BY <1>1
      <3> QED
        BY <1>1, <3>1 DEF Elems
    <2>2. ASSUME NEW i \in 1 .. n - 1 PROVE t[i] \in Elems(s)
      <3>1. i + 1 \in 1 .. n
        BY <1>1
      <3> QED
        BY <1>1, <3>1 DEF Elems
    <2>3. s[1] \in Elems(s)
      BY <1>1 DEF Elems
    <2> QED
      BY <1>1, <2>1, <2>2, <2>3 DEF Elems
  <1>3. ASSUME Distinct(s) PROVE s[1] \notin Elems(t) /\ Distinct(t)
    <2>1. \A i \in 1 .. n - 1 : i + 1 \in 1 .. n /\ i + 1 # 1
      BY <1>1
    <2>2. s[1] \notin Elems(t)
      <3> SUFFICES ASSUME NEW i \in 1 .. n - 1, t[i] = s[1] PROVE FALSE
        BY <1>1 DEF Elems
      <3>1. 1 \in 1 .. n /\ s[i + 1] = s[1]
        BY <1>1
      <3>2. i + 1 = 1
        BY <1>1, <1>3, <2>1, <3>1 DEF Distinct
      <3> QED
        BY <2>1, <3>2
    <2>3. ASSUME NEW i \in 1 .. n - 1, NEW j \in 1 .. n - 1, t[i] = t[j] PROVE i = j
      <3>1. s[i + 1] = s[j + 1]
        BY <1>1, <2>3
      <3>2. i + 1 = j + 1
        BY <1>1, <1>3, <2>1, <3>1 DEF Distinct
      <3> QED
        BY <3>2
    <2> QED
      BY <1>1, <2>2, <2>3 DEF Distinct
  <1>4. s[1] \in Elems(s)
    BY <1>2
  <1> QED
    BY <1>1, <1>2, <1>3, <1>4 DEF t

\* One buffer less.
LEMMA ElemsUnlink ==
  ASSUME NEW S, NEW s \in Seq(S), NEW b \in Elems(s)
  PROVE  /\ Unlink(s, b) \in Seq(S)
         /\ Len(Unlink(s, b)) = Len(s) - 1
         /\ Elems(s) = Elems(Unlink(s, b)) \cup {b}
         /\ Distinct(s) => b \notin Elems(Unlink(s, b)) /\ Distinct(Unlink(s, b))
  <1> DEFINE n == Len(s)
             m == CHOOSE i \in DOMAIN s : s[i] = b
             f == SubSeq(s, 1, m - 1)
             g == SubSeq(s, m + 1, n)
             t == Unlink(s, b)
  <1>1. n \in Nat /\ DOMAIN s = 1 .. n /\ \A i \in 1 .. n : s[i] \in S
    BY LenProperties, ElementOfSeq
  <1>2. m \in 1 .. n /\ s[m] = b
    BY <1>1 DEF Elems
  <1>3. t = f \o g
    BY DEF Unlink, RemoveAt
  <1> HIDE DEF n, m, t
  <1>4. /\ f \in Seq(S) /\ Len(f) = m - 1
        /\ \A i \in 1 .. m - 1 : f[i] = s[i]
    BY <1>1, <1>2 DEF n
  <1>5. /\ g \in Seq(S) /\ Len(g) = n - m
        /\ \A i \in 1 .. n - m : g[i] = s[m + i]
    <2> DEFINE a == m + 1
    <2>1. /\ g \in Seq(S)
          /\ Len(g) = IF a <= n THEN n - a + 1 ELSE 0
          /\ \A i \in 1 .. n - a + 1 : g[i] = s[a + i - 1]
      <3>1. \A i \in a .. n : s[i] \in S
        BY <1>1, <1>2
      <3>2. a \in Int /\ n \in Int
        BY <1>1, <1>2
      <3>3. g = SubSeq(s, a, n)
        OBVIOUS
      <3> HIDE DEF a, n, m, g
      <3> QED
        BY <3>1, <3>2, <3>3, SubSeqProperties
    <2>2. /\ IF a <= n THEN n - a + 1 = n - m ELSE n - m = 0
          /\ n - a + 1 = n - m
          /\ \A i \in 1 .. n - m : a + i - 1 = m + i
      BY <1>1, <1>2
    <2> HIDE DEF a, g
    <2> QED
      BY <2>1, <2>2
  <1> HIDE DEF f, g
  <1>6. /\ t \in Seq(S) /\ Len(t) = n - 1
        /\ \A i \in 1 .. n - 1 : t[i] = IF i < m THEN s[i] ELSE s[i + 1]
    <2>1. /\ f \o g \in Seq(S) /\ Len(f \o g) = Len(f) + Len(g)
          /\ \A i \in 1 .. Len(f) + Len(g) :
               (f \o g)[i] = IF i <= Len(f) THEN f[i] ELSE g[i - Len(f)]
      BY <1>4, <1>5, ConcatProperties
    <2>2. Len(f) + Len(g) = n - 1
      BY <1>1, <1>2, <1>4, <1>5
    <2>3. ASSUME NEW i \in 1 .. n - 1
          PROVE  t[i] = IF i < m THEN s[i] ELSE s[i + 1]
      <3>1. CASE i < m
        <4>1. i \in 1 .. m - 1 /\ i <= Len(f)
          BY <1>1, <1>2, <1>4, <3>1
        <4> QED
          BY <1>3, <1>4, <2>1, <2>2, <3>1, <4>1
      <3>2. CASE i >= m
        <4>1. ~(i <= Len(f)) /\ i - Len(f) \in 1 .. n - m /\ m + (i - Len(f)) = i + 1 /\ ~(i < m)
          BY <1>1, <1>2, <1>4, <3>2
        <4> QED
          BY <1>3, <1>5, <2>1, <2>2, <4>1
      <3> QED
        BY <1>1, <1>2, <3>1, <3>2
    <2> QED
      BY <1>3, <2>1, <2>2, <2>3
  <1>7. DOMAIN t = 1 .. n - 1
    BY <1>6, LenProperties
  <1> HIDE DEF t
  <1>8. Elems(s) = Elems(t) \cup {b}
    <2>1. ASSUME NEW i \in 1 .. n - 1 PROVE t[i] \in Elems(s)
      <3>1. i \in 1 .. n /\ i + 1 \in 1 .. n
        BY <1>1
      <3> QED
        BY <1>1, <1>6, <3>1 DEF Elems
    <2>2. ASSUME NEW i \in 1 .. n PROVE s[i] \in Elems(t) \cup {b}
      <3>1. CASE i = m
        BY <1>2, <3>1
      <3>2. CASE i < m
        <4>1. i \in 1 .. n - 1
          BY <1>1, <1>2, <3>2
        <4> QED
          BY <1>6, <1>7, <3>2, <4>1 DEF Elems
      <3>3. CASE i > m
        <4>1. i - 1 \in 1 .. n - 1 /\ ~(i - 1 < m) /\ (i - 1) + 1 = i
          BY <1>1, <1>2, <3>3
        <4> QED
          BY <1>6, <1>7, <4>1 DEF Elems
      <3> QED
        BY <1>1, <1>2, <3>1, <3>2, <3>3
    <2> QED
      BY <1>1, <1>2, <1>7, <2>1, <2>2 DEF Elems
  <1>9. ASSUME Distinct(s) PROVE b \notin Elems(t) /\ Distinct(t)
    <2> DEFINE h(i) == IF i < m THEN i ELSE i + 1
    <2>1. \A i \in 1 .. n - 1 : h(i) \in 1 .. n /\ h(i) # m /\ t[i] = s[h(i)]
      BY <1>1, <1>2, <1>6
    <2>2. \A i, j \in 1 .. n - 1 : h(i) = h(j) => i = j
      BY <1>1, <1>2
    <2> HIDE DEF h
    <2>3. b \notin Elems(t)
      BY <1>1, <1>2, <1>7, <1>9, <2>1 DEF Elems, Distinct
    <2>4. Distinct(t)
      BY <1>1, <1>7, <1>9, <2>1, <2>2 DEF Distinct
    <2> QED
      BY <2>3, <2>4
  <1> QED
    BY <1>6, <1>8, <1>9 DEF t, n

\* Min of places of a list is one of them.
LEMMA MinIn ==
  ASSUME NEW S, S \subseteq Nat, S # {}
  PROVE  Min(S) \in S
  BY LeastOf DEF Min

\* Max of places of a list is one of them.
LEMMA MaxIn ==
  ASSUME NEW S, NEW n \in Nat, S \subseteq 0 .. n, S # {}
  PROVE  Max(S) \in S
  BY GreatestOf DEF Max

-----------------------------------------------------------------------------
(***************************************************************************)
(* What bget finds.                                                        *)
(***************************************************************************)

\* The list holds every buffer and nothing else.
LEMMA ListIsCache ==
  ASSUME TypeOK
  PROVE  /\ DOMAIN lru \subseteq Nat /\ DOMAIN lru = 1 .. Len(lru) /\ Len(lru) \in Nat
         /\ \A i \in DOMAIN lru : lru[i] \in Buf
         /\ \A b \in Buf : \E i \in DOMAIN lru : lru[i] = b
  <1>1. lru \in Seq(Buf) /\ \A b \in Buf : \E i \in 1 .. Len(lru) : lru[i] = b
    BY DEF TypeOK
  <1>2. DOMAIN lru = 1 .. Len(lru) /\ Len(lru) \in Nat
    BY <1>1, LenProperties
  <1>3. \A i \in DOMAIN lru : lru[i] \in Buf
    BY <1>1, <1>2, ElementOfSeq
  <1>4. DOMAIN lru \subseteq Nat
    BY <1>2
  <1> QED
    BY <1>1, <1>2, <1>3, <1>4

\* The buffer that the search for a block ends with, if it finds any.
LEMMA CachedIs ==
  ASSUME TypeOK, NEW k
  PROVE  /\ CachedAt(k) # {} => Cached(k) \in Buf /\ blockno[Cached(k)] = k
         /\ CachedAt(k) = {} => \A b \in Buf : blockno[b] # k
  <1>1. CachedAt(k) \subseteq Nat
    BY ListIsCache DEF CachedAt
  <1>2. ASSUME CachedAt(k) # {} PROVE Min(CachedAt(k)) \in CachedAt(k)
    BY <1>1, <1>2, MinIn
  <1>3. ASSUME CachedAt(k) # {} PROVE Cached(k) \in Buf /\ blockno[Cached(k)] = k
    BY <1>2, <1>3, ListIsCache DEF CachedAt, Cached
  <1>4. ASSUME CachedAt(k) = {} PROVE \A b \in Buf : blockno[b] # k
    BY <1>4, ListIsCache DEF CachedAt
  <1> QED
    BY <1>3, <1>4

\* The buffer that bget recycles, if there is any.
LEMMA RecycledIs ==
  ASSUME TypeOK
  PROVE  /\ RecyclableAt # {} =>
              lru[Max(RecyclableAt)] \in Buf /\ Recyclable(lru[Max(RecyclableAt)])
         /\ RecyclableAt = {} => \A b \in Buf : ~Recyclable(b)
  <1>1. RecyclableAt \subseteq 0 .. Len(lru) /\ Len(lru) \in Nat
    BY ListIsCache DEF RecyclableAt
  <1>2. ASSUME RecyclableAt # {} PROVE Max(RecyclableAt) \in RecyclableAt
    BY <1>1, <1>2, MaxIn
  <1>3. ASSUME RecyclableAt # {}
        PROVE  lru[Max(RecyclableAt)] \in Buf /\ Recyclable(lru[Max(RecyclableAt)])
    BY <1>2, <1>3, ListIsCache DEF RecyclableAt
  <1>4. ASSUME RecyclableAt = {} PROVE \A b \in Buf : ~Recyclable(b)
    BY <1>4, ListIsCache DEF RecyclableAt
  <1> QED
    BY <1>3, <1>4

\* The buffers of a process, the last of which is on top.
LEMMA HeldIs ==
  ASSUME TypeOK, NEW p \in Proc
  PROVE  /\ held[p] \in Seq(Buf) /\ Len(held[p]) \in Nat
         /\ Holds(p) = Elems(held[p]) /\ Holds(p) \subseteq Buf
         /\ held[p] # <<>> => Top(p) \in Buf /\ Top(p) \in Holds(p)
  <1>1. held[p] \in Seq(Buf) /\ Len(held[p]) \in Nat /\ DOMAIN held[p] = 1 .. Len(held[p])
    BY LenProperties DEF TypeOK
  <1>2. Holds(p) = Elems(held[p]) /\ Holds(p) \subseteq Buf
    BY <1>1 DEF Holds, Elems
  <1>3. ASSUME held[p] # <<>> PROVE Top(p) \in Holds(p)
    <2>1. Len(held[p]) # 0
      BY <1>1, <1>3, EmptySeq
    <2> QED
      BY <1>1, <2>1 DEF Top, Holds
  <1> QED
    BY <1>1, <1>2, <1>3

\* Who waits for a transfer holds the buffer; so the buffers in the queue are busy.
LEMMA WaitersHold ==
  ASSUME CacheInv
  PROVE  /\ \A p \in Proc : pc[p] \in IoPCs =>
              Top(p) \in Buf /\ Top(p) \in Holds(p) /\ busy[Top(p)]
                /\ blockno[Top(p)] \in Block
         /\ \A b \in Elems(idequeue) : b \in Buf /\ busy[b] /\ blockno[b] \in Block
  <1>1. ASSUME NEW p \in Proc, pc[p] \in IoPCs
        PROVE  /\ Top(p) \in Buf /\ Top(p) \in Holds(p) /\ busy[Top(p)]
               /\ blockno[Top(p)] \in Block
    <2>1. held[p] # <<>>
      BY <1>1 DEF CacheInv, OnlyTopInvalid
    <2>2. Top(p) \in Buf /\ Top(p) \in Holds(p)
      BY <2>1, HeldIs DEF CacheInv
    <2> QED
      BY <2>2 DEF CacheInv, HeldOnce
  <1>2. ASSUME NEW b \in Elems(idequeue)
        PROVE  b \in Buf /\ busy[b] /\ blockno[b] \in Block
    <2>1. PICK p \in Proc : pc[p] \in WaitPCs /\ Top(p) = b
      BY DEF CacheInv, QueueWaits
    <2>2. pc[p] \in IoPCs
      BY <2>1 DEF WaitPCs, IoPCs
    <2> QED
      BY <1>1, <2>1, <2>2
  <1> QED
    BY <1>1, <1>2

-----------------------------------------------------------------------------
(***************************************************************************)
(* The invariant holds at the start and is preserved.                      *)
(***************************************************************************)

\* After binit the invariant holds: nothing is cached, held or queued.
LEMMA InitCache == Init => CacheInv
  <1> SUFFICES ASSUME Init PROVE CacheInv
    OBVIOUS
  <1>1. /\ \A p \in Proc : pc[p] = "run" /\ held[p] = <<>> /\ chan[p] = {} /\ Holds(p) = {}
        /\ \A b \in Buf : ~busy[b] /\ ~valid[b] /\ ~dirty[b] /\ blockno[b] = NoBlock
        /\ Elems(idequeue) = {} /\ idequeue = <<>> /\ device = <<>>
        /\ ~panicked
    BY DEF Init, Holds, Elems
  <1>2. TypeOK
    <2>1. Cardinality(Buf) \in Nat
      BY BufferAssumption, FS_CardinalityType DEF BufferAssumption
    <2>2. lru \in Seq(Buf) /\ Len(lru) = Cardinality(Buf)
      <3> DEFINE n == Cardinality(Buf)
      <3>1. lru \in [1 .. n -> Buf] /\ n \in Nat
        BY <2>1 DEF Init
      <3> HIDE DEF n
      <3>2. lru \in Seq(Buf)
        BY <3>1, SeqDef
      <3>3. Len(lru) = n
        BY <3>1, <3>2, LenProperties
      <3> QED
        BY <3>2, <3>3 DEF n
    <2>3. \A b \in Buf : \E i \in 1 .. Len(lru) : lru[i] = b
      BY <2>2 DEF Init
    <2>4. <<>> \in Seq(Buf) /\ Len(<<>>) = 0 /\ <<>> \in Seq(Commands)
      OBVIOUS
    <2>5. held \in [Proc -> Seq(Buf)] /\ \A p \in Proc : Len(held[p]) <= MAXHOLD
      BY <2>4, BufferAssumption DEF Init, BufferAssumption
    <2>6. idequeue \in Seq(Buf) /\ device \in Seq(Commands) /\ Len(device) <= 1
      BY <2>4 DEF Init
    <2> QED
      BY <2>2, <2>3, <2>5, <2>6 DEF Init, TypeOK
  <1>3. HeldOnce /\ OneBuffer /\ WantsNext
    BY <1>1 DEF HeldOnce, OneBuffer, WantsNext, GetPCs, Distinct
  <1>4. OnlyTopInvalid /\ Channels
    BY <1>1 DEF OnlyTopInvalid, Channels, IoPCs
  <1>5. /\ QueueWaits /\ DriveServesHead
        /\ CleanIsSaved /\ DirtyIsValid /\ PanicOnlyWhenFull
    BY <1>1 DEF QueueWaits, DriveServesHead, CleanIsSaved, DirtyIsValid, PanicOnlyWhenFull,
      Synced, Distinct, WaitPCs
  <1> QED
    BY <1>2, <1>3, <1>4, <1>5 DEF CacheInv

\* A step that moves one process and leaves the buffers and the drive alone.
LEMMA ControlStep ==
  ASSUME CacheInv, ~panicked, UNCHANGED <<buffers, drive, held, panicked>>,
         NEW p \in Proc, NEW l \in {"run", "bget", "bsleep", "isleep", "iwait"},
         NEW w \in Block \cup {NoBlock}, NEW c \in SUBSET Buf,
         pc' = [pc EXCEPT ![p] = l], want' = [want EXCEPT ![p] = w],
         chan' = [chan EXCEPT ![p] = c],
         l \in GetPCs => w \in Block /\ Len(held[p]) < MAXHOLD /\ Nest(p, w),
         l \in IoPCs => pc[p] \in IoPCs,
         pc[p] \in IoPCs /\ l \notin IoPCs => Synced(Top(p)),
         l = "bsleep" => \E b \in Buf : c = {b} /\ busy[b] /\ blockno[b] = w,
         l = "isleep" => c = {Top(p)} /\ Top(p) \in Elems(idequeue),
         l \notin {"bsleep", "isleep"} => c = {},
         l = "iwait" => Top(p) \in Elems(idequeue) \/ Synced(Top(p)),
         pc[p] = "iderw" => l = "iderw"
  PROVE  CacheInv'
  <1> USE DEF CacheInv
  <1>1. TypeOK'
    BY DEF TypeOK, buffers, drive
  <1>2. /\ \A q \in Proc : Holds(q)' = Holds(q) /\ Top(q)' = Top(q)
        /\ \A b \in Buf : Synced(b)' <=> Synced(b)
        /\ \A q \in Proc, k \in Block : Nest(q, k)' <=> Nest(q, k)
        /\ Elems(idequeue)' = Elems(idequeue)
    BY DEF Holds, Top, Synced, Nest, buffers, drive
  <1>3. /\ pc'[p] = l /\ want'[p] = w /\ chan'[p] = c
        /\ \A q \in Proc : q # p => pc'[q] = pc[q] /\ want'[q] = want[q] /\ chan'[q] = chan[q]
    BY DEF TypeOK
  <1>4. HeldOnce' /\ OneBuffer' /\ DriveServesHead'
    BY <1>2 DEF HeldOnce, OneBuffer, DriveServesHead, idestart, Distinct, buffers, drive
  <1>5. CleanIsSaved' /\ DirtyIsValid' /\ PanicOnlyWhenFull'
    BY <1>2 DEF CleanIsSaved, DirtyIsValid, PanicOnlyWhenFull, buffers, drive
  <1>6. WantsNext'
    BY <1>2, <1>3 DEF WantsNext
  <1>7. OnlyTopInvalid'
    BY <1>2, <1>3 DEF OnlyTopInvalid, Synced, buffers
  <1>8. Channels'
    BY <1>2, <1>3 DEF Channels, buffers
  <1>9. QueueWaits'
    <2>1. \A q \in Proc : pc[q] \in IoPCs => Top(q) \in Buf
      BY WaitersHold
    <2> QED
      BY <1>2, <1>3, <2>1 DEF QueueWaits, WaitPCs, IoPCs, drive
  <1> QED
    BY <1>1, <1>4, <1>5, <1>6, <1>7, <1>8, <1>9

\* bread only goes to bget, with a block before those the process holds.
LEMMA BreadPreserves ==
  ASSUME CacheInv, ~panicked, NEW p \in Proc, NEW k \in Block, bread(p, k)
  PROVE  CacheInv'
  <1>1. /\ pc[p] = "run" /\ Len(held[p]) < MAXHOLD /\ Nest(p, k)
        /\ pc' = [pc EXCEPT ![p] = "bget"] /\ want' = [want EXCEPT ![p] = k]
        /\ UNCHANGED <<buffers, drive, held, chan, panicked>>
    BY DEF bread, Goto
  <1>2. chan[p] = {} /\ chan' = [chan EXCEPT ![p] = {}]
    BY <1>1 DEF CacheInv, Channels, TypeOK
  <1> QED
    BY <1>1, <1>2, ControlStep DEF GetPCs, IoPCs

\* bget goes to sleep on the busy buffer with its block.
LEMMA BgetBusyPreserves ==
  ASSUME CacheInv, ~panicked, NEW p \in Proc, bget_busy(p)
  PROVE  CacheInv'
  <1> DEFINE b == Cached(want[p])
  <1>1. /\ pc[p] = "bget" /\ CachedAt(want[p]) # {} /\ busy[b]
        /\ pc' = [pc EXCEPT ![p] = "bsleep"] /\ chan' = [chan EXCEPT ![p] = {b}]
        /\ UNCHANGED <<buffers, drive, want, held, panicked>>
    BY DEF bget_busy, Goto
  <1>2. b \in Buf /\ blockno[b] = want[p]
    BY <1>1, CachedIs DEF CacheInv
  <1> HIDE DEF b
  <1>3. want[p] \in Block /\ Len(held[p]) < MAXHOLD /\ Nest(p, want[p])
    BY <1>1 DEF CacheInv, WantsNext, GetPCs
  <1>4. want' = [want EXCEPT ![p] = want[p]]
    BY <1>1 DEF CacheInv, TypeOK
  <1>5. /\ {b} \in SUBSET Buf
        /\ \E x \in Buf : {b} = {x} /\ busy[x] /\ blockno[x] = want[p]
    BY <1>1, <1>2
  <1>6. pc[p] \notin IoPCs
    BY <1>1 DEF IoPCs
  <1> QED
    BY <1>1, <1>3, <1>4, <1>5, <1>6, ControlStep DEF IoPCs

\* A killed process finds its place in the loops of bget and iderw again.
LEMMA KillPreserves ==
  ASSUME CacheInv, ~panicked, NEW p \in Proc, kill(p)
  PROVE  CacheInv'
  <1> DEFINE l == IF pc[p] = "bsleep" THEN "bget" ELSE "iwait"
  <1>1. /\ pc[p] \in {"bsleep", "isleep"}
        /\ pc' = [pc EXCEPT ![p] = l] /\ chan' = [chan EXCEPT ![p] = {}]
        /\ UNCHANGED <<buffers, drive, want, held, panicked>>
    BY DEF kill, Goto
  <1>2. want[p] \in Block \cup {NoBlock} /\ want' = [want EXCEPT ![p] = want[p]]
    BY <1>1 DEF CacheInv, TypeOK
  <1>3. pc[p] = "bsleep" => want[p] \in Block /\ Len(held[p]) < MAXHOLD /\ Nest(p, want[p])
    BY <1>1 DEF CacheInv, WantsNext, GetPCs
  <1>4. pc[p] = "isleep" => Top(p) \in Elems(idequeue)
    BY <1>1 DEF CacheInv, QueueWaits
  <1>5. CASE pc[p] = "bsleep"
    <2>1. /\ pc' = [pc EXCEPT ![p] = "bget"] /\ chan' = [chan EXCEPT ![p] = {}]
          /\ UNCHANGED <<buffers, drive, held, panicked>> /\ pc[p] \notin IoPCs
          /\ want[p] \in Block /\ Len(held[p]) < MAXHOLD /\ Nest(p, want[p])
      BY <1>1, <1>3, <1>5 DEF IoPCs
    <2> HIDE DEF l
    <2> QED
      BY <1>2, <2>1, ControlStep DEF IoPCs
  <1>6. CASE pc[p] = "isleep"
    <2>1. /\ pc' = [pc EXCEPT ![p] = "iwait"] /\ chan' = [chan EXCEPT ![p] = {}]
          /\ UNCHANGED <<buffers, drive, held, panicked>> /\ pc[p] \in IoPCs /\ pc[p] # "iderw"
          /\ Top(p) \in Elems(idequeue)
      BY <1>1, <1>4, <1>6 DEF IoPCs
    <2> HIDE DEF l
    <2> QED
      BY <1>2, <2>1, ControlStep DEF GetPCs, IoPCs
  <1> QED
    BY <1>1, <1>5, <1>6

\* iderw leaves its loop only when the transfer is done.
LEMMA IderwWaitPreserves ==
  ASSUME CacheInv, ~panicked, NEW p \in Proc, iderw_wait(p)
  PROVE  CacheInv'
  <1>1. pc[p] = "iwait" /\ UNCHANGED <<buffers, drive, want, held, panicked>>
    BY DEF iderw_wait
  <1>2. want[p] \in Block \cup {NoBlock} /\ want' = [want EXCEPT ![p] = want[p]]
    BY <1>1 DEF CacheInv, TypeOK
  <1>3. CASE Synced(Top(p)) /\ Goto(p, "run") /\ UNCHANGED chan
    <2>1. chan[p] = {} /\ chan' = [chan EXCEPT ![p] = {}]
      BY <1>1, <1>3 DEF CacheInv, Channels, TypeOK
    <2> QED
      BY <1>1, <1>2, <1>3, <2>1, ControlStep DEF GetPCs, IoPCs, Goto
  <1>4. CASE /\ ~Synced(Top(p)) /\ chan' = [chan EXCEPT ![p] = {Top(p)}]
             /\ Goto(p, "isleep")
    <2>1. Top(p) \in Elems(idequeue)
      BY <1>1, <1>4 DEF CacheInv, QueueWaits
    <2>2. {Top(p)} \in SUBSET Buf
      BY <2>1, WaitersHold
    <2> QED
      BY <1>1, <1>2, <1>4, <2>1, <2>2, ControlStep DEF GetPCs, IoPCs, Goto
  <1> QED
    BY <1>3, <1>4 DEF iderw_wait

\* bget panics when its second scan finds every buffer busy or dirty.
LEMMA BgetPanicPreserves ==
  ASSUME CacheInv, ~panicked, NEW p \in Proc, bget_panic(p)
  PROVE  CacheInv'
  <1>1. RecyclableAt = {} /\ panicked' = TRUE /\ UNCHANGED <<buffers, drive, pc, want, held, chan>>
    BY DEF bget_panic
  <1>2. \A b \in Buf : busy[b] \/ dirty[b]
    BY <1>1, RecycledIs DEF CacheInv, Recyclable
  <1>3. PanicOnlyWhenFull'
    BY <1>1, <1>2 DEF CacheInv, HeldOnce, PanicOnlyWhenFull, Pinned, Holds, buffers
  <1>4. TypeOK'
    BY <1>1 DEF CacheInv, TypeOK, buffers, drive
  <1>5. HeldOnce' /\ OneBuffer' /\ WantsNext'
    BY <1>1 DEF CacheInv, HeldOnce, OneBuffer, WantsNext, Nest, Holds, Distinct, buffers
  <1>6. OnlyTopInvalid' /\ Channels'
    BY <1>1 DEF CacheInv, OnlyTopInvalid, Channels, Holds, Top, buffers
  <1>7. /\ \A b : Synced(b)' <=> Synced(b)
        /\ \A q \in Proc : Top(q)' = Top(q)
        /\ Elems(idequeue)' = Elems(idequeue) /\ (Distinct(idequeue)' <=> Distinct(idequeue))
    BY <1>1 DEF Synced, Top, buffers, drive
  <1>8. QueueWaits'
    BY <1>1, <1>7 DEF CacheInv, QueueWaits
  <1>9. DriveServesHead' /\ CleanIsSaved' /\ DirtyIsValid'
    BY <1>1, <1>7 DEF CacheInv, DriveServesHead, CleanIsSaved, DirtyIsValid, idestart,
      buffers, drive
  <1> QED
    BY <1>3, <1>4, <1>5, <1>6, <1>8, <1>9 DEF CacheInv

\* bget gives a free buffer to a process: the one that has the block, or another that is
\* clean and then has no valid data.
LEMMA GrantPreserves ==
  ASSUME CacheInv, ~panicked, NEW p \in Proc, NEW b \in Buf, NEW k \in Block,
         NEW vb \in BOOLEAN, NEW db \in BOOLEAN,
         pc[p] = "bget", k = want[p], ~busy[b],
         \A c \in Buf \ {b} : blockno[c] # k,
         vb => blockno[b] = k /\ vb = valid[b] /\ db = dirty[b], db => vb,
         blockno' = [blockno EXCEPT ![b] = k], busy' = [busy EXCEPT ![b] = TRUE],
         valid' = [valid EXCEPT ![b] = vb], dirty' = [dirty EXCEPT ![b] = db],
         held' = [held EXCEPT ![p] = Append(@, b)],
         pc' = [pc EXCEPT ![p] = IF vb THEN "run" ELSE "iderw"],
         want' = [want EXCEPT ![p] = NoBlock],
         UNCHANGED <<lru, data, drive, chan, panicked>>
  PROVE  CacheInv'
  <1> USE DEF CacheInv
  <1>1. /\ want[p] \in Block /\ Len(held[p]) < MAXHOLD /\ Nest(p, k)
        /\ chan[p] = {}
    BY DEF WantsNext, Channels, GetPCs
  <1>2. \A q \in Proc : b \notin Holds(q)
    BY DEF HeldOnce
  <1>3. /\ \A q \in Proc : q # p => held'[q] = held[q]
        /\ held'[p] = Append(held[p], b)
    BY DEF TypeOK
  <1>4. /\ held[p] \in Seq(Buf) /\ Len(held[p]) \in Nat /\ Holds(p) = Elems(held[p])
        /\ held'[p] \in Seq(Buf) /\ held'[p] # <<>> /\ Len(held'[p]) = Len(held[p]) + 1
        /\ held'[p][Len(held[p]) + 1] = b
        /\ Elems(held'[p]) = Elems(held[p]) \cup {b}
        /\ Distinct(held'[p])
    BY <1>2, <1>3, HeldIs, ElemsAppend DEF HeldOnce
  <1>5. /\ Holds(p)' = Holds(p) \cup {b} /\ Top(p)' = b
        /\ \A q \in Proc : q # p => Holds(q)' = Holds(q) /\ Top(q)' = Top(q)
    <2>1. Holds(p)' = Elems(held'[p])
      BY DEF Holds, Elems
    <2>2. Top(p)' = b
      BY <1>4 DEF Top
    <2>3. \A q \in Proc : q # p => Holds(q)' = Holds(q) /\ Top(q)' = Top(q)
      BY <1>3 DEF Holds, Top
    <2> QED
      BY <1>4, <2>1, <2>2, <2>3
  <1>6. /\ blockno'[b] = k /\ busy'[b] /\ (valid'[b] <=> vb) /\ (dirty'[b] <=> db)
        /\ \A c \in Buf : c # b => /\ blockno'[c] = blockno[c] /\ busy'[c] = busy[c]
                                   /\ valid'[c] = valid[c] /\ dirty'[c] = dirty[c]
        /\ pc'[p] = (IF vb THEN "run" ELSE "iderw")
        /\ \A q \in Proc : q # p => pc'[q] = pc[q] /\ want'[q] = want[q]
    BY DEF TypeOK
  <1>7. b \notin Elems(idequeue) /\ \A c \in Elems(idequeue) : c \in Buf
    BY WaitersHold
  <1>8. TypeOK'
    <2>1. held' \in [Proc -> Seq(Buf)]
      BY <1>3, <1>4 DEF TypeOK
    <2>2. \A q \in Proc : Len(held'[q]) <= MAXHOLD
      BY <1>1, <1>3, <1>4, BufferAssumption DEF TypeOK, BufferAssumption
    <2>3. /\ blockno' \in [Buf -> Block \cup {NoBlock}] /\ busy' \in [Buf -> BOOLEAN]
          /\ valid' \in [Buf -> BOOLEAN] /\ dirty' \in [Buf -> BOOLEAN]
          /\ want' \in [Proc -> Block \cup {NoBlock}]
          /\ pc' \in [Proc -> {"run", "bget", "bsleep", "iderw", "isleep", "iwait"}]
      BY DEF TypeOK
    <2> QED
      BY <2>1, <2>2, <2>3 DEF TypeOK, drive
  <1>9. \A q \in Proc : Holds(q) \subseteq Buf
    BY HeldIs
  <1>10. HeldOnce'
    <2>1. \A q \in Proc : Distinct(held'[q])
      BY <1>3, <1>4 DEF HeldOnce
    <2>2. \A q, r \in Proc : \A c \in Buf : c \in Holds(q)' /\ c \in Holds(r)' => q = r
      BY <1>2, <1>5 DEF HeldOnce
    <2>3. \A c \in Buf : busy'[c] <=> \E q \in Proc : c \in Holds(q)'
      BY <1>5, <1>6 DEF HeldOnce
    <2>4. \A q \in Proc : \A c \in Holds(q)' : blockno'[c] \in Block
      BY <1>2, <1>5, <1>6, <1>9 DEF HeldOnce
    <2> QED
      BY <2>1, <2>2, <2>3, <2>4 DEF HeldOnce, Distinct
  <1>11. OneBuffer'
    BY <1>6 DEF OneBuffer
  <1>12. WantsNext'
    <2> SUFFICES ASSUME NEW q \in Proc, pc'[q] \in GetPCs
                 PROVE  want'[q] \in Block /\ Len(held'[q]) < MAXHOLD /\ Nest(q, want[q])'
      BY <1>6 DEF WantsNext
    <2>1. q # p /\ pc[q] \in GetPCs
      BY <1>6 DEF GetPCs
    <2>2. want[q] \in Block /\ Len(held[q]) < MAXHOLD /\ Nest(q, want[q])
      BY <2>1 DEF WantsNext
    <2>3. \A c \in Holds(q) : blockno'[c] = blockno[c]
      BY <1>2, <1>6, <1>9
    <2> QED
      BY <1>3, <1>5, <1>6, <2>1, <2>2, <2>3 DEF Nest
  <1>13. OnlyTopInvalid'
    <2>1. \A q \in Proc : pc'[q] \in IoPCs => held'[q] # <<>>
      BY <1>3, <1>4, <1>6 DEF OnlyTopInvalid
    <2>2. \A c \in Holds(p) : valid[c]
      BY DEF OnlyTopInvalid, IoPCs
    <2>3. \A q \in Proc : \A c \in Holds(q)' : valid'[c] \/ (pc'[q] \in IoPCs /\ c = Top(q)')
      <3> SUFFICES ASSUME NEW q \in Proc, NEW c \in Holds(q)'
                   PROVE  valid'[c] \/ (pc'[q] \in IoPCs /\ c = Top(q)')
        OBVIOUS
      <3>1. CASE q = p
        BY <1>2, <1>5, <1>6, <1>9, <2>2, <3>1 DEF IoPCs
      <3>2. CASE q # p
        <4>1. c \in Holds(q) /\ c \in Buf /\ c # b
          BY <1>2, <1>5, <1>9, <3>2
        <4> QED
          BY <1>5, <1>6, <3>2, <4>1 DEF OnlyTopInvalid
      <3> QED
        BY <3>1, <3>2
    <2> QED
      BY <2>1, <2>3 DEF OnlyTopInvalid
  <1>14. Channels'
    <2> SUFFICES ASSUME NEW q \in Proc
                 PROVE  /\ pc'[q] = "bsleep" => \E c \in Buf :
                             chan'[q] = {c} /\ busy'[c] /\ blockno'[c] = want'[q]
                        /\ pc'[q] = "isleep" => chan'[q] = {Top(q)'}
                        /\ pc'[q] \notin {"bsleep", "isleep"} => chan'[q] = {}
      BY DEF Channels
    <2>1. CASE q = p
      BY <1>1, <1>6, <2>1
    <2>2. CASE q # p
      BY <1>5, <1>6, <2>2 DEF Channels
    <2> QED
      BY <2>1, <2>2
  <1>15. \A q \in Proc : pc[q] \in IoPCs => Top(q) \in Buf /\ Top(q) # b /\ q # p
    BY WaitersHold DEF IoPCs
  <1>16. QueueWaits'
    <2>1. Distinct(idequeue') /\ Elems(idequeue') = Elems(idequeue)
      BY DEF QueueWaits, drive
    <2>2. ASSUME NEW c \in Elems(idequeue)
          PROVE  /\ ~(valid'[c] /\ ~dirty'[c])
                 /\ \E q \in Proc : pc'[q] \in WaitPCs /\ Top(q)' = c
      <3>1. PICK q \in Proc : pc[q] \in WaitPCs /\ Top(q) = c
        BY DEF QueueWaits
      <3>2. q # p
        BY <3>1 DEF WaitPCs
      <3>3. ~(valid'[c] /\ ~dirty'[c])
        BY <1>6, <1>7 DEF QueueWaits, Synced
      <3> QED
        BY <1>5, <1>6, <3>1, <3>2, <3>3
    <2>3. ASSUME NEW q \in Proc, q # p
          PROVE  /\ pc'[q] = "iderw" => ~(valid'[Top(q)'] /\ ~dirty'[Top(q)'])
                 /\ pc'[q] = "isleep" => Top(q)' \in Elems(idequeue)
                 /\ pc'[q] = "iwait" =>
                      Top(q)' \in Elems(idequeue) \/ (valid'[Top(q)'] /\ ~dirty'[Top(q)'])
      <3>1. pc'[q] = pc[q] /\ Top(q)' = Top(q)
        BY <1>5, <1>6, <2>3
      <3>2. pc[q] \in IoPCs =>
              valid'[Top(q)] = valid[Top(q)] /\ dirty'[Top(q)] = dirty[Top(q)]
        BY <1>6, <1>15
      <3> QED
        BY <3>1, <3>2 DEF QueueWaits, IoPCs, Synced
    <2>4. pc'[p] = "iderw" => ~(valid'[Top(p)'] /\ ~dirty'[Top(p)'])
      BY <1>5, <1>6
    <2> QED
      BY <1>6, <2>1, <2>2, <2>3, <2>4 DEF QueueWaits, Synced
  <1>17. DriveServesHead'
    <2>1. idequeue # <<>> => Head(idequeue) \in Elems(idequeue)
      BY ElemsTail DEF TypeOK
    <2> QED
      BY <1>6, <1>7, <2>1 DEF DriveServesHead, idestart, drive
  <1>18. CleanIsSaved' /\ DirtyIsValid'
    BY <1>6 DEF CleanIsSaved, DirtyIsValid, Synced, drive
  <1>19. PanicOnlyWhenFull'
    BY DEF PanicOnlyWhenFull
  <1> QED
    BY <1>8, <1>10, <1>11, <1>12, <1>13, <1>14, <1>16, <1>17, <1>18, <1>19

\* bget takes the free buffer that has the block.
LEMMA BgetCachedPreserves ==
  ASSUME CacheInv, ~panicked, NEW p \in Proc, bget_cached(p)
  PROVE  CacheInv'
  <1> DEFINE b == Cached(want[p])
             k == want[p]
  <1>1. /\ pc[p] = "bget" /\ CachedAt(k) # {} /\ ~busy[b]
        /\ busy' = [busy EXCEPT ![b] = TRUE]
        /\ held' = [held EXCEPT ![p] = Append(@, b)]
        /\ pc' = [pc EXCEPT ![p] = IF valid[b] THEN "run" ELSE "iderw"]
        /\ want' = [want EXCEPT ![p] = NoBlock]
        /\ UNCHANGED <<lru, blockno, valid, dirty, data, drive, chan, panicked>>
    BY DEF bget_cached, Goto
  <1>2. b \in Buf /\ blockno[b] = k /\ k \in Block
    BY <1>1, CachedIs DEF CacheInv, WantsNext, GetPCs
  <1>3. k = want[p]
    OBVIOUS
  <1> HIDE DEF b, k
  <1>4. \A c \in Buf \ {b} : blockno[c] # k
    BY <1>2, BufferAssumption DEF CacheInv, OneBuffer, BufferAssumption
  <1>5. /\ valid[b] \in BOOLEAN /\ dirty[b] \in BOOLEAN
        /\ blockno' = [blockno EXCEPT ![b] = k]
        /\ valid' = [valid EXCEPT ![b] = valid[b]]
        /\ dirty' = [dirty EXCEPT ![b] = dirty[b]]
    BY <1>1, <1>2 DEF CacheInv, TypeOK
  <1>6. dirty[b] => valid[b]
    BY <1>2 DEF CacheInv, DirtyIsValid
  <1> QED
    BY <1>1, <1>2, <1>3, <1>4, <1>5, <1>6, GrantPreserves

\* bget takes a clean buffer for a block that is in none.
LEMMA BgetRecyclePreserves ==
  ASSUME CacheInv, ~panicked, NEW p \in Proc, bget_recycle(p)
  PROVE  CacheInv'
  <1> DEFINE b == lru[Max(RecyclableAt)]
             k == want[p]
  <1>1. /\ pc[p] = "bget" /\ CachedAt(k) = {} /\ RecyclableAt # {}
        /\ blockno' = [blockno EXCEPT ![b] = k]
        /\ busy' = [busy EXCEPT ![b] = TRUE]
        /\ valid' = [valid EXCEPT ![b] = FALSE]
        /\ dirty' = [dirty EXCEPT ![b] = FALSE]
        /\ held' = [held EXCEPT ![p] = Append(@, b)]
        /\ pc' = [pc EXCEPT ![p] = "iderw"]
        /\ want' = [want EXCEPT ![p] = NoBlock]
        /\ UNCHANGED <<lru, data, drive, chan, panicked>>
    BY DEF bget_recycle, Goto
  <1>2. b \in Buf /\ ~busy[b] /\ k \in Block /\ k = want[p]
    BY <1>1, RecycledIs DEF CacheInv, WantsNext, GetPCs, Recyclable
  <1>3. \A c \in Buf : blockno[c] # k
    BY <1>1, CachedIs DEF CacheInv
  <1> HIDE DEF b, k
  <1>4. pc' = [pc EXCEPT ![p] = IF FALSE THEN "run" ELSE "iderw"]
    BY <1>1
  <1> QED
    BY <1>1, <1>2, <1>3, <1>4, GrantPreserves

\* The buffer that a process works on becomes its last one; it holds the same buffers.
LEMMA RaiseIs ==
  ASSUME TypeOK, HeldOnce, NEW p \in Proc, NEW b \in Holds(p),
         held' = [held EXCEPT ![p] = Append(Unlink(@, b), b)]
  PROVE  /\ held' \in [Proc -> Seq(Buf)] /\ held'[p] # <<>>
         /\ \A q \in Proc : Len(held'[q]) = Len(held[q]) /\ Holds(q)' = Holds(q)
         /\ \A q \in Proc : Distinct(held'[q])
         /\ Top(p)' = b /\ \A q \in Proc : q # p => Top(q)' = Top(q)
  <1> DEFINE s == held[p]
             t == Unlink(s, b)
             r == Append(t, b)
  <1>1. s \in Seq(Buf) /\ Len(s) \in Nat /\ Holds(p) = Elems(s) /\ b \in Buf /\ Distinct(s)
    BY HeldIs DEF HeldOnce
  <1>2. /\ t \in Seq(Buf) /\ Len(t) = Len(s) - 1 /\ Elems(s) = Elems(t) \cup {b}
        /\ b \notin Elems(t) /\ Distinct(t)
    <2>1. b \in Elems(s)
      BY <1>1
    <2> HIDE DEF s, t
    <2> QED
      BY <1>1, <2>1, ElemsUnlink DEF t
  <1> HIDE DEF t
  <1>3. /\ r \in Seq(Buf) /\ r # <<>> /\ Len(r) = Len(t) + 1 /\ r[Len(t) + 1] = b
        /\ Elems(r) = Elems(t) \cup {b} /\ Distinct(r)
    BY <1>1, <1>2, ElemsAppend
  <1> HIDE DEF r
  <1>4. held' = [held EXCEPT ![p] = r]
    BY DEF r, t
  <1>5. held'[p] = r /\ \A q \in Proc : q # p => held'[q] = held[q]
    BY <1>4 DEF TypeOK
  <1>6. held' \in [Proc -> Seq(Buf)]
    BY <1>3, <1>4 DEF TypeOK
  <1>7. Len(r) = Len(s)
    BY <1>1, <1>2, <1>3
  <1>8. Holds(p)' = Holds(p)
    <2>1. Holds(p)' = Elems(r)
      BY <1>5 DEF Holds, Elems
    <2> QED
      BY <1>1, <1>2, <1>3, <2>1
  <1>9. Top(p)' = b
    BY <1>3, <1>5 DEF Top
  <1>10. ASSUME NEW q \in Proc, q # p
         PROVE  /\ Len(held'[q]) = Len(held[q]) /\ Holds(q)' = Holds(q)
                /\ Distinct(held'[q]) /\ Top(q)' = Top(q)
    BY <1>5, <1>10 DEF HeldOnce, Holds, Top
  <1> QED
    BY <1>3, <1>5, <1>6, <1>7, <1>8, <1>9, <1>10

\* A holder changes one of its buffers, which becomes dirty, and may go on to iderw.
LEMMA ChangePreserves ==
  ASSUME CacheInv, ~panicked, NEW p \in Proc, NEW b \in Buf, NEW v \in Value,
         NEW l \in {"run", "iderw"}, Change(p, b, v), pc' = [pc EXCEPT ![p] = l]
  PROVE  CacheInv'
  <1> USE DEF CacheInv
  <1>0. /\ pc[p] = "run" /\ b \in Holds(p)
        /\ data' = [data EXCEPT ![b] = v] /\ dirty' = [dirty EXCEPT ![b] = TRUE]
        /\ held' = [held EXCEPT ![p] = Append(Unlink(@, b), b)]
        /\ UNCHANGED <<lru, blockno, busy, valid, drive, want, chan, panicked>>
    BY DEF Change
  <1>1. \A q \in Proc : Holds(q) \subseteq Buf
    BY HeldIs
  <1>2. /\ held' \in [Proc -> Seq(Buf)] /\ held'[p] # <<>>
        /\ \A q \in Proc : Len(held'[q]) = Len(held[q]) /\ Holds(q)' = Holds(q)
        /\ \A q \in Proc : Distinct(held'[q])
        /\ Top(p)' = b /\ \A q \in Proc : q # p => Top(q)' = Top(q)
    BY <1>0, RaiseIs
  <1>3. /\ data'[b] = v /\ dirty'[b] = TRUE
        /\ \A c \in Buf : c # b => data'[c] = data[c] /\ dirty'[c] = dirty[c]
        /\ pc'[p] = l /\ \A q \in Proc : q # p => pc'[q] = pc[q]
    BY <1>0 DEF TypeOK
  <1>4. TypeOK'
    BY <1>0, <1>2 DEF TypeOK, drive
  <1>5. \A q \in Proc : pc[q] \in IoPCs => Top(q) \in Buf /\ Top(q) # b /\ q # p
    BY <1>0, WaitersHold DEF HeldOnce, IoPCs
  <1>6. b \notin Elems(idequeue) /\ \A c \in Elems(idequeue) : c \in Buf
    <2>1. WaitPCs \subseteq IoPCs
      BY DEF WaitPCs, IoPCs
    <2> QED
      BY <1>5, <2>1, WaitersHold DEF QueueWaits
  <1>7. HeldOnce' /\ OneBuffer' /\ WantsNext'
    BY <1>0, <1>2, <1>3 DEF HeldOnce, OneBuffer, WantsNext, Nest, GetPCs
  <1>8. OnlyTopInvalid' /\ Channels'
    <2>1. \A c \in Holds(p) : valid[c]
      BY <1>0 DEF OnlyTopInvalid, IoPCs
    <2>2. OnlyTopInvalid'
      BY <1>0, <1>2, <1>3, <2>1 DEF OnlyTopInvalid, IoPCs
    <2>3. Channels'
      BY <1>0, <1>2, <1>3 DEF Channels
    <2> QED
      BY <2>2, <2>3
  <1>9. QueueWaits'
    <2>1. Distinct(idequeue') /\ Elems(idequeue') = Elems(idequeue)
      BY <1>0 DEF QueueWaits, drive
    <2>2. ASSUME NEW c \in Elems(idequeue)
          PROVE  /\ ~(valid'[c] /\ ~dirty'[c])
                 /\ \E q \in Proc : pc'[q] \in WaitPCs /\ Top(q)' = c
      <3>1. PICK q \in Proc : pc[q] \in WaitPCs /\ Top(q) = c
        BY DEF QueueWaits
      <3>2. q # p
        BY <1>0, <3>1 DEF WaitPCs
      <3>3. ~(valid'[c] /\ ~dirty'[c])
        BY <1>0, <1>3, <1>6 DEF QueueWaits, Synced
      <3> QED
        BY <1>2, <1>3, <3>1, <3>2, <3>3
    <2>3. ASSUME NEW q \in Proc, q # p
          PROVE  /\ pc'[q] = "iderw" => ~(valid'[Top(q)'] /\ ~dirty'[Top(q)'])
                 /\ pc'[q] = "isleep" => Top(q)' \in Elems(idequeue)
                 /\ pc'[q] = "iwait" =>
                      Top(q)' \in Elems(idequeue) \/ (valid'[Top(q)'] /\ ~dirty'[Top(q)'])
      <3>1. pc'[q] = pc[q] /\ Top(q)' = Top(q)
        BY <1>2, <1>3, <2>3
      <3>2. pc[q] \in IoPCs =>
              valid'[Top(q)] = valid[Top(q)] /\ dirty'[Top(q)] = dirty[Top(q)]
        BY <1>0, <1>3, <1>5
      <3> QED
        BY <3>1, <3>2 DEF QueueWaits, IoPCs, Synced
    <2> QED
      BY <1>2, <1>3, <2>1, <2>2, <2>3 DEF QueueWaits, Synced
  <1>10. DriveServesHead'
    <2>1. idequeue # <<>> => Head(idequeue) \in Elems(idequeue)
      BY ElemsTail DEF TypeOK
    <2> QED
      BY <1>0, <1>3, <1>6, <2>1 DEF DriveServesHead, idestart, drive
  <1>11. CleanIsSaved' /\ DirtyIsValid'
    <2>1. valid[b]
      BY <1>0 DEF OnlyTopInvalid, IoPCs
    <2> QED
      BY <1>0, <1>3, <2>1 DEF CleanIsSaved, DirtyIsValid, Synced, drive
  <1>12. PanicOnlyWhenFull'
    BY <1>0 DEF PanicOnlyWhenFull
  <1> QED
    BY <1>4, <1>7, <1>8, <1>9, <1>10, <1>11, <1>12

\* bwrite marks the buffer dirty and goes on to iderw.
LEMMA BwritePreserves ==
  ASSUME CacheInv, ~panicked, NEW p \in Proc, NEW b \in Buf, NEW v \in Value, bwrite(p, b, v)
  PROVE  CacheInv'
  BY ChangePreserves DEF bwrite, Goto

\* log_write marks the buffer dirty and leaves it to the commit.
LEMMA LogWritePreserves ==
  ASSUME CacheInv, ~panicked, NEW p \in Proc, NEW b \in Buf, NEW v \in Value, log_write(p, b, v)
  PROVE  CacheInv'
  <1>1. pc' = [pc EXCEPT ![p] = "run"]
    BY DEF log_write, Change, CacheInv, TypeOK
  <1> QED
    BY <1>1, ChangePreserves DEF log_write

\* iderw queues a buffer that has to be transferred: its panic "nothing to do" never comes.
LEMMA IderwPreserves ==
  ASSUME CacheInv, ~panicked, NEW p \in Proc, iderw(p)
  PROVE  CacheInv'
  <1> USE DEF CacheInv
  <1> DEFINE b == Top(p)
  <1>1. /\ pc[p] = "iderw" /\ panicked' = (valid[b] /\ ~dirty[b])
        /\ device' = StartNow(b) /\ idequeue' = Append(idequeue, b)
        /\ chan' = [chan EXCEPT ![p] = {b}] /\ pc' = [pc EXCEPT ![p] = "isleep"]
        /\ UNCHANGED <<buffers, disk, failed, want, held>>
    BY DEF iderw, Goto
  <1>2. b \in Buf /\ b \in Holds(p) /\ ~Synced(b) /\ blockno[b] \in Block
    BY <1>1, WaitersHold DEF IoPCs, QueueWaits
  <1>3. ~panicked' /\ panicked' \in BOOLEAN
    BY <1>1, <1>2 DEF Synced
  <1>4. \A q \in Proc : Holds(q)' = Holds(q) /\ Top(q)' = Top(q)
    BY <1>1 DEF Holds, Top
  <1>5. /\ pc'[p] = "isleep" /\ chan'[p] = {b}
        /\ \A q \in Proc : q # p => pc'[q] = pc[q] /\ chan'[q] = chan[q]
    BY <1>1 DEF TypeOK
  <1>6. b \notin Elems(idequeue)
    <2> SUFFICES ASSUME NEW q \in Proc, pc[q] \in WaitPCs, Top(q) = b PROVE FALSE
      BY DEF QueueWaits
    <2>1. b \in Holds(q)
      BY WaitersHold DEF WaitPCs, IoPCs
    <2>2. q = p
      BY <1>2, <2>1 DEF HeldOnce
    <2> QED
      BY <1>1, <2>2 DEF WaitPCs
  <1> HIDE DEF b
  <1>7. /\ idequeue' \in Seq(Buf) /\ idequeue' # <<>> /\ Distinct(idequeue')
        /\ Elems(idequeue') = Elems(idequeue) \cup {b}
    <2>1. idequeue \in Seq(Buf) /\ Distinct(idequeue)
      BY DEF TypeOK, QueueWaits
    <2> QED
      BY <1>1, <1>2, <1>6, <2>1, ElemsAppend
  <1>8. idestart(b) \in Seq(Commands) /\ Len(idestart(b)) = 1
    BY <1>2 DEF idestart, Commands, TypeOK
  <1>9. device' \in Seq(Commands) /\ Len(device') <= 1
    <2>1. device' = idestart(b) \/ device' = device
      BY <1>1 DEF StartNow
    <2>2. device \in Seq(Commands) /\ Len(device) <= 1
      BY DEF TypeOK
    <2>3. CASE device' = idestart(b)
      <3>1. device' \in Seq(Commands) /\ Len(device') = 1
        BY <1>8, <2>3, Zenon
      <3> QED
        BY <3>1
    <2>4. CASE device' = device
      BY <2>2, <2>4
    <2> QED
      BY <2>1, <2>3, <2>4
  <1>10. TypeOK'
    BY <1>1, <1>2, <1>3, <1>7, <1>9 DEF TypeOK, buffers
  <1>11. HeldOnce' /\ OneBuffer' /\ WantsNext'
    BY <1>1, <1>4, <1>5 DEF HeldOnce, OneBuffer, WantsNext, Nest, Distinct, GetPCs, buffers
  <1>12. OnlyTopInvalid' /\ Channels'
    BY <1>1, <1>4, <1>5 DEF OnlyTopInvalid, Channels, IoPCs, buffers, b
  <1>13. QueueWaits'
    <2>1. Top(p) = b
      BY DEF b
    <2>2. \A c \in Buf : Synced(c)' <=> Synced(c)
      BY <1>1 DEF Synced, buffers
    <2>3. \A q \in Proc : pc[q] \in IoPCs => Top(q) \in Buf
      BY WaitersHold
    <2>4. \A c \in Elems(idequeue') : c \in Buf
      BY <1>2, <1>7, WaitersHold
    <2>5. ASSUME NEW c \in Elems(idequeue')
          PROVE  ~Synced(c) /\ \E q \in Proc : pc'[q] \in WaitPCs /\ Top(q) = c
      <3>1. CASE c = b
        BY <1>2, <1>5, <2>1, <3>1 DEF WaitPCs
      <3>2. CASE c # b
        <4>1. c \in Elems(idequeue)
          BY <1>7, <3>2
        <4> QED
          BY <1>1, <1>5, <4>1 DEF QueueWaits, WaitPCs
      <3> QED
        BY <3>1, <3>2
    <2> QED
      BY <1>4, <1>5, <1>7, <2>1, <2>2, <2>3, <2>4, <2>5 DEF QueueWaits, IoPCs
  <1>14. DriveServesHead'
    <2>1. CASE idequeue = <<>>
      <3>1. Head(idequeue') = b /\ device' = idestart(b)
        BY <1>1, <2>1 DEF StartNow
      <3>2. device' # <<>>
        BY <3>1 DEF idestart
      <3> QED
        BY <1>1, <1>7, <3>1, <3>2 DEF DriveServesHead, idestart, buffers
    <2>2. CASE idequeue # <<>>
      <3>1. Head(idequeue') = Head(idequeue) /\ device' = device
        BY <1>1, <2>2 DEF StartNow, TypeOK
      <3> QED
        BY <1>1, <1>7, <2>2, <3>1 DEF DriveServesHead, idestart, buffers
    <2> QED
      BY <2>1, <2>2
  <1>15. CleanIsSaved' /\ DirtyIsValid' /\ PanicOnlyWhenFull'
    BY <1>1, <1>3 DEF CleanIsSaved, DirtyIsValid, PanicOnlyWhenFull, Synced, buffers
  <1> QED
    BY <1>10, <1>11, <1>12, <1>13, <1>14, <1>15

\* Who sleeps on a buffer that somebody else holds sleeps in bget.
LEMMA WakeupIs ==
  ASSUME CacheInv, NEW b \in Buf, wakeup(b)
  PROVE  /\ \A q \in Proc : b \notin chan[q] => pc'[q] = pc[q] /\ chan'[q] = chan[q]
         /\ \A q \in Proc : b \in chan[q] =>
              /\ chan'[q] = {}
              /\ \/ pc[q] = "bsleep" /\ pc'[q] = "bget"
                 \/ pc[q] = "isleep" /\ Top(q) = b /\ pc'[q] = "iwait"
         /\ pc' \in [Proc -> {"run", "bget", "bsleep", "iderw", "isleep", "iwait"}]
         /\ chan' \in [Proc -> SUBSET Buf]
  <1>1. /\ \A q \in Proc : pc'[q] = (IF b \notin chan[q] THEN pc[q]
                                     ELSE IF pc[q] = "bsleep" THEN "bget" ELSE "iwait")
        /\ \A q \in Proc : chan'[q] = chan[q] \ {b}
        /\ pc' \in [Proc -> {"run", "bget", "bsleep", "iderw", "isleep", "iwait"}]
        /\ chan' \in [Proc -> SUBSET Buf]
    BY DEF wakeup, CacheInv, TypeOK
  <1>2. \A q \in Proc : b \in chan[q] =>
          chan[q] = {b} /\ (pc[q] = "bsleep" \/ (pc[q] = "isleep" /\ Top(q) = b))
    BY DEF CacheInv, Channels
  <1>3. ASSUME NEW q \in Proc, b \notin chan[q] PROVE pc'[q] = pc[q] /\ chan'[q] = chan[q]
    BY <1>1, <1>3
  <1>4. ASSUME NEW q \in Proc, b \in chan[q]
        PROVE  /\ chan'[q] = {}
               /\ \/ pc[q] = "bsleep" /\ pc'[q] = "bget"
                  \/ pc[q] = "isleep" /\ Top(q) = b /\ pc'[q] = "iwait"
    <2>1. chan[q] = {b} /\ (pc[q] = "bsleep" \/ (pc[q] = "isleep" /\ Top(q) = b))
      BY <1>2, <1>4
    <2>2. chan'[q] = {}
      BY <1>1, <2>1
    <2>3. pc'[q] = IF pc[q] = "bsleep" THEN "bget" ELSE "iwait"
      BY <1>1, <1>4
    <2> QED
      BY <2>1, <2>2, <2>3
  <1> QED
    BY <1>1, <1>3, <1>4

\* brelse: the buffer is free again, and whoever sleeps in bget for it tries again.
LEMMA BrelsePreserves ==
  ASSUME CacheInv, ~panicked, NEW p \in Proc, NEW b \in Buf, brelse(p, b)
  PROVE  CacheInv'
  <1> USE DEF CacheInv
  <1>1. /\ pc[p] = "run" /\ b \in Holds(p) /\ lru' = <<b>> \o Unlink(lru, b)
        /\ busy' = [busy EXCEPT ![b] = FALSE]
        /\ held' = [held EXCEPT ![p] = Unlink(@, b)]
        /\ wakeup(b)
        /\ UNCHANGED <<blockno, valid, dirty, data, drive, want, panicked>>
    BY DEF brelse, BrelseWakes, ToFront
  <1>2. /\ held'[p] = Unlink(held[p], b)
        /\ \A q \in Proc : q # p => held'[q] = held[q]
        /\ ~busy'[b] /\ \A c \in Buf : c # b => busy'[c] = busy[c]
    BY <1>1 DEF TypeOK
  <1>3. /\ held[p] \in Seq(Buf) /\ Len(held[p]) \in Nat
        /\ held'[p] \in Seq(Buf) /\ Len(held'[p]) = Len(held[p]) - 1
        /\ Holds(p) = Elems(held'[p]) \cup {b} /\ b \notin Elems(held'[p]) /\ Distinct(held'[p])
    BY <1>1, <1>2, HeldIs, ElemsUnlink DEF HeldOnce
  <1>4. /\ Holds(p)' = Holds(p) \ {b}
        /\ \A q \in Proc : q # p => Holds(q)' = Holds(q) /\ Top(q)' = Top(q)
    <2>1. Holds(p)' = Elems(held'[p])
      BY DEF Holds, Elems
    <2>2. \A q \in Proc : q # p => Holds(q)' = Holds(q) /\ Top(q)' = Top(q)
      BY <1>2 DEF Holds, Top
    <2> QED
      BY <1>3, <2>1, <2>2
  <1>5. /\ \A q \in Proc : q # p => b \notin Holds(q)
        /\ \A q \in Proc : Holds(q) \subseteq Buf
    BY <1>1, HeldIs DEF HeldOnce
  <1>6. \A q \in Proc : pc[q] \in IoPCs => Top(q) \in Buf /\ Top(q) # b /\ q # p
    BY <1>1, <1>5, WaitersHold DEF IoPCs
  <1>7. /\ \A q \in Proc : b \notin chan[q] => pc'[q] = pc[q] /\ chan'[q] = chan[q]
        /\ \A q \in Proc : b \in chan[q] =>
             chan'[q] = {} /\ pc[q] = "bsleep" /\ pc'[q] = "bget"
        /\ pc' \in [Proc -> {"run", "bget", "bsleep", "iderw", "isleep", "iwait"}]
        /\ chan' \in [Proc -> SUBSET Buf]
    BY <1>1, <1>6, WakeupIs DEF IoPCs
  <1>8. chan[p] = {} /\ pc'[p] = "run" /\ chan'[p] = {}
    BY <1>1, <1>7 DEF Channels
  <1>9. \A q \in Proc : /\ pc'[q] \in IoPCs <=> pc[q] \in IoPCs
                        /\ pc[q] \in IoPCs => pc'[q] = pc[q]
    BY <1>7 DEF IoPCs
  <1>10. TypeOK'
    <2>1. lru' \in Seq(Buf) /\ Len(lru') = Cardinality(Buf)
      <3>1. lru \in Seq(Buf) /\ Len(lru) = Cardinality(Buf) /\ Len(lru) \in Nat
        BY ListIsCache DEF TypeOK
      <3>2. b \in Elems(lru)
        BY ListIsCache DEF Elems
      <3> DEFINE u == Unlink(lru, b)
      <3>3. u \in Seq(Buf) /\ Len(u) = Len(lru) - 1
        BY <3>1, <3>2, ElemsUnlink
      <3>4. lru' = <<b>> \o u
        BY <1>1
      <3> HIDE DEF u
      <3>5. <<b>> \o u \in Seq(Buf) /\ Len(<<b>> \o u) = 1 + Len(u)
        BY <3>3
      <3> QED
        BY <3>1, <3>3, <3>4, <3>5
    <2>2. \A c \in Buf : \E i \in 1 .. Len(lru') : lru'[i] = c
      <3>1. lru \in Seq(Buf) /\ b \in Elems(lru) /\ Elems(lru) = Buf
        BY ListIsCache DEF Elems, TypeOK
      <3> DEFINE u == Unlink(lru, b)
      <3>2. u \in Seq(Buf) /\ Buf = Elems(u) \cup {b}
        BY <3>1, ElemsUnlink
      <3>3. lru' = <<b>> \o u
        BY <1>1
      <3> HIDE DEF u
      <3>4. /\ Len(lru') = 1 + Len(u) /\ Len(u) \in Nat /\ lru'[1] = b /\ DOMAIN u = 1 .. Len(u)
            /\ \A i \in 1 .. Len(u) : lru'[i + 1] = u[i]
        BY <3>2, <3>3
      <3>5. ASSUME NEW c \in Buf PROVE \E i \in 1 .. Len(lru') : lru'[i] = c
        <4>1. CASE c = b
          BY <3>4, <4>1
        <4>2. CASE c # b
          <5>1. PICK i \in 1 .. Len(u) : u[i] = c
            BY <3>2, <3>4, <4>2 DEF Elems
          <5>2. i + 1 \in 1 .. Len(lru') /\ lru'[i + 1] = c
            BY <3>4, <5>1
          <5> QED
            BY <5>2
        <4> QED
          BY <4>1, <4>2
      <3> QED
        BY <3>5
    <2>3. held' \in [Proc -> Seq(Buf)] /\ \A q \in Proc : Len(held'[q]) <= MAXHOLD
      BY <1>1, <1>2, <1>3, BufferAssumption DEF TypeOK, BufferAssumption
    <2> QED
      BY <1>1, <1>7, <2>1, <2>2, <2>3 DEF TypeOK, drive
  <1>11. HeldOnce'
    <2>1. \A q \in Proc : Distinct(held'[q])
      BY <1>2, <1>3 DEF HeldOnce
    <2>2. \A q, r \in Proc : \A c \in Buf : c \in Holds(q)' /\ c \in Holds(r)' => q = r
      BY <1>4 DEF HeldOnce
    <2>3. \A c \in Buf : busy'[c] <=> \E q \in Proc : c \in Holds(q)'
      BY <1>2, <1>4, <1>5 DEF HeldOnce
    <2>4. \A q \in Proc : \A c \in Holds(q)' : blockno'[c] \in Block
      BY <1>1, <1>4 DEF HeldOnce
    <2> QED
      BY <2>1, <2>2, <2>3, <2>4 DEF HeldOnce, Distinct
  <1>12. OneBuffer'
    BY <1>1 DEF OneBuffer
  <1>13. WantsNext'
    <2> SUFFICES ASSUME NEW q \in Proc, pc'[q] \in GetPCs
                 PROVE  want'[q] \in Block /\ Len(held'[q]) < MAXHOLD /\ Nest(q, want[q])'
      BY DEF WantsNext
    <2>1. q # p /\ pc[q] \in GetPCs
      BY <1>7, <1>8 DEF GetPCs
    <2> QED
      BY <1>1, <1>2, <1>4, <2>1 DEF WantsNext, Nest
  <1>14. OnlyTopInvalid'
    <2>1. \A c \in Holds(p) : valid[c]
      BY <1>1 DEF OnlyTopInvalid, IoPCs
    <2> QED
      BY <1>1, <1>2, <1>4, <1>6, <1>9, <2>1 DEF OnlyTopInvalid
  <1>15. Channels'
    <2> SUFFICES ASSUME NEW q \in Proc
                 PROVE  /\ pc'[q] = "bsleep" => \E c \in Buf :
                             chan'[q] = {c} /\ busy'[c] /\ blockno'[c] = want'[q]
                        /\ pc'[q] = "isleep" => chan'[q] = {Top(q)'}
                        /\ pc'[q] \notin {"bsleep", "isleep"} => chan'[q] = {}
      BY DEF Channels
    <2>1. CASE b \in chan[q]
      BY <1>7, <2>1
    <2>2. CASE b \notin chan[q]
      <3>1. pc'[q] = pc[q] /\ chan'[q] = chan[q] /\ want'[q] = want[q]
        BY <1>1, <1>7, <2>2
      <3>2. pc[q] = "isleep" => Top(q)' = Top(q)
        BY <1>4, <1>6 DEF IoPCs
      <3> QED
        BY <1>1, <1>2, <2>2, <3>1, <3>2 DEF Channels
    <2> QED
      BY <2>1, <2>2
  <1>16. QueueWaits'
    <2>1. Distinct(idequeue') /\ Elems(idequeue') = Elems(idequeue)
      BY <1>1 DEF QueueWaits, drive
    <2>2. ASSUME NEW c \in Elems(idequeue)
          PROVE  /\ ~(valid'[c] /\ ~dirty'[c])
                 /\ \E q \in Proc : pc'[q] \in WaitPCs /\ Top(q)' = c
      <3>1. PICK q \in Proc : pc[q] \in WaitPCs /\ Top(q) = c
        BY DEF QueueWaits
      <3>2. q # p /\ pc'[q] = pc[q]
        BY <1>6, <1>9, <3>1 DEF WaitPCs, IoPCs
      <3>3. ~(valid'[c] /\ ~dirty'[c])
        BY <1>1 DEF QueueWaits, Synced
      <3> QED
        BY <1>4, <3>1, <3>2, <3>3
    <2>3. ASSUME NEW q \in Proc, pc'[q] \in IoPCs
          PROVE  /\ pc'[q] = "iderw" => ~(valid'[Top(q)'] /\ ~dirty'[Top(q)'])
                 /\ pc'[q] = "isleep" => Top(q)' \in Elems(idequeue)
                 /\ pc'[q] = "iwait" =>
                      Top(q)' \in Elems(idequeue) \/ (valid'[Top(q)'] /\ ~dirty'[Top(q)'])
      <3>1. pc'[q] = pc[q] /\ Top(q)' = Top(q)
        BY <1>4, <1>6, <1>9, <2>3
      <3> QED
        BY <1>1, <3>1 DEF QueueWaits, Synced
    <2> QED
      BY <2>1, <2>2, <2>3 DEF QueueWaits, Synced, IoPCs
  <1>17. DriveServesHead' /\ CleanIsSaved' /\ DirtyIsValid' /\ PanicOnlyWhenFull'
    BY <1>1 DEF DriveServesHead, CleanIsSaved, DirtyIsValid, PanicOnlyWhenFull, Synced,
      idestart, drive
  <1> QED
    BY <1>10, <1>11, <1>12, <1>13, <1>14, <1>15, <1>16, <1>17

\* ideintr: the first buffer of the queue is valid and clean, as far as the driver looks.
LEMMA IdeintrPreserves ==
  ASSUME CacheInv, ~panicked, NEW ok \in BOOLEAN, ideintr(ok)
  PROVE  CacheInv'
  <1> USE DEF CacheInv
  <1> DEFINE b == Head(idequeue)
             k == blockno[b]
  <1>1. /\ idequeue # <<>> /\ idequeue \in Seq(Buf) /\ Distinct(idequeue)
        /\ idequeue' \in Seq(Buf) /\ b \in Buf /\ b \in Elems(idequeue)
        /\ Elems(idequeue) = Elems(idequeue') \cup {b}
        /\ b \notin Elems(idequeue') /\ Distinct(idequeue')
    <2>1. idequeue # <<>> /\ idequeue \in Seq(Buf) /\ Distinct(idequeue)
      BY DEF ideintr, TypeOK, QueueWaits
    <2>2. idequeue' = Tail(idequeue)
      BY DEF ideintr
    <2> QED
      BY <2>1, <2>2, ElemsTail
  <1>2. /\ device[1].block = k /\ device[1].data = data[b]
        /\ device[1].op = IF dirty[b] THEN "write" ELSE "read"
    BY <1>1 DEF DriveServesHead, idestart
  <1>3. /\ data' = [data EXCEPT ![b] = IF ~dirty[b] /\ ok THEN disk[k] ELSE @]
        /\ disk' = IF dirty[b] /\ ok THEN [disk EXCEPT ![k] = data[b]] ELSE disk
        /\ failed' = IF ok THEN failed ELSE failed \cup {k}
        /\ valid' = [valid EXCEPT ![b] = TRUE]
        /\ dirty' = [dirty EXCEPT ![b] = FALSE]
        /\ wakeup(b)
        /\ device' = IF idequeue' = <<>> THEN <<>> ELSE idestart(Head(idequeue'))
        /\ UNCHANGED <<lru, blockno, busy, want, held, panicked>>
    BY <1>2 DEF ideintr
  <1>4. k \in Block /\ busy[b]
    BY <1>1, WaitersHold
  <1>5. k = blockno[b]
    OBVIOUS
  <1> HIDE DEF b, k
  <1>6. \A q \in Proc : Holds(q)' = Holds(q) /\ Top(q)' = Top(q) /\ Holds(q) \subseteq Buf
    BY <1>3, HeldIs DEF Holds, Top
  <1>7. /\ valid'[b] /\ ~dirty'[b]
        /\ \A c \in Buf : c # b =>
             valid'[c] = valid[c] /\ dirty'[c] = dirty[c] /\ data'[c] = data[c]
        /\ data'[b] = IF ~dirty[b] /\ ok THEN disk[k] ELSE data[b]
    BY <1>1, <1>3 DEF TypeOK
  <1>8. /\ \A q \in Proc : b \notin chan[q] => pc'[q] = pc[q] /\ chan'[q] = chan[q]
        /\ \A q \in Proc : b \in chan[q] =>
             /\ chan'[q] = {}
             /\ \/ pc[q] = "bsleep" /\ pc'[q] = "bget"
                \/ pc[q] = "isleep" /\ Top(q) = b /\ pc'[q] = "iwait"
        /\ pc' \in [Proc -> {"run", "bget", "bsleep", "iderw", "isleep", "iwait"}]
        /\ chan' \in [Proc -> SUBSET Buf]
    BY <1>1, <1>3, WakeupIs
  <1>9. \A q \in Proc : /\ pc'[q] \in IoPCs <=> pc[q] \in IoPCs
                        /\ pc'[q] \in WaitPCs <=> pc[q] \in WaitPCs
                        /\ pc'[q] \in GetPCs <=> pc[q] \in GetPCs
                        /\ pc'[q] = "iderw" <=> pc[q] = "iderw"
    BY <1>8 DEF IoPCs, WaitPCs, GetPCs
  <1>10. \A q \in Proc : pc[q] \in IoPCs => Top(q) \in Buf
    BY WaitersHold
  <1>11. TypeOK'
    <2>1. /\ data' \in [Buf -> Value] /\ disk' \in [Block -> Value] /\ failed' \subseteq Block
          /\ valid' \in [Buf -> BOOLEAN] /\ dirty' \in [Buf -> BOOLEAN]
      BY <1>1, <1>3, <1>4 DEF TypeOK
    <2>2. device' \in Seq(Commands) /\ Len(device') <= 1
      <3>1. CASE idequeue' = <<>>
        BY <1>3, <3>1
      <3>2. CASE idequeue' # <<>>
        <4> DEFINE h == Head(idequeue')
        <4>1. h \in Buf
          BY <1>1, <3>2, ElemsTail
        <4>2. device' = idestart(h)
          BY <1>3, <3>2
        <4> HIDE DEF h
        <4>3. idestart(h) \in Seq(Commands) /\ Len(idestart(h)) = 1
          BY <4>1 DEF idestart, Commands, TypeOK
        <4> QED
          BY <4>2, <4>3
      <3> QED
        BY <3>1, <3>2
    <2> QED
      BY <1>1, <1>3, <1>8, <2>1, <2>2 DEF TypeOK
  <1>12. HeldOnce' /\ OneBuffer'
    BY <1>3, <1>6 DEF HeldOnce, OneBuffer, Distinct
  <1>13. WantsNext'
    BY <1>3, <1>6, <1>9 DEF WantsNext, Nest
  <1>14. OnlyTopInvalid'
    BY <1>3, <1>6, <1>7, <1>9 DEF OnlyTopInvalid
  <1>15. Channels'
    <2> SUFFICES ASSUME NEW q \in Proc
                 PROVE  /\ pc'[q] = "bsleep" => \E c \in Buf :
                             chan'[q] = {c} /\ busy'[c] /\ blockno'[c] = want'[q]
                        /\ pc'[q] = "isleep" => chan'[q] = {Top(q)'}
                        /\ pc'[q] \notin {"bsleep", "isleep"} => chan'[q] = {}
      BY DEF Channels
    <2>1. CASE b \in chan[q]
      BY <1>8, <2>1
    <2>2. CASE b \notin chan[q]
      <3>1. pc'[q] = pc[q] /\ chan'[q] = chan[q]
        BY <1>8, <2>2
      <3> QED
        BY <1>3, <1>6, <3>1 DEF Channels
    <2> QED
      BY <2>1, <2>2
  <1>16. QueueWaits'
    <2>1. ASSUME NEW c \in Elems(idequeue')
          PROVE  /\ ~(valid'[c] /\ ~dirty'[c])
                 /\ \E q \in Proc : pc'[q] \in WaitPCs /\ Top(q)' = c
      <3>1. c \in Elems(idequeue) /\ c # b /\ c \in Buf
        BY <1>1, WaitersHold
      <3>2. PICK q \in Proc : pc[q] \in WaitPCs /\ Top(q) = c
        BY <3>1 DEF QueueWaits
      <3>3. ~(valid'[c] /\ ~dirty'[c])
        BY <1>7, <3>1 DEF QueueWaits, Synced
      <3> QED
        BY <1>6, <1>9, <3>2, <3>3
    <2>2. ASSUME NEW q \in Proc, pc[q] = "iderw"
          PROVE  ~(valid'[Top(q)] /\ ~dirty'[Top(q)])
      <3>1. Top(q) # b
        <4> SUFFICES ASSUME Top(q) = b PROVE FALSE
          OBVIOUS
        <4>1. PICK r \in Proc : pc[r] \in WaitPCs /\ Top(r) = b
          BY <1>1 DEF QueueWaits
        <4>2. b \in Holds(r) /\ b \in Holds(q)
          BY <2>2, <4>1, WaitersHold DEF WaitPCs, IoPCs
        <4>3. r = q
          BY <1>1, <4>2 DEF HeldOnce
        <4> QED
          BY <2>2, <4>1, <4>3 DEF WaitPCs
      <3> QED
        BY <1>7, <1>10, <2>2, <3>1 DEF QueueWaits, Synced, IoPCs
    <2>3. ASSUME NEW q \in Proc, pc'[q] = "isleep"
          PROVE  Top(q) \in Elems(idequeue')
      <3>1. b \notin chan[q] /\ pc[q] = "isleep"
        BY <1>8, <2>3
      <3>2. Top(q) # b /\ Top(q) \in Elems(idequeue)
        BY <3>1 DEF Channels, QueueWaits
      <3> QED
        BY <1>1, <3>2
    <2>4. ASSUME NEW q \in Proc, pc'[q] = "iwait"
          PROVE  Top(q) \in Elems(idequeue') \/ (valid'[Top(q)] /\ ~dirty'[Top(q)])
      <3>1. CASE Top(q) = b
        BY <1>7, <3>1
      <3>2. CASE Top(q) # b
        <4>1. pc[q] = "iwait"
          BY <1>8, <2>4, <3>2
        <4>2. Top(q) \in Elems(idequeue) \/ Synced(Top(q))
          BY <4>1 DEF QueueWaits
        <4>3. Top(q) \in Buf
          BY <1>10, <4>1 DEF IoPCs
        <4> QED
          BY <1>1, <1>7, <3>2, <4>2, <4>3 DEF Synced
      <3> QED
        BY <3>1, <3>2
    <2> QED
      BY <1>1, <1>6, <1>9, <2>1, <2>2, <2>3, <2>4 DEF QueueWaits, Synced
  <1>17. DriveServesHead'
    <2>1. CASE idequeue' = <<>>
      BY <1>3, <2>1 DEF DriveServesHead
    <2>2. CASE idequeue' # <<>>
      <3> DEFINE h == Head(idequeue')
      <3>1. h \in Buf /\ h \in Elems(idequeue')
        BY <1>1, <2>2, ElemsTail
      <3>2. device' = idestart(h) /\ h # b
        BY <1>1, <1>3, <2>2, <3>1
      <3> HIDE DEF h
      <3>3. valid'[h] = valid[h] /\ dirty'[h] = dirty[h] /\ data'[h] = data[h]
              /\ blockno'[h] = blockno[h]
        BY <1>3, <1>7, <3>1, <3>2
      <3>4. device' = <<[op |-> IF dirty'[h] THEN "write" ELSE "read", block |-> blockno'[h],
                         data |-> data'[h]]>>
        BY <3>2, <3>3 DEF idestart
      <3>5. device' # <<>>
        BY <3>4
      <3> QED
        BY <2>2, <3>4, <3>5 DEF DriveServesHead, idestart, h
    <2> QED
      BY <2>1, <2>2
  <1>18. CleanIsSaved'
    <2> SUFFICES ASSUME NEW c \in Buf, valid'[c] /\ ~dirty'[c], blockno[c] \in Block \ failed'
                 PROVE  data'[c] = disk'[blockno[c]]
      BY <1>3 DEF CleanIsSaved, Synced
    <2>1. CASE c = b
      <3>1. ok
        BY <1>3, <1>5, <2>1
      <3>2. CASE dirty[b]
        BY <1>3, <1>4, <1>5, <1>7, <2>1, <3>1, <3>2 DEF TypeOK
      <3>3. CASE ~dirty[b]
        BY <1>3, <1>5, <1>7, <2>1, <3>1, <3>3
      <3> QED
        BY <3>2, <3>3
    <2>2. CASE c # b
      <3>1. blockno[c] # k
        BY <1>1, <1>4, <1>5, <2>2, BufferAssumption DEF OneBuffer, BufferAssumption
      <3>2. disk'[blockno[c]] = disk[blockno[c]]
        BY <1>3, <1>4, <3>1 DEF TypeOK
      <3>3. data[c] = disk[blockno[c]]
        BY <1>3, <1>7, <2>2 DEF CleanIsSaved, Synced
      <3> QED
        BY <1>7, <2>2, <3>2, <3>3
    <2> QED
      BY <2>1, <2>2
  <1>19. DirtyIsValid' /\ PanicOnlyWhenFull'
    BY <1>3, <1>7 DEF DirtyIsValid, PanicOnlyWhenFull
  <1> QED
    BY <1>11, <1>12, <1>13, <1>14, <1>15, <1>16, <1>17, <1>18, <1>19

\* Every step of bio.c and ide.c preserves the invariant.
LEMMA NextPreserves == CacheInv /\ [Next]_vars => CacheInv'
  <1> SUFFICES ASSUME CacheInv, [Next]_vars PROVE CacheInv'
    OBVIOUS
  <1>1. CASE UNCHANGED vars
    <2>1. UNCHANGED <<buffers, drive, pc, want, held, chan, panicked>>
      BY <1>1 DEF vars
    <2>2. /\ \A q \in Proc : Holds(q)' = Holds(q) /\ Top(q)' = Top(q)
          /\ \A b : Synced(b)' <=> Synced(b)
          /\ Elems(idequeue)' = Elems(idequeue) /\ (Distinct(idequeue)' <=> Distinct(idequeue))
          /\ Pinned' = Pinned
      BY <2>1 DEF Holds, Top, Synced, Pinned, buffers, drive
    <2>3. TypeOK'
      BY <2>1 DEF CacheInv, TypeOK, buffers, drive
    <2>4. HeldOnce' /\ OneBuffer' /\ WantsNext' /\ OnlyTopInvalid' /\ Channels'
      BY <2>1, <2>2 DEF CacheInv, HeldOnce, OneBuffer, WantsNext, Nest, Distinct, OnlyTopInvalid,
        Channels, buffers
    <2>5. QueueWaits'
      BY <2>1, <2>2 DEF CacheInv, QueueWaits
    <2>6. DriveServesHead' /\ CleanIsSaved' /\ DirtyIsValid' /\ PanicOnlyWhenFull'
      BY <2>1, <2>2 DEF CacheInv, DriveServesHead, CleanIsSaved, DirtyIsValid,
        PanicOnlyWhenFull, idestart, buffers, drive
    <2> QED
      BY <2>3, <2>4, <2>5, <2>6 DEF CacheInv
  <1>2. ASSUME ~panicked, NEW p \in Proc, Inside(p) \/ kill(p) PROVE CacheInv'
    BY <1>2, BgetCachedPreserves, BgetBusyPreserves, BgetRecyclePreserves, BgetPanicPreserves,
      IderwPreserves, IderwWaitPreserves, KillPreserves DEF Inside
  <1>3. ASSUME ~panicked, NEW p \in Proc, NEW k \in Block, bread(p, k) PROVE CacheInv'
    BY <1>3, BreadPreserves
  <1>4. ASSUME ~panicked, NEW p \in Proc, NEW b \in Buf, NEW v \in Value,
               bwrite(p, b, v) \/ log_write(p, b, v)
        PROVE  CacheInv'
    BY <1>4, BwritePreserves, LogWritePreserves
  <1>5. ASSUME ~panicked, NEW p \in Proc, NEW b \in Buf, brelse(p, b) PROVE CacheInv'
    BY <1>5, BrelsePreserves
  <1>6. ASSUME ~panicked, NEW ok \in BOOLEAN, ideintr(ok) PROVE CacheInv'
    BY <1>6, IdeintrPreserves
  <1> QED
    BY <1>1, <1>2, <1>3, <1>4, <1>5, <1>6 DEF Next, Running

-----------------------------------------------------------------------------
(***************************************************************************)
(* The theorems.                                                           *)
(***************************************************************************)

\* The inductive invariant holds in every reachable state of bio.c and ide.c.
THEOREM CacheCorrect == Spec => []CacheInv
  <1>1. Init => CacheInv
    BY InitCache
  <1>2. CacheInv /\ [Next]_vars => CacheInv'
    BY NextPreserves
  <1> QED
    BY <1>1, <1>2, PTL DEF Spec

\* A buffer's holders can be counted: there is one, or none.
LEMMA OneHolder ==
  ASSUME CacheInv, NEW b \in Buf
  PROVE  Cardinality({p \in Proc : b \in Holds(p)}) = IF busy[b] THEN 1 ELSE 0
  <1> DEFINE H == {p \in Proc : b \in Holds(p)}
  <1>1. CASE busy[b]
    <2>1. PICK p \in Proc : b \in Holds(p)
      BY <1>1 DEF CacheInv, HeldOnce
    <2>2. H = {p}
      BY <2>1 DEF CacheInv, HeldOnce
    <2>3. Cardinality({p}) = 1
      BY FS_Singleton
    <2> QED
      BY <1>1, <2>2, <2>3
  <1>2. CASE ~busy[b]
    <2>1. H = {}
      BY <1>2 DEF CacheInv, HeldOnce
    <2> QED
      BY <1>2, <2>1, FS_EmptySet
  <1> QED
    BY <1>1, <1>2

\* bget never gives a block two buffers or a buffer two holders, bread returns when the
\* data are there, and the drive works on the first buffer of the queue.
THEOREM CacheIsSound == Spec => []CacheSound
  <1>1. CacheInv => CacheSound
    <2> SUFFICES ASSUME CacheInv PROVE CacheSound
      OBVIOUS
    <2>1. OneBufferPerBlock
      BY OneHolder DEF CacheInv, OneBuffer, OneBufferPerBlock
    <2>2. HeldIsValid
      BY DEF CacheInv, OnlyTopInvalid, HeldIsValid, IoPCs
    <2> QED
      BY <2>1, <2>2 DEF CacheInv, CacheSound
  <1> QED
    BY <1>1, CacheCorrect, PTL

\* Who sleeps in bget and waits for a process that sleeps there too waits for a block of a
\* higher level than that process does: it holds what the first one wants.
LEMMA WaitsDescend ==
  ASSUME CacheInv, NEW p \in Proc, NEW q \in Proc, WaitsFor(p, q), pc[q] = "bsleep"
  PROVE  Level(want[q]) < Level(want[p])
  <1>1. PICK b \in Buf : chan[p] = {b} /\ blockno[b] = want[p]
    BY DEF CacheInv, Channels, WaitsFor
  <1>2. b \in Holds(q)
    BY <1>1 DEF WaitsFor
  <1>3. Nest(q, want[q])
    BY DEF CacheInv, WantsNext, GetPCs
  <1> QED
    BY <1>1, <1>2, <1>3 DEF Nest

\* Whoever sleeps in bget waits for a buffer that somebody holds and releases, whoever
\* sleeps in iderw for one that is in the queue; and no group of processes waits for each
\* other, whatever write_log, install_trans, bmap and itrunc hold when they ask for more.
THEOREM SleepersAreWoken == Spec => []SleepersHaveWaker
  <1>1. CacheInv => SleepersHaveWaker
    <2> SUFFICES ASSUME CacheInv PROVE SleepersHaveWaker
      OBVIOUS
    <2>1. ASSUME NEW p \in Proc, pc[p] = "bsleep" PROVE \E q \in Proc : WaitsFor(p, q)
      <3>1. PICK b \in Buf : chan[p] = {b} /\ busy[b] /\ blockno[b] = want[p]
        BY <2>1 DEF CacheInv, Channels
      <3>2. PICK q \in Proc : b \in Holds(q)
        BY <3>1 DEF CacheInv, HeldOnce
      <3> QED
        BY <2>1, <3>1, <3>2 DEF WaitsFor
    <2>2. ASSUME NEW p \in Proc, pc[p] = "isleep"
          PROVE  \E i \in DOMAIN idequeue : chan[p] = {idequeue[i]}
      BY <2>2 DEF CacheInv, Channels, QueueWaits, Elems
    <2>3. ASSUME NEW S \in (SUBSET Proc) \ {{}} PROVE \E p \in S : \A q \in S : ~WaitsFor(p, q)
      <3> SUFFICES ASSUME \A p \in S : \E q \in S : WaitsFor(p, q) PROVE FALSE
        OBVIOUS
      <3>1. \A p \in S : pc[p] = "bsleep"
        BY DEF WaitsFor
      <3>2. \A p \in S : \E q \in S : Level(want[q]) < Level(want[p])
        BY <3>1, WaitsDescend
      <3> DEFINE L == {Level(want[p]) : p \in S}
      <3>3. L \subseteq Nat /\ L # {}
        <4>1. \A k : Level(k) \in Nat
          BY DEF Level
        <4>2. L \subseteq Nat
          BY <4>1
        <4> QED
          BY <4>2
      <3>4. PICK n \in L : \A m \in L : n <= m
        BY <3>3, LeastOf
      <3>5. PICK p \in S : n = Level(want[p])
        BY <3>4
      <3>6. PICK q \in S : Level(want[q]) < Level(want[p])
        BY <3>2
      <3>7. n <= Level(want[q]) /\ n \in Nat /\ Level(want[q]) \in Nat
        BY <3>3, <3>4
      <3> HIDE DEF L
      <3> QED
        BY <3>5, <3>6, <3>7
    <2> QED
      BY <2>1, <2>2, <2>3 DEF SleepersHaveWaker
  <1> QED
    BY <1>1, CacheCorrect, PTL

\* bget's panic "no buffers" comes only when every buffer is held or pinned, and iderw's
\* panic "nothing to do" never.
THEOREM PanicsOnlyWhenFull == Spec => []PanicOnlyWhenFull
  <1>1. CacheInv => PanicOnlyWhenFull
    BY DEF CacheInv
  <1> QED
    BY <1>1, CacheCorrect, PTL

-----------------------------------------------------------------------------
(***************************************************************************)
(* Cache, queue and drive implement a store of blocks.                     *)
(***************************************************************************)

\* What Content and Holder say of one block.
ContentIs ==
  /\ Content \in [Block -> Value]
  /\ \A b \in Buf : blockno[b] \in Block /\ valid[b] => Content[blockno[b]] = data[b]
  /\ \A k \in Block : (\A b \in Buf : ~(blockno[b] = k /\ valid[b])) => Content[k] = disk[k]

HolderIs ==
  /\ Holder \in [Block -> SUBSET Proc]
  /\ \A p \in Proc : \A b \in Holds(p) : Holder[blockno[b]] = {p}
  /\ \A k \in Block : (\A p \in Proc : \A b \in Holds(p) : blockno[b] # k) => Holder[k] = {}

\* A valid buffer decides what its block contains, the disk what the others do.
LEMMA ContentCorrect == CacheInv => ContentIs
  <1> SUFFICES ASSUME CacheInv PROVE ContentIs
    OBVIOUS
  <1> DEFINE has(k, b) == blockno[b] = k /\ valid[b]
  <1>1. ASSUME NEW b \in Buf, blockno[b] \in Block, valid[b]
        PROVE  Content[blockno[b]] = data[b]
    <2> DEFINE k == blockno[b]
               c == CHOOSE x \in Buf : has(k, x)
    <2>1. c \in Buf /\ blockno[c] = k
      BY <1>1
    <2>2. c = b
      BY <1>1, <2>1, BufferAssumption DEF CacheInv, OneBuffer, BufferAssumption
    <2>3. Content[k] = data[c]
      BY <1>1 DEF Content
    <2> QED
      BY <2>2, <2>3
  <1>2. ASSUME NEW k \in Block, \A b \in Buf : ~has(k, b)
        PROVE  Content[k] = disk[k]
    BY <1>2 DEF Content
  <1>3. Content = [k \in Block |-> Content[k]]
    BY DEF Content
  <1>4. ASSUME NEW k \in Block PROVE Content[k] \in Value
    <2>1. CASE \E b \in Buf : has(k, b)
      BY <1>1, <2>1 DEF CacheInv, TypeOK
    <2>2. CASE ~\E b \in Buf : has(k, b)
      BY <1>2, <2>2 DEF CacheInv, TypeOK
    <2> QED
      BY <2>1, <2>2
  <1>5. Content \in [Block -> Value]
    BY <1>3, <1>4
  <1> QED
    BY <1>1, <1>2, <1>5 DEF ContentIs

\* The holder of a buffer is the holder of its block.
LEMMA HolderCorrect == CacheInv => HolderIs
  <1> SUFFICES ASSUME CacheInv PROVE HolderIs
    OBVIOUS
  <1>1. Holder \in [Block -> SUBSET Proc]
    BY DEF Holder
  <1>2. ASSUME NEW p \in Proc, NEW b \in Holds(p) PROVE Holder[blockno[b]] = {p}
    <2>1. b \in Buf /\ blockno[b] \in Block
      BY HeldIs DEF CacheInv, HeldOnce
    <2>2. ASSUME NEW q \in Proc, NEW c \in Holds(q), blockno[c] = blockno[b] PROVE q = p
      <3>1. c \in Buf
        BY HeldIs DEF CacheInv
      <3>2. c = b
        BY <2>1, <2>2, <3>1, BufferAssumption DEF CacheInv, OneBuffer, BufferAssumption
      <3> QED
        BY <2>1, <3>2 DEF CacheInv, HeldOnce
    <2> QED
      BY <2>1, <2>2 DEF Holder
  <1>3. ASSUME NEW k \in Block, \A p \in Proc : \A b \in Holds(p) : blockno[b] # k
        PROVE  Holder[k] = {}
    BY <1>3 DEF Holder
  <1> QED
    BY <1>1, <1>2, <1>3 DEF HolderIs

\* A step that changes no buffer, no holder and no disk block is none of the store.
LEMMA QuietIsStutter ==
  ASSUME UNCHANGED <<blockno, valid, data, disk, failed, held>>
  PROVE  UNCHANGED B!vars
  <1>1. Content' = Content
    BY DEF Content
  <1>2. Holder' = Holder
    BY DEF Holder, Holds
  <1> QED
    BY <1>1, <1>2 DEF B!vars

\* bget gives a process the block that it asks for.
LEMMA GrantIsAcquire ==
  ASSUME CacheInv, CacheInv', NEW p \in Proc, NEW b \in Buf, NEW k \in Block,
         NEW vb \in BOOLEAN,
         ~busy[b], \A c \in Buf \ {b} : blockno[c] # k,
         vb => blockno[b] = k /\ vb = valid[b],
         ~vb /\ valid[b] => ~dirty[b],
         blockno' = [blockno EXCEPT ![b] = k],
         valid' = [valid EXCEPT ![b] = vb],
         held' = [held EXCEPT ![p] = Append(@, b)],
         UNCHANGED <<data, disk, failed>>
  PROVE  B!Acquire(p, k)
  <1>1. ContentIs /\ HolderIs /\ ContentIs' /\ HolderIs'
    BY ContentCorrect, HolderCorrect, PTL
  <1>2. /\ blockno'[b] = k /\ (valid'[b] <=> vb)
        /\ \A c \in Buf : c # b => blockno'[c] = blockno[c] /\ valid'[c] = valid[c]
    BY DEF CacheInv, TypeOK
  <1>3. /\ Holds(p)' = Holds(p) \cup {b}
        /\ \A q \in Proc : q # p => Holds(q)' = Holds(q)
    <2>1. /\ held'[p] = Append(held[p], b)
          /\ \A q \in Proc : q # p => held'[q] = held[q]
      BY DEF CacheInv, TypeOK
    <2>2. held[p] \in Seq(Buf) /\ Holds(p) = Elems(held[p])
      BY HeldIs DEF CacheInv
    <2>3. Elems(held'[p]) = Elems(held[p]) \cup {b}
      BY <2>1, <2>2, ElemsAppend
    <2>4. Holds(p)' = Elems(held'[p])
      BY DEF Holds, Elems
    <2>5. \A q \in Proc : q # p => Holds(q)' = Holds(q)
      BY <2>1 DEF Holds
    <2> QED
      BY <2>2, <2>3, <2>4, <2>5
  <1>4. \A q \in Proc : b \notin Holds(q) /\ Holds(q) \subseteq Buf
    BY HeldIs DEF CacheInv, HeldOnce
  <1>5. Holder[k] = {}
    BY <1>1, <1>4 DEF HolderIs
  <1>6. Holder' = [Holder EXCEPT ![k] = {p}]
    <2>1. Holder'[k] = {p}
      BY <1>1, <1>2, <1>3 DEF HolderIs
    <2>2. ASSUME NEW j \in Block, j # k PROVE Holder'[j] = Holder[j]
      <3>1. CASE \E q \in Proc : \E c \in Holds(q) : blockno[c] = j
        <4>1. PICK q \in Proc : \E c \in Holds(q) : blockno[c] = j
          BY <3>1
        <4>2. PICK c \in Holds(q) : blockno[c] = j
          BY <4>1
        <4>3. c # b /\ c \in Buf /\ c \in Holds(q)'
          BY <1>3, <1>4
        <4>4. blockno'[c] = j
          BY <1>2, <4>2, <4>3
        <4>5. Holder'[j] = {q}
          BY <1>1, <4>3, <4>4 DEF HolderIs
        <4>6. Holder[j] = {q}
          BY <1>1, <4>2 DEF HolderIs
        <4> QED
          BY <4>5, <4>6
      <3>2. CASE \A q \in Proc : \A c \in Holds(q) : blockno[c] # j
        <4>1. \A q \in Proc : \A c \in Holds(q)' : blockno'[c] # j
          BY <1>2, <1>3, <1>4, <2>2, <3>2
        <4>2. Holder'[j] = {}
          BY <1>1, <4>1 DEF HolderIs
        <4> QED
          BY <1>1, <3>2, <4>2 DEF HolderIs
      <3> QED
        BY <3>1, <3>2
    <2> QED
      BY <1>1, <2>1, <2>2 DEF HolderIs
  <1>7. ASSUME NEW j \in Block \ failed PROVE Content'[j] = Content[j]
    <2>1. ASSUME NEW c \in Buf, c # b, blockno[c] = j, valid[c] PROVE Content'[j] = Content[j]
      <3>1. blockno'[c] = j /\ valid'[c] /\ data'[c] = data[c]
        BY <1>2, <2>1
      <3> QED
        BY <1>1, <2>1, <3>1 DEF ContentIs
    <2>2. CASE blockno[b] = j /\ valid[b] /\ vb
      BY <1>1, <1>2, <2>2 DEF ContentIs
    <2>3. CASE blockno[b] = j /\ valid[b] /\ ~vb
      <3>1. data[b] = disk[j]
        BY <2>3 DEF CacheInv, CleanIsSaved, Synced
      <3>2. \A c \in Buf : c # b => blockno[c] # j
        BY <2>3, BufferAssumption DEF CacheInv, OneBuffer, BufferAssumption
      <3>3. \A c \in Buf : ~(blockno'[c] = j /\ valid'[c])
        BY <1>2, <2>3, <3>2
      <3>4. Content'[j] = disk'[j]
        BY <1>1, <3>3 DEF ContentIs
      <3> QED
        BY <1>1, <2>3, <3>1, <3>4 DEF ContentIs
    <2>4. CASE \A c \in Buf : ~(blockno[c] = j /\ valid[c])
      <3>1. \A c \in Buf : ~(blockno'[c] = j /\ valid'[c])
        BY <1>2, <2>4
      <3>2. Content'[j] = disk'[j]
        BY <1>1, <3>1 DEF ContentIs
      <3> QED
        BY <1>1, <2>4, <3>2 DEF ContentIs
    <2>5. CASE \E c \in Buf : blockno[c] = j /\ valid[c]
      <3>1. PICK c \in Buf : blockno[c] = j /\ valid[c]
        BY <2>5
      <3>2. CASE c = b
        BY <2>2, <2>3, <3>1, <3>2
      <3>3. CASE c # b
        BY <2>1, <3>1, <3>3
      <3> QED
        BY <3>2, <3>3
    <2> QED
      BY <2>4, <2>5
  <1>8. Content' \in [Block -> Value]
    BY <1>1 DEF ContentIs
  <1> QED
    BY <1>5, <1>6, <1>7, <1>8 DEF B!Acquire

\* Both ways through bget acquire the block.
LEMMA BgetIsAcquire ==
  ASSUME CacheInv, CacheInv', NEW p \in Proc, bget_cached(p) \/ bget_recycle(p)
  PROVE  B!Next
  <1>1. pc[p] = "bget" /\ want[p] \in Block
    BY DEF bget_cached, bget_recycle, CacheInv, WantsNext, GetPCs
  <1>2. CASE bget_cached(p)
    <2> DEFINE b == Cached(want[p])
               k == want[p]
    <2>1. /\ CachedAt(k) # {} /\ ~busy[b]
          /\ held' = [held EXCEPT ![p] = Append(@, b)]
          /\ UNCHANGED <<blockno, valid, data, disk, failed>>
      BY <1>2 DEF bget_cached, drive
    <2>2. b \in Buf /\ blockno[b] = k /\ k \in Block
      BY <1>1, <2>1, CachedIs DEF CacheInv
    <2> HIDE DEF b, k
    <2>3. \A c \in Buf \ {b} : blockno[c] # k
      BY <2>2, BufferAssumption DEF CacheInv, OneBuffer, BufferAssumption
    <2>4. /\ valid[b] \in BOOLEAN
          /\ blockno' = [blockno EXCEPT ![b] = k]
          /\ valid' = [valid EXCEPT ![b] = valid[b]]
      BY <2>1, <2>2 DEF CacheInv, TypeOK
    <2>5. B!Acquire(p, k)
      BY <2>1, <2>2, <2>3, <2>4, GrantIsAcquire
    <2> QED
      BY <2>2, <2>5 DEF B!Next
  <1>3. CASE bget_recycle(p)
    <2> DEFINE b == lru[Max(RecyclableAt)]
               k == want[p]
    <2>1. /\ CachedAt(k) = {} /\ RecyclableAt # {}
          /\ blockno' = [blockno EXCEPT ![b] = k]
          /\ valid' = [valid EXCEPT ![b] = FALSE]
          /\ held' = [held EXCEPT ![p] = Append(@, b)]
          /\ UNCHANGED <<data, disk, failed>>
      BY <1>3 DEF bget_recycle, drive
    <2>2. b \in Buf /\ ~busy[b] /\ ~dirty[b] /\ k \in Block
      BY <1>1, <2>1, RecycledIs DEF CacheInv, Recyclable
    <2>3. \A c \in Buf : blockno[c] # k
      BY <2>1, CachedIs DEF CacheInv
    <2> HIDE DEF b, k
    <2>4. B!Acquire(p, k)
      BY <2>1, <2>2, <2>3, GrantIsAcquire
    <2> QED
      BY <2>2, <2>4 DEF B!Next
  <1> QED
    BY <1>2, <1>3

\* bwrite and log_write change the block for everybody, at once.
LEMMA ChangeIsUpdate ==
  ASSUME CacheInv, CacheInv', NEW p \in Proc, NEW b \in Buf, NEW v \in Value,
         bwrite(p, b, v) \/ log_write(p, b, v)
  PROVE  B!Next
  <1> DEFINE k == blockno[b]
  <1>1. /\ pc[p] = "run" /\ b \in Holds(p) /\ data' = [data EXCEPT ![b] = v]
        /\ UNCHANGED <<blockno, valid, disk, failed>>
        /\ \A q \in Proc : Holds(q)' = Holds(q)
    <2>1. Change(p, b, v)
      BY DEF bwrite, log_write
    <2> QED
      BY <2>1, RaiseIs DEF Change, drive, CacheInv
  <1>2. k \in Block /\ valid[b]
    BY <1>1 DEF CacheInv, HeldOnce, OnlyTopInvalid, IoPCs
  <1>3. ContentIs /\ HolderIs /\ ContentIs'
    BY ContentCorrect, HolderCorrect, PTL
  <1>4. Holder[k] = {p} /\ Holder' = Holder
    <2>1. Holder' = Holder
      BY <1>1 DEF Holder
    <2> QED
      BY <1>1, <1>3, <2>1 DEF HolderIs
  <1>5. k = blockno[b]
    OBVIOUS
  <1> HIDE DEF k
  <1>6. data'[b] = v /\ \A c \in Buf : c # b => data'[c] = data[c]
    BY <1>1, <1>2 DEF CacheInv, TypeOK
  <1>7. Content'[k] = v
    BY <1>1, <1>2, <1>3, <1>5, <1>6 DEF ContentIs
  <1>8. ASSUME NEW j \in Block, j # k PROVE Content'[j] = Content[j]
    <2>1. ASSUME NEW c \in Buf, blockno[c] = j, valid[c] PROVE Content'[j] = Content[j]
      <3>1. c # b /\ blockno'[c] = j /\ valid'[c] /\ data'[c] = data[c]
        BY <1>1, <1>5, <1>6, <1>8, <2>1
      <3> QED
        BY <1>3, <2>1, <3>1 DEF ContentIs
    <2>2. CASE \A c \in Buf : ~(blockno[c] = j /\ valid[c])
      <3>1. Content'[j] = disk'[j]
        BY <1>1, <1>3, <2>2 DEF ContentIs
      <3> QED
        BY <1>1, <1>3, <2>2, <3>1 DEF ContentIs
    <2> QED
      BY <2>1, <2>2
  <1>9. Content' = [Content EXCEPT ![k] = v]
    BY <1>2, <1>3, <1>7, <1>8 DEF ContentIs
  <1>10. B!Update(p, k, v)
    BY <1>1, <1>4, <1>9 DEF B!Update
  <1> QED
    BY <1>2, <1>10 DEF B!Next

\* brelse gives the block up.
LEMMA BrelseIsRelease ==
  ASSUME CacheInv, CacheInv', NEW p \in Proc, NEW b \in Buf, brelse(p, b)
  PROVE  B!Next
  <1> DEFINE k == blockno[b]
  <1>1. /\ b \in Holds(p) /\ held' = [held EXCEPT ![p] = Unlink(@, b)]
        /\ UNCHANGED <<blockno, valid, data, disk, failed>>
    BY DEF brelse, drive
  <1>2. k \in Block
    BY <1>1 DEF CacheInv, HeldOnce
  <1>3. HolderIs /\ HolderIs'
    BY HolderCorrect, PTL
  <1>4. Content' = Content
    BY <1>1 DEF Content
  <1>5. Holder[k] = {p}
    BY <1>1, <1>3 DEF HolderIs
  <1>6. /\ Holds(p)' = Holds(p) \ {b}
        /\ \A q \in Proc : q # p => Holds(q)' = Holds(q)
    <2>1. /\ held'[p] = Unlink(held[p], b)
          /\ \A q \in Proc : q # p => held'[q] = held[q]
      BY <1>1 DEF CacheInv, TypeOK
    <2>2. held[p] \in Seq(Buf) /\ Holds(p) = Elems(held[p]) /\ Distinct(held[p])
      BY HeldIs DEF CacheInv, HeldOnce
    <2>3. Elems(held[p]) = Elems(held'[p]) \cup {b} /\ b \notin Elems(held'[p])
      BY <1>1, <2>1, <2>2, ElemsUnlink
    <2>4. Holds(p)' = Elems(held'[p])
      BY DEF Holds, Elems
    <2>5. \A q \in Proc : q # p => Holds(q)' = Holds(q)
      BY <2>1 DEF Holds
    <2> QED
      BY <2>2, <2>3, <2>4, <2>5
  <1>7. \A q \in Proc : Holds(q) \subseteq Buf
    BY HeldIs DEF CacheInv
  <1>8. \A c \in Buf : blockno[c] = k => c = b
    BY <1>2, BufferAssumption DEF CacheInv, OneBuffer, BufferAssumption
  <1>9. \A q \in Proc : b \notin Holds(q)'
    BY <1>1, <1>6 DEF CacheInv, HeldOnce
  <1> HIDE DEF k
  <1>10. Holder'[k] = {}
    BY <1>1, <1>2, <1>3, <1>6, <1>7, <1>8, <1>9 DEF HolderIs
  <1>11. ASSUME NEW j \in Block, j # k PROVE Holder'[j] = Holder[j]
    <2>1. ASSUME NEW q \in Proc, NEW c \in Holds(q), blockno[c] = j
          PROVE  Holder'[j] = Holder[j]
      <3>1. c # b
        BY <1>11, <2>1 DEF k
      <3>2. c \in Holds(q)' /\ blockno'[c] = j
        BY <1>1, <1>6, <2>1, <3>1
      <3>3. Holder[j] = {q}
        BY <1>3, <2>1 DEF HolderIs
      <3>4. Holder'[j] = {q}
        BY <1>3, <3>2 DEF HolderIs
      <3> QED
        BY <3>3, <3>4
    <2>2. CASE \A q \in Proc : \A c \in Holds(q) : blockno[c] # j
      <3>1. \A q \in Proc : \A c \in Holds(q)' : blockno'[c] # j
        BY <1>1, <1>6, <2>2
      <3>2. Holder'[j] = {}
        BY <1>3, <3>1 DEF HolderIs
      <3> QED
        BY <1>3, <2>2, <3>2 DEF HolderIs
    <2> QED
      BY <2>1, <2>2
  <1>12. Holder' = [Holder EXCEPT ![k] = {}]
    BY <1>2, <1>3, <1>10, <1>11 DEF HolderIs
  <1>13. B!Release(p, k)
    BY <1>1, <1>4, <1>5, <1>12 DEF B!Release
  <1> QED
    BY <1>2, <1>13 DEF B!Next

\* An interrupt changes no block, unless the transfer has failed.
LEMMA IdeintrIsFail ==
  ASSUME CacheInv, CacheInv', NEW ok \in BOOLEAN, ideintr(ok)
  PROVE  B!Next \/ UNCHANGED B!vars
  <1> DEFINE b == Head(idequeue)
             k == blockno[b]
  <1>1. b \in Buf /\ b \in Elems(idequeue)
    BY ElemsTail DEF ideintr, CacheInv, TypeOK
  <1>2. k \in Block /\ ~Synced(b) /\ (dirty[b] => valid[b])
    BY <1>1, WaitersHold DEF CacheInv, QueueWaits, DirtyIsValid
  <1>3. /\ device[1].block = k /\ device[1].data = data[b]
        /\ device[1].op = IF dirty[b] THEN "write" ELSE "read"
    BY DEF ideintr, CacheInv, DriveServesHead, idestart
  <1>4. /\ data' = [data EXCEPT ![b] = IF ~dirty[b] /\ ok THEN disk[k] ELSE @]
        /\ disk' = IF dirty[b] /\ ok THEN [disk EXCEPT ![k] = data[b]] ELSE disk
        /\ failed' = IF ok THEN failed ELSE failed \cup {k}
        /\ valid' = [valid EXCEPT ![b] = TRUE]
        /\ UNCHANGED <<blockno, held>>
    BY <1>3 DEF ideintr
  <1>5. ContentIs /\ ContentIs'
    BY ContentCorrect, PTL
  <1>6. Holder' = Holder
    BY <1>4 DEF Holder, Holds
  <1>7. k = blockno[b] /\ \A c \in Buf : blockno[c] = k => c = b
    BY <1>1, <1>2, BufferAssumption DEF CacheInv, OneBuffer, BufferAssumption
  <1> HIDE DEF b, k
  <1>8. /\ valid'[b] /\ data'[b] = IF ~dirty[b] /\ ok THEN disk[k] ELSE data[b]
        /\ \A c \in Buf : c # b => valid'[c] = valid[c] /\ data'[c] = data[c]
        /\ \A j \in Block : j # k => disk'[j] = disk[j]
    BY <1>1, <1>2, <1>4 DEF CacheInv, TypeOK
  <1>9. ASSUME NEW j \in Block, j # k PROVE Content'[j] = Content[j]
    <2>1. ASSUME NEW c \in Buf, blockno[c] = j, valid[c] PROVE Content'[j] = Content[j]
      <3>1. c # b /\ blockno'[c] = j /\ valid'[c] /\ data'[c] = data[c]
        BY <1>4, <1>7, <1>8, <1>9, <2>1
      <3> QED
        BY <1>5, <2>1, <3>1 DEF ContentIs
    <2>2. CASE \A c \in Buf : ~(blockno[c] = j /\ valid[c])
      <3>1. \A c \in Buf : ~(blockno'[c] = j /\ valid'[c])
        BY <1>4, <1>7, <1>8, <1>9, <2>2
      <3>2. Content'[j] = disk'[j]
        BY <1>5, <3>1 DEF ContentIs
      <3> QED
        BY <1>5, <1>8, <1>9, <2>2, <3>2 DEF ContentIs
    <2> QED
      BY <2>1, <2>2
  <1>10. Content'[k] = data'[b]
    BY <1>1, <1>2, <1>4, <1>5, <1>7, <1>8 DEF ContentIs
  <1>11. CASE ok
    <2>1. Content'[k] = Content[k]
      <3>1. CASE dirty[b]
        <4>1. Content[k] = data[b]
          BY <1>1, <1>2, <1>5, <1>7, <3>1 DEF ContentIs
        <4> QED
          BY <1>8, <1>10, <3>1, <4>1
      <3>2. CASE ~dirty[b]
        <4>1. ~valid[b]
          BY <1>2, <3>2 DEF Synced
        <4>2. Content[k] = disk[k]
          BY <1>2, <1>5, <1>7, <4>1 DEF ContentIs
        <4> QED
          BY <1>8, <1>10, <1>11, <3>2, <4>2
      <3> QED
        BY <3>1, <3>2
    <2>2. Content' = Content
      BY <1>5, <1>9, <2>1 DEF ContentIs
    <2> QED
      BY <1>4, <1>6, <1>11, <2>2 DEF B!vars
  <1>12. CASE ~ok
    <2>1. failed' = failed \cup {k}
      BY <1>4, <1>12
    <2>2. Content' \in [Block -> Value]
      BY <1>5 DEF ContentIs
    <2>3. B!Fail(k)
      BY <1>6, <1>9, <2>1, <2>2 DEF B!Fail
    <2> QED
      BY <1>2, <2>3 DEF B!Next
  <1> QED
    BY <1>11, <1>12

\* What bread returns is what bwrite and log_write have left in the block, whichever buffers
\* were recycled and whatever was queued meanwhile: cache and driver implement the store.
THEOREM CacheIsBlockStore == Spec => IsBlockStore
  <1>1. Init => B!Init
    <2> SUFFICES ASSUME Init PROVE B!Init
      OBVIOUS
    <2>1. Content \in [Block -> Value]
      BY InitCache, ContentCorrect DEF ContentIs
    <2>2. Holder = [k \in Block |-> {}]
      BY DEF Init, Holder, Holds
    <2> QED
      BY <2>1, <2>2 DEF Init, B!Init
  <1>2. CacheInv /\ CacheInv' /\ [Next]_vars => [B!Next]_(B!vars)
    <2> SUFFICES ASSUME CacheInv, CacheInv', [Next]_vars PROVE B!Next \/ UNCHANGED B!vars
      OBVIOUS
    <2>1. CASE UNCHANGED vars
      BY <2>1, QuietIsStutter DEF vars, buffers, drive
    <2>2. ASSUME NEW p \in Proc, NEW k \in Block, bread(p, k) PROVE UNCHANGED B!vars
      BY <2>2, QuietIsStutter DEF bread, buffers, drive
    <2>3. ASSUME NEW p \in Proc, kill(p) \/ iderw_wait(p) PROVE UNCHANGED B!vars
      BY <2>3, QuietIsStutter DEF kill, iderw_wait, buffers, drive
    <2>4. ASSUME NEW p \in Proc, bget_busy(p) \/ bget_panic(p) \/ iderw(p)
          PROVE  UNCHANGED B!vars
      BY <2>4, QuietIsStutter DEF bget_busy, bget_panic, iderw, buffers, drive
    <2>5. ASSUME NEW p \in Proc, bget_cached(p) \/ bget_recycle(p) PROVE B!Next
      BY <2>5, BgetIsAcquire
    <2>6. ASSUME NEW p \in Proc, NEW b \in Buf, NEW v \in Value,
                 bwrite(p, b, v) \/ log_write(p, b, v)
          PROVE  B!Next
      BY <2>6, ChangeIsUpdate
    <2>7. ASSUME NEW p \in Proc, NEW b \in Buf, brelse(p, b) PROVE B!Next
      BY <2>7, BrelseIsRelease
    <2>8. ASSUME NEW ok \in BOOLEAN, ideintr(ok) PROVE B!Next \/ UNCHANGED B!vars
      BY <2>8, IdeintrIsFail
    <2> QED
      BY <2>1, <2>2, <2>3, <2>4, <2>5, <2>6, <2>7, <2>8 DEF Next, Running, Inside
  <1> QED
    BY <1>1, <1>2, CacheCorrect, PTL DEF Spec, IsBlockStore, B!Spec

=============================================================================
