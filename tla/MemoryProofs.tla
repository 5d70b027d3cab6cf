---------------------------- MODULE MemoryProofs ----------------------------
(***************************************************************************)
(* Proofs about Memory, for every number of processes and pages, every     *)
(* size of pages and page tables, and all program headers: aligned or not, *)
(* wrapping around or not, with any sizes.                                 *)
(***************************************************************************)
EXTENDS Memory, FiniteSetTheorems, FunctionTheorems, SequenceTheorems, WellFoundedInduction, TLAPS

(***************************************************************************)
(* Numbers.                                                                *)
(***************************************************************************)

\* A set of natural numbers has a least one.
LEMMA LeastOf ==
  ASSUME NEW S, S \subseteq Nat, S # {}
  PROVE  \E x \in S : \A y \in S : x <= y
  <1> DEFINE R == OpToRel(<, Nat)
  <1>1. \A x, y \in Nat : <<x, y>> \in R <=> x < y
    BY DEF OpToRel
  <1>2. IsWellFoundedOn(R, Nat)
    BY NatLessThanWellFounded
  <1> HIDE DEF R
  <1>3. PICK x \in S : \A y \in S : ~(<<y, x>> \in R)
    BY <1>2, WFMin
  <1>4. ASSUME NEW y \in S PROVE x <= y
    <2>1. x \in Nat /\ y \in Nat
      OBVIOUS
    <2>2. ~(<<y, x>> \in R)
      BY <1>3
    <2>3. ~(y < x)
      BY <1>1, <2>1, <2>2
    <2> QED
      BY <2>1, <2>3
  <1> QED
    BY <1>4

\* A set of natural numbers with a bound has a greatest one.
LEMMA GreatestOf ==
  ASSUME NEW S, NEW n \in Nat, S \subseteq 0 .. n, S # {}
  PROVE  \E x \in S : \A y \in S : x >= y
  <1> DEFINE T == {n - x : x \in S}
  <1>1. T \subseteq Nat
    <2> SUFFICES ASSUME NEW x \in S PROVE n - x \in Nat
      OBVIOUS
    <2>1. x \in 0 .. n
      OBVIOUS
    <2> QED
      BY <2>1
  <1>2. T # {}
    OBVIOUS
  <1>3. PICK z \in T : \A y \in T : z <= y
    <2> HIDE DEF T
    <2> QED
      BY <1>1, <1>2, LeastOf
  <1>4. PICK x \in S : z = n - x
    BY <1>3
  <1>5. ASSUME NEW y \in S PROVE x >= y
    <2>1. n - x <= n - y
      BY <1>3, <1>4
    <2>2. x \in 0 .. n /\ y \in 0 .. n
      OBVIOUS
    <2> QED
      BY <2>1, <2>2
  <1> QED
    BY <1>5

\* A remainder lies below its modulus.
LEMMA ModRange ==
  ASSUME NEW m \in Nat \ {0}, NEW a \in Int
  PROVE  a % m \in 0 .. m - 1
  OBVIOUS

\* A remainder is determined by any division with a remainder below the modulus.
LEMMA ModIs ==
  ASSUME NEW m \in Nat \ {0}, NEW q \in Int, NEW x \in 0 .. m - 1,
         NEW a \in Int, a = m * q + x
  PROVE  a % m = x
  OBVIOUS

\* Adding a multiple of the modulus leaves the remainder alone.
LEMMA ModPlus ==
  ASSUME NEW m \in Nat \ {0}, NEW w \in Nat, w % m = 0, NEW a \in Nat
  PROVE  (a + w) % m = a % m
  <1> DEFINE q == a \div m
             k == w \div m
             x == a % m
             s == q + k
  <1>1. q \in Int /\ k \in Int /\ s \in Int
    OBVIOUS
  <1>2. a = m * q + x /\ w = m * k
    OBVIOUS
  <1>3. x \in 0 .. m - 1
    BY ModRange
  <1>4. m * s = m * q + m * k
    BY <1>1
  <1>5. a + w \in Int
    OBVIOUS
  <1> HIDE DEF q, k, x, s
  <1>6. a + w = m * s + x
    <2> DEFINE mq == m * q
               mk == m * k
               ms == m * s
    <2>1. mq \in Int /\ mk \in Int /\ ms \in Int
      BY <1>1
    <2>2. ms = mq + mk /\ a = mq + x /\ w = mk
      BY <1>2, <1>4
    <2> HIDE DEF mq, mk, ms
    <2>3. a + w = ms + x
      BY <2>1, <2>2, <1>3
    <2> QED
      BY <2>3 DEF ms
  <1> DEFINE c == a + w
  <1>7. c \in Int /\ c = m * s + x
    BY <1>5, <1>6
  <1> HIDE DEF c
  <1>8. c % m = x
    BY <1>1, <1>3, <1>7, ModIs
  <1> QED
    BY <1>8 DEF c, x

\* Division with a remainder.
LEMMA Euclid ==
  ASSUME NEW m \in Nat \ {0}, NEW a \in Nat
  PROVE  /\ a \div m \in Nat /\ a % m \in 0 .. m - 1
         /\ a = m * (a \div m) + (a % m)
  OBVIOUS

\* Products are monotonic.
LEMMA MulMono ==
  ASSUME NEW m \in Nat, NEW a \in Nat, NEW b \in Nat, a <= b
  PROVE  m * a <= m * b /\ a * m = m * a /\ b * m = m * b
  OBVIOUS

\* The quotient is the number of whole multiples.
LEMMA DivBound ==
  ASSUME NEW m \in Nat \ {0}, NEW a \in Nat, NEW b \in Nat
  PROVE  a < m * b <=> a \div m < b
  <1> DEFINE q == a \div m
             r == a % m
  <1>1. q \in Nat /\ r \in 0 .. m - 1 /\ a = m * q + r
    BY Euclid
  <1> HIDE DEF q, r
  <1>2. ASSUME q < b PROVE a < m * b
    <2>1. m * (q + 1) <= m * b
      BY <1>1, <1>2, MulMono
    <2>2. m * (q + 1) = m * q + m
      BY <1>1
    <2> QED
      BY <1>1, <2>1, <2>2
  <1>3. ASSUME b <= q PROVE ~(a < m * b)
    <2>1. m * b <= m * q
      BY <1>1, <1>3, MulMono
    <2> QED
      BY <1>1, <2>1
  <1> QED
    BY <1>1, <1>2, <1>3 DEF q

(***************************************************************************)
(* Page numbers.                                                           *)
(***************************************************************************)

\* The sizes are positive numbers.
LEMMA Sizes ==
  /\ NPAGES \in Nat \ {0} /\ PGSIZE \in Nat \ {0} /\ NPTENTRIES \in Nat \ {0}
  /\ KERNBASE \in Nat \ {0} /\ NKTAB \in Nat \ {0}
  BY MemoryAssumption

\* PGROUNDUP counts the pages that begin below n.
LEMMA RoundUp ==
  ASSUME NEW n \in Nat
  PROVE  PGROUNDUP(n) \in Nat /\ \A a \in Nat : a * PGSIZE < n <=> a < PGROUNDUP(n)
  <1> DEFINE m == PGSIZE
             t == n + m - 1
             q == t \div m
             r == t % m
  <1>1. m \in Nat \ {0} /\ t \in Nat
    BY Sizes
  <1>2. q \in Nat /\ r \in 0 .. m - 1 /\ t = m * q + r
    BY <1>1, Euclid
  <1>3. PGROUNDUP(n) = q
    BY DEF PGROUNDUP
  <1>4. t = n + m - 1
    OBVIOUS
  <1> HIDE DEF m, t, q, r
  <1> SUFFICES ASSUME NEW a \in Nat PROVE a * m < n <=> a < q
    BY <1>2, <1>3 DEF m
  <1>5. ASSUME a < q PROVE a * m < n
    <2>1. m * (a + 1) <= m * q
      BY <1>1, <1>2, <1>5, MulMono
    <2>2. m * (a + 1) = m * a + m /\ a * m = m * a
      BY <1>1
    <2> QED
      BY <1>1, <1>2, <1>4, <2>1, <2>2
  <1>6. ASSUME q <= a PROVE ~(a * m < n)
    <2>1. m * q <= m * a /\ a * m = m * a
      BY <1>1, <1>2, <1>6, MulMono
    <2> QED
      BY <1>1, <1>2, <1>4, <2>1
  <1> QED
    BY <1>2, <1>5, <1>6

\* A number of whole pages.
LEMMA RoundWhole ==
  ASSUME NEW k \in Nat
  PROVE  k * PGSIZE \in Nat /\ PGROUNDUP(k * PGSIZE) = k
  <1> DEFINE n == k * PGSIZE
             m == PGSIZE
             r == PGROUNDUP(n)
  <1>0. m \in Nat \ {0}
    BY Sizes
  <1>1. n \in Nat /\ n = k * m
    BY Sizes
  <1>2. r \in Nat /\ \A a \in Nat : a * m < n <=> a < r
    BY <1>1, RoundUp
  <1> HIDE DEF n, m, r
  <1>3. ~(k < r)
    BY <1>0, <1>1, <1>2
  <1>4. ASSUME r < k PROVE FALSE
    <2>1. m * (r + 1) <= m * k
      BY <1>0, <1>2, <1>4, MulMono
    <2>2. m * (r + 1) = m * r + m /\ k * m = m * k /\ r * m = m * r
      BY <1>0, <1>2
    <2>3. r * m < n
      BY <1>0, <1>1, <1>2, <2>1, <2>2
    <2> QED
      BY <1>2, <2>3
  <1> QED
    BY <1>1, <1>2, <1>3, <1>4 DEF n, r

\* PGROUNDUP is monotonic.
LEMMA RoundMono ==
  ASSUME NEW a \in Nat, NEW b \in Nat, a <= b
  PROVE  PGROUNDUP(a) <= PGROUNDUP(b)
  <1> DEFINE r == PGROUNDUP(a)
             q == PGROUNDUP(b)
  <1>1. r \in Nat /\ \A x \in Nat : x * PGSIZE < a <=> x < r
    BY RoundUp
  <1>2. q \in Nat /\ \A x \in Nat : x * PGSIZE < b <=> x < q
    BY RoundUp
  <1> HIDE DEF r, q
  <1>3. \A x \in Nat : x * PGSIZE \in Nat
    BY Sizes
  <1>4. ~(q < r)
    BY <1>1, <1>2, <1>3
  <1> QED
    BY <1>1, <1>2, <1>4 DEF r, q

\* KERNBASE is a number of whole page tables.
LEMMA Layout ==
  /\ KERNBASE \div PGSIZE \in Nat
  /\ KERNBASE \div (PGSIZE * NPTENTRIES) \in Nat
  /\ KERNBASE = PGSIZE * (KERNBASE \div PGSIZE)
  /\ KERNBASE \div PGSIZE = NPTENTRIES * (KERNBASE \div (PGSIZE * NPTENTRIES))
  /\ KERNBASE \div PGSIZE > 0
  <1> DEFINE m == PGSIZE
             e == NPTENTRIES
             me == m * e
             t == KERNBASE \div me
             k == e * t
  <1>1. m \in Nat \ {0} /\ e \in Nat \ {0} /\ KERNBASE \in Nat \ {0} /\ me \in Nat \ {0}
    BY Sizes
  <1>2. KERNBASE % me = 0
    BY MemoryAssumption
  <1>3. t \in Nat /\ KERNBASE = me * t
    <2> HIDE DEF me
    <2> QED
      BY <1>1, <1>2, Euclid
  <1>4. k \in Nat /\ KERNBASE = m * k
    BY <1>1, <1>3
  <1> HIDE DEF me, t, k
  <1>5. KERNBASE \div m = k
    BY <1>1, <1>4
  <1>6. k > 0
    BY <1>1, <1>4
  <1>7. k = e * t
    BY DEF k
  <1> QED
    BY <1>3, <1>4, <1>5, <1>6, <1>7 DEF me, t

\* The user's pages are those that begin below KERNBASE.
LEMMA VPagesAre ==
  /\ VPages \subseteq Nat /\ 0 \in VPages
  /\ \A a \in Nat : a * PGSIZE < KERNBASE <=> a \in VPages
  <1> DEFINE k == KERNBASE \div PGSIZE
             m == PGSIZE
  <1>1. k \in Nat /\ k > 0 /\ KERNBASE = m * k /\ m \in Nat \ {0}
    BY Layout, Sizes
  <1>2. VPages = 0 .. k - 1
    BY DEF VPages
  <1> HIDE DEF k, m
  <1> SUFFICES ASSUME NEW a \in Nat PROVE a * m < KERNBASE <=> a < k
    BY <1>1, <1>2 DEF m
  <1>3. ASSUME a < k PROVE a * m < KERNBASE
    <2>1. m * (a + 1) <= m * k
      BY <1>1, <1>3, MulMono
    <2>2. m * (a + 1) = m * a + m /\ a * m = m * a
      BY <1>1
    <2> QED
      BY <1>1, <2>1, <2>2
  <1>4. ASSUME k <= a PROVE ~(a * m < KERNBASE)
    <2>1. m * k <= m * a /\ a * m = m * a
      BY <1>1, <1>4, MulMono
    <2> QED
      BY <1>1, <2>1
  <1> QED
    BY <1>1, <1>3, <1>4

\* Every page has its page table.
LEMMA TableOf ==
  ASSUME NEW v \in VPages
  PROVE  v \div NPTENTRIES \in Tables
  <1> DEFINE t == KERNBASE \div (PGSIZE * NPTENTRIES)
             e == NPTENTRIES
  <1>1. t \in Nat /\ e \in Nat \ {0} /\ VPages = 0 .. e * t - 1 /\ Tables = 0 .. t - 1
    BY Layout, Sizes DEF VPages, Tables
  <1> HIDE DEF t, e
  <1>2. v \in Nat /\ v < e * t
    BY <1>1
  <1>3. v \div e < t /\ v \div e \in Nat
    BY <1>1, <1>2, DivBound, Euclid
  <1> QED
    BY <1>1, <1>3 DEF e

\* Pages of a size below KERNBASE are the user's.
LEMMA PagesBelow ==
  ASSUME NEW n \in 0 .. KERNBASE
  PROVE  /\ PGROUNDUP(n) \in Nat /\ PagesOf(n) \subseteq VPages
         /\ \A a \in Nat : a \in PagesOf(n) <=> a * PGSIZE < n
  <1>1. n \in Nat /\ n <= KERNBASE
    BY Sizes
  <1>2. PGROUNDUP(n) \in Nat /\ \A a \in Nat : a * PGSIZE < n <=> a < PGROUNDUP(n)
    BY <1>1, RoundUp
  <1>3. \A a \in Nat : a \in PagesOf(n) <=> a * PGSIZE < n
    BY <1>2 DEF PagesOf
  <1>4. ASSUME NEW a \in PagesOf(n) PROVE a \in VPages
    <2>1. a \in Nat
      BY <1>2 DEF PagesOf
    <2>2. a * PGSIZE < n /\ a * PGSIZE \in Nat
      BY <1>3, <2>1, Sizes
    <2>3. a * PGSIZE < KERNBASE
      BY <1>1, <2>2, Sizes
    <2> QED
      BY <2>1, <2>3, VPagesAre
  <1> QED
    BY <1>2, <1>3, <1>4

-----------------------------------------------------------------------------
(***************************************************************************)
(* The loop of deallocuvm.                                                 *)
(***************************************************************************)

ScanEnd == Cardinality(VPages) + NPTENTRIES

\* One turn of the loop, f giving what the later turns look at.
Turn(s, old, f, a) ==
  IF a * PGSIZE >= old THEN {}
  ELSE IF ~HasTable(s, a) THEN f[a + NPTENTRIES] ELSE {a} \cup f[a + 1]

IsScan(s, old, f) == f = [a \in 0 .. ScanEnd |-> Turn(s, old, f, a)]

\* Where the loop may stand.
LEMMA ScanRange ==
  /\ ScanEnd \in Nat
  /\ \A a \in VPages : a + NPTENTRIES \in 0 .. ScanEnd /\ a + 1 \in 0 .. ScanEnd
  /\ \A a \in Nat : a >= ScanEnd => a * PGSIZE >= KERNBASE
  /\ \A a \in Nat : a * PGSIZE < KERNBASE => a \in VPages
  /\ \A a \in Nat : a * PGSIZE \in Nat
  /\ \A n \in 0 .. KERNBASE : PGROUNDUP(n) \in 0 .. ScanEnd
  <1> DEFINE k == KERNBASE \div PGSIZE
  <1>1. k \in Nat /\ k > 0 /\ VPages = 0 .. k - 1
    BY Layout DEF VPages
  <1> HIDE DEF k
  <1>2. Cardinality(VPages) = k
    BY <1>1, FS_Interval
  <1>3. NPTENTRIES \in Nat \ {0} /\ \A a \in Nat : a * PGSIZE \in Nat
    BY Sizes
  <1>4. ScanEnd = k + NPTENTRIES
    BY <1>2 DEF ScanEnd
  <1>5. \A a \in Nat : a * PGSIZE < KERNBASE <=> a \in VPages
    BY VPagesAre
  <1>6. ASSUME NEW n \in 0 .. KERNBASE PROVE PGROUNDUP(n) \in 0 .. ScanEnd
    <2>1. PGROUNDUP(n) \in Nat /\ PagesOf(n) \subseteq VPages
      BY PagesBelow
    <2>2. PagesOf(n) = 0 .. PGROUNDUP(n) - 1
      BY DEF PagesOf
    <2>3. ASSUME k < PGROUNDUP(n) PROVE FALSE
      <3>1. k \in PagesOf(n)
        BY <1>1, <2>1, <2>2, <2>3
      <3>2. k \in VPages
        BY <2>1, <3>1
      <3> QED
        BY <1>1, <3>2
    <2> QED
      BY <1>1, <1>3, <1>4, <2>1, <2>3
  <1>7. \A a \in Nat : a >= ScanEnd => a \notin VPages
    BY <1>1, <1>3, <1>4
  <1>8. \A a \in VPages : a + NPTENTRIES \in 0 .. ScanEnd /\ a + 1 \in 0 .. ScanEnd
    BY <1>1, <1>3, <1>4
  <1>9. \A a \in Nat : a >= ScanEnd => a * PGSIZE >= KERNBASE
    BY <1>3, <1>5, <1>7, Sizes
  <1> QED
    BY <1>1, <1>3, <1>4, <1>5, <1>6, <1>8, <1>9

\* The loop ends: the recursion that describes it is defined.
LEMMA ScanExists ==
  ASSUME NEW s, NEW old \in 0 .. KERNBASE
  PROVE  \E f : IsScan(s, old, f)
  <1> DEFINE N == ScanEnd
             Part(k, f) == f = [a \in k .. N |-> Turn(s, old, f, a)]
             Good == {k \in 0 .. N : \E f : Part(k, f)}
  <1>1. N \in Nat /\ old \in Nat /\ old <= KERNBASE /\ KERNBASE \in Nat
    BY ScanRange, Sizes
  <1>2. N \in Good
    <2> DEFINE f == [a \in N .. N |-> {}]
    <2>1. N * PGSIZE >= old
      BY <1>1, ScanRange
    <2>2. \A a \in N .. N : a = N
      BY <1>1
    <2>3. \A a \in N .. N : Turn(s, old, f, a) = {}
      BY <2>1, <2>2 DEF Turn
    <2>4. Part(N, f)
      BY <2>3
    <2> QED
      BY <1>1, <2>4
  <1>3. ASSUME NEW k \in Good, k > 0 PROVE k - 1 \in Good
    <2>1. k \in 0 .. N /\ k - 1 \in 0 .. N /\ k - 1 \in Nat
      BY <1>1, <1>3
    <2>2. PICK f : Part(k, f)
      OBVIOUS
    <2> DEFINE g == [a \in k - 1 .. N |-> IF a = k - 1 THEN Turn(s, old, f, a) ELSE f[a]]
    <2>3. \A a \in k .. N : a \in k - 1 .. N /\ a # k - 1 /\ g[a] = f[a]
      BY <1>1, <2>1
    <2>4. ASSUME NEW a \in k - 1 .. N PROVE Turn(s, old, g, a) = Turn(s, old, f, a)
      <3>1. CASE a * PGSIZE >= old
        BY <3>1 DEF Turn
      <3>2. CASE ~(a * PGSIZE >= old)
        <4>0. a \in Nat
          BY <1>1, <2>1
        <4>1. a \in Nat /\ a * PGSIZE \in Nat
          BY <4>0, ScanRange
        <4>2. a \in VPages
          BY <1>1, <3>2, <4>1, ScanRange
        <4>3. a + NPTENTRIES \in 0 .. N /\ a + 1 \in 0 .. N
          BY <4>2, ScanRange
        <4>4. a + NPTENTRIES \in k .. N /\ a + 1 \in k .. N
          BY <1>1, <2>1, <4>1, <4>3, Sizes
        <4>5. g[a + NPTENTRIES] = f[a + NPTENTRIES] /\ g[a + 1] = f[a + 1]
          BY <2>3, <4>4
        <4> QED
          BY <4>5 DEF Turn
      <3> QED
        BY <3>1, <3>2
    <2>5. ASSUME NEW a \in k - 1 .. N PROVE g[a] = Turn(s, old, g, a)
      <3>1. CASE a = k - 1
        BY <2>4, <3>1
      <3>2. CASE a # k - 1
        <4>1. a \in k .. N
          BY <1>1, <2>1, <3>2
        <4>2. f[a] = Turn(s, old, f, a)
          BY <2>2, <4>1
        <4> QED
          BY <2>4, <3>2, <4>2
      <3> QED
        BY <3>1, <3>2
    <2>6. Part(k - 1, g)
      BY <2>5
    <2> QED
      BY <2>1, <2>6
  <1>4. PICK x \in Good : \A y \in Good : x <= y
    <2>1. Good \subseteq Nat /\ Good # {}
      <3> HIDE DEF Part
      <3> QED
        BY <1>1, <1>2
    <2> HIDE DEF Good
    <2> QED
      BY <2>1, LeastOf
  <1>5. x = 0
    <2>1. x \in 0 .. N
      BY <1>4
    <2>2. x > 0 => x - 1 \in Good
      BY <1>3, <1>4
    <2> HIDE DEF Good
    <2> QED
      BY <1>1, <1>4, <2>1, <2>2
  <1> QED
    BY <1>4, <1>5 DEF IsScan

\* What the loop looks at lies where it has started or later, below the old size and under
\* a page table; and it leaves none of that out when it starts under a page table or at the
\* first page of one.
LEMMA ScanIs ==
  ASSUME NEW s, NEW old \in 0 .. KERNBASE, NEW f, IsScan(s, old, f)
  PROVE  /\ \A a \in 0 .. ScanEnd : \A v \in f[a] :
              v \in VPages /\ v >= a /\ v * PGSIZE < old /\ HasTable(s, v)
         /\ \A a \in 0 .. ScanEnd : a % NPTENTRIES = 0 \/ HasTable(s, a) =>
              \A v \in VPages : v >= a /\ v * PGSIZE < old /\ HasTable(s, v) => v \in f[a]
  <1> DEFINE N == ScanEnd
             e == NPTENTRIES
             In(a) == \A v \in f[a] :
                        v \in VPages /\ v >= a /\ v * PGSIZE < old /\ HasTable(s, v)
             All(a) == a % e = 0 \/ HasTable(s, a) =>
                         \A v \in VPages : v >= a /\ v * PGSIZE < old /\ HasTable(s, v) => v \in f[a]
             Ok(a) == In(a) /\ All(a)
             Wrong == {a \in 0 .. N : ~Ok(a)}
  <1>1. N \in Nat /\ old \in Nat /\ old <= KERNBASE /\ KERNBASE \in Nat /\ e \in Nat \ {0}
    BY ScanRange, Sizes
  <1>2. VPages \subseteq Nat /\ \A a \in Nat : a * PGSIZE \in Nat
    BY VPagesAre, ScanRange
  <1>3. \A a \in 0 .. N : f[a] = Turn(s, old, f, a)
    BY DEF IsScan
  <1>4. ASSUME NEW a \in 0 .. N, \A b \in 0 .. N : b > a => Ok(b)
        PROVE  Ok(a)
    <2>1. CASE a * PGSIZE >= old
      <3>1. f[a] = {}
        BY <1>3, <2>1 DEF Turn
      <3>2. ASSUME NEW v \in VPages, v >= a, v * PGSIZE < old PROVE FALSE
        <4>1. v \in Nat /\ a \in Nat /\ a <= v
          BY <1>1, <1>2, <3>2
        <4>2. PGSIZE * a <= PGSIZE * v /\ a * PGSIZE = PGSIZE * a /\ v * PGSIZE = PGSIZE * v
          BY <4>1, MulMono, Sizes
        <4>3. a * PGSIZE \in Nat /\ v * PGSIZE \in Nat
          BY <1>2, <4>1
        <4> QED
          BY <1>1, <2>1, <3>2, <4>2, <4>3
      <3> QED
        BY <3>1, <3>2
    <2>2. CASE ~(a * PGSIZE >= old)
      <3>1. a \in Nat /\ a * PGSIZE \in Nat /\ a * PGSIZE < old
        BY <1>1, <1>2, <2>2
      <3>2. a \in VPages /\ a + e \in 0 .. N /\ a + 1 \in 0 .. N
        BY <1>1, <3>1, ScanRange
      <3>3. a + e > a /\ a + 1 > a
        BY <1>1, <3>1
      <3>4. Ok(a + e) /\ Ok(a + 1)
        BY <1>4, <3>2, <3>3
      <3>5. CASE ~HasTable(s, a)
        <4>1. f[a] = f[a + e]
          BY <1>3, <2>2, <3>5 DEF Turn
        <4>2. In(a)
          <5> SUFFICES ASSUME NEW v \in f[a + e]
                       PROVE  v \in VPages /\ v >= a /\ v * PGSIZE < old /\ HasTable(s, v)
            BY <4>1
          <5>1. v \in VPages /\ v >= a + e /\ v * PGSIZE < old /\ HasTable(s, v)
            BY <3>4
          <5>2. v \in Nat
            BY <1>2, <5>1
          <5> QED
            BY <1>1, <3>1, <5>1, <5>2
        <4>3. ASSUME a % e = 0, NEW v \in VPages, v >= a, v * PGSIZE < old, HasTable(s, v)
              PROVE  v \in f[a]
          <5>1. (a + e) % e = 0
            <6>1. e % e = 0 /\ e \in Nat
              BY <1>1
            <6> QED
              BY <1>1, <3>1, <4>3, <6>1, ModPlus
          <5>2. v >= a + e
            <6> SUFFICES ASSUME v < a + e PROVE FALSE
              BY <1>1, <1>2, <3>1
            <6> DEFINE q == a \div e
                       m == e * q
                       t == v \div e
            <6>0. q \in Nat /\ a = e * q + (a % e) /\ v \in Nat
              BY <1>1, <1>2, <3>1, Euclid
            <6>1. q \in Nat /\ a = e * q /\ v \in Nat
              BY <1>1, <4>3, <6>0
            <6>2. t \in Nat /\ (v < e * (q + 1) <=> t < q + 1) /\ (v < e * q <=> t < q)
              BY <1>1, <6>1, DivBound
            <6>3. e * (q + 1) = e * q + e
              BY <1>1, <6>1
            <6>4. v < e * (q + 1) /\ ~(v < e * q)
              BY <1>1, <4>3, <6>1, <6>3
            <6>5. t = q
              BY <6>1, <6>2, <6>4
            <6> QED
              BY <3>5, <4>3, <6>5 DEF HasTable
          <5> QED
            BY <3>4, <4>1, <4>3, <5>1, <5>2
        <4> QED
          BY <3>5, <4>2, <4>3
      <3>6. CASE HasTable(s, a)
        <4>1. f[a] = {a} \cup f[a + 1]
          BY <1>3, <2>2, <3>6 DEF Turn
        <4>2. In(a)
          <5>1. ASSUME NEW v \in f[a + 1]
                PROVE  v \in VPages /\ v >= a /\ v * PGSIZE < old /\ HasTable(s, v)
            <6>1. v \in VPages /\ v >= a + 1 /\ v * PGSIZE < old /\ HasTable(s, v)
              BY <3>4
            <6>2. v \in Nat
              BY <1>2, <6>1
            <6> QED
              BY <3>1, <6>1, <6>2
          <5>2. a \in VPages /\ a >= a /\ a * PGSIZE < old /\ HasTable(s, a)
            BY <3>1, <3>2, <3>6
          <5> QED
            BY <4>1, <5>1, <5>2
        <4>3. (a + 1) % e = 0 \/ HasTable(s, a + 1)
          <5> DEFINE q == a \div e
                     r == a % e
          <5>1. q \in Nat /\ r \in 0 .. e - 1 /\ a = e * q + r
            BY <1>1, <3>1, Euclid
          <5> HIDE DEF q, r
          <5>2. CASE r < e - 1
            <6>1. (a + 1) \in Nat /\ (a + 1 < e * (q + 1) <=> (a + 1) \div e < q + 1)
                    /\ (a + 1 < e * q <=> (a + 1) \div e < q) /\ (a + 1) \div e \in Nat
              <7> DEFINE c == a + 1
              <7>1. c \in Nat /\ q + 1 \in Nat
                BY <3>1, <5>1
              <7> HIDE DEF c
              <7>2. c \div e \in Nat
                BY <1>1, <7>1, Euclid
              <7>3. (c < e * (q + 1) <=> c \div e < q + 1) /\ (c < e * q <=> c \div e < q)
                BY <1>1, <5>1, <7>1, DivBound
              <7> QED
                BY <7>1, <7>2, <7>3 DEF c
            <6>2. e * (q + 1) = e * q + e /\ e * q \in Nat
              BY <1>1, <5>1
            <6>3. a + 1 < e * (q + 1) /\ ~(a + 1 < e * q)
              BY <1>1, <5>1, <5>2, <6>2
            <6>4. (a + 1) \div e = a \div e
              BY <5>1, <6>1, <6>3 DEF q
            <6> QED
              BY <3>6, <6>4 DEF HasTable
          <5>3. CASE r = e - 1
            <6>1. a + 1 = e * (q + 1) + 0 /\ q + 1 \in Int /\ a + 1 \in Int /\ 0 \in 0 .. e - 1
              BY <1>1, <5>1, <5>3
            <6>2. (a + 1) % e = 0
              BY <1>1, <6>1, ModIs
            <6> QED
              BY <6>2
          <5> QED
            BY <1>1, <5>1, <5>2, <5>3
        <4>4. ASSUME NEW v \in VPages, v >= a, v * PGSIZE < old, HasTable(s, v)
              PROVE  v \in f[a]
          <5>1. v = a \/ v >= a + 1
            BY <1>2, <3>1, <4>4
          <5> QED
            BY <3>4, <4>1, <4>3, <4>4, <5>1
        <4> QED
          BY <4>2, <4>4
      <3> QED
        BY <3>5, <3>6
    <2> QED
      BY <2>1, <2>2
  <1>5. Wrong = {}
    <2> SUFFICES ASSUME Wrong # {} PROVE FALSE
      OBVIOUS
    <2>1. PICK x \in Wrong : \A y \in Wrong : x >= y
      <3>1. Wrong \subseteq 0 .. N
        OBVIOUS
      <3> HIDE DEF Wrong
      <3> QED
        BY <1>1, <3>1, GreatestOf
    <2>2. x \in 0 .. N /\ ~Ok(x)
      BY <2>1
    <2>3. \A b \in 0 .. N : b > x => Ok(b)
      <3> SUFFICES ASSUME NEW b \in 0 .. N, b > x, ~Ok(b) PROVE FALSE
        OBVIOUS
      <3>1. b \in Wrong
        OBVIOUS
      <3>2. x >= b
        BY <2>1, <3>1
      <3> HIDE DEF Ok, Wrong
      <3> QED
        BY <1>1, <2>2, <3>2
    <2> QED
      BY <1>4, <2>2, <2>3
  <1>6. \A a \in 0 .. N : Ok(a)
    BY <1>5
  <1> QED
    BY <1>6

\* The pages deallocuvm looks at.
LEMMA ScannedIs ==
  ASSUME NEW s, NEW old \in 0 .. KERNBASE, NEW new \in Nat
  PROVE  /\ \A v \in Scanned(s, old, new) :
              v \in VPages /\ v >= PGROUNDUP(new) /\ v * PGSIZE < old /\ HasTable(s, v)
         /\ PGROUNDUP(new) % NPTENTRIES = 0 \/ HasTable(s, PGROUNDUP(new)) =>
              \A v \in VPages :
                v >= PGROUNDUP(new) /\ v * PGSIZE < old /\ HasTable(s, v) => v \in Scanned(s, old, new)
  <1> DEFINE f == CHOOSE g : IsScan(s, old, g)
             r == PGROUNDUP(new)
  <1>1. IsScan(s, old, f)
    BY ScanExists
  <1>2. Scanned(s, old, new) = IF new >= old THEN {} ELSE f[r]
    BY DEF Scanned, IsScan, Turn, ScanEnd
  <1>3. r \in Nat /\ \A a \in Nat : a * PGSIZE < new <=> a < r
    BY RoundUp
  <1>4. old \in Nat /\ old <= KERNBASE /\ KERNBASE \in Nat
    BY Sizes
  <1> HIDE DEF f, r
  <1>5. CASE new >= old
    <2> SUFFICES ASSUME NEW v \in VPages, v >= r, v * PGSIZE < old PROVE FALSE
      BY <1>2, <1>5 DEF r
    <2>1. v \in Nat /\ v * PGSIZE \in Nat
      BY VPagesAre, ScanRange
    <2>2. v * PGSIZE < new
      BY <1>4, <1>5, <2>1
    <2>3. v < r
      BY <1>3, <2>1, <2>2
    <2> QED
      BY <1>3, <2>1, <2>3
  <1>6. CASE new < old
    <2>1. new \in 0 .. KERNBASE
      BY <1>4, <1>6
    <2>2. r \in 0 .. ScanEnd
      BY <2>1, ScanRange DEF r
    <2>3. Scanned(s, old, new) = f[r]
      BY <1>2, <1>4, <1>6
    <2>4. /\ \A v \in f[r] : v \in VPages /\ v >= r /\ v * PGSIZE < old /\ HasTable(s, v)
          /\ r % NPTENTRIES = 0 \/ HasTable(s, r) =>
               \A v \in VPages : v >= r /\ v * PGSIZE < old /\ HasTable(s, v) => v \in f[r]
      BY <1>1, <2>2, ScanIs
    <2> QED
      BY <2>3, <2>4 DEF r
  <1> QED
    BY <1>4, <1>5, <1>6

-----------------------------------------------------------------------------
(***************************************************************************)
(* Address spaces.                                                         *)
(***************************************************************************)

Frames == Pages \cup {NoPage}

PteType == [pa : Frames, u : BOOLEAN]

SpaceType == [dir : Frames, ktab : SUBSET Pages, utab : [Tables -> Frames],
              pte : [VPages -> PteType]]

\* No page serves twice in an address space.
Separate(s) ==
  /\ \A v, w \in VPages : s.pte[v].pa = s.pte[w].pa /\ s.pte[v].pa # NoPage => v = w
  /\ \A t, u \in Tables : s.utab[t] = s.utab[u] /\ s.utab[t] # NoPage => t = u
  /\ \A v \in VPages, t \in Tables : s.pte[v].pa = s.utab[t] => s.pte[v].pa = NoPage
  /\ \A v \in VPages : s.pte[v].pa \notin s.ktab
  /\ \A t \in Tables : s.utab[t] \notin s.ktab
  /\ \A v \in VPages : s.pte[v].pa = s.dir => s.dir = NoPage
  /\ \A t \in Tables : s.utab[t] = s.dir => s.dir = NoPage
  /\ s.dir \notin s.ktab

\* An address space as vm.c builds it: without a directory it is empty, and a page is mapped
\* under a page table only.
SpaceOK(s) ==
  /\ s \in SpaceType
  /\ s.dir = NoPage => s = NoSpace
  /\ \A v \in VPages : s.pte[v].pa = NoPage => s.pte[v] = NoPte
  /\ \A v \in VPages : s.pte[v].pa # NoPage => HasTable(s, v)
  /\ Separate(s)

\* The fields of an address space.
LEMMA SpaceFields ==
  ASSUME NEW s, SpaceOK(s)
  PROVE  /\ s.dir \in Frames /\ s.ktab \subseteq Pages
         /\ s.utab \in [Tables -> Frames] /\ s.pte \in [VPages -> PteType]
         /\ \A v \in VPages : s.pte[v].pa \in Frames /\ s.pte[v].u \in BOOLEAN
         /\ \A v \in VPages : s.pte[v].pa = NoPage <=> s.pte[v] = NoPte
         /\ \A t \in Tables : s.utab[t] \in Frames
         /\ NoPage \notin Pages
  <1>1. s.dir \in Frames /\ s.ktab \subseteq Pages
        /\ s.utab \in [Tables -> Frames] /\ s.pte \in [VPages -> PteType]
    BY DEF SpaceOK, SpaceType
  <1>2. \A v \in VPages : s.pte[v].pa \in Frames /\ s.pte[v].u \in BOOLEAN
    BY <1>1 DEF PteType
  <1>3. \A v \in VPages : s.pte[v].pa = NoPage <=> s.pte[v] = NoPte
    <2>1. NoPte.pa = NoPage
      BY DEF NoPte
    <2>2. \A v \in VPages : s.pte[v].pa = NoPage => s.pte[v] = NoPte
      BY DEF SpaceOK
    <2> QED
      BY <2>1, <2>2
  <1> QED
    BY <1>1, <1>2, <1>3 DEF Pages, NoPage

\* The pages an address space is made of.
LEMMA PagesInAre ==
  ASSUME NEW s, SpaceOK(s)
  PROVE  /\ PagesIn(s) \subseteq Pages
         /\ \A x : x \in PagesIn(s) <=>
              /\ x # NoPage
              /\ \/ \E v \in VPages : x = s.pte[v].pa
                 \/ \E t \in Tables : x = s.utab[t]
                 \/ x \in s.ktab
                 \/ x = s.dir
  <1>1. s.ktab \subseteq Pages /\ NoPage \notin Pages /\ s.dir \in Frames
    BY SpaceFields
  <1>2. \A v \in VPages : s.pte[v].pa \in Frames
    BY SpaceFields
  <1>3. \A t \in Tables : s.utab[t] \in Frames
    BY SpaceFields
  <1>4. \A x : x \in PagesIn(s) <=>
              /\ x # NoPage
              /\ \/ \E v \in VPages : x = s.pte[v].pa
                 \/ \E t \in Tables : x = s.utab[t]
                 \/ x \in s.ktab
                 \/ x = s.dir
    BY <1>1 DEF PagesIn, UserPages, TablesOf
  <1> QED
    BY <1>1, <1>2, <1>3, <1>4 DEF Frames

\* The empty address space.
LEMMA NoSpaceIs ==
  /\ SpaceOK(NoSpace) /\ PagesIn(NoSpace) = {}
  /\ NoSpace.dir = NoPage /\ NoSpace.ktab = {}
  /\ \A v \in VPages : NoSpace.pte[v] = NoPte
  /\ \A t \in Tables : NoSpace.utab[t] = NoPage
  <1>1. /\ NoSpace.dir = NoPage /\ NoSpace.ktab = {}
        /\ NoSpace.utab = [t \in Tables |-> NoPage]
        /\ NoSpace.pte = [v \in VPages |-> NoPte]
    BY DEF NoSpace
  <1>2. NoPte \in PteType /\ NoPte.pa = NoPage
    BY DEF NoPte, PteType, Frames
  <1>3. NoSpace \in SpaceType
    BY <1>2 DEF NoSpace, SpaceType, Frames
  <1>4. \A v \in VPages : NoSpace.pte[v] = NoPte /\ NoSpace.pte[v].pa = NoPage
    BY <1>1, <1>2
  <1>5. \A t \in Tables : NoSpace.utab[t] = NoPage
    BY <1>1
  <1> HIDE DEF NoSpace
  <1>6. SpaceOK(NoSpace)
    BY <1>1, <1>3, <1>4, <1>5 DEF SpaceOK, Separate
  <1>7. PagesIn(NoSpace) = {}
    BY <1>1, <1>4, <1>5 DEF PagesIn, UserPages, TablesOf
  <1> QED
    BY <1>1, <1>4, <1>5, <1>6, <1>7

\* A directory tells an address space from the empty one.
LEMMA DirOf ==
  ASSUME NEW s, SpaceOK(s)
  PROVE  s # NoSpace <=> s.dir # NoPage
  BY NoSpaceIs DEF SpaceOK

\* The image of an injective function.
LEMMA ImageCount ==
  ASSUME NEW D, IsFiniteSet(D), NEW f, \A x, y \in D : f[x] = f[y] => x = y
  PROVE  IsFiniteSet({f[x] : x \in D}) /\ Cardinality({f[x] : x \in D}) = Cardinality(D)
  <1> DEFINE T == {f[x] : x \in D}
             g == [x \in D |-> f[x]]
  <1>1. g \in [D -> T] /\ (\A x, y \in D : g[x] = g[y] => x = y)
        /\ \A t \in T : \E x \in D : g[x] = t
    OBVIOUS
  <1> HIDE DEF T, g
  <1>2. g \in Bijection(D, T)
    BY <1>1 DEF Bijection, Injection, Surjection, IsInjective
  <1>3. ExistsBijection(D, T)
    BY <1>2 DEF ExistsBijection
  <1>4. IsFiniteSet(T) /\ Cardinality(T) = Cardinality(D)
    BY <1>3, FS_Bijection
  <1> QED
    BY <1>4 DEF T

\* Disjoint sets.
LEMMA DisjointCount ==
  ASSUME NEW A, NEW B, IsFiniteSet(A), IsFiniteSet(B), A \cap B = {}
  PROVE  IsFiniteSet(A \cup B) /\ Cardinality(A \cup B) = Cardinality(A) + Cardinality(B)
  <1>1. Cardinality(A \cap B) = 0
    BY FS_EmptySet
  <1>2. Cardinality(A) \in Nat /\ Cardinality(B) \in Nat
    BY FS_CardinalityType
  <1>3. /\ IsFiniteSet(A \cup B)
        /\ Cardinality(A \cup B) = Cardinality(A) + Cardinality(B) - Cardinality(A \cap B)
    BY FS_Union
  <1> QED
    BY <1>1, <1>2, <1>3

\* An address space has as many pages as it has uses for them.
LEMMA CountPages ==
  ASSUME NEW s, SpaceOK(s), s # NoSpace
  PROVE  Cardinality(PagesIn(s)) = SizeOf(s)
  <1> DEFINE D == {v \in VPages : s.pte[v] # NoPte}
             E == {t \in Tables : s.utab[t] # NoPage}
             f == [v \in VPages |-> s.pte[v].pa]
             A == {f[v] : v \in D}
             B == {s.utab[t] : t \in E}
             G == {s.dir}
  <1>1. IsFiniteSet(VPages) /\ IsFiniteSet(Tables) /\ IsFiniteSet(Pages)
    BY FS_Interval, Layout, Sizes DEF VPages, Tables, Pages
  <1>2. IsFiniteSet(D) /\ IsFiniteSet(E) /\ IsFiniteSet(s.ktab)
    <2>1. D \in SUBSET VPages /\ E \in SUBSET Tables /\ s.ktab \in SUBSET Pages
      BY SpaceFields
    <2> HIDE DEF D, E
    <2> QED
      BY <1>1, <2>1, FS_Subset
  <1>3. \A v, w \in D : f[v] = f[w] => v = w
    BY SpaceFields DEF SpaceOK, Separate
  <1>4. \A t, u \in E : s.utab[t] = s.utab[u] => t = u
    BY DEF SpaceOK, Separate
  <1>5. IsFiniteSet(A) /\ Cardinality(A) = Cardinality(D)
    <2> HIDE DEF D, f
    <2> QED
      BY <1>2, <1>3, ImageCount
  <1>6. IsFiniteSet(B) /\ Cardinality(B) = Cardinality(E)
    <2> HIDE DEF E
    <2> QED
      BY <1>2, <1>4, ImageCount
  <1>7. IsFiniteSet(G) /\ Cardinality(G) = 1
    BY FS_Singleton
  <1>8. s.dir # NoPage
    BY DirOf
  <1>9. PagesIn(s) = A \cup B \cup s.ktab \cup G
    <2>1. UserPages(s, VPages) = A
      BY SpaceFields DEF UserPages
    <2>2. TablesOf(s) = B
      BY DEF TablesOf
    <2>3. {s.dir} \ {NoPage} = G
      BY <1>8
    <2> QED
      BY <2>1, <2>2, <2>3 DEF PagesIn
  <1>10. \A x \in A : x # NoPage /\ \E v \in VPages : x = s.pte[v].pa
    BY SpaceFields
  <1>11. \A x \in B : x # NoPage /\ \E t \in Tables : x = s.utab[t]
    OBVIOUS
  <1> DEFINE AB == A \cup B
             ABK == AB \cup s.ktab
  <1> HIDE DEF D, E, f, A, B, G
  <1>12. A \cap B = {}
    BY <1>10, <1>11 DEF SpaceOK, Separate
  <1>13. IsFiniteSet(AB) /\ Cardinality(AB) = Cardinality(A) + Cardinality(B)
    BY <1>5, <1>6, <1>12, DisjointCount
  <1>14. AB \cap s.ktab = {}
    BY <1>10, <1>11 DEF SpaceOK, Separate
  <1>15. ABK \cap G = {}
    BY <1>8, <1>10, <1>11 DEF SpaceOK, Separate, G
  <1> HIDE DEF AB
  <1>16. IsFiniteSet(ABK) /\ Cardinality(ABK) = Cardinality(AB) + Cardinality(s.ktab)
    BY <1>2, <1>13, <1>14, DisjointCount
  <1> HIDE DEF ABK
  <1>17. Cardinality(ABK \cup G) = Cardinality(ABK) + Cardinality(G)
    BY <1>7, <1>15, <1>16, DisjointCount
  <1>18. PagesIn(s) = ABK \cup G
    BY <1>9 DEF ABK, AB
  <1> QED
    BY <1>5, <1>6, <1>7, <1>13, <1>16, <1>17, <1>18 DEF SizeOf, D, E

\* Page numbers are positive.
LEMMA PageNumbers == Pages \subseteq Nat /\ NoPage \notin Pages /\ Pages \subseteq Frames
  BY Sizes DEF Pages, NoPage, Frames

\* kalloc takes a free page if there is one.
LEMMA Kalloc ==
  ASSUME NEW F, F \subseteq Pages
  PROVE  /\ F = {} => kalloc(F) = NoPage
         /\ F # {} => kalloc(F) \in F /\ kalloc(F) \in Pages /\ kalloc(F) # NoPage
         /\ F # {} => Min(F) \in F /\ \A y \in F : Min(F) <= y
  <1>1. ASSUME F # {} PROVE Min(F) \in F /\ \A y \in F : Min(F) <= y
    <2>1. F \subseteq Nat
      BY PageNumbers
    <2>2. \E x \in F : \A y \in F : x <= y
      BY <1>1, <2>1, LeastOf
    <2> QED
      BY <2>2 DEF Min
  <1> QED
    BY <1>1, PageNumbers DEF kalloc

\* What mappages returns for a page q at v of s: no page table can be had, or m.space has it.
MappedOrNot(s, v, q, u, F, m) ==
  /\ m.ok \in BOOLEAN
  /\ ~m.ok => m.space = s /\ m.free = F /\ F = {}
  /\ m.ok => /\ SpaceOK(m.space) /\ m.space # NoSpace /\ m.space.dir = s.dir
             /\ m.free \subseteq F /\ m.free \cap PagesIn(m.space) = {}
             /\ PagesIn(m.space) \cup m.free = PagesIn(s) \cup F \cup {q}
             /\ m.space.pte[v] = [pa |-> q, u |-> u]
             /\ \A w \in VPages : w # v => m.space.pte[w] = s.pte[w]

\* mappages makes an address space of the pages it has and is given.
LEMMA MapPages ==
  ASSUME NEW s, SpaceOK(s), s # NoSpace, NEW v \in VPages, s.pte[v] = NoPte,
         NEW F, F \subseteq Pages, F \cap PagesIn(s) = {},
         NEW q \in Pages, q \notin F, q \notin PagesIn(s), NEW u \in BOOLEAN,
         NEW m, m = mappages(s, v, q, u, F)
  PROVE  MappedOrNot(s, v, q, u, F, m)
  <1> DEFINE t == v \div NPTENTRIES
             tab == IF HasTable(s, v) THEN s.utab[t] ELSE kalloc(F)
  <1>1. t \in Tables
    BY TableOf
  <1>2. HasTable(s, v) <=> s.utab[t] # NoPage
    BY DEF HasTable
  <1>3. m = IF tab = NoPage
            THEN [ok |-> FALSE, space |-> s, free |-> F]
            ELSE [ok |-> TRUE, free |-> F \ {tab},
                  space |-> [s EXCEPT !.utab[t] = tab, !.pte[v] = [pa |-> q, u |-> u]]]
    BY DEF mappages
  <1>4. tab = NoPage => ~HasTable(s, v) /\ F = {}
    BY <1>2, Kalloc
  <1>5. CASE tab = NoPage
    <2>1. m.ok = FALSE /\ m.space = s /\ m.free = F /\ F = {}
      BY <1>3, <1>4, <1>5
    <2> QED
      BY <2>1 DEF MappedOrNot
  <1>6. CASE tab # NoPage
    <2> DEFINE z == [s EXCEPT !.utab[t] = tab, !.pte[v] = [pa |-> q, u |-> u]]
    <2>1. m.ok = TRUE /\ m.free = F \ {tab} /\ m.space = z
      BY <1>3, <1>6
    <2>2. tab \in Pages
      BY <1>1, <1>2, <1>6, Kalloc, SpaceFields DEF Frames
    <2>3. [pa |-> q, u |-> u] \in PteType
      BY PageNumbers DEF PteType
    <2>4. /\ z.dir = s.dir /\ z.ktab = s.ktab
          /\ z.utab = [s.utab EXCEPT ![t] = tab]
          /\ z.pte = [s.pte EXCEPT ![v] = [pa |-> q, u |-> u]]
      BY DEF SpaceOK, SpaceType
    <2>5. z \in SpaceType
      <3>0. s.utab \in [Tables -> Frames] /\ s.pte \in [VPages -> PteType] /\ tab \in Frames
        BY <2>2, SpaceFields, PageNumbers
      <3>1. z.utab \in [Tables -> Frames] /\ z.pte \in [VPages -> PteType]
        <4> HIDE DEF z, t, tab
        <4> QED
          BY <2>3, <2>4, <3>0
      <3>2. s \in SpaceType
        BY DEF SpaceOK
      <3> QED
        BY <2>4, <3>1, <3>2 DEF SpaceType
    <2>6. \A w \in VPages : z.pte[w] = IF w = v THEN [pa |-> q, u |-> u] ELSE s.pte[w]
      BY <2>4, SpaceFields
    <2>7. \A w \in VPages : z.pte[w].pa = IF w = v THEN q ELSE s.pte[w].pa
      BY <2>6
    <2>8. \A x \in Tables : z.utab[x] = IF x = t THEN tab ELSE s.utab[x]
      BY <2>4, SpaceFields
    <2>9. \/ HasTable(s, v) /\ s.utab[t] = tab
          \/ ~HasTable(s, v) /\ s.utab[t] = NoPage /\ tab \in F
      <3>1. CASE HasTable(s, v)
        BY <3>1
      <3>2. CASE ~HasTable(s, v)
        BY <1>2, <1>6, <3>2, Kalloc
      <3> QED
        BY <3>1, <3>2
    <2> HIDE DEF z, t, tab
    <2>10. q # NoPage /\ q # tab /\ tab # NoPage
      <3>1. tab \in F \/ tab \in PagesIn(s)
        BY <1>1, <1>6, <2>9, PagesInAre
      <3> QED
        BY <1>6, <3>1, PageNumbers
    <2>11. \A w \in VPages : s.pte[w].pa # q
      BY <2>10, PagesInAre
    <2>12. \A x \in Tables : s.utab[x] # q
      BY <2>10, PagesInAre
    <2>13. q \notin s.ktab /\ q # s.dir
      BY <2>10, PagesInAre
    <2>14. /\ \A w \in VPages : s.pte[w].pa # tab
           /\ \A x \in Tables : x # t => s.utab[x] # tab
           /\ tab \notin s.ktab /\ tab # s.dir
      <3>1. CASE s.utab[t] = tab
        BY <1>1, <1>6, <3>1, DirOf DEF SpaceOK, Separate
      <3>2. CASE tab \in F
        BY <1>6, <3>2, PagesInAre
      <3> QED
        BY <2>9, <3>1, <3>2
    <2>15. \A w \in VPages : w # v => z.pte[w].pa # q /\ z.pte[w].pa # tab
      BY <2>7, <2>11, <2>14
    <2>16. \A x \in Tables : x # t => z.utab[x] # tab
      BY <2>8, <2>14
    <2>17. Separate(s)
      BY DEF SpaceOK
    <2>18. Separate(z)
      <3>1. \A a, b \in VPages : z.pte[a].pa = z.pte[b].pa /\ z.pte[a].pa # NoPage => a = b
        BY <2>7, <2>11, <2>17 DEF Separate
      <3>2. \A a, b \in Tables : z.utab[a] = z.utab[b] /\ z.utab[a] # NoPage => a = b
        BY <2>8, <2>14, <2>17 DEF Separate
      <3>3. \A a \in VPages, b \in Tables : z.pte[a].pa = z.utab[b] => z.pte[a].pa = NoPage
        BY <2>7, <2>8, <2>10, <2>12, <2>14, <2>17 DEF Separate
      <3>4. \A a \in VPages : z.pte[a].pa \notin z.ktab /\ (z.pte[a].pa = z.dir => z.dir = NoPage)
        BY <2>4, <2>7, <2>13, <2>17 DEF Separate
      <3>5. \A b \in Tables : z.utab[b] \notin z.ktab /\ (z.utab[b] = z.dir => z.dir = NoPage)
        BY <2>4, <2>8, <2>14, <2>17 DEF Separate
      <3>6. z.dir \notin z.ktab
        BY <2>4, <2>17 DEF Separate
      <3> QED
        BY <3>1, <3>2, <3>3, <3>4, <3>5, <3>6 DEF Separate
    <2>19. s.dir # NoPage
      BY DirOf
    <2>20. SpaceOK(z)
      <3>1. \A w \in VPages : z.pte[w].pa = NoPage => z.pte[w] = NoPte
        BY <2>6, <2>7, <2>10 DEF SpaceOK
      <3>2. \A w \in VPages : z.pte[w].pa # NoPage => z.utab[w \div NPTENTRIES] # NoPage
        <4> TAKE w \in VPages
        <4>1. w \div NPTENTRIES \in Tables
          BY TableOf
        <4>2. CASE w \div NPTENTRIES = t
          BY <2>8, <2>10, <4>1, <4>2
        <4>3. CASE w \div NPTENTRIES # t
          <5>1. w # v
            BY <4>3 DEF t
          <5>2. s.pte[w].pa # NoPage => s.utab[w \div NPTENTRIES] # NoPage
            BY DEF SpaceOK, HasTable
          <5> QED
            BY <2>7, <2>8, <4>1, <4>3, <5>1, <5>2
        <4> QED
          BY <4>2, <4>3
      <3> QED
        BY <2>4, <2>5, <2>18, <2>19, <3>1, <3>2 DEF SpaceOK, HasTable
    <2>21. z # NoSpace
      BY <2>4, <2>19, NoSpaceIs
    <2>22. \A x : x \in PagesIn(z) <=> x \in PagesIn(s) \/ x = q \/ x = tab
      <3> TAKE x
      <3>1. ASSUME x \in PagesIn(z) PROVE x \in PagesIn(s) \/ x = q \/ x = tab
        <4>1. /\ x # NoPage
              /\ \/ \E w \in VPages : x = z.pte[w].pa
                 \/ \E y \in Tables : x = z.utab[y]
                 \/ x \in z.ktab
                 \/ x = z.dir
          BY <2>20, <3>1, PagesInAre
        <4>2. ASSUME NEW w \in VPages, x = z.pte[w].pa PROVE x \in PagesIn(s) \/ x = q
          BY <2>7, <4>1, <4>2, PagesInAre
        <4>3. ASSUME NEW y \in Tables, x = z.utab[y] PROVE x \in PagesIn(s) \/ x = tab
          BY <2>8, <4>1, <4>3, PagesInAre
        <4>4. ASSUME x \in z.ktab \/ x = z.dir PROVE x \in PagesIn(s)
          BY <2>4, <4>1, <4>4, PagesInAre
        <4> QED
          BY <4>1, <4>2, <4>3, <4>4
      <3>2. ASSUME x \in PagesIn(s) PROVE x \in PagesIn(z)
        <4>1. x # NoPage
          BY <3>2, PagesInAre
        <4>2. ASSUME NEW w \in VPages, x = s.pte[w].pa PROVE x \in PagesIn(z)
          <5>1. w # v
            BY <4>1, <4>2, SpaceFields
          <5> QED
            BY <2>7, <2>20, <4>1, <4>2, <5>1, PagesInAre
        <4>3. ASSUME NEW y \in Tables, x = s.utab[y] PROVE x \in PagesIn(z)
          <5>1. y = t => x = tab
            BY <1>2, <2>9, <4>1, <4>3
          <5>2. x = z.utab[y]
            BY <2>8, <4>3, <5>1
          <5> QED
            BY <2>20, <4>1, <5>2, PagesInAre
        <4> QED
          BY <2>4, <2>20, <3>2, <4>1, <4>2, <4>3, PagesInAre
      <3>3. q \in PagesIn(z)
        BY <2>7, <2>10, <2>20, PagesInAre
      <3>4. tab \in PagesIn(z)
        BY <1>1, <2>8, <2>10, <2>20, PagesInAre
      <3> QED
        BY <3>1, <3>2, <3>3, <3>4
    <2>23. tab \in F \/ tab \in PagesIn(s)
      BY <1>1, <1>6, <2>9, PagesInAre
    <2>24. PagesIn(z) \cup (F \ {tab}) = PagesIn(s) \cup F \cup {q}
      BY <2>22, <2>23
    <2>25. (F \ {tab}) \cap PagesIn(z) = {}
      BY <2>22
    <2>26. /\ SpaceOK(z) /\ z # NoSpace /\ z.dir = s.dir
           /\ z.pte[v] = [pa |-> q, u |-> u] /\ \A w \in VPages : w # v => z.pte[w] = s.pte[w]
      BY <2>4, <2>6, <2>20, <2>21
    <2> HIDE DEF z, tab
    <2> QED
      BY <2>1, <2>24, <2>25, <2>26 DEF MappedOrNot
  <1> QED
    BY <1>5, <1>6

\* A new address space k.space that has been made of free pages F.
SetUp(F, k) ==
  /\ SpaceOK(k.space) /\ k.space # NoSpace
  /\ k.free \subseteq F /\ k.free \cap PagesIn(k.space) = {}
  /\ PagesIn(k.space) \cup k.free = F
  /\ \A v \in VPages : k.space.pte[v] = NoPte

\* setupkvm makes an address space without user pages of free pages.
LEMMA SetupKvm ==
  ASSUME NEW F, F \subseteq Pages, CanSetup(F), NEW k, k = setupkvm(F)
  PROVE  SetUp(F, k)
  <1> DEFINE d == Min(F)
             K == KernelTables(F)
             z == [NoSpace EXCEPT !.dir = d, !.ktab = K]
  <1>1. F # {}
    <2>1. Cardinality({}) = 0
      BY FS_EmptySet
    <2> QED
      BY <2>1, Sizes DEF CanSetup
  <1>2. d \in F /\ \A y \in F : d <= y
    BY <1>1, Kalloc
  <1>3. K \subseteq F
    BY DEF KernelTables
  <1>4. d \notin K
    <2>1. F \subseteq Nat
      BY PageNumbers
    <2>2. {r \in F : r < d} = {}
      <3> SUFFICES ASSUME NEW r \in F, r < d PROVE FALSE
        OBVIOUS
      <3>1. r \in Nat /\ d \in Nat /\ d <= r
        BY <1>2, <2>1
      <3> QED
        BY <3>1
    <2>3. Cardinality({r \in F : r < d}) = 0
      BY <2>2, FS_EmptySet
    <2>4. 0 \notin 1 .. NKTAB
      OBVIOUS
    <2> QED
      BY <2>3, <2>4 DEF KernelTables
  <1>5. k = [space |-> z, free |-> F \ ({d} \cup K)]
    BY DEF setupkvm
  <1>6. k.space = z /\ k.free = F \ ({d} \cup K)
    BY <1>5
  <1>7. /\ z.dir = d /\ z.ktab = K /\ z.utab = NoSpace.utab /\ z.pte = NoSpace.pte
    BY DEF NoSpace
  <1>8. d \in Pages /\ d # NoPage /\ d \in Frames
    BY <1>2, PageNumbers
  <1>9. z \in SpaceType
    <2>1. NoSpace \in SpaceType
      BY NoSpaceIs DEF SpaceOK
    <2> HIDE DEF d, K
    <2> QED
      BY <1>3, <1>8, <2>1 DEF SpaceType
  <1> HIDE DEF d, K, z
  <1>10. \A v \in VPages : z.pte[v] = NoPte /\ z.pte[v].pa = NoPage
    <2>1. NoPte.pa = NoPage
      BY DEF NoPte
    <2> QED
      BY <1>7, <2>1, NoSpaceIs
  <1>11. \A t \in Tables : z.utab[t] = NoPage
    BY <1>7, NoSpaceIs
  <1>12. NoPage \notin K
    BY <1>3, PageNumbers
  <1>13. SpaceOK(z)
    BY <1>4, <1>7, <1>8, <1>9, <1>10, <1>11, <1>12 DEF SpaceOK, Separate
  <1>14. PagesIn(z) = {d} \cup K
    BY <1>7, <1>8, <1>10, <1>11, <1>12, <1>13, PagesInAre
  <1>15. z # NoSpace
    BY <1>7, <1>8, NoSpaceIs
  <1> QED
    BY <1>2, <1>3, <1>6, <1>10, <1>13, <1>14, <1>15 DEF SetUp

\* Taking pages V out of an address space.
LEMMA Unmap ==
  ASSUME NEW s, SpaceOK(s), s # NoSpace, NEW V, V \subseteq VPages,
         NEW z, z = [s EXCEPT !.pte = [v \in VPages |-> IF v \in V THEN NoPte ELSE @[v]]]
  PROVE  /\ SpaceOK(z) /\ z # NoSpace /\ z.dir = s.dir /\ z.utab = s.utab
         /\ \A v \in VPages : z.pte[v] = IF v \in V THEN NoPte ELSE s.pte[v]
         /\ PagesIn(z) \cap UserPages(s, V) = {}
         /\ PagesIn(z) \cup UserPages(s, V) = PagesIn(s)
  <1> DEFINE f == [v \in VPages |-> IF v \in V THEN NoPte ELSE s.pte[v]]
  <1>1. z = [s EXCEPT !.pte = f]
    OBVIOUS
  <1>2. \A v \in VPages : f[v] = IF v \in V THEN NoPte ELSE s.pte[v]
    OBVIOUS
  <1>3. NoPte \in PteType /\ NoPte.pa = NoPage
    BY DEF NoPte, PteType, Frames
  <1>4. f \in [VPages -> PteType]
    BY <1>3, SpaceFields
  <1> HIDE DEF f
  <1>5. z.dir = s.dir /\ z.ktab = s.ktab /\ z.utab = s.utab /\ z.pte = f
    BY <1>1 DEF SpaceOK, SpaceType
  <1>6. z \in SpaceType
    <2>1. s \in SpaceType
      BY DEF SpaceOK
    <2> QED
      BY <1>1, <1>4, <2>1 DEF SpaceType
  <1>7. \A v \in VPages : z.pte[v] = IF v \in V THEN NoPte ELSE s.pte[v]
    BY <1>2, <1>5
  <1>8. \A v \in VPages : z.pte[v].pa = IF v \in V THEN NoPage ELSE s.pte[v].pa
    BY <1>3, <1>7
  <1>9. s.dir # NoPage
    BY DirOf
  <1>10. SpaceOK(z)
    <2>1. Separate(s)
      BY DEF SpaceOK
    <2>2. NoPage \notin s.ktab
      BY SpaceFields
    <2>3. Separate(z)
      BY <1>5, <1>8, <1>9, <2>1, <2>2 DEF Separate
    <2>4. \A v \in VPages : z.pte[v].pa = NoPage => z.pte[v] = NoPte
      BY <1>7, <1>8 DEF SpaceOK
    <2>5. \A v \in VPages : z.pte[v].pa # NoPage => HasTable(z, v)
      BY <1>5, <1>8 DEF SpaceOK, HasTable
    <2> QED
      BY <1>5, <1>6, <1>9, <2>3, <2>4, <2>5 DEF SpaceOK
  <1>11. z # NoSpace
    BY <1>5, <1>9, NoSpaceIs
  <1>12. \A x : x \in UserPages(s, V) <=> x # NoPage /\ \E v \in V : x = s.pte[v].pa
    BY DEF UserPages
  <1>13. PagesIn(z) \cap UserPages(s, V) = {}
    <2>0. ASSUME NEW x \in PagesIn(z)
          PROVE  \/ \E w \in VPages : x = z.pte[w].pa
                 \/ \E t \in Tables : x = z.utab[t]
                 \/ x \in z.ktab
                 \/ x = z.dir
      BY <1>10, PagesInAre
    <2> SUFFICES ASSUME NEW x \in PagesIn(z), NEW v \in V, x = s.pte[v].pa, x # NoPage PROVE FALSE
      BY <1>12
    <2>1. v \in VPages
      OBVIOUS
    <2>2. Separate(s)
      BY DEF SpaceOK
    <2>3. \A w \in VPages : x # z.pte[w].pa
      BY <1>8, <2>1, <2>2 DEF Separate
    <2>4. \A t \in Tables : x # z.utab[t]
      BY <1>5, <2>1, <2>2 DEF Separate
    <2>5. x \notin z.ktab /\ x # z.dir
      BY <1>5, <1>9, <2>1, <2>2 DEF Separate
    <2> QED
      BY <2>0, <2>3, <2>4, <2>5
  <1>14. PagesIn(z) \cup UserPages(s, V) = PagesIn(s)
    <2>1. ASSUME NEW x \in PagesIn(z) PROVE x \in PagesIn(s)
      <3>1. /\ x # NoPage
            /\ \/ \E v \in VPages : x = z.pte[v].pa
               \/ \E t \in Tables : x = z.utab[t]
               \/ x \in z.ktab
               \/ x = z.dir
        BY <1>10, PagesInAre
      <3>2. ASSUME NEW v \in VPages, x = z.pte[v].pa PROVE x = s.pte[v].pa
        BY <1>8, <3>1, <3>2
      <3> QED
        BY <1>5, <3>1, <3>2, PagesInAre
    <2>2. ASSUME NEW x \in UserPages(s, V) PROVE x \in PagesIn(s)
      BY <1>12, PagesInAre
    <2>3. ASSUME NEW x \in PagesIn(s), x \notin UserPages(s, V) PROVE x \in PagesIn(z)
      <3>1. /\ x # NoPage
            /\ \/ \E v \in VPages : x = s.pte[v].pa
               \/ \E t \in Tables : x = s.utab[t]
               \/ x \in s.ktab
               \/ x = s.dir
        BY PagesInAre
      <3>2. ASSUME NEW v \in VPages, x = s.pte[v].pa PROVE x = z.pte[v].pa
        BY <1>8, <1>12, <2>3, <3>1, <3>2
      <3> QED
        BY <1>5, <1>10, <3>1, <3>2, PagesInAre
    <2> QED
      BY <2>1, <2>2, <2>3
  <1> QED
    BY <1>5, <1>7, <1>10, <1>11, <1>13, <1>14

\* An address space d.space that is s without the pages V, which are given back.
Unmapped(s, V, d) ==
  /\ SpaceOK(d.space) /\ d.space # NoSpace /\ d.space.dir = s.dir
  /\ \A v \in VPages : d.space.pte[v] = IF v \in V THEN NoPte ELSE s.pte[v]
  /\ PagesIn(d.space) \cap d.freed = {}
  /\ PagesIn(d.space) \cup d.freed = PagesIn(s)

\* deallocuvm gives back pages that were mapped, and takes them out of the page tables.
LEMMA Dealloc ==
  ASSUME NEW s, SpaceOK(s), s # NoSpace, NEW old \in 0 .. KERNBASE, NEW new \in Nat,
         NEW d, d = deallocuvm(s, old, new)
  PROVE  Unmapped(s, Scanned(s, old, new), d)
  <1> DEFINE V == Scanned(s, old, new)
             z == [s EXCEPT !.pte = [v \in VPages |-> IF v \in V THEN NoPte ELSE @[v]]]
  <1>1. V \subseteq VPages
    BY ScannedIs
  <1>2. d = [space |-> z, freed |-> UserPages(s, V)]
    BY DEF deallocuvm
  <1>3. d.space = z /\ d.freed = UserPages(s, V)
    BY <1>2
  <1>4. /\ SpaceOK(z) /\ z # NoSpace /\ z.dir = s.dir
        /\ \A v \in VPages : z.pte[v] = IF v \in V THEN NoPte ELSE s.pte[v]
        /\ PagesIn(z) \cap UserPages(s, V) = {}
        /\ PagesIn(z) \cup UserPages(s, V) = PagesIn(s)
    <2> HIDE DEF V
    <2> QED
      BY <1>1, Unmap
  <1> HIDE DEF z
  <1> QED
    BY <1>3, <1>4 DEF Unmapped

\* freevm gives back all the pages of an address space.
LEMMA FreeVm ==
  ASSUME NEW s, SpaceOK(s), s # NoSpace
  PROVE  freevm(s) = PagesIn(s)
  <1> DEFINE V == Scanned(s, KERNBASE, 0)
  <1>1. deallocuvm(s, KERNBASE, 0).freed = UserPages(s, V)
    BY DEF deallocuvm
  <1>2. KERNBASE \in 0 .. KERNBASE /\ 0 \in Nat
    BY Sizes
  <1>3. PGROUNDUP(0) = 0 /\ 0 % NPTENTRIES = 0
    <2>1. 0 * PGSIZE = 0
      BY Sizes
    <2>2. PGROUNDUP(0 * PGSIZE) = 0
      BY RoundWhole
    <2> QED
      BY <2>1, <2>2, Sizes
  <1>4. V \subseteq VPages /\ \A v \in VPages : v >= 0 /\ v * PGSIZE < KERNBASE /\ HasTable(s, v) => v \in V
    BY <1>2, <1>3, ScannedIs
  <1>5. \A v \in VPages : HasTable(s, v) => v \in V
    BY <1>4, VPagesAre
  <1> HIDE DEF V
  <1>6. \A v \in VPages : s.pte[v].pa # NoPage => v \in V
    BY <1>5 DEF SpaceOK
  <1>7. UserPages(s, V) = UserPages(s, VPages)
    BY <1>4, <1>6 DEF UserPages
  <1>8. {s.dir} = {s.dir} \ {NoPage}
    BY DirOf
  <1> QED
    BY <1>1, <1>7, <1>8 DEF freevm, PagesIn

\* The page at g of s is closed to the user in z.
GuardedAt(s, g, z) ==
  /\ \A v \in VPages : (v # g => z.pte[v] = s.pte[v]) /\ (z.pte[v] = NoPte <=> s.pte[v] = NoPte)
  /\ z.pte[g].u = FALSE

\* clearpteu changes a permission and no page.
LEMMA Guard ==
  ASSUME NEW s, SpaceOK(s), s # NoSpace, NEW g \in VPages, NEW z, z = Guarded(s, g)
  PROVE  SpaceOK(z) /\ z # NoSpace /\ PagesIn(z) = PagesIn(s) /\ GuardedAt(s, g, z)
  <1> DEFINE c == [s.pte[g] EXCEPT !.u = FALSE]
  <1>1. z = [s EXCEPT !.pte = [s.pte EXCEPT ![g] = c]]
    BY DEF Guarded
  <1>2. s.pte \in [VPages -> PteType] /\ s \in SpaceType
    BY SpaceFields DEF SpaceOK
  <1>3. c \in PteType /\ c.pa = s.pte[g].pa /\ c.u = FALSE
    BY <1>2 DEF PteType
  <1>4. c = NoPte <=> s.pte[g] = NoPte
    <2>1. s.pte[g] \in PteType
      BY <1>2
    <2>2. ASSUME s.pte[g] = NoPte PROVE c = NoPte
      <3>1. c.pa = NoPage
        BY <1>3, <2>2 DEF NoPte
      <3>2. c = [pa |-> c.pa, u |-> c.u]
        <4> HIDE DEF c
        <4> QED
          BY <1>3 DEF PteType
      <3> QED
        BY <1>3, <3>1, <3>2 DEF NoPte
    <2>3. c = NoPte => s.pte[g].pa = NoPage
      BY <1>3 DEF NoPte
    <2> QED
      BY <2>2, <2>3, SpaceFields
  <1> HIDE DEF c
  <1>5. /\ z.dir = s.dir /\ z.ktab = s.ktab /\ z.utab = s.utab
        /\ z.pte = [s.pte EXCEPT ![g] = c]
    BY <1>1, <1>2 DEF SpaceType
  <1>6. \A v \in VPages : z.pte[v] = IF v = g THEN c ELSE s.pte[v]
    BY <1>2, <1>5
  <1>7. z.pte \in [VPages -> PteType]
    BY <1>2, <1>3, <1>5
  <1>8. z \in SpaceType
    BY <1>1, <1>2, <1>5, <1>7 DEF SpaceType
  <1>9. \A v \in VPages : z.pte[v].pa = s.pte[v].pa
    BY <1>3, <1>6
  <1>10. \A v \in VPages : z.pte[v] = NoPte <=> s.pte[v] = NoPte
    BY <1>4, <1>6
  <1>11. s.dir # NoPage
    BY DirOf
  <1>12. SpaceOK(z)
    <2>1. Separate(s)
      BY DEF SpaceOK
    <2>2. Separate(z)
      BY <1>5, <1>9, <2>1 DEF Separate
    <2>3. \A v \in VPages : z.pte[v].pa = NoPage => z.pte[v] = NoPte
      BY <1>9, <1>10, SpaceFields
    <2>4. \A v \in VPages : z.pte[v].pa # NoPage => HasTable(z, v)
      BY <1>5, <1>9 DEF SpaceOK, HasTable
    <2> QED
      BY <1>5, <1>8, <1>11, <2>2, <2>3, <2>4 DEF SpaceOK
  <1>13. PagesIn(z) = PagesIn(s)
    <2>1. UserPages(z, VPages) = UserPages(s, VPages)
      BY <1>9 DEF UserPages
    <2>2. TablesOf(z) = TablesOf(s)
      BY <1>5 DEF TablesOf
    <2> QED
      BY <1>5, <2>1, <2>2 DEF PagesIn
  <1>14. z # NoSpace
    BY <1>5, <1>11, NoSpaceIs
  <1>15. z.pte[g].u = FALSE
    BY <1>3, <1>6
  <1> QED
    BY <1>6, <1>10, <1>12, <1>13, <1>14, <1>15 DEF GuardedAt

-----------------------------------------------------------------------------
(***************************************************************************)
(* The inductive invariant: what the variables hold, and who has which     *)
(* page.                                                                   *)
(***************************************************************************)

JobType ==
  [pc : {"user", "alloc", "setup", "copy", "segs", "args", "freevm"}, space : SpaceType,
   np : Procs \cup {"none"}, old : Nat, new : Nat, a : Nat,
   next : {"none", "grown", "load", "stack"}, hole : BOOLEAN, segs : Seq(Segment)]

Typed ==
  /\ free \subseteq Pages
  /\ content \in [Pages -> Values]
  /\ state \in [Procs -> {"UNUSED", "EMBRYO", "RUNNING", "ZOMBIE"}]
  /\ kstack \in [Procs -> Frames]
  /\ cr3 \in [Procs -> Frames]
  /\ sz \in [Procs -> 0 .. KERNBASE - 1]
  /\ as \in [Procs -> SpaceType]
  /\ job \in [Procs -> JobType]
  /\ tabfailed \in BOOLEAN

Forking(p) == job[p].pc \in {"setup", "copy"}
Growing(p) == job[p].pc = "alloc" /\ job[p].next = "grown"

\* The call that a process is in, and the address space it works on.
JobOK(p) ==
  LET j == job[p]
  IN  /\ j.pc \in {"user", "setup"} \/ Growing(p) => j.space = NoSpace
      /\ j.pc \in {"copy", "segs", "args", "freevm"} \/ (j.pc = "alloc" /\ ~Growing(p)) =>
           j.space # NoSpace
      /\ j.pc = "user" => j = Idle
      /\ j.pc = "alloc" => j.next # "none"
      /\ j.pc \in {"alloc", "args"} => j.new < KERNBASE /\ j.old <= j.new
      /\ j.pc = "segs" => j.old < KERNBASE
      /\ j.pc = "alloc" /\ j.next = "load" => j.segs # <<>>
      /\ j.pc = "args" \/ (j.pc = "alloc" /\ j.next = "stack") =>
           j.new = (PGROUNDUP(j.old) + 2) * PGSIZE
      /\ Forking(p) => j.np \in Procs /\ state[j.np] = "EMBRYO"
      /\ j.pc = "copy" => \A v \in VPages : v >= j.a => j.space.pte[v] = NoPte

\* A slot of the process table and what belongs to it.
ProcOK(p) ==
  /\ SpaceOK(as[p]) /\ SpaceOK(job[p].space)
  /\ state[p] \in {"RUNNING", "ZOMBIE"} => as[p] # NoSpace
  /\ state[p] \in {"UNUSED", "EMBRYO"} => as[p] = NoSpace
  /\ state[p] = "UNUSED" <=> kstack[p] = NoPage
  /\ state[p] = "RUNNING" => cr3[p] = as[p].dir
  /\ state[p] # "RUNNING" => job[p].pc = "user"
  /\ JobOK(p)

\* No two forks fill the same slot.
OneChild == \A p, q \in Procs : Forking(p) /\ Forking(q) /\ job[p].np = job[q].np => p = q

\* Who may have pages: the free list, the kernel stacks, the address spaces of the processes
\* and those that calls are working on.
FreeList == <<"free", initproc>>
Holders == {FreeList} \cup ({"stack", "as", "job"} \X Procs)

Held == [h \in Holders |->
           IF h[1] = "free" THEN free
           ELSE IF h[1] = "stack" THEN {kstack[h[2]]} \ {NoPage}
           ELSE IF h[1] = "as" THEN PagesIn(as[h[2]]) ELSE PagesIn(job[h[2]].space)]

Apart(H, f) == \A h, i \in H : h # i => f[h] \cap f[i] = {}

\* A page has one holder at most, and one at least unless a page table could not be had.
HeldOnce == Apart(Holders, Held)
AllHeld == tabfailed \/ \A x \in Pages : \E h \in Holders : x \in Held[h]

OwnInv == Typed /\ (\A p \in Procs : ProcOK(p)) /\ OneChild /\ HeldOnce /\ AllHeld

-----------------------------------------------------------------------------
(***************************************************************************)
(* Steps that move pages from holder to holder.                            *)
(***************************************************************************)

HeldAt ==
  /\ FreeList \in Holders /\ Held[FreeList] = free
  /\ \A p \in Procs :
       /\ <<"stack", p>> \in Holders /\ Held[<<"stack", p>>] = {kstack[p]} \ {NoPage}
       /\ <<"as", p>> \in Holders /\ Held[<<"as", p>>] = PagesIn(as[p])
       /\ <<"job", p>> \in Holders /\ Held[<<"job", p>>] = PagesIn(job[p].space)

\* What each holder has.
LEMMA HeldIs == HeldAt
  <1>1. FreeList \in Holders /\ FreeList[1] = "free"
    BY DEF FreeList, Holders
  <1>2. ASSUME NEW p \in Procs
        PROVE  <<"stack", p>> \in Holders /\ <<"as", p>> \in Holders /\ <<"job", p>> \in Holders
    BY DEF Holders
  <1>3. Held[FreeList] = free
    BY <1>1 DEF Held
  <1>4. ASSUME NEW p \in Procs
        PROVE  /\ Held[<<"stack", p>>] = {kstack[p]} \ {NoPage}
               /\ Held[<<"as", p>>] = PagesIn(as[p])
               /\ Held[<<"job", p>>] = PagesIn(job[p].space)
    BY <1>2 DEF Held
  <1> QED
    BY <1>1, <1>2, <1>3, <1>4 DEF HeldAt

\* The same in the next state.
LEMMA HeldNext == HeldAt'
  BY HeldIs, PTL

\* Holders are different.
LEMMA HoldersDiffer ==
  ASSUME NEW p, NEW q
  PROVE  /\ FreeList # <<"stack", p>> /\ FreeList # <<"as", p>> /\ FreeList # <<"job", p>>
         /\ <<"stack", p>> # <<"as", q>> /\ <<"stack", p>> # <<"job", q>> /\ <<"as", p>> # <<"job", q>>
         /\ <<"stack", p>> = <<"stack", q>> => p = q
         /\ <<"as", p>> = <<"as", q>> => p = q
         /\ <<"job", p>> = <<"job", q>> => p = q
  BY DEF FreeList

\* A holder is the free list or belongs to a process.
LEMMA HolderCases ==
  ASSUME NEW h \in Holders
  PROVE  h = FreeList \/ \E p \in Procs : h = <<"stack", p>> \/ h = <<"as", p>> \/ h = <<"job", p>>
  BY DEF Holders

\* Holders outside of X keep what they have.
LEMMA HeldSame ==
  ASSUME NEW X, free' = free \/ FreeList \in X,
         \A p \in Procs : /\ kstack'[p] = kstack[p] \/ <<"stack", p>> \in X
                          /\ as'[p] = as[p] \/ <<"as", p>> \in X
                          /\ PagesIn(job'[p].space) = PagesIn(job[p].space) \/ <<"job", p>> \in X
  PROVE  \A h \in Holders \ X : Held'[h] = Held[h]
  <1> SUFFICES ASSUME NEW h \in Holders, h \notin X PROVE Held'[h] = Held[h]
    OBVIOUS
  <1>1. CASE h = FreeList
    BY <1>1, HeldIs, HeldNext DEF HeldAt
  <1>2. ASSUME NEW p \in Procs, h = <<"stack", p>> PROVE Held'[h] = Held[h]
    <2>1. kstack'[p] = kstack[p]
      BY <1>2
    <2>2. Held[h] = {kstack[p]} \ {NoPage}
      BY <1>2, HeldIs DEF HeldAt
    <2>3. Held'[h] = {kstack'[p]} \ {NoPage}
      BY <1>2, HeldNext DEF HeldAt
    <2> QED
      BY <2>1, <2>2, <2>3
  <1>3. ASSUME NEW p \in Procs, h = <<"as", p>> PROVE Held'[h] = Held[h]
    BY <1>3, HeldIs, HeldNext DEF HeldAt
  <1>4. ASSUME NEW p \in Procs, h = <<"job", p>> PROVE Held'[h] = Held[h]
    BY <1>4, HeldIs, HeldNext DEF HeldAt
  <1> QED
    BY <1>1, <1>2, <1>3, <1>4, HolderCases

\* Pages move among the holders of X only.
LEMMA Moved ==
  ASSUME HeldOnce, AllHeld, NEW X, X \subseteq Holders,
         \A h \in Holders \ X : Held'[h] = Held[h],
         \A h, i \in X : h # i => Held'[h] \cap Held'[i] = {},
         \A h \in X : \A x \in Held'[h] : \E i \in X : x \in Held[i],
         tabfailed' \/ \A h \in X : \A x \in Held[h] : \E i \in X : x \in Held'[i],
         tabfailed => tabfailed'
  PROVE  HeldOnce' /\ AllHeld'
  <1>1. ASSUME NEW h \in Holders, NEW i \in Holders, h # i, NEW x, x \in Held'[h], x \in Held'[i]
        PROVE  FALSE
    <2>0. \A g, k \in Holders : x \in Held[g] /\ x \in Held[k] => g = k
      BY DEF HeldOnce, Apart
    <2>1. CASE h \in X /\ i \in X
      BY <1>1, <2>1
    <2>2. CASE h \in X /\ i \notin X
      BY <1>1, <2>0, <2>2
    <2>3. CASE h \notin X /\ i \in X
      BY <1>1, <2>0, <2>3
    <2>4. CASE h \notin X /\ i \notin X
      BY <1>1, <2>0, <2>4
    <2> QED
      BY <2>1, <2>2, <2>3, <2>4
  <1>2. HeldOnce'
    BY <1>1 DEF HeldOnce, Apart
  <1>3. ASSUME ~tabfailed', NEW x \in Pages PROVE \E h \in Holders : x \in Held'[h]
    <2>1. PICK h \in Holders : x \in Held[h]
      BY <1>3 DEF AllHeld
    <2>2. CASE h \in X
      BY <1>3, <2>1, <2>2
    <2>3. CASE h \notin X
      BY <2>1, <2>3
    <2> QED
      BY <2>2, <2>3
  <1> QED
    BY <1>2, <1>3 DEF AllHeld

\* Nothing moves.
LEMMA MovedNone ==
  ASSUME HeldOnce, AllHeld, free' = free, kstack' = kstack, as' = as, tabfailed' = tabfailed,
         \A p \in Procs : PagesIn(job'[p].space) = PagesIn(job[p].space)
  PROVE  HeldOnce' /\ AllHeld'
  <1> DEFINE X == {}
  <1>1. \A h \in Holders \ X : Held'[h] = Held[h]
    <2> HIDE DEF X
    <2> QED
      BY HeldSame
  <1> QED
    BY <1>1, Moved

\* Pages move between two holders.
LEMMA MovedTwo ==
  ASSUME HeldOnce, AllHeld, NEW g \in Holders, NEW k \in Holders, g # k,
         \A h \in Holders \ {g, k} : Held'[h] = Held[h],
         Held'[g] \cap Held'[k] = {},
         Held'[g] \cup Held'[k] \subseteq Held[g] \cup Held[k],
         tabfailed' \/ Held'[g] \cup Held'[k] = Held[g] \cup Held[k],
         tabfailed => tabfailed'
  PROVE  HeldOnce' /\ AllHeld'
  <1> DEFINE X == {g, k}
  <1>1. X \subseteq Holders /\ \A h \in Holders \ X : Held'[h] = Held[h]
    OBVIOUS
  <1>2. \A h, i \in X : h # i => Held'[h] \cap Held'[i] = {}
    OBVIOUS
  <1>3. \A h \in X : \A x \in Held'[h] : \E i \in X : x \in Held[i]
    OBVIOUS
  <1>4. tabfailed' \/ \A h \in X : \A x \in Held[h] : \E i \in X : x \in Held'[i]
    OBVIOUS
  <1> HIDE DEF X
  <1> QED
    BY <1>1, <1>2, <1>3, <1>4, Moved

\* Pages move among three holders.
LEMMA MovedThree ==
  ASSUME HeldOnce, AllHeld, NEW g \in Holders, NEW k \in Holders, NEW l \in Holders,
         g # k, g # l, k # l,
         \A h \in Holders \ {g, k, l} : Held'[h] = Held[h],
         Held'[g] \cap Held'[k] = {}, Held'[g] \cap Held'[l] = {}, Held'[k] \cap Held'[l] = {},
         Held'[g] \cup Held'[k] \cup Held'[l] \subseteq Held[g] \cup Held[k] \cup Held[l],
         tabfailed' \/ Held'[g] \cup Held'[k] \cup Held'[l] = Held[g] \cup Held[k] \cup Held[l],
         tabfailed => tabfailed'
  PROVE  HeldOnce' /\ AllHeld'
  <1> DEFINE X == {g, k, l}
  <1>1. X \subseteq Holders /\ \A h \in Holders \ X : Held'[h] = Held[h]
    OBVIOUS
  <1>2. \A h, i \in X : h # i => Held'[h] \cap Held'[i] = {}
    OBVIOUS
  <1>3. \A h \in X : \A x \in Held'[h] : \E i \in X : x \in Held[i]
    OBVIOUS
  <1>4. tabfailed' \/ \A h \in X : \A x \in Held[h] : \E i \in X : x \in Held'[i]
    OBVIOUS
  <1> HIDE DEF X
  <1> QED
    BY <1>1, <1>2, <1>3, <1>4, Moved

\* The holders of a state have different pages.
LEMMA Different ==
  ASSUME HeldOnce, NEW p \in Procs, NEW q \in Procs
  PROVE  /\ free \cap PagesIn(as[p]) = {} /\ free \cap PagesIn(job[p].space) = {}
         /\ free \cap ({kstack[p]} \ {NoPage}) = {}
         /\ ({kstack[p]} \ {NoPage}) \cap PagesIn(as[q]) = {}
         /\ ({kstack[p]} \ {NoPage}) \cap PagesIn(job[q].space) = {}
         /\ PagesIn(as[p]) \cap PagesIn(job[q].space) = {}
         /\ p # q => /\ PagesIn(as[p]) \cap PagesIn(as[q]) = {}
                     /\ PagesIn(job[p].space) \cap PagesIn(job[q].space) = {}
                     /\ ({kstack[p]} \ {NoPage}) \cap ({kstack[q]} \ {NoPage}) = {}
  <1>1. HeldAt
    BY HeldIs
  <1>2. \A h, i \in Holders : h # i => Held[h] \cap Held[i] = {}
    BY DEF HeldOnce, Apart
  <1>3. Held[FreeList] \cap Held[<<"as", p>>] = {} /\ Held[FreeList] \cap Held[<<"job", p>>] = {}
        /\ Held[FreeList] \cap Held[<<"stack", p>>] = {}
    BY <1>1, <1>2, HoldersDiffer DEF HeldAt
  <1>4. Held[<<"stack", p>>] \cap Held[<<"as", q>>] = {} /\ Held[<<"stack", p>>] \cap Held[<<"job", q>>] = {}
        /\ Held[<<"as", p>>] \cap Held[<<"job", q>>] = {}
    BY <1>1, <1>2, HoldersDiffer DEF HeldAt
  <1>5. p # q => /\ Held[<<"as", p>>] \cap Held[<<"as", q>>] = {}
                 /\ Held[<<"job", p>>] \cap Held[<<"job", q>>] = {}
                 /\ Held[<<"stack", p>>] \cap Held[<<"stack", q>>] = {}
    BY <1>1, <1>2, HoldersDiffer DEF HeldAt
  <1> QED
    BY <1>1, <1>3, <1>4, <1>5 DEF HeldAt

-----------------------------------------------------------------------------
(***************************************************************************)
(* One owner for every page: the actions.                                  *)
(***************************************************************************)

\* A slot that a step leaves alone.
LEMMA ProcSame ==
  ASSUME NEW r \in Procs, ProcOK(r), as'[r] = as[r], job'[r] = job[r], state'[r] = state[r],
         kstack'[r] = kstack[r], cr3'[r] = cr3[r],
         Forking(r) => state'[job[r].np] = "EMBRYO"
  PROVE  ProcOK(r)'
  BY DEF ProcOK, JobOK, Forking, Growing

\* A step of p that changes no other slot and no state of a process.
LEMMA ActorStep ==
  ASSUME \A r \in Procs : ProcOK(r), OneChild, NEW p \in Procs, state' = state,
         \A q \in Procs : q # p =>
           as'[q] = as[q] /\ job'[q] = job[q] /\ kstack'[q] = kstack[q] /\ cr3'[q] = cr3[q],
         ProcOK(p)', Forking(p)' => Forking(p) /\ job'[p].np = job[p].np
  PROVE  (\A r \in Procs : ProcOK(r)') /\ OneChild'
  <1>1. ASSUME NEW r \in Procs PROVE ProcOK(r)'
    <2>1. CASE r = p
      BY <2>1
    <2>2. CASE r # p
      <3>1. Forking(r) => state'[job[r].np] = "EMBRYO"
        BY DEF ProcOK, JobOK
      <3> QED
        BY <2>2, <3>1, ProcSame
    <2> QED
      BY <2>1, <2>2
  <1>2. \A r \in Procs : Forking(r)' => Forking(r) /\ job'[r].np = job[r].np
    BY DEF Forking
  <1>3. OneChild'
    BY <1>2 DEF OneChild
  <1> QED
    BY <1>1, <1>3

\* A call that is over.
LEMMA IdleOK ==
  ASSUME NEW p \in Procs, job'[p] = Idle
  PROVE  /\ JobOK(p)' /\ SpaceOK(job'[p].space) /\ ~Forking(p)' /\ Idle \in JobType
         /\ job'[p].space = NoSpace /\ PagesIn(job'[p].space) = {}
  <1>1. Idle.space = NoSpace /\ Idle.pc = "user"
    BY DEF Idle
  <1>2. Idle \in JobType
    <2>1. NoSpace \in SpaceType
      BY NoSpaceIs DEF SpaceOK
    <2>2. <<>> \in Seq(Segment)
      BY EmptySeq
    <2> QED
      BY <2>1, <2>2 DEF Idle, JobType
  <1>3. JobOK(p)' /\ ~Forking(p)'
    BY <1>1 DEF JobOK, Forking, Growing
  <1> QED
    BY <1>1, <1>2, <1>3, NoSpaceIs

\* What the invariant says of a running process.
LEMMA Actor ==
  ASSUME OwnInv, NEW p \in Procs, state[p] = "RUNNING"
  PROVE  /\ SpaceOK(as[p]) /\ as[p] # NoSpace /\ cr3[p] = as[p].dir
         /\ SpaceOK(job[p].space) /\ JobOK(p) /\ ProcOK(p) /\ job[p] \in JobType
         /\ sz[p] \in Nat /\ sz[p] < KERNBASE /\ sz[p] \in 0 .. KERNBASE
         /\ free \subseteq Pages
         /\ free \cap PagesIn(as[p]) = {} /\ free \cap PagesIn(job[p].space) = {}
         /\ PagesIn(as[p]) \cap PagesIn(job[p].space) = {}
  <1>1. ProcOK(p)
    BY DEF OwnInv
  <1>2. sz[p] \in 0 .. KERNBASE - 1 /\ job[p] \in JobType /\ free \subseteq Pages
    BY DEF OwnInv, Typed
  <1>3. sz[p] \in Nat /\ sz[p] < KERNBASE /\ sz[p] \in 0 .. KERNBASE
    BY <1>2, Sizes
  <1>4. /\ free \cap PagesIn(as[p]) = {} /\ free \cap PagesIn(job[p].space) = {}
        /\ PagesIn(as[p]) \cap PagesIn(job[p].space) = {}
    BY Different DEF OwnInv
  <1> QED
    BY <1>1, <1>2, <1>3, <1>4 DEF ProcOK

\* Freed pages hold junk.
LEMMA JunkedType ==
  ASSUME Typed, NEW S
  PROVE  Junked(S) \in [Pages -> Values]
  BY DEF Junked, Typed, Values

\* The job that allocuvm begins with.
AllocateJob(j, old, new, next, k) ==
  /\ k \in JobType /\ k.pc = "alloc" /\ k.space = j.space /\ k.old = old
  /\ k.new = NewSize(old, new) /\ k.a = PGROUNDUP(old) /\ k.next = next
  /\ k.hole = j.hole /\ k.segs = j.segs /\ k.np = j.np
  /\ old <= NewSize(old, new) /\ new <= NewSize(old, new)

\* allocuvm begins with it.
LEMMA AllocateIs ==
  ASSUME NEW j \in JobType, NEW old \in Nat, NEW new \in Nat, NEW next \in {"grown", "load", "stack"},
         NEW k, k = Allocate(j, old, new, next)
  PROVE  AllocateJob(j, old, new, next, k)
  <1>1. PGROUNDUP(old) \in Nat
    BY RoundUp
  <1>2. NewSize(old, new) \in Nat /\ old <= NewSize(old, new) /\ new <= NewSize(old, new)
    BY DEF NewSize
  <1>3. k = [j EXCEPT !.pc = "alloc", !.old = old, !.new = NewSize(old, new),
                      !.a = PGROUNDUP(old), !.next = next]
    BY DEF Allocate
  <1> QED
    BY <1>1, <1>2, <1>3 DEF AllocateJob, JobType

\* Variables that a step of p leaves alone, written as its updates are.
LEMMA AsUpdates ==
  ASSUME OwnInv, NEW p \in Procs, state[p] = "RUNNING"
  PROVE  /\ as = [as EXCEPT ![p] = as[p]] /\ cr3 = [cr3 EXCEPT ![p] = as[p].dir]
         /\ job = [job EXCEPT ![p] = job[p]]
  <1>1. cr3[p] = as[p].dir
    BY Actor
  <1> QED
    BY <1>1 DEF OwnInv, Typed

\* Pages are dealt out anew to three holders, all of them if full.
Dealt(A, B, C, A1, B1, C1, full) ==
  /\ A1 \cap B1 = {} /\ A1 \cap C1 = {} /\ B1 \cap C1 = {}
  /\ A1 \cup B1 \cup C1 \subseteq A \cup B \cup C
  /\ full => A \cup B \cup C \subseteq A1 \cup B1 \cup C1

\* A step of p leaves it with the address space z and the call k.
Updates(p, z, k) ==
  /\ state[p] = "RUNNING" /\ state' = state /\ kstack' = kstack
  /\ as' = [as EXCEPT ![p] = z] /\ cr3' = [cr3 EXCEPT ![p] = z.dir] /\ job' = [job EXCEPT ![p] = k]

\* These are as the invariant wants them.
Fit(p, z, k) ==
  /\ SpaceOK(z) /\ z # NoSpace
  /\ k \in JobType /\ SpaceOK(k.space) /\ JobOK(p)'
  /\ Forking(p)' => Forking(p) /\ k.np = job[p].np

\* The other variables keep their types.
RestTyped ==
  /\ content' \in [Pages -> Values] /\ sz' \in [Procs -> 0 .. KERNBASE - 1]
  /\ tabfailed' \in BOOLEAN /\ (tabfailed => tabfailed')

\* Pages have moved among the free list, the address space of p and that of its call.
Redealt(p, z, k) ==
  Dealt(free, PagesIn(as[p]), PagesIn(job[p].space), free', PagesIn(z), PagesIn(k.space), ~tabfailed')

\* Such a step of p keeps the invariant.
LEMMA OwnActor ==
  ASSUME OwnInv, NEW p \in Procs, NEW z, NEW k,
         Updates(p, z, k), Fit(p, z, k), RestTyped, Redealt(p, z, k)
  PROVE  OwnInv'
  <1> USE DEF Updates, Fit, RestTyped
  <1>1. Typed /\ (\A r \in Procs : ProcOK(r)) /\ OneChild /\ HeldOnce /\ AllHeld
    BY DEF OwnInv
  <1>2. SpaceOK(as[p]) /\ SpaceOK(job[p].space) /\ free \subseteq Pages /\ ProcOK(p)
    BY Actor
  <1>3. /\ as'[p] = z /\ cr3'[p] = z.dir /\ job'[p] = k
        /\ \A q \in Procs : q # p => as'[q] = as[q] /\ job'[q] = job[q] /\ cr3'[q] = cr3[q]
    BY <1>1 DEF Typed
  <1>4. Typed'
    <2>1. PagesIn(as[p]) \subseteq Pages /\ PagesIn(job[p].space) \subseteq Pages
      BY <1>2, PagesInAre
    <2>2. free' \subseteq Pages
      BY <1>2, <2>1 DEF Redealt, Dealt
    <2>3. z \in SpaceType /\ z.dir \in Frames
      BY SpaceFields DEF SpaceOK
    <2> QED
      BY <1>1, <2>2, <2>3 DEF Typed
  <1>5. ProcOK(p)'
    BY <1>2, <1>3 DEF ProcOK
  <1>6. (\A r \in Procs : ProcOK(r)') /\ OneChild'
    BY <1>1, <1>3, <1>5, ActorStep
  <1>7. HeldOnce' /\ AllHeld'
    <2> DEFINE f == FreeList
               a == <<"as", p>>
               j == <<"job", p>>
    <2>1. f \in Holders /\ a \in Holders /\ j \in Holders /\ f # a /\ f # j /\ a # j
      BY HeldIs, HoldersDiffer DEF HeldAt
    <2>2. Held[f] = free /\ Held[a] = PagesIn(as[p]) /\ Held[j] = PagesIn(job[p].space)
      BY HeldIs DEF HeldAt
    <2>3. Held'[f] = free' /\ Held'[a] = PagesIn(z) /\ Held'[j] = PagesIn(k.space)
      BY <1>3, HeldNext DEF HeldAt
    <2>4. \A h \in Holders \ {f, a, j} : Held'[h] = Held[h]
      <3> DEFINE X == {f, a, j}
      <3>1. /\ FreeList \in X
            /\ \A q \in Procs : as'[q] = as[q] \/ <<"as", q>> \in X
            /\ \A q \in Procs : job'[q] = job[q] \/ <<"job", q>> \in X
        BY <1>3
      <3> HIDE DEF X
      <3>2. \A h \in Holders \ X : Held'[h] = Held[h]
        BY <3>1, HeldSame
      <3> QED
        BY <3>2 DEF X
    <2> HIDE DEF f, a, j
    <2>5. /\ Held'[f] \cap Held'[a] = {} /\ Held'[f] \cap Held'[j] = {} /\ Held'[a] \cap Held'[j] = {}
          /\ Held'[f] \cup Held'[a] \cup Held'[j] \subseteq Held[f] \cup Held[a] \cup Held[j]
          /\ tabfailed' \/ Held'[f] \cup Held'[a] \cup Held'[j] = Held[f] \cup Held[a] \cup Held[j]
      BY <2>2, <2>3 DEF Redealt, Dealt
    <2> QED
      BY <1>1, <2>1, <2>4, <2>5, MovedThree
  <1> QED
    BY <1>4, <1>6, <1>7 DEF OwnInv

\* sbrk.
LEMMA OwnSbrk ==
  ASSUME OwnInv, NEW p \in Procs, NEW n \in Deltas, sbrk(p, n)
  PROVE  OwnInv'
  <1> DEFINE new == (sz[p] + n) % (2 * KERNBASE)
             d == deallocuvm(as[p], sz[p], new)
  <1>1. /\ state[p] = "RUNNING" /\ job[p].pc = "user"
        /\ UNCHANGED <<state, parent, kstack, cr3, tabfailed, halted>>
    BY DEF sbrk, Called, Running
  <1>2. Typed
    BY DEF OwnInv
  <1>3. /\ SpaceOK(as[p]) /\ as[p] # NoSpace /\ cr3[p] = as[p].dir
        /\ sz[p] \in Nat /\ sz[p] < KERNBASE /\ sz[p] \in 0 .. KERNBASE
        /\ free \cap PagesIn(as[p]) = {} /\ SpaceOK(job[p].space) /\ JobOK(p)
    BY <1>1, Actor
  <1>4. new \in Nat
    <2>1. n \in Int
      BY MemoryAssumption
    <2>2. sz[p] + n \in Int /\ 2 * KERNBASE \in Nat \ {0}
      BY <1>3, <2>1, Sizes
    <2>3. (sz[p] + n) % (2 * KERNBASE) \in 0 .. 2 * KERNBASE - 1
      BY <2>2, ModRange
    <2> QED
      BY <2>2, <2>3
  <1>5. job[p] = Idle /\ Idle \in JobType /\ Idle.space = NoSpace /\ PagesIn(NoSpace) = {}
    <2>1. job[p] = Idle
      BY <1>1, <1>3 DEF JobOK
    <2>2. Idle.space = NoSpace
      BY DEF Idle
    <2> QED
      BY <1>2, <2>1, <2>2, NoSpaceIs DEF Typed
  <1>6. /\ as = [as EXCEPT ![p] = as[p]] /\ cr3 = [cr3 EXCEPT ![p] = as[p].dir]
        /\ job = [job EXCEPT ![p] = job[p]]
    BY <1>1, AsUpdates
  <1>7. ASSUME Fits(new), Goto(p, Allocate(Idle, sz[p], new, "grown")),
               UNCHANGED <<free, content, as, sz, want, damaged>>
        PROVE  OwnInv'
    <2> DEFINE k == Allocate(Idle, sz[p], new, "grown")
    <2> HIDE DEF new
    <2>1. job' = [job EXCEPT ![p] = k]
      BY <1>7 DEF Goto
    <2>0. k = Allocate(Idle, sz[p], new, "grown")
      OBVIOUS
    <2> HIDE DEF k
    <2>2. AllocateJob(Idle, sz[p], new, "grown", k)
      BY <1>3, <1>4, <1>5, <2>0, AllocateIs
    <2>3. NewSize(sz[p], new) < KERNBASE
      <3>1. new < KERNBASE
        BY <1>7 DEF Fits
      <3> QED
        BY <1>3, <3>1 DEF NewSize
    <2>4. job'[p] = k
      BY <1>2, <2>1 DEF Typed
    <2>5. JobOK(p)' /\ ~Forking(p)'
      BY <1>5, <2>2, <2>3, <2>4 DEF AllocateJob, JobOK, Forking, Growing
    <2>6. Updates(p, as[p], k)
      BY <1>1, <1>6, <1>7, <2>1 DEF Updates
    <2>7. k \in JobType /\ k.space = NoSpace /\ SpaceOK(NoSpace)
      BY <1>5, <2>2, NoSpaceIs DEF AllocateJob
    <2>8. Fit(p, as[p], k)
      BY <1>3, <2>5, <2>7 DEF Fit
    <2>9. RestTyped
      BY <1>1, <1>2, <1>7 DEF RestTyped, Typed
    <2>10. Redealt(p, as[p], k)
      BY <1>3, <1>5, <1>7, <2>7 DEF Redealt, Dealt
    <2> QED
      BY <2>6, <2>8, <2>9, <2>10, OwnActor
  <1>8. ASSUME new < sz[p], as' = [as EXCEPT ![p] = d.space], free' = free \cup d.freed,
               content' = Junked(d.freed),
               sz' = [sz EXCEPT ![p] = IF ShrinkKept(new) THEN new ELSE @], UNCHANGED job
        PROVE  OwnInv'
    <2> HIDE DEF new
    <2>0. d = deallocuvm(as[p], sz[p], new)
      OBVIOUS
    <2> HIDE DEF d
    <2>1. /\ SpaceOK(d.space) /\ d.space # NoSpace /\ d.space.dir = as[p].dir
          /\ PagesIn(d.space) \cap d.freed = {} /\ PagesIn(d.space) \cup d.freed = PagesIn(as[p])
      <3>1. Unmapped(as[p], Scanned(as[p], sz[p], new), d)
        BY <1>3, <1>4, <2>0, Dealloc
      <3> QED
        BY <3>1 DEF Unmapped
    <2>2. content' \in [Pages -> Values]
      BY <1>2, <1>8, JunkedType
    <2>3. sz' \in [Procs -> 0 .. KERNBASE - 1]
      BY <1>2, <1>3, <1>4, <1>8, Sizes DEF Typed
    <2>4. JobOK(p)' /\ ~Forking(p)'
      BY <1>1, <1>3, <1>8 DEF JobOK, Forking, Growing
    <2>5. Updates(p, d.space, job[p])
      BY <1>1, <1>6, <1>8, <2>1 DEF Updates
    <2>6. Fit(p, d.space, job[p])
      BY <1>2, <1>3, <2>1, <2>4 DEF Fit, Typed
    <2>7. RestTyped
      BY <1>1, <1>2, <2>2, <2>3 DEF RestTyped, Typed
    <2>8. Redealt(p, d.space, job[p])
      BY <1>3, <1>5, <1>8, <2>1 DEF Redealt, Dealt
    <2> QED
      BY <2>5, <2>6, <2>7, <2>8, OwnActor
  <1> QED
    BY <1>7, <1>8 DEF sbrk

\* A step that changes nothing of this.
LEMMA OwnSame ==
  ASSUME OwnInv, UNCHANGED <<free, content, state, kstack, as, sz, cr3, job, tabfailed>>
  PROVE  OwnInv'
  <1>1. Typed /\ (\A r \in Procs : ProcOK(r)) /\ OneChild /\ HeldOnce /\ AllHeld
    BY DEF OwnInv
  <1>2. Typed'
    BY <1>1 DEF Typed
  <1>3. ASSUME NEW r \in Procs PROVE ProcOK(r)'
    BY <1>1, <1>3 DEF ProcOK, JobOK, Forking, Growing
  <1>4. OneChild'
    BY <1>1 DEF OneChild, Forking
  <1>5. HeldOnce' /\ AllHeld'
    BY <1>1, MovedNone
  <1> QED
    BY <1>2, <1>3, <1>4, <1>5 DEF OwnInv

\* A panic.
LEMMA OwnHalt ==
  ASSUME OwnInv, NEW p, NEW b, Halt(p, b)
  PROVE  OwnInv'
  BY OwnSame DEF Halt

\* The outcome of kalloc and mappages: a page of F at v of s, unless no table is left for it.
MapStep(s, F, v, u, q, m) ==
  /\ q \in F /\ q \in Pages /\ MappedOrNot(s, v, q, u, F \ {q}, m)
  /\ SpaceOK(m.space) /\ m.space # NoSpace /\ m.space.dir = s.dir
  /\ m.free \cap PagesIn(m.space) = {}
  /\ m.free \cup PagesIn(m.space) \subseteq F \cup PagesIn(s)
  /\ m.ok => F \cup PagesIn(s) \subseteq m.free \cup PagesIn(m.space)

\* kalloc, then mappages.
LEMMA MapFree ==
  ASSUME NEW s, SpaceOK(s), s # NoSpace, NEW v \in VPages, s.pte[v] = NoPte,
         NEW F, F \subseteq Pages, F # {}, F \cap PagesIn(s) = {}, NEW u \in BOOLEAN,
         NEW q, q = kalloc(F), NEW m, m = mappages(s, v, q, u, F \ {q})
  PROVE  MapStep(s, F, v, u, q, m)
  <1>1. q \in F /\ q \in Pages
    BY Kalloc
  <1>2. F \ {q} \subseteq Pages /\ (F \ {q}) \cap PagesIn(s) = {} /\ q \notin F \ {q} /\ q \notin PagesIn(s)
    BY <1>1
  <1>3. MappedOrNot(s, v, q, u, F \ {q}, m)
    BY <1>1, <1>2, MapPages
  <1>4. CASE m.ok
    <2>1. /\ SpaceOK(m.space) /\ m.space # NoSpace /\ m.space.dir = s.dir
          /\ m.free \cap PagesIn(m.space) = {}
          /\ PagesIn(m.space) \cup m.free = PagesIn(s) \cup (F \ {q}) \cup {q}
      BY <1>3, <1>4 DEF MappedOrNot
    <2>2. PagesIn(s) \cup (F \ {q}) \cup {q} = F \cup PagesIn(s)
      BY <1>1
    <2> QED
      BY <1>1, <1>3, <2>1, <2>2 DEF MapStep
  <1>5. CASE ~m.ok
    <2>1. m.space = s /\ m.free = {}
      BY <1>3, <1>5 DEF MappedOrNot
    <2> QED
      BY <1>1, <1>3, <1>5, <2>1 DEF MapStep
  <1> QED
    BY <1>4, <1>5

\* The same for a page that the user may use.
LEMMA MapFreeUser ==
  ASSUME NEW s, SpaceOK(s), s # NoSpace, NEW v \in VPages, s.pte[v] = NoPte,
         NEW F, F \subseteq Pages, F # {}, F \cap PagesIn(s) = {},
         NEW q, q = kalloc(F), NEW m, m = mappages(s, v, q, TRUE, F \ {q})
  PROVE  MapStep(s, F, v, TRUE, q, m)
  <1>1. TRUE \in BOOLEAN
    OBVIOUS
  <1> QED
    BY <1>1, MapFree, Zenon

\* A job that goes on with another page, which mappages may have failed to map.
NextPageJob(j, m, k) ==
  /\ k \in JobType /\ k.a = j.a + 1 /\ k.hole = (j.hole \/ ~m.ok)
  /\ k.pc = j.pc /\ k.space = j.space /\ k.np = j.np /\ k.old = j.old /\ k.new = j.new
  /\ k.next = j.next /\ k.segs = j.segs

\* It is a job.
LEMMA NextPage ==
  ASSUME NEW j \in JobType, NEW m, NEW k, k = [j EXCEPT !.a = @ + 1, !.hole = @ \/ ~m.ok]
  PROVE  NextPageJob(j, m, k)
  <1> DEFINE b == j.hole \/ ~m.ok
  <1>1. k = [j EXCEPT !.a = j.a + 1, !.hole = b] /\ b \in BOOLEAN
    BY DEF JobType
  <1>2. j.a + 1 \in Nat
    BY DEF JobType
  <1>3. b = (j.hole \/ ~m.ok)
    OBVIOUS
  <1> HIDE DEF b
  <1>4. k.hole = b /\ k.a = j.a + 1
    BY <1>1, <1>2 DEF JobType
  <1>5. k \in JobType
    BY <1>1, <1>2 DEF JobType
  <1>6. /\ k.pc = j.pc /\ k.space = j.space /\ k.np = j.np /\ k.old = j.old /\ k.new = j.new
        /\ k.next = j.next /\ k.segs = j.segs
    BY <1>1, <1>2 DEF JobType
  <1> QED
    BY <1>3, <1>4, <1>5, <1>6 DEF NextPageJob

\* A job that has another address space.
LEMMA NextSpace ==
  ASSUME NEW j \in JobType, NEW s \in SpaceType, NEW k, k = [j EXCEPT !.space = s]
  PROVE  /\ k \in JobType /\ k.space = s /\ k.a = j.a /\ k.hole = j.hole
         /\ k.pc = j.pc /\ k.np = j.np /\ k.old = j.old /\ k.new = j.new
         /\ k.next = j.next /\ k.segs = j.segs
  BY DEF JobType

\* The page that allocuvm is at.
LEMMA AllocPage ==
  ASSUME OwnInv, NEW p \in Procs, Running(p, "alloc"), job[p].a * PGSIZE < job[p].new
  PROVE  /\ state[p] = "RUNNING" /\ job[p].a \in VPages /\ job[p].a \in Nat
         /\ job[p].new \in Nat /\ job[p].old \in Nat /\ job[p].new < KERNBASE
         /\ SpaceOK(Target(p)) /\ Target(p) # NoSpace /\ free \cap PagesIn(Target(p)) = {}
         /\ (Growing(p) <=> job[p].next = "grown")
  <1>1. state[p] = "RUNNING" /\ job[p].pc = "alloc"
    BY DEF Running
  <1>2. /\ SpaceOK(as[p]) /\ as[p] # NoSpace /\ SpaceOK(job[p].space) /\ JobOK(p) /\ job[p] \in JobType
        /\ free \cap PagesIn(as[p]) = {} /\ free \cap PagesIn(job[p].space) = {}
    BY <1>1, Actor
  <1>3. job[p].a \in Nat /\ job[p].new \in Nat /\ job[p].old \in Nat
    BY <1>2 DEF JobType
  <1>4. job[p].new < KERNBASE
    BY <1>1, <1>2 DEF JobOK
  <1>5. job[p].a * PGSIZE < KERNBASE
    BY <1>3, <1>4, Sizes
  <1>6. job[p].a \in VPages
    BY <1>3, <1>5, VPagesAre
  <1>7. SpaceOK(Target(p)) /\ Target(p) # NoSpace /\ free \cap PagesIn(Target(p)) = {}
    BY <1>1, <1>2 DEF Target, JobOK, Growing
  <1> QED
    BY <1>1, <1>3, <1>4, <1>6, <1>7 DEF Growing

\* allocuvm takes a page.
LEMMA OwnAllocPage ==
  ASSUME OwnInv, NEW p \in Procs, alloc_page(p)
  PROVE  OwnInv'
  <1> DEFINE j == job[p]
             q == kalloc(free)
             s == Target(p)
             m == mappages(s, j.a, q, TRUE, free \ {q})
             k == [j EXCEPT !.a = @ + 1, !.hole = @ \/ ~m.ok]
  <1>1. CASE s.pte[j.a] # NoPte
    BY <1>1, OwnHalt DEF alloc_page
  <1>2. CASE s.pte[j.a] = NoPte
    <2>1. /\ Running(p, "alloc") /\ j.a * PGSIZE < j.new /\ free # {}
          /\ Retarget(p, m.space, k)
          /\ free' = m.free
          /\ content' = [content EXCEPT ![q] = "zero"]
          /\ tabfailed' = (tabfailed \/ ~m.ok)
          /\ UNCHANGED <<state, parent, kstack, sz, cr3, want, damaged, halted, calls>>
      BY <1>2 DEF alloc_page
    <2>2. /\ state[p] = "RUNNING" /\ j.a \in VPages /\ SpaceOK(s) /\ s # NoSpace
          /\ free \cap PagesIn(s) = {} /\ (Growing(p) <=> j.next = "grown")
      BY <2>1, AllocPage
    <2>3. /\ SpaceOK(as[p]) /\ as[p] # NoSpace /\ SpaceOK(j.space) /\ JobOK(p) /\ j \in JobType
          /\ free \cap PagesIn(as[p]) = {} /\ free \cap PagesIn(j.space) = {}
          /\ PagesIn(as[p]) \cap PagesIn(j.space) = {} /\ free \subseteq Pages
      BY <2>2, Actor
    <2>4. MapStep(s, free, j.a, TRUE, q, m)
      <3>0. q = kalloc(free) /\ m = mappages(s, j.a, q, TRUE, free \ {q})
        OBVIOUS
      <3> HIDE DEF q, s, m, k, j
      <3> QED
        BY <1>2, <2>1, <2>2, <2>3, <3>0, MapFreeUser
    <2>5. m.ok \in BOOLEAN
      <3> HIDE DEF q, s, m, k, j
      <3> QED
        BY <2>4 DEF MapStep, MappedOrNot
    <2>6. /\ k \in JobType /\ k.pc = j.pc /\ k.space = j.space /\ k.np = j.np /\ k.old = j.old
          /\ k.new = j.new /\ k.next = j.next /\ k.segs = j.segs
      <3>1. k = [j EXCEPT !.a = @ + 1, !.hole = @ \/ ~m.ok]
        OBVIOUS
      <3> HIDE DEF q, s, m, k, j
      <3>2. NextPageJob(j, m, k)
        BY <2>3, <3>1, NextPage
      <3> QED
        BY <3>2 DEF NextPageJob
    <2>7. s = IF j.next = "grown" THEN as[p] ELSE j.space
      BY DEF Target
    <2>8. j = job[p] /\ j.pc = "alloc"
      BY <2>1 DEF Running
    <2>9. Typed
      BY DEF OwnInv
    <2>10. RestTyped
      <3> HIDE DEF q, s, m, k, j
      <3>1. content' \in [Pages -> Values]
        BY <2>1, <2>9 DEF Typed, Values
      <3> QED
        BY <2>1, <2>5, <2>9, <3>1 DEF RestTyped, Typed
    <2>11. CASE j.next = "grown"
      <3>1. as' = [as EXCEPT ![p] = m.space] /\ job' = [job EXCEPT ![p] = k]
        BY <2>1, <2>11 DEF Retarget, Goto
      <3> HIDE DEF q, s, m, k, j
      <3>2. job'[p] = k
        BY <2>9, <3>1 DEF Typed
      <3>3. j.space = NoSpace /\ PagesIn(NoSpace) = {} /\ SpaceOK(NoSpace)
        BY <2>2, <2>3, <2>8, <2>11, NoSpaceIs DEF JobOK
      <3>4. m.space.dir = as[p].dir /\ SpaceOK(m.space) /\ m.space # NoSpace
        BY <2>4, <2>7, <2>11 DEF MapStep
      <3>5. cr3' = [cr3 EXCEPT ![p] = m.space.dir]
        BY <2>1, <2>2, <3>4, AsUpdates
      <3>6. Updates(p, m.space, k)
        BY <2>1, <2>2, <3>1, <3>5 DEF Updates
      <3>7. JobOK(p)' /\ ~Forking(p)'
        BY <2>3, <2>6, <2>8, <2>11, <3>2, <3>3 DEF JobOK, Forking, Growing
      <3>8. Fit(p, m.space, k)
        BY <2>6, <3>3, <3>4, <3>7 DEF Fit
      <3>9. Redealt(p, m.space, k)
        <4>1. /\ m.free \cap PagesIn(m.space) = {}
              /\ m.free \cup PagesIn(m.space) \subseteq free \cup PagesIn(as[p])
              /\ ~tabfailed' => free \cup PagesIn(as[p]) \subseteq m.free \cup PagesIn(m.space)
          BY <2>1, <2>4, <2>7, <2>11 DEF MapStep
        <4>2. PagesIn(k.space) = {} /\ PagesIn(job[p].space) = {}
          BY <2>6, <2>8, <3>3
        <4> QED
          BY <2>1, <4>1, <4>2 DEF Redealt, Dealt
      <3> QED
        BY <2>10, <3>6, <3>8, <3>9, OwnActor
    <2>12. CASE j.next # "grown"
      <3> DEFINE l == [k EXCEPT !.space = m.space]
      <3>1. as' = as /\ job' = [job EXCEPT ![p] = l]
        BY <2>1, <2>12 DEF Retarget, Goto
      <3>2. l = [k EXCEPT !.space = m.space]
        OBVIOUS
      <3> HIDE DEF q, s, m, k, j, l
      <3>3. SpaceOK(m.space) /\ m.space # NoSpace /\ m.space \in SpaceType
        BY <2>4 DEF MapStep, SpaceOK
      <3>4. /\ l \in JobType /\ l.space = m.space /\ l.pc = j.pc /\ l.np = j.np /\ l.old = j.old
            /\ l.new = j.new /\ l.next = j.next /\ l.segs = j.segs
        BY <2>6, <3>2, <3>3, NextSpace
      <3>5. job'[p] = l
        BY <2>9, <3>1 DEF Typed
      <3>6. Updates(p, as[p], l)
        BY <2>1, <2>2, <3>1, AsUpdates DEF Updates
      <3>7. JobOK(p)' /\ ~Forking(p)'
        BY <2>3, <2>8, <2>12, <3>3, <3>4, <3>5 DEF JobOK, Forking, Growing
      <3>8. Fit(p, as[p], l)
        BY <2>3, <3>3, <3>4, <3>7 DEF Fit
      <3>9. Redealt(p, as[p], l)
        <4>1. /\ m.free \cap PagesIn(m.space) = {}
              /\ m.free \cup PagesIn(m.space) \subseteq free \cup PagesIn(j.space)
              /\ ~tabfailed' => free \cup PagesIn(j.space) \subseteq m.free \cup PagesIn(m.space)
          BY <2>1, <2>4, <2>7, <2>12 DEF MapStep
        <4> QED
          BY <2>1, <2>3, <2>8, <3>4, <4>1 DEF Redealt, Dealt
      <3> QED
        BY <2>10, <3>6, <3>8, <3>9, OwnActor
    <2> QED
      BY <2>11, <2>12
  <1> QED
    BY <1>1, <1>2

\* The call k that a step leaves p in is as the invariant wants it.
JobFit(p, k) ==
  /\ k \in JobType /\ SpaceOK(k.space) /\ JobOK(p)'
  /\ Forking(p)' => Forking(p) /\ k.np = job[p].np

\* Pages have moved between the free list and the address space of the call.
CallDealt(p, k) ==
  /\ free' \cap PagesIn(k.space) = {}
  /\ free' \cup PagesIn(k.space) \subseteq free \cup PagesIn(job[p].space)
  /\ ~tabfailed' => free \cup PagesIn(job[p].space) \subseteq free' \cup PagesIn(k.space)

\* A step of p that leaves its own address space alone.
LEMMA OwnCall ==
  ASSUME OwnInv, NEW p \in Procs, state[p] = "RUNNING", NEW k, UNCHANGED <<state, kstack, as, cr3>>,
         Goto(p, k), JobFit(p, k), RestTyped, CallDealt(p, k)
  PROVE  OwnInv'
  <1>1. /\ SpaceOK(as[p]) /\ as[p] # NoSpace /\ free \cap PagesIn(as[p]) = {}
        /\ PagesIn(as[p]) \cap PagesIn(job[p].space) = {}
    BY Actor
  <1>2. Updates(p, as[p], k)
    BY AsUpdates DEF Updates, Goto
  <1>3. Fit(p, as[p], k)
    BY <1>1 DEF Fit, JobFit
  <1>4. Redealt(p, as[p], k)
    BY <1>1 DEF Redealt, Dealt, CallDealt
  <1> QED
    BY <1>2, <1>3, <1>4, OwnActor

\* A call that is over and has nothing left.
LEMMA EndFit ==
  ASSUME OwnInv, NEW p \in Procs, Goto(p, Idle)
  PROVE  JobFit(p, Idle) /\ PagesIn(Idle.space) = {} /\ job'[p] = Idle
  <1>1. job'[p] = Idle
    BY DEF Goto, OwnInv, Typed
  <1>2. /\ JobOK(p)' /\ SpaceOK(Idle.space) /\ ~Forking(p)' /\ Idle \in JobType
        /\ PagesIn(Idle.space) = {}
    BY <1>1, IdleOK
  <1> QED
    BY <1>1, <1>2 DEF JobFit

\* The contents of freed pages and what stays the same.
LEMMA RestJunked ==
  ASSUME OwnInv, NEW S, content' = Junked(S), sz' = sz, tabfailed' = tabfailed
  PROVE  RestTyped
  <1>1. Typed
    BY DEF OwnInv
  <1>2. content' \in [Pages -> Values]
    BY <1>1, JunkedType
  <1> QED
    BY <1>1, <1>2 DEF RestTyped, Typed

\* exec gives up.
LEMMA OwnBad ==
  ASSUME OwnInv, NEW p \in Procs, state[p] = "RUNNING", job[p].space # NoSpace, Bad(p)
  PROVE  OwnInv'
  <1>1. SpaceOK(job[p].space)
    BY Actor
  <1>2. freevm(job[p].space) = PagesIn(job[p].space)
    BY <1>1, FreeVm
  <1>3. free' = free \cup PagesIn(job[p].space) /\ Goto(p, Idle)
    BY <1>2 DEF Bad, Leave
  <1>4. JobFit(p, Idle) /\ PagesIn(Idle.space) = {}
    BY <1>3, EndFit
  <1>5. RestTyped
    BY RestJunked DEF Bad
  <1>6. CallDealt(p, Idle)
    BY <1>3, <1>4 DEF CallDealt
  <1>7. UNCHANGED <<state, kstack, as, cr3>>
    BY DEF Bad
  <1> QED
    BY <1>3, <1>4, <1>5, <1>6, <1>7, OwnCall

\* allocuvm gives back what it has allocated.
LEMMA OwnAllocFail ==
  ASSUME OwnInv, NEW p \in Procs, alloc_fail(p)
  PROVE  OwnInv'
  <1> DEFINE j == job[p]
             s == Target(p)
             d == deallocuvm(s, j.new, j.old)
             freed == d.freed \cup IF j.next = "grown" THEN {} ELSE freevm(d.space)
  <1>1. /\ Running(p, "alloc") /\ j.a * PGSIZE < j.new
        /\ as' = IF j.next = "grown" THEN [as EXCEPT ![p] = d.space] ELSE as
        /\ free' = free \cup freed
        /\ content' = Junked(freed)
        /\ Goto(p, Idle)
        /\ UNCHANGED <<state, parent, kstack, sz, cr3, want, damaged, tabfailed, halted, calls>>
    BY DEF alloc_fail
  <1>2. /\ state[p] = "RUNNING" /\ j.new \in Nat /\ j.old \in Nat /\ j.new < KERNBASE
        /\ SpaceOK(s) /\ s # NoSpace /\ free \cap PagesIn(s) = {}
        /\ (Growing(p) <=> j.next = "grown")
    BY <1>1, AllocPage
  <1>3. /\ SpaceOK(as[p]) /\ as[p] # NoSpace /\ SpaceOK(j.space) /\ JobOK(p)
        /\ PagesIn(as[p]) \cap PagesIn(j.space) = {}
    BY <1>2, Actor
  <1>4. Unmapped(s, Scanned(s, j.new, j.old), d)
    <2>1. d = deallocuvm(s, j.new, j.old) /\ j.new \in 0 .. KERNBASE
      BY <1>2, Sizes
    <2> HIDE DEF d, s, j
    <2> QED
      BY <1>2, <2>1, Dealloc
  <1>5. /\ SpaceOK(d.space) /\ d.space # NoSpace /\ d.space.dir = s.dir
        /\ PagesIn(d.space) \cap d.freed = {} /\ PagesIn(d.space) \cup d.freed = PagesIn(s)
    <2> HIDE DEF d, s, j
    <2> QED
      BY <1>4 DEF Unmapped
  <1>6. JobFit(p, Idle) /\ PagesIn(Idle.space) = {}
    BY <1>1, EndFit
  <1>7. RestTyped
    <2> HIDE DEF d, s, j, freed
    <2> QED
      BY <1>1, RestJunked
  <1>8. s = IF j.next = "grown" THEN as[p] ELSE j.space
    BY DEF Target
  <1>9. freed = d.freed \cup IF j.next = "grown" THEN {} ELSE freevm(d.space)
    OBVIOUS
  <1>10. CASE j.next = "grown"
    <2>1. j.space = NoSpace /\ PagesIn(j.space) = {}
      BY <1>2, <1>3, <1>10, NoSpaceIs DEF JobOK
    <2>2. j = job[p]
      OBVIOUS
    <2> HIDE DEF d, s, j, freed
    <2>3. cr3' = [cr3 EXCEPT ![p] = d.space.dir]
      BY <1>1, <1>2, <1>5, <1>8, <1>10, AsUpdates
    <2>4. Updates(p, d.space, Idle)
      BY <1>1, <1>2, <1>10, <2>3 DEF Updates, Goto
    <2>5. Fit(p, d.space, Idle)
      BY <1>5, <1>6 DEF Fit, JobFit
    <2>6. Redealt(p, d.space, Idle)
      BY <1>1, <1>2, <1>5, <1>6, <1>8, <1>9, <1>10, <2>1, <2>2 DEF Redealt, Dealt
    <2> QED
      BY <1>7, <2>4, <2>5, <2>6, OwnActor
  <1>11. CASE j.next # "grown"
    <2>1. j = job[p]
      OBVIOUS
    <2> HIDE DEF d, s, j, freed
    <2>2. freevm(d.space) = PagesIn(d.space)
      BY <1>5, FreeVm
    <2>3. free' = free \cup PagesIn(j.space)
      BY <1>1, <1>5, <1>8, <1>9, <1>11, <2>2
    <2>4. CallDealt(p, Idle)
      BY <1>6, <2>1, <2>3 DEF CallDealt
    <2>5. UNCHANGED <<state, kstack, as, cr3>>
      BY <1>1, <1>11
    <2> QED
      BY <1>1, <1>2, <1>6, <1>7, <2>4, <2>5, OwnCall
  <1> QED
    BY <1>10, <1>11

\* growproc has grown.
LEMMA OwnGrown ==
  ASSUME OwnInv, NEW p \in Procs, grown(p)
  PROVE  OwnInv'
  <1>1. /\ state[p] = "RUNNING" /\ job[p].pc = "alloc" /\ job[p].next = "grown"
        /\ sz' = [sz EXCEPT ![p] = job[p].new] /\ Goto(p, Idle)
        /\ UNCHANGED <<free, content, state, parent, kstack, as, cr3, tabfailed, halted, calls>>
    BY DEF grown, Running
  <1>2. JobOK(p) /\ job[p] \in JobType
    BY <1>1, Actor
  <1>3. job[p].new \in 0 .. KERNBASE - 1
    BY <1>1, <1>2, Sizes DEF JobOK, JobType
  <1>4. RestTyped
    BY <1>1, <1>3 DEF RestTyped, OwnInv, Typed
  <1>5. job[p].space = NoSpace /\ PagesIn(job[p].space) = {}
    BY <1>1, <1>2, NoSpaceIs DEF JobOK, Growing
  <1>6. JobFit(p, Idle) /\ PagesIn(Idle.space) = {}
    BY <1>1, EndFit
  <1>7. CallDealt(p, Idle)
    BY <1>1, <1>5, <1>6 DEF CallDealt
  <1> QED
    BY <1>1, <1>4, <1>6, <1>7, OwnCall

\* What a process that makes a call is in.
LEMMA AtUser ==
  ASSUME OwnInv, NEW p \in Procs, Running(p, "user")
  PROVE  state[p] = "RUNNING" /\ job[p] = Idle /\ job[p].space = NoSpace /\ PagesIn(job[p].space) = {}
  <1>1. state[p] = "RUNNING" /\ job[p].pc = "user"
    BY DEF Running
  <1>2. JobOK(p)
    BY <1>1, Actor
  <1>3. job[p] = Idle
    BY <1>1, <1>2 DEF JobOK
  <1>4. Idle.space = NoSpace
    BY DEF Idle
  <1> QED
    BY <1>1, <1>3, <1>4, NoSpaceIs

\* The fields of the idle job.
LEMMA IdleIs ==
  /\ Idle \in JobType /\ Idle.pc = "user" /\ Idle.space = NoSpace /\ Idle.np = "none"
  /\ Idle.old = 0 /\ Idle.new = 0 /\ Idle.a = 0 /\ Idle.next = "none" /\ Idle.hole = FALSE /\ Idle.segs = <<>>
  <1>1. NoSpace \in SpaceType
    BY NoSpaceIs DEF SpaceOK
  <1>2. <<>> \in Seq(Segment)
    BY EmptySeq
  <1>3. Idle \in JobType
    BY <1>1, <1>2 DEF Idle, JobType
  <1> QED
    BY <1>3 DEF Idle

\* exec sets up an address space.
LEMMA OwnExec ==
  ASSUME OwnInv, NEW p \in Procs, NEW img \in Images, exec(p, img)
  PROVE  OwnInv'
  <1> DEFINE k == setupkvm(free)
             l == [Idle EXCEPT !.pc = "segs", !.space = k.space, !.segs = img]
  <1>1. /\ Running(p, "user")
        /\ free' = k.free
        /\ tabfailed' = (tabfailed \/ ~CanSetup(free))
        /\ Goto(p, IF CanSetup(free) THEN l ELSE Idle)
        /\ UNCHANGED <<content, state, parent, kstack, as, sz, cr3, want, damaged, halted>>
    BY DEF exec, Called
  <1>2. state[p] = "RUNNING" /\ job[p] = Idle /\ PagesIn(job[p].space) = {}
    BY <1>1, AtUser
  <1>3. Typed
    BY DEF OwnInv
  <1>4. RestTyped
    BY <1>1, <1>3 DEF RestTyped, Typed
  <1>5. UNCHANGED <<state, kstack, as, cr3>>
    BY <1>1
  <1>6. CASE CanSetup(free)
    <2>1. SetUp(free, k)
      BY <1>3, <1>6, SetupKvm DEF Typed
    <2>2. img \in Seq(Segment) /\ k.space \in SpaceType
      BY <2>1, ImageAssumption DEF SetUp, SpaceOK
    <2>3. Goto(p, l)
      BY <1>1, <1>6
    <2>4. l = [Idle EXCEPT !.pc = "segs", !.space = k.space, !.segs = img]
      OBVIOUS
    <2> HIDE DEF k, l
    <2>5. l \in JobType /\ l.pc = "segs" /\ l.space = k.space /\ l.old = 0
      BY <2>2, <2>4, IdleIs DEF JobType
    <2>6. job'[p] = l
      BY <1>3, <2>3 DEF Goto, Typed
    <2>7. JobOK(p)' /\ ~Forking(p)'
      BY <2>1, <2>5, <2>6, Sizes DEF SetUp, JobOK, Forking, Growing
    <2>8. JobFit(p, l)
      BY <2>1, <2>5, <2>7 DEF JobFit, SetUp
    <2>9. CallDealt(p, l)
      BY <1>1, <1>2, <2>1, <2>5 DEF CallDealt, SetUp
    <2> QED
      BY <1>2, <1>4, <1>5, <2>3, <2>8, <2>9, OwnCall
  <1>7. CASE ~CanSetup(free)
    <2>1. free' = {} /\ Goto(p, Idle) /\ tabfailed'
      BY <1>1, <1>7 DEF setupkvm
    <2>2. JobFit(p, Idle) /\ PagesIn(Idle.space) = {}
      BY <2>1, EndFit
    <2>3. CallDealt(p, Idle)
      BY <2>1, <2>2 DEF CallDealt
    <2> QED
      BY <1>2, <1>4, <1>5, <2>1, <2>2, <2>3, OwnCall
  <1> QED
    BY <1>6, <1>7

\* The sizes that exec_next hands to allocuvm.
LEMMA ExecSize ==
  ASSUME NEW j \in JobType, j.pc = "segs", j.old < KERNBASE,
         NEW new, new = IF j.segs = <<>> THEN (PGROUNDUP(j.old) + 2) * PGSIZE
                        ELSE SegmentEnd(j.segs[1])
  PROVE  /\ new \in Nat /\ j.old \in Nat
         /\ Fits(new) => NewSize(j.old, new) < KERNBASE
         /\ j.segs = <<>> => NewSize(j.old, new) = new
  <1>1. j.old \in Nat /\ j.segs \in Seq(Segment)
    BY DEF JobType
  <1>2. new \in Nat
    <2>1. CASE j.segs = <<>>
      <3>0. PGROUNDUP(j.old) \in Nat
        BY <1>1, RoundUp
      <3>1. PGROUNDUP(j.old) + 2 \in Nat
        BY <3>0
      <3> QED
        BY <2>1, <3>1, RoundWhole
    <2>2. CASE j.segs # <<>>
      <3>1. j.segs[1] \in Segment
        <4>1. Len(j.segs) >= 1 /\ Len(j.segs) \in Nat
          BY <1>1, <2>2, EmptySeq, LenProperties
        <4>2. 1 \in 1 .. Len(j.segs)
          BY <4>1
        <4> QED
          BY <1>1, <4>2, ElementOfSeq
      <3> DEFINE a == j.segs[1].vaddr + j.segs[1].memsz
                 m == 2 * KERNBASE
      <3>2. a \in Int /\ m \in Nat \ {0}
        BY <3>1, Sizes DEF Segment, Uint
      <3>3. new = a % m
        BY <2>2 DEF SegmentEnd
      <3> HIDE DEF a, m
      <3>4. a % m \in 0 .. m - 1
        BY <3>2, ModRange
      <3> QED
        BY <3>2, <3>3, <3>4
    <2> QED
      BY <2>1, <2>2
  <1>3. Fits(new) => NewSize(j.old, new) < KERNBASE
    BY DEF Fits, NewSize
  <1>4. ASSUME j.segs = <<>> PROVE NewSize(j.old, new) = new
    <2> DEFINE r == PGROUNDUP(j.old)
    <2>1. r \in Nat /\ ~(r * PGSIZE < j.old)
      BY <1>1, RoundUp
    <2>2. (r + 2) * PGSIZE = r * PGSIZE + 2 * PGSIZE /\ r * PGSIZE \in Nat
      <3> HIDE DEF r
      <3> QED
        BY <2>1, Sizes
    <2>3. new = r * PGSIZE + 2 * PGSIZE
      BY <1>4, <2>2
    <2>4. PGSIZE \in Nat
      BY Sizes
    <2> DEFINE x == r * PGSIZE
    <2>5. ~(new < j.old)
      <3>1. x \in Nat /\ ~(x < j.old) /\ new = x + 2 * PGSIZE
        BY <2>1, <2>2, <2>3
      <3> HIDE DEF x
      <3> QED
        BY <1>1, <2>4, <3>1
    <2> QED
      BY <2>5 DEF NewSize
  <1> QED
    BY <1>1, <1>2, <1>3, <1>4

\* exec goes to the next segment, or to the stack.
LEMMA OwnExecNext ==
  ASSUME OwnInv, NEW p \in Procs, exec_next(p)
  PROVE  OwnInv'
  <1> DEFINE j == job[p]
             new == IF j.segs = <<>> THEN (PGROUNDUP(j.old) + 2) * PGSIZE
                    ELSE SegmentEnd(j.segs[1])
             next == IF j.segs = <<>> THEN "stack" ELSE "load"
             k == Allocate(j, j.old, new, next)
  <1>1. state[p] = "RUNNING" /\ j.pc = "segs"
    BY DEF exec_next, Running
  <1>2. SpaceOK(j.space) /\ JobOK(p) /\ j \in JobType
    BY <1>1, Actor
  <1>3. j.space # NoSpace /\ j.old < KERNBASE
    BY <1>1, <1>2 DEF JobOK
  <1>4. CASE Bad(p)
    BY <1>1, <1>3, <1>4, OwnBad
  <1>5. CASE /\ Fits(new) /\ Goto(p, k)
             /\ UNCHANGED <<free, content, state, parent, kstack, as, sz, cr3, want,
                            damaged, tabfailed, halted, calls>>
    <2>0. /\ new = (IF j.segs = <<>> THEN (PGROUNDUP(j.old) + 2) * PGSIZE
                    ELSE SegmentEnd(j.segs[1]))
          /\ j = job[p] /\ k = Allocate(j, j.old, new, next)
      OBVIOUS
    <2>1. next \in {"stack", "load"} /\ (next = "stack" <=> j.segs = <<>>)
      OBVIOUS
    <2> HIDE DEF j, new, next, k
    <2>2. /\ new \in Nat /\ j.old \in Nat
          /\ Fits(new) => NewSize(j.old, new) < KERNBASE
          /\ j.segs = <<>> => NewSize(j.old, new) = new
      BY <1>1, <1>2, <1>3, <2>0, ExecSize
    <2>3. AllocateJob(j, j.old, new, next, k)
      BY <1>2, <2>0, <2>1, <2>2, AllocateIs
    <2>4. job'[p] = k
      BY <1>5 DEF Goto, OwnInv, Typed
    <2>5. JobOK(p)' /\ ~Forking(p)'
      BY <1>3, <1>5, <2>0, <2>1, <2>2, <2>3, <2>4 DEF AllocateJob, JobOK, Forking, Growing
    <2>6. JobFit(p, k)
      BY <1>2, <2>3, <2>5 DEF JobFit, AllocateJob
    <2>7. RestTyped
      BY <1>5 DEF RestTyped, OwnInv, Typed
    <2>8. free \cap PagesIn(job[p].space) = {}
      BY <1>1, Actor
    <2>9. CallDealt(p, k)
      BY <1>5, <2>0, <2>3, <2>8 DEF CallDealt, AllocateJob
    <2> QED
      BY <1>1, <1>5, <2>6, <2>7, <2>9, OwnCall
  <1> QED
    BY <1>4, <1>5 DEF exec_next

\* exec reads a segment.
LEMMA OwnLoad ==
  ASSUME OwnInv, NEW p \in Procs, loaduvm(p)
  PROVE  OwnInv'
  <1> DEFINE j == job[p]
             V == LoadPages(j.segs[1])
             k == [j EXCEPT !.pc = "segs", !.segs = Tail(@), !.old = j.new]
  <1>1. state[p] = "RUNNING" /\ j.pc = "alloc" /\ j.next = "load"
    BY DEF loaduvm, Running
  <1>2. SpaceOK(j.space) /\ JobOK(p) /\ j \in JobType /\ free \cap PagesIn(j.space) = {}
    BY <1>1, Actor
  <1>3. j.space # NoSpace /\ j.new < KERNBASE /\ j.segs # <<>>
    BY <1>1, <1>2 DEF JobOK, Growing
  <1>4. CASE Halt(p, Malformed(j.segs[1]))
    BY <1>4, OwnHalt
  <1>5. CASE Bad(p)
    BY <1>1, <1>3, <1>5, OwnBad
  <1>6. CASE /\ content' = [q \in Pages |-> IF q \in UserPages(j.space, V) THEN "text" ELSE content[q]]
             /\ Goto(p, k)
             /\ UNCHANGED <<free, state, parent, kstack, as, sz, cr3, want, damaged,
                            tabfailed, halted, calls>>
    <2>1. Typed
      BY DEF OwnInv
    <2>2. content' \in [Pages -> Values]
      <3> HIDE DEF V, j
      <3> QED
        BY <1>6, <2>1 DEF Typed, Values
    <2>3. RestTyped
      BY <1>6, <2>1, <2>2 DEF RestTyped, Typed
    <2>4. Tail(j.segs) \in Seq(Segment) /\ j.new \in Nat
      BY <1>2, <1>3, HeadTailProperties DEF JobType
    <2>5. k = [j EXCEPT !.pc = "segs", !.segs = Tail(j.segs), !.old = j.new] /\ j = job[p]
      OBVIOUS
    <2> HIDE DEF V, j, k
    <2>6. k \in JobType /\ k.pc = "segs" /\ k.space = j.space /\ k.old = j.new
      BY <1>2, <2>4, <2>5 DEF JobType
    <2>7. job'[p] = k
      BY <1>6, <2>1 DEF Goto, Typed
    <2>8. JobOK(p)' /\ ~Forking(p)'
      BY <1>3, <2>6, <2>7 DEF JobOK, Forking, Growing
    <2>9. JobFit(p, k)
      BY <1>2, <2>6, <2>8 DEF JobFit
    <2>10. CallDealt(p, k)
      BY <1>2, <1>6, <2>5, <2>6 DEF CallDealt
    <2> QED
      BY <1>1, <1>6, <2>3, <2>9, <2>10, OwnCall
  <1> QED
    BY <1>4, <1>5, <1>6 DEF loaduvm

\* The page under the stack.
LEMMA GuardPage ==
  ASSUME NEW j \in JobType, j.new < KERNBASE, j.new = (PGROUNDUP(j.old) + 2) * PGSIZE
  PROVE  /\ PGROUNDUP(j.old) \in Nat /\ j.new \in Nat
         /\ PGROUNDUP(j.new) = PGROUNDUP(j.old) + 2
         /\ PGROUNDUP(j.new) - 2 \in VPages /\ PGROUNDUP(j.new) - 1 \in VPages
  <1> DEFINE r == PGROUNDUP(j.old)
  <1>1. j.old \in Nat /\ j.new \in Nat
    BY DEF JobType
  <1>2. r \in Nat
    BY <1>1, RoundUp
  <1> HIDE DEF r
  <1>3. r + 2 \in Nat /\ PGROUNDUP((r + 2) * PGSIZE) = r + 2
    BY <1>2, RoundWhole
  <1>4. PGROUNDUP(j.new) = r + 2
    BY <1>3 DEF r
  <1>5. r * PGSIZE < KERNBASE /\ (r + 1) * PGSIZE < KERNBASE
    <2>1. /\ (r + 2) * PGSIZE = r * PGSIZE + 2 * PGSIZE /\ (r + 1) * PGSIZE = r * PGSIZE + PGSIZE
          /\ r * PGSIZE \in Nat
      BY <1>2, Sizes
    <2> DEFINE x == r * PGSIZE
    <2>2. x \in Nat /\ x + 2 * PGSIZE < KERNBASE
      BY <2>1 DEF r
    <2>3. PGSIZE \in Nat /\ KERNBASE \in Nat
      BY Sizes
    <2>4. x < KERNBASE /\ x + PGSIZE < KERNBASE
      <3> HIDE DEF x
      <3> QED
        BY <2>2, <2>3
    <2> QED
      BY <2>1, <2>4
  <1>6. r \in VPages /\ r + 1 \in VPages
    BY <1>2, <1>5, VPagesAre
  <1>7. PGROUNDUP(j.new) - 2 = r /\ PGROUNDUP(j.new) - 1 = r + 1
    BY <1>2, <1>4
  <1> QED
    BY <1>1, <1>2, <1>4, <1>6, <1>7 DEF r

\* exec closes the page under the stack.
LEMMA OwnClear ==
  ASSUME OwnInv, NEW p \in Procs, clearpteu(p)
  PROVE  OwnInv'
  <1> DEFINE j == job[p]
             g == PGROUNDUP(j.new) - 2
             s == Guarded(j.space, g)
             k == [j EXCEPT !.pc = "args", !.space = s]
  <1>1. state[p] = "RUNNING" /\ j.pc = "alloc" /\ j.next = "stack"
    BY DEF clearpteu, Running
  <1>2. SpaceOK(j.space) /\ JobOK(p) /\ j \in JobType /\ free \cap PagesIn(j.space) = {}
    BY <1>1, Actor
  <1>3. /\ j.space # NoSpace /\ j.new < KERNBASE /\ j.old <= j.new
        /\ j.new = (PGROUNDUP(j.old) + 2) * PGSIZE
    BY <1>1, <1>2 DEF JobOK, Growing
  <1>4. CASE Halt(p, FALSE)
    BY <1>4, OwnHalt
  <1>5. CASE /\ Goto(p, k)
             /\ UNCHANGED <<free, content, state, parent, kstack, as, sz, cr3, want,
                            damaged, tabfailed, halted, calls>>
    <2>1. Typed
      BY DEF OwnInv
    <2>2. RestTyped
      BY <1>5, <2>1 DEF RestTyped, Typed
    <2>3. g \in VPages
      <3> HIDE DEF j
      <3> QED
        BY <1>2, <1>3, GuardPage
    <2>4. k = [j EXCEPT !.pc = "args", !.space = s] /\ j = job[p] /\ s = Guarded(j.space, g)
      OBVIOUS
    <2> HIDE DEF j, g, s, k
    <2>5. SpaceOK(s) /\ s # NoSpace /\ PagesIn(s) = PagesIn(j.space)
      BY <1>2, <1>3, <2>3, <2>4, Guard
    <2>6. s \in SpaceType
      BY <2>5 DEF SpaceOK
    <2>7. k \in JobType /\ k.pc = "args" /\ k.space = s /\ k.old = j.old /\ k.new = j.new
      BY <1>2, <2>4, <2>6 DEF JobType
    <2>8. job'[p] = k
      BY <1>5, <2>1 DEF Goto, Typed
    <2>9. JobOK(p)' /\ ~Forking(p)'
      BY <1>3, <2>5, <2>7, <2>8 DEF JobOK, Forking, Growing
    <2>10. JobFit(p, k)
      BY <2>5, <2>7, <2>9 DEF JobFit
    <2>11. CallDealt(p, k)
      BY <1>2, <1>5, <2>4, <2>5, <2>7 DEF CallDealt
    <2> QED
      BY <1>1, <1>5, <2>2, <2>10, <2>11, OwnCall
  <1> QED
    BY <1>4, <1>5 DEF clearpteu

\* exec copies the arguments and changes over to the new address space.
LEMMA OwnArgs ==
  ASSUME OwnInv, NEW p \in Procs, NEW n \in ArgSizes, exec_args(p, n)
  PROVE  OwnInv'
  <1> DEFINE j == job[p]
             top == j.space.pte[PGROUNDUP(j.new) - 1].pa
             k == [Idle EXCEPT !.pc = "freevm", !.space = as[p]]
  <1>1. state[p] = "RUNNING" /\ j.pc = "args"
    BY DEF exec_args, Running
  <1>2. /\ SpaceOK(j.space) /\ JobOK(p) /\ j \in JobType /\ free \cap PagesIn(j.space) = {}
        /\ SpaceOK(as[p]) /\ as[p] # NoSpace /\ free \cap PagesIn(as[p]) = {}
        /\ PagesIn(as[p]) \cap PagesIn(j.space) = {}
    BY <1>1, Actor
  <1>3. j.space # NoSpace /\ j.new < KERNBASE
    BY <1>1, <1>2 DEF JobOK
  <1>4. CASE Halt(p, FALSE)
    BY <1>4, OwnHalt
  <1>5. CASE Bad(p)
    BY <1>1, <1>3, <1>5, OwnBad
  <1>6. CASE /\ content' = [content EXCEPT ![top] = "args"]
             /\ as' = [as EXCEPT ![p] = j.space]
             /\ sz' = [sz EXCEPT ![p] = j.new]
             /\ switchuvm(p, j.space)
             /\ Goto(p, k)
             /\ UNCHANGED <<free, state, parent, kstack, tabfailed, halted, calls>>
    <2>1. Typed
      BY DEF OwnInv
    <2>2. j.new \in 0 .. KERNBASE - 1
      BY <1>2, <1>3, Sizes DEF JobType
    <2>3. k = [Idle EXCEPT !.pc = "freevm", !.space = as[p]] /\ j = job[p]
      OBVIOUS
    <2> HIDE DEF j, top, k
    <2>4. content' \in [Pages -> Values]
      BY <1>6, <2>1 DEF Typed, Values
    <2>5. RestTyped
      BY <1>6, <2>1, <2>2, <2>4 DEF RestTyped, Typed
    <2>6. as[p] \in SpaceType
      BY <1>2 DEF SpaceOK
    <2>7. k \in JobType /\ k.pc = "freevm" /\ k.space = as[p]
      BY <2>3, <2>6, IdleIs DEF JobType
    <2>8. job'[p] = k
      BY <1>6, <2>1 DEF Goto, Typed
    <2>9. JobOK(p)' /\ ~Forking(p)'
      BY <1>2, <2>7, <2>8 DEF JobOK, Forking, Growing
    <2>10. Updates(p, j.space, k)
      BY <1>1, <1>6 DEF Updates, switchuvm, Goto
    <2>11. Fit(p, j.space, k)
      BY <1>2, <1>3, <2>7, <2>9 DEF Fit
    <2>12. Redealt(p, j.space, k)
      BY <1>2, <1>6, <2>3, <2>7 DEF Redealt, Dealt
    <2> QED
      BY <2>5, <2>10, <2>11, <2>12, OwnActor
  <1> QED
    BY <1>4, <1>5, <1>6 DEF exec_args

\* exec frees the old address space.
LEMMA OwnFreevm ==
  ASSUME OwnInv, NEW p \in Procs, exec_freevm(p)
  PROVE  OwnInv'
  <1>1. state[p] = "RUNNING" /\ job[p].pc = "freevm" /\ Bad(p)
    BY DEF exec_freevm, Running
  <1>2. JobOK(p)
    BY <1>1, Actor
  <1>3. job[p].space # NoSpace
    BY <1>1, <1>2 DEF JobOK
  <1> QED
    BY <1>1, <1>3, OwnBad

\* The user, or the kernel for him, writes to his memory.
LEMMA OwnWritten ==
  ASSUME OwnInv, NEW p \in Procs, NEW V, NEW Z, Running(p, "user"), Written(p, V, Z)
  PROVE  OwnInv'
  <1>1. state[p] = "RUNNING" /\ Typed
    BY DEF Running, OwnInv
  <1>2. UNCHANGED <<free, state, kstack, as, sz, cr3, job, tabfailed>>
    BY DEF Written
  <1>3. content' \in [Pages -> Values]
    BY <1>1 DEF Written, Typed, Values
  <1>4. RestTyped
    BY <1>1, <1>2, <1>3 DEF RestTyped, Typed
  <1>5. /\ SpaceOK(job[p].space) /\ JobOK(p) /\ job[p] \in JobType /\ free \cap PagesIn(job[p].space) = {}
    BY <1>1, Actor
  <1>6. JobOK(p)' /\ (Forking(p)' => Forking(p))
    BY <1>2, <1>5 DEF JobOK, Forking, Growing
  <1>7. JobFit(p, job[p])
    BY <1>5, <1>6 DEF JobFit
  <1>8. Goto(p, job[p])
    BY <1>1, <1>2, AsUpdates DEF Goto
  <1>9. CallDealt(p, job[p])
    BY <1>2, <1>5 DEF CallDealt
  <1> QED
    BY <1>1, <1>2, <1>4, <1>7, <1>8, <1>9, OwnCall

\* A step of p that changes the slot q too.
LEMMA TwoSlots ==
  ASSUME OwnInv, NEW p \in Procs, NEW q \in Procs, ProcOK(p)', ProcOK(q)',
         \A r \in Procs \ {p, q} : /\ as'[r] = as[r] /\ state'[r] = state[r]
                                   /\ kstack'[r] = kstack[r] /\ cr3'[r] = cr3[r],
         \A r \in Procs \ {p} : job'[r] = job[r],
         \A r \in Procs \ {p, q} : Forking(r) => state'[job[r].np] = "EMBRYO",
         Forking(p)' => \A r \in Procs \ {p} : Forking(r) => job[r].np # job'[p].np
  PROVE  (\A r \in Procs : ProcOK(r)') /\ OneChild'
  <1>1. (\A r \in Procs : ProcOK(r)) /\ OneChild
    BY DEF OwnInv
  <1>2. ASSUME NEW r \in Procs PROVE ProcOK(r)'
    <2>1. CASE r \in {p, q}
      BY <2>1
    <2>2. CASE r \notin {p, q}
      <3>1. /\ as'[r] = as[r] /\ state'[r] = state[r] /\ kstack'[r] = kstack[r] /\ cr3'[r] = cr3[r]
            /\ job'[r] = job[r] /\ (Forking(r) => state'[job[r].np] = "EMBRYO")
        BY <2>2
      <3> QED
        BY <1>1, <3>1, ProcSame
    <2> QED
      BY <2>1, <2>2
  <1>3. \A r \in Procs \ {p} : (Forking(r)' <=> Forking(r)) /\ job'[r].np = job[r].np
    BY DEF Forking
  <1>4. OneChild'
    <2> SUFFICES ASSUME NEW a \in Procs, NEW b \in Procs, Forking(a)', Forking(b)',
                        job'[a].np = job'[b].np, a # b
                 PROVE  FALSE
      BY DEF OneChild
    <2>1. CASE a # p /\ b # p
      BY <1>1, <1>3, <2>1 DEF OneChild
    <2>2. CASE a = p
      BY <1>3, <2>2
    <2>3. CASE b = p
      BY <1>3, <2>3
    <2> QED
      BY <2>1, <2>2, <2>3
  <1> QED
    BY <1>2, <1>4

\* The child that a fork fills.
LEMMA Child ==
  ASSUME OwnInv, NEW p \in Procs, Forking(p)
  PROVE  /\ job[p].np \in Procs /\ state[job[p].np] = "EMBRYO" /\ state[p] = "RUNNING" /\ p # job[p].np
         /\ as[job[p].np] = NoSpace /\ kstack[job[p].np] # NoPage /\ kstack[job[p].np] \in Pages
         /\ job[job[p].np].pc = "user" /\ job[job[p].np] = Idle
         /\ \A r \in Procs \ {p} : Forking(r) => job[r].np # job[p].np
  <1>1. ProcOK(p) /\ OneChild
    BY DEF OwnInv
  <1>2. job[p].np \in Procs /\ state[job[p].np] = "EMBRYO"
    BY <1>1 DEF ProcOK, JobOK
  <1>3. state[p] = "RUNNING"
    BY <1>1 DEF ProcOK, Forking
  <1>4. ProcOK(job[p].np)
    BY <1>2 DEF OwnInv
  <1>5. /\ as[job[p].np] = NoSpace /\ kstack[job[p].np] # NoPage /\ job[job[p].np].pc = "user"
        /\ JobOK(job[p].np)
    BY <1>2, <1>4 DEF ProcOK
  <1>6. kstack[job[p].np] \in Pages
    BY <1>2, <1>5 DEF OwnInv, Typed, Frames
  <1>7. job[job[p].np] = Idle
    BY <1>5 DEF JobOK
  <1> QED
    BY <1>1, <1>2, <1>3, <1>5, <1>6, <1>7 DEF OneChild

\* fork takes a slot and a kernel stack.
LEMMA OwnFork ==
  ASSUME OwnInv, NEW p \in Procs, NEW np \in Procs, fork(p, np)
  PROVE  OwnInv'
  <1> DEFINE q == kalloc(free)
             k == [Idle EXCEPT !.pc = "setup", !.np = np]
  <1>1. /\ Running(p, "user") /\ state[np] = "UNUSED" /\ free # {}
        /\ kstack' = [kstack EXCEPT ![np] = q]
        /\ free' = free \ {q}
        /\ state' = [state EXCEPT ![np] = "EMBRYO"]
        /\ Goto(p, k)
        /\ UNCHANGED <<content, parent, as, sz, cr3, want, damaged, tabfailed, halted>>
    BY DEF fork, Called
  <1>2. Typed /\ (\A r \in Procs : ProcOK(r)) /\ OneChild /\ HeldOnce /\ AllHeld
    BY DEF OwnInv
  <1>3. state[p] = "RUNNING" /\ job[p] = Idle /\ job[p].space = NoSpace /\ p # np
    BY <1>1, AtUser
  <1>4. q \in free /\ q \in Pages /\ q # NoPage
    BY <1>1, <1>2, Kalloc DEF Typed
  <1>5. k \in JobType /\ k.pc = "setup" /\ k.space = NoSpace /\ k.np = np
    BY IdleIs DEF JobType
  <1> HIDE DEF q, k
  <1>6. /\ job'[p] = k /\ \A r \in Procs \ {p} : job'[r] = job[r]
        /\ state'[np] = "EMBRYO" /\ \A r \in Procs \ {np} : state'[r] = state[r]
        /\ kstack'[np] = q /\ \A r \in Procs \ {np} : kstack'[r] = kstack[r]
    BY <1>1, <1>2 DEF Goto, Typed
  <1>7. Typed'
    <2>1. q \in Frames
      BY <1>4, PageNumbers
    <2> QED
      BY <1>1, <1>2, <1>5, <2>1 DEF Typed, Goto
  <1>8. ProcOK(p)'
    <2>1. /\ SpaceOK(as[p]) /\ as[p] # NoSpace /\ cr3[p] = as[p].dir /\ kstack[p] # NoPage
      BY <1>2, <1>3 DEF ProcOK
    <2>2. JobOK(p)' /\ SpaceOK(job'[p].space)
      BY <1>5, <1>6, NoSpaceIs DEF JobOK, Growing, Forking
    <2> QED
      BY <1>1, <1>3, <1>6, <2>1, <2>2 DEF ProcOK
  <1>9. ProcOK(np)'
    <2>1. /\ as[np] = NoSpace /\ job[np].pc = "user" /\ JobOK(np) /\ SpaceOK(as[np]) /\ SpaceOK(job[np].space)
      BY <1>1, <1>2 DEF ProcOK
    <2>2. job'[np] = job[np] /\ as'[np] = as[np]
      BY <1>1, <1>3, <1>6
    <2>3. JobOK(np)'
      BY <2>1, <2>2 DEF JobOK, Forking, Growing
    <2> QED
      BY <1>4, <1>6, <2>1, <2>2, <2>3 DEF ProcOK
  <1>10. \A r \in Procs : Forking(r) => job[r].np # np /\ state'[job[r].np] = "EMBRYO"
    <2> SUFFICES ASSUME NEW r \in Procs, Forking(r) PROVE job[r].np # np /\ state'[job[r].np] = "EMBRYO"
      OBVIOUS
    <2>1. job[r].np \in Procs /\ state[job[r].np] = "EMBRYO"
      BY Child
    <2> QED
      BY <1>1, <1>6, <2>1
  <1>11. (\A r \in Procs : ProcOK(r)') /\ OneChild'
    BY <1>1, <1>5, <1>6, <1>8, <1>9, <1>10, TwoSlots
  <1>12. HeldOnce' /\ AllHeld'
    <2> DEFINE f == FreeList
               t == <<"stack", np>>
    <2>1. f \in Holders /\ t \in Holders /\ f # t
      BY HeldIs, HoldersDiffer DEF HeldAt
    <2>2. kstack[np] = NoPage
      BY <1>1, <1>2 DEF ProcOK
    <2>3. Held[f] = free /\ Held[t] = {}
      BY <2>2, HeldIs DEF HeldAt
    <2>4. Held'[f] = free \ {q} /\ Held'[t] = {q}
      BY <1>1, <1>4, <1>6, HeldNext DEF HeldAt
    <2>5. \A h \in Holders \ {f, t} : Held'[h] = Held[h]
      <3> DEFINE X == {f, t}
      <3>1. /\ FreeList \in X
            /\ \A r \in Procs : kstack'[r] = kstack[r] \/ <<"stack", r>> \in X
            /\ \A r \in Procs : as'[r] = as[r]
            /\ \A r \in Procs : job'[r].space = job[r].space
        BY <1>1, <1>3, <1>5, <1>6
      <3> HIDE DEF X
      <3>2. \A h \in Holders \ X : Held'[h] = Held[h]
        BY <3>1, HeldSame
      <3> QED
        BY <3>2 DEF X
    <2> HIDE DEF f, t
    <2>6. Held'[f] \cap Held'[t] = {} /\ Held'[f] \cup Held'[t] = Held[f] \cup Held[t]
      BY <1>4, <2>3, <2>4
    <2> QED
      BY <1>1, <1>2, <2>1, <2>5, <2>6, MovedTwo
  <1> QED
    BY <1>7, <1>11, <1>12 DEF OwnInv

\* fork gives up.
LEMMA OwnForkFails ==
  ASSUME OwnInv, NEW p \in Procs, Forking(p), NEW F, F \subseteq free,
         ForkFails(p, job[p].space, F), F = free \/ tabfailed',
         tabfailed' \in BOOLEAN, tabfailed => tabfailed', NEW np, np = job[p].np
  PROVE  OwnInv'
  <1> DEFINE freed == {kstack[np]} \cup PagesIn(job[p].space)
  <1>1. /\ np \in Procs /\ state[np] = "EMBRYO" /\ state[p] = "RUNNING" /\ p # np
        /\ as[np] = NoSpace /\ kstack[np] # NoPage /\ kstack[np] \in Pages
        /\ job[np] = Idle /\ \A r \in Procs \ {p} : Forking(r) => job[r].np # np
    BY Child
  <1>2. Typed /\ (\A r \in Procs : ProcOK(r)) /\ OneChild /\ HeldOnce /\ AllHeld
    BY DEF OwnInv
  <1>3. /\ SpaceOK(job[p].space) /\ PagesIn(job[p].space) \subseteq Pages
        /\ SpaceOK(as[p]) /\ as[p] # NoSpace /\ cr3[p] = as[p].dir
    BY <1>1, Actor, PagesInAre
  <1>4. freed = {kstack[np]} \cup IF job[p].space = NoSpace THEN {} ELSE freevm(job[p].space)
    BY <1>3, FreeVm, NoSpaceIs
  <1>5. /\ free' = F \cup freed
        /\ content' = Junked(freed)
        /\ kstack' = [kstack EXCEPT ![np] = NoPage]
        /\ state' = [state EXCEPT ![np] = "UNUSED"]
        /\ Goto(p, Idle)
        /\ UNCHANGED <<parent, as, sz, cr3, want, damaged, halted, calls>>
    BY <1>4 DEF ForkFails
  <1>6. /\ JobOK(p)' /\ SpaceOK(Idle.space) /\ ~Forking(p)' /\ Idle \in JobType
        /\ PagesIn(Idle.space) = {} /\ job'[p] = Idle
    <2>1. JobFit(p, Idle) /\ PagesIn(Idle.space) = {} /\ job'[p] = Idle
      BY <1>5, EndFit
    <2> QED
      BY <2>1, IdleOK
  <1>7. \A r \in Procs \ {p} : job'[r] = job[r]
    BY <1>2, <1>5 DEF Goto, Typed
  <1>8. freed \subseteq Pages
    BY <1>1, <1>3
  <1>9. freed = {kstack[np]} \cup PagesIn(job[p].space)
    OBVIOUS
  <1> HIDE DEF freed
  <1>10. /\ state'[np] = "UNUSED" /\ \A r \in Procs \ {np} : state'[r] = state[r]
         /\ kstack'[np] = NoPage /\ \A r \in Procs \ {np} : kstack'[r] = kstack[r]
    BY <1>1, <1>2, <1>5 DEF Typed
  <1>11. Typed'
    <2>1. content' \in [Pages -> Values]
      BY <1>2, <1>5, JunkedType
    <2>2. free' \subseteq Pages
      BY <1>2, <1>5, <1>8 DEF Typed
    <2>3. NoPage \in Frames
      BY DEF Frames
    <2> QED
      BY <1>2, <1>5, <1>6, <2>1, <2>2, <2>3 DEF Typed, Goto
  <1>12. ProcOK(p)'
    <2>1. kstack[p] # NoPage
      BY <1>1, <1>2 DEF ProcOK
    <2> QED
      BY <1>1, <1>3, <1>5, <1>6, <1>10, <2>1 DEF ProcOK
  <1>13. ProcOK(np)'
    <2>1. job'[np] = Idle /\ as'[np] = NoSpace /\ SpaceOK(NoSpace)
      BY <1>1, <1>5, <1>7, NoSpaceIs
    <2>2. JobOK(np)' /\ SpaceOK(job'[np].space) /\ job'[np].pc = "user"
      BY <1>1, <2>1, IdleOK, IdleIs
    <2> QED
      BY <1>10, <2>1, <2>2 DEF ProcOK
  <1>14. \A r \in Procs \ {p} : Forking(r) => state'[job[r].np] = "EMBRYO"
    <2> SUFFICES ASSUME NEW r \in Procs \ {p}, Forking(r) PROVE state'[job[r].np] = "EMBRYO"
      OBVIOUS
    <2>1. job[r].np \in Procs /\ state[job[r].np] = "EMBRYO"
      BY Child
    <2>2. job[r].np # np
      BY <1>1
    <2> QED
      BY <1>10, <2>1, <2>2
  <1>15. (\A r \in Procs : ProcOK(r)') /\ OneChild'
    <2>1. \A r \in Procs \ {p, np} : /\ as'[r] = as[r] /\ state'[r] = state[r]
                                     /\ kstack'[r] = kstack[r] /\ cr3'[r] = cr3[r]
      BY <1>5, <1>10
    <2>2. \A r \in Procs \ {p, np} : Forking(r) => state'[job[r].np] = "EMBRYO"
      BY <1>14
    <2> QED
      BY <1>1, <1>6, <1>7, <1>12, <1>13, <2>1, <2>2, TwoSlots
  <1>16. HeldOnce' /\ AllHeld'
    <2> DEFINE f == FreeList
               t == <<"stack", np>>
               b == <<"job", p>>
    <2>1. f \in Holders /\ t \in Holders /\ b \in Holders /\ f # t /\ f # b /\ t # b
      BY <1>1, HeldIs, HoldersDiffer DEF HeldAt
    <2>2. Held[f] = free /\ Held[t] = {kstack[np]} /\ Held[b] = PagesIn(job[p].space)
      BY <1>1, HeldIs DEF HeldAt
    <2>3. Held'[f] = F \cup freed /\ Held'[t] = {} /\ Held'[b] = {}
      BY <1>1, <1>5, <1>6, <1>10, HeldNext DEF HeldAt
    <2>4. \A h \in Holders \ {f, t, b} : Held'[h] = Held[h]
      <3> DEFINE X == {f, t, b}
      <3>1. /\ FreeList \in X
            /\ \A r \in Procs : kstack'[r] = kstack[r] \/ <<"stack", r>> \in X
            /\ \A r \in Procs : as'[r] = as[r]
            /\ \A r \in Procs : job'[r] = job[r] \/ <<"job", r>> \in X
        BY <1>5, <1>7, <1>10
      <3> HIDE DEF X
      <3>2. \A h \in Holders \ X : Held'[h] = Held[h]
        BY <3>1, HeldSame
      <3> QED
        BY <3>2 DEF X
    <2> HIDE DEF f, t, b
    <2>5. /\ Held'[f] \cap Held'[t] = {} /\ Held'[f] \cap Held'[b] = {} /\ Held'[t] \cap Held'[b] = {}
          /\ Held'[f] \cup Held'[t] \cup Held'[b] \subseteq Held[f] \cup Held[t] \cup Held[b]
          /\ tabfailed' \/ Held'[f] \cup Held'[t] \cup Held'[b] = Held[f] \cup Held[t] \cup Held[b]
      BY <1>9, <2>2, <2>3
    <2> QED
      BY <1>2, <2>1, <2>4, <2>5, MovedThree
  <1> QED
    BY <1>11, <1>15, <1>16 DEF OwnInv

\* copyuvm begins.
LEMMA OwnCopySetup ==
  ASSUME OwnInv, NEW p \in Procs, copy_setup(p)
  PROVE  OwnInv'
  <1> DEFINE k == setupkvm(free)
             l == [job[p] EXCEPT !.pc = "copy", !.space = k.space]
  <1>1. state[p] = "RUNNING" /\ job[p].pc = "setup"
    BY DEF copy_setup, Running
  <1>2. JobOK(p) /\ job[p] \in JobType /\ free \subseteq Pages
    BY <1>1, Actor
  <1>3. job[p].space = NoSpace /\ PagesIn(job[p].space) = {} /\ Forking(p)
    BY <1>1, <1>2, NoSpaceIs DEF JobOK, Forking
  <1>4. job[p].np \in Procs /\ state[job[p].np] = "EMBRYO"
    BY <1>3, Child
  <1>5. Typed
    BY DEF OwnInv
  <1>6. CASE /\ CanSetup(free) /\ free' = k.free
             /\ Goto(p, l)
             /\ UNCHANGED <<content, state, parent, kstack, as, sz, cr3, want,
                            damaged, tabfailed, halted, calls>>
    <2>1. SetUp(free, k)
      BY <1>2, <1>6, SetupKvm
    <2>2. RestTyped
      BY <1>5, <1>6 DEF RestTyped, Typed
    <2>3. l = [job[p] EXCEPT !.pc = "copy", !.space = k.space]
      OBVIOUS
    <2> HIDE DEF k, l
    <2>4. k.space \in SpaceType
      BY <2>1 DEF SetUp, SpaceOK
    <2>5. l \in JobType /\ l.pc = "copy" /\ l.space = k.space /\ l.np = job[p].np
      BY <1>2, <2>3, <2>4 DEF JobType
    <2>6. job'[p] = l
      BY <1>5, <1>6 DEF Goto, Typed
    <2>7. JobOK(p)'
      BY <1>4, <1>6, <2>1, <2>5, <2>6 DEF SetUp, JobOK, Forking, Growing
    <2>8. JobFit(p, l)
      BY <1>3, <2>1, <2>5, <2>7 DEF JobFit, SetUp
    <2>9. CallDealt(p, l)
      BY <1>3, <1>6, <2>1, <2>5 DEF CallDealt, SetUp
    <2> QED
      BY <1>1, <1>6, <2>2, <2>8, <2>9, OwnCall
  <1>7. CASE ~CanSetup(free) /\ tabfailed' = TRUE /\ ForkFails(p, NoSpace, k.free)
    <2>1. k.free = {}
      BY <1>7 DEF setupkvm
    <2> HIDE DEF k
    <2>2. ForkFails(p, job[p].space, {})
      BY <1>3, <1>7, <2>1
    <2>3. {} \subseteq free /\ tabfailed' /\ tabfailed' \in BOOLEAN
      BY <1>7
    <2> QED
      BY <1>3, <2>2, <2>3, OwnForkFails
  <1> QED
    BY <1>6, <1>7 DEF copy_setup

\* copyuvm copies a page.
LEMMA OwnCopyPage ==
  ASSUME OwnInv, NEW p \in Procs, copy_page(p)
  PROVE  OwnInv'
  <1> DEFINE j == job[p]
             pte == as[p].pte[j.a]
             q == kalloc(free)
             u == flags(pte)
             m == mappages(j.space, j.a, q, u, free \ {q})
             k == [j EXCEPT !.a = @ + 1, !.space = m.space]
  <1>1. state[p] = "RUNNING" /\ j.pc = "copy" /\ j.a * PGSIZE < sz[p]
    BY DEF copy_page, Running
  <1>2. /\ JobOK(p) /\ j \in JobType /\ free \subseteq Pages /\ SpaceOK(j.space) /\ SpaceOK(as[p])
        /\ free \cap PagesIn(j.space) = {} /\ sz[p] \in Nat /\ sz[p] < KERNBASE
    BY <1>1, Actor
  <1>3. j.space # NoSpace /\ Forking(p)
    BY <1>1, <1>2 DEF JobOK, Forking
  <1>4. j.np \in Procs /\ state[j.np] = "EMBRYO"
    BY <1>3, Child
  <1>5. j.a \in Nat /\ j.a \in VPages
    <2>1. j.a \in Nat
      BY <1>2 DEF JobType
    <2>2. j.a * PGSIZE < KERNBASE
      BY <1>1, <1>2, <2>1, Sizes
    <2> QED
      BY <2>1, <2>2, VPagesAre
  <1>6. j.space.pte[j.a] = NoPte /\ \A v \in VPages : v >= j.a => j.space.pte[v] = NoPte
    BY <1>1, <1>2, <1>5 DEF JobOK
  <1>7. u \in BOOLEAN
    BY <1>2, <1>5, SpaceFields DEF flags
  <1>8. Typed
    BY DEF OwnInv
  <1>9. /\ j = job[p] /\ q = kalloc(free) /\ m = mappages(j.space, j.a, q, u, free \ {q})
        /\ k = [j EXCEPT !.a = j.a + 1, !.space = m.space]
    OBVIOUS
  <1>10. CASE Halt(p, FALSE)
    BY <1>10, OwnHalt
  <1>11. CASE ForkFails(p, j.space, free) /\ UNCHANGED tabfailed
    <2>1. free \subseteq free /\ tabfailed' \in BOOLEAN /\ (tabfailed => tabfailed')
      BY <1>8, <1>11 DEF Typed
    <2> QED
      BY <1>3, <1>11, <2>1, OwnForkFails
  <1>12. CASE free # {} /\ ~m.ok /\ tabfailed' = TRUE /\ ForkFails(p, j.space, m.free)
    <2> HIDE DEF j, pte, q, u, m, k
    <2>1. MapStep(j.space, free, j.a, u, q, m)
      BY <1>2, <1>3, <1>5, <1>6, <1>7, <1>9, <1>12, MapFree
    <2>2. m.free = free \ {q}
      BY <1>12, <2>1 DEF MapStep, MappedOrNot
    <2>3. m.free \subseteq free /\ tabfailed' /\ tabfailed' \in BOOLEAN
      BY <1>12, <2>2
    <2> QED
      BY <1>3, <1>9, <1>12, <2>3, OwnForkFails
  <1>13. CASE /\ free # {} /\ m.ok
              /\ free' = m.free
              /\ content' = [content EXCEPT ![q] = content[pte.pa]]
              /\ Goto(p, k)
              /\ pte # NoPte
              /\ UNCHANGED <<state, parent, kstack, as, sz, cr3, want, damaged,
                             tabfailed, halted, calls>>
    <2>1. pte.pa \in Pages
      BY <1>2, <1>5, <1>13, SpaceFields DEF Frames
    <2> HIDE DEF j, pte, q, u, m, k
    <2>2. MapStep(j.space, free, j.a, u, q, m)
      BY <1>2, <1>3, <1>5, <1>6, <1>7, <1>9, <1>13, MapFree
    <2>3. /\ SpaceOK(m.space) /\ m.space # NoSpace /\ m.space \in SpaceType
          /\ m.free \cap PagesIn(m.space) = {}
          /\ m.free \cup PagesIn(m.space) = free \cup PagesIn(j.space)
          /\ \A w \in VPages : w # j.a => m.space.pte[w] = j.space.pte[w]
      BY <1>13, <2>2 DEF MapStep, MappedOrNot, SpaceOK
    <2>4. content' \in [Pages -> Values]
      BY <1>8, <1>13, <2>1 DEF Typed
    <2>5. RestTyped
      BY <1>8, <1>13, <2>4 DEF RestTyped, Typed
    <2>6. /\ k \in JobType /\ k.pc = "copy" /\ k.space = m.space /\ k.np = j.np /\ k.a = j.a + 1
      <3>1. j.a + 1 \in Nat
        BY <1>5
      <3>2. k = [j EXCEPT !.a = j.a + 1, !.space = m.space] /\ m.space \in SpaceType
        BY <1>9, <2>3
      <3> QED
        BY <1>1, <1>2, <3>1, <3>2 DEF JobType
    <2>7. job'[p] = k
      BY <1>8, <1>13 DEF Goto, Typed
    <2>8. \A v \in VPages : v >= k.a => m.space.pte[v] = NoPte
      <3> SUFFICES ASSUME NEW v \in VPages, v >= j.a + 1 PROVE m.space.pte[v] = NoPte
        BY <2>6
      <3>1. v \in Nat
        BY VPagesAre
      <3>2. v >= j.a /\ v # j.a
        BY <1>5, <3>1
      <3> QED
        BY <1>6, <2>3, <3>2
    <2>9. JobOK(p)'
      BY <1>4, <1>13, <2>3, <2>6, <2>7, <2>8 DEF JobOK, Forking, Growing
    <2>10. JobFit(p, k)
      BY <1>3, <1>9, <2>3, <2>6, <2>9 DEF JobFit
    <2>11. CallDealt(p, k)
      BY <1>9, <1>13, <2>3, <2>6 DEF CallDealt
    <2> QED
      BY <1>1, <1>13, <2>5, <2>10, <2>11, OwnCall
  <1> QED
    BY <1>10, <1>11, <1>12, <1>13 DEF copy_page

\* fork lets the child run.
LEMMA OwnForked ==
  ASSUME OwnInv, NEW p \in Procs, forked(p), NEW np, np = job[p].np
  PROVE  OwnInv'
  <1> DEFINE s == job[p].space
  <1>1. /\ state[p] = "RUNNING" /\ job[p].pc = "copy" /\ Forking(p)
        /\ as' = [as EXCEPT ![np] = s]
        /\ cr3' = [cr3 EXCEPT ![np] = s.dir]
        /\ sz' = [sz EXCEPT ![np] = sz[p]]
        /\ state' = [state EXCEPT ![np] = "RUNNING"]
        /\ Goto(p, Idle)
        /\ UNCHANGED <<free, content, kstack, damaged, tabfailed, halted, calls>>
    BY DEF forked, Running, Forking
  <1>2. Typed /\ (\A r \in Procs : ProcOK(r)) /\ OneChild /\ HeldOnce /\ AllHeld
    BY DEF OwnInv
  <1>3. /\ np \in Procs /\ state[np] = "EMBRYO" /\ p # np
        /\ as[np] = NoSpace /\ kstack[np] # NoPage
        /\ job[np] = Idle /\ \A r \in Procs \ {p} : Forking(r) => job[r].np # np
    BY <1>1, Child
  <1>4. /\ SpaceOK(s) /\ SpaceOK(as[p]) /\ as[p] # NoSpace /\ cr3[p] = as[p].dir /\ JobOK(p)
    BY <1>1, Actor
  <1>5. s # NoSpace
    BY <1>1, <1>4 DEF JobOK
  <1>6. /\ JobOK(p)' /\ SpaceOK(Idle.space) /\ ~Forking(p)' /\ Idle \in JobType
        /\ PagesIn(Idle.space) = {} /\ job'[p] = Idle
    <2>1. JobFit(p, Idle) /\ PagesIn(Idle.space) = {} /\ job'[p] = Idle
      BY <1>1, EndFit
    <2> QED
      BY <2>1, IdleOK
  <1>7. \A r \in Procs \ {p} : job'[r] = job[r]
    BY <1>1, <1>2 DEF Goto, Typed
  <1>8. s = job[p].space /\ s \in SpaceType /\ s.dir \in Frames
    BY <1>4, SpaceFields DEF SpaceOK
  <1> HIDE DEF s
  <1>9. /\ state'[np] = "RUNNING" /\ \A r \in Procs \ {np} : state'[r] = state[r]
        /\ as'[np] = s /\ \A r \in Procs \ {np} : as'[r] = as[r]
        /\ cr3'[np] = s.dir /\ \A r \in Procs \ {np} : cr3'[r] = cr3[r]
    BY <1>1, <1>2, <1>3 DEF Typed
  <1>10. Typed'
    BY <1>1, <1>2, <1>3, <1>6, <1>8 DEF Typed, Goto
  <1>11. ProcOK(p)'
    <2>1. kstack[p] # NoPage
      BY <1>1, <1>2 DEF ProcOK
    <2> QED
      BY <1>1, <1>3, <1>4, <1>6, <1>9, <2>1 DEF ProcOK
  <1>12. ProcOK(np)'
    <2>1. job'[np] = Idle
      BY <1>3, <1>7
    <2>2. JobOK(np)' /\ SpaceOK(job'[np].space) /\ job'[np].pc = "user"
      BY <1>3, <2>1, IdleOK, IdleIs
    <2> QED
      BY <1>1, <1>3, <1>4, <1>5, <1>9, <2>2 DEF ProcOK
  <1>13. \A r \in Procs \ {p} : Forking(r) => state'[job[r].np] = "EMBRYO"
    <2> SUFFICES ASSUME NEW r \in Procs \ {p}, Forking(r) PROVE state'[job[r].np] = "EMBRYO"
      OBVIOUS
    <2>1. job[r].np \in Procs /\ state[job[r].np] = "EMBRYO"
      BY Child
    <2>2. job[r].np # np
      BY <1>3
    <2> QED
      BY <1>9, <2>1, <2>2
  <1>14. (\A r \in Procs : ProcOK(r)') /\ OneChild'
    <2>1. \A r \in Procs \ {p, np} : /\ as'[r] = as[r] /\ state'[r] = state[r]
                                     /\ kstack'[r] = kstack[r] /\ cr3'[r] = cr3[r]
      BY <1>1, <1>9
    <2>2. \A r \in Procs \ {p, np} : Forking(r) => state'[job[r].np] = "EMBRYO"
      BY <1>13
    <2> QED
      BY <1>3, <1>6, <1>7, <1>11, <1>12, <2>1, <2>2, TwoSlots
  <1>15. HeldOnce' /\ AllHeld'
    <2> DEFINE a == <<"as", np>>
               b == <<"job", p>>
    <2>1. a \in Holders /\ b \in Holders /\ a # b
      BY <1>3, HeldIs, HoldersDiffer DEF HeldAt
    <2>2. Held[a] = {} /\ Held[b] = PagesIn(s)
      BY <1>3, <1>8, HeldIs, NoSpaceIs DEF HeldAt
    <2>3. Held'[a] = PagesIn(s) /\ Held'[b] = {}
      BY <1>3, <1>6, <1>9, HeldNext DEF HeldAt
    <2>4. \A h \in Holders \ {a, b} : Held'[h] = Held[h]
      <3> DEFINE X == {a, b}
      <3>1. /\ free' = free
            /\ \A r \in Procs : kstack'[r] = kstack[r]
            /\ \A r \in Procs : as'[r] = as[r] \/ <<"as", r>> \in X
            /\ \A r \in Procs : job'[r] = job[r] \/ <<"job", r>> \in X
        BY <1>1, <1>7, <1>9
      <3> HIDE DEF X
      <3>2. \A h \in Holders \ X : Held'[h] = Held[h]
        BY <3>1, HeldSame
      <3> QED
        BY <3>2 DEF X
    <2> HIDE DEF a, b
    <2>5. Held'[a] \cap Held'[b] = {} /\ Held'[a] \cup Held'[b] = Held[a] \cup Held[b]
      BY <2>2, <2>3
    <2> QED
      BY <1>1, <1>2, <2>1, <2>4, <2>5, MovedTwo
  <1> QED
    BY <1>10, <1>14, <1>15 DEF OwnInv

\* A process exits.
LEMMA OwnExit ==
  ASSUME OwnInv, NEW p \in Procs, exit(p)
  PROVE  OwnInv'
  <1>1. /\ Running(p, "user")
        /\ state' = [state EXCEPT ![p] = "ZOMBIE"]
        /\ cr3' = [cr3 EXCEPT ![p] = NoPage]
        /\ UNCHANGED <<free, content, kstack, as, sz, job, want, damaged, tabfailed, halted>>
    BY DEF exit, Called
  <1>2. Typed /\ (\A r \in Procs : ProcOK(r)) /\ OneChild /\ HeldOnce /\ AllHeld
    BY DEF OwnInv
  <1>3. state[p] = "RUNNING" /\ job[p] = Idle
    BY <1>1, AtUser
  <1>4. state'[p] = "ZOMBIE" /\ \A r \in Procs \ {p} : state'[r] = state[r] /\ cr3'[r] = cr3[r]
    BY <1>1, <1>2 DEF Typed
  <1>5. Typed'
    BY <1>1, <1>2 DEF Typed, Frames
  <1>6. JobOK(p)' /\ ~Forking(p)' /\ job'[p].pc = "user"
    BY <1>1, <1>3, IdleOK, IdleIs
  <1>7. ProcOK(p)'
    BY <1>1, <1>2, <1>3, <1>4, <1>6 DEF ProcOK
  <1>8. \A r \in Procs : Forking(r) => state'[job[r].np] = "EMBRYO"
    <2> SUFFICES ASSUME NEW r \in Procs, Forking(r) PROVE state'[job[r].np] = "EMBRYO"
      OBVIOUS
    <2>1. job[r].np \in Procs /\ state[job[r].np] = "EMBRYO"
      BY Child
    <2> QED
      BY <1>3, <1>4, <2>1
  <1>9. (\A r \in Procs : ProcOK(r)') /\ OneChild'
    <2>1. \A r \in Procs \ {p, p} : /\ as'[r] = as[r] /\ state'[r] = state[r]
                                    /\ kstack'[r] = kstack[r] /\ cr3'[r] = cr3[r]
      BY <1>1, <1>4
    <2>2. \A r \in Procs \ {p} : job'[r] = job[r]
      BY <1>1
    <2>3. \A r \in Procs \ {p, p} : Forking(r) => state'[job[r].np] = "EMBRYO"
      BY <1>8
    <2> QED
      BY <1>6, <1>7, <2>1, <2>2, <2>3, TwoSlots
  <1>10. HeldOnce' /\ AllHeld'
    BY <1>1, <1>2, MovedNone
  <1> QED
    BY <1>5, <1>9, <1>10 DEF OwnInv

\* wait frees a zombie.
LEMMA OwnWait ==
  ASSUME OwnInv, NEW p \in Procs, NEW q \in Procs, wait(p, q)
  PROVE  OwnInv'
  <1> DEFINE freed == {kstack[q]} \cup PagesIn(as[q])
  <1>1. Typed /\ (\A r \in Procs : ProcOK(r)) /\ OneChild /\ HeldOnce /\ AllHeld
    BY DEF OwnInv
  <1>2. state[q] = "ZOMBIE" /\ Running(p, "user")
    BY DEF wait
  <1>3. SpaceOK(as[q]) /\ as[q] # NoSpace /\ kstack[q] # NoPage /\ job[q].pc = "user" /\ JobOK(q)
    BY <1>1, <1>2 DEF ProcOK
  <1>4. freed = {kstack[q]} \cup freevm(as[q])
    BY <1>3, FreeVm
  <1>5. /\ free' = free \cup freed
        /\ content' = Junked(freed)
        /\ kstack' = [kstack EXCEPT ![q] = NoPage]
        /\ as' = [as EXCEPT ![q] = NoSpace]
        /\ state' = [state EXCEPT ![q] = "UNUSED"]
        /\ UNCHANGED <<sz, cr3, job, tabfailed, halted, calls>>
    BY <1>4 DEF wait
  <1>6. freed \subseteq Pages
    <2>1. kstack[q] \in Pages
      BY <1>1, <1>3 DEF Typed, Frames
    <2> QED
      BY <1>3, <2>1, PagesInAre
  <1>7. job[q] = Idle
    BY <1>3 DEF JobOK
  <1>8. freed = {kstack[q]} \cup PagesIn(as[q])
    OBVIOUS
  <1> HIDE DEF freed
  <1>9. /\ state'[q] = "UNUSED" /\ \A r \in Procs \ {q} : state'[r] = state[r]
        /\ as'[q] = NoSpace /\ \A r \in Procs \ {q} : as'[r] = as[r]
        /\ kstack'[q] = NoPage /\ \A r \in Procs \ {q} : kstack'[r] = kstack[r]
    BY <1>1, <1>5 DEF Typed
  <1>10. Typed'
    <2>1. content' \in [Pages -> Values]
      BY <1>1, <1>5, JunkedType
    <2>2. free' \subseteq Pages
      BY <1>1, <1>5, <1>6 DEF Typed
    <2>3. NoPage \in Frames /\ NoSpace \in SpaceType
      BY NoSpaceIs DEF Frames, SpaceOK
    <2> QED
      BY <1>1, <1>5, <2>1, <2>2, <2>3 DEF Typed
  <1>11. ProcOK(q)' /\ ~Forking(q)'
    <2>1. JobOK(q)' /\ SpaceOK(job'[q].space) /\ job'[q].pc = "user" /\ ~Forking(q)'
      BY <1>5, <1>7, IdleOK, IdleIs
    <2> QED
      BY <1>9, <2>1, NoSpaceIs DEF ProcOK
  <1>12. \A r \in Procs : Forking(r) => state'[job[r].np] = "EMBRYO"
    <2> SUFFICES ASSUME NEW r \in Procs, Forking(r) PROVE state'[job[r].np] = "EMBRYO"
      OBVIOUS
    <2>1. job[r].np \in Procs /\ state[job[r].np] = "EMBRYO"
      BY Child
    <2> QED
      BY <1>2, <1>9, <2>1
  <1>13. (\A r \in Procs : ProcOK(r)') /\ OneChild'
    <2>1. \A r \in Procs \ {q, q} : /\ as'[r] = as[r] /\ state'[r] = state[r]
                                    /\ kstack'[r] = kstack[r] /\ cr3'[r] = cr3[r]
      BY <1>5, <1>9
    <2>2. \A r \in Procs \ {q} : job'[r] = job[r]
      BY <1>5
    <2>3. \A r \in Procs \ {q, q} : Forking(r) => state'[job[r].np] = "EMBRYO"
      BY <1>12
    <2> QED
      BY <1>11, <2>1, <2>2, <2>3, TwoSlots
  <1>14. HeldOnce' /\ AllHeld'
    <2> DEFINE f == FreeList
               t == <<"stack", q>>
               b == <<"as", q>>
    <2>1. f \in Holders /\ t \in Holders /\ b \in Holders /\ f # t /\ f # b /\ t # b
      BY HeldIs, HoldersDiffer DEF HeldAt
    <2>2. Held[f] = free /\ Held[t] = {kstack[q]} /\ Held[b] = PagesIn(as[q])
      BY <1>3, HeldIs DEF HeldAt
    <2>3. Held'[f] = free \cup freed /\ Held'[t] = {} /\ Held'[b] = {}
      BY <1>5, <1>9, HeldNext, NoSpaceIs DEF HeldAt
    <2>4. \A h \in Holders \ {f, t, b} : Held'[h] = Held[h]
      <3> DEFINE X == {f, t, b}
      <3>1. /\ FreeList \in X
            /\ \A r \in Procs : kstack'[r] = kstack[r] \/ <<"stack", r>> \in X
            /\ \A r \in Procs : as'[r] = as[r] \/ <<"as", r>> \in X
            /\ \A r \in Procs : job'[r] = job[r]
        BY <1>5, <1>9
      <3> HIDE DEF X
      <3>2. \A h \in Holders \ X : Held'[h] = Held[h]
        BY <3>1, HeldSame
      <3> QED
        BY <3>2 DEF X
    <2> HIDE DEF f, t, b
    <2>5. /\ Held'[f] \cap Held'[t] = {} /\ Held'[f] \cap Held'[b] = {} /\ Held'[t] \cap Held'[b] = {}
          /\ Held'[f] \cup Held'[t] \cup Held'[b] = Held[f] \cup Held[t] \cup Held[b]
      BY <1>8, <2>2, <2>3
    <2> QED
      BY <1>1, <1>5, <2>1, <2>4, <2>5, MovedThree
  <1> QED
    BY <1>10, <1>13, <1>14 DEF OwnInv

\* Every step keeps the invariant.
LEMMA OwnNext ==
  ASSUME OwnInv, [Next]_vars
  PROVE  OwnInv'
  <1>1. CASE UNCHANGED vars
    BY <1>1, OwnSame DEF vars
  <1>2. ASSUME NEW p \in Procs, NEW n \in Deltas, sbrk(p, n) PROVE OwnInv'
    BY <1>2, OwnSbrk
  <1>3. ASSUME NEW p \in Procs, alloc_page(p) \/ alloc_fail(p) \/ grown(p) PROVE OwnInv'
    BY <1>3, OwnAllocPage, OwnAllocFail, OwnGrown
  <1>4. ASSUME NEW p \in Procs, NEW np \in Procs, fork(p, np) PROVE OwnInv'
    BY <1>4, OwnFork
  <1>5. ASSUME NEW p \in Procs, copy_setup(p) \/ copy_page(p) \/ forked(p) PROVE OwnInv'
    BY <1>5, OwnCopySetup, OwnCopyPage, OwnForked
  <1>6. ASSUME NEW p \in Procs, NEW img \in Images, exec(p, img) PROVE OwnInv'
    BY <1>6, OwnExec
  <1>7. ASSUME NEW p \in Procs, exec_next(p) \/ loaduvm(p) \/ clearpteu(p) PROVE OwnInv'
    BY <1>7, OwnExecNext, OwnLoad, OwnClear
  <1>8. ASSUME NEW p \in Procs, NEW n \in ArgSizes, exec_args(p, n) PROVE OwnInv'
    BY <1>8, OwnArgs
  <1>9. ASSUME NEW p \in Procs, exec_freevm(p) \/ exit(p) PROVE OwnInv'
    BY <1>9, OwnFreevm, OwnExit
  <1>10. ASSUME NEW p \in Procs, NEW q \in Procs, wait(p, q) PROVE OwnInv'
    BY <1>10, OwnWait
  <1>11. ASSUME NEW p \in Procs, NEW v \in VPages, store(p, v) PROVE OwnInv'
    BY <1>11, OwnWritten DEF store
  <1>12. ASSUME NEW p \in Procs, NEW addr, NEW n, NEW len, sys_read(p, addr, n, len) PROVE OwnInv'
    BY <1>12, OwnHalt, OwnWritten DEF sys_read
  <1>13. ASSUME NEW p \in Procs, NEW addr, NEW len, sys_getprocs(p, addr, len) PROVE OwnInv'
    BY <1>13, OwnHalt, OwnWritten DEF sys_getprocs
  <1> QED
    BY <1>1, <1>2, <1>3, <1>4, <1>5, <1>6, <1>7, <1>8, <1>9, <1>10, <1>11, <1>12, <1>13 DEF Next

\* The pages that userinit's setupkvm takes: page 1 is the kernel stack.
LEMMA BootSetup ==
  ASSUME NEW k, k = setupkvm(Pages \ {1})
  PROVE  /\ SetUp(Pages \ {1}, k)
         /\ NKTAB + 3 \in k.free /\ NKTAB + 4 \in k.free
  <1> DEFINE F == Pages \ {1}
  <1>1. /\ F = 2 .. NPAGES /\ NPAGES \in Nat /\ NKTAB \in Nat /\ NPAGES > NKTAB + 4
    BY Sizes, MemoryAssumption DEF Pages
  <1>2. Cardinality(2 .. NPAGES) = NPAGES - 1
    <2>1. 2 \in Int /\ NPAGES \in Int /\ 2 <= NPAGES
      BY <1>1
    <2>2. Cardinality(2 .. NPAGES) = NPAGES - 2 + 1
      BY <2>1, FS_Interval
    <2> QED
      BY <1>1, <2>2
  <1>3. CanSetup(F)
    <2>1. Cardinality(F) = NPAGES - 1
      BY <1>1, <1>2
    <2> HIDE DEF F
    <2> QED
      BY <1>1, <2>1 DEF CanSetup
  <1>4. SetUp(F, k)
    BY <1>3, SetupKvm
  <1>5. ASSUME NEW q \in F PROVE Cardinality({r \in F : r < q}) = q - 2
    <2>0. q \in Nat /\ q >= 2
      BY <1>1, <1>5
    <2>1. {r \in F : r < q} = 2 .. q - 1
      <3>1. \A r : r \in F /\ r < q <=> r \in 2 .. q - 1
        BY <1>1, <1>5
      <3> HIDE DEF F
      <3> QED
        BY <3>1
    <2>2. 2 \in Int /\ q - 1 \in Int
      BY <2>0
    <2>3. Cardinality(2 .. q - 1) = IF 2 > q - 1 THEN 0 ELSE (q - 1) - 2 + 1
      BY <2>2, FS_Interval
    <2>4. Cardinality(2 .. q - 1) = q - 2
      BY <2>0, <2>3
    <2> QED
      BY <2>1, <2>4
  <1>6. k.free = F \ ({Min(F)} \cup KernelTables(F))
    BY <1>3 DEF setupkvm
  <1>7. Min(F) = 2
    <2>1. F # {} /\ F \subseteq Pages /\ 2 \in F
      BY <1>1
    <2>2. Min(F) \in F /\ \A y \in F : Min(F) <= y
      BY <2>1, Kalloc
    <2>3. Min(F) >= 2 /\ Min(F) <= 2 /\ Min(F) \in Nat
      BY <1>1, <2>1, <2>2
    <2> HIDE DEF F
    <2> QED
      BY <2>3
  <1>8. ASSUME NEW q \in {NKTAB + 3, NKTAB + 4} PROVE q \in k.free
    <2>1. q \in F /\ q - 2 > NKTAB /\ q # 2 /\ q \in Nat
      BY <1>1, <1>8
    <2>2. Cardinality({r \in F : r < q}) \notin 1 .. NKTAB
      <3>1. q - 2 \notin 1 .. NKTAB
        BY <1>1, <2>1
      <3> QED
        BY <1>5, <2>1, <3>1
    <2>3. q \notin KernelTables(F)
      BY <2>2 DEF KernelTables
    <2> QED
      BY <1>6, <1>7, <2>1, <2>3
  <1> QED
    BY <1>4, <1>8

\* The address space that userinit makes.
LEMMA BootSpace ==
  ASSUME NEW b, b = Booted
  PROVE  /\ SpaceOK(b.space) /\ b.space # NoSpace
         /\ b.free \cap PagesIn(b.space) = {}
         /\ b.free \cup PagesIn(b.space) = Pages \ {1}
         /\ b.space.pte[0].pa \in Pages /\ b.space.pte[0].u = TRUE
         /\ \A v \in VPages : v # 0 => b.space.pte[v] = NoPte
  <1> DEFINE k == setupkvm(Pages \ {1})
             q == kalloc(k.free)
             m == mappages(k.space, 0, q, TRUE, k.free \ {q})
  <1>1. b = m
    BY DEF Booted
  <1>2. SetUp(Pages \ {1}, k) /\ NKTAB + 3 \in k.free /\ NKTAB + 4 \in k.free
    BY BootSetup
  <1>3. /\ SpaceOK(k.space) /\ k.space # NoSpace /\ k.free \subseteq Pages
        /\ k.free \cap PagesIn(k.space) = {} /\ k.free # {}
        /\ PagesIn(k.space) \cup k.free = Pages \ {1}
        /\ \A v \in VPages : k.space.pte[v] = NoPte
    <2> HIDE DEF k
    <2> QED
      BY <1>2 DEF SetUp
  <1>4. q = kalloc(k.free) /\ m = mappages(k.space, 0, q, TRUE, k.free \ {q})
    OBVIOUS
  <1> HIDE DEF k, q, m
  <1>5. 0 \in VPages
    BY VPagesAre
  <1>6. MapStep(k.space, k.free, 0, TRUE, q, m)
    BY <1>3, <1>4, <1>5, MapFreeUser
  <1>7. m.ok
    <2>1. k.free \ {q} # {}
      <3>1. NKTAB + 3 # NKTAB + 4
        BY Sizes
      <3> QED
        BY <1>2, <3>1
    <2> QED
      BY <1>6, <2>1 DEF MapStep, MappedOrNot
  <1>8. /\ q \in Pages /\ SpaceOK(m.space) /\ m.space # NoSpace
        /\ m.free \cap PagesIn(m.space) = {}
        /\ m.free \cup PagesIn(m.space) = Pages \ {1}
    BY <1>3, <1>6, <1>7 DEF MapStep
  <1>9. /\ m.space.pte[0] = [pa |-> q, u |-> TRUE]
        /\ \A w \in VPages : w # 0 => m.space.pte[w] = k.space.pte[w]
    BY <1>6, <1>7 DEF MapStep, MappedOrNot
  <1>10. m.space.pte[0].pa = q /\ m.space.pte[0].u = TRUE
    BY <1>9
  <1> QED
    BY <1>1, <1>3, <1>8, <1>9, <1>10

\* The invariant holds at the start.
LEMMA OwnInit ==
  ASSUME Init
  PROVE  OwnInv
  <1> DEFINE b == Booted
             s == b.space
  <1>1. /\ SpaceOK(s) /\ s # NoSpace
        /\ b.free \cap PagesIn(s) = {} /\ b.free \cup PagesIn(s) = Pages \ {1}
    BY BootSpace
  <1>2. /\ as = [p \in Procs |-> IF p = initproc THEN s ELSE NoSpace]
        /\ free = b.free
        /\ content = [q \in Pages |-> IF q = s.pte[0].pa THEN "text" ELSE "junk"]
        /\ state = [p \in Procs |-> IF p = initproc THEN "RUNNING" ELSE "UNUSED"]
        /\ kstack = [p \in Procs |-> IF p = initproc THEN 1 ELSE NoPage]
        /\ sz = [p \in Procs |-> IF p = initproc THEN PGSIZE ELSE 0]
        /\ cr3 = [p \in Procs |-> as[p].dir]
        /\ job = [p \in Procs |-> Idle]
        /\ tabfailed = FALSE
    BY DEF Init
  <1>3. initproc \in Procs
    BY MemoryAssumption
  <1> HIDE DEF b, s
  <1>4. /\ as[initproc] = s /\ state[initproc] = "RUNNING" /\ kstack[initproc] = 1
        /\ \A p \in Procs \ {initproc} : as[p] = NoSpace /\ state[p] = "UNUSED" /\ kstack[p] = NoPage
        /\ \A p \in Procs : job[p] = Idle /\ cr3[p] = as[p].dir
    BY <1>2, <1>3
  <1>5. 1 \in Pages /\ 1 \in Frames /\ NoPage \in Frames /\ 1 # NoPage
    BY Sizes DEF Pages, Frames, NoPage
  <1>6. s \in SpaceType /\ NoSpace \in SpaceType
    BY <1>1, NoSpaceIs DEF SpaceOK
  <1>7. \A p \in Procs : SpaceOK(as[p]) /\ as[p].dir \in Frames
    <2> SUFFICES ASSUME NEW p \in Procs PROVE SpaceOK(as[p]) /\ as[p].dir \in Frames
      OBVIOUS
    <2>1. SpaceOK(as[p])
      BY <1>1, <1>4, NoSpaceIs
    <2> QED
      BY <2>1, SpaceFields
  <1>8. Typed
    <2>1. free \subseteq Pages
      BY <1>1, <1>2
    <2>2. content \in [Pages -> Values]
      BY <1>2 DEF Values
    <2>3. state \in [Procs -> {"UNUSED", "EMBRYO", "RUNNING", "ZOMBIE"}]
      BY <1>2
    <2>4. kstack \in [Procs -> Frames] /\ cr3 \in [Procs -> Frames]
      BY <1>2, <1>5, <1>7
    <2>5. PGSIZE \in 0 .. KERNBASE - 1 /\ 0 \in 0 .. KERNBASE - 1
      BY Sizes, MemoryAssumption
    <2>6. sz \in [Procs -> 0 .. KERNBASE - 1]
      BY <1>2, <2>5
    <2>7. as \in [Procs -> SpaceType] /\ job \in [Procs -> JobType]
      BY <1>2, <1>6, IdleIs
    <2> QED
      BY <1>2, <2>1, <2>2, <2>3, <2>4, <2>6, <2>7 DEF Typed
  <1>9. \A p \in Procs : ~Forking(p)
    BY <1>4, IdleIs DEF Forking
  <1>10. ASSUME NEW p \in Procs PROVE ProcOK(p)
    <2>1. job[p] = Idle /\ SpaceOK(Idle.space)
      BY <1>4, IdleIs, NoSpaceIs
    <2>2. JobOK(p)
      BY <2>1, IdleIs DEF JobOK, Forking, Growing
    <2>3. job[p].pc = "user"
      BY <2>1, IdleIs
    <2> QED
      BY <1>1, <1>4, <1>5, <1>7, <2>1, <2>2, <2>3 DEF ProcOK
  <1>11. OneChild
    BY <1>9 DEF OneChild
  <1> DEFINE f == FreeList
             t == <<"stack", initproc>>
             a == <<"as", initproc>>
  <1>12. f \in Holders /\ t \in Holders /\ a \in Holders
    BY <1>3, HeldIs DEF HeldAt
  <1>13. Held[f] = b.free /\ Held[t] = {1} /\ Held[a] = PagesIn(s)
    BY <1>2, <1>3, <1>4, <1>5, HeldIs DEF HeldAt
  <1>14. ASSUME NEW h \in Holders, h \notin {f, t, a} PROVE Held[h] = {}
    <2>1. ASSUME NEW p \in Procs, h = <<"stack", p>> PROVE Held[h] = {}
      <3>1. p # initproc
        BY <1>14, <2>1
      <3>2. kstack[p] = NoPage
        BY <1>4, <3>1
      <3>3. Held[h] = {kstack[p]} \ {NoPage}
        BY <2>1, HeldIs DEF HeldAt
      <3> QED
        BY <3>2, <3>3
    <2>2. ASSUME NEW p \in Procs, h = <<"as", p>> PROVE Held[h] = {}
      <3>1. p # initproc
        BY <1>14, <2>2
      <3>2. as[p] = NoSpace
        BY <1>4, <3>1
      <3> QED
        BY <2>2, <3>2, HeldIs, NoSpaceIs DEF HeldAt
    <2>3. ASSUME NEW p \in Procs, h = <<"job", p>> PROVE Held[h] = {}
      <3>1. job[p].space = NoSpace
        BY <1>4, IdleIs
      <3> QED
        BY <2>3, <3>1, HeldIs, NoSpaceIs DEF HeldAt
    <2> QED
      BY <1>14, <2>1, <2>2, <2>3, HolderCases
  <1> HIDE DEF f, t, a
  <1>15. HeldOnce
    BY <1>1, <1>13, <1>14 DEF HeldOnce, Apart
  <1>16. AllHeld
    <2> SUFFICES ASSUME NEW x \in Pages PROVE \E h \in Holders : x \in Held[h]
      BY DEF AllHeld
    <2>1. x \in Held[f] \/ x \in Held[t] \/ x \in Held[a]
      BY <1>1, <1>13
    <2> QED
      BY <1>12, <2>1
  <1> QED
    BY <1>8, <1>10, <1>11, <1>15, <1>16 DEF OwnInv

\* Who owns which page.
LEMMA OwnImplies ==
  ASSUME OwnInv
  PROVE  PagesAccounted /\ LoadedDirectory
  <1>1. Typed /\ (\A p \in Procs : ProcOK(p)) /\ HeldOnce /\ AllHeld
    BY DEF OwnInv
  <1>2. \A p \in Procs : SpaceOK(as[p]) /\ SpaceOK(job[p].space)
    BY <1>1 DEF ProcOK
  <1>3. \A s \in Spaces : SpaceOK(s)
    BY <1>2 DEF Spaces
  <1>4. TypeOK
    <2>1. \A s \in Spaces : PagesIn(s) \subseteq Pages
      BY <1>3, PagesInAre
    <2> QED
      BY <1>1, <2>1 DEF Typed, TypeOK, Frames
  <1>5. \A p \in Procs : free \cap PagesIn(as[p]) = {} /\ free \cap PagesIn(job[p].space) = {}
                         /\ free \cap ({kstack[p]} \ {NoPage}) = {}
    BY <1>1, Different
  <1>6. \A p, q \in Procs :
          /\ ({kstack[p]} \ {NoPage}) \cap PagesIn(as[q]) = {}
          /\ ({kstack[p]} \ {NoPage}) \cap PagesIn(job[q].space) = {}
          /\ PagesIn(as[p]) \cap PagesIn(job[q].space) = {}
          /\ p # q => /\ PagesIn(as[p]) \cap PagesIn(as[q]) = {}
                      /\ PagesIn(job[p].space) \cap PagesIn(job[q].space) = {}
                      /\ ({kstack[p]} \ {NoPage}) \cap ({kstack[q]} \ {NoPage}) = {}
    BY <1>1, Different
  <1>7. OneOwner
    <2>1. free \cap Owned = {}
      <3>1. \A s \in Spaces : free \cap PagesIn(s) = {}
        BY <1>5 DEF Spaces
      <3>2. free \cap Stacks = {}
        BY <1>5 DEF Stacks
      <3> QED
        BY <3>1, <3>2 DEF Owned
    <2>2. \A p, q \in Procs : p # q /\ kstack[p] # NoPage => kstack[p] # kstack[q]
      BY <1>6
    <2>3. Stacks \cap UNION {PagesIn(s) : s \in Spaces} = {}
      <3>1. \A s \in Spaces, p \in Procs : ({kstack[p]} \ {NoPage}) \cap PagesIn(s) = {}
        BY <1>6 DEF Spaces
      <3> QED
        BY <3>1 DEF Stacks
    <2>4. \A s \in Spaces \ {NoSpace} : Cardinality(PagesIn(s)) = SizeOf(s)
      BY <1>3, CountPages
    <2>5. ASSUME NEW s \in Spaces, NEW t \in Spaces, s # t PROVE PagesIn(s) \cap PagesIn(t) = {}
      <3>1. (\E p \in Procs : s = as[p]) \/ (\E p \in Procs : s = job[p].space)
        BY DEF Spaces
      <3>2. (\E p \in Procs : t = as[p]) \/ (\E p \in Procs : t = job[p].space)
        BY DEF Spaces
      <3>3. ASSUME NEW p \in Procs, NEW q \in Procs, s = as[p], t = as[q] PROVE PagesIn(s) \cap PagesIn(t) = {}
        BY <1>6, <2>5, <3>3
      <3>4. ASSUME NEW p \in Procs, NEW q \in Procs, s = as[p], t = job[q].space PROVE PagesIn(s) \cap PagesIn(t) = {}
        BY <1>6, <3>4
      <3>5. ASSUME NEW p \in Procs, NEW q \in Procs, s = job[p].space, t = as[q] PROVE PagesIn(s) \cap PagesIn(t) = {}
        BY <1>6, <3>5
      <3>6. ASSUME NEW p \in Procs, NEW q \in Procs, s = job[p].space, t = job[q].space
            PROVE  PagesIn(s) \cap PagesIn(t) = {}
        BY <1>6, <2>5, <3>6
      <3> QED
        BY <3>1, <3>2, <3>3, <3>4, <3>5, <3>6
    <2> QED
      BY <2>1, <2>2, <2>3, <2>4, <2>5 DEF OneOwner
  <1>8. NoPageLost
    <2> SUFFICES ASSUME ~tabfailed PROVE free \cup Owned = Pages
      BY DEF NoPageLost
    <2>1. ASSUME NEW x \in Pages PROVE x \in free \cup Owned
      <3>1. PICK h \in Holders : x \in Held[h]
        BY <1>1 DEF AllHeld
      <3>2. CASE h = FreeList
        BY <3>1, <3>2, HeldIs DEF HeldAt
      <3>3. ASSUME NEW p \in Procs, h = <<"stack", p>> PROVE x \in Owned
        <4>1. x \in {kstack[p]} \ {NoPage}
          BY <3>1, <3>3, HeldIs DEF HeldAt
        <4> QED
          BY <4>1 DEF Owned, Stacks
      <3>4. ASSUME NEW p \in Procs, h = <<"as", p>> PROVE x \in Owned
        <4>1. x \in PagesIn(as[p]) /\ as[p] \in Spaces
          BY <3>1, <3>4, HeldIs DEF HeldAt, Spaces
        <4> QED
          BY <4>1 DEF Owned
      <3>5. ASSUME NEW p \in Procs, h = <<"job", p>> PROVE x \in Owned
        <4>1. x \in PagesIn(job[p].space) /\ job[p].space \in Spaces
          BY <3>1, <3>5, HeldIs DEF HeldAt, Spaces
        <4> QED
          BY <4>1 DEF Owned
      <3> QED
        BY <3>2, <3>3, <3>4, <3>5, HolderCases
    <2>2. free \subseteq Pages /\ Owned \subseteq Pages
      <3>1. Stacks \subseteq Pages
        BY <1>1 DEF Typed, Stacks, Frames
      <3> QED
        BY <1>1, <1>3, <3>1, PagesInAre DEF Owned, Typed
    <2> QED
      BY <2>1, <2>2
  <1>9. LoadedDirectory
    <2> SUFFICES ASSUME NEW p \in Procs, state[p] = "RUNNING"
                 PROVE  cr3[p] \notin free /\ cr3[p] = as[p].dir
      BY DEF LoadedDirectory
    <2>1. SpaceOK(as[p]) /\ as[p] # NoSpace /\ cr3[p] = as[p].dir
      BY <1>1 DEF ProcOK
    <2>2. as[p].dir # NoPage
      BY <2>1, DirOf
    <2>3. as[p].dir \in PagesIn(as[p])
      BY <2>1, <2>2, PagesInAre
    <2> QED
      BY <1>5, <2>1, <2>3
  <1> QED
    BY <1>4, <1>7, <1>8, <1>9 DEF PagesAccounted

\* The invariant that the theorems on pages rest on.
LEMMA OwnInvariant == Spec => []OwnInv
  <1>1. Init => OwnInv
    BY OwnInit
  <1>2. OwnInv /\ [Next]_vars => OwnInv'
    BY OwnNext
  <1> QED
    BY <1>1, <1>2, PTL DEF Spec

\* Every physical page is free or has one owner, through every failure of kalloc; none is lost
\* unless a page table could not be allocated (kalloc.c, vm.c, proc.c and exec.c).  The kernel
\* has to stay inside the memory of processes: exec and argptr let it go outside.
THEOREM PagesAccountedAlways == Spec => []PagesAccounted
  <1>1. OwnInv => PagesAccounted
    BY OwnImplies
  <1> QED
    BY <1>1, OwnInvariant, PTL

\* No running process has a page directory loaded that has been freed: exec calls switchuvm
\* before freevm (exec.c).
THEOREM LoadedDirectoryAlways == Spec => []LoadedDirectory
  <1>1. OwnInv => LoadedDirectory
    BY OwnImplies
  <1> QED
    BY <1>1, OwnInvariant, PTL

-----------------------------------------------------------------------------
(***************************************************************************)
(* What a process finds in its memory.  The invariant FlatInv says for     *)
(* every call how far it has got; the part above tells that no page a      *)
(* process has is changed by a call of another one.                        *)
(***************************************************************************)

\* A process has been promised what it has mapped up to its size.
WantOK(p) ==
  \A v \in VPages :
    LET pte == as[p].pte[v]
    IN  /\ v \in PagesOf(sz[p]) /\ pte # NoPte =>
             Shows(want[p][v], v, content[pte.pa], pte.u)
        /\ v \notin PagesOf(sz[p]) => want[p][v] = NoVal

\* The size tells what is mapped; a call that grows the process is ahead of it.
SizeOK(p) ==
  p \notin damaged =>
    /\ \A v \in PagesOf(sz[p]) : as[p].pte[v] # NoPte
    /\ \A v \in VPages \ PagesOf(sz[p]) : as[p].pte[v] # NoPte => Growing(p) /\ v < job[p].a

\* allocuvm for growproc: the pages it has been through are mapped and zero.
GrowOK(p) ==
  LET j == job[p]
  IN  Growing(p) =>
        /\ j.old = sz[p] /\ PGROUNDUP(j.old) <= j.a /\ j.a <= PGROUNDUP(j.new)
        /\ \A v \in VPages : v >= PGROUNDUP(j.old) /\ v < j.a =>
             LET pte == as[p].pte[v]
             IN  /\ ~j.hole => pte # NoPte
                 /\ pte # NoPte => content[pte.pa] = "zero" /\ pte.u

\* copyuvm: the pages it has been through are copied.
CopyOK(p) ==
  LET j == job[p]
  IN  /\ j.pc = "setup" => j.a = 0
      /\ j.pc = "copy" =>
           /\ j.a <= PGROUNDUP(sz[p])
           /\ \A v \in VPages : v < j.a =>
                LET from == as[p].pte[v]
                    to == j.space.pte[v]
                IN  from # NoPte /\ to # NoPte /\ to.u = from.u /\ content[to.pa] = content[from.pa]

\* The pages of the new image that exec has been through.
Built(j) == IF j.pc = "segs" THEN PGROUNDUP(j.old) ELSE IF j.pc = "alloc" THEN j.a ELSE PGROUNDUP(j.new)

\* exec: the image has no holes that are not known of, and the user may use all but the
\* page under the stack.
ExecOK(p) ==
  LET j == job[p]
  IN  j.pc \in {"segs", "args"} \/ (j.pc = "alloc" /\ ~Growing(p)) =>
        /\ ~j.hole => \A v \in VPages : j.space.pte[v] # NoPte <=> v < Built(j)
        /\ \A v \in VPages : j.space.pte[v] # NoPte =>
             (j.space.pte[v].u <=> ~(j.pc = "args" /\ v = PGROUNDUP(j.new) - 2))
        /\ j.pc = "alloc" => PGROUNDUP(j.old) <= j.a /\ j.a <= PGROUNDUP(j.new)
        /\ j.pc = "alloc" /\ j.next = "load" => j.new >= SegmentEnd(j.segs[1]) /\ Sized(j.segs[1])

\* What a process finds in its memory.
FlatOK(p) == WantOK(p) /\ SizeOK(p) /\ GrowOK(p) /\ CopyOK(p) /\ ExecOK(p)

FlatInv ==
  /\ want \in [Procs -> [VPages -> [val : Values \cup {"none"}, u : BOOLEAN]]]
  /\ \A p \in Procs : state[p] = "RUNNING" => FlatOK(p)
  /\ HaltOnlyIfDamaged

-----------------------------------------------------------------------------
(***************************************************************************)
(* What a step leaves alone.                                               *)
(***************************************************************************)

\* The pages up to a size.
LEMMA InPages ==
  ASSUME NEW n \in Nat
  PROVE  /\ PGROUNDUP(n) \in Nat
         /\ \A v \in VPages : v \in Nat /\ (v \in PagesOf(n) <=> v < PGROUNDUP(n))
         /\ \A v \in VPages : v * PGSIZE < n <=> v < PGROUNDUP(n)
         /\ n < KERNBASE => PagesOf(n) \subseteq VPages
  <1>1. PGROUNDUP(n) \in Nat /\ \A a \in Nat : a * PGSIZE < n <=> a < PGROUNDUP(n)
    BY RoundUp
  <1>2. VPages \subseteq Nat
    BY VPagesAre
  <1>3. \A v \in Nat : v \in PagesOf(n) <=> v < PGROUNDUP(n)
    BY <1>1 DEF PagesOf
  <1>4. ASSUME n < KERNBASE PROVE PagesOf(n) \subseteq VPages
    <2>1. n \in 0 .. KERNBASE
      BY <1>4, Sizes
    <2> QED
      BY <2>1, PagesBelow
  <1> QED
    BY <1>1, <1>2, <1>3, <1>4

\* The contents of the pages of s stay the same.
Kept(s) == \A v \in VPages : s.pte[v] # NoPte => content'[s.pte[v].pa] = content[s.pte[v].pa]

\* They do if no page of s changes.
LEMMA KeptIf ==
  ASSUME NEW s, SpaceOK(s), \A x \in PagesIn(s) : content'[x] = content[x]
  PROVE  Kept(s)
  <1> SUFFICES ASSUME NEW v \in VPages, s.pte[v] # NoPte
               PROVE  content'[s.pte[v].pa] = content[s.pte[v].pa]
    BY DEF Kept
  <1>1. s.pte[v].pa # NoPage
    BY SpaceFields
  <1>2. s.pte[v].pa \in PagesIn(s)
    BY <1>1, PagesInAre
  <1> QED
    BY <1>2

\* A process that a step leaves alone.
LEMMA FlatSame ==
  ASSUME NEW r \in Procs, FlatOK(r), as'[r] = as[r], job'[r] = job[r], sz'[r] = sz[r],
         want'[r] = want[r], r \in damaged' <=> r \in damaged, Kept(as[r]), Kept(job[r].space)
  PROVE  FlatOK(r)'
  <1>0. WantOK(r) /\ SizeOK(r) /\ GrowOK(r) /\ CopyOK(r) /\ ExecOK(r)
    BY DEF FlatOK
  <1>1. WantOK(r)'
    BY <1>0 DEF WantOK, Kept
  <1>2. SizeOK(r)'
    BY <1>0 DEF SizeOK, Growing
  <1>3. GrowOK(r)'
    BY <1>0 DEF GrowOK, Growing, Kept
  <1>4. CopyOK(r)'
    <2>1. ASSUME job[r].pc = "copy", NEW v \in VPages, v < job[r].a
          PROVE  /\ as[r].pte[v] # NoPte /\ job[r].space.pte[v] # NoPte
                 /\ job[r].space.pte[v].u = as[r].pte[v].u
                 /\ content'[job[r].space.pte[v].pa] = content'[as[r].pte[v].pa]
      <3>1. /\ as[r].pte[v] # NoPte /\ job[r].space.pte[v] # NoPte
            /\ job[r].space.pte[v].u = as[r].pte[v].u
            /\ content[job[r].space.pte[v].pa] = content[as[r].pte[v].pa]
        BY <1>0, <2>1 DEF CopyOK
      <3>2. /\ content'[job[r].space.pte[v].pa] = content[job[r].space.pte[v].pa]
            /\ content'[as[r].pte[v].pa] = content[as[r].pte[v].pa]
        BY <3>1 DEF Kept
      <3> QED
        BY <3>1, <3>2
    <2>2. /\ job[r].pc = "setup" => job[r].a = 0
          /\ job[r].pc = "copy" => job[r].a <= PGROUNDUP(sz[r])
      BY <1>0 DEF CopyOK
    <2> QED
      BY <2>1, <2>2 DEF CopyOK
  <1>5. ExecOK(r)'
    BY <1>0 DEF ExecOK, Built, Growing
  <1> QED
    BY <1>1, <1>2, <1>3, <1>4, <1>5 DEF FlatOK

\* The pages that a process has do not change.
Untouched(r) == \A x \in PagesIn(as[r]) \cup PagesIn(job[r].space) : content'[x] = content[x]

\* A slot that a step leaves alone.
Alone(r) ==
  /\ as'[r] = as[r] /\ job'[r] = job[r] /\ sz'[r] = sz[r] /\ want'[r] = want[r]
  /\ state'[r] = state[r] /\ (r \in damaged' <=> r \in damaged)
  /\ Untouched(r)

WantType == [Procs -> [VPages -> [val : Values \cup {"none"}, u : BOOLEAN]]]

\* A step that changes the slots of Q.
LEMMA FlatStep ==
  ASSUME OwnInv, FlatInv, NEW Q, \A r \in Procs \ Q : Alone(r),
         \A r \in Procs \cap Q : state'[r] = "RUNNING" => FlatOK(r)',
         want' \in WantType, HaltOnlyIfDamaged'
  PROVE  FlatInv'
  <1>1. ASSUME NEW r \in Procs, state'[r] = "RUNNING" PROVE FlatOK(r)'
    <2>1. CASE r \in Q
      BY <1>1, <2>1
    <2>2. CASE r \notin Q
      <3>1. Alone(r)
        BY <2>2
      <3>2. /\ as'[r] = as[r] /\ job'[r] = job[r] /\ sz'[r] = sz[r] /\ want'[r] = want[r]
            /\ state'[r] = state[r] /\ (r \in damaged' <=> r \in damaged)
            /\ \A x \in PagesIn(as[r]) \cup PagesIn(job[r].space) : content'[x] = content[x]
        BY <3>1 DEF Alone, Untouched
      <3>3. FlatOK(r)
        BY <1>1, <3>2 DEF FlatInv
      <3>4. SpaceOK(as[r]) /\ SpaceOK(job[r].space)
        BY DEF OwnInv, ProcOK
      <3>5. Kept(as[r]) /\ Kept(job[r].space)
        BY <3>2, <3>4, KeptIf
      <3> QED
        BY <3>2, <3>3, <3>5, FlatSame
    <2> QED
      BY <2>1, <2>2
  <1> QED
    BY <1>1 DEF FlatInv, WantType

\* Nobody has halted, and nobody does.
LEMMA NotHalted ==
  ASSUME halted = {}, UNCHANGED halted
  PROVE  HaltOnlyIfDamaged'
  BY DEF HaltOnlyIfDamaged

\* The pages in the hands of p and the free ones belong to no other process.
LEMMA OthersUntouched ==
  ASSUME OwnInv, NEW p \in Procs, NEW r \in Procs, r # p,
         \A x \in Pages : x \notin free /\ x \notin PagesIn(as[p]) /\ x \notin PagesIn(job[p].space) =>
           content'[x] = content[x]
  PROVE  Untouched(r)
  <1>1. HeldOnce /\ SpaceOK(as[r]) /\ SpaceOK(job[r].space)
    BY DEF OwnInv, ProcOK
  <1>2. PagesIn(as[r]) \subseteq Pages /\ PagesIn(job[r].space) \subseteq Pages
    BY <1>1, PagesInAre
  <1>3. /\ free \cap PagesIn(as[r]) = {} /\ free \cap PagesIn(job[r].space) = {}
        /\ PagesIn(as[r]) \cap PagesIn(job[p].space) = {}
        /\ PagesIn(as[r]) \cap PagesIn(as[p]) = {}
        /\ PagesIn(job[r].space) \cap PagesIn(job[p].space) = {}
    BY <1>1, Different
  <1>4. PagesIn(as[p]) \cap PagesIn(job[r].space) = {}
    BY <1>1, Different
  <1> QED
    BY <1>2, <1>3, <1>4 DEF Untouched

\* A step of p that changes its own slot, and pages that it has or takes from the free list.
OnlyActor(p) ==
  /\ state' = state
  /\ \A r \in Procs \ {p} : /\ as'[r] = as[r] /\ job'[r] = job[r] /\ sz'[r] = sz[r]
                            /\ want'[r] = want[r] /\ (r \in damaged' <=> r \in damaged)
  /\ \A x \in Pages : x \notin free /\ x \notin PagesIn(as[p]) /\ x \notin PagesIn(job[p].space) =>
       content'[x] = content[x]

\* Such a step keeps the invariant for the others.
LEMMA FlatActor ==
  ASSUME OwnInv, FlatInv, NEW p \in Procs, OnlyActor(p), FlatOK(p)', want' \in WantType,
         HaltOnlyIfDamaged'
  PROVE  FlatInv'
  <1>1. ASSUME NEW r \in Procs \ {p} PROVE Alone(r)
    <2>1. Untouched(r)
      BY OthersUntouched DEF OnlyActor
    <2> QED
      BY <2>1 DEF OnlyActor, Alone
  <1> DEFINE Q == {p}
  <1>2. (\A r \in Procs \ Q : Alone(r)) /\ \A r \in Procs \cap Q : state'[r] = "RUNNING" => FlatOK(r)'
    BY <1>1
  <1> HIDE DEF Q
  <1> QED
    BY <1>2, FlatStep

\* A call of p that leaves its own memory alone.
LEMMA OwnSide ==
  ASSUME NEW p \in Procs, WantOK(p), SizeOK(p), ~Growing(p), as'[p] = as[p], sz'[p] = sz[p],
         want'[p] = want[p], p \in damaged' <=> p \in damaged, Kept(as[p])
  PROVE  WantOK(p)' /\ SizeOK(p)'
  <1>1. WantOK(p)'
    BY DEF WantOK, Kept
  <1>2. SizeOK(p)'
    BY DEF SizeOK
  <1> QED
    BY <1>1, <1>2

\* A call that is over is not in the middle of anything.
LEMMA IdleFlat ==
  ASSUME NEW p \in Procs, job'[p].pc \in {"user", "freevm"}
  PROVE  GrowOK(p)' /\ CopyOK(p)' /\ ExecOK(p)'
  BY DEF GrowOK, CopyOK, ExecOK, Growing

\* A call of exec is not in the middle of anything else.
LEMMA ExecFlat ==
  ASSUME NEW p \in Procs, job'[p].pc \in {"segs", "args"} \/ (job'[p].pc = "alloc" /\ job'[p].next # "grown")
  PROVE  GrowOK(p)' /\ CopyOK(p)'
  BY DEF GrowOK, CopyOK, Growing

\* A step of a call of p that leaves the memory of p alone.
Side(p) ==
  /\ halted = {} /\ state[p] = "RUNNING" /\ ~Growing(p)
  /\ UNCHANGED <<state, as, sz, want, damaged, halted>>
  /\ \A r \in Procs \ {p} : job'[r] = job[r]
  /\ \A x \in Pages : x \notin free /\ x \notin PagesIn(job[p].space) => content'[x] = content[x]

\* Such a step has only to account for the call.
LEMMA FlatSide ==
  ASSUME OwnInv, FlatInv, NEW p \in Procs, Side(p), GrowOK(p)', CopyOK(p)', ExecOK(p)'
  PROVE  FlatInv'
  <1>1. /\ SpaceOK(as[p]) /\ free \cap PagesIn(as[p]) = {}
        /\ PagesIn(as[p]) \cap PagesIn(job[p].space) = {}
    BY Actor DEF Side
  <1>2. PagesIn(as[p]) \subseteq Pages
    BY <1>1, PagesInAre
  <1>3. \A x \in PagesIn(as[p]) : content'[x] = content[x]
    BY <1>1, <1>2 DEF Side
  <1>4. Kept(as[p])
    BY <1>1, <1>3, KeptIf
  <1>5. WantOK(p) /\ SizeOK(p)
    BY DEF FlatInv, FlatOK, Side
  <1>6. /\ ~Growing(p) /\ as'[p] = as[p] /\ sz'[p] = sz[p] /\ want'[p] = want[p]
        /\ (p \in damaged' <=> p \in damaged)
    BY DEF Side
  <1>7. WantOK(p)' /\ SizeOK(p)'
    BY <1>4, <1>5, <1>6, OwnSide
  <1>8. FlatOK(p)'
    BY <1>7 DEF FlatOK
  <1>9. OnlyActor(p)
    BY DEF Side, OnlyActor
  <1>10. HaltOnlyIfDamaged'
    BY NotHalted DEF Side
  <1>11. want' \in WantType
    BY DEF Side, FlatInv, WantType
  <1> QED
    BY <1>8, <1>9, <1>10, <1>11, FlatActor

\* Goto changes the call of p alone.
LEMMA GotoIs ==
  ASSUME OwnInv, NEW p \in Procs, NEW k, Goto(p, k)
  PROVE  job'[p] = k /\ \A r \in Procs \ {p} : job'[r] = job[r]
  <1>1. job \in [Procs -> JobType]
    BY DEF OwnInv, Typed
  <1> QED
    BY <1>1 DEF Goto

\* The call that ends in bad, or frees the old image, leaves the process with what it had.
LEMMA FlatBad ==
  ASSUME OwnInv, FlatInv, NEW p \in Procs, state[p] = "RUNNING", halted = {}, ~Growing(p),
         job[p].space # NoSpace, Bad(p)
  PROVE  FlatInv'
  <1>1. freevm(job[p].space) = PagesIn(job[p].space)
    BY Actor, FreeVm
  <1>2. job'[p] = Idle /\ \A r \in Procs \ {p} : job'[r] = job[r]
    BY GotoIs DEF Bad, Leave
  <1>3. job'[p].pc = "user"
    BY <1>2, IdleIs
  <1>4. GrowOK(p)' /\ CopyOK(p)' /\ ExecOK(p)'
    BY <1>3, IdleFlat
  <1>5. \A x \in Pages : x \notin PagesIn(job[p].space) => content'[x] = content[x]
    BY <1>1 DEF Bad, Junked
  <1>6. Side(p)
    BY <1>2, <1>5 DEF Side, Bad
  <1> QED
    BY <1>4, <1>6, FlatSide

\* exec_freevm
LEMMA FlatFreevm ==
  ASSUME OwnInv, FlatInv, NEW p \in Procs, exec_freevm(p)
  PROVE  FlatInv'
  <1>1. state[p] = "RUNNING" /\ halted = {} /\ job[p].pc = "freevm" /\ Bad(p)
    BY DEF exec_freevm, Running
  <1>2. JobOK(p)
    BY <1>1, Actor
  <1>3. ~Growing(p) /\ job[p].space # NoSpace
    BY <1>1, <1>2 DEF JobOK, Growing
  <1> QED
    BY <1>1, <1>3, FlatBad

\* exec: the new address space is empty.
LEMMA FlatExec ==
  ASSUME OwnInv, FlatInv, NEW p \in Procs, NEW img \in Images, exec(p, img)
  PROVE  FlatInv'
  <1>1. Running(p, "user")
    BY DEF exec, Called
  <1>2. state[p] = "RUNNING" /\ halted = {} /\ ~Growing(p)
    BY <1>1 DEF Running, Growing
  <1>3. free \subseteq Pages
    BY DEF OwnInv, Typed
  <1>4. CASE CanSetup(free)
    <2> DEFINE k == setupkvm(free)
               kj == [Idle EXCEPT !.pc = "segs", !.space = k.space, !.segs = img]
    <2>1. Goto(p, kj) /\ k = setupkvm(free)
      BY <1>4 DEF exec
    <2>2. SetUp(free, k)
      BY <1>3, <1>4, SetupKvm
    <2>3. kj.pc = "segs" /\ kj.space = k.space /\ kj.old = 0 /\ kj.hole = FALSE
      BY DEF Idle
    <2> HIDE DEF k, kj
    <2>4. job'[p] = kj /\ \A r \in Procs \ {p} : job'[r] = job[r]
      BY <2>1, GotoIs
    <2>5. job'[p].pc = "segs" /\ job'[p].old = 0 /\ \A v \in VPages : job'[p].space.pte[v] = NoPte
      BY <2>2, <2>3, <2>4 DEF SetUp
    <2>6. GrowOK(p)' /\ CopyOK(p)'
      BY <2>5, ExecFlat
    <2>7. PGROUNDUP(0) = 0 /\ VPages \subseteq Nat
      BY RoundWhole, VPagesAre, Sizes
    <2>8. ExecOK(p)'
      BY <2>5, <2>7 DEF ExecOK, Built
    <2>9. Side(p)
      BY <1>2, <2>4 DEF Side, exec
    <2> QED
      BY <2>6, <2>8, <2>9, FlatSide
  <1>5. CASE ~CanSetup(free)
    <2>1. Goto(p, Idle)
      BY <1>5 DEF exec
    <2>2. job'[p] = Idle /\ \A r \in Procs \ {p} : job'[r] = job[r]
      BY <2>1, GotoIs
    <2>3. job'[p].pc = "user"
      BY <2>2, IdleIs
    <2>4. GrowOK(p)' /\ CopyOK(p)' /\ ExecOK(p)'
      BY <2>3, IdleFlat
    <2>5. Side(p)
      BY <1>2, <2>2 DEF Side, exec
    <2> QED
      BY <2>4, <2>5, FlatSide
  <1> QED
    BY <1>4, <1>5

\* A process that the kernel may halt for.
HaltFor(p) == p \in damaged \/ (job[p].pc \in {"alloc", "args"} /\ job[p].hole)

\* Halting changes nothing else.
LEMMA FlatHalt ==
  ASSUME OwnInv, FlatInv, NEW p \in Procs, NEW b \in BOOLEAN, Halt(p, b), b \/ HaltFor(p)
  PROVE  FlatInv'
  <1>1. HaltOnlyIfDamaged'
    BY DEF Halt, HaltFor, HaltOnlyIfDamaged
  <1>2. \A r \in Procs : Alone(r)
    BY DEF Halt, Alone, Untouched
  <1>3. want' \in WantType
    BY DEF Halt, FlatInv, WantType
  <1> DEFINE Q == {}
  <1>4. (\A r \in Procs \ Q : Alone(r)) /\ \A r \in Procs \cap Q : state'[r] = "RUNNING" => FlatOK(r)'
    BY <1>2
  <1> HIDE DEF Q
  <1> QED
    BY <1>1, <1>3, <1>4, FlatStep

\* The loop of allocuvm is over when it has been through the new size.
LEMMA AllThrough ==
  ASSUME NEW a \in Nat, NEW n \in Nat, ~(a * PGSIZE < n), a <= PGROUNDUP(n)
  PROVE  a = PGROUNDUP(n)
  <1>1. PGROUNDUP(n) \in Nat /\ (a * PGSIZE < n <=> a < PGROUNDUP(n))
    BY RoundUp
  <1> QED
    BY <1>1

\* exec_next
LEMMA FlatExecNext ==
  ASSUME OwnInv, FlatInv, NEW p \in Procs, exec_next(p)
  PROVE  FlatInv'
  <1> DEFINE j == job[p]
             new == IF j.segs = <<>> THEN (PGROUNDUP(j.old) + 2) * PGSIZE
                    ELSE SegmentEnd(j.segs[1])
             next == IF j.segs = <<>> THEN "stack" ELSE "load"
             k == Allocate(j, j.old, new, next)
  <1>1. state[p] = "RUNNING" /\ halted = {} /\ j.pc = "segs"
    BY DEF exec_next, Running
  <1>2. JobOK(p) /\ j \in JobType
    BY <1>1, Actor
  <1>3. ~Growing(p) /\ j.space # NoSpace /\ j.old < KERNBASE /\ j.old \in Nat
    BY <1>1, <1>2 DEF JobOK, Growing, JobType
  <1>4. new \in Nat
    BY <1>1, <1>2, <1>3, ExecSize
  <1>5. \/ Bad(p)
        \/ /\ Goto(p, k) /\ UNCHANGED <<content, state, as, sz, want, damaged, halted>>
           /\ j.segs # <<>> => Sized(j.segs[1])
    BY DEF exec_next
  <1>6. CASE Bad(p)
    BY <1>1, <1>3, <1>6, FlatBad
  <1>7. CASE /\ Goto(p, k) /\ UNCHANGED <<content, state, as, sz, want, damaged, halted>>
             /\ j.segs # <<>> => Sized(j.segs[1])
    <2>1. /\ next \in {"grown", "load", "stack"} /\ next # "grown"
          /\ next = "load" => new = SegmentEnd(j.segs[1]) /\ Sized(j.segs[1])
      BY <1>7
    <2>2. k = Allocate(j, j.old, new, next)
      OBVIOUS
    <2>3. ExecOK(p)
      BY <1>1 DEF FlatInv, FlatOK
    <2>4. /\ ~j.hole => \A v \in VPages : j.space.pte[v] # NoPte <=> v < PGROUNDUP(j.old)
          /\ \A v \in VPages : j.space.pte[v] # NoPte => j.space.pte[v].u
      BY <1>1, <2>3 DEF ExecOK, Built
    <2> HIDE DEF new, next, k
    <2>5. AllocateJob(j, j.old, new, next, k)
      BY <1>2, <1>3, <1>4, <2>1, <2>2, AllocateIs
    <2>6. job'[p] = k /\ \A r \in Procs \ {p} : job'[r] = job[r]
      BY <1>7, GotoIs
    <2>7. k.new \in Nat /\ j.old <= k.new
      BY <2>5 DEF AllocateJob, JobType
    <2>8. PGROUNDUP(j.old) <= PGROUNDUP(k.new) /\ PGROUNDUP(j.old) \in Nat
      BY <1>3, <2>7, RoundMono, RoundUp
    <2>9. /\ job'[p].pc = "alloc" /\ job'[p].space = j.space /\ job'[p].old = j.old /\ job'[p].hole = j.hole
          /\ job'[p].next = next /\ job'[p].segs = j.segs /\ job'[p].a = PGROUNDUP(j.old)
          /\ new <= job'[p].new /\ job'[p].new = k.new
      BY <2>5, <2>6 DEF AllocateJob
    <2>10. GrowOK(p)' /\ CopyOK(p)'
      BY <2>1, <2>9, ExecFlat
    <2>11. job'[p].next = "load" => job'[p].new >= SegmentEnd(job'[p].segs[1]) /\ Sized(job'[p].segs[1])
      BY <1>4, <2>1, <2>7, <2>9
    <2>12. PGROUNDUP(job'[p].old) <= job'[p].a /\ job'[p].a <= PGROUNDUP(job'[p].new)
      BY <2>8, <2>9
    <2>13. ~job'[p].hole => \A v \in VPages : job'[p].space.pte[v] # NoPte <=> v < job'[p].a
      BY <2>4, <2>9
    <2>14. \A v \in VPages : job'[p].space.pte[v] # NoPte => job'[p].space.pte[v].u
      BY <2>4, <2>9
    <2>15. ExecOK(p)'
      BY <2>9, <2>11, <2>12, <2>13, <2>14 DEF ExecOK, Built
    <2>16. Side(p)
      BY <1>1, <1>3, <1>7, <2>6 DEF Side
    <2> QED
      BY <2>10, <2>15, <2>16, FlatSide
  <1> QED
    BY <1>5, <1>6, <1>7

\* Where exec has built: what ExecOK says when the loop is over.
LEMMA AllBuilt ==
  ASSUME OwnInv, FlatInv, NEW p \in Procs, Running(p, "alloc"), job[p].next # "grown",
         ~(job[p].a * PGSIZE < job[p].new)
  PROVE  /\ state[p] = "RUNNING" /\ halted = {} /\ ~Growing(p) /\ job[p].space # NoSpace
         /\ JobOK(p) /\ job[p] \in JobType /\ SpaceOK(job[p].space) /\ job[p].new \in Nat /\ job[p].new < KERNBASE
         /\ job[p].a = PGROUNDUP(job[p].new)
         /\ ~job[p].hole => \A v \in VPages : job[p].space.pte[v] # NoPte <=> v < PGROUNDUP(job[p].new)
         /\ \A v \in VPages : job[p].space.pte[v] # NoPte => job[p].space.pte[v].u
         /\ job[p].next = "load" => job[p].new >= SegmentEnd(job[p].segs[1]) /\ Sized(job[p].segs[1])
  <1> DEFINE j == job[p]
  <1>1. state[p] = "RUNNING" /\ halted = {} /\ j.pc = "alloc" /\ ~Growing(p)
    BY DEF Running, Growing
  <1>2. JobOK(p) /\ j \in JobType /\ SpaceOK(j.space)
    BY <1>1, Actor
  <1>3. j.space # NoSpace /\ j.new < KERNBASE /\ j.new \in Nat /\ j.a \in Nat
    BY <1>1, <1>2 DEF JobOK, JobType
  <1>4. ExecOK(p)
    BY <1>1 DEF FlatInv, FlatOK
  <1>5. /\ ~j.hole => \A v \in VPages : j.space.pte[v] # NoPte <=> v < j.a
        /\ \A v \in VPages : j.space.pte[v] # NoPte => j.space.pte[v].u
        /\ j.a <= PGROUNDUP(j.new)
        /\ j.next = "load" => j.new >= SegmentEnd(j.segs[1]) /\ Sized(j.segs[1])
    BY <1>1, <1>4 DEF ExecOK, Built
  <1>6. j.a = PGROUNDUP(j.new)
    BY <1>3, <1>5, AllThrough
  <1> QED
    BY <1>1, <1>2, <1>3, <1>5, <1>6

\* The page of an address below n lies below PGROUNDUP(n).
LEMMA PageBelow ==
  ASSUME NEW v \in Nat, NEW x \in Nat, NEW n \in Nat, v * PGSIZE < x, x <= n
  PROVE  v < PGROUNDUP(n)
  <1>1. v * PGSIZE \in Nat /\ v * PGSIZE < n
    BY Sizes
  <1> QED
    BY <1>1, RoundUp

\* An address that lies below n is in a page below PGROUNDUP(n).
LEMMA AddressPage ==
  ASSUME NEW x \in Nat, NEW n \in Nat, x < n
  PROVE  x \div PGSIZE \in Nat /\ x \div PGSIZE < PGROUNDUP(n)
  <1> DEFINE q == x \div PGSIZE
  <1>1. q \in Nat /\ PGSIZE * q <= x /\ PGSIZE * q = q * PGSIZE
    <2>1. q \in Nat /\ x % PGSIZE \in 0 .. PGSIZE - 1 /\ x = PGSIZE * q + (x % PGSIZE)
      BY Euclid, Sizes
    <2> HIDE DEF q
    <2>2. PGSIZE * q \in Nat /\ PGSIZE * q = q * PGSIZE /\ x % PGSIZE \in Nat
      BY <2>1, Sizes
    <2> QED
      BY <2>1, <2>2
  <1> HIDE DEF q
  <1>2. q * PGSIZE < n /\ q * PGSIZE \in Nat
    BY <1>1, Sizes
  <1>3. q < PGROUNDUP(n)
    BY <1>1, <1>2, RoundUp
  <1> QED
    BY <1>1, <1>3 DEF q

\* A number below the modulus is its own remainder.
LEMMA ModSmall ==
  ASSUME NEW m \in Nat \ {0}, NEW x \in Nat, x < m
  PROVE  x % m = x
  <1>1. x \in 0 .. m - 1 /\ x = m * 0 + x /\ 0 \in Int /\ x \in Int
    OBVIOUS
  <1> QED
    BY <1>1, ModIs

\* The pages up to a size below KERNBASE are pages of the user.
LEMMA BelowKernel ==
  ASSUME NEW n \in Nat, n < KERNBASE, NEW v \in Nat, v < PGROUNDUP(n)
  PROVE  v \in VPages
  <1>1. v * PGSIZE < n
    BY RoundUp
  <1>2. v * PGSIZE \in Nat /\ KERNBASE \in Nat
    BY Sizes
  <1>3. v * PGSIZE < KERNBASE
    BY <1>1, <1>2
  <1> QED
    BY <1>3, VPagesAre

\* loaduvm: with no hole in the image there is a page for every part of the segment.
LEMMA FlatLoad ==
  ASSUME OwnInv, FlatInv, NEW p \in Procs, loaduvm(p)
  PROVE  FlatInv'
  <1> DEFINE j == job[p]
             V == LoadPages(j.segs[1])
             k == [j EXCEPT !.pc = "segs", !.segs = Tail(@), !.old = j.new]
  <1>1. Running(p, "alloc") /\ j.pc = "alloc" /\ j.next = "load" /\ j.a * PGSIZE >= j.new
    BY DEF loaduvm, Running
  <1>2. /\ state[p] = "RUNNING" /\ halted = {} /\ JobOK(p) /\ j \in JobType /\ SpaceOK(j.space)
    BY <1>1, Actor DEF Running
  <1>3. j.a \in Nat /\ j.new \in Nat
    BY <1>2 DEF JobType
  <1>4. ~(j.a * PGSIZE < j.new)
    BY <1>1, <1>3, Sizes
  <1>5. /\ ~Growing(p) /\ j.space # NoSpace /\ j.a = PGROUNDUP(j.new)
        /\ ~j.hole => \A v \in VPages : j.space.pte[v] # NoPte <=> v < PGROUNDUP(j.new)
        /\ \A v \in VPages : j.space.pte[v] # NoPte => j.space.pte[v].u
        /\ j.new >= SegmentEnd(j.segs[1]) /\ Sized(j.segs[1]) /\ j.new < KERNBASE
    BY <1>1, <1>4, AllBuilt
  <1>6. j.segs # <<>> /\ j.segs \in Seq(Segment)
    BY <1>1, <1>2 DEF JobOK, JobType
  <1>7. j.segs[1] \in Segment
    <2>1. Len(j.segs) \in Nat \ {0}
      BY <1>6
    <2> QED
      BY <1>6, <2>1
  <1>8. ASSUME ~Malformed(j.segs[1])
        PROVE  j.segs[1].vaddr % PGSIZE = 0 /\ V \subseteq VPages /\ \A v \in V : v < PGROUNDUP(j.new)
    <2> DEFINE g == j.segs[1]
               m == 2 * KERNBASE
    <2>1. g.vaddr \in Nat /\ g.memsz \in Nat /\ g.filesz \in Nat /\ g.filesz <= g.memsz
      BY <1>5, <1>7 DEF Segment, Uint, Sized
    <2>2. m \in Nat \ {0} /\ g.vaddr + g.memsz < m /\ g.vaddr + g.memsz \in Nat
      BY <1>8, <2>1, Sizes DEF Malformed
    <2>3. SegmentEnd(g) = g.vaddr + g.memsz
      <3> DEFINE x == g.vaddr + g.memsz
      <3>1. x \in Nat /\ x < m /\ SegmentEnd(g) = x % m
        BY <2>2 DEF SegmentEnd
      <3> HIDE DEF x, m
      <3> QED
        BY <2>2, <3>1, ModSmall DEF x
    <2>4. ASSUME NEW v \in V PROVE v \in VPages /\ v < PGROUNDUP(j.new)
      <3>1. PICK i \in 0 .. g.filesz - 1 : v = ((g.vaddr + i) % m) \div PGSIZE
        BY DEF LoadPages
      <3> DEFINE x == g.vaddr + i
      <3>2. x \in Nat /\ x < g.vaddr + g.memsz
        BY <2>1
      <3>3. x < j.new
        BY <1>3, <1>5, <2>1, <2>3, <3>2
      <3>4. x < m
        BY <2>1, <2>2, <3>2
      <3>5. v = (x % m) \div PGSIZE
        BY <3>1
      <3> HIDE DEF x, m
      <3>6. v = x \div PGSIZE
        BY <2>2, <3>2, <3>4, <3>5, ModSmall
      <3>7. v \in Nat /\ v < PGROUNDUP(j.new)
        BY <1>3, <3>2, <3>3, <3>6, AddressPage
      <3> QED
        BY <1>3, <1>5, <3>7, BelowKernel
    <2> QED
      BY <1>8, <2>4 DEF Malformed
  <1>9. CASE /\ ~(j.segs[1].vaddr % PGSIZE = 0 /\ \A v \in V : ~Missing(j.space, v))
             /\ Halt(p, Malformed(j.segs[1]))
    <2>1. CASE Malformed(j.segs[1])
      BY <1>9, <2>1, FlatHalt DEF Malformed
    <2>2. CASE ~Malformed(j.segs[1])
      <3>1. PICK v \in V : Missing(j.space, v)
        BY <1>8, <1>9, <2>2
      <3>2. v \in VPages /\ v < PGROUNDUP(j.new) /\ j.space.pte[v] = NoPte
        BY <1>8, <2>2, <3>1 DEF Missing
      <3>3. j.hole
        BY <1>5, <3>2
      <3>4. HaltFor(p)
        BY <1>1, <3>3 DEF HaltFor
      <3> QED
        BY <1>9, <3>4, FlatHalt DEF Malformed
    <2> QED
      BY <2>1, <2>2
  <1>10. CASE Bad(p)
    BY <1>2, <1>5, <1>10, FlatBad
  <1>11. CASE /\ \A v \in V : ~Missing(j.space, v)
              /\ content' = [q \in Pages |-> IF q \in UserPages(j.space, V) THEN "text" ELSE content[q]]
              /\ Goto(p, k)
              /\ UNCHANGED <<free, state, parent, kstack, as, sz, cr3, want, damaged,
                             tabfailed, halted, calls>>
    <2>1. Tail(j.segs) \in Seq(Segment)
      BY <1>6, HeadTailProperties
    <2>2. k.pc = "segs" /\ k.space = j.space /\ k.old = j.new /\ k.hole = j.hole
      BY <1>2, <2>1 DEF JobType
    <2>3. UserPages(j.space, V) \subseteq PagesIn(j.space)
      BY <1>11 DEF UserPages, PagesIn, Missing
    <2> HIDE DEF V, k
    <2>4. job'[p] = k /\ \A r \in Procs \ {p} : job'[r] = job[r]
      BY <1>11, GotoIs
    <2>5. job'[p].pc = "segs" /\ job'[p].space = j.space /\ job'[p].old = j.new /\ job'[p].hole = j.hole
      BY <2>2, <2>4
    <2>6. GrowOK(p)' /\ CopyOK(p)'
      BY <2>5, ExecFlat
    <2>7. ExecOK(p)'
      BY <1>5, <2>5 DEF ExecOK, Built
    <2>8. \A x \in Pages : x \notin PagesIn(j.space) => content'[x] = content[x]
      BY <1>11, <2>3
    <2>9. Side(p)
      BY <1>2, <1>5, <1>11, <2>4, <2>8 DEF Side
    <2> QED
      BY <2>6, <2>7, <2>9, FlatSide
  <1> QED
    BY <1>9, <1>10, <1>11 DEF loaduvm

\* A page that is mapped has a page table.
LEMMA MappedHasTable ==
  ASSUME NEW s, SpaceOK(s), NEW v \in VPages, s.pte[v] # NoPte
  PROVE  HasTable(s, v)
  BY SpaceFields DEF SpaceOK

\* clearpteu: with no hole in the image there is a page under the stack.
LEMMA FlatClear ==
  ASSUME OwnInv, FlatInv, NEW p \in Procs, clearpteu(p)
  PROVE  FlatInv'
  <1> DEFINE j == job[p]
             g == PGROUNDUP(j.new) - 2
             s == Guarded(j.space, g)
             k == [j EXCEPT !.pc = "args", !.space = s]
  <1>1. Running(p, "alloc") /\ j.pc = "alloc" /\ j.next = "stack" /\ j.a * PGSIZE >= j.new
    BY DEF clearpteu, Running
  <1>2. /\ state[p] = "RUNNING" /\ halted = {} /\ JobOK(p) /\ j \in JobType /\ SpaceOK(j.space)
    BY <1>1, Actor DEF Running
  <1>3. j.a \in Nat /\ j.new \in Nat
    BY <1>2 DEF JobType
  <1>4. ~(j.a * PGSIZE < j.new)
    BY <1>1, <1>3, Sizes
  <1>5. /\ ~Growing(p) /\ j.space # NoSpace /\ j.a = PGROUNDUP(j.new)
        /\ ~j.hole => \A v \in VPages : j.space.pte[v] # NoPte <=> v < PGROUNDUP(j.new)
        /\ \A v \in VPages : j.space.pte[v] # NoPte => j.space.pte[v].u
    BY <1>1, <1>4, AllBuilt
  <1>6. j.new < KERNBASE /\ j.new = (PGROUNDUP(j.old) + 2) * PGSIZE
    BY <1>1, <1>2 DEF JobOK, Growing
  <1>7. g \in VPages /\ g < PGROUNDUP(j.new)
    <2>1. g \in VPages /\ PGROUNDUP(j.new) \in Nat
      <3> HIDE DEF j
      <3> QED
        BY <1>2, <1>3, <1>6, GuardPage, RoundUp
    <2> QED
      BY <2>1
  <1>8. CASE ~HasTable(j.space, g) /\ Halt(p, FALSE)
    <2>1. j.hole
      BY <1>2, <1>5, <1>7, <1>8, MappedHasTable
    <2>2. HaltFor(p)
      BY <1>1, <2>1 DEF HaltFor
    <2> QED
      BY <1>8, <2>2, FlatHalt
  <1>9. CASE /\ Goto(p, k)
             /\ UNCHANGED <<free, content, state, parent, kstack, as, sz, cr3, want,
                            damaged, tabfailed, halted, calls>>
    <2>1. k = [j EXCEPT !.pc = "args", !.space = s] /\ s = Guarded(j.space, g) /\ g = PGROUNDUP(j.new) - 2
      OBVIOUS
    <2>2. k.pc = "args" /\ k.space = s /\ k.new = j.new /\ k.hole = j.hole
      BY <1>2 DEF JobType
    <2> HIDE DEF g, s, k
    <2>3. /\ \A v \in VPages : (v # g => s.pte[v] = j.space.pte[v]) /\ (s.pte[v] = NoPte <=> j.space.pte[v] = NoPte)
          /\ s.pte[g].u = FALSE
      <3>1. SpaceOK(j.space) /\ j.space # NoSpace /\ g \in VPages /\ s = Guarded(j.space, g)
        BY <1>2, <1>5, <1>7, <2>1
      <3>2. GuardedAt(j.space, g, s)
        <4> HIDE DEF j
        <4> QED
          BY <3>1, Guard
      <3> QED
        BY <3>2 DEF GuardedAt
    <2>4. job'[p] = k /\ \A r \in Procs \ {p} : job'[r] = job[r]
      BY <1>9, GotoIs
    <2>5. job'[p].pc = "args" /\ job'[p].space = s /\ job'[p].new = j.new /\ job'[p].hole = j.hole
      BY <2>2, <2>4
    <2>6. GrowOK(p)' /\ CopyOK(p)'
      BY <2>5, ExecFlat
    <2>7. ~job'[p].hole => \A v \in VPages : job'[p].space.pte[v] # NoPte <=> v < PGROUNDUP(job'[p].new)
      BY <1>5, <2>3, <2>5
    <2>8. \A v \in VPages : job'[p].space.pte[v] # NoPte => (job'[p].space.pte[v].u <=> ~(v = PGROUNDUP(job'[p].new) - 2))
      BY <1>5, <2>1, <2>3, <2>5
    <2>9. ExecOK(p)'
      BY <2>5, <2>7, <2>8 DEF ExecOK, Built
    <2>10. Side(p)
      BY <1>2, <1>5, <1>9, <2>4 DEF Side
    <2> QED
      BY <2>6, <2>9, <2>10, FlatSide
  <1> QED
    BY <1>8, <1>9 DEF clearpteu

\* Quotients of integers are monotonic.
LEMMA DivMono ==
  ASSUME NEW m \in Nat \ {0}, NEW a \in Int, NEW b \in Int, a <= b
  PROVE  a \div m \in Int /\ b \div m \in Int /\ a \div m <= b \div m
  <1> DEFINE q == a \div m
             r == a % m
             x == b \div m
             y == b % m
  <1>1. /\ q \in Int /\ r \in 0 .. m - 1 /\ a = m * q + r
        /\ x \in Int /\ y \in 0 .. m - 1 /\ b = m * x + y
    OBVIOUS
  <1> HIDE DEF q, r, x, y
  <1>2. ASSUME x < q PROVE FALSE
    <2>1. q - x \in Nat /\ q - x >= 1
      BY <1>1, <1>2
    <2>2. m * 1 <= m * (q - x)
      BY <2>1, MulMono
    <2>3. m * (q - x) = m * q - m * x /\ m * q \in Int /\ m * x \in Int
      BY <1>1
    <2> QED
      BY <1>1, <2>2, <2>3
  <1> QED
    BY <1>1, <1>2 DEF q, x

\* copyout writes to v when it copies n bytes below new.
Copied(new, n, v) == \E i \in 1 .. n : v = (new - i) \div PGSIZE

BadPages(s, new, n) == {v \in {(new - i) \div PGSIZE : i \in 1 .. n} : NoUserPage(s, v)}

\* The lowest of the pages that are closed to copyout is one of them.
LEMMA LowestBad ==
  ASSUME NEW new \in Nat, NEW n \in Nat, NEW s, NEW bad, bad = BadPages(s, new, n), bad # {}
  PROVE  Copied(new, n, Min(bad))
  <1>0. bad = {v \in {(new - i) \div PGSIZE : i \in 1 .. n} : NoUserPage(s, v)}
    BY DEF BadPages
  <1> DEFINE I == {i \in 1 .. n : NoUserPage(s, (new - i) \div PGSIZE)}
  <1>1. I \subseteq 0 .. n /\ I # {}
    <2>1. I \subseteq 0 .. n
      OBVIOUS
    <2>2. PICK v \in bad : TRUE
      OBVIOUS
    <2>3. \E i \in 1 .. n : v = (new - i) \div PGSIZE /\ NoUserPage(s, v)
      BY <1>0
    <2>4. I # {}
      BY <2>3
    <2> QED
      BY <2>1, <2>4
  <1>2. PICK i \in I : \A k \in I : i >= k
    BY <1>1, GreatestOf
  <1>3. i \in 1 .. n /\ (new - i) \div PGSIZE \in bad
    BY <1>0
  <1>4. ASSUME NEW y \in bad PROVE (new - i) \div PGSIZE <= y
    <2>1. PICK k \in 1 .. n : y = (new - k) \div PGSIZE /\ k \in I
      BY <1>0
    <2>2. new - i \in Int /\ new - k \in Int /\ new - i <= new - k
      BY <1>2, <1>3, <2>1
    <2> QED
      BY <2>1, <2>2, DivMono, Sizes
  <1>5. \E x \in bad : \A y \in bad : x <= y
    BY <1>3, <1>4
  <1>6. Min(bad) \in bad
    BY <1>5 DEF Min
  <1> QED
    BY <1>0, <1>6 DEF Copied

\* The last byte below whole pages is in the last of them.
LEMMA LastPage ==
  ASSUME NEW k \in Nat, k > 0
  PROVE  k * PGSIZE \in Nat /\ (k * PGSIZE - 1) \div PGSIZE = k - 1
  <1> DEFINE m == PGSIZE
             x == k * m - 1
  <1>1. m \in Nat \ {0} /\ k * m = m * k /\ m * k \in Nat
    BY Sizes
  <1>2. m * 1 <= m * k
    BY <1>1, MulMono
  <1>3. x \in Nat /\ x < m * k
    BY <1>1, <1>2
  <1>4. m * (k - 1) = m * k - m /\ k - 1 \in Nat
    BY <1>1
  <1>5. ~(x < m * (k - 1))
    BY <1>1, <1>3, <1>4
  <1> HIDE DEF m, x
  <1>6. x \div m < k /\ ~(x \div m < k - 1)
    BY <1>1, <1>3, <1>4, <1>5, DivBound
  <1>7. x \div m \in Nat
    BY <1>1, <1>3, Euclid
  <1>8. x \div m = k - 1
    BY <1>4, <1>6, <1>7
  <1> QED
    BY <1>1, <1>8 DEF x, m

\* What exec promises is what it has built.
LEMMA ImageType ==
  ASSUME OwnInv, NEW s, SpaceOK(s), NEW n \in Nat
  PROVE  ImageOf(s, n) \in [VPages -> [val : Values \cup {"none"}, u : BOOLEAN]]
  <1> SUFFICES ASSUME NEW v \in VPages
               PROVE  ImageOf(s, n)[v] \in [val : Values \cup {"none"}, u : BOOLEAN]
    BY DEF ImageOf
  <1>1. NoVal \in [val : Values \cup {"none"}, u : BOOLEAN]
    BY DEF NoVal
  <1>2. CASE v \notin PagesOf(n) \/ s.pte[v] = NoPte
    BY <1>1, <1>2 DEF ImageOf
  <1>3. CASE ~(v \notin PagesOf(n) \/ s.pte[v] = NoPte)
    <2>1. s.pte[v].pa \in Pages
      BY <1>3, SpaceFields DEF Frames
    <2>2. content[s.pte[v].pa] \in Values /\ "args" \in Values
      BY <2>1 DEF OwnInv, Typed, Values
    <2> DEFINE a == v # PGROUNDUP(n) - 2
               b == IF v = PGROUNDUP(n) - 1 THEN "args" ELSE content[s.pte[v].pa]
    <2>3. ImageOf(s, n)[v] = [u |-> a, val |-> b]
      BY <1>3 DEF ImageOf
    <2>4. a \in BOOLEAN /\ b \in Values
      BY <2>2
    <2> HIDE DEF a, b
    <2> QED
      BY <2>3, <2>4
  <1> QED
    BY <1>2, <1>3

\* exec_args: the arguments go to the last page, and the process has what exec has built.
LEMMA FlatArgs ==
  ASSUME OwnInv, FlatInv, NEW p \in Procs, NEW n \in ArgSizes, exec_args(p, n)
  PROVE  FlatInv'
  <1> DEFINE j == job[p]
             s == j.space
             P == PGROUNDUP(j.new)
             V == {(j.new - i) \div PGSIZE : i \in 1 .. n}
             bad == {v \in V : NoUserPage(s, v)}
             null == Min(bad) \in VPages /\ ~HasTable(s, Min(bad))
             top == s.pte[P - 1].pa
             k == [Idle EXCEPT !.pc = "freevm", !.space = as[p]]
  <1>1. state[p] = "RUNNING" /\ halted = {} /\ j.pc = "args"
    BY DEF exec_args, Running
  <1>2. /\ SpaceOK(s) /\ JobOK(p) /\ j \in JobType /\ free \cap PagesIn(s) = {}
        /\ SpaceOK(as[p]) /\ as[p] # NoSpace
    BY <1>1, Actor
  <1>3. s # NoSpace /\ j.new < KERNBASE /\ j.new = (PGROUNDUP(j.old) + 2) * PGSIZE /\ ~Growing(p)
    BY <1>1, <1>2 DEF JobOK, Growing
  <1>4. /\ j.new \in Nat /\ P \in Nat /\ P >= 2 /\ P - 2 \in VPages /\ P - 1 \in VPages
        /\ j.new = P * PGSIZE
    <2>1. /\ PGROUNDUP(j.old) \in Nat /\ j.new \in Nat /\ P = PGROUNDUP(j.old) + 2
          /\ P - 2 \in VPages /\ P - 1 \in VPages
      <3> HIDE DEF j
      <3> QED
        BY <1>2, <1>3, GuardPage
    <2> HIDE DEF P
    <2> QED
      BY <1>3, <2>1
  <1>5. n \in Nat \ {0}
    BY MemoryAssumption
  <1>6. ExecOK(p)
    BY <1>1 DEF FlatInv, FlatOK
  <1>7. /\ ~j.hole => \A v \in VPages : s.pte[v] # NoPte <=> v < P
        /\ \A v \in VPages : s.pte[v] # NoPte => (s.pte[v].u <=> ~(v = P - 2))
    BY <1>1, <1>6 DEF ExecOK, Built
  <1>8. CASE bad # {} /\ null /\ Halt(p, FALSE)
    <2>1. bad = {v \in {(j.new - i) \div PGSIZE : i \in 1 .. n} : NoUserPage(s, v)}
      OBVIOUS
    <2>2. PICK i \in 1 .. n : Min(bad) = (j.new - i) \div PGSIZE
      <3>1. j.new \in Nat /\ n \in Nat /\ bad # {}
        BY <1>4, <1>5, <1>8
      <3>2. bad = BadPages(s, j.new, n)
        BY <2>1 DEF BadPages
      <3> HIDE DEF bad, V, s, j
      <3>3. Copied(j.new, n, Min(bad))
        BY <3>1, <3>2, LowestBad
      <3> QED
        BY <3>3 DEF Copied
    <2>3. Min(bad) \in VPages /\ ~HasTable(s, Min(bad))
      BY <1>8
    <2>4. Min(bad) < P
      <3> DEFINE x == j.new - 1
      <3>1. x \in Int /\ j.new - i \in Int /\ j.new - i <= x
        BY <1>4, <1>5
      <3>2. (j.new - i) \div PGSIZE <= x \div PGSIZE
        BY <3>1, DivMono, Sizes
      <3>3. x \div PGSIZE = P - 1
        BY <1>4, LastPage
      <3>4. Min(bad) \in Nat
        BY <2>3, VPagesAre
      <3> HIDE DEF x, bad, P
      <3> QED
        BY <1>4, <2>2, <3>2, <3>3, <3>4
    <2> HIDE DEF bad
    <2>5. j.hole
      BY <1>2, <1>7, <2>3, <2>4, MappedHasTable
    <2>6. HaltFor(p)
      BY <1>1, <2>5 DEF HaltFor
    <2> QED
      BY <1>8, <2>6, FlatHalt
  <1>9. CASE Bad(p)
    BY <1>1, <1>3, <1>9, FlatBad
  <1>10. CASE /\ bad = {}
              /\ content' = [content EXCEPT ![top] = "args"]
              /\ as' = [as EXCEPT ![p] = s]
              /\ sz' = [sz EXCEPT ![p] = j.new]
              /\ damaged' = IF j.hole THEN damaged \cup {p} ELSE damaged \ {p}
              /\ want' = [want EXCEPT ![p] = ImageOf(s, j.new)]
              /\ Goto(p, k)
              /\ UNCHANGED <<free, state, parent, kstack, tabfailed, halted, calls>>
    <2>1. top \in Pages /\ top \in PagesIn(s)
      <3>1. 1 \in 1 .. n /\ (j.new - 1) \div PGSIZE = P - 1
        BY <1>4, <1>5, LastPage
      <3>2. P - 1 \in V
        BY <3>1
      <3>3. ~NoUserPage(s, P - 1)
        BY <1>10, <3>2
      <3>4. s.pte[P - 1].u
        BY <3>3 DEF NoUserPage
      <3>5. s.pte[P - 1] # NoPte
        BY <3>4 DEF NoPte
      <3>6. top # NoPage /\ top \in Frames
        BY <1>2, <1>4, <3>5, SpaceFields
      <3>7. top \in PagesIn(s)
        BY <1>2, <1>4, <3>6, PagesInAre
      <3> QED
        BY <3>6, <3>7 DEF Frames
    <2>2. k.pc = "freevm"
      BY IdleIs DEF Idle
    <2> HIDE DEF k
    <2>3. job'[p] = k /\ \A r \in Procs \ {p} : job'[r] = job[r]
      BY <1>10, GotoIs
    <2>4. GrowOK(p)' /\ CopyOK(p)' /\ ExecOK(p)'
      BY <2>2, <2>3, IdleFlat
    <2>5. /\ content \in [Pages -> Values] /\ as \in [Procs -> SpaceType] /\ sz \in [Procs -> 0 .. KERNBASE - 1]
          /\ want \in WantType
      BY DEF OwnInv, Typed, FlatInv, WantType
    <2>6. content'[top] = "args" /\ \A x \in Pages : x # top => content'[x] = content[x]
      BY <1>10, <2>1, <2>5
    <2>7. /\ as'[p] = s /\ \A r \in Procs \ {p} : as'[r] = as[r]
          /\ sz'[p] = j.new /\ \A r \in Procs \ {p} : sz'[r] = sz[r]
      BY <1>10, <2>5
    <2>8. want'[p] = ImageOf(s, j.new) /\ \A r \in Procs \ {p} : want'[r] = want[r]
      BY <1>10, <2>5 DEF WantType
    <2>9. want' \in WantType
      <3>1. ImageOf(s, j.new) \in [VPages -> [val : Values \cup {"none"}, u : BOOLEAN]]
        BY <1>2, <1>4, ImageType
      <3> HIDE DEF s, j
      <3> QED
        BY <1>10, <2>5, <3>1 DEF WantType
    <2>10. /\ P \in Nat
           /\ \A v \in VPages : v \in Nat /\ (v \in PagesOf(j.new) <=> v < P)
      BY <1>4, InPages
    <2>11. WantOK(p)'
      <3>1. ASSUME NEW v \in VPages, v \in PagesOf(j.new), s.pte[v] # NoPte
            PROVE  ImageOf(s, j.new)[v] = [val |-> content'[s.pte[v].pa], u |-> s.pte[v].u]
        <4>1. s.pte[v].pa \in Pages /\ s.pte[v].u \in BOOLEAN /\ s.pte[v].pa # NoPage
          BY <1>2, <3>1, SpaceFields DEF Frames
        <4>2. s.pte[v].u = (v # P - 2)
          BY <1>7, <3>1, <4>1
        <4>3. v = P - 1 => content'[s.pte[v].pa] = "args"
          BY <2>6
        <4>4. ASSUME v # P - 1 PROVE content'[s.pte[v].pa] = content[s.pte[v].pa]
          <5>1. s.pte[v].pa # top
            BY <1>2, <1>4, <4>1, <4>4 DEF SpaceOK, Separate
          <5> QED
            BY <2>6, <4>1, <5>1
        <4>5. content'[s.pte[v].pa] = IF v = P - 1 THEN "args" ELSE content[s.pte[v].pa]
          BY <4>3, <4>4
        <4>6. ImageOf(s, j.new)[v] = [u |-> v # P - 2,
                                      val |-> IF v = P - 1 THEN "args" ELSE content[s.pte[v].pa]]
          BY <3>1 DEF ImageOf
        <4> HIDE DEF P, s
        <4> QED
          BY <4>2, <4>5, <4>6
      <3>2. \A v \in VPages : v \notin PagesOf(j.new) => ImageOf(s, j.new)[v] = NoVal
        BY DEF ImageOf
      <3> HIDE DEF s, j
      <3> QED
        BY <2>7, <2>8, <3>1, <3>2 DEF WantOK, Shows
    <2>12. SizeOK(p)'
      <3>1. p \notin damaged' => ~j.hole
        BY <1>10
      <3>2. PagesOf(j.new) \subseteq VPages
        BY <1>3, <1>4, InPages
      <3>3. ~j.hole => /\ \A v \in PagesOf(j.new) : s.pte[v] # NoPte
                       /\ \A v \in VPages \ PagesOf(j.new) : s.pte[v] = NoPte
        BY <1>7, <2>10, <3>2
      <3> HIDE DEF s, j, P
      <3> QED
        BY <2>7, <3>1, <3>3 DEF SizeOK
    <2>13. FlatOK(p)'
      BY <2>4, <2>11, <2>12 DEF FlatOK
    <2>14. \A r \in Procs \ {p} : r \in damaged' <=> r \in damaged
      BY <1>10
    <2>15. OnlyActor(p)
      <3> HIDE DEF top, s
      <3> QED
        BY <1>10, <2>1, <2>3, <2>6, <2>7, <2>8, <2>14 DEF OnlyActor, s
    <2>16. HaltOnlyIfDamaged'
      BY <1>1, <1>10, NotHalted
    <2> QED
      BY <2>9, <2>13, <2>15, <2>16, FlatActor
  <1> QED
    BY <1>8, <1>9, <1>10 DEF exec_args

\* What mappages has done to the entries of s.
MapAt(s, v, q, u, m) ==
  /\ m.ok \in BOOLEAN
  /\ \A w \in VPages : w # v => m.space.pte[w] = s.pte[w]
  /\ m.ok => m.space.pte[v] = [pa |-> q, u |-> u]
  /\ ~m.ok => m.space.pte[v] = NoPte

\* The other entries stay.
LEMMA MapIs ==
  ASSUME NEW s, NEW F, NEW v \in VPages, NEW u, NEW q, NEW m, MapStep(s, F, v, u, q, m), s.pte[v] = NoPte
  PROVE  MapAt(s, v, q, u, m)
  BY DEF MapStep, MappedOrNot, MapAt

\* A turn of the loop of allocuvm that maps a page, if it gets a page table for it.
Turned(p, q, m, k) ==
  /\ MapAt(Target(p), job[p].a, q, TRUE, m) /\ q \in free
  /\ NextPageJob(job[p], m, k)
  /\ content' = [content EXCEPT ![q] = "zero"]
  /\ IF job[p].next = "grown" THEN as' = [as EXCEPT ![p] = m.space] /\ Goto(p, k)
     ELSE as' = as /\ Goto(p, [k EXCEPT !.space = m.space])
  /\ UNCHANGED <<state, sz, want, damaged, halted>>

\* alloc_page halts, or takes such a turn.
LEMMA AllocTurn ==
  ASSUME OwnInv, NEW p \in Procs, alloc_page(p)
  PROVE  /\ Running(p, "alloc") /\ job[p].a * PGSIZE < job[p].new
         /\ \/ Target(p).pte[job[p].a] # NoPte /\ Halt(p, FALSE)
            \/ \E q, m, k : Turned(p, q, m, k)
  <1> DEFINE j == job[p]
             q == kalloc(free)
             s == Target(p)
             m == mappages(s, j.a, q, TRUE, free \ {q})
             k == [j EXCEPT !.a = @ + 1, !.hole = @ \/ ~m.ok]
  <1>1. Running(p, "alloc") /\ j.a * PGSIZE < j.new /\ free # {}
    BY DEF alloc_page
  <1>2. CASE s.pte[j.a] # NoPte
    BY <1>1, <1>2 DEF alloc_page
  <1>3. CASE s.pte[j.a] = NoPte
    <2>1. /\ Retarget(p, m.space, k)
          /\ content' = [content EXCEPT ![q] = "zero"]
          /\ UNCHANGED <<state, sz, want, damaged, halted>>
      BY <1>3 DEF alloc_page
    <2>2. /\ state[p] = "RUNNING" /\ j.a \in VPages /\ SpaceOK(s) /\ s # NoSpace
          /\ free \cap PagesIn(s) = {}
      BY <1>1, AllocPage
    <2>3. j \in JobType /\ free \subseteq Pages
      BY <2>2, Actor
    <2>4. q = kalloc(free) /\ m = mappages(s, j.a, q, TRUE, free \ {q}) /\ j = job[p] /\ s = Target(p)
      OBVIOUS
    <2>5. k = [j EXCEPT !.a = @ + 1, !.hole = @ \/ ~m.ok]
      OBVIOUS
    <2>6. IF j.next = "grown" THEN as' = [as EXCEPT ![p] = m.space] /\ Goto(p, k)
          ELSE as' = as /\ Goto(p, [k EXCEPT !.space = m.space])
      BY <2>1 DEF Retarget
    <2> HIDE DEF q, s, m, k, j
    <2>7. MapStep(s, free, j.a, TRUE, q, m)
      BY <1>1, <1>3, <2>2, <2>3, <2>4, MapFreeUser
    <2>8. NextPageJob(j, m, k)
      BY <2>3, <2>5, NextPage
    <2>9. MapAt(s, j.a, q, TRUE, m)
      BY <1>3, <2>2, <2>7, MapIs
    <2>10. q \in free
      BY <2>7 DEF MapStep
    <2>11. Turned(p, q, m, k)
      BY <2>1, <2>4, <2>6, <2>8, <2>9, <2>10 DEF Turned
    <2> QED
      BY <1>1, <2>4, <2>11
  <1> QED
    BY <1>2, <1>3

\* allocuvm for growproc: one more page of zeros.
LEMMA FlatGrowPage ==
  ASSUME OwnInv, FlatInv, NEW p \in Procs, Running(p, "alloc"), job[p].next = "grown",
         job[p].a * PGSIZE < job[p].new, NEW q, NEW m, NEW k, Turned(p, q, m, k)
  PROVE  FlatInv'
  <1> DEFINE j == job[p]
             s == as[p]
             z == m.space
  <1>1. state[p] = "RUNNING" /\ halted = {} /\ j.pc = "alloc" /\ Growing(p) /\ UNCHANGED halted
    BY DEF Running, Growing, Turned
  <1>2. /\ SpaceOK(s) /\ j \in JobType /\ free \subseteq Pages /\ free \cap PagesIn(s) = {}
        /\ sz[p] \in Nat
    BY <1>1, Actor
  <1>3. j.a \in Nat /\ j.new \in Nat /\ j.old \in Nat /\ j.a \in VPages
    BY <1>1, AllocPage
  <1>4. MapAt(s, j.a, q, TRUE, m)
    BY <1>1 DEF Turned, Target
  <1>5. /\ m.ok \in BOOLEAN /\ \A w \in VPages : w # j.a => z.pte[w] = s.pte[w]
        /\ m.ok => z.pte[j.a] = [pa |-> q, u |-> TRUE]
        /\ ~m.ok => z.pte[j.a] = NoPte
    BY <1>4 DEF MapAt
  <1>6. /\ k.a = j.a + 1 /\ k.hole = (j.hole \/ ~m.ok) /\ k.pc = "alloc" /\ k.next = "grown"
        /\ k.old = j.old /\ k.new = j.new
    BY <1>1 DEF Turned, NextPageJob
  <1>7. as' = [as EXCEPT ![p] = z] /\ Goto(p, k) /\ content' = [content EXCEPT ![q] = "zero"] /\ q \in free
    BY DEF Turned
  <1>8. /\ as \in [Procs -> SpaceType] /\ content \in [Pages -> Values]
    BY DEF OwnInv, Typed
  <1>9. as'[p] = z /\ \A r \in Procs \ {p} : as'[r] = as[r]
    BY <1>7, <1>8
  <1>10. job'[p] = k /\ \A r \in Procs \ {p} : job'[r] = job[r]
    BY <1>7, GotoIs
  <1>11. q \in Pages /\ content'[q] = "zero" /\ \A x \in Pages : x # q => content'[x] = content[x]
    BY <1>2, <1>7, <1>8
  <1>12. Kept(s)
    <2>1. PagesIn(s) \subseteq Pages
      BY <1>2, PagesInAre
    <2>2. \A x \in PagesIn(s) : content'[x] = content[x]
      BY <1>2, <1>7, <1>11, <2>1
    <2> QED
      BY <1>2, <2>2, KeptIf
  <1>13. WantOK(p) /\ SizeOK(p) /\ GrowOK(p)
    BY <1>1 DEF FlatInv, FlatOK
  <1>14. /\ j.old = sz[p] /\ PGROUNDUP(j.old) <= j.a /\ j.a <= PGROUNDUP(j.new)
         /\ \A v \in VPages : v >= PGROUNDUP(j.old) /\ v < j.a =>
              /\ ~j.hole => s.pte[v] # NoPte
              /\ s.pte[v] # NoPte => content[s.pte[v].pa] = "zero" /\ s.pte[v].u
    BY <1>1, <1>13 DEF GrowOK
  <1>15. PGROUNDUP(sz[p]) \in Nat /\ \A v \in VPages : v \in Nat /\ (v \in PagesOf(sz[p]) <=> v < PGROUNDUP(sz[p]))
    BY <1>2, InPages
  <1>16. \A v \in PagesOf(sz[p]) : v # j.a
    BY <1>3, <1>14, <1>15
  <1>17. sz' = sz /\ want' = want /\ damaged' = damaged /\ state' = state
    BY DEF Turned
  <1>18. WantOK(p)'
    <2>1. ASSUME NEW v \in VPages, v \in PagesOf(sz[p]), z.pte[v] # NoPte
          PROVE  Shows(want[p][v], v, content'[z.pte[v].pa], z.pte[v].u)
      <3>1. z.pte[v] = s.pte[v]
        BY <1>5, <1>16, <2>1
      <3>2. Shows(want[p][v], v, content[s.pte[v].pa], s.pte[v].u)
        BY <1>13, <2>1, <3>1 DEF WantOK
      <3>3. content'[s.pte[v].pa] = content[s.pte[v].pa]
        BY <1>12, <2>1, <3>1 DEF Kept
      <3> QED
        BY <3>1, <3>2, <3>3
    <2>2. \A v \in VPages : v \notin PagesOf(sz[p]) => want[p][v] = NoVal
      BY <1>13 DEF WantOK
    <2> HIDE DEF z, s
    <2> QED
      BY <1>9, <1>17, <2>1, <2>2 DEF WantOK
  <1>19. SizeOK(p)'
    <2>1. Growing(p)' /\ job'[p].a = j.a + 1
      BY <1>6, <1>10 DEF Growing
    <2>2. ASSUME p \notin damaged, NEW v \in VPages PROVE v \in PagesOf(sz[p]) => z.pte[v] # NoPte
      BY <1>5, <1>13, <1>16, <2>2 DEF SizeOK
    <2>3. PagesOf(sz[p]) \subseteq VPages
      BY <1>1, <1>2, InPages, Actor
    <2>4. ASSUME p \notin damaged, NEW v \in VPages, v \notin PagesOf(sz[p]), z.pte[v] # NoPte
          PROVE  v < j.a + 1
      <3>1. CASE v = j.a
        BY <1>3, <3>1
      <3>2. CASE v # j.a
        <4>1. s.pte[v] # NoPte
          BY <1>5, <2>4, <3>2
        <4>2. v < j.a
          BY <1>13, <2>4, <4>1 DEF SizeOK
        <4> QED
          BY <1>3, <1>15, <4>2
      <3> QED
        BY <3>1, <3>2
    <2> HIDE DEF z, s, j
    <2> QED
      BY <1>9, <1>17, <2>1, <2>2, <2>3, <2>4 DEF SizeOK
  <1>20. GrowOK(p)'
    <2>1. j.a + 1 <= PGROUNDUP(j.new) /\ PGROUNDUP(j.old) <= j.a + 1
      <3>1. PGROUNDUP(j.new) \in Nat /\ j.a < PGROUNDUP(j.new) /\ PGROUNDUP(j.old) \in Nat
        BY <1>3, RoundUp
      <3> QED
        BY <1>3, <1>14, <3>1
    <2>2. ASSUME NEW v \in VPages, v >= PGROUNDUP(j.old), v < j.a + 1
          PROVE  /\ ~k.hole => z.pte[v] # NoPte
                 /\ z.pte[v] # NoPte => content'[z.pte[v].pa] = "zero" /\ z.pte[v].u
      <3>1. CASE v = j.a
        <4>1. CASE m.ok
          <5>1. z.pte[v].pa = q /\ z.pte[v].u /\ z.pte[v] # NoPte
            <6>1. q # NoPage
              BY <1>11, PageNumbers
            <6>2. z.pte[v] = [pa |-> q, u |-> TRUE]
              BY <1>5, <3>1, <4>1
            <6> QED
              BY <6>1, <6>2 DEF NoPte
          <5> QED
            BY <1>11, <5>1
        <4>2. CASE ~m.ok
          BY <1>5, <1>6, <3>1, <4>2
        <4> QED
          BY <4>1, <4>2
      <3>2. CASE v # j.a
        <4>0. v < j.a
          <5>1. v \in Nat
            BY <1>15
          <5> HIDE DEF j
          <5> QED
            BY <1>3, <2>2, <3>2, <5>1
        <4>1. z.pte[v] = s.pte[v] /\ v < j.a
          BY <1>5, <3>2, <4>0
        <4>2. /\ ~j.hole => s.pte[v] # NoPte
              /\ s.pte[v] # NoPte => content[s.pte[v].pa] = "zero" /\ s.pte[v].u
          BY <1>14, <2>2, <4>1
        <4>3. s.pte[v] # NoPte => content'[s.pte[v].pa] = content[s.pte[v].pa]
          BY <1>12 DEF Kept
        <4> QED
          BY <1>6, <4>1, <4>2, <4>3
      <3> QED
        BY <3>1, <3>2
    <2> HIDE DEF z, s, j
    <2> QED
      BY <1>6, <1>9, <1>10, <1>14, <1>17, <2>1, <2>2 DEF GrowOK
  <1>21. CopyOK(p)' /\ ExecOK(p)'
    BY <1>6, <1>10 DEF CopyOK, ExecOK, Growing
  <1>22. FlatOK(p)'
    BY <1>18, <1>19, <1>20, <1>21 DEF FlatOK
  <1>23. OnlyActor(p)
    BY <1>7, <1>9, <1>10, <1>11, <1>17 DEF OnlyActor
  <1>24. HaltOnlyIfDamaged' /\ want' \in WantType
    BY <1>1, <1>17, NotHalted DEF FlatInv, WantType
  <1> QED
    BY <1>22, <1>23, <1>24, FlatActor

\* allocuvm for exec: one more page of the new image.
LEMMA FlatBuildPage ==
  ASSUME OwnInv, FlatInv, NEW p \in Procs, Running(p, "alloc"), job[p].next # "grown",
         job[p].a * PGSIZE < job[p].new, NEW q, NEW m, NEW k, Turned(p, q, m, k)
  PROVE  FlatInv'
  <1> DEFINE j == job[p]
             s == j.space
             z == m.space
             l == [k EXCEPT !.space = z]
  <1>1. state[p] = "RUNNING" /\ halted = {} /\ j.pc = "alloc" /\ ~Growing(p)
    BY DEF Running, Growing
  <1>2. /\ SpaceOK(s) /\ j \in JobType /\ free \subseteq Pages
    BY <1>1, Actor
  <1>3. j.a \in Nat /\ j.new \in Nat /\ j.old \in Nat /\ j.a \in VPages
    BY <1>1, AllocPage
  <1>4. MapAt(s, j.a, q, TRUE, m)
    BY <1>1 DEF Turned, Target
  <1>5. /\ m.ok \in BOOLEAN /\ \A w \in VPages : w # j.a => z.pte[w] = s.pte[w]
        /\ m.ok => z.pte[j.a] = [pa |-> q, u |-> TRUE]
        /\ ~m.ok => z.pte[j.a] = NoPte
    BY <1>4 DEF MapAt
  <1>6. /\ k.a = j.a + 1 /\ k.hole = (j.hole \/ ~m.ok) /\ k.pc = "alloc" /\ k.next = j.next
        /\ k.old = j.old /\ k.new = j.new /\ k.segs = j.segs /\ k \in JobType
    BY <1>1 DEF Turned, NextPageJob
  <1>7. Goto(p, l) /\ content' = [content EXCEPT ![q] = "zero"] /\ q \in free /\ UNCHANGED <<state, as, sz, want, damaged, halted>>
    BY DEF Turned
  <1>8. /\ l.a = j.a + 1 /\ l.hole = (j.hole \/ ~m.ok) /\ l.pc = "alloc" /\ l.next = j.next
        /\ l.old = j.old /\ l.new = j.new /\ l.segs = j.segs /\ l.space = z
    <2> HIDE DEF j, z
    <2> QED
      BY <1>6 DEF JobType
  <1> HIDE DEF l
  <1>9. job'[p] = l /\ \A r \in Procs \ {p} : job'[r] = job[r]
    BY <1>7, GotoIs
  <1>10. \A x \in Pages : x \notin free => content'[x] = content[x]
    BY <1>7 DEF OwnInv, Typed
  <1>11. Side(p)
    BY <1>1, <1>7, <1>9, <1>10 DEF Side
  <1>12. GrowOK(p)' /\ CopyOK(p)'
    BY <1>8, <1>9, ExecFlat
  <1>13. ExecOK(p)
    BY <1>1 DEF FlatInv, FlatOK
  <1>14. /\ ~j.hole => \A v \in VPages : s.pte[v] # NoPte <=> v < j.a
         /\ \A v \in VPages : s.pte[v] # NoPte => s.pte[v].u
         /\ PGROUNDUP(j.old) <= j.a /\ j.a <= PGROUNDUP(j.new)
         /\ j.next = "load" => j.new >= SegmentEnd(j.segs[1]) /\ Sized(j.segs[1])
    BY <1>1, <1>13 DEF ExecOK, Built
  <1>15. j.a + 1 <= PGROUNDUP(j.new) /\ PGROUNDUP(j.old) <= j.a + 1
    <2>1. PGROUNDUP(j.new) \in Nat /\ j.a < PGROUNDUP(j.new) /\ PGROUNDUP(j.old) \in Nat
      BY <1>3, RoundUp
    <2> QED
      BY <1>3, <1>14, <2>1
  <1>16. m.ok => z.pte[j.a] # NoPte /\ z.pte[j.a].u
    <2>1. q # NoPage
      BY <1>2, <1>7, PageNumbers
    <2> QED
      BY <1>5, <2>1 DEF NoPte
  <1>17. ASSUME ~l.hole, NEW v \in VPages PROVE z.pte[v] # NoPte <=> v < l.a
    <2>1. m.ok /\ ~j.hole
      BY <1>8, <1>17
    <2>2. v \in Nat
      BY VPagesAre
    <2>3. CASE v = j.a
      BY <1>3, <1>8, <1>16, <2>1, <2>3
    <2>4. CASE v # j.a
      <3>1. z.pte[v] # NoPte <=> v < j.a
        BY <1>5, <1>14, <2>1, <2>4
      <3>2. v < j.a <=> v < j.a + 1
        <4> HIDE DEF j
        <4> QED
          BY <1>3, <2>2, <2>4
      <3> QED
        BY <1>8, <3>1, <3>2
    <2> QED
      BY <2>3, <2>4
  <1>18. \A v \in VPages : z.pte[v] # NoPte => z.pte[v].u
    BY <1>5, <1>14, <1>16
  <1>19. ExecOK(p)'
    <2> HIDE DEF j, z, s
    <2> QED
      BY <1>8, <1>9, <1>14, <1>15, <1>17, <1>18 DEF ExecOK, Built
  <1> QED
    BY <1>11, <1>12, <1>19, FlatSide

\* alloc_page
LEMMA FlatAllocPage ==
  ASSUME OwnInv, FlatInv, NEW p \in Procs, alloc_page(p)
  PROVE  FlatInv'
  <1> DEFINE j == job[p]
  <1>1. /\ Running(p, "alloc") /\ j.a * PGSIZE < j.new
        /\ \/ Target(p).pte[j.a] # NoPte /\ Halt(p, FALSE)
           \/ \E q, m, k : Turned(p, q, m, k)
    BY AllocTurn
  <1>2. CASE \E q, m, k : Turned(p, q, m, k)
    <2>1. PICK q, m, k : Turned(p, q, m, k)
      BY <1>2
    <2> QED
      BY <1>1, <2>1, FlatGrowPage, FlatBuildPage
  <1>3. CASE Target(p).pte[j.a] # NoPte /\ Halt(p, FALSE)
    <2>1. /\ state[p] = "RUNNING" /\ j.pc = "alloc" /\ j.a \in VPages /\ j.a \in Nat /\ j.old \in Nat
          /\ (Growing(p) <=> j.next = "grown")
      BY <1>1, AllocPage DEF Running
    <2>2. FlatOK(p)
      BY <2>1 DEF FlatInv
    <2>3. CASE j.next = "grown"
      <3>1. sz[p] \in Nat
        BY <2>1, Actor
      <3>2. j.old = sz[p] /\ PGROUNDUP(j.old) <= j.a
        BY <2>1, <2>2, <2>3 DEF FlatOK, GrowOK
      <3>3. PGROUNDUP(sz[p]) \in Nat /\ (j.a \in PagesOf(sz[p]) <=> j.a < PGROUNDUP(sz[p]))
        BY <2>1, <3>1, InPages
      <3>4. j.a \in VPages \ PagesOf(sz[p])
        BY <2>1, <3>2, <3>3
      <3>5. as[p].pte[j.a] # NoPte
        BY <1>3, <2>3 DEF Target
      <3>6. p \in damaged
        <4>1. p \notin damaged => \A v \in VPages \ PagesOf(sz[p]) : as[p].pte[v] # NoPte => v < j.a
          BY <2>2 DEF FlatOK, SizeOK
        <4>2. p \notin damaged => j.a < j.a
          BY <3>4, <3>5, <4>1
        <4> QED
          BY <2>1, <4>2
      <3>7. HaltFor(p)
        BY <3>6 DEF HaltFor
      <3> QED
        BY <1>3, <3>7, FlatHalt
    <2>4. CASE j.next # "grown"
      <3>1. j.space.pte[j.a] # NoPte
        BY <1>3, <2>4 DEF Target
      <3>2. ~j.hole => (j.space.pte[j.a] # NoPte <=> j.a < j.a)
        BY <2>1, <2>2, <2>4 DEF FlatOK, ExecOK, Built
      <3>3. j.hole
        BY <2>1, <3>1, <3>2
      <3>4. HaltFor(p)
        BY <2>1, <3>3 DEF HaltFor
      <3> QED
        BY <1>3, <3>4, FlatHalt
    <2> QED
      BY <2>3, <2>4
  <1> QED
    BY <1>1, <1>2, <1>3

\* A turn past the last page of a page table begins with a new one.
LEMMA SameTable ==
  ASSUME NEW r \in Nat, r % NPTENTRIES # 0
  PROVE  r > 0 /\ (r - 1) \div NPTENTRIES = r \div NPTENTRIES
  <1> DEFINE m == NPTENTRIES
             q == r \div m
             x == r % m
  <1>1. m \in Nat \ {0} /\ q \in Nat /\ x \in 0 .. m - 1 /\ r = m * q + x /\ x # 0
    BY Sizes, Euclid
  <1>2. r > 0 /\ r - 1 \in Nat /\ m * q \in Nat
    <2> HIDE DEF q, x, m
    <2>1. m * q \in Nat
      BY <1>1
    <2> QED
      BY <1>1, <2>1
  <1>3. ~(r - 1 < m * q) /\ r - 1 < m * (q + 1)
    <2> HIDE DEF q, x, m
    <2>1. m * (q + 1) = m * q + m
      BY <1>1
    <2> QED
      BY <1>1, <1>2, <2>1
  <1>4. (r - 1) \div m < q + 1 /\ ~((r - 1) \div m < q) /\ (r - 1) \div m \in Nat
    <2>1. q + 1 \in Nat
      BY <1>1
    <2> HIDE DEF q, x, m
    <2> QED
      BY <1>1, <1>2, <1>3, <2>1, DivBound, Euclid
  <1>5. (r - 1) \div m = q
    <2> DEFINE y == (r - 1) \div m
    <2> HIDE DEF q, x, m, y
    <2>1. y < q + 1 /\ ~(y < q) /\ y \in Nat
      BY <1>4 DEF y
    <2>2. y = q
      BY <1>1, <2>1
    <2> QED
      BY <2>2 DEF y
  <1> QED
    BY <1>2, <1>5

\* deallocuvm finds every page above new, if all the pages below are there.
LEMMA ScanAll ==
  ASSUME NEW s, SpaceOK(s), NEW old \in 0 .. KERNBASE, NEW new \in Nat, new <= old,
         \A v \in PagesOf(new) : s.pte[v] # NoPte
  PROVE  \A v \in VPages : v >= PGROUNDUP(new) /\ v * PGSIZE < old /\ s.pte[v] # NoPte => v \in Scanned(s, old, new)
  <1> DEFINE r == PGROUNDUP(new)
  <1>1. new \in 0 .. KERNBASE
    BY Sizes
  <1>2. r \in Nat /\ PagesOf(new) \subseteq VPages
    BY <1>1, PagesBelow
  <1>3. r % NPTENTRIES = 0 \/ HasTable(s, r)
    <2> SUFFICES ASSUME r % NPTENTRIES # 0 PROVE HasTable(s, r)
      OBVIOUS
    <2>1. r > 0 /\ (r - 1) \div NPTENTRIES = r \div NPTENTRIES
      <3> HIDE DEF r
      <3> QED
        BY <1>2, SameTable
    <2>2. r - 1 \in PagesOf(new)
      <3>1. PagesOf(new) = 0 .. r - 1
        BY DEF PagesOf
      <3> HIDE DEF r
      <3> QED
        BY <1>2, <2>1, <3>1
    <2>3. r - 1 \in VPages /\ s.pte[r - 1] # NoPte
      BY <1>2, <2>2
    <2>4. HasTable(s, r - 1)
      BY <2>3, MappedHasTable
    <2> HIDE DEF r
    <2> QED
      BY <2>1, <2>4 DEF HasTable
  <1>4. \A v \in VPages : v >= r /\ v * PGSIZE < old /\ HasTable(s, v) => v \in Scanned(s, old, new)
    BY <1>3, ScannedIs
  <1> QED
    BY <1>4, MappedHasTable

\* deallocuvm from old to new has left what is below new, and nothing between if all was there.
Trimmed(s, old, new, d) ==
  /\ \A v \in VPages : v < PGROUNDUP(new) => d.space.pte[v] = s.pte[v]
  /\ \A v \in VPages : d.space.pte[v] # NoPte => d.space.pte[v] = s.pte[v]
  /\ (\A v \in PagesOf(new) : s.pte[v] # NoPte) =>
       \A v \in VPages : v >= PGROUNDUP(new) /\ v < PGROUNDUP(old) => d.space.pte[v] = NoPte

\* What deallocuvm leaves.
LEMMA Trim ==
  ASSUME NEW s, SpaceOK(s), NEW old \in 0 .. KERNBASE, NEW new \in Nat, new <= old, NEW d,
         Unmapped(s, Scanned(s, old, new), d)
  PROVE  Trimmed(s, old, new, d)
  <1> DEFINE S == Scanned(s, old, new)
  <1>1. \A v \in VPages : d.space.pte[v] = IF v \in S THEN NoPte ELSE s.pte[v]
    BY DEF Unmapped
  <1>2. \A v \in S : v \in VPages /\ v >= PGROUNDUP(new)
    BY ScannedIs
  <1>3. old \in Nat
    BY Sizes
  <1>4. /\ PGROUNDUP(new) \in Nat /\ VPages \subseteq Nat
        /\ \A v \in VPages : v * PGSIZE < old <=> v < PGROUNDUP(old)
    BY <1>3, InPages, VPagesAre
  <1>5. ASSUME \A v \in PagesOf(new) : s.pte[v] # NoPte,
               NEW v \in VPages, v >= PGROUNDUP(new), v < PGROUNDUP(old)
        PROVE  d.space.pte[v] = NoPte
    <2>1. s.pte[v] # NoPte => v \in S
      BY <1>4, <1>5, ScanAll
    <2> QED
      BY <1>1, <2>1
  <1> HIDE DEF S
  <1>6. \A v \in VPages : v < PGROUNDUP(new) => d.space.pte[v] = s.pte[v]
    <2> SUFFICES ASSUME NEW v \in VPages, v < PGROUNDUP(new) PROVE d.space.pte[v] = s.pte[v]
      OBVIOUS
    <2>1. ~(v >= PGROUNDUP(new))
      BY <1>4
    <2>2. v \notin S
      BY <1>2, <2>1
    <2> QED
      BY <1>1, <2>2
  <1> QED
    BY <1>1, <1>5, <1>6 DEF Trimmed

\* The pages that deallocuvm leaves are not filled with junk.
LEMMA TrimKept ==
  ASSUME NEW s, SpaceOK(s), NEW V, NEW d, Unmapped(s, V, d), content' = Junked(d.freed)
  PROVE  Kept(d.space) /\ \A x \in Pages : x \notin PagesIn(s) => content'[x] = content[x]
  <1>1. SpaceOK(d.space) /\ PagesIn(d.space) \cap d.freed = {} /\ PagesIn(d.space) \cup d.freed = PagesIn(s)
    BY DEF Unmapped
  <1>2. PagesIn(d.space) \subseteq Pages
    BY <1>1, PagesInAre
  <1>3. \A x \in PagesIn(d.space) : content'[x] = content[x]
    BY <1>1, <1>2 DEF Junked
  <1>4. Kept(d.space)
    BY <1>1, <1>3, KeptIf
  <1>5. \A x \in Pages : x \notin PagesIn(s) => content'[x] = content[x]
    BY <1>1 DEF Junked
  <1> QED
    BY <1>4, <1>5

\* growproc has grown: the pages of zeros are promised.
LEMMA FlatGrown ==
  ASSUME OwnInv, FlatInv, NEW p \in Procs, grown(p)
  PROVE  FlatInv'
  <1> DEFINE j == job[p]
             s == as[p]
             w == Grown(want[p], j.old, j.new)
  <1>1. /\ state[p] = "RUNNING" /\ halted = {} /\ j.pc = "alloc" /\ j.next = "grown" /\ Growing(p)
        /\ j.a * PGSIZE >= j.new
    BY DEF grown, Running, Growing
  <1>2. /\ sz' = [sz EXCEPT ![p] = j.new]
        /\ want' = [want EXCEPT ![p] = w]
        /\ damaged' = IF j.hole THEN damaged \cup {p} ELSE damaged
        /\ Goto(p, Idle) /\ UNCHANGED <<free, content, state, as, halted>>
    BY DEF grown
  <1>3. SpaceOK(s) /\ j \in JobType /\ sz[p] \in Nat /\ JobOK(p)
    BY <1>1, Actor
  <1>4. j.a \in Nat /\ j.new \in Nat /\ j.old \in Nat /\ j.hole \in BOOLEAN
    BY <1>3 DEF JobType
  <1>5. j.new < KERNBASE /\ j.old <= j.new
    BY <1>1, <1>3 DEF JobOK
  <1>6. WantOK(p) /\ SizeOK(p) /\ GrowOK(p)
    BY <1>1 DEF FlatInv, FlatOK
  <1>7. /\ j.old = sz[p] /\ j.a <= PGROUNDUP(j.new)
        /\ \A v \in VPages : v >= PGROUNDUP(j.old) /\ v < j.a =>
             /\ ~j.hole => s.pte[v] # NoPte
             /\ s.pte[v] # NoPte => content[s.pte[v].pa] = "zero" /\ s.pte[v].u
    BY <1>1, <1>6 DEF GrowOK
  <1>8. j.a = PGROUNDUP(j.new)
    <2>1. ~(j.a * PGSIZE < j.new)
      BY <1>1, <1>4, Sizes
    <2> QED
      BY <1>4, <1>7, <2>1, AllThrough
  <1>9. /\ PGROUNDUP(j.old) \in Nat /\ PGROUNDUP(j.new) \in Nat /\ VPages \subseteq Nat
        /\ PGROUNDUP(j.old) <= PGROUNDUP(j.new)
        /\ \A v \in VPages : (v \in PagesOf(j.old) <=> v < PGROUNDUP(j.old))
        /\ \A v \in VPages : (v \in PagesOf(j.new) <=> v < PGROUNDUP(j.new))
        /\ PagesOf(j.new) \subseteq VPages
    BY <1>4, <1>5, InPages, VPagesAre, RoundMono
  <1>10. /\ sz \in [Procs -> 0 .. KERNBASE - 1] /\ want \in WantType
    BY DEF OwnInv, Typed, FlatInv, WantType
  <1>11. sz'[p] = j.new /\ \A r \in Procs \ {p} : sz'[r] = sz[r]
    BY <1>2, <1>10
  <1>12. want'[p] = w /\ \A r \in Procs \ {p} : want'[r] = want[r]
    BY <1>2, <1>10 DEF WantType
  <1>13. job'[p] = Idle /\ \A r \in Procs \ {p} : job'[r] = job[r]
    BY <1>2, GotoIs
  <1>14. GrowOK(p)' /\ CopyOK(p)' /\ ExecOK(p)'
    BY <1>13, IdleIs, IdleFlat
  <1>15. \A v \in VPages : w[v] = IF v \in PagesOf(j.new) \ PagesOf(j.old)
                                  THEN [val |-> "zero", u |-> TRUE] ELSE want[p][v]
    BY DEF Grown
  <1>16. w \in [VPages -> [val : Values \cup {"none"}, u : BOOLEAN]]
    <2>1. want[p] \in [VPages -> [val : Values \cup {"none"}, u : BOOLEAN]]
      BY <1>10 DEF WantType
    <2>2. [val |-> "zero", u |-> TRUE] \in [val : Values \cup {"none"}, u : BOOLEAN]
      BY DEF Values
    <2>3. w = [v \in VPages |-> IF v \in PagesOf(j.new) \ PagesOf(j.old)
                                THEN [val |-> "zero", u |-> TRUE] ELSE want[p][v]]
      BY DEF Grown
    <2> DEFINE T == [val : Values \cup {"none"}, u : BOOLEAN]
    <2>4. [val |-> "zero", u |-> TRUE] \in T /\ want[p] \in [VPages -> T]
      BY <2>1, <2>2
    <2> HIDE DEF T, w, j
    <2>5. w \in [VPages -> T]
      BY <2>3, <2>4
    <2> QED
      BY <2>5 DEF T
  <1> HIDE DEF w
  <1>17. want' \in WantType
    BY <1>2, <1>10, <1>16 DEF WantType
  <1>18. WantOK(p)'
    <2>1. ASSUME NEW v \in VPages, v \in PagesOf(j.new), s.pte[v] # NoPte
          PROVE  Shows(w[v], v, content[s.pte[v].pa], s.pte[v].u)
      <3>1. CASE v \in PagesOf(j.old)
        <4>1. w[v] = want[p][v]
          BY <1>15, <3>1
        <4> QED
          BY <1>6, <1>7, <2>1, <3>1, <4>1 DEF WantOK
      <3>2. CASE v \notin PagesOf(j.old)
        <4>1. v >= PGROUNDUP(j.old) /\ v < j.a
          BY <1>8, <1>9, <2>1, <3>2
        <4>2. content[s.pte[v].pa] = "zero" /\ s.pte[v].u
          BY <1>7, <2>1, <4>1
        <4>3. s.pte[v].u = TRUE
          BY <1>3, <4>2, SpaceFields
        <4>4. w[v] = [val |-> "zero", u |-> TRUE]
          BY <1>15, <2>1, <3>2
        <4> QED
          BY <4>2, <4>3, <4>4 DEF Shows
      <3> QED
        BY <3>1, <3>2
    <2>2. ASSUME NEW v \in VPages, v \notin PagesOf(j.new) PROVE w[v] = NoVal
      <3>1. v \notin PagesOf(j.old)
        BY <1>9, <2>2
      <3>2. w[v] = want[p][v]
        BY <1>15, <2>2
      <3> QED
        BY <1>6, <1>7, <3>1, <3>2 DEF WantOK
    <2> HIDE DEF j, s
    <2> QED
      BY <1>2, <1>11, <1>12, <2>1, <2>2 DEF WantOK, s
  <1>19. SizeOK(p)'
    <2>1. p \notin damaged' => p \notin damaged /\ ~j.hole
      BY <1>2
    <2>2. ASSUME p \notin damaged, ~j.hole, NEW v \in PagesOf(j.new) PROVE s.pte[v] # NoPte
      <3>1. CASE v \in PagesOf(j.old)
        BY <1>6, <1>7, <2>2, <3>1 DEF SizeOK
      <3>2. CASE v \notin PagesOf(j.old)
        <4>1. v \in VPages
          BY <1>9
        <4>2. v >= PGROUNDUP(j.old) /\ v < j.a
          BY <1>8, <1>9, <3>2, <4>1
        <4> QED
          BY <1>7, <2>2, <4>1, <4>2
      <3> QED
        BY <3>1, <3>2
    <2>3. ASSUME p \notin damaged, NEW v \in VPages \ PagesOf(j.new), s.pte[v] # NoPte PROVE FALSE
      <3>1. v \notin PagesOf(sz[p])
        BY <1>7, <1>9
      <3>2. v < j.a
        BY <1>6, <2>3, <3>1 DEF SizeOK
      <3> QED
        BY <1>8, <1>9, <3>2
    <2> HIDE DEF j, s
    <2> QED
      BY <1>2, <1>11, <2>1, <2>2, <2>3 DEF SizeOK, s
  <1>20. FlatOK(p)'
    BY <1>14, <1>18, <1>19 DEF FlatOK
  <1>21. OnlyActor(p)
    BY <1>2, <1>11, <1>12, <1>13 DEF OnlyActor
  <1>22. HaltOnlyIfDamaged'
    BY <1>1, <1>2, NotHalted
  <1> QED
    BY <1>17, <1>20, <1>21, <1>22, FlatActor

\* allocuvm fails: growproc gives back what it has got, exec the whole new image.
LEMMA FlatAllocFail ==
  ASSUME OwnInv, FlatInv, NEW p \in Procs, alloc_fail(p)
  PROVE  FlatInv'
  <1> DEFINE j == job[p]
             s == Target(p)
             d == deallocuvm(s, j.new, j.old)
             freed == d.freed \cup IF j.next = "grown" THEN {} ELSE freevm(d.space)
  <1>1. /\ Running(p, "alloc") /\ j.a * PGSIZE < j.new
        /\ as' = IF j.next = "grown" THEN [as EXCEPT ![p] = d.space] ELSE as
        /\ content' = Junked(freed)
        /\ Goto(p, Idle)
        /\ UNCHANGED <<state, sz, want, damaged, halted>>
    BY DEF alloc_fail
  <1>2. /\ state[p] = "RUNNING" /\ halted = {} /\ j.pc = "alloc"
        /\ j.new \in Nat /\ j.old \in Nat /\ j.a \in Nat /\ j.new < KERNBASE
        /\ SpaceOK(s) /\ s # NoSpace
        /\ (Growing(p) <=> j.next = "grown")
    BY <1>1, AllocPage DEF Running
  <1>3. j.old <= j.new /\ j.new \in 0 .. KERNBASE
    <2>1. JobOK(p)
      BY <1>2, Actor
    <2>2. j.old <= j.new
      BY <1>2, <2>1 DEF JobOK
    <2> QED
      BY <1>2, <2>2, Sizes
  <1>4. Unmapped(s, Scanned(s, j.new, j.old), d)
    <2>1. d = deallocuvm(s, j.new, j.old)
      OBVIOUS
    <2> HIDE DEF d, s, j
    <2> QED
      BY <1>2, <1>3, <2>1, Dealloc
  <1>5. job'[p] = Idle /\ \A r \in Procs \ {p} : job'[r] = job[r]
    BY <1>1, GotoIs
  <1>6. GrowOK(p)' /\ CopyOK(p)' /\ ExecOK(p)'
    BY <1>5, IdleIs, IdleFlat
  <1>7. CASE j.next # "grown"
    <2>1. /\ SpaceOK(d.space) /\ d.space # NoSpace /\ PagesIn(d.space) \cup d.freed = PagesIn(s)
      <3> HIDE DEF d, s
      <3> QED
        BY <1>4 DEF Unmapped
    <2>2. freevm(d.space) = PagesIn(d.space)
      <3> HIDE DEF d
      <3> QED
        BY <2>1, FreeVm
    <2>3. s = j.space
      BY <1>7 DEF Target
    <2>4. freed = PagesIn(j.space)
      BY <1>7, <2>1, <2>2, <2>3
    <2> HIDE DEF freed, d, s
    <2>5. \A x \in Pages : x \notin PagesIn(j.space) => content'[x] = content[x]
      BY <1>1, <2>4 DEF Junked
    <2>6. as' = as
      BY <1>1, <1>7
    <2>7. Side(p)
      BY <1>1, <1>2, <1>5, <1>7, <2>5, <2>6 DEF Side
    <2> QED
      BY <1>6, <2>7, FlatSide
  <1>8. CASE j.next = "grown"
    <2>1. s = as[p] /\ freed = d.freed
      BY <1>8 DEF Target
    <2>2. as \in [Procs -> SpaceType] /\ sz[p] \in Nat /\ sz[p] < KERNBASE /\ want \in WantType
      BY <1>2, Actor DEF OwnInv, Typed, FlatInv, WantType
    <2>3. Trimmed(s, j.new, j.old, d)
      <3> HIDE DEF d, s, j
      <3> QED
        BY <1>2, <1>3, <1>4, Trim
    <2>4. Kept(d.space) /\ \A x \in Pages : x \notin PagesIn(s) => content'[x] = content[x]
      <3>1. content' = Junked(d.freed)
        BY <1>1, <2>1
      <3> HIDE DEF d, s, j
      <3> QED
        BY <1>2, <1>4, <3>1, TrimKept
    <2>5. WantOK(p) /\ SizeOK(p) /\ GrowOK(p)
      BY <1>2 DEF FlatInv, FlatOK
    <2>6. j.old = sz[p] /\ j.a <= PGROUNDUP(j.new)
      BY <1>2, <1>8, <2>5 DEF GrowOK
    <2>7. /\ PGROUNDUP(j.old) \in Nat /\ PGROUNDUP(j.new) \in Nat /\ VPages \subseteq Nat
          /\ \A v \in VPages : (v \in PagesOf(j.old) <=> v < PGROUNDUP(j.old))
          /\ PagesOf(j.old) \subseteq VPages
      BY <1>2, <2>2, <2>6, InPages, VPagesAre
    <2> HIDE DEF d
    <2>8. as'[p] = d.space /\ \A r \in Procs \ {p} : as'[r] = as[r]
      BY <1>1, <1>8, <2>2
    <2>9. WantOK(p)'
      <3>1. ASSUME NEW v \in VPages, v \in PagesOf(sz[p]), d.space.pte[v] # NoPte
            PROVE  Shows(want[p][v], v, content'[d.space.pte[v].pa], d.space.pte[v].u)
        <4>1. d.space.pte[v] = as[p].pte[v]
          BY <2>1, <2>3, <3>1 DEF Trimmed
        <4>2. Shows(want[p][v], v, content[as[p].pte[v].pa], as[p].pte[v].u)
          BY <2>5, <3>1, <4>1 DEF WantOK
        <4>3. content'[d.space.pte[v].pa] = content[d.space.pte[v].pa]
          BY <2>4, <3>1 DEF Kept
        <4> QED
          BY <4>1, <4>2, <4>3
      <3>2. \A v \in VPages : v \notin PagesOf(sz[p]) => want[p][v] = NoVal
        BY <2>5 DEF WantOK
      <3> QED
        BY <1>1, <2>8, <3>1, <3>2 DEF WantOK
    <2>10. SizeOK(p)'
      <3>1. ASSUME p \notin damaged, NEW v \in PagesOf(sz[p]) PROVE d.space.pte[v] # NoPte
        <4>1. v \in VPages /\ v < PGROUNDUP(j.old)
          BY <2>6, <2>7
        <4>2. d.space.pte[v] = as[p].pte[v]
          BY <2>1, <2>3, <4>1 DEF Trimmed
        <4> QED
          BY <2>5, <3>1, <4>2 DEF SizeOK
      <3>2. ASSUME p \notin damaged, NEW v \in VPages \ PagesOf(sz[p]) PROVE d.space.pte[v] = NoPte
        <4>1. CASE as[p].pte[v] = NoPte
          BY <2>1, <2>3, <4>1 DEF Trimmed
        <4>2. CASE as[p].pte[v] # NoPte
          <5>1. v < j.a
            BY <2>5, <3>2, <4>2 DEF SizeOK
          <5>2. v >= PGROUNDUP(j.old) /\ v < PGROUNDUP(j.new)
            BY <1>2, <2>6, <2>7, <5>1
          <5>3. \A x \in PagesOf(j.old) : as[p].pte[x] # NoPte
            BY <2>5, <2>6, <3>2 DEF SizeOK
          <5> QED
            BY <2>1, <2>3, <5>2, <5>3 DEF Trimmed
        <4> QED
          BY <4>1, <4>2
      <3> QED
        BY <1>1, <2>8, <3>1, <3>2 DEF SizeOK
    <2>11. FlatOK(p)'
      BY <1>6, <2>9, <2>10 DEF FlatOK
    <2>12. OnlyActor(p)
      BY <1>1, <1>5, <2>1, <2>4, <2>8 DEF OnlyActor
    <2>13. HaltOnlyIfDamaged' /\ want' \in WantType
      BY <1>1, <1>2, <2>2, NotHalted
    <2> QED
      BY <2>11, <2>12, <2>13, FlatActor
  <1> QED
    BY <1>7, <1>8

\* growproc has given back what d has freed.
Shrinks(p, new, d) ==
  /\ as' = [as EXCEPT ![p] = d.space]
  /\ content' = Junked(d.freed)
  /\ sz' = [sz EXCEPT ![p] = IF ShrinkKept(new) THEN new ELSE @]
  /\ damaged' = IF ShrinkKept(new) THEN damaged ELSE damaged \cup {p}
  /\ want' = [want EXCEPT ![p] = [v \in VPages |-> IF v \in PagesOf(new) THEN @[v] ELSE NoVal]]
  /\ UNCHANGED job

\* growproc shrinks: nothing is left above the new size, and nothing at all if that is 0.
LEMMA FlatShrink ==
  ASSUME OwnInv, FlatInv, NEW p \in Procs, Running(p, "user"), NEW new \in Nat, new < sz[p],
         NEW d, d = deallocuvm(as[p], sz[p], new), Shrinks(p, new, d), UNCHANGED <<state, halted>>
  PROVE  FlatInv'
  <1> USE DEF Shrinks
  <1> DEFINE s == as[p]
  <1>1. state[p] = "RUNNING" /\ halted = {} /\ job[p].pc = "user" /\ ~Growing(p)
    BY DEF Running, Growing
  <1>2. SpaceOK(s) /\ s # NoSpace /\ sz[p] \in Nat /\ sz[p] < KERNBASE /\ sz[p] \in 0 .. KERNBASE
    BY <1>1, Actor
  <1>3. Unmapped(s, Scanned(s, sz[p], new), d)
    BY <1>2, Dealloc
  <1>4. new <= sz[p] /\ new < KERNBASE
    BY <1>2, Sizes
  <1>5. Trimmed(s, sz[p], new, d)
    BY <1>2, <1>3, <1>4, Trim
  <1>6. Kept(d.space) /\ \A x \in Pages : x \notin PagesIn(s) => content'[x] = content[x]
    BY <1>2, <1>3, TrimKept
  <1>7. /\ PGROUNDUP(new) \in Nat /\ PGROUNDUP(sz[p]) \in Nat /\ VPages \subseteq Nat
        /\ PGROUNDUP(new) <= PGROUNDUP(sz[p])
        /\ \A v \in VPages : (v \in PagesOf(new) <=> v < PGROUNDUP(new))
        /\ \A v \in VPages : (v \in PagesOf(sz[p]) <=> v < PGROUNDUP(sz[p]))
        /\ PagesOf(new) \subseteq VPages
    BY <1>2, <1>4, InPages, VPagesAre, RoundMono
  <1>8. as \in [Procs -> SpaceType] /\ sz \in [Procs -> 0 .. KERNBASE - 1] /\ want \in WantType
    BY DEF OwnInv, Typed, FlatInv, WantType
  <1>9. /\ as'[p] = d.space /\ \A r \in Procs \ {p} : as'[r] = as[r]
        /\ sz'[p] = IF ShrinkKept(new) THEN new ELSE sz[p]
        /\ \A r \in Procs \ {p} : sz'[r] = sz[r]
    BY <1>8
  <1>10. /\ \A v \in VPages : want'[p][v] = IF v \in PagesOf(new) THEN want[p][v] ELSE NoVal
         /\ \A r \in Procs \ {p} : want'[r] = want[r]
    BY <1>8 DEF WantType
  <1>11. want' \in WantType
    <2> DEFINE T == [val : Values \cup {"none"}, u : BOOLEAN]
    <2>1. NoVal \in T /\ want \in [Procs -> [VPages -> T]]
      BY <1>8 DEF NoVal, WantType
    <2> HIDE DEF T
    <2>2. want' \in [Procs -> [VPages -> T]]
      BY <2>1
    <2> QED
      BY <2>2 DEF WantType, T
  <1>12. GrowOK(p)' /\ CopyOK(p)' /\ ExecOK(p)'
    BY <1>1, IdleFlat
  <1>13. WantOK(p) /\ SizeOK(p)
    BY <1>1 DEF FlatInv, FlatOK
  <1>14. ASSUME NEW v \in VPages, v \in PagesOf(new), d.space.pte[v] # NoPte
         PROVE  Shows(want[p][v], v, content'[d.space.pte[v].pa], d.space.pte[v].u)
    <2>1. d.space.pte[v] = s.pte[v]
      BY <1>5, <1>14 DEF Trimmed
    <2>2. v \in PagesOf(sz[p])
      BY <1>7, <1>14
    <2>3. Shows(want[p][v], v, content[s.pte[v].pa], s.pte[v].u)
      BY <1>13, <1>14, <2>1, <2>2 DEF WantOK
    <2>4. content'[d.space.pte[v].pa] = content[d.space.pte[v].pa]
      BY <1>6, <1>14 DEF Kept
    <2> QED
      BY <2>1, <2>3, <2>4
  <1>15. CASE ShrinkKept(new)
    <2>1. sz'[p] = new /\ damaged' = damaged
      BY <1>9, <1>15
    <2>2. WantOK(p)'
      <3>1. ASSUME NEW v \in VPages, v \in PagesOf(new), d.space.pte[v] # NoPte
            PROVE  Shows(want'[p][v], v, content'[d.space.pte[v].pa], d.space.pte[v].u)
        <4>1. want'[p][v] = want[p][v]
          BY <1>10, <3>1
        <4> QED
          BY <1>14, <3>1, <4>1
      <3>2. \A v \in VPages : v \notin PagesOf(new) => want'[p][v] = NoVal
        BY <1>10
      <3> QED
        BY <1>9, <2>1, <3>1, <3>2 DEF WantOK
    <2>3. SizeOK(p)'
      <3>1. ASSUME p \notin damaged, NEW v \in PagesOf(new) PROVE d.space.pte[v] # NoPte
        <4>1. v \in VPages /\ v < PGROUNDUP(new) /\ v \in PagesOf(sz[p])
          BY <1>7
        <4>2. d.space.pte[v] = s.pte[v]
          BY <1>5, <4>1 DEF Trimmed
        <4> QED
          BY <1>13, <3>1, <4>1, <4>2 DEF SizeOK
      <3>2. ASSUME p \notin damaged, NEW v \in VPages \ PagesOf(new) PROVE d.space.pte[v] = NoPte
        <4>1. CASE v \in PagesOf(sz[p])
          <5>1. v >= PGROUNDUP(new) /\ v < PGROUNDUP(sz[p])
            BY <1>7, <4>1
          <5>2. ASSUME NEW x \in PagesOf(new) PROVE s.pte[x] # NoPte
            <6>1. x \in PagesOf(sz[p])
              BY <1>7
            <6> QED
              BY <1>13, <3>2, <6>1 DEF SizeOK
          <5> QED
            BY <1>5, <5>1, <5>2 DEF Trimmed
        <4>2. CASE v \notin PagesOf(sz[p])
          <5>1. s.pte[v] = NoPte
            BY <1>1, <1>13, <3>2, <4>2 DEF SizeOK
          <5> QED
            BY <1>5, <5>1 DEF Trimmed
        <4> QED
          BY <4>1, <4>2
      <3> QED
        BY <1>9, <2>1, <3>1, <3>2 DEF SizeOK
    <2> QED
      <3>1. FlatOK(p)'
        BY <1>12, <2>2, <2>3 DEF FlatOK
      <3>2. OnlyActor(p)
        BY <1>6, <1>9, <1>10, <2>1 DEF OnlyActor
      <3>3. HaltOnlyIfDamaged'
        BY <1>1, NotHalted
      <3> QED
        BY <1>11, <3>1, <3>2, <3>3, FlatActor
  <1>16. CASE ~ShrinkKept(new)
    <2>1. sz'[p] = sz[p] /\ damaged' = damaged \cup {p} /\ new = 0
      BY <1>9, <1>16 DEF ShrinkKept
    <2>2. PGROUNDUP(new) = 0
      <3>1. PGROUNDUP(0) = 0
        BY RoundWhole, VPagesAre, Sizes
      <3> QED
        BY <2>1, <3>1
    <2>3. PagesOf(new) = {}
      BY <2>2 DEF PagesOf
    <2>4. \A v \in VPages : v \in PagesOf(sz[p]) => d.space.pte[v] = NoPte
      <3> SUFFICES ASSUME NEW v \in VPages, v \in PagesOf(sz[p]) PROVE d.space.pte[v] = NoPte
        OBVIOUS
      <3>1. v >= PGROUNDUP(new) /\ v < PGROUNDUP(sz[p])
        BY <1>7, <2>2
      <3> QED
        BY <1>5, <2>3, <3>1 DEF Trimmed
    <2>5. WantOK(p)'
      BY <1>9, <1>10, <2>1, <2>3, <2>4 DEF WantOK
    <2>6. SizeOK(p)'
      BY <2>1 DEF SizeOK
    <2>7. FlatOK(p)'
      BY <1>12, <2>5, <2>6 DEF FlatOK
    <2>8. OnlyActor(p)
      BY <1>6, <1>9, <1>10, <2>1 DEF OnlyActor
    <2>9. HaltOnlyIfDamaged'
      BY <1>1, NotHalted
    <2> QED
      BY <1>11, <2>7, <2>8, <2>9, FlatActor
  <1> QED
    BY <1>15, <1>16

\* growproc begins to grow.
LEMMA FlatGrow ==
  ASSUME OwnInv, FlatInv, NEW p \in Procs, Running(p, "user"), NEW new \in Nat, NEW k,
         k = Allocate(Idle, sz[p], new, "grown"), Goto(p, k),
         UNCHANGED <<content, state, as, sz, want, damaged, halted>>
  PROVE  FlatInv'
  <1>1. state[p] = "RUNNING" /\ halted = {} /\ ~Growing(p)
    BY DEF Running, Growing
  <1>2. sz[p] \in Nat
    BY <1>1, Actor
  <1>3. AllocateJob(Idle, sz[p], new, "grown", k)
    BY <1>2, IdleIs, AllocateIs
  <1>4. job'[p] = k /\ \A r \in Procs \ {p} : job'[r] = job[r]
    BY GotoIs
  <1>5. /\ k.pc = "alloc" /\ k.next = "grown" /\ k.old = sz[p] /\ k.a = PGROUNDUP(sz[p])
        /\ k.new \in Nat /\ sz[p] <= k.new
    BY <1>3 DEF AllocateJob, JobType
  <1>6. PGROUNDUP(sz[p]) \in Nat /\ PGROUNDUP(sz[p]) <= PGROUNDUP(k.new) /\ VPages \subseteq Nat
    BY <1>2, <1>5, RoundMono, RoundUp, VPagesAre
  <1>7. GrowOK(p)'
    <2>1. \A v \in VPages : ~(v >= k.a /\ v < k.a)
      BY <1>5, <1>6
    <2>2. sz'[p] = sz[p] /\ k.old = sz[p] /\ PGROUNDUP(k.old) = k.a /\ k.a <= k.a /\ k.a <= PGROUNDUP(k.new)
      BY <1>5, <1>6
    <2> QED
      BY <1>4, <2>1, <2>2 DEF GrowOK
  <1>8. CopyOK(p)' /\ ExecOK(p)'
    BY <1>4, <1>5 DEF CopyOK, ExecOK, Growing
  <1>9. Side(p)
    BY <1>1, <1>4 DEF Side
  <1> QED
    BY <1>7, <1>8, <1>9, FlatSide

\* sbrk
LEMMA FlatSbrk ==
  ASSUME OwnInv, FlatInv, NEW p \in Procs, NEW n \in Deltas, sbrk(p, n)
  PROVE  FlatInv'
  <1> DEFINE new == (sz[p] + n) % (2 * KERNBASE)
             d == deallocuvm(as[p], sz[p], new)
             k == Allocate(Idle, sz[p], new, "grown")
  <1>1. Running(p, "user") /\ UNCHANGED <<state, halted>>
    BY DEF sbrk, Called
  <1>2. new \in Nat
    <2>1. n \in Int /\ sz[p] \in Nat
      BY <1>1, Actor, MemoryAssumption DEF Running
    <2>2. sz[p] + n \in Int /\ 2 * KERNBASE \in Nat \ {0}
      BY <2>1, Sizes
    <2>3. (sz[p] + n) % (2 * KERNBASE) \in 0 .. 2 * KERNBASE - 1
      BY <2>2, ModRange
    <2> QED
      BY <2>2, <2>3
  <1>3. d = deallocuvm(as[p], sz[p], new) /\ k = Allocate(Idle, sz[p], new, "grown")
    OBVIOUS
  <1>4. \/ Goto(p, k) /\ UNCHANGED <<content, as, sz, want, damaged>>
        \/ new < sz[p] /\ Shrinks(p, new, d)
    BY DEF sbrk, Shrinks
  <1> HIDE DEF new, d, k
  <1>5. CASE Goto(p, k) /\ UNCHANGED <<content, as, sz, want, damaged>>
    BY <1>1, <1>2, <1>3, <1>5, FlatGrow
  <1>6. CASE new < sz[p] /\ Shrinks(p, new, d)
    BY <1>1, <1>2, <1>3, <1>6, FlatShrink
  <1> QED
    BY <1>4, <1>5, <1>6

\* A step of fork that leaves the memory of p alone and gives or takes the slot of a child.
SideTwo(p, np) ==
  /\ halted = {} /\ state[p] = "RUNNING" /\ ~Growing(p) /\ np # p /\ np \in Procs
  /\ state'[np] # "RUNNING" /\ state'[p] = state[p]
  /\ \A r \in Procs \ {p, np} : state'[r] = state[r]
  /\ UNCHANGED <<as, sz, want, damaged, halted>>
  /\ \A r \in Procs \ {p} : job'[r] = job[r]
  /\ \A x \in Pages : x \notin free /\ x \notin PagesIn(job[p].space) /\ x # kstack[np] =>
       content'[x] = content[x]

\* Such a step has only to account for the call.
LEMMA FlatSideTwo ==
  ASSUME OwnInv, FlatInv, NEW p \in Procs, NEW np \in Procs, SideTwo(p, np),
         GrowOK(p)', CopyOK(p)', ExecOK(p)'
  PROVE  FlatInv'
  <1>1. HeldOnce
    BY DEF OwnInv
  <1>2. ASSUME NEW r \in Procs
        PROVE  /\ PagesIn(as[r]) \subseteq Pages /\ PagesIn(job[r].space) \subseteq Pages
               /\ free \cap PagesIn(as[r]) = {} /\ free \cap PagesIn(job[r].space) = {}
               /\ PagesIn(as[r]) \cap PagesIn(job[p].space) = {}
               /\ r # p => PagesIn(job[r].space) \cap PagesIn(job[p].space) = {}
               /\ ({kstack[np]} \ {NoPage}) \cap PagesIn(as[r]) = {}
               /\ ({kstack[np]} \ {NoPage}) \cap PagesIn(job[r].space) = {}
    <2>1. SpaceOK(as[r]) /\ SpaceOK(job[r].space)
      BY DEF OwnInv, ProcOK
    <2>2. PagesIn(as[r]) \subseteq Pages /\ PagesIn(job[r].space) \subseteq Pages
      BY <2>1, PagesInAre
    <2>3. /\ free \cap PagesIn(as[r]) = {} /\ free \cap PagesIn(job[r].space) = {}
          /\ PagesIn(as[r]) \cap PagesIn(job[p].space) = {}
          /\ r # p => PagesIn(job[r].space) \cap PagesIn(job[p].space) = {}
      BY <1>1, Different
    <2>4. /\ ({kstack[np]} \ {NoPage}) \cap PagesIn(as[r]) = {}
          /\ ({kstack[np]} \ {NoPage}) \cap PagesIn(job[r].space) = {}
      BY <1>1, Different
    <2> QED
      BY <2>2, <2>3, <2>4
  <1>3. NoPage \notin Pages
    BY PageNumbers
  <1>4. \A x \in PagesIn(as[p]) : content'[x] = content[x]
    BY <1>2, <1>3 DEF SideTwo
  <1>5. SpaceOK(as[p])
    BY DEF OwnInv, ProcOK
  <1>6. Kept(as[p])
    BY <1>4, <1>5, KeptIf
  <1>7. WantOK(p) /\ SizeOK(p)
    BY DEF FlatInv, FlatOK, SideTwo
  <1>8. /\ ~Growing(p) /\ as'[p] = as[p] /\ sz'[p] = sz[p] /\ want'[p] = want[p]
        /\ (p \in damaged' <=> p \in damaged)
    BY DEF SideTwo
  <1>9. WantOK(p)' /\ SizeOK(p)'
    BY <1>6, <1>7, <1>8, OwnSide
  <1>10. FlatOK(p)'
    BY <1>9 DEF FlatOK
  <1>11. ASSUME NEW r \in Procs \ {p, np} PROVE Alone(r)
    <2>1. Untouched(r)
      BY <1>2, <1>3 DEF SideTwo, Untouched
    <2> QED
      BY <2>1 DEF Alone, SideTwo
  <1>12. HaltOnlyIfDamaged' /\ want' \in WantType
    BY NotHalted DEF SideTwo, FlatInv, WantType
  <1> DEFINE Q == {p, np}
  <1>13. (\A r \in Procs \ Q : Alone(r)) /\ \A r \in Procs \cap Q : state'[r] = "RUNNING" => FlatOK(r)'
    BY <1>10, <1>11 DEF SideTwo
  <1> HIDE DEF Q
  <1> QED
    BY <1>12, <1>13, FlatStep

\* fork begins.
LEMMA FlatFork ==
  ASSUME OwnInv, FlatInv, NEW p \in Procs, NEW np \in Procs, fork(p, np)
  PROVE  FlatInv'
  <1> DEFINE k == [Idle EXCEPT !.pc = "setup", !.np = np]
  <1>1. /\ Running(p, "user") /\ state[np] = "UNUSED" /\ state' = [state EXCEPT ![np] = "EMBRYO"]
        /\ Goto(p, k) /\ UNCHANGED <<content, as, sz, want, damaged, halted>>
    BY DEF fork, Called
  <1>2. halted = {} /\ state[p] = "RUNNING" /\ ~Growing(p) /\ np # p
    BY <1>1 DEF Running, Growing
  <1>3. k.pc = "setup" /\ k.a = 0
    BY DEF Idle
  <1> HIDE DEF k
  <1>4. job'[p] = k /\ \A r \in Procs \ {p} : job'[r] = job[r]
    BY <1>1, GotoIs
  <1>5. GrowOK(p)' /\ CopyOK(p)' /\ ExecOK(p)'
    BY <1>3, <1>4 DEF GrowOK, CopyOK, ExecOK, Growing
  <1>6. state'[np] = "EMBRYO" /\ \A r \in Procs \ {np} : state'[r] = state[r]
    BY <1>1 DEF OwnInv, Typed
  <1>7. SideTwo(p, np)
    BY <1>1, <1>2, <1>4, <1>6 DEF SideTwo
  <1> QED
    BY <1>5, <1>7, FlatSideTwo

\* fork fails.
LEMMA FlatForkFails ==
  ASSUME OwnInv, FlatInv, NEW p \in Procs, Forking(p), halted = {}, NEW F,
         ForkFails(p, job[p].space, F), NEW np, np = job[p].np
  PROVE  FlatInv'
  <1> DEFINE freed == {kstack[np]} \cup PagesIn(job[p].space)
  <1>1. np \in Procs /\ state[np] = "EMBRYO" /\ state[p] = "RUNNING" /\ p # np
    BY Child
  <1>2. SpaceOK(job[p].space)
    BY <1>1, Actor
  <1>3. freed = {kstack[np]} \cup IF job[p].space = NoSpace THEN {} ELSE freevm(job[p].space)
    BY <1>2, FreeVm, NoSpaceIs
  <1>4. /\ content' = Junked(freed) /\ state' = [state EXCEPT ![np] = "UNUSED"]
        /\ Goto(p, Idle) /\ UNCHANGED <<as, sz, want, damaged, halted>>
    BY <1>3 DEF ForkFails
  <1>5. job'[p] = Idle /\ \A r \in Procs \ {p} : job'[r] = job[r]
    BY <1>4, GotoIs
  <1>6. GrowOK(p)' /\ CopyOK(p)' /\ ExecOK(p)'
    BY <1>5, IdleIs, IdleFlat
  <1>7. state'[np] = "UNUSED" /\ \A r \in Procs \ {np} : state'[r] = state[r]
    BY <1>1, <1>4 DEF OwnInv, Typed
  <1>8. \A x \in Pages : x \notin PagesIn(job[p].space) /\ x # kstack[np] => content'[x] = content[x]
    BY <1>4 DEF Junked
  <1>9. ~Growing(p)
    BY DEF Forking, Growing
  <1>10. SideTwo(p, np)
    BY <1>1, <1>4, <1>5, <1>7, <1>8, <1>9 DEF SideTwo
  <1> QED
    BY <1>1, <1>6, <1>10, FlatSideTwo

\* copyuvm has the kernel's part of the new address space, or fails.
LEMMA FlatCopySetup ==
  ASSUME OwnInv, FlatInv, NEW p \in Procs, copy_setup(p)
  PROVE  FlatInv'
  <1> DEFINE k == setupkvm(free)
             l == [job[p] EXCEPT !.pc = "copy", !.space = k.space]
  <1>1. state[p] = "RUNNING" /\ halted = {} /\ job[p].pc = "setup"
    BY DEF copy_setup, Running
  <1>2. JobOK(p) /\ job[p] \in JobType /\ sz[p] \in Nat
    BY <1>1, Actor
  <1>3. job[p].space = NoSpace /\ Forking(p) /\ ~Growing(p)
    BY <1>1, <1>2 DEF JobOK, Forking, Growing
  <1>4. CASE Goto(p, l) /\ UNCHANGED <<content, state, as, sz, want, damaged, halted>>
    <2>1. CopyOK(p)
      BY <1>1 DEF FlatInv, FlatOK
    <2>2. job[p].a = 0
      BY <1>1, <2>1 DEF CopyOK
    <2>3. l.pc = "copy" /\ l.a = 0
      BY <1>2, <2>2 DEF JobType
    <2> HIDE DEF k, l
    <2>4. job'[p] = l /\ \A r \in Procs \ {p} : job'[r] = job[r]
      BY <1>4, GotoIs
    <2>5. GrowOK(p)' /\ ExecOK(p)'
      BY <2>3, <2>4 DEF GrowOK, ExecOK, Growing
    <2>6. PGROUNDUP(sz[p]) \in Nat /\ VPages \subseteq Nat
      BY <1>2, RoundUp, VPagesAre
    <2>7. 0 <= PGROUNDUP(sz[p]) /\ \A v \in VPages : ~(v < 0)
      BY <2>6
    <2>8. CopyOK(p)'
      BY <1>4, <2>3, <2>4, <2>7 DEF CopyOK
    <2>9. Side(p)
      BY <1>1, <1>3, <1>4, <2>4 DEF Side
    <2> QED
      BY <2>5, <2>8, <2>9, FlatSide
  <1>5. CASE ForkFails(p, NoSpace, k.free)
    <2>1. ForkFails(p, job[p].space, k.free)
      BY <1>3, <1>5
    <2> HIDE DEF k
    <2> QED
      BY <1>1, <1>3, <2>1, FlatForkFails
  <1> QED
    BY <1>4, <1>5 DEF copy_setup

\* A process that lacks a page below its size is damaged.
LEMMA LacksPage ==
  ASSUME OwnInv, FlatInv, NEW p \in Procs, state[p] = "RUNNING", NEW v \in Nat, v < PGROUNDUP(sz[p]),
         as[p].pte[v] = NoPte
  PROVE  HaltFor(p)
  <1>1. sz[p] \in Nat
    BY Actor
  <1>2. v \in PagesOf(sz[p])
    <2>1. PGROUNDUP(sz[p]) \in Nat
      BY <1>1, RoundUp
    <2> QED
      BY <2>1 DEF PagesOf
  <1>3. SizeOK(p)
    BY DEF FlatInv, FlatOK
  <1> QED
    BY <1>2, <1>3 DEF SizeOK, HaltFor

\* copyuvm copies a page.
LEMMA FlatCopied ==
  ASSUME OwnInv, FlatInv, NEW p \in Procs, Running(p, "copy"), NEW q \in free, NEW m, NEW k, NEW u,
         job[p].a \in VPages, job[p].a * PGSIZE < sz[p], u = as[p].pte[job[p].a].u,
         as[p].pte[job[p].a] # NoPte, MapAt(job[p].space, job[p].a, q, u, m), m.ok,
         content' = [content EXCEPT ![q] = content[as[p].pte[job[p].a].pa]],
         k = [job[p] EXCEPT !.a = @ + 1, !.space = m.space], Goto(p, k),
         UNCHANGED <<state, as, sz, want, damaged, halted>>
  PROVE  FlatInv'
  <1> DEFINE j == job[p]
             z == m.space
             s == as[p]
  <1>1. state[p] = "RUNNING" /\ halted = {} /\ j.pc = "copy" /\ ~Growing(p)
    BY DEF Running, Growing
  <1>2. /\ SpaceOK(s) /\ SpaceOK(j.space) /\ j \in JobType /\ free \subseteq Pages /\ sz[p] \in Nat
        /\ free \cap PagesIn(s) = {} /\ free \cap PagesIn(j.space) = {}
    BY <1>1, Actor
  <1>3. j.a \in Nat /\ VPages \subseteq Nat
    BY VPagesAre
  <1>4. k.a = j.a + 1 /\ k.pc = "copy" /\ k.space = z
    <2> HIDE DEF j, z
    <2> QED
      BY <1>1, <1>2 DEF JobType, j, z
  <1>5. job'[p] = k /\ \A r \in Procs \ {p} : job'[r] = job[r]
    BY GotoIs
  <1>6. /\ \A w \in VPages : w # j.a => z.pte[w] = j.space.pte[w]
        /\ z.pte[j.a] = [pa |-> q, u |-> u]
    BY DEF MapAt
  <1>7. q \in Pages /\ q # NoPage
    BY <1>2, PageNumbers
  <1>8. content'[q] = content[s.pte[j.a].pa] /\ \A x \in Pages : x # q => content'[x] = content[x]
    BY <1>7 DEF OwnInv, Typed
  <1>9. Kept(s) /\ Kept(j.space)
    <2>1. PagesIn(s) \subseteq Pages /\ PagesIn(j.space) \subseteq Pages
      BY <1>2, PagesInAre
    <2>2. /\ \A x \in PagesIn(s) : content'[x] = content[x]
          /\ \A x \in PagesIn(j.space) : content'[x] = content[x]
      BY <1>2, <1>8, <2>1
    <2> QED
      BY <1>2, <2>2, KeptIf
  <1>10. CopyOK(p)
    BY <1>1 DEF FlatInv, FlatOK
  <1>11. \A v \in VPages : v < j.a =>
           /\ s.pte[v] # NoPte /\ j.space.pte[v] # NoPte /\ j.space.pte[v].u = s.pte[v].u
           /\ content[j.space.pte[v].pa] = content[s.pte[v].pa]
    BY <1>1, <1>10 DEF CopyOK
  <1>12. ASSUME NEW v \in VPages, v < j.a + 1
         PROVE  /\ s.pte[v] # NoPte /\ z.pte[v] # NoPte /\ z.pte[v].u = s.pte[v].u
                /\ content'[z.pte[v].pa] = content'[s.pte[v].pa]
    <2>1. CASE v = j.a
      <3>1. z.pte[v].pa = q /\ z.pte[v].u = s.pte[v].u /\ z.pte[v] # NoPte
        <4>1. z.pte[v] = [pa |-> q, u |-> u] /\ u = s.pte[v].u
          BY <1>6, <2>1
        <4> HIDE DEF z, s
        <4>2. z.pte[v].pa = q /\ z.pte[v].u = u
          BY <4>1
        <4>3. NoPte.pa = NoPage
          BY DEF NoPte
        <4> QED
          BY <1>7, <4>1, <4>2, <4>3
      <3>2. content'[s.pte[v].pa] = content[s.pte[v].pa]
        BY <1>9, <2>1 DEF Kept
      <3> QED
        BY <1>8, <2>1, <3>1, <3>2
    <2>2. CASE v # j.a
      <3>1. v < j.a
        <4>1. v \in Nat
          BY <1>3
        <4> HIDE DEF j
        <4> QED
          BY <1>3, <1>12, <2>2, <4>1
      <3>2. z.pte[v] = j.space.pte[v]
        BY <1>6, <2>2
      <3>3. /\ s.pte[v] # NoPte /\ j.space.pte[v] # NoPte /\ j.space.pte[v].u = s.pte[v].u
            /\ content[j.space.pte[v].pa] = content[s.pte[v].pa]
        BY <1>11, <3>1
      <3>4. /\ content'[s.pte[v].pa] = content[s.pte[v].pa]
            /\ content'[j.space.pte[v].pa] = content[j.space.pte[v].pa]
        BY <1>9, <3>3 DEF Kept
      <3> QED
        BY <3>2, <3>3, <3>4
    <2> QED
      BY <2>1, <2>2
  <1>13. j.a + 1 <= PGROUNDUP(sz[p])
    <2>1. PGROUNDUP(sz[p]) \in Nat /\ j.a < PGROUNDUP(sz[p])
      BY <1>2, <1>3, RoundUp
    <2> QED
      BY <1>3, <2>1
  <1>14. CopyOK(p)'
    <2>1. job'[p].pc = "copy" /\ job'[p].a = j.a + 1 /\ job'[p].space = z /\ as'[p] = s /\ sz'[p] = sz[p]
      BY <1>4, <1>5
    <2>2. job'[p].a <= PGROUNDUP(sz'[p])
      BY <1>13, <2>1
    <2>3. ASSUME NEW v \in VPages, v < job'[p].a
          PROVE  /\ as'[p].pte[v] # NoPte /\ job'[p].space.pte[v] # NoPte
                 /\ job'[p].space.pte[v].u = as'[p].pte[v].u
                 /\ content'[job'[p].space.pte[v].pa] = content'[as'[p].pte[v].pa]
      <3>1. v < j.a + 1
        BY <2>1, <2>3
      <3> HIDE DEF z, s, j
      <3> QED
        BY <1>12, <2>1, <3>1
    <2> QED
      BY <2>1, <2>2, <2>3 DEF CopyOK
  <1>15. GrowOK(p)' /\ ExecOK(p)'
    BY <1>4, <1>5 DEF GrowOK, ExecOK, Growing
  <1>16. Side(p)
    BY <1>1, <1>5, <1>8 DEF Side
  <1> QED
    BY <1>14, <1>15, <1>16, FlatSide

\* copy_page
LEMMA FlatCopyPage ==
  ASSUME OwnInv, FlatInv, NEW p \in Procs, copy_page(p)
  PROVE  FlatInv'
  <1> DEFINE j == job[p]
             pte == as[p].pte[j.a]
             q == kalloc(free)
             u == flags(pte)
             m == mappages(j.space, j.a, q, u, free \ {q})
             k == [j EXCEPT !.a = @ + 1, !.space = m.space]
  <1>1. Running(p, "copy") /\ state[p] = "RUNNING" /\ halted = {} /\ j.pc = "copy" /\ j.a * PGSIZE < sz[p]
    BY DEF copy_page, Running
  <1>2. /\ JobOK(p) /\ j \in JobType /\ free \subseteq Pages /\ SpaceOK(j.space) /\ SpaceOK(as[p])
        /\ free \cap PagesIn(j.space) = {} /\ sz[p] \in Nat /\ sz[p] < KERNBASE
    BY <1>1, Actor
  <1>3. j.space # NoSpace /\ Forking(p)
    BY <1>1, <1>2 DEF JobOK, Forking
  <1>4. j.a \in Nat /\ j.a \in VPages
    <2>1. j.a \in Nat
      BY <1>2 DEF JobType
    <2>2. j.a * PGSIZE < KERNBASE
      BY <1>1, <1>2, <2>1, Sizes
    <2> QED
      BY <2>1, <2>2, VPagesAre
  <1>5. CASE pte = NoPte /\ Halt(p, FALSE)
    <2>1. j.a < PGROUNDUP(sz[p])
      BY <1>1, <1>2, <1>4, RoundUp
    <2>2. HaltFor(p)
      BY <1>1, <1>4, <1>5, <2>1, LacksPage
    <2> QED
      BY <1>5, <2>2, FlatHalt
  <1>6. CASE ForkFails(p, j.space, free)
    BY <1>1, <1>3, <1>6, FlatForkFails
  <1>7. CASE ForkFails(p, j.space, m.free)
    <2> HIDE DEF m
    <2> QED
      BY <1>1, <1>3, <1>7, FlatForkFails
  <1>8. CASE /\ pte # NoPte /\ free # {} /\ m.ok
             /\ content' = [content EXCEPT ![q] = content[pte.pa]]
             /\ Goto(p, k)
             /\ UNCHANGED <<state, as, sz, want, damaged, halted>>
    <2>1. j.space.pte[j.a] = NoPte
      BY <1>1, <1>2, <1>4 DEF JobOK
    <2>2. u \in BOOLEAN /\ u = as[p].pte[j.a].u
      BY <1>2, <1>4, SpaceFields DEF flags
    <2>3. /\ j = job[p] /\ q = kalloc(free) /\ m = mappages(j.space, j.a, q, u, free \ {q})
          /\ k = [j EXCEPT !.a = @ + 1, !.space = m.space] /\ pte = as[p].pte[j.a]
      OBVIOUS
    <2> HIDE DEF j, pte, q, u, m, k
    <2>4. MapStep(j.space, free, j.a, u, q, m)
      BY <1>2, <1>3, <1>4, <1>8, <2>1, <2>2, <2>3, MapFree
    <2>5. MapAt(j.space, j.a, q, u, m)
      BY <1>4, <2>1, <2>4, MapIs
    <2>6. q \in free
      BY <2>4 DEF MapStep
    <2> QED
      BY <1>1, <1>4, <1>8, <2>2, <2>3, <2>5, <2>6, FlatCopied
  <1> QED
    BY <1>5, <1>6, <1>7, <1>8 DEF copy_page

\* fork lets the child run: it has a copy of all that its parent has.
LEMMA FlatForked ==
  ASSUME OwnInv, FlatInv, NEW p \in Procs, forked(p), NEW np, np = job[p].np
  PROVE  FlatInv'
  <1> DEFINE j == job[p]
             z == j.space
             s == as[p]
  <1>1. state[p] = "RUNNING" /\ halted = {} /\ j.pc = "copy" /\ ~Growing(p) /\ Forking(p)
    BY DEF forked, Running, Growing, Forking
  <1>2. /\ as' = [as EXCEPT ![np] = z] /\ sz' = [sz EXCEPT ![np] = sz[p]]
        /\ state' = [state EXCEPT ![np] = "RUNNING"] /\ want' = [want EXCEPT ![np] = want[p]]
        /\ Goto(p, Idle) /\ UNCHANGED <<content, damaged, halted>> /\ j.a * PGSIZE >= sz[p]
    BY DEF forked
  <1>3. /\ np \in Procs /\ p # np /\ job[np] = Idle
    BY <1>1, Child
  <1>4. SpaceOK(s) /\ j \in JobType /\ JobOK(p) /\ sz[p] \in Nat /\ sz[p] < KERNBASE
    BY <1>1, Actor
  <1>5. j.a \in Nat /\ \A v \in VPages : v >= j.a => z.pte[v] = NoPte
    BY <1>1, <1>4 DEF JobType, JobOK
  <1>6. WantOK(p) /\ SizeOK(p) /\ CopyOK(p)
    BY <1>1 DEF FlatInv, FlatOK
  <1>7. /\ j.a <= PGROUNDUP(sz[p])
        /\ \A v \in VPages : v < j.a =>
             /\ s.pte[v] # NoPte /\ z.pte[v] # NoPte /\ z.pte[v].u = s.pte[v].u
             /\ content[z.pte[v].pa] = content[s.pte[v].pa]
    BY <1>1, <1>6 DEF CopyOK
  <1>8. j.a = PGROUNDUP(sz[p])
    <2>1. ~(j.a * PGSIZE < sz[p])
      BY <1>2, <1>4, <1>5, Sizes
    <2> QED
      BY <1>4, <1>5, <1>7, <2>1, AllThrough
  <1>9. /\ VPages \subseteq Nat /\ PagesOf(sz[p]) \subseteq VPages
        /\ \A v \in VPages : v \in PagesOf(sz[p]) <=> v < j.a
    BY <1>4, <1>8, InPages, VPagesAre
  <1>10. /\ as \in [Procs -> SpaceType] /\ sz \in [Procs -> 0 .. KERNBASE - 1] /\ want \in WantType
         /\ state \in [Procs -> {"UNUSED", "EMBRYO", "RUNNING", "ZOMBIE"}]
    BY DEF OwnInv, Typed, FlatInv, WantType
  <1>11. /\ as'[np] = z /\ \A r \in Procs \ {np} : as'[r] = as[r]
         /\ sz'[np] = sz[p] /\ \A r \in Procs \ {np} : sz'[r] = sz[r]
    BY <1>2, <1>3, <1>10
  <1>12. /\ want'[np] = want[p] /\ \A r \in Procs \ {np} : want'[r] = want[r]
         /\ \A r \in Procs \ {np} : state'[r] = state[r]
    BY <1>2, <1>3, <1>10 DEF WantType
  <1>13. job'[p] = Idle /\ (\A r \in Procs \ {p} : job'[r] = job[r]) /\ job'[np] = Idle
    BY <1>2, <1>3, GotoIs
  <1>14. /\ GrowOK(p)' /\ CopyOK(p)' /\ ExecOK(p)'
         /\ GrowOK(np)' /\ CopyOK(np)' /\ ExecOK(np)'
    BY <1>3, <1>13, IdleIs, IdleFlat
  <1>15. Kept(s)
    BY <1>2 DEF Kept
  <1>16. WantOK(p)' /\ SizeOK(p)'
    <2>1. as'[p] = as[p] /\ sz'[p] = sz[p] /\ want'[p] = want[p] /\ (p \in damaged' <=> p \in damaged)
      BY <1>2, <1>3, <1>11, <1>12
    <2> QED
      BY <1>1, <1>6, <1>15, <2>1, OwnSide
  <1>17. WantOK(np)'
    <2>1. ASSUME NEW v \in VPages, v \in PagesOf(sz[p])
          PROVE  Shows(want[p][v], v, content[z.pte[v].pa], z.pte[v].u)
      <3>1. /\ s.pte[v] # NoPte /\ z.pte[v].u = s.pte[v].u
            /\ content[z.pte[v].pa] = content[s.pte[v].pa]
        BY <1>7, <1>9, <2>1
      <3>2. Shows(want[p][v], v, content[s.pte[v].pa], s.pte[v].u)
        BY <1>6, <2>1, <3>1 DEF WantOK
      <3> QED
        BY <3>1, <3>2
    <2>2. \A v \in VPages : v \notin PagesOf(sz[p]) => want[p][v] = NoVal
      BY <1>6 DEF WantOK
    <2> HIDE DEF z, s
    <2> QED
      BY <1>2, <1>11, <1>12, <2>1, <2>2 DEF WantOK
  <1>18. SizeOK(np)'
    <2>1. \A v \in PagesOf(sz[p]) : z.pte[v] # NoPte
      BY <1>7, <1>9
    <2>2. \A v \in VPages \ PagesOf(sz[p]) : z.pte[v] = NoPte
      BY <1>5, <1>9
    <2> HIDE DEF z, s
    <2> QED
      BY <1>11, <2>1, <2>2 DEF SizeOK
  <1>19. FlatOK(p)' /\ FlatOK(np)'
    BY <1>14, <1>16, <1>17, <1>18 DEF FlatOK
  <1>20. ASSUME NEW r \in Procs \ {p, np} PROVE Alone(r)
    BY <1>2, <1>11, <1>12, <1>13 DEF Alone, Untouched
  <1>21. want' \in WantType
    BY <1>2, <1>3, <1>10 DEF WantType
  <1>22. HaltOnlyIfDamaged'
    BY <1>1, <1>2, NotHalted
  <1> DEFINE Q == {p, np}
  <1>23. (\A r \in Procs \ Q : Alone(r)) /\ \A r \in Procs \cap Q : state'[r] = "RUNNING" => FlatOK(r)'
    BY <1>19, <1>20
  <1> HIDE DEF Q
  <1> QED
    BY <1>21, <1>22, <1>23, FlatStep

\* exit
LEMMA FlatExit ==
  ASSUME OwnInv, FlatInv, NEW p \in Procs, exit(p)
  PROVE  FlatInv'
  <1>1. /\ halted = {} /\ state' = [state EXCEPT ![p] = "ZOMBIE"]
        /\ UNCHANGED <<content, as, sz, job, want, damaged, halted>>
    BY DEF exit, Called, Running
  <1>2. state'[p] = "ZOMBIE" /\ \A r \in Procs \ {p} : state'[r] = state[r]
    BY <1>1 DEF OwnInv, Typed
  <1>3. ASSUME NEW r \in Procs \ {p} PROVE Alone(r)
    BY <1>1, <1>2 DEF Alone, Untouched
  <1>4. HaltOnlyIfDamaged' /\ want' \in WantType
    BY <1>1, NotHalted DEF FlatInv, WantType
  <1> DEFINE Q == {p}
  <1>5. (\A r \in Procs \ Q : Alone(r)) /\ \A r \in Procs \cap Q : state'[r] = "RUNNING" => FlatOK(r)'
    BY <1>2, <1>3
  <1> HIDE DEF Q
  <1> QED
    BY <1>4, <1>5, FlatStep

\* wait: what the zombie had belongs to nobody else.
LEMMA FlatWait ==
  ASSUME OwnInv, FlatInv, NEW p \in Procs, NEW q \in Procs, wait(p, q)
  PROVE  FlatInv'
  <1> DEFINE freed == {kstack[q]} \cup freevm(as[q])
  <1>1. /\ halted = {} /\ state[q] = "ZOMBIE" /\ state' = [state EXCEPT ![q] = "UNUSED"]
        /\ content' = Junked(freed)
        /\ as' = [as EXCEPT ![q] = NoSpace] /\ want' = [want EXCEPT ![q] = [v \in VPages |-> NoVal]]
        /\ damaged' = damaged \ {q} /\ UNCHANGED <<sz, job, halted>>
    BY DEF wait, Running
  <1>2. SpaceOK(as[q]) /\ as[q] # NoSpace
    BY <1>1 DEF OwnInv, ProcOK
  <1>3. freed = {kstack[q]} \cup PagesIn(as[q])
    BY <1>2, FreeVm
  <1> HIDE DEF freed
  <1>4. want \in WantType
    BY DEF FlatInv, WantType
  <1>5. state'[q] = "UNUSED" /\ \A r \in Procs \ {q} : state'[r] = state[r] /\ as'[r] = as[r]
    BY <1>1 DEF OwnInv, Typed
  <1>6. \A r \in Procs \ {q} : want'[r] = want[r]
    BY <1>1, <1>4 DEF WantType
  <1>7. want' \in WantType
    <2>1. NoVal \in [val : Values \cup {"none"}, u : BOOLEAN]
      BY DEF NoVal
    <2> QED
      BY <1>1, <1>4, <2>1 DEF WantType
  <1>8. ASSUME NEW r \in Procs \ {q} PROVE Alone(r)
    <2>1. HeldOnce /\ SpaceOK(as[r]) /\ SpaceOK(job[r].space)
      BY DEF OwnInv, ProcOK
    <2>2. PagesIn(as[r]) \subseteq Pages /\ PagesIn(job[r].space) \subseteq Pages /\ NoPage \notin Pages
      BY <2>1, PagesInAre, PageNumbers
    <2>3. /\ ({kstack[q]} \ {NoPage}) \cap PagesIn(as[r]) = {}
          /\ ({kstack[q]} \ {NoPage}) \cap PagesIn(job[r].space) = {}
          /\ PagesIn(as[q]) \cap PagesIn(job[r].space) = {}
          /\ PagesIn(as[q]) \cap PagesIn(as[r]) = {}
      BY <2>1, Different
    <2>4. Untouched(r)
      BY <1>1, <1>3, <2>2, <2>3 DEF Untouched, Junked
    <2> QED
      BY <1>1, <1>5, <1>6, <2>4 DEF Alone
  <1>9. HaltOnlyIfDamaged'
    BY <1>1, NotHalted
  <1> DEFINE Q == {q}
  <1>10. (\A r \in Procs \ Q : Alone(r)) /\ \A r \in Procs \cap Q : state'[r] = "RUNNING" => FlatOK(r)'
    BY <1>5, <1>8
  <1> HIDE DEF Q
  <1> QED
    BY <1>7, <1>9, <1>10, FlatStep

\* A process has been promised something where it has been promised a page.
LEMMA ShowsSome ==
  ASSUME NEW w \in [val : Values \cup {"none"}, u : BOOLEAN], NEW v, NEW x \in Values, NEW u \in BOOLEAN,
         Shows(w, v, x, u)
  PROVE  w # NoVal /\ w.u = u
  <1>1. "none" \notin Values
    BY MemoryAssumption DEF Values
  <1>2. CASE w = [val |-> x, u |-> u]
    <2>1. w.val = x /\ w.u = u
      BY <1>2
    <2>2. NoVal.val = "none"
      BY DEF NoVal
    <2> QED
      BY <1>1, <2>1, <2>2
  <1>3. CASE w.u = u /\ w # NoVal
    BY <1>3
  <1> QED
    BY <1>2, <1>3 DEF Shows

\* Writing to memory: the pages belong to the process alone and are mapped once.
LEMMA FlatWritten ==
  ASSUME OwnInv, FlatInv, NEW p \in Procs, NEW V \in SUBSET VPages, NEW Z \in SUBSET {0},
         Running(p, "user"), Written(p, V, Z)
  PROVE  FlatInv'
  <1> DEFINE s == as[p]
             T == [val : Values \cup {"none"}, u : BOOLEAN]
             W(v) == IF v \in V /\ want[p][v] # NoVal THEN [val |-> p, u |-> want[p][v].u] ELSE want[p][v]
  <1>1. /\ state[p] = "RUNNING" /\ halted = {} /\ job[p].pc = "user" /\ ~Growing(p)
        /\ UNCHANGED <<state, as, sz, job, damaged, halted>>
    BY DEF Written, Running, Growing
  <1>2. SpaceOK(s) /\ sz[p] \in Nat /\ 0 \in VPages
    BY <1>1, Actor, VPagesAre
  <1>3. want \in [Procs -> [VPages -> T]] /\ content \in [Pages -> Values]
    BY DEF FlatInv, OwnInv, Typed
  <1>4. WantOK(p) /\ SizeOK(p)
    BY <1>1 DEF FlatInv, FlatOK
  <1>5. /\ content' \in [Pages -> Values]
        /\ \A x \in Pages : content'[x] = IF x \in UserPages(s, Z) THEN "pointer"
                                         ELSE IF x \in UserPages(s, V) THEN p ELSE content[x]
    BY <1>3 DEF Written, Values
  <1>6. ASSUME NEW v \in VPages PROVE W(v) \in T
    <2>1. want[p][v] \in T /\ p \in Values
      BY <1>3 DEF Values
    <2>2. want[p][v].u \in BOOLEAN
      BY <2>1
    <2>3. [val |-> p, u |-> want[p][v].u] \in T
      BY <2>1, <2>2
    <2> HIDE DEF T
    <2> QED
      BY <2>1, <2>3
  <1>7. want' = [want EXCEPT ![p] = [v \in VPages |-> W(v)]]
    BY DEF Written
  <1>8. /\ \A r \in Procs \ {p} : want'[r] = want[r]
        /\ \A v \in VPages : want'[p][v] = W(v)
        /\ want' \in [Procs -> [VPages -> T]]
    <2> DEFINE F == [v \in VPages |-> W(v)]
    <2>1. F \in [VPages -> T] /\ \A v \in VPages : F[v] = W(v)
      BY <1>6
    <2>2. want' = [want EXCEPT ![p] = F]
      BY <1>7
    <2> HIDE DEF F, W, T
    <2> QED
      BY <1>3, <2>1, <2>2
  <1>9. ASSUME NEW y \in VPages, y \in PagesOf(sz[p]), s.pte[y] # NoPte
        PROVE  Shows(want'[p][y], y, content'[s.pte[y].pa], s.pte[y].u)
    <2> DEFINE x == s.pte[y].pa
               u == s.pte[y].u
    <2>1. x \in Pages /\ x # NoPage /\ u \in BOOLEAN
      BY <1>2, <1>9, SpaceFields DEF Frames
    <2>2. ASSUME NEW A \in SUBSET VPages PROVE x \in UserPages(s, A) <=> y \in A
      <3>1. \A z \in VPages : z # y => s.pte[z].pa # x
        BY <1>2, <2>1 DEF SpaceOK, Separate
      <3> QED
        BY <2>1, <3>1 DEF UserPages
    <2>3. (x \in UserPages(s, V) <=> y \in V) /\ (x \in UserPages(s, Z) <=> y \in Z)
      BY <1>2, <2>2
    <2>4. content'[x] = IF y \in Z THEN "pointer" ELSE IF y \in V THEN p ELSE content[x]
      BY <1>5, <2>1, <2>3
    <2>5. Shows(want[p][y], y, content[x], u)
      BY <1>4, <1>9 DEF WantOK
    <2>6. want[p][y] # NoVal /\ want[p][y].u = u
      <3>1. want[p][y] \in T /\ content[x] \in Values
        BY <1>3, <2>1
      <3> QED
        BY <2>1, <2>5, <3>1, ShowsSome
    <2>7. want'[p][y] = IF y \in V THEN [val |-> p, u |-> u] ELSE want[p][y]
      BY <1>8, <2>6
    <2> HIDE DEF x, u, W, T, s
    <2>8. [val |-> p, u |-> u] # NoVal /\ [val |-> p, u |-> u].u = u
      <3>1. [val |-> p, u |-> u].val = p /\ NoVal.val = "none" /\ p # "none"
        BY MemoryAssumption DEF NoVal
      <3> QED
        BY <3>1
    <2>9. CASE y \in Z
      <3>1. y = 0 /\ content'[x] = "pointer"
        BY <2>4, <2>9
      <3>2. want'[p][y] # NoVal /\ want'[p][y].u = u
        BY <2>6, <2>7, <2>8
      <3> QED
        BY <3>1, <3>2 DEF Shows, x, u
    <2>10. CASE y \notin Z /\ y \in V
      BY <2>4, <2>7, <2>10 DEF Shows, x, u
    <2>11. CASE y \notin Z /\ y \notin V
      BY <2>4, <2>5, <2>7, <2>11 DEF x, u
    <2> QED
      BY <2>9, <2>10, <2>11
  <1>10. \A y \in VPages : y \notin PagesOf(sz[p]) => want'[p][y] = NoVal
    BY <1>4, <1>8 DEF WantOK
  <1>11. WantOK(p)'
    BY <1>1, <1>9, <1>10 DEF WantOK
  <1>12. SizeOK(p)'
    BY <1>1, <1>4 DEF SizeOK, Growing
  <1>13. GrowOK(p)' /\ CopyOK(p)' /\ ExecOK(p)'
    BY <1>1, IdleFlat
  <1>14. FlatOK(p)'
    BY <1>11, <1>12, <1>13 DEF FlatOK
  <1>15. UserPages(s, V) \subseteq PagesIn(s) /\ UserPages(s, Z) \subseteq PagesIn(s)
    BY <1>2 DEF UserPages, PagesIn
  <1>16. OnlyActor(p)
    <2> HIDE DEF W, T
    <2> QED
      BY <1>1, <1>5, <1>8, <1>15 DEF OnlyActor
  <1>17. HaltOnlyIfDamaged'
    BY <1>1, NotHalted
  <1>18. want' \in WantType
    BY <1>8 DEF WantType
  <1> QED
    BY <1>14, <1>16, <1>17, <1>18, FlatActor

\* A page below the size that is not there.
LEMMA LacksAddress ==
  ASSUME OwnInv, FlatInv, NEW p \in Procs, state[p] = "RUNNING", NEW x \in Nat, x < sz[p],
         Missing(as[p], x \div PGSIZE)
  PROVE  HaltFor(p)
  <1>1. sz[p] \in Nat /\ sz[p] < KERNBASE
    <2>1. sz[p] \in Nat
      BY Actor
    <2>2. sz \in [Procs -> 0 .. KERNBASE - 1]
      BY DEF OwnInv, Typed
    <2> QED
      BY <2>1, <2>2, Sizes
  <1> DEFINE v == x \div PGSIZE
  <1>2. v \in Nat /\ v < PGROUNDUP(sz[p]) /\ Missing(as[p], v)
    BY <1>1, AddressPage
  <1> HIDE DEF v
  <1>3. v \in VPages
    BY <1>1, <1>2, BelowKernel
  <1>4. as[p].pte[v] = NoPte
    BY <1>2, <1>3 DEF Missing
  <1> QED
    BY <1>2, <1>4, LacksPage

\* The smaller of two numbers.
LEMMA MinPair ==
  ASSUME NEW a \in Nat, NEW b \in Nat
  PROVE  Min({a, b}) \in Nat /\ Min({a, b}) <= a
  <1> DEFINE x == CHOOSE x \in {a, b} : \A y \in {a, b} : x <= y
  <1>1. \E z \in {a, b} : \A y \in {a, b} : z <= y
    <2>1. CASE a <= b
      BY <2>1
    <2>2. CASE b <= a
      BY <2>2
    <2> QED
      BY <2>1, <2>2
  <1>2. x \in {a, b} /\ \A y \in {a, b} : x <= y
    BY <1>1
  <1>3. Min({a, b}) = x
    BY DEF Min
  <1> QED
    BY <1>2, <1>3

\* read
LEMMA FlatRead ==
  ASSUME OwnInv, FlatInv, NEW p \in Procs, NEW addr \in 0 .. KERNBASE - 1,
         NEW n \in -KERNBASE .. KERNBASE - 1, NEW len \in Nat,
         sys_read(p, addr, n, len)
  PROVE  FlatInv'
  <1> DEFINE V == Touched(addr, ReadBytes(n, len))
  <1>1. state[p] = "RUNNING" /\ Running(p, "user") /\ Accepted(p, addr, n)
    BY DEF sys_read, Running
  <1>2. sz[p] \in Nat /\ sz \in [Procs -> 0 .. KERNBASE - 1] /\ sz[p] < KERNBASE
    <2>1. sz \in [Procs -> 0 .. KERNBASE - 1]
      BY DEF OwnInv, Typed
    <2> QED
      BY <2>1, Sizes
  <1>3. CASE (\E v \in V : Missing(as[p], v)) /\ Halt(p, n < 0)
    <2>1. (n < 0) \in BOOLEAN /\ KERNBASE \in Nat /\ n \in Int
      BY Sizes
    <2>2. CASE n < 0
      BY <1>3, <2>1, <2>2, FlatHalt
    <2>3. CASE ~(n < 0)
      <3>1. PICK i \in 0 .. ReadBytes(n, len) - 1 : Missing(as[p], (addr + i) \div PGSIZE)
        BY <1>3 DEF Touched
      <3>2. n \in Nat /\ ReadBytes(n, len) \in Nat /\ ReadBytes(n, len) <= n
        BY <2>1, <2>3, MinPair DEF ReadBytes
      <3>3. addr < sz[p] /\ (addr + n) % (2 * KERNBASE) <= sz[p]
        BY <1>1 DEF Accepted
      <3>4. addr + i < sz[p] /\ addr + i \in Nat
        <4> DEFINE a == addr + n
                   m == 2 * KERNBASE
        <4>1. a \in Nat /\ m \in Nat \ {0} /\ a % m <= sz[p]
          BY <3>2, <3>3, Sizes
        <4>2. a < m
          BY Sizes
        <4>3. a % m = a
          <5> HIDE DEF a, m
          <5> QED
            BY <4>1, <4>2, ModSmall
        <4> QED
          BY <1>2, <3>2, <4>1, <4>3
      <3>5. HaltFor(p)
        BY <1>1, <3>1, <3>4, LacksAddress
      <3> QED
        BY <1>3, <2>1, <3>5, FlatHalt
    <2> QED
      BY <2>2, <2>3
  <1>4. CASE (\A v \in V : ~Missing(as[p], v)) /\ Written(p, V, {})
    <2>1. V \in SUBSET VPages /\ {} \in SUBSET {0}
      BY <1>4 DEF Missing
    <2> HIDE DEF V
    <2> QED
      BY <1>1, <1>4, <2>1, FlatWritten
  <1> QED
    BY <1>3, <1>4 DEF sys_read

\* getprocs
LEMMA FlatGetprocs ==
  ASSUME OwnInv, FlatInv, NEW p \in Procs, NEW addr \in 0 .. KERNBASE - 1, NEW len \in Nat,
         sys_getprocs(p, addr, len)
  PROVE  FlatInv'
  <1> DEFINE V == Touched(addr, len)
             far == addr + len > sz[p]
  <1>1. state[p] = "RUNNING" /\ Running(p, "user") /\ addr < sz[p]
    BY DEF sys_getprocs, Running, Accepted
  <1>2. sz[p] \in Nat /\ addr + len \in Nat /\ far \in BOOLEAN
    <2>1. sz[p] \in Nat
      BY <1>1, Actor
    <2>2. addr + len \in Nat
      BY Sizes
    <2> QED
      BY <2>1, <2>2
  <1>3. CASE (\E v \in V \cup {0} : Missing(as[p], v)) /\ Halt(p, far)
    <2>1. CASE far
      BY <1>2, <1>3, <2>1, FlatHalt
    <2>2. CASE ~far
      <3>1. PICK v \in V \cup {0} : Missing(as[p], v)
        BY <1>3
      <3>2. CASE v \in V
        <4>1. PICK i \in 0 .. len - 1 : v = (addr + i) \div PGSIZE
          BY <3>2 DEF Touched
        <4>2. addr + i \in Nat /\ addr + i < sz[p]
          BY <1>2, <2>2, Sizes
        <4>3. Missing(as[p], (addr + i) \div PGSIZE)
          BY <3>1, <4>1
        <4>4. HaltFor(p)
          BY <1>1, <4>2, <4>3, LacksAddress
        <4> QED
          BY <1>2, <1>3, <4>4, FlatHalt
      <3>3. CASE v = 0
        <4>1. 0 \div PGSIZE = 0 /\ 0 \in Nat /\ 0 < sz[p]
          BY <1>1, <1>2, Sizes
        <4>2. Missing(as[p], 0 \div PGSIZE)
          BY <3>1, <3>3, <4>1
        <4>3. HaltFor(p)
          BY <1>1, <4>1, <4>2, LacksAddress
        <4> QED
          BY <1>2, <1>3, <4>3, FlatHalt
      <3> QED
        BY <3>2, <3>3
    <2> QED
      BY <2>1, <2>2
  <1>4. CASE (\A v \in V \cup {0} : ~Missing(as[p], v)) /\ Written(p, V, {0})
    <2>1. V \in SUBSET VPages /\ {0} \in SUBSET {0}
      BY <1>4 DEF Missing
    <2> HIDE DEF V
    <2> QED
      BY <1>1, <1>4, <2>1, FlatWritten
  <1> QED
    BY <1>3, <1>4 DEF sys_getprocs

\* A step that changes nothing.
LEMMA FlatStutter ==
  ASSUME OwnInv, FlatInv, UNCHANGED vars
  PROVE  FlatInv'
  <1>1. \A r \in Procs : Alone(r)
    BY DEF vars, Alone, Untouched
  <1>2. HaltOnlyIfDamaged' /\ want' \in WantType
    BY DEF vars, HaltOnlyIfDamaged, FlatInv, WantType
  <1> DEFINE Q == {}
  <1>3. (\A r \in Procs \ Q : Alone(r)) /\ \A r \in Procs \cap Q : state'[r] = "RUNNING" => FlatOK(r)'
    BY <1>1
  <1> HIDE DEF Q
  <1> QED
    BY <1>2, <1>3, FlatStep

\* Every step keeps the invariant.
LEMMA FlatNext ==
  ASSUME OwnInv, FlatInv, [Next]_vars
  PROVE  FlatInv'
  <1>1. ASSUME NEW p \in Procs, NEW n \in Deltas, sbrk(p, n) PROVE FlatInv'
    BY <1>1, FlatSbrk
  <1>2. ASSUME NEW p \in Procs, alloc_page(p) \/ alloc_fail(p) \/ grown(p) PROVE FlatInv'
    BY <1>2, FlatAllocPage, FlatAllocFail, FlatGrown
  <1>3. ASSUME NEW p \in Procs, NEW np \in Procs, fork(p, np) PROVE FlatInv'
    BY <1>3, FlatFork
  <1>4. ASSUME NEW p \in Procs, copy_setup(p) \/ copy_page(p) \/ forked(p) PROVE FlatInv'
    BY <1>4, FlatCopySetup, FlatCopyPage, FlatForked
  <1>5. ASSUME NEW p \in Procs, NEW img \in Images, exec(p, img) PROVE FlatInv'
    BY <1>5, FlatExec
  <1>6. ASSUME NEW p \in Procs, exec_next(p) \/ loaduvm(p) \/ clearpteu(p) PROVE FlatInv'
    BY <1>6, FlatExecNext, FlatLoad, FlatClear
  <1>7. ASSUME NEW p \in Procs, NEW n \in ArgSizes, exec_args(p, n) PROVE FlatInv'
    BY <1>7, FlatArgs
  <1>8. ASSUME NEW p \in Procs, exec_freevm(p) \/ exit(p) PROVE FlatInv'
    BY <1>8, FlatFreevm, FlatExit
  <1>9. ASSUME NEW p \in Procs, NEW q \in Procs, wait(p, q) PROVE FlatInv'
    BY <1>9, FlatWait
  <1>10. ASSUME NEW p \in Procs, NEW v \in VPages, store(p, v) PROVE FlatInv'
    <2>1. Running(p, "user") /\ Written(p, {v}, {}) /\ {v} \in SUBSET VPages /\ {} \in SUBSET {0}
      BY <1>10 DEF store
    <2> QED
      BY <2>1, FlatWritten
  <1>11. ASSUME NEW p \in Procs, NEW addr \in 0 .. KERNBASE - 1, NEW n \in ReadSizes, NEW len \in Lengths,
                sys_read(p, addr, n, len)
         PROVE  FlatInv'
    BY <1>11, FlatRead, MemoryAssumption
  <1>13. ASSUME NEW p \in Procs, NEW addr \in 0 .. KERNBASE - 1, NEW len \in Lengths, sys_getprocs(p, addr, len)
         PROVE  FlatInv'
    BY <1>13, FlatGetprocs, MemoryAssumption
  <1>12. CASE UNCHANGED vars
    BY <1>12, FlatStutter
  <1> QED
    BY <1>1, <1>2, <1>3, <1>4, <1>5, <1>6, <1>7, <1>8, <1>9, <1>10, <1>11, <1>12, <1>13 DEF Next

-----------------------------------------------------------------------------
(***************************************************************************)
(* The first process, and the theorems.                                    *)
(***************************************************************************)

\* initcode has one page.
LEMMA FlatInit ==
  ASSUME Init
  PROVE  FlatInv
  <1> DEFINE b == Booted
             T == [val : Values \cup {"none"}, u : BOOLEAN]
             one == [val |-> "text", u |-> TRUE]
  <1>1. /\ b.space.pte[0].pa \in Pages /\ b.space.pte[0].u = TRUE
        /\ \A v \in VPages : v # 0 => b.space.pte[v] = NoPte
    <2>1. b = Booted
      OBVIOUS
    <2> HIDE DEF b
    <2> QED
      BY <2>1, BootSpace
  <1>2. as[initproc] = b.space /\ job[initproc] = Idle /\ sz[initproc] = PGSIZE
    BY MemoryAssumption DEF Init
  <1>3. content[b.space.pte[0].pa] = "text"
    BY <1>1 DEF Init
  <1> HIDE DEF b
  <1>4. want = [p \in Procs |-> [v \in VPages |-> IF p = initproc /\ v = 0 THEN one ELSE NoVal]]
    BY DEF Init
  <1>5. one \in T /\ NoVal \in T
    BY DEF Values, NoVal
  <1> HIDE DEF T, one
  <1>6. want \in [Procs -> [VPages -> T]]
    BY <1>4, <1>5
  <1>7. want \in [Procs -> [VPages -> [val : Values \cup {"none"}, u : BOOLEAN]]]
    BY <1>6 DEF T
  <1>8. \A p \in Procs : state[p] = "RUNNING" => p = initproc
    BY DEF Init
  <1>9. HaltOnlyIfDamaged
    BY DEF Init, HaltOnlyIfDamaged
  <1>10. PagesOf(PGSIZE) = {0} /\ 0 \in VPages
    <2>1. 1 * PGSIZE = PGSIZE /\ PGROUNDUP(1 * PGSIZE) = 1
      BY RoundWhole, Sizes
    <2>2. PGROUNDUP(PGSIZE) = 1
      BY <2>1
    <2> QED
      BY <2>2, VPagesAre DEF PagesOf
  <1>11. WantOK(initproc)
    <2>1. want[initproc][0] = one /\ \A v \in VPages : v # 0 => want[initproc][v] = NoVal
      BY <1>4, <1>10, MemoryAssumption
    <2>2. want[initproc][0] = [val |-> "text", u |-> TRUE]
      BY <2>1 DEF one
    <2>3. [val |-> content[b.space.pte[0].pa], u |-> b.space.pte[0].u] = [val |-> "text", u |-> TRUE]
      BY <1>1, <1>3
    <2> QED
      BY <1>2, <1>10, <2>1, <2>2, <2>3 DEF WantOK, Shows
  <1>12. SizeOK(initproc)
    <2>1. b.space.pte[0] # NoPte
      <3>1. NoPte.pa = NoPage
        BY DEF NoPte
      <3> QED
        BY <1>1, <3>1, PageNumbers
    <2> QED
      BY <1>1, <1>2, <1>10, <2>1 DEF SizeOK
  <1>13. GrowOK(initproc) /\ CopyOK(initproc) /\ ExecOK(initproc)
    BY <1>2, IdleIs DEF GrowOK, CopyOK, ExecOK, Growing
  <1>14. FlatOK(initproc)
    BY <1>11, <1>12, <1>13 DEF FlatOK
  <1> QED
    BY <1>7, <1>8, <1>9, <1>14 DEF FlatInv

\* The invariant says what the properties do.
LEMMA FlatImplies ==
  ASSUME FlatInv
  PROVE  SpaceIsFlat /\ HaltOnlyIfDamaged
  <1>1. ASSUME NEW p \in Procs, state[p] = "RUNNING", job[p].pc = "user", p \notin damaged, NEW v \in VPages
        PROVE  /\ v \in PagesOf(sz[p]) <=> as[p].pte[v] # NoPte
               /\ as[p].pte[v] = NoPte => want[p][v] = NoVal
               /\ as[p].pte[v] # NoPte =>
                    Shows(want[p][v], v, content[as[p].pte[v].pa], as[p].pte[v].u)
    <2>1. WantOK(p) /\ SizeOK(p) /\ ~Growing(p)
      BY <1>1 DEF FlatInv, FlatOK, Growing
    <2>2. v \in PagesOf(sz[p]) <=> as[p].pte[v] # NoPte
      BY <1>1, <2>1 DEF SizeOK
    <2> QED
      BY <2>1, <2>2 DEF WantOK
  <1>2. SizeIsMapped
    BY <1>1 DEF SizeIsMapped
  <1>3. MemoryIsFlat
    BY <1>1 DEF MemoryIsFlat
  <1>4. HaltOnlyIfDamaged
    BY DEF FlatInv
  <1> QED
    BY <1>2, <1>3, <1>4 DEF SpaceIsFlat, Astray

\* FlatInv holds in every state of every behaviour.
LEMMA FlatInvariant == Spec => []FlatInv
  <1>1. Init => FlatInv
    BY FlatInit
  <1>2. OwnInv /\ FlatInv /\ [Next]_vars => FlatInv'
    BY FlatNext
  <1> QED
    BY <1>1, <1>2, OwnInvariant, PTL DEF Spec

\* A process finds in its memory, up to its size and nowhere else, what it, its parent and
\* exec have put there, whatever other processes allocate, free and write and whatever
\* the program headers say, for every number of processes and pages and every size of page and
\* page table.  It does until a malformed segment (exec.c), a negative size or the table of
\* getprocs (syscall.c) leads the kernel outside of the memory of a process; and address 0 may
\* hold what getprocs has stored there.
THEOREM SpaceIsFlatAlways == Spec => []SpaceIsFlat
  <1>1. FlatInv => SpaceIsFlat
    BY FlatImplies
  <1> QED
    BY <1>1, FlatInvariant, PTL

\* The kernel panics, or follows a null pointer, only for a process that has lost memory to an
\* unchecked mappages or to a failed shrink (vm.c), for a segment that does not begin with a
\* page or wraps around (exec.c), or for a block that argptr has not measured (syscall.c).
THEOREM HaltOnlyIfDamagedAlways == Spec => []HaltOnlyIfDamaged
  <1>1. FlatInv => HaltOnlyIfDamaged
    BY FlatImplies
  <1> QED
    BY <1>1, FlatInvariant, PTL
=============================================================================
