-------------------------- MODULE FileSystemProofs ---------------------------
(***************************************************************************)
(* Proofs about FileSystem, for every number of processes, inodes, files   *)
(* and descriptors, every tree to start from and every set of calls.       *)
(***************************************************************************)
EXTENDS FileSystem, FiniteSetTheorems, FunctionTheorems, SequenceTheorems, WellFoundedInduction, TLAPS

(***************************************************************************)
(* The inductive invariant.                                                *)
(***************************************************************************)

Pcs == {"user", "dead", "end", "walk", "open", "link", "chdir", "create_old", "link_bad",
        "creat", "mkdir", "mknod", "unlink", "link2", "create_new", "unlink_ip",
        "created", "unlink_count"}
Creating == {"creat", "mkdir", "mknod"}
PathOps == {"open", "link", "chdir", "unlink", "link2"} \cup Creating

Thread == [pc : Pcs, op : PathOps \cup {"none", "exit"}, rest : Seq(Name), new : Seq(Path),
           cur : 0 .. NINODES, ip : 0 .. NINODES, dp : 0 .. NINODES, name : Name,
           puts : Seq(Inum), freeing : 0 .. 2]

DiskType == [Inum -> [type : InodeType, nlink : Int, ents : [Name -> 0 .. NINODES]]]
CacheEntry == [ref : Nat, busy : Proc \cup {NoProc}, valid : BOOLEAN, type : InodeType, nlink : Int]

RestTyped ==
  /\ disk \in DiskType /\ committed.disk \in DiskType
  /\ ftable \in [1 .. NFILE -> [ref : Nat, ip : 0 .. NINODES]]
  /\ ofile \in [Proc -> [1 .. NOFILE -> 0 .. NFILE]]
  /\ cwd \in [Proc -> 0 .. NINODES]
  /\ th \in [Proc -> Thread]

Typed == RestTyped /\ icache \in [Inum -> CacheEntry]

\* What a call has in its local variables at each place of its code.
CallOK(t) ==
  /\ Len(t.puts) <= 2
  /\ t.puts # <<>> => t.pc \in {"end", "walk", "create_old", "link_bad", "created", "unlink_count"}
  /\ t.freeing # 0 => t.puts # <<>>
  /\ t.cur # 0 <=> t.pc = "walk"
  /\ t.dp # 0 <=> t.pc \in Creating \cup {"unlink", "link2", "create_new", "unlink_ip"}
  /\ t.ip # 0 <=>
       \/ t.pc \in {"open", "link", "chdir", "create_old", "link_bad", "link2", "create_new",
                    "unlink_ip", "created", "unlink_count"}
       \/ t.pc = "walk" /\ t.op = "link2"
  /\ t.pc \in {"walk", "open", "link", "chdir", "unlink", "link2"} \cup Creating => t.op \in PathOps
  /\ t.pc \in {"create_old", "create_new", "created"} => t.op \in Creating
  /\ t.pc \in PathOps => t.op = t.pc
  /\ t.op = "link" /\ t.pc \in {"walk", "link"} => Len(t.new) = 1
  /\ t.op = "exit" => t.pc = "end"
  /\ t.pc = "create_new" => t.dp # t.ip
  /\ t.pc \in {"created", "unlink_count"} /\ t.puts # <<>> => t.puts[1] # t.ip /\ Len(t.puts) = 1

\* A process that is gone, or about to be, has neither a directory nor files.
Gone(t) == t.pc = "dead" \/ t.op = "exit"
ProcessOK(p) ==
  /\ CallOK(th[p])
  /\ cwd[p] = 0 <=> Gone(th[p])
  /\ Gone(th[p]) => \A fd \in 1 .. NOFILE : ofile[p][fd] = 0

FilesOK == \A f \in 1 .. NFILE : ftable[f].ip = 0 <=> ftable[f].ref = 0

\* Somebody in the calls h has allocated inode i and has not yet linked it.
Coming(h, i) == \E p \in Proc : h[p].pc = "create_new" /\ h[p].ip = i

\* Somebody in the calls h has freed inode i and has not yet left its entry.
Freed(h, i) == \E p \in Proc : h[p].freeing = 2 /\ h[p].puts[1] = i

\* The locks that process p keeps over a step.
LocksOK(p) ==
  LET t == th[p] IN
  /\ t.pc \in {"create_new", "unlink_ip"} => icache[t.dp].busy = p /\ icache[t.dp].valid
  /\ t.pc \in {"created", "unlink_count"} => icache[t.ip].busy = p /\ icache[t.ip].valid
  /\ t.freeing # 0 =>
       LET i == t.puts[1] IN icache[i].busy = p /\ icache[i].valid /\ icache[i].nlink = 0
  /\ t.freeing = 2 => disk[t.puts[1]].type = "free" \/ Coming(th, t.puts[1])

\* A valid entry is in use and agrees with the disk; a busy one is in use.
CacheOK(i) ==
  /\ icache[i].valid =>
       /\ icache[i].ref > 0
       /\ icache[i].nlink = disk[i].nlink
       /\ Freed(th, i) \/ (icache[i].type = disk[i].type /\ disk[i].type # "free")
  /\ icache[i].ref = 0 => icache[i].busy = NoProc

\* An inode without links has a valid entry, whose last iput will free it.
ReclaimOK(i) ==
  disk[i].type # "free" /\ disk[i].nlink = 0 =>
    icache[i].valid \/ Coming(th, i) \/ i \in leaked \cup lost

Body ==
  /\ Typed
  /\ \A p \in Proc : ProcessOK(p)
  /\ FilesOK
  /\ \A i \in Inum : icache[i].ref = PointersTo(i)
  /\ \A p \in Proc : LocksOK(p)
  /\ \A i \in Inum : CacheOK(i) /\ ReclaimOK(i)

FSInv == FileRefs /\ (panicked = "none" => Body)

(***************************************************************************)
(* Counting.                                                               *)
(***************************************************************************)

\* A set of natural numbers has a least one, which Min gives.
LEMMA MinOf ==
  ASSUME NEW S, S \subseteq Nat, S # {}
  PROVE  Min(S) \in S
  <1> DEFINE R == OpToRel(<, Nat)
  <1>1. \A x, y \in Nat : <<x, y>> \in R <=> x < y
    BY DEF OpToRel
  <1>2. IsWellFoundedOn(R, Nat)
    BY NatLessThanWellFounded
  <1> HIDE DEF R
  <1>3. PICK x \in S : \A y \in S : ~(<<y, x>> \in R)
    BY <1>2, WFMin
  <1>4. ASSUME NEW y \in S PROVE x <= y
    <2>1. x \in Nat /\ y \in Nat
      OBVIOUS
    <2>2. ~(y < x)
      BY <1>1, <1>3, <2>1
    <2> QED
      BY <2>1, <2>2
  <1> QED
    BY <1>4 DEF Min

\* One if x is i.
Is(x, i) == IF x = i THEN 1 ELSE 0

\* The size of a set that one element may have left or entered.
LEMMA OneElement ==
  ASSUME NEW K, IsFiniteSet(K), NEW S, NEW T, S \subseteq K, T \subseteq K, NEW k \in K,
         \A x \in K \ {k} : x \in S <=> x \in T
  PROVE  /\ Cardinality(S) \in Nat /\ Cardinality(T) \in Nat
         /\ Cardinality(T) = Cardinality(S) - (IF k \in S THEN 1 ELSE 0) + (IF k \in T THEN 1 ELSE 0)
  <1>1. IsFiniteSet(S) /\ IsFiniteSet(T)
    BY FS_Subset
  <1>2. Cardinality(S) \in Nat /\ Cardinality(T) \in Nat
    BY <1>1, FS_CardinalityType
  <1>3. S \ {k} = T \ {k}
    OBVIOUS
  <1>4. /\ Cardinality(S \ {k}) = IF k \in S THEN Cardinality(S) - 1 ELSE Cardinality(S)
        /\ Cardinality(T \ {k}) = IF k \in T THEN Cardinality(T) - 1 ELSE Cardinality(T)
    BY <1>1, FS_RemoveElement
  <1> QED
    BY <1>2, <1>3, <1>4

\* A row of a table has as many elements as columns.
Columns(K, p, S) == {k \in K : <<p, k>> \in S}
Row(P, K, p, S) == {x \in P \X K : x[1] = p /\ x \in S}

\* The elements of a row are its columns.
LEMMA RowSize ==
  ASSUME NEW P, NEW K, IsFiniteSet(K), NEW p \in P, NEW S, S \subseteq P \X K
  PROVE  /\ IsFiniteSet(Row(P, K, p, S)) /\ Cardinality(Columns(K, p, S)) \in Nat
         /\ Cardinality(Row(P, K, p, S)) = Cardinality(Columns(K, p, S))
  <1> DEFINE C == {k \in K : <<p, k>> \in S}
             R == {x \in P \X K : x[1] = p /\ x \in S}
             f == [k \in C |-> <<p, k>>]
  <1>1. IsFiniteSet(C) /\ Cardinality(C) \in Nat
    BY FS_Subset, FS_CardinalityType
  <1>2. f \in Bijection(C, R)
    <2>1. \A k \in C : f[k] \in R
      OBVIOUS
    <2>2. \A x \in R : x[2] \in C /\ x = <<p, x[2]>>
      OBVIOUS
    <2>3. f \in [C -> R] /\ \A k, l \in C : f[k] = f[l] => k = l
      BY <2>1
    <2>4. \A x \in R : \E k \in C : f[k] = x
      BY <2>2
    <2> HIDE DEF C, R, f
    <2> QED
      BY <2>3, <2>4 DEF Bijection, Injection, IsInjective, Surjection
  <1>3. ExistsBijection(C, R)
    BY <1>2 DEF ExistsBijection
  <1> QED
    BY <1>1, <1>3, FS_Bijection DEF Row, Columns

\* The size of a table that has changed in one row.
LEMMA OneRow ==
  ASSUME NEW P, IsFiniteSet(P), NEW K, IsFiniteSet(K), NEW p \in P,
         NEW S, NEW T, S \subseteq P \X K, T \subseteq P \X K,
         \A x \in P \X K : x[1] # p => (x \in S <=> x \in T)
  PROVE  LET s == Cardinality(Columns(K, p, S))
             t == Cardinality(Columns(K, p, T))
         IN  /\ Cardinality(S) \in Nat /\ Cardinality(T) \in Nat /\ s \in Nat /\ t \in Nat
             /\ Cardinality(T) = Cardinality(S) - s + t /\ Cardinality(S) >= s
  <1> DEFINE A == {x \in P \X K : x[1] # p /\ x \in S}
             Cs == Columns(K, p, S)
             Ct == Columns(K, p, T)
             Rs == Row(P, K, p, S)
             Rt == Row(P, K, p, T)
  <1>1. IsFiniteSet(P \X K)
    BY FS_Product
  <1>2. IsFiniteSet(A) /\ IsFiniteSet(S) /\ IsFiniteSet(T)
    BY <1>1, FS_Subset
  <1>3. Cardinality(A) \in Nat /\ Cardinality(S) \in Nat /\ Cardinality(T) \in Nat
    BY <1>2, FS_CardinalityType
  <1>4. /\ IsFiniteSet(Rs) /\ Cardinality(Cs) \in Nat /\ Cardinality(Rs) = Cardinality(Cs)
        /\ IsFiniteSet(Rt) /\ Cardinality(Ct) \in Nat /\ Cardinality(Rt) = Cardinality(Ct)
    BY RowSize
  <1>5. S = A \cup Rs /\ T = A \cup Rt
    BY DEF Row
  <1>6. A \cap Rs = {} /\ A \cap Rt = {}
    BY DEF Row
  <1>7. /\ Cardinality(S) = Cardinality(A) + Cardinality(Rs) - Cardinality(A \cap Rs)
        /\ Cardinality(T) = Cardinality(A) + Cardinality(Rt) - Cardinality(A \cap Rt)
    <2> HIDE DEF A, Rs, Rt
    <2> QED
      BY <1>2, <1>4, <1>5, FS_Union
  <1>8. Cardinality(A \cap Rs) = 0 /\ Cardinality(A \cap Rt) = 0
    BY <1>6, FS_EmptySet
  <1> QED
    BY <1>3, <1>4, <1>7, <1>8

-----------------------------------------------------------------------------
(***************************************************************************)
(* The pointers of a process.                                              *)
(***************************************************************************)

\* How often inode i is in the places of a call and of a process.
Holds(t, i) == Is(t.cur, i) + Is(t.ip, i) + Is(t.dp, i) + Is(Put(t, 1), i) + Is(Put(t, 2), i)
Weight(c, t, i) == Is(c, i) + Holds(t, i)

\* How many files are open on inode i.
Files(i) == Cardinality({f \in 1 .. NFILE : ftable[f].ip = i})

\* A process has finitely many places for inodes.
LEMMA PlaceFinite == IsFiniteSet(Place)
  <1> DEFINE a == {}
             b == a \cup {"cwd"}
             c == b \cup {"cur"}
             d == c \cup {"ip"}
             e == d \cup {"dp"}
             f == e \cup {"put1"}
             g == f \cup {"put2"}
  <1>1. IsFiniteSet(a)
    BY FS_EmptySet
  <1>2. IsFiniteSet(b) /\ IsFiniteSet(c)
    BY <1>1, FS_AddElement
  <1>3. IsFiniteSet(d) /\ IsFiniteSet(e)
    BY <1>2, FS_AddElement
  <1>4. IsFiniteSet(f) /\ IsFiniteSet(g)
    BY <1>3, FS_AddElement
  <1>5. g = Place
    BY DEF Place
  <1> QED
    BY <1>4, <1>5

\* The weight is the number of places.
LEMMA WeightIs ==
  ASSUME NEW c, NEW t, NEW i
  PROVE  Cardinality({k \in Place : Pointer(c, t, k) = i}) = Weight(c, t, i)
  <1> DEFINE S(D) == {k \in D : Pointer(c, t, k) = i}
             D0 == {}
             D1 == D0 \cup {"cwd"}
             D2 == D1 \cup {"cur"}
             D3 == D2 \cup {"ip"}
             D4 == D3 \cup {"dp"}
             D5 == D4 \cup {"put1"}
             D6 == D5 \cup {"put2"}
  <1>0. ASSUME NEW D, NEW x, x \notin D, IsFiniteSet(S(D)), Cardinality(S(D)) \in Nat
        PROVE  /\ IsFiniteSet(S(D \cup {x}))
               /\ Cardinality(S(D \cup {x})) = Cardinality(S(D)) + Is(Pointer(c, t, x), i)
    <2>1. CASE Pointer(c, t, x) = i
      <3>1. S(D \cup {x}) = S(D) \cup {x} /\ x \notin S(D)
        BY <1>0, <2>1
      <3>2. /\ IsFiniteSet(S(D) \cup {x})
            /\ Cardinality(S(D) \cup {x}) = Cardinality(S(D)) + 1
        <4> HIDE DEF S
        <4> QED
          BY <1>0, <3>1, FS_AddElement
      <3> QED
        BY <2>1, <3>1, <3>2 DEF Is
    <2>2. CASE Pointer(c, t, x) # i
      <3>1. S(D \cup {x}) = S(D)
        BY <1>0, <2>2
      <3> HIDE DEF S
      <3> QED
        BY <1>0, <2>2, <3>1 DEF Is
    <2> QED
      BY <2>1, <2>2
  <1>1. /\ "cwd" \notin D0 /\ "cur" \notin D1 /\ "ip" \notin D2
        /\ "dp" \notin D3 /\ "put1" \notin D4 /\ "put2" \notin D5
    OBVIOUS
  <1>2. IsFiniteSet(S(D0)) /\ Cardinality(S(D0)) = 0
    <2>1. S(D0) = {}
      OBVIOUS
    <2> QED
      BY <2>1, FS_EmptySet
  <1>3. \A x : Is(x, i) \in Nat
    BY DEF Is
  <1>4. D6 = Place
    BY DEF Place
  <1>5. /\ Pointer(c, t, "cwd") = c /\ Pointer(c, t, "cur") = t.cur /\ Pointer(c, t, "ip") = t.ip
        /\ Pointer(c, t, "dp") = t.dp /\ Pointer(c, t, "put1") = Put(t, 1)
        /\ Pointer(c, t, "put2") = Put(t, 2)
    BY DEF Pointer, Put
  <1> HIDE DEF S
  <1>6. IsFiniteSet(S(D1)) /\ Cardinality(S(D1)) = Is(c, i)
    <2>1. Cardinality(S(D0)) \in Nat
      BY <1>2
    <2>2. IsFiniteSet(S(D1)) /\ Cardinality(S(D1)) = Cardinality(S(D0)) + Is(Pointer(c, t, "cwd"), i)
      BY <1>0, <1>1, <1>2, <2>1
    <2> QED
      BY <1>2, <1>3, <1>5, <2>2
  <1>7. IsFiniteSet(S(D2)) /\ Cardinality(S(D2)) = Is(c, i) + Is(t.cur, i)
    <2>1. Cardinality(S(D1)) \in Nat
      BY <1>6, <1>3
    <2> HIDE DEF D1
    <2> QED
      BY <1>0, <1>1, <1>6, <1>5, <2>1
  <1>8. IsFiniteSet(S(D3)) /\ Cardinality(S(D3)) = Is(c, i) + Is(t.cur, i) + Is(t.ip, i)
    <2>1. Cardinality(S(D2)) \in Nat
      BY <1>7, <1>3
    <2> HIDE DEF D2
    <2> QED
      BY <1>0, <1>1, <1>7, <1>5, <2>1
  <1>9. /\ IsFiniteSet(S(D4))
        /\ Cardinality(S(D4)) = Is(c, i) + Is(t.cur, i) + Is(t.ip, i) + Is(t.dp, i)
    <2>1. Cardinality(S(D3)) \in Nat
      BY <1>8, <1>3
    <2> HIDE DEF D3
    <2> QED
      BY <1>0, <1>1, <1>8, <1>5, <2>1
  <1>10. /\ IsFiniteSet(S(D5))
         /\ Cardinality(S(D5)) = Cardinality(S(D4)) + Is(Put(t, 1), i)
    <2>1. Cardinality(S(D4)) \in Nat
      BY <1>9, <1>3
    <2> HIDE DEF D4
    <2> QED
      BY <1>0, <1>1, <1>9, <1>5, <2>1
  <1>11. Cardinality(S(D6)) = Cardinality(S(D5)) + Is(Put(t, 2), i)
    <2>1. Cardinality(S(D5)) \in Nat
      BY <1>9, <1>10, <1>3
    <2> HIDE DEF D5
    <2> QED
      BY <1>0, <1>1, <1>10, <1>5, <2>1
  <1>12. Cardinality(S(Place)) = Weight(c, t, i)
    <2>1. Weight(c, t, i) =
            Is(c, i) + (Is(t.cur, i) + Is(t.ip, i) + Is(t.dp, i) + Is(Put(t, 1), i) + Is(Put(t, 2), i))
      BY DEF Weight, Holds
    <2>2. S(Place) = S(D6)
      BY <1>4
    <2> HIDE DEF D4, D5, D6
    <2> QED
      BY <1>9, <1>10, <1>11, <1>3, <2>1, <2>2
  <1> QED
    BY <1>12 DEF S

\* The pointers of all processes, and how one process changes them.
Table(c, t, i) == {x \in Proc \X Place : Pointer(c[x[1]], t[x[1]], x[2]) = i}

\* The pointers of process p to inode i.
LEMMA TableColumns ==
  ASSUME NEW c, NEW t, NEW i, NEW p \in Proc
  PROVE  Cardinality(Columns(Place, p, Table(c, t, i))) = Weight(c[p], t[p], i)
  <1>1. Columns(Place, p, Table(c, t, i)) = {k \in Place : Pointer(c[p], t[p], k) = i}
    BY DEF Columns, Table
  <1> QED
    BY <1>1, WeightIs

\* How process p changes the number of pointers to inode i.
LEMMA TableChange ==
  ASSUME NEW c, NEW t, NEW d, NEW u, NEW i, NEW p \in Proc,
         \A q \in Proc \ {p} : d[q] = c[q] /\ u[q] = t[q]
  PROVE  /\ Cardinality(Table(c, t, i)) \in Nat /\ Cardinality(Table(d, u, i)) \in Nat
         /\ Weight(c[p], t[p], i) \in Nat /\ Weight(d[p], u[p], i) \in Nat
         /\ Cardinality(Table(c, t, i)) >= Weight(c[p], t[p], i)
         /\ Cardinality(Table(d, u, i)) =
              Cardinality(Table(c, t, i)) - Weight(c[p], t[p], i) + Weight(d[p], u[p], i)
  <1>1. IsFiniteSet(Proc) /\ IsFiniteSet(Place)
    BY FileSystemAssumption, PlaceFinite
  <1>2. Table(c, t, i) \subseteq Proc \X Place /\ Table(d, u, i) \subseteq Proc \X Place
    BY DEF Table
  <1>3. \A x \in Proc \X Place : x[1] # p => (x \in Table(c, t, i) <=> x \in Table(d, u, i))
    BY DEF Table
  <1>4. /\ Cardinality(Columns(Place, p, Table(c, t, i))) = Weight(c[p], t[p], i)
        /\ Cardinality(Columns(Place, p, Table(d, u, i))) = Weight(d[p], u[p], i)
    BY TableColumns
  <1> QED
    BY <1>1, <1>2, <1>3, <1>4, OneRow

\* The pointers to inode i are those of processes and those of open files.
LEMMA PointersIs ==
  ASSUME NEW i
  PROVE  PointersTo(i) = Cardinality(Table(cwd, th, i)) + Files(i) /\ Files(i) \in Nat
  <1>1. IsFiniteSet(1 .. NFILE)
    BY FileSystemAssumption, FS_Interval
  <1>2. Files(i) \in Nat
    BY <1>1, FS_Subset, FS_CardinalityType DEF Files
  <1> QED
    BY <1>2 DEF PointersTo, Files, Table

\* Pointers in the hands of a process and of a file are among those that are counted.
LEMMA Pointed ==
  ASSUME NEW i, NEW p \in Proc
  PROVE  /\ PointersTo(i) \in Nat /\ Weight(cwd[p], th[p], i) \in Nat
         /\ PointersTo(i) >= Weight(cwd[p], th[p], i)
         /\ \A f \in 1 .. NFILE : ftable[f].ip = i => PointersTo(i) > 0
  <1>1. /\ Cardinality(Table(cwd, th, i)) \in Nat /\ Weight(cwd[p], th[p], i) \in Nat
        /\ Cardinality(Table(cwd, th, i)) >= Weight(cwd[p], th[p], i)
    BY TableChange
  <1>2. PointersTo(i) = Cardinality(Table(cwd, th, i)) + Files(i) /\ Files(i) \in Nat
    BY PointersIs
  <1>3. ASSUME NEW f \in 1 .. NFILE, ftable[f].ip = i PROVE Files(i) > 0
    <2>0. IsFiniteSet(1 .. NFILE)
      BY FileSystemAssumption, FS_Interval
    <2>1. IsFiniteSet({g \in 1 .. NFILE : ftable[g].ip = i})
      BY <2>0, FS_Subset
    <2>2. {g \in 1 .. NFILE : ftable[g].ip = i} # {}
      BY <1>3
    <2> QED
      BY <1>2, <2>1, <2>2, FS_EmptySet DEF Files
  <1> QED
    BY <1>1, <1>2, <1>3

\* Pointers in the hands of two processes are different ones.
LEMMA PointedTwice ==
  ASSUME NEW i \in Inum, NEW p \in Proc, NEW q \in Proc, p # q
  PROVE  PointersTo(i) >= Weight(cwd[p], th[p], i) + Weight(cwd[q], th[q], i)
  <1>1. PICK c, t : c[p] = 0 /\ t[p] = Idle /\ \A r \in Proc \ {p} : c[r] = cwd[r] /\ t[r] = th[r]
    <2> DEFINE c == [r \in Proc |-> IF r = p THEN 0 ELSE cwd[r]]
               t == [r \in Proc |-> IF r = p THEN Idle ELSE th[r]]
    <2>1. c[p] = 0 /\ t[p] = Idle /\ \A r \in Proc \ {p} : c[r] = cwd[r] /\ t[r] = th[r]
      OBVIOUS
    <2> HIDE DEF c, t
    <2> QED
      BY <2>1
  <1>2. /\ Cardinality(Table(cwd, th, i)) \in Nat /\ Cardinality(Table(c, t, i)) \in Nat
        /\ Weight(cwd[p], th[p], i) \in Nat
        /\ Cardinality(Table(c, t, i)) =
             Cardinality(Table(cwd, th, i)) - Weight(cwd[p], th[p], i) + Weight(c[p], t[p], i)
    <2>1. \A r \in Proc \ {p} : c[r] = cwd[r] /\ t[r] = th[r]
      BY <1>1
    <2>2. Cardinality(Table(c, t, i)) =
            Cardinality(Table(cwd, th, i)) - Weight(cwd[p], th[p], i) + Weight(c[p], t[p], i)
      BY <2>1, TableChange
    <2>3. /\ Cardinality(Table(cwd, th, i)) \in Nat /\ Cardinality(Table(c, t, i)) \in Nat
          /\ Weight(cwd[p], th[p], i) \in Nat
      BY TableChange
    <2> QED
      BY <2>2, <2>3
  <1>3. Cardinality(Table(c, t, i)) >= Weight(c[q], t[q], i) /\ Weight(c[q], t[q], i) \in Nat
    BY TableChange
  <1>4. Weight(c[p], t[p], i) = 0
    <2>1. Idle.cur = 0 /\ Idle.ip = 0 /\ Idle.dp = 0 /\ Put(Idle, 1) = 0 /\ Put(Idle, 2) = 0
      BY DEF Idle, Put
    <2>2. i # 0
      BY FileSystemAssumption DEF Inum
    <2> QED
      BY <1>1, <2>1, <2>2 DEF Weight, Holds, Is
  <1>5. PointersTo(i) = Cardinality(Table(cwd, th, i)) + Files(i) /\ Files(i) \in Nat
    BY PointersIs
  <1> QED
    BY <1>1, <1>2, <1>3, <1>4, <1>5

\* How a step of one process changes the number of pointers.
LEMMA PointersChange ==
  ASSUME NEW i, NEW p \in Proc, \A q \in Proc \ {p} : cwd'[q] = cwd[q] /\ th'[q] = th[q]
  PROVE  /\ PointersTo(i)' = PointersTo(i) + Weight(cwd'[p], th'[p], i) + Files(i)'
                             - Weight(cwd[p], th[p], i) - Files(i)
         /\ Weight(cwd'[p], th'[p], i) \in Nat /\ Weight(cwd[p], th[p], i) \in Nat
         /\ Files(i) \in Nat /\ Files(i)' \in Nat /\ PointersTo(i) \in Nat
  <1>1. Cardinality(Table(cwd', th', i)) =
          Cardinality(Table(cwd, th, i)) - Weight(cwd[p], th[p], i) + Weight(cwd'[p], th'[p], i)
    BY TableChange
  <1>2. /\ Cardinality(Table(cwd, th, i)) \in Nat /\ Cardinality(Table(cwd', th', i)) \in Nat
        /\ Weight(cwd[p], th[p], i) \in Nat /\ Weight(cwd'[p], th'[p], i) \in Nat
    BY TableChange
  <1>3. PointersTo(i) = Cardinality(Table(cwd, th, i)) + Files(i) /\ Files(i) \in Nat
    BY PointersIs
  <1>4. PointersTo(i)' = Cardinality(Table(cwd', th', i)) + Files(i)'
    BY DEF PointersTo, Table, Files
  <1>5. Files(i)' \in Nat
    <2>1. IsFiniteSet(1 .. NFILE)
      BY FileSystemAssumption, FS_Interval
    <2> QED
      BY <2>1, FS_Subset, FS_CardinalityType DEF Files
  <1> QED
    BY <1>1, <1>2, <1>3, <1>4, <1>5

-----------------------------------------------------------------------------
(***************************************************************************)
(* What the steps have in common.                                          *)
(***************************************************************************)

\* The types of the variables of a call.
LEMMA Fields ==
  ASSUME NEW t \in Thread
  PROVE  /\ t.pc \in Pcs /\ t.op \in PathOps \cup {"none", "exit"}
         /\ t.rest \in Seq(Name) /\ t.new \in Seq(Path) /\ t.name \in Name
         /\ t.cur \in 0 .. NINODES /\ t.ip \in 0 .. NINODES /\ t.dp \in 0 .. NINODES
         /\ t.puts \in Seq(Inum) /\ t.freeing \in 0 .. 2
  BY DEF Thread

\* The first inode that has to be put, and the rest.
LEMMA First ==
  ASSUME NEW S, NEW s \in Seq(S), s # <<>>
  PROVE  /\ Len(s) \in Nat /\ Len(s) >= 1 /\ s[1] \in S /\ Head(s) = s[1]
         /\ Tail(s) \in Seq(S) /\ Len(Tail(s)) = Len(s) - 1
         /\ \A n \in 1 .. Len(s) - 1 : Tail(s)[n] = s[n + 1]
  <1>1. Len(s) \in Nat /\ Len(s) # 0 /\ s \in [1 .. Len(s) -> S]
    BY EmptySeq
  <1> QED
    BY <1>1, HeadTailProperties

\* The inodes that a call has at each place.
LEMMA CallHas ==
  ASSUME NEW t \in Thread, CallOK(t)
  PROVE  /\ t.pc = "walk" => t.cur \in Inum
         /\ t.pc \in Creating \cup {"unlink", "link2", "create_new", "unlink_ip"} => t.dp \in Inum
         /\ t.pc \in {"open", "link", "chdir", "create_old", "link_bad", "link2", "create_new",
                      "unlink_ip", "created", "unlink_count"} => t.ip \in Inum
         /\ t.puts # <<>> => t.puts[1] \in Inum /\ Len(t.puts) \in Nat /\ Len(t.puts) >= 1
         /\ t.freeing # 0 => t.puts # <<>>
  <1>1. /\ t.cur \in 0 .. NINODES /\ t.ip \in 0 .. NINODES /\ t.dp \in 0 .. NINODES
        /\ t.puts \in Seq(Inum)
    BY Fields
  <1>2. \A x \in 0 .. NINODES : x # 0 => x \in Inum
    BY FileSystemAssumption DEF Inum
  <1>3. /\ t.pc = "walk" => t.cur \in Inum
        /\ t.pc \in Creating \cup {"unlink", "link2", "create_new", "unlink_ip"} => t.dp \in Inum
    BY <1>1, <1>2 DEF CallOK
  <1>4. t.pc \in {"open", "link", "chdir", "create_old", "link_bad", "link2", "create_new",
                  "unlink_ip", "created", "unlink_count"} => t.ip \in Inum
    BY <1>1, <1>2 DEF CallOK
  <1>5. t.puts # <<>> => t.puts[1] \in Inum /\ Len(t.puts) \in Nat /\ Len(t.puts) >= 1
    BY <1>1, First
  <1>6. Len(t.puts) <= 2 /\ (t.freeing # 0 => t.puts # <<>>)
    BY DEF CallOK
  <1> QED
    BY <1>3, <1>4, <1>5, <1>6, Zenon

\* Only process p moves.
Alone(p) ==
  \A q \in Proc \ {p} : th'[q] = th[q] /\ cwd'[q] = cwd[q] /\ ofile'[q] = ofile[q]

\* Reference counts move with the pointers of p and of the open files.
Counted(p) ==
  \A i \in Inum :
    icache'[i].ref = icache[i].ref + Weight(cwd'[p], th'[p], i) + Files(i)'
                     - Weight(cwd[p], th[p], i) - Files(i)

\* What others have in their hands and have locked stays as it is.
Polite(p) ==
  \A i \in Inum, q \in Proc \ {p} :
    icache[i].busy = q /\ Holds(th[q], i) > 0 =>
      /\ icache'[i].busy = icache[i].busy
      /\ icache'[i].valid = icache[i].valid /\ icache'[i].nlink = icache[i].nlink
      /\ Coming(th', i) \/ (disk'[i].type = disk[i].type /\ ~Coming(th, i))

\* A step of p leaves the others their locks.
LEMMA LocksKept ==
  ASSUME Body, NEW p \in Proc, Alone(p), Polite(p), NEW q \in Proc \ {p}
  PROVE  LocksOK(q)'
  <1> DEFINE t == th[q]
  <1>1. th'[q] = t /\ LocksOK(q) /\ CallOK(t) /\ t \in Thread /\ q # NoProc
    BY FileSystemAssumption DEF Alone, Body, ProcessOK, Typed, RestTyped
  <1>2. \A i \in Inum : icache[i].busy = q /\ Holds(t, i) > 0 =>
          /\ icache'[i].busy = q
          /\ icache'[i].valid = icache[i].valid /\ icache'[i].nlink = icache[i].nlink
          /\ Coming(th', i) \/ (disk'[i].type = disk[i].type /\ ~Coming(th, i))
    BY <1>1 DEF Polite
  <1>3. /\ t.pc \in {"create_new", "unlink_ip"} => icache[t.dp].busy = q /\ icache[t.dp].valid
        /\ t.pc \in {"created", "unlink_count"} => icache[t.ip].busy = q /\ icache[t.ip].valid
        /\ t.freeing # 0 =>
             icache[t.puts[1]].busy = q /\ icache[t.puts[1]].valid /\ icache[t.puts[1]].nlink = 0
        /\ t.freeing = 2 => disk[t.puts[1]].type = "free" \/ Coming(th, t.puts[1])
    BY <1>1 DEF LocksOK
  <1>4. /\ t.pc \in {"create_new", "unlink_ip"} => t.dp \in Inum
        /\ t.pc \in {"created", "unlink_count"} => t.ip \in Inum
        /\ t.freeing # 0 => t.puts[1] \in Inum
    BY <1>1, CallHas
  <1>9. /\ t.pc \in {"create_new", "unlink_ip"} => Holds(t, t.dp) > 0
        /\ t.pc \in {"created", "unlink_count"} => Holds(t, t.ip) > 0
        /\ t.freeing # 0 => Holds(t, t.puts[1]) > 0
    <2>1. \A x, i : Is(x, i) \in Nat /\ Is(i, i) = 1
      BY DEF Is
    <2>2. t.freeing # 0 => Put(t, 1) = t.puts[1]
      BY <1>1, CallHas DEF Put
    <2>3. Holds(t, t.dp) > 0 /\ Holds(t, t.ip) > 0
      BY <2>1 DEF Holds
    <2>4. t.freeing # 0 => Holds(t, t.puts[1]) > 0
      BY <2>1, <2>2 DEF Holds
    <2> QED
      BY <2>3, <2>4
  <1> HIDE DEF t
  <1>5. t.pc \in {"create_new", "unlink_ip"} => icache'[t.dp].busy = q /\ icache'[t.dp].valid
    BY <1>2, <1>3, <1>4, <1>9
  <1>6. t.pc \in {"created", "unlink_count"} => icache'[t.ip].busy = q /\ icache'[t.ip].valid
    BY <1>2, <1>3, <1>4, <1>9
  <1>7. t.freeing # 0 =>
          icache'[t.puts[1]].busy = q /\ icache'[t.puts[1]].valid /\ icache'[t.puts[1]].nlink = 0
    BY <1>2, <1>3, <1>4, <1>9
  <1>8. t.freeing = 2 => disk'[t.puts[1]].type = "free" \/ Coming(th', t.puts[1])
    BY <1>2, <1>3, <1>4, <1>9
  <1> QED
    BY <1>1, <1>5, <1>6, <1>7, <1>8 DEF LocksOK

\* What has to be shown of a step of process p.
LEMMA BodyStep ==
  ASSUME Body, NEW p \in Proc, Typed', Alone(p), Counted(p), Polite(p),
         ProcessOK(p)', LocksOK(p)', FilesOK', \A i \in Inum : CacheOK(i)' /\ ReclaimOK(i)'
  PROVE  Body'
  <1>1. ASSUME NEW q \in Proc PROVE ProcessOK(q)'
    BY DEF Body, Alone, ProcessOK
  <1>2. ASSUME NEW i \in Inum PROVE icache'[i].ref = PointersTo(i)'
    <2>1. \A q \in Proc \ {p} : cwd'[q] = cwd[q] /\ th'[q] = th[q]
      BY DEF Alone
    <2>2. /\ PointersTo(i)' = PointersTo(i) + Weight(cwd'[p], th'[p], i) + Files(i)'
                              - Weight(cwd[p], th[p], i) - Files(i)
      BY <2>1, PointersChange
    <2> QED
      BY <2>2 DEF Body, Counted
  <1>3. ASSUME NEW q \in Proc PROVE LocksOK(q)'
    <2>1. CASE q = p
      BY <2>1
    <2>2. CASE q # p
      BY <2>2, LocksKept
    <2> QED
      BY <2>1, <2>2
  <1> QED
    BY <1>1, <1>2, <1>3 DEF Body

\* What a step may do to the entry of an inode: leave it, bring it up to date, or let
\* it go while the inode has links.
Same(i) ==
  /\ disk'[i].type = disk[i].type /\ disk'[i].nlink = disk[i].nlink
  /\ icache'[i].valid => /\ icache[i].valid /\ icache'[i].ref > 0
                         /\ icache'[i].type = icache[i].type /\ icache'[i].nlink = icache[i].nlink
  /\ icache[i].valid => icache'[i].valid \/ disk[i].nlink # 0
  /\ icache'[i].ref = 0 => icache'[i].busy = NoProc
Loaded(i) ==
  /\ icache'[i].valid /\ icache'[i].ref > 0 /\ icache'[i].nlink = disk'[i].nlink
  /\ icache'[i].type = disk'[i].type /\ disk'[i].type # "free"

\* Such a step keeps the entry in order.
LEMMA EntryKept ==
  ASSUME Body, NEW i \in Inum, Same(i) \/ Loaded(i),
         i \in leaked \cup lost => icache'[i].valid \/ i \in leaked' \cup lost',
         Freed(th, i) => Freed(th', i), Coming(th, i) => Coming(th', i) 
  PROVE  CacheOK(i)' /\ ReclaimOK(i)'
  <1>1. CacheOK(i) /\ ReclaimOK(i)
    BY DEF Body
  <1>2. CASE Loaded(i)
    BY <1>2 DEF CacheOK, ReclaimOK, Loaded
  <1>3. CASE Same(i)
    <2>1. CacheOK(i)'
      BY <1>1, <1>3 DEF CacheOK, Same
    <2>2. ReclaimOK(i)'
      BY <1>1, <1>3 DEF ReclaimOK, Same
    <2> QED
      BY <2>1, <2>2
  <1> QED
    BY <1>2, <1>3

\* iget, or none if x is 0.
Got(J, x) == IF x = 0 THEN J ELSE Iget(J, x)

\* What iget does to the entries.
LEMMA GotIs ==
  ASSUME NEW J \in [Inum -> CacheEntry], NEW x \in 0 .. NINODES
  PROVE  /\ Got(J, x) \in [Inum -> CacheEntry]
         /\ \A j \in Inum : /\ Got(J, x)[j].ref = J[j].ref + Is(x, j)
                            /\ J[j].ref # 0 => /\ Got(J, x)[j].busy = J[j].busy
                                               /\ Got(J, x)[j].valid = J[j].valid
                                               /\ Got(J, x)[j].type = J[j].type
                                               /\ Got(J, x)[j].nlink = J[j].nlink
                            /\ x = j /\ J[j].ref = 0 => ~Got(J, x)[j].valid /\ Got(J, x)[j].busy = NoProc
                            /\ x # j => Got(J, x)[j] = J[j]
  <1>1. CASE x = 0
    <2>1. \A j \in Inum : j # x
      BY <1>1, FileSystemAssumption DEF Inum
    <2>2. Got(J, x) = J
      BY <1>1 DEF Got
    <2> QED
      BY <2>1, <2>2 DEF Is, CacheEntry
  <1>2. CASE x # 0
    <2>1. x \in Inum
      BY <1>2, FileSystemAssumption DEF Inum
    <2> DEFINE e == Gained(J[x])
    <2>2. Got(J, x) = [J EXCEPT ![x] = e]
      BY <1>2, <2>1 DEF Got, Iget
    <2>3. /\ e \in CacheEntry /\ e.ref = J[x].ref + 1
          /\ J[x].ref # 0 => e.busy = J[x].busy /\ e.valid = J[x].valid /\ e.type = J[x].type /\ e.nlink = J[x].nlink
          /\ J[x].ref = 0 => ~e.valid /\ e.busy = NoProc
      <3>1. J[x] \in CacheEntry
        BY <2>1
      <3>2. Empty \in CacheEntry /\ Empty.busy = NoProc /\ ~Empty.valid
        BY DEF Empty, CacheEntry, InodeType
      <3>3. CASE J[x].ref = 0
        <4>1. e = [Empty EXCEPT !.ref = 1]
          BY <3>3 DEF Gained
        <4> QED
          BY <3>2, <3>3, <4>1 DEF CacheEntry
      <3>4. CASE J[x].ref # 0
        <4>1. e = [J[x] EXCEPT !.ref = J[x].ref + 1]
          BY <3>4 DEF Gained
        <4> QED
          BY <3>1, <3>4, <4>1 DEF CacheEntry
      <3> QED
        BY <3>3, <3>4
    <2> HIDE DEF e
    <2>4. \A j \in Inum : Got(J, x)[j] = IF j = x THEN e ELSE J[j]
      BY <2>1, <2>2
    <2>5. Got(J, x) \in [Inum -> CacheEntry]
      BY <2>1, <2>2, <2>3
    <2>6. \A j \in Inum : J[j].ref \in Nat
      BY DEF CacheEntry
    <2> QED
      BY <2>3, <2>4, <2>5, <2>6 DEF Is
  <1> QED
    BY <1>1, <1>2

\* iget keeps the entries that are in use.
LEMMA GotKeeps ==
  ASSUME NEW J \in [Inum -> CacheEntry], NEW x \in 0 .. NINODES, NEW j \in Inum, J[j].ref # 0
  PROVE  /\ Got(J, x)[j].busy = J[j].busy /\ Got(J, x)[j].valid = J[j].valid
         /\ Got(J, x)[j].type = J[j].type /\ Got(J, x)[j].nlink = J[j].nlink
  BY GotIs

\* Whoever has freed an inode has it locked.
LEMMA FreedLocked ==
  ASSUME Body, NEW i \in Inum, Freed(th, i)
  PROVE  \E q \in Proc : /\ th[q].freeing = 2 /\ th[q].puts[1] = i
                         /\ icache[i].busy = q /\ icache[i].valid /\ icache[i].nlink = 0
  BY DEF Body, LocksOK, Freed

\* What a step that does not put an inode may do to an entry before the iget: leave
\* it, write to it under a lock, or allocate its inode.
Kept(J, i) ==
  /\ J[i] = icache[i] /\ disk'[i].type = disk[i].type /\ disk'[i].nlink = disk[i].nlink
  /\ Coming(th, i) => Coming(th', i)
Written(J, i, p) ==
  /\ icache[i].busy \in {p, NoProc} /\ icache[i].ref > 0
  /\ J[i].ref = icache[i].ref /\ J[i].busy \in {p, NoProc} /\ J[i].valid
  /\ J[i].nlink = disk'[i].nlink /\ J[i].type = disk'[i].type /\ disk'[i].type # "free"
Allocated(J, i) ==
  J[i] = icache[i] /\ disk[i].type = "free" /\ disk'[i].nlink = 0 /\ Coming(th', i)

\* The entry of inode i after a step that does not put an inode.
LEMMA GetEntry ==
  ASSUME Body, NEW p \in Proc, NEW J \in [Inum -> CacheEntry], NEW x \in 0 .. NINODES,
         icache' = Got(J, x), NEW i \in Inum, Kept(J, i) \/ Written(J, i, p) \/ Allocated(J, i),
         Alone(p), th[p].freeing = 0,
         \A j \in Inum : j \in leaked \cup lost => icache'[j].valid \/ j \in leaked' \cup lost'
  PROVE  /\ CacheOK(i)' /\ ReclaimOK(i)' /\ icache'[i].ref = icache[i].ref + Is(x, i)
         /\ icache[i].busy \notin {p, NoProc} =>
              /\ icache'[i].busy = icache[i].busy
              /\ icache'[i].valid = icache[i].valid /\ icache'[i].nlink = icache[i].nlink
              /\ Coming(th', i) \/ (disk'[i].type = disk[i].type /\ ~Coming(th, i))
  <1>1. /\ icache'[i].ref = J[i].ref + Is(x, i)
        /\ J[i].ref # 0 => /\ icache'[i].busy = J[i].busy /\ icache'[i].valid = J[i].valid
                           /\ icache'[i].type = J[i].type /\ icache'[i].nlink = J[i].nlink
        /\ x = i /\ J[i].ref = 0 => ~icache'[i].valid
        /\ x # i => icache'[i] = J[i]
    BY GotIs
  <1>2. /\ CacheOK(i) /\ ReclaimOK(i) /\ icache[i].ref = PointersTo(i) /\ icache[i] \in CacheEntry
        /\ J[i] \in CacheEntry /\ Is(x, i) \in Nat
    BY DEF Body, Typed, Is
  <1>3. J[i].ref = icache[i].ref /\ icache[i].ref \in Nat
    BY <1>2 DEF Kept, Written, Allocated, CacheEntry
  <1>4. icache'[i].ref = icache[i].ref + Is(x, i)
    BY <1>1, <1>3
  <1>5. Freed(th, i) => Freed(th', i)
    <2> SUFFICES ASSUME NEW q \in Proc, th[q].freeing = 2, th[q].puts[1] = i PROVE Freed(th', i)
      BY DEF Freed
    <2>1. q # p
      OBVIOUS
    <2> QED
      BY <2>1 DEF Alone, Freed
  <1>6. CASE Kept(J, i)
    <2>1. Same(i)
      BY <1>1, <1>2, <1>3, <1>4, <1>6 DEF Same, Kept, CacheOK, Is, CacheEntry
    <2>2. Coming(th, i) => Coming(th', i)
      BY <1>6 DEF Kept
    <2>3. CacheOK(i)' /\ ReclaimOK(i)'
      BY <1>5, <2>1, <2>2, EntryKept
    <2>4. icache[i].busy \notin {p, NoProc} => icache[i].ref # 0
      BY <1>2 DEF CacheOK
    <2>5. icache[i].busy \notin {p, NoProc} =>
            /\ icache'[i].busy = icache[i].busy
            /\ icache'[i].valid = icache[i].valid /\ icache'[i].nlink = icache[i].nlink
      BY <1>1, <1>6, <2>4 DEF Kept
    <2>6. Coming(th', i) \/ (disk'[i].type = disk[i].type /\ ~Coming(th, i))
      BY <1>6 DEF Kept
    <2> QED
      BY <1>4, <2>3, <2>5, <2>6
  <1>7. CASE Written(J, i, p)
    <2>0. icache'[i].ref > 0 /\ J[i].ref # 0
      BY <1>2, <1>3, <1>4, <1>7 DEF Written
    <2>1. Loaded(i)
      BY <1>1, <1>7, <2>0 DEF Loaded, Written
    <2>2. CacheOK(i)' /\ ReclaimOK(i)'
      BY <2>1 DEF Loaded, CacheOK, ReclaimOK
    <2> QED
      BY <1>4, <1>7, <2>2 DEF Written
  <1>8. CASE Allocated(J, i)
    <2>1. icache[i].valid => Freed(th', i) /\ icache[i].nlink = 0
      BY <1>2, <1>5, <1>8, FreedLocked DEF CacheOK, Allocated
    <2>a. icache[i].valid => icache[i].ref # 0 /\ icache'[i].ref > 0
      BY <1>2, <1>3, <1>4 DEF CacheOK
    <2>b. icache'[i].valid => icache[i].valid
      BY <1>1, <1>3, <1>8 DEF Allocated
    <2>2. icache'[i].valid => icache[i].valid /\ icache'[i].nlink = icache[i].nlink /\ icache'[i].ref > 0
      BY <1>1, <1>8, <2>a, <2>b DEF Allocated
    <2>3. icache'[i].ref = 0 => icache'[i].busy = NoProc
      BY <1>1, <1>2, <1>3, <1>4, <1>8 DEF Allocated, CacheOK, Is
    <2>4. CacheOK(i)' /\ ReclaimOK(i)'
      BY <1>8, <2>1, <2>2, <2>3 DEF Allocated, CacheOK, ReclaimOK
    <2>5. icache[i].busy \notin {p, NoProc} => icache[i].ref # 0
      BY <1>2 DEF CacheOK
    <2>6. icache[i].busy \notin {p, NoProc} =>
            /\ icache'[i].busy = icache[i].busy
            /\ icache'[i].valid = icache[i].valid /\ icache'[i].nlink = icache[i].nlink
      BY <1>1, <1>8, <2>5 DEF Allocated
    <2> QED
      BY <1>4, <1>8, <2>4, <2>6 DEF Allocated
  <1> QED
    BY <1>6, <1>7, <1>8

\* References and pointers that grow alike.
LEMMA Balance ==
  ASSUME NEW r \in Nat, NEW s, NEW v \in Nat, NEW g \in Nat, NEW w \in Nat, NEW f \in Nat, NEW d \in Nat,
         v + g = w + f + d, s = r + d
  PROVE  s = r + v + g - w - f
  OBVIOUS

Entries(p, J) == \A i \in Inum : Kept(J, i) \/ Written(J, i, p) \/ Allocated(J, i)

\* Process p and the open files have one more pointer, to inode x.
Weighs(p, x) ==
  \A i \in Inum : Weight(cwd'[p], th'[p], i) + Files(i)' = Weight(cwd[p], th[p], i) + Files(i) + Is(x, i)

\* A step of p that does not put an inode.
LEMMA GetStep ==
  ASSUME Body, NEW p \in Proc, NEW J \in [Inum -> CacheEntry], NEW x \in 0 .. NINODES,
         icache' = Got(J, x), Entries(p, J), Alone(p), th[p].freeing = 0, Weighs(p, x),
         \A j \in Inum : j \in leaked \cup lost => icache'[j].valid \/ j \in leaked' \cup lost',
         RestTyped', ProcessOK(p)', LocksOK(p)', FilesOK'
  PROVE  Body'
  <1>1. \A i \in Inum :
          /\ CacheOK(i)' /\ ReclaimOK(i)' /\ icache'[i].ref = icache[i].ref + Is(x, i)
          /\ icache[i].busy \notin {p, NoProc} =>
               /\ icache'[i].busy = icache[i].busy
               /\ icache'[i].valid = icache[i].valid /\ icache'[i].nlink = icache[i].nlink
               /\ Coming(th', i) \/ (disk'[i].type = disk[i].type /\ ~Coming(th, i))
    BY GetEntry DEF Entries
  <1>2. Typed'
    BY GotIs DEF Typed
  <1>3. Polite(p)
    BY <1>1, FileSystemAssumption DEF Polite
  <1>4. Counted(p)
    <2> SUFFICES ASSUME NEW i \in Inum
                 PROVE  icache'[i].ref = icache[i].ref + Weight(cwd'[p], th'[p], i) + Files(i)'
                                         - Weight(cwd[p], th[p], i) - Files(i)
      BY DEF Counted
    <2>1. \A q \in Proc \ {p} : cwd'[q] = cwd[q] /\ th'[q] = th[q]
      BY DEF Alone
    <2>2. /\ Weight(cwd'[p], th'[p], i) \in Nat /\ Weight(cwd[p], th[p], i) \in Nat
          /\ Files(i) \in Nat /\ Files(i)' \in Nat
      BY <2>1, PointersChange
    <2>3. icache[i].ref \in Nat /\ Is(x, i) \in Nat
      BY DEF Body, Typed, CacheEntry, Is
    <2>4. icache'[i].ref = icache[i].ref + Is(x, i)
      BY <1>1
    <2>5. Weight(cwd'[p], th'[p], i) + Files(i)' = Weight(cwd[p], th[p], i) + Files(i) + Is(x, i)
      BY DEF Weighs
    <2> QED
      BY <2>2, <2>3, <2>4, <2>5, Balance
  <1> QED
    BY <1>1, <1>2, <1>3, <1>4, BodyStep


-----------------------------------------------------------------------------
(***************************************************************************)
(* Steps inside a call.                                                    *)
(***************************************************************************)

\* The entry of inode i after ilock, while b has it locked.
Fresh(i, b) ==
  [ref |-> icache[i].ref, busy |-> b, valid |-> TRUE, type |-> disk[i].type, nlink |-> disk[i].nlink]

\* ilock without a panic brings the entry up to date.
LEMMA Visited ==
  ASSUME Body, NEW i \in Inum, Lockable(i), icache[i].ref > 0, NEW b \in Proc \cup {NoProc},
         icache[i].valid \/ disk[i].type # "free"
  PROVE  /\ Ilock(i, b) = [icache EXCEPT ![i] = Fresh(i, b)]
         /\ Fresh(i, b) \in CacheEntry /\ disk[i].type # "free"
  <1>1. /\ icache \in [Inum -> CacheEntry] /\ icache[i] \in CacheEntry /\ CacheOK(i)
        /\ disk[i].type \in InodeType /\ disk[i].nlink \in Int
    BY DEF Body, Typed, RestTyped, DiskType
  <1>2. ~Freed(th, i)
    BY FreedLocked, FileSystemAssumption DEF Lockable
  <1>3. /\ icache[i].valid => icache[i].type = disk[i].type /\ icache[i].nlink = disk[i].nlink
        /\ disk[i].type # "free"
    BY <1>1, <1>2 DEF CacheOK
  <1>4. Fresh(i, b) \in CacheEntry
    BY <1>1 DEF Fresh, CacheEntry
  <1>5. ASSUME icache[i].valid PROVE [icache[i] EXCEPT !.busy = b] = Fresh(i, b)
    <2>1. icache[i].valid = TRUE
      BY <1>1, <1>5 DEF CacheEntry
    <2>2. [icache[i] EXCEPT !.busy = b] =
            [ref |-> icache[i].ref, busy |-> b, valid |-> icache[i].valid,
             type |-> icache[i].type, nlink |-> icache[i].nlink]
      BY <1>1 DEF CacheEntry
    <2> QED
      BY <1>3, <1>5, <2>1, <2>2, Zenon DEF Fresh
  <1>6. CASE icache[i].valid
    BY <1>1, <1>3, <1>4, <1>5, <1>6 DEF Ilock
  <1>7. CASE ~icache[i].valid
    BY <1>1, <1>3, <1>4, <1>7 DEF Ilock, Fresh
  <1> QED
    BY <1>6, <1>7

\* An inode that a call has in its hands is in the cache.
LEMMA InCache ==
  ASSUME Body, NEW p \in Proc, NEW i \in Inum, i \in {th[p].cur, th[p].ip, th[p].dp, cwd[p], Put(th[p], 1)}
  PROVE  icache[i].ref > 0
  <1>1. \A x, j : Is(x, j) \in Nat /\ Is(j, j) = 1
    BY DEF Is
  <1>2. Weight(cwd[p], th[p], i) > 0
    BY <1>1 DEF Weight, Holds
  <1> QED
    BY <1>2, Pointed DEF Body

\* An inode with an open file is in the cache.
LEMMA FileInCache ==
  ASSUME Body, NEW f \in 1 .. NFILE, NEW i \in Inum, ftable[f].ip = i
  PROVE  icache[i].ref > 0
  BY FileSystemAssumption, Pointed DEF Body

\* A call that is not about to link a new inode does not change which inodes are coming.
LEMMA ComingKept ==
  ASSUME NEW p \in Proc, Alone(p), th[p].pc # "create_new", NEW i
  PROVE  Coming(th, i) => Coming(th', i)
  BY DEF Coming, Alone

\* A call at these places keeps no locks.
LEMMA NoLocks ==
  ASSUME NEW p \in Proc, th'[p].freeing = 0,
         th'[p].pc \notin {"create_new", "unlink_ip", "created", "unlink_count"}
  PROVE  LocksOK(p)'
  BY DEF LocksOK

\* Process p goes on with t, which has one more pointer, to x.
Takes(p, t, x) ==
  /\ t \in Thread /\ CallOK(t) /\ (Gone(t) <=> Gone(th[p]))
  /\ th' = [th EXCEPT ![p] = t]
  /\ \A i \in Inum : Holds(t, i) = Holds(th[p], i) + Is(x, i)

\* A call has a number of pointers to an inode.
LEMMA HoldsNat ==
  ASSUME NEW t, NEW i
  PROVE  Holds(t, i) \in Nat
  <1>1. \A x : Is(x, i) \in Nat
    BY DEF Is
  <1> QED
    BY <1>1 DEF Holds

\* A step of p that does not put an inode and does not touch the files.
LEMMA CallStep ==
  ASSUME Body, NEW p \in Proc, NEW J \in [Inum -> CacheEntry], NEW x \in 0 .. NINODES, NEW t,
         icache' = Got(J, x), Entries(p, J), th[p].freeing = 0, Takes(p, t, x), UNCHANGED files,
         \A j \in Inum : j \in leaked \cup lost => icache'[j].valid \/ j \in leaked' \cup lost',
         disk' \in DiskType, committed'.disk \in DiskType, LocksOK(p)'
  PROVE  Body'
  <1>1. /\ ftable \in [1 .. NFILE -> [ref : Nat, ip : 0 .. NINODES]]
        /\ ofile \in [Proc -> [1 .. NOFILE -> 0 .. NFILE]]
        /\ cwd \in [Proc -> 0 .. NINODES]
        /\ th \in [Proc -> Thread] /\ ProcessOK(p) /\ FilesOK
    BY DEF Body, Typed, RestTyped
  <1>2. ftable' = ftable /\ ofile' = ofile /\ cwd' = cwd
    BY DEF files
  <1>3. th' \in [Proc -> Thread] /\ th'[p] = t /\ \A q \in Proc \ {p} : th'[q] = th[q]
    BY <1>1 DEF Takes
  <1>4. Alone(p)
    BY <1>2, <1>3 DEF Alone
  <1>5. ProcessOK(p)'
    BY <1>1, <1>2, <1>3 DEF ProcessOK, Takes
  <1>6. FilesOK'
    BY <1>1, <1>2 DEF FilesOK
  <1>7. RestTyped'
    BY <1>1, <1>2, <1>3 DEF RestTyped
  <1>8. Weighs(p, x)
    <2> SUFFICES ASSUME NEW i \in Inum
                 PROVE  Weight(cwd'[p], th'[p], i) + Files(i)' = Weight(cwd[p], th[p], i) + Files(i) + Is(x, i)
      BY DEF Weighs
    <2>1. Files(i)' = Files(i) /\ Files(i) \in Nat
      BY <1>2, PointersIs DEF Files
    <2>2. Holds(t, i) = Holds(th[p], i) + Is(x, i)
      BY DEF Takes
    <2>3. Holds(t, i) \in Nat /\ Holds(th[p], i) \in Nat /\ Is(cwd[p], i) \in Nat /\ Is(x, i) \in Nat
      BY HoldsNat DEF Is
    <2>4. Weight(cwd'[p], th'[p], i) = Is(cwd[p], i) + Holds(t, i)
      BY <1>2, <1>3 DEF Weight
    <2>5. Weight(cwd[p], th[p], i) = Is(cwd[p], i) + Holds(th[p], i)
      BY DEF Weight
    <2> QED
      BY <2>1, <2>2, <2>3, <2>4, <2>5
  <1> QED
    BY <1>4, <1>5, <1>6, <1>7, <1>8, GetStep

\* The pointers of calls with at most two inodes to put.
LEMMA HoldsIs ==
  ASSUME NEW t, NEW i \in Inum
  PROVE  /\ t.puts = <<>> => Holds(t, i) = Is(t.cur, i) + Is(t.ip, i) + Is(t.dp, i)
         /\ \A a : t.puts = <<a>> => Holds(t, i) = Is(t.cur, i) + Is(t.ip, i) + Is(t.dp, i) + Is(a, i)
         /\ \A a, b : t.puts = <<a, b>> =>
              Holds(t, i) = Is(t.cur, i) + Is(t.ip, i) + Is(t.dp, i) + Is(a, i) + Is(b, i)
  <1>1. \A x : Is(x, i) \in Nat
    BY DEF Is
  <1>2. Is(0, i) = 0
    BY FileSystemAssumption DEF Is, Inum
  <1>3. ASSUME t.puts = <<>> PROVE Put(t, 1) = 0 /\ Put(t, 2) = 0
    BY <1>3 DEF Put
  <1>4. ASSUME NEW a, t.puts = <<a>> PROVE Put(t, 1) = a /\ Put(t, 2) = 0
    BY <1>4 DEF Put
  <1>5. ASSUME NEW a, NEW b, t.puts = <<a, b>> PROVE Put(t, 1) = a /\ Put(t, 2) = b
    BY <1>5 DEF Put
  <1>6. ASSUME t.puts = <<>> PROVE Holds(t, i) = Is(t.cur, i) + Is(t.ip, i) + Is(t.dp, i)
    BY <1>1, <1>2, <1>3, <1>6 DEF Holds
  <1>7. ASSUME NEW a, t.puts = <<a>>
        PROVE  Holds(t, i) = Is(t.cur, i) + Is(t.ip, i) + Is(t.dp, i) + Is(a, i)
    BY <1>1, <1>2, <1>4, <1>7 DEF Holds
  <1>8. ASSUME NEW a, NEW b, t.puts = <<a, b>>
        PROVE  Holds(t, i) = Is(t.cur, i) + Is(t.ip, i) + Is(t.dp, i) + Is(a, i) + Is(b, i)
    BY <1>1, <1>2, <1>5, <1>8 DEF Holds
  <1> QED
    BY <1>6, <1>7, <1>8

\* No inode has the number 0.
LEMMA IsNat ==
  ASSUME NEW i \in Inum
  PROVE  Is(0, i) = 0 /\ \A x : Is(x, i) \in Nat
  BY FileSystemAssumption DEF Is, Inum

\* The thread that Finish leaves.
Finishing(p, s) == [Idle EXCEPT !.pc = "end", !.op = th[p].op, !.puts = s]

\* A process in user mode has no inodes in its hands.
LEMMA IdleThread ==
  /\ Idle \in Thread /\ Idle.pc = "user" /\ Idle.op = "none" /\ Idle.rest = <<>> /\ Idle.new = <<>>
  /\ Idle.cur = 0 /\ Idle.ip = 0 /\ Idle.dp = 0 /\ Idle.puts = <<>> /\ Idle.freeing = 0
  <1>1. Idle.rest \in Seq(Name) /\ Idle.new \in Seq(Path) /\ Idle.puts \in Seq(Inum)
    BY DEF Idle
  <1>2. 0 \in 0 .. NINODES /\ "." \in Name
    BY FileSystemAssumption
  <1> QED
    BY <1>1, <1>2 DEF Idle, Thread, Pcs

\* A call that is about to end has only inodes to put.
LEMMA FinishingIs ==
  ASSUME Body, NEW p \in Proc, NEW s \in Seq(Inum), Len(s) <= 2
  PROVE  LET t == Finishing(p, s) IN
         /\ t \in Thread /\ CallOK(t) /\ t.pc = "end" /\ t.op = th[p].op
         /\ t.cur = 0 /\ t.ip = 0 /\ t.dp = 0 /\ t.puts = s /\ t.freeing = 0
         /\ th[p].pc \notin {"dead", "end"} => (Gone(t) <=> Gone(th[p])) /\ ~Gone(th[p])
  <1> DEFINE t == Finishing(p, s)
  <1>1. th[p] \in Thread /\ CallOK(th[p])
    BY DEF Body, Typed, RestTyped, ProcessOK
  <1>2. th[p].op \in PathOps \cup {"none", "exit"}
    BY <1>1, Fields
  <1>3. t \in Thread /\ t.pc = "end" /\ t.op = th[p].op /\ t.cur = 0 /\ t.ip = 0 /\ t.dp = 0 
        /\ t.puts = s /\ t.freeing = 0
    BY <1>2, IdleThread DEF Finishing, Thread, Pcs
  <1> HIDE DEF t
  <1>4. CallOK(t)
    BY <1>3 DEF CallOK, Creating, PathOps
  <1>5. th[p].pc \notin {"dead", "end"} => (Gone(t) <=> Gone(th[p])) /\ ~Gone(th[p])
    BY <1>1, <1>3 DEF CallOK, Gone
  <1> QED
    BY <1>3, <1>4, <1>5 DEF t

\* What is known of a call that has nothing to put.
LEMMA AtCall ==
  ASSUME Body, NEW p \in Proc, NEW l, At(p, l)
  PROVE  /\ th[p] \in Thread /\ CallOK(th[p]) /\ th[p].pc = l /\ th[p].puts = <<>>
         /\ th[p].freeing = 0 /\ th \in [Proc -> Thread]
  BY DEF Body, Typed, RestTyped, ProcessOK, At, CallOK

\* Such a step is one of p alone.
LEMMA TakesAlone ==
  ASSUME Body, NEW p \in Proc, NEW t, NEW x, Takes(p, t, x), UNCHANGED files
  PROVE  Alone(p) /\ th'[p] = t
  <1>1. th \in [Proc -> Thread]
    BY DEF Body, Typed, RestTyped
  <1>2. ofile' = ofile /\ cwd' = cwd
    BY DEF files
  <1> QED
    BY <1>1, <1>2 DEF Takes, Alone

\* The cache after ilock of i, or as it was if i is 0.
After(i, b) == IF i = 0 THEN icache ELSE Ilock(i, b)

\* Process p may lock i, and ilock does not panic.
Ready(i) == i # 0 => /\ i \in Inum /\ Lockable(i) /\ icache[i].ref > 0
                     /\ icache[i].valid \/ disk[i].type # "free"

\* The entries after an ilock.
LEMMA AfterIs ==
  ASSUME Body, NEW p \in Proc, NEW i, Ready(i), NEW b \in {p, NoProc}
  PROVE  /\ After(i, b) \in [Inum -> CacheEntry]
         /\ \A j \in Inum : After(i, b)[j] = IF j = i THEN Fresh(i, b) ELSE icache[j]
         /\ i # 0 => disk[i].type # "free"
  <1>1. icache \in [Inum -> CacheEntry]
    BY DEF Body, Typed
  <1>2. CASE i = 0
    <2>1. \A j \in Inum : j # 0
      BY FileSystemAssumption DEF Inum
    <2> QED
      BY <1>1, <1>2, <2>1 DEF After
  <1>3. CASE i # 0
    <2>1. i \in Inum /\ Lockable(i) /\ icache[i].ref > 0 /\ (icache[i].valid \/ disk[i].type # "free")
      BY <1>3 DEF Ready
    <2>2. /\ Ilock(i, b) = [icache EXCEPT ![i] = Fresh(i, b)]
          /\ Fresh(i, b) \in CacheEntry /\ disk[i].type # "free"
      BY <2>1, Visited
    <2> QED
      BY <1>1, <1>3, <2>1, <2>2 DEF After
  <1> QED
    BY <1>2, <1>3

\* Types and link counts stay as they are.
SameInodes == \A i \in Inum : disk'[i].type = disk[i].type /\ disk'[i].nlink = disk[i].nlink

\* An ilock brings one entry up to date.
LEMMA AfterEntries ==
  ASSUME Body, NEW p \in Proc, NEW i, Ready(i), NEW b \in {p, NoProc}, Alone(p),
         th[p].pc # "create_new", SameInodes
  PROVE  Entries(p, After(i, b))
  <1> SUFFICES ASSUME NEW j \in Inum
               PROVE  Kept(After(i, b), j) \/ Written(After(i, b), j, p)
    BY DEF Entries
  <1>1. /\ \A k \in Inum : After(i, b)[k] = IF k = i THEN Fresh(i, b) ELSE icache[k]
        /\ i # 0 => disk[i].type # "free"
    BY AfterIs
  <1>2. CASE j # i
    <2>1. After(i, b)[j] = icache[j]
      BY <1>1, <1>2
    <2>2. Coming(th, j) => Coming(th', j)
      BY ComingKept
    <2> QED
      BY <2>1, <2>2 DEF Kept, SameInodes
  <1>3. CASE j = i
    <2>1. i # 0 /\ Lockable(i) /\ icache[i].ref > 0
      BY <1>3, FileSystemAssumption DEF Inum, Ready
    <2>2. After(i, b)[i] = Fresh(i, b) /\ disk[i].type # "free"
      BY <1>1, <1>3, <2>1
    <2> QED
      BY <1>3, <2>1, <2>2 DEF Written, Lockable, Fresh, SameInodes
  <1> QED
    BY <1>2, <1>3

\* A step of p that locks at most one inode, finds another one and changes entries of
\* directories only.
LEMMA EntryStep ==
  ASSUME Body, NEW p \in Proc, NEW i, Ready(i), NEW b \in {p, NoProc}, NEW x \in 0 .. NINODES, NEW t,
         icache' = Got(After(i, b), x), Takes(p, t, x), th[p].freeing = 0, th[p].pc # "create_new",
         disk' \in DiskType, SameInodes, UNCHANGED files, leaked \cup lost \subseteq leaked' \cup lost',
         committed'.disk \in DiskType, LocksOK(p)'
  PROVE  Body'
  <1>1. Alone(p)
    BY TakesAlone
  <1>2. Entries(p, After(i, b)) /\ After(i, b) \in [Inum -> CacheEntry]
    BY <1>1, AfterEntries, AfterIs
  <1> QED
    BY <1>2, CallStep

\* The same if nothing changes on the disk.
LEMMA QuietStep ==
  ASSUME Body, NEW p \in Proc, NEW i, Ready(i), NEW b \in {p, NoProc}, NEW x \in 0 .. NINODES, NEW t,
         icache' = Got(After(i, b), x), Takes(p, t, x), th[p].freeing = 0, th[p].pc # "create_new",
         UNCHANGED <<disk, files, marks>>, committed'.disk \in DiskType, LocksOK(p)'
  PROVE  Body'
  <1>1. disk' \in DiskType /\ SameInodes
    BY DEF Body, Typed, RestTyped, SameInodes
  <1>2. leaked \cup lost \subseteq leaked' \cup lost'
    BY DEF marks
  <1> QED
    BY <1>1, <1>2, EntryStep

\* Without a panic the inode could be locked.
LEMMA CheckedReady ==
  ASSUME NEW i \in Inum, Lockable(i), icache[i].ref > 0, Checked(i) \/ LookedUp(i), panicked' = "none"
  PROVE  Ready(i)
  BY DEF Ready, Checked, LookedUp

\* No iget.
LEMMA GotNone ==
  ASSUME NEW J
  PROVE  Got(J, 0) = J
  BY DEF Got

\* An iget.
LEMMA GotSome ==
  ASSUME NEW J, NEW x \in Inum
  PROVE  Got(J, x) = Iget(J, x) /\ x \in 0 .. NINODES
  BY FileSystemAssumption DEF Got, Inum

\* An ilock.
LEMMA AfterSome ==
  ASSUME NEW x \in Inum, NEW b
  PROVE  After(x, b) = Ilock(x, b) /\ (b = NoProc => After(x, b) = Visit(x))
  BY FileSystemAssumption DEF After, Inum, Visit

\* The call fails: it puts the inode that it has.
LEMMA Fails ==
  ASSUME Body, NEW p \in Proc, NEW i \in Inum, th[p].puts = <<>>, th[p].pc \notin {"dead", "end"},
         Finish(p, <<i>>), \A j \in Inum : Is(th[p].cur, j) + Is(th[p].ip, j) + Is(th[p].dp, j) = Is(i, j)
  PROVE  Takes(p, Finishing(p, <<i>>), 0) /\ Finishing(p, <<i>>).pc = "end" /\ Finishing(p, <<i>>).freeing = 0
  <1> DEFINE t == Finishing(p, <<i>>)
  <1>1. <<i>> \in Seq(Inum) /\ Len(<<i>>) <= 2
    OBVIOUS
  <1>2. /\ t \in Thread /\ CallOK(t) /\ t.pc = "end" /\ t.freeing = 0
        /\ t.cur = 0 /\ t.ip = 0 /\ t.dp = 0 /\ t.puts = <<i>> /\ (Gone(t) <=> Gone(th[p]))
    BY <1>1, FinishingIs
  <1>3. th' = [th EXCEPT ![p] = t]
    BY DEF Finish, Goto, Finishing
  <1> HIDE DEF t
  <1>4. ASSUME NEW j \in Inum PROVE Holds(t, j) = Holds(th[p], j) + Is(0, j)
    <2>1. Holds(t, j) = Is(0, j) + Is(0, j) + Is(0, j) + Is(i, j)
      BY <1>2, HoldsIs
    <2>2. Holds(th[p], j) = Is(th[p].cur, j) + Is(th[p].ip, j) + Is(th[p].dp, j)
      BY HoldsIs
    <2> QED
      BY <2>1, <2>2, IsNat
  <1>5. Takes(p, t, 0)
    BY <1>2, <1>3, <1>4 DEF Takes
  <1> QED
    BY <1>2, <1>5 DEF t

\* namex finds nothing: the call fails, or takes back the link that it has counted.
LEMMA Misses ==
  ASSUME Body, NEW p \in Proc, NEW i \in Inum, th[p].puts = <<>>, th[p].freeing = 0, 
         \/ th[p].pc = "walk" /\ th[p].cur = i
         \/ th[p].pc = "link2" /\ th[p].dp = i,
         Missed(p, <<i>>)
  PROVE  \E t : Takes(p, t, 0) /\ t.pc \in {"end", "link_bad"} /\ t.freeing = 0
  <1> DEFINE o == th[p]
             t == [o EXCEPT !.pc = "link_bad", !.cur = 0, !.dp = 0, !.puts = <<i>>]
  <1>1. o \in Thread /\ CallOK(o)
    BY DEF Body, Typed, RestTyped, ProcessOK
  <1>2. ASSUME NEW j \in Inum
        PROVE  Is(o.cur, j) + Is(o.dp, j) = Is(i, j) /\ (o.op # "link2" => Is(o.ip, j) = 0)
    <2>1. /\ o.pc = "walk" => o.dp = 0
          /\ o.pc = "link2" => o.cur = 0 /\ o.op = "link2"
          /\ o.op # "link2" => o.ip = 0
      BY <1>1 DEF CallOK, Creating, PathOps
    <2> QED
      BY <2>1, IsNat
  <1>3. CASE o.op # "link2"
    <2>1. Finish(p, <<i>>)
      BY <1>3 DEF Missed
    <2>2. \A j \in Inum : Is(o.cur, j) + Is(o.ip, j) + Is(o.dp, j) = Is(i, j)
      BY <1>2, <1>3, IsNat
    <2>3. Takes(p, Finishing(p, <<i>>), 0) /\ Finishing(p, <<i>>).pc = "end" /\ Finishing(p, <<i>>).freeing = 0
      BY <2>1, <2>2, Fails
    <2> QED
      BY <2>3
  <1>4. CASE o.op = "link2"
    <2>1. th' = [th EXCEPT ![p] = t]
      BY <1>4 DEF Missed, Goto
    <2>2. 0 \in 0 .. NINODES /\ <<i>> \in Seq(Inum) /\ Len(<<i>>) = 1
      BY FileSystemAssumption
    <2>3. /\ t \in Thread /\ t.pc = "link_bad" /\ t.op = "link2" /\ t.cur = 0 /\ t.dp = 0 
          /\ t.ip = o.ip /\ t.puts = <<i>> /\ t.freeing = 0 /\ t.new = o.new
      BY <1>1, <1>4, <2>2 DEF Thread, Pcs
    <2> HIDE DEF t
    <2>4. o.ip # 0
      BY <1>1, <1>4 DEF CallOK
    <2>5. CallOK(t)
      BY <2>2, <2>3, <2>4 DEF CallOK, Creating, PathOps
    <2>6. Gone(t) <=> Gone(o)
      BY <1>4, <2>3 DEF Gone
    <2>7. ASSUME NEW j \in Inum PROVE Holds(t, j) = Holds(o, j) + Is(0, j)
      <3>1. Holds(t, j) = Is(0, j) + Is(o.ip, j) + Is(0, j) + Is(i, j)
        BY <2>3, HoldsIs
      <3>2. Holds(o, j) = Is(o.cur, j) + Is(o.ip, j) + Is(o.dp, j)
        BY HoldsIs
      <3> QED
        BY <1>2, <3>1, <3>2, IsNat
    <2>8. Takes(p, t, 0)
      BY <2>1, <2>3, <2>5, <2>6, <2>7 DEF Takes
    <2> QED
      BY <2>3, <2>8
  <1> QED
    BY <1>3, <1>4

-----------------------------------------------------------------------------
(***************************************************************************)
(* Path lookup.                                                            *)
(***************************************************************************)

\* A path starts at the root or at the current directory.
LEMMA StartIs ==
  ASSUME Body, NEW p \in Proc, NEW path, ~Gone(th[p])
  PROVE  Start(p, path) \in Inum /\ (Start(p, path) = ROOTINO \/ Start(p, path) = cwd[p])
  <1>1. cwd[p] \in 0 .. NINODES /\ cwd[p] # 0
    BY DEF Body, Typed, RestTyped, ProcessOK
  <1> QED
    BY <1>1, FileSystemAssumption DEF Start, ROOTINO, Inum

\* A call with a path begins.
LEMMA BeginStep ==
  ASSUME Body, NEW p \in Proc, NEW c \in Calls, begin_op(p, c)
  PROVE  Body'
  <1> DEFINE s == Start(p, c.path)
             t == [Idle EXCEPT !.pc = "walk", !.op = c.op, !.rest = c.path.names, !.new = c.new, !.cur = s]
  <1>1. /\ th[p] \in Thread /\ CallOK(th[p]) /\ th[p].pc = "user" /\ th[p].puts = <<>> /\ th[p].freeing = 0
    BY AtCall DEF begin_op
  <1>2. ~Gone(th[p])
    BY <1>1 DEF Gone, CallOK
  <1>3. s \in Inum
    BY <1>2, StartIs
  <1>4. /\ c.op \in {"open", "creat", "mkdir", "mknod", "link", "unlink", "chdir"}
        /\ c.path.names \in Seq(Name) /\ c.new \in Seq(Path) /\ (c.op = "link" => Len(c.new) = 1)
    BY InputsAssumption DEF Path
  <1>5. icache' = Got(After(0, NoProc), s) /\ s \in 0 .. NINODES
    BY <1>3, GotSome DEF begin_op, After
  <1>6. th' = [th EXCEPT ![p] = t]
    BY DEF begin_op, Goto
  <1>7. committed'.disk \in DiskType /\ UNCHANGED <<disk, files, marks>>
    BY DEF begin_op, Body, Typed, RestTyped
  <1> HIDE DEF s
  <1>8. /\ t \in Thread /\ t.pc = "walk" /\ t.op = c.op /\ t.cur = s /\ t.ip = 0 /\ t.dp = 0
        /\ t.puts = <<>> /\ t.freeing = 0 /\ t.new = c.new
    BY <1>4, <1>5, IdleThread DEF Thread, Pcs, PathOps, Creating
  <1> HIDE DEF t
  <1>9. s # 0 /\ Len(<<>>) = 0
    BY <1>3, FileSystemAssumption DEF Inum
  <1>10. CallOK(t)
    BY <1>4, <1>8, <1>9 DEF CallOK, Creating, PathOps
  <1>11. Gone(t) <=> Gone(th[p])
    BY <1>2, <1>4, <1>8 DEF Gone
  <1>12. ASSUME NEW i \in Inum PROVE Holds(t, i) = Holds(th[p], i) + Is(s, i)
    <2>1. Holds(t, i) = Is(s, i) + Is(0, i) + Is(0, i)
      BY <1>8, HoldsIs
    <2>2. th[p].cur = 0 /\ th[p].ip = 0 /\ th[p].dp = 0
      BY <1>1 DEF CallOK, Creating
    <2>3. Holds(th[p], i) = Is(0, i) + Is(0, i) + Is(0, i)
      BY <1>1, <2>2, HoldsIs
    <2> QED
      BY <2>1, <2>3, IsNat
  <1>13. Takes(p, t, s)
    BY <1>6, <1>8, <1>10, <1>11, <1>12 DEF Takes
  <1>14. LocksOK(p)'
    BY <1>7, <1>8, <1>13, TakesAlone, NoLocks
  <1>15. Ready(0)
    BY DEF Ready
  <1> QED
    BY <1>1, <1>5, <1>7, <1>13, <1>14, <1>15, QuietStep

\* One turn of the loop of namex.
LEMMA NamexStep ==
  ASSUME Body, NEW p \in Proc, namex(p), panicked' = "none"
  PROVE  Body'
  <1> DEFINE o == th[p]
             i == o.cur
             next == dirlookup(i, Head(o.rest))
  <1>1. o \in Thread /\ CallOK(o) /\ o.pc = "walk" /\ o.puts = <<>> /\ o.freeing = 0
    BY AtCall DEF namex
  <1>2. i \in Inum /\ o.dp = 0 /\ o.op \in PathOps /\ (o.op # "link2" => o.ip = 0)
    BY <1>1, CallHas DEF CallOK, Creating
  <1>3. icache[i].ref > 0
    BY <1>2, InCache
  <1>4. Ready(i) /\ o.rest # <<>>
    BY <1>2, <1>3, CheckedReady DEF namex
  <1>5. /\ o.rest \in Seq(Name) /\ Head(o.rest) \in Name /\ Head(o.rest) = o.rest[1]
        /\ Tail(o.rest) \in Seq(Name)
    BY <1>1, <1>4, Fields, First
  <1>6. next \in 0 .. NINODES
    BY <1>2, <1>5 DEF dirlookup, Body, Typed, RestTyped, DiskType
  <1>7. committed'.disk \in DiskType /\ UNCHANGED <<disk, files, marks>>
    BY DEF namex, Body, Typed, RestTyped, history
  <1>8. After(i, NoProc) = Visit(i) /\ Got(Visit(i), 0) = Visit(i) /\ 0 \in 0 .. NINODES
    BY <1>2, AfterSome, GotNone, FileSystemAssumption
  <1>9. ASSUME NEW x \in 0 .. NINODES, NEW t, icache' = Got(Visit(i), x), Takes(p, t, x),
               t.pc \in Pcs \ {"create_new", "unlink_ip", "created", "unlink_count"}, t.freeing = 0
        PROVE  Body'
    <2>1. LocksOK(p)'
      BY <1>7, <1>9, TakesAlone, NoLocks
    <2> HIDE DEF i
    <2> QED
      BY <1>1, <1>4, <1>7, <1>8, <1>9, <2>1, QuietStep
  <1>10. CASE icache' = Visit(i) /\ Missed(p, MissPuts(i))
    <2>1. Missed(p, <<i>>)
      BY <1>10 DEF MissPuts
    <2>2. PICK t : Takes(p, t, 0) /\ t.pc \in {"end", "link_bad"} /\ t.freeing = 0
      BY <1>1, <1>2, <2>1, Misses
    <2> QED
      BY <1>8, <1>9, <1>10, <2>2 DEF Pcs
  <1>11. CASE /\ icache' = Visit(i) /\ o.op \in Parental
              /\ Goto(p, [o EXCEPT !.pc = o.op, !.dp = i, !.cur = 0, !.name = o.rest[1], !.rest = <<>>])
    <2> DEFINE t == [o EXCEPT !.pc = o.op, !.dp = i, !.cur = 0, !.name = o.rest[1], !.rest = <<>>]
    <2>1. o.op \in {"creat", "mkdir", "mknod", "unlink", "link2"}
      BY <1>11 DEF Parental
    <2>2. i \in 0 .. NINODES /\ <<>> \in Seq(Name) /\ i # 0
      BY <1>1, <1>2, Fields, FileSystemAssumption DEF Inum
    <2>3. /\ t \in Thread /\ t.pc = o.op /\ t.op = o.op /\ t.dp = i /\ t.cur = 0 /\ t.ip = o.ip
          /\ t.puts = <<>> /\ t.freeing = 0 /\ t.new = o.new
      <3>1. o \in Thread /\ o.op \in Pcs /\ o.rest[1] \in Name /\ o.puts = <<>> /\ o.freeing = 0
        BY <1>1, <1>5, <2>1 DEF Pcs
      <3> HIDE DEF o, i
      <3> QED
        BY <1>8, <2>2, <3>1 DEF Thread
    <2>4. th' = [th EXCEPT ![p] = t]
      BY <1>11 DEF Goto
    <2> HIDE DEF t
    <2>5. o.op = "link2" => o.ip # 0
      BY <1>1 DEF CallOK
    <2>5a. Len(t.puts) = 0
      BY <2>3
    <2>6. CallOK(t)
      BY <1>2, <2>1, <2>2, <2>3, <2>5, <2>5a DEF CallOK, Creating, PathOps
    <2>7. Gone(t) <=> Gone(o)
      BY <1>1, <2>1, <2>3 DEF Gone
    <2>8. ASSUME NEW j \in Inum PROVE Holds(t, j) = Holds(o, j) + Is(0, j)
      <3>1. Holds(t, j) = Is(0, j) + Is(o.ip, j) + Is(i, j)
        BY <2>3, HoldsIs
      <3>2. Holds(o, j) = Is(i, j) + Is(o.ip, j) + Is(0, j)
        BY <1>1, <1>2, HoldsIs
      <3> QED
        BY <3>1, <3>2, IsNat
    <2>9. Takes(p, t, 0)
      BY <2>3, <2>4, <2>6, <2>7, <2>8 DEF Takes
    <2>10. t.pc \in Pcs \ {"create_new", "unlink_ip", "created", "unlink_count"}
      BY <2>1, <2>3 DEF Pcs
    <2> QED
      BY <1>8, <1>9, <1>11, <2>3, <2>9, <2>10
  <1>12. CASE /\ icache' = Iget(Visit(i), next) /\ next # 0
              /\ Goto(p, [o EXCEPT !.cur = next, !.rest = Tail(@), !.puts = <<i>>])
    <2> DEFINE t == [o EXCEPT !.cur = next, !.rest = Tail(@), !.puts = <<i>>]
    <2>1. next \in Inum
      BY <1>6, <1>12, FileSystemAssumption DEF Inum
    <2> HIDE DEF next
    <2>2. <<i>> \in Seq(Inum) /\ Len(<<i>>) = 1
      BY <1>2
    <2>3. /\ t \in Thread /\ t.pc = "walk" /\ t.op = o.op /\ t.dp = 0 /\ t.cur = next /\ t.ip = o.ip
          /\ t.puts = <<i>> /\ t.freeing = 0 /\ t.new = o.new
      BY <1>1, <1>2, <1>5, <1>6, <2>2 DEF Thread
    <2>4. th' = [th EXCEPT ![p] = t]
      BY <1>12 DEF Goto
    <2> HIDE DEF t
    <2>6. CallOK(t)
      BY <1>1, <1>2, <1>12, <2>2, <2>3 DEF CallOK
    <2>7. Gone(t) <=> Gone(o)
      BY <1>1, <2>3 DEF Gone
    <2>8. ASSUME NEW j \in Inum PROVE Holds(t, j) = Holds(o, j) + Is(next, j)
      <3>1. Holds(t, j) = Is(next, j) + Is(o.ip, j) + Is(0, j) + Is(i, j)
        BY <2>3, HoldsIs
      <3>2. Holds(o, j) = Is(i, j) + Is(o.ip, j) + Is(0, j)
        BY <1>1, <1>2, HoldsIs
      <3> QED
        BY <3>1, <3>2, IsNat
    <2>9. Takes(p, t, next)
      BY <2>3, <2>4, <2>6, <2>7, <2>8 DEF Takes
    <2>10. icache' = Got(Visit(i), next)
      BY <1>12, <2>1, GotSome
    <2>11. t.pc \in Pcs \ {"create_new", "unlink_ip", "created", "unlink_count"}
      BY <2>3 DEF Pcs
    <2> QED
      BY <1>6, <1>9, <2>3, <2>9, <2>10, <2>11
  <1> QED
    BY <1>10, <1>11, <1>12 DEF namex

\* namex is through.
LEMMA NamexEndStep ==
  ASSUME Body, NEW p \in Proc, namex_end(p)
  PROVE  Body'
  <1> DEFINE o == th[p]
             i == o.cur
  <1>1. o \in Thread /\ CallOK(o) /\ o.pc = "walk" /\ o.puts = <<>> /\ o.freeing = 0
    BY AtCall DEF namex_end
  <1>2. i \in Inum /\ o.dp = 0 /\ o.op \in PathOps /\ (o.op # "link2" => o.ip = 0)
    BY <1>1, CallHas DEF CallOK, Creating
  <1>3. committed'.disk \in DiskType /\ UNCHANGED <<disk, files, marks>>
    BY DEF namex_end, Body, Typed, RestTyped, history
  <1>4. icache' = Got(After(0, NoProc), 0) /\ Ready(0) /\ 0 \in 0 .. NINODES
    BY GotNone, FileSystemAssumption DEF After, namex_end, Ready
  <1>5. ASSUME NEW t, Takes(p, t, 0), t.freeing = 0,
               t.pc \in Pcs \ {"create_new", "unlink_ip", "created", "unlink_count"}
        PROVE  Body'
    <2>1. LocksOK(p)'
      BY <1>3, <1>5, TakesAlone, NoLocks
    <2> QED
      BY <1>1, <1>3, <1>4, <1>5, <2>1, QuietStep
  <1>6. CASE Missed(p, <<i>>)
    <2>1. PICK t : Takes(p, t, 0) /\ t.pc \in {"end", "link_bad"} /\ t.freeing = 0
      BY <1>1, <1>2, <1>6, Misses
    <2> QED
      BY <1>5, <2>1 DEF Pcs
  <1>7. CASE o.op \notin Parental /\ Goto(p, [o EXCEPT !.pc = o.op, !.ip = i, !.cur = 0])
    <2> DEFINE t == [o EXCEPT !.pc = o.op, !.ip = i, !.cur = 0]
    <2>1. o.op \in {"open", "link", "chdir"} /\ o.op # "link2"
      BY <1>2, <1>7 DEF Parental, PathOps, Creating
    <2>2. i \in 0 .. NINODES /\ i # 0
      BY <1>1, <1>2, Fields, FileSystemAssumption DEF Inum
    <2>3. /\ t \in Thread /\ t.pc = o.op /\ t.op = o.op /\ t.dp = 0 /\ t.cur = 0 /\ t.ip = i
          /\ t.puts = <<>> /\ t.freeing = 0 /\ t.new = o.new
      BY <1>1, <1>2, <1>4, <2>1, <2>2 DEF Thread, Pcs
    <2>4. th' = [th EXCEPT ![p] = t]
      BY <1>7 DEF Goto
    <2> HIDE DEF t
    <2>5. Len(t.puts) = 0 /\ (o.op = "link" => Len(o.new) = 1)
      BY <1>1, <2>3 DEF CallOK
    <2>6. CallOK(t)
      BY <1>2, <2>1, <2>2, <2>3, <2>5 DEF CallOK, Creating, PathOps
    <2>7. Gone(t) <=> Gone(o)
      BY <1>1, <2>1, <2>3 DEF Gone
    <2>8. ASSUME NEW j \in Inum PROVE Holds(t, j) = Holds(o, j) + Is(0, j)
      <3>1. Holds(t, j) = Is(0, j) + Is(i, j) + Is(0, j)
        BY <2>3, HoldsIs
      <3>2. Holds(o, j) = Is(i, j) + Is(0, j) + Is(0, j)
        BY <1>1, <1>2, <2>1, HoldsIs
      <3> QED
        BY <3>1, <3>2, IsNat
    <2>9. Takes(p, t, 0)
      BY <2>3, <2>4, <2>6, <2>7, <2>8 DEF Takes
    <2>10. t.pc \in Pcs \ {"create_new", "unlink_ip", "created", "unlink_count"}
      BY <2>1, <2>3 DEF Pcs
    <2> QED
      BY <1>5, <2>3, <2>9, <2>10
  <1> QED
    BY <1>6, <1>7 DEF namex_end

\* end_op.
LEMMA EndStep ==
  ASSUME Body, NEW p \in Proc, end_op(p)
  PROVE  Body'
  <1> DEFINE o == th[p]
             t == [Idle EXCEPT !.pc = IF o.op = "exit" THEN "dead" ELSE "user"]
  <1>1. o \in Thread /\ CallOK(o) /\ o.pc = "end" /\ o.puts = <<>> /\ o.freeing = 0
    BY AtCall DEF end_op
  <1>2. committed'.disk \in DiskType /\ UNCHANGED <<disk, files, marks>>
    BY DEF end_op, Body, Typed, RestTyped, history
  <1>3. icache' = Got(After(0, NoProc), 0) /\ Ready(0) /\ 0 \in 0 .. NINODES
    BY GotNone, FileSystemAssumption DEF After, end_op, Ready
  <1>4. th' = [th EXCEPT ![p] = t]
    BY DEF end_op, Goto
  <1>5. /\ t \in Thread /\ t.pc = (IF o.op = "exit" THEN "dead" ELSE "user") /\ t.op = "none"
        /\ t.cur = 0 /\ t.ip = 0 /\ t.dp = 0 /\ t.puts = <<>> /\ t.freeing = 0
    BY IdleThread DEF Thread, Pcs
  <1> HIDE DEF t
  <1>6. Len(t.puts) = 0
    BY <1>5
  <1>7. CallOK(t)
    BY <1>5, <1>6 DEF CallOK, Creating, PathOps
  <1>8. Gone(t) <=> Gone(o)
    BY <1>1, <1>5 DEF Gone
  <1>9. ASSUME NEW j \in Inum PROVE Holds(t, j) = Holds(o, j) + Is(0, j)
    <2>1. Holds(t, j) = Is(0, j) + Is(0, j) + Is(0, j)
      BY <1>5, HoldsIs
    <2>2. o.cur = 0 /\ o.ip = 0 /\ o.dp = 0
      BY <1>1 DEF CallOK, Creating
    <2>3. Holds(o, j) = Is(0, j) + Is(0, j) + Is(0, j)
      BY <1>1, <2>2, HoldsIs
    <2> QED
      BY <2>1, <2>3, IsNat
  <1>10. Takes(p, t, 0)
    BY <1>4, <1>5, <1>7, <1>8, <1>9 DEF Takes
  <1>11. LocksOK(p)'
    BY <1>2, <1>5, <1>10, TakesAlone, NoLocks
  <1> QED
    BY <1>1, <1>2, <1>3, <1>10, <1>11, QuietStep

-----------------------------------------------------------------------------
(***************************************************************************)
(* Calls on the inode that was found.                                      *)
(***************************************************************************)

\* The call looks at its inode and gives up.
LEMMA GiveUp ==
  ASSUME Body, NEW p \in Proc, NEW l \in {"open", "create_old", "link", "chdir"}, At(p, l),
         Lockable(th[p].ip), icache' = Visit(th[p].ip), Finish(p, <<th[p].ip>>), Checked(th[p].ip),
         panicked' = "none", UNCHANGED <<disk, committed, files, history>>
  PROVE  Body'
  <1> DEFINE i == th[p].ip
             t == Finishing(p, <<i>>)
  <1>1. th[p] \in Thread /\ CallOK(th[p]) /\ th[p].pc = l /\ th[p].puts = <<>> /\ th[p].freeing = 0
    BY AtCall
  <1>2. i \in Inum /\ th[p].cur = 0 /\ th[p].dp = 0
    BY <1>1, CallHas DEF CallOK, Creating
  <1>3. icache[i].ref > 0
    BY <1>2, InCache
  <1>4. Ready(i)
    BY <1>2, <1>3, CheckedReady
  <1>5. \A j \in Inum : Is(th[p].cur, j) + Is(th[p].ip, j) + Is(th[p].dp, j) = Is(i, j)
    BY <1>2, IsNat
  <1>6. Takes(p, t, 0) /\ t.pc = "end" /\ t.freeing = 0
    BY <1>1, <1>2, <1>5, Fails
  <1>7. committed'.disk \in DiskType /\ UNCHANGED <<disk, files, marks>>
    BY DEF Body, Typed, RestTyped, history
  <1>8. LocksOK(p)'
    BY <1>6, <1>7, TakesAlone, NoLocks
  <1>9. icache' = Got(After(i, NoProc), 0) /\ 0 \in 0 .. NINODES
    BY <1>2, AfterSome, GotNone, FileSystemAssumption
  <1> HIDE DEF i, t
  <1> QED
    BY <1>1, <1>4, <1>6, <1>7, <1>8, <1>9, QuietStep

\* create finds the name.
LEMMA FoundStep ==
  ASSUME Body, NEW p \in Proc, create_found(p), panicked' = "none"
  PROVE  Body'
  <1> DEFINE o == th[p]
             d == o.dp
             old == dirlookup(d, o.name)
             t == [o EXCEPT !.pc = "create_old", !.ip = old, !.dp = 0, !.puts = <<d>>]
  <1>1. /\ o \in Thread /\ CallOK(o) /\ o.pc \in Creating /\ o.pc = o.op
        /\ o.puts = <<>> /\ o.freeing = 0
    BY AtCall DEF create_found, Creating
  <1>2. d \in Inum /\ o.cur = 0 /\ o.ip = 0
    BY <1>1, CallHas DEF CallOK, Creating
  <1>3. icache[d].ref > 0
    BY <1>2, InCache
  <1>4. Ready(d)
    BY <1>2, <1>3, CheckedReady DEF create_found
  <1>5. o.name \in Name
    BY <1>1, Fields
  <1>6. old \in 0 .. NINODES /\ old # 0
    BY <1>2, <1>5 DEF dirlookup, Body, Typed, RestTyped, DiskType, create_found
  <1>7. old \in Inum
    BY <1>6, FileSystemAssumption DEF Inum
  <1>8. icache' = Got(After(d, NoProc), old)
    BY <1>2, <1>7, AfterSome, GotSome DEF create_found
  <1>9. th' = [th EXCEPT ![p] = t]
    BY DEF create_found, Goto
  <1> HIDE DEF old
  <1>10. 0 \in 0 .. NINODES /\ <<d>> \in Seq(Inum) /\ Len(<<d>>) = 1
    BY <1>2, FileSystemAssumption
  <1>11. /\ t \in Thread /\ t.pc = "create_old" /\ t.op = o.op /\ t.cur = 0 /\ t.ip = old /\ t.dp = 0
         /\ t.puts = <<d>> /\ t.freeing = 0
    BY <1>1, <1>2, <1>6, <1>10 DEF Thread, Pcs
  <1> HIDE DEF t
  <1>12. CallOK(t)
    BY <1>1, <1>6, <1>10, <1>11 DEF CallOK, Creating, PathOps
  <1>13. Gone(t) <=> Gone(o)
    BY <1>1, <1>11 DEF Gone, Creating
  <1>14. ASSUME NEW j \in Inum PROVE Holds(t, j) = Holds(o, j) + Is(old, j)
    <2>1. Holds(t, j) = Is(0, j) + Is(old, j) + Is(0, j) + Is(d, j)
      BY <1>11, HoldsIs
    <2>2. Holds(o, j) = Is(0, j) + Is(0, j) + Is(d, j)
      BY <1>1, <1>2, HoldsIs
    <2> QED
      BY <2>1, <2>2, IsNat
  <1>15. Takes(p, t, old)
    BY <1>9, <1>11, <1>12, <1>13, <1>14 DEF Takes
  <1>16. committed'.disk \in DiskType /\ UNCHANGED <<disk, files, marks>>
    BY DEF Body, Typed, RestTyped, history, create_found
  <1>17. LocksOK(p)'
    BY <1>11, <1>15, <1>16, TakesAlone, NoLocks
  <1>18. o.pc # "create_new"
    BY <1>1 DEF Creating
  <1> HIDE DEF d
  <1> QED
    BY <1>1, <1>4, <1>6, <1>8, <1>15, <1>16, <1>17, <1>18, QuietStep

\* sys_unlink looks the name up.
LEMMA UnlinkStep ==
  ASSUME Body, NEW p \in Proc, unlink(p), panicked' = "none"
  PROVE  Body'
  <1> DEFINE o == th[p]
             d == o.dp
             i == dirlookup(d, o.name)
  <1>1. o \in Thread /\ CallOK(o) /\ o.pc = "unlink" /\ o.puts = <<>> /\ o.freeing = 0
    BY AtCall DEF unlink
  <1>2. d \in Inum /\ o.cur = 0 /\ o.ip = 0 /\ o.op = "unlink"
    BY <1>1, CallHas DEF CallOK, Creating, PathOps
  <1>3. icache[d].ref > 0
    BY <1>2, InCache
  <1>4. Ready(d)
    BY <1>2, <1>3, CheckedReady DEF unlink
  <1>5. committed'.disk \in DiskType /\ UNCHANGED <<disk, files, marks>>
    BY DEF Body, Typed, RestTyped, history, unlink
  <1>6. CASE icache' = Visit(d) /\ Finish(p, <<d>>)
    <2> DEFINE t == Finishing(p, <<d>>)
    <2>1. \A j \in Inum : Is(o.cur, j) + Is(o.ip, j) + Is(o.dp, j) = Is(d, j)
      BY <1>2, IsNat
    <2>2. Takes(p, t, 0) /\ t.pc = "end" /\ t.freeing = 0
      BY <1>1, <1>2, <1>6, <2>1, Fails
    <2>3. LocksOK(p)'
      BY <1>5, <2>2, TakesAlone, NoLocks
    <2>4. icache' = Got(After(d, NoProc), 0) /\ 0 \in 0 .. NINODES
      BY <1>2, <1>6, AfterSome, GotNone, FileSystemAssumption
    <2> HIDE DEF d, t
    <2> QED
      BY <1>1, <1>4, <1>5, <2>2, <2>3, <2>4, QuietStep
  <1>7. CASE i # 0 /\ icache' = Iget(Ilock(d, p), i) /\ Goto(p, [o EXCEPT !.pc = "unlink_ip", !.ip = i])
    <2> DEFINE t == [o EXCEPT !.pc = "unlink_ip", !.ip = i]
    <2>1. o.name \in Name
      BY <1>1, Fields
    <2>2. i \in 0 .. NINODES /\ i # 0
      BY <1>2, <1>7, <2>1 DEF dirlookup, Body, Typed, RestTyped, DiskType
    <2>3. i \in Inum
      BY <2>2, FileSystemAssumption DEF Inum
    <2>4. icache' = Got(After(d, p), i)
      BY <1>2, <1>7, <2>3, AfterSome, GotSome
    <2>5. th' = [th EXCEPT ![p] = t]
      BY <1>7 DEF Goto
    <2> HIDE DEF i
    <2>6. /\ t \in Thread /\ t.pc = "unlink_ip" /\ t.op = "unlink" /\ t.cur = 0 /\ t.ip = i /\ t.dp = d
          /\ t.puts = <<>> /\ t.freeing = 0
      BY <1>1, <1>2, <2>2 DEF Thread, Pcs
    <2> HIDE DEF t
    <2>7. Len(t.puts) = 0 /\ d # 0
      BY <1>2, <2>6, FileSystemAssumption DEF Inum
    <2>8. CallOK(t)
      BY <2>2, <2>6, <2>7 DEF CallOK, Creating, PathOps
    <2>9. Gone(t) <=> Gone(o)
      BY <1>1, <1>2, <2>6 DEF Gone
    <2>10. ASSUME NEW j \in Inum PROVE Holds(t, j) = Holds(o, j) + Is(i, j)
      <3>1. Holds(t, j) = Is(0, j) + Is(i, j) + Is(d, j)
        BY <2>6, HoldsIs
      <3>2. Holds(o, j) = Is(0, j) + Is(0, j) + Is(d, j)
        BY <1>1, <1>2, HoldsIs
      <3> QED
        BY <3>1, <3>2, IsNat
    <2>11. Takes(p, t, i)
      BY <2>5, <2>6, <2>8, <2>9, <2>10 DEF Takes
    <2>12. th'[p] = t
      BY <1>5, <2>11, TakesAlone
    <2>13. icache'[d].busy = p /\ icache'[d].valid
      <3> DEFINE J == After(d, p)
      <3>1. J \in [Inum -> CacheEntry] /\ J[d] = Fresh(d, p)
        BY <1>2, <1>4, AfterIs
      <3>2. J[d].ref # 0 /\ J[d].busy = p /\ J[d].valid
        BY <1>3, <3>1, FileSystemAssumption DEF Fresh
      <3> HIDE DEF J
      <3>3. Got(J, i)[d].busy = J[d].busy /\ Got(J, i)[d].valid = J[d].valid
        BY <1>2, <2>2, <3>1, <3>2, GotKeeps
      <3> QED
        BY <2>4, <3>2, <3>3 DEF J
    <2>14. LocksOK(p)'
      BY <2>6, <2>12, <2>13 DEF LocksOK
    <2> HIDE DEF d
    <2> QED
      BY <1>1, <1>4, <1>5, <2>2, <2>4, <2>11, <2>14, QuietStep
  <1> QED
    BY <1>6, <1>7 DEF unlink

-----------------------------------------------------------------------------
(***************************************************************************)
(* Calls that change inodes.                                               *)
(***************************************************************************)

\* Entries are written under a lock or stay as they are.
Touched(p, J) ==
  \A i \in Inum : \/ Written(J, i, p)
                  \/ J[i] = icache[i] /\ disk'[i].type = disk[i].type /\ disk'[i].nlink = disk[i].nlink

\* Such a step keeps the entries in order.
LEMMA TouchedEntries ==
  ASSUME NEW p \in Proc, NEW J, Alone(p), th[p].pc # "create_new", Touched(p, J)
  PROVE  Entries(p, J)
  BY ComingKept DEF Touched, Entries, Kept

\* The entry that p has locked is up to date.
LEMMA OwnLocked ==
  ASSUME Body, NEW p \in Proc, th[p].freeing = 0, NEW i \in Inum, icache[i].busy = p, icache[i].valid
  PROVE  /\ icache[i].type = disk[i].type /\ disk[i].type # "free"
         /\ icache[i].nlink = disk[i].nlink /\ icache[i].ref > 0
  <1>1. ~Freed(th, i)
    BY FreedLocked
  <1> QED
    BY <1>1 DEF Body, CacheOK

\* iupdate with another link count.
LEMMA Recounted ==
  ASSUME Body, NEW p \in Proc, NEW i \in Inum, Ready(i), NEW n \in Int,
         disk' = [disk EXCEPT ![i].nlink = n]
  PROVE  /\ [Visit(i) EXCEPT ![i].nlink = n] \in [Inum -> CacheEntry]
         /\ Touched(p, [Visit(i) EXCEPT ![i].nlink = n]) /\ disk' \in DiskType
  <1> DEFINE J == [Visit(i) EXCEPT ![i].nlink = n]
             e == Fresh(i, NoProc)
  <1>1. /\ Visit(i) \in [Inum -> CacheEntry] /\ disk[i].type # "free"
        /\ \A j \in Inum : Visit(i)[j] = IF j = i THEN e ELSE icache[j]
    <2>1. i # 0 /\ After(i, NoProc) = Visit(i)
      BY AfterSome, FileSystemAssumption DEF Inum
    <2> QED
      BY <2>1, AfterIs
  <1>2. disk \in DiskType /\ disk[i] \in [type : InodeType, nlink : Int, ents : [Name -> 0 .. NINODES]]
    BY DEF Body, Typed, RestTyped, DiskType
  <1>3. /\ disk' \in DiskType /\ disk'[i].nlink = n /\ disk'[i].type = disk[i].type
        /\ \A j \in Inum \ {i} : disk'[j] = disk[j]
    BY <1>2 DEF DiskType
  <1>4. J \in [Inum -> CacheEntry]
    BY <1>1 DEF CacheEntry
  <1>5. /\ J[i].ref = e.ref /\ J[i].busy = e.busy /\ J[i].valid = e.valid /\ J[i].type = e.type
        /\ J[i].nlink = n
        /\ \A j \in Inum \ {i} : J[j] = icache[j]
    BY <1>1 DEF CacheEntry
  <1> HIDE DEF J
  <1>6. Written(J, i, p)
    BY <1>1, <1>3, <1>5, FileSystemAssumption DEF Written, Ready, Lockable, Fresh, Inum
  <1>7. Touched(p, J)
    BY <1>3, <1>5, <1>6 DEF Touched
  <1> QED
    BY <1>3, <1>4, <1>7 DEF J

\* What ilock finds.
LEMMA VisitedLinks ==
  ASSUME Body, NEW p \in Proc, NEW i \in Inum, Ready(i)
  PROVE  /\ Visit(i)[i].nlink = disk[i].nlink /\ Visit(i)[i].type = disk[i].type
         /\ disk[i].nlink \in Int /\ disk[i].type \in InodeType /\ disk[i].type # "free"
  <1>1. i # 0 /\ After(i, NoProc) = Visit(i)
    BY AfterSome, FileSystemAssumption DEF Inum
  <1>2. Visit(i)[i] = Fresh(i, NoProc) /\ disk[i].type # "free"
    BY <1>1, AfterIs
  <1>3. disk[i].nlink \in Int /\ disk[i].type \in InodeType
    BY DEF Body, Typed, RestTyped, DiskType
  <1> QED
    BY <1>2, <1>3 DEF Fresh

\* sys_link takes the count back.
LEMMA LinkBadStep ==
  ASSUME Body, NEW p \in Proc, link_bad(p), panicked' = "none"
  PROVE  Body'
  <1> DEFINE i == th[p].ip
             n == Visit(i)[i].nlink - 1
             J == [Visit(i) EXCEPT ![i].nlink = n]
             t == Finishing(p, <<i>>)
  <1>1. th[p] \in Thread /\ CallOK(th[p]) /\ th[p].pc = "link_bad" /\ th[p].puts = <<>> /\ th[p].freeing = 0
    BY AtCall DEF link_bad
  <1>2. i \in Inum /\ th[p].cur = 0 /\ th[p].dp = 0
    BY <1>1, CallHas DEF CallOK, Creating
  <1>3. icache[i].ref > 0
    BY <1>2, InCache
  <1>4. Ready(i)
    BY <1>2, <1>3, CheckedReady DEF link_bad
  <1>5. n \in Int
    BY <1>2, <1>4, VisitedLinks
  <1>6. disk' = [disk EXCEPT ![i].nlink = n] /\ icache' = J
    BY DEF link_bad, SetLinks
  <1>7. J \in [Inum -> CacheEntry] /\ Touched(p, J) /\ disk' \in DiskType
    <2> HIDE DEF n, i
    <2> QED
      BY <1>2, <1>4, <1>5, <1>6, Recounted
  <1>8. \A j \in Inum : Is(th[p].cur, j) + Is(th[p].ip, j) + Is(th[p].dp, j) = Is(i, j)
    BY <1>2, IsNat
  <1>9. Takes(p, t, 0) /\ t.pc = "end" /\ t.freeing = 0
    BY <1>1, <1>2, <1>8, Fails DEF link_bad
  <1>10. /\ committed'.disk \in DiskType /\ UNCHANGED files
         /\ leaked \cup lost \subseteq leaked' \cup lost'
    BY DEF Body, Typed, RestTyped, history, marks, link_bad
  <1>11. LocksOK(p)' /\ Alone(p)
    BY <1>9, <1>10, TakesAlone, NoLocks
  <1> HIDE DEF J, t
  <1>12. Entries(p, J)
    BY <1>1, <1>7, <1>11, TouchedEntries
  <1>13. icache' = Got(J, 0) /\ 0 \in 0 .. NINODES
    BY <1>6, GotNone, FileSystemAssumption
  <1> QED
    BY <1>1, <1>7, <1>9, <1>10, <1>11, <1>12, <1>13, CallStep

\* The only element of a sequence.
LEMMA OneLong ==
  ASSUME NEW S, NEW s \in Seq(S), Len(s) = 1
  PROVE  s[1] \in S
  OBVIOUS

\* sys_link counts the link.
LEMMA LinkStep ==
  ASSUME Body, NEW p \in Proc, link(p), panicked' = "none"
  PROVE  Body'
  <1> DEFINE o == th[p]
             i == o.ip
             n == Visit(i)[i].nlink + 1
             J == [Visit(i) EXCEPT ![i].nlink = n]
             s == Start(p, o.new[1])
             t == [o EXCEPT !.pc = "walk", !.op = "link2", !.rest = o.new[1].names, !.new = <<>>, !.cur = s]
  <1>1. o \in Thread /\ CallOK(o) /\ o.pc = "link" /\ o.puts = <<>> /\ o.freeing = 0
    BY AtCall DEF link
  <1>2. CASE icache' = Visit(i) /\ Finish(p, <<i>>) /\ Checked(i) /\ UNCHANGED disk
    BY <1>2, GiveUp DEF link
  <1>3. CASE /\ disk' = [disk EXCEPT ![i].nlink = n] /\ icache' = Iget(J, s)
             /\ Goto(p, t) /\ Checked(i)
    <2>1. i \in Inum /\ o.cur = 0 /\ o.dp = 0 /\ o.op = "link" /\ Len(o.new) = 1 /\ i # 0
      BY <1>1, CallHas DEF CallOK, Creating, PathOps
    <2>2. icache[i].ref > 0
      BY <2>1, InCache
    <2>3. Ready(i)
      BY <1>3, <2>1, <2>2, CheckedReady DEF link
    <2>4. n \in Int
      BY <2>1, <2>3, VisitedLinks
    <2>5. J \in [Inum -> CacheEntry] /\ Touched(p, J) /\ disk' \in DiskType
      <3> HIDE DEF n, i
      <3> QED
        BY <1>3, <2>1, <2>3, <2>4, Recounted
    <2>6. ~Gone(o)
      BY <1>1, <2>1 DEF Gone
    <2>7. s \in Inum
      BY <2>6, StartIs
    <2>8. s \in 0 .. NINODES /\ s # 0 /\ icache' = Got(J, s)
      BY <1>3, <2>7, GotSome, FileSystemAssumption DEF Inum
    <2>9. o.new[1].names \in Seq(Name) /\ <<>> \in Seq(Path)
      <3>0. o.new \in Seq(Path)
        BY <1>1, Fields
      <3>2. o.new[1] \in Path
        BY <2>1, <3>0, OneLong
      <3> QED
        BY <3>2 DEF Path
    <2> HIDE DEF s
    <2>10. /\ t \in Thread /\ t.pc = "walk" /\ t.op = "link2" /\ t.cur = s /\ t.ip = i /\ t.dp = 0
           /\ t.puts = <<>> /\ t.freeing = 0
      BY <1>1, <2>1, <2>8, <2>9 DEF Thread, Pcs, PathOps
    <2>11. th' = [th EXCEPT ![p] = t]
      BY <1>3 DEF Goto
    <2> HIDE DEF t
    <2>12. Len(t.puts) = 0
      BY <2>10
    <2>13. CallOK(t)
      BY <2>1, <2>8, <2>10, <2>12 DEF CallOK, Creating, PathOps
    <2>14. Gone(t) <=> Gone(o)
      BY <2>6, <2>10 DEF Gone
    <2>15. ASSUME NEW j \in Inum PROVE Holds(t, j) = Holds(o, j) + Is(s, j)
      <3>1. Holds(t, j) = Is(s, j) + Is(i, j) + Is(0, j)
        BY <2>10, HoldsIs
      <3>2. Holds(o, j) = Is(0, j) + Is(i, j) + Is(0, j)
        BY <1>1, <2>1, HoldsIs
      <3> QED
        BY <3>1, <3>2, IsNat
    <2>16. Takes(p, t, s)
      BY <2>10, <2>11, <2>13, <2>14, <2>15 DEF Takes
    <2>17. /\ committed'.disk \in DiskType /\ UNCHANGED files
           /\ leaked \cup lost \subseteq leaked' \cup lost'
      BY DEF Body, Typed, RestTyped, history, marks, link
    <2>18. LocksOK(p)' /\ Alone(p)
      BY <2>10, <2>16, <2>17, TakesAlone, NoLocks
    <2> HIDE DEF J
    <2>19. Entries(p, J)
      BY <1>1, <2>5, <2>18, TouchedEntries
    <2> QED
      BY <1>1, <2>5, <2>8, <2>16, <2>17, <2>18, <2>19, CallStep
  <1> QED
    BY <1>2, <1>3 DEF link

\* sys_link enters the name.
LEMMA LinkDirStep ==
  ASSUME Body, NEW p \in Proc, link_dir(p), panicked' = "none"
  PROVE  Body'
  <1> DEFINE o == th[p]
             d == o.dp
             i == o.ip
  <1>1. o \in Thread /\ CallOK(o) /\ o.pc = "link2" /\ o.puts = <<>> /\ o.freeing = 0
    BY AtCall DEF link_dir
  <1>2. d \in Inum /\ i \in Inum /\ o.cur = 0 /\ o.op = "link2" /\ d # 0 /\ i # 0
    BY <1>1, CallHas DEF CallOK, Creating, PathOps
  <1>3. icache[d].ref > 0
    BY <1>2, InCache
  <1>4. Ready(d)
    BY <1>2, <1>3, CheckedReady DEF link_dir
  <1>5. icache' = Got(After(d, NoProc), 0) /\ 0 \in 0 .. NINODES
    BY <1>2, AfterSome, GotNone, FileSystemAssumption DEF link_dir
  <1>6. committed'.disk \in DiskType /\ UNCHANGED files /\ leaked' = leaked
    BY DEF Body, Typed, RestTyped, link_dir
  <1>7. ASSUME NEW t, Takes(p, t, 0), t.pc \in {"end", "link_bad"}, t.freeing = 0,
               disk' \in DiskType, SameInodes, lost \subseteq lost'
        PROVE  Body'
    <2>1. LocksOK(p)'
      BY <1>6, <1>7, TakesAlone, NoLocks
    <2>2. leaked \cup lost \subseteq leaked' \cup lost'
      BY <1>6, <1>7
    <2> HIDE DEF d
    <2> QED
      BY <1>1, <1>4, <1>5, <1>6, <1>7, <2>1, <2>2, EntryStep
  <1>8. CASE Missed(p, <<d>>) /\ UNCHANGED <<disk, lost>>
    <2>1. PICK t : Takes(p, t, 0) /\ t.pc \in {"end", "link_bad"} /\ t.freeing = 0
      BY <1>1, <1>2, <1>8, Misses
    <2>2. disk' \in DiskType /\ SameInodes /\ lost \subseteq lost'
      BY <1>8 DEF Body, Typed, RestTyped, SameInodes
    <2> QED
      BY <1>7, <2>1, <2>2
  <1>9. CASE /\ disk' = [disk EXCEPT ![d].ents = dirlink(@, o.name, i)]
             /\ lost' = IF Visit(d)[d].nlink = 0 \/ d \in lost THEN lost \cup {i, d} ELSE lost
             /\ Finish(p, <<d, i>>)
    <2> DEFINE t == Finishing(p, <<d, i>>)
    <2>1. <<d, i>> \in Seq(Inum) /\ Len(<<d, i>>) <= 2
      BY <1>2
    <2>2. /\ t \in Thread /\ CallOK(t) /\ t.pc = "end" /\ t.freeing = 0
          /\ t.cur = 0 /\ t.ip = 0 /\ t.dp = 0 /\ t.puts = <<d, i>> /\ (Gone(t) <=> Gone(th[p]))
      BY <1>1, <2>1, FinishingIs
    <2>3. th' = [th EXCEPT ![p] = t]
      BY <1>9 DEF Finish, Goto, Finishing
    <2> HIDE DEF t
    <2>4. ASSUME NEW j \in Inum PROVE Holds(t, j) = Holds(o, j) + Is(0, j)
      <3>1. Holds(t, j) = Is(0, j) + Is(0, j) + Is(0, j) + Is(d, j) + Is(i, j)
        BY <2>2, HoldsIs
      <3>2. Holds(o, j) = Is(0, j) + Is(i, j) + Is(d, j)
        BY <1>1, <1>2, HoldsIs
      <3> QED
        BY <3>1, <3>2, IsNat
    <2>5. Takes(p, t, 0)
      BY <2>2, <2>3, <2>4 DEF Takes
    <2>6. disk' \in DiskType /\ SameInodes
      <3>1. disk \in DiskType /\ o.name \in Name /\ i \in 0 .. NINODES
        BY <1>1, Fields DEF Body, Typed, RestTyped
      <3> DEFINE e == dirlink(disk[d].ents, o.name, i)
      <3>2. e \in [Name -> 0 .. NINODES]
        BY <1>2, <3>1 DEF dirlink, DiskType
      <3>3. disk' = [disk EXCEPT ![d].ents = e]
        BY <1>2, <1>9, <3>1 DEF DiskType
      <3> HIDE DEF e
      <3> QED
        BY <1>2, <3>1, <3>2, <3>3 DEF DiskType, SameInodes
    <2>7. lost \subseteq lost'
      BY <1>9
    <2> QED
      BY <1>7, <2>2, <2>5, <2>6, <2>7
  <1> QED
    BY <1>8, <1>9 DEF link_dir

\* sys_unlink counts the inode down.
LEMMA UnlinkCountStep ==
  ASSUME Body, NEW p \in Proc, unlink_count(p)
  PROVE  Body'
  <1> DEFINE o == th[p]
             i == o.ip
             n == icache[i].nlink - 1
             J == [icache EXCEPT ![i].nlink = n, ![i].busy = NoProc]
             t == Finishing(p, <<i>>)
  <1>1. o \in Thread /\ CallOK(o) /\ o.pc = "unlink_count" /\ o.puts = <<>> /\ o.freeing = 0
    BY AtCall DEF unlink_count
  <1>2. i \in Inum /\ o.cur = 0 /\ o.dp = 0
    BY <1>1, CallHas DEF CallOK, Creating
  <1>3. icache[i].busy = p /\ icache[i].valid
    BY <1>1 DEF Body, LocksOK
  <1>4. /\ icache[i].type = disk[i].type /\ disk[i].type # "free"
        /\ icache[i].nlink = disk[i].nlink /\ icache[i].ref > 0
    BY <1>1, <1>2, <1>3, OwnLocked
  <1>5. icache \in [Inum -> CacheEntry] /\ disk \in DiskType
    BY DEF Body, Typed, RestTyped
  <1>6. disk' = [disk EXCEPT ![i].nlink = n] /\ icache' = J /\ n \in Int
    BY <1>2, <1>5 DEF unlink_count, CacheEntry
  <1> HIDE DEF n
  <1>7. /\ disk' \in DiskType /\ disk'[i].nlink = n /\ disk'[i].type = disk[i].type
        /\ \A j \in Inum \ {i} : disk'[j] = disk[j]
    BY <1>2, <1>5, <1>6 DEF DiskType
  <1>8. J \in [Inum -> CacheEntry]
    BY <1>2, <1>5, <1>6 DEF CacheEntry
  <1>9. /\ J[i].ref = icache[i].ref /\ J[i].busy = NoProc /\ J[i].valid = icache[i].valid
        /\ J[i].type = icache[i].type /\ J[i].nlink = n
        /\ \A j \in Inum \ {i} : J[j] = icache[j]
    BY <1>2, <1>5 DEF CacheEntry
  <1>10. \A j \in Inum : Is(o.cur, j) + Is(o.ip, j) + Is(o.dp, j) = Is(i, j)
    BY <1>2, IsNat
  <1>11. Takes(p, t, 0) /\ t.pc = "end" /\ t.freeing = 0
    BY <1>1, <1>2, <1>10, Fails DEF unlink_count
  <1>12. /\ committed'.disk \in DiskType /\ UNCHANGED files
         /\ leaked \cup lost \subseteq leaked' \cup lost'
    BY DEF Body, Typed, RestTyped, history, marks, unlink_count
  <1>13. LocksOK(p)' /\ Alone(p)
    BY <1>11, <1>12, TakesAlone, NoLocks
  <1> HIDE DEF J, t
  <1>14. Written(J, i, p)
    BY <1>3, <1>4, <1>7, <1>9 DEF Written
  <1>15. Touched(p, J)
    BY <1>7, <1>9, <1>14 DEF Touched
  <1>16. Entries(p, J)
    BY <1>1, <1>13, <1>15, TouchedEntries
  <1>17. icache' = Got(J, 0) /\ 0 \in 0 .. NINODES
    BY <1>6, GotNone, FileSystemAssumption
  <1> QED
    BY <1>1, <1>7, <1>8, <1>11, <1>12, <1>13, <1>16, <1>17, CallStep

\* sys_unlink erases the entry or gives up.
LEMMA UnlinkIpStep ==
  ASSUME Body, NEW p \in Proc, unlink_ip(p), panicked' = "none"
  PROVE  Body'
  <1> DEFINE o == th[p]
             i == o.ip
             d == o.dp
             dlinks == IF Visit(i)[i].type = "dir" THEN icache[d].nlink - 1 ELSE icache[d].nlink
  <1>1. o \in Thread /\ CallOK(o) /\ o.pc = "unlink_ip" /\ o.puts = <<>> /\ o.freeing = 0 /\ Lockable(i)
    BY AtCall DEF unlink_ip
  <1>2. i \in Inum /\ d \in Inum /\ o.cur = 0 /\ i # 0 /\ d # 0 /\ o.op # "exit"
    BY <1>1, CallHas DEF CallOK, Creating
  <1>3. icache[d].busy = p /\ icache[d].valid /\ i # d
    BY <1>1, FileSystemAssumption DEF Body, LocksOK, Lockable
  <1>4. /\ icache[d].type = disk[d].type /\ disk[d].type # "free"
        /\ icache[d].nlink = disk[d].nlink /\ icache[d].ref > 0
    BY <1>1, <1>2, <1>3, OwnLocked
  <1>5. icache \in [Inum -> CacheEntry] /\ disk \in DiskType /\ dlinks \in Int
    BY <1>2 DEF Body, Typed, RestTyped, CacheEntry
  <1>6. icache[i].ref > 0
    BY <1>2, InCache
  <1>7. Ready(i)
    <2>1. icache[i].valid \/ disk[i].type # "free"
      <3>1. Visit(i)[i].type # "free"
        BY DEF unlink_ip
      <3> QED
        BY <1>2, <1>5, <3>1 DEF Visit, Ilock
    <2> QED
      BY <1>1, <1>2, <1>6, <2>1 DEF Ready
  <1>8. ASSUME NEW b \in {p, NoProc}
        PROVE  /\ Ilock(i, b) \in [Inum -> CacheEntry] /\ disk[i].type # "free"
               /\ \A j \in Inum : Ilock(i, b)[j] = IF j = i THEN Fresh(i, b) ELSE icache[j]
    <2>1. After(i, b) = Ilock(i, b)
      BY <1>2, AfterSome
    <2> HIDE DEF i
    <2> QED
      BY <1>2, <1>7, <2>1, AfterIs
  <1>9. /\ committed'.disk \in DiskType /\ UNCHANGED files
        /\ leaked \cup lost \subseteq leaked' \cup lost'
    BY DEF Body, Typed, RestTyped, history, marks, unlink_ip
  <1> HIDE DEF dlinks
  <1>10. ASSUME NEW b \in {p, NoProc}, NEW J \in [Inum -> CacheEntry], icache' = J, NEW t, Takes(p, t, 0),
                J[i] = Fresh(i, b), \A j \in Inum \ {i, d} : J[j] = icache[j],
                J[d].ref = icache[d].ref, J[d].busy = NoProc, J[d].valid, J[d].type = icache[d].type,
                J[d].nlink = disk'[d].nlink, disk'[d].type = disk[d].type,
                disk' \in DiskType, \A j \in Inum \ {d} : disk'[j] = disk[j], LocksOK(p)'
         PROVE  Body'
    <2>1. Alone(p)
      BY <1>9, <1>10, TakesAlone
    <2>2. Written(J, i, p)
      BY <1>1, <1>2, <1>3, <1>6, <1>8, <1>10 DEF Written, Fresh, Lockable
    <2>3. Written(J, d, p)
      BY <1>3, <1>4, <1>10 DEF Written
    <2>4. \A j \in Inum \ {i, d} : J[j] = icache[j] /\ disk'[j] = disk[j]
      BY <1>10
    <2>5. Touched(p, J)
      BY <2>2, <2>3, <2>4 DEF Touched
    <2>6. Entries(p, J)
      BY <1>1, <2>1, <2>5, TouchedEntries
    <2>7. icache' = Got(J, 0) /\ 0 \in 0 .. NINODES
      BY <1>10, GotNone, FileSystemAssumption
    <2> QED
      BY <1>1, <1>9, <1>10, <2>6, <2>7, CallStep
  <1>11. CASE icache' = [Visit(i) EXCEPT ![d].busy = NoProc] /\ Finish(p, <<i, d>>) /\ UNCHANGED disk
    <2> DEFINE J == [Visit(i) EXCEPT ![d].busy = NoProc]
               t == Finishing(p, <<i, d>>)
    <2>1. <<i, d>> \in Seq(Inum) /\ Len(<<i, d>>) <= 2
      BY <1>2
    <2>2. /\ t \in Thread /\ CallOK(t) /\ t.pc = "end" /\ t.freeing = 0
          /\ t.cur = 0 /\ t.ip = 0 /\ t.dp = 0 /\ t.puts = <<i, d>> /\ (Gone(t) <=> Gone(th[p]))
      BY <1>1, <2>1, FinishingIs
    <2>3. th' = [th EXCEPT ![p] = t]
      BY <1>11 DEF Finish, Goto, Finishing
    <2> HIDE DEF t
    <2>4. ASSUME NEW j \in Inum PROVE Holds(t, j) = Holds(o, j) + Is(0, j)
      <3>1. Holds(t, j) = Is(0, j) + Is(0, j) + Is(0, j) + Is(i, j) + Is(d, j)
        BY <2>2, HoldsIs
      <3>2. Holds(o, j) = Is(0, j) + Is(i, j) + Is(d, j)
        BY <1>1, <1>2, HoldsIs
      <3> QED
        BY <3>1, <3>2, IsNat
    <2>5. Takes(p, t, 0)
      BY <2>2, <2>3, <2>4 DEF Takes
    <2>6. LocksOK(p)'
      BY <1>9, <2>2, <2>5, TakesAlone, NoLocks
    <2>7. /\ Visit(i) \in [Inum -> CacheEntry]
          /\ \A j \in Inum : Visit(i)[j] = IF j = i THEN Fresh(i, NoProc) ELSE icache[j]
      BY <1>8 DEF Visit
    <2>8. J \in [Inum -> CacheEntry]
      BY <1>2, <2>7 DEF CacheEntry
    <2>9. J[i] = Fresh(i, NoProc) /\ \A j \in Inum \ {i, d} : J[j] = icache[j]
      BY <1>2, <1>3, <2>7
    <2>10. /\ J[d].ref = icache[d].ref /\ J[d].busy = NoProc /\ J[d].valid = icache[d].valid
           /\ J[d].type = icache[d].type /\ J[d].nlink = icache[d].nlink
      <3>1. Visit(i)[d] = icache[d] /\ icache[d] \in CacheEntry
        BY <1>2, <1>3, <1>8, <2>7
      <3>2. J[d] = [icache[d] EXCEPT !.busy = NoProc]
        BY <1>2, <2>7, <3>1
      <3> HIDE DEF J, d
      <3> QED
        BY <3>1, <3>2 DEF CacheEntry
    <2>11. J[d].nlink = disk'[d].nlink /\ J[d].valid /\ disk' = disk
      BY <1>3, <1>4, <1>11, <2>10
    <2>12. icache' = J
      BY <1>11
    <2> HIDE DEF J
    <2> QED
      BY <1>5, <1>10, <2>5, <2>6, <2>8, <2>9, <2>10, <2>11, <2>12
  <1>12. CASE /\ disk' = [disk EXCEPT ![d].ents[o.name] = 0, ![d].nlink = dlinks]
              /\ icache' = [Ilock(i, p) EXCEPT ![d].busy = NoProc, ![d].nlink = dlinks]
              /\ Goto(p, [o EXCEPT !.pc = "unlink_count", !.dp = 0, !.puts = <<d>>])
    <2> DEFINE J == [Ilock(i, p) EXCEPT ![d].busy = NoProc, ![d].nlink = dlinks]
               t == [o EXCEPT !.pc = "unlink_count", !.dp = 0, !.puts = <<d>>]
    <2>1. <<d>> \in Seq(Inum) /\ Len(<<d>>) = 1 /\ 0 \in 0 .. NINODES
      BY <1>2, FileSystemAssumption
    <2>2. /\ t \in Thread /\ t.pc = "unlink_count" /\ t.op = o.op /\ t.cur = 0 /\ t.ip = i /\ t.dp = 0
          /\ t.puts = <<d>> /\ t.freeing = 0
      BY <1>1, <1>2, <2>1 DEF Thread, Pcs
    <2>3. th' = [th EXCEPT ![p] = t]
      BY <1>12 DEF Goto
    <2> HIDE DEF t
    <2>4. ASSUME NEW j \in Inum PROVE Holds(t, j) = Holds(o, j) + Is(0, j)
      <3>1. Holds(t, j) = Is(0, j) + Is(i, j) + Is(0, j) + Is(d, j)
        BY <2>2, HoldsIs
      <3>2. Holds(o, j) = Is(0, j) + Is(i, j) + Is(d, j)
        BY <1>1, <1>2, HoldsIs
      <3> QED
        BY <3>1, <3>2, IsNat
    <2>5. t.puts[1] = d
      BY <2>2
    <2>6. CallOK(t)
      BY <1>2, <1>3, <2>1, <2>2, <2>5 DEF CallOK, Creating, PathOps
    <2>7. Gone(t) <=> Gone(o)
      BY <1>1, <1>2, <2>2 DEF Gone
    <2>8. Takes(p, t, 0)
      BY <2>2, <2>3, <2>4, <2>6, <2>7 DEF Takes
    <2>9. /\ Ilock(i, p) \in [Inum -> CacheEntry]
          /\ \A j \in Inum : Ilock(i, p)[j] = IF j = i THEN Fresh(i, p) ELSE icache[j]
      BY <1>8
    <2>10. J \in [Inum -> CacheEntry]
      BY <1>2, <1>5, <2>9 DEF CacheEntry
    <2>11. J[i] = Fresh(i, p) /\ \A j \in Inum \ {i, d} : J[j] = icache[j]
      BY <1>2, <1>3, <2>9
    <2>12. /\ J[d].ref = icache[d].ref /\ J[d].busy = NoProc /\ J[d].valid = icache[d].valid
           /\ J[d].type = icache[d].type /\ J[d].nlink = dlinks
      <3>1. Ilock(i, p)[d] = icache[d] /\ icache[d] \in CacheEntry
        BY <1>2, <1>3, <1>8, <2>9
      <3>2. J[d] = [icache[d] EXCEPT !.busy = NoProc, !.nlink = dlinks]
        BY <1>2, <2>9, <3>1
      <3> HIDE DEF J, d
      <3> QED
        BY <3>1, <3>2 DEF CacheEntry
    <2>13. /\ disk' \in DiskType /\ disk'[d].type = disk[d].type /\ disk'[d].nlink = dlinks
           /\ \A j \in Inum \ {d} : disk'[j] = disk[j]
      <3>1. o.name \in Name
        BY <1>1, Fields
      <3> DEFINE e == [disk[d].ents EXCEPT ![o.name] = 0]
      <3>2. e \in [Name -> 0 .. NINODES]
        BY <1>2, <1>5, <2>1, <3>1 DEF DiskType
      <3>3. disk' = [disk EXCEPT ![d].ents = e, ![d].nlink = dlinks]
        BY <1>2, <1>5, <1>12 DEF DiskType
      <3> HIDE DEF e
      <3> QED
        BY <1>2, <1>5, <3>2, <3>3 DEF DiskType
    <2>14. icache' = J
      BY <1>12
    <2>15. th'[p] = t
      BY <1>9, <2>8, TakesAlone
    <2> HIDE DEF J
    <2>16. LocksOK(p)'
      BY <2>2, <2>11, <2>14, <2>15 DEF LocksOK, Fresh
    <2>17. J[d].nlink = disk'[d].nlink /\ J[d].valid
      BY <1>3, <2>12, <2>13
    <2> QED
      BY <1>10, <2>8, <2>10, <2>11, <2>12, <2>13, <2>14, <2>16, <2>17
  <1> QED
    BY <1>11, <1>12 DEF unlink_ip, dlinks

\* create allocates an inode, which is coming from now on.
LEMMA IallocStep ==
  ASSUME Body, NEW p \in Proc, create_ialloc(p), panicked' = "none"
  PROVE  Body'
  <1> DEFINE o == th[p]
             d == o.dp
             new == Min(FreeInums)
             J == Ilock(d, p)
             t == [o EXCEPT !.pc = "create_new", !.ip = new]
  <1>1. /\ o \in Thread /\ CallOK(o) /\ o.pc \in Creating /\ o.pc = o.op /\ o.puts = <<>> /\ o.freeing = 0
        /\ Lockable(d)
    BY AtCall DEF create_ialloc, Creating
  <1>2. d \in Inum /\ o.cur = 0 /\ o.ip = 0 /\ d # 0
    BY <1>1, CallHas DEF CallOK, Creating
  <1>3. icache[d].ref > 0
    BY <1>2, InCache
  <1>4. /\ FreeInums # {} /\ disk' = [disk EXCEPT ![new] = [FreeInode EXCEPT !.type = TypeOf(o.op)]]
        /\ icache' = Iget(J, new) /\ th' = [th EXCEPT ![p] = t] /\ LookedUp(d)
    BY DEF create_ialloc, Goto
  <1>5. Ready(d)
    BY <1>1, <1>2, <1>3, <1>4, CheckedReady
  <1>6. /\ J \in [Inum -> CacheEntry] /\ disk[d].type # "free"
        /\ \A j \in Inum : J[j] = IF j = d THEN Fresh(d, p) ELSE icache[j]
    <2>1. After(d, p) = J
      BY <1>2, AfterSome
    <2> HIDE DEF d, J
    <2> QED
      BY <1>2, <1>5, <2>1, AfterIs
  <1>7. new \in FreeInums
    <2>1. FreeInums \subseteq Nat
      BY FileSystemAssumption DEF FreeInums, Inum
    <2> QED
      BY <1>4, <2>1, MinOf
  <1>8. new \in Inum /\ disk[new].type = "free" /\ new # d /\ new # 0
    BY <1>6, <1>7, FileSystemAssumption DEF FreeInums, Inum
  <1> HIDE DEF new
  <1>9. icache' = Got(J, new) /\ new \in 0 .. NINODES
    BY <1>4, <1>8, GotSome
  <1>10. /\ disk' \in DiskType /\ disk'[new].nlink = 0 /\ \A j \in Inum \ {new} : disk'[j] = disk[j]
    <2> DEFINE e == [FreeInode EXCEPT !.type = TypeOf(o.op)]
    <2>1. NoEntries \in [Name -> 0 .. NINODES]
      BY FileSystemAssumption DEF NoEntries
    <2>2. e \in [type : InodeType, nlink : Int, ents : [Name -> 0 .. NINODES]] /\ e.nlink = 0
      BY <2>1 DEF FreeInode, TypeOf, InodeType
    <2>3. disk \in DiskType /\ disk' = [disk EXCEPT ![new] = e]
      BY <1>4 DEF Body, Typed, RestTyped
    <2> HIDE DEF e
    <2> QED
      BY <1>8, <2>2, <2>3 DEF DiskType
  <1>11. /\ t \in Thread /\ t.pc = "create_new" /\ t.op = o.op /\ t.cur = 0 /\ t.ip = new /\ t.dp = d
         /\ t.puts = <<>> /\ t.freeing = 0
    BY <1>1, <1>2, <1>9 DEF Thread, Pcs
  <1>12. th' = [th EXCEPT ![p] = t]
    BY <1>4
  <1> HIDE DEF t
  <1>13. Len(t.puts) = 0
    BY <1>11
  <1>14. CallOK(t)
    BY <1>1, <1>2, <1>8, <1>11, <1>13 DEF CallOK, Creating, PathOps
  <1>15. Gone(t) <=> Gone(o)
    BY <1>1, <1>11 DEF Gone, Creating
  <1>16. ASSUME NEW j \in Inum PROVE Holds(t, j) = Holds(o, j) + Is(new, j)
    <2>1. Holds(t, j) = Is(0, j) + Is(new, j) + Is(d, j)
      BY <1>11, HoldsIs
    <2>2. Holds(o, j) = Is(0, j) + Is(0, j) + Is(d, j)
      BY <1>1, <1>2, HoldsIs
    <2> QED
      BY <2>1, <2>2, IsNat
  <1>17. Takes(p, t, new)
    BY <1>11, <1>12, <1>14, <1>15, <1>16 DEF Takes
  <1>18. /\ committed'.disk \in DiskType /\ UNCHANGED files
         /\ leaked \cup lost \subseteq leaked' \cup lost'
    BY DEF Body, Typed, RestTyped, history, marks, create_ialloc
  <1>19. Alone(p) /\ th'[p] = t
    BY <1>17, <1>18, TakesAlone
  <1>20. Entries(p, J)
    <2> SUFFICES ASSUME NEW j \in Inum
                 PROVE  Kept(J, j) \/ Written(J, j, p) \/ Allocated(J, j)
      BY DEF Entries
    <2>1. CASE j = d
      BY <1>1, <1>2, <1>3, <1>6, <1>8, <1>10, <2>1 DEF Written, Lockable, Fresh
    <2>2. CASE j = new
      BY <1>6, <1>8, <1>10, <1>11, <1>19, <2>2 DEF Allocated, Coming
    <2>3. CASE j \notin {d, new}
      <3>1. o.pc # "create_new"
        BY <1>1 DEF Creating
      <3>2. Coming(th, j) => Coming(th', j)
        BY <1>19, <3>1, ComingKept
      <3> QED
        BY <1>6, <1>10, <2>3, <3>2 DEF Kept
    <2> QED
      BY <2>1, <2>2, <2>3
  <1>21. icache'[d].busy = p /\ icache'[d].valid
    <2>1. J[d].ref # 0 /\ J[d].busy = p /\ J[d].valid
      BY <1>2, <1>3, <1>6 DEF Fresh
    <2> HIDE DEF J
    <2>2. Got(J, new)[d].busy = J[d].busy /\ Got(J, new)[d].valid = J[d].valid
      BY <1>2, <1>6, <1>9, <2>1, GotKeeps
    <2> QED
      BY <1>9, <2>1, <2>2
  <1>22. LocksOK(p)'
    BY <1>11, <1>19, <1>21 DEF LocksOK
  <1> HIDE DEF J
  <1> QED
    BY <1>1, <1>6, <1>9, <1>10, <1>17, <1>18, <1>20, <1>22, CallStep

\* create links the new inode.
LEMMA CreateStep ==
  ASSUME Body, NEW p \in Proc, create_new(p), panicked' = "none"
  PROVE  Body'
  <1> DEFINE o == th[p]
             i == o.ip
             d == o.dp
             dlinks == icache[d].nlink + DotDotLinks(o.op)
             J == [Ilock(i, p) EXCEPT ![i].nlink = 1, ![d].nlink = dlinks, ![d].busy = NoProc]
             t == [o EXCEPT !.pc = "created", !.dp = 0, !.puts = <<d>>]
  <1>1. o \in Thread /\ CallOK(o) /\ o.pc = "create_new" /\ o.puts = <<>> /\ o.freeing = 0 /\ Lockable(i)
    BY AtCall DEF create_new
  <1>2. i \in Inum /\ d \in Inum /\ o.cur = 0 /\ i # 0 /\ d # 0 /\ i # d /\ o.op \in Creating
    BY <1>1, CallHas DEF CallOK, Creating
  <1>3. icache[d].busy = p /\ icache[d].valid
    BY <1>1 DEF Body, LocksOK
  <1>4. /\ icache[d].type = disk[d].type /\ disk[d].type # "free"
        /\ icache[d].nlink = disk[d].nlink /\ icache[d].ref > 0
    BY <1>1, <1>2, <1>3, OwnLocked
  <1>5. icache \in [Inum -> CacheEntry] /\ disk \in DiskType /\ dlinks \in Int
    BY <1>2 DEF Body, Typed, RestTyped, CacheEntry, DotDotLinks
  <1>6. icache[i].ref > 0
    BY <1>2, InCache
  <1>7. Ready(i)
    <2>1. Checked(i)
      BY DEF create_new
    <2> QED
      BY <1>1, <1>2, <1>6, <2>1, CheckedReady
  <1>8. /\ Ilock(i, p) \in [Inum -> CacheEntry] /\ disk[i].type # "free"
        /\ \A j \in Inum : Ilock(i, p)[j] = IF j = i THEN Fresh(i, p) ELSE icache[j]
    <2>1. After(i, p) = Ilock(i, p)
      BY <1>2, AfterSome
    <2> HIDE DEF i
    <2> QED
      BY <1>2, <1>7, <2>1, AfterIs
  <1>9. Visit(i)[i].type = disk[i].type /\ disk[i].type \in InodeType
    BY <1>2, <1>7, VisitedLinks
  <1> HIDE DEF dlinks
  <1>10. /\ disk' \in DiskType /\ \A j \in Inum \ {i, d} : disk'[j] = disk[j]
         /\ disk'[i].type = disk[i].type /\ disk'[i].nlink = 1
         /\ disk'[d].type = disk[d].type /\ disk'[d].nlink = dlinks
    <2>1. o.name \in Name /\ i \in 0 .. NINODES /\ d \in 0 .. NINODES /\ {".", ".."} \subseteq Name
      BY <1>1, Fields, FileSystemAssumption
    <2> DEFINE e == IF o.op = "mkdir" THEN dirlink(dirlink(disk[i].ents, ".", i), "..", d) ELSE disk[i].ents
               g == dirlink(disk[d].ents, o.name, i)
               r == [type |-> disk[i].type, nlink |-> 1, ents |-> e]
    <2>2. e \in [Name -> 0 .. NINODES] /\ g \in [Name -> 0 .. NINODES]
      BY <1>2, <1>5, <2>1 DEF dirlink, DiskType
    <2>3. disk' = [disk EXCEPT ![i] = r, ![d].nlink = dlinks, ![d].ents = g]
      BY <1>2, <1>5, <1>9 DEF create_new, DiskType, dlinks
    <2>4. r \in [type : InodeType, nlink : Int, ents : [Name -> 0 .. NINODES]] /\ r.type = disk[i].type /\ r.nlink = 1
      <3> HIDE DEF e
      <3> QED
        BY <1>9, <2>2
    <2> HIDE DEF g, r
    <2> QED
      BY <1>2, <1>5, <2>2, <2>3, <2>4 DEF DiskType
  <1>11. J \in [Inum -> CacheEntry]
    <2> DEFINE K == [Ilock(i, p) EXCEPT ![i].nlink = 1]
    <2>1. K \in [Inum -> CacheEntry]
      BY <1>2, <1>8 DEF CacheEntry
    <2>2. J = [K EXCEPT ![d].nlink = dlinks, ![d].busy = NoProc]
      OBVIOUS
    <2> HIDE DEF K, J
    <2> QED
      BY <1>2, <1>5, <2>1, <2>2 DEF CacheEntry
  <1>12. /\ J[i].ref = icache[i].ref /\ J[i].busy = p /\ J[i].valid /\ J[i].type = disk[i].type
         /\ J[i].nlink = 1
    BY <1>2, <1>8 DEF Fresh
  <1>13. /\ J[d].ref = icache[d].ref /\ J[d].busy = NoProc /\ J[d].valid = icache[d].valid
         /\ J[d].type = icache[d].type /\ J[d].nlink = dlinks
    BY <1>2, <1>5, <1>8 DEF CacheEntry
  <1>14. \A j \in Inum \ {i, d} : J[j] = icache[j]
    BY <1>2, <1>8
  <1>15. icache' = J /\ th' = [th EXCEPT ![p] = t]
    BY DEF create_new, Goto, dlinks
  <1> HIDE DEF J
  <1>16. <<d>> \in Seq(Inum) /\ Len(<<d>>) = 1 /\ 0 \in 0 .. NINODES
    BY <1>2, FileSystemAssumption
  <1>17. /\ t \in Thread /\ t.pc = "created" /\ t.op = o.op /\ t.cur = 0 /\ t.ip = i /\ t.dp = 0
         /\ t.puts = <<d>> /\ t.freeing = 0
    BY <1>1, <1>2, <1>16 DEF Thread, Pcs
  <1> HIDE DEF t
  <1>18. ASSUME NEW j \in Inum PROVE Holds(t, j) = Holds(o, j) + Is(0, j)
    <2>1. Holds(t, j) = Is(0, j) + Is(i, j) + Is(0, j) + Is(d, j)
      BY <1>17, HoldsIs
    <2>2. Holds(o, j) = Is(0, j) + Is(i, j) + Is(d, j)
      BY <1>1, <1>2, HoldsIs
    <2> QED
      BY <2>1, <2>2, IsNat
  <1>19. t.puts[1] = d
    BY <1>17
  <1>20. CallOK(t)
    BY <1>2, <1>16, <1>17, <1>19 DEF CallOK, Creating, PathOps
  <1>21. Gone(t) <=> Gone(o)
    BY <1>1, <1>2, <1>17 DEF Gone
  <1>22. Takes(p, t, 0)
    BY <1>15, <1>17, <1>18, <1>20, <1>21 DEF Takes
  <1>23. committed'.disk \in DiskType /\ UNCHANGED files
    BY DEF Body, Typed, RestTyped, create_new
  <1>24. \A j \in Inum : j \in leaked \cup lost => icache'[j].valid \/ j \in leaked' \cup lost'
    <2>1. leaked' = leaked /\ (lost' = lost \cup {i, d} \/ lost' = lost \ {i}) /\ icache'[i].valid
      BY <1>12, <1>15 DEF create_new
    <2> QED
      BY <2>1
  <1>25. Alone(p) /\ th'[p] = t
    BY <1>22, <1>23, TakesAlone
  <1>26. Entries(p, J)
    <2> SUFFICES ASSUME NEW j \in Inum
                 PROVE  Kept(J, j) \/ Written(J, j, p)
      BY DEF Entries
    <2>1. CASE j = d
      BY <1>3, <1>4, <1>10, <1>13, <2>1 DEF Written
    <2>2. CASE j = i
      BY <1>1, <1>6, <1>8, <1>10, <1>12, <2>2 DEF Written, Lockable
    <2>3. CASE j \notin {d, i}
      <3>1. Coming(th, j) => Coming(th', j)
        BY <1>25, <2>3 DEF Coming, Alone
      <3> QED
        BY <1>10, <1>14, <2>3, <3>1 DEF Kept
    <2> QED
      BY <2>1, <2>2, <2>3
  <1>27. LocksOK(p)'
    BY <1>12, <1>15, <1>17, <1>25 DEF LocksOK
  <1>28. icache' = Got(J, 0)
    BY <1>15, GotNone
  <1> QED
    BY <1>1, <1>10, <1>11, <1>16, <1>22, <1>23, <1>24, <1>26, <1>27, <1>28, CallStep

-----------------------------------------------------------------------------
(***************************************************************************)
(* Open files and descriptors.                                             *)
(***************************************************************************)

\* The descriptors o that are open on file f.
Descr(o, f) == {x \in Proc \X (1 .. NOFILE) : o[x[1]][x[2]] = f}

\* Files, descriptors and processes are finitely many.
LEMMA FilesFinite ==
  /\ IsFiniteSet(1 .. NFILE) /\ IsFiniteSet(1 .. NOFILE)
  /\ IsFiniteSet(Proc) /\ IsFiniteSet(Proc \X (1 .. NOFILE))
  <1>1. IsFiniteSet(1 .. NFILE) /\ IsFiniteSet(1 .. NOFILE) /\ IsFiniteSet(Proc)
    BY FileSystemAssumption, FS_Interval
  <1> QED
    BY <1>1, FS_Product

\* The files on inode i when file f changes.
LEMMA OneFile ==
  ASSUME NEW f \in 1 .. NFILE, \A g \in (1 .. NFILE) \ {f} : ftable'[g].ip = ftable[g].ip, NEW i
  PROVE  /\ Files(i)' = Files(i) - Is(ftable[f].ip, i) + Is(ftable'[f].ip, i)
         /\ Files(i) \in Nat /\ Files(i)' \in Nat
  <1> DEFINE K == 1 .. NFILE
             S == {g \in K : ftable[g].ip = i}
             T == {g \in K : ftable'[g].ip = i}
  <1>1. S \subseteq K /\ T \subseteq K /\ \A x \in K \ {f} : x \in S <=> x \in T
    OBVIOUS
  <1>0. IsFiniteSet(K) /\ f \in K
    BY FilesFinite
  <1>2. (f \in S <=> ftable[f].ip = i) /\ (f \in T <=> ftable'[f].ip = i)
    OBVIOUS
  <1>3. Files(i) = Cardinality(S) /\ Files(i)' = Cardinality(T)
    BY DEF Files
  <1> HIDE DEF K, S, T
  <1>4. /\ Cardinality(S) \in Nat /\ Cardinality(T) \in Nat
        /\ Cardinality(T) = Cardinality(S) - (IF f \in S THEN 1 ELSE 0) + (IF f \in T THEN 1 ELSE 0)
    BY <1>0, <1>1, OneElement
  <1> QED
    BY <1>2, <1>3, <1>4 DEF Is

\* The descriptors of file f when descriptor fd of p becomes g.
LEMMA OneDescriptor ==
  ASSUME NEW p \in Proc, NEW fd \in 1 .. NOFILE, NEW g, NEW f,
         \A q \in Proc, e \in 1 .. NOFILE : ofile'[q][e] = IF q = p /\ e = fd THEN g ELSE ofile[q][e]
  PROVE  /\ Cardinality(Descr(ofile', f)) = Cardinality(Descr(ofile, f)) - Is(ofile[p][fd], f) + Is(g, f)
         /\ Cardinality(Descr(ofile, f)) \in Nat
  <1> DEFINE K == Proc \X (1 .. NOFILE)
             S == Descr(ofile, f)
             T == Descr(ofile', f)
             k == <<p, fd>>
  <1>2. S \subseteq K /\ T \subseteq K /\ k \in K
    BY DEF Descr
  <1>3. \A x \in K \ {k} : x \in S <=> x \in T
    BY DEF Descr
  <1>4. (k \in S <=> ofile[p][fd] = f) /\ (k \in T <=> g = f)
    BY DEF Descr
  <1>6. IsFiniteSet(K)
    BY FilesFinite
  <1> HIDE DEF K, S, T, k
  <1>7. /\ Cardinality(S) \in Nat /\ Cardinality(T) \in Nat
        /\ Cardinality(T) = Cardinality(S) - (IF k \in S THEN 1 ELSE 0) + (IF k \in T THEN 1 ELSE 0)
    BY <1>2, <1>3, <1>6, OneElement
  <1>8. Cardinality(T) = Cardinality(S) - Is(ofile[p][fd], f) + Is(g, f)
    BY <1>4, <1>7 DEF Is
  <1> QED
    BY <1>7, <1>8 DEF S, T

\* FileRefs in terms of Descr.
LEMMA RefsAre ==
  /\ FileRefs <=> \A f \in 1 .. NFILE : ftable[f].ref = Cardinality(Descr(ofile, f))
  /\ FileRefs' <=> \A f \in 1 .. NFILE : ftable'[f].ref = Cardinality(Descr(ofile', f))
  BY DEF FileRefs, Descr

\* A descriptor is for a file that is open on an inode.
LEMMA OpenFd ==
  ASSUME Body, FileRefs, NEW p \in Proc, NEW fd \in 1 .. NOFILE, ofile[p][fd] # 0
  PROVE  LET f == ofile[p][fd] IN
         /\ f \in 1 .. NFILE /\ ftable[f].ref \in Nat /\ ftable[f].ref > 0
         /\ ftable[f].ip \in Inum /\ icache[ftable[f].ip].ref > 0
  <1> DEFINE f == ofile[p][fd]
  <1>1. /\ ofile \in [Proc -> [1 .. NOFILE -> 0 .. NFILE]]
        /\ ftable \in [1 .. NFILE -> [ref : Nat, ip : 0 .. NINODES]] /\ FilesOK
    BY DEF Body, Typed, RestTyped
  <1>2. f \in 1 .. NFILE
    BY <1>1, FileSystemAssumption
  <1>3. ftable[f].ref = Cardinality(Descr(ofile, f)) /\ ftable[f].ref \in Nat /\ ftable[f].ip \in 0 .. NINODES
    BY <1>1, <1>2, RefsAre
  <1>4. Cardinality(Descr(ofile, f)) # 0
    <2>1. <<p, fd>> \in Descr(ofile, f)
      BY DEF Descr
    <2>2. IsFiniteSet(Descr(ofile, f))
      BY FilesFinite, FS_Subset DEF Descr
    <2> QED
      BY <2>1, <2>2, FS_EmptySet
  <1>5. ftable[f].ip # 0
    BY <1>2, <1>3, <1>4 DEF FilesOK, Body
  <1>6. ftable[f].ip \in Inum
    BY <1>3, <1>5, FileSystemAssumption DEF Inum
  <1>7. icache[ftable[f].ip].ref > 0
    BY <1>2, <1>6, FileInCache
  <1> QED
    BY <1>2, <1>3, <1>4, <1>6, <1>7

\* filealloc and fdalloc find a free file and a free descriptor.
LEMMA FreeOnes ==
  ASSUME NEW p
  PROVE  /\ FreeFile # {} => Min(FreeFile) \in 1 .. NFILE /\ ftable[Min(FreeFile)].ref = 0
         /\ FreeFd(p) # {} => Min(FreeFd(p)) \in 1 .. NOFILE /\ ofile[p][Min(FreeFd(p))] = 0
  <1>1. FreeFile \subseteq Nat /\ FreeFd(p) \subseteq Nat
    BY FileSystemAssumption DEF FreeFile, FreeFd
  <1>2. FreeFile # {} => Min(FreeFile) \in FreeFile
    BY <1>1, MinOf
  <1>3. FreeFd(p) # {} => Min(FreeFd(p)) \in FreeFd(p)
    BY <1>1, MinOf
  <1> QED
    BY <1>2, <1>3 DEF FreeFile, FreeFd

\* filealloc and fdalloc.
LEMMA OpenRefs ==
  ASSUME Body, FileRefs, NEW p \in Proc, NEW i, OpenFile(p, i)
  PROVE  FileRefs'
  <1>1. CASE ~(FreeFile # {} /\ FreeFd(p) # {})
    BY <1>1, RefsAre DEF OpenFile, files
  <1>2. CASE FreeFile # {} /\ FreeFd(p) # {}
    <2> DEFINE f == Min(FreeFile)
               fd == Min(FreeFd(p))
    <2>1. f \in 1 .. NFILE /\ ftable[f].ref = 0 /\ fd \in 1 .. NOFILE /\ ofile[p][fd] = 0
      BY <1>2, FreeOnes
    <2>2. ftable' = [ftable EXCEPT ![f] = [ref |-> 1, ip |-> i]] /\ ofile' = [ofile EXCEPT ![p][fd] = f]
      BY <1>2 DEF OpenFile
    <2> HIDE DEF f, fd
    <2>3. /\ ofile \in [Proc -> [1 .. NOFILE -> 0 .. NFILE]] /\ f \in 0 .. NFILE
          /\ ftable \in [1 .. NFILE -> [ref : Nat, ip : 0 .. NINODES]]
      BY <2>1 DEF Body, Typed, RestTyped
    <2> SUFFICES ASSUME NEW g \in 1 .. NFILE PROVE ftable'[g].ref = Cardinality(Descr(ofile', g))
      BY RefsAre
    <2>4. Cardinality(Descr(ofile', g)) = Cardinality(Descr(ofile, g)) - Is(ofile[p][fd], g) + Is(f, g)
      <3>1. \A q \in Proc, e \in 1 .. NOFILE : ofile'[q][e] = IF q = p /\ e = fd THEN f ELSE ofile[q][e]
        BY <2>1, <2>2, <2>3
      <3> QED
        BY <2>1, <3>1, OneDescriptor
    <2>5. ftable[g].ref = Cardinality(Descr(ofile, g)) /\ ftable[g].ref \in Nat
      BY <2>3, RefsAre
    <2>6. Is(ofile[p][fd], g) = 0
      BY <2>1, FileSystemAssumption DEF Is
    <2>7. ftable'[g].ref = IF g = f THEN 1 ELSE ftable[g].ref
      BY <2>1, <2>2, <2>3
    <2> QED
      BY <2>1, <2>4, <2>5, <2>6, <2>7 DEF Is
  <1> QED
    BY <1>1, <1>2

\* Only p moves.
LEMMA OpenAlone ==
  ASSUME Body, NEW p \in Proc, NEW i, OpenFile(p, i)
  PROVE  Alone(p) /\ \E s : th' = [th EXCEPT ![p] = Finishing(p, s)]
  <1>1. th \in [Proc -> Thread] /\ ofile \in [Proc -> [1 .. NOFILE -> 0 .. NFILE]]
    BY DEF Body, Typed, RestTyped
  <1>2. PICK s : th' = [th EXCEPT ![p] = Finishing(p, s)]
    BY DEF OpenFile, Finish, Goto, Finishing
  <1>3. cwd' = cwd /\ \A q \in Proc \ {p} : ofile'[q] = ofile[q]
    BY <1>1 DEF OpenFile, files
  <1> QED
    BY <1>1, <1>2, <1>3 DEF Alone

\* sys_open takes over the inode that the call has, or gives up.
LEMMA OpenStep ==
  ASSUME Body, NEW p \in Proc, NEW l \in {"open", "create_old", "created"}, At(p, l),
         NEW J \in [Inum -> CacheEntry], icache' = J, Entries(p, J), OpenFile(p, th[p].ip),
         UNCHANGED <<disk, committed, history>>
  PROVE  Body'
  <1> DEFINE i == th[p].ip
  <1>1. /\ th[p] \in Thread /\ CallOK(th[p]) /\ th[p].pc = l /\ th[p].puts = <<>> /\ th[p].freeing = 0
        /\ th \in [Proc -> Thread]
    BY AtCall
  <1>2. i \in Inum /\ th[p].cur = 0 /\ th[p].dp = 0 /\ i # 0
    BY <1>1, CallHas DEF CallOK, Creating
  <1>3. committed'.disk \in DiskType /\ disk' \in DiskType /\ leaked \cup lost \subseteq leaked' \cup lost'
    BY DEF Body, Typed, RestTyped, history, marks
  <1>4. icache' = Got(J, 0) /\ 0 \in 0 .. NINODES
    BY GotNone, FileSystemAssumption
  <1>5. CASE ~(FreeFile # {} /\ FreeFd(p) # {})
    <2> DEFINE t == Finishing(p, <<i>>)
    <2>1. \A j \in Inum : Is(th[p].cur, j) + Is(th[p].ip, j) + Is(th[p].dp, j) = Is(i, j)
      BY <1>2, IsNat
    <2>2. Finish(p, <<i>>) /\ UNCHANGED files
      BY <1>5 DEF OpenFile
    <2>3. Takes(p, t, 0) /\ t.pc = "end" /\ t.freeing = 0
      BY <1>1, <1>2, <2>1, <2>2, Fails
    <2>4. LocksOK(p)'
      BY <2>2, <2>3, TakesAlone, NoLocks
    <2> HIDE DEF t
    <2> QED
      BY <1>1, <1>3, <1>4, <2>2, <2>3, <2>4, CallStep
  <1>6. CASE FreeFile # {} /\ FreeFd(p) # {}
    <2> DEFINE f == Min(FreeFile)
               fd == Min(FreeFd(p))
               t == Finishing(p, <<>>)
    <2>1. f \in 1 .. NFILE /\ ftable[f].ref = 0 /\ fd \in 1 .. NOFILE
      BY <1>6, FreeOnes
    <2>2. /\ ftable' = [ftable EXCEPT ![f] = [ref |-> 1, ip |-> i]] /\ ofile' = [ofile EXCEPT ![p][fd] = f]
          /\ th' = [th EXCEPT ![p] = t] /\ cwd' = cwd
      BY <1>6 DEF OpenFile, Finish, Goto, Finishing
    <2> HIDE DEF f, fd
    <2>3. /\ ofile \in [Proc -> [1 .. NOFILE -> 0 .. NFILE]] /\ cwd \in [Proc -> 0 .. NINODES]
          /\ ftable \in [1 .. NFILE -> [ref : Nat, ip : 0 .. NINODES]] /\ FilesOK /\ ProcessOK(p)
      BY DEF Body, Typed, RestTyped
    <2>4. <<>> \in Seq(Inum) /\ Len(<<>>) <= 2
      OBVIOUS
    <2>5. /\ t \in Thread /\ CallOK(t) /\ t.pc = "end" /\ t.freeing = 0
          /\ t.cur = 0 /\ t.ip = 0 /\ t.dp = 0 /\ t.puts = <<>> /\ ~Gone(t) /\ ~Gone(th[p])
      BY <1>1, <2>4, FinishingIs
    <2> HIDE DEF t
    <2>6. th'[p] = t /\ th' \in [Proc -> Thread]
      BY <1>1, <2>2, <2>5
    <2>7. ftable[f].ip = 0
      BY <2>1, <2>3 DEF FilesOK
    <2>8. /\ ftable' \in [1 .. NFILE -> [ref : Nat, ip : 0 .. NINODES]]
          /\ ofile' \in [Proc -> [1 .. NOFILE -> 0 .. NFILE]]
          /\ ftable'[f].ip = i /\ ftable'[f].ref = 1 /\ \A g \in (1 .. NFILE) \ {f} : ftable'[g] = ftable[g]
      <3>1. i \in 0 .. NINODES
        BY <1>1, Fields
      <3>2. ftable' \in [1 .. NFILE -> [ref : Nat, ip : 0 .. NINODES]]
        BY <2>1, <2>2, <2>3, <3>1
      <3>3. ftable'[f].ip = i /\ ftable'[f].ref = 1 /\ \A g \in (1 .. NFILE) \ {f} : ftable'[g] = ftable[g]
        BY <2>1, <2>2, <2>3
      <3>4. ofile' \in [Proc -> [1 .. NOFILE -> 0 .. NFILE]]
        BY <2>1, <2>2, <2>3
      <3> QED
        BY <3>2, <3>3, <3>4
    <2>9. FilesOK'
      <3>1. \A g \in 1 .. NFILE : ftable[g].ip = 0 <=> ftable[g].ref = 0
        BY <2>3 DEF FilesOK
      <3>2. \A g \in 1 .. NFILE : ftable'[g].ip = 0 <=> ftable'[g].ref = 0
        BY <1>2, <2>8, <3>1
      <3> QED
        BY <3>2 DEF FilesOK
    <2>10. RestTyped'
      BY <1>3, <2>2, <2>3, <2>6, <2>8 DEF RestTyped
    <2>11. ProcessOK(p)'
      BY <2>2, <2>3, <2>5, <2>6 DEF ProcessOK
    <2>12. LocksOK(p)'
      BY <2>5, <2>6, NoLocks
    <2>13. Alone(p)
      BY OpenAlone
    <2>14. Weighs(p, 0)
      <3> SUFFICES ASSUME NEW j \in Inum
                   PROVE  Weight(cwd'[p], th'[p], j) + Files(j)' = Weight(cwd[p], th[p], j) + Files(j) + Is(0, j)
        BY DEF Weighs
      <3>1. Files(j)' = Files(j) - Is(0, j) + Is(i, j) /\ Files(j) \in Nat /\ Files(j)' \in Nat
        <4>1. \A g \in (1 .. NFILE) \ {f} : ftable'[g].ip = ftable[g].ip
          BY <2>8
        <4>2. /\ Files(j)' = Files(j) - Is(ftable[f].ip, j) + Is(ftable'[f].ip, j)
              /\ Files(j) \in Nat /\ Files(j)' \in Nat
          BY <2>1, <4>1, OneFile
        <4> QED
          BY <2>7, <2>8, <4>2
      <3>2. Holds(t, j) = Is(0, j) + Is(0, j) + Is(0, j)
        BY <2>5, HoldsIs
      <3>3. Holds(th[p], j) = Is(0, j) + Is(i, j) + Is(0, j)
        BY <1>1, <1>2, HoldsIs
      <3>4. Weight(cwd'[p], th'[p], j) = Is(cwd[p], j) + Holds(t, j)
        BY <2>2, <2>6 DEF Weight
      <3>5. Weight(cwd[p], th[p], j) = Is(cwd[p], j) + Holds(th[p], j)
        BY DEF Weight
      <3> QED
        BY <3>1, <3>2, <3>3, <3>4, <3>5, IsNat
    <2> QED
      BY <1>1, <1>3, <1>4, <2>9, <2>10, <2>11, <2>12, <2>13, <2>14, GetStep
  <1> QED
    BY <1>5, <1>6

\* open and create_old look at the inode first.
LEMMA OpenVisited ==
  ASSUME Body, NEW p \in Proc, NEW l \in {"open", "create_old"}, At(p, l), Lockable(th[p].ip),
         icache' = Visit(th[p].ip), Checked(th[p].ip), panicked' = "none", OpenFile(p, th[p].ip),
         UNCHANGED <<disk, committed, history>>
  PROVE  Body'
  <1> DEFINE i == th[p].ip
             J == Visit(i)
  <1>1. th[p] \in Thread /\ CallOK(th[p]) /\ th[p].pc = l /\ th[p].puts = <<>> /\ th[p].freeing = 0
    BY AtCall
  <1>2. i \in Inum
    BY <1>1, CallHas
  <1>3. icache[i].ref > 0
    BY <1>2, InCache
  <1>4. Ready(i)
    BY <1>2, <1>3, CheckedReady
  <1>5. Alone(p) /\ SameInodes
    BY OpenAlone DEF SameInodes
  <1>6. After(i, NoProc) = J
    BY <1>2, AfterSome
  <1> HIDE DEF i, J
  <1>7. J \in [Inum -> CacheEntry] /\ Entries(p, J)
    BY <1>1, <1>4, <1>5, <1>6, AfterIs, AfterEntries
  <1> QED
    BY <1>7, OpenStep DEF i, J

\* sys_open without O_CREATE.
LEMMA OpenedStep ==
  ASSUME Body, NEW p \in Proc, NEW rdonly, open(p, rdonly), panicked' = "none"
  PROVE  Body'
  <1>1. CASE OpenFile(p, th[p].ip)
    BY <1>1, OpenVisited DEF open
  <1>2. CASE Finish(p, <<th[p].ip>>) /\ UNCHANGED files
    BY <1>2, GiveUp DEF open
  <1> QED
    BY <1>1, <1>2 DEF open

\* create with a name that exists.
LEMMA CreateOldStep ==
  ASSUME Body, NEW p \in Proc, create_old(p), panicked' = "none"
  PROVE  Body'
  <1>1. CASE OpenFile(p, th[p].ip)
    BY <1>1, OpenVisited DEF create_old
  <1>2. CASE Finish(p, <<th[p].ip>>) /\ UNCHANGED files
    BY <1>2, GiveUp DEF create_old
  <1> QED
    BY <1>1, <1>2 DEF create_old

\* create hands the new inode over.
LEMMA CreatedStep ==
  ASSUME Body, NEW p \in Proc, created(p)
  PROVE  Body'
  <1> DEFINE i == th[p].ip
             J == [icache EXCEPT ![i].busy = NoProc]
  <1>1. th[p] \in Thread /\ CallOK(th[p]) /\ th[p].pc = "created" /\ th[p].puts = <<>> /\ th[p].freeing = 0
    BY AtCall DEF created
  <1>2. i \in Inum /\ th[p].cur = 0 /\ th[p].dp = 0
    BY <1>1, CallHas DEF CallOK, Creating
  <1>3. icache[i].busy = p /\ icache[i].valid
    BY <1>1 DEF Body, LocksOK
  <1>4. /\ icache[i].type = disk[i].type /\ disk[i].type # "free"
        /\ icache[i].nlink = disk[i].nlink /\ icache[i].ref > 0
    BY <1>1, <1>2, <1>3, OwnLocked
  <1>5. icache \in [Inum -> CacheEntry] /\ icache' = J /\ disk' = disk
    BY DEF Body, Typed, created
  <1>6. J \in [Inum -> CacheEntry]
    BY <1>2, <1>5 DEF CacheEntry
  <1>7. /\ J[i].ref = icache[i].ref /\ J[i].busy = NoProc /\ J[i].valid = icache[i].valid
        /\ J[i].type = icache[i].type /\ J[i].nlink = icache[i].nlink
        /\ \A j \in Inum \ {i} : J[j] = icache[j]
    BY <1>2, <1>5 DEF CacheEntry
  <1> HIDE DEF J
  <1>8. Written(J, i, p)
    BY <1>3, <1>4, <1>5, <1>7 DEF Written
  <1>9. Touched(p, J)
    BY <1>5, <1>7, <1>8 DEF Touched
  <1>10. CASE OpenFile(p, i)
    <2>1. Entries(p, J)
      BY <1>1, <1>9, <1>10, OpenAlone, TouchedEntries
    <2> QED
      BY <1>5, <1>6, <1>10, <2>1, OpenStep DEF created
  <1>11. CASE Finish(p, <<i>>) /\ UNCHANGED files
    <2> DEFINE t == Finishing(p, <<i>>)
    <2>1. \A j \in Inum : Is(th[p].cur, j) + Is(th[p].ip, j) + Is(th[p].dp, j) = Is(i, j)
      BY <1>2, IsNat
    <2>2. Takes(p, t, 0) /\ t.pc = "end" /\ t.freeing = 0
      BY <1>1, <1>2, <1>11, <2>1, Fails
    <2>3. LocksOK(p)' /\ Alone(p)
      BY <1>11, <2>2, TakesAlone, NoLocks
    <2>4. Entries(p, J)
      BY <1>1, <1>9, <2>3, TouchedEntries
    <2>5. /\ committed'.disk \in DiskType /\ disk' \in DiskType
          /\ leaked \cup lost \subseteq leaked' \cup lost'
      BY DEF Body, Typed, RestTyped, history, marks, created
    <2>6. icache' = Got(J, 0) /\ 0 \in 0 .. NINODES
      BY <1>5, GotNone, FileSystemAssumption
    <2> HIDE DEF t
    <2> QED
      BY <1>1, <1>6, <1>11, <2>2, <2>3, <2>4, <2>5, <2>6, CallStep
  <1> QED
    BY <1>10, <1>11 DEF created

\* sys_chdir exchanges one pointer for another.
LEMMA ChdirStep ==
  ASSUME Body, NEW p \in Proc, chdir(p), panicked' = "none"
  PROVE  Body'
  <1> DEFINE o == th[p]
             i == o.ip
             w == cwd[p]
  <1>1. CASE Finish(p, <<i>>) /\ UNCHANGED cwd
    BY <1>1, GiveUp DEF chdir, files
  <1>2. CASE cwd' = [cwd EXCEPT ![p] = i] /\ Finish(p, <<w>>)
    <2> DEFINE t == Finishing(p, <<w>>)
               J == Visit(i)
    <2>1. /\ o \in Thread /\ CallOK(o) /\ o.pc = "chdir" /\ o.puts = <<>> /\ o.freeing = 0
          /\ th \in [Proc -> Thread]
      BY AtCall DEF chdir
    <2>2. i \in Inum /\ o.cur = 0 /\ o.dp = 0 /\ o.op = "chdir" /\ i # 0
      BY <2>1, CallHas DEF CallOK, Creating, PathOps
    <2>3. icache[i].ref > 0
      BY <2>2, InCache
    <2>4. Ready(i)
      BY <2>2, <2>3, CheckedReady DEF chdir
    <2>5. /\ ofile \in [Proc -> [1 .. NOFILE -> 0 .. NFILE]] /\ cwd \in [Proc -> 0 .. NINODES]
          /\ ftable \in [1 .. NFILE -> [ref : Nat, ip : 0 .. NINODES]] /\ FilesOK /\ ProcessOK(p)
          /\ disk \in DiskType /\ committed.disk \in DiskType
      BY DEF Body, Typed, RestTyped
    <2>6. ~Gone(o) /\ w # 0 /\ w \in 0 .. NINODES
      BY <2>1, <2>2, <2>5 DEF Gone, ProcessOK
    <2>7. w \in Inum
      BY <2>6, FileSystemAssumption DEF Inum
    <2>8. <<w>> \in Seq(Inum) /\ Len(<<w>>) <= 2
      BY <2>7
    <2>9. /\ t \in Thread /\ CallOK(t) /\ t.pc = "end" /\ t.freeing = 0
          /\ t.cur = 0 /\ t.ip = 0 /\ t.dp = 0 /\ t.puts = <<w>> /\ ~Gone(t)
      BY <2>1, <2>8, FinishingIs
    <2>10. th' = [th EXCEPT ![p] = t]
      BY <1>2 DEF Finish, Goto, Finishing
    <2> HIDE DEF t
    <2>11. th'[p] = t /\ th' \in [Proc -> Thread] /\ \A q \in Proc \ {p} : th'[q] = th[q]
      BY <2>1, <2>9, <2>10
    <2>12. /\ cwd' \in [Proc -> 0 .. NINODES] /\ cwd'[p] = i /\ \A q \in Proc \ {p} : cwd'[q] = cwd[q]
      <3>1. i \in 0 .. NINODES
        BY <2>1, Fields
      <3> QED
        BY <1>2, <2>5, <3>1
    <2>13. ftable' = ftable /\ ofile' = ofile /\ disk' = disk /\ committed' = committed /\ icache' = J
      BY DEF chdir
    <2>14. Alone(p)
      BY <2>11, <2>12, <2>13 DEF Alone
    <2>15. SameInodes /\ leaked \cup lost \subseteq leaked' \cup lost'
      BY DEF SameInodes, chdir, history, marks
    <2>16. After(i, NoProc) = J
      BY <2>2, AfterSome
    <2>17. J \in [Inum -> CacheEntry] /\ Entries(p, J)
      <3> HIDE DEF i, J
      <3> QED
        BY <2>1, <2>4, <2>14, <2>15, <2>16, AfterIs, AfterEntries
    <2>18. FilesOK' /\ LocksOK(p)'
      BY <2>5, <2>9, <2>11, <2>13, NoLocks DEF FilesOK
    <2>19. RestTyped'
      BY <2>5, <2>11, <2>12, <2>13 DEF RestTyped
    <2>20. ProcessOK(p)'
      BY <2>2, <2>9, <2>11, <2>12 DEF ProcessOK
    <2>21. Weighs(p, 0)
      <3> SUFFICES ASSUME NEW j \in Inum
                   PROVE  Weight(cwd'[p], th'[p], j) + Files(j)' = Weight(cwd[p], th[p], j) + Files(j) + Is(0, j)
        BY DEF Weighs
      <3>1. Files(j)' = Files(j) /\ Files(j) \in Nat
        BY <2>13, PointersIs DEF Files
      <3>2. Holds(t, j) = Is(0, j) + Is(0, j) + Is(0, j) + Is(w, j)
        BY <2>9, HoldsIs
      <3>3. Holds(o, j) = Is(0, j) + Is(i, j) + Is(0, j)
        BY <2>1, <2>2, HoldsIs
      <3>4. Weight(cwd'[p], th'[p], j) = Is(i, j) + Holds(t, j)
        BY <2>11, <2>12 DEF Weight
      <3>5. Weight(cwd[p], th[p], j) = Is(w, j) + Holds(o, j)
        BY DEF Weight
      <3> QED
        BY <3>1, <3>2, <3>3, <3>4, <3>5, IsNat
    <2>22. icache' = Got(J, 0) /\ 0 \in 0 .. NINODES
      BY <2>13, GotNone, FileSystemAssumption
    <2> HIDE DEF J
    <2> QED
      BY <2>1, <2>14, <2>15, <2>17, <2>18, <2>19, <2>20, <2>21, <2>22, GetStep
  <1> QED
    BY <1>1, <1>2 DEF chdir

\* What a call from user mode starts from.
LEMMA UserIs ==
  ASSUME Body, NEW p \in Proc, At(p, "user")
  PROVE  /\ th[p] \in Thread /\ CallOK(th[p]) /\ th[p].pc = "user" /\ th[p].puts = <<>> /\ th[p].freeing = 0
         /\ ~Gone(th[p]) /\ cwd[p] # 0 /\ cwd[p] \in Inum
         /\ \A j \in Inum : Holds(th[p], j) = 0
  <1>1. /\ th[p] \in Thread /\ CallOK(th[p]) /\ th[p].pc = "user" /\ th[p].puts = <<>> /\ th[p].freeing = 0
    BY AtCall
  <1>2. ~Gone(th[p])
    BY <1>1 DEF Gone, CallOK
  <1>3. cwd[p] # 0 /\ cwd[p] \in 0 .. NINODES
    BY <1>2 DEF Body, Typed, RestTyped, ProcessOK
  <1>4. cwd[p] \in Inum
    BY <1>3, FileSystemAssumption DEF Inum
  <1>5. th[p].cur = 0 /\ th[p].ip = 0 /\ th[p].dp = 0
    BY <1>1 DEF CallOK, Creating
  <1>6. ASSUME NEW j \in Inum PROVE Holds(th[p], j) = 0
    <2>1. Holds(th[p], j) = Is(0, j) + Is(0, j) + Is(0, j)
      BY <1>1, <1>5, HoldsIs
    <2> QED
      BY <2>1, IsNat
  <1> QED
    BY <1>1, <1>2, <1>3, <1>4, <1>6

\* sys_fstat reads the inode.
LEMMA FstatStep ==
  ASSUME Body, FileRefs, NEW p \in Proc, NEW fd \in 1 .. NOFILE, fstat(p, fd), panicked' = "none"
  PROVE  Body'
  <1> DEFINE i == ftable[ofile[p][fd]].ip
  <1>1. /\ th[p] \in Thread /\ CallOK(th[p]) /\ th[p].pc = "user" /\ th[p].freeing = 0
        /\ \A j \in Inum : Holds(th[p], j) = 0
    BY UserIs DEF fstat
  <1>2. i \in Inum /\ icache[i].ref > 0
    BY OpenFd DEF fstat, argfd
  <1>3. Ready(i)
    BY <1>2, CheckedReady DEF fstat
  <1>4. th' = th /\ th \in [Proc -> Thread]
    BY DEF fstat, Body, Typed, RestTyped
  <1>5. Takes(p, th[p], 0)
    <2>1. \A j \in Inum : Holds(th[p], j) = Holds(th[p], j) + Is(0, j)
      BY <1>1, IsNat
    <2>2. th' = [th EXCEPT ![p] = th[p]]
      BY <1>4
    <2> QED
      BY <1>1, <2>1, <2>2 DEF Takes
  <1>6. committed'.disk \in DiskType /\ UNCHANGED <<disk, files, marks>>
    BY DEF Body, Typed, RestTyped, fstat
  <1>7. LocksOK(p)'
    BY <1>1, <1>4, NoLocks
  <1>8. icache' = Got(After(i, NoProc), 0) /\ 0 \in 0 .. NINODES
    BY <1>2, AfterSome, GotNone, FileSystemAssumption DEF fstat
  <1> HIDE DEF i
  <1> QED
    BY <1>1, <1>3, <1>5, <1>6, <1>7, <1>8, QuietStep

\* A step of p that leaves the inodes and their entries alone.
LEMMA PlainStep ==
  ASSUME Body, NEW p \in Proc, UNCHANGED <<icache, disk, committed, marks>>, Alone(p),
         th[p].freeing = 0, th[p].pc # "create_new", Weighs(p, 0),
         RestTyped', ProcessOK(p)', LocksOK(p)', FilesOK'
  PROVE  Body'
  <1>1. Ready(0) /\ SameInodes /\ 0 \in 0 .. NINODES
    BY FileSystemAssumption DEF Ready, SameInodes
  <1>2. After(0, NoProc) = icache /\ icache \in [Inum -> CacheEntry]
    BY DEF After, Body, Typed
  <1>3. Entries(p, icache)
    BY <1>1, <1>2, AfterEntries
  <1>4. icache' = Got(icache, 0) /\ leaked \cup lost \subseteq leaked' \cup lost'
    BY GotNone DEF marks
  <1> QED
    BY <1>1, <1>2, <1>3, <1>4, GetStep

\* sys_dup.
LEMMA DupStep ==
  ASSUME Body, FileRefs, NEW p \in Proc, NEW fd \in 1 .. NOFILE, dup(p, fd)
  PROVE  Body' /\ FileRefs'
  <1> DEFINE f == ofile[p][fd]
             e == Min(FreeFd(p))
  <1>1. /\ th[p].freeing = 0 /\ th[p].pc = "user" /\ ~Gone(th[p])
    BY UserIs DEF dup
  <1>2. f \in 1 .. NFILE /\ ftable[f].ref \in Nat /\ ftable[f].ref > 0 /\ ftable[f].ip \in Inum
    BY OpenFd DEF dup, argfd
  <1>3. e \in 1 .. NOFILE /\ ofile[p][e] = 0
    BY FreeOnes DEF dup
  <1>4. /\ ftable' = [ftable EXCEPT ![f].ref = ftable[f].ref + 1]
        /\ ofile' = [ofile EXCEPT ![p][e] = f]
        /\ cwd' = cwd /\ th' = th /\ UNCHANGED <<icache, disk, committed, marks>>
    BY DEF dup
  <1>5. /\ ofile \in [Proc -> [1 .. NOFILE -> 0 .. NFILE]] /\ cwd \in [Proc -> 0 .. NINODES]
        /\ ftable \in [1 .. NFILE -> [ref : Nat, ip : 0 .. NINODES]] /\ FilesOK /\ ProcessOK(p)
        /\ disk \in DiskType /\ committed.disk \in DiskType /\ th \in [Proc -> Thread]
    BY DEF Body, Typed, RestTyped
  <1> HIDE DEF f, e
  <1>6. /\ ftable' \in [1 .. NFILE -> [ref : Nat, ip : 0 .. NINODES]]
        /\ \A g \in 1 .. NFILE : /\ ftable'[g].ip = ftable[g].ip
                                 /\ ftable'[g].ref = IF g = f THEN ftable[g].ref + 1 ELSE ftable[g].ref
    BY <1>2, <1>4, <1>5
  <1>7. /\ ofile' \in [Proc -> [1 .. NOFILE -> 0 .. NFILE]]
        /\ \A q \in Proc, d \in 1 .. NOFILE : ofile'[q][d] = IF q = p /\ d = e THEN f ELSE ofile[q][d]
        /\ \A q \in Proc \ {p} : ofile'[q] = ofile[q]
    <2>1. f \in 0 .. NFILE
      BY <1>2
    <2>2. ofile' \in [Proc -> [1 .. NOFILE -> 0 .. NFILE]]
      BY <1>3, <1>4, <1>5, <2>1
    <2>3. \A q \in Proc, d \in 1 .. NOFILE : ofile'[q][d] = IF q = p /\ d = e THEN f ELSE ofile[q][d]
      BY <1>3, <1>4, <1>5
    <2>4. \A q \in Proc \ {p} : ofile'[q] = ofile[q]
      BY <1>4, <1>5
    <2> QED
      BY <2>2, <2>3, <2>4
  <1>8. FileRefs'
    <2> SUFFICES ASSUME NEW g \in 1 .. NFILE PROVE ftable'[g].ref = Cardinality(Descr(ofile', g))
      BY RefsAre
    <2>1. Cardinality(Descr(ofile', g)) = Cardinality(Descr(ofile, g)) - Is(ofile[p][e], g) + Is(f, g)
      <3>1. \A q \in Proc, d \in 1 .. NOFILE : ofile'[q][d] = IF q = p /\ d = e THEN f ELSE ofile[q][d]
        BY <1>7
      <3> QED
        BY <1>3, <3>1, OneDescriptor
    <2>2. ftable[g].ref = Cardinality(Descr(ofile, g)) /\ ftable[g].ref \in Nat
      BY <1>5, RefsAre
    <2>3. Is(ofile[p][e], g) = 0
      BY <1>3, FileSystemAssumption DEF Is
    <2> QED
      BY <1>6, <2>1, <2>2, <2>3 DEF Is
  <1>9. FilesOK'
    <2>1. \A g \in 1 .. NFILE : ftable[g].ip = 0 <=> ftable[g].ref = 0
      BY <1>5 DEF FilesOK
    <2>2. ftable[f].ip # 0
      BY <1>2, FileSystemAssumption DEF Inum
    <2>3. \A g \in 1 .. NFILE : ftable'[g].ip = 0 <=> ftable'[g].ref = 0
      BY <1>2, <1>6, <2>1, <2>2
    <2> QED
      BY <2>3 DEF FilesOK
  <1>10. RestTyped'
    BY <1>4, <1>5, <1>6, <1>7 DEF RestTyped
  <1>11. ProcessOK(p)' /\ LocksOK(p)' /\ Alone(p)
    BY <1>1, <1>4, <1>5, <1>7, NoLocks DEF ProcessOK, Alone
  <1>12. Weighs(p, 0)
    <2> SUFFICES ASSUME NEW j \in Inum
                 PROVE  Weight(cwd'[p], th'[p], j) + Files(j)' = Weight(cwd[p], th[p], j) + Files(j) + Is(0, j)
      BY DEF Weighs
    <2>1. Files(j)' = Files(j) /\ Files(j) \in Nat
      BY <1>6, PointersIs DEF Files
    <2>2. Weight(cwd[p], th[p], j) \in Nat
      BY Pointed
    <2> QED
      BY <1>4, <2>1, <2>2, IsNat
  <1> QED
    BY <1>1, <1>4, <1>8, <1>9, <1>10, <1>11, <1>12, PlainStep

\* sys_close hands the pointer of the last descriptor to the call, which puts it.
LEMMA CloseStep ==
  ASSUME Body, FileRefs, NEW p \in Proc, NEW fd \in 1 .. NOFILE, close(p, fd)
  PROVE  Body' /\ FileRefs'
  <1> DEFINE f == ofile[p][fd]
             i == ftable[f].ip
             t == [Idle EXCEPT !.pc = "end", !.puts = <<i>>]
  <1>1. /\ th[p].freeing = 0 /\ th[p].pc = "user" /\ ~Gone(th[p]) /\ \A j \in Inum : Holds(th[p], j) = 0
    BY UserIs DEF close
  <1>2. f \in 1 .. NFILE /\ ftable[f].ref \in Nat /\ ftable[f].ref > 0 /\ ftable[f].ip \in Inum
    BY OpenFd DEF close, argfd
  <1>3. /\ ofile' = [ofile EXCEPT ![p][fd] = 0] /\ cwd' = cwd /\ UNCHANGED <<icache, disk, committed, marks>>
        /\ \/ ftable[f].ref > 1 /\ ftable' = [ftable EXCEPT ![f].ref = ftable[f].ref - 1] /\ th' = th
           \/ /\ ftable[f].ref = 1 /\ ftable' = [ftable EXCEPT ![f] = [ref |-> 0, ip |-> 0]]
              /\ th' = [th EXCEPT ![p] = t]
    BY DEF close, Goto
  <1>4. /\ ofile \in [Proc -> [1 .. NOFILE -> 0 .. NFILE]] /\ cwd \in [Proc -> 0 .. NINODES]
        /\ ftable \in [1 .. NFILE -> [ref : Nat, ip : 0 .. NINODES]] /\ FilesOK /\ ProcessOK(p)
        /\ disk \in DiskType /\ committed.disk \in DiskType /\ th \in [Proc -> Thread]
    BY DEF Body, Typed, RestTyped
  <1>5. /\ t \in Thread /\ t.pc = "end" /\ t.op = "none" /\ t.cur = 0 /\ t.ip = 0 /\ t.dp = 0
        /\ t.puts = <<i>> /\ t.freeing = 0
    <2>1. <<i>> \in Seq(Inum)
      BY <1>2
    <2> QED
      BY <2>1, IdleThread DEF Thread, Pcs
  <1> HIDE DEF t
  <1>6. CallOK(t) /\ ~Gone(t)
    BY <1>5 DEF CallOK, Gone, Creating, PathOps
  <1> HIDE DEF f, i
  <1>7. /\ ofile' \in [Proc -> [1 .. NOFILE -> 0 .. NFILE]]
        /\ \A q \in Proc, d \in 1 .. NOFILE : ofile'[q][d] = IF q = p /\ d = fd THEN 0 ELSE ofile[q][d]
        /\ \A q \in Proc \ {p} : ofile'[q] = ofile[q]
    BY <1>3, <1>4, FileSystemAssumption
  <1>8. /\ ftable' \in [1 .. NFILE -> [ref : Nat, ip : 0 .. NINODES]]
        /\ \A g \in 1 .. NFILE : ftable'[g].ref = IF g = f THEN ftable[g].ref - 1 ELSE ftable[g].ref
        /\ \A g \in 1 .. NFILE : ftable'[g].ip = IF g = f /\ ftable[f].ref = 1 THEN 0 ELSE ftable[g].ip
    <2>1. CASE ftable[f].ref > 1 /\ ftable' = [ftable EXCEPT ![f].ref = ftable[f].ref - 1]
      <3>1. ftable[f].ref - 1 \in Nat /\ ftable[f].ref # 1
        BY <1>2, <2>1
      <3>2. ftable' \in [1 .. NFILE -> [ref : Nat, ip : 0 .. NINODES]]
        BY <1>2, <1>4, <2>1, <3>1
      <3>3. \A g \in 1 .. NFILE : ftable'[g].ref = IF g = f THEN ftable[g].ref - 1 ELSE ftable[g].ref
        BY <1>2, <1>4, <2>1
      <3>4. \A g \in 1 .. NFILE : ftable'[g].ip = ftable[g].ip
        BY <1>2, <1>4, <2>1
      <3> QED
        BY <3>1, <3>2, <3>3, <3>4
    <2>2. CASE ftable[f].ref = 1 /\ ftable' = [ftable EXCEPT ![f] = [ref |-> 0, ip |-> 0]]
      BY <1>2, <1>4, <2>2, FileSystemAssumption
    <2> QED
      BY <1>3, <2>1, <2>2
  <1>9. FileRefs'
    <2> SUFFICES ASSUME NEW g \in 1 .. NFILE PROVE ftable'[g].ref = Cardinality(Descr(ofile', g))
      BY RefsAre
    <2>1. Cardinality(Descr(ofile', g)) = Cardinality(Descr(ofile, g)) - Is(f, g) + Is(0, g)
      <3>1. \A q \in Proc, d \in 1 .. NOFILE : ofile'[q][d] = IF q = p /\ d = fd THEN 0 ELSE ofile[q][d]
        BY <1>7
      <3>2. Cardinality(Descr(ofile', g)) = Cardinality(Descr(ofile, g)) - Is(ofile[p][fd], g) + Is(0, g)
        BY <3>1, OneDescriptor
      <3> QED
        BY <3>2 DEF f
    <2>2. ftable[g].ref = Cardinality(Descr(ofile, g)) /\ ftable[g].ref \in Nat
      BY <1>4, RefsAre
    <2>3. Is(0, g) = 0
      BY FileSystemAssumption DEF Is
    <2> QED
      BY <1>8, <2>1, <2>2, <2>3 DEF Is
  <1>10. FilesOK'
    <2>1. \A g \in 1 .. NFILE : ftable[g].ip = 0 <=> ftable[g].ref = 0
      BY <1>4 DEF FilesOK
    <2>2. \A g \in 1 .. NFILE : ftable'[g].ip = 0 <=> ftable'[g].ref = 0
      BY <1>2, <1>8, <2>1
    <2> QED
      BY <2>2 DEF FilesOK
  <1>11. /\ th' \in [Proc -> Thread] /\ \A q \in Proc \ {p} : th'[q] = th[q]
         /\ th'[p] = IF ftable[f].ref = 1 THEN t ELSE th[p]
    <2>1. CASE ftable[f].ref > 1 /\ th' = th
      BY <1>2, <1>4, <2>1
    <2>2. CASE ftable[f].ref = 1 /\ th' = [th EXCEPT ![p] = t]
      BY <1>4, <1>5, <2>2
    <2> QED
      BY <1>3, <2>1, <2>2
  <1>12. RestTyped'
    BY <1>3, <1>4, <1>7, <1>8, <1>11 DEF RestTyped
  <1>13. ProcessOK(p)'
    BY <1>1, <1>3, <1>4, <1>6, <1>11 DEF ProcessOK
  <1>14. LocksOK(p)' /\ Alone(p)
    BY <1>1, <1>3, <1>5, <1>7, <1>11, NoLocks DEF Alone
  <1>15. Weighs(p, 0)
    <2> SUFFICES ASSUME NEW j \in Inum
                 PROVE  Weight(cwd'[p], th'[p], j) + Files(j)' = Weight(cwd[p], th[p], j) + Files(j) + Is(0, j)
      BY DEF Weighs
    <2>1. Files(j)' = Files(j) - Is(ftable[f].ip, j) + Is(ftable'[f].ip, j) /\ Files(j) \in Nat /\ Files(j)' \in Nat
      <3>1. \A g \in (1 .. NFILE) \ {f} : ftable'[g].ip = ftable[g].ip
        BY <1>8
      <3> QED
        BY <1>2, <3>1, OneFile
    <2>2. Weight(cwd'[p], th'[p], j) = Is(cwd[p], j) + Holds(th'[p], j)
      BY <1>3 DEF Weight
    <2>3. Weight(cwd[p], th[p], j) = Is(cwd[p], j) + 0
      BY <1>1 DEF Weight
    <2>4. Holds(t, j) = Is(0, j) + Is(0, j) + Is(0, j) + Is(i, j)
      BY <1>5, HoldsIs
    <2>5. Holds(th'[p], j) + Is(ftable'[f].ip, j) = Is(ftable[f].ip, j)
      <3>1. CASE ftable[f].ref = 1
        BY <1>2, <1>8, <1>11, <2>4, <3>1, IsNat DEF i
      <3>2. CASE ftable[f].ref # 1
        BY <1>1, <1>2, <1>8, <1>11, <3>2, IsNat
      <3> QED
        BY <3>1, <3>2
    <2> QED
      BY <2>1, <2>2, <2>3, <2>5, IsNat, HoldsNat
  <1> QED
    BY <1>1, <1>3, <1>9, <1>10, <1>12, <1>13, <1>14, <1>15, PlainStep

\* exit puts the current directory.
LEMMA ExitStep ==
  ASSUME Body, NEW p \in Proc, exit(p)
  PROVE  Body'
  <1> DEFINE w == cwd[p]
             t == [Idle EXCEPT !.pc = "end", !.op = "exit", !.puts = <<w>>]
  <1>1. /\ th[p].freeing = 0 /\ th[p].pc = "user" /\ ~Gone(th[p]) /\ \A j \in Inum : Holds(th[p], j) = 0
        /\ w \in Inum
    BY UserIs DEF exit
  <1>2. /\ cwd' = [cwd EXCEPT ![p] = 0] /\ th' = [th EXCEPT ![p] = t]
        /\ UNCHANGED <<icache, disk, committed, marks>> /\ ftable' = ftable /\ ofile' = ofile
    BY DEF exit, Goto
  <1>3. /\ ofile \in [Proc -> [1 .. NOFILE -> 0 .. NFILE]] /\ cwd \in [Proc -> 0 .. NINODES]
        /\ ftable \in [1 .. NFILE -> [ref : Nat, ip : 0 .. NINODES]] /\ FilesOK
        /\ disk \in DiskType /\ committed.disk \in DiskType /\ th \in [Proc -> Thread]
    BY DEF Body, Typed, RestTyped
  <1>4. \A fd \in 1 .. NOFILE : ofile[p][fd] = 0
    BY DEF exit, FreeFd
  <1>5. /\ t \in Thread /\ t.pc = "end" /\ t.op = "exit" /\ t.cur = 0 /\ t.ip = 0 /\ t.dp = 0
        /\ t.puts = <<w>> /\ t.freeing = 0
    <2>1. <<w>> \in Seq(Inum)
      BY <1>1
    <2> QED
      BY <2>1, IdleThread DEF Thread, Pcs
  <1> HIDE DEF t, w
  <1>6. CallOK(t) /\ Gone(t)
    BY <1>5 DEF CallOK, Gone, Creating, PathOps
  <1>7. /\ th' \in [Proc -> Thread] /\ th'[p] = t /\ \A q \in Proc \ {p} : th'[q] = th[q]
        /\ cwd'[p] = 0 /\ \A q \in Proc \ {p} : cwd'[q] = cwd[q]
        /\ cwd' \in [Proc -> 0 .. NINODES]
    BY <1>2, <1>3, <1>5, FileSystemAssumption
  <1>8. RestTyped' /\ FilesOK'
    BY <1>2, <1>3, <1>7 DEF RestTyped, FilesOK
  <1>9. ProcessOK(p)' /\ LocksOK(p)' /\ Alone(p)
    BY <1>2, <1>4, <1>5, <1>6, <1>7, NoLocks DEF ProcessOK, Alone
  <1>10. Weighs(p, 0)
    <2> SUFFICES ASSUME NEW j \in Inum
                 PROVE  Weight(cwd'[p], th'[p], j) + Files(j)' = Weight(cwd[p], th[p], j) + Files(j) + Is(0, j)
      BY DEF Weighs
    <2>1. Files(j)' = Files(j) /\ Files(j) \in Nat
      BY <1>2, PointersIs DEF Files
    <2>2. Weight(cwd'[p], th'[p], j) = Is(0, j) + Holds(t, j)
      BY <1>7 DEF Weight
    <2>3. Weight(cwd[p], th[p], j) = Is(w, j) + 0
      BY <1>1 DEF Weight, w
    <2>4. Holds(t, j) = Is(0, j) + Is(0, j) + Is(0, j) + Is(w, j)
      BY <1>5, HoldsIs
    <2> QED
      BY <2>1, <2>2, <2>3, <2>4, IsNat
  <1> QED
    BY <1>1, <1>2, <1>8, <1>9, <1>10, PlainStep

\* The descriptors for file f that process p has.
LEMMA InheritedIs ==
  ASSUME NEW p \in Proc, NEW f, NEW o
  PROVE  /\ Cardinality({fd \in 1 .. NOFILE : o[p][fd] = f}) \in Nat
         /\ Columns(1 .. NOFILE, p, Descr(o, f)) = {fd \in 1 .. NOFILE : o[p][fd] = f}
         /\ Cardinality(Descr(o, f)) >= Cardinality({fd \in 1 .. NOFILE : o[p][fd] = f})
         /\ Cardinality(Descr(o, f)) \in Nat
  <1> DEFINE K == 1 .. NOFILE
             S == Descr(o, f)
  <1>1. Columns(K, p, S) = {fd \in K : o[p][fd] = f}
    BY DEF Columns, Descr
  <1>2. S \subseteq Proc \X K /\ IsFiniteSet(Proc) /\ IsFiniteSet(K)
    BY FilesFinite DEF Descr
  <1> HIDE DEF S, K
  <1>3. /\ Cardinality(S) \in Nat /\ Cardinality(Columns(K, p, S)) \in Nat
        /\ Cardinality(S) >= Cardinality(Columns(K, p, S))
    BY <1>2, OneRow
  <1> QED
    BY <1>1, <1>3 DEF K, S

\* fork counts the descriptors of the child.
LEMMA ForkRefs ==
  ASSUME Body, FileRefs, NEW p \in Proc, NEW q \in Proc, fork(p, q)
  PROVE  /\ FileRefs'
         /\ \A f \in 1 .. NFILE : Inherited(p, f) \in Nat /\ ftable[f].ref >= Inherited(p, f)
  <1>1. p # q /\ Gone(th[q])
    BY DEF fork, At, Gone
  <1>2. /\ ofile \in [Proc -> [1 .. NOFILE -> 0 .. NFILE]]
        /\ ftable \in [1 .. NFILE -> [ref : Nat, ip : 0 .. NINODES]]
        /\ \A fd \in 1 .. NOFILE : ofile[q][fd] = 0
    BY <1>1 DEF Body, Typed, RestTyped, ProcessOK
  <1>3. /\ ofile'[q] = ofile[p] /\ \A r \in Proc \ {q} : ofile'[r] = ofile[r]
        /\ \A f \in 1 .. NFILE : ftable'[f].ref = ftable[f].ref + Inherited(p, f)
    BY <1>2 DEF fork
  <1>4. ASSUME NEW f \in 1 .. NFILE PROVE ftable[f].ref = Cardinality(Descr(ofile, f))
    BY RefsAre
  <1>5. ASSUME NEW f \in 1 .. NFILE PROVE Inherited(p, f) \in Nat /\ ftable[f].ref >= Inherited(p, f)
    BY <1>4, InheritedIs DEF Inherited
  <1>6. ASSUME NEW f \in 1 .. NFILE PROVE ftable'[f].ref = Cardinality(Descr(ofile', f))
    <2> DEFINE K == 1 .. NOFILE
               S == Descr(ofile, f)
               T == Descr(ofile', f)
    <2>1. Columns(K, q, S) = {fd \in K : ofile[q][fd] = f} /\ Columns(K, q, T) = {fd \in K : ofile'[q][fd] = f}
      BY DEF Columns, Descr
    <2>2. {fd \in K : ofile[q][fd] = f} = {}
      BY <1>2, FileSystemAssumption
    <2>3. Cardinality(Columns(K, q, S)) = 0
      BY <2>1, <2>2, FS_EmptySet
    <2>4. Cardinality(Columns(K, q, T)) = Inherited(p, f)
      BY <1>3, <2>1 DEF Inherited
    <2>5. S \subseteq Proc \X K /\ T \subseteq Proc \X K /\ IsFiniteSet(Proc) /\ IsFiniteSet(K)
      BY FilesFinite DEF Descr
    <2>6. \A x \in Proc \X K : x[1] # q => (x \in S <=> x \in T)
      BY <1>3 DEF Descr
    <2> HIDE DEF S, T, K
    <2>7. /\ Cardinality(S) \in Nat /\ Cardinality(T) \in Nat
          /\ Cardinality(T) = Cardinality(S) - Cardinality(Columns(K, q, S)) + Cardinality(Columns(K, q, T))
      BY <2>5, <2>6, OneRow
    <2>8. Cardinality(T) = ftable[f].ref + Inherited(p, f)
      BY <1>4, <1>5, <2>3, <2>4, <2>7 DEF S
    <2> QED
      BY <1>3, <2>8 DEF T
  <1> QED
    BY <1>5, <1>6, RefsAre

\* fork: the child gets a pointer to the current directory.
LEMMA ForkStep ==
  ASSUME Body, FileRefs, NEW p \in Proc, NEW q \in Proc, fork(p, q)
  PROVE  Body'
  <1> DEFINE w == cwd[p]
  <1>1. p # q /\ w \in Inum /\ ~Gone(th[p])
    BY UserIs DEF fork, At
  <1>2. /\ th[q] \in Thread /\ CallOK(th[q]) /\ th[q].pc = "dead" /\ th[q].puts = <<>> /\ th[q].freeing = 0
        /\ ProcessOK(q) /\ cwd[q] = 0
    BY AtCall DEF fork, Body, ProcessOK, Gone
  <1>3. /\ ofile \in [Proc -> [1 .. NOFILE -> 0 .. NFILE]] /\ cwd \in [Proc -> 0 .. NINODES]
        /\ ftable \in [1 .. NFILE -> [ref : Nat, ip : 0 .. NINODES]] /\ FilesOK
        /\ disk \in DiskType /\ committed.disk \in DiskType /\ th \in [Proc -> Thread]
        /\ icache \in [Inum -> CacheEntry]
    BY DEF Body, Typed, RestTyped
  <1>4. /\ ofile' = [ofile EXCEPT ![q] = ofile[p]] /\ cwd' = [cwd EXCEPT ![q] = w]
        /\ ftable' = [f \in 1 .. NFILE |-> [ftable[f] EXCEPT !.ref = ftable[f].ref + Inherited(p, f)]]
        /\ icache' = Iget(icache, w) /\ th' = [th EXCEPT ![q] = Idle]
        /\ UNCHANGED <<disk, committed, marks>>
    BY DEF fork, Goto
  <1>5. \A f \in 1 .. NFILE : Inherited(p, f) \in Nat /\ ftable[f].ref >= Inherited(p, f)
    BY ForkRefs
  <1> HIDE DEF w
  <1>6. /\ ftable' \in [1 .. NFILE -> [ref : Nat, ip : 0 .. NINODES]]
        /\ \A f \in 1 .. NFILE : ftable'[f].ref = ftable[f].ref + Inherited(p, f) /\ ftable'[f].ip = ftable[f].ip
    <2>1. \A f \in 1 .. NFILE : ftable[f].ref \in Nat /\ ftable[f] \in [ref : Nat, ip : 0 .. NINODES]
      BY <1>3
    <2>2. \A f \in 1 .. NFILE : ftable[f].ref + Inherited(p, f) \in Nat
      BY <1>5, <2>1
    <2>3. \A f \in 1 .. NFILE : ftable'[f] = [ftable[f] EXCEPT !.ref = ftable[f].ref + Inherited(p, f)]
      BY <1>4
    <2>4. \A f \in 1 .. NFILE : /\ ftable'[f] \in [ref : Nat, ip : 0 .. NINODES]
                                /\ ftable'[f].ref = ftable[f].ref + Inherited(p, f) /\ ftable'[f].ip = ftable[f].ip
      BY <2>1, <2>2, <2>3
    <2> QED
      BY <1>4, <2>4
  <1>7. FilesOK'
    <2>1. \A f \in 1 .. NFILE : ftable[f].ip = 0 <=> ftable[f].ref = 0
      BY <1>3 DEF FilesOK
    <2>2. \A f \in 1 .. NFILE : ftable[f].ref \in Nat
      BY <1>3
    <2>3. \A f \in 1 .. NFILE : ftable'[f].ip = 0 <=> ftable'[f].ref = 0
      BY <1>5, <1>6, <2>1, <2>2
    <2> QED
      BY <2>3 DEF FilesOK
  <1>8. /\ th' \in [Proc -> Thread] /\ th'[q] = Idle /\ cwd' \in [Proc -> 0 .. NINODES] /\ cwd'[q] = w
        /\ ofile' \in [Proc -> [1 .. NOFILE -> 0 .. NFILE]]
        /\ \A r \in Proc \ {q} : th'[r] = th[r] /\ cwd'[r] = cwd[r] /\ ofile'[r] = ofile[r]
    <2>1. w \in 0 .. NINODES
      BY <1>1, GotSome
    <2> QED
      BY <1>3, <1>4, <2>1, IdleThread
  <1>9. RestTyped' /\ Alone(q)
    BY <1>3, <1>4, <1>6, <1>8 DEF RestTyped, Alone
  <1>10. CallOK(Idle) /\ ~Gone(Idle)
    BY IdleThread DEF CallOK, Gone, Creating, PathOps
  <1>11. ProcessOK(q)' /\ LocksOK(q)'
    <2>1. w # 0
      BY <1>1, FileSystemAssumption DEF Inum
    <2>2. ProcessOK(q)'
      BY <1>8, <1>10, <2>1 DEF ProcessOK
    <2>3. LocksOK(q)'
      BY <1>8, IdleThread, NoLocks
    <2> QED
      BY <2>2, <2>3
  <1>12. Weighs(q, w)
    <2> SUFFICES ASSUME NEW j \in Inum
                 PROVE  Weight(cwd'[q], th'[q], j) + Files(j)' = Weight(cwd[q], th[q], j) + Files(j) + Is(w, j)
      BY DEF Weighs
    <2>1. Files(j)' = Files(j) /\ Files(j) \in Nat
      BY <1>6, PointersIs DEF Files
    <2>2. Weight(cwd'[q], th'[q], j) = Is(w, j) + Holds(Idle, j)
      BY <1>8 DEF Weight
    <2>3. Weight(cwd[q], th[q], j) = Is(0, j) + Holds(th[q], j)
      BY <1>2 DEF Weight
    <2>4. Holds(Idle, j) = Is(0, j) + Is(0, j) + Is(0, j)
      BY IdleThread, HoldsIs
    <2>5. th[q].cur = 0 /\ th[q].ip = 0 /\ th[q].dp = 0
      BY <1>2 DEF CallOK, Creating
    <2>6. Holds(th[q], j) = Is(0, j) + Is(0, j) + Is(0, j)
      BY <1>2, <2>5, HoldsIs
    <2> QED
      BY <2>1, <2>2, <2>3, <2>4, <2>6, IsNat
  <1>13. Ready(0) /\ SameInodes /\ After(0, NoProc) = icache
    BY <1>4 DEF Ready, SameInodes, After
  <1>14. Entries(q, icache)
    BY <1>2, <1>9, <1>13, AfterEntries
  <1>15. icache' = Got(icache, w) /\ w \in 0 .. NINODES /\ leaked \cup lost \subseteq leaked' \cup lost'
    BY <1>1, <1>4, GotSome DEF marks
  <1> QED
    BY <1>2, <1>3, <1>7, <1>9, <1>11, <1>12, <1>14, <1>15, GetStep

-----------------------------------------------------------------------------
(***************************************************************************)
(* iput.                                                                   *)
(***************************************************************************)

\* Process p is at an inode that it has to put, and goes on with t: the inode is still
\* to be put, or it is behind.
Stays(t, o) ==
  /\ t.pc = o.pc /\ t.op = o.op /\ t.cur = o.cur /\ t.ip = o.ip /\ t.dp = o.dp /\ t.new = o.new
  /\ t.puts = o.puts \/ (t.puts = Tail(o.puts) /\ t.freeing = 0)

\* What is known before and after.
LEMMA StaysOK ==
  ASSUME NEW o \in Thread, CallOK(o), o.puts # <<>>, NEW t \in Thread, Stays(t, o)
  PROVE  /\ CallOK(t) /\ (Gone(t) <=> Gone(o))
         /\ o.puts[1] \in Inum /\ Head(o.puts) = o.puts[1] /\ Put(o, 1) = o.puts[1]
         /\ o.pc \notin {"create_new", "unlink_ip"}
         /\ o.pc \in {"created", "unlink_count"} => o.ip # o.puts[1] /\ o.ip \in Inum
  <1>1. o.puts \in Seq(Inum) /\ Len(o.puts) <= 2
    BY Fields DEF CallOK
  <1>2. /\ Len(o.puts) \in Nat /\ Len(o.puts) >= 1 /\ o.puts[1] \in Inum /\ Head(o.puts) = o.puts[1]
        /\ Tail(o.puts) \in Seq(Inum) /\ Len(Tail(o.puts)) = Len(o.puts) - 1
    BY <1>1, First
  <1>3. Put(o, 1) = o.puts[1]
    BY <1>2 DEF Put
  <1>4. /\ o.pc \notin {"create_new", "unlink_ip"}
        /\ o.pc \in {"created", "unlink_count"} => o.ip # o.puts[1] /\ Len(o.puts) = 1
    BY DEF CallOK
  <1>5. o.pc \in {"created", "unlink_count"} => o.ip \in Inum
    BY CallHas
  <1>6. Gone(t) <=> Gone(o)
    BY DEF Gone, Stays
  <1>7. ASSUME t.puts = o.puts PROVE CallOK(t)
    <2>1. t.pc = o.pc /\ t.op = o.op /\ t.cur = o.cur /\ t.ip = o.ip /\ t.dp = o.dp /\ t.new = o.new
      BY DEF Stays
    <2> QED
      BY <1>7, <2>1 DEF CallOK
  <1>8. ASSUME t.puts = Tail(o.puts), t.freeing = 0 PROVE CallOK(t)
    <2>1. Len(t.puts) <= 2
      BY <1>1, <1>2, <1>8
    <2>2. o.pc \in {"created", "unlink_count"} => t.puts = <<>>
      <3> SUFFICES ASSUME o.pc \in {"created", "unlink_count"} PROVE t.puts = <<>>
        OBVIOUS
      <3>1. Len(Tail(o.puts)) = 0 /\ Tail(o.puts) \in Seq(Inum)
        BY <1>2, <1>4
      <3> QED
        BY <1>8, <3>1, EmptySeq
    <2>3. t.pc = o.pc /\ t.op = o.op /\ t.cur = o.cur /\ t.ip = o.ip /\ t.dp = o.dp /\ t.new = o.new
      BY DEF Stays
    <2> QED
      BY <1>8, <2>1, <2>2, <2>3 DEF CallOK
  <1> QED
    BY <1>2, <1>3, <1>4, <1>5, <1>6, <1>7, <1>8 DEF Stays

\* What is in the hands of the call.
LEMMA StaysHolds ==
  ASSUME NEW o \in Thread, CallOK(o), o.puts # <<>>, NEW t \in Thread, Stays(t, o), NEW j \in Inum
  PROVE  /\ t.puts = o.puts => Holds(t, j) = Holds(o, j)
         /\ t.puts = Tail(o.puts) => Holds(t, j) = Holds(o, j) - Is(o.puts[1], j)
  <1>1. o.puts \in Seq(Inum) /\ Len(o.puts) <= 2
    BY Fields DEF CallOK
  <1>2. /\ Len(o.puts) \in Nat /\ Len(o.puts) >= 1
        /\ Tail(o.puts) \in Seq(Inum) /\ Len(Tail(o.puts)) = Len(o.puts) - 1
        /\ \A n \in 1 .. Len(o.puts) - 1 : Tail(o.puts)[n] = o.puts[n + 1]
    BY <1>1, First
  <1>3. Put(o, 1) = o.puts[1]
    BY <1>2 DEF Put
  <1>4. t.puts = o.puts => Holds(t, j) = Holds(o, j)
    BY DEF Holds, Put, Stays
  <1>5. ASSUME t.puts = Tail(o.puts) PROVE Put(t, 1) = Put(o, 2) /\ Put(t, 2) = 0
    <2>1. CASE Len(o.puts) = 1
      BY <1>2, <1>5, <2>1 DEF Put
    <2>2. CASE Len(o.puts) = 2
      <3>1. Len(t.puts) = 1 /\ t.puts[1] = o.puts[2]
        BY <1>2, <1>5, <2>2
      <3> QED
        BY <2>2, <3>1 DEF Put
    <2>3. Len(o.puts) = 1 \/ Len(o.puts) = 2
      <3>1. \A n \in Nat : n >= 1 /\ n <= 2 => n = 1 \/ n = 2
        OBVIOUS
      <3>2. Len(o.puts) \in Nat /\ Len(o.puts) >= 1 /\ Len(o.puts) <= 2
        BY <1>1, <1>2, Zenon
      <3> QED
        BY <3>1, <3>2, Zenon
    <2> QED
      BY <2>1, <2>2, <2>3
  <1>6. ASSUME t.puts = Tail(o.puts) PROVE Holds(t, j) = Holds(o, j) - Is(o.puts[1], j)
    <2>1. Holds(t, j) = Is(o.cur, j) + Is(o.ip, j) + Is(o.dp, j) + Is(Put(o, 2), j) + Is(0, j)
      BY <1>5, <1>6 DEF Holds, Stays
    <2>2. Holds(o, j) = Is(o.cur, j) + Is(o.ip, j) + Is(o.dp, j) + Is(o.puts[1], j) + Is(Put(o, 2), j)
      BY <1>3 DEF Holds
    <2> QED
      BY <2>1, <2>2, IsNat
  <1> QED
    BY <1>4, <1>6

\* Everything but inode i is left alone.
Elsewhere(i) ==
  /\ UNCHANGED <<files, committed>>
  /\ \A j \in Inum \ {i} : /\ icache'[j] = icache[j] /\ disk'[j] = disk[j]
                           /\ j \in leaked \cup lost => j \in leaked' \cup lost'

\* The others that have i in their hands and locked do not notice.
Unnoticed(p, i) ==
  \A q \in Proc \ {p} : icache[i].busy = q /\ Holds(th[q], i) > 0 =>
    /\ icache'[i].busy = icache[i].busy /\ icache'[i].valid = icache[i].valid
    /\ icache'[i].nlink = icache[i].nlink /\ disk'[i].type = disk[i].type

\* The first inode that p has to put is i.
Puts(p, i) == th[p].puts # <<>> /\ th[p].puts[1] = i

\* A step of iput of inode i.
LEMMA PutStep ==
  ASSUME Body, NEW p \in Proc, NEW i, Puts(p, i), NEW t \in Thread, Stays(t, th[p]),
         th' = [th EXCEPT ![p] = t], Elsewhere(i),
         icache' \in [Inum -> CacheEntry], disk' \in DiskType, Unnoticed(p, i),
         \/ t.puts = th[p].puts /\ icache'[i].ref = icache[i].ref
         \/ t.puts = Tail(th[p].puts) /\ icache'[i].ref = icache[i].ref - 1,
         CacheOK(i)', ReclaimOK(i)',
         t.freeing # 0 =>
           /\ t.puts = th[p].puts /\ icache'[i].busy = p /\ icache'[i].valid /\ icache'[i].nlink = 0
           /\ t.freeing = 2 => disk'[i].type = "free"
  PROVE  Body'
  <1> DEFINE o == th[p]
  <1>1. /\ o \in Thread /\ CallOK(o) /\ ProcessOK(p) /\ th \in [Proc -> Thread] /\ LocksOK(p)
        /\ o.puts # <<>> /\ i = o.puts[1]
    BY DEF Body, Typed, RestTyped, ProcessOK, Puts
  <1>2. /\ CallOK(t) /\ (Gone(t) <=> Gone(o)) /\ i \in Inum /\ o.pc \notin {"create_new", "unlink_ip"}
        /\ o.pc \in {"created", "unlink_count"} => o.ip # i /\ o.ip \in Inum
    BY <1>1, StaysOK
  <1>3. /\ cwd' = cwd /\ ofile' = ofile /\ ftable' = ftable /\ committed' = committed
        /\ \A j \in Inum \ {i} : icache'[j] = icache[j] /\ disk'[j] = disk[j]
    BY DEF Elsewhere, files
  <1>4. /\ th' \in [Proc -> Thread] /\ th'[p] = t /\ \A q \in Proc \ {p} : th'[q] = th[q]
        /\ t.pc = o.pc /\ t.ip = o.ip
    BY <1>1 DEF Stays
  <1>5. Alone(p)
    BY <1>3, <1>4 DEF Alone
  <1>6. ASSUME NEW j PROVE Coming(th', j) <=> Coming(th, j)
    BY <1>4 DEF Coming
  <1>7. ProcessOK(p)'
    BY <1>1, <1>2, <1>3, <1>4 DEF ProcessOK
  <1>8. Typed' /\ FilesOK'
    BY <1>3, <1>4 DEF Body, Typed, RestTyped, FilesOK
  <1>9. LocksOK(p)'
    <2>1. t.pc \notin {"create_new", "unlink_ip"}
      BY <1>2, <1>4
    <2>2. t.pc \in {"created", "unlink_count"} => icache'[t.ip].busy = p /\ icache'[t.ip].valid
      BY <1>1, <1>2, <1>3, <1>4 DEF LocksOK
    <2>3. t.freeing # 0 => t.puts[1] = i
      BY <1>1
    <2> QED
      BY <1>4, <2>1, <2>2, <2>3 DEF LocksOK
  <1>10. ASSUME NEW j \in Inum PROVE CacheOK(j)' /\ ReclaimOK(j)'
    <2>1. CASE j = i
      BY <2>1
    <2>2. CASE j # i
      <3>1. icache'[j] = icache[j] /\ disk'[j] = disk[j] /\ CacheOK(j) /\ ReclaimOK(j)
        BY <1>3, <2>2 DEF Body
      <3>2. Same(j)
        BY <3>1 DEF Same, CacheOK
      <3>3. Freed(th, j) => Freed(th', j)
        BY <1>1, <1>4, <2>2 DEF Freed
      <3>4. j \in leaked \cup lost => j \in leaked' \cup lost'
        BY <2>2 DEF Elsewhere
      <3> QED
        BY <1>6, <3>2, <3>3, <3>4, EntryKept
    <2> QED
      BY <2>1, <2>2
  <1>11. Polite(p)
    <2> SUFFICES ASSUME NEW j \in Inum, NEW q \in Proc \ {p}, icache[j].busy = q, Holds(th[q], j) > 0
                 PROVE  /\ icache'[j].busy = icache[j].busy
                        /\ icache'[j].valid = icache[j].valid /\ icache'[j].nlink = icache[j].nlink
                        /\ Coming(th', j) \/ (disk'[j].type = disk[j].type /\ ~Coming(th, j))
      BY DEF Polite
    <2>1. CASE j = i
      BY <1>6, <2>1 DEF Unnoticed
    <2>2. CASE j # i
      BY <1>3, <1>6, <2>2
    <2> QED
      BY <2>1, <2>2
  <1>12. Counted(p)
    <2> SUFFICES ASSUME NEW j \in Inum
                 PROVE  icache'[j].ref = icache[j].ref + Weight(cwd'[p], th'[p], j) + Files(j)'
                                         - Weight(cwd[p], th[p], j) - Files(j)
      BY DEF Counted
    <2>1. Files(j)' = Files(j) /\ Files(j) \in Nat
      BY <1>3, PointersIs DEF Files
    <2>2. Weight(cwd'[p], th'[p], j) = Is(cwd[p], j) + Holds(t, j)
      BY <1>3, <1>4 DEF Weight
    <2>3. Weight(cwd[p], th[p], j) = Is(cwd[p], j) + Holds(o, j)
      BY DEF Weight
    <2>4. Holds(t, j) \in Nat /\ Holds(o, j) \in Nat /\ Is(cwd[p], j) \in Nat /\ icache[j].ref \in Nat
      BY HoldsNat, IsNat DEF Body, Typed, CacheEntry
    <2>5. icache'[j].ref = icache[j].ref + Holds(t, j) - Holds(o, j)
      <3>1. CASE t.puts = o.puts /\ icache'[i].ref = icache[i].ref
        <4>1. Holds(t, j) = Holds(o, j)
          BY <1>1, <3>1, StaysHolds
        <4>2. icache'[j].ref = icache[j].ref
          BY <1>3, <3>1
        <4> QED
          BY <2>4, <4>1, <4>2
      <3>2. CASE t.puts = Tail(o.puts) /\ icache'[i].ref = icache[i].ref - 1
        <4>1. Holds(t, j) = Holds(o, j) - Is(i, j)
          BY <1>1, <3>2, StaysHolds
        <4>2. icache'[j].ref = icache[j].ref - Is(i, j)
          BY <1>3, <2>4, <3>2 DEF Is
        <4> QED
          BY <2>4, <4>1, <4>2, IsNat
      <3> QED
        BY <3>1, <3>2
    <2> QED
      BY <2>1, <2>2, <2>3, <2>4, <2>5
  <1> QED
    BY <1>5, <1>7, <1>8, <1>9, <1>10, <1>11, <1>12, BodyStep

\* An entry that is not in use.
LEMMA EmptyEntry ==
  Empty \in CacheEntry /\ Empty.ref = 0 /\ Empty.busy = NoProc /\ ~Empty.valid
  BY DEF Empty, CacheEntry, InodeType

\* What the drop of a reference leaves.
LEMMA DroppedIs ==
  ASSUME NEW c \in CacheEntry, c.ref > 0
  PROVE  /\ Dropped(c) \in CacheEntry /\ Dropped(c).ref = c.ref - 1
         /\ c.ref = 1 => Dropped(c).busy = NoProc /\ ~Dropped(c).valid
         /\ c.ref # 1 => /\ Dropped(c).busy = c.busy /\ Dropped(c).valid = c.valid
                         /\ Dropped(c).type = c.type /\ Dropped(c).nlink = c.nlink
  <1>1. CASE c.ref = 1
    BY <1>1, EmptyEntry DEF Dropped
  <1>2. CASE c.ref # 1
    <2>1. c.ref - 1 \in Nat
      BY DEF CacheEntry
    <2>2. Dropped(c) = [c EXCEPT !.ref = c.ref - 1]
      BY <1>2 DEF Dropped
    <2> QED
      BY <1>2, <2>1, <2>2 DEF CacheEntry
  <1> QED
    BY <1>1, <1>2

\* What an iput starts from.
LEMMA PutIs ==
  ASSUME Body, NEW p \in Proc, NEW i, Puts(p, i)
  PROVE  /\ th[p] \in Thread /\ CallOK(th[p]) /\ i \in Inum /\ Head(th[p].puts) = i
         /\ icache[i].ref > 0 /\ icache[i].ref \in Nat
         /\ icache[i] \in CacheEntry /\ icache \in [Inum -> CacheEntry] /\ disk \in DiskType
         /\ CacheOK(i) /\ ReclaimOK(i)
         /\ \A q \in Proc \ {p} : Holds(th[q], i) > 0 => icache[i].ref # 1
  <1> DEFINE o == th[p]
  <1>1. /\ o \in Thread /\ CallOK(o) /\ icache \in [Inum -> CacheEntry] /\ disk \in DiskType
        /\ o.puts # <<>> /\ i = o.puts[1]
    BY DEF Body, Typed, RestTyped, ProcessOK, Puts
  <1>2. Stays(o, o)
    BY DEF Stays
  <1>3. i \in Inum /\ Head(o.puts) = i /\ Put(o, 1) = i
    BY <1>1, <1>2, StaysOK
  <1>4. icache[i].ref > 0
    BY <1>3, InCache
  <1>5. icache[i] \in CacheEntry /\ icache[i].ref \in Nat /\ CacheOK(i) /\ ReclaimOK(i) /\ icache[i].ref = PointersTo(i)
    BY <1>1, <1>3 DEF CacheEntry, Body
  <1>6. Holds(o, i) >= 1 /\ Holds(o, i) \in Nat
    BY <1>3 DEF Holds, Is
  <1>7. ASSUME NEW q \in Proc \ {p}, Holds(th[q], i) > 0 PROVE icache[i].ref # 1
    <2>1. PointersTo(i) >= Weight(cwd[p], th[p], i) + Weight(cwd[q], th[q], i)
      BY <1>3, PointedTwice
    <2>2. /\ Weight(cwd[p], th[p], i) = Is(cwd[p], i) + Holds(o, i)
          /\ Weight(cwd[q], th[q], i) = Is(cwd[q], i) + Holds(th[q], i)
      BY DEF Weight
    <2>3. Is(cwd[p], i) \in Nat /\ Is(cwd[q], i) \in Nat /\ Holds(th[q], i) \in Nat
      BY <1>3, IsNat, HoldsNat
    <2> QED
      BY <1>5, <1>6, <1>7, <2>1, <2>2, <2>3
  <1> QED
    BY <1>1, <1>3, <1>4, <1>5, <1>7

\* iput drops the reference.
LEMMA DropStep ==
  ASSUME Body, NEW p \in Proc, NEW i, Puts(p, i), th[p].freeing = 0, ~LastRef(icache[i]),
         icache' = Drop(i), th' = [th EXCEPT ![p].puts = Tail(th[p].puts)],
         UNCHANGED <<disk, committed, files, history>>
  PROVE  Body'
  <1> DEFINE o == th[p]
             t == [o EXCEPT !.puts = Tail(o.puts)]
  <1>1. /\ o \in Thread /\ CallOK(o) /\ i \in Inum /\ icache[i].ref > 0 /\ icache[i].ref \in Nat
        /\ icache[i] \in CacheEntry /\ icache \in [Inum -> CacheEntry] /\ disk \in DiskType
        /\ CacheOK(i) /\ ReclaimOK(i)
        /\ \A q \in Proc \ {p} : Holds(th[q], i) > 0 => icache[i].ref # 1
    BY PutIs
  <1>2. o.puts \in Seq(Inum) /\ Tail(o.puts) \in Seq(Inum)
    BY <1>1, Fields, First DEF Puts
  <1>3. t \in Thread /\ Stays(t, o) /\ t.freeing = 0 /\ t.puts = Tail(o.puts) /\ t.pc = o.pc /\ t.ip = o.ip
    BY <1>1, <1>2 DEF Thread, Stays
  <1>4. th' = [th EXCEPT ![p] = t]
    BY DEF Body, Typed, RestTyped
  <1> HIDE DEF t
  <1>5. icache' = [icache EXCEPT ![i] = Dropped(icache[i])]
    BY DEF Drop
  <1>6. /\ Dropped(icache[i]) \in CacheEntry /\ Dropped(icache[i]).ref = icache[i].ref - 1
        /\ icache[i].ref = 1 => Dropped(icache[i]).busy = NoProc /\ ~Dropped(icache[i]).valid
        /\ icache[i].ref # 1 => /\ Dropped(icache[i]).busy = icache[i].busy
                                /\ Dropped(icache[i]).valid = icache[i].valid
                                /\ Dropped(icache[i]).type = icache[i].type
                                /\ Dropped(icache[i]).nlink = icache[i].nlink
    BY <1>1, DroppedIs
  <1>7. /\ icache' \in [Inum -> CacheEntry] /\ icache'[i] = Dropped(icache[i])
        /\ \A j \in Inum \ {i} : icache'[j] = icache[j]
    BY <1>1, <1>5, <1>6
  <1>8. Elsewhere(i) /\ disk' \in DiskType /\ disk' = disk
    BY <1>1, <1>7 DEF Elsewhere, history, marks
  <1>9. Unnoticed(p, i)
    BY <1>1, <1>6, <1>7, <1>8 DEF Unnoticed
  <1>10. Same(i)
    <2>1. icache[i].valid => icache'[i].valid \/ disk[i].nlink # 0
      BY <1>1, <1>6, <1>7 DEF LastRef, CacheOK
    <2>2. icache'[i].valid => icache[i].ref # 1 /\ icache'[i].ref > 0
      BY <1>1, <1>6, <1>7
    <2>3. icache'[i].ref = 0 => icache'[i].busy = NoProc
      BY <1>1, <1>6, <1>7
    <2> QED
      BY <1>6, <1>7, <1>8, <2>1, <2>2, <2>3 DEF Same
  <1>11. Alone(p) /\ th'[p] = t
    BY <1>4 DEF Alone, files, Body, Typed, RestTyped
  <1>12. Freed(th, i) => Freed(th', i)
    BY <1>11 DEF Freed, Alone
  <1>13. Coming(th, i) => Coming(th', i)
    BY <1>3, <1>11 DEF Coming, Alone
  <1>14. i \in leaked \cup lost => i \in leaked' \cup lost'
    BY DEF history, marks
  <1>15. CacheOK(i)' /\ ReclaimOK(i)'
    BY <1>1, <1>10, <1>12, <1>13, <1>14, EntryKept
  <1> QED
    BY <1>3, <1>4, <1>6, <1>7, <1>8, <1>9, <1>15, PutStep

\* iput marks the inode busy in order to free it.
LEMMA BusyStep ==
  ASSUME Body, NEW p \in Proc, NEW i, Puts(p, i), th[p].freeing = 0, LastRef(icache[i]), Lockable(i),
         icache' = [icache EXCEPT ![i].busy = p], th' = [th EXCEPT ![p].freeing = 1],
         UNCHANGED <<disk, committed, files, history>>
  PROVE  Body'
  <1> DEFINE o == th[p]
             t == [o EXCEPT !.freeing = 1]
  <1>1. /\ o \in Thread /\ CallOK(o) /\ i \in Inum /\ icache[i].ref > 0 /\ icache[i].ref \in Nat
        /\ icache[i] \in CacheEntry /\ icache \in [Inum -> CacheEntry] /\ disk \in DiskType
        /\ CacheOK(i) /\ ReclaimOK(i)
    BY PutIs
  <1>2. 1 \in 0 .. 2
    OBVIOUS
  <1>3. t \in Thread /\ Stays(t, o) /\ t.freeing = 1 /\ t.puts = o.puts /\ t.pc = o.pc /\ t.ip = o.ip
    <2>1. t \in Thread
      BY <1>1, <1>2 DEF Thread
    <2>2. /\ t.freeing = 1 /\ t.puts = o.puts /\ t.pc = o.pc /\ t.op = o.op /\ t.new = o.new
          /\ t.cur = o.cur /\ t.ip = o.ip /\ t.dp = o.dp
      BY <1>1 DEF Thread
    <2> HIDE DEF t
    <2> QED
      BY <2>1, <2>2 DEF Stays
  <1>4. th' = [th EXCEPT ![p] = t]
    BY DEF Body, Typed, RestTyped
  <1> HIDE DEF t
  <1>7. /\ icache' \in [Inum -> CacheEntry]
        /\ icache'[i].ref = icache[i].ref /\ icache'[i].busy = p /\ icache'[i].valid = icache[i].valid
        /\ icache'[i].type = icache[i].type /\ icache'[i].nlink = icache[i].nlink
        /\ \A j \in Inum \ {i} : icache'[j] = icache[j]
    BY <1>1 DEF CacheEntry
  <1>8. Elsewhere(i) /\ disk' \in DiskType /\ disk' = disk
    BY <1>1, <1>7 DEF Elsewhere, history, marks
  <1>9. icache[i].busy = NoProc /\ icache[i].valid /\ icache[i].nlink = 0
    BY DEF Lockable, LastRef
  <1>10. Unnoticed(p, i)
    BY <1>9, FileSystemAssumption DEF Unnoticed
  <1>11. Same(i)
    BY <1>1, <1>7, <1>8 DEF Same
  <1>12. Alone(p) /\ th'[p] = t
    BY <1>4 DEF Alone, files, Body, Typed, RestTyped
  <1>13. Freed(th, i) => Freed(th', i)
    BY <1>12 DEF Freed, Alone
  <1>14. Coming(th, i) => Coming(th', i)
    BY <1>3, <1>12 DEF Coming, Alone
  <1>15. i \in leaked \cup lost => i \in leaked' \cup lost'
    BY DEF history, marks
  <1>16. CacheOK(i)' /\ ReclaimOK(i)'
    BY <1>1, <1>11, <1>13, <1>14, <1>15, EntryKept
  <1>17. t.freeing # 0 =>
           /\ t.puts = th[p].puts /\ icache'[i].busy = p /\ icache'[i].valid /\ icache'[i].nlink = 0
           /\ t.freeing = 2 => disk'[i].type = "free"
    BY <1>3, <1>7, <1>9
  <1> QED
    BY <1>3, <1>4, <1>7, <1>8, <1>10, <1>16, <1>17, PutStep

\* iput up to the release of icache.lock.
LEMMA IputStep ==
  ASSUME Body, NEW p \in Proc, iput(p), panicked' = "none"
  PROVE  Body'
  <1>1. th[p].puts # <<>> /\ th[p].freeing = 0 /\ UNCHANGED <<disk, committed, files, history>>
    BY DEF iput
  <1>2. PICK i : i = th[p].puts[1]
    OBVIOUS
  <1>3. Puts(p, i)
    BY <1>1, <1>2 DEF Puts
  <1>4. Head(th[p].puts) = i
    BY <1>2, <1>3, PutIs
  <1>5. CASE ~LastRef(icache[i])
    BY <1>1, <1>3, <1>4, <1>5, DropStep DEF iput
  <1>6. CASE LastRef(icache[i])
    <2>1. Lockable(i)
      BY <1>4, <1>6 DEF iput
    <2> QED
      BY <1>1, <1>3, <1>4, <1>6, <2>1, BusyStep DEF iput
  <1> QED
    BY <1>5, <1>6

\* The inode that process p is freeing.
LEMMA FreeingIs ==
  ASSUME Body, NEW p \in Proc, th[p].freeing # 0
  PROVE  /\ th[p].puts # <<>>
         /\ \A i : Puts(p, i) => /\ icache[i].busy = p /\ icache[i].valid /\ icache[i].nlink = 0
                                 /\ th[p].freeing = 2 => disk[i].type = "free" \/ Coming(th, i)
  BY DEF Body, ProcessOK, CallOK, LocksOK, Puts

\* iput frees the inode on the disk.
LEMMA FreeStep ==
  ASSUME Body, NEW p \in Proc, iput_free(p)
  PROVE  Body'
  <1> DEFINE o == th[p]
             t == [o EXCEPT !.freeing = 2]
  <1>1. o.freeing = 1 /\ o.puts # <<>>
    BY FreeingIs DEF iput_free
  <1>2. PICK i : i = o.puts[1]
    OBVIOUS
  <1>3. Puts(p, i)
    BY <1>1, <1>2 DEF Puts
  <1>4. /\ o \in Thread /\ CallOK(o) /\ i \in Inum /\ Head(o.puts) = i
        /\ icache[i].ref > 0 /\ icache[i].ref \in Nat
        /\ icache[i] \in CacheEntry /\ icache \in [Inum -> CacheEntry] /\ disk \in DiskType
    BY <1>3, PutIs
  <1>5. icache[i].busy = p /\ icache[i].valid /\ icache[i].nlink = 0
    BY <1>1, <1>3, FreeingIs
  <1>6. 2 \in 0 .. 2
    OBVIOUS
  <1>7. t \in Thread /\ Stays(t, o) /\ t.freeing = 2 /\ t.puts = o.puts
    <2>1. t \in Thread
      BY <1>4, <1>6 DEF Thread
    <2>2. /\ t.freeing = 2 /\ t.puts = o.puts /\ t.pc = o.pc /\ t.op = o.op /\ t.new = o.new
          /\ t.cur = o.cur /\ t.ip = o.ip /\ t.dp = o.dp
      BY <1>4 DEF Thread
    <2> HIDE DEF t
    <2> QED
      BY <2>1, <2>2 DEF Stays
  <1>8. /\ th' = [th EXCEPT ![p] = t] /\ disk' = [disk EXCEPT ![i] = FreeInode]
        /\ icache' = [icache EXCEPT ![i].type = "free"]
        /\ lost' = lost \ {i} /\ leaked' = leaked /\ UNCHANGED <<committed, files>>
    BY <1>4 DEF iput_free
  <1> HIDE DEF t
  <1>9. /\ icache' \in [Inum -> CacheEntry]
        /\ icache'[i].ref = icache[i].ref /\ icache'[i].busy = icache[i].busy
        /\ icache'[i].valid = icache[i].valid /\ icache'[i].nlink = icache[i].nlink
        /\ \A j \in Inum \ {i} : icache'[j] = icache[j]
    BY <1>4, <1>8 DEF CacheEntry, InodeType
  <1>10. /\ disk' \in DiskType /\ disk'[i].type = "free" /\ disk'[i].nlink = 0
         /\ \A j \in Inum \ {i} : disk'[j] = disk[j]
    <2>1. /\ FreeInode \in [type : InodeType, nlink : Int, ents : [Name -> 0 .. NINODES]]
          /\ FreeInode.type = "free" /\ FreeInode.nlink = 0
      <3>1. NoEntries \in [Name -> 0 .. NINODES]
        BY FileSystemAssumption DEF NoEntries
      <3> QED
        BY <3>1 DEF FreeInode, InodeType
    <2> QED
      BY <1>4, <1>8, <2>1 DEF DiskType
  <1>11. Elsewhere(i)
    BY <1>8, <1>9, <1>10 DEF Elsewhere
  <1>12. Unnoticed(p, i)
    BY <1>5 DEF Unnoticed
  <1>13. th'[p] = t
    BY <1>8 DEF Body, Typed, RestTyped
  <1>14. Freed(th', i)
    BY <1>2, <1>7, <1>13 DEF Freed
  <1>15. CacheOK(i)' /\ ReclaimOK(i)'
    BY <1>4, <1>5, <1>9, <1>10, <1>14 DEF CacheOK, ReclaimOK
  <1>16. t.freeing # 0 =>
           /\ t.puts = th[p].puts /\ icache'[i].busy = p /\ icache'[i].valid /\ icache'[i].nlink = 0
           /\ t.freeing = 2 => disk'[i].type = "free"
    BY <1>5, <1>7, <1>9, <1>10
  <1> QED
    BY <1>3, <1>7, <1>8, <1>9, <1>10, <1>11, <1>12, <1>15, <1>16, PutStep

\* iput leaves the entry of the inode that it has freed.
LEMMA DoneStep ==
  ASSUME Body, NEW p \in Proc, iput_done(p)
  PROVE  Body'
  <1> DEFINE o == th[p]
             t == [o EXCEPT !.freeing = 0, !.puts = Tail(o.puts)]
  <1>1. o.freeing = 2 /\ o.puts # <<>>
    BY FreeingIs DEF iput_done
  <1>2. PICK i : i = o.puts[1]
    OBVIOUS
  <1>3. Puts(p, i)
    BY <1>1, <1>2 DEF Puts
  <1>4. /\ o \in Thread /\ CallOK(o) /\ i \in Inum /\ Head(o.puts) = i
        /\ icache[i].ref > 0 /\ icache[i].ref \in Nat
        /\ icache[i] \in CacheEntry /\ icache \in [Inum -> CacheEntry] /\ disk \in DiskType
    BY <1>3, PutIs
  <1>5. icache[i].busy = p /\ (disk[i].type = "free" \/ Coming(th, i))
    BY <1>1, <1>3, FreeingIs
  <1>6. o.puts \in Seq(Inum) /\ Tail(o.puts) \in Seq(Inum) /\ 0 \in 0 .. 2
    BY <1>1, <1>4, Fields, First
  <1>7. /\ t \in Thread /\ Stays(t, o) /\ t.freeing = 0 /\ t.puts = Tail(o.puts)
        /\ t.pc = o.pc /\ t.ip = o.ip
    <2>1. t \in Thread
      BY <1>4, <1>6 DEF Thread
    <2>2. /\ t.freeing = 0 /\ t.puts = Tail(o.puts) /\ t.pc = o.pc /\ t.op = o.op /\ t.new = o.new
          /\ t.cur = o.cur /\ t.ip = o.ip /\ t.dp = o.dp
      BY <1>4 DEF Thread
    <2> HIDE DEF t
    <2> QED
      BY <2>1, <2>2 DEF Stays
  <1>8. /\ th' = [th EXCEPT ![p] = t] /\ disk' = disk
        /\ icache' = [icache EXCEPT ![i] = Cleared(icache[i])]
        /\ lost' = lost /\ leaked' = leaked /\ UNCHANGED <<committed, files>>
    <2>1. th \in [Proc -> Thread]
      BY DEF Body, Typed, RestTyped
    <2>2. th' = [th EXCEPT ![p] = t]
      BY <1>4, <2>1 DEF iput_done
    <2> QED
      BY <1>4, <2>2 DEF iput_done, history, marks
  <1> HIDE DEF t
  <1>9. /\ Cleared(icache[i]) \in CacheEntry /\ Cleared(icache[i]).ref = icache[i].ref - 1
        /\ Cleared(icache[i]).busy = NoProc /\ ~Cleared(icache[i]).valid
    <2>1. icache[i].ref - 1 \in Nat
      BY <1>4
    <2> QED
      BY <2>1, EmptyEntry DEF Cleared, CacheEntry
  <1>10. /\ icache' \in [Inum -> CacheEntry] /\ icache'[i] = Cleared(icache[i])
         /\ \A j \in Inum \ {i} : icache'[j] = icache[j]
    BY <1>4, <1>8, <1>9
  <1>11. Elsewhere(i) /\ disk' \in DiskType
    BY <1>4, <1>8, <1>10 DEF Elsewhere
  <1>12. Unnoticed(p, i)
    BY <1>5 DEF Unnoticed
  <1>13. th'[p] = t /\ \A q \in Proc \ {p} : th'[q] = th[q]
    BY <1>8 DEF Body, Typed, RestTyped
  <1>14. Coming(th, i) => Coming(th', i)
    BY <1>7, <1>13 DEF Coming
  <1>15. CacheOK(i)' /\ ReclaimOK(i)'
    BY <1>5, <1>8, <1>9, <1>10, <1>14 DEF CacheOK, ReclaimOK
  <1> QED
    BY <1>3, <1>7, <1>8, <1>9, <1>10, <1>11, <1>12, <1>15, PutStep

-----------------------------------------------------------------------------
(***************************************************************************)
(* The machine starts.                                                     *)
(***************************************************************************)

\* Only the processes of P run, in directory h, and nothing is open.
Booted(P, h) ==
  /\ icache = [i \in Inum |-> IF i = h THEN [Empty EXCEPT !.ref = Cardinality(P)] ELSE Empty]
  /\ ftable = [f \in 1 .. NFILE |-> [ref |-> 0, ip |-> 0]]
  /\ ofile = [p \in Proc |-> [fd \in 1 .. NOFILE |-> 0]]
  /\ cwd = [p \in Proc |-> IF p \in P THEN h ELSE 0]
  /\ th = [p \in Proc |-> [Idle EXCEPT !.pc = IF p \in P THEN "user" ELSE "dead"]]
  /\ disk \in DiskType /\ committed.disk \in DiskType
  /\ \A i \in Inum : disk[i].type # "free" /\ disk[i].nlink = 0 => i \in leaked

\* A process at the start.
LEMMA BootThread ==
  ASSUME NEW l \in {"user", "dead"}, NEW t, t = [Idle EXCEPT !.pc = l]
  PROVE  /\ t \in Thread /\ CallOK(t) /\ (Gone(t) <=> l = "dead") /\ t.pc = l /\ t.freeing = 0
         /\ \A j \in Inum : Holds(t, j) = 0
  <1>1. /\ t \in Thread /\ t.pc = l /\ t.op = "none" /\ t.cur = 0 /\ t.ip = 0 /\ t.dp = 0 /\ t.puts = <<>>
        /\ t.freeing = 0
    BY IdleThread DEF Thread, Pcs
  <1>2. CallOK(t) /\ (Gone(t) <=> l = "dead")
    BY <1>1 DEF CallOK, Gone, Creating, PathOps
  <1>3. ASSUME NEW j \in Inum PROVE Holds(t, j) = 0
    <2>1. Holds(t, j) = Is(0, j) + Is(0, j) + Is(0, j)
      BY <1>1, HoldsIs
    <2> QED
      BY <2>1, IsNat
  <1> QED
    BY <1>1, <1>2, <1>3

\* The pointers to that directory are the current directories.
LEMMA BootPointers ==
  ASSUME NEW P \in SUBSET Proc, NEW h \in Inum, NEW i \in Inum, Booted(P, h)
  PROVE  Cardinality(Table(cwd, th, i)) = IF i = h THEN Cardinality(P) ELSE 0
  <1>1. ASSUME NEW p \in Proc, NEW k \in Place
        PROVE  Pointer(cwd[p], th[p], k) = i <=> p \in P /\ k = "cwd" /\ i = h
    <2>1. i # 0
      BY FileSystemAssumption DEF Inum
    <2>2. /\ th[p].cur = 0 /\ th[p].ip = 0 /\ th[p].dp = 0 /\ th[p].puts = <<>>
          /\ cwd[p] = IF p \in P THEN h ELSE 0
      BY IdleThread DEF Booted, Idle
    <2>3. Put(th[p], 1) = 0 /\ Put(th[p], 2) = 0
      BY <2>2 DEF Put
    <2>4. CASE k = "cwd"
      BY <2>1, <2>2, <2>4 DEF Pointer
    <2>5. CASE k # "cwd"
      BY <2>1, <2>2, <2>3, <2>5 DEF Pointer, Place
    <2> QED
      BY <2>4, <2>5
  <1>2. CASE i = h
    <2>1. Table(cwd, th, i) = P \X {"cwd"}
      BY <1>1, <1>2 DEF Table, Place
    <2>2. IsFiniteSet(P) /\ IsFiniteSet({"cwd"}) /\ Cardinality({"cwd"}) = 1 /\ Cardinality(P) \in Nat
      BY FilesFinite, FS_Subset, FS_Singleton, FS_CardinalityType
    <2>3. Cardinality(P \X {"cwd"}) = Cardinality(P) * Cardinality({"cwd"})
      BY <2>2, FS_Product
    <2> QED
      BY <1>2, <2>1, <2>2, <2>3
  <1>3. CASE i # h
    <2>1. Table(cwd, th, i) = {}
      BY <1>1, <1>3 DEF Table
    <2> QED
      BY <1>3, <2>1, FS_EmptySet
  <1> QED
    BY <1>2, <1>3

\* The invariant holds when the machine starts.
LEMMA Boots ==
  \A P \in SUBSET Proc, h \in Inum : Booted(P, h) => Body /\ FileRefs
  <1> SUFFICES ASSUME NEW P \in SUBSET Proc, NEW h \in Inum, Booted(P, h) PROVE Body /\ FileRefs
    OBVIOUS
  <1>0. 0 \in 0 .. NINODES /\ 0 \in 0 .. NFILE /\ h \in 0 .. NINODES /\ h # 0
    BY FileSystemAssumption DEF Inum
  <1>1. /\ \A f \in 1 .. NFILE : ftable[f].ref = 0 /\ ftable[f].ip = 0
        /\ \A p \in Proc, fd \in 1 .. NOFILE : ofile[p][fd] = 0
        /\ \A p \in Proc : cwd[p] = IF p \in P THEN h ELSE 0
    BY DEF Booted
  <1>2. ASSUME NEW p \in Proc
        PROVE  /\ th[p] \in Thread /\ CallOK(th[p]) /\ (Gone(th[p]) <=> p \notin P)
               /\ th[p].pc \in {"user", "dead"} /\ th[p].freeing = 0
    <2> DEFINE l == IF p \in P THEN "user" ELSE "dead"
    <2>1. th[p] = [Idle EXCEPT !.pc = l] /\ l \in {"user", "dead"} /\ (l = "dead" <=> p \notin P)
      BY DEF Booted
    <2> HIDE DEF l
    <2> QED
      BY <2>1, BootThread
  <1>3. IsFiniteSet(P) /\ Cardinality(P) \in Nat
    BY FilesFinite, FS_Subset, FS_CardinalityType
  <1>4. ASSUME NEW i \in Inum
        PROVE  /\ icache[i] \in CacheEntry /\ ~icache[i].valid /\ icache[i].busy = NoProc
               /\ icache[i].ref = IF i = h THEN Cardinality(P) ELSE 0
    <2>1. icache[i] = IF i = h THEN [Empty EXCEPT !.ref = Cardinality(P)] ELSE Empty
      BY DEF Booted
    <2> QED
      BY <1>3, <2>1, EmptyEntry DEF CacheEntry
  <1>5. Typed
    <2>1. icache \in [Inum -> CacheEntry]
      BY <1>4 DEF Booted
    <2>2. th \in [Proc -> Thread]
      BY <1>2 DEF Booted
    <2>3. /\ ftable \in [1 .. NFILE -> [ref : Nat, ip : 0 .. NINODES]]
          /\ ofile \in [Proc -> [1 .. NOFILE -> 0 .. NFILE]]
          /\ cwd \in [Proc -> 0 .. NINODES]
      BY <1>0 DEF Booted
    <2> QED
      BY <2>1, <2>2, <2>3 DEF Typed, RestTyped, Booted
  <1>6. \A p \in Proc : ProcessOK(p)
    BY <1>0, <1>1, <1>2 DEF ProcessOK
  <1>7. FilesOK
    BY <1>1 DEF FilesOK
  <1>8. ASSUME NEW i \in Inum PROVE icache[i].ref = PointersTo(i)
    <2>1. Cardinality(Table(cwd, th, i)) = IF i = h THEN Cardinality(P) ELSE 0
      BY BootPointers
    <2>2. Files(i) = 0
      <3>1. i # 0
        BY FileSystemAssumption DEF Inum
      <3>2. {f \in 1 .. NFILE : ftable[f].ip = i} = {}
        BY <1>1, <3>1
      <3> QED
        BY <3>2, FS_EmptySet DEF Files
    <2>3. PointersTo(i) = Cardinality(Table(cwd, th, i)) + Files(i)
      BY PointersIs
    <2> QED
      BY <1>3, <1>4, <2>1, <2>2, <2>3
  <1>9. \A p \in Proc : LocksOK(p)
    BY <1>2 DEF LocksOK
  <1>10. \A i \in Inum : CacheOK(i) /\ ReclaimOK(i)
    BY <1>4 DEF CacheOK, ReclaimOK, Booted
  <1>11. FileRefs
    <2>1. ASSUME NEW f \in 1 .. NFILE PROVE Cardinality(Descr(ofile, f)) = 0
      <3>1. f # 0
        BY FileSystemAssumption
      <3>2. Descr(ofile, f) = {}
        BY <1>1, <3>1 DEF Descr
      <3> QED
        BY <3>2, FS_EmptySet
    <2> QED
      BY <1>1, <2>1, RefsAre
  <1> QED
    BY <1>5, <1>6, <1>7, <1>8, <1>9, <1>10, <1>11 DEF Body

\* The same of the next state.
LEMMA BootsNext ==
  \A P \in SUBSET Proc, h \in Inum : Booted(P, h)' => Body' /\ FileRefs'
  <1>1. (\A P \in SUBSET Proc, h \in Inum : Booted(P, h) => Body /\ FileRefs)'
    BY Boots, PTL
  <1> QED
    BY <1>1

\* The first state.
LEMMA InitBody ==
  ASSUME Init
  PROVE  Body /\ FileRefs
  <1>1. disk \in Trees /\ disk \in [1 .. NINODES -> [type : InodeType, nlink : Nat, ents : [Name -> 0 .. NINODES]]]
    BY InputsAssumption DEF Init
  <1>2. disk \in DiskType /\ committed.disk = disk
    BY <1>1 DEF Init, DiskType, Inum
  <1>3. \A i \in Inum : disk[i].type # "free" => disk[i].nlink # 0
    <2>1. \A i \in 1 .. NINODES : disk[i].type # "free" => disk[i].nlink > 0
      BY <1>1, InputsAssumption, Zenon
    <2>2. \A i \in 1 .. NINODES : disk[i].nlink \in Nat
      BY <1>1
    <2> QED
      BY <2>1, <2>2 DEF Inum
  <1>4. \A p \in Proc : [Idle EXCEPT !.pc = IF p \in Proc THEN "user" ELSE "dead"] = Idle
    BY DEF Idle
  <1>5. th = [p \in Proc |-> [Idle EXCEPT !.pc = IF p \in Proc THEN "user" ELSE "dead"]]
    BY <1>4 DEF Init
  <1>6. PICK h \in Inum :
          /\ icache = [i \in Inum |-> IF i = h THEN [Empty EXCEPT !.ref = Cardinality(Proc)] ELSE Empty]
          /\ cwd = [p \in Proc |-> h]
    BY DEF Init
  <1>7. Booted(Proc, h)
    BY <1>2, <1>3, <1>5, <1>6 DEF Init, Booted
  <1> QED
    BY <1>7, Boots

\* The state after a crash: what is without links on the disk has leaked.
LEMMA CrashStep ==
  ASSUME Body, Crash
  PROVE  Body' /\ FileRefs'
  <1> DEFINE P == {initproc}
  <1>1. P \in SUBSET Proc /\ Cardinality(P) = 1
    BY FileSystemAssumption, FS_Singleton
  <1>2. /\ icache' = [i \in Inum |-> IF i = ROOTINO THEN [Empty EXCEPT !.ref = Cardinality(P)] ELSE Empty]
        /\ ftable' = [f \in 1 .. NFILE |-> [ref |-> 0, ip |-> 0]]
        /\ ofile' = [p \in Proc |-> [fd \in 1 .. NOFILE |-> 0]]
    BY <1>1 DEF Crash
  <1>3. /\ cwd' = [p \in Proc |-> IF p \in P THEN ROOTINO ELSE 0]
        /\ th' = [p \in Proc |-> [Idle EXCEPT !.pc = IF p \in P THEN "user" ELSE "dead"]]
    BY DEF Crash
  <1>4. disk' \in DiskType /\ committed'.disk \in DiskType
    BY DEF Crash, Body, Typed, RestTyped
  <1>5. \A i \in Inum : disk'[i].type # "free" /\ disk'[i].nlink = 0 => i \in leaked'
    BY DEF Crash
  <1>6. Booted(P, ROOTINO)' /\ ROOTINO \in Inum
    BY <1>2, <1>3, <1>4, <1>5, FileSystemAssumption DEF Booted, ROOTINO, Inum
  <1> QED
    BY <1>1, <1>6, BootsNext

-----------------------------------------------------------------------------
(***************************************************************************)
(* The theorems.                                                           *)
(***************************************************************************)

\* Steps that do not touch files and descriptors.
LEMMA RefsKept ==
  ASSUME FileRefs, ftable' = ftable, ofile' = ofile
  PROVE  FileRefs'
  BY DEF FileRefs

\* The reference counts of files, whether the kernel panics or not.
LEMMA InsideRefs ==
  ASSUME Body, FileRefs, NEW p \in Proc, Inside(p)
  PROVE  FileRefs'
  <1>1. CASE iput(p) \/ iput_free(p) \/ iput_done(p)
    BY <1>1, RefsKept DEF iput, iput_free, iput_done, files
  <1>2. CASE namex(p) \/ namex_end(p) \/ end_op(p)
    BY <1>2, RefsKept DEF namex, namex_end, end_op, files
  <1>3. CASE create_found(p) \/ create_ialloc(p) \/ create_new(p)
    BY <1>3, RefsKept DEF create_found, create_ialloc, create_new, files
  <1>4. CASE link(p) \/ link_dir(p) \/ link_bad(p)
    BY <1>4, RefsKept DEF link, link_dir, link_bad, files
  <1>5. CASE unlink(p) \/ unlink_ip(p) \/ unlink_count(p)
    BY <1>5, RefsKept DEF unlink, unlink_ip, unlink_count, files
  <1>6. CASE chdir(p)
    BY <1>6, RefsKept DEF chdir
  <1>7. CASE \E rdonly \in BOOLEAN : open(p, rdonly)
    BY <1>7, RefsKept, OpenRefs DEF open, files
  <1>8. CASE create_old(p)
    BY <1>8, RefsKept, OpenRefs DEF create_old, files
  <1>9. CASE created(p)
    BY <1>9, RefsKept, OpenRefs DEF created, files
  <1> QED
    BY <1>1, <1>2, <1>3, <1>4, <1>5, <1>6, <1>7, <1>8, <1>9 DEF Inside

\* The invariant over a step inside a call.
LEMMA InsideBody ==
  ASSUME Body, NEW p \in Proc, Inside(p), panicked' = "none"
  PROVE  Body'
  <1>1. CASE iput(p) \/ iput_free(p) \/ iput_done(p)
    BY <1>1, IputStep, FreeStep, DoneStep
  <1>2. CASE namex(p) \/ namex_end(p) \/ end_op(p)
    BY <1>2, NamexStep, NamexEndStep, EndStep
  <1>3. CASE create_found(p) \/ create_ialloc(p) \/ create_new(p)
    BY <1>3, FoundStep, IallocStep, CreateStep
  <1>4. CASE link(p) \/ link_dir(p) \/ link_bad(p)
    BY <1>4, LinkStep, LinkDirStep, LinkBadStep
  <1>5. CASE unlink(p) \/ unlink_ip(p) \/ unlink_count(p)
    BY <1>5, UnlinkStep, UnlinkIpStep, UnlinkCountStep
  <1>6. CASE chdir(p) \/ create_old(p) \/ created(p)
    BY <1>6, ChdirStep, CreateOldStep, CreatedStep
  <1>7. CASE \E rdonly \in BOOLEAN : open(p, rdonly)
    BY <1>7, OpenedStep
  <1> QED
    BY <1>1, <1>2, <1>3, <1>4, <1>5, <1>6, <1>7 DEF Inside

\* The invariant over a call from user mode.
LEMMA CallBody ==
  ASSUME Body, FileRefs, NEW p \in Proc, Call(p)
  PROVE  FileRefs' /\ (panicked' = "none" => Body')
  <1>1. CASE \E c \in Calls : begin_op(p, c)
    <2>1. PICK c \in Calls : begin_op(p, c)
      BY <1>1
    <2>2. Body'
      BY <2>1, BeginStep
    <2>3. FileRefs'
      BY <2>1, RefsKept DEF begin_op, files
    <2> QED
      BY <2>2, <2>3
  <1>2. ASSUME NEW fd \in 1 .. NOFILE, fstat(p, fd) PROVE FileRefs' /\ (panicked' = "none" => Body')
    <2>1. FileRefs'
      BY <1>2, RefsKept DEF fstat, files
    <2>2. panicked' = "none" => Body'
      BY <1>2, FstatStep
    <2> QED
      BY <2>1, <2>2
  <1>3. ASSUME NEW fd \in 1 .. NOFILE, dup(p, fd) \/ close(p, fd) PROVE FileRefs' /\ Body'
    BY <1>3, DupStep, CloseStep
  <1>4. ASSUME NEW q \in Proc, fork(p, q) PROVE FileRefs' /\ Body'
    BY <1>4, ForkStep, ForkRefs
  <1>5. CASE exit(p)
    <2>1. FileRefs'
      BY <1>5, RefsKept DEF exit
    <2> QED
      BY <1>5, <2>1, ExitStep
  <1> QED
    BY <1>1, <1>2, <1>3, <1>4, <1>5 DEF Call

\* Nothing moves.
LEMMA StutterBody ==
  ASSUME FSInv, UNCHANGED vars
  PROVE  FSInv'
  <1>1. /\ ftable' = ftable /\ ofile' = ofile /\ cwd' = cwd /\ th' = th /\ icache' = icache /\ disk' = disk
        /\ committed' = committed /\ lost' = lost /\ leaked' = leaked /\ panicked' = panicked
    BY DEF vars, files, history, marks
  <1>2. FileRefs'
    BY <1>1, RefsKept DEF FSInv
  <1>3. ASSUME Body PROVE Body'
    <2>1. Typed' /\ FilesOK'
      BY <1>1, <1>3 DEF Body, Typed, RestTyped, FilesOK
    <2>2. \A p \in Proc : ProcessOK(p)'
      BY <1>1, <1>3 DEF Body, ProcessOK
    <2>3. \A p \in Proc : LocksOK(p)'
      BY <1>1, <1>3 DEF Body, LocksOK, Coming
    <2>4. \A i \in Inum : CacheOK(i)' /\ ReclaimOK(i)'
      BY <1>1, <1>3 DEF Body, CacheOK, ReclaimOK, Coming, Freed
    <2>5. \A i \in Inum : icache'[i].ref = PointersTo(i)'
      BY <1>1, <1>3 DEF Body, PointersTo
    <2> QED
      BY <2>1, <2>2, <2>3, <2>4, <2>5 DEF Body
  <1> QED
    BY <1>1, <1>2, <1>3 DEF FSInv

\* Every step keeps the invariant.
LEMMA FSInvStep ==
  ASSUME FSInv, [Next]_vars
  PROVE  FSInv'
  <1>1. CASE UNCHANGED vars
    BY <1>1, StutterBody
  <1>2. ASSUME panicked = "none", NEW p \in Proc, Inside(p) PROVE FSInv'
    BY <1>2, InsideRefs, InsideBody DEF FSInv
  <1>3. ASSUME panicked = "none", NEW p \in Proc, Call(p) PROVE FSInv'
    BY <1>3, CallBody DEF FSInv
  <1>4. ASSUME panicked = "none", Crash PROVE FSInv'
    BY <1>4, CrashStep DEF FSInv
  <1> QED
    BY <1>1, <1>2, <1>3, <1>4 DEF Next

\* The inductive invariant holds in every state of every behaviour of the model.
THEOREM FileSystemInvariant == Spec => []FSInv
  <1>1. Init => FSInv
    BY InitBody DEF FSInv
  <1>2. FSInv /\ [Next]_vars => FSInv'
    BY FSInvStep
  <1> QED
    BY <1>1, <1>2, PTL DEF Spec

\* icache.ref of every inode is the number of its holders (current directories, open files
\* and the variables of calls under way) and ftable.ref the number of descriptors, whatever
\* calls the processes are in the middle of.
THEOREM ReferencesExactAlways == Spec => []ReferencesExact
  <1>1. FSInv => ReferencesExact
    BY DEF FSInv, Body, ReferencesExact, RefCounts
  <1> QED
    BY <1>1, FileSystemInvariant, PTL

\* An inode whose last link is gone is free as soon as nobody holds it: no interleaving of
\* unlink, close, chdir, exit and iput forgets to free it.
THEOREM ReclaimedAlways == Spec => []Reclaimed
  <1>1. FSInv => Reclaimed
    <2> SUFFICES ASSUME FSInv, panicked = "none", NEW i \in Inum \ (leaked \cup lost),
                        disk[i].type # "free", disk[i].nlink = 0
                 PROVE  icache[i].ref > 0
      BY DEF Reclaimed
    <2>1. Body /\ CacheOK(i) /\ ReclaimOK(i)
      BY DEF FSInv, Body
    <2>2. CASE icache[i].valid
      BY <2>1, <2>2 DEF CacheOK
    <2>3. CASE Coming(th, i)
      BY <2>1, <2>3, InCache DEF Coming
    <2> QED
      BY <2>1, <2>2, <2>3 DEF ReclaimOK
  <1> QED
    BY <1>1, FileSystemInvariant, PTL

\* An entry of the inode cache that is valid and not locked has the type and the link count
\* of the inode on the disk.
CacheAgrees ==
  panicked = "none" =>
    \A i \in Inum : icache[i].valid /\ icache[i].busy = NoProc =>
      icache[i].type = disk[i].type /\ icache[i].nlink = disk[i].nlink

\* iput's window, in which the inode is free on the disk and its entry is still valid, and
\* ialloc's reuse of the number within that window are never seen by an ilock of others.
THEOREM CacheAgreesAlways == Spec => []CacheAgrees
  <1>1. FSInv => CacheAgrees
    <2> SUFFICES ASSUME FSInv, panicked = "none", NEW i \in Inum, icache[i].valid, icache[i].busy = NoProc
                 PROVE  icache[i].type = disk[i].type /\ icache[i].nlink = disk[i].nlink
      BY DEF CacheAgrees
    <2>1. Body /\ CacheOK(i)
      BY DEF FSInv, Body
    <2>2. ~Freed(th, i)
      BY <2>1, FreedLocked, FileSystemAssumption
    <2> QED
      BY <2>1, <2>2 DEF CacheOK
  <1> QED
    BY <1>1, FileSystemInvariant, PTL
=============================================================================
