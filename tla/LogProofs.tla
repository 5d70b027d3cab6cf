----------------------------- MODULE LogProofs ------------------------------
(***************************************************************************)
(* Proofs about Log, for every number of processes, block contents, log    *)
(* size and disk size that LogAssumption allows.                           *)
(***************************************************************************)
EXTENDS Log, FiniteSetTheorems, TLAPS

(***************************************************************************)
(* The control part of the inductive invariant.                            *)
(***************************************************************************)

\* log.outstanding counts the calls in progress.
CountOK == outstanding = Cardinality(Active)

\* While the machine is off or recovering no call is in progress; one process
\* runs the recovery.
DownIsIdle ==
  /\ mode # "up" => ~committing /\ panicked = "no"
  /\ mode = "off" => \A p \in Proc : pc[p] = "user"
  /\ mode = "recovering" =>
       \E p \in Proc : /\ pc[p] \in {"r_install", "r_erase"}
                      /\ \A q \in Proc \ {p} : pc[q] = "user"

\* Recovery runs only before the system is up.
UpIsRecovered == mode = "up" => \A p \in Proc : pc[p] \notin {"r_install", "r_erase"}

\* Between transactions the log is empty.
IdleIsEmpty ==
  /\ mode = "up" /\ outstanding = 0 /\ ~committing => lh = <<>>
  /\ \A p \in Proc : pc[p] = "finish" => lh = <<>>

\* A call inside log_write holds one buffer.
LoggingHolds == \A p \in Proc : pc[p] = "logging" => \E b \in Home : busy[p] = {b}

\* No block is recorded twice, in memory or on the disk.
Distinct(h) == \A i, j \in DOMAIN h : h[i] = h[j] => i = j
LogDistinct == Distinct(lh) /\ Distinct(head)

ControlInv ==
  /\ TypeOK
  /\ LogDistinct
  /\ CountOK
  /\ DownIsIdle
  /\ UpIsRecovered
  /\ IdleIsEmpty
  /\ LoggingHolds
  /\ CommitsAlone
  /\ AssertionsHold
  /\ SleeperHasWaker

-----------------------------------------------------------------------------
\* One more process in a finite set, as when a call joins the transaction.
LEMMA CountJoin ==
  ASSUME NEW S, NEW T, IsFiniteSet(S), NEW p, p \notin S, T = S \cup {p}
  PROVE  Cardinality(T) = Cardinality(S) + 1 /\ Cardinality(S) \in Nat
  BY FS_AddElement, FS_CardinalityType

\* One process fewer, as when a call leaves it.
LEMMA CountLeave ==
  ASSUME NEW S, NEW T, IsFiniteSet(S), NEW p, p \in S, T = S \ {p}
  PROVE  /\ Cardinality(T) = Cardinality(S) - 1
         /\ Cardinality(T) \in Nat /\ Cardinality(S) \in Nat
         /\ Cardinality(T) = 0 <=> T = {}
  BY FS_RemoveElement, FS_CardinalityType, FS_EmptySet, FS_Subset

\* The calls in progress can be counted.
LEMMA ActiveFinite == IsFiniteSet(Active) /\ Active \subseteq Proc
  BY LogAssumption, FS_Subset DEF LogAssumption, Active

\* The machine starts switched off, with an empty log.
LEMMA InitControl == Init => ControlInv
  <1> SUFFICES ASSUME Init PROVE ControlInv
    OBVIOUS
  <1>1. TypeOK
    <2>1. disk \in [Blocks -> Val] /\ cache \in [Blocks -> Val]
      BY DEF Init
    <2>4. head \in Seq(Home) /\ lh \in Seq(Home)
      BY DEF Init
    <2>5. committing \in BOOLEAN
      BY DEF Init
    <2>2. /\ outstanding \in Nat
          /\ mode \in {"off", "recovering", "up"}
          /\ panicked \in Panics
          /\ dirty \subseteq Blocks
      BY DEF Init, Panics
    <2>3. /\ pc \in [Proc -> PCs]
          /\ tail \in [Proc -> Nat]
          /\ busy \in [Proc -> SUBSET Home]
          /\ wrote \in [Proc -> SUBSET Home]
      BY DEF Init, PCs
    <2> QED
      BY <2>1, <2>2, <2>3, <2>4, <2>5 DEF TypeOK
  <1>2. Active = {} /\ Committers = {}
    BY DEF Init, Active, Committers
  <1>3. CountOK
    BY <1>2, FS_EmptySet DEF CountOK, Init
  <1>4. DownIsIdle /\ UpIsRecovered /\ IdleIsEmpty /\ LoggingHolds
    BY DEF Init, DownIsIdle, UpIsRecovered, IdleIsEmpty, LoggingHolds
  <1>6. LogDistinct
    BY DEF Init, LogDistinct, Distinct
  <1>5. CommitsAlone /\ AssertionsHold /\ SleeperHasWaker
    BY <1>2 DEF Init, CommitsAlone, AssertionsHold, SleeperHasWaker
  <1> QED
    BY <1>1, <1>3, <1>4, <1>5, <1>6 DEF ControlInv

\* begin_op: a process goes to sleep or joins the transaction.
LEMMA BeginControl ==
  ASSUME ControlInv, NEW p \in Proc, begin_op(p)
  PROVE  ControlInv'
  <1> USE DEF ControlInv
  <1>1. p \notin Active /\ p \notin Committers /\ mode = "up"
    BY DEF begin_op, Running, Active, Committers
  <1>2. CASE BeginWaits /\ Goto(p, "sleep") /\ UNCHANGED <<outstanding, wrote>>
    <2>0. UNCHANGED <<disk, head, cache, dirty, lh, outstanding, committing, mode,
                      panicked, tail, busy, wrote>>
      BY <1>2 DEF begin_op
    <2>1. pc' = [pc EXCEPT ![p] = "sleep"]
      BY <1>2 DEF Goto
    <2>2. TypeOK'
      BY <2>0, <2>1 DEF TypeOK, PCs, Panics, Blocks, Home
    <2>3. Active' = Active /\ Committers' = Committers
      BY <1>1, <2>1 DEF Active, Committers, TypeOK
    <2>4. committing \/ outstanding > 0
      <3>1. SUFFICES ASSUME ~committing, outstanding = 0 PROVE FALSE
        BY DEF TypeOK
      <3>2. Len(lh) = 0
        BY <1>1, <3>1 DEF IdleIsEmpty
      <3> QED
        BY <1>2, <3>1, <3>2, LogAssumption DEF BeginWaits, LogAssumption
    <2> QED
      BY <2>0, <2>1, <2>2, <2>3, <2>4, <1>1
      DEF CountOK, DownIsIdle, UpIsRecovered, IdleIsEmpty, LoggingHolds,
          CommitsAlone, AssertionsHold, SleeperHasWaker, LogDistinct, TypeOK
  <1>3. CASE ~BeginWaits /\ outstanding' = Joined /\ Goto(p, "op")
             /\ wrote' = [wrote EXCEPT ![p] = {}]
    <2>0. UNCHANGED <<disk, head, cache, dirty, lh, committing, mode,
                      panicked, tail, busy>>
      BY <1>3 DEF begin_op
    <2>1. pc' = [pc EXCEPT ![p] = "op"]
      BY <1>3 DEF Goto
    <2>a. outstanding' = outstanding + 1
      BY <1>3 DEF Joined
    <2>c. wrote' \in [Proc -> SUBSET Home] /\ outstanding' \in Nat
      BY <1>3, <2>a DEF TypeOK
    <2>2. TypeOK'
      BY <2>0, <2>1, <2>c DEF TypeOK, PCs
    <2>3. Active' = Active \cup {p} /\ Committers' = Committers
      BY <1>1, <2>1 DEF Active, Committers, TypeOK
    <2>4. ~committing
      BY <1>3 DEF BeginWaits
    <2>b. Cardinality(Active') = Cardinality(Active) + 1 /\ Cardinality(Active) \in Nat
      BY <1>1, <2>3, CountJoin, ActiveFinite
    <2>5. CountOK' /\ outstanding' > 0
      BY <2>a, <2>b DEF CountOK
    <2>6. DownIsIdle' /\ UpIsRecovered' /\ IdleIsEmpty' /\ LoggingHolds'
      BY <2>0, <2>1, <2>5, <1>1
      DEF DownIsIdle, UpIsRecovered, IdleIsEmpty, LoggingHolds, TypeOK
    <2>7. CommitsAlone' /\ AssertionsHold' /\ SleeperHasWaker' /\ LogDistinct'
      BY <2>0, <2>3, <2>4, <2>5
      DEF CommitsAlone, AssertionsHold, SleeperHasWaker, LogDistinct
    <2> QED
      BY <2>2, <2>5, <2>6, <2>7
  <1> QED
    BY <1>2, <1>3 DEF begin_op

\* kill: a sleeper tests again.
LEMMA KillControl ==
  ASSUME ControlInv, NEW p \in Proc, kill(p)
  PROVE  ControlInv'
  <1> USE DEF ControlInv
  <1>1. /\ pc[p] = "sleep" /\ pc' = [pc EXCEPT ![p] = "begin"] /\ mode = "up"
        /\ UNCHANGED <<disk, head, cache, dirty, lh, outstanding, committing, mode,
                       panicked, tail, busy, wrote>>
    BY DEF kill, Goto, Running
  <1>2. TypeOK'
    BY <1>1 DEF TypeOK, PCs, Panics, Blocks, Home
  <1>3. Active' = Active /\ Committers' = Committers
    BY <1>1 DEF Active, Committers, TypeOK
  <1> QED
    BY <1>1, <1>2, <1>3
    DEF CountOK, DownIsIdle, UpIsRecovered, IdleIsEmpty, LoggingHolds,
        CommitsAlone, AssertionsHold, SleeperHasWaker, LogDistinct, TypeOK

\* log_write, before the lock: the call holds its buffer; the tests may panic,
\* but never because no call is in progress.
LEMMA LogWriteControl ==
  ASSUME ControlInv, NEW p \in Proc, NEW b \in Home, NEW v \in Val,
         log_write(p, b, v)
  PROVE  ControlInv'
  <1> USE DEF ControlInv
  <1>1. p \in Active /\ mode = "up" /\ pc[p] = "op"
    BY DEF log_write, Running, Active
  <1>2. /\ UNCHANGED <<disk, head, dirty, lh, outstanding, committing, mode, tail>>
        /\ \E l \in {"logging", "panic"} : pc' = [pc EXCEPT ![p] = l]
        /\ busy' = [busy EXCEPT ![p] = {b}]
        /\ wrote' = [wrote EXCEPT ![p] = @ \cup {b}]
        /\ cache' = [cache EXCEPT ![b] = v]
        /\ panicked' \in {panicked, LogWritePanic}
    BY DEF log_write, Goto
  <1>3. outstanding > 0
    BY <1>1, ActiveFinite, FS_EmptySet, FS_CardinalityType DEF CountOK
  <1>4. panicked' \in {"no", "too big a transaction"}
    <2>1. ~(outstanding < 1)
      BY <1>3 DEF TypeOK
    <2> QED
      BY <1>2, <2>1 DEF LogWritePanic, AssertionsHold
  <1>5. TypeOK'
    BY <1>2, <1>4 DEF TypeOK, PCs, Panics, Blocks, Home
  <1>6. Active' = Active /\ Committers' = Committers
    BY <1>1, <1>2 DEF Active, Committers, TypeOK
  <1> QED
    BY <1>1, <1>2, <1>3, <1>4, <1>5, <1>6
    DEF CountOK, DownIsIdle, UpIsRecovered, IdleIsEmpty, LoggingHolds,
        CommitsAlone, AssertionsHold, SleeperHasWaker, LogDistinct, TypeOK

\* log_write under the lock: a block number is absorbed or appended.
LEMMA LogWriteLockedControl ==
  ASSUME ControlInv, NEW p \in Proc, log_write_locked(p)
  PROVE  ControlInv'
  <1> USE DEF ControlInv
  <1>1. p \in Active /\ mode = "up" /\ pc[p] = "logging"
    BY DEF log_write_locked, Running, Active
  <1>2. /\ UNCHANGED <<disk, head, cache, outstanding, committing, mode, panicked,
                       tail, wrote>>
        /\ pc' = [pc EXCEPT ![p] = "op"]
        /\ busy' = [busy EXCEPT ![p] = {}]
    BY DEF log_write_locked, Goto
  <1>3. lh' \in Seq(Home) /\ dirty' \subseteq Blocks /\ LogDistinct'
    <2>1. PICK b \in busy[p] : /\ lh' = IF b \in Logged(lh) THEN lh ELSE Append(lh, b)
                               /\ dirty' = dirty \cup {b}
      BY DEF log_write_locked
    <2>2. b \in Home /\ Home \subseteq Blocks
      BY LogAssumption DEF TypeOK, Home, Blocks, LogAssumption
    <2>3. CASE b \in Logged(lh)
      BY <1>2, <2>1, <2>2, <2>3 DEF TypeOK, LogDistinct
    <2>4. CASE b \notin Logged(lh)
      <3>1. lh' = Append(lh, b) /\ lh' \in Seq(Home) /\ head' = head
        BY <1>2, <2>1, <2>2, <2>4 DEF TypeOK
      <3>2. Distinct(lh')
        BY <2>2, <2>4, <3>1 DEF Distinct, Logged, LogDistinct, TypeOK
      <3> QED
        BY <2>1, <2>2, <3>1, <3>2 DEF LogDistinct, TypeOK
    <2> QED
      BY <2>3, <2>4
  <1>4. outstanding > 0
    BY <1>1, ActiveFinite, FS_EmptySet, FS_CardinalityType DEF CountOK
  <1>5. TypeOK'
    BY <1>2, <1>3 DEF TypeOK, PCs
  <1>6. Active' = Active /\ Committers' = Committers
    BY <1>1, <1>2 DEF Active, Committers, TypeOK
  <1>7. Committers = {} /\ \A q \in Proc : pc'[q] # "finish"
    <2>1. Committers = {}
      BY <1>1 DEF CommitsAlone
    <2> QED
      BY <2>1, <1>6 DEF Committers
  <1>8. CountOK' /\ DownIsIdle' /\ UpIsRecovered' /\ IdleIsEmpty' /\ LoggingHolds'
    BY <1>1, <1>2, <1>4, <1>6, <1>7
    DEF CountOK, DownIsIdle, UpIsRecovered, IdleIsEmpty, LoggingHolds, TypeOK
  <1>9. CommitsAlone' /\ AssertionsHold' /\ SleeperHasWaker'
    BY <1>2, <1>4, <1>6 DEF CommitsAlone, AssertionsHold, SleeperHasWaker
  <1> QED
    BY <1>3, <1>5, <1>8, <1>9

\* end_op: the last call out starts a commit, an earlier one wakes the sleepers.
LEMMA EndControl ==
  ASSUME ControlInv, NEW p \in Proc, end_op(p)
  PROVE  ControlInv'
  <1> USE DEF ControlInv
  <1>1. p \in Active /\ mode = "up" /\ pc[p] = "op"
    BY DEF end_op, Running, Active
  <1>2. ~committing /\ Committers = {}
    BY <1>1 DEF CommitsAlone
  <1>3. /\ UNCHANGED <<disk, head, cache, dirty, lh, mode, tail, busy>>
        /\ outstanding' = outstanding - 1
        /\ panicked' = panicked
        /\ wrote' = [wrote EXCEPT ![p] = {}]
    BY <1>2 DEF end_op
  <1>4. ASSUME Active' = Active \ {p}
        PROVE  CountOK' /\ outstanding' \in Nat /\ (outstanding' = 0 <=> Active' = {})
    <2>1. /\ Cardinality(Active') = Cardinality(Active) - 1
          /\ Cardinality(Active') \in Nat /\ Cardinality(Active) \in Nat
          /\ Cardinality(Active') = 0 <=> Active' = {}
      BY <1>1, <1>4, CountLeave, ActiveFinite
    <2> QED
      BY <2>1, <1>3 DEF CountOK
  <1>5. CASE /\ outstanding' = 0
             /\ committing' = TRUE
             /\ Goto(p, IF NeedsCommit THEN "write_log" ELSE "finish")
    <2>1. PICK l \in {"write_log", "finish"} :
            pc' = [pc EXCEPT ![p] = l] /\ (l = "finish" => ~NeedsCommit)
      BY <1>5 DEF Goto
    <2>2. Active' = Active \ {p} /\ Committers' = {p}
      BY <1>1, <1>2, <2>1 DEF Active, Committers, TypeOK
    <2>3. CountOK' /\ outstanding' \in Nat /\ Active' = {}
      BY <1>4, <1>5, <2>2
    <2>4. l = "finish" => lh' = <<>>
      BY <1>3, <2>1 DEF NeedsCommit, TypeOK
    <2>a. committing' /\ committing' \in BOOLEAN
      BY <1>5
    <2>5. TypeOK'
      <3>1. wrote' \in [Proc -> SUBSET Home] /\ pc' \in [Proc -> PCs]
        BY <1>3, <2>1 DEF TypeOK, PCs
      <3> QED
        BY <1>3, <2>3, <2>a, <3>1 DEF TypeOK
    <2>6. \A q \in Proc : pc'[q] = "finish" => lh' = <<>>
      BY <2>1, <2>4, <1>2 DEF Committers, TypeOK
    <2>7. UpIsRecovered' /\ LoggingHolds' /\ DownIsIdle' /\ AssertionsHold' /\ LogDistinct'
      BY <1>1, <1>3, <2>1
      DEF UpIsRecovered, LoggingHolds, DownIsIdle, AssertionsHold, LogDistinct, TypeOK
    <2> QED
      BY <2>2, <2>3, <2>a, <2>5, <2>6, <2>7
      DEF IdleIsEmpty, CommitsAlone, SleeperHasWaker
  <1>6. CASE outstanding' # 0 /\ WakeupGoto(p, "user") /\ UNCHANGED committing
    <2>1. pc' = [q \in Proc |-> IF q = p THEN "user"
                                ELSE IF pc[q] = "sleep" THEN "begin" ELSE pc[q]]
      BY <1>6 DEF WakeupGoto
    <2>2. Active' = Active \ {p} /\ Committers' = {}
      BY <1>1, <1>2, <2>1 DEF Active, Committers, TypeOK
    <2>3. CountOK' /\ outstanding' \in Nat
      BY <1>4, <2>2
    <2>a. committing' = committing /\ committing' \in BOOLEAN
      BY <1>6 DEF TypeOK
    <2>5. TypeOK'
      <3>1. wrote' \in [Proc -> SUBSET Home] /\ pc' \in [Proc -> PCs]
        BY <1>3, <2>1 DEF TypeOK, PCs
      <3> QED
        BY <1>3, <2>3, <2>a, <3>1 DEF TypeOK
    <2>6. \A q \in Proc : pc'[q] # "finish" /\ pc'[q] # "sleep"
      BY <2>1, <1>2 DEF Committers, TypeOK
    <2>7. UpIsRecovered' /\ LoggingHolds' /\ DownIsIdle' /\ AssertionsHold' /\ LogDistinct'
      BY <1>1, <1>3, <2>1
      DEF UpIsRecovered, LoggingHolds, DownIsIdle, AssertionsHold, LogDistinct, TypeOK
    <2> QED
      BY <1>2, <1>6, <2>2, <2>3, <2>a, <2>5, <2>6, <2>7
      DEF IdleIsEmpty, CommitsAlone, SleeperHasWaker
  <1> QED
    BY <1>5, <1>6 DEF end_op

-----------------------------------------------------------------------------
\* Distinct block numbers number at most the blocks there are, so that every
\* entry of the log has its slot on the disk (inside the log or beyond it).
LEMMA SlotOnDisk ==
  ASSUME TypeOK, LogDistinct, NEW t \in Nat, t < Len(lh)
  PROVE  Slot(t) \in Blocks /\ lh[t + 1] \in Home /\ lh[t + 1] \in Blocks
  <1> USE LogAssumption DEF LogAssumption
  <1>1. lh \in [1 .. Len(lh) -> Home] /\ Len(lh) \in Nat
    BY DEF TypeOK
  <1>2. IsFiniteSet(1 .. Len(lh)) /\ Cardinality(1 .. Len(lh)) = Len(lh)
    BY <1>1, FS_Interval
  <1>3. IsFiniteSet(Home) /\ Cardinality(Home) = FSSIZE - LOGSTART - NLOG
    <2>1. LOGSTART + NLOG \in Int /\ FSSIZE - 1 \in Int
          /\ ~(LOGSTART + NLOG > FSSIZE - 1)
      OBVIOUS
    <2>2. /\ IsFiniteSet(Home)
          /\ Cardinality(Home) = FSSIZE - 1 - (LOGSTART + NLOG) + 1
      BY <2>1, FS_Interval DEF Home
    <2> QED
      BY <2>2
  <1>4. Len(lh) <= FSSIZE - LOGSTART - NLOG
    <2>1. SUFFICES ASSUME Cardinality(Home) < Cardinality(1 .. Len(lh)) PROVE FALSE
      BY <1>1, <1>2, <1>3
    <2>2. PICK i, j \in 1 .. Len(lh) : i # j /\ lh[i] = lh[j]
      BY <1>1, <1>2, <1>3, <2>1, FS_PigeonHole
    <2> QED
      BY <1>1, <2>2 DEF LogDistinct, Distinct
  <1>5. lh[t + 1] \in Home /\ Home \subseteq Blocks
    BY <1>1 DEF Home, Blocks
  <1>6. LOGSTART + t + 1 \in (LOGSTART + 1) .. (FSSIZE - 1)
    BY <1>1, <1>4
  <1> QED
    BY <1>5, <1>6 DEF Slot, Blocks

\* Changing one value of a function keeps its type.
LEMMA ExceptType ==
  ASSUME NEW S, NEW T, NEW f \in [S -> T], NEW x, NEW v \in T
  PROVE  [f EXCEPT ![x] = v] \in [S -> T]
  OBVIOUS

\* One write of write_log: a log block, in the cache and on the disk.
LEMMA WriteLogControl ==
  ASSUME ControlInv, NEW p \in Proc, write_log(p)
  PROVE  ControlInv'
  <1> USE DEF ControlInv
  <1>1. p \in Committers /\ mode = "up" /\ pc[p] = "write_log"
    BY DEF write_log, Running, Committers
  <1>2. UNCHANGED <<head, lh, outstanding, committing, mode, panicked, busy, wrote>>
    BY DEF write_log
  <1>3. PICK l \in {"write_log", "write_head"} : pc' = [pc EXCEPT ![p] = l]
    BY DEF write_log, Goto, TypeOK
  <1>4. /\ disk' \in [Blocks -> Val]
        /\ cache' \in [Blocks -> Val]
        /\ dirty' \subseteq Blocks
        /\ tail' \in [Proc -> Nat]
    <2>1. CASE tail[p] < Len(lh)
      <3>1. cache[lh[tail[p] + 1]] \in Val
        BY <2>1, SlotOnDisk DEF TypeOK
      <3>2. /\ cache' = [cache EXCEPT ![Slot(tail[p])] = cache[lh[tail[p] + 1]]]
            /\ disk' = [disk EXCEPT ![Slot(tail[p])] = cache[lh[tail[p] + 1]]]
            /\ dirty' = dirty \ {Slot(tail[p])}
            /\ tail' = [tail EXCEPT ![p] = @ + 1]
        BY <2>1 DEF write_log, TypeOK
      <3>3. disk' \in [Blocks -> Val] /\ cache' \in [Blocks -> Val]
        BY <3>1, <3>2, ExceptType DEF TypeOK
      <3>4. dirty' \subseteq Blocks /\ tail' \in [Proc -> Nat]
        BY <3>2 DEF TypeOK
      <3> QED
        BY <3>3, <3>4
    <2>2. CASE ~(tail[p] < Len(lh))
      BY <2>2 DEF write_log, TypeOK
    <2> QED
      BY <2>1, <2>2
  <1>5. TypeOK'
    BY <1>2, <1>3, <1>4 DEF TypeOK, PCs
  <1>6. Active' = Active /\ Committers' = Committers
    BY <1>1, <1>3 DEF Active, Committers, TypeOK
  <1> QED
    BY <1>1, <1>2, <1>3, <1>5, <1>6
    DEF CountOK, DownIsIdle, UpIsRecovered, IdleIsEmpty, LoggingHolds,
        CommitsAlone, AssertionsHold, SleeperHasWaker, LogDistinct, TypeOK

\* The header's write.
LEMMA WriteHeadControl ==
  ASSUME ControlInv, NEW p \in Proc, write_head(p)
  PROVE  ControlInv'
  <1> USE DEF ControlInv
  <1>1. p \in Committers /\ mode = "up" /\ pc[p] = "write_head"
    BY DEF write_head, Running, Committers
  <1>2. /\ UNCHANGED <<disk, cache, dirty, lh, outstanding, committing, mode,
                       panicked, tail, busy, wrote>>
        /\ head' = lh
        /\ pc' = [pc EXCEPT ![p] = "install"]
    BY DEF write_head, Goto
  <1>5. TypeOK'
    BY <1>2 DEF TypeOK, PCs
  <1>6. Active' = Active /\ Committers' = Committers
    BY <1>1, <1>2 DEF Active, Committers, TypeOK
  <1> QED
    BY <1>1, <1>2, <1>5, <1>6
    DEF CountOK, DownIsIdle, UpIsRecovered, IdleIsEmpty, LoggingHolds,
        CommitsAlone, AssertionsHold, SleeperHasWaker, LogDistinct, TypeOK

\* One write of install_trans, in a commit or in recovery.
LEMMA InstallControl ==
  ASSUME ControlInv, NEW p \in Proc, install_trans(p)
  PROVE  ControlInv'
  <1> USE DEF ControlInv
  <1>1. \/ mode = "up" /\ pc[p] = "install"
        \/ mode = "recovering" /\ pc[p] = "r_install"
    BY DEF install_trans, Running
  <1>2. UNCHANGED <<head, lh, outstanding, committing, mode, panicked, busy, wrote>>
    BY DEF install_trans
  <1>3. PICK l \in PCs : /\ pc' = [pc EXCEPT ![p] = l]
                         /\ pc[p] = "install" => l \in {"install", "erase"}
                         /\ pc[p] = "r_install" => l \in {"r_install", "r_erase"}
    <2>1. CASE tail[p] < Len(lh)
      BY <1>1, <2>1 DEF install_trans, TypeOK, PCs
    <2>2. CASE ~(tail[p] < Len(lh))
      BY <1>1, <2>2 DEF install_trans, Goto, TypeOK, PCs
    <2> QED
      BY <2>1, <2>2
  <1>4. /\ disk' \in [Blocks -> Val]
        /\ cache' \in [Blocks -> Val]
        /\ dirty' \subseteq Blocks
        /\ tail' \in [Proc -> Nat]
    <2>1. CASE tail[p] < Len(lh)
      <3>1. cache[Slot(tail[p])] \in Val
        BY <2>1, SlotOnDisk DEF TypeOK
      <3>2. /\ cache' = [cache EXCEPT ![lh[tail[p] + 1]] = cache[Slot(tail[p])]]
            /\ disk' = [disk EXCEPT ![lh[tail[p] + 1]] = cache[Slot(tail[p])]]
            /\ dirty' = dirty \ {lh[tail[p] + 1]}
            /\ tail' = [tail EXCEPT ![p] = @ + 1]
        BY <2>1 DEF install_trans, TypeOK
      <3>3. disk' \in [Blocks -> Val] /\ cache' \in [Blocks -> Val]
        BY <3>1, <3>2, ExceptType DEF TypeOK
      <3>4. dirty' \subseteq Blocks /\ tail' \in [Proc -> Nat]
        BY <3>2 DEF TypeOK
      <3> QED
        BY <3>3, <3>4
    <2>2. CASE ~(tail[p] < Len(lh))
      BY <2>2 DEF install_trans, TypeOK
    <2> QED
      BY <2>1, <2>2
  <1>5. TypeOK'
    BY <1>2, <1>3, <1>4 DEF TypeOK, PCs
  <1>6. Active' = Active /\ Committers' = Committers
    BY <1>1, <1>3 DEF Active, Committers, TypeOK
  <1>7. LogDistinct'
    BY <1>2 DEF LogDistinct
  <1>8. CountOK'
    BY <1>2, <1>6 DEF CountOK
  <1>9. DownIsIdle'
    BY <1>1, <1>2, <1>3 DEF DownIsIdle, TypeOK
  <1>10. UpIsRecovered' /\ IdleIsEmpty'
    BY <1>1, <1>2, <1>3 DEF UpIsRecovered, IdleIsEmpty, TypeOK
  <1>11. LoggingHolds'
    BY <1>1, <1>2, <1>3 DEF LoggingHolds, TypeOK
  <1>12. CommitsAlone'
    BY <1>2, <1>6 DEF CommitsAlone
  <1>13. AssertionsHold'
    BY <1>2, Zenon DEF AssertionsHold
  <1>14. SleeperHasWaker'
    BY <1>1, <1>2, <1>3, <1>6 DEF SleeperHasWaker, TypeOK
  <1> QED
    BY <1>5, <1>7, <1>8, <1>9, <1>10, <1>11, <1>12, <1>13, <1>14

\* The transaction is erased.
LEMMA EraseControl ==
  ASSUME ControlInv, NEW p \in Proc, erase(p)
  PROVE  ControlInv'
  <1> USE DEF ControlInv
  <1>1. p \in Committers /\ mode = "up" /\ pc[p] = "erase"
    BY DEF erase, Running, Committers
  <1>2. /\ UNCHANGED <<disk, cache, dirty, outstanding, committing, mode,
                       panicked, tail, busy, wrote>>
        /\ head' = <<>> /\ lh' = <<>>
        /\ pc' = [pc EXCEPT ![p] = "finish"]
    BY DEF erase, Goto
  <1>5. TypeOK'
    BY <1>2 DEF TypeOK, PCs
  <1>6. Active' = Active /\ Committers' = Committers
    BY <1>1, <1>2 DEF Active, Committers, TypeOK
  <1>7. LogDistinct'
    BY <1>2 DEF LogDistinct, Distinct
  <1> QED
    BY <1>1, <1>2, <1>5, <1>6, <1>7
    DEF CountOK, DownIsIdle, UpIsRecovered, IdleIsEmpty, LoggingHolds,
        CommitsAlone, AssertionsHold, SleeperHasWaker, TypeOK

\* The commit ends and everybody is woken.
LEMMA EndCommitControl ==
  ASSUME ControlInv, NEW p \in Proc, end_commit(p)
  PROVE  ControlInv'
  <1> USE DEF ControlInv
  <1>1. p \in Committers /\ mode = "up" /\ pc[p] = "finish"
    BY DEF end_commit, Running, Committers
  <1>2. /\ UNCHANGED <<disk, head, cache, dirty, lh, outstanding, mode,
                       panicked, tail, busy, wrote>>
        /\ committing' = FALSE
        /\ pc' = [q \in Proc |-> IF q = p THEN "user"
                                ELSE IF pc[q] = "sleep" THEN "begin" ELSE pc[q]]
    BY DEF end_commit, WakeupGoto
  <1>3. ~committing' /\ committing' \in BOOLEAN
    BY <1>2
  <1>4. Active = {} /\ Committers = {p} /\ lh = <<>>
    BY <1>1 DEF CommitsAlone, IdleIsEmpty
  <1>5. TypeOK'
    <2>1. pc' \in [Proc -> PCs]
      BY <1>2 DEF TypeOK, PCs
    <2> QED
      BY <1>2, <1>3, <2>1 DEF TypeOK
  <1>6. Active' = {} /\ Committers' = {}
    BY <1>1, <1>2, <1>4 DEF Active, Committers, TypeOK
  <1>7. \A q \in Proc : pc'[q] # "sleep" /\ pc'[q] # "finish"
    BY <1>2, <1>6 DEF Committers, TypeOK
  <1> QED
    BY <1>1, <1>2, <1>3, <1>4, <1>5, <1>6, <1>7
    DEF CountOK, DownIsIdle, UpIsRecovered, IdleIsEmpty, LoggingHolds,
        CommitsAlone, AssertionsHold, SleeperHasWaker, LogDistinct, TypeOK

\* The cache drops a clean buffer.
LEMMA RecycleControl ==
  ASSUME ControlInv, NEW b \in Blocks, bget_recycle(b)
  PROVE  ControlInv'
  <1> USE DEF ControlInv
  <1>1. /\ UNCHANGED <<disk, head, dirty, lh, outstanding, committing, mode,
                       panicked, pc, tail, busy, wrote>>
        /\ cache' = [cache EXCEPT ![b] = disk[b]]
    BY DEF bget_recycle
  <1>2. TypeOK'
    BY <1>1 DEF TypeOK
  <1>3. Active' = Active /\ Committers' = Committers
    BY <1>1 DEF Active, Committers
  <1> QED
    BY <1>1, <1>2, <1>3
    DEF CountOK, DownIsIdle, UpIsRecovered, IdleIsEmpty, LoggingHolds,
        CommitsAlone, AssertionsHold, SleeperHasWaker, LogDistinct

\* The machine stops.
LEMMA CrashControl ==
  ASSUME ControlInv, Crash
  PROVE  ControlInv'
  <1> USE DEF ControlInv
  <1>1. /\ UNCHANGED <<disk, head>>
        /\ mode' = "off" /\ panicked' = "no" /\ cache' = disk /\ dirty' = {}
        /\ lh' = <<>> /\ outstanding' = 0
        /\ pc' = [q \in Proc |-> "user"]
        /\ tail' = [q \in Proc |-> 0]
        /\ busy' = [q \in Proc |-> {}]
        /\ wrote' = [q \in Proc |-> {}]
    BY DEF Crash
  <1>2. ~committing' /\ committing' \in BOOLEAN
    BY DEF Crash
  <1>3. TypeOK'
    <2>1. /\ pc' \in [Proc -> PCs]
          /\ tail' \in [Proc -> Nat]
          /\ busy' \in [Proc -> SUBSET Home]
          /\ wrote' \in [Proc -> SUBSET Home]
      BY <1>1 DEF PCs
    <2>2. lh' \in Seq(Home) /\ outstanding' \in Nat /\ dirty' \subseteq Blocks
      BY <1>1
    <2> QED
      BY <1>1, <1>2, <2>1, <2>2 DEF TypeOK, Panics
  <1>4. Active' = {} /\ Committers' = {}
    BY <1>1 DEF Active, Committers
  <1>5. CountOK'
    BY <1>1, <1>4, FS_EmptySet DEF CountOK
  <1>6. LogDistinct'
    BY <1>1 DEF LogDistinct, Distinct
  <1> QED
    BY <1>1, <1>2, <1>3, <1>4, <1>5, <1>6
    DEF DownIsIdle, UpIsRecovered, IdleIsEmpty, LoggingHolds,
        CommitsAlone, AssertionsHold, SleeperHasWaker

\* Recovery starts: the header is read.
LEMMA InitlogControl ==
  ASSUME ControlInv, NEW p \in Proc, initlog(p)
  PROVE  ControlInv'
  <1> USE DEF ControlInv
  <1>1. /\ mode = "off" /\ mode' = "recovering"
        /\ lh' = head
        /\ pc' = [pc EXCEPT ![p] = "r_install"]
        /\ UNCHANGED <<disk, head, cache, dirty, outstanding, committing, panicked,
                       tail, busy, wrote>>
    BY DEF initlog, Goto
  <1>2. TypeOK'
    BY <1>1 DEF TypeOK, PCs
  <1>3. Active' = Active /\ Committers' = Committers
    BY <1>1 DEF Active, Committers, TypeOK, DownIsIdle
  <1>4. pc'[p] = "r_install" /\ \A q \in Proc \ {p} : pc'[q] = "user"
    BY <1>1 DEF DownIsIdle, TypeOK
  <1> QED
    BY <1>1, <1>2, <1>3, <1>4
    DEF CountOK, DownIsIdle, UpIsRecovered, IdleIsEmpty, LoggingHolds,
        CommitsAlone, AssertionsHold, SleeperHasWaker, LogDistinct

\* Recovery ends.
LEMMA RecoverEraseControl ==
  ASSUME ControlInv, NEW p \in Proc, recover_erase(p)
  PROVE  ControlInv'
  <1> USE DEF ControlInv
  <1>1. /\ mode = "recovering" /\ mode' = "up" /\ pc[p] = "r_erase"
        /\ lh' = <<>> /\ head' = <<>>
        /\ pc' = [pc EXCEPT ![p] = "user"]
        /\ UNCHANGED <<disk, cache, dirty, outstanding, committing, panicked, tail,
                       busy, wrote>>
    BY DEF recover_erase, Goto
  <1>2. TypeOK'
    BY <1>1 DEF TypeOK, PCs
  <1>3. \A q \in Proc : pc'[q] = "user"
    BY <1>1 DEF DownIsIdle, TypeOK
  <1>4. Active' = Active /\ Committers' = Committers
    BY <1>1, <1>3 DEF Active, Committers, TypeOK, DownIsIdle
  <1>5. LogDistinct'
    BY <1>1 DEF LogDistinct, Distinct
  <1> QED
    BY <1>1, <1>2, <1>3, <1>4, <1>5
    DEF CountOK, DownIsIdle, UpIsRecovered, IdleIsEmpty, LoggingHolds,
        CommitsAlone, AssertionsHold, SleeperHasWaker

\* Every step of log.c, of the buffer cache, a kill and a crash keep the invariant.
LEMMA NextControl == ControlInv /\ [Next]_vars => ControlInv'
  <1> SUFFICES ASSUME ControlInv, [Next]_vars PROVE ControlInv'
    OBVIOUS
  <1>1. CASE UNCHANGED vars
    BY <1>1 DEF ControlInv, vars, TypeOK, CountOK, DownIsIdle, UpIsRecovered,
                IdleIsEmpty, LoggingHolds, LogDistinct, CommitsAlone,
                AssertionsHold, SleeperHasWaker, Active, Committers
  <1>2. CASE Next
    BY <1>2, BeginControl, KillControl, LogWriteControl, LogWriteLockedControl, EndControl,
       WriteLogControl, WriteHeadControl, InstallControl, EraseControl,
       EndCommitControl, RecycleControl, CrashControl, InitlogControl,
       RecoverEraseControl DEF Next
  <1> QED
    BY <1>1, <1>2

\* Type correctness: in particular every block number in the log is one of the
\* file system's, and no process leaves the code of log.c for an unknown place.
THEOREM TypeCorrect == Spec => []TypeOK
  <1>1. Init => ControlInv
    BY InitControl
  <1>2. ControlInv /\ [Next]_vars => ControlInv'
    BY NextControl
  <1>3. ControlInv => TypeOK
    BY DEF ControlInv
  <1> QED
    BY <1>1, <1>2, <1>3, PTL DEF Spec

\* The control invariant of begin_op, log_write, end_op, commit and recovery.
THEOREM ControlCorrect == Spec => []ControlInv
  BY InitControl, NextControl, PTL DEF Spec

\* A commit never runs beside a call, nor beside another commit.
THEOREM CommitExclusion == Spec => []CommitsAlone
  <1>1. ControlInv => CommitsAlone
    BY DEF ControlInv
  <1> QED
    BY <1>1, ControlCorrect, PTL

\* begin_op never sleeps without someone who will wake it.
THEOREM NoLostWakeup == Spec => []SleeperHasWaker
  <1>1. ControlInv => SleeperHasWaker
    BY DEF ControlInv
  <1> QED
    BY <1>1, ControlCorrect, PTL

\* end_op's and log_write's assertions on the state of the log hold.
THEOREM AssertionsNeverFail == Spec => []AssertionsHold
  <1>1. ControlInv => AssertionsHold
    BY DEF ControlInv
  <1> QED
    BY <1>1, ControlCorrect, PTL

-----------------------------------------------------------------------------
(***************************************************************************)
(* How far a transaction outgrows the log.  log_write tests the limit      *)
(* before it takes log.lock, so that several calls may pass the test       *)
(* before the first of them appends.  begin_op, which reserves MAXOPBLOCKS *)
(* blocks a call, bounds how many calls there are, whatever they write.    *)
(***************************************************************************)

\* Calls that have passed log_write's test and have not yet appended.
InFlight == {p \in Proc : pc[p] = "logging"}

\* Every call in progress was admitted, and what is in the log and on its way there is
\* bounded; so is a header on the disk, which recovery reads back.
OverInv ==
  /\ outstanding <= MaxCalls
  /\ Len(lh) + Cardinality(InFlight) <= Room - 1 + MaxCalls
  /\ Len(head) <= Room - 1 + MaxCalls

\* Room and MaxCalls are numbers, and begin_op lets in MaxCalls calls at most.
LEMMA CallsFit ==
  /\ Room \in Nat /\ MaxCalls \in Nat \ {0}
  /\ \A n \in Nat : n * MAXOPBLOCKS <= LOGSIZE => n <= MaxCalls
  <1> DEFINE q == LOGSIZE \div MAXOPBLOCKS
  <1>1. LOGSIZE \in Nat /\ MAXOPBLOCKS \in Nat \ {0} /\ MAXOPBLOCKS <= LOGSIZE /\ NLOG \in Nat \ {0}
    BY LogAssumption DEF LogAssumption
  <1>2. Room \in Nat
    BY <1>1 DEF Room
  <1>3. q \in Nat /\ LOGSIZE < (q + 1) * MAXOPBLOCKS
    BY <1>1, SMT
  <1> HIDE DEF q
  <1>4. ASSUME NEW n \in Nat, n * MAXOPBLOCKS <= LOGSIZE PROVE n <= q
    <2> SUFFICES ASSUME n >= q + 1 PROVE FALSE
      BY <1>3
    <2>1. n * MAXOPBLOCKS >= (q + 1) * MAXOPBLOCKS
      BY <1>1, <1>3, SMT
    <2> QED
      BY <1>1, <1>3, <1>4, <2>1
  <1>5. 1 <= q
    BY <1>1, <1>4
  <1> QED
    BY <1>2, <1>3, <1>4, <1>5 DEF q, MaxCalls

\* The calls in flight are calls in progress.
LEMMA InFlightCount ==
  ASSUME ControlInv
  PROVE  /\ IsFiniteSet(InFlight) /\ Cardinality(InFlight) \in Nat
         /\ InFlight \subseteq Active /\ Cardinality(InFlight) <= outstanding
  <1>1. InFlight \subseteq Active
    BY DEF InFlight, Active
  <1> QED
    BY <1>1, ActiveFinite, FS_Subset, FS_CardinalityType DEF ControlInv, CountOK

\* A step that appends nothing and lets nobody in keeps the bound.
LEMMA QuietOver ==
  ASSUME ControlInv, OverInv, lh' \in {lh, <<>>}, InFlight' \subseteq InFlight,
         outstanding' <= outstanding, outstanding' \in Nat, head' \in {head, lh, <<>>}
  PROVE  OverInv'
  <1>1. /\ Cardinality(InFlight') <= Cardinality(InFlight)
        /\ Cardinality(InFlight') \in Nat /\ Cardinality(InFlight) \in Nat
    BY InFlightCount, FS_Subset, FS_CardinalityType
  <1>2. Len(lh) \in Nat /\ Len(head) \in Nat /\ outstanding \in Nat /\ Len(<<>>) = 0
    BY DEF ControlInv, TypeOK
  <1>3. Len(lh') <= Len(lh) /\ Len(lh') \in Nat
    BY <1>2
  <1>4. Len(head') \in {Len(head), Len(lh), 0}
    BY <1>2
  <1>5. Len(lh) <= Room - 1 + MaxCalls
    BY <1>1, <1>2, CallsFit DEF OverInv
  <1>6. Room' = Room /\ MaxCalls' = MaxCalls
    BY DEF Room, MaxCalls
  <1>7. outstanding' <= MaxCalls
    BY <1>2, CallsFit DEF OverInv
  <1>8. Len(lh') + Cardinality(InFlight') <= Room - 1 + MaxCalls
    BY <1>1, <1>2, <1>3, CallsFit DEF OverInv
  <1>9. Len(head') <= Room - 1 + MaxCalls
    BY <1>2, <1>4, <1>5, CallsFit DEF OverInv
  <1> QED
    BY <1>6, <1>7, <1>8, <1>9 DEF OverInv

\* begin_op lets a call in only when the blocks reserved for all of them fit the log.
LEMMA BeginOver ==
  ASSUME ControlInv, OverInv, NEW p \in Proc, begin_op(p)
  PROVE  OverInv'
  <1> USE DEF ControlInv
  <1>1. UNCHANGED <<lh, head>> /\ pc[p] \in {"user", "begin"}
    BY DEF begin_op
  <1>2. InFlight' = InFlight
    BY <1>1 DEF begin_op, Goto, InFlight, TypeOK
  <1>3. CASE ~BeginWaits /\ outstanding' = Joined
    <2>1. Len(lh) \in Nat /\ outstanding \in Nat /\ outstanding + 1 \in Nat
      BY DEF TypeOK
    <2>2. MAXOPBLOCKS \in Nat /\ LOGSIZE \in Nat
      BY LogAssumption DEF LogAssumption
    <2>3. (outstanding + 1) * MAXOPBLOCKS <= LOGSIZE
      BY <1>3, <2>1, <2>2 DEF BeginWaits
    <2>4. outstanding' <= MaxCalls
      BY <1>3, <2>1, <2>3, CallsFit DEF Joined
    <2> QED
      BY <1>1, <1>2, <2>4 DEF OverInv, Room, MaxCalls
  <1>4. CASE UNCHANGED outstanding
    BY <1>1, <1>2, <1>4 DEF OverInv, Room, MaxCalls
  <1> QED
    BY <1>3, <1>4 DEF begin_op

\* A call that passes log_write's test finds room for one block, whoever else is in flight.
LEMMA LogWriteOver ==
  ASSUME ControlInv, OverInv, NEW p \in Proc, NEW b \in Home, NEW v \in Val, log_write(p, b, v)
  PROVE  OverInv'
  <1>1. UNCHANGED <<lh, head, outstanding>> /\ pc[p] = "op"
    BY DEF log_write
  <1>2. Len(lh) \in Nat /\ Len(head) \in Nat /\ outstanding \in Nat
    BY DEF ControlInv, TypeOK
  <1>3. CASE LogWritePanic = "no"
    <2>1. Len(lh) <= Room - 1
      <3>1. ~(Len(lh) >= LOGSIZE) /\ ~(Len(lh) >= NLOG - 1)
        BY <1>3 DEF LogWritePanic
      <3> QED
        BY <1>2, <3>1, LogAssumption DEF Room, LogAssumption
    <2>2. ControlInv'
      BY LogWriteControl
    <2>3. Cardinality(InFlight') <= outstanding' /\ Cardinality(InFlight') \in Nat
      <3>1. InFlight' \subseteq Active' /\ Active' \subseteq Proc
        BY DEF InFlight, Active
      <3>2. IsFiniteSet(Active')
        BY <3>1, LogAssumption, FS_Subset DEF LogAssumption
      <3> QED
        BY <2>2, <3>1, <3>2, FS_Subset, FS_CardinalityType DEF ControlInv, CountOK
    <2> QED
      BY <1>1, <1>2, <2>1, <2>3, CallsFit DEF OverInv, Room, MaxCalls
  <1>4. CASE LogWritePanic # "no"
    <2>1. InFlight' \subseteq InFlight
      BY <1>4 DEF log_write, Goto, InFlight, ControlInv, TypeOK
    <2> QED
      BY <1>1, <1>2, <2>1, QuietOver
  <1> QED
    BY <1>3, <1>4

\* Under the lock a block that was in flight is in the log.
LEMMA LogWriteLockedOver ==
  ASSUME ControlInv, OverInv, NEW p \in Proc, log_write_locked(p)
  PROVE  OverInv'
  <1>1. UNCHANGED <<head, outstanding>> /\ pc[p] = "logging" /\ pc' = [pc EXCEPT ![p] = "op"]
    BY DEF log_write_locked, Goto
  <1>2. p \in InFlight /\ InFlight' = InFlight \ {p}
    BY <1>1 DEF InFlight, ControlInv, TypeOK
  <1>3. /\ Cardinality(InFlight') = Cardinality(InFlight) - 1
        /\ Cardinality(InFlight) \in Nat /\ Cardinality(InFlight') \in Nat
    BY <1>2, InFlightCount, CountLeave
  <1>4. Len(lh') <= Len(lh) + 1 /\ Len(lh') \in Nat /\ Len(lh) \in Nat
    <2>1. lh \in Seq(Home) /\ busy[p] \subseteq Home
      BY DEF ControlInv, TypeOK
    <2>2. PICK b \in busy[p] : lh' = IF b \in Logged(lh) THEN lh ELSE Append(lh, b)
      BY DEF log_write_locked
    <2>3. Len(lh) \in Nat /\ Len(Append(lh, b)) = Len(lh) + 1
      BY <2>1, <2>2
    <2> QED
      BY <2>2, <2>3
  <1> QED
    BY <1>1, <1>3, <1>4, CallsFit DEF OverInv, Room, MaxCalls

\* The steps of a commit, the end of a call and a kill append nothing.
LEMMA CommitOver ==
  ASSUME ControlInv, OverInv, NEW p \in Proc,
         \/ end_op(p) \/ write_log(p) \/ write_head(p) \/ install_trans(p) \/ erase(p)
         \/ end_commit(p) \/ kill(p) \/ recover_erase(p)
  PROVE  OverInv'
  <1>1. lh' \in {lh, <<>>} /\ head' \in {head, lh, <<>>}
    BY DEF end_op, write_log, write_head, install_trans, erase, end_commit, kill, recover_erase
  <1>2. outstanding' <= outstanding /\ outstanding' \in Nat
    <2>1. CASE end_op(p)
      <3>1. outstanding' = outstanding - 1 /\ outstanding \in Nat
        BY <2>1 DEF end_op, ControlInv, TypeOK
      <3>2. outstanding' \in Nat
        BY <2>1, EndControl DEF ControlInv, TypeOK
      <3> QED
        BY <3>1, <3>2
    <2>2. CASE outstanding' = outstanding
      BY <2>2 DEF ControlInv, TypeOK
    <2> QED
      BY <2>1, <2>2
      DEF write_log, write_head, install_trans, erase, end_commit, kill, recover_erase
  <1>3. \A q \in Proc : pc'[q] = "logging" => pc[q] = "logging"
    <2> USE DEF ControlInv, TypeOK
    <2>1. CASE end_op(p)
      BY <2>1 DEF end_op, Goto, WakeupGoto
    <2>2. CASE write_log(p) \/ write_head(p)
      BY <2>2 DEF write_log, write_head, Goto
    <2>3. CASE install_trans(p)
      <3>1. pc' = pc \/ \E l \in {"erase", "r_erase"} : pc' = [pc EXCEPT ![p] = l]
        BY <2>3 DEF install_trans, Goto
      <3> QED
        BY <3>1
    <2>4. CASE erase(p) \/ kill(p) \/ recover_erase(p)
      BY <2>4 DEF erase, kill, recover_erase, Goto
    <2>5. CASE end_commit(p)
      BY <2>5 DEF end_commit, WakeupGoto
    <2> QED
      BY <2>1, <2>2, <2>3, <2>4, <2>5
  <1>4. InFlight' \subseteq InFlight
    BY <1>3 DEF InFlight
  <1> QED
    BY <1>1, <1>2, <1>4, QuietOver

\* A crash empties the memory; recovery reads back a header that was bounded.
LEMMA RestartOver ==
  ASSUME ControlInv, OverInv, Crash \/ \E p \in Proc : initlog(p)
  PROVE  OverInv'
  <1>1. CASE Crash
    <2>1. lh' = <<>> /\ head' = head /\ outstanding' = 0 /\ InFlight' = {}
      BY <1>1 DEF Crash, InFlight
    <2>2. outstanding' <= outstanding /\ outstanding' \in Nat
      BY <2>1 DEF ControlInv, TypeOK
    <2> QED
      BY <2>1, <2>2, QuietOver
  <1>2. ASSUME NEW p \in Proc, initlog(p) PROVE OverInv'
    <2>1. lh' = head /\ head' = head /\ outstanding' = outstanding
      BY <1>2 DEF initlog
    <2>2. InFlight' = {}
      BY <1>2 DEF initlog, Goto, InFlight, ControlInv, DownIsIdle, TypeOK
    <2>3. Cardinality(InFlight') = 0 /\ Len(head) \in Nat
      BY <2>2, FS_EmptySet DEF ControlInv, TypeOK
    <2> QED
      BY <2>1, <2>3, CallsFit DEF OverInv, Room, MaxCalls
  <1> QED
    BY <1>1, <1>2

\* Every step keeps the bound.
LEMMA NextOver == ControlInv /\ OverInv /\ [Next]_vars => OverInv'
  <1> SUFFICES ASSUME ControlInv, OverInv, [Next]_vars PROVE OverInv'
    OBVIOUS
  <1>1. CASE UNCHANGED <<lh, head, pc, outstanding>>
    BY <1>1 DEF OverInv, InFlight, Room, MaxCalls
  <1>2. ASSUME NEW b \in Blocks, bget_recycle(b) PROVE OverInv'
    BY <1>1, <1>2 DEF bget_recycle
  <1>3. CASE UNCHANGED vars
    BY <1>1, <1>3 DEF vars
  <1> QED
    BY <1>2, <1>3, BeginOver, LogWriteOver, LogWriteLockedOver, CommitOver, RestartOver DEF Next

\* Whatever the calls write, and although log_write tests the limit without the lock: a
\* transaction has at most one block for each call in progress beyond the last one that
\* fits, with begin_op bounding the calls, through crashes and recovery too.
THEOREM OverrunIsBounded == Spec => []OverrunBounded
  <1>1. Init => OverInv
    <2> SUFFICES ASSUME Init PROVE OverInv
      OBVIOUS
    <2>1. InFlight = {} /\ Len(lh) = 0 /\ Len(head) = 0 /\ outstanding = 0
      BY DEF Init, InFlight
    <2>2. Cardinality(InFlight) = 0
      BY <2>1, FS_EmptySet
    <2> QED
      BY <2>1, <2>2, CallsFit DEF OverInv
  <1>2. ControlInv /\ OverInv => OverrunBounded
    <2> SUFFICES ASSUME ControlInv, OverInv PROVE OverrunBounded
      OBVIOUS
    <2>1. Len(lh) \in Nat
      BY DEF ControlInv, TypeOK
    <2> QED
      BY <2>1, InFlightCount, CallsFit DEF OverInv, OverrunBounded
  <1> QED
    BY <1>1, <1>2, NextOver, ControlCorrect, PTL DEF Spec

\* The commit protocol of begin_op, log_write, end_op and commit, for any number of
\* processes, any log and any crashes.
THEOREM LogCorrect == Spec => []LogInv
  <1>1. ControlInv /\ OverrunBounded => LogInv
    BY DEF ControlInv, LogInv
  <1> QED
    BY <1>1, ControlCorrect, OverrunIsBounded, PTL

-----------------------------------------------------------------------------
(***************************************************************************)
(* Crash atomicity of Log: it implements AtomicDisk as long as the log     *)
(* fits on the disk.                                                       *)
(***************************************************************************)

(***************************************************************************)
(* The data part of the inductive invariant: where the contents of a block *)
(* are to be found at each point of a commit or of a recovery.             *)
(***************************************************************************)

\* Only a call inside log_write holds a buffer.
BusyInCall == \A p \in Proc : busy[p] # {} => pc[p] \in {"logging", "panic"}

\* Outside of their loops the loop variables are 0.
TailReset == \A p \in Proc : pc[p] \notin {"write_log", "install", "r_install"} => tail[p] = 0

\* The header on the disk lists the transaction from its commit point to its
\* erasure, and in a running system at no other time.
HeadListsCommitted ==
  /\ \A p \in Proc : pc[p] \in {"install", "erase", "r_install", "r_erase"} => head = lh
  /\ mode = "up" /\ (\A p \in Proc : pc[p] \notin {"install", "erase"}) => head = <<>>

\* A header is committed only with a log block for each of its entries.
HeadFits == Len(head) <= NLOG - 1

\* Buffers of log blocks, and clean buffers that nobody holds, agree with the disk.
CleanIsDisk ==
  /\ \A b \in Blocks \ Home : cache[b] = disk[b]
  /\ \A b \in Home : b \notin dirty /\ (\A p \in Proc : b \notin busy[p]) => cache[b] = disk[b]

\* Only recorded blocks are pinned.
DirtyIsLogged ==
  /\ dirty \subseteq Logged(lh)
  /\ mode # "up" => dirty = {}

\* write_log has copied the blocks before tail, and the later phases find them all.
CopiedToLog ==
  \A p \in Proc : pc[p] \in {"write_log", "write_head", "install", "erase"} =>
    \A i \in 1 .. Len(lh) :
      pc[p] # "write_log" \/ i <= tail[p] => disk[Slot(i - 1)] = cache[lh[i]]

\* install_trans has brought home, and unpinned, the blocks before tail; after it
\* all of them.
InstalledHome ==
  \A p \in Proc : pc[p] \in {"install", "erase", "r_install", "r_erase"} =>
    \A i \in 1 .. Len(lh) :
      pc[p] \notin {"install", "r_install"} \/ i <= tail[p]
        => disk[lh[i]] = disk[Slot(i - 1)] /\ lh[i] \notin dirty

DataInv ==
  /\ BusyInCall
  /\ TailReset
  /\ HeadListsCommitted
  /\ HeadFits
  /\ CleanIsDisk
  /\ DirtyIsLogged
  /\ CopiedToLog
  /\ InstalledHome

\* The places between the start of a commit, or of recovery, and its end.
CommitPCs == {"write_log", "write_head", "install", "erase", "r_install", "r_erase"}

-----------------------------------------------------------------------------
\* Every entry of a log that fits has its block inside the log.
LEMMA SlotInLog ==
  ASSUME TypeOK, LogFits, NEW i \in 1 .. Len(lh)
  PROVE  /\ Slot(i - 1) \in Blocks \ Home
         /\ lh[i] \in Home /\ lh[i] \in Blocks
         /\ \A j \in 1 .. Len(lh) : j # i => Slot(j - 1) # Slot(i - 1)
  BY LogAssumption DEF LogAssumption, TypeOK, LogFits, Slot, Blocks, Home

\* While a call is in progress nobody commits or recovers.
LEMMA CallExcludesCommit ==
  ASSUME ControlInv, NEW p \in Active
  PROVE  mode = "up" /\ \A q \in Proc : pc[q] \notin CommitPCs
  <1>1. mode = "up"
    BY DEF ControlInv, DownIsIdle, Active, TypeOK
  <1>2. Committers = {}
    BY DEF ControlInv, CommitsAlone
  <1> QED
    BY <1>1, <1>2 DEF ControlInv, UpIsRecovered, Committers, CommitPCs

\* The process that commits is alone with sleepers and processes outside.
LEMMA CommitterAlone ==
  ASSUME ControlInv, NEW p \in Committers
  PROVE  /\ mode = "up" /\ p \in Proc
         /\ \A q \in Proc : q # p => pc[q] \in {"user", "begin", "sleep"}
  <1>1. committing /\ Active = {} /\ Committers = {p}
    BY DEF ControlInv, CommitsAlone
  <1>2. mode = "up" /\ p \in Proc
    BY <1>1 DEF ControlInv, DownIsIdle, TypeOK, Committers
  <1>3. ASSUME NEW q \in Proc, q # p
        PROVE  pc[q] \in {"user", "begin", "sleep"}
    <2>1. q \notin Active /\ q \notin Committers /\ pc[q] \in PCs
      BY <1>1, <1>3 DEF ControlInv, TypeOK
    <2> QED
      BY <1>2, <2>1 DEF ControlInv, UpIsRecovered, Active, Committers, PCs
  <1> QED
    BY <1>2, <1>3

\* The machine starts with the cache, the disk and an empty header in agreement.
LEMMA InitData == Init => DataInv
  <1> SUFFICES ASSUME Init PROVE DataInv
    OBVIOUS
  <1>1. BusyInCall /\ TailReset /\ HeadListsCommitted
    BY DEF Init, BusyInCall, TailReset, HeadListsCommitted
  <1>2. HeadFits
    BY LogAssumption DEF Init, HeadFits, LogAssumption
  <1>3. CleanIsDisk /\ DirtyIsLogged
    BY DEF Init, CleanIsDisk, DirtyIsLogged
  <1>4. CopiedToLog /\ InstalledHome
    BY DEF Init, CopiedToLog, InstalledHome
  <1> QED
    BY <1>1, <1>2, <1>3, <1>4 DEF DataInv

\* begin_op, kill and end_op move processes that hold nothing and are outside of
\* a commit; such a process may start one.
LEMMA QuietData ==
  ASSUME ControlInv, DataInv, pc' \in [Proc -> PCs],
         UNCHANGED <<disk, head, cache, dirty, lh, mode, tail, busy>>,
         \A q \in Proc : pc'[q] # pc[q] =>
           /\ pc[q] \notin CommitPCs /\ busy[q] = {}
           /\ pc'[q] = "write_log" \/ pc'[q] \notin CommitPCs
  PROVE  DataInv'
  <1> USE DEF DataInv, CommitPCs
  <1>1. BusyInCall' /\ TailReset'
    BY DEF BusyInCall, TailReset
  <1>2. HeadListsCommitted' /\ HeadFits'
    BY DEF HeadListsCommitted, HeadFits
  <1>3. CleanIsDisk' /\ DirtyIsLogged'
    BY DEF CleanIsDisk, DirtyIsLogged, Logged
  <1>4. CopiedToLog'
    <2> SUFFICES ASSUME NEW q \in Proc,
                        pc'[q] \in {"write_log", "write_head", "install", "erase"},
                        NEW i \in 1 .. Len(lh), pc'[q] # "write_log" \/ i <= tail[q]
                 PROVE  disk[Slot(i - 1)] = cache[lh[i]]
      BY DEF CopiedToLog, Slot
    <2>1. CASE pc'[q] = pc[q]
      BY <2>1 DEF CopiedToLog
    <2>2. CASE pc'[q] # pc[q]
      BY <2>2 DEF TailReset
    <2> QED
      BY <2>1, <2>2
  <1>5. InstalledHome'
    <2> SUFFICES ASSUME NEW q \in Proc,
                        pc'[q] \in {"install", "erase", "r_install", "r_erase"},
                        NEW i \in 1 .. Len(lh),
                        pc'[q] \notin {"install", "r_install"} \/ i <= tail[q]
                 PROVE  disk[lh[i]] = disk[Slot(i - 1)] /\ lh[i] \notin dirty
      BY DEF InstalledHome, Slot
    <2> QED
      BY DEF InstalledHome
  <1> QED
    BY <1>1, <1>2, <1>3, <1>4, <1>5

\* begin_op, kill, end_op and the end of a commit move no data.
LEMMA CallData ==
  ASSUME ControlInv, DataInv, NEW p \in Proc,
         begin_op(p) \/ kill(p) \/ end_op(p) \/ end_commit(p)
  PROVE  DataInv'
  <1>1. UNCHANGED <<disk, head, cache, dirty, lh, mode, tail, busy>>
    BY DEF begin_op, kill, end_op, end_commit
  <1>2. /\ pc' \in [Proc -> PCs]
        /\ \A q \in Proc : pc'[q] # pc[q] =>
             /\ pc[q] \in {"user", "begin", "sleep", "op", "finish"}
             /\ pc'[q] \in {"user", "begin", "sleep", "op", "finish", "write_log"}
    <2>1. CASE begin_op(p)
      BY <2>1 DEF begin_op, Goto, ControlInv, TypeOK, PCs
    <2>2. CASE kill(p)
      BY <2>2 DEF kill, Goto, ControlInv, TypeOK, PCs
    <2>3. CASE end_op(p)
      BY <2>3 DEF end_op, Goto, WakeupGoto, ControlInv, TypeOK, PCs
    <2>4. CASE end_commit(p)
      BY <2>4 DEF end_commit, WakeupGoto, ControlInv, TypeOK, PCs
    <2> QED
      BY <2>1, <2>2, <2>3, <2>4
  <1>3. \A q \in Proc : pc'[q] # pc[q] =>
          /\ pc[q] \notin CommitPCs /\ busy[q] = {}
          /\ pc'[q] = "write_log" \/ pc'[q] \notin CommitPCs
    BY <1>2 DEF DataInv, BusyInCall, CommitPCs
  <1> QED
    BY <1>1, <1>2, <1>3, QuietData

\* log_write before the lock: the changed buffer is held until it is pinned.
LEMMA LogWriteData ==
  ASSUME ControlInv, DataInv, NEW p \in Proc, NEW b \in Home, NEW v \in Val,
         log_write(p, b, v)
  PROVE  DataInv'
  <1> USE DEF DataInv
  <1>1. PICK l \in {"logging", "panic"} :
          /\ pc' = [pc EXCEPT ![p] = l]
          /\ busy' = [busy EXCEPT ![p] = {b}]
          /\ cache' = [cache EXCEPT ![b] = v]
          /\ UNCHANGED <<disk, head, dirty, lh, mode, tail>>
    BY DEF log_write, Goto
  <1>2. pc[p] = "op" /\ p \in Active
    BY DEF log_write, Active
  <1>3. \A q \in Proc : pc[q] \notin CommitPCs /\ pc'[q] \notin CommitPCs
    BY <1>1, <1>2, CallExcludesCommit DEF ControlInv, TypeOK, CommitPCs
  <1>4. BusyInCall' /\ TailReset'
    BY <1>1, <1>2 DEF BusyInCall, TailReset, ControlInv, TypeOK
  <1>5. HeadListsCommitted' /\ HeadFits' /\ DirtyIsLogged'
    BY <1>1, <1>3 DEF HeadListsCommitted, HeadFits, DirtyIsLogged, Logged, CommitPCs
  <1>6. CleanIsDisk'
    <2>1. busy[p] = {} /\ busy'[p] = {b} /\ \A q \in Proc : q # p => busy'[q] = busy[q]
      BY <1>1, <1>2 DEF BusyInCall, ControlInv, TypeOK
    <2>2. \A c \in Blocks : c # b => cache'[c] = cache[c]
      BY <1>1 DEF ControlInv, TypeOK
    <2>3. Home \subseteq Blocks
      BY LogAssumption DEF LogAssumption, Home, Blocks
    <2> QED
      BY <1>1, <2>1, <2>2, <2>3 DEF CleanIsDisk
  <1>7. CopiedToLog' /\ InstalledHome'
    BY <1>3 DEF CopiedToLog, InstalledHome, CommitPCs
  <1> QED
    BY <1>4, <1>5, <1>6, <1>7

\* log_write under the lock: the buffer is let go, recorded and pinned.
LEMMA LogWriteLockedData ==
  ASSUME ControlInv, DataInv, NEW p \in Proc, log_write_locked(p)
  PROVE  DataInv'
  <1> USE DEF DataInv
  <1>1. PICK b \in busy[p] :
          /\ lh' = IF b \in Logged(lh) THEN lh ELSE Append(lh, b)
          /\ dirty' = dirty \cup {b}
          /\ busy' = [busy EXCEPT ![p] = {}]
          /\ pc' = [pc EXCEPT ![p] = "op"]
          /\ UNCHANGED <<disk, head, cache, mode, tail>>
    BY DEF log_write_locked, Goto
  <1>2. pc[p] = "logging" /\ p \in Active /\ busy[p] = {b} /\ b \in Home
    BY DEF log_write_locked, Active, ControlInv, LoggingHolds, TypeOK
  <1>3. /\ mode = "up"
        /\ \A q \in Proc : pc[q] \notin CommitPCs /\ pc'[q] \notin CommitPCs
    BY <1>1, <1>2, CallExcludesCommit DEF ControlInv, TypeOK, CommitPCs
  <1>4. BusyInCall' /\ TailReset'
    BY <1>1, <1>2 DEF BusyInCall, TailReset, ControlInv, TypeOK
  <1>5. HeadListsCommitted' /\ HeadFits'
    BY <1>1, <1>3 DEF HeadListsCommitted, HeadFits, CommitPCs
  <1>6. Logged(lh') = Logged(lh) \cup {b}
    <2>1. CASE b \in Logged(lh)
      BY <1>1, <2>1 DEF Logged
    <2>2. CASE b \notin Logged(lh)
      <3>1. /\ lh' = Append(lh, b) /\ Len(lh') = Len(lh) + 1 /\ lh \in Seq(Home)
            /\ lh' \in Seq(Home) /\ lh'[Len(lh) + 1] = b
            /\ \A i \in 1 .. Len(lh) : lh'[i] = lh[i]
        BY <1>1, <1>2, <2>2 DEF ControlInv, TypeOK
      <3> QED
        BY <3>1 DEF Logged
    <2> QED
      BY <2>1, <2>2
  <1>7. DirtyIsLogged'
    BY <1>1, <1>3, <1>6 DEF DirtyIsLogged
  <1>8. CleanIsDisk'
    <2>1. busy'[p] = {} /\ \A q \in Proc : q # p => busy'[q] = busy[q]
      BY <1>1 DEF ControlInv, TypeOK
    <2> QED
      BY <1>1, <1>2, <2>1 DEF CleanIsDisk
  <1>9. CopiedToLog' /\ InstalledHome'
    BY <1>3 DEF CopiedToLog, InstalledHome, CommitPCs
  <1> QED
    BY <1>4, <1>5, <1>7, <1>8, <1>9

\* One write of write_log, which changes a log block only.
LEMMA WriteLogData ==
  ASSUME ControlInv, DataInv, LogFits, NEW p \in Proc, write_log(p)
  PROVE  DataInv'
  <1> USE DEF DataInv
  <1>0. TypeOK
    BY DEF ControlInv
  <1>1. /\ pc[p] = "write_log" /\ p \in Committers
        /\ UNCHANGED <<head, lh, mode, busy>>
    BY DEF write_log, Committers
  <1>2. mode = "up" /\ \A q \in Proc : q # p => pc[q] \in {"user", "begin", "sleep"}
    BY <1>1, CommitterAlone
  <1>3. head = <<>>
    BY <1>1, <1>2 DEF HeadListsCommitted
  <1>4. CASE tail[p] < Len(lh)
    <2> DEFINE n == tail[p] + 1
    <2>1. /\ n \in 1 .. Len(lh) /\ tail[p] = n - 1
          /\ Slot(n - 1) \in Blocks \ Home
          /\ lh[n] \in Home /\ lh[n] \in Blocks
      BY <1>0, <1>4, SlotInLog DEF TypeOK
    <2>2. /\ cache' = [cache EXCEPT ![Slot(n - 1)] = cache[lh[n]]]
          /\ disk' = [disk EXCEPT ![Slot(n - 1)] = cache[lh[n]]]
          /\ dirty' = dirty \ {Slot(n - 1)}
          /\ tail' = [tail EXCEPT ![p] = n]
          /\ pc' = pc
      BY <1>4, <2>1 DEF write_log
    <2> HIDE DEF n
    <2>3. /\ \A b \in Home : cache'[b] = cache[b] /\ disk'[b] = disk[b]
          /\ cache'[Slot(n - 1)] = cache[lh[n]] /\ disk'[Slot(n - 1)] = cache[lh[n]]
          /\ \A b \in Blocks : b # Slot(n - 1) => cache'[b] = cache[b] /\ disk'[b] = disk[b]
          /\ Home \subseteq Blocks
      BY <1>0, <2>1, <2>2, LogAssumption DEF TypeOK, LogAssumption, Home, Blocks
    <2>4. BusyInCall' /\ TailReset'
      BY <1>0, <1>1, <2>2 DEF BusyInCall, TailReset, TypeOK
    <2>5. HeadListsCommitted' /\ HeadFits'
      BY <1>1, <2>2 DEF HeadListsCommitted, HeadFits
    <2>6. DirtyIsLogged'
      BY <1>1, <2>2 DEF DirtyIsLogged, Logged
    <2>7. CleanIsDisk'
      BY <1>1, <2>1, <2>2, <2>3 DEF CleanIsDisk
    <2>8. CopiedToLog'
      <3> SUFFICES ASSUME NEW q \in Proc,
                          pc[q] \in {"write_log", "write_head", "install", "erase"},
                          NEW i \in 1 .. Len(lh), pc[q] # "write_log" \/ i <= tail'[q]
                   PROVE  disk'[Slot(i - 1)] = cache'[lh[i]]
        BY <1>1, <2>2 DEF CopiedToLog, Slot
      <3>1. q = p /\ i <= n
        BY <1>0, <1>1, <1>2, <2>2 DEF TypeOK
      <3>2. CASE i = n
        BY <2>1, <2>3, <3>2
      <3>3. CASE i # n
        <4>1. i <= tail[p]
          BY <1>0, <2>1, <3>1, <3>3 DEF TypeOK
        <4>2. disk[Slot(i - 1)] = cache[lh[i]]
          BY <1>1, <4>1 DEF CopiedToLog
        <4>3. Slot(i - 1) \in Blocks /\ Slot(i - 1) # Slot(n - 1) /\ lh[i] \in Home
          BY <1>0, <2>1, <3>3, SlotInLog
        <4> QED
          BY <2>3, <4>2, <4>3
      <3> QED
        BY <3>2, <3>3
    <2>9. InstalledHome'
      BY <1>1, <1>2, <2>2 DEF InstalledHome
    <2> QED
      BY <2>4, <2>5, <2>6, <2>7, <2>8, <2>9
  <1>5. CASE ~(tail[p] < Len(lh))
    <2>1. /\ tail' = [tail EXCEPT ![p] = 0] /\ pc' = [pc EXCEPT ![p] = "write_head"]
          /\ UNCHANGED <<cache, disk, dirty>>
          /\ Len(lh) \in Nat /\ tail[p] \in Nat /\ tail[p] >= Len(lh)
      BY <1>0, <1>5 DEF write_log, Goto, TypeOK
    <2>2. BusyInCall' /\ TailReset'
      BY <1>0, <1>1, <2>1 DEF BusyInCall, TailReset, TypeOK
    <2>3. HeadListsCommitted' /\ HeadFits'
      BY <1>0, <1>1, <1>3, <2>1 DEF HeadListsCommitted, HeadFits, TypeOK
    <2>4. DirtyIsLogged' /\ CleanIsDisk'
      BY <1>1, <2>1 DEF DirtyIsLogged, CleanIsDisk, Logged
    <2>5. CopiedToLog'
      BY <1>0, <1>1, <1>2, <2>1 DEF CopiedToLog, TypeOK, Slot
    <2>6. InstalledHome'
      BY <1>0, <1>1, <1>2, <2>1 DEF InstalledHome, TypeOK
    <2> QED
      BY <2>2, <2>3, <2>4, <2>5, <2>6
  <1> QED
    BY <1>4, <1>5

\* The commit point: the header lists the transaction, nothing is installed yet.
LEMMA WriteHeadData ==
  ASSUME ControlInv, DataInv, LogFits, NEW p \in Proc, write_head(p)
  PROVE  DataInv'
  <1> USE DEF DataInv
  <1>0. TypeOK
    BY DEF ControlInv
  <1>1. /\ pc[p] = "write_head" /\ p \in Committers
        /\ head' = lh /\ pc' = [pc EXCEPT ![p] = "install"]
        /\ UNCHANGED <<disk, cache, dirty, lh, mode, tail, busy>>
    BY DEF write_head, Committers, Goto
  <1>2. mode = "up" /\ \A q \in Proc : q # p => pc[q] \in {"user", "begin", "sleep"}
    BY <1>1, CommitterAlone
  <1>3. BusyInCall' /\ TailReset' /\ tail[p] = 0
    BY <1>0, <1>1 DEF BusyInCall, TailReset, TypeOK
  <1>4. HeadListsCommitted' /\ HeadFits'
    BY <1>0, <1>1, <1>2 DEF HeadListsCommitted, HeadFits, TypeOK, LogFits
  <1>5. DirtyIsLogged' /\ CleanIsDisk'
    BY <1>1 DEF DirtyIsLogged, CleanIsDisk, Logged
  <1>6. CopiedToLog'
    BY <1>0, <1>1, <1>2 DEF CopiedToLog, TypeOK, Slot
  <1>7. InstalledHome'
    BY <1>0, <1>1, <1>2, <1>3 DEF InstalledHome, TypeOK
  <1> QED
    BY <1>3, <1>4, <1>5, <1>6, <1>7

\* install_trans runs in the committing process or, before the system is up, in
\* the one that recovers.
LEMMA InstallerAlone ==
  ASSUME ControlInv, NEW p \in Proc, pc[p] \in {"install", "erase", "r_install", "r_erase"}
  PROVE  \A q \in Proc : q # p => pc[q] \in {"user", "begin", "sleep"}
  <1>1. CASE pc[p] \in {"install", "erase"}
    BY <1>1, CommitterAlone DEF Committers
  <1>2. CASE pc[p] \in {"r_install", "r_erase"}
    <2>1. mode = "recovering"
      BY <1>2 DEF ControlInv, UpIsRecovered, DownIsIdle, TypeOK
    <2> QED
      BY <1>2, <2>1 DEF ControlInv, DownIsIdle
  <1> QED
    BY <1>1, <1>2

\* One write of install_trans: a recorded block gets home what its log block
\* holds, which is what its buffer holds already.
LEMMA InstallData ==
  ASSUME ControlInv, DataInv, LogFits, NEW p \in Proc, install_trans(p)
  PROVE  DataInv'
  <1> USE DEF DataInv
  <1>0. TypeOK
    BY DEF ControlInv
  <1>1. /\ pc[p] \in {"install", "r_install"}
        /\ UNCHANGED <<head, lh, mode, busy>>
    BY DEF install_trans
  <1>2. \A q \in Proc : q # p => pc[q] \in {"user", "begin", "sleep"}
    BY <1>1, InstallerAlone
  <1>3. head = lh
    BY <1>1 DEF HeadListsCommitted
  <1>4. CASE tail[p] < Len(lh)
    <2> DEFINE n == tail[p] + 1
    <2>1. /\ n \in 1 .. Len(lh) /\ tail[p] = n - 1 /\ tail[p] \in Nat
          /\ Slot(n - 1) \in Blocks \ Home
          /\ lh[n] \in Home /\ lh[n] \in Blocks
      BY <1>0, <1>4, SlotInLog DEF TypeOK
    <2>2. /\ cache' = [cache EXCEPT ![lh[n]] = cache[Slot(n - 1)]]
          /\ disk' = [disk EXCEPT ![lh[n]] = cache[Slot(n - 1)]]
          /\ dirty' = dirty \ {lh[n]}
          /\ tail' = [tail EXCEPT ![p] = n]
          /\ pc' = pc
      BY <1>4, <2>1 DEF install_trans
    <2> HIDE DEF n
    <2>3. cache[Slot(n - 1)] = disk[Slot(n - 1)]
      BY <2>1 DEF CleanIsDisk
    <2>4. /\ cache'[lh[n]] = disk[Slot(n - 1)] /\ disk'[lh[n]] = disk[Slot(n - 1)]
          /\ \A b \in Blocks : b # lh[n] => cache'[b] = cache[b] /\ disk'[b] = disk[b]
          /\ Home \subseteq Blocks
      BY <1>0, <2>1, <2>2, <2>3, LogAssumption DEF TypeOK, LogAssumption, Home, Blocks
    <2>5. BusyInCall' /\ TailReset'
      BY <1>0, <1>1, <2>2 DEF BusyInCall, TailReset, TypeOK
    <2>6. HeadListsCommitted' /\ HeadFits'
      BY <1>1, <2>2 DEF HeadListsCommitted, HeadFits
    <2>7. DirtyIsLogged'
      BY <1>1, <2>2 DEF DirtyIsLogged, Logged
    <2>8. CleanIsDisk'
      <3>1. \A b \in Blocks \ Home : b # lh[n]
        BY <2>1
      <3>2. ASSUME NEW b \in Home, b \notin dirty', \A q \in Proc : b \notin busy[q]
            PROVE  cache'[b] = disk'[b]
        BY <2>2, <2>4, <3>2 DEF CleanIsDisk
      <3> QED
        BY <1>1, <2>4, <3>1, <3>2 DEF CleanIsDisk
    <2>9. \A i \in 1 .. Len(lh) :
            /\ disk'[Slot(i - 1)] = disk[Slot(i - 1)]
            /\ lh[i] \in Blocks
            /\ i # n => lh[i] # lh[n]
      <3>1. ASSUME NEW i \in 1 .. Len(lh)
            PROVE  Slot(i - 1) \in Blocks /\ Slot(i - 1) # lh[n] /\ lh[i] \in Blocks
        BY <1>0, <2>1, SlotInLog
      <3>2. \A i \in 1 .. Len(lh) : i # n => lh[i] # lh[n]
        BY <1>0, <2>1 DEF ControlInv, LogDistinct, Distinct, TypeOK
      <3> QED
        BY <2>4, <3>1, <3>2
    <2>10. CopiedToLog'
      <3> SUFFICES ASSUME NEW q \in Proc,
                          pc[q] \in {"write_log", "write_head", "install", "erase"},
                          NEW i \in 1 .. Len(lh)
                   PROVE  disk'[Slot(i - 1)] = cache'[lh[i]]
        BY <1>1, <2>2 DEF CopiedToLog, Slot
      <3>1. q = p /\ disk[Slot(i - 1)] = cache[lh[i]]
        BY <1>1, <1>2 DEF CopiedToLog
      <3> QED
        BY <2>4, <2>9, <3>1
    <2>11. InstalledHome'
      <3> SUFFICES ASSUME NEW q \in Proc,
                          pc[q] \in {"install", "erase", "r_install", "r_erase"},
                          NEW i \in 1 .. Len(lh),
                          pc[q] \notin {"install", "r_install"} \/ i <= tail'[q]
                   PROVE  disk'[lh[i]] = disk'[Slot(i - 1)] /\ lh[i] \notin dirty'
        BY <1>1, <2>2 DEF InstalledHome, Slot
      <3>1. q = p /\ i <= n
        BY <1>0, <1>1, <1>2, <2>2 DEF TypeOK
      <3>2. CASE i = n
        BY <2>2, <2>4, <2>9, <3>2
      <3>3. CASE i # n
        <4>1. disk[lh[i]] = disk[Slot(i - 1)] /\ lh[i] \notin dirty
          BY <1>1, <2>1, <3>1, <3>3 DEF InstalledHome
        <4> QED
          BY <2>2, <2>4, <2>9, <3>3, <4>1
      <3> QED
        BY <3>2, <3>3
    <2> QED
      BY <2>5, <2>6, <2>7, <2>8, <2>10, <2>11
  <1>5. CASE ~(tail[p] < Len(lh))
    <2>1. /\ tail' = [tail EXCEPT ![p] = 0]
          /\ pc' = [pc EXCEPT ![p] = IF pc[p] = "install" THEN "erase" ELSE "r_erase"]
          /\ UNCHANGED <<cache, disk, dirty>>
          /\ Len(lh) \in Nat /\ tail[p] \in Nat /\ tail[p] >= Len(lh)
      BY <1>0, <1>5 DEF install_trans, Goto, TypeOK
    <2>2. BusyInCall' /\ TailReset'
      BY <1>0, <1>1, <2>1 DEF BusyInCall, TailReset, TypeOK
    <2>3. HeadListsCommitted' /\ HeadFits'
      <3>1. mode = "up" => pc[p] = "install" /\ pc'[p] = "erase"
        BY <1>0, <1>1, <2>1 DEF ControlInv, UpIsRecovered, TypeOK
      <3> QED
        BY <1>0, <1>1, <1>3, <2>1, <3>1 DEF HeadListsCommitted, HeadFits, TypeOK
    <2>4. DirtyIsLogged' /\ CleanIsDisk'
      BY <1>1, <2>1 DEF DirtyIsLogged, CleanIsDisk, Logged
    <2>5. CopiedToLog'
      BY <1>0, <1>1, <1>2, <2>1 DEF CopiedToLog, TypeOK, Slot
    <2>6. InstalledHome'
      BY <1>0, <1>1, <1>2, <2>1 DEF InstalledHome, TypeOK, Slot
    <2> QED
      BY <2>2, <2>3, <2>4, <2>5, <2>6
  <1> QED
    BY <1>4, <1>5

\* Erasing the header, in a commit or after recovery: all blocks are at home.
LEMMA EraseData ==
  ASSUME ControlInv, DataInv, NEW p \in Proc, erase(p) \/ recover_erase(p)
  PROVE  DataInv'
  <1> USE DEF DataInv
  <1>0. TypeOK
    BY DEF ControlInv
  <1>1. PICK l \in {"finish", "user"} :
          /\ pc' = [pc EXCEPT ![p] = l]
          /\ pc[p] \in {"erase", "r_erase"} /\ lh' = <<>> /\ head' = <<>>
          /\ UNCHANGED <<disk, cache, dirty, tail, busy>>
          /\ mode' = "up"
    BY DEF erase, recover_erase, Goto, Running
  <1>2. \A q \in Proc : q # p => pc[q] \in {"user", "begin", "sleep"}
    BY <1>1, InstallerAlone
  <1>3. \A q \in Proc : pc'[q] \notin CommitPCs
    BY <1>0, <1>1, <1>2 DEF TypeOK, CommitPCs
  <1>4. BusyInCall' /\ TailReset'
    BY <1>0, <1>1 DEF BusyInCall, TailReset, TypeOK
  <1>5. HeadListsCommitted' /\ HeadFits'
    BY <1>1, <1>3, LogAssumption DEF HeadListsCommitted, HeadFits, LogAssumption, CommitPCs
  <1>6. dirty = {}
    <2>1. \A i \in 1 .. Len(lh) : lh[i] \notin dirty
      BY <1>1 DEF InstalledHome
    <2>2. Logged(lh) = {lh[i] : i \in 1 .. Len(lh)}
      BY <1>0 DEF Logged, TypeOK
    <2> QED
      BY <2>1, <2>2 DEF DirtyIsLogged
  <1>7. DirtyIsLogged' /\ CleanIsDisk'
    BY <1>1, <1>6 DEF DirtyIsLogged, CleanIsDisk, Logged
  <1>8. CopiedToLog' /\ InstalledHome'
    BY <1>3 DEF CopiedToLog, InstalledHome, CommitPCs
  <1> QED
    BY <1>4, <1>5, <1>7, <1>8

\* bget takes only buffers that agree with the disk: nothing changes.
LEMMA RecycleNothing ==
  ASSUME ControlInv, DataInv, NEW b \in Blocks, bget_recycle(b)
  PROVE  UNCHANGED vars
  <1>1. cache[b] = disk[b]
    BY DEF bget_recycle, Recyclable, DataInv, CleanIsDisk
  <1>2. cache' = cache
    BY <1>1 DEF bget_recycle, ControlInv, TypeOK
  <1> QED
    BY <1>2 DEF bget_recycle, vars

\* The machine stops: only the disk and its header remain.
LEMMA CrashData ==
  ASSUME ControlInv, DataInv, Crash
  PROVE  DataInv'
  <1> USE DEF DataInv, Crash
  <1>1. BusyInCall' /\ TailReset' /\ HeadListsCommitted' /\ HeadFits'
    BY DEF BusyInCall, TailReset, HeadListsCommitted, HeadFits
  <1>2. DirtyIsLogged' /\ CleanIsDisk'
    BY DEF DirtyIsLogged, CleanIsDisk
  <1>3. CopiedToLog' /\ InstalledHome'
    BY DEF CopiedToLog, InstalledHome
  <1> QED
    BY <1>1, <1>2, <1>3

\* Recovery starts with nothing installed.
LEMMA InitlogData ==
  ASSUME ControlInv, DataInv, NEW p \in Proc, initlog(p)
  PROVE  DataInv'
  <1> USE DEF DataInv
  <1>1. /\ mode = "off" /\ mode' = "recovering" /\ lh' = head
        /\ pc' = [pc EXCEPT ![p] = "r_install"]
        /\ UNCHANGED <<disk, head, cache, dirty, tail, busy>>
    BY DEF initlog, Goto
  <1>2. /\ pc'[p] = "r_install" /\ pc[p] = "user"
        /\ \A q \in Proc : q # p => pc'[q] = "user" /\ pc[q] = "user"
    BY <1>1 DEF ControlInv, TypeOK, DownIsIdle
  <1>3. BusyInCall' /\ TailReset' /\ HeadListsCommitted' /\ HeadFits'
    BY <1>1, <1>2 DEF BusyInCall, TailReset, HeadListsCommitted, HeadFits
  <1>4. DirtyIsLogged' /\ CleanIsDisk'
    BY <1>1 DEF DirtyIsLogged, CleanIsDisk
  <1>5. CopiedToLog'
    BY <1>2 DEF CopiedToLog
  <1>6. InstalledHome'
    <2>1. tail[p] = 0
      BY <1>2 DEF TailReset
    <2>2. \A i \in 1 .. Len(lh') : ~(i <= tail'[p])
      BY <1>1, <2>1
    <2> QED
      BY <1>2, <2>2 DEF InstalledHome
  <1> QED
    BY <1>3, <1>4, <1>5, <1>6

\* The data invariant is inductive as long as the log fits.
LEMMA NextData == ControlInv /\ DataInv /\ LogFits /\ [Next]_vars => DataInv'
  <1> SUFFICES ASSUME ControlInv, DataInv, LogFits, [Next]_vars PROVE DataInv'
    OBVIOUS
  <1>1. CASE UNCHANGED vars
    BY <1>1 DEF vars, DataInv, BusyInCall, TailReset, HeadListsCommitted, HeadFits, CleanIsDisk,
                DirtyIsLogged, CopiedToLog, InstalledHome, Logged, Slot
  <1>2. ASSUME NEW b \in Blocks, bget_recycle(b) PROVE DataInv'
    BY <1>1, <1>2, RecycleNothing
  <1>3. CASE Next
    BY <1>2, <1>3, CallData, LogWriteData, LogWriteLockedData, WriteLogData, WriteHeadData,
       InstallData, EraseData, CrashData, InitlogData DEF Next
  <1> QED
    BY <1>1, <1>3

-----------------------------------------------------------------------------
(***************************************************************************)
(* Refinement of AtomicDisk.                                               *)
(***************************************************************************)

\* What recovery makes of a header h and a disk d.
Replay(h, d) ==
  [b \in Home |-> IF b \in Logged(h)
                  THEN d[Slot((CHOOSE i \in DOMAIN h : h[i] = b) - 1)] ELSE d[b]]

\* A recorded block comes from its log block, any other from its own place.
LEMMA ReplayAt ==
  ASSUME NEW h \in Seq(Home), Distinct(h), NEW d
  PROVE  /\ \A i \in 1 .. Len(h) : Replay(h, d)[h[i]] = d[Slot(i - 1)]
         /\ \A b \in Home \ Logged(h) : Replay(h, d)[b] = d[b]
         /\ \A b \in Logged(h) : \E i \in 1 .. Len(h) : b = h[i]
  <1>1. DOMAIN h = 1 .. Len(h) /\ \A i \in 1 .. Len(h) : h[i] \in Home /\ h[i] \in Logged(h)
    BY DEF Logged
  <1>2. ASSUME NEW i \in 1 .. Len(h)
        PROVE  Replay(h, d)[h[i]] = d[Slot(i - 1)]
    <2>1. (CHOOSE j \in DOMAIN h : h[j] = h[i]) = i
      BY <1>1 DEF Distinct
    <2> QED
      BY <1>1, <2>1 DEF Replay
  <1>3. \A b \in Home \ Logged(h) : Replay(h, d)[b] = d[b]
    BY DEF Replay
  <1>4. \A b \in Logged(h) : \E i \in 1 .. Len(h) : b = h[i]
    BY <1>1 DEF Logged
  <1> QED
    BY <1>2, <1>3, <1>4

\* Where recovery finds the contents of a block.
LEMMA ReplaySource ==
  ASSUME NEW h \in Seq(Home), Distinct(h), NEW d, NEW b \in Home
  PROVE  \/ b \notin Logged(h) /\ Replay(h, d)[b] = d[b]
         \/ \E i \in 1 .. Len(h) : b = h[i] /\ Replay(h, d)[b] = d[Slot(i - 1)]
  <1>1. CASE b \in Logged(h)
    <2>1. PICK i \in 1 .. Len(h) : b = h[i]
      BY <1>1, ReplayAt
    <2>2. Replay(h, d)[h[i]] = d[Slot(i - 1)]
      BY ReplayAt
    <2> QED
      BY <2>1, <2>2
  <1>2. CASE b \notin Logged(h)
    BY <1>2, ReplayAt
  <1> QED
    BY <1>1, <1>2

\* The variables of AtomicDisk in these terms.
LEMMA Mapping ==
  /\ Recovered = Replay(head, disk) /\ Recovered' = Replay(head', disk')
  /\ Recovered = [b \in Home |-> Recovered[b]]
  /\ Seen = [b \in Home |-> Seen[b]]
  BY DEF Recovered, Replay, Seen

\* What a reboot would find changes only with the header or with a source of it.
LEMMA RecoveredSame ==
  ASSUME ControlInv, head' = head,
         \A i \in 1 .. Len(head) : disk'[Slot(i - 1)] = disk[Slot(i - 1)],
         \A b \in Home \ Logged(head) : disk'[b] = disk[b]
  PROVE  Recovered' = Recovered
  <1>1. head \in Seq(Home) /\ Distinct(head)
    BY DEF ControlInv, TypeOK, LogDistinct
  <1>2. \A i \in 1 .. Len(head) : disk'[Slot(i - 1)] = Recovered[head[i]]
    BY <1>1, ReplayAt, Mapping
  <1>3. \A b \in Home \ Logged(head) : disk'[b] = Recovered[b]
    BY DEF Recovered
  <1>4. ASSUME NEW b \in Home PROVE Recovered'[b] = Recovered[b]
    <2>1. \/ b \notin Logged(head) /\ Replay(head, disk')[b] = disk'[b]
          \/ \E i \in 1 .. Len(head) :
               b = head[i] /\ Replay(head, disk')[b] = disk'[Slot(i - 1)]
      BY <1>1, ReplaySource
    <2> QED
      BY <1>2, <1>3, <2>1, Mapping
  <1>5. /\ Recovered = [b \in Home |-> Recovered[b]]
        /\ Recovered' = [b \in Home |-> Recovered'[b]]
    BY DEF Recovered
  <1> QED
    BY <1>4, <1>5

\* What the kernel sees changes only with its buffers.
LEMMA SeenSame ==
  ASSUME mode' = mode, mode = "up" => \A b \in Home : cache'[b] = cache[b],
         Recovered' = Recovered
  PROVE  Seen' = Seen
  BY DEF Seen

\* A step that moves neither a block nor the header.
LEMMA DataSame ==
  ASSUME UNCHANGED <<disk, head, cache, mode>>
  PROVE  Recovered' = Recovered /\ Seen' = Seen
  <1>1. Recovered' = Recovered
    BY DEF Recovered, Logged, Slot
  <1> QED
    BY <1>1, SeenSame

\* A header without entries: what a reboot would find is at home already.
LEMMA NothingToReplay ==
  ASSUME head = <<>>
  PROVE  Recovered = [b \in Home |-> disk[b]]
  BY DEF Recovered, Logged

\* The system starts as AtomicDisk does.
LEMMA InitRefines == Init => AD!Init
  <1> SUFFICES ASSUME Init PROVE AD!Init
    OBVIOUS
  <1>1. Seen = Recovered /\ Active = {}
    BY DEF Init, Seen, Active
  <1>2. Recovered = [b \in Home |-> disk[b]]
    BY NothingToReplay DEF Init
  <1>3. Recovered \in [Home -> Val]
    BY <1>2, LogAssumption DEF Init, LogAssumption, Home, Blocks
  <1> QED
    BY <1>1, <1>3 DEF AD!Init

\* begin_op joins the abstract transaction or does nothing.
LEMMA BeginRefines ==
  ASSUME ControlInv, NEW p \in Proc, begin_op(p)
  PROVE  AD!Begin(p) \/ UNCHANGED AD!vars
  <1>1. Recovered' = Recovered /\ Seen' = Seen
    BY DataSame DEF begin_op
  <1>2. p \notin Active /\ pc \in [Proc -> PCs]
    BY DEF begin_op, Active, ControlInv, TypeOK
  <1>3. CASE pc' = [pc EXCEPT ![p] = "sleep"]
    <2>1. Active' = Active
      BY <1>2, <1>3 DEF Active
    <2> QED
      BY <1>1, <2>1 DEF AD!vars
  <1>4. CASE pc' = [pc EXCEPT ![p] = "op"]
    <2>1. Active' = Active \cup {p}
      BY <1>2, <1>4 DEF Active
    <2> QED
      BY <1>1, <1>2, <2>1 DEF AD!Begin
  <1> QED
    BY <1>3, <1>4 DEF begin_op, Goto

\* log_write changes one block as the kernel sees it.
LEMMA LogWriteRefines ==
  ASSUME ControlInv, NEW p \in Proc, NEW b \in Home, NEW v \in Val, log_write(p, b, v)
  PROVE  AD!Write(p, b, v)
  <1>1. /\ mode = "up" /\ mode' = mode /\ p \in Active
        /\ UNCHANGED <<disk, head>> /\ cache' = [cache EXCEPT ![b] = v]
    BY DEF log_write, Running, Active
  <1>2. PICK l \in {"logging", "panic"} : pc' = [pc EXCEPT ![p] = l]
    BY DEF log_write, Goto
  <1>3. Active' = Active
    BY <1>1, <1>2 DEF Active, ControlInv, TypeOK
  <1>4. Recovered' = Recovered
    BY <1>1 DEF Recovered, Logged, Slot
  <1>5. Seen' = [Seen EXCEPT ![b] = v]
    <2>1. Home \subseteq Blocks /\ DOMAIN cache = Blocks
      BY LogAssumption DEF LogAssumption, Home, Blocks, ControlInv, TypeOK
    <2>2. Seen = [c \in Home |-> cache[c]] /\ Seen' = [c \in Home |-> cache'[c]]
      BY <1>1 DEF Seen
    <2> QED
      BY <1>1, <2>1, <2>2
  <1> QED
    BY <1>1, <1>3, <1>4, <1>5 DEF AD!Write

\* end_op leaves the abstract transaction.
LEMMA EndRefines ==
  ASSUME ControlInv, NEW p \in Proc, end_op(p)
  PROVE  AD!End(p)
  <1>1. Recovered' = Recovered /\ Seen' = Seen
    BY DataSame DEF end_op
  <1>2. p \in Active /\ pc \in [Proc -> PCs]
    BY DEF end_op, Active, ControlInv, TypeOK
  <1>3. /\ pc'[p] \in {"write_log", "finish", "user"}
        /\ \A q \in Proc : q # p => pc'[q] = pc[q] \/ (pc[q] = "sleep" /\ pc'[q] = "begin")
    <2>1. CASE pc' = [pc EXCEPT ![p] = IF NeedsCommit THEN "write_log" ELSE "finish"]
      BY <1>2, <2>1
    <2>2. CASE WakeupGoto(p, "user")
      BY <1>2, <2>2 DEF WakeupGoto
    <2> QED
      BY <2>1, <2>2 DEF end_op, Goto
  <1>4. Active' = Active \ {p}
    BY <1>2, <1>3 DEF Active
  <1> QED
    BY <1>1, <1>2, <1>4 DEF AD!End

\* kill, log_write under the lock, the end of a commit and the start of recovery
\* are invisible.
LEMMA QuietRefines ==
  ASSUME ControlInv, NEW p \in Proc,
         kill(p) \/ log_write_locked(p) \/ end_commit(p) \/ initlog(p)
  PROVE  UNCHANGED AD!vars
  <1>1. pc \in [Proc -> PCs]
    BY DEF ControlInv, TypeOK
  <1>2. CASE initlog(p)
    <2>1. UNCHANGED <<disk, head>> /\ mode = "off" /\ mode' = "recovering"
          /\ pc' = [pc EXCEPT ![p] = "r_install"]
      BY <1>2 DEF initlog, Goto
    <2>2. Recovered' = Recovered
      BY <2>1 DEF Recovered, Logged, Slot
    <2>3. Seen' = Seen
      BY <2>1, <2>2 DEF Seen
    <2>4. Active' = Active
      BY <1>1, <2>1 DEF Active, ControlInv, DownIsIdle
    <2> QED
      BY <2>2, <2>3, <2>4 DEF AD!vars
  <1>3. CASE kill(p) \/ log_write_locked(p) \/ end_commit(p)
    <2>1. Recovered' = Recovered /\ Seen' = Seen
      BY <1>3, DataSame DEF kill, log_write_locked, end_commit
    <2>2. \A q \in Proc : \/ pc'[q] = pc[q]
                          \/ pc[q] \in {"logging"} /\ pc'[q] = "op"
                          \/ pc[q] \in {"sleep", "finish"} /\ pc'[q] \in {"begin", "user"}
      BY <1>1, <1>3 DEF kill, log_write_locked, end_commit, Goto, WakeupGoto
    <2>3. Active' = Active
      BY <2>2 DEF Active
    <2> QED
      BY <2>1, <2>3 DEF AD!vars
  <1> QED
    BY <1>2, <1>3

\* write_log changes log blocks that no header on the disk refers to.
LEMMA WriteLogRefines ==
  ASSUME ControlInv, DataInv, LogFits, NEW p \in Proc, write_log(p)
  PROVE  UNCHANGED AD!vars /\ \A b \in Home : disk'[b] = disk[b]
  <1>0. TypeOK
    BY DEF ControlInv
  <1>1. pc[p] = "write_log" /\ p \in Committers /\ UNCHANGED <<head, mode>>
    BY DEF write_log, Committers
  <1>2. mode = "up" /\ \A q \in Proc : q # p => pc[q] \in {"user", "begin", "sleep"}
    BY <1>1, CommitterAlone
  <1>3. head = <<>>
    BY <1>1, <1>2 DEF DataInv, HeadListsCommitted
  <1>4. \A b \in Home : cache'[b] = cache[b] /\ disk'[b] = disk[b]
    <2>1. CASE tail[p] < Len(lh)
      <3>1. tail[p] + 1 \in 1 .. Len(lh) /\ (tail[p] + 1) - 1 = tail[p]
        BY <1>0, <2>1 DEF TypeOK
      <3>2. Slot(tail[p]) \in Blocks \ Home
        BY <1>0, <3>1, SlotInLog
      <3>3. Home \subseteq Blocks
        BY LogAssumption DEF LogAssumption, Home, Blocks
      <3> QED
        BY <1>0, <2>1, <3>2, <3>3 DEF write_log, TypeOK
    <2>2. CASE ~(tail[p] < Len(lh))
      BY <2>2 DEF write_log
    <2> QED
      BY <2>1, <2>2
  <1>5. Recovered' = Recovered
    BY <1>1, <1>3, <1>4, RecoveredSame
  <1>6. Seen' = Seen
    BY <1>1, <1>4, <1>5, SeenSame
  <1>7. pc' = pc \/ pc' = [pc EXCEPT ![p] = "write_head"]
    BY DEF write_log, Goto
  <1>8. Active' = Active
    BY <1>0, <1>1, <1>7 DEF Active, TypeOK
  <1> QED
    BY <1>4, <1>5, <1>6, <1>8 DEF AD!vars

\* The commit point: everything the completed calls wrote becomes durable.
LEMMA WriteHeadRefines ==
  ASSUME ControlInv, DataInv, LogFits, NEW p \in Proc, write_head(p)
  PROVE  AD!Commit
  <1>0. TypeOK /\ lh \in Seq(Home) /\ Distinct(lh)
    BY DEF ControlInv, TypeOK, LogDistinct
  <1>1. /\ pc[p] = "write_head" /\ p \in Committers
        /\ head' = lh /\ pc' = [pc EXCEPT ![p] = "install"]
        /\ UNCHANGED <<disk, cache, mode>>
    BY DEF write_head, Committers, Goto
  <1>2. mode = "up" /\ \A q \in Proc : q # p => pc[q] \in {"user", "begin", "sleep"}
    BY <1>1, CommitterAlone
  <1>3. Active = {} /\ Active' = {}
    BY <1>0, <1>1, <1>2 DEF Active, TypeOK
  <1>4. Seen = [b \in Home |-> cache[b]] /\ Seen' = Seen
    BY <1>1, <1>2 DEF Seen
  <1>5. ASSUME NEW i \in 1 .. Len(lh) PROVE disk[Slot(i - 1)] = Seen[lh[i]]
    <2>1. disk[Slot(i - 1)] = cache[lh[i]]
      BY <1>1 DEF DataInv, CopiedToLog
    <2>2. lh[i] \in Home
      BY <1>0
    <2> QED
      BY <1>4, <2>1, <2>2
  <1>6. ASSUME NEW b \in Home \ Logged(lh) PROVE disk[b] = Seen[b]
    <2>1. b \notin dirty /\ \A q \in Proc : b \notin busy[q]
      BY <1>1, <1>2 DEF DataInv, DirtyIsLogged, BusyInCall
    <2> QED
      BY <1>4, <2>1 DEF DataInv, CleanIsDisk
  <1>7. ASSUME NEW b \in Home PROVE Recovered'[b] = Seen[b]
    <2>1. \/ b \notin Logged(lh) /\ Replay(lh, disk)[b] = disk[b]
          \/ \E i \in 1 .. Len(lh) : b = lh[i] /\ Replay(lh, disk)[b] = disk[Slot(i - 1)]
      BY <1>0, ReplaySource
    <2> QED
      BY <1>1, <1>5, <1>6, <2>1, Mapping
  <1>8. /\ Recovered' = [b \in Home |-> Recovered'[b]]
        /\ Seen = [b \in Home |-> Seen[b]]
    BY <1>4 DEF Recovered
  <1>9. Recovered' = Seen
    BY <1>7, <1>8
  <1> QED
    BY <1>3, <1>4, <1>9 DEF AD!Commit

\* install_trans writes home only what a reboot would find there anyway.
LEMMA InstallRefines ==
  ASSUME ControlInv, DataInv, LogFits, NEW p \in Proc, install_trans(p)
  PROVE  UNCHANGED AD!vars
  <1>0. TypeOK
    BY DEF ControlInv
  <1>1. pc[p] \in {"install", "r_install"} /\ UNCHANGED <<head, lh, mode>> /\ head = lh
    BY DEF install_trans, DataInv, HeadListsCommitted
  <1>2. CASE tail[p] < Len(lh)
    <2> DEFINE n == tail[p] + 1
    <2>1. /\ n \in 1 .. Len(lh) /\ tail[p] = n - 1
          /\ Slot(n - 1) \in Blocks \ Home
          /\ lh[n] \in Home /\ lh[n] \in Blocks
      BY <1>0, <1>2, SlotInLog DEF TypeOK
    <2>2. /\ cache' = [cache EXCEPT ![lh[n]] = cache[Slot(n - 1)]]
          /\ disk' = [disk EXCEPT ![lh[n]] = cache[Slot(n - 1)]]
          /\ pc' = pc
      BY <1>2, <2>1 DEF install_trans
    <2> HIDE DEF n
    <2>3. /\ \A b \in Blocks : b # lh[n] => cache'[b] = cache[b] /\ disk'[b] = disk[b]
          /\ cache'[lh[n]] = disk[Slot(n - 1)]
          /\ Home \subseteq Blocks
      BY <1>0, <2>1, <2>2, LogAssumption
      DEF TypeOK, LogAssumption, Home, Blocks, DataInv, CleanIsDisk
    <2>4. \A i \in 1 .. Len(head) : disk'[Slot(i - 1)] = disk[Slot(i - 1)]
      <3>1. ASSUME NEW i \in 1 .. Len(lh) PROVE Slot(i - 1) \in Blocks \ Home
        BY <1>0, SlotInLog
      <3> QED
        BY <1>1, <2>1, <2>3, <3>1
    <2>5. \A b \in Home \ Logged(head) : disk'[b] = disk[b]
      <3>1. lh[n] \in Logged(head)
        BY <1>0, <1>1, <2>1 DEF Logged, TypeOK
      <3> QED
        BY <2>3, <3>1
    <2>6. Recovered' = Recovered
      BY <1>1, <2>4, <2>5, RecoveredSame
    <2>7. ASSUME mode = "up" PROVE \A b \in Home : cache'[b] = cache[b]
      <3>1. pc[p] = "install"
        BY <1>1, <2>7 DEF ControlInv, UpIsRecovered
      <3>2. disk[Slot(n - 1)] = cache[lh[n]]
        BY <2>1, <3>1 DEF DataInv, CopiedToLog
      <3> QED
        BY <2>3, <3>2
    <2>8. Seen' = Seen
      BY <1>1, <2>6, <2>7, SeenSame
    <2>9. Active' = Active
      BY <2>2 DEF Active
    <2> QED
      BY <2>6, <2>8, <2>9 DEF AD!vars
  <1>3. CASE ~(tail[p] < Len(lh))
    <2>1. /\ pc' = [pc EXCEPT ![p] = IF pc[p] = "install" THEN "erase" ELSE "r_erase"]
          /\ UNCHANGED <<cache, disk>>
      BY <1>3 DEF install_trans, Goto
    <2>2. Active' = Active
      BY <1>0, <1>1, <2>1 DEF Active, TypeOK
    <2> QED
      BY <1>1, <2>1, <2>2, DataSame DEF AD!vars
  <1> QED
    BY <1>2, <1>3

\* Erasing the header, in a commit or after recovery, loses nothing; a recovered
\* system sees what recovery has installed.
LEMMA EraseRefines ==
  ASSUME ControlInv, DataInv, NEW p \in Proc, erase(p) \/ recover_erase(p)
  PROVE  UNCHANGED AD!vars
  <1>0. TypeOK
    BY DEF ControlInv
  <1>1. PICK l \in {"finish", "user"} :
          /\ pc' = [pc EXCEPT ![p] = l]
          /\ pc[p] \in {"erase", "r_erase"} /\ head' = <<>>
          /\ UNCHANGED <<disk, cache>>
          /\ mode' = "up"
    BY DEF erase, recover_erase, Goto, Running
  <1>2. head = lh /\ head \in Seq(Home) /\ Distinct(head)
    BY <1>0, <1>1 DEF DataInv, HeadListsCommitted, TypeOK, ControlInv, LogDistinct
  <1>3. ASSUME NEW b \in Home PROVE Recovered[b] = disk[b]
    <2>1. CASE b \in Logged(head)
      <3>1. PICK i \in 1 .. Len(head) : b = head[i]
        BY <1>2, <2>1, ReplayAt
      <3>2. Recovered[head[i]] = disk[Slot(i - 1)]
        BY <1>2, ReplayAt, Mapping
      <3>3. disk[lh[i]] = disk[Slot(i - 1)]
        BY <1>1, <1>2 DEF DataInv, InstalledHome
      <3> QED
        BY <1>2, <3>1, <3>2, <3>3
    <2>2. CASE b \notin Logged(head)
      BY <2>2 DEF Recovered
    <2> QED
      BY <2>1, <2>2
  <1>4. Recovered = [b \in Home |-> disk[b]]
    BY <1>3, Mapping
  <1>5. Recovered' = Recovered
    BY <1>1, <1>4 DEF Recovered, Logged
  <1>6. Seen' = Seen
    <2>1. CASE mode = "up"
      BY <1>1, <2>1 DEF Seen
    <2>2. CASE mode # "up"
      <3>1. \A q \in Proc : busy[q] = {}
        BY <1>1, InstallerAlone DEF DataInv, BusyInCall
      <3>2. \A b \in Home : cache[b] = disk[b]
        BY <2>2, <3>1 DEF DataInv, DirtyIsLogged, CleanIsDisk
      <3>3. Seen = Recovered /\ Seen' = [b \in Home |-> cache[b]]
        BY <1>1, <2>2 DEF Seen
      <3> QED
        BY <1>4, <3>2, <3>3
    <2> QED
      BY <2>1, <2>2
  <1>7. Active' = Active
    BY <1>0, <1>1 DEF Active, TypeOK
  <1> QED
    BY <1>5, <1>6, <1>7 DEF AD!vars

\* The machine stops: what is not durable is lost.
LEMMA CrashRefines == Crash => AD!Crash
  <1> SUFFICES ASSUME Crash PROVE AD!Crash
    OBVIOUS
  <1>1. Recovered' = Recovered
    BY DEF Crash, Recovered, Logged, Slot
  <1>2. Seen' = Recovered'
    BY DEF Crash, Seen
  <1>3. Active' = {}
    BY DEF Crash, Active
  <1> QED
    BY <1>1, <1>2, <1>3 DEF AD!Crash

\* Every step is a step of AtomicDisk or leaves its variables unchanged.
LEMMA NextRefines == ControlInv /\ DataInv /\ LogFits /\ [Next]_vars => [AD!Next]_(AD!vars)
  <1> SUFFICES ASSUME ControlInv, DataInv, LogFits, [Next]_vars
               PROVE  AD!Next \/ UNCHANGED AD!vars
    OBVIOUS
  <1>1. CASE UNCHANGED vars
    <2>1. Active' = Active
      BY <1>1 DEF vars, Active
    <2>2. Recovered' = Recovered /\ Seen' = Seen
      BY <1>1, DataSame DEF vars
    <2> QED
      BY <2>1, <2>2 DEF AD!vars
  <1>2. ASSUME NEW b \in Blocks, bget_recycle(b)
        PROVE  UNCHANGED vars
    BY <1>2, RecycleNothing
  <1>3. ASSUME NEW p \in Proc, begin_op(p) \/ end_op(p)
        PROVE  AD!Next \/ UNCHANGED AD!vars
    <2>1. AD!Begin(p) \/ AD!End(p) \/ UNCHANGED AD!vars
      BY <1>3, BeginRefines, EndRefines
    <2> QED
      BY <2>1 DEF AD!Next
  <1>4. ASSUME NEW p \in Proc, NEW b \in Home, NEW v \in Val, log_write(p, b, v)
        PROVE  AD!Next
    <2>1. AD!Write(p, b, v)
      BY <1>4, LogWriteRefines
    <2> QED
      BY <2>1 DEF AD!Next
  <1>5. ASSUME Crash \/ \E p \in Proc : write_head(p)
        PROVE  AD!Next
    <2>1. AD!Crash \/ AD!Commit
      BY <1>5, CrashRefines, WriteHeadRefines
    <2> QED
      BY <2>1 DEF AD!Next
  <1>6. ASSUME NEW p \in Proc,
               \/ kill(p) \/ log_write_locked(p) \/ end_commit(p) \/ initlog(p)
               \/ write_log(p) \/ install_trans(p) \/ erase(p) \/ recover_erase(p)
        PROVE  UNCHANGED AD!vars
    BY <1>6, QuietRefines, WriteLogRefines, InstallRefines, EraseRefines
  <1> QED
    BY <1>1, <1>2, <1>3, <1>4, <1>5, <1>6 DEF Next

-----------------------------------------------------------------------------
(***************************************************************************)
(* The theorems.                                                           *)
(***************************************************************************)

\* Where the contents of every block are to be found, in every reachable state of a
\* system whose log has never been overrun.
THEOREM DataCorrect == Spec /\ []LogFits => []DataInv
  BY InitData, NextData, ControlCorrect, PTL DEF Spec

\* Crash atomicity: as long as the log is not overrun, log.c makes the updates of
\* the calls bracketed by begin_op and end_op durable all together or not at all,
\* whenever the machine stops.
THEOREM LogIsAtomic == Spec /\ []LogFits => CrashAtomic
  BY InitRefines, NextRefines, DataCorrect, ControlCorrect, PTL DEF Spec, CrashAtomic, AD!Spec

\* Once the last end_op has returned, what the calls wrote survives a crash.
THEOREM QuiescentDurable == Spec /\ []LogFits => []QuiescentIsDurable
  <1>1. ControlInv /\ DataInv => QuiescentIsDurable
    <2> SUFFICES ASSUME ControlInv, DataInv, mode = "up", outstanding = 0, ~committing
                 PROVE  Seen = Recovered
      BY DEF QuiescentIsDurable, Running
    <2>1. Active = {} /\ Committers = {} /\ lh = <<>>
      <3>1. Active = {}
        BY ActiveFinite, FS_EmptySet DEF ControlInv, CountOK
      <3> QED
        BY <3>1 DEF ControlInv, CommitsAlone, IdleIsEmpty
    <2>2. head = <<>>
      BY <2>1 DEF DataInv, HeadListsCommitted, Committers
    <2>3. \A b \in Home : cache[b] = disk[b]
      <3>1. dirty = {}
        BY <2>1 DEF DataInv, DirtyIsLogged, Logged
      <3>2. \A p \in Proc : busy[p] = {}
        BY <2>1 DEF DataInv, BusyInCall, Active
      <3> QED
        BY <3>1, <3>2 DEF DataInv, CleanIsDisk
    <2> QED
      BY <2>2, <2>3, NothingToReplay DEF Seen
  <1> QED
    BY <1>1, DataCorrect, ControlCorrect, PTL

\* The write-ahead rule: a home block is overwritten only while the header on the
\* disk lists it.
THEOREM WritesAhead == Spec /\ []LogFits => WriteAhead
  <1>1. ControlInv /\ DataInv /\ LogFits /\ [Next]_vars
          => [\A b \in Home : disk'[b] # disk[b] => b \in Logged(head)]_vars
    <2> SUFFICES ASSUME ControlInv, DataInv, LogFits, [Next]_vars, NEW b \in Home,
                        disk'[b] # disk[b]
                 PROVE  b \in Logged(head)
      OBVIOUS
    <2>1. ASSUME NEW p \in Proc, install_trans(p) PROVE b \in Logged(head)
      <3>1. head = lh /\ lh \in Seq(Home) /\ disk \in [Blocks -> Val] /\ tail[p] \in Nat
        BY <2>1 DEF install_trans, DataInv, HeadListsCommitted, ControlInv, TypeOK
      <3>2. tail[p] < Len(lh) /\ disk' = [disk EXCEPT ![lh[tail[p] + 1]] = cache[Slot(tail[p])]]
        BY <2>1 DEF install_trans
      <3>3. b = lh[tail[p] + 1]
        BY <3>1, <3>2
      <3> QED
        BY <3>1, <3>2, <3>3 DEF Logged
    <2>2. ASSUME NEW p \in Proc, write_log(p) PROVE FALSE
      BY <2>2, WriteLogRefines
    <2>3. ASSUME NEW p \in Proc,
                 \/ begin_op(p) \/ kill(p) \/ log_write_locked(p) \/ end_op(p) \/ write_head(p)
                 \/ erase(p) \/ end_commit(p) \/ initlog(p) \/ recover_erase(p)
          PROVE  FALSE
      BY <2>3 DEF begin_op, kill, log_write_locked, end_op, write_head, erase, end_commit,
                  initlog, recover_erase
    <2>4. ASSUME \/ \E p \in Proc, c \in Home, v \in Val : log_write(p, c, v)
                 \/ \E c \in Blocks : bget_recycle(c)
                 \/ Crash
                 \/ UNCHANGED vars
          PROVE  FALSE
      BY <2>4 DEF log_write, bget_recycle, Crash, vars
    <2> QED
      BY <2>1, <2>2, <2>3, <2>4 DEF Next
  <1> QED
    BY <1>1, DataCorrect, ControlCorrect, PTL DEF Spec, WriteAhead

=============================================================================
