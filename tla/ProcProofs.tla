----------------------------- MODULE ProcProofs -----------------------------
(***************************************************************************)
(* Proofs about Proc, for every number of CPUs, of slots and of pids: no   *)
(* process runs on two CPUs, no stack is freed under a process or lost, no *)
(* process has a dead parent and wait misses no child.                     *)
(***************************************************************************)
EXTENDS Proc, FiniteSetTheorems, WellFoundedInduction, TLAPS

(***************************************************************************)
(* The inductive invariant.                                                *)
(***************************************************************************)

\* One CPU at most holds ptable.lock.
LockOne == lock = {} \/ \E c \in CPU : lock = {c}

\* A CPU executes a process whose context is not saved, which is alive or on its
\* way to its last swtch, and with ptable.lock from sched to the end of the resumption.
CpuSound ==
  \A c \in CPU : cur[c] # 0 =>
    /\ pc[cur[c]] # "off"
    /\ pc[cur[c]] \in {"sched", "resume", "wait"} => c \in lock
    /\ state[cur[c]] \in Alive \cup {"ZOMBIE"}

\* RUNNING means executed by a CPU and not about to leave it.
RunningRuns == \A p \in Slot : state[p] = "RUNNING" <=> pc[p] \notin {"off", "sched"}

\* Where a process is, or will go on once it is resumed.
Loc(p) == IF pc[p] \in {"off", "sched", "resume"} THEN after[p] ELSE pc[p]
ForkPCs == {"fork_kstack", "fork_copy", "fork_run"}

\* A process inside fork, and no other, owns an EMBRYO, with a stack once the stack has
\* been allocated and without a parent until the address space has been copied.
ForkOwns ==
  \A p \in Slot :
    IF Loc(p) \in ForkPCs
    THEN /\ child[p] # 0
         /\ state[p] \in {"RUNNING", "RUNNABLE"}
         /\ state[child[p]] = "EMBRYO"
         /\ kstack[child[p]] <=> Loc(p) # "fork_kstack"
         /\ Loc(p) # "fork_run" => parent[child[p]] = 0
    ELSE child[p] = 0

\* Nobody else owns that EMBRYO.
OneForker == \A p, q \in Slot : child[p] # 0 /\ child[p] = child[q] => p = q

\* A stack belongs to each process until it is reaped, and to no free slot.
StackKept ==
  \A s \in Slot :
    /\ state[s] \in Alive \cup {"ZOMBIE"} => kstack[s]
    /\ state[s] = "UNUSED" => ~kstack[s]

\* init lives for ever and is the only process that is its own parent.
InitLives ==
  /\ state[initproc] \in Alive
  /\ \A s \in Slot : parent[s] = s => s = initproc

\* The pids given out so far.
PidsGiven == \A s \in Slot : pid[s] < nextpid

ProcInv ==
  /\ TypeOK
  /\ LockOne
  /\ CpuSound
  /\ OneCpuEach
  /\ RunningRuns
  /\ ForkOwns
  /\ OneForker
  /\ StackKept
  /\ InitLives
  /\ ParentAlive
  /\ PidsGiven
  /\ UniquePids
  /\ WaiterMissesNothing

-----------------------------------------------------------------------------
\* A scan of the table finds a member of the set it looks for.
LEMMA FirstIn ==
  ASSUME NEW S, S \subseteq Slot, S # {}
  PROVE  First(S) \in S
  <1> DEFINE R == OpToRel(<, Nat)
  <1>1. S \subseteq Nat
    BY DEF Slot
  <1>2. \A x, y \in Nat : <<x, y>> \in R <=> x < y
    BY DEF OpToRel
  <1>3. IsWellFoundedOn(R, Nat)
    BY NatLessThanWellFounded
  <1> HIDE DEF R
  <1>4. PICK x \in S : \A y \in S : ~(<<y, x>> \in R)
    BY <1>1, <1>3, WFMin
  <1>5. ASSUME NEW t \in S PROVE x <= t
    <2>1. x \in Nat /\ t \in Nat
      BY <1>1
    <2>2. ~(<<t, x>> \in R)
      BY <1>4
    <2>3. ~(t < x)
      BY <1>2, <2>1, <2>2
    <2> QED
      BY <2>1, <2>3
  <1> QED
    BY <1>5 DEF First

\* A lock held by one CPU at most.
LEMMA LockCount ==
  ASSUME NEW L, L = {} \/ \E c \in CPU : L = {c}
  PROVE  L \subseteq CPU /\ Cardinality(L) <= 1
  <1>1. CASE L = {}
    BY <1>1, FS_EmptySet
  <1>2. ASSUME NEW c \in CPU, L = {c} PROVE L \subseteq CPU /\ Cardinality(L) <= 1
    <2>1. Cardinality({c}) = 1
      BY FS_Singleton
    <2> QED
      BY <1>2, <2>1
  <1> QED
    BY <1>1, <1>2

\* The system starts with one process.
LEMMA InitProc == Init => ProcInv
  <1> SUFFICES ASSUME Init PROVE ProcInv
    OBVIOUS
  <1> USE ProcAssumption DEF ProcAssumption
  <1>1. TypeOK
    <2>1. lock \subseteq CPU /\ Cardinality(lock) <= 1
      BY LockCount DEF Init
    <2>2. /\ cur \in [CPU -> Slot \cup {0}]
          /\ scan \in [CPU -> 1 .. NPROC + 1]
          /\ state \in [Slot -> States]
          /\ pid \in [Slot -> 0 .. MAXPID]
          /\ parent \in [Slot -> Slot \cup {0}]
          /\ chan \in [Slot -> Slot \cup {0, TICKS}]
      BY DEF Init, Slot, States, initproc
    <2>3. killed \in [Slot -> BOOLEAN] /\ kstack \in [Slot -> BOOLEAN]
      BY DEF Init
    <2>4. /\ pc \in [Slot -> PCs]
          /\ after \in [Slot -> {"user", "usret", "wait"} \cup Preemptible]
          /\ child \in [Slot -> Slot \cup {0}]
          /\ nextpid \in 1 .. MAXPID + 1
      BY DEF Init, PCs
    <2> QED
      BY <2>1, <2>2, <2>3, <2>4 DEF TypeOK
  <1>2. LockOne /\ CpuSound /\ OneCpuEach /\ RunningRuns
    BY DEF Init, LockOne, CpuSound, OneCpuEach, RunningRuns
  <1>3. ForkOwns /\ OneForker
    BY DEF Init, ForkOwns, OneForker, Loc, ForkPCs
  <1>6. initproc \in Slot /\ initproc # 0
    BY DEF Slot, initproc
  <1>7. StackKept
    BY DEF Init, StackKept, Alive
  <1>8. /\ state[initproc] = "RUNNABLE"
        /\ \A s \in Slot : IF s = initproc THEN parent[s] = initproc ELSE parent[s] = 0
    BY <1>6 DEF Init
  <1>9. \A s \in Slot : s # 0
    BY DEF Slot
  <1>4. InitLives /\ ParentAlive
    BY <1>6, <1>8, <1>9 DEF InitLives, ParentAlive, Alive
  <1>5. PidsGiven /\ UniquePids /\ WaiterMissesNothing
    BY DEF Init, PidsGiven, UniquePids, WaiterMissesNothing
  <1> QED
    BY <1>1, <1>2, <1>3, <1>4, <1>5, <1>7 DEF ProcInv

-----------------------------------------------------------------------------
(***************************************************************************)
(* What many steps have in common.                                         *)
(***************************************************************************)

\* The step wakes sleepers and changes no other state.
Wakes ==
  \A s \in Slot : state'[s] = state[s] \/ (state[s] = "SLEEPING" /\ state'[s] = "RUNNABLE")

\* A step that at most wakes sleepers leaves families, stacks and pids alone.
LEMMA WakesTable ==
  ASSUME ProcInv, Wakes, UNCHANGED <<pid, parent, kstack, nextpid>>
  PROVE  StackKept' /\ InitLives' /\ ParentAlive' /\ PidsGiven' /\ UniquePids'
  <1> USE DEF ProcInv, Wakes
  <1>1. StackKept'
    BY DEF StackKept, Alive
  <1>2. InitLives'
    BY ProcAssumption DEF InitLives, Alive, ProcAssumption, Slot, initproc
  <1>3. ParentAlive'
    BY DEF ParentAlive, Alive, TypeOK
  <1>4. PidsGiven' /\ UniquePids'
    BY DEF PidsGiven, UniquePids
  <1> QED
    BY <1>1, <1>2, <1>3, <1>4

\* Nor does it make a waiter miss anything, when those it kills are awake.
LEMMA WakesWaiter ==
  ASSUME ProcInv, Wakes, UNCHANGED <<parent, chan>>,
         \A s \in Slot : killed'[s] = killed[s] \/ state'[s] # "SLEEPING"
  PROVE  WaiterMissesNothing'
  <1> SUFFICES ASSUME NEW p \in Slot, state'[p] = "SLEEPING", chan'[p] = p
               PROVE  Children(p)' # {} /\ Zombies(p)' = {} /\ ~killed'[p]
    BY DEF WaiterMissesNothing
  <1>1. Children(p) # {} /\ Zombies(p) = {} /\ ~killed[p]
    BY DEF ProcInv, WaiterMissesNothing, Wakes
  <1>2. Children(p)' = Children(p)
    BY DEF Children
  <1>3. Zombies(p)' = Zombies(p)
    BY <1>2 DEF Zombies, Children, Wakes
  <1> QED
    BY <1>1, <1>2, <1>3

\* A running process goes from a place without ptable.lock to another, neither of them in
\* fork; it may wake sleepers.
LEMMA MoveControl ==
  ASSUME ProcInv, NEW c \in CPU, NEW p \in Slot, NEW l \in PCs, cur[c] = p,
         pc' = [pc EXCEPT ![p] = l], Wakes,
         pc[p] \notin {"off", "sched", "resume", "wait"} \cup ForkPCs,
         l \notin {"off", "sched", "resume", "wait"} \cup ForkPCs,
         UNCHANGED <<lock, cur, parent, kstack, after, child>>
  PROVE  /\ LockOne' /\ CpuSound' /\ OneCpuEach' /\ RunningRuns' /\ ForkOwns' /\ OneForker'
         /\ pc' \in [Slot -> PCs]
  <1> USE DEF ProcInv, Wakes
  <1>0. pc' \in [Slot -> PCs] /\ pc'[p] = l /\ \A q \in Slot : q # p => pc'[q] = pc[q]
    BY DEF TypeOK
  <1>1. LockOne' /\ OneCpuEach'
    BY DEF LockOne, OneCpuEach
  <1>2. CpuSound'
    BY <1>0 DEF CpuSound, TypeOK, Alive
  <1>3. RunningRuns'
    BY <1>0 DEF RunningRuns
  <1>4. ForkOwns'
    BY <1>0 DEF ForkOwns, Loc, TypeOK, ForkPCs
  <1>5. OneForker'
    BY DEF OneForker
  <1> QED
    BY <1>0, <1>1, <1>2, <1>3, <1>4, <1>5

\* A running process takes ptable.lock, or has it, and is about to give up the CPU.
LEMMA DescheduleControl ==
  ASSUME ProcInv, NEW c \in CPU, NEW p \in Slot,
         NEW l \in {"user", "usret", "wait"} \cup Preemptible,
         cur[c] = p, lock = {} \/ c \in lock, Deschedule(c, p, l),
         pc[p] \notin {"off", "sched", "resume"},
         pc[p] \in ForkPCs \/ l \in ForkPCs => l = pc[p] /\ state'[p] = "RUNNABLE",
         state' \in [Slot -> States], state'[p] \in {"RUNNABLE", "SLEEPING", "ZOMBIE"},
         \A s \in Slot \ {p} :
           state'[s] = state[s] \/ (state[s] = "SLEEPING" /\ state'[s] = "RUNNABLE"),
         \A s \in Slot : parent[s] = 0 => parent'[s] = 0,
         UNCHANGED <<cur, kstack, child>>
  PROVE  /\ LockOne' /\ CpuSound' /\ OneCpuEach' /\ RunningRuns' /\ ForkOwns' /\ OneForker'
         /\ StackKept'
         /\ lock' \subseteq CPU /\ Cardinality(lock') <= 1
         /\ pc' \in [Slot -> PCs]
         /\ after' \in [Slot -> {"user", "usret", "wait"} \cup Preemptible]
  <1> USE DEF ProcInv
  <1>0. /\ lock' = {c}
        /\ pc' = [pc EXCEPT ![p] = "sched"] /\ after' = [after EXCEPT ![p] = l]
    BY DEF Deschedule, LockForSched, Goto, LockOne
  <1>1. /\ pc' \in [Slot -> PCs]
        /\ after' \in [Slot -> {"user", "usret", "wait"} \cup Preemptible]
        /\ pc'[p] = "sched" /\ after'[p] = l
        /\ \A q \in Slot : q # p => pc'[q] = pc[q] /\ after'[q] = after[q]
    BY <1>0 DEF TypeOK, PCs
  <1>2. LockOne' /\ OneCpuEach' /\ lock' \subseteq CPU /\ Cardinality(lock') <= 1
    BY <1>0, LockCount DEF LockOne, OneCpuEach
  <1>3. state[p] = "RUNNING"
    BY DEF RunningRuns
  <1>4. CpuSound'
    <2> SUFFICES ASSUME NEW d \in CPU, cur[d] # 0
                 PROVE  /\ pc'[cur[d]] # "off"
                        /\ pc'[cur[d]] \in {"sched", "resume", "wait"} => d \in lock'
                        /\ state'[cur[d]] \in Alive \cup {"ZOMBIE"}
      BY DEF CpuSound
    <2>1. CASE cur[d] = p
      BY <1>0, <1>1, <2>1 DEF OneCpuEach, Alive
    <2>2. CASE cur[d] # p
      <3>1. d # c /\ cur[d] \in Slot /\ d \notin lock
        BY <2>2 DEF TypeOK, LockOne
      <3> QED
        BY <1>1, <2>2, <3>1 DEF CpuSound, Alive
    <2> QED
      BY <2>1, <2>2
  <1>5. RunningRuns'
    BY <1>1 DEF RunningRuns
  <1>6. ForkOwns'
    <2> SUFFICES ASSUME NEW q \in Slot
                 PROVE  IF Loc(q)' \in ForkPCs
                        THEN /\ child[q] # 0
                             /\ state'[q] \in {"RUNNING", "RUNNABLE"}
                             /\ state'[child[q]] = "EMBRYO"
                             /\ kstack[child[q]] <=> Loc(q)' # "fork_kstack"
                             /\ Loc(q)' # "fork_run" => parent'[child[q]] = 0
                        ELSE child[q] = 0
      BY DEF ForkOwns
    <2>1. child[q] # 0 => child[q] # p /\ child[q] \in Slot
      BY <1>3 DEF ForkOwns, TypeOK
    <2>2. CASE q = p
      <3>1. Loc(p) = pc[p] /\ Loc(p)' = l
        BY <1>1 DEF Loc
      <3> QED
        BY <2>1, <2>2, <3>1 DEF ForkOwns
    <2>3. CASE q # p
      <3>1. Loc(q)' = Loc(q)
        BY <1>1, <2>3 DEF Loc
      <3> QED
        BY <2>1, <2>3, <3>1 DEF ForkOwns
    <2> QED
      BY <2>2, <2>3
  <1>7. OneForker' /\ StackKept'
    BY <1>3 DEF OneForker, StackKept, Alive
  <1> QED
    BY <1>1, <1>2, <1>4, <1>5, <1>6, <1>7

-----------------------------------------------------------------------------
(***************************************************************************)
(* Scheduler and context switches.                                         *)
(***************************************************************************)

\* The scheduler takes and drops ptable.lock only while no process has it.
LEMMA ScanProc ==
  ASSUME ProcInv, NEW c \in CPU, scheduler_acquire(c) \/ scheduler_release(c)
  PROVE  ProcInv'
  <1> USE DEF ProcInv
  <1>1. /\ cur[c] = 0 /\ lock' \in {{c}, {}}
        /\ \A d \in CPU : cur[d] # 0 => d \notin lock
        /\ scan' = [scan EXCEPT ![c] = 1]
        /\ UNCHANGED <<cur, table, pc, after, child>>
    BY DEF scheduler_acquire, scheduler_release, LockOne, Unlocked
  <1>2. LockOne' /\ lock' \subseteq CPU /\ Cardinality(lock') <= 1
    BY <1>1, LockCount DEF LockOne
  <1>3. scan' \in [CPU -> 1 .. NPROC + 1]
    BY <1>1, ProcAssumption DEF TypeOK, ProcAssumption
  <1>4. TypeOK'
    BY <1>1, <1>2, <1>3 DEF TypeOK, table
  <1>5. CpuSound' /\ OneCpuEach' /\ RunningRuns'
    BY <1>1 DEF CpuSound, OneCpuEach, RunningRuns, table
  <1>6. ForkOwns' /\ OneForker'
    BY <1>1 DEF ForkOwns, OneForker, Loc, table
  <1>7. Wakes
    BY <1>1 DEF Wakes, table
  <1> QED
    BY <1>1, <1>2, <1>4, <1>5, <1>6, <1>7, WakesTable, WakesWaiter DEF table

\* The scheduler gives the CPU to a process whose context is saved.
LEMMA RunProc ==
  ASSUME ProcInv, NEW c \in CPU, scheduler_run(c)
  PROVE  ProcInv'
  <1> USE DEF ProcInv
  <1> DEFINE p == First(Runnable(c))
  <1>1. p \in Slot /\ state[p] = "RUNNABLE"
    BY FirstIn DEF scheduler_run, Runnable
  <1>2. /\ cur' = [cur EXCEPT ![c] = p] /\ scan' = [scan EXCEPT ![c] = p + 1]
        /\ state' = [state EXCEPT ![p] = "RUNNING"] /\ pc' = [pc EXCEPT ![p] = "resume"]
        /\ cur[c] = 0 /\ c \in lock
        /\ UNCHANGED <<lock, pid, parent, chan, killed, kstack, nextpid, after, child>>
    BY DEF scheduler_run, ScanAfter, Goto
  <1> HIDE DEF p
  <1>3. TypeOK'
    <2>1. p \in 1 .. NPROC /\ p + 1 \in 1 .. NPROC + 1
      BY <1>1, ProcAssumption DEF Slot, ProcAssumption
    <2>2. cur' \in [CPU -> Slot \cup {0}] /\ scan' \in [CPU -> 1 .. NPROC + 1]
      BY <1>1, <1>2, <2>1 DEF TypeOK
    <2>3. state' \in [Slot -> States] /\ pc' \in [Slot -> PCs]
      BY <1>1, <1>2 DEF TypeOK, States, PCs
    <2> QED
      BY <1>2, <2>2, <2>3 DEF TypeOK
  <1>4. \A d \in CPU : cur[d] # p
    <2> SUFFICES ASSUME NEW d \in CPU, cur[d] = p PROVE FALSE
      OBVIOUS
    <2>1. p # 0 /\ pc[p] = "sched"
      BY <1>1, ProcAssumption DEF CpuSound, RunningRuns, Slot, ProcAssumption
    <2>2. d \in lock
      BY <2>1 DEF CpuSound
    <2> QED
      BY <1>2, <2>1, <2>2 DEF LockOne
  <1>5. /\ cur'[c] = p /\ \A d \in CPU : d # c => cur'[d] = cur[d]
        /\ pc'[p] = "resume" /\ state'[p] = "RUNNING"
        /\ \A q \in Slot : q # p => pc'[q] = pc[q] /\ state'[q] = state[q]
    BY <1>1, <1>2 DEF TypeOK
  <1>6. LockOne' /\ OneCpuEach'
    BY <1>2, <1>4, <1>5 DEF LockOne, OneCpuEach
  <1>7. CpuSound'
    BY <1>1, <1>2, <1>4, <1>5 DEF CpuSound, TypeOK, Alive
  <1>8. RunningRuns'
    BY <1>1, <1>2, <1>5 DEF RunningRuns
  <1>9. ForkOwns'
    <2>1. \A q \in Slot : Loc(q)' = Loc(q)
      BY <1>1, <1>2, <1>5 DEF Loc, RunningRuns
    <2>2. \A q \in Slot : child[q] # 0 => child[q] # p /\ child[q] \in Slot
      BY <1>1 DEF ForkOwns, TypeOK
    <2> QED
      BY <1>1, <1>2, <1>5, <2>1, <2>2 DEF ForkOwns
  <1>10. OneForker' /\ StackKept'
    BY <1>1, <1>2, <1>5 DEF OneForker, StackKept, Alive
  <1>11. InitLives' /\ ParentAlive'
    BY <1>1, <1>2, <1>5, ProcAssumption
    DEF InitLives, ParentAlive, Alive, TypeOK, Slot, initproc, ProcAssumption
  <1>12. PidsGiven' /\ UniquePids'
    BY <1>1, <1>2, <1>5 DEF PidsGiven, UniquePids
  <1>13. WaiterMissesNothing'
    BY <1>1, <1>2, <1>5 DEF WaiterMissesNothing, Children, Zombies
  <1> QED
    BY <1>3, <1>6, <1>7, <1>8, <1>9, <1>10, <1>11, <1>12, <1>13

\* swtch saves the context of a process while its CPU holds ptable.lock.
LEMMA SchedProc ==
  ASSUME ProcInv, NEW c \in CPU, NEW p \in Slot, sched(c, p)
  PROVE  ProcInv'
  <1> USE DEF ProcInv
  <1>1. /\ cur[c] = p /\ pc[p] = "sched"
        /\ cur' = [cur EXCEPT ![c] = 0] /\ pc' = [pc EXCEPT ![p] = "off"]
        /\ UNCHANGED <<lock, scan, table, after, child>>
    BY DEF sched, At, Goto
  <1>2. TypeOK'
    BY <1>1 DEF TypeOK, PCs, table
  <1>3. /\ cur'[c] = 0 /\ \A d \in CPU : d # c => cur'[d] = cur[d]
        /\ pc'[p] = "off" /\ \A q \in Slot : q # p => pc'[q] = pc[q]
    BY <1>1 DEF TypeOK
  <1>4. LockOne' /\ OneCpuEach' /\ RunningRuns'
    BY <1>1, <1>3 DEF LockOne, OneCpuEach, RunningRuns, table
  <1>5. CpuSound'
    <2>1. \A d \in CPU : d # c => cur[d] # p
      BY <1>1, ProcAssumption DEF OneCpuEach, Slot, ProcAssumption
    <2> QED
      BY <1>1, <1>3, <2>1 DEF CpuSound, TypeOK, table
  <1>6. ForkOwns' /\ OneForker'
    <2>1. \A q \in Slot : Loc(q)' = Loc(q)
      BY <1>1, <1>3 DEF Loc
    <2> QED
      BY <1>1, <2>1 DEF ForkOwns, OneForker, table
  <1>7. Wakes
    BY <1>1 DEF Wakes, table
  <1> QED
    BY <1>1, <1>2, <1>4, <1>5, <1>6, <1>7, WakesTable, WakesWaiter DEF table

\* A resumed process goes on where it was switched out.
LEMMA ResumeProc ==
  ASSUME ProcInv, NEW c \in CPU, NEW p \in Slot, resume(c, p)
  PROVE  ProcInv'
  <1> USE DEF ProcInv
  <1>1. /\ cur[c] = p /\ pc[p] = "resume" /\ p # 0
        /\ chan' = [chan EXCEPT ![p] = 0]
        /\ lock' = IF after[p] = "wait" THEN lock ELSE lock \ {c}
        /\ pc' = [pc EXCEPT ![p] = after[p]]
        /\ after' = [after EXCEPT ![p] = "user"]
        /\ UNCHANGED <<cur, scan, state, pid, parent, killed, kstack, nextpid, child>>
    BY DEF resume, At, Goto
  <1>2. lock = {c} /\ state[p] = "RUNNING"
    BY <1>1 DEF CpuSound, LockOne, RunningRuns
  <1>3. LockOne' /\ lock' \subseteq CPU /\ Cardinality(lock') <= 1
    <2>1. lock' = {} \/ lock' = {c}
      BY <1>1, <1>2
    <2> QED
      BY <2>1, LockCount DEF LockOne
  <1>4. after[p] \in {"user", "usret", "wait"} \cup Preemptible
    BY DEF TypeOK
  <1>5. TypeOK'
    <2>1. chan' \in [Slot -> Slot \cup {0, TICKS}]
      BY <1>1 DEF TypeOK
    <2>2. pc' \in [Slot -> PCs]
      BY <1>1, <1>4 DEF TypeOK, PCs
    <2>3. after' \in [Slot -> {"user", "usret", "wait"} \cup Preemptible]
      BY <1>1 DEF TypeOK
    <2> QED
      BY <1>1, <1>3, <2>1, <2>2, <2>3 DEF TypeOK
  <1>6. /\ pc'[p] = after[p] /\ after'[p] = "user" /\ chan'[p] = 0
        /\ \A q \in Slot : q # p => pc'[q] = pc[q] /\ after'[q] = after[q] /\ chan'[q] = chan[q]
    BY <1>1 DEF TypeOK
  <1>7. OneCpuEach' /\ RunningRuns'
    BY <1>1, <1>2, <1>4, <1>6 DEF OneCpuEach, RunningRuns, Preemptible
  <1>8. CpuSound'
    <2> SUFFICES ASSUME NEW d \in CPU, cur[d] # 0
                 PROVE  /\ pc'[cur[d]] # "off"
                        /\ pc'[cur[d]] \in {"sched", "resume", "wait"} => d \in lock'
                        /\ state[cur[d]] \in Alive \cup {"ZOMBIE"}
      BY <1>1 DEF CpuSound
    <2>1. CASE d = c
      BY <1>1, <1>2, <1>4, <1>6, <2>1 DEF CpuSound, Preemptible
    <2>2. CASE d # c
      <3>1. cur[d] \in Slot /\ cur[d] # p /\ d \notin lock
        BY <1>1, <1>2, <2>2 DEF TypeOK, OneCpuEach
      <3> QED
        BY <1>6, <2>2, <3>1 DEF CpuSound
    <2> QED
      BY <2>1, <2>2
  <1>9. ForkOwns' /\ OneForker'
    <2>1. \A q \in Slot : Loc(q)' = Loc(q)
      BY <1>1, <1>4, <1>6 DEF Loc, Preemptible
    <2> QED
      BY <1>1, <2>1 DEF ForkOwns, OneForker
  <1>10. WaiterMissesNothing'
    BY <1>1, <1>2, <1>6 DEF WaiterMissesNothing, Children, Zombies
  <1>11. Wakes
    BY <1>1 DEF Wakes
  <1> QED
    BY <1>1, <1>3, <1>5, <1>7, <1>8, <1>9, <1>10, <1>11, WakesTable

-----------------------------------------------------------------------------
(***************************************************************************)
(* Traps and system calls that do not give up the CPU.                     *)
(***************************************************************************)

\* A process moves on and the table stays as it is.
LEMMA MoveProc ==
  ASSUME ProcInv, NEW c \in CPU, NEW p \in Slot, NEW l \in PCs, cur[c] = p,
         pc' = [pc EXCEPT ![p] = l],
         pc[p] \notin {"off", "sched", "resume", "wait"} \cup ForkPCs,
         l \notin {"off", "sched", "resume", "wait"} \cup ForkPCs,
         UNCHANGED <<cpus, table, after, child>>
  PROVE  ProcInv'
  <1>1. Wakes
    BY DEF Wakes, table
  <1>2. UNCHANGED <<lock, cur, scan, state, pid, parent, chan, killed, kstack, nextpid, after,
                    child>>
    BY DEF cpus, table
  <1>3. /\ LockOne' /\ CpuSound' /\ OneCpuEach' /\ RunningRuns' /\ ForkOwns' /\ OneForker'
        /\ pc' \in [Slot -> PCs]
    BY <1>1, <1>2, MoveControl
  <1>4. TypeOK'
    BY <1>2, <1>3 DEF TypeOK, ProcInv
  <1> QED
    BY <1>1, <1>2, <1>3, <1>4, WakesTable, WakesWaiter DEF ProcInv

\* The way back to user space, and the entries to exit and to sys_sleep.
LEMMA QuietProc ==
  ASSUME ProcInv, NEW c \in CPU, NEW p \in Slot,
         \/ usret(c, p) \/ sys_exit(c, p) \/ sys_sleep(c, p)
         \/ At(c, p, "user") /\ Goto(p, "exit") /\ UNCHANGED <<cpus, table, after, child>>
         \/ At(c, p, "exit") /\ Goto(p, "panic") /\ UNCHANGED <<cpus, table, after, child>>
         \/ Syscall(c, p) /\ Goto(p, "usret") /\ UNCHANGED <<cpus, table, after, child>>
  PROVE  ProcInv'
  <1>1. /\ cur[c] = p /\ pc[p] \in {"user", "usret", "exit", "ticks"}
        /\ UNCHANGED <<cpus, table, after, child>>
    BY DEF usret, sys_exit, sys_sleep, At, Syscall
  <1>2. PICK l \in {"user", "usret", "exit", "panic", "ticks_sleep"} :
          pc' = [pc EXCEPT ![p] = l]
    BY DEF usret, sys_exit, sys_sleep, Goto
  <1>3. l \in PCs /\ pc[p] \notin {"off", "sched", "resume", "wait"} \cup ForkPCs
        /\ l \notin {"off", "sched", "resume", "wait"} \cup ForkPCs
    BY <1>1 DEF PCs, Preemptible, ForkPCs
  <1> QED
    BY <1>1, <1>2, <1>3, MoveProc

\* A fault marks the running process.
LEMMA FaultProc ==
  ASSUME ProcInv, NEW c \in CPU, NEW p \in Slot, fault(c, p)
  PROVE  ProcInv'
  <1>1. /\ cur[c] = p /\ pc[p] = "user" /\ pc' = [pc EXCEPT ![p] = "exit"]
        /\ killed' = [killed EXCEPT ![p] = TRUE]
        /\ UNCHANGED <<lock, cur, scan, state, pid, parent, chan, kstack, nextpid, after, child>>
    BY DEF fault, At, Goto, cpus
  <1>2. Wakes
    BY <1>1 DEF Wakes
  <1>3. "exit" \in PCs /\ "exit" \notin {"off", "sched", "resume", "wait"} \cup ForkPCs
        /\ pc[p] \notin {"off", "sched", "resume", "wait"} \cup ForkPCs
    BY <1>1 DEF PCs, Preemptible, ForkPCs
  <1>4. /\ LockOne' /\ CpuSound' /\ OneCpuEach' /\ RunningRuns' /\ ForkOwns' /\ OneForker'
        /\ pc' \in [Slot -> PCs]
    BY <1>1, <1>2, <1>3, MoveControl
  <1>5. killed' \in [Slot -> BOOLEAN]
    BY <1>1 DEF ProcInv, TypeOK
  <1>6. TypeOK'
    BY <1>1, <1>4, <1>5 DEF TypeOK, ProcInv
  <1>7. \A s \in Slot : killed'[s] = killed[s] \/ state'[s] # "SLEEPING"
    <2>1. state[p] = "RUNNING"
      BY <1>1 DEF ProcInv, RunningRuns
    <2> QED
      BY <1>1, <2>1 DEF ProcInv, TypeOK
  <1> QED
    BY <1>1, <1>2, <1>4, <1>6, <1>7, WakesTable, WakesWaiter DEF ProcInv

\* kill marks a process and wakes it.
LEMMA KillProc ==
  ASSUME ProcInv, NEW c \in CPU, NEW p \in Slot, NEW k \in KillPids, kill(c, p, k)
  PROVE  ProcInv'
  <1> DEFINE S == {s \in Slot : pid[s] = k}
  <1>1. /\ cur[c] = p /\ pc[p] = "user" /\ pc' = [pc EXCEPT ![p] = "usret"]
        /\ UNCHANGED <<lock, cur, scan, pid, parent, chan, kstack, nextpid, after, child>>
    BY DEF kill, Syscall, At, Goto, cpus
  <1>2. /\ state' \in [Slot -> States] /\ killed' \in [Slot -> BOOLEAN]
        /\ Wakes
        /\ \A s \in Slot : killed'[s] = killed[s] \/ state'[s] # "SLEEPING"
    <2>1. CASE S # {} /\ killed' = [killed EXCEPT ![First(S)] = TRUE]
               /\ state' = [state EXCEPT ![First(S)] = IF @ = "SLEEPING" THEN "RUNNABLE" ELSE @]
      <3> DEFINE t == First(S)
      <3>1. t \in Slot
        BY <2>1, FirstIn
      <3>2. /\ killed' = [killed EXCEPT ![t] = TRUE]
            /\ state' = [state EXCEPT ![t] = IF state[t] = "SLEEPING" THEN "RUNNABLE"
                                             ELSE state[t]]
        BY <2>1
      <3> HIDE DEF t
      <3>3. killed' \in [Slot -> BOOLEAN]
        BY <3>2 DEF ProcInv, TypeOK
      <3>4. state' \in [Slot -> States]
        BY <3>1, <3>2 DEF ProcInv, TypeOK, States
      <3>5. Wakes
        BY <3>1, <3>2 DEF ProcInv, TypeOK, Wakes
      <3> QED
        BY <3>1, <3>2, <3>3, <3>4, <3>5 DEF ProcInv, TypeOK
    <2>2. CASE UNCHANGED <<killed, state>>
      BY <2>2 DEF Wakes, ProcInv, TypeOK
    <2> QED
      BY <2>1, <2>2 DEF kill
  <1>3. "usret" \in PCs /\ "usret" \notin {"off", "sched", "resume", "wait"} \cup ForkPCs
        /\ pc[p] \notin {"off", "sched", "resume", "wait"} \cup ForkPCs
    BY <1>1 DEF PCs, Preemptible, ForkPCs
  <1>4. /\ LockOne' /\ CpuSound' /\ OneCpuEach' /\ RunningRuns' /\ ForkOwns' /\ OneForker'
        /\ pc' \in [Slot -> PCs]
    BY <1>1, <1>2, <1>3, MoveControl
  <1>5. TypeOK'
    BY <1>1, <1>2, <1>4 DEF TypeOK, ProcInv
  <1> QED
    BY <1>1, <1>2, <1>4, <1>5, WakesTable, WakesWaiter DEF ProcInv

\* The clock wakes sleepers only.
LEMMA TicksProc ==
  ASSUME ProcInv, ticks_wakeup
  PROVE  ProcInv'
  <1> USE DEF ProcInv
  <1>1. /\ state' = wakeup1(state, TICKS)
        /\ UNCHANGED <<lock, cur, scan, pid, parent, chan, killed, kstack, nextpid, pc, after,
                       child>>
    BY DEF ticks_wakeup, cpus
  <1>2. Wakes /\ state' \in [Slot -> States]
    BY <1>1 DEF wakeup1, Wakes, TypeOK, States
  <1>3. TypeOK'
    BY <1>1, <1>2 DEF TypeOK
  <1>4. LockOne' /\ CpuSound' /\ OneCpuEach' /\ RunningRuns'
    BY <1>1, <1>2 DEF LockOne, CpuSound, OneCpuEach, RunningRuns, Wakes, TypeOK, Alive
  <1>5. ForkOwns' /\ OneForker'
    BY <1>1, <1>2 DEF ForkOwns, OneForker, Loc, Wakes, TypeOK
  <1> QED
    BY <1>1, <1>2, <1>3, <1>4, <1>5, WakesTable, WakesWaiter

-----------------------------------------------------------------------------
(***************************************************************************)
(* Giving up the CPU.                                                      *)
(***************************************************************************)

\* A process that yields stays alive.
LEMMA YieldProc ==
  ASSUME ProcInv, NEW c \in CPU, NEW p \in Slot, cur[c] = p,
         pc[p] \in {"user"} \cup Preemptible, Unlocked,
         state' = [state EXCEPT ![p] = "RUNNABLE"],
         Deschedule(c, p, IF pc[p] = "user" THEN "usret" ELSE pc[p]),
         UNCHANGED <<cur, scan, pid, parent, chan, killed, kstack, nextpid, child>>
  PROVE  ProcInv'
  <1> USE DEF ProcInv
  <1> DEFINE l == IF pc[p] = "user" THEN "usret" ELSE pc[p]
  <1>1. /\ l \in {"user", "usret", "wait"} \cup Preemptible
        /\ pc[p] \notin {"off", "sched", "resume"}
        /\ pc[p] \in ForkPCs \/ l \in ForkPCs => l = pc[p]
    BY DEF Preemptible, ForkPCs
  <1>2. /\ state' \in [Slot -> States] /\ state'[p] = "RUNNABLE"
        /\ \A s \in Slot \ {p} : state'[s] = state[s]
    BY DEF TypeOK, States
  <1>3. state[p] = "RUNNING"
    BY <1>1 DEF RunningRuns
  <1>a. Deschedule(c, p, l) /\ lock = {}
    BY DEF Unlocked
  <1> HIDE DEF l
  <1>4. /\ LockOne' /\ CpuSound' /\ OneCpuEach' /\ RunningRuns' /\ ForkOwns' /\ OneForker'
        /\ StackKept'
        /\ lock' \subseteq CPU /\ Cardinality(lock') <= 1
        /\ pc' \in [Slot -> PCs]
        /\ after' \in [Slot -> {"user", "usret", "wait"} \cup Preemptible]
    BY <1>1, <1>2, <1>a, DescheduleControl
  <1>5. TypeOK'
    BY <1>2, <1>4 DEF TypeOK
  <1>6. InitLives' /\ ParentAlive'
    BY <1>2, <1>3, ProcAssumption
    DEF InitLives, ParentAlive, Alive, TypeOK, Slot, initproc, ProcAssumption
  <1>7. PidsGiven' /\ UniquePids'
    BY <1>2, <1>3 DEF PidsGiven, UniquePids
  <1>8. WaiterMissesNothing'
    BY <1>2, <1>3 DEF WaiterMissesNothing, Children, Zombies
  <1> QED
    BY <1>4, <1>5, <1>6, <1>7, <1>8

\* A timer interrupt: the process exits or yields.
LEMMA TimerProc ==
  ASSUME ProcInv, NEW c \in CPU, NEW p \in Slot, timer(c, p)
  PROVE  ProcInv'
  <1>1. CASE At(c, p, "user") /\ Goto(p, "exit") /\ UNCHANGED <<cpus, table, after, child>>
    BY <1>1, QuietProc
  <1>2. CASE /\ At(c, p, "user") \/ \E l \in Preemptible : At(c, p, l)
             /\ Unlocked
             /\ state' = [state EXCEPT ![p] = "RUNNABLE"]
             /\ Deschedule(c, p, IF pc[p] = "user" THEN "usret" ELSE pc[p])
             /\ UNCHANGED <<cur, scan, pid, parent, chan, killed, kstack, nextpid, child>>
    <2>1. cur[c] = p /\ pc[p] \in {"user"} \cup Preemptible
      BY <1>2 DEF At
    <2> QED
      BY <1>2, <2>1, YieldProc
  <1> QED
    BY <1>1, <1>2 DEF timer

\* sleep(&ticks, 0): the process does not wait for a child.
LEMMA SleepProc ==
  ASSUME ProcInv, NEW c \in CPU, NEW p \in Slot, sleep(c, p)
  PROVE  ProcInv'
  <1> USE DEF ProcInv
  <1>1. /\ cur[c] = p /\ pc[p] = "ticks_sleep" /\ lock = {}
        /\ chan' = [chan EXCEPT ![p] = TICKS]
        /\ state' = [state EXCEPT ![p] = "SLEEPING"]
        /\ Deschedule(c, p, "ticks")
        /\ UNCHANGED <<cur, scan, pid, parent, killed, kstack, nextpid, child>>
    BY DEF sleep, At, Unlocked
  <1>2. /\ "ticks" \in {"user", "usret", "wait"} \cup Preemptible
        /\ pc[p] \notin {"off", "sched", "resume"}
        /\ ~(pc[p] \in ForkPCs \/ "ticks" \in ForkPCs)
    BY <1>1 DEF Preemptible, ForkPCs
  <1>3. /\ state' \in [Slot -> States] /\ state'[p] = "SLEEPING"
        /\ \A s \in Slot \ {p} : state'[s] = state[s]
        /\ chan' \in [Slot -> Slot \cup {0, TICKS}]
        /\ chan'[p] = TICKS /\ \A s \in Slot \ {p} : chan'[s] = chan[s]
    BY <1>1 DEF TypeOK, States
  <1>4. state[p] = "RUNNING"
    BY <1>1 DEF RunningRuns
  <1>5. /\ LockOne' /\ CpuSound' /\ OneCpuEach' /\ RunningRuns' /\ ForkOwns' /\ OneForker'
        /\ StackKept'
        /\ lock' \subseteq CPU /\ Cardinality(lock') <= 1
        /\ pc' \in [Slot -> PCs]
        /\ after' \in [Slot -> {"user", "usret", "wait"} \cup Preemptible]
    BY <1>1, <1>2, <1>3, DescheduleControl
  <1>6. TypeOK'
    BY <1>1, <1>3, <1>5 DEF TypeOK
  <1>7. InitLives' /\ ParentAlive'
    BY <1>1, <1>3, <1>4, ProcAssumption
    DEF InitLives, ParentAlive, Alive, TypeOK, Slot, initproc, ProcAssumption
  <1>8. PidsGiven' /\ UniquePids'
    BY <1>1, <1>3, <1>4 DEF PidsGiven, UniquePids
  <1>9. WaiterMissesNothing'
    <2>1. TICKS \notin Slot
      BY ProcAssumption DEF TICKS, Slot, ProcAssumption
    <2> QED
      BY <1>1, <1>3, <1>4, <2>1 DEF WaiterMissesNothing, Children, Zombies
  <1> QED
    BY <1>5, <1>6, <1>7, <1>8, <1>9

\* exit: the children go to init, and whoever must reap them or p is woken.
LEMMA ExitProc ==
  ASSUME ProcInv, NEW c \in CPU, NEW p \in Slot, exit(c, p)
  PROVE  ProcInv'
  <1> USE DEF ProcInv
  <1>1. CASE At(c, p, "exit") /\ Goto(p, "panic") /\ UNCHANGED <<cpus, table, after, child>>
    BY <1>1, QuietProc
  <1>2. CASE p # initproc /\ Unlocked /\ Deschedule(c, p, "user")
    <2>1. /\ cur[c] = p /\ pc[p] = "exit" /\ lock = {}
          /\ state' = [s \in Slot |->
               IF s = p THEN "ZOMBIE"
               ELSE IF state[s] = "SLEEPING" /\ chan[s] \in ExitWakes(p) THEN "RUNNABLE"
               ELSE state[s]]
          /\ parent' = [s \in Slot |-> NewParent(p, s)]
          /\ UNCHANGED <<cur, scan, pid, chan, killed, kstack, nextpid, child>>
      BY <1>2, ProcAssumption DEF exit, At, Unlocked, Deschedule, Goto, TypeOK
    <2>2. /\ "user" \in {"user", "usret", "wait"} \cup Preemptible
          /\ pc[p] \notin {"off", "sched", "resume"}
          /\ ~(pc[p] \in ForkPCs \/ "user" \in ForkPCs)
      BY <2>1 DEF Preemptible, ForkPCs
    <2>3. initproc \in Slot /\ \A s \in Slot : s # 0
      BY ProcAssumption DEF ProcAssumption, initproc, Slot
    <2>4. /\ state' \in [Slot -> States] /\ state'[p] = "ZOMBIE"
          /\ \A s \in Slot \ {p} :
               \/ state'[s] = state[s]
               \/ state[s] = "SLEEPING" /\ state'[s] = "RUNNABLE"
      BY <2>1 DEF TypeOK, States
    <2>5. /\ parent' \in [Slot -> Slot \cup {0}]
          /\ \A s \in Slot : parent'[s] = IF parent[s] = p THEN initproc ELSE parent[s]
      BY <2>1, <2>3 DEF TypeOK, NewParent
    <2>6. state[p] = "RUNNING"
      BY <2>1 DEF RunningRuns
    <2>7. /\ LockOne' /\ CpuSound' /\ OneCpuEach' /\ RunningRuns' /\ ForkOwns' /\ OneForker'
          /\ StackKept'
          /\ lock' \subseteq CPU /\ Cardinality(lock') <= 1
          /\ pc' \in [Slot -> PCs]
          /\ after' \in [Slot -> {"user", "usret", "wait"} \cup Preemptible]
      <3>1. \A s \in Slot : parent[s] = 0 => parent'[s] = 0
        BY <2>3, <2>5
      <3>2. \A s \in Slot \ {p} :
              state'[s] = state[s] \/ (state[s] = "SLEEPING" /\ state'[s] = "RUNNABLE")
        BY <2>4
      <3> QED
        BY <1>2, <2>1, <2>2, <2>4, <3>1, <3>2, DescheduleControl
    <2>8. TypeOK'
      BY <2>1, <2>4, <2>5, <2>7 DEF TypeOK
    <2>9. InitLives'
      BY <1>2, <2>3, <2>4, <2>5 DEF InitLives, Alive
    <2>10. ParentAlive'
      <3> SUFFICES ASSUME NEW s \in Slot, parent'[s] # 0
                   PROVE  state'[s] # "UNUSED" /\ state'[parent'[s]] \in Alive
        BY DEF ParentAlive
      <3>1. parent[s] # 0 /\ state[s] # "UNUSED"
        BY <2>3, <2>5 DEF ParentAlive
      <3>2. parent'[s] \in Slot /\ parent'[s] # p
        BY <1>2, <2>3, <2>5, <3>1 DEF TypeOK
      <3>3. state[parent'[s]] \in Alive
        BY <2>5, <3>1 DEF ParentAlive, InitLives
      <3> QED
        BY <2>4, <3>1, <3>2, <3>3 DEF Alive
    <2>11. PidsGiven' /\ UniquePids'
      BY <2>1, <2>4, <2>6 DEF PidsGiven, UniquePids
    <2>12. WaiterMissesNothing'
      <3> SUFFICES ASSUME NEW q \in Slot, state'[q] = "SLEEPING", chan[q] = q
                   PROVE  Children(q)' # {} /\ Zombies(q)' = {} /\ ~killed[q]
        BY <2>1 DEF WaiterMissesNothing
      <3>1. q # p /\ state[q] = "SLEEPING" /\ q \notin ExitWakes(p)
        BY <2>1, <2>4
      <3>2. Children(q) # {} /\ Zombies(q) = {} /\ ~killed[q]
        BY <3>1 DEF WaiterMissesNothing
      <3>3. parent[p] # q /\ (q = initproc => Zombies(p) = {})
        BY <3>1 DEF ExitWakes
      <3>4. Children(q) \subseteq Children(q)'
        BY <2>5, <3>1 DEF Children
      <3>5. ASSUME NEW s \in Slot, parent'[s] = q, state'[s] = "ZOMBIE"
            PROVE  FALSE
        <4>1. CASE s = p
          <5>1. parent[p] # p
            BY <1>2 DEF InitLives
          <5> QED
            BY <2>5, <3>3, <3>5, <4>1, <5>1
        <4>2. CASE s # p /\ parent[s] = p
          BY <2>4, <2>5, <3>3, <3>5, <4>2 DEF Zombies, Children
        <4>3. CASE s # p /\ parent[s] # p
          BY <2>4, <2>5, <3>2, <3>5, <4>3 DEF Zombies, Children
        <4> QED
          BY <4>1, <4>2, <4>3
      <3> QED
        BY <3>2, <3>4, <3>5 DEF Zombies, Children
    <2> QED
      BY <2>7, <2>8, <2>9, <2>10, <2>11, <2>12
  <1> QED
    BY <1>1, <1>2 DEF exit

-----------------------------------------------------------------------------
(***************************************************************************)
(* wait.                                                                   *)
(***************************************************************************)

\* A process with ptable.lock, or that takes it, drops it and goes back to user space.
LEMMA WaitControl ==
  ASSUME ProcInv, NEW c \in CPU, NEW p \in Slot, cur[c] = p,
         \/ pc[p] = "user" /\ lock = {}
         \/ pc[p] = "wait",
         pc' = [pc EXCEPT ![p] = "usret"], lock' = lock \ {c},
         UNCHANGED <<cur, after>>
  PROVE  /\ lock' = {} /\ LockOne' /\ OneCpuEach'
         /\ lock' \subseteq CPU /\ Cardinality(lock') <= 1
         /\ pc' \in [Slot -> PCs]
         /\ pc'[p] = "usret" /\ \A q \in Slot \ {p} : pc'[q] = pc[q]
         /\ \A d \in CPU : d # c => d \notin lock /\ cur[d] # p
         /\ \A q \in Slot : Loc(q)' \in ForkPCs \/ Loc(q) \in ForkPCs => Loc(q)' = Loc(q)
         /\ state[p] = "RUNNING" /\ p # 0
  <1> USE DEF ProcInv
  <1>0. p # 0
    BY DEF Slot
  <1>1. lock' = {} /\ \A d \in CPU : d # c => d \notin lock /\ cur[d] # p
    BY <1>0 DEF LockOne, CpuSound, OneCpuEach
  <1>2. LockOne' /\ OneCpuEach' /\ lock' \subseteq CPU /\ Cardinality(lock') <= 1
    BY <1>1, LockCount DEF LockOne, OneCpuEach
  <1>3. /\ pc' \in [Slot -> PCs]
        /\ pc'[p] = "usret" /\ \A q \in Slot \ {p} : pc'[q] = pc[q]
    BY DEF TypeOK, PCs
  <1>4. \A q \in Slot : Loc(q)' \in ForkPCs \/ Loc(q) \in ForkPCs => Loc(q)' = Loc(q)
    BY <1>3 DEF Loc, ForkPCs
  <1>5. state[p] = "RUNNING"
    BY DEF RunningRuns
  <1> QED
    BY <1>0, <1>1, <1>2, <1>3, <1>4, <1>5

\* wait reaps a ZOMBIE: it has left its CPU, and nobody is its child.
LEMMA ReapProc ==
  ASSUME ProcInv, NEW c \in CPU, NEW p \in Slot, cur[c] = p,
         \/ pc[p] = "user" /\ lock = {}
         \/ pc[p] = "wait",
         NEW z \in Zombies(p),
         kstack' = [kstack EXCEPT ![z] = FALSE],
         state' = [state EXCEPT ![z] = "UNUSED"],
         pid' = [pid EXCEPT ![z] = 0],
         parent' = [parent EXCEPT ![z] = 0],
         killed' = [killed EXCEPT ![z] = FALSE],
         lock' = lock \ {c},
         pc' = [pc EXCEPT ![p] = "usret"],
         UNCHANGED <<cur, scan, chan, after, child, nextpid>>
  PROVE  ProcInv'
  <1> USE DEF ProcInv
  <1>1. z \in Slot /\ parent[z] = p /\ state[z] = "ZOMBIE"
    BY DEF Zombies, Children
  <1>2. /\ lock' = {} /\ LockOne' /\ OneCpuEach'
        /\ lock' \subseteq CPU /\ Cardinality(lock') <= 1
        /\ pc' \in [Slot -> PCs]
        /\ pc'[p] = "usret" /\ \A q \in Slot \ {p} : pc'[q] = pc[q]
        /\ \A d \in CPU : d # c => d \notin lock /\ cur[d] # p
        /\ \A q \in Slot : Loc(q)' \in ForkPCs \/ Loc(q) \in ForkPCs => Loc(q)' = Loc(q)
        /\ state[p] = "RUNNING" /\ p # 0
    BY WaitControl
  <1>3. p # z /\ \A d \in CPU : cur[d] # z
    <2>1. p # z
      BY <1>1, <1>2
    <2>2. ASSUME NEW d \in CPU, cur[d] = z PROVE FALSE
      <3>1. z # 0 /\ pc[z] = "sched"
        BY <1>1, <2>2 DEF CpuSound, RunningRuns, Slot
      <3>2. d \in lock
        BY <2>2, <3>1 DEF CpuSound
      <3> QED
        BY <1>2, <2>1, <2>2, <3>2
    <2> QED
      BY <2>1, <2>2
  <1>4. /\ state' \in [Slot -> States] /\ kstack' \in [Slot -> BOOLEAN]
        /\ pid' \in [Slot -> 0 .. MAXPID] /\ parent' \in [Slot -> Slot \cup {0}]
        /\ killed' \in [Slot -> BOOLEAN]
    <2>1. state' \in [Slot -> States] /\ parent' \in [Slot -> Slot \cup {0}]
      BY DEF TypeOK, States
    <2>4. 0 \in 0 .. MAXPID /\ pid \in [Slot -> 0 .. MAXPID]
      BY ProcAssumption DEF TypeOK, ProcAssumption
    <2>2. pid' \in [Slot -> 0 .. MAXPID]
      BY <2>4
    <2>3. kstack' \in [Slot -> BOOLEAN] /\ killed' \in [Slot -> BOOLEAN]
      BY DEF TypeOK
    <2> QED
      BY <2>1, <2>2, <2>3
  <1>5. /\ state'[z] = "UNUSED" /\ ~kstack'[z] /\ pid'[z] = 0 /\ parent'[z] = 0
        /\ \A s \in Slot \ {z} : /\ state'[s] = state[s] /\ kstack'[s] = kstack[s]
                                 /\ pid'[s] = pid[s] /\ parent'[s] = parent[s]
                                 /\ killed'[s] = killed[s]
    BY <1>1 DEF TypeOK
  <1>6. TypeOK'
    BY <1>2, <1>4 DEF TypeOK
  <1>7. CpuSound'
    BY <1>2, <1>3, <1>5 DEF CpuSound, TypeOK
  <1>8. RunningRuns'
    BY <1>1, <1>2, <1>3, <1>5 DEF RunningRuns
  <1>9. ForkOwns' /\ OneForker'
    <2>1. \A q \in Slot : child[q] # 0 => child[q] # z /\ child[q] \in Slot
      BY <1>1 DEF ForkOwns, TypeOK
    <2>2. Loc(z) \notin ForkPCs
      BY <1>1 DEF ForkOwns
    <2> QED
      BY <1>2, <1>5, <2>1, <2>2 DEF ForkOwns, OneForker
  <1>10. StackKept'
    BY <1>5 DEF StackKept, Alive
  <1>11. \A s \in Slot : parent[s] # z
    BY <1>1, ProcAssumption DEF ParentAlive, Alive, Slot, ProcAssumption
  <1>12. InitLives' /\ ParentAlive'
    <2>1. initproc \in Slot /\ initproc # z
      BY <1>1, ProcAssumption DEF InitLives, Alive, Slot, ProcAssumption, initproc
    <2>2. z # 0
      BY <1>1 DEF Slot
    <2> QED
      BY <1>5, <1>11, <2>1, <2>2 DEF InitLives, ParentAlive, TypeOK
  <1>13. PidsGiven'
    BY <1>5 DEF PidsGiven, TypeOK
  <1>14. UniquePids'
    BY <1>5 DEF UniquePids
  <1>15. WaiterMissesNothing'
    <2> SUFFICES ASSUME NEW q \in Slot, state'[q] = "SLEEPING", chan[q] = q
                 PROVE  Children(q)' # {} /\ Zombies(q)' = {} /\ ~killed'[q]
      BY DEF WaiterMissesNothing
    <2>1. q # z /\ q # p /\ state[q] = "SLEEPING"
      BY <1>2, <1>3, <1>5
    <2>2. Children(q) # {} /\ Zombies(q) = {} /\ ~killed[q]
      BY <2>1 DEF WaiterMissesNothing
    <2>3. Children(q) \subseteq Children(q)'
      BY <1>1, <1>5, <2>1 DEF Children
    <2>4. Zombies(q)' \subseteq Zombies(q)
      BY <1>5 DEF Zombies, Children
    <2> QED
      BY <1>5, <2>1, <2>2, <2>3, <2>4
  <1> QED
    BY <1>2, <1>6, <1>7, <1>8, <1>9, <1>10, <1>12, <1>13, <1>14, <1>15

\* wait returns an error: it has no child, or has been killed.
LEMMA WaitFailsProc ==
  ASSUME ProcInv, NEW c \in CPU, NEW p \in Slot, cur[c] = p,
         \/ pc[p] = "user" /\ lock = {}
         \/ pc[p] = "wait",
         lock' = lock \ {c}, pc' = [pc EXCEPT ![p] = "usret"],
         UNCHANGED <<cur, scan, kstack, state, pid, parent, killed, chan, after, child, nextpid>>
  PROVE  ProcInv'
  <1> USE DEF ProcInv
  <1>1. /\ lock' = {} /\ LockOne' /\ OneCpuEach'
        /\ lock' \subseteq CPU /\ Cardinality(lock') <= 1
        /\ pc' \in [Slot -> PCs]
        /\ pc'[p] = "usret" /\ \A q \in Slot \ {p} : pc'[q] = pc[q]
        /\ \A d \in CPU : d # c => d \notin lock /\ cur[d] # p
        /\ \A q \in Slot : Loc(q)' \in ForkPCs \/ Loc(q) \in ForkPCs => Loc(q)' = Loc(q)
        /\ state[p] = "RUNNING" /\ p # 0
    BY WaitControl
  <1>2. TypeOK'
    BY <1>1 DEF TypeOK
  <1>3. CpuSound' /\ RunningRuns'
    BY <1>1 DEF CpuSound, RunningRuns, TypeOK
  <1>4. ForkOwns' /\ OneForker'
    BY <1>1 DEF ForkOwns, OneForker
  <1>5. Wakes
    BY DEF Wakes
  <1> QED
    BY <1>1, <1>2, <1>3, <1>4, <1>5, WakesTable, WakesWaiter

\* wait sleeps, still under ptable.lock: it has a child, no ZOMBIE, and is not killed.
LEMMA WaitSleepsProc ==
  ASSUME ProcInv, NEW c \in CPU, NEW p \in Slot, cur[c] = p,
         \/ pc[p] = "user" /\ lock = {}
         \/ pc[p] = "wait",
         Zombies(p) = {}, Children(p) # {}, ~killed[p],
         chan' = [chan EXCEPT ![p] = p],
         state' = [state EXCEPT ![p] = "SLEEPING"],
         Deschedule(c, p, "wait"),
         UNCHANGED <<cur, scan, kstack, pid, parent, killed, child, nextpid>>
  PROVE  ProcInv'
  <1> USE DEF ProcInv
  <1>0. p # 0
    BY DEF Slot
  <1>1. /\ lock = {} \/ c \in lock
        /\ "wait" \in {"user", "usret", "wait"} \cup Preemptible
        /\ pc[p] \notin {"off", "sched", "resume"}
        /\ ~(pc[p] \in ForkPCs \/ "wait" \in ForkPCs)
    BY <1>0 DEF CpuSound, ForkPCs
  <1>2. /\ state' \in [Slot -> States] /\ state'[p] = "SLEEPING"
        /\ \A s \in Slot \ {p} : state'[s] = state[s]
        /\ chan' \in [Slot -> Slot \cup {0, TICKS}]
        /\ chan'[p] = p /\ \A s \in Slot \ {p} : chan'[s] = chan[s]
    BY DEF TypeOK, States
  <1>3. state[p] = "RUNNING"
    BY <1>1 DEF RunningRuns
  <1>4. /\ LockOne' /\ CpuSound' /\ OneCpuEach' /\ RunningRuns' /\ ForkOwns' /\ OneForker'
        /\ StackKept'
        /\ lock' \subseteq CPU /\ Cardinality(lock') <= 1
        /\ pc' \in [Slot -> PCs]
        /\ after' \in [Slot -> {"user", "usret", "wait"} \cup Preemptible]
    BY <1>1, <1>2, DescheduleControl
  <1>5. TypeOK'
    BY <1>2, <1>4 DEF TypeOK
  <1>6. InitLives' /\ ParentAlive'
    BY <1>2, <1>3, ProcAssumption
    DEF InitLives, ParentAlive, Alive, TypeOK, Slot, initproc, ProcAssumption
  <1>7. PidsGiven' /\ UniquePids'
    BY <1>2, <1>3 DEF PidsGiven, UniquePids
  <1>8. WaiterMissesNothing'
    BY <1>2, <1>3 DEF WaiterMissesNothing, Children, Zombies
  <1> QED
    BY <1>4, <1>5, <1>6, <1>7, <1>8

\* One turn of wait.
LEMMA WaitProc ==
  ASSUME ProcInv, NEW c \in CPU, NEW p \in Slot, wait(c, p)
  PROVE  ProcInv'
  <1>1. cur[c] = p /\ ((pc[p] = "user" /\ lock = {}) \/ pc[p] = "wait")
    BY DEF wait, Syscall, At, Unlocked
  <1>2. UNCHANGED <<cur, scan, nextpid, child>>
    BY DEF wait
  <1>3. CASE /\ Zombies(p) # {}
             /\ LET z == First(Zombies(p))
                IN  /\ kstack' = [kstack EXCEPT ![z] = FALSE]
                    /\ state' = [state EXCEPT ![z] = "UNUSED"]
                    /\ pid' = [pid EXCEPT ![z] = 0]
                    /\ parent' = [parent EXCEPT ![z] = 0]
                    /\ killed' = [killed EXCEPT ![z] = FALSE]
             /\ lock' = lock \ {c}
             /\ Goto(p, "usret")
             /\ UNCHANGED <<chan, after>>
    <2>1. First(Zombies(p)) \in Zombies(p)
      BY <1>3, FirstIn DEF Zombies, Children
    <2> QED
      BY <1>1, <1>2, <1>3, <2>1, ReapProc DEF Goto
  <1>4. CASE /\ lock' = lock \ {c}
             /\ Goto(p, "usret")
             /\ UNCHANGED <<kstack, state, pid, parent, killed, chan, after>>
    BY <1>1, <1>2, <1>4, WaitFailsProc DEF Goto
  <1>5. CASE /\ Zombies(p) = {}
             /\ Children(p) # {} /\ ~killed[p]
             /\ chan' = [chan EXCEPT ![p] = p]
             /\ state' = [state EXCEPT ![p] = "SLEEPING"]
             /\ Deschedule(c, p, "wait")
             /\ UNCHANGED <<kstack, pid, parent, killed>>
    BY <1>1, <1>2, <1>5, WaitSleepsProc
  <1> QED
    BY <1>3, <1>4, <1>5 DEF wait

-----------------------------------------------------------------------------
(***************************************************************************)
(* fork.                                                                   *)
(***************************************************************************)

\* A step of fork changes the state of one slot, nobody's child or parent so far, that
\* no CPU executes.
LEMMA ForkFrame ==
  ASSUME ProcInv, NEW c \in CPU, NEW p \in Slot, NEW np \in Slot, cur[c] = p, np # p,
         pc' \in [Slot -> PCs], \A q \in Slot \ {p} : pc'[q] = pc[q],
         pc[p] \notin {"off", "sched", "resume", "wait"},
         pc'[p] \notin {"off", "sched", "resume", "wait"},
         state[np] \in {"UNUSED", "EMBRYO"},
         state'[np] \in {"UNUSED", "EMBRYO", "RUNNABLE"},
         \A s \in Slot \ {np} : state'[s] = state[s],
         lock' = lock, cur' = cur
  PROVE  /\ LockOne' /\ CpuSound' /\ OneCpuEach' /\ RunningRuns'
         /\ Loc(np) \notin ForkPCs
         /\ \A s \in Slot : parent[s] # np
         /\ np # initproc
  <1> USE DEF ProcInv
  <1>0. \A s \in Slot : s # 0
    BY DEF Slot
  <1>2. \A d \in CPU : cur[d] # np
    BY <1>0 DEF CpuSound, Alive
  <1>3. LockOne' /\ OneCpuEach'
    BY DEF LockOne, OneCpuEach
  <1>4. CpuSound'
    BY <1>0, <1>2 DEF CpuSound, TypeOK
  <1>5. RunningRuns'
    BY DEF RunningRuns
  <1>7. Loc(np) \notin ForkPCs
    BY DEF ForkOwns
  <1>8. \A s \in Slot : parent[s] # np
    BY <1>0 DEF ParentAlive, Alive
  <1>9. np # initproc
    BY DEF InitLives, Alive
  <1> QED
    BY <1>3, <1>4, <1>5, <1>7, <1>8, <1>9

\* allocproc takes a free slot, which has no stack, no parent and no children.
LEMMA ForkProc ==
  ASSUME ProcInv, NEW c \in CPU, NEW p \in Slot, fork(c, p)
  PROVE  ProcInv'
  <1> USE DEF ProcInv
  <1>1. CASE Goto(p, "usret") /\ UNCHANGED <<table, child>>
    <2>1. Syscall(c, p) /\ UNCHANGED <<cpus, table, after, child>>
      BY <1>1 DEF fork
    <2> QED
      BY <1>1, <2>1, QuietProc
  <1>2. CASE Unused # {} /\ nextpid <= MAXPID /\ Goto(p, "fork_kstack")
    <2> DEFINE np == First(Unused)
    <2>1. np \in Slot /\ state[np] = "UNUSED"
      BY <1>2, FirstIn DEF Unused
    <2>2. /\ cur[c] = p /\ pc[p] = "user"
          /\ state' = [state EXCEPT ![np] = "EMBRYO"]
          /\ pid' = [pid EXCEPT ![np] = nextpid]
          /\ child' = [child EXCEPT ![p] = np]
          /\ nextpid' = nextpid + 1
          /\ pc' = [pc EXCEPT ![p] = "fork_kstack"]
          /\ UNCHANGED <<lock, cur, scan, parent, chan, killed, kstack, after>>
      <3>1. ~(Goto(p, "usret") /\ UNCHANGED <<table, child>>)
        BY <1>2 DEF Goto, TypeOK
      <3> QED
        BY <1>2, <3>1, Zenon DEF fork, Syscall, At, NextPid, Goto, cpus
    <2> HIDE DEF np
    <2>3. state[p] = "RUNNING" /\ np # p
      BY <2>1, <2>2 DEF RunningRuns
    <2>4. /\ state' \in [Slot -> States] /\ child' \in [Slot -> Slot \cup {0}]
          /\ state'[np] = "EMBRYO" /\ \A s \in Slot \ {np} : state'[s] = state[s]
          /\ child'[p] = np /\ \A s \in Slot \ {p} : child'[s] = child[s]
      BY <2>1, <2>2 DEF TypeOK, States
    <2>5. /\ pid' \in [Slot -> 0 .. MAXPID] /\ nextpid' \in 1 .. MAXPID + 1
          /\ pid'[np] = nextpid /\ \A s \in Slot \ {np} : pid'[s] = pid[s]
      BY <1>2, <2>1, <2>2, ProcAssumption DEF TypeOK, ProcAssumption
    <2>6. "fork_kstack" \in PCs /\ "fork_kstack" \in ForkPCs /\ pc[p] \notin ForkPCs
      BY <2>2 DEF PCs, Preemptible, ForkPCs
    <2>a. /\ pc' \in [Slot -> PCs]
          /\ pc'[p] = "fork_kstack" /\ \A q \in Slot \ {p} : pc'[q] = pc[q]
          /\ Loc(p) = pc[p]
      BY <2>2, <2>6 DEF TypeOK, Loc
    <2>b. /\ pc[p] \notin {"off", "sched", "resume", "wait"}
          /\ pc'[p] \notin {"off", "sched", "resume", "wait"}
          /\ state[np] \in {"UNUSED", "EMBRYO"}
          /\ state'[np] \in {"UNUSED", "EMBRYO", "RUNNABLE"}
          /\ lock' = lock /\ cur' = cur
      BY <2>1, <2>2, <2>4, <2>a
    <2>7. /\ LockOne' /\ CpuSound' /\ OneCpuEach' /\ RunningRuns'
          /\ Loc(np) \notin ForkPCs
          /\ \A s \in Slot : parent[s] # np
          /\ np # initproc
      BY <2>1, <2>2, <2>3, <2>4, <2>a, <2>b, ForkFrame
    <2>8. TypeOK'
      BY <2>2, <2>4, <2>5, <2>a DEF TypeOK
    <2>9. \A q \in Slot : child[q] # 0 => child[q] # np /\ child[q] \in Slot
      BY <2>1 DEF ForkOwns, TypeOK
    <2>10. ~kstack[np] /\ parent[np] = 0
      BY <2>1 DEF StackKept, ParentAlive
    <2>11. Loc(p)' = "fork_kstack" /\ \A q \in Slot \ {p} : Loc(q)' = Loc(q)
      BY <2>2, <2>a DEF Loc
    <2>12. ForkOwns'
      <3>1. ASSUME NEW q \in Slot \ {p}
            PROVE  IF Loc(q) \in ForkPCs
                   THEN /\ child'[q] # 0
                        /\ state'[q] \in {"RUNNING", "RUNNABLE"}
                        /\ state'[child'[q]] = "EMBRYO"
                        /\ kstack[child'[q]] <=> Loc(q) # "fork_kstack"
                        /\ Loc(q) # "fork_run" => parent[child'[q]] = 0
                   ELSE child'[q] = 0
        BY <2>4, <2>7, <2>9 DEF ForkOwns
      <3>2. np # 0
        BY <2>1 DEF Slot
      <3> QED
        BY <2>2, <2>3, <2>4, <2>6, <2>10, <2>11, <3>1, <3>2 DEF ForkOwns
    <2>13. OneForker'
      BY <2>4, <2>9 DEF OneForker
    <2>14. StackKept' /\ InitLives'
      BY <2>2, <2>4, <2>7, <2>10, ProcAssumption
      DEF StackKept, InitLives, Alive, initproc, Slot, ProcAssumption
    <2>15. ParentAlive'
      <3> SUFFICES ASSUME NEW s \in Slot, parent[s] # 0
                   PROVE  state'[s] # "UNUSED" /\ state'[parent[s]] \in Alive
        BY <2>2 DEF ParentAlive
      <3>1. s # np /\ parent[s] # np /\ parent[s] \in Slot
        BY <2>7, <2>10 DEF TypeOK
      <3> QED
        BY <2>4, <3>1 DEF ParentAlive
    <2>16. PidsGiven'
      <3>1. \A s \in Slot : pid[s] \in Nat /\ nextpid \in Nat /\ pid[s] < nextpid
        BY DEF PidsGiven, TypeOK
      <3> QED
        BY <2>2, <2>5, <3>1 DEF PidsGiven
    <2>17. UniquePids'
      <3>1. \A s \in Slot : pid[s] # nextpid
        BY DEF PidsGiven, TypeOK
      <3> QED
        BY <2>4, <2>5, <3>1 DEF UniquePids
    <2>18. WaiterMissesNothing'
      BY <2>2, <2>4 DEF WaiterMissesNothing, Children, Zombies
    <2> QED
      BY <2>7, <2>8, <2>12, <2>13, <2>14, <2>15, <2>16, <2>17, <2>18
  <1> QED
    BY <1>1, <1>2 DEF fork

\* What the owner of an EMBRYO knows about it while it is inside fork.
LEMMA EmbryoOwned ==
  ASSUME ProcInv, NEW c \in CPU, NEW p \in Slot, cur[c] = p, pc[p] \in ForkPCs
  PROVE  /\ child[p] \in Slot /\ child[p] # p /\ state[child[p]] = "EMBRYO"
         /\ kstack[child[p]] <=> pc[p] # "fork_kstack"
         /\ pc[p] # "fork_run" => parent[child[p]] = 0
         /\ Loc(p) = pc[p] /\ state[p] = "RUNNING"
         /\ \A q \in Slot \ {p} : child[q] # child[p]
         /\ pc[p] \notin {"off", "sched", "resume", "wait"}
  <1> USE DEF ProcInv
  <1>1. pc[p] \notin {"off", "sched", "resume", "wait"}
    BY DEF ForkPCs
  <1>2. Loc(p) = pc[p] /\ state[p] = "RUNNING"
    BY <1>1 DEF Loc, RunningRuns
  <1>3. /\ child[p] # 0 /\ state[child[p]] = "EMBRYO"
        /\ kstack[child[p]] <=> pc[p] # "fork_kstack"
        /\ pc[p] # "fork_run" => parent[child[p]] = 0
    BY <1>2 DEF ForkOwns
  <1>4. child[p] \in Slot /\ child[p] # p
    BY <1>2, <1>3 DEF TypeOK
  <1>5. \A q \in Slot \ {p} : child[q] # child[p]
    BY <1>3 DEF OneForker
  <1> QED
    BY <1>1, <1>2, <1>3, <1>4, <1>5

\* The other steps of fork give the EMBRYO a stack or a parent, or end the fork.
LEMMA EmbryoStep ==
  ASSUME ProcInv, NEW c \in CPU, NEW p \in Slot, cur[c] = p, pc[p] \in ForkPCs,
         NEW np, np = child[p], NEW l \in {"fork_copy", "fork_run", "usret"},
         pc' = [pc EXCEPT ![p] = l],
         l = "usret" => child' = [child EXCEPT ![p] = 0] /\ state'[np] \in {"UNUSED", "RUNNABLE"},
         l # "usret" => child' = child /\ state'[np] = "EMBRYO" /\ kstack'[np],
         l = "fork_copy" => parent'[np] = 0,
         state'[np] = "UNUSED" => ~kstack'[np] /\ parent'[np] = 0,
         state'[np] = "RUNNABLE" => kstack'[np],
         state' \in [Slot -> States], kstack' \in [Slot -> BOOLEAN],
         parent' \in [Slot -> Slot \cup {0}], parent'[np] \in {parent[np], p},
         after' \in [Slot -> {"user", "usret", "wait"} \cup Preemptible],
         after'[np] = after[np] \/ after'[np] = "user",
         \A s \in Slot \ {np} : /\ state'[s] = state[s] /\ kstack'[s] = kstack[s]
                                /\ parent'[s] = parent[s] /\ after'[s] = after[s],
         UNCHANGED <<lock, cur, scan, pid, chan, killed, nextpid>>,
         parent'[np] # parent[np] => pc[p] # "fork_run"
  PROVE  ProcInv'
  <1> USE DEF ProcInv
  <1>1. /\ np \in Slot /\ np # p /\ state[np] = "EMBRYO"
        /\ pc[p] # "fork_run" => parent[np] = 0
        /\ Loc(p) = pc[p] /\ state[p] = "RUNNING"
        /\ \A q \in Slot \ {p} : child[q] # np
        /\ pc[p] \notin {"off", "sched", "resume", "wait"}
    BY EmbryoOwned
  <1>2. l \in PCs /\ l \notin {"off", "sched", "resume", "wait"}
    BY DEF PCs, Preemptible
  <1>a. /\ pc' \in [Slot -> PCs]
        /\ pc'[p] = l /\ \A q \in Slot \ {p} : pc'[q] = pc[q]
    BY <1>2 DEF TypeOK
  <1>3. /\ LockOne' /\ CpuSound' /\ OneCpuEach' /\ RunningRuns'
        /\ Loc(np) \notin ForkPCs
        /\ \A s \in Slot : parent[s] # np
        /\ np # initproc
    <2>1. /\ state[np] \in {"UNUSED", "EMBRYO"}
          /\ state'[np] \in {"UNUSED", "EMBRYO", "RUNNABLE"}
          /\ \A s \in Slot \ {np} : state'[s] = state[s]
          /\ lock' = lock /\ cur' = cur
          /\ pc'[p] \notin {"off", "sched", "resume", "wait"}
      BY <1>1, <1>2, <1>a
    <2> QED
      BY <1>1, <1>a, <2>1, ForkFrame
  <1>4. /\ child' \in [Slot -> Slot \cup {0}]
        /\ child'[p] = IF l = "usret" THEN 0 ELSE np
        /\ \A q \in Slot \ {p} : child'[q] = child[q]
    BY DEF TypeOK
  <1>5. TypeOK'
    BY <1>4, <1>a DEF TypeOK
  <1>6. /\ Loc(p)' = l /\ Loc(np)' \notin ForkPCs
        /\ \A q \in Slot \ {p, np} : Loc(q)' = Loc(q)
    <2>1. Loc(p)' = l
      BY <1>2, <1>a DEF Loc
    <2>2. \A q \in Slot \ {p, np} : Loc(q)' = Loc(q)
      BY <1>a DEF Loc
    <2>3. Loc(np)' \in {Loc(np), "user"}
      BY <1>1, <1>a DEF Loc
    <2> QED
      BY <1>3, <2>1, <2>2, <2>3 DEF ForkPCs
  <1>7. \A q \in Slot \ {p} : child[q] # 0 => child[q] # np /\ child[q] \in Slot
    BY <1>1 DEF TypeOK
  <1>8. ForkOwns'
    <2> SUFFICES ASSUME NEW q \in Slot
                 PROVE  IF Loc(q)' \in ForkPCs
                        THEN /\ child'[q] # 0
                             /\ state'[q] \in {"RUNNING", "RUNNABLE"}
                             /\ state'[child'[q]] = "EMBRYO"
                             /\ kstack'[child'[q]] <=> Loc(q)' # "fork_kstack"
                             /\ Loc(q)' # "fork_run" => parent'[child'[q]] = 0
                        ELSE child'[q] = 0
      BY DEF ForkOwns
    <2>1. CASE q = p
      <3>1. np # 0 /\ state'[p] = "RUNNING"
        BY <1>1 DEF Slot
      <3> QED
        BY <1>1, <1>4, <1>6, <2>1, <3>1 DEF ForkPCs
    <2>2. CASE q = np
      BY <1>1, <1>3, <1>4, <1>6, <2>2 DEF ForkOwns
    <2>3. CASE q # p /\ q # np
      BY <1>4, <1>6, <1>7, <2>3 DEF ForkOwns
    <2> QED
      BY <2>1, <2>2, <2>3
  <1>9. OneForker'
    BY <1>1, <1>4 DEF OneForker
  <1>10. StackKept'
    BY <1>1 DEF StackKept, Alive
  <1>11. InitLives'
    <2>1. initproc \in Slot
      BY ProcAssumption DEF initproc, Slot, ProcAssumption
    <2> QED
      BY <1>1, <1>3, <2>1 DEF InitLives
  <1>12. ParentAlive'
    <2> SUFFICES ASSUME NEW s \in Slot, parent'[s] # 0
                 PROVE  state'[s] # "UNUSED" /\ state'[parent'[s]] \in Alive
      BY DEF ParentAlive
    <2>1. CASE s = np
      <3>1. CASE parent'[np] = p
        BY <1>1, <2>1, <3>1 DEF Alive
      <3>2. CASE parent'[np] = parent[np]
        BY <1>1, <1>3, <2>1, <3>2 DEF ParentAlive, TypeOK
      <3> QED
        BY <3>1, <3>2
    <2>2. CASE s # np
      BY <1>3, <2>2 DEF ParentAlive, TypeOK
    <2> QED
      BY <2>1, <2>2
  <1>13. PidsGiven' /\ UniquePids'
    BY <1>1 DEF PidsGiven, UniquePids
  <1>14. WaiterMissesNothing'
    <2> SUFFICES ASSUME NEW q \in Slot, state'[q] = "SLEEPING", chan[q] = q
                 PROVE  Children(q)' # {} /\ Zombies(q)' = {} /\ ~killed[q]
      BY DEF WaiterMissesNothing
    <2>1. q # np /\ q # p /\ state[q] = "SLEEPING" /\ q # 0
      BY <1>1 DEF Slot
    <2>2. Children(q) # {} /\ Zombies(q) = {} /\ ~killed[q]
      BY <2>1 DEF WaiterMissesNothing
    <2>3. Children(q) \subseteq Children(q)'
      BY <1>1, <2>1 DEF Children
    <2>4. Zombies(q)' \subseteq Zombies(q)
      BY <1>1, <2>1 DEF Zombies, Children
    <2> QED
      BY <2>2, <2>3, <2>4
  <1> QED
    BY <1>3, <1>5, <1>8, <1>9, <1>10, <1>11, <1>12, <1>13, <1>14

\* allocproc: the EMBRYO gets its stack, or its slot is free again.
LEMMA KstackProc ==
  ASSUME ProcInv, NEW c \in CPU, NEW p \in Slot, allocproc_kstack(c, p)
  PROVE  ProcInv'
  <1> USE DEF ProcInv
  <1> DEFINE np == child[p]
  <1>1. /\ cur[c] = p /\ pc[p] = "fork_kstack" /\ pc[p] \in ForkPCs
        /\ UNCHANGED <<lock, cur, scan, pid, parent, chan, killed, nextpid, after>>
    BY DEF allocproc_kstack, At, cpus, ForkPCs
  <1>2. np \in Slot /\ state[np] = "EMBRYO" /\ parent[np] = 0 /\ ~kstack[np]
    BY <1>1, EmbryoOwned
  <1>3. CASE /\ kstack' = [kstack EXCEPT ![np] = TRUE] /\ Goto(p, "fork_copy")
             /\ UNCHANGED <<state, child>>
    <2>1. /\ kstack' \in [Slot -> BOOLEAN] /\ kstack'[np]
          /\ \A s \in Slot \ {np} : kstack'[s] = kstack[s]
      BY <1>2, <1>3 DEF TypeOK
    <2>2. /\ state' \in [Slot -> States] /\ parent' \in [Slot -> Slot \cup {0}]
          /\ after' \in [Slot -> {"user", "usret", "wait"} \cup Preemptible]
      BY <1>1, <1>3 DEF TypeOK
    <2>3. pc' = [pc EXCEPT ![p] = "fork_copy"]
      BY <1>3 DEF Goto
    <2> QED
      BY <1>1, <1>2, <1>3, <2>1, <2>2, <2>3, EmbryoStep
  <1>4. CASE /\ state' = [state EXCEPT ![np] = "UNUSED"] /\ child' = [child EXCEPT ![p] = 0]
             /\ Goto(p, "usret") /\ UNCHANGED kstack
    <2>1. /\ state' \in [Slot -> States] /\ state'[np] = "UNUSED"
          /\ \A s \in Slot \ {np} : state'[s] = state[s]
      BY <1>2, <1>4 DEF TypeOK, States
    <2>2. /\ kstack' \in [Slot -> BOOLEAN] /\ parent' \in [Slot -> Slot \cup {0}]
          /\ after' \in [Slot -> {"user", "usret", "wait"} \cup Preemptible]
      BY <1>1, <1>4 DEF TypeOK
    <2>3. pc' = [pc EXCEPT ![p] = "usret"]
      BY <1>4 DEF Goto
    <2> QED
      BY <1>1, <1>2, <1>4, <2>1, <2>2, <2>3, EmbryoStep
  <1> QED
    BY <1>3, <1>4 DEF allocproc_kstack

\* fork: the EMBRYO gets its parent, or its stack and its slot are free again.
LEMMA CopyProc ==
  ASSUME ProcInv, NEW c \in CPU, NEW p \in Slot, fork_copy(c, p)
  PROVE  ProcInv'
  <1> USE DEF ProcInv
  <1> DEFINE np == child[p]
  <1>1. /\ cur[c] = p /\ pc[p] = "fork_copy" /\ pc[p] \in ForkPCs
        /\ UNCHANGED <<lock, cur, scan, pid, chan, killed, nextpid, after>>
    BY DEF fork_copy, At, cpus, ForkPCs
  <1>2. np \in Slot /\ state[np] = "EMBRYO" /\ parent[np] = 0 /\ kstack[np]
    BY <1>1, EmbryoOwned
  <1>3. CASE /\ parent' = [parent EXCEPT ![np] = p] /\ Goto(p, "fork_run")
             /\ UNCHANGED <<kstack, state, child>>
    <2>1. /\ parent' \in [Slot -> Slot \cup {0}] /\ parent'[np] = p
          /\ \A s \in Slot \ {np} : parent'[s] = parent[s]
      BY <1>2, <1>3 DEF TypeOK
    <2>2. /\ state' \in [Slot -> States] /\ kstack' \in [Slot -> BOOLEAN]
          /\ after' \in [Slot -> {"user", "usret", "wait"} \cup Preemptible]
      BY <1>1, <1>3 DEF TypeOK
    <2>3. pc' = [pc EXCEPT ![p] = "fork_run"]
      BY <1>3 DEF Goto
    <2> QED
      BY <1>1, <1>2, <1>3, <2>1, <2>2, <2>3, EmbryoStep
  <1>4. CASE CopyFails(p) /\ child' = [child EXCEPT ![p] = 0] /\ Goto(p, "usret")
             /\ UNCHANGED parent
    <2>1. /\ state' \in [Slot -> States] /\ state'[np] = "UNUSED"
          /\ \A s \in Slot \ {np} : state'[s] = state[s]
      BY <1>2, <1>4 DEF TypeOK, States, CopyFails
    <2>2. /\ kstack' \in [Slot -> BOOLEAN] /\ ~kstack'[np]
          /\ \A s \in Slot \ {np} : kstack'[s] = kstack[s]
      BY <1>2, <1>4 DEF TypeOK, CopyFails
    <2>3. /\ parent' \in [Slot -> Slot \cup {0}]
          /\ after' \in [Slot -> {"user", "usret", "wait"} \cup Preemptible]
      BY <1>1, <1>4 DEF TypeOK
    <2>4. pc' = [pc EXCEPT ![p] = "usret"]
      BY <1>4 DEF Goto
    <2> QED
      BY <1>1, <1>2, <1>4, <2>1, <2>2, <2>3, <2>4, EmbryoStep
  <1> QED
    BY <1>3, <1>4 DEF fork_copy

\* fork: the child is complete and becomes RUNNABLE.
LEMMA RunnableProc ==
  ASSUME ProcInv, NEW c \in CPU, NEW p \in Slot, fork_run(c, p)
  PROVE  ProcInv'
  <1> USE DEF ProcInv
  <1> DEFINE np == child[p]
  <1>1. /\ cur[c] = p /\ pc[p] = "fork_run" /\ pc[p] \in ForkPCs
        /\ state' = [state EXCEPT ![np] = "RUNNABLE"]
        /\ after' = [after EXCEPT ![np] = "user"]
        /\ child' = [child EXCEPT ![p] = 0]
        /\ pc' = [pc EXCEPT ![p] = "usret"]
        /\ UNCHANGED <<lock, cur, scan, pid, parent, chan, killed, kstack, nextpid>>
    BY DEF fork_run, At, cpus, ForkPCs, Goto
  <1>2. np \in Slot /\ state[np] = "EMBRYO" /\ kstack[np]
    BY <1>1, EmbryoOwned
  <1>3. /\ state' \in [Slot -> States] /\ state'[np] = "RUNNABLE"
        /\ \A s \in Slot \ {np} : state'[s] = state[s]
    BY <1>1, <1>2 DEF TypeOK, States
  <1>4. /\ after' \in [Slot -> {"user", "usret", "wait"} \cup Preemptible]
        /\ after'[np] = "user" /\ \A s \in Slot \ {np} : after'[s] = after[s]
    BY <1>1, <1>2 DEF TypeOK
  <1>5. kstack' \in [Slot -> BOOLEAN] /\ parent' \in [Slot -> Slot \cup {0}]
    BY <1>1 DEF TypeOK
  <1> QED
    BY <1>1, <1>2, <1>3, <1>4, <1>5, EmbryoStep

-----------------------------------------------------------------------------
(***************************************************************************)
(* The theorems.                                                           *)
(***************************************************************************)

\* The invariant is inductive.
LEMMA NextProc == ProcInv /\ [Next]_vars => ProcInv'
  <1> SUFFICES ASSUME ProcInv, [Next]_vars PROVE ProcInv'
    OBVIOUS
  <1>1. CASE UNCHANGED vars
    BY <1>1 DEF vars, ProcInv, TypeOK, LockOne, CpuSound, OneCpuEach, RunningRuns, ForkOwns,
                OneForker, StackKept, InitLives, ParentAlive, PidsGiven, UniquePids,
                WaiterMissesNothing, Children, Zombies, Loc
  <1>2. ASSUME NEW c \in CPU,
               scheduler_acquire(c) \/ scheduler_run(c) \/ scheduler_release(c) \/ panic_loop(c)
        PROVE  ProcInv'
    BY <1>1, <1>2, ScanProc, RunProc DEF panic_loop
  <1>3. ASSUME NEW c \in CPU, NEW p \in Slot,
               \/ sched(c, p) \/ resume(c, p) \/ timer(c, p) \/ fault(c, p) \/ usret(c, p)
               \/ sys_exit(c, p) \/ exit(c, p) \/ wait(c, p) \/ sys_sleep(c, p) \/ sleep(c, p)
        PROVE  ProcInv'
    BY <1>3, SchedProc, ResumeProc, TimerProc, FaultProc, QuietProc, ExitProc, WaitProc, SleepProc
  <1>4. ASSUME NEW c \in CPU, NEW p \in Slot,
               fork(c, p) \/ allocproc_kstack(c, p) \/ fork_copy(c, p) \/ fork_run(c, p)
        PROVE  ProcInv'
    BY <1>4, ForkProc, KstackProc, CopyProc, RunnableProc
  <1> QED
    BY <1>1, <1>2, <1>3, <1>4, KillProc, TicksProc DEF Next

\* The invariant holds however many CPUs schedule, trap, fork, exit, wait and kill.
THEOREM ProcCorrect == Spec => []ProcInv
  BY InitProc, NextProc, PTL DEF Spec

\* No process is executed by two CPUs, because a context is saved under ptable.lock
\* before a scheduler can find the process RUNNABLE, and no two processes share a pid.
THEOREM TableIsSound == Spec => []TableSound
  <1>1. ProcInv => TableSound
    BY DEF ProcInv, TableSound
  <1> QED
    BY <1>1, ProcCorrect, PTL

\* The stack a CPU executes on is never freed under it, and no failure inside fork loses
\* one: a ZOMBIE cannot be reaped before its last swtch has released its CPU.
THEOREM StacksAreOwned == Spec => []StacksOwned
  <1>1. ProcInv => StacksOwned
    <2> SUFFICES ASSUME ProcInv PROVE StackInUse /\ NoStackLeak
      BY DEF StacksOwned
    <2> USE DEF ProcInv
    <2>1. StackInUse
      BY DEF StackInUse, CpuSound, StackKept, TypeOK
    <2>2. NoStackLeak
      BY DEF NoStackLeak, StackKept
    <2> QED
      BY <2>1, <2>2
  <1> QED
    BY <1>1, ProcCorrect, PTL

\* exit leaves no process whose parent is dead, so that no stranger in a reused slot
\* becomes anybody's parent.
THEOREM ParentsAreAlive == Spec => []ParentAlive
  <1>1. ProcInv => ParentAlive
    BY DEF ProcInv
  <1> QED
    BY <1>1, ProcCorrect, PTL

\* No wakeup for wait is lost: a process asleep in wait has a child, none that it could
\* reap, inherited ones included, and has not been killed.
THEOREM WaitMissesNothing == Spec => []WaiterMissesNothing
  <1>1. ProcInv => WaiterMissesNothing
    BY DEF ProcInv
  <1> QED
    BY <1>1, ProcCorrect, PTL

=============================================================================
