-------------------------------- MODULE Proc --------------------------------
(***************************************************************************)
(* The process table of proc.c: fork, exit, wait, kill, sleep, wakeup,     *)
(* yield and the per-CPU scheduler, driven by traps (trap.c) and system    *)
(* calls (sysproc.c) on several CPUs.                                      *)
(*                                                                         *)
(* ptable.lock is explicit because it changes hands: a process that gives  *)
(* up the CPU acquires it, the scheduler of that CPU goes on scanning with *)
(* it, and the next process to run releases it.  A section that acquires   *)
(* and releases it without a context switch is one action; code that runs  *)
(* without it is cut where it writes the process table.                    *)
(*                                                                         *)
(* Files, memory contents and clock arithmetic are left out: closing files *)
(* and the two allocations of fork only succeed or fail, and whether       *)
(* sys_sleep has slept long enough is a free choice.                       *)
(***************************************************************************)
EXTENDS Integers, FiniteSets

CONSTANTS
  CPU,       \* processors
  NPROC,     \* slots of ptable.proc[]
  MAXPID,    \* bound of the model: the largest pid fork gives out
  KillPids   \* arguments that processes give to kill

ASSUME ProcAssumption ==
  /\ NPROC \in Nat \ {0}
  /\ MAXPID \in Nat \ {0}
  /\ KillPids \subseteq Nat

Slot == 1 .. NPROC
initproc == 1        \* the first slot, filled by userinit
TICKS == NPROC + 1   \* the channel &ticks; wait's channel is the process's slot

VARIABLES
  lock,     \* the CPU that holds ptable.lock, as a set
  cur,      \* proc of each CPU, 0 while its scheduler runs
  scan,     \* the slot its scheduler looks at next
  state,    \* p->state
  pid,      \* p->pid
  parent,   \* p->parent, 0 for none
  chan,     \* p->chan, 0 for none
  killed,   \* p->killed
  kstack,   \* whether the slot owns a kernel stack
  pc,       \* where the process is, or "off" when no CPU executes it
  after,    \* where it goes on after a context switch
  child,    \* np of fork, 0 outside of it
  nextpid

vars == <<lock, cur, scan, state, pid, parent, chan, killed, kstack, pc, after,
          child, nextpid>>

table == <<state, pid, parent, chan, killed, kstack, nextpid>>
cpus == <<lock, cur, scan>>

States == {"UNUSED", "EMBRYO", "SLEEPING", "RUNNABLE", "RUNNING", "ZOMBIE"}
\* Where kernel code runs with interrupts on, so that a timer tick may switch it out.
Preemptible == {"fork_kstack", "fork_copy", "fork_run", "ticks", "ticks_sleep", "exit"}
PCs == {"off", "user", "usret", "wait", "sched", "resume", "panic"} \cup Preemptible

TypeOK ==
  /\ lock \subseteq CPU /\ Cardinality(lock) <= 1
  /\ cur \in [CPU -> Slot \cup {0}]
  /\ scan \in [CPU -> 1 .. NPROC + 1]
  /\ state \in [Slot -> States]
  /\ pid \in [Slot -> 0 .. MAXPID]
  /\ parent \in [Slot -> Slot \cup {0}]
  /\ chan \in [Slot -> Slot \cup {0, TICKS}]
  /\ killed \in [Slot -> BOOLEAN]
  /\ kstack \in [Slot -> BOOLEAN]
  /\ pc \in [Slot -> PCs]
  /\ after \in [Slot -> {"user", "usret", "wait"} \cup Preemptible]
  /\ child \in [Slot -> Slot \cup {0}]
  /\ nextpid \in 1 .. MAXPID + 1

\* After userinit: one process, its own parent, not yet run by any CPU.
Init ==
  /\ lock = {}
  /\ cur = [c \in CPU |-> 0]
  /\ scan = [c \in CPU |-> 1]
  /\ state = [s \in Slot |-> IF s = initproc THEN "RUNNABLE" ELSE "UNUSED"]
  /\ pid = [s \in Slot |-> IF s = initproc THEN 1 ELSE 0]
  /\ parent = [s \in Slot |-> IF s = initproc THEN initproc ELSE 0]
  /\ chan = [s \in Slot |-> 0]
  /\ killed = [s \in Slot |-> FALSE]
  /\ kstack = [s \in Slot |-> s = initproc]
  /\ pc = [s \in Slot |-> "off"]
  /\ after = [s \in Slot |-> "user"]
  /\ child = [s \in Slot |-> 0]
  /\ nextpid = 2

\* CPU c executes process p, which is at l.
At(c, p, l) == cur[c] = p /\ p # 0 /\ pc[p] = l
Goto(p, l) == pc' = [pc EXCEPT ![p] = l]

\* panic stops the CPU it happens on, for ever and with interrupts off.  (It stops
\* another one only when that prints.)
Frozen(c) == cur[c] # 0 /\ pc[cur[c]] = "panic"

\* acquire(&ptable.lock) gets the lock only when nobody holds it.
Unlocked == lock = {}

\* The first slot of a nonempty set, as a loop over ptable.proc[] finds it.
First(S) == CHOOSE s \in S : \A t \in S : s <= t

-----------------------------------------------------------------------------
(***************************************************************************)
(* Scheduler and context switches.                                         *)
(***************************************************************************)

\* scheduler: acquire ptable.lock and start a scan of the table.
scheduler_acquire(c) ==
  /\ cur[c] = 0
  /\ Unlocked
  /\ lock' = lock \cup {c}
  /\ scan' = [scan EXCEPT ![c] = 1]
  /\ UNCHANGED <<cur, table, pc, after, child>>

Runnable(c) == {s \in Slot : s >= scan[c] /\ state[s] = "RUNNABLE"}

\* Mutant: the scan starts again at the first slot.
ScanAfter_first(p) == 1

\* The slot at which the scan goes on once p has run.
ScanAfter(p) == p + 1

\* scheduler: run the next RUNNABLE process of the scan; the lock goes with it.
scheduler_run(c) ==
  /\ cur[c] = 0
  /\ c \in lock
  /\ Runnable(c) # {}
  /\ LET p == First(Runnable(c))
     IN  /\ cur' = [cur EXCEPT ![c] = p]
         /\ scan' = [scan EXCEPT ![c] = ScanAfter(p)]
         /\ state' = [state EXCEPT ![p] = "RUNNING"]
         /\ Goto(p, "resume")
  /\ UNCHANGED <<lock, pid, parent, chan, killed, kstack, nextpid, after, child>>

\* scheduler: the scan has reached the end of the table.
scheduler_release(c) ==
  /\ cur[c] = 0
  /\ c \in lock
  /\ Runnable(c) = {}
  /\ lock' = lock \ {c}
  /\ scan' = [scan EXCEPT ![c] = 1]
  /\ UNCHANGED <<cur, table, pc, after, child>>

\* Mutant: sched is entered without ptable.lock.
LockForSched_none(c) == lock

\* A process calls sched holding ptable.lock.
LockForSched(c) == lock \cup {c}

\* sched: swtch saves the context and returns to the CPU's scheduler.
sched(c, p) ==
  /\ At(c, p, "sched")
  /\ cur' = [cur EXCEPT ![c] = 0]
  /\ Goto(p, "off")
  /\ UNCHANGED <<lock, scan, table, after, child>>

\* The first code of a resumed process: the end of yield, sleep or forkret.
\* wait goes on with ptable.lock, all others release it.
resume(c, p) ==
  /\ At(c, p, "resume")
  /\ chan' = [chan EXCEPT ![p] = 0]
  /\ lock' = IF after[p] = "wait" THEN lock ELSE lock \ {c}
  /\ Goto(p, after[p])
  /\ after' = [after EXCEPT ![p] = "user"]
  /\ UNCHANGED <<cur, scan, state, pid, parent, killed, kstack, nextpid, child>>

\* The process sets its state and calls sched; it will go on at l.
Deschedule(c, p, l) ==
  /\ lock' = LockForSched(c)
  /\ after' = [after EXCEPT ![p] = l]
  /\ Goto(p, "sched")

\* wakeup1: the state of every slot after the sleepers on ch are woken.
wakeup1(st, ch) ==
  [s \in Slot |-> IF st[s] = "SLEEPING" /\ chan[s] = ch THEN "RUNNABLE" ELSE st[s]]

-----------------------------------------------------------------------------
(***************************************************************************)
(* Traps.                                                                  *)
(***************************************************************************)

\* trap on a timer interrupt: a killed process in user space exits, any other
\* may have to yield; on the way back killed is tested again.
timer(c, p) ==
  \/ /\ At(c, p, "user") /\ killed[p]
     /\ Goto(p, "exit")
     /\ UNCHANGED <<cpus, table, after, child>>
  \/ /\ \/ At(c, p, "user") /\ ~killed[p]
        \/ \E l \in Preemptible : At(c, p, l)
     /\ Unlocked
     /\ state' = [state EXCEPT ![p] = "RUNNABLE"]
     /\ Deschedule(c, p, IF pc[p] = "user" THEN "usret" ELSE pc[p])
     /\ UNCHANGED <<cur, scan, pid, parent, chan, killed, kstack, nextpid, child>>

\* trap on a fault in user space: the process is marked killed and exits.
fault(c, p) ==
  /\ At(c, p, "user")
  /\ killed' = [killed EXCEPT ![p] = TRUE]
  /\ Goto(p, "exit")
  /\ UNCHANGED <<cpus, state, pid, parent, chan, kstack, nextpid, after, child>>

\* The end of trap: killed processes do not return to user space.
usret(c, p) ==
  /\ At(c, p, "usret")
  /\ Goto(p, IF killed[p] THEN "exit" ELSE "user")
  /\ UNCHANGED <<cpus, table, after, child>>

\* A system call begins: trap tests killed first.
Syscall(c, p) == At(c, p, "user") /\ ~killed[p]

\* The timer interrupt of CPU 0: wakeup(&ticks).
ticks_wakeup ==
  /\ \E c \in CPU : ~Frozen(c)
  /\ Unlocked
  /\ state' = wakeup1(state, TICKS)
  /\ UNCHANGED <<cpus, pid, parent, chan, killed, kstack, nextpid, pc, after,
                 child>>

-----------------------------------------------------------------------------
(***************************************************************************)
(* fork.                                                                   *)
(***************************************************************************)

Unused == {s \in Slot : state[s] = "UNUSED"}

\* nextpid after one more pid has been given out.
NextPid == nextpid + 1

\* allocproc up to its release: take a slot and a pid, or fail.
fork(c, p) ==
  /\ Syscall(c, p)
  /\ Unlocked
  /\ \/ /\ Unused = {}
        /\ Goto(p, "usret")
        /\ UNCHANGED <<table, child>>
     \/ /\ Unused # {} /\ nextpid <= MAXPID
        /\ LET np == First(Unused)
           IN  /\ state' = [state EXCEPT ![np] = "EMBRYO"]
               /\ pid' = [pid EXCEPT ![np] = nextpid]
               /\ child' = [child EXCEPT ![p] = np]
        /\ nextpid' = NextPid
        /\ Goto(p, "fork_kstack")
        /\ UNCHANGED <<parent, chan, killed, kstack>>
  /\ UNCHANGED <<cpus, after>>

\* allocproc: the kernel stack, or back to UNUSED without the lock.
allocproc_kstack(c, p) ==
  /\ At(c, p, "fork_kstack")
  /\ \/ /\ kstack' = [kstack EXCEPT ![child[p]] = TRUE]
        /\ Goto(p, "fork_copy")
        /\ UNCHANGED <<state, child>>
     \/ /\ state' = [state EXCEPT ![child[p]] = "UNUSED"]
        /\ child' = [child EXCEPT ![p] = 0]
        /\ Goto(p, "usret")
        /\ UNCHANGED kstack
  /\ UNCHANGED <<cpus, pid, parent, chan, killed, nextpid, after>>

\* Mutant: the stack is not freed when the address space cannot be copied.
CopyFails_leak(p) == state' = [state EXCEPT ![child[p]] = "UNUSED"] /\ UNCHANGED kstack

\* fork: copyuvm has failed, the stack and the slot are given back.
CopyFails(p) ==
  /\ kstack' = [kstack EXCEPT ![child[p]] = FALSE]
  /\ state' = [state EXCEPT ![child[p]] = "UNUSED"]

\* fork: copy the address space, then the parent link, files and directory.
fork_copy(c, p) ==
  /\ At(c, p, "fork_copy")
  /\ \/ /\ parent' = [parent EXCEPT ![child[p]] = p]
        /\ Goto(p, "fork_run")
        /\ UNCHANGED <<kstack, state, child>>
     \/ /\ CopyFails(p)
        /\ child' = [child EXCEPT ![p] = 0]
        /\ Goto(p, "usret")
        /\ UNCHANGED parent
  /\ UNCHANGED <<cpus, pid, chan, killed, nextpid, after>>

\* fork: the child becomes RUNNABLE; it will start in forkret.
fork_run(c, p) ==
  /\ At(c, p, "fork_run")
  /\ Unlocked
  /\ state' = [state EXCEPT ![child[p]] = "RUNNABLE"]
  /\ after' = [after EXCEPT ![child[p]] = "user"]
  /\ child' = [child EXCEPT ![p] = 0]
  /\ Goto(p, "usret")
  /\ UNCHANGED <<cpus, pid, parent, chan, killed, kstack, nextpid>>

-----------------------------------------------------------------------------
(***************************************************************************)
(* exit, wait, kill and sleep.                                             *)
(***************************************************************************)

\* sys_exit: the files are closed before ptable.lock is taken.
sys_exit(c, p) ==
  /\ Syscall(c, p)
  /\ Goto(p, "exit")
  /\ UNCHANGED <<cpus, table, after, child>>

Children(p) == {s \in Slot : parent[s] = p}
Zombies(p) == {s \in Children(p) : state[s] = "ZOMBIE"}

\* Mutants: init is not woken for a zombie it inherits; the children keep their parent.
ExitWakes_parent(p) == {parent[p]}
NewParent_kept(p, s) == parent[s]

\* The channels on which exit wakes sleepers.
ExitWakes(p) == {parent[p]} \cup (IF Zombies(p) # {} THEN {initproc} ELSE {})

\* The parent of s after exit has passed p's children to init.
NewParent(p, s) == IF parent[s] = p THEN initproc ELSE parent[s]

\* exit: wake the parent, pass the children on and become a ZOMBIE.
exit(c, p) ==
  /\ At(c, p, "exit")
  /\ \/ /\ p = initproc
        /\ Goto(p, "panic")
        /\ UNCHANGED <<cpus, table, after, child>>
     \/ /\ p # initproc
        /\ Unlocked
        /\ state' = [s \in Slot |->
             IF s = p THEN "ZOMBIE"
             ELSE IF state[s] = "SLEEPING" /\ chan[s] \in ExitWakes(p) THEN "RUNNABLE"
             ELSE state[s]]
        /\ parent' = [s \in Slot |-> NewParent(p, s)]
        /\ Deschedule(c, p, "user")
        /\ UNCHANGED <<cur, scan, pid, chan, killed, kstack, nextpid, child>>

\* wait: one turn of its loop, with ptable.lock just acquired or kept from sleep.
wait(c, p) ==
  /\ \/ Syscall(c, p) /\ Unlocked
     \/ At(c, p, "wait")
  /\ \/ /\ Zombies(p) # {}
        /\ LET z == First(Zombies(p))
           IN  /\ kstack' = [kstack EXCEPT ![z] = FALSE]
               /\ state' = [state EXCEPT ![z] = "UNUSED"]
               /\ pid' = [pid EXCEPT ![z] = 0]
               /\ parent' = [parent EXCEPT ![z] = 0]
               /\ killed' = [killed EXCEPT ![z] = FALSE]
        /\ lock' = lock \ {c}
        /\ Goto(p, "usret")
        /\ UNCHANGED <<chan, after>>
     \/ /\ Zombies(p) = {}
        /\ Children(p) = {} \/ killed[p]
        /\ lock' = lock \ {c}
        /\ Goto(p, "usret")
        /\ UNCHANGED <<kstack, state, pid, parent, killed, chan, after>>
     \/ /\ Zombies(p) = {}
        /\ Children(p) # {} /\ ~killed[p]
        /\ chan' = [chan EXCEPT ![p] = p]
        /\ state' = [state EXCEPT ![p] = "SLEEPING"]
        /\ Deschedule(c, p, "wait")
        /\ UNCHANGED <<kstack, pid, parent, killed>>
  /\ UNCHANGED <<cur, scan, nextpid, child>>

\* kill: mark the first slot with this pid and wake it.
kill(c, p, k) ==
  /\ Syscall(c, p)
  /\ Unlocked
  /\ LET S == {s \in Slot : pid[s] = k}
     IN  \/ /\ S # {}
            /\ killed' = [killed EXCEPT ![First(S)] = TRUE]
            /\ state' = [state EXCEPT ![First(S)] = IF @ = "SLEEPING" THEN "RUNNABLE" ELSE @]
         \/ /\ S = {}
            /\ UNCHANGED <<killed, state>>
  /\ Goto(p, "usret")
  /\ UNCHANGED <<cpus, pid, parent, chan, kstack, nextpid, after, child>>

\* Mutant: sys_sleep does not look at killed.
SleepGivesUp_never(p) == FALSE

\* sys_sleep returns early once the process is killed.
SleepGivesUp(p) == killed[p]

\* sys_sleep: the test of its loop, without a lock: long enough, killed, or sleep.
sys_sleep(c, p) ==
  /\ Syscall(c, p) \/ At(c, p, "ticks")
  /\ \/ Goto(p, "usret")
     \/ ~SleepGivesUp(p) /\ Goto(p, "ticks_sleep")
  /\ UNCHANGED <<cpus, table, after, child>>

\* sleep(&ticks, 0).
sleep(c, p) ==
  /\ At(c, p, "ticks_sleep")
  /\ Unlocked
  /\ chan' = [chan EXCEPT ![p] = TICKS]
  /\ state' = [state EXCEPT ![p] = "SLEEPING"]
  /\ Deschedule(c, p, "ticks")
  /\ UNCHANGED <<cur, scan, pid, parent, killed, kstack, nextpid, child>>

-----------------------------------------------------------------------------
\* panic never returns.
panic_loop(c) == Frozen(c) /\ UNCHANGED vars

Next ==
  \/ \E c \in CPU : scheduler_acquire(c) \/ scheduler_run(c) \/ scheduler_release(c)
  \/ \E c \in CPU, p \in Slot :
       \/ sched(c, p)
       \/ resume(c, p)
       \/ timer(c, p)
       \/ fault(c, p)
       \/ usret(c, p)
       \/ fork(c, p)
       \/ allocproc_kstack(c, p)
       \/ fork_copy(c, p)
       \/ fork_run(c, p)
       \/ sys_exit(c, p)
       \/ exit(c, p)
       \/ wait(c, p)
       \/ sys_sleep(c, p)
       \/ sleep(c, p)
  \/ \E c \in CPU, p \in Slot, k \in KillPids : kill(c, p, k)
  \/ ticks_wakeup
  \/ \E c \in CPU : panic_loop(c)

Spec == Init /\ [][Next]_vars

\* A CPU that executes a process keeps executing it, its scheduler keeps
\* scanning, and timer interrupts keep coming.  Steps are strongly fair because a
\* tick can take the CPU from a process again and again just before a step, and
\* a tick finds interrupts off or ptable.lock taken again and again.
\* What a process asks for in user space is its own choice.
Fairness ==
  /\ SF_vars(ticks_wakeup)
  /\ \A c \in CPU :
       /\ WF_vars(scheduler_acquire(c) \/ scheduler_run(c) \/ scheduler_release(c))
       /\ \A p \in Slot :
            /\ SF_vars(timer(c, p))
            /\ SF_vars(sched(c, p) \/ resume(c, p))
            /\ SF_vars(\/ usret(c, p)
                       \/ allocproc_kstack(c, p)
                       \/ fork_copy(c, p)
                       \/ fork_run(c, p)
                       \/ exit(c, p)
                       \/ sleep(c, p)
                       \/ pc[p] = "wait" /\ wait(c, p)
                       \/ pc[p] = "ticks" /\ sys_sleep(c, p))

FairSpec == Spec /\ Fairness

-----------------------------------------------------------------------------
(***************************************************************************)
(* Safety.                                                                 *)
(***************************************************************************)

Alive == {"SLEEPING", "RUNNABLE", "RUNNING"}

\* Two CPUs never execute the same process: its context is saved, under
\* ptable.lock, before another scheduler can find it RUNNABLE.
OneCpuEach == \A c, d \in CPU : c # d /\ cur[c] = cur[d] => cur[c] = 0

\* The kernel stack a CPU executes on is never freed under it: wait cannot reap
\* a ZOMBIE before its last swtch.
StackInUse == \A c \in CPU : cur[c] # 0 => kstack[cur[c]]

\* A free slot owns no kernel stack, whichever step of fork failed.
NoStackLeak == \A s \in Slot : state[s] = "UNUSED" => ~kstack[s]

\* The parent of every process is alive: exit leaves no process behind whose
\* parent slot may be reused by a stranger.
ParentAlive ==
  \A s \in Slot : parent[s] # 0 => state[s] # "UNUSED" /\ state[parent[s]] \in Alive

\* wait misses nothing: while a process sleeps in wait it has a child, no child of
\* it is a ZOMBIE, inherited ones included, and it has not been killed.  (init
\* is its own parent and so always has a child.)
WaiterMissesNothing ==
  \A p \in Slot : state[p] = "SLEEPING" /\ chan[p] = p =>
    Children(p) # {} /\ Zombies(p) = {} /\ ~killed[p]

\* Every process has a pid of its own.
UniquePids ==
  \A s, t \in Slot :
    s # t /\ state[s] # "UNUSED" /\ state[t] # "UNUSED" => pid[s] # pid[t]

\* A process has one CPU at most and a pid of its own.
TableSound == TypeOK /\ OneCpuEach /\ UniquePids

\* No stack is freed under a process, and none is lost when fork fails.
StacksOwned == StackInUse /\ NoStackLeak

(***************************************************************************)
(* Liveness.                                                               *)
(***************************************************************************)

\* A killed process exits, wherever it was when it was killed (or init was the
\* one to exit, which is a panic).
KilledExits ==
  \A p \in Slot :
    killed[p] /\ state[p] \in Alive ~> state[p] \in {"ZOMBIE", "UNUSED"} \/ pc[initproc] = "panic"

\* No process starves in the run queue.
RunnableRuns ==
  \A p \in Slot : state[p] = "RUNNABLE" ~> state[p] = "RUNNING" \/ pc[initproc] = "panic"
=============================================================================
