-------------------------------- MODULE Pipe --------------------------------
(***************************************************************************)
(* One pipe (pipe.c) shared by processes that inherit its ends, with the   *)
(* part of sleep, wakeup and kill (proc.c) that blocking on it uses.       *)
(*                                                                         *)
(* Both locks are explicit.  p->lock is held over a whole piperead or      *)
(* pipewrite except while it sleeps; ptable.lock is taken by sleep before  *)
(* it lets p->lock go, by wakeup and by kill.  kill does not take p->lock, *)
(* so it falls between the test of killed and the sleep that follows it.   *)
(***************************************************************************)
EXTENDS Integers, Sequences, FiniteSets

CONSTANTS
  Proc,      \* processes
  Killable,  \* those that may be killed
  Byte,      \* values of a byte
  PIPESIZE,  \* size of the buffer
  WRAP,      \* 2^32, at which nread and nwrite wrap around
  MAXN       \* the largest request of the model, in bytes

ASSUME PipeAssumption ==
  /\ Killable \subseteq Proc
  /\ Byte # {}
  /\ PIPESIZE \in Nat \ {0}
  /\ WRAP \in Nat /\ WRAP > PIPESIZE /\ WRAP % PIPESIZE = 0
  /\ MAXN \in Nat

VARIABLES
  lock,       \* holder of p->lock, as a set
  ptlock,     \* holder of ptable.lock, as a set
  data,       \* p->data
  nread,
  nwrite,
  readopen,
  writeopen,
  allocated,  \* the page of the pipe is allocated
  stranded,   \* history: a killed writer has left the full pipe without waking the readers
  ends,       \* the ends of the pipe that each process has open
  pc,
  left,       \* bytes the call has still to copy
  killed,
  out         \* the byte a process has read last

vars == <<lock, ptlock, data, nread, nwrite, readopen, writeopen, allocated,
          stranded, ends, pc, left, killed, out>>
buffer == <<data, nread, nwrite, readopen, writeopen, allocated, stranded>>

PCs == {"user", "w_acquire", "w_loop", "w_sleep", "w_switch", "w_asleep",
        "r_acquire", "r_loop", "r_sleep", "r_switch", "r_asleep", "r_copy",
        "close_r", "close_w", "kfree"}

TypeOK ==
  /\ lock \subseteq Proc /\ Cardinality(lock) <= 1
  /\ ptlock \subseteq Proc /\ Cardinality(ptlock) <= 1
  /\ data \in [0 .. PIPESIZE - 1 -> Byte]
  /\ nread \in 0 .. WRAP - 1 /\ nwrite \in 0 .. WRAP - 1
  /\ readopen \in BOOLEAN /\ writeopen \in BOOLEAN /\ allocated \in BOOLEAN
  /\ stranded \in BOOLEAN
  /\ ends \in [Proc -> SUBSET {"r", "w"}]
  /\ pc \in [Proc -> PCs]
  /\ left \in [Proc -> 0 .. MAXN]
  /\ killed \in [Proc -> BOOLEAN]
  /\ out \in [Proc -> Byte]

Init ==
  /\ lock = {} /\ ptlock = {}
  /\ data \in [0 .. PIPESIZE - 1 -> Byte]
  /\ nread = 0 /\ nwrite = 0
  /\ readopen = FALSE /\ writeopen = FALSE /\ allocated = FALSE /\ stranded = FALSE
  /\ ends = [p \in Proc |-> {}]
  /\ pc = [p \in Proc |-> "user"]
  /\ left = [p \in Proc |-> 0]
  /\ killed = [p \in Proc |-> FALSE]
  /\ out \in [Proc -> Byte]

Goto(p, l) == pc' = [pc EXCEPT ![p] = l]

\* wakeup of all sleepers at l, which then compete for p->lock; p goes on at m.
WakeupGoto(l, p, m) ==
  /\ ptlock = {}
  /\ pc' = [q \in Proc |->
       IF q = p THEN m
       ELSE IF pc[q] = l THEN (IF l = "r_asleep" THEN "r_acquire" ELSE "w_acquire")
       ELSE pc[q]]

\* acquire(&p->lock) gets the lock only when nobody holds it.
LockFree == lock = {}

\* Mutant: the addition does not wrap around.
Full_unwrapped == nwrite = nread + PIPESIZE

Full == nwrite = (nread + PIPESIZE) % WRAP
Empty == nread = nwrite

-----------------------------------------------------------------------------
(***************************************************************************)
(* Opening, inheriting and closing.                                        *)
(***************************************************************************)

\* sys_pipe and pipealloc: the caller gets both ends of a new pipe.  (When a file
\* or the page cannot be allocated, everything is given back: no step.)
pipealloc(p) ==
  /\ ~allocated
  /\ pc[p] = "user" /\ ~killed[p]
  /\ allocated' = TRUE /\ readopen' = TRUE /\ writeopen' = TRUE
  /\ nread' = 0 /\ nwrite' = 0
  /\ ends' = [ends EXCEPT ![p] = {"r", "w"}]
  /\ UNCHANGED <<lock, ptlock, data, stranded, pc, left, killed, out>>

\* fork: process q starts with p's ends (filedup) and unmarked.
fork(p, q) ==
  /\ pc[p] = "user" /\ ends[p] # {} /\ ~killed[p]
  /\ pc[q] = "user" /\ ends[q] = {}
  /\ ends' = [ends EXCEPT ![q] = ends[p]]
  /\ killed' = [killed EXCEPT ![q] = FALSE]
  /\ UNCHANGED <<lock, ptlock, buffer, pc, left, out>>

\* Mutant: the end is closed although other processes have it open.
LastRef_any(p, e) == TRUE

\* No other process has end e: fileclose's reference count drops to 0.
LastRef(p, e) == \A q \in Proc \ {p} : e \notin ends[q]

\* fileclose, by close or by exit: the last reference to an end closes it.
fileclose(p, e) ==
  /\ pc[p] = "user" /\ e \in ends[p]
  /\ ends' = [ends EXCEPT ![p] = @ \ {e}]
  /\ \/ LastRef(p, e) /\ Goto(p, IF e = "r" THEN "close_r" ELSE "close_w")
     \/ ~LastRef(p, e) /\ UNCHANGED pc
  /\ UNCHANGED <<lock, ptlock, buffer, left, killed, out>>

\* Mutant: closing the write end wakes nobody.
CloseWakes_none(e, p, m) == IF e = "w" THEN Goto(p, m) ELSE WakeupGoto("w_asleep", p, m)

\* pipeclose wakes the readers at the end of the stream, the writers when
\* nobody will read.
CloseWakes(e, p, m) == WakeupGoto(IF e = "w" THEN "r_asleep" ELSE "w_asleep", p, m)

\* pipeclose under p->lock.
pipeclose(p) ==
  /\ pc[p] \in {"close_r", "close_w"}
  /\ LockFree
  /\ writeopen' = (writeopen /\ pc[p] # "close_w")
  /\ readopen' = (readopen /\ pc[p] # "close_r")
  /\ CloseWakes(IF pc[p] = "close_w" THEN "w" ELSE "r", p,
                IF writeopen' \/ readopen' THEN "user" ELSE "kfree")
  /\ UNCHANGED <<lock, ptlock, data, nread, nwrite, allocated, stranded, ends, left, killed,
                 out>>

\* pipeclose after release: the page is freed.
pipefree(p) ==
  /\ pc[p] = "kfree"
  /\ allocated' = FALSE /\ stranded' = FALSE
  /\ Goto(p, "user")
  /\ UNCHANGED <<lock, ptlock, data, nread, nwrite, readopen, writeopen, ends, left,
                 killed, out>>

-----------------------------------------------------------------------------
(***************************************************************************)
(* pipewrite.                                                              *)
(***************************************************************************)

\* sys_write with n bytes, up to acquire(&p->lock).
sys_write(p, n) ==
  /\ pc[p] = "user" /\ "w" \in ends[p] /\ ~killed[p]
  /\ left' = [left EXCEPT ![p] = n]
  /\ Goto(p, "w_acquire")
  /\ UNCHANGED <<lock, ptlock, buffer, ends, killed, out>>

\* p->lock is taken, at the start and after sleep.
pipewrite_acquire(p) ==
  /\ pc[p] = "w_acquire"
  /\ LockFree
  /\ lock' = lock \cup {p}
  /\ Goto(p, "w_loop")
  /\ UNCHANGED <<ptlock, buffer, ends, left, killed, out>>

\* One turn of pipewrite's loops: copy a byte; give up; wake the readers and
\* sleep; or finish.
pipewrite(p) ==
  /\ pc[p] = "w_loop"
  /\ \/ /\ left[p] > 0 /\ ~Full
        /\ \E b \in Byte : data' = [data EXCEPT ![nwrite % PIPESIZE] = b]
        /\ nwrite' = (nwrite + 1) % WRAP
        /\ left' = [left EXCEPT ![p] = @ - 1]
        /\ UNCHANGED <<lock, pc, stranded>>
     \/ /\ left[p] > 0 /\ Full
        /\ ~readopen \/ killed[p]
        /\ left' = [left EXCEPT ![p] = 0]
        /\ lock' = lock \ {p}
        /\ Goto(p, "user")
        /\ stranded' = (stranded \/ readopen)
        /\ UNCHANGED <<data, nwrite>>
     \/ /\ left[p] > 0 /\ Full
        /\ readopen /\ ~killed[p]
        /\ WakeupGoto("r_asleep", p, "w_sleep")
        /\ UNCHANGED <<lock, data, nwrite, stranded, left>>
     \/ /\ left[p] = 0
        /\ WakeupGoto("r_asleep", p, "user")
        /\ lock' = lock \ {p}
        /\ UNCHANGED <<data, nwrite, stranded, left>>
  /\ UNCHANGED <<ptlock, nread, readopen, writeopen, allocated, ends, killed, out>>

-----------------------------------------------------------------------------
(***************************************************************************)
(* piperead.                                                               *)
(***************************************************************************)

\* sys_read of n bytes, up to acquire(&p->lock).
sys_read(p, n) ==
  /\ pc[p] = "user" /\ "r" \in ends[p] /\ ~killed[p]
  /\ left' = [left EXCEPT ![p] = n]
  /\ Goto(p, "r_acquire")
  /\ UNCHANGED <<lock, ptlock, buffer, ends, killed, out>>

\* p->lock is taken, at the start and after sleep.
piperead_acquire(p) ==
  /\ pc[p] = "r_acquire"
  /\ LockFree
  /\ lock' = lock \cup {p}
  /\ Goto(p, "r_loop")
  /\ UNCHANGED <<ptlock, buffer, ends, left, killed, out>>

\* piperead's test for an empty pipe: give up, sleep, or go on to copy.
piperead(p) ==
  /\ pc[p] = "r_loop"
  /\ \/ /\ Empty /\ writeopen /\ killed[p]
        /\ left' = [left EXCEPT ![p] = 0]
        /\ lock' = lock \ {p}
        /\ Goto(p, "user")
     \/ /\ Empty /\ writeopen /\ ~killed[p]
        /\ Goto(p, "r_sleep")
        /\ UNCHANGED <<lock, left>>
     \/ /\ ~(Empty /\ writeopen)
        /\ Goto(p, "r_copy")
        /\ UNCHANGED <<lock, left>>
  /\ UNCHANGED <<ptlock, buffer, ends, killed, out>>

\* piperead's loop: copy a byte, or wake the writers and return.
piperead_copy(p) ==
  /\ pc[p] = "r_copy"
  /\ \/ /\ left[p] > 0 /\ ~Empty
        /\ out' = [out EXCEPT ![p] = data[nread % PIPESIZE]]
        /\ nread' = (nread + 1) % WRAP
        /\ left' = [left EXCEPT ![p] = @ - 1]
        /\ UNCHANGED <<lock, pc>>
     \/ /\ left[p] = 0 \/ Empty
        /\ WakeupGoto("w_asleep", p, "user")
        /\ lock' = lock \ {p}
        /\ left' = [left EXCEPT ![p] = 0]
        /\ UNCHANGED <<out, nread>>
  /\ UNCHANGED <<ptlock, data, nwrite, readopen, writeopen, allocated, stranded, ends, killed>>

-----------------------------------------------------------------------------
(***************************************************************************)
(* sleep and kill.                                                         *)
(***************************************************************************)

\* Mutant: sleep lets p->lock go before it has ptable.lock.
SleepLocks_released(p) == lock' = lock \ {p} /\ ptlock' = ptlock

\* sleep takes ptable.lock while it still holds p->lock.
SleepLocks(p) == ptlock = {} /\ ptlock' = {p} /\ lock' = lock

\* sleep up to acquire(&ptable.lock).
sleep(p) ==
  /\ pc[p] \in {"r_sleep", "w_sleep"}
  /\ SleepLocks(p)
  /\ Goto(p, IF pc[p] = "r_sleep" THEN "r_switch" ELSE "w_switch")
  /\ UNCHANGED <<buffer, ends, left, killed, out>>

\* sleep: p->lock is released, the process is SLEEPING, and the scheduler it
\* switches to releases ptable.lock.
sleep_switch(p) ==
  /\ pc[p] \in {"r_switch", "w_switch"}
  /\ lock' = lock \ {p}
  /\ ptlock' = {}
  /\ Goto(p, IF pc[p] = "r_switch" THEN "r_asleep" ELSE "w_asleep")
  /\ UNCHANGED <<buffer, ends, left, killed, out>>

\* kill: mark the process and wake it if it sleeps.
kill(p) ==
  /\ p \in Killable /\ ~killed[p]
  /\ ptlock = {}
  /\ killed' = [killed EXCEPT ![p] = TRUE]
  /\ Goto(p, CASE pc[p] = "r_asleep" -> "r_acquire"
               [] pc[p] = "w_asleep" -> "w_acquire"
               [] OTHER -> pc[p])
  /\ UNCHANGED <<lock, ptlock, buffer, ends, left, out>>

-----------------------------------------------------------------------------
\* The steps of a process that is inside the kernel.
Inside(p) ==
  \/ pipeclose(p) \/ pipefree(p)
  \/ pipewrite_acquire(p) \/ pipewrite(p)
  \/ piperead_acquire(p) \/ piperead(p) \/ piperead_copy(p)
  \/ sleep(p) \/ sleep_switch(p)

Next ==
  \/ \E p \in Proc : pipealloc(p) \/ Inside(p) \/ kill(p)
  \/ \E p, q \in Proc : fork(p, q)
  \/ \E p \in Proc, e \in {"r", "w"} : fileclose(p, e)
  \/ \E p \in Proc, n \in 0 .. MAXN : sys_write(p, n) \/ sys_read(p, n)

Spec == Init /\ [][Next]_vars

\* A process inside the kernel goes on, and gets a spinlock that is released
\* again and again; a killed process closes its ends on its way out.
FairSpec ==
  /\ Spec
  /\ \A p \in Proc : SF_vars(Inside(p))
                     /\ WF_vars(killed[p] /\ \E e \in {"r", "w"} : fileclose(p, e))

-----------------------------------------------------------------------------
(***************************************************************************)
(* Safety.                                                                 *)
(***************************************************************************)

\* The bytes in the pipe, oldest first.
Stored == (nwrite - nread) % WRAP
Contents == [k \in 1 .. Stored |-> data[(nread + k - 1) % PIPESIZE]]

\* The circular buffer with its wrapping counters is a queue of at most PIPESIZE
\* bytes: nothing is lost, doubled, reordered or overwritten before it is read.
F == INSTANCE Fifo WITH queue <- Contents, Size <- PIPESIZE
IsFifo == F!Spec

\* A process in piperead, pipewrite or pipeclose uses a pipe that is allocated:
\* the page is freed only when no end is open and no call is in progress.
NoUseAfterFree ==
  \A p \in Proc : pc[p] # "user" \/ ends[p] # {} => allocated

\* The locks, counters and ends keep their types, and the page outlives its users.
PipeSound == TypeOK /\ NoUseAfterFree

\* Whoever sleeps has a reason to, whenever p->lock is free: readers sleep only on an
\* empty pipe that can still be written, writers only on a full pipe that can still be
\* read.  No wakeup is lost, not even to a kill.  The exception is a writer that is killed
\* when the pipe is full: it leaves at pipe.c:87 without waking the readers of its bytes.
SleepersJustified ==
  lock = {} =>
    \A p \in Proc :
      /\ pc[p] = "r_asleep" => (Empty \/ stranded) /\ writeopen
      /\ pc[p] = "w_asleep" => Full /\ readopen

(***************************************************************************)
(* Liveness.                                                               *)
(***************************************************************************)

\* Once the last write end is closed, every read returns (end of file).
EndOfFile ==
  \A p \in Proc :
    (pc[p] \in {"r_asleep", "r_acquire"} /\ allocated /\ ~writeopen) ~> pc[p] = "user"
=============================================================================
