-------------------------------- MODULE Log ---------------------------------
(***************************************************************************)
(* The redo log of log.c, with the parts of the buffer cache (bio.c) and   *)
(* of the disk (ide.c) that its correctness rests on.                      *)
(*                                                                         *)
(* A process calls begin_op, modifies blocks and records each with         *)
(* log_write, and calls end_op.  The last end_op commits: it copies the    *)
(* cached blocks to the log, writes the header (the commit point),         *)
(* installs the blocks at home and erases the header.  The machine may     *)
(* stop between any two disk writes; initlog then replays the header.      *)
(*                                                                         *)
(* A section of code under log.lock is one action; so is one synchronous   *)
(* write of one disk block (a block is one sector).  The limit test of     *)
(* log_write runs before the lock is taken and is a step of its own.       *)
(***************************************************************************)
EXTENDS Integers, Sequences, FiniteSets

CONSTANTS
  Proc,         \* processes that make file system calls
  Val,          \* contents of a block
  MAXOPBLOCKS,  \* param.h: blocks a call is assumed to write
  LOGSIZE,      \* param.h: entries of log.lh.block[]
  NLOG,         \* log.size, from sb.nlog: blocks of the on-disk log, header included
  LOGSTART,     \* log.start: block number of the header
  FSSIZE,       \* blocks of the disk
  OpBlocks      \* distinct blocks a call really writes, at most

ASSUME LogAssumption ==
  /\ IsFiniteSet(Proc)
  /\ Val # {}
  /\ MAXOPBLOCKS \in Nat \ {0}
  /\ LOGSIZE \in Nat /\ MAXOPBLOCKS <= LOGSIZE
  /\ NLOG \in Nat \ {0}
  /\ LOGSTART \in Nat
  /\ FSSIZE \in Nat /\ LOGSTART + NLOG < FSSIZE
  /\ OpBlocks \in Nat

\* The disk after the header: the blocks of the log, then (from inodestart on)
\* the blocks of the file system.
Blocks == (LOGSTART + 1) .. (FSSIZE - 1)
Home == (LOGSTART + NLOG) .. (FSSIZE - 1)

\* The log block that holds entry tail, as in bread(log.dev, log.start+tail+1).
Slot(t) == LOGSTART + t + 1

VARIABLES
  disk,         \* contents of Blocks on the disk
  head,         \* the on-disk header: its first n block numbers
  cache,        \* what bread returns for each block
  dirty,        \* blocks whose buffer has B_DIRTY
  lh,           \* log.lh: the first log.lh.n block numbers
  outstanding,  \* log.outstanding
  committing,   \* log.committing
  mode,         \* "off", "recovering" or "up"
  panicked,     \* the last panic, or "no"
  pc,           \* where each process is
  tail,         \* the loop variable of write_log and install_trans
  busy,         \* the buffer a process hands to log_write, as a set
  wrote         \* the distinct blocks the current call has written

vars == <<disk, head, cache, dirty, lh, outstanding, committing, mode,
          panicked, pc, tail, busy, wrote>>

PCs == {"user", "begin", "sleep", "op", "logging", "write_log", "write_head",
        "install", "erase", "finish", "panic", "r_install", "r_erase"}

Panics == {"no", "too big a transaction", "log_write outside of trans",
           "log.committing"}

TypeOK ==
  /\ disk \in [Blocks -> Val]
  /\ head \in Seq(Home)
  /\ cache \in [Blocks -> Val]
  /\ dirty \subseteq Blocks
  /\ lh \in Seq(Home)
  /\ outstanding \in Nat
  /\ committing \in BOOLEAN
  /\ mode \in {"off", "recovering", "up"}
  /\ panicked \in Panics
  /\ pc \in [Proc -> PCs]
  /\ tail \in [Proc -> Nat]
  /\ busy \in [Proc -> SUBSET Home]
  /\ wrote \in [Proc -> SUBSET Home]

\* The blocks recorded in a header.
Logged(h) == {h[i] : i \in DOMAIN h}

\* The kernel runs.  panic stops the CPU it happens on and, later, those that
\* print; the others go on, unless the panic was under log.lock.
Running == mode = "up" /\ panicked # "log.committing"

Goto(p, l) == pc' = [pc EXCEPT ![p] = l]

\* Mutant: the wakeup is forgotten.
WakeupGoto_forgotten(p, l) == Goto(p, l)

\* wakeup(&log), then process p goes on at l.
WakeupGoto(p, l) ==
  pc' = [q \in Proc |-> IF q = p THEN l
                        ELSE IF pc[q] = "sleep" THEN "begin" ELSE pc[q]]

Init ==
  /\ disk \in [Blocks -> Val]
  /\ head = <<>>
  /\ cache = disk
  /\ dirty = {}
  /\ lh = <<>>
  /\ outstanding = 0
  /\ committing = FALSE
  /\ mode = "off"
  /\ panicked = "no"
  /\ pc = [p \in Proc |-> "user"]
  /\ tail = [p \in Proc |-> 0]
  /\ busy = [p \in Proc |-> {}]
  /\ wrote = [p \in Proc |-> {}]

-----------------------------------------------------------------------------
(***************************************************************************)
(* Transactions.                                                           *)
(***************************************************************************)

\* Mutants: a call may join while a commit runs; the new call is not counted.
BeginWaits_committing == Len(lh) + (outstanding + 1) * MAXOPBLOCKS > LOGSIZE
BeginWaits_self == committing \/ Len(lh) + outstanding * MAXOPBLOCKS > LOGSIZE

\* The two tests that make begin_op sleep.
BeginWaits == committing \/ Len(lh) + (outstanding + 1) * MAXOPBLOCKS > LOGSIZE

\* log.outstanding after a call has joined.
Joined == outstanding + 1

\* One turn of begin_op's loop: sleep on &log, or join the transaction.
begin_op(p) ==
  /\ Running
  /\ pc[p] \in {"user", "begin"}
  /\ \/ /\ BeginWaits
        /\ Goto(p, "sleep")
        /\ UNCHANGED <<outstanding, wrote>>
     \/ /\ ~BeginWaits
        /\ outstanding' = Joined
        /\ wrote' = [wrote EXCEPT ![p] = {}]
        /\ Goto(p, "op")
  /\ UNCHANGED <<disk, head, cache, dirty, lh, committing, mode, panicked,
                 tail, busy>>

\* kill: a process asleep in begin_op becomes RUNNABLE and tests again.
kill(p) ==
  /\ Running
  /\ pc[p] = "sleep"
  /\ Goto(p, "begin")
  /\ UNCHANGED <<disk, head, cache, dirty, lh, outstanding, committing, mode,
                 panicked, tail, busy, wrote>>

\* log_write's tests, made before log.lock is taken.
LogWritePanic ==
  IF Len(lh) >= LOGSIZE \/ Len(lh) >= NLOG - 1 THEN "too big a transaction"
  ELSE IF outstanding < 1 THEN "log_write outside of trans"
  ELSE "no"

\* A call has bread block b, changes its data to v and enters log_write.
log_write(p, b, v) ==
  /\ Running
  /\ pc[p] = "op"
  /\ b \in wrote[p] \/ Cardinality(wrote[p]) < OpBlocks
  /\ \A q \in Proc : b \notin busy[q]
  /\ cache' = [cache EXCEPT ![b] = v]
  /\ busy' = [busy EXCEPT ![p] = {b}]
  /\ wrote' = [wrote EXCEPT ![p] = @ \cup {b}]
  /\ panicked' = IF LogWritePanic = "no" THEN panicked ELSE LogWritePanic
  /\ Goto(p, IF LogWritePanic = "no" THEN "logging" ELSE "panic")
  /\ UNCHANGED <<disk, head, dirty, lh, outstanding, committing, mode, tail>>

\* The rest of log_write, under log.lock: absorb or append the block number,
\* pin the buffer with B_DIRTY.  The caller's brelse follows.
log_write_locked(p) ==
  /\ Running
  /\ pc[p] = "logging"
  /\ \E b \in busy[p] :
       /\ lh' = IF b \in Logged(lh) THEN lh ELSE Append(lh, b)
       /\ dirty' = dirty \cup {b}
  /\ busy' = [busy EXCEPT ![p] = {}]
  /\ Goto(p, "op")
  /\ UNCHANGED <<disk, head, cache, outstanding, committing, mode, panicked,
                 tail, wrote>>

\* Mutant: a transaction of one block is not committed.
NeedsCommit_one == Len(lh) > 1

\* commit's test for a transaction that wrote something.
NeedsCommit == Len(lh) > 0

\* end_op up to its first release; the last call out starts commit().
end_op(p) ==
  /\ Running
  /\ pc[p] = "op"
  /\ outstanding' = outstanding - 1
  /\ panicked' = IF committing THEN "log.committing" ELSE panicked
  /\ wrote' = [wrote EXCEPT ![p] = {}]
  /\ \/ /\ outstanding' = 0
        /\ committing' = TRUE
        /\ Goto(p, IF NeedsCommit THEN "write_log" ELSE "finish")
     \/ /\ outstanding' # 0
        /\ WakeupGoto(p, "user")
        /\ UNCHANGED committing
  /\ UNCHANGED <<disk, head, cache, dirty, lh, mode, tail, busy>>

\* write_log: copy one cached block to its log block, or leave the loop.  The
\* log block is held while the cached block is read, so they must differ.
write_log(p) ==
  /\ Running
  /\ pc[p] = "write_log"
  /\ \/ /\ tail[p] < Len(lh)
        /\ LET to == Slot(tail[p])
               from == lh[tail[p] + 1]
           IN  /\ to # from
               /\ cache' = [cache EXCEPT ![to] = cache[from]]
               /\ disk' = [disk EXCEPT ![to] = cache[from]]
               /\ dirty' = dirty \ {to}
        /\ tail' = [tail EXCEPT ![p] = @ + 1]
        /\ UNCHANGED pc
     \/ /\ tail[p] >= Len(lh)
        /\ tail' = [tail EXCEPT ![p] = 0]
        /\ Goto(p, "write_head")
        /\ UNCHANGED <<cache, disk, dirty>>
  /\ UNCHANGED <<head, lh, outstanding, committing, mode, panicked, busy, wrote>>

\* Mutant: the header is not written before the blocks are installed.
write_head_skipped(p) ==
  /\ Running
  /\ pc[p] = "write_head"
  /\ Goto(p, "install")
  /\ UNCHANGED <<disk, head, cache, dirty, lh, outstanding, committing, mode,
                 panicked, tail, busy, wrote>>

\* write_head with the transaction in it: the commit point.
write_head(p) ==
  /\ Running
  /\ pc[p] = "write_head"
  /\ head' = lh
  /\ Goto(p, "install")
  /\ UNCHANGED <<disk, cache, dirty, lh, outstanding, committing, mode,
                 panicked, tail, busy, wrote>>

\* install_trans, for commit and for recovery: copy one log block home (bwrite
\* clears B_DIRTY), or leave the loop.
install_trans(p) ==
  /\ \/ Running /\ pc[p] = "install"
     \/ mode = "recovering" /\ pc[p] = "r_install"
  /\ \/ /\ tail[p] < Len(lh)
        /\ LET from == Slot(tail[p])
               to == lh[tail[p] + 1]
           IN  /\ to # from
               /\ cache' = [cache EXCEPT ![to] = cache[from]]
               /\ disk' = [disk EXCEPT ![to] = cache[from]]
               /\ dirty' = dirty \ {to}
        /\ tail' = [tail EXCEPT ![p] = @ + 1]
        /\ UNCHANGED pc
     \/ /\ tail[p] >= Len(lh)
        /\ tail' = [tail EXCEPT ![p] = 0]
        /\ Goto(p, IF pc[p] = "install" THEN "erase" ELSE "r_erase")
        /\ UNCHANGED <<cache, disk, dirty>>
  /\ UNCHANGED <<head, lh, outstanding, committing, mode, panicked, busy, wrote>>

\* commit's end: log.lh.n = 0 and write_head.
erase(p) ==
  /\ Running
  /\ pc[p] = "erase"
  /\ lh' = <<>>
  /\ head' = <<>>
  /\ Goto(p, "finish")
  /\ UNCHANGED <<disk, cache, dirty, outstanding, committing, mode, panicked,
                 tail, busy, wrote>>

\* end_op after commit: clear committing and wake the waiting calls.
end_commit(p) ==
  /\ Running
  /\ pc[p] = "finish"
  /\ committing' = FALSE
  /\ WakeupGoto(p, "user")
  /\ UNCHANGED <<disk, head, cache, dirty, lh, outstanding, mode, panicked,
                 tail, busy, wrote>>

-----------------------------------------------------------------------------
(***************************************************************************)
(* The buffer cache, crashes and recovery.                                 *)
(***************************************************************************)

\* Mutant: bget takes a dirty buffer.
Recyclable_dirty(b) == \A q \in Proc : b \notin busy[q]

\* The buffers bget may take for another block: neither busy nor dirty.
Recyclable(b) == b \notin dirty /\ \A q \in Proc : b \notin busy[q]

\* bget recycles the buffer of b; the next bread of b reads the disk.
bget_recycle(b) ==
  /\ Running
  /\ Recyclable(b)
  /\ cache' = [cache EXCEPT ![b] = disk[b]]
  /\ UNCHANGED <<disk, head, dirty, lh, outstanding, committing, mode,
                 panicked, pc, tail, busy, wrote>>

\* Power is lost (or a panicked machine is reset): memory is gone.
Crash ==
  /\ mode # "off"
  /\ mode' = "off"
  /\ panicked' = "no"
  /\ cache' = disk
  /\ dirty' = {}
  /\ lh' = <<>>
  /\ outstanding' = 0
  /\ committing' = FALSE
  /\ pc' = [p \in Proc |-> "user"]
  /\ tail' = [p \in Proc |-> 0]
  /\ busy' = [p \in Proc |-> {}]
  /\ wrote' = [p \in Proc |-> {}]
  /\ UNCHANGED <<disk, head>>

\* initlog, in the first process: read_head starts recover_from_log.
initlog(p) ==
  /\ mode = "off"
  /\ mode' = "recovering"
  /\ lh' = head
  /\ Goto(p, "r_install")
  /\ UNCHANGED <<disk, head, cache, dirty, outstanding, committing, panicked,
                 tail, busy, wrote>>

\* The end of recover_from_log: the log is cleared and the system starts.
recover_erase(p) ==
  /\ mode = "recovering"
  /\ pc[p] = "r_erase"
  /\ lh' = <<>>
  /\ head' = <<>>
  /\ mode' = "up"
  /\ Goto(p, "user")
  /\ UNCHANGED <<disk, cache, dirty, outstanding, committing, panicked, tail,
                 busy, wrote>>

-----------------------------------------------------------------------------
Next ==
  \/ \E p \in Proc :
       \/ begin_op(p)
       \/ kill(p)
       \/ log_write_locked(p)
       \/ end_op(p)
       \/ write_log(p)
       \/ write_head(p)
       \/ install_trans(p)
       \/ erase(p)
       \/ end_commit(p)
       \/ initlog(p)
       \/ recover_erase(p)
  \/ \E p \in Proc, b \in Home, v \in Val : log_write(p, b, v)
  \/ \E b \in Blocks : bget_recycle(b)
  \/ Crash

Spec == Init /\ [][Next]_vars

\* A process inside the log code keeps running (the scheduler visits every
\* runnable process) and a call makes finitely many log_writes before end_op.
\* A new call, a kill and a crash need never happen.
Fairness ==
  \A p \in Proc :
    /\ WF_vars(pc[p] = "begin" /\ begin_op(p))
    /\ WF_vars(log_write_locked(p))
    /\ SF_vars(end_op(p))
    /\ WF_vars(write_log(p) \/ write_head(p) \/ install_trans(p) \/ erase(p)
               \/ end_commit(p) \/ recover_erase(p))

FairSpec == Spec /\ Fairness

-----------------------------------------------------------------------------
(***************************************************************************)
(* Safety.                                                                 *)
(***************************************************************************)

\* Processes between begin_op and end_op, and those in the commit part of end_op.
Active == {p \in Proc : pc[p] \in {"op", "logging", "panic"}}
Committers ==
  {p \in Proc : pc[p] \in {"write_log", "write_head", "install", "erase", "finish"}}

\* The file system a reboot would find: the home blocks, with the blocks of a
\* committed but not yet erased transaction taken from the log.
Recovered ==
  [b \in Home |-> IF b \in Logged(head)
                  THEN disk[Slot((CHOOSE i \in DOMAIN head : head[i] = b) - 1)]
                  ELSE disk[b]]

\* The file system as the running kernel sees it.
Seen == IF mode = "up" THEN [b \in Home |-> cache[b]] ELSE Recovered

\* Crash atomicity: begin_op, log_write, end_op, commit and recovery implement
\* AtomicDisk.  In particular every disk write of commit() but the header's,
\* and every step of recovery, leaves what a reboot would find unchanged, and
\* the header's write makes all the completed calls durable at once.
AD == INSTANCE AtomicDisk
        WITH mem <- Seen, durable <- Recovered, active <- Active
CrashAtomic == AD!Spec

\* The log blocks suffice: lh.block[] is not overrun and no log block lies
\* beyond the on-disk log, where it would overwrite an inode block.
LogFits == Len(lh) <= LOGSIZE /\ Len(lh) <= NLOG - 1

\* Once the last call has returned from end_op, what it wrote survives a crash.
QuiescentIsDurable ==
  Running /\ outstanding = 0 /\ ~committing => Seen = Recovered

\* A commit runs in exactly one process and while no call is in progress, so
\* that it never copies the updates of an unfinished call.
CommitsAlone ==
  /\ committing => Active = {} /\ \E p \in Proc : Committers = {p}
  /\ ~committing => Committers = {}

\* Of log.c's panics only "too big a transaction" can be reached.
AssertionsHold == panicked \in {"no", "too big a transaction"}

\* log_write never panics for lack of space.
NoTooBig == panicked # "too big a transaction"

\* Where calls write less than MAXOPBLOCKS blocks, as here, the space that begin_op
\* reserves is enough: the log is not overrun, although log_write tests its limit without
\* the lock, and log_write never panics.  (Calls that write MAXOPBLOCKS blocks, as
\* param.h allows, overrun the log of mkfs: LogFits.)
SpaceIsThere == LogFits /\ NoTooBig

\* No lost wakeup: while a process sleeps in begin_op, a call is in progress or
\* a commit is, and its end_op (unless it panics) will wake the sleeper.
SleeperHasWaker ==
  (\E p \in Proc : pc[p] = "sleep") => committing \/ outstanding > 0

\* log_write's limit, and the calls that begin_op lets in at most at a time.
Room == IF LOGSIZE <= NLOG - 1 THEN LOGSIZE ELSE NLOG - 1
MaxCalls == LOGSIZE \div MAXOPBLOCKS

\* However many blocks the calls write: log_write's test, made without the lock, lets in
\* at most one block for each call in progress beyond the last one that fits.  With
\* param.h's constants and the log of mkfs, lh and the log on the disk get 31 blocks at
\* most, one more than lh.block[] has and two more than the log on the disk.
OverrunBounded == Len(lh) <= Room - 1 + MaxCalls

\* The commit protocol: commits run alone, log.c's assertions hold, whoever sleeps in
\* begin_op has somebody to wake it, and a transaction outgrows the log by a few blocks
\* at most.
LogInv == TypeOK /\ CommitsAlone /\ AssertionsHold /\ SleeperHasWaker /\ OverrunBounded

\* Write-ahead rule: a home block is overwritten only when the header on the
\* disk already lists it, so that a crash in the middle can be repaired.
WriteAhead ==
  [][\A b \in Home : disk'[b] # disk[b] => b \in Logged(head)]_vars

(***************************************************************************)
(* Liveness.                                                               *)
(***************************************************************************)

\* A process asleep in begin_op is woken again, by end_op or by the end of a commit.
SleepersWake == \A p \in Proc : pc[p] = "sleep" ~> pc[p] # "sleep"
=============================================================================
