----------------------------- MODULE BufferCache -----------------------------
(***************************************************************************)
(* The buffer cache (bio.c) on the disk driver (ide.c): the LRU list,      *)
(* waiting for busy buffers, the request queue and its interrupts.         *)
(*                                                                         *)
(* The critical sections of bcache.lock and of idelock are one step each;  *)
(* sleep gives the lock up and sleeps in one step (module Pipe looks at    *)
(* that).  A process may hold several buffers at once: write_log and       *)
(* install_trans get a home block while they hold a block of the log, bmap *)
(* and itrunc the blocks of balloc and bfree while they hold an indirect   *)
(* block (Nest).                                                           *)
(***************************************************************************)
EXTENDS Integers, Sequences, FiniteSets, SequencesExt

CONSTANTS
  Proc,     \* processes
  Buf,      \* the buffers: NBUF of them
  Block,    \* block numbers
  LogBlock, \* the blocks of the log
  Indirect, \* the indirect blocks of files
  Value,    \* contents of a block
  NoBlock,  \* dev = -1: a buffer that was never used
  MAXHOLD,  \* buffers a process holds at once
  MAXPIN,   \* buffers that the log pins at most
  MAXERR    \* blocks with a failed transfer

ASSUME BufferAssumption ==
  /\ IsFiniteSet(Proc) /\ IsFiniteSet(Buf) /\ Buf # {}
  /\ Value # {} /\ NoBlock \notin Block
  /\ LogBlock \subseteq Block /\ Indirect \subseteq Block /\ LogBlock \cap Indirect = {}
  /\ MAXHOLD \in Nat \ {0} /\ MAXPIN \in Nat /\ MAXERR \in Nat

VARIABLES
  lru,       \* the buffers, most recently used first (bcache.head.next)
  blockno, busy, valid, dirty, data,   \* fields of struct buf
  idequeue,  \* queued buffers
  device,    \* the command that the drive executes, as a sequence
  disk,
  pc,
  want,      \* argument of bget
  held,      \* buffers that a process has got from bget, the one it works on last
  chan,      \* the buffer on which a process sleeps, as a set
  failed,    \* blocks with a failed transfer (history)
  panicked

buffers == <<lru, blockno, busy, valid, dirty, data>>
drive == <<idequeue, device, disk, failed>>
vars == <<buffers, drive, pc, want, held, chan, panicked>>

Commands == [op : {"read", "write"}, block : Block \cup {NoBlock}, data : Value]

TypeOK ==
  /\ lru \in Seq(Buf) /\ Len(lru) = Cardinality(Buf)
  /\ \A b \in Buf : \E i \in 1 .. Len(lru) : lru[i] = b
  /\ blockno \in [Buf -> Block \cup {NoBlock}]
  /\ busy \in [Buf -> BOOLEAN] /\ valid \in [Buf -> BOOLEAN] /\ dirty \in [Buf -> BOOLEAN]
  /\ data \in [Buf -> Value]
  /\ idequeue \in Seq(Buf)
  /\ device \in Seq(Commands) /\ Len(device) <= 1
  /\ disk \in [Block -> Value]
  /\ pc \in [Proc -> {"run", "bget", "bsleep", "iderw", "isleep", "iwait"}]
  /\ want \in [Proc -> Block \cup {NoBlock}]
  /\ held \in [Proc -> Seq(Buf)] /\ \A p \in Proc : Len(held[p]) <= MAXHOLD
  /\ chan \in [Proc -> SUBSET Buf]
  /\ failed \subseteq Block
  /\ panicked \in BOOLEAN

\* binit: every buffer is on the list, without a block.
Init ==
  /\ lru \in {s \in [1 .. Cardinality(Buf) -> Buf] : \A b \in Buf : \E i \in DOMAIN s : s[i] = b}
  /\ blockno = [b \in Buf |-> NoBlock]
  /\ busy = [b \in Buf |-> FALSE] /\ valid = busy /\ dirty = busy
  /\ idequeue = <<>> /\ device = <<>>
  /\ \E v \in Value : disk = [k \in Block |-> v] /\ data = [b \in Buf |-> v]
  /\ pc = [p \in Proc |-> "run"]
  /\ want = [p \in Proc |-> NoBlock]
  /\ held = [p \in Proc |-> <<>>]
  /\ chan = [p \in Proc |-> {}]
  /\ failed = {}
  /\ panicked = FALSE

Goto(p, l) == pc' = [pc EXCEPT ![p] = l]
Top(p) == held[p][Len(held[p])]
Holds(p) == {held[p][i] : i \in DOMAIN held[p]}
Pinned == {b \in Buf : dirty[b] /\ ~busy[b]}

\* s without buffer b, which is unlinked from its place.
Unlink(s, b) == RemoveAt(s, CHOOSE i \in DOMAIN s : s[i] = b)

\* wakeup(b): bget and iderw sleep on the same channel.
wakeup(b) ==
  /\ pc' = [q \in Proc |-> IF b \notin chan[q] THEN pc[q]
                           ELSE IF pc[q] = "bsleep" THEN "bget" ELSE "iwait"]
  /\ chan' = [q \in Proc |-> chan[q] \ {b}]

-----------------------------------------------------------------------------
(***************************************************************************)
(* bget and bread.                                                         *)
(***************************************************************************)

\* What a block is to those who nest bread: write_log and install_trans hold a block
\* of the log when they get a home block of any kind; bmap and itrunc hold an indirect
\* block when they get the superblock, a bitmap block or a block fresh from balloc.
Level(k) == IF k \in LogBlock THEN 2 ELSE IF k \in Indirect THEN 1 ELSE 0

\* Mutant: some caller gets an indirect block while it holds another block.
Nest_any(p, k) == \A b \in Holds(p) : k # blockno[b]

\* Process p may ask for block k while it holds what it holds.
Nest(p, k) == \A b \in Holds(p) : Level(k) < Level(blockno[b])

\* The call bread(k) of process p.
bread(p, k) ==
  /\ pc[p] = "run" /\ Len(held[p]) < MAXHOLD /\ Nest(p, k)
  /\ want' = [want EXCEPT ![p] = k]
  /\ Goto(p, "bget")
  /\ UNCHANGED <<buffers, drive, held, chan, panicked>>

\* The block is in the cache, at the first of these places of the list.
CachedAt(k) == {i \in DOMAIN lru : blockno[lru[i]] = k}
Cached(k) == lru[Min(CachedAt(k))]

\* Mutants: buffers that the log has pinned are taken; only buffers that hold no
\* data are taken.
Recyclable_dirty(b) == ~busy[b]
Recyclable_invalid(b) == ~busy[b] /\ ~dirty[b] /\ ~valid[b]

\* A buffer that may get another block.
Recyclable(b) == ~busy[b] /\ ~dirty[b]

RecyclableAt == {i \in DOMAIN lru : Recyclable(lru[i])}

\* bget finds the block in a buffer that is free; bread reads it if it has to.
bget_cached(p) ==
  /\ pc[p] = "bget" /\ CachedAt(want[p]) # {}
  /\ LET b == Cached(want[p]) IN
     /\ ~busy[b]
     /\ busy' = [busy EXCEPT ![b] = TRUE]
     /\ held' = [held EXCEPT ![p] = Append(@, b)]
     /\ Goto(p, IF valid[b] THEN "run" ELSE "iderw")
  /\ want' = [want EXCEPT ![p] = NoBlock]
  /\ UNCHANGED <<lru, blockno, valid, dirty, data, drive, chan, panicked>>

\* bget finds it in a buffer that is busy.
bget_busy(p) ==
  /\ pc[p] = "bget" /\ CachedAt(want[p]) # {}
  /\ busy[Cached(want[p])]
  /\ chan' = [chan EXCEPT ![p] = {Cached(want[p])}]
  /\ Goto(p, "bsleep")
  /\ UNCHANGED <<buffers, drive, want, held, panicked>>

\* bget takes the least recently used buffer that is clean and free; its flags
\* become B_BUSY, so that bread reads it.
bget_recycle(p) ==
  /\ pc[p] = "bget" /\ CachedAt(want[p]) = {} /\ RecyclableAt # {}
  /\ LET b == lru[Max(RecyclableAt)] IN
     /\ blockno' = [blockno EXCEPT ![b] = want[p]]
     /\ busy' = [busy EXCEPT ![b] = TRUE]
     /\ valid' = [valid EXCEPT ![b] = FALSE]
     /\ dirty' = [dirty EXCEPT ![b] = FALSE]
     /\ held' = [held EXCEPT ![p] = Append(@, b)]
  /\ want' = [want EXCEPT ![p] = NoBlock]
  /\ Goto(p, "iderw")
  /\ UNCHANGED <<lru, data, drive, chan, panicked>>

\* panic("bget: no buffers")
bget_panic(p) ==
  /\ pc[p] = "bget" /\ CachedAt(want[p]) = {} /\ RecyclableAt = {}
  /\ panicked' = TRUE
  /\ UNCHANGED <<buffers, drive, pc, want, held, chan>>

-----------------------------------------------------------------------------
(***************************************************************************)
(* Changing and releasing a buffer.                                        *)
(***************************************************************************)

\* The holder changes the data of one of its buffers, which need not be the one that
\* it got last (write_log writes the block of the log that it got first).
Change(p, b, v) ==
  /\ pc[p] = "run" /\ b \in Holds(p)
  /\ data' = [data EXCEPT ![b] = v]
  /\ dirty' = [dirty EXCEPT ![b] = TRUE]
  /\ held' = [held EXCEPT ![p] = Append(Unlink(@, b), b)]
  /\ UNCHANGED <<lru, blockno, busy, valid, drive, want, chan, panicked>>

\* ... and calls bwrite,
bwrite(p, b, v) == Change(p, b, v) /\ Goto(p, "iderw")

\* ... or log_write, which pins the buffer.
log_write(p, b, v) ==
  /\ Cardinality({c \in Buf : dirty[c]} \cup {b}) <= MAXPIN
  /\ Change(p, b, v)
  /\ UNCHANGED pc

\* Mutant: the wakeup is forgotten.
BrelseWakes_none(b) == UNCHANGED <<pc, chan>>

BrelseWakes(b) == wakeup(b)

\* brelse moves the buffer to the head of the list.
ToFront(b) == <<b>> \o Unlink(lru, b)

brelse(p, b) ==
  /\ pc[p] = "run" /\ b \in Holds(p)
  /\ lru' = ToFront(b)
  /\ busy' = [busy EXCEPT ![b] = FALSE]
  /\ held' = [held EXCEPT ![p] = Unlink(@, b)]
  /\ BrelseWakes(b)
  /\ UNCHANGED <<blockno, valid, dirty, data, drive, want, panicked>>

-----------------------------------------------------------------------------
(***************************************************************************)
(* ide.c.                                                                  *)
(***************************************************************************)

\* idestart: the drive gets the command, and the data of a write at once.
idestart(b) ==
  <<[op |-> IF dirty[b] THEN "write" ELSE "read", block |-> blockno[b], data |-> data[b]]>>

\* iderw starts the drive only if its request is the first.
StartNow(b) == IF idequeue = <<>> THEN idestart(b) ELSE device

\* iderw: queue the buffer, start the drive, sleep (or panic: "nothing to do").
iderw(p) ==
  /\ pc[p] = "iderw"
  /\ panicked' = (valid[Top(p)] /\ ~dirty[Top(p)])
  /\ device' = StartNow(Top(p))
  /\ idequeue' = Append(idequeue, Top(p))
  /\ chan' = [chan EXCEPT ![p] = {Top(p)}]
  /\ Goto(p, "isleep")
  /\ UNCHANGED <<buffers, disk, failed, want, held>>

\* Mutant: iderw sleeps once instead of testing the flags again.
Synced_once(b) == TRUE

Synced(b) == valid[b] /\ ~dirty[b]

\* iderw's test of the flags after a wakeup.
iderw_wait(p) ==
  /\ pc[p] = "iwait"
  /\ \/ Synced(Top(p)) /\ Goto(p, "run") /\ UNCHANGED chan
     \/ /\ ~Synced(Top(p))
        /\ chan' = [chan EXCEPT ![p] = {Top(p)}]
        /\ Goto(p, "isleep")
  /\ UNCHANGED <<buffers, drive, want, held, panicked>>

\* The drive finishes its command, with or without an error, and ideintr runs.
\* An error of a read leaves the buffer as it was; an error of a write is not
\* looked at.  Either way the buffer is now valid and clean.
ideintr(ok) ==
  /\ idequeue # <<>> /\ device # <<>>
  /\ LET b == Head(idequeue)
         cmd == device[1]
     IN
     /\ data' = [data EXCEPT ![b] = IF ~dirty[b] /\ ok THEN disk[cmd.block] ELSE @]
     /\ disk' = IF cmd.op = "write" /\ ok THEN [disk EXCEPT ![cmd.block] = cmd.data] ELSE disk
     /\ failed' = IF ok THEN failed ELSE failed \cup {cmd.block}
     /\ Cardinality(failed') <= MAXERR
     /\ valid' = [valid EXCEPT ![b] = TRUE]
     /\ dirty' = [dirty EXCEPT ![b] = FALSE]
     /\ wakeup(b)
  /\ idequeue' = Tail(idequeue)
  /\ device' = IF idequeue' = <<>> THEN <<>> ELSE idestart(Head(idequeue'))
  /\ UNCHANGED <<lru, blockno, busy, want, held, panicked>>

\* kill wakes a process that sleeps; both loops test again.
kill(p) ==
  /\ pc[p] \in {"bsleep", "isleep"}
  /\ Goto(p, IF pc[p] = "bsleep" THEN "bget" ELSE "iwait")
  /\ chan' = [chan EXCEPT ![p] = {}]
  /\ UNCHANGED <<buffers, drive, want, held, panicked>>

-----------------------------------------------------------------------------
\* The steps that bread and bwrite take by themselves.
Inside(p) ==
  bget_cached(p) \/ bget_busy(p) \/ bget_recycle(p) \/ bget_panic(p) \/ iderw(p) \/ iderw_wait(p)

Running ==
  \/ \E p \in Proc : Inside(p) \/ kill(p)
  \/ \E p \in Proc, k \in Block : bread(p, k)
  \/ \E p \in Proc, b \in Buf, v \in Value : bwrite(p, b, v) \/ log_write(p, b, v)
  \/ \E p \in Proc, b \in Buf : brelse(p, b)
  \/ \E ok \in BOOLEAN : ideintr(ok)

\* After a panic nothing moves.
Next ==
  \/ ~panicked /\ Running
  \/ panicked /\ UNCHANGED vars

Spec == Init /\ [][Next]_vars

-----------------------------------------------------------------------------
(***************************************************************************)
(* Safety.                                                                 *)
(***************************************************************************)

\* A block has one buffer at most, and a buffer one holder: bget searches and
\* recycles under one acquisition of bcache.lock.
OneBufferPerBlock ==
  /\ \A b, c \in Buf : blockno[b] = blockno[c] /\ b # c => blockno[b] = NoBlock
  /\ \A b \in Buf : Cardinality({p \in Proc : b \in Holds(p)}) = IF busy[b] THEN 1 ELSE 0

\* The blocks as the callers of bread see them.
Content ==
  [k \in Block |-> IF \E b \in Buf : blockno[b] = k /\ valid[b]
                   THEN data[CHOOSE b \in Buf : blockno[b] = k /\ valid[b]] ELSE disk[k]]

\* Cache, queue and drive together are a store of blocks: what bread returns is
\* what was written last, whatever was recycled or queued meanwhile; only blocks
\* whose transfer has failed (a failed read is taken for valid) may differ.
Holder == [k \in Block |-> {p \in Proc : \E b \in Holds(p) : blockno[b] = k}]
B == INSTANCE BlockStore WITH content <- Content, holder <- Holder
IsBlockStore == B!Spec

\* A process that goes on with a buffer it holds finds valid data in it: nobody
\* uses a buffer before its transfer is done, although wakeups come early.
HeldIsValid ==
  \A p \in Proc : pc[p] = "run" => \A b \in Holds(p) : valid[b]

\* The drive works on the first request of the queue and on no other, with the
\* data that the buffer has now: requests are neither mixed up nor overtaken.
DriveServesHead ==
  /\ device = <<>> <=> idequeue = <<>>
  /\ idequeue # <<>> => device = idestart(Head(idequeue))

\* Process p sleeps in bget until q releases a buffer.
WaitsFor(p, q) == pc[p] = "bsleep" /\ chan[p] \subseteq Holds(q)

\* Whoever waits for a buffer has a holder to release it, whoever waits for a
\* transfer is in the queue, so that the wakeups that bget and the driver share are
\* not lost; and in every group of processes there is one that waits for none of the
\* group, so that processes that hold buffers and wait for more (write_log under a
\* block of the log, balloc under an indirect block) never wait in a circle.
SleepersHaveWaker ==
  /\ \A p \in Proc :
       /\ pc[p] = "bsleep" => \E q \in Proc : WaitsFor(p, q)
       /\ pc[p] = "isleep" /\ ~panicked => \E i \in DOMAIN idequeue : chan[p] = {idequeue[i]}
  /\ \A S \in (SUBSET Proc) \ {{}} : \E p \in S : \A q \in S : ~WaitsFor(p, q)

\* bget runs out of buffers only when the log's pins and the buffers that the
\* processes hold really make up the whole cache: none is lost on the way.
PanicOnlyWhenFull ==
  panicked => \A b \in Buf : b \in Pinned \/ \E p \in Proc : b \in Holds(p)

\* The cache is consistent: one buffer per block, valid for its holder, written or read by
\* the drive in the order of the queue.
CacheSound == TypeOK /\ OneBufferPerBlock /\ HeldIsValid /\ DriveServesHead
=============================================================================
