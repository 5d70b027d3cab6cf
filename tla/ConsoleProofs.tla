---------------------------- MODULE ConsoleProofs ---------------------------
(***************************************************************************)
(* Proofs about Console, for every number of processors and processes,     *)
(* every size of the input ring and every multiple of it at which its      *)
(* indices wrap around: interrupts are off exactly where they have to be,  *)
(* locks are taken in one order, nobody sleeps while there is input, and   *)
(* the ring is the line input that readers expect.                         *)
(***************************************************************************)
EXTENDS Console, SequenceTheorems, TLAPS

(***************************************************************************)
(* The arithmetic of a ring buffer whose counters wrap around: a byte lies *)
(* at its counter modulo the size m of the buffer, and counters are kept   *)
(* modulo W, a multiple of m.                                              *)
(***************************************************************************)

\* A remainder lies below its modulus.
LEMMA ModRange ==
  ASSUME NEW m \in Nat \ {0}, NEW a \in Int
  PROVE  a % m \in 0 .. m - 1
  OBVIOUS

\* A remainder is determined by any division with a remainder below the modulus.
LEMMA ModIs ==
  ASSUME NEW m \in Nat \ {0}, NEW q \in Int, NEW x \in 0 .. m - 1,
         NEW a \in Int, a = m * q + x
  PROVE  a % m = x
  OBVIOUS

\* Adding a multiple of the modulus, as a counter that wraps around does, leaves the
\* place in the buffer alone.
LEMMA ModPlus ==
  ASSUME NEW m \in Nat \ {0}, NEW v \in Nat, v % m = 0, NEW a \in Nat
  PROVE  (a + v) % m = a % m
  <1> DEFINE q == a \div m
             k == v \div m
             x == a % m
             s == q + k
  <1>1. q \in Int /\ k \in Int /\ s \in Int
    OBVIOUS
  <1>2. a = m * q + x /\ v = m * k
    OBVIOUS
  <1>3. x \in 0 .. m - 1
    BY ModRange
  <1>4. m * s = m * q + m * k
    BY <1>1
  <1>5. a + v \in Int
    OBVIOUS
  <1> HIDE DEF q, k, x, s
  <1>6. a + v = m * s + x
    <2> DEFINE mq == m * q
               mk == m * k
               ms == m * s
    <2>1. mq \in Int /\ mk \in Int /\ ms \in Int
      BY <1>1
    <2>2. ms = mq + mk /\ a = mq + x /\ v = mk
      BY <1>2, <1>4
    <2> HIDE DEF mq, mk, ms
    <2>3. a + v = ms + x
      BY <2>1, <2>2, <1>3
    <2> QED
      BY <2>3 DEF ms
  <1> DEFINE c == a + v
  <1>7. c \in Int /\ c = m * s + x
    BY <1>5, <1>6
  <1> HIDE DEF c
  <1>8. c % m = x
    BY <1>1, <1>3, <1>7, ModIs
  <1> QED
    BY <1>8 DEF c, x

\* Two numbers less than a modulus apart have different remainders: bytes that are in
\* the buffer together lie in different places.
LEMMA ModDistinct ==
  ASSUME NEW m \in Nat \ {0}, NEW a \in Nat, NEW b \in Nat, a < b, b < a + m
  PROVE  a % m # b % m
  <1> DEFINE q == a \div m
             k == b \div m
  <1>1. q \in Int /\ k \in Int
    OBVIOUS
  <1>2. a = m * q + (a % m) /\ b = m * k + (b % m)
    OBVIOUS
  <1>3. a % m \in 0 .. m - 1 /\ b % m \in 0 .. m - 1
    BY ModRange
  <1> HIDE DEF q, k
  <1> SUFFICES ASSUME a % m = b % m PROVE FALSE
    OBVIOUS
  <1>4. q < k => m * q + m <= m * k
    BY <1>1
  <1>5. k <= q => m * k <= m * q
    BY <1>1
  <1> QED
    BY <1>1, <1>2, <1>3, <1>4, <1>5

\* The difference of two counters, either of which may have wrapped around.
LEMMA Gap ==
  ASSUME NEW W \in Nat \ {0}, NEW u \in 0 .. W - 1, NEW v \in 0 .. W - 1
  PROVE  (v - u) % W = IF u <= v THEN v - u ELSE v - u + W
  <1>1. CASE u <= v
    BY <1>1
  <1>2. CASE v < u
    <2> DEFINE a == v - u
               x == a + W
    <2>1. a \in Int /\ x \in 0 .. W - 1 /\ a = W * (0 - 1) + x
      BY <1>2
    <2> HIDE DEF a, x
    <2>2. a % W = x
      BY <2>1, ModIs
    <2> QED
      BY <1>2, <2>2 DEF a, x
  <1> QED
    BY <1>1, <1>2

\* A counter that is advanced by at most W wraps around once at most.
LEMMA Advance ==
  ASSUME NEW W \in Nat \ {0}, NEW u \in 0 .. W - 1, NEW d \in 0 .. W
  PROVE  (u + d) % W = IF u + d < W THEN u + d ELSE u + d - W
  <1>1. CASE u + d < W
    BY <1>1
  <1>2. CASE u + d >= W
    <2> DEFINE a == u + d
               x == a - W
    <2>1. a \in Int /\ x \in 0 .. W - 1 /\ a = W * 1 + x
      BY <1>2
    <2> HIDE DEF a, x
    <2>2. a % W = x
      BY <2>1, ModIs
    <2> QED
      BY <1>2, <2>2 DEF a, x
  <1> QED
    BY <1>1, <1>2

(***************************************************************************)
(* Control: processors, processes, locks and interrupt flags.  Where a     *)
(* processor is determines everything about its locks and its flag.        *)
(***************************************************************************)

ProcPCs == {"user", "read", "write", "reread", "reading", "writing", "sleep", "sleeping",
            "sched", "idle", "resched", "scan"}
HandlerPCs == {"kbd", "getc", "wakeup", "waking", "dump", "dumping", "timer", "ticking",
               "tick", "yield", "yielding", "sched", "iret"}
AcquirePCs == {"read", "write", "reread", "kbd", "dump", "sleep", "resched", "wakeup",
               "timer", "yield"}
ConsPCs == {"reading", "writing", "sleep", "sleeping", "getc", "wakeup", "waking", "dumping"}
PtablePCs == {"sleeping", "sched", "scan", "waking", "ticking", "yielding"}
InterruptiblePCs == {"user", "read", "write", "reread", "idle", "resched"}
SchedulerPCs == {"idle", "resched", "scan"}

\* Where sched leaves a process: in sleep, or in the handler that has yielded.
Contexts == [pc : {"user", "read", "write", "reread"}, ipc : {"none", "iret"},
             intena : BOOLEAN]

ControlTyped ==
  /\ lock \in [Locks -> Cpus \cup {NoCpu}]
  /\ eflags \in [Cpus -> BOOLEAN] /\ intena \in [Cpus -> BOOLEAN]
  /\ ncli \in [Cpus -> Int]
  /\ proc \in [Cpus -> Procs \cup {NoProc}]
  /\ pc \in [Cpus -> ProcPCs]
  /\ ipc \in [Cpus -> HandlerPCs \cup {"none"}]
  /\ spin \in [Cpus -> {"cons", "ptable", "none"}]
  /\ pstate \in [Procs -> {"RUNNING", "SLEEPING", "RUNNABLE"}]
  /\ saved \in [Procs -> Contexts]
  /\ left \in [Procs -> Nat] /\ target \in [Procs -> Nat]
  /\ \A p \in Procs : left[p] <= target[p]

\* A processor holds the locks that its place in the code says, and interrupts only
\* code that holds none.
LocksHeld ==
  /\ \A c \in Cpus : lock["cons"] = c <=> top(c) \in ConsPCs
  /\ \A c \in Cpus : lock["ptable"] = c <=> top(c) \in PtablePCs
  /\ \A c \in Cpus : ipc[c] # "none" => pc[c] \in InterruptiblePCs

\* A processor spins only in a call of acquire, on the lock of that call.
SpinWants ==
  \A c \in Cpus : spin[c] # "none" => top(c) \in AcquirePCs /\ spin[c] = Wants[top(c)]

\* ncli counts the locks that are held or spun on.
Depth ==
  \A c \in Cpus : ncli[c] = (IF top(c) \in ConsPCs THEN 1 ELSE 0)
                          + (IF top(c) \in PtablePCs THEN 1 ELSE 0)
                          + (IF spin[c] # "none" THEN 1 ELSE 0)

\* Interrupts are off in handlers and critical sections and on elsewhere, except where the
\* scheduler is about to set them.  intena tells the two apart, and for a process that has
\* been switched out the intena it is given back does; the scheduler's own does not.
FlagsKept ==
  /\ \A c \in Cpus : eflags[c] => ncli[c] = 0 /\ ipc[c] = "none"
  /\ \A c \in Cpus : ncli[c] = 0 /\ ipc[c] = "none" /\ pc[c] # "idle" => eflags[c]
  /\ \A c \in Cpus : ncli[c] > 0 /\ pc[c] # "scan" => (intena[c] <=> ipc[c] = "none")
  /\ \A p \in Procs : saved[p].intena <=> saved[p].ipc = "none"

\* A processor outside its scheduler runs a process, which no other one runs and which is
\* RUNNING until it is about to be switched out.
Placed ==
  /\ \A c \in Cpus : proc[c] = NoProc <=> pc[c] \in SchedulerPCs
  /\ \A c \in Cpus : ipc[c] \in {"yield", "yielding", "sched"} => proc[c] # NoProc
  /\ \A c, d \in Cpus : proc[c] = proc[d] /\ proc[c] # NoProc => c = d
  /\ \A c \in Cpus : proc[c] # NoProc => (pstate[proc[c]] = "RUNNING" <=> top(c) # "sched")

ControlInv ==
  ControlTyped /\ LocksHeld /\ SpinWants /\ Depth /\ FlagsKept /\ Placed /\ NoPanic

\* What the tables of the calls of acquire say: each call wants one of the two locks,
\* which it does not hold yet, and goes on where it holds that one as well.
LEMMA Tables ==
  /\ DOMAIN Wants = AcquirePCs
  /\ \A x \in AcquirePCs :
       /\ Wants[x] \in {"cons", "ptable"}
       /\ Wants[x] = "cons" => x \notin ConsPCs
       /\ x \notin PtablePCs
       /\ Then[x] \in ConsPCs <=> x \in ConsPCs \/ Wants[x] = "cons"
       /\ Then[x] \in PtablePCs <=> Wants[x] = "ptable"
       /\ Then[x] \notin AcquirePCs
       /\ x \in ProcPCs => Then[x] \in ProcPCs
       /\ x \in HandlerPCs => Then[x] \in HandlerPCs
       /\ Then[x] \in SchedulerPCs <=> x = "resched"
       /\ x \in SchedulerPCs <=> x = "resched"
       /\ Then[x] = "scan" <=> x = "resched"
       /\ Then[x] # "sched" /\ x # "sched" /\ Then[x] # "idle" /\ x # "scan"
       /\ Then[x] = "yielding" => x = "yield"
       /\ Then[x] # "yield" /\ x # "yielding"
       /\ Then[x] \notin {"sleep", "wakeup"}
       /\ Then[x] = "sleeping" => x = "sleep"
       /\ Then[x] = "waking" <=> x = "wakeup"
  <1>1. DOMAIN Wants = AcquirePCs
    BY DEF Wants, AcquirePCs
  <1>2. ASSUME NEW x \in {"read", "reread"}
        PROVE  Wants[x] = "cons" /\ Then[x] = "reading"
    BY DEF Wants, Then
  <1>3. Wants["write"] = "cons" /\ Then["write"] = "writing"
    BY DEF Wants, Then
  <1>4. Wants["kbd"] = "cons" /\ Then["kbd"] = "getc"
    BY DEF Wants, Then
  <1>5. Wants["dump"] = "cons" /\ Then["dump"] = "dumping"
    BY DEF Wants, Then
  <1>6. Wants["sleep"] = "ptable" /\ Then["sleep"] = "sleeping"
    BY DEF Wants, Then
  <1>7. Wants["resched"] = "ptable" /\ Then["resched"] = "scan"
    BY DEF Wants, Then
  <1>8. Wants["wakeup"] = "ptable" /\ Then["wakeup"] = "waking"
    BY DEF Wants, Then
  <1>9. Wants["timer"] = "ptable" /\ Then["timer"] = "ticking"
    BY DEF Wants, Then
  <1>10. Wants["yield"] = "ptable" /\ Then["yield"] = "yielding"
    BY DEF Wants, Then
  <1> HIDE DEF Wants, Then
  <1> QED
    BY <1>1, <1>2, <1>3, <1>4, <1>5, <1>6, <1>7, <1>8, <1>9, <1>10
       DEF AcquirePCs, ConsPCs, PtablePCs, ProcPCs, HandlerPCs, SchedulerPCs

\* The first step of acquire: nobody calls it for a lock that it holds.
LEMMA DoAcquireControl ==
  ASSUME ControlInv, NEW c \in Cpus, do_acquire(c)
  PROVE  ControlInv'
  <1> USE ConsoleAssumption, SpinlockAssumption DEF ControlInv
  <1>1. ControlTyped'
    BY Tables DEF ControlTyped, ProcPCs, HandlerPCs, top, do_acquire, acquire,
           pushcli, Outermost, holding
  <1>2. LocksHeld'
    BY Tables DEF ControlTyped, LocksHeld, ConsPCs, PtablePCs, AcquirePCs,
           InterruptiblePCs, ProcPCs, SpinWants, Depth, FlagsKept, top, do_acquire,
           acquire, pushcli, Outermost, holding
  <1>3. SpinWants'
    BY Tables DEF ControlTyped, SpinWants, ConsPCs, PtablePCs, AcquirePCs,
           InterruptiblePCs, LocksHeld, Depth, FlagsKept, top, do_acquire, acquire,
           pushcli, Outermost, holding
  <1>4. Depth'
    BY Tables DEF ControlTyped, Depth, ConsPCs, PtablePCs, AcquirePCs,
           InterruptiblePCs, SpinWants, LocksHeld, FlagsKept, top, do_acquire,
           acquire, pushcli, Outermost, holding
  <1>5. FlagsKept'
    BY Tables DEF ControlTyped, FlagsKept, ConsPCs, PtablePCs, AcquirePCs,
           InterruptiblePCs, SpinWants, LocksHeld, Depth, top, do_acquire, acquire,
           pushcli, Outermost, holding
  <1>6. Placed'
    BY Tables DEF ControlTyped, Placed, SchedulerPCs, ConsPCs, PtablePCs,
           AcquirePCs, InterruptiblePCs, SpinWants, LocksHeld, Depth, FlagsKept,
           top, do_acquire, acquire, pushcli, Outermost, holding
  <1>7. NoPanic'
    <2>1. top(c) \in AcquirePCs
      BY Tables DEF do_acquire
    <2>2. lock["ptable"] # c
      BY <2>1, Tables DEF LocksHeld
    <2>3. Wants[top(c)] = "cons" => lock["cons"] # c
      BY <2>1, Tables DEF LocksHeld
    <2>4. lock[Wants[top(c)]] # c
      BY <2>1, <2>2, <2>3, Tables
    <2> QED
      BY <2>4 DEF NoPanic, do_acquire, acquire, holding
  <1> QED
    BY <1>1, <1>2, <1>3, <1>4, <1>5, <1>6, <1>7

\* acquire gets its lock.
LEMMA AcquiredControl ==
  ASSUME ControlInv, NEW c \in Cpus, acquired(c)
  PROVE  ControlInv'
  <1> USE ConsoleAssumption, SpinlockAssumption DEF ControlInv
  <1>1. ControlTyped'
    BY Tables DEF ControlTyped, ProcPCs, HandlerPCs, AcquirePCs, SpinWants, top,
           acquired, xchg, Goto,
           IGoto
  <1>2. LocksHeld'
    BY Tables DEF ControlTyped, LocksHeld, ConsPCs, PtablePCs, AcquirePCs,
           InterruptiblePCs, ProcPCs, SpinWants, Depth, FlagsKept, top, acquired,
           xchg, Goto, IGoto
  <1>3. SpinWants'
    BY Tables DEF ControlTyped, SpinWants, ConsPCs, PtablePCs, AcquirePCs,
           InterruptiblePCs, LocksHeld, Depth, FlagsKept, top, acquired, xchg, Goto,
           IGoto
  <1>4. Depth'
    BY Tables DEF ControlTyped, Depth, ConsPCs, PtablePCs, AcquirePCs,
           InterruptiblePCs, SpinWants, LocksHeld, FlagsKept, top, acquired, xchg,
           Goto, IGoto
  <1>5. FlagsKept'
    BY Tables DEF ControlTyped, FlagsKept, ConsPCs, PtablePCs, AcquirePCs,
           InterruptiblePCs, SpinWants, LocksHeld, Depth, top, acquired, xchg, Goto,
           IGoto
  <1>6. Placed'
    <2>1. top(c) \in AcquirePCs
      BY DEF SpinWants, acquired
    <2>2. /\ pc'[c] \in SchedulerPCs <=> pc[c] \in SchedulerPCs
          /\ ipc'[c] \in {"yield", "yielding", "sched"} => ipc[c] \in {"yield", "yielding", "sched"}
      BY <2>1, Tables DEF ControlTyped, top, acquired, Goto, IGoto
    <2>3. top(c)' # "sched" /\ top(c) # "sched"
      BY <2>1, Tables DEF ControlTyped, top, acquired, Goto, IGoto, HandlerPCs, AcquirePCs
    <2>4. \A d \in Cpus : d # c => pc'[d] = pc[d] /\ ipc'[d] = ipc[d] /\ top(d)' = top(d)
      BY DEF ControlTyped, top, acquired, Goto, IGoto
    <2>5. UNCHANGED <<proc, pstate>>
      BY DEF acquired
    <2> QED
      BY <2>2, <2>3, <2>4, <2>5 DEF Placed
  <1>7. NoPanic'
    BY Tables DEF ControlTyped, NoPanic, ConsPCs, PtablePCs, AcquirePCs,
           InterruptiblePCs, SpinWants, LocksHeld, Depth, FlagsKept, top, acquired,
           xchg, Goto, IGoto
  <1> QED
    BY <1>1, <1>2, <1>3, <1>4, <1>5, <1>6, <1>7

\* Outside its scheduler a processor runs a process.
LEMMA RunsProcess ==
  ASSUME ControlInv, NEW c \in Cpus, pc[c] \notin SchedulerPCs
  PROVE  proc[c] \in Procs
  BY DEF ControlInv, ControlTyped, Placed

\* A process calls consoleread.
LEMMA CallReadControl ==
  ASSUME ControlInv, NEW c \in Cpus, NEW n \in Counts, call_read(c, n)
  PROVE  ControlInv'
  <1> USE ConsoleAssumption, SpinlockAssumption DEF ControlInv
  <1>0. proc[c] \in Procs
    BY RunsProcess DEF call_read, At, SchedulerPCs
  <1>1. ControlTyped'
    BY <1>0 DEF ControlTyped, ProcPCs, HandlerPCs, top, call_read, At, Goto, lockvars
  <1>2. LocksHeld'
    BY DEF ControlTyped, LocksHeld, ConsPCs, PtablePCs, AcquirePCs,
           InterruptiblePCs, ProcPCs, SpinWants, Depth, FlagsKept, top, call_read,
           At, Goto, lockvars
  <1>3. SpinWants'
    BY DEF ControlTyped, SpinWants, ConsPCs, PtablePCs, AcquirePCs,
           InterruptiblePCs, LocksHeld, Depth, FlagsKept, top, call_read, At, Goto,
           lockvars
  <1>4. Depth'
    BY DEF ControlTyped, Depth, ConsPCs, PtablePCs, AcquirePCs, InterruptiblePCs,
           SpinWants, LocksHeld, FlagsKept, top, call_read, At, Goto, lockvars
  <1>5. FlagsKept'
    BY DEF ControlTyped, FlagsKept, ConsPCs, PtablePCs, AcquirePCs,
           InterruptiblePCs, SpinWants, LocksHeld, Depth, top, call_read, At, Goto,
           lockvars
  <1>6. Placed'
    BY DEF ControlTyped, Placed, SchedulerPCs, ConsPCs, PtablePCs, AcquirePCs,
           InterruptiblePCs, SpinWants, LocksHeld, Depth, FlagsKept, top, call_read,
           At, Goto, lockvars
  <1>7. NoPanic'
    BY DEF ControlTyped, NoPanic, ConsPCs, PtablePCs, AcquirePCs, InterruptiblePCs,
           SpinWants, LocksHeld, Depth, FlagsKept, top, call_read, At, Goto,
           lockvars
  <1> QED
    BY <1>1, <1>2, <1>3, <1>4, <1>5, <1>6, <1>7

\* A process calls consolewrite.
LEMMA CallWriteControl ==
  ASSUME ControlInv, NEW c \in Cpus, call_write(c)
  PROVE  ControlInv'
  <1> USE ConsoleAssumption, SpinlockAssumption DEF ControlInv
  <1>1. ControlTyped'
    BY DEF ControlTyped, ProcPCs, HandlerPCs, top, call_write, At, Goto, lockvars
  <1>2. LocksHeld'
    BY DEF ControlTyped, LocksHeld, ConsPCs, PtablePCs, AcquirePCs,
           InterruptiblePCs, ProcPCs, SpinWants, Depth, FlagsKept, top, call_write,
           At, Goto, lockvars
  <1>3. SpinWants'
    BY DEF ControlTyped, SpinWants, ConsPCs, PtablePCs, AcquirePCs,
           InterruptiblePCs, LocksHeld, Depth, FlagsKept, top, call_write, At, Goto,
           lockvars
  <1>4. Depth'
    BY DEF ControlTyped, Depth, ConsPCs, PtablePCs, AcquirePCs, InterruptiblePCs,
           SpinWants, LocksHeld, FlagsKept, top, call_write, At, Goto, lockvars
  <1>5. FlagsKept'
    BY DEF ControlTyped, FlagsKept, ConsPCs, PtablePCs, AcquirePCs,
           InterruptiblePCs, SpinWants, LocksHeld, Depth, top, call_write, At, Goto,
           lockvars
  <1>6. Placed'
    BY DEF ControlTyped, Placed, SchedulerPCs, ConsPCs, PtablePCs, AcquirePCs,
           InterruptiblePCs, SpinWants, LocksHeld, Depth, FlagsKept, top,
           call_write, At, Goto, lockvars
  <1>7. NoPanic'
    BY DEF ControlTyped, NoPanic, ConsPCs, PtablePCs, AcquirePCs, InterruptiblePCs,
           SpinWants, LocksHeld, Depth, FlagsKept, top, call_write, At, Goto,
           lockvars
  <1> QED
    BY <1>1, <1>2, <1>3, <1>4, <1>5, <1>6, <1>7

\* A call returns: cons.lock is released, and interrupts are on again.
LEMMA ReturnControl ==
  ASSUME ControlInv, NEW c \in Cpus, At(c, "reading") \/ At(c, "writing"), Return(c)
  PROVE  ControlInv'
  <1> USE ConsoleAssumption, SpinlockAssumption DEF ControlInv
  <1>0. proc[c] \in Procs
    BY RunsProcess DEF At, SchedulerPCs
  <1>1. ControlTyped'
    BY <1>0 DEF ControlTyped, ProcPCs, HandlerPCs, top, Return, release,
           Reenabled, holding, At, Goto
  <1>2. LocksHeld'
    BY DEF ControlTyped, LocksHeld, ConsPCs, PtablePCs, AcquirePCs,
           InterruptiblePCs, ProcPCs, SpinWants, Depth, FlagsKept, top,
           Return, release, Reenabled, holding, At, Goto
  <1>3. SpinWants'
    BY DEF ControlTyped, SpinWants, ConsPCs, PtablePCs, AcquirePCs,
           InterruptiblePCs, LocksHeld, Depth, FlagsKept, top, Return,
           release, Reenabled, holding, At, Goto
  <1>4. Depth'
    BY DEF ControlTyped, Depth, ConsPCs, PtablePCs, AcquirePCs, InterruptiblePCs,
           SpinWants, LocksHeld, FlagsKept, top, Return, release,
           Reenabled, holding, At, Goto
  <1>5. FlagsKept'
    BY DEF ControlTyped, FlagsKept, ConsPCs, PtablePCs, AcquirePCs,
           InterruptiblePCs, SpinWants, LocksHeld, Depth, top, Return,
           release, Reenabled, holding, At, Goto
  <1>6. Placed'
    BY DEF ControlTyped, Placed, SchedulerPCs, ConsPCs, PtablePCs, AcquirePCs,
           InterruptiblePCs, SpinWants, LocksHeld, Depth, FlagsKept, top,
           Return, release, Reenabled, holding, At, Goto
  <1>7. NoPanic'
    BY DEF ControlTyped, NoPanic, ConsPCs, PtablePCs, AcquirePCs, InterruptiblePCs,
           SpinWants, LocksHeld, Depth, FlagsKept, top, Return, release,
           Reenabled, holding, At, Goto
  <1> QED
    BY <1>1, <1>2, <1>3, <1>4, <1>5, <1>6, <1>7

\* consoleread finds no input.
LEMMA ReadSleepControl ==
  ASSUME ControlInv, NEW c \in Cpus, read_sleep(c)
  PROVE  ControlInv'
  <1> USE ConsoleAssumption, SpinlockAssumption DEF ControlInv
  <1>1. ControlTyped'
    BY DEF ControlTyped, ProcPCs, HandlerPCs, top, read_sleep, At, Goto, lockvars
  <1>2. LocksHeld'
    BY DEF ControlTyped, LocksHeld, ConsPCs, PtablePCs, AcquirePCs,
           InterruptiblePCs, ProcPCs, SpinWants, Depth, FlagsKept, top, read_sleep,
           At, Goto, lockvars
  <1>3. SpinWants'
    BY DEF ControlTyped, SpinWants, ConsPCs, PtablePCs, AcquirePCs,
           InterruptiblePCs, LocksHeld, Depth, FlagsKept, top, read_sleep, At, Goto,
           lockvars
  <1>4. Depth'
    BY DEF ControlTyped, Depth, ConsPCs, PtablePCs, AcquirePCs, InterruptiblePCs,
           SpinWants, LocksHeld, FlagsKept, top, read_sleep, At, Goto, lockvars
  <1>5. FlagsKept'
    BY DEF ControlTyped, FlagsKept, ConsPCs, PtablePCs, AcquirePCs,
           InterruptiblePCs, SpinWants, LocksHeld, Depth, top, read_sleep, At, Goto,
           lockvars
  <1>6. Placed'
    BY DEF ControlTyped, Placed, SchedulerPCs, ConsPCs, PtablePCs, AcquirePCs,
           InterruptiblePCs, SpinWants, LocksHeld, Depth, FlagsKept, top,
           read_sleep, At, Goto, lockvars
  <1>7. NoPanic'
    BY DEF ControlTyped, NoPanic, ConsPCs, PtablePCs, AcquirePCs, InterruptiblePCs,
           SpinWants, LocksHeld, Depth, FlagsKept, top, read_sleep, At, Goto,
           lockvars
  <1> QED
    BY <1>1, <1>2, <1>3, <1>4, <1>5, <1>6, <1>7

\* consoleread takes a character and goes on.
LEMMA ReadMoreControl ==
  ASSUME ControlInv, NEW c \in Cpus, At(c, "reading"), left[proc[c]] > 0,
         left' = [left EXCEPT ![proc[c]] = @ - 1],
         UNCHANGED <<lockvars, proc, pc, ipc, spin, pstate, killed, saved, target>>
  PROVE  ControlInv'
  <1> USE ConsoleAssumption, SpinlockAssumption DEF ControlInv
  <1>1. ControlTyped'
    <2>1. proc[c] \in Procs
      BY RunsProcess DEF At, SchedulerPCs
    <2>2. left' \in [Procs -> Nat] /\ \A p \in Procs : left'[p] <= target[p]
      BY <2>1 DEF ControlTyped
    <2> QED
      BY <2>2 DEF ControlTyped, lockvars
  <1>2. LocksHeld' /\ SpinWants' /\ Depth'
    BY DEF LocksHeld, SpinWants, Depth, top, lockvars
  <1>3. FlagsKept' /\ Placed' /\ NoPanic'
    BY DEF FlagsKept, Placed, NoPanic, top, lockvars
  <1> QED
    BY <1>1, <1>2, <1>3

\* consoleread takes a character, and returns or goes on.
LEMMA ReadCharControl ==
  ASSUME ControlInv, NEW c \in Cpus, read_char(c)
  PROVE  ControlInv'
  <1>1. CASE Return(c)
    BY <1>1, ReturnControl DEF read_char
  <1>2. CASE ~Return(c)
    BY <1>2, ReadMoreControl DEF read_char
  <1> QED
    BY <1>1, <1>2

\* sleep gives up cons.lock, with ptable.lock still held.
LEMMA SleepControl ==
  ASSUME ControlInv, NEW c \in Cpus, sleep(c)
  PROVE  ControlInv'
  <1> USE ConsoleAssumption, SpinlockAssumption DEF ControlInv
  <1>0. proc[c] \in Procs
    BY RunsProcess DEF sleep, At, SchedulerPCs
  <1>1. ControlTyped'
    BY <1>0 DEF ControlTyped, ProcPCs, HandlerPCs, top, sleep, release, Reenabled,
           holding, At, Goto
  <1>2. LocksHeld'
    BY DEF ControlTyped, LocksHeld, ConsPCs, PtablePCs, AcquirePCs,
           InterruptiblePCs, ProcPCs, SpinWants, Depth, FlagsKept, top, sleep,
           release, Reenabled, holding, At, Goto
  <1>3. SpinWants'
    BY DEF ControlTyped, SpinWants, ConsPCs, PtablePCs, AcquirePCs,
           InterruptiblePCs, LocksHeld, Depth, FlagsKept, top, sleep, release,
           Reenabled, holding, At, Goto
  <1>4. Depth'
    BY DEF ControlTyped, Depth, ConsPCs, PtablePCs, AcquirePCs, InterruptiblePCs,
           SpinWants, LocksHeld, FlagsKept, top, sleep, release, Reenabled, holding,
           At, Goto
  <1>5. FlagsKept'
    BY DEF ControlTyped, FlagsKept, ConsPCs, PtablePCs, AcquirePCs,
           InterruptiblePCs, SpinWants, LocksHeld, Depth, top, sleep, release,
           Reenabled, holding, At, Goto
  <1>6. Placed'
    BY DEF ControlTyped, Placed, SchedulerPCs, ConsPCs, PtablePCs, AcquirePCs,
           InterruptiblePCs, SpinWants, LocksHeld, Depth, FlagsKept, top, sleep,
           release, Reenabled, holding, At, Goto
  <1>7. NoPanic'
    BY DEF ControlTyped, NoPanic, ConsPCs, PtablePCs, AcquirePCs, InterruptiblePCs,
           SpinWants, LocksHeld, Depth, FlagsKept, top, sleep, release, Reenabled,
           holding, At, Goto
  <1> QED
    BY <1>1, <1>2, <1>3, <1>4, <1>5, <1>6, <1>7

\* yield: the process is runnable again, under ptable.lock.
LEMMA YieldingControl ==
  ASSUME ControlInv, NEW c \in Cpus, yielding(c)
  PROVE  ControlInv'
  <1> USE ConsoleAssumption, SpinlockAssumption DEF ControlInv
  <1>1. ControlTyped'
    BY DEF ControlTyped, ProcPCs, HandlerPCs, top, yielding, IAt, IGoto, lockvars
  <1>2. LocksHeld'
    BY DEF ControlTyped, LocksHeld, ConsPCs, PtablePCs, AcquirePCs,
           InterruptiblePCs, ProcPCs, SpinWants, Depth, FlagsKept, top, yielding,
           IAt, IGoto, lockvars
  <1>3. SpinWants'
    BY DEF ControlTyped, SpinWants, ConsPCs, PtablePCs, AcquirePCs,
           InterruptiblePCs, LocksHeld, Depth, FlagsKept, top, yielding, IAt, IGoto,
           lockvars
  <1>4. Depth'
    BY DEF ControlTyped, Depth, ConsPCs, PtablePCs, AcquirePCs, InterruptiblePCs,
           SpinWants, LocksHeld, FlagsKept, top, yielding, IAt, IGoto, lockvars
  <1>5. FlagsKept'
    BY DEF ControlTyped, FlagsKept, ConsPCs, PtablePCs, AcquirePCs,
           InterruptiblePCs, SpinWants, LocksHeld, Depth, top, yielding, IAt, IGoto,
           lockvars
  <1>6. Placed'
    BY DEF ControlTyped, Placed, SchedulerPCs, ConsPCs, PtablePCs, AcquirePCs,
           InterruptiblePCs, SpinWants, LocksHeld, Depth, FlagsKept, top, yielding,
           IAt, IGoto, lockvars
  <1>7. NoPanic'
    BY DEF ControlTyped, NoPanic, ConsPCs, PtablePCs, AcquirePCs, InterruptiblePCs,
           SpinWants, LocksHeld, Depth, FlagsKept, top, yielding, IAt, IGoto,
           lockvars
  <1> QED
    BY <1>1, <1>2, <1>3, <1>4, <1>5, <1>6, <1>7

\* sched switches to the scheduler with ptable.lock alone, and keeps intena for the process.
LEMMA SchedControl ==
  ASSUME ControlInv, NEW c \in Cpus, sched(c)
  PROVE  ControlInv'
  <1> USE ConsoleAssumption, SpinlockAssumption DEF ControlInv
  <1>0. Resumed(c) \in Contexts /\ (Resumed(c).intena <=> Resumed(c).ipc = "none")
    <2>1. CASE ipc[c] = "none"
      <3>1. pc[c] = "sched" /\ ncli[c] > 0
        BY <2>1 DEF sched, top, Depth, PtablePCs, ConsPCs, ControlTyped
      <3> QED
        BY <2>1, <3>1 DEF Resumed, Contexts, FlagsKept, ControlTyped
    <2>2. CASE ipc[c] # "none"
      <3>1. ipc[c] = "sched" /\ ncli[c] > 0 /\ pc[c] \in {"user", "read", "write", "reread"}
        BY <2>2 DEF sched, top, Depth, PtablePCs, ConsPCs, ControlTyped, LocksHeld,
                    InterruptiblePCs, Placed, SchedulerPCs
      <3> QED
        BY <2>2, <3>1 DEF Resumed, Contexts, FlagsKept, ControlTyped
    <2> QED
      BY <2>1, <2>2
  <1>1. ControlTyped'
    BY <1>0 DEF ControlTyped, ProcPCs, HandlerPCs, sched, Goto, IGoto
  <1>2. LocksHeld'
    BY DEF ControlTyped, LocksHeld, ConsPCs, PtablePCs, AcquirePCs,
           InterruptiblePCs, ProcPCs, SpinWants, Depth, FlagsKept, top,
           Placed, SchedulerPCs, sched, Goto, IGoto
  <1>3. SpinWants'
    BY DEF ControlTyped, SpinWants, ConsPCs, PtablePCs, AcquirePCs,
           InterruptiblePCs, LocksHeld, Depth, FlagsKept, top, Placed,
           SchedulerPCs, sched, Goto, IGoto
  <1>4. Depth'
    BY DEF ControlTyped, Depth, ConsPCs, PtablePCs, AcquirePCs, InterruptiblePCs,
           SpinWants, LocksHeld, FlagsKept, top, Placed, SchedulerPCs,
           sched, Goto, IGoto
  <1>5. FlagsKept'
    BY <1>0 DEF ControlTyped, FlagsKept, PtablePCs, LocksHeld, Depth, top, sched, Goto,
           IGoto
  <1>6. Placed'
    BY DEF ControlTyped, Placed, SchedulerPCs, ConsPCs, PtablePCs, AcquirePCs,
           InterruptiblePCs, SpinWants, LocksHeld, Depth, FlagsKept, top,
           sched, Goto, IGoto
  <1>7. NoPanic'
    <2>1. top(c) = "sched" /\ top(c) \notin ConsPCs /\ top(c) \in PtablePCs
      BY DEF sched, ConsPCs, PtablePCs
    <2>2. spin[c] = "none"
      BY <2>1 DEF SpinWants, AcquirePCs
    <2>3. holding(c, "ptable") /\ ncli[c] = 1 /\ ~eflags[c]
      BY <2>1, <2>2 DEF LocksHeld, Depth, FlagsKept, holding
    <2>4. proc[c] # NoProc
      BY <2>1 DEF Placed, SchedulerPCs, top
    <2>5. pstate[proc[c]] # "RUNNING"
      BY <2>1, <2>4 DEF Placed
    <2> QED
      BY <2>3, <2>5 DEF NoPanic, sched
  <1> QED
    BY <1>1, <1>2, <1>3, <1>4, <1>5, <1>6, <1>7

\* The scheduler sets the flag.
LEMMA SchedulerControl ==
  ASSUME ControlInv, NEW c \in Cpus, scheduler(c)
  PROVE  ControlInv'
  <1> USE ConsoleAssumption, SpinlockAssumption DEF ControlInv
  <1>1. ControlTyped'
    BY DEF ControlTyped, ProcPCs, HandlerPCs, top, scheduler, At, Goto
  <1>2. LocksHeld'
    BY DEF ControlTyped, LocksHeld, ConsPCs, PtablePCs, AcquirePCs,
           InterruptiblePCs, ProcPCs, SpinWants, Depth, FlagsKept, top, scheduler,
           At, Goto
  <1>3. SpinWants'
    BY DEF ControlTyped, SpinWants, ConsPCs, PtablePCs, AcquirePCs,
           InterruptiblePCs, LocksHeld, Depth, FlagsKept, top, scheduler, At, Goto
  <1>4. Depth'
    BY DEF ControlTyped, Depth, ConsPCs, PtablePCs, AcquirePCs, InterruptiblePCs,
           SpinWants, LocksHeld, FlagsKept, top, scheduler, At, Goto
  <1>5. FlagsKept'
    BY DEF ControlTyped, FlagsKept, ConsPCs, PtablePCs, AcquirePCs,
           InterruptiblePCs, SpinWants, LocksHeld, Depth, top, scheduler, At, Goto
  <1>6. Placed'
    BY DEF ControlTyped, Placed, SchedulerPCs, ConsPCs, PtablePCs, AcquirePCs,
           InterruptiblePCs, SpinWants, LocksHeld, Depth, FlagsKept, top, scheduler,
           At, Goto
  <1>7. NoPanic'
    BY DEF ControlTyped, NoPanic, ConsPCs, PtablePCs, AcquirePCs, InterruptiblePCs,
           SpinWants, LocksHeld, Depth, FlagsKept, top, scheduler, At, Goto
  <1> QED
    BY <1>1, <1>2, <1>3, <1>4, <1>5, <1>6, <1>7

\* Back in sched: the process gets its own intena, on whatever processor.
LEMMA DispatchControl ==
  ASSUME ControlInv, NEW c \in Cpus, NEW p \in Procs, dispatch(c, p)
  PROVE  ControlInv'
  <1> USE ConsoleAssumption, SpinlockAssumption DEF ControlInv
  <1>1. ControlTyped'
    BY DEF ControlTyped, ProcPCs, HandlerPCs, top, Contexts, Placed, SchedulerPCs,
           InterruptiblePCs, LocksHeld, dispatch, Restored, holding, At, Goto, IGoto
  <1>2. LocksHeld'
    BY DEF ControlTyped, LocksHeld, ConsPCs, PtablePCs, AcquirePCs,
           InterruptiblePCs, ProcPCs, SpinWants, Depth, FlagsKept, top, Contexts,
           Placed, SchedulerPCs, dispatch, Restored, holding, At, Goto, IGoto
  <1>3. SpinWants'
    BY DEF ControlTyped, SpinWants, ConsPCs, PtablePCs, AcquirePCs,
           InterruptiblePCs, LocksHeld, Depth, FlagsKept, top, Contexts, Placed,
           SchedulerPCs, dispatch, Restored, holding, At, Goto, IGoto
  <1>4. Depth'
    <2>1. /\ top(c) = "scan" /\ spin[c] = "none" /\ ncli[c] = 1
      BY DEF dispatch, At, top, SpinWants, AcquirePCs, Depth, ConsPCs, PtablePCs
    <2>2. top(c)' \in {"user", "read", "write", "reread", "iret"}
      BY DEF ControlTyped, Contexts, dispatch, top, Goto, IGoto
    <2>3. ncli'[c] = 0 /\ spin' = spin
      BY <2>1 DEF ControlTyped, dispatch
    <2>4. \A d \in Cpus : d # c => top(d)' = top(d) /\ ncli'[d] = ncli[d]
      BY DEF ControlTyped, dispatch, top, Goto, IGoto
    <2> QED
      BY <2>1, <2>2, <2>3, <2>4 DEF Depth, ConsPCs, PtablePCs
  <1>5. FlagsKept'
    BY DEF ControlTyped, FlagsKept, ConsPCs, PtablePCs, AcquirePCs,
           InterruptiblePCs, SpinWants, LocksHeld, Depth, top, Contexts, Placed,
           SchedulerPCs, dispatch, Restored, holding, At, Goto, IGoto
  <1>6. Placed'
    <2>1. \A d \in Cpus : proc[d] # p
      <3>1. lock["ptable"] = c /\ proc[c] = NoProc
        BY DEF dispatch, At, LocksHeld, PtablePCs, Placed, SchedulerPCs, top
      <3>2. ASSUME NEW d \in Cpus, proc[d] = p PROVE FALSE
        <4>1. top(d) = "sched"
          BY <3>2 DEF Placed, dispatch
        <4>2. lock["ptable"] = d
          BY <4>1 DEF LocksHeld, PtablePCs
        <4> QED
          BY <3>1, <3>2, <4>2
      <3> QED
        BY <3>2
    <2>2. /\ proc'[c] = p /\ pc'[c] \notin SchedulerPCs /\ top(c)' # "sched"
          /\ ipc'[c] \notin {"yield", "yielding", "sched"}
      BY DEF ControlTyped, Contexts, SchedulerPCs, dispatch, top, Goto, IGoto
    <2>3. \A d \in Cpus : d # c =>
            proc'[d] = proc[d] /\ pc'[d] = pc[d] /\ ipc'[d] = ipc[d] /\ top(d)' = top(d)
      BY DEF ControlTyped, dispatch, top, Goto, IGoto
    <2>4. pstate'[p] = "RUNNING" /\ \A x \in Procs : x # p => pstate'[x] = pstate[x]
      BY DEF ControlTyped, dispatch
    <2>5. \A d \in Cpus : proc[d] \in Procs \cup {NoProc}
      BY DEF ControlTyped
    <2> QED
      BY <2>1, <2>2, <2>3, <2>4, <2>5 DEF Placed
  <1>7. NoPanic'
    BY DEF ControlTyped, NoPanic, ConsPCs, PtablePCs, AcquirePCs, InterruptiblePCs,
           SpinWants, LocksHeld, Depth, FlagsKept, top, Contexts, Placed,
           SchedulerPCs, dispatch, Restored, holding, At, Goto, IGoto
  <1> QED
    BY <1>1, <1>2, <1>3, <1>4, <1>5, <1>6, <1>7

\* The scheduler comes to the end of the table.
LEMMA ScannedControl ==
  ASSUME ControlInv, NEW c \in Cpus, scanned(c)
  PROVE  ControlInv'
  <1> USE ConsoleAssumption, SpinlockAssumption DEF ControlInv
  <1>1. ControlTyped'
    BY DEF ControlTyped, ProcPCs, HandlerPCs, top, scanned, release, Reenabled,
           holding, At, Goto
  <1>2. LocksHeld'
    BY DEF ControlTyped, LocksHeld, ConsPCs, PtablePCs, AcquirePCs,
           InterruptiblePCs, ProcPCs, SpinWants, Depth, FlagsKept, top, scanned,
           release, Reenabled, holding, At, Goto
  <1>3. SpinWants'
    BY DEF ControlTyped, SpinWants, ConsPCs, PtablePCs, AcquirePCs,
           InterruptiblePCs, LocksHeld, Depth, FlagsKept, top, scanned, release,
           Reenabled, holding, At, Goto
  <1>4. Depth'
    BY DEF ControlTyped, Depth, ConsPCs, PtablePCs, AcquirePCs, InterruptiblePCs,
           SpinWants, LocksHeld, FlagsKept, top, scanned, release, Reenabled,
           holding, At, Goto
  <1>5. FlagsKept'
    BY DEF ControlTyped, FlagsKept, ConsPCs, PtablePCs, AcquirePCs,
           InterruptiblePCs, SpinWants, LocksHeld, Depth, top, scanned, release,
           Reenabled, holding, At, Goto
  <1>6. Placed'
    BY DEF ControlTyped, Placed, SchedulerPCs, ConsPCs, PtablePCs, AcquirePCs,
           InterruptiblePCs, SpinWants, LocksHeld, Depth, FlagsKept, top, scanned,
           release, Reenabled, holding, At, Goto
  <1>7. NoPanic'
    BY DEF ControlTyped, NoPanic, ConsPCs, PtablePCs, AcquirePCs, InterruptiblePCs,
           SpinWants, LocksHeld, Depth, FlagsKept, top, scanned, release, Reenabled,
           holding, At, Goto
  <1> QED
    BY <1>1, <1>2, <1>3, <1>4, <1>5, <1>6, <1>7

\* kill touches no lock of the console.
LEMMA KillControl ==
  ASSUME ControlInv, NEW p \in Procs, kill(p)
  PROVE  ControlInv'
  <1> USE ConsoleAssumption, SpinlockAssumption DEF ControlInv
  <1>1. ControlTyped'
    BY DEF ControlTyped, ProcPCs, HandlerPCs, top, kill, lockvars
  <1>2. LocksHeld'
    BY DEF ControlTyped, LocksHeld, ConsPCs, PtablePCs, AcquirePCs,
           InterruptiblePCs, ProcPCs, SpinWants, Depth, FlagsKept, top, kill,
           lockvars
  <1>3. SpinWants'
    BY DEF ControlTyped, SpinWants, ConsPCs, PtablePCs, AcquirePCs,
           InterruptiblePCs, LocksHeld, Depth, FlagsKept, top, kill, lockvars
  <1>4. Depth'
    BY DEF ControlTyped, Depth, ConsPCs, PtablePCs, AcquirePCs, InterruptiblePCs,
           SpinWants, LocksHeld, FlagsKept, top, kill, lockvars
  <1>5. FlagsKept'
    BY DEF ControlTyped, FlagsKept, ConsPCs, PtablePCs, AcquirePCs,
           InterruptiblePCs, SpinWants, LocksHeld, Depth, top, kill, lockvars
  <1>6. Placed'
    BY DEF ControlTyped, Placed, SchedulerPCs, ConsPCs, PtablePCs, AcquirePCs,
           InterruptiblePCs, SpinWants, LocksHeld, Depth, FlagsKept, top, kill,
           lockvars
  <1>7. NoPanic'
    BY DEF ControlTyped, NoPanic, ConsPCs, PtablePCs, AcquirePCs, InterruptiblePCs,
           SpinWants, LocksHeld, Depth, FlagsKept, top, kill, lockvars
  <1> QED
    BY <1>1, <1>2, <1>3, <1>4, <1>5, <1>6, <1>7

\* An interrupt comes only where no lock is held or waited for.
LEMMA InterruptControl ==
  ASSUME ControlInv, NEW c \in Cpus, NEW kind \in {"kbd", "timer"}, interrupt(c, kind)
  PROVE  ControlInv'
  <1> USE ConsoleAssumption, SpinlockAssumption DEF ControlInv
  <1>1. ControlTyped'
    BY DEF ControlTyped, ProcPCs, HandlerPCs, top, interrupt, IGoto
  <1>2. LocksHeld'
    BY DEF ControlTyped, LocksHeld, ConsPCs, PtablePCs, AcquirePCs,
           InterruptiblePCs, ProcPCs, SpinWants, Depth, FlagsKept, top, interrupt,
           IGoto
  <1>3. SpinWants'
    BY DEF ControlTyped, SpinWants, ConsPCs, PtablePCs, AcquirePCs,
           InterruptiblePCs, LocksHeld, Depth, FlagsKept, top, interrupt, IGoto
  <1>4. Depth'
    BY DEF ControlTyped, Depth, ConsPCs, PtablePCs, AcquirePCs, InterruptiblePCs,
           SpinWants, LocksHeld, FlagsKept, top, interrupt, IGoto
  <1>5. FlagsKept'
    BY DEF ControlTyped, FlagsKept, ConsPCs, PtablePCs, AcquirePCs,
           InterruptiblePCs, SpinWants, LocksHeld, Depth, top, interrupt, IGoto
  <1>6. Placed'
    BY DEF ControlTyped, Placed, SchedulerPCs, ConsPCs, PtablePCs, AcquirePCs,
           InterruptiblePCs, SpinWants, LocksHeld, Depth, FlagsKept, top, interrupt,
           IGoto
  <1>7. NoPanic'
    BY DEF ControlTyped, NoPanic, ConsPCs, PtablePCs, AcquirePCs, InterruptiblePCs,
           SpinWants, LocksHeld, Depth, FlagsKept, top, interrupt, IGoto
  <1> QED
    BY <1>1, <1>2, <1>3, <1>4, <1>5, <1>6, <1>7

\* The handler returns to code that had interrupts on.
LEMMA IretControl ==
  ASSUME ControlInv, NEW c \in Cpus, iret(c)
  PROVE  ControlInv'
  <1> USE ConsoleAssumption, SpinlockAssumption DEF ControlInv
  <1>1. ControlTyped'
    BY DEF ControlTyped, ProcPCs, HandlerPCs, top, iret, IAt, IGoto
  <1>2. LocksHeld'
    BY DEF ControlTyped, LocksHeld, ConsPCs, PtablePCs, AcquirePCs,
           InterruptiblePCs, ProcPCs, SpinWants, Depth, FlagsKept, top, iret, IAt,
           IGoto
  <1>3. SpinWants'
    BY DEF ControlTyped, SpinWants, ConsPCs, PtablePCs, AcquirePCs,
           InterruptiblePCs, LocksHeld, Depth, FlagsKept, top, iret, IAt, IGoto
  <1>4. Depth'
    BY DEF ControlTyped, Depth, ConsPCs, PtablePCs, AcquirePCs, InterruptiblePCs,
           SpinWants, LocksHeld, FlagsKept, top, iret, IAt, IGoto
  <1>5. FlagsKept'
    BY DEF ControlTyped, FlagsKept, ConsPCs, PtablePCs, AcquirePCs,
           InterruptiblePCs, SpinWants, LocksHeld, Depth, top, iret, IAt, IGoto
  <1>6. Placed'
    BY DEF ControlTyped, Placed, SchedulerPCs, ConsPCs, PtablePCs, AcquirePCs,
           InterruptiblePCs, SpinWants, LocksHeld, Depth, FlagsKept, top, iret, IAt,
           IGoto
  <1>7. NoPanic'
    BY DEF ControlTyped, NoPanic, ConsPCs, PtablePCs, AcquirePCs, InterruptiblePCs,
           SpinWants, LocksHeld, Depth, FlagsKept, top, iret, IAt, IGoto
  <1> QED
    BY <1>1, <1>2, <1>3, <1>4, <1>5, <1>6, <1>7

\* The timer handler lets ptable.lock go: interrupts stay off until iret.
LEMMA TickingControl ==
  ASSUME ControlInv, NEW c \in Cpus, ticking(c)
  PROVE  ControlInv'
  <1> USE ConsoleAssumption, SpinlockAssumption DEF ControlInv
  <1>1. ControlTyped'
    BY DEF ControlTyped, ProcPCs, HandlerPCs, top, ticking, release, Reenabled,
           holding, IAt, IGoto
  <1>2. LocksHeld'
    BY DEF ControlTyped, LocksHeld, ConsPCs, PtablePCs, AcquirePCs,
           InterruptiblePCs, ProcPCs, SpinWants, Depth, FlagsKept, top, ticking,
           release, Reenabled, holding, IAt, IGoto
  <1>3. SpinWants'
    BY DEF ControlTyped, SpinWants, ConsPCs, PtablePCs, AcquirePCs,
           InterruptiblePCs, LocksHeld, Depth, FlagsKept, top, ticking, release,
           Reenabled, holding, IAt, IGoto
  <1>4. Depth'
    BY DEF ControlTyped, Depth, ConsPCs, PtablePCs, AcquirePCs, InterruptiblePCs,
           SpinWants, LocksHeld, FlagsKept, top, ticking, release, Reenabled,
           holding, IAt, IGoto
  <1>5. FlagsKept'
    BY DEF ControlTyped, FlagsKept, ConsPCs, PtablePCs, AcquirePCs,
           InterruptiblePCs, SpinWants, LocksHeld, Depth, top, ticking, release,
           Reenabled, holding, IAt, IGoto
  <1>6. Placed'
    BY DEF ControlTyped, Placed, SchedulerPCs, ConsPCs, PtablePCs, AcquirePCs,
           InterruptiblePCs, SpinWants, LocksHeld, Depth, FlagsKept, top, ticking,
           release, Reenabled, holding, IAt, IGoto
  <1>7. NoPanic'
    BY DEF ControlTyped, NoPanic, ConsPCs, PtablePCs, AcquirePCs, InterruptiblePCs,
           SpinWants, LocksHeld, Depth, FlagsKept, top, ticking, release, Reenabled,
           holding, IAt, IGoto
  <1> QED
    BY <1>1, <1>2, <1>3, <1>4, <1>5, <1>6, <1>7

\* A timer interrupt ends, or its process yields.
LEMMA TickControl ==
  ASSUME ControlInv, NEW c \in Cpus, tick(c)
  PROVE  ControlInv'
  <1> USE ConsoleAssumption, SpinlockAssumption DEF ControlInv
  <1>1. ControlTyped'
    BY DEF ControlTyped, ProcPCs, HandlerPCs, top, tick, IAt, IGoto, lockvars
  <1>2. LocksHeld'
    BY DEF ControlTyped, LocksHeld, ConsPCs, PtablePCs, AcquirePCs,
           InterruptiblePCs, ProcPCs, SpinWants, Depth, FlagsKept, top, tick, IAt,
           IGoto, lockvars
  <1>3. SpinWants'
    BY DEF ControlTyped, SpinWants, ConsPCs, PtablePCs, AcquirePCs,
           InterruptiblePCs, LocksHeld, Depth, FlagsKept, top, tick, IAt, IGoto,
           lockvars
  <1>4. Depth'
    BY DEF ControlTyped, Depth, ConsPCs, PtablePCs, AcquirePCs, InterruptiblePCs,
           SpinWants, LocksHeld, FlagsKept, top, tick, IAt, IGoto, lockvars
  <1>5. FlagsKept'
    BY DEF ControlTyped, FlagsKept, ConsPCs, PtablePCs, AcquirePCs,
           InterruptiblePCs, SpinWants, LocksHeld, Depth, top, tick, IAt, IGoto,
           lockvars
  <1>6. Placed'
    BY DEF ControlTyped, Placed, SchedulerPCs, ConsPCs, PtablePCs, AcquirePCs,
           InterruptiblePCs, SpinWants, LocksHeld, Depth, FlagsKept, top, tick, IAt,
           IGoto, lockvars
  <1>7. NoPanic'
    BY DEF ControlTyped, NoPanic, ConsPCs, PtablePCs, AcquirePCs, InterruptiblePCs,
           SpinWants, LocksHeld, Depth, FlagsKept, top, tick, IAt, IGoto, lockvars
  <1> QED
    BY <1>1, <1>2, <1>3, <1>4, <1>5, <1>6, <1>7

\* consoleintr keeps cons.lock over a character.
LEMMA TypedControl ==
  ASSUME ControlInv, NEW c \in Cpus, NEW ch \in Keys, typed(c, ch)
  PROVE  ControlInv'
  <1> USE ConsoleAssumption, SpinlockAssumption DEF ControlInv
  <1>1. ControlTyped'
    BY DEF ControlTyped, ProcPCs, HandlerPCs, top, typed, IAt, IGoto, lockvars
  <1>2. LocksHeld'
    BY DEF ControlTyped, LocksHeld, ConsPCs, PtablePCs, AcquirePCs,
           InterruptiblePCs, ProcPCs, SpinWants, Depth, FlagsKept, top, typed, IAt,
           IGoto, lockvars
  <1>3. SpinWants'
    BY DEF ControlTyped, SpinWants, ConsPCs, PtablePCs, AcquirePCs,
           InterruptiblePCs, LocksHeld, Depth, FlagsKept, top, typed, IAt, IGoto,
           lockvars
  <1>4. Depth'
    BY DEF ControlTyped, Depth, ConsPCs, PtablePCs, AcquirePCs, InterruptiblePCs,
           SpinWants, LocksHeld, FlagsKept, top, typed, IAt, IGoto, lockvars
  <1>5. FlagsKept'
    BY DEF ControlTyped, FlagsKept, ConsPCs, PtablePCs, AcquirePCs,
           InterruptiblePCs, SpinWants, LocksHeld, Depth, top, typed, IAt, IGoto,
           lockvars
  <1>6. Placed'
    BY DEF ControlTyped, Placed, SchedulerPCs, ConsPCs, PtablePCs, AcquirePCs,
           InterruptiblePCs, SpinWants, LocksHeld, Depth, FlagsKept, top, typed,
           IAt, IGoto, lockvars
  <1>7. NoPanic'
    BY DEF ControlTyped, NoPanic, ConsPCs, PtablePCs, AcquirePCs, InterruptiblePCs,
           SpinWants, LocksHeld, Depth, FlagsKept, top, typed, IAt, IGoto, lockvars
  <1> QED
    BY <1>1, <1>2, <1>3, <1>4, <1>5, <1>6, <1>7

\* wakeup lets ptable.lock go: cons.lock is still held.
LEMMA WakingControl ==
  ASSUME ControlInv, NEW c \in Cpus, waking(c)
  PROVE  ControlInv'
  <1> USE ConsoleAssumption, SpinlockAssumption DEF ControlInv
  <1>1. ControlTyped'
    BY DEF ControlTyped, ProcPCs, HandlerPCs, top, waking, release, Reenabled,
           holding, IAt, IGoto
  <1>2. LocksHeld'
    BY DEF ControlTyped, LocksHeld, ConsPCs, PtablePCs, AcquirePCs,
           InterruptiblePCs, ProcPCs, SpinWants, Depth, FlagsKept, top, waking,
           release, Reenabled, holding, IAt, IGoto
  <1>3. SpinWants'
    BY DEF ControlTyped, SpinWants, ConsPCs, PtablePCs, AcquirePCs,
           InterruptiblePCs, LocksHeld, Depth, FlagsKept, top, waking, release,
           Reenabled, holding, IAt, IGoto
  <1>4. Depth'
    BY DEF ControlTyped, Depth, ConsPCs, PtablePCs, AcquirePCs, InterruptiblePCs,
           SpinWants, LocksHeld, FlagsKept, top, waking, release, Reenabled,
           holding, IAt, IGoto
  <1>5. FlagsKept'
    BY DEF ControlTyped, FlagsKept, ConsPCs, PtablePCs, AcquirePCs,
           InterruptiblePCs, SpinWants, LocksHeld, Depth, top, waking, release,
           Reenabled, holding, IAt, IGoto
  <1>6. Placed'
    BY DEF ControlTyped, Placed, SchedulerPCs, ConsPCs, PtablePCs, AcquirePCs,
           InterruptiblePCs, SpinWants, LocksHeld, Depth, FlagsKept, top, waking,
           release, Reenabled, holding, IAt, IGoto
  <1>7. NoPanic'
    BY DEF ControlTyped, NoPanic, ConsPCs, PtablePCs, AcquirePCs, InterruptiblePCs,
           SpinWants, LocksHeld, Depth, FlagsKept, top, waking, release, Reenabled,
           holding, IAt, IGoto
  <1> QED
    BY <1>1, <1>2, <1>3, <1>4, <1>5, <1>6, <1>7

\* consoleintr lets cons.lock go: interrupts stay off until iret.
LEMMA TypedAllControl ==
  ASSUME ControlInv, NEW c \in Cpus, typed_all(c)
  PROVE  ControlInv'
  <1> USE ConsoleAssumption, SpinlockAssumption DEF ControlInv
  <1>1. ControlTyped'
    BY DEF ControlTyped, ProcPCs, HandlerPCs, top, typed_all, release, Reenabled,
           holding, IAt, IGoto
  <1>2. LocksHeld'
    BY DEF ControlTyped, LocksHeld, ConsPCs, PtablePCs, AcquirePCs,
           InterruptiblePCs, ProcPCs, SpinWants, Depth, FlagsKept, top, typed_all,
           release, Reenabled, holding, IAt, IGoto
  <1>3. SpinWants'
    BY DEF ControlTyped, SpinWants, ConsPCs, PtablePCs, AcquirePCs,
           InterruptiblePCs, LocksHeld, Depth, FlagsKept, top, typed_all, release,
           Reenabled, holding, IAt, IGoto
  <1>4. Depth'
    BY DEF ControlTyped, Depth, ConsPCs, PtablePCs, AcquirePCs, InterruptiblePCs,
           SpinWants, LocksHeld, FlagsKept, top, typed_all, release, Reenabled,
           holding, IAt, IGoto
  <1>5. FlagsKept'
    BY DEF ControlTyped, FlagsKept, ConsPCs, PtablePCs, AcquirePCs,
           InterruptiblePCs, SpinWants, LocksHeld, Depth, top, typed_all, release,
           Reenabled, holding, IAt, IGoto
  <1>6. Placed'
    BY DEF ControlTyped, Placed, SchedulerPCs, ConsPCs, PtablePCs, AcquirePCs,
           InterruptiblePCs, SpinWants, LocksHeld, Depth, FlagsKept, top, typed_all,
           release, Reenabled, holding, IAt, IGoto
  <1>7. NoPanic'
    BY DEF ControlTyped, NoPanic, ConsPCs, PtablePCs, AcquirePCs, InterruptiblePCs,
           SpinWants, LocksHeld, Depth, FlagsKept, top, typed_all, release,
           Reenabled, holding, IAt, IGoto
  <1> QED
    BY <1>1, <1>2, <1>3, <1>4, <1>5, <1>6, <1>7

\* procdump lets cons.lock go between two lines.
LEMMA DumpingControl ==
  ASSUME ControlInv, NEW c \in Cpus, dumping(c)
  PROVE  ControlInv'
  <1> USE ConsoleAssumption, SpinlockAssumption DEF ControlInv
  <1>1. ControlTyped'
    BY DEF ControlTyped, ProcPCs, HandlerPCs, top, dumping, release, Reenabled,
           holding, IAt, IGoto
  <1>2. LocksHeld'
    BY DEF ControlTyped, LocksHeld, ConsPCs, PtablePCs, AcquirePCs,
           InterruptiblePCs, ProcPCs, SpinWants, Depth, FlagsKept, top, dumping,
           release, Reenabled, holding, IAt, IGoto
  <1>3. SpinWants'
    BY DEF ControlTyped, SpinWants, ConsPCs, PtablePCs, AcquirePCs,
           InterruptiblePCs, LocksHeld, Depth, FlagsKept, top, dumping, release,
           Reenabled, holding, IAt, IGoto
  <1>4. Depth'
    BY DEF ControlTyped, Depth, ConsPCs, PtablePCs, AcquirePCs, InterruptiblePCs,
           SpinWants, LocksHeld, FlagsKept, top, dumping, release, Reenabled,
           holding, IAt, IGoto
  <1>5. FlagsKept'
    BY DEF ControlTyped, FlagsKept, ConsPCs, PtablePCs, AcquirePCs,
           InterruptiblePCs, SpinWants, LocksHeld, Depth, top, dumping, release,
           Reenabled, holding, IAt, IGoto
  <1>6. Placed'
    BY DEF ControlTyped, Placed, SchedulerPCs, ConsPCs, PtablePCs, AcquirePCs,
           InterruptiblePCs, SpinWants, LocksHeld, Depth, FlagsKept, top, dumping,
           release, Reenabled, holding, IAt, IGoto
  <1>7. NoPanic'
    BY DEF ControlTyped, NoPanic, ConsPCs, PtablePCs, AcquirePCs, InterruptiblePCs,
           SpinWants, LocksHeld, Depth, FlagsKept, top, dumping, release, Reenabled,
           holding, IAt, IGoto
  <1> QED
    BY <1>1, <1>2, <1>3, <1>4, <1>5, <1>6, <1>7

\* At the start no lock is held and interrupts are on.
LEMMA InitControl == Init => ControlInv
  <1> SUFFICES ASSUME Init PROVE ControlInv
    OBVIOUS
  <1> USE ConsoleAssumption, SpinlockAssumption DEF Init, SpinlockInit
  <1>1. ControlTyped
    BY DEF ControlTyped, ProcPCs, HandlerPCs, Contexts
  <1>2. LocksHeld /\ SpinWants
    BY DEF LocksHeld, SpinWants, top, ConsPCs, PtablePCs
  <1>3. Depth /\ FlagsKept /\ Placed /\ NoPanic
    BY DEF Depth, FlagsKept, Placed, NoPanic, top, ConsPCs, PtablePCs, SchedulerPCs
  <1> QED
    BY <1>1, <1>2, <1>3 DEF ControlInv

\* Every step of a processor preserves it.
LEMMA NextControl == ControlInv /\ [Next]_vars => ControlInv'
  <1> SUFFICES ASSUME ControlInv, [Next]_vars PROVE ControlInv'
    OBVIOUS
  <1>1. CASE UNCHANGED vars
    BY <1>1 DEF vars, lockvars, contvars, ControlInv, ControlTyped, LocksHeld, SpinWants,
                Depth, FlagsKept, Placed, NoPanic, top
  <1>2. CASE Next
    <2>1. PICK c \in Cpus :
            \/ do_acquire(c) \/ acquired(c)
            \/ \E n \in Counts : call_read(c, n)
            \/ call_write(c) \/ written(c)
            \/ read_nothing(c) \/ read_killed(c) \/ read_sleep(c) \/ read_char(c)
            \/ sleep(c) \/ yielding(c) \/ sched(c) \/ scheduler(c) \/ scanned(c)
            \/ \E p \in Procs : dispatch(c, p) \/ kill(p)
            \/ \E kind \in {"kbd", "timer"} : interrupt(c, kind)
            \/ iret(c) \/ ticking(c) \/ tick(c)
            \/ \E ch \in Keys : typed(c, ch)
            \/ waking(c) \/ typed_all(c) \/ dumping(c)
      BY <1>2 DEF Next
    <2>2. CASE do_acquire(c) \/ acquired(c)
      BY <2>2, DoAcquireControl, AcquiredControl
    <2>3. CASE (\E n \in Counts : call_read(c, n)) \/ call_write(c) \/ written(c)
      BY <2>3, CallReadControl, CallWriteControl, ReturnControl DEF written
    <2>4. CASE read_nothing(c) \/ read_killed(c) \/ read_sleep(c) \/ read_char(c)
      BY <2>4, ReturnControl, ReadSleepControl, ReadCharControl DEF read_nothing, read_killed
    <2>5. CASE sleep(c) \/ yielding(c) \/ sched(c) \/ scheduler(c) \/ scanned(c)
      BY <2>5, SleepControl, YieldingControl, SchedControl, SchedulerControl, ScannedControl
    <2>6. CASE \E p \in Procs : dispatch(c, p) \/ kill(p)
      BY <2>6, DispatchControl, KillControl
    <2>7. CASE (\E kind \in {"kbd", "timer"} : interrupt(c, kind)) \/ iret(c) \/ ticking(c) \/ tick(c)
      BY <2>7, InterruptControl, IretControl, TickingControl, TickControl
    <2>8. CASE (\E ch \in Keys : typed(c, ch)) \/ waking(c) \/ typed_all(c) \/ dumping(c)
      BY <2>8, TypedControl, WakingControl, TypedAllControl, DumpingControl
    <2> QED
      BY <2>1, <2>2, <2>3, <2>4, <2>5, <2>6, <2>7, <2>8
  <1> QED
    BY <1>1, <1>2

\* Where a processor is determines its locks, its nesting of pushcli and its interrupt
\* flag, and a process that was switched out in sleep or in yield keeps the intena of its
\* own, in every reachable state and for every number of processors and processes.
THEOREM ControlCorrect == Spec => []ControlInv
  BY InitControl, NextControl, PTL DEF Spec

\* Nobody waits in a circle and nothing panics: acquire is never called for a lock that
\* is held, release never without it, and sched only with ptable.lock alone; whoever
\* holds ptable.lock waits for no lock.
THEOREM LocksAreSound == Spec => []LocksSound
  <1>1. ControlInv => LocksSound
    <2> SUFFICES ASSUME ControlInv PROVE LocksSound
      OBVIOUS
    <2> USE ConsoleAssumption, SpinlockAssumption DEF ControlInv
    <2>1. ASSUME NEW c \in Cpus, spin[c] # "none", lock[spin[c]] # NoCpu,
                 NEW d, d = lock[spin[c]]
          PROVE  spin[d] = "none" \/ lock[spin[d]] # c
      <3>1. top(c) \in AcquirePCs /\ spin[c] = Wants[top(c)]
        BY <2>1 DEF SpinWants
      <3>2. spin[c] \in Locks
        BY <2>1 DEF ControlTyped
      <3>3. d \in Cpus
        BY <2>1, <3>2 DEF ControlTyped
      <3>4. CASE spin[c] = "ptable"
        <4>1. top(d) \in PtablePCs
          BY <2>1, <3>3, <3>4 DEF LocksHeld
        <4> QED
          BY <3>3, <4>1 DEF SpinWants, PtablePCs, AcquirePCs
      <3>5. CASE spin[c] = "cons"
        <4>1. top(c) \notin ConsPCs /\ top(c) \notin PtablePCs
          BY <3>1, <3>5, Tables
        <4>2. lock["cons"] # c /\ lock["ptable"] # c
          BY <4>1 DEF LocksHeld
        <4> QED
          BY <3>3, <4>2 DEF ControlTyped
      <3> QED
        BY <3>2, <3>4, <3>5
    <2> QED
      BY <2>1 DEF LocksSound, NoLockCycle
  <1> QED
    BY <1>1, ControlCorrect, PTL

-----------------------------------------------------------------------------
(***************************************************************************)
(* The ring.  All its indices are taken modulo WRAP.                       *)
(***************************************************************************)

Index == 0 .. WRAP - 1

\* How far apart two indices are, and what one more and one less is.
LEMMA IndexArith ==
  ASSUME NEW i \in Index, NEW j \in Index
  PROVE  /\ Used(i, j) = (IF j <= i THEN i - j ELSE i - j + WRAP)
         /\ Used(i, j) \in Index
         /\ Plus1(i) = (IF i + 1 < WRAP THEN i + 1 ELSE 0)
         /\ Plus1(i) \in Index
         /\ Minus1(i) = (IF i > 0 THEN i - 1 ELSE WRAP - 1)
         /\ Minus1(i) \in Index
  <1>1. WRAP \in Nat \ {0} /\ i \in 0 .. WRAP - 1 /\ j \in 0 .. WRAP - 1
    BY ConsoleAssumption DEF Index
  <1>2. WRAP > 1 /\ 1 \in 0 .. WRAP /\ 1 \in 0 .. WRAP - 1
    BY ConsoleAssumption
  <1>3. (i - j) % WRAP = IF j <= i THEN i - j ELSE i - j + WRAP
    BY <1>1, Gap
  <1>4. (i + 1) % WRAP = IF i + 1 < WRAP THEN i + 1 ELSE i + 1 - WRAP
    BY <1>1, <1>2, Advance
  <1>5. (i - 1) % WRAP = IF 1 <= i THEN i - 1 ELSE i - 1 + WRAP
    BY <1>1, <1>2, Gap
  <1> QED
    BY <1>1, <1>2, <1>3, <1>4, <1>5 DEF Index, Used, Plus1, Minus1

\* Nothing lies between an index and itself.
LEMMA UsedSelf ==
  ASSUME NEW i \in Index
  PROVE  Used(i, i) = 0
  <1>1. Used(i, i) = (IF i <= i THEN i - i ELSE i - i + WRAP) /\ i \in Int
    BY IndexArith DEF Index
  <1> QED
    BY <1>1

\* Wrapping an index around does not move its place in the ring.
LEMMA Place ==
  ASSUME NEW i \in Index, NEW d \in 0 .. WRAP
  PROVE  ((i + d) % WRAP) % INPUT_BUF = (i + d) % INPUT_BUF
  <1> DEFINE a == (i + d) % WRAP
  <1>1. /\ WRAP \in Nat \ {0} /\ WRAP % INPUT_BUF = 0 /\ INPUT_BUF \in Nat \ {0}
        /\ i \in 0 .. WRAP - 1 /\ WRAP \in Nat
    BY ConsoleAssumption DEF Index
  <1>2. a = IF i + d < WRAP THEN i + d ELSE i + d - WRAP
    BY <1>1, Advance
  <1> HIDE DEF a
  <1>3. a \in Nat /\ (i + d = a \/ i + d = a + WRAP)
    BY <1>1, <1>2
  <1>4. (a + WRAP) % INPUT_BUF = a % INPUT_BUF
    BY <1>1, <1>3, ModPlus
  <1> QED
    BY <1>3, <1>4 DEF a

\* An index j that is d places ahead of i lies at the place of i + d.
LEMMA PlaceAhead ==
  ASSUME NEW i \in Index, NEW j \in Index, NEW k \in 0 .. WRAP - Used(j, i)
  PROVE  (i + (Used(j, i) + k)) % INPUT_BUF = (j + k) % INPUT_BUF
  <1> DEFINE d == Used(j, i)
             a == j + k
  <1>1. /\ WRAP \in Nat \ {0} /\ WRAP % INPUT_BUF = 0 /\ INPUT_BUF \in Nat \ {0}
        /\ i \in 0 .. WRAP - 1 /\ j \in 0 .. WRAP - 1 /\ WRAP \in Nat
    BY ConsoleAssumption DEF Index
  <1>2. d = (IF i <= j THEN j - i ELSE j - i + WRAP) /\ d \in 0 .. WRAP - 1
    BY IndexArith DEF Index
  <1>3. k \in 0 .. WRAP - d
    OBVIOUS
  <1> HIDE DEF d
  <1>4. a \in Nat
    BY <1>1, <1>2, <1>3
  <1>5. i + (d + k) = a \/ i + (d + k) = a + WRAP
    BY <1>1, <1>2, <1>3
  <1> HIDE DEF a
  <1>6. (a + WRAP) % INPUT_BUF = a % INPUT_BUF
    BY <1>1, <1>4, ModPlus
  <1>7. (i + (d + k)) % INPUT_BUF = a % INPUT_BUF
    BY <1>5, <1>6
  <1> QED
    BY <1>7 DEF a, d

\* The place behind a line that does not fill the ring is none of the line's.
LEMMA PlaceFree ==
  ASSUME NEW i \in Index, NEW j \in Index, Used(j, i) < INPUT_BUF,
         NEW d \in 0 .. Used(j, i) - 1
  PROVE  (i + d) % INPUT_BUF # j % INPUT_BUF
  <1> DEFINE g == Used(j, i)
             a == i + d
             b == i + g
  <1>1. INPUT_BUF \in Nat \ {0} /\ i \in Nat /\ j \in Nat /\ WRAP \in Nat
    BY ConsoleAssumption DEF Index
  <1>2. g \in 0 .. WRAP - 1 /\ g < INPUT_BUF /\ d \in 0 .. g - 1
    BY IndexArith DEF Index
  <1>3. b % INPUT_BUF = j % INPUT_BUF
    <2>1. 0 \in 0 .. WRAP - Used(j, i)
      BY <1>1, <1>2
    <2>2. (i + (Used(j, i) + 0)) % INPUT_BUF = (j + 0) % INPUT_BUF
      BY <2>1, PlaceAhead
    <2>3. i + (g + 0) = b /\ j + 0 = j
      BY <1>1, <1>2
    <2> QED
      BY <2>2, <2>3
  <1> HIDE DEF g
  <1>4. a \in Nat /\ b \in Nat /\ a < b /\ b < a + INPUT_BUF
    BY <1>1, <1>2
  <1> HIDE DEF a, b
  <1>5. a % INPUT_BUF # b % INPUT_BUF
    BY <1>1, <1>4, ModDistinct
  <1>6. a % INPUT_BUF # j % INPUT_BUF
    BY <1>3, <1>5
  <1> QED
    BY <1>6 DEF a

RingTyped ==
  /\ buf \in [0 .. INPUT_BUF - 1 -> Stored]
  /\ r \in Index /\ w \in Index /\ e \in Index

\* No line ends in the part of the ring that may still be edited: there Control-U stops
\* nowhere but at its start.
EditPlain == \A d \in 0 .. Used(e, w) - 1 : buf[(w + d) % INPUT_BUF] = "a"

RingInv == RingTyped /\ FullIsReadable /\ EditPlain

\* The three indices in order: entered and edited characters add up.
LEMMA UsedAddsUp ==
  ASSUME RingInv
  PROVE  /\ Used(e, r) = Used(w, r) + Used(e, w)
         /\ Used(w, r) \in Nat /\ Used(e, w) \in Nat
         /\ Used(e, r) \in 0 .. INPUT_BUF
         /\ Used(e, w) = 0 <=> e = w
         /\ Used(w, r) = 0 <=> r = w
  <1>1. r \in Index /\ w \in Index /\ e \in Index
    BY DEF RingInv, RingTyped
  <1>2. WRAP \in Nat /\ INPUT_BUF \in Nat
    BY ConsoleAssumption
  <1>3. Used(e, r) = (IF r <= e THEN e - r ELSE e - r + WRAP)
    BY <1>1, IndexArith
  <1>4. Used(w, r) = (IF r <= w THEN w - r ELSE w - r + WRAP)
    BY <1>1, IndexArith
  <1>5. Used(e, w) = (IF w <= e THEN e - w ELSE e - w + WRAP)
    BY <1>1, IndexArith
  <1> QED
    BY <1>1, <1>2, <1>3, <1>4, <1>5 DEF Index, RingInv, FullIsReadable

\* Control-U erases the line that is being typed, and nothing that was entered.
LEMMA KillsLine ==
  ASSUME RingInv
  PROVE  KilledTo = w
  <1> DEFINE g == Used(e, w)
             line == 1 .. g
             stop == {k \in line : buf[((e - k) % WRAP) % INPUT_BUF] = "\n"}
  <1>1. /\ WRAP \in Nat \ {0} /\ INPUT_BUF \in Nat \ {0}
        /\ e \in 0 .. WRAP - 1 /\ w \in 0 .. WRAP - 1 /\ e \in Index /\ w \in Index
    BY ConsoleAssumption DEF RingInv, RingTyped, Index
  <1>2. g = (IF w <= e THEN e - w ELSE e - w + WRAP) /\ g \in 0 .. WRAP - 1
    BY <1>1, IndexArith DEF Index
  <1>3. ASSUME NEW k \in line
        PROVE  buf[((e - k) % WRAP) % INPUT_BUF] = "a"
    <2> DEFINE d == g - k
    <2>1. k \in 0 .. WRAP - 1 /\ d \in 0 .. g - 1 /\ d \in 0 .. WRAP
      BY <1>1, <1>2
    <2>2. (e - k) % WRAP = IF k <= e THEN e - k ELSE e - k + WRAP
      BY <1>1, <2>1, Gap
    <2>3. (w + d) % WRAP = IF w + d < WRAP THEN w + d ELSE w + d - WRAP
      BY <1>1, <2>1, Advance
    <2>4. (e - k) % WRAP = (w + d) % WRAP
      BY <1>1, <1>2, <2>1, <2>2, <2>3
    <2>5. ((w + d) % WRAP) % INPUT_BUF = (w + d) % INPUT_BUF
      BY <1>1, <2>1, Place
    <2>6. buf[(w + d) % INPUT_BUF] = "a"
      BY <2>1 DEF RingInv, EditPlain
    <2> QED
      BY <2>4, <2>5, <2>6
  <1>4. stop = {}
    BY <1>3
  <1>5. KilledTo = CHOOSE i \in 0 .. WRAP - 1 : i = w
    BY <1>4 DEF KilledTo
  <1> QED
    BY <1>1, <1>5

\* A character that is stored goes behind the line; it enters the line when it ends it
\* or fills the ring.
LEMMA StoreRing ==
  ASSUME RingInv, NEW ch \in Stored, HasRoom,
         buf' = [buf EXCEPT ![e % INPUT_BUF] = ch], e' = Plus1(e), r' = r,
         w' = IF Complete(ch) THEN Plus1(e) ELSE w
  PROVE  /\ RingInv'
         /\ Used(e', r') = Used(e, r) + 1
         /\ Plus1(e) = (r + INPUT_BUF) % WRAP <=> Used(e, r) + 1 = INPUT_BUF
         /\ \A d \in 0 .. Used(e, r) - 1 : buf'[(r + d) % INPUT_BUF] = buf[(r + d) % INPUT_BUF]
         /\ \A d \in 0 .. Used(e, w) - 1 : buf'[(w + d) % INPUT_BUF] = buf[(w + d) % INPUT_BUF]
         /\ buf'[e % INPUT_BUF] = ch
         /\ Used(e', w) = Used(e, w) + 1
  <1>1. /\ WRAP \in Nat \ {0} /\ INPUT_BUF \in Nat \ {0} /\ INPUT_BUF < WRAP
        /\ INPUT_BUF \in 0 .. WRAP /\ r \in 0 .. WRAP - 1
        /\ r \in Index /\ w \in Index /\ e \in Index /\ e \in Nat /\ r \in Nat /\ w \in Nat
    BY ConsoleAssumption DEF RingInv, RingTyped, Index
  <1>2. /\ Used(e, r) = (IF r <= e THEN e - r ELSE e - r + WRAP)
        /\ Plus1(e) = (IF e + 1 < WRAP THEN e + 1 ELSE 0)
        /\ Plus1(e) \in Index
    BY <1>1, IndexArith
  <1>3. Used(e, w) = (IF w <= e THEN e - w ELSE e - w + WRAP)
    BY <1>1, IndexArith
  <1>4. /\ Used(e, r) = Used(w, r) + Used(e, w)
        /\ Used(w, r) \in Nat /\ Used(e, w) \in Nat
    BY UsedAddsUp
  <1>5. Used(e, r) < INPUT_BUF /\ Used(e, w) < INPUT_BUF
    BY <1>1, <1>2, <1>3, <1>4 DEF HasRoom
  <1>6. Used(Plus1(e), r) = Used(e, r) + 1
    <2>1. Used(Plus1(e), r) = (IF r <= Plus1(e) THEN Plus1(e) - r ELSE Plus1(e) - r + WRAP)
      BY <1>1, <1>2, IndexArith
    <2> QED
      BY <2>1, <1>1, <1>2, <1>5 DEF Index
  <1>7. Used(Plus1(e), w) = Used(e, w) + 1
    <2>1. Used(Plus1(e), w) = (IF w <= Plus1(e) THEN Plus1(e) - w ELSE Plus1(e) - w + WRAP)
      BY <1>1, <1>2, IndexArith
    <2> QED
      BY <2>1, <1>1, <1>2, <1>3, <1>5 DEF Index
  <1>8. Plus1(e) = (r + INPUT_BUF) % WRAP <=> Used(e, r) + 1 = INPUT_BUF
    <2>1. (r + INPUT_BUF) % WRAP
            = IF r + INPUT_BUF < WRAP THEN r + INPUT_BUF ELSE r + INPUT_BUF - WRAP
      BY <1>1, Advance
    <2> QED
      BY <2>1, <1>1, <1>2, <1>5 DEF Index
  <1>9. /\ e % INPUT_BUF \in 0 .. INPUT_BUF - 1
        /\ DOMAIN buf = 0 .. INPUT_BUF - 1
    BY <1>1, ModRange DEF RingInv, RingTyped
  <1>10. ASSUME NEW i \in Index, Used(e, i) \in Nat, Used(e, i) < INPUT_BUF,
                NEW d \in 0 .. Used(e, i) - 1
         PROVE  buf'[(i + d) % INPUT_BUF] = buf[(i + d) % INPUT_BUF]
    <2> DEFINE x == (i + d) % INPUT_BUF
    <2>1. x # e % INPUT_BUF
      BY <1>1, <1>10, PlaceFree
    <2>2. i + d \in Int
      BY <1>1, <1>10 DEF Index
    <2>3. x \in 0 .. INPUT_BUF - 1
      BY <1>1, <2>2, ModRange
    <2> HIDE DEF x
    <2>4. buf'[x] = buf[x]
      BY <1>9, <2>1, <2>3
    <2> QED
      BY <2>4 DEF x
  <1>11. \A d \in 0 .. Used(e, r) - 1 : buf'[(r + d) % INPUT_BUF] = buf[(r + d) % INPUT_BUF]
    BY <1>1, <1>4, <1>5, <1>10
  <1>12. \A d \in 0 .. Used(e, w) - 1 : buf'[(w + d) % INPUT_BUF] = buf[(w + d) % INPUT_BUF]
    BY <1>1, <1>4, <1>5, <1>10
  <1>13. buf'[e % INPUT_BUF] = ch
    BY <1>9
  <1>14. RingTyped'
    BY <1>1, <1>2 DEF RingInv, RingTyped
  <1>15. FullIsReadable'
    <2>1. CASE Complete(ch)
      BY <2>1, <1>1, <1>5, <1>6, <1>4 DEF FullIsReadable
    <2>2. CASE ~Complete(ch)
      <3>1. Used(e, r) + 1 # INPUT_BUF
        BY <2>2, <1>8 DEF Complete
      <3> QED
        BY <2>2, <3>1, <1>1, <1>4, <1>5, <1>6 DEF FullIsReadable
    <2> QED
      BY <2>1, <2>2
  <1>16. EditPlain'
    <2>1. CASE Complete(ch)
      <3>1. Used(e', w') = 0
        BY <2>1, <1>2, UsedSelf
      <3> QED
        BY <3>1 DEF EditPlain
    <2>2. CASE ~Complete(ch)
      <3>1. ch = "a"
        BY <2>2 DEF Complete, Stored
      <3>2. ASSUME NEW d \in 0 .. Used(e', w') - 1
            PROVE  buf'[(w' + d) % INPUT_BUF] = "a"
        <4>1. d \in 0 .. Used(e, w) /\ w' = w
          BY <2>2, <1>4, <1>7
        <4>2. CASE d \in 0 .. Used(e, w) - 1
          BY <4>1, <4>2, <1>12 DEF RingInv, EditPlain
        <4>3. CASE d = Used(e, w)
          <5>1. 0 \in 0 .. WRAP - Used(e, w)
            BY <1>1, <1>4, <1>5
          <5>2. (w + (Used(e, w) + 0)) % INPUT_BUF = (e + 0) % INPUT_BUF
            BY <1>1, <5>1, PlaceAhead
          <5>3. Used(e, w) + 0 = d /\ e + 0 = e
            BY <1>1, <1>4, <4>3
          <5>4. (w + d) % INPUT_BUF = e % INPUT_BUF
            BY <5>2, <5>3
          <5> QED
            BY <3>1, <4>1, <5>4, <1>13
        <4> QED
          BY <1>4, <4>1, <4>2, <4>3
      <3> QED
        BY <3>2 DEF EditPlain
    <2> QED
      BY <2>1, <2>2
  <1> QED
    BY <1>6, <1>7, <1>8, <1>11, <1>12, <1>13, <1>14, <1>15, <1>16 DEF RingInv

\* A backspace takes one character of the line that is being typed.
LEMMA BackspaceRing ==
  ASSUME RingInv, Erasable, e' = Minus1(e), UNCHANGED <<buf, r, w>>
  PROVE  /\ RingInv'
         /\ Used(e, w) \in Nat \ {0}
         /\ Used(e', w) = Used(e, w) - 1
  <1>1. /\ WRAP \in Nat \ {0} /\ INPUT_BUF \in Nat \ {0}
        /\ r \in Index /\ w \in Index /\ e \in Index
    BY ConsoleAssumption DEF RingInv, RingTyped
  <1>2. /\ Used(e, r) = (IF r <= e THEN e - r ELSE e - r + WRAP)
        /\ Minus1(e) = (IF e > 0 THEN e - 1 ELSE WRAP - 1)
        /\ Minus1(e) \in Index
    BY <1>1, IndexArith
  <1>3. Used(e, w) = (IF w <= e THEN e - w ELSE e - w + WRAP)
    BY <1>1, IndexArith
  <1>4. /\ Used(e, r) = Used(w, r) + Used(e, w)
        /\ Used(w, r) \in Nat /\ Used(e, w) \in Nat
        /\ Used(e, r) \in 0 .. INPUT_BUF
        /\ Used(e, w) # 0
    BY UsedAddsUp DEF Erasable
  <1>5. Used(Minus1(e), r) = Used(e, r) - 1
    <2>1. Used(Minus1(e), r) = (IF r <= Minus1(e) THEN Minus1(e) - r ELSE Minus1(e) - r + WRAP)
      BY <1>1, <1>2, IndexArith
    <2> QED
      BY <2>1, <1>1, <1>2, <1>4 DEF Index
  <1>6. Used(Minus1(e), w) = Used(e, w) - 1
    <2>1. Used(Minus1(e), w) = (IF w <= Minus1(e) THEN Minus1(e) - w ELSE Minus1(e) - w + WRAP)
      BY <1>1, <1>2, IndexArith
    <2> QED
      BY <2>1, <1>1, <1>2, <1>3, <1>4 DEF Index
  <1>7. RingTyped'
    BY <1>1, <1>2 DEF RingInv, RingTyped
  <1>8. FullIsReadable'
    BY <1>1, <1>4, <1>5 DEF RingInv, FullIsReadable
  <1>9. EditPlain'
    BY <1>4, <1>6 DEF RingInv, EditPlain
  <1> QED
    BY <1>4, <1>6, <1>7, <1>8, <1>9 DEF RingInv

\* Control-U takes all of it.
LEMMA KillRing ==
  ASSUME RingInv, e' = KilledTo, UNCHANGED <<buf, r, w>>
  PROVE  RingInv' /\ e' = w' /\ Used(e', w') = 0
  <1>1. /\ INPUT_BUF \in Nat \ {0} /\ r \in Index /\ w \in Index
        /\ e' = w /\ w' = w /\ r' = r /\ buf' = buf
    BY KillsLine, ConsoleAssumption DEF RingInv, RingTyped
  <1>2. /\ Used(w, r) \in Nat /\ Used(w, r) <= INPUT_BUF
    BY <1>1, UsedAddsUp
  <1>3. Used(w, w) = 0
    BY <1>1, UsedSelf
  <1>4. RingTyped'
    BY <1>1 DEF RingInv, RingTyped
  <1>5. FullIsReadable'
    BY <1>1, <1>2 DEF FullIsReadable
  <1>6. EditPlain'
    BY <1>1, <1>3 DEF EditPlain
  <1> QED
    BY <1>1, <1>3, <1>4, <1>5, <1>6 DEF RingInv

\* A reader takes the oldest character that has been entered.
LEMMA ReadRing ==
  ASSUME RingInv, r # w, r' = Plus1(r), UNCHANGED <<buf, w, e>>
  PROVE  /\ RingInv'
         /\ Used(w, r) \in Nat \ {0}
         /\ Used(w, r') = Used(w, r) - 1
  <1>1. /\ WRAP \in Nat \ {0} /\ INPUT_BUF \in Nat \ {0}
        /\ r \in Index /\ w \in Index /\ e \in Index
    BY ConsoleAssumption DEF RingInv, RingTyped
  <1>2. /\ Used(e, r) = (IF r <= e THEN e - r ELSE e - r + WRAP)
        /\ Plus1(r) = (IF r + 1 < WRAP THEN r + 1 ELSE 0)
        /\ Plus1(r) \in Index
    BY <1>1, IndexArith
  <1>3. Used(w, r) = (IF r <= w THEN w - r ELSE w - r + WRAP)
    BY <1>1, IndexArith
  <1>4. /\ Used(e, r) = Used(w, r) + Used(e, w)
        /\ Used(w, r) \in Nat /\ Used(e, w) \in Nat
        /\ Used(e, r) \in 0 .. INPUT_BUF
        /\ Used(w, r) # 0
    BY UsedAddsUp
  <1>5. Used(e, Plus1(r)) = Used(e, r) - 1
    <2>1. Used(e, Plus1(r)) = (IF Plus1(r) <= e THEN e - Plus1(r) ELSE e - Plus1(r) + WRAP)
      BY <1>1, <1>2, IndexArith
    <2> QED
      BY <2>1, <1>1, <1>2, <1>4 DEF Index
  <1>6. Used(w, Plus1(r)) = Used(w, r) - 1
    <2>1. Used(w, Plus1(r)) = (IF Plus1(r) <= w THEN w - Plus1(r) ELSE w - Plus1(r) + WRAP)
      BY <1>1, <1>2, IndexArith
    <2> QED
      BY <2>1, <1>1, <1>2, <1>3, <1>4 DEF Index
  <1>7. RingTyped'
    BY <1>1, <1>2 DEF RingInv, RingTyped
  <1>8. FullIsReadable'
    BY <1>1, <1>4, <1>5, <1>6 DEF RingInv, FullIsReadable
  <1>9. EditPlain'
    BY DEF RingInv, EditPlain
  <1> QED
    BY <1>4, <1>6, <1>7, <1>8, <1>9 DEF RingInv

\* The steps that touch the ring.
RingStep(c) == read_char(c) \/ \E ch \in Keys : typed(c, ch)

\* A character is taken by a reader, or handled by the interrupt handler; all other
\* steps leave the ring alone.
LEMMA RingStepsOnly ==
  ASSUME [Next]_vars, \A d \in Cpus : ~RingStep(d)
  PROVE  UNCHANGED ring
  <1>1. CASE UNCHANGED vars
    BY <1>1 DEF vars, ring
  <1>2. CASE Next
    <2>1. PICK d \in Cpus :
            \/ do_acquire(d) \/ acquired(d)
            \/ \E n \in Counts : call_read(d, n)
            \/ call_write(d) \/ written(d)
            \/ read_nothing(d) \/ read_killed(d) \/ read_sleep(d)
            \/ sleep(d) \/ yielding(d) \/ sched(d) \/ scheduler(d) \/ scanned(d)
            \/ \E p \in Procs : dispatch(d, p) \/ kill(p)
            \/ \E kind \in {"kbd", "timer"} : interrupt(d, kind)
            \/ iret(d) \/ ticking(d) \/ tick(d) \/ waking(d) \/ typed_all(d) \/ dumping(d)
      BY <1>2 DEF Next, RingStep
    <2> QED
      BY <2>1 DEF ring, do_acquire, acquired, call_read, call_write, written, read_nothing,
                  read_killed, read_sleep, Return, sleep, yielding, sched, scheduler, scanned,
                  dispatch, kill, interrupt, iret, ticking, tick, waking, typed_all, dumping
  <1> QED
    BY <1>1, <1>2

\* What a reader's turn of the loop does to the ring: an end of file may stay.
LEMMA ReadCharRing ==
  ASSUME NEW c \in Cpus, read_char(c)
  PROVE  /\ UNCHANGED <<buf, w, e>> /\ r # w
         /\ r' = r \/ r' = Plus1(r)
  BY DEF read_char, Return

\* What a typed character does to it.
LEMMA TypedRing ==
  ASSUME NEW c \in Cpus, NEW ch \in Keys, typed(c, ch)
  PROVE  \/ UNCHANGED ring
         \/ e' = KilledTo /\ UNCHANGED <<buf, r, w>>
         \/ Erasable /\ e' = Minus1(e) /\ UNCHANGED <<buf, r, w>>
         \/ /\ ch \in Stored /\ HasRoom /\ r' = r
            /\ buf' = [buf EXCEPT ![e % INPUT_BUF] = ch]
            /\ e' = Plus1(e)
            /\ w' = IF Complete(ch) THEN Plus1(e) ELSE w
  BY DEF typed, ring

\* Every step keeps the ring's indices in order, and the edited line free of ends.
LEMMA NextRing == RingInv /\ [Next]_vars => RingInv'
  <1> SUFFICES ASSUME RingInv, [Next]_vars PROVE RingInv'
    OBVIOUS
  <1>1. ASSUME UNCHANGED ring
        PROVE  RingInv'
    BY <1>1 DEF ring, RingInv, RingTyped, FullIsReadable, EditPlain
  <1>2. ASSUME NEW c \in Cpus, read_char(c)
        PROVE  RingInv'
    <2>1. UNCHANGED <<buf, w, e>> /\ r # w /\ (r' = r \/ r' = Plus1(r))
      BY <1>2, ReadCharRing
    <2>2. CASE r' = r
      BY <1>1, <2>1, <2>2 DEF ring
    <2>3. CASE r' = Plus1(r)
      BY <2>1, <2>3, ReadRing
    <2> QED
      BY <2>1, <2>2, <2>3
  <1>3. ASSUME NEW c \in Cpus, NEW ch \in Keys, typed(c, ch)
        PROVE  RingInv'
    <2>1. CASE UNCHANGED ring
      BY <1>1, <2>1
    <2>2. CASE e' = KilledTo /\ UNCHANGED <<buf, r, w>>
      BY <2>2, KillRing
    <2>3. CASE Erasable /\ e' = Minus1(e) /\ UNCHANGED <<buf, r, w>>
      BY <2>3, BackspaceRing
    <2>4. CASE /\ ch \in Stored /\ HasRoom /\ r' = r
               /\ buf' = [buf EXCEPT ![e % INPUT_BUF] = ch]
               /\ e' = Plus1(e)
               /\ w' = IF Complete(ch) THEN Plus1(e) ELSE w
      BY <2>4, StoreRing
    <2> QED
      BY <1>3, <2>1, <2>2, <2>3, <2>4, TypedRing
  <1> QED
    BY <1>1, <1>2, <1>3, RingStepsOnly DEF RingStep

\* The ring is empty at boot.
LEMMA InitRing == Init => RingInv
  <1> SUFFICES ASSUME Init PROVE RingInv
    OBVIOUS
  <1>1. r = 0 /\ w = 0 /\ e = 0 /\ 0 \in Index /\ INPUT_BUF \in Nat \ {0}
    BY ConsoleAssumption DEF Init, Index
  <1>2. Used(0, 0) = 0
    BY <1>1, UsedSelf
  <1>3. RingTyped
    BY <1>1 DEF RingTyped, Init, Stored
  <1>4. FullIsReadable /\ EditPlain
    BY <1>1, <1>2 DEF FullIsReadable, EditPlain
  <1> QED
    BY <1>3, <1>4 DEF RingInv

\* The ring's indices stay in order, a full ring can be read, and editing stays inside
\* the line that is being typed.
THEOREM RingCorrect == Spec => []RingInv
  BY InitRing, NextRing, PTL DEF Spec

\* No interrupt comes while a lock is held or waited for, ncli counts those locks, and a
\* process finds interrupts on again after whatever sleeps and switches it made, on
\* whatever processor, while a handler that has yielded goes on with interrupts off.
THEOREM InterruptsAreSound == Spec => []InterruptsSound
  <1>1. ControlInv /\ RingInv => InterruptsSound
    <2> SUFFICES ASSUME ControlInv, RingInv PROVE InterruptsSound
      OBVIOUS
    <2> USE ConsoleAssumption, SpinlockAssumption DEF ControlInv
    <2>1. ASSUME NEW c \in Cpus
          PROVE  /\ ncli[c] \in 0 .. 2
                 /\ LET locks == {l \in Locks : holding(c, l) \/ spin[c] = l}
                    IN  /\ locks # {} => ~eflags[c]
                        /\ ncli[c] = IF locks = {} THEN 0 ELSE IF locks = Locks THEN 2 ELSE 1
      <3> DEFINE locks == {l \in Locks : holding(c, l) \/ spin[c] = l}
      <3>1. "cons" \in locks <=> top(c) \in ConsPCs \/ spin[c] = "cons"
        BY DEF LocksHeld, holding
      <3>2. "ptable" \in locks <=> top(c) \in PtablePCs \/ spin[c] = "ptable"
        BY DEF LocksHeld, holding
      <3>3. spin[c] = "cons" => top(c) \notin ConsPCs /\ top(c) \notin PtablePCs
        BY Tables DEF SpinWants
      <3>4. spin[c] = "ptable" => top(c) \notin PtablePCs
        BY Tables DEF SpinWants
      <3>5. spin[c] \in {"cons", "ptable", "none"}
        BY DEF ControlTyped
      <3>6. locks = {} <=> "cons" \notin locks /\ "ptable" \notin locks
        OBVIOUS
      <3>7. locks = Locks <=> "cons" \in locks /\ "ptable" \in locks
        OBVIOUS
      <3> HIDE DEF locks
      <3>8. /\ ncli[c] \in 0 .. 2
            /\ ncli[c] = IF locks = {} THEN 0 ELSE IF locks = Locks THEN 2 ELSE 1
        BY <3>1, <3>2, <3>3, <3>4, <3>5, <3>6, <3>7 DEF Depth
      <3>9. locks # {} => ~eflags[c]
        BY <3>1, <3>2, <3>5, <3>6, <3>8 DEF FlagsKept
      <3> QED
        BY <3>8, <3>9 DEF locks
    <2>2. InterruptsRestored
      <3> SUFFICES ASSUME NEW c \in Cpus, ipc[c] = "none",
                          pc[c] \in {"user", "read", "write", "reread"},
                          spin[c] = "none", Held(c) = {}
                   PROVE  eflags[c]
        BY DEF InterruptsRestored, FlagsKept
      <3>1. top(c) \notin ConsPCs /\ top(c) \notin PtablePCs
        BY DEF top, ConsPCs, PtablePCs
      <3> QED
        BY <3>1 DEF Depth, FlagsKept
    <2>3. TypeOK
      BY <2>1 DEF TypeOK, ControlTyped, RingInv, RingTyped, Index
    <2> QED
      BY <2>1, <2>2, <2>3 DEF InterruptsSound, LockedMeansMasked
  <1> QED
    BY <1>1, ControlCorrect, RingCorrect, PTL

-----------------------------------------------------------------------------
(***************************************************************************)
(* Sleeping for input.                                                     *)
(***************************************************************************)

\* There is no input from consoleread's test to the sleep, and none while a process
\* sleeps unless its wakeup is on the way.
SleepInv ==
  /\ \A c \in Cpus : pc[c] \in {"sleep", "sleeping"} => r = w
  /\ SleepersHaveNothing

\* A step that leaves r and w alone, begins no sleep and ends no wakeup.
LEMMA QuietSleep ==
  ASSUME SleepInv, r' = r, w' = w,
         \A c \in Cpus : pc'[c] \in {"sleep", "sleeping"} => pc[c] \in {"sleep", "sleeping"},
         \A p \in Procs : pstate'[p] = "SLEEPING" => pstate[p] = "SLEEPING",
         \A c \in Cpus : ipc[c] \in {"wakeup", "waking"} => ipc'[c] \in {"wakeup", "waking"}
  PROVE  SleepInv'
  BY DEF SleepInv, SleepersHaveNothing

\* The steps of processes: a sleep begins only with an empty ring, under cons.lock.
LEMMA ProcessSleep ==
  ASSUME ControlInv, SleepInv, NEW c \in Cpus,
         \/ \E n \in Counts : call_read(c, n)
         \/ call_write(c) \/ written(c)
         \/ read_nothing(c) \/ read_killed(c) \/ read_sleep(c)
         \/ sleep(c) \/ yielding(c) \/ sched(c) \/ scheduler(c) \/ scanned(c)
         \/ \E p \in Procs : dispatch(c, p) \/ kill(p)
  PROVE  SleepInv'
  <1>1. CASE read_sleep(c)
    BY <1>1 DEF SleepInv, SleepersHaveNothing, ControlInv, ControlTyped, read_sleep, At,
                Goto, ring
  <1>2. CASE sleep(c)
    BY <1>2 DEF SleepInv, SleepersHaveNothing, ControlInv, ControlTyped, sleep, At, Goto,
                ring
  <1>3. CASE \/ \E n \in Counts : call_read(c, n)
             \/ call_write(c) \/ written(c) \/ read_nothing(c) \/ read_killed(c)
    <2>1. r' = r /\ w' = w /\ pstate' = pstate /\ ipc' = ipc
      BY <1>3 DEF call_read, call_write, written, read_nothing, read_killed, Return, ring
    <2>2. \A d \in Cpus : pc'[d] \in {"sleep", "sleeping"} => pc[d] \in {"sleep", "sleeping"}
      BY <1>3 DEF ControlInv, ControlTyped, call_read, call_write, written, read_nothing,
                  read_killed, Return, Goto
    <2> QED
      BY <2>1, <2>2, QuietSleep
  <1>4. CASE yielding(c) \/ sched(c) \/ scheduler(c) \/ scanned(c)
             \/ \E p \in Procs : dispatch(c, p) \/ kill(p)
    <2>1. r' = r /\ w' = w
      BY <1>4 DEF yielding, sched, scheduler, scanned, dispatch, kill, ring
    <2>2. \A d \in Cpus : pc'[d] \in {"sleep", "sleeping"} => pc[d] \in {"sleep", "sleeping"}
      BY <1>4 DEF ControlInv, ControlTyped, Contexts, yielding, sched, scheduler, scanned,
                  dispatch, kill, Goto
    <2>3. \A p \in Procs : pstate'[p] = "SLEEPING" => pstate[p] = "SLEEPING"
      BY <1>4 DEF ControlInv, ControlTyped, yielding, sched, scheduler, scanned, dispatch,
                  kill
    <2>4. \A d \in Cpus : ipc[d] \in {"wakeup", "waking"} => ipc'[d] \in {"wakeup", "waking"}
      BY <1>4 DEF ControlInv, ControlTyped, yielding, sched, scheduler, scanned, dispatch,
                  kill, top, At, IAt, IGoto
    <2> QED
      BY <2>1, <2>2, <2>3, <2>4, QuietSleep
  <1> QED
    BY <1>1, <1>2, <1>3, <1>4

\* acquire moves a process from its sleep and a handler from its wakeup no further than
\* to where they hold ptable.lock.
LEMMA AcquireSleep ==
  ASSUME ControlInv, SleepInv, NEW c \in Cpus, do_acquire(c) \/ acquired(c)
  PROVE  SleepInv'
  <1>1. CASE do_acquire(c)
    <2>1. r' = r /\ w' = w /\ pstate' = pstate /\ ipc' = ipc /\ pc' = pc
      BY <1>1 DEF do_acquire, ring
    <2> QED
      BY <2>1, QuietSleep
  <1>2. CASE acquired(c)
    <2>1. r' = r /\ w' = w /\ pstate' = pstate
      BY <1>2 DEF acquired, ring
    <2>2. top(c) \in AcquirePCs
      BY <1>2 DEF acquired, ControlInv, SpinWants
    <2>3. \A d \in Cpus : pc'[d] \in {"sleep", "sleeping"} => pc[d] \in {"sleep", "sleeping"}
      BY <1>2, <2>2, Tables DEF ControlInv, ControlTyped, acquired, top, Goto
    <2>4. \A d \in Cpus : ipc[d] \in {"wakeup", "waking"} => ipc'[d] \in {"wakeup", "waking"}
      BY <1>2, <2>2, Tables DEF ControlInv, ControlTyped, acquired, top, IGoto, AcquirePCs
    <2> QED
      BY <2>1, <2>3, <2>4, QuietSleep
  <1> QED
    BY <1>1, <1>2

\* The steps of handlers: wakeup makes every sleeper runnable before it is over.
LEMMA HandlerSleep ==
  ASSUME ControlInv, SleepInv, NEW c \in Cpus,
         \/ \E kind \in {"kbd", "timer"} : interrupt(c, kind)
         \/ iret(c) \/ ticking(c) \/ tick(c) \/ waking(c) \/ typed_all(c) \/ dumping(c)
  PROVE  SleepInv'
  <1>1. CASE waking(c)
    <2>1. \A p \in Procs : pstate'[p] # "SLEEPING"
      BY <1>1 DEF waking, Woken, ControlInv, ControlTyped
    <2> QED
      BY <1>1, <2>1 DEF SleepInv, SleepersHaveNothing, waking, ring
  <1>2. CASE \/ \E kind \in {"kbd", "timer"} : interrupt(c, kind)
             \/ iret(c) \/ ticking(c) \/ tick(c) \/ typed_all(c) \/ dumping(c)
    <2>1. r' = r /\ w' = w /\ pstate' = pstate /\ pc' = pc
      BY <1>2 DEF interrupt, iret, ticking, tick, typed_all, dumping, ring
    <2>2. \A d \in Cpus : ipc[d] \in {"wakeup", "waking"} => ipc'[d] \in {"wakeup", "waking"}
      BY <1>2 DEF ControlInv, ControlTyped, interrupt, iret, ticking, tick, typed_all,
                  dumping, IAt, IGoto
    <2> QED
      BY <2>1, <2>2, QuietSleep
  <1> QED
    BY <1>1, <1>2

\* Characters come and go under cons.lock: nobody is between the test and the sleep, and
\* who enters a line goes on to wake the sleepers.
LEMMA RingSleep ==
  ASSUME ControlInv, SleepInv, NEW c \in Cpus, RingStep(c)
  PROVE  SleepInv'
  <1>1. lock["cons"] = c /\ ipc[c] \notin {"wakeup", "waking"}
        /\ pc[c] \notin {"sleep", "sleeping"}
    BY DEF ControlInv, LocksHeld, RingStep, read_char, typed, At, IAt, top, ConsPCs,
           InterruptiblePCs
  <1>2. \A d \in Cpus : d # c => top(d) \notin ConsPCs
    BY <1>1 DEF ControlInv, LocksHeld
  <1>3. \A d \in Cpus : pc[d] \notin {"sleep", "sleeping"}
    BY <1>1, <1>2 DEF ControlInv, LocksHeld, top, ConsPCs, InterruptiblePCs
  <1>4. \A d \in Cpus : ipc[d] \notin {"wakeup", "waking"}
    BY <1>1, <1>2 DEF top, ConsPCs
  <1>5. pstate' = pstate /\ \A d \in Cpus : pc'[d] \notin {"sleep", "sleeping"}
    BY <1>3 DEF ControlInv, ControlTyped, RingStep, read_char, typed, Return, Goto
  <1>6. CASE read_char(c)
    <2>1. r # w
      BY <1>6 DEF read_char
    <2>2. \A p \in Procs : pstate[p] # "SLEEPING"
      BY <1>4, <2>1 DEF SleepInv, SleepersHaveNothing
    <2> QED
      BY <1>5, <2>2 DEF SleepInv, SleepersHaveNothing
  <1>7. CASE \E ch \in Keys : typed(c, ch)
    <2>1. r' = r
      BY <1>7 DEF typed, ring
    <2>2. w' = w \/ ipc'[c] = "wakeup"
      BY <1>7 DEF ControlInv, ControlTyped, typed, IGoto, ring
    <2> QED
      BY <1>4, <1>5, <2>1, <2>2 DEF SleepInv, SleepersHaveNothing
  <1> QED
    BY <1>6, <1>7 DEF RingStep

\* Every step keeps the sleepers justified.
LEMMA NextSleep == ControlInv /\ SleepInv /\ [Next]_vars => SleepInv'
  <1> SUFFICES ASSUME ControlInv, SleepInv, [Next]_vars PROVE SleepInv'
    OBVIOUS
  <1>1. CASE UNCHANGED vars
    BY <1>1 DEF vars, contvars, ring, SleepInv, SleepersHaveNothing
  <1>2. CASE Next
    BY <1>2, ProcessSleep, AcquireSleep, HandlerSleep, RingSleep DEF Next, RingStep
  <1> QED
    BY <1>1, <1>2

\* A process sleeps for input only while there is none or while its wakeup is on the
\* way, and a ring that is full can be read even if no line was completed.
THEOREM ReadersAreServed == Spec => []ReadersServed
  <1>1. Init => SleepInv
    BY DEF Init, SleepInv, SleepersHaveNothing
  <1>2. SleepInv /\ RingInv => ReadersServed
    BY DEF SleepInv, RingInv, ReadersServed
  <1> QED
    BY <1>1, <1>2, NextSleep, ControlCorrect, RingCorrect, PTL DEF Spec

-----------------------------------------------------------------------------
(***************************************************************************)
(* The ring implements LineInput.                                          *)
(***************************************************************************)

\* An end of file that is taken from the ring is all that its call has read: one that
\* comes behind other characters is left for the next call.
LEMMA EndOfFileStep ==
  ASSUME ControlInv, [Next]_vars, NEW c \in Cpus,
         At(c, "reading"), pc'[c] = "user", r' # r, buf[r % INPUT_BUF] = "^D"
  PROVE  left[proc[c]] = target[proc[c]]
  <1>1. PICK d \in Cpus : RingStep(d)
    BY RingStepsOnly DEF ring
  <1>2. read_char(d)
    BY <1>1 DEF RingStep, typed, ring
  <1>3. d = c
    BY <1>2 DEF ControlInv, ControlTyped, read_char, Return, Goto, At
  <1>4. ~PutBack(c)
    BY <1>2, <1>3 DEF read_char
  <1>5. proc[c] \in Procs
    BY DEF ControlInv, ControlTyped, Placed, SchedulerPCs, At
  <1> QED
    BY <1>4, <1>5 DEF PutBack, ControlInv, ControlTyped

\* The entered and the edited characters as sequences taken from the ring in turn.
LinesTyped ==
  /\ LineOf(r, w) \in Seq(Stored) /\ Len(LineOf(r, w)) = Used(w, r)
  /\ \A k \in 1 .. Used(w, r) : LineOf(r, w)[k] = buf[(r + (k - 1)) % INPUT_BUF]
  /\ LineOf(w, e) \in Seq(Stored) /\ Len(LineOf(w, e)) = Used(e, w)
  /\ \A k \in 1 .. Used(e, w) : LineOf(w, e)[k] = buf[(w + (k - 1)) % INPUT_BUF]

\* What is between two indices of the ring is a sequence of characters.
LEMMA LineIsSeq ==
  ASSUME RingTyped, NEW i \in Index, NEW j \in Index
  PROVE  /\ LineOf(i, j) \in Seq(Stored) /\ Len(LineOf(i, j)) = Used(j, i)
         /\ \A k \in 1 .. Used(j, i) : LineOf(i, j)[k] = buf[(i + (k - 1)) % INPUT_BUF]
  <1>1. /\ Used(j, i) \in Nat /\ Used(j, i) \in 0 .. WRAP - 1 /\ i \in Nat
        /\ INPUT_BUF \in Nat \ {0} /\ WRAP \in Nat
    BY IndexArith, ConsoleAssumption DEF Index
  <1>2. ASSUME NEW k \in 1 .. Used(j, i)
        PROVE  /\ buf[((i + k - 1) % WRAP) % INPUT_BUF] = buf[(i + (k - 1)) % INPUT_BUF]
               /\ buf[(i + (k - 1)) % INPUT_BUF] \in Stored
    <2>1. k - 1 \in 0 .. WRAP /\ i + k - 1 = i + (k - 1) /\ i + (k - 1) \in Int
      BY <1>1
    <2>2. ((i + (k - 1)) % WRAP) % INPUT_BUF = (i + (k - 1)) % INPUT_BUF
      BY <2>1, Place
    <2>3. (i + (k - 1)) % INPUT_BUF \in 0 .. INPUT_BUF - 1
      BY <1>1, <2>1, ModRange
    <2>4. buf[(i + (k - 1)) % INPUT_BUF] \in Stored
      BY <2>3 DEF RingTyped
    <2> QED
      BY <2>1, <2>2, <2>4
  <1>3. \A k \in 1 .. Used(j, i) : buf[((i + k - 1) % WRAP) % INPUT_BUF] \in Stored
    BY <1>2
  <1>4. LineOf(i, j) \in Seq(Stored) /\ Len(LineOf(i, j)) = Used(j, i)
    BY <1>1, <1>3 DEF LineOf
  <1>5. \A k \in 1 .. Used(j, i) : LineOf(i, j)[k] = buf[(i + (k - 1)) % INPUT_BUF]
    BY <1>2 DEF LineOf
  <1> QED
    BY <1>4, <1>5

\* The two lines of the refinement are sequences of characters.
LEMMA LinesAreSeqs == RingInv => LinesTyped
  <1> SUFFICES ASSUME RingInv PROVE LinesTyped
    OBVIOUS
  <1>1. RingTyped /\ r \in Index /\ w \in Index /\ e \in Index
    BY DEF RingInv, RingTyped
  <1>2. /\ LineOf(r, w) \in Seq(Stored) /\ Len(LineOf(r, w)) = Used(w, r)
        /\ \A k \in 1 .. Used(w, r) : LineOf(r, w)[k] = buf[(r + (k - 1)) % INPUT_BUF]
    BY <1>1, LineIsSeq
  <1>3. /\ LineOf(w, e) \in Seq(Stored) /\ Len(LineOf(w, e)) = Used(e, w)
        /\ \A k \in 1 .. Used(e, w) : LineOf(w, e)[k] = buf[(w + (k - 1)) % INPUT_BUF]
    BY <1>1, LineIsSeq
  <1> QED
    BY <1>2, <1>3 DEF LinesTyped

\* Lines do not change with anything but the ring.
LEMMA SameLines ==
  ASSUME UNCHANGED ring
  PROVE  UNCHANGED <<LineOf(r, w), LineOf(w, e)>>
  BY DEF ring, LineOf

\* A reader takes the head of the entered characters.
LEMMA ReadRefines ==
  ASSUME RingInv, r # w, r' = Plus1(r), UNCHANGED <<buf, w, e>>
  PROVE  Lines!Read
  <1> DEFINE s == LineOf(r, w)
             t == LineOf(r, w)'
             g == Used(w, r)
  <1>1. RingInv' /\ g \in Nat \ {0} /\ Used(w, r') = g - 1
    BY ReadRing
  <1>2. /\ s \in Seq(Stored) /\ Len(s) = g
        /\ \A k \in 1 .. g : s[k] = buf[(r + (k - 1)) % INPUT_BUF]
    BY LinesAreSeqs DEF LinesTyped
  <1>3. /\ t \in Seq(Stored) /\ Len(t) = Used(w', r')
        /\ \A k \in 1 .. Used(w', r') : t[k] = buf'[(r' + (k - 1)) % INPUT_BUF]
    <2>1. LinesTyped'
      BY <1>1, LinesAreSeqs, PTL
    <2> QED
      BY <2>1 DEF LinesTyped
  <1>4. /\ r \in Index /\ w \in Index /\ WRAP \in Nat \ {0} /\ r \in Nat /\ WRAP > 1
        /\ Plus1(r) \in Index /\ Used(Plus1(r), r) = 1
    <2>1. r \in Index /\ w \in Index /\ WRAP \in Nat \ {0} /\ WRAP > 1
      BY ConsoleAssumption DEF RingInv, RingTyped
    <2>2. Plus1(r) = (IF r + 1 < WRAP THEN r + 1 ELSE 0) /\ Plus1(r) \in Index
      BY <2>1, IndexArith
    <2>3. Used(Plus1(r), r) = (IF r <= Plus1(r) THEN Plus1(r) - r ELSE Plus1(r) - r + WRAP)
      BY <2>1, <2>2, IndexArith
    <2> QED
      BY <2>1, <2>2, <2>3 DEF Index
  <1>5. g \in 0 .. WRAP - 1
    BY <1>4, IndexArith DEF Index
  <1> HIDE DEF s, t, g
  <1>6. s # <<>>
    BY <1>1, <1>2, EmptySeq
  <1>7. /\ Tail(s) \in Seq(Stored) /\ Len(Tail(s)) = g - 1
        /\ \A k \in 1 .. Len(Tail(s)) : Tail(s)[k] = s[k + 1]
    BY <1>2, <1>6, HeadTailProperties
  <1>8. ASSUME NEW k \in 1 .. Len(t)
        PROVE  t[k] = Tail(s)[k]
    <2>0. Len(t) = g - 1
      BY <1>1, <1>3
    <2>1. k \in 1 .. g - 1 /\ k - 1 \in 0 .. WRAP - 1 /\ k + 1 \in 1 .. g
      BY <1>1, <1>4, <1>5, <2>0
    <2>2. (r + (Used(Plus1(r), r) + (k - 1))) % INPUT_BUF = (Plus1(r) + (k - 1)) % INPUT_BUF
      <3>1. k - 1 \in 0 .. WRAP - Used(Plus1(r), r)
        BY <1>4, <2>1
      <3> QED
        BY <1>4, <3>1, PlaceAhead
    <2>3. r + (1 + (k - 1)) = r + ((k + 1) - 1)
      BY <1>4, <2>1
    <2>4. t[k] = buf[(r' + (k - 1)) % INPUT_BUF]
      BY <1>1, <1>3, <2>1
    <2>5. s[k + 1] = buf[(r + ((k + 1) - 1)) % INPUT_BUF]
      BY <1>2, <2>1
    <2>6. t[k] = s[k + 1]
      BY <1>4, <2>2, <2>3, <2>4, <2>5
    <2> QED
      BY <1>7, <2>1, <2>6
  <1>9. t = Tail(s)
    <2>1. Len(t) = Len(Tail(s))
      BY <1>1, <1>3, <1>7
    <2> QED
      BY <1>3, <1>7, <1>8, <2>1, SeqEqual
  <1>10. LineOf(w, e)' = LineOf(w, e)
    BY DEF LineOf
  <1> QED
    BY <1>6, <1>9, <1>10 DEF s, t, Lines!Read

\* A backspace takes the last character of the line.
LEMMA BackspaceRefines ==
  ASSUME RingInv, Erasable, e' = Minus1(e), UNCHANGED <<buf, r, w>>
  PROVE  Lines!Backspace
  <1> DEFINE s == LineOf(w, e)
             t == LineOf(w, e)'
             g == Used(e, w)
  <1>1. RingInv' /\ g \in Nat \ {0} /\ Used(e', w) = g - 1
    BY BackspaceRing
  <1>2. /\ s \in Seq(Stored) /\ Len(s) = g
        /\ \A k \in 1 .. g : s[k] = buf[(w + (k - 1)) % INPUT_BUF]
    BY LinesAreSeqs DEF LinesTyped
  <1>3. /\ t \in Seq(Stored) /\ Len(t) = g - 1
        /\ \A k \in 1 .. g - 1 : t[k] = buf[(w + (k - 1)) % INPUT_BUF]
    <2>1. LinesTyped'
      BY <1>1, LinesAreSeqs, PTL
    <2> QED
      BY <1>1, <2>1 DEF LinesTyped
  <1> HIDE DEF s, t, g
  <1>4. s # <<>>
    BY <1>1, <1>2, EmptySeq
  <1> DEFINE f == SubSeq(s, 1, g - 1)
  <1>5. /\ f \in Seq(Stored) /\ Len(f) = g - 1
        /\ \A k \in 1 .. g - 1 : f[k] = s[k]
    BY <1>1, <1>2
  <1> HIDE DEF f
  <1>6. ASSUME NEW k \in 1 .. Len(t)
        PROVE  t[k] = f[k]
    <2>1. k \in 1 .. g - 1 /\ k \in 1 .. g
      BY <1>1, <1>3
    <2>2. f[k] = s[k] /\ s[k] = buf[(w + (k - 1)) % INPUT_BUF]
      BY <1>2, <1>5, <2>1
    <2> QED
      BY <1>3, <2>1, <2>2
  <1>7. t = f
    BY <1>3, <1>5, <1>6, SeqEqual
  <1>8. LineOf(r, w)' = LineOf(r, w)
    BY DEF LineOf
  <1>9. t = Lines!Front(s)
    BY <1>2, <1>7 DEF f, Lines!Front
  <1> QED
    BY <1>4, <1>8, <1>9 DEF s, t, Lines!Backspace

\* Control-U takes the whole line.
LEMMA KillRefines ==
  ASSUME RingInv, e' = KilledTo, UNCHANGED <<buf, r, w>>
  PROVE  Lines!KillLine
  <1>1. RingInv' /\ Used(e', w') = 0
    BY KillRing
  <1>2. LinesTyped'
    BY <1>1, LinesAreSeqs, PTL
  <1> DEFINE t == LineOf(w, e)'
  <1>3. t \in Seq(Stored) /\ Len(t) = 0
    BY <1>1, <1>2 DEF LinesTyped
  <1> HIDE DEF t
  <1>4. t = <<>>
    BY <1>3, EmptySeq
  <1>5. LineOf(r, w)' = LineOf(r, w)
    BY DEF LineOf
  <1> QED
    BY <1>4, <1>5 DEF t, Lines!KillLine

\* A character joins the line, which is entered with it when it ends the line or fills
\* the ring.
LEMMA StoreRefines ==
  ASSUME RingInv, NEW ch \in Stored, HasRoom,
         buf' = [buf EXCEPT ![e % INPUT_BUF] = ch], e' = Plus1(e), r' = r,
         w' = IF Complete(ch) THEN Plus1(e) ELSE w
  PROVE  Lines!Type(ch)
  <1> DEFINE s == LineOf(r, w)
             u == LineOf(w, e)
             ss == LineOf(r, w)'
             uu == LineOf(w, e)'
             a == Used(w, r)
             b == Used(e, w)
             n == Append(u, ch)
  <1>1. /\ RingInv'
        /\ Used(e', r') = Used(e, r) + 1
        /\ Plus1(e) = (r + INPUT_BUF) % WRAP <=> Used(e, r) + 1 = INPUT_BUF
        /\ \A d \in 0 .. Used(e, r) - 1 : buf'[(r + d) % INPUT_BUF] = buf[(r + d) % INPUT_BUF]
        /\ \A d \in 0 .. b - 1 : buf'[(w + d) % INPUT_BUF] = buf[(w + d) % INPUT_BUF]
        /\ buf'[e % INPUT_BUF] = ch
        /\ Used(e', w) = b + 1
    BY StoreRing
  <1>2. Used(e, r) = a + b /\ a \in Nat /\ b \in Nat
    BY UsedAddsUp
  <1>3. /\ s \in Seq(Stored) /\ Len(s) = a
        /\ \A k \in 1 .. a : s[k] = buf[(r + (k - 1)) % INPUT_BUF]
        /\ u \in Seq(Stored) /\ Len(u) = b
        /\ \A k \in 1 .. b : u[k] = buf[(w + (k - 1)) % INPUT_BUF]
    BY LinesAreSeqs DEF LinesTyped
  <1>4. /\ ss \in Seq(Stored) /\ Len(ss) = Used(w', r')
        /\ \A k \in 1 .. Used(w', r') : ss[k] = buf'[(r' + (k - 1)) % INPUT_BUF]
        /\ uu \in Seq(Stored) /\ Len(uu) = Used(e', w')
        /\ \A k \in 1 .. Used(e', w') : uu[k] = buf'[(w' + (k - 1)) % INPUT_BUF]
    <2>1. LinesTyped'
      BY <1>1, LinesAreSeqs, PTL
    <2> QED
      BY <2>1 DEF LinesTyped
  <1>5. /\ r \in Index /\ w \in Index /\ e \in Index /\ r \in Nat /\ w \in Nat /\ e \in Nat
        /\ INPUT_BUF \in Nat \ {0} /\ WRAP \in Nat /\ INPUT_BUF < WRAP
    BY ConsoleAssumption DEF RingInv, RingTyped, Index
  <1>6. a + b < INPUT_BUF
    BY <1>2 DEF HasRoom
  <1>7. Lines!Room
    BY <1>3, <1>6 DEF Lines!Room
  <1>8. Lines!Enters(ch) <=> Complete(ch)
    BY <1>1, <1>2, <1>3 DEF Lines!Enters, Complete
  <1>9. (w + b) % INPUT_BUF = e % INPUT_BUF
    <2>1. 0 \in 0 .. WRAP - Used(e, w)
      BY <1>2, <1>5, <1>6
    <2>2. (w + (Used(e, w) + 0)) % INPUT_BUF = (e + 0) % INPUT_BUF
      BY <1>5, <2>1, PlaceAhead
    <2>3. w + (b + 0) = w + b /\ e + 0 = e
      BY <1>2, <1>5
    <2> QED
      BY <2>2, <2>3
  <1>10. \A d \in 0 .. b : (r + (a + d)) % INPUT_BUF = (w + d) % INPUT_BUF
    <2> SUFFICES ASSUME NEW d \in 0 .. b
                 PROVE  (r + (Used(w, r) + d)) % INPUT_BUF = (w + d) % INPUT_BUF
      OBVIOUS
    <2>1. d \in 0 .. WRAP - Used(w, r)
      BY <1>2, <1>5, <1>6
    <2> QED
      BY <1>5, <2>1, PlaceAhead
  <1> HIDE DEF s, u, ss, uu, a, b
  <1>11. /\ n \in Seq(Stored) /\ Len(n) = b + 1
         /\ \A k \in 1 .. b : n[k] = u[k]
         /\ n[b + 1] = ch
    BY <1>3, AppendProperties
  <1> HIDE DEF n
  <1>12. \A d \in 0 .. b : n[d + 1] = buf'[(w + d) % INPUT_BUF]
    <2> SUFFICES ASSUME NEW d \in 0 .. b
                 PROVE  n[d + 1] = buf'[(w + d) % INPUT_BUF]
      OBVIOUS
    <2>1. CASE d = b
      BY <1>1, <1>9, <1>11, <2>1
    <2>2. CASE d \in 0 .. b - 1
      <3>1. d + 1 \in 1 .. b /\ (d + 1) - 1 = d
        BY <1>2, <2>2
      <3>2. n[d + 1] = buf[(w + d) % INPUT_BUF]
        BY <1>3, <1>11, <3>1
      <3> QED
        BY <1>1, <2>2, <3>2
    <2> QED
      BY <1>2, <2>1, <2>2
  <1>13. CASE ~Complete(ch)
    <2>1. w' = w /\ Used(e', w') = b + 1
      BY <1>1, <1>13
    <2>2. ASSUME NEW k \in 1 .. Len(uu)
          PROVE  uu[k] = n[k]
      <3>1. k - 1 \in 0 .. b /\ (k - 1) + 1 = k /\ k \in 1 .. Used(e', w')
        BY <1>2, <1>4, <2>1
      <3>2. n[(k - 1) + 1] = buf'[(w + (k - 1)) % INPUT_BUF]
        BY <1>12, <3>1
      <3> QED
        BY <1>4, <2>1, <3>1, <3>2
    <2>3. uu = n
      <3>1. Len(uu) = Len(n)
        BY <1>4, <1>11, <2>1
      <3> QED
        BY <1>4, <1>11, <2>2, <3>1, SeqEqual
    <2>4. ASSUME NEW k \in 1 .. Len(ss)
          PROVE  ss[k] = s[k]
      <3>1. Used(w', r') = a
        BY <2>1 DEF a
      <3>2. k \in 1 .. a /\ k - 1 \in 0 .. Used(e, r) - 1
        BY <1>2, <1>4, <3>1
      <3>3. ss[k] = buf'[(r + (k - 1)) % INPUT_BUF]
        BY <1>4, <3>1, <3>2
      <3>4. s[k] = buf[(r + (k - 1)) % INPUT_BUF]
        BY <1>3, <3>2
      <3> QED
        BY <1>1, <3>2, <3>3, <3>4
    <2>5. ss = s
      <3>1. Len(ss) = Len(s)
        BY <1>3, <1>4, <2>1 DEF a
      <3> QED
        BY <1>3, <1>4, <2>4, <3>1, SeqEqual
    <2> QED
      BY <1>7, <1>8, <1>13, <2>3, <2>5 DEF Lines!Type, s, u, ss, uu, n
  <1>14. CASE Complete(ch)
    <2>1. w' = e' /\ Used(w', r') = a + b + 1
      BY <1>1, <1>2, <1>14
    <2>2. uu = <<>>
      <3>1. Used(e', w') = 0
        <4>1. Plus1(e) \in Index
          BY <1>5, IndexArith
        <4> QED
          BY <1>14, <4>1, UsedSelf
      <3> QED
        BY <1>4, <3>1, EmptySeq
    <2> DEFINE c == s \o n
    <2>3. /\ c \in Seq(Stored) /\ Len(c) = a + (b + 1)
          /\ \A k \in 1 .. a + (b + 1) : c[k] = IF k <= a THEN s[k] ELSE n[k - a]
      <3>1. /\ c \in Seq(Stored) /\ Len(c) = Len(s) + Len(n)
            /\ \A k \in 1 .. Len(s) + Len(n) : c[k] = IF k <= Len(s) THEN s[k] ELSE n[k - Len(s)]
        BY <1>3, <1>11, ConcatProperties
      <3> HIDE DEF c
      <3>2. Len(s) = a /\ Len(n) = b + 1
        BY <1>3, <1>11
      <3> QED
        BY <3>1, <3>2
    <2> HIDE DEF c
    <2>4. ASSUME NEW k \in 1 .. Len(ss)
          PROVE  ss[k] = c[k]
      <3>1. k \in 1 .. a + (b + 1) /\ k \in 1 .. Used(w', r')
        BY <1>2, <1>4, <2>1
      <3>2. ss[k] = buf'[(r + (k - 1)) % INPUT_BUF]
        BY <1>4, <3>1
      <3>3. CASE k <= a
        <4>1. k \in 1 .. a /\ k - 1 \in 0 .. Used(e, r) - 1
          BY <1>2, <3>1, <3>3
        <4>2. s[k] = buf[(r + (k - 1)) % INPUT_BUF]
          BY <1>3, <4>1
        <4> QED
          BY <1>1, <2>3, <3>1, <3>2, <3>3, <4>1, <4>2
      <3>4. CASE k > a
        <4> DEFINE d == k - a - 1
        <4>1. d \in 0 .. b /\ r + (k - 1) = r + (a + d) /\ d + 1 = k - a
          BY <1>2, <1>5, <3>1, <3>4
        <4> HIDE DEF d
        <4>2. ss[k] = buf'[(w + d) % INPUT_BUF]
          BY <1>10, <3>2, <4>1
        <4>3. c[k] = n[d + 1]
          BY <1>2, <2>3, <3>1, <3>4, <4>1
        <4> QED
          BY <1>12, <4>1, <4>2, <4>3
      <3> QED
        BY <1>2, <3>1, <3>3, <3>4
    <2>5. ss = c
      <3>1. Len(ss) = Len(c)
        BY <1>2, <1>4, <2>1, <2>3
      <3> QED
        BY <1>4, <2>3, <2>4, <3>1, SeqEqual
    <2> QED
      BY <1>7, <1>8, <1>14, <2>2, <2>5 DEF Lines!Type, c, s, u, ss, uu, n
  <1> QED
    BY <1>13, <1>14

\* Every step of processes and handlers is a step of the line input.
LEMMA StepRefines == RingInv /\ [Next]_vars => [Lines!Next]_<<LineOf(r, w), LineOf(w, e)>>
  <1> SUFFICES ASSUME RingInv, [Next]_vars
               PROVE  Lines!Next \/ UNCHANGED <<LineOf(r, w), LineOf(w, e)>>
    OBVIOUS
  <1>1. CASE \A c \in Cpus : ~RingStep(c)
    BY <1>1, RingStepsOnly, SameLines
  <1>2. ASSUME NEW c \in Cpus, read_char(c)
        PROVE  Lines!Next \/ UNCHANGED <<LineOf(r, w), LineOf(w, e)>>
    <2>1. UNCHANGED <<buf, w, e>> /\ r # w /\ (r' = r \/ r' = Plus1(r))
      BY <1>2, ReadCharRing
    <2>2. CASE r' = r
      BY <2>1, <2>2, SameLines DEF ring
    <2>3. CASE r' = Plus1(r)
      BY <2>1, <2>3, ReadRefines DEF Lines!Next
    <2> QED
      BY <2>1, <2>2, <2>3
  <1>3. ASSUME NEW c \in Cpus, NEW ch \in Keys, typed(c, ch)
        PROVE  Lines!Next \/ UNCHANGED <<LineOf(r, w), LineOf(w, e)>>
    <2>1. CASE UNCHANGED ring
      BY <2>1, SameLines
    <2>2. CASE e' = KilledTo /\ UNCHANGED <<buf, r, w>>
      BY <2>2, KillRefines DEF Lines!Next
    <2>3. CASE Erasable /\ e' = Minus1(e) /\ UNCHANGED <<buf, r, w>>
      BY <2>3, BackspaceRefines DEF Lines!Next
    <2>4. CASE /\ ch \in Stored /\ HasRoom /\ r' = r
               /\ buf' = [buf EXCEPT ![e % INPUT_BUF] = ch]
               /\ e' = Plus1(e)
               /\ w' = IF Complete(ch) THEN Plus1(e) ELSE w
      <3>1. Lines!Type(ch)
        BY <2>4, StoreRefines
      <3>2. ch \in {"a"} \cup {"\n", "^D"}
        BY <2>4 DEF Stored
      <3> QED
        BY <3>1, <3>2 DEF Lines!Next
    <2> QED
      BY <1>3, <2>1, <2>2, <2>3, <2>4, TypedRing
  <1> QED
    BY <1>1, <1>2, <1>3 DEF RingStep

\* The console implements the line input that readers expect, whatever the size of the
\* ring and wherever its indices wrap around: characters are read in the order of typing,
\* once each, editing ends at the start of the line, and an end of file is a result of
\* its own.
THEOREM ConsoleIsLineInput == Spec => ConsoleInput
  <1>1. Init => Lines!Init
    <2> SUFFICES ASSUME Init PROVE Lines!Init
      OBVIOUS
    <2>1. RingInv
      BY InitRing
    <2>2. LinesTyped
      BY <2>1, LinesAreSeqs
    <2>3. Used(w, r) = 0 /\ Used(e, w) = 0
      BY <2>1, UsedAddsUp DEF Init
    <2>4. LineOf(r, w) = <<>> /\ LineOf(w, e) = <<>>
      BY <2>2, <2>3, EmptySeq DEF LinesTyped
    <2> QED
      BY <2>4 DEF Lines!Init
  <1>2. Spec => IsLineInput
    BY <1>1, StepRefines, RingCorrect, PTL DEF Spec, IsLineInput, Lines!Spec
  <1>3. ControlInv /\ [Next]_vars =>
          [\A c \in Cpus :
             At(c, "reading") /\ pc'[c] = "user" /\ r' # r /\ buf[r % INPUT_BUF] = "^D"
               => left[proc[c]] = target[proc[c]]]_vars
    BY EndOfFileStep
  <1>4. Spec => EndOfFileAlone
    BY <1>3, ControlCorrect, PTL DEF Spec, EndOfFileAlone
  <1> QED
    BY <1>2, <1>4, PTL DEF ConsoleInput

=============================================================================
