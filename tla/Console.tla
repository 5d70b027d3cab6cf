------------------------------- MODULE Console ------------------------------
(***************************************************************************)
(* The console's input (console.c): keys arrive in interrupts on the first *)
(* processor while processes read and write the device on all of them.     *)
(* Each processor runs a process or its scheduler; an interrupt handler    *)
(* runs on top of either, and yields at a tick.  A process that is         *)
(* switched out goes on where any scheduler finds it.  The locks are those *)
(* of spinlock.c; sleep, yield, sched, wakeup and scheduler (proc.c) are   *)
(* translated as far as they use them.                                     *)
(***************************************************************************)
EXTENDS Spinlock, Sequences

CONSTANTS
  Procs,       \* processes
  NoProc,      \* what a processor runs when its scheduler does
  cpu0,        \* the processor that the interrupt controller sends keys to
  Timers,      \* the processors whose timer interrupts are looked at
  INPUT_BUF,   \* size of the input ring
  WRAP,        \* its indices are unsigned: they wrap here
  Counts       \* numbers of bytes that processes ask to read

ASSUME ConsoleAssumption ==
  /\ NoProc \notin Procs
  /\ cpu0 \in Cpus /\ Timers \subseteq Cpus
  /\ Locks = {"cons", "ptable"}
  /\ INPUT_BUF \in Nat \ {0}
  /\ WRAP \in Nat \ {0} /\ WRAP % INPUT_BUF = 0 /\ WRAP > INPUT_BUF
  /\ Counts \subseteq Nat

VARIABLES
  proc,     \* the process a processor runs, or NoProc
  pc,       \* where that process, or the scheduler, is
  ipc,      \* where its interrupt handler is, or "none"
  spin,     \* the lock it spins on, or "none"
  pstate,   \* state of a process
  killed,   \* has it been killed?
  saved,    \* where it goes on when it is switched to, and the intena that sched kept
  left,     \* bytes that it still has to read
  target,   \* bytes that it asked for
  dump,     \* is a process listing due?
  buf, r, w, e   \* the ring

contvars == <<proc, pc, ipc, spin, pstate, killed, saved, left, target, dump>>
ring == <<buf, r, w, e>>
vars == <<lockvars, contvars, ring>>

Stored == {"a", "\n", "^D"}
Keys   == Stored \cup {"^H", "^U", "^P"}

\* Every process has been interrupted in its program and has yielded.
Init ==
  /\ SpinlockInit
  /\ proc = [c \in Cpus |-> NoProc]
  /\ pc = [c \in Cpus |-> "idle"]
  /\ ipc = [c \in Cpus |-> "none"]
  /\ spin = [c \in Cpus |-> "none"]
  /\ pstate = [p \in Procs |-> "RUNNABLE"]
  /\ killed = [p \in Procs |-> FALSE]
  /\ saved = [p \in Procs |-> [pc |-> "user", ipc |-> "iret", intena |-> FALSE]]
  /\ left = [p \in Procs |-> 0]
  /\ target = [p \in Procs |-> 0]
  /\ dump = FALSE
  /\ buf = [i \in 0 .. INPUT_BUF - 1 |-> "a"]
  /\ r = 0 /\ w = 0 /\ e = 0

\* The places that call acquire, the lock they want and where they go on.
Wants == [read |-> "cons", write |-> "cons", reread |-> "cons", kbd |-> "cons",
          dump |-> "cons", sleep |-> "ptable", resched |-> "ptable",
          wakeup |-> "ptable", timer |-> "ptable", yield |-> "ptable"]
Then  == [read |-> "reading", write |-> "writing", reread |-> "reading",
          kbd |-> "getc", dump |-> "dumping", sleep |-> "sleeping",
          resched |-> "scan", wakeup |-> "waking", timer |-> "ticking",
          yield |-> "yielding"]

top(c) == IF ipc[c] = "none" THEN pc[c] ELSE ipc[c]

At(c, x)  == ~panicked /\ ipc[c] = "none" /\ pc[c] = x
IAt(c, x) == ~panicked /\ ipc[c] = x

Goto(c, x)  == pc' = [pc EXCEPT ![c] = x]
IGoto(c, x) == ipc' = [ipc EXCEPT ![c] = x]

do_acquire(c) ==
  /\ ~panicked
  /\ top(c) \in DOMAIN Wants
  /\ spin[c] = "none"
  /\ acquire(c, Wants[top(c)])
  /\ spin' = [spin EXCEPT ![c] = Wants[top(c)]]
  /\ UNCHANGED <<proc, pc, ipc, pstate, killed, saved, left, target, dump, ring>>

acquired(c) ==
  /\ ~panicked
  /\ spin[c] # "none"
  /\ xchg(c, spin[c])
  /\ spin' = [spin EXCEPT ![c] = "none"]
  /\ IF ipc[c] = "none" THEN Goto(c, Then[pc[c]]) /\ UNCHANGED ipc
                        ELSE IGoto(c, Then[ipc[c]]) /\ UNCHANGED pc
  /\ UNCHANGED <<proc, pstate, killed, saved, left, target, dump, ring>>

-----------------------------------------------------------------------------
(* consoleread and consolewrite, entered with interrupts on. *)

call_read(c, n) ==
  /\ At(c, "user")
  /\ Goto(c, "read")
  /\ left' = [left EXCEPT ![proc[c]] = n]
  /\ target' = [target EXCEPT ![proc[c]] = n]
  /\ UNCHANGED <<lockvars, proc, ipc, spin, pstate, killed, saved, dump, ring>>

call_write(c) ==
  /\ At(c, "user")
  /\ Goto(c, "write")
  /\ UNCHANGED <<lockvars, proc, ipc, spin, pstate, killed, saved, left, target, dump, ring>>

\* The call is over; a killed process ends, and another one takes its place.
Return(c) ==
  /\ release(c, "cons")
  /\ Goto(c, "user")
  /\ killed' = [killed EXCEPT ![proc[c]] = FALSE]
  /\ left' = [left EXCEPT ![proc[c]] = 0]
  /\ target' = [target EXCEPT ![proc[c]] = 0]
  /\ UNCHANGED <<proc, ipc, spin, pstate, saved, dump, buf, w, e>>

written(c) == At(c, "writing") /\ Return(c) /\ UNCHANGED r

\* A call that asks for no byte returns at once.
read_nothing(c) == At(c, "reading") /\ left[proc[c]] = 0 /\ Return(c) /\ UNCHANGED r

read_killed(c) ==
  /\ At(c, "reading")
  /\ left[proc[c]] > 0 /\ r = w
  /\ killed[proc[c]]
  /\ Return(c)
  /\ UNCHANGED r

read_sleep(c) ==
  /\ At(c, "reading")
  /\ left[proc[c]] > 0 /\ r = w
  /\ ~killed[proc[c]]
  /\ Goto(c, "sleep")
  /\ UNCHANGED <<lockvars, proc, ipc, spin, pstate, killed, saved, left, target, dump, ring>>

Plus1(i) == (i + 1) % WRAP

\* One turn of the loop: an end of file that does not come first stays in
\* the ring for the next call.
PutBack(c) == left[proc[c]] < target[proc[c]]

read_char(c) ==
  LET ch == buf[r % INPUT_BUF]
  IN  /\ At(c, "reading")
      /\ left[proc[c]] > 0 /\ r # w
      /\ r' = IF ch = "^D" /\ PutBack(c) THEN r ELSE Plus1(r)
      /\ IF ch \in {"^D", "\n"} \/ left[proc[c]] = 1
         THEN Return(c)
         ELSE /\ left' = [left EXCEPT ![proc[c]] = @ - 1]
              /\ UNCHANGED <<lockvars, proc, pc, ipc, spin, pstate, killed, saved, target,
                             dump, buf, w, e>>

-----------------------------------------------------------------------------
(* sleep(&input.r, &cons.lock): ptable.lock in exchange for cons.lock. *)

sleep(c) ==
  /\ At(c, "sleeping")
  /\ release(c, "cons")
  /\ pstate' = [pstate EXCEPT ![proc[c]] = "SLEEPING"]
  /\ Goto(c, "sched")
  /\ UNCHANGED <<proc, ipc, spin, killed, saved, left, target, dump, ring>>

\* yield, at the end of a timer interrupt.
yielding(c) ==
  /\ IAt(c, "yielding")
  /\ pstate' = [pstate EXCEPT ![proc[c]] = "RUNNABLE"]
  /\ IGoto(c, "sched")
  /\ UNCHANGED <<lockvars, proc, pc, spin, killed, saved, left, target, dump, ring>>

\* Where a process goes on after sched: sleep takes cons.lock again, and the interrupt that
\* has yielded returns.
Resumed(c) ==
  [pc     |-> IF ipc[c] = "none" THEN "reread" ELSE pc[c],
   ipc    |-> IF ipc[c] = "none" THEN "none" ELSE "iret",
   intena |-> intena[c]]

\* sched keeps intena for the process and goes back into the loop of the scheduler, which has
\* ptable.lock now.  It panics unless exactly that lock is held and interrupts are off.
sched(c) ==
  /\ ~panicked
  /\ top(c) = "sched"
  /\ panicked' = (~holding(c, "ptable") \/ ncli[c] # 1 \/ eflags[c]
                    \/ pstate[proc[c]] = "RUNNING")
  /\ saved' = [saved EXCEPT ![proc[c]] = Resumed(c)]
  /\ proc' = [proc EXCEPT ![c] = NoProc]
  /\ Goto(c, "scan")
  /\ IGoto(c, "none")
  /\ UNCHANGED <<lock, eflags, ncli, intena, spin, pstate, killed, left, target, dump, ring>>

\* The scheduler's loop: sti, then ptable.lock.
scheduler(c) ==
  /\ At(c, "idle")
  /\ eflags' = [eflags EXCEPT ![c] = TRUE]
  /\ Goto(c, "resched")
  /\ UNCHANGED <<lock, ncli, intena, panicked, proc, ipc, spin, pstate, killed, saved,
                 left, target, dump, ring>>

\* Mutant: the process goes on with what its processor has.
Restored_lost(c, p) == intena[c]

\* Back in sched: intena is the process's own again, on whatever processor, before sleep or
\* yield lets ptable.lock go.
Restored(c, p) == saved[p].intena

\* The scheduler switches to a process.  It may be the second one of the same turn through the
\* table, with the intena that the first one has left.
dispatch(c, p) ==
  /\ At(c, "scan")
  /\ pstate[p] = "RUNNABLE"
  /\ pstate' = [pstate EXCEPT ![p] = "RUNNING"]
  /\ proc' = [proc EXCEPT ![c] = p]
  /\ Goto(c, saved[p].pc)
  /\ IGoto(c, saved[p].ipc)
  /\ lock' = [lock EXCEPT !["ptable"] = NoCpu]
  /\ intena' = [intena EXCEPT ![c] = Restored(c, p)]
  /\ ncli' = [ncli EXCEPT ![c] = @ - 1]
  /\ eflags' = [eflags EXCEPT ![c] = @ \/ (ncli[c] = 1 /\ Restored(c, p))]
  /\ panicked' = (~holding(c, "ptable") \/ eflags[c] \/ ncli[c] < 1)
  /\ UNCHANGED <<spin, killed, saved, left, target, dump, ring>>

\* The end of the table, whose order is left out: processes that are runnable may come before
\* the one that was switched to last.
scanned(c) ==
  /\ At(c, "scan")
  /\ release(c, "ptable")
  /\ Goto(c, "idle")
  /\ UNCHANGED <<proc, ipc, spin, pstate, killed, saved, left, target, dump, ring>>

\* kill, in some process elsewhere, under ptable.lock.
kill(p) ==
  /\ ~panicked
  /\ lock["ptable"] = NoCpu
  /\ target[p] > 0
  /\ killed' = [killed EXCEPT ![p] = TRUE]
  /\ pstate' = [pstate EXCEPT ![p] = IF @ = "SLEEPING" THEN "RUNNABLE" ELSE @]
  /\ UNCHANGED <<lockvars, proc, pc, ipc, spin, saved, left, target, dump, ring>>

-----------------------------------------------------------------------------
(* Interrupts: the gate clears the flag, iret sets it again. *)

interrupt(c, kind) ==
  /\ ~panicked
  /\ eflags[c]
  /\ ipc[c] = "none"
  /\ kind = "kbd" => c = cpu0
  /\ kind = "timer" => c \in Timers
  /\ eflags' = [eflags EXCEPT ![c] = FALSE]
  /\ IGoto(c, IF kind = "timer" /\ c # cpu0 THEN "tick" ELSE kind)
  /\ UNCHANGED <<lock, ncli, intena, panicked, proc, pc, spin, pstate, killed, saved,
                 left, target, dump, ring>>

iret(c) ==
  /\ IAt(c, "iret")
  /\ eflags' = [eflags EXCEPT ![c] = TRUE]
  /\ IGoto(c, "none")
  /\ UNCHANGED <<lock, ncli, intena, panicked, proc, pc, spin, pstate, killed, saved,
                 left, target, dump, ring>>

\* The timer of the first processor wakes the sleepers on ticks, under ptable.lock.
ticking(c) ==
  /\ IAt(c, "ticking")
  /\ release(c, "ptable")
  /\ IGoto(c, "tick")
  /\ UNCHANGED <<proc, pc, spin, pstate, killed, saved, left, target, dump, ring>>

\* The end of a timer interrupt: a process yields once in SCHED_INTERVAL ticks, which may be
\* any of them; the scheduler has no process.
tick(c) ==
  /\ IAt(c, "tick")
  /\ \E next \in {"yield", "iret"} :
       /\ next = "yield" => proc[c] # NoProc
       /\ IGoto(c, next)
  /\ UNCHANGED <<lockvars, proc, pc, spin, pstate, killed, saved, left, target, dump, ring>>

Used(i, j) == (i - j) % WRAP
HasRoom == Used(e, r) < INPUT_BUF

\* Mutant: a full ring does not count.
Complete_line(ch) == ch \in {"\n", "^D"}

\* A line is complete, or the ring is full.
Complete(ch) == ch \in {"\n", "^D"} \/ Plus1(e) = (r + INPUT_BUF) % WRAP

Minus1(i) == (i - 1) % WRAP

\* Where Control-U stops: at the start of the line, or after a newline.
KilledTo ==
  CHOOSE i \in 0 .. WRAP - 1 :
    LET line == 1 .. Used(e, w)
        stop == {k \in line : buf[((e - k) % WRAP) % INPUT_BUF] = "\n"}
    IN  i = IF stop = {} THEN w
            ELSE (e - ((CHOOSE k \in stop : \A x \in stop : k <= x) - 1)) % WRAP

\* Mutant: a backspace takes characters of the line before.
Erasable_empty == TRUE

\* A backspace erases what has been typed since the last complete line.
Erasable == e # w

\* consoleintr's switch on a character.
typed(c, ch) ==
  /\ IAt(c, "getc")
  /\ \/ /\ ch = "^P"
        /\ dump' = TRUE
        /\ UNCHANGED <<ipc, ring>>
     \/ /\ ch = "^U"
        /\ e' = KilledTo
        /\ UNCHANGED <<ipc, dump, buf, r, w>>
     \/ /\ ch = "^H"
        /\ e' = IF Erasable THEN Minus1(e) ELSE e
        /\ UNCHANGED <<ipc, dump, buf, r, w>>
     \/ /\ ch \in Stored
        /\ HasRoom
        /\ buf' = [buf EXCEPT ![e % INPUT_BUF] = ch]
        /\ e' = Plus1(e)
        /\ IF Complete(ch) THEN w' = Plus1(e) /\ IGoto(c, "wakeup")
                           ELSE UNCHANGED <<w, ipc>>
        /\ UNCHANGED <<dump, r>>
  /\ UNCHANGED <<lockvars, proc, pc, spin, pstate, killed, saved, left, target>>

\* wakeup(&input.r) makes every sleeper runnable.
Woken == Procs

waking(c) ==
  /\ IAt(c, "waking")
  /\ pstate' = [p \in Procs |-> IF pstate[p] = "SLEEPING" /\ p \in Woken
                              THEN "RUNNABLE" ELSE pstate[p]]
  /\ release(c, "ptable")
  /\ IGoto(c, "getc")
  /\ UNCHANGED <<proc, pc, spin, killed, saved, left, target, dump, ring>>

\* Mutant: procdump is called before cons.lock is released.
typed_all_early(c) ==
  /\ IAt(c, "getc")
  /\ IF dump THEN UNCHANGED lockvars ELSE release(c, "cons")
  /\ IGoto(c, IF dump THEN "dump" ELSE "iret")
  /\ dump' = FALSE
  /\ UNCHANGED <<proc, pc, spin, pstate, killed, saved, left, target, ring>>

\* No more keys: cons.lock is released before procdump, which prints and so takes it itself.
typed_all(c) ==
  /\ IAt(c, "getc")
  /\ release(c, "cons")
  /\ IGoto(c, IF dump THEN "dump" ELSE "iret")
  /\ dump' = FALSE
  /\ UNCHANGED <<proc, pc, spin, pstate, killed, saved, left, target, ring>>

\* procdump calls cprintf for every field of every process, each time with the lock anew.
dumping(c) ==
  /\ IAt(c, "dumping")
  /\ release(c, "cons")
  /\ \E next \in {"dump", "iret"} : IGoto(c, next)
  /\ UNCHANGED <<proc, pc, spin, pstate, killed, saved, left, target, dump, ring>>

-----------------------------------------------------------------------------
Next ==
  \E c \in Cpus :
    \/ do_acquire(c) \/ acquired(c)
    \/ \E n \in Counts : call_read(c, n)
    \/ call_write(c) \/ written(c)
    \/ read_nothing(c) \/ read_killed(c) \/ read_sleep(c) \/ read_char(c)
    \/ sleep(c) \/ yielding(c) \/ sched(c) \/ scheduler(c) \/ scanned(c)
    \/ \E p \in Procs : dispatch(c, p) \/ kill(p)
    \/ \E kind \in {"kbd", "timer"} : interrupt(c, kind)
    \/ iret(c) \/ ticking(c) \/ tick(c)
    \/ \E ch \in Keys : typed(c, ch)
    \/ waking(c) \/ typed_all(c) \/ dumping(c)

Spec == Init /\ [][Next]_vars

-----------------------------------------------------------------------------
(* Properties. *)

Held(c) == {l \in Locks : holding(c, l)}

\* Indices stay in range, and so does the nesting of pushcli.
TypeOK ==
  /\ lock \in [Locks -> Cpus \cup {NoCpu}]
  /\ ncli \in [Cpus -> 0 .. 2]
  /\ pstate \in [Procs -> {"RUNNING", "SLEEPING", "RUNNABLE"}]
  /\ buf \in [0 .. INPUT_BUF - 1 -> Stored]
  /\ {r, w, e} \subseteq 0 .. WRAP - 1
  /\ \A p \in Procs : 0 <= left[p] /\ left[p] <= target[p]

\* A processor that holds or waits for a lock takes no interrupt, so that no
\* handler can spin on a lock of the code it has interrupted; and ncli
\* counts exactly those locks.
LockedMeansMasked ==
  \A c \in Cpus :
    LET locks == {l \in Locks : holding(c, l) \/ spin[c] = l}
    IN  /\ locks # {} => ~eflags[c]
        /\ ncli[c] = IF locks = {} THEN 0 ELSE IF locks = Locks THEN 2 ELSE 1

\* Two processors never wait for each other's locks: cons.lock comes before
\* ptable.lock in sleep, in wakeup from the handler and in printing.
NoLockCycle ==
  \A c \in Cpus : spin[c] # "none" /\ lock[spin[c]] # NoCpu =>
    LET d == lock[spin[c]]
    IN  spin[d] = "none" \/ lock[spin[d]] # c

\* Interrupts are back on when a process is in user code, and on in a system
\* call that holds no lock, after whatever sleeps and switches it made; and a
\* handler is never interrupted, not even after it has yielded.
InterruptsRestored ==
  /\ \A c \in Cpus : ipc[c] # "none" => ~eflags[c]
  /\ \A c \in Cpus : ipc[c] = "none" /\ pc[c] \in {"user", "read", "write", "reread"}
                     /\ spin[c] = "none" /\ Held(c) = {} => eflags[c]

\* None of the panics of acquire, release, popcli and sched is reached.
NoPanic == ~panicked

\* The ring's indices stay in order, and a ring that is full can be read,
\* whether or not a line was completed.
FullIsReadable ==
  /\ Used(w, r) <= Used(e, r)
  /\ Used(e, r) <= INPUT_BUF
  /\ Used(e, r) = INPUT_BUF => w = e

\* A process sleeps for input only while there is none, or while the handler
\* that has just completed a line is on its way to wake it.
SleepersHaveNothing ==
  \A p \in Procs : pstate[p] = "SLEEPING" =>
    r = w \/ \E d \in Cpus : ipc[d] \in {"wakeup", "waking"}

\* The ring is the line input that readers expect.
LineOf(i, j) == [k \in 1 .. Used(j, i) |-> buf[((i + k - 1) % WRAP) % INPUT_BUF]]

Lines == INSTANCE LineInput
  WITH Plain <- {"a"}, Enders <- {"\n", "^D"}, Capacity <- INPUT_BUF,
       entered <- LineOf(r, w), edit <- LineOf(w, e)

\* Every step of processes and handlers is a step of the line input: typed
\* characters are read in order, once each, and editing ends at the start of
\* the line.
IsLineInput == Lines!Spec

\* A call returns an end of file as an empty result of its own: when an end
\* of file is taken from the ring, the call has read nothing before it.
EndOfFileAlone ==
  [][\A c \in Cpus :
       At(c, "reading") /\ pc'[c] = "user" /\ r' # r /\ buf[r % INPUT_BUF] = "^D"
         => left[proc[c]] = target[proc[c]]]_vars

\* No processor takes an interrupt while it holds a lock, and each process gets back its
\* own interrupt flag.
InterruptsSound == TypeOK /\ LockedMeansMasked /\ InterruptsRestored

\* Locks are taken in one order and never twice.
LocksSound == NoLockCycle /\ NoPanic

\* A reader sleeps only while there is no complete line, and a full ring counts as one.
ReadersServed == SleepersHaveNothing /\ FullIsReadable

\* The console hands out the lines that were typed, and ends of file between them.
ConsoleInput == IsLineInput /\ EndOfFileAlone
=============================================================================
