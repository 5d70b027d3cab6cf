------------------------------ MODULE Spinlock ------------------------------
(***************************************************************************)
(* Spin locks and the nesting of disabled interrupts (spinlock.c): each    *)
(* processor has its interrupt flag, the depth ncli of pushcli and what    *)
(* the flag was at depth 0.  acquire takes two steps, pushcli and the      *)
(* atomic exchange it spins on; release takes one.                         *)
(***************************************************************************)
EXTENDS Integers

CONSTANTS
  Cpus,     \* processors
  NoCpu,    \* the owner of a free lock
  Locks     \* spin locks

ASSUME SpinlockAssumption == NoCpu \notin Cpus

VARIABLES
  lock,      \* owner of each lock
  eflags,    \* is the interrupt flag of the processor set?
  ncli,      \* depth of pushcli
  intena,    \* the flag before the outermost pushcli
  panicked   \* has some processor called panic?

lockvars == <<lock, eflags, ncli, intena, panicked>>

SpinlockInit ==
  /\ lock = [l \in Locks |-> NoCpu]
  /\ eflags = [c \in Cpus |-> TRUE]
  /\ ncli = [c \in Cpus |-> 0]
  /\ intena = [c \in Cpus |-> FALSE]
  /\ panicked = FALSE

holding(c, l) == lock[l] = c

\* Mutant: every pushcli takes the flag.
Outermost_always(c) == TRUE

\* The flag to restore is taken at the outermost level only.
Outermost(c) == ncli[c] = 0

pushcli(c) ==
  /\ eflags' = [eflags EXCEPT ![c] = FALSE]
  /\ ncli' = [ncli EXCEPT ![c] = @ + 1]
  /\ intena' = [intena EXCEPT ![c] = IF Outermost(c) THEN eflags[c] ELSE @]

\* The first step of acquire: no interrupts, and no second acquire.
acquire(c, l) ==
  /\ pushcli(c)
  /\ panicked' = (panicked \/ holding(c, l))
  /\ UNCHANGED lock

\* The exchange that ends the spinning.
xchg(c, l) ==
  /\ lock[l] = NoCpu
  /\ lock' = [lock EXCEPT ![l] = c]
  /\ UNCHANGED <<eflags, ncli, intena, panicked>>

\* popcli sets the flag again when the outermost level is left.
Reenabled(c) == ncli[c] = 1 /\ intena[c]

release(c, l) ==
  /\ lock' = [lock EXCEPT ![l] = NoCpu]
  /\ eflags' = [eflags EXCEPT ![c] = @ \/ Reenabled(c)]
  /\ ncli' = [ncli EXCEPT ![c] = @ - 1]
  /\ panicked' = (panicked \/ ~holding(c, l) \/ eflags[c] \/ ncli[c] < 1)
  /\ UNCHANGED intena

=============================================================================
