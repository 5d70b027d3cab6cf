----------------------------- MODULE AtomicDisk -----------------------------
(***************************************************************************)
(* What the logging layer promises to the file system above it (log.c,     *)
(* lines 8-29): the updates of the system calls bracketed by begin_op and  *)
(* end_op reach the disk all together or not at all, whenever the machine  *)
(* stops, and never while a bracketed call is still in progress.           *)
(***************************************************************************)
CONSTANTS Proc, Home, Val

VARIABLES
  mem,      \* the blocks as the running system sees them
  durable,  \* the blocks as they will be found after a crash and a reboot
  active    \* the processes that are between begin_op and end_op

vars == <<mem, durable, active>>

Init ==
  /\ mem \in [Home -> Val]
  /\ durable = mem
  /\ active = {}

Begin(p) ==
  /\ p \notin active
  /\ active' = active \cup {p}
  /\ UNCHANGED <<mem, durable>>

Write(p, b, v) ==
  /\ p \in active
  /\ mem' = [mem EXCEPT ![b] = v]
  /\ UNCHANGED <<durable, active>>

End(p) ==
  /\ p \in active
  /\ active' = active \ {p}
  /\ UNCHANGED <<mem, durable>>

\* Everything written so far becomes durable in one step, and only between calls.
Commit ==
  /\ active = {}
  /\ durable' = mem
  /\ UNCHANGED <<mem, active>>

\* The machine stops: what is not durable is gone.
Crash ==
  /\ mem' = durable
  /\ active' = {}
  /\ UNCHANGED durable

Next ==
  \/ \E p \in Proc : Begin(p) \/ End(p)
  \/ \E p \in Proc, b \in Home, v \in Val : Write(p, b, v)
  \/ Commit
  \/ Crash

Spec == Init /\ [][Next]_vars
=============================================================================
