----------------------------- MODULE MCConsole ------------------------------
(* Processes are alike.  States are told apart by what can still matter:     *)
(* intena counts while ncli does, the context of a process while it is       *)
(* switched out, and the ring from r up to e.                                *)
EXTENDS Console, TLC

Symmetry == Permutations(Procs)

Live == <<lock, eflags, ncli, [c \in Cpus |-> ncli[c] > 0 /\ intena[c]], panicked,
          proc, pc, ipc, spin, pstate, killed,
          [p \in Procs |-> IF pstate[p] = "RUNNING" THEN {} ELSE {saved[p]}],
          left, target, dump, r, w, e, LineOf(r, e)>>
=============================================================================
