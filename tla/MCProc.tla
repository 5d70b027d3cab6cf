------------------------------- MODULE MCProc -------------------------------
(***************************************************************************)
(* Instances of Proc for TLC.  The CPUs are interchangeable.               *)
(***************************************************************************)
EXTENDS Proc, TLC

Symmetry == Permutations(CPU)
=============================================================================
