------------------------------- MODULE MCLog --------------------------------
(***************************************************************************)
(* Instances of Log for TLC.  Processes and block contents are model       *)
(* values; the specification treats them alike, so both are symmetric.     *)
(***************************************************************************)
EXTENDS Log, TLC

Symmetry == Permutations(Proc) \cup Permutations(Val)
=============================================================================
