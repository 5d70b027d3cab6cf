---------------------------- MODULE MCFileContent ----------------------------
(***************************************************************************)
(* Instances of FileContent for TLC.                                       *)
(***************************************************************************)
EXTENDS FileContent, TLC

Symmetry == Permutations(Proc)
=============================================================================
