---------------------------- MODULE MCBufferCache ----------------------------
(***************************************************************************)
(* An instance of BufferCache for TLC.  Processes, buffers and contents    *)
(* are interchangeable.                                                    *)
(***************************************************************************)
EXTENDS BufferCache, TLC

Symmetry == Permutations(Proc) \cup Permutations(Buf) \cup Permutations(Value)
=============================================================================
