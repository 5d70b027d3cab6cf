-------------------------------- MODULE Fifo --------------------------------
(***************************************************************************)
(* What a pipe promises: a bounded first-in first-out queue of bytes.      *)
(***************************************************************************)
EXTENDS Integers, Sequences

CONSTANTS Proc, Byte, Size

VARIABLES
  queue,  \* the bytes written and not yet read
  out     \* the byte each process has read last

vars == <<queue, out>>

Init == queue = <<>> /\ out \in [Proc -> Byte]

Put(b) == Len(queue) < Size /\ queue' = Append(queue, b) /\ UNCHANGED out

Get(p) ==
  /\ queue # <<>>
  /\ out' = [out EXCEPT ![p] = Head(queue)]
  /\ queue' = Tail(queue)

\* A new pipe takes the place of one that is closed: nothing is left to read.
Drop == queue' = <<>> /\ UNCHANGED out

Next ==
  \/ \E b \in Byte : Put(b)
  \/ \E p \in Proc : Get(p)
  \/ Drop

Spec == Init /\ [][Next]_vars
=============================================================================
