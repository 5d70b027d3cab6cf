------------------------------ MODULE BlockStore ------------------------------
(***************************************************************************)
(* What bread, bwrite and brelse promise together: blocks that one process *)
(* at a time holds, reads and changes, as if there were no cache, no queue *)
(* and no disk.  A block whose transfer has failed may change by itself;   *)
(* no other block may.                                                     *)
(***************************************************************************)
EXTENDS Integers

CONSTANTS Proc, Block, Value

VARIABLES
  content,  \* what each block contains
  holder,   \* the process that holds each block, as a set
  failed    \* blocks with a failed transfer

vars == <<content, holder, failed>>

Init ==
  /\ content \in [Block -> Value]
  /\ holder = [k \in Block |-> {}]
  /\ failed = {}

Acquire(p, k) ==
  /\ holder[k] = {}
  /\ holder' = [holder EXCEPT ![k] = {p}]
  /\ \A j \in Block \ failed : content'[j] = content[j]
  /\ content' \in [Block -> Value]
  /\ UNCHANGED failed

Update(p, k, v) ==
  /\ holder[k] = {p}
  /\ content' = [content EXCEPT ![k] = v]
  /\ UNCHANGED <<holder, failed>>

Release(p, k) ==
  /\ holder[k] = {p}
  /\ holder' = [holder EXCEPT ![k] = {}]
  /\ UNCHANGED <<content, failed>>

Fail(k) ==
  /\ failed' = failed \cup {k}
  /\ content' \in [Block -> Value]
  /\ \A j \in Block \ failed' : content'[j] = content[j]
  /\ UNCHANGED holder

Next ==
  \/ \E p \in Proc, k \in Block : Acquire(p, k) \/ Release(p, k)
  \/ \E p \in Proc, k \in Block, v \in Value : Update(p, k, v)
  \/ \E k \in Block : Fail(k)

Spec == Init /\ [][Next]_vars
=============================================================================
