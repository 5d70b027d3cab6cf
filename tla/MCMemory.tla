------------------------------ MODULE MCMemory ------------------------------
(* Two processes, pages of two bytes, three page tables of two pages each.   *)
EXTENDS Memory

MCImages ==
  {<<[vaddr |-> 0, memsz |-> 2, filesz |-> 1]>>,
   <<[vaddr |-> 0, memsz |-> 1, filesz |-> 1], [vaddr |-> 2, memsz |-> 5, filesz |-> 2]>>,
   <<[vaddr |-> 1, memsz |-> 2, filesz |-> 1]>>,
   <<[vaddr |-> 0, memsz |-> 2, filesz |-> 3]>>,
   <<[vaddr |-> 22, memsz |-> 4, filesz |-> 0], [vaddr |-> 22, memsz |-> 3, filesz |-> 1]>>}
MCReadSizes == {-1, 3}
MCDeltas == {-2, -1, 3}
=============================================================================
