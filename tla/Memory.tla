------------------------------- MODULE Memory -------------------------------
(***************************************************************************)
(* Physical pages and address spaces: the page allocator (kalloc.c), page  *)
(* tables (vm.c), and the calls that build and free them: userinit,        *)
(* growproc, fork and wait (proc.c), exec (exec.c), with the checks of     *)
(* pointer arguments (syscall.c).                                          *)
(*                                                                         *)
(* A system call takes a step for every page it allocates, so that calls   *)
(* of other processes empty or refill the free list in between.  Free      *)
(* pages are interchangeable: a set stands for the free list, and kalloc   *)
(* takes its lowest member.  The contents of a page are one value.         *)
(*                                                                         *)
(* The ghosts: want is the memory a process has been promised; damaged     *)
(* names the processes that lost some of it although their call did not    *)
(* say so; tabfailed records that a page table could not be allocated.     *)
(***************************************************************************)
EXTENDS Integers, Sequences, FiniteSets, FiniteSetsExt

CONSTANTS
  Procs,        \* slots of the process table
  initproc,     \* the first process
  NPAGES,       \* physical pages the allocator manages
  PGSIZE,       \* bytes in a page
  NPTENTRIES,   \* pages one page table maps
  KERNBASE,     \* first address the user cannot have
  NKTAB,        \* page tables of the kernel's own mappings
  Deltas,       \* arguments of sbrk
  Images,       \* programs: sequences of segments [vaddr, memsz, filesz]
  ArgSizes,     \* bytes the arguments of exec take on the stack
  PTRSIZE,      \* bytes of a pointer
  ReadSizes,    \* sizes that read is called with, signed
  Lengths,      \* bytes of the file that is read, and of the table of getprocs
  MAXCALLS      \* bound: sbrk, fork, exec and exit calls of a behaviour

ASSUME MemoryAssumption ==
  /\ initproc \in Procs /\ "none" \notin Procs
  /\ {NPAGES, PGSIZE, NPTENTRIES, KERNBASE, NKTAB, PTRSIZE} \subseteq Nat \ {0}
  /\ KERNBASE % (PGSIZE * NPTENTRIES) = 0 /\ KERNBASE > PGSIZE
  /\ NPAGES > NKTAB + 4
  /\ ArgSizes \subseteq Nat \ {0}
  /\ Deltas \subseteq Int /\ Lengths \subseteq Nat
  /\ ReadSizes \subseteq -KERNBASE .. KERNBASE - 1     \* what an int holds

\* A program header holds three uints, whatever the file says; KERNBASE is the middle of
\* the addresses.
Uint == 0 .. 2 * KERNBASE - 1
Segment == [vaddr : Uint, memsz : Uint, filesz : Uint]

ASSUME ImageAssumption == Images \subseteq Seq(Segment)

VARIABLES free, content, state, parent, kstack, as, sz, cr3, job,
          want, damaged, tabfailed, halted, calls

vars == <<free, content, state, parent, kstack, as, sz, cr3, job,
          want, damaged, tabfailed, halted, calls>>

NoPage == 0
Pages  == 1 .. NPAGES
VPages == 0 .. KERNBASE \div PGSIZE - 1
Tables == 0 .. KERNBASE \div (PGSIZE * NPTENTRIES) - 1

PGROUNDUP(n) == (n + PGSIZE - 1) \div PGSIZE      \* as a page number
PagesOf(n)   == 0 .. PGROUNDUP(n) - 1

NoPte  == [pa |-> NoPage, u |-> FALSE]
NoVal  == [val |-> "none", u |-> FALSE]
NoSpace == [dir |-> NoPage, ktab |-> {}, utab |-> [t \in Tables |-> NoPage],
            pte |-> [v \in VPages |-> NoPte]]
\* The call a process is in, with the address space it builds or frees.
Idle == [pc |-> "user", space |-> NoSpace, np |-> "none", old |-> 0, new |-> 0, a |-> 0,
         next |-> "none", hole |-> FALSE, segs |-> <<>>]

-----------------------------------------------------------------------------
(* kalloc.c and vm.c, on a set F of free pages and an address space s. *)

kalloc(F) == IF F = {} THEN NoPage ELSE Min(F)

\* kfree fills a page with junk.
Junked(S) == [q \in Pages |-> IF q \in S THEN "junk" ELSE content[q]]

HasTable(s, v) == s.utab[v \div NPTENTRIES] # NoPage

\* mappages of one page, with the table that walkpgdir may allocate.
mappages(s, v, q, u, F) ==
  LET t   == v \div NPTENTRIES
      tab == IF HasTable(s, v) THEN s.utab[t] ELSE kalloc(F)
  IN  IF tab = NoPage
      THEN [ok |-> FALSE, space |-> s, free |-> F]
      ELSE [ok |-> TRUE, free |-> F \ {tab},
            space |-> [s EXCEPT !.utab[t] = tab, !.pte[v] = [pa |-> q, u |-> u]]]

\* setupkvm needs the directory and the kernel's tables; short of them it
\* keeps what it has got.
CanSetup(F) == Cardinality(F) > NKTAB
KernelTables(F) == {q \in F : Cardinality({r \in F : r < q}) \in 1 .. NKTAB}
setupkvm(F) ==
  IF CanSetup(F)
  THEN [space |-> [NoSpace EXCEPT !.dir = Min(F), !.ktab = KernelTables(F)],
        free  |-> F \ ({Min(F)} \cup KernelTables(F))]
  ELSE [space |-> NoSpace, free |-> {}]

\* The pages deallocuvm looks at: a missing table makes it jump
\* NPTENTRIES pages ahead of where it stands.
Scanned(s, oldsz, newsz) ==
  LET scan[a \in 0 .. Cardinality(VPages) + NPTENTRIES] ==
        IF a * PGSIZE >= oldsz THEN {}
        ELSE IF ~HasTable(s, a) THEN scan[a + NPTENTRIES]
        ELSE {a} \cup scan[a + 1]
  IN  IF newsz >= oldsz THEN {} ELSE scan[PGROUNDUP(newsz)]

UserPages(s, V) == {s.pte[v].pa : v \in V} \ {NoPage}

deallocuvm(s, oldsz, newsz) ==
  LET V == Scanned(s, oldsz, newsz)
  IN  [space |-> [s EXCEPT !.pte = [v \in VPages |-> IF v \in V THEN NoPte ELSE @[v]]],
       freed |-> UserPages(s, V)]

TablesOf(s) == {s.utab[t] : t \in Tables} \ {NoPage}

\* Mutant: the page tables are forgotten.
freevm_tables(s) == deallocuvm(s, KERNBASE, 0).freed \cup s.ktab \cup {s.dir}

\* The pages freevm gives back.
freevm(s) == deallocuvm(s, KERNBASE, 0).freed \cup TablesOf(s) \cup s.ktab \cup {s.dir}

\* allocuvm refuses to reach into the kernel's half.
Fits(new) == new < KERNBASE

\* Mutant: the guard page of the parent becomes an ordinary page of the child.
flags_user(pte) == TRUE

\* copyuvm gives the child's page the permission of the parent's.
flags(pte) == pte.u

\* Mutant: the old directory stays loaded.
switchuvm_late(p, s) == UNCHANGED cr3

\* switchuvm loads the page directory of p's address space s.
switchuvm(p, s) == cr3' = [cr3 EXCEPT ![p] = s.dir]

\* uva2ka finds no page for the user at v: it is closed to him, or the address has wrapped
\* around to the kernel's device pages.
NoUserPage(s, v) == v \notin VPages \/ ~s.pte[v].u

-----------------------------------------------------------------------------
Booted ==
  LET k == setupkvm(Pages \ {1})
      q == kalloc(k.free)
  IN  mappages(k.space, 0, q, TRUE, k.free \ {q})

\* userinit: a kernel stack, setupkvm and the page of initcode.
Init ==
  /\ as = [p \in Procs |-> IF p = initproc THEN Booted.space ELSE NoSpace]
  /\ free = Booted.free
  /\ content = [q \in Pages |-> IF q = Booted.space.pte[0].pa THEN "text" ELSE "junk"]
  /\ state = [p \in Procs |-> IF p = initproc THEN "RUNNING" ELSE "UNUSED"]
  /\ parent = [p \in Procs |-> IF p = initproc THEN initproc ELSE "none"]
  /\ kstack = [p \in Procs |-> IF p = initproc THEN 1 ELSE NoPage]
  /\ sz = [p \in Procs |-> IF p = initproc THEN PGSIZE ELSE 0]
  /\ cr3 = [p \in Procs |-> as[p].dir]
  /\ job = [p \in Procs |-> Idle]
  /\ want = [p \in Procs |-> [v \in VPages |->
               IF p = initproc /\ v = 0 THEN [val |-> "text", u |-> TRUE] ELSE NoVal]]
  /\ damaged = {}
  /\ tabfailed = FALSE
  /\ halted = {}
  /\ calls = 0

Running(p, pc) == halted = {} /\ state[p] = "RUNNING" /\ job[p].pc = pc

Called(p) == Running(p, "user") /\ calls < MAXCALLS /\ calls' = calls + 1

Goto(p, j) == job' = [job EXCEPT ![p] = j]

\* A panic, a write through a page table entry that is not there, or one to the kernel's own
\* memory: nothing is known of the machine afterwards, and the model ends.  It is a stray one
\* if exec or an argument has led the kernel outside of the memory of process p.
Halt(p, stray) ==
  /\ halted' = {[proc |-> p, stray |-> stray]}
  /\ UNCHANGED <<free, content, state, parent, kstack, as, sz, cr3, job, want,
                 damaged, tabfailed, calls>>

-----------------------------------------------------------------------------
(* sbrk: growproc, and the loop of allocuvm that exec shares. *)

\* allocuvm never shrinks: short of oldsz it keeps that.
NewSize(old, new) == IF new < old THEN old ELSE new

\* allocuvm up to newsz in the space of job j, then the step called next.
Allocate(j, old, new, next) ==
  [j EXCEPT !.pc = "alloc", !.old = old, !.new = NewSize(old, new), !.a = PGROUNDUP(old),
            !.next = next]

\* growproc takes the size 0 that deallocuvm returns for a failure.
ShrinkKept(new) == new # 0

sbrk(p, n) ==
  LET new == (sz[p] + n) % (2 * KERNBASE)
      d   == deallocuvm(as[p], sz[p], new)
  IN  /\ Called(p)
      /\ \/ /\ n > 0
            /\ Fits(new)
            /\ Goto(p, Allocate(Idle, sz[p], new, "grown"))
            /\ UNCHANGED <<free, content, as, sz, want, damaged>>
         \/ /\ n < 0
            /\ new < sz[p]
            /\ as' = [as EXCEPT ![p] = d.space]
            /\ free' = free \cup d.freed
            /\ content' = Junked(d.freed)
            /\ sz' = [sz EXCEPT ![p] = IF ShrinkKept(new) THEN new ELSE @]
            /\ damaged' = IF ShrinkKept(new) THEN damaged ELSE damaged \cup {p}
            /\ want' = [want EXCEPT ![p] = [v \in VPages |->
                          IF v \in PagesOf(new) THEN @[v] ELSE NoVal]]
            /\ UNCHANGED job
      /\ UNCHANGED <<state, parent, kstack, cr3, tabfailed, halted>>

\* The address space the call works on: its own when it grows.
Target(p) == IF job[p].next = "grown" THEN as[p] ELSE job[p].space

Retarget(p, s, j) ==
  IF job[p].next = "grown"
  THEN as' = [as EXCEPT ![p] = s] /\ Goto(p, j)
  ELSE Goto(p, [j EXCEPT !.space = s]) /\ UNCHANGED as

\* One turn of allocuvm's loop.  It does not look at what mappages returns.
alloc_page(p) ==
  LET j == job[p]
      q == kalloc(free)
      m == mappages(Target(p), j.a, q, TRUE, free \ {q})
  IN  /\ Running(p, "alloc")
      /\ j.a * PGSIZE < j.new
      /\ free # {}
      /\ IF Target(p).pte[j.a] # NoPte
         THEN Halt(p, FALSE)    \* panic("remap")
         ELSE /\ Retarget(p, m.space, [j EXCEPT !.a = @ + 1, !.hole = @ \/ ~m.ok])
              /\ free' = m.free
              /\ content' = [content EXCEPT ![q] = "zero"]
              /\ tabfailed' = (tabfailed \/ ~m.ok)
              /\ UNCHANGED <<state, parent, kstack, sz, cr3, want, damaged, halted, calls>>

\* Out of memory: what this call has allocated is given back; exec then
\* frees the whole new address space.
alloc_fail(p) ==
  LET j == job[p]
      d == deallocuvm(Target(p), j.new, j.old)
      freed == d.freed \cup IF j.next = "grown" THEN {} ELSE freevm(d.space)
  IN  /\ Running(p, "alloc")
      /\ j.a * PGSIZE < j.new
      /\ free = {}
      /\ as' = IF j.next = "grown" THEN [as EXCEPT ![p] = d.space] ELSE as
      /\ free' = free \cup freed
      /\ content' = Junked(freed)
      /\ Goto(p, Idle)
      /\ UNCHANGED <<state, parent, kstack, sz, cr3, want, damaged, tabfailed, halted, calls>>

\* A page of zeros for every page of the growth.
Grown(w, old, new) ==
  [v \in VPages |-> IF v \in PagesOf(new) \ PagesOf(old)
                    THEN [val |-> "zero", u |-> TRUE] ELSE w[v]]

grown(p) ==
  LET j == job[p]
  IN  /\ Running(p, "alloc")
      /\ j.next = "grown"
      /\ j.a * PGSIZE >= j.new
      /\ sz' = [sz EXCEPT ![p] = j.new]
      /\ want' = [want EXCEPT ![p] = Grown(@, j.old, j.new)]
      /\ damaged' = IF j.hole THEN damaged \cup {p} ELSE damaged
      /\ Goto(p, Idle)
      /\ UNCHANGED <<free, content, state, parent, kstack, as, cr3, tabfailed, halted, calls>>

-----------------------------------------------------------------------------
(* fork: allocproc's kernel stack, then copyuvm. *)

fork(p, np) ==
  /\ Called(p)
  /\ state[np] = "UNUSED"
  /\ free # {}
  /\ kstack' = [kstack EXCEPT ![np] = kalloc(free)]
  /\ free' = free \ {kalloc(free)}
  /\ state' = [state EXCEPT ![np] = "EMBRYO"]
  /\ Goto(p, [Idle EXCEPT !.pc = "setup", !.np = np])
  /\ UNCHANGED <<content, parent, as, sz, cr3, want, damaged, tabfailed, halted>>

\* fork gives the slot and its kernel stack back, and copyuvm its pages.
ForkFails(p, s, F) ==
  LET np    == job[p].np
      freed == {kstack[np]} \cup IF s = NoSpace THEN {} ELSE freevm(s)
  IN  /\ free' = F \cup freed
      /\ content' = Junked(freed)
      /\ kstack' = [kstack EXCEPT ![np] = NoPage]
      /\ state' = [state EXCEPT ![np] = "UNUSED"]
      /\ Goto(p, Idle)
      /\ UNCHANGED <<parent, as, sz, cr3, want, damaged, halted, calls>>

copy_setup(p) ==
  LET k == setupkvm(free)
  IN  /\ Running(p, "setup")
      /\ \/ /\ CanSetup(free)
            /\ free' = k.free
            /\ Goto(p, [job[p] EXCEPT !.pc = "copy", !.space = k.space])
            /\ UNCHANGED <<content, state, parent, kstack, as, sz, cr3, want,
                           damaged, tabfailed, halted, calls>>
         \/ /\ ~CanSetup(free)
            /\ tabfailed' = TRUE
            /\ ForkFails(p, NoSpace, k.free)

copy_page(p) ==
  LET j   == job[p]
      pte == as[p].pte[j.a]
      q   == kalloc(free)
      m   == mappages(j.space, j.a, q, flags(pte), free \ {q})
  IN  /\ Running(p, "copy")
      /\ j.a * PGSIZE < sz[p]
      /\ \/ pte = NoPte /\ Halt(p, FALSE)    \* panic("copyuvm: page not present")
         \/ pte # NoPte /\ free = {} /\ ForkFails(p, j.space, free) /\ UNCHANGED tabfailed
         \/ /\ pte # NoPte /\ free # {} /\ ~m.ok
            /\ tabfailed' = TRUE
            /\ ForkFails(p, j.space, m.free)
         \/ /\ pte # NoPte /\ free # {} /\ m.ok
            /\ free' = m.free
            /\ content' = [content EXCEPT ![q] = content[pte.pa]]
            /\ Goto(p, [j EXCEPT !.a = @ + 1, !.space = m.space])
            /\ UNCHANGED <<state, parent, kstack, as, sz, cr3, want, damaged,
                           tabfailed, halted, calls>>

forked(p) ==
  LET np == job[p].np
  IN  /\ Running(p, "copy")
      /\ job[p].a * PGSIZE >= sz[p]
      /\ as' = [as EXCEPT ![np] = job[p].space]
      /\ cr3' = [cr3 EXCEPT ![np] = job[p].space.dir]    \* the scheduler's switchuvm
      /\ sz' = [sz EXCEPT ![np] = sz[p]]
      /\ parent' = [parent EXCEPT ![np] = p]
      /\ state' = [state EXCEPT ![np] = "RUNNING"]
      /\ want' = [want EXCEPT ![np] = want[p]]
      /\ Goto(p, Idle)
      /\ UNCHANGED <<free, content, kstack, damaged, tabfailed, halted, calls>>

-----------------------------------------------------------------------------
(* exec: a new address space beside the old one, then the switch. *)

Leave(p) == Goto(p, Idle)

\* exec's label bad: the new address space is freed.
Bad(p) ==
  /\ free' = free \cup freevm(job[p].space)
  /\ content' = Junked(freevm(job[p].space))
  /\ Leave(p)
  /\ UNCHANGED <<state, parent, kstack, as, sz, cr3, want, damaged, tabfailed, halted, calls>>

\* A file without the ELF header changes nothing and is left out.
exec(p, img) ==
  LET k == setupkvm(free)
  IN  /\ Called(p)
      /\ free' = k.free
      /\ tabfailed' = (tabfailed \/ ~CanSetup(free))
      /\ Goto(p, IF CanSetup(free)
                 THEN [Idle EXCEPT !.pc = "segs", !.space = k.space, !.segs = img]
                 ELSE Idle)
      /\ UNCHANGED <<content, state, parent, kstack, as, sz, cr3, want, damaged, halted>>

\* Mutant: a segment may have more in the file than in memory.
Sized_any(g) == TRUE

Sized(g) == g.memsz >= g.filesz

\* The end of a segment: the sum of two uints, which wraps around.
SegmentEnd(g) == (g.vaddr + g.memsz) % (2 * KERNBASE)

\* The next program header, or the two pages of the stack.  A size of 0 is an error.
exec_next(p) ==
  LET j   == job[p]
      new == IF j.segs = <<>> THEN (PGROUNDUP(j.old) + 2) * PGSIZE ELSE SegmentEnd(j.segs[1])
      ok  == (j.segs # <<>> => Sized(j.segs[1])) /\ Fits(new) /\ NewSize(j.old, new) > 0
  IN  /\ Running(p, "segs")
      /\ \/ ~ok /\ Bad(p)
         \/ /\ ok
            /\ Goto(p, Allocate(j, j.old, new, IF j.segs = <<>> THEN "stack" ELSE "load"))
            /\ UNCHANGED <<free, content, state, parent, kstack, as, sz, cr3, want,
                           damaged, tabfailed, halted, calls>>

\* exec takes these segments too: they do not begin with a page, or wrap around.
Malformed(g) == g.vaddr % PGSIZE # 0 \/ g.vaddr + g.memsz >= 2 * KERNBASE

\* The kernel has no page of the process at v; from KERNBASE on it has pages of its own.
Missing(s, v) == v \notin VPages \/ s.pte[v] = NoPte

\* The pages that loaduvm reads the segment into.
LoadPages(g) == {((g.vaddr + i) % (2 * KERNBASE)) \div PGSIZE : i \in 0 .. g.filesz - 1}

\* loaduvm: it panics if the segment does not begin with a page or has no table, without a
\* page it reads into physical page 0, and above KERNBASE into the kernel.  The file may be
\* too short, first of all for the first page.
loaduvm(p) ==
  LET j == job[p]
      g == j.segs[1]
      V == LoadPages(g)
      whole == g.vaddr % PGSIZE = 0
      fine == whole /\ \A v \in V : ~Missing(j.space, v)
      first == g.vaddr \div PGSIZE
  IN  /\ Running(p, "alloc")
      /\ j.next = "load"
      /\ j.a * PGSIZE >= j.new
      /\ \/ ~fine /\ Halt(p, Malformed(g))
         \/ /\ whole /\ g.filesz > 0 /\ (first \in VPages => j.space.pte[first] # NoPte)
            /\ Bad(p)
         \/ /\ fine
            /\ content' = [q \in Pages |-> IF q \in UserPages(j.space, V)
                                           THEN "text" ELSE content[q]]
            /\ Goto(p, [j EXCEPT !.pc = "segs", !.segs = Tail(@), !.old = j.new])
            /\ UNCHANGED <<free, state, parent, kstack, as, sz, cr3, want, damaged,
                           tabfailed, halted, calls>>

\* clearpteu makes the page under the stack inaccessible.
Guarded(s, v) == [s EXCEPT !.pte[v].u = FALSE]

clearpteu(p) ==
  LET j == job[p]
      g == PGROUNDUP(j.new) - 2
  IN  /\ Running(p, "alloc")
      /\ j.next = "stack"
      /\ j.a * PGSIZE >= j.new
      /\ IF ~HasTable(j.space, g)
         THEN Halt(p, FALSE)    \* panic("clearpteu")
         ELSE /\ Goto(p, [j EXCEPT !.pc = "args", !.space = Guarded(@, g)])
              /\ UNCHANGED <<free, content, state, parent, kstack, as, sz, cr3, want,
                             damaged, tabfailed, halted, calls>>

\* What the program and the arguments leave in a new address space, where it has pages.
ImageOf(s, new) ==
  [v \in VPages |-> IF v \notin PagesOf(new) \/ s.pte[v] = NoPte THEN NoVal
                    ELSE [u   |-> v # PGROUNDUP(new) - 2,
                          val |-> IF v = PGROUNDUP(new) - 1 THEN "args"
                                  ELSE content[s.pte[v].pa]]]

\* copyout of n bytes below the top of the stack.  Where there is no table
\* uva2ka reads through a null pointer.
exec_args(p, n) ==
  LET j   == job[p]
      V   == {(j.new - i) \div PGSIZE : i \in 1 .. n}
      bad == {v \in V : NoUserPage(j.space, v)}
      null == Min(bad) \in VPages /\ ~HasTable(j.space, Min(bad))
      top == j.space.pte[PGROUNDUP(j.new) - 1].pa
  IN  /\ Running(p, "args")
      /\ \/ bad # {} /\ null /\ Halt(p, FALSE)
         \/ bad # {} /\ ~null /\ Bad(p)
         \/ /\ bad = {}
            /\ content' = [content EXCEPT ![top] = "args"]
            /\ as' = [as EXCEPT ![p] = j.space]
            /\ sz' = [sz EXCEPT ![p] = j.new]
            /\ switchuvm(p, j.space)
            /\ damaged' = IF j.hole THEN damaged \cup {p} ELSE damaged \ {p}
            /\ want' = [want EXCEPT ![p] = ImageOf(j.space, j.new)]
            /\ Goto(p, [Idle EXCEPT !.pc = "freevm", !.space = as[p]])
            /\ UNCHANGED <<free, state, parent, kstack, tabfailed, halted, calls>>

exec_freevm(p) ==
  /\ Running(p, "freevm")
  /\ Bad(p)

-----------------------------------------------------------------------------
exit(p) ==
  /\ Called(p)
  /\ p # initproc
  /\ state' = [state EXCEPT ![p] = "ZOMBIE"]
  /\ cr3' = [cr3 EXCEPT ![p] = NoPage]
  /\ parent' = [q \in Procs |-> IF parent[q] = p THEN initproc ELSE parent[q]]
  /\ UNCHANGED <<free, content, kstack, as, sz, job, want, damaged, tabfailed, halted>>

\* wait frees what the zombie still has.  The slot keeps its old pgdir, which
\* nobody uses until fork replaces it: the model drops it.
wait(p, q) ==
  LET freed == {kstack[q]} \cup freevm(as[q])
  IN  /\ Running(p, "user")
      /\ parent[q] = p
      /\ state[q] = "ZOMBIE"
      /\ free' = free \cup freed
      /\ content' = Junked(freed)
      /\ kstack' = [kstack EXCEPT ![q] = NoPage]
      /\ as' = [as EXCEPT ![q] = NoSpace]
      /\ state' = [state EXCEPT ![q] = "UNUSED"]
      /\ parent' = [parent EXCEPT ![q] = "none"]
      /\ want' = [want EXCEPT ![q] = [v \in VPages |-> NoVal]]
      /\ damaged' = damaged \ {q}
      /\ UNCHANGED <<sz, cr3, job, tabfailed, halted, calls>>

\* Pages V of process p get new contents that it has asked for, and those of Z the pointer
\* that it has not.  A page above sz that a damaged process still has mapped was not promised.
Written(p, V, Z) ==
  /\ content' = [q \in Pages |-> IF q \in UserPages(as[p], Z) THEN "pointer"
                                 ELSE IF q \in UserPages(as[p], V) THEN p ELSE content[q]]
  /\ want' = [want EXCEPT ![p] = [v \in VPages |->
                IF v \in V /\ @[v] # NoVal THEN [val |-> p, u |-> @[v].u] ELSE @[v]]]
  /\ UNCHANGED <<free, state, parent, kstack, as, sz, cr3, job, damaged, tabfailed,
                 halted, calls>>

\* The user program writes to a page that its page table lets it write.
store(p, v) ==
  /\ Running(p, "user")
  /\ as[p].pte[v].u
  /\ Written(p, {v}, {})

\* Mutant: only the start of the buffer is tested.
Accepted_start(p, addr, n) == addr < sz[p]

\* argptr lets a block of n bytes through: the sum is a uint, and n may be negative.  argint
\* and argstr have blocks of 4 bytes and up to sz.
Accepted(p, addr, n) == addr < sz[p] /\ (addr + n) % (2 * KERNBASE) <= sz[p]

\* The pages of m bytes at addr.
Touched(addr, m) == {(addr + i) \div PGSIZE : i \in 0 .. m - 1}

\* readi cuts the size, as a uint, down to the length of the file.
ReadBytes(n, len) == IF n < 0 THEN len ELSE Min({n, len})

\* sys_read at the start of a file; the kernel does not look at the page table before it
\* writes.  Calls that only read their argument fault alike.
sys_read(p, addr, n, len) ==
  LET V == Touched(addr, ReadBytes(n, len))
  IN  /\ Running(p, "user")
      /\ Accepted(p, addr, n)
      /\ IF \E v \in V : Missing(as[p], v) THEN Halt(p, n < 0) ELSE Written(p, V, {})

\* sys_getprocs: argptr is given a null pointer and stores the address of the table at
\* address 0; it has tested one pointer's bytes, and getproc writes the whole table.
sys_getprocs(p, addr, len) ==
  LET V == Touched(addr, len)
  IN  /\ Running(p, "user")
      /\ Accepted(p, addr, PTRSIZE)
      /\ IF \E v \in V \cup {0} : Missing(as[p], v) THEN Halt(p, addr + len > sz[p])
         ELSE Written(p, V, {0})

-----------------------------------------------------------------------------
Next ==
  \E p \in Procs :
    \/ \E n \in Deltas : sbrk(p, n)
    \/ alloc_page(p) \/ alloc_fail(p) \/ grown(p)
    \/ \E np \in Procs : fork(p, np)
    \/ copy_setup(p) \/ copy_page(p) \/ forked(p)
    \/ \E img \in Images : exec(p, img)
    \/ exec_next(p) \/ loaduvm(p) \/ clearpteu(p)
    \/ \E n \in ArgSizes : exec_args(p, n)
    \/ exec_freevm(p) \/ exit(p)
    \/ \E q \in Procs : wait(p, q)
    \/ \E v \in VPages : store(p, v)
    \/ \E addr \in 0 .. KERNBASE - 1, n \in ReadSizes, len \in Lengths : sys_read(p, addr, n, len)
    \/ \E addr \in 0 .. KERNBASE - 1, len \in Lengths : sys_getprocs(p, addr, len)

Spec == Init /\ [][Next]_vars

-----------------------------------------------------------------------------
(* Properties. *)

\* The address spaces in use: of the processes, and half built or half
\* freed in fork and exec.
Spaces == {as[p] : p \in Procs} \cup {job[p].space : p \in Procs}

PagesIn(s) == UserPages(s, VPages) \cup TablesOf(s) \cup s.ktab \cup ({s.dir} \ {NoPage})

SizeOf(s) == Cardinality({v \in VPages : s.pte[v] # NoPte})
             + Cardinality({t \in Tables : s.utab[t] # NoPage})
             + Cardinality(s.ktab) + 1

Stacks == {kstack[p] : p \in Procs} \ {NoPage}

Owned == Stacks \cup UNION {PagesIn(s) : s \in Spaces}

Values == {"zero", "junk", "text", "args", "pointer"} \cup Procs

\* The free list holds pages; slots have the states of the process table;
\* sizes stay below KERNBASE.
TypeOK ==
  /\ free \subseteq Pages
  /\ content \in [Pages -> Values]
  /\ state \in [Procs -> {"UNUSED", "EMBRYO", "RUNNING", "ZOMBIE"}]
  /\ sz \in [Procs -> 0 .. KERNBASE - 1]
  /\ kstack \in [Procs -> Pages \cup {NoPage}]
  /\ cr3 \in [Procs -> Pages \cup {NoPage}]
  /\ \A s \in Spaces : PagesIn(s) \subseteq Pages

\* No page is in use twice or in use and free: a kernel stack, a directory,
\* a page table and a user page of any process are different pages, through
\* every failure of kalloc on the way.
OneOwner ==
  /\ free \cap Owned = {}
  /\ \A p, q \in Procs : p # q /\ kstack[p] # NoPage => kstack[p] # kstack[q]
  /\ Stacks \cap UNION {PagesIn(s) : s \in Spaces} = {}
  /\ \A s \in Spaces \ {NoSpace} : Cardinality(PagesIn(s)) = SizeOf(s)
  /\ \A s, t \in Spaces : s # t => PagesIn(s) \cap PagesIn(t) = {}

\* No page gets lost: every page is free or in use, unless some kalloc of a
\* page table has failed, where setupkvm, allocuvm and copyuvm drop pages.
NoPageLost == tabfailed \/ free \cup Owned = Pages

\* The contents x and the permission u of page v are what process was promised, w; but
\* address 0 may have been written over by sys_getprocs.
Shows(w, v, x, u) ==
  \/ w = [val |-> x, u |-> u]
  \/ v = 0 /\ x = "pointer" /\ w.u = u /\ w # NoVal

\* A process at its user level has the memory it was promised, and no more:
\* every page below sz is mapped to the contents it last had, a new page is
\* zero, nobody else has written it, the page under the stack is closed to
\* the user, and nothing is mapped above sz.
MemoryIsFlat ==
  \A p \in Procs : state[p] = "RUNNING" /\ job[p].pc = "user" /\ p \notin damaged =>
    \A v \in VPages :
      LET pte == as[p].pte[v]
      IN  IF pte = NoPte THEN want[p][v] = NoVal
          ELSE Shows(want[p][v], v, content[pte.pa], pte.u)

\* sz tells which pages a process has, so that the kernel may use every
\* pointer that lies below it.
SizeIsMapped ==
  \A p \in Procs : state[p] = "RUNNING" /\ job[p].pc = "user" /\ p \notin damaged =>
    \A v \in VPages : v \in PagesOf(sz[p]) <=> as[p].pte[v] # NoPte

\* The kernel has gone outside of the memory of a process.
Astray == \E h \in halted : h.stray

\* The kernel panics, or follows a null page table entry, only for a process
\* whose allocuvm went on after mappages had failed, or whose growproc has
\* freed all its memory and reported a failure; or for a program with a malformed
\* segment, a negative size of a block, or a table that argptr has not measured.
HaltOnlyIfDamaged ==
  \A h \in halted :
    h.stray \/ h.proc \in damaged \/ (job[h.proc].pc \in {"alloc", "args"} /\ job[h.proc].hole)

\* The page directory a processor has loaded is never on the free list:
\* exec loads the new one before it frees the old one.
LoadedDirectory ==
  Astray \/ \A p \in Procs : state[p] = "RUNNING" =>
              /\ cr3[p] \notin free
              /\ cr3[p] = as[p].dir

\* Every page is free or has one owner, until the kernel goes astray: none is shared, freed
\* twice or lost.
PagesAccounted == Astray \/ (TypeOK /\ OneOwner /\ NoPageLost)

\* A process finds in its memory, up to its size, what it and exec have put there, until the
\* kernel goes astray.
SpaceIsFlat == Astray \/ (SizeIsMapped /\ MemoryIsFlat)
=============================================================================
