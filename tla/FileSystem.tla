----------------------------- MODULE FileSystem -----------------------------
(***************************************************************************)
(* Inodes, directories and open files: the inode cache and path lookup of  *)
(* fs.c, the system calls of sysfile.c, and ftable of file.c.              *)
(*                                                                         *)
(* Steps are cut where another process can see the difference: at every    *)
(* ilock, at every iput and at end_op.  A lock that is taken and released  *)
(* between two cuts does not show; locks kept over a cut (unlink, create,  *)
(* iput) are I_BUSY of the entry.  The contents of files and the blocks    *)
(* they occupy are in module FileContent.  Calls between begin_op and      *)
(* end_op form one transaction, which is durable when the last of them     *)
(* ends (module Log).                                                      *)
(***************************************************************************)
EXTENDS Integers, Sequences, FiniteSets, FiniteSetsExt

CONSTANTS
  Proc, initproc, NoProc,
  Name,      \* names of directory entries, "." and ".." among them
  Calls,     \* the calls with a path that are made
  Trees,     \* the file systems that the machine starts with
  NINODES,   \* inodes on the disk; ROOTINO is 1
  NINODE,    \* entries of the inode cache
  NFILE,     \* entries of ftable
  NOFILE,    \* descriptors of a process
  MAXCALLS   \* the number of calls (a bound)

Path == [abs : BOOLEAN, names : Seq(Name)]
InodeType == {"free", "file", "dir", "dev"}

ASSUME FileSystemAssumption ==
  /\ IsFiniteSet(Proc) /\ initproc \in Proc /\ NoProc \notin Proc /\ {".", ".."} \subseteq Name
  /\ {NINODES, NINODE, NFILE, NOFILE} \subseteq Nat \ {0} /\ MAXCALLS \in Nat

\* The calls have paths, link has two; every inode of the first file system has a name.
ASSUME InputsAssumption ==
  /\ \A c \in Calls :
       /\ c.op \in {"open", "creat", "mkdir", "mknod", "link", "unlink", "chdir"}
       /\ c.path \in Path /\ c.new \in Seq(Path) /\ Len(c.new) = IF c.op = "link" THEN 1 ELSE 0
  /\ \A d \in Trees :
       /\ d \in [1 .. NINODES -> [type : InodeType, nlink : Nat, ents : [Name -> 0 .. NINODES]]]
       /\ \A i \in 1 .. NINODES : d[i].type # "free" => d[i].nlink > 0

VARIABLES
  disk,       \* the inodes on the disk as bread returns them
  committed,  \* disk and lost as they survive a crash
  icache,     \* the inode cache, one entry per inode number
  ftable,     \* open files: reference count and inode
  ofile,      \* descriptors of each process; 0 is a closed one
  cwd,        \* current directory of each process
  th,         \* the system call that each process is in
  lost,       \* inodes linked into a directory without a name (history)
  leaked,     \* inodes that were open without a name at a crash (history)
  orphaned,   \* a directory was freed that ".." of a removed one leads to (history)
  panicked,   \* message of the first panic, or "none"
  calls

files == <<ftable, ofile, cwd>>
marks == <<lost, leaked, orphaned>>
history == <<marks, calls>>
vars == <<disk, committed, icache, files, th, history, panicked>>

Inum == 1 .. NINODES
ROOTINO == 1
NoEntries == [n \in Name |-> 0]
FreeInode == [type |-> "free", nlink |-> 0, ents |-> NoEntries]
Empty == [ref |-> 0, busy |-> NoProc, valid |-> FALSE, type |-> "free", nlink |-> 0]
Idle == [pc |-> "user", op |-> "none", rest |-> <<>>, new |-> <<>>, cur |-> 0, ip |-> 0,
         dp |-> 0, name |-> ".", puts |-> <<>>, freeing |-> 0]
Parental == {"creat", "mkdir", "mknod", "unlink", "link2"}

\* A tree that mkfs or earlier calls have left; all processes are in one of its directories.
Init ==
  /\ disk \in Trees
  /\ committed = [disk |-> disk, lost |-> {}]
  /\ \E home \in {i \in Inum : disk[i].type = "dir"} :
       /\ icache = [i \in Inum |-> IF i = home THEN [Empty EXCEPT !.ref = Cardinality(Proc)] ELSE Empty]
       /\ cwd = [p \in Proc |-> home]
  /\ ftable = [f \in 1 .. NFILE |-> [ref |-> 0, ip |-> 0]]
  /\ ofile = [p \in Proc |-> [fd \in 1 .. NOFILE |-> 0]]
  /\ th = [p \in Proc |-> Idle]
  /\ lost = {} /\ leaked = {} /\ orphaned = FALSE /\ panicked = "none" /\ calls = 0

-----------------------------------------------------------------------------
(***************************************************************************)
(* The inode cache.                                                        *)
(***************************************************************************)

\* iget and idup, on inode cache ic.
Gained(c) == IF c.ref = 0 THEN [Empty EXCEPT !.ref = 1] ELSE [c EXCEPT !.ref = @ + 1]
Iget(ic, i) == [ic EXCEPT ![i] = Gained(@)]

\* ilock waits while the entry is busy.
Lockable(i) == icache[i].busy = NoProc

\* The cache after ilock by p: the entry is read from the disk unless it is valid.
Ilock(i, p) ==
  [icache EXCEPT ![i] =
     IF @.valid THEN [@ EXCEPT !.busy = p]
     ELSE [ref |-> @.ref, busy |-> p, valid |-> TRUE, type |-> disk[i].type, nlink |-> disk[i].nlink]]

\* ilock and iunlock around what one step does with the inode.
Visit(i) == Ilock(i, NoProc)

\* The panics of an ilock of i and of an iget in the same step.  After a panic
\* nothing moves, so that the rest of the step does not matter.
Checked(i) ==
  panicked' = IF ~icache[i].valid /\ disk[i].type = "free" THEN "ilock: no type"
              ELSE IF Cardinality({j \in Inum : icache'[j].ref > 0}) > NINODE THEN "iget: no inodes"
              ELSE "none"

\* The same for an inode that dirlookup expects to be a directory.
LookedUp(d) ==
  IF Visit(d)[d].type \in {"file", "dev"} THEN panicked' = "dirlookup not DIR" ELSE Checked(d)

\* Mutants: other references are not counted; the count is tested as if it had
\* been decremented.
LastRef_any(c) == c.valid /\ c.nlink = 0
LastRef_zero(c) == c.ref = 0 /\ c.valid /\ c.nlink = 0

\* iput frees the inode: no links and no other references.
LastRef(c) == c.ref = 1 /\ c.valid /\ c.nlink = 0

Dropped(c) == IF c.ref = 1 THEN Empty ELSE [c EXCEPT !.ref = @ - 1]
Drop(i) == [icache EXCEPT ![i] = Dropped(@)]

\* iput of the first inode that process p has to put: drop the reference, or mark
\* the inode busy in order to free it (icache.lock is released meanwhile).
iput(p) ==
  LET i == Head(th[p].puts) IN
  /\ th[p].puts # <<>> /\ th[p].freeing = 0
  /\ \/ /\ ~LastRef(icache[i])
        /\ icache' = Drop(i)
        /\ th' = [th EXCEPT ![p].puts = Tail(@)]
        /\ UNCHANGED panicked
     \/ /\ LastRef(icache[i])
        /\ icache' = [icache EXCEPT ![i].busy = p]
        /\ th' = [th EXCEPT ![p].freeing = 1]
        /\ panicked' = IF Lockable(i) THEN "none" ELSE "iput busy"
  /\ UNCHANGED <<disk, committed, files, history>>

\* The directories without a name whose ".." leads to i: nlink does not count them.
Orphans(i) == {d \in Inum \ {i} : disk[d].type = "dir" /\ disk[d].ents[".."] = i}

\* iput: itrunc, type = 0 and iupdate; from here on ialloc may take the inode.
iput_free(p) ==
  LET i == Head(th[p].puts) IN
  /\ th[p].freeing = 1
  /\ disk' = [disk EXCEPT ![i] = FreeInode]
  /\ icache' = [icache EXCEPT ![i].type = "free"]
  /\ th' = [th EXCEPT ![p].freeing = 2]
  /\ orphaned' = (orphaned \/ Orphans(i) # {})
  /\ lost' = lost \ {i}
  /\ UNCHANGED <<committed, files, leaked, calls, panicked>>

\* iput sets flags to 0 and drops the reference; somebody may wait for the entry.
Cleared(c) == [Empty EXCEPT !.ref = c.ref - 1]

iput_done(p) ==
  /\ th[p].freeing = 2
  /\ icache' = [icache EXCEPT ![Head(th[p].puts)] = Cleared(@)]
  /\ th' = [th EXCEPT ![p].freeing = 0, ![p].puts = Tail(@)]
  /\ UNCHANGED <<disk, committed, files, history, panicked>>

-----------------------------------------------------------------------------
(***************************************************************************)
(* Calls and path lookup.                                                  *)
(***************************************************************************)

At(p, l) == th[p].pc = l /\ th[p].puts = <<>>
Goto(p, t) == th' = [th EXCEPT ![p] = t]

\* The call puts the inodes of s and ends.
Finish(p, s) == Goto(p, [Idle EXCEPT !.pc = "end", !.op = th[p].op, !.puts = s])

\* Start of namex: the root or the current directory.
Start(p, path) == IF path.abs THEN ROOTINO ELSE cwd[p]

\* Bound on the calls.
Count == calls < MAXCALLS /\ calls' = calls + 1

\* A call with a path (link has a second one) up to the loop of namex.
begin_op(p, c) ==
  /\ At(p, "user") /\ Count
  /\ icache' = Iget(icache, Start(p, c.path))
  /\ Goto(p, [Idle EXCEPT !.pc = "walk", !.op = c.op, !.rest = c.path.names, !.new = c.new,
                          !.cur = Start(p, c.path)])
  /\ UNCHANGED <<disk, committed, files, marks, panicked>>

\* dirlookup: the inode number that directory d has for a name, or 0.
dirlookup(d, name) == disk[d].ents[name]

\* What dirlink leaves in a directory that did not have the name.
dirlink(ents, name, i) == [ents EXCEPT ![name] = i]

\* Mutant: namex keeps the directory in which it finds nothing.
MissPuts_none(i) == <<>>

\* What namex puts when it finds nothing.
MissPuts(i) == <<i>>

\* namex finds nothing: the call fails, or sys_link takes back its link count.
Missed(p, s) ==
  IF th[p].op = "link2" THEN Goto(p, [th[p] EXCEPT !.pc = "link_bad", !.cur = 0, !.dp = 0, !.puts = s])
  ELSE Finish(p, s)

\* One turn of the loop of namex.
namex(p) ==
  LET t == th[p]
      i == t.cur
      type == Visit(i)[i].type
      next == dirlookup(i, Head(t.rest))
      stop == t.op \in Parental /\ Len(t.rest) = 1
  IN
  /\ At(p, "walk") /\ t.rest # <<>> /\ Lockable(i)
  /\ \/ /\ type # "dir" \/ (~stop /\ next = 0)
        /\ icache' = Visit(i)
        /\ Missed(p, MissPuts(i))
     \/ /\ type = "dir" /\ stop
        /\ icache' = Visit(i)
        /\ Goto(p, [t EXCEPT !.pc = t.op, !.dp = i, !.cur = 0, !.name = t.rest[1], !.rest = <<>>])
     \/ /\ type = "dir" /\ ~stop /\ next # 0
        /\ icache' = Iget(Visit(i), next)
        /\ Goto(p, [t EXCEPT !.cur = next, !.rest = Tail(@), !.puts = <<i>>])
  /\ Checked(i)
  /\ UNCHANGED <<disk, committed, files, history>>

\* The end of namex: the inode, or nothing if the parent of "/" was asked for.
namex_end(p) ==
  LET t == th[p] IN
  /\ At(p, "walk") /\ t.rest = <<>>
  /\ \/ t.op \in Parental /\ Missed(p, <<t.cur>>)
     \/ t.op \notin Parental /\ Goto(p, [t EXCEPT !.pc = t.op, !.ip = t.cur, !.cur = 0])
  /\ UNCHANGED <<disk, committed, icache, files, history, panicked>>

\* end_op: the last call of the transaction makes it durable.
end_op(p) ==
  /\ At(p, "end")
  /\ committed' = IF \E q \in Proc \ {p} : th[q].pc \notin {"user", "dead"} THEN committed
                  ELSE [disk |-> disk, lost |-> lost]
  /\ Goto(p, [Idle EXCEPT !.pc = IF th[p].op = "exit" THEN "dead" ELSE "user"])
  /\ UNCHANGED <<disk, icache, files, history, panicked>>

-----------------------------------------------------------------------------
(***************************************************************************)
(* open and create.                                                        *)
(***************************************************************************)

FreeFile == {f \in 1 .. NFILE : ftable[f].ref = 0}
FreeFd(p) == {fd \in 1 .. NOFILE : ofile[p][fd] = 0}

\* sys_open has its inode: filealloc and fdalloc, or give up.
OpenFile(p, i) ==
  IF FreeFile # {} /\ FreeFd(p) # {}
  THEN /\ ftable' = [ftable EXCEPT ![Min(FreeFile)] = [ref |-> 1, ip |-> i]]
       /\ ofile' = [ofile EXCEPT ![p][Min(FreeFd(p))] = Min(FreeFile)]
       /\ Finish(p, <<>>)
       /\ UNCHANGED cwd
  ELSE Finish(p, <<i>>) /\ UNCHANGED files

\* sys_open without O_CREATE (a directory only if it is just read).
open(p, rdonly) ==
  LET i == th[p].ip IN
  /\ At(p, "open") /\ Lockable(i)
  /\ icache' = Visit(i)
  /\ \/ Visit(i)[i].type = "dir" /\ ~rdonly /\ Finish(p, <<i>>) /\ UNCHANGED files
     \/ ~(Visit(i)[i].type = "dir" /\ ~rdonly) /\ OpenFile(p, i)
  /\ Checked(i)
  /\ UNCHANGED <<disk, committed, history>>

TypeOf(op) == IF op = "mkdir" THEN "dir" ELSE IF op = "mknod" THEN "dev" ELSE "file"
FreeInums == {i \in Inum : disk[i].type = "free"}

\* create finds the name in dp and lets dp go.
create_found(p) ==
  LET t == th[p]
      old == dirlookup(t.dp, t.name)
  IN
  /\ At(p, t.op) /\ t.op \in {"creat", "mkdir", "mknod"} /\ Lockable(t.dp)
  /\ old # 0
  /\ icache' = Iget(Visit(t.dp), old)
  /\ Goto(p, [t EXCEPT !.pc = "create_old", !.ip = old, !.dp = 0, !.puts = <<t.dp>>])
  /\ LookedUp(t.dp)
  /\ UNCHANGED <<disk, committed, files, history>>

\* create locks the inode that exists and gives it to open if it is a file.
create_old(p) ==
  LET t == th[p] IN
  /\ At(p, "create_old") /\ Lockable(t.ip)
  /\ icache' = Visit(t.ip)
  /\ \/ t.op = "creat" /\ Visit(t.ip)[t.ip].type = "file" /\ OpenFile(p, t.ip)
     \/ ~(t.op = "creat" /\ Visit(t.ip)[t.ip].type = "file") /\ Finish(p, <<t.ip>>) /\ UNCHANGED files
  /\ Checked(t.ip)
  /\ UNCHANGED <<disk, committed, history>>

\* create does not find the name: ialloc takes the first free inode; dp stays locked.
create_ialloc(p) ==
  LET t == th[p]
      new == Min(FreeInums)
  IN
  /\ At(p, t.op) /\ t.op \in {"creat", "mkdir", "mknod"} /\ Lockable(t.dp)
  /\ dirlookup(t.dp, t.name) = 0
  /\ \/ /\ FreeInums # {}
        /\ disk' = [disk EXCEPT ![new] = [FreeInode EXCEPT !.type = TypeOf(t.op)]]
        /\ icache' = Iget(Ilock(t.dp, p), new)
        /\ Goto(p, [t EXCEPT !.pc = "create_new", !.ip = new])
        /\ LookedUp(t.dp)
     \/ /\ FreeInums = {}
        /\ panicked' = "ialloc: no inodes"
        /\ UNCHANGED <<disk, icache, th>>
  /\ UNCHANGED <<committed, files, history>>

\* Mutant: a new directory is not counted in its parent.
DotDotLinks_none(op) == 0

\* The link that ".." of a new directory makes.
DotDotLinks(op) == IF op = "mkdir" THEN 1 ELSE 0

\* create locks the new inode, fills it in and links it into dp.
create_new(p) ==
  LET t == th[p]
      i == t.ip
      d == t.dp
      dlinks == icache[d].nlink + DotDotLinks(t.op)
  IN
  /\ At(p, "create_new") /\ Lockable(i)
  /\ disk' = [disk EXCEPT
       ![i] = [type |-> Visit(i)[i].type, nlink |-> 1,
               ents |-> IF t.op = "mkdir" THEN dirlink(dirlink(@.ents, ".", i), "..", d) ELSE @.ents],
       ![d].nlink = dlinks,
       ![d].ents = dirlink(@, t.name, i)]
  /\ icache' = [Ilock(i, p) EXCEPT ![i].nlink = 1, ![d].nlink = dlinks, ![d].busy = NoProc]
  /\ Goto(p, [t EXCEPT !.pc = "created", !.dp = 0, !.puts = <<d>>])
  /\ lost' = IF icache[d].nlink = 0 \/ d \in lost THEN lost \cup {i, d} ELSE lost \ {i}
  /\ IF t.op = "mkdir" /\ {disk[i].ents["."], disk[i].ents[".."]} # {0}
     THEN panicked' = "create dots" ELSE Checked(i)
  /\ UNCHANGED <<committed, files, leaked, orphaned, calls>>

\* The caller of create gets the new inode, locked.
created(p) ==
  LET t == th[p] IN
  /\ At(p, "created")
  /\ icache' = [icache EXCEPT ![t.ip].busy = NoProc]
  /\ \/ t.op = "creat" /\ OpenFile(p, t.ip)
     \/ t.op # "creat" /\ Finish(p, <<t.ip>>) /\ UNCHANGED files
  /\ UNCHANGED <<disk, committed, history, panicked>>

-----------------------------------------------------------------------------
(***************************************************************************)
(* link, unlink and chdir.                                                 *)
(***************************************************************************)

SetLinks(i, n) ==
  /\ disk' = [disk EXCEPT ![i].nlink = n]
  /\ icache' = [Visit(i) EXCEPT ![i].nlink = n]

\* sys_link: count the link first, then look for the directory.
link(p) ==
  LET t == th[p]
      c == Visit(t.ip)[t.ip]
  IN
  /\ At(p, "link") /\ Lockable(t.ip)
  /\ \/ /\ c.type = "dir"
        /\ icache' = Visit(t.ip)
        /\ Finish(p, <<t.ip>>)
        /\ Checked(t.ip)
        /\ UNCHANGED disk
     \/ /\ c.type # "dir"
        /\ disk' = [disk EXCEPT ![t.ip].nlink = c.nlink + 1]
        /\ icache' = Iget([Visit(t.ip) EXCEPT ![t.ip].nlink = c.nlink + 1], Start(p, t.new[1]))
        /\ Goto(p, [t EXCEPT !.pc = "walk", !.op = "link2", !.rest = t.new[1].names, !.new = <<>>,
                             !.cur = Start(p, t.new[1])])
        /\ Checked(t.ip)
  /\ UNCHANGED <<committed, files, history>>

\* sys_link: dirlink in the directory.
link_dir(p) ==
  LET t == th[p]
      d == t.dp
  IN
  /\ At(p, "link2") /\ Lockable(d)
  /\ icache' = Visit(d)
  /\ \/ /\ dirlookup(d, t.name) # 0
        /\ Missed(p, <<d>>)
        /\ UNCHANGED <<disk, lost>>
     \/ /\ dirlookup(d, t.name) = 0
        /\ disk' = [disk EXCEPT ![d].ents = dirlink(@, t.name, t.ip)]
        /\ lost' = IF Visit(d)[d].nlink = 0 \/ d \in lost THEN lost \cup {t.ip, d} ELSE lost
        /\ Finish(p, <<d, t.ip>>)
  /\ LookedUp(d)
  /\ UNCHANGED <<committed, files, leaked, orphaned, calls>>

\* sys_link, bad: take the count back.
link_bad(p) ==
  LET i == th[p].ip IN
  /\ At(p, "link_bad") /\ Lockable(i)
  /\ SetLinks(i, Visit(i)[i].nlink - 1)
  /\ Finish(p, <<i>>)
  /\ Checked(i)
  /\ UNCHANGED <<committed, files, history>>

\* Mutant: "." and ".." may be unlinked.
Unlinkable_dots(name) == TRUE

Unlinkable(name) == name \notin {".", ".."}

\* sys_unlink looks the name up and keeps dp locked.
unlink(p) ==
  LET t == th[p]
      i == dirlookup(t.dp, t.name)
  IN
  /\ At(p, "unlink") /\ Lockable(t.dp)
  /\ \/ /\ ~Unlinkable(t.name) \/ i = 0
        /\ icache' = Visit(t.dp)
        /\ Finish(p, <<t.dp>>)
     \/ /\ Unlinkable(t.name) /\ i # 0
        /\ icache' = Iget(Ilock(t.dp, p), i)
        /\ Goto(p, [t EXCEPT !.pc = "unlink_ip", !.ip = i])
  /\ IF Unlinkable(t.name) THEN LookedUp(t.dp) ELSE Checked(t.dp)
  /\ UNCHANGED <<disk, committed, files, history>>

isdirempty(i) == \A n \in Name \ {".", ".."} : disk[i].ents[n] = 0

\* sys_unlink locks the inode; it erases the entry and lets dp go, or gives up.
unlink_ip(p) ==
  LET t == th[p]
      i == t.ip
      d == t.dp
      c == Visit(i)[i]
      full == c.type = "dir" /\ ~isdirempty(i)
      dlinks == IF c.type = "dir" THEN icache[d].nlink - 1 ELSE icache[d].nlink
  IN
  /\ At(p, "unlink_ip") /\ Lockable(i)
  /\ \/ /\ full
        /\ icache' = [Visit(i) EXCEPT ![d].busy = NoProc]
        /\ Finish(p, <<i, d>>)
        /\ UNCHANGED disk
     \/ /\ ~full
        /\ disk' = [disk EXCEPT ![d].ents[t.name] = 0, ![d].nlink = dlinks]
        /\ icache' = [Ilock(i, p) EXCEPT ![d].busy = NoProc, ![d].nlink = dlinks]
        /\ Goto(p, [t EXCEPT !.pc = "unlink_count", !.dp = 0, !.puts = <<d>>])
  /\ panicked' = IF c.type = "free" THEN "ilock: no type"
                 ELSE IF c.nlink < 1 THEN "unlink: nlink < 1" ELSE "none"
  /\ UNCHANGED <<committed, files, history>>

\* sys_unlink: the inode has one link less.
unlink_count(p) ==
  LET i == th[p].ip
      n == icache[i].nlink - 1
  IN
  /\ At(p, "unlink_count")
  /\ disk' = [disk EXCEPT ![i].nlink = n]
  /\ icache' = [icache EXCEPT ![i].nlink = n, ![i].busy = NoProc]
  /\ Finish(p, <<i>>)
  /\ UNCHANGED <<committed, files, history, panicked>>

\* sys_chdir (proc->cwd is assigned after end_op; nobody else reads it).
chdir(p) ==
  LET i == th[p].ip IN
  /\ At(p, "chdir") /\ Lockable(i)
  /\ icache' = Visit(i)
  /\ \/ Visit(i)[i].type # "dir" /\ Finish(p, <<i>>) /\ UNCHANGED cwd
     \/ /\ Visit(i)[i].type = "dir"
        /\ cwd' = [cwd EXCEPT ![p] = i]
        /\ Finish(p, <<cwd[p]>>)
  /\ Checked(i)
  /\ UNCHANGED <<disk, committed, ftable, ofile, history>>

-----------------------------------------------------------------------------
(***************************************************************************)
(* Descriptors and processes.                                              *)
(***************************************************************************)

\* argfd accepts the descriptors that are open.
argfd(p, fd) == ofile[p][fd] # 0

\* sys_fstat and filestat: ilock may have to read the inode from the disk.
fstat(p, fd) ==
  LET i == ftable[ofile[p][fd]].ip IN
  /\ Count /\ At(p, "user") /\ argfd(p, fd) /\ Lockable(i)
  /\ icache' = Visit(i)
  /\ Checked(i)
  /\ UNCHANGED <<disk, committed, files, th, marks>>

\* sys_dup: fdalloc, then filedup.
dup(p, fd) ==
  /\ Count /\ At(p, "user") /\ argfd(p, fd) /\ FreeFd(p) # {}
  /\ ofile' = [ofile EXCEPT ![p][Min(FreeFd(p))] = ofile[p][fd]]
  /\ ftable' = [ftable EXCEPT ![ofile[p][fd]].ref = @ + 1]
  /\ UNCHANGED <<disk, committed, icache, cwd, th, marks, panicked>>

\* sys_close and fileclose: the last reference puts the inode, in a transaction.
close(p, fd) ==
  LET f == ofile[p][fd] IN
  /\ Count /\ At(p, "user") /\ argfd(p, fd)
  /\ ofile' = [ofile EXCEPT ![p][fd] = 0]
  /\ \/ /\ ftable[f].ref > 1
        /\ ftable' = [ftable EXCEPT ![f].ref = @ - 1]
        /\ UNCHANGED th
     \/ /\ ftable[f].ref = 1
        /\ ftable' = [ftable EXCEPT ![f] = [ref |-> 0, ip |-> 0]]
        /\ Goto(p, [Idle EXCEPT !.pc = "end", !.puts = <<ftable[f].ip>>])
  /\ UNCHANGED <<disk, committed, icache, cwd, marks, panicked>>

\* The references that the descriptors of p make to file f, for fork's filedup.
Inherited(p, f) == Cardinality({fd \in 1 .. NOFILE : ofile[p][fd] = f})

\* fork: filedup of every descriptor and idup of the current directory.
fork(p, q) ==
  /\ Count /\ At(p, "user") /\ At(q, "dead")
  /\ ofile' = [ofile EXCEPT ![q] = ofile[p]]
  /\ ftable' = [f \in 1 .. NFILE |-> [ftable[f] EXCEPT !.ref = @ + Inherited(p, f)]]
  /\ cwd' = [cwd EXCEPT ![q] = cwd[p]]
  /\ icache' = Iget(icache, cwd[p])
  /\ Goto(q, Idle)
  /\ UNCHANGED <<disk, committed, marks, panicked>>

\* exit, when its loop of fileclose is through: put the current directory.
exit(p) ==
  /\ Count /\ At(p, "user") /\ p # initproc /\ FreeFd(p) = 1 .. NOFILE
  /\ cwd' = [cwd EXCEPT ![p] = 0]
  /\ Goto(p, [Idle EXCEPT !.pc = "end", !.op = "exit", !.puts = <<cwd[p]>>])
  /\ UNCHANGED <<disk, committed, icache, ftable, ofile, marks, panicked>>

\* The machine stops and starts again with what the log has made durable.
Crash ==
  /\ disk' = committed.disk /\ lost' = committed.lost
  /\ icache' = [i \in Inum |-> IF i = ROOTINO THEN [Empty EXCEPT !.ref = 1] ELSE Empty]
  /\ ftable' = [f \in 1 .. NFILE |-> [ref |-> 0, ip |-> 0]]
  /\ ofile' = [p \in Proc |-> [fd \in 1 .. NOFILE |-> 0]]
  /\ cwd' = [p \in Proc |-> IF p = initproc THEN ROOTINO ELSE 0]
  /\ th' = [p \in Proc |-> [Idle EXCEPT !.pc = IF p = initproc THEN "user" ELSE "dead"]]
  /\ leaked' = leaked \cup {i \in Inum : disk'[i].type # "free" /\ disk'[i].nlink = 0}
  /\ UNCHANGED <<committed, orphaned, panicked, calls>>

-----------------------------------------------------------------------------
\* The steps of a process inside a call.
Inside(p) ==
  \/ iput(p) \/ iput_free(p) \/ iput_done(p) \/ namex(p) \/ namex_end(p) \/ end_op(p)
  \/ \E rdonly \in BOOLEAN : open(p, rdonly)
  \/ create_found(p) \/ create_old(p) \/ create_ialloc(p) \/ create_new(p) \/ created(p)
  \/ link(p) \/ link_dir(p) \/ link_bad(p) \/ unlink(p) \/ unlink_ip(p) \/ unlink_count(p)
  \/ chdir(p)

Call(p) ==
  \/ \E c \in Calls : begin_op(p, c)
  \/ \E fd \in 1 .. NOFILE : fstat(p, fd) \/ dup(p, fd) \/ close(p, fd)
  \/ \E q \in Proc : fork(p, q)
  \/ exit(p)

Next ==
  \/ panicked = "none" /\ \E p \in Proc : Inside(p) \/ Call(p)
  \/ panicked = "none" /\ Crash
  \/ panicked # "none" /\ UNCHANGED vars

Spec == Init /\ [][Next]_vars

-----------------------------------------------------------------------------
(***************************************************************************)
(* Properties.                                                             *)
(***************************************************************************)

Dinode == [type : InodeType, nlink : 0 .. MAXCALLS + 1, ents : [Name -> 0 .. NINODES]]

TypeOK ==
  /\ disk \in [Inum -> Dinode] /\ committed.disk \in [Inum -> Dinode]
  /\ icache \in [Inum -> [ref : Nat, busy : Proc \cup {NoProc}, valid : BOOLEAN,
                          type : InodeType, nlink : 0 .. MAXCALLS + 1]]
  /\ ftable \in [1 .. NFILE -> [ref : Nat, ip : 0 .. NINODES]]
  /\ ofile \in [Proc -> [1 .. NOFILE -> 0 .. NFILE]]
  /\ cwd \in [Proc -> 0 .. NINODES]
  /\ lost \subseteq Inum /\ leaked \subseteq Inum /\ orphaned \in BOOLEAN

\* The places in which a process has inodes: its current directory c, the local
\* variables of the call t that it is in, and the inodes that the call has to put.
Place == {"cwd", "cur", "ip", "dp", "put1", "put2"}
Put(t, n) == IF n <= Len(t.puts) THEN t.puts[n] ELSE 0
Pointer(c, t, k) ==
  CASE k = "cwd" -> c
    [] k = "cur" -> t.cur
    [] k = "ip" -> t.ip
    [] k = "dp" -> t.dp
    [] k = "put1" -> Put(t, 1)
    [] k = "put2" -> Put(t, 2)

\* The number of pointers to inode i: those of processes and those of open files.
PointersTo(i) ==
  Cardinality({x \in Proc \X Place : Pointer(cwd[x[1]], th[x[1]], x[2]) = i})
  + Cardinality({f \in 1 .. NFILE : ftable[f].ip = i})

\* The reference count of every inode is the number of pointers to it, on every
\* path through every call: no call forgets an iput or puts twice.
RefCounts == panicked = "none" => \A i \in Inum : icache[i].ref = PointersTo(i)

\* The reference count of an open file is the number of descriptors for it.
FileRefs ==
  \A f \in 1 .. NFILE :
    ftable[f].ref = Cardinality({x \in Proc \X (1 .. NOFILE) : ofile[x[1]][x[2]] = f})

\* The links to inode i in the file system d: names, and ".." of directories that
\* have a name themselves.  The root has one more.
LinksTo(d, i) ==
  Cardinality({x \in Inum \X (Name \ {".", ".."}) : d[x[1]].ents[x[2]] = i})
  + Cardinality({c \in Inum \ ({ROOTINO} \cup committed.lost) : d[c].type = "dir" /\ d[c].nlink > 0 /\ d[c].ents[".."] = i})
  + IF i = ROOTINO THEN 1 ELSE 0

\* Whatever survives a crash is a file system: every link count is the number of
\* links, except for inodes linked into a directory that another process removed
\* between nameiparent and ilock.
LinkCounts ==
  \A i \in Inum \ committed.lost : committed.disk[i].nlink = LinksTo(committed.disk, i)

\* Every name that survives a crash names an allocated inode.
NamesAllocated ==
  \A i \in Inum, n \in Name \ {".."} :
    LET j == committed.disk[i].ents[n] IN j # 0 => committed.disk[j].type # "free"

\* The inode that process p has to lock before it can go on.
NextLock(t) ==
  CASE t.puts # <<>> \/ t.pc \in {"user", "dead", "end", "created", "unlink_count"} -> 0
    [] t.pc = "walk" -> t.cur
    [] t.pc \in {"create_old", "create_new", "link", "link_bad", "unlink_ip", "open", "chdir"} -> t.ip
    [] OTHER -> t.dp

\* Every inode that an open file, a process or a call has a pointer to stays allocated,
\* although its names are removed and inode numbers are used again; and the entry in the
\* cache agrees with the disk.  Two pointers are excepted: the one that iput is freeing, and
\* one that namex or create has just taken from ".." of a removed directory and not locked.
InUseIsAllocated ==
  panicked = "none" =>
    \A i \in Inum :
      /\ disk[i].type = "free" =>
           /\ \A f \in 1 .. NFILE : ftable[f].ip # i
           /\ \A p \in Proc, k \in Place :
                Pointer(cwd[p], th[p], k) = i =>
                  \/ k = "put1" /\ th[p].freeing = 2
                  \/ orphaned /\ k \in {"cur", "ip"} /\ NextLock(th[p]) \in {0, i}
      /\ icache[i].valid /\ icache[i].busy = NoProc =>
           icache[i].type = disk[i].type /\ icache[i].nlink = disk[i].nlink

\* An inode without links and without references is free: the last iput frees it,
\* also when the close comes after the unlink.  A crash leaks such inodes; those that were
\* linked into a removed directory are excepted too.
Reclaimed ==
  panicked = "none" =>
    \A i \in Inum \ (leaked \cup lost) :
      disk[i].type # "free" /\ disk[i].nlink = 0 => icache[i].ref > 0

WaitsFor(p, q) ==
  NextLock(th[p]) # 0 /\ icache[NextLock(th[p])].busy = q

\* No circle of processes wait for each other's inodes: unlink locks the entry
\* while it holds the directory, create and iput hold inodes as well.
NoCircularWait ==
  \A S \in (SUBSET Proc) \ {{}} : \E p \in S : \A q \in S : ~WaitsFor(p, q)

\* Locking an inode finds it allocated: iput frees an inode only when, as itrunc's comment has
\* it, no directory entries refer to it (fs.c:387-388), and ilock panics otherwise (fs.c:293).
LockedHasType == panicked # "ilock: no type"

\* The other panics are for lack of inodes.
NoPanic == panicked \in {"none", "ilock: no type", "ialloc: no inodes", "iget: no inodes"}

\* The reference counts of inodes and of open files are the numbers of pointers and of
\* descriptors there are: every path through the system calls, also one that gives up
\* half way, gives back what it has taken.
ReferencesExact == RefCounts /\ FileRefs

\* The link counts that survive a crash are the numbers of names: create, link and unlink
\* change both in one transaction.
CountsExact == TypeOK /\ LinkCounts

\* No name, open file, directory in use or call under way refers to an inode that has been
\* freed, and the kernel does not panic over one, unless a directory was freed while ".."
\* of a removed one led to it: only there, ilock may find an inode without a type.
NothingDangles ==
  NamesAllocated /\ InUseIsAllocated /\ NoPanic /\ (LockedHasType \/ orphaned)
=============================================================================
