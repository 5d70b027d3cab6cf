-------------------------------- MODULE Shell --------------------------------
(***************************************************************************)
(* The shell (sh.c) under init (init.c): reading a line, the parser, and   *)
(* the processes, descriptors and pipes by which runcmd carries it out.    *)
(*                                                                         *)
(* A line is a sequence of symbols; a word is one symbol and is known by   *)
(* its position, so that the copying and termination of strings disappear. *)
(* The calls fork, wait, exit, pipe, dup, open and exec are modelled by    *)
(* what the shell sees of them.  A program reads its standard input to its *)
(* end, as cat.c does, and exits; it may also exit at any other time.      *)
(***************************************************************************)
EXTENDS Integers, Sequences, FiniteSets, SequencesExt

CONSTANTS
  NPROC,     \* slots of the process table
  NOFILE,    \* descriptors of a process
  NBUF,      \* sizeof(buf) of main
  MAXARGS,   \* arguments of a command, the terminating 0 included
  WRAP,      \* 2^32: integers are taken modulo WRAP
  MAXID,     \* the largest user and group id, 32767 in the code
  Inputs     \* what is typed at the console; ^D is end of file

ASSUME ShellAssumption ==
  /\ NPROC \in Nat /\ NPROC > 1
  /\ NOFILE \in Nat /\ NOFILE > 3
  /\ NBUF \in Nat /\ NBUF > 1
  /\ MAXARGS \in Nat \ {0}
  /\ WRAP \in Nat /\ MAXID \in 0 .. WRAP - 1

VARIABLES
  P,        \* the process table
  rest,     \* the input nobody has read yet
  failed,   \* the system call that has failed, at most one in a behaviour
  halted    \* init has exited, and the kernel has panicked

vars == <<P, rest, failed, halted>>

Slot == 1 .. NPROC
init == 1
FD == 0 .. NOFILE - 1
Symbols == {"<", "|", ">", "&", ";", "(", ")"}
Digits == <<"0", "1", "2", "3", "4", "5", "6", "7", "8", "9">>
Console == <<"console">>
NoFds == [f \in FD |-> <<>>]
NoCmd == [type |-> "NONE"]
Free == [pc |-> "free", parent |-> 0, fd |-> NoFds, pfd |-> <<>>, line |-> <<>>,
         cmd |-> NoCmd, pid |-> 0, uid |-> 0, gid |-> 0, cwd |-> <<>>]

PCs == {"free", "zombie", "init", "init_wait", "sh_exec", "sh_main", "sh_wait",
        "parse", "runcmd", "list_wait", "pipe_left", "pipe_right", "left", "right",
        "pipe_close", "pipe_wait2", "pipe_wait1", "exit", "program"}
Objects == {<<>>, Console} \cup ({"r", "w"} \X Slot) \cup ({"file"} \X Nat)

TypeOK ==
  /\ DOMAIN P = Slot
  /\ \A s \in Slot :
       /\ P[s].pc \in PCs
       /\ P[s].parent \in 0 .. NPROC
       /\ DOMAIN P[s].fd = FD /\ \A f \in FD : P[s].fd[f] \in Objects
       /\ P[s].uid \in 0 .. MAXID /\ P[s].gid \in 0 .. MAXID
       /\ P[s].cmd.type = "EXEC" => Len(P[s].cmd.argv) < MAXARGS
  /\ failed \in {"none", "fork", "pipe", "open", "exec"}
  /\ halted \in BOOLEAN

-----------------------------------------------------------------------------
(***************************************************************************)
(* The parser.  A parsing routine takes the line and a position and        *)
(* returns what it has built and the next position, as a set of one        *)
(* element, or no element for a call of panic.                             *)
(***************************************************************************)

Panics == {}
Returns(cmd, at) == {[cmd |-> cmd, at |-> at]}

\* Go on with F unless parsing has failed.
Then(R, F(_)) == UNION {F(r) : r \in R}

\* The character at i; the string ends with a NUL.
Char(s, i) == IF i > Len(s) THEN "NUL" ELSE s[i]
SkipSpace(s, i) == IF Char(s, i) = "\n" THEN i + 1 ELSE i

\* gettoken: the kind of token, where it starts and where the next one does.
gettoken(s, i) ==
  LET q == SkipSpace(s, i)
      c == Char(s, q)
      append == c = ">" /\ Char(s, q + 1) = ">"
      len == CASE c = "NUL" -> 0 [] append -> 2 [] OTHER -> 1
  IN  [tok |-> IF append THEN "+" ELSE IF c \in Symbols \cup {"NUL"} THEN c ELSE "a",
       q |-> q, at |-> SkipSpace(s, q + len)]

\* gettoken where only the position matters.
Next1(s, i) == gettoken(s, i).at

peek(s, i, toks) == Char(s, SkipSpace(s, i)) \in toks

execcmd(argv) == [type |-> "EXEC", argv |-> argv]
redircmd(cmd, r) == [type |-> "REDIR", cmd |-> cmd, file |-> r.file, fd |-> r.fd]
pipecmd(left, right) == [type |-> "PIPE", left |-> left, right |-> right]
listcmd(left, right) == [type |-> "LIST", left |-> left, right |-> right]
backcmd(cmd) == [type |-> "BACK", cmd |-> cmd]

\* A command with its redirections: each one is put around the ones before it.
Redirected(cmd, redirs) == FoldLeft(redircmd, cmd, redirs)

\* parseredirs: the redirections at i, as a sequence; > and >> do the same.
RECURSIVE parseredirs(_, _)
parseredirs(s, i) ==
  IF ~peek(s, i, {"<", ">"}) THEN Returns(<<>>, i)
  ELSE LET t == gettoken(s, i)
           f == gettoken(s, t.at)
           r == [file |-> f.q, fd |-> IF t.tok = "<" THEN 0 ELSE 1]
       IN  IF f.tok # "a" THEN Panics
           ELSE Then(parseredirs(s, f.at), LAMBDA more : Returns(<<r>> \o more.cmd, more.at))

\* parseexec gives up once argc has reached MAXARGS.
TooMany(argc) == argc >= MAXARGS

\* The loop of parseexec, after argv and redirs.
RECURSIVE parseargs(_, _, _, _)
parseargs(s, i, argv, redirs) ==
  LET t == gettoken(s, i)
  IN  IF peek(s, i, {"|", ")", "&", ";", "NUL"}) THEN Returns(Redirected(execcmd(argv), redirs), i)
      ELSE IF t.tok # "a" \/ TooMany(Len(argv) + 1) THEN Panics
      ELSE Then(parseredirs(s, t.at),
                LAMBDA r : parseargs(s, r.at, Append(argv, t.q), redirs \o r.cmd))

\* The "&" that follow a pipeline, each of which calls backcmd.
RECURSIVE parsebacks(_, _, _)
parsebacks(s, cmd, i) ==
  IF peek(s, i, {"&"}) THEN parsebacks(s, backcmd(cmd), Next1(s, i)) ELSE Returns(cmd, i)

RECURSIVE parseline(_, _), parsepipe(_, _)
parseblock(s, i) ==
  Then(parseline(s, Next1(s, i)),
       LAMBDA b : IF ~peek(s, b.at, {")"}) THEN Panics
                  ELSE Then(parseredirs(s, Next1(s, b.at)),
                            LAMBDA r : Returns(Redirected(b.cmd, r.cmd), r.at)))

parseexec(s, i) ==
  IF peek(s, i, {"("}) THEN parseblock(s, i)
  ELSE Then(parseredirs(s, i), LAMBDA r : parseargs(s, r.at, <<>>, r.cmd))

parsepipe(s, i) ==
  Then(parseexec(s, i),
       LAMBDA l : IF ~peek(s, l.at, {"|"}) THEN {l}
                  ELSE Then(parsepipe(s, Next1(s, l.at)),
                            LAMBDA r : Returns(pipecmd(l.cmd, r.cmd), r.at)))

parseline(s, i) ==
  Then(Then(parsepipe(s, i), LAMBDA p : parsebacks(s, p.cmd, p.at)),
       LAMBDA l : IF ~peek(s, l.at, {";"}) THEN {l}
                  ELSE Then(parseline(s, Next1(s, l.at)),
                            LAMBDA r : Returns(listcmd(l.cmd, r.cmd), r.at)))

\* Mutant: what is left of the line is ignored.
parsecmd_leftovers(s) == parseline(s, 1)

\* parsecmd: a line must be parsed to its end.
parsecmd(s) == {r \in parseline(s, 1) : SkipSpace(s, r.at) = Len(s) + 1}

\* What parsecmd makes of every part of an input.
Parsed ==
  [s \in UNION {{SubSeq(t, i, j) : i, j \in 1 .. Len(t)} : t \in Inputs} |-> parsecmd(s)]

-----------------------------------------------------------------------------
(***************************************************************************)
(* Descriptors and processes, as system calls change them.                 *)
(***************************************************************************)

Lowest(S) == CHOOSE x \in S : \A y \in S : x <= y
FreeFds(fd) == {f \in FD : fd[f] = <<>>}

Close(fd, f) == [fd EXCEPT ![f] = <<>>]
\* fdalloc: a new object gets the lowest free descriptor.
Fdalloc(fd, obj) == [fd EXCEPT ![Lowest(FreeFds(fd))] = obj]
Dup(fd, f) == Fdalloc(fd, fd[f])
\* sys_pipe: the read end of pipe n, then its write end.
Pipe(fd, n) == Fdalloc(Fdalloc(fd, <<"r", n>>), <<"w", n>>)

Held(obj) == \E s \in Slot : \E f \in FD : P[s].fd[f] = obj
Children(p) == {s \in Slot : P[s].pc # "free" /\ P[s].parent = p}
Zombies(p) == {s \in Children(p) : P[s].pc = "zombie"}
FreeSlots == {s \in Slot : P[s].pc = "free"}

\* exit: descriptors are closed and children go to init; init itself must not exit.
Exited(p) ==
  [s \in Slot |->
     IF s = p THEN [Free EXCEPT !.pc = "zombie", !.parent = P[p].parent]
     ELSE IF s \in Children(p) THEN [P[s] EXCEPT !.parent = init]
     ELSE P[s]]
exit(p) == P' = Exited(p) /\ halted' = (p = init)

\* A system call fails, for the only time, and its caller prints a message and exits.
Fails(p, call) ==
  /\ failed = "none" \/ (call = "fork" /\ FreeSlots = {})
  /\ failed' = call
  /\ exit(p)

\* fork1: the child goes on as c says, the parent as r says.
Fork(p, c, r) ==
  \/ /\ FreeSlots # {}
     /\ P' = [P EXCEPT ![p] = r, ![Lowest(FreeSlots)] = [c EXCEPT !.parent = p]]
     /\ UNCHANGED <<failed, halted>>
  \/ Fails(p, "fork")

\* wait: free the first zombie child and go on as r says; without children, return at once.
Wait(p, r) ==
  /\ Zombies(p) # {} \/ Children(p) = {}
  /\ P' = [s \in Slot |-> IF s = p THEN r
                          ELSE IF s \in Zombies(p) /\ s = Lowest(Zombies(p)) THEN Free
                          ELSE P[s]]
  /\ UNCHANGED <<failed, halted>>

\* The process goes on as r says, and nothing else changes.
Become(p, r) == P' = [P EXCEPT ![p] = r] /\ UNCHANGED <<failed, halted>>

At(p, l) == ~halted /\ P[p].pc = l
Goto(p, l) == [P[p] EXCEPT !.pc = l]

-----------------------------------------------------------------------------
(***************************************************************************)
(* init and the shell's main loop.                                         *)
(***************************************************************************)

Init ==
  /\ P = [s \in Slot |->
            IF s # init THEN Free
            ELSE [Free EXCEPT !.pc = "init", !.parent = init,
                              !.fd = [f \in FD |-> IF f < 3 THEN Console ELSE <<>>]]]
  /\ rest \in Inputs
  /\ failed = "none"
  /\ halted = FALSE

\* init: start a shell.
init_fork(p) ==
  /\ At(p, "init")
  /\ Fork(p, Goto(p, "sh_exec"),
           [Goto(p, "init_wait") EXCEPT !.pid = Lowest(FreeSlots \cup {NPROC})])
  /\ UNCHANGED rest

\* init leaves its inner loop when the child that wait returns is the shell, or if there
\* is no child; its other children are orphans.
ShellEnded(p) == Zombies(p) = {} \/ Lowest(Zombies(p)) = P[p].pid

\* init: wait, and start another shell if the child was the shell.
init_wait(p) ==
  /\ At(p, "init_wait")
  /\ Wait(p, IF ShellEnded(p) THEN Goto(p, "init") ELSE P[p])
  /\ UNCHANGED rest

\* The child executes sh, which makes sure that 0, 1 and 2 are open.
sh_exec(p) ==
  /\ At(p, "sh_exec")
  /\ \/ Become(p, [Goto(p, "sh_main") EXCEPT
                     !.fd = [f \in FD |-> IF f < 3 /\ @[f] = <<>> THEN Console ELSE @[f]]])
     \/ Fails(p, "exec")
  /\ UNCHANGED rest

\* gets: the line ends with a newline, at end of file, or when the buffer is full; the set
\* of the positions that end it.
LineEnds(s) == {i \in DOMAIN s : s[i] \in {"\n", "^D"} \/ i = NBUF - 1}
gets(s) == LET n == Lowest(LineEnds(s)) IN SubSeq(s, 1, IF s[n] = "^D" THEN n - 1 ELSE n)

\* makeint: the value of the digits at the start of s.
makeint(s) ==
  LET n == Lowest({i \in 1 .. Len(s) + 1 : Char(s, i) \notin Range(Digits)})
      digit(c) == (CHOOSE d \in DOMAIN Digits : Digits[d] = c) - 1
  IN  FoldLeft(LAMBDA v, c : (10 * v + digit(c)) % WRAP, 0, SubSeq(s, 1, n - 1))

\* sys_setuid and sys_setgid refuse numbers above 32767.
ValidId(n) == n <= MAXID

\* dobuiltin: _set changes the shell's own ids, _get and unknown names change nothing.
dobuiltin(r, s) ==
  LET n == makeint(SubSeq(s, 3, Len(s)))
  IN  CASE s[1] = "_set" /\ Char(s, 2) = "uid" /\ ValidId(n) -> [r EXCEPT !.uid = n]
        [] s[1] = "_set" /\ Char(s, 2) = "gid" /\ ValidId(n) -> [r EXCEPT !.gid = n]
        [] OTHER -> r

\* "cd " and the last character, taken for the newline, are not part of the path.
IsCd(s) == s[1] = "cd" /\ Char(s, 2) \notin {"NUL", "\n"}
PathOf(s) == SubSeq(s, 2, Len(s) - 1)

\* Words that start with an underscore.
Builtins == {"_set", "_get", "_"}

\* main: read a line; cd and the builtins are carried out by the shell itself, any other
\* line by a child; end of file ends the shell.
sh_main(p) ==
  /\ At(p, "sh_main")
  /\ LineEnds(rest) # {}
  /\ rest' = SubSeq(rest, Lowest(LineEnds(rest)) + 1, Len(rest))
  /\ LET s == gets(rest)
     IN  \/ s = <<>> /\ exit(p) /\ UNCHANGED failed
         \/ /\ s # <<>> /\ IsCd(s)
            /\ \E path \in {P[p].cwd, PathOf(s)} : Become(p, [P[p] EXCEPT !.cwd = path])
         \/ s # <<>> /\ s[1] \in Builtins /\ Become(p, dobuiltin(P[p], s))
         \/ /\ s # <<>> /\ ~IsCd(s) /\ s[1] \notin Builtins
            /\ Fork(p, [Goto(p, "parse") EXCEPT !.line = s], Goto(p, "sh_wait"))

\* main: wait for the child.
sh_wait(p) ==
  /\ At(p, "sh_wait")
  /\ Wait(p, Goto(p, "sh_main"))
  /\ UNCHANGED rest

\* The child parses the line, or prints what is wrong with it and exits.
parse(p) ==
  /\ At(p, "parse")
  /\ \/ \E r \in Parsed[P[p].line] : Become(p, [Goto(p, "runcmd") EXCEPT !.cmd = r.cmd])
     \/ Parsed[P[p].line] = Panics /\ exit(p) /\ UNCHANGED failed
  /\ UNCHANGED rest

-----------------------------------------------------------------------------
(***************************************************************************)
(* runcmd.                                                                 *)
(***************************************************************************)

Runs(p, type) == At(p, "runcmd") /\ P[p].cmd.type = type
Run(p, cmd) == [Goto(p, "runcmd") EXCEPT !.cmd = cmd]

\* EXEC: become the program; an empty command exits.
runcmd_exec(p) ==
  /\ Runs(p, "EXEC")
  /\ \/ P[p].cmd.argv = <<>> /\ exit(p) /\ UNCHANGED failed
     \/ P[p].cmd.argv # <<>> /\ Become(p, Goto(p, "program"))
     \/ P[p].cmd.argv # <<>> /\ Fails(p, "exec")
  /\ UNCHANGED rest

\* REDIR: replace the descriptor by the file.
runcmd_redir(p) ==
  /\ Runs(p, "REDIR")
  /\ LET c == P[p].cmd
     IN  \/ Become(p, [Run(p, c.cmd) EXCEPT !.fd = Fdalloc(Close(@, c.fd), <<"file", c.file>>)])
         \/ Fails(p, "open")
  /\ UNCHANGED rest

\* LIST: a child runs the left command.
runcmd_list(p) ==
  /\ Runs(p, "LIST")
  /\ Fork(p, Run(p, P[p].cmd.left), Goto(p, "list_wait"))
  /\ UNCHANGED rest

\* Mutant: the right command does not wait for the left one.
list_wait_not(p) == At(p, "list_wait") /\ Become(p, Run(p, P[p].cmd.right)) /\ UNCHANGED rest

\* LIST: wait for the child, then go on with the right command.
list_wait(p) ==
  /\ At(p, "list_wait")
  /\ Wait(p, Run(p, P[p].cmd.right))
  /\ UNCHANGED rest

\* PIPE: pipe(p) takes the two lowest free descriptors.
runcmd_pipe(p) ==
  /\ Runs(p, "PIPE")
  /\ LET n == Lowest({i \in Slot : ~Held(<<"r", i>>) /\ ~Held(<<"w", i>>)})
         p0 == Lowest(FreeFds(P[p].fd))
         p1 == Lowest(FreeFds(P[p].fd) \ {p0})
     IN  \/ Become(p, [Goto(p, "pipe_left") EXCEPT !.fd = Pipe(@, n), !.pfd = <<p0, p1>>])
         \/ Fails(p, "pipe")
  /\ UNCHANGED rest

pipe_left(p) ==
  /\ At(p, "pipe_left")
  /\ Fork(p, Goto(p, "left"), Goto(p, "pipe_right"))
  /\ UNCHANGED rest

pipe_right(p) ==
  /\ At(p, "pipe_right")
  /\ Fork(p, Goto(p, "right"), Goto(p, "pipe_close"))
  /\ UNCHANGED rest

ClosePipe(fd, p) == Close(Close(fd, P[p].pfd[1]), P[p].pfd[2])

\* Mutants: the parent keeps its write end; a child makes the copy before it has closed 0
\* or 1.
ParentCloses_read(p) == Close(P[p].fd, P[p].pfd[1])
OnPipe_early(p, f, end) == ClosePipe(Close(Dup(P[p].fd, end), f), p)

\* The descriptors of the parent after it has closed the pipe.
ParentCloses(p) == ClosePipe(P[p].fd, p)

\* The descriptors of a child whose f is to be the given end of the pipe.
OnPipe(p, f, end) == ClosePipe(Dup(Close(P[p].fd, f), end), p)

\* PIPE: the children put the pipe in the place of 1 and 0.
left(p) ==
  /\ At(p, "left")
  /\ Become(p, [Run(p, P[p].cmd.left) EXCEPT !.fd = OnPipe(p, 1, P[p].pfd[2]), !.pfd = <<>>])
  /\ UNCHANGED rest

right(p) ==
  /\ At(p, "right")
  /\ Become(p, [Run(p, P[p].cmd.right) EXCEPT !.fd = OnPipe(p, 0, P[p].pfd[1]), !.pfd = <<>>])
  /\ UNCHANGED rest

\* PIPE: the parent closes both ends and waits for both children.
pipe_close(p) ==
  /\ At(p, "pipe_close")
  /\ Become(p, [Goto(p, "pipe_wait2") EXCEPT !.fd = ParentCloses(p)])
  /\ UNCHANGED rest

pipe_wait(p) ==
  /\ \/ At(p, "pipe_wait2") /\ Wait(p, Goto(p, "pipe_wait1"))
     \/ At(p, "pipe_wait1") /\ Wait(p, [Goto(p, "exit") EXCEPT !.pfd = <<>>])
  /\ UNCHANGED rest

\* BACK: a child runs the command and the parent exits.
runcmd_back(p) ==
  /\ Runs(p, "BACK")
  /\ Fork(p, Run(p, P[p].cmd.cmd), Goto(p, "exit"))
  /\ UNCHANGED rest

\* The end of runcmd.
runcmd_exit(p) ==
  /\ At(p, "exit")
  /\ exit(p)
  /\ UNCHANGED <<rest, failed>>

\* A program that reads its standard input meets the end of a pipe once nobody holds a
\* write end.
AtEof(p) == \A n \in Slot : P[p].fd[0] = <<"r", n>> => ~Held(<<"w", n>>)

\* The program has read its input, and exits.
program(p) ==
  /\ At(p, "program")
  /\ AtEof(p)
  /\ exit(p)
  /\ UNCHANGED <<rest, failed>>

\* A program may stop before it has read everything.
program_stops(p) ==
  /\ At(p, "program")
  /\ ~AtEof(p)
  /\ exit(p)
  /\ UNCHANGED <<rest, failed>>

Step(p) ==
  \/ init_fork(p) \/ init_wait(p) \/ sh_exec(p) \/ sh_main(p) \/ sh_wait(p) \/ parse(p)
  \/ runcmd_exec(p) \/ runcmd_redir(p) \/ runcmd_list(p) \/ list_wait(p)
  \/ runcmd_pipe(p) \/ pipe_left(p) \/ pipe_right(p) \/ left(p) \/ right(p)
  \/ pipe_close(p) \/ pipe_wait(p) \/ runcmd_back(p) \/ runcmd_exit(p)
  \/ program(p)

Next == \E p \in Slot : Step(p) \/ program_stops(p)

Spec == Init /\ [][Next]_vars

\* The scheduler runs every runnable process.  Programs need not stop early.
FairSpec == Spec /\ \A p \in Slot : WF_vars(Step(p))

-----------------------------------------------------------------------------
(***************************************************************************)
(* Reference: the grammar, and what runs together, read off the line.      *)
(***************************************************************************)

IsWord(c) == c \notin Symbols \cup {"\n", "NUL"}
Redir == {"<", ">"}
Args(s) == {i \in DOMAIN s : IsWord(s[i]) /\ (i = 1 \/ s[i - 1] \notin Redir)}

\* Words and redirections; ">>" counts as one redirection.
Simple(s) ==
  /\ \A i \in DOMAIN s :
       \/ IsWord(s[i])
       \/ s[i] \in Redir /\ IsWord(Char(s, i + 1))
       \/ s[i] = ">" /\ Char(s, i + 1) = ">" /\ (i = 1 \/ s[i - 1] \notin Redir)
  /\ Cardinality(Args(s)) < MAXARGS

Before(s, k) == SubSeq(s, 1, k - 1)
After(s, k) == SubSeq(s, k + 1, Len(s))
Ats(s, c) == {k \in DOMAIN s : s[k] = c}

RECURSIVE Pipeline(_), Backed(_), Line(_)
Command(s) ==
  \/ Simple(s)
  \/ \E k \in Ats(s, ")") :
       /\ s[1] = "(" /\ Line(SubSeq(s, 2, k - 1))
       /\ Simple(After(s, k)) /\ Args(After(s, k)) = {}
Pipeline(s) ==
  Command(s) \/ \E k \in Ats(s, "|") : Command(Before(s, k)) /\ Pipeline(After(s, k))
Backed(s) == Pipeline(s) \/ (s # <<>> /\ Last(s) = "&" /\ Backed(Front(s)))
Line(s) == Backed(s) \/ \E k \in Ats(s, ";") : Backed(Before(s, k)) /\ Line(After(s, k))

Depth(s, k) == Cardinality({i \in Ats(s, "(") : i < k}) - Cardinality({i \in Ats(s, ")") : i < k})
Separators(s, i, j) == {k \in i .. j : s[k] \in {"|", ";"}}

\* The outermost separators between two places of a line.
Between(s, i, j) ==
  {k \in Separators(s, i, j) : \A m \in Separators(s, i, j) : Depth(s, k) <= Depth(s, m)}

\* Whether the command at i is on the given side of a "|" at k.
Covers(s, k, i) ==
  LET lo == IF i < k THEN i ELSE k + 1
      hi == IF i < k THEN k - 1 ELSE i
  IN  /\ \A m \in lo .. hi : Depth(s, m) >= Depth(s, k)
      /\ \A m \in Separators(s, lo, hi) : Depth(s, m) > Depth(s, k)

Programs == {p \in Slot : P[p].pc = "program"}
First(p) == P[p].cmd.argv[1]

-----------------------------------------------------------------------------
(***************************************************************************)
(* Properties.                                                             *)
(***************************************************************************)

\* The recursive descent of parseline, parsepipe, parseexec and parseblock, which never
\* backs up, accepts exactly the lines of the grammar, empty commands and "&" before ";"
\* included; a command of MAXARGS words is refused.
AcceptsGrammar ==
  \A p \in Slot : P[p].pc = "parse" =>
    LET s == P[p].line
    IN  Parsed[s] # Panics <=> Line(IF Last(s) = "\n" THEN Front(s) ELSE s)

\* Two programs joined by a pipe stand on the two sides of one and the same "|" of the
\* line, and without redirections a program has a pipe for its input or output exactly
\* where the line has one: close and dup in runcmd hit descriptors 0 and 1.
WiredAsTyped ==
  /\ \A p, q \in Programs : \A n \in Slot :
       P[p].fd[1] = <<"w", n>> /\ P[q].fd[0] = <<"r", n>> =>
         /\ P[p].line = P[q].line /\ First(p) < First(q)
         /\ LET seps == Between(P[p].line, First(p), First(q))
            IN  Cardinality(seps) = 1 /\ \A k \in seps : P[p].line[k] = "|"
  /\ \A p \in Programs :
       LET s == P[p].line
           Piped(S) == \E k \in S : s[k] = "|" /\ Covers(s, k, First(p))
       IN  Range(s) \cap Redir = {} =>
             /\ P[p].fd[0] \in IF Piped(1 .. First(p)) THEN {"r"} \X Slot ELSE {Console}
             /\ P[p].fd[1] \in IF Piped(First(p) .. Len(s)) THEN {"w"} \X Slot ELSE {Console}

\* Of several output redirections of a command the first one typed takes effect: the
\* nesting that parseredirs builds makes runcmd open it last.
FirstRedirectionWins ==
  \A p \in Programs :
    LET s == P[p].line
        own == {k \in DOMAIN s : k > 1 /\ s[k - 1] = ">" /\ IsWord(s[k]) /\
                  \A m \in (IF k < First(p) THEN k .. First(p) ELSE First(p) .. k) :
                    s[m] \in Redir \/ IsWord(s[m])}
    IN  own # {} => P[p].fd[1] = <<"file", Lowest(own)>>

\* A program starts with descriptors 0, 1 and 2 and no others, however many pipelines
\* and redirections the processes before it have gone through.
NoStrayDescriptors ==
  \A p \in Programs : {f \in FD : P[p].fd[f] # <<>>} = {0, 1, 2}

\* Two programs of a line without "&" run together only if the line joins them by "|":
\* what stands before a ";" has ended before what stands after it begins, whatever the
\* nesting of blocks and pipelines, unless a fork has failed.
SequentialLists ==
  \A p, q \in Programs :
    LET s == P[p].line
    IN  s = P[q].line /\ First(p) < First(q) /\ "&" \notin Range(s) /\ failed # "fork" =>
          \A k \in Between(s, First(p), First(q)) : s[k] # ";"

\* When the shell prompts again, the programs that still run were started by a line with
\* "&", or by one in which a fork failed.
AloneAtPrompt ==
  (\E p \in Slot : P[p].pc = "sh_main") /\ failed # "fork" =>
    \A q \in Slot : P[q].pc \notin {"free", "zombie", "init", "init_wait", "sh_main"} =>
      "&" \in Range(P[q].line)

\* At most one shell reads the console: an orphan that ends does not make init start another.
OneShell == Cardinality({p \in Slot : P[p].pc \in {"sh_exec", "sh_main", "sh_wait"}}) <= 1

\* A program has the descriptors that the line gives it.
DescriptorsAsTyped == TypeOK /\ WiredAsTyped /\ FirstRedirectionWins /\ NoStrayDescriptors

\* Programs run in the order that the line gives them.
OrderAsTyped == SequentialLists /\ AloneAtPrompt /\ OneShell

\* The shell always prompts again: a program at the end of a pipeline meets end of file
\* because every process closes the write ends it does not use.
PromptReturns == \A p \in Slot : (P[p].pc = "sh_wait") ~> (P[p].pc # "sh_wait")

\* Every zombie is waited for, by its parent or by init.
ZombiesReaped == \A p \in Slot : (P[p].pc = "zombie") ~> (P[p].pc = "free" \/ halted)

\* The prompt comes back and no zombie stays.
ShellGoesOn == PromptReturns /\ ZombiesReaped
=============================================================================
