---------------------------- MODULE MCFileSystem ----------------------------
(***************************************************************************)
(* Instances of FileSystem for TLC: trees to start from, and calls.        *)
(***************************************************************************)
EXTENDS FileSystem, TLC

MCName == {".", "..", "a", "b"}

Abs(s) == [abs |-> TRUE, names |-> s]
Rel(s) == [abs |-> FALSE, names |-> s]
A == Abs(<<"a">>)
AB == Abs(<<"a", "b">>)
Sys(op, path) == [op |-> op, path |-> path, new |-> <<>>]
Link(path, new) == [op |-> "link", path |-> path, new |-> <<new>>]

Dir(i, parent, links, a, b) ==
  [type |-> "dir", nlink |-> links, ents |-> ("." :> i) @@ (".." :> parent) @@ ("a" :> a) @@ ("b" :> b)]
File == [type |-> "file", nlink |-> 1, ents |-> NoEntries]

\* /a is an empty directory and /b a file; or /a holds the file; or /a holds a directory.
MCTrees ==
  {<<Dir(1, 1, 2, 2, 3), Dir(2, 1, 1, 0, 0), File, FreeInode>>,
   <<Dir(1, 1, 2, 2, 0), Dir(2, 1, 1, 0, 3), File, FreeInode>>,
   <<Dir(1, 1, 2, 2, 0), Dir(2, 1, 2, 0, 3), Dir(3, 2, 1, 0, 0), FreeInode>>}

MCCalls ==
  {Sys("open", AB), Sys("open", Rel(<<"..", "a">>)), Sys("creat", AB), Sys("creat", Abs(<<"a", "..">>)),
   Sys("mkdir", AB), Sys("mknod", Rel(<<"b">>)), Link(AB, Rel(<<"b">>)), Link(Rel(<<"b">>), AB),
   Link(A, AB), Sys("unlink", A), Sys("unlink", AB), Sys("unlink", Abs(<<"a", "..">>)),
   Sys("unlink", Abs(<<>>)), Sys("chdir", A), Sys("chdir", AB), Sys("chdir", Rel(<<"b">>))}
=============================================================================
