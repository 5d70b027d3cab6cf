------------------------------- MODULE MCShell -------------------------------
(***************************************************************************)
(* Instances of Shell for TLC: every line of up to three symbols, and some *)
(* longer ones with nested blocks, pipelines, lists and redirections.      *)
(***************************************************************************)
EXTENDS Shell

MCShort == UNION {[1 .. n -> Symbols \cup {"a"}] : n \in 0 .. 3}
MCLong ==
  { <<"a", "|", "a", "|", "a", "\n">>,
    <<"a", "|", "a", ";", "a", "^D", "a", "^D", "^D">>,
    <<"(", "a", ";", "a", ")", "|", "a", "\n">>,
    <<"(", "a", "&", ")", "|", "a", "\n", "^D", "a", "\n">>,
    <<"a", "&", ";", "a", "\n", "a", "\n">>,
    <<"a", ">", "a", ">", ">", "a", "\n">>,
    <<"<", "a", "a", ">", "a", "|", "a", "\n">>,
    <<"(", "a", ">", "a", ")", ">", "a", "<", "a", "a", "\n">>,
    <<"cd", "a", "\n", "_set", "uid", "9", "\n", "_set", "gid", "1", "2", "\n", "a", "\n">>,
    <<"_get", "uid", "\n", "_", "\n", "cd", "\n">> }
MCInputs == {Append(s, "\n") : s \in MCShort} \cup MCLong
=============================================================================
