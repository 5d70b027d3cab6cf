----------------------------- MODULE LineInput ------------------------------
(***************************************************************************)
(* What the console promises its readers: a line that can be edited until  *)
(* it is entered, and the entered characters in the order of typing, none  *)
(* of them lost, repeated or changed by editing.                           *)
(***************************************************************************)
EXTENDS Naturals, Sequences, SequencesExt

CONSTANTS
  Plain,     \* characters that only make up a line
  Enders,    \* newline and end of file
  Capacity   \* characters entered or edited at a time

VARIABLES
  entered,   \* characters that may be read
  edit       \* the line being typed

Init == entered = <<>> /\ edit = <<>>

Room == Len(entered) + Len(edit) < Capacity

Enters(c) == c \in Enders \/ Len(entered) + Len(edit) + 1 = Capacity

\* A typed character joins the line; the last one enters it.
Type(c) ==
  /\ Room
  /\ IF Enters(c)
     THEN entered' = entered \o Append(edit, c) /\ edit' = <<>>
     ELSE edit' = Append(edit, c) /\ UNCHANGED entered

Backspace ==
  /\ edit # <<>>
  /\ edit' = Front(edit)
  /\ UNCHANGED entered

KillLine == edit' = <<>> /\ UNCHANGED entered

Read ==
  /\ entered # <<>>
  /\ entered' = Tail(entered)
  /\ UNCHANGED edit

Next == (\E c \in Plain \cup Enders : Type(c)) \/ Backspace \/ KillLine \/ Read

Spec == Init /\ [][Next]_<<entered, edit>>
=============================================================================
