----------------------------- MODULE LineEditor -----------------------------
(***************************************************************************)
(* What the console promises a reader: what was typed, in order, once the  *)
(* line is complete; what is still being edited can be erased, what is     *)
(* complete cannot.  A line is complete at a newline, at an end-of-file,   *)
(* or when there is no more room.                                          *)
(***************************************************************************)
EXTENDS Naturals, Sequences

CONSTANTS Chars, Capacity

VARIABLES lines, edit   \* complete and not read; being edited

Type(c) ==
  LET typed == Append(edit, c) IN
  /\ Len(lines) + Len(edit) < Capacity
  /\ IF c \in {"nl", "eof"} \/ Len(lines) + Len(typed) = Capacity
     THEN lines' = lines \o typed /\ edit' = <<>>
     ELSE edit' = typed /\ UNCHANGED lines

Erase == edit # <<>> /\ edit' = SubSeq(edit, 1, Len(edit) - 1) /\ UNCHANGED lines
KillLine == edit' = <<>> /\ UNCHANGED lines
Take == lines # <<>> /\ lines' = Tail(lines) /\ UNCHANGED edit

editorVars == <<lines, edit>>

Init == lines = <<>> /\ edit = <<>>
Next == (\E c \in Chars : Type(c)) \/ Erase \/ KillLine \/ Take
Spec == Init /\ [][Next]_editorVars
=============================================================================
