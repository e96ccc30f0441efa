----------------------------- MODULE MCTerminal -----------------------------
(***************************************************************************)
(* Terminal for TLC.  What is in the buffer from pos on is written before  *)
(* it is read, and the view leaves it out.  All characters that are        *)
(* neither a space nor an editing command are treated alike once they      *)
(* have been made: the view does not tell them apart, but has whether the  *)
(* buffer agrees with the line as edited.                                  *)
(***************************************************************************)
EXTENDS Terminal

Sort(c) == IF c \in {"SP", "NL", "BS", "^l", "^u", End} THEN c ELSE "visible"
TerminalView ==
  <<kbd, sent, [i \in 1..Len(kbd_buf) |-> Sort(kbd_buf[i])],
    [i \in 0..pos - 1 |-> Sort(buf[i])], pos, shell, down, mixed, Len(line), LineExact>>
=============================================================================
