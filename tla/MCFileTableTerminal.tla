------------------------ MODULE MCFileTableTerminal -------------------------
(***************************************************************************)
(* What processes read from and write to, in one state space: the table of *)
(* open files, and the terminal.  The two share no variable, part says     *)
(* which of them is explored, and the other one stays as it begins.        *)
(***************************************************************************)
EXTENDS MCFileTable, MCTerminal

VARIABLE part

all_vars == <<part, vars, terminal_vars>>

EitherInit == part \in {"table", "terminal"} /\ Init /\ TerminalInit

\* All processes may exit, or open files come to where the model does not follow;
\* no other state is without a step.
EitherNext ==
  \/ part = "table" /\ Next /\ UNCHANGED <<part, terminal_vars>>
  \/ part = "table" /\ (spoiled # "no" \/ alive = {}) /\ UNCHANGED all_vars
  \/ part = "terminal" /\ TerminalNext /\ UNCHANGED <<part, vars>>

EitherSpec == EitherInit /\ [][EitherNext]_all_vars

EitherView == IF part = "table" THEN <<part, TableView>> ELSE <<part, TerminalView>>
=============================================================================
