------------------------ MODULE MCSyncDirectories ------------------------
(***************************************************************************)
(* The lock and, apart from it, the directories on the disk in one state   *)
(* space: the two share no variable, part says which of them is explored,  *)
(* and the other one stays as it begins.  The fairness is the lock's; of   *)
(* the calls on directories none is claimed to be made.                    *)
(***************************************************************************)
EXTENDS MCSync, MCDirectories

VARIABLE part

all_vars == <<part, vars, directories_vars>>

EitherInit ==
  /\ part \in {"lock", "directories"} /\ Init /\ DirectoriesInit
  /\ part = "lock" => disk = Blank

\* The machine may be off for good; the tasks that use a lock may not stop.
EitherNext ==
  \/ part = "lock" /\ Next /\ UNCHANGED <<part, directories_vars>>
  \/ part = "directories" /\ DirectoriesNext /\ UNCHANGED <<part, vars>>
  \/ part = "directories" /\ (astray # "no" \/ ~up) /\ UNCHANGED all_vars

EitherSpec == EitherInit /\ [][EitherNext]_all_vars /\ Fairness

EitherView == <<part, vars, DirectoriesView>>
=============================================================================
