-------------------------------- MODULE Tree --------------------------------
(***************************************************************************)
(* What the directory calls of fs/fs.c promise: a tree of files and        *)
(* directories, each call on it atomic, and a machine that may stop        *)
(* in a call, which then was made or was not.                              *)
(*                                                                         *)
(* A path is the sequence of its names; the root is the empty one.         *)
(***************************************************************************)
EXTENDS Sequences, SequencesExt

CONSTANTS
  Name,       \* names of files and directories
  MaxDepth    \* bound: names of a path

VARIABLES
  tree,   \* the paths of the files and of the directories but the root
  call    \* the last call: what it was, its path, and how it ended

Path == UNION {[1..n -> Name] : n \in 0..MaxDepth}
Op == {"creat", "open", "unlink", "mkdir", "rmdir", "opendir", "stat"}

IsDir(t, p) == p = <<>> \/ p \in t.dirs
Exists(t, p) == p \in t.files \/ IsDir(t, p)

\* A lookup ends at the first name that is a file, whatever follows it.
Found(t, p) ==
  IF \E q \in t.files : IsPrefix(q, p) THEN CHOOSE q \in t.files : IsPrefix(q, p) ELSE p

\* A new name needs a directory to be in.
Vacant(t, p) == ~Exists(t, p) /\ IsDir(t, Front(p))
IsEmptyDir(t, p) == p \in t.dirs /\ \A q \in t.files \cup t.dirs : ~IsStrictPrefix(p, q)

Succeeds(op, t, p) ==
  CASE op \in {"creat", "mkdir"} -> Vacant(t, p)
    [] op = "open"    -> p \in t.files
    [] op = "unlink"  -> Found(t, p) \in t.files
    [] op = "rmdir"   -> IsEmptyDir(t, p)
    [] op = "opendir" -> IsDir(t, p)
    [] op = "stat"    -> Exists(t, Found(t, p))

Effect(op, t, p) ==
  CASE op = "creat"  -> [t EXCEPT !.files = @ \cup {p}]
    [] op = "mkdir"  -> [t EXCEPT !.dirs = @ \cup {p}]
    [] op = "unlink" -> [t EXCEPT !.files = @ \ {Found(t, p)}]
    [] op = "rmdir"  -> [t EXCEPT !.dirs = @ \ {p}]
    [] OTHER -> t

Result(op, t, p) == IF Succeeds(op, t, p) THEN Effect(op, t, p) ELSE t

\* How a call ends: it succeeds, it fails, or the machine stops in it.
Called(op, p, end) == [op |-> op, path |-> p, end |-> end]

-----------------------------------------------------------------------------
\* The machine is off, whatever there is on its disk.
Init == call = Called("boot", <<>>, "stop")

Call(op, p) ==
  \E end \in {"yes", "no"} :
    /\ call' = Called(op, p, end)
    /\ (end = "yes") = Succeeds(op, tree, p)
    /\ tree' = Result(op, tree, p)

\* The machine stops in a call: it has been made, or it has not.
Stop(op, p) ==
  /\ call' = Called(op, p, "stop")
  /\ tree' \in {tree, Result(op, tree, p)}

\* The machine starts, or stops while no call is made.
Rest(end) == call' = Called("boot", <<>>, end) /\ tree' = tree

Step(op, p) == Call(op, p) \/ Stop(op, p)

Next ==
  \/ \E end \in {"yes", "stop"} : Rest(end)
  \/ \E op \in Op, p \in Path : Step(op, p)
=============================================================================
