---------------------------- MODULE MCFileBlocks ----------------------------
(***************************************************************************)
(* FileBlocks for TLC: two files that compete for the blocks.  Files occur *)
(* in no other way than as the names of their inodes, hence the symmetry.  *)
(***************************************************************************)
EXTENDS FileBlocks, TLC

CONSTANTS f1, f2

Symmetry == Permutations({f1, f2})
=============================================================================
