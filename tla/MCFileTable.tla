---------------------------- MODULE MCFileTable ----------------------------
(***************************************************************************)
(* FileTable for TLC.  Processes and names are interchangeable.  The view  *)
(* leaves out the addresses of inodes and pages, of which only equality    *)
(* matters, the flag and the position of a free slot, which are written    *)
(* before they are read, and a spoiled table, about which no property says *)
(* anything unless it is spoiled by the close of a shared file.            *)
(***************************************************************************)
EXTENDS FileTable

CONSTANTS p1, p2, foo, bar

Symmetry == Permutations(Proc) \cup Permutations(Name)
Place(a) == {i \in 1..Len(open_inodes) : open_inodes[i] = a}
FileOf(d) == <<d.slot, IF d.file[1] = "file" THEN d.file[2] ELSE 0,
               d.file[1] = "pipe" => Target(d.slot) = d.file>>
TableView ==
  IF spoiled \in {"no", "shared"}
  THEN <<spoiled, alive, dir, inode_bitmap, unfilled,
         [p \in Proc |-> [i \in Fd |-> FileOf(fd[p][i])]],
         [s \in UsedSlots |-> <<Place(table[s].fd_inode), table[s].fd_flag, table[s].fd_pos>>],
         [i \in 1..Len(open_inodes) |-> mem[open_inodes[i]]],
         [p \in Proc |-> [pending[p] EXCEPT !.addr = Place(@)]]>>
  ELSE <<spoiled>>
=============================================================================
