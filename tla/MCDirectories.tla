--------------------------- MODULE MCDirectories ---------------------------
(***************************************************************************)
(* Directories for TLC.  The histories, and what is left in blocks that no *)
(* inode has, which are overwritten before they are read, have no          *)
(* influence on what follows, and the view leaves them out.                *)
(***************************************************************************)
EXTENDS Directories

CONSTANTS foo, bar

MCInstalled == {<<"i1", "i2", "i3">>, <<"i1", "i2", "i3", "i4">>}
BlocksOf(ino) == {BlockAt(disk, ino, i) : i \in Index} \cup {ino.sectors[Direct]}
Visible == UNION {BlocksOf(disk.inodes[n]) : n \in Inode} \ {0}
DirectoriesView ==
  <<disk.magic, disk.block_bitmap, disk.inode_bitmap, disk.inodes,
    [k \in Visible |-> disk.entries[k]], [k \in Visible |-> disk.tables[k]],
    up, block_bitmap, inode_bitmap, leaked, stale, astray, stops, late>>
=============================================================================
