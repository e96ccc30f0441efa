----------------------------- MODULE FileBlocks -----------------------------
(***************************************************************************)
(* The blocks of regular files: file_write() and file_read() of fs/file.c  *)
(* with direct blocks and the indirect table, sys_lseek(), the release of  *)
(* an inode by sys_unlink(), and the order in which they write to the      *)
(* disk, which may lose power after any write.  Mounting then reads the    *)
(* block bitmap back and inodes are read when they are opened.             *)
(*                                                                         *)
(* One task at a time is in the file system, a file is opened once, for    *)
(* reading and writing, and there is memory for the buffers.  Directory    *)
(* entries and the inode bitmap are left out, but for a file's having an   *)
(* entry, and so is a loss of power inside file_create().  A file is its   *)
(* inode number, below 256 (inode_sync() keeps the low 8 bits of it).  An  *)
(* inode does not cross a sector, and the block bitmap is one sector.      *)
(*                                                                         *)
(* A byte is the number of the creation of its file, of all that were made,*)
(* and its offset, so that stale and misplaced bytes show.                 *)
(***************************************************************************)
EXTENDS Integers, Sequences, FiniteSetsExt, Functions, Ranks

CONSTANTS
  File,        \* inode numbers
  BlockSize,   \* bytes of a block, and block addresses of a table
  Direct,      \* direct blocks of an inode (12 in the code)
  NBlock,      \* blocks of the partition; block 0 is the root directory's
  Word,        \* 2^32, to scale
  MaxCount,    \* bound: bytes of a write or read
  MaxGen,      \* bound: files created in all
  MaxOpen,     \* bound: files that are open at a time
  MaxStop      \* bound: losses of power, and panics

ASSUME FileBlocksAssumption ==
  /\ BlockSize \in Nat \ {0} /\ Direct \in Nat \ {0} /\ NBlock \in Nat \ {0}
  /\ Word \in Nat /\ Word > BlockSize * (Direct + BlockSize) + MaxCount
  /\ MaxCount \in Nat /\ MaxGen \in Nat /\ MaxOpen \in Nat /\ MaxStop \in Nat

VARIABLES
  disk,     \* what is on the disk: the bitmap, the inodes, the blocks
  bitmap,   \* cur_part->block_bitmap
  inode,    \* inode[f]: the inode in memory while f is open
  fd_pos,   \* fd_pos[f], of the descriptor of f
  opened,   \* the files that are open
  entry,    \* the files that have a directory entry
  gen,      \* history: which creation made f, of all
  len,      \* history: bytes written to f since then
  stops     \* number of losses of power and panics

files_vars == <<disk, bitmap, inode, fd_pos, opened, entry, gen, len, stops>>

AllBlocks == Direct + BlockSize          \* 140 in the code
Block == 1..NBlock - 1
Unwritten == [i \in 0..BlockSize - 1 |-> 0]

\* i_sectors[Direct] is the address of the indirect table; 0 is no block.
Empty == [size |-> 0, sectors |-> [i \in 0..Direct |-> 0]]

-----------------------------------------------------------------------------
\* A write to the disk, and what a sequence of them leaves.
Apply(d, w) ==
  CASE w.kind = "bitmap" -> [d EXCEPT !.bitmap = w.val]
    [] w.kind = "block"  -> [d EXCEPT !.blocks[w.at] = w.val]
    [] w.kind = "inode"  -> [d EXCEPT !.inodes[w.at] = w.val]
After(d, writes) ==
  LET disk_after[i \in 0..Len(writes)] == IF i = 0 THEN d ELSE Apply(disk_after[i - 1], writes[i])
  IN  disk_after[Len(writes)]

bitmap_sync(b) == [kind |-> "bitmap", val |-> b]
ide_write(lba, buf) == [kind |-> "block", at |-> lba, val |-> buf]
inode_sync(f, ino) == [kind |-> "inode", at |-> f, val |-> ino]

\* An inode that is not in memory is read; inode_delete() clears it.
inode_open(f) == disk.inodes[f]
inode_delete(f) == [kind |-> "inode", at |-> f, val |-> Empty]

\* block_bitmap_alloc(), again and again: the lowest free block each time.
FreeBlocks(b) == Sorted(Block \ b)

\* The addresses in the indirect table of an inode.
Table(d, ino) == d.blocks[ino.sectors[Direct]]
HasTable(ino) == ino.sectors[Direct] # 0

\* Where an address of a file can be: i_sectors[Direct], a direct block, the table.
TABLE == -1
Slot == TABLE..AllBlocks - 1
Address(d, ino, i) ==
  CASE i = TABLE -> ino.sectors[Direct]
    [] i \in 0..Direct - 1 -> ino.sectors[i]
    [] OTHER -> IF HasTable(ino) THEN Table(d, ino)[i - Direct] ELSE 0

-----------------------------------------------------------------------------
\* Mutant: a block is taken when there is a byte for it.
UsedBlocks_needed(size) == IF size = 0 THEN 1 ELSE (size - 1) \div BlockSize + 1

\* file_write(): blocks the file has, and will have after count more bytes.
UsedBlocks(size) == size \div BlockSize + 1

\* What gets a block, in order: block 0 on the first write, then, if the
\* ASSERT on the number of blocks holds, the table, then the other blocks.
FirstSlot(ino) == IF ino.sectors[0] = 0 THEN <<0>> ELSE <<>>
NewSlots(ino, count) ==
  LET has == UsedBlocks(ino.size)
      will == UsedBlocks(ino.size + count)
  IN  (IF has <= Direct /\ will > Direct THEN <<TABLE>> ELSE <<>>)
        \o [i \in 1..will - has |-> has + i - 1]

\* The ASSERTs on the addresses in the inode: those to be given out are 0, the
\* others that are used are not.
AddressesFit(ino, count) ==
  LET has == UsedBlocks(ino.size)
      will == UsedBlocks(ino.size + count)
  IN  IF has > Direct THEN HasTable(ino)
      ELSE /\ \A i \in has..will - 1 : i < Direct => ino.sectors[i] = 0
           /\ will > Direct => ~HasTable(ino)
           /\ has > 1 /\ has < will /\ will <= Direct => ino.sectors[has - 1] # 0

\* The table is written back when it got new addresses: all of it is new, or
\* it was read before.
TableWrite(d, ino, new, given, count) ==
  LET old == IF UsedBlocks(ino.size) > Direct THEN Table(d, ino) ELSE Unwritten
  IN  IF UsedBlocks(ino.size + count) > Direct /\ UsedBlocks(ino.size + count) > UsedBlocks(ino.size)
      THEN <<ide_write(new.sectors[Direct],
               [j \in 0..BlockSize - 1 |->
                  IF Direct + j \in DOMAIN given THEN given[Direct + j] ELSE old[j]])>>
      ELSE <<>>

\* all_blocks of file_write(): the last block in use, or the whole table if it
\* is in use, and the new blocks.
WriteMap(d, ino, new, given) ==
  LET last == UsedBlocks(ino.size) - 1
  IN  [i \in 0..AllBlocks - 1 |->
         IF i \in DOMAIN given THEN given[i]
         ELSE IF i = last /\ last < Direct THEN new.sectors[i]
         ELSE IF i >= Direct /\ last >= Direct THEN Table(d, ino)[i - Direct]
         ELSE 0]

\* The data, block by block.  The first block is read and completed, the
\* others are filled up with zeros.
Byte(f, o) == gen[f] * 2 * BlockSize * AllBlocks + o
DataWrites(d, f, ino, all, count) ==
  LET size == ino.size
      first == size \div BlockSize
      blocks == IF count = 0 THEN 0 ELSE (size + count - 1) \div BlockSize - first + 1
      buf(i) == [j \in 0..BlockSize - 1 |->
                   IF i * BlockSize + j \in size..size + count - 1 THEN Byte(f, i * BlockSize + j)
                   ELSE IF i = first THEN d.blocks[all[i]][j] ELSE 0]
  IN  [b \in 1..blocks |-> ide_write(all[first + b - 1], buf(first + b - 1))]

\* Mutant: the inode is written before the data.
SyncOrder_inode_first(f, map, table, data, ino) == map \o <<inode_sync(f, ino)>> \o table \o data

\* The order of the writes: the bitmap after each allocation, the table, the
\* data, the inode.
SyncOrder(f, map, table, data, ino) == map \o table \o data \o <<inode_sync(f, ino)>>

\* fd_pos after a write: that of the last byte.
EndPos(size, count) == (size - 1 + count) % Word

\* file_write(file, buf, count): the inode and bitmap in memory and the writes
\* to the disk, those before a failed ASSERT if there is one.  The ASSERT that
\* a free block is left is in bitmap_scan().
file_write(f, count) ==
  LET ino == inode[f]
      fits == UsedBlocks(ino.size + count) <= AllBlocks
      slots == FirstSlot(ino) \o IF fits THEN NewSlots(ino, count) ELSE <<>>
      free == FreeBlocks(bitmap)
      got == IF Len(slots) <= Len(free) THEN Len(slots) ELSE Len(free)
      given == [s \in {slots[i] : i \in 1..got} |->
                  free[CHOOSE i \in 1..got : slots[i] = s]]
      new == [size |-> ino.size + count,
              sectors |-> [i \in 0..Direct |->
                             IF i < Direct /\ i \in DOMAIN given THEN given[i]
                             ELSE IF i = Direct /\ TABLE \in DOMAIN given THEN given[TABLE]
                             ELSE ino.sectors[i]]]
      marked(i) == bitmap \cup {free[j] : j \in 1..i}
      synced == Sorted({i \in 1..got : slots[i] # TABLE})
      map == [i \in 1..Len(synced) |-> bitmap_sync(marked(synced[i]))]
      panic == ~fits \/ got < Len(slots) \/ ~AddressesFit(ino, count)
  IN  [panic |-> panic, inode |-> new, bitmap |-> marked(got),
       writes |-> IF panic THEN map
                  ELSE SyncOrder(f, map, TableWrite(disk, ino, new, given, count),
                                 DataWrites(disk, f, ino, WriteMap(disk, ino, new, given), count),
                                 new)]

-----------------------------------------------------------------------------
\* all_blocks of file_read(): one block, or all direct ones from the first to
\* the last, or the table, or both.
ReadMap(d, ino, start, end) ==
  [i \in 0..AllBlocks - 1 |->
     CASE i < Direct /\ i \in start..end -> ino.sectors[i]
       [] i >= Direct /\ end >= Direct -> Table(d, ino)[i - Direct]
       [] OTHER -> 0]

\* How many bytes are read.  The sums and differences are unsigned.
ReadSize(pos, count, size) ==
  IF (pos + count) % Word > size THEN (size - pos) % Word ELSE count

\* file_read(file, buf, count)
file_read(f, count) ==
  LET ino == inode[f]
      pos == fd_pos[f]
      size == ReadSize(pos, count, ino.size)
      start == pos \div BlockSize
      end == ((pos + size) % Word) \div BlockSize
      panic == \/ start >= AllBlocks - 1 \/ end >= AllBlocks - 1
               \/ start # end /\ end >= Direct /\ ~HasTable(ino)
      all == ReadMap(disk, ino, start, end)
  IN  IF (pos + count) % Word > ino.size /\ size = 0
      THEN [panic |-> FALSE, bytes |-> <<>>, pos |-> pos]
      ELSE [panic |-> panic, pos |-> pos + size,
            bytes |-> IF panic THEN <<>>
                      ELSE [i \in 1..size |->
                              disk.blocks[all[(pos + i - 1) \div BlockSize]]
                                         [(pos + i - 1) % BlockSize]]]

-----------------------------------------------------------------------------
\* inode_release(): the bits of the table and of every block are cleared, with
\* a write each, then the inode is cleared.
AddressSeq(d, ino, slots) ==
  LET used == Sorted({i \in slots : Address(d, ino, i) # 0})
  IN  [i \in 1..Len(used) |-> Address(d, ino, used[i])]

\* Mutant: the block of the table itself is forgotten.
ReleaseSeq_forgets_table(d, ino) == AddressSeq(d, ino, Slot \ {TABLE})

ReleaseSeq(d, ino) == AddressSeq(d, ino, Slot)

inode_release(f) ==
  LET ino == inode_open(f)
      gone == ReleaseSeq(disk, ino)
      left(i) == bitmap \ {gone[j] : j \in 1..i}
  IN  [bitmap |-> left(Len(gone)),
       writes |-> [i \in 1..Len(gone) |-> bitmap_sync(left(i))] \o <<inode_delete(f)>>]

-----------------------------------------------------------------------------
FilesInit ==
  /\ disk = [bitmap |-> {}, inodes |-> [f \in File |-> Empty],
             blocks |-> [b \in 0..NBlock - 1 |-> Unwritten]]
  /\ bitmap = {}
  /\ inode = [f \in File |-> Empty]
  /\ fd_pos = [f \in File |-> 0]
  /\ opened = {} /\ entry = {}
  /\ gen = [f \in File |-> 0] /\ len = [f \in File |-> 0]
  /\ stops = 0

\* file_create(): a new inode, on the disk and open.
file_create(f) ==
  /\ f \notin entry /\ Cardinality(opened) < MaxOpen
  /\ Max(Range(gen)) < MaxGen
  /\ disk' = After(disk, <<inode_sync(f, Empty)>>)
  /\ inode' = [inode EXCEPT ![f] = Empty]
  /\ fd_pos' = [fd_pos EXCEPT ![f] = 0]
  /\ opened' = opened \cup {f} /\ entry' = entry \cup {f}
  /\ gen' = [gen EXCEPT ![f] = Max(Range(gen)) + 1] /\ len' = [len EXCEPT ![f] = 0]
  /\ UNCHANGED <<bitmap, stops>>

\* file_open(): inode_open() reads the inode.
file_open(f) ==
  /\ f \in entry \ opened /\ Cardinality(opened) < MaxOpen
  /\ inode' = [inode EXCEPT ![f] = inode_open(f)]
  /\ fd_pos' = [fd_pos EXCEPT ![f] = 0]
  /\ opened' = opened \cup {f}
  /\ UNCHANGED <<disk, bitmap, entry, gen, len, stops>>

\* file_close(): inode_close() frees the inode in memory.
file_close(f) ==
  /\ f \in opened
  /\ inode' = [inode EXCEPT ![f] = Empty]
  /\ fd_pos' = [fd_pos EXCEPT ![f] = 0]
  /\ opened' = opened \ {f}
  /\ UNCHANGED <<disk, bitmap, entry, gen, len, stops>>

\* The machine stops, for want of power or in a failed ASSERT, with d on the
\* disk; mount_partition() reads the bitmap.
Stop(d) ==
  /\ stops < MaxStop
  /\ disk' = d
  /\ bitmap' = d.bitmap
  /\ inode' = [f \in File |-> Empty]
  /\ fd_pos' = [f \in File |-> 0]
  /\ opened' = {}
  /\ stops' = stops + 1
  /\ UNCHANGED gen

\* sys_write() to a file; one that would make it too long is refused.
sys_write(f, count) ==
  /\ f \in opened
  /\ inode[f].size + count <= BlockSize * AllBlocks
  /\ LET w == file_write(f, count) IN
     IF w.panic THEN Stop(After(disk, w.writes)) /\ UNCHANGED <<entry, len>>
     ELSE /\ disk' = After(disk, w.writes)
          /\ bitmap' = w.bitmap
          /\ inode' = [inode EXCEPT ![f] = w.inode]
          /\ fd_pos' = [fd_pos EXCEPT ![f] = EndPos(inode[f].size, count)]
          /\ len' = [len EXCEPT ![f] = @ + count]
          /\ UNCHANGED <<opened, entry, gen, stops>>

\* sys_read() from a file.
sys_read(f, count) ==
  /\ f \in opened
  /\ LET r == file_read(f, count) IN
     IF r.panic THEN Stop(disk) /\ UNCHANGED <<entry, len>>
     ELSE /\ fd_pos' = [fd_pos EXCEPT ![f] = r.pos]
          /\ UNCHANGED <<disk, bitmap, inode, opened, entry, gen, len, stops>>

\* sys_lseek(): SEEK_CUR and SEEK_END both count from the end of the file.
sys_lseek(f, offset, whence) ==
  /\ f \in opened
  /\ LET new_pos == IF whence = "SEEK_SET" THEN offset ELSE inode[f].size + offset
     IN  /\ new_pos \in 0..inode[f].size - 1
         /\ fd_pos' = [fd_pos EXCEPT ![f] = new_pos]
  /\ UNCHANGED <<disk, bitmap, inode, opened, entry, gen, len, stops>>

\* sys_unlink() of a file that is not open: the entry goes, then the inode.
sys_unlink(f) ==
  /\ f \in entry \ opened
  /\ disk' = After(disk, inode_release(f).writes)
  /\ bitmap' = inode_release(f).bitmap
  /\ entry' = entry \ {f}
  /\ UNCHANGED <<inode, fd_pos, opened, gen, len, stops>>

\* The power fails: between calls, or after some of the writes of one.
PowerLoss == Stop(disk) /\ UNCHANGED <<entry, len>>

PowerLossInWrite(f, count) ==
  /\ f \in opened /\ stops < MaxStop
  /\ inode[f].size + count <= BlockSize * AllBlocks
  /\ LET w == file_write(f, count) IN
     /\ ~w.panic
     /\ \E i \in 1..Len(w.writes) - 1 : Stop(After(disk, SubSeq(w.writes, 1, i)))
  /\ UNCHANGED <<entry, len>>

PowerLossInUnlink(f) ==
  /\ f \in entry \ opened
  /\ LET w == inode_release(f).writes IN
     \E i \in 0..Len(w) - 1 : Stop(After(disk, SubSeq(w, 1, i)))
  /\ entry' = entry \ {f}
  /\ UNCHANGED len

FilesNext ==
  \/ \E f \in File :
       \/ file_create(f) \/ file_open(f) \/ file_close(f) \/ sys_unlink(f)
       \/ \E count \in 0..MaxCount :
            sys_write(f, count) \/ sys_read(f, count) \/ PowerLossInWrite(f, count)
       \/ \E offset \in -MaxCount..MaxCount, whence \in {"SEEK_SET", "SEEK_CUR", "SEEK_END"} :
            sys_lseek(f, offset, whence)
       \/ PowerLossInUnlink(f)
  \/ PowerLoss

FilesSpec == FilesInit /\ [][FilesNext]_files_vars

-----------------------------------------------------------------------------
Inode == [size : Nat, sectors : [0..Direct -> 0..NBlock - 1]]

\* The types of the file system's variables.
FilesTypeOK ==
  /\ disk.bitmap \subseteq Block /\ bitmap \subseteq Block
  /\ \A f \in File : disk.inodes[f] \in Inode /\ inode[f] \in Inode
  /\ fd_pos \in [File -> 0..Word - 1]
  /\ opened \subseteq entry /\ entry \subseteq File
  /\ stops \in 0..MaxStop

\* The file as it is on the disk.
Contents(f) ==
  LET ino == disk.inodes[f]
  IN  [o \in 0..ino.size - 1 |->
         disk.blocks[Address(disk, ino, o \div BlockSize)][o % BlockSize]]

\* Every byte that a write() which returned has written is on the disk, at its
\* place, whatever was written, released and written again in between, and
\* whenever the power failed; and read() returns just these bytes, as many
\* as asked for or left.  A write() the power interrupts leaves the file as it was.
ReadsBack ==
  /\ \A f \in entry : Contents(f) = [o \in 0..len[f] - 1 |-> Byte(f, o)]
  /\ \A f \in opened, count \in 0..MaxCount :
       LET r == file_read(f, count)
           n == IF len[f] - fd_pos[f] < count THEN len[f] - fd_pos[f] ELSE count
       IN  ~r.panic => r.bytes = [i \in 1..n |-> Byte(f, fd_pos[f] + i - 1)]

\* No block has two uses, all blocks in use are marked on the disk and in
\* memory, and the bitmaps agree; while the machine has not stopped, nothing
\* else is marked: no block is lost.
BlocksExact ==
  LET at(f, i) == Address(disk, disk.inodes[f], i)
      used == {at(f, i) : f \in entry, i \in Slot} \ {0}
  IN  /\ \A f, g \in entry : \A i, j \in Slot : at(f, i) = at(g, j) /\ at(f, i) # 0 => f = g /\ i = j
      /\ used \subseteq disk.bitmap /\ bitmap = disk.bitmap
      /\ stops = 0 => used = bitmap

\* No write() below the greatest size fails an ASSERT as long as the blocks it
\* takes are free, and no read() that ends before the last block does, unless
\* it follows a write() of nothing to an empty file, which leaves fd_pos at -1:
\* the addresses in the inode are those that the ASSERTs expect, after any
\* calls and any stop.
NoAssertWithinLimits ==
  \A f \in opened, count \in 0..MaxCount :
    LET first == IF len[f] = 0 /\ inode[f].sectors[0] = 0 THEN 1 ELSE 0
        more == (len[f] + count) \div BlockSize - len[f] \div BlockSize
        table == IF len[f] < Direct * BlockSize
                   /\ len[f] + count >= Direct * BlockSize THEN 1 ELSE 0
        last == IF fd_pos[f] + count < len[f] THEN fd_pos[f] + count ELSE len[f]
    IN  /\ len[f] + count < BlockSize * AllBlocks
             /\ first + more + table <= Len(FreeBlocks(bitmap)) => ~file_write(f, count).panic
        /\ fd_pos[f] # Word - 1 /\ last \div BlockSize < AllBlocks - 1 => ~file_read(f, count).panic

\* file.c:227: a file may grow to 512 * 140 = 71680 bytes.  So a write() that
\* takes it just there, in blocks it has or that are free, fails no ASSERT.
GrowsToMaximum ==
  \A f \in opened, count \in 0..MaxCount :
    inode[f].size + count = BlockSize * AllBlocks /\ Cardinality(Block \ bitmap) > AllBlocks
      => ~file_write(f, count).panic
=============================================================================
