---------------------------- MODULE Directories ----------------------------
(***************************************************************************)
(* Directories on the disk: the calls of fs/fs.c on paths, the entries and *)
(* blocks of directories of fs/dir.c, the bitmaps and inodes they use, the *)
(* formatting and mounting of a partition, and the order of all the writes *)
(* to the disk, which may lose power after any of them.                    *)
(*                                                                         *)
(* One task at a time is in the file system: the disk is locked from the   *)
(* first access of a call to its last.  Files have no blocks here (see     *)
(* FileBlocks) and a created file is closed at once (see FileTable).       *)
(* Paths hold no "." and "..": the shell removes them.  Bytes are not      *)
(* modelled, but entries, of which a block has EntryCount, and addresses,  *)
(* of which an indirect table has TableSize; i_size counts entries.        *)
(*                                                                         *)
(* The model follows the file system until one of three things has it go   *)
(* astray, in which case files or directories are damaged:                 *)
(*   table  an entry is added to a directory with an indirect table, which *)
(*          sync_dir_entry() does not read but replaces by a new one;      *)
(*   stale  inode_open() finds the inode of a removed directory, which     *)
(*          sys_open() of a file in it has left in open_inodes for ever;   *)
(*   crash  the disk does not fit together after the machine stopped.      *)
(***************************************************************************)
EXTENDS Integers, Sequences, SequencesExt

CONSTANTS
  Name,         \* names of files and directories in the paths of calls
  Installed,    \* the files that may be in the root from the beginning
  MaxPath,      \* bound: names of a path
  EntryCount,   \* entries of a block (21 in the code)
  Direct,       \* direct blocks of an inode (12 in the code)
  TableSize,    \* addresses of an indirect table (128 in the code)
  NBlock,       \* blocks of the partition; block 1 is the root's
  NInode,       \* inodes of the partition; inode 0 is the root's
  MaxDir,       \* bound: directories but the root
  MaxLeak,      \* bound: directories whose inode stays open
  MaxStop,      \* bound: how often the machine stops
  MaxLate       \* bound: calls that change the disk after it has stopped

ASSUME DirectoriesAssumption ==
  /\ \A files \in Installed : files \in Seq(STRING) /\ Len(files) <= EntryCount * Direct - 2
  /\ MaxPath \in Nat \ {0} /\ EntryCount \in Nat /\ EntryCount >= 2
  /\ Direct \in Nat \ {0} /\ TableSize \in Nat \ {0}
  /\ NBlock \in Nat \ {0} /\ NInode \in Nat \ {0}
  /\ MaxDir \in Nat /\ MaxLeak \in Nat /\ MaxStop \in Nat /\ MaxLate \in Nat

VARIABLES
  disk,           \* magic number, bitmaps, inodes, entries and tables in blocks
  up,             \* whether the machine runs and the partition is mounted
  block_bitmap,   \* cur_part->block_bitmap
  inode_bitmap,   \* cur_part->inode_bitmap
  leaked,         \* directories whose inode in memory is never closed
  stale,          \* numbers of removed directories of this kind
  astray,         \* "no", or what the model does not follow
  stops,          \* number of stops
  late,           \* number of calls since then that changed the disk
  tree,           \* history: the files and directories on the disk, for Tree
  call            \* history: the last call, for Tree

directories_vars == <<disk, up, block_bitmap, inode_bitmap, leaked, stale, astray, stops, late, tree, call>>

-----------------------------------------------------------------------------
Block == 1..NBlock
Inode == 0..NInode - 1
Index == 0..Direct + TableSize - 1

FreeEntry == [name |-> "", i_no |-> 0, f_type |-> "unknown"]
Entry(name, i_no, f_type) == [name |-> name, i_no |-> i_no, f_type |-> f_type]
NewBlock(entries) ==
  [j \in 0..EntryCount - 1 |-> IF j < Len(entries) THEN entries[j + 1] ELSE FreeEntry]
Dots(self, parent) == NewBlock(<<Entry(".", self, "dir"), Entry("..", parent, "dir")>>)

\* i_sectors[Direct] is the address of the indirect table; 0 is no block.
Empty == [size |-> 0, sectors |-> [i \in 0..Direct |-> 0]]
NewDir(b) == [size |-> 2, sectors |-> [i \in 0..Direct |-> IF i = 0 THEN b ELSE 0]]

\* A write to the disk, and what a sequence of them leaves.
Write(part, at, val) == [part |-> part, at |-> at, val |-> val]
Apply(d, w) ==
  CASE w.part = "magic"        -> [d EXCEPT !.magic = w.val]
    [] w.part = "block_bitmap" -> [d EXCEPT !.block_bitmap = w.val]
    [] w.part = "inode_bitmap" -> [d EXCEPT !.inode_bitmap = w.val]
    [] w.part = "inode"        -> [d EXCEPT !.inodes[w.at] = w.val]
    [] w.part = "inodes"       -> [d EXCEPT !.inodes = w.val]
    [] w.part = "entries"      -> [d EXCEPT !.entries[w.at] = w.val]
    [] w.part = "table"        -> [d EXCEPT !.tables[w.at] = w.val]
After(d, writes) == FoldLeft(Apply, d, writes)

sync_blocks(bits) == Write("block_bitmap", 0, bits)
sync_inodes(bits) == Write("inode_bitmap", 0, bits)
inode_sync(no, ino) == Write("inode", no, ino)

\* The lowest of the numbers, as bitmap_scan() finds it; 0 if there is none.
Lowest(S) == IF S = {} THEN 0 ELSE CHOOSE n \in S : \A m \in S : n <= m

-----------------------------------------------------------------------------
\* all_blocks[i]: a direct block, or one of the table if there is one.
BlockAt(d, ino, i) ==
  IF i < Direct THEN ino.sectors[i]
  ELSE IF ino.sectors[Direct] # 0 THEN d.tables[ino.sectors[Direct]][i - Direct] ELSE 0

\* Entries are found by their block and their place in it, in this order.
Slot == Index \X (0..EntryCount - 1)
EntryAt(d, ino, s) ==
  LET b == BlockAt(d, ino, s[1]) IN IF b = 0 THEN FreeEntry ELSE d.entries[b][s[2]]
Before(s, t) == s[1] < t[1] \/ (s[1] = t[1] /\ s[2] < t[2])
FirstSlot(S) == CHOOSE s \in S : \A t \in S : s = t \/ Before(s, t)
UsedSlots(d, ino) == {s \in Slot : EntryAt(d, ino, s).f_type # "unknown"}
IsDot(e) == e.name \in {".", ".."}

\* Mutant: the blocks of the indirect table are not searched.
SlotsOfDirect(d, ino, name) == {s \in Slot : s[1] < Direct /\ EntryAt(d, ino, s).name = name}

\* search_dir_entry(): the entry of that name, if there is one.
SlotsOf(d, ino, name) == {s \in Slot : EntryAt(d, ino, s).name = name}
search_dir_entry(d, ino, name) ==
  LET found == SlotsOf(d, ino, name)
  IN  IF found = {} THEN FreeEntry ELSE EntryAt(d, ino, FirstSlot(found))

\* search_file(): from the root, name by name, to a directory, a file, or a
\* name that is missing.  opens are the directories it opens on its way.
search_step(r, name) ==
  LET e == search_dir_entry(disk, disk.inodes[r.dir], name)
  IN  IF r.end THEN r
      ELSE IF e.f_type = "dir"
      THEN [r EXCEPT !.parent = r.dir, !.dir = e.i_no, !.no = e.i_no, !.depth = @ + 1,
                     !.opens = @ \cup {e.i_no}]
      ELSE [r EXCEPT !.parent = r.dir, !.no = IF e = FreeEntry THEN -1 ELSE e.i_no,
                     !.depth = @ + 1, !.end = TRUE,
                     !.f_type = IF e = FreeEntry THEN "unknown" ELSE "file"]
search_file(path) ==
  FoldLeft(search_step, [parent |-> 0, dir |-> 0, no |-> 0, f_type |-> "dir", depth |-> 0,
                         end |-> FALSE, opens |-> {}], path)

-----------------------------------------------------------------------------
\* What a function has done so far: the bitmaps in memory, the writes, and
\* whether the machine stopped.  Without a free bit, bitmap_scan() stops it.
Begin == [blocks |-> block_bitmap, inodes |-> inode_bitmap, writes |-> <<>>, stop |-> FALSE]
Writes(r, ws) == IF r.stop THEN r ELSE [r EXCEPT !.writes = @ \o ws]
Stops(r) == [r EXCEPT !.stop = TRUE]
FreeBlock(r) == Lowest(Block \ r.blocks)
FreeInode(r) == Lowest(Inode \ r.inodes)

\* block_bitmap_alloc() and bitmap_sync().
TakeBlock(r) ==
  IF r.stop \/ Block \subseteq r.blocks THEN Stops(r)
  ELSE LET bits == r.blocks \cup {FreeBlock(r)}
       IN  Writes([r EXCEPT !.blocks = bits], <<sync_blocks(bits)>>)

\* bitmap_set() and bitmap_sync().
DropBlock(r, b) ==
  Writes([r EXCEPT !.blocks = @ \ {b}], <<sync_blocks(r.blocks \ {b})>>)

\* inode_bitmap_alloc(); the bitmap is written when the inode has been.
TakeInode(r) ==
  IF Inode \subseteq r.inodes THEN Stops(r) ELSE [r EXCEPT !.inodes = @ \cup {FreeInode(r)}]

-----------------------------------------------------------------------------
\* sync_dir_entry(): the entry goes to the first direct block that has room or
\* is missing.  If there is none, it gets a new block in a new table: the
\* blocks of a table there already is are not looked at.
Room(d, ino) == {i \in 0..Direct - 1 : ino.sectors[i] = 0 \/
                   \E j \in 0..EntryCount - 1 : d.entries[ino.sectors[i]][j] = FreeEntry}

AddToBlock(r, ino, i, e) ==
  LET b == ino.sectors[i]
      j == Lowest({k \in 0..EntryCount - 1 : disk.entries[b][k] = FreeEntry})
  IN  [run |-> Writes(r, <<Write("entries", b, [disk.entries[b] EXCEPT ![j] = e])>>),
       inode |-> [ino EXCEPT !.size = @ + 1]]

AddDirectBlock(r, ino, i, e) ==
  [run |-> Writes(TakeBlock(r), <<Write("entries", FreeBlock(r), NewBlock(<<e>>))>>),
   inode |-> [ino EXCEPT !.size = @ + 1, !.sectors[i] = FreeBlock(r)]]

AddTable(r, ino, e) ==
  LET r1 == TakeBlock(r)
      table == [k \in 0..TableSize - 1 |-> IF k = 0 THEN FreeBlock(r1) ELSE 0]
  IN  [run |-> Writes(TakeBlock(r1), <<Write("table", FreeBlock(r), table),
                                       Write("entries", FreeBlock(r1), NewBlock(<<e>>))>>),
       inode |-> [ino EXCEPT !.size = @ + 1, !.sectors[Direct] = FreeBlock(r)]]

sync_dir_entry(r, ino, e) ==
  LET i == Lowest(Room(disk, ino))
  IN  IF Room(disk, ino) = {} THEN AddTable(r, ino, e)
      ELSE IF ino.sectors[i] = 0 THEN AddDirectBlock(r, ino, i, e)
      ELSE AddToBlock(r, ino, i, e)

IsNamed(ino, s) == EntryAt(disk, ino, s) # FreeEntry /\ ~IsDot(EntryAt(disk, ino, s))

\* Mutant: the entry is never taken to be the last of its block.
IsAloneNever(ino, i, found) == FALSE

\* delete_dir_entry(): the entry with that inode number is cleared, or its
\* block freed if it is alone in it and the block is not the first.  In a block
\* of the table, the count of the blocks of the table never ends.
IsAlone(ino, i, found) == \A s \in Slot : s[1] = i /\ IsNamed(ino, s) => s \in found

delete_dir_entry(r, no, inode_no) ==
  LET ino == disk.inodes[no]
      found == {s \in Slot : IsNamed(ino, s) /\ EntryAt(disk, ino, s).i_no = inode_no}
      i == FirstSlot(found)[1]
      b == BlockAt(disk, ino, i)
      is_dir_first_block == \E j \in 0..EntryCount - 1 : disk.entries[b][j].name = "."
      less == [ino EXCEPT !.size = @ - 1]
  IN  IF found = {} THEN r
      ELSE IF \E s, t \in found : s[1] = i /\ t[1] = i /\ s # t THEN Stops(r)
      ELSE IF ~IsAlone(ino, i, found) \/ is_dir_first_block
      THEN Writes(r, <<Write("entries", b, [disk.entries[b] EXCEPT ![FirstSlot(found)[2]] = FreeEntry]),
                       inode_sync(no, less)>>)
      ELSE IF i < Direct
      THEN Writes(DropBlock(r, b), <<inode_sync(no, [less EXCEPT !.sectors[i] = 0])>>)
      ELSE Stops(DropBlock(r, b))

\* Mutant: the first block and the table are kept.
BlocksToReleaseButFirst(ino) ==
  SelectSeq([i \in 1..Direct + TableSize - 1 |-> BlockAt(disk, ino, i)], LAMBDA b : b # 0)

\* inode_release(): the table, then the blocks, then the inode.
BlocksToRelease(ino) ==
  LET all_blocks == [i \in 1..Direct + TableSize |-> BlockAt(disk, ino, i - 1)]
  IN  SelectSeq(<<ino.sectors[Direct]>> \o all_blocks, LAMBDA b : b # 0)

inode_release(r, no) ==
  LET r1 == FoldLeft(DropBlock, r, BlocksToRelease(disk.inodes[no]))
      bits == r.inodes \ {no}
  IN  Writes([r1 EXCEPT !.inodes = bits], <<sync_inodes(bits), inode_sync(no, Empty)>>)

\* Mutant: the inode first, then the entry.
RemovalInodeFirst(parent, no) == delete_dir_entry(inode_release(Begin, no), parent, no)

\* The last steps of sys_unlink() and dir_remove(): the entry, then the inode.
Removal(parent, no) == inode_release(delete_dir_entry(Begin, parent, no), no)

-----------------------------------------------------------------------------
\* The result of a call: how it ends, with what it did, and the inodes that it
\* opens, that it never closes and that it removes.
Fails(run, opens) == [run |-> run, end |-> "no", opens |-> opens, leaks |-> {}, removes |-> {}]
Done(run, opens) == [Fails(run, opens) EXCEPT !.end = "yes"]

\* file_create() by sys_open(), and file_close().
creat(path) ==
  LET found == search_file(path)
      parent == disk.inodes[found.parent]
      r == TakeInode(Begin)
      no == FreeInode(Begin)
      add == sync_dir_entry(r, parent, Entry(Last(path), no, "file"))
  IN  IF found.no # -1 \/ found.depth # Len(path) THEN Fails(Begin, found.opens)
      ELSE IF r.stop THEN Done(r, found.opens)
      ELSE Done(Writes(add.run, <<inode_sync(found.parent, add.inode), inode_sync(no, Empty),
                                  sync_inodes(r.inodes)>>), found.opens)

\* file_open() by sys_open(), and file_close(): the directory of the file, if
\* it is not the root, stays open.
open(path) ==
  LET found == search_file(path)
  IN  IF found.f_type # "file" \/ found.depth # Len(path) THEN Fails(Begin, found.opens)
      ELSE [Done(Begin, found.opens \cup {found.no}) EXCEPT !.leaks = {found.parent} \ {0}]

\* sys_unlink() of a file that is not open; the depth of the path is not checked.
unlink(path) ==
  LET found == search_file(path)
  IN  IF found.no = 0 THEN Done(Stops(Begin), {})
      ELSE IF found.no = -1 \/ found.f_type = "dir" THEN Fails(Begin, found.opens)
      ELSE Done(Removal(found.parent, found.no), found.opens \cup {found.no})

\* sys_mkdir()
mkdir(path) ==
  LET found == search_file(path)
      parent == disk.inodes[found.parent]
      no == FreeInode(Begin)
      r == TakeBlock(TakeInode(Begin))
      b == FreeBlock(Begin)
      r1 == Writes(r, <<Write("entries", b, Dots(no, found.parent))>>)
      add == sync_dir_entry(r1, parent, Entry(Last(path), no, "dir"))
  IN  IF found.no # -1 \/ found.depth # Len(path) THEN Fails(Begin, found.opens)
      ELSE IF r.stop THEN Done(r, found.opens)
      ELSE Done(Writes(add.run, <<inode_sync(found.parent, add.inode), inode_sync(no, NewDir(b)),
                                  sync_inodes(r.inodes)>>), found.opens)

\* sys_rmdir(): dir_is_empty() looks at the size, dir_remove() asserts that
\* there is one block.
rmdir(path) ==
  LET found == search_file(path)
      ino == disk.inodes[found.no]
  IN  IF found.no = 0 THEN Done(Stops(Begin), {})
      ELSE IF found.no = -1 \/ found.f_type = "file" THEN Fails(Begin, found.opens)
      ELSE IF ino.size # 2 THEN Fails(Begin, found.opens)
      ELSE IF \E i \in 1..Direct : ino.sectors[i] # 0 THEN Done(Stops(Begin), found.opens)
      ELSE [Done(Removal(found.parent, found.no), found.opens) EXCEPT !.removes = {found.no}]

\* sys_opendir(), sys_readdir() to the end and sys_closedir(); also sys_chdir().
opendir(path) ==
  LET found == search_file(path)
  IN  IF found.f_type = "dir" THEN Done(Begin, found.opens) ELSE Fails(Begin, found.opens)

\* sys_stat(); the depth of the path is not checked.
stat(path) ==
  LET found == search_file(path)
  IN  IF found.no = -1 THEN Fails(Begin, found.opens)
      ELSE Done(Begin, found.opens \cup {found.no})

-----------------------------------------------------------------------------
\* Mutant: free entries are counted as well.
dir_read_counting_free(d, ino, pos) ==
  LET at == {s \in UsedSlots(d, ino) : Cardinality({t \in Slot : Before(t, s)}) = pos}
  IN  IF pos >= ino.size \/ at = {} THEN FreeEntry ELSE EntryAt(d, ino, FirstSlot(at))

\* dir_read() at position pos: the entry with so many before it, if any.
dir_read(d, ino, pos) ==
  LET at == {s \in UsedSlots(d, ino) : Cardinality({t \in UsedSlots(d, ino) : Before(t, s)}) = pos}
  IN  IF pos >= ino.size \/ at = {} THEN FreeEntry ELSE EntryAt(d, ino, FirstSlot(at))

\* sys_getcwd() for a directory: up from it by "..", the second entry, to the
\* root, with the name of the first entry that has its number at each step.
getcwd_step(r, i) ==
  LET parent == EntryAt(disk, disk.inodes[r.no], <<0, 1>>).i_no
      ino == disk.inodes[parent]
      found == {s \in Slot : BlockAt(disk, ino, s[1]) # 0 /\ EntryAt(disk, ino, s).i_no = r.no}
  IN  IF r.no = 0 THEN r
      ELSE [no |-> parent, path |-> <<EntryAt(disk, ino, FirstSlot(found)).name>> \o r.path]
sys_getcwd(no) ==
  FoldLeft(getcwd_step, [no |-> no, path |-> <<>>], [i \in 1..MaxPath |-> i]).path

\* make_clear_abs_path() of the shell: a relative path goes after that of the
\* working directory, and wash_path() leaves out "." and takes back a name at "..".
wash_step(path, name) ==
  IF name = ".." THEN IF path = <<>> THEN path ELSE Front(path)
  ELSE IF name = "." THEN path ELSE Append(path, name)
make_clear_abs_path(no, words) == FoldLeft(wash_step, <<>>, sys_getcwd(no) \o words)

-----------------------------------------------------------------------------
\* The files and directories on a disk: their paths, inodes and kinds.
Node(path, no, f_type) == [path |-> path, no |-> no, f_type |-> f_type]
DirEntries(d, no) == {EntryAt(d, d.inodes[no], s) : s \in UsedSlots(d, d.inodes[no])}
Children(d, x) ==
  {Node(Append(x.path, e.name), e.i_no, e.f_type) : e \in {e \in DirEntries(d, x.no) : ~IsDot(e)}}
Nodes(d) ==
  FoldLeft(LAMBDA S, i : S \cup UNION {Children(d, x) : x \in {x \in S : x.f_type = "dir"}},
           {Node(<<>>, 0, "dir")}, [i \in 1..MaxPath |-> i])
DirNodes(d) == {x \in Nodes(d) : x.f_type = "dir"}
TreeOf(d) ==
  LET nodes == Nodes(d)
      paths(f_type) == {x.path : x \in {x \in nodes : x.f_type = f_type}}
  IN  [files |-> paths("file"), dirs |-> paths("dir") \ {<<>>}]

\* The blocks of a directory, with the place of each: its index, or Direct +
\* TableSize for the table.
BlockUses(d, x) ==
  LET ino == d.inodes[x.no]
      at(i) == IF i \in Index THEN BlockAt(d, ino, i) ELSE ino.sectors[Direct]
  IN  {<<x.no, i, at(i)>> : i \in {i \in 0..Direct + TableSize : at(i) # 0}}
Uses(d) == UNION {BlockUses(d, x) : x \in DirNodes(d)}

\* A directory is whole: its first entries are "." and "..", and its size is
\* the number of its entries.
WholeDir(d, x) ==
  LET ino == d.inodes[x.no]
  IN  /\ ino.sectors[0] # 0
      /\ EntryAt(d, ino, <<0, 0>>) = Entry(".", x.no, "dir")
      /\ IF x.path = <<>> THEN EntryAt(d, ino, <<0, 1>>) = Entry("..", 0, "dir")
         ELSE \E y \in DirNodes(d) : /\ y.path = Front(x.path)
                                     /\ EntryAt(d, ino, <<0, 1>>) = Entry("..", y.no, "dir")
      /\ ino.size = Cardinality(UsedSlots(d, ino))

\* The disk fits together: directories are whole, inodes and blocks that are
\* in use are marked and have one use.
Whole(d) ==
  LET nodes == Nodes(d)
      uses == Uses(d)
  IN  /\ \A x \in DirNodes(d) : WholeDir(d, x)
      /\ \A x, y \in nodes : x.no = y.no => x = y
      /\ \A u, v \in uses : u[3] = v[3] => u = v
      /\ {x.no : x \in nodes} \subseteq d.inode_bitmap
      /\ {u[3] : u \in uses} \subseteq d.block_bitmap

-----------------------------------------------------------------------------
Abstract == INSTANCE Tree WITH MaxDepth <- MaxPath, tree <- tree, call <- call
Path == Abstract!Path
Op == Abstract!Op

Blank == [magic |-> FALSE, block_bitmap |-> {}, inode_bitmap |-> {},
          inodes |-> [n \in Inode |-> Empty],
          entries |-> [b \in Block |-> NewBlock(<<>>)],
          tables |-> [b \in Block |-> [k \in 0..TableSize - 1 |-> 0]]]

\* partition_format(): the super block, the bitmaps, the inodes, the root.
partition_format ==
  <<Write("magic", 0, TRUE), sync_blocks({1}), sync_inodes({0}),
    Write("inodes", 0, [n \in Inode |-> IF n = 0 THEN NewDir(1) ELSE Empty]),
    Write("entries", 1, Dots(0, 0))>>

\* A partition with these files in the root: as many as fit in its direct blocks.
Installation(files) ==
  LET n == Len(files) + 2
      entry(k) == IF k = 0 THEN Entry(".", 0, "dir") ELSE IF k = 1 THEN Entry("..", 0, "dir")
                  ELSE IF k < n THEN Entry(files[k - 1], k - 1, "file") ELSE FreeEntry
      blocks == 1..(n - 1) \div EntryCount + 1
      root == [size |-> n, sectors |-> [i \in 0..Direct |-> IF i + 1 \in blocks THEN i + 1 ELSE 0]]
  IN  [After(Blank, partition_format) EXCEPT
         !.block_bitmap = blocks, !.inode_bitmap = 0..n - 2, !.inodes[0] = root,
         !.entries = [b \in Block |->
            [j \in 0..EntryCount - 1 |-> entry(EntryCount * (b - 1) + j)]]]

DirectoriesInit ==
  /\ disk \in {Blank} \cup {Installation(files) : files \in Installed} /\ up = FALSE
  /\ block_bitmap = {} /\ inode_bitmap = {}
  /\ leaked = {} /\ stale = {}
  /\ astray = "no" /\ stops = 0 /\ late = 0
  /\ tree = TreeOf(disk) /\ call = Abstract!Called("boot", <<>>, "stop")

\* filesys_init(): a partition without the magic number is formatted, then it
\* is mounted.
filesys_init ==
  /\ ~up
  /\ LET d == IF disk.magic THEN disk ELSE After(disk, partition_format)
     IN  /\ disk' = d
         /\ block_bitmap' = d.block_bitmap /\ inode_bitmap' = d.inode_bitmap
         /\ astray' = IF astray = "no" /\ ~Whole(d) THEN "crash" ELSE astray
  /\ up' = TRUE
  /\ tree' = TreeOf(disk') /\ call' = Abstract!Called("boot", <<>>, "yes")
  /\ UNCHANGED <<leaked, stale, stops, late>>

Outcome(op, path) ==
  CASE op = "creat"   -> creat(path)
    [] op = "open"    -> open(path)
    [] op = "unlink"  -> unlink(path)
    [] op = "mkdir"   -> mkdir(path)
    [] op = "rmdir"   -> rmdir(path)
    [] op = "opendir" -> opendir(path)
    [] op = "stat"    -> stat(path)

\* Whether a call replaces a table that is in use.
LosesTable(d, e) ==
  \E n \in Inode : d.inodes[n].sectors[Direct] # 0
                    /\ e.inodes[n].sectors[Direct] \notin {0, d.inodes[n].sectors[Direct]}

LeadsAstray(opens, d) ==
  IF opens \cap stale # {} THEN "stale" ELSE IF LosesTable(disk, d) THEN "table" ELSE "no"

Running == up /\ astray = "no"

\* A call that returns.
Returns(op, path, c) ==
  /\ ~c.run.stop
  /\ Cardinality(leaked \cup stale \cup c.leaks) <= MaxLeak
  /\ disk' = After(disk, c.run.writes)
  /\ block_bitmap' = c.run.blocks /\ inode_bitmap' = c.run.inodes
  /\ leaked' = (leaked \cup c.leaks) \ c.removes
  /\ stale' = stale \cup (leaked \cap c.removes)
  /\ astray' = LeadsAstray(c.opens, disk')
  /\ late' = IF stops > 0 /\ c.run.writes # <<>> THEN late + 1 ELSE late
  /\ late' <= MaxLate
  /\ tree' = (IF disk' = disk THEN tree ELSE TreeOf(disk'))
  /\ call' = Abstract!Called(op, path, c.end)
  /\ UNCHANGED <<up, stops>>

\* The machine stops in a call that opened the inodes opens, with d on the disk.
Stop(opens, d) ==
  /\ stops < MaxStop
  /\ astray' = LeadsAstray(opens, d)
  /\ disk' = d
  /\ up' = FALSE
  /\ block_bitmap' = {} /\ inode_bitmap' = {}
  /\ leaked' = {} /\ stale' = {}
  /\ stops' = stops + 1
  /\ tree' = TreeOf(d)
  /\ UNCHANGED late

\* A failed ASSERT, or a loop without end, stops the machine.
Panics(op, path, c) ==
  /\ c.run.stop
  /\ Stop(c.opens, After(disk, c.run.writes))
  /\ call' = Abstract!Called(op, path, "stop")

\* The power fails: in a call, in the formatting, or between calls.
PowerLossIn(op, path, c) ==
  /\ \E i \in 1..Len(c.run.writes) - 1 : Stop(c.opens, After(disk, SubSeq(c.run.writes, 1, i)))
  /\ call' = Abstract!Called(op, path, "stop")

CallOf(op, path) ==
  /\ Running
  /\ op = "mkdir" => Cardinality(tree.dirs) < MaxDir
  /\ \E c \in {Outcome(op, path)} :
       Returns(op, path, c) \/ Panics(op, path, c) \/ PowerLossIn(op, path, c)

PowerLossInFormat ==
  /\ ~up /\ ~disk.magic
  /\ \E i \in 1..Len(partition_format) - 1 : Stop({}, After(disk, SubSeq(partition_format, 1, i)))
  /\ call' = Abstract!Called("boot", <<>>, "stop")

PowerLoss ==
  /\ Running
  /\ Stop({}, disk)
  /\ call' = Abstract!Called("boot", <<>>, "stop")

DirectoriesNext ==
  \/ filesys_init \/ PowerLossInFormat \/ PowerLoss
  \/ \E op \in Op, path \in Path : CallOf(op, path)

DirectoriesSpec == DirectoriesInit /\ [][DirectoriesNext]_directories_vars

-----------------------------------------------------------------------------
\* The types of the variables.
DirectoriesTypeOK ==
  /\ disk.magic \in BOOLEAN /\ up \in BOOLEAN
  /\ disk.block_bitmap \subseteq Block /\ disk.inode_bitmap \subseteq Inode
  /\ disk.inodes \in [Inode -> [size : Nat, sectors : [0..Direct -> {0} \cup Block]]]
  /\ block_bitmap \subseteq Block /\ inode_bitmap \subseteq Inode
  /\ leaked \subseteq Inode /\ stale \subseteq Inode
  /\ astray \in {"no", "table", "stale", "crash"} /\ stops \in 0..MaxStop /\ late \in 0..MaxLate

\* Until the file system goes astray, the calls implement those of Tree: each
\* finds, adds and removes just the name it is given, in directories that grow
\* and shrink by direct blocks and up to the first block of an indirect table,
\* and one in which the machine stops has been made or has not.  Of the step
\* with which it goes astray nothing is said.
ImplementsTree ==
  /\ Abstract!Init
  /\ [][\/ astray' # "no"
        \/ IF call'.op = "boot" THEN Abstract!Rest(call'.end)
           ELSE Abstract!Step(call'.op, call'.path)]_directories_vars

\* dir.c:145: a directory, as any file, has "12 direct blocks + 128 indirect
\* blocks at most".  An entry that is added, also to a directory that has outgrown its
\* direct blocks, does not cost it others.
TableGrows ==
  [][call'.op \in {"creat", "mkdir"} /\ call'.end = "yes" =>
       tree.files \subseteq tree'.files /\ tree.dirs \subseteq tree'.dirs]_directories_vars

\* While the machine runs, the disk fits together and memory agrees with it;
\* as long as it has not stopped, nothing but what is in use is marked: no
\* inode and no block is lost.
LayoutExact ==
  Running =>
    /\ Whole(disk)
    /\ block_bitmap = disk.block_bitmap /\ inode_bitmap = disk.inode_bitmap
    /\ stops = 0 => /\ inode_bitmap = {x.no : x \in Nodes(disk)}
                    /\ block_bitmap = {u[3] : u \in Uses(disk)}

\* The directory to which the words lead by the entries on the disk, "." and ".."
\* included; -1 if there is none.
Walk(no, words) ==
  FoldLeft(LAMBDA n, name :
             IF n = -1 THEN -1
             ELSE LET e == search_dir_entry(disk, disk.inodes[n], name)
                  IN  IF e.f_type = "dir" THEN e.i_no ELSE -1,
           no, words)
Relative == UNION {[1..n -> Name \cup {".", ".."}] : n \in 0..MaxPath}

\* readdir() lists each entry of a directory once, getcwd() gives the path by
\* which a directory is found, and a relative path leads where the absolute
\* path does that the shell makes of it by its words alone.
LooksUp ==
  Running => \A x \in DirNodes(disk) :
    /\ {dir_read(disk, disk.inodes[x.no], pos) : pos \in 0..disk.inodes[x.no].size - 1}
         = DirEntries(disk, x.no)
    /\ sys_getcwd(x.no) = x.path
    /\ \A words \in Relative :
         \/ Walk(x.no, words) = -1
         \/ Walk(x.no, words) = search_file(make_clear_abs_path(x.no, words)).no

\* Where there are the inodes and blocks that a call may need, nothing is
\* removed while a directory has an indirect table, and the root is not to be
\* removed, no ASSERT of the call fires, in whatever order entries were added
\* and removed before: that an entry is found once in a block and that an empty
\* directory has one block included.
NoStopWithinLimits ==
  Running =>
    \A op \in Op, path \in Path :
      /\ op \in {"creat", "mkdir"} => ~(Inode \subseteq inode_bitmap)
      /\ op = "creat" => Cardinality(Block \ block_bitmap) >= 2
      /\ op = "mkdir" => Cardinality(Block \ block_bitmap) >= 3
      /\ op \in {"unlink", "rmdir"} =>
           path # <<>> /\ \A x \in DirNodes(disk) : disk.inodes[x.no].sectors[Direct] = 0
      => ~Outcome(op, path).run.stop

\* fs.c:566, said of sys_mkdir(): "returns -1 on failure".  A call for which
\* there is no inode or block fails; it does not stop the machine.
MkdirFails ==
  Running => \A path \in Path : ~mkdir(path).run.stop

\* When the machine stops, the damage is to one directory and one entry of it:
\* the others are whole, at most one inode in use is not marked, and at most
\* one block, of that directory.  Or the partition has not been formatted.
DamageConfined ==
  ~up /\ astray = "no" =>
    LET free == {x \in Nodes(disk) : x.no \notin disk.inode_bitmap}
        lost == {u \in Uses(disk) : u[3] \notin disk.block_bitmap}
    IN  \/ disk.inodes[0] = Empty \/ DirEntries(disk, 0) = {}
        \/ \E x \in DirNodes(disk) :
             /\ \A y \in DirNodes(disk) \ {x} :
                  WholeDir(disk, y) \/ (y \in free /\ y.path # <<>>)
             /\ Cardinality(free) <= 1 /\ \A y \in free : Front(y.path) = x.path
             /\ Cardinality(lost) <= 1 /\ \A u \in lost : u[1] = x.no
             /\ \A y, z \in Nodes(disk) : y.no = z.no => y = z
             /\ \A u, v \in Uses(disk) : u[3] = v[3] => u = v
=============================================================================
