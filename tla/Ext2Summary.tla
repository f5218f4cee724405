---------------------------- MODULE Ext2Summary ----------------------------
(***************************************************************************)
(* lab3a/lab3a.c: the rows that describe an ext2 image of one group, in    *)
(* the order in which they are printed.                                    *)
(* An image is a record: bfree and ifree are the bits that are 0 in the    *)
(* bitmaps, inode the table, content the block numbers in each block, and  *)
(* entries the directory entries in each block.  stack is what a buffer on *)
(* the stack holds before it is read into, and stale what is printed of a  *)
(* directory when nothing has been read: the one entry that dir_entry      *)
(* happens to hold, as often as it takes for its rec_len to fill a block.  *)
(* A rec_len of 0 there, which is printed for ever, and offsets from 2^32  *)
(* on, which wrap, are left out.                                           *)
(***************************************************************************)
EXTENDS Integers, Sequences

CONSTANTS
  NBlocks, NInodes,   \* s_blocks_count, s_inodes_count
  TableStart,         \* bg_inode_table
  InodesPerBlock,     \* block size / inode size
  NDirect,            \* the 12 direct pointers of an inode
  Pointers            \* the 256 block numbers in a block

\* The inode bitmap is printed up to the number of blocks: with fewer blocks than
\* inodes some free inodes would be left out.  mke2fs fills the inode table, and
\* the table is on the device.
ASSUME ImageAssumption ==
  /\ NInodes \in Nat \ {0} /\ NBlocks \in Nat /\ NInodes <= NBlocks
  /\ InodesPerBlock \in Nat \ {0} /\ NInodes % InodesPerBlock = 0
  /\ NDirect \in Nat \ {0} /\ Pointers \in Nat \ {0}
  /\ TableStart \in Nat /\ TableStart + NInodes \div InodesPerBlock <= NBlocks

Inodes == 1 .. NInodes
Blocks == 0 .. NBlocks - 1

\* The rows f[i] of all i up to n, one after the other.
RowsOf(f, n) ==
  LET rows[m \in 0 .. n] == IF m = 0 THEN <<>> ELSE rows[m - 1] \o f[m]
  IN  rows[n]

SuperRow == [row |-> "SUPERBLOCK", blocks |-> NBlocks, inodes |-> NInodes]
GroupRow == [row |-> "GROUP", inodes |-> NInodes, table |-> TableStart]

\* A bitmap is gone through bit by bit.
BitRows(kind, free) ==
  RowsOf([n \in 1 .. NBlocks |-> IF n \in free THEN <<[row |-> kind, num |-> n]>> ELSE <<>>], NBlocks)

FreeRows(img) == BitRows("BFREE", img.bfree) \o BitRows("IFREE", img.ifree)

-----------------------------------------------------------------------------
InUse(img, i) == img.inode[i].links # 0 /\ img.inode[i].mode # "none"

\* The types are tested bit by bit: a socket looks like a file and a block device
\* like a directory.
FileType(mode) ==
  CASE mode = "lnk" -> "s" [] mode \in {"reg", "sock"} -> "f"
    [] mode \in {"dir", "blk"} -> "d" [] OTHER -> "?"

\* The fifteen block numbers, which a short symbolic link does not have.
ListsBlocks(inode) ==
  FileType(inode.mode) \in {"f", "d"} \/ (FileType(inode.mode) = "s" /\ inode.size >= 60)

InodeRow(img, i) ==
  LET inode == img.inode[i]
  IN  [row |-> "INODE", num |-> i, type |-> FileType(inode.mode), links |-> inode.links,
       size |-> inode.size, block |-> IF ListsBlocks(inode) THEN inode.block ELSE <<>>]

\* pread() of the first block of a directory, entry by entry.  Only a result of -1
\* is looked at: past the end of the device, where it is 0, dir_entry stays what it
\* was.
ReadEntries(img, i) ==
  LET b == img.inode[i].block[1] IN IF b \in Blocks THEN img.entries[b] ELSE img.stale[i]

\* The entries of a directory, up to one with inode 0.
DirentRows(img, i) ==
  LET entries == ReadEntries(img, i)
      end == {n \in DOMAIN entries : entries[n].inode = 0}
      shown == {n \in DOMAIN entries : \A m \in end : n < m}
  IN  IF FileType(img.inode[i].mode) # "d" THEN <<>>
      ELSE [n \in shown |-> [row |-> "DIRENT", dir |-> i, num |-> entries[n].inode,
                             name |-> entries[n].name]]

\* pread() of a block of numbers.  Its result is not looked at: past the end of
\* the device the buffer stays what it was.
ReadPointers(img, b) == IF b \in Blocks THEN img.content[b] ELSE img.stack

\* Mutant: what is below a triple indirect block is numbered from its own start.
LogicalOffsetFromStart(level, orig_level, i) ==
  LET P == Pointers
  IN  CASE level = 3 -> NDirect + P + P * P + P * P * i
        [] level = 2 -> NDirect + P + P * i
        [] level = 1 /\ orig_level = 3 -> NDirect + P + i
        [] level = 1 /\ orig_level = 2 -> NDirect + P + i
        [] level = 1 /\ orig_level = 1 -> NDirect + i

\* The logical offset printed for pointer i, from 0, of a block of the given
\* level, below a pointer of the inode of level orig_level.
LogicalOffset(level, orig_level, i) ==
  LET P == Pointers
  IN  CASE level = 3 -> NDirect + P + P * P + P * P * i
        [] level = 2 -> NDirect + P + P * i + (IF orig_level = 3 THEN P * P ELSE 0)
        [] level = 1 /\ orig_level = 3 -> NDirect + P + P * P + i
        [] level = 1 /\ orig_level = 2 -> NDirect + P + i
        [] level = 1 /\ orig_level = 1 -> NDirect + i

IndirectRow(img, i, level, orig_level, b, n) ==
  [row |-> "INDIRECT", num |-> i, level |-> level, inblock |-> b,
   offset |-> LogicalOffset(level, orig_level, n - 1), block |-> ReadPointers(img, b)[n]]

\* The loop of recurse_inode() over block b; deeper has what it calls itself for.
BlockRows(img, i, level, orig_level, b, deeper) ==
  RowsOf([n \in 1 .. Pointers |->
    LET p == ReadPointers(img, b)[n]
    IN  IF p = 0 THEN <<>> ELSE <<IndirectRow(img, i, level, orig_level, b, n)>> \o deeper[p]], Pointers)

\* recurse_inode() at a level and a block, below a pointer of level orig_level.
RecurseInode(img, i, orig_level) ==
  LET below[level \in 0 .. 3] ==
        IF level = 0 THEN [b \in Int |-> <<>>]
        ELSE [b \in Int |-> BlockRows(img, i, level, orig_level, b, below[level - 1])]
  IN  below

\* The pointer of inode i of a level, which is followed whatever the inode is.
IndirectRows(img, i, level) ==
  LET top == img.inode[i].block[NDirect + level]
  IN  IF top = 0 THEN <<>> ELSE RecurseInode(img, i, level)[level][top]

InodeRows(img, i) ==
  IF ~InUse(img, i) THEN <<>>
  ELSE <<InodeRow(img, i)>> \o DirentRows(img, i)
       \o RowsOf([level \in 1 .. 3 |-> IndirectRows(img, i, level)], 3)

AllInodeRows(img) == RowsOf([i \in Inodes |-> InodeRows(img, i)], NInodes)
=============================================================================
