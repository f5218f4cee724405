------------------------------- MODULE Audit -------------------------------
(***************************************************************************)
(* lab3b/lab3b.py: the rows of lab3a are read one by one into tables, with *)
(* some checks on the way, and the tables are checked when all have been   *)
(* read.  Numbers are kept as strings, and some comparisons depend on it.  *)
(* A report is a record of what it says but for the offsets.               *)
(***************************************************************************)
EXTENDS Ext2Summary, FiniteSets

CONSTANTS
  FirstInode,   \* the 11 of range(11, maxinodes)
  Images        \* the images under study

Running == -1
Root == 2

\* What an image can be: the numbers in it are arbitrary.
IsImage(image) ==
  /\ image.bfree \subseteq 1 .. NBlocks /\ image.ifree \subseteq Inodes
  /\ \A i \in Inodes : /\ image.inode[i].links \in Nat /\ image.inode[i].size \in Nat
                       /\ image.inode[i].block \in [1 .. NDirect + 3 -> Int]
  /\ image.content \in [Blocks -> [1 .. Pointers -> Int]] /\ image.stack \in [1 .. Pointers -> Int]
  /\ \A b \in Blocks : image.entries[b] \in Seq([inode : Nat, name : STRING])
  /\ \A i \in Inodes : /\ image.stale[i] \in Seq([inode : Nat, name : STRING])
                       /\ \A m, n \in DOMAIN image.stale[i] : image.stale[i][m] = image.stale[i][n]

ASSUME ImagesAssumption == FirstInode \in Nat \ {0} /\ \A image \in Images : IsImage(image)

VARIABLES
  img,         \* the image that lab3a has read
  order,       \* in which order its groups of rows are in the csv file
  rows,        \* what is in the csv file
  at,          \* the next row, then the next block of blocklist
  superblock,  \* has the SUPERBLOCK row been read
  total_group_inodes, first_legal_block,   \* of the GROUP row
  freeblocks, freeinodes,   \* of the BFREE and IFREE rows
  allocated_inodes,         \* of the INODE rows: number and link count
  direct_references,        \* of the DIRENT rows: their inodes
  blocklist,                \* each block number met, where, and how its level is kept
  reports, error_flag,      \* what has been printed, and what it means
  pc, exit

tableVars == <<superblock, total_group_inodes, first_legal_block, freeblocks,
               freeinodes, allocated_inodes, direct_references, blocklist>>
vars == <<img, order, rows, at, tableVars, reports, error_flag, pc, exit>>

\* The four groups of rows, and the place of each in the file.
Groups(image) == <<<<SuperRow>>, <<GroupRow>>, FreeRows(image), AllInodeRows(image)>>
SuperblockFirst == order[1] < order[2]
GroupFirst == order[2] < order[4]
FreeListsFirst == order[3] < order[4]

\* Unknown: not assigned yet.
Unknown == -1

Init ==
  /\ img \in Images
  /\ order \in {p \in [1 .. 4 -> 1 .. 4] : \A m, n \in 1 .. 4 : p[m] = p[n] => m = n}
  /\ rows = LET groups == Groups(img)
            IN  RowsOf([n \in 1 .. 4 |-> groups[CHOOSE m \in 1 .. 4 : order[m] = n]], 4)
  /\ at = 1
  /\ superblock = FALSE /\ total_group_inodes = Unknown /\ first_legal_block = 0
  /\ freeblocks = {} /\ freeinodes = {} /\ allocated_inodes = {}
  /\ direct_references = <<>> /\ blocklist = <<>>
  /\ reports = {} /\ error_flag = FALSE
  /\ pc = "rows" /\ exit = Running

-----------------------------------------------------------------------------
Says(what, num, inode) == [what |-> what, num |-> num, inode |-> inode]

\* A set of reports is printed, each of which is an error.
Report(S) == reports' = reports \cup S /\ error_flag' = (error_flag \/ S # {})

\* An exception ends the program after what has been printed.
Raise == exit' = 1 /\ UNCHANGED <<at, pc>>

Row == rows[at]
At(kind) == pc = "rows" /\ at <= Len(rows) /\ Row.row = kind
Goto(label) == pc' = label /\ at' = 1

ReadSuperblock ==
  /\ At("SUPERBLOCK")
  /\ superblock' = TRUE
  /\ at' = at + 1
  /\ UNCHANGED <<total_group_inodes, first_legal_block, freeblocks, freeinodes,
                 allocated_inodes, direct_references, blocklist, reports, error_flag, pc, exit>>

\* int(int(row[8]) + inode_table_size)
FirstLegalBlock(row) == row.table + row.inodes \div InodesPerBlock

\* Without a block size the size of the inode table is a division by zero.
ReadGroup ==
  /\ At("GROUP")
  /\ total_group_inodes' = Row.inodes
  /\ IF superblock
     THEN first_legal_block' = FirstLegalBlock(Row) /\ at' = at + 1 /\ UNCHANGED <<pc, exit>>
     ELSE Raise /\ UNCHANGED first_legal_block
  /\ UNCHANGED <<superblock, freeblocks, freeinodes, allocated_inodes, direct_references,
                 blocklist, reports, error_flag>>

ReadFree ==
  /\ \/ At("BFREE") /\ freeblocks' = freeblocks \cup {Row.num} /\ UNCHANGED freeinodes
     \/ At("IFREE") /\ freeinodes' = freeinodes \cup {Row.num} /\ UNCHANGED freeblocks
  /\ at' = at + 1
  /\ UNCHANGED <<superblock, total_group_inodes, first_legal_block, allocated_inodes,
                 direct_references, blocklist, reports, error_flag, pc, exit>>

\* The block numbers of an INODE row that are not 0.
NumbersIn(row) ==
  IF row.type \in {"f", "d"} \/ (row.type = "s" /\ row.size > 60)
  THEN RowsOf([n \in 1 .. NDirect + 3 |->
         IF row.block[n] = 0 THEN <<>>
         ELSE <<[block |-> row.block[n], inode |-> row.num, level |-> "number"]>>], NDirect + 3)
  ELSE <<>>

\* The free list is the part of it that has been read so far.  A mode is a string
\* and so never 0: the check of an inode that is not allocated is never made.
ReadInode ==
  /\ At("INODE")
  /\ allocated_inodes' = allocated_inodes \cup {[num |-> Row.num, links |-> Row.links]}
  /\ Report(IF Row.num \in freeinodes THEN {Says("ALLOCATED INODE ON FREELIST", Row.num, 0)} ELSE {})
  /\ blocklist' = blocklist \o NumbersIn(Row)
  /\ at' = at + 1
  /\ UNCHANGED <<superblock, total_group_inodes, first_legal_block, freeblocks, freeinodes,
                 direct_references, pc, exit>>

\* Mutant: what an indirect block points to is not entered.
ReadIndirectNot ==
  /\ At("INDIRECT")
  /\ at' = at + 1
  /\ UNCHANGED <<tableVars, reports, error_flag, pc, exit>>

\* Here the level is the string of the row.
ReadIndirect ==
  /\ At("INDIRECT")
  /\ blocklist' = Append(blocklist, [block |-> Row.block, inode |-> Row.num, level |-> "string"])
  /\ at' = at + 1
  /\ UNCHANGED <<superblock, total_group_inodes, first_legal_block, freeblocks, freeinodes,
                 allocated_inodes, direct_references, reports, error_flag, pc, exit>>

\* What a DIRENT row is told to be wrong in, beside its number being too large;
\* a wrong ".." is printed, but is no error.
ReadDirent ==
  LET plain == Row.name \notin {".", ".."}
      dot == IF Row.name = "." /\ Row.num # Row.dir THEN {Says("DOT", Row.num, Row.dir)} ELSE {}
      dotdot == IF Row.name = ".." /\ Row.dir = Root /\ Row.num # Row.dir
                THEN {Says("DOTDOT", Row.num, Row.dir)} ELSE {}
      unallocated == IF plain /\ Row.num \in freeinodes
                     THEN {Says("UNALLOCATED INODE", Row.num, Row.dir)} ELSE {}
      known == Row.num < 1 \/ total_group_inodes # Unknown
      invalid == IF known /\ plain /\ Row.num \notin 1 .. total_group_inodes
                 THEN {Says("INVALID INODE", Row.num, Row.dir)} ELSE {}
  IN  /\ At("DIRENT")
      /\ direct_references' = Append(direct_references, Row.num)
      /\ reports' = reports \cup dot \cup dotdot \cup unallocated \cup invalid
      /\ error_flag' = (error_flag \/ dot \cup unallocated \cup invalid # {})
      /\ IF known THEN at' = at + 1 /\ UNCHANGED <<pc, exit>> ELSE Raise
      /\ UNCHANGED <<superblock, total_group_inodes, first_legal_block, freeblocks, freeinodes,
                     allocated_inodes, blocklist>>

EndOfRows ==
  /\ pc = "rows" /\ at > Len(rows)
  /\ Goto("blocks")
  /\ UNCHANGED <<tableVars, reports, error_flag, exit>>

-----------------------------------------------------------------------------
\* blockdict[b]
Blockdict(b) == Cardinality({n \in DOMAIN blocklist : blocklist[n].block = b})

\* Mutant: the word for the level is looked up before anything is found to be wrong.
CheckBlockWordFirst ==
  /\ pc = "blocks" /\ at <= Len(blocklist)
  /\ IF blocklist[at].level = "string" THEN Raise ELSE at' = at + 1 /\ UNCHANGED <<pc, exit>>
  /\ UNCHANGED <<tableVars, reports, error_flag>>

\* A level that is a string is no index of the list of words: reports with a
\* level raise an exception, those of the free list do not.
CheckBlock ==
  /\ pc = "blocks" /\ at <= Len(blocklist)
  /\ LET here == blocklist[at]
         b == here.block
         invalid == b < 0 \/ b > NBlocks
         free == IF b \in freeblocks THEN {Says("ALLOCATED BLOCK ON FREELIST", b, 0)} ELSE {}
         named == {what \in {"INVALID BLOCK", "RESERVED BLOCK", "DUPLICATE BLOCK"} :
                     \/ what = "INVALID BLOCK" /\ invalid
                     \/ what = "RESERVED BLOCK" /\ b \in 0 .. first_legal_block - 1
                     \/ what = "DUPLICATE BLOCK" /\ Blockdict(b) > 1}
     IN  IF here.level = "string" /\ named # {}
         THEN Raise /\ Report(IF invalid THEN {} ELSE free)
         ELSE /\ Report(free \cup {Says(what, b, here.inode) : what \in named})
              /\ at' = at + 1 /\ UNCHANGED <<pc, exit>>
  /\ UNCHANGED tableVars

EndOfBlocks ==
  /\ pc = "blocks" /\ at > Len(blocklist)
  /\ Goto("unreferenced")
  /\ UNCHANGED <<tableVars, reports, error_flag, exit>>

\* Mutant: range(first_legal_block, maxblocks + 1).
RangeOfBlocksOneMore == first_legal_block .. NBlocks

\* range(first_legal_block, int(maxblocks))
RangeOfBlocks == first_legal_block .. NBlocks - 1

CheckUnreferenced ==
  /\ pc = "unreferenced"
  /\ Report({Says("UNREFERENCED BLOCK", b, 0) :
              b \in {b \in RangeOfBlocks : Blockdict(b) = 0 /\ b \notin freeblocks}})
  /\ Goto("inodes")
  /\ UNCHANGED <<tableVars, exit>>

\* range(11, int(maxinodes)), without the last inode.
CheckUnallocated ==
  /\ pc = "inodes"
  /\ Report({Says("UNALLOCATED INODE NOT ON FREELIST", i, 0) :
              i \in {i \in FirstInode .. NInodes - 1 :
                       i \notin freeinodes /\ \A a \in allocated_inodes : a.num # i}})
  /\ Goto("links")
  /\ UNCHANGED <<tableVars, exit>>

CheckLinks ==
  /\ pc = "links"
  /\ Report({Says("LINKS", a.num, 0) :
              a \in {a \in allocated_inodes :
                       a.links # Cardinality({n \in DOMAIN direct_references :
                                                 direct_references[n] = a.num})}})
  /\ Goto("exit")
  /\ UNCHANGED <<tableVars, exit>>

\* Mutant: if error_flag == False: sys.exit(2).
StatusSwapped == IF error_flag THEN 0 ELSE 2

Status == IF error_flag THEN 2 ELSE 0

Exit ==
  /\ pc = "exit"
  /\ exit' = Status
  /\ UNCHANGED <<at, tableVars, reports, error_flag, pc>>

ReadRow ==
  \/ ReadSuperblock \/ ReadGroup \/ ReadFree \/ ReadInode \/ ReadIndirect \/ ReadDirent
  \/ EndOfRows

CheckTables == CheckBlock \/ EndOfBlocks \/ CheckUnreferenced \/ CheckUnallocated \/ CheckLinks

Next ==
  \/ exit = Running /\ (ReadRow \/ CheckTables \/ Exit) /\ UNCHANGED <<img, order, rows>>
  \/ exit # Running /\ UNCHANGED vars

Spec == Init /\ [][Next]_vars

-----------------------------------------------------------------------------
(* What is wrong with an image, by its pointers, bitmaps and entries. *)

\* A path to a block: the index of a pointer of the inode, then one in each
\* indirect block on the way.
Paths ==
  {<<m>> : m \in 1 .. NDirect + 3}
  \cup {<<NDirect + depth, n>> : depth \in 1 .. 3, n \in 1 .. Pointers}
  \cup {<<NDirect + depth, n, o>> : depth \in 2 .. 3, n, o \in 1 .. Pointers}
  \cup {<<NDirect + 3, n, o, p>> : n, o, p \in 1 .. Pointers}

\* What the n-th pointer of block b points to, 0 if nothing.
Follow(b, n) == IF b = 0 THEN 0 ELSE ReadPointers(img, b)[n]

\* The block at the end of a path.
BlockAt(i, path) ==
  LET first == img.inode[i].block[path[1]]
  IN  CASE Len(path) = 1 -> first
        [] Len(path) = 2 -> Follow(first, path[2])
        [] Len(path) = 3 -> Follow(Follow(first, path[2]), path[3])
        [] Len(path) = 4 -> Follow(Follow(Follow(first, path[2]), path[3]), path[4])

\* A symbolic link of less than 60 bytes has its text in place of the pointers.
HasBlocks(i) ==
  /\ InUse(img, i)
  /\ img.inode[i].mode \in {"reg", "dir"} \/ (img.inode[i].mode = "lnk" /\ img.inode[i].size >= 60)

\* Where each block that is in use is referred to.
References ==
  {ref \in {[inode |-> i, path |-> path, block |-> BlockAt(i, path)] :
              i \in {i \in Inodes : HasBlocks(i)}, path \in Paths} : ref.block # 0}
DataBlocks == TableStart + NInodes \div InodesPerBlock .. NBlocks - 1

\* The directories that have a block.
Directories ==
  {i \in Inodes : InUse(img, i) /\ img.inode[i].mode = "dir" /\ img.inode[i].block[1] \in Blocks \ {0}}

\* The entries of all directories: the directory and the place in its block.
Entry(e) == img.entries[img.inode[e[1]].block[1]][e[2]]
Entries ==
  {e \in UNION {{i} \X DOMAIN img.entries[img.inode[i].block[1]] : i \in Directories} : Entry(e).inode # 0}
Named(e) == Entry(e).name \notin {".", ".."}

BadBlock(references, b) == {what \in {"INVALID BLOCK", "RESERVED BLOCK", "DUPLICATE BLOCK"} :
  \/ what = "INVALID BLOCK" /\ b \notin Blocks
  \/ what = "RESERVED BLOCK" /\ b \in Blocks \ DataBlocks
  \/ what = "DUPLICATE BLOCK" /\ Cardinality({ref \in references : ref.block = b}) > 1}

BlockInconsistencies(references) ==
  LET used == {ref.block : ref \in references}
  IN  {Says("ALLOCATED BLOCK ON FREELIST", b, 0) : b \in used \cap img.bfree}
      \cup {Says("UNREFERENCED BLOCK", b, 0) : b \in DataBlocks \ (img.bfree \cup used)}
      \cup UNION {{Says(what, ref.block, ref.inode) : what \in BadBlock(references, ref.block)} : ref \in references}

Inconsistencies ==
  BlockInconsistencies(References)
  \cup {Says("ALLOCATED INODE ON FREELIST", i, 0) : i \in {i \in img.ifree : i \in Inodes /\ InUse(img, i)}}
  \cup {Says("UNALLOCATED INODE NOT ON FREELIST", i, 0) :
          i \in {i \in FirstInode .. NInodes : ~InUse(img, i) /\ i \notin img.ifree}}
  \cup {Says("LINKS", i, 0) :
          i \in {i \in Inodes : InUse(img, i) /\ img.inode[i].links # Cardinality({e \in Entries : Entry(e).inode = i})}}
  \cup {Says("DOT", Entry(e).inode, e[1]) : e \in {e \in Entries : Entry(e).name = "." /\ Entry(e).inode # e[1]}}
  \cup {Says("DOTDOT", Entry(e).inode, Root) :
          e \in {e \in Entries : e[1] = Root /\ Entry(e).name = ".." /\ Entry(e).inode # Root}}
  \cup {Says("UNALLOCATED INODE", Entry(e).inode, e[1]) : e \in {e \in Entries : Named(e) /\ Entry(e).inode \in img.ifree}}
  \cup {Says("INVALID INODE", Entry(e).inode, e[1]) : e \in {e \in Entries : Named(e) /\ Entry(e).inode \notin Inodes}}

-----------------------------------------------------------------------------
(* Properties. *)

\* The images that lab3a and lab3b are made for: no block devices, sockets or
\* symbolic links of exactly 60 bytes; directories of one block, without entries
\* behind an empty one, and if the block is missing or outside of the device, only
\* when nothing that looks like an entry is found instead; and no pointers, or
\* texts of links that look like them, to indirect blocks outside of the device.
Auditable ==
  \A i \in {i \in Inodes : InUse(img, i)} :
    LET inode == img.inode[i]
        indirect == {inode.block[NDirect + n] : n \in 1 .. 3}
    IN  /\ inode.mode \in {"reg", "dir", "lnk", "chr"}
        /\ inode.mode = "lnk" => inode.size # 60
        /\ inode.mode # "reg" => indirect = {0}
        /\ inode.mode = "dir" => \A n \in 2 .. NDirect : inode.block[n] = 0
        /\ inode.mode = "dir" /\ i \notin Directories =>
             LET entries == ReadEntries(img, i)
             IN  \A n \in DOMAIN entries : entries[n].inode = 0
        /\ i \in Directories =>
             LET entries == img.entries[inode.block[1]]
             IN  \A m, n \in DOMAIN entries : m < n /\ entries[m].inode = 0 => entries[n].inode = 0
        /\ indirect \subseteq Blocks
        /\ \A path \in Paths : path[1] > NDirect + Len(path) - 1 /\ inode.mode = "reg" => BlockAt(i, path) \in Blocks

\* Whatever is wrong with an image and however the rows are ordered, what the two
\* programs together report of it is so.
ReportsAreTrue == exit # Running /\ Auditable => reports \subseteq Inconsistencies

\* What the audit does not look for: the number one past the last block, and
\* whether the last inode is lost; and, when the free lists come after the inodes
\* (lab3b.py:52, "We don't know"), whether an inode or entry is on them.
Overlooked ==
  {Says("INVALID BLOCK", NBlocks, i) : i \in Inodes}
  \cup {Says("UNALLOCATED INODE NOT ON FREELIST", NInodes, 0)}
  \cup (IF FreeListsFirst THEN {}
        ELSE {r \in Inconsistencies : r.what \in {"ALLOCATED INODE ON FREELIST", "UNALLOCATED INODE"}})

\* An audit that comes to its end has reported everything else that is wrong.
NothingMissed == Auditable /\ exit \in {0, 2} => Inconsistencies \subseteq reports \cup Overlooked

\* The order of the rows that lab3a prints, as far as the program depends on it.
UsualOrder == SuperblockFirst /\ GroupFirst

\* Status 2 comes with a report and 0 without any, but for a wrong ".." of the
\* root; an image with nothing wrong, its rows in the usual order, gets status 0.
StatusExplained ==
  /\ exit = 2 => reports # {}
  /\ exit = 0 => \A r \in reports : r.what = "DOTDOT"
  /\ Auditable /\ UsualOrder /\ exit # Running /\ Inconsistencies = {} => exit = 0

\* How many indirect blocks there are above the data below a pointer of the inode.
Depth(path) == IF path[1] <= NDirect THEN 0 ELSE path[1] - NDirect

\* The logical offset of a block, counted in blocks from the start of the file:
\* where its depth begins, and the blocks before it there.
OffsetOf(path) ==
  LET P == Pointers
      start == CASE Depth(path) = 1 -> NDirect [] Depth(path) = 2 -> NDirect + P
                 [] Depth(path) = 3 -> NDirect + P + P * P
      span == <<1, P, P * P>>
      before(n) == (path[n] - 1) * span[Depth(path) + 2 - n]
  IN  CASE Len(path) = 1 -> path[1] - 1
        [] Len(path) = 2 -> start + before(2)
        [] Len(path) = 3 -> start + before(2) + before(3)
        [] Len(path) = 4 -> start + before(2) + before(3) + before(4)

\* A block that is below the first entry of every indirect block on its way is
\* listed with its true logical offset, at every depth.
FirstOffsetsTrue ==
  pc = "rows" /\ at = 1 =>
    \A ref \in References :
      LET path == ref.path IN
      Len(path) > 1 /\ (\A n \in 2 .. Len(path) - 1 : path[n] = 1) =>
        \E n \in DOMAIN rows :
          /\ rows[n].row = "INDIRECT" /\ rows[n].num = ref.inode /\ rows[n].block = ref.block
          /\ rows[n].level = Depth(path) + 2 - Len(path)
          /\ rows[n].offset = OffsetOf(path)

\* lab3b.py:7 "2 ... successful execution, inconsistencies found": the parameters
\* are good and no system call fails, so whatever is wrong and is looked for makes
\* the status 2.
InconsistencyIsStatus2 ==
  exit # Running /\ Auditable /\ UsualOrder /\ ~(Inconsistencies \subseteq Overlooked) => exit = 2
=============================================================================
