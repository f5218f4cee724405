------------------------------ MODULE MCAudit ------------------------------
(* Instances of Audit: an image, and what can go wrong with it. *)
EXTENDS Audit, FiniteSetsExt

NoPointers == [n \in 1 .. Pointers |-> 0]

\* A root directory with one file, whose blocks are direct and below indirect
\* blocks of all three levels.
SoundImage ==
  [bfree |-> {17, 18}, ifree |-> {4, 5, 6},
   inode |-> [i \in 1 .. NInodes |->
     CASE i = 2 -> [mode |-> "dir", links |-> 2, size |-> 1, block |-> <<4, 0, 0, 0, 0>>]
       [] i = 3 -> [mode |-> "reg", links |-> 1, size |-> 1, block |-> <<5, 0, 6, 8, 12>>]
       [] OTHER -> [mode |-> "none", links |-> 0, size |-> 0, block |-> <<0, 0, 0, 0, 0>>]],
   content |-> [b \in Blocks |->
     CASE b = 6 -> <<7, 0>> [] b = 8 -> <<9, 10>> [] b = 9 -> <<0, 11>> [] b = 10 -> <<0, 16>>
       [] b = 12 -> <<13, 0>> [] b = 13 -> <<14, 0>> [] b = 14 -> <<15, 0>> [] OTHER -> NoPointers],
   entries |-> [b \in Blocks |->
     IF b = 4 THEN <<[inode |-> 2, name |-> "."], [inode |-> 2, name |-> ".."], [inode |-> 3, name |-> "a"]>>
     ELSE <<>>],
   stack |-> NoPointers, stale |-> [i \in 1 .. NInodes |-> <<>>]]

\* The block numbers that a pointer can be damaged to: none, reserved, in use,
\* free, the last, and the three around the ends of the device.
Numbers == {0, 1, 3, 5, 7, 17, NBlocks, NBlocks + 1}

\* What dir_entry can hold when nothing is read into it.
Stale == {<<>>, <<[inode |-> 3, name |-> "a"], [inode |-> 3, name |-> "a"]>>}

\* A symbolic link: a short one has its text in place of the pointers.
WithLink(size, blocks) ==
  [SoundImage EXCEPT !.inode[4] = [mode |-> "lnk", links |-> 1, size |-> size, block |-> blocks],
                     !.ifree = @ \ {4}, !.bfree = IF size < 60 THEN @ ELSE @ \ {17},
                     !.entries[4] = Append(@, [inode |-> 4, name |-> "l"])]

Damaged(image) ==
  {[image EXCEPT !.inode[3].block[n] = b] : n \in {1, 3}, b \in Numbers \cup {-1}}
  \cup {[image EXCEPT !.inode[2].block[1] = b, !.stale[2] = s] : b \in Numbers \cup {-1}, s \in Stale}
  \cup {[image EXCEPT !.content[c][n] = b] : c \in {6, 9, 14}, n \in 1 .. Pointers, b \in Numbers}
  \cup {[image EXCEPT !.bfree = SymDiff(@, {b})] : b \in {4, 6, 7, 17}}
  \cup {[image EXCEPT !.ifree = SymDiff(@, {i})] : i \in {3, 5, 6}}
  \cup {[image EXCEPT !.inode[3].links = n] : n \in {0, 2}}
  \cup {[image EXCEPT !.entries[4][n].inode = i] : n \in 1 .. 3, i \in {2, 3, 5, NInodes + 1}}

\* The ".." of the root is the file, and the link counts agree with that.
WrongParent ==
  [SoundImage EXCEPT !.entries[4][2].inode = 3, !.inode[2].links = 1, !.inode[3].links = 2]

MCImages ==
  LET sound == {SoundImage, WithLink(50, <<77, 0, 0, 0, 0>>), WithLink(61, <<17, 0, 0, 0, 0>>)}
  IN  sound \cup UNION {Damaged(image) : image \in sound} \cup {WrongParent}
=============================================================================
