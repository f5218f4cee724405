---------------------------- MODULE Audit_proofs ----------------------------
(***************************************************************************)
(* Proofs about Audit, for every image and for every size of device, inode *)
(* table and block.                                                        *)
(***************************************************************************)
EXTENDS Audit, InductionLemmas

LEMMA Sizes ==
  /\ NInodes \in Nat /\ NBlocks \in Nat /\ NDirect \in Nat /\ Pointers \in Nat
  /\ NInodes > 0 /\ NDirect > 0 /\ Pointers > 0 /\ NInodes <= NBlocks
  BY ImageAssumption

LEMMA RowsRolled ==
  ASSUME NEW f, NEW n
  PROVE  RowsOf(f, n) = Rolled(f, n)
  BY DEF RowsOf, Rolled

-----------------------------------------------------------------------------
(* recurse_inode *)

Ptr(b, n) == ReadPointers(img, b)[n]
NonZero(b) == {n \in 1 .. Pointers : Ptr(b, n) # 0}

LEMMA PointersTyped ==
  ASSUME IsImage(img), NEW b
  PROVE  \A n \in 1 .. Pointers : Ptr(b, n) \in Int
  BY DEF IsImage, Ptr, ReadPointers

\* What the recursion of RecurseInode comes to.
LEMMA RecursionIs ==
  ASSUME NEW i, NEW orig
  PROVE  LET below == RecurseInode(img, i, orig) IN
         /\ \A b \in Int : below[0][b] = <<>>
         /\ \A level \in 1 .. 3, b \in Int :
              below[level][b] = BlockRows(img, i, level, orig, b, below[level - 1])
  <1> DEFINE zero == [b \in Int |-> <<>>]
  <1> DEFINE one == [b \in Int |-> BlockRows(img, i, 1, orig, b, zero)]
  <1> DEFINE two == [b \in Int |-> BlockRows(img, i, 2, orig, b, one)]
  <1> DEFINE three == [b \in Int |-> BlockRows(img, i, 3, orig, b, two)]
  <1> DEFINE G == [level \in 0 .. 3 |-> IF level = 0 THEN zero ELSE IF level = 1 THEN one
                                       ELSE IF level = 2 THEN two ELSE three]
  <1> DEFINE Step(f, level) == IF level = 0 THEN [b \in Int |-> <<>>]
                               ELSE [b \in Int |-> BlockRows(img, i, level, orig, b, f[level - 1])]
  <1>1. G[0] = zero /\ G[1] = one /\ G[2] = two /\ G[3] = three /\ DOMAIN G = 0 .. 3
    OBVIOUS
  <1>2. \A level \in 0 .. 3 : G[level] = Step(G, level)
    <2>1. ASSUME NEW level \in 0 .. 3
          PROVE  G[level] = Step(G, level)
      <3>1. CASE level = 0
        BY <1>1, <3>1
      <3>2. CASE level = 1
        BY <1>1, <3>2
      <3>3. CASE level = 2
        BY <1>1, <3>3
      <3>4. CASE level = 3
        BY <1>1, <3>4
      <3>5. QED
        BY <3>1, <3>2, <3>3, <3>4
    <2>2. QED
      BY <2>1
  <1>3. G = [level \in 0 .. 3 |-> Step(G, level)]
    <2>1. G = [level \in 0 .. 3 |-> G[level]]
      OBVIOUS
    <2> HIDE DEF G, Step
    <2>2. QED
      BY <1>2, <2>1
  <1> DEFINE c == CHOOSE f : f = [level \in 0 .. 3 |-> Step(f, level)]
  <1> HIDE DEF G
  <1>4. c = [level \in 0 .. 3 |-> Step(c, level)]
    BY <1>3
  <1>5. RecurseInode(img, i, orig) = c
    BY DEF RecurseInode
  <1> HIDE DEF c
  <1>6. c[0] = [b \in Int |-> <<>>]
    BY <1>4
  <1>7. ASSUME NEW level \in 1 .. 3
        PROVE  c[level] = [b \in Int |-> BlockRows(img, i, level, orig, b, c[level - 1])]
    <2>1. level \in 0 .. 3 /\ level # 0
      OBVIOUS
    <2>2. c[level] = Step(c, level)
      BY <1>4, <2>1
    <2>3. QED
      BY <2>1, <2>2
  <1>8. QED
    BY <1>5, <1>6, <1>7

\* The loop over a block b, if pl has a place for each of its pointers, and what
\* is below pointer n enumerates R[n].
LEMMA BlockEnumerates ==
  ASSUME NEW g, NEW i, NEW level, NEW orig, NEW b, NEW deeper, NEW R, NEW pl,
         \A n \in NonZero(b) :
           /\ pl[n] \in DOMAIN g /\ g[pl[n]] = IndirectRow(img, i, level, orig, b, n)
           /\ Enumerates(deeper[Ptr(b, n)], R[n], g)
           /\ pl[n] \notin R[n],
         \A m, n \in NonZero(b) : m # n => ({pl[m]} \cup R[m]) \cap ({pl[n]} \cup R[n]) = {}
  PROVE  Enumerates(BlockRows(img, i, level, orig, b, deeper), UNION {{pl[n]} \cup R[n] : n \in NonZero(b)}, g)
  <1> DEFINE f == [n \in 1 .. Pointers |->
                    LET p == ReadPointers(img, b)[n]
                    IN  IF p = 0 THEN <<>> ELSE <<IndirectRow(img, i, level, orig, b, n)>> \o deeper[p]]
  <1> DEFINE Q == [n \in 1 .. Pointers |-> IF n \in NonZero(b) THEN {pl[n]} \cup R[n] ELSE {}]
  <1>1. ASSUME NEW n \in 1 .. Pointers
        PROVE  Enumerates(f[n], Q[n], g)
    <2>1. CASE n \in NonZero(b)
      <3>1. f[n] = <<IndirectRow(img, i, level, orig, b, n)>> \o deeper[Ptr(b, n)] /\ Q[n] = {pl[n]} \cup R[n]
        BY <2>1 DEF NonZero, Ptr
      <3>2. Enumerates(<<g[pl[n]]>>, {pl[n]}, g)
        BY <2>1, EnumeratesOne
      <3>3. Enumerates(<<g[pl[n]]>> \o deeper[Ptr(b, n)], {pl[n]} \cup R[n], g)
        <4>1. {pl[n]} \cap R[n] = {} /\ Enumerates(deeper[Ptr(b, n)], R[n], g)
          BY <2>1
        <4>2. QED
          BY <3>2, <4>1, EnumeratesConcat
      <3>4. QED
        BY <2>1, <3>1, <3>3
    <2>2. CASE n \notin NonZero(b)
      <3>1. f[n] = <<>> /\ Q[n] = {}
        BY <2>2 DEF NonZero, Ptr
      <3>2. QED
        BY <3>1, EnumeratesNone
    <2>3. QED
      BY <2>1, <2>2
  <1>2. \A m, n \in 1 .. Pointers : m # n => Q[m] \cap Q[n] = {}
    OBVIOUS
  <1>3. UNION {Q[n] : n \in 1 .. Pointers} = UNION {{pl[n]} \cup R[n] : n \in NonZero(b)}
    BY DEF NonZero
  <1>4. BlockRows(img, i, level, orig, b, deeper) = Rolled(f, Pointers)
    BY RowsRolled DEF BlockRows
  <1> HIDE DEF f, Q
  <1>5. Pointers \in Nat
    BY Sizes
  <1>6. Enumerates(Rolled(f, Pointers), UNION {Q[n] : n \in 1 .. Pointers}, g)
    BY <1>1, <1>2, <1>5, EnumeratesAll
  <1>7. QED
    BY <1>3, <1>4, <1>6

-----------------------------------------------------------------------------
(* Paths, and the blocks at their ends *)

IsPath(q) ==
  /\ q \in Seq(Int) /\ Len(q) \in 1 .. 4 /\ q[1] \in 1 .. NDirect + 3
  /\ \A n \in 2 .. Len(q) : q[n] \in 1 .. Pointers

\* q is the beginning of path.
Begins(q, path) == Len(q) <= Len(path) /\ \A n \in 1 .. Len(q) : path[n] = q[n]

LEMMA PathsAre ==
  ASSUME NEW path
  PROVE  path \in Paths <=> IsPath(path) /\ Len(path) <= Depth(path) + 1
  <1>1. NDirect \in Nat /\ Pointers \in Nat
    BY Sizes
  <1>2. ASSUME path \in Paths
        PROVE  IsPath(path) /\ Len(path) <= Depth(path) + 1
    <2>1. CASE path \in {<<m>> : m \in 1 .. NDirect + 3}
      <3>1. PICK m \in 1 .. NDirect + 3 : path = <<m>>
        BY <2>1
      <3>2. path \in Seq(Int) /\ Len(path) = 1 /\ path[1] = m
        BY <3>1
      <3>3. QED
        BY <1>1, <3>2 DEF IsPath, Depth
    <2>2. CASE path \in {<<NDirect + depth, n>> : depth \in 1 .. 3, n \in 1 .. Pointers}
      <3>1. PICK d \in 1 .. 3, n \in 1 .. Pointers : path = <<NDirect + d, n>>
        BY <2>2
      <3>2. path \in Seq(Int) /\ Len(path) = 2 /\ path[1] = NDirect + d /\ path[2] = n
        BY <1>1, <3>1
      <3>3. QED
        BY <1>1, <3>2 DEF IsPath, Depth
    <2>3. CASE path \in {<<NDirect + depth, n, o>> : depth \in 2 .. 3, n, o \in 1 .. Pointers}
      <3>1. PICK d \in 2 .. 3, n, o \in 1 .. Pointers : path = <<NDirect + d, n, o>>
        BY <2>3
      <3>2. path \in Seq(Int) /\ Len(path) = 3 /\ path[1] = NDirect + d /\ path[2] = n /\ path[3] = o
        BY <1>1, <3>1
      <3>3. QED
        BY <1>1, <3>2 DEF IsPath, Depth
    <2>4. CASE path \in {<<NDirect + 3, n, o, p>> : n, o, p \in 1 .. Pointers}
      <3>1. PICK n, o, p \in 1 .. Pointers : path = <<NDirect + 3, n, o, p>>
        BY <2>4
      <3>2. path \in Seq(Int) /\ Len(path) = 4 /\ path[1] = NDirect + 3
            /\ path[2] = n /\ path[3] = o /\ path[4] = p
        BY <1>1, <3>1
      <3>3. QED
        BY <1>1, <3>2 DEF IsPath, Depth
    <2>5. QED
      BY <1>2, <2>1, <2>2, <2>3, <2>4 DEF Paths
  <1>3. ASSUME IsPath(path), Len(path) <= Depth(path) + 1
        PROVE  path \in Paths
    <2>1. CASE Len(path) = 1
      <3>1. path = <<path[1]>>
        BY <1>3, <2>1 DEF IsPath
      <3>2. QED
        BY <1>3, <3>1 DEF IsPath, Paths
    <2>2. CASE Len(path) = 2
      <3>1. path = <<path[1], path[2]>>
        BY <1>3, <2>2 DEF IsPath
      <3>2. PICK d \in 1 .. 3 : path[1] = NDirect + d
        <4>1. path[1] - NDirect \in 1 .. 3 /\ path[1] = NDirect + (path[1] - NDirect)
          BY <1>1, <1>3, <2>2 DEF IsPath, Depth
        <4>2. QED
          BY <4>1
      <3>3. path[2] \in 1 .. Pointers
        BY <1>3, <2>2 DEF IsPath
      <3>4. QED
        BY <3>1, <3>2, <3>3 DEF Paths
    <2>3. CASE Len(path) = 3
      <3>1. path = <<path[1], path[2], path[3]>>
        BY <1>3, <2>3 DEF IsPath
      <3>2. PICK d \in 2 .. 3 : path[1] = NDirect + d
        <4>1. path[1] - NDirect \in 2 .. 3 /\ path[1] = NDirect + (path[1] - NDirect)
          BY <1>1, <1>3, <2>3 DEF IsPath, Depth
        <4>2. QED
          BY <4>1
      <3>3. path[2] \in 1 .. Pointers /\ path[3] \in 1 .. Pointers
        BY <1>3, <2>3 DEF IsPath
      <3>4. QED
        BY <3>1, <3>2, <3>3 DEF Paths
    <2>4. CASE Len(path) = 4
      <3>1. path = <<path[1], path[2], path[3], path[4]>>
        BY <1>3, <2>4 DEF IsPath
      <3>2. path[1] = NDirect + 3
        BY <1>1, <1>3, <2>4 DEF IsPath, Depth
      <3>3. path[2] \in 1 .. Pointers /\ path[3] \in 1 .. Pointers /\ path[4] \in 1 .. Pointers
        BY <1>3, <2>4 DEF IsPath
      <3>4. QED
        BY <3>1, <3>2, <3>3 DEF Paths
    <2>5. QED
      BY <1>3, <2>1, <2>2, <2>3, <2>4 DEF IsPath
  <1>4. QED
    BY <1>2, <1>3

LEMMA FollowTyped ==
  ASSUME IsImage(img), NEW b \in Int, NEW n \in 1 .. Pointers
  PROVE  Follow(b, n) \in Int /\ (b # 0 => Follow(b, n) = Ptr(b, n)) /\ (b = 0 => Follow(b, n) = 0)
  BY PointersTyped DEF Follow, Ptr

LEMMA BlockAtTyped ==
  ASSUME IsImage(img), NEW i \in Inodes, NEW q, IsPath(q)
  PROVE  BlockAt(i, q) \in Int
  <1> DEFINE first == img.inode[i].block[q[1]]
  <1>1. first \in Int
    <2>1. img.inode[i].block \in [1 .. NDirect + 3 -> Int] /\ q[1] \in 1 .. NDirect + 3
      BY DEF IsImage, IsPath
    <2>2. QED
      BY <2>1
  <1> HIDE DEF first
  <1>2. CASE Len(q) = 1
    BY <1>1, <1>2 DEF BlockAt, first
  <1>3. CASE Len(q) = 2
    <2>1. Follow(first, q[2]) \in Int
      BY <1>1, <1>3, FollowTyped DEF IsPath
    <2>2. QED
      BY <1>3, <2>1 DEF BlockAt, first
  <1>4. CASE Len(q) = 3
    <2>1. Follow(first, q[2]) \in Int
      BY <1>1, <1>4, FollowTyped DEF IsPath
    <2>2. Follow(Follow(first, q[2]), q[3]) \in Int
      BY <1>4, <2>1, FollowTyped DEF IsPath
    <2>3. QED
      BY <1>4, <2>2 DEF BlockAt, first
  <1>5. CASE Len(q) = 4
    <2>1. Follow(first, q[2]) \in Int
      BY <1>1, <1>5, FollowTyped DEF IsPath
    <2>2. Follow(Follow(first, q[2]), q[3]) \in Int
      BY <1>5, <2>1, FollowTyped DEF IsPath
    <2>3. Follow(Follow(Follow(first, q[2]), q[3]), q[4]) \in Int
      BY <1>5, <2>2, FollowTyped DEF IsPath
    <2>4. QED
      BY <1>5, <2>3 DEF BlockAt, first
  <1>6. QED
    BY <1>2, <1>3, <1>4, <1>5 DEF IsPath

\* A path is followed one pointer at a time.
LEMMA BlockAtStep ==
  ASSUME NEW i, NEW q \in Seq(Int), Len(q) \in 1 .. 3, NEW path \in Seq(Int), Len(path) = Len(q) + 1,
         Begins(q, path)
  PROVE  BlockAt(i, path) = Follow(BlockAt(i, q), path[Len(q) + 1])
  <1>1. CASE Len(q) = 1
    BY <1>1 DEF BlockAt, Begins
  <1>2. CASE Len(q) = 2
    BY <1>2 DEF BlockAt, Begins
  <1>3. CASE Len(q) = 3
    BY <1>3 DEF BlockAt, Begins
  <1>4. QED
    BY <1>1, <1>2, <1>3

\* There is nothing below a pointer that is 0.
LEMMA NothingBelowZero ==
  ASSUME NEW i, NEW q \in Seq(Int), Len(q) \in 1 .. 4, NEW path \in Seq(Int), Len(path) \in 1 .. 4,
         Begins(q, path), BlockAt(i, q) = 0
  PROVE  BlockAt(i, path) = 0
  <1> DEFINE first == img.inode[i].block[path[1]]
  <1>1. \A n : Follow(0, n) = 0
    BY DEF Follow
  <1>2. q[1] = path[1] /\ Len(q) <= Len(path) /\ first = img.inode[i].block[q[1]]
    BY DEF Begins
  <1> HIDE DEF first
  <1>3. CASE Len(q) = 1
    <2>1. first = 0
      BY <1>2, <1>3 DEF BlockAt
    <2>2. QED
      BY <1>1, <2>1 DEF BlockAt, first
  <1>4. CASE Len(q) = 2
    <2>1. q[2] = path[2]
      BY <1>4 DEF Begins
    <2>2. Follow(first, path[2]) = 0
      BY <1>2, <1>4, <2>1 DEF BlockAt
    <2>3. Len(path) \in 2 .. 4
      BY <1>2, <1>4
    <2>4. QED
      BY <1>1, <2>2, <2>3 DEF BlockAt, first
  <1>5. CASE Len(q) = 3
    <2>1. q[2] = path[2] /\ q[3] = path[3]
      BY <1>5 DEF Begins
    <2>2. Follow(Follow(first, path[2]), path[3]) = 0
      BY <1>2, <1>5, <2>1 DEF BlockAt
    <2>3. Len(path) \in 3 .. 4
      BY <1>2, <1>5
    <2>4. QED
      BY <1>1, <2>2, <2>3 DEF BlockAt, first
  <1>6. CASE Len(q) = 4
    <2>1. q[2] = path[2] /\ q[3] = path[3] /\ q[4] = path[4] /\ Len(path) = 4
      BY <1>2, <1>6 DEF Begins
    <2>2. QED
      BY <1>2, <1>6, <2>1 DEF BlockAt
  <1>7. QED
    BY <1>3, <1>4, <1>5, <1>6

-----------------------------------------------------------------------------
(* A place is what a row is printed for: its kind, the inode or the number, and *)
(* for an indirect pointer its path or for an entry its position.               *)

Kinds == {"SUPERBLOCK", "GROUP", "BFREE", "IFREE", "INODE", "DIRENT", "INDIRECT"}

\* The row of the last pointer of a path.
PointerRow(i, path) ==
  IndirectRow(img, i, Depth(path) + 2 - Len(path), Depth(path),
              BlockAt(i, SubSeq(path, 1, Len(path) - 1)), path[Len(path)])

DirentRow(i, n) ==
  LET entry == ReadEntries(img, i)[n]
  IN  [row |-> "DIRENT", dir |-> i, num |-> entry.inode, name |-> entry.name]

RowAt(p) ==
  CASE p[1] = "SUPERBLOCK" -> SuperRow [] p[1] = "GROUP" -> GroupRow
    [] p[1] = "INODE" -> InodeRow(img, p[2]) [] p[1] = "DIRENT" -> DirentRow(p[2], p[3][1])
    [] p[1] = "INDIRECT" -> PointerRow(p[2], p[3]) [] OTHER -> [row |-> p[1], num |-> p[2]]

PlaceRows == [p \in Kinds \X Int \X Seq(Int) |-> RowAt(p)]

\* The pointers, k levels down, behind which there is something.
Below(i, q, k) ==
  {<<"INDIRECT", i, path>> : path \in {path \in Seq(Int) :
     /\ IsPath(path) /\ Begins(q, path) /\ Len(path) \in Len(q) + 1 .. Len(q) + k
     /\ BlockAt(i, path) # 0}}

LEMMA PlacesApart ==
  ASSUME NEW m, NEW i, NEW q, NEW n, NEW j, NEW r, <<m, i, q>> = <<n, j, r>>
  PROVE  m = n /\ i = j /\ q = r
  OBVIOUS

LEMMA PlaceRowsAt ==
  ASSUME NEW kind \in Kinds, NEW i \in Int, NEW path \in Seq(Int)
  PROVE  /\ <<kind, i, path>> \in DOMAIN PlaceRows
         /\ PlaceRows[<<kind, i, path>>] = RowAt(<<kind, i, path>>)
  BY DEF PlaceRows

\* A path and one more pointer.
LEMMA LongerPath ==
  ASSUME IsImage(img), NEW i \in Inodes, NEW q, IsPath(q), Len(q) <= 3, NEW n \in 1 .. Pointers
  PROVE  LET path == Append(q, n) IN
         /\ path \in Seq(Int) /\ Len(path) = Len(q) + 1 /\ path[Len(q) + 1] = n
         /\ \A m \in 1 .. Len(q) : path[m] = q[m]
         /\ IsPath(path) /\ Begins(q, path) /\ path[1] = q[1]
         /\ SubSeq(path, 1, Len(path) - 1) = q
         /\ BlockAt(i, q) # 0 => BlockAt(i, path) = Ptr(BlockAt(i, q), n)
  <1>1. q \in Seq(Int) /\ Len(q) \in 1 .. 3 /\ Len(q) + 1 \in 2 .. 4
    <2>1. q \in Seq(Int) /\ Len(q) \in 1 .. 4
      BY DEF IsPath
    <2>2. \A m \in 1 .. 4 : m <= 3 => m \in 1 .. 3 /\ m + 1 \in 2 .. 4
      OBVIOUS
    <2>3. QED
      BY <2>1, <2>2
  <1> DEFINE path == Append(q, n)
  <1>2. path \in Seq(Int) /\ Len(path) = Len(q) + 1 /\ path[Len(q) + 1] = n
    BY <1>1
  <1>3. \A m \in 1 .. Len(q) : path[m] = q[m]
    BY <1>1
  <1>4. SubSeq(path, 1, Len(path) - 1) = q
    <2>1. Len(path) - 1 = Len(q)
      BY <1>1, <1>2
    <2>2. SubSeq(path, 1, Len(q)) = q
      BY <1>1
    <2>3. QED
      BY <2>1, <2>2
  <1> HIDE DEF path
  <1>5. Begins(q, path)
    <2>1. Len(q) <= Len(path)
      BY <1>1, <1>2
    <2>2. QED
      BY <1>3, <2>1 DEF Begins
  <1>6. path[1] = q[1]
    BY <1>1, <1>3
  <1>7. IsPath(path)
    <2>1. ASSUME NEW m \in 2 .. Len(path)
          PROVE  path[m] \in 1 .. Pointers
      <3>1. m \in 2 .. Len(q) \/ m = Len(q) + 1
        BY <1>1, <1>2
      <3>2. CASE m \in 2 .. Len(q)
        BY <1>1, <1>3, <3>2 DEF IsPath
      <3>3. CASE m = Len(q) + 1
        BY <1>2, <3>3
      <3>4. QED
        BY <3>1, <3>2, <3>3
    <2>2. Len(path) \in 1 .. 4 /\ path[1] \in 1 .. NDirect + 3
      BY <1>1, <1>2, <1>6 DEF IsPath
    <2>3. QED
      BY <1>2, <2>1, <2>2 DEF IsPath
  <1>8. ASSUME BlockAt(i, q) # 0
        PROVE  BlockAt(i, path) = Ptr(BlockAt(i, q), n)
    <2>1. BlockAt(i, path) = Follow(BlockAt(i, q), path[Len(q) + 1])
      BY <1>1, <1>2, <1>5, BlockAtStep
    <2>2. BlockAt(i, q) \in Int
      BY BlockAtTyped
    <2>3. Follow(BlockAt(i, q), n) = Ptr(BlockAt(i, q), n)
      BY <1>8, <2>2, FollowTyped
    <2>4. QED
      BY <1>2, <2>1, <2>3
  <1>9. QED
    BY <1>2, <1>3, <1>4, <1>5, <1>6, <1>7, <1>8 DEF path

LEMMA BelowInOneStep ==
  ASSUME IsImage(img), NEW i \in Inodes, NEW q, IsPath(q), Len(q) <= 3, NEW k \in 1 .. 4 - Len(q), BlockAt(i, q) # 0
  PROVE  LET b == BlockAt(i, q)
             pl == [n \in 1 .. Pointers |-> <<"INDIRECT", i, Append(q, n)>>]
             R == [n \in 1 .. Pointers |-> Below(i, Append(q, n), k - 1)]
         IN  /\ Below(i, q, k) = UNION {{pl[n]} \cup R[n] : n \in NonZero(b)}
             /\ \A n \in NonZero(b) : pl[n] \notin R[n]
             /\ \A m, n \in NonZero(b) : m # n => ({pl[m]} \cup R[m]) \cap ({pl[n]} \cup R[n]) = {}
  <1>1. PICK l : l = Len(q) + 1
    OBVIOUS
  <1>2. l \in 2 .. 4 /\ q \in Seq(Int) /\ l = Len(q) + 1 /\ Len(q) \in 1 .. 3
    <2>1. q \in Seq(Int) /\ Len(q) \in 1 .. 4
      BY DEF IsPath
    <2>2. \A n \in 1 .. 4 : n <= 3 => n \in 1 .. 3 /\ n + 1 \in 2 .. 4
      OBVIOUS
    <2>3. QED
      BY <1>1, <2>1, <2>2
  <1> DEFINE b == BlockAt(i, q)
  <1> DEFINE pl == [n \in 1 .. Pointers |-> <<"INDIRECT", i, Append(q, n)>>]
  <1> DEFINE R == [n \in 1 .. Pointers |-> Below(i, Append(q, n), k - 1)]
  <1>3. \A n \in 1 .. Pointers :
          /\ Append(q, n) \in Seq(Int) /\ Len(Append(q, n)) = l /\ Append(q, n)[l] = n
          /\ \A m \in 1 .. Len(q) : Append(q, n)[m] = q[m]
    BY <1>2, LongerPath
  <1>4. \A n \in 1 .. Pointers : Begins(q, Append(q, n))
    BY LongerPath
  <1>5. \A n \in 1 .. Pointers : IsPath(Append(q, n))
    BY LongerPath
  <1>6. \A n \in 1 .. Pointers : BlockAt(i, Append(q, n)) = Ptr(b, n)
    BY LongerPath
  <1>7. \A n \in 1 .. Pointers : pl[n] = <<"INDIRECT", i, Append(q, n)>> /\ R[n] = Below(i, Append(q, n), k - 1)
    OBVIOUS
  <1>8. NonZero(b) \subseteq 1 .. Pointers /\ \A n \in 1 .. Pointers : n \in NonZero(b) <=> Ptr(b, n) # 0
    BY DEF NonZero
  \* What is below q, and what is in {pl[n]} \cup R[n], have n there.
  <1>9. \A n \in 1 .. Pointers : \A x \in {pl[n]} \cup R[n] :
          \E path \in Seq(Int) :
            /\ x = <<"INDIRECT", i, path>> /\ path[l] = n /\ IsPath(path) /\ Begins(q, path)
            /\ Len(path) \in l .. Len(q) + k /\ (x \in R[n] => Len(path) > l)
            /\ (n \in NonZero(b) => BlockAt(i, path) # 0)
    <2>1. TAKE n \in 1 .. Pointers
    <2>2. TAKE x \in {pl[n]} \cup R[n]
    <2>3. CASE x \in R[n]
      <3>1. PICK path \in Seq(Int) :
              /\ x = <<"INDIRECT", i, path>> /\ IsPath(path) /\ Begins(Append(q, n), path)
              /\ Len(path) \in Len(Append(q, n)) + 1 .. Len(Append(q, n)) + (k - 1)
              /\ BlockAt(i, path) # 0
        BY <1>7, <2>3 DEF Below
      <3>2. path[l] = n /\ Begins(q, path)
        <4>1. Len(q) <= Len(path) /\ \A m \in 1 .. l : path[m] = Append(q, n)[m]
          <5>1. l <= Len(path) /\ \A m \in 1 .. l : path[m] = Append(q, n)[m]
            BY <1>3, <3>1 DEF Begins
          <5>2. \A a \in 1 .. 3, c \in Nat : a + 1 <= c => a <= c
            OBVIOUS
          <5>3. Len(path) \in Nat
            BY <3>1
          <5>4. QED
            BY <1>2, <5>1, <5>2, <5>3
        <4>2. path[l] = n /\ \A m \in 1 .. Len(q) : path[m] = q[m]
          <5>1. l \in 1 .. l /\ \A m \in 1 .. Len(q) : m \in 1 .. l
            BY <1>2
          <5>2. QED
            BY <1>3, <4>1, <5>1
        <4>3. QED
          BY <4>1, <4>2 DEF Begins
      <3>3. Len(path) \in l .. Len(q) + k /\ Len(path) > l
        <4>1. \A a \in 0 .. 3, d \in 1 .. 4 : \A c \in (a + 1) + 1 .. (a + 1) + (d - 1) :
                c \in a + 1 .. a + d /\ c > a + 1
          OBVIOUS
        <4>2. Len(path) \in l + 1 .. l + (k - 1)
          BY <1>3, <3>1
        <4>3. QED
          BY <1>2, <4>1, <4>2
      <3>4. QED
        BY <3>1, <3>2, <3>3
    <2>4. CASE x \notin R[n]
      <3>1. x = <<"INDIRECT", i, Append(q, n)>>
        BY <1>7, <2>2, <2>4
      <3>2. Len(Append(q, n)) \in l .. Len(q) + k
        BY <1>2, <1>3
      <3>3. n \in NonZero(b) => BlockAt(i, Append(q, n)) # 0
        BY <1>6, <1>8
      <3>4. QED
        BY <1>3, <1>4, <1>5, <2>4, <3>1, <3>2, <3>3
    <2>5. QED
      BY <2>3, <2>4
  <1>10. ASSUME NEW x \in Below(i, q, k)
         PROVE  \E n \in NonZero(b) : x \in {pl[n]} \cup R[n]
    <2>1. PICK path \in Seq(Int) :
            /\ x = <<"INDIRECT", i, path>> /\ IsPath(path) /\ Begins(q, path)
            /\ Len(path) \in l .. Len(q) + k /\ BlockAt(i, path) # 0
      BY <1>2, <1>10 DEF Below
    <2>2. path[l] \in 1 .. Pointers /\ Len(path) \in 1 .. 4
      BY <1>2, <2>1 DEF IsPath
    <2>3. PICK n \in 1 .. Pointers : n = path[l]
      BY <2>2
    <2>4. Begins(Append(q, n), path)
      <3>1. \A m \in 1 .. l : Append(q, n)[m] = path[m]
        BY <1>2, <1>3, <2>1, <2>3 DEF Begins
      <3>2. QED
        BY <1>2, <1>3, <2>1, <3>1 DEF Begins
    <2>5. BlockAt(i, Append(q, n)) # 0
      <3>1. Len(Append(q, n)) \in 1 .. 4 /\ Append(q, n) \in Seq(Int)
        BY <1>2, <1>3
      <3>2. QED
        BY <2>1, <2>2, <2>4, <3>1, NothingBelowZero
    <2>6. n \in NonZero(b)
      BY <1>6, <1>8, <2>5
    <2>7. CASE Len(path) = l
      <3>1. path = Append(q, n)
        <4>1. Append(q, n) \in Seq(Int) /\ Len(Append(q, n)) = Len(path)
          BY <1>2, <1>3, <2>7
        <4>2. \A m \in 1 .. Len(path) : path[m] = Append(q, n)[m]
          BY <2>4, <4>1 DEF Begins
        <4>3. QED
          BY <2>1, <4>1, <4>2, SeqEqual
      <3>2. QED
        BY <1>7, <2>1, <2>6, <3>1
    <2>8. CASE Len(path) # l
      <3>1. Len(path) \in Len(Append(q, n)) + 1 .. Len(Append(q, n)) + (k - 1)
        BY <1>2, <1>3, <2>1, <2>8
      <3>2. x \in Below(i, Append(q, n), k - 1)
        BY <2>1, <2>4, <3>1 DEF Below
      <3>3. QED
        BY <1>7, <2>6, <3>2
    <2>9. QED
      BY <2>7, <2>8
  <1> HIDE DEF b, pl, R
  <1>11. ASSUME NEW n \in NonZero(b), NEW x \in {pl[n]} \cup R[n]
         PROVE  x \in Below(i, q, k)
    <2>1. PICK path \in Seq(Int) :
            /\ x = <<"INDIRECT", i, path>> /\ IsPath(path) /\ Begins(q, path)
            /\ Len(path) \in l .. Len(q) + k /\ BlockAt(i, path) # 0
      BY <1>8, <1>9
    <2>2. Len(path) \in Len(q) + 1 .. Len(q) + k
      BY <1>2, <2>1
    <2>3. QED
      BY <2>1, <2>2 DEF Below
  <1>12. Below(i, q, k) = UNION {{pl[n]} \cup R[n] : n \in NonZero(b)}
    BY <1>10, <1>11
  <1>13. ASSUME NEW n \in NonZero(b)
         PROVE  pl[n] \notin R[n]
    <2>1. SUFFICES ASSUME pl[n] \in R[n] PROVE FALSE
      OBVIOUS
    <2>2. PICK path \in Seq(Int) : pl[n] = <<"INDIRECT", i, path>> /\ Len(path) > l
      BY <1>8, <1>9, <2>1
    <2>3. path = Append(q, n)
      BY <1>7, <1>8, <2>2
    <2>4. QED
      BY <1>2, <1>3, <1>8, <2>2, <2>3
  <1>14. ASSUME NEW m \in NonZero(b), NEW n \in NonZero(b),
                NEW x \in ({pl[m]} \cup R[m]) \cap ({pl[n]} \cup R[n])
         PROVE  m = n
    <2>1. PICK path : x = <<"INDIRECT", i, path>> /\ path[l] = m
      BY <1>8, <1>9
    <2>2. PICK other : x = <<"INDIRECT", i, other>> /\ other[l] = n
      BY <1>8, <1>9
    <2>3. path = other
      BY <2>1, <2>2
    <2>4. QED
      BY <2>1, <2>2, <2>3
  <1>15. QED
    <2>1. \A n \in NonZero(b) : pl[n] \notin R[n]
      BY <1>13
    <2>2. \A m, n \in NonZero(b) : m # n => ({pl[m]} \cup R[m]) \cap ({pl[n]} \cup R[n]) = {}
      BY <1>14
    <2>3. QED
      BY <1>12, <2>1, <2>2 DEF b, pl, R

LEMMA BlockListsBelow ==
  ASSUME IsImage(img), NEW i \in Inodes, NEW q, IsPath(q), Len(q) <= 3, q[1] > NDirect,
         NEW k \in 1 .. 3, Len(q) + k = Depth(q) + 1, BlockAt(i, q) # 0, NEW deeper,
         \A n \in NonZero(BlockAt(i, q)) :
           Enumerates(deeper[BlockAt(i, Append(q, n))], Below(i, Append(q, n), k - 1), PlaceRows)
  PROVE  Enumerates(BlockRows(img, i, k, Depth(q), BlockAt(i, q), deeper), Below(i, q, k), PlaceRows)
  <1> DEFINE b == BlockAt(i, q)
  <1> DEFINE pl == [n \in 1 .. Pointers |-> <<"INDIRECT", i, Append(q, n)>>]
  <1> DEFINE R == [n \in 1 .. Pointers |-> Below(i, Append(q, n), k - 1)]
  <1>1. q[1] \in NDirect + 1 .. NDirect + 3 /\ NDirect \in Nat /\ Depth(q) \in 1 .. 3
    <2>1. q[1] \in 1 .. NDirect + 3 /\ NDirect \in Nat
      BY Sizes DEF IsPath
    <2>2. Depth(q) = q[1] - NDirect
      BY <2>1 DEF Depth
    <2>3. QED
      BY <2>1, <2>2
  <1>2. k \in 1 .. 4 - Len(q)
    <2>1. Len(q) \in 1 .. 4
      BY DEF IsPath
    <2>2. \A l \in 1 .. 4, d \in 1 .. 3 : l + k = d + 1 => k \in 1 .. 4 - l
      OBVIOUS
    <2>3. QED
      BY <1>1, <2>1, <2>2
  <1>3. /\ Below(i, q, k) = UNION {{pl[n]} \cup R[n] : n \in NonZero(b)}
        /\ \A n \in NonZero(b) : pl[n] \notin R[n]
        /\ \A m, n \in NonZero(b) : m # n => ({pl[m]} \cup R[m]) \cap ({pl[n]} \cup R[n]) = {}
    BY <1>2, BelowInOneStep
  <1>4. NonZero(b) \subseteq 1 .. Pointers
    BY DEF NonZero
  <1>5. \A n \in NonZero(b) : pl[n] = <<"INDIRECT", i, Append(q, n)>> /\ R[n] = Below(i, Append(q, n), k - 1)
    BY <1>4
  <1> HIDE DEF pl, R
  <1>6. ASSUME NEW n \in NonZero(b)
        PROVE  /\ pl[n] \in DOMAIN PlaceRows
               /\ PlaceRows[pl[n]] = IndirectRow(img, i, k, Depth(q), b, n)
               /\ Enumerates(deeper[Ptr(b, n)], R[n], PlaceRows)
    <2> DEFINE path == Append(q, n)
    <2>1. n \in 1 .. Pointers
      BY <1>4
    <2>2. /\ path \in Seq(Int) /\ Len(path) = Len(q) + 1 /\ path[Len(q) + 1] = n
          /\ path[1] = q[1] /\ SubSeq(path, 1, Len(path) - 1) = q
      BY <2>1, LongerPath
    <2>3. BlockAt(i, path) = Ptr(b, n)
      BY <2>1, LongerPath
    <2>4. i \in Int
      BY Sizes DEF Inodes
    <2>5. pl[n] \in DOMAIN PlaceRows /\ PlaceRows[pl[n]] = RowAt(<<"INDIRECT", i, path>>)
      <3>1. path \in Seq(Int) /\ pl[n] = <<"INDIRECT", i, path>>
        BY <1>5, <2>2
      <3>2. "INDIRECT" \in Kinds
        BY DEF Kinds
      <3> HIDE DEF path
      <3>3. QED
        BY <2>4, <3>1, <3>2, PlaceRowsAt
    <2> HIDE DEF path
    <2>6. RowAt(<<"INDIRECT", i, path>>) = PointerRow(i, path)
      BY DEF RowAt
    <2>7. Depth(path) = Depth(q)
      BY <2>2 DEF Depth
    <2>8. Depth(q) + 2 - Len(path) = k
      <3>1. \A l \in 1 .. 4, d \in 1 .. 3 : l + k = d + 1 => d + 2 - (l + 1) = k
        OBVIOUS
      <3>2. Len(q) \in 1 .. 4
        BY DEF IsPath
      <3>3. QED
        BY <1>1, <2>2, <3>1, <3>2
    <2>9. PointerRow(i, path) = IndirectRow(img, i, k, Depth(q), b, n)
      BY <2>2, <2>7, <2>8 DEF PointerRow
    <2>10. Enumerates(deeper[BlockAt(i, path)], R[n], PlaceRows)
      BY <1>5 DEF path
    <2>11. QED
      BY <2>3, <2>5, <2>6, <2>9, <2>10
  <1>7. Enumerates(BlockRows(img, i, k, Depth(q), b, deeper), UNION {{pl[n]} \cup R[n] : n \in NonZero(b)}, PlaceRows)
    <2> HIDE DEF b
    <2>1. \A n \in NonZero(b) :
            /\ pl[n] \in DOMAIN PlaceRows /\ PlaceRows[pl[n]] = IndirectRow(img, i, k, Depth(q), b, n)
            /\ Enumerates(deeper[Ptr(b, n)], R[n], PlaceRows) /\ pl[n] \notin R[n]
      BY <1>3, <1>6
    <2>2. QED
      BY <1>3, <2>1, BlockEnumerates
  <1>8. QED
    BY <1>3, <1>7

\* What recurse_inode() prints at a level, below a block that a path leads to.
LEMMA RecursionListsBelow ==
  ASSUME IsImage(img), NEW i \in Inodes, NEW d \in 1 .. 3
  PROVE  \A k \in 0 .. d : \A q :
           IsPath(q) /\ q[1] = NDirect + d /\ Len(q) + k = d + 1 /\ BlockAt(i, q) # 0 =>
             Enumerates(RecurseInode(img, i, d)[k][BlockAt(i, q)], Below(i, q, k), PlaceRows)
  <1> DEFINE below == RecurseInode(img, i, d)
  <1> DEFINE Holds(k) ==
        \A q : IsPath(q) /\ q[1] = NDirect + d /\ Len(q) + k = d + 1 /\ BlockAt(i, q) # 0 =>
          Enumerates(below[k][BlockAt(i, q)], Below(i, q, k), PlaceRows)
  <1>1. Holds(0)
    <2>1. ASSUME NEW q, IsPath(q), BlockAt(i, q) # 0
          PROVE  Enumerates(below[0][BlockAt(i, q)], Below(i, q, 0), PlaceRows)
      <3>1. below[0][BlockAt(i, q)] = <<>>
        BY <2>1, BlockAtTyped, RecursionIs
      <3>2. \A path \in Seq(Int) : ~(Len(path) \in Len(q) + 1 .. Len(q) + 0)
        BY <2>1 DEF IsPath
      <3>3. Below(i, q, 0) = {}
        BY <3>2 DEF Below
      <3>4. QED
        BY <3>1, <3>3, EnumeratesNone
    <2>2. QED
      BY <2>1
  <1>2. ASSUME NEW k \in 1 .. 3, k <= d, Holds(k - 1)
        PROVE  Holds(k)
    <2>1. SUFFICES ASSUME NEW q, IsPath(q), q[1] = NDirect + d, Len(q) + k = d + 1, BlockAt(i, q) # 0
                   PROVE  Enumerates(below[k][BlockAt(i, q)], Below(i, q, k), PlaceRows)
      OBVIOUS
    <2>2. NDirect \in Nat /\ q[1] > NDirect /\ Depth(q) = d
      <3>1. NDirect \in Nat /\ q[1] = NDirect + d
        BY <2>1, Sizes
      <3>2. QED
        BY <3>1 DEF Depth
    <2>3. Len(q) <= 3 /\ Len(q) \in 1 .. 4
      <3>1. Len(q) \in 1 .. 4
        BY <2>1 DEF IsPath
      <3>2. \A l \in 1 .. 4 : l + k = d + 1 => l <= 3
        OBVIOUS
      <3>3. QED
        BY <2>1, <3>1, <3>2
    <2>4. below[k][BlockAt(i, q)] = BlockRows(img, i, k, d, BlockAt(i, q), below[k - 1])
      BY <2>1, BlockAtTyped, RecursionIs
    <2> HIDE DEF below
    <2>5. ASSUME NEW n \in NonZero(BlockAt(i, q))
          PROVE  Enumerates(below[k - 1][BlockAt(i, Append(q, n))], Below(i, Append(q, n), k - 1), PlaceRows)
      <3>1. n \in 1 .. Pointers /\ Ptr(BlockAt(i, q), n) # 0
        BY DEF NonZero
      <3>2. /\ Len(Append(q, n)) = Len(q) + 1 /\ IsPath(Append(q, n)) /\ Append(q, n)[1] = q[1]
            /\ BlockAt(i, Append(q, n)) = Ptr(BlockAt(i, q), n)
        BY <2>1, <2>3, <3>1, LongerPath
      <3>3. Len(Append(q, n)) + (k - 1) = d + 1
        <4>1. \A l \in 1 .. 4 : l + k = d + 1 => l + 1 + (k - 1) = d + 1
          OBVIOUS
        <4>2. QED
          BY <2>1, <2>3, <3>2, <4>1
      <3>4. QED
        BY <1>2, <2>1, <3>1, <3>2, <3>3
    <2>6. Enumerates(BlockRows(img, i, k, Depth(q), BlockAt(i, q), below[k - 1]), Below(i, q, k), PlaceRows)
      BY <2>1, <2>2, <2>3, <2>5, BlockListsBelow
    <2>7. QED
      BY <2>2, <2>4, <2>6
  <1> HIDE DEF Holds
  <1>3. Holds(1)
    <2>1. 1 - 1 = 0 /\ 1 <= d
      OBVIOUS
    <2>2. QED
      BY <1>1, <1>2, <2>1
  <1>4. d >= 2 => Holds(2)
    <2>1. 2 - 1 = 1
      OBVIOUS
    <2>2. QED
      BY <1>2, <1>3, <2>1
  <1>5. d >= 3 => Holds(3)
    <2>1. 3 - 1 = 2 /\ (d >= 3 => d >= 2)
      OBVIOUS
    <2>2. QED
      BY <1>2, <1>4, <2>1
  <1>6. ASSUME NEW k \in 0 .. d
        PROVE  Holds(k)
    <2>1. k = 0 \/ k = 1 \/ (k = 2 /\ d >= 2) \/ (k = 3 /\ d >= 3)
      OBVIOUS
    <2>2. QED
      BY <1>1, <1>3, <1>4, <1>5, <2>1
  <1>7. QED
    BY <1>6 DEF Holds

\* The pointers of inode i behind which there is something, below its own of level d.
LEMMA IndirectListed ==
  ASSUME IsImage(img), NEW i \in Inodes, NEW d \in 1 .. 3
  PROVE  Enumerates(IndirectRows(img, i, d), Below(i, <<NDirect + d>>, d), PlaceRows)
  <1> DEFINE q == <<NDirect + d>>
  <1>1. NDirect \in Nat /\ NDirect + d \in Int /\ NDirect + d \in 1 .. NDirect + 3
    BY Sizes
  <1>2. q \in Seq(Int) /\ Len(q) = 1 /\ q[1] = NDirect + d
    BY <1>1
  <1> HIDE DEF q
  <1>3. IsPath(q)
    BY <1>1, <1>2 DEF IsPath
  <1>4. BlockAt(i, q) = img.inode[i].block[NDirect + d]
    BY <1>2 DEF BlockAt
  <1>5. CASE BlockAt(i, q) = 0
    <2>1. \A path \in Seq(Int) : IsPath(path) /\ Begins(q, path) => BlockAt(i, path) = 0
      BY <1>2, <1>5, NothingBelowZero DEF IsPath
    <2>2. Below(i, q, d) = {}
      BY <2>1 DEF Below
    <2>3. IndirectRows(img, i, d) = <<>>
      BY <1>4, <1>5 DEF IndirectRows
    <2>4. QED
      BY <2>2, <2>3, EnumeratesNone DEF q
  <1>6. CASE BlockAt(i, q) # 0
    <2>1. IndirectRows(img, i, d) = RecurseInode(img, i, d)[d][BlockAt(i, q)]
      BY <1>4, <1>6 DEF IndirectRows
    <2>2. Len(q) + d = d + 1 /\ d \in 0 .. d
      BY <1>2
    <2>3. Enumerates(RecurseInode(img, i, d)[d][BlockAt(i, q)], Below(i, q, d), PlaceRows)
      BY <1>2, <1>3, <1>6, <2>2, RecursionListsBelow
    <2>4. QED
      BY <2>1, <2>3 DEF q
  <1>7. QED
    BY <1>5, <1>6

-----------------------------------------------------------------------------
(* The places of all rows, and the rows in the file *)

\* The positions of the entries that are printed of a directory.
Shown(i) ==
  LET entries == ReadEntries(img, i)
  IN  IF FileType(img.inode[i].mode) # "d" THEN {}
      ELSE {n \in DOMAIN entries : \A m \in DOMAIN entries : entries[m].inode = 0 => n < m}

FreePlaces(kind, free) == {<<kind, n, <<>>>> : n \in free}
DirentPlaces(i) == {<<"DIRENT", i, <<n>>>> : n \in Shown(i)}
PointerPlaces(i) == UNION {Below(i, <<NDirect + d>>, d) : d \in 1 .. 3}
InodePlaces(i) ==
  IF ~InUse(img, i) THEN {} ELSE {<<"INODE", i, <<>>>>} \cup DirentPlaces(i) \cup PointerPlaces(i)

GroupPlaces(m) ==
  CASE m = 1 -> {<<"SUPERBLOCK", 0, <<>>>>} [] m = 2 -> {<<"GROUP", 0, <<>>>>}
    [] m = 3 -> FreePlaces("BFREE", img.bfree) \cup FreePlaces("IFREE", img.ifree)
    [] m = 4 -> UNION {InodePlaces(i) : i \in Inodes}

Places == UNION {GroupPlaces(m) : m \in 1 .. 4}

GroupOf(kind) ==
  CASE kind = "SUPERBLOCK" -> 1 [] kind = "GROUP" -> 2 [] kind \in {"BFREE", "IFREE"} -> 3 [] OTHER -> 4

\* A sequence that is g of distinct members.
LEMMA EnumeratesImage ==
  ASSUME NEW g, NEW K \in Nat, NEW pl, \A n \in 1 .. K : pl[n] \in DOMAIN g,
         \A m, n \in 1 .. K : pl[m] = pl[n] => m = n
  PROVE  Enumerates([n \in 1 .. K |-> g[pl[n]]], {pl[n] : n \in 1 .. K}, g)
  <1> DEFINE s == [n \in 1 .. K |-> g[pl[n]]]
  <1> DEFINE R == {pl[n] : n \in 1 .. K}
  <1> DEFINE h == [n \in 1 .. K |-> pl[n]]
  <1>1. s \in [1 .. K -> ValuesOf(g)]
    BY DEF ValuesOf
  <1>2. s \in Seq(ValuesOf(g)) /\ Len(s) = K
    BY <1>1, FunctionsAreSequences
  <1>3. \A n \in 1 .. K : s[n] = g[h[n]] /\ h[n] = pl[n]
    OBVIOUS
  <1>4. h \in [1 .. K -> R] /\ R \subseteq DOMAIN g
    OBVIOUS
  <1> HIDE DEF s, h
  <1>5. Numbering(h, s, R, g)
    BY <1>2, <1>3, <1>4 DEF Numbering
  <1>6. QED
    BY <1>2, <1>4, <1>5 DEF Enumerates, s

LEMMA FreeListed ==
  ASSUME NEW kind \in {"BFREE", "IFREE"}, NEW free \in SUBSET (1 .. NBlocks)
  PROVE  Enumerates(BitRows(kind, free), FreePlaces(kind, free), PlaceRows)
  <1> DEFINE f == [n \in 1 .. NBlocks |-> IF n \in free THEN <<[row |-> kind, num |-> n]>> ELSE <<>>]
  <1> DEFINE R == [n \in 1 .. NBlocks |-> IF n \in free THEN {<<kind, n, <<>>>>} ELSE {}]
  <1>1. NBlocks \in Nat
    BY Sizes
  <1>2. BitRows(kind, free) = Rolled(f, NBlocks)
    BY RowsRolled DEF BitRows
  <1>3. UNION {R[n] : n \in 1 .. NBlocks} = FreePlaces(kind, free)
    BY DEF FreePlaces
  <1>4. ASSUME NEW n \in 1 .. NBlocks
        PROVE  Enumerates(f[n], R[n], PlaceRows)
    <2>1. CASE n \in free
      <3>1. n \in Int /\ kind \in Kinds /\ <<>> \in Seq(Int)
        BY DEF Kinds
      <3>2. <<kind, n, <<>>>> \in DOMAIN PlaceRows /\ PlaceRows[<<kind, n, <<>>>>] = RowAt(<<kind, n, <<>>>>)
        BY <3>1, PlaceRowsAt
      <3>3. RowAt(<<kind, n, <<>>>>) = [row |-> kind, num |-> n]
        BY DEF RowAt
      <3>4. f[n] = <<PlaceRows[<<kind, n, <<>>>>]>> /\ R[n] = {<<kind, n, <<>>>>}
        BY <2>1, <3>2, <3>3
      <3>5. QED
        BY <3>2, <3>4, EnumeratesOne
    <2>2. CASE n \notin free
      <3>1. f[n] = <<>> /\ R[n] = {}
        BY <2>2
      <3>2. QED
        BY <3>1, EnumeratesNone
    <2>3. QED
      BY <2>1, <2>2
  <1>5. \A m, n \in 1 .. NBlocks : m # n => R[m] \cap R[n] = {}
    OBVIOUS
  <1> HIDE DEF f, R
  <1>6. Enumerates(Rolled(f, NBlocks), UNION {R[n] : n \in 1 .. NBlocks}, PlaceRows)
    BY <1>1, <1>4, <1>5, EnumeratesAll
  <1>7. QED
    BY <1>2, <1>3, <1>6

\* The entries shown of a directory are the first ones.
LEMMA ShownAreFirst ==
  ASSUME NEW entries \in Seq([inode : Nat, name : STRING])
  PROVE  \E K \in Nat : {n \in DOMAIN entries : \A m \in DOMAIN entries : entries[m].inode = 0 => n < m} = 1 .. K
  <1> DEFINE end == {n \in DOMAIN entries : entries[n].inode = 0}
  <1>1. DOMAIN entries = 1 .. Len(entries) /\ Len(entries) \in Nat
    OBVIOUS
  <1>2. CASE end = {}
    <2>1. {n \in DOMAIN entries : \A m \in DOMAIN entries : entries[m].inode = 0 => n < m} = 1 .. Len(entries)
      BY <1>1, <1>2
    <2>2. QED
      BY <1>1, <2>1
  <1>3. CASE end # {}
    <2>1. end \in SUBSET Nat
      BY <1>1
    <2>2. PICK z \in end : \A m \in end : z <= m
      BY <1>3, <2>1, LeastNatural
    <2>3. z \in Nat /\ z >= 1 /\ z <= Len(entries)
      BY <1>1
    <2>4. {n \in DOMAIN entries : \A m \in DOMAIN entries : entries[m].inode = 0 => n < m} = 1 .. z - 1
      BY <1>1, <2>2, <2>3
    <2>5. z - 1 \in Nat
      BY <2>3
    <2>6. QED
      BY <2>4, <2>5
  <1>4. QED
    BY <1>2, <1>3

LEMMA DirentsListed ==
  ASSUME IsImage(img), NEW i \in Inodes
  PROVE  Enumerates(DirentRows(img, i), DirentPlaces(i), PlaceRows)
  <1> DEFINE entries == ReadEntries(img, i)
  <1> DEFINE shown == {n \in DOMAIN entries : \A m \in DOMAIN entries : entries[m].inode = 0 => n < m}
  <1>1. CASE FileType(img.inode[i].mode) # "d"
    <2>1. DirentRows(img, i) = <<>> /\ Shown(i) = {}
      BY <1>1 DEF DirentRows, Shown
    <2>2. DirentPlaces(i) = {}
      BY <2>1 DEF DirentPlaces
    <2>3. QED
      BY <2>1, <2>2, EnumeratesNone
  <1>2. CASE FileType(img.inode[i].mode) = "d"
    <2>1. entries \in Seq([inode : Nat, name : STRING])
      BY DEF IsImage, ReadEntries
    <2>2. PICK K \in Nat : shown = 1 .. K
      <3> HIDE DEF entries
      <3>1. QED
        BY <2>1, ShownAreFirst
    <2>3. Shown(i) = 1 .. K
      BY <1>2, <2>2 DEF Shown
    <2> DEFINE pl == [n \in 1 .. K |-> <<"DIRENT", i, <<n>>>>]
    <2>4. ASSUME NEW n \in 1 .. K
          PROVE  pl[n] \in DOMAIN PlaceRows /\ PlaceRows[pl[n]] = DirentRow(i, n)
      <3>1. i \in Int /\ <<n>> \in Seq(Int) /\ "DIRENT" \in Kinds
        BY Sizes DEF Inodes, Kinds
      <3>2. <<"DIRENT", i, <<n>>>> \in DOMAIN PlaceRows
            /\ PlaceRows[<<"DIRENT", i, <<n>>>>] = RowAt(<<"DIRENT", i, <<n>>>>)
        BY <3>1, PlaceRowsAt
      <3>3. RowAt(<<"DIRENT", i, <<n>>>>) = DirentRow(i, n)
        BY DEF RowAt
      <3>4. QED
        BY <3>2, <3>3
    <2>5. \A m, n \in 1 .. K : pl[m] = pl[n] => m = n
      OBVIOUS
    <2>6. DirentPlaces(i) = {pl[n] : n \in 1 .. K}
      BY <2>3 DEF DirentPlaces
    <2>7. DirentRows(img, i) = [n \in 1 .. K |-> PlaceRows[pl[n]]]
      <3>1. DirentRows(img, i) = [n \in shown |-> [row |-> "DIRENT", dir |-> i, num |-> entries[n].inode,
                                                   name |-> entries[n].name]]
        <4>1. {n \in DOMAIN entries : \A m \in {n_1 \in DOMAIN entries : entries[n_1].inode = 0} : n < m} = shown
          OBVIOUS
        <4>2. QED
          BY <1>2, <4>1 DEF DirentRows
      <3>2. \A n \in 1 .. K : PlaceRows[pl[n]] = [row |-> "DIRENT", dir |-> i, num |-> entries[n].inode,
                                                   name |-> entries[n].name]
        BY <2>4 DEF DirentRow
      <3> HIDE DEF entries, shown, pl
      <3>3. QED
        BY <2>2, <3>1, <3>2
    <2> HIDE DEF pl
    <2>8. \A n \in 1 .. K : pl[n] \in DOMAIN PlaceRows
      BY <2>4
    <2>9. Enumerates([n \in 1 .. K |-> PlaceRows[pl[n]]], {pl[n] : n \in 1 .. K}, PlaceRows)
      BY <2>5, <2>8, EnumeratesImage
    <2>10. QED
      BY <2>6, <2>7, <2>9
  <1>3. QED
    BY <1>1, <1>2

\* What is known of the members of each kind of place.
LEMMA PlacesOfKind ==
  /\ \A kind, free : \A p \in FreePlaces(kind, free) : p[1] = kind /\ p[2] \in free
  /\ \A i : \A p \in DirentPlaces(i) : p[1] = "DIRENT" /\ p[2] = i
  /\ \A i, q, k : \A p \in Below(i, q, k) : p[1] = "INDIRECT" /\ p[2] = i /\ Begins(q, p[3])
  /\ \A i : \A p \in PointerPlaces(i) : p[1] = "INDIRECT" /\ p[2] = i
  /\ \A i : \A p \in InodePlaces(i) : p[1] \in {"INODE", "DIRENT", "INDIRECT"} /\ p[2] = i
  <1>1. \A kind, free : \A p \in FreePlaces(kind, free) : p[1] = kind /\ p[2] \in free
    BY DEF FreePlaces
  <1>2. \A i : \A p \in DirentPlaces(i) : p[1] = "DIRENT" /\ p[2] = i
    BY DEF DirentPlaces
  <1>3. \A i, q, k : \A p \in Below(i, q, k) : p[1] = "INDIRECT" /\ p[2] = i /\ Begins(q, p[3])
    BY DEF Below
  <1>4. \A i : \A p \in PointerPlaces(i) : p[1] = "INDIRECT" /\ p[2] = i
    BY <1>3 DEF PointerPlaces
  <1>5. ASSUME NEW i, NEW p \in InodePlaces(i)
        PROVE  p[1] \in {"INODE", "DIRENT", "INDIRECT"} /\ p[2] = i
    <2>1. p = <<"INODE", i, <<>>>> \/ p \in DirentPlaces(i) \/ p \in PointerPlaces(i)
      BY DEF InodePlaces
    <2>2. QED
      BY <1>2, <1>4, <2>1
  <1>6. QED
    BY <1>1, <1>2, <1>3, <1>4, <1>5

LEMMA PointersListed ==
  ASSUME IsImage(img), NEW i \in Inodes
  PROVE  Enumerates(RowsOf([level \in 1 .. 3 |-> IndirectRows(img, i, level)], 3), PointerPlaces(i), PlaceRows)
  <1> DEFINE f == [level \in 1 .. 3 |-> IndirectRows(img, i, level)]
  <1> DEFINE R == [d \in 1 .. 3 |-> Below(i, <<NDirect + d>>, d)]
  <1>1. \A d \in 1 .. 3 : Enumerates(f[d], R[d], PlaceRows)
    BY IndirectListed
  <1>2. ASSUME NEW c \in 1 .. 3, NEW d \in 1 .. 3, NEW p \in R[c] \cap R[d]
        PROVE  c = d
    <2>1. Begins(<<NDirect + c>>, p[3]) /\ Begins(<<NDirect + d>>, p[3])
      BY PlacesOfKind
    <2>2. p[3][1] = NDirect + c /\ p[3][1] = NDirect + d
      BY <2>1 DEF Begins
    <2>3. NDirect \in Nat
      BY Sizes
    <2>4. QED
      BY <2>2, <2>3
  <1>3. \A c, d \in 1 .. 3 : c # d => R[c] \cap R[d] = {}
    BY <1>2
  <1>4. UNION {R[d] : d \in 1 .. 3} = PointerPlaces(i)
    BY DEF PointerPlaces
  <1>5. RowsOf(f, 3) = Rolled(f, 3)
    BY RowsRolled
  <1> HIDE DEF f, R
  <1>6. Enumerates(Rolled(f, 3), UNION {R[d] : d \in 1 .. 3}, PlaceRows)
    BY <1>1, <1>3, EnumeratesAll
  <1>7. QED
    BY <1>4, <1>5, <1>6 DEF f

LEMMA InodeListed ==
  ASSUME IsImage(img), NEW i \in Inodes
  PROVE  Enumerates(InodeRows(img, i), InodePlaces(i), PlaceRows)
  <1> DEFINE p == <<"INODE", i, <<>>>>
  <1> DEFINE pointers == RowsOf([level \in 1 .. 3 |-> IndirectRows(img, i, level)], 3)
  <1>1. CASE ~InUse(img, i)
    BY <1>1, EnumeratesNone DEF InodeRows, InodePlaces
  <1>2. CASE InUse(img, i)
    <2>1. p \in DOMAIN PlaceRows /\ PlaceRows[p] = InodeRow(img, i)
      <3>1. i \in Int /\ <<>> \in Seq(Int) /\ "INODE" \in Kinds
        BY Sizes DEF Inodes, Kinds
      <3>2. RowAt(p) = InodeRow(img, i)
        BY DEF RowAt
      <3>3. QED
        BY <3>1, <3>2, PlaceRowsAt
    <2>2. Enumerates(<<InodeRow(img, i)>>, {p}, PlaceRows)
      <3> HIDE DEF p
      <3>1. Enumerates(<<PlaceRows[p]>>, {p}, PlaceRows)
        BY <2>1, EnumeratesOne
      <3>2. QED
        BY <2>1, <3>1
    <2>3. {p} \cap DirentPlaces(i) = {} /\ ({p} \cup DirentPlaces(i)) \cap PointerPlaces(i) = {}
      BY PlacesOfKind
    <2>4. Enumerates(<<InodeRow(img, i)>> \o DirentRows(img, i), {p} \cup DirentPlaces(i), PlaceRows)
      BY <2>2, <2>3, DirentsListed, EnumeratesConcat
    <2>5. Enumerates(pointers, PointerPlaces(i), PlaceRows)
      BY PointersListed
    <2> HIDE DEF p, pointers
    <2>6. Enumerates((<<InodeRow(img, i)>> \o DirentRows(img, i)) \o pointers,
                     ({p} \cup DirentPlaces(i)) \cup PointerPlaces(i), PlaceRows)
      BY <2>3, <2>4, <2>5, EnumeratesConcat
    <2>7. QED
      BY <1>2, <2>6 DEF InodeRows, InodePlaces, p, pointers
  <1>3. QED
    BY <1>1, <1>2

LEMMA InodesListed ==
  ASSUME IsImage(img)
  PROVE  Enumerates(AllInodeRows(img), UNION {InodePlaces(i) : i \in Inodes}, PlaceRows)
  <1> DEFINE f == [i \in Inodes |-> InodeRows(img, i)]
  <1> DEFINE R == [i \in Inodes |-> InodePlaces(i)]
  <1>1. Inodes = 1 .. NInodes /\ NInodes \in Nat
    BY Sizes DEF Inodes
  <1>2. \A i \in Inodes : Enumerates(f[i], R[i], PlaceRows)
    BY InodeListed
  <1>3. \A i, j \in Inodes : i # j => R[i] \cap R[j] = {}
    BY PlacesOfKind
  <1>4. UNION {R[i] : i \in Inodes} = UNION {InodePlaces(i) : i \in Inodes}
    OBVIOUS
  <1>5. AllInodeRows(img) = Rolled(f, NInodes)
    BY RowsRolled DEF AllInodeRows
  <1> HIDE DEF f, R
  <1>6. Enumerates(Rolled(f, NInodes), UNION {R[i] : i \in 1 .. NInodes}, PlaceRows)
    BY <1>1, <1>2, <1>3, EnumeratesAll
  <1>7. QED
    BY <1>1, <1>4, <1>5, <1>6

LEMMA GroupListed ==
  ASSUME IsImage(img), NEW m \in 1 .. 4
  PROVE  Enumerates(Groups(img)[m], GroupPlaces(m), PlaceRows)
  <1>1. 0 \in Int /\ <<>> \in Seq(Int) /\ "SUPERBLOCK" \in Kinds /\ "GROUP" \in Kinds
    BY DEF Kinds
  <1>2. CASE m = 1
    <2>1. Groups(img)[1] = <<SuperRow>> /\ GroupPlaces(1) = {<<"SUPERBLOCK", 0, <<>>>>}
      BY DEF Groups, GroupPlaces
    <2>2. RowAt(<<"SUPERBLOCK", 0, <<>>>>) = SuperRow
      BY DEF RowAt
    <2>3. QED
      BY <1>1, <1>2, <2>1, <2>2, PlaceRowsAt, EnumeratesOne
  <1>3. CASE m = 2
    <2>1. Groups(img)[2] = <<GroupRow>> /\ GroupPlaces(2) = {<<"GROUP", 0, <<>>>>}
      BY DEF Groups, GroupPlaces
    <2>2. RowAt(<<"GROUP", 0, <<>>>>) = GroupRow
      BY DEF RowAt
    <2>3. QED
      BY <1>1, <1>3, <2>1, <2>2, PlaceRowsAt, EnumeratesOne
  <1>4. CASE m = 3
    <2>1. Groups(img)[3] = FreeRows(img)
          /\ GroupPlaces(3) = FreePlaces("BFREE", img.bfree) \cup FreePlaces("IFREE", img.ifree)
      BY DEF Groups, GroupPlaces
    <2>2. img.bfree \in SUBSET (1 .. NBlocks) /\ img.ifree \in SUBSET (1 .. NBlocks)
      BY Sizes DEF IsImage, Inodes
    <2>3. /\ Enumerates(BitRows("BFREE", img.bfree), FreePlaces("BFREE", img.bfree), PlaceRows)
          /\ Enumerates(BitRows("IFREE", img.ifree), FreePlaces("IFREE", img.ifree), PlaceRows)
      BY <2>2, FreeListed
    <2>4. FreePlaces("BFREE", img.bfree) \cap FreePlaces("IFREE", img.ifree) = {}
      BY PlacesOfKind
    <2>5. Enumerates(BitRows("BFREE", img.bfree) \o BitRows("IFREE", img.ifree),
                     FreePlaces("BFREE", img.bfree) \cup FreePlaces("IFREE", img.ifree), PlaceRows)
      BY <2>3, <2>4, EnumeratesConcat
    <2>6. QED
      BY <1>4, <2>1, <2>5 DEF FreeRows
  <1>5. CASE m = 4
    <2>1. Groups(img)[4] = AllInodeRows(img) /\ GroupPlaces(4) = UNION {InodePlaces(i) : i \in Inodes}
      BY DEF Groups, GroupPlaces
    <2>2. QED
      BY <1>5, <2>1, InodesListed
  <1>6. QED
    BY <1>2, <1>3, <1>4, <1>5

LEMMA PlacesOfGroup ==
  \A m \in 1 .. 4 : \A p \in GroupPlaces(m) : GroupOf(p[1]) = m
  <1>1. \A p \in GroupPlaces(1) : GroupOf(p[1]) = 1
    BY DEF GroupPlaces, GroupOf
  <1>2. \A p \in GroupPlaces(2) : GroupOf(p[1]) = 2
    BY DEF GroupPlaces, GroupOf
  <1>3. ASSUME NEW p \in GroupPlaces(3)
        PROVE  GroupOf(p[1]) = 3
    <2>1. p \in FreePlaces("BFREE", img.bfree) \/ p \in FreePlaces("IFREE", img.ifree)
      BY DEF GroupPlaces
    <2>2. p[1] = "BFREE" \/ p[1] = "IFREE"
      BY <2>1, PlacesOfKind
    <2>3. QED
      BY <2>2 DEF GroupOf
  <1>4. ASSUME NEW p \in GroupPlaces(4)
        PROVE  GroupOf(p[1]) = 4
    <2>1. \E i \in Inodes : p \in InodePlaces(i)
      BY DEF GroupPlaces
    <2>2. p[1] \in {"INODE", "DIRENT", "INDIRECT"}
      BY <2>1, PlacesOfKind
    <2>3. QED
      BY <2>2 DEF GroupOf
  <1>5. QED
    BY <1>1, <1>2, <1>3, <1>4

\* The row of a place has its kind.
LEMMA RowOfPlace ==
  ASSUME NEW p \in DOMAIN PlaceRows
  PROVE  PlaceRows[p] = RowAt(p) /\ PlaceRows[p].row = p[1]
  <1>1. PlaceRows[p] = RowAt(p) /\ p \in Kinds \X Int \X Seq(Int)
    BY DEF PlaceRows
  <1>2. p[1] \in Kinds
    BY <1>1
  <1>3. RowAt(p).row = p[1]
    <2>1. CASE p[1] = "SUPERBLOCK"
      BY <2>1 DEF RowAt, SuperRow
    <2>2. CASE p[1] = "GROUP"
      BY <2>2 DEF RowAt, GroupRow
    <2>3. CASE p[1] = "INODE"
      BY <2>3 DEF RowAt, InodeRow
    <2>4. CASE p[1] = "DIRENT"
      BY <2>4 DEF RowAt, DirentRow
    <2>5. CASE p[1] = "INDIRECT"
      BY <2>5 DEF RowAt, PointerRow, IndirectRow
    <2>6. CASE p[1] \in {"BFREE", "IFREE"}
      BY <2>6 DEF RowAt
    <2>7. QED
      BY <1>2, <2>1, <2>2, <2>3, <2>4, <2>5, <2>6 DEF Kinds
  <1>4. QED
    BY <1>1, <1>3

-----------------------------------------------------------------------------
(* The file *)

Orders == {p \in [1 .. 4 -> 1 .. 4] : \A m, n \in 1 .. 4 : p[m] = p[n] => m = n}

FileOf(image, ord) ==
  LET groups == Groups(image)
  IN  RowsOf([n \in 1 .. 4 |-> groups[CHOOSE m \in 1 .. 4 : ord[m] = n]], 4)

\* What does not change.
FileGiven == img \in Images /\ order \in Orders /\ rows = FileOf(img, order)

\* The groups are in their order.
InOrder ==
  \A j, k \in 1 .. Len(rows) : j <= k => order[GroupOf(rows[j].row)] <= order[GroupOf(rows[k].row)]

LEMMA OrderInverse ==
  ASSUME NEW ord \in Orders, NEW n \in 1 .. 4
  PROVE  \E m \in 1 .. 4 : ord[m] = n
  <1>1. ord[1] \in 1 .. 4 /\ ord[2] \in 1 .. 4 /\ ord[3] \in 1 .. 4 /\ ord[4] \in 1 .. 4
    BY DEF Orders
  <1>2. /\ ord[1] # ord[2] /\ ord[1] # ord[3] /\ ord[1] # ord[4]
        /\ ord[2] # ord[3] /\ ord[2] # ord[4] /\ ord[3] # ord[4]
    BY DEF Orders
  <1>3. ord[1] = n \/ ord[2] = n \/ ord[3] = n \/ ord[4] = n
    BY <1>1, <1>2
  <1>4. QED
    BY <1>3

\* Every place has one row in the file, and every row is one of a place.
LEMMA RowsListed ==
  ASSUME FileGiven
  PROVE  Enumerates(rows, Places, PlaceRows) /\ InOrder
  <1> DEFINE inv(n) == CHOOSE m \in 1 .. 4 : order[m] = n
  <1> DEFINE f == [n \in 1 .. 4 |-> Groups(img)[inv(n)]]
  <1> DEFINE R == [n \in 1 .. 4 |-> GroupPlaces(inv(n))]
  <1>1. IsImage(img) /\ order \in Orders
    BY ImagesAssumption DEF FileGiven
  <1>2. \A n \in 1 .. 4 : inv(n) \in 1 .. 4 /\ order[inv(n)] = n
    BY <1>1, OrderInverse
  <1>3. \A m \in 1 .. 4 : order[m] \in 1 .. 4 /\ inv(order[m]) = m
    <2>1. TAKE m \in 1 .. 4
    <2>2. order[m] \in 1 .. 4
      BY <1>1 DEF Orders
    <2>3. inv(order[m]) \in 1 .. 4 /\ order[inv(order[m])] = order[m]
      BY <1>2, <2>2
    <2>4. QED
      BY <1>1, <2>2, <2>3 DEF Orders
  <1>4. rows = Rolled(f, 4)
    BY RowsRolled DEF FileGiven, FileOf
  <1> HIDE DEF inv
  <1>5. \A n \in 1 .. 4 : Enumerates(f[n], R[n], PlaceRows)
    BY <1>1, <1>2, GroupListed
  <1>6. \A m, n \in 1 .. 4 : m # n => R[m] \cap R[n] = {}
    <2>1. ASSUME NEW m \in 1 .. 4, NEW n \in 1 .. 4, NEW p \in R[m] \cap R[n]
          PROVE  m = n
      <3>1. GroupOf(p[1]) = inv(m) /\ GroupOf(p[1]) = inv(n)
        BY <1>2, PlacesOfGroup
      <3>2. QED
        BY <1>2, <3>1
    <2>2. QED
      BY <2>1
  <1>7. UNION {R[n] : n \in 1 .. 4} = Places
    <2>1. ASSUME NEW p \in Places
          PROVE  \E n \in 1 .. 4 : p \in R[n]
      <3>1. PICK m \in 1 .. 4 : p \in GroupPlaces(m)
        BY DEF Places
      <3>2. R[order[m]] = GroupPlaces(m) /\ order[m] \in 1 .. 4
        BY <1>3
      <3>3. QED
        BY <3>1, <3>2
    <2>2. \A n \in 1 .. 4 : R[n] \subseteq Places
      BY <1>2 DEF Places
    <2>3. QED
      BY <2>1, <2>2
  <1>8. \A n \in 1 .. 4 : R[n] = GroupPlaces(inv(n))
    OBVIOUS
  <1> HIDE DEF f, R
  <1>9. Enumerates(rows, Places, PlaceRows)
    <2>1. Enumerates(Rolled(f, 4), UNION {R[n] : n \in 1 .. 4}, PlaceRows)
      BY <1>5, <1>6, EnumeratesAll
    <2>2. QED
      BY <1>4, <1>7, <2>1
  <1>10. \A m \in 1 .. 4 : f[m] \in Seq(ValuesOf(PlaceRows))
    BY <1>5 DEF Enumerates
  <1>11. PICK w : ComesFrom(w, rows, f, 4)
    BY <1>4, <1>10, RolledComesFrom
  <1>12. ASSUME NEW k \in 1 .. Len(rows)
         PROVE  order[GroupOf(rows[k].row)] = w[k] /\ w[k] \in 1 .. 4
    <2>1. w[k] \in 1 .. 4
      BY <1>11 DEF ComesFrom
    <2>2. PICK n \in 1 .. Len(f[w[k]]) : rows[k] = f[w[k]][n]
      BY <1>11 DEF ComesFrom
    <2>3. PICK p \in R[w[k]] : rows[k] = PlaceRows[p]
      BY <1>5, <2>1, <2>2, EnumeratesMembers
    <2>4. p \in DOMAIN PlaceRows
      BY <1>5, <2>1 DEF Enumerates
    <2>5. rows[k].row = p[1]
      BY <2>3, <2>4, RowOfPlace
    <2>6. GroupOf(p[1]) = inv(w[k])
      BY <1>2, <1>8, <2>1, PlacesOfGroup
    <2>7. QED
      BY <1>2, <2>1, <2>5, <2>6
  <1>13. InOrder
    <2>1. \A j, k \in 1 .. Len(rows) : j <= k => w[j] <= w[k]
      BY <1>11 DEF ComesFrom
    <2>2. QED
      BY <1>12, <2>1 DEF InOrder
  <1>14. QED
    BY <1>9, <1>13

LEMMA PointerPlacesAre ==
  ASSUME NEW i, NEW path
  PROVE  <<"INDIRECT", i, path>> \in PointerPlaces(i) <=>
           path \in Paths /\ Len(path) > 1 /\ BlockAt(i, path) # 0
  <1>1. NDirect \in Nat
    BY Sizes
  <1>2. \A d \in 1 .. 3 : <<NDirect + d>>[1] = NDirect + d /\ Len(<<NDirect + d>>) = 1
    OBVIOUS
  <1>3. ASSUME <<"INDIRECT", i, path>> \in PointerPlaces(i)
        PROVE  path \in Paths /\ Len(path) > 1 /\ BlockAt(i, path) # 0
    <2>1. PICK d \in 1 .. 3 : <<"INDIRECT", i, path>> \in Below(i, <<NDirect + d>>, d)
      BY <1>3 DEF PointerPlaces
    <2>2. IsPath(path) /\ Begins(<<NDirect + d>>, path) /\ Len(path) \in 1 + 1 .. 1 + d /\ BlockAt(i, path) # 0
      BY <2>1, <1>2 DEF Below
    <2>3. path[1] = NDirect + d
      BY <2>2, <1>2 DEF Begins
    <2>4. Depth(path) = d
      BY <1>1, <2>3 DEF Depth
    <2>5. Len(path) <= Depth(path) + 1 /\ Len(path) > 1
      BY <2>2, <2>4
    <2>6. QED
      BY <2>2, <2>5, PathsAre
  <1>4. ASSUME path \in Paths, Len(path) > 1, BlockAt(i, path) # 0
        PROVE  <<"INDIRECT", i, path>> \in PointerPlaces(i)
    <2>1. IsPath(path) /\ Len(path) <= Depth(path) + 1
      BY <1>4, PathsAre
    <2>2. Len(path) \in 2 .. 4 /\ path[1] \in 1 .. NDirect + 3
      BY <1>4, <2>1 DEF IsPath
    <2>3. Depth(path) \in 1 .. 3 /\ path[1] = NDirect + Depth(path)
      <3>1. \A m \in 1 .. NDirect + 3, l \in 2 .. 4 :
              l <= (IF m <= NDirect THEN 0 ELSE m - NDirect) + 1 =>
                ~(m <= NDirect) /\ m - NDirect \in 1 .. 3 /\ m = NDirect + (m - NDirect)
        BY <1>1
      <3>2. Len(path) <= (IF path[1] <= NDirect THEN 0 ELSE path[1] - NDirect) + 1
        BY <2>1 DEF Depth
      <3>3. ~(path[1] <= NDirect) /\ path[1] - NDirect \in 1 .. 3 /\ path[1] = NDirect + (path[1] - NDirect)
        BY <2>2, <3>1, <3>2
      <3>4. Depth(path) = path[1] - NDirect
        BY <3>3 DEF Depth
      <3>5. QED
        BY <3>3, <3>4
    <2>4. PICK d \in 1 .. 3 : d = Depth(path)
      BY <2>3
    <2>5. Begins(<<NDirect + d>>, path)
      BY <1>2, <2>2, <2>3, <2>4 DEF Begins
    <2>6. Len(path) \in Len(<<NDirect + d>>) + 1 .. Len(<<NDirect + d>>) + d
      <3>1. \A l \in 2 .. 4 : l <= d + 1 => l \in 1 + 1 .. 1 + d
        OBVIOUS
      <3>2. QED
        BY <1>2, <2>1, <2>2, <2>4, <3>1
    <2>7. path \in Seq(Int)
      BY <2>1 DEF IsPath
    <2>8. <<"INDIRECT", i, path>> \in Below(i, <<NDirect + d>>, d)
      BY <1>4, <2>1, <2>5, <2>6, <2>7 DEF Below
    <2>9. QED
      BY <2>8 DEF PointerPlaces
  <1>5. QED
    BY <1>3, <1>4

\* All that can be in a place.
LEMMA PlaceForms ==
  ASSUME NEW p \in Places
  PROVE  \/ p = <<"SUPERBLOCK", 0, <<>>>> \/ p = <<"GROUP", 0, <<>>>>
         \/ \E n \in img.bfree : p = <<"BFREE", n, <<>>>>
         \/ \E n \in img.ifree : p = <<"IFREE", n, <<>>>>
         \/ \E i \in Inodes :
              /\ InUse(img, i)
              /\ \/ p = <<"INODE", i, <<>>>>
                 \/ \E n \in Shown(i) : p = <<"DIRENT", i, <<n>>>>
                 \/ \E path \in Paths : Len(path) > 1 /\ BlockAt(i, path) # 0 /\ p = <<"INDIRECT", i, path>>
  <1>1. PICK m \in 1 .. 4 : p \in GroupPlaces(m)
    BY DEF Places
  <1>2. CASE m = 1
    BY <1>1, <1>2 DEF GroupPlaces
  <1>3. CASE m = 2
    BY <1>1, <1>3 DEF GroupPlaces
  <1>4. CASE m = 3
    BY <1>1, <1>4 DEF GroupPlaces, FreePlaces
  <1>5. CASE m = 4
    <2>1. PICK i \in Inodes : p \in InodePlaces(i)
      BY <1>1, <1>5 DEF GroupPlaces
    <2>2. InUse(img, i) /\ (p = <<"INODE", i, <<>>>> \/ p \in DirentPlaces(i) \/ p \in PointerPlaces(i))
      BY <2>1 DEF InodePlaces
    <2>3. CASE p \in DirentPlaces(i)
      BY <2>2, <2>3 DEF DirentPlaces
    <2>4. CASE p \in PointerPlaces(i)
      <3>1. \E path : p = <<"INDIRECT", i, path>>
        BY <2>4 DEF PointerPlaces, Below
      <3>2. QED
        BY <2>2, <2>4, <3>1, PointerPlacesAre
    <2>5. QED
      BY <2>2, <2>3, <2>4
  <1>6. QED
    BY <1>2, <1>3, <1>4, <1>5

LEMMA PlacesContain ==
  /\ <<"SUPERBLOCK", 0, <<>>>> \in Places /\ <<"GROUP", 0, <<>>>> \in Places
  /\ \A n \in img.bfree : <<"BFREE", n, <<>>>> \in Places
  /\ \A n \in img.ifree : <<"IFREE", n, <<>>>> \in Places
  /\ \A i \in Inodes : InUse(img, i) =>
       /\ <<"INODE", i, <<>>>> \in Places
       /\ \A n \in Shown(i) : <<"DIRENT", i, <<n>>>> \in Places
       /\ \A path \in Paths : Len(path) > 1 /\ BlockAt(i, path) # 0 => <<"INDIRECT", i, path>> \in Places
  <1>1. \A m \in 1 .. 4 : GroupPlaces(m) \subseteq Places
    BY DEF Places
  <1>2. GroupPlaces(3) \subseteq Places
    BY <1>1
  <1>3. <<"SUPERBLOCK", 0, <<>>>> \in Places /\ <<"GROUP", 0, <<>>>> \in Places
    <2>1. <<"SUPERBLOCK", 0, <<>>>> \in GroupPlaces(1) /\ <<"GROUP", 0, <<>>>> \in GroupPlaces(2)
      BY DEF GroupPlaces
    <2>2. QED
      BY <1>1, <2>1
  <1>4. \A n \in img.bfree : <<"BFREE", n, <<>>>> \in Places
    <2>1. \A n \in img.bfree : <<"BFREE", n, <<>>>> \in GroupPlaces(3)
      BY DEF GroupPlaces, FreePlaces
    <2>2. QED
      BY <1>2, <2>1
  <1>5. \A n \in img.ifree : <<"IFREE", n, <<>>>> \in Places
    <2>1. \A n \in img.ifree : <<"IFREE", n, <<>>>> \in GroupPlaces(3)
      BY DEF GroupPlaces, FreePlaces
    <2>2. QED
      BY <1>2, <2>1
  <1>6. ASSUME NEW i \in Inodes, InUse(img, i)
        PROVE  {<<"INODE", i, <<>>>>} \cup DirentPlaces(i) \cup PointerPlaces(i) \subseteq Places
    <2>1. InodePlaces(i) \subseteq GroupPlaces(4)
      BY DEF GroupPlaces
    <2>2. QED
      BY <1>1, <1>6, <2>1 DEF InodePlaces
  <1>7. ASSUME NEW i \in Inodes, InUse(img, i), NEW n \in Shown(i)
        PROVE  <<"DIRENT", i, <<n>>>> \in Places
    BY <1>6, <1>7 DEF DirentPlaces
  <1>8. ASSUME NEW i \in Inodes, InUse(img, i), NEW path \in Paths, Len(path) > 1, BlockAt(i, path) # 0
        PROVE  <<"INDIRECT", i, path>> \in Places
    BY <1>6, <1>8, PointerPlacesAre
  <1>9. QED
    BY <1>3, <1>4, <1>5, <1>6, <1>7, <1>8

\* What an INDIRECT row says.
LEMMA PointerRowIs ==
  ASSUME IsImage(img), NEW i \in Inodes, NEW path \in Paths, Len(path) > 1, BlockAt(i, path) # 0
  PROVE  LET row == PointerRow(i, path) IN
         /\ row.row = "INDIRECT" /\ row.num = i /\ row.block = BlockAt(i, path)
         /\ row.level = Depth(path) + 2 - Len(path)
         /\ row.offset = LogicalOffset(Depth(path) + 2 - Len(path), Depth(path), path[Len(path)] - 1)
  <1> DEFINE l == Len(path)
  <1> DEFINE q == SubSeq(path, 1, l - 1)
  <1>1. IsPath(path)
    BY PathsAre
  <1>2. path \in Seq(Int) /\ l \in 2 .. 4
    BY <1>1 DEF IsPath
  <1>3. q \in Seq(Int) /\ Len(q) = l - 1 /\ \A n \in 1 .. l - 1 : q[n] = path[n]
    BY <1>2
  <1>4. Len(q) \in 1 .. 3 /\ l = Len(q) + 1
    BY <1>2, <1>3
  <1> HIDE DEF q
  <1>5. Begins(q, path)
    BY <1>2, <1>3, <1>4 DEF Begins
  <1>6. IsPath(q)
    <2>1. q[1] \in 1 .. NDirect + 3
      BY <1>1, <1>2, <1>3 DEF IsPath
    <2>2. \A n \in 2 .. Len(q) : q[n] \in 1 .. Pointers
      BY <1>1, <1>2, <1>3 DEF IsPath
    <2>3. QED
      BY <1>3, <1>4, <2>1, <2>2 DEF IsPath
  <1>7. BlockAt(i, q) # 0
    <2>1. Len(q) \in 1 .. 4 /\ Len(path) \in 1 .. 4
      BY <1>2, <1>4
    <2>2. q \in Seq(Int) /\ path \in Seq(Int)
      BY <1>2, <1>3
    <2>3. BlockAt(i, q) = 0 => BlockAt(i, path) = 0
      BY <1>5, <2>1, <2>2, NothingBelowZero
    <2>4. QED
      BY <2>3
  <1>8. BlockAt(i, path) = Follow(BlockAt(i, q), path[Len(q) + 1])
    BY <1>2, <1>3, <1>4, <1>5, BlockAtStep
  <1>9. path[l] \in 1 .. Pointers
    BY <1>1, <1>2 DEF IsPath
  <1>10. BlockAt(i, path) = Ptr(BlockAt(i, q), path[l])
    <2>1. BlockAt(i, q) \in Int
      BY <1>6, BlockAtTyped
    <2>2. QED
      BY <1>4, <1>7, <1>8, <1>9, <2>1, FollowTyped
  <1>11. QED
    BY <1>10 DEF PointerRow, IndirectRow, Ptr, q

\* The first offsets, by level and depth.
LEMMA LogicalOffsets ==
  ASSUME NEW n \in Int
  PROVE  LET P == Pointers
             start == NDirect + P + P * P IN
         /\ LogicalOffset(1, 1, n) = NDirect + n /\ LogicalOffset(1, 2, n) = NDirect + P + n
         /\ LogicalOffset(1, 3, n) = start + n /\ LogicalOffset(2, 2, n) = NDirect + P + n * P
         /\ LogicalOffset(2, 3, n) = start + n * P /\ LogicalOffset(3, 3, n) = start + n * (P * P)
  <1>1. NDirect \in Nat /\ Pointers \in Nat
    BY Sizes
  <1>2. PICK Q \in Nat : Q = Pointers * Pointers
    BY <1>1
  <1>3. Pointers * n = n * Pointers /\ Q * n = n * Q
    BY <1>1
  <1>4. PICK w \in Int, v \in Int : w = n * Pointers /\ v = n * Q
    BY <1>1
  <1>5. LogicalOffset(1, 1, n) = NDirect + n /\ LogicalOffset(1, 2, n) = NDirect + Pointers + n
    BY DEF LogicalOffset
  <1>6. LogicalOffset(1, 3, n) = NDirect + Pointers + Pointers * Pointers + n
    BY DEF LogicalOffset
  <1>7. LogicalOffset(2, 2, n) = NDirect + Pointers + n * Pointers
    <2>1. LogicalOffset(2, 2, n) = NDirect + Pointers + Pointers * n + 0
      BY <1>1 DEF LogicalOffset
    <2>2. NDirect + Pointers + w + 0 = NDirect + Pointers + w
      BY <1>1
    <2>3. QED
      BY <1>3, <1>4, <2>1, <2>2
  <1>8. LogicalOffset(2, 3, n) = NDirect + Pointers + Pointers * Pointers + n * Pointers
    <2>1. LogicalOffset(2, 3, n) = NDirect + Pointers + Pointers * n + Pointers * Pointers
      BY DEF LogicalOffset
    <2>2. NDirect + Pointers + w + Q = NDirect + Pointers + Q + w
      BY <1>1
    <2>3. QED
      BY <1>2, <1>3, <1>4, <2>1, <2>2
  <1>9. LogicalOffset(3, 3, n) = NDirect + Pointers + Pointers * Pointers + n * (Pointers * Pointers)
    <2>1. LogicalOffset(3, 3, n) = NDirect + Pointers + Pointers * Pointers + (Pointers * Pointers) * n
      BY DEF LogicalOffset
    <2>2. QED
      BY <1>2, <1>3, <2>1
  <1>10. QED
    BY <1>5, <1>6, <1>7, <1>8, <1>9

LEMMA OffsetsAre ==
  ASSUME NEW path \in Paths, Len(path) > 1, \A n \in 2 .. Len(path) - 1 : path[n] = 1
  PROVE  LogicalOffset(Depth(path) + 2 - Len(path), Depth(path), path[Len(path)] - 1) = OffsetOf(path)
  <1> DEFINE P == Pointers
  <1> DEFINE start == NDirect + P + P * P
  <1>1. IsPath(path) /\ Len(path) <= Depth(path) + 1
    BY PathsAre
  <1>2. NDirect \in Nat /\ Pointers \in Nat /\ P * P \in Nat /\ start \in Nat
    BY Sizes
  <1>3. Len(path) \in 2 .. 4 /\ path[1] \in 1 .. NDirect + 3
    BY <1>1 DEF IsPath
  <1>4. Depth(path) \in 1 .. 3
    <2>1. \A m \in 1 .. NDirect + 3, l \in 2 .. 4 :
            l <= (IF m <= NDirect THEN 0 ELSE m - NDirect) + 1 => (IF m <= NDirect THEN 0 ELSE m - NDirect) \in 1 .. 3
      BY <1>2
    <2>2. Len(path) <= (IF path[1] <= NDirect THEN 0 ELSE path[1] - NDirect) + 1
      BY <1>1 DEF Depth
    <2>3. QED
      BY <1>3, <2>1, <2>2 DEF Depth
  <1>5. PICK d \in 1 .. 3 : d = Depth(path)
    BY <1>4
  <1>6. path[Len(path)] - 1 \in Int
    BY <1>1, <1>3 DEF IsPath
  <1>7. PICK n \in Int : n = path[Len(path)] - 1
    BY <1>6
  <1>8. n * 1 = n /\ n * P \in Int /\ n * (P * P) \in Int /\ \A m \in Nat : m + 0 = m
    BY <1>2
  <1> DEFINE span == <<1, P, P * P>>
  <1>9. span[1] = 1 /\ span[2] = P /\ span[3] = P * P
    OBVIOUS
  <1>10. CASE Len(path) = 2
    <2>1. OffsetOf(path) = (CASE d = 1 -> NDirect [] d = 2 -> NDirect + P [] d = 3 -> start) + n * span[d + 2 - 2]
      BY <1>5, <1>7, <1>10 DEF OffsetOf
    <2> HIDE DEF span, start
    <2>2. CASE d = 1
      <3>1. d + 2 - 2 = 1 /\ n * span[1] = n
        BY <1>8, <1>9, <2>2
      <3>2. LogicalOffset(1, 1, n) = NDirect + n
        BY LogicalOffsets
      <3>3. OffsetOf(path) = NDirect + n
        BY <2>1, <1>2, <1>8, <2>2, <3>1
      <3>4. QED
        BY <1>5, <1>7, <1>10, <2>2, <3>1, <3>2, <3>3
    <2>3. CASE d = 2
      <3>1. d + 2 - 2 = 2 /\ n * span[2] = n * P
        BY <1>8, <1>9, <2>3
      <3>2. LogicalOffset(2, 2, n) = NDirect + P + n * P
        BY LogicalOffsets
      <3>3. OffsetOf(path) = NDirect + P + n * P
        BY <2>1, <1>2, <1>8, <2>3, <3>1
      <3>4. QED
        BY <1>5, <1>7, <1>10, <2>3, <3>1, <3>2, <3>3
    <2>4. CASE d = 3
      <3>1. d + 2 - 2 = 3 /\ n * span[3] = n * (P * P)
        BY <1>8, <1>9, <2>4
      <3>2. LogicalOffset(3, 3, n) = start + n * (P * P)
        BY LogicalOffsets DEF start
      <3>3. OffsetOf(path) = start + n * (P * P)
        BY <2>1, <1>2, <1>8, <2>4, <3>1
      <3>4. QED
        BY <1>5, <1>7, <1>10, <2>4, <3>1, <3>2, <3>3
    <2>5. QED
      BY <2>2, <2>3, <2>4
  <1>11. CASE Len(path) = 3
    <2>1. path[2] = 1 /\ d \in 2 .. 3
      BY <1>1, <1>5, <1>11
    <2>2. OffsetOf(path) = (CASE d = 1 -> NDirect [] d = 2 -> NDirect + P [] d = 3 -> start)
                           + (path[2] - 1) * span[d + 2 - 2] + n * span[d + 2 - 3]
      BY <1>5, <1>7, <1>11 DEF OffsetOf
    <2>3. (path[2] - 1) * span[d + 2 - 2] = 0
      BY <1>2, <1>9, <2>1
    <2> HIDE DEF span, start
    <2>4. CASE d = 2
      <3>1. d + 2 - 3 = 1 /\ n * span[1] = n
        BY <1>8, <1>9, <2>4
      <3>2. LogicalOffset(1, 2, n) = NDirect + P + n
        BY LogicalOffsets
      <3>3. OffsetOf(path) = NDirect + P + n
        BY <2>2, <2>3, <1>2, <1>8, <2>4, <3>1
      <3>4. QED
        BY <1>5, <1>7, <1>11, <2>4, <3>1, <3>2, <3>3
    <2>5. CASE d = 3
      <3>1. d + 2 - 3 = 2 /\ n * span[2] = n * P
        BY <1>8, <1>9, <2>5
      <3>2. LogicalOffset(2, 3, n) = start + n * P
        BY LogicalOffsets DEF start
      <3>3. OffsetOf(path) = start + n * P
        BY <2>2, <2>3, <1>2, <1>8, <2>5, <3>1
      <3>4. QED
        BY <1>5, <1>7, <1>11, <2>5, <3>1, <3>2, <3>3
    <2>6. QED
      BY <2>1, <2>4, <2>5
  <1>12. CASE Len(path) = 4
    <2>1. path[2] = 1 /\ path[3] = 1 /\ d = 3
      BY <1>1, <1>5, <1>12
    <2>2. OffsetOf(path) = start + (path[2] - 1) * span[d + 2 - 2] + (path[3] - 1) * span[d + 2 - 3] + n * span[d + 2 - 4]
      BY <1>5, <1>7, <1>12, <2>1 DEF OffsetOf
    <2>3. (path[2] - 1) * span[d + 2 - 2] = 0 /\ (path[3] - 1) * span[d + 2 - 3] = 0
      BY <1>2, <1>9, <2>1
    <2> HIDE DEF span, start
    <2>4. d + 2 - 4 = 1 /\ n * span[1] = n
      BY <1>8, <1>9, <2>1
    <2>5. LogicalOffset(1, 3, n) = start + n
      BY LogicalOffsets DEF start
    <2>6. QED
      BY <1>2, <1>5, <1>7, <1>8, <1>9, <1>12, <2>1, <2>2, <2>3, <2>4, <2>5
  <1>13. QED
    BY <1>3, <1>10, <1>11, <1>12

LEMMA FirstOffsets ==
  ASSUME FileGiven
  PROVE  FirstOffsetsTrue
  <1>1. SUFFICES ASSUME NEW ref \in References, Len(ref.path) > 1,
                        \A n \in 2 .. Len(ref.path) - 1 : ref.path[n] = 1
                 PROVE  \E n \in DOMAIN rows :
                          /\ rows[n].row = "INDIRECT" /\ rows[n].num = ref.inode /\ rows[n].block = ref.block
                          /\ rows[n].level = Depth(ref.path) + 2 - Len(ref.path)
                          /\ rows[n].offset = OffsetOf(ref.path)
    BY DEF FirstOffsetsTrue
  <1>2. PICK i \in Inodes, path \in Paths :
          HasBlocks(i) /\ ref.inode = i /\ ref.path = path /\ ref.block = BlockAt(i, path) /\ ref.block # 0
    BY DEF References
  <1>3. InUse(img, i) /\ IsImage(img)
    BY <1>2, ImagesAssumption DEF HasBlocks, FileGiven
  <1> DEFINE p == <<"INDIRECT", i, path>>
  <1>4. p \in Places
    BY <1>1, <1>2, <1>3, PlacesContain
  <1>5. RowAt(p) = PointerRow(i, path)
    BY DEF RowAt
  <1> HIDE DEF p
  <1>6. PICK n \in 1 .. Len(rows) : rows[n] = PlaceRows[p]
    BY <1>4, RowsListed, EnumeratesMembers
  <1>7. PlaceRows[p] = PointerRow(i, path)
    <2>1. p \in DOMAIN PlaceRows
      BY <1>4, RowsListed DEF Enumerates
    <2>2. QED
      BY <1>5, <2>1, RowOfPlace
  <1>8. DOMAIN rows = 1 .. Len(rows)
    BY RowsListed DEF Enumerates
  <1>9. QED
    BY <1>1, <1>2, <1>3, <1>6, <1>7, <1>8, PointerRowIs, OffsetsAre

-----------------------------------------------------------------------------
(* What the rows are *)

LEMMA FileSound ==
  ASSUME FileGiven
  PROVE  IsImage(img) /\ order \in Orders /\ Len(rows) \in Nat /\ DOMAIN rows = 1 .. Len(rows)
  BY RowsListed, ImagesAssumption DEF FileGiven, Enumerates

LEMMA RowHasPlace ==
  ASSUME FileGiven, NEW n \in 1 .. Len(rows)
  PROVE  \E p \in Places : rows[n] = PlaceRows[p] /\ rows[n] = RowAt(p) /\ rows[n].row = p[1]
  <1>1. PICK p \in Places : rows[n] = PlaceRows[p]
    BY RowsListed, EnumeratesMembers
  <1>2. p \in DOMAIN PlaceRows
    BY RowsListed DEF Enumerates
  <1>3. QED
    BY <1>1, <1>2, RowOfPlace

LEMMA PlaceHasRow ==
  ASSUME FileGiven, NEW p \in Places
  PROVE  \E n \in 1 .. Len(rows) : rows[n] = PlaceRows[p] /\ rows[n] = RowAt(p) /\ rows[n].row = p[1]
  <1>1. PICK n \in 1 .. Len(rows) : rows[n] = PlaceRows[p]
    BY RowsListed, EnumeratesMembers
  <1>2. p \in DOMAIN PlaceRows
    BY RowsListed DEF Enumerates
  <1>3. QED
    BY <1>1, <1>2, RowOfPlace

\* The place of a row, by the kind of the row.
LEMMA PlaceByKind ==
  ASSUME NEW p \in Places
  PROVE  /\ p[1] \in Kinds
         /\ p[1] = "SUPERBLOCK" => p = <<"SUPERBLOCK", 0, <<>>>>
         /\ p[1] = "GROUP" => p = <<"GROUP", 0, <<>>>>
         /\ p[1] = "BFREE" => \E n \in img.bfree : p = <<"BFREE", n, <<>>>>
         /\ p[1] = "IFREE" => \E n \in img.ifree : p = <<"IFREE", n, <<>>>>
         /\ p[1] = "INODE" => \E i \in Inodes : InUse(img, i) /\ p = <<"INODE", i, <<>>>>
         /\ p[1] = "DIRENT" => \E i \in Inodes : InUse(img, i) /\ \E n \in Shown(i) : p = <<"DIRENT", i, <<n>>>>
         /\ p[1] = "INDIRECT" =>
              \E i \in Inodes, path \in Paths :
                InUse(img, i) /\ Len(path) > 1 /\ BlockAt(i, path) # 0 /\ p = <<"INDIRECT", i, path>>
  <1>1. CASE p = <<"SUPERBLOCK", 0, <<>>>>
    BY <1>1 DEF Kinds
  <1>2. CASE p = <<"GROUP", 0, <<>>>>
    BY <1>2 DEF Kinds
  <1>3. CASE \E n \in img.bfree : p = <<"BFREE", n, <<>>>>
    BY <1>3 DEF Kinds
  <1>4. CASE \E n \in img.ifree : p = <<"IFREE", n, <<>>>>
    BY <1>4 DEF Kinds
  <1>5. ASSUME NEW i \in Inodes, InUse(img, i), p = <<"INODE", i, <<>>>>
        PROVE  p[1] = "INODE" /\ \E j \in Inodes : InUse(img, j) /\ p = <<"INODE", j, <<>>>>
    BY <1>5
  <1>6. ASSUME NEW i \in Inodes, InUse(img, i), NEW n \in Shown(i), p = <<"DIRENT", i, <<n>>>>
        PROVE  p[1] = "DIRENT" /\ \E j \in Inodes : InUse(img, j) /\ \E m \in Shown(j) : p = <<"DIRENT", j, <<m>>>>
    BY <1>6
  <1>7. ASSUME NEW i \in Inodes, InUse(img, i), NEW path \in Paths, Len(path) > 1, BlockAt(i, path) # 0,
               p = <<"INDIRECT", i, path>>
        PROVE  p[1] = "INDIRECT" /\ \E j \in Inodes, other \in Paths :
                 InUse(img, j) /\ Len(other) > 1 /\ BlockAt(j, other) # 0 /\ p = <<"INDIRECT", j, other>>
    BY <1>7
  <1>8. QED
    BY <1>1, <1>2, <1>3, <1>4, <1>5, <1>6, <1>7, PlaceForms DEF Kinds

LEMMA RowIs ==
  ASSUME FileGiven, NEW n \in 1 .. Len(rows)
  PROVE  /\ rows[n].row \in Kinds
         /\ rows[n].row = "GROUP" => rows[n] = GroupRow
         /\ rows[n].row = "BFREE" => rows[n].num \in img.bfree
         /\ rows[n].row = "IFREE" => rows[n].num \in img.ifree
         /\ rows[n].row = "INODE" => \E i \in Inodes : InUse(img, i) /\ rows[n] = InodeRow(img, i)
         /\ rows[n].row = "DIRENT" =>
              \E i \in Inodes : InUse(img, i) /\ \E m \in Shown(i) : rows[n] = DirentRow(i, m)
         /\ rows[n].row = "INDIRECT" =>
              \E i \in Inodes, path \in Paths :
                InUse(img, i) /\ Len(path) > 1 /\ BlockAt(i, path) # 0 /\ rows[n] = PointerRow(i, path)
  <1>1. PICK p \in Places : rows[n] = RowAt(p) /\ rows[n].row = p[1]
    BY RowHasPlace
  <1>2. p[1] \in Kinds
    BY PlaceByKind
  <1>3. CASE p[1] = "SUPERBLOCK"
    BY <1>1, <1>2, <1>3
  <1>4. CASE p[1] = "GROUP"
    BY <1>1, <1>2, <1>4 DEF RowAt
  <1>5. CASE p[1] = "BFREE"
    <2>1. PICK m \in img.bfree : p = <<"BFREE", m, <<>>>>
      BY <1>5, PlaceByKind
    <2>2. RowAt(p) = [row |-> "BFREE", num |-> m]
      BY <2>1 DEF RowAt
    <2>3. QED
      BY <1>1, <1>2, <1>5, <2>2
  <1>6. CASE p[1] = "IFREE"
    <2>1. PICK m \in img.ifree : p = <<"IFREE", m, <<>>>>
      BY <1>6, PlaceByKind
    <2>2. RowAt(p) = [row |-> "IFREE", num |-> m]
      BY <2>1 DEF RowAt
    <2>3. QED
      BY <1>1, <1>2, <1>6, <2>2
  <1>7. CASE p[1] = "INODE"
    <2>1. PICK i \in Inodes : InUse(img, i) /\ p = <<"INODE", i, <<>>>>
      BY <1>7, PlaceByKind
    <2>2. RowAt(p) = InodeRow(img, i)
      BY <2>1 DEF RowAt
    <2>3. QED
      BY <1>1, <1>2, <1>7, <2>1, <2>2
  <1>8. CASE p[1] = "DIRENT"
    <2>1. PICK i \in Inodes : InUse(img, i) /\ \E m \in Shown(i) : p = <<"DIRENT", i, <<m>>>>
      BY <1>8, PlaceByKind
    <2>2. PICK m \in Shown(i) : p = <<"DIRENT", i, <<m>>>>
      BY <2>1
    <2>3. RowAt(p) = DirentRow(i, m)
      BY <2>2 DEF RowAt
    <2>4. QED
      BY <1>1, <1>2, <1>8, <2>1, <2>2, <2>3
  <1>9. CASE p[1] = "INDIRECT"
    <2>1. PICK i \in Inodes, path \in Paths :
            InUse(img, i) /\ Len(path) > 1 /\ BlockAt(i, path) # 0 /\ p = <<"INDIRECT", i, path>>
      BY <1>9, PlaceByKind
    <2>2. RowAt(p) = PointerRow(i, path)
      BY <2>1 DEF RowAt
    <2>3. QED
      BY <1>1, <1>2, <1>9, <2>1, <2>2
  <1>10. QED
    BY <1>2, <1>3, <1>4, <1>5, <1>6, <1>7, <1>8, <1>9 DEF Kinds

LEMMA RowsHave ==
  ASSUME FileGiven
  PROVE  /\ \E n \in 1 .. Len(rows) : rows[n].row = "SUPERBLOCK"
         /\ \E n \in 1 .. Len(rows) : rows[n].row = "GROUP"
         /\ \A b \in img.bfree : \E n \in 1 .. Len(rows) : rows[n].row = "BFREE" /\ rows[n].num = b
         /\ \A i \in img.ifree : \E n \in 1 .. Len(rows) : rows[n].row = "IFREE" /\ rows[n].num = i
         /\ \A i \in Inodes : InUse(img, i) =>
              /\ \E n \in 1 .. Len(rows) : rows[n].row = "INODE" /\ rows[n] = InodeRow(img, i)
              /\ \A m \in Shown(i) : \E n \in 1 .. Len(rows) : rows[n].row = "DIRENT" /\ rows[n] = DirentRow(i, m)
  <1>1. /\ \E n \in 1 .. Len(rows) : rows[n].row = "SUPERBLOCK"
        /\ \E n \in 1 .. Len(rows) : rows[n].row = "GROUP"
    <2>1. /\ \E n \in 1 .. Len(rows) : rows[n].row = <<"SUPERBLOCK", 0, <<>>>>[1]
          /\ \E n \in 1 .. Len(rows) : rows[n].row = <<"GROUP", 0, <<>>>>[1]
      BY PlacesContain, PlaceHasRow
    <2>2. QED
      BY <2>1
  <1>2. ASSUME NEW b \in img.bfree
        PROVE  \E n \in 1 .. Len(rows) : rows[n].row = "BFREE" /\ rows[n].num = b
    <2>1. PICK n \in 1 .. Len(rows) : rows[n] = RowAt(<<"BFREE", b, <<>>>>)
      BY PlacesContain, PlaceHasRow
    <2>2. RowAt(<<"BFREE", b, <<>>>>) = [row |-> "BFREE", num |-> b]
      BY DEF RowAt
    <2>3. QED
      BY <2>1, <2>2
  <1>3. ASSUME NEW i \in img.ifree
        PROVE  \E n \in 1 .. Len(rows) : rows[n].row = "IFREE" /\ rows[n].num = i
    <2>1. PICK n \in 1 .. Len(rows) : rows[n] = RowAt(<<"IFREE", i, <<>>>>)
      BY PlacesContain, PlaceHasRow
    <2>2. RowAt(<<"IFREE", i, <<>>>>) = [row |-> "IFREE", num |-> i]
      BY DEF RowAt
    <2>3. QED
      BY <2>1, <2>2
  <1>4. ASSUME NEW i \in Inodes, InUse(img, i)
        PROVE  \E n \in 1 .. Len(rows) : rows[n].row = "INODE" /\ rows[n] = InodeRow(img, i)
    <2>1. PICK n \in 1 .. Len(rows) : rows[n] = RowAt(<<"INODE", i, <<>>>>)
      BY <1>4, PlacesContain, PlaceHasRow
    <2>2. RowAt(<<"INODE", i, <<>>>>) = InodeRow(img, i)
      BY DEF RowAt
    <2>3. InodeRow(img, i).row = "INODE"
      BY DEF InodeRow
    <2>4. QED
      BY <2>1, <2>2, <2>3
  <1>5. ASSUME NEW i \in Inodes, InUse(img, i), NEW m \in Shown(i)
        PROVE  \E n \in 1 .. Len(rows) : rows[n].row = "DIRENT" /\ rows[n] = DirentRow(i, m)
    <2>1. PICK n \in 1 .. Len(rows) : rows[n] = RowAt(<<"DIRENT", i, <<m>>>>)
      BY <1>5, PlacesContain, PlaceHasRow
    <2>2. RowAt(<<"DIRENT", i, <<m>>>>) = DirentRow(i, m)
      BY DEF RowAt
    <2>3. DirentRow(i, m).row = "DIRENT"
      BY DEF DirentRow
    <2>4. QED
      BY <2>1, <2>2, <2>3
  <1>6. QED
    BY <1>1, <1>2, <1>3, <1>4, <1>5

\* Rows of a group that comes before another are before its rows.
LEMMA GroupsInOrder ==
  ASSUME FileGiven, NEW m \in 1 .. Len(rows), NEW n \in 1 .. Len(rows),
         order[GroupOf(rows[m].row)] < order[GroupOf(rows[n].row)]
  PROVE  m < n
  <1>1. GroupOf(rows[m].row) \in 1 .. 4 /\ GroupOf(rows[n].row) \in 1 .. 4
    BY DEF GroupOf
  <1>2. order[GroupOf(rows[m].row)] \in Int /\ order[GroupOf(rows[n].row)] \in Int
    BY <1>1, FileSound DEF Orders
  <1>3. n <= m => order[GroupOf(rows[n].row)] <= order[GroupOf(rows[m].row)]
    BY RowsListed DEF InOrder
  <1>4. m \in Int /\ n \in Int
    BY FileSound
  <1>5. QED
    BY <1>2, <1>3, <1>4

-----------------------------------------------------------------------------
(* What an image that can be audited contributes to the tables *)

BlockParts ==
  [n \in 1 .. Len(rows) |->
     IF rows[n].row = "INODE" THEN NumbersIn(rows[n])
     ELSE IF rows[n].row = "INDIRECT"
          THEN <<[block |-> rows[n].block, inode |-> rows[n].num, level |-> "string"]>> ELSE <<>>]

EntryParts == [n \in 1 .. Len(rows) |-> IF rows[n].row = "DIRENT" THEN <<rows[n].num>> ELSE <<>>]

ReferenceTo(i, path) == [inode |-> i, path |-> path, block |-> BlockAt(i, path)]

\* How a reference is entered.
BlockEntries ==
  [ref \in References |-> [block |-> ref.block, inode |-> ref.inode,
                           level |-> IF Len(ref.path) = 1 THEN "number" ELSE "string"]]

EntryInodes == [e \in Entries |-> Entry(e).inode]

LEMMA ReferencesAre ==
  /\ \A ref \in References :
       \E i \in Inodes, path \in Paths : HasBlocks(i) /\ BlockAt(i, path) # 0 /\ ref = ReferenceTo(i, path)
  /\ \A i \in Inodes, path \in Paths : HasBlocks(i) /\ BlockAt(i, path) # 0 => ReferenceTo(i, path) \in References
  BY DEF References, ReferenceTo

LEMMA AuditableInode ==
  ASSUME Auditable, IsImage(img), NEW i \in Inodes, InUse(img, i)
  PROVE  /\ FileType(img.inode[i].mode) = "d" <=> img.inode[i].mode = "dir"
         /\ HasBlocks(i) <=> FileType(img.inode[i].mode) \in {"f", "d"}
                             \/ (FileType(img.inode[i].mode) = "s" /\ img.inode[i].size > 60)
         /\ HasBlocks(i) => ListsBlocks(img.inode[i])
         /\ \A path \in Paths : Len(path) > 1 /\ BlockAt(i, path) # 0 => HasBlocks(i)
  <1> DEFINE inode == img.inode[i]
  <1>1. /\ inode.mode \in {"reg", "dir", "lnk", "chr"} /\ (inode.mode = "lnk" => inode.size # 60)
        /\ inode.mode # "reg" => {inode.block[NDirect + n] : n \in 1 .. 3} = {0}
    BY DEF Auditable
  <1>2. inode.size \in Nat
    BY DEF IsImage
  <1>3. inode.size >= 60 /\ inode.size # 60 <=> inode.size > 60
    BY <1>2
  <1> HIDE DEF inode
  <1>4. CASE inode.mode = "reg"
    BY <1>4 DEF FileType, HasBlocks, ListsBlocks, inode
  <1>5. CASE inode.mode # "reg"
    <2>1. ASSUME NEW path \in Paths, Len(path) > 1
          PROVE  BlockAt(i, path) = 0
      <3>1. IsPath(path) /\ Len(path) <= Depth(path) + 1
        BY PathsAre
      <3>2. path \in Seq(Int) /\ Len(path) \in 2 .. 4 /\ path[1] \in 1 .. NDirect + 3 /\ NDirect \in Nat
        BY <2>1, <3>1, Sizes DEF IsPath
      <3>3. PICK d \in 1 .. 3 : path[1] = NDirect + d
        <4>1. \A m \in 1 .. NDirect + 3, l \in 2 .. 4 :
                l <= (IF m <= NDirect THEN 0 ELSE m - NDirect) + 1 => m - NDirect \in 1 .. 3 /\ m = NDirect + (m - NDirect)
          BY <3>2
        <4>2. Len(path) <= (IF path[1] <= NDirect THEN 0 ELSE path[1] - NDirect) + 1
          BY <3>1 DEF Depth
        <4>3. path[1] - NDirect \in 1 .. 3 /\ path[1] = NDirect + (path[1] - NDirect)
          BY <3>2, <4>1, <4>2
        <4>4. QED
          BY <4>3
      <3>4. inode.block[path[1]] = 0
        BY <1>1, <1>5, <3>3
      <3> DEFINE q == <<path[1]>>
      <3>5. q \in Seq(Int) /\ Len(q) = 1 /\ q[1] = path[1]
        BY <3>2
      <3> HIDE DEF q
      <3>6. BlockAt(i, q) = 0
        BY <3>4, <3>5 DEF BlockAt, inode
      <3>7. Begins(q, path)
        BY <3>2, <3>5 DEF Begins
      <3>8. Len(q) \in 1 .. 4 /\ Len(path) \in 1 .. 4
        BY <3>2, <3>5
      <3>9. QED
        BY <3>2, <3>5, <3>6, <3>7, <3>8, NothingBelowZero
    <2>2. CASE inode.mode = "dir"
      BY <2>1, <2>2 DEF FileType, HasBlocks, ListsBlocks, inode
    <2>3. CASE inode.mode = "lnk"
      BY <1>1, <1>3, <2>1, <2>3 DEF FileType, HasBlocks, ListsBlocks, inode
    <2>4. CASE inode.mode = "chr"
      BY <2>1, <2>4 DEF FileType, HasBlocks, ListsBlocks, inode
    <2>5. QED
      BY <1>1, <1>5, <2>2, <2>3, <2>4
  <1>6. QED
    BY <1>4, <1>5

\* The references by the numbers of an inode.
OwnReferences(i) == {ref \in References : ref.inode = i /\ Len(ref.path) = 1}

LEMMA NumbersListed ==
  ASSUME Auditable, IsImage(img), NEW i \in Inodes, InUse(img, i)
  PROVE  Enumerates(NumbersIn(InodeRow(img, i)), OwnReferences(i), BlockEntries)
  <1> DEFINE inode == img.inode[i]
  <1> DEFINE row == InodeRow(img, i)
  <1> DEFINE N == NDirect + 3
  <1>1. N \in Nat
    BY Sizes
  <1>2. row.type = FileType(inode.mode) /\ row.size = inode.size /\ row.num = i
    BY DEF InodeRow
  <1>3. CASE ~HasBlocks(i)
    <2>1. NumbersIn(row) = <<>>
      BY <1>2, <1>3, AuditableInode DEF NumbersIn
    <2>2. OwnReferences(i) = {}
      BY <1>3, ReferencesAre DEF OwnReferences, ReferenceTo
    <2>3. QED
      BY <2>1, <2>2, EnumeratesNone
  <1>4. CASE HasBlocks(i)
    <2>1. row.block = inode.block
      BY <1>4, AuditableInode DEF InodeRow
    <2> DEFINE f == [n \in 1 .. N |-> IF row.block[n] = 0 THEN <<>>
                                     ELSE <<[block |-> row.block[n], inode |-> row.num, level |-> "number"]>>]
    <2> DEFINE R == [n \in 1 .. N |-> IF inode.block[n] = 0 THEN {} ELSE {ReferenceTo(i, <<n>>)}]
    <2>2. NumbersIn(row) = Rolled(f, N)
      BY <1>2, <1>4, AuditableInode, RowsRolled DEF NumbersIn
    <2>3. \A n \in 1 .. N : <<n>> \in Paths /\ BlockAt(i, <<n>>) = inode.block[n] /\ Len(<<n>>) = 1 /\ <<n>>[1] = n
      BY DEF Paths, BlockAt
    <2>4. ASSUME NEW n \in 1 .. N
          PROVE  Enumerates(f[n], R[n], BlockEntries)
      <3>1. CASE inode.block[n] = 0
        <4>1. f[n] = <<>> /\ R[n] = {}
          BY <2>1, <3>1
        <4>2. QED
          BY <4>1, EnumeratesNone
      <3>2. CASE inode.block[n] # 0
        <4> DEFINE ref == ReferenceTo(i, <<n>>)
        <4>1. ref \in References
          BY <1>4, <2>3, <3>2, ReferencesAre
        <4>2. ref.block = inode.block[n] /\ ref.inode = i /\ ref.path = <<n>>
          BY <2>3 DEF ReferenceTo
        <4>3. f[n] = <<[block |-> inode.block[n], inode |-> i, level |-> "number"]>> /\ R[n] = {ref}
          BY <1>2, <2>1, <3>2
        <4> HIDE DEF ref, f, R
        <4>4. ref \in DOMAIN BlockEntries
              /\ BlockEntries[ref] = [block |-> inode.block[n], inode |-> i, level |-> "number"]
          BY <2>3, <4>1, <4>2 DEF BlockEntries
        <4>5. QED
          BY <4>3, <4>4, EnumeratesOne
      <3>3. QED
        BY <3>1, <3>2
    <2>5. ASSUME NEW m \in 1 .. N, NEW n \in 1 .. N, m # n
          PROVE  R[m] \cap R[n] = {}
      <3>1. <<m>> # <<n>>
        BY <2>3, <2>5
      <3>2. ReferenceTo(i, <<m>>).path = <<m>> /\ ReferenceTo(i, <<n>>).path = <<n>>
        BY DEF ReferenceTo
      <3>3. R[m] \subseteq {ReferenceTo(i, <<m>>)} /\ R[n] \subseteq {ReferenceTo(i, <<n>>)}
        OBVIOUS
      <3>4. QED
        BY <3>1, <3>2, <3>3
    <2>6. UNION {R[n] : n \in 1 .. N} = OwnReferences(i)
      <3>1. ASSUME NEW ref \in OwnReferences(i)
            PROVE  \E n \in 1 .. N : ref \in R[n]
        <4>1. ref.inode = i /\ Len(ref.path) = 1
          BY DEF OwnReferences
        <4>2. PICK j \in Inodes, path \in Paths : BlockAt(j, path) # 0 /\ ref = ReferenceTo(j, path)
          BY ReferencesAre DEF OwnReferences
        <4>3. j = i /\ Len(path) = 1
          BY <4>1, <4>2 DEF ReferenceTo
        <4>4. path \in Seq(Int) /\ path[1] \in 1 .. N
          BY PathsAre DEF IsPath
        <4>5. path = <<path[1]>>
          BY <4>3, <4>4
        <4>6. PICK n \in 1 .. N : n = path[1]
          BY <4>4
        <4>7. R[n] = {ReferenceTo(i, <<n>>)}
          BY <2>3, <4>2, <4>3, <4>5, <4>6
        <4>8. QED
          BY <4>2, <4>3, <4>5, <4>6, <4>7
      <3>2. ASSUME NEW n \in 1 .. N, NEW ref \in R[n]
            PROVE  ref \in OwnReferences(i)
        <4>1. ref = ReferenceTo(i, <<n>>) /\ inode.block[n] # 0
          OBVIOUS
        <4>2. ref \in References
          BY <1>4, <2>3, <4>1, ReferencesAre
        <4>3. ref.inode = i /\ ref.path = <<n>>
          BY <4>1 DEF ReferenceTo
        <4>4. QED
          BY <2>3, <4>2, <4>3 DEF OwnReferences
      <3> HIDE DEF R
      <3>3. QED
        BY <3>1, <3>2
    <2> HIDE DEF f, R, N
    <2>7. Enumerates(Rolled(f, N), UNION {R[n] : n \in 1 .. N}, BlockEntries)
      BY <1>1, <2>4, <2>5, EnumeratesAll
    <2>8. QED
      BY <2>2, <2>6, <2>7
  <1>5. QED
    BY <1>3, <1>4

\* The references that a place stands for.
PlaceReferences ==
  [p \in Places |->
     IF p[1] = "INODE" THEN OwnReferences(p[2])
     ELSE IF p[1] = "INDIRECT" THEN {ref \in References : ref.inode = p[2] /\ ref.path = p[3]} ELSE {}]

LEMMA BlocksListed ==
  ASSUME FileGiven, Auditable
  PROVE  Enumerates(Rolled(BlockParts, Len(rows)), References, BlockEntries)
  <1>1. IsImage(img) /\ Enumerates(rows, Places, PlaceRows)
    BY FileSound, RowsListed
  <1>2. ASSUME NEW n \in 1 .. Len(rows), NEW p \in Places, rows[n] = PlaceRows[p]
        PROVE  Enumerates(BlockParts[n], PlaceReferences[p], BlockEntries)
    <2>1. rows[n] = RowAt(p) /\ rows[n].row = p[1]
      <3>1. p \in DOMAIN PlaceRows
        BY <1>1 DEF Enumerates
      <3>2. QED
        BY <1>2, <3>1, RowOfPlace
    <2>2. CASE p[1] = "INODE"
      <3>1. PICK i \in Inodes : InUse(img, i) /\ p = <<"INODE", i, <<>>>>
        BY <2>2, PlaceByKind
      <3>2. rows[n] = InodeRow(img, i) /\ PlaceReferences[p] = OwnReferences(i)
        BY <2>1, <3>1 DEF RowAt, PlaceReferences
      <3>3. BlockParts[n] = NumbersIn(rows[n])
        BY <2>1, <2>2 DEF BlockParts
      <3>4. QED
        BY <1>1, <3>1, <3>2, <3>3, NumbersListed
    <2>3. CASE p[1] = "INDIRECT"
      <3>1. PICK i \in Inodes, path \in Paths :
              InUse(img, i) /\ Len(path) > 1 /\ BlockAt(i, path) # 0 /\ p = <<"INDIRECT", i, path>>
        BY <2>3, PlaceByKind
      <3> DEFINE ref == ReferenceTo(i, path)
      <3>2. rows[n] = PointerRow(i, path)
            /\ PlaceReferences[p] = {r \in References : r.inode = i /\ r.path = path}
        BY <2>1, <3>1 DEF RowAt, PlaceReferences
      <3>3. ref \in References
        BY <1>1, <3>1, AuditableInode, ReferencesAre
      <3>4. ref.inode = i /\ ref.path = path /\ ref.block = BlockAt(i, path)
        BY DEF ReferenceTo
      <3>5. PlaceReferences[p] = {ref}
        <4>1. ASSUME NEW r \in References, r.inode = i, r.path = path
              PROVE  r = ref
          BY <4>1, ReferencesAre DEF ReferenceTo
        <4>2. QED
          BY <3>2, <3>3, <3>4, <4>1
      <3>6. rows[n].block = BlockAt(i, path) /\ rows[n].num = i
        BY <1>1, <3>1, <3>2, PointerRowIs
      <3>7. BlockParts[n] = <<[block |-> BlockAt(i, path), inode |-> i, level |-> "string"]>>
        BY <2>1, <2>3, <3>6 DEF BlockParts
      <3> HIDE DEF ref
      <3>8. ref \in DOMAIN BlockEntries
            /\ BlockEntries[ref] = [block |-> BlockAt(i, path), inode |-> i, level |-> "string"]
        <4>1. Len(path) \in 1 .. 4
          BY PathsAre DEF IsPath
        <4>2. \A l \in 1 .. 4 : l > 1 => l # 1
          OBVIOUS
        <4>3. Len(path) # 1
          BY <3>1, <4>1, <4>2
        <4>4. QED
          BY <3>3, <3>4, <4>3 DEF BlockEntries
      <3>9. QED
        BY <3>5, <3>7, <3>8, EnumeratesOne
    <2>4. CASE p[1] \notin {"INODE", "INDIRECT"}
      <3>1. BlockParts[n] = <<>> /\ PlaceReferences[p] = {}
        BY <2>1, <2>4 DEF BlockParts, PlaceReferences
      <3>2. QED
        BY <3>1, EnumeratesNone
    <2>5. QED
      BY <2>2, <2>3, <2>4
  <1>3. ASSUME NEW p \in Places, NEW q \in Places, NEW ref \in PlaceReferences[p] \cap PlaceReferences[q]
        PROVE  p = q
    <2>1. ASSUME NEW o \in Places, ref \in PlaceReferences[o]
          PROVE  /\ Len(ref.path) = 1 => o = <<"INODE", ref.inode, <<>>>>
                 /\ Len(ref.path) # 1 => o = <<"INDIRECT", ref.inode, ref.path>>
      <3>1. CASE o[1] = "INODE"
        <4>1. PICK i \in Inodes : o = <<"INODE", i, <<>>>>
          BY <3>1, PlaceByKind
        <4>2. PlaceReferences[o] = OwnReferences(i)
          BY <4>1 DEF PlaceReferences
        <4>3. QED
          BY <2>1, <4>1, <4>2 DEF OwnReferences
      <3>2. CASE o[1] = "INDIRECT"
        <4>1. PICK i \in Inodes, path \in Paths : Len(path) > 1 /\ o = <<"INDIRECT", i, path>>
          BY <3>2, PlaceByKind
        <4>2. ref.inode = i /\ ref.path = path
          BY <2>1, <4>1 DEF PlaceReferences
        <4>3. Len(path) # 1
          BY <4>1
        <4>4. QED
          BY <4>1, <4>2, <4>3
      <3>3. CASE o[1] \notin {"INODE", "INDIRECT"}
        BY <2>1, <3>3 DEF PlaceReferences
      <3>4. QED
        BY <3>1, <3>2, <3>3
    <2>2. QED
      BY <2>1
  <1>4. UNION {PlaceReferences[p] : p \in Places} = References
    <2>1. \A p \in Places : PlaceReferences[p] \subseteq References
      BY DEF PlaceReferences, OwnReferences
    <2>2. ASSUME NEW ref \in References
          PROVE  \E p \in Places : ref \in PlaceReferences[p]
      <3>1. PICK i \in Inodes, path \in Paths : HasBlocks(i) /\ BlockAt(i, path) # 0 /\ ref = ReferenceTo(i, path)
        BY ReferencesAre
      <3>2. InUse(img, i) /\ ref.inode = i /\ ref.path = path
        BY <3>1 DEF HasBlocks, ReferenceTo
      <3>3. CASE Len(path) = 1
        <4> DEFINE p == <<"INODE", i, <<>>>>
        <4>1. p \in Places /\ p[1] = "INODE" /\ p[2] = i
          BY <3>2, PlacesContain
        <4> HIDE DEF p
        <4>2. PlaceReferences[p] = OwnReferences(i)
          BY <4>1 DEF PlaceReferences
        <4>3. ref \in OwnReferences(i)
          BY <3>2, <3>3 DEF OwnReferences
        <4>4. QED
          BY <4>1, <4>2, <4>3
      <3>4. CASE Len(path) # 1
        <4> DEFINE p == <<"INDIRECT", i, path>>
        <4>1. Len(path) > 1
          <5>1. Len(path) \in 1 .. 4
            BY PathsAre DEF IsPath
          <5>2. QED
            BY <3>4, <5>1
        <4>2. p \in Places /\ p[1] = "INDIRECT" /\ p[2] = i /\ p[3] = path
          BY <3>1, <3>2, <4>1, PlacesContain
        <4> HIDE DEF p
        <4>3. PlaceReferences[p] = {r \in References : r.inode = i /\ r.path = path}
          BY <4>2 DEF PlaceReferences
        <4>4. QED
          BY <3>2, <4>2, <4>3
      <3>5. QED
        BY <3>3, <3>4
    <2>3. QED
      BY <2>1, <2>2
  <1>5. \A p, q \in Places : p # q => PlaceReferences[p] \cap PlaceReferences[q] = {}
    BY <1>3
  <1>6. Enumerates(Rolled(BlockParts, Len(rows)), UNION {PlaceReferences[p] : p \in Places}, BlockEntries)
    BY <1>1, <1>2, <1>5, EnumeratesThrough
  <1>7. QED
    BY <1>4, <1>6

\* The entry that a place stands for.
PlaceEntries == [p \in Places |-> IF p[1] = "DIRENT" THEN {<<p[2], p[3][1]>>} ELSE {}]

LEMMA ShownEntries ==
  ASSUME Auditable, IsImage(img), NEW i \in Inodes, InUse(img, i), NEW n
  PROVE  /\ n \in Shown(i) <=> <<i, n>> \in Entries
         /\ n \in Shown(i) => /\ Entry(<<i, n>>).inode \in Nat \ {0}
                              /\ DirentRow(i, n).num = Entry(<<i, n>>).inode /\ DirentRow(i, n).dir = i
                              /\ DirentRow(i, n).name = Entry(<<i, n>>).name
  <1>1. ASSUME n \in Shown(i)
        PROVE  i \in Directories
    <2>1. img.inode[i].mode = "dir"
      BY <1>1, AuditableInode DEF Shown
    <2>2. n \in DOMAIN ReadEntries(img, i) /\ ReadEntries(img, i)[n].inode # 0
      <3>1. /\ n \in DOMAIN ReadEntries(img, i)
            /\ \A m \in DOMAIN ReadEntries(img, i) : ReadEntries(img, i)[m].inode = 0 => n < m
        BY <1>1 DEF Shown
      <3>2. n \in Int
        BY <3>1 DEF IsImage, ReadEntries
      <3>3. QED
        BY <3>1, <3>2
    <2>3. QED
      BY <2>1, <2>2 DEF Auditable
  <1> DEFINE entries == img.entries[img.inode[i].block[1]]
  <1>2. Entry(<<i, n>>) = entries[n]
    BY DEF Entry
  <1>3. ASSUME n \in Shown(i)
        PROVE  <<i, n>> \in Entries /\ Entry(<<i, n>>).inode \in Nat \ {0}
    <2>1. i \in Directories
      BY <1>1, <1>3
    <2>2. img.inode[i].block[1] \in Blocks
      BY <2>1 DEF Directories
    <2>3. n \in DOMAIN entries /\ \A m \in DOMAIN entries : entries[m].inode = 0 => n < m
      BY <1>3, <2>2 DEF Shown, ReadEntries
    <2>4. entries \in Seq([inode : Nat, name : STRING])
      BY <2>2 DEF IsImage
    <2> HIDE DEF entries
    <2>5. n \in Int /\ entries[n].inode \in Nat
      <3> DEFINE E == [inode : Nat, name : STRING]
      <3>1. \A x \in E : x.inode \in Nat
        OBVIOUS
      <3> HIDE DEF E
      <3>2. entries \in Seq(E)
        BY <2>4 DEF E
      <3>3. n \in 1 .. Len(entries) /\ Len(entries) \in Nat
        BY <2>3, <3>2
      <3>4. entries[n] \in E
        BY <3>2, <3>3, ElementOfSeq
      <3>5. QED
        BY <3>1, <3>3, <3>4
    <2>6. entries[n].inode # 0
      BY <2>3, <2>5
    <2>7. <<i, n>> \in UNION {{j} \X DOMAIN img.entries[img.inode[j].block[1]] : j \in Directories}
      BY <2>1, <2>3 DEF entries
    <2>8. QED
      BY <1>2, <2>5, <2>6, <2>7 DEF Entries
  <1>4. ASSUME <<i, n>> \in Entries
        PROVE  n \in Shown(i)
    <2>1. entries[n].inode # 0 /\ \E j \in Directories : <<i, n>> \in {j} \X DOMAIN img.entries[img.inode[j].block[1]]
      BY <1>2, <1>4 DEF Entries
    <2>2. i \in Directories /\ n \in DOMAIN entries
      BY <2>1
    <2>3. img.inode[i].mode = "dir" /\ img.inode[i].block[1] \in Blocks
      BY <2>2 DEF Directories
    <2>4. \A l, m \in DOMAIN entries : l < m /\ entries[l].inode = 0 => entries[m].inode = 0
      BY <2>2 DEF Auditable
    <2>5. entries \in Seq([inode : Nat, name : STRING])
      BY <2>3 DEF IsImage
    <2> HIDE DEF entries
    <2>6. ASSUME NEW m \in DOMAIN entries, entries[m].inode = 0
          PROVE  n < m
      <3>1. m \in Int /\ n \in Int
        BY <2>2, <2>5
      <3>2. m # n /\ ~(m < n)
        BY <2>1, <2>2, <2>4, <2>6
      <3>3. QED
        BY <3>1, <3>2
    <2>7. FileType(img.inode[i].mode) = "d"
      BY <2>3, AuditableInode
    <2>8. QED
      BY <2>2, <2>3, <2>6, <2>7 DEF Shown, entries, ReadEntries
  <1>5. n \in Shown(i) => /\ DirentRow(i, n).num = Entry(<<i, n>>).inode /\ DirentRow(i, n).dir = i
                          /\ DirentRow(i, n).name = Entry(<<i, n>>).name
    BY <1>1 DEF DirentRow, Entry, ReadEntries, Directories
  <1>6. QED
    BY <1>3, <1>4, <1>5

LEMMA EntriesListed ==
  ASSUME FileGiven, Auditable
  PROVE  Enumerates(Rolled(EntryParts, Len(rows)), Entries, EntryInodes)
  <1>1. IsImage(img) /\ Enumerates(rows, Places, PlaceRows)
    BY FileSound, RowsListed
  <1>2. ASSUME NEW n \in 1 .. Len(rows), NEW p \in Places, rows[n] = PlaceRows[p]
        PROVE  Enumerates(EntryParts[n], PlaceEntries[p], EntryInodes)
    <2>1. rows[n] = RowAt(p) /\ rows[n].row = p[1]
      <3>1. p \in DOMAIN PlaceRows
        BY <1>1 DEF Enumerates
      <3>2. QED
        BY <1>2, <3>1, RowOfPlace
    <2>2. CASE p[1] = "DIRENT"
      <3>1. PICK i \in Inodes : InUse(img, i) /\ \E m \in Shown(i) : p = <<"DIRENT", i, <<m>>>>
        BY <2>2, PlaceByKind
      <3>2. PICK m \in Shown(i) : p = <<"DIRENT", i, <<m>>>>
        BY <3>1
      <3> DEFINE e == <<i, m>>
      <3>3. rows[n] = DirentRow(i, m) /\ PlaceEntries[p] = {e}
        BY <2>1, <3>2 DEF RowAt, PlaceEntries
      <3>4. e \in Entries /\ rows[n].num = Entry(e).inode
        BY <1>1, <3>1, <3>3, ShownEntries
      <3> HIDE DEF e
      <3>5. e \in DOMAIN EntryInodes /\ EntryInodes[e] = rows[n].num
        BY <3>4 DEF EntryInodes
      <3>6. EntryParts[n] = <<rows[n].num>>
        BY <2>1, <2>2 DEF EntryParts
      <3>7. QED
        BY <3>3, <3>5, <3>6, EnumeratesOne
    <2>3. CASE p[1] # "DIRENT"
      <3>1. EntryParts[n] = <<>> /\ PlaceEntries[p] = {}
        BY <2>1, <2>3 DEF EntryParts, PlaceEntries
      <3>2. QED
        BY <3>1, EnumeratesNone
    <2>4. QED
      BY <2>2, <2>3
  <1>3. ASSUME NEW p \in Places, NEW q \in Places, NEW e \in PlaceEntries[p] \cap PlaceEntries[q]
        PROVE  p = q
    <2>1. ASSUME NEW o \in Places, e \in PlaceEntries[o]
          PROVE  o = <<"DIRENT", e[1], <<e[2]>>>>
      <3>1. o[1] = "DIRENT" /\ e = <<o[2], o[3][1]>>
        BY <2>1 DEF PlaceEntries
      <3>2. \E i \in Inodes : \E m \in Shown(i) : o = <<"DIRENT", i, <<m>>>>
        BY <3>1, PlaceByKind
      <3>3. QED
        BY <3>1, <3>2
    <2>2. QED
      BY <2>1
  <1>4. UNION {PlaceEntries[p] : p \in Places} = Entries
    <2>1. ASSUME NEW p \in Places, NEW e \in PlaceEntries[p]
          PROVE  e \in Entries
      <3>1. p[1] = "DIRENT" /\ e = <<p[2], p[3][1]>>
        BY DEF PlaceEntries
      <3>2. PICK i \in Inodes : InUse(img, i) /\ \E m \in Shown(i) : p = <<"DIRENT", i, <<m>>>>
        BY <3>1, PlaceByKind
      <3>3. PICK m \in Shown(i) : p = <<"DIRENT", i, <<m>>>>
        BY <3>2
      <3>4. e = <<i, m>>
        BY <3>1, <3>3
      <3>5. QED
        BY <1>1, <3>2, <3>4, ShownEntries
    <2>2. ASSUME NEW e \in Entries
          PROVE  \E p \in Places : e \in PlaceEntries[p]
      <3>1. PICK i \in Directories : \E m : e = <<i, m>>
        BY DEF Entries
      <3>2. PICK m : e = <<i, m>>
        BY <3>1
      <3>3. i \in Inodes /\ InUse(img, i)
        BY DEF Directories
      <3>4. m \in Shown(i)
        BY <1>1, <3>2, <3>3, ShownEntries
      <3>5. <<"DIRENT", i, <<m>>>> \in Places
        BY <3>3, <3>4, PlacesContain
      <3>6. PlaceEntries[<<"DIRENT", i, <<m>>>>] = {<<i, m>>}
        BY <3>5 DEF PlaceEntries
      <3>7. QED
        BY <3>2, <3>5, <3>6
    <2>3. QED
      BY <2>1, <2>2
  <1>5. \A p, q \in Places : p # q => PlaceEntries[p] \cap PlaceEntries[q] = {}
    BY <1>3
  <1>6. Enumerates(Rolled(EntryParts, Len(rows)), UNION {PlaceEntries[p] : p \in Places}, EntryInodes)
    BY <1>1, <1>2, <1>5, EnumeratesThrough
  <1>7. QED
    BY <1>4, <1>6

-----------------------------------------------------------------------------
(* The tables, when the first m rows have been read *)

RowsWith(kind, m) == {n \in 1 .. m : rows[n].row = kind}

TablesUpto(m) ==
  /\ blocklist = Rolled(BlockParts, m)
  /\ direct_references = Rolled(EntryParts, m)
  /\ superblock \in BOOLEAN /\ (superblock <=> RowsWith("SUPERBLOCK", m) # {})
  /\ total_group_inodes = (IF RowsWith("GROUP", m) = {} THEN Unknown ELSE NInodes)
  /\ first_legal_block = (IF RowsWith("GROUP", m) = {} THEN 0 ELSE FirstLegalBlock(GroupRow))
  /\ freeblocks = {rows[n].num : n \in RowsWith("BFREE", m)}
  /\ freeinodes = {rows[n].num : n \in RowsWith("IFREE", m)}
  /\ allocated_inodes = {[num |-> rows[n].num, links |-> rows[n].links] : n \in RowsWith("INODE", m)}

LEMMA NoRowsRead ==
  ASSUME Init
  PROVE  TablesUpto(0)
  <1>1. \A kind : RowsWith(kind, 0) = {}
    BY DEF RowsWith
  <1>2. Rolled(BlockParts, 0) = <<>> /\ Rolled(EntryParts, 0) = <<>>
    BY RolledNone
  <1>3. QED
    BY <1>1, <1>2 DEF Init, TablesUpto

\* The parts are sequences.
LEMMA PartsTyped ==
  \E E, F : \A n \in 1 .. Len(rows) : BlockParts[n] \in Seq(E) /\ EntryParts[n] \in Seq(F)
  <1> DEFINE number(n, k) == [block |-> rows[n].block[k], inode |-> rows[n].num, level |-> "number"]
  <1> DEFINE string(n) == [block |-> rows[n].block, inode |-> rows[n].num, level |-> "string"]
  <1> DEFINE E == {number(n, k) : n \in 1 .. Len(rows), k \in 1 .. NDirect + 3} \cup {string(n) : n \in 1 .. Len(rows)}
  <1> DEFINE F == {rows[n].num : n \in 1 .. Len(rows)}
  <1>1. ASSUME NEW n \in 1 .. Len(rows)
        PROVE  BlockParts[n] \in Seq(E)
    <2>1. CASE rows[n].row = "INODE"
      <3> DEFINE f == [k \in 1 .. NDirect + 3 |-> IF rows[n].block[k] = 0 THEN <<>> ELSE <<number(n, k)>>]
      <3>1. \A k \in 1 .. NDirect + 3 : number(n, k) \in E
        OBVIOUS
      <3>2. NDirect + 3 \in Nat
        BY Sizes
      <3>3. NumbersIn(rows[n]) = <<>> \/ NumbersIn(rows[n]) = Rolled(f, NDirect + 3)
        BY RowsRolled DEF NumbersIn
      <3> HIDE DEF number, E
      <3>4. \A k \in 1 .. NDirect + 3 : f[k] \in Seq(E)
        BY <3>1
      <3> HIDE DEF f
      <3>5. Rolled(f, NDirect + 3) \in Seq(E)
        BY <3>2, <3>4, RolledTyped
      <3>6. BlockParts[n] = NumbersIn(rows[n])
        BY <2>1 DEF BlockParts
      <3>7. <<>> \in Seq(E)
        OBVIOUS
      <3>8. QED
        BY <3>3, <3>5, <3>6, <3>7
    <2>2. CASE rows[n].row = "INDIRECT"
      <3>1. string(n) \in E
        OBVIOUS
      <3>2. BlockParts[n] = <<string(n)>>
        BY <2>2 DEF BlockParts
      <3> HIDE DEF string, E
      <3>3. QED
        BY <3>1, <3>2
    <2>3. CASE rows[n].row \notin {"INODE", "INDIRECT"}
      <3>1. BlockParts[n] = <<>>
        BY <2>3 DEF BlockParts
      <3> HIDE DEF E
      <3>2. QED
        BY <3>1
    <2>4. QED
      BY <2>1, <2>2, <2>3
  <1>2. ASSUME NEW n \in 1 .. Len(rows)
        PROVE  EntryParts[n] \in Seq(F)
    <2>1. rows[n].num \in F
      OBVIOUS
    <2>2. EntryParts[n] = (IF rows[n].row = "DIRENT" THEN <<rows[n].num>> ELSE <<>>)
      BY DEF EntryParts
    <2> HIDE DEF F
    <2>3. QED
      BY <2>1, <2>2
  <1> HIDE DEF E, F
  <1>3. \A n \in 1 .. Len(rows) : BlockParts[n] \in Seq(E) /\ EntryParts[n] \in Seq(F)
    BY <1>1, <1>2
  <1>4. QED
    BY <1>3

LEMMA PartsGrow ==
  ASSUME NEW m \in Nat, m + 1 <= Len(rows), Len(rows) \in Nat
  PROVE  /\ Rolled(BlockParts, m + 1) = Rolled(BlockParts, m) \o BlockParts[m + 1]
         /\ Rolled(EntryParts, m + 1) = Rolled(EntryParts, m) \o EntryParts[m + 1]
         /\ \E E, F : Rolled(BlockParts, m) \in Seq(E) /\ Rolled(EntryParts, m) \in Seq(F)
  <1>1. PICK E, F : \A n \in 1 .. Len(rows) : BlockParts[n] \in Seq(E) /\ EntryParts[n] \in Seq(F)
    BY PartsTyped
  <1>2. \A n \in 1 .. m + 1 : n \in 1 .. Len(rows)
    OBVIOUS
  <1>3. \A n \in 1 .. m + 1 : BlockParts[n] \in Seq(E)
    BY <1>1, <1>2
  <1>4. \A n \in 1 .. m + 1 : EntryParts[n] \in Seq(F)
    BY <1>1, <1>2
  <1>5. Rolled(BlockParts, m) \in Seq(E) /\ Rolled(BlockParts, m + 1) = Rolled(BlockParts, m) \o BlockParts[m + 1]
    BY <1>3, RolledMore
  <1>6. Rolled(EntryParts, m) \in Seq(F) /\ Rolled(EntryParts, m + 1) = Rolled(EntryParts, m) \o EntryParts[m + 1]
    BY <1>4, RolledMore
  <1>7. QED
    BY <1>5, <1>6

LEMMA RowsWithGrow ==
  ASSUME NEW m \in Nat, NEW kind
  PROVE  RowsWith(kind, m + 1) = RowsWith(kind, m) \cup (IF rows[m + 1].row = kind THEN {m + 1} ELSE {})
  <1>1. \A n : n \in 1 .. m + 1 <=> n \in 1 .. m \/ n = m + 1
    OBVIOUS
  <1>2. QED
    BY <1>1 DEF RowsWith

\* With the tables are all rows read: the lists are complete.
LEMMA AllRead ==
  ASSUME FileGiven, TablesUpto(Len(rows))
  PROVE  /\ freeblocks = img.bfree /\ freeinodes = img.ifree
         /\ first_legal_block = TableStart + NInodes \div InodesPerBlock
         /\ allocated_inodes = {[num |-> i, links |-> img.inode[i].links] : i \in {i \in Inodes : InUse(img, i)}}
  <1>1. freeblocks = img.bfree
    <2>1. freeblocks = {rows[n].num : n \in RowsWith("BFREE", Len(rows))}
      BY DEF TablesUpto
    <2>2. \A n \in RowsWith("BFREE", Len(rows)) : rows[n].num \in img.bfree
      BY RowIs DEF RowsWith
    <2>3. \A b \in img.bfree : \E n \in RowsWith("BFREE", Len(rows)) : rows[n].num = b
      BY RowsHave DEF RowsWith
    <2>4. QED
      BY <2>1, <2>2, <2>3
  <1>2. freeinodes = img.ifree
    <2>1. freeinodes = {rows[n].num : n \in RowsWith("IFREE", Len(rows))}
      BY DEF TablesUpto
    <2>2. \A n \in RowsWith("IFREE", Len(rows)) : rows[n].num \in img.ifree
      BY RowIs DEF RowsWith
    <2>3. \A b \in img.ifree : \E n \in RowsWith("IFREE", Len(rows)) : rows[n].num = b
      BY RowsHave DEF RowsWith
    <2>4. QED
      BY <2>1, <2>2, <2>3
  <1>3. first_legal_block = TableStart + NInodes \div InodesPerBlock
    <2>1. RowsWith("GROUP", Len(rows)) # {}
      BY RowsHave DEF RowsWith
    <2>2. QED
      BY <2>1 DEF TablesUpto, FirstLegalBlock, GroupRow
  <1>4. ASSUME NEW a \in allocated_inodes
        PROVE  \E i \in Inodes : InUse(img, i) /\ a = [num |-> i, links |-> img.inode[i].links]
    <2>1. PICK n \in 1 .. Len(rows) : rows[n].row = "INODE" /\ a = [num |-> rows[n].num, links |-> rows[n].links]
      BY DEF TablesUpto, RowsWith
    <2>2. PICK i \in Inodes : InUse(img, i) /\ rows[n] = InodeRow(img, i)
      BY <2>1, RowIs
    <2>3. QED
      BY <2>1, <2>2 DEF InodeRow
  <1>5. ASSUME NEW i \in Inodes, InUse(img, i)
        PROVE  [num |-> i, links |-> img.inode[i].links] \in allocated_inodes
    <2>1. PICK n \in 1 .. Len(rows) : rows[n].row = "INODE" /\ rows[n] = InodeRow(img, i)
      BY <1>5, RowsHave
    <2>2. n \in RowsWith("INODE", Len(rows)) /\ rows[n].num = i /\ rows[n].links = img.inode[i].links
      BY <2>1 DEF RowsWith, InodeRow
    <2>3. [num |-> rows[n].num, links |-> rows[n].links] \in allocated_inodes
      BY <2>2 DEF TablesUpto
    <2>4. QED
      BY <2>2, <2>3
  <1>6. allocated_inodes = {[num |-> i, links |-> img.inode[i].links] : i \in {i \in Inodes : InUse(img, i)}}
    BY <1>4, <1>5
  <1>7. QED
    BY <1>1, <1>2, <1>3, <1>6

\* What is known of the free inodes while rows are read.
LEMMA FreeInodesRead ==
  ASSUME FileGiven, NEW m \in Nat, m + 1 <= Len(rows), TablesUpto(m)
  PROVE  /\ freeinodes \subseteq img.ifree
         /\ rows[m + 1].row \in {"INODE", "DIRENT", "INDIRECT"} /\ FreeListsFirst => freeinodes = img.ifree
  <1>1. Len(rows) \in Nat /\ m + 1 \in 1 .. Len(rows)
    BY FileSound
  <1>2. freeinodes \subseteq img.ifree
    <2>1. \A n \in RowsWith("IFREE", m) : n \in 1 .. Len(rows) /\ rows[n].row = "IFREE"
      BY <1>1 DEF RowsWith
    <2>2. QED
      BY <2>1, RowIs DEF TablesUpto
  <1>3. ASSUME rows[m + 1].row \in {"INODE", "DIRENT", "INDIRECT"}, FreeListsFirst, NEW i \in img.ifree
        PROVE  i \in freeinodes
    <2>1. PICK n \in 1 .. Len(rows) : rows[n].row = "IFREE" /\ rows[n].num = i
      BY RowsHave
    <2>2. GroupOf(rows[n].row) = 3 /\ GroupOf(rows[m + 1].row) = 4
      BY <1>3, <2>1 DEF GroupOf
    <2>3. n < m + 1
      BY <1>1, <1>3, <2>2, GroupsInOrder DEF FreeListsFirst
    <2>4. n \in RowsWith("IFREE", m)
      BY <2>1, <2>3 DEF RowsWith
    <2>5. QED
      BY <2>1, <2>4 DEF TablesUpto
  <1>4. QED
    BY <1>2, <1>3

-----------------------------------------------------------------------------
(* How the tables are kept *)

Upto == IF pc = "rows" THEN at - 1 ELSE Len(rows)

Control ==
  /\ at \in Nat \ {0} /\ (pc = "rows" => at <= Len(rows) + 1)
  /\ pc \in {"rows", "blocks", "unreferenced", "inodes", "links", "exit"}
  /\ exit \in {Running, 0, 1, 2} /\ (exit \in {0, 2} => pc = "exit")
  /\ exit # 1 => TablesUpto(Upto)

\* Nothing at the end, and one more element there.
LEMMA NothingAppended ==
  ASSUME NEW E, NEW s \in Seq(E), NEW x
  PROVE  s \o <<>> = s /\ Append(s, x) = s \o <<x>>
  <1> DEFINE D == E \cup {x}
  <1>1. s \in Seq(D) /\ x \in D
    <2>1. Len(s) \in Nat /\ s = [n \in 1 .. Len(s) |-> s[n]] /\ \A n \in 1 .. Len(s) : s[n] \in D
      OBVIOUS
    <2> HIDE DEF D
    <2>2. s \in [1 .. Len(s) -> D]
      BY <2>1
    <2>3. s \in Seq(D)
      BY <2>1, <2>2, FunctionsAreSequences
    <2>4. QED
      BY <2>3 DEF D
  <1> HIDE DEF D
  <1>2. Append(s, x) = s \o <<x>>
    BY <1>1, AppendIsConcat
  <1>3. s \o <<>> = s
    BY <1>1, ConcatEmptySeq
  <1>4. QED
    BY <1>2, <1>3

LEMMA FileStays ==
  ASSUME FileGiven, UNCHANGED <<img, order, rows>>
  PROVE  FileGiven'
  BY DEF FileGiven

LEMMA PartsStay ==
  ASSUME rows' = rows
  PROVE  BlockParts' = BlockParts /\ EntryParts' = EntryParts /\ \A kind, m : RowsWith(kind, m)' = RowsWith(kind, m)
  BY DEF BlockParts, EntryParts, RowsWith

LEMMA TablesStay ==
  ASSUME NEW m, TablesUpto(m), UNCHANGED <<rows, tableVars>>
  PROVE  TablesUpto(m)'
  BY PartsStay DEF TablesUpto, tableVars

\* One more row in the tables, by what the row is entered into.
LEMMA TablesGrow ==
  ASSUME FileGiven, NEW m \in Nat, m + 1 <= Len(rows), TablesUpto(m), rows' = rows,
         LET row == rows[m + 1] IN
           /\ blocklist' = blocklist \o BlockParts[m + 1] /\ direct_references' = direct_references \o EntryParts[m + 1]
           /\ superblock' = (superblock \/ row.row = "SUPERBLOCK")
           /\ total_group_inodes' = (IF row.row = "GROUP" THEN NInodes ELSE total_group_inodes)
           /\ first_legal_block' = (IF row.row = "GROUP" THEN FirstLegalBlock(GroupRow) ELSE first_legal_block)
           /\ freeblocks' = freeblocks \cup (IF row.row = "BFREE" THEN {row.num} ELSE {})
           /\ freeinodes' = freeinodes \cup (IF row.row = "IFREE" THEN {row.num} ELSE {})
           /\ allocated_inodes' = allocated_inodes
                \cup (IF row.row = "INODE" THEN {[num |-> row.num, links |-> row.links]} ELSE {})
  PROVE  TablesUpto(m + 1)'
  <1> DEFINE row == rows[m + 1]
  <1>1. Len(rows) \in Nat
    BY FileSound
  <1>2. \A kind : RowsWith(kind, m + 1) = RowsWith(kind, m) \cup (IF row.row = kind THEN {m + 1} ELSE {})
    BY RowsWithGrow
  <1>3. blocklist' = Rolled(BlockParts, m + 1)' /\ direct_references' = Rolled(EntryParts, m + 1)'
    BY <1>1, PartsGrow, PartsStay DEF TablesUpto
  <1>4. superblock' \in BOOLEAN /\ (superblock' <=> RowsWith("SUPERBLOCK", m + 1)' # {})
    <2>1. RowsWith("SUPERBLOCK", m + 1) # {} <=> RowsWith("SUPERBLOCK", m) # {} \/ row.row = "SUPERBLOCK"
      BY <1>2
    <2>2. superblock \in BOOLEAN /\ (superblock <=> RowsWith("SUPERBLOCK", m) # {})
      BY DEF TablesUpto
    <2> HIDE DEF row
    <2>3. superblock' \in BOOLEAN /\ (superblock' <=> RowsWith("SUPERBLOCK", m + 1) # {})
      <3>1. superblock' = (superblock \/ row.row = "SUPERBLOCK")
        BY DEF row
      <3>2. QED
        BY <2>1, <2>2, <3>1, Zenon
    <2>4. RowsWith("SUPERBLOCK", m + 1)' = RowsWith("SUPERBLOCK", m + 1)
      BY PartsStay
    <2>5. QED
      BY <2>3, <2>4
  <1>5. /\ total_group_inodes' = (IF RowsWith("GROUP", m + 1)' = {} THEN Unknown ELSE NInodes)
        /\ first_legal_block' = (IF RowsWith("GROUP", m + 1)' = {} THEN 0 ELSE FirstLegalBlock(GroupRow))
    <2>1. RowsWith("GROUP", m + 1) = {} <=> RowsWith("GROUP", m) = {} /\ row.row # "GROUP"
      BY <1>2
    <2>2. RowsWith("GROUP", m + 1)' = RowsWith("GROUP", m + 1)
      BY PartsStay
    <2>3. /\ total_group_inodes = (IF RowsWith("GROUP", m) = {} THEN Unknown ELSE NInodes)
          /\ first_legal_block = (IF RowsWith("GROUP", m) = {} THEN 0 ELSE FirstLegalBlock(GroupRow))
      BY DEF TablesUpto
    <2>4. /\ total_group_inodes' = (IF row.row = "GROUP" THEN NInodes ELSE total_group_inodes)
          /\ first_legal_block' = (IF row.row = "GROUP" THEN FirstLegalBlock(GroupRow) ELSE first_legal_block)
      OBVIOUS
    <2> HIDE DEF row
    <2>5. CASE row.row = "GROUP"
      BY <2>1, <2>2, <2>4, <2>5
    <2>6. CASE row.row # "GROUP"
      BY <2>1, <2>2, <2>3, <2>4, <2>6
    <2>7. QED
      BY <2>5, <2>6
  <1>6. freeblocks' = {rows[n].num : n \in RowsWith("BFREE", m + 1)}
    BY <1>2 DEF TablesUpto
  <1>7. freeinodes' = {rows[n].num : n \in RowsWith("IFREE", m + 1)}
    BY <1>2 DEF TablesUpto
  <1>8. allocated_inodes' = {[num |-> rows[n].num, links |-> rows[n].links] : n \in RowsWith("INODE", m + 1)}
    BY <1>2 DEF TablesUpto
  <1>9. /\ freeblocks' = {rows[n].num : n \in RowsWith("BFREE", m + 1)}'
        /\ freeinodes' = {rows[n].num : n \in RowsWith("IFREE", m + 1)}'
        /\ allocated_inodes' = {[num |-> rows[n].num, links |-> rows[n].links] : n \in RowsWith("INODE", m + 1)}'
    <2>1. /\ RowsWith("BFREE", m + 1)' = RowsWith("BFREE", m + 1)
          /\ RowsWith("IFREE", m + 1)' = RowsWith("IFREE", m + 1)
          /\ RowsWith("INODE", m + 1)' = RowsWith("INODE", m + 1)
      BY PartsStay
    <2>2. QED
      BY <1>6, <1>7, <1>8, <2>1
  <1>10. QED
    BY <1>3, <1>4, <1>5, <1>9 DEF TablesUpto

\* A row that is read without an exception.
LEMMA RowEntered ==
  ASSUME FileGiven, NEW m \in Nat, at = m + 1, TablesUpto(m), UNCHANGED <<img, order, rows>>,
         ReadSuperblock \/ ReadGroup \/ ReadFree \/ ReadInode \/ ReadIndirect \/ ReadDirent,
         exit' # 1, exit = Running
  PROVE  TablesUpto(m + 1)' /\ at' = m + 2 /\ UNCHANGED <<pc, exit>> /\ pc = "rows" /\ m + 1 <= Len(rows)
  <1> DEFINE row == rows[m + 1]
  <1>1. pc = "rows" /\ m + 1 <= Len(rows) /\ Row = row
    BY DEF ReadSuperblock, ReadGroup, ReadFree, ReadInode, ReadIndirect, ReadDirent, At, Row
  <1>2. m + 1 \in 1 .. Len(rows) /\ Len(rows) \in Nat
    BY <1>1, FileSound
  <1>3. blocklist \o <<>> = blocklist /\ direct_references \o <<>> = direct_references
    <2>1. blocklist = Rolled(BlockParts, m) /\ direct_references = Rolled(EntryParts, m)
      BY DEF TablesUpto
    <2>2. \E E, F : Rolled(BlockParts, m) \in Seq(E) /\ Rolled(EntryParts, m) \in Seq(F)
      BY <1>1, <1>2, PartsGrow
    <2>3. QED
      BY <2>1, <2>2, NothingAppended
  <1>4. BlockParts[m + 1] = (IF row.row = "INODE" THEN NumbersIn(row)
                             ELSE IF row.row = "INDIRECT"
                                  THEN <<[block |-> row.block, inode |-> row.num, level |-> "string"]>> ELSE <<>>)
        /\ EntryParts[m + 1] = (IF row.row = "DIRENT" THEN <<row.num>> ELSE <<>>)
    BY <1>2 DEF BlockParts, EntryParts
  <1> HIDE DEF row
  <1>5. CASE ReadSuperblock
    <2>1. row.row = "SUPERBLOCK" /\ superblock' = TRUE /\ at' = at + 1
          /\ UNCHANGED <<total_group_inodes, first_legal_block, freeblocks, freeinodes,
                         allocated_inodes, direct_references, blocklist, reports, error_flag, pc, exit>>
      BY <1>1, <1>5 DEF ReadSuperblock, At
    <2>2. TablesUpto(m + 1)'
      BY <1>1, <1>3, <1>4, <2>1, TablesGrow DEF row
    <2>3. QED
      BY <1>1, <2>1, <2>2
  <1>6. CASE ReadGroup
    <2>1. /\ row.row = "GROUP" /\ total_group_inodes' = row.inodes
          /\ UNCHANGED <<superblock, freeblocks, freeinodes, allocated_inodes, direct_references,
                         blocklist, reports, error_flag>>
      BY <1>1, <1>6 DEF ReadGroup, At
    <2>2. first_legal_block' = FirstLegalBlock(row) /\ at' = at + 1 /\ UNCHANGED <<pc, exit>>
      BY <1>1, <1>6 DEF ReadGroup, Raise
    <2>3. row = GroupRow
      BY <1>2, <2>1, RowIs DEF row
    <2>4. row.inodes = NInodes
      BY <2>3 DEF GroupRow
    <2>5. TablesUpto(m + 1)'
      <3>1. superblock \in BOOLEAN
        BY DEF TablesUpto
      <3>2. QED
        BY <1>1, <1>3, <1>4, <2>1, <2>2, <2>3, <2>4, <3>1, TablesGrow DEF row
    <2>6. QED
      BY <1>1, <2>2, <2>5
  <1>7. CASE ReadFree
    <2>1. /\ row.row \in {"BFREE", "IFREE"} /\ at' = at + 1
          /\ freeblocks' = freeblocks \cup (IF row.row = "BFREE" THEN {row.num} ELSE {})
          /\ freeinodes' = freeinodes \cup (IF row.row = "IFREE" THEN {row.num} ELSE {})
          /\ UNCHANGED <<superblock, total_group_inodes, first_legal_block, allocated_inodes,
                         direct_references, blocklist, reports, error_flag, pc, exit>>
      BY <1>1, <1>7 DEF ReadFree, At
    <2>2. TablesUpto(m + 1)'
      <3>1. superblock \in BOOLEAN
        BY DEF TablesUpto
      <3>2. QED
        BY <1>1, <1>3, <1>4, <2>1, <3>1, TablesGrow DEF row
    <2>3. QED
      BY <1>1, <2>1, <2>2
  <1>8. CASE ReadInode
    <2>1. /\ row.row = "INODE" /\ at' = at + 1
          /\ allocated_inodes' = allocated_inodes \cup {[num |-> row.num, links |-> row.links]}
          /\ blocklist' = blocklist \o NumbersIn(row)
          /\ UNCHANGED <<superblock, total_group_inodes, first_legal_block, freeblocks, freeinodes,
                         direct_references, pc, exit>>
      BY <1>1, <1>8 DEF ReadInode, At
    <2>2. TablesUpto(m + 1)'
      <3>1. superblock \in BOOLEAN
        BY DEF TablesUpto
      <3>2. QED
        BY <1>1, <1>3, <1>4, <2>1, <3>1, TablesGrow DEF row
    <2>3. QED
      BY <1>1, <2>1, <2>2
  <1>9. CASE ReadIndirect
    <2>1. /\ row.row = "INDIRECT" /\ at' = at + 1
          /\ blocklist' = Append(blocklist, [block |-> row.block, inode |-> row.num, level |-> "string"])
          /\ UNCHANGED <<superblock, total_group_inodes, first_legal_block, freeblocks, freeinodes,
                         allocated_inodes, direct_references, reports, error_flag, pc, exit>>
      BY <1>1, <1>9 DEF ReadIndirect, At
    <2>2. blocklist' = blocklist \o BlockParts[m + 1]
      <3>1. PICK E : blocklist \in Seq(E)
        BY <1>1, <1>2, PartsGrow DEF TablesUpto
      <3>2. BlockParts[m + 1] = <<[block |-> row.block, inode |-> row.num, level |-> "string"]>>
        BY <1>4, <2>1
      <3>3. QED
        BY <2>1, <3>1, <3>2, NothingAppended
    <2>3. TablesUpto(m + 1)'
      <3>1. superblock \in BOOLEAN
        BY DEF TablesUpto
      <3>2. QED
        BY <1>1, <1>3, <1>4, <2>1, <2>2, <3>1, TablesGrow DEF row
    <2>4. QED
      BY <1>1, <2>1, <2>3
  <1>10. CASE ReadDirent
    <2>1. /\ row.row = "DIRENT" /\ direct_references' = Append(direct_references, row.num)
          /\ UNCHANGED <<superblock, total_group_inodes, first_legal_block, freeblocks, freeinodes,
                         allocated_inodes, blocklist>>
      BY <1>1, <1>10 DEF ReadDirent, At
    <2>2. at' = at + 1 /\ UNCHANGED <<pc, exit>>
      BY <1>10 DEF ReadDirent, Raise
    <2>3. direct_references' = direct_references \o EntryParts[m + 1]
      <3>1. PICK E : direct_references \in Seq(E)
        BY <1>1, <1>2, PartsGrow DEF TablesUpto
      <3>2. EntryParts[m + 1] = <<row.num>>
        BY <1>4, <2>1
      <3>3. QED
        BY <2>1, <3>1, <3>2, NothingAppended
    <2>4. TablesUpto(m + 1)'
      <3>1. superblock \in BOOLEAN
        BY DEF TablesUpto
      <3>2. QED
        BY <1>1, <1>3, <1>4, <2>1, <2>2, <2>3, <3>1, TablesGrow DEF row
    <2>5. QED
      BY <1>1, <2>2, <2>4
  <1>11. QED
    BY <1>5, <1>6, <1>7, <1>8, <1>9, <1>10

ReadsRow == ReadSuperblock \/ ReadGroup \/ ReadFree \/ ReadInode \/ ReadIndirect \/ ReadDirent

LEMMA ControlStarts ==
  ASSUME Init
  PROVE  FileGiven /\ Control
  <1>1. FileGiven
    BY DEF Init, FileGiven, FileOf, Orders
  <1>2. at = 1 /\ pc = "rows" /\ exit = Running
    BY DEF Init
  <1>3. Upto = 0 /\ Len(rows) \in Nat
    BY <1>1, <1>2, FileSound DEF Upto
  <1>4. TablesUpto(Upto)
    BY <1>3, NoRowsRead
  <1>5. at \in Nat \ {0} /\ at <= Len(rows) + 1
    BY <1>2, <1>3
  <1>6. QED
    BY <1>1, <1>2, <1>4, <1>5 DEF Control, Running

\* A step on the tables leaves them as they are.
LEMMA ChecksStay ==
  ASSUME FileGiven, Control, exit = Running, UNCHANGED <<img, order, rows>>,
         EndOfRows \/ CheckBlock \/ EndOfBlocks \/ CheckUnreferenced \/ CheckUnallocated \/ CheckLinks \/ Exit
  PROVE  /\ UNCHANGED tableVars
         /\ Upto' = Upto
         /\ Control'
  <1>1. UNCHANGED tableVars
    BY DEF EndOfRows, CheckBlock, EndOfBlocks, CheckUnreferenced, CheckUnallocated, CheckLinks, Exit
  <1>2. /\ at \in Nat \ {0} /\ (pc = "rows" => at <= Len(rows) + 1)
        /\ TablesUpto(Upto) /\ Len(rows) \in Nat
    BY FileSound DEF Control, Running
  <1>3. Upto' = Upto /\ at' \in Nat \ {0} /\ pc' \in {"blocks", "unreferenced", "inodes", "links", "exit"}
        /\ exit' \in {Running, 0, 1, 2} /\ (exit' \in {0, 2} => pc' = "exit")
    <2>1. CASE EndOfRows
      <3>1. pc = "rows" /\ at > Len(rows) /\ pc' = "blocks" /\ at' = 1 /\ exit' = exit
        BY <2>1 DEF EndOfRows, Goto
      <3>2. at - 1 = Len(rows)
        BY <1>2, <3>1
      <3>3. QED
        BY <3>1, <3>2 DEF Upto, Running
    <2>2. CASE CheckBlock
      <3>1. pc = "blocks" /\ UNCHANGED pc /\ at' \in {at, at + 1} /\ exit' \in {exit, 1}
        BY <2>2 DEF CheckBlock, Raise
      <3>2. at' \in Nat \ {0}
        BY <1>2, <3>1
      <3>3. QED
        BY <3>1, <3>2 DEF Upto, Running
    <2>3. CASE EndOfBlocks
      BY <2>3 DEF EndOfBlocks, Goto, Upto, Running
    <2>4. CASE CheckUnreferenced
      <3>1. pc = "unreferenced" /\ pc' = "inodes" /\ at' = 1 /\ exit' = exit
        BY <2>4 DEF CheckUnreferenced, Goto
      <3>2. QED
        BY <3>1 DEF Upto, Running
    <2>5. CASE CheckUnallocated
      <3>1. pc = "inodes" /\ pc' = "links" /\ at' = 1 /\ exit' = exit
        BY <2>5 DEF CheckUnallocated, Goto
      <3>2. QED
        BY <3>1 DEF Upto, Running
    <2>6. CASE CheckLinks
      BY <2>6 DEF CheckLinks, Goto, Upto, Running
    <2>7. CASE Exit
      BY <1>2, <2>7 DEF Exit, Status, Upto, Running
    <2>8. QED
      BY <2>1, <2>2, <2>3, <2>4, <2>5, <2>6, <2>7
  <1>4. TablesUpto(Upto)'
    <2>1. PICK m : m = Upto
      OBVIOUS
    <2>2. TablesUpto(m)'
      BY <1>1, <1>2, <2>1, TablesStay
    <2>3. QED
      BY <1>3, <2>1, <2>2
  <1>5. QED
    BY <1>1, <1>3, <1>4 DEF Control

\* A row is read, or the program ends there with an exception.
LEMMA RowControl ==
  ASSUME FileGiven, Control, exit = Running, UNCHANGED <<img, order, rows>>, ReadsRow
  PROVE  /\ Control'
         /\ pc = "rows" /\ pc' = "rows" /\ at \in 1 .. Len(rows) /\ Upto = at - 1 /\ TablesUpto(at - 1)
         /\ (exit' = Running /\ at' = at + 1 /\ Upto' = at) \/ (exit' = 1 /\ at' = at)
  <1>1. /\ at \in Nat \ {0} /\ TablesUpto(Upto) /\ Len(rows) \in Nat
    BY FileSound DEF Control, Running
  <1>2. pc = "rows" /\ at <= Len(rows)
    BY DEF ReadsRow, ReadSuperblock, ReadGroup, ReadFree, ReadInode, ReadIndirect, ReadDirent, At
  <1>3. Upto = at - 1 /\ at \in 1 .. Len(rows)
    BY <1>1, <1>2 DEF Upto
  <1>4. PICK m \in Nat : m = at - 1
    BY <1>1
  <1>5. at = m + 1
    BY <1>1, <1>4
  <1>6. (exit' = 1 /\ at' = at /\ pc' = pc) \/ exit' = exit
    BY DEF ReadsRow, ReadSuperblock, ReadGroup, ReadFree, ReadInode, ReadIndirect, ReadDirent, Raise
  <1>7. CASE exit' = 1
    <2>1. at' = at /\ pc' = pc
      BY <1>6, <1>7 DEF Running
    <2>2. Control'
      BY <1>1, <1>2, <1>7, <2>1 DEF Control, Running
    <2>3. QED
      BY <1>1, <1>2, <1>3, <1>7, <2>1, <2>2
  <1>8. CASE exit' # 1
    <2>1. TablesUpto(m + 1)' /\ at' = m + 2 /\ UNCHANGED <<pc, exit>>
      BY <1>1, <1>3, <1>4, <1>5, <1>8, RowEntered DEF ReadsRow
    <2>2. at' = at + 1 /\ at' - 1 = m + 1 /\ m + 1 = at
      BY <1>1, <1>4, <2>1
    <2>3. Upto' = m + 1
      BY <1>2, <2>1, <2>2 DEF Upto
    <2>4. TablesUpto(Upto)'
      BY <2>1, <2>3
    <2>5. at' \in Nat \ {0} /\ at' <= Len(rows) + 1
      BY <1>1, <1>2, <2>2
    <2>6. Control'
      BY <1>2, <2>1, <2>4, <2>5 DEF Control, Running
    <2>7. QED
      BY <1>1, <1>2, <1>3, <2>1, <2>2, <2>3, <2>6
  <1>9. QED
    BY <1>7, <1>8

LEMMA NextIs ==
  ASSUME [Next]_vars
  PROVE  \/ exit = Running /\ UNCHANGED <<img, order, rows>>
            /\ \/ ReadsRow
               \/ EndOfRows \/ CheckBlock \/ EndOfBlocks \/ CheckUnreferenced \/ CheckUnallocated \/ CheckLinks \/ Exit
         \/ UNCHANGED vars
  BY DEF Next, ReadRow, CheckTables, ReadsRow

LEMMA ControlKept ==
  ASSUME FileGiven, Control, [Next]_vars
  PROVE  FileGiven' /\ Control'
  <1>1. CASE UNCHANGED vars
    <2>1. UNCHANGED <<img, order, rows, at, tableVars, pc, exit>>
      BY <1>1 DEF vars
    <2>2. Upto' = Upto
      BY <2>1 DEF Upto
    <2>3. PICK m : m = Upto
      OBVIOUS
    <2>4. exit # 1 => TablesUpto(m)'
      BY <2>1, <2>3, TablesStay DEF Control
    <2>5. QED
      BY <2>1, <2>2, <2>3, <2>4, FileStays DEF Control
  <1>2. CASE exit = Running /\ UNCHANGED <<img, order, rows>> /\ ReadsRow
    BY <1>2, RowControl, FileStays
  <1>3. CASE /\ exit = Running /\ UNCHANGED <<img, order, rows>>
             /\ EndOfRows \/ CheckBlock \/ EndOfBlocks \/ CheckUnreferenced \/ CheckUnallocated \/ CheckLinks \/ Exit
    BY <1>3, ChecksStay, FileStays
  <1>4. QED
    BY <1>1, <1>2, <1>3, NextIs

-----------------------------------------------------------------------------
(* What each row, block and check finds of what is wrong *)

EntryFindings(dir, num, name) ==
  (IF name = "." /\ num # dir THEN {Says("DOT", num, dir)} ELSE {})
  \cup (IF name = ".." /\ dir = Root /\ num # Root THEN {Says("DOTDOT", num, Root)} ELSE {})
  \cup (IF name \notin {".", ".."} /\ num \in img.ifree THEN {Says("UNALLOCATED INODE", num, dir)} ELSE {})
  \cup (IF name \notin {".", ".."} /\ num \notin Inodes THEN {Says("INVALID INODE", num, dir)} ELSE {})

RowFindings(row) ==
  (IF row.row = "INODE" /\ row.num \in img.ifree
   THEN {Says("ALLOCATED INODE ON FREELIST", row.num, 0)} ELSE {})
  \cup (IF row.row = "DIRENT" THEN EntryFindings(row.dir, row.num, row.name) ELSE {})

BlockFindings(item) ==
  {Says(what, item.block, item.inode) : what \in BadBlock(References, item.block)}
  \cup (IF item.block \in img.bfree THEN {Says("ALLOCATED BLOCK ON FREELIST", item.block, 0)} ELSE {})

Unreferenced ==
  {Says("UNREFERENCED BLOCK", b, 0) : b \in DataBlocks \ (img.bfree \cup {ref.block : ref \in References})}
Unallocated ==
  {Says("UNALLOCATED INODE NOT ON FREELIST", i, 0) :
     i \in {i \in FirstInode .. NInodes : ~InUse(img, i) /\ i \notin img.ifree}}
Links ==
  {Says("LINKS", i, 0) :
     i \in {i \in Inodes : InUse(img, i) /\ img.inode[i].links # Cardinality({e \in Entries : Entry(e).inode = i})}}

InodesFreed ==
  {Says("ALLOCATED INODE ON FREELIST", i, 0) : i \in {i \in img.ifree : i \in Inodes /\ InUse(img, i)}}
FoundInBlocks == UNION {BlockFindings(BlockEntries[ref]) : ref \in References}
FoundInEntries == UNION {EntryFindings(e[1], Entry(e).inode, Entry(e).name) : e \in Entries}

\* The inconsistencies in the parts that the program looks for them.
LEMMA InconsistenciesAre ==
  Inconsistencies = FoundInBlocks \cup FoundInEntries \cup InodesFreed \cup Unreferenced \cup Unallocated \cup Links
  <1>1. BlockInconsistencies(References) = FoundInBlocks \cup Unreferenced
    <2> DEFINE named == UNION {{Says(what, ref.block, ref.inode) : what \in BadBlock(References, ref.block)} : ref \in References}
               free == {Says("ALLOCATED BLOCK ON FREELIST", b, 0) : b \in {ref.block : ref \in References} \cap img.bfree}
    <2>1. \A ref \in References : BlockEntries[ref].block = ref.block /\ BlockEntries[ref].inode = ref.inode
      BY DEF BlockEntries
    <2>2. \A ref \in References :
            BlockFindings(BlockEntries[ref]) =
              {Says(what, ref.block, ref.inode) : what \in BadBlock(References, ref.block)}
              \cup (IF ref.block \in img.bfree THEN {Says("ALLOCATED BLOCK ON FREELIST", ref.block, 0)} ELSE {})
      BY <2>1 DEF BlockFindings
    <2>3. ASSUME NEW r \in FoundInBlocks
          PROVE  r \in named \cup free
      <3>1. PICK ref \in References : r \in BlockFindings(BlockEntries[ref])
        BY <2>3 DEF FoundInBlocks
      <3>2. CASE r \in {Says(what, ref.block, ref.inode) : what \in BadBlock(References, ref.block)}
        BY <3>2
      <3>3. CASE ref.block \in img.bfree /\ r = Says("ALLOCATED BLOCK ON FREELIST", ref.block, 0)
        BY <3>3
      <3>4. QED
        BY <2>2, <3>1, <3>2, <3>3
    <2>4. ASSUME NEW r \in named
          PROVE  r \in FoundInBlocks
      <3>1. PICK ref \in References : r \in {Says(what, ref.block, ref.inode) : what \in BadBlock(References, ref.block)}
        BY <2>4
      <3>2. r \in BlockFindings(BlockEntries[ref])
        BY <2>2, <3>1
      <3>3. QED
        BY <3>2 DEF FoundInBlocks
    <2>5. ASSUME NEW r \in free
          PROVE  r \in FoundInBlocks
      <3>1. PICK ref \in References : ref.block \in img.bfree /\ r = Says("ALLOCATED BLOCK ON FREELIST", ref.block, 0)
        BY <2>5
      <3>2. r \in BlockFindings(BlockEntries[ref])
        BY <2>2, <3>1
      <3>3. QED
        BY <3>2 DEF FoundInBlocks
    <2>6. BlockInconsistencies(References) = named \cup free \cup Unreferenced
      BY DEF BlockInconsistencies, Unreferenced
    <2> HIDE DEF named, free
    <2>7. FoundInBlocks = named \cup free
      BY <2>3, <2>4, <2>5
    <2>8. QED
      BY <2>6, <2>7
  <1> DEFINE dot == {Says("DOT", Entry(e).inode, e[1]) : e \in {e \in Entries : Entry(e).name = "." /\ Entry(e).inode # e[1]}}
             dotdot == {Says("DOTDOT", Entry(e).inode, Root) :
                          e \in {e \in Entries : e[1] = Root /\ Entry(e).name = ".." /\ Entry(e).inode # Root}}
             unallocated == {Says("UNALLOCATED INODE", Entry(e).inode, e[1]) :
                               e \in {e \in Entries : Named(e) /\ Entry(e).inode \in img.ifree}}
             invalid == {Says("INVALID INODE", Entry(e).inode, e[1]) :
                           e \in {e \in Entries : Named(e) /\ Entry(e).inode \notin Inodes}}
  <1>2. FoundInEntries = dot \cup dotdot \cup unallocated \cup invalid
    <2>1. ASSUME NEW r \in FoundInEntries
          PROVE  r \in dot \cup dotdot \cup unallocated \cup invalid
      BY <2>1 DEF FoundInEntries, EntryFindings, Named
    <2>2. ASSUME NEW r \in dot \cup dotdot \cup unallocated \cup invalid
          PROVE  r \in FoundInEntries
      <3>1. PICK e \in Entries : r \in EntryFindings(e[1], Entry(e).inode, Entry(e).name)
        <4>1. CASE r \in dot
          <5>1. PICK e \in Entries : Entry(e).name = "." /\ Entry(e).inode # e[1] /\ r = Says("DOT", Entry(e).inode, e[1])
            BY <4>1
          <5>2. QED
            BY <5>1 DEF EntryFindings
        <4>2. CASE r \in dotdot
          <5>1. PICK e \in Entries : /\ e[1] = Root /\ Entry(e).name = ".." /\ Entry(e).inode # Root
                                     /\ r = Says("DOTDOT", Entry(e).inode, Root)
            BY <4>2
          <5>2. QED
            BY <5>1 DEF EntryFindings
        <4>3. CASE r \in unallocated
          <5>1. PICK e \in Entries : Named(e) /\ Entry(e).inode \in img.ifree /\ r = Says("UNALLOCATED INODE", Entry(e).inode, e[1])
            BY <4>3
          <5>2. QED
            BY <5>1 DEF EntryFindings, Named
        <4>4. CASE r \in invalid
          <5>1. PICK e \in Entries : Named(e) /\ Entry(e).inode \notin Inodes /\ r = Says("INVALID INODE", Entry(e).inode, e[1])
            BY <4>4
          <5>2. QED
            BY <5>1 DEF EntryFindings, Named
        <4>5. QED
          BY <2>2, <4>1, <4>2, <4>3, <4>4
      <3>2. QED
        BY <3>1 DEF FoundInEntries
    <2> HIDE DEF dot, dotdot, unallocated, invalid
    <2>3. QED
      BY <2>1, <2>2
  <1>3. Inconsistencies = BlockInconsistencies(References) \cup InodesFreed \cup Unallocated \cup Links
          \cup dot \cup dotdot \cup unallocated \cup invalid
    BY DEF Inconsistencies, Unallocated, Links, InodesFreed
  <1> HIDE DEF dot, dotdot, unallocated, invalid
  <1>4. QED
    BY <1>1, <1>2, <1>3

\* What a row finds is wrong.
LEMMA RowFindsInconsistencies ==
  ASSUME FileGiven, Auditable, NEW n \in 1 .. Len(rows)
  PROVE  RowFindings(rows[n]) \subseteq Inconsistencies
  <1>1. IsImage(img)
    BY FileSound
  <1>2. CASE rows[n].row = "INODE"
    <2>1. PICK i \in Inodes : InUse(img, i) /\ rows[n] = InodeRow(img, i)
      BY <1>2, RowIs
    <2>2. rows[n].num = i
      BY <2>1 DEF InodeRow
    <2>3. RowFindings(rows[n]) \subseteq InodesFreed
      BY <1>2, <2>1, <2>2 DEF RowFindings, InodesFreed
    <2>4. QED
      BY <2>3, InconsistenciesAre
  <1>3. CASE rows[n].row = "DIRENT"
    <2>1. PICK i \in Inodes : InUse(img, i) /\ \E m \in Shown(i) : rows[n] = DirentRow(i, m)
      BY <1>3, RowIs
    <2>2. PICK m \in Shown(i) : rows[n] = DirentRow(i, m)
      BY <2>1
    <2>3. /\ <<i, m>> \in Entries /\ rows[n].num = Entry(<<i, m>>).inode /\ rows[n].dir = i
          /\ rows[n].name = Entry(<<i, m>>).name
      BY <1>1, <2>1, <2>2, ShownEntries
    <2>4. PICK e \in Entries : e = <<i, m>>
      BY <2>3
    <2>5. e[1] = i
      BY <2>4
    <2>6. RowFindings(rows[n]) = EntryFindings(e[1], Entry(e).inode, Entry(e).name)
      BY <1>3, <2>3, <2>4, <2>5 DEF RowFindings
    <2>7. RowFindings(rows[n]) \subseteq FoundInEntries
      BY <2>6 DEF FoundInEntries
    <2>8. QED
      BY <2>7, InconsistenciesAre
  <1>4. CASE rows[n].row \notin {"INODE", "DIRENT"}
    BY <1>4 DEF RowFindings
  <1>5. QED
    BY <1>2, <1>3, <1>4

\* What is wrong with inodes and entries is found by a row.
LEMMA InconsistenciesFoundByRows ==
  ASSUME FileGiven, Auditable
  PROVE  /\ \A i \in Inodes : i \in img.ifree /\ InUse(img, i) =>
              \E n \in 1 .. Len(rows) : Says("ALLOCATED INODE ON FREELIST", i, 0) \in RowFindings(rows[n])
         /\ \A e \in Entries : \E n \in 1 .. Len(rows) :
              RowFindings(rows[n]) = EntryFindings(e[1], Entry(e).inode, Entry(e).name)
  <1>1. IsImage(img)
    BY FileSound
  <1>2. ASSUME NEW i \in Inodes, i \in img.ifree, InUse(img, i)
        PROVE  \E n \in 1 .. Len(rows) : Says("ALLOCATED INODE ON FREELIST", i, 0) \in RowFindings(rows[n])
    <2>1. PICK n \in 1 .. Len(rows) : rows[n].row = "INODE" /\ rows[n] = InodeRow(img, i)
      BY <1>2, RowsHave
    <2>2. rows[n].num = i
      BY <2>1 DEF InodeRow
    <2>3. QED
      BY <1>2, <2>1, <2>2 DEF RowFindings
  <1>3. ASSUME NEW e \in Entries
        PROVE  \E n \in 1 .. Len(rows) : RowFindings(rows[n]) = EntryFindings(e[1], Entry(e).inode, Entry(e).name)
    <2>1. PICK i \in Directories : \E m : e = <<i, m>>
      BY DEF Entries
    <2>2. PICK m : e = <<i, m>>
      BY <2>1
    <2>3. i \in Inodes /\ InUse(img, i)
      BY DEF Directories
    <2>4. /\ m \in Shown(i) /\ DirentRow(i, m).num = Entry(<<i, m>>).inode /\ DirentRow(i, m).dir = i
          /\ DirentRow(i, m).name = Entry(<<i, m>>).name
      BY <1>1, <2>2, <2>3, ShownEntries
    <2>5. PICK n \in 1 .. Len(rows) : rows[n].row = "DIRENT" /\ rows[n] = DirentRow(i, m)
      BY <2>3, <2>4, RowsHave
    <2>6. e[1] = i
      BY <2>2
    <2>7. RowFindings(rows[n]) = EntryFindings(e[1], Entry(e).inode, Entry(e).name)
      BY <2>2, <2>4, <2>5, <2>6 DEF RowFindings
    <2>8. QED
      BY <2>7
  <1>4. QED
    BY <1>2, <1>3

-----------------------------------------------------------------------------
(* What each step reports *)

\* What is said of the image does not change.
LEMMA GivenStays ==
  ASSUME UNCHANGED <<img, order, rows>>
  PROVE  /\ Auditable' <=> Auditable
         /\ Inconsistencies' = Inconsistencies /\ Overlooked' = Overlooked
         /\ References' = References
         /\ Unreferenced' = Unreferenced /\ Unallocated' = Unallocated /\ Links' = Links
         /\ \A row : RowFindings(row)' = RowFindings(row)
         /\ \A item : BlockFindings(item)' = BlockFindings(item)
         /\ \A b : BadBlock(References, b)' = BadBlock(References, b)
  <1>1. Inconsistencies' = Inconsistencies
    BY DEF Inconsistencies, BlockInconsistencies, BadBlock, Named, Entries, Entry, References, HasBlocks,
           BlockAt, Follow, Directories
  <1>2. Auditable' <=> Auditable
    BY DEF Auditable, Directories, BlockAt, Follow, ReadEntries
  <1>3. Overlooked' = Overlooked
    BY <1>1 DEF Overlooked, FreeListsFirst
  <1>4. References' = References
    BY DEF References, HasBlocks, BlockAt, Follow
  <1>5. Unreferenced' = Unreferenced
    BY <1>4 DEF Unreferenced
  <1>6. Unallocated' = Unallocated /\ Links' = Links
    BY DEF Unallocated, Links, Entries, Entry, Directories
  <1>7. \A row : RowFindings(row)' = RowFindings(row)
    BY DEF RowFindings, EntryFindings
  <1>8. \A b : BadBlock(References, b)' = BadBlock(References, b)
    BY <1>4 DEF BadBlock
  <1>9. \A item : BlockFindings(item)' = BlockFindings(item)
    BY <1>8 DEF BlockFindings
  <1>10. QED
    BY <1>1, <1>2, <1>3, <1>4, <1>5, <1>6, <1>7, <1>8, <1>9

\* When the free lists come last, what they are needed for may be overlooked.
LEMMA OverlookedByRows ==
  ASSUME FileGiven, Auditable, NEW n \in 1 .. Len(rows), NEW r \in RowFindings(rows[n]), ~FreeListsFirst,
         r.what \in {"ALLOCATED INODE ON FREELIST", "UNALLOCATED INODE"}
  PROVE  r \in Overlooked
  BY RowFindsInconsistencies DEF Overlooked

LEMMA SaysWhat == \A what, num, inode : Says(what, num, inode).what = what
  BY DEF Says

LEMMA AtRow ==
  ASSUME FileGiven, Control, exit = Running, pc = "rows", at <= Len(rows)
  PROVE  /\ at \in 1 .. Len(rows) /\ Len(rows) \in Nat /\ TablesUpto(at - 1)
         /\ \E m \in Nat : m = at - 1 /\ m + 1 = at
  <1>1. Len(rows) \in Nat /\ at \in Nat \ {0} /\ exit # 1
    BY FileSound DEF Control, Running
  <1>2. TablesUpto(at - 1)
    BY <1>1 DEF Control, Upto
  <1>3. at \in 1 .. Len(rows) /\ at - 1 \in Nat /\ (at - 1) + 1 = at
    BY <1>1
  <1>4. QED
    BY <1>1, <1>2, <1>3

LEMMA InodeStep ==
  ASSUME FileGiven, Control, Auditable, exit = Running, ReadInode
  PROVE  \E S : /\ reports' = reports \cup S /\ S \subseteq RowFindings(rows[at])
                /\ RowFindings(rows[at]) \subseteq S \cup Overlooked
  <1> DEFINE row == rows[at]
             all == IF row.num \in img.ifree THEN {Says("ALLOCATED INODE ON FREELIST", row.num, 0)} ELSE {}
             S == IF row.num \in freeinodes THEN {Says("ALLOCATED INODE ON FREELIST", row.num, 0)} ELSE {}
  <1>1. pc = "rows" /\ at <= Len(rows) /\ row.row = "INODE" /\ reports' = reports \cup S
    BY DEF ReadInode, At, Row, Report
  <1>2. at \in 1 .. Len(rows) /\ Len(rows) \in Nat /\ TablesUpto(at - 1)
    BY <1>1, AtRow
  <1>3. PICK m \in Nat : m = at - 1 /\ m + 1 = at
    BY <1>1, AtRow
  <1>4. freeinodes \subseteq img.ifree /\ (FreeListsFirst => freeinodes = img.ifree)
    BY <1>1, <1>2, <1>3, FreeInodesRead
  <1>5. RowFindings(row) = all
    BY <1>1 DEF RowFindings
  <1>6. \A r \in all : r.what = "ALLOCATED INODE ON FREELIST"
    BY SaysWhat
  <1>7. S \subseteq all /\ (FreeListsFirst => all = S)
    BY <1>4
  <1> HIDE DEF all, S
  <1>8. ~FreeListsFirst => all \subseteq Overlooked
    BY <1>2, <1>5, <1>6, OverlookedByRows
  <1>9. QED
    BY <1>1, <1>5, <1>7, <1>8

LEMMA DirentStep ==
  ASSUME FileGiven, Control, Auditable, exit = Running, ReadDirent
  PROVE  \E S : /\ reports' = reports \cup S /\ S \subseteq RowFindings(rows[at])
                /\ (exit' # 1 => RowFindings(rows[at]) \subseteq S \cup Overlooked)
  <1> DEFINE row == rows[at]
             plain == row.name \notin {".", ".."}
             known == row.num < 1 \/ total_group_inodes # Unknown
             dot == IF row.name = "." /\ row.num # row.dir THEN {Says("DOT", row.num, row.dir)} ELSE {}
             dotdot == IF row.name = ".." /\ row.dir = Root /\ row.num # row.dir
                       THEN {Says("DOTDOT", row.num, row.dir)} ELSE {}
             unallocated == IF plain /\ row.num \in freeinodes
                            THEN {Says("UNALLOCATED INODE", row.num, row.dir)} ELSE {}
             allUnallocated == IF plain /\ row.num \in img.ifree
                               THEN {Says("UNALLOCATED INODE", row.num, row.dir)} ELSE {}
             invalid == IF known /\ plain /\ row.num \notin 1 .. total_group_inodes
                        THEN {Says("INVALID INODE", row.num, row.dir)} ELSE {}
             allInvalid == IF plain /\ row.num \notin Inodes THEN {Says("INVALID INODE", row.num, row.dir)} ELSE {}
             S == dot \cup dotdot \cup unallocated \cup invalid
  <1>1. pc = "rows" /\ at <= Len(rows) /\ row.row = "DIRENT"
    BY DEF ReadDirent, At, Row
  <1>2. reports' = reports \cup dot \cup dotdot \cup unallocated \cup invalid
    BY DEF ReadDirent, Row
  <1>3. ~known => exit' = 1
    BY DEF ReadDirent, Row, Raise
  <1>4. at \in 1 .. Len(rows) /\ Len(rows) \in Nat /\ TablesUpto(at - 1)
    BY <1>1, AtRow
  <1>5. PICK m \in Nat : m = at - 1 /\ m + 1 = at
    BY <1>1, AtRow
  <1>6. freeinodes \subseteq img.ifree /\ (FreeListsFirst => freeinodes = img.ifree)
    BY <1>1, <1>4, <1>5, FreeInodesRead
  <1>7. row.num \in Nat \ {0}
    <2>1. PICK i \in Inodes : InUse(img, i) /\ \E k \in Shown(i) : row = DirentRow(i, k)
      BY <1>1, <1>4, RowIs
    <2>2. PICK k \in Shown(i) : row = DirentRow(i, k)
      BY <2>1
    <2>3. IsImage(img)
      BY FileSound
    <2>4. DirentRow(i, k).num \in Nat \ {0}
      BY <2>1, <2>2, <2>3, ShownEntries
    <2>5. QED
      BY <2>2, <2>4
  <1>8. known => total_group_inodes = NInodes
    BY <1>4, <1>7 DEF TablesUpto, Unknown
  <1>9. RowFindings(row) = dot \cup dotdot \cup allUnallocated \cup allInvalid
    BY <1>1 DEF RowFindings, EntryFindings
  <1>10. /\ unallocated \subseteq allUnallocated /\ (FreeListsFirst => allUnallocated = unallocated)
         /\ \A r \in allUnallocated : r.what = "UNALLOCATED INODE"
    <2>1. unallocated \subseteq allUnallocated /\ (FreeListsFirst => allUnallocated = unallocated)
      BY <1>6
    <2>2. \A r \in allUnallocated : r = Says("UNALLOCATED INODE", row.num, row.dir)
      OBVIOUS
    <2>3. Says("UNALLOCATED INODE", row.num, row.dir).what = "UNALLOCATED INODE"
      BY SaysWhat
    <2> HIDE DEF allUnallocated
    <2>4. \A r \in allUnallocated : r.what = "UNALLOCATED INODE"
      BY <2>2, <2>3
    <2>5. QED
      BY <2>1, <2>4
  <1>11. invalid \subseteq allInvalid /\ (known => invalid = allInvalid)
    BY <1>8 DEF Inodes
  <1> HIDE DEF dot, dotdot, unallocated, allUnallocated, invalid, allInvalid, known
  <1>12. ~FreeListsFirst => allUnallocated \subseteq Overlooked
    BY <1>4, <1>9, <1>10, OverlookedByRows
  <1>13. reports' = reports \cup S
    BY <1>2
  <1>14. S \subseteq RowFindings(row)
    BY <1>9, <1>10, <1>11
  <1>15. exit' # 1 => RowFindings(row) \subseteq S \cup Overlooked
    <2>1. SUFFICES ASSUME exit' # 1 PROVE RowFindings(row) \subseteq S \cup Overlooked
      OBVIOUS
    <2>2. invalid = allInvalid
      BY <1>3, <1>11, <2>1
    <2>3. allUnallocated \subseteq unallocated \cup Overlooked
      BY <1>10, <1>12
    <2>4. QED
      BY <1>9, <2>2, <2>3
  <1> HIDE DEF S
  <1>16. QED
    BY <1>13, <1>14, <1>15

\* A row reports what is wrong with its inode or entry, and nothing else.
LEMMA RowStep ==
  ASSUME FileGiven, Control, Auditable, exit = Running, ReadsRow
  PROVE  \E S : /\ reports' = reports \cup S /\ S \subseteq RowFindings(rows[at])
                /\ (exit' # 1 => RowFindings(rows[at]) \subseteq S \cup Overlooked)
  <1>1. CASE ReadInode
    BY <1>1, InodeStep
  <1>2. CASE ReadDirent
    BY <1>2, DirentStep
  <1>3. CASE ReadSuperblock \/ ReadGroup \/ ReadFree \/ ReadIndirect
    <2>1. reports' = reports /\ rows[at].row \notin {"INODE", "DIRENT"}
      BY <1>3 DEF ReadSuperblock, ReadGroup, ReadFree, ReadIndirect, At, Row
    <2>2. RowFindings(rows[at]) = {}
      BY <2>1 DEF RowFindings
    <2>3. QED
      BY <2>1, <2>2
  <1>4. QED
    BY <1>1, <1>2, <1>3 DEF ReadsRow

-----------------------------------------------------------------------------
(* The checks of the tables *)

\* The numbers of blocks that have been met are those of the references.
LEMMA BlocklistIs ==
  ASSUME FileGiven, Auditable, TablesUpto(Len(rows))
  PROVE  /\ Enumerates(blocklist, References, BlockEntries)
         /\ Len(blocklist) \in Nat /\ DOMAIN blocklist = 1 .. Len(blocklist)
         /\ \A k \in 1 .. Len(blocklist) : \E ref \in References : blocklist[k] = BlockEntries[ref]
         /\ \A ref \in References : \E k \in 1 .. Len(blocklist) : blocklist[k] = BlockEntries[ref]
  <1>1. Enumerates(blocklist, References, BlockEntries)
    BY BlocksListed DEF TablesUpto
  <1>2. Len(blocklist) \in Nat /\ DOMAIN blocklist = 1 .. Len(blocklist)
    BY <1>1 DEF Enumerates
  <1>3. \A r \in References : \E n \in 1 .. Len(blocklist) : blocklist[n] = BlockEntries[r]
    BY <1>1, EnumeratesMembers
  <1>4. \A n \in 1 .. Len(blocklist) : \E r \in References : blocklist[n] = BlockEntries[r]
    BY <1>1, EnumeratesMembers
  <1>5. QED
    BY <1>1, <1>2, <1>3, <1>4

\* A block is counted as often as it is referred to.
LEMMA BlockdictIs ==
  ASSUME FileGiven, Auditable, TablesUpto(Len(rows)), NEW b
  PROVE  /\ Blockdict(b) = Cardinality({ref \in References : ref.block = b})
         /\ IsFiniteSet({ref \in References : ref.block = b})
  <1> DEFINE V == {BlockEntries[ref] : ref \in {ref \in References : ref.block = b}}
  <1>1. \A ref \in References : BlockEntries[ref].block = ref.block
    BY DEF BlockEntries
  <1>2. {ref \in References : BlockEntries[ref] \in V} = {ref \in References : ref.block = b}
    BY <1>1
  <1>3. {n \in 1 .. Len(blocklist) : blocklist[n] \in V} = {n \in DOMAIN blocklist : blocklist[n].block = b}
    <2>1. /\ DOMAIN blocklist = 1 .. Len(blocklist)
          /\ \A n \in 1 .. Len(blocklist) : \E ref \in References : blocklist[n] = BlockEntries[ref]
      BY BlocklistIs
    <2>2. ASSUME NEW n \in 1 .. Len(blocklist)
          PROVE  blocklist[n] \in V <=> blocklist[n].block = b
      <3>1. PICK ref \in References : blocklist[n] = BlockEntries[ref]
        BY <2>1
      <3>2. blocklist[n].block = ref.block
        BY <1>1, <3>1
      <3>3. CASE ref.block = b
        BY <3>1, <3>2, <3>3
      <3>4. CASE ref.block # b
        BY <1>1, <3>2, <3>4
      <3>5. QED
        BY <3>3, <3>4
    <2> HIDE DEF V
    <2>3. QED
      BY <2>1, <2>2
  <1> HIDE DEF V
  <1>4. Enumerates(blocklist, References, BlockEntries)
    BY BlocklistIs
  <1>5. /\ Cardinality(PositionsIn(blocklist, V)) = Cardinality(MembersIn(References, BlockEntries, V))
        /\ IsFiniteSet(MembersIn(References, BlockEntries, V))
    BY <1>4, EnumeratesCount
  <1>6. QED
    BY <1>2, <1>3, <1>5 DEF Blockdict, PositionsIn, MembersIn

LEMMA TablesRead ==
  ASSUME FileGiven, Control, exit = Running, pc # "rows"
  PROVE  /\ TablesUpto(Len(rows))
         /\ freeblocks = img.bfree /\ freeinodes = img.ifree
         /\ first_legal_block \in Nat /\ first_legal_block <= NBlocks /\ DataBlocks = first_legal_block .. NBlocks - 1
         /\ allocated_inodes = {[num |-> i, links |-> img.inode[i].links] : i \in {i \in Inodes : InUse(img, i)}}
  <1>1. TablesUpto(Len(rows))
    BY DEF Control, Upto, Running
  <1>2. first_legal_block = TableStart + NInodes \div InodesPerBlock
    BY <1>1, AllRead
  <1>3. NInodes \div InodesPerBlock \in Nat
    BY ImageAssumption
  <1>4. first_legal_block \in Nat /\ first_legal_block <= NBlocks
    BY <1>2, <1>3, ImageAssumption
  <1>5. QED
    BY <1>1, <1>2, <1>4, AllRead DEF DataBlocks

\* A block reports what is wrong with it, and nothing else.
LEMMA BlockStep ==
  ASSUME FileGiven, Control, Auditable, exit = Running, CheckBlock
  PROVE  /\ at \in 1 .. Len(blocklist)
         /\ \E S : /\ reports' = reports \cup S /\ S \subseteq BlockFindings(blocklist[at])
                   /\ (exit' # 1 => BlockFindings(blocklist[at]) \subseteq S \cup Overlooked)
         /\ (exit' = 1 => Inconsistencies # {})
  <1> DEFINE here == blocklist[at]
             b == here.block
             invalid == b < 0 \/ b > NBlocks
             free == IF b \in freeblocks THEN {Says("ALLOCATED BLOCK ON FREELIST", b, 0)} ELSE {}
             named == {what \in {"INVALID BLOCK", "RESERVED BLOCK", "DUPLICATE BLOCK"} :
                         \/ what = "INVALID BLOCK" /\ invalid
                         \/ what = "RESERVED BLOCK" /\ b \in 0 .. first_legal_block - 1
                         \/ what = "DUPLICATE BLOCK" /\ Blockdict(b) > 1}
             bad == BadBlock(References, b)
  <1>1. pc = "blocks" /\ at <= Len(blocklist)
    BY DEF CheckBlock
  <1>2. \/ /\ here.level = "string" /\ named # {} /\ exit' = 1
           /\ reports' = reports \cup (IF invalid THEN {} ELSE free)
        \/ /\ reports' = reports \cup (free \cup {Says(what, b, here.inode) : what \in named}) /\ exit' = exit
    BY DEF CheckBlock, Raise, Report
  <1>3. /\ TablesUpto(Len(rows)) /\ freeblocks = img.bfree
        /\ first_legal_block \in Nat /\ first_legal_block <= NBlocks /\ DataBlocks = first_legal_block .. NBlocks - 1
    BY <1>1, TablesRead
  <1>4. at \in 1 .. Len(blocklist)
    BY <1>1, <1>3, BlocklistIs DEF Control
  <1>5. PICK ref \in References : here = BlockEntries[ref]
    BY <1>3, <1>4, BlocklistIs
  <1>6. here.block = ref.block /\ here.inode = ref.inode
    BY <1>5 DEF BlockEntries
  <1>7. b \in Int /\ here.inode \in Inodes
    <2>1. PICK i \in Inodes, path \in Paths : ref = ReferenceTo(i, path)
      BY ReferencesAre
    <2>2. IsPath(path) /\ IsImage(img)
      BY PathsAre, FileSound
    <2>3. BlockAt(i, path) \in Int
      BY <2>2, BlockAtTyped
    <2>4. QED
      BY <1>6, <2>1, <2>3 DEF ReferenceTo
  <1>8. Blockdict(b) = Cardinality({r \in References : r.block = b})
    BY <1>3, BlockdictIs
  <1>9. /\ "INVALID BLOCK" \in bad <=> b \notin Blocks
        /\ "RESERVED BLOCK" \in bad <=> b \in Blocks \ DataBlocks
        /\ "DUPLICATE BLOCK" \in bad <=> Blockdict(b) > 1
        /\ bad \subseteq {"INVALID BLOCK", "RESERVED BLOCK", "DUPLICATE BLOCK"}
    BY <1>8 DEF BadBlock
  <1>10. b \in Blocks \ DataBlocks <=> b \in 0 .. first_legal_block - 1
    <2>1. NBlocks \in Nat
      BY Sizes
    <2>2. QED
      BY <1>3, <1>7, <2>1 DEF Blocks
  <1>11. /\ invalid => b \notin Blocks
         /\ ~invalid /\ b \notin Blocks => b = NBlocks
    BY <1>7, Sizes DEF Blocks
  <1>12. named \subseteq bad /\ \A what \in bad : what \in named \/ (what = "INVALID BLOCK" /\ b = NBlocks)
    BY <1>9, <1>10, <1>11
  <1>13. BlockFindings(here) = {Says(what, b, here.inode) : what \in bad} \cup free
    BY <1>3 DEF BlockFindings
  <1>14. Says("INVALID BLOCK", NBlocks, here.inode) \in Overlooked
    BY <1>7 DEF Overlooked
  <1> HIDE DEF here, invalid, free, named, bad, b
  <1>15. {Says(what, b, here.inode) : what \in named} \subseteq {Says(what, b, here.inode) : what \in bad}
    BY <1>12
  <1>16. {Says(what, b, here.inode) : what \in bad} \subseteq {Says(what, b, here.inode) : what \in named} \cup Overlooked
    BY <1>12, <1>14
  <1>17. CASE here.level = "string" /\ named # {} /\ exit' = 1 /\ reports' = reports \cup (IF invalid THEN {} ELSE free)
    <2>1. Inconsistencies # {}
      <3>1. bad # {}
        BY <1>12, <1>17
      <3>2. BlockFindings(here) # {}
        BY <1>13, <3>1
      <3>3. BlockFindings(here) \subseteq FoundInBlocks
        BY <1>5 DEF here, FoundInBlocks
      <3>4. QED
        BY <3>2, <3>3, InconsistenciesAre
    <2>2. (IF invalid THEN {} ELSE free) \subseteq BlockFindings(here)
      BY <1>13
    <2>3. QED
      BY <1>4, <1>17, <2>1, <2>2 DEF here, b, bad
  <1>18. CASE reports' = reports \cup (free \cup {Says(what, b, here.inode) : what \in named}) /\ exit' = exit
    <2>1. PICK S : S = free \cup {Says(what, b, here.inode) : what \in named}
      OBVIOUS
    <2>2. S \subseteq BlockFindings(here) /\ BlockFindings(here) \subseteq S \cup Overlooked
      BY <1>13, <1>15, <1>16, <2>1
    <2>3. reports' = reports \cup S /\ exit' # 1
      BY <1>18, <2>1 DEF Running
    <2>4. QED
      BY <1>4, <2>2, <2>3 DEF here
  <1>19. QED
    BY <1>2, <1>17, <1>18

\* All blocks that are neither free nor referred to.
LEMMA UnreferencedStep ==
  ASSUME FileGiven, Control, Auditable, exit = Running, CheckUnreferenced
  PROVE  reports' = reports \cup Unreferenced
  <1> DEFINE seen == {b \in RangeOfBlocks : Blockdict(b) = 0 /\ b \notin freeblocks}
             all == DataBlocks \ (img.bfree \cup {ref.block : ref \in References})
  <1>1. pc # "rows" /\ reports' = reports \cup {Says("UNREFERENCED BLOCK", b, 0) : b \in seen}
    BY DEF CheckUnreferenced, Report
  <1>2. TablesUpto(Len(rows)) /\ freeblocks = img.bfree /\ DataBlocks = first_legal_block .. NBlocks - 1
    BY <1>1, TablesRead
  <1>3. ASSUME NEW b
        PROVE  Blockdict(b) = 0 <=> b \notin {ref.block : ref \in References}
    <2>1. PICK T : T = {ref \in References : ref.block = b}
      OBVIOUS
    <2>2. Blockdict(b) = Cardinality(T) /\ IsFiniteSet(T)
      BY <1>2, <2>1, BlockdictIs
    <2>3. Cardinality(T) = 0 <=> T = {}
      BY <2>2, FS_EmptySet
    <2>4. QED
      BY <2>1, <2>2, <2>3
  <1>4. seen = all
    BY <1>2, <1>3 DEF RangeOfBlocks
  <1> HIDE DEF seen
  <1>5. QED
    BY <1>1, <1>4 DEF Unreferenced

\* All inodes but the last that are neither free nor in use.
LEMMA UnallocatedStep ==
  ASSUME FileGiven, Control, Auditable, exit = Running, CheckUnallocated
  PROVE  \E S : reports' = reports \cup S /\ S \subseteq Unallocated /\ Unallocated \subseteq S \cup Overlooked
  <1> DEFINE seen == {i \in FirstInode .. NInodes - 1 : i \notin freeinodes /\ \A a \in allocated_inodes : a.num # i}
             all == {i \in FirstInode .. NInodes : ~InUse(img, i) /\ i \notin img.ifree}
             S == {Says("UNALLOCATED INODE NOT ON FREELIST", i, 0) : i \in seen}
  <1>1. pc # "rows" /\ reports' = reports \cup S
    BY DEF CheckUnallocated, Report
  <1>2. /\ freeinodes = img.ifree
        /\ allocated_inodes = {[num |-> i, links |-> img.inode[i].links] : i \in {i \in Inodes : InUse(img, i)}}
    BY <1>1, TablesRead
  <1>3. FirstInode \in Nat \ {0} /\ NInodes \in Nat
    BY ImagesAssumption, Sizes
  <1>4. ASSUME NEW i \in FirstInode .. NInodes
        PROVE  (\A a \in allocated_inodes : a.num # i) <=> ~InUse(img, i)
    <2>1. i \in Inodes
      BY <1>3 DEF Inodes
    <2>2. CASE InUse(img, i)
      <3>1. [num |-> i, links |-> img.inode[i].links] \in allocated_inodes
        BY <1>2, <2>1, <2>2
      <3>2. [num |-> i, links |-> img.inode[i].links].num = i
        OBVIOUS
      <3>3. QED
        BY <2>2, <3>1, <3>2
    <2>3. CASE ~InUse(img, i)
      BY <1>2, <2>3
    <2>4. QED
      BY <2>2, <2>3
  <1>5. FirstInode .. NInodes - 1 \subseteq FirstInode .. NInodes
        /\ \A i \in FirstInode .. NInodes : i \in FirstInode .. NInodes - 1 \/ i = NInodes
    BY <1>3
  <1>6. seen \subseteq all /\ \A i \in all : i \in seen \/ i = NInodes
    BY <1>2, <1>4, <1>5
  <1>7. Says("UNALLOCATED INODE NOT ON FREELIST", NInodes, 0) \in Overlooked
    BY DEF Overlooked
  <1>8. Unallocated = {Says("UNALLOCATED INODE NOT ON FREELIST", i, 0) : i \in all}
    BY DEF Unallocated
  <1> HIDE DEF seen, all
  <1>9. S \subseteq Unallocated /\ Unallocated \subseteq S \cup Overlooked
    BY <1>6, <1>7, <1>8
  <1> HIDE DEF S
  <1>10. QED
    BY <1>1, <1>9

\* All link counts that differ from the number of entries.
LEMMA LinksStep ==
  ASSUME FileGiven, Control, Auditable, exit = Running, CheckLinks
  PROVE  reports' = reports \cup Links
  <1> DEFINE counted(i) == Cardinality({n \in DOMAIN direct_references : direct_references[n] = i})
             entered(i) == Cardinality({e \in Entries : Entry(e).inode = i})
             seen == {Says("LINKS", a.num, 0) : a \in {a \in allocated_inodes : a.links # counted(a.num)}}
  <1>1. pc # "rows" /\ reports' = reports \cup seen
    BY DEF CheckLinks, Report
  <1>2. /\ TablesUpto(Len(rows))
        /\ allocated_inodes = {[num |-> i, links |-> img.inode[i].links] : i \in {i \in Inodes : InUse(img, i)}}
    BY <1>1, TablesRead
  <1>3. Enumerates(direct_references, Entries, EntryInodes)
    BY <1>2, EntriesListed DEF TablesUpto
  <1>4. DOMAIN direct_references = 1 .. Len(direct_references)
    BY <1>3 DEF Enumerates
  <1>5. ASSUME NEW i
        PROVE  counted(i) = entered(i)
    <2>1. Cardinality(PositionsIn(direct_references, {i})) = Cardinality(MembersIn(Entries, EntryInodes, {i}))
      BY <1>3, EnumeratesCount
    <2>2. PositionsIn(direct_references, {i}) = {n \in DOMAIN direct_references : direct_references[n] = i}
      BY <1>4 DEF PositionsIn
    <2>3. MembersIn(Entries, EntryInodes, {i}) = {e \in Entries : Entry(e).inode = i}
      BY DEF MembersIn, EntryInodes
    <2>4. QED
      BY <2>1, <2>2, <2>3
  <1> HIDE DEF counted, entered
  <1>6. seen = {Says("LINKS", i, 0) : i \in {i \in Inodes : InUse(img, i) /\ img.inode[i].links # entered(i)}}
    <2>1. ASSUME NEW r \in seen
          PROVE  \E i \in Inodes : InUse(img, i) /\ img.inode[i].links # entered(i) /\ r = Says("LINKS", i, 0)
      <3>1. PICK a \in allocated_inodes : a.links # counted(a.num) /\ r = Says("LINKS", a.num, 0)
        BY <2>1
      <3>2. PICK i \in Inodes : InUse(img, i) /\ a = [num |-> i, links |-> img.inode[i].links]
        BY <1>2, <3>1
      <3>3. a.num = i /\ a.links = img.inode[i].links
        BY <3>2
      <3>4. QED
        BY <1>5, <3>1, <3>2, <3>3
    <2>2. ASSUME NEW i \in Inodes, InUse(img, i), img.inode[i].links # entered(i)
          PROVE  Says("LINKS", i, 0) \in seen
      <3>1. PICK a \in allocated_inodes : a = [num |-> i, links |-> img.inode[i].links]
        BY <1>2, <2>2
      <3>2. a.num = i /\ a.links = img.inode[i].links
        BY <3>1
      <3>3. a.links # counted(a.num)
        BY <1>5, <2>2, <3>2
      <3>4. QED
        BY <3>2, <3>3
    <2> HIDE DEF seen
    <2>3. QED
      BY <2>1, <2>2
  <1> HIDE DEF seen
  <1>7. QED
    BY <1>1, <1>6 DEF Links, entered

-----------------------------------------------------------------------------
(* The status *)

StatusSound ==
  /\ error_flag \in BOOLEAN
  /\ (error_flag => reports # {}) /\ (~error_flag => \A r \in reports : r.what = "DOTDOT")
  /\ (exit = 2 => error_flag) /\ (exit = 0 => ~error_flag)

\* Every report but those of a wrong ".." of the root is an error.
LEMMA ErrorStep ==
  ASSUME exit = Running, StatusSound,
         \/ ReadsRow
         \/ EndOfRows \/ CheckBlock \/ EndOfBlocks \/ CheckUnreferenced \/ CheckUnallocated \/ CheckLinks \/ Exit
  PROVE  \E S, T : /\ reports' = reports \cup S \cup T /\ (\A r \in T : r.what = "DOTDOT")
                   /\ (error_flag' <=> error_flag \/ S # {}) /\ error_flag' \in BOOLEAN
                   /\ exit' = exit \/ exit' = 1 \/ (exit' = Status /\ S = {} /\ T = {})
  <1>1. error_flag \in BOOLEAN
    BY DEF StatusSound
  <1>2. ASSUME NEW S, Report(S), exit' = exit \/ exit' = 1
        PROVE  \E Q, T : /\ reports' = reports \cup Q \cup T /\ (\A r \in T : r.what = "DOTDOT")
                         /\ (error_flag' <=> error_flag \/ Q # {}) /\ error_flag' \in BOOLEAN
                         /\ exit' = exit \/ exit' = 1 \/ (exit' = Status /\ Q = {} /\ T = {})
    <2>1. PICK none : none = {}
      OBVIOUS
    <2>2. reports' = reports \cup S \cup none /\ (error_flag' <=> error_flag \/ S # {}) /\ error_flag' \in BOOLEAN
      BY <1>1, <1>2, <2>1 DEF Report
    <2>3. \A r \in none : r.what = "DOTDOT"
      BY <2>1
    <2>4. QED
      BY <1>2, <2>2, <2>3
  <1>3. CASE UNCHANGED <<reports, error_flag>>
    <2>1. PICK none : none = {}
      OBVIOUS
    <2>2. /\ reports' = reports \cup none \cup none /\ (error_flag' <=> error_flag \/ none # {})
          /\ error_flag' \in BOOLEAN
      BY <1>1, <1>3, <2>1
    <2>3. exit' = exit \/ exit' = 1 \/ (exit' = Status /\ none = {} /\ none = {})
      BY <2>1 DEF ReadsRow, ReadSuperblock, ReadGroup, ReadFree, ReadInode, ReadIndirect, ReadDirent, Raise, EndOfRows,
             CheckBlock, EndOfBlocks, CheckUnreferenced, CheckUnallocated, CheckLinks, Exit
    <2>4. \A r \in none : r.what = "DOTDOT"
      BY <2>1
    <2>5. QED
      BY <2>2, <2>3, <2>4
  <1>4. CASE ReadSuperblock \/ ReadGroup \/ ReadFree \/ ReadIndirect \/ EndOfRows \/ EndOfBlocks \/ Exit
    BY <1>3, <1>4 DEF ReadSuperblock, ReadGroup, ReadFree, ReadIndirect, EndOfRows, EndOfBlocks, Exit
  <1>5. CASE ReadInode
    <2>1. PICK S : Report(S)
      BY <1>5 DEF ReadInode
    <2>2. exit' = exit
      BY <1>5 DEF ReadInode
    <2>3. QED
      BY <1>2, <2>1, <2>2
  <1>6. CASE CheckBlock
    <2>1. \E S : Report(S)
      BY <1>6 DEF CheckBlock
    <2>2. exit' = exit \/ exit' = 1
      BY <1>6 DEF CheckBlock, Raise
    <2>3. QED
      BY <1>2, <2>1, <2>2
  <1>7. CASE CheckUnreferenced
    <2>1. PICK S : Report(S)
      BY <1>7 DEF CheckUnreferenced
    <2>2. exit' = exit
      BY <1>7 DEF CheckUnreferenced
    <2>3. QED
      BY <1>2, <2>1, <2>2
  <1>8. CASE CheckUnallocated
    <2>1. PICK S : Report(S)
      BY <1>8 DEF CheckUnallocated
    <2>2. exit' = exit
      BY <1>8 DEF CheckUnallocated
    <2>3. QED
      BY <1>2, <2>1, <2>2
  <1>9. CASE CheckLinks
    <2>1. PICK S : Report(S)
      BY <1>9 DEF CheckLinks
    <2>2. exit' = exit
      BY <1>9 DEF CheckLinks
    <2>3. QED
      BY <1>2, <2>1, <2>2
  <1>10. CASE ReadDirent
    <2> DEFINE plain == Row.name \notin {".", ".."}
               dot == IF Row.name = "." /\ Row.num # Row.dir THEN {Says("DOT", Row.num, Row.dir)} ELSE {}
               dotdot == IF Row.name = ".." /\ Row.dir = Root /\ Row.num # Row.dir
                         THEN {Says("DOTDOT", Row.num, Row.dir)} ELSE {}
               unallocated == IF plain /\ Row.num \in freeinodes
                              THEN {Says("UNALLOCATED INODE", Row.num, Row.dir)} ELSE {}
               known == Row.num < 1 \/ total_group_inodes # Unknown
               invalid == IF known /\ plain /\ Row.num \notin 1 .. total_group_inodes
                          THEN {Says("INVALID INODE", Row.num, Row.dir)} ELSE {}
               S == dot \cup unallocated \cup invalid
    <2>1. reports' = reports \cup dot \cup dotdot \cup unallocated \cup invalid
          /\ error_flag' = (error_flag \/ dot \cup unallocated \cup invalid # {})
      BY <1>10 DEF ReadDirent
    <2>2. exit' = exit \/ exit' = 1
      BY <1>10 DEF ReadDirent, Raise
    <2>3. \A r \in dotdot : r = Says("DOTDOT", Row.num, Row.dir)
      OBVIOUS
    <2>4. Says("DOTDOT", Row.num, Row.dir).what = "DOTDOT"
      BY SaysWhat
    <2> HIDE DEF dot, dotdot, unallocated, invalid
    <2>5. \A r \in dotdot : r.what = "DOTDOT"
      BY <2>3, <2>4
    <2>6. reports' = reports \cup S \cup dotdot
      BY <2>1
    <2>7. error_flag' = (error_flag \/ S # {})
      BY <2>1
    <2> HIDE DEF S
    <2>8. (error_flag' <=> error_flag \/ S # {}) /\ error_flag' \in BOOLEAN
      BY <1>1, <2>7
    <2>9. QED
      BY <2>2, <2>5, <2>6, <2>8
  <1>11. QED
    BY <1>4, <1>5, <1>6, <1>7, <1>8, <1>9, <1>10 DEF ReadsRow

LEMMA StatusKept ==
  ASSUME StatusSound, [Next]_vars
  PROVE  StatusSound'
  <1>1. CASE UNCHANGED vars
    BY <1>1 DEF vars, StatusSound
  <1>2. CASE exit = Running /\ (\/ ReadsRow
                                \/ EndOfRows \/ CheckBlock \/ EndOfBlocks \/ CheckUnreferenced
                                \/ CheckUnallocated \/ CheckLinks \/ Exit)
    <2>1. PICK S, T : /\ reports' = reports \cup S \cup T /\ (\A r \in T : r.what = "DOTDOT")
                      /\ (error_flag' <=> error_flag \/ S # {}) /\ error_flag' \in BOOLEAN
                      /\ exit' = exit \/ exit' = 1 \/ (exit' = Status /\ S = {} /\ T = {})
      BY <1>2, ErrorStep
    <2>2. error_flag' => reports' # {}
      BY <2>1 DEF StatusSound
    <2>3. ~error_flag' => \A r \in reports' : r.what = "DOTDOT"
      BY <2>1 DEF StatusSound
    <2>4. (exit' = 2 => error_flag') /\ (exit' = 0 => ~error_flag')
      <3>1. CASE exit' = exit \/ exit' = 1
        BY <1>2, <3>1 DEF Running
      <3>2. CASE exit' = Status /\ S = {} /\ T = {}
        <4>1. exit' = Status /\ (error_flag' <=> error_flag)
          BY <2>1, <3>2
        <4>2. CASE error_flag
          BY <4>1, <4>2 DEF Status
        <4>3. CASE ~error_flag
          BY <4>1, <4>3 DEF Status
        <4>4. QED
          BY <4>2, <4>3
      <3>3. QED
        BY <2>1, <3>1, <3>2
    <2>5. QED
      BY <2>1, <2>2, <2>3, <2>4 DEF StatusSound
  <1>3. QED
    BY <1>1, <1>2, NextIs

\* What has been read when a row is met that needs it.
LEMMA ReadBefore ==
  ASSUME FileGiven, NEW n \in 1 .. Len(rows), TablesUpto(n - 1)
  PROVE  /\ rows[n].row = "GROUP" /\ SuperblockFirst => superblock
         /\ rows[n].row = "DIRENT" /\ GroupFirst => total_group_inodes # Unknown
  <1>1. ASSUME NEW m \in 1 .. Len(rows), m < n
        PROVE  m \in RowsWith(rows[m].row, n - 1)
    <2>1. m \in 1 .. n - 1
      BY <1>1, FileSound
    <2>2. QED
      BY <2>1 DEF RowsWith
  <1>2. ASSUME rows[n].row = "GROUP", SuperblockFirst
        PROVE  superblock
    <2>1. PICK m \in 1 .. Len(rows) : rows[m].row = "SUPERBLOCK"
      BY RowsHave
    <2>2. order[GroupOf(rows[m].row)] < order[GroupOf(rows[n].row)]
      BY <1>2, <2>1 DEF GroupOf, SuperblockFirst
    <2>3. RowsWith("SUPERBLOCK", n - 1) # {}
      BY <1>1, <2>1, <2>2, GroupsInOrder
    <2>4. QED
      BY <2>3 DEF TablesUpto
  <1>3. ASSUME rows[n].row = "DIRENT", GroupFirst
        PROVE  total_group_inodes # Unknown
    <2>1. PICK m \in 1 .. Len(rows) : rows[m].row = "GROUP"
      BY RowsHave
    <2>2. order[GroupOf(rows[m].row)] < order[GroupOf(rows[n].row)]
      BY <1>3, <2>1 DEF GroupOf, GroupFirst
    <2>3. RowsWith("GROUP", n - 1) # {}
      BY <1>1, <2>1, <2>2, GroupsInOrder
    <2>4. total_group_inodes = NInodes
      BY <2>3 DEF TablesUpto
    <2>5. QED
      BY <2>4, Sizes DEF Unknown
  <1>4. QED
    BY <1>2, <1>3

\* The program does not end with an exception for nothing.
Raised == exit = 1 => ~UsualOrder \/ Inconsistencies # {}

LEMMA RaisedKept ==
  ASSUME FileGiven, Control, Auditable, Raised, [Next]_vars
  PROVE  Raised'
  <1>1. CASE UNCHANGED vars
    <2>1. UNCHANGED <<img, order, rows, exit>>
      BY <1>1 DEF vars
    <2>2. Inconsistencies' = Inconsistencies
      BY <2>1, GivenStays
    <2>3. QED
      BY <2>1, <2>2 DEF Raised, UsualOrder, SuperblockFirst, GroupFirst
  <1>2. CASE exit = Running /\ UNCHANGED <<img, order, rows>> /\ ReadsRow
    <2>1. pc = "rows" /\ at <= Len(rows) /\ at \in 1 .. Len(rows) /\ TablesUpto(at - 1)
      BY <1>2, RowControl
    <2>2. exit' = 1 => ~SuperblockFirst \/ ~GroupFirst
      <3>1. CASE ReadGroup
        <4>1. rows[at].row = "GROUP" /\ (exit' = 1 => ~superblock)
          BY <1>2, <3>1 DEF ReadGroup, At, Row, Running
        <4>2. QED
          BY <2>1, <4>1, ReadBefore
      <3>2. CASE ReadDirent
        <4>1. rows[at].row = "DIRENT"
          BY <3>2 DEF ReadDirent, At, Row
        <4>2. total_group_inodes # Unknown => exit' = exit
          BY <3>2 DEF ReadDirent
        <4>3. QED
          BY <1>2, <2>1, <4>1, <4>2, ReadBefore DEF Running
      <3>3. CASE ReadSuperblock \/ ReadFree \/ ReadInode \/ ReadIndirect
        BY <1>2, <3>3 DEF ReadSuperblock, ReadFree, ReadInode, ReadIndirect, Running
      <3>4. QED
        BY <1>2, <3>1, <3>2, <3>3 DEF ReadsRow
    <2>3. QED
      BY <1>2, <2>2 DEF Raised, UsualOrder, SuperblockFirst, GroupFirst
  <1>3. CASE exit = Running /\ UNCHANGED <<img, order, rows>> /\ CheckBlock
    <2>1. exit' = 1 => Inconsistencies # {}
      BY <1>3, BlockStep
    <2>2. Inconsistencies' = Inconsistencies
      BY <1>3, GivenStays
    <2>3. QED
      BY <2>1, <2>2 DEF Raised
  <1>4. CASE /\ exit = Running
             /\ EndOfRows \/ EndOfBlocks \/ CheckUnreferenced \/ CheckUnallocated \/ CheckLinks \/ Exit
    <2>1. exit' = exit \/ exit' = Status
      BY <1>4 DEF EndOfRows, EndOfBlocks, CheckUnreferenced, CheckUnallocated, CheckLinks, Exit
    <2>2. Status # 1
      BY DEF Status
    <2>3. exit' # 1
      BY <1>4, <2>1, <2>2 DEF Running
    <2>4. QED
      BY <2>3 DEF Raised
  <1>5. QED
    BY <1>1, <1>2, <1>3, <1>4, NextIs

-----------------------------------------------------------------------------
(* The inductive invariant: what has been reported is wrong, and what is wrong *)
(* with what has been gone through has been reported or is overlooked.         *)

Found(F) == F \subseteq reports \cup Overlooked

Sound == reports \subseteq Inconsistencies

BlockDone(k) == (pc = "blocks" /\ k < at) \/ pc \notin {"rows", "blocks"}

Complete ==
  /\ \A n \in 1 .. Len(rows) : n <= Upto => Found(RowFindings(rows[n]))
  /\ \A k \in 1 .. Len(blocklist) : BlockDone(k) => Found(BlockFindings(blocklist[k]))
  /\ (pc \in {"inodes", "links", "exit"} => Found(Unreferenced))
  /\ (pc \in {"links", "exit"} => Found(Unallocated))
  /\ (pc = "exit" => Found(Links))

IInv ==
  /\ FileGiven /\ Control /\ StatusSound
  /\ Auditable => Sound /\ Raised /\ (exit # 1 => Complete)

\* What has been found stays so, and what is reported in a step is found.
LEMMA FoundMore ==
  ASSUME UNCHANGED <<img, order, rows>>, NEW S, reports' = reports \cup S
  PROVE  /\ \A F : Found(F) => F \subseteq reports' \cup Overlooked'
         /\ \A F : F \subseteq S \cup Overlooked => F \subseteq reports' \cup Overlooked'
  BY GivenStays DEF Found

LEMMA SoundMore ==
  ASSUME UNCHANGED <<img, order, rows>>, Sound, NEW S, reports' = reports \cup S, S \subseteq Inconsistencies
  PROVE  Sound'
  BY GivenStays DEF Sound

LEMMA RowProgress ==
  ASSUME FileGiven, Control, Auditable, Sound, Complete, exit = Running, UNCHANGED <<img, order, rows>>, ReadsRow
  PROVE  Sound' /\ (exit' # 1 => Complete')
  <1>1. /\ pc = "rows" /\ pc' = "rows" /\ at \in 1 .. Len(rows) /\ Upto = at - 1
        /\ exit' # 1 => Upto' = at
    BY RowControl
  <1>2. PICK S : /\ reports' = reports \cup S /\ S \subseteq RowFindings(rows[at])
                 /\ (exit' # 1 => RowFindings(rows[at]) \subseteq S \cup Overlooked)
    BY RowStep
  <1>3. Sound'
    <2>1. S \subseteq Inconsistencies
      BY <1>1, <1>2, RowFindsInconsistencies
    <2>2. QED
      BY <1>2, <2>1, SoundMore
  <1>4. ASSUME exit' # 1
        PROVE  Complete'
    <2>1. ASSUME NEW n \in 1 .. Len(rows), n <= at
          PROVE  RowFindings(rows[n]) \subseteq reports' \cup Overlooked'
      <3>1. CASE n = at
        BY <1>2, <1>4, <3>1, FoundMore
      <3>2. CASE n # at
        <4>1. n <= Upto
          BY <1>1, <2>1, <3>2, FileSound
        <4>2. Found(RowFindings(rows[n]))
          BY <4>1 DEF Complete
        <4>3. QED
          BY <1>2, <4>2, FoundMore
      <3>3. QED
        BY <3>1, <3>2
    <2>2. \A n \in 1 .. Len(rows) : (n <= Upto => Found(RowFindings(rows[n])))'
      <3>1. \A row : RowFindings(row)' = RowFindings(row)
        BY GivenStays
      <3>2. \A n \in 1 .. Len(rows) : RowFindings(rows[n])' = RowFindings(rows[n])
        BY <3>1
      <3>3. QED
        BY <1>1, <1>4, <2>1, <3>2 DEF Found
    <2>3. QED
      BY <1>1, <2>2 DEF Complete, BlockDone
  <1>5. QED
    BY <1>3, <1>4

\* A check of the tables, by what it reports and what it goes on with.
LEMMA CheckProgress ==
  ASSUME FileGiven, Control, Auditable, Complete, exit = Running, UNCHANGED <<img, order, rows>>,
         EndOfRows \/ CheckBlock \/ EndOfBlocks \/ CheckUnreferenced \/ CheckUnallocated \/ CheckLinks \/ Exit,
         NEW S, reports' = reports \cup S,
         \A k \in 1 .. Len(blocklist) :
           BlockDone(k)' => BlockDone(k) \/ BlockFindings(blocklist[k]) \subseteq S \cup Overlooked,
         pc' \in {"inodes", "links", "exit"} =>
           pc \in {"inodes", "links", "exit"} \/ Unreferenced \subseteq S \cup Overlooked,
         pc' \in {"links", "exit"} => pc \in {"links", "exit"} \/ Unallocated \subseteq S \cup Overlooked,
         pc' = "exit" => pc = "exit" \/ Links \subseteq S \cup Overlooked
  PROVE  Complete'
  <1>1. Upto' = Upto /\ UNCHANGED tableVars
    BY ChecksStay
  <1>2. blocklist' = blocklist
    BY <1>1 DEF tableVars
  <1>3. /\ \A F : Found(F) => F \subseteq reports' \cup Overlooked'
        /\ \A F : F \subseteq S \cup Overlooked => F \subseteq reports' \cup Overlooked'
    BY FoundMore
  <1>4. \A n \in 1 .. Len(rows) : (n <= Upto => Found(RowFindings(rows[n])))'
    <2>1. \A row : RowFindings(row)' = RowFindings(row)
      BY GivenStays
    <2>2. \A n \in 1 .. Len(rows) : RowFindings(rows[n])' = RowFindings(rows[n])
      BY <2>1
    <2>3. \A n \in 1 .. Len(rows) : n <= Upto => RowFindings(rows[n]) \subseteq reports' \cup Overlooked'
      BY <1>3 DEF Complete
    <2>4. QED
      BY <1>1, <2>2, <2>3 DEF Found
  <1>5. \A k \in 1 .. Len(blocklist) : (BlockDone(k) => Found(BlockFindings(blocklist[k])))'
    <2>1. \A item : BlockFindings(item)' = BlockFindings(item)
      BY GivenStays
    <2>2. \A k \in 1 .. Len(blocklist) : BlockFindings(blocklist[k])' = BlockFindings(blocklist[k])
      BY <1>2, <2>1
    <2>3. \A k \in 1 .. Len(blocklist) : BlockDone(k)' => BlockFindings(blocklist[k]) \subseteq reports' \cup Overlooked'
      BY <1>3 DEF Complete
    <2>4. QED
      BY <2>2, <2>3 DEF Found
  <1>6. /\ (pc' \in {"inodes", "links", "exit"} => Unreferenced \subseteq reports' \cup Overlooked')
        /\ (pc' \in {"links", "exit"} => Unallocated \subseteq reports' \cup Overlooked')
        /\ (pc' = "exit" => Links \subseteq reports' \cup Overlooked')
    BY <1>3 DEF Complete
  <1>7. Unreferenced' = Unreferenced /\ Unallocated' = Unallocated /\ Links' = Links
    BY GivenStays
  <1>8. /\ (pc \in {"inodes", "links", "exit"} => Found(Unreferenced))'
        /\ (pc \in {"links", "exit"} => Found(Unallocated))'
        /\ (pc = "exit" => Found(Links))'
    BY <1>6, <1>7 DEF Found
  <1>9. QED
    BY <1>2, <1>4, <1>5, <1>8 DEF Complete

LEMMA NothingReported ==
  ASSUME reports' = reports
  PROVE  \E S : S = {} /\ reports' = reports \cup S
  <1>1. PICK S : S = {}
    OBVIOUS
  <1>2. QED
    BY <1>1

\* The checks of the tables, one by one.
LEMMA ChecksProgress ==
  ASSUME FileGiven, Control, Auditable, Sound, Complete, exit = Running, UNCHANGED <<img, order, rows>>,
         EndOfRows \/ CheckBlock \/ EndOfBlocks \/ CheckUnreferenced \/ CheckUnallocated \/ CheckLinks \/ Exit
  PROVE  Sound' /\ (exit' # 1 => Complete')
  <1>1. at \in Nat \ {0}
    BY DEF Control
  <1>2. pc # "rows" => \A k \in 1 .. Len(blocklist) : BlockFindings(blocklist[k]) \subseteq Inconsistencies
    <2>1. SUFFICES ASSUME pc # "rows", NEW k \in 1 .. Len(blocklist)
                   PROVE  BlockFindings(blocklist[k]) \subseteq Inconsistencies
      OBVIOUS
    <2>2. PICK ref \in References : blocklist[k] = BlockEntries[ref]
      BY <2>1, TablesRead, BlocklistIs
    <2>3. BlockFindings(blocklist[k]) \subseteq FoundInBlocks
      BY <2>2 DEF FoundInBlocks
    <2>4. QED
      BY <2>3, InconsistenciesAre
  <1>3. CASE EndOfRows
    <2>1. pc = "rows" /\ pc' = "blocks" /\ at' = 1 /\ reports' = reports
      BY <1>3 DEF EndOfRows, Goto
    <2>2. PICK S : S = {} /\ reports' = reports \cup S
      BY <2>1, NothingReported
    <2>3. \A k \in 1 .. Len(blocklist) : ~BlockDone(k)'
      BY <2>1 DEF BlockDone
    <2>4. Complete'
      BY <2>1, <2>2, <2>3, CheckProgress
    <2>5. QED
      BY <2>2, <2>4, SoundMore
  <1>4. CASE CheckBlock
    <2>1. at \in 1 .. Len(blocklist) /\ pc = "blocks" /\ pc' = "blocks"
      BY <1>4, BlockStep DEF CheckBlock, Raise
    <2>2. PICK S : /\ reports' = reports \cup S /\ S \subseteq BlockFindings(blocklist[at])
                   /\ (exit' # 1 => BlockFindings(blocklist[at]) \subseteq S \cup Overlooked)
      BY <1>4, BlockStep
    <2>3. S \subseteq Inconsistencies
      BY <1>2, <2>1, <2>2
    <2>4. ASSUME exit' # 1
          PROVE  Complete'
      <3>1. at' = at + 1
        BY <1>4, <2>4 DEF CheckBlock, Raise
      <3>2. \A k \in 1 .. Len(blocklist) :
              BlockDone(k)' => BlockDone(k) \/ BlockFindings(blocklist[k]) \subseteq S \cup Overlooked
        <4>1. SUFFICES ASSUME NEW k \in 1 .. Len(blocklist), BlockDone(k)', ~BlockDone(k)
                       PROVE  BlockFindings(blocklist[k]) \subseteq S \cup Overlooked
          OBVIOUS
        <4>2. k < at + 1 /\ ~(k < at)
          BY <2>1, <3>1, <4>1 DEF BlockDone
        <4>3. k = at
          BY <1>1, <4>2
        <4>4. QED
          BY <2>2, <2>4, <4>3
      <3>3. QED
        BY <1>4, <2>1, <2>2, <3>2, CheckProgress
    <2>5. QED
      BY <2>2, <2>3, <2>4, SoundMore
  <1>5. CASE EndOfBlocks
    <2>1. pc = "blocks" /\ pc' = "unreferenced" /\ at > Len(blocklist) /\ reports' = reports
      BY <1>5 DEF EndOfBlocks, Goto
    <2>2. PICK S : S = {} /\ reports' = reports \cup S
      BY <2>1, NothingReported
    <2>3. \A k \in 1 .. Len(blocklist) : BlockDone(k)
      <3>1. Len(blocklist) \in Nat
        BY <2>1, TablesRead, BlocklistIs
      <3>2. QED
        BY <1>1, <2>1, <3>1 DEF BlockDone
    <2>4. Complete'
      BY <2>1, <2>2, <2>3, CheckProgress, <1>5
    <2>5. QED
      BY <2>2, <2>4, SoundMore
  <1>6. CASE CheckUnreferenced
    <2>1. pc = "unreferenced" /\ pc' = "inodes"
      BY <1>6 DEF CheckUnreferenced, Goto
    <2>2. PICK S : S = Unreferenced /\ reports' = reports \cup S
      BY <1>6, UnreferencedStep
    <2>3. \A k \in 1 .. Len(blocklist) : BlockDone(k)
      BY <2>1 DEF BlockDone
    <2>4. Complete'
      BY <2>1, <2>2, <2>3, CheckProgress, <1>6
    <2>5. S \subseteq Inconsistencies
      BY <2>2, InconsistenciesAre
    <2>6. QED
      BY <2>2, <2>4, <2>5, SoundMore
  <1>7. CASE CheckUnallocated
    <2>1. pc = "inodes" /\ pc' = "links"
      BY <1>7 DEF CheckUnallocated, Goto
    <2>2. PICK S : reports' = reports \cup S /\ S \subseteq Unallocated /\ Unallocated \subseteq S \cup Overlooked
      BY <1>7, UnallocatedStep
    <2>3. \A k \in 1 .. Len(blocklist) : BlockDone(k)
      BY <2>1 DEF BlockDone
    <2>4. Complete'
      BY <2>1, <2>2, <2>3, CheckProgress, <1>7
    <2>5. S \subseteq Inconsistencies
      BY <2>2, InconsistenciesAre
    <2>6. QED
      BY <2>2, <2>4, <2>5, SoundMore
  <1>8. CASE CheckLinks
    <2>1. pc = "links" /\ pc' = "exit"
      BY <1>8 DEF CheckLinks, Goto
    <2>2. PICK S : S = Links /\ reports' = reports \cup S
      BY <1>8, LinksStep
    <2>3. \A k \in 1 .. Len(blocklist) : BlockDone(k)
      BY <2>1 DEF BlockDone
    <2>4. Complete'
      BY <2>1, <2>2, <2>3, CheckProgress, <1>8
    <2>5. S \subseteq Inconsistencies
      BY <2>2, InconsistenciesAre
    <2>6. QED
      BY <2>2, <2>4, <2>5, SoundMore
  <1>9. CASE Exit
    <2>1. pc = "exit" /\ pc' = pc /\ reports' = reports
      BY <1>9 DEF Exit
    <2>2. PICK S : S = {} /\ reports' = reports \cup S
      BY <2>1, NothingReported
    <2>3. \A k \in 1 .. Len(blocklist) : BlockDone(k)
      BY <2>1 DEF BlockDone
    <2>4. Complete'
      BY <2>1, <2>2, <2>3, CheckProgress, <1>9
    <2>5. QED
      BY <2>2, <2>4, SoundMore
  <1>10. QED
    BY <1>3, <1>4, <1>5, <1>6, <1>7, <1>8, <1>9

LEMMA InvariantStarts ==
  ASSUME Init
  PROVE  IInv
  <1>1. FileGiven /\ Control
    BY ControlStarts
  <1>2. at = 1 /\ pc = "rows" /\ exit = Running /\ reports = {} /\ error_flag = FALSE
    BY DEF Init
  <1>3. StatusSound
    <2>1. exit # 2 /\ exit # 0
      BY <1>2 DEF Running
    <2>2. error_flag \in BOOLEAN /\ ~error_flag /\ \A r \in reports : r.what = "DOTDOT"
      BY <1>2
    <2>3. QED
      BY <2>1, <2>2 DEF StatusSound
  <1>4. Sound /\ Raised
    BY <1>2 DEF Sound, Raised, Running
  <1>5. Complete
    <2>1. Upto = 0
      BY <1>2 DEF Upto
    <2>2. \A n \in 1 .. Len(rows) : ~(n <= Upto)
      BY <1>1, <2>1, FileSound
    <2>3. \A k : ~BlockDone(k)
      BY <1>2 DEF BlockDone
    <2>4. QED
      BY <1>2, <2>2, <2>3 DEF Complete
  <1>6. QED
    BY <1>1, <1>3, <1>4, <1>5 DEF IInv

LEMMA InvariantKept ==
  ASSUME IInv, [Next]_vars
  PROVE  IInv'
  <1>1. FileGiven /\ Control /\ StatusSound
    BY DEF IInv
  <1>2. FileGiven' /\ Control' /\ StatusSound'
    BY <1>1, ControlKept, StatusKept
  <1>3. ASSUME Auditable'
        PROVE  Sound' /\ Raised' /\ (exit' # 1 => Complete')
    <2>1. UNCHANGED <<img, order, rows>>
      BY NextIs DEF vars
    <2>2. Auditable
      BY <1>3, <2>1, GivenStays
    <2>3. Sound /\ Raised /\ (exit # 1 => Complete)
      BY <2>2 DEF IInv
    <2>4. Raised'
      BY <1>1, <2>2, <2>3, RaisedKept
    <2>5. CASE UNCHANGED vars
      <3>1. UNCHANGED <<img, order, rows, at, blocklist, reports, pc, exit>>
        BY <2>5 DEF vars, tableVars
      <3>2. Sound'
        BY <2>3, <3>1, GivenStays DEF Sound
      <3>3. /\ Overlooked' = Overlooked /\ Unreferenced' = Unreferenced /\ Unallocated' = Unallocated /\ Links' = Links
            /\ \A n \in 1 .. Len(rows) : RowFindings(rows[n])' = RowFindings(rows[n])
            /\ \A k \in 1 .. Len(blocklist) : BlockFindings(blocklist[k])' = BlockFindings(blocklist[k])
        <4>1. /\ \A row : RowFindings(row)' = RowFindings(row)
              /\ \A item : BlockFindings(item)' = BlockFindings(item)
          BY <2>1, GivenStays
        <4>2. QED
          BY <2>1, <3>1, <4>1, GivenStays
      <3>4. Upto' = Upto /\ \A k : BlockDone(k)' <=> BlockDone(k)
        BY <3>1 DEF Upto, BlockDone
      <3>5. Complete => Complete'
        BY <3>1, <3>3, <3>4 DEF Complete, Found
      <3>6. QED
        BY <2>3, <2>4, <3>1, <3>2, <3>5
    <2>6. CASE exit = Running /\ ReadsRow
      BY <1>1, <2>1, <2>2, <2>3, <2>4, <2>6, RowProgress DEF Running
    <2>7. CASE /\ exit = Running
               /\ \/ EndOfRows \/ CheckBlock \/ EndOfBlocks \/ CheckUnreferenced
                  \/ CheckUnallocated \/ CheckLinks \/ Exit
      BY <1>1, <2>1, <2>2, <2>3, <2>4, <2>7, ChecksProgress DEF Running
    <2>8. QED
      BY <2>5, <2>6, <2>7, NextIs
  <1>4. QED
    BY <1>2, <1>3 DEF IInv

\* The invariant that the four properties follow from holds from the first row to
\* the exit, whatever image has been read and in whatever order its rows come.
THEOREM AuditAdvances == Spec => []IInv
  <1>1. Init => IInv
    BY InvariantStarts
  <1>2. IInv /\ [Next]_vars => IInv'
    BY InvariantKept
  <1>3. QED
    BY <1>1, <1>2, PTL DEF Spec

\* Whatever is wrong with an image and however the rows are ordered, what lab3a and
\* lab3b together report of it is so.
THEOREM ReportsAlwaysTrue == Spec => []ReportsAreTrue
  <1>1. IInv => ReportsAreTrue
    BY DEF IInv, ReportsAreTrue, Sound
  <1>2. QED
    BY <1>1, AuditAdvances, PTL

\* What has been gone through to the end.
LEMMA AllFound ==
  ASSUME FileGiven, Control, Auditable, Complete, exit \in {0, 2}
  PROVE  Inconsistencies \subseteq reports \cup Overlooked
  <1>1. pc = "exit" /\ Upto = Len(rows) /\ TablesUpto(Len(rows)) /\ Len(rows) \in Nat
    BY FileSound DEF Control, Upto
  <1>2. \A n \in 1 .. Len(rows) : Found(RowFindings(rows[n]))
    BY <1>1 DEF Complete
  <1>3. Found(Unreferenced) /\ Found(Unallocated) /\ Found(Links)
    BY <1>1 DEF Complete
  <1>4. Found(FoundInBlocks)
    <2>1. ASSUME NEW ref \in References
          PROVE  Found(BlockFindings(BlockEntries[ref]))
      <3>1. PICK k \in 1 .. Len(blocklist) : blocklist[k] = BlockEntries[ref]
        BY <1>1, BlocklistIs
      <3>2. BlockDone(k)
        BY <1>1 DEF BlockDone
      <3>3. QED
        BY <3>1, <3>2 DEF Complete
    <2>2. QED
      BY <2>1 DEF Found, FoundInBlocks
  <1>5. Found(FoundInEntries)
    <2>1. ASSUME NEW e \in Entries
          PROVE  Found(EntryFindings(e[1], Entry(e).inode, Entry(e).name))
      BY <1>2, InconsistenciesFoundByRows
    <2>2. QED
      BY <2>1 DEF Found, FoundInEntries
  <1>6. Found(InodesFreed)
    <2>1. ASSUME NEW i \in Inodes, i \in img.ifree, InUse(img, i)
          PROVE  Says("ALLOCATED INODE ON FREELIST", i, 0) \in reports \cup Overlooked
      <3>1. PICK n \in 1 .. Len(rows) : Says("ALLOCATED INODE ON FREELIST", i, 0) \in RowFindings(rows[n])
        BY <2>1, InconsistenciesFoundByRows
      <3>2. QED
        BY <1>2, <3>1 DEF Found
    <2>2. QED
      BY <2>1 DEF Found, InodesFreed
  <1>7. QED
    BY <1>3, <1>4, <1>5, <1>6, InconsistenciesAre DEF Found

\* An audit that comes to its end has reported all that is wrong with the image,
\* but for what is overlooked.
THEOREM NothingIsMissed == Spec => []NothingMissed
  <1>1. IInv => NothingMissed
    <2>1. SUFFICES ASSUME IInv, Auditable, exit \in {0, 2}
                   PROVE  Inconsistencies \subseteq reports \cup Overlooked
      BY DEF NothingMissed
    <2>2. FileGiven /\ Control /\ Complete
      BY <2>1 DEF IInv
    <2>3. QED
      BY <2>1, <2>2, AllFound
  <1>2. QED
    BY <1>1, AuditAdvances, PTL

\* Status 2 comes with a report, status 0 without one but of a wrong ".." of the
\* root, and an image with nothing wrong, its rows in the usual order, gets 0.
THEOREM StatusAlwaysExplained == Spec => []StatusExplained
  <1>1. IInv => StatusExplained
    <2>1. SUFFICES ASSUME IInv
                   PROVE  StatusExplained
      OBVIOUS
    <2>2. StatusSound
      BY <2>1 DEF IInv
    <2>3. ASSUME Auditable, UsualOrder, exit # Running, Inconsistencies = {}
          PROVE  exit = 0
      <3>1. reports = {} /\ exit # 1
        BY <2>1, <2>3 DEF IInv, Sound, Raised
      <3>2. exit \in {Running, 0, 1, 2}
        BY <2>1 DEF IInv, Control
      <3>3. QED
        BY <2>2, <2>3, <3>1, <3>2 DEF StatusSound
    <2>4. QED
      BY <2>2, <2>3 DEF StatusSound, StatusExplained
  <1>2. QED
    BY <1>1, AuditAdvances, PTL

\* The logical offset that lab3a prints of a block below the first entries of the
\* indirect blocks on its way is the true one.
THEOREM FirstOffsetsAlwaysTrue == Spec => []FirstOffsetsTrue
  <1>1. IInv => FirstOffsetsTrue
    BY FirstOffsets DEF IInv
  <1>2. QED
    BY <1>1, AuditAdvances, PTL

=============================================================================
