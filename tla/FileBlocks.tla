----------------------------- MODULE FileBlocks -----------------------------
(***************************************************************************)
(* The blocks of a regular file: those get_file_block_bitmap marks as it   *)
(* walks the direct, indirect and double indirect pointers, and those the  *)
(* file owns by the layout of ext2.                                        *)
(*                                                                         *)
(* i_block of a file is its blks: NDirect pointers to its first blocks, a  *)
(* pointer to an indirect block and one to a double indirect block, as far *)
(* as its size needs them.  The numbers in indirect blocks are never       *)
(* written, so they are a constant.  A pointer that is 0 is a hole.        *)
(***************************************************************************)
EXTENDS Ext2Meaning

CONSTANTS
  NDirect,            \* EXT2_NDIR_BLOCKS, 12
  PerBlock,           \* block numbers in one block: block_size / 4
  IndirectMax,        \* INDIRECT_MAX_BLOCK, 268
  DoubleIndirectMax,  \* DOUBLE_INDIRECT_MAX_BLOCK, 65549
  PointersIn          \* the block numbers every block has when read as pointers

ASSUME FileAssumption ==
  /\ NDirect \in Nat \ {0}
  /\ PerBlock \in Nat \ {0}
  /\ IndirectMax \in Nat /\ DoubleIndirectMax \in Nat
  /\ PointersIn \in [Block -> [1 .. PerBlock -> Block]]

\* Pointers of i_block that the walk reads of a file of that size.
PointersRead(size) ==
  IF size <= NDirect THEN size
  ELSE IF size <= IndirectMax THEN NDirect + 1
  ELSE IF size <= DoubleIndirectMax THEN NDirect + 2 ELSE 0

\* i_block of every regular file has them.
FilesOK(nodes) ==
  \A n \in Inode : nodes[n].mode = "reg" =>
                     Len(nodes[n].blks) >= PointersRead(nodes[n].size)

ASSUME FilesAssumption == \A img \in Images : FilesOK(img.inodes)

-----------------------------------------------------------------------------
(* The walk *)

Direct(n, count) == {inodes[n].blks[i] : i \in 1 .. count}
Indirect(n) == inodes[n].blks[NDirect + 1]
DoubleIndirect(n) == inodes[n].blks[NDirect + 2]

\* Faulty variant: k is compared before it is counted up.
Rounds_OneMore(k, size, all) == IF size - k < all THEN size - k + 1 ELSE all

\* Rounds of a loop that counts k up and is left only when k = size: all of
\* them if k is not below size to begin with.
Rounds(k, size, all) == IF size - k \in 1 .. all THEN size - k ELSE all

get_file_indirect_block_bitmap(n) ==
  LET pointers == PointersIn[Indirect(n)]
  IN  Direct(n, NDirect) \cup {Indirect(n)}
        \cup {pointers[i] : i \in 1 .. Rounds(NDirect, inodes[n].size, PerBlock)}

\* The indirect block is taken to be full.
get_file_double_indirect_block_bitmap(n) ==
  LET last == Rounds(NDirect + PerBlock, inodes[n].size, PerBlock * PerBlock)
      lev1(m) == PointersIn[DoubleIndirect(n)][(m \div PerBlock) + 1]
      lev2(m) == PointersIn[lev1(m)][(m % PerBlock) + 1]
  IN  Direct(n, NDirect) \cup {Indirect(n), DoubleIndirect(n)}
        \cup {PointersIn[Indirect(n)][i] : i \in 1 .. PerBlock}
        \cup UNION {{lev1(m), lev2(m)} : m \in 0 .. last - 1}

get_file_block_bitmap(n) ==
  CASE inodes[n].size <= NDirect -> Direct(n, inodes[n].size)
    [] inodes[n].size \in NDirect + 1 .. IndirectMax -> get_file_indirect_block_bitmap(n)
    [] inodes[n].size \in (NDirect + 1 .. DoubleIndirectMax) \ (0 .. IndirectMax) ->
         get_file_double_indirect_block_bitmap(n)
    [] OTHER -> {}

-----------------------------------------------------------------------------
(* The layout of ext2 *)

\* Below a hole there are only holes.
PointerIn(b, i) == IF b = 0 THEN 0 ELSE PointersIn[b][i]

\* Where block k of file n is, counted from 0, and the pointer blocks on the
\* way to it.
PathTo(n, k) ==
  LET i == k - NDirect
      j == i - PerBlock
      second == PointerIn(DoubleIndirect(n), (j \div PerBlock) + 1)
  IN  IF k < NDirect THEN {inodes[n].blks[k + 1]}
      ELSE IF i < PerBlock THEN {Indirect(n), PointerIn(Indirect(n), i + 1)}
      ELSE {DoubleIndirect(n), second, PointerIn(second, (j % PerBlock) + 1)}

FileOwns(n) == (UNION {PathTo(n, k) : k \in 0 .. inodes[n].size - 1}) \ {0}

\* Blocks that a file or directory named in the tree owns.  A symbolic link,
\* a device or a pipe owns none.
UsedBlocks ==
  LET named == {ROOT_INODE_NUM} \cup {Named(x) : x \in TreeEntries}
  IN  (UNION {FileOwns(n) : n \in {m \in named : inodes[m].mode = "reg"}})
        \cup (UNION { {inodes[n].blks[k] : k \in DOMAIN inodes[n].blks} :
                      n \in {m \in named : IsDir(m)} })

\* What the walk relies on.  The limits 268 and 65549 are those of blocks of
\* 1024 bytes, which hold 256 numbers.
PointersFit ==
  /\ IndirectMax = NDirect + PerBlock
  /\ DoubleIndirectMax <= IndirectMax + PerBlock * PerBlock

\* Where a pointer to pointers is 0, the boot block is read for them.
BootBlockEmpty == \A i \in 1 .. PerBlock : PointersIn[0][i] = 0

\* A directory is called one, a file is no longer than the walk can follow,
\* what is neither file, directory nor link has no blocks, and a directory has
\* no hole.
NamesTrue ==
  /\ \A x \in TreeEntries :
       LET n == Named(x)
       IN  /\ IsName(x) /\ IsDir(n) => NamesDir(x)
           /\ inodes[n].mode = "reg" => inodes[n].size <= DoubleIndirectMax
           /\ inodes[n].mode \in {"none", "other"} => inodes[n].blks = <<>>
  /\ \A d \in TreeDirs : \A k \in DOMAIN inodes[d].blks : inodes[d].blks[k] # 0

\* README, pass 4: the block bitmap is right.
BlockBitmapOK ==
  /\ {b \in DataBlocks : BlockBit(b) = 1} = DataBlocks \cap UsedBlocks
  /\ \A b \in TableBlocks : BlockBit(b) = 1

=============================================================================
