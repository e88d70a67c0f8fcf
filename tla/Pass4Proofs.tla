---------------------------- MODULE Pass4Proofs ----------------------------
(***************************************************************************)
(* Theorems about pass 4, for every partition and all sizes.               *)
(*                                                                         *)
(* The walk: it stays among the inodes and blocks of the partition, and    *)
(* what it marks are blocks, those it finds through pointer blocks         *)
(* included. For a tree that passes 1 and 2 leave (TreeSound) it marks     *)
(* every block in use and no other.                                        *)
(*                                                                         *)
(* The comparison: block_id, which is only ever counted up, is always      *)
(* where the loops are, and no data block is passed over.                  *)
(*                                                                         *)
(* The result: what the bitmap in memory has become, and group by group    *)
(* the one on the disk, is the right one (ResultInv).                      *)
(***************************************************************************)
EXTENDS Pass4, TreeProofs

\* A call for what may be walked into.  The pass changes no inode.
Walk4Frame == {f \in Frame4 : inodes[f.dir].mode # "lnk"}

P4Locals ==
  /\ stack4 \in Seq(Walk4Frame)
  /\ tb \subseteq Block
  /\ bm \in Bitmap(get_block_group_num * BlockBits)
  /\ grp \in 0 .. get_block_group_num
  /\ j4 \in Nat /\ bid \in Nat /\ found \in BOOLEAN

P4Inv ==
  /\ DiskTypeOK
  /\ FilesOK(inodes)
  /\ pc \in {"pass4", "p4_walk", "p4_compare", "p4_table", "p4_flush", "done"}
  /\ P4Locals

-----------------------------------------------------------------------------
(* Sizes *)

\* A quotient rounded up is a natural number, and not 0 for a dividend above 0;
\* as many divisors make at least the dividend.
LEMMA CeilDivNat ==
  ASSUME NEW a \in Nat, NEW b \in Nat \ {0}
  PROVE  /\ CeilDiv(a, b) \in Nat
         /\ a > 0 => CeilDiv(a, b) > 0
         /\ CeilDiv(a, b) * b >= a
<1> DEFINE x == a + b - 1
           q == x \div b
           r == x % b
<1>1. x \in Nat /\ b > 0
  OBVIOUS
<1>2. q \in Int /\ r \in 0 .. b - 1 /\ x = b * q + r
  BY <1>1, SMT
<1> HIDE DEF q, r
<1>3. q >= 0
  <2>1. SUFFICES ASSUME q <= -1 PROVE FALSE
    BY <1>2
  <2>2. b * q <= b * (-1)
    BY <2>1, <1>1, <1>2
  <2>3. QED
    BY <2>2, <1>1, <1>2
<1>4. b * q >= a
  BY <1>2
<1>5. a > 0 => q > 0
  BY <1>3, <1>4, <1>2
<1>6. CeilDiv(a, b) = q
  BY DEF CeilDiv, q
<1>7. QED
  BY <1>2, <1>3, <1>4, <1>5, <1>6

\* The number of groups is one.
LEMMA GroupNumNat == get_block_group_num \in Nat
BY CeilDivNat, SizesAssumption DEF get_block_group_num

\* The number of blocks skipped in a group is one.
LEMMA SkipNat == get_skip_block_num_in_group \in Nat
<1>1. /\ get_group_block_bitmap_block_num \in Nat
      /\ get_group_inode_bitmap_block_num \in Nat
      /\ get_group_inode_block_num \in Nat
  BY CeilDivNat, SizesAssumption
  DEF get_group_block_bitmap_block_num, get_group_inode_bitmap_block_num,
      get_group_inode_block_num
<1>2. QED
  BY <1>1 DEF get_skip_block_num_in_group

-----------------------------------------------------------------------------
(* Blocks of a file *)

\* A file has at least the pointers that are read, all of them to blocks.
LEMMA PointerOK ==
  ASSUME DiskTypeOK, FilesOK(inodes), NEW n \in Inode, inodes[n].mode = "reg"
  PROVE  /\ inodes[n].size \in Nat
         /\ \A i \in 1 .. PointersRead(inodes[n].size) : inodes[n].blks[i] \in Block
<1>1. /\ inodes[n] \in InodeRecord /\ inodes[n].blks \in Seq(Block)
      /\ Len(inodes[n].blks) >= PointersRead(inodes[n].size)
  BY DEF DiskTypeOK, IsImage, FilesOK
<1>2. inodes[n].size \in Nat
  BY <1>1 DEF InodeRecord
<1>3. PointersRead(inodes[n].size) \in Nat
  BY <1>2, FileAssumption DEF PointersRead
<1>4. Len(inodes[n].blks) \in Nat
  BY <1>1, LenProperties
<1>5. ASSUME NEW i \in 1 .. PointersRead(inodes[n].size) PROVE inodes[n].blks[i] \in Block
  <2>1. i \in 1 .. Len(inodes[n].blks)
    BY <1>1, <1>3, <1>4
  <2>2. QED
    BY <1>1, <2>1, ElementOfSeq
<1>6. QED
  BY <1>2, <1>5

\* What a pointer block holds are blocks.
LEMMA PointersInOK ==
  ASSUME NEW b \in Block, NEW i \in 1 .. PerBlock
  PROVE  PointersIn[b][i] \in Block
BY FileAssumption

\* No loop has more rounds than there are pointers.
LEMMA RoundsOK ==
  ASSUME NEW k \in Nat, NEW size \in Nat, NEW all \in Nat
  PROVE  Rounds(k, size, all) \in 0 .. all
BY DEF Rounds

\* Place m of a double indirect block is in one of its indirect blocks.
LEMMA PlaceInDouble ==
  ASSUME NEW m \in 0 .. PerBlock * PerBlock - 1
  PROVE  (m \div PerBlock) + 1 \in 1 .. PerBlock /\ (m % PerBlock) + 1 \in 1 .. PerBlock
<1> DEFINE q == m \div PerBlock
           r == m % PerBlock
<1>1. PerBlock \in Nat \ {0} /\ m \in Nat
  BY FileAssumption
<1>2. q \in Int /\ r \in 0 .. PerBlock - 1 /\ m = PerBlock * q + r
  BY <1>1, SMT
<1>3. m < PerBlock * PerBlock
  BY <1>1
<1> HIDE DEF q, r
<1>4. q >= 0
  <2>1. SUFFICES ASSUME q <= -1 PROVE FALSE
    BY <1>2
  <2>2. PerBlock * q <= PerBlock * (-1)
    BY <1>1, <1>2, <2>1
  <2>3. QED
    BY <1>1, <1>2, <2>2
<1>5. q < PerBlock
  <2>1. SUFFICES ASSUME q >= PerBlock PROVE FALSE
    BY <1>1, <1>2
  <2>2. PerBlock * q >= PerBlock * PerBlock
    BY <1>1, <1>2, <2>1
  <2>3. QED
    BY <1>1, <1>2, <1>3, <2>2
<1>6. q + 1 \in 1 .. PerBlock /\ r + 1 \in 1 .. PerBlock
  BY <1>1, <1>2, <1>4, <1>5
<1>7. QED
  BY <1>6 DEF q, r

\* What get_file_block_bitmap marks are blocks of the partition.
LEMMA FileBlocksOK ==
  ASSUME DiskTypeOK, FilesOK(inodes), NEW n \in Inode, inodes[n].mode = "reg"
  PROVE  get_file_block_bitmap(n) \subseteq Block
<1> DEFINE size == inodes[n].size
<1>1. size \in Nat /\ \A i \in 1 .. PointersRead(size) : inodes[n].blks[i] \in Block
  BY PointerOK
<1>2. NDirect \in Nat /\ PerBlock \in Nat /\ IndirectMax \in Nat /\ DoubleIndirectMax \in Nat
  BY FileAssumption
<1> HIDE DEF size
<1>3. CASE size <= NDirect
  <2>1. PointersRead(size) = size /\ get_file_block_bitmap(n) = Direct(n, size)
    BY <1>1, <1>2, <1>3 DEF PointersRead, get_file_block_bitmap, size
  <2>2. QED
    BY <1>1, <2>1 DEF Direct
<1>4. CASE size \in NDirect + 1 .. IndirectMax
  <2>1. /\ PointersRead(size) = NDirect + 1
        /\ get_file_block_bitmap(n) = get_file_indirect_block_bitmap(n)
    BY <1>1, <1>2, <1>4 DEF PointersRead, get_file_block_bitmap, size
  <2>2. Direct(n, NDirect) \subseteq Block /\ Indirect(n) \in Block
    BY <1>1, <1>2, <2>1 DEF Direct, Indirect
  <2>3. Rounds(NDirect, size, PerBlock) \in 0 .. PerBlock
    BY <1>1, <1>2, RoundsOK
  <2>4. \A i \in 1 .. Rounds(NDirect, size, PerBlock) : PointersIn[Indirect(n)][i] \in Block
    BY <1>2, <2>2, <2>3, PointersInOK
  <2>5. QED
    BY <2>1, <2>2, <2>4 DEF get_file_indirect_block_bitmap, size
<1>5. CASE size \in (NDirect + 1 .. DoubleIndirectMax) \ (0 .. IndirectMax)
  <2> DEFINE last == Rounds(NDirect + PerBlock, size, PerBlock * PerBlock)
             lev1(m) == PointersIn[DoubleIndirect(n)][(m \div PerBlock) + 1]
             lev2(m) == PointersIn[lev1(m)][(m % PerBlock) + 1]
  <2>1. /\ PointersRead(size) = NDirect + 2
        /\ get_file_block_bitmap(n) = get_file_double_indirect_block_bitmap(n)
    BY <1>1, <1>2, <1>5 DEF PointersRead, get_file_block_bitmap, size
  <2>2. /\ Direct(n, NDirect) \subseteq Block
        /\ Indirect(n) \in Block /\ DoubleIndirect(n) \in Block
    BY <1>1, <1>2, <2>1 DEF Direct, Indirect, DoubleIndirect
  <2>3. \A i \in 1 .. PerBlock : PointersIn[Indirect(n)][i] \in Block
    BY <2>2, PointersInOK
  <2>4. last \in 0 .. PerBlock * PerBlock
    <3>1. NDirect + PerBlock \in Nat /\ PerBlock * PerBlock \in Nat
      BY <1>2
    <3>2. QED
      BY <1>1, <3>1, RoundsOK
  <2>5. ASSUME NEW m \in 0 .. last - 1 PROVE lev1(m) \in Block /\ lev2(m) \in Block
    <3>1. m \in 0 .. PerBlock * PerBlock - 1
      <4>1. PerBlock * PerBlock \in Nat
        BY <1>2
      <4> HIDE DEF last
      <4>2. QED
        BY <2>4, <4>1
    <3>2. (m \div PerBlock) + 1 \in 1 .. PerBlock /\ (m % PerBlock) + 1 \in 1 .. PerBlock
      BY <3>1, PlaceInDouble
    <3>3. lev1(m) \in Block
      BY <2>2, <3>2, PointersInOK
    <3>4. QED
      BY <3>2, <3>3, PointersInOK
  <2>6. get_file_double_indirect_block_bitmap(n) =
          Direct(n, NDirect) \cup {Indirect(n), DoubleIndirect(n)}
            \cup {PointersIn[Indirect(n)][i] : i \in 1 .. PerBlock}
            \cup UNION {{lev1(m), lev2(m)} : m \in 0 .. last - 1}
    BY DEF get_file_double_indirect_block_bitmap, size
  <2> HIDE DEF last, lev1, lev2
  <2>7. QED
    BY <2>1, <2>2, <2>3, <2>5, <2>6
<1>6. CASE size > NDirect /\ size > IndirectMax /\ size > DoubleIndirectMax
  BY <1>1, <1>2, <1>6 DEF get_file_block_bitmap, size
<1>7. QED
  BY <1>1, <1>2, <1>3, <1>4, <1>5, <1>6

-----------------------------------------------------------------------------
(* The walk *)

\* A call for what may be walked into.
LEMMA Call4OK ==
  ASSUME NEW n \in Inode, inodes[n].mode # "lnk"
  PROVE  Call4(n) \in Walk4Frame /\ <<Call4(n)>> \in Seq(Walk4Frame)
<1>1. Call4(n) \in Walk4Frame
  BY DEF Call4, Walk4Frame, Frame4
<1>2. QED
  BY <1>1

\* The running call, and the block it is at.
LEMMA Top4OK ==
  ASSUME P4Inv, stack4 # <<>>
  PROVE  /\ Len(stack4) \in Nat \ {0} /\ Top4 \in Walk4Frame
         /\ InBlocks4(Top4) => BlockId4(Top4) \in Block
<1>1. Len(stack4) \in Nat \ {0}
  BY EmptySeq, LenProperties DEF P4Inv, P4Locals
<1>2. Top4 \in Walk4Frame
  BY <1>1, ElementOfSeq DEF P4Inv, P4Locals, Top4
<1>3. ASSUME InBlocks4(Top4) PROVE BlockId4(Top4) \in Block
  <2>1. inodes[Top4.dir].blks \in Seq(Block) /\ Top4.blk \in Nat \ {0}
    BY <1>2 DEF P4Inv, DiskTypeOK, IsImage, Walk4Frame, Frame4
  <2>2. Top4.blk \in 1 .. Len(inodes[Top4.dir].blks)
    BY <1>3, <2>1, LenProperties DEF InBlocks4
  <2>3. QED
    BY <2>1, <2>2, ElementOfSeq DEF BlockId4
<1>4. QED
  BY <1>1, <1>2, <1>3

\* A stack whose top moves on is a stack.
LEMMA Resume4OK ==
  ASSUME P4Inv, stack4 # <<>>, NEW f \in Walk4Frame
  PROVE  Resume4(f) \in Seq(Walk4Frame)
<1>1. Len(stack4) \in 1 .. Len(stack4)
  BY Top4OK
<1>2. QED
  BY <1>1, ExceptSeq DEF P4Inv, P4Locals, Resume4

\* An entry names an inode.
LEMMA Entry4OK ==
  ASSUME P4Inv, stack4 # <<>>, HasEntry4(Top4)
  PROVE  Entry4(Top4) \in Inode
<1> DEFINE b == BlockId4(Top4)
<1>1. b \in Block /\ Top4.pos \in Nat
  BY Top4OK DEF HasEntry4, Walk4Frame, Frame4
<1>2. data[b] \in Seq(Entry)
  BY <1>1 DEF P4Inv, DiskTypeOK, IsImage
<1>3. Top4.pos \in 1 .. Len(data[b]) /\ data[b][Top4.pos].ino # 0
  BY <1>1, <1>2, LenProperties DEF HasEntry4
<1>4. data[b][Top4.pos] \in Entry
  BY <1>2, <1>3, ElementOfSeq
<1>5. QED
  BY <1>3, <1>4, SizesAssumption DEF Entry4, Entry, Inode

-----------------------------------------------------------------------------
(* The steps *)

\* Pass 4 starts in its invariant.
LEMMA P4InvInit == P4Init => P4Inv
<1> SUFFICES ASSUME P4Init PROVE P4Inv
  OBVIOUS
<1>1. DiskTypeOK /\ FilesOK(inodes)
  BY ImagesAssumption, FilesAssumption DEF P4Init, ImageInit, DiskTypeOK
<1>2. get_block_group_num \in Nat
  BY GroupNumNat
<1>3. P4Locals
  <2>1. found \in BOOLEAN
    BY Zenon DEF P4Init
  <2>2. QED
    BY <1>1, <1>2, <2>1 DEF P4Init, P4Locals, DiskTypeOK, IsImage
<1>4. QED
  BY <1>1, <1>3 DEF P4Init, P4Inv

\* A step that changes neither the disk nor the stack.
LEMMA Still4OK ==
  ASSUME P4Inv, UNCHANGED <<inodes, links, data, overwritten, ibitmap>>,
         bbitmap' \in Bitmap(get_block_group_num * BlockBits)
  PROVE  DiskTypeOK' /\ FilesOK(inodes)' /\ Walk4Frame' = Walk4Frame
<1>1. DiskTypeOK'
  BY DEF P4Inv, DiskTypeOK, IsImage
<1>2. FilesOK(inodes)' /\ Walk4Frame' = Walk4Frame
  BY DEF P4Inv, FilesOK, Walk4Frame
<1>3. QED
  BY <1>1, <1>2

\* A flipped bit is a bit.
LEMMA FlipOK ==
  ASSUME NEW bits, NEW bitmap \in Bitmap(bits), NEW b
  PROVE  Flip(bitmap, b) \in Bitmap(bits)
<1> DEFINE c == b - 1
<1>1. bitmap \in [0 .. bits - 1 -> 0 .. 1] /\ Flip(bitmap, b) = [bitmap EXCEPT ![c] = 1 - bitmap[c]]
  BY DEF Flip, Bitmap
<1> HIDE DEF c
<1>2. c \in 0 .. bits - 1 => 1 - bitmap[c] \in 0 .. 1
  BY <1>1
<1>3. QED
  BY <1>1, <1>2 DEF Bitmap

\* The blocks of a group replaced by what is in memory.
LEMMA WriteGroupOK ==
  ASSUME P4Inv, NEW g
  PROVE  WriteGroup(g) \in Bitmap(get_block_group_num * BlockBits)
<1>1. /\ bbitmap \in Bitmap(get_block_group_num * BlockBits)
      /\ bm \in Bitmap(get_block_group_num * BlockBits)
  BY DEF P4Inv, P4Locals, DiskTypeOK, IsImage
<1>2. QED
  BY <1>1 DEF WriteGroup, Bitmap

\* Every step of pass 4 keeps it.
LEMMA P4InvStep == P4Inv /\ [P4Next]_p4vars => P4Inv'
<1> SUFFICES ASSUME P4Inv, [P4Next]_p4vars PROVE P4Inv'
  OBVIOUS
<1>1. bbitmap \in Bitmap(get_block_group_num * BlockBits) /\ get_block_group_num \in Nat
  BY GroupNumNat DEF P4Inv, DiskTypeOK, IsImage
<1>2. UNCHANGED disk => DiskTypeOK' /\ FilesOK(inodes)' /\ Walk4Frame' = Walk4Frame
  BY <1>1, Still4OK DEF disk
<1>3. CASE P4Start
  <2>1. <<Call4(ROOT_INODE_NUM)>> \in Seq(Walk4Frame)
    <3>1. ROOT_INODE_NUM \in Inode /\ inodes[ROOT_INODE_NUM].mode # "lnk"
      BY SizesAssumption DEF P4Inv, DiskTypeOK, IsImage, Inode, ROOT_INODE_NUM
    <3>2. QED
      BY <3>1, Call4OK
  <2>2. found' \in BOOLEAN
    BY <1>3, Zenon DEF P4Start
  <2>3. /\ UNCHANGED disk /\ stack4' = <<Call4(ROOT_INODE_NUM)>> /\ tb' = {}
        /\ bm' = bbitmap /\ grp' = 0 /\ j4' = 0 /\ bid' = 1 /\ pc' = "p4_walk"
    BY <1>3 DEF P4Start
  <2>4. QED
    BY <1>1, <1>2, <2>1, <2>2, <2>3 DEF P4Inv, P4Locals
<1>4. CASE P4Open
  <2> DEFINE f == [Top4 EXCEPT !.pos = 1]
  <2>1. Top4 \in Walk4Frame /\ BlockId4(Top4) \in Block
    BY <1>4, Top4OK DEF P4Open
  <2>2. f \in Walk4Frame
    BY <2>1 DEF Walk4Frame, Frame4
  <2> HIDE DEF f
  <2>3. Resume4(f) \in Seq(Walk4Frame)
    BY <1>4, <2>2, Resume4OK DEF P4Open
  <2>4. QED
    BY <1>2, <1>4, <2>1, <2>3 DEF P4Open, P4Inv, P4Locals, f
<1>5. CASE P4Entry
  <2> DEFINE f == [Top4 EXCEPT !.pos = @ + 1]
             n == Entry4(Top4)
             named == Top4.blk > 1 \/ Top4.pos > 2
  <2>1. Top4 \in Walk4Frame /\ n \in Inode
    BY <1>5, Top4OK, Entry4OK DEF P4Entry
  <2>2. f \in Walk4Frame
    BY <2>1 DEF Walk4Frame, Frame4
  <2>3. /\ stack4' = IF named /\ inodes[n].mode \notin {"lnk", "reg"}
                     THEN Append(Resume4(f), Call4(n)) ELSE Resume4(f)
        /\ tb' = IF named /\ inodes[n].mode = "reg"
                 THEN tb \cup get_file_block_bitmap(n) ELSE tb
        /\ UNCHANGED <<disk, pc, bm, grp, j4, bid, found>>
    BY <1>5 DEF P4Entry
  <2> HIDE DEF f, n, named
  <2>4. Resume4(f) \in Seq(Walk4Frame)
    BY <1>5, <2>2, Resume4OK DEF P4Entry
  <2>5. stack4' \in Seq(Walk4Frame)
    <3>1. CASE named /\ inodes[n].mode \notin {"lnk", "reg"}
      <4>1. Call4(n) \in Walk4Frame
        BY <2>1, <3>1, Call4OK
      <4>2. QED
        BY <2>3, <2>4, <3>1, <4>1, AppendProperties
    <3>2. CASE ~(named /\ inodes[n].mode \notin {"lnk", "reg"})
      BY <2>3, <2>4, <3>2
    <3>3. QED
      BY <3>1, <3>2
  <2>6. tb' \subseteq Block
    <3>1. inodes[n].mode = "reg" => get_file_block_bitmap(n) \subseteq Block
      BY <2>1, FileBlocksOK DEF P4Inv
    <3>2. QED
      BY <2>3, <3>1 DEF P4Inv, P4Locals
  <2>7. QED
    BY <1>2, <2>3, <2>5, <2>6 DEF P4Inv, P4Locals
<1>6. CASE P4NextBlock
  <2> DEFINE f == [Top4 EXCEPT !.blk = @ + 1, !.pos = 0]
  <2>1. Top4 \in Walk4Frame
    BY <1>6, Top4OK DEF P4NextBlock
  <2>2. f \in Walk4Frame
    <3>1. Top4 \in Frame4 /\ Top4.blk + 1 \in Nat \ {0} /\ inodes[Top4.dir].mode # "lnk"
      BY <2>1 DEF Walk4Frame, Frame4
    <3> DEFINE g == [Top4 EXCEPT !.blk = Top4.blk + 1]
    <3>2. g \in Frame4 /\ g.dir = Top4.dir
      BY <3>1 DEF Frame4
    <3>3. f = [g EXCEPT !.pos = 0]
      OBVIOUS
    <3> HIDE DEF f, g
    <3>4. f \in Frame4 /\ f.dir = Top4.dir
      BY <3>2, <3>3 DEF Frame4
    <3>5. QED
      BY <3>1, <3>4 DEF Walk4Frame
  <2> HIDE DEF f
  <2>3. Resume4(f) \in Seq(Walk4Frame)
    BY <1>6, <2>2, Resume4OK DEF P4NextBlock
  <2>4. QED
    BY <1>2, <1>6, <2>3 DEF P4NextBlock, P4Inv, P4Locals, f
<1>7. CASE P4Return
  <2>1. Len(stack4) \in Nat \ {0} /\ stack4 \in Seq(Walk4Frame)
    BY <1>7, Top4OK DEF P4Return, P4Inv, P4Locals
  <2>2. stack4' = SubSeq(stack4, 1, Len(stack4) - 1) /\ UNCHANGED <<disk, pc, tb, bm, grp, j4, bid, found>>
    BY <1>7 DEF P4Return
  <2>3. stack4' \in Seq(Walk4Frame)
    BY <2>1, <2>2, ElementOfSeq, SubSeqProperties
  <2>4. QED
    BY <1>2, <2>2, <2>3 DEF P4Inv, P4Locals
<1>8. CASE P4Walked \/ P4NextGroup \/ P4Compared \/ P4NextTable \/ P4Decide \/ P4Done \/ UNCHANGED p4vars
  <2>1. UNCHANGED <<disk, stack4, tb, bm, found>>
    BY <1>8 DEF P4Walked, P4NextGroup, P4Compared, P4NextTable, P4Decide, P4Done, p4vars
  <2>2. get_skip_block_num_in_group \in Nat
    BY SkipNat
  <2>3. grp' \in 0 .. get_block_group_num /\ j4' \in Nat /\ bid' \in Nat
    BY <1>1, <1>8, <2>2 DEF P4Walked, P4NextGroup, P4Compared, P4NextTable, P4Decide, P4Done, p4vars,
           SkipHead, Comparing, P4Inv, P4Locals
  <2>4. pc' \in {"pass4", "p4_walk", "p4_compare", "p4_table", "p4_flush", "done"}
    BY <1>8 DEF P4Walked, P4NextGroup, P4Compared, P4NextTable, P4Decide, P4Done, p4vars, P4Inv
  <2>5. QED
    BY <1>2, <2>1, <2>3, <2>4 DEF P4Inv, P4Locals
<1>9. CASE P4Compare
  <2>1. bm' = bm \/ bm' = Flip(bm, bid)
    BY <1>9 DEF P4Compare
  <2>2. bm' \in Bitmap(get_block_group_num * BlockBits)
    BY <2>1, FlipOK DEF P4Inv, P4Locals
  <2>3. /\ UNCHANGED <<disk, pc, stack4, tb, grp>> /\ bid' = bid + 1
        /\ j4' = IF bid + 1 >= BlocksCount THEN BlocksPerGroup ELSE j4 + 1
        /\ found' \in BOOLEAN
    BY <1>9 DEF P4Compare
  <2>4. j4' \in Nat /\ bid' \in Nat
    BY <2>3, SizesAssumption DEF P4Inv, P4Locals
  <2>5. QED
    BY <1>2, <2>2, <2>3, <2>4 DEF P4Inv, P4Locals
<1>10. CASE P4Table
  <2>1. /\ grp \in Group /\ bid' = InodeTable[grp] + j4 /\ j4' = j4 + 1
        /\ UNCHANGED <<disk, pc, stack4, tb, grp>>
    BY <1>1, <1>10 DEF P4Table, P4Inv, P4Locals, Group
  <2>2. bm' = bm \/ bm' = Flip(bm, bid')
    BY <1>10 DEF P4Table
  <2>3. bm' \in Bitmap(get_block_group_num * BlockBits)
    BY <2>2, FlipOK DEF P4Inv, P4Locals
  <2>4. found' \in BOOLEAN
    BY <1>10 DEF P4Table, P4Inv, P4Locals
  <2>5. j4' \in Nat /\ bid' \in Nat
    BY <2>1, SizesAssumption DEF P4Inv, P4Locals, Block
  <2>6. QED
    BY <1>2, <2>1, <2>3, <2>4, <2>5 DEF P4Inv, P4Locals
<1>11. CASE P4Write
  <2>1. /\ bbitmap' = WriteGroup(grp) /\ grp' = grp + 1 /\ grp < get_block_group_num
        /\ UNCHANGED <<pc, inodes, links, data, overwritten, ibitmap, stack4, tb, bm, j4, bid, found>>
    BY <1>11 DEF P4Write
  <2>2. DiskTypeOK' /\ FilesOK(inodes)' /\ Walk4Frame' = Walk4Frame
    BY <2>1, WriteGroupOK, Still4OK
  <2>3. grp' \in 0 .. get_block_group_num
    BY <1>1, <2>1 DEF P4Inv, P4Locals
  <2>4. QED
    BY <2>1, <2>2, <2>3 DEF P4Inv, P4Locals
<1>12. QED
  BY <1>3, <1>4, <1>5, <1>6, <1>7, <1>8, <1>9, <1>10, <1>11 DEF P4Next

-----------------------------------------------------------------------------
(* The theorem *)

\* Pass 4 reads and marks blocks of the partition only, through pointer blocks
\* too, and leaves a partition it could be started on.
THEOREM Pass4TypeCorrect == P4Spec => []P4TypeOK
<1>1. P4Inv => P4TypeOK
  <2>1. Walk4Frame \subseteq Frame4
    BY DEF Walk4Frame
  <2>2. \A s : s \in Seq(Walk4Frame) => s \in Seq(Frame4)
    BY <2>1
  <2>3. QED
    BY <2>2 DEF P4Inv, P4Locals, P4TypeOK
<1>2. QED
  BY <1>1, P4InvInit, P4InvStep, PTL DEF P4Spec

-----------------------------------------------------------------------------
(* The comparison.  P4LoopAt says nothing of where block_id is between two *)
(* groups and before the loop, so it is not inductive: CountInv adds that. *)

Skip == get_skip_block_num_in_group
Groups == get_block_group_num

\* In a group the count is where i and j say; the loop was left at the last
\* block in the last group only.
InPlace ==
  \/ /\ bid = 1 + grp * BlocksPerGroup + Skip + j4
     /\ j4 + Skip <= BlocksPerGroup
     /\ InGroup => bid < BlocksCount
  \/ j4 = BlocksPerGroup /\ grp = Groups - 1 /\ bid >= BlocksCount

CountInv ==
  /\ bid \in Nat /\ grp \in Nat /\ j4 \in Nat
  /\ pc = "p4_walk" => bid = 1 /\ grp = 0 /\ j4 = 0
  /\ pc = "p4_compare" => grp <= Groups
  /\ pc = "p4_compare" /\ grp = Groups => bid >= BlocksCount
  /\ Comparing => InPlace

\* What is left of a multiple and less than a divisor.
LEMMA ModOf ==
  ASSUME NEW a \in Nat, NEW b \in Nat \ {0}, NEW c \in 0 .. b - 1
  PROVE  (a * b + c) % b = c
<1> DEFINE x == a * b + c
           q == x \div b
           r == x % b
<1>1. x \in Nat /\ b > 0
  OBVIOUS
<1>2. q \in Int /\ r \in 0 .. b - 1 /\ x = b * q + r
  BY <1>1, SMT
<1> HIDE DEF q, r
<1>3. b * (q - a) = c - r
  BY <1>2
<1>4. ~(q - a >= 1)
  <2>1. q - a >= 1 => b * (q - a) >= b
    BY <1>1, <1>2
  <2>2. QED
    BY <2>1, <1>2, <1>3
<1>5. ~(q - a <= -1)
  <2>1. q - a <= -1 => b * (q - a) <= -b
    BY <1>1, <1>2
  <2>2. QED
    BY <2>1, <1>2, <1>3
<1>6. q = a
  BY <1>2, <1>4, <1>5
<1>7. r = c
  BY <1>2, <1>3, <1>6
<1>8. QED
  BY <1>7 DEF r

-----------------------------------------------------------------------------
(* Sizes *)

\* The sizes, as the arithmetic of block_id needs them.
LEMMA SizesOK ==
  /\ BlocksPerGroup \in Nat \ {0} /\ BlocksCount \in Nat
  /\ Skip \in Nat /\ Skip < BlocksPerGroup
  /\ Groups \in Nat \ {0}
  /\ (Groups - 1) * BlocksPerGroup + Skip + 1 < BlocksCount
  /\ BlockBits \in Nat /\ BlockBits >= BlocksPerGroup
  /\ Groups * BlocksPerGroup >= BlocksCount
<1>1. Skip \in Nat
  <2>1. /\ get_group_block_bitmap_block_num \in Nat
        /\ get_group_inode_bitmap_block_num \in Nat
        /\ get_group_inode_block_num \in Nat
    BY SizesAssumption, CeilDivNat
    DEF get_group_block_bitmap_block_num, get_group_inode_bitmap_block_num,
        get_group_inode_block_num
  <2>2. QED
    BY <2>1 DEF Skip, get_skip_block_num_in_group
<1>2. Groups \in Nat \ {0} /\ Groups * BlocksPerGroup >= BlocksCount
  BY SizesAssumption, CeilDivNat DEF Groups, get_block_group_num
<1>3. BlockBits \in Nat /\ BlockBits >= BlocksPerGroup
  BY SizesAssumption, CeilDivNat DEF BlockBits, get_group_block_bitmap_block_num
<1>4. QED
  BY <1>1, <1>2, <1>3, SizesAssumption, GeometryAssumption DEF Skip, Groups

\* Groups before the last end before the last starts.
LEMMA GroupEnd ==
  ASSUME NEW g \in Nat, g < Groups
  PROVE  /\ g * BlocksPerGroup <= (Groups - 1) * BlocksPerGroup
         /\ (g + 1) * BlocksPerGroup = g * BlocksPerGroup + BlocksPerGroup
         /\ g < Groups - 1 => (g + 1) * BlocksPerGroup <= (Groups - 1) * BlocksPerGroup
<1>1. \A m, n \in Nat, p \in Nat : m <= n => m * p <= n * p
  <2> SUFFICES ASSUME NEW m \in Nat, NEW n \in Nat, NEW p \in Nat, m <= n
               PROVE  m * p <= n * p
    OBVIOUS
  <2>1. n * p = m * p + (n - m) * p
    OBVIOUS
  <2>2. (n - m) * p >= 0
    OBVIOUS
  <2>3. QED
    BY <2>1, <2>2
<1>2. QED
  BY <1>1, SizesOK

\* A place of a group behind its metadata is that of a data block.
LEMMA DataAt ==
  ASSUME NEW g \in Nat, NEW j \in Nat, Skip + j < BlocksPerGroup,
         1 + g * BlocksPerGroup + Skip + j < BlocksCount
  PROVE  1 + g * BlocksPerGroup + Skip + j \in DataBlocks
<1> DEFINE b == 1 + g * BlocksPerGroup + Skip + j
<1>1. b \in Nat \ {0} /\ b < BlocksCount
  BY SizesOK
<1>2. (b - 1) % BlocksPerGroup = Skip + j
  <2>1. Skip + j \in 0 .. BlocksPerGroup - 1
    BY SizesOK
  <2>2. b - 1 = g * BlocksPerGroup + (Skip + j)
    BY SizesOK
  <2> HIDE DEF b
  <2>3. QED
    BY <2>1, <2>2, ModOf, SizesOK
<1> HIDE DEF b
<1>3. Skip + j >= Skip
  BY SizesOK
<1>4. b \in DataBlocks
  BY <1>1, <1>2, <1>3, SizesAssumption DEF DataBlocks, Block, Skip
<1>5. QED
  BY <1>4 DEF b

\* The metadata of a group are no data blocks.
LEMMA NoDataAt ==
  ASSUME NEW g \in Nat, NEW b \in DataBlocks
  PROVE  ~(b >= 1 + g * BlocksPerGroup /\ b < 1 + g * BlocksPerGroup + Skip)
<1> SUFFICES ASSUME b >= 1 + g * BlocksPerGroup, b < 1 + g * BlocksPerGroup + Skip
             PROVE  FALSE
  OBVIOUS
<1>1. b \in Nat /\ (b - 1) % BlocksPerGroup >= Skip
  BY SizesAssumption DEF DataBlocks, Block, Skip
<1> DEFINE c == b - 1 - g * BlocksPerGroup
<1>2. c \in 0 .. BlocksPerGroup - 1 /\ c < Skip /\ b - 1 = g * BlocksPerGroup + c
  BY <1>1, SizesOK
<1> HIDE DEF c
<1>3. (b - 1) % BlocksPerGroup = c
  BY <1>2, ModOf, SizesOK
<1>4. QED
  BY <1>1, <1>2, <1>3, SizesOK

-----------------------------------------------------------------------------
(* The count *)

\* The steps that are not the loop over the groups.
Walking == P4Open \/ P4Entry \/ P4NextBlock \/ P4Return
Behind == P4Compared \/ P4Table \/ P4NextTable \/ P4Decide \/ P4Write \/ P4Done

\* CountInv holds before pass 4.
LEMMA CountInit == P4Init => CountInv
BY DEF P4Init, CountInv, Comparing

\* The walk does not touch block_id.
LEMMA CountWalk == ASSUME CountInv, Walking PROVE CountInv'
BY DEF Walking, P4Open, P4Entry, P4NextBlock, P4Return, CountInv, Comparing

\* The start of the pass does not touch block_id.
LEMMA CountStart == ASSUME CountInv, P4Start PROVE CountInv'
BY DEF P4Start, CountInv, Comparing

\* Past the metadata of group 0.
LEMMA CountWalked == ASSUME CountInv, P4Walked PROVE CountInv'
<1>1. bid = 1 /\ grp = 0 /\ j4 = 0
  BY DEF P4Walked, CountInv
<1>2. bid' = 1 + Skip /\ grp' = 0 /\ j4' = 0 /\ pc' = "p4_compare"
  BY <1>1, SizesOK DEF P4Walked, SkipHead, Skip
<1>3. 0 * BlocksPerGroup <= (Groups - 1) * BlocksPerGroup /\ 0 * BlocksPerGroup = 0
  BY GroupEnd, SizesOK
<1>4. InPlace'
  BY <1>2, <1>3, SizesOK DEF InPlace
<1>5. QED
  BY <1>2, <1>4, SizesOK DEF CountInv

\* One block on, or out of the loop at the last block.
LEMMA CountCompare == ASSUME CountInv, P4Compare PROVE CountInv'
<1>1. /\ pc = "p4_compare" /\ grp \in Nat /\ grp < Groups
      /\ j4 \in Nat /\ j4 + Skip < BlocksPerGroup
      /\ bid = 1 + grp * BlocksPerGroup + Skip + j4
  BY SizesOK DEF CountInv, P4Compare, Comparing, InGroup, InPlace, Skip, Groups
<1>2. bid' = bid + 1 /\ grp' = grp /\ pc' = pc
  BY DEF P4Compare
<1>3. CASE bid + 1 >= BlocksCount
  <2>1. j4' = BlocksPerGroup
    BY <1>3 DEF P4Compare
  <2>2. grp = Groups - 1
    <3>1. SUFFICES ASSUME grp < Groups - 1 PROVE FALSE
      BY <1>1, SizesOK
    <3>2. (grp + 1) * BlocksPerGroup <= (Groups - 1) * BlocksPerGroup
      BY <1>1, <3>1, GroupEnd
    <3>3. (grp + 1) * BlocksPerGroup = grp * BlocksPerGroup + BlocksPerGroup
      BY <1>1, GroupEnd
    <3>4. grp * BlocksPerGroup \in Nat /\ (Groups - 1) * BlocksPerGroup \in Nat
      BY <1>1, SizesOK
    <3>5. QED
      BY <1>1, <1>3, <3>2, <3>3, <3>4, SizesOK
  <2>3. bid \in Nat
    BY DEF CountInv
  <2>4. InPlace'
    BY <1>2, <1>3, <2>1, <2>2 DEF InPlace
  <2>5. QED
    BY <1>1, <1>2, <2>1, <2>3, <2>4, SizesOK DEF CountInv
<1>4. CASE ~(bid + 1 >= BlocksCount)
  <2>1. j4' = j4 + 1
    BY <1>4 DEF P4Compare
  <2>2. bid \in Nat /\ grp * BlocksPerGroup \in Nat
    BY <1>1, SizesOK DEF CountInv
  <2>3. /\ bid' = 1 + grp' * BlocksPerGroup + Skip + j4'
        /\ j4' + Skip <= BlocksPerGroup
        /\ bid' < BlocksCount
    BY <1>1, <1>2, <1>4, <2>1, <2>2, SizesOK
  <2>4. InPlace'
    BY <2>3 DEF InPlace
  <2>5. QED
    BY <1>1, <1>2, <2>1, <2>2, <2>4, SizesOK DEF CountInv
<1>5. QED
  BY <1>3, <1>4

\* Out of group g and past the metadata of the next.
LEMMA NextGroupAt ==
  ASSUME CountInv, P4NextGroup
  PROVE  /\ grp \in Nat /\ grp < Groups /\ grp' = grp + 1 /\ j4' = 0 /\ pc' = "p4_compare"
         /\ grp + 1 < Groups =>
              /\ bid = 1 + (grp + 1) * BlocksPerGroup
              /\ bid' = bid + Skip
              /\ bid' < BlocksCount
         /\ grp + 1 = Groups => bid' = bid /\ bid >= BlocksCount
<1>1. /\ grp \in Nat /\ grp < Groups /\ grp' = grp + 1 /\ j4' = 0 /\ pc' = "p4_compare"
      /\ j4 \in Nat /\ InPlace /\ ~InGroup
  BY DEF CountInv, P4NextGroup, Comparing, Groups
<1>2. ASSUME grp + 1 < Groups
      PROVE  bid = 1 + (grp + 1) * BlocksPerGroup /\ bid' = bid + Skip /\ bid' < BlocksCount
  <2>1. bid = 1 + grp * BlocksPerGroup + Skip + j4 /\ j4 + Skip = BlocksPerGroup
    BY <1>1, <1>2, SizesOK DEF InPlace, InGroup, Skip
  <2>2. (grp + 1) * BlocksPerGroup = grp * BlocksPerGroup + BlocksPerGroup
    BY <1>1, GroupEnd
  <2>3. (grp + 1) * BlocksPerGroup <= (Groups - 1) * BlocksPerGroup
    BY <1>1, <1>2, GroupEnd, SizesOK
  <2>4. grp * BlocksPerGroup \in Nat /\ (Groups - 1) * BlocksPerGroup \in Nat
    BY <1>1, SizesOK
  <2>5. bid = 1 + (grp + 1) * BlocksPerGroup
    BY <1>1, <2>1, <2>2, <2>4, SizesOK
  <2>6. bid' = bid + Skip
    BY <1>2 DEF P4NextGroup, SkipHead, Skip, Groups
  <2>7. QED
    BY <2>2, <2>3, <2>4, <2>5, <2>6, SizesOK
<1>3. ASSUME grp + 1 = Groups
      PROVE  bid' = bid /\ bid >= BlocksCount
  <2>1. bid' = bid
    BY <1>1, <1>3 DEF P4NextGroup, Groups
  <2>2. CASE bid = 1 + grp * BlocksPerGroup + Skip + j4 /\ j4 + Skip = BlocksPerGroup
    <3>1. (grp + 1) * BlocksPerGroup = grp * BlocksPerGroup + BlocksPerGroup
      BY <1>1, GroupEnd
    <3>2. grp * BlocksPerGroup \in Nat
      BY <1>1, SizesOK
    <3>3. bid = 1 + Groups * BlocksPerGroup
      BY <1>1, <1>3, <2>2, <3>1, <3>2, SizesOK
    <3>4. QED
      BY <2>1, <3>3, SizesOK
  <2>3. bid >= BlocksCount \/ (bid = 1 + grp * BlocksPerGroup + Skip + j4 /\ j4 + Skip = BlocksPerGroup)
    BY <1>1, SizesOK DEF InPlace, InGroup, Skip
  <2>4. QED
    BY <2>1, <2>2, <2>3
<1>4. QED
  BY <1>1, <1>2, <1>3

\* From the end of a group block_id goes to the data blocks of the next.
LEMMA CountNextGroup == ASSUME CountInv, P4NextGroup PROVE CountInv'
<1>1. bid \in Nat
  BY DEF CountInv
<1>2. CASE grp + 1 < Groups
  <2>1. bid' = 1 + grp' * BlocksPerGroup + Skip + j4' /\ j4' + Skip <= BlocksPerGroup
    BY <1>2, NextGroupAt, SizesOK
  <2>2. InPlace'
    BY <1>2, <2>1, NextGroupAt DEF InPlace
  <2>3. QED
    BY <1>1, <1>2, <2>2, NextGroupAt, SizesOK DEF CountInv
<1>3. CASE grp + 1 = Groups
  <2>1. ~Comparing'
    BY <1>3, NextGroupAt, SizesOK DEF Comparing, Groups
  <2>2. QED
    BY <1>1, <1>3, <2>1, NextGroupAt, SizesOK DEF CountInv
<1>4. QED
  BY <1>2, <1>3, NextGroupAt, SizesOK

\* Behind the comparison nothing is said of block_id but that it is a number.
LEMMA CountBehind == ASSUME CountInv, Behind PROVE CountInv'
<1>1. get_block_group_num \in Nat
  BY SizesOK DEF Groups
<1>2. CASE P4Table
  <2>1. InodeTable[grp] \in Nat
    <3>1. grp \in Group
      BY <1>1, <1>2 DEF P4Table, CountInv, Group
    <3>2. QED
      BY <3>1, SizesAssumption DEF Block
  <2>2. QED
    BY <1>2, <2>1 DEF P4Table, CountInv, Comparing
<1>3. CASE P4Compared \/ P4NextTable \/ P4Decide \/ P4Write \/ P4Done
  BY <1>3 DEF P4Compared, P4NextTable, P4Decide, P4Write, P4Done, CountInv, Comparing
<1>4. QED
  BY <1>2, <1>3 DEF Behind

\* Every step of pass 4 keeps CountInv.
LEMMA CountStep == CountInv /\ [P4Next]_p4vars => CountInv'
<1> SUFFICES ASSUME CountInv, [P4Next]_p4vars PROVE CountInv'
  OBVIOUS
<1>1. CASE P4Start
  BY <1>1, CountStart
<1>2. CASE Walking
  BY <1>2, CountWalk
<1>3. CASE P4Walked
  BY <1>3, CountWalked
<1>4. CASE P4Compare
  BY <1>4, CountCompare
<1>5. CASE P4NextGroup
  BY <1>5, CountNextGroup
<1>6. CASE Behind
  BY <1>6, CountBehind
<1>7. CASE UNCHANGED p4vars
  BY <1>7 DEF p4vars, CountInv, Comparing, InPlace, InGroup
<1>8. QED
  BY <1>1, <1>2, <1>3, <1>4, <1>5, <1>6, <1>7 DEF P4Next, Walking, Behind

\* Where block_id is whenever a block is compared.
LEMMA CountPlace == CountInv => P4LoopAt
<1> SUFFICES ASSUME CountInv, Comparing, InGroup
             PROVE  /\ bid = 1 + grp * BlocksPerGroup + Skip + j4
                    /\ bid \in DataBlocks
  BY DEF P4LoopAt, Skip
<1>1. /\ grp \in Nat /\ j4 \in Nat /\ Skip + j4 < BlocksPerGroup
      /\ bid = 1 + grp * BlocksPerGroup + Skip + j4
      /\ bid < BlocksCount
  BY SizesOK DEF CountInv, InPlace, InGroup, Skip
<1>2. QED
  BY <1>1, DataAt

\* block_id of pass4 is where the loops over the groups and their blocks are,
\* and never on the metadata of a group or behind the last block.
THEOREM Pass4LoopAt == P4Spec => []P4LoopAt
<1>1. QED
  BY CountInit, CountStep, CountPlace, PTL DEF P4Spec

-----------------------------------------------------------------------------
(* The comparison *)

\* Until the comparison is over, both copies of the bitmap are bitmaps.
BitsInv ==
  pc \in {"pass4", "p4_walk", "p4_compare"} =>
    /\ bm \in Bitmap(Groups * BlockBits)
    /\ bbitmap \in Bitmap(Groups * BlockBits)

ComparedInv == CountInv /\ BitsInv /\ P4Compared_OK

\* Every block has a bit.
LEMMA BitOf ==
  ASSUME NEW b \in Block \ {0}
  PROVE  b - 1 \in 0 .. Groups * BlockBits - 1
<1>1. b \in Nat \ {0} /\ b < BlocksCount
  BY SizesAssumption DEF Block
<1>2. Groups * BlockBits >= Groups * BlocksPerGroup
  <2>1. Groups * BlockBits = Groups * BlocksPerGroup + Groups * (BlockBits - BlocksPerGroup)
    BY SizesOK
  <2>2. Groups * (BlockBits - BlocksPerGroup) >= 0
    BY SizesOK
  <2>3. QED
    BY <2>1, <2>2, SizesOK
<1>3. Groups * BlockBits \in Nat /\ Groups * BlocksPerGroup \in Nat
  BY SizesOK
<1>4. QED
  BY <1>1, <1>2, <1>3, SizesOK

\* Nothing has been compared before pass 4.
LEMMA ComparedInit == P4Init => ComparedInv
<1> SUFFICES ASSUME P4Init PROVE ComparedInv
  OBVIOUS
<1>1. CountInv
  BY CountInit
<1>2. bm = bbitmap /\ pc = "pass4"
  BY DEF P4Init
<1>3. bbitmap \in Bitmap(Groups * BlockBits)
  BY ImagesAssumption DEF P4Init, ImageInit, IsImage, Groups
<1>4. QED
  BY <1>1, <1>2, <1>3 DEF ComparedInv, BitsInv, P4Compared_OK

\* The first data block is the first that is compared.
LEMMA ComparedWalked == ASSUME ComparedInv, P4Walked PROVE P4Compared_OK'
<1>1. bid' = 1 + Skip /\ grp' = 0
  BY SizesOK DEF ComparedInv, CountInv, P4Walked, SkipHead, Skip
<1>2. ASSUME NEW b \in DataBlocks PROVE ~(b < 1 + Skip)
  <2>1. b \in Nat /\ b >= 1
    BY SizesAssumption DEF DataBlocks, Block
  <2>2. ~(b >= 1 + 0 * BlocksPerGroup /\ b < 1 + 0 * BlocksPerGroup + Skip)
    BY NoDataAt
  <2>3. 0 * BlocksPerGroup = 0
    BY SizesOK
  <2>4. QED
    BY <2>1, <2>2, <2>3, SizesOK
<1>3. DataBlocks' = DataBlocks
  BY DEF DataBlocks
<1>4. QED
  BY <1>1, <1>2, <1>3, SizesOK DEF P4Compared_OK, Groups

\* The block compared is right, and those before it stay so.
LEMMA ComparedCompare ==
  ASSUME ComparedInv, P4Compare
  PROVE  BitsInv' /\ P4Compared_OK'
<1>1. /\ pc = "p4_compare" /\ pc' = pc /\ bid' = bid + 1 /\ grp' = grp /\ tb' = tb
      /\ bbitmap' = bbitmap /\ grp < Groups
  BY DEF P4Compare, Comparing, disk, Groups
<1>2. bid \in Block \ {0} /\ bid \in Nat
  <2>1. P4LoopAt
    BY CountPlace DEF ComparedInv
  <2>2. bid \in DataBlocks
    BY <2>1 DEF P4LoopAt, P4Compare
  <2>3. QED
    BY <2>2, SizesAssumption DEF DataBlocks, Block
<1>3. bm \in Bitmap(Groups * BlockBits) /\ bbitmap \in Bitmap(Groups * BlockBits)
  BY <1>1 DEF ComparedInv, BitsInv
<1>4. bid - 1 \in 0 .. Groups * BlockBits - 1
  BY <1>2, BitOf
<1>5. bm[bid - 1] \in 0 .. 1
  BY <1>3, <1>4 DEF Bitmap
<1>6. /\ bm' \in Bitmap(Groups * BlockBits)
      /\ get_block_alloc_bit(bm', bid) = IF bid \in tb THEN 1 ELSE 0
      /\ \A i \in 0 .. Groups * BlockBits - 1 : i # bid - 1 => bm'[i] = bm[i]
  <2>1. CASE get_block_alloc_bit(bm, bid) = IF bid \in tb THEN 1 ELSE 0
    <3>1. bm' = bm
      BY <2>1 DEF P4Compare
    <3>2. QED
      BY <2>1, <3>1, <1>3
  <2>2. CASE get_block_alloc_bit(bm, bid) # IF bid \in tb THEN 1 ELSE 0
    <3>1. bm' = [bm EXCEPT ![bid - 1] = 1 - @]
      BY <2>2 DEF P4Compare, Flip
    <3>2. 1 - bm[bid - 1] \in 0 .. 1
      BY <1>5
    <3>3. bm' \in Bitmap(Groups * BlockBits) /\ bm'[bid - 1] = 1 - bm[bid - 1]
      BY <3>1, <3>2, <1>3, <1>4 DEF Bitmap
    <3>4. \A i \in 0 .. Groups * BlockBits - 1 : i # bid - 1 => bm'[i] = bm[i]
      BY <3>1, <1>3 DEF Bitmap
    <3>5. QED
      BY <2>2, <3>3, <3>4, <1>5 DEF get_block_alloc_bit
  <2>3. QED
    BY <2>1, <2>2
<1>7. ASSUME NEW b \in DataBlocks, b < bid + 1
      PROVE  get_block_alloc_bit(bm', b) = IF b \in tb THEN 1 ELSE 0
  <2>1. b \in Block \ {0} /\ b \in Nat
    BY SizesAssumption DEF DataBlocks, Block
  <2>2. CASE b = bid
    BY <2>2, <1>6
  <2>3. CASE b < bid
    <3>1. b - 1 \in 0 .. Groups * BlockBits - 1 /\ b - 1 # bid - 1
      BY <2>1, <2>3, <1>2, BitOf
    <3>2. bm'[b - 1] = bm[b - 1]
      BY <3>1, <1>6
    <3>3. QED
      BY <3>2, <2>3, <1>1 DEF ComparedInv, P4Compared_OK, get_block_alloc_bit
  <2>4. QED
    BY <2>1, <2>2, <2>3, <1>2, <1>7
<1>8. DataBlocks' = DataBlocks
  BY DEF DataBlocks
<1>9. P4Compared_OK'
  BY <1>1, <1>7, <1>8, SizesOK DEF P4Compared_OK, ComparedInv, CountInv, Groups, get_block_alloc_bit
<1>10. QED
  BY <1>1, <1>3, <1>6, <1>9 DEF BitsInv

\* Only metadata are skipped on the way to the next group.
LEMMA ComparedNextGroup == ASSUME ComparedInv, P4NextGroup PROVE P4Compared_OK'
<1>1. /\ pc = "p4_compare" /\ bm' = bm /\ tb' = tb /\ CountInv /\ bid \in Nat
      /\ \A b \in DataBlocks :
           b < bid => get_block_alloc_bit(bm, b) = IF b \in tb THEN 1 ELSE 0
  BY DEF P4NextGroup, Comparing, ComparedInv, P4Compared_OK, CountInv
<1>2. ASSUME NEW b \in DataBlocks, b < bid' PROVE b < bid
  <2>1. b \in Nat
    BY SizesAssumption DEF DataBlocks, Block
  <2>2. CASE grp + 1 = Groups
    BY <1>1, <1>2, <2>2, NextGroupAt
  <2>3. CASE grp + 1 < Groups
    <3>1. bid = 1 + (grp + 1) * BlocksPerGroup /\ bid' = bid + Skip /\ grp + 1 \in Nat
      BY <1>1, <2>3, NextGroupAt
    <3>2. ~(b >= bid /\ b < bid + Skip)
      BY <3>1, NoDataAt
    <3>3. QED
      BY <1>1, <1>2, <2>1, <3>1, <3>2
  <2>4. QED
    BY <1>1, <2>2, <2>3, NextGroupAt, SizesOK
<1>3. grp' = Groups => bid' >= BlocksCount
  BY <1>1, NextGroupAt, SizesOK
<1>4. DataBlocks' = DataBlocks
  BY DEF DataBlocks
<1>5. QED
  BY <1>1, <1>2, <1>3, <1>4 DEF P4Compared_OK, Groups, get_block_alloc_bit

\* Steps that leave the bitmaps alone or come after the comparison.
LEMMA ComparedStep == ComparedInv /\ [P4Next]_p4vars => ComparedInv'
<1> SUFFICES ASSUME ComparedInv, [P4Next]_p4vars PROVE ComparedInv'
  OBVIOUS
<1>1. CountInv'
  BY CountStep DEF ComparedInv
<1>2. BitsInv' /\ P4Compared_OK'
  <2>1. CASE P4Start
    BY <2>1 DEF P4Start, ComparedInv, BitsInv, P4Compared_OK, disk
  <2>2. CASE Walking
    BY <2>2 DEF Walking, P4Open, P4Entry, P4NextBlock, P4Return, disk,
                ComparedInv, BitsInv, P4Compared_OK
  <2>3. CASE P4Walked
    <3>1. BitsInv'
      BY <2>3 DEF P4Walked, ComparedInv, BitsInv, disk
    <3>2. QED
      BY <2>3, <3>1, ComparedWalked
  <2>4. CASE P4Compare
    BY <2>4, ComparedCompare
  <2>5. CASE P4NextGroup
    <3>1. BitsInv'
      BY <2>5 DEF P4NextGroup, Comparing, ComparedInv, BitsInv, disk
    <3>2. QED
      BY <2>5, <3>1, ComparedNextGroup
  <2>6. CASE Behind
    <3>1. pc' \notin {"pass4", "p4_walk", "p4_compare"}
      BY <2>6 DEF Behind, P4Compared, P4Table, P4NextTable, P4Decide, P4Write, P4Done
    <3>2. QED
      BY <3>1 DEF BitsInv, P4Compared_OK
  <2>7. CASE UNCHANGED p4vars
    BY <2>7 DEF p4vars, disk, ComparedInv, BitsInv, P4Compared_OK, DataBlocks, get_block_alloc_bit
  <2>8. QED
    BY <2>1, <2>2, <2>3, <2>4, <2>5, <2>6, <2>7 DEF P4Next, Walking, Behind
<1>3. QED
  BY <1>1, <1>2 DEF ComparedInv

\* Once the loop of pass4 is past a data block, the bitmap in memory says of it
\* what the walk found; when the groups are done it is past all of them.
THEOREM Pass4ComparedOK == P4Spec => []P4Compared_OK
<1>1. ComparedInv => P4Compared_OK
  BY DEF ComparedInv
<1>2. QED
  BY ComparedInit, ComparedStep, <1>1, PTL DEF P4Spec

-----------------------------------------------------------------------------
(* The blocks of a file: what get_file_block_bitmap marks is what the file *)
(* owns by the layout of ext2.                                             *)

\* Below a hole the boot block is read, and it has holes only.
LEMMA PointerInIs ==
  ASSUME BootBlockEmpty, NEW b, NEW i \in 1 .. PerBlock
  PROVE  PointerIn(b, i) = PointersIn[b][i]
BY DEF BootBlockEmpty, PointerIn

\* A loop that is left in time has the rounds the size calls for.
LEMMA RoundsIs ==
  ASSUME NEW k \in Nat, NEW size \in Nat, NEW all \in Nat, size > k, size <= k + all
  PROVE  Rounds(k, size, all) = size - k
BY DEF Rounds

\* A file with direct pointers only: the walk marks what the layout says.
LEMMA OwnsDirect ==
  ASSUME NEW n, inodes[n].size \in Nat, inodes[n].size <= NDirect
  PROVE  UNION {PathTo(n, k) : k \in 0 .. inodes[n].size - 1} = get_file_block_bitmap(n)
<1> DEFINE size == inodes[n].size
           blks == inodes[n].blks
<1>1. NDirect \in Nat /\ size \in Nat /\ size <= NDirect
  BY FileAssumption
<1>2. get_file_block_bitmap(n) = {blks[i] : i \in 1 .. size}
  BY <1>1 DEF get_file_block_bitmap, Direct
<1>3. ASSUME NEW k \in 0 .. size - 1 PROVE PathTo(n, k) = {blks[k + 1]}
  BY <1>1, <1>3 DEF PathTo
<1> HIDE DEF size, blks
<1>4. \A i \in 1 .. size : i - 1 \in 0 .. size - 1 /\ (i - 1) + 1 = i
  BY <1>1
<1>5. \A k \in 0 .. size - 1 : k + 1 \in 1 .. size
  BY <1>1
<1>6. UNION {PathTo(n, k) : k \in 0 .. size - 1} = {blks[i] : i \in 1 .. size}
  <2>1. ASSUME NEW k \in 0 .. size - 1, NEW b \in PathTo(n, k)
        PROVE  b \in {blks[i] : i \in 1 .. size}
    BY <1>3, <1>5
  <2>2. ASSUME NEW i \in 1 .. size
        PROVE  blks[i] \in UNION {PathTo(n, k) : k \in 0 .. size - 1}
    <3> DEFINE k == i - 1
    <3>1. k \in 0 .. size - 1 /\ k + 1 = i
      BY <1>4
    <3> HIDE DEF k
    <3>2. blks[i] \in PathTo(n, k)
      BY <1>3, <3>1
    <3>3. QED
      BY <3>1, <3>2
  <2>3. QED
    BY <2>1, <2>2
<1>7. QED
  BY <1>2, <1>6 DEF size

\* The blocks in the direct pointers of a file that has more of them.
LEMMA OwnsFirst ==
  ASSUME NEW n, NEW k \in Nat
  PROVE  /\ k < NDirect => PathTo(n, k) = {inodes[n].blks[k + 1]}
         /\ k >= NDirect /\ k < NDirect + PerBlock =>
              PathTo(n, k) = {Indirect(n), PointerIn(Indirect(n), k - NDirect + 1)}
         /\ k >= NDirect + PerBlock =>
              LET j == k - NDirect - PerBlock
                  second == PointerIn(DoubleIndirect(n), (j \div PerBlock) + 1)
              IN  PathTo(n, k) = {DoubleIndirect(n), second,
                                  PointerIn(second, (j % PerBlock) + 1)}
BY FileAssumption DEF PathTo

\* The same of a file with an indirect block.
LEMMA OwnsIndirect ==
  ASSUME BootBlockEmpty, NEW n, inodes[n].size \in Nat, inodes[n].size > NDirect,
         IndirectMax = NDirect + PerBlock, inodes[n].size <= IndirectMax
  PROVE  UNION {PathTo(n, k) : k \in 0 .. inodes[n].size - 1} = get_file_block_bitmap(n)
<1> DEFINE size == inodes[n].size
           blks == inodes[n].blks
           P == UNION {PathTo(n, k) : k \in 0 .. size - 1}
<1>1. NDirect \in Nat /\ PerBlock \in Nat \ {0} /\ size \in Nat /\ size > NDirect
      /\ size <= NDirect + PerBlock
  BY FileAssumption
<1>2. get_file_block_bitmap(n) = get_file_indirect_block_bitmap(n)
  BY <1>1 DEF get_file_block_bitmap
<1>3. Rounds(NDirect, size, PerBlock) = size - NDirect
  <2> HIDE DEF size
  <2>1. QED
    BY <1>1, RoundsIs
<1>4. get_file_indirect_block_bitmap(n) =
        {blks[i] : i \in 1 .. NDirect} \cup {Indirect(n)}
          \cup {PointersIn[Indirect(n)][i] : i \in 1 .. size - NDirect}
  BY <1>3 DEF get_file_indirect_block_bitmap, Direct
<1> HIDE DEF size, blks
<1>5. \A k \in 0 .. size - 1 : k \in Nat /\ (k < NDirect \/ (k >= NDirect /\ k < NDirect + PerBlock))
  BY <1>1
<1>6. \A i \in 1 .. size - NDirect : i \in 1 .. PerBlock
  BY <1>1
<1>7. ASSUME NEW k \in 0 .. size - 1, NEW b \in PathTo(n, k)
      PROVE  b \in get_file_block_bitmap(n)
  <2>1. CASE k < NDirect
    <3>1. b = blks[k + 1] /\ k + 1 \in 1 .. NDirect
      BY <1>1, <1>5, <1>7, <2>1, OwnsFirst DEF blks
    <3>2. QED
      BY <1>2, <1>4, <3>1
  <2>2. CASE k >= NDirect /\ k < NDirect + PerBlock
    <3> DEFINE i == k - NDirect + 1
    <3>1. b \in {Indirect(n), PointerIn(Indirect(n), i)}
      BY <1>5, <1>7, <2>2, OwnsFirst
    <3>2. i \in 1 .. size - NDirect
      BY <1>1, <2>2
    <3> HIDE DEF i
    <3>3. PointerIn(Indirect(n), i) = PointersIn[Indirect(n)][i]
      BY <1>6, <3>2, PointerInIs
    <3>4. QED
      BY <1>2, <1>4, <3>1, <3>2, <3>3
  <2>3. QED
    BY <1>5, <2>1, <2>2
<1>8. {blks[i] : i \in 1 .. NDirect} \subseteq P
  <2>1. ASSUME NEW i \in 1 .. NDirect PROVE blks[i] \in P
    <3> DEFINE k == i - 1
    <3>1. k \in 0 .. size - 1 /\ k + 1 = i /\ k \in Nat /\ k < NDirect
      BY <1>1
    <3> HIDE DEF k
    <3>2. blks[i] \in PathTo(n, k)
      BY <3>1, OwnsFirst DEF blks
    <3>3. QED
      BY <3>1, <3>2
  <2>2. QED
    BY <2>1
<1>9. ASSUME NEW i \in 1 .. size - NDirect
      PROVE  Indirect(n) \in P /\ PointersIn[Indirect(n)][i] \in P
  <2> DEFINE k == NDirect + i - 1
  <2>1. k \in 0 .. size - 1 /\ k - NDirect + 1 = i /\ k \in Nat
        /\ k >= NDirect /\ k < NDirect + PerBlock
    BY <1>1
  <2> HIDE DEF k
  <2>2. PathTo(n, k) = {Indirect(n), PointerIn(Indirect(n), i)}
    BY <2>1, OwnsFirst
  <2>3. PointerIn(Indirect(n), i) = PointersIn[Indirect(n)][i]
    BY <1>6, PointerInIs
  <2>4. QED
    BY <2>1, <2>2, <2>3
<1>10. 1 \in 1 .. size - NDirect
  BY <1>1
<1>11. P = get_file_block_bitmap(n)
  BY <1>2, <1>4, <1>7, <1>8, <1>9, <1>10
<1>12. QED
  BY <1>11 DEF size

\* The same of a file with a double indirect block.
LEMMA OwnsDouble ==
  ASSUME BootBlockEmpty, PointersFit, NEW n, inodes[n].size \in Nat,
         inodes[n].size > IndirectMax, inodes[n].size <= DoubleIndirectMax
  PROVE  UNION {PathTo(n, k) : k \in 0 .. inodes[n].size - 1} = get_file_block_bitmap(n)
<1> DEFINE size == inodes[n].size
           blks == inodes[n].blks
           P == UNION {PathTo(n, k) : k \in 0 .. size - 1}
           first == NDirect + PerBlock
           sq == PerBlock * PerBlock
           last == size - first
           D == DoubleIndirect(n)
           lev1(m) == PointersIn[D][(m \div PerBlock) + 1]
           lev2(m) == PointersIn[lev1(m)][(m % PerBlock) + 1]
<1>1. /\ NDirect \in Nat /\ PerBlock \in Nat \ {0} /\ size \in Nat /\ first \in Nat
      /\ sq \in Nat
      /\ size > first /\ size <= first + sq /\ IndirectMax = first
      /\ size > NDirect /\ size <= DoubleIndirectMax /\ DoubleIndirectMax \in Nat
  BY FileAssumption DEF PointersFit
<1>2. get_file_block_bitmap(n) = get_file_double_indirect_block_bitmap(n)
  BY <1>1, FileAssumption DEF get_file_block_bitmap
<1>3. Rounds(first, size, sq) = last
  <2> HIDE DEF size, first, sq
  <2>1. QED
    BY <1>1, RoundsIs
<1>4. get_file_double_indirect_block_bitmap(n) =
        {blks[i] : i \in 1 .. NDirect} \cup {Indirect(n), D}
          \cup {PointersIn[Indirect(n)][i] : i \in 1 .. PerBlock}
          \cup UNION {{lev1(m), lev2(m)} : m \in 0 .. last - 1}
  <2>1. get_file_double_indirect_block_bitmap(n) =
          {blks[i] : i \in 1 .. NDirect} \cup {Indirect(n), D}
            \cup {PointersIn[Indirect(n)][i] : i \in 1 .. PerBlock}
            \cup UNION {{lev1(m), lev2(m)} : m \in 0 .. Rounds(first, size, sq) - 1}
    BY DEF get_file_double_indirect_block_bitmap, Direct
  <2> HIDE DEF last
  <2>2. QED
    BY <1>3, <2>1
<1>5. ASSUME NEW m \in 0 .. last - 1
      PROVE  PathTo(n, first + m) = {D, lev1(m), lev2(m)}
  <2>1. m \in 0 .. PerBlock * PerBlock - 1
    BY <1>1
  <2>2. (m \div PerBlock) + 1 \in 1 .. PerBlock /\ (m % PerBlock) + 1 \in 1 .. PerBlock
    BY <2>1, PlaceInDouble
  <2>3. /\ PointerIn(D, (m \div PerBlock) + 1) = lev1(m)
        /\ PointerIn(lev1(m), (m % PerBlock) + 1) = lev2(m)
    BY <2>2, PointerInIs
  <2> DEFINE k == first + m
  <2>4. k \in Nat /\ k >= NDirect + PerBlock /\ k - NDirect - PerBlock = m
    BY <1>1
  <2> HIDE DEF k, lev1, lev2, D
  <2>5. QED
    BY <2>3, <2>4, OwnsFirst DEF D, k
<1> HIDE DEF size, blks, first, sq, lev1, lev2, D
<1>6. last \in Nat \ {0} /\ first = NDirect + PerBlock
  BY <1>1 DEF first
<1> HIDE DEF last
<1>7. \A k \in 0 .. size - 1 :
        /\ k \in Nat
        /\ k < NDirect \/ (k >= NDirect /\ k < NDirect + PerBlock)
             \/ (k - first \in 0 .. last - 1 /\ first + (k - first) = k)
  BY <1>1, <1>6 DEF last
<1>8. ASSUME NEW k \in 0 .. size - 1, NEW b \in PathTo(n, k)
      PROVE  b \in get_file_block_bitmap(n)
  <2>1. CASE k < NDirect
    <3>1. b = blks[k + 1] /\ k + 1 \in 1 .. NDirect
      BY <1>1, <1>7, <1>8, <2>1, OwnsFirst DEF blks
    <3>2. QED
      BY <1>2, <1>4, <3>1
  <2>2. CASE k >= NDirect /\ k < NDirect + PerBlock
    <3> DEFINE i == k - NDirect + 1
    <3>1. b \in {Indirect(n), PointerIn(Indirect(n), i)}
      BY <1>7, <1>8, <2>2, OwnsFirst
    <3>2. i \in 1 .. PerBlock
      BY <1>1, <2>2
    <3> HIDE DEF i
    <3>3. PointerIn(Indirect(n), i) = PointersIn[Indirect(n)][i]
      BY <3>2, PointerInIs
    <3>4. QED
      BY <1>2, <1>4, <3>1, <3>2, <3>3
  <2>3. CASE k - first \in 0 .. last - 1 /\ first + (k - first) = k
    <3> DEFINE m == k - first
    <3>1. m \in 0 .. last - 1 /\ first + m = k
      BY <2>3
    <3> HIDE DEF m
    <3>2. b \in {D, lev1(m), lev2(m)}
      BY <1>5, <1>8, <3>1
    <3>3. QED
      BY <1>2, <1>4, <3>1, <3>2
  <2>4. QED
    BY <1>7, <2>1, <2>2, <2>3
<1>9. {blks[i] : i \in 1 .. NDirect} \subseteq P
  <2>1. ASSUME NEW i \in 1 .. NDirect PROVE blks[i] \in P
    <3> DEFINE k == i - 1
    <3>1. k \in 0 .. size - 1 /\ k + 1 = i /\ k \in Nat /\ k < NDirect
      BY <1>1, <1>6
    <3> HIDE DEF k
    <3>2. blks[i] \in PathTo(n, k)
      BY <3>1, OwnsFirst DEF blks
    <3>3. QED
      BY <3>1, <3>2
  <2>2. QED
    BY <2>1
<1>10. ASSUME NEW i \in 1 .. PerBlock
       PROVE  Indirect(n) \in P /\ PointersIn[Indirect(n)][i] \in P
  <2> DEFINE k == NDirect + i - 1
  <2>1. k \in 0 .. size - 1 /\ k - NDirect + 1 = i /\ k \in Nat
        /\ k >= NDirect /\ k < NDirect + PerBlock
    BY <1>1, <1>6
  <2> HIDE DEF k
  <2>2. PathTo(n, k) = {Indirect(n), PointerIn(Indirect(n), i)}
    BY <2>1, OwnsFirst
  <2>3. PointerIn(Indirect(n), i) = PointersIn[Indirect(n)][i]
    BY PointerInIs
  <2>4. QED
    BY <2>1, <2>2, <2>3
<1>11. ASSUME NEW m \in 0 .. last - 1
       PROVE  D \in P /\ lev1(m) \in P /\ lev2(m) \in P
  <2> DEFINE k == first + m
  <2>1. k \in 0 .. size - 1
    BY <1>1, <1>6 DEF last
  <2>2. PathTo(n, k) = {D, lev1(m), lev2(m)}
    BY <1>5
  <2> HIDE DEF k
  <2>3. QED
    BY <2>1, <2>2
<1>12. 1 \in 1 .. PerBlock /\ 0 \in 0 .. last - 1
  BY <1>1, <1>6
<1>13. P = get_file_block_bitmap(n)
  <2>1. P \subseteq get_file_block_bitmap(n)
    BY <1>8
  <2> HIDE DEF P
  <2>2. get_file_block_bitmap(n) \subseteq P
    BY <1>2, <1>4, <1>9, <1>10, <1>11, <1>12
  <2>3. QED
    BY <2>1, <2>2
<1>14. QED
  BY <1>13 DEF size

\* What is marked of a file are its blocks, but for block 0.
LEMMA OwnsIs ==
  ASSUME BootBlockEmpty, PointersFit, NEW n, inodes[n].size \in Nat,
         inodes[n].size <= DoubleIndirectMax
  PROVE  get_file_block_bitmap(n) \ {0} = FileOwns(n)
<1>1. NDirect \in Nat /\ IndirectMax \in Nat
  BY FileAssumption
<1>2. inodes[n].size <= NDirect \/ (inodes[n].size > NDirect /\ inodes[n].size <= IndirectMax)
        \/ inodes[n].size > IndirectMax
  BY <1>1
<1>3. UNION {PathTo(n, k) : k \in 0 .. inodes[n].size - 1} = get_file_block_bitmap(n)
  <2>1. IndirectMax = NDirect + PerBlock
    BY DEF PointersFit
  <2>2. CASE inodes[n].size <= NDirect
    BY <2>2, OwnsDirect
  <2>3. CASE inodes[n].size > NDirect /\ inodes[n].size <= IndirectMax
    BY <2>1, <2>3, OwnsIndirect
  <2>4. CASE inodes[n].size > IndirectMax
    BY <2>4, OwnsDouble
  <2>5. QED
    BY <1>2, <2>2, <2>3, <2>4
<1>4. QED
  BY <1>3 DEF FileOwns

-----------------------------------------------------------------------------
(* What the walk has found, on a partition that TreeSound holds of.        *)

\* A call that has opened block k of its directory.
Opens(f, k) == k < f.blk \/ (k = f.blk /\ f.pos > 0)

\* The blocks of the directories entered, but for those calls have yet to open.
Marked(E, F) ==
  {b \in Block : \E d \in E : \E k \in DOMAIN inodes[d].blks :
     b = inodes[d].blks[k] /\ \A f \in F : f.dir = d => Opens(f, k)}

\* The blocks of the files that entries name.
FilesOf(S) ==
  {b \in Block : \E x \in S :
     IsName(x) /\ inodes[Named(x)].mode = "reg" /\ b \in get_file_block_bitmap(Named(x))}

Found(s, S, E) ==
  /\ Stack(s) /\ Walked(S, E, FramesOf(s))
  /\ tb = Marked(E, FramesOf(s)) \cup FilesOf(S)

\* The last call may be one for a pipe or the like: it has no block to open.
FoundOK ==
  \E s, S, E :
    /\ Found(s, S, E)
    /\ stack4 = s \/ \E n \in Inode : inodes[n].blks = <<>> /\ stack4 = Append(s, Call4(n))

\* The blocks of a directory of the tree.
LEMMA DirBlocks ==
  ASSUME DiskTypeOK, NEW d \in TreeDirs
  PROVE  /\ d \in Inode /\ IsDir(d) /\ inodes[d].blks \in Seq(Block)
         /\ Len(inodes[d].blks) \in Nat /\ DOMAIN inodes[d].blks = 1 .. Len(inodes[d].blks)
         /\ \A k \in DOMAIN inodes[d].blks : inodes[d].blks[k] \in Block
<1>1. d \in Inode /\ IsDir(d)
  BY TreeClosed DEF DirInodes
<1>2. inodes[d].blks \in Seq(Block)
  BY <1>1 DEF DiskTypeOK, IsImage, IsDir
<1>3. QED
  BY <1>1, <1>2, LenProperties, ElementOfSeq

\* A call that is further, but has opened no block more.
LEMMA MarkedSame ==
  ASSUME DiskTypeOK, NEW S, NEW E, NEW F, Walked(S, E, F), NEW f \in F, NEW g,
         g.dir = f.dir, \A k \in Nat : Opens(g, k) <=> Opens(f, k)
  PROVE  Marked(E, (F \ {f}) \cup {g}) = Marked(E, F)
<1>1. \A d \in E : \A k \in DOMAIN inodes[d].blks : k \in Nat
  BY DirBlocks DEF Walked, WalkedOver
<1>2. ASSUME NEW d \in E, NEW k \in DOMAIN inodes[d].blks
      PROVE  (\A h \in F : h.dir = d => Opens(h, k)) <=>
             (\A h \in (F \ {f}) \cup {g} : h.dir = d => Opens(h, k))
  BY <1>1
<1>3. QED
  BY <1>2 DEF Marked

\* A block opened.
LEMMA MarkedOpen ==
  ASSUME DiskTypeOK, NEW S, NEW E, NEW F, Walked(S, E, F), NEW f \in F, f.pos = 0, OnBlock(f)
  PROVE  Marked(E, (F \ {f}) \cup {[f EXCEPT !.pos = 1]})
           = Marked(E, F) \cup {inodes[f.dir].blks[f.blk]}
<1> DEFINE g == [f EXCEPT !.pos = 1]
           G == (F \ {f}) \cup {g}
<1>1. f \in WFrame /\ f.dir \in E /\ E \subseteq TreeDirs
      /\ \A h \in F : h.dir = f.dir => h = f
  BY TreeOver DEF Walked, WalkedOver
<1>2. g.dir = f.dir /\ g.blk = f.blk /\ g.pos = 1 /\ f.blk \in Nat
  BY <1>1 DEF WFrame
<1> HIDE DEF g
<1>3. \A d \in E : \A k \in DOMAIN inodes[d].blks : k \in Nat /\ inodes[d].blks[k] \in Block
  BY <1>1, DirBlocks
<1>4. \A k \in Nat : (Opens(g, k) <=> k <= f.blk) /\ (Opens(f, k) <=> k < f.blk)
  BY <1>2 DEF Opens
<1>5. ASSUME NEW d \in E, d # f.dir, NEW k
      PROVE  (\A h \in F : h.dir = d => Opens(h, k)) <=> (\A h \in G : h.dir = d => Opens(h, k))
  BY <1>2, <1>5
<1>6. ASSUME NEW k
      PROVE  /\ (\A h \in F : h.dir = f.dir => Opens(h, k)) <=> Opens(f, k)
             /\ (\A h \in G : h.dir = f.dir => Opens(h, k)) <=> Opens(g, k)
  BY <1>1, <1>2
<1> HIDE DEF G
<1>7. ASSUME NEW b \in Marked(E, G) PROVE b \in Marked(E, F) \cup {inodes[f.dir].blks[f.blk]}
  <2>1. PICK d \in E : \E k \in DOMAIN inodes[d].blks :
          b = inodes[d].blks[k] /\ \A h \in G : h.dir = d => Opens(h, k)
    BY <1>7 DEF Marked
  <2>2. PICK k \in DOMAIN inodes[d].blks :
          b = inodes[d].blks[k] /\ \A h \in G : h.dir = d => Opens(h, k)
    BY <2>1
  <2>3. CASE d # f.dir
    BY <1>5, <2>2, <2>3, <1>7 DEF Marked
  <2>4. CASE d = f.dir
    <3>1. k \in Nat /\ k <= f.blk
      BY <1>3, <1>4, <1>6, <2>2, <2>4
    <3>2. k = f.blk \/ Opens(f, k)
      BY <1>2, <1>4, <3>1
    <3>3. Opens(f, k) => b \in Marked(E, F)
      BY <1>6, <2>2, <2>4, <1>7 DEF Marked
    <3>4. QED
      BY <2>2, <2>4, <3>2, <3>3
  <2>5. QED
    BY <2>3, <2>4
<1>8. ASSUME NEW b \in Marked(E, F) PROVE b \in Marked(E, G)
  <2>1. PICK d \in E : \E k \in DOMAIN inodes[d].blks :
          b = inodes[d].blks[k] /\ \A h \in F : h.dir = d => Opens(h, k)
    BY <1>8 DEF Marked
  <2>2. PICK k \in DOMAIN inodes[d].blks :
          b = inodes[d].blks[k] /\ \A h \in F : h.dir = d => Opens(h, k)
    BY <2>1
  <2>3. CASE d # f.dir
    BY <1>5, <2>2, <2>3, <1>8 DEF Marked
  <2>4. CASE d = f.dir
    <3>1. k \in Nat /\ k < f.blk
      BY <1>3, <1>4, <1>6, <2>2, <2>4
    <3>2. Opens(g, k)
      BY <1>2, <1>4, <3>1
    <3>3. QED
      BY <1>6, <2>2, <2>4, <3>2, <1>8 DEF Marked
  <2>5. QED
    BY <2>3, <2>4
<1>9. inodes[f.dir].blks[f.blk] \in Marked(E, G)
  <2>1. f.blk \in DOMAIN inodes[f.dir].blks /\ inodes[f.dir].blks[f.blk] \in Block
    BY <1>1, <1>3 DEF OnBlock
  <2>2. Opens(g, f.blk)
    BY <1>2, <1>4
  <2>3. QED
    BY <1>1, <1>6, <2>1, <2>2 DEF Marked
<1>10. QED
  BY <1>7, <1>8, <1>9 DEF G, g

\* A directory entered, none of its blocks opened.
LEMMA MarkedInto ==
  ASSUME DiskTypeOK, NEW S, NEW E, NEW F, Walked(S, E, F), NEW f \in F, f.pos > 0,
         NEW n, n \in DirInodes, n \notin E, NEW g, g = [f EXCEPT !.pos = @ + 1]
  PROVE  Marked(E \cup {n}, (F \ {f}) \cup {g, Call4(n)}) = Marked(E, F)
<1> DEFINE c == Call4(n)
           G == (F \ {f}) \cup {g, c}
<1>1. f \in WFrame /\ f.dir \in E /\ E \subseteq TreeDirs /\ \A h \in F : h.dir \in E
  BY TreeOver DEF Walked, WalkedOver
<1>2. g.dir = f.dir /\ g.blk = f.blk /\ g.pos = f.pos + 1 /\ f.blk \in Nat /\ f.pos \in Nat
  BY <1>1 DEF WFrame
<1>3. c.dir = n /\ c.blk = 1 /\ c.pos = 0
  BY DEF Call4
<1> HIDE DEF c
<1>4. \A k \in Nat : Opens(g, k) <=> Opens(f, k)
  BY <1>2 DEF Opens
<1>5. \A k \in Nat \ {0} : ~ Opens(c, k)
  BY <1>3 DEF Opens
<1>6. \A d \in E : \A k \in DOMAIN inodes[d].blks : k \in Nat
  BY <1>1, DirBlocks
<1>7. \A k \in DOMAIN inodes[n].blks : k \in Nat \ {0}
  <2>1. inodes[n].blks \in Seq(Block)
    BY DEF DiskTypeOK, IsImage, IsDir, DirInodes
  <2>2. QED
    BY <2>1, LenProperties
<1>8. ASSUME NEW d \in E, NEW k \in DOMAIN inodes[d].blks
      PROVE  (\A h \in F : h.dir = d => Opens(h, k)) <=> (\A h \in G : h.dir = d => Opens(h, k))
  <2>1. d # n /\ k \in Nat
    BY <1>6
  <2>2. QED
    BY <1>2, <1>3, <1>4, <2>1
<1>9. ASSUME NEW k \in DOMAIN inodes[n].blks PROVE ~ \A h \in G : h.dir = n => Opens(h, k)
  BY <1>3, <1>5, <1>7
<1> HIDE DEF G
<1>10. Marked(E \cup {n}, G) = Marked(E, F)
  BY <1>8, <1>9 DEF Marked
<1>11. QED
  BY <1>10 DEF G, c

\* A call that has been past all blocks of its directory.
LEMMA MarkedReturn ==
  ASSUME DiskTypeOK, NEW S, NEW E, NEW F, Walked(S, E, F), NEW f \in F, ~ InBlocks4(f)
  PROVE  Marked(E, F \ {f}) = Marked(E, F)
<1>1. f \in WFrame /\ f.dir \in E /\ E \subseteq TreeDirs
  BY TreeOver DEF Walked, WalkedOver
<1>2. \A k \in DOMAIN inodes[f.dir].blks : Opens(f, k)
  <2>1. /\ Len(inodes[f.dir].blks) \in Nat
        /\ DOMAIN inodes[f.dir].blks = 1 .. Len(inodes[f.dir].blks)
    BY <1>1, DirBlocks
  <2>2. f.blk \in Nat
    BY <1>1 DEF WFrame
  <2>3. QED
    BY <2>1, <2>2 DEF InBlocks4, Opens
<1>3. ASSUME NEW d \in E, NEW k \in DOMAIN inodes[d].blks
      PROVE  (\A h \in F : h.dir = d => Opens(h, k)) <=> (\A h \in F \ {f} : h.dir = d => Opens(h, k))
  BY <1>2
<1>4. QED
  BY <1>3 DEF Marked

\* One entry more.
LEMMA FilesMore ==
  ASSUME DiskTypeOK, FilesOK(inodes), NEW S, NEW x, Named(x) \in Inode
  PROVE  FilesOf(S \cup {x}) =
           IF IsName(x) /\ inodes[Named(x)].mode = "reg"
           THEN FilesOf(S) \cup get_file_block_bitmap(Named(x)) ELSE FilesOf(S)
<1>1. inodes[Named(x)].mode = "reg" => get_file_block_bitmap(Named(x)) \subseteq Block
  BY FileBlocksOK
<1>2. QED
  BY <1>1 DEF FilesOf

\* The running call as the tree sees it.
LEMMA Here4OK ==
  ASSUME DiskTypeOK, NEW S, NEW E, Found(stack4, S, E), stack4 # <<>>
  PROVE  /\ Top4 \in FramesOf(stack4) /\ Top4 \in WFrame
         /\ Top4.dir \in TreeDirs /\ Top4.dir \in Inode /\ IsDir(Top4.dir)
         /\ InBlocks4(Top4) <=> OnBlock(Top4)
         /\ HasEntry4(Top4) <=> AtEntry(Top4)
         /\ LET x == <<Top4.dir, Top4.blk, Top4.pos>>
            IN  Named(x) = Entry4(Top4) /\ (IsName(x) <=> Top4.blk > 1 \/ Top4.pos > 2)
<1> DEFINE f == Top4
           x == <<f.dir, f.blk, f.pos>>
<1>1. f \in FramesOf(stack4) /\ f \in WFrame
  BY StackTop DEF Top4, Found
<1> HIDE DEF f
<1>2. f.dir \in TreeDirs
  BY <1>1, TreeOver DEF Walked, WalkedOver, Found
<1>3. /\ f.dir \in Inode /\ IsDir(f.dir) /\ Len(inodes[f.dir].blks) \in Nat
      /\ DOMAIN inodes[f.dir].blks = 1 .. Len(inodes[f.dir].blks)
      /\ \A k \in DOMAIN inodes[f.dir].blks : inodes[f.dir].blks[k] \in Block
  BY <1>2, DirBlocks
<1>4. f.blk \in Nat \ {0} /\ f.pos \in Nat
  BY <1>1 DEF WFrame
<1>5. InBlocks4(f) <=> OnBlock(f)
  BY <1>3, <1>4 DEF InBlocks4, OnBlock
<1>6. HasEntry4(f) <=> AtEntry(f)
  <2>1. CASE ~ OnBlock(f)
    BY <1>5, <2>1 DEF HasEntry4, AtEntry
  <2>2. CASE OnBlock(f)
    <3>1. data[BlockId4(f)] = BlockAt(f)
      BY DEF BlockId4, BlockAt
    <3>2. BlockAt(f) \in Seq(Entry)
      BY <1>3, <2>2 DEF OnBlock, BlockAt, DiskTypeOK, IsImage
    <3>3. Len(BlockAt(f)) \in Nat
      BY <3>2, LenProperties
    <3>4. QED
      BY <1>4, <1>5, <2>2, <3>1, <3>3 DEF HasEntry4, AtEntry
  <2>3. QED
    BY <2>1, <2>2
<1>7. x[1] = f.dir /\ x[2] = f.blk /\ x[3] = f.pos
  OBVIOUS
<1>8. Named(x) = Entry4(f) /\ (IsName(x) <=> f.blk > 1 \/ f.pos > 2)
  BY <1>7 DEF EntryAt, Named, Entry4, BlockId4, IsName
<1>9. QED
  BY <1>1, <1>2, <1>3, <1>5, <1>6, <1>8 DEF f

\* What must hold after a step for the walk to be right still.
LEMMA FoundNext ==
  ASSUME UNCHANGED <<inodes, data>>, NEW t, NEW S, NEW E,
         Stack(t), Walked(S, E, FramesOf(t)),
         tb' = Marked(E, FramesOf(t)) \cup FilesOf(S),
         stack4' = t \/ \E n \in Inode : inodes[n].blks = <<>> /\ stack4' = Append(t, Call4(n))
  PROVE  FoundOK'
<1>1. Walked(S, E, FramesOf(t))'
  BY WalkedSame
<1>2. Marked(E, FramesOf(t))' = Marked(E, FramesOf(t))
  BY DEF Marked
<1>3. FilesOf(S)' = FilesOf(S)
  <2>1. \A n : get_file_block_bitmap(n)' = get_file_block_bitmap(n)
    BY DEF get_file_block_bitmap, get_file_indirect_block_bitmap,
           get_file_double_indirect_block_bitmap, Direct, Indirect, DoubleIndirect
  <2>2. \A x : Named(x)' = Named(x)
    BY DEF Named, EntryAt
  <2>3. QED
    BY <2>1, <2>2 DEF FilesOf
<1>4. Found(t, S, E)'
  BY <1>1, <1>2, <1>3 DEF Found
<1>5. QED
  BY <1>4 DEF FoundOK

\* What Append puts on, the return takes off.
LEMMA LastOff ==
  ASSUME NEW T, NEW s \in Seq(T), NEW c \in T
  PROVE  SubSeq(Append(s, c), 1, Len(s)) = s
<1> DEFINE u == Append(s, c)
           m == Len(s)
<1>1. m \in Nat /\ m \in Int /\ 1 \in Int
  BY LenProperties
<1>2. u \in Seq(T) /\ Len(u) = m + 1 /\ \A i \in 1 .. m : u[i] = s[i]
  BY AppendProperties
<1> HIDE DEF u, m
<1>3. \A i \in 1 .. m : u[i] \in T
  BY <1>1, <1>2, ElementOfSeq
<1>4. /\ SubSeq(u, 1, m) \in Seq(T)
      /\ Len(SubSeq(u, 1, m)) = IF 1 <= m THEN m - 1 + 1 ELSE 0
      /\ \A i \in 1 .. m - 1 + 1 : SubSeq(u, 1, m)[i] = u[1 + i - 1]
  BY <1>1, <1>3, SubSeqProperties
<1> DEFINE r == SubSeq(u, 1, m)
<1>5. r \in Seq(T) /\ Len(r) = m /\ \A i \in 1 .. m : r[i] = s[i]
  <2>1. m - 1 + 1 = m /\ \A i \in 1 .. m : 1 + i - 1 = i
    BY <1>1
  <2>2. QED
    BY <1>1, <1>2, <1>4, <2>1
<1> HIDE DEF r
<1>6. r = s
  BY <1>5, SeqEqual DEF m
<1>7. QED
  BY <1>6 DEF r, u, m

\* The call for something without blocks only returns.
LEMMA FoundAside ==
  ASSUME UNCHANGED <<inodes, data>>, NEW s, NEW S, NEW E, Found(s, S, E),
         NEW n \in Inode, inodes[n].blks = <<>>, stack4 = Append(s, Call4(n)),
         P4Open \/ P4Entry \/ P4NextBlock \/ P4Return
  PROVE  FoundOK'
<1> DEFINE c == Call4(n)
<1>1. s \in Seq(WFrame) /\ Len(s) \in Nat
  BY LenProperties DEF Found, Stack
<1>2. c \in WFrame /\ c.dir = n /\ c.blk = 1
  BY DEF Call4, WFrame
<1> HIDE DEF c
<1>3. /\ stack4 \in Seq(WFrame) /\ Len(stack4) = Len(s) + 1 /\ stack4[Len(s) + 1] = c
      /\ \A i \in 1 .. Len(s) : stack4[i] = s[i]
  BY <1>1, <1>2, AppendProperties DEF c
<1>4. Top4 = c
  BY <1>3 DEF Top4
<1>5. ~ InBlocks4(Top4)
  BY <1>2, <1>4 DEF InBlocks4
<1>6. P4Return
  BY <1>5 DEF P4Open, P4Entry, P4NextBlock, HasEntry4
<1>7. stack4' = SubSeq(stack4, 1, Len(s)) /\ tb' = tb
  BY <1>1, <1>3, <1>6 DEF P4Return
<1>8. SubSeq(stack4, 1, Len(s)) = s
  BY <1>1, <1>2, LastOff DEF c
<1>9. QED
  BY <1>7, <1>8, FoundNext DEF Found

\* An opened block is marked.
LEMMA FoundOpen ==
  ASSUME DiskTypeOK, NEW S, NEW E, Found(stack4, S, E), P4Open
  PROVE  FoundOK'
<1> DEFINE f == Top4
           F == FramesOf(stack4)
           g == [f EXCEPT !.pos = 1]
           t == Resume4(g)
<1>1. /\ stack4 # <<>> /\ f.pos = 0 /\ stack4' = t /\ UNCHANGED <<inodes, data>>
      /\ tb' = tb \cup {inodes[f.dir].blks[f.blk]} /\ InBlocks4(f)
  BY DEF P4Open, BlockId4, disk
<1>2. f \in F /\ f \in WFrame /\ OnBlock(f)
  BY <1>1, Here4OK
<1>3. g \in WFrame /\ g.dir = f.dir
  BY <1>2 DEF WFrame
<1>4. Walked(S, E, (F \ {f}) \cup {g})
  BY <1>1, <1>2, WalkedOpen DEF Found
<1>5. Marked(E, (F \ {f}) \cup {g}) = Marked(E, F) \cup {inodes[f.dir].blks[f.blk]}
  BY <1>1, <1>2, MarkedOpen DEF Found
<1> HIDE DEF g
<1>6. Stack(t) /\ FramesOf(t) = (F \ {f}) \cup {g}
  BY <1>1, <1>3, StackResume DEF Top4, Resume4, Found
<1> HIDE DEF t, f
<1>7. tb' = Marked(E, FramesOf(t)) \cup FilesOf(S)
  BY <1>1, <1>5, <1>6 DEF Found
<1>8. QED
  BY <1>1, <1>4, <1>6, <1>7, FoundNext

\* An entry: nothing is done, or a file is marked, or something without blocks
\* is called for, or a directory of the tree is.
LEMMA FoundEntry ==
  ASSUME P4Inv, TreeShape, NamesTrue, NEW S, NEW E, Found(stack4, S, E), P4Entry
  PROVE  FoundOK'
<1> DEFINE f == Top4
           F == FramesOf(stack4)
           g == [f EXCEPT !.pos = @ + 1]
           t == Resume4(g)
           x == <<f.dir, f.blk, f.pos>>
           n == Entry4(f)
<1>1. /\ stack4 # <<>> /\ HasEntry4(f) /\ f.pos > 0 /\ UNCHANGED <<inodes, data>>
      /\ stack4' = IF (f.blk > 1 \/ f.pos > 2) /\ inodes[n].mode \notin {"lnk", "reg"}
                   THEN Append(t, Call4(n)) ELSE t
      /\ tb' = IF (f.blk > 1 \/ f.pos > 2) /\ inodes[n].mode = "reg"
               THEN tb \cup get_file_block_bitmap(n) ELSE tb
  BY DEF P4Entry, HasEntry4, disk
<1>2. DiskTypeOK /\ FilesOK(inodes) /\ Walked(S, E, F) /\ Stack(stack4)
  BY DEF P4Inv, Found
<1>3. /\ f \in F /\ f \in WFrame /\ AtEntry(f) /\ IsDir(f.dir)
      /\ Named(x) = n /\ (IsName(x) <=> f.blk > 1 \/ f.pos > 2)
  BY <1>1, <1>2, Here4OK
<1>4. n \in Inode
  BY <1>1, Entry4OK
<1>5. x \in TreeEntries
  BY <1>2, <1>3, EntryHere
<1>6. /\ NamesDir(x) => IsName(x) /\ IsDir(n)
      /\ IsName(x) /\ IsDir(n) => NamesDir(x)
      /\ inodes[n].mode \in {"none", "other"} => inodes[n].blks = <<>>
      /\ inodes[n].mode \in {"none", "dir", "reg", "lnk", "other"}
  <2> HIDE DEF x, n
  <2>1. inodes[n] \in InodeRecord
    BY <1>2, <1>4 DEF DiskTypeOK, IsImage
  <2>2. NamesDir(x) => IsDir(n)
    BY <1>3, <1>5 DEF TreeShape
  <2>3. /\ IsName(x) /\ IsDir(n) => NamesDir(x)
        /\ inodes[n].mode \in {"none", "other"} => inodes[n].blks = <<>>
    BY <1>3, <1>5 DEF NamesTrue
  <2>4. QED
    BY <2>1, <2>2, <2>3 DEF InodeRecord, NamesDir
<1>7. g \in WFrame /\ g.dir = f.dir /\ g.blk = f.blk /\ g.pos = f.pos + 1
  BY <1>3 DEF WFrame
<1>8. \A k \in Nat : Opens(g, k) <=> Opens(f, k)
  <2>1. f.pos \in Nat
    BY <1>3 DEF WFrame
  <2>2. QED
    BY <1>1, <1>7, <2>1 DEF Opens
<1>9. FilesOf(S \cup {x}) = IF IsName(x) /\ inodes[n].mode = "reg"
                            THEN FilesOf(S) \cup get_file_block_bitmap(n) ELSE FilesOf(S)
  <2> HIDE DEF x, n
  <2>1. QED
    BY <1>2, <1>3, <1>4, FilesMore
<1>10. Stack(t) /\ FramesOf(t) = (F \ {f}) \cup {g}
  <2> HIDE DEF g
  <2>1. QED
    BY <1>1, <1>2, <1>7, StackResume DEF Top4, Resume4
<1>11. CASE ~ NamesDir(x)
  <2>1. Walked(S \cup {x}, E, (F \ {f}) \cup {g})
    BY <1>2, <1>3, <1>11, WalkedEntry
  <2>2. Marked(E, (F \ {f}) \cup {g}) = Marked(E, F)
    <3> HIDE DEF g, f, F
    <3>1. QED
      BY <1>2, <1>3, <1>7, <1>8, MarkedSame
  <2> HIDE DEF x, n, g, t, F, f
  <2>3. tb' = Marked(E, FramesOf(t)) \cup FilesOf(S \cup {x})
    <3>1. tb = Marked(E, F) \cup FilesOf(S)
      BY DEF Found, F
    <3>2. QED
      BY <1>1, <1>3, <1>9, <1>10, <2>2, <3>1
  <2>4. stack4' = t \/ (inodes[n].blks = <<>> /\ stack4' = Append(t, Call4(n)))
    <3>1. CASE IsName(x) /\ inodes[n].mode \notin {"lnk", "reg"}
      <4>1. inodes[n].mode \in {"none", "other"}
        BY <1>6, <1>11, <3>1 DEF IsDir
      <4>2. QED
        BY <1>1, <1>3, <1>6, <3>1, <4>1
    <3>2. CASE ~ (IsName(x) /\ inodes[n].mode \notin {"lnk", "reg"})
      BY <1>1, <1>3, <3>2
    <3>3. QED
      BY <3>1, <3>2
  <2>5. Walked(S \cup {x}, E, FramesOf(t))
    BY <2>1, <1>10
  <2>6. QED
    BY <1>1, <1>4, <1>10, <2>3, <2>4, <2>5, FoundNext
<1>12. CASE NamesDir(x)
  <2> DEFINE c == Call4(n)
             E1 == E \cup {n}
             S1 == S \cup {x}
             s1 == Append(t, c)
  <2>1. IsName(x) /\ inodes[n].mode = "dir"
    BY <1>6, <1>12 DEF IsDir
  <2>2. n \in DirInodes /\ n \notin E /\ Walked(S1, E1, (F \ {f}) \cup {g, c})
    <3> DEFINE m == Named(x)
    <3>1. 0 \in {0, 1} /\ m = n
      BY <1>3
    <3>2. /\ m \in DirInodes /\ m \notin E
          /\ Walked(S \cup {x}, E \cup {m},
                    (F \ {f}) \cup {g, [dir |-> m, blk |-> 1, pos |-> 0]})
      BY <1>2, <1>3, <1>12, <3>1, WalkedInto
    <3> HIDE DEF m
    <3>3. QED
      BY <3>1, <3>2 DEF Call4
  <2>3. c \in WFrame /\ c.dir = n
    BY <1>4 DEF Call4, WFrame
  <2>4. \A h \in FramesOf(t) : h.dir # c.dir
    <3>1. \A h \in F : h.dir # n
      BY <1>2, <2>2 DEF Walked, WalkedOver
    <3> HIDE DEF c, g, t, F, f, n
    <3>2. QED
      BY <1>3, <1>7, <1>10, <2>3, <3>1
  <2>5. Stack(s1) /\ FramesOf(s1) = FramesOf(t) \cup {c}
    <3> HIDE DEF c, t
    <3>1. QED
      BY <1>10, <2>3, <2>4, StackCall
  <2>6. FramesOf(s1) = (F \ {f}) \cup {g, c}
    <3> HIDE DEF c, t, g, F, s1, f
    <3>1. QED
      BY <1>10, <2>5
  <2>7. Marked(E1, (F \ {f}) \cup {g, c}) = Marked(E, F)
    <3> HIDE DEF F, f, n
    <3>1. QED
      BY <1>1, <1>2, <1>3, <2>2, MarkedInto
  <2> HIDE DEF c, E1, x, n, g, t, F, f
  <2>8. tb' = tb /\ stack4' = s1
    BY <1>1, <1>3, <2>1 DEF c
  <2>9. FilesOf(S1) = FilesOf(S)
    BY <1>9, <2>1
  <2> HIDE DEF s1, S1
  <2>10. tb' = Marked(E1, FramesOf(s1)) \cup FilesOf(S1)
    BY <2>6, <2>7, <2>8, <2>9 DEF Found, F
  <2>11. Walked(S1, E1, FramesOf(s1))
    BY <2>2, <2>6
  <2>12. QED
    BY <1>1, <2>5, <2>8, <2>10, <2>11, FoundNext
<1>13. QED
  BY <1>11, <1>12

\* The next block of a directory marks nothing yet.
LEMMA FoundNextBlock ==
  ASSUME DiskTypeOK, NEW S, NEW E, Found(stack4, S, E), P4NextBlock
  PROVE  FoundOK'
<1> DEFINE f == Top4
           F == FramesOf(stack4)
           g == [f EXCEPT !.blk = @ + 1, !.pos = 0]
           t == Resume4(g)
<1>1. /\ stack4 # <<>> /\ f.pos > 0 /\ stack4' = t /\ UNCHANGED <<inodes, data>>
      /\ tb' = tb /\ InBlocks4(f) /\ ~ HasEntry4(f)
  BY DEF P4NextBlock, disk
<1>2. f \in F /\ f \in WFrame /\ OnBlock(f) /\ ~ AtEntry(f)
  BY <1>1, Here4OK
<1>3. f.pos \in Nat /\ f.pos >= 1 /\ f.blk \in Nat /\ f.dir \in Inode
  BY <1>1, <1>2 DEF WFrame
<1>4. g = [dir |-> f.dir, blk |-> f.blk + 1, pos |-> 0]
  <2>1. f = [dir |-> f.dir, blk |-> f.blk, pos |-> f.pos]
    BY <1>2 DEF WFrame
  <2>2. [f EXCEPT !.blk = @ + 1] = [dir |-> f.dir, blk |-> f.blk + 1, pos |-> f.pos]
    BY <2>1
  <2> DEFINE h == [dir |-> f.dir, blk |-> f.blk + 1, pos |-> f.pos]
  <2>3. g = [h EXCEPT !.pos = 0]
    BY <2>2
  <2>4. QED
    BY <2>3
<1> HIDE DEF g, f
<1>5. g \in WFrame /\ g.dir = f.dir /\ g.blk = f.blk + 1 /\ g.pos = 0
  BY <1>3, <1>4 DEF WFrame
<1>6. Walked(S, E, (F \ {f}) \cup {g})
  BY <1>2, <1>3, <1>4, WalkedTurn DEF Found
<1>7. Marked(E, (F \ {f}) \cup {g}) = Marked(E, F)
  <2>1. \A k \in Nat : Opens(g, k) <=> Opens(f, k)
    BY <1>3, <1>5 DEF Opens
  <2> HIDE DEF F
  <2>2. QED
    BY <1>2, <1>5, <2>1, MarkedSame DEF Found, F
<1>8. Stack(t) /\ FramesOf(t) = (F \ {f}) \cup {g}
  BY <1>1, <1>5, StackResume DEF Top4, Resume4, Found, f
<1> HIDE DEF t
<1>9. tb' = Marked(E, FramesOf(t)) \cup FilesOf(S)
  BY <1>1, <1>7, <1>8 DEF Found
<1>10. QED
  BY <1>1, <1>6, <1>8, <1>9, FoundNext

\* A return marks nothing.
LEMMA FoundReturn ==
  ASSUME DiskTypeOK, NEW S, NEW E, Found(stack4, S, E), P4Return
  PROVE  FoundOK'
<1> DEFINE f == Top4
           F == FramesOf(stack4)
           t == SubSeq(stack4, 1, Len(stack4) - 1)
<1>1. stack4 # <<>> /\ stack4' = t /\ UNCHANGED <<inodes, data>> /\ tb' = tb /\ ~ InBlocks4(f)
  BY DEF P4Return, disk
<1>2. f \in F /\ f \in WFrame /\ f.dir \in TreeDirs /\ IsDir(f.dir)
  BY <1>1, Here4OK
<1>3. f.blk > Len(inodes[f.dir].blks)
  <2>1. Len(inodes[f.dir].blks) \in Nat /\ f.blk \in Nat
    BY <1>2, DirBlocks DEF WFrame
  <2>2. QED
    BY <1>1, <2>1 DEF InBlocks4
<1>4. Walked(S, E, F \ {f})
  BY <1>2, <1>3, WalkedReturn DEF Found
<1>5. Marked(E, F \ {f}) = Marked(E, F)
  BY <1>1, <1>2, MarkedReturn DEF Found
<1>6. Stack(t) /\ FramesOf(t) = F \ {f}
  BY <1>1, StackReturn DEF Top4, Found
<1> HIDE DEF t, f
<1>7. tb' = Marked(E, FramesOf(t)) \cup FilesOf(S)
  BY <1>1, <1>5, <1>6 DEF Found
<1>8. QED
  BY <1>1, <1>4, <1>6, <1>7, FoundNext

\* The steps of get_true_block_bitmap.
LEMMA FoundStep ==
  ASSUME P4Inv, TreeShape, NamesTrue, FoundOK, P4Open \/ P4Entry \/ P4NextBlock \/ P4Return
  PROVE  FoundOK'
<1>1. PICK s, S, E :
        /\ Found(s, S, E)
        /\ stack4 = s \/ \E n \in Inode : inodes[n].blks = <<>> /\ stack4 = Append(s, Call4(n))
  BY DEF FoundOK
<1>2. DiskTypeOK /\ UNCHANGED <<inodes, data>>
  BY DEF P4Inv, P4Open, P4Entry, P4NextBlock, P4Return, disk
<1>3. CASE stack4 = s
  BY <1>1, <1>2, <1>3, FoundOpen, FoundEntry, FoundNextBlock, FoundReturn
<1>4. CASE stack4 # s
  BY <1>1, <1>2, <1>4, FoundAside
<1>5. QED
  BY <1>3, <1>4

-----------------------------------------------------------------------------
(* When the walk is done                                                   *)

\* Every directory of the tree but the root is a subdirectory of one of them.
LEMMA HasParent ==
  ASSUME DiskTypeOK, NEW d \in TreeDirs, d # ROOT_INODE_NUM
  PROVE  \E c \in TreeDirs : d \in SubDirs(c)
<1> DEFINE T == {n \in TreeDirs : n = ROOT_INODE_NUM \/ \E c \in TreeDirs : n \in SubDirs(c)}
<1>1. Closed(T)
  BY TreeClosed DEF Closed
<1>2. d \in T
  BY <1>1, TreeLeast
<1>3. QED
  BY <1>2

\* "." and ".." of the tree name directories of the tree.
LEMMA DotsIn ==
  ASSUME DiskTypeOK, DirectoryPointersOK, NEW x \in TreeEntries, ~ IsName(x)
  PROVE  Named(x) \in TreeDirs
<1> DEFINE d == x[1]
<1>1. /\ d \in TreeDirs /\ x[2] \in DOMAIN inodes[d].blks
      /\ x[3] \in Visible(data[inodes[d].blks[x[2]]])
  BY TreeEntriesIs, EntriesInIs
<1>2. x[2] \in Nat \ {0} /\ inodes[d].blks[x[2]] \in Block
  BY <1>1, DirBlocks
<1>3. data[inodes[d].blks[x[2]]] \in Seq(Entry)
  BY <1>2 DEF DiskTypeOK, IsImage
<1>4. x[3] \in Nat \ {0}
  <2> DEFINE block == data[inodes[x[1]].blks[x[2]]]
  <2>1. x[3] \in DOMAIN block
    BY <1>1 DEF Visible
  <2>2. DOMAIN block = 1 .. Len(block) /\ Len(block) \in Nat
    BY <1>3, LenProperties
  <2>3. QED
    BY <2>1, <2>2
<1>5. x[2] = 1 /\ (x[3] = 1 \/ x[3] = 2)
  BY <1>2, <1>4 DEF IsName
<1>6. Named(x) = Pointer(d, x[3])
  BY <1>5 DEF Named, EntryAt, Pointer
<1> HIDE DEF d
<1>7. CASE x[3] = 1
  BY <1>1, <1>6, <1>7 DEF DirectoryPointersOK, SelfOK
<1>8. CASE x[3] = 2
  <2>1. CASE d = ROOT_INODE_NUM
    BY <1>1, <1>6, <1>8, <2>1 DEF DirectoryPointersOK
  <2>2. CASE d # ROOT_INODE_NUM
    <3>1. PICK c \in TreeDirs : d \in SubDirs(c)
      BY <1>1, <2>2, HasParent
    <3>2. Pointer(d, 2) = c
      BY <2>2, <3>1 DEF DirectoryPointersOK
    <3>3. QED
      BY <1>6, <1>8, <3>1, <3>2
  <2>3. QED
    BY <2>1, <2>2
<1>9. QED
  BY <1>5, <1>7, <1>8

\* The directories that entries of the tree name are those of the tree.
LEMMA DirsNamed ==
  ASSUME DiskTypeOK, DirectoryPointersOK, NamesTrue, NEW n
  PROVE  (n = ROOT_INODE_NUM \/ \E x \in TreeEntries : Named(x) = n) /\ IsDir(n) <=> n \in TreeDirs
<1>1. ASSUME NEW x \in TreeEntries, IsDir(Named(x)) PROVE Named(x) \in TreeDirs
  <2>1. CASE IsName(x)
    <3>1. NamesDir(x)
      BY <1>1, <2>1 DEF NamesTrue
    <3>2. x[1] \in TreeDirs /\ x \in EntriesIn(x[1])
      BY TreeEntriesIs
    <3>3. Named(x) \in SubDirs(x[1])
      BY <1>1, <3>1, <3>2, SubDirsNamed
    <3>4. QED
      BY <3>2, <3>3, TreeClosed DEF Closed
  <2>2. CASE ~ IsName(x)
    BY <2>2, DotsIn
  <2>3. QED
    BY <2>1, <2>2
<1>2. ASSUME n \in TreeDirs, n # ROOT_INODE_NUM PROVE \E x \in TreeEntries : Named(x) = n
  <2>1. PICK c \in TreeDirs : n \in SubDirs(c)
    BY <1>2, HasParent
  <2>2. PICK x \in EntriesIn(c) : Named(x) = n
    BY <2>1, SubDirsNamed
  <2>3. x = <<c, x[2], x[3]>>
    BY EntriesInIs
  <2>4. x[1] = c
    <3>1. \A a, b : <<c, a, b>>[1] = c
      OBVIOUS
    <3>2. QED
      BY <2>3, <3>1, Zenon
  <2>5. x \in TreeEntries
    BY <2>4, TreeEntriesIs
  <2>6. QED
    BY <2>2, <2>5
<1>3. n \in TreeDirs => IsDir(n)
  BY TreeClosed DEF DirInodes
<1>4. ROOT_INODE_NUM \in TreeDirs
  BY TreeClosed DEF Closed
<1>5. QED
  BY <1>1, <1>2, <1>3, <1>4

\* All of the tree has been walked: the blocks in use have been found.
LEMMA UsedIs ==
  ASSUME DiskTypeOK, FilesOK(inodes), TreeSound
  PROVE  (Marked(TreeDirs, {}) \cup FilesOf(TreeEntries)) \ {0} = UsedBlocks
<1> DEFINE Dirs == {b \in Block : \E d \in TreeDirs : \E k \in DOMAIN inodes[d].blks :
                                   b = inodes[d].blks[k]}
           named == {ROOT_INODE_NUM} \cup {Named(x) : x \in TreeEntries}
           files == UNION {FileOwns(n) : n \in {m \in named : inodes[m].mode = "reg"}}
           dirs == UNION { {inodes[n].blks[k] : k \in DOMAIN inodes[n].blks} :
                           n \in {m \in named : IsDir(m)} }
<1>1. DirectoryPointersOK /\ NamesTrue /\ PointersFit /\ BootBlockEmpty
  BY DEF TreeSound
<1>2. UsedBlocks = files \cup dirs
  BY DEF UsedBlocks
<1>3. {m \in named : IsDir(m)} = TreeDirs
  BY <1>1, DirsNamed
<1>4. \A d \in TreeDirs : \A k \in DOMAIN inodes[d].blks :
        inodes[d].blks[k] \in Block /\ inodes[d].blks[k] # 0
  BY <1>1, DirBlocks DEF NamesTrue
<1>5. dirs = Marked(TreeDirs, {}) \ {0}
  <2>1. dirs = UNION { {inodes[n].blks[k] : k \in DOMAIN inodes[n].blks} : n \in TreeDirs }
    BY <1>3
  <2> HIDE DEF dirs
  <2>2. QED
    BY <1>4, <2>1 DEF Marked
<1>6. ASSUME NEW x \in TreeEntries, inodes[Named(x)].mode = "reg"
      PROVE  /\ IsName(x) /\ Named(x) \in Inode
             /\ get_file_block_bitmap(Named(x)) \subseteq Block
             /\ get_file_block_bitmap(Named(x)) \ {0} = FileOwns(Named(x))
  <2> DEFINE n == Named(x)
  <2>1. IsName(x)
    <3>1. SUFFICES ASSUME ~ IsName(x) PROVE FALSE
      OBVIOUS
    <3>2. Named(x) \in TreeDirs
      BY <1>1, <3>1, DotsIn
    <3>3. QED
      BY <1>6, <3>2, DirBlocks DEF IsDir
  <2>2. n \in Inode
    <3>1. x[1] \in TreeDirs /\ x \in EntriesIn(x[1])
      BY TreeEntriesIs
    <3>2. x[1] \in Inode
      BY <3>1, DirBlocks
    <3>3. PICK e \in Entries(x[1]) : x = <<x[1], e[1], e[2]>>
      BY <3>1 DEF EntriesIn
    <3>4. EntryAt(x[1], e).ino \in Inode
      BY <3>2, EntryIn
    <3>5. x[2] = e[1] /\ x[3] = e[2]
      BY <3>3
    <3>6. Named(x) = EntryAt(x[1], e).ino
      BY <3>5 DEF Named, EntryAt
    <3>7. QED
      BY <3>4, <3>6
  <2>3. inodes[n].size \in Nat /\ inodes[n].size <= DoubleIndirectMax
    BY <1>1, <1>6, <2>2, PointerOK DEF NamesTrue
  <2> HIDE DEF n
  <2>4. get_file_block_bitmap(n) \subseteq Block /\ get_file_block_bitmap(n) \ {0} = FileOwns(n)
    BY <1>1, <1>6, <2>2, <2>3, FileBlocksOK, OwnsIs DEF n
  <2>5. QED
    BY <2>1, <2>2, <2>4 DEF n
<1>7. files = FilesOf(TreeEntries) \ {0}
  <2>1. inodes[ROOT_INODE_NUM].mode # "reg"
    BY DEF DiskTypeOK, IsImage
  <2>2. ASSUME NEW b \in files PROVE b \in FilesOf(TreeEntries) \ {0}
    <3>1. PICK n \in {m \in named : inodes[m].mode = "reg"} : b \in FileOwns(n)
      OBVIOUS
    <3>2. PICK x \in TreeEntries : Named(x) = n
      BY <2>1, <3>1
    <3>3. b \in get_file_block_bitmap(Named(x)) \ {0} /\ b \in Block /\ IsName(x)
      BY <1>6, <3>1, <3>2
    <3>4. QED
      BY <3>1, <3>2, <3>3 DEF FilesOf
  <2>3. ASSUME NEW b \in FilesOf(TreeEntries), b # 0 PROVE b \in files
    <3>1. PICK x \in TreeEntries :
            inodes[Named(x)].mode = "reg" /\ b \in get_file_block_bitmap(Named(x))
      BY DEF FilesOf
    <3>2. b \in FileOwns(Named(x))
      BY <1>6, <2>3, <3>1
    <3>3. QED
      BY <3>1, <3>2
  <2> HIDE DEF files
  <2>4. QED
    BY <2>2, <2>3
<1> HIDE DEF files, dirs
<1>8. QED
  BY <1>2, <1>5, <1>7

-----------------------------------------------------------------------------
(* The blocks found, as an invariant                                       *)

Later == {"p4_compare", "p4_table", "p4_flush", "done"}

FoundInv ==
  /\ TreeSound
  /\ pc = "p4_walk" => FoundOK
  /\ P4TrueBitmap

\* A step that writes no directory changes no block in use.
LEMMA SoundSame ==
  ASSUME UNCHANGED <<inodes, data>>
  PROVE  (TreeSound => TreeSound') /\ UsedBlocks' = UsedBlocks
<1>1. TreeDirs' = TreeDirs /\ TreeEntries' = TreeEntries
  BY TreeSame
<1>2. TreeShape => TreeShape'
  BY ShapeSame
<1>3. \A d, p : Pointer(d, p)' = Pointer(d, p)
  BY DEF Pointer
<1>4. \A d : SubDirs(d)' = SubDirs(d)
  BY DEF SubDirs, Names, Entries, EntryAt, IsDir, Visible
<1>5. DirectoryPointersOK => DirectoryPointersOK'
  BY <1>1, <1>3, <1>4 DEF DirectoryPointersOK, SelfOK
<1>6. \A x : (NamesDir(x)' <=> NamesDir(x)) /\ Named(x)' = Named(x)
  BY DEF NamesDir, Named, EntryAt
<1>7. \A n : IsDir(n)' <=> IsDir(n)
  BY DEF IsDir
<1>8. NamesTrue => NamesTrue'
  BY <1>1, <1>6, <1>7 DEF NamesTrue
<1>9. \A n : FileOwns(n)' = FileOwns(n)
  BY DEF FileOwns, PathTo, Indirect, DoubleIndirect
<1>10. UsedBlocks' = UsedBlocks
  BY <1>1, <1>6, <1>7, <1>9 DEF UsedBlocks
<1>11. QED
  BY <1>2, <1>5, <1>8, <1>10 DEF TreeSound, PointersFit, BootBlockEmpty

\* FoundInv holds before pass 4.
LEMMA FoundInit == P4Init /\ TreeSound => FoundInv
BY DEF P4Init, FoundInv, P4TrueBitmap

\* The walk started: in the root, none of its blocks opened.
LEMMA FoundStart ==
  ASSUME P4Inv, P4Start
  PROVE  FoundOK'
<1> DEFINE c == Call4(ROOT_INODE_NUM)
<1>1. /\ stack4' = <<c>> /\ tb' = {} /\ UNCHANGED <<inodes, data>> /\ DiskTypeOK
  BY DEF P4Start, P4Inv, disk
<1>2. c = [dir |-> ROOT_INODE_NUM, blk |-> 1, pos |-> 0] /\ c \in WFrame
  BY SizesAssumption DEF Call4, WFrame, Inode, ROOT_INODE_NUM
<1> HIDE DEF c
<1>3. Walked({}, {ROOT_INODE_NUM}, {c})
  BY <1>1, <1>2, WalkedStart
<1>4. Stack(<<c>>) /\ FramesOf(<<c>>) = {c}
  BY <1>2, StackStart
<1>5. Marked({ROOT_INODE_NUM}, {c}) = {}
  <2>1. \A k \in Nat \ {0} : ~ Opens(c, k)
    BY <1>2 DEF Opens
  <2>2. \A k \in DOMAIN inodes[ROOT_INODE_NUM].blks : k \in Nat \ {0}
    <3>1. ROOT_INODE_NUM \in TreeDirs
      BY <1>1, TreeClosed DEF Closed
    <3>2. QED
      BY <1>1, <3>1, DirBlocks
  <2>3. c.dir = ROOT_INODE_NUM
    BY <1>2
  <2>4. QED
    BY <2>1, <2>2, <2>3 DEF Marked
<1>6. FilesOf({}) = {}
  BY DEF FilesOf
<1>7. Walked({}, {ROOT_INODE_NUM}, FramesOf(<<c>>))
  BY <1>3, <1>4
<1>8. tb' = Marked({ROOT_INODE_NUM}, FramesOf(<<c>>)) \cup FilesOf({})
  BY <1>1, <1>4, <1>5, <1>6
<1>9. QED
  BY <1>1, <1>4, <1>7, <1>8, FoundNext

\* No call is left.
LEMMA FoundDone ==
  ASSUME P4Inv, TreeSound, FoundOK, stack4 = <<>>
  PROVE  tb \ {0} = UsedBlocks
<1>1. PICK s, S, E :
        /\ Found(s, S, E)
        /\ stack4 = s \/ \E n \in Inode : inodes[n].blks = <<>> /\ stack4 = Append(s, Call4(n))
  BY DEF FoundOK
<1>2. s = <<>>
  <2>1. SUFFICES ASSUME NEW n \in Inode, stack4 = Append(s, Call4(n)) PROVE FALSE
    BY <1>1
  <2>2. Len(Append(s, Call4(n))) = Len(s) + 1 /\ Len(s) \in Nat
    BY <1>1, AppendProperties, LenProperties DEF Found, Stack
  <2>3. Len(stack4) = 0
    OBVIOUS
  <2>4. QED
    BY <2>1, <2>2, <2>3
<1>3. FramesOf(s) = {}
  BY <1>2, EmptySeq DEF FramesOf
<1>4. DiskTypeOK /\ FilesOK(inodes) /\ Walked(S, E, {})
  BY <1>1, <1>3 DEF Found, P4Inv
<1>5. S = TreeEntries /\ E = TreeDirs
  BY <1>4, WalkedDone
<1>6. tb = Marked(TreeDirs, {}) \cup FilesOf(TreeEntries)
  BY <1>1, <1>3, <1>5 DEF Found
<1>7. QED
  BY <1>4, <1>6, UsedIs

\* Every step of pass 4 keeps FoundInv.
LEMMA FoundInvStep == P4Inv /\ FoundInv /\ [P4Next]_p4vars => FoundInv'
<1> SUFFICES ASSUME P4Inv, FoundInv, [P4Next]_p4vars PROVE FoundInv'
  OBVIOUS
<1>1. UNCHANGED <<inodes, data>>
  BY DEF P4Next, P4Start, P4Open, P4Entry, P4NextBlock, P4Return, P4Walked, P4Compare,
         P4NextGroup, P4Compared, P4Table, P4NextTable, P4Decide, P4Write, P4Done,
         p4vars, disk
<1>2. TreeSound' /\ UsedBlocks' = UsedBlocks
  BY <1>1, SoundSame DEF FoundInv
<1>3. CASE P4Start
  BY <1>2, <1>3, FoundStart DEF P4Start, FoundInv, P4TrueBitmap
<1>4. CASE P4Open \/ P4Entry \/ P4NextBlock \/ P4Return
  <2>1. pc = "p4_walk" /\ pc' = pc
    BY <1>4 DEF P4Open, P4Entry, P4NextBlock, P4Return
  <2>2. FoundOK'
    BY <1>4, <2>1, FoundStep DEF FoundInv, TreeSound
  <2>3. QED
    BY <1>2, <2>1, <2>2 DEF FoundInv, P4TrueBitmap
<1>5. CASE P4Walked
  <2>1. tb \ {0} = UsedBlocks
    BY <1>5, FoundDone DEF P4Walked, FoundInv
  <2>2. pc' = "p4_compare" /\ tb' = tb
    BY <1>5 DEF P4Walked
  <2>3. QED
    BY <1>2, <2>1, <2>2 DEF FoundInv, P4TrueBitmap
<1>6. CASE P4Compare \/ P4NextGroup \/ P4Compared \/ P4Table \/ P4NextTable \/ P4Decide
             \/ P4Write \/ P4Done
  <2>1. pc \in Later /\ pc' \in Later /\ tb' = tb
    BY <1>6 DEF P4Compare, P4NextGroup, P4Compared, P4Table, P4NextTable, P4Decide,
                P4Write, P4Done, Comparing, Later
  <2>2. QED
    BY <1>2, <2>1 DEF FoundInv, P4TrueBitmap, Later
<1>7. CASE UNCHANGED p4vars
  <2>1. UNCHANGED <<pc, tb, stack4>>
    BY <1>7 DEF p4vars
  <2>2. FoundOK => FoundOK'
    <3>1. SUFFICES ASSUME FoundOK PROVE FoundOK'
      OBVIOUS
    <3>2. PICK s, S, E :
            /\ Found(s, S, E)
            /\ stack4 = s \/ \E n \in Inode : inodes[n].blks = <<>> /\ stack4 = Append(s, Call4(n))
      BY <3>1 DEF FoundOK
    <3>3. QED
      BY <1>1, <2>1, <3>2, FoundNext DEF Found
  <2>3. QED
    BY <1>2, <2>1, <2>2 DEF FoundInv, P4TrueBitmap
<1>8. QED
  BY <1>3, <1>4, <1>5, <1>6, <1>7 DEF P4Next

\* What the walk has marked, at every time of pass 4.
LEMMA Pass4FoundInvariant == P4Spec /\ TreeSound => [](P4Inv /\ FoundInv)
<1>1. P4Init /\ TreeSound => P4Inv /\ FoundInv
  BY P4InvInit, FoundInit
<1>2. P4Inv /\ FoundInv /\ [P4Next]_p4vars => (P4Inv /\ FoundInv)'
  BY P4InvStep, FoundInvStep
<1>3. QED
  BY <1>1, <1>2, PTL DEF P4Spec

\* On every partition that TreeSound holds of, the walk of pass 4 finds the
\* blocks that the tree uses, all of them and no other: those of directories of
\* any number of blocks, and those of files behind indirect and double indirect
\* blocks, whatever holes they have.
THEOREM Pass4TrueBitmap == P4Spec /\ TreeSound => []P4TrueBitmap
<1>1. FoundInv => P4TrueBitmap
  BY DEF FoundInv
<1>2. QED
  BY <1>1, Pass4FoundInvariant, PTL

-----------------------------------------------------------------------------
(* The result.  Nothing is written before the comparison is over, so what  *)
(* the bitmap on the disk is in the end follows from what the one in       *)
(* memory has become: ResultInv follows both from loop to loop.            *)

Tables == get_group_inode_block_num

\* The blocks of inode tables the second loop is past.
TableSeen(g, j) == g < grp \/ (g = grp /\ j < j4)

ResultInv ==
  /\ LayoutSound
  /\ pc = "p4_walk" => bm = bbitmap /\ found = FALSE
  /\ pc \in {"p4_compare", "p4_table"} /\ found = FALSE => bm = bbitmap
  /\ pc \in {"p4_table", "p4_flush", "done"} =>
       \A b \in DataBlocks : get_block_alloc_bit(bm, b) = IF b \in tb THEN 1 ELSE 0
  /\ pc = "p4_table" =>
       /\ j4 <= Tables
       /\ \A g \in Group : \A j \in 0 .. Tables - 1 :
            TableSeen(g, j) => get_block_alloc_bit(bm, InodeTable[g] + j) = 1
  /\ pc \in {"p4_flush", "done"} => \A b \in TableBlocks : get_block_alloc_bit(bm, b) = 1
  /\ pc \in {"p4_compare", "p4_table", "p4_flush"} =>
       \A b \in Block \ {0} : b \notin DataBlocks \cup TableBlocks =>
         get_block_alloc_bit(bm, b) = get_block_alloc_bit(bbitmap, b)
  /\ pc = "p4_flush" => \A i \in DOMAIN bbitmap : i \div BlockBits < grp => bbitmap[i] = bm[i]
  /\ pc = "done" => bbitmap = bm

\* Quotient and remainder of a place in the bitmap.
LEMMA PlaceIs ==
  ASSUME NEW i \in Nat, NEW p \in Nat \ {0}
  PROVE  i \div p \in Nat /\ i % p \in 0 .. p - 1 /\ (i \div p) * p + (i % p) = i
<1> DEFINE q == i \div p
           r == i % p
<1>1. p > 0
  OBVIOUS
<1>2. q \in Int /\ r \in 0 .. p - 1 /\ i = p * q + r
  BY <1>1, SMT
<1> HIDE DEF q, r
<1>3. q >= 0
  <2>1. SUFFICES ASSUME q <= -1 PROVE FALSE
    BY <1>2
  <2>2. p * q <= p * (-1)
    BY <1>1, <1>2, <2>1
  <2>3. QED
    BY <1>1, <1>2, <2>2
<1>4. q \in Nat /\ r \in 0 .. p - 1 /\ q * p + r = i
  BY <1>2, <1>3
<1>5. QED
  BY <1>4 DEF q, r

\* Every place of the bitmap is that of a group.
LEMMA PlaceIn ==
  ASSUME NEW i \in 0 .. Groups * BlockBits - 1
  PROVE  i \div BlockBits \in Nat /\ i \div BlockBits < Groups
<1> DEFINE q == i \div BlockBits
           r == i % BlockBits
<1>1. BlockBits \in Nat \ {0} /\ Groups \in Nat /\ i \in Nat /\ Groups * BlockBits \in Nat
  BY SizesOK
<1>2. q \in Nat /\ r \in 0 .. BlockBits - 1 /\ q * BlockBits + r = i
  BY <1>1, PlaceIs
<1> HIDE DEF q, r
<1>3. q < Groups
  <2>1. SUFFICES ASSUME q >= Groups PROVE FALSE
    BY <1>1, <1>2
  <2>2. q * BlockBits = Groups * BlockBits + (q - Groups) * BlockBits
    BY <1>1, <1>2
  <2>3. (q - Groups) * BlockBits >= 0
    BY <1>1, <1>2, <2>1
  <2>4. q * BlockBits \in Nat
    BY <1>1, <1>2
  <2>5. QED
    BY <1>1, <1>2, <2>2, <2>3, <2>4
<1>4. QED
  BY <1>2, <1>3 DEF q

\* On a partition without bits to spare bit b - 1 is that of block b.
LEMMA BlockBitIs ==
  ASSUME LayoutSound, NEW b \in Block \ {0}
  PROVE  BlockBit(b) = get_block_alloc_bit(bbitmap, b)
<1> DEFINE i == b - 1
<1>1. i \in Nat /\ BlocksPerGroup \in Nat \ {0} /\ BlockBits = BlocksPerGroup
  BY SizesAssumption DEF Block, LayoutSound
<1> HIDE DEF i
<1>2. (i \div BlocksPerGroup) * BlockBits + (i % BlocksPerGroup) = i
  BY <1>1, PlaceIs
<1>3. QED
  BY <1>2 DEF BlockBit, get_block_alloc_bit, i

\* The blocks of inode tables, group by group.
LEMMA TableAt ==
  ASSUME LayoutSound, NEW g \in Group, NEW j \in 0 .. Tables - 1
  PROVE  /\ InodeTable[g] + j \in TableBlocks
         /\ InodeTable[g] + j \in Block \ {0}
         /\ InodeTable[g] + j \notin DataBlocks
<1>1. Tables \in Nat
  BY CeilDivNat, SizesAssumption DEF Tables, get_group_inode_block_num
<1>2. InodeTable[g] \in Nat
  BY SizesAssumption DEF Block
<1> DEFINE b == InodeTable[g] + j
<1>3. b \in InodeTable[g] .. InodeTable[g] + Tables - 1
  BY <1>1, <1>2
<1> HIDE DEF b
<1>4. b \in TableBlocks
  BY <1>3 DEF TableBlocks, Tables
<1>5. QED
  BY <1>4 DEF LayoutSound, b

\* A block of an inode table is one of its group.
LEMMA TableHas ==
  ASSUME NEW b \in TableBlocks
  PROVE  \E g \in Group : \E j \in 0 .. Tables - 1 : b = InodeTable[g] + j
<1>1. PICK g \in Group : b \in InodeTable[g] .. InodeTable[g] + Tables - 1
  BY DEF TableBlocks, Tables
<1>2. InodeTable[g] \in Nat /\ Tables \in Nat
  BY CeilDivNat, SizesAssumption DEF Tables, get_group_inode_block_num, Block
<1> DEFINE j == b - InodeTable[g]
<1>3. j \in 0 .. Tables - 1 /\ b = InodeTable[g] + j
  BY <1>1, <1>2
<1>4. QED
  BY <1>3

\* A bit of the bitmap in memory.
LEMMA BitIn ==
  ASSUME P4Inv, NEW b \in Block \ {0}
  PROVE  /\ b - 1 \in 0 .. Groups * BlockBits - 1
         /\ bm \in [0 .. Groups * BlockBits - 1 -> 0 .. 1]
         /\ bbitmap \in [0 .. Groups * BlockBits - 1 -> 0 .. 1]
         /\ get_block_alloc_bit(bm, b) \in 0 .. 1
<1>1. b - 1 \in 0 .. Groups * BlockBits - 1
  BY BitOf
<1>2. /\ bm \in [0 .. Groups * BlockBits - 1 -> 0 .. 1]
      /\ bbitmap \in [0 .. Groups * BlockBits - 1 -> 0 .. 1]
  BY DEF P4Inv, P4Locals, DiskTypeOK, IsImage, Bitmap, Groups
<1>3. QED
  BY <1>1, <1>2 DEF get_block_alloc_bit

\* A bit flipped, and no other.
LEMMA FlipIs ==
  ASSUME P4Inv, NEW b \in Block \ {0}
  PROVE  /\ get_block_alloc_bit(Flip(bm, b), b) = 1 - get_block_alloc_bit(bm, b)
         /\ \A c \in Block \ {0} : c # b =>
              get_block_alloc_bit(Flip(bm, b), c) = get_block_alloc_bit(bm, c)
<1> DEFINE n == Groups * BlockBits - 1
<1>1. b - 1 \in 0 .. n /\ bm \in [0 .. n -> 0 .. 1]
  BY BitIn
<1>2. \A c \in Block \ {0} : c - 1 \in 0 .. n /\ (c # b => c - 1 # b - 1)
  BY BitOf, SizesAssumption DEF Block
<1> HIDE DEF n
<1>3. Flip(bm, b) = [bm EXCEPT ![b - 1] = 1 - bm[b - 1]]
  BY DEF Flip
<1>4. Flip(bm, b)[b - 1] = 1 - bm[b - 1]
  BY <1>1, <1>3
<1>5. ASSUME NEW c \in Block \ {0}, c # b PROVE Flip(bm, b)[c - 1] = bm[c - 1]
  BY <1>1, <1>2, <1>3, <1>5
<1>6. QED
  BY <1>4, <1>5 DEF get_block_alloc_bit

-----------------------------------------------------------------------------
(* The steps of the three loops *)

\* Data blocks are blocks, and block 0 is none.
LEMMA DataIn == DataBlocks \subseteq Block \ {0}
BY DEF DataBlocks

\* A data block compared: no other bit changes.
LEMMA ResultCompare ==
  ASSUME P4Inv, ComparedInv, ResultInv, P4Compare
  PROVE  ResultInv'
<1>1. /\ pc = "p4_compare" /\ pc' = pc /\ bbitmap' = bbitmap /\ LayoutSound
      /\ found = FALSE => bm = bbitmap
      /\ \A b \in Block \ {0} : b \notin DataBlocks \cup TableBlocks =>
           get_block_alloc_bit(bm, b) = get_block_alloc_bit(bbitmap, b)
  BY DEF P4Compare, Comparing, disk, ResultInv
<1>2. bid \in DataBlocks /\ bid \in Block \ {0}
  BY CountPlace, DataIn DEF ComparedInv, P4LoopAt, P4Compare
<1> DEFINE wrong == get_block_alloc_bit(bm, bid) # IF bid \in tb THEN 1 ELSE 0
<1>3. bm' = (IF wrong THEN Flip(bm, bid) ELSE bm) /\ found' = (found \/ wrong)
  BY DEF P4Compare
<1>4. found' = FALSE => bm' = bbitmap'
  BY <1>1, <1>3 DEF P4Inv, P4Locals
<1>5. ASSUME NEW b \in Block \ {0}, b \notin DataBlocks \cup TableBlocks
      PROVE  get_block_alloc_bit(bm', b) = get_block_alloc_bit(bbitmap', b)
  <2>1. b # bid
    BY <1>2, <1>5
  <2>2. get_block_alloc_bit(Flip(bm, bid), b) = get_block_alloc_bit(bm, b)
    BY <1>2, <2>1, FlipIs
  <2> HIDE DEF wrong
  <2>3. QED
    BY <1>1, <1>3, <1>5, <2>2
<1>6. LayoutSound'
  BY <1>1 DEF LayoutSound
<1> HIDE DEF wrong
<1>7. QED
  BY <1>1, <1>4, <1>5, <1>6 DEF ResultInv, DataBlocks, TableBlocks, get_block_alloc_bit

\* The second loop starts: every data block has been compared.
LEMMA ResultCompared ==
  ASSUME P4Inv, ComparedInv, ResultInv, P4Compared
  PROVE  ResultInv'
<1>1. /\ pc = "p4_compare" /\ pc' = "p4_table" /\ grp = Groups /\ grp' = 0 /\ j4' = 0
      /\ UNCHANGED <<bm, bbitmap, tb, found>>
  BY DEF P4Compared, disk, Groups
<1>2. \A b \in DataBlocks : get_block_alloc_bit(bm, b) = IF b \in tb THEN 1 ELSE 0
  <2>1. bid >= BlocksCount /\ bid \in Nat
    BY <1>1 DEF ComparedInv, P4Compared_OK, CountInv, Groups
  <2>2. \A b \in DataBlocks : b < bid
    BY <2>1, SizesAssumption DEF DataBlocks, Block
  <2>3. QED
    BY <1>1, <2>2 DEF ComparedInv, P4Compared_OK
<1>3. Tables \in Nat
  BY CeilDivNat, SizesAssumption DEF Tables, get_group_inode_block_num
<1>4. \A g \in Group, j \in 0 .. Tables - 1 : ~ TableSeen(g, j)'
  <2>1. \A g \in Group : g \in Int /\ ~ (g < 0)
    BY SizesOK DEF Group, Groups
  <2>2. QED
    BY <1>1, <1>3, <2>1 DEF TableSeen
<1>5. LayoutSound'
  BY DEF LayoutSound, ResultInv
<1>6. QED
  BY <1>1, <1>2, <1>3, <1>4, <1>5
  DEF ResultInv, DataBlocks, TableBlocks, get_block_alloc_bit, Tables, Group

\* A block of an inode table marked.
LEMMA ResultTable ==
  ASSUME P4Inv, ResultInv, P4Table
  PROVE  ResultInv'
<1> DEFINE b == InodeTable[grp] + j4
<1>1. /\ pc = "p4_table" /\ pc' = pc /\ grp' = grp /\ j4' = j4 + 1 /\ j4 < Tables
      /\ UNCHANGED <<bbitmap, tb>>
      /\ IF get_block_alloc_bit(bm, b) = 1 THEN bm' = bm /\ found' = found
         ELSE bm' = Flip(bm, b) /\ found' = TRUE
  BY DEF P4Table, disk, Tables
<1>2. grp \in Group /\ j4 \in Nat /\ Tables \in Nat /\ j4 \in 0 .. Tables - 1
  <2>1. Tables \in Nat
    BY CeilDivNat, SizesAssumption DEF Tables, get_group_inode_block_num
  <2>2. get_block_group_num \in Nat /\ grp < get_block_group_num
    BY GroupNumNat DEF P4Table
  <2>3. QED
    BY <1>1, <2>1, <2>2 DEF P4Inv, P4Locals, Group
<1>3. LayoutSound
  BY DEF ResultInv
<1>4. b \in TableBlocks /\ b \in Block \ {0} /\ b \notin DataBlocks
  BY <1>2, <1>3, TableAt
<1> HIDE DEF b
<1>5. /\ get_block_alloc_bit(bm', b) = 1
      /\ \A c \in Block \ {0} : c # b =>
           get_block_alloc_bit(bm', c) = get_block_alloc_bit(bm, c)
  <2>1. CASE get_block_alloc_bit(bm, b) = 1
    BY <1>1, <2>1
  <2>2. CASE get_block_alloc_bit(bm, b) # 1
    <3>1. get_block_alloc_bit(bm, b) = 0
      BY <1>4, <2>2, BitIn
    <3>2. QED
      BY <1>1, <1>4, <2>2, <3>1, FlipIs
  <2>3. QED
    BY <2>1, <2>2
<1>6. found' = FALSE => bm' = bbitmap'
  BY <1>1 DEF ResultInv
<1>7. \A c \in DataBlocks : get_block_alloc_bit(bm', c) = IF c \in tb' THEN 1 ELSE 0
  <2>1. \A c \in DataBlocks : c # b /\ c \in Block \ {0}
    BY <1>4, DataIn
  <2>2. QED
    BY <1>1, <1>5, <2>1 DEF ResultInv
<1>8. \A c \in Block \ {0} : c \notin DataBlocks \cup TableBlocks =>
        get_block_alloc_bit(bm', c) = get_block_alloc_bit(bbitmap', c)
  BY <1>1, <1>4, <1>5 DEF ResultInv
<1>9. ASSUME NEW g \in Group, NEW j \in 0 .. Tables - 1, TableSeen(g, j)'
      PROVE  get_block_alloc_bit(bm', InodeTable[g] + j) = 1
  <2> DEFINE c == InodeTable[g] + j
  <2>1. c \in Block \ {0}
    BY <1>3, TableAt
  <2>2. CASE c = b
    BY <1>5, <2>2
  <2>3. CASE c # b
    <3>1. g # grp \/ j # j4
      BY <2>3 DEF b
    <3>2. TableSeen(g, j)
      BY <1>1, <1>2, <1>9, <3>1 DEF TableSeen
    <3>3. get_block_alloc_bit(bm, c) = 1
      BY <1>1, <3>2 DEF ResultInv
    <3> HIDE DEF c
    <3>4. get_block_alloc_bit(bm', c) = 1
      BY <1>5, <2>1, <2>3, <3>3
    <3>5. QED
      BY <3>4 DEF c
  <2>4. QED
    BY <2>2, <2>3
<1>10. j4' <= Tables
  BY <1>1, <1>2
<1>11. LayoutSound'
  BY <1>3 DEF LayoutSound
<1>12. QED
  BY <1>1, <1>6, <1>7, <1>8, <1>9, <1>10, <1>11
  DEF ResultInv, DataBlocks, TableBlocks, get_block_alloc_bit, Tables, Group

\* To the table of the next group.
LEMMA ResultNextTable ==
  ASSUME P4Inv, ResultInv, P4NextTable
  PROVE  ResultInv'
<1>1. /\ pc = "p4_table" /\ pc' = pc /\ grp' = grp + 1 /\ j4' = 0 /\ j4 = Tables
      /\ UNCHANGED <<bbitmap, bm, tb, found>>
  BY DEF P4NextTable, disk, Tables
<1>2. grp \in Int /\ Tables \in Nat
  <2>1. grp \in Int
    BY GroupNumNat DEF P4Inv, P4Locals
  <2>2. InodesPerGroup \in Nat /\ InodesPerBlock \in Nat \ {0}
    BY SizesAssumption
  <2>3. Tables \in Nat
    BY <2>2, CeilDivNat DEF Tables, get_group_inode_block_num
  <2>4. QED
    BY <2>1, <2>3
<1>3. ASSUME NEW g \in Group, NEW j \in 0 .. Tables - 1, TableSeen(g, j)'
      PROVE  get_block_alloc_bit(bm, InodeTable[g] + j) = 1
  <2>1. g \in Int /\ j \in Int /\ j >= 0 /\ j < Tables
    BY <1>2, SizesOK DEF Group, Groups
  <2>2. TableSeen(g, j)
    BY <1>1, <1>2, <1>3, <2>1 DEF TableSeen
  <2>3. QED
    BY <1>1, <2>2 DEF ResultInv
<1>4. LayoutSound'
  BY DEF LayoutSound, ResultInv
<1>5. QED
  BY <1>1, <1>2, <1>3, <1>4
  DEF ResultInv, DataBlocks, TableBlocks, get_block_alloc_bit, Tables, Group

\* All tables are marked: the bitmap is written, or was right to begin with.
LEMMA ResultDecide ==
  ASSUME P4Inv, ResultInv, P4Decide
  PROVE  ResultInv'
<1>1. /\ pc = "p4_table" /\ pc' = (IF found THEN "p4_flush" ELSE "done") /\ grp = Groups
      /\ grp' = 0 /\ UNCHANGED <<bbitmap, bm, tb, found>>
  BY DEF P4Decide, disk, Groups
<1>2. \A b \in TableBlocks : get_block_alloc_bit(bm, b) = 1
  <2>1. SUFFICES ASSUME NEW b \in TableBlocks PROVE get_block_alloc_bit(bm, b) = 1
    OBVIOUS
  <2>2. PICK g \in Group : \E j \in 0 .. Tables - 1 : b = InodeTable[g] + j
    BY TableHas
  <2>3. PICK j \in 0 .. Tables - 1 : b = InodeTable[g] + j
    BY <2>2
  <2>4. TableSeen(g, j)
    BY <1>1, SizesOK DEF TableSeen, Group, Groups
  <2>5. QED
    BY <1>1, <2>3, <2>4 DEF ResultInv
<1>3. pc' = "p4_flush" => \A i \in DOMAIN bbitmap : ~ (i \div BlockBits < grp')
  <2>1. DOMAIN bbitmap = 0 .. Groups * BlockBits - 1
    BY DEF P4Inv, DiskTypeOK, IsImage, Bitmap, Groups
  <2>2. \A i \in 0 .. Groups * BlockBits - 1 : i \div BlockBits \in Nat
    BY PlaceIn
  <2>3. QED
    BY <1>1, <2>1, <2>2
<1>4. pc' = "done" => bbitmap = bm
  BY <1>1 DEF ResultInv, P4Inv, P4Locals
<1>5. LayoutSound'
  BY DEF LayoutSound, ResultInv
<1>6. pc' \in {"p4_flush", "done"}
  BY <1>1
<1>7. QED
  BY <1>1, <1>2, <1>3, <1>4, <1>5, <1>6 DEF ResultInv, DataBlocks, TableBlocks, get_block_alloc_bit

\* A group written.
LEMMA WrittenIs ==
  ASSUME P4Inv, P4Write
  PROVE  /\ DOMAIN bbitmap = 0 .. Groups * BlockBits - 1 /\ DOMAIN bbitmap' = DOMAIN bbitmap
         /\ \A i \in DOMAIN bbitmap :
              bbitmap'[i] = IF i \div BlockBits = grp THEN bm[i] ELSE bbitmap[i]
<1>1. bbitmap' = [i \in DOMAIN bbitmap |-> IF i \div BlockBits = grp THEN bm[i] ELSE bbitmap[i]]
  BY DEF P4Write, WriteGroup
<1>2. DOMAIN bbitmap = 0 .. Groups * BlockBits - 1
  BY DEF P4Inv, DiskTypeOK, IsImage, Bitmap, Groups
<1>3. QED
  BY <1>1, <1>2

\* Writing the bitmap of a group keeps ResultInv.
LEMMA ResultWrite ==
  ASSUME P4Inv, ResultInv, P4Write
  PROVE  ResultInv'
<1>1. /\ pc = "p4_flush" /\ pc' = pc /\ grp' = grp + 1 /\ grp \in Int
      /\ UNCHANGED <<bm, tb, found>>
  BY GroupNumNat DEF P4Write, P4Inv, P4Locals
<1>2. /\ DOMAIN bbitmap = 0 .. Groups * BlockBits - 1 /\ DOMAIN bbitmap' = DOMAIN bbitmap
      /\ \A i \in DOMAIN bbitmap :
           bbitmap'[i] = IF i \div BlockBits = grp THEN bm[i] ELSE bbitmap[i]
  BY WrittenIs
<1>3. ASSUME NEW i \in DOMAIN bbitmap, i \div BlockBits < grp + 1
      PROVE  bbitmap'[i] = bm[i]
  <2>1. i \div BlockBits \in Nat
    BY <1>2, PlaceIn
  <2>2. i \div BlockBits = grp \/ i \div BlockBits < grp
    BY <1>1, <1>3, <2>1
  <2>3. QED
    BY <1>1, <1>2, <2>2 DEF ResultInv
<1>4. ASSUME NEW b \in Block \ {0}, b \notin DataBlocks \cup TableBlocks
      PROVE  get_block_alloc_bit(bm, b) = get_block_alloc_bit(bbitmap', b)
  <2>1. b - 1 \in DOMAIN bbitmap
    BY <1>2, BitOf
  <2>2. bm[b - 1] = bbitmap[b - 1]
    BY <1>1, <1>4 DEF ResultInv, get_block_alloc_bit
  <2>3. QED
    BY <1>2, <2>1, <2>2 DEF get_block_alloc_bit
<1>5. LayoutSound'
  BY DEF LayoutSound, ResultInv
<1>6. QED
  BY <1>1, <1>2, <1>3, <1>4, <1>5 DEF ResultInv, DataBlocks, TableBlocks, get_block_alloc_bit

\* Two bitmaps with the same bits are the same.
LEMMA SameBits ==
  ASSUME NEW S, NEW f \in [S -> 0 .. 1], NEW g \in [S -> 0 .. 1], \A i \in S : f[i] = g[i]
  PROVE  f = g
OBVIOUS

\* All groups are written: both bitmaps are the same.
LEMMA ResultDone ==
  ASSUME P4Inv, ResultInv, P4Done
  PROVE  ResultInv'
<1>1. /\ pc = "p4_flush" /\ pc' = "done" /\ grp = Groups /\ UNCHANGED <<bbitmap, bm, tb>>
  BY DEF P4Done, disk, Groups
<1>2. /\ bm \in [0 .. Groups * BlockBits - 1 -> 0 .. 1]
      /\ bbitmap \in [0 .. Groups * BlockBits - 1 -> 0 .. 1]
  BY DEF P4Inv, P4Locals, DiskTypeOK, IsImage, Bitmap, Groups
<1>3. \A i \in 0 .. Groups * BlockBits - 1 : bbitmap[i] = bm[i]
  BY <1>1, <1>2, PlaceIn DEF ResultInv
<1>4. bbitmap = bm
  <2> DEFINE n == Groups * BlockBits - 1
  <2> HIDE DEF n
  <2>1. /\ bm \in [0 .. n -> 0 .. 1] /\ bbitmap \in [0 .. n -> 0 .. 1]
        /\ \A i \in 0 .. n : bbitmap[i] = bm[i]
    BY <1>2, <1>3 DEF n
  <2>2. QED
    BY <2>1, SameBits
<1>5. LayoutSound'
  BY DEF LayoutSound, ResultInv
<1>6. QED
  BY <1>1, <1>4, <1>5 DEF ResultInv, DataBlocks, TableBlocks, get_block_alloc_bit

\* ResultInv holds before pass 4.
LEMMA ResultInit == P4Init /\ LayoutSound => ResultInv
BY DEF P4Init, ResultInv

\* Every step of pass 4 keeps ResultInv.
LEMMA ResultStep ==
  P4Inv /\ ComparedInv /\ ResultInv /\ [P4Next]_p4vars => ResultInv'
<1> SUFFICES ASSUME P4Inv, ComparedInv, ResultInv, [P4Next]_p4vars PROVE ResultInv'
  OBVIOUS
<1>1. LayoutSound /\ LayoutSound'
  BY DEF LayoutSound, ResultInv
<1>2. CASE P4Start
  BY <1>1, <1>2 DEF P4Start, disk, ResultInv
<1>3. CASE Walking
  <2>1. pc = "p4_walk" /\ pc' = pc /\ UNCHANGED <<bm, bbitmap, found>>
    BY <1>3 DEF Walking, P4Open, P4Entry, P4NextBlock, P4Return, disk
  <2>2. QED
    BY <1>1, <2>1 DEF ResultInv
<1>4. CASE P4Walked
  <2>1. pc = "p4_walk" /\ pc' = "p4_compare" /\ UNCHANGED <<bm, bbitmap, found>>
    BY <1>4 DEF P4Walked, disk
  <2>2. QED
    BY <1>1, <2>1 DEF ResultInv
<1>5. CASE P4NextGroup
  <2>1. pc = "p4_compare" /\ pc' = pc /\ UNCHANGED <<bm, bbitmap, found>>
    BY <1>5 DEF P4NextGroup, Comparing, disk
  <2>2. QED
    BY <1>1, <2>1 DEF ResultInv, DataBlocks, TableBlocks, get_block_alloc_bit
<1>6. CASE P4Compare
  BY <1>6, ResultCompare
<1>7. CASE Behind
  BY <1>7, ResultCompared, ResultTable, ResultNextTable, ResultDecide, ResultWrite, ResultDone
  DEF Behind
<1>8. CASE UNCHANGED p4vars
  <2>1. UNCHANGED <<pc, bm, bbitmap, found, grp, j4, tb>>
    BY <1>8 DEF p4vars, disk
  <2>2. QED
    BY <1>1, <2>1 DEF ResultInv, TableSeen, DataBlocks, TableBlocks, get_block_alloc_bit, Tables, Group
<1>9. QED
  BY <1>2, <1>3, <1>4, <1>5, <1>6, <1>7, <1>8 DEF P4Next, Walking, Behind

\* How far the bitmap is right, at every time of pass 4.
LEMMA Pass4ResultInvariant ==
  P4Spec /\ TreeSound /\ LayoutSound => [](P4Inv /\ FoundInv /\ ComparedInv /\ ResultInv)
<1>1. P4Init /\ TreeSound /\ LayoutSound => P4Inv /\ FoundInv /\ ComparedInv /\ ResultInv
  BY P4InvInit, FoundInit, ComparedInit, ResultInit
<1>2. P4Inv /\ FoundInv /\ ComparedInv /\ ResultInv /\ [P4Next]_p4vars =>
        (P4Inv /\ FoundInv /\ ComparedInv /\ ResultInv)'
  BY P4InvStep, FoundInvStep, ComparedStep, ResultStep
<1>3. QED
  BY <1>1, <1>2, PTL DEF P4Spec

\* FoundInv and ResultInv know the bitmap in the end.
LEMMA FoundResult == FoundInv /\ ResultInv => P4Result
<1> SUFFICES ASSUME FoundInv, ResultInv, pc = "done" PROVE BlockBitmapOK
  BY DEF P4Result
<1>1. tb \ {0} = UsedBlocks /\ bbitmap = bm /\ LayoutSound
  BY DEF FoundInv, P4TrueBitmap, ResultInv
<1>2. \A b \in DataBlocks : BlockBit(b) = IF b \in UsedBlocks THEN 1 ELSE 0
  <2>1. SUFFICES ASSUME NEW b \in DataBlocks
                 PROVE  BlockBit(b) = IF b \in UsedBlocks THEN 1 ELSE 0
    OBVIOUS
  <2>2. b \in Block \ {0}
    BY DataIn
  <2>3. BlockBit(b) = get_block_alloc_bit(bm, b)
    BY <1>1, <2>2, BlockBitIs
  <2>4. get_block_alloc_bit(bm, b) = IF b \in tb THEN 1 ELSE 0
    BY DEF ResultInv
  <2>5. b \in tb <=> b \in UsedBlocks
    BY <1>1, <2>2
  <2>6. QED
    BY <2>3, <2>4, <2>5
<1>3. \A b \in TableBlocks : BlockBit(b) = 1
  <2>1. \A b \in TableBlocks : b \in Block \ {0} /\ get_block_alloc_bit(bm, b) = 1
    BY <1>1 DEF LayoutSound, ResultInv
  <2>2. QED
    BY <1>1, <2>1, BlockBitIs
<1>4. QED
  BY <1>2, <1>3 DEF BlockBitmapOK

\* On such a partition, laid out as mke2fs does, the bitmap on the disk is right
\* when pass 4 ends, whichever bits were wrong: every data block is marked if
\* and only if the tree uses it, and the inode tables are marked.
THEOREM Pass4Result == P4Spec /\ TreeSound /\ LayoutSound => []P4Result
<1>1. FoundInv /\ ResultInv => P4Result
  BY FoundResult
<1>2. QED
  BY <1>1, Pass4ResultInvariant, PTL

\* On such a partition a write of the bitmap, one group at a time, makes no bit
\* of a data block or an inode table wrong and changes no other bit.
THEOREM Pass4NoRegress == P4Spec /\ TreeSound /\ LayoutSound => P4NoRegress
<1> DEFINE Keep ==
      bbitmap' # bbitmap =>
        \A b \in Block \ {0} :
          RightBlockBit(b) \/ b \notin DataBlocks \cup TableBlocks => BlockBit(b)' = BlockBit(b)
<1>1. P4Inv /\ FoundInv /\ ComparedInv /\ ResultInv /\ [P4Next]_p4vars => Keep
  <2> SUFFICES ASSUME P4Inv, FoundInv, ResultInv, [P4Next]_p4vars, bbitmap' # bbitmap,
                      NEW b \in Block \ {0},
                      RightBlockBit(b) \/ b \notin DataBlocks \cup TableBlocks
               PROVE  BlockBit(b)' = BlockBit(b)
    OBVIOUS
  <2>1. P4Write
    BY DEF P4Next, P4Start, P4Open, P4Entry, P4NextBlock, P4Return, P4Walked, P4Compare,
           P4NextGroup, P4Compared, P4Table, P4NextTable, P4Decide, P4Done, p4vars, disk
  <2>2. /\ pc = "p4_flush" /\ LayoutSound /\ tb \ {0} = UsedBlocks
        /\ BlockBit(b) = get_block_alloc_bit(bbitmap, b)
    BY <2>1, BlockBitIs DEF P4Write, ResultInv, FoundInv, P4TrueBitmap
  <2>3. BlockBit(b)' = get_block_alloc_bit(bbitmap', b)
    <3> DEFINE i == b - 1
    <3>1. i \in Nat /\ BlocksPerGroup \in Nat \ {0} /\ BlockBits = BlocksPerGroup
      BY <2>2, SizesAssumption DEF Block, LayoutSound
    <3> HIDE DEF i
    <3>2. (i \div BlocksPerGroup) * BlockBits + (i % BlocksPerGroup) = i
      BY <3>1, PlaceIs
    <3>3. QED
      BY <3>2 DEF BlockBit, get_block_alloc_bit, i
  <2>4. get_block_alloc_bit(bbitmap', b) \in
          {get_block_alloc_bit(bm, b), get_block_alloc_bit(bbitmap, b)}
    <3>1. b - 1 \in DOMAIN bbitmap
      BY <2>1, BitOf, WrittenIs
    <3>2. QED
      BY <2>1, <3>1, WrittenIs DEF get_block_alloc_bit
  <2>5. get_block_alloc_bit(bm, b) = get_block_alloc_bit(bbitmap, b)
    <3>1. CASE b \notin DataBlocks \cup TableBlocks
      BY <2>2, <3>1 DEF ResultInv
    <3>2. CASE b \in TableBlocks /\ RightBlockBit(b)
      BY <2>2, <3>2 DEF ResultInv, RightBlockBit
    <3>3. CASE b \in DataBlocks /\ RightBlockBit(b)
      <4>1. b \notin TableBlocks
        BY <2>2, <3>3 DEF LayoutSound
      <4>2. BlockBit(b) = IF b \in tb THEN 1 ELSE 0
        BY <2>2, <3>3, <4>1 DEF RightBlockBit
      <4>3. get_block_alloc_bit(bm, b) = IF b \in tb THEN 1 ELSE 0
        BY <2>2, <3>3 DEF ResultInv
      <4>4. QED
        BY <2>2, <4>2, <4>3
    <3>4. QED
      BY <3>1, <3>2, <3>3
  <2>6. QED
    BY <2>2, <2>3, <2>4, <2>5
<1>2. QED
  BY <1>1, Pass4ResultInvariant, PTL DEF P4Spec, P4NoRegress

=============================================================================
