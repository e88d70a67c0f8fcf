------------------------------- MODULE Pass4 -------------------------------
(***************************************************************************)
(* Pass 4: walk the tree to find the blocks in use, compare them with the  *)
(* block bitmap, and write the bitmap back if anything was wrong (pass4,   *)
(* get_true_block_bitmap, write_block_bitmap_in_partition).                *)
(*                                                                         *)
(* The bitmap on the disk is written one group after the other.            *)
(***************************************************************************)
EXTENDS FileBlocks

VARIABLES
  stack4,  \* active calls of get_true_block_bitmap, the running one last
  tb,      \* the blocks marked in true_bitmap
  bm,      \* bitmap, the copy of the block bitmap in memory
  grp,     \* i: the group the loop is at
  j4,      \* j: how far the loop is in the group
  bid,     \* block_id
  found    \* found_error

\* Every group has a data block: a last group no longer than its metadata, the
\* one-block group of s_blocks_count = 1 modulo blocks_per_group among them, has
\* the loop compare blocks that are not there.
ASSUME GeometryAssumption ==
  /\ get_skip_block_num_in_group < BlocksPerGroup
  /\ (get_block_group_num - 1) * BlocksPerGroup + get_skip_block_num_in_group + 1 < BlocksCount

p4vars == <<disk, pc, stack4, tb, bm, grp, j4, bid, found>>

\* pos 0 is a call that has still to mark and read the block at blk.
Frame4 == [dir: Inode, blk: Nat \ {0}, pos: Nat]

P4TypeOK ==
  /\ DiskTypeOK
  /\ pc \in {"pass4", "p4_walk", "p4_compare", "p4_table", "p4_flush", "done"}
  /\ stack4 \in Seq(Frame4)
  /\ tb \subseteq Block
  /\ bm \in Bitmap(get_block_group_num * BlockBits)
  /\ grp \in 0 .. get_block_group_num
  /\ j4 \in Nat /\ bid \in Nat /\ found \in BOOLEAN

-----------------------------------------------------------------------------

Top4 == stack4[Len(stack4)]
Resume4(f) == [stack4 EXCEPT ![Len(stack4)] = f]
Call4(n) == [dir |-> n, blk |-> 1, pos |-> 0]

InBlocks4(f) == f.blk <= Len(inodes[f.dir].blks)
BlockId4(f) == inodes[f.dir].blks[f.blk]
HasEntry4(f) ==
  /\ InBlocks4(f) /\ f.pos > 0 /\ f.pos <= Len(data[BlockId4(f)])
  /\ data[BlockId4(f)][f.pos].ino # 0
Entry4(f) == data[BlockId4(f)][f.pos].ino

\* Faulty variant: a bit is set by adding one.
Flip_Add(bitmap, b) == [bitmap EXCEPT ![b - 1] = 1 + @]

Flip(bitmap, b) == [bitmap EXCEPT ![b - 1] = 1 - @]

\* Faulty variant: the first group's bits are written to every group.
WriteGroup_First(g) ==
  [i \in DOMAIN bbitmap |-> IF i \div BlockBits = g THEN bm[i % BlockBits] ELSE bbitmap[i]]

\* The bitmap blocks of group g are written.
WriteGroup(g) ==
  [i \in DOMAIN bbitmap |-> IF i \div BlockBits = g THEN bm[i] ELSE bbitmap[i]]

Comparing == pc = "p4_compare" /\ grp < get_block_group_num
\* Faulty variant: the loop leaves the last block of a group out.
InGroup_OneShort == j4 + get_skip_block_num_in_group + 1 < BlocksPerGroup

InGroup == j4 + get_skip_block_num_in_group < BlocksPerGroup

\* Faulty variant: the inode table is not skipped.
SkipHead_NoTable(b) == b + get_skip_block_num_in_group - get_group_inode_block_num

\* block_id when the loop turns to the next group: past its metadata.
SkipHead(b) == b + get_skip_block_num_in_group

-----------------------------------------------------------------------------

P4Init ==
  /\ ImageInit
  /\ pc = "pass4"
  /\ stack4 = <<>>
  /\ tb = {}
  /\ bm = bbitmap
  /\ grp = 0 /\ j4 = 0 /\ bid = 1
  /\ found = FALSE

P4Start ==
  /\ pc = "pass4"
  /\ pc' = "p4_walk"
  /\ bm' = bbitmap
  /\ tb' = {}
  /\ stack4' = <<Call4(ROOT_INODE_NUM)>>
  /\ grp' = 0 /\ j4' = 0 /\ bid' = 1
  /\ found' = FALSE
  /\ UNCHANGED disk

P4Open ==
  /\ pc = "p4_walk" /\ stack4 # <<>>
  /\ InBlocks4(Top4)
  /\ Top4.pos = 0
  /\ tb' = tb \cup {BlockId4(Top4)}
  /\ stack4' = Resume4([Top4 EXCEPT !.pos = 1])
  /\ UNCHANGED <<disk, pc, bm, grp, j4, bid, found>>

\* An entry: the mode of the inode says what is done, whatever the type in the
\* entry.  Everything that is no link and no regular file is walked into.
P4Entry ==
  /\ pc = "p4_walk" /\ stack4 # <<>>
  /\ HasEntry4(Top4)
  /\ LET next == Resume4([Top4 EXCEPT !.pos = @ + 1])
         n == Entry4(Top4)
         named == Top4.blk > 1 \/ Top4.pos > 2
     IN  /\ stack4' = IF named /\ inodes[n].mode \notin {"lnk", "reg"}
                      THEN Append(next, Call4(n)) ELSE next
         /\ tb' = IF named /\ inodes[n].mode = "reg"
                  THEN tb \cup get_file_block_bitmap(n) ELSE tb
  /\ UNCHANGED <<disk, pc, bm, grp, j4, bid, found>>

\* Faulty variant: the same block again.
P4NextBlock_Again ==
  /\ pc = "p4_walk" /\ stack4 # <<>>
  /\ InBlocks4(Top4)
  /\ Top4.pos > 0
  /\ ~HasEntry4(Top4)
  /\ stack4' = Resume4([Top4 EXCEPT !.pos = 0])
  /\ UNCHANGED <<disk, pc, tb, bm, grp, j4, bid, found>>

P4NextBlock ==
  /\ pc = "p4_walk" /\ stack4 # <<>>
  /\ InBlocks4(Top4)
  /\ Top4.pos > 0
  /\ ~HasEntry4(Top4)
  /\ stack4' = Resume4([Top4 EXCEPT !.blk = @ + 1, !.pos = 0])
  /\ UNCHANGED <<disk, pc, tb, bm, grp, j4, bid, found>>

P4Return ==
  /\ pc = "p4_walk" /\ stack4 # <<>>
  /\ ~InBlocks4(Top4)
  /\ stack4' = SubSeq(stack4, 1, Len(stack4) - 1)
  /\ UNCHANGED <<disk, pc, tb, bm, grp, j4, bid, found>>

\* The loop over the groups starts in group 0.
P4Walked ==
  /\ pc = "p4_walk" /\ stack4 = <<>>
  /\ pc' = "p4_compare"
  /\ bid' = SkipHead(bid)
  /\ UNCHANGED <<disk, stack4, tb, bm, grp, j4, found>>

\* One block compared; the loop of the group is left at the last block.
P4Compare ==
  /\ Comparing /\ InGroup
  /\ LET wrong == get_block_alloc_bit(bm, bid) # IF bid \in tb THEN 1 ELSE 0
     IN  /\ bm' = IF wrong THEN Flip(bm, bid) ELSE bm
         /\ found' = (found \/ wrong)
  /\ bid' = bid + 1
  /\ j4' = IF bid + 1 >= BlocksCount THEN BlocksPerGroup ELSE j4 + 1
  /\ UNCHANGED <<disk, pc, stack4, tb, grp>>

P4NextGroup ==
  /\ Comparing /\ ~InGroup
  /\ grp' = grp + 1
  /\ j4' = 0
  /\ bid' = IF grp + 1 < get_block_group_num THEN SkipHead(bid) ELSE bid
  /\ UNCHANGED <<disk, pc, stack4, tb, bm, found>>

P4Compared ==
  /\ pc = "p4_compare" /\ grp = get_block_group_num
  /\ pc' = "p4_table"
  /\ grp' = 0 /\ j4' = 0
  /\ UNCHANGED <<disk, stack4, tb, bm, bid, found>>

\* Faulty variant: found_error is left alone.
P4Table_NotFound ==
  /\ pc = "p4_table" /\ grp < get_block_group_num
  /\ j4 < get_group_inode_block_num
  /\ bid' = InodeTable[grp] + j4
  /\ bm' = IF get_block_alloc_bit(bm, bid') = 1 THEN bm ELSE Flip(bm, bid')
  /\ j4' = j4 + 1
  /\ UNCHANGED <<disk, pc, stack4, tb, grp, found>>

\* One block of an inode table: it is always in use.
P4Table ==
  /\ pc = "p4_table" /\ grp < get_block_group_num
  /\ j4 < get_group_inode_block_num
  /\ bid' = InodeTable[grp] + j4
  /\ IF get_block_alloc_bit(bm, bid') = 1
     THEN UNCHANGED <<bm, found>>
     ELSE bm' = Flip(bm, bid') /\ found' = TRUE
  /\ j4' = j4 + 1
  /\ UNCHANGED <<disk, pc, stack4, tb, grp>>

P4NextTable ==
  /\ pc = "p4_table" /\ grp < get_block_group_num
  /\ j4 = get_group_inode_block_num
  /\ grp' = grp + 1
  /\ j4' = 0
  /\ UNCHANGED <<disk, pc, stack4, tb, bm, bid, found>>

P4Decide ==
  /\ pc = "p4_table" /\ grp = get_block_group_num
  /\ pc' = IF found THEN "p4_flush" ELSE "done"
  /\ grp' = 0
  /\ UNCHANGED <<disk, stack4, tb, bm, j4, bid, found>>

P4Write ==
  /\ pc = "p4_flush" /\ grp < get_block_group_num
  /\ bbitmap' = WriteGroup(grp)
  /\ grp' = grp + 1
  /\ UNCHANGED <<pc, inodes, links, data, overwritten, ibitmap, stack4, tb, bm,
                 j4, bid, found>>

P4Done ==
  /\ pc = "p4_flush" /\ grp = get_block_group_num
  /\ pc' = "done"
  /\ UNCHANGED <<disk, stack4, tb, bm, grp, j4, bid, found>>

P4Next ==
  \/ P4Start
  \/ P4Open
  \/ P4Entry
  \/ P4NextBlock
  \/ P4Return
  \/ P4Walked
  \/ P4Compare
  \/ P4NextGroup
  \/ P4Compared
  \/ P4Table
  \/ P4NextTable
  \/ P4Decide
  \/ P4Write
  \/ P4Done

P4Spec == P4Init /\ [][P4Next]_p4vars /\ WF_p4vars(P4Next)

-----------------------------------------------------------------------------
(* The partitions pass 4 is right about, those that a partition is after   *)
(* pass 1 and as mke2fs lays it out.                                       *)

TreeSound ==
  TreeShape /\ DirectoryPointersOK /\ NamesTrue /\ PointersFit /\ BootBlockEmpty

\* The bitmap blocks of a group have no bits to spare, and the inode tables
\* are among the metadata.
LayoutSound ==
  /\ BlockBits = BlocksPerGroup
  /\ TableBlocks \subseteq Block \ ({0} \cup DataBlocks)

-----------------------------------------------------------------------------
(* Properties *)

\* The walk has found the blocks of everything the tree names and no other;
\* block 0, which holes mark, is no block of the bitmap.
P4TrueBitmap ==
  pc \in {"p4_compare", "p4_table", "p4_flush", "done"} => tb \ {0} = UsedBlocks

\* block_id, which the loops only ever increment, is where i and j say: never
\* on the metadata of a group and never behind the last block.
P4LoopAt ==
  Comparing /\ InGroup =>
    /\ bid = 1 + grp * BlocksPerGroup + get_skip_block_num_in_group + j4
    /\ bid \in DataBlocks

\* Behind the loop the bitmap in memory is right: no data block is passed over
\* when the loop turns to the next group or is left at the last block, and when
\* all groups are done none is left.
P4Compared_OK ==
  pc = "p4_compare" =>
    /\ \A b \in DataBlocks :
         b < bid => get_block_alloc_bit(bm, b) = IF b \in tb THEN 1 ELSE 0
    /\ grp = get_block_group_num => bid >= BlocksCount

\* README, pass 4: when the pass ends the block bitmap says of every data block
\* whether the tree uses it, and the inode tables are marked.
P4Result == pc = "done" => BlockBitmapOK

RightBlockBit(b) ==
  BlockBit(b) = IF b \in UsedBlocks \cup TableBlocks THEN 1 ELSE 0

\* The bitmap is written one group after the other.  No write makes the bit of
\* a data block or of an inode table wrong, and none changes the bit of another
\* block, so a run cut short between two of them leaves nothing worse.
P4NoRegress ==
  [][ bbitmap' # bbitmap =>
        \A b \in Block \ {0} :
          RightBlockBit(b) \/ b \notin DataBlocks \cup TableBlocks =>
            BlockBit(b)' = BlockBit(b) ]_p4vars

\* The pass ends.
P4Terminates == <>(pc = "done")

=============================================================================
