------------------------------- MODULE Pass3 -------------------------------
(***************************************************************************)
(* Pass 3: count the entries that name each inode and make i_links_count   *)
(* say the same (pass3, write_inode).                                      *)
(***************************************************************************)
EXTENDS DirTraversor

VARIABLE i3  \* inode the comparison is at

\* Every inode is in a group of blocks, and the inode tables of two groups have
\* no block in common.
ASSUME TablesAssumption ==
  /\ get_inode_group_num <= get_block_group_num
  /\ \A g, h \in Group : g # h =>
       \/ InodeTable[g] + get_group_inode_block_num <= InodeTable[h]
       \/ InodeTable[h] + get_group_inode_block_num <= InodeTable[g]

p3vars == <<disk, pc, refs, stack2, i3>>

P3TypeOK ==
  /\ DiskTypeOK
  /\ TrTypeOK
  /\ pc \in {"pass3", "p3_walk", "p3_scan", "pass4"}
  /\ i3 \in 1 .. NInodes + 1

-----------------------------------------------------------------------------

get_inode_group_offset(n) == (n - 1) \div InodesPerGroup
get_inode_offset_in_group(n) == (n - 1) % InodesPerGroup

\* Where read_inode finds inode n, counted in inodes from the start of the
\* partition: at its offset in the inode table of its group.
ReadAt(n) ==
  InodeTable[get_inode_group_offset(n)] * InodesPerBlock + get_inode_offset_in_group(n)

\* Faulty variant: always the first block of the table.
WrittenAt_FirstBlock(n) ==
  InodeTable[get_inode_group_offset(n)] * InodesPerBlock
    + (get_inode_offset_in_group(n) % InodesPerBlock)

\* Where write_inode puts the count: in the block of the table with that offset.
WrittenAt(n) ==
  LET index == get_inode_offset_in_group(n) \div InodesPerBlock
      offset_in_block == get_inode_offset_in_group(n) % InodesPerBlock
  IN  (InodeTable[get_inode_group_offset(n)] + index) * InodesPerBlock + offset_in_block

\* The counts as they are read once count has been written for inode n: two
\* bytes of it, a negative char included.
write_inode(n, count) ==
  [m \in Inode |-> IF ReadAt(m) = WrittenAt(n) THEN count % 65536 ELSE links[m]]

-----------------------------------------------------------------------------

P3Init ==
  /\ ImageInit
  /\ pc = "pass3"
  /\ refs = NoRefs
  /\ stack2 = <<>>
  /\ i3 = 1

\* Faulty variants: the comparison starts at 0; the counts are not cleared.
P3Start_FromZero ==
  /\ pc = "pass3"
  /\ pc' = "p3_walk"
  /\ refs' = NoRefs
  /\ stack2' = <<Call2(ROOT_INODE_NUM)>>
  /\ i3' = 0
  /\ UNCHANGED disk

P3Start_OldCounts ==
  /\ pc = "pass3"
  /\ pc' = "p3_walk"
  /\ stack2' = <<Call2(ROOT_INODE_NUM)>>
  /\ i3' = 1
  /\ UNCHANGED <<disk, refs>>

P3Start ==
  /\ pc = "pass3"
  /\ pc' = "p3_walk"
  /\ refs' = NoRefs
  /\ stack2' = <<Call2(ROOT_INODE_NUM)>>
  /\ i3' = 1
  /\ UNCHANGED disk

P3Traverse ==
  /\ pc = "p3_walk"
  /\ TrNext
  /\ UNCHANGED i3

P3Walked ==
  /\ pc = "p3_walk"
  /\ stack2 = <<>>
  /\ pc' = "p3_scan"
  /\ UNCHANGED <<disk, refs, stack2, i3>>

P3Same ==
  /\ pc = "p3_scan"
  /\ i3 <= NInodes
  /\ links[i3] = refs[i3]
  /\ i3' = i3 + 1
  /\ UNCHANGED <<disk, pc, refs, stack2>>

P3Correct ==
  /\ pc = "p3_scan"
  /\ i3 <= NInodes
  /\ links[i3] # refs[i3]
  /\ links' = write_inode(i3, refs[i3])
  /\ i3' = i3 + 1
  /\ UNCHANGED <<pc, inodes, data, overwritten, ibitmap, bbitmap, refs, stack2>>

\* Faulty variant: the loop ends before the last inode.
P3Done_Early ==
  /\ pc = "p3_scan"
  /\ i3 >= NInodes
  /\ pc' = "pass4"
  /\ UNCHANGED <<disk, refs, stack2, i3>>

P3Done ==
  /\ pc = "p3_scan"
  /\ i3 > NInodes
  /\ pc' = "pass4"
  /\ UNCHANGED <<disk, refs, stack2, i3>>

P3Next ==
  \/ P3Start
  \/ P3Traverse
  \/ P3Walked
  \/ P3Same
  \/ P3Correct
  \/ P3Done

P3Spec == P3Init /\ [][P3Next]_p3vars /\ WF_p3vars(P3Next)

-----------------------------------------------------------------------------
(* Properties *)

\* The walk has counted in memory what the tree holds: each entry once, "."
\* and ".." included, second blocks included.
P3CountsExact == pc = "p3_scan" => \A n \in Inode : refs[n] = NumRefs(n)

\* README, pass 3: when the pass ends the link count of every inode is the
\* number of entries that name it.  It holds as long as no inode has more
\* names than a char can count.
P3Result == pc = "pass4" => LinkCountsOK

\* A link count that is right is never changed on the way there.
P3NoRegress ==
  [][ \A n \in Inode : links[n] = NumRefs(n) => UNCHANGED links[n] ]_p3vars

\* A count that is written is that of the inode compared, wherever in the inode
\* table of whichever group it is, and no other inode's count changes with it.
OneCount ==
  \A n \in Inode :
    links'[n] # links[n] => n = i3 /\ links'[n] = refs[n] % 65536
P3OneCount == [][OneCount]_p3vars

=============================================================================
