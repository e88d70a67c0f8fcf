-------------------------------- MODULE Fsck --------------------------------
(***************************************************************************)
(* The four passes one after the other, as correct_one_partition runs      *)
(* them, on one partition; a run that is killed between any two writes;    *)
(* and further runs on what the last one left on the disk.                 *)
(*                                                                         *)
(* Whatever is not on the disk is lost when a run ends.                    *)
(***************************************************************************)
EXTENDS Pass1, Pass2, Pass3, Pass4

CONSTANT MaxRuns  \* bound on the number of runs

ASSUME MaxRunsAssumption == MaxRuns \in Nat \ {0}

VARIABLE runs  \* runs started so far

locals == <<stack1, refs, stack2, i2, lf, i3, stack4, tb, bm, grp, j4, bid, found>>
vars == <<disk, pc, locals, runs>>

Passes == {"pass1", "p1_walk", "pass2", "p2_walk", "p2_scan", "p2_sub", "p2_dotdot",
           "pass3", "p3_walk", "p3_scan", "pass4", "p4_walk", "p4_compare",
           "p4_table", "p4_flush"}
Ended == {"done", "exit", "killed"}

LocalsInit ==
  /\ stack1 = <<>> /\ refs = NoRefs /\ stack2 = <<>> /\ i2 = 1 /\ lf = 0 /\ i3 = 1
  /\ stack4 = <<>> /\ tb = {} /\ bm = bbitmap /\ grp = 0 /\ j4 = 0 /\ bid = 1
  /\ found = FALSE

\* The memory of the process is gone.
LoseLocals ==
  /\ stack1' = <<>> /\ refs' = NoRefs /\ stack2' = <<>> /\ i2' = 1 /\ lf' = 0 /\ i3' = 1
  /\ stack4' = <<>> /\ tb' = {} /\ bm' = bbitmap /\ grp' = 0 /\ j4' = 0 /\ bid' = 1
  /\ found' = FALSE

-----------------------------------------------------------------------------

Init ==
  /\ ImageInit
  /\ pc = "pass1"
  /\ LocalsInit
  /\ runs = 1

Step1 ==
  P1Next /\ UNCHANGED <<refs, stack2, i2, lf, i3, stack4, tb, bm, grp, j4, bid, found, runs>>
Step2 ==
  P2Next /\ UNCHANGED <<stack1, i3, stack4, tb, bm, grp, j4, bid, found, runs>>
Step3 ==
  P3Next /\ UNCHANGED <<stack1, i2, lf, stack4, tb, bm, grp, j4, bid, found, runs>>
Step4 ==
  P4Next /\ UNCHANGED <<stack1, refs, stack2, i2, lf, i3, runs>>

Step == Step1 \/ Step2 \/ Step3 \/ Step4

\* The process is killed, or the machine stops: what is written is written.
Kill ==
  /\ pc \in Passes
  /\ pc' = "killed"
  /\ LoseLocals
  /\ UNCHANGED <<disk, runs>>

Rerun ==
  /\ pc \in Ended
  /\ runs < MaxRuns
  /\ pc' = "pass1"
  /\ LoseLocals
  /\ runs' = runs + 1
  /\ UNCHANGED disk

Next == Step \/ Kill \/ Rerun

Spec == Init /\ [][Next]_vars /\ WF_vars(Step)

-----------------------------------------------------------------------------
(* The partitions a run can put in order, wherever the runs before it have *)
(* been killed.                                                            *)

\* What no pass writes: the inode bitmap is read where it is, the bitmaps and
\* tables are laid out as mke2fs does, no file is longer than pass 4 can follow,
\* what is neither file, directory nor link has no blocks, and no directory has
\* a hole.
LayoutKept ==
  /\ BitsCover /\ LayoutSound /\ PointersFit /\ BootBlockEmpty
  /\ \A n \in Inode :
       /\ inodes[n].mode = "reg" => inodes[n].size <= DoubleIndirectMax
       /\ inodes[n].mode \in {"none", "other"} => inodes[n].blks = <<>>
       /\ IsDir(n) => \A k \in DOMAIN inodes[n].blks : inodes[n].blks[k] # 0

\* No block is two blocks of directories, or the first block of another inode in
\* use and a block of a directory.
BlocksOwn ==
  LET dirs == KeptDirs
  IN  /\ \A c, d \in dirs :
           \A j \in DOMAIN inodes[c].blks, k \in DOMAIN inodes[d].blks :
             inodes[c].blks[j] = inodes[d].blks[k] => c = d /\ j = k
      /\ \A n \in Inode : get_inode_alloc_bit(n) = 1 /\ ~IsDir(n) =>
           \A d \in dirs : \A k \in DOMAIN inodes[d].blks :
             inodes[d].blks[k] # FirstBlock(n)

\* Each directory starts with "." and "..", in use though they may name what they
\* like, and no later block of one starts with the name of a directory: lost+found,
\* where such a name may be added, has two entries there, or an unused one.
HeadsThere ==
  LET entries == KeptEntries
  IN  /\ \A d \in KeptDirs : \A p \in 1 .. 2 :
           <<d, 1, p>> \in entries /\ EntryAt(d, <<1, p>>).typ = "dir"
      /\ \A p \in 1 .. 2 : EntryAt(ROOT_INODE_NUM, <<1, p>>).nm # "lost+found"
      /\ \A x \in entries : x[2] > 1 /\ x[3] <= 2 => ~NamesDir(x)
      /\ LostFound # 0 =>
           \A k \in DOMAIN inodes[LostFound].blks :
             LET block == data[inodes[LostFound].blks[k]]
             IN  k > 1 => Hole(block) \/ Len(block) >= 2

\* In a lost directory, which pass 1 does not come to, "." is right, and so is
\* the ".." of what it names.
LostRight ==
  LET tree == TreeDirs
  IN  \A d \in KeptDirs \ tree :
        SelfOK(d) /\ \A c \in SubDirs(d) : Pointer(c, 2) = d

\* After every write of pass1_corrector, add_to_lost_found, write_inode and
\* write_block_bitmap_in_group the partition is one the four passes can put in
\* order: a run that is killed there can be repeated.
Mendable ==
  /\ LayoutKept /\ BlocksOwn /\ TreesThere /\ HeadsThere /\ LostRight
  /\ LostInOrder /\ LostFoundSound

\* What the entries add_to_lost_found writes can use up is not used up: a char can
\* count the names there are when directory_traversor starts to count them, and
\* when add_to_lost_found is about to be called lost+found is there and has room.
Enough ==
  /\ pc \in {"pass2", "pass3"} => KeptFit
  /\ pc = "p2_sub" => RoomLeft

-----------------------------------------------------------------------------
(* Properties *)

FsckTypeOK ==
  /\ DiskTypeOK /\ TrTypeOK
  /\ pc \in Passes \cup Ended
  /\ stack1 \in Seq(Frame1) /\ stack4 \in Seq(Frame4)
  /\ i2 \in 1 .. NInodes + 1 /\ i3 \in 1 .. NInodes + 1 /\ lf \in 0 .. NInodes
  /\ tb \subseteq Block
  /\ bm \in Bitmap(get_block_group_num * BlockBits)
  /\ grp \in 0 .. get_block_group_num
  /\ runs \in 1 .. MaxRuns

\* Which of the four conditions the partition satisfies, and how many passes
\* of the run are over.
Good ==
  (IF DirectoryPointersOK THEN {1} ELSE {}) \cup (IF UnreferencedOK THEN {2} ELSE {})
    \cup (IF LinkCountsOK THEN {3} ELSE {}) \cup (IF BlockBitmapOK THEN {4} ELSE {})

Stage ==
  CASE pc \in {"pass1", "p1_walk"} -> 0
    [] pc \in {"pass2", "p2_walk", "p2_scan", "p2_sub", "p2_dotdot"} -> 1
    [] pc \in {"pass3", "p3_walk", "p3_scan"} -> 2
    [] pc \in {"pass4", "p4_walk", "p4_compare", "p4_table", "p4_flush"} -> 3
    [] pc = "done" -> 4
    [] OTHER -> 5

Promise == INSTANCE Repair WITH stage <- Stage, good <- Good

\* README: the four passes leave a partition with the four kinds of error
\* corrected, each by its pass and none brought back by a later one, also when
\* earlier runs were killed half way.
Repairs == Promise!RepairSpec

\* Every run ends, also one on what a killed run has left.
RepairsEnd == Promise!RunEnds

\* A partition without errors is never written to, except by an
\* add_to_lost_found that is between its two writes.
CleanUntouched ==
  [][Good = 1 .. 4 /\ pc # "p2_dotdot" => UNCHANGED disk]_vars

=============================================================================
