# myFSCK in TLA+

myFSCK is a small `fsck` for ext2 written in C. It reads the partition table of
a disk image, prints one entry of it (`-p N`) or checks and repairs one ext2
partition, or all of them (`-f N`, `-f 0`). The repair is four passes over the
partition (README.md of the program):

1. the first two entries of every directory are `.` and `..`, naming the
   directory itself and its parent;
2. every allocated inode has a name; one without is put into `lost+found`;
3. the link count of every inode is the number of entries that name it;
4. the block bitmap says which blocks are in use.

This directory holds a model of these passes, the runs that check it with TLC,
and proofs about it that TLAPS checks.

## The system

| component | source | state | operations | modules |
|---|---|---|---|---|
| pass 1 | `correct.c` `pass1`, `pass1_corrector` | call stack, one block buffer per call; directory blocks on disk | walk from the root, correct the first two entries | `Pass1`, `Pass1Proofs` |
| reference counting | `correct.c` `directory_traversor` | call stack, `char inode_links_count[]` | count the entries naming each inode | `DirTraversor`, `TreeProofs` |
| pass 2 | `correct.c` `pass2`, `add_to_lost_found`, `create_new_entry`, `write_new_entry`; `dir.c` `search_dir_entry` | the counts, the inode the scan is at, directory blocks | find unreferenced inodes, attach them | `Pass2`, `Pass2Proofs` |
| pass 3 | `correct.c` `pass3`; `inode.c` `write_inode` | the counts, inode table | compare and correct `i_links_count` | `Pass3`, `Pass3Proofs` |
| pass 4 | `correct.c` `pass4`, `get_true_block_bitmap`; `dataBlock.c` | `true_bitmap`, copy of the block bitmap, loop counters | mark used blocks, compare, write the bitmap by group | `Pass4`, `Pass4Proofs` |
| one repair | `correct.c` `correct_one_partition`; `myfsck.c` | what is on the disk | the passes in order; a run that is killed; the next run | `Fsck`, `Repair`, `FsckProofs` |
| file system structures | `superBlock.c`, `groupDescriptor.c`, `inode.c`, `dataBlock.c` | super block, descriptors, inode table, bitmaps | sizes, reading inodes and bits | `Ext2Image` |
| partition table | `partitionEntry.c`; `correct.c` `correct_partition`; `myfsck.c` | the global `partition_entry` | MBR and EBR walk, `-p`, the loop of `-f 0` | `PartitionTable`, `PartitionTableProofs` |
| blocks of large files | `correct.c` `get_file_block_bitmap` | `true_bitmap` | direct, indirect, double indirect walk | `FileBlocks`, used by `Pass4` |
| directory blocks | `correct.c` `pass1_corrector`, `add_to_lost_found`, `create_new_entry`, `write_new_entry`; `dir.c` `read_dir_entry_in_block` | the bytes of a block, on disk and in `dir_block`; `offset`, `len` and the entry last read | follow `rec_len`, find room, write an entry, replace a number | `DirBlock`, `DirList`, `DirBlockProofs` |
| byte coding | `util.c` | none | little-endian numbers, padding | in `DirBlock`, `PartitionTable` |
| sector I/O | `readwrite.c` | the disk image | read and write sectors, exit on error | as far as `Pass2` meets it |

How they interact: everything is one thread of plain calls. The passes share
nothing in memory but the super block and the descriptors (read once) and pass
results on through the disk only. Passes 2 and 3 call the same traversal.
`lost_found_dir` and the counts live for one pass.

What is hard here is not concurrency but a long sequence of reads and writes
through copies:

* the walks are recursive and hold a copy of a block while the calls below them
  write to the disk (pass 1);
* the walks go by the type an entry gives, and nothing checks it against the
  inode: the test in `pass1` that it was called for a directory (`correct.c:31`)
  is never true, because of a macro without parentheses;
* pass 2 changes the tree it has counted, so its counts and the tree drift
  apart in a way that depends on the order of the inode numbers;
* `add_to_lost_found` is two writes to two blocks, and the bitmap is as many
  writes as there are groups: the process can be killed between any two;
* the repair is four passes, once each, so a pass must not bring back what an
  earlier one corrected;
* pass 4 never computes the number of the block it compares, it counts, over
  groups whose heads are skipped;
* the place of a count is computed one way by `read_inode` and another by
  `write_inode`;
* a new directory entry is put behind the last one by cutting that one down,
  with lengths kept in variables that may be stale after an unused entry;
* counts are `char`, link counts 16 bits, sizes are rounded up to whole groups
  and whole blocks;
* the walks do not mark what they have visited: they end because a tree does.

`PROJECT.json` lists the hazards line by line, with the properties that look at
each, or why none does yet.

## The model

`Ext2Image` is the partition: `inodes` (mode and block pointers), `links`
(`i_links_count`), `data` (the entries of every block), `ibitmap`, `bbitmap`,
and `overwritten`, the blocks holding file contents that myfsck has written
into. The sizes are constants (`s_inodes_count`, `s_inodes_per_group`, ...) and
what the code derives from them, `get_skip_block_num_in_group` among them, is
derived by the same formulas. A bitmap is the array the code keeps in memory.
An entry is inode number, type, and whether its name is `lost+found`; entries
have one size, so `offset += len` is a step of one position. As in the code, an
entry with inode number 0 ends the scan of its block. `i_block` is a sequence
that ends at the first 0; of a regular file it is the blocks the size covers.
`IsImage` says which partitions the program may be started on: entries name
inodes, the root is a directory with a block, only files have holes, and no
symbolic link is where a walk would take its target for block numbers. An entry
may call a file a directory. What a block of the file then reads as is its
`data`: text that makes no entries, or entries that name inodes.

`Ext2Meaning` says what a partition *means*, written from the format of ext2
and not from the code: entries, names, the tree, how many entries name an
inode, where the bit of an inode or a block is (`(n-1) / per group`, `(n-1) %
per group`; the code takes bit `n-1` of the concatenated bitmaps), which blocks
are in use (in `FileBlocks`, for files with pointer blocks). The four conditions `DirectoryPointersOK`, `UnreferencedOK`,
`LinkCountsOK` and `BlockBitmapOK` are the four lines of the program's README.

`FileBlocks` is the walk of `get_file_block_bitmap` from the direct, indirect
and double indirect pointers of a file to the set of blocks it marks, with its
three cases by size and its loops that are left in the middle (`Rounds`), and,
beside it, the layout of ext2 (`PathTo`, `FileOwns`), in which a pointer that is
0 is a hole. The numbers in pointer blocks are a constant (`PointersIn`), since
nothing writes them. The walk only marks, so it is one step of `Pass4`.

`Pass3` keeps the counts by inode number, as the entries name them, but writes
them by place: `ReadAt` is where `read_inode` looks for an inode, `WrittenAt`
where `write_inode` puts the count, both counted in inodes from the start of
the partition, and `write_inode` changes the count of whatever inode is at the
place written.

`DirBlock` has the bytes `Pass1` and `Pass2` leave out: the blocks of
`lost+found`, and of the lost directories, as arrays of bytes. It scans them
first as pass 1 does and then, for one lost object after the other, as
`add_to_lost_found` does, and writes what the code writes. A variable of the
code that outlives an iteration (`len`, `entry`, `offset`) is a variable here;
`entry` starts each call as anything (`Uninitialised`), as the code's does.
`dir_block` may become longer than a block: a write behind its end is kept, and
`DTypeOK` says that there is none. `DirList` is what this amounts to, written
without bytes: a list of names per block, of which the first two may be made
right, to which a name is appended for each lost object or not. `DirBlock` is
shown to implement it (`OnlyListSteps`) under the mapping
`list <- [d |-> [k |-> Meaning(blocks[d][k])]]`, `wanted <- ` the objects not
yet dealt with, where `Meaning` reads a block by its chain of `rec_len`. Pass 2
with entries of one size (`Fits`, `write_new_entry` of `Pass2`) is an
abstraction of the same code: there a block has room if one entry more does not
fill it, which is the strict `<` of the code.

`PartitionTable` stands beside the passes: it finds the partition they are run
on, and is for them one step (`PCheck`). A disk is the four entries of the MBR,
the first entry of every sector taken as a boot record, and its size; sector
numbers wrap at `WordSize`. `correct_one_partition` returns no value behind the
passes, so what the loop of `-f 0` compares with -1 is any number. A disk also
carries the list of its logical partitions (`logical`), which no action reads:
it is what `FoundRight` compares the walk with.

Recursion is a stack of frames in a variable (`stack1`, `stack2`, `stack4`),
one action per iteration of the innermost loop, one for going to the next
block, one for returning. In the code's terms:

| module | action | code |
|---|---|---|
| `Pass1` | `P1Start` | the call for the root |
| | `P1Correct` | first or second entry wrong: `pass1_corrector` on the copy, `write_block` |
| | `P1Descend` | the recursive call |
| | `P1Skip`, `P1NextBlock`, `P1Return` | nothing to do; next `i_block`; return |
| `DirTraversor` | `TrCount` | count an entry, descend if it is a directory |
| | `TrNextBlock`, `TrReturn` | as above |
| `Pass2` | `P2Start`, `P2Traverse`, `P2Walked` | the traversal from the root |
| | `P2Skip` | `continue` of the scan |
| | `P2Orphan` | an unreferenced inode; the traversal from it if it is a directory |
| | `P2Attach`, `P2NoLostFound` | first write of `add_to_lost_found`, or its early return |
| | `P2SetParent`, `P2Exit`, `P2SetOutside` | second write; the target of a link taken for a block number: `exit(-1)` of `read_sectors` behind the end of the image, 4 bytes of another partition before it |
| `Pass3` | `P3Start`, `P3Traverse`, `P3Walked` | the traversal |
| | `P3Same`, `P3Correct` | one inode compared, `write_inode` |
| `Pass4` | `P4Open`, `P4Entry`, `P4NextBlock`, `P4Return` | `get_true_block_bitmap` |
| | `P4Walked`, `P4Compare`, `P4NextGroup`, `P4Compared` | the comparison by group |
| | `P4Table`, `P4NextTable` | the blocks of the inode tables |
| | `P4Decide`, `P4Write`, `P4Done` | `found_error`; the bitmap written group by group |
| `DirBlock` | `P1OpenBlock`, `P1Read`, `P1NextBlock` | `pass1` on `lost+found`, with `pass1_corrector` |
| | `P2Call`, `P2OpenBlock`, `P2Read`, `P2Unused`, `P2Scanned` | `add_to_lost_found` up to the last entry of a block |
| | `P2Place`, `P2Full` | the test for room; `create_new_entry`, `write_new_entry`, the write |
| | `P2SetParent` | the write of `..` at byte 12 |
| `PartitionTable` | `PPrimary`, `PNoExtended`, `PExtended` | `read_partition_info` |
| | `WalkPast`, `WalkOver`, `WalkNested`, `WalkOn`, `WalkExit` | `read_ebr`, `exit` of `read_sectors` |
| | `PPrint`, `PNone`, `POther`, `PCheck` | the command, with the loop of `correct_partition` |
| `Fsck` | `Step`, `Kill`, `Rerun` | the four passes; the process dies; the next run |

`P1Descend` asks only for the type in the entry, as the code does: `pass1` may be
called for a regular file, reads its blocks up to the first hole (`HasBlock`) and
corrects numbers in them. The walks of passes 2 and 3 have no test at all;
`get_true_block_bitmap` has one that works.

A pass that only reads while it walks (`DirTraversor`, the walk of `Pass4`)
needs no buffer: the disk is the buffer. Pass 1 writes during the walk, so a
call carries its copy (`buf`), and a correction writes the whole copy.

`Repair` is the abstract specification: a run is four stages, each establishes
its condition, a condition established by a stage that has ended holds when a
later stage ends, and a partition with no error is left alone. `Fsck` is shown
to implement it (`Repairs`) under the mapping `stage <- Stage, good <- Good`,
where `Good` evaluates the four conditions on the disk; that a run ends, is a
property of its own (`RepairsEnd`). `Mendable` says which partitions the four
passes can put in order, and `Enough` what they need of room on the way; both
are defined in `Fsck`.

The `MC` modules build the partitions TLC starts on. `MCImages` turns a plan
(kinds, parents, pointers, link counts, bitmaps) into a partition; each
`MCPass` module enumerates plans.

The definitions marked *Faulty variant* are plausible slips (a comparison off
by one, a counter not reset, a guard dropped). They are used by no
specification; `PROJECT.json` pairs each with a property that notices it when
it takes the place of the definition that follows it.

## What is checked

The runs of passes 1 to 3 and of `fsck` have a partition of 20 blocks in two
groups of 10. Block 0 is the boot block, 5 blocks at the head of each group are
skipped, so the data blocks are 6..10 and 16..19, and the last group is one
block short. There are two groups of inodes, the second of them not full in
most runs. That is small, and enough for what the code does differently at
boundaries: a first and a last group, a full and a short one, bitmaps with
padding, blocks on both sides of a group boundary. In `pass3` an inode table
has two blocks of two inodes, so that `write_inode` meets both.

`pass4` has 28 blocks in groups of 14, of which 6 are skipped: the inode tables
have two blocks, the second one not full. Pointer blocks have two pointers and
a file one direct pointer, so a file of up to 1 block is direct, up to 3
indirect (`IndirectMax`), and up to 6 double indirect (`DoubleIndirectMax`),
where a whole double indirect block would reach 7. That is the code's relation
at a smaller scale: 12, 268 and 65549, where a whole one reaches 65804. The run
has a file of every size from 0 to the limit, with holes at each level.

`dirblock` has blocks of 64 bytes: the two pointers and up to four short names,
or one that fills the block. `lost+found` has one to three blocks, some with an
unused entry at the start, in the middle or at the end, some full, some with
just enough room, or 4 bytes more or less. Three objects with the numbers 7, 1234
and 70001 are attached: names of 1, 4 (the length at which the 0 behind a name
goes beyond the padding) and 5 characters, and a number of more than two bytes.

| run | starts on | shows |
|---|---|---|
| `pass1` | all trees of a root, `lost+found` and two more objects, at most one of them a file; every subset of `.` and every subset of `..` wrong; a root of two blocks; a regular file that an entry calls a directory, whose blocks, with holes or none, read as no entries, as names, or as a directory with wrong pointers | `P1Result`: all pointers right at the end, in the tree of what really are directories. `P1BufFresh`: a copy that may be written back is never older than the disk. `P1Path`: the calls for directories are a path of the tree, every call knows its parent, and none is inside its own walk. `P1OnlyPointers`, `P1NoRegress`: a write changes one inode number of one of two entries, and a right pointer stays right |
| `pass1_file` | a root that calls a regular file a directory, the contents of which read as two entries | violation of `P1FilesKept`, see Findings |
| `pass1_second_block` | a root whose second block starts with two subdirectories | violation of `P1NamesKept`, see Findings |
| `pass2` | trees in which any of the objects 4 to 7 may have lost its name, with every admissible `..` of lost directories; one or two blocks of `lost+found`; and the six partitions of `Limits`: no `lost+found` in the root, a full one, one with an unused entry, a lost symbolic link, a lost empty file | `P2Result`, `P2TopmostOnly`, `P2OrphanOnly`, `P2PointersOK`, `P2OnlyAdds`, `P2Terminates` |
| `pass2_child_first`, `pass2_lost_file` | one partition each | violations, see Findings |
| `pass3` | trees with a hard link, a root of two blocks, every subset of link counts wrong, too high or 0 | `P3CountsExact`, `P3Result`, `P3NoRegress`. `P3OneCount`: a count that changes is that of the inode compared |
| `pass3_many_names` | a file with 128 names | violation, see Findings |
| `pass4` | trees with a directory of two blocks, files, a symbolic link, a pipe, a lost file; every subset of five bits wrong, in both groups, one of the second block of an inode table; a file of every size, with holes or none | `P4TrueBitmap`, `P4LoopAt`, `P4Compared_OK`, `P4Result`, `P4NoRegress`, `P4Terminates` |
| `dirblock` | every combination of a first block and up to two more, see above; pointers right or wrong | `OnlyListSteps`: the bytes implement `DirList`, so no entry in use is lost or changed but for the two pointers. `ChainsOK`: the `rec_len` of a block still chain its entries. `AttachedIfRoom`: a name is refused only where it would leave no byte. `DTypeOK`: no write behind the block. `DTerminates` |
| `fsck` | five trees with lost objects or none, errors of each kind alone and together, and none; two of them also with a second block of `lost+found` that has no entry in use, as `mke2fs` preallocates it; a first run that may be killed anywhere, and a second that may be too | `Repairs`: the four passes implement `Repair`. `CleanUntouched`: without errors nothing is written. `RepairsEnd`: every run ends, and so every pass of it, passes 1 and 3 too. `Mendable`: wherever a run is killed, the partition is one the next run can put in order. `Enough`: a char counts the names there are, and when an object is to be attached `lost+found` has room for it |
| `partitions` | disks with every kind of primary partition before and behind an extended one, up to three logical partitions, no extended one, an image cut off, a logical partition that sticks out, an extended partition in the extended one; every number up to 8, each command | `FoundRight`: every number gives its partition or none. `CheckedInOrder`: what is repaired is a prefix of the ext2 partitions in order. `CommandEnds`: also `-f 0` |

The partition tables are not the blocks above but disks of up to 22 sectors;
`MaxNum = 8` is above the number of every partition of a disk, so the loop of
`-f 0` never meets the bound, and `WordSize = 32` is above every sector. The
logical partitions of the run fill the extended one: on a table with a gap
behind them blank sectors read as entries of length 0, every number finds one,
and `-f 0` does not end (listed as a hazard).

The bounds of the other runs: 5 to 7 inodes, which is deep enough for a directory in a directory
in a directory and wide enough for siblings; `MaxRuns = 2`, since nothing but
the disk outlives a run and the second run already starts on whatever a killed
one left. `pass2` has one inode more so that a lost file, a lost subtree and
named objects occur together. `EntriesPerBlock` is small (5 in the runs of
pass 2) so that `lost+found` fills up; 341 in `pass3_many_names`. `CharMax` is
127. The sizes stay clear of `s_blocks_count = 1` modulo `blocks_per_group`,
where the code computes one group too many, and of a last group shorter than
its metadata (listed as a hazard); `GeometryAssumption` of `Pass4` says so for
the proofs, and TLC evaluates it for the runs.

`CHECK_DEADLOCK FALSE` is given because a program ends: in the last state of a
pass, or of the last run, there is no step.

Fairness: weak fairness of the whole next-state relation (`WF(P1Next)`,
`WF(DNext)` and so on; `WF(Step)` in `Fsck`). The program is one thread that waits for nothing, so
a step that is possible is taken. Neither `Kill` nor `Rerun` is fair: a run may
be never killed and never repeated.

## Findings

Five properties that comments of the code or its README state are violated by
the code; each has a run of its own.

* `pass1_file`: the test that `pass1` is "only checking directory"
  (`correct.c:31`) is `!INODE_IS_DIR(&inode)`, and the macro (`common.h:32`) has
  no parentheses around it: it reads `!(mode & 0xF000) == EXT2_S_IFDIR`, which is
  never true. What an entry calls a directory is walked into, and a regular file
  has bytes of its contents corrected.
* `pass1_second_block`: `count` restarts in every block (`correct.c:49`), so the
  names of subdirectories at the head of a second block are overwritten as if
  they were `.` and `..`. The other two walks do test for the first block.
* `pass2_child_first`: a lost directory with a larger number than a directory
  it names stays lost. The child is attached first; the walk into it counts its
  old `..` as a name of the parent (`correct.c:124`).
* `pass2_lost_file`: attaching a lost regular file overwrites bytes 12 to 15 of
  its contents (`correct.c:218`).
* `pass3_many_names`: the counts are `char`: with 128 names the count wraps and
  the right link count is replaced by 65408 (`correct.c:155`, `correct.c:279`).

Three more were met and have no run. `-p` with the number of an unused entry of
the MBR prints `0x00 0 0` where the program's README says -1
(`partitionEntry.c:118`). A file of more than 65549 blocks is marked nowhere and
its blocks are freed (`correct.c:414`): with a size above `DoubleIndirectMax`,
`P4Result` does not hold. And a first block of `lost+found` that is full,
followed by a preallocated block with one unused entry, as `mke2fs` makes them,
gets new entries where the stale `len` and `entry` say (`correct.c:206`), with
the unused entry's `rec_len` broken, and the objects keep no name;
`AttachedIfRoom`, `WellFormed` and `RoomLeft` exclude this case by name, the
other properties of `dirblock` hold in it.

## What is proved

For every partition that satisfies `ImagesAssumption` and all sizes that
satisfy `SizesAssumption`, and what else is named:

| module | theorem | says | assumes besides |
|---|---|---|---|
| `Pass1Proofs` | `Pass1TypeCorrect` | `P1Spec => []P1TypeOK`; `DiskTypeOK` in it says that the partition stays one the program may be started on | |
| | `Pass1BufFresh` | `P1Spec => []P1BufFresh` | |
| | `Pass1OnlyPointers` | `P1Spec => P1OnlyPointers` | |
| | `Pass1Invariant` | `P1Spec => []P1Inv`, on which the others rest | |
| | `Pass1Path` | the active calls are all for directories, are a path of the tree, and know their parents | `P1Sound` of the partition |
| | `Pass1Result` | all pointers are right at the end | `P1Sound` |
| | `Pass1NoRegress` | a right pointer stays right | `P1Sound` |
| | `Pass1NamesKept` | no other entry of the tree changes | `P1Sound` |
| `Pass2Proofs` | `Pass2TypeCorrect` | `P2Spec => []P2TypeOK` | `CharAssumption` |
| | `Pass2Invariant` | `P2Spec => []P2Inv` | |
| | `Pass2OnlyAdds` | no directory of the tree is lost, and no name in it | `FirstsApart` of the partition |
| | `Pass2ScanInvariant` | `P2Spec => []ScanInv`, on which the next four rest | `CharAssumption`, `P2Sound` of the partition |
| | `Pass2OrphanOnly` | nothing that the tree names is attached | the same |
| | `Pass2PointersOK` | the pointers of the tree are right between two inodes | the same |
| | `Pass2TopmostOnly` | nothing has two names at the end | the same, `OneName` |
| | `Pass2Result` | nothing is lost at the end, if there is room left | the same, `BitsCover` |
| `Pass3Proofs` | `Pass3TypeCorrect` | `P3Spec => []P3TypeOK` | `CharAssumption` |
| | `Pass3OneCount` | `P3Spec => P3OneCount` | `TablesAssumption`: inode tables do not overlap, and every inode is in a group |
| | `Pass3Invariant` | `P3Spec => []P3Inv` | |
| | `Pass3CountsExact` | each entry of the tree is counted once, and no other | `TreeShape` and `NamesFit` of the partition |
| | `Pass3Result` | all link counts are right at the end | the same, `TablesAssumption` |
| | `Pass3NoRegress` | a right link count is not changed | the same |
| `Pass4Proofs` | `Pass4TypeCorrect` | `P4Spec => []P4TypeOK` | `FileAssumption`, `FilesAssumption`: a file has the pointers its size asks for |
| | `Pass4LoopAt` | `P4Spec => []P4LoopAt` | `GeometryAssumption`: the last group has a data block |
| | `Pass4ComparedOK` | `P4Spec => []P4Compared_OK` | `GeometryAssumption` |
| | `Pass4TrueBitmap` | the walk finds the blocks in use and no other | `FileAssumption`, `FilesAssumption`, `TreeSound` of the partition |
| | `Pass4Result` | the bitmap is right at the end | all of these, `LayoutSound` |
| | `Pass4NoRegress` | no write makes a right bit wrong, or changes one not compared | the same |
| `FsckProofs` | `FsckTypeCorrect` | `Spec => []FsckTypeOK`, for any number of runs and kills | all constants' assumptions but `GeometryAssumption` |
| | `FsckBufFresh` | `P1BufFresh` while pass 1 runs, in every run | |
| | `FsckInvariant` | `Spec => []FsckInv` | |
| | `FsckRepairInvariant` | `[]RepairInv`, on which the next three rest | all constants' assumptions; `Mendable` of the partition, `[]Enough` |
| | `FsckMendable` | a run killed anywhere leaves a partition the next one can put in order | the same |
| | `FsckRepairs` | `Repairs`: the four passes implement `Repair` | the same |
| | `FsckCleanUntouched` | without errors nothing is written | the same |
| `PartitionTableProofs` | `PartitionTypes` | `PSpec => []PTypeOK` | `DisksAssumption`, `NumAssumption` instead of those above |
| | `PartitionFoundRight` | every number gives its partition or none | the same, `LogicalsFill` of the disk |
| | `PartitionsInOrder` | `-f 0` repairs the ext2 partitions in order, none twice | the same |
| `DirBlockProofs` | `DirBlockInvariant` | `[]DInv`, on which the others rest | `BlockAssumption`, `UninitialisedAssumption` instead of those above; `ChainsOK`, `DotsFirst` of the directories |
| | `DirBlockType` | no write goes past the end of `dir_block` | the same |
| | `DirBlockChains` | `[]ChainsOK`: the `rec_len` of every block chain its entries after every write | the same |
| | `DirBlockAttached` | an object gets its name in one block, unless none has more room than it takes | the same, `Unnamed` |
| | `DirBlockIsDirList` | `OnlyListSteps`: the bytes implement `DirList` | the same as `DirBlockChains`, `DotsOnlyFirst` |

What is asked of a partition is a condition on the initial state, and the
theorem is about every behaviour from there: `P1Spec /\ P1Sound => []P1Path`.
All partitions of the runs meet it: `MCP1Init` to `MCP4Init`, `MCPInit` and
`MCDInit` assert the condition of each, and `fsck` checks `Mendable` in
every state. The one condition on what comes later is `[]Enough`.

* `TreeShape`: the directories of the tree form one, with the root at the top.
  Without it no walk need end. Files may have any number of names.
* `P1Sound` adds that every directory starts with two entries of type
  directory, whatever they name, that no other block of a directory starts with
  a subdirectory, and that no two directories share a block. The second is what
  the finding `pass1_second_block` violates: `Pass1NamesKept`, the property of
  that run, holds of every partition that meets it.
* `FirstsApart`: no directory has, as other than its first block, what pass 2
  takes for the first block of an inode. In such a block `add_to_lost_found`
  would take a name for the `..`.
* `P2Sound` is about `KeptDirs`, the directories of the tree and the lost ones
  together, since pass 2 walks both. `TreesSound`, `UpsSound`: they are trees,
  with the types of names right, `.` right everywhere, and `..` right in the root
  and in every directory with a name; pass 1 makes pointers right in the tree,
  and in a lost subtree nothing but the lost link is wrong. `LostInOrder`: a lost
  directory has a smaller number than what it names, and the `..` of its top
  names nothing the scan is still to come to. That is what the finding
  `pass2_child_first` violates: without it `P2Result` is false. `LostFoundSound`:
  `lost+found` is a subdirectory of the root, or there is none. `KeptApart`: no
  block is twice a block of directories, or one of a directory and the first of
  what the scan may attach. `KeptFit`: no inode has more names than a char can
  count.
* `OneName`: there are no hard links, as two links to a lost file would still be
  two. `BitsCover`: the bit the program reads for an inode is set if its bit is,
  which depends on the sizes, see `Ext2Meaning`.
* `NamesFit`: no inode has more names than a char can count, which the finding
  `pass3_many_names` violates.
* `TreeSound`: what passes 1 and 2 leave (the tree, its pointers), that a name
  says `directory` exactly of directories, that files end where the walk of large files
  does, and that the boot block is blank, since it is read where a pointer
  block is a hole. `LayoutSound`: the bitmap of a group has a bit for each of
  its blocks and none to spare, and inode tables are metadata, as `mke2fs` lays
  them out.
* `Mendable` is what the passes ask of a partition, less what they put right
  themselves: `LayoutKept` (`BitsCover`, `LayoutSound`, files end where the walk
  does, no directory has a hole), `BlocksOwn` (as `KeptApart`), `TreesThere` and
  `HeadsThere` (trees of directories, each starting with two entries of type
  directory, whatever they name), `LostRight` (in a lost directory, which pass 1
  does not come to, `.` is right and so is the `..` of what it names),
  `LostInOrder`, `LostFoundSound`. Pointers of the tree, lost objects, link counts
  and the block bitmap may be wrong in any way.
* `Enough` is about two kinds of states. Before pass 2 and before pass 3 starts
  to count: `KeptFit`, no inode has more names than a char can count. And when the
  scan has an object to attach: `RoomLeft`, `lost+found` is there and some of its
  blocks have room, the first of which has no unused entry. It is not asked
  for room where nothing is lost, and the blocks with one unused entry that
  `mke2fs` preallocates do no harm behind a block with room; the code does not
  get there. Each attached object is a name more, and its `..` may be one, so
  neither follows from the partition at the start; how many objects are lost is
  known when they have been attached. Where it is not met the promise is
  broken: the finding `pass3_many_names`, and the full first block of
  `lost+found` under Findings. The run `fsck` checks it on all its partitions, in
  both runs.
* `LogicalsFill`: the record of each logical partition stands behind the
  partition before it. `read_ebr` follows no links, so on a disk with a gap it
  finds something else.
* `ChainsOK`, asked of the directories at first, is that their `rec_len` chain
  entries with room for their names up to the end of the block or to an unused
  entry: a scan of another block need not end. `DotsFirst`: the second entry of
  a lost directory is at byte 12, where its `..` is written. `DotsOnlyFirst`: only
  the first block of `lost+found` starts with directories, see the finding
  `pass1_second_block`. `Unnamed`: a lost object has no name in `lost+found`,
  which is what lost means. `BlockAssumption` bounds a block by 65535 bytes and
  an inode number by 32 bits, the widths of their fields, and a lost object is
  met once; `UninitialisedAssumption`, that a new `entry` holds a name of at most
255 characters, the width of `name_len`.

The arguments.

*Pass 1, in memory.* That the block written back is the block on the disk
follows from an order of events: a call is at one of the first two entries of a
block only before it has called itself from that block, so nothing was written
since it read the block. `P1BufFresh` says that in state terms: only the
running call can be at the first two entries, and its copy is fresh. By itself
it is not inductive: a correction changes the disk, and for the step to be
harmless the block must be a block of the partition, the entry must be in the
copy, and the number written must be an inode that is no link. `FrameOK` adds
that: every active call is for an inode that is no link and was given such a one
as its parent, nothing in its copy leads to a symbolic link, and past the last
block the copy is empty. That the calls are for directories is not said, as
nothing in the code sees to it; where the partition does (`P1Sound`), it is
`P1DirsOnly`, part of `Pass1Path`. `P1Inv` is the conjunction. There is one lemma per action,
and lemmas on the operators they are built from (`AtBlock`, `Past`, `PointTo`,
`Resume1`). `CorrectFacts` collects what a correction does, and serves both the
invariant and `Pass1OnlyPointers`.

*What a walk has done* (`TreeProofs`). The three walks are different code and
have one argument. A walk in progress is the set of the entries it has passed (`S`), of the
directories it has opened (`E`) and of the places its calls are at (`F`).
`WalkedOver` says: of an opened directory with an
active call, the entries passed are those before the place of the call; of any
other opened directory, all; and an entry passed that names a subdirectory has
opened it. It is about any set of directories and any directories the walk
starts at, as pass 2 walks below each lost directory too; `Walked` is the walk
of the tree from the root. A step of any walk is one of five (an entry, an entry walked into,
the next block, an opened block, the return), each with its lemma. When no call
is left, what has been opened is a set that contains the root and the
subdirectories of its members. `TreeDirs` is the least such set, so everything
has been walked; and by `TreeShape` nothing twice. That `TreeDirs`, which is
what `NInodes` steps reach, is the least one, and closed although it stops
there, is the pigeonhole argument of `ReachedStep` to `TreeClosed`: as long as
a step reaches something new, at least one inode more is reached. These replace
induction over the tree; what induction on numbers there is, is by a first
counterexample (`FirstOf`, from `WFMin`).

*The walk of passes 2 and 3* (`TreeProofs`, lemmas). `TrTypeOK` is not
inductive: an entry of directory type that named a link would have its target
read as block numbers. `WalkOK` restricts the active calls to inodes that are
no links (`WalkFrame`), which an entry that is walked into guarantees
(`NoLink`), and neither pass changes a mode. `OverStep` carries `WalkedOver`
over a step of `directory_traversor`, and says by which entry the passed ones
grow. `CountOK` adds to `Walked` that
each count is the number of entries passed that name the inode.

*Pass 1, on the disk.* `P1PathInv` says that there are sets with which the
stack of `pass1` is a walk, that the stack is a path (`OnPath`), that every
call, not only the running one, has a copy that is the block on the disk, which
is so because no two directories share a block, and that every pointer the walk
has passed is right. A correction changes the tree's entries but not its shape,
since pointers are no names: `RepointedNames` and its neighbours carry the tree,
the walk and the pointers of all other directories over it.

*Pass 2* writes between two walks. `P2Inv` adds to `WalkOK` what the second
write of `add_to_lost_found` needs from the first: `lost_found_dir` is an inode
that may be walked into, since it becomes the `..` of the object. That it is
one when it has been found is `LostFoundOK`; that a block with the new entry
is still one a walk may read, on either side of an unused entry, is
`NewEntryOK`. `Pass2OnlyAdds` is about one write: `NewEntryKeeps` and
`ParentKeeps` say that every entry of the block a scan could see is seen at its
place with the number and type it had, the second entry's number excepted,
which is no name; so subdirectories keep their parents, and what `NInodes`
steps from the root reach can still be reached (`TreeKept`, by the least set). The first entry named `lost+found` exists by well-foundedness of
`<` on the positions (`WFMin`), which needs no induction rule.

*Pass 2, what it finds.* The counts are taken of a tree that then changes, and
are never corrected for an entry written into `lost+found`. What saves them is
said by `ScanInv`, in parts:

* `WalkedAt`: the walk of the tree and the walks below lost directories are one
  `WalkedOver(KeptDirs, ...)`, started at the root and at the lost directories
  the scan has met. Every directory with a smaller number than the scan's has
  been entered.
* `CountedAt`: what an entry passed names has a count, or is behind the scan; an
  inode with a count is behind the scan, has been entered, or is named in a
  directory that has. `".."` is where this could fail (`PointersKnown`): it is
  counted like a name, and needs `LostInOrder` in a lost directory.
* `ReachedAt`: if there has been room for each object so far, all directories entered are in the
  tree, but for those below the one in hand; and all inodes behind the scan have
  been entered or are named there. The first is said of every set that contains
  the root and the subdirectories of its members, the tree being the least one,
  so that it can be carried along a walk.
* `UpsAt`, `ScanAt`: which `..` may be wrong, and that the inode in hand has no
  name, in the tree or out of it. So attaching it gives nothing a second name.

What `ReachedAt` says has a condition, and there are two ways to state it, so the
invariant has a parameter: `ScanPart(all)`. In `ScanInv` (`all` is false) the
condition is that there is room now, since then there always was: that is what
`Pass2Result` needs, whose assumption is about the end. In `AttachedInv` (`all` is
true) there is none, but a step from `p2_sub` is only covered where `RoomLeft`
holds: that is what the composed program needs, where `Enough` says so.

The two writes are one relation, `Wrote(U, X, l, n)`: no entry of the
directories `U` is lost; what is new, `X`, is at most one entry, of `l`, that
names `n`; and no entry but the `..` of `n` may name something else. What it does
to names, subdirectories, the tree, pointers, the walk and the counts are a
lemma each (`WroteNames` to `WroteReached`); that the code's writes are such is
`AttachWrote` and `SetParentWrote`. The parts of `ScanInv` have the stack, the
counts, the label and the inode as parameters, as a step that writes nothing
(`StillStep`) then keeps them word for word.

*Pass 3.* `PlaceOK` says that the place `write_inode` computes, by group, block
of the table and offset in the block, is the place `read_inode` computes, by
group and offset in the table, and that two inodes never share one. It is
arithmetic on quotients and remainders, with `TablesAssumption` for two groups.
`P3CountInv` joins it to the walk: the counts are those of the tree when the
walk is over, and the links behind the scan are the counts. The tree stays what
it is, as pass 3 writes no directory.

*Pass 4.* `P4LoopAt` says where `block_id` is while a group is compared, but
nothing of where it is between two groups, or that the loop ends in the last
one. `CountInv` adds both, with `GeometryAssumption` for the step from the end
of one group to the data blocks of the next. `P4Compared_OK` rests on it: what
`block_id` passes over between groups are no data blocks (`NoDataAt`), what it
passes by in a group has been compared, and no two blocks have one bit.

That the walk of pass 4 marks blocks only is a matter of its own: each loop
over a pointer block has at most `PerBlock` rounds (`RoundsOK`), and a place in
a double indirect block is in one of its indirect blocks (`PlaceInDouble`).
That it marks the right ones is `FoundOK`: at any time it has marked the blocks
opened and the blocks of the files named by entries passed. For one file this
is the equality of what the nested loops mark and what the layout of ext2 says,
`FileOwns`, in each of the three cases of size.

The result is `ResultInv`, from loop to loop: as long as nothing wrong has been
found the copy is the bitmap on the disk, behind the comparison it is right for
the data blocks, behind the second loop for the inode tables too, and what has
been written group by group is the copy.

*The passes together.* `FsckInv` is the invariant of the pass that runs, and of
the others what outlives them: the partition, the counts, the loop counters.
Each step lemma (`FsckStep1` to `FsckStep4`) takes the step lemma of its pass
and adds that no pass changes the mode or the pointers of an inode (`Where1` to
`Where4`), on which the invariants of the other walks depend. `StartedOK` is
the start of a process, after a kill too: nothing of what the invariants say of
memory is lost, as there is no memory.

*The promise.* `RepairInv` is `FsckInv`, `Mendable`, the conditions of the passes
that are over, and, of the pass that runs, the invariant its own result rests on
(`P1PathInv`, `AttachedInv`, `P3CountInv`, `P4Known`). Two things keep it.

First, every write leaves a partition that can be put in order. There are four
kinds. A pointer of a directory comes to name another inode (`Restamped`): in
pass 1 with the copy written back, in pass 2 by the second write. No walk follows
pointers, so the trees stay (`RestampKeeps`, `RestampMends`); what a lost
directory names is lost too (`LostApart`), so pass 1 changes no pointer that
`LostRight` is about. The new entry in `lost+found` is one name more, at a place
where no pass looks for a pointer (`AttachHeads`); the rest is what `AttachedInv`
knows of what is attached. A link count changes what is `Live`, so a directory
could begin or stop to be one of `KeptDirs`: in pass 3 all of them are in the tree
and the count becomes the number of names, so what begins to be live has one
(`CountMends`). No walk reads the bitmap.

Second, where a pass ends, its result and `Mendable` are what the next one asks
for. `Begin1` to `Begin4` and `End4` say this of single states, and `BeginNext`
of the state after a step. Pass 1 makes the pointers of the tree right and
`LostRight` is about the others, so `UpsSound` holds at the start of pass 2. When
pass 2 ends every directory there is has been entered, by the walk or from a
lost one, and is in the tree, so `KeptDirs = TreeDirs` and what is said of the
first is said of the tree (`TreeShape`, `NamesFit`). Pass 3 changes no tree, so
pass 4 starts with right pointers and counts. `Repair` lets the second stage
break the first condition while it runs, as pass 2 does between its two writes.

A partition without errors is a case of its own (`CleanStays`): then no pass
has a reason to write. For passes 1 and 3 that is what their invariants say of
the copy and of the counts. If pass 4 does write, it writes what it has read
(`CleanStep4`, for which the bits behind the last block are known too,
`BitsBehind`). Pass 2 attaches nothing (`CleanStep2`), but all four conditions may
come to hold by the first write of an `add_to_lost_found`, if the counts and the
`..` happen to be right: then the second one is still made, and writes the number
that is there, or into a file.

*Partitions.* `FoundRight` says what a finished search has found, so `FoundInv`
says where one that is under way stands: at the record of the next logical
partition, with the number still to be counted down, in the extended partition
or, behind an entry of type extended in its first record, in the inner one.
`CheckInv` adds that the partitions repaired are as many as there are ext2
partitions with a smaller number.

*Directory blocks.* `Places` is the chain of a block as a recursive function, of
which nothing can be computed by induction. `ChainExists` and `ChainUnique`
give, by a first counterexample, the one sequence of places in which each leads
to the next by its `rec_len`; from then on a chain is shown to be that of a block
by checking its links (`PlacesMade`). Two entries of a chain do not overlap
(`Apart`), so there is a lemma for each kind of write: replacing the number of an
entry keeps the chain and all other entries (`Renumber`), and so does an entry
written behind the last one, which it cuts down (`PlacedBehind`). If the scan
ended at an unused entry, `len` is -1, and what is cut down is no entry at all:
the writes begin one byte behind the start of the unused entry, whose number
stays 0, and nothing that a scan reads changes (`PlacedInHole`). `WellFormed` and
`Meaning` say nothing of the bytes behind it.
`DInv` says that the loops use these writes where they may: `offset` is a place of
the chain of the block in `dir_block`, which is the block on the disk, `entry`
and `len` are those of the place before, and at `p2_place` the scan stood at the
end of the block or at an unused entry. By `ChainsOK` alone nothing is known of
a stale `entry`. `NamedInv` adds that an object that waits is named nowhere, and
that the blocks its scan has passed by have no room. For the refinement,
`ListNow` and `WantedNow` are the mapping, a step lemma per action says which step
of `DirList` or stutter it is, and `DigitsIs` that the name written consists of
the decimal digits of the number (`Tens`, `DecimalIs`), for all 32-bit numbers.

Each invariant was checked with TLC on the partitions of the pass's run before
it was proved.

Only model-checked: `Enough`, and termination (`P2Terminates`, `P4Terminates`,
`DTerminates`, `CommandEnds`, `RepairsEnd`), since liveness under fairness and
`ENABLED` are out of the prover's reach. `Enough` is an assumption of the last
four theorems of `FsckProofs`. No module uses
`RECURSIVE` operators: the tree is a recursive function on the number of steps
from the root (`ReachedIn`).

## What is not modelled

* Parsing of the super block, descriptors and inodes: a partition is given in
  parsed form. Printing, option parsing, numbers below 1 on the command line.
* How the bytes of a partition entry are read: `read_partition_entry` passes the
  end of a field where a length is expected, so bytes behind the field, and
  behind the sector, are read and shifted out again. An entry whose type byte
  is 0xFF, which the program takes for no partition.
* Files above `DOUBLE_INDIRECT_MAX_BLOCK` (65549 blocks), of which the code
  marks nothing, and other block sizes, for which the limits are wrong.
* In the passes themselves, entries of more than one size: `Fits` and
  `write_new_entry` of `Pass2` have the effect for one size, `DirBlock` has the
  bytes. In `DirBlock`, a first entry that is not 12 bytes long, and entries
  with a `rec_len` that leads nowhere, on which a scan does not end.
* File contents that a walk takes for entries and that name no inode, or lead
  nowhere by their `rec_len`: what the program then reads is outside the
  partition's tables, or it does not end.
* What `P2SetOutside` changes, bytes of another partition of the disk.
* Directories of more than 12 blocks, devices, and cycles in the tree, which no
  walk survives.
* Sizes that `GeometryAssumption` excludes, see What is checked; block sizes other
  than 1024 and inode sizes other than 128, which the code does not handle.
* A write torn inside a block: `write_sectors` is one step.
* Functions nothing calls (`search_dir_entry_r`, `get_dir_name`, `parse_name`).
* The Perl and shell scripts that damage images and compare with `e2fsck`; the
  kinds of damage the `MC` modules make are theirs.

## Plan

1. A bound on the lost objects and on the names of an inode, from which `Enough`
   follows, so that `Repairs` asks something of the first partition only.
2. `Geometry`: number of groups, bits and padding against the layout, where
   `n-1` is the right bit and where not, and what `pass4` reads where
   `GeometryAssumption` does not hold.
