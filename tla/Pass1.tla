------------------------------- MODULE Pass1 -------------------------------
(***************************************************************************)
(* Pass 1: walk the directory tree from the root and rewrite the first     *)
(* entry of a directory that does not name the directory itself and the    *)
(* second that does not name its parent (pass1, pass1_corrector).          *)
(*                                                                         *)
(* A call does not ask what it is called for: the test at correct.c:31     *)
(* comes out of the preprocessor as !(mode & 0xF000) == 0x4000, which is   *)
(* never true.  So the walk follows the type an entry gives, into a        *)
(* regular file too, and takes the contents of the file for entries.       *)
(*                                                                         *)
(* The recursion is a stack of frames, one per active call.  A call reads  *)
(* each block of its inode once into a buffer of its own (buf) and works   *)
(* on that copy: a correction changes the copy and writes the whole copy   *)
(* back, and what other calls wrote to the disk in between would be lost   *)
(* with it.                                                                *)
(***************************************************************************)
EXTENDS Ext2Meaning

VARIABLE stack1  \* active calls of pass1, the running one last

p1vars == <<disk, pc, stack1>>

Frame1 == [dir: Inode, parent: Inode, blk: Nat \ {0}, pos: Nat \ {0},
           buf: Seq(Entry)]

P1TypeOK ==
  /\ DiskTypeOK
  /\ pc \in {"pass1", "p1_walk", "pass2"}
  /\ stack1 \in Seq(Frame1)

-----------------------------------------------------------------------------

\* The buffer of a call that turns to block k of inode n; empty past the last
\* block, where i_block holds 0.
LoadBlock(n, k) ==
  IF HasBlock(n, k) THEN data[inodes[n].blks[k]] ELSE <<>>

\* A call of pass1 for inode n that turns to block k.
AtBlock(parent, n, k) ==
  [dir |-> n, parent |-> parent, blk |-> k, pos |-> 1, buf |-> LoadBlock(n, k)]

Call1(parent, n) == AtBlock(parent, n, 1)

Top1 == stack1[Len(stack1)]
BlockId1(f) == inodes[f.dir].blks[f.blk]
Resume1(f) == [stack1 EXCEPT ![Len(stack1)] = f]

\* Entry p of a copy made to name n.
PointTo(buf, p, n) == [buf EXCEPT ![p].ino = n]

\* offset += len; ++count
Past(f) == [f EXCEPT !.pos = @ + 1]

\* read_dir_entry_in_block finds an entry at the call's offset.
HasEntry1(f) == f.pos <= Len(f.buf) /\ f.buf[f.pos].ino # 0
Entry1(f) == f.buf[f.pos]

\* Faulty variant: count compared with <= 2.
IsPointer_OneMore(f) == f.pos <= 3

\* What the first two entries of a block are required to name.
IsPointer(f) == f.pos <= 2
\* Faulty variant: "." and ".." confused.
Expected_Swapped(f) == IF f.pos = 1 THEN f.parent ELSE f.dir

Expected(f) == IF f.pos = 1 THEN f.dir ELSE f.parent
\* Faulty variant: the branch for ".." is missing.
WrongPointer_DotOnly(f) ==
  f.pos = 1 /\ Entry1(f).typ = "dir" /\ Entry1(f).ino # Expected(f)

WrongPointer(f) ==
  IsPointer(f) /\ Entry1(f).typ = "dir" /\ Entry1(f).ino # Expected(f)

\* Any other entry of directory type is walked into; the mode of the inode is
\* not looked at.
Descends(f) == ~IsPointer(f) /\ Entry1(f).typ = "dir"

Running1 == pc = "p1_walk" /\ stack1 # <<>>

-----------------------------------------------------------------------------

P1Init ==
  /\ ImageInit
  /\ pc = "pass1"
  /\ stack1 = <<>>

\* Faulty variant: no parent is given for the root.
P1Start_NoParent ==
  /\ pc = "pass1"
  /\ pc' = "p1_walk"
  /\ stack1' = <<[Call1(ROOT_INODE_NUM, ROOT_INODE_NUM) EXCEPT !.parent = 0]>>
  /\ UNCHANGED disk

P1Start ==
  /\ pc = "pass1"
  /\ pc' = "p1_walk"
  /\ stack1' = <<Call1(ROOT_INODE_NUM, ROOT_INODE_NUM)>>
  /\ UNCHANGED disk

\* Faulty variant: the block is corrected on the disk, not in the copy.
P1Correct_StaleCopy ==
  /\ Running1
  /\ HasEntry1(Top1)
  /\ WrongPointer(Top1)
  /\ data' = [data EXCEPT ![BlockId1(Top1)][Top1.pos].ino = Expected(Top1)]
  /\ stack1' = Resume1(Past(Top1))
  /\ UNCHANGED <<pc, inodes, links, overwritten, ibitmap, bbitmap>>

\* A wrong "." or "..": correct the copy, write the block, go on after it.
P1Correct ==
  /\ Running1
  /\ HasEntry1(Top1)
  /\ WrongPointer(Top1)
  /\ LET fixed == PointTo(Top1.buf, Top1.pos, Expected(Top1))
     IN  /\ data' = [data EXCEPT ![BlockId1(Top1)] = fixed]
         /\ stack1' = Resume1(Past([Top1 EXCEPT !.buf = fixed]))
  /\ UNCHANGED <<pc, inodes, links, overwritten, ibitmap, bbitmap>>

\* Faulty variant: the caller's parent is passed on.
P1Descend_Grandparent ==
  /\ Running1
  /\ HasEntry1(Top1)
  /\ Descends(Top1)
  /\ stack1' = Append(Resume1(Past(Top1)),
                      Call1(Top1.parent, Entry1(Top1).ino))
  /\ UNCHANGED <<disk, pc>>

\* A subdirectory, or what is said to be one: recursive call with the inode of
\* this call as the parent.
P1Descend ==
  /\ Running1
  /\ HasEntry1(Top1)
  /\ Descends(Top1)
  /\ stack1' = Append(Resume1(Past(Top1)),
                      Call1(Top1.dir, Entry1(Top1).ino))
  /\ UNCHANGED <<disk, pc>>

\* Faulty variant: offset += len only behind an entry that was corrected.
P1Skip_Stays ==
  /\ Running1
  /\ HasEntry1(Top1)
  /\ ~WrongPointer(Top1)
  /\ ~Descends(Top1)
  /\ UNCHANGED <<disk, pc, stack1>>

P1Skip ==
  /\ Running1
  /\ HasEntry1(Top1)
  /\ ~WrongPointer(Top1)
  /\ ~Descends(Top1)
  /\ stack1' = Resume1(Past(Top1))
  /\ UNCHANGED <<disk, pc>>

P1NextBlock ==
  /\ Running1
  /\ ~HasEntry1(Top1)
  /\ HasBlock(Top1.dir, Top1.blk)
  /\ stack1' = Resume1(AtBlock(Top1.parent, Top1.dir, Top1.blk + 1))
  /\ UNCHANGED <<disk, pc>>

P1Return ==
  /\ Running1
  /\ ~HasBlock(Top1.dir, Top1.blk)
  /\ stack1' = SubSeq(stack1, 1, Len(stack1) - 1)
  /\ UNCHANGED <<disk, pc>>

P1Done ==
  /\ pc = "p1_walk"
  /\ stack1 = <<>>
  /\ pc' = "pass2"
  /\ UNCHANGED <<disk, stack1>>

P1Next ==
  \/ P1Start
  \/ P1Correct
  \/ P1Descend
  \/ P1Skip
  \/ P1NextBlock
  \/ P1Return
  \/ P1Done

\* The program is one thread that nothing blocks: a step that can be taken is
\* eventually taken.
P1Spec == P1Init /\ [][P1Next]_p1vars /\ WF_p1vars(P1Next)

-----------------------------------------------------------------------------
(* Properties *)

\* A call that may still correct an entry holds what the disk holds: only the
\* running call is at one of the first two entries, and its copy of the block
\* is the block.  pass1_corrector writes the whole copy back, so a call that
\* resumed with an older copy would undo the corrections made meanwhile.
P1BufFresh ==
  \A i \in 1 .. Len(stack1) :
    IsPointer(stack1[i]) =>
      /\ i = Len(stack1)
      /\ HasBlock(stack1[i].dir, stack1[i].blk) =>
           stack1[i].buf = data[BlockId1(stack1[i])]

\* A tree pass 1 can put right: every directory has the entries "." and "..",
\* in use though they may name what they like, at the head of its first block;
\* no other block of it starts with a name of a directory, which would be taken
\* for one of the two (see P1NamesKept); and no two directories share a block.
DotsThere ==
  \A d \in TreeDirs : \A p \in 1 .. 2 :
    <<1, p>> \in Entries(d) /\ EntryAt(d, <<1, p>>).typ = "dir"

HeadsClear ==
  \A d \in TreeDirs : \A e \in Entries(d) :
    e[1] > 1 /\ e[2] <= 2 => EntryAt(d, e).typ # "dir"

BlocksApart ==
  \A c, d \in TreeDirs : \A k \in DOMAIN inodes[c].blks, l \in DOMAIN inodes[d].blks :
    inodes[c].blks[k] = inodes[d].blks[l] => c = d /\ k = l

P1Sound == TreeShape /\ DotsThere /\ HeadsClear /\ BlocksApart

\* The active calls for directories are a path of the tree as it is on the disk,
\* and each call was given the inode that names its own as the parent; nothing
\* is walked inside its own walk.  The recursion takes parent_inode_num from
\* the caller and never from the disk, which is what may be wrong.
P1Path ==
  /\ \A i \in 1 .. Len(stack1) - 1 :
       /\ stack1[i + 1].parent = stack1[i].dir
       /\ IsDir(stack1[i].dir) /\ IsDir(stack1[i + 1].dir) =>
            stack1[i + 1].dir \in SubDirs(stack1[i].dir)
  /\ \A i, j \in 1 .. Len(stack1) : stack1[i].dir = stack1[j].dir => i = j

\* Where P1Sound holds the walk is one of directories only, as the comment of
\* correct.c:31 has it.
P1DirsOnly == \A i \in 1 .. Len(stack1) : IsDir(stack1[i].dir)

\* When pass 1 ends, every directory of the tree has a right "." and "..".
P1Result == pc = "pass2" => DirectoryPointersOK

PointerWrite ==
  \A b \in Block : data'[b] # data[b] =>
    /\ \A c \in Block \ {b} : data'[c] = data[c]
    /\ \E p \in 1 .. 2, n \in Inode :
         p <= Len(data[b]) /\ data'[b] = PointTo(data[b], p, n)

\* A write of pass 1 changes one block, and of it the inode number of one of
\* the first two entries only.
P1OnlyPointers == [][PointerWrite]_p1vars

\* A pointer that is right stays right, though other directories are corrected
\* and blocks are written back from copies.
P1NoRegress ==
  [][ data' # data =>
        \A d \in TreeDirs : (SelfOK(d) => SelfOK(d)') /\ (UpOK(d) => UpOK(d)') ]_p1vars

\* Comment of correct.c:18-20: the entries verified and corrected are the first
\* two of a directory.  Every other entry of the tree names what it named.
P1NamesKept ==
  [][ data' # data =>
        \A d \in TreeDirs : \A e \in Names(d) :
          EntryAt(d, e).ino = EntryAt(d, e)'.ino ]_p1vars

\* Comment of correct.c:31, "only checking directory": what is corrected is in a
\* block of a directory, and the contents of files stay what they are.
P1FilesKept ==
  [][ \A b \in Block : data'[b] # data[b] =>
        \E d \in Inode : IsDir(d) /\ \E k \in DOMAIN inodes[d].blks : inodes[d].blks[k] = b ]_p1vars

=============================================================================
