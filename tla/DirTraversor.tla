---------------------------- MODULE DirTraversor ----------------------------
(***************************************************************************)
(* directory_traversor: counts the directory entries that name each inode, *)
(* "." and ".." included, in every directory reached from one directory.   *)
(* Passes 2 and 3 call it; the counts are char, so they wrap.              *)
(*                                                                         *)
(* The recursion is a stack of frames.  Nothing is written while it runs,  *)
(* so the block a call has read is the block on the disk.                  *)
(***************************************************************************)
EXTENDS Ext2Meaning

CONSTANT CharMax  \* greatest value of a char, 127 on the machines it runs on

\* A char is no wider than i_links_count.
ASSUME CharAssumption == CharMax \in Nat \ {0} /\ CharMax < 65536

VARIABLES
  refs,    \* inode_links_count
  stack2   \* active calls of directory_traversor, the running one last

CharMin == -CharMax - 1
Inc(c) == IF c = CharMax THEN CharMin ELSE c + 1

Frame2 == [dir: Inode, blk: Nat \ {0}, pos: Nat \ {0}]

TrTypeOK ==
  /\ refs \in [Inode -> CharMin .. CharMax]
  /\ stack2 \in Seq(Frame2)

NoRefs == [n \in Inode |-> 0]

\* A char can count the names of every inode.
NamesFit == \A n \in Inode : NumRefs(n) <= CharMax

-----------------------------------------------------------------------------

Call2(n) == [dir |-> n, blk |-> 1, pos |-> 1]

Top2 == stack2[Len(stack2)]
Resume2(f) == [stack2 EXCEPT ![Len(stack2)] = f]

InBlocks2(f) == HasBlock(f.dir, f.blk)
Block2(f) == data[inodes[f.dir].blks[f.blk]]
HasEntry2(f) ==
  InBlocks2(f) /\ f.pos <= Len(Block2(f)) /\ Block2(f)[f.pos].ino # 0
Entry2(f) == Block2(f)[f.pos]

\* Faulty variant: the first two entries of every block are not walked into.
WalksInto_PerBlock(f) == f.pos > 2 /\ Entry2(f).typ = "dir"

\* Only the first two entries of the first block are not walked into; the type
\* is the one the entry gives, the mode of the inode is not looked at.
WalksInto(f) == (f.blk > 1 \/ f.pos > 2) /\ Entry2(f).typ = "dir"

\* Faulty variant: "." and ".." are not counted.
TrCount_NamesOnly ==
  /\ stack2 # <<>>
  /\ HasEntry2(Top2)
  /\ refs' = IF Top2.blk > 1 \/ Top2.pos > 2
             THEN [refs EXCEPT ![Entry2(Top2).ino] = Inc(@)] ELSE refs
  /\ LET next == Resume2([Top2 EXCEPT !.pos = @ + 1])
     IN  stack2' = IF WalksInto(Top2)
                   THEN Append(next, Call2(Entry2(Top2).ino)) ELSE next

TrCount ==
  /\ stack2 # <<>>
  /\ HasEntry2(Top2)
  /\ refs' = [refs EXCEPT ![Entry2(Top2).ino] = Inc(@)]
  /\ LET next == Resume2([Top2 EXCEPT !.pos = @ + 1])
     IN  stack2' = IF WalksInto(Top2)
                   THEN Append(next, Call2(Entry2(Top2).ino)) ELSE next

TrNextBlock ==
  /\ stack2 # <<>>
  /\ ~HasEntry2(Top2)
  /\ InBlocks2(Top2)
  /\ stack2' = Resume2([Call2(Top2.dir) EXCEPT !.blk = Top2.blk + 1])
  /\ UNCHANGED refs

TrReturn ==
  /\ stack2 # <<>>
  /\ ~InBlocks2(Top2)
  /\ stack2' = SubSeq(stack2, 1, Len(stack2) - 1)
  /\ UNCHANGED refs

TrNext ==
  /\ TrCount \/ TrNextBlock \/ TrReturn
  /\ UNCHANGED <<disk, pc>>

=============================================================================
