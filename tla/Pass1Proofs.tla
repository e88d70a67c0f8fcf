---------------------------- MODULE Pass1Proofs ----------------------------
(***************************************************************************)
(* Theorems about pass 1, for every partition and every size.              *)
(*                                                                         *)
(* P1BufFresh is not inductive as it stands: that the block written back   *)
(* is a block of the partition, and that what it names may be walked into, *)
(* depends on the inodes the active calls were given, which need be no     *)
(* directories but are no symbolic links, and on what their copies hold.   *)
(* FrameOK says that of one call, P1Inv of all.                            *)
(*                                                                         *)
(* What the pass establishes is proved for the partitions of P1Sound.      *)
(* P1PathInv says that the active calls are a path of the tree, that each  *)
(* is given the right parent, that the names in its copy are those on the  *)
(* disk, and that every pointer behind the walk is right.                  *)
(***************************************************************************)
EXTENDS Pass1, TreeProofs

\* Neither the call nor its caller is for a symbolic link, nothing in the copy of
\* the block leads to one, and there is no copy where there is no block.
FrameOK(f) ==
  /\ inodes[f.dir].mode # "lnk"
  /\ inodes[f.parent].mode # "lnk"
  /\ \A p \in DOMAIN f.buf : NoLink(f.buf[p], inodes)
  /\ ~ HasBlock(f.dir, f.blk) => f.buf = <<>>

\* The copy of a call that may still correct an entry is the block.
Fresh(f) ==
  IsPointer(f) /\ HasBlock(f.dir, f.blk) => f.buf = data[BlockId1(f)]

P1Inv ==
  /\ P1TypeOK
  /\ P1BufFresh
  /\ \A i \in 1 .. Len(stack1) : FrameOK(stack1[i])

-----------------------------------------------------------------------------
(* The disk *)

\* What the type invariant says of the parts of the disk, one by one.
LEMMA DiskParts ==
  ASSUME DiskTypeOK
  PROVE  /\ inodes \in [Inode -> InodeRecord]
         /\ data \in [Block -> Seq(Entry)]
         /\ \A n \in Inode : inodes[n].mode # "lnk" => inodes[n].blks \in Seq(Block)
         /\ \A b \in Block : \A p \in DOMAIN data[b] : NoLink(data[b][p], inodes)
         /\ inodes[ROOT_INODE_NUM].mode = "dir"
         /\ inodes[ROOT_INODE_NUM].blks # <<>>
BY DEF DiskTypeOK, IsImage

\* Entries may be written, as long as no link comes to be walked into.
LEMMA DataStep ==
  ASSUME DiskTypeOK,
         UNCHANGED <<inodes, links, overwritten, ibitmap, bbitmap>>,
         data' \in [Block -> Seq(Entry)],
         \A b \in Block : \A p \in DOMAIN data'[b] : NoLink(data'[b][p], inodes)
  PROVE  DiskTypeOK'
BY DEF DiskTypeOK, IsImage, NoLink

\* The root is an inode of every partition.
LEMMA RootIsInode == ROOT_INODE_NUM \in Inode
BY SizesAssumption DEF Inode, ROOT_INODE_NUM

-----------------------------------------------------------------------------
(* The calls *)

\* The copy a call makes of block k is that block, and nothing past the last.
LEMMA LoadBlockOK ==
  ASSUME DiskTypeOK, NEW n \in Inode, inodes[n].mode # "lnk", NEW k \in Nat \ {0}
  PROVE  /\ LoadBlock(n, k) \in Seq(Entry)
         /\ \A p \in DOMAIN LoadBlock(n, k) : NoLink(LoadBlock(n, k)[p], inodes)
         /\ HasBlock(n, k) =>
              /\ inodes[n].blks[k] \in Block
              /\ LoadBlock(n, k) = data[inodes[n].blks[k]]
         /\ ~ HasBlock(n, k) => LoadBlock(n, k) = <<>>
<1>1. inodes[n].blks \in Seq(Block)
  BY DiskParts
<1>2. Len(inodes[n].blks) \in Nat
  BY <1>1, LenProperties
<1>3. CASE HasBlock(n, k)
  <2>1. inodes[n].blks[k] \in Block
    BY <1>1, <1>2, <1>3, ElementOfSeq DEF HasBlock
  <2>2. LoadBlock(n, k) = data[inodes[n].blks[k]]
    BY <1>3 DEF LoadBlock
  <2>3. QED
    BY <1>2, <1>3, <2>1, <2>2, DiskParts
<1>4. CASE ~ HasBlock(n, k)
  <2>1. LoadBlock(n, k) = <<>>
    BY <1>4 DEF LoadBlock
  <2>2. DOMAIN LoadBlock(n, k) = {}
    BY <2>1
  <2>3. QED
    BY <1>2, <1>4, <2>1, <2>2, EmptySeq
<1>5. QED
  BY <1>3, <1>4

\* A call for no link, made by one that is for none, is as it should be when it has
\* read a block, and its copy is that block.
LEMMA AtBlockOK ==
  ASSUME DiskTypeOK, NEW d \in Inode, NEW n \in Inode, NEW k \in Nat \ {0},
         inodes[d].mode # "lnk", inodes[n].mode # "lnk"
  PROVE  AtBlock(d, n, k) \in Frame1 /\ FrameOK(AtBlock(d, n, k)) /\ Fresh(AtBlock(d, n, k))
<1>1. /\ LoadBlock(n, k) \in Seq(Entry)
      /\ \A p \in DOMAIN LoadBlock(n, k) : NoLink(LoadBlock(n, k)[p], inodes)
      /\ HasBlock(n, k) => LoadBlock(n, k) = data[inodes[n].blks[k]]
      /\ ~ HasBlock(n, k) => LoadBlock(n, k) = <<>>
  BY LoadBlockOK
<1>2. AtBlock(d, n, k) \in Frame1
  BY <1>1 DEF AtBlock, Frame1
<1>3. FrameOK(AtBlock(d, n, k))
  BY <1>1 DEF AtBlock, FrameOK
<1>4. Fresh(AtBlock(d, n, k))
  BY <1>1 DEF AtBlock, Fresh, BlockId1
<1>5. QED
  BY <1>2, <1>3, <1>4

\* The changes the steps make to a call.
LEMMA PastOK ==
  ASSUME NEW f \in Frame1
  PROVE  /\ Past(f) \in Frame1
         /\ Past(f).dir = f.dir /\ Past(f).parent = f.parent /\ Past(f).blk = f.blk
         /\ Past(f).buf = f.buf /\ Past(f).pos = f.pos + 1
BY DEF Past, Frame1

\* A call with another copy is a call at the same place.
LEMMA NewBufOK ==
  ASSUME NEW f \in Frame1, NEW b \in Seq(Entry)
  PROVE  LET g == [f EXCEPT !.buf = b]
         IN  /\ g \in Frame1 /\ g.dir = f.dir /\ g.parent = f.parent
             /\ g.blk = f.blk /\ g.buf = b /\ g.pos = f.pos
BY DEF Frame1

\* An entry made to name another inode keeps the sequence as it is otherwise.
LEMMA PointToOK ==
  ASSUME NEW buf \in Seq(Entry), NEW p \in 1 .. Len(buf), NEW n \in Inode
  PROVE  /\ PointTo(buf, p, n) \in Seq(Entry)
         /\ Len(PointTo(buf, p, n)) = Len(buf)
         /\ PointTo(buf, p, n)[p].ino = n
         /\ \A q \in 1 .. Len(buf) : q # p => PointTo(buf, p, n)[q] = buf[q]
<1> DEFINE e == [buf[p] EXCEPT !.ino = n]
<1>1. buf[p] \in Entry
  BY ElementOfSeq
<1>2. n \in 0 .. NInodes
  BY SizesAssumption DEF Inode
<1>3. e \in Entry /\ e.ino = n
  BY <1>1, <1>2 DEF Entry
<1>4. PointTo(buf, p, n) = [buf EXCEPT ![p] = e]
  BY DEF PointTo
<1> HIDE DEF e
<1>5. QED
  BY <1>3, <1>4, ExceptSeq

\* The running call.
LEMMA Top1OK ==
  ASSUME P1TypeOK, stack1 # <<>>
  PROVE  /\ Len(stack1) \in Nat \ {0}
         /\ Top1 \in Frame1
         /\ Top1 = stack1[Len(stack1)]
<1>1. stack1 \in Seq(Frame1)
  BY DEF P1TypeOK
<1>2. Len(stack1) \in Nat \ {0}
  BY <1>1, EmptySeq
<1>3. QED
  BY <1>1, <1>2, ElementOfSeq DEF Top1

\* Going on with the running call changes it and no other.
LEMMA Resume1OK ==
  ASSUME P1TypeOK, stack1 # <<>>, NEW f \in Frame1
  PROVE  /\ Resume1(f) \in Seq(Frame1)
         /\ Len(Resume1(f)) = Len(stack1)
         /\ \A i \in 1 .. Len(stack1) :
              Resume1(f)[i] = IF i = Len(stack1) THEN f ELSE stack1[i]
<1>1. stack1 \in Seq(Frame1)
  BY DEF P1TypeOK
<1>2. Len(stack1) \in 1 .. Len(stack1)
  BY Top1OK
<1>3. QED
  BY <1>1, <1>2, ExceptSeq DEF Resume1

-----------------------------------------------------------------------------
(* The invariant *)

\* Pass 1 starts in its invariant.
LEMMA InvInit == P1Init => P1Inv
<1> SUFFICES ASSUME P1Init PROVE P1Inv
  OBVIOUS
<1>1. DiskTypeOK
  BY ImagesAssumption DEF P1Init, ImageInit, DiskTypeOK
<1>2. stack1 = <<>> /\ pc = "pass1"
  BY DEF P1Init
<1>3. stack1 \in Seq(Frame1) /\ Len(stack1) = 0
  BY <1>2, EmptySeq
<1>4. QED
  BY <1>1, <1>2, <1>3 DEF P1Inv, P1TypeOK, P1BufFresh

\* A step that changes the running call only, into one that is as it should be
\* and whose copy is the block.
LEMMA ResumeStep ==
  ASSUME P1Inv, Running1, UNCHANGED <<disk, pc>>,
         NEW f \in Frame1, FrameOK(f), Fresh(f), stack1' = Resume1(f)
  PROVE  P1Inv'
<1>1. /\ stack1' \in Seq(Frame1)
      /\ Len(stack1') = Len(stack1)
      /\ \A i \in 1 .. Len(stack1) : stack1'[i] = IF i = Len(stack1) THEN f ELSE stack1[i]
  BY Resume1OK DEF P1Inv, Running1
<1>2. Len(stack1) \in Nat \ {0}
  BY Top1OK DEF P1Inv, Running1
<1>3. P1TypeOK'
  BY <1>1 DEF P1Inv, P1TypeOK, DiskTypeOK, disk
<1>4. P1BufFresh'
  BY <1>1, <1>2 DEF P1Inv, P1BufFresh, Fresh, IsPointer, HasBlock, BlockId1, disk
<1>5. (\A i \in 1 .. Len(stack1) : FrameOK(stack1[i]))'
  BY <1>1, <1>2 DEF P1Inv, FrameOK, HasBlock, disk
<1>6. QED
  BY <1>3, <1>4, <1>5 DEF P1Inv

\* The call for the root keeps the invariant.
LEMMA StartStep ==
  ASSUME P1Inv, P1Start
  PROVE  P1Inv'
<1> DEFINE root == Call1(ROOT_INODE_NUM, ROOT_INODE_NUM)
<1>1. root \in Frame1 /\ FrameOK(root) /\ Fresh(root)
  <2>1. ROOT_INODE_NUM \in Inode /\ inodes[ROOT_INODE_NUM].mode # "lnk" /\ DiskTypeOK
    BY RootIsInode, DiskParts DEF P1Inv, P1TypeOK
  <2>2. QED
    BY <2>1, AtBlockOK DEF Call1
<1>2. Fresh(root)
  BY <1>1
<1>3. stack1' = <<root>> /\ UNCHANGED disk /\ pc' = "p1_walk"
  BY DEF P1Start
<1>4. stack1' \in Seq(Frame1) /\ Len(stack1') = 1 /\ stack1'[1] = root
  BY <1>1, <1>3
<1>5. P1TypeOK'
  BY <1>3, <1>4 DEF P1Inv, P1TypeOK, DiskTypeOK, disk
<1>6. P1BufFresh'
  BY <1>2, <1>3, <1>4 DEF P1BufFresh, Fresh, IsPointer, HasBlock, BlockId1, disk
<1>7. (\A i \in 1 .. Len(stack1) : FrameOK(stack1[i]))'
  BY <1>1, <1>3, <1>4 DEF FrameOK, HasBlock, disk
<1>8. QED
  BY <1>5, <1>6, <1>7 DEF P1Inv

\* Going past an entry keeps the invariant.
LEMMA SkipStep ==
  ASSUME P1Inv, P1Skip
  PROVE  P1Inv'
<1> DEFINE f == Past(Top1)
<1>1. /\ Running1 /\ stack1' = Resume1(f) /\ UNCHANGED <<disk, pc>>
  BY DEF P1Skip
<1>2. Top1 \in Frame1 /\ Top1 = stack1[Len(stack1)] /\ Len(stack1) \in Nat \ {0}
  BY <1>1, Top1OK DEF P1Inv, Running1
<1>3. f \in Frame1 /\ f.dir = Top1.dir /\ f.parent = Top1.parent
        /\ f.blk = Top1.blk /\ f.buf = Top1.buf /\ f.pos = Top1.pos + 1
  BY <1>2, PastOK
<1>4. FrameOK(f)
  BY <1>2, <1>3 DEF P1Inv, FrameOK
<1>5. Fresh(f)
  BY <1>2, <1>3 DEF P1Inv, P1BufFresh, Fresh, IsPointer, BlockId1, Frame1
<1>6. QED
  BY <1>1, <1>3, <1>4, <1>5, ResumeStep

\* Reading the next block keeps the invariant: the copy is fresh.
LEMMA NextBlockStep ==
  ASSUME P1Inv, P1NextBlock
  PROVE  P1Inv'
<1> DEFINE f == AtBlock(Top1.parent, Top1.dir, Top1.blk + 1)
<1>1. /\ Running1 /\ stack1' = Resume1(f) /\ UNCHANGED <<disk, pc>>
  BY DEF P1NextBlock
<1>2. Top1 \in Frame1 /\ Top1 = stack1[Len(stack1)] /\ Len(stack1) \in Nat \ {0}
  BY <1>1, Top1OK DEF P1Inv, Running1
<1>3. DiskTypeOK /\ FrameOK(Top1)
  BY <1>2 DEF P1Inv, P1TypeOK
<1>4. Top1.dir \in Inode /\ Top1.parent \in Inode /\ Top1.blk + 1 \in Nat \ {0}
  BY <1>2 DEF Frame1
<1>5. inodes[Top1.dir].mode # "lnk" /\ inodes[Top1.parent].mode # "lnk"
  BY <1>3 DEF FrameOK
<1>6. f \in Frame1 /\ FrameOK(f) /\ Fresh(f)
  BY <1>3, <1>4, <1>5, AtBlockOK
<1>7. QED
  BY <1>1, <1>6, ResumeStep

\* A recursive call keeps the invariant: what is called is no link.
LEMMA DescendStep ==
  ASSUME P1Inv, P1Descend
  PROVE  P1Inv'
<1> DEFINE f == Past(Top1)
           g == Call1(Top1.dir, Entry1(Top1).ino)
<1>1. /\ Running1 /\ HasEntry1(Top1) /\ Descends(Top1)
      /\ stack1' = Append(Resume1(f), g) /\ UNCHANGED <<disk, pc>>
  BY DEF P1Descend
<1>2. Top1 \in Frame1 /\ Top1 = stack1[Len(stack1)] /\ Len(stack1) \in Nat \ {0}
  BY <1>1, Top1OK DEF P1Inv, Running1
<1>3. DiskTypeOK /\ FrameOK(Top1)
  BY <1>2 DEF P1Inv, P1TypeOK
<1>4. f \in Frame1 /\ f.dir = Top1.dir /\ f.parent = Top1.parent
        /\ f.blk = Top1.blk /\ f.buf = Top1.buf /\ f.pos = Top1.pos + 1
  BY <1>2, PastOK
<1>5. FrameOK(f) /\ ~IsPointer(f)
  BY <1>1, <1>2, <1>3, <1>4 DEF FrameOK, Descends, IsPointer, Frame1
<1>6. Entry1(Top1).ino \in Inode /\ inodes[Entry1(Top1).ino].mode # "lnk"
  <2>1. Top1.buf \in Seq(Entry) /\ Top1.pos \in 1 .. Len(Top1.buf)
    BY <1>1, <1>2, LenProperties DEF HasEntry1, Frame1
  <2>2. Entry1(Top1) \in Entry
    BY <2>1, ElementOfSeq DEF Entry1
  <2>3. Entry1(Top1).ino \in Inode
    BY <1>1, <2>2, SizesAssumption DEF HasEntry1, Entry1, Entry, Inode
  <2>4. NoLink(Entry1(Top1), inodes)
    BY <1>3, <2>1, LenProperties DEF FrameOK, Entry1
  <2>5. QED
    BY <1>1, <2>3, <2>4 DEF HasEntry1, Entry1, Descends, NoLink
<1>7. Top1.dir \in Inode /\ inodes[Top1.dir].mode # "lnk"
  BY <1>2, <1>3 DEF Frame1, FrameOK
<1>8. g \in Frame1 /\ FrameOK(g) /\ Fresh(g)
  BY <1>3, <1>6, <1>7, AtBlockOK DEF Call1
<1>9. /\ Resume1(f) \in Seq(Frame1) /\ Len(Resume1(f)) = Len(stack1)
      /\ \A i \in 1 .. Len(stack1) :
           Resume1(f)[i] = IF i = Len(stack1) THEN f ELSE stack1[i]
  BY <1>1, <1>4, Resume1OK DEF P1Inv, Running1
<1>10. /\ stack1' \in Seq(Frame1)
       /\ Len(stack1') = Len(stack1) + 1
       /\ \A i \in 1 .. Len(stack1) :
            stack1'[i] = IF i = Len(stack1) THEN f ELSE stack1[i]
       /\ stack1'[Len(stack1) + 1] = g
  BY <1>1, <1>2, <1>8, <1>9, AppendProperties
<1>11. P1TypeOK'
  BY <1>1, <1>10 DEF P1Inv, P1TypeOK, DiskTypeOK, disk
<1>12. \A i \in 1 .. Len(stack1) : ~IsPointer(stack1'[i]) /\ FrameOK(stack1'[i])
  BY <1>2, <1>5, <1>10 DEF P1Inv, P1BufFresh
<1> HIDE DEF f, g
<1>13. P1BufFresh'
  <2> SUFFICES ASSUME NEW i \in 1 .. Len(stack1'), IsPointer(stack1'[i])
               PROVE  i = Len(stack1') /\ Fresh(stack1[i])'
    BY DEF P1BufFresh, Fresh
  <2>1. i = Len(stack1') /\ stack1'[i] = g
    BY <1>2, <1>10, <1>12
  <2>2. QED
    BY <1>1, <1>8, <2>1 DEF Fresh, IsPointer, HasBlock, BlockId1, disk
<1>14. (\A i \in 1 .. Len(stack1) : FrameOK(stack1[i]))'
  <2> SUFFICES ASSUME NEW i \in 1 .. Len(stack1')
               PROVE  FrameOK(stack1'[i])
    BY <1>1 DEF FrameOK, HasBlock, disk
  <2>1. QED
    BY <1>2, <1>8, <1>10, <1>12
<1>15. QED
  BY <1>11, <1>13, <1>14 DEF P1Inv

\* A return keeps the invariant: the caller is past its first two entries.
LEMMA ReturnStep ==
  ASSUME P1Inv, P1Return
  PROVE  P1Inv'
<1>1. /\ Running1 /\ UNCHANGED <<disk, pc>>
      /\ stack1' = SubSeq(stack1, 1, Len(stack1) - 1)
  BY DEF P1Return
<1>2. Len(stack1) \in Nat \ {0}
  BY <1>1, Top1OK DEF P1Inv, Running1
<1>3. \A i \in 1 .. Len(stack1) - 1 : stack1[i] \in Frame1
  BY <1>2, ElementOfSeq DEF P1Inv, P1TypeOK
<1>4. /\ stack1' \in Seq(Frame1)
      /\ Len(stack1') = Len(stack1) - 1
      /\ \A i \in 1 .. Len(stack1) - 1 : stack1'[i] = stack1[i]
  <2> DEFINE n == Len(stack1) - 1
             rest == SubSeq(stack1, 1, n)
  <2>1. n \in Nat /\ stack1' = rest
    BY <1>1, <1>2
  <2>2. \A i \in 1 .. n : stack1[i] \in Frame1
    BY <1>3
  <2> HIDE DEF n
  <2>3. /\ rest \in Seq(Frame1)
        /\ Len(rest) = IF 1 <= n THEN n - 1 + 1 ELSE 0
        /\ \A i \in 1 .. n - 1 + 1 : rest[i] = stack1[1 + i - 1]
    BY <2>1, <2>2, SubSeqProperties
  <2> HIDE DEF rest
  <2>4. Len(rest) = n
    BY <2>1, <2>3
  <2>5. \A i \in 1 .. n : rest[i] = stack1[i]
    BY <2>1, <2>3
  <2>6. QED
    BY <2>1, <2>3, <2>4, <2>5 DEF n
<1>5. P1TypeOK'
  BY <1>1, <1>4 DEF P1Inv, P1TypeOK, DiskTypeOK, disk
<1>6. P1BufFresh'
  <2>1. \A i \in 1 .. Len(stack1) - 1 : ~IsPointer(stack1[i])
    BY <1>2 DEF P1Inv, P1BufFresh
  <2>2. QED
    BY <1>2, <1>4, <2>1 DEF P1BufFresh, IsPointer
<1>7. (\A i \in 1 .. Len(stack1) : FrameOK(stack1[i]))'
  BY <1>1, <1>2, <1>4 DEF P1Inv, FrameOK, HasBlock, disk
<1>8. QED
  BY <1>5, <1>6, <1>7 DEF P1Inv

\* What a correction does: the copy was the block, and the block becomes the
\* corrected copy.
LEMMA CorrectFacts ==
  ASSUME P1Inv, P1Correct
  PROVE  LET fixed == PointTo(Top1.buf, Top1.pos, Expected(Top1))
         IN  /\ Top1 \in Frame1 /\ Top1 = stack1[Len(stack1)] /\ Len(stack1) \in Nat \ {0}
             /\ Top1.pos \in 1 .. 2 /\ Top1.pos <= Len(Top1.buf)
             /\ Expected(Top1) \in Inode
             /\ BlockId1(Top1) \in Block
             /\ data[BlockId1(Top1)] = Top1.buf
             /\ fixed \in Seq(Entry)
             /\ \A p \in DOMAIN fixed : NoLink(fixed[p], inodes)
             /\ data' = [data EXCEPT ![BlockId1(Top1)] = fixed]
<1> DEFINE fixed == PointTo(Top1.buf, Top1.pos, Expected(Top1))
<1>1. /\ Running1 /\ HasEntry1(Top1) /\ WrongPointer(Top1)
      /\ data' = [data EXCEPT ![BlockId1(Top1)] = fixed]
  BY DEF P1Correct
<1>2. Top1 \in Frame1 /\ Top1 = stack1[Len(stack1)] /\ Len(stack1) \in Nat \ {0}
  BY <1>1, Top1OK DEF P1Inv, Running1
<1>3. DiskTypeOK /\ FrameOK(Top1)
  BY <1>2 DEF P1Inv, P1TypeOK
<1>4. /\ Top1.dir \in Inode /\ Top1.parent \in Inode /\ Top1.buf \in Seq(Entry)
      /\ Top1.blk \in Nat \ {0} /\ Top1.pos \in Nat \ {0}
  BY <1>2 DEF Frame1
<1>5. Len(Top1.buf) \in Nat /\ DOMAIN Top1.buf = 1 .. Len(Top1.buf)
  BY <1>4, LenProperties
<1>6. Top1.pos \in 1 .. 2 /\ Top1.pos \in 1 .. Len(Top1.buf)
  BY <1>1, <1>4, <1>5 DEF HasEntry1, WrongPointer, IsPointer
<1>7. Expected(Top1) \in Inode /\ inodes[Expected(Top1)].mode # "lnk"
  BY <1>3, <1>4 DEF Expected, FrameOK
<1>8. /\ fixed \in Seq(Entry) /\ Len(fixed) = Len(Top1.buf)
      /\ fixed[Top1.pos].ino = Expected(Top1)
      /\ \A q \in 1 .. Len(Top1.buf) : q # Top1.pos => fixed[q] = Top1.buf[q]
  BY <1>4, <1>6, <1>7, PointToOK
<1> HIDE DEF fixed
<1>9. \A p \in DOMAIN fixed : NoLink(fixed[p], inodes)
  <2>1. DOMAIN fixed = 1 .. Len(Top1.buf)
    BY <1>8, LenProperties
  <2>2. \A p \in 1 .. Len(Top1.buf) : NoLink(Top1.buf[p], inodes)
    BY <1>3, <1>5 DEF FrameOK
  <2>3. NoLink(fixed[Top1.pos], inodes)
    BY <1>7, <1>8 DEF NoLink
  <2>4. QED
    BY <1>8, <2>1, <2>2, <2>3
<1>10. inodes[Top1.dir].blks \in Seq(Block)
  BY <1>3, <1>4, DiskParts DEF FrameOK
<1>11. HasBlock(Top1.dir, Top1.blk) /\ Top1.blk \in 1 .. Len(inodes[Top1.dir].blks)
  <2>1. Len(inodes[Top1.dir].blks) \in Nat
    BY <1>10, LenProperties
  <2>2. Top1.buf # <<>>
    BY <1>4, <1>6, EmptySeq
  <2>3. HasBlock(Top1.dir, Top1.blk)
    BY <1>3, <2>2 DEF FrameOK
  <2>4. QED
    BY <1>4, <2>1, <2>3 DEF HasBlock
<1>12. BlockId1(Top1) \in Block
  BY <1>10, <1>11, ElementOfSeq DEF BlockId1
<1>13. data[BlockId1(Top1)] = Top1.buf
  BY <1>2, <1>6, <1>11 DEF P1Inv, P1BufFresh, IsPointer
<1>14. QED
  BY <1>1, <1>2, <1>6, <1>7, <1>8, <1>9, <1>12, <1>13 DEF fixed

\* A correction keeps the invariant: the copy is the block that is written.
LEMMA CorrectStep ==
  ASSUME P1Inv, P1Correct
  PROVE  P1Inv'
<1> DEFINE fixed == PointTo(Top1.buf, Top1.pos, Expected(Top1))
           g == [Top1 EXCEPT !.buf = fixed]
           f == Past(g)
<1>1. /\ Top1 \in Frame1 /\ Top1 = stack1[Len(stack1)] /\ Len(stack1) \in Nat \ {0}
      /\ BlockId1(Top1) \in Block /\ fixed \in Seq(Entry)
      /\ \A p \in DOMAIN fixed : NoLink(fixed[p], inodes)
      /\ data' = [data EXCEPT ![BlockId1(Top1)] = fixed]
  BY CorrectFacts
<1>2. /\ Running1 /\ stack1' = Resume1(f)
      /\ UNCHANGED <<pc, inodes, links, overwritten, ibitmap, bbitmap>>
  BY DEF P1Correct
<1>3. /\ f \in Frame1 /\ f.dir = Top1.dir /\ f.parent = Top1.parent
      /\ f.blk = Top1.blk /\ f.buf = fixed
  <2> HIDE DEF fixed
  <2>1. /\ g \in Frame1 /\ g.dir = Top1.dir /\ g.parent = Top1.parent
        /\ g.blk = Top1.blk /\ g.buf = fixed
    BY <1>1, NewBufOK
  <2> HIDE DEF g
  <2>2. QED
    BY <2>1, PastOK
<1>4. FrameOK(Top1) /\ DiskTypeOK
  BY <1>1 DEF P1Inv, P1TypeOK
<1> HIDE DEF fixed, g, f
<1>5. FrameOK(f)
  <2>1. HasBlock(f.dir, f.blk)
    <3>1. Top1.buf # <<>>
      BY <1>1, CorrectFacts, EmptySeq DEF Frame1
    <3>2. QED
      BY <1>3, <1>4, <3>1 DEF FrameOK
  <2>2. QED
    BY <1>1, <1>3, <1>4, <2>1 DEF FrameOK
<1>6. DiskTypeOK'
  <2>1. data' \in [Block -> Seq(Entry)]
    BY <1>1, <1>4, DiskParts
  <2>2. \A b \in Block : \A p \in DOMAIN data'[b] : NoLink(data'[b][p], inodes)
    BY <1>1, <1>4, DiskParts
  <2>3. QED
    BY <1>2, <1>4, <2>1, <2>2, DataStep
<1>7. /\ stack1' \in Seq(Frame1) /\ Len(stack1') = Len(stack1)
      /\ \A i \in 1 .. Len(stack1) :
           stack1'[i] = IF i = Len(stack1) THEN f ELSE stack1[i]
  BY <1>2, <1>3, Resume1OK DEF P1Inv, Running1
<1>8. P1TypeOK'
  BY <1>2, <1>6, <1>7 DEF P1Inv, P1TypeOK
<1>9. P1BufFresh'
  <2>1. \A i \in 1 .. Len(stack1) - 1 : ~IsPointer(stack1[i])
    BY <1>1 DEF P1Inv, P1BufFresh
  <2>2. data'[BlockId1(f)] = fixed
    BY <1>1, <1>3, <1>4, DiskParts DEF BlockId1
  <2>3. QED
    BY <1>1, <1>2, <1>3, <1>7, <2>1, <2>2 DEF P1BufFresh, IsPointer, HasBlock, BlockId1
<1>10. (\A i \in 1 .. Len(stack1) : FrameOK(stack1[i]))'
  <2>1. \A i \in 1 .. Len(stack1) : FrameOK(stack1'[i])
    BY <1>1, <1>5, <1>7 DEF P1Inv
  <2>2. QED
    BY <1>2, <1>7, <2>1 DEF FrameOK, HasBlock
<1>11. QED
  BY <1>8, <1>9, <1>10 DEF P1Inv

\* The end of the pass keeps the invariant.
LEMMA DoneStep ==
  ASSUME P1Inv, P1Done
  PROVE  P1Inv'
<1>1. pc' = "pass2" /\ UNCHANGED <<disk, stack1>>
  BY DEF P1Done
<1>2. P1TypeOK'
  BY <1>1 DEF P1Inv, P1TypeOK, DiskTypeOK, disk
<1>3. P1BufFresh'
  BY <1>1 DEF P1Inv, P1BufFresh, IsPointer, HasBlock, BlockId1, disk
<1>4. (\A i \in 1 .. Len(stack1) : FrameOK(stack1[i]))'
  BY <1>1 DEF P1Inv, FrameOK, HasBlock, disk
<1>5. QED
  BY <1>2, <1>3, <1>4 DEF P1Inv

\* A step that changes nothing keeps the invariant.
LEMMA StutterStep ==
  ASSUME P1Inv, UNCHANGED p1vars
  PROVE  P1Inv'
<1>1. UNCHANGED <<disk, pc, stack1>>
  BY DEF p1vars
<1>2. P1TypeOK'
  BY <1>1 DEF P1Inv, P1TypeOK, DiskTypeOK, disk
<1>3. P1BufFresh'
  BY <1>1 DEF P1Inv, P1BufFresh, IsPointer, HasBlock, BlockId1, disk
<1>4. (\A i \in 1 .. Len(stack1) : FrameOK(stack1[i]))'
  BY <1>1 DEF P1Inv, FrameOK, HasBlock, disk
<1>5. QED
  BY <1>2, <1>3, <1>4 DEF P1Inv

\* Every step of pass 1 keeps the invariant.
LEMMA InvStep == P1Inv /\ [P1Next]_p1vars => P1Inv'
<1> SUFFICES ASSUME P1Inv, [P1Next]_p1vars PROVE P1Inv'
  OBVIOUS
<1>1. CASE P1Start
  BY <1>1, StartStep
<1>2. CASE P1Correct
  BY <1>2, CorrectStep
<1>3. CASE P1Descend
  BY <1>3, DescendStep
<1>4. CASE P1Skip
  BY <1>4, SkipStep
<1>5. CASE P1NextBlock
  BY <1>5, NextBlockStep
<1>6. CASE P1Return
  BY <1>6, ReturnStep
<1>7. CASE P1Done
  BY <1>7, DoneStep
<1>8. CASE UNCHANGED p1vars
  BY <1>8, StutterStep
<1>9. QED
  BY <1>1, <1>2, <1>3, <1>4, <1>5, <1>6, <1>7, <1>8 DEF P1Next

-----------------------------------------------------------------------------
(* The theorems *)

\* The strengthened invariant holds from the start of pass1 to its end.
THEOREM Pass1Invariant == P1Spec => []P1Inv
<1>1. P1Init => P1Inv
  BY InvInit
<1>2. P1Inv /\ [P1Next]_p1vars => P1Inv'
  BY InvStep
<1>3. QED
  BY <1>1, <1>2, PTL DEF P1Spec

\* pass1 keeps the partition one it may be started on: what pass1_corrector
\* writes are entries, naming inodes of the partition, and no entry comes to
\* lead a walk into a symbolic link.
THEOREM Pass1TypeCorrect == P1Spec => []P1TypeOK
<1>1. P1Inv => P1TypeOK
  BY DEF P1Inv
<1>2. QED
  BY <1>1, Pass1Invariant, PTL

\* The copy of a block that a call of pass1 may still correct and write back is
\* what the disk holds, whatever the recursive calls have written meanwhile.
THEOREM Pass1BufFresh == P1Spec => []P1BufFresh
<1>1. P1Inv => P1BufFresh
  BY DEF P1Inv
<1>2. QED
  BY <1>1, Pass1Invariant, PTL

\* A write of pass1_corrector is the change of one inode number, in one of the
\* first two entries of one block, on the disk and not only in the copy.
THEOREM Pass1OnlyPointers == P1Spec => P1OnlyPointers
<1>1. P1Inv /\ [P1Next]_p1vars => [PointerWrite]_p1vars
  <2> SUFFICES ASSUME P1Inv, [P1Next]_p1vars PROVE PointerWrite
    OBVIOUS
  <2>1. CASE P1Correct
    <3> DEFINE c == BlockId1(Top1)
               n == Expected(Top1)
               fixed == PointTo(Top1.buf, Top1.pos, n)
    <3>1. /\ Top1.pos \in 1 .. 2 /\ Top1.pos <= Len(Top1.buf)
          /\ n \in Inode /\ c \in Block /\ data[c] = Top1.buf
          /\ data' = [data EXCEPT ![c] = fixed]
      BY <2>1, CorrectFacts
    <3>2. data \in [Block -> Seq(Entry)]
      BY DiskParts DEF P1Inv, P1TypeOK
    <3>3. fixed = PointTo(data[c], Top1.pos, n)
      BY <3>1
    <3> HIDE DEF fixed, c, n
    <3>4. data'[c] = fixed /\ \A b \in Block \ {c} : data'[b] = data[b]
      BY <3>1, <3>2
    <3>5. ASSUME NEW b \in Block, data'[b] # data[b]
          PROVE  /\ \A d \in Block \ {b} : data'[d] = data[d]
                 /\ \E p \in 1 .. 2, m \in Inode :
                      p <= Len(data[b]) /\ data'[b] = PointTo(data[b], p, m)
      <4>1. b = c
        BY <3>4, <3>5
      <4>2. QED
        BY <3>1, <3>3, <3>4, <4>1
    <3>6. QED
      BY <3>5 DEF PointerWrite
  <2>2. CASE ~P1Correct
    <3>1. UNCHANGED data
      BY <2>2 DEF P1Next, P1Start, P1Descend, P1Skip, P1NextBlock, P1Return,
                  P1Done, p1vars, disk
    <3>2. QED
      BY <3>1 DEF PointerWrite
  <2>3. QED
    BY <2>1, <2>2
<1>2. QED
  BY <1>1, Pass1Invariant, PTL DEF P1Spec, P1OnlyPointers

-----------------------------------------------------------------------------
(* The tree while its pointers are corrected *)

\* Entry p of the first block of d comes to name another inode.
Repointed(d, p) ==
  /\ UNCHANGED inodes
  /\ LET b == inodes[d].blks[1]
     IN  \E n \in Inode : data' = [data EXCEPT ![b] = PointTo(data[b], p, n)]

\* A corrected pointer hides no entry and changes no type.
LEMMA PointToVisible ==
  ASSUME NEW buf \in Seq(Entry), NEW p \in 1 .. Len(buf), NEW n \in Inode, buf[p].ino # 0
  PROVE  /\ Visible(PointTo(buf, p, n)) = Visible(buf)
         /\ DOMAIN PointTo(buf, p, n) = DOMAIN buf
         /\ \A q \in DOMAIN buf : PointTo(buf, p, n)[q].typ = buf[q].typ
<1> DEFINE new == PointTo(buf, p, n)
<1>1. /\ new \in Seq(Entry) /\ Len(new) = Len(buf) /\ new[p].ino = n
      /\ \A q \in 1 .. Len(buf) : q # p => new[q] = buf[q]
  BY PointToOK
<1>2. DOMAIN new = 1 .. Len(buf) /\ DOMAIN buf = 1 .. Len(buf) /\ Len(buf) \in Nat
  BY <1>1, LenProperties
<1>3. new[p].typ = buf[p].typ
  <2>1. buf[p] \in Entry /\ new = [buf EXCEPT ![p] = [buf[p] EXCEPT !.ino = n]]
    BY ElementOfSeq DEF PointTo
  <2>2. new[p] = [buf[p] EXCEPT !.ino = n]
    <3> HIDE DEF new
    <3>1. QED
      BY <1>2, <2>1
  <2>3. QED
    BY <2>1, <2>2 DEF Entry
<1> HIDE DEF new
<1>4. n # 0
  BY SizesAssumption DEF Inode
<1>5. \A q \in 1 .. Len(buf) : new[q].ino # 0 <=> buf[q].ino # 0
  BY <1>1, <1>4
<1>6. Visible(new) = Visible(buf)
  <2>1. ASSUME NEW r \in 1 .. Len(buf)
        PROVE  (\A q \in 1 .. r : new[q].ino # 0) <=> (\A q \in 1 .. r : buf[q].ino # 0)
    <3>1. \A q \in 1 .. r : q \in 1 .. Len(buf)
      BY <1>2
    <3>2. QED
      BY <1>5, <3>1
  <2>2. QED
    BY <1>2, <2>1 DEF Visible
<1>7. QED
  BY <1>1, <1>2, <1>3, <1>6 DEF new

\* The block of a directory of the tree.
LEMMA TreeBlock ==
  ASSUME DiskTypeOK, NEW d \in TreeDirs
  PROVE  /\ d \in Inode /\ IsDir(d) /\ inodes[d].blks \in Seq(Block)
         /\ \A k \in DOMAIN inodes[d].blks :
              inodes[d].blks[k] \in Block /\ data[inodes[d].blks[k]] \in Seq(Entry)
<1>1. d \in Inode /\ IsDir(d)
  BY TreeClosed DEF DirInodes
<1>2. inodes[d].blks \in Seq(Block)
  BY <1>1, DiskParts DEF IsDir
<1>3. \A k \in DOMAIN inodes[d].blks : inodes[d].blks[k] \in Block
  BY <1>2, LenProperties, ElementOfSeq
<1>4. QED
  BY <1>1, <1>2, <1>3, DiskParts

\* The pointers of a directory of the tree are there.
LEMMA DotsIn1 ==
  ASSUME DiskTypeOK, DotsThere, NEW d \in TreeDirs, NEW p \in 1 .. 2
  PROVE  /\ 1 \in DOMAIN inodes[d].blks
         /\ p \in DOMAIN data[inodes[d].blks[1]]
         /\ data[inodes[d].blks[1]][p].ino # 0
         /\ data[inodes[d].blks[1]][p].typ = "dir"
         /\ <<d, 1, p>> \in EntriesIn(d)
<1>1. <<1, p>> \in Entries(d) /\ EntryAt(d, <<1, p>>).typ = "dir"
  BY DEF DotsThere
<1>2. <<d, 1, p>> \in EntriesIn(d)
  <2> DEFINE e == <<1, p>>
  <2>1. e[1] = 1 /\ e[2] = p /\ e \in Entries(d)
    BY <1>1
  <2>2. <<d, e[1], e[2]>> \in EntriesIn(d)
    <3> HIDE DEF e
    <3>1. QED
      BY <2>1 DEF EntriesIn
  <2>3. QED
    BY <2>1, <2>2
<1>3. 1 \in DOMAIN inodes[d].blks /\ p \in Visible(data[inodes[d].blks[1]])
  <2> DEFINE x == <<d, 1, p>>
  <2>1. x[2] = 1 /\ x[3] = p
    OBVIOUS
  <2>2. x[2] \in DOMAIN inodes[d].blks /\ x[3] \in Visible(data[inodes[d].blks[x[2]]])
    BY <1>2, EntriesInIs
  <2>3. QED
    BY <2>1, <2>2
<1>4. EntryAt(d, <<1, p>>) = data[inodes[d].blks[1]][p]
  BY DEF EntryAt
<1>5. data[inodes[d].blks[1]][p].ino # 0
  BY <1>3 DEF Visible
<1>6. p \in DOMAIN data[inodes[d].blks[1]]
  BY <1>3 DEF Visible
<1>7. QED
  BY <1>1, <1>2, <1>3, <1>4, <1>5, <1>6

\* Of the blocks of the tree only that one changes, and of it only that number.
LEMMA RepointedBlocks ==
  ASSUME DiskTypeOK, DotsThere, BlocksApart, NEW d \in TreeDirs, NEW p \in 1 .. 2, Repointed(d, p),
         NEW c \in TreeDirs, NEW k \in DOMAIN inodes[c].blks
  PROVE  LET b == inodes[c].blks[k]
         IN  /\ Visible(data'[b]) = Visible(data[b])
             /\ DOMAIN data'[b] = DOMAIN data[b]
             /\ \A q \in DOMAIN data[b] :
                  /\ data'[b][q].typ = data[b][q].typ
                  /\ c # d \/ k # 1 \/ q # p => data'[b][q] = data[b][q]
<1> DEFINE b == inodes[c].blks[k]
           a == inodes[d].blks[1]
<1>1. PICK n \in Inode : data' = [data EXCEPT ![a] = PointTo(data[a], p, n)]
  BY DEF Repointed
<1>2. /\ 1 \in DOMAIN inodes[d].blks
      /\ a \in Block /\ data[a] \in Seq(Entry) /\ p \in DOMAIN data[a] /\ data[a][p].ino # 0
  BY DotsIn1, TreeBlock
<1>3. b \in Block /\ data \in [Block -> Seq(Entry)]
  BY TreeBlock, DiskParts
<1>4. b = a => c = d /\ k = 1
  BY <1>2 DEF BlocksApart
<1> HIDE DEF a, b
<1>5. CASE b # a
  <2>1. data'[b] = data[b]
    BY <1>1, <1>3, <1>5
  <2>2. QED
    BY <2>1 DEF b
<1>6. CASE b = a
  <2>1. data'[b] = PointTo(data[b], p, n)
    BY <1>1, <1>3, <1>6
  <2>2. data[b] \in Seq(Entry) /\ p \in 1 .. Len(data[b]) /\ data[b][p].ino # 0
    BY <1>2, <1>6, LenProperties
  <2> DEFINE buf == data[b]
  <2> HIDE DEF buf
  <2>3. /\ Visible(PointTo(buf, p, n)) = Visible(buf)
        /\ DOMAIN PointTo(buf, p, n) = DOMAIN buf
        /\ \A q \in DOMAIN buf : PointTo(buf, p, n)[q].typ = buf[q].typ
    BY <2>2, PointToVisible DEF buf
  <2>4. \A q \in DOMAIN buf : q # p => PointTo(buf, p, n)[q] = buf[q]
    BY <2>2, PointToOK, LenProperties DEF buf
  <2>5. c = d /\ k = 1
    BY <1>4, <1>6
  <2>6. QED
    BY <2>1, <2>3, <2>4, <2>5 DEF buf, b
<1>7. QED
  BY <1>5, <1>6

\* Nothing of what a directory of the tree names changes.
LEMMA RepointedNames ==
  ASSUME DiskTypeOK, DotsThere, BlocksApart, NEW d \in TreeDirs, NEW p \in 1 .. 2, Repointed(d, p),
         NEW c \in TreeDirs
  PROVE  /\ Entries(c)' = Entries(c) /\ EntriesIn(c)' = EntriesIn(c) /\ SubDirs(c)' = SubDirs(c)
         /\ \A x \in EntriesIn(c) :
              LET e == <<x[2], x[3]>>
              IN  /\ EntryAt(c, e)'.typ = EntryAt(c, e).typ
                  /\ c # d \/ x[2] # 1 \/ x[3] # p => EntryAt(c, e)' = EntryAt(c, e)
<1>1. UNCHANGED inodes
  BY DEF Repointed
<1>2. \A n : IsDir(n)' <=> IsDir(n)
  BY <1>1 DEF IsDir
<1>3. Entries(c)' = Entries(c)
  <2>1. \A k \in DOMAIN inodes[c].blks :
          Visible(data'[inodes[c].blks[k]]) = Visible(data[inodes[c].blks[k]])
    BY RepointedBlocks
  <2>2. DOMAIN inodes'[c].blks = DOMAIN inodes[c].blks
    BY <1>1
  <2>3. Entries(c)' = IF IsDir(c)
                      THEN UNION { {<<k, q>> : q \in Visible(data'[inodes[c].blks[k]])} :
                                   k \in DOMAIN inodes[c].blks }
                      ELSE {}
    BY <1>1, <1>2, <2>2 DEF Entries
  <2>4. Entries(c) = IF IsDir(c)
                     THEN UNION { {<<k, q>> : q \in Visible(data[inodes[c].blks[k]])} :
                                  k \in DOMAIN inodes[c].blks }
                     ELSE {}
    BY DEF Entries
  <2>5. { {<<k, q>> : q \in Visible(data'[inodes[c].blks[k]])} : k \in DOMAIN inodes[c].blks }
         = { {<<k, q>> : q \in Visible(data[inodes[c].blks[k]])} : k \in DOMAIN inodes[c].blks }
    BY <2>1
  <2>6. QED
    BY <2>3, <2>4, <2>5
<1>4. EntriesIn(c)' = EntriesIn(c)
  BY <1>3 DEF EntriesIn
<1>5. ASSUME NEW x \in EntriesIn(c)
      PROVE  LET e == <<x[2], x[3]>>
             IN  /\ EntryAt(c, e)'.typ = EntryAt(c, e).typ
                 /\ c # d \/ x[2] # 1 \/ x[3] # p => EntryAt(c, e)' = EntryAt(c, e)
  <2>1. x[2] \in DOMAIN inodes[c].blks /\ x[3] \in Visible(data[inodes[c].blks[x[2]]])
    BY EntriesInIs
  <2> DEFINE k == x[2]
             q == x[3]
  <2> HIDE DEF k, q
  <2>2. k \in DOMAIN inodes[c].blks /\ q \in DOMAIN data[inodes[c].blks[k]]
    BY <2>1 DEF Visible, k, q
  <2>3. /\ data'[inodes[c].blks[k]][q].typ = data[inodes[c].blks[k]][q].typ
        /\ c # d \/ k # 1 \/ q # p =>
             data'[inodes[c].blks[k]][q] = data[inodes[c].blks[k]][q]
    BY <2>2, RepointedBlocks
  <2>4. /\ EntryAt(c, <<k, q>>) = data[inodes[c].blks[k]][q]
        /\ EntryAt(c, <<k, q>>)' = data'[inodes[c].blks[k]][q]
    BY <1>1 DEF EntryAt
  <2>5. QED
    BY <2>3, <2>4 DEF k, q
<1>6. SubDirs(c)' = SubDirs(c)
  <2>1. Names(c)' = Names(c)
    BY <1>3 DEF Names
  <2>2. ASSUME NEW e \in Names(c) PROVE EntryAt(c, e)' = EntryAt(c, e)
    <3>1. e \in Entries(c) /\ (e[1] > 1 \/ e[2] > 2)
      BY DEF Names
    <3> DEFINE x == <<c, e[1], e[2]>>
    <3>2. x \in EntriesIn(c) /\ x[2] = e[1] /\ x[3] = e[2]
      BY <3>1 DEF EntriesIn
    <3>3. x[2] # 1 \/ x[3] # p
      BY <3>1, <3>2
    <3> HIDE DEF x
    <3>4. EntryAt(c, <<x[2], x[3]>>)' = EntryAt(c, <<x[2], x[3]>>)
      BY <1>5, <3>2, <3>3
    <3>5. /\ EntryAt(c, <<x[2], x[3]>>) = EntryAt(c, e)
          /\ EntryAt(c, <<x[2], x[3]>>)' = EntryAt(c, e)'
      BY <3>2 DEF EntryAt
    <3>6. QED
      BY <3>4, <3>5
  <2>3. {x \in Names(c) : EntryAt(c, x).typ = "dir"}' = {x \in Names(c) : EntryAt(c, x).typ = "dir"}
    BY <2>1, <2>2
  <2>4. {EntryAt(c, e).ino : e \in {x \in Names(c) : EntryAt(c, x).typ = "dir"}}'
          = {EntryAt(c, e).ino : e \in {x \in Names(c) : EntryAt(c, x).typ = "dir"}}
    BY <2>2, <2>3
  <2>5. QED
    BY <1>2, <2>4 DEF SubDirs
<1>7. QED
  BY <1>3, <1>4, <1>5, <1>6

\* The tree stays, its names do, and it stays one that pass 1 can put right.
LEMMA RepointedTree ==
  ASSUME DiskTypeOK, DiskTypeOK', P1Sound, NEW d \in TreeDirs, NEW p \in 1 .. 2, Repointed(d, p)
  PROVE  /\ TreeDirs' = TreeDirs /\ TreeEntries' = TreeEntries
         /\ \A x \in TreeEntries :
              /\ NamesDir(x)' <=> NamesDir(x)
              /\ x[1] # d \/ x[2] # 1 \/ x[3] # p => Named(x)' = Named(x)
         /\ P1Sound'
<1>1. /\ DotsThere /\ BlocksApart /\ HeadsClear /\ TreeShape
      /\ UNCHANGED inodes
  BY DEF P1Sound, Repointed
<1>2. \A c \in TreeDirs : /\ Entries(c)' = Entries(c)
                          /\ EntriesIn(c)' = EntriesIn(c)
                          /\ SubDirs(c)' = SubDirs(c)
  BY <1>1, RepointedNames
<1>3. TreeDirs' = TreeDirs
  BY <1>2, TreeLike
<1>4. TreeEntries' = TreeEntries
  BY <1>2, <1>3 DEF TreeEntries
<1>5. ASSUME NEW x \in TreeEntries
      PROVE  /\ NamesDir(x)' <=> NamesDir(x)
             /\ x[1] # d \/ x[2] # 1 \/ x[3] # p => Named(x)' = Named(x)
  <2>1. x[1] \in TreeDirs /\ x \in EntriesIn(x[1])
    BY TreeEntriesIs
  <2> DEFINE c == x[1]
             e == <<x[2], x[3]>>
  <2>2. /\ EntryAt(c, e)'.typ = EntryAt(c, e).typ
        /\ c # d \/ x[2] # 1 \/ x[3] # p => EntryAt(c, e)' = EntryAt(c, e)
    BY <1>1, <2>1, RepointedNames
  <2>3. Named(x) = EntryAt(c, e).ino /\ Named(x)' = EntryAt(c, e)'.ino
    BY DEF Named
  <2>4. /\ NamesDir(x) <=> IsName(x) /\ EntryAt(c, e).typ = "dir"
        /\ NamesDir(x)' <=> IsName(x) /\ EntryAt(c, e)'.typ = "dir"
    BY DEF NamesDir, IsName
  <2> HIDE DEF c, e
  <2>5. QED
    BY <2>2, <2>3, <2>4 DEF c
<1>6. \A x \in TreeEntries : NamesDir(x) => Named(x)' = Named(x)
  BY <1>5 DEF NamesDir, IsName
<1>7. \A n : IsDir(n)' <=> IsDir(n)
  BY <1>1 DEF IsDir
<1>8. TreeShape'
  <2>1. \A x \in TreeEntries : NamesDir(x)' => IsDir(Named(x)') /\ Named(x)' # ROOT_INODE_NUM
    BY <1>1, <1>5, <1>6 DEF TreeShape
  <2>2. \A x, y \in TreeEntries : NamesDir(x)' /\ NamesDir(y)' /\ Named(x)' = Named(y)' => x = y
    BY <1>1, <1>5, <1>6 DEF TreeShape
  <2>3. QED
    BY <1>1, <1>4, <2>1, <2>2 DEF TreeShape, IsDir
<1>9. ASSUME NEW c \in TreeDirs, NEW e \in Entries(c)
      PROVE  EntryAt(c, e)'.typ = EntryAt(c, e).typ
  <2> DEFINE x == <<c, e[1], e[2]>>
  <2>1. x \in EntriesIn(c) /\ x[2] = e[1] /\ x[3] = e[2]
    BY DEF EntriesIn
  <2> HIDE DEF x
  <2>2. EntryAt(c, <<x[2], x[3]>>)'.typ = EntryAt(c, <<x[2], x[3]>>).typ
    BY <1>1, <2>1, RepointedNames
  <2>3. /\ EntryAt(c, <<x[2], x[3]>>) = EntryAt(c, e)
        /\ EntryAt(c, <<x[2], x[3]>>)' = EntryAt(c, e)'
    BY <2>1 DEF EntryAt
  <2>4. QED
    BY <2>2, <2>3
<1>10. DotsThere'
  BY <1>1, <1>2, <1>3, <1>9 DEF DotsThere
<1>11. HeadsClear'
  BY <1>1, <1>2, <1>3, <1>9 DEF HeadsClear
<1>12. BlocksApart'
  BY <1>1, <1>3 DEF BlocksApart
<1>13. QED
  BY <1>3, <1>4, <1>5, <1>8, <1>10, <1>11, <1>12 DEF P1Sound

\* The walk has been where it has been.
LEMMA RepointedWalked ==
  ASSUME DiskTypeOK, DiskTypeOK', P1Sound, NEW d \in TreeDirs, NEW p \in 1 .. 2, Repointed(d, p),
         NEW S, NEW E, NEW F, Walked(S, E, F)
  PROVE  Walked(S, E, F)'
<1>1. DotsThere /\ BlocksApart /\ UNCHANGED inodes
  BY DEF P1Sound, Repointed
<1>2. /\ F \subseteq WFrame /\ E \subseteq TreeDirs /\ S \subseteq TreeEntries
      /\ \A f \in F : f.dir \in TreeDirs
  BY TreeOver DEF Walked, WalkedOver
<1>3. TreeDirs' = TreeDirs /\ TreeEntries' = TreeEntries
  BY RepointedTree
<1>4. \A c \in TreeDirs : EntriesIn(c)' = EntriesIn(c)
  BY <1>1, RepointedNames
<1>5. \A x \in TreeEntries : (NamesDir(x)' <=> NamesDir(x)) /\ (NamesDir(x) => Named(x)' = Named(x))
  <2>1. \A x \in TreeEntries :
          /\ NamesDir(x)' <=> NamesDir(x)
          /\ x[1] # d \/ x[2] # 1 \/ x[3] # p => Named(x)' = Named(x)
    BY RepointedTree
  <2>2. \A x : NamesDir(x) => x[2] # 1 \/ x[3] # p
    BY DEF NamesDir, IsName
  <2>3. QED
    BY <2>1, <2>2
<1>6. \A f \in F : OnBlock(f)' <=> OnBlock(f)
  BY <1>1 DEF OnBlock
<1>7. \A f \in F : OnBlock(f) => Visible(BlockAt(f))' = Visible(BlockAt(f))
  <2>1. SUFFICES ASSUME NEW f \in F, OnBlock(f) PROVE Visible(BlockAt(f))' = Visible(BlockAt(f))
    OBVIOUS
  <2>2. f.blk \in DOMAIN inodes[f.dir].blks /\ f.dir \in TreeDirs
    BY <1>2, <2>1 DEF OnBlock
  <2>3. Visible(data'[inodes[f.dir].blks[f.blk]]) = Visible(data[inodes[f.dir].blks[f.blk]])
    BY <1>1, <2>2, RepointedBlocks
  <2>4. QED
    BY <1>1, <2>3 DEF BlockAt, Visible
<1>8. \A f \in F : OnBlock(f)' => 1 .. f.pos - 1 \subseteq Visible(BlockAt(f))'
  BY <1>6, <1>7 DEF Walked, WalkedOver
<1>9. \A f \in F : \A x \in EntriesIn(f.dir)' : x \in S <=> Before(f, x)
  BY <1>2, <1>4 DEF Walked, WalkedOver
<1>10. \A c \in E : (\A f \in F : f.dir # c) => EntriesIn(c)' \subseteq S
  BY <1>2, <1>4 DEF Walked, WalkedOver
<1>11. \A x \in S : NamesDir(x)' => Named(x)' \in E
  BY <1>2, <1>5 DEF Walked, WalkedOver
<1>12. \A c \in E \ {ROOT_INODE_NUM} : \E x \in S : NamesDir(x)' /\ Named(x)' = c
  <2>1. SUFFICES ASSUME NEW c \in E \ {ROOT_INODE_NUM} PROVE \E x \in S : NamesDir(x)' /\ Named(x)' = c
    OBVIOUS
  <2>2. PICK x \in S : NamesDir(x) /\ Named(x) = c
    BY DEF Walked, WalkedOver
  <2>3. QED
    BY <1>2, <1>5, <2>2
<1>13. Over(TreeDirs)' = Over(TreeDirs)
  BY <1>3, TreeOver DEF TreeEntries, Over, EntriesIn
<1>14. QED
  BY <1>2, <1>3, <1>8, <1>9, <1>10, <1>11, <1>12, <1>13 DEF Walked, WalkedOver

-----------------------------------------------------------------------------
(* The calls as a walk of the tree *)

\* A call as the lemmas about walks know it.
Place(f) == [dir |-> f.dir, blk |-> f.blk, pos |-> f.pos]
Places(st) == {Place(st[i]) : i \in 1 .. Len(st)}
Apart(st) == \A i, j \in 1 .. Len(st) : st[i].dir = st[j].dir => i = j

\* The place of a call is one in terms of walks.
LEMMA PlaceIn1 ==
  ASSUME NEW f \in Frame1
  PROVE  /\ Place(f) \in WFrame
         /\ Place(f).dir = f.dir /\ Place(f).blk = f.blk /\ Place(f).pos = f.pos
BY DEF Place, Frame1, WFrame

\* When the running call moves on, its place does.
LEMMA PlacesResume ==
  ASSUME P1TypeOK, stack1 # <<>>, Apart(stack1), NEW f \in Frame1, f.dir = Top1.dir
  PROVE  LET s == Resume1(f)
         IN  /\ Apart(s)
             /\ Places(s) = (Places(stack1) \ {Place(Top1)}) \cup {Place(f)}
<1> DEFINE s == Resume1(f)
           n == Len(stack1)
<1>1. n \in Nat \ {0} /\ Top1 = stack1[n] /\ Top1 \in Frame1
  BY Top1OK
<1>2. /\ Len(s) = n
      /\ \A i \in 1 .. n : s[i] = IF i = n THEN f ELSE stack1[i]
  BY Resume1OK
<1> HIDE DEF s
<1>3. Apart(s)
  BY <1>1, <1>2 DEF Apart
<1>4. \A i \in 1 .. n : Place(stack1[i]) = Place(Top1) <=> i = n
  <2>1. SUFFICES ASSUME NEW i \in 1 .. n, Place(stack1[i]) = Place(Top1) PROVE i = n
    BY <1>1
  <2>2. stack1[i].dir = stack1[n].dir
    BY <1>1, <2>1 DEF Place
  <2>3. QED
    BY <1>1, <2>2 DEF Apart
<1>5. Places(s) = (Places(stack1) \ {Place(Top1)}) \cup {Place(f)}
  <2>1. n \in 1 .. n
    BY <1>1
  <2>2. \A i \in 1 .. n : Place(s[i]) = IF i = n THEN Place(f) ELSE Place(stack1[i])
    BY <1>2
  <2>3. Places(s) = {Place(s[i]) : i \in 1 .. n} /\ Places(stack1) = {Place(stack1[i]) : i \in 1 .. n}
    BY <1>2 DEF Places
  <2>4. QED
    BY <1>4, <2>1, <2>2, <2>3
<1>6. QED
  BY <1>3, <1>5 DEF s

\* A call adds its place.
LEMMA PlacesCall ==
  ASSUME NEW s \in Seq(Frame1), Apart(s), NEW c \in Frame1, \A h \in Places(s) : h.dir # c.dir
  PROVE  Apart(Append(s, c)) /\ Places(Append(s, c)) = Places(s) \cup {Place(c)}
<1> DEFINE t == Append(s, c)
           n == Len(s)
<1>1. /\ n \in Nat /\ Len(t) = n + 1 /\ t[n + 1] = c
      /\ \A i \in 1 .. n : t[i] = s[i] /\ s[i] \in Frame1
  BY AppendProperties, LenProperties, ElementOfSeq
<1> HIDE DEF t
<1>2. \A i \in 1 .. n + 1 : i = n + 1 \/ i \in 1 .. n
  BY <1>1
<1>3. \A i \in 1 .. n : t[i].dir # t[n + 1].dir
  <2>1. SUFFICES ASSUME NEW i \in 1 .. n PROVE s[i].dir # c.dir
    BY <1>1
  <2>2. Place(s[i]) \in Places(s) /\ Place(s[i]).dir = s[i].dir
    BY <1>1, PlaceIn1 DEF Places
  <2>3. QED
    BY <2>2
<1>4. \A i, j \in 1 .. n : t[i].dir = t[j].dir => i = j
  BY <1>1 DEF Apart
<1>5. Apart(t)
  <2>1. \A i, j \in 1 .. n + 1 : t[i].dir = t[j].dir => i = j
    BY <1>2, <1>3, <1>4
  <2>2. QED
    BY <1>1, <2>1 DEF Apart
<1>6. Places(t) = Places(s) \cup {Place(c)}
  <2>1. n + 1 \in 1 .. n + 1 /\ 1 .. n \subseteq 1 .. n + 1
    BY <1>1
  <2>2. Places(t) = {Place(t[i]) : i \in 1 .. n + 1} /\ Places(s) = {Place(s[i]) : i \in 1 .. n}
    BY <1>1 DEF Places
  <2>3. \A i \in 1 .. n : Place(t[i]) = Place(s[i])
    BY <1>1
  <2>4. QED
    BY <1>1, <1>2, <2>1, <2>2, <2>3
<1>7. QED
  BY <1>5, <1>6 DEF t

\* The call that returns is taken off.
LEMMA PlacesReturn ==
  ASSUME NEW s \in Seq(Frame1), s # <<>>, Apart(s)
  PROVE  LET t == SubSeq(s, 1, Len(s) - 1)
         IN  /\ Apart(t) /\ Len(t) = Len(s) - 1
             /\ \A i \in 1 .. Len(s) - 1 : t[i] = s[i]
             /\ Places(t) = Places(s) \ {Place(s[Len(s)])}
<1> DEFINE n == Len(s)
           m == n - 1
           t == SubSeq(s, 1, m)
<1>1. n \in Nat \ {0} /\ m \in Nat /\ \A i \in 1 .. n : s[i] \in Frame1
  BY EmptySeq, LenProperties, ElementOfSeq
<1>2. /\ Len(t) = m
      /\ \A i \in 1 .. m : t[i] = s[i]
  <2>1. 1 \in Int /\ m \in Int /\ \A i \in 1 .. m : s[i] \in Frame1
    BY <1>1
  <2>2. m \in Nat
    BY <1>1
  <2> HIDE DEF m
  <2>3. /\ SubSeq(s, 1, m) \in Seq(Frame1)
        /\ Len(SubSeq(s, 1, m)) = IF 1 <= m THEN m - 1 + 1 ELSE 0
        /\ \A i \in 1 .. m - 1 + 1 : SubSeq(s, 1, m)[i] = s[1 + i - 1]
    BY <2>1, SubSeqProperties
  <2>4. m - 1 + 1 = m /\ \A i \in 1 .. m : 1 + i - 1 = i
    BY <2>2
  <2>5. QED
    BY <2>2, <2>3, <2>4
<1> HIDE DEF t
<1>3. Apart(t)
  <2>1. 1 .. m \subseteq 1 .. n
    BY <1>1
  <2>2. QED
    BY <1>2, <2>1 DEF Apart
<1>4. \A i \in 1 .. n : (Place(s[i]) = Place(s[n]) <=> i = n) /\ (i = n \/ i \in 1 .. m)
  <2>1. SUFFICES ASSUME NEW i \in 1 .. n
                 PROVE  (Place(s[i]) = Place(s[n]) => i = n) /\ (i = n \/ i \in 1 .. m)
    OBVIOUS
  <2>2. Place(s[i]) = Place(s[n]) => s[i].dir = s[n].dir
    BY DEF Place
  <2>3. QED
    BY <1>1, <2>2 DEF Apart
<1>5. Places(t) = Places(s) \ {Place(s[n])}
  <2>1. 1 .. m \subseteq 1 .. n /\ n \notin 1 .. m
    BY <1>1
  <2>2. Places(t) = {Place(t[i]) : i \in 1 .. m} /\ Places(s) = {Place(s[i]) : i \in 1 .. n}
    BY <1>2 DEF Places
  <2>3. \A i \in 1 .. m : Place(t[i]) = Place(s[i])
    BY <1>2
  <2> HIDE DEF m
  <2>4. QED
    BY <1>4, <2>1, <2>2, <2>3
<1>6. QED
  BY <1>2, <1>3, <1>5 DEF t

-----------------------------------------------------------------------------
(* What a walk of pass 1 has put right *)

\* No directory has two parents, the root has none.
LEMMA OneParent ==
  ASSUME DiskTypeOK, TreeShape, NEW a \in TreeDirs, NEW c \in SubDirs(a)
  PROVE  /\ c \in TreeDirs /\ c # ROOT_INODE_NUM
         /\ \A b \in TreeDirs : c \in SubDirs(b) => a = b
<1>1. ASSUME NEW b \in TreeDirs, c \in SubDirs(b)
      PROVE  \E x \in TreeEntries : x[1] = b /\ NamesDir(x) /\ Named(x) = c
  <2>1. PICK x \in EntriesIn(b) : NamesDir(x) /\ Named(x) = c
    BY <1>1, SubDirsNamed
  <2>2. x = <<b, x[2], x[3]>>
    BY EntriesInIs
  <2>3. \A k, q : <<b, k, q>>[1] = b
    OBVIOUS
  <2>4. x[1] = b
    BY <2>2, <2>3, Zenon
  <2>5. QED
    BY <1>1, <2>1, <2>4, TreeEntriesIs
<1>2. c \in TreeDirs
  BY TreeClosed DEF Closed
<1>3. PICK x \in TreeEntries : x[1] = a /\ NamesDir(x) /\ Named(x) = c
  BY <1>1
<1>4. c # ROOT_INODE_NUM
  BY <1>3 DEF TreeShape
<1>5. ASSUME NEW b \in TreeDirs, c \in SubDirs(b) PROVE a = b
  <2>1. PICK y \in TreeEntries : y[1] = b /\ NamesDir(y) /\ Named(y) = c
    BY <1>1, <1>5
  <2>2. x = y
    BY <1>3, <2>1 DEF TreeShape
  <2>3. QED
    BY <1>3, <2>1, <2>2
<1>6. QED
  BY <1>2, <1>4, <1>5

\* The copy of a call is the block it is at, and it was given its parent.
CopyOK(f) == HasBlock(f.dir, f.blk) => f.buf = data[BlockId1(f)]
GivenOK(f) ==
  IF f.dir = ROOT_INODE_NUM THEN f.parent = ROOT_INODE_NUM
  ELSE f.parent \in TreeDirs /\ f.dir \in SubDirs(f.parent)

\* The pointers the walk has been past are right.
RightIn(S) ==
  \A d \in TreeDirs : (<<d, 1, 1>> \in S => SelfOK(d)) /\ (<<d, 1, 2>> \in S => UpOK(d))

\* Each call was given the directory its caller is in.
OnPath(st) ==
  /\ Apart(st)
  /\ \A i \in 1 .. Len(st) : CopyOK(st[i]) /\ GivenOK(st[i])
  /\ \A i \in 1 .. Len(st) - 1 :
       st[i + 1].parent = st[i].dir /\ st[i + 1].dir # ROOT_INODE_NUM

PathInv(S, E) == OnPath(stack1) /\ Walked(S, E, Places(stack1)) /\ RightIn(S)

P1PathInv ==
  /\ P1Sound
  /\ pc = "p1_walk" => \E S, E : PathInv(S, E)
  /\ pc # "p1_walk" => stack1 = <<>>
  /\ pc = "pass2" => DirectoryPointersOK

\* The running call, as the tree has it.
LEMMA Here1OK ==
  ASSUME P1Inv, P1Sound, stack1 # <<>>, NEW S, NEW E, PathInv(S, E)
  PROVE  /\ Top1 \in Frame1 /\ Top1 = stack1[Len(stack1)] /\ Len(stack1) \in Nat \ {0}
         /\ Place(Top1) \in Places(stack1) /\ Place(Top1) \in WFrame
         /\ Top1.dir \in TreeDirs /\ Top1.dir \in Inode /\ IsDir(Top1.dir)
         /\ CopyOK(Top1) /\ GivenOK(Top1)
         /\ HasBlock(Top1.dir, Top1.blk) <=> OnBlock(Place(Top1))
         /\ HasEntry1(Top1) <=> AtEntry(Place(Top1))
<1> DEFINE f == Top1
           w == Place(f)
<1>1. DiskTypeOK /\ P1TypeOK
  BY DEF P1Inv, P1TypeOK
<1>2. f \in Frame1 /\ f = stack1[Len(stack1)] /\ Len(stack1) \in Nat \ {0}
  BY <1>1, Top1OK
<1>3. FrameOK(f) /\ CopyOK(f) /\ GivenOK(f)
  BY <1>2 DEF P1Inv, PathInv, OnPath
<1>4. w \in Places(stack1)
  BY <1>2 DEF Places
<1> HIDE DEF f
<1>5. w \in WFrame /\ w.dir = f.dir /\ w.blk = f.blk /\ w.pos = f.pos
  BY <1>2, PlaceIn1
<1>6. f.dir \in TreeDirs
  BY <1>4, <1>5 DEF PathInv, Walked, WalkedOver
<1>7. f.dir \in Inode /\ IsDir(f.dir) /\ inodes[f.dir].blks \in Seq(Block)
  BY <1>1, <1>6, TreeBlock
<1>8. f.blk \in Nat \ {0} /\ f.pos \in Nat \ {0} /\ f.buf \in Seq(Entry)
  BY <1>2 DEF Frame1
<1>9. HasBlock(f.dir, f.blk) <=> OnBlock(w)
  BY <1>1, <1>5, <1>7, <1>8, HasBlockOK DEF OnBlock
<1>10. HasEntry1(f) <=> AtEntry(w)
  <2>1. CASE ~ OnBlock(w)
    <3>1. f.buf = <<>>
      BY <1>3, <1>9, <2>1 DEF FrameOK
    <3>2. Len(f.buf) = 0
      BY <3>1
    <3>3. QED
      BY <1>8, <2>1, <3>2 DEF HasEntry1, AtEntry
  <2>2. CASE OnBlock(w)
    <3>1. f.buf = BlockAt(w)
      BY <1>3, <1>5, <1>9, <2>2 DEF CopyOK, BlockId1, BlockAt
    <3>2. Len(f.buf) \in Nat
      BY <1>8, LenProperties
    <3>3. QED
      BY <1>5, <1>8, <2>2, <3>1, <3>2 DEF HasEntry1, AtEntry
  <2>3. QED
    BY <2>1, <2>2
<1>11. QED
  BY <1>2, <1>3, <1>4, <1>5, <1>6, <1>7, <1>9, <1>10 DEF f

\* The entry it is at.
LEMMA Entry1Here ==
  ASSUME P1Inv, P1Sound, stack1 # <<>>, NEW S, NEW E, PathInv(S, E), HasEntry1(Top1)
  PROVE  LET f == Top1
             x == <<f.dir, f.blk, f.pos>>
         IN  /\ x \in EntriesIn(f.dir) /\ x \in TreeEntries
             /\ f.blk \in DOMAIN inodes[f.dir].blks
             /\ f.buf = data[inodes[f.dir].blks[f.blk]]
             /\ Named(x) = Entry1(f).ino /\ Entry1(f).ino \in Inode
             /\ IsName(x) <=> f.blk > 1 \/ f.pos > 2
             /\ NamesDir(x) <=> IsName(x) /\ Entry1(f).typ = "dir"
             /\ f.blk > 1 /\ f.pos <= 2 => Entry1(f).typ # "dir"
             /\ f.blk = 1 /\ f.pos <= 2 => Entry1(f).typ = "dir"
<1> DEFINE f == Top1
           x == <<f.dir, f.blk, f.pos>>
           w == Place(f)
<1>1. DiskTypeOK /\ TreeShape /\ DotsThere /\ HeadsClear
  BY DEF P1Inv, P1TypeOK, P1Sound
<1>2. /\ f \in Frame1 /\ w \in Places(stack1) /\ f.dir \in TreeDirs /\ IsDir(f.dir) /\ CopyOK(f)
      /\ HasBlock(f.dir, f.blk) <=> OnBlock(w)
      /\ AtEntry(w)
  BY Here1OK
<1> HIDE DEF f
<1>3. w.dir = f.dir /\ w.blk = f.blk /\ w.pos = f.pos
  BY <1>2, PlaceIn1
<1>4. x \in EntriesIn(f.dir) /\ x \in TreeEntries
  <2>1. Walked(S, E, Places(stack1))
    BY DEF PathInv
  <2>2. LET y == <<w.dir, w.blk, w.pos>>
        IN  y \in EntriesIn(w.dir) /\ y \in TreeEntries
    <3>1. IsDir(w.dir)
      BY <1>2, <1>3
    <3> HIDE DEF w
    <3>2. QED
      BY <1>1, <1>2, <2>1, <3>1, EntryHere
  <2>3. QED
    BY <1>3, <2>2
<1>5. f.blk \in DOMAIN inodes[f.dir].blks /\ f.buf = data[inodes[f.dir].blks[f.blk]]
  <2>1. OnBlock(w)
    BY <1>2 DEF AtEntry
  <2>2. f.buf = data[BlockId1(f)]
    BY <1>2, <2>1 DEF CopyOK
  <2>3. QED
    BY <1>3, <2>1, <2>2 DEF OnBlock, BlockId1
<1>6. x[1] = f.dir /\ x[2] = f.blk /\ x[3] = f.pos
  OBVIOUS
<1>7. EntryAt(x[1], <<x[2], x[3]>>) = Entry1(f)
  BY <1>5, <1>6 DEF EntryAt, Entry1
<1>8. /\ Named(x) = Entry1(f).ino
      /\ IsName(x) <=> f.blk > 1 \/ f.pos > 2
      /\ NamesDir(x) <=> IsName(x) /\ Entry1(f).typ = "dir"
  BY <1>6, <1>7 DEF Named, IsName, NamesDir
<1>9. f.blk \in Nat \ {0} /\ f.pos \in Nat \ {0} /\ f.buf \in Seq(Entry)
  BY <1>2 DEF Frame1
<1>10. Entry1(f).ino \in Inode
  <2>1. Entry1(f) \in Entry /\ Entry1(f).ino # 0
    BY <1>9, LenProperties, ElementOfSeq DEF Entry1, HasEntry1, f
  <2>2. QED
    BY <2>1, SizesAssumption DEF Entry, Inode
<1>11. f.blk > 1 /\ f.pos <= 2 => Entry1(f).typ # "dir"
  <2>1. SUFFICES ASSUME f.blk > 1, f.pos <= 2 PROVE Entry1(f).typ # "dir"
    OBVIOUS
  <2>2. PICK e \in Entries(f.dir) : x = <<f.dir, e[1], e[2]>>
    BY <1>4 DEF EntriesIn
  <2>3. e[1] = f.blk /\ e[2] = f.pos
    BY <2>2
  <2>4. EntryAt(f.dir, e).typ # "dir"
    BY <1>1, <1>2, <2>1, <2>3 DEF HeadsClear
  <2>5. EntryAt(f.dir, e) = Entry1(f)
    BY <1>5, <2>3 DEF EntryAt, Entry1
  <2>6. QED
    BY <2>4, <2>5
<1>12. f.blk = 1 /\ f.pos <= 2 => Entry1(f).typ = "dir"
  <2>1. SUFFICES ASSUME f.blk = 1, f.pos <= 2 PROVE Entry1(f).typ = "dir"
    OBVIOUS
  <2>2. f.pos \in 1 .. 2
    BY <1>9, <2>1
  <2>3. data[inodes[f.dir].blks[1]][f.pos].typ = "dir"
    BY <1>1, <1>2, <2>2, DotsIn1
  <2>4. QED
    BY <1>5, <2>1, <2>3 DEF Entry1
<1>13. QED
  BY <1>4, <1>5, <1>8, <1>10, <1>11, <1>12 DEF f

-----------------------------------------------------------------------------
(* The steps *)

\* A step that writes nothing keeps the partition one pass 1 can put right.
LEMMA P1SoundSame ==
  ASSUME UNCHANGED <<inodes, data>>, P1Sound
  PROVE  P1Sound'
<1>1. TreeShape'
  BY ShapeSame DEF P1Sound
<1>2. TreeDirs' = TreeDirs
  BY TreeSame
<1>3. \A d : Entries(d)' = Entries(d)
  BY DEF Entries, IsDir, Visible
<1>4. \A d, e : EntryAt(d, e)' = EntryAt(d, e)
  BY DEF EntryAt
<1>5. DotsThere'
  BY <1>2, <1>3, <1>4 DEF P1Sound, DotsThere
<1>6. HeadsClear'
  BY <1>2, <1>3, <1>4 DEF P1Sound, HeadsClear
<1>7. BlocksApart'
  BY <1>2 DEF P1Sound, BlocksApart
<1>8. QED
  BY <1>1, <1>5, <1>6, <1>7 DEF P1Sound

\* A step that does not write leaves what is known of the calls.
LEMMA PathSame ==
  ASSUME UNCHANGED <<inodes, data>>, P1Sound, NEW S, NEW E,
         OnPath(stack1'), Walked(S, E, Places(stack1')), RightIn(S)
  PROVE  P1Sound' /\ PathInv(S, E)'
<1>1. TreeDirs' = TreeDirs
  BY TreeSame
<1>2. \A d : SubDirs(d)' = SubDirs(d)
  BY DEF SubDirs, Names, Entries, EntryAt, IsDir, Visible
<1>3. \A d : (SelfOK(d)' <=> SelfOK(d)) /\ (UpOK(d)' <=> UpOK(d))
  BY <1>1, <1>2 DEF SelfOK, UpOK, Pointer
<1>4. \A f : (CopyOK(f)' <=> CopyOK(f)) /\ (GivenOK(f)' <=> GivenOK(f))
  BY <1>1, <1>2 DEF CopyOK, GivenOK, HasBlock, BlockId1
<1>5. OnPath(stack1)'
  BY <1>4 DEF OnPath, Apart
<1>6. Walked(S, E, Places(stack1))'
  <2> DEFINE F == Places(stack1')
  <2>1. Walked(S, E, F)
    OBVIOUS
  <2>2. F = Places(stack1)'
    BY DEF Places, Place
  <2>3. QED
    BY <2>1, <2>2, WalkedSame
<1>7. RightIn(S)'
  BY <1>1, <1>3 DEF RightIn
<1>8. QED
  BY <1>5, <1>6, <1>7, P1SoundSame DEF PathInv

\* The running call goes on, for the same directory.
LEMMA OnPathResume ==
  ASSUME P1TypeOK, stack1 # <<>>, OnPath(stack1), NEW f \in Frame1,
         f.dir = Top1.dir, f.parent = Top1.parent, CopyOK(f)
  PROVE  OnPath(Resume1(f)) /\ Resume1(f) \in Seq(Frame1)
         /\ Len(Resume1(f)) = Len(stack1) /\ Resume1(f)[Len(stack1)] = f
<1> DEFINE s == Resume1(f)
           n == Len(stack1)
<1>1. n \in Nat \ {0} /\ Top1 = stack1[n]
  BY Top1OK
<1>2. /\ s \in Seq(Frame1) /\ Len(s) = n
      /\ \A i \in 1 .. n : s[i] = IF i = n THEN f ELSE stack1[i]
  BY Resume1OK
<1>3. Apart(s)
  BY PlacesResume DEF OnPath
<1> HIDE DEF s
<1>4. GivenOK(f)
  BY <1>1 DEF OnPath, GivenOK
<1>5. \A i \in 1 .. n : CopyOK(s[i]) /\ GivenOK(s[i])
  BY <1>2, <1>4 DEF OnPath
<1>6. \A i \in 1 .. n : s[i].dir = stack1[i].dir /\ s[i].parent = stack1[i].parent
  BY <1>1, <1>2
<1>7. \A i \in 1 .. n - 1 : i \in 1 .. n /\ i + 1 \in 1 .. n
  BY <1>1
<1>8. \A i \in 1 .. n - 1 : s[i + 1].parent = s[i].dir /\ s[i + 1].dir # ROOT_INODE_NUM
  BY <1>6, <1>7 DEF OnPath
<1>9. n \in 1 .. n
  BY <1>1
<1>10. QED
  BY <1>2, <1>3, <1>5, <1>8, <1>9 DEF OnPath, s

\* A call for a subdirectory that has none.
LEMMA OnPathCall ==
  ASSUME NEW s \in Seq(Frame1), s # <<>>, OnPath(s), NEW c \in Frame1,
         \A h \in Places(s) : h.dir # c.dir,
         CopyOK(c), GivenOK(c), c.parent = s[Len(s)].dir, c.dir # ROOT_INODE_NUM
  PROVE  OnPath(Append(s, c))
<1> DEFINE t == Append(s, c)
           n == Len(s)
<1>1. /\ n \in Nat \ {0} /\ Len(t) = n + 1 /\ t[n + 1] = c
      /\ \A i \in 1 .. n : t[i] = s[i]
  BY AppendProperties, LenProperties, EmptySeq
<1>2. Apart(t)
  BY PlacesCall DEF OnPath
<1> HIDE DEF t
<1>3. \A i \in 1 .. n + 1 : i = n + 1 \/ i \in 1 .. n
  BY <1>1
<1>4. \A i \in 1 .. n + 1 : CopyOK(t[i]) /\ GivenOK(t[i])
  BY <1>1, <1>3 DEF OnPath
<1>5. \A i \in 1 .. n : t[i + 1].parent = t[i].dir /\ t[i + 1].dir # ROOT_INODE_NUM
  <2>1. \A i \in 1 .. n : i = n \/ (i \in 1 .. n - 1 /\ i + 1 \in 1 .. n)
    BY <1>1
  <2>2. \A i \in 1 .. n - 1 : s[i + 1].parent = s[i].dir /\ s[i + 1].dir # ROOT_INODE_NUM
    BY DEF OnPath
  <2>3. QED
    BY <1>1, <2>1, <2>2
<1>6. n + 1 - 1 = n
  BY <1>1
<1>7. QED
  BY <1>1, <1>2, <1>4, <1>5, <1>6 DEF OnPath, t

\* The call that returns is taken off.
LEMMA OnPathReturn ==
  ASSUME NEW s \in Seq(Frame1), s # <<>>, OnPath(s)
  PROVE  OnPath(SubSeq(s, 1, Len(s) - 1))
<1> DEFINE n == Len(s)
           t == SubSeq(s, 1, n - 1)
<1>1. n \in Nat \ {0}
  BY EmptySeq, LenProperties
<1>2. Apart(t) /\ Len(t) = n - 1 /\ \A i \in 1 .. n - 1 : t[i] = s[i]
  BY PlacesReturn DEF OnPath
<1> HIDE DEF t
<1>3. /\ \A i \in 1 .. n - 1 : i \in 1 .. n
      /\ \A i \in 1 .. n - 1 - 1 : i \in 1 .. n - 1 /\ i + 1 \in 1 .. n - 1
  BY <1>1
<1>4. \A i \in 1 .. n - 1 : CopyOK(t[i]) /\ GivenOK(t[i])
  BY <1>2, <1>3 DEF OnPath
<1>5. \A i \in 1 .. n - 1 - 1 : t[i + 1].parent = t[i].dir /\ t[i + 1].dir # ROOT_INODE_NUM
  BY <1>2, <1>3 DEF OnPath
<1>6. QED
  BY <1>2, <1>4, <1>5 DEF OnPath, t

-----------------------------------------------------------------------------
(* The steps that do not write *)

\* One right pointer more.
LEMMA RightMore ==
  ASSUME NEW S, RightIn(S), NEW d, NEW k, NEW p,
         k = 1 /\ p = 1 => SelfOK(d), k = 1 /\ p = 2 => UpOK(d)
  PROVE  RightIn(S \cup {<<d, k, p>>})
<1>1. \A c, q : <<c, 1, q>> = <<d, k, p>> => c = d /\ k = 1 /\ q = p
  OBVIOUS
<1>2. QED
  BY <1>1 DEF RightIn

\* The parent a call was given is the one directory that names its own.
LEMMA ParentRight ==
  ASSUME DiskTypeOK, TreeShape, NEW f, GivenOK(f)
  PROVE  IF f.dir = ROOT_INODE_NUM THEN f.parent = f.dir
         ELSE \A p \in TreeDirs : f.dir \in SubDirs(p) => f.parent = p
<1>1. CASE f.dir = ROOT_INODE_NUM
  BY <1>1 DEF GivenOK
<1>2. CASE f.dir # ROOT_INODE_NUM
  <2>1. f.parent \in TreeDirs /\ f.dir \in SubDirs(f.parent)
    BY <1>2 DEF GivenOK
  <2>2. QED
    BY <1>2, <2>1, OneParent
<1>3. QED
  BY <1>1, <1>2

\* P1PathInv holds before pass 1.
LEMMA PathInit ==
  ASSUME P1Init, P1Sound
  PROVE  P1PathInv
BY DEF P1Init, P1PathInv

\* The call for the root keeps P1PathInv.
LEMMA PathStart ==
  ASSUME P1Inv, P1PathInv, P1Start
  PROVE  P1PathInv'
<1> DEFINE root == Call1(ROOT_INODE_NUM, ROOT_INODE_NUM)
           st == <<root>>
           E == {ROOT_INODE_NUM}
<1>1. DiskTypeOK /\ P1Sound /\ UNCHANGED <<inodes, data>> /\ stack1' = st /\ pc' = "p1_walk"
  BY DEF P1Inv, P1TypeOK, P1PathInv, P1Start, disk
<1>2. /\ root.dir = ROOT_INODE_NUM /\ root.parent = ROOT_INODE_NUM /\ root.blk = 1 /\ root.pos = 1
      /\ root.buf = LoadBlock(ROOT_INODE_NUM, 1)
  BY DEF Call1, AtBlock
<1>3. CopyOK(root) /\ GivenOK(root)
  BY <1>2 DEF CopyOK, GivenOK, LoadBlock, BlockId1
<1> HIDE DEF root
<1>4. Len(st) = 1 /\ st[1] = root
  OBVIOUS
<1>5. OnPath(st)
  BY <1>3, <1>4 DEF OnPath, Apart
<1>6. Places(st) = {Place(root)}
  BY <1>4 DEF Places
<1>7. Walked({}, E, {[dir |-> ROOT_INODE_NUM, blk |-> 1, pos |-> 1]})
  BY <1>1, WalkedStart
<1>8. Walked({}, E, Places(st))
  BY <1>2, <1>6, <1>7 DEF Place
<1>9. RightIn({})
  BY DEF RightIn
<1> HIDE DEF st, E
<1>10. P1Sound' /\ PathInv({}, E)'
  BY <1>1, <1>5, <1>8, <1>9, PathSame
<1>11. QED
  BY <1>1, <1>10 DEF P1PathInv

\* The pointer behind which the running call goes on is right, if it is one.
LEMMA PathSkip ==
  ASSUME P1Inv, P1PathInv, P1Skip
  PROVE  P1PathInv'
<1> DEFINE f == Top1
           g == Past(f)
           x == <<f.dir, f.blk, f.pos>>
           F == Places(stack1)
<1>1. /\ Running1 /\ HasEntry1(f) /\ ~WrongPointer(f) /\ ~Descends(f)
      /\ stack1' = Resume1(g) /\ UNCHANGED <<inodes, data>> /\ pc' = pc
      /\ pc = "p1_walk" /\ stack1 # <<>>
  BY DEF P1Skip, Running1, disk
<1>2. DiskTypeOK /\ P1TypeOK /\ P1Sound /\ TreeShape
  BY DEF P1Inv, P1TypeOK, P1PathInv, P1Sound
<1>3. PICK S, E : PathInv(S, E)
  BY <1>1 DEF P1PathInv
<1>4. OnPath(stack1) /\ Walked(S, E, F) /\ RightIn(S)
  BY <1>3 DEF PathInv
<1>5. /\ f \in Frame1 /\ Place(f) \in F /\ f.dir \in TreeDirs /\ IsDir(f.dir)
      /\ CopyOK(f) /\ GivenOK(f) /\ AtEntry(Place(f))
  BY <1>1, <1>2, <1>3, Here1OK
<1>6. /\ x \in TreeEntries
      /\ f.blk \in DOMAIN inodes[f.dir].blks /\ f.buf = data[inodes[f.dir].blks[f.blk]]
      /\ Named(x) = Entry1(f).ino
      /\ IsName(x) <=> f.blk > 1 \/ f.pos > 2
      /\ NamesDir(x) <=> IsName(x) /\ Entry1(f).typ = "dir"
      /\ f.blk > 1 /\ f.pos <= 2 => Entry1(f).typ # "dir"
      /\ f.blk = 1 /\ f.pos <= 2 => Entry1(f).typ = "dir"
  BY <1>1, <1>2, <1>3, Entry1Here
<1>7. f.blk \in Nat \ {0} /\ f.pos \in Nat \ {0}
  BY <1>5 DEF Frame1
<1>8. ~NamesDir(x)
  <2>1. SUFFICES ASSUME NamesDir(x) PROVE FALSE
    OBVIOUS
  <2>2. Entry1(f).typ = "dir" /\ f.pos > 2
    BY <1>6, <1>7, <2>1
  <2>3. QED
    BY <1>1, <1>7, <2>2 DEF Descends, IsPointer
<1>9. f.blk = 1 /\ f.pos <= 2 => Pointer(f.dir, f.pos) = Expected(f)
  <2>1. SUFFICES ASSUME f.blk = 1, f.pos <= 2 PROVE Pointer(f.dir, f.pos) = Expected(f)
    OBVIOUS
  <2>2. Entry1(f).ino = Expected(f)
    BY <1>1, <1>6, <2>1 DEF WrongPointer, IsPointer
  <2>3. QED
    BY <1>6, <2>1, <2>2 DEF Pointer, Entry1
<1>10. /\ f.blk = 1 /\ f.pos = 1 => SelfOK(f.dir)
       /\ f.blk = 1 /\ f.pos = 2 => UpOK(f.dir)
  <2>1. IF f.dir = ROOT_INODE_NUM THEN f.parent = f.dir
        ELSE \A p \in TreeDirs : f.dir \in SubDirs(p) => f.parent = p
    BY <1>2, <1>5, ParentRight
  <2>2. QED
    BY <1>9, <2>1 DEF Expected, SelfOK, UpOK
<1>11. /\ g \in Frame1 /\ g.dir = f.dir /\ g.parent = f.parent /\ g.blk = f.blk
       /\ g.buf = f.buf /\ g.pos = f.pos + 1
  BY <1>5, PastOK
<1>12. Place(g) = [Place(f) EXCEPT !.pos = @ + 1]
  BY <1>11 DEF Place
<1> HIDE DEF g, x, f
<1>13. RightIn(S \cup {x})
  BY <1>4, <1>10, RightMore DEF x
<1>14. CopyOK(g)
  BY <1>5, <1>11 DEF CopyOK, BlockId1
<1>15. OnPath(stack1')
  BY <1>1, <1>2, <1>4, <1>11, <1>14, OnPathResume DEF f
<1>16. Places(stack1') = (F \ {Place(f)}) \cup {Place(g)}
  BY <1>1, <1>2, <1>4, <1>11, PlacesResume DEF OnPath, f
<1>17. Walked(S \cup {x}, E, (F \ {Place(f)}) \cup {Place(g)})
  <2> DEFINE w == Place(f)
  <2>1. w.dir = f.dir /\ w.blk = f.blk /\ w.pos = f.pos
    BY <1>5, PlaceIn1
  <2>2. x = <<w.dir, w.blk, w.pos>>
    BY <2>1 DEF x
  <2>3. w \in F /\ AtEntry(w) /\ IsDir(w.dir) /\ ~NamesDir(<<w.dir, w.blk, w.pos>>)
    BY <1>5, <1>8, <2>1 DEF x
  <2> HIDE DEF w
  <2>4. Walked(S \cup {<<w.dir, w.blk, w.pos>>}, E, (F \ {w}) \cup {[w EXCEPT !.pos = @ + 1]})
    BY <1>2, <1>4, <2>3, WalkedEntry
  <2>5. QED
    BY <1>12, <2>2, <2>4 DEF w
<1>18. PICK T : T = S \cup {x}
  OBVIOUS
<1>19. P1Sound' /\ PathInv(T, E)'
  <2>1. RightIn(T) /\ Walked(T, E, Places(stack1'))
    BY <1>13, <1>16, <1>17, <1>18
  <2>2. QED
    BY <1>1, <1>2, <1>15, <2>1, PathSame
<1>20. QED
  BY <1>1, <1>19 DEF P1PathInv

\* Reading the next block keeps P1PathInv.
LEMMA PathNextBlock ==
  ASSUME P1Inv, P1PathInv, P1NextBlock
  PROVE  P1PathInv'
<1> DEFINE f == Top1
           g == AtBlock(f.parent, f.dir, f.blk + 1)
           F == Places(stack1)
<1>1. /\ ~HasEntry1(f) /\ HasBlock(f.dir, f.blk)
      /\ stack1' = Resume1(g) /\ UNCHANGED <<inodes, data>> /\ pc' = pc
      /\ pc = "p1_walk" /\ stack1 # <<>>
  BY DEF P1NextBlock, Running1, disk
<1>2. DiskTypeOK /\ P1TypeOK /\ P1Sound
  BY DEF P1Inv, P1TypeOK, P1PathInv
<1>3. PICK S, E : PathInv(S, E)
  BY <1>1 DEF P1PathInv
<1>4. OnPath(stack1) /\ Walked(S, E, F) /\ RightIn(S)
  BY <1>3 DEF PathInv
<1>5. /\ f \in Frame1 /\ Place(f) \in F /\ f.dir \in Inode /\ inodes[f.dir].mode = "dir"
      /\ OnBlock(Place(f)) /\ ~AtEntry(Place(f))
  BY <1>1, <1>3, <1>2, Here1OK DEF IsDir
<1>6. f.blk + 1 \in Nat \ {0} /\ f.parent \in Inode /\ f.pos \in Nat \ {0}
  BY <1>5 DEF Frame1
<1>7. inodes[f.parent].mode # "lnk"
  BY <1>1, <1>2, Top1OK DEF P1Inv, FrameOK
<1>8. /\ g \in Frame1 /\ g.dir = f.dir /\ g.parent = f.parent
      /\ g.blk = f.blk + 1 /\ g.pos = 1 /\ g.buf = LoadBlock(f.dir, f.blk + 1)
  BY <1>2, <1>5, <1>6, <1>7, AtBlockOK DEF AtBlock
<1> HIDE DEF g, f
<1>9. CopyOK(g)
  BY <1>8 DEF CopyOK, BlockId1, LoadBlock
<1>10. OnPath(stack1')
  BY <1>1, <1>2, <1>4, <1>8, <1>9, OnPathResume DEF f
<1>11. Places(stack1') = (F \ {Place(f)}) \cup {Place(g)}
  BY <1>1, <1>2, <1>4, <1>8, PlacesResume DEF OnPath, f
<1>12. Walked(S, E, (F \ {Place(f)}) \cup {Place(g)})
  <2> DEFINE w == Place(f)
  <2>1. w.dir = f.dir /\ w.blk = f.blk /\ w.pos = f.pos
    BY <1>5, PlaceIn1
  <2>2. w \in F /\ OnBlock(w) /\ ~AtEntry(w) /\ w.pos >= 1
    BY <1>5, <1>6, <2>1
  <2>3. Place(g) = [dir |-> w.dir, blk |-> w.blk + 1, pos |-> 1]
    BY <1>8, <2>1 DEF Place
  <2> HIDE DEF w
  <2>4. Walked(S, E, (F \ {w}) \cup {[dir |-> w.dir, blk |-> w.blk + 1, pos |-> 1]})
    BY <1>2, <1>4, <2>2, WalkedTurn
  <2>5. QED
    BY <2>3, <2>4 DEF w
<1>13. Walked(S, E, Places(stack1'))
  BY <1>11, <1>12
<1>14. P1Sound' /\ PathInv(S, E)'
  BY <1>1, <1>2, <1>4, <1>10, <1>13, PathSame
<1>15. QED
  BY <1>1, <1>14 DEF P1PathInv

\* A return keeps P1PathInv.
LEMMA PathReturn ==
  ASSUME P1Inv, P1PathInv, P1Return
  PROVE  P1PathInv'
<1> DEFINE f == Top1
           F == Places(stack1)
<1>1. /\ ~HasBlock(f.dir, f.blk)
      /\ stack1' = SubSeq(stack1, 1, Len(stack1) - 1)
      /\ UNCHANGED <<inodes, data>> /\ pc' = pc /\ pc = "p1_walk" /\ stack1 # <<>>
  BY DEF P1Return, Running1, disk
<1>2. DiskTypeOK /\ P1TypeOK /\ P1Sound /\ stack1 \in Seq(Frame1)
  BY DEF P1Inv, P1TypeOK, P1PathInv
<1>3. PICK S, E : PathInv(S, E)
  BY <1>1 DEF P1PathInv
<1>4. OnPath(stack1) /\ Walked(S, E, F) /\ RightIn(S)
  BY <1>3 DEF PathInv
<1>5. f \in Frame1 /\ f = stack1[Len(stack1)] /\ Place(f) \in F /\ f.dir \in Inode /\ IsDir(f.dir)
  BY <1>1, <1>3, <1>2, Here1OK
<1>6. OnPath(stack1')
  BY <1>1, <1>2, <1>4, OnPathReturn
<1>7. Places(stack1') = F \ {Place(f)}
  BY <1>1, <1>2, <1>4, PlacesReturn DEF OnPath, Top1
<1> HIDE DEF f
<1>8. Walked(S, E, F \ {Place(f)})
  <2> DEFINE w == Place(f)
  <2>1. w \in F /\ IsDir(w.dir) /\ w.blk > Len(inodes[w.dir].blks)
    <3>1. f.blk \in Nat \ {0}
      BY <1>5 DEF Frame1
    <3>2. f.blk > Len(inodes[f.dir].blks)
      BY <1>1, <1>2, <1>5, <3>1, HasBlockOK
    <3>3. QED
      BY <1>5, <3>2, PlaceIn1
  <2> HIDE DEF w
  <2>2. Walked(S, E, F \ {w})
    BY <1>2, <1>4, <2>1, WalkedReturn
  <2>3. QED
    BY <2>2 DEF w
<1>9. Walked(S, E, Places(stack1'))
  BY <1>7, <1>8
<1>10. P1Sound' /\ PathInv(S, E)'
  BY <1>1, <1>2, <1>4, <1>6, <1>9, PathSame
<1>11. QED
  BY <1>1, <1>10 DEF P1PathInv

\* A subdirectory is called for once, with the directory that names it.
LEMMA PathDescend ==
  ASSUME P1Inv, P1PathInv, P1Descend
  PROVE  P1PathInv'
<1> DEFINE f == Top1
           g == Past(f)
           n == Entry1(f).ino
           c == Call1(f.dir, n)
           x == <<f.dir, f.blk, f.pos>>
           F == Places(stack1)
           s == Resume1(g)
<1>1. /\ HasEntry1(f) /\ Descends(f) /\ stack1' = Append(s, c)
      /\ UNCHANGED <<inodes, data>> /\ pc' = pc /\ pc = "p1_walk" /\ stack1 # <<>>
  BY DEF P1Descend, Running1, disk
<1>2. DiskTypeOK /\ P1TypeOK /\ P1Sound /\ TreeShape
  BY DEF P1Inv, P1TypeOK, P1PathInv, P1Sound
<1>3. PICK S, E : PathInv(S, E)
  BY <1>1 DEF P1PathInv
<1>4. OnPath(stack1) /\ Walked(S, E, F) /\ RightIn(S)
  BY <1>3 DEF PathInv
<1>5. /\ f \in Frame1 /\ Place(f) \in F /\ f.dir \in TreeDirs /\ f.dir \in Inode /\ IsDir(f.dir)
      /\ CopyOK(f) /\ AtEntry(Place(f)) /\ Len(stack1) \in Nat \ {0}
  BY <1>1, <1>2, <1>3, Here1OK
<1>6. /\ x \in EntriesIn(f.dir) /\ x \in TreeEntries /\ n \in Inode /\ Named(x) = n
      /\ IsName(x) <=> f.blk > 1 \/ f.pos > 2
      /\ NamesDir(x) <=> IsName(x) /\ Entry1(f).typ = "dir"
  BY <1>1, <1>2, <1>3, Entry1Here
<1>7. f.blk \in Nat \ {0} /\ f.pos \in Nat \ {0}
  BY <1>5 DEF Frame1
<1>8. NamesDir(x) /\ f.pos > 2 /\ IsDir(n)
  <2>1. NamesDir(x) /\ f.pos > 2
    BY <1>1, <1>6, <1>7 DEF Descends, IsPointer
  <2>2. QED
    BY <1>2, <1>6, <2>1 DEF TreeShape
<1>9. n # ROOT_INODE_NUM /\ n \in SubDirs(f.dir)
  <2>1. n # ROOT_INODE_NUM
    BY <1>2, <1>6, <1>8 DEF TreeShape
  <2> HIDE DEF x, n
  <2>2. QED
    BY <1>6, <1>8, <2>1, SubDirsNamed
<1>10. /\ g \in Frame1 /\ g.dir = f.dir /\ g.parent = f.parent /\ g.blk = f.blk
       /\ g.buf = f.buf /\ g.pos = f.pos + 1
  BY <1>5, PastOK
<1>11. /\ c \in Frame1 /\ c.dir = n /\ c.parent = f.dir /\ c.blk = 1 /\ c.pos = 1
       /\ c.buf = LoadBlock(n, 1)
  <2>1. 1 \in Nat \ {0} /\ inodes[f.dir].mode # "lnk" /\ inodes[n].mode # "lnk"
    BY <1>5, <1>8 DEF IsDir
  <2> HIDE DEF n, f
  <2>2. AtBlock(f.dir, n, 1) \in Frame1
    BY <1>2, <1>5, <1>6, <2>1, AtBlockOK
  <2>3. QED
    BY <2>2 DEF Call1, AtBlock
<1>12. Place(g) = [Place(f) EXCEPT !.pos = @ + 1] /\ Place(c) = [dir |-> n, blk |-> 1, pos |-> 1]
  BY <1>10, <1>11 DEF Place
<1> HIDE DEF g, c, n, x, f, s
<1>13. CopyOK(g) /\ CopyOK(c) /\ GivenOK(c)
  BY <1>5, <1>9, <1>10, <1>11 DEF CopyOK, GivenOK, BlockId1, LoadBlock
<1>14. /\ OnPath(s) /\ s \in Seq(Frame1) /\ s[Len(s)].dir = f.dir /\ s # <<>>
  <2>1. /\ OnPath(s) /\ s \in Seq(Frame1) /\ Len(s) = Len(stack1) /\ s[Len(stack1)] = g
    BY <1>1, <1>2, <1>4, <1>10, <1>13, OnPathResume DEF f, s
  <2>2. QED
    BY <1>5, <1>10, <2>1, EmptySeq
<1>15. Places(s) = (F \ {Place(f)}) \cup {Place(g)}
  BY <1>1, <1>2, <1>4, <1>10, PlacesResume DEF OnPath, f, s
<1>16. n \notin E /\ Walked(S \cup {x}, E \cup {n}, (F \ {Place(f)}) \cup {Place(g), Place(c)})
  <2> DEFINE w == Place(f)
  <2>1. w.dir = f.dir /\ w.blk = f.blk /\ w.pos = f.pos
    BY <1>5, PlaceIn1
  <2>2. x = <<w.dir, w.blk, w.pos>>
    BY <2>1 DEF x
  <2>3. w \in F /\ AtEntry(w) /\ IsDir(w.dir) /\ NamesDir(<<w.dir, w.blk, w.pos>>)
    BY <1>5, <1>8, <2>1 DEF x
  <2> HIDE DEF w, F
  <2>4. LET y == <<w.dir, w.blk, w.pos>>
            m == Named(y)
        IN  /\ m \notin E
            /\ Walked(S \cup {y}, E \cup {m},
                      (F \ {w}) \cup {[w EXCEPT !.pos = @ + 1], [dir |-> m, blk |-> 1, pos |-> 1]})
    BY <1>2, <1>4, <2>3, WalkedInto
  <2>5. QED
    BY <1>6, <1>12, <2>2, <2>4 DEF w
<1>17. \A h \in Places(s) : h.dir # c.dir
  <2>1. \A h \in F : h.dir # n
    BY <1>4, <1>16 DEF Walked, WalkedOver
  <2>2. Place(g).dir = g.dir /\ Place(f).dir = f.dir
    BY <1>5, <1>10, PlaceIn1
  <2> HIDE DEF F
  <2>3. QED
    BY <1>5, <1>10, <1>11, <1>15, <2>1, <2>2
<1>18. OnPath(stack1')
  BY <1>1, <1>9, <1>11, <1>13, <1>14, <1>17, OnPathCall
<1>19. Places(stack1') = (F \ {Place(f)}) \cup {Place(g), Place(c)}
  <2>1. Places(stack1') = Places(s) \cup {Place(c)}
    BY <1>1, <1>11, <1>14, <1>17, PlacesCall DEF OnPath
  <2> HIDE DEF F
  <2>2. QED
    BY <1>15, <2>1
<1>20. RightIn(S \cup {x})
  <2>1. f.pos # 1 /\ f.pos # 2
    BY <1>7, <1>8
  <2>2. QED
    BY <1>4, <2>1, RightMore DEF x
<1>21. PICK T, D : T = S \cup {x} /\ D = E \cup {n}
  OBVIOUS
<1>22. P1Sound' /\ PathInv(T, D)'
  <2>1. RightIn(T) /\ Walked(T, D, Places(stack1'))
    BY <1>16, <1>19, <1>20, <1>21
  <2>2. QED
    BY <1>1, <1>2, <1>18, <2>1, PathSame
<1>23. QED
  BY <1>1, <1>22 DEF P1PathInv

\* The walk has been past every pointer of the tree.
LEMMA PathDone ==
  ASSUME P1Inv, P1PathInv, P1Done
  PROVE  P1PathInv'
<1>1. /\ DiskTypeOK /\ P1Sound /\ UNCHANGED <<inodes, data>> /\ pc = "p1_walk"
      /\ stack1 = <<>> /\ stack1' = <<>> /\ pc' = "pass2"
  BY DEF P1Inv, P1TypeOK, P1PathInv, P1Done, disk
<1>2. PICK S, E : PathInv(S, E)
  BY <1>1 DEF P1PathInv
<1>3. Places(stack1) = {}
  BY <1>1, EmptySeq DEF Places
<1>4. S = TreeEntries /\ RightIn(S)
  BY <1>1, <1>2, <1>3, WalkedDone DEF PathInv
<1>5. ASSUME NEW d \in TreeDirs PROVE SelfOK(d) /\ UpOK(d)
  <2>1. ASSUME NEW p \in 1 .. 2 PROVE <<d, 1, p>> \in S
    <3>1. <<d, 1, p>> \in EntriesIn(d)
      BY <1>1, DotsIn1 DEF P1Sound
    <3> DEFINE x == <<d, 1, p>>
    <3>2. x[1] = d /\ x \in EntriesIn(d)
      BY <3>1
    <3> HIDE DEF x
    <3>3. x \in TreeEntries
      BY <3>2, TreeEntriesIs
    <3>4. QED
      BY <1>4, <3>3 DEF x
  <2>2. <<d, 1, 1>> \in S /\ <<d, 1, 2>> \in S
    BY <2>1
  <2>3. QED
    BY <1>4, <2>2 DEF RightIn
<1>6. DirectoryPointersOK
  <2>1. ROOT_INODE_NUM \in TreeDirs
    BY <1>1, TreeClosed DEF Closed
  <2>2. Pointer(ROOT_INODE_NUM, 2) = ROOT_INODE_NUM
    BY <1>5, <2>1 DEF UpOK
  <2>3. ASSUME NEW d \in TreeDirs, NEW c \in SubDirs(d) \ {ROOT_INODE_NUM} PROVE Pointer(c, 2) = d
    <3>1. c \in TreeDirs
      BY <1>1, OneParent DEF P1Sound
    <3>2. UpOK(c)
      BY <1>5, <3>1
    <3>3. QED
      BY <2>3, <3>2 DEF UpOK
  <2>4. QED
    BY <1>5, <2>2, <2>3 DEF DirectoryPointersOK
<1>7. DirectoryPointersOK'
  <2>1. TreeDirs' = TreeDirs
    BY <1>1, TreeSame
  <2>2. \A d : SubDirs(d)' = SubDirs(d)
    BY <1>1 DEF SubDirs, Names, Entries, EntryAt, IsDir, Visible
  <2>3. \A d, p : Pointer(d, p)' = Pointer(d, p)
    BY <1>1 DEF Pointer
  <2>4. QED
    BY <1>6, <2>1, <2>2, <2>3 DEF DirectoryPointersOK, SelfOK
<1>8. QED
  BY <1>1, <1>7, P1SoundSame DEF P1PathInv

-----------------------------------------------------------------------------
(* The step that writes *)

\* The other pointers of the tree stay what they are.
LEMMA RepointedPointers ==
  ASSUME DiskTypeOK, DotsThere, BlocksApart, NEW d \in TreeDirs, NEW p \in 1 .. 2, Repointed(d, p),
         NEW c \in TreeDirs, NEW q \in 1 .. 2, c # d \/ q # p
  PROVE  Pointer(c, q)' = Pointer(c, q)
<1>1. 1 \in DOMAIN inodes[c].blks /\ q \in DOMAIN data[inodes[c].blks[1]]
  BY DotsIn1
<1>2. data'[inodes[c].blks[1]][q] = data[inodes[c].blks[1]][q]
  <2> DEFINE k == 1
  <2>1. k \in DOMAIN inodes[c].blks /\ q \in DOMAIN data[inodes[c].blks[k]] /\ (c # d \/ k # 1 \/ q # p)
    BY <1>1
  <2> HIDE DEF k
  <2>2. data'[inodes[c].blks[k]][q] = data[inodes[c].blks[k]][q]
    BY <2>1, RepointedBlocks
  <2>3. QED
    BY <2>2 DEF k
<1>3. UNCHANGED inodes
  BY DEF Repointed
<1>4. QED
  BY <1>2, <1>3 DEF Pointer

\* What it is for a ".." to be right stays.
LEMMA RepointedUp ==
  ASSUME DiskTypeOK, DiskTypeOK', P1Sound, NEW d \in TreeDirs, NEW p \in 1 .. 2, Repointed(d, p),
         NEW c
  PROVE  UpOK(c)' <=> IF c = ROOT_INODE_NUM THEN Pointer(c, 2)' = c
                      ELSE \A a \in TreeDirs : c \in SubDirs(a) => Pointer(c, 2)' = a
<1>1. TreeDirs' = TreeDirs
  BY RepointedTree
<1>2. \A a \in TreeDirs : SubDirs(a)' = SubDirs(a)
  BY RepointedNames DEF P1Sound
<1>3. QED
  BY <1>1, <1>2 DEF UpOK

\* A correction: of which entry, and what it comes to name.
LEMMA CorrectHere ==
  ASSUME P1Inv, P1PathInv, P1Correct
  PROVE  LET f == Top1
         IN  /\ stack1 # <<>> /\ pc = "p1_walk" /\ HasEntry1(f)
             /\ f \in Frame1 /\ f.dir \in TreeDirs /\ f.blk = 1 /\ f.pos \in 1 .. 2
             /\ GivenOK(f)
             /\ Repointed(f.dir, f.pos)
             /\ BlockId1(f) = inodes[f.dir].blks[1]
             /\ data'[BlockId1(f)] = PointTo(f.buf, f.pos, Expected(f))
             /\ data'[BlockId1(f)][f.pos].ino = Expected(f)
<1> DEFINE f == Top1
           b == BlockId1(f)
           fixed == PointTo(f.buf, f.pos, Expected(f))
<1>1. /\ HasEntry1(f) /\ WrongPointer(f) /\ pc = "p1_walk" /\ stack1 # <<>> /\ UNCHANGED inodes
  BY DEF P1Correct, Running1
<1>2. DiskTypeOK /\ P1Sound
  BY DEF P1Inv, P1TypeOK, P1PathInv
<1>3. PICK S, E : PathInv(S, E)
  BY <1>1 DEF P1PathInv
<1>4. f \in Frame1 /\ f.dir \in TreeDirs /\ GivenOK(f)
  BY <1>1, <1>2, <1>3, Here1OK
<1>5. f.blk > 1 /\ f.pos <= 2 => Entry1(f).typ # "dir"
  BY <1>1, <1>2, <1>3, Entry1Here
<1>6. /\ f.pos \in 1 .. 2 /\ f.pos <= Len(f.buf) /\ Expected(f) \in Inode /\ b \in Block
      /\ data[b] = f.buf /\ data' = [data EXCEPT ![b] = fixed]
  BY CorrectFacts
<1>7. f.blk = 1
  <2>1. f.blk \in Nat \ {0}
    BY <1>4 DEF Frame1
  <2>2. QED
    BY <1>1, <1>5, <1>6, <2>1 DEF WrongPointer
<1>8. b = inodes[f.dir].blks[1]
  BY <1>7 DEF BlockId1
<1>9. data'[b] = fixed
  <2>1. data \in [Block -> Seq(Entry)]
    BY <1>2, DiskParts
  <2> HIDE DEF fixed, b
  <2>2. QED
    BY <1>6, <2>1
<1>10. Repointed(f.dir, f.pos)
  <2>1. fixed = PointTo(data[b], f.pos, Expected(f))
    BY <1>6
  <2> HIDE DEF fixed, b, f
  <2>2. QED
    BY <1>1, <1>6, <1>8, <2>1 DEF Repointed
<1>11. fixed[f.pos].ino = Expected(f)
  <2>1. f.buf \in Seq(Entry) /\ f.pos \in 1 .. Len(f.buf)
    BY <1>4, <1>6, LenProperties DEF Frame1
  <2>2. QED
    BY <1>6, <2>1, PointToOK
<1>12. QED
  BY <1>1, <1>4, <1>6, <1>7, <1>8, <1>9, <1>10, <1>11 DEF f

\* The pointer corrected becomes right, and a right one stays so.
LEMMA PathCorrected ==
  ASSUME P1Inv, P1PathInv, P1Correct, NEW d, NEW p, d = Top1.dir, p = Top1.pos
  PROVE  /\ d \in TreeDirs /\ p \in 1 .. 2 /\ Repointed(d, p) /\ DiskTypeOK'
         /\ (p = 1 => SelfOK(d)') /\ (p = 2 => UpOK(d)')
         /\ \A c \in TreeDirs : /\ c # d \/ p # 1 => (SelfOK(c) => SelfOK(c)')
                                /\ c # d \/ p # 2 => (UpOK(c) => UpOK(c)')
<1> DEFINE f == Top1
<1>1. /\ DiskTypeOK /\ P1Sound /\ TreeShape /\ DotsThere /\ BlocksApart
  BY DEF P1Inv, P1TypeOK, P1PathInv, P1Sound
<1>2. /\ f.dir \in TreeDirs /\ f.pos \in 1 .. 2 /\ GivenOK(f) /\ Repointed(f.dir, f.pos)
      /\ BlockId1(f) = inodes[f.dir].blks[1]
      /\ data'[BlockId1(f)][f.pos].ino = Expected(f)
  BY CorrectHere
<1>3. DiskTypeOK' /\ UNCHANGED inodes
  BY CorrectStep DEF P1Inv, P1TypeOK, P1Correct
<1>4. d \in TreeDirs /\ p \in 1 .. 2 /\ Repointed(d, p)
  BY <1>2
<1>5. Pointer(d, p)' = Expected(f)
  <2>1. data'[inodes[d].blks[1]][p].ino = Expected(f)
    BY <1>2
  <2>2. QED
    BY <1>3, <2>1 DEF Pointer
<1>6. IF f.dir = ROOT_INODE_NUM THEN f.parent = f.dir
      ELSE \A a \in TreeDirs : f.dir \in SubDirs(a) => f.parent = a
  BY <1>1, <1>2, ParentRight
<1>7. p = 1 => SelfOK(d)'
  BY <1>5 DEF Expected, SelfOK
<1>8. \A c : UpOK(c)' <=> IF c = ROOT_INODE_NUM THEN Pointer(c, 2)' = c
                          ELSE \A a \in TreeDirs : c \in SubDirs(a) => Pointer(c, 2)' = a
  BY <1>1, <1>3, <1>4, RepointedUp
<1>9. p = 2 => UpOK(d)'
  BY <1>5, <1>6, <1>8 DEF Expected
<1> HIDE DEF f
<1>10. ASSUME NEW c \in TreeDirs, NEW q \in 1 .. 2, c # d \/ p # q
       PROVE  Pointer(c, q)' = Pointer(c, q)
  BY <1>1, <1>4, <1>10, RepointedPointers
<1>11. ASSUME NEW c \in TreeDirs, c # d \/ p # 1, SelfOK(c) PROVE SelfOK(c)'
  BY <1>10, <1>11 DEF SelfOK
<1>12. ASSUME NEW c \in TreeDirs, c # d \/ p # 2, UpOK(c) PROVE UpOK(c)'
  <2>1. Pointer(c, 2)' = Pointer(c, 2)
    BY <1>10, <1>12
  <2>2. QED
    BY <1>8, <1>12, <2>1 DEF UpOK
<1>13. QED
  BY <1>3, <1>4, <1>7, <1>9, <1>11, <1>12

\* A correction keeps P1PathInv: the pointer passed is right now, and no other changes.
LEMMA PathCorrect ==
  ASSUME P1Inv, P1PathInv, P1Correct
  PROVE  P1PathInv'
<1> DEFINE f == Top1
           fixed == PointTo(f.buf, f.pos, Expected(f))
           h == [f EXCEPT !.buf = fixed]
           g == Past(h)
           x == <<f.dir, f.blk, f.pos>>
           F == Places(stack1)
           n == Len(stack1)
<1>1. /\ stack1' = Resume1(g) /\ UNCHANGED inodes /\ pc' = pc
      /\ pc = "p1_walk" /\ stack1 # <<>> /\ HasEntry1(f)
  BY DEF P1Correct, Running1
<1>2. DiskTypeOK /\ P1TypeOK /\ P1Sound /\ BlocksApart
  BY DEF P1Inv, P1TypeOK, P1PathInv, P1Sound
<1>3. PICK S, E : PathInv(S, E)
  BY <1>1 DEF P1PathInv
<1>4. OnPath(stack1) /\ Apart(stack1) /\ Walked(S, E, F) /\ RightIn(S)
  BY <1>3 DEF PathInv, OnPath
<1>5. /\ f \in Frame1 /\ f = stack1[n] /\ n \in Nat \ {0} /\ Place(f) \in F /\ IsDir(f.dir)
      /\ AtEntry(Place(f))
  BY <1>1, <1>2, <1>3, Here1OK
<1>6. f.blk = 1 /\ f.pos \in 1 .. 2 /\ BlockId1(f) = inodes[f.dir].blks[1] /\ BlockId1(f) \in Block
      /\ data'[BlockId1(f)] = fixed /\ fixed \in Seq(Entry)
      /\ \A b \in Block : b # BlockId1(f) => data'[b] = data[b]
  <2>1. /\ BlockId1(f) \in Block /\ fixed \in Seq(Entry)
        /\ data' = [data EXCEPT ![BlockId1(f)] = fixed]
    BY CorrectFacts
  <2>2. data \in [Block -> Seq(Entry)]
    BY <1>2, DiskParts
  <2>3. \A b \in Block : b # BlockId1(f) => data'[b] = data[b]
    <3> HIDE DEF fixed, f
    <3>1. QED
      BY <2>1, <2>2
  <2>4. QED
    BY <2>1, <2>3, CorrectHere
<1>7. PICK d, p : d = f.dir /\ p = f.pos
  OBVIOUS
<1>8. /\ d \in TreeDirs /\ p \in 1 .. 2 /\ Repointed(d, p) /\ DiskTypeOK'
      /\ (p = 1 => SelfOK(d)') /\ (p = 2 => UpOK(d)')
      /\ \A c \in TreeDirs : /\ c # d \/ p # 1 => (SelfOK(c) => SelfOK(c)')
                             /\ c # d \/ p # 2 => (UpOK(c) => UpOK(c)')
  BY <1>7, PathCorrected
<1>9. TreeDirs' = TreeDirs /\ P1Sound'
  BY <1>2, <1>8, RepointedTree
<1>10. \A a \in TreeDirs : SubDirs(a)' = SubDirs(a)
  BY <1>2, <1>8, RepointedNames DEF P1Sound
<1>11. /\ g \in Frame1 /\ g.dir = f.dir /\ g.parent = f.parent /\ g.blk = f.blk
       /\ g.buf = fixed /\ g.pos = f.pos + 1
  <2> HIDE DEF fixed, f
  <2>1. /\ h \in Frame1 /\ h.dir = f.dir /\ h.parent = f.parent /\ h.blk = f.blk
        /\ h.buf = fixed /\ h.pos = f.pos
    BY <1>5, <1>6, NewBufOK
  <2> HIDE DEF h
  <2>2. QED
    BY <2>1, PastOK
<1>12. Place(g) = [Place(f) EXCEPT !.pos = @ + 1]
  BY <1>11 DEF Place
<1> HIDE DEF fixed, h, g, x, f
<1>13. /\ Len(stack1') = n
       /\ \A i \in 1 .. n : stack1'[i] = IF i = n THEN g ELSE stack1[i]
  BY <1>1, <1>2, <1>11, Resume1OK
<1>14. Apart(stack1') /\ Places(stack1') = (F \ {Place(f)}) \cup {Place(g)}
  BY <1>1, <1>2, <1>4, <1>11, PlacesResume DEF f
<1>15. ASSUME NEW c \in Frame1, GivenOK(c) PROVE GivenOK(c)'
  BY <1>9, <1>10, <1>15 DEF GivenOK
<1>16. ASSUME NEW c \in Frame1, CopyOK(c), c.dir \in TreeDirs, c.dir # f.dir PROVE CopyOK(c)'
  <2>1. SUFFICES ASSUME HasBlock(c.dir, c.blk) PROVE c.buf = data'[BlockId1(c)]
    BY <1>1 DEF CopyOK, HasBlock, BlockId1
  <2>2. c.blk \in DOMAIN inodes[c.dir].blks /\ BlockId1(c) \in Block
    <3>1. c.dir \in Inode /\ IsDir(c.dir) /\ c.blk \in Nat \ {0}
      BY <1>2, <1>16, TreeBlock DEF Frame1
    <3>2. c.blk \in DOMAIN inodes[c.dir].blks
      BY <1>2, <2>1, <3>1, HasBlockOK
    <3>3. QED
      BY <1>2, <1>16, <3>2, TreeBlock DEF BlockId1
  <2>3. 1 \in DOMAIN inodes[d].blks
    BY <1>2, <1>8, DotsIn1 DEF P1Sound
  <2>4. BlockId1(c) # BlockId1(f)
    BY <1>2, <1>6, <1>7, <1>8, <1>16, <2>2, <2>3 DEF BlocksApart, BlockId1
  <2>5. QED
    BY <1>6, <1>16, <2>1, <2>2, <2>4 DEF CopyOK
<1>17. ASSUME NEW i \in 1 .. n, NEW c, c = stack1'[i] PROVE CopyOK(c)' /\ GivenOK(c)'
  <2>1. CASE i = n
    <3>1. c = g
      BY <1>13, <1>17, <2>1
    <3>2. CopyOK(c)'
      <4>1. c.buf = data'[inodes[c.dir].blks[c.blk]]
        BY <1>6, <1>11, <3>1 DEF BlockId1
      <4>2. QED
        BY <1>1, <4>1 DEF CopyOK, BlockId1
    <3>3. GivenOK(c)
      BY <1>4, <1>5, <1>11, <3>1 DEF GivenOK, OnPath
    <3>4. QED
      BY <1>11, <1>15, <3>1, <3>2, <3>3
  <2>2. CASE i # n
    <3>1. c = stack1[i] /\ CopyOK(c) /\ GivenOK(c) /\ c.dir # f.dir
      BY <1>4, <1>5, <1>13, <1>17, <2>2 DEF OnPath, Apart
    <3>2. c \in Frame1
      BY <1>2, <3>1, ElementOfSeq DEF P1TypeOK
    <3>3. c.dir \in TreeDirs
      <4>1. Place(c) \in F
        BY <3>1 DEF Places
      <4>2. QED
        BY <1>4, <3>2, <4>1, PlaceIn1, TreeOver DEF Walked, WalkedOver
    <3>4. QED
      BY <1>15, <1>16, <3>1, <3>2, <3>3
  <2>3. QED
    BY <2>1, <2>2
<1>18. OnPath(stack1)'
  <2>1. \A i \in 1 .. n : stack1'[i].dir = stack1[i].dir /\ stack1'[i].parent = stack1[i].parent
    BY <1>5, <1>11, <1>13
  <2>2. \A i \in 1 .. n - 1 : i \in 1 .. n /\ i + 1 \in 1 .. n
    BY <1>5
  <2>3. \A i \in 1 .. n - 1 :
          stack1'[i + 1].parent = stack1'[i].dir /\ stack1'[i + 1].dir # ROOT_INODE_NUM
    BY <1>4, <2>1, <2>2 DEF OnPath
  <2>4. Apart(stack1)'
    BY <1>14 DEF Apart
  <2>5. (\A i \in 1 .. Len(stack1) : CopyOK(stack1[i]) /\ GivenOK(stack1[i]))'
    BY <1>13, <1>17
  <2>6. QED
    BY <1>13, <2>3, <2>4, <2>5 DEF OnPath
<1>19. PICK T, G : T = S \cup {x} /\ G = Places(stack1')
  OBVIOUS
<1>20. Walked(T, E, G)
  <2> DEFINE w == Place(f)
  <2>1. w.dir = f.dir /\ w.blk = f.blk /\ w.pos = f.pos
    BY <1>5, PlaceIn1
  <2>2. x = <<w.dir, w.blk, w.pos>>
    BY <2>1 DEF x
  <2>3. x[2] = 1 /\ x[3] \in 1 .. 2
    BY <1>6 DEF x
  <2>4. ~NamesDir(x)
    BY <2>3 DEF NamesDir, IsName
  <2>5. w \in F /\ AtEntry(w) /\ IsDir(w.dir) /\ ~NamesDir(<<w.dir, w.blk, w.pos>>)
    BY <1>5, <2>1, <2>2, <2>4
  <2> HIDE DEF w, F
  <2>6. Walked(S \cup {<<w.dir, w.blk, w.pos>>}, E, (F \ {w}) \cup {[w EXCEPT !.pos = @ + 1]})
    BY <1>2, <1>4, <2>5, WalkedEntry
  <2>7. QED
    BY <1>12, <1>14, <1>19, <2>2, <2>6 DEF w
<1>21. Walked(T, E, Places(stack1))'
  <2>1. Walked(T, E, G)'
    BY <1>2, <1>8, <1>20, RepointedWalked
  <2>2. G = Places(stack1)'
    BY <1>19 DEF Places, Place
  <2>3. QED
    BY <2>1, <2>2
<1>22. RightIn(T)'
  <2>1. ASSUME NEW c \in TreeDirs
        PROVE  (<<c, 1, 1>> \in T => SelfOK(c)') /\ (<<c, 1, 2>> \in T => UpOK(c)')
    <3>1. x = <<d, 1, p>>
      BY <1>6, <1>7 DEF x
    <3>2. /\ <<c, 1, 1>> \in T => <<c, 1, 1>> \in S \/ (c = d /\ p = 1)
          /\ <<c, 1, 2>> \in T => <<c, 1, 2>> \in S \/ (c = d /\ p = 2)
      BY <1>19, <3>1
    <3>3. QED
      BY <1>4, <1>8, <3>2 DEF RightIn
  <2>2. QED
    BY <1>9, <2>1 DEF RightIn
<1>23. PathInv(T, E)'
  BY <1>18, <1>21, <1>22 DEF PathInv
<1>24. QED
  BY <1>1, <1>9, <1>23 DEF P1PathInv

-----------------------------------------------------------------------------
(* The theorems about the walk *)

\* Every step keeps P1PathInv.
LEMMA PathStep == P1Inv /\ P1PathInv /\ [P1Next]_p1vars => P1PathInv'
<1> SUFFICES ASSUME P1Inv, P1PathInv, [P1Next]_p1vars PROVE P1PathInv'
  OBVIOUS
<1>1. CASE P1Start
  BY <1>1, PathStart
<1>2. CASE P1Correct
  BY <1>2, PathCorrect
<1>3. CASE P1Descend
  BY <1>3, PathDescend
<1>4. CASE P1Skip
  BY <1>4, PathSkip
<1>5. CASE P1NextBlock
  BY <1>5, PathNextBlock
<1>6. CASE P1Return
  BY <1>6, PathReturn
<1>7. CASE P1Done
  BY <1>7, PathDone
<1>8. CASE UNCHANGED p1vars
  <2>1. UNCHANGED <<inodes, data>> /\ stack1' = stack1 /\ pc' = pc /\ P1Sound
    BY <1>8 DEF p1vars, disk, P1PathInv
  <2>2. P1Sound'
    BY <2>1, P1SoundSame
  <2>3. ASSUME NEW S, NEW E, PathInv(S, E) PROVE PathInv(S, E)'
    <3>1. OnPath(stack1') /\ Walked(S, E, Places(stack1')) /\ RightIn(S)
      BY <2>1, <2>3 DEF PathInv
    <3>2. QED
      BY <2>1, <3>1, PathSame
  <2>4. DirectoryPointersOK => DirectoryPointersOK'
    <3>1. TreeDirs' = TreeDirs
      BY <2>1, TreeSame
    <3>2. \A d : SubDirs(d)' = SubDirs(d)
      BY <2>1 DEF SubDirs, Names, Entries, EntryAt, IsDir, Visible
    <3>3. \A d, p : Pointer(d, p)' = Pointer(d, p)
      BY <2>1 DEF Pointer
    <3>4. QED
      BY <3>1, <3>2, <3>3 DEF DirectoryPointersOK, SelfOK
  <2>5. QED
    BY <2>1, <2>2, <2>3, <2>4 DEF P1PathInv
<1>9. QED
  BY <1>1, <1>2, <1>3, <1>4, <1>5, <1>6, <1>7, <1>8 DEF P1Next

\* The walk of a tree pass 1 can put right.
LEMMA PathInvariant == P1Spec /\ P1Sound => []P1PathInv
<1>1. P1Init /\ P1Sound => P1PathInv
  BY PathInit
<1>2. P1Inv /\ P1PathInv /\ [P1Next]_p1vars => P1PathInv'
  BY PathStep
<1>3. QED
  BY <1>1, <1>2, Pass1Invariant, PTL DEF P1Spec

\* The active calls are a path of the tree on the disk, each was given the
\* directory that names its own, and no directory is walked inside its own walk;
\* on such a tree pass1 is called for directories only.
THEOREM Pass1Path == P1Spec /\ P1Sound => []P1Path /\ []P1DirsOnly
<1>1. P1Inv /\ P1PathInv => P1Path /\ P1DirsOnly
  <2> SUFFICES ASSUME P1Inv, P1PathInv PROVE P1Path /\ P1DirsOnly
    OBVIOUS
  <2>1. OnPath(stack1) /\ \A i \in 1 .. Len(stack1) : IsDir(stack1[i].dir)
    <3>1. CASE pc = "p1_walk"
      <4>1. PICK S, E : PathInv(S, E)
        BY <3>1 DEF P1PathInv
      <4>2. ASSUME NEW i \in 1 .. Len(stack1) PROVE IsDir(stack1[i].dir)
        <5>1. stack1[i] \in Frame1
          BY ElementOfSeq DEF P1Inv, P1TypeOK
        <5>2. Place(stack1[i]) \in Places(stack1) /\ Place(stack1[i]).dir = stack1[i].dir
          BY <5>1, PlaceIn1 DEF Places
        <5>3. stack1[i].dir \in TreeDirs
          BY <4>1, <5>2 DEF PathInv, Walked, WalkedOver
        <5>4. QED
          BY <5>3, TreeBlock DEF P1Inv, P1TypeOK
      <4>3. QED
        BY <4>1, <4>2 DEF PathInv
    <3>2. CASE pc # "p1_walk"
      <4>1. Len(stack1) = 0
        BY <3>2, EmptySeq DEF P1PathInv
      <4>2. QED
        BY <4>1 DEF OnPath, Apart
    <3>3. QED
      BY <3>1, <3>2
  <2>2. Len(stack1) \in Nat
    BY LenProperties DEF P1Inv, P1TypeOK
  <2>3. ASSUME NEW i \in 1 .. Len(stack1) - 1
        PROVE  /\ stack1[i + 1].parent = stack1[i].dir
               /\ stack1[i + 1].dir \in SubDirs(stack1[i].dir)
    <3>1. stack1[i + 1].parent = stack1[i].dir /\ stack1[i + 1].dir # ROOT_INODE_NUM
      BY <2>1 DEF OnPath
    <3>2. GivenOK(stack1[i + 1])
      BY <2>1, <2>2 DEF OnPath
    <3>3. QED
      BY <3>1, <3>2 DEF GivenOK
  <2>4. QED
    BY <2>1, <2>3 DEF OnPath, Apart, P1Path, P1DirsOnly
<1>2. QED
  BY <1>1, Pass1Invariant, PathInvariant, PTL

\* When pass1 ends, every directory of the tree has a right "." and "..".
THEOREM Pass1Result == P1Spec /\ P1Sound => []P1Result
<1>1. P1PathInv => P1Result
  BY DEF P1PathInv, P1Result
<1>2. QED
  BY <1>1, PathInvariant, PTL

\* A write of pass1_corrector puts one pointer right, and a pointer that is right
\* stays right.
THEOREM Pass1NoRegress == P1Spec /\ P1Sound => P1NoRegress
<1> DEFINE Regressless ==
             data' # data =>
               \A d \in TreeDirs : (SelfOK(d) => SelfOK(d)') /\ (UpOK(d) => UpOK(d)')
<1>1. P1Inv /\ P1PathInv /\ [P1Next]_p1vars => [Regressless]_p1vars
  <2> SUFFICES ASSUME P1Inv, P1PathInv, [P1Next]_p1vars, data' # data PROVE Regressless
    OBVIOUS
  <2>1. P1Correct
    BY DEF P1Next, P1Start, P1Descend, P1Skip, P1NextBlock, P1Return, P1Done, p1vars, disk
  <2>2. PICK d, p : d = Top1.dir /\ p = Top1.pos
    OBVIOUS
  <2>3. /\ (p = 1 => SelfOK(d)') /\ (p = 2 => UpOK(d)')
        /\ \A c \in TreeDirs : /\ c # d \/ p # 1 => (SelfOK(c) => SelfOK(c)')
                               /\ c # d \/ p # 2 => (UpOK(c) => UpOK(c)')
    BY <2>1, <2>2, PathCorrected
  <2>4. QED
    BY <2>3
<1>2. QED
  BY <1>1, Pass1Invariant, PathInvariant, PTL DEF P1Spec, P1NoRegress

\* Only pointers come to name another inode: the names of the tree stay.
THEOREM Pass1NamesKept == P1Spec /\ P1Sound => P1NamesKept
<1> DEFINE Kept ==
             data' # data =>
               \A d \in TreeDirs : \A e \in Names(d) : EntryAt(d, e).ino = EntryAt(d, e)'.ino
<1>1. P1Inv /\ P1PathInv /\ [P1Next]_p1vars => [Kept]_p1vars
  <2> SUFFICES ASSUME P1Inv, P1PathInv, [P1Next]_p1vars, data' # data PROVE Kept
    OBVIOUS
  <2>1. P1Correct
    BY DEF P1Next, P1Start, P1Descend, P1Skip, P1NextBlock, P1Return, P1Done, p1vars, disk
  <2>2. PICK d, p : d = Top1.dir /\ p = Top1.pos
    OBVIOUS
  <2>3. d \in TreeDirs /\ p \in 1 .. 2 /\ Repointed(d, p) /\ DiskTypeOK /\ DotsThere /\ BlocksApart
    BY <2>1, <2>2, PathCorrected DEF P1Inv, P1TypeOK, P1PathInv, P1Sound
  <2>4. ASSUME NEW c \in TreeDirs, NEW e \in Names(c) PROVE EntryAt(c, e).ino = EntryAt(c, e)'.ino
    <3> DEFINE x == <<c, e[1], e[2]>>
    <3>1. x[2] = e[1] /\ x[3] = e[2] /\ (x[2] # 1 \/ x[3] # p) /\ x \in EntriesIn(c)
      BY <2>3 DEF Names, EntriesIn
    <3> HIDE DEF x
    <3>2. EntryAt(c, <<x[2], x[3]>>)' = EntryAt(c, <<x[2], x[3]>>)
      BY <2>3, <3>1, RepointedNames
    <3>3. /\ EntryAt(c, <<x[2], x[3]>>) = EntryAt(c, e)
          /\ EntryAt(c, <<x[2], x[3]>>)' = EntryAt(c, e)'
      BY <3>1 DEF EntryAt
    <3>4. QED
      BY <3>2, <3>3
  <2>5. QED
    BY <2>4
<1>2. QED
  BY <1>1, Pass1Invariant, PathInvariant, PTL DEF P1Spec, P1NamesKept

=============================================================================
