---------------------------- MODULE Pass2Proofs ----------------------------
(***************************************************************************)
(* Theorems about pass 2, for every partition and all sizes: what          *)
(* add_to_lost_found writes keeps the partition one that may be walked.    *)
(*                                                                         *)
(* The two writes are two steps, and the second stores the number that     *)
(* search_dir_entry found before the first: P2Inv says what is known of it *)
(* and of the inode in hand between the two.  That pass 2 only adds to the *)
(* tree needs one condition on the partition, FirstsApart.                 *)
(*                                                                         *)
(* What pass 2 finds is said by ScanPart, on partitions that are P2Sound:  *)
(* how the walks so far, the counts, the inodes behind the scan and the    *)
(* ".." of the directories belong together.  It goes over a write by what  *)
(* both writes have in common, Wrote.  Its parameter says which of two     *)
(* ways it is read: of a run on which there was room for everything that   *)
(* was attached, or of any run, by the room there is now.                  *)
(***************************************************************************)
EXTENDS Pass2, TreeProofs

P2Inv ==
  /\ DiskTypeOK
  /\ WalkOK
  /\ pc \in {"pass2", "p2_walk", "p2_scan", "p2_sub", "p2_dotdot", "pass3", "exit"}
  /\ i2 \in 1 .. NInodes + 1
  /\ lf \in 0 .. NInodes
  /\ pc \in {"p2_sub", "p2_dotdot"} => i2 \in Inode
  /\ pc = "p2_dotdot" => lf \in Inode /\ inodes[lf].mode # "lnk"

-----------------------------------------------------------------------------
(* Sets of positions *)

\* A scan sees no more entries than there are.
LEMMA VisibleOK ==
  ASSUME NEW block \in Seq(Entry)
  PROVE  /\ Visible(block) \subseteq 1 .. Len(block)
         /\ Cardinality(Visible(block)) \in 0 .. Len(block)
<1>1. Len(block) \in Nat /\ DOMAIN block = 1 .. Len(block)
  BY LenProperties
<1>2. Visible(block) \subseteq 1 .. Len(block)
  BY <1>1 DEF Visible
<1>3. IsFiniteSet(1 .. Len(block)) /\ Cardinality(1 .. Len(block)) = Len(block)
  BY <1>1, FS_Interval, SMTT(20)
<1>4. IsFiniteSet(Visible(block)) /\ Cardinality(Visible(block)) <= Len(block)
  BY <1>2, <1>3, FS_Subset
<1>5. Cardinality(Visible(block)) \in Nat
  BY <1>4, FS_CardinalityType
<1>6. QED
  BY <1>1, <1>2, <1>4, <1>5

-----------------------------------------------------------------------------
(* What pass 2 finds and writes *)

\* Entries, none of which leads a walk into a link.
Walkable(block) ==
  block \in Seq(Entry) /\ \A p \in DOMAIN block : NoLink(block[p], inodes)

\* Blocks of what is no link are blocks of the partition.
LEMMA BlockOK ==
  ASSUME DiskTypeOK, NEW n \in Inode, inodes[n].mode # "lnk", NEW k \in DOMAIN inodes[n].blks
  PROVE  inodes[n].blks[k] \in Block
<1>1. inodes[n].blks \in Seq(Block)
  BY DEF DiskTypeOK, IsImage
<1>2. QED
  BY <1>1, LenProperties, ElementOfSeq

\* A walk may read every block.
LEMMA DataOK ==
  ASSUME DiskTypeOK, NEW b \in Block
  PROVE  Walkable(data[b])
BY DEF DiskTypeOK, IsImage, Walkable

\* lost+found, if it is found, is an inode and no link.
LEMMA LostFoundOK ==
  ASSUME DiskTypeOK
  PROVE  /\ LostFound \in 0 .. NInodes
         /\ LostFound # 0 => LostFound \in Inode /\ inodes[LostFound].mode # "lnk"
<1> DEFINE b == inodes[ROOT_INODE_NUM].blks[1]
           block == data[b]
           hits == {p \in Visible(block) : block[p].nm = "lost+found"}
<1>1. b \in Block
  <2>1. /\ ROOT_INODE_NUM \in Inode /\ inodes[ROOT_INODE_NUM].mode # "lnk"
        /\ inodes[ROOT_INODE_NUM].blks \in Seq(Block) /\ inodes[ROOT_INODE_NUM].blks # <<>>
    BY SizesAssumption DEF DiskTypeOK, IsImage, Inode, ROOT_INODE_NUM
  <2>2. 1 \in DOMAIN inodes[ROOT_INODE_NUM].blks
    BY <2>1, LenProperties, EmptySeq
  <2>3. QED
    BY <2>1, <2>2, BlockOK
<1>2. Walkable(block)
  BY <1>1, DataOK
<1>3. LostFound = IF hits = {} THEN 0
                  ELSE block[CHOOSE p \in hits : \A q \in hits : p <= q].ino
  BY DEF LostFound, search_dir_entry
<1> HIDE DEF block
<1>4. hits \subseteq 1 .. Len(block) /\ Len(block) \in Nat /\ DOMAIN block = 1 .. Len(block)
  BY <1>2, VisibleOK, LenProperties DEF Walkable
<1>5. CASE hits = {}
  BY <1>3, <1>5, SizesAssumption
<1>6. CASE hits # {}
  <2> DEFINE p == CHOOSE p \in hits : \A q \in hits : p <= q
  <2>1. hits \subseteq Nat
    BY <1>4
  <2>2. p \in hits
    BY <2>1, <1>6, FirstOf
  <2>3. LostFound = block[p].ino
    BY <1>3, <1>6
  <2> HIDE DEF p
  <2>4. p \in DOMAIN block /\ block[p].nm = "lost+found"
    BY <2>2, <1>4
  <2>5. block[p] \in Entry /\ NoLink(block[p], inodes)
    BY <2>4, <1>2, <1>4, ElementOfSeq DEF Walkable
  <2>6. QED
    BY <2>3, <2>4, <2>5, SizesAssumption DEF Entry, NoLink, Inode
<1>7. QED
  BY <1>5, <1>6

\* A new entry put into a block.
LEMMA NewEntryOK ==
  ASSUME DiskTypeOK, NEW n \in Inode, NEW block, Walkable(block)
  PROVE  Walkable(write_new_entry(block, create_new_entry(n)))
<1> DEFINE e == create_new_entry(n)
           z == [ino |-> 0, typ |-> "reg", nm |-> "other"]
           c == Cardinality(Visible(block))
<1>1. e \in Entry /\ NoLink(e, inodes)
  BY SizesAssumption DEF create_new_entry, Entry, NoLink, Inode
<1>2. z \in Entry /\ NoLink(z, inodes)
  BY SizesAssumption DEF Entry, NoLink
<1>3. /\ block \in Seq(Entry) /\ Len(block) \in Nat /\ DOMAIN block = 1 .. Len(block)
      /\ \A p \in 1 .. Len(block) : NoLink(block[p], inodes)
  BY LenProperties DEF Walkable
<1>4. c \in 0 .. Len(block)
  BY <1>3, VisibleOK
<1> HIDE DEF e, z, c
<1>5. CASE ~Hole(block)
  <2>1. write_new_entry(block, e) = Append(block, e)
    BY <1>5 DEF write_new_entry
  <2>2. Append(block, e) \in Seq(Entry)
    BY <1>1, <1>3, AppendProperties
  <2>3. \A p \in 1 .. Len(block) + 1 : NoLink(Append(block, e)[p], inodes)
    BY <1>1, <1>3, AppendProperties
  <2>4. DOMAIN Append(block, e) = 1 .. Len(block) + 1
    BY <1>1, <1>3, AppendProperties
  <2>5. QED
    BY <2>1, <2>2, <2>3, <2>4 DEF Walkable, e
<1>6. CASE Hole(block)
  <2> DEFINE s == SubSeq(block, 1, c)
             t == <<z, e>>
  <2>1. write_new_entry(block, e) = s \o t
    BY <1>6 DEF write_new_entry, z, c
  <2>2. s \in Seq(Entry) /\ Len(s) = c /\ \A p \in 1 .. c : s[p] = block[p]
    BY <1>3, <1>4, SubSeqProperties
  <2>3. t \in Seq(Entry) /\ Len(t) = 2 /\ t[1] = z /\ t[2] = e
    BY <1>1, <1>2
  <2> HIDE DEF s, t
  <2>4. /\ s \o t \in Seq(Entry) /\ Len(s \o t) = c + 2
        /\ \A p \in 1 .. c + 2 : (s \o t)[p] = IF p <= c THEN s[p] ELSE t[p - c]
    <3>1. /\ s \o t \in Seq(Entry) /\ Len(s \o t) = Len(s) + Len(t)
          /\ \A p \in 1 .. Len(s) + Len(t) :
                (s \o t)[p] = IF p <= Len(s) THEN s[p] ELSE t[p - Len(s)]
      BY <2>2, <2>3, ConcatProperties
    <3>2. Len(s) = c /\ Len(t) = 2
      BY <2>2, <2>3
    <3>3. QED
      BY <3>1, <3>2, Zenon
  <2>5. DOMAIN (s \o t) = 1 .. c + 2
    BY <2>4, LenProperties
  <2>6. ASSUME NEW p \in 1 .. c + 2 PROVE NoLink((s \o t)[p], inodes)
    <3>1. CASE p <= c
      BY <3>1, <2>2, <2>4, <1>3, <1>4
    <3>2. CASE p > c
      <4>1. p - c = 1 \/ p - c = 2
        BY <3>2, <1>4
      <4>2. (s \o t)[p] = t[p - c]
        BY <3>2, <2>4, <1>4
      <4>3. QED
        BY <4>1, <4>2, <2>3, <1>1, <1>2
    <3>3. p <= c \/ p > c
      BY <1>3, <1>4
    <3>4. QED
      BY <3>1, <3>2, <3>3, Zenon
  <2>7. QED
    BY <2>1, <2>4, <2>5, <2>6 DEF Walkable, e
<1>7. QED
  BY <1>5, <1>6

\* The second entry of a block made to name what is no link.
LEMMA ParentOK ==
  ASSUME DiskTypeOK, NEW n \in Inode, inodes[n].mode # "lnk",
         NEW block, Walkable(block), Len(block) >= 2
  PROVE  Walkable([block EXCEPT ![2].ino = n])
<1> DEFINE e == [block[2] EXCEPT !.ino = n]
<1>1. /\ block \in Seq(Entry) /\ Len(block) \in Nat /\ DOMAIN block = 1 .. Len(block)
      /\ 2 \in 1 .. Len(block)
  BY LenProperties DEF Walkable
<1>2. block[2] \in Entry /\ n \in 0 .. NInodes
  BY <1>1, ElementOfSeq, SizesAssumption DEF Inode
<1>3. e \in Entry /\ e.ino = n
  BY <1>2 DEF Entry
<1>4. NoLink(e, inodes)
  BY <1>3 DEF NoLink
<1>5. [block EXCEPT ![2].ino = n] = [block EXCEPT ![2] = e]
  OBVIOUS
<1> HIDE DEF e
<1>6. /\ [block EXCEPT ![2] = e] \in Seq(Entry)
      /\ Len([block EXCEPT ![2] = e]) = Len(block)
      /\ \A p \in 1 .. Len(block) : [block EXCEPT ![2] = e][p] = IF p = 2 THEN e ELSE block[p]
  BY <1>1, <1>3, ExceptSeq
<1>7. DOMAIN [block EXCEPT ![2] = e] = 1 .. Len(block)
  BY <1>6, LenProperties
<1>8. \A p \in 1 .. Len(block) : NoLink(block[p], inodes)
  BY <1>1 DEF Walkable
<1>9. QED
  BY <1>4, <1>5, <1>6, <1>7, <1>8 DEF Walkable

\* One block written.
LEMMA WriteOK ==
  ASSUME DiskTypeOK, NEW b \in Block, NEW block, Walkable(block),
         UNCHANGED <<inodes, links, overwritten, ibitmap, bbitmap>>,
         data' = [data EXCEPT ![b] = block]
  PROVE  DiskTypeOK'
<1>1. data \in [Block -> Seq(Entry)] /\ block \in Seq(Entry)
  BY DEF DiskTypeOK, IsImage, Walkable
<1>2. data' \in [Block -> Seq(Entry)]
  BY <1>1
<1>3. \A c \in Block : \A p \in DOMAIN data'[c] : NoLink(data'[c][p], inodes)
  BY <1>1 DEF DiskTypeOK, IsImage, Walkable
<1>4. QED
  BY <1>2, <1>3 DEF DiskTypeOK, IsImage, NoLink

-----------------------------------------------------------------------------
(* The invariant *)

\* Pass 2 starts in its invariant.
LEMMA P2InvInit == P2Init => P2Inv
<1> SUFFICES ASSUME P2Init PROVE P2Inv
  OBVIOUS
<1>1. DiskTypeOK
  BY ImagesAssumption DEF P2Init, ImageInit, DiskTypeOK
<1>2. WalkOK
  BY NoRefsTyped, WalkEmpty DEF P2Init
<1>3. QED
  BY <1>1, <1>2, SizesAssumption DEF P2Init, P2Inv

\* A step that leaves the disk alone.
LEMMA Still2OK ==
  ASSUME P2Inv, UNCHANGED disk
  PROVE  DiskTypeOK' /\ WalkFrame' = WalkFrame
BY DEF P2Inv, DiskTypeOK, disk, WalkFrame

\* A step that leaves the walk and the inodes alone.
LEMMA WalkStillOK ==
  ASSUME P2Inv, UNCHANGED <<inodes, refs, stack2>>
  PROVE  WalkOK'
BY DEF P2Inv, WalkOK, WalkFrame, CharMin

\* The first write of add_to_lost_found keeps the invariant.
LEMMA AttachStep == ASSUME P2Inv, P2Attach PROVE P2Inv'
<1>1. /\ DiskTypeOK /\ i2 \in Inode /\ lf' = LostFound /\ lf' # 0 /\ pc' = "p2_dotdot"
      /\ UNCHANGED <<inodes, links, overwritten, ibitmap, bbitmap, refs, stack2, i2>>
  BY DEF P2Inv, P2Attach
<1>2. lf' \in Inode /\ lf' \in 0 .. NInodes /\ inodes[lf'].mode # "lnk"
  BY <1>1, LostFoundOK
<1>3. DiskTypeOK'
  <2>1. CASE UNCHANGED data
    BY <1>1, <2>1 DEF DiskTypeOK
  <2>2. CASE \E k \in RoomIn(lf') :
               data' = [data EXCEPT ![inodes[lf'].blks[k]] =
                          write_new_entry(@, create_new_entry(i2))]
    <3>1. PICK k \in RoomIn(lf') :
                 data' = [data EXCEPT ![inodes[lf'].blks[k]] =
                            write_new_entry(@, create_new_entry(i2))]
      BY <2>2
    <3> DEFINE b == inodes[lf'].blks[k]
               block == write_new_entry(data[b], create_new_entry(i2))
    <3>2. b \in Block
      BY <1>1, <1>2, BlockOK DEF RoomIn
    <3>3. Walkable(block)
      BY <1>1, <3>2, DataOK, NewEntryOK
    <3>4. data' = [data EXCEPT ![b] = block]
      BY <3>1
    <3> HIDE DEF b, block
    <3>5. QED
      BY <1>1, <3>2, <3>3, <3>4, WriteOK
  <2>3. QED
    BY <2>1, <2>2 DEF P2Attach
<1>4. WalkOK'
  BY <1>1, WalkStillOK
<1>5. QED
  BY <1>1, <1>2, <1>3, <1>4 DEF P2Inv, Inode

\* The second write of add_to_lost_found keeps the invariant.
LEMMA SetParentStep == ASSUME P2Inv, P2SetParent PROVE P2Inv'
<1> DEFINE b == FirstBlock(i2)
<1>1. /\ DiskTypeOK /\ i2 \in Inode /\ lf \in Inode /\ inodes[lf].mode # "lnk"
      /\ b \in Block /\ pc' = "p2_scan" /\ i2' = i2 + 1
      /\ UNCHANGED <<inodes, links, ibitmap, bbitmap, refs, stack2, lf>>
  BY DEF P2Inv, P2SetParent
<1>2. DiskTypeOK'
  <2>1. CASE Len(data[b]) >= 2
    <3> DEFINE block == [data[b] EXCEPT ![2].ino = lf]
    <3>1. Walkable(block)
      BY <1>1, <2>1, DataOK, ParentOK
    <3>2. data' = [data EXCEPT ![b] = block] /\ UNCHANGED overwritten
      BY <2>1 DEF P2SetParent
    <3> HIDE DEF b, block
    <3>3. QED
      BY <1>1, <3>1, <3>2, WriteOK
  <2>2. CASE ~(Len(data[b]) >= 2)
    <3>1. overwritten' = overwritten \cup {b} /\ UNCHANGED data
      BY <2>2 DEF P2SetParent
    <3>2. QED
      BY <1>1, <3>1 DEF DiskTypeOK
  <2>3. QED
    BY <2>1, <2>2
<1>3. WalkOK'
  BY <1>1, WalkStillOK
<1>4. i2' \in 1 .. NInodes + 1
  BY <1>1, SizesAssumption DEF Inode
<1>5. QED
  BY <1>1, <1>2, <1>3, <1>4 DEF P2Inv

\* Every step of pass 2 keeps the invariant.
LEMMA P2InvStep == P2Inv /\ [P2Next]_p2vars => P2Inv'
<1> SUFFICES ASSUME P2Inv, [P2Next]_p2vars PROVE P2Inv'
  OBVIOUS
<1>1. CASE P2Start
  <2>1. DiskTypeOK' /\ WalkFrame' = WalkFrame
    BY <1>1, Still2OK DEF P2Start
  <2>2. <<Call2(ROOT_INODE_NUM)>> \in Seq(WalkFrame)
    <3>1. ROOT_INODE_NUM \in Inode /\ inodes[ROOT_INODE_NUM].mode # "lnk"
      BY SizesAssumption DEF P2Inv, DiskTypeOK, IsImage, Inode, ROOT_INODE_NUM
    <3>2. QED
      BY <3>1, CallOK
  <2>3. WalkOK'
    BY <1>1, <2>1, <2>2, NoRefsTyped DEF P2Start, WalkOK, CharMin
  <2>4. QED
    BY <1>1, <2>1, <2>3, SizesAssumption DEF P2Start, P2Inv
<1>2. CASE P2Traverse
  <2>1. DiskTypeOK' /\ UNCHANGED <<pc, i2, lf, inodes>>
    BY <1>2, Still2OK DEF P2Traverse, TrNext, disk
  <2>2. WalkOK'
    BY <1>2, WalkStep DEF P2Traverse, P2Inv
  <2>3. QED
    BY <2>1, <2>2 DEF P2Inv
<1>3. CASE P2Orphan
  <2>1. DiskTypeOK' /\ WalkFrame' = WalkFrame /\ i2 \in Inode
    BY <1>3, Still2OK, SizesAssumption DEF P2Orphan, P2Inv, Inode
  <2>2. stack2' \in Seq(WalkFrame)
    BY <1>3, <2>1, CallOK, EmptySeq DEF P2Orphan
  <2>3. WalkOK'
    BY <1>3, <2>1, <2>2 DEF P2Orphan, P2Inv, WalkOK, CharMin
  <2>4. QED
    BY <1>3, <2>1, <2>3 DEF P2Orphan, P2Inv
<1>4. CASE P2Attach
  BY <1>4, AttachStep
<1>5. CASE P2SetParent
  BY <1>5, SetParentStep
<1>6. CASE \/ P2Walked \/ P2Skip \/ P2NoLostFound \/ P2Exit \/ P2SetOutside
           \/ P2Done \/ UNCHANGED p2vars
  <2>1. UNCHANGED <<disk, inodes, refs, stack2, lf>>
    BY <1>6 DEF P2Walked, P2Skip, P2NoLostFound, P2Exit, P2SetOutside, P2Done, p2vars, disk
  <2>2. DiskTypeOK' /\ WalkOK'
    BY <2>1, Still2OK, WalkStillOK
  <2>3. /\ i2' \in 1 .. NInodes + 1
        /\ pc' \in {"pass2", "p2_walk", "p2_scan", "p2_sub", "p2_dotdot", "pass3", "exit"}
        /\ pc' \in {"p2_sub", "p2_dotdot"} => pc' = pc /\ i2' = i2
    BY <1>6, SizesAssumption
    DEF P2Walked, P2Skip, P2NoLostFound, P2Exit, P2SetOutside, P2Done, p2vars, P2Inv, Inode
  <2>4. QED
    BY <2>1, <2>2, <2>3 DEF P2Inv
<1>7. QED
  BY <1>1, <1>2, <1>3, <1>4, <1>5, <1>6 DEF P2Next

-----------------------------------------------------------------------------
(* The theorems *)

\* The strengthened invariant: types, no call of the walk is for a link, and
\* between the two writes lost_found_dir is an inode that may be walked into.
THEOREM Pass2Invariant == P2Spec => []P2Inv
<1>1. QED
  BY P2InvInit, P2InvStep, PTL DEF P2Spec

\* Pass 2 leaves a partition it could be started on: what add_to_lost_found
\* writes are entries naming inodes, no entry comes to lead a walk into a
\* symbolic link, also when a link is lost, and the counts stay in a char.
THEOREM Pass2TypeCorrect == P2Spec => []P2TypeOK
<1>1. P2Inv => P2TypeOK
  BY WalkTyped DEF P2Inv, P2TypeOK
<1>2. QED
  BY <1>1, Pass2Invariant, PTL

-----------------------------------------------------------------------------
(* Pass 2 only adds *)

\* What a scan sees of a block is a first part of it.
LEMMA VisibleIs ==
  ASSUME NEW block \in Seq(Entry)
  PROVE  Visible(block) = 1 .. Cardinality(Visible(block))
<1> DEFINE n == Len(block)
           T == (1 .. n) \ Visible(block)
<1>1. n \in Nat /\ DOMAIN block = 1 .. n
  BY LenProperties
<1>2. Visible(block) = {p \in 1 .. n : \A q \in 1 .. p : block[q].ino # 0}
  BY <1>1 DEF Visible
<1> HIDE DEF n
<1>3. CASE T = {}
  <2>1. Visible(block) = 1 .. n
    BY <1>2, <1>3
  <2>2. QED
    BY <1>1, <2>1, FS_Interval
<1>4. CASE T # {}
  <2>1. PICK m \in T : \A y \in T : m <= y
    <3>1. T \subseteq Nat
      BY <1>1
    <3>2. QED
      BY <1>4, <3>1, FirstOf
  <2>2. m \in 1 .. n /\ m \notin Visible(block)
    BY <2>1
  <2>3. \A p \in 1 .. m - 1 : p \in Visible(block)
    BY <1>1, <2>1
  <2>4. \A p \in Visible(block) : p <= m - 1
    <3>1. SUFFICES ASSUME NEW p \in Visible(block), p >= m PROVE FALSE
      BY <1>1, <1>2, <2>2
    <3>2. \A q \in 1 .. m : block[q].ino # 0
      BY <1>1, <1>2, <2>2, <3>1
    <3>3. QED
      BY <1>2, <2>2, <3>2
  <2>5. Visible(block) = 1 .. m - 1
    BY <1>1, <1>2, <2>2, <2>3, <2>4
  <2>6. Cardinality(1 .. m - 1) = m - 1
    BY <1>1, <2>2, FS_Interval
  <2>7. QED
    BY <2>5, <2>6
<1>5. QED
  BY <1>3, <1>4

\* The first part of a block being left, what was seen of it is seen.
LEMMA KeptVisible ==
  ASSUME NEW block, NEW w, Len(w) \in Nat, DOMAIN w = 1 .. Len(w),
         NEW c \in Nat, c <= Len(w), Visible(block) = 1 .. c,
         \A p \in 1 .. c : w[p].ino # 0
  PROVE  Visible(block) \subseteq Visible(w)
BY DEF Visible

\* Where the new entry goes nothing is seen: what was seen of the block stays.
LEMMA NewEntryKeeps ==
  ASSUME NEW block \in Seq(Entry), NEW e \in Entry
  PROVE  LET w == write_new_entry(block, e)
         IN  \A p \in Visible(block) : p \in Visible(w) /\ w[p] = block[p]
<1> DEFINE z == [ino |-> 0, typ |-> "reg", nm |-> "other"]
           c == Cardinality(Visible(block))
           w == write_new_entry(block, e)
<1>1. z \in Entry
  BY SizesAssumption DEF Entry
<1>2. Len(block) \in Nat /\ DOMAIN block = 1 .. Len(block)
  BY LenProperties
<1>3. c \in 0 .. Len(block) /\ Visible(block) = 1 .. c
  BY VisibleOK, VisibleIs
<1>4. \A p \in 1 .. c : block[p].ino # 0
  BY <1>3 DEF Visible
<1> HIDE DEF z, c
<1>5. w \in Seq(Entry) /\ c <= Len(w) /\ \A p \in 1 .. c : w[p] = block[p]
  <2>1. CASE ~Hole(block)
    <3>1. w = Append(block, e)
      BY <2>1 DEF write_new_entry
    <3>2. QED
      BY <1>2, <1>3, <3>1, AppendProperties
  <2>2. CASE Hole(block)
    <3> DEFINE s == SubSeq(block, 1, c)
               t == <<z, e>>
    <3>1. w = s \o t
      BY <2>2 DEF write_new_entry, z, c
    <3>2. s \in Seq(Entry) /\ Len(s) = c /\ \A p \in 1 .. c : s[p] = block[p]
      BY <1>2, <1>3, SubSeqProperties
    <3>3. t \in Seq(Entry) /\ Len(t) = 2
      BY <1>1
    <3> HIDE DEF s, t
    <3>4. /\ s \o t \in Seq(Entry) /\ Len(s \o t) = Len(s) + Len(t)
          /\ \A p \in 1 .. Len(s) + Len(t) :
                (s \o t)[p] = IF p <= Len(s) THEN s[p] ELSE t[p - Len(s)]
      BY <3>2, <3>3, ConcatProperties
    <3> HIDE DEF w
    <3>5. QED
      BY <1>3, <3>1, <3>2, <3>3, <3>4
  <2>3. QED
    BY <2>1, <2>2
<1> HIDE DEF w
<1>6. Len(w) \in Nat /\ DOMAIN w = 1 .. Len(w)
  BY <1>5, LenProperties
<1>7. Visible(block) \subseteq Visible(w)
  BY <1>3, <1>4, <1>5, <1>6, KeptVisible
<1>8. QED
  BY <1>3, <1>5, <1>7 DEF w

\* In a block, what a scan sees is there as before, but for the second entry.
Keeps(before, after) ==
  \A p \in Visible(before) : p \in Visible(after) /\ (after[p] = before[p] \/ p = 2)

\* The second entry may name something else: no other entry changes.
LEMMA ParentKeeps ==
  ASSUME NEW block \in Seq(Entry), Len(block) >= 2, NEW n \in Inode
  PROVE  Keeps(block, [block EXCEPT ![2].ino = n])
<1> DEFINE w == [block EXCEPT ![2].ino = n]
<1>1. Len(block) \in Nat /\ DOMAIN block = 1 .. Len(block)
  BY LenProperties
<1>2. DOMAIN w = DOMAIN block
  OBVIOUS
<1>3. \A p \in 1 .. Len(block) : p # 2 => w[p] = block[p]
  BY <1>1
<1>4. w[2].ino = n /\ n # 0
  <2>1. 2 \in DOMAIN block
    BY <1>1
  <2>2. block[2] \in Entry
    BY <1>1, ElementOfSeq
  <2>3. QED
    BY <2>1, <2>2, SizesAssumption, SMTT(20) DEF Inode, Entry
<1> HIDE DEF w
<1>5. \A p \in Visible(block) : p \in Visible(w)
  BY <1>1, <1>2, <1>3, <1>4 DEF Visible
<1>6. \A p \in Visible(block) : p \in 1 .. Len(block)
  BY <1>1 DEF Visible
<1>7. QED
  BY <1>3, <1>5, <1>6 DEF Keeps, w

\* Every block of a directory is kept, and of what is behind the first also
\* the second entry.
DirsKept ==
  \A d \in DirInodes : \A k \in DOMAIN inodes[d].blks :
    LET b == inodes[d].blks[k]
    IN  /\ Keeps(data[b], data'[b])
        /\ k > 1 => \A p \in Visible(data[b]) : data'[b][p] = data[b][p]

\* What is kept of every directory's blocks is kept of its names.
LEMMA EntriesKept ==
  ASSUME DiskTypeOK, UNCHANGED inodes, DirsKept, NEW d \in DirInodes, NEW e \in Names(d)
  PROVE  e \in Names(d)' /\ EntryAt(d, e)' = EntryAt(d, e)
<1> DEFINE b == inodes[d].blks[e[1]]
<1>1. /\ d \in Inode /\ e \in Entries(d) /\ (e[1] > 1 \/ e[2] > 2)
  BY DEF Names, DirInodes
<1>2. /\ IsDir(d) /\ e[1] \in 1 .. Len(inodes[d].blks) /\ Len(inodes[d].blks) \in Nat
      /\ e[2] \in Visible(data[b]) /\ e[2] \in 1 .. Len(data[b]) /\ Len(data[b]) \in Nat
      /\ e = <<e[1], e[2]>>
  BY <1>1, EntryIn
<1>3. e[1] \in DOMAIN inodes[d].blks
  <2>1. inodes[d].blks \in Seq(Block)
    BY <1>1, <1>2 DEF DiskTypeOK, IsImage, IsDir
  <2>2. QED
    BY <1>2, <2>1, LenProperties
<1>4. Keeps(data[b], data'[b]) /\ (e[1] > 1 => data'[b][e[2]] = data[b][e[2]])
  BY <1>2, <1>3 DEF DirsKept
<1>5. e[2] \in Visible(data'[b]) /\ data'[b][e[2]] = data[b][e[2]]
  <2>1. \A p \in Visible(data[b]) :
          p \in Visible(data'[b]) /\ (data'[b][p] = data[b][p] \/ p = 2)
    BY <1>4 DEF Keeps
  <2>2. /\ e[2] \in Visible(data'[b])
        /\ data'[b][e[2]] = data[b][e[2]] \/ e[2] = 2
    <3> HIDE DEF b
    <3>1. QED
      BY <1>2, <2>1, Zenon
  <2>3. e[1] > 1 \/ e[2] # 2
    BY <1>1, <1>2
  <2>4. QED
    BY <1>4, <2>2, <2>3, Zenon
<1>6. EntryAt(d, e)' = EntryAt(d, e)
  BY <1>5 DEF EntryAt
<1>7. e \in Entries(d)'
  <2>1. IsDir(d)' /\ inodes' = inodes /\ Visible(data[b])' = Visible(data'[b])
    BY <1>2 DEF IsDir, Visible
  <2> DEFINE In(k) == {<<k, p>> : p \in Visible(data'[inodes[d].blks[k]])}
  <2>2. Entries(d)' = UNION {In(k) : k \in DOMAIN inodes[d].blks}
    BY <2>1 DEF Entries, Visible
  <2>3. <<e[1], e[2]>> \in In(e[1])
    BY <1>5
  <2> HIDE DEF In
  <2>4. e \in In(e[1])
    BY <1>2, <2>3, Zenon
  <2>5. QED
    BY <1>3, <2>2, <2>4
<1>8. QED
  BY <1>1, <1>6, <1>7 DEF Names

\* Then the tree is kept: what can be reached can be reached as before.
LEMMA TreeKept ==
  ASSUME DiskTypeOK, DiskTypeOK', UNCHANGED inodes, DirsKept
  PROVE  /\ TreeDirs \subseteq TreeDirs'
         /\ \A d \in TreeDirs : \A e \in Names(d) :
              e \in Names(d)' /\ EntryAt(d, e)' = EntryAt(d, e)
<1>1. ROOT_INODE_NUM \in TreeDirs' /\ \A d \in TreeDirs' : SubDirs(d)' \subseteq TreeDirs'
  BY TreeClosedNext DEF Closed
<1>2. TreeDirs \subseteq DirInodes /\ TreeDirs' \subseteq DirInodes
  <2>1. (TreeDirs \subseteq DirInodes)'
    BY TreeClosedNext
  <2>2. DirInodes' = DirInodes
    BY DEF DirInodes, IsDir
  <2>3. QED
    BY <2>1, <2>2, TreeClosed
<1>3. ASSUME NEW d \in DirInodes PROVE SubDirs(d) \subseteq SubDirs(d)'
  <2>1. ASSUME NEW n \in SubDirs(d) PROVE n \in SubDirs(d)'
    <3>1. PICK e \in Names(d) : EntryAt(d, e).typ = "dir" /\ n = EntryAt(d, e).ino /\ IsDir(n)
      BY DEF SubDirs
    <3>2. e \in Names(d)' /\ EntryAt(d, e)' = EntryAt(d, e) /\ IsDir(n)'
      BY <3>1, EntriesKept DEF IsDir
    <3>3. QED
      BY <3>1, <3>2 DEF SubDirs
  <2>2. QED
    BY <2>1
<1>4. TreeDirs \subseteq TreeDirs'
  <2>1. PICK T : T = TreeDirs'
    OBVIOUS
  <2>2. Closed(T)
    BY <1>1, <1>2, <1>3, <2>1 DEF Closed
  <2>3. QED
    BY <2>1, <2>2, TreeLeast
<1>5. QED
  BY <1>2, <1>4, EntriesKept

\* The two writes of add_to_lost_found keep the directories.
LEMMA AttachKeeps ==
  ASSUME P2Inv, P2Attach
  PROVE  DirsKept
<1>1. DiskTypeOK /\ i2 \in Inode /\ lf' = LostFound /\ lf' # 0
  BY DEF P2Inv, P2Attach
<1>2. lf' \in Inode /\ inodes[lf'].mode # "lnk"
  BY <1>1, LostFoundOK
<1>3. data \in [Block -> Seq(Entry)]
  BY <1>1 DEF DiskTypeOK, IsImage
<1>4. ASSUME NEW b \in Block
      PROVE  \A p \in Visible(data[b]) : p \in Visible(data'[b]) /\ data'[b][p] = data[b][p]
  <2>1. CASE data'[b] = data[b]
    BY <2>1
  <2>2. CASE data'[b] # data[b]
    <3>1. PICK k \in RoomIn(lf') :
                 data' = [data EXCEPT ![inodes[lf'].blks[k]] =
                            write_new_entry(@, create_new_entry(i2))]
      BY <2>2 DEF P2Attach
    <3>2. data'[b] = write_new_entry(data[b], create_new_entry(i2))
      BY <1>3, <2>2, <3>1
    <3>3. create_new_entry(i2) \in Entry
      BY <1>1, SizesAssumption DEF create_new_entry, Entry, Inode
    <3>4. data[b] \in Seq(Entry)
      BY <1>3
    <3>5. QED
      BY <3>2, <3>3, <3>4, NewEntryKeeps
  <2>3. QED
    BY <2>1, <2>2
<1>5. QED
  BY <1>1, <1>4, BlockOK DEF DirsKept, DirInodes, IsDir, Keeps

\* The second write takes no name from a directory.
LEMMA SetParentKeeps ==
  ASSUME P2Inv, FirstsApart, P2SetParent
  PROVE  DirsKept
<1> DEFINE b == FirstBlock(i2)
<1>1. DiskTypeOK /\ i2 \in Inode /\ lf \in Inode /\ b \in Block
  BY DEF P2Inv, P2SetParent
<1>2. data \in [Block -> Seq(Entry)] /\ data[b] \in Seq(Entry)
  BY <1>1 DEF DiskTypeOK, IsImage
<1>3. Keeps(data[b], data'[b]) /\ \A c \in Block : c # b => data'[c] = data[c]
  <2>1. CASE Len(data[b]) >= 2
    <3>1. data' = [data EXCEPT ![b][2].ino = lf]
      BY <2>1 DEF P2SetParent
    <3>2. data'[b] = [data[b] EXCEPT ![2].ino = lf] /\ \A c \in Block : c # b => data'[c] = data[c]
      BY <1>1, <1>2, <3>1
    <3> HIDE DEF b
    <3>3. QED
      BY <1>1, <1>2, <2>1, <3>2, ParentKeeps
  <2>2. CASE ~(Len(data[b]) >= 2)
    BY <2>2 DEF P2SetParent, Keeps
  <2>3. QED
    BY <2>1, <2>2
<1>4. ASSUME NEW d \in DirInodes, NEW k \in DOMAIN inodes[d].blks
      PROVE  LET a == inodes[d].blks[k]
             IN  /\ Keeps(data[a], data'[a])
                 /\ k > 1 => \A p \in Visible(data[a]) : data'[a][p] = data[a][p]
  <2>1. inodes[d].blks[k] \in Block /\ IsDir(d) /\ d \in Inode
    BY <1>1, BlockOK DEF DirInodes, IsDir
  <2>2. inodes[d].blks[k] = b => k = 1
    BY <1>1, <2>1 DEF FirstsApart
  <2> HIDE DEF b
  <2>3. QED
    BY <1>3, <2>1, <2>2 DEF Keeps
<1>5. QED
  BY <1>4 DEF DirsKept

\* What add_to_lost_found writes takes nothing from the tree: a directory that
\* can be reached stays so and keeps its names, on every partition on which
\* the second write is to no later block of a directory.
THEOREM Pass2OnlyAdds == P2Spec /\ FirstsApart => P2OnlyAdds
<1> DEFINE Kept == /\ TreeDirs \subseteq TreeDirs'
                   /\ \A d \in TreeDirs : \A e \in Names(d) :
                        e \in Names(d)' /\ EntryAt(d, e)' = EntryAt(d, e)
<1>1. P2Inv /\ P2Inv' /\ FirstsApart /\ [P2Next]_p2vars => [data' # data => Kept]_p2vars
  <2>1. SUFFICES ASSUME P2Inv, P2Inv', FirstsApart, P2Next, data' # data PROVE Kept
    BY DEF p2vars, disk
  <2>2. DiskTypeOK /\ DiskTypeOK'
    BY <2>1 DEF P2Inv
  <2>3. P2Attach \/ P2SetParent
    BY <2>1 DEF P2Next, P2Start, P2Traverse, TrNext, P2Walked, P2Skip, P2Orphan,
                P2NoLostFound, P2Exit, P2SetOutside, P2Done, disk
  <2>4. DirsKept /\ UNCHANGED inodes
    BY <2>1, <2>3, AttachKeeps, SetParentKeeps DEF P2Attach, P2SetParent
  <2>5. QED
    BY <2>2, <2>4, TreeKept
<1>2. P2Inv /\ FirstsApart /\ [P2Next]_p2vars => FirstsApart'
  <2>1. SUFFICES ASSUME FirstsApart, [P2Next]_p2vars PROVE FirstsApart'
    OBVIOUS
  <2>2. UNCHANGED inodes
    BY <2>1 DEF P2Next, P2Start, P2Traverse, TrNext, P2Walked, P2Skip, P2Orphan, P2Attach,
                P2NoLostFound, P2SetParent, P2Exit, P2SetOutside, P2Done, disk, p2vars
  <2>3. QED
    BY <2>1, <2>2 DEF FirstsApart, FirstBlock, IsDir
<1> HIDE DEF Kept
<1>3. P2Spec /\ FirstsApart => [][data' # data => Kept]_p2vars
  BY <1>1, <1>2, Pass2Invariant, PTL DEF P2Spec
<1>4. QED
  BY <1>3 DEF P2OnlyAdds, Kept

-----------------------------------------------------------------------------
(* What pass 2 finds.  The walks so far are one walk over the directories  *)
(* there are, which has started from the root and from every lost          *)
(* directory behind the scan that no other has led to.  What the invariant *)
(* says is put in terms of the stack st, the counts r, the label p, the    *)
(* inode i the scan is at and lost+found l, to say it of the values after  *)
(* a step that leaves the disk alone as well.                              *)

\* An entry of a directory in E names n, other than as "." or "..".
NamedIn(E, n) == \E x \in Over(E) : IsName(x) /\ Named(x) = n

\* The walks, started at R, have passed the entries S and entered the
\* directories E: the tree, once the first walk has ended, and everything
\* behind the scan.  What they have started at, nothing they have still to
\* pass names.
WalkedAt(st, p, i, R, S, E) ==
  /\ Stack(st) /\ WalkedOver(KeptDirs, R, S, E, FramesOf(st))
  /\ ROOT_INODE_NUM \in R
  /\ \A d \in R : d = ROOT_INODE_NUM \/ d < i \/ (p \in {"p2_sub", "p2_dotdot"} /\ d = i)
  /\ \A x \in KeptEntries : NamesDir(x) /\ Named(x) \in R => x \in S
  /\ p # "p2_walk" => TreeDirs \subseteq E
  /\ \A d \in KeptDirs : d < i => d \in E
  /\ p \in {"p2_sub", "p2_dotdot"} /\ IsDir(i) => i \in E

\* What an entry passed names has been counted, or is behind the scan; what
\* is still to pass does not fill a char; and what has been counted is behind
\* the scan, was walked into, or is named where the walks have been.
CountedAt(r, p, i, S, E) ==
  /\ \A x \in S : r[Named(x)] >= 1 \/ Named(x) < i \/ (p = "p2_dotdot" /\ Named(x) = i)
  /\ \A n \in Inode : r[n] >= 0 /\ r[n] + Cardinality(Naming(KeptEntries \ S, n)) <= CharMax
  /\ \A n \in Inode : r[n] # 0 => n < i \/ n \in E \/ (~IsDir(n) /\ NamedIn(E, n))

\* If there was room for all that was lost, or there still is room, all that has
\* been walked has been attached, and everything behind the scan has been walked
\* or is named there.
ReachedAt(all, p, i, E) ==
  all \/ RoomLeft =>
    /\ \A Z : Closed(Z) /\ (p = "p2_sub" /\ IsDir(i) => i \in Z) => E \subseteq Z
    /\ \A n \in Inode : Live(n) /\ (n < i \/ (p = "p2_dotdot" /\ n = i)) =>
         n \in E \/ NamedIn(E, n)

\* What the walks so far know.
KnownAt(all, st, r, p, i) ==
  \E R, S, E : WalkedAt(st, p, i, R, S, E) /\ CountedAt(r, p, i, S, E) /\ ReachedAt(all, p, i, E)

\* The ".." of every directory with a name is right, that of the one just
\* attached excepted.
UpsAt(p, i, l) ==
  /\ Pointer(ROOT_INODE_NUM, 2) = ROOT_INODE_NUM
  /\ \A d \in KeptDirs : \A c \in SubDirs(d) :
       Pointer(c, 2) = d \/ (p = "p2_dotdot" /\ c = i /\ d = l)

\* The inode in hand is one to attach, and to nothing else.
ScanAt(st, p, i, l) ==
  /\ p = "pass2" => KeptFit
  /\ p \in {"pass2", "p2_walk"} => i = 1
  /\ p \in {"p2_scan", "p2_dotdot", "pass3"} => st = <<>>
  /\ p = "pass3" => i > NInodes
  /\ p \in {"p2_sub", "p2_dotdot"} => Live(i) /\ i # ROOT_INODE_NUM
  /\ p = "p2_sub" => /\ \A x \in TreeEntries : Named(x) # i
                     /\ \A x \in KeptEntries : IsName(x) => Named(x) # i
  /\ p = "p2_dotdot" =>
       /\ l = LostFound /\ l # 0 /\ l # i
       /\ \A x \in KeptEntries : IsName(x) /\ Named(x) = i => x[1] = l

\* What every step keeps of the directories there are.
ShapeKept == TreesSound /\ LostInOrder /\ LostFoundSound /\ KeptApart

\* The invariant of the scan; all says that each object to be attached has found
\* room.  With "exit" the program has stopped between the two writes, and nothing
\* is claimed but the types.
ScanPart(all) ==
  /\ P2Inv
  /\ pc # "exit" => ShapeKept /\ UpsAt(pc, i2, lf) /\ ScanAt(stack2, pc, i2, lf)
  /\ pc \notin {"pass2", "exit"} => KnownAt(all, stack2, refs, pc, i2)

\* Of any run, by the room there is, and of one that has always found room.
ScanInv == ScanPart(FALSE)
AttachedInv == ScanPart(TRUE)

\* The entries of the directories there are, in the words of walks.
LEMMA KeptOver == KeptEntries = Over(KeptDirs)
BY DEF KeptEntries, Over, EntriesIn

\* The directories there are form trees that may be walked.
LEMMA KeptThere ==
  ASSUME DiskTypeOK, TreesThere
  PROVE  /\ Whole(KeptDirs) /\ Forest(KeptDirs) /\ KeptDirs \subseteq Inode
         /\ TreeDirs \subseteq KeptDirs /\ ROOT_INODE_NUM \in KeptDirs
         /\ TreeEntries \subseteq KeptEntries
         /\ \A x \in KeptEntries : NamesDir(x) => Named(x) \in KeptDirs \ {ROOT_INODE_NUM}
<1>1. KeptDirs \subseteq DirInodes
  BY DEF KeptDirs, DirInodes
<1>2. \A x \in KeptEntries : NamesDir(x) => IsDir(Named(x)) /\ Named(x) \in KeptDirs \ {ROOT_INODE_NUM}
  BY DEF TreesThere, NamesDir
<1>3. ASSUME NEW d \in KeptDirs, NEW n \in SubDirs(d) PROVE n \in KeptDirs
  <2>1. PICK x \in EntriesIn(d) : NamesDir(x) /\ Named(x) = n
    BY SubDirsNamed
  <2>2. x \in KeptEntries
    BY KeptOver DEF Over
  <2>3. QED
    BY <1>2, <2>1, <2>2
<1>4. Whole(KeptDirs)
  BY <1>1, <1>3 DEF Whole
<1>5. Forest(KeptDirs)
  BY <1>2, KeptOver DEF Forest, TreesThere
<1>6. TreeDirs \subseteq KeptDirs /\ ROOT_INODE_NUM \in KeptDirs
  <2>1. TreeDirs \subseteq DirInodes /\ ROOT_INODE_NUM \in TreeDirs
    BY TreeClosed DEF Closed
  <2>2. QED
    BY <2>1 DEF KeptDirs, DirInodes
<1>7. TreeEntries \subseteq KeptEntries
  BY <1>6, KeptOver, TreeOver DEF Over
<1>8. KeptDirs \subseteq Inode
  BY DEF KeptDirs
<1>9. QED
  BY <1>2, <1>4, <1>5, <1>6, <1>7, <1>8

\* So do they with "." and "..".
LEMMA KeptTrees ==
  ASSUME DiskTypeOK, TreesSound
  PROVE  /\ Whole(KeptDirs) /\ Forest(KeptDirs) /\ KeptDirs \subseteq Inode
         /\ TreeDirs \subseteq KeptDirs /\ ROOT_INODE_NUM \in KeptDirs
         /\ TreeEntries \subseteq KeptEntries
         /\ \A x \in KeptEntries : NamesDir(x) => Named(x) \in KeptDirs \ {ROOT_INODE_NUM}
BY KeptThere DEF TreesSound

\* A pointer is what the entry at its place names.
LEMMA PointerNamed == ASSUME NEW d, NEW p PROVE Pointer(d, p) = Named(<<d, 1, p>>)
BY DEF Pointer, Named, EntryAt

\* Every directory has "." and "..", and "." names it.
LEMMA KeptStart ==
  ASSUME TreesSound, NEW d \in KeptDirs
  PROVE  /\ <<d, 1, 1>> \in KeptEntries /\ <<d, 1, 2>> \in KeptEntries
         /\ <<d, 1, 1>> \in EntriesIn(d) /\ <<d, 1, 2>> \in EntriesIn(d)
         /\ Named(<<d, 1, 1>>) = d
<1>1. <<d, 1, 1>> \in KeptEntries /\ <<d, 1, 2>> \in KeptEntries /\ SelfOK(d)
  BY DEF TreesSound
<1>2. <<d, 1, 1>>[1] = d /\ <<d, 1, 2>>[1] = d
  OBVIOUS
<1>3. <<d, 1, 1>> \in EntriesIn(d) /\ <<d, 1, 2>> \in EntriesIn(d)
  BY <1>1, <1>2, KeptOver, OverIs
<1>4. QED
  BY <1>1, <1>3, PointerNamed DEF SelfOK

\* A step that writes none of what a scan reads says nothing new.
LEMMA StillKept ==
  ASSUME UNCHANGED <<inodes, data, links, ibitmap>>
  PROVE  /\ KeptDirs' = KeptDirs /\ KeptEntries' = KeptEntries
         /\ TreeDirs' = TreeDirs /\ TreeEntries' = TreeEntries
         /\ LostFound' = LostFound /\ RoomLeft' = RoomLeft
         /\ \A d : EntriesIn(d)' = EntriesIn(d) /\ SubDirs(d)' = SubDirs(d)
         /\ \A x : Named(x)' = Named(x) /\ (NamesDir(x)' <=> NamesDir(x))
         /\ \A n : (IsDir(n)' <=> IsDir(n)) /\ (Live(n)' <=> Live(n))
         /\ \A d, p : Pointer(d, p)' = Pointer(d, p)
<1>1. TreeDirs' = TreeDirs /\ TreeEntries' = TreeEntries
  BY TreeSame
<1>2. \A d : Entries(d)' = Entries(d)
  BY DEF Entries, IsDir, Visible
<1>3. \A d : EntriesIn(d)' = EntriesIn(d)
  BY <1>2 DEF EntriesIn
<1>4. \A x : Named(x)' = Named(x) /\ (NamesDir(x)' <=> NamesDir(x))
  BY DEF Named, NamesDir, EntryAt, IsName
<1>5. \A d : SubDirs(d)' = SubDirs(d)
  BY <1>2 DEF SubDirs, Names, EntryAt, IsDir
<1>6. \A n : (IsDir(n)' <=> IsDir(n)) /\ (Live(n)' <=> Live(n))
  BY DEF IsDir, Live, get_inode_alloc_bit
<1>7. \A d, p : Pointer(d, p)' = Pointer(d, p)
  BY DEF Pointer
<1>8. KeptDirs' = KeptDirs
  BY <1>1, <1>6 DEF KeptDirs
<1>9. KeptEntries' = KeptEntries
  BY <1>2, <1>8 DEF KeptEntries
<1>10. LostFound' = LostFound
  BY DEF LostFound, search_dir_entry, Visible
<1>11. RoomLeft' = RoomLeft
  <2>1. RoomIn(LostFound)' = RoomIn(LostFound)
    BY <1>10 DEF RoomIn, HasBlock, Fits, Hole, Visible
  <2>2. RoomLeft' <=> RoomLeft
    BY <1>10, <2>1 DEF RoomLeft, Hole, Visible
  <2>3. RoomLeft \in BOOLEAN /\ RoomLeft' \in BOOLEAN
    BY DEF RoomLeft
  <2>4. QED
    BY <2>2, <2>3
<1>12. QED
  BY <1>1, <1>3, <1>4, <1>5, <1>6, <1>7, <1>8, <1>9, <1>10, <1>11

\* Such a step leaves the trees what they are, and their pointers.
LEMMA StillShape ==
  ASSUME UNCHANGED <<inodes, data, links, ibitmap>>, NEW p, NEW i, NEW l
  PROVE  /\ ShapeKept => ShapeKept'
         /\ UpsAt(p, i, l) => UpsAt(p, i, l)'
<1>1. TreesSound => TreesSound'
  BY StillKept DEF TreesSound, TreesThere, IsName, SelfOK
<1>2. LostInOrder => LostInOrder'
  BY StillKept DEF LostInOrder, IsName
<1>3. LostFoundSound => LostFoundSound'
  BY StillKept DEF LostFoundSound
<1>4. KeptApart => KeptApart'
  BY StillKept DEF KeptApart, FirstBlock
<1>5. UpsAt(p, i, l) => UpsAt(p, i, l)'
  BY StillKept DEF UpsAt
<1>6. QED
  BY <1>1, <1>2, <1>3, <1>4, <1>5 DEF ShapeKept

\* Such a step leaves the inode in hand what it is.
LEMMA StillScan ==
  ASSUME UNCHANGED <<inodes, data, links, ibitmap>>, NEW st, NEW p, NEW i, NEW l, ScanAt(st, p, i, l)
  PROVE  ScanAt(st, p, i, l)'
<1>1. \A n : Naming(KeptEntries, n)' = Naming(KeptEntries, n)
  BY StillKept DEF Naming
<1>2. KeptFit => KeptFit'
  BY <1>1, StillKept DEF KeptFit
<1>3. QED
  BY <1>2, StillKept DEF ScanAt, IsName

\* Such a step leaves what the walks so far know what it is.
LEMMA StillKnown ==
  ASSUME UNCHANGED <<inodes, data, links, ibitmap>>, NEW st, NEW r, NEW p, NEW i,
         NEW all, KnownAt(all, st, r, p, i)
  PROVE  KnownAt(all, st, r, p, i)'
<1>1. PICK R, S, E : WalkedAt(st, p, i, R, S, E) /\ CountedAt(r, p, i, S, E) /\ ReachedAt(all, p, i, E)
  BY DEF KnownAt
<1>2. \A n : NamedIn(E, n)' <=> NamedIn(E, n)
  <2>1. Over(E)' = Over(E)
    BY StillKept DEF Over
  <2>2. QED
    BY <2>1, StillKept DEF NamedIn, IsName
<1>3. WalkedAt(st, p, i, R, S, E)'
  <2>1. PICK U : U = KeptDirs
    OBVIOUS
  <2>2. WalkedOver(U, R, S, E, FramesOf(st))
    BY <1>1, <2>1 DEF WalkedAt
  <2>3. PICK F : F = FramesOf(st)
    OBVIOUS
  <2>4. WalkedOver(U, R, S, E, F)'
    BY <2>2, <2>3, OverSame
  <2>5. WalkedOver(KeptDirs, R, S, E, FramesOf(st))'
    <3>1. KeptDirs' = U /\ FramesOf(st)' = F
      BY <2>1, <2>3, StillKept DEF FramesOf
    <3>2. QED
      BY <2>4, <3>1
  <2>6. QED
    BY <1>1, <2>5, StillKept DEF WalkedAt, Stack
<1>4. CountedAt(r, p, i, S, E)'
  <2>1. \A n : Naming(KeptEntries \ S, n)' = Naming(KeptEntries \ S, n)
    BY StillKept DEF Naming
  <2>2. QED
    BY <1>1, <1>2, <2>1, StillKept DEF CountedAt
<1>5. ReachedAt(all, p, i, E)'
  <2>1. \A Z : Closed(Z)' <=> Closed(Z)
    BY StillKept DEF Closed
  <2>2. QED
    BY <1>1, <1>2, <2>1, StillKept DEF ReachedAt
<1>6. QED
  BY <1>3, <1>4, <1>5 DEF KnownAt

\* What an entry is: it names an inode, is of a directory, and is in a block of it.
LEMMA EntryNamed ==
  ASSUME DiskTypeOK, NEW U, U \subseteq Inode, NEW x \in Over(U)
  PROVE  /\ Named(x) \in Inode /\ x[1] \in U /\ x \in EntriesIn(x[1]) /\ IsDir(x[1])
         /\ x[2] \in Nat \ {0} /\ x[3] \in Nat \ {0} /\ x = <<x[1], x[2], x[3]>>
         /\ x[2] \in DOMAIN inodes[x[1]].blks /\ inodes[x[1]].blks[x[2]] \in Block
         /\ x[3] \in Visible(data[inodes[x[1]].blks[x[2]]])
<1>1. x[1] \in U /\ x \in EntriesIn(x[1])
  BY OverIs
<1>2. PICK d : d = x[1]
  OBVIOUS
<1>3. PICK e \in Entries(d) : x = <<d, e[1], e[2]>>
  BY <1>1, <1>2 DEF EntriesIn
<1>4. d \in Inode
  BY <1>1, <1>2
<1>5. /\ e = <<e[1], e[2]>> /\ EntryAt(d, e).ino \in Inode
      /\ e[1] \in Nat \ {0} /\ e[2] \in Nat \ {0} /\ IsDir(d)
  BY <1>3, <1>4, EntryIn
<1>6. x[1] = d /\ x[2] = e[1] /\ x[3] = e[2]
  BY <1>3
<1>7. Named(x) = EntryAt(d, e).ino
  BY <1>5, <1>6 DEF Named, EntryAt
<1>8. /\ x[2] \in DOMAIN inodes[d].blks
      /\ x[3] \in Visible(data[inodes[d].blks[x[2]]])
  BY <1>1, <1>2, EntriesInIs
<1>9. inodes[d].blks[x[2]] \in Block
  BY <1>4, <1>5, <1>8, BlockOK DEF IsDir
<1>10. x = <<x[1], x[2], x[3]>>
  <2>1. <<d, e[1], e[2]>> = <<x[1], x[2], x[3]>>
    BY <1>6, Zenon
  <2>2. QED
    BY <1>3, <2>1
<1>11. QED
  BY <1>1, <1>2, <1>5, <1>6, <1>7, <1>8, <1>9, <1>10

\* The entries that name an inode can be counted.
LEMMA NamingFinite ==
  ASSUME DiskTypeOK, NEW U, U \subseteq Inode, NEW S, S \subseteq Over(U), NEW n
  PROVE  IsFiniteSet(Naming(S, n)) /\ Cardinality(Naming(S, n)) \in Nat
<1>1. IsFiniteSet(Over(U)) /\ Naming(S, n) \subseteq Over(U)
  BY OverFinite DEF Naming
<1>2. QED
  BY <1>1, FS_Subset, FS_CardinalityType

\* When the walks have ended, what they have entered is whole, and has the tree.
LEMMA KnownWhole ==
  ASSUME DiskTypeOK, TreesSound, NEW p, NEW i, NEW R, NEW S, NEW E,
         WalkedAt(<<>>, p, i, R, S, E)
  PROVE  /\ WalkedOver(KeptDirs, R, S, E, {})
         /\ S = Over(E) /\ Whole(E) /\ E \subseteq KeptDirs
         /\ TreeDirs \subseteq E /\ ROOT_INODE_NUM \in E /\ TreeEntries \subseteq S
<1>1. FramesOf(<<>>) = {}
  BY DEF FramesOf
<1>2. Whole(KeptDirs)
  BY KeptTrees
<1>3. WalkedOver(KeptDirs, R, S, E, {})
  BY <1>1 DEF WalkedAt
<1>4. S = Over(E) /\ Whole(E)
  BY <1>2, <1>3, OverDone
<1>5. ROOT_INODE_NUM \in E /\ E \subseteq KeptDirs
  BY <1>3 DEF WalkedAt, WalkedOver
<1>6. TreeDirs \subseteq E
  BY <1>4, <1>5, TreeLeast DEF Closed, Whole
<1>7. TreeEntries \subseteq S
  BY <1>4, <1>6, TreeOver DEF Over
<1>8. QED
  BY <1>3, <1>4, <1>5, <1>6, <1>7

\* More directories entered, more names.
LEMMA NamedMore ==
  ASSUME NEW E, NEW D, E \subseteq D, NEW n, NamedIn(E, n)
  PROVE  NamedIn(D, n)
BY DEF NamedIn, Over

\* Pass 2 starts the walk of the tree.
LEMMA StartKnown ==
  ASSUME DiskTypeOK, TreesSound, KeptFit, NEW all
  PROVE  KnownAt(all, <<Call2(ROOT_INODE_NUM)>>, NoRefs, "p2_walk", 1)
<1> DEFINE U == KeptDirs
           R == {ROOT_INODE_NUM}
           c == Call2(ROOT_INODE_NUM)
<1>1. /\ Whole(U) /\ ROOT_INODE_NUM \in U /\ U \subseteq Inode
      /\ \A x \in KeptEntries : NamesDir(x) => Named(x) # ROOT_INODE_NUM
  BY KeptTrees
<1>2. c = [dir |-> ROOT_INODE_NUM, blk |-> 1, pos |-> 1] /\ c \in WFrame
  BY SizesAssumption DEF Call2, WFrame, Inode, ROOT_INODE_NUM
<1>3. WalkedOver(U, {}, {}, {}, {})
  BY DEF WalkedOver
<1>4. WalkedOver(U, R, {}, R, {c})
  <2>1. {} \cup {ROOT_INODE_NUM} = R
    OBVIOUS
  <2> HIDE DEF U, R, c
  <2>2. WalkedOver(U, {} \cup {ROOT_INODE_NUM}, {}, {} \cup {ROOT_INODE_NUM},
                   {[dir |-> ROOT_INODE_NUM, blk |-> 1, pos |-> 1]})
    BY <1>1, <1>3, OverStart
  <2>3. QED
    BY <1>2, <2>1, <2>2
<1>5. Stack(<<c>>) /\ FramesOf(<<c>>) = {c}
  <2> HIDE DEF c
  <2>1. QED
    BY <1>2, StackStart
<1> HIDE DEF c
<1>6. WalkedAt(<<c>>, "p2_walk", 1, R, {}, R)
  BY <1>1, <1>4, <1>5 DEF WalkedAt, Inode
<1>7. CountedAt(NoRefs, "p2_walk", 1, {}, R)
  <2>1. ASSUME NEW n \in Inode
        PROVE  NoRefs[n] = 0 /\ Cardinality(Naming(KeptEntries \ {}, n)) \in Nat
                             /\ Cardinality(Naming(KeptEntries \ {}, n)) <= CharMax
    <3>1. KeptEntries \ {} = KeptEntries
      OBVIOUS
    <3>2. Cardinality(Naming(KeptEntries, n)) \in Nat
      BY <1>1, KeptOver, NamingFinite
    <3>3. QED
      BY <3>1, <3>2 DEF NoRefs, KeptFit
  <2>2. QED
    BY <2>1, CharAssumption DEF CountedAt
<1>8. ReachedAt(all, "p2_walk", 1, R)
  BY DEF ReachedAt, Closed, Inode
<1>9. QED
  BY <1>6, <1>7, <1>8 DEF KnownAt, c

\* The walk of the tree has ended.
LEMMA WalkedKnown ==
  ASSUME DiskTypeOK, TreesSound, NEW all, NEW r, NEW i,
         KnownAt(all, <<>>, r, "p2_walk", i)
  PROVE  KnownAt(all, <<>>, r, "p2_scan", i)
<1>1. PICK R, S, E : WalkedAt(<<>>, "p2_walk", i, R, S, E) /\ CountedAt(r, "p2_walk", i, S, E)
                     /\ ReachedAt(all, "p2_walk", i, E)
  BY DEF KnownAt
<1>2. TreeDirs \subseteq E
  BY <1>1, KnownWhole
<1>3. WalkedAt(<<>>, "p2_scan", i, R, S, E)
  BY <1>1, <1>2 DEF WalkedAt
<1>4. CountedAt(r, "p2_scan", i, S, E) /\ ReachedAt(all, "p2_scan", i, E)
  BY <1>1 DEF CountedAt, ReachedAt
<1>5. QED
  BY <1>3, <1>4 DEF KnownAt

\* An inode that is counted, or none to attach, needs nothing done.
LEMMA SkipKnown ==
  ASSUME DiskTypeOK, TreesSound, NEW all, NEW r, NEW i \in Inode,
         KnownAt(all, <<>>, r, "p2_scan", i),
         Live(i) => r[i] # 0
  PROVE  KnownAt(all, <<>>, r, "p2_scan", i + 1)
<1>1. PICK R, S, E : WalkedAt(<<>>, "p2_scan", i, R, S, E) /\ CountedAt(r, "p2_scan", i, S, E)
                     /\ ReachedAt(all, "p2_scan", i, E)
  BY DEF KnownAt
<1>2. /\ S = Over(E) /\ E \subseteq KeptDirs /\ TreeDirs \subseteq E /\ R \subseteq E
      /\ KeptDirs \subseteq Inode
  BY <1>1, KnownWhole, KeptTrees DEF WalkedOver
<1>3. i \in Nat /\ \A n \in Inode : n \in Nat /\ (n < i => n < i + 1) /\ (n < i + 1 => n < i \/ n = i)
  BY SizesAssumption DEF Inode
<1>4. Live(i) => i \in E \/ (~IsDir(i) /\ NamedIn(E, i))
  BY <1>1, <1>3 DEF CountedAt
<1>5. ASSUME NEW d \in KeptDirs, d < i + 1 PROVE d \in E
  <2>1. CASE d < i
    BY <1>1, <2>1 DEF WalkedAt
  <2>2. CASE d = i
    BY <1>2, <1>4, <1>5, <2>2 DEF KeptDirs
  <2>3. QED
    BY <1>2, <1>3, <1>5, <2>1, <2>2
<1>6. WalkedAt(<<>>, "p2_scan", i + 1, R, S, E)
  <2>1. \A d \in R : d = ROOT_INODE_NUM \/ d < i + 1
    BY <1>1, <1>2, <1>3 DEF WalkedAt
  <2>2. QED
    BY <1>1, <1>5, <2>1 DEF WalkedAt
<1>7. CountedAt(r, "p2_scan", i + 1, S, E)
  <2>1. \A x \in S : Named(x) \in Inode
    BY <1>2, EntryNamed
  <2>2. QED
    BY <1>1, <1>3, <2>1 DEF CountedAt
<1>8. ReachedAt(all, "p2_scan", i + 1, E)
  BY <1>1, <1>3, <1>4 DEF ReachedAt
<1>9. QED
  BY <1>6, <1>7, <1>8 DEF KnownAt

\* What the scan takes for an orphan nothing names: the tree has been counted,
\* and a lost directory that names it would be behind the scan and counted too.
LEMMA OrphanAlone ==
  ASSUME DiskTypeOK, TreesSound, LostInOrder, NEW r, NEW i \in Inode, NEW R, NEW S, NEW E,
         WalkedAt(<<>>, "p2_scan", i, R, S, E), CountedAt(r, "p2_scan", i, S, E),
         Live(i), r[i] = 0
  PROVE  /\ \A x \in TreeEntries : Named(x) # i
         /\ \A x \in KeptEntries : IsName(x) => Named(x) # i
         /\ i # ROOT_INODE_NUM
<1>1. /\ S = Over(E) /\ E \subseteq KeptDirs /\ TreeEntries \subseteq S /\ ROOT_INODE_NUM \in TreeDirs
  BY KnownWhole, TreeClosed DEF Closed
<1>2. i \in Nat /\ ~(i < i) /\ ~(0 >= 1)
  BY SizesAssumption DEF Inode
<1>3. \A x \in S : Named(x) # i
  BY <1>2 DEF CountedAt
<1>4. ASSUME NEW x \in KeptEntries, IsName(x), Named(x) = i PROVE FALSE
  <2>1. x[1] \in KeptDirs /\ x \in EntriesIn(x[1])
    BY KeptOver, OverIs
  <2>2. CASE x[1] \in TreeDirs
    BY <1>1, <1>3, <1>4, <2>1, <2>2, TreeEntriesIs
  <2>3. CASE x[1] \notin TreeDirs
    <3>1. x[1] < i
      BY <1>4, <2>3 DEF LostInOrder
    <3>2. x[1] \in E
      BY <2>1, <3>1 DEF WalkedAt
    <3>3. x \in S
      BY <1>1, <2>1, <3>2, OverIs
    <3>4. QED
      BY <1>3, <1>4, <3>3
  <2>4. QED
    BY <2>2, <2>3
<1>5. i # ROOT_INODE_NUM
  <2>1. ROOT_INODE_NUM \in KeptDirs
    BY KeptTrees
  <2>2. <<ROOT_INODE_NUM, 1, 1>> \in EntriesIn(ROOT_INODE_NUM) /\ Named(<<ROOT_INODE_NUM, 1, 1>>) = ROOT_INODE_NUM
    BY <2>1, KeptStart
  <2>3. <<ROOT_INODE_NUM, 1, 1>> \in TreeEntries
    BY <1>1, <2>2, TreeOver DEF Over
  <2>4. QED
    BY <1>1, <1>3, <2>2, <2>3
<1>6. QED
  BY <1>1, <1>3, <1>4, <1>5

\* It is walked, if it is a directory.
LEMMA OrphanKnown ==
  ASSUME DiskTypeOK, TreesSound, LostInOrder, NEW all, NEW r, NEW i \in Inode,
         KnownAt(all, <<>>, r, "p2_scan", i), Live(i), r[i] = 0
  PROVE  /\ KnownAt(all, IF inodes[i].mode = "dir" THEN <<Call2(i)>> ELSE <<>>, r, "p2_sub", i)
         /\ \A x \in TreeEntries : Named(x) # i
         /\ \A x \in KeptEntries : IsName(x) => Named(x) # i
         /\ i # ROOT_INODE_NUM
<1>1. PICK R, S, E : WalkedAt(<<>>, "p2_scan", i, R, S, E) /\ CountedAt(r, "p2_scan", i, S, E)
                     /\ ReachedAt(all, "p2_scan", i, E)
  BY DEF KnownAt
<1>2. /\ \A x \in TreeEntries : Named(x) # i
      /\ \A x \in KeptEntries : IsName(x) => Named(x) # i
      /\ i # ROOT_INODE_NUM
  BY <1>1, OrphanAlone
<1>3. /\ WalkedOver(KeptDirs, R, S, E, {}) /\ S = Over(E) /\ Whole(E) /\ E \subseteq KeptDirs
      /\ TreeDirs \subseteq E /\ Whole(KeptDirs) /\ S \subseteq KeptEntries
  <2>1. /\ WalkedOver(KeptDirs, R, S, E, {}) /\ S = Over(E) /\ Whole(E) /\ E \subseteq KeptDirs
        /\ TreeDirs \subseteq E
    BY <1>1, KnownWhole
  <2>2. Whole(KeptDirs)
    BY KeptTrees
  <2>3. S \subseteq KeptEntries
    BY <2>1, KeptOver DEF Over
  <2>4. QED
    BY <2>1, <2>2, <2>3
<1>4. CASE ~IsDir(i)
  <2>1. WalkedAt(<<>>, "p2_sub", i, R, S, E)
    BY <1>1, <1>4 DEF WalkedAt
  <2>2. CountedAt(r, "p2_sub", i, S, E) /\ ReachedAt(all, "p2_sub", i, E)
    BY <1>1, <1>4 DEF CountedAt, ReachedAt
  <2>3. KnownAt(all, <<>>, r, "p2_sub", i)
    BY <2>1, <2>2 DEF KnownAt
  <2>4. QED
    BY <1>2, <1>4, <2>3 DEF IsDir
<1>5. CASE IsDir(i)
  <2> DEFINE c == Call2(i)
             Q == R \cup {i}
             D == E \cup {i}
  <2>1. i \in KeptDirs
    BY <1>5 DEF KeptDirs
  <2>2. i \notin E
    <3>1. SUFFICES ASSUME i \in E PROVE FALSE
      OBVIOUS
    <3>2. i \notin R
      BY <1>1, <1>2, SizesAssumption DEF WalkedAt, Inode
    <3>3. PICK x \in S : NamesDir(x) /\ Named(x) = i
      BY <1>3, <3>1, <3>2 DEF WalkedOver
    <3>4. QED
      BY <1>2, <1>3, <3>3 DEF NamesDir
  <2>3. c = [dir |-> i, blk |-> 1, pos |-> 1] /\ c \in WFrame
    BY DEF Call2, WFrame
  <2>4. WalkedOver(KeptDirs, Q, S, D, {c})
    <3> HIDE DEF c
    <3>1. WalkedOver(KeptDirs, R \cup {i}, S, E \cup {i}, {[dir |-> i, blk |-> 1, pos |-> 1]})
      BY <1>3, <2>1, <2>2, OverStart
    <3>2. QED
      BY <2>3, <3>1
  <2>5. Stack(<<c>>) /\ FramesOf(<<c>>) = {c}
    <3> HIDE DEF c
    <3>1. QED
      BY <2>3, StackStart
  <2> HIDE DEF c
  <2>6. WalkedAt(<<c>>, "p2_sub", i, Q, S, D)
    <3>1. \A x \in KeptEntries : NamesDir(x) /\ Named(x) \in Q => x \in S
      BY <1>1, <1>2 DEF WalkedAt, NamesDir
    <3>2. ROOT_INODE_NUM \in Q /\ \A d \in Q : d = ROOT_INODE_NUM \/ d < i \/ d = i
      BY <1>1 DEF WalkedAt
    <3>3. TreeDirs \subseteq D /\ i \in D /\ \A d \in KeptDirs : d < i => d \in D
      BY <1>1, <1>3 DEF WalkedAt
    <3> HIDE DEF Q, D
    <3>4. QED
      BY <2>4, <2>5, <3>1, <3>2, <3>3 DEF WalkedAt
  <2>7. \A n : NamedIn(E, n) => NamedIn(D, n)
    BY NamedMore
  <2>8. CountedAt(r, "p2_sub", i, S, D)
    <3>1. \A n : n \in E => n \in D
      OBVIOUS
    <3> HIDE DEF D
    <3>2. QED
      BY <1>1, <2>7, <3>1 DEF CountedAt
  <2>9. ReachedAt(all, "p2_sub", i, D)
    <3>1. SUFFICES ASSUME all \/ RoomLeft
          PROVE  /\ \A Z : Closed(Z) /\ i \in Z => D \subseteq Z
                 /\ \A n \in Inode : Live(n) /\ n < i => n \in D \/ NamedIn(D, n)
      BY <1>5 DEF ReachedAt
    <3>2. QED
      BY <1>1, <2>7, <3>1 DEF ReachedAt
  <2>10. KnownAt(all, <<c>>, r, "p2_sub", i)
    BY <2>6, <2>8, <2>9 DEF KnownAt
  <2>11. QED
    BY <1>2, <1>5, <2>10 DEF IsDir, c
<1>6. QED
  BY <1>4, <1>5

\* Without a lost+found there is no room, and the scan goes on.
LEMMA NoLostFoundKnown ==
  ASSUME DiskTypeOK, TreesSound, NEW all, all => RoomLeft, NEW r, NEW i \in Inode,
         KnownAt(all, <<>>, r, "p2_sub", i), LostFound = 0
  PROVE  KnownAt(all, <<>>, r, "p2_scan", i + 1)
<1>1. PICK R, S, E : WalkedAt(<<>>, "p2_sub", i, R, S, E) /\ CountedAt(r, "p2_sub", i, S, E)
  BY DEF KnownAt
<1>2. S = Over(E) /\ E \subseteq KeptDirs /\ KeptDirs \subseteq Inode /\ R \subseteq E
  BY <1>1, KnownWhole, KeptTrees DEF WalkedOver
<1>3. i \in Nat /\ \A n \in Inode : n \in Nat /\ (n < i => n < i + 1) /\ (n = i => n < i + 1)
                                     /\ (n < i + 1 => n < i \/ n = i)
  BY SizesAssumption DEF Inode
<1>4. WalkedAt(<<>>, "p2_scan", i + 1, R, S, E)
  <2>1. \A d \in R : d = ROOT_INODE_NUM \/ d < i + 1
    BY <1>1, <1>2, <1>3 DEF WalkedAt
  <2>2. \A d \in KeptDirs : d < i + 1 => d \in E
    BY <1>1, <1>2, <1>3 DEF WalkedAt, KeptDirs
  <2>3. QED
    BY <1>1, <2>1, <2>2 DEF WalkedAt
<1>5. CountedAt(r, "p2_scan", i + 1, S, E)
  <2>1. \A x \in S : Named(x) \in Inode
    BY <1>2, EntryNamed
  <2>2. QED
    BY <1>1, <1>3, <2>1 DEF CountedAt
<1>6. ReachedAt(all, "p2_scan", i + 1, E)
  BY DEF ReachedAt, RoomLeft
<1>7. QED
  BY <1>4, <1>5, <1>6 DEF KnownAt

\* Every directory of the tree but the root is in one.
LEMMA TreeParent ==
  ASSUME DiskTypeOK, NEW d \in TreeDirs, d # ROOT_INODE_NUM
  PROVE  \E c \in TreeDirs : d \in SubDirs(c)
<1> DEFINE T == {n \in TreeDirs : n = ROOT_INODE_NUM \/ \E c \in TreeDirs : n \in SubDirs(c)}
<1>1. Closed(TreeDirs)
  BY TreeClosed
<1>2. Closed(T)
  BY <1>1 DEF Closed
<1>3. TreeDirs \subseteq T
  <2> HIDE DEF T
  <2>1. QED
    BY <1>2, TreeLeast
<1>4. QED
  BY <1>3

\* "." and ".." of a directory that has been entered name nothing that is still
\* to be walked to: the directory, its parent, or what is behind the scan.
LEMMA PointersKnown ==
  ASSUME DiskTypeOK, TreesSound, LostInOrder, NEW st, NEW p \in {"p2_walk", "p2_sub"},
         NEW i \in Inode, p = "p2_walk" => i = 1, NEW l, UpsAt(p, i, l),
         NEW R, NEW S, NEW E, WalkedAt(st, p, i, R, S, E),
         NEW x \in KeptEntries, x[1] \in E, ~ IsName(x)
  PROVE  Named(x) \in E \/ Named(x) < i
<1> DEFINE U == KeptDirs
           d == x[1]
<1>1. /\ WalkedOver(U, R, S, E, FramesOf(st)) /\ E \subseteq U /\ R \subseteq E
      /\ S \subseteq KeptEntries /\ \A y \in S : y[1] \in E
  BY KeptOver DEF WalkedAt, WalkedOver
<1>2. U \subseteq Inode /\ TreeDirs \subseteq U
  BY KeptTrees
<1>3. x[2] \in Nat \ {0} /\ x[3] \in Nat \ {0} /\ x = <<x[1], x[2], x[3]>> /\ d \in U
  BY <1>1, <1>2, KeptOver, EntryNamed
<1>4. x[2] = 1 /\ (x[3] = 1 \/ x[3] = 2)
  BY <1>3 DEF IsName
<1>5. CASE x[3] = 1
  <2>1. x = <<d, 1, 1>>
    BY <1>3, <1>4, <1>5
  <2>2. QED
    BY <1>3, <2>1, KeptStart
<1>6. ASSUME x[3] = 2, d # ROOT_INODE_NUM, NEW c \in E, d \in SubDirs(c)
      PROVE  Named(x) \in E
  <2>1. x = <<d, 1, 2>>
    BY <1>3, <1>4, <1>6
  <2>2. c \in U
    BY <1>1
  <2>3. Pointer(d, 2) = c
    BY <1>6, <2>2 DEF UpsAt
  <2>4. QED
    BY <1>6, <2>1, <2>3, PointerNamed
<1>7. ASSUME NEW y \in S, NamesDir(y), Named(y) = d
      PROVE  d \in SubDirs(y[1]) /\ y[1] \in E
  <2>1. y \in EntriesIn(y[1]) /\ y[1] \in E
    BY <1>1, KeptOver, OverIs
  <2>2. IsDir(d)
    BY <1>3 DEF KeptDirs
  <2>3. QED
    BY <1>7, <2>1, <2>2, SubDirsNamed
<1> HIDE DEF d
<1>8. CASE x[3] = 2
  <2>1. x = <<d, 1, 2>>
    BY <1>3, <1>4, <1>8 DEF d
  <2>2. Named(x) = Pointer(d, 2)
    BY <2>1, PointerNamed
  <2>3. CASE d = ROOT_INODE_NUM
    <3>1. Named(x) = ROOT_INODE_NUM
      BY <2>2, <2>3 DEF UpsAt
    <3>2. QED
      BY <1>1, <3>1 DEF WalkedAt
  <2>4. CASE d # ROOT_INODE_NUM /\ \E y \in S : NamesDir(y) /\ Named(y) = d
    BY <1>6, <1>7, <1>8, <2>4
  <2>5. CASE d # ROOT_INODE_NUM /\ \A y \in S : NamesDir(y) => Named(y) # d
    <3>1. d \in R
      BY <1>1, <2>5 DEF WalkedOver, d
    <3>2. p = "p2_sub" /\ (d < i \/ d = i) /\ TreeDirs \subseteq E
      BY <2>5, <3>1, <1>2, <1>3, SizesAssumption DEF WalkedAt, Inode
    <3>3. CASE d \in TreeDirs
      BY <1>6, <1>8, <2>5, <3>2, <3>3, TreeParent
    <3>4. CASE d \notin TreeDirs
      <4>1. \A y \in KeptEntries : NamesDir(y) => Named(y) # d
        BY <2>5, <3>1 DEF WalkedAt
      <4>2. Pointer(d, 2) <= d \/ Pointer(d, 2) \in TreeDirs
        BY <1>3, <3>4, <4>1 DEF LostInOrder
      <4>3. Named(x) \in Inode /\ d \in Inode /\ d \in E
        BY <1>2, <1>3, KeptOver, EntryNamed DEF d
      <4>4. Named(x) <= d => Named(x) = d \/ Named(x) < i
        BY <3>2, <4>3, SizesAssumption DEF Inode
      <4>5. QED
        BY <2>2, <3>2, <4>2, <4>3, <4>4
    <3>5. QED
      BY <3>3, <3>4
  <2>6. QED
    BY <2>3, <2>4, <2>5
<1>9. QED
  BY <1>4, <1>5, <1>8

\* One entry more passed is one less to come.
LEMMA NamingLess ==
  ASSUME DiskTypeOK, NEW U, U \subseteq Inode, NEW S, NEW x \in Over(U) \ S, NEW n
  PROVE  Cardinality(Naming(Over(U) \ (S \cup {x}), n)) =
           Cardinality(Naming(Over(U) \ S, n)) - (IF Named(x) = n THEN 1 ELSE 0)
<1> DEFINE T == Naming(Over(U) \ S, n)
           T1 == Naming(Over(U) \ (S \cup {x}), n)
<1>1. IsFiniteSet(T1) /\ IsFiniteSet(T) /\ Cardinality(T1) \in Nat /\ Cardinality(T) \in Nat
  <2>1. Over(U) \ S \subseteq Over(U) /\ Over(U) \ (S \cup {x}) \subseteq Over(U)
    OBVIOUS
  <2>2. QED
    BY <2>1, NamingFinite
<1>2. CASE Named(x) = n
  <2>1. T = T1 \cup {x} /\ x \notin T1
    BY <1>2 DEF Naming
  <2> HIDE DEF T, T1
  <2>2. Cardinality(T1 \cup {x}) = Cardinality(T1) + 1
    BY <1>1, <2>1, FS_AddElement
  <2>3. Cardinality(T1) = Cardinality(T) - 1
    BY <1>1, <2>1, <2>2
  <2>4. QED
    BY <1>2, <2>3 DEF T, T1
<1>3. CASE Named(x) # n
  <2>1. T = T1
    BY <1>3 DEF Naming
  <2>2. QED
    BY <1>1, <1>3, <2>1
<1>4. QED
  BY <1>2, <1>3

\* A step of the walk.
LEMMA TraverseKnown ==
  ASSUME DiskTypeOK, WalkOK, TreesSound, LostInOrder, NEW p \in {"p2_walk", "p2_sub"},
         NEW i \in Inode, p = "p2_walk" => i = 1, NEW l, UpsAt(p, i, l), NEW all,
         KnownAt(all, stack2, refs, p, i), TrNext
  PROVE  KnownAt(all, stack2', refs', p, i)
<1> DEFINE U == KeptDirs
<1>1. PICK R, S, E : WalkedAt(stack2, p, i, R, S, E) /\ CountedAt(refs, p, i, S, E)
                     /\ ReachedAt(all, p, i, E)
  BY DEF KnownAt
<1>2. Whole(U) /\ Forest(U) /\ U \subseteq Inode /\ KeptEntries = Over(U)
  BY KeptTrees, KeptOver
<1>3. PICK S1, E1 : /\ Stack(stack2') /\ WalkedOver(U, R, S1, E1, FramesOf(stack2'))
                    /\ Moved(U, S, E, S1, E1)
  <2>1. Stack(stack2) /\ WalkedOver(U, R, S, E, FramesOf(stack2))
    BY <1>1 DEF WalkedAt
  <2>2. \A x \in Over(U) \ S : NamesDir(x) => Named(x) \notin R
    BY <1>1, <1>2 DEF WalkedAt
  <2> HIDE DEF U
  <2>3. QED
    BY <1>2, <2>1, <2>2, OverStep
<1>4. E \subseteq E1 /\ S \subseteq S1
  BY <1>3 DEF Moved
<1>5. WalkedAt(stack2', p, i, R, S1, E1)
  BY <1>1, <1>3, <1>4 DEF WalkedAt
<1>6. CASE S1 = S /\ E1 = E /\ refs' = refs
  BY <1>1, <1>5, <1>6 DEF KnownAt
<1>7. CASE ~(S1 = S /\ E1 = E /\ refs' = refs)
  <2>1. PICK x \in KeptEntries \ S :
          /\ x[1] \in E /\ S1 = S \cup {x}
          /\ E1 = IF NamesDir(x) THEN E \cup {Named(x)} ELSE E
          /\ Named(x) \in Inode
          /\ refs' = [refs EXCEPT ![Named(x)] = Inc(refs[Named(x)])]
    BY <1>2, <1>3, <1>7 DEF Moved
  <2> DEFINE m == Named(x)
  <2>2. /\ refs[m] \in Nat /\ refs'[m] = refs[m] + 1
        /\ \A n \in Inode : n # m => refs'[n] = refs[n]
    <3>1. refs \in [Inode -> CharMin .. CharMax]
      BY DEF WalkOK
    <3>2. refs[m] >= 0 /\ refs[m] \in Int
      BY <1>1, <2>1, <3>1, CharAssumption DEF CountedAt, CharMin
    <3>3. refs[m] + Cardinality(Naming(KeptEntries \ S, m)) <= CharMax
      BY <1>1, <2>1 DEF CountedAt
    <3>4. /\ Cardinality(Naming(KeptEntries \ S, m)) \in Nat
          /\ Cardinality(Naming(KeptEntries \ S, m)) # 0
      <4>1. IsFiniteSet(Naming(KeptEntries \ S, m))
            /\ Cardinality(Naming(KeptEntries \ S, m)) \in Nat
        BY <1>2, NamingFinite
      <4>2. x \in Naming(KeptEntries \ S, m)
        BY DEF Naming
      <4>3. QED
        BY <4>1, <4>2, FS_EmptySet
    <3>5. refs[m] # CharMax
      BY <3>2, <3>3, <3>4, CharAssumption
    <3>6. QED
      BY <2>1, <3>1, <3>2, <3>5 DEF Inc
  <2>3. \A n : NamedIn(E, n) => NamedIn(E1, n)
    BY <1>4, NamedMore
  <2>4. \A y \in S1 : Named(y) \in Inode
    BY <1>2, <1>3, EntryNamed DEF WalkedOver
  <2>5. \A y \in S1 : refs'[Named(y)] >= 1 \/ Named(y) < i
    <3>1. SUFFICES ASSUME NEW y \in S1 PROVE refs'[Named(y)] >= 1 \/ Named(y) < i
      OBVIOUS
    <3>2. CASE Named(y) = m
      BY <2>2, <3>2
    <3>3. CASE Named(y) # m
      <4>1. y \in S /\ Named(y) \in Inode /\ refs'[Named(y)] = refs[Named(y)]
        BY <2>1, <2>2, <2>4, <3>3
      <4>2. QED
        BY <1>1, <4>1 DEF CountedAt
    <3>4. QED
      BY <3>2, <3>3
  <2>6. \A n \in Inode : refs'[n] >= 0
                          /\ refs'[n] + Cardinality(Naming(KeptEntries \ S1, n)) <= CharMax
    <3>1. SUFFICES ASSUME NEW n \in Inode
                   PROVE  /\ refs'[n] >= 0
                          /\ refs'[n] + Cardinality(Naming(KeptEntries \ S1, n)) <= CharMax
      OBVIOUS
    <3>2. Cardinality(Naming(KeptEntries \ S1, n)) =
            Cardinality(Naming(KeptEntries \ S, n)) - (IF m = n THEN 1 ELSE 0)
      BY <1>2, <2>1, NamingLess
    <3>3. Cardinality(Naming(KeptEntries \ S, n)) \in Nat
      BY <1>2, NamingFinite
    <3>4. refs[n] >= 0 /\ refs[n] + Cardinality(Naming(KeptEntries \ S, n)) <= CharMax
      BY <1>1 DEF CountedAt
    <3>5. refs[n] \in Int
      BY CharAssumption DEF WalkOK, CharMin
    <3> HIDE DEF m
    <3>6. CASE n = m
      <4>1. refs'[n] = refs[n] + 1
        BY <2>2, <3>6
      <4>2. QED
        BY <3>2, <3>3, <3>4, <3>5, <3>6, <4>1, CharAssumption
    <3>7. CASE n # m
      <4>1. refs'[n] = refs[n]
        BY <2>2, <3>7
      <4>2. QED
        BY <3>2, <3>3, <3>4, <3>7, <4>1
    <3>8. QED
      BY <3>6, <3>7
  <2>7. m < i \/ m \in E1 \/ (~IsDir(m) /\ NamedIn(E1, m))
    <3>1. CASE NamesDir(x)
      BY <2>1, <3>1
    <3>2. CASE IsName(x) /\ ~NamesDir(x)
      <4>1. ~IsDir(m)
        BY <2>1, <3>2 DEF TreesSound, TreesThere
      <4>2. x \in EntriesIn(x[1])
        BY <1>2, <2>1, OverIs
      <4>3. x \in Over(E1)
        BY <1>4, <2>1, <4>2 DEF Over
      <4>4. QED
        BY <3>2, <4>1, <4>3 DEF NamedIn
    <3>3. CASE ~IsName(x)
      BY <1>1, <1>4, <2>1, <3>3, PointersKnown
    <3>4. QED
      BY <3>1, <3>2, <3>3
  <2>8. \A n \in Inode : refs'[n] # 0 => n < i \/ n \in E1 \/ (~IsDir(n) /\ NamedIn(E1, n))
    <3> HIDE DEF m
    <3>1. QED
      BY <1>1, <1>4, <2>2, <2>3, <2>7 DEF CountedAt
  <2>9. CountedAt(refs', p, i, S1, E1)
    BY <2>5, <2>6, <2>8 DEF CountedAt
  <2>10. ReachedAt(all, p, i, E1)
    <3>1. ASSUME all \/ RoomLeft, NEW Z, Closed(Z), p = "p2_sub" /\ IsDir(i) => i \in Z
          PROVE  E1 \subseteq Z
      <4>1. E \subseteq Z
        BY <1>1, <3>1 DEF ReachedAt
      <4>2. NamesDir(x) => m \in SubDirs(x[1])
        <5>1. x \in EntriesIn(x[1])
          BY <1>2, <2>1, OverIs
        <5>2. NamesDir(x) => IsDir(m)
          BY <1>2, <2>1 DEF Forest
        <5>3. QED
          BY <5>1, <5>2, SubDirsNamed
      <4>3. x[1] \in Z
        BY <2>1, <4>1
      <4>4. NamesDir(x) => m \in Z
        BY <3>1, <4>2, <4>3 DEF Closed
      <4>5. QED
        BY <2>1, <4>1, <4>4
    <3>2. ASSUME all \/ RoomLeft, NEW n \in Inode, Live(n), n < i \/ (p = "p2_dotdot" /\ n = i)
          PROVE  n \in E1 \/ NamedIn(E1, n)
      BY <1>1, <1>4, <2>3, <3>2 DEF ReachedAt
    <3>3. QED
      BY <3>1, <3>2 DEF ReachedAt
  <2>11. QED
    BY <1>5, <2>9, <2>10 DEF KnownAt
<1>8. QED
  BY <1>6, <1>7

-----------------------------------------------------------------------------
(* What a write does to the directories U: it adds the entries X, one that *)
(* names n in l, or none, and makes the ".." of n, or nothing, name l.     *)

Wrote(U, X, l, n) ==
  /\ \A d \in U : EntriesIn(d)' = EntriesIn(d) \cup {x \in X : x[1] = d}
  /\ \A x \in X : /\ x[1] = l /\ IsName(x) /\ x \notin Over(U)
                  /\ Named(x)' = n /\ (NamesDir(x)' <=> IsDir(n))
  /\ \A x, y \in X : x = y
  /\ \A x \in Over(U) :
       /\ NamesDir(x)' <=> NamesDir(x)
       /\ Named(x)' = Named(x) \/ (x = <<n, 1, 2>> /\ Named(x)' = l)

\* Names stay.
LEMMA WroteNames ==
  ASSUME NEW U, NEW X, NEW l, NEW n, Wrote(U, X, l, n), NEW x \in Over(U), IsName(x)
  PROVE  Named(x)' = Named(x) /\ (NamesDir(x)' <=> NamesDir(x))
<1>1. ~ IsName(<<n, 1, 2>>)
  BY DEF IsName
<1>2. QED
  BY <1>1 DEF Wrote

\* SubDirsNamed after a step: it is about every partition.
LEMMA SubDirsNamedNext ==
  (\A d, n : n \in SubDirs(d) <=>
     IsDir(n) /\ \E x \in EntriesIn(d) : NamesDir(x) /\ Named(x) = n)'
<1>1. \A d, n : n \in SubDirs(d) <=>
        IsDir(n) /\ \E x \in EntriesIn(d) : NamesDir(x) /\ Named(x) = n
  BY SubDirsNamed
<1>2. QED
  BY <1>1, PTL

\* A write of add_to_lost_found makes at most one directory a subdirectory more.
LEMMA WroteSubDirs ==
  ASSUME UNCHANGED inodes, NEW U, NEW X, NEW l, NEW n, Wrote(U, X, l, n), NEW d \in U, NEW c
  PROVE  c \in SubDirs(d)' <=> c \in SubDirs(d) \/ (X # {} /\ d = l /\ c = n /\ IsDir(n))
<1>1. c \in SubDirs(d)' <=>
        IsDir(c)' /\ \E x \in EntriesIn(d)' : NamesDir(x)' /\ Named(x)' = c
  BY SubDirsNamedNext
<1>2. EntriesIn(d)' = EntriesIn(d) \cup {x \in X : x[1] = d}
  BY DEF Wrote
<1>3. \A x \in EntriesIn(d) : /\ x \in Over(U)
                              /\ NamesDir(x) => Named(x)' = Named(x)
                              /\ NamesDir(x)' <=> NamesDir(x)
  <2>1. EntriesIn(d) \subseteq Over(U)
    BY DEF Over
  <2>2. QED
    BY <2>1, WroteNames DEF NamesDir, Wrote
<1>4. IsDir(c)' <=> IsDir(c)
  BY DEF IsDir
<1>5. c \in SubDirs(d) <=> IsDir(c) /\ \E x \in EntriesIn(d) : NamesDir(x) /\ Named(x) = c
  BY SubDirsNamed
<1>6. \A x \in X : x[1] = l /\ Named(x)' = n /\ (NamesDir(x)' <=> IsDir(n))
  BY DEF Wrote
<1>7. ASSUME c \in SubDirs(d)'
      PROVE  c \in SubDirs(d) \/ (X # {} /\ d = l /\ c = n /\ IsDir(n))
  <2>1. PICK x \in EntriesIn(d)' : NamesDir(x)' /\ Named(x)' = c /\ IsDir(c)
    BY <1>1, <1>4, <1>7
  <2>2. CASE x \in EntriesIn(d)
    BY <1>3, <1>5, <2>1, <2>2
  <2>3. CASE x \in X /\ x[1] = d
    BY <1>6, <2>1, <2>3
  <2>4. QED
    BY <1>2, <2>2, <2>3
<1>8. ASSUME c \in SubDirs(d)
      PROVE  c \in SubDirs(d)'
  <2>1. PICK x \in EntriesIn(d) : NamesDir(x) /\ Named(x) = c /\ IsDir(c)
    BY <1>5, <1>8
  <2>2. x \in EntriesIn(d)' /\ NamesDir(x)' /\ Named(x)' = c
    BY <1>2, <1>3, <2>1
  <2>3. QED
    BY <1>1, <1>4, <2>1, <2>2
<1>9. ASSUME X # {}, d = l, c = n, IsDir(n)
      PROVE  c \in SubDirs(d)'
  <2>1. PICK x \in X : TRUE
    BY <1>9
  <2>2. x \in EntriesIn(d)' /\ NamesDir(x)' /\ Named(x)' = c
    BY <1>2, <1>6, <1>9, <2>1
  <2>3. QED
    BY <1>1, <1>4, <1>9, <2>2
<1>10. QED
  BY <1>7, <1>8, <1>9

\* The directories stay what they are, and of the tree none is lost.
LEMMA WroteTree ==
  ASSUME DiskTypeOK, DiskTypeOK', TreesSound, UNCHANGED <<inodes, links, ibitmap>>,
         NEW U, U = KeptDirs, NEW X, NEW l \in U, NEW n, IsDir(n) => n \in U,
         Wrote(U, X, l, n)
  PROVE  /\ TreeDirs \subseteq TreeDirs' /\ KeptDirs' = U
         /\ Over(U)' = Over(U) \cup X /\ KeptEntries' = Over(U) \cup X
<1>1. Whole(U) /\ ROOT_INODE_NUM \in U /\ TreeDirs \subseteq U
  BY KeptTrees
<1>2. \A d \in U : SubDirs(d) \subseteq SubDirs(d)' /\ SubDirs(d)' \subseteq U
  <2>1. \A d \in U : \A c : c \in SubDirs(d)' => c \in SubDirs(d) \/ (c = n /\ IsDir(n))
    BY WroteSubDirs
  <2>2. \A d \in U : \A c : c \in SubDirs(d) => c \in SubDirs(d)'
    BY WroteSubDirs
  <2>3. QED
    BY <1>1, <2>1, <2>2 DEF Whole
<1>3. PICK T : T = TreeDirs'
  OBVIOUS
<1>4. T \subseteq U
  <2>1. \A S : ROOT_INODE_NUM \in S /\ (\A d \in S : SubDirs(d)' \subseteq S) => TreeDirs' \subseteq S
    BY TreeLeastNext DEF Closed
  <2>2. QED
    BY <1>1, <1>2, <1>3, <2>1
<1>5. TreeDirs \subseteq T
  <2>1. ROOT_INODE_NUM \in TreeDirs' /\ \A d \in TreeDirs' : SubDirs(d)' \subseteq TreeDirs'
    BY TreeClosedNext DEF Closed
  <2>2. Closed(T)
    BY <1>2, <1>3, <1>4, <2>1 DEF Closed
  <2>3. QED
    BY <2>2, TreeLeast
<1>6. KeptDirs' = U
  <2>1. \A d : (IsDir(d)' <=> IsDir(d)) /\ (Live(d)' <=> Live(d))
    BY DEF IsDir, Live, get_inode_alloc_bit
  <2>2. \A d : d \in KeptDirs' <=> d \in Inode /\ IsDir(d) /\ (d \in T \/ Live(d))
    BY <1>3, <2>1 DEF KeptDirs
  <2>3. \A d : d \in U <=> d \in Inode /\ IsDir(d) /\ (d \in TreeDirs \/ Live(d))
    BY DEF KeptDirs
  <2>4. \A d : d \in KeptDirs' <=> d \in U
    BY <1>4, <1>5, <2>2, <2>3
  <2>5. QED
    BY <2>4
<1>7. Over(U)' = Over(U) \cup X
  <2>1. \A d \in U : EntriesIn(d)' = EntriesIn(d) \cup {x \in X : x[1] = d}
    BY DEF Wrote
  <2>2. \A x \in X : x[1] = l
    BY DEF Wrote
  <2>3. Over(U)' = UNION {EntriesIn(d)' : d \in U}
    BY DEF Over
  <2>4. QED
    BY <2>1, <2>2, <2>3 DEF Over
<1>8. KeptEntries' = Over(KeptDirs)'
  BY DEF KeptEntries, Over, EntriesIn
<1>9. Over(KeptDirs)' = Over(U)'
  BY <1>6 DEF Over
<1>10. QED
  BY <1>3, <1>5, <1>6, <1>7, <1>8, <1>9

\* Pointers are kept, but for the ".." of n.
LEMMA WrotePointers ==
  ASSUME TreesSound, NEW U, U = KeptDirs, NEW X, NEW l, NEW n, Wrote(U, X, l, n), NEW d \in U
  PROVE  /\ Named(<<d, 1, 1>>)' = d /\ Pointer(d, 1)' = d
         /\ Pointer(d, 2)' = Pointer(d, 2) \/ (d = n /\ Pointer(d, 2)' = l)
<1>1. <<d, 1, 1>> \in Over(U) /\ <<d, 1, 2>> \in Over(U) /\ Named(<<d, 1, 1>>) = d
  BY KeptStart, KeptOver
<1>2. <<d, 1, 1>> # <<n, 1, 2>> /\ (<<d, 1, 2>> = <<n, 1, 2>> => d = n)
  OBVIOUS
<1>3. Pointer(d, 1)' = Named(<<d, 1, 1>>)' /\ Pointer(d, 2)' = Named(<<d, 1, 2>>)'
  BY DEF Pointer, Named, EntryAt
<1>4. Pointer(d, 2) = Named(<<d, 1, 2>>)
  BY PointerNamed
<1>5. Named(<<d, 1, 1>>)' = d
  BY <1>1, <1>2 DEF Wrote
<1>6. Named(<<d, 1, 2>>)' = Named(<<d, 1, 2>>) \/ (d = n /\ Named(<<d, 1, 2>>)' = l)
  BY <1>1, <1>2 DEF Wrote
<1>7. QED
  BY <1>3, <1>4, <1>5, <1>6

\* A write of add_to_lost_found keeps the trees, if what it attaches had no name.
LEMMA WroteShape ==
  ASSUME DiskTypeOK, DiskTypeOK', ShapeKept, UNCHANGED <<inodes, links, ibitmap>>,
         NEW U, U = KeptDirs, NEW X, NEW l \in TreeDirs, NEW n,
         IsDir(n) => n \in U, n # ROOT_INODE_NUM, Wrote(U, X, l, n), LostFound' = LostFound,
         X # {} => \A x \in KeptEntries : IsName(x) => Named(x) # n
  PROVE  ShapeKept' /\ (OneName => OneName')
<1>1. /\ U \subseteq Inode /\ TreeDirs \subseteq U /\ KeptEntries = Over(U)
      /\ ROOT_INODE_NUM \in U
  BY KeptTrees, KeptOver DEF ShapeKept
<1>2. /\ TreeDirs \subseteq TreeDirs' /\ KeptDirs' = U
      /\ Over(U)' = Over(U) \cup X /\ KeptEntries' = Over(U) \cup X
  BY <1>1, WroteTree DEF ShapeKept
<1>3. \A x \in Over(U) : IsName(x) => Named(x)' = Named(x) /\ (NamesDir(x)' <=> NamesDir(x))
  BY WroteNames
<1>4. \A x \in X : /\ x[1] = l /\ IsName(x) /\ x \notin Over(U)
                   /\ Named(x)' = n /\ (NamesDir(x)' <=> IsDir(n))
  BY DEF Wrote
<1>5. \A x, y \in X : x = y
  BY DEF Wrote
<1>6. \A x \in Over(U) : NamesDir(x)' => IsName(x)
  BY DEF NamesDir
<1>7. \A m : (IsDir(m)' <=> IsDir(m)) /\ (Live(m)' <=> Live(m)) /\ FirstBlock(m)' = FirstBlock(m)
  BY DEF IsDir, Live, get_inode_alloc_bit, FirstBlock
<1>8. \A x \in X : \A y \in Over(U) : IsName(y) => Named(y) # n
  BY <1>1
<1>9. TreesSound'
  <2>1. ASSUME NEW x \in Over(U) \cup X, IsName(x)
        PROVE  /\ NamesDir(x)' <=> IsDir(Named(x)')
               /\ IsDir(Named(x)') => Named(x)' \in U \ {ROOT_INODE_NUM}
    <3>1. CASE x \in Over(U)
      BY <1>1, <1>3, <2>1, <3>1 DEF ShapeKept, TreesSound, TreesThere
    <3>2. CASE x \in X
      BY <1>4, <3>2
    <3>3. QED
      BY <3>1, <3>2
  <2>2. ASSUME NEW x \in Over(U) \cup X, NEW y \in Over(U) \cup X,
               NamesDir(x)', NamesDir(y)', Named(x)' = Named(y)'
        PROVE  x = y
    <3>1. CASE x \in Over(U) /\ y \in Over(U)
      BY <1>1, <1>3, <1>6, <2>2, <3>1 DEF ShapeKept, TreesSound, TreesThere
    <3>2. CASE x \in X /\ y \in X
      BY <1>5, <3>2
    <3>3. CASE x \in X /\ y \in Over(U)
      BY <1>3, <1>4, <1>6, <1>8, <2>2, <3>3
    <3>4. CASE y \in X /\ x \in Over(U)
      BY <1>3, <1>4, <1>6, <1>8, <2>2, <3>4
    <3>5. QED
      BY <3>1, <3>2, <3>3, <3>4
  <2>3. ASSUME NEW d \in U
        PROVE  {<<d, 1, 1>>, <<d, 1, 2>>} \subseteq Over(U) \cup X /\ Pointer(d, 1)' = d
    BY <1>1, WrotePointers, KeptStart DEF ShapeKept
  <2>4. \A m : IsDir(m)' <=> IsDir(m)
    BY <1>7
  <2>5. \A x : IsDir(Named(x))' <=> IsDir(Named(x)')
    BY DEF IsDir
  <2>6. \A x \in KeptEntries' : IsName(x) =>
          /\ NamesDir(x)' <=> IsDir(Named(x))'
          /\ IsDir(Named(x))' => Named(x)' \in KeptDirs' \ {ROOT_INODE_NUM}
    BY <1>2, <2>1, <2>5
  <2>7. \A x, y \in KeptEntries' : NamesDir(x)' /\ NamesDir(y)' /\ Named(x)' = Named(y)' => x = y
    BY <1>2, <2>2
  <2>8. \A d \in KeptDirs' : {<<d, 1, 1>>, <<d, 1, 2>>} \subseteq KeptEntries' /\ SelfOK(d)'
    BY <1>2, <2>3 DEF SelfOK
  <2>9. QED
    BY <2>6, <2>7, <2>8 DEF TreesSound, TreesThere, IsName
<1>10. LostInOrder'
  <2>0. \A d \in U : Pointer(d, 2)' = Pointer(d, 2) \/ Pointer(d, 2)' = l
    <3>1. ASSUME NEW d \in U PROVE Pointer(d, 2)' = Pointer(d, 2) \/ Pointer(d, 2)' = l
      <4>1. TreesSound
        BY DEF ShapeKept
      <4>2. /\ Named(<<d, 1, 1>>)' = d /\ Pointer(d, 1)' = d
            /\ Pointer(d, 2)' = Pointer(d, 2) \/ (d = n /\ Pointer(d, 2)' = l)
        BY <4>1, WrotePointers
      <4>3. QED
        BY <4>2
    <3>2. QED
      BY <3>1
  <2>1. ASSUME NEW x \in Over(U) \cup X, IsName(x), x[1] \notin TreeDirs'
        PROVE  x[1] < Named(x)'
    <3>1. x \in Over(U)
      BY <1>2, <1>4, <2>1
    <3>2. QED
      BY <1>1, <1>2, <1>3, <2>1, <3>1 DEF ShapeKept, LostInOrder
  <2>2. ASSUME NEW d \in U \ TreeDirs', \A x \in Over(U) \cup X : NamesDir(x)' => Named(x)' # d
        PROVE  Pointer(d, 2)' <= d \/ Pointer(d, 2)' \in TreeDirs'
    <3>1. d \in U \ TreeDirs
      BY <1>2
    <3>2. \A x \in Over(U) : NamesDir(x) => Named(x) # d
      BY <1>3, <2>2 DEF NamesDir
    <3>3. Pointer(d, 2) <= d \/ Pointer(d, 2) \in TreeDirs
      BY <1>1, <3>1, <3>2 DEF ShapeKept, LostInOrder
    <3>4. Pointer(d, 2)' = Pointer(d, 2) \/ Pointer(d, 2)' = l
      BY <2>0, <3>1
    <3>5. QED
      BY <1>2, <3>3, <3>4
  <2>3. \A x \in KeptEntries' : IsName(x) /\ x[1] \notin TreeDirs' => x[1] < Named(x)'
    BY <1>2, <2>1
  <2>4. \A d \in KeptDirs' \ TreeDirs' :
          (\A x \in KeptEntries' : NamesDir(x)' => Named(x)' # d) =>
            Pointer(d, 2)' <= d \/ Pointer(d, 2)' \in TreeDirs'
    BY <1>2, <2>2
  <2>5. QED
    BY <2>3, <2>4 DEF LostInOrder, IsName
<1>11. LostFoundSound'
  <2>1. \A c : c \in SubDirs(ROOT_INODE_NUM) => c \in SubDirs(ROOT_INODE_NUM)'
    BY <1>1, WroteSubDirs
  <2>2. QED
    BY <2>1 DEF ShapeKept, LostFoundSound
<1>12. KeptApart'
  BY <1>2, <1>7 DEF ShapeKept, KeptApart
<1>13. OneName => OneName'
  <2>1. SUFFICES ASSUME OneName, NEW x \in Over(U) \cup X, NEW y \in Over(U) \cup X,
                        IsName(x), IsName(y), Named(x)' = Named(y)'
                 PROVE  x = y
    BY <1>2 DEF OneName, IsName
  <2>2. CASE x \in Over(U) /\ y \in Over(U)
    BY <1>1, <1>3, <2>1, <2>2 DEF OneName
  <2>3. CASE x \in X /\ y \in X
    BY <1>5, <2>3
  <2>4. CASE x \in X /\ y \in Over(U)
    BY <1>3, <1>4, <1>8, <2>1, <2>4
  <2>5. CASE y \in X /\ x \in Over(U)
    BY <1>3, <1>4, <1>8, <2>1, <2>5
  <2>6. QED
    BY <2>2, <2>3, <2>4, <2>5
<1>14. QED
  BY <1>9, <1>10, <1>11, <1>12, <1>13 DEF ShapeKept

\* It comes when the walks have ended, and l has been walked into.
WroteAt(U, X, l, n, p, i, R, S, E) ==
  /\ DiskTypeOK /\ DiskTypeOK' /\ TreesSound /\ TreesSound'
  /\ UNCHANGED <<inodes, links, ibitmap>>
  /\ U = KeptDirs /\ Wrote(U, X, l, n)
  /\ p # "p2_walk" /\ WalkedAt(<<>>, p, i, R, S, E)
  /\ l \in E /\ (IsDir(n) => n \in E)

\* A walk that had ended has ended: the entry added is passed.
LEMMA WroteWalked ==
  ASSUME NEW U, NEW X, NEW l, NEW n, NEW p, NEW i, NEW R, NEW S, NEW E,
         WroteAt(U, X, l, n, p, i, R, S, E)
  PROVE  /\ Over(E)' = S \cup X /\ KeptEntries' \ (S \cup X) = Over(U) \ S
         /\ WalkedAt(<<>>, p, i, R, S \cup X, E)'
<1> DEFINE V == S \cup X
<1>0. /\ DiskTypeOK /\ DiskTypeOK' /\ TreesSound /\ TreesSound'
      /\ UNCHANGED <<inodes, links, ibitmap>>
      /\ U = KeptDirs /\ Wrote(U, X, l, n)
      /\ p # "p2_walk" /\ WalkedAt(<<>>, p, i, R, S, E)
      /\ l \in E /\ (IsDir(n) => n \in E)
  BY DEF WroteAt
<1> USE <1>0
<1>1. /\ WalkedOver(U, R, S, E, {}) /\ S = Over(E) /\ E \subseteq U /\ TreeDirs \subseteq E
      /\ ROOT_INODE_NUM \in R
  <2>1. ROOT_INODE_NUM \in R
    BY DEF WalkedAt
  <2>2. QED
    BY <2>1, KnownWhole
<1>2. /\ KeptDirs' = U /\ Over(U)' = Over(U) \cup X /\ KeptEntries' = Over(U) \cup X
      /\ \A x \in X : x \notin Over(U) /\ x[1] = l /\ IsName(x) /\ Named(x)' = n
                      /\ (NamesDir(x)' <=> IsDir(n))
  <2>1. KeptDirs' = U /\ Over(U)' = Over(U) \cup X /\ KeptEntries' = Over(U) \cup X
    <3>1. l \in U /\ (IsDir(n) => n \in U)
      BY <1>1
    <3>2. /\ TreeDirs \subseteq TreeDirs' /\ KeptDirs' = U
          /\ Over(U)' = Over(U) \cup X /\ KeptEntries' = Over(U) \cup X
      BY <3>1, WroteTree
    <3>3. QED
      BY <3>2
  <2>2. QED
    BY <2>1 DEF Wrote
<1>3. \A d \in E : EntriesIn(d)' \subseteq V /\ EntriesIn(d)' = EntriesIn(d) \cup {x \in X : x[1] = d}
  BY <1>1 DEF Wrote, Over
<1>4. Over(E)' = V
  <2>1. Over(E)' = UNION {EntriesIn(d)' : d \in E}
    BY DEF Over
  <2>2. S = UNION {EntriesIn(d) : d \in E}
    BY <1>1 DEF Over
  <2>3. QED
    BY <1>2, <1>3, <2>1, <2>2
<1>5. KeptEntries' \ V = Over(U) \ S
  BY <1>2
<1>6. \A x \in Over(U) : IsName(x) => Named(x)' = Named(x) /\ (NamesDir(x)' <=> NamesDir(x))
  BY WroteNames
<1>7. S \subseteq Over(U) /\ \A x : NamesDir(x) \/ NamesDir(x)' => IsName(x)
  BY <1>1 DEF WalkedOver, NamesDir
<1>8. \A x \in V : NamesDir(x)' => Named(x)' \in E
  BY <1>1, <1>2, <1>6, <1>7 DEF WalkedOver
<1>9. \A d \in E \ R : \E x \in V : NamesDir(x)' /\ Named(x)' = d
  <2>1. \A d \in E \ R : \E x \in S : NamesDir(x) /\ Named(x) = d
    BY <1>1 DEF WalkedOver
  <2>2. QED
    BY <1>6, <1>7, <2>1
<1>10. WalkedOver(U, R, V, E, {})'
  <2>1. E \subseteq U /\ R \subseteq E /\ V \subseteq Over(U)' /\ \A x \in V : x[1] \in E
    BY <1>1, <1>2, <1>7 DEF WalkedOver
  <2>2. QED
    BY <1>3, <1>8, <1>9, <2>1 DEF WalkedOver
<1>11. \A x \in KeptEntries' : NamesDir(x)' /\ Named(x)' \in R => x \in V
  <2>1. \A x \in KeptEntries : NamesDir(x) /\ Named(x) \in R => x \in S
    BY DEF WalkedAt
  <2>2. KeptEntries = Over(U)
    BY KeptOver
  <2>3. QED
    BY <1>2, <1>6, <1>7, <2>1, <2>2
<1>12. TreeDirs' \subseteq E
  <2>1. Whole(E)'
    <3>1. \A d \in E : \A c \in SubDirs(d)' : c \in E
      <4>1. ASSUME NEW d \in E, NEW c \in SubDirs(d)' PROVE c \in E
        <5>1. PICK x \in EntriesIn(d)' : NamesDir(x)' /\ Named(x)' = c
          BY <4>1, SubDirsNamedNext
        <5>2. QED
          BY <1>3, <1>8, <5>1
      <4>2. QED
        BY <4>1
    <3>2. DirInodes' = DirInodes /\ E \subseteq DirInodes
      BY <1>1, KeptTrees DEF DirInodes, IsDir, Whole
    <3>3. QED
      BY <3>1, <3>2 DEF Whole
  <2>2. ROOT_INODE_NUM \in E
    BY <1>1 DEF WalkedOver
  <2>3. Closed(E)'
    BY <2>1, <2>2 DEF Closed, Whole
  <2>4. QED
    BY <2>3, TreeLeastNext
<1>13. Stack(<<>>)' /\ FramesOf(<<>>)' = {}
  BY DEF WalkedAt, Stack, FramesOf, WFrame
<1>14. IsDir(i)' <=> IsDir(i)
  BY DEF IsDir
<1> HIDE DEF V
<1>15. WalkedAt(<<>>, p, i, R, V, E)'
  <2>1. WalkedOver(KeptDirs, R, V, E, FramesOf(<<>>))'
    BY <1>2, <1>10, <1>13
  <2>2. QED
    BY <1>1, <1>2, <1>11, <1>12, <1>13, <1>14, <2>1 DEF WalkedAt
<1>16. QED
  BY <1>4, <1>5, <1>15 DEF V

\* What has been counted is so as before: the entry added names the inode in
\* hand, and lost+found, which the ".." may now name, has been counted.
LEMMA WroteCounted ==
  ASSUME NEW U, NEW X, NEW l, NEW n, NEW r, NEW p, NEW i, NEW R, NEW S, NEW E,
         WroteAt(U, X, l, n, p, i, R, S, E), CountedAt(r, p, i, S, E),
         X # {} => n < i \/ (p = "p2_dotdot" /\ n = i),
         r[l] >= 1 \/ l < i
  PROVE  CountedAt(r, p, i, S \cup X, E)'
<1>0. /\ DiskTypeOK /\ DiskTypeOK' /\ TreesSound /\ TreesSound'
      /\ UNCHANGED <<inodes, links, ibitmap>>
      /\ U = KeptDirs /\ Wrote(U, X, l, n)
      /\ p # "p2_walk" /\ WalkedAt(<<>>, p, i, R, S, E)
      /\ l \in E /\ (IsDir(n) => n \in E)
  BY DEF WroteAt
<1> USE <1>0
<1>1. S = Over(E) /\ E \subseteq U /\ KeptEntries = Over(U) /\ U \subseteq Inode
  BY KnownWhole, KeptTrees, KeptOver
<1>2. Over(E)' = S \cup X /\ KeptEntries' \ (S \cup X) = Over(U) \ S
  <2>2. /\ Over(E)' = S \cup X /\ KeptEntries' \ (S \cup X) = Over(U) \ S
        /\ WalkedAt(<<>>, p, i, R, S \cup X, E)'
    BY WroteWalked, SMTT(20)
  <2>3. QED
    BY <2>2
<1>3. \A x \in Over(U) : Named(x)' = Named(x) \/ (x = <<n, 1, 2>> /\ Named(x)' = l)
  BY DEF Wrote
<1>4. \A x \in S \cup X : r[Named(x)'] >= 1 \/ Named(x)' < i \/ (p = "p2_dotdot" /\ Named(x)' = i)
  <2>1. S \subseteq Over(U)
    BY <1>1 DEF Over
  <2>2. \A x \in S : r[Named(x)'] >= 1 \/ Named(x)' < i \/ (p = "p2_dotdot" /\ Named(x)' = i)
    BY <1>3, <2>1 DEF CountedAt
  <2>3. \A x \in X : Named(x)' = n
    BY DEF Wrote
  <2>4. QED
    BY <2>2, <2>3
<1>5. \A x \in Over(U) \ S : Named(x)' = Named(x)
  <2>1. SUFFICES <<n, 1, 2>> \notin Over(U) \ S
    BY <1>3
  <2>2. SUFFICES ASSUME <<n, 1, 2>> \in Over(U) PROVE <<n, 1, 2>> \in S
    OBVIOUS
  <2>3. <<n, 1, 2>>[1] = n
    OBVIOUS
  <2>4. n \in U /\ <<n, 1, 2>> \in EntriesIn(n)
    BY <2>2, <2>3, OverIs
  <2>5. n \in E
    BY <2>4 DEF KeptDirs
  <2>6. QED
    BY <1>1, <2>4, <2>5 DEF Over
<1>6. \A m : NamedIn(E, m) => NamedIn(E, m)'
  <2>1. \A x \in Over(E) : IsName(x) => x \in Over(E)' /\ Named(x)' = Named(x)
    <3>1. Over(E) \subseteq Over(U)
      BY <1>1 DEF Over
    <3>2. QED
      BY <1>1, <1>2, <3>1, WroteNames
  <2>2. QED
    BY <2>1 DEF NamedIn, IsName
<1>7. \A m : IsDir(m)' <=> IsDir(m)
  BY DEF IsDir
<1>8. \A m \in Inode : r[m] >= 0 /\ r[m] + Cardinality(Naming(KeptEntries \ (S \cup X), m)') <= CharMax
  <2>1. \A m : Naming(KeptEntries \ (S \cup X), m)' = Naming(KeptEntries \ S, m)
    BY <1>1, <1>2, <1>5 DEF Naming
  <2>2. QED
    BY <2>1 DEF CountedAt
<1>9. QED
  BY <1>4, <1>6, <1>7, <1>8 DEF CountedAt

\* What was named is named, and what was closed is.
LEMMA WroteMore ==
  ASSUME NEW U, NEW X, NEW l, NEW n, NEW p, NEW i, NEW R, NEW S, NEW E,
         WroteAt(U, X, l, n, p, i, R, S, E)
  PROVE  /\ \A m : NamedIn(E, m) => NamedIn(E, m)'
         /\ X # {} => NamedIn(E, n)'
         /\ \A Z : Closed(Z)' => Closed(Z \cap U)
         /\ \A m : (Live(m)' <=> Live(m)) /\ (IsDir(m)' <=> IsDir(m))
         /\ E \subseteq U
<1>1. /\ Over(E)' = S \cup X /\ KeptEntries' \ (S \cup X) = Over(U) \ S
      /\ WalkedAt(<<>>, p, i, R, S \cup X, E)'
  BY WroteWalked
<1>2. /\ DiskTypeOK /\ TreesSound /\ UNCHANGED <<inodes, links, ibitmap>>
      /\ U = KeptDirs /\ Wrote(U, X, l, n)
      /\ p # "p2_walk" /\ WalkedAt(<<>>, p, i, R, S, E)
  BY DEF WroteAt
<1> USE <1>2
<1>3. S = Over(E) /\ E \subseteq U /\ Whole(U) /\ ROOT_INODE_NUM \in U
  BY KnownWhole, KeptTrees
<1>4. \A x \in Over(E) : IsName(x) => Named(x)' = Named(x)
  <2>1. Over(E) \subseteq Over(U)
    BY <1>3 DEF Over
  <2>2. QED
    BY <2>1, WroteNames
<1>5. \A m : NamedIn(E, m) => NamedIn(E, m)'
  BY <1>3, <1>1, <1>4 DEF NamedIn, IsName
<1>6. X # {} => NamedIn(E, n)'
  <2>1. \A x \in X : IsName(x) /\ Named(x)' = n
    BY DEF Wrote
  <2>2. QED
    BY <1>1, <2>1 DEF NamedIn, IsName
<1>7. ASSUME NEW Z, Closed(Z)' PROVE Closed(Z \cap U)
  <2>1. ASSUME NEW d \in Z \cap U, NEW c \in SubDirs(d) PROVE c \in Z \cap U
    <3>1. c \in SubDirs(d)'
      BY <2>1, WroteSubDirs
    <3>2. c \in U
      BY <1>3, <2>1 DEF Whole
    <3>3. QED
      BY <1>7, <2>1, <3>1, <3>2 DEF Closed
  <2>2. ROOT_INODE_NUM \in Z
    BY <1>7 DEF Closed
  <2>3. QED
    BY <1>3, <2>1, <2>2 DEF Closed
<1>8. \A m : (Live(m)' <=> Live(m)) /\ (IsDir(m)' <=> IsDir(m))
  BY DEF Live, get_inode_alloc_bit, IsDir
<1>9. QED
  BY <1>3, <1>5, <1>6, <1>7, <1>8

\* Nothing that was reached is lost.
LEMMA WroteReached ==
  ASSUME NEW U, NEW X, NEW l, NEW n, NEW p, NEW i, NEW R, NEW S, NEW E,
         WroteAt(U, X, l, n, p, i, R, S, E), p # "p2_sub",
         NEW all, ReachedAt(all, p, i, E), RoomLeft' => RoomLeft
  PROVE  ReachedAt(all, p, i, E)'
<1>1. /\ \A m : NamedIn(E, m) => NamedIn(E, m)'
      /\ X # {} => NamedIn(E, n)'
      /\ \A Z : Closed(Z)' => Closed(Z \cap U)
      /\ \A m : (Live(m)' <=> Live(m)) /\ (IsDir(m)' <=> IsDir(m))
      /\ E \subseteq U
  BY WroteMore
<1>2. ASSUME all \/ RoomLeft', NEW Z, Closed(Z)' PROVE E \subseteq Z
  <2>1. E \subseteq Z \cap U
    BY <1>1, <1>2 DEF ReachedAt
  <2>2. QED
    BY <2>1
<1>3. ASSUME all \/ RoomLeft', NEW m \in Inode, Live(m)', m < i \/ (p = "p2_dotdot" /\ m = i)
      PROVE  m \in E \/ NamedIn(E, m)'
  BY <1>1, <1>3 DEF ReachedAt
<1>4. QED
  BY <1>2, <1>3 DEF ReachedAt

\* With the entry for the inode in hand, what has been walked from it is
\* reached as well.
LEMMA AttachReached ==
  ASSUME NEW U, NEW X, NEW l, NEW n, NEW p, NEW i, NEW R, NEW S, NEW E,
         WroteAt(U, X, l, n, p, i, R, S, E), l \in SubDirs(ROOT_INODE_NUM),
         NEW all, all => RoomLeft, ReachedAt(all, "p2_sub", n, E),
         RoomLeft' => RoomLeft, RoomLeft => X # {}
  PROVE  ReachedAt(all, "p2_dotdot", n, E)'
<1>1. /\ \A m : NamedIn(E, m) => NamedIn(E, m)'
      /\ X # {} => NamedIn(E, n)'
      /\ \A Z : Closed(Z)' => Closed(Z \cap U)
      /\ \A m : (Live(m)' <=> Live(m)) /\ (IsDir(m)' <=> IsDir(m))
      /\ E \subseteq U
  BY WroteMore
<1>2. ASSUME all \/ RoomLeft', NEW Z, Closed(Z)' PROVE E \subseteq Z
  <2>1. IsDir(n) => n \in Z \cap U
    <3>1. SUFFICES ASSUME IsDir(n) PROVE n \in Z \cap U
      OBVIOUS
    <3>2. UNCHANGED inodes /\ Wrote(U, X, l, n) /\ l \in U /\ n \in U /\ ROOT_INODE_NUM \in U
      <4>1. DiskTypeOK /\ TreesSound
        BY DEF WroteAt
      <4>2. ROOT_INODE_NUM \in KeptDirs
        BY <4>1, KeptTrees
      <4>3. QED
        BY <1>1, <3>1, <4>2 DEF WroteAt
    <3>3. l \in SubDirs(ROOT_INODE_NUM)'
      BY <3>2, WroteSubDirs
    <3>4. n \in SubDirs(l)'
      BY <1>2, <3>1, <3>2, WroteSubDirs
    <3>5. l \in Z
      BY <1>2, <3>3 DEF Closed
    <3>6. n \in Z
      BY <1>2, <3>4, <3>5 DEF Closed
    <3>7. QED
      BY <3>2, <3>6
  <2>2. (all \/ RoomLeft) /\ Closed(Z \cap U)
    BY <1>1, <1>2
  <2>3. E \subseteq Z \cap U
    BY <2>1, <2>2 DEF ReachedAt
  <2>4. QED
    BY <2>3
<1>3. ASSUME all \/ RoomLeft', NEW m \in Inode, Live(m)', m < n \/ m = n
      PROVE  m \in E \/ NamedIn(E, m)'
  BY <1>1, <1>3 DEF ReachedAt
<1>4. QED
  BY <1>2, <1>3 DEF ReachedAt

-----------------------------------------------------------------------------
(* The first write is such a write. *)

\* What is seen of a block with the new entry.
LEMMA NewEntrySeen ==
  ASSUME NEW block \in Seq(Entry), NEW e \in Entry, e.ino # 0
  PROVE  LET w == write_new_entry(block, e)
         IN  /\ Hole(block) => Visible(w) = Visible(block) /\ Hole(w)
             /\ ~Hole(block) =>
                  /\ Visible(w) = Visible(block) \cup {Len(block) + 1}
                  /\ Len(block) + 1 \notin Visible(block) /\ w[Len(block) + 1] = e
                  /\ Visible(block) = 1 .. Len(block)
<1> DEFINE z == [ino |-> 0, typ |-> "reg", nm |-> "other"]
           c == Cardinality(Visible(block))
           w == write_new_entry(block, e)
<1>1. z \in Entry
  BY SizesAssumption DEF Entry
<1>2. Len(block) \in Nat /\ DOMAIN block = 1 .. Len(block)
  BY LenProperties
<1>3. c \in 0 .. Len(block) /\ Visible(block) = 1 .. c
  BY VisibleOK, VisibleIs
<1>4. \A p \in 1 .. c : block[p].ino # 0
  BY <1>3 DEF Visible
<1>5. ASSUME ~Hole(block)
      PROVE  /\ Visible(w) = Visible(block) \cup {Len(block) + 1}
             /\ Len(block) + 1 \notin Visible(block) /\ w[Len(block) + 1] = e
             /\ Visible(block) = 1 .. Len(block)
  <2>1. w = Append(block, e) /\ Visible(block) = DOMAIN block
    BY <1>5 DEF write_new_entry, Hole
  <2>2. c = Len(block) /\ Visible(block) = 1 .. Len(block)
    BY <1>2, <1>3, <2>1
  <2> HIDE DEF c
  <2>3. /\ w \in Seq(Entry) /\ Len(w) = Len(block) + 1
        /\ w[Len(block) + 1] = e /\ \A p \in 1 .. Len(block) : w[p] = block[p]
    BY <1>2, <2>1, AppendProperties
  <2>4. DOMAIN w = 1 .. Len(block) + 1
    BY <2>3, LenProperties
  <2> HIDE DEF w
  <2>5. \A q \in 1 .. Len(block) + 1 : w[q].ino # 0
    BY <1>2, <1>4, <2>2, <2>3
  <2>6. Visible(w) = 1 .. Len(block) + 1
    BY <1>2, <2>4, <2>5 DEF Visible
  <2>7. 1 .. Len(block) + 1 = (1 .. Len(block)) \cup {Len(block) + 1}
    BY <1>2
  <2>8. Len(block) + 1 \notin 1 .. Len(block)
    BY <1>2
  <2>9. QED
    BY <2>2, <2>3, <2>6, <2>7, <2>8
<1>6. ASSUME Hole(block)
      PROVE  Visible(w) = Visible(block) /\ Hole(w)
  <2> DEFINE s == SubSeq(block, 1, c)
             t == <<z, e>>
  <2>1. w = s \o t
    BY <1>6 DEF write_new_entry
  <2>2. s \in Seq(Entry) /\ Len(s) = c /\ \A p \in 1 .. c : s[p] = block[p]
    BY <1>2, <1>3, SubSeqProperties
  <2>3. t \in Seq(Entry) /\ Len(t) = 2 /\ t[1] = z
    BY <1>1
  <2>4. z.ino = 0
    OBVIOUS
  <2> HIDE DEF s, t, c, z
  <2>5. /\ s \o t \in Seq(Entry) /\ Len(s \o t) = Len(s) + Len(t)
        /\ \A p \in 1 .. Len(s) + Len(t) :
              (s \o t)[p] = IF p <= Len(s) THEN s[p] ELSE t[p - Len(s)]
    BY <2>2, <2>3, ConcatProperties
  <2> HIDE DEF w
  <2>6. /\ w \in Seq(Entry) /\ Len(w) = c + 2 /\ w[c + 1].ino = 0
        /\ \A p \in 1 .. c : w[p] = block[p]
    BY <1>3, <2>1, <2>2, <2>3, <2>4, <2>5
  <2>7. DOMAIN w = 1 .. c + 2
    BY <2>6, LenProperties
  <2>8. Visible(w) = 1 .. c
    <3>1. \A p \in 1 .. c : p \in Visible(w)
      BY <1>3, <1>4, <2>6, <2>7 DEF Visible
    <3>2. ASSUME NEW p \in Visible(w) PROVE p \in 1 .. c
      <4>1. p \in 1 .. c + 2 /\ \A q \in 1 .. p : w[q].ino # 0
        BY <2>7, <3>2 DEF Visible
      <4>2. QED
        BY <1>3, <2>6, <4>1
    <3>3. QED
      BY <3>1, <3>2
  <2>9. w # <<>> /\ Visible(w) # DOMAIN w
    BY <1>3, <2>6, <2>7, <2>8
  <2>10. QED
    BY <1>3, <2>8, <2>9 DEF Hole
<1> HIDE DEF w
<1>7. QED
  BY <1>5, <1>6 DEF w

\* EntriesInIs after a step.
LEMMA EntriesInNext ==
  (\A d, x : x \in EntriesIn(d) <=>
     /\ IsDir(d) /\ x = <<d, x[2], x[3]>>
     /\ x[2] \in DOMAIN inodes[d].blks
     /\ x[3] \in Visible(data[inodes[d].blks[x[2]]]))'
<1>1. \A d, x : x \in EntriesIn(d) <=>
        /\ IsDir(d) /\ x = <<d, x[2], x[3]>>
        /\ x[2] \in DOMAIN inodes[d].blks
        /\ x[3] \in Visible(data[inodes[d].blks[x[2]]])
  BY EntriesInIs
<1>2. QED
  BY <1>1, PTL

\* The entries of a directory, block by block, after a step that changes no
\* inode; and the name lost+found is found as before.
LEMMA EntriesAfter ==
  ASSUME UNCHANGED inodes, NEW d, IsDir(d), NEW x
  PROVE  x \in EntriesIn(d)' <=>
           /\ x = <<d, x[2], x[3]>>
           /\ x[2] \in DOMAIN inodes[d].blks
           /\ x[3] \in Visible(data'[inodes[d].blks[x[2]]])
<1>1. x \in EntriesIn(d)' <=>
           /\ IsDir(d)' /\ x = <<d, x[2], x[3]>>
           /\ x[2] \in DOMAIN inodes'[d].blks
           /\ x[3] \in Visible(data[inodes[d].blks[x[2]]])'
  BY EntriesInNext
<1>2. IsDir(d)' /\ Visible(data[inodes[d].blks[x[2]]])' = Visible(data'[inodes[d].blks[x[2]]])
  BY DEF IsDir, Visible
<1>3. QED
  BY <1>1, <1>2

\* Lost+found is found where it was, if the first block of the root is not written.
LEMMA LostFoundKept ==
  ASSUME UNCHANGED inodes, data'[inodes[ROOT_INODE_NUM].blks[1]] = data[inodes[ROOT_INODE_NUM].blks[1]]
  PROVE  LostFound' = LostFound
BY DEF LostFound, search_dir_entry, Visible

\* What pass 2 knows of lost+found when it has found one.
LEMMA LostFoundKnown ==
  ASSUME DiskTypeOK, TreesSound, LostFoundSound, NEW l, l = LostFound, l # 0
  PROVE  /\ l \in SubDirs(ROOT_INODE_NUM) /\ l \in TreeDirs /\ l \in KeptDirs /\ IsDir(l)
         /\ l # ROOT_INODE_NUM /\ l \in Inode
         /\ \E x \in TreeEntries : IsName(x) /\ Named(x) = l
<1>1. l \in SubDirs(ROOT_INODE_NUM)
  BY DEF LostFoundSound
<1>2. ROOT_INODE_NUM \in TreeDirs /\ l \in TreeDirs
  BY <1>1, TreeClosed DEF Closed
<1>3. TreeDirs \subseteq KeptDirs /\ KeptDirs \subseteq Inode /\ TreeEntries \subseteq KeptEntries
      /\ \A x \in KeptEntries : NamesDir(x) => Named(x) \in KeptDirs \ {ROOT_INODE_NUM}
  BY KeptTrees
<1>4. PICK x \in EntriesIn(ROOT_INODE_NUM) : NamesDir(x) /\ Named(x) = l /\ IsDir(l)
  BY <1>1, SubDirsNamed
<1>5. x \in TreeEntries
  BY <1>2, <1>4, TreeOver DEF Over
<1>6. QED
  BY <1>1, <1>2, <1>3, <1>4, <1>5 DEF NamesDir

\* A write that changes no entry that is seen, but for the inode number of the
\* second of n, which becomes l.
LEMMA SeenWrote ==
  ASSUME UNCHANGED inodes, NEW U, NEW l, NEW n, \A d \in U : IsDir(d),
         \A d \in U : \A k \in DOMAIN inodes[d].blks :
           LET b == inodes[d].blks[k]
           IN  /\ Visible(data'[b]) = Visible(data[b])
               /\ \A p \in Visible(data[b]) :
                    /\ data'[b][p].typ = data[b][p].typ
                    /\ data'[b][p].ino = data[b][p].ino
                       \/ (d = n /\ k = 1 /\ p = 2 /\ data'[b][p].ino = l)
  PROVE  Wrote(U, {}, l, n)
<1>1. ASSUME NEW d \in U PROVE EntriesIn(d)' = EntriesIn(d)
  <2>1. ASSUME NEW x PROVE x \in EntriesIn(d)' <=> x \in EntriesIn(d)
    <3>1. x \in EntriesIn(d) <=>
            /\ IsDir(d) /\ x = <<d, x[2], x[3]>>
            /\ x[2] \in DOMAIN inodes[d].blks
            /\ x[3] \in Visible(data[inodes[d].blks[x[2]]])
      BY EntriesInIs
    <3>2. x \in EntriesIn(d)' <=>
            /\ x = <<d, x[2], x[3]>>
            /\ x[2] \in DOMAIN inodes[d].blks
            /\ x[3] \in Visible(data'[inodes[d].blks[x[2]]])
      BY <1>1, EntriesAfter
    <3>3. x[2] \in DOMAIN inodes[d].blks =>
            Visible(data'[inodes[d].blks[x[2]]]) = Visible(data[inodes[d].blks[x[2]]])
      BY <1>1
    <3>4. QED
      BY <1>1, <3>1, <3>2, <3>3
  <2>2. QED
    BY <2>1
<1>2. ASSUME NEW x \in Over(U)
      PROVE  /\ NamesDir(x)' <=> NamesDir(x)
             /\ Named(x)' = Named(x) \/ (x = <<n, 1, 2>> /\ Named(x)' = l)
  <2>1. x[1] \in U /\ x \in EntriesIn(x[1])
    BY OverIs
  <2> DEFINE b == inodes[x[1]].blks[x[2]]
  <2>2. /\ x = <<x[1], x[2], x[3]>> /\ x[2] \in DOMAIN inodes[x[1]].blks
        /\ x[3] \in Visible(data[b])
    BY <2>1, EntriesInIs
  <2>3. /\ data'[b][x[3]].typ = data[b][x[3]].typ
        /\ data'[b][x[3]].ino = data[b][x[3]].ino
           \/ (x[1] = n /\ x[2] = 1 /\ x[3] = 2 /\ data'[b][x[3]].ino = l)
    BY <2>1, <2>2
  <2>4. /\ Named(x) = data[b][x[3]].ino /\ Named(x)' = data'[b][x[3]].ino
        /\ (NamesDir(x) <=> IsName(x) /\ data[b][x[3]].typ = "dir")
        /\ (NamesDir(x)' <=> IsName(x) /\ data'[b][x[3]].typ = "dir")
    BY DEF Named, NamesDir, EntryAt, IsName
  <2> HIDE DEF b
  <2>5. QED
    BY <2>2, <2>3, <2>4
<1>3. QED
  BY <1>1, <1>2 DEF Wrote

\* If no block of lost+found comes to have room, or loses an unused entry, there is
\* no more room than there was.
LEMMA RoomLess ==
  ASSUME UNCHANGED inodes, NEW l, l = LostFound, LostFound' = l, l # 0,
         \A j \in DOMAIN inodes[l].blks :
           LET c == inodes[l].blks[j]
           IN  (Hole(data'[c]) <=> Hole(data[c])) /\ (Fits(data'[c]) <=> Fits(data[c])),
         RoomLeft'
  PROVE  RoomLeft
<1>1. \A j : (Hole(data[inodes[l].blks[j]])' <=> Hole(data'[inodes[l].blks[j]]))
              /\ (Fits(data[inodes[l].blks[j]])' <=> Fits(data'[inodes[l].blks[j]]))
  BY DEF Hole, Fits, Visible
<1>2. \A j : HasBlock(l, j)' <=> HasBlock(l, j)
  BY DEF HasBlock
<1>3. RoomIn(l)' = RoomIn(l)
  <2>1. RoomIn(l)' = {k \in DOMAIN inodes[l].blks :
                        /\ \A j \in 1 .. k : HasBlock(l, j)'
                        /\ Fits(data[inodes[l].blks[k]])'}
    BY DEF RoomIn
  <2>2. QED
    BY <1>1, <1>2, <2>1 DEF RoomIn
<1>4. \E k \in RoomIn(l)' : (\A m \in RoomIn(l)' : k <= m) /\ ~Hole(data[inodes[l].blks[k]])'
  <2>1. RoomIn(LostFound)' = RoomIn(l)'
    BY DEF RoomIn
  <2>2. QED
    BY <2>1 DEF RoomLeft
<1>5. \E k \in RoomIn(l) : (\A m \in RoomIn(l) : k <= m) /\ ~Hole(data[inodes[l].blks[k]])
  BY <1>1, <1>3, <1>4 DEF RoomIn
<1>6. QED
  BY <1>5 DEF RoomLeft

\* The first write adds the entry, or one that no scan reaches, or none: the
\* first, if there was room; and there is room after it only if there was.
LEMMA AttachWrote ==
  ASSUME P2Inv, TreesSound, LostFoundSound, KeptApart, P2Attach, NEW l, l = LostFound,
         NEW n, n = i2
  PROVE  /\ \E X : /\ Wrote(KeptDirs, X, l, n)
                    /\ (RoomLeft' => RoomLeft) /\ (RoomLeft => X # {})
         /\ LostFound' = l
<1>1. /\ DiskTypeOK /\ n \in Inode /\ l # 0 /\ lf' = l
      /\ UNCHANGED <<inodes, links, ibitmap>>
  BY DEF P2Inv, P2Attach
<1>2. l \in KeptDirs /\ IsDir(l) /\ l # ROOT_INODE_NUM /\ l \in Inode
  BY <1>1, LostFoundKnown
<1>3. /\ KeptDirs \subseteq Inode /\ ROOT_INODE_NUM \in KeptDirs
      /\ \A d \in KeptDirs : IsDir(d) /\ d \in Inode
      /\ \A d \in KeptDirs : \A k \in DOMAIN inodes[d].blks : inodes[d].blks[k] \in Block
  <2>1. KeptDirs \subseteq Inode /\ ROOT_INODE_NUM \in KeptDirs
    BY <1>1, KeptTrees
  <2>2. \A d \in KeptDirs : IsDir(d)
    BY DEF KeptDirs
  <2>3. QED
    BY <1>1, <2>1, <2>2, BlockOK DEF IsDir
<1>4. data \in [Block -> Seq(Entry)]
  BY <1>1 DEF DiskTypeOK, IsImage
<1>5. ASSUME NEW d \in KeptDirs
      PROVE  1 \in DOMAIN inodes[d].blks /\ {1, 2} \subseteq Visible(data[inodes[d].blks[1]])
  <2>1. <<d, 1, 1>> \in EntriesIn(d) /\ <<d, 1, 2>> \in EntriesIn(d)
    BY <1>5, KeptStart
  <2>2. /\ <<d, 1, 1>>[2] = 1 /\ <<d, 1, 1>>[3] = 1
        /\ <<d, 1, 2>>[2] = 1 /\ <<d, 1, 2>>[3] = 2
    OBVIOUS
  <2>3. QED
    BY <2>1, <2>2, EntriesInIs
<1>6. CASE RoomIn(l) = {} /\ UNCHANGED data
  <2>1. Wrote(KeptDirs, {}, l, n)
    <3>1. PICK U : U = KeptDirs
      OBVIOUS
    <3>2. \A d \in U : IsDir(d)
      BY <1>3, <3>1
    <3>3. Wrote(U, {}, l, n)
      BY <1>1, <1>6, <3>2, SeenWrote
    <3>4. QED
      BY <3>1, <3>3
  <2>2. RoomLeft' = RoomLeft /\ LostFound' = LostFound
    BY <1>1, <1>6, StillKept
  <2>3. ~RoomLeft
    BY <1>1, <1>6 DEF RoomLeft
  <2>4. QED
    BY <2>1, <2>2, <2>3
<1>7. CASE \E k \in RoomIn(l) :
             /\ \A j \in RoomIn(l) : k <= j
             /\ data' = [data EXCEPT ![inodes[l].blks[k]] = write_new_entry(@, create_new_entry(n))]
  <2>1. PICK k \in RoomIn(l) :
             /\ \A j \in RoomIn(l) : k <= j
             /\ data' = [data EXCEPT ![inodes[l].blks[k]] = write_new_entry(@, create_new_entry(n))]
    BY <1>7
  <2> DEFINE b == inodes[l].blks[k]
             e == create_new_entry(n)
             w == write_new_entry(data[b], e)
             m == Len(data[b]) + 1
  <2>2. k \in DOMAIN inodes[l].blks
    BY DEF RoomIn
  <2>3. b \in Block /\ data[b] \in Seq(Entry)
    BY <1>2, <1>3, <1>4, <2>2
  <2>4. e \in Entry /\ e.ino = n /\ e.ino # 0 /\ (e.typ = "dir" <=> IsDir(n))
    BY <1>1, SizesAssumption DEF create_new_entry, Entry, Inode, IsDir
  <2> HIDE DEF e
  <2>5. data'[b] = w /\ \A c \in Block : c # b => data'[c] = data[c]
    BY <1>4, <2>1, <2>3 DEF e
  <2>6. \A d \in KeptDirs : \A j \in DOMAIN inodes[d].blks :
          inodes[d].blks[j] = b => d = l /\ j = k
    BY <1>2, <2>2 DEF KeptApart
  <2>7. /\ \A p \in Visible(data[b]) : p \in Visible(w) /\ w[p] = data[b][p]
        /\ Hole(data[b]) => Visible(w) = Visible(data[b]) /\ Hole(w)
        /\ ~Hole(data[b]) =>
             /\ Visible(w) = Visible(data[b]) \cup {m}
             /\ m \notin Visible(data[b]) /\ w[m] = e
             /\ Visible(data[b]) = 1 .. Len(data[b])
    BY <2>3, <2>4, NewEntryKeeps, NewEntrySeen
  <2>8. k \in Nat \ {0} /\ Len(data[b]) \in Nat
    <3>1. inodes[l].blks \in Seq(Block)
      BY <1>1, <1>2 DEF DiskTypeOK, IsImage, IsDir
    <3>2. QED
      BY <2>2, <2>3, <3>1, LenProperties
  <2> HIDE DEF b, w, m
  <2>9. LostFound' = l
    <3>1. inodes[ROOT_INODE_NUM].blks[1] # b /\ inodes[ROOT_INODE_NUM].blks[1] \in Block
      BY <1>2, <1>3, <1>5, <2>6
    <3>2. QED
      BY <1>1, <2>5, <3>1, LostFoundKept
  <2>10. ASSUME NEW d \in KeptDirs, NEW j \in DOMAIN inodes[d].blks,
                ~(d = l /\ j = k)
         PROVE  data'[inodes[d].blks[j]] = data[inodes[d].blks[j]]
    BY <1>3, <2>5, <2>6, <2>10
  <2>11. CASE Hole(data[b])
    <3>1. PICK U : U = KeptDirs
      OBVIOUS
    <3>2. \A d \in U : \A j \in DOMAIN inodes[d].blks :
            LET c == inodes[d].blks[j]
            IN  /\ Visible(data'[c]) = Visible(data[c])
                /\ \A p \in Visible(data[c]) :
                     /\ data'[c][p].typ = data[c][p].typ
                     /\ data'[c][p].ino = data[c][p].ino
                        \/ (d = n /\ j = 1 /\ p = 2 /\ data'[c][p].ino = l)
      <4>1. ASSUME NEW d \in U, NEW j \in DOMAIN inodes[d].blks
            PROVE  LET c == inodes[d].blks[j]
                   IN  /\ Visible(data'[c]) = Visible(data[c])
                       /\ \A p \in Visible(data[c]) : data'[c][p] = data[c][p]
        <5>1. CASE d = l /\ j = k
          BY <2>5, <2>7, <2>11, <5>1 DEF b
        <5>2. CASE ~(d = l /\ j = k)
          BY <2>10, <3>1, <4>1, <5>2
        <5>3. QED
          BY <5>1, <5>2
      <4>2. QED
        BY <4>1
    <3>3. Wrote(U, {}, l, n)
      <4>1. \A d \in U : IsDir(d)
        BY <1>3, <3>1
      <4>2. QED
        BY <1>1, <3>2, <4>1, SeenWrote, SMTT(20)
    <3>4. ~RoomLeft
      <4>1. SUFFICES ASSUME NEW j \in RoomIn(l), \A q \in RoomIn(l) : j <= q PROVE j = k
        BY <1>1, <2>11 DEF RoomLeft, b
      <4>2. j <= k /\ k <= j /\ j \in DOMAIN inodes[l].blks
        BY <2>1, <4>1 DEF RoomIn
      <4>3. j \in Nat
        BY <1>1, <1>2, <4>2, LenProperties DEF DiskTypeOK, IsImage, IsDir
      <4>4. QED
        BY <2>8, <4>2, <4>3
    <3>5. RoomLeft' => RoomLeft
      <4>1. SUFFICES ASSUME RoomLeft' PROVE RoomLeft
        OBVIOUS
      <4>2. ASSUME NEW j \in DOMAIN inodes[l].blks, NEW c, c = inodes[l].blks[j]
            PROVE  (Hole(data'[c]) <=> Hole(data[c])) /\ (Fits(data'[c]) <=> Fits(data[c]))
        <5>1. CASE j = k
          <6>1. c = b /\ Visible(data'[c]) = Visible(data[c]) /\ Hole(data'[c]) /\ Hole(data[c])
            BY <2>5, <2>7, <2>11, <4>2, <5>1 DEF b
          <6>2. QED
            BY <6>1 DEF Fits
        <5>2. CASE j # k
          BY <1>2, <2>10, <4>2, <5>2
        <5>3. QED
          BY <5>1, <5>2
      <4>3. QED
        BY <1>1, <1>2, <2>9, <4>1, <4>2, RoomLess
    <3>6. QED
      BY <2>9, <3>1, <3>3, <3>4, <3>5
  <2>12. CASE ~Hole(data[b])
    <3>0. PICK x0 : x0 = <<l, k, m>>
      OBVIOUS
    <3> DEFINE X == {x0}
    <3>1. x0[1] = l /\ x0[2] = k /\ x0[3] = m
      BY <3>0
    <3>2. x0 \in EntriesIn(l)' /\ x0 \notin EntriesIn(l)
      <4>1. inodes[x0[1]].blks[x0[2]] = b
        BY <3>1 DEF b
      <4>2. m \in Visible(data'[b]) /\ m \notin Visible(data[b])
        BY <2>5, <2>7, <2>12
      <4>3. x0 = <<l, x0[2], x0[3]>>
        BY <3>0, <3>1
      <4>4. x0 \in EntriesIn(l)'
        BY <1>1, <1>2, <2>2, <3>1, <4>1, <4>2, <4>3, EntriesAfter
      <4>5. x0 \notin EntriesIn(l)
        BY <3>1, <4>1, <4>2, EntriesInIs
      <4>6. QED
        BY <4>4, <4>5
    <3>3. ASSUME NEW d \in KeptDirs, NEW x
          PROVE  x \in EntriesIn(d)' <=> x \in EntriesIn(d) \/ (d = l /\ x = x0)
      <4>1. x \in EntriesIn(d)' <=>
              /\ x = <<d, x[2], x[3]>>
              /\ x[2] \in DOMAIN inodes[d].blks
              /\ x[3] \in Visible(data'[inodes[d].blks[x[2]]])
        BY <1>1, <1>3, EntriesAfter
      <4>2. x \in EntriesIn(d) <=>
              /\ IsDir(d) /\ x = <<d, x[2], x[3]>>
              /\ x[2] \in DOMAIN inodes[d].blks
              /\ x[3] \in Visible(data[inodes[d].blks[x[2]]])
        BY EntriesInIs
      <4>3. CASE ~(d = l /\ x[2] = k)
        <5>1. x[2] \in DOMAIN inodes[d].blks =>
                data'[inodes[d].blks[x[2]]] = data[inodes[d].blks[x[2]]]
          BY <2>10, <4>3
        <5>2. QED
          BY <1>3, <3>1, <4>1, <4>2, <4>3, <5>1
      <4>4. CASE d = l /\ x[2] = k
        <5>1. Visible(data'[inodes[d].blks[x[2]]]) = Visible(data[inodes[d].blks[x[2]]]) \cup {m}
          BY <2>5, <2>7, <2>12, <4>4 DEF b
        <5>2. x = <<d, x[2], x[3]>> /\ x[3] = m => x = x0
          BY <3>0, <4>4
        <5>3. QED
          BY <1>3, <2>2, <3>1, <3>2, <4>1, <4>2, <4>4, <5>1, <5>2
      <4>5. QED
        BY <4>3, <4>4
    <3>4. \A d \in KeptDirs : EntriesIn(d)' = EntriesIn(d) \cup {x \in X : x[1] = d}
      BY <3>1, <3>3
    <3>5. IsName(x0) /\ x0 \notin Over(KeptDirs) /\ Named(x0)' = n /\ (NamesDir(x0)' <=> IsDir(n))
      <4>1. IsName(x0)
        <5>1. k = 1 => m > 2
          <6>1. SUFFICES ASSUME k = 1 PROVE m > 2
            OBVIOUS
          <6>2. 2 \in 1 .. Len(data[b])
            BY <1>2, <1>5, <2>7, <2>12, <6>1 DEF b
          <6>3. QED
            BY <2>8, <6>2 DEF m
        <5>2. QED
          BY <2>8, <3>1, <5>1 DEF IsName
      <4>2. x0 \notin Over(KeptDirs)
        BY <3>1, <3>2, OverIs
      <4>3. data'[b][m] = e
        BY <2>5, <2>7, <2>12
      <4>4. EntryAt(x0[1], <<x0[2], x0[3]>>)' = e
        BY <1>1, <3>1, <4>3 DEF EntryAt, b
      <4>5. Named(x0)' = e.ino /\ (NamesDir(x0)' <=> IsName(x0) /\ e.typ = "dir")
        BY <4>4 DEF Named, NamesDir, IsName
      <4>6. QED
        BY <2>4, <4>1, <4>2, <4>5
    <3>6. ASSUME NEW x \in Over(KeptDirs)
          PROVE  Named(x)' = Named(x) /\ (NamesDir(x)' <=> NamesDir(x))
      <4> DEFINE c == inodes[x[1]].blks[x[2]]
      <4>1. /\ x[1] \in KeptDirs /\ x[2] \in DOMAIN inodes[x[1]].blks
            /\ x[3] \in Visible(data[c])
        BY OverIs, EntriesInIs
      <4>2. data'[c][x[3]] = data[c][x[3]]
        <5>1. CASE x[1] = l /\ x[2] = k
          BY <2>5, <2>7, <4>1, <5>1 DEF b
        <5>2. CASE ~(x[1] = l /\ x[2] = k)
          BY <2>10, <4>1, <5>2
        <5>3. QED
          BY <5>1, <5>2
      <4>3. EntryAt(x[1], <<x[2], x[3]>>)' = EntryAt(x[1], <<x[2], x[3]>>)
        BY <1>1, <4>2 DEF EntryAt
      <4>4. QED
        BY <4>3 DEF Named, NamesDir, IsName
    <3>7. Wrote(KeptDirs, X, l, n)
      <4>1. \A x, y \in X : x = y
        OBVIOUS
      <4>2. \A x \in X : x = x0
        OBVIOUS
      <4> HIDE DEF X
      <4>3. \A x \in X : /\ x[1] = l /\ IsName(x) /\ x \notin Over(KeptDirs)
                         /\ Named(x)' = n /\ (NamesDir(x)' <=> IsDir(n))
        BY <3>1, <3>5, <4>2
      <4>4. QED
        BY <3>4, <3>6, <4>1, <4>3 DEF Wrote
    <3>8. RoomLeft
      BY <1>1, <2>1, <2>12 DEF RoomLeft, b
    <3>9. X # {}
      OBVIOUS
    <3> HIDE DEF X
    <3>10. QED
      BY <2>9, <3>7, <3>8, <3>9
  <2>13. QED
    BY <2>11, <2>12
<1>8. QED
  BY <1>1, <1>6, <1>7 DEF P2Attach

-----------------------------------------------------------------------------
(* The second write is such a write. *)

\* The second entry of a block is seen as before, its number apart.
LEMMA ParentSeen ==
  ASSUME NEW block \in Seq(Entry), 2 \in Visible(block), NEW l \in Inode
  PROVE  LET w == [block EXCEPT ![2].ino = l]
         IN  /\ Visible(w) = Visible(block)
             /\ \A p \in Visible(block) :
                  /\ w[p].typ = block[p].typ
                  /\ w[p].ino = block[p].ino \/ (p = 2 /\ w[p].ino = l)
<1> DEFINE w == [block EXCEPT ![2].ino = l]
<1>1. DOMAIN w = DOMAIN block /\ Visible(block) \subseteq DOMAIN block
  BY DEF Visible
<1>2. \A p \in DOMAIN block : p # 2 => w[p] = block[p]
  OBVIOUS
<1>3. block[2] \in Entry /\ block[2].ino # 0 /\ l # 0
  <2>1. 2 \in DOMAIN block /\ 2 \in 1 .. 2 /\ \A q \in 1 .. 2 : block[q].ino # 0
    BY DEF Visible
  <2>2. block[2] \in Entry
    BY <2>1, LenProperties, ElementOfSeq
  <2>3. QED
    BY <2>1, <2>2, SizesAssumption DEF Inode
<1>4. w[2].ino = l /\ w[2].typ = block[2].typ
  <2>1. 2 \in DOMAIN block
    BY <1>1
  <2>2. QED
    BY <1>3, <2>1 DEF Entry
<1> HIDE DEF w
<1>5. \A p \in DOMAIN block : (w[p].ino # 0 <=> block[p].ino # 0)
  BY <1>2, <1>3, <1>4
<1>6. Visible(w) = Visible(block)
  <2>1. \A p \in DOMAIN block : 1 .. p \subseteq DOMAIN block
    BY LenProperties
  <2>2. QED
    BY <1>1, <1>5, <2>1 DEF Visible
<1>7. \A p \in Visible(block) :
        /\ w[p].typ = block[p].typ
        /\ w[p].ino = block[p].ino \/ (p = 2 /\ w[p].ino = l)
  BY <1>1, <1>2, <1>4
<1>8. QED
  BY <1>6, <1>7 DEF w

\* The second write makes the ".." of the inode, if it has one, name lost+found.
LEMMA SetParentWrote ==
  ASSUME P2Inv, TreesSound, LostFoundSound, KeptApart, P2SetParent, NEW l, l = lf, l = LostFound,
         l # 0, NEW n, n = i2, n # l, n # ROOT_INODE_NUM, Live(n)
  PROVE  /\ Wrote(KeptDirs, {}, l, n) /\ (RoomLeft' => RoomLeft) /\ LostFound' = l
         /\ IsDir(n) => Pointer(n, 2)' = l
<1> DEFINE b == FirstBlock(n)
<1>1. /\ DiskTypeOK /\ n \in Inode /\ b \in Block /\ l \in Inode
      /\ UNCHANGED <<inodes, links, ibitmap>>
  BY DEF P2Inv, P2SetParent
<1>2. l \in KeptDirs /\ IsDir(l) /\ l # ROOT_INODE_NUM
  BY <1>1, LostFoundKnown
<1>3. /\ KeptDirs \subseteq Inode /\ ROOT_INODE_NUM \in KeptDirs
      /\ \A d \in KeptDirs : IsDir(d) /\ d \in Inode
      /\ \A d \in KeptDirs : \A k \in DOMAIN inodes[d].blks : inodes[d].blks[k] \in Block
  <2>1. KeptDirs \subseteq Inode /\ ROOT_INODE_NUM \in KeptDirs
    BY <1>1, KeptTrees
  <2>2. \A d \in KeptDirs : IsDir(d)
    BY DEF KeptDirs
  <2>3. QED
    BY <1>1, <2>1, <2>2, BlockOK DEF IsDir
<1>4. data \in [Block -> Seq(Entry)]
  BY <1>1 DEF DiskTypeOK, IsImage
<1>5. ASSUME NEW d \in KeptDirs
      PROVE  1 \in DOMAIN inodes[d].blks /\ 2 \in Visible(data[inodes[d].blks[1]])
  <2>1. <<d, 1, 2>> \in EntriesIn(d)
    BY <1>5, KeptStart
  <2>2. <<d, 1, 2>>[2] = 1 /\ <<d, 1, 2>>[3] = 2
    OBVIOUS
  <2>3. QED
    BY <2>1, <2>2, EntriesInIs
<1>6. IsDir(n) => /\ n \in KeptDirs /\ b = inodes[n].blks[1] /\ 1 \in DOMAIN inodes[n].blks
                  /\ 2 \in Visible(data[b])
  <2>1. SUFFICES ASSUME IsDir(n)
        PROVE  /\ n \in KeptDirs /\ b = inodes[n].blks[1] /\ 1 \in DOMAIN inodes[n].blks
               /\ 2 \in Visible(data[b])
    OBVIOUS
  <2>2. n \in KeptDirs
    BY <1>1, <2>1 DEF KeptDirs
  <2>3. 1 \in DOMAIN inodes[n].blks /\ 2 \in Visible(data[inodes[n].blks[1]])
    BY <1>5, <2>2
  <2>4. inodes[n].blks # <<>>
    BY <2>3
  <2>5. QED
    BY <2>2, <2>3, <2>4 DEF FirstBlock
<1>7. ASSUME NEW d \in KeptDirs, NEW k \in DOMAIN inodes[d].blks, inodes[d].blks[k] = b
      PROVE  IsDir(n) /\ d = n /\ k = 1
  <2>1. IsDir(n)
    BY <1>1, <1>7 DEF KeptApart
  <2>2. QED
    BY <1>6, <1>7, <2>1 DEF KeptApart
<1>8. /\ \A c \in Block : c # b => data'[c] = data[c]
      /\ data'[b] = data[b] \/ data'[b] = [data[b] EXCEPT ![2].ino = l]
      /\ Len(data[b]) >= 2 => data'[b] = [data[b] EXCEPT ![2].ino = l]
  <2>1. CASE Len(data[b]) >= 2
    <3>1. data' = [data EXCEPT ![b][2].ino = l]
      BY <2>1 DEF P2SetParent
    <3> HIDE DEF b
    <3>2. data'[b] = [data[b] EXCEPT ![2].ino = l] /\ \A c \in Block : c # b => data'[c] = data[c]
      BY <1>1, <1>4, <3>1
    <3>3. QED
      BY <3>2
  <2>2. CASE ~(Len(data[b]) >= 2)
    BY <2>2 DEF P2SetParent
  <2>3. QED
    BY <2>1, <2>2
<1> HIDE DEF b
<1>9. data[b] \in Seq(Entry)
  BY <1>1, <1>4
<1>10. ASSUME NEW d \in KeptDirs, NEW k \in DOMAIN inodes[d].blks, ~(IsDir(n) /\ d = n /\ k = 1)
       PROVE  data'[inodes[d].blks[k]] = data[inodes[d].blks[k]]
  BY <1>3, <1>7, <1>8, <1>10
<1>11. Wrote(KeptDirs, {}, l, n)
  <2>1. PICK U : U = KeptDirs
    OBVIOUS
  <2>2. \A d \in U : \A k \in DOMAIN inodes[d].blks :
          LET c == inodes[d].blks[k]
          IN  /\ Visible(data'[c]) = Visible(data[c])
              /\ \A p \in Visible(data[c]) :
                   /\ data'[c][p].typ = data[c][p].typ
                   /\ data'[c][p].ino = data[c][p].ino
                      \/ (d = n /\ k = 1 /\ p = 2 /\ data'[c][p].ino = l)
    <3>1. ASSUME NEW d \in U, NEW k \in DOMAIN inodes[d].blks, NEW c, c = inodes[d].blks[k]
          PROVE  /\ Visible(data'[c]) = Visible(data[c])
                 /\ \A p \in Visible(data[c]) :
                      /\ data'[c][p].typ = data[c][p].typ
                      /\ data'[c][p].ino = data[c][p].ino
                         \/ (d = n /\ k = 1 /\ p = 2 /\ data'[c][p].ino = l)
      <4>1. CASE data'[c] = data[c]
        BY <4>1
      <4>2. CASE data'[c] # data[c]
        <5>1. IsDir(n) /\ d = n /\ k = 1
          BY <1>10, <2>1, <3>1, <4>2
        <5>2. c = b /\ 2 \in Visible(data[b])
          BY <1>6, <3>1, <5>1
        <5>3. data'[b] = [data[b] EXCEPT ![2].ino = l]
          BY <1>8, <4>2, <5>2
        <5>4. /\ Visible(data'[b]) = Visible(data[b])
              /\ \A p \in Visible(data[b]) :
                   /\ data'[b][p].typ = data[b][p].typ
                   /\ data'[b][p].ino = data[b][p].ino \/ (p = 2 /\ data'[b][p].ino = l)
          BY <1>1, <1>9, <5>2, <5>3, ParentSeen
        <5>5. QED
          BY <5>1, <5>2, <5>4
      <4>3. QED
        BY <4>1, <4>2
    <3>2. QED
      BY <3>1
  <2>3. \A d \in U : IsDir(d)
    BY <1>3, <2>1
  <2>4. Wrote(U, {}, l, n)
    BY <1>1, <2>2, <2>3, SeenWrote, SMTT(20)
  <2>5. QED
    BY <2>1, <2>4
<1>12. LostFound' = l
  <2>1. data'[inodes[ROOT_INODE_NUM].blks[1]] = data[inodes[ROOT_INODE_NUM].blks[1]]
    BY <1>3, <1>5, <1>10
  <2>2. QED
    BY <1>1, <2>1, LostFoundKept
<1>13. RoomLeft' => RoomLeft
  <2>1. SUFFICES ASSUME RoomLeft' PROVE RoomLeft
    OBVIOUS
  <2>2. \A k \in DOMAIN inodes[l].blks : data'[inodes[l].blks[k]] = data[inodes[l].blks[k]]
    BY <1>2, <1>10
  <2>3. QED
    BY <1>1, <1>12, <2>1, <2>2, RoomLess
<1>14. IsDir(n) => Pointer(n, 2)' = l
  <2>1. SUFFICES ASSUME IsDir(n) PROVE Pointer(n, 2)' = l
    OBVIOUS
  <2>2. 2 \in 1 .. Len(data[b])
    BY <1>6, <1>9, <2>1, LenProperties DEF Visible
  <2>3. data'[b] = [data[b] EXCEPT ![2].ino = l] /\ data[b][2] \in Entry /\ 2 \in DOMAIN data[b]
    BY <1>8, <1>9, <2>2, LenProperties, ElementOfSeq
  <2>4. data'[b][2].ino = l
    BY <2>3 DEF Entry
  <2>5. QED
    BY <1>1, <1>6, <2>1, <2>4 DEF Pointer
<1>15. QED
  BY <1>11, <1>12, <1>13, <1>14

-----------------------------------------------------------------------------
(* The invariant is kept: by the two writes, *)

\* The first write of add_to_lost_found keeps the invariant of the scan.
LEMMA AttachScan ==
  ASSUME P2Inv, P2Inv', ShapeKept, P2Attach, NEW l, l = LostFound, NEW n, n = i2, NEW r,
         NEW all, all => RoomLeft,
         NEW m, UpsAt("p2_sub", n, m), ScanAt(<<>>, "p2_sub", n, m), KnownAt(all, <<>>, r, "p2_sub", n)
  PROVE  /\ ShapeKept' /\ (OneName => OneName') /\ UpsAt("p2_dotdot", n, l)'
         /\ ScanAt(<<>>, "p2_dotdot", n, l)' /\ KnownAt(all, <<>>, r, "p2_dotdot", n)'
<1>1. /\ DiskTypeOK /\ DiskTypeOK' /\ n \in Inode /\ l # 0
      /\ UNCHANGED <<inodes, links, ibitmap>>
      /\ TreesSound /\ LostFoundSound /\ KeptApart
  BY DEF P2Inv, P2Attach, ShapeKept
<1>2. PICK U : U = KeptDirs
  OBVIOUS
<1>3. PICK X : Wrote(U, X, l, n) /\ (RoomLeft' => RoomLeft) /\ (RoomLeft => X # {})
  <2>1. \E X : /\ Wrote(KeptDirs, X, l, n)
               /\ (RoomLeft' => RoomLeft) /\ (RoomLeft => X # {})
    BY <1>1, AttachWrote
  <2>2. QED
    BY <1>2, <2>1
<1>4. LostFound' = LostFound
  BY <1>1, AttachWrote
<1>5. /\ l \in SubDirs(ROOT_INODE_NUM) /\ l \in TreeDirs /\ l \in U /\ IsDir(l)
      /\ \E x \in TreeEntries : IsName(x) /\ Named(x) = l
  BY <1>1, <1>2, LostFoundKnown
<1>6. /\ Live(n) /\ n # ROOT_INODE_NUM /\ \A x \in KeptEntries : IsName(x) => Named(x) # n
      /\ IsDir(n) => n \in U
  BY <1>1, <1>2 DEF ScanAt, KeptDirs
<1>7. /\ U \subseteq Inode /\ ROOT_INODE_NUM \in U /\ TreeEntries \subseteq KeptEntries
      /\ KeptEntries = Over(U) /\ Whole(U)
  BY <1>1, <1>2, KeptTrees, KeptOver
<1>8. ShapeKept' /\ (OneName => OneName')
  BY <1>1, <1>2, <1>3, <1>4, <1>5, <1>6, WroteShape
<1>9. /\ TreeDirs \subseteq TreeDirs' /\ KeptDirs' = U
      /\ Over(U)' = Over(U) \cup X /\ KeptEntries' = Over(U) \cup X
  BY <1>1, <1>2, <1>3, <1>5, <1>6, WroteTree
<1>10. l # n
  BY <1>5, <1>6, <1>7
<1>11. ASSUME NEW d \in U
       PROVE  /\ Named(<<d, 1, 1>>)' = d /\ Pointer(d, 1)' = d
              /\ Pointer(d, 2)' = Pointer(d, 2) \/ (d = n /\ Pointer(d, 2)' = l)
  BY <1>1, <1>2, <1>3, <1>11, WrotePointers
<1>12. UpsAt("p2_dotdot", n, l)'
  <2>1. Pointer(ROOT_INODE_NUM, 2)' = ROOT_INODE_NUM
    BY <1>6, <1>7, <1>11 DEF UpsAt
  <2>2. ASSUME NEW d \in U, NEW c \in SubDirs(d)'
        PROVE  Pointer(c, 2)' = d \/ (c = n /\ d = l)
    <3>1. CASE c \in SubDirs(d)
      <4>1. PICK x \in EntriesIn(d) : NamesDir(x) /\ Named(x) = c
        BY <3>1, SubDirsNamed
      <4>2. x \in KeptEntries /\ IsName(x)
        BY <1>7, <2>2, <4>1 DEF Over, NamesDir
      <4>3. c # n /\ c \in U
        BY <1>6, <1>7, <2>2, <3>1, <4>1, <4>2 DEF Whole
      <4>4. Pointer(c, 2) = d
        BY <1>2, <3>1 DEF UpsAt
      <4>5. QED
        BY <1>11, <4>3, <4>4
    <3>2. CASE c \notin SubDirs(d)
      <4>1. c \in SubDirs(d)' <=> c \in SubDirs(d) \/ (X # {} /\ d = l /\ c = n /\ IsDir(n))
        BY <1>1, <1>3, WroteSubDirs
      <4>2. QED
        BY <2>2, <3>2, <4>1
    <3>3. QED
      BY <3>1, <3>2
  <2>3. QED
    BY <1>9, <2>1, <2>2 DEF UpsAt
<1>13. ScanAt(<<>>, "p2_dotdot", n, l)'
  <2>1. ASSUME NEW x \in Over(U) \cup X, IsName(x), Named(x)' = n
        PROVE  x[1] = l
    <3>1. CASE x \in Over(U)
      <4>1. Named(x)' = Named(x) /\ (NamesDir(x)' <=> NamesDir(x))
        BY <1>3, <2>1, <3>1, WroteNames
      <4>2. QED
        BY <1>6, <1>7, <2>1, <3>1, <4>1
    <3>2. CASE x \in X
      BY <1>3, <3>2 DEF Wrote
    <3>3. QED
      BY <3>1, <3>2
  <2>2. Live(n)'
    BY <1>1, <1>6 DEF Live, get_inode_alloc_bit
  <2>3. QED
    BY <1>1, <1>4, <1>6, <1>9, <1>10, <2>1, <2>2 DEF ScanAt, IsName
<1>14. KnownAt(all, <<>>, r, "p2_dotdot", n)'
  <2>1. PICK R, S, E : WalkedAt(<<>>, "p2_sub", n, R, S, E) /\ CountedAt(r, "p2_sub", n, S, E)
                       /\ ReachedAt(all, "p2_sub", n, E)
    BY DEF KnownAt
  <2>2. TreeDirs \subseteq E /\ TreeEntries \subseteq S
    BY <1>1, <2>1, KnownWhole
  <2>3. WalkedAt(<<>>, "p2_dotdot", n, R, S, E)
    BY <2>1 DEF WalkedAt
  <2>4. CountedAt(r, "p2_dotdot", n, S, E)
    BY <2>1 DEF CountedAt
  <2>5. WroteAt(U, X, l, n, "p2_dotdot", n, R, S, E)
    <3>1. IsDir(n) => n \in E
      BY <2>1 DEF WalkedAt
    <3>2. TreesSound'
      BY <1>8 DEF ShapeKept
    <3>3. QED
      BY <1>1, <1>2, <1>3, <1>5, <2>2, <2>3, <3>1, <3>2 DEF WroteAt
  <2>6. r[l] >= 1 \/ l < n
    BY <1>5, <2>1, <2>2 DEF CountedAt
  <2>7. WalkedAt(<<>>, "p2_dotdot", n, R, S \cup X, E)'
    <3>1. /\ Over(E)' = S \cup X /\ KeptEntries' \ (S \cup X) = Over(U) \ S
          /\ WalkedAt(<<>>, "p2_dotdot", n, R, S \cup X, E)'
      BY <2>5, WroteWalked
    <3>2. QED
      BY <3>1
  <2>8. CountedAt(r, "p2_dotdot", n, S \cup X, E)'
    BY <2>4, <2>5, <2>6, WroteCounted
  <2>9. ReachedAt(all, "p2_dotdot", n, E)'
    BY <1>3, <1>5, <2>1, <2>5, AttachReached
  <2>10. PICK V : V = S \cup X
    OBVIOUS
  <2>11. WalkedAt(<<>>, "p2_dotdot", n, R, V, E)' /\ CountedAt(r, "p2_dotdot", n, V, E)'
    BY <2>7, <2>8, <2>10
  <2>12. QED
    BY <2>9, <2>11 DEF KnownAt
<1>15. QED
  BY <1>8, <1>12, <1>13, <1>14

\* The second write of add_to_lost_found keeps the invariant of the scan.
LEMMA SetParentScan ==
  ASSUME P2Inv, P2Inv', ShapeKept, P2SetParent, NEW l, l = lf, NEW n, n = i2, NEW r,
         UpsAt("p2_dotdot", n, l), ScanAt(<<>>, "p2_dotdot", n, l),
         NEW all, KnownAt(all, <<>>, r, "p2_dotdot", n)
  PROVE  /\ ShapeKept' /\ (OneName => OneName') /\ UpsAt("p2_scan", n + 1, l)'
         /\ ScanAt(<<>>, "p2_scan", n + 1, l)' /\ KnownAt(all, <<>>, r, "p2_scan", n + 1)'
<1>1. /\ DiskTypeOK /\ DiskTypeOK' /\ n \in Inode
      /\ UNCHANGED <<inodes, links, ibitmap>>
      /\ TreesSound /\ LostFoundSound /\ KeptApart
  BY DEF P2Inv, P2SetParent, ShapeKept
<1>2. PICK U : U = KeptDirs
  OBVIOUS
<1>3. l = LostFound /\ l # 0 /\ n # l /\ n # ROOT_INODE_NUM /\ Live(n)
  BY DEF ScanAt
<1>4. /\ Wrote(U, {}, l, n) /\ (RoomLeft' => RoomLeft) /\ LostFound' = l
      /\ IsDir(n) => Pointer(n, 2)' = l
  <2>1. /\ Wrote(KeptDirs, {}, l, n) /\ (RoomLeft' => RoomLeft) /\ LostFound' = l
        /\ IsDir(n) => Pointer(n, 2)' = l
    BY <1>1, <1>3, SetParentWrote
  <2>2. QED
    BY <1>2, <2>1
<1>5. /\ l \in SubDirs(ROOT_INODE_NUM) /\ l \in TreeDirs /\ l \in U /\ IsDir(l)
      /\ \E x \in TreeEntries : IsName(x) /\ Named(x) = l
  BY <1>1, <1>2, <1>3, LostFoundKnown
<1>6. IsDir(n) => n \in U
  BY <1>1, <1>2, <1>3 DEF KeptDirs
<1>7. /\ U \subseteq Inode /\ ROOT_INODE_NUM \in U /\ TreeEntries \subseteq KeptEntries
      /\ KeptEntries = Over(U) /\ Whole(U)
  BY <1>1, <1>2, KeptTrees, KeptOver
<1>8. ShapeKept' /\ (OneName => OneName')
  <2>1. {} # {} => \A x \in KeptEntries : IsName(x) => Named(x) # n
    OBVIOUS
  <2>2. LostFound' = LostFound
    BY <1>3, <1>4
  <2>3. QED
    BY <1>1, <1>2, <1>3, <1>4, <1>5, <1>6, <2>1, <2>2, WroteShape
<1>9. KeptDirs' = U
  <2>1. /\ TreeDirs \subseteq TreeDirs' /\ KeptDirs' = U
        /\ Over(U)' = Over(U) \cup {} /\ KeptEntries' = Over(U) \cup {}
    BY <1>1, <1>2, <1>4, <1>5, <1>6, WroteTree
  <2>2. QED
    BY <2>1
<1>10. ASSUME NEW d \in U
       PROVE  /\ Named(<<d, 1, 1>>)' = d /\ Pointer(d, 1)' = d
              /\ Pointer(d, 2)' = Pointer(d, 2) \/ (d = n /\ Pointer(d, 2)' = l)
  BY <1>1, <1>2, <1>4, <1>10, WrotePointers
<1>11. UpsAt("p2_scan", n + 1, l)'
  <2>1. Pointer(ROOT_INODE_NUM, 2)' = ROOT_INODE_NUM
    BY <1>3, <1>7, <1>10 DEF UpsAt
  <2>2. ASSUME NEW d \in U, NEW c \in SubDirs(d)'
        PROVE  Pointer(c, 2)' = d
    <3>1. c \in SubDirs(d)
      <4>1. c \in SubDirs(d)' <=> c \in SubDirs(d) \/ ({} # {} /\ d = l /\ c = n /\ IsDir(n))
        BY <1>1, <1>4, WroteSubDirs
      <4>2. QED
        BY <2>2, <4>1
    <3>2. PICK x \in EntriesIn(d) : NamesDir(x) /\ Named(x) = c /\ IsDir(c)
      BY <3>1, SubDirsNamed
    <3>3. x \in KeptEntries /\ IsName(x) /\ x[1] = d
      BY <1>7, <2>2, <3>2, EntryOwner DEF Over, NamesDir
    <3>4. c \in U
      BY <1>7, <2>2, <3>1 DEF Whole
    <3>5. CASE c = n
      <4>1. d = l
        BY <1>3, <3>2, <3>3, <3>5 DEF ScanAt
      <4>2. QED
        BY <1>4, <3>2, <3>5, <4>1
    <3>6. CASE c # n
      <4>1. Pointer(c, 2) = d
        BY <1>2, <3>1, <3>6 DEF UpsAt
      <4>2. QED
        BY <1>10, <3>4, <3>6, <4>1
    <3>7. QED
      BY <3>5, <3>6
  <2>3. QED
    BY <1>9, <2>1, <2>2 DEF UpsAt
<1>12. ScanAt(<<>>, "p2_scan", n + 1, l)'
  BY DEF ScanAt
<1>13. KnownAt(all, <<>>, r, "p2_scan", n + 1)'
  <2>1. PICK R, S, E : WalkedAt(<<>>, "p2_dotdot", n, R, S, E)
                       /\ CountedAt(r, "p2_dotdot", n, S, E) /\ ReachedAt(all, "p2_dotdot", n, E)
    BY DEF KnownAt
  <2>2. /\ TreeDirs \subseteq E /\ TreeEntries \subseteq S /\ S = Over(E) /\ E \subseteq U
        /\ R \subseteq E
    BY <1>1, <1>2, <2>1, KnownWhole DEF WalkedOver
  <2>3. n \in Nat /\ \A m \in Inode : m \in Nat /\ (m < n => m < n + 1) /\ (m = n => m < n + 1)
                                      /\ (m < n + 1 => m < n \/ m = n)
    BY <1>1, SizesAssumption DEF Inode
  <2>4. IsDir(n) => n \in E
    BY <2>1 DEF WalkedAt
  <2>5. WalkedAt(<<>>, "p2_scan", n + 1, R, S, E)
    <3>1. \A d \in R : d = ROOT_INODE_NUM \/ d < n + 1
      BY <1>7, <2>1, <2>2, <2>3 DEF WalkedAt
    <3>2. \A d \in KeptDirs : d < n + 1 => d \in E
      BY <1>2, <1>7, <2>1, <2>3, <2>4 DEF WalkedAt, KeptDirs
    <3>3. QED
      BY <2>1, <3>1, <3>2 DEF WalkedAt
  <2>6. CountedAt(r, "p2_scan", n + 1, S, E)
    <3>1. \A x \in S : Named(x) \in Inode
      BY <1>1, <1>7, <2>2, EntryNamed DEF Over
    <3>2. QED
      BY <2>1, <2>3, <3>1 DEF CountedAt
  <2>7. ReachedAt(all, "p2_scan", n + 1, E)
    BY <2>1, <2>3 DEF ReachedAt
  <2>8. WroteAt(U, {}, l, n, "p2_scan", n + 1, R, S, E)
    <3>1. TreesSound'
      BY <1>8 DEF ShapeKept
    <3>2. QED
      BY <1>1, <1>2, <1>4, <1>5, <2>2, <2>4, <2>5, <3>1 DEF WroteAt
  <2>9. r[l] >= 1 \/ l < n + 1
    <3>1. r[l] >= 1 \/ l < n
      BY <1>3, <1>5, <2>1, <2>2 DEF CountedAt
    <3>2. l \in Inode
      BY <1>5, <1>7
    <3>3. QED
      BY <2>3, <3>1, <3>2
  <2>10. WalkedAt(<<>>, "p2_scan", n + 1, R, S, E)'
    <3>1. /\ Over(E)' = S \cup {} /\ KeptEntries' \ (S \cup {}) = Over(U) \ S
          /\ WalkedAt(<<>>, "p2_scan", n + 1, R, S \cup {}, E)'
      BY <2>8, WroteWalked
    <3>2. PICK V : V = S \cup {}
      OBVIOUS
    <3>3. V = S
      BY <3>2
    <3>4. WalkedAt(<<>>, "p2_scan", n + 1, R, V, E)'
      BY <3>1, <3>2
    <3>5. QED
      BY <3>3, <3>4
  <2>11. CountedAt(r, "p2_scan", n + 1, S, E)'
    <3>1. CountedAt(r, "p2_scan", n + 1, S \cup {}, E)'
      BY <2>6, <2>8, <2>9, WroteCounted
    <3>2. S \cup {} = S
      OBVIOUS
    <3>3. QED
      BY <3>1, <3>2
  <2>12. ReachedAt(all, "p2_scan", n + 1, E)'
    BY <1>4, <2>7, <2>8, WroteReached
  <2>13. QED
    BY <2>10, <2>11, <2>12 DEF KnownAt
<1>14. QED
  BY <1>8, <1>11, <1>12, <1>13

\* A second write that is not to this partition ends with the inode in hand, which
\* is no directory.
LEMMA OutsideKnown ==
  ASSUME DiskTypeOK, ShapeKept, NEW n \in Inode, NEW l, NEW r, UpsAt("p2_dotdot", n, l),
         ScanAt(<<>>, "p2_dotdot", n, l), FirstBlock(n) \notin Block,
         NEW all, KnownAt(all, <<>>, r, "p2_dotdot", n)
  PROVE  UpsAt("p2_scan", n + 1, l) /\ KnownAt(all, <<>>, r, "p2_scan", n + 1)
<1>1. TreesSound /\ KeptDirs \subseteq Inode
  BY KeptTrees DEF ShapeKept
<1>2. ~IsDir(n)
  <2>1. SUFFICES ASSUME IsDir(n) PROVE FALSE
    OBVIOUS
  <2>2. n \in KeptDirs
    BY <2>1 DEF ScanAt, KeptDirs
  <2>3. <<n, 1, 1>> \in EntriesIn(n) /\ <<n, 1, 1>>[2] = 1
    BY <1>1, <2>2, KeptStart
  <2>4. 1 \in DOMAIN inodes[n].blks
    BY <2>3, EntriesInIs
  <2>5. inodes[n].blks # <<>> /\ inodes[n].blks[1] \in Block
    BY <2>1, <2>4, BlockOK DEF IsDir
  <2>6. QED
    BY <2>5 DEF FirstBlock
<1>3. UpsAt("p2_scan", n + 1, l)
  <2>1. \A d, c : c \in SubDirs(d) => IsDir(c)
    BY SubDirsNamed
  <2>2. QED
    BY <1>2, <2>1 DEF UpsAt
<1>4. PICK R, S, E : WalkedAt(<<>>, "p2_dotdot", n, R, S, E)
                     /\ CountedAt(r, "p2_dotdot", n, S, E) /\ ReachedAt(all, "p2_dotdot", n, E)
  BY DEF KnownAt
<1>5. /\ TreeDirs \subseteq E /\ S = Over(E) /\ E \subseteq KeptDirs /\ R \subseteq E
  BY <1>1, <1>4, KnownWhole DEF WalkedOver
<1>6. n \in Nat /\ \A m \in Inode : m \in Nat /\ (m < n => m < n + 1) /\ (m = n => m < n + 1)
                                    /\ (m < n + 1 => m < n \/ m = n)
  BY SizesAssumption DEF Inode
<1>7. WalkedAt(<<>>, "p2_scan", n + 1, R, S, E)
  <2>1. \A d \in R : d = ROOT_INODE_NUM \/ d < n + 1
    BY <1>1, <1>4, <1>5, <1>6 DEF WalkedAt
  <2>2. \A d \in KeptDirs : d < n + 1 => d \in E
    BY <1>1, <1>2, <1>4, <1>6 DEF WalkedAt, KeptDirs
  <2>3. QED
    BY <1>4, <2>1, <2>2 DEF WalkedAt
<1>8. CountedAt(r, "p2_scan", n + 1, S, E)
  <2>1. \A x \in S : Named(x) \in Inode
    BY <1>1, <1>5, EntryNamed DEF Over
  <2>2. QED
    BY <1>4, <1>6, <2>1 DEF CountedAt
<1>9. ReachedAt(all, "p2_scan", n + 1, E)
  BY <1>4, <1>6 DEF ReachedAt
<1>10. QED
  BY <1>3, <1>7, <1>8, <1>9 DEF KnownAt

\* and by the steps that leave the disk alone.
LEMMA StillInv ==
  ASSUME UNCHANGED <<inodes, data, links, ibitmap>>, P2Inv', ShapeKept,
         pc' # "exit" => UpsAt(pc', i2', lf') /\ ScanAt(stack2', pc', i2', lf'),
         NEW all, pc' \notin {"pass2", "exit"} => KnownAt(all, stack2', refs', pc', i2')
  PROVE  ScanPart(all)' /\ (OneName => OneName')
<1>1. PICK st, r, p, i, l : st = stack2' /\ r = refs' /\ p = pc' /\ i = i2' /\ l = lf'
  OBVIOUS
<1>2. ShapeKept'
  BY StillShape
<1>3. p # "exit" => UpsAt(p, i, l)' /\ ScanAt(st, p, i, l)'
  <2>1. SUFFICES ASSUME p # "exit" PROVE UpsAt(p, i, l)' /\ ScanAt(st, p, i, l)'
    OBVIOUS
  <2>2. UpsAt(p, i, l) /\ ScanAt(st, p, i, l)
    BY <1>1, <2>1
  <2>3. UpsAt(p, i, l)'
    <3>1. (ShapeKept => ShapeKept') /\ (UpsAt(p, i, l) => UpsAt(p, i, l)')
      BY StillShape
    <3>2. QED
      BY <2>2, <3>1
  <2>4. ScanAt(st, p, i, l)'
    BY <2>2, StillScan
  <2>5. QED
    BY <2>3, <2>4
<1>4. p \notin {"pass2", "exit"} => KnownAt(all, st, r, p, i)'
  <2>1. SUFFICES ASSUME p \notin {"pass2", "exit"} PROVE KnownAt(all, st, r, p, i)'
    OBVIOUS
  <2>2. KnownAt(all, st, r, p, i)
    BY <1>1, <2>1
  <2>3. QED
    BY <2>2, StillKnown
<1>5. ScanPart(all)'
  <2>1. UpsAt(pc, i2, lf)' <=> UpsAt(p, i, l)'
    BY <1>1 DEF UpsAt
  <2>2. ScanAt(stack2, pc, i2, lf)' <=> ScanAt(st, p, i, l)'
    BY <1>1 DEF ScanAt
  <2>3. KnownAt(all, stack2, refs, pc, i2)' <=> KnownAt(all, st, r, p, i)'
    BY <1>1 DEF KnownAt, WalkedAt, CountedAt, ReachedAt
  <2>4. QED
    BY <1>1, <1>2, <1>3, <1>4, <2>1, <2>2, <2>3 DEF ScanPart
<1>6. OneName => OneName'
  BY StillKept DEF OneName, IsName
<1>7. QED
  BY <1>5, <1>6

\* The invariant of the scan holds before pass 2.
LEMMA ScanInvInit ==
  ASSUME P2Init, P2Sound, NEW all
  PROVE  ScanPart(all)
<1>1. P2Inv
  BY P2InvInit
<1>2. pc = "pass2" /\ i2 = 1
  BY DEF P2Init
<1>3. ShapeKept /\ UpsAt(pc, i2, lf) /\ KeptFit
  BY DEF P2Sound, ShapeKept, UpsSound, UpsAt
<1>4. ScanAt(stack2, pc, i2, lf)
  BY <1>2, <1>3 DEF ScanAt
<1>5. QED
  BY <1>1, <1>2, <1>3, <1>4 DEF ScanPart

\* All steps that write nothing keep the invariant of the scan.
LEMMA StillStep ==
  ASSUME NEW all, ScanPart(all), P2Inv',
         P2Start \/ P2Traverse \/ P2Walked \/ P2Skip \/ P2Orphan \/ P2NoLostFound \/ P2Exit
           \/ P2SetOutside \/ P2Done \/ UNCHANGED p2vars,
         all /\ pc = "p2_sub" => RoomLeft
  PROVE  ScanPart(all)' /\ (OneName => OneName')
<1>1. UNCHANGED <<inodes, data, links, ibitmap>>
  BY DEF P2Start, P2Traverse, TrNext, P2Walked, P2Skip, P2Orphan, P2NoLostFound, P2Exit,
         P2SetOutside, P2Done,
         p2vars, disk
<1>2. CASE pc = "exit"
  <2>1. UNCHANGED p2vars
    BY <1>2 DEF P2Start, P2Traverse, P2Walked, P2Skip, P2Orphan, P2NoLostFound, P2Exit,
                P2SetOutside, P2Done
  <2>2. pc' = "exit" /\ (OneName => OneName')
    BY <1>1, <1>2, <2>1, StillKept DEF p2vars, OneName, IsName
  <2>3. QED
    BY <2>2 DEF ScanPart
<1>3. CASE pc # "exit"
  <2>1. /\ DiskTypeOK /\ WalkOK /\ ShapeKept /\ TreesSound /\ LostInOrder
        /\ UpsAt(pc, i2, lf) /\ ScanAt(stack2, pc, i2, lf)
        /\ pc # "pass2" => KnownAt(all, stack2, refs, pc, i2)
        /\ i2 \in 1 .. NInodes + 1 /\ (pc \in {"p2_sub", "p2_dotdot"} => i2 \in Inode)
        /\ \A m \in 1 .. NInodes : m \in Inode
    BY <1>3 DEF ScanPart, ShapeKept, P2Inv, Inode
  <2>2. pc' # "exit" /\ ~(pc = "p2_dotdot" /\ pc' = "p2_scan") => UpsAt(pc', i2', lf')
    <3>1. SUFFICES ASSUME pc' # "exit", ~(pc = "p2_dotdot" /\ pc' = "p2_scan")
                   PROVE  UpsAt(pc', i2', lf')
      OBVIOUS
    <3>2. \/ pc' # "p2_dotdot" /\ pc # "p2_dotdot"
          \/ pc' = pc /\ i2' = i2 /\ lf' = lf
      BY <3>1 DEF P2Start, P2Traverse, TrNext, P2Walked, P2Skip, P2Orphan, P2NoLostFound, P2Exit,
                  P2SetOutside, P2Done, p2vars
    <3>3. QED
      BY <2>1, <3>2 DEF UpsAt
  <2>3. CASE P2Start
    <3>1. pc = "pass2" /\ pc' = "p2_walk" /\ refs' = NoRefs /\ i2' = 1
          /\ stack2' = <<Call2(ROOT_INODE_NUM)>>
      BY <2>3 DEF P2Start
    <3>2. KnownAt(all, stack2', refs', pc', i2')
      <4>1. KeptFit
        BY <2>1, <3>1 DEF ScanAt
      <4>2. QED
        BY <2>1, <3>1, <4>1, StartKnown
    <3>3. ScanAt(stack2', pc', i2', lf')
      BY <3>1 DEF ScanAt
    <3>4. UpsAt(pc', i2', lf')
      BY <2>2, <3>1
    <3>5. QED
      BY <1>1, <2>1, <3>4, <3>2, <3>3, StillInv
  <2>4. CASE P2Traverse
    <3>1. pc \in {"p2_walk", "p2_sub"} /\ pc' = pc /\ i2' = i2 /\ lf' = lf /\ TrNext
      BY <2>4 DEF P2Traverse, TrNext
    <3>2. KnownAt(all, stack2', refs', pc', i2')
      <4>1. PICK p, i, l : p = pc /\ i = i2 /\ l = lf
        OBVIOUS
      <4>2. p = "p2_walk" => i = 1
        BY <2>1, <4>1 DEF ScanAt
      <4>3. i \in Inode
        BY <2>1, <3>1, <4>1, <4>2, SizesAssumption DEF Inode, ROOT_INODE_NUM
      <4>4. KnownAt(all, stack2', refs', p, i)
        BY <2>1, <3>1, <4>1, <4>2, <4>3, TraverseKnown
      <4>5. QED
        BY <3>1, <4>1, <4>4
    <3>3. ScanAt(stack2', pc', i2', lf')
      BY <2>1, <3>1 DEF ScanAt
    <3>4. UpsAt(pc', i2', lf')
      BY <2>2, <3>1
    <3>5. QED
      BY <1>1, <2>1, <3>4, <3>2, <3>3, StillInv
  <2>5. CASE P2Walked
    <3>1. /\ pc = "p2_walk" /\ stack2 = <<>> /\ pc' = "p2_scan"
          /\ UNCHANGED <<refs, stack2, i2, lf>>
      BY <2>5 DEF P2Walked
    <3>2. KnownAt(all, stack2', refs', pc', i2')
      <4>1. KnownAt(all, <<>>, refs, "p2_walk", i2)
        BY <2>1, <3>1
      <4>2. KnownAt(all, <<>>, refs, "p2_scan", i2)
        BY <2>1, <4>1, WalkedKnown
      <4>3. QED
        BY <3>1, <4>2
    <3>3. ScanAt(stack2', pc', i2', lf')
      BY <3>1 DEF ScanAt
    <3>4. UpsAt(pc', i2', lf')
      BY <2>2, <3>1
    <3>5. QED
      BY <1>1, <2>1, <3>4, <3>2, <3>3, StillInv
  <2>6. CASE P2Skip
    <3>1. /\ pc = "p2_scan" /\ pc' = pc /\ i2' = i2 + 1 /\ UNCHANGED <<refs, stack2, lf>>
          /\ stack2 = <<>> /\ i2 \in Inode
      BY <2>1, <2>6, SizesAssumption DEF P2Skip, ScanAt, Inode
    <3>2. Live(i2) => refs[i2] # 0
      BY <2>6 DEF P2Skip, Unreferenced
    <3>3. KnownAt(all, stack2', refs', pc', i2')
      <4>1. KnownAt(all, <<>>, refs, "p2_scan", i2)
        BY <2>1, <3>1
      <4>2. KnownAt(all, <<>>, refs, "p2_scan", i2 + 1)
        BY <2>1, <3>1, <3>2, <4>1, SkipKnown
      <4>3. QED
        BY <3>1, <4>2
    <3>4. ScanAt(stack2', pc', i2', lf')
      BY <3>1 DEF ScanAt
    <3>5. UpsAt(pc', i2', lf')
      BY <2>2, <3>1
    <3>6. QED
      BY <1>1, <2>1, <3>5, <3>3, <3>4, StillInv
  <2>7. CASE P2Orphan
    <3>1. /\ pc = "p2_scan" /\ pc' = "p2_sub" /\ UNCHANGED <<refs, i2, lf>>
          /\ stack2' = IF inodes[i2].mode = "dir" THEN <<Call2(i2)>> ELSE <<>>
          /\ stack2 = <<>> /\ i2 \in Inode
      BY <2>1, <2>7, SizesAssumption DEF P2Orphan, ScanAt, Inode
    <3>2. Live(i2) /\ refs[i2] = 0
      BY <2>7 DEF P2Orphan, Unreferenced
    <3>3. /\ KnownAt(all, IF inodes[i2].mode = "dir" THEN <<Call2(i2)>> ELSE <<>>, refs, "p2_sub", i2)
          /\ \A x \in TreeEntries : Named(x) # i2
          /\ \A x \in KeptEntries : IsName(x) => Named(x) # i2
          /\ i2 # ROOT_INODE_NUM
      <4>1. KnownAt(all, <<>>, refs, "p2_scan", i2)
        BY <2>1, <3>1
      <4>2. QED
        BY <2>1, <3>1, <3>2, <4>1, OrphanKnown
    <3>4. KnownAt(all, stack2', refs', pc', i2')
      BY <3>1, <3>3
    <3>5. ScanAt(stack2', pc', i2', lf')
      BY <3>1, <3>2, <3>3 DEF ScanAt
    <3>6. UpsAt(pc', i2', lf')
      BY <2>2, <3>1
    <3>7. QED
      BY <1>1, <2>1, <3>6, <3>4, <3>5, StillInv
  <2>8. CASE P2NoLostFound
    <3>1. /\ pc = "p2_sub" /\ pc' = "p2_scan" /\ i2' = i2 + 1 /\ UNCHANGED <<refs, stack2, lf>>
          /\ stack2 = <<>> /\ i2 \in Inode /\ LostFound = 0 /\ (all => RoomLeft)
      BY <2>1, <2>8 DEF P2NoLostFound
    <3>2. KnownAt(all, stack2', refs', pc', i2')
      <4>1. KnownAt(all, <<>>, refs, "p2_sub", i2)
        BY <2>1, <3>1
      <4>2. KnownAt(all, <<>>, refs, "p2_scan", i2 + 1)
        BY <2>1, <3>1, <4>1, NoLostFoundKnown
      <4>3. QED
        BY <3>1, <4>2
    <3>3. ScanAt(stack2', pc', i2', lf')
      BY <3>1 DEF ScanAt
    <3>4. UpsAt(pc', i2', lf')
      BY <2>2, <3>1
    <3>5. QED
      BY <1>1, <2>1, <3>4, <3>2, <3>3, StillInv
  <2>9. CASE P2Exit
    <3>1. pc' = "exit"
      BY <2>9 DEF P2Exit
    <3>2. QED
      BY <1>1, <2>1, <3>1, StillInv
  <2>10. CASE P2SetOutside
    <3>1. /\ pc = "p2_dotdot" /\ pc' = "p2_scan" /\ i2' = i2 + 1 /\ FirstBlock(i2) \notin Block
          /\ UNCHANGED <<refs, stack2, lf>> /\ stack2 = <<>> /\ i2 \in Inode
      BY <2>1, <2>10 DEF P2SetOutside, ScanAt
    <3>2. PICK n, l, r : n = i2 /\ l = lf /\ r = refs
      OBVIOUS
    <3>3. /\ UpsAt("p2_dotdot", n, l) /\ ScanAt(<<>>, "p2_dotdot", n, l)
          /\ KnownAt(all, <<>>, r, "p2_dotdot", n) /\ n \in Inode /\ FirstBlock(n) \notin Block
      BY <2>1, <3>1, <3>2
    <3>4. UpsAt("p2_scan", n + 1, l) /\ KnownAt(all, <<>>, r, "p2_scan", n + 1)
      BY <2>1, <3>3, OutsideKnown
    <3>5. ScanAt(stack2', pc', i2', lf')
      BY <3>1 DEF ScanAt
    <3>6. UpsAt(pc', i2', lf') /\ KnownAt(all, stack2', refs', pc', i2')
      BY <3>1, <3>2, <3>4
    <3>7. QED
      BY <1>1, <2>1, <3>5, <3>6, StillInv
  <2>11. CASE P2Done
    <3>1. /\ pc = "p2_scan" /\ pc' = "pass3" /\ i2 > NInodes /\ UNCHANGED <<refs, stack2, i2, lf>>
          /\ stack2 = <<>>
      BY <2>1, <2>11 DEF P2Done, ScanAt
    <3>2. KnownAt(all, stack2', refs', pc', i2')
      <4>1. PICK R, S, E : WalkedAt(<<>>, "p2_scan", i2, R, S, E)
                           /\ CountedAt(refs, "p2_scan", i2, S, E) /\ ReachedAt(all, "p2_scan", i2, E)
        BY <2>1, <3>1 DEF KnownAt
      <4>2. WalkedAt(<<>>, "pass3", i2, R, S, E)
        BY <4>1 DEF WalkedAt
      <4>3. CountedAt(refs, "pass3", i2, S, E) /\ ReachedAt(all, "pass3", i2, E)
        BY <4>1 DEF CountedAt, ReachedAt
      <4>4. QED
        BY <3>1, <4>2, <4>3 DEF KnownAt
    <3>3. ScanAt(stack2', pc', i2', lf')
      BY <3>1 DEF ScanAt
    <3>4. UpsAt(pc', i2', lf')
      BY <2>2, <3>1
    <3>5. QED
      BY <1>1, <2>1, <3>4, <3>2, <3>3, StillInv
  <2>12. CASE UNCHANGED p2vars
    <3>1. UNCHANGED <<refs, stack2, pc, i2, lf>>
      BY <2>12 DEF p2vars
    <3>2. QED
      BY <1>1, <2>1, <2>2, <3>1, <1>3, StillInv
  <2>13. QED
    BY <2>3, <2>4, <2>5, <2>6, <2>7, <2>8, <2>9, <2>10, <2>11, <2>12
<1>4. QED
  BY <1>2, <1>3

\* Every step of pass 2 keeps the invariant of the scan, and gives nothing a second name.
LEMMA ScanInvStep ==
  ASSUME NEW all, ScanPart(all), all /\ pc = "p2_sub" => RoomLeft, [P2Next]_p2vars
  PROVE  ScanPart(all)' /\ (OneName => OneName')
<1>1. P2Inv /\ P2Inv'
  BY P2InvStep DEF ScanPart
<1>2. CASE P2Attach
  <2>1. PICK l, n, r, m : l = LostFound /\ n = i2 /\ r = refs /\ m = lf
    OBVIOUS
  <2>2. /\ pc = "p2_sub" /\ stack2 = <<>> /\ lf' = l /\ pc' = "p2_dotdot"
        /\ UNCHANGED <<refs, stack2, i2>>
    BY <1>2, <2>1 DEF P2Attach
  <2>3. /\ all => RoomLeft
        /\ ShapeKept /\ UpsAt("p2_sub", n, m) /\ ScanAt(<<>>, "p2_sub", n, m)
        /\ KnownAt(all, <<>>, r, "p2_sub", n)
    BY <2>1, <2>2 DEF ScanPart
  <2>4. /\ ShapeKept' /\ (OneName => OneName') /\ UpsAt("p2_dotdot", n, l)'
        /\ ScanAt(<<>>, "p2_dotdot", n, l)' /\ KnownAt(all, <<>>, r, "p2_dotdot", n)'
    BY <1>1, <1>2, <2>1, <2>3, AttachScan
  <2>5. UpsAt(pc, i2, lf)' <=> UpsAt("p2_dotdot", n, l)'
    BY <2>1, <2>2 DEF UpsAt
  <2>6. ScanAt(stack2, pc, i2, lf)' <=> ScanAt(<<>>, "p2_dotdot", n, l)'
    BY <2>1, <2>2 DEF ScanAt
  <2>7. KnownAt(all, stack2, refs, pc, i2)' <=> KnownAt(all, <<>>, r, "p2_dotdot", n)'
    BY <2>1, <2>2 DEF KnownAt, WalkedAt, CountedAt, ReachedAt
  <2>8. QED
    BY <1>1, <2>4, <2>5, <2>6, <2>7 DEF ScanPart
<1>3. CASE P2SetParent
  <2>1. PICK l, n, r : l = lf /\ n = i2 /\ r = refs
    OBVIOUS
  <2>2. /\ pc = "p2_dotdot" /\ pc' = "p2_scan" /\ i2' = n + 1
        /\ UNCHANGED <<refs, stack2, lf>>
    BY <1>3, <2>1 DEF P2SetParent
  <2>3. /\ ShapeKept /\ UpsAt("p2_dotdot", n, l) /\ stack2 = <<>>
        /\ ScanAt(<<>>, "p2_dotdot", n, l) /\ KnownAt(all, <<>>, r, "p2_dotdot", n)
    <3>1. /\ ShapeKept /\ UpsAt(pc, i2, lf) /\ ScanAt(stack2, pc, i2, lf)
          /\ KnownAt(all, stack2, refs, pc, i2)
      BY <2>2 DEF ScanPart
    <3>2. stack2 = <<>>
      BY <2>2, <3>1 DEF ScanAt
    <3>3. QED
      BY <2>1, <2>2, <3>1, <3>2
  <2>4. /\ ShapeKept' /\ (OneName => OneName') /\ UpsAt("p2_scan", n + 1, l)'
        /\ ScanAt(<<>>, "p2_scan", n + 1, l)' /\ KnownAt(all, <<>>, r, "p2_scan", n + 1)'
    BY <1>1, <1>3, <2>1, <2>3, SetParentScan
  <2>5. UpsAt(pc, i2, lf)' <=> UpsAt("p2_scan", n + 1, l)'
    BY <2>1, <2>2 DEF UpsAt
  <2>6. ScanAt(stack2, pc, i2, lf)' <=> ScanAt(<<>>, "p2_scan", n + 1, l)'
    BY <2>1, <2>2, <2>3 DEF ScanAt
  <2>7. KnownAt(all, stack2, refs, pc, i2)' <=> KnownAt(all, <<>>, r, "p2_scan", n + 1)'
    BY <2>1, <2>2, <2>3 DEF KnownAt, WalkedAt, CountedAt, ReachedAt
  <2>8. QED
    BY <1>1, <2>2, <2>4, <2>5, <2>6, <2>7 DEF ScanPart
<1>4. CASE P2Start \/ P2Traverse \/ P2Walked \/ P2Skip \/ P2Orphan \/ P2NoLostFound \/ P2Exit
             \/ P2SetOutside \/ P2Done \/ UNCHANGED p2vars
  BY <1>1, <1>4, StillStep
<1>5. QED
  BY <1>2, <1>3, <1>4 DEF P2Next

\* The invariant of the scan, on a partition on which pass 2 finds what is lost.
THEOREM Pass2ScanInvariant == P2Spec /\ P2Sound => []ScanInv
<1>1. P2Init /\ P2Sound => ScanInv
  BY ScanInvInit DEF ScanInv
<1>2. ScanInv /\ [P2Next]_p2vars => ScanInv'
  BY ScanInvStep DEF ScanInv
<1>3. QED
  BY <1>1, <1>2, PTL DEF P2Spec

\* What the tree names is never taken for an orphan.
THEOREM Pass2OrphanOnly == P2Spec /\ P2Sound => []P2OrphanOnly
<1>1. ScanInv => P2OrphanOnly
  <2>1. SUFFICES ASSUME ScanInv, pc = "p2_sub" PROVE NumRefs(i2) = 0
    BY DEF P2OrphanOnly
  <2>2. \A x \in TreeEntries : Named(x) # i2
    BY <2>1 DEF ScanInv, ScanPart, ScanAt
  <2>3. Naming(TreeEntries, i2) = {}
    BY <2>2 DEF Naming
  <2>4. QED
    BY <2>3, FS_EmptySet DEF NumRefs
<1>2. QED
  BY <1>1, Pass2ScanInvariant, PTL

\* The invariant of the scan knows the pointers between two inodes.
LEMMA ScanPointers == ASSUME NEW all, ScanPart(all) PROVE P2PointersOK
<1>1. SUFFICES ASSUME pc \in {"p2_scan", "pass3"} PROVE DirectoryPointersOK
  BY DEF P2PointersOK
<1>2. DiskTypeOK /\ TreesSound /\ UpsAt(pc, i2, lf) /\ pc # "p2_dotdot"
  BY <1>1 DEF ScanPart, P2Inv, ShapeKept
<1>3. TreeDirs \subseteq KeptDirs
  BY <1>2, KeptTrees
<1>4. \A d \in KeptDirs : SelfOK(d)
  BY <1>2 DEF TreesSound
<1>5. QED
  BY <1>2, <1>3, <1>4 DEF DirectoryPointersOK, UpsAt

\* Between two inodes every directory of the tree has a right "." and "..".
THEOREM Pass2PointersOK == P2Spec /\ P2Sound => []P2PointersOK
<1>1. ScanInv => P2PointersOK
  BY ScanPointers DEF ScanInv
<1>2. QED
  BY <1>1, Pass2ScanInvariant, PTL

\* Where nothing has two names, nothing has two when the pass ends: of what is
\* lost only the topmost is attached.
THEOREM Pass2TopmostOnly == P2Spec /\ P2Sound /\ OneName => []P2TopmostOnly
<1>1. ScanInv /\ OneName => P2TopmostOnly
  <2>1. SUFFICES ASSUME ScanInv, OneName, pc = "pass3", NEW n \in Inode
                 PROVE  Cardinality(NamesOf(n)) <= 1
    BY DEF P2TopmostOnly
  <2>2. TreeEntries \subseteq KeptEntries
    BY <2>1, KeptTrees DEF ScanInv, ScanPart, P2Inv, ShapeKept
  <2>3. \A x \in NamesOf(n) : x \in KeptEntries /\ IsName(x) /\ Named(x) = n
    BY <2>2 DEF NamesOf, Naming, Names, IsName
  <2>4. \A x, y \in NamesOf(n) : x = y
    BY <2>1, <2>3 DEF OneName
  <2>5. CASE NamesOf(n) = {}
    BY <2>5, FS_EmptySet
  <2>6. CASE NamesOf(n) # {}
    <3>1. PICK x \in NamesOf(n) : NamesOf(n) = {x}
      BY <2>4, <2>6
    <3>2. Cardinality({x}) = 1
      BY FS_Singleton
    <3>3. QED
      BY <3>1, <3>2
  <2>7. QED
    BY <2>5, <2>6
<1>2. P2Init /\ P2Sound => ScanInv
  BY ScanInvInit DEF ScanInv
<1>3. ScanInv /\ OneName /\ [P2Next]_p2vars => ScanInv' /\ OneName'
  BY ScanInvStep DEF ScanInv
<1>4. QED
  BY <1>1, <1>2, <1>3, PTL DEF P2Spec

\* The invariant of the scan knows what has a name in the end.
LEMMA ScanResult ==
  ASSUME NEW all, ScanPart(all), BitsCover, pc = "pass3", all \/ RoomLeft
  PROVE  UnreferencedOK
<1>1. SUFFICES ASSUME NEW n \in Inode, InodeBit(n) = 1, links[n] > 0
               PROVE  Naming(TreeEntries, n) # {}
  BY DEF UnreferencedOK
<1>2. DiskTypeOK /\ TreesSound /\ i2 > NInodes /\ i2 \in 1 .. NInodes + 1
      /\ KnownAt(all, stack2, refs, pc, i2)
  BY <1>1 DEF ScanPart, P2Inv, ShapeKept, ScanAt
<1>3. Live(n) /\ n < i2
  <2>1. links[n] # 0
    BY <1>1 DEF BitsCover
  <2>2. QED
    BY <1>1, <1>2, <2>1, SizesAssumption DEF BitsCover, Live, Inode
<1>4. PICK R, S, E : ReachedAt(all, pc, i2, E)
  BY <1>2 DEF KnownAt
<1>5. E \subseteq TreeDirs
  <2>1. Closed(TreeDirs)
    BY <1>2, TreeClosed
  <2>2. QED
    BY <1>1, <1>4, <2>1 DEF ReachedAt
<1>6. n \in E \/ NamedIn(E, n)
  BY <1>1, <1>3, <1>4 DEF ReachedAt
<1>7. CASE n \in E
  <2>1. n \in KeptDirs
    BY <1>2, <1>5, <1>7, KeptTrees
  <2>2. <<n, 1, 1>> \in EntriesIn(n) /\ Named(<<n, 1, 1>>) = n
    BY <1>2, <2>1, KeptStart
  <2>3. <<n, 1, 1>> \in TreeEntries
    BY <1>5, <1>7, <2>2, TreeOver DEF Over
  <2>4. QED
    BY <2>2, <2>3 DEF Naming
<1>8. CASE NamedIn(E, n)
  <2>1. PICK x \in Over(E) : Named(x) = n
    BY <1>8 DEF NamedIn
  <2>2. x \in TreeEntries
    BY <1>5, TreeOver DEF Over
  <2>3. QED
    BY <2>1, <2>2 DEF Naming
<1>9. QED
  BY <1>6, <1>7, <1>8

\* When the pass ends with room left in lost+found, everything that is to have
\* a name has one in the tree.
THEOREM Pass2Result == P2Spec /\ P2Sound /\ BitsCover => []P2Result
<1>1. ScanInv /\ BitsCover => P2Result
  BY ScanResult DEF ScanInv, P2Result
<1>2. BitsCover /\ [P2Next]_p2vars => BitsCover'
  <2>1. SUFFICES ASSUME BitsCover, [P2Next]_p2vars PROVE BitsCover'
    OBVIOUS
  <2>2. UNCHANGED ibitmap
    BY <2>1 DEF P2Next, P2Start, P2Traverse, TrNext, P2Walked, P2Skip, P2Orphan, P2Attach,
                P2NoLostFound, P2SetParent, P2Exit, P2SetOutside, P2Done, disk, p2vars
  <2>3. QED
    BY <2>1, <2>2 DEF BitsCover, InodeBit, get_inode_alloc_bit
<1>3. QED
  BY <1>1, <1>2, Pass2ScanInvariant, PTL DEF P2Spec

=============================================================================
