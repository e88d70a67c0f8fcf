---------------------------- MODULE Pass3Proofs ----------------------------
(***************************************************************************)
(* Theorems about pass 3, for every partition and all sizes: types, that   *)
(* write_inode hits the count of one inode, and, for a tree whose names a  *)
(* char can count, that the counts are exact and the link counts right in  *)
(* the end.                                                                *)
(*                                                                         *)
(* write_inode finds the block of the inode table and the place in the     *)
(* block, read_inode the place in the whole table. PlaceOK says that the   *)
(* two agree and that no two inodes have one place. P3CountInv says what   *)
(* is in the counts while the walk is under way, with TreeProofs, and      *)
(* which links are behind the scan.                                        *)
(***************************************************************************)
EXTENDS Pass3, TreeProofs

P3Inv ==
  /\ DiskTypeOK
  /\ WalkOK
  /\ pc \in {"pass3", "p3_walk", "p3_scan", "pass4"}
  /\ i3 \in 1 .. NInodes + 1

-----------------------------------------------------------------------------
(* Division *)

\* Quotient and remainder.
LEMMA DivParts ==
  ASSUME NEW a \in Nat, NEW b \in Nat \ {0}
  PROVE  /\ a \div b \in Nat /\ a % b \in 0 .. b - 1
         /\ a = b * (a \div b) + (a % b)
<1> DEFINE q == a \div b
           r == a % b
<1>1. q \in Int /\ r \in 0 .. b - 1 /\ a = b * q + r
  BY SMT
<1> HIDE DEF q, r
<1>2. q >= 0
  <2>1. SUFFICES ASSUME q <= -1 PROVE FALSE
    BY <1>1
  <2>2. b * q <= b * (-1)
    BY <1>1, <2>1
  <2>3. QED
    BY <1>1, <2>2
<1>3. q \in Nat /\ r \in 0 .. b - 1 /\ a = b * q + r
  BY <1>1, <1>2
<1>4. QED
  BY <1>3 DEF q, r

\* Blocks for at least as many inodes as a group has.
LEMMA TableSize ==
  /\ get_group_inode_block_num \in Nat
  /\ get_group_inode_block_num * InodesPerBlock >= InodesPerGroup
<1> DEFINE x == InodesPerGroup + InodesPerBlock - 1
           q == x \div InodesPerBlock
<1>1. x \in Nat /\ InodesPerBlock \in Nat \ {0} /\ InodesPerGroup \in Nat
  BY SizesAssumption
<1>2. q \in Nat /\ x % InodesPerBlock \in 0 .. InodesPerBlock - 1
      /\ x = InodesPerBlock * q + (x % InodesPerBlock)
  BY <1>1, DivParts
<1>3. get_group_inode_block_num = q
  BY DEF get_group_inode_block_num, CeilDiv
<1> HIDE DEF q
<1>4. InodesPerBlock * q >= InodesPerGroup
  BY <1>1, <1>2
<1>5. QED
  BY <1>1, <1>2, <1>3, <1>4

-----------------------------------------------------------------------------
(* The place of an inode *)

\* Group and offset of an inode.
LEMMA GroupOf ==
  ASSUME NEW n \in Inode
  PROVE  LET g == get_inode_group_offset(n)
             o == get_inode_offset_in_group(n)
         IN  /\ g \in Group /\ InodeTable[g] \in Nat
             /\ o \in 0 .. InodesPerGroup - 1
             /\ n - 1 = InodesPerGroup * g + o
<1> DEFINE g == get_inode_group_offset(n)
           o == get_inode_offset_in_group(n)
           groups == get_inode_group_num
<1>1. n - 1 \in Nat /\ n - 1 < NInodes /\ InodesPerGroup \in Nat \ {0} /\ NInodes \in Nat
  BY SizesAssumption DEF Inode
<1>2. /\ g \in Nat /\ o \in 0 .. InodesPerGroup - 1
      /\ n - 1 = InodesPerGroup * g + o
  BY <1>1, DivParts DEF get_inode_group_offset, get_inode_offset_in_group
<1>3. groups \in Nat /\ InodesPerGroup * groups >= NInodes
  <2> DEFINE x == NInodes + InodesPerGroup - 1
             q == x \div InodesPerGroup
  <2>1. x \in Nat
    BY <1>1
  <2>2. q \in Nat /\ x % InodesPerGroup \in 0 .. InodesPerGroup - 1
        /\ x = InodesPerGroup * q + (x % InodesPerGroup)
    BY <1>1, <2>1, DivParts
  <2>3. groups = q
    BY DEF get_inode_group_num, CeilDiv
  <2> HIDE DEF q
  <2>4. InodesPerGroup * q >= NInodes
    BY <1>1, <2>2
  <2>5. QED
    BY <2>2, <2>3, <2>4
<1> HIDE DEF g, o, groups
<1>4. g < groups
  <2>1. SUFFICES ASSUME g >= groups PROVE FALSE
    BY <1>2, <1>3
  <2>2. InodesPerGroup * g = InodesPerGroup * groups + InodesPerGroup * (g - groups)
    BY <1>1, <1>2, <1>3
  <2>3. InodesPerGroup * (g - groups) >= 0
    BY <1>1, <1>2, <1>3, <2>1
  <2>4. InodesPerGroup * g \in Nat /\ InodesPerGroup * groups \in Nat
    BY <1>1, <1>2, <1>3
  <2>5. QED
    BY <1>1, <1>2, <1>3, <2>2, <2>3, <2>4
<1>5. g \in Group
  <2>1. get_block_group_num \in Nat
    <3>1. BlocksCount + BlocksPerGroup - 1 \in Nat /\ BlocksPerGroup \in Nat \ {0}
      BY SizesAssumption
    <3>2. QED
      BY <3>1, DivParts DEF get_block_group_num, CeilDiv
  <2>2. g < get_block_group_num
    BY <1>2, <1>3, <1>4, <2>1, TablesAssumption DEF groups
  <2>3. QED
    BY <1>2, <2>1, <2>2 DEF Group
<1>6. InodeTable[g] \in Nat
  BY <1>5, SizesAssumption DEF Block
<1>7. QED
  BY <1>2, <1>5, <1>6 DEF g, o

\* write_inode writes where read_inode reads, for one inode only.
LEMMA PlaceOK ==
  ASSUME NEW n \in Inode, NEW m \in Inode
  PROVE  ReadAt(m) = WrittenAt(n) <=> m = n
<1> DEFINE g == get_inode_group_offset(n)
           o == get_inode_offset_in_group(n)
           h == get_inode_group_offset(m)
           p == get_inode_offset_in_group(m)
           ipb == InodesPerBlock
           size == get_group_inode_block_num
<1>1. /\ g \in Group /\ InodeTable[g] \in Nat /\ o \in 0 .. InodesPerGroup - 1
      /\ n - 1 = InodesPerGroup * g + o
      /\ h \in Group /\ InodeTable[h] \in Nat /\ p \in 0 .. InodesPerGroup - 1
      /\ m - 1 = InodesPerGroup * h + p
  BY GroupOf
<1>2. ipb \in Nat \ {0} /\ InodesPerGroup \in Nat \ {0}
  BY SizesAssumption
<1>3. size \in Nat /\ size * ipb >= InodesPerGroup
  BY TableSize
<1>4. o \div ipb \in Nat /\ o % ipb \in 0 .. ipb - 1 /\ o = ipb * (o \div ipb) + (o % ipb)
  <2>1. o \in Nat
    BY <1>1, <1>2
  <2> HIDE DEF o, ipb
  <2>2. QED
    BY <1>2, <2>1, DivParts
<1>5. ReadAt(m) = InodeTable[h] * ipb + p
  BY DEF ReadAt
<1>6. WrittenAt(n) = (InodeTable[g] + (o \div ipb)) * ipb + (o % ipb)
  BY DEF WrittenAt
<1>7. m \in Nat /\ n \in Nat
  BY SizesAssumption DEF Inode
<1>8. g # h => InodeTable[g] + size <= InodeTable[h] \/ InodeTable[h] + size <= InodeTable[g]
  BY <1>1, TablesAssumption
<1>9. WrittenAt(n) = InodeTable[g] * ipb + o
  <2> DEFINE i == o \div ipb
             r == o % ipb
             a == InodeTable[g]
  <2>1. a \in Nat /\ i \in Nat /\ r \in Nat /\ ipb \in Nat /\ o = ipb * i + r
    BY <1>1, <1>2, <1>4
  <2>2. WrittenAt(n) = (a + i) * ipb + r
    BY <1>6
  <2> HIDE DEF i, r, a
  <2>3. (a + i) * ipb + r = a * ipb + (ipb * i + r)
    BY <2>1
  <2>4. QED
    BY <2>1, <2>2, <2>3 DEF a
<1>10. \A c, d \in Nat, s, t \in 0 .. InodesPerGroup - 1 :
         c + size <= d => c * ipb + s < d * ipb + t
  <2> SUFFICES ASSUME NEW c \in Nat, NEW d \in Nat,
                      NEW s \in 0 .. InodesPerGroup - 1, NEW t \in 0 .. InodesPerGroup - 1,
                      c + size <= d
               PROVE  c * ipb + s < d * ipb + t
    OBVIOUS
  <2> HIDE DEF ipb, size
  <2>1. d * ipb = c * ipb + size * ipb + (d - c - size) * ipb
    BY <1>2, <1>3
  <2>2. (d - c - size) * ipb >= 0
    BY <1>2, <1>3
  <2>3. c * ipb \in Nat /\ size * ipb \in Nat /\ d * ipb \in Nat
    BY <1>2, <1>3
  <2>4. QED
    BY <1>2, <1>3, <2>1, <2>2, <2>3
<1> HIDE DEF g, h, o, p, ipb, size
<1>11. CASE g = h
  <2>1. ReadAt(m) = WrittenAt(n) <=> p = o
    <3>1. InodeTable[g] * ipb \in Nat
      BY <1>1, <1>2
    <3>2. QED
      BY <1>1, <1>5, <1>9, <1>11, <3>1
  <2>2. p = o <=> m = n
    <3>1. InodesPerGroup * g \in Int
      BY <1>2, <1>1 DEF Group
    <3>2. p = o => m = n
      BY <1>1, <1>7, <1>11, <3>1
    <3>3. m = n => p = o
      BY DEF p, o
    <3>4. QED
      BY <3>2, <3>3
  <2>3. QED
    BY <2>1, <2>2
<1>12. CASE g # h
  <2>1. m # n
    BY <1>12 DEF g, h
  <2>2. InodeTable[g] * ipb \in Nat /\ InodeTable[h] * ipb \in Nat
    BY <1>1, <1>2
  <2>3. InodeTable[h] * ipb + p # InodeTable[g] * ipb + o
    BY <1>1, <1>8, <1>10, <1>12, <2>2
  <2>4. QED
    BY <1>5, <1>9, <2>1, <2>3
<1>13. QED
  BY <1>11, <1>12

\* What a link count can be.
LEMMA LinkCountIs ==
  ASSUME NEW r
  PROVE  r \in LinkCount <=> r \in Int /\ 0 <= r /\ r <= 65535
<1> DEFINE most == 65535
<1>1. most \in Int
  BY SMT
<1>2. LinkCount = 0 .. most
  BY DEF LinkCount
<1> HIDE DEF most
<1>3. r \in 0 .. most <=> r \in Int /\ 0 <= r /\ r <= most
  BY <1>1, SMT
<1>4. r \in LinkCount <=> r \in Int /\ 0 <= r /\ r <= most
  BY <1>2, <1>3, Zenon
<1>5. QED
  BY <1>4, SMT DEF most

\* What write_inode leaves on the disk.
LEMMA WriteInodeOK ==
  ASSUME DiskTypeOK, NEW n \in Inode, NEW c \in Int
  PROVE  /\ write_inode(n, c) \in [Inode -> LinkCount]
         /\ \A m \in Inode : write_inode(n, c)[m] = IF m = n THEN c % 65536 ELSE links[m]
<1>1. links \in [Inode -> LinkCount]
  BY DEF DiskTypeOK, IsImage
<1>2. c % 65536 \in LinkCount
  <2>1. c % 65536 \in Int /\ 0 <= c % 65536 /\ c % 65536 <= 65535
    BY SMT
  <2>2. QED
    BY <2>1, LinkCountIs, SMT
<1>3. \A m \in Inode : write_inode(n, c)[m] = IF m = n THEN c % 65536 ELSE links[m]
  BY PlaceOK DEF write_inode
<1>4. QED
  BY <1>1, <1>2, <1>3 DEF write_inode

-----------------------------------------------------------------------------
(* The invariant *)

\* Pass 3 starts in its invariant.
LEMMA P3InvInit == P3Init => P3Inv
<1> SUFFICES ASSUME P3Init PROVE P3Inv
  OBVIOUS
<1>1. DiskTypeOK
  BY ImagesAssumption DEF P3Init, ImageInit, DiskTypeOK
<1>2. WalkOK
  BY NoRefsTyped, WalkEmpty DEF P3Init
<1>3. QED
  BY <1>1, <1>2, SizesAssumption DEF P3Init, P3Inv

\* What a step that leaves the disk and the walk alone keeps.
LEMMA Still3OK ==
  ASSUME P3Inv, UNCHANGED disk
  PROVE  DiskTypeOK' /\ WalkFrame' = WalkFrame
BY DEF P3Inv, DiskTypeOK, disk, WalkFrame

\* The comparison writes the count of one inode.
LEMMA CorrectOK ==
  ASSUME P3Inv, P3Correct
  PROVE  /\ i3 \in Inode
         /\ links' \in [Inode -> LinkCount]
         /\ \A n \in Inode : links'[n] = IF n = i3 THEN refs[i3] % 65536 ELSE links[n]
<1>1. i3 \in Inode
  BY SizesAssumption DEF P3Inv, P3Correct, Inode
<1>2. refs[i3] \in Int
  BY <1>1, CharAssumption DEF P3Inv, WalkOK, CharMin
<1>3. links' = write_inode(i3, refs[i3])
  BY DEF P3Correct
<1>4. QED
  BY <1>1, <1>2, <1>3, WriteInodeOK DEF P3Inv

\* Every step of pass 3 keeps it.
LEMMA P3InvStep == P3Inv /\ [P3Next]_p3vars => P3Inv'
<1> SUFFICES ASSUME P3Inv, [P3Next]_p3vars PROVE P3Inv'
  OBVIOUS
<1>1. CASE P3Start
  <2>1. DiskTypeOK' /\ WalkFrame' = WalkFrame
    BY <1>1, Still3OK DEF P3Start
  <2>2. <<Call2(ROOT_INODE_NUM)>> \in Seq(WalkFrame)
    <3>1. ROOT_INODE_NUM \in Inode /\ inodes[ROOT_INODE_NUM].mode # "lnk"
      BY SizesAssumption DEF P3Inv, DiskTypeOK, IsImage, Inode, ROOT_INODE_NUM
    <3>2. QED
      BY <3>1, CallOK
  <2>3. WalkOK'
    BY <1>1, <2>1, <2>2, NoRefsTyped DEF P3Start, WalkOK, CharMin
  <2>4. QED
    BY <1>1, <2>1, <2>3, SizesAssumption DEF P3Start, P3Inv
<1>2. CASE P3Traverse
  <2>1. DiskTypeOK' /\ UNCHANGED <<pc, i3>>
    BY <1>2, Still3OK DEF P3Traverse, TrNext
  <2>2. WalkOK'
    BY <1>2, WalkStep DEF P3Traverse, P3Inv
  <2>3. QED
    BY <2>1, <2>2 DEF P3Inv
<1>3. CASE P3Correct
  <2>1. links' \in [Inode -> LinkCount] /\ i3 \in Inode
    BY <1>3, CorrectOK
  <2>2. DiskTypeOK'
    BY <1>3, <2>1 DEF P3Correct, P3Inv, DiskTypeOK, IsImage
  <2>3. WalkOK'
    BY <1>3 DEF P3Correct, P3Inv, WalkOK, WalkFrame, CharMin
  <2>4. QED
    BY <1>3, <2>1, <2>2, <2>3, SizesAssumption DEF P3Correct, P3Inv, Inode
<1>4. CASE P3Walked \/ P3Same \/ P3Done \/ UNCHANGED p3vars
  <2>1. UNCHANGED <<disk, refs, stack2>>
    BY <1>4 DEF P3Walked, P3Same, P3Done, p3vars
  <2>2. DiskTypeOK' /\ WalkOK'
    BY <2>1, Still3OK DEF P3Inv, WalkOK, CharMin
  <2>3. i3' \in 1 .. NInodes + 1 /\ pc' \in {"pass3", "p3_walk", "p3_scan", "pass4"}
    BY <1>4, SizesAssumption DEF P3Walked, P3Same, P3Done, p3vars, P3Inv
  <2>4. QED
    BY <2>2, <2>3 DEF P3Inv
<1>5. QED
  BY <1>1, <1>2, <1>3, <1>4 DEF P3Next

-----------------------------------------------------------------------------
(* The theorems *)

\* The strengthened invariant: types, and every active call of the walk is for
\* something that is no symbolic link.
THEOREM Pass3Invariant == P3Spec => []P3Inv
<1>1. QED
  BY P3InvInit, P3InvStep, PTL DEF P3Spec

\* Pass 3 leaves a partition it could be started on, its walk stays among the
\* inodes and blocks of the partition, the counts stay in a char, and what is
\* stored is a link count.
THEOREM Pass3TypeCorrect == P3Spec => []P3TypeOK
<1>1. P3Inv => P3TypeOK
  BY WalkTyped DEF P3Inv, P3TypeOK
<1>2. QED
  BY <1>1, Pass3Invariant, PTL

\* A write of write_inode changes the count of the inode compared and of no
\* other, whatever group and block of the inode table it is in.
THEOREM Pass3OneCount == P3Spec => P3OneCount
<1>1. P3Inv /\ [P3Next]_p3vars => [OneCount]_p3vars
  <2> SUFFICES ASSUME P3Inv, [P3Next]_p3vars PROVE OneCount
    OBVIOUS
  <2>1. CASE P3Correct
    BY <2>1, CorrectOK DEF OneCount
  <2>2. CASE ~P3Correct
    <3>1. UNCHANGED links
      BY <2>2 DEF P3Next, P3Start, P3Traverse, TrNext, P3Walked, P3Same, P3Done,
                  p3vars, disk
    <3>2. QED
      BY <3>1 DEF OneCount
  <2>3. QED
    BY <2>1, <2>2
<1>2. QED
  BY <1>1, Pass3Invariant, PTL DEF P3Spec, P3OneCount

-----------------------------------------------------------------------------
(* The counts *)

\* What is known of the counts on a partition whose tree is one and whose
\* counts fit: after the walk they are those of the tree, and the link counts
\* of the inodes the comparison is past are right.
P3CountInv ==
  /\ TreeShape /\ NamesFit
  /\ pc \in {"pass3", "p3_walk"} => i3 = 1
  /\ pc = "p3_walk" => CountOK
  /\ pc \in {"p3_scan", "pass4"} =>
       /\ \A n \in Inode : refs[n] = NumRefs(n)
       /\ \A n \in Inode : n < i3 => links[n] = NumRefs(n)
  /\ pc = "pass4" => i3 = NInodes + 1

\* P3CountInv holds before pass 3.
LEMMA P3CountInit == P3Init /\ TreeShape /\ NamesFit => P3CountInv
BY DEF P3Init, P3CountInv

\* A step that writes no directory changes no number of names.
LEMMA FitSame ==
  ASSUME UNCHANGED <<inodes, data>>, NamesFit
  PROVE  NamesFit' /\ \A n : NumRefs(n)' = NumRefs(n)
BY RefsSame DEF NamesFit

\* Every step of pass 3 keeps P3CountInv.
LEMMA P3CountStep == P3Inv /\ P3CountInv /\ [P3Next]_p3vars => P3CountInv'
<1> SUFFICES ASSUME P3Inv, P3CountInv, [P3Next]_p3vars PROVE P3CountInv'
  OBVIOUS
<1>1. UNCHANGED <<inodes, data>>
  BY DEF P3Next, P3Start, P3Traverse, TrNext, P3Walked, P3Same, P3Correct, P3Done,
         p3vars, disk
<1>2. TreeShape' /\ NamesFit' /\ \A n : NumRefs(n)' = NumRefs(n)
  BY <1>1, ShapeSame, FitSame DEF P3CountInv
<1>3. CASE P3Start
  <2>1. CountOK'
    BY <1>3, CountedStart DEF P3Start, P3Inv
  <2>2. QED
    BY <1>2, <1>3, <2>1 DEF P3Start, P3CountInv
<1>4. CASE P3Traverse
  <2>1. CountOK'
    BY <1>4, CountedStep DEF P3Traverse, P3Inv, P3CountInv
  <2>2. QED
    BY <1>2, <1>4, <2>1 DEF P3Traverse, TrNext, P3CountInv
<1>5. CASE P3Walked
  <2>1. \A n \in Inode : refs[n] = NumRefs(n)
    BY <1>5, CountedDone DEF P3Walked, P3Inv, P3CountInv
  <2>2. \A n \in Inode : ~ (n < 1)
    BY SizesAssumption DEF Inode
  <2>3. pc' = "p3_scan" /\ i3' = 1 /\ refs' = refs
    BY <1>5 DEF P3Walked, P3CountInv
  <2>4. QED
    BY <1>2, <2>1, <2>2, <2>3 DEF P3CountInv
<1>6. CASE P3Same
  <2>1. \A n \in Inode : n < i3 + 1 => links[n] = NumRefs(n)
    <3>1. \A n \in Inode : n < i3 + 1 => n < i3 \/ n = i3
      BY SizesAssumption DEF P3Inv, Inode
    <3>2. QED
      BY <1>6, <3>1 DEF P3Same, P3CountInv
  <2>2. pc = "p3_scan" /\ pc' = pc /\ i3' = i3 + 1 /\ refs' = refs /\ links' = links
    BY <1>6 DEF P3Same, disk
  <2>3. QED
    BY <1>2, <2>1, <2>2 DEF P3CountInv
<1>7. CASE P3Correct
  <2>1. /\ i3 \in Inode
        /\ \A n \in Inode : links'[n] = IF n = i3 THEN refs[i3] % 65536 ELSE links[n]
    BY <1>7, CorrectOK
  <2>2. pc = "p3_scan" /\ pc' = pc /\ i3' = i3 + 1 /\ refs' = refs
    BY <1>7 DEF P3Correct
  <2>3. refs[i3] % 65536 = NumRefs(i3)
    <3>1. refs[i3] = NumRefs(i3) /\ NumRefs(i3) <= CharMax
      BY <2>1, <2>2 DEF P3CountInv, NamesFit
    <3>2. NumRefs(i3) \in Nat
      BY NumRefsNat DEF P3Inv
    <3>3. NumRefs(i3) \in Nat /\ NumRefs(i3) < 65536
      BY <3>1, <3>2, CharAssumption
    <3>4. \A c \in Nat : c < 65536 => c % 65536 = c
      BY SMT
    <3>5. QED
      BY <3>1, <3>3, <3>4
  <2>4. \A n \in Inode : n < i3 + 1 => links'[n] = NumRefs(n)
    <3>1. \A n \in Inode : n < i3 + 1 => n < i3 \/ n = i3
      BY SizesAssumption DEF P3Inv, Inode
    <3>2. QED
      BY <2>1, <2>2, <2>3, <3>1 DEF P3CountInv
  <2>5. QED
    BY <1>2, <2>2, <2>4 DEF P3CountInv
<1>8. CASE P3Done
  <2>1. pc = "p3_scan" /\ pc' = "pass4" /\ i3 = NInodes + 1
        /\ UNCHANGED <<i3, refs, links>>
    BY <1>8, SizesAssumption DEF P3Done, P3Inv, disk
  <2>2. QED
    BY <1>2, <2>1 DEF P3CountInv
<1>9. CASE UNCHANGED p3vars
  <2>1. UNCHANGED <<pc, i3, refs, stack2, links>>
    BY <1>9 DEF p3vars, disk
  <2>2. CountOK => CountOK'
    <3>1. SUFFICES ASSUME CountOK PROVE CountOK'
      OBVIOUS
    <3>2. PICK S, E : Stack(stack2) /\ Walked(S, E, FramesOf(stack2)) /\ Counted(S)
      BY <3>1 DEF CountOK
    <3>3. Walked(S, E, FramesOf(stack2))'
      BY <1>1, <2>1, <3>2, WalkedSame
    <3>4. Counted(S)'
      BY <1>1, <2>1, <3>2, NamingSame DEF Counted
    <3>5. QED
      BY <2>1, <3>2, <3>3, <3>4 DEF CountOK
  <2>3. QED
    BY <1>2, <2>1, <2>2 DEF P3CountInv
<1>10. QED
  BY <1>3, <1>4, <1>5, <1>6, <1>7, <1>8, <1>9 DEF P3Next

\* Counts and links, at every time of pass 3.
LEMMA Pass3CountInvariant == P3Spec /\ TreeShape /\ NamesFit => [](P3Inv /\ P3CountInv)
<1>1. P3Inv /\ P3CountInv /\ [P3Next]_p3vars => (P3Inv /\ P3CountInv)'
  BY P3InvStep, P3CountStep
<1>2. P3Init /\ TreeShape /\ NamesFit => P3Inv /\ P3CountInv
  BY P3InvInit, P3CountInit
<1>3. QED
  BY <1>1, <1>2, PTL DEF P3Spec

\* On every partition whose directories form a tree and whose inodes have no
\* more names than a char can count, the walk of pass 3 counts the entries of
\* the tree: each once, ".", ".." and the entries of later blocks included.
THEOREM Pass3CountsExact == P3Spec /\ TreeShape /\ NamesFit => []P3CountsExact
<1>1. P3CountInv => P3CountsExact
  BY DEF P3CountInv, P3CountsExact
<1>2. QED
  BY <1>1, Pass3CountInvariant, PTL

\* P3CountInv knows the link counts in the end.
LEMMA CountResult == P3CountInv => P3Result
<1>1. SUFFICES ASSUME P3CountInv, pc = "pass4" PROVE LinkCountsOK
  BY DEF P3Result
<1>2. \A n \in Inode : n < NInodes + 1
  BY SizesAssumption DEF Inode
<1>3. \A n \in Inode : links[n] = NumRefs(n)
  BY <1>1, <1>2 DEF P3CountInv
<1>4. QED
  BY <1>3 DEF LinkCountsOK, NumRefs

\* On such a partition every link count is right when pass 3 ends.
THEOREM Pass3Result == P3Spec /\ TreeShape /\ NamesFit => []P3Result
<1>1. P3CountInv => P3Result
  BY CountResult
<1>2. QED
  BY <1>1, Pass3CountInvariant, PTL

\* On such a partition no step of pass 3 changes a link count that is right.
THEOREM Pass3NoRegress == P3Spec /\ TreeShape /\ NamesFit => P3NoRegress
<1> DEFINE Keep == \A n \in Inode : links[n] = NumRefs(n) => UNCHANGED links[n]
<1>1. P3Inv /\ P3CountInv /\ [P3Next]_p3vars => Keep
  <2> SUFFICES ASSUME P3Inv, P3CountInv, [P3Next]_p3vars PROVE Keep
    OBVIOUS
  <2>1. CASE P3Correct
    <3>1. /\ i3 \in Inode /\ links[i3] # refs[i3] /\ pc = "p3_scan"
          /\ \A n \in Inode : n # i3 => links'[n] = links[n]
      BY <2>1, CorrectOK DEF P3Correct
    <3>2. links[i3] # NumRefs(i3)
      BY <3>1 DEF P3CountInv
    <3>3. QED
      BY <3>1, <3>2
  <2>2. CASE ~P3Correct
    <3>1. UNCHANGED links
      BY <2>2 DEF P3Next, P3Start, P3Traverse, TrNext, P3Walked, P3Same, P3Done,
                  p3vars, disk
    <3>2. QED
      BY <3>1
  <2>3. QED
    BY <2>1, <2>2
<1>2. QED
  BY <1>1, Pass3CountInvariant, PTL DEF P3Spec, P3NoRegress

=============================================================================
