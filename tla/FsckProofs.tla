----------------------------- MODULE FsckProofs -----------------------------
(***************************************************************************)
(* Theorems about the passes one after the other, killed at any step and   *)
(* run again any number of times: each pass starts on what its own         *)
(* invariant asks for, whatever the one before it, or a run cut short, has *)
(* left on the disk; and together they keep the promise of Repair.         *)
(*                                                                         *)
(* The invariants of the passes say nothing of each other's variables.     *)
(* What links them is that no pass changes an inode's mode or its          *)
(* pointers, and that a call stack outlives no pass.                       *)
(*                                                                         *)
(* For the promise every write is shown to leave a partition that can be   *)
(* put in order (Mendable), and the result of each pass to be, with that,  *)
(* what the next one asks for.                                             *)
(***************************************************************************)
EXTENDS Fsck, Pass1Proofs, Pass2Proofs, Pass3Proofs, Pass4Proofs

In1 == pc \in {"pass1", "p1_walk"}
In2 == pc \in {"pass2", "p2_walk", "p2_scan", "p2_sub", "p2_dotdot"}
In3 == pc \in {"pass3", "p3_walk", "p3_scan"}
In4 == pc \in {"pass4", "p4_walk", "p4_compare", "p4_table", "p4_flush"}
InNone == pc \in Ended

\* What P2Inv says of the variables of pass 2.
P2Locals ==
  /\ i2 \in 1 .. NInodes + 1
  /\ lf \in 0 .. NInodes
  /\ pc \in {"p2_sub", "p2_dotdot"} => i2 \in Inode
  /\ pc = "p2_dotdot" => lf \in Inode /\ inodes[lf].mode # "lnk"

FsckInv ==
  /\ DiskTypeOK
  /\ FilesOK(inodes)
  /\ In1 \/ In2 \/ In3 \/ In4 \/ InNone
  /\ In1 => P1Inv
  /\ stack1 \in Seq(Frame1)
  /\ WalkOK
  /\ P2Locals
  /\ i3 \in 1 .. NInodes + 1
  /\ P4Locals
  /\ runs \in 1 .. MaxRuns

-----------------------------------------------------------------------------
(* The invariants of the passes, and what is left of them in another pass  *)

\* Pass 2: the invariant is what is on the disk, the walk and the locals.
LEMMA Split2 == In2 => (P2Inv <=> DiskTypeOK /\ WalkOK /\ P2Locals)
BY DEF In2, P2Inv, P2Locals

\* Pass 3: the same.
LEMMA Split3 == In3 => (P3Inv <=> DiskTypeOK /\ WalkOK /\ i3 \in 1 .. NInodes + 1)
BY DEF In3, P3Inv

\* Pass 4: the same, with the files instead of the counts.
LEMMA Split4 == In4 => (P4Inv <=> DiskTypeOK /\ FilesOK(inodes) /\ P4Locals)
BY DEF In4, P4Inv

\* An empty stack is as good a stack of pass 1 as any.
LEMMA NoCall1 ==
  ASSUME DiskTypeOK, stack1 = <<>>, pc \in {"pass1", "p1_walk", "pass2"}
  PROVE  P1Inv /\ stack1 \in Seq(Frame1)
<1>1. Len(stack1) = 0 /\ stack1 \in Seq(Frame1)
  OBVIOUS
<1>2. QED
  BY <1>1 DEF P1Inv, P1TypeOK, P1BufFresh

\* What the inodes alone decide, where the variables do not change.
LEMMA FilesStill ==
  ASSUME FilesOK(inodes), UNCHANGED inodes
  PROVE  FilesOK(inodes)'
BY DEF FilesOK

\* The walk of passes 2 and 3 is not touched by the other passes.
LEMMA Walk2Still ==
  ASSUME WalkOK, UNCHANGED <<inodes, refs, stack2>>
  PROVE  WalkOK'
BY DEF WalkOK, WalkFrame, CharMin

\* What outlives pass 2 is not touched by the other passes.
LEMMA Locals2Still ==
  ASSUME P2Locals, UNCHANGED <<inodes, i2, lf>>, pc' \notin {"p2_sub", "p2_dotdot"}
  PROVE  P2Locals'
BY DEF P2Locals

\* What outlives pass 4 is not touched by the other passes.
LEMMA Locals4Still ==
  ASSUME P4Locals, UNCHANGED <<inodes, stack4, tb, bm, grp, j4, bid, found>>
  PROVE  P4Locals'
<1>1. Walk4Frame' = Walk4Frame
  BY DEF Walk4Frame
<1>2. QED
  BY <1>1 DEF P4Locals

-----------------------------------------------------------------------------
(* Where a step is possible, where it leads, and that it changes no inode *)

\* A step of pass 1 is taken in pass 1, leads to pass 1 or 2, and changes no inode.
LEMMA Where1 ==
  ASSUME P1Next
  PROVE  In1 /\ pc' \in {"pass1", "p1_walk", "pass2"} /\ UNCHANGED inodes
BY DEF P1Next, P1Start, P1Correct, P1Descend, P1Skip, P1NextBlock, P1Return, P1Done,
       Running1, In1, disk

\* The same of pass 2.
LEMMA Where2 ==
  ASSUME P2Next
  PROVE  /\ In2 /\ UNCHANGED inodes
         /\ pc' \in {"pass2", "p2_walk", "p2_scan", "p2_sub", "p2_dotdot", "pass3", "exit"}
BY DEF P2Next, P2Start, P2Traverse, P2Walked, P2Skip, P2Orphan, P2Attach, P2NoLostFound,
       P2SetParent, P2Exit, P2SetOutside, P2Done, TrNext, TrCount, TrNextBlock, TrReturn, In2, disk

\* The same of pass 3.
LEMMA Where3 ==
  ASSUME P3Next
  PROVE  In3 /\ pc' \in {"pass3", "p3_walk", "p3_scan", "pass4"} /\ UNCHANGED inodes
BY DEF P3Next, P3Start, P3Traverse, P3Walked, P3Same, P3Correct, P3Done,
       TrNext, TrCount, TrNextBlock, TrReturn, In3, disk

\* The same of pass 4.
LEMMA Where4 ==
  ASSUME P4Next
  PROVE  /\ In4 /\ UNCHANGED inodes
         /\ pc' \in {"pass4", "p4_walk", "p4_compare", "p4_table", "p4_flush", "done"}
BY DEF P4Next, P4Start, P4Open, P4Entry, P4NextBlock, P4Return, P4Walked, P4Compare,
       P4NextGroup, P4Compared, P4Table, P4NextTable, P4Decide, P4Write, P4Done,
       Comparing, In4, disk

-----------------------------------------------------------------------------
(* The steps *)

\* A step of pass 1 keeps the invariant of the repair.
LEMMA FsckStep1 == ASSUME FsckInv, Step1 PROVE FsckInv'
<1>1. /\ P1Next
      /\ UNCHANGED <<refs, stack2, i2, lf, i3, stack4, tb, bm, grp, j4, bid, found, runs>>
  BY DEF Step1
<1>2. In1 /\ pc' \in {"pass1", "p1_walk", "pass2"} /\ UNCHANGED inodes
  BY <1>1, Where1
<1>3. P1Inv'
  BY <1>1, <1>2, InvStep DEF FsckInv
<1>4. DiskTypeOK' /\ stack1' \in Seq(Frame1)
  BY <1>3 DEF P1Inv, P1TypeOK
<1>5. FilesOK(inodes)' /\ WalkOK' /\ P2Locals' /\ P4Locals'
  BY <1>1, <1>2, FilesStill, Walk2Still, Locals2Still, Locals4Still DEF FsckInv
<1>6. In1' \/ In2'
  BY <1>2 DEF In1, In2
<1>7. QED
  BY <1>1, <1>3, <1>4, <1>5, <1>6 DEF FsckInv

\* A step of pass 2 keeps it.
LEMMA FsckStep2 == ASSUME FsckInv, Step2 PROVE FsckInv'
<1>1. P2Next /\ UNCHANGED <<stack1, i3, stack4, tb, bm, grp, j4, bid, found, runs>>
  BY DEF Step2
<1>2. /\ In2 /\ UNCHANGED inodes
      /\ pc' \in {"pass2", "p2_walk", "p2_scan", "p2_sub", "p2_dotdot", "pass3", "exit"}
  BY <1>1, Where2
<1>3. P2Inv'
  <2>1. P2Inv
    BY <1>2, Split2 DEF FsckInv
  <2>2. QED
    BY <1>1, <2>1, P2InvStep
<1>4. DiskTypeOK' /\ WalkOK' /\ P2Locals'
  BY <1>3 DEF P2Inv, P2Locals
<1>5. FilesOK(inodes)' /\ P4Locals'
  BY <1>1, <1>2, FilesStill, Locals4Still DEF FsckInv
<1>6. (In2' \/ In3' \/ InNone') /\ ~In1'
  BY <1>2 DEF In1, In2, In3, InNone, Ended
<1>7. stack1' \in Seq(Frame1)
  BY <1>1 DEF FsckInv
<1>8. QED
  BY <1>1, <1>4, <1>5, <1>6, <1>7 DEF FsckInv

\* A step of pass 3 keeps it.
LEMMA FsckStep3 == ASSUME FsckInv, Step3 PROVE FsckInv'
<1>1. P3Next /\ UNCHANGED <<stack1, i2, lf, stack4, tb, bm, grp, j4, bid, found, runs>>
  BY DEF Step3
<1>2. In3 /\ pc' \in {"pass3", "p3_walk", "p3_scan", "pass4"} /\ UNCHANGED inodes
  BY <1>1, Where3
<1>3. P3Inv'
  <2>1. P3Inv
    BY <1>2, Split3 DEF FsckInv
  <2>2. QED
    BY <1>1, <2>1, P3InvStep
<1>4. DiskTypeOK' /\ WalkOK' /\ i3' \in 1 .. NInodes + 1
  BY <1>3 DEF P3Inv
<1>5. FilesOK(inodes)' /\ P2Locals' /\ P4Locals'
  BY <1>1, <1>2, FilesStill, Locals2Still, Locals4Still DEF FsckInv
<1>6. (In3' \/ In4') /\ ~In1'
  BY <1>2 DEF In1, In3, In4
<1>7. stack1' \in Seq(Frame1)
  BY <1>1 DEF FsckInv
<1>8. QED
  BY <1>1, <1>4, <1>5, <1>6, <1>7 DEF FsckInv

\* A step of pass 4 keeps it.
LEMMA FsckStep4 == ASSUME FsckInv, Step4 PROVE FsckInv'
<1>1. P4Next /\ UNCHANGED <<stack1, refs, stack2, i2, lf, i3, runs>>
  BY DEF Step4
<1>2. /\ In4 /\ UNCHANGED inodes
      /\ pc' \in {"pass4", "p4_walk", "p4_compare", "p4_table", "p4_flush", "done"}
  BY <1>1, Where4
<1>3. P4Inv'
  <2>1. P4Inv
    BY <1>2, Split4 DEF FsckInv
  <2>2. QED
    BY <1>1, <2>1, P4InvStep
<1>4. DiskTypeOK' /\ FilesOK(inodes)' /\ P4Locals'
  BY <1>3 DEF P4Inv
<1>5. WalkOK' /\ P2Locals'
  BY <1>1, <1>2, Walk2Still, Locals2Still DEF FsckInv
<1>6. (In4' \/ InNone') /\ ~In1'
  BY <1>2 DEF In1, In4, InNone, Ended
<1>7. stack1' \in Seq(Frame1)
  BY <1>1 DEF FsckInv
<1>8. QED
  BY <1>1, <1>4, <1>5, <1>6, <1>7 DEF FsckInv

\* What a process that has just started has in memory, or one that is gone.
Started ==
  DiskTypeOK /\ FilesOK(inodes) /\ LocalsInit /\ pc \in {"pass1"} \cup Ended

Begun ==
  /\ pc = "pass1" => P1Inv
  /\ stack1 \in Seq(Frame1) /\ WalkOK /\ P2Locals
  /\ i3 \in 1 .. NInodes + 1 /\ P4Locals

\* A process that has just started meets the invariants of all passes.
LEMMA StartedOK == Started => Begun
<1> SUFFICES ASSUME Started PROVE Begun
  OBVIOUS
<1> USE DEF Started
<1>1. stack1 = <<>> /\ stack1 \in Seq(Frame1) /\ (pc = "pass1" => P1Inv)
  BY NoCall1 DEF LocalsInit
<1>2. WalkOK
  BY WalkEmpty, NoRefsTyped DEF LocalsInit
<1>3. P2Locals
  BY SizesAssumption DEF LocalsInit, P2Locals, Ended
<1>4. P4Locals
  <2>1. found \in BOOLEAN
    BY Zenon DEF LocalsInit
  <2>2. /\ stack4 = <<>> /\ tb = {} /\ bm = bbitmap /\ grp = 0 /\ j4 = 0 /\ bid = 1
    BY DEF LocalsInit
  <2>3. bm \in Bitmap(get_block_group_num * BlockBits)
    BY <2>2 DEF DiskTypeOK, IsImage
  <2>4. get_block_group_num \in Nat
    BY GroupNumNat
  <2>5. QED
    BY <2>1, <2>2, <2>3, <2>4 DEF P4Locals
<1>5. i3 \in 1 .. NInodes + 1
  BY SizesAssumption DEF LocalsInit
<1>6. QED
  BY <1>1, <1>2, <1>3, <1>4, <1>5 DEF Begun

\* The process dies, and perhaps is started again: only the disk is left.
LEMMA FsckStop == ASSUME FsckInv, Kill \/ Rerun PROVE FsckInv'
<1>1. LocalsInit' /\ UNCHANGED disk /\ pc' \in {"pass1"} \cup Ended
  <2>1. LoseLocals /\ UNCHANGED disk /\ pc' \in {"pass1"} \cup Ended
    BY DEF Kill, Rerun, Ended
  <2>2. bm' = bbitmap'
    BY <2>1 DEF LoseLocals, disk
  <2>3. QED
    BY <2>1, <2>2 DEF LoseLocals, LocalsInit, NoRefs
<1>2. DiskTypeOK' /\ FilesOK(inodes)'
  <2>1. DiskTypeOK'
    BY <1>1 DEF FsckInv, DiskTypeOK, disk
  <2>2. QED
    BY <1>1, <2>1, FilesStill DEF FsckInv, disk
<1>3. Begun'
  <2>1. Started'
    BY <1>1, <1>2 DEF Started, Ended
  <2>2. QED
    BY <2>1, StartedOK, PTL
<1>4. runs' \in 1 .. MaxRuns
  BY MaxRunsAssumption DEF FsckInv, Kill, Rerun
<1>5. (In1' \/ InNone') /\ (In1' => pc' = "pass1")
  BY <1>1 DEF In1, InNone, Ended
<1>6. QED
  BY <1>2, <1>3, <1>4, <1>5 DEF FsckInv, Begun

\* A step that changes nothing keeps the invariant.
LEMMA FsckStutter == ASSUME FsckInv, UNCHANGED vars PROVE FsckInv'
<1>1. UNCHANGED <<disk, pc, stack1, refs, stack2, i2, lf, i3, stack4, tb, bm, grp, j4, bid,
                  found, runs>>
  BY DEF vars, locals
<1>2. DiskTypeOK' /\ FilesOK(inodes)'
  <2>1. DiskTypeOK'
    BY <1>1 DEF FsckInv, DiskTypeOK, disk
  <2>2. QED
    BY <1>1, <2>1, FilesStill DEF FsckInv, disk
<1>3. UNCHANGED <<inodes, p1vars>>
  BY <1>1 DEF disk, p1vars
<1>4. In1' => P1Inv'
  BY <1>1, <1>3, StutterStep DEF FsckInv, In1
<1>5. WalkOK' /\ P4Locals'
  BY <1>1, <1>3, Walk2Still, Locals4Still DEF FsckInv
<1>6. P2Locals'
  BY <1>1, <1>3 DEF FsckInv, P2Locals
<1>7. (In1 \/ In2 \/ In3 \/ In4 \/ InNone)'
  BY <1>1 DEF FsckInv, In1, In2, In3, In4, InNone
<1>8. stack1' \in Seq(Frame1) /\ i3' \in 1 .. NInodes + 1 /\ runs' \in 1 .. MaxRuns
  BY <1>1 DEF FsckInv
<1>9. QED
  BY <1>2, <1>4, <1>5, <1>6, <1>7, <1>8 DEF FsckInv

\* The first process starts in the invariant.
LEMMA FsckInvInit == Init => FsckInv
<1> SUFFICES ASSUME Init PROVE FsckInv
  OBVIOUS
<1>1. DiskTypeOK /\ FilesOK(inodes)
  BY ImagesAssumption, FilesAssumption DEF Init, ImageInit, DiskTypeOK
<1>2. pc = "pass1" /\ LocalsInit /\ runs = 1
  BY DEF Init
<1>3. QED
  BY <1>1, <1>2, StartedOK, MaxRunsAssumption DEF FsckInv, In1, Started, Begun

-----------------------------------------------------------------------------
(* What the passes ask of a partition that can be put in order *)

\* The tree of such a partition is one.
LEMMA MendShape ==
  ASSUME DiskTypeOK, TreesThere
  PROVE  TreeShape
<1>1. TreeEntries \subseteq KeptEntries
      /\ \A x \in KeptEntries : NamesDir(x) => Named(x) \in KeptDirs \ {ROOT_INODE_NUM}
  BY KeptThere
<1>2. \A x \in KeptEntries : NamesDir(x) => IsDir(Named(x))
  BY DEF TreesThere, NamesDir
<1>3. \A x, y \in KeptEntries : NamesDir(x) /\ NamesDir(y) /\ Named(x) = Named(y) => x = y
  BY DEF TreesThere
<1>4. QED
  BY <1>1, <1>2, <1>3 DEF TreeShape

\* Pass 1 can be run on it.
LEMMA MendFor1 ==
  ASSUME DiskTypeOK, TreesThere, HeadsThere, BlocksOwn
  PROVE  P1Sound
<1>1. /\ TreeDirs \subseteq KeptDirs /\ KeptDirs \subseteq Inode
      /\ TreeEntries \subseteq KeptEntries
  BY KeptThere
<1>2. DotsThere
  <2>1. ASSUME NEW d \in TreeDirs, NEW p \in 1 .. 2
        PROVE  <<1, p>> \in Entries(d) /\ EntryAt(d, <<1, p>>).typ = "dir"
    <3>1. <<d, 1, p>> \in KeptEntries /\ EntryAt(d, <<1, p>>).typ = "dir" /\ d \in Inode
      BY <1>1, <2>1 DEF HeadsThere
    <3>2. <<d, 1, p>>[1] = d
      OBVIOUS
    <3>3. <<d, 1, p>> \in EntriesIn(d)
      BY <3>1, <3>2, KeptOver, OverIs
    <3>4. PICK e \in Entries(d) : <<d, 1, p>> = <<d, e[1], e[2]>>
      BY <3>3 DEF EntriesIn
    <3>5. e = <<e[1], e[2]>>
      BY <3>1, EntryIn
    <3>6. e = <<1, p>>
      BY <3>4, <3>5
    <3>7. QED
      BY <3>1, <3>6
  <2>2. QED
    BY <2>1 DEF DotsThere
<1>3. HeadsClear
  <2>1. SUFFICES ASSUME NEW d \in TreeDirs, NEW e \in Entries(d), e[1] > 1, e[2] <= 2
                 PROVE  EntryAt(d, e).typ # "dir"
    BY DEF HeadsClear
  <2>2. d \in Inode
    BY <1>1
  <2>3. e = <<e[1], e[2]>>
    BY <2>2, EntryIn
  <2>4. PICK x : x = <<d, e[1], e[2]>>
    OBVIOUS
  <2>5. x \in KeptEntries
    BY <1>1, <2>4 DEF TreeEntries
  <2>6. x[1] = d /\ x[2] = e[1] /\ x[3] = e[2]
    BY <2>4
  <2>7. ~NamesDir(x)
    BY <2>1, <2>5, <2>6 DEF HeadsThere
  <2>8. QED
    BY <2>1, <2>3, <2>6, <2>7 DEF NamesDir, IsName
<1>4. BlocksApart
  BY <1>1 DEF BlocksApart, BlocksOwn
<1>5. QED
  BY <1>2, <1>3, <1>4, MendShape DEF P1Sound

\* So can pass 2, once the pointers of the tree are right.
LEMMA MendFor2 ==
  ASSUME DiskTypeOK, Mendable, DirectoryPointersOK
  PROVE  ShapeKept /\ UpsSound
<1>1. /\ TreesThere /\ HeadsThere /\ BlocksOwn /\ LostRight /\ LostInOrder /\ LostFoundSound
  BY DEF Mendable
<1>2. TreesSound
  <2>1. ASSUME NEW d \in KeptDirs
        PROVE  {<<d, 1, 1>>, <<d, 1, 2>>} \subseteq KeptEntries /\ SelfOK(d)
    <3>1. 1 \in 1 .. 2 /\ 2 \in 1 .. 2
      OBVIOUS
    <3>2. <<d, 1, 1>> \in KeptEntries /\ <<d, 1, 2>> \in KeptEntries
      BY <1>1, <3>1 DEF HeadsThere
    <3>3. SelfOK(d)
      BY <1>1 DEF LostRight, DirectoryPointersOK
    <3>4. QED
      BY <3>2, <3>3
  <2>2. QED
    BY <1>1, <2>1 DEF TreesSound
<1>3. KeptApart
  <2>1. \A n \in Inode : Live(n) => get_inode_alloc_bit(n) = 1
    BY DEF Live
  <2>2. QED
    BY <1>1, <2>1 DEF KeptApart, BlocksOwn
<1>4. UpsSound
  <2>1. ASSUME NEW d \in KeptDirs, NEW c \in SubDirs(d) PROVE Pointer(c, 2) = d
    <3>1. CASE d \in TreeDirs
      <4>1. c # ROOT_INODE_NUM
        BY <3>1, MendShape, OneParent, <1>1
      <4>2. QED
        BY <3>1, <4>1 DEF DirectoryPointersOK
    <3>2. CASE d \notin TreeDirs
      BY <1>1, <3>2 DEF LostRight
    <3>3. QED
      BY <3>1, <3>2
  <2>2. QED
    BY <2>1 DEF UpsSound, DirectoryPointersOK
<1>5. QED
  BY <1>1, <1>2, <1>3, <1>4 DEF ShapeKept

\* And so can pass 4.
LEMMA MendFor4 ==
  ASSUME DiskTypeOK, Mendable, DirectoryPointersOK
  PROVE  TreeSound /\ LayoutSound
<1>1. TreesThere /\ LayoutKept
  BY DEF Mendable
<1>2. TreeEntries \subseteq KeptEntries /\ TreeDirs \subseteq KeptDirs /\ KeptDirs \subseteq Inode
  BY <1>1, KeptThere
<1>3. \A x \in TreeEntries : Named(x) \in Inode
  <2>1. TreeDirs \subseteq Inode
    BY <1>2
  <2>2. QED
    BY <2>1, TreeOver, EntryNamed
<1>4. NamesTrue
  <2>1. ASSUME NEW x \in TreeEntries, IsName(x), IsDir(Named(x)) PROVE NamesDir(x)
    BY <1>1, <1>2, <2>1 DEF TreesThere
  <2>2. \A x \in TreeEntries :
          LET n == Named(x)
          IN  /\ inodes[n].mode = "reg" => inodes[n].size <= DoubleIndirectMax
              /\ inodes[n].mode \in {"none", "other"} => inodes[n].blks = <<>>
    BY <1>1, <1>3 DEF LayoutKept
  <2>3. \A d \in TreeDirs : \A k \in DOMAIN inodes[d].blks : inodes[d].blks[k] # 0
    BY <1>1, <1>2 DEF LayoutKept, KeptDirs
  <2>4. QED
    BY <2>1, <2>2, <2>3 DEF NamesTrue
<1>5. QED
  BY <1>1, <1>4, MendShape DEF TreeSound, LayoutKept

\* What a char can count of all names it can count of those of the tree.
LEMMA FitTree ==
  ASSUME DiskTypeOK, TreesThere, KeptFit
  PROVE  NamesFit
<1>1. TreeEntries \subseteq KeptEntries /\ KeptDirs \subseteq Inode
  BY KeptThere
<1>2. ASSUME NEW n \in Inode PROVE NumRefs(n) <= CharMax
  <2>1. IsFiniteSet(Naming(KeptEntries, n)) /\ Cardinality(Naming(KeptEntries, n)) \in Nat
    BY <1>1, KeptOver, NamingFinite
  <2>2. Naming(TreeEntries, n) \subseteq Naming(KeptEntries, n)
    BY <1>1 DEF Naming
  <2>3. Cardinality(Naming(TreeEntries, n)) <= Cardinality(Naming(KeptEntries, n))
    BY <2>1, <2>2, FS_Subset
  <2>4. Cardinality(Naming(KeptEntries, n)) <= CharMax
    BY DEF KeptFit
  <2>5. NumRefs(n) \in Nat
    BY NumRefsNat
  <2>6. QED
    BY <2>1, <2>3, <2>4, <2>5, CharAssumption DEF NumRefs
<1>3. QED
  BY <1>2 DEF NamesFit

-----------------------------------------------------------------------------
(* What no pass writes *)

\* What no pass writes stays.
LEMMA LayoutStill ==
  ASSUME UNCHANGED <<inodes, ibitmap>>, LayoutKept
  PROVE  LayoutKept'
<1>1. BitsCover'
  BY DEF LayoutKept, BitsCover, InodeBit, get_inode_alloc_bit
<1>2. LayoutSound' /\ PointersFit' /\ BootBlockEmpty'
  BY DEF LayoutKept, LayoutSound, PointersFit, BootBlockEmpty
<1>3. \A n : IsDir(n)' <=> IsDir(n)
  BY DEF IsDir
<1>4. QED
  BY <1>1, <1>2, <1>3 DEF LayoutKept

\* With the directories, whose blocks are whose stays.
LEMMA OwnStill ==
  ASSUME UNCHANGED <<inodes, ibitmap>>, KeptDirs' = KeptDirs, BlocksOwn
  PROVE  BlocksOwn'
<1>1. \A n : /\ IsDir(n)' <=> IsDir(n)
             /\ get_inode_alloc_bit(n)' = get_inode_alloc_bit(n)
             /\ FirstBlock(n)' = FirstBlock(n)
  BY DEF IsDir, get_inode_alloc_bit, FirstBlock
<1>2. QED
  BY <1>1 DEF BlocksOwn

\* A step that writes no directory, and makes none one or none lost.
LEMMA StillMendable ==
  ASSUME UNCHANGED <<inodes, data, ibitmap>>, KeptDirs' = KeptDirs, Mendable
  PROVE  Mendable'
<1>1. /\ LayoutKept /\ BlocksOwn /\ TreesThere /\ HeadsThere /\ LostRight
      /\ LostInOrder /\ LostFoundSound
  BY DEF Mendable
<1>2. TreeDirs' = TreeDirs /\ TreeEntries' = TreeEntries
  BY TreeSame
<1>3. \A d : Entries(d)' = Entries(d)
  BY DEF Entries, IsDir, Visible
<1>4. \A d : SubDirs(d)' = SubDirs(d)
  BY <1>3 DEF SubDirs, Names, EntryAt, IsDir
<1>5. \A x : Named(x)' = Named(x) /\ (NamesDir(x)' <=> NamesDir(x))
  BY DEF Named, NamesDir, EntryAt, IsName
<1>6. \A n : IsDir(n)' <=> IsDir(n)
  BY DEF IsDir
<1>7. \A d, p : Pointer(d, p)' = Pointer(d, p)
  BY DEF Pointer
<1>8. KeptEntries' = KeptEntries
  BY <1>3 DEF KeptEntries
<1>9. LostFound' = LostFound
  BY DEF LostFound, search_dir_entry, Visible
<1>10. LayoutKept' /\ BlocksOwn'
  BY <1>1, LayoutStill, OwnStill
<1>11. TreesThere'
  BY <1>1, <1>5, <1>6, <1>8 DEF TreesThere, IsName
<1>12. HeadsThere'
  <2>1. \A d, e : EntryAt(d, e)' = EntryAt(d, e)
    BY DEF EntryAt
  <2>2. \A b : Hole(b)' <=> Hole(b)
    BY DEF Hole, Visible
  <2>3. /\ \A d \in KeptDirs : \A p \in 1 .. 2 :
             <<d, 1, p>> \in KeptEntries /\ EntryAt(d, <<1, p>>).typ = "dir"
        /\ \A p \in 1 .. 2 : EntryAt(ROOT_INODE_NUM, <<1, p>>).nm # "lost+found"
        /\ \A x \in KeptEntries : x[2] > 1 /\ x[3] <= 2 => ~NamesDir(x)
    BY <1>1 DEF HeadsThere
  <2>4. LostFound # 0 =>
          \A k \in DOMAIN inodes[LostFound].blks :
            k > 1 => Hole(data[inodes[LostFound].blks[k]]) \/ Len(data[inodes[LostFound].blks[k]]) >= 2
    BY <1>1 DEF HeadsThere
  <2>5. LostFound' # 0 =>
          \A k \in DOMAIN inodes'[LostFound'].blks :
            k > 1 => Hole(data'[inodes'[LostFound'].blks[k]])
                     \/ Len(data'[inodes'[LostFound'].blks[k]]) >= 2
    BY <1>9, <2>4
  <2>6. \A d \in KeptDirs' : \A p \in 1 .. 2 :
             <<d, 1, p>> \in KeptEntries' /\ EntryAt(d, <<1, p>>)'.typ = "dir"
    BY <1>8, <2>1, <2>3
  <2>7. \A p \in 1 .. 2 : EntryAt(ROOT_INODE_NUM, <<1, p>>)'.nm # "lost+found"
    BY <2>1, <2>3
  <2>8. \A x \in KeptEntries' : x[2] > 1 /\ x[3] <= 2 => ~NamesDir(x)'
    BY <1>5, <1>8, <2>3
  <2>9. QED
    BY <2>5, <2>6, <2>7, <2>8 DEF HeadsThere, Hole, Visible
<1>13. LostRight'
  BY <1>1, <1>2, <1>4, <1>7 DEF LostRight, SelfOK
<1>14. LostInOrder' /\ LostFoundSound'
  BY <1>1, <1>2, <1>4, <1>5, <1>7, <1>8, <1>9 DEF LostInOrder, LostFoundSound, IsName
<1>15. QED
  BY <1>10, <1>11, <1>12, <1>13, <1>14 DEF Mendable

-----------------------------------------------------------------------------
(* The heads of the directories go over a write *)

\* What a write leaves of the blocks of directories: what was seen is seen, of
\* the same type and name; and a later block gets no new head.
HeadsKept ==
  /\ \A d \in KeptDirs : \A k \in DOMAIN inodes[d].blks :
       LET b == inodes[d].blks[k]
       IN  /\ \A p \in Visible(data[b]) :
                /\ p \in Visible(data'[b])
                /\ data'[b][p].typ = data[b][p].typ /\ data'[b][p].nm = data[b][p].nm
           /\ \A p \in Visible(data'[b]) : k > 1 /\ p <= 2 => p \in Visible(data[b])
  /\ LostFound # 0 =>
       \A k \in DOMAIN inodes[LostFound].blks :
         LET b == inodes[LostFound].blks[k]
         IN  k > 1 /\ (Hole(data[b]) \/ Len(data[b]) >= 2) =>
               Hole(data'[b]) \/ Len(data'[b]) >= 2

\* The entries there are, directory by directory, also after a step.
KeptIs == \A x : x \in KeptEntries <=> x[1] \in KeptDirs /\ x \in EntriesIn(x[1])

\* Entries say which directory they are of.
LEMMA KeptIsOK == KeptIs
BY KeptOver, OverIs DEF KeptIs

\* The same after a step.
LEMMA KeptIsNext == KeptIs'
BY KeptIsOK, PTL

\* The heads stay what HeadsThere asks for.
LEMMA HeadsStay ==
  ASSUME DiskTypeOK, DiskTypeOK', TreesThere, HeadsThere, HeadsKept, UNCHANGED inodes,
         KeptDirs' = KeptDirs, LostFound' = LostFound
  PROVE  HeadsThere'
<1>1. /\ KeptDirs \subseteq Inode /\ ROOT_INODE_NUM \in KeptDirs
      /\ \A d \in KeptDirs : IsDir(d) /\ IsDir(d)'
  BY KeptThere DEF KeptDirs, IsDir
<1>2. /\ \A d \in KeptDirs : \A p \in 1 .. 2 :
           <<d, 1, p>> \in KeptEntries /\ EntryAt(d, <<1, p>>).typ = "dir"
      /\ \A p \in 1 .. 2 : EntryAt(ROOT_INODE_NUM, <<1, p>>).nm # "lost+found"
      /\ \A x \in KeptEntries : x[2] > 1 /\ x[3] <= 2 => ~NamesDir(x)
      /\ LostFound # 0 =>
           \A k \in DOMAIN inodes[LostFound].blks :
             k > 1 => Hole(data[inodes[LostFound].blks[k]])
                      \/ Len(data[inodes[LostFound].blks[k]]) >= 2
  BY DEF HeadsThere
<1>3. \A d \in KeptDirs : \A k \in DOMAIN inodes[d].blks :
        /\ \A p \in Visible(data[inodes[d].blks[k]]) :
             /\ p \in Visible(data'[inodes[d].blks[k]])
             /\ data'[inodes[d].blks[k]][p].typ = data[inodes[d].blks[k]][p].typ
             /\ data'[inodes[d].blks[k]][p].nm = data[inodes[d].blks[k]][p].nm
        /\ \A p \in Visible(data'[inodes[d].blks[k]]) :
             k > 1 /\ p <= 2 => p \in Visible(data[inodes[d].blks[k]])
  BY DEF HeadsKept
<1>4. \A x : x \in KeptEntries <=> x[1] \in KeptDirs /\ x \in EntriesIn(x[1])
  BY KeptOver, OverIs
<1>5. \A x : x \in KeptEntries' <=> x[1] \in KeptDirs /\ x \in EntriesIn(x[1])'
  BY KeptIsNext DEF KeptIs
<1>6. ASSUME NEW d \in KeptDirs, NEW p \in 1 .. 2
      PROVE  /\ 1 \in DOMAIN inodes[d].blks /\ p \in Visible(data[inodes[d].blks[1]])
             /\ <<d, 1, p>> \in KeptEntries'
             /\ EntryAt(d, <<1, p>>)'.typ = EntryAt(d, <<1, p>>).typ
             /\ EntryAt(d, <<1, p>>)'.nm = EntryAt(d, <<1, p>>).nm
  <2> DEFINE x == <<d, 1, p>>
  <2>1. x[1] = d /\ x[2] = 1 /\ x[3] = p
    OBVIOUS
  <2>2. x \in EntriesIn(d)
    BY <1>2, <1>4, <2>1
  <2>3. 1 \in DOMAIN inodes[d].blks /\ p \in Visible(data[inodes[d].blks[1]])
    BY <2>1, <2>2, EntriesInIs
  <2>4. /\ p \in Visible(data'[inodes[d].blks[1]])
        /\ data'[inodes[d].blks[1]][p].typ = data[inodes[d].blks[1]][p].typ
        /\ data'[inodes[d].blks[1]][p].nm = data[inodes[d].blks[1]][p].nm
    BY <1>3, <2>3
  <2>5. x \in EntriesIn(d)'
    BY <1>1, <2>1, <2>3, <2>4, EntriesAfter
  <2>6. x \in KeptEntries'
    BY <1>5, <2>1, <2>5
  <2>7. <<1, p>>[1] = 1 /\ <<1, p>>[2] = p
    OBVIOUS
  <2>8. QED
    BY <2>3, <2>4, <2>6, <2>7 DEF EntryAt
<1>7. ASSUME NEW x \in KeptEntries', x[2] > 1, x[3] <= 2
      PROVE  ~NamesDir(x)'
  <2>1. x[1] \in KeptDirs /\ x \in EntriesIn(x[1])' /\ IsDir(x[1])
    BY <1>1, <1>5
  <2>2. /\ x = <<x[1], x[2], x[3]>> /\ x[2] \in DOMAIN inodes[x[1]].blks
        /\ x[3] \in Visible(data'[inodes[x[1]].blks[x[2]]])
    BY <2>1, EntriesAfter
  <2>3. x[3] \in Visible(data[inodes[x[1]].blks[x[2]]])
    BY <1>3, <1>7, <2>1, <2>2
  <2>4. x \in EntriesIn(x[1])
    BY <2>1, <2>2, <2>3, EntriesInIs
  <2>5. ~NamesDir(x)
    BY <1>2, <1>4, <1>7, <2>1, <2>4
  <2>6. data'[inodes[x[1]].blks[x[2]]][x[3]].typ = data[inodes[x[1]].blks[x[2]]][x[3]].typ
    BY <1>3, <2>1, <2>2, <2>3
  <2>7. EntryAt(x[1], <<x[2], x[3]>>)'.typ = EntryAt(x[1], <<x[2], x[3]>>).typ
    <3>1. <<x[2], x[3]>>[1] = x[2] /\ <<x[2], x[3]>>[2] = x[3]
      OBVIOUS
    <3>2. QED
      BY <2>6, <3>1 DEF EntryAt
  <2>8. QED
    BY <2>5, <2>7 DEF NamesDir, IsName
<1>8. LostFound' # 0 =>
        \A k \in DOMAIN inodes'[LostFound'].blks :
          k > 1 => Hole(data'[inodes'[LostFound'].blks[k]])
                   \/ Len(data'[inodes'[LostFound'].blks[k]]) >= 2
  BY <1>2 DEF HeadsKept
<1>9. \A d \in KeptDirs' : \A p \in 1 .. 2 :
        <<d, 1, p>> \in KeptEntries' /\ EntryAt(d, <<1, p>>)'.typ = "dir"
  BY <1>2, <1>6
<1>10. \A p \in 1 .. 2 : EntryAt(ROOT_INODE_NUM, <<1, p>>)'.nm # "lost+found"
  BY <1>1, <1>2, <1>6
<1>11. QED
  BY <1>7, <1>8, <1>9, <1>10 DEF HeadsThere, Hole, Visible

-----------------------------------------------------------------------------
(* One of the first two entries of a directory comes to name another inode *)

\* Of what scans see of the directories, only the number in entry p of d.
Restamped(d, p) ==
  \A c \in KeptDirs : \A k \in DOMAIN inodes[c].blks :
    LET b == inodes[c].blks[k]
    IN  /\ Visible(data'[b]) = Visible(data[b]) /\ Len(data'[b]) = Len(data[b])
        /\ DOMAIN data'[b] = DOMAIN data[b]
        /\ \A q \in DOMAIN data[b] :
             /\ data'[b][q].typ = data[b][q].typ /\ data'[b][q].nm = data[b][q].nm
             /\ c # d \/ k # 1 \/ q # p => data'[b][q].ino = data[b][q].ino

\* What a scan sees is a part of the block.
LEMMA VisibleIn == ASSUME NEW block PROVE Visible(block) \subseteq DOMAIN block
BY DEF Visible

\* The name lost+found is found where it was, for none of the first two has it.
LEMMA RestampLost ==
  ASSUME DiskTypeOK, TreesThere, HeadsThere, UNCHANGED inodes, NEW d, NEW p \in 1 .. 2,
         Restamped(d, p)
  PROVE  LostFound' = LostFound
<1> DEFINE b == inodes[ROOT_INODE_NUM].blks[1]
           hits == {q \in Visible(data[b]) : data[b][q].nm = "lost+found"}
           hitsNext == {q \in Visible(data'[b]) : data'[b][q].nm = "lost+found"}
           first == CHOOSE q \in hits : \A r \in hits : q <= r
<1>1. ROOT_INODE_NUM \in KeptDirs
  BY KeptThere
<1>2. 1 \in DOMAIN inodes[ROOT_INODE_NUM].blks
  <2>1. inodes[ROOT_INODE_NUM].mode # "lnk" /\ ROOT_INODE_NUM \in Inode
    BY SizesAssumption DEF DiskTypeOK, IsImage, Inode, ROOT_INODE_NUM
  <2>2. inodes[ROOT_INODE_NUM].blks \in Seq(Block) /\ inodes[ROOT_INODE_NUM].blks # <<>>
    BY <2>1 DEF DiskTypeOK, IsImage
  <2>3. QED
    BY <2>2
<1>3. /\ Visible(data'[b]) = Visible(data[b]) /\ Visible(data[b]) \subseteq DOMAIN data[b]
      /\ \A q \in DOMAIN data[b] :
           data'[b][q].nm = data[b][q].nm /\ (q # p => data'[b][q].ino = data[b][q].ino)
  BY <1>1, <1>2, VisibleIn DEF Restamped
<1>4. hitsNext = hits
  BY <1>3
<1>5. ASSUME hits # {} PROVE data'[b][first].ino = data[b][first].ino
  <2>1. b \in Block /\ data[b] \in Seq(Entry)
    <3>1. inodes[ROOT_INODE_NUM].mode # "lnk" /\ ROOT_INODE_NUM \in Inode
      BY SizesAssumption DEF DiskTypeOK, IsImage, Inode, ROOT_INODE_NUM
    <3>2. b \in Block
      BY <1>2, <3>1, BlockOK
    <3>3. QED
      BY <3>2 DEF DiskTypeOK, IsImage
  <2>2. hits \subseteq Nat
    BY <1>3, <2>1
  <2>3. \E q \in hits : \A r \in hits : q <= r
    <3> HIDE DEF hits
    <3>1. QED
      BY <1>5, <2>2, FirstOf
  <2>4. first \in hits
    <3> HIDE DEF hits
    <3>1. QED
      BY <2>3
  <2>5. first # p
    <3>1. EntryAt(ROOT_INODE_NUM, <<1, p>>).nm # "lost+found"
      BY DEF HeadsThere
    <3>2. <<1, p>>[1] = 1 /\ <<1, p>>[2] = p
      OBVIOUS
    <3>3. data[b][p].nm # "lost+found"
      BY <3>1, <3>2 DEF EntryAt
    <3>4. data[b][first].nm = "lost+found"
      BY <2>4
    <3>5. QED
      BY <3>3, <3>4
  <2>6. first \in DOMAIN data[b]
    BY <1>3, <2>4
  <2>7. QED
    BY <1>3, <2>5, <2>6
<1>6. LostFound = IF hits = {} THEN 0 ELSE data[b][first].ino
  BY DEF LostFound, search_dir_entry
<1>7. LostFound' = IF hitsNext = {} THEN 0
                   ELSE data'[b][CHOOSE q \in hitsNext : \A r \in hitsNext : q <= r].ino
  BY DEF LostFound, search_dir_entry, Visible
<1>8. QED
  <2> HIDE DEF hits, hitsNext, b
  <2>1. QED
    BY <1>4, <1>5, <1>6, <1>7

\* The entries of the tree, directory by directory, also after a step.
TreeEntriesAre == \A x : x \in TreeEntries <=> x[1] \in TreeDirs /\ x \in EntriesIn(x[1])

\* They say which directory they are of.
LEMMA TreeEntriesAreOK == TreeEntriesAre
BY TreeEntriesIs DEF TreeEntriesAre

\* The same after a step.
LEMMA TreeEntriesNext == TreeEntriesAre'
BY TreeEntriesAreOK, PTL

\* lost+found is a directory of the tree.
LEMMA LostInTree ==
  ASSUME DiskTypeOK, LostFoundSound, LostFound # 0
  PROVE  LostFound \in TreeDirs
BY TreeClosed DEF LostFoundSound, Closed

\* The trees stay, with their names and heads.
LEMMA RestampKeeps ==
  ASSUME DiskTypeOK, DiskTypeOK', TreesThere, HeadsThere, LostFoundSound,
         UNCHANGED <<inodes, links, ibitmap>>, NEW d, NEW p \in 1 .. 2, Restamped(d, p)
  PROVE  /\ TreeDirs' = TreeDirs /\ KeptDirs' = KeptDirs /\ KeptEntries' = KeptEntries
         /\ TreeEntries' = TreeEntries
         /\ \A c \in KeptDirs : EntriesIn(c)' = EntriesIn(c) /\ SubDirs(c)' = SubDirs(c)
         /\ \A x \in KeptEntries :
              /\ NamesDir(x)' <=> NamesDir(x)
              /\ x[1] # d \/ x[2] # 1 \/ x[3] # p => Named(x)' = Named(x)
         /\ LostFound' = LostFound /\ TreesThere' /\ HeadsThere'
<1>1. /\ KeptDirs \subseteq Inode /\ TreeDirs \subseteq KeptDirs
      /\ \A c \in KeptDirs : IsDir(c) /\ IsDir(c)'
  BY KeptThere DEF KeptDirs, IsDir
<1>2. \A c \in KeptDirs : EntriesIn(c)' = EntriesIn(c)
  <2>1. ASSUME NEW c \in KeptDirs, NEW x PROVE x \in EntriesIn(c)' <=> x \in EntriesIn(c)
    <3>1. x \in EntriesIn(c)' <=>
            /\ x = <<c, x[2], x[3]>> /\ x[2] \in DOMAIN inodes[c].blks
            /\ x[3] \in Visible(data'[inodes[c].blks[x[2]]])
      BY <1>1, EntriesAfter
    <3>2. x \in EntriesIn(c) <=>
            /\ x = <<c, x[2], x[3]>> /\ x[2] \in DOMAIN inodes[c].blks
            /\ x[3] \in Visible(data[inodes[c].blks[x[2]]])
      BY <1>1, EntriesInIs
    <3>3. \A k \in DOMAIN inodes[c].blks :
            Visible(data'[inodes[c].blks[k]]) = Visible(data[inodes[c].blks[k]])
      BY DEF Restamped
    <3>4. QED
      BY <3>1, <3>2, <3>3
  <2>2. QED
    BY <2>1
<1>3. ASSUME NEW c \in KeptDirs, NEW x \in EntriesIn(c)
      PROVE  /\ NamesDir(x)' <=> NamesDir(x)
             /\ x[1] # d \/ x[2] # 1 \/ x[3] # p => Named(x)' = Named(x)
             /\ x[1] = c
  <2>1. /\ x = <<c, x[2], x[3]>> /\ x[2] \in DOMAIN inodes[c].blks
        /\ x[3] \in Visible(data[inodes[c].blks[x[2]]])
    BY EntriesInIs
  <2>2. x[1] = c
    BY EntryOwner
  <2>3. x[3] \in DOMAIN data[inodes[c].blks[x[2]]]
    BY <2>1, VisibleIn
  <2>4. <<x[2], x[3]>>[1] = x[2] /\ <<x[2], x[3]>>[2] = x[3]
    OBVIOUS
  <2>5. /\ EntryAt(c, <<x[2], x[3]>>)'.typ = EntryAt(c, <<x[2], x[3]>>).typ
        /\ c # d \/ x[2] # 1 \/ x[3] # p =>
             EntryAt(c, <<x[2], x[3]>>)'.ino = EntryAt(c, <<x[2], x[3]>>).ino
    BY <2>1, <2>3, <2>4 DEF Restamped, EntryAt
  <2>6. QED
    BY <2>2, <2>5 DEF NamesDir, IsName, Named
<1>4. ASSUME NEW c \in KeptDirs PROVE SubDirs(c)' = SubDirs(c)
  <2>1. ASSUME NEW n PROVE n \in SubDirs(c)' <=> n \in SubDirs(c)
    <3>1. n \in SubDirs(c) <=> IsDir(n) /\ \E x \in EntriesIn(c) : NamesDir(x) /\ Named(x) = n
      BY SubDirsNamed
    <3>2. n \in SubDirs(c)' <=> IsDir(n)' /\ \E x \in EntriesIn(c)' : NamesDir(x)' /\ Named(x)' = n
      BY SubDirsNamedNext
    <3>3. \A x \in EntriesIn(c) : NamesDir(x) => Named(x)' = Named(x)
      BY <1>3 DEF NamesDir, IsName
    <3>4. IsDir(n)' <=> IsDir(n)
      BY DEF IsDir
    <3>5. QED
      BY <1>2, <1>3, <3>1, <3>2, <3>3, <3>4
  <2>2. QED
    BY <2>1
<1>5. TreeDirs' = TreeDirs
  BY <1>1, <1>4, TreeLike
<1>6. KeptDirs' = KeptDirs
  BY <1>5 DEF KeptDirs, IsDir, Live, get_inode_alloc_bit
<1>7. KeptEntries' = KeptEntries
  <2>1. \A x : x \in KeptEntries' <=> x \in KeptEntries
    BY <1>2, <1>6, KeptIsOK, KeptIsNext DEF KeptIs
  <2>2. QED
    BY <2>1
<1>8. TreeEntries' = TreeEntries
  <2>1. \A x : x \in TreeEntries <=> x[1] \in TreeDirs /\ x \in EntriesIn(x[1])
    BY TreeEntriesIs
  <2>2. \A x : x \in TreeEntries' <=> x[1] \in TreeDirs' /\ x \in EntriesIn(x[1])'
    BY TreeEntriesNext DEF TreeEntriesAre
  <2>3. \A x : x \in TreeEntries' <=> x \in TreeEntries
    BY <1>1, <1>2, <1>5, <2>1, <2>2
  <2>4. QED
    BY <2>3
<1>9. \A x \in KeptEntries :
        /\ NamesDir(x)' <=> NamesDir(x)
        /\ x[1] # d \/ x[2] # 1 \/ x[3] # p => Named(x)' = Named(x)
  BY <1>3, KeptIsOK DEF KeptIs
<1>10. LostFound' = LostFound
  BY RestampLost
<1>11. TreesThere'
  <2>1. \A x \in KeptEntries : IsName(x) => Named(x)' = Named(x)
    BY <1>9 DEF IsName
  <2>2. \A x \in KeptEntries : NamesDir(x) => IsName(x)
    BY DEF NamesDir
  <2>3. \A x : IsDir(Named(x))' <=> IsDir(Named(x)')
    BY DEF IsDir
  <2>4. \A x \in KeptEntries' : IsName(x) =>
          /\ NamesDir(x)' <=> IsDir(Named(x))'
          /\ IsDir(Named(x))' => Named(x)' \in KeptDirs' \ {ROOT_INODE_NUM}
    BY <1>6, <1>7, <1>9, <2>1, <2>3 DEF TreesThere
  <2>5. \A x, y \in KeptEntries' : NamesDir(x)' /\ NamesDir(y)' /\ Named(x)' = Named(y)' => x = y
    BY <1>7, <1>9, <2>1, <2>2 DEF TreesThere
  <2>6. QED
    BY <2>4, <2>5 DEF TreesThere, IsName
<1>12. HeadsThere'
  <2>1. HeadsKept
    <3>1. \A c \in KeptDirs : \A k \in DOMAIN inodes[c].blks :
            LET b == inodes[c].blks[k]
            IN  /\ \A q \in Visible(data[b]) :
                     /\ q \in Visible(data'[b])
                     /\ data'[b][q].typ = data[b][q].typ /\ data'[b][q].nm = data[b][q].nm
                /\ \A q \in Visible(data'[b]) : k > 1 /\ q <= 2 => q \in Visible(data[b])
      BY VisibleIn DEF Restamped
    <3>2. ASSUME LostFound # 0, NEW k \in DOMAIN inodes[LostFound].blks, k > 1,
                 Hole(data[inodes[LostFound].blks[k]]) \/ Len(data[inodes[LostFound].blks[k]]) >= 2
          PROVE  Hole(data'[inodes[LostFound].blks[k]])
                 \/ Len(data'[inodes[LostFound].blks[k]]) >= 2
      <4> DEFINE b == inodes[LostFound].blks[k]
      <4>1. LostFound \in KeptDirs
        BY <1>1, <3>2, LostInTree
      <4>2. /\ Visible(data'[b]) = Visible(data[b]) /\ Len(data'[b]) = Len(data[b])
            /\ DOMAIN data'[b] = DOMAIN data[b]
        BY <3>2, <4>1 DEF Restamped
      <4>3. b \in Block
        BY <1>1, <3>2, <4>1, BlockOK DEF IsDir
      <4>4. data[b] \in Seq(Entry) /\ data'[b] \in Seq(Entry)
        BY <4>3 DEF DiskTypeOK, IsImage
      <4>5. data[b] = <<>> => data'[b] = <<>>
        BY <4>2, <4>4
      <4>6. QED
        BY <3>2, <4>2, <4>5 DEF Hole
    <3>3. QED
      BY <3>1, <3>2 DEF HeadsKept
  <2>2. QED
    BY <1>6, <1>10, <2>1, HeadsStay
<1>13. QED
  BY <1>2, <1>4, <1>5, <1>6, <1>7, <1>8, <1>9, <1>10, <1>11, <1>12

\* A directory has its first two entries.
LEMMA HeadSeen ==
  ASSUME DiskTypeOK, TreesThere, HeadsThere, NEW d \in KeptDirs, NEW p \in 1 .. 2
  PROVE  /\ 1 \in DOMAIN inodes[d].blks /\ inodes[d].blks[1] \in Block
         /\ data[inodes[d].blks[1]] \in Seq(Entry)
         /\ p \in Visible(data[inodes[d].blks[1]]) /\ <<d, 1, p>> \in EntriesIn(d)
         /\ <<d, 1, p>> \in KeptEntries /\ p \in 1 .. Len(data[inodes[d].blks[1]])
         /\ data[inodes[d].blks[1]][p].ino # 0 /\ FirstBlock(d) = inodes[d].blks[1]
<1>1. <<d, 1, p>>[1] = d /\ <<d, 1, p>>[2] = 1 /\ <<d, 1, p>>[3] = p
  OBVIOUS
<1>2. <<d, 1, p>> \in KeptEntries
  BY DEF HeadsThere
<1>3. <<d, 1, p>> \in EntriesIn(d)
  BY <1>1, <1>2, KeptIsOK DEF KeptIs
<1>4. 1 \in DOMAIN inodes[d].blks /\ p \in Visible(data[inodes[d].blks[1]])
  BY <1>1, <1>3, EntriesInIs
<1>5. d \in Inode /\ inodes[d].mode # "lnk"
  BY KeptThere DEF KeptDirs, IsDir
<1>6. inodes[d].blks[1] \in Block
  BY <1>4, <1>5, BlockOK
<1>7. data[inodes[d].blks[1]] \in Seq(Entry)
  BY <1>6 DEF DiskTypeOK, IsImage
<1>8. p \in 1 .. Len(data[inodes[d].blks[1]]) /\ data[inodes[d].blks[1]][p].ino # 0
  BY <1>4, <1>7 DEF Visible
<1>9. inodes[d].blks # <<>>
  BY <1>4
<1>10. QED
  BY <1>2, <1>3, <1>4, <1>6, <1>7, <1>8, <1>9 DEF FirstBlock

\* A block of a directory is of no other.
LEMMA RepointRestamps ==
  ASSUME DiskTypeOK, TreesThere, HeadsThere, BlocksOwn, NEW d \in KeptDirs, NEW p \in 1 .. 2,
         Repointed(d, p)
  PROVE  Restamped(d, p)
<1> DEFINE o == inodes[d].blks[1]
<1>1. 1 \in DOMAIN inodes[d].blks /\ o \in Block /\ data[o] \in Seq(Entry)
      /\ p \in 1 .. Len(data[o]) /\ data[o][p].ino # 0
  BY HeadSeen
<1>2. PICK n \in Inode : data' = [data EXCEPT ![o] = PointTo(data[o], p, n)]
  BY DEF Repointed
<1>3. data \in [Block -> Seq(Entry)] /\ KeptDirs \subseteq Inode
  BY KeptThere DEF DiskTypeOK, IsImage
<1> HIDE DEF o
<1>4. /\ Visible(PointTo(data[o], p, n)) = Visible(data[o])
      /\ DOMAIN PointTo(data[o], p, n) = DOMAIN data[o]
      /\ \A q \in DOMAIN data[o] : PointTo(data[o], p, n)[q].typ = data[o][q].typ
  BY <1>1, PointToVisible
<1>5. /\ PointTo(data[o], p, n) \in Seq(Entry) /\ Len(PointTo(data[o], p, n)) = Len(data[o])
      /\ \A q \in 1 .. Len(data[o]) : q # p => PointTo(data[o], p, n)[q] = data[o][q]
  BY <1>1, PointToOK
<1>6. PointTo(data[o], p, n)[p].nm = data[o][p].nm
  <2>1. PointTo(data[o], p, n)[p] = [data[o][p] EXCEPT !.ino = n]
    BY <1>1 DEF PointTo
  <2>2. data[o][p] \in Entry
    BY <1>1
  <2>3. QED
    BY <2>1, <2>2 DEF Entry
<1>7. \A q \in DOMAIN data[o] : PointTo(data[o], p, n)[q].nm = data[o][q].nm
  BY <1>1, <1>5, <1>6
<1>8. ASSUME NEW c \in KeptDirs, NEW k \in DOMAIN inodes[c].blks
      PROVE  LET b == inodes[c].blks[k]
             IN  /\ Visible(data'[b]) = Visible(data[b]) /\ Len(data'[b]) = Len(data[b])
                 /\ DOMAIN data'[b] = DOMAIN data[b]
                 /\ \A q \in DOMAIN data[b] :
                      /\ data'[b][q].typ = data[b][q].typ /\ data'[b][q].nm = data[b][q].nm
                      /\ c # d \/ k # 1 \/ q # p => data'[b][q].ino = data[b][q].ino
  <2> DEFINE b == inodes[c].blks[k]
  <2>1. b \in Block
    <3>1. c \in Inode /\ inodes[c].mode # "lnk"
      BY <1>3 DEF KeptDirs, IsDir
    <3>2. QED
      BY <3>1, BlockOK
  <2>2. CASE b # o
    BY <1>2, <1>3, <2>1, <2>2
  <2>3. CASE b = o
    <3>1. data'[b] = PointTo(data[o], p, n)
      BY <1>1, <1>2, <1>3, <2>3
    <3>2. c = d /\ k = 1
      <4>1. inodes[c].blks[k] = inodes[d].blks[1]
        BY <2>3 DEF o
      <4>2. 1 \in DOMAIN inodes[d].blks
        BY <1>1
      <4>3. QED
        BY <4>1, <4>2 DEF BlocksOwn
    <3>3. \A q \in DOMAIN data[o] : q # p => PointTo(data[o], p, n)[q] = data[o][q]
      BY <1>1, <1>5
    <3>4. QED
      BY <1>4, <1>5, <1>7, <2>3, <3>1, <3>2, <3>3
  <2>4. QED
    BY <2>2, <2>3
<1>9. QED
  BY <1>8, Zenon DEF Restamped

\* A lost directory leads to lost ones only.
LEMMA LostApart ==
  ASSUME DiskTypeOK, TreesThere, NEW d \in KeptDirs, d \notin TreeDirs, NEW c \in SubDirs(d)
  PROVE  c \in KeptDirs /\ c \notin TreeDirs
<1>1. /\ Whole(KeptDirs) /\ TreeDirs \subseteq KeptDirs
      /\ \A x \in KeptEntries : NamesDir(x) => Named(x) \in KeptDirs \ {ROOT_INODE_NUM}
      /\ \A x, y \in KeptEntries : NamesDir(x) /\ NamesDir(y) /\ Named(x) = Named(y) => x = y
  BY KeptThere DEF TreesThere
<1>2. c \in KeptDirs
  BY <1>1 DEF Whole
<1>3. PICK x \in EntriesIn(d) : NamesDir(x) /\ Named(x) = c
  BY SubDirsNamed
<1>4. x[1] = d /\ x \in KeptEntries
  BY EntryOwner, KeptIsOK DEF KeptIs
<1>5. ASSUME c \in TreeDirs PROVE FALSE
  <2>1. c # ROOT_INODE_NUM
    BY <1>1, <1>3, <1>4
  <2>2. PICK e \in TreeDirs : c \in SubDirs(e)
    BY <1>5, <2>1, TreeParent
  <2>3. PICK y \in EntriesIn(e) : NamesDir(y) /\ Named(y) = c
    BY <2>2, SubDirsNamed
  <2>4. e \in KeptDirs
    BY <1>1
  <2>5. y[1] = e
    BY EntryOwner
  <2>6. y \in KeptEntries
    BY <2>4, <2>5, KeptIsOK DEF KeptIs
  <2>7. x = y
    BY <1>1, <1>3, <1>4, <2>3, <2>6
  <2>8. QED
    BY <1>4, <2>5, <2>7
<1>6. QED
  BY <1>2, <1>5

\* A pointer of the tree comes to name another inode: the lost ones stay.
LEMMA RestampMends ==
  ASSUME DiskTypeOK, DiskTypeOK', Mendable, UNCHANGED <<inodes, links, ibitmap>>,
         NEW d \in TreeDirs, NEW p \in 1 .. 2, Restamped(d, p)
  PROVE  Mendable'
<1>1. /\ LayoutKept /\ BlocksOwn /\ TreesThere /\ HeadsThere /\ LostRight
      /\ LostInOrder /\ LostFoundSound
  BY DEF Mendable
<1>2. /\ TreeDirs' = TreeDirs /\ KeptDirs' = KeptDirs /\ KeptEntries' = KeptEntries
      /\ \A c \in KeptDirs : SubDirs(c)' = SubDirs(c)
      /\ \A x \in KeptEntries :
           /\ NamesDir(x)' <=> NamesDir(x)
           /\ x[1] # d \/ x[2] # 1 \/ x[3] # p => Named(x)' = Named(x)
      /\ LostFound' = LostFound /\ TreesThere' /\ HeadsThere'
  BY <1>1, RestampKeeps
<1>3. /\ ROOT_INODE_NUM \in KeptDirs /\ TreeDirs \subseteq KeptDirs
  BY <1>1, KeptThere
<1>4. LayoutKept' /\ BlocksOwn'
  BY <1>1, <1>2, LayoutStill, OwnStill
<1>5. LostFoundSound'
  BY <1>1, <1>2, <1>3 DEF LostFoundSound
<1>6. ASSUME NEW c \in KeptDirs \ TreeDirs, NEW q \in 1 .. 2
      PROVE  Pointer(c, q)' = Pointer(c, q)
  <2>1. <<c, 1, q>> \in KeptEntries
    BY <1>1, HeadSeen
  <2>2. <<c, 1, q>>[1] = c
    OBVIOUS
  <2>3. Named(<<c, 1, q>>)' = Named(<<c, 1, q>>)
    BY <1>2, <2>1, <2>2
  <2>4. Pointer(c, q) = Named(<<c, 1, q>>) /\ Pointer(c, q)' = Named(<<c, 1, q>>)'
    BY PointerNamed DEF Pointer, Named, EntryAt
  <2>5. QED
    BY <2>3, <2>4
<1>7. LostRight'
  <2>1. ASSUME NEW c \in KeptDirs \ TreeDirs
        PROVE  Pointer(c, 1)' = c /\ \A e \in SubDirs(c) : Pointer(e, 2)' = c
    <3>1. Pointer(c, 1) = c /\ \A e \in SubDirs(c) : Pointer(e, 2) = c
      BY <1>1 DEF LostRight, SelfOK
    <3>2. \A e \in SubDirs(c) : e \in KeptDirs \ TreeDirs
      BY <1>1, LostApart
    <3>3. 1 \in 1 .. 2 /\ 2 \in 1 .. 2
      OBVIOUS
    <3>4. QED
      BY <1>6, <3>1, <3>2, <3>3
  <2>2. QED
    BY <1>2, <2>1 DEF LostRight, SelfOK
<1>8. LostInOrder'
  <2>1. \A x \in KeptEntries : IsName(x) => Named(x)' = Named(x)
    BY <1>2 DEF IsName
  <2>2. \A x \in KeptEntries : NamesDir(x) => IsName(x)
    BY DEF NamesDir
  <2>3. 2 \in 1 .. 2
    OBVIOUS
  <2>4. \A x \in KeptEntries' : IsName(x) /\ x[1] \notin TreeDirs' => x[1] < Named(x)'
    BY <1>1, <1>2, <2>1 DEF LostInOrder
  <2>5. ASSUME NEW c \in KeptDirs \ TreeDirs, \A x \in KeptEntries : NamesDir(x)' => Named(x)' # c
        PROVE  Pointer(c, 2)' <= c \/ Pointer(c, 2)' \in TreeDirs
    <3>1. \A x \in KeptEntries : NamesDir(x) => Named(x) # c
      BY <1>2, <2>1, <2>2, <2>5
    <3>2. Pointer(c, 2) <= c \/ Pointer(c, 2) \in TreeDirs
      BY <1>1, <3>1 DEF LostInOrder
    <3>3. QED
      BY <1>6, <2>3, <3>2
  <2>6. \A c \in KeptDirs' \ TreeDirs' :
          (\A x \in KeptEntries' : NamesDir(x)' => Named(x)' # c) =>
            Pointer(c, 2)' <= c \/ Pointer(c, 2)' \in TreeDirs'
    BY <1>2, <2>5
  <2>7. QED
    BY <2>4, <2>6 DEF LostInOrder, IsName
<1>9. QED
  BY <1>2, <1>4, <1>5, <1>7, <1>8 DEF Mendable

\* A correction of pass 1 leaves a partition that can be put in order one.
LEMMA CorrectMends ==
  ASSUME P1Inv, P1PathInv, P1Correct, Mendable
  PROVE  Mendable'
<1>1. TreesThere /\ HeadsThere /\ BlocksOwn /\ DiskTypeOK
  BY DEF Mendable, P1Inv, P1TypeOK
<1>2. PICK d, p : d = Top1.dir /\ p = Top1.pos
  OBVIOUS
<1>3. d \in TreeDirs /\ p \in 1 .. 2 /\ Repointed(d, p) /\ DiskTypeOK'
  BY <1>2, PathCorrected
<1>4. d \in KeptDirs
  BY <1>1, <1>3, KeptThere
<1>5. Restamped(d, p)
  BY <1>1, <1>3, <1>4, RepointRestamps
<1>6. UNCHANGED <<inodes, links, ibitmap>>
  BY DEF P1Correct
<1>7. QED
  BY <1>1, <1>3, <1>5, <1>6, RestampMends

\* The second write of add_to_lost_found changes of the directories at most the
\* ".." of the inode in hand.
LEMMA SetParentRestamps ==
  ASSUME DiskTypeOK, TreesThere, HeadsThere, BlocksOwn, P2SetParent, NEW n, n = i2,
         Live(n), n \in Inode, lf \in Inode
  PROVE  Restamped(n, 2)
<1> DEFINE b == FirstBlock(n)
<1>1. data \in [Block -> Seq(Entry)] /\ KeptDirs \subseteq Inode
  BY KeptThere DEF DiskTypeOK, IsImage
<1>2. CASE UNCHANGED data
  BY <1>2 DEF Restamped
<1>3. CASE Len(data[b]) >= 2 /\ b \in Block /\ data' = [data EXCEPT ![b][2].ino = lf]
  <2>1. CASE IsDir(n)
    <3>1. n \in KeptDirs
      BY <2>1 DEF KeptDirs
    <3>2. 2 \in 1 .. 2
      OBVIOUS
    <3>3. b = inodes[n].blks[1]
      BY <1>1, <3>1, <3>2, HeadSeen
    <3>4. data' = [data EXCEPT ![b] = PointTo(data[b], 2, lf)]
      BY <1>1, <1>3 DEF PointTo
    <3>5. Repointed(n, 2)
      BY <3>3, <3>4 DEF Repointed, P2SetParent
    <3>6. QED
      BY <3>1, <3>2, <3>5, RepointRestamps
  <2>2. CASE ~IsDir(n)
    <3>1. \A d \in KeptDirs : \A k \in DOMAIN inodes[d].blks : inodes[d].blks[k] # b
      BY <2>2 DEF BlocksOwn, Live
    <3>2. \A d \in KeptDirs : \A k \in DOMAIN inodes[d].blks : inodes[d].blks[k] \in Block
      <4>1. \A d \in KeptDirs : d \in Inode /\ inodes[d].mode # "lnk"
        BY <1>1 DEF KeptDirs, IsDir
      <4>2. QED
        BY <4>1, BlockOK
    <3>3. \A c \in Block : c # b => data'[c] = data[c]
      BY <1>1, <1>3
    <3>4. \A d \in KeptDirs : \A k \in DOMAIN inodes[d].blks :
            data'[inodes[d].blks[k]] = data[inodes[d].blks[k]]
      BY <3>1, <3>2, <3>3
    <3>5. QED
      BY <3>4 DEF Restamped
  <2>3. QED
    BY <2>1, <2>2
<1>4. QED
  BY <1>2, <1>3 DEF P2SetParent

-----------------------------------------------------------------------------
(* Pass 2 leaves a partition that can be put in order one *)

\* What is lost is right as long as pass 2 has not stopped between its writes.
RightLost == AttachedInv /\ pc # "exit" => LostRight

\* The one exception to right pointers is in lost+found, which is not lost.
LEMMA RightLostOK == RightLost
<1> SUFFICES ASSUME AttachedInv, pc # "exit" PROVE LostRight
  BY DEF RightLost
<1>1. /\ TreesSound /\ LostFoundSound /\ UpsAt(pc, i2, lf) /\ ScanAt(stack2, pc, i2, lf)
      /\ DiskTypeOK
  BY DEF AttachedInv, ScanPart, ShapeKept, P2Inv
<1>2. ASSUME NEW d \in KeptDirs \ TreeDirs PROVE SelfOK(d) /\ \A c \in SubDirs(d) : Pointer(c, 2) = d
  <2>1. SelfOK(d)
    BY <1>1 DEF TreesSound
  <2>2. ASSUME NEW c \in SubDirs(d) PROVE Pointer(c, 2) = d
    <3>1. Pointer(c, 2) = d \/ (pc = "p2_dotdot" /\ d = lf)
      BY <1>1 DEF UpsAt
    <3>2. ASSUME pc = "p2_dotdot", d = lf PROVE FALSE
      <4>1. lf = LostFound /\ LostFound # 0
        BY <1>1, <3>2 DEF ScanAt
      <4>2. LostFound \in TreeDirs
        BY <1>1, <4>1, LostInTree
      <4>3. QED
        BY <3>2, <4>1, <4>2
    <3>3. QED
      BY <3>1, <3>2
  <2>3. QED
    BY <2>1, <2>2
<1>3. QED
  BY <1>2 DEF LostRight

\* The same after a step.
LEMMA RightLostNext == RightLost'
BY RightLostOK, PTL

\* The first write of add_to_lost_found leaves the heads of the directories.
LEMMA AttachHeads ==
  ASSUME DiskTypeOK, DiskTypeOK', TreesThere, HeadsThere, BlocksOwn, LostFoundSound, P2Attach,
         NEW n, n = i2, n \in Inode
  PROVE  HeadsKept
<1> DEFINE l == LostFound
<1>1. /\ l # 0 /\ lf' = l /\ UNCHANGED <<inodes, links, ibitmap>>
  BY DEF P2Attach
<1>2. /\ KeptDirs \subseteq Inode /\ TreeDirs \subseteq KeptDirs
      /\ \A d \in KeptDirs : inodes[d].mode # "lnk" /\ d \in Inode
  BY KeptThere DEF KeptDirs, IsDir
<1>3. l \in KeptDirs
  BY <1>1, <1>2, LostInTree
<1>4. \A d \in KeptDirs : \A k \in DOMAIN inodes[d].blks : inodes[d].blks[k] \in Block
  BY <1>2, BlockOK
<1>5. data \in [Block -> Seq(Entry)] /\ data' \in [Block -> Seq(Entry)]
  BY DEF DiskTypeOK, IsImage
<1>6. CASE UNCHANGED data
  <2>1. \A b : (Hole(b)' <=> Hole(b)) /\ Visible(b)' = Visible(b)
    BY DEF Hole, Visible
  <2>2. QED
    BY <1>6 DEF HeadsKept
<1>7. CASE \E k \in RoomIn(l) :
             data' = [data EXCEPT ![inodes[l].blks[k]] = write_new_entry(@, create_new_entry(n))]
  <2>1. PICK k \in RoomIn(l) :
             data' = [data EXCEPT ![inodes[l].blks[k]] = write_new_entry(@, create_new_entry(n))]
    BY <1>7
  <2> DEFINE o == inodes[l].blks[k]
             e == create_new_entry(n)
             w == write_new_entry(data[o], e)
  <2>2. k \in DOMAIN inodes[l].blks
    BY DEF RoomIn
  <2>3. o \in Block /\ data[o] \in Seq(Entry)
    BY <1>3, <1>4, <1>5, <2>2
  <2>4. e \in Entry /\ e.ino # 0
    BY <1>1, SizesAssumption DEF create_new_entry, Entry, Inode
  <2>5. data'[o] = w /\ \A c \in Block : c # o => data'[c] = data[c]
    BY <1>5, <2>1, <2>3
  <2>6. \A d \in KeptDirs : \A j \in DOMAIN inodes[d].blks :
          inodes[d].blks[j] = o => d = l /\ j = k
    BY <1>3, <2>2 DEF BlocksOwn
  <2>7. \A p \in Visible(data[o]) : p \in Visible(w) /\ w[p] = data[o][p]
    BY <2>3, <2>4, NewEntryKeeps
  <2>8. /\ Hole(data[o]) => Visible(w) = Visible(data[o]) /\ Hole(w)
        /\ ~Hole(data[o]) =>
             /\ Visible(w) = Visible(data[o]) \cup {Len(data[o]) + 1}
             /\ Visible(data[o]) = 1 .. Len(data[o])
    BY <2>3, <2>4, NewEntrySeen
  <2>9. k > 1 => Hole(data[o]) \/ Len(data[o]) >= 2
    BY <1>1, <2>2 DEF HeadsThere
  <2>10. Len(data[o]) \in Nat /\ w \in Seq(Entry)
    BY <1>5, <2>3, <2>5
  <2> HIDE DEF w, e, o
  <2>11. ASSUME NEW d \in KeptDirs, NEW j \in DOMAIN inodes[d].blks
         PROVE  LET b == inodes[d].blks[j]
                IN  /\ \A p \in Visible(data[b]) :
                         /\ p \in Visible(data'[b])
                         /\ data'[b][p].typ = data[b][p].typ /\ data'[b][p].nm = data[b][p].nm
                    /\ \A p \in Visible(data'[b]) : j > 1 /\ p <= 2 => p \in Visible(data[b])
    <3> DEFINE b == inodes[d].blks[j]
    <3>1. b \in Block
      BY <1>4
    <3>2. CASE b # o
      BY <2>5, <3>1, <3>2
    <3>3. CASE b = o
      <4>1. data'[b] = w /\ data[b] = data[o]
        BY <2>5, <3>3
      <4>2. j = k
        BY <2>6, <3>3
      <4>3. ASSUME NEW p \in Visible(w), k > 1, p <= 2 PROVE p \in Visible(data[o])
        BY <2>8, <2>9, <2>10, <4>3
      <4>4. QED
        BY <2>7, <4>1, <4>2, <4>3
    <3>4. QED
      BY <3>2, <3>3
  <2>12. ASSUME NEW j \in DOMAIN inodes[l].blks, j > 1,
                Hole(data[inodes[l].blks[j]]) \/ Len(data[inodes[l].blks[j]]) >= 2
         PROVE  Hole(data'[inodes[l].blks[j]]) \/ Len(data'[inodes[l].blks[j]]) >= 2
    <3> DEFINE b == inodes[l].blks[j]
    <3>1. b \in Block
      BY <1>3, <1>4
    <3>2. CASE b # o
      BY <2>5, <2>12, <3>1, <3>2
    <3>3. CASE b = o
      <4>1. data'[b] = w /\ data[b] = data[o]
        BY <2>5, <3>3
      <4>2. CASE Hole(data[o])
        BY <2>8, <4>1, <4>2
      <4>3. CASE ~Hole(data[o])
        <5>1. Len(data[o]) + 1 \in Visible(w)
          BY <2>8, <4>3
        <5>2. Len(data[o]) + 1 \in 1 .. Len(w)
          BY <2>10, <5>1, VisibleIn
        <5>3. QED
          BY <2>10, <2>12, <4>1, <4>3, <5>2
      <4>4. QED
        BY <4>2, <4>3
    <3>4. QED
      BY <3>2, <3>3
  <2>13. QED
    BY <2>11, <2>12, Zenon DEF HeadsKept
<1>8. QED
  BY <1>1, <1>6, <1>7 DEF P2Attach

\* What pass 2 keeps of the trees it finds.
LEMMA ScanMends ==
  ASSUME AttachedInv, AttachedInv', pc' # "exit", Mendable, UNCHANGED <<inodes, ibitmap>>,
         KeptDirs' = KeptDirs, HeadsThere'
  PROVE  Mendable'
<1>1. LayoutKept' /\ BlocksOwn'
  BY LayoutStill, OwnStill DEF Mendable
<1>2. TreesThere' /\ LostInOrder' /\ LostFoundSound'
  BY DEF AttachedInv, ScanPart, ShapeKept, TreesSound
<1>3. LostRight'
  BY RightLostNext DEF RightLost
<1>4. QED
  BY <1>1, <1>2, <1>3 DEF Mendable

\* The first write of add_to_lost_found.
LEMMA AttachMends ==
  ASSUME AttachedInv, AttachedInv', P2Attach, Mendable
  PROVE  Mendable'
<1> DEFINE n == i2
           l == LostFound
<1>1. /\ pc = "p2_sub" /\ pc' = "p2_dotdot" /\ l # 0 /\ UNCHANGED <<inodes, links, ibitmap>>
  BY DEF P2Attach
<1>2. /\ P2Inv /\ ShapeKept /\ ScanAt(stack2, pc, n, lf) /\ DiskTypeOK /\ DiskTypeOK'
      /\ n \in Inode
  BY <1>1 DEF AttachedInv, ScanPart, P2Inv
<1>3. TreesSound /\ LostFoundSound /\ KeptApart
  BY <1>2 DEF ShapeKept
<1>4. Live(n)
  BY <1>1, <1>2 DEF ScanAt
<1>5. l \in KeptDirs /\ (IsDir(n) => n \in KeptDirs)
  <2>1. l \in KeptDirs
    BY <1>1, <1>2, <1>3, LostFoundKnown
  <2>2. QED
    BY <1>2, <1>4, <2>1 DEF KeptDirs
<1>6. (\E X : Wrote(KeptDirs, X, l, n)) /\ LostFound' = l
  BY <1>2, <1>3, AttachWrote
<1>7. KeptDirs' = KeptDirs
  <2>1. PICK X : Wrote(KeptDirs, X, l, n)
    BY <1>6
  <2> HIDE DEF l, n
  <2>2. PICK U : U = KeptDirs
    OBVIOUS
  <2>3. Wrote(U, X, l, n) /\ l \in U /\ (IsDir(n) => n \in U)
    BY <1>5, <2>1, <2>2
  <2>4. KeptDirs' = U
    BY <1>1, <1>2, <1>3, <2>2, <2>3, WroteTree
  <2>5. QED
    BY <2>2, <2>4
<1>8. HeadsThere'
  <2>1. TreesThere /\ HeadsThere /\ BlocksOwn
    BY DEF Mendable
  <2>2. HeadsKept
    BY <1>2, <1>3, <2>1, AttachHeads
  <2>3. QED
    BY <1>1, <1>2, <1>6, <1>7, <2>1, <2>2, HeadsStay
<1>9. QED
  BY <1>1, <1>7, <1>8, ScanMends

\* The second.
LEMMA SetParentMends ==
  ASSUME AttachedInv, AttachedInv', P2SetParent, Mendable
  PROVE  Mendable'
<1>1. pc = "p2_dotdot" /\ pc' = "p2_scan" /\ UNCHANGED <<inodes, links, ibitmap>>
  BY DEF P2SetParent
<1>2. /\ DiskTypeOK /\ DiskTypeOK' /\ i2 \in Inode /\ lf \in Inode /\ Live(i2)
  BY <1>1 DEF AttachedInv, ScanPart, P2Inv, ScanAt
<1>3. TreesThere /\ HeadsThere /\ BlocksOwn /\ LostFoundSound
  BY DEF Mendable
<1>4. Restamped(i2, 2)
  BY <1>2, <1>3, SetParentRestamps
<1>5. KeptDirs' = KeptDirs /\ HeadsThere'
  <2>1. PICK n : n = i2
    OBVIOUS
  <2>2. 2 \in 1 .. 2
    OBVIOUS
  <2>3. Restamped(n, 2)
    BY <1>4, <2>1
  <2>4. QED
    BY <1>1, <1>2, <1>3, <2>2, <2>3, RestampKeeps
<1>6. QED
  BY <1>1, <1>5, ScanMends

\* A step that leaves the disk alone.
LEMMA DiskStill ==
  ASSUME UNCHANGED disk, Mendable
  PROVE  Mendable'
<1>1. UNCHANGED <<inodes, data, links, ibitmap>>
  BY DEF disk
<1>2. KeptDirs' = KeptDirs
  BY <1>1, StillKept
<1>3. QED
  BY <1>1, <1>2, StillMendable

\* Pass 2.
LEMMA Pass2Mends ==
  ASSUME AttachedInv, AttachedInv', P2Next, Mendable
  PROVE  Mendable'
<1>1. P2Attach \/ P2SetParent \/ UNCHANGED disk
  BY DEF P2Next, P2Start, P2Traverse, P2Walked, P2Skip, P2Orphan, P2NoLostFound, P2Exit,
         P2SetOutside, P2Done, TrNext, TrCount, TrNextBlock, TrReturn
<1>2. QED
  BY <1>1, AttachMends, SetParentMends, DiskStill

\* Pass 1.
LEMMA Pass1Mends ==
  ASSUME P1Inv, P1PathInv, P1Next, Mendable
  PROVE  Mendable'
<1>1. P1Correct \/ UNCHANGED disk
  BY DEF P1Next, P1Start, P1Descend, P1Skip, P1NextBlock, P1Return, P1Done
<1>2. QED
  BY <1>1, CorrectMends, DiskStill

\* Pass 4 writes no directory.
LEMMA Pass4Mends ==
  ASSUME P4Next, Mendable
  PROVE  Mendable'
<1>1. UNCHANGED <<inodes, data, links, ibitmap>>
  BY DEF P4Next, P4Start, P4Open, P4Entry, P4NextBlock, P4Return, P4Walked, P4Compare,
         P4NextGroup, P4Compared, P4Table, P4NextTable, P4Decide, P4Write, P4Done, disk
<1>2. KeptDirs' = KeptDirs
  BY <1>1, StillKept
<1>3. QED
  BY <1>1, <1>2, StillMendable

-----------------------------------------------------------------------------
(* The four conditions are about the disk *)

\* A step that writes no directory changes no pointer and no block in use,
\* one that changes neither links nor bits no unreferenced inode, and so on.
LEMMA SameGood ==
  ASSUME UNCHANGED <<inodes, data>>
  PROVE  /\ DirectoryPointersOK' <=> DirectoryPointersOK
         /\ UNCHANGED <<links, ibitmap>> => (UnreferencedOK' <=> UnreferencedOK)
         /\ UNCHANGED links => (LinkCountsOK' <=> LinkCountsOK)
         /\ UNCHANGED bbitmap => (BlockBitmapOK' <=> BlockBitmapOK)
<1>1. TreeDirs' = TreeDirs /\ TreeEntries' = TreeEntries
  BY TreeSame
<1>2. DirectoryPointersOK' <=> DirectoryPointersOK
  <2>1. \A d, p : Pointer(d, p)' = Pointer(d, p)
    BY DEF Pointer
  <2>2. \A d : SubDirs(d)' = SubDirs(d)
    BY DEF SubDirs, Names, Entries, EntryAt, IsDir, Visible
  <2>3. QED
    BY <1>1, <2>1, <2>2 DEF DirectoryPointersOK, SelfOK
<1>3. PICK T : T = TreeEntries
  OBVIOUS
<1>4. \A n : Naming(T, n)' = Naming(T, n)
  BY NamingSame
<1>5. ASSUME UNCHANGED <<links, ibitmap>> PROVE UnreferencedOK' <=> UnreferencedOK
  <2>1. \A n : InodeBit(n)' = InodeBit(n)
    BY <1>5 DEF InodeBit
  <2>2. UnreferencedOK <=> \A n \in Inode : InodeBit(n) = 1 /\ links[n] > 0 => Naming(T, n) # {}
    BY <1>3 DEF UnreferencedOK
  <2>3. UnreferencedOK' <=>
          \A n \in Inode : InodeBit(n)' = 1 /\ links'[n] > 0 => Naming(T, n)' # {}
    BY <1>1, <1>3 DEF UnreferencedOK, Naming
  <2>4. QED
    BY <1>4, <1>5, <2>1, <2>2, <2>3
<1>6. ASSUME UNCHANGED links PROVE LinkCountsOK' <=> LinkCountsOK
  <2>1. LinkCountsOK <=> \A n \in Inode : links[n] = NumRefs(n)
    BY DEF LinkCountsOK, NumRefs
  <2>2. LinkCountsOK' <=> \A n \in Inode : links'[n] = NumRefs(n)'
    BY DEF LinkCountsOK, NumRefs
  <2>3. \A n : NumRefs(n)' = NumRefs(n)
    BY RefsSame
  <2>4. QED
    BY <1>6, <2>1, <2>2, <2>3
<1>7. ASSUME UNCHANGED bbitmap PROVE BlockBitmapOK' <=> BlockBitmapOK
  <2>1. \A b : BlockBit(b)' = BlockBit(b)
    BY <1>7 DEF BlockBit
  <2>2. UsedBlocks' = UsedBlocks
    BY SoundSame
  <2>3. QED
    BY <2>1, <2>2 DEF BlockBitmapOK
<1>8. QED
  BY <1>2, <1>5, <1>6, <1>7

-----------------------------------------------------------------------------
(* Pass 3 *)

\* What the tree names as a directory is one of it.
LEMMA CountedThere ==
  ASSUME DiskTypeOK, Mendable, DirectoryPointersOK, NEW d \in Inode, IsDir(d),
         NumRefs(d) # 0
  PROVE  d \in TreeDirs
<1>1. NamesTrue
  BY MendFor4 DEF TreeSound
<1>2. \E x \in TreeEntries : Named(x) = d
  <2>1. CASE Naming(TreeEntries, d) = {}
    BY <2>1, FS_EmptySet DEF NumRefs
  <2>2. CASE Naming(TreeEntries, d) # {}
    BY <2>2 DEF Naming
  <2>3. QED
    BY <2>1, <2>2
<1>3. QED
  BY <1>1, <1>2, DirsNamed

\* The correction of a count leaves what passes 1 and 2 have put right.
LEMMA CountMends ==
  ASSUME P3Inv, P3CountInv, P3Correct, Mendable, DirectoryPointersOK, UnreferencedOK,
         KeptDirs = TreeDirs
  PROVE  /\ Mendable' /\ DirectoryPointersOK' /\ UnreferencedOK' /\ KeptDirs' = TreeDirs'
<1>1. /\ i3 \in Inode /\ pc = "p3_scan" /\ UNCHANGED <<inodes, data, ibitmap>>
      /\ \A n \in Inode : n # i3 => links'[n] = links[n]
      /\ pc' = pc /\ i3' = i3 + 1
  BY CorrectOK DEF P3Correct
<1>2. links'[i3] = NumRefs(i3)
  <2>1. P3CountInv'
    BY P3CountStep DEF P3Next
  <2>2. i3 < i3'
    BY <1>1 DEF Inode
  <2>3. PICK n : n = i3
    OBVIOUS
  <2>4. NumRefs(n)' = NumRefs(n)
    BY <1>1, RefsSame
  <2>5. \A m \in Inode : m < i3' => links'[m] = NumRefs(m)'
    BY <1>1, <2>1 DEF P3CountInv
  <2>6. links'[n] = NumRefs(n)'
    BY <1>1, <2>2, <2>3, <2>5
  <2>7. QED
    BY <2>3, <2>4, <2>6
<1>3. TreeDirs' = TreeDirs /\ TreeEntries' = TreeEntries
  BY <1>1, TreeSame
<1>4. DiskTypeOK /\ \A n \in Inode : IsDir(n)' <=> IsDir(n)
  BY <1>1 DEF P3Inv, IsDir
<1>5. KeptDirs' = TreeDirs
  <2>1. TreeDirs \subseteq Inode /\ \A d \in TreeDirs : IsDir(d)
    BY <1>4, TreeClosed DEF DirInodes
  <2>2. ASSUME NEW d \in Inode, IsDir(d), Live(d)' PROVE d \in TreeDirs
    <3>1. CASE d = i3
      <4>1. NumRefs(d) # 0
        BY <1>2, <2>2, <3>1 DEF Live
      <4>2. QED
        BY <1>4, <2>2, <4>1, CountedThere
    <3>2. CASE d # i3
      <4>1. Live(d)
        BY <1>1, <2>2, <3>2 DEF Live, get_inode_alloc_bit
      <4>2. QED
        BY <2>2, <4>1 DEF KeptDirs
    <3>3. QED
      BY <3>1, <3>2
  <2>3. \A d : d \in KeptDirs' <=> d \in Inode /\ IsDir(d)' /\ (d \in TreeDirs' \/ Live(d)')
    BY DEF KeptDirs
  <2>4. QED
    BY <1>3, <1>4, <2>1, <2>2, <2>3
<1>6. Mendable'
  BY <1>1, <1>5, StillMendable
<1>7. DirectoryPointersOK'
  BY <1>1, SameGood
<1>8. UnreferencedOK'
  <2>1. PICK T : T = TreeEntries
    OBVIOUS
  <2>2. ASSUME NEW n \in Inode, InodeBit(n)' = 1, links'[n] > 0
        PROVE  Naming(T, n) # {}
    <3>1. InodeBit(n) = 1
      BY <1>1, <2>2 DEF InodeBit
    <3>2. CASE n = i3
      <4>1. NumRefs(n) # 0
        BY <1>2, <2>2, <3>2
      <4>2. QED
        BY <2>1, <4>1, FS_EmptySet DEF NumRefs
    <3>3. CASE n # i3
      BY <1>1, <2>1, <2>2, <3>1, <3>3 DEF UnreferencedOK
    <3>4. QED
      BY <3>2, <3>3
  <2>3. \A n : Naming(T, n)' = Naming(T, n)
    BY <1>1, NamingSame
  <2>4. UnreferencedOK' <=>
          \A n \in Inode : InodeBit(n)' = 1 /\ links'[n] > 0 => Naming(T, n)' # {}
    BY <1>3, <2>1 DEF UnreferencedOK, Naming
  <2>5. QED
    BY <2>2, <2>3, <2>4
<1>9. QED
  BY <1>3, <1>5, <1>6, <1>7, <1>8

\* So does every step of pass 3.
LEMMA Pass3Mends ==
  ASSUME P3Inv, P3CountInv, P3Next, Mendable, DirectoryPointersOK, UnreferencedOK,
         KeptDirs = TreeDirs
  PROVE  /\ Mendable' /\ DirectoryPointersOK' /\ UnreferencedOK' /\ KeptDirs' = TreeDirs'
<1>1. P3Correct \/ UNCHANGED disk
  BY DEF P3Next, P3Start, P3Traverse, P3Walked, P3Same, P3Done,
         TrNext, TrCount, TrNextBlock, TrReturn
<1>2. CASE UNCHANGED disk
  <2>1. UNCHANGED <<inodes, data, links, ibitmap>>
    BY <1>2 DEF disk
  <2>2. KeptDirs' = KeptDirs /\ TreeDirs' = TreeDirs
    BY <2>1, StillKept
  <2>3. DirectoryPointersOK' /\ UnreferencedOK'
    BY <2>1, SameGood
  <2>4. QED
    BY <1>2, <2>2, <2>3, DiskStill
<1>3. QED
  BY <1>1, <1>2, CountMends

-----------------------------------------------------------------------------
(* Each pass starts on what the one before it has left *)

\* Pass 1 starts with no call active.
Begin1 ==
  DiskTypeOK /\ Mendable /\ pc = "pass1" /\ stack1 = <<>> => P1PathInv

\* By P1Sound, with no call there is nothing to know.
LEMMA Begin1OK == Begin1
<1>1. DiskTypeOK /\ Mendable => P1Sound
  BY MendFor1 DEF Mendable
<1>2. QED
  BY <1>1 DEF Begin1, P1PathInv

\* Pass 2 starts with right pointers.
Begin2 ==
  P2Inv /\ Mendable /\ DirectoryPointersOK /\ KeptFit /\ pc = "pass2" /\ i2 = 1 => AttachedInv

\* By the parts of P2Sound.
LEMMA Begin2OK == Begin2
<1> SUFFICES ASSUME P2Inv, Mendable, DirectoryPointersOK, KeptFit, pc = "pass2", i2 = 1
             PROVE  AttachedInv
  BY DEF Begin2
<1>1. ShapeKept /\ UpsSound
  BY MendFor2 DEF P2Inv
<1>2. UpsAt(pc, i2, lf)
  BY <1>1 DEF UpsSound, UpsAt
<1>3. ScanAt(stack2, pc, i2, lf)
  BY DEF ScanAt
<1>4. QED
  BY <1>1, <1>2, <1>3 DEF AttachedInv, ScanPart

\* Pass 3 starts with right pointers and nothing lost.
Begin3 ==
  AttachedInv /\ Mendable /\ KeptFit /\ pc = "pass3" /\ i3 = 1 =>
    DirectoryPointersOK /\ UnreferencedOK /\ KeptDirs = TreeDirs /\ P3CountInv

\* The walks of pass 2 have entered every directory, and all are in the tree.
LEMMA Begin3OK == Begin3
<1> SUFFICES ASSUME AttachedInv, Mendable, KeptFit, pc = "pass3", i3 = 1
             PROVE  DirectoryPointersOK /\ UnreferencedOK /\ KeptDirs = TreeDirs /\ P3CountInv
  BY DEF Begin3
<1>1. DiskTypeOK /\ BitsCover /\ TreesThere
  BY DEF AttachedInv, ScanPart, P2Inv, Mendable, LayoutKept
<1>2. DirectoryPointersOK
  BY ScanPointers DEF AttachedInv, P2PointersOK
<1>3. UnreferencedOK
  BY <1>1, ScanResult DEF AttachedInv
<1>4. KeptDirs = TreeDirs
  <2>1. KeptDirs \subseteq Inode /\ TreeDirs \subseteq KeptDirs
    BY <1>1, KeptThere
  <2>2. i2 > NInodes /\ i2 \in 1 .. NInodes + 1 /\ KnownAt(TRUE, stack2, refs, pc, i2)
    BY DEF AttachedInv, ScanPart, P2Inv, ScanAt
  <2>3. PICK R, S, E : WalkedAt(stack2, pc, i2, R, S, E) /\ ReachedAt(TRUE, pc, i2, E)
    BY <2>2 DEF KnownAt
  <2>4. Closed(TreeDirs)
    BY <1>1, TreeClosed
  <2>5. E \subseteq TreeDirs
    BY <2>3, <2>4 DEF ReachedAt
  <2>6. ASSUME NEW d \in KeptDirs PROVE d \in E
    <3>1. d < i2
      BY <2>1, <2>2, SizesAssumption DEF Inode
    <3>2. QED
      BY <2>3, <3>1 DEF WalkedAt
  <2>7. QED
    BY <2>1, <2>5, <2>6
<1>5. P3CountInv
  BY <1>1, MendShape, FitTree DEF P3CountInv
<1>6. QED
  BY <1>2, <1>3, <1>4, <1>5

\* Until pass 4 has written a group, the bits that are no block's are as on the
\* disk, and afterwards.
BitsBehind ==
  pc \in {"p4_walk", "p4_compare", "p4_table", "p4_flush"} =>
    \A i \in DOMAIN bbitmap : i >= BlocksCount - 1 => bm[i] = bbitmap[i]

\* What is known while pass 4 runs.
P4Known == FoundInv /\ ComparedInv /\ ResultInv /\ BitsBehind

\* Pass 4 starts with right pointers and right counts.
Begin4 ==
  P4Inv /\ P3CountInv /\ Mendable /\ DirectoryPointersOK /\ pc = "pass4" =>
    LinkCountsOK /\ P4Known

\* By the result of pass 3.
LEMMA Begin4OK == Begin4
<1> SUFFICES ASSUME P4Inv, P3CountInv, Mendable, DirectoryPointersOK, pc = "pass4"
             PROVE  LinkCountsOK /\ P4Known
  BY DEF Begin4
<1>1. LinkCountsOK
  BY CountResult DEF P3Result
<1>2. DiskTypeOK /\ P4Locals
  BY DEF P4Inv
<1>3. TreeSound /\ LayoutSound
  BY <1>2, MendFor4
<1>4. FoundInv
  BY <1>3 DEF FoundInv, P4TrueBitmap
<1>5. ComparedInv
  <2>1. bm \in Bitmap(Groups * BlockBits) /\ bbitmap \in Bitmap(Groups * BlockBits)
    BY <1>2 DEF P4Locals, DiskTypeOK, IsImage, Groups
  <2>2. grp \in Nat
    BY <1>2, GroupNumNat DEF P4Locals
  <2>3. CountInv
    BY <1>2, <2>2 DEF P4Locals, CountInv, Comparing
  <2>4. QED
    BY <2>1, <2>3 DEF ComparedInv, BitsInv, P4Compared_OK
<1>6. ResultInv /\ BitsBehind
  BY <1>3 DEF ResultInv, BitsBehind
<1>7. QED
  BY <1>1, <1>4, <1>5, <1>6 DEF P4Known

\* The end.
End4 == P4Known /\ pc = "done" => BlockBitmapOK

\* By the result of pass 4.
LEMMA End4OK == End4
BY FoundResult DEF End4, P4Known, P4Result

\* The same after a step.
LEMMA BeginNext == (Begin1 /\ Begin2 /\ Begin3 /\ Begin4 /\ End4)'
BY Begin1OK, Begin2OK, Begin3OK, Begin4OK, End4OK, PTL

-----------------------------------------------------------------------------
(* Pass 4 *)

\* The comparison and the tables flip bits of blocks only.
LEMMA BehindStep ==
  ASSUME P4Inv, P4Known, [P4Next]_p4vars
  PROVE  BitsBehind'
<1>1. LayoutSound /\ CountInv /\ DiskTypeOK
  BY DEF P4Known, ResultInv, ComparedInv, P4Inv
<1>2. DOMAIN bbitmap = 0 .. Groups * BlockBits - 1 /\ DOMAIN bm = DOMAIN bbitmap
  BY <1>1 DEF P4Inv, P4Locals, DiskTypeOK, IsImage, Groups, Bitmap
<1>3. \A b \in Block \ {0} : b - 1 < BlocksCount - 1
  BY SizesOK DEF Block
<1>4. ASSUME NEW b \in Block \ {0}, NEW i \in DOMAIN bbitmap, i >= BlocksCount - 1
      PROVE  Flip(bm, b)[i] = bm[i]
  <2>1. i # b - 1
    BY <1>2, <1>3, <1>4, SizesOK DEF Block
  <2>2. QED
    BY <1>2, <2>1 DEF Flip
<1>5. CASE P4Compare
  <2>1. bid \in Block \ {0}
    <3>1. bid \in DataBlocks
      BY <1>1, <1>5, CountPlace DEF P4LoopAt, P4Compare
    <3>2. QED
      BY <3>1, DataIn
  <2>2. bm' = bm \/ bm' = Flip(bm, bid)
    BY <1>5 DEF P4Compare
  <2>3. pc = "p4_compare" /\ UNCHANGED bbitmap
    BY <1>5 DEF P4Compare, Comparing, disk
  <2>4. QED
    BY <1>4, <2>1, <2>2, <2>3 DEF P4Known, BitsBehind
<1>6. CASE P4Table
  <2>1. bid' \in Block \ {0}
    <3>1. grp \in Group /\ j4 \in 0 .. Tables - 1
      BY <1>6, GroupNumNat, TableSize DEF P4Table, P4Inv, P4Locals, Group, Tables
    <3>2. QED
      BY <1>1, <1>6, <3>1, TableAt DEF P4Table
  <2>2. bm' = bm \/ bm' = Flip(bm, bid')
    BY <1>6 DEF P4Table
  <2>3. pc = "p4_table" /\ UNCHANGED bbitmap
    BY <1>6 DEF P4Table, disk
  <2>4. QED
    BY <1>4, <2>1, <2>2, <2>3 DEF P4Known, BitsBehind
<1>7. CASE P4Write
  <2>1. /\ DOMAIN bbitmap' = DOMAIN bbitmap
        /\ \A i \in DOMAIN bbitmap : bbitmap'[i] = bm[i] \/ bbitmap'[i] = bbitmap[i]
    BY <1>7, WrittenIs
  <2>2. pc = "p4_flush" /\ bm' = bm
    BY <1>7 DEF P4Write
  <2>3. QED
    BY <2>1, <2>2 DEF P4Known, BitsBehind
<1>8. CASE P4Start
  BY <1>8 DEF P4Start, BitsBehind, disk
<1>9. CASE ~(P4Compare \/ P4Table \/ P4Write \/ P4Start)
  <2>1. /\ pc' \in {"p4_walk", "p4_compare", "p4_table", "p4_flush"} =>
             pc \in {"p4_walk", "p4_compare", "p4_table", "p4_flush"}
        /\ bm' = bm /\ bbitmap' = bbitmap
    BY <1>9 DEF P4Next, P4Open, P4Entry, P4NextBlock, P4Return, P4Walked, P4NextGroup,
                P4Compared, P4NextTable, P4Decide, P4Done, Comparing, disk, p4vars
  <2>2. QED
    BY <2>1 DEF P4Known, BitsBehind
<1>10. QED
  BY <1>5, <1>6, <1>7, <1>8, <1>9

\* What is known while pass 4 runs is known after a step.
LEMMA KnownStep ==
  ASSUME P4Inv, P4Known, [P4Next]_p4vars
  PROVE  P4Known'
<1>1. FoundInv' /\ ComparedInv' /\ ResultInv'
  BY FoundInvStep, ComparedStep, ResultStep DEF P4Known
<1>2. QED
  BY <1>1, BehindStep DEF P4Known

-----------------------------------------------------------------------------
(* The passes one after the other on a partition that can be put in order *)

\* What the passes that are over have put right stays right, and the one that
\* runs knows what its own invariants say.
RepairInv ==
  /\ FsckInv /\ Mendable
  /\ In1 => P1PathInv /\ i2 = 1
  /\ In1 \/ In2 => i3 = 1
  /\ In2 => AttachedInv
  /\ In3 => DirectoryPointersOK /\ UnreferencedOK /\ KeptDirs = TreeDirs /\ P3CountInv
  /\ In4 => DirectoryPointersOK /\ UnreferencedOK /\ LinkCountsOK /\ P4Known
  /\ pc = "done" =>
       DirectoryPointersOK /\ UnreferencedOK /\ LinkCountsOK /\ BlockBitmapOK

\* A step of pass 2 keeps its part, if what is attached finds room.
LEMMA AttachedStep ==
  ASSUME AttachedInv, pc = "p2_sub" => RoomLeft, [P2Next]_p2vars
  PROVE  AttachedInv'
BY ScanInvStep DEF AttachedInv

\* A step of pass 1.
LEMMA MendStep1 == ASSUME RepairInv, Step1, FsckInv', Enough' PROVE RepairInv'
<1>1. P1Next /\ UNCHANGED <<refs, stack2, i2, lf, i3, stack4, tb, bm, grp, j4, bid, found, runs>>
  BY DEF Step1
<1>2. In1 /\ pc' \in {"pass1", "p1_walk", "pass2"}
  BY <1>1, Where1
<1>3. FsckInv /\ Mendable /\ P1PathInv /\ i2 = 1 /\ i3 = 1 /\ P1Inv
  BY <1>2 DEF RepairInv, FsckInv
<1>4. Mendable' /\ P1PathInv'
  <2>1. P1PathInv'
    BY <1>1, <1>3, PathStep
  <2>2. QED
    BY <1>1, <1>3, <2>1, Pass1Mends
<1>5. i2' = 1 /\ i3' = 1
  BY <1>1, <1>3
<1>6. CASE pc' \in {"pass1", "p1_walk"}
  BY <1>4, <1>5, <1>6 DEF RepairInv, In1, In2, In3, In4
<1>7. CASE pc' = "pass2"
  <2>1. P2Inv'
    BY <1>7 DEF FsckInv, P2Inv, P2Locals
  <2>2. DirectoryPointersOK'
    BY <1>4, <1>7 DEF P1PathInv
  <2>3. KeptFit'
    BY <1>7 DEF Enough
  <2>4. AttachedInv'
    BY <1>4, <1>5, <1>7, <2>1, <2>2, <2>3, BeginNext DEF Begin2
  <2>5. QED
    BY <1>4, <1>5, <1>7, <2>4 DEF RepairInv, In1, In2, In3, In4
<1>8. QED
  BY <1>2, <1>6, <1>7

\* A step of pass 2.
LEMMA MendStep2 == ASSUME RepairInv, Step2, FsckInv', Enough, Enough' PROVE RepairInv'
<1>1. P2Next /\ UNCHANGED <<stack1, i3, stack4, tb, bm, grp, j4, bid, found, runs>>
  BY DEF Step2
<1>2. /\ In2
      /\ pc' \in {"pass2", "p2_walk", "p2_scan", "p2_sub", "p2_dotdot", "pass3", "exit"}
  BY <1>1, Where2
<1>3. FsckInv /\ Mendable /\ AttachedInv /\ i3 = 1
  BY <1>2 DEF RepairInv
<1>4. AttachedInv' /\ Mendable'
  <2>1. AttachedInv'
    BY <1>1, <1>3, AttachedStep DEF Enough
  <2>2. QED
    BY <1>1, <1>3, <2>1, Pass2Mends
<1>5. CASE pc' \in {"pass2", "p2_walk", "p2_scan", "p2_sub", "p2_dotdot", "exit"}
  BY <1>1, <1>3, <1>4, <1>5 DEF RepairInv, In1, In2, In3, In4
<1>6. CASE pc' = "pass3"
  <2>1. KeptFit' /\ i3' = 1
    BY <1>1, <1>3, <1>6 DEF Enough
  <2>2. DirectoryPointersOK' /\ UnreferencedOK' /\ KeptDirs' = TreeDirs' /\ P3CountInv'
    BY <1>4, <1>6, <2>1, BeginNext DEF Begin3
  <2>3. QED
    BY <1>4, <1>6, <2>2 DEF RepairInv, In1, In2, In3, In4
<1>7. QED
  BY <1>2, <1>5, <1>6

\* A step of pass 3.
LEMMA MendStep3 == ASSUME RepairInv, Step3, FsckInv' PROVE RepairInv'
<1>1. P3Next
  BY DEF Step3
<1>2. In3 /\ pc' \in {"pass3", "p3_walk", "p3_scan", "pass4"}
  BY <1>1, Where3
<1>3. /\ FsckInv /\ Mendable /\ P3Inv
      /\ DirectoryPointersOK /\ UnreferencedOK /\ KeptDirs = TreeDirs /\ P3CountInv
  BY <1>2, Split3 DEF RepairInv, FsckInv
<1>4. Mendable' /\ DirectoryPointersOK' /\ UnreferencedOK' /\ KeptDirs' = TreeDirs'
  BY <1>1, <1>3, Pass3Mends
<1>5. P3CountInv'
  BY <1>1, <1>3, P3CountStep
<1>6. CASE pc' \in {"pass3", "p3_walk", "p3_scan"}
  BY <1>4, <1>5, <1>6 DEF RepairInv, In1, In2, In3, In4
<1>7. CASE pc' = "pass4"
  <2>1. P4Inv'
    BY <1>7 DEF FsckInv, P4Inv
  <2>2. LinkCountsOK' /\ P4Known'
    BY <1>4, <1>5, <1>7, <2>1, BeginNext DEF Begin4
  <2>3. QED
    BY <1>4, <1>7, <2>2 DEF RepairInv, In1, In2, In3, In4
<1>8. QED
  BY <1>2, <1>6, <1>7

\* A step of pass 4.
LEMMA MendStep4 == ASSUME RepairInv, Step4, FsckInv' PROVE RepairInv'
<1>1. P4Next
  BY DEF Step4
<1>2. In4 /\ pc' \in {"pass4", "p4_walk", "p4_compare", "p4_table", "p4_flush", "done"}
  BY <1>1, Where4
<1>3. /\ FsckInv /\ Mendable /\ P4Inv
      /\ DirectoryPointersOK /\ UnreferencedOK /\ LinkCountsOK /\ P4Known
  BY <1>2, Split4 DEF RepairInv, FsckInv
<1>4. Mendable' /\ P4Known'
  BY <1>1, <1>3, Pass4Mends, KnownStep
<1>5. DirectoryPointersOK' /\ UnreferencedOK' /\ LinkCountsOK'
  <2>1. UNCHANGED <<inodes, data, links, ibitmap>>
    BY <1>1 DEF P4Next, P4Start, P4Open, P4Entry, P4NextBlock, P4Return, P4Walked, P4Compare,
         P4NextGroup, P4Compared, P4Table, P4NextTable, P4Decide, P4Write, P4Done, disk
  <2>2. QED
    BY <1>3, <2>1, SameGood
<1>6. CASE pc' # "done"
  BY <1>2, <1>4, <1>5, <1>6 DEF RepairInv, In1, In2, In3, In4
<1>7. CASE pc' = "done"
  <2>1. BlockBitmapOK'
    BY <1>4, <1>7, BeginNext DEF End4
  <2>2. QED
    BY <1>4, <1>5, <1>7, <2>1 DEF RepairInv, In1, In2, In3, In4
<1>8. QED
  BY <1>6, <1>7

\* The process dies, and perhaps is started again.
LEMMA MendStop == ASSUME RepairInv, Kill \/ Rerun, FsckInv' PROVE RepairInv'
<1>1. UNCHANGED disk /\ LoseLocals
  BY DEF Kill, Rerun
<1>2. Mendable'
  BY <1>1, DiskStill DEF RepairInv
<1>3. CASE Kill
  <2>1. pc' = "killed"
    BY <1>3 DEF Kill
  <2>2. QED
    BY <1>2, <2>1 DEF RepairInv, In1, In2, In3, In4
<1>4. CASE Rerun
  <2>1. pc' = "pass1" /\ stack1' = <<>> /\ i2' = 1 /\ i3' = 1
    BY <1>1, <1>4 DEF Rerun, LoseLocals
  <2>2. P1PathInv'
    BY <1>2, <2>1, BeginNext DEF Begin1, FsckInv
  <2>3. QED
    BY <1>2, <2>1, <2>2 DEF RepairInv, In1, In2, In3, In4
<1>5. QED
  BY <1>3, <1>4

\* A step that changes nothing.
LEMMA MendStutter == ASSUME RepairInv, UNCHANGED vars, FsckInv', Enough PROVE RepairInv'
<1>1. UNCHANGED <<disk, pc, stack1, refs, stack2, i2, lf, i3, stack4, tb, bm, grp, j4, bid,
                  found, runs>>
  BY DEF vars, locals
<1>2. UNCHANGED <<inodes, data, links, ibitmap, bbitmap>>
  BY <1>1 DEF disk
<1>3. FsckInv /\ Mendable
  BY DEF RepairInv
<1>4. Mendable' /\ KeptDirs' = KeptDirs /\ TreeDirs' = TreeDirs
  BY <1>1, <1>2, <1>3, DiskStill, StillKept
<1>5. /\ DirectoryPointersOK => DirectoryPointersOK'
      /\ UnreferencedOK => UnreferencedOK'
      /\ LinkCountsOK => LinkCountsOK'
      /\ BlockBitmapOK => BlockBitmapOK'
  BY <1>2, SameGood
<1>6. In1 => P1PathInv'
  <2>1. UNCHANGED p1vars
    BY <1>1 DEF p1vars
  <2>2. QED
    BY <1>3, <2>1, PathStep DEF RepairInv, FsckInv
<1>7. In2 => AttachedInv'
  <2>1. UNCHANGED p2vars
    BY <1>1 DEF p2vars
  <2>2. QED
    BY <2>1, AttachedStep DEF RepairInv, Enough
<1>8. In3 => P3CountInv'
  <2>1. UNCHANGED p3vars
    BY <1>1 DEF p3vars
  <2>2. In3 => P3Inv
    BY <1>3, Split3 DEF FsckInv
  <2>3. QED
    BY <2>1, <2>2, P3CountStep DEF RepairInv
<1>9. In4 => P4Known'
  <2>1. UNCHANGED p4vars
    BY <1>1 DEF p4vars
  <2>2. In4 => P4Inv
    BY <1>3, Split4 DEF FsckInv
  <2>3. QED
    BY <2>1, <2>2, KnownStep DEF RepairInv
<1>10. (In1' <=> In1) /\ (In2' <=> In2) /\ (In3' <=> In3) /\ (In4' <=> In4)
  BY <1>1 DEF In1, In2, In3, In4
<1>11. QED
  BY <1>1, <1>3, <1>4, <1>5, <1>6, <1>7, <1>8, <1>9, <1>10 DEF RepairInv

\* Every step.
LEMMA RepairInvStep == RepairInv /\ Enough /\ Enough' /\ [Next]_vars => RepairInv'
<1> SUFFICES ASSUME RepairInv, Enough, Enough', [Next]_vars PROVE RepairInv'
  OBVIOUS
<1>1. FsckInv'
  BY FsckStep1, FsckStep2, FsckStep3, FsckStep4, FsckStop, FsckStutter DEF Next, Step, RepairInv
<1>2. QED
  BY <1>1, MendStep1, MendStep2, MendStep3, MendStep4, MendStop, MendStutter DEF Next, Step

\* The first run starts in it.
LEMMA RepairInvInit == Init /\ Mendable => RepairInv
<1> SUFFICES ASSUME Init, Mendable PROVE RepairInv
  OBVIOUS
<1>1. FsckInv /\ DiskTypeOK
  BY FsckInvInit DEF FsckInv
<1>2. pc = "pass1" /\ stack1 = <<>> /\ i2 = 1 /\ i3 = 1
  BY DEF Init, LocalsInit
<1>3. P1PathInv
  BY <1>1, <1>2, Begin1OK DEF Begin1
<1>4. QED
  BY <1>1, <1>2, <1>3 DEF RepairInv, In1, In2, In3, In4

-----------------------------------------------------------------------------
(* A partition without errors *)

\* All four conditions hold.
Clean == DirectoryPointersOK /\ UnreferencedOK /\ LinkCountsOK /\ BlockBitmapOK

\* Pass 1 finds nothing to correct.
LEMMA CleanStep1 ==
  ASSUME P1Inv, P1PathInv, P1Next, DirectoryPointersOK
  PROVE  UNCHANGED disk
<1>1. P1Correct \/ UNCHANGED disk
  BY DEF P1Next, P1Start, P1Descend, P1Skip, P1NextBlock, P1Return, P1Done
<1>2. ASSUME P1Correct PROVE FALSE
  <2> DEFINE f == Top1
  <2>1. /\ stack1 # <<>> /\ pc = "p1_walk" /\ HasEntry1(f)
        /\ f.dir \in TreeDirs /\ f.blk = 1 /\ f.pos \in 1 .. 2 /\ GivenOK(f)
    BY <1>2, CorrectHere
  <2>2. Entry1(f).ino # Expected(f)
    BY <1>2 DEF P1Correct, WrongPointer
  <2>3. f.buf = data[inodes[f.dir].blks[1]]
    <3>1. PICK S, E : PathInv(S, E)
      BY <2>1 DEF P1PathInv
    <3>2. P1Sound
      BY DEF P1PathInv
    <3>3. f.buf = data[inodes[f.dir].blks[f.blk]]
      BY <2>1, <3>1, <3>2, Entry1Here
    <3>4. QED
      BY <2>1, <3>3
  <2>4. Pointer(f.dir, f.pos) = Entry1(f).ino
    BY <2>3 DEF Pointer, Entry1
  <2>5. Pointer(f.dir, f.pos) = Expected(f)
    <3>1. CASE f.pos = 1
      BY <2>1, <3>1 DEF Expected, DirectoryPointersOK, SelfOK
    <3>2. CASE f.pos = 2
      BY <2>1, <3>2 DEF Expected, DirectoryPointersOK, GivenOK
    <3>3. QED
      BY <2>1, <3>1, <3>2
  <2>6. QED
    BY <2>2, <2>4, <2>5
<1>3. QED
  BY <1>1, <1>2

\* What is found where no number that is seen changes.
LEMMA SeenGood ==
  ASSUME DiskTypeOK, DiskTypeOK', Mendable, UNCHANGED <<inodes, links, ibitmap, bbitmap>>,
         NEW d, NEW p \in 1 .. 2, Restamped(d, p),
         d \in KeptDirs => Pointer(d, p)' = Pointer(d, p), Clean
  PROVE  Clean'
<1>1. TreesThere /\ HeadsThere /\ LostFoundSound
  BY DEF Mendable
<1>2. /\ TreeDirs' = TreeDirs /\ TreeEntries' = TreeEntries
      /\ \A c \in KeptDirs : SubDirs(c)' = SubDirs(c)
      /\ \A x \in KeptEntries : x[1] # d \/ x[2] # 1 \/ x[3] # p => Named(x)' = Named(x)
  BY <1>1, RestampKeeps
<1>3. /\ TreeDirs \subseteq KeptDirs /\ TreeEntries \subseteq KeptEntries
      /\ KeptDirs \subseteq Inode /\ ROOT_INODE_NUM \in TreeDirs
      /\ \A x \in KeptEntries : NamesDir(x) => Named(x) \in KeptDirs
  BY <1>1, KeptThere, TreeWhole
<1>4. ASSUME NEW x \in KeptEntries PROVE Named(x)' = Named(x)
  <2>1. x[1] \in KeptDirs /\ x = <<x[1], x[2], x[3]>>
    BY <1>3, <1>4, KeptOver, EntryNamed
  <2>2. CASE x[1] # d \/ x[2] # 1 \/ x[3] # p
    BY <1>2, <1>4, <2>2
  <2>3. CASE x[1] = d /\ x[2] = 1 /\ x[3] = p
    <3>1. x = <<d, 1, p>>
      BY <2>1, <2>3
    <3>2. Pointer(d, p)' = Pointer(d, p)
      BY <2>1, <2>3
    <3>3. Named(<<d, 1, p>>)' = Named(<<d, 1, p>>)
      BY <3>2 DEF Pointer, Named, EntryAt
    <3>4. QED
      BY <3>1, <3>3
  <2>4. QED
    BY <2>2, <2>3
<1>5. ASSUME NEW c \in KeptDirs, NEW q \in 1 .. 2 PROVE Pointer(c, q)' = Pointer(c, q)
  <2>1. <<c, 1, q>> \in KeptEntries
    BY <1>1, HeadSeen
  <2>2. Named(<<c, 1, q>>)' = Named(<<c, 1, q>>)
    BY <1>4, <2>1
  <2>3. QED
    BY <2>2 DEF Pointer, Named, EntryAt
<1>6. \A c \in TreeDirs : SubDirs(c) \subseteq KeptDirs
  BY <1>3, TreeWhole DEF Whole
<1>7. DirectoryPointersOK'
  <2>1. Pointer(ROOT_INODE_NUM, 2)' = ROOT_INODE_NUM
    BY <1>3, <1>5 DEF Clean, DirectoryPointersOK
  <2>2. ASSUME NEW c \in TreeDirs
        PROVE  Pointer(c, 1)' = c /\ \A e \in SubDirs(c)' \ {ROOT_INODE_NUM} : Pointer(e, 2)' = c
    <3>1. Pointer(c, 1) = c /\ \A e \in SubDirs(c) \ {ROOT_INODE_NUM} : Pointer(e, 2) = c
      BY DEF Clean, DirectoryPointersOK, SelfOK
    <3>2. Pointer(c, 1)' = c
      BY <1>3, <1>5, <3>1
    <3>3. \A e \in SubDirs(c) : Pointer(e, 2)' = Pointer(e, 2)
      BY <1>5, <1>6
    <3>4. QED
      BY <1>2, <1>3, <3>1, <3>2, <3>3
  <2>3. QED
    BY <1>2, <2>1, <2>2 DEF DirectoryPointersOK, SelfOK
<1>8. PICK T : T = TreeEntries
  OBVIOUS
<1>9. \A n : Naming(T, n)' = Naming(T, n)
  BY <1>3, <1>4, <1>8 DEF Naming
<1>10. UnreferencedOK'
  <2>1. \A n : InodeBit(n)' = InodeBit(n)
    BY DEF InodeBit
  <2>2. UnreferencedOK <=> \A n \in Inode : InodeBit(n) = 1 /\ links[n] > 0 => Naming(T, n) # {}
    BY <1>8 DEF UnreferencedOK
  <2>3. UnreferencedOK' <=>
          \A n \in Inode : InodeBit(n)' = 1 /\ links'[n] > 0 => Naming(T, n)' # {}
    BY <1>2, <1>8 DEF UnreferencedOK, Naming
  <2>4. QED
    BY <1>9, <2>1, <2>2, <2>3 DEF Clean
<1>11. LinkCountsOK'
  <2>1. LinkCountsOK <=> \A n \in Inode : links[n] = Cardinality(Naming(T, n))
    BY <1>8 DEF LinkCountsOK
  <2>2. LinkCountsOK' <=> \A n \in Inode : links'[n] = Cardinality(Naming(T, n)')
    BY <1>2, <1>8 DEF LinkCountsOK, Naming
  <2>3. QED
    BY <1>9, <2>1, <2>2 DEF Clean
<1>12. BlockBitmapOK'
  <2>1. \A b : BlockBit(b)' = BlockBit(b)
    BY DEF BlockBit
  <2>2. UsedBlocks' = UsedBlocks
    <3>1. \A n : FileOwns(n)' = FileOwns(n) /\ (IsDir(n)' <=> IsDir(n))
      BY DEF FileOwns, PathTo, Indirect, DoubleIndirect, IsDir
    <3>2. \A x \in TreeEntries : Named(x)' = Named(x)
      BY <1>3, <1>4
    <3>3. QED
      BY <1>2, <3>1, <3>2 DEF UsedBlocks
  <2>3. QED
    BY <2>1, <2>2 DEF BlockBitmapOK, Clean
<1>13. QED
  BY <1>7, <1>10, <1>11, <1>12 DEF Clean

\* Pass 2 finds nothing lost; a second write that is still to come changes
\* nothing that is seen.
LEMMA CleanStep2 ==
  ASSUME AttachedInv, DiskTypeOK', P2Next, Mendable, Clean
  PROVE  (pc # "p2_dotdot" => UNCHANGED disk) /\ Clean'
<1>1. P2Attach \/ P2SetParent \/ UNCHANGED disk
  BY DEF P2Next, P2Start, P2Traverse, P2Walked, P2Skip, P2Orphan, P2NoLostFound, P2Exit,
         P2SetOutside, P2Done, TrNext, TrCount, TrNextBlock, TrReturn
<1>2. ASSUME P2Attach PROVE FALSE
  <2>1. pc = "p2_sub"
    BY <1>2 DEF P2Attach
  <2>2. i2 \in Inode /\ Live(i2) /\ \A x \in TreeEntries : Named(x) # i2
    BY <2>1 DEF AttachedInv, ScanPart, P2Inv, ScanAt
  <2>3. Naming(TreeEntries, i2) = {}
    BY <2>2 DEF Naming
  <2>4. links[i2] = 0
    BY <2>2, <2>3, FS_EmptySet DEF Clean, LinkCountsOK
  <2>5. QED
    BY <2>2, <2>4 DEF Live
<1>3. CASE UNCHANGED disk
  <2>1. UNCHANGED <<inodes, data, links, ibitmap, bbitmap>>
    BY <1>3 DEF disk
  <2>2. QED
    BY <1>3, <2>1, SameGood DEF Clean
<1>4. CASE P2SetParent
  <2>1. pc = "p2_dotdot" /\ pc' = "p2_scan" /\ UNCHANGED <<inodes, links, ibitmap, bbitmap>>
    BY <1>4 DEF P2SetParent
  <2>2. /\ P2Inv /\ ShapeKept /\ DiskTypeOK /\ DiskTypeOK' /\ i2 \in Inode /\ lf \in Inode
        /\ ScanAt(stack2, pc, i2, lf)
    BY <2>1 DEF AttachedInv, ScanPart, P2Inv
  <2>3. TreesThere /\ HeadsThere /\ BlocksOwn
    BY DEF Mendable
  <2>4. PICK n : n = i2
    OBVIOUS
  <2>5. PICK l : l = lf
    OBVIOUS
  <2>6. /\ n \in Inode /\ Live(n) /\ n # ROOT_INODE_NUM /\ l \in Inode
        /\ l = LostFound /\ l # 0 /\ l # n
        /\ \A x \in KeptEntries : IsName(x) /\ Named(x) = n => x[1] = l
    BY <2>1, <2>2, <2>4, <2>5 DEF ScanAt
  <2>7. Restamped(n, 2)
    BY <1>4, <2>2, <2>3, <2>4, <2>6, SetParentRestamps
  <2>8. IsDir(n) => Pointer(n, 2)' = l
    BY <1>4, <2>2, <2>4, <2>5, <2>6, SetParentWrote DEF ShapeKept
  <2>9. ASSUME IsDir(n) PROVE Pointer(n, 2) = l
    <3>1. NumRefs(n) # 0
      BY <2>6 DEF Clean, LinkCountsOK, NumRefs, Live
    <3>2. n \in TreeDirs
      BY <2>2, <2>6, <2>9, <3>1, CountedThere DEF Clean
    <3>3. PICK c \in TreeDirs : n \in SubDirs(c)
      BY <2>2, <2>6, <3>2, TreeParent
    <3>4. PICK x \in EntriesIn(c) : NamesDir(x) /\ Named(x) = n
      BY <3>3, SubDirsNamed
    <3>5. x[1] = c /\ x \in TreeEntries
      BY <3>3, <3>4, EntryOwner, TreeEntriesIs
    <3>6. x \in KeptEntries
      BY <2>2, <2>3, <3>5, KeptThere
    <3>7. c = l
      BY <2>6, <3>4, <3>5, <3>6 DEF NamesDir
    <3>8. QED
      BY <2>6, <3>3, <3>7 DEF Clean, DirectoryPointersOK
  <2>10. n \in KeptDirs => Pointer(n, 2)' = Pointer(n, 2)
    BY <2>8, <2>9 DEF KeptDirs
  <2>11. 2 \in 1 .. 2
    OBVIOUS
  <2>12. Clean'
    BY <2>1, <2>2, <2>7, <2>10, <2>11, SeenGood
  <2>13. QED
    BY <2>1, <2>12
<1>5. QED
  BY <1>1, <1>2, <1>3, <1>4

\* Pass 3 finds no count to correct.
LEMMA CleanStep3 ==
  ASSUME P3Inv, P3CountInv, P3Next, LinkCountsOK
  PROVE  UNCHANGED disk
<1>1. P3Correct \/ UNCHANGED disk
  BY DEF P3Next, P3Start, P3Traverse, P3Walked, P3Same, P3Done,
         TrNext, TrCount, TrNextBlock, TrReturn
<1>2. ASSUME P3Correct PROVE FALSE
  <2>1. i3 \in Inode /\ pc = "p3_scan" /\ links[i3] # refs[i3]
    BY <1>2, CorrectOK DEF P3Correct
  <2>2. refs[i3] = NumRefs(i3)
    BY <2>1 DEF P3CountInv
  <2>3. links[i3] = NumRefs(i3)
    BY <2>1 DEF LinkCountsOK, NumRefs
  <2>4. QED
    BY <2>1, <2>2, <2>3
<1>3. QED
  BY <1>1, <1>2

\* Pass 4 writes back what it has read.
LEMMA CleanStep4 ==
  ASSUME P4Inv, P4Known, P4Next, BlockBitmapOK
  PROVE  UNCHANGED disk
<1>1. P4Write \/ UNCHANGED disk
  BY DEF P4Next, P4Start, P4Open, P4Entry, P4NextBlock, P4Return, P4Walked, P4Compare,
         P4NextGroup, P4Compared, P4Table, P4NextTable, P4Decide, P4Done, Comparing
<1>2. CASE P4Write
  <2>1. pc = "p4_flush" /\ LayoutSound /\ FoundInv /\ ResultInv /\ BitsBehind
    BY <1>2 DEF P4Write, P4Known, ResultInv
  <2>2. /\ DOMAIN bbitmap = 0 .. Groups * BlockBits - 1 /\ DOMAIN bbitmap' = DOMAIN bbitmap
        /\ \A i \in DOMAIN bbitmap :
             bbitmap'[i] = IF i \div BlockBits = grp THEN bm[i] ELSE bbitmap[i]
    BY <1>2, WrittenIs
  <2>3. tb \ {0} = UsedBlocks
    BY <2>1 DEF FoundInv, P4TrueBitmap
  <2>4. ASSUME NEW b \in Block \ {0}
        PROVE  get_block_alloc_bit(bm, b) = get_block_alloc_bit(bbitmap, b)
    <3>1. BlockBit(b) = get_block_alloc_bit(bbitmap, b)
      BY <2>1, BlockBitIs
    <3>2. get_block_alloc_bit(bbitmap, b) \in 0 .. 1
      BY BitIn DEF get_block_alloc_bit
    <3>3. CASE b \in DataBlocks
      <4>1. get_block_alloc_bit(bm, b) = IF b \in tb THEN 1 ELSE 0
        BY <2>1, <3>3 DEF ResultInv
      <4>2. b \in tb <=> b \in UsedBlocks
        BY <2>3
      <4>3. BlockBit(b) = 1 <=> b \in UsedBlocks
        BY <3>3 DEF BlockBitmapOK
      <4>4. QED
        BY <3>1, <3>2, <4>1, <4>2, <4>3
    <3>4. CASE b \in TableBlocks
      BY <2>1, <3>1, <3>4 DEF ResultInv, BlockBitmapOK
    <3>5. CASE b \notin DataBlocks \cup TableBlocks
      BY <2>1, <3>5 DEF ResultInv
    <3>6. QED
      BY <3>3, <3>4, <3>5
  <2>5. ASSUME NEW i \in DOMAIN bbitmap PROVE bm[i] = bbitmap[i]
    <3>1. CASE i >= BlocksCount - 1
      BY <2>1, <3>1 DEF BitsBehind
    <3>2. CASE i < BlocksCount - 1
      <4>1. i + 1 \in Block \ {0} /\ (i + 1) - 1 = i
        BY <2>2, <3>2, SizesOK DEF Block
      <4>2. QED
        BY <2>4, <4>1 DEF get_block_alloc_bit
    <3>3. QED
      BY <2>2, <3>1, <3>2, SizesOK
  <2>6. bbitmap' = bbitmap
    <3>1. bbitmap' = WriteGroup(grp)
      BY <1>2 DEF P4Write
    <3>2. bbitmap \in [0 .. Groups * BlockBits - 1 -> 0 .. 1]
      BY DEF P4Inv, DiskTypeOK, IsImage, Bitmap, Groups
    <3>3. QED
      BY <2>5, <3>1, <3>2 DEF WriteGroup
  <2>7. QED
    BY <1>2, <2>6 DEF P4Write, disk
<1>3. QED
  BY <1>1, <1>2

\* No step makes an error where there is none.
LEMMA CleanStays ==
  ASSUME RepairInv, RepairInv', [Next]_vars, Clean
  PROVE  (pc # "p2_dotdot" => UNCHANGED disk) /\ Clean'
<1>1. FsckInv /\ Mendable
  BY DEF RepairInv
<1>2. ASSUME UNCHANGED disk PROVE Clean'
  <2>1. UNCHANGED <<inodes, data, links, ibitmap, bbitmap>>
    BY <1>2 DEF disk
  <2>2. QED
    BY <2>1, SameGood DEF Clean
<1>3. CASE Step1
  <2>1. P1Next /\ In1
    BY <1>3, Where1 DEF Step1
  <2>2. P1Inv /\ P1PathInv
    BY <1>1, <2>1 DEF RepairInv, FsckInv
  <2>3. QED
    BY <1>2, <2>1, <2>2, CleanStep1 DEF Clean
<1>4. CASE Step2
  <2>1. P2Next /\ In2
    BY <1>4, Where2 DEF Step2
  <2>2. AttachedInv
    BY <2>1 DEF RepairInv
  <2>3. DiskTypeOK'
    BY DEF RepairInv, FsckInv
  <2>4. QED
    BY <1>1, <2>1, <2>2, <2>3, CleanStep2
<1>5. CASE Step3
  <2>1. P3Next /\ In3
    BY <1>5, Where3 DEF Step3
  <2>2. P3Inv /\ P3CountInv
    BY <1>1, <2>1, Split3 DEF RepairInv, FsckInv
  <2>3. QED
    BY <1>2, <2>1, <2>2, CleanStep3 DEF Clean
<1>6. CASE Step4
  <2>1. P4Next /\ In4
    BY <1>6, Where4 DEF Step4
  <2>2. P4Inv /\ P4Known
    BY <1>1, <2>1, Split4 DEF RepairInv, FsckInv
  <2>3. QED
    BY <1>2, <2>1, <2>2, CleanStep4 DEF Clean
<1>7. CASE Kill \/ Rerun \/ UNCHANGED vars
  <2>1. UNCHANGED disk
    BY <1>7 DEF Kill, Rerun, vars
  <2>2. QED
    BY <1>2, <2>1
<1>8. QED
  BY <1>3, <1>4, <1>5, <1>6, <1>7 DEF Next, Step

-----------------------------------------------------------------------------
(* What a run promises *)

\* The conditions that hold, one by one.
GoodMeans ==
  /\ Good \subseteq 1 .. 4
  /\ 1 \in Good <=> DirectoryPointersOK
  /\ 2 \in Good <=> UnreferencedOK
  /\ 3 \in Good <=> LinkCountsOK
  /\ 4 \in Good <=> BlockBitmapOK
  /\ Good = 1 .. 4 <=> Clean

\* By the definition of Good.
LEMMA GoodIs == GoodMeans
<1>1. /\ Good \subseteq 1 .. 4
      /\ 1 \in Good <=> DirectoryPointersOK
      /\ 2 \in Good <=> UnreferencedOK
      /\ 3 \in Good <=> LinkCountsOK
      /\ 4 \in Good <=> BlockBitmapOK
  BY DEF Good
<1>2. Good = 1 .. 4 <=> 1 \in Good /\ 2 \in Good /\ 3 \in Good /\ 4 \in Good
  <2>1. 1 .. 4 = {1, 2, 3, 4}
    OBVIOUS
  <2>2. QED
    BY <1>1, <2>1
<1>3. QED
  BY <1>1, <1>2 DEF GoodMeans, Clean

\* The same after a step.
LEMMA GoodNext == GoodMeans'
BY GoodIs, PTL

\* The stage is the number of passes that are over.
StageMeans ==
  /\ In1 => Stage = 0
  /\ In2 => Stage = 1
  /\ In3 => Stage = 2
  /\ In4 => Stage = 3
  /\ pc = "done" => Stage = 4
  /\ pc \in {"exit", "killed"} => Stage = 5

\* By the definition of Stage.
LEMMA StageIs == StageMeans
BY DEF StageMeans, Stage, In1, In2, In3, In4

\* The same after a step.
LEMMA StageNext == StageMeans'
BY StageIs, PTL

\* A step inside a stage: the conditions it must keep hold before and after it.
LEMMA WorkOK ==
  ASSUME RepairInv, RepairInv', [Next]_vars, Stage \in 0 .. 3, Stage' = Stage,
         Promise!Kept(Stage) \subseteq Good'
  PROVE  Promise!Work
<1>1. Good = Promise!Conditions => Good' = Promise!Conditions
  BY GoodIs, GoodNext, CleanStays DEF GoodMeans, Promise!Conditions
<1>2. QED
  BY <1>1, GoodNext DEF GoodMeans, Promise!Work, Promise!Conditions

\* Without a write the same conditions hold.
LEMMA GoodStill == ASSUME UNCHANGED disk PROVE Good' = Good
<1>1. UNCHANGED <<inodes, data, links, ibitmap, bbitmap>>
  BY DEF disk
<1>2. /\ DirectoryPointersOK' <=> DirectoryPointersOK
      /\ UnreferencedOK' <=> UnreferencedOK
      /\ LinkCountsOK' <=> LinkCountsOK
      /\ BlockBitmapOK' <=> BlockBitmapOK
  BY <1>1, SameGood
<1>3. QED
  BY <1>2 DEF Good

\* The end of a stage is a step that writes nothing.
LEMMA EndStageOK ==
  ASSUME UNCHANGED disk, Stage \in 0 .. 3, Stage' = Stage + 1, 1 .. Stage + 1 \subseteq Good'
  PROVE  Promise!EndStage
BY GoodStill DEF Promise!EndStage

\* Pass 1 works on the first stage or ends it.
LEMMA Repairs1 ==
  ASSUME RepairInv, RepairInv', [Next]_vars, Step1
  PROVE  Promise!Work \/ Promise!EndStage
<1>1. P1Next /\ In1 /\ pc' \in {"pass1", "p1_walk", "pass2"}
  BY Where1 DEF Step1
<1>2. Stage = 0
  BY <1>1, StageIs DEF StageMeans
<1>3. CASE pc' \in {"pass1", "p1_walk"}
  <2>1. Stage' = 0
    BY <1>3, StageNext DEF StageMeans, In1
  <2>2. Promise!Kept(Stage) \subseteq Good'
    BY <1>2 DEF Promise!Kept
  <2>3. QED
    BY <1>2, <2>1, <2>2, WorkOK
<1>4. CASE pc' = "pass2"
  <2>1. UNCHANGED disk
    BY <1>1, <1>4 DEF P1Next, P1Start, P1Correct, P1Descend, P1Skip, P1NextBlock, P1Return,
                      P1Done, Running1
  <2>2. Stage' = 1
    BY <1>4, StageNext DEF StageMeans, In2
  <2>3. 1 \in Good'
    <3>1. P1Inv /\ P1PathInv
      BY <1>1 DEF RepairInv, FsckInv
    <3>2. P1PathInv'
      BY <1>1, <3>1, PathStep
    <3>3. DirectoryPointersOK'
      BY <1>4, <3>2 DEF P1PathInv
    <3>4. QED
      BY <3>3, GoodNext DEF GoodMeans
  <2>4. 1 .. Stage + 1 = {1}
    BY <1>2
  <2>5. QED
    BY <1>2, <2>1, <2>2, <2>3, <2>4, EndStageOK
<1>5. QED
  BY <1>1, <1>3, <1>4

\* Pass 2 works on the second stage, ends it or stops the run.
LEMMA Repairs2 ==
  ASSUME RepairInv, RepairInv', [Next]_vars, Step2
  PROVE  Promise!Work \/ Promise!EndStage \/ Promise!Stop
<1>1. P2Next /\ In2
      /\ pc' \in {"pass2", "p2_walk", "p2_scan", "p2_sub", "p2_dotdot", "pass3", "exit"}
  BY Where2 DEF Step2
<1>2. Stage = 1
  BY <1>1, StageIs DEF StageMeans
<1>3. CASE pc' \in {"pass2", "p2_walk", "p2_scan", "p2_sub", "p2_dotdot"}
  <2>1. Stage' = 1
    BY <1>3, StageNext DEF StageMeans, In2
  <2>2. Promise!Kept(Stage) \subseteq Good'
    BY <1>2 DEF Promise!Kept
  <2>3. QED
    BY <1>2, <2>1, <2>2, WorkOK
<1>4. CASE pc' = "pass3"
  <2>1. UNCHANGED disk
    BY <1>1, <1>4 DEF P2Next, P2Start, P2Traverse, P2Walked, P2Skip, P2Orphan, P2Attach,
                      P2NoLostFound, P2SetParent, P2Exit, P2SetOutside, P2Done,
                      TrNext, TrCount, TrNextBlock, TrReturn
  <2>2. Stage' = 2
    BY <1>4, StageNext DEF StageMeans, In3
  <2>3. 1 \in Good' /\ 2 \in Good'
    <3>1. DirectoryPointersOK' /\ UnreferencedOK'
      BY <1>4 DEF RepairInv, In3
    <3>2. QED
      BY <3>1, GoodNext DEF GoodMeans
  <2>4. 1 .. Stage + 1 = {1, 2}
    BY <1>2
  <2>5. QED
    BY <1>2, <2>1, <2>2, <2>3, <2>4, EndStageOK
<1>5. CASE pc' = "exit"
  <2>1. UNCHANGED disk
    BY <1>1, <1>5 DEF P2Next, P2Start, P2Traverse, P2Walked, P2Skip, P2Orphan, P2Attach,
                      P2NoLostFound, P2SetParent, P2Exit, P2SetOutside, P2Done,
                      TrNext, TrCount, TrNextBlock, TrReturn
  <2>2. Stage' = 5
    BY <1>5, StageNext DEF StageMeans
  <2>3. QED
    BY <1>2, <2>1, <2>2, GoodStill DEF Promise!Stop
<1>6. QED
  BY <1>1, <1>3, <1>4, <1>5

\* Pass 3 keeps what the first two have established.
LEMMA Repairs3 ==
  ASSUME RepairInv, RepairInv', [Next]_vars, Step3
  PROVE  Promise!Work \/ Promise!EndStage
<1>1. P3Next /\ In3 /\ pc' \in {"pass3", "p3_walk", "p3_scan", "pass4"}
  BY Where3 DEF Step3
<1>2. Stage = 2
  BY <1>1, StageIs DEF StageMeans
<1>3. CASE pc' \in {"pass3", "p3_walk", "p3_scan"}
  <2>1. Stage' = 2
    BY <1>3, StageNext DEF StageMeans, In3
  <2>2. 1 \in Good' /\ 2 \in Good'
    <3>1. DirectoryPointersOK' /\ UnreferencedOK'
      BY <1>3 DEF RepairInv, In3
    <3>2. QED
      BY <3>1, GoodNext DEF GoodMeans
  <2>3. Promise!Kept(Stage) = {1, 2}
    BY <1>2 DEF Promise!Kept
  <2>4. QED
    BY <1>2, <2>1, <2>2, <2>3, WorkOK
<1>4. CASE pc' = "pass4"
  <2>1. UNCHANGED disk
    BY <1>1, <1>4 DEF P3Next, P3Start, P3Traverse, P3Walked, P3Same, P3Correct, P3Done,
                      TrNext, TrCount, TrNextBlock, TrReturn
  <2>2. Stage' = 3
    BY <1>4, StageNext DEF StageMeans, In4
  <2>3. 1 \in Good' /\ 2 \in Good' /\ 3 \in Good'
    <3>1. DirectoryPointersOK' /\ UnreferencedOK' /\ LinkCountsOK'
      BY <1>4 DEF RepairInv, In4
    <3>2. QED
      BY <3>1, GoodNext DEF GoodMeans
  <2>4. 1 .. Stage + 1 = {1, 2, 3}
    BY <1>2
  <2>5. QED
    BY <1>2, <2>1, <2>2, <2>3, <2>4, EndStageOK
<1>5. QED
  BY <1>1, <1>3, <1>4

\* Pass 4 keeps what the first three have established.
LEMMA Repairs4 ==
  ASSUME RepairInv, RepairInv', [Next]_vars, Step4
  PROVE  Promise!Work \/ Promise!EndStage
<1>1. P4Next /\ In4 /\ pc' \in {"pass4", "p4_walk", "p4_compare", "p4_table", "p4_flush", "done"}
  BY Where4 DEF Step4
<1>2. Stage = 3
  BY <1>1, StageIs DEF StageMeans
<1>3. CASE pc' # "done"
  <2>1. In4'
    BY <1>1, <1>3 DEF In4
  <2>2. Stage' = 3
    BY <2>1, StageNext DEF StageMeans
  <2>3. 1 \in Good' /\ 2 \in Good' /\ 3 \in Good'
    <3>1. DirectoryPointersOK' /\ UnreferencedOK' /\ LinkCountsOK'
      BY <2>1 DEF RepairInv
    <3>2. QED
      BY <3>1, GoodNext DEF GoodMeans
  <2>4. Promise!Kept(Stage) = {1, 2, 3}
    BY <1>2 DEF Promise!Kept
  <2>5. QED
    BY <1>2, <2>2, <2>3, <2>4, WorkOK
<1>4. CASE pc' = "done"
  <2>1. UNCHANGED disk
    BY <1>1, <1>4 DEF P4Next, P4Start, P4Open, P4Entry, P4NextBlock, P4Return, P4Walked,
                      P4Compare, P4NextGroup, P4Compared, P4Table, P4NextTable, P4Decide,
                      P4Write, P4Done, Comparing
  <2>2. Stage' = 4
    BY <1>4, StageNext DEF StageMeans
  <2>3. 1 \in Good' /\ 2 \in Good' /\ 3 \in Good' /\ 4 \in Good'
    <3>1. DirectoryPointersOK' /\ UnreferencedOK' /\ LinkCountsOK' /\ BlockBitmapOK'
      BY <1>4 DEF RepairInv
    <3>2. QED
      BY <3>1, GoodNext DEF GoodMeans
  <2>4. 1 .. Stage + 1 = {1, 2, 3, 4}
    BY <1>2
  <2>5. QED
    BY <1>2, <2>1, <2>2, <2>3, <2>4, EndStageOK
<1>5. QED
  BY <1>3, <1>4

\* A run that dies stops, and one that starts begins with the first stage again.
LEMMA RepairsStop ==
  ASSUME RepairInv, Kill \/ Rerun
  PROVE  Promise!Stop \/ Promise!Again
<1>1. Good' = Good
  BY GoodStill DEF Kill, Rerun
<1>2. CASE Kill
  <2>1. pc \in Passes /\ pc' = "killed"
    BY <1>2 DEF Kill
  <2>2. In1 \/ In2 \/ In3 \/ In4
    BY <2>1 DEF Passes, In1, In2, In3, In4
  <2>3. Stage < 4 /\ Stage' = 5
    BY <2>1, <2>2, StageIs, StageNext DEF StageMeans
  <2>4. QED
    BY <1>1, <2>3 DEF Promise!Stop
<1>3. CASE Rerun
  <2>1. pc \in {"done", "exit", "killed"} /\ pc' = "pass1"
    BY <1>3 DEF Rerun, Ended
  <2>2. Stage \in {4, 5} /\ Stage' = 0
    BY <2>1, StageIs, StageNext DEF StageMeans, In1
  <2>3. QED
    BY <1>1, <2>2 DEF Promise!Again
<1>4. QED
  BY <1>2, <1>3

\* Every step of the program is a step of the promise, or none.
LEMMA RepairsStep ==
  RepairInv /\ RepairInv' /\ [Next]_vars => [Promise!RepairNext]_(Promise!repairVars)
<1> SUFFICES ASSUME RepairInv, RepairInv', [Next]_vars
             PROVE  [Promise!RepairNext]_(Promise!repairVars)
  OBVIOUS
<1>1. CASE Next
  <2>1. Promise!Work \/ Promise!EndStage \/ Promise!Stop \/ Promise!Again
    BY <1>1, Repairs1, Repairs2, Repairs3, Repairs4, RepairsStop DEF Next, Step
  <2>2. QED
    BY <2>1 DEF Promise!RepairNext
<1>2. CASE UNCHANGED vars
  <2>1. UNCHANGED disk /\ UNCHANGED pc
    BY <1>2 DEF vars
  <2>2. Good' = Good
    BY <2>1, GoodStill
  <2>3. Stage' = Stage
    BY <2>1 DEF Stage
  <2>4. QED
    BY <2>2, <2>3 DEF Promise!repairVars
<1>3. QED
  BY <1>1, <1>2

\* The first run has nothing behind it.
LEMMA RepairsInit == Init => Promise!RepairInit
<1> SUFFICES ASSUME Init PROVE Promise!RepairInit
  OBVIOUS
<1>1. Stage = 0
  BY StageIs DEF Init, StageMeans, In1
<1>2. QED
  BY <1>1, GoodIs DEF GoodMeans, Promise!RepairInit, Promise!Conditions

-----------------------------------------------------------------------------
(* The theorems *)

\* The invariant of each pass holds while the pass runs, in every run, whatever
\* the runs before it, killed or not, have left.
THEOREM FsckInvariant == Spec => []FsckInv
<1>1. FsckInv /\ [Next]_vars => FsckInv'
  BY FsckStep1, FsckStep2, FsckStep3, FsckStep4, FsckStop, FsckStutter DEF Next, Step
<1>2. QED
  BY <1>1, FsckInvInit, PTL DEF Spec

\* Killed anywhere and run again any number of times, the four passes leave a
\* partition they can be run on.
THEOREM FsckTypeCorrect == Spec => []FsckTypeOK
<1>1. FsckInv => FsckTypeOK
  <2> SUFFICES ASSUME FsckInv PROVE FsckTypeOK
    OBVIOUS
  <2>1. TrTypeOK
    BY WalkTyped DEF FsckInv
  <2>2. stack4 \in Seq(Frame4)
    <3>1. Walk4Frame \subseteq Frame4
      BY DEF Walk4Frame
    <3>2. QED
      BY <3>1 DEF FsckInv, P4Locals
  <2>3. pc \in Passes \cup Ended
    BY DEF FsckInv, In1, In2, In3, In4, InNone, Passes, Ended
  <2>4. QED
    BY <2>1, <2>2, <2>3 DEF FsckInv, P2Locals, P4Locals, FsckTypeOK
<1>2. QED
  BY <1>1, FsckInvariant, PTL

\* Also in the composed program, a copy of a block that may be written back is
\* what the disk holds: no earlier run and no later pass interferes.
THEOREM FsckBufFresh == Spec => [](In1 => P1BufFresh)
<1>1. FsckInv => (In1 => P1BufFresh)
  BY DEF FsckInv, P1Inv
<1>2. QED
  BY <1>1, FsckInvariant, PTL

\* From a partition that can be put in order, killed anywhere and run again any
\* number of times, every pass of correct_one_partition starts on what it needs,
\* and what the passes that are over have put right is right.
THEOREM FsckRepairInvariant == Spec /\ Mendable /\ []Enough => []RepairInv
<1>1. RepairInv /\ Enough /\ Enough' /\ [Next]_vars => RepairInv'
  BY RepairInvStep
<1>2. Init /\ Mendable => RepairInv
  BY RepairInvInit
<1>3. QED
  BY <1>1, <1>2, PTL DEF Spec

\* Wherever it is killed, also between the two writes of add_to_lost_found, a run
\* leaves a partition that the next one can put in order.
THEOREM FsckMendable == Spec /\ Mendable /\ []Enough => []Mendable
<1>1. RepairInv => Mendable
  BY DEF RepairInv
<1>2. QED
  BY <1>1, FsckRepairInvariant, PTL

\* A partition without errors is written to by none of the four passes, but for
\* the second write of an add_to_lost_found, which then changes nothing a pass sees.
THEOREM FsckCleanUntouched == Spec /\ Mendable /\ []Enough => CleanUntouched
<1>1. RepairInv /\ RepairInv' /\ [Next]_vars =>
        [Good = 1 .. 4 /\ pc # "p2_dotdot" => UNCHANGED disk]_vars
  BY GoodIs, CleanStays DEF GoodMeans
<1>2. QED
  BY <1>1, FsckRepairInvariant, PTL DEF Spec, CleanUntouched

\* The four passes keep the promise of the program's README: each establishes its
\* condition, and no later one, and no run cut short, takes it back.
THEOREM FsckRepairs == Spec /\ Mendable /\ []Enough => Repairs
<1>1. RepairInv /\ RepairInv' /\ [Next]_vars => [Promise!RepairNext]_(Promise!repairVars)
  BY RepairsStep
<1>2. Init => Promise!RepairInit
  BY RepairsInit
<1>3. QED
  BY <1>1, <1>2, FsckRepairInvariant, PTL DEF Spec, Repairs, Promise!RepairSpec

=============================================================================
