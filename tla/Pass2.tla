------------------------------- MODULE Pass2 -------------------------------
(***************************************************************************)
(* Pass 2: count the names of every inode, then put each allocated inode   *)
(* without a name into lost+found (pass2, add_to_lost_found).              *)
(*                                                                         *)
(* The two writes of add_to_lost_found are two steps: the block of         *)
(* lost+found that gets the new entry, and the first block of the inode,   *)
(* of which bytes 12..15 are made to say lost+found.  In a directory these *)
(* bytes are the inode number of the second entry.                         *)
(***************************************************************************)
EXTENDS DirTraversor

VARIABLES
  i2,      \* inode the scan is at
  lf       \* lost_found_dir.inode

p2vars == <<disk, pc, refs, stack2, i2, lf>>

P2TypeOK ==
  /\ DiskTypeOK
  /\ TrTypeOK
  /\ pc \in {"pass2", "p2_walk", "p2_scan", "p2_sub", "p2_dotdot", "pass3", "exit"}
  /\ i2 \in 1 .. NInodes + 1
  /\ lf \in 0 .. NInodes

-----------------------------------------------------------------------------

\* Faulty variants: a link count of 1 taken for none; the counts not looked at.
Unreferenced_Twice(n) == links[n] > 1 /\ get_inode_alloc_bit(n) = 1 /\ refs[n] = 0
Unreferenced_All(n) == links[n] # 0 /\ get_inode_alloc_bit(n) = 1

\* Inodes for which the scan asks whether they are named.
Live(n) == links[n] # 0 /\ get_inode_alloc_bit(n) = 1

Unreferenced(n) == Live(n) /\ refs[n] = 0

\* search_dir_entry looks into the first block of the directory only, and
\* answers the first entry of the name; 0 if there is none.
search_dir_entry(d, name) ==
  LET block == data[inodes[d].blks[1]]
      hits == {p \in Visible(block) : block[p].nm = name}
  IN  IF hits = {} THEN 0
      ELSE block[CHOOSE p \in hits : \A q \in hits : p <= q].ino

LostFound == search_dir_entry(ROOT_INODE_NUM, "lost+found")

\* The scan for the last entry of a block ends at an unused one.
Hole(block) == block = <<>> \/ Visible(block) # DOMAIN block

\* Whether the new entry is taken to fit.  At the end of the block the last
\* entry is shortened to its own length; at an unused entry, offset -= len
\* with len = -1 moves one byte ahead.  Room that is just enough is not used.
Fits(block) ==
  Cardinality(Visible(block)) + (IF Hole(block) THEN 2 ELSE 1) < EntriesPerBlock

\* Faulty variant: written at the last entry, not behind it.
write_new_entry_OverLast(block, e) ==
  IF block = <<>> THEN <<e>> ELSE [block EXCEPT ![Len(block)] = e]

\* Behind an unused entry the new one is on the disk, but no scan reaches it.
write_new_entry(block, e) ==
  IF Hole(block)
  THEN SubSeq(block, 1, Cardinality(Visible(block)))
         \o << [ino |-> 0, typ |-> "reg", nm |-> "other"], e >>
  ELSE Append(block, e)

\* Faulty variant: the number of the inode is not set.
create_new_entry_NoNumber(n) ==
  [ino |-> 0, typ |-> IF inodes[n].mode = "dir" THEN "dir" ELSE "reg", nm |-> "other"]

\* A directory is entered as one, anything else as a regular file.
create_new_entry(n) ==
  [ino |-> n, typ |-> IF inodes[n].mode = "dir" THEN "dir" ELSE "reg", nm |-> "other"]

\* i_block[0]: block 0 if the inode has no block.
FirstBlock(n) == IF inodes[n].blks = <<>> THEN 0 ELSE inodes[n].blks[1]

\* No directory has, as other than its first block, what pass 2 takes for the
\* first block of an inode: the block add_to_lost_found makes its second write
\* to.
FirstsApart ==
  \A d, n \in Inode : IsDir(d) =>
    \A k \in DOMAIN inodes[d].blks : inodes[d].blks[k] = FirstBlock(n) => k = 1

\* The directories there are: those of the tree and the lost ones, which the
\* scan finds; and all their entries.
KeptDirs == {d \in Inode : IsDir(d) /\ (Live(d) \/ d \in TreeDirs)}
KeptEntries == UNION { {<<d, e[1], e[2]>> : e \in Entries(d)} : d \in KeptDirs }

\* They are trees: an entry is of type directory if what it names is one, which
\* has no other such entry, and the root none.
TreesThere ==
  LET dirs == KeptDirs
      entries == KeptEntries
  IN  /\ \A x \in entries : IsName(x) =>
           /\ NamesDir(x) <=> IsDir(Named(x))
           /\ IsDir(Named(x)) => Named(x) \in dirs \ {ROOT_INODE_NUM}
      /\ \A x, y \in entries :
           NamesDir(x) /\ NamesDir(y) /\ Named(x) = Named(y) => x = y

\* Each directory starts with "." and "..", the first of which is right.
TreesSound ==
  LET entries == KeptEntries
  IN  /\ TreesThere
      /\ \A d \in KeptDirs : {<<d, 1, 1>>, <<d, 1, 2>>} \subseteq entries /\ SelfOK(d)

\* The ".." of every directory that is named, and of the root, is right.
UpsSound ==
  /\ Pointer(ROOT_INODE_NUM, 2) = ROOT_INODE_NUM
  /\ \A d \in KeptDirs : \A c \in SubDirs(d) : Pointer(c, 2) = d

\* A lost directory has a smaller number than what it names, so the scan is at
\* it first; and if nothing names it, its ".." does not name what the scan has
\* still to come to.
LostInOrder ==
  LET tree == TreeDirs
      entries == KeptEntries
  IN  /\ \A x \in entries : IsName(x) /\ x[1] \notin tree => x[1] < Named(x)
      /\ \A d \in KeptDirs \ tree :
           (\A x \in entries : NamesDir(x) => Named(x) # d) =>
             Pointer(d, 2) <= d \/ Pointer(d, 2) \in tree

\* lost+found is a directory of the root, if there is one.
LostFoundSound == LostFound # 0 => LostFound \in SubDirs(ROOT_INODE_NUM)

\* No block is two blocks of directories, or the first block of what the scan
\* may attach and a block of a directory.
KeptApart ==
  LET dirs == KeptDirs
  IN  /\ \A c, d \in dirs :
           \A j \in DOMAIN inodes[c].blks, k \in DOMAIN inodes[d].blks :
             inodes[c].blks[j] = inodes[d].blks[k] => c = d /\ j = k
      /\ \A n \in Inode : Live(n) /\ ~IsDir(n) =>
           \A d \in dirs : \A k \in DOMAIN inodes[d].blks :
             inodes[d].blks[k] # FirstBlock(n)

\* A char can count all the names there are.
KeptFit ==
  LET entries == KeptEntries
  IN  \A n \in Inode : Cardinality(Naming(entries, n)) <= CharMax

\* The partitions on which pass 2 finds what is lost and nothing else.
P2Sound ==
  TreesSound /\ UpsSound /\ LostInOrder /\ LostFoundSound /\ KeptApart /\ KeptFit

\* Nothing has two names.
OneName ==
  LET entries == KeptEntries
  IN  \A x, y \in entries :
        IsName(x) /\ IsName(y) /\ Named(x) = Named(y) => x = y

\* The bit the program reads of an inode is set if that of the inode is.
BitsCover == \A n \in Inode : InodeBit(n) = 1 => get_inode_alloc_bit(n) = 1

\* The blocks of lost+found with room for one more entry, by their index.
RoomIn(d) ==
  {k \in DOMAIN inodes[d].blks :
     /\ \A j \in 1 .. k : HasBlock(d, j)
     /\ Fits(data[inodes[d].blks[k]])}

-----------------------------------------------------------------------------

P2Init ==
  /\ ImageInit
  /\ pc = "pass2"
  /\ refs = NoRefs
  /\ stack2 = <<>>
  /\ i2 = 1
  /\ lf = 0

\* Faulty variant: the scan starts at 0.
P2Start_FromZero ==
  /\ pc = "pass2"
  /\ pc' = "p2_walk"
  /\ refs' = NoRefs
  /\ stack2' = <<Call2(ROOT_INODE_NUM)>>
  /\ i2' = 0
  /\ UNCHANGED <<disk, lf>>

P2Start ==
  /\ pc = "pass2"
  /\ pc' = "p2_walk"
  /\ refs' = NoRefs
  /\ stack2' = <<Call2(ROOT_INODE_NUM)>>
  /\ i2' = 1
  /\ UNCHANGED <<disk, lf>>

P2Traverse ==
  /\ pc \in {"p2_walk", "p2_sub"}
  /\ TrNext
  /\ UNCHANGED <<i2, lf>>

P2Walked ==
  /\ pc = "p2_walk"
  /\ stack2 = <<>>
  /\ pc' = "p2_scan"
  /\ UNCHANGED <<disk, refs, stack2, i2, lf>>

\* Faulty variant: continue without ++i.
P2Skip_Stays ==
  /\ pc = "p2_scan"
  /\ i2 <= NInodes
  /\ ~Unreferenced(i2)
  /\ UNCHANGED <<disk, pc, refs, stack2, i2, lf>>

P2Skip ==
  /\ pc = "p2_scan"
  /\ i2 <= NInodes
  /\ ~Unreferenced(i2)
  /\ i2' = i2 + 1
  /\ UNCHANGED <<disk, pc, refs, stack2, lf>>

\* Faulty variant: what it names is not counted.
P2Orphan_NotWalked ==
  /\ pc = "p2_scan"
  /\ i2 <= NInodes
  /\ Unreferenced(i2)
  /\ pc' = "p2_sub"
  /\ UNCHANGED <<disk, refs, stack2, i2, lf>>

\* What an unreferenced directory names is counted before it is attached.
P2Orphan ==
  /\ pc = "p2_scan"
  /\ i2 <= NInodes
  /\ Unreferenced(i2)
  /\ pc' = "p2_sub"
  /\ stack2' = IF inodes[i2].mode = "dir" THEN <<Call2(i2)>> ELSE <<>>
  /\ UNCHANGED <<disk, refs, i2, lf>>

\* add_to_lost_found, first write: the entry goes into the first block with
\* room, and nowhere if no block has room; both go on to the second write.
P2Attach ==
  /\ pc = "p2_sub"
  /\ stack2 = <<>>
  /\ lf' = LostFound
  /\ lf' # 0
  /\ pc' = "p2_dotdot"
  /\ \/ \E k \in RoomIn(lf') :
          /\ \A m \in RoomIn(lf') : k <= m
          /\ data' = [data EXCEPT ![inodes[lf'].blks[k]] =
                        write_new_entry(@, create_new_entry(i2))]
     \/ RoomIn(lf') = {} /\ UNCHANGED data
  /\ UNCHANGED <<inodes, links, overwritten, ibitmap, bbitmap, refs, stack2, i2>>

P2NoLostFound ==
  /\ pc = "p2_sub"
  /\ stack2 = <<>>
  /\ LostFound = 0
  /\ pc' = "p2_scan"
  /\ i2' = i2 + 1
  /\ UNCHANGED <<disk, refs, stack2, lf>>

\* Faulty variant: written at offset 0 of the block.
P2SetParent_FirstEntry ==
  /\ pc = "p2_dotdot"
  /\ FirstBlock(i2) \in Block
  /\ LET b == FirstBlock(i2)
     IN  IF Len(data[b]) >= 2
         THEN /\ data' = [data EXCEPT ![b][1].ino = lf]
              /\ UNCHANGED overwritten
         ELSE /\ overwritten' = overwritten \cup {b}
              /\ UNCHANGED data
  /\ pc' = "p2_scan"
  /\ i2' = i2 + 1
  /\ UNCHANGED <<inodes, links, ibitmap, bbitmap, refs, stack2, lf>>

\* Second write, whatever kind of inode it is.
P2SetParent ==
  /\ pc = "p2_dotdot"
  /\ FirstBlock(i2) \in Block
  /\ LET b == FirstBlock(i2)
     IN  IF Len(data[b]) >= 2
         THEN /\ data' = [data EXCEPT ![b][2].ino = lf]
              /\ UNCHANGED overwritten
         ELSE /\ overwritten' = overwritten \cup {b}
              /\ UNCHANGED data
  /\ pc' = "p2_scan"
  /\ i2' = i2 + 1
  /\ UNCHANGED <<inodes, links, ibitmap, bbitmap, refs, stack2, lf>>

\* The target of a symbolic link taken for a block number.  Behind the end of
\* the image the read fails and the program exits.
P2Exit ==
  /\ pc = "p2_dotdot"
  /\ FirstBlock(i2) \notin Block
  /\ pc' = "exit"
  /\ UNCHANGED <<disk, refs, stack2, i2, lf>>

\* Behind the end of the partition only, the 4 bytes that are replaced are not
\* of this partition.
P2SetOutside ==
  /\ pc = "p2_dotdot"
  /\ FirstBlock(i2) \notin Block
  /\ pc' = "p2_scan"
  /\ i2' = i2 + 1
  /\ UNCHANGED <<disk, refs, stack2, lf>>

P2Done ==
  /\ pc = "p2_scan"
  /\ i2 > NInodes
  /\ pc' = "pass3"
  /\ UNCHANGED <<disk, refs, stack2, i2, lf>>

P2Next ==
  \/ P2Start
  \/ P2Traverse
  \/ P2Walked
  \/ P2Skip
  \/ P2Orphan
  \/ P2Attach
  \/ P2NoLostFound
  \/ P2SetParent
  \/ P2Exit
  \/ P2SetOutside
  \/ P2Done

P2Spec == P2Init /\ [][P2Next]_p2vars /\ WF_p2vars(P2Next)

-----------------------------------------------------------------------------
(* Properties *)

\* lost+found is found, and there is room in it: the next entry goes into a block
\* that has no unused entry.
RoomLeft ==
  /\ LostFound # 0
  /\ \E k \in RoomIn(LostFound) :
       /\ \A m \in RoomIn(LostFound) : k <= m
       /\ ~Hole(data[inodes[LostFound].blks[k]])

\* README, pass 2: when the pass ends every allocated inode with a link count
\* has a name in the tree, if lost+found had room.  It holds on partitions
\* whose unreferenced directories are numbered below what they name and say
\* in ".." nothing that has still to be attached.
P2Result == pc = "pass3" /\ RoomLeft => UnreferencedOK

\* Pass 2 repairs the tree and leaves file contents alone: the write that sets
\* the parent directory goes to directories.
P2FilesKept == overwritten = {}

\* The comment of correct.c:121-123: of an unreferenced directory only the
\* topmost goes into lost+found.  On a partition without hard links nothing
\* has two names when the pass ends.
P2TopmostOnly == pc = "pass3" => \A n \in Inode : Cardinality(NamesOf(n)) <= 1

\* Nothing that the tree names is put into lost+found: the counts in memory
\* and the bits of the inode bitmap never call a named inode unreferenced.
P2OrphanOnly == pc = "p2_sub" => NumRefs(i2) = 0

\* Between two inodes of the scan every directory of the tree has a right "."
\* and "..", those just attached among them.
P2PointersOK == pc \in {"p2_scan", "pass3"} => DirectoryPointersOK

\* Pass 2 only adds to the tree: a directory that can be reached stays
\* reachable and keeps its names.
P2OnlyAdds ==
  [][ data' # data =>
        /\ TreeDirs \subseteq TreeDirs'
        /\ \A d \in TreeDirs : \A e \in Names(d) :
             e \in Names(d)' /\ EntryAt(d, e)' = EntryAt(d, e) ]_p2vars

\* The pass ends, whatever is unreferenced.
P2Terminates == <>(pc \in {"pass3", "exit"})

=============================================================================
