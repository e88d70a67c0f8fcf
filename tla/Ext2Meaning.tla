---------------------------- MODULE Ext2Meaning ----------------------------
(***************************************************************************)
(* What an ext2 partition means, independently of how myfsck reads it:     *)
(* the directory tree, the number of names an inode has, the blocks in     *)
(* use, and the bit a bitmap holds for an inode or a block.  The           *)
(* conditions at the end are the ones the README asks the first three      *)
(* passes to establish; that of the fourth is in FileBlocks.               *)
(***************************************************************************)
EXTENDS Ext2Image

IsDir(n) == inodes[n].mode = "dir"

\* The entries of a block a scan reaches: those before the first unused one.
Visible(entries) ==
  {p \in DOMAIN entries : \A q \in 1 .. p : entries[q].ino # 0}

\* The entries of directory d, as <<block index, position>>.
Entries(d) ==
  IF IsDir(d)
  THEN UNION { {<<k, p>> : p \in Visible(data[inodes[d].blks[k]])} :
               k \in DOMAIN inodes[d].blks }
  ELSE {}

EntryAt(d, e) == data[inodes[d].blks[e[1]]][e[2]]

\* Every entry but "." and "..", the first two of the first block.
Names(d) == {e \in Entries(d) : e[1] > 1 \/ e[2] > 2}

SubDirs(d) ==
  {n \in {EntryAt(d, e).ino : e \in {x \in Names(d) : EntryAt(d, x).typ = "dir"}} :
     IsDir(n)}

\* Every inode reached from the root by at most k steps into subdirectories.
ReachedIn[k \in 0 .. NInodes] ==
  IF k = 0 THEN {ROOT_INODE_NUM}
  ELSE UNION {{d} \cup SubDirs(d) : d \in ReachedIn[k - 1]}

\* The directories of the tree: NInodes steps reach all that can be reached.
TreeDirs == ReachedIn[NInodes]

\* Every entry of the tree as <<directory, block index, position>>.
TreeEntries ==
  UNION { {<<d, e[1], e[2]>> : e \in Entries(d)} : d \in TreeDirs }

\* What an entry of the tree names, whether it is neither "." nor "..", and
\* whether it makes a subdirectory of what it names.
Named(x) == EntryAt(x[1], <<x[2], x[3]>>).ino
IsName(x) == x[2] > 1 \/ x[3] > 2
NamesDir(x) == IsName(x) /\ EntryAt(x[1], <<x[2], x[3]>>).typ = "dir"

\* The tree is one: what a name calls a directory is one, and no directory has
\* two names, the root none.
TreeShape ==
  /\ \A x \in TreeEntries : NamesDir(x) => IsDir(Named(x)) /\ Named(x) # ROOT_INODE_NUM
  /\ \A x, y \in TreeEntries :
       NamesDir(x) /\ NamesDir(y) /\ Named(x) = Named(y) => x = y

Naming(entries, n) == {x \in entries : Named(x) = n}
NumRefs(n) == Cardinality(Naming(TreeEntries, n))

\* The entries of the tree that name n, "." and ".." left out.
NamesOf(n) ==
  {x \in Naming(TreeEntries, n) : <<x[2], x[3]>> \in Names(x[1])}

-----------------------------------------------------------------------------
(* "." and ".." *)

Pointer(d, p) == data[inodes[d].blks[1]][p].ino

SelfOK(d) == Pointer(d, 1) = d

UpOK(d) ==
  IF d = ROOT_INODE_NUM
  THEN Pointer(d, 2) = d
  ELSE \A p \in TreeDirs : d \in SubDirs(p) => Pointer(d, 2) = p

-----------------------------------------------------------------------------
(* Where the bit of an inode or a block is: bit (n-1) mod per-group of the *)
(* bitmap of group (n-1) div per-group.                                    *)

InodeBit(n) ==
  ibitmap[((n - 1) \div InodesPerGroup) * InodeBits + ((n - 1) % InodesPerGroup)]

BlockBit(b) ==
  bbitmap[((b - 1) \div BlocksPerGroup) * BlockBits + ((b - 1) % BlocksPerGroup)]

\* Blocks behind the super block, descriptors, bitmaps and table of a group.
DataBlocks ==
  {b \in Block \ {0} : (b - 1) % BlocksPerGroup >= get_skip_block_num_in_group}

TableBlocks ==
  UNION {InodeTable[g] .. InodeTable[g] + get_group_inode_block_num - 1 : g \in Group}

-----------------------------------------------------------------------------
(* The conditions of the README's passes *)

DirectoryPointersOK ==
  /\ Pointer(ROOT_INODE_NUM, 2) = ROOT_INODE_NUM
  /\ \A d \in TreeDirs :
       SelfOK(d) /\ \A c \in SubDirs(d) \ {ROOT_INODE_NUM} : Pointer(c, 2) = d

UnreferencedOK ==
  LET entries == TreeEntries
  IN  \A n \in Inode : InodeBit(n) = 1 /\ links[n] > 0 => Naming(entries, n) # {}

LinkCountsOK ==
  LET entries == TreeEntries
  IN  \A n \in Inode : links[n] = Cardinality(Naming(entries, n))

=============================================================================
