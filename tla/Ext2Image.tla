----------------------------- MODULE Ext2Image -----------------------------
(***************************************************************************)
(* The part of an ext2 partition that myfsck reads and writes, and the     *)
(* sizes it derives from the super block.                                  *)
(*                                                                         *)
(* A directory block is the sequence of its directory entries, in the      *)
(* order the rec_len fields chain them.  read_dir_entry_in_block answers   *)
(* -1 on an entry whose inode number is 0, so such an entry ends the scan  *)
(* of its block whatever follows it.  A block that holds file contents is  *)
(* the entries its bytes read as, if any; of the bytes beyond them all     *)
(* that is remembered is whether myfsck has replaced bytes 12..15          *)
(* (overwritten).                                                          *)
(*                                                                         *)
(* Both bitmaps are kept as myfsck keeps them in memory: the bitmap blocks *)
(* of the groups one after the other, as one array of bits.                *)
(***************************************************************************)
EXTENDS Integers, Sequences, FiniteSets

CONSTANTS
  NInodes,         \* s_inodes_count
  InodesPerGroup,  \* s_inodes_per_group
  BlocksCount,     \* s_blocks_count, block 0 (the boot block) included
  BlocksPerGroup,  \* s_blocks_per_group
  BitsPerBlock,    \* bits in one block: 8 * block_size
  InodesPerBlock,  \* inodes in one block of the inode table
  EntriesPerBlock, \* directory entries that fit in one block, all of one size
  InodeTable,      \* bg_inode_table of each group descriptor
  Images           \* the partitions myfsck may be started on

VARIABLES
  pc,          \* which part of the program runs
  inodes,      \* mode and block pointers of every inode
  links,       \* i_links_count of every inode
  data,        \* what every block reads as: its directory entries
  overwritten, \* non-directory blocks whose bytes 12..15 myfsck has replaced
  ibitmap,     \* inode bitmap of the partition
  bbitmap      \* block bitmap of the partition

disk == <<inodes, links, data, overwritten, ibitmap, bbitmap>>

-----------------------------------------------------------------------------
(* Sizes derived from the super block *)

CeilDiv(a, b) == (a + b - 1) \div b

get_block_group_num == CeilDiv(BlocksCount, BlocksPerGroup)
get_inode_group_num == CeilDiv(NInodes, InodesPerGroup)

\* Blocks that one group's bitmaps and inode table take.
get_group_block_bitmap_block_num == CeilDiv(BlocksPerGroup, BitsPerBlock)
get_group_inode_bitmap_block_num == CeilDiv(InodesPerGroup, BitsPerBlock)
get_group_inode_block_num == CeilDiv(InodesPerGroup, InodesPerBlock)

\* Super block, descriptors, bitmaps and inode table at the head of each group.
get_skip_block_num_in_group ==
  2 + get_group_block_bitmap_block_num + get_group_inode_bitmap_block_num
    + get_group_inode_block_num

Group == 0 .. get_block_group_num - 1
BlockBits == get_group_block_bitmap_block_num * BitsPerBlock
InodeBits == get_group_inode_bitmap_block_num * BitsPerBlock

-----------------------------------------------------------------------------
(* What is on the disk *)

ROOT_INODE_NUM == 2

Inode == 1 .. NInodes
Block == 0 .. BlocksCount - 1
LinkCount == 0 .. 65535
Bitmap(bits) == [0 .. bits - 1 -> 0 .. 1]

\* An inode's blks are its i_block pointers up to the first 0; of a regular
\* file, which may have holes, as many as its size needs.  Those of a symbolic
\* link are the bytes of its target, so they can be any number.  size is i_size
\* in blocks, rounded up; mode "other" is a pipe or a socket.
InodeRecord ==
  [mode: {"none", "dir", "reg", "lnk", "other"}, blks: Seq(Nat), size: Nat]

Entry == [ino: 0 .. NInodes, typ: {"dir", "reg"}, nm: {"lost+found", "other"}]

\* What the entry names is no symbolic link, if myfsck may walk into it.  It
\* walks into a regular file if the entry says directory.
NoLink(e, records) ==
  e.ino # 0 /\ (e.typ = "dir" \/ e.nm = "lost+found") => records[e.ino].mode # "lnk"

\* A partition myfsck may be started on.  Only a file has holes.  The root is a
\* directory that has a block, and neither an entry of directory type nor
\* lost+found is a symbolic link.
IsImage(nodes, counts, blocks, imap, bmap) ==
  /\ nodes \in [Inode -> InodeRecord]
  /\ counts \in [Inode -> LinkCount]
  /\ blocks \in [Block -> Seq(Entry)]
  /\ imap \in Bitmap(get_inode_group_num * InodeBits)
  /\ bmap \in Bitmap(get_block_group_num * BlockBits)
  /\ \A n \in Inode : nodes[n].mode # "lnk" => nodes[n].blks \in Seq(Block)
  /\ \A n \in Inode : nodes[n].mode \notin {"lnk", "reg"} =>
       \A k \in DOMAIN nodes[n].blks : nodes[n].blks[k] # 0
  /\ \A b \in Block : \A p \in DOMAIN blocks[b] : NoLink(blocks[b][p], nodes)
  /\ nodes[ROOT_INODE_NUM].mode = "dir"
  /\ nodes[ROOT_INODE_NUM].blks # <<>>

ASSUME SizesAssumption ==
  /\ NInodes \in Nat /\ NInodes >= ROOT_INODE_NUM
  /\ BlocksCount \in Nat \ {0}
  /\ InodesPerGroup \in Nat \ {0}
  /\ BlocksPerGroup \in Nat \ {0}
  /\ BitsPerBlock \in Nat \ {0}
  /\ InodesPerBlock \in Nat \ {0}
  /\ EntriesPerBlock \in Nat /\ EntriesPerBlock >= 3
  /\ InodeTable \in [Group -> Block]

ASSUME ImagesAssumption ==
  \A img \in Images : IsImage(img.inodes, img.links, img.data, img.ibitmap, img.bbitmap)

ImageInit ==
  \E img \in Images :
    /\ inodes = img.inodes
    /\ links = img.links
    /\ data = img.data
    /\ overwritten = {}
    /\ ibitmap = img.ibitmap
    /\ bbitmap = img.bbitmap

DiskTypeOK ==
  /\ IsImage(inodes, links, data, ibitmap, bbitmap)
  /\ overwritten \subseteq Block

-----------------------------------------------------------------------------
(* Reading the blocks of an inode: one after the other, up to the first    *)
(* pointer that is 0, whatever comes behind it.                            *)

HasBlock(n, k) == k <= Len(inodes[n].blks) /\ inodes[n].blks[k] # 0

-----------------------------------------------------------------------------
(* Reading the bitmaps.  Bit n - 1 of the concatenation is taken for inode *)
(* or block n, whatever the number of inodes or blocks in a group.         *)

get_inode_alloc_bit(n) == ibitmap[n - 1]
get_block_alloc_bit(bitmap, b) == bitmap[b - 1]

=============================================================================
