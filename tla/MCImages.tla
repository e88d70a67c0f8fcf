------------------------------ MODULE MCImages ------------------------------
(***************************************************************************)
(* Builds the small partitions the model-checking runs start on.           *)
(*                                                                         *)
(* Inode 2 is the root and inode 3 carries the name lost+found.  A plan    *)
(* says of every other inode what it is (kind) and which directory names   *)
(* it (par, 0 for none); of every directory what its "." and ".." say      *)
(* (dot, up), which second names of files it holds (hard) and whether its  *)
(* names are in a second block (spill); and what the link counts and the   *)
(* two bitmaps hold.  Inode n owns block Home(n).                          *)
(***************************************************************************)
EXTENDS Ext2Meaning

Objects == 3 .. NInodes

\* The numbers from 1 to n that are in S, in ascending order.
Ascending(S, n) == SelectSeq([i \in 1 .. n |-> i], LAMBDA i : i \in S)

\* The data blocks in ascending order, one to each inode from the root on.
Home(n) ==
  LET room == BlocksPerGroup - get_skip_block_num_in_group
  IN  ((n - 2) \div room) * BlocksPerGroup + get_skip_block_num_in_group
        + ((n - 2) % room) + 1
SpillHome == Home(NInodes + 1)

MCInodeTable ==
  [g \in Group |-> g * BlocksPerGroup + get_skip_block_num_in_group
                     - get_group_inode_block_num + 1]

-----------------------------------------------------------------------------
(* Trees *)

DirsOf(kind) == {2} \cup {n \in Objects : kind[n] = "dir"}

\* No inode is named, over any number of steps, by itself.
Acyclic(par) ==
  \A S \in SUBSET Objects : (\A n \in S : par[n] \in S) => S = {}

Tree(kind, par) ==
  /\ Acyclic(par)
  /\ \A n \in Objects : /\ par[n] \in {0} \cup DirsOf(kind)
                        /\ kind[n] = "none" => par[n] = 0

\* What a right ".." names; old for a directory nothing names.
RightUp(par, old, d) ==
  IF d = 2 THEN 2 ELSE IF par[d] = 0 THEN old ELSE par[d]

\* The number of names of n once every pointer is right.
RightLinks(kind, par, n) ==
  CASE n = 1 -> 0
    [] n = 2 -> 2 + Cardinality({m \in Objects : par[m] = 2 /\ kind[m] = "dir"})
    [] n > 2 /\ kind[n] = "none" -> 0
    [] n > 2 /\ kind[n] = "dir" ->
         2 + Cardinality({m \in Objects : par[m] = n /\ kind[m] = "dir"})
    [] OTHER -> 1

\* The inodes in use, and the blocks in use with the metadata blocks among them.
InUse(kind) == {1, 2} \cup {n \in Objects : kind[n] # "none"}
BlocksInUse(kind, spill) ==
  ((Block \ {0}) \ DataBlocks)
    \cup {Home(n) : n \in {2} \cup {m \in Objects : kind[m] \notin {"none", "other"}}}
    \cup (IF spill = {} THEN {} ELSE {SpillHome})

-----------------------------------------------------------------------------
(* The partition a plan describes *)

Ent(kind, n) ==
  [ino |-> n,
   typ |-> IF n \in DirsOf(kind) THEN "dir" ELSE "reg",
   nm  |-> IF n = 3 THEN "lost+found" ELSE "other"]

PointerTo(n) == [ino |-> n, typ |-> "dir", nm |-> "other"]

Kids(p, d) ==
  LET named == Ascending({n \in Objects : p.par[n] = d}, NInodes)
      more == Ascending({n \in Objects : <<d, n>> \in p.hard}, NInodes)
  IN  [i \in DOMAIN named |-> Ent(p.kind, named[i])]
        \o [i \in DOMAIN more |-> Ent(p.kind, more[i])]

BlocksOf(p, n) ==
  CASE n = 1 \/ (n > 2 /\ p.kind[n] \in {"none", "other"}) -> <<>>
    [] n > 1 /\ n \in p.spill -> <<Home(n), SpillHome>>
    [] OTHER -> <<Home(n)>>

Contents(p, b) ==
  LET owner == {d \in DirsOf(p.kind) : Home(d) = b}
      spilt == IF b = SpillHome THEN p.spill ELSE {}
  IN  IF owner # {}
      THEN LET d == CHOOSE x \in owner : TRUE
           IN  <<PointerTo(p.dot[d]), PointerTo(p.up[d])>>
                 \o (IF d \in p.spill THEN <<>> ELSE Kids(p, d))
      ELSE IF spilt # {} THEN Kids(p, CHOOSE d \in spilt : TRUE) ELSE <<>>

\* The padding of a bitmap is all ones, as mke2fs leaves it.
BitmapOf(groups, bits, pergroup, last, set) ==
  [i \in 0 .. groups * bits - 1 |->
     LET n == (i \div bits) * pergroup + (i % bits) + 1
     IN  IF i % bits < pergroup /\ n <= last /\ n \notin set THEN 0 ELSE 1]

Partition(p) ==
  [inodes  |-> [n \in Inode |->
                  [mode |-> IF n = 1 THEN "none" ELSE IF n = 2 THEN "dir"
                            ELSE p.kind[n],
                   blks |-> BlocksOf(p, n),
                   size |-> Len(BlocksOf(p, n))]],
   links   |-> p.links,
   data    |-> [b \in Block |-> Contents(p, b)],
   ibitmap |-> BitmapOf(get_inode_group_num, InodeBits, InodesPerGroup,
                        NInodes, p.marked),
   bbitmap |-> BitmapOf(get_block_group_num, BlockBits, BlocksPerGroup,
                        BlocksCount - 1, p.used)]

\* A plan with nothing wrong: old is the ".." of directories nothing names.
SoundPlan(kind, par, old, spill) ==
  [kind |-> kind, par |-> par, spill |-> spill, hard |-> {},
   dot    |-> [d \in DirsOf(kind) |-> d],
   up     |-> [d \in DirsOf(kind) |-> RightUp(par, old, d)],
   links  |-> [n \in Inode |-> RightLinks(kind, par, n)],
   marked |-> InUse(kind),
   used   |-> BlocksInUse(kind, spill)]

=============================================================================
