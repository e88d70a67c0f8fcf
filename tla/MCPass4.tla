------------------------------ MODULE MCPass4 ------------------------------
(***************************************************************************)
(* Pass 4 on a few trees, with files, a symbolic link, a pipe, a lost      *)
(* file, an unused inode and a directory of two blocks, and the bits of    *)
(* five blocks of both groups, an inode table among them, right or wrong;  *)
(* and on one tree with a file of every size up to DoubleIndirectMax, with *)
(* holes or without.                                                       *)
(***************************************************************************)
EXTENDS Pass4, MCImages, TLC

Kinds == {k \in [Objects -> {"none", "dir", "reg", "lnk", "other"}] :
            /\ k[3] = "dir" /\ k[4] = "dir"
            /\ k[5] # "lnk" /\ k[6] \in {"reg", "lnk"}}
Parents == {par \in [Objects -> {0, 2, 4}] : par[3] = 2 /\ par[4] = 2 /\ par[6] \in {0, 4}}

\* The block of file 6, the last of group 0, a bitmap, the second block of an
\* inode table, and the last block of all.
Suspects == {11, 14, 17, 20, 27}

Flipped(used, wrong) == (used \ wrong) \cup (wrong \ used)

Plans ==
  UNION { { [SoundPlan(kind, par, 2, {4}) EXCEPT !.used = Flipped(@, wrong)] :
              par \in {q \in Parents : Tree(kind, q)}, wrong \in SUBSET Suspects } :
          kind \in Kinds }

\* Two pointers to a block: 13, 22 and 25 are full indirect blocks, 21 a full
\* double indirect one, 14 and 27 have a hole.
MCPointersIn ==
  [b \in Block |-> CASE b = 13 -> <<14, 10>> [] b = 14 -> <<10, 0>>
                      [] b = 21 -> <<22, 25>> [] b = 22 -> <<23, 24>>
                      [] b = 25 -> <<26, 27>> [] b = 27 -> <<0, 14>>
                      [] OTHER  -> <<0, 0>>]

Tree6 ==
  SoundPlan([n \in Objects |-> CASE n \in {3, 4} -> "dir" [] n = 5 -> "other" [] n = 6 -> "reg"],
            [n \in Objects |-> IF n = 3 THEN 2 ELSE IF n = 4 THEN 2 ELSE 4], 2, {4})

\* i_block of the file: whole; with holes in the first block, the indirect
\* and the double indirect one; and with one below an indirect block of each kind.
Files6 == {<<11, 13, 21>>, <<0, 13, 21>>, <<11, 0, 21>>, <<11, 13, 0>>, <<11, 27, 21>>, <<11, 0, 27>>}

\* File 6 with the given i_block and size, bits of the blocks it may have right
\* or wrong.
WithFile(blks, size, wrong) ==
  [Partition([Tree6 EXCEPT !.used = Flipped(@ \cup {13, 14, 21, 22, 23, 25, 26}, wrong)])
     EXCEPT !.inodes[6] = [mode |-> "reg", blks |-> blks, size |-> size]]

MCPass4Images ==
  { Partition(p) : p \in Plans }
    \cup { WithFile(blks, size, wrong) : blks \in Files6, size \in 0 .. DoubleIndirectMax,
                                        wrong \in SUBSET {13, 14, 25} }

\* All of these are what the theorems about the result are about.
MCP4Init == P4Init /\ Assert(TreeSound /\ LayoutSound, "an image that is not sound")
MCP4Spec == MCP4Init /\ [][P4Next]_p4vars /\ WF_p4vars(P4Next)

=============================================================================
