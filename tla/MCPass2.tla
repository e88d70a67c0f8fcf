------------------------------ MODULE MCPass2 ------------------------------
(***************************************************************************)
(* Pass 2 on partitions whose pointers are right and of whose objects 4 to *)
(* 7 any have lost their name: files, directories and whole subtrees, the  *)
(* ".." of a lost directory naming the root, lost+found, itself or a       *)
(* directory with a smaller number.  lost+found has one block, or two with *)
(* what it already names in the second.  Then the partitions of Limits, and*)
(* two small sets for what pass 2 gets wrong.                              *)
(***************************************************************************)
EXTENDS Pass2, MCImages, TLC

Kinds == {k \in [Objects -> {"none", "dir", "reg"}] :
            k[3] = "dir" /\ k[4] # "none" /\ k[5] = "dir" /\ k[7] # "dir"}

Parents(kind) ==
  {par \in [Objects -> {0, 2, 3, 4, 5}] :
     /\ Tree(kind, par)
     /\ par[3] = 2 /\ par[7] \in {0, 3} /\ par[6] # 2
     /\ \A n \in Objects : par[n] < n \/ par[par[n]] # 0}

LostDirs(kind, par) == {d \in DirsOf(kind) \ {2} : par[d] = 0}
Lost(kind, par) == {n \in Objects : kind[n] # "none" /\ par[n] = 0}

OldUps(kind, par) ==
  {ups \in [LostDirs(kind, par) -> DirsOf(kind)] :
     \A d \in LostDirs(kind, par) : ups[d] \in {2, 3, 4, d} /\ ups[d] <= IF d > 3 THEN d ELSE 3}

\* Every name to come finds room: two fit into the first block of lost+found,
\* two into the second with what is there.
Room(kind, par, spill) ==
  LET held == Cardinality({n \in Objects : par[n] = 3})
      come == Cardinality(Lost(kind, par))
  IN  IF spill = {} THEN held + come <= 2 ELSE held >= 1 /\ held + come <= 4

Plans ==
  UNION { UNION { { [SoundPlan(kind, par, 2, spill) EXCEPT !.up = ups @@ @] :
                      ups \in OldUps(kind, par),
                      spill \in {s \in {{}, {3}} : Room(kind, par, s)} } :
                  par \in Parents(kind) } : kind \in Kinds }

\* Kinds and parents of 4 to 7 in a plan; 0 is none.
Plan(kinds, pars, spill) ==
  SoundPlan([n \in Objects |-> IF n = 3 THEN "dir" ELSE kinds[n - 3]],
            [n \in Objects |-> IF n = 3 THEN 2 ELSE pars[n - 3]], 2, spill)

Files == <<"reg", "reg", "reg", "reg">>

\* Where pass 2 cannot do what it should: lost+found is not in the root; it
\* has no room left; its second block starts with an unused entry; the lost
\* object is an empty file or a symbolic link, to a name that is no block
\* number and to one that is.
Limits ==
  { Partition([Plan(<<"dir", "reg", "none", "none">>, <<2, 0, 0, 0>>, {})
                 EXCEPT !.par[3] = 4, !.up[3] = 4]),
    Partition(Plan(Files, <<0, 0, 0, 2>>, {})),
    Partition(Plan(Files, <<0, 0, 0, 2>>, {3})) }
  \cup
  { [Partition(Plan(<<"lnk", "reg", "reg", "none">>, <<0, 2, 2, 0>>, {}))
       EXCEPT !.inodes[4] = [mode |-> "lnk", blks |-> b, size |-> 1]] : b \in {<<97>>, <<12>>} }
  \cup
  { [Partition(Plan(Files, <<0, 2, 2, 2>>, {})) EXCEPT !.inodes[4].blks = <<>>, !.inodes[4].size = 0] }

MCPass2Images == { Partition(p) : p \in Plans } \cup Limits

\* The conditions of the theorems on pass 2 are true of them.
MCP2Init ==
  /\ P2Init
  /\ Assert(FirstsApart, "FirstsApart")
  /\ Assert(P2Sound, "P2Sound")
  /\ Assert(OneName, "OneName")
  /\ Assert(BitsCover, "BitsCover")
MCP2Spec == MCP2Init /\ [][P2Next]_p2vars /\ WF_p2vars(P2Next)

\* The lost directory 5 names directory 4.
ChildFirst ==
  { Partition(Plan(<<"dir", "dir", "reg", "none">>, <<5, 0, 2, 0>>, {})) }

\* A lost file.
LostFile ==
  { Partition(Plan(<<"reg", "dir", "none", "none">>, <<0, 2, 0, 0>>, {})) }

=============================================================================
