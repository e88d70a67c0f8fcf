------------------------------ MODULE MCPass3 ------------------------------
(***************************************************************************)
(* Pass 3 on trees with hard links and directories of two blocks, every    *)
(* link count right or wrong; and, for the limit of the counts, on a file  *)
(* with 128 names.                                                         *)
(***************************************************************************)
EXTENDS Pass3, MCImages, TLC

Kinds == {k \in [Objects -> {"none", "dir", "reg"}] :
            k[3] = "dir" /\ k[4] = "dir" /\ k[6] = "reg"}

Parents(kind) ==
  {par \in [Objects -> {0, 2, 4, 5}] :
     Tree(kind, par) /\ par[3] = 2 /\ par[4] \in {2, 5} /\ par[6] = 4}

\* A wrong count is one too high, or 0 for inodes 2, 3 and 5.
Spoilt(right, bad) ==
  [n \in Inode |-> CASE n \notin bad -> right[n]
                     [] n \in bad /\ n \in {2, 3, 5} -> 0
                     [] OTHER -> right[n] + 1]

\* Inode 6 has a second name in lost+found.
Base(kind, par, spill) ==
  [SoundPlan(kind, par, 3, spill) EXCEPT !.hard = {<<3, 6>>}, !.links[6] = 2]

Plans ==
  UNION { UNION { { [Base(kind, par, spill) EXCEPT !.links = Spoilt(@, bad)] :
                      spill \in {{}, {2}}, bad \in SUBSET Inode } :
                  par \in Parents(kind) } : kind \in Kinds }

MCPass3Images == { Partition(p) : p \in Plans }

\* The root names inode 6 once and then 127 times more.
ManyNames ==
  LET kind == [n \in Objects |-> IF n = 3 THEN "dir" ELSE IF n = 6 THEN "reg" ELSE "none"]
      par == [n \in Objects |-> IF n \in {3, 6} THEN 2 ELSE 0]
      part == Partition(SoundPlan(kind, par, 2, {}))
  IN  { [part EXCEPT !.links[6] = 128,
                     !.data[Home(2)] = @ \o [i \in 1 .. 127 |-> Ent(kind, 6)]] }

\* All of these are what the theorems about the counts are about.
MCP3Init == P3Init /\ Assert(TreeShape /\ NamesFit, "an image that is not sound")
MCP3Spec == MCP3Init /\ [][P3Next]_p3vars /\ WF_p3vars(P3Next)

=============================================================================
