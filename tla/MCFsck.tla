------------------------------- MODULE MCFsck -------------------------------
(***************************************************************************)
(* The whole program on partitions with errors of every kind: "." and ".." *)
(* of directories of the tree, lost files and subtrees, link counts, and   *)
(* bits of the block bitmap; each alone, and all together; and on          *)
(* partitions without any.                                                 *)
(***************************************************************************)
EXTENDS Fsck, MCImages, TLC

Kind == [n \in Objects |-> IF n = 6 THEN "reg" ELSE "dir"]

\* Which directory names 4, 5 and 6; 0 is none.
Parents == {<<2, 4, 4>>, <<2, 4, 5>>, <<0, 4, 4>>, <<2, 4, 0>>, <<0, 0, 3>>}
ParOf(t) == [n \in Objects |-> IF n = 3 THEN 2 ELSE t[n - 3]]

Reached(par, n) == par[n] # 0 /\ (par[n] = 2 \/ par[par[n]] # 0)

Errors == {"pointers", "links", "bitmap"}

Damaged(plan, errs) ==
  LET here == {d \in DirsOf(plan.kind) \ {2} : Reached(plan.par, d)}
  IN  [plan EXCEPT
         !.dot = IF "pointers" \in errs THEN [d \in here |-> plan.up[d]] @@ @ ELSE @,
         !.up = IF "pointers" \in errs THEN [d \in here \cup {2} |-> 3] @@ @ ELSE @,
         !.links = IF "links" \in errs
                   THEN [n \in Inode |-> IF n = 2 \/ @[n] = 0 THEN 7 ELSE @[n] + (n % 2)] ELSE @,
         !.used = IF "bitmap" \in errs THEN (@ \ {5, 6, 16}) \cup {10, 19} ELSE @]

\* lost+found has one block; or, as mke2fs makes it, a second one in which no entry
\* is in use.
Plans ==
  { Damaged(SoundPlan(Kind, ParOf(t), 2, {}), errs) :
      t \in Parents, errs \in {{}, Errors} \cup {{e} : e \in Errors} }
  \cup
  { Damaged(SoundPlan(Kind, ParOf(t), 2, {3}), errs) :
      t \in {<<2, 4, 4>>, <<2, 4, 0>>}, errs \in {{}, Errors} }

\* No file is large enough for indirect blocks.
MCPointersIn == [b \in Block |-> <<0>>]

MCFsckImages == { Partition(p) : p \in Plans }

=============================================================================
