------------------------------ MODULE MCPass1 ------------------------------
(***************************************************************************)
(* Pass 1 on every tree of four objects of which one is a regular file, or *)
(* all are directories, with each "." right or naming the parent and each  *)
(* ".." right or naming the directory itself.  Then a root with two        *)
(* blocks, and partitions on which the root calls a regular file a         *)
(* directory, with and without contents that read as entries.              *)
(***************************************************************************)
EXTENDS Pass1, MCImages, TLC

Kinds == {k \in [Objects -> {"dir", "reg"}] :
            k[3] = "dir" /\ Cardinality({n \in Objects : k[n] = "reg"}) <= 1}

Trees(kind) ==
  {par \in [Objects -> {2} \cup Objects] : Tree(kind, par) /\ par[3] = 2}

WrongDot(par, d) == IF d = 2 THEN 3 ELSE par[d]
WrongUp(d) == IF d = 2 THEN 3 ELSE d

\* dots and ups are the directories whose "." and ".." are wrong.
Spoilt(kind, par, dots, ups) ==
  [SoundPlan(kind, par, 0, {}) EXCEPT
     !.dot = [d \in dots |-> WrongDot(par, d)] @@ @,
     !.up  = [d \in ups |-> WrongUp(d)] @@ @]

Plans ==
  UNION { { Spoilt(kind, par, dots, ups) :
              par \in Trees(kind), dots \in SUBSET DirsOf(kind), ups \in SUBSET DirsOf(kind) } :
          kind \in Kinds }

\* A root with two blocks, the second starting with two names of files.
SpillPlans ==
  LET k == [n \in Objects |-> IF n = NInodes THEN "dir" ELSE "reg"]
      par == [n \in Objects |-> 2]
  IN  { [SoundPlan(k, par, 0, {2}) EXCEPT !.up[NInodes] = u] : u \in {2, NInodes} }

\* Inode 4 is a file with the given pointers and a first block that reads as the
\* given entries; an entry of the root calls it a directory.  Nothing names the
\* directory 5.
CalledDir(entries, blks) ==
  LET p == Partition(SoundPlan([n \in Objects |-> IF n = 4 THEN "reg" ELSE "dir"],
                               [n \in Objects |-> IF n = 5 THEN 0 ELSE 2], 2, {}))
  IN  [p EXCEPT !.data[Home(2)][4].typ = "dir",
                !.data[Home(4)] = entries,
                !.data[SpillHome] = <<PointerTo(3), PointerTo(3)>>,
                !.inodes[4].blks = blks, !.inodes[4].size = Len(blks)]

\* Text, which has no entries; what reads as names of files; what reads as a
\* directory with wrong pointers that names 5.  The file has no hole, or one in
\* front of its last block, or nothing else in front.
CalledDirs ==
  LET file == [PointerTo(4) EXCEPT !.typ = "reg"]
  IN  { CalledDir(entries, blks) :
          entries \in {<<>>, <<file, file, file>>, <<PointerTo(3), PointerTo(3), PointerTo(5)>>},
          blks \in {<<Home(4)>>, <<Home(4), 0, SpillHome>>, <<0, Home(4)>>} }

MCPass1Images == { Partition(p) : p \in Plans \cup SpillPlans } \cup CalledDirs

\* All others are trees pass 1 can put right.
MCP1Init ==
  /\ P1Init
  /\ Assert(P1Sound \/ \E x \in TreeEntries : NamesDir(x) /\ ~IsDir(Named(x)),
            "an image that is not sound")
MCP1Spec == MCP1Init /\ [][P1Next]_p1vars /\ WF_p1vars(P1Next)

\* A root whose second block starts with the names of directories.
SecondBlock ==
  LET k == [n \in Objects |-> "dir"]
      par == [n \in Objects |-> 2]
  IN  { Partition(SoundPlan(k, par, 0, {2})) }

\* A file whose contents read as a directory, which is what the root calls it.
CalledFile ==
  { CalledDir(<<PointerTo(3), PointerTo(3)>>, <<Home(4)>>) }

=============================================================================
