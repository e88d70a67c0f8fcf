-------------------------- MODULE MCPartitionTable --------------------------
(***************************************************************************)
(* Disks with primary partitions of every kind around an extended one, and *)
(* up to three logical partitions in it, each behind a boot record of one  *)
(* sector and the last one ending where the extended partition ends.  Then *)
(* disks cut off in the extended partition, disks whose last logical       *)
(* partition sticks out of it, and disks whose logical partitions are in   *)
(* an extended partition within the extended one.                          *)
(***************************************************************************)
EXTENDS PartitionTable, SequencesExt, FiniteSetsExt

Blank == [type |-> "empty", start |-> 0, length |-> 0]
At(t, s, l) == [type |-> t, start |-> s, length |-> l]

Base == 10  \* first sector of the extended partition
Lengths(logs) == [i \in DOMAIN logs |-> logs[i].length + 1]
Record(logs, i) == Base + FoldSeq(LAMBDA a, b : a + b, 0, SubSeq(Lengths(logs), 1, i - 1))
Full(logs) == Record(logs, Len(logs) + 1) - Base

\* Logical partitions: type and length of each.
Logs == UNION {[1 .. n -> [type: {"ext2", "other"}, length: {2, 3}]] : n \in 1 .. 3}

Placed(logs) == [i \in DOMAIN logs |-> At(logs[i].type, Record(logs, i) + 1, logs[i].length)]

Records(logs) ==
  [s \in Word |->
     IF \E i \in DOMAIN logs : Record(logs, i) = s
     THEN LET i == CHOOSE j \in DOMAIN logs : Record(logs, j) = s
          IN  At(logs[i].type, 1, logs[i].length)
     ELSE Blank]

\* Three primary partitions of any kind, the extended one at place x.
Primaries == [1 .. 4 -> {Blank, At("ext2", 1, 4), At("other", 5, 4)}]

Made(logs, prim, x) ==
  [mbr |-> [prim EXCEPT ![x] = At("extended", Base, Full(logs))],
   size |-> Base + Full(logs), ebr |-> Records(logs), logical |-> Placed(logs)]

Plain == { Made(l, p, x) : l \in {y \in Logs : \A i \in DOMAIN y : y[i].length = 2 \/ i = 1},
                           p \in {q \in Primaries : q[2] = q[4] /\ q[3] = q[1]}, x \in {2, 4} }
NoneExtended ==
  { [mbr |-> p, size |-> Base, ebr |-> [s \in Word |-> Blank], logical |-> <<>>] :
      p \in Primaries }

Some == {l \in Logs : Len(l) = 2}
SomePrim == [n \in 1 .. 4 |-> IF n = 1 THEN At("ext2", 1, 4) ELSE Blank]

CutOff == { [Made(l, SomePrim, 2) EXCEPT !.size = Record(l, 2)] : l \in Some }

SticksOut ==
  { [Made(l, SomePrim, 2) EXCEPT !.mbr[2].length = @ - 1,
                                 !.logical = SubSeq(@, 1, 1)] : l \in Some }

\* The first record of the extended partition holds an extended partition,
\* which starts one sector further on and holds the logical partitions.
Nested ==
  { LET inner == Made(l, SomePrim, 2)
    IN  [inner EXCEPT !.mbr[2] = At("extended", Base - 1, Full(l) + 1),
                      !.ebr[Base - 1] = At("extended", 1, Full(l))] : l \in Some }

MCDisks == Plain \cup NoneExtended \cup CutOff \cup SticksOut \cup Nested

\* The logical partitions of all of these fill their extended partition.
MCPInit == PInit /\ Assert(LogicalsFill, "a disk with a gap")
MCPSpec == MCPInit /\ [][PNext]_ptvars /\ WF_ptvars(PNext)

=============================================================================
