--------------------------- MODULE PartitionTable ---------------------------
(***************************************************************************)
(* Finding partitions: the four entries of the MBR, the walk through the   *)
(* boot records of an extended partition, and what the commands do with    *)
(* the entry found (-p num prints it, -f num repairs the partition, -f 0   *)
(* repairs one partition after the other).                                 *)
(*                                                                         *)
(* read_ebr follows no links: it reads the first entry of a boot record    *)
(* and expects the next record behind the partition of that entry.         *)
(* Sector numbers are unsigned int and wrap at WordSize.  A disk also      *)
(* tells which logical partitions it was given, which no code reads.       *)
(***************************************************************************)
EXTENDS Integers, Sequences, FiniteSets

CONSTANTS
  WordSize,  \* 2^32
  Disks,     \* the partition tables the program may meet
  MaxNum     \* bound on the partition numbers

ASSUME NumAssumption == MaxNum \in Nat /\ MaxNum > 4 /\ WordSize \in Nat \ {0}

VARIABLES
  pc,               \* which part of the program runs
  dsk,              \* the disk; its partition table is never written
  cmd,              \* the command given
  num,              \* partition_num
  partition_entry,  \* the global of that name
  start, end,       \* the locals of read_ebr
  left,             \* partition_num of read_ebr
  checked           \* the partitions the four passes have run on

ptvars == <<pc, dsk, cmd, num, partition_entry, start, end, left, checked>>

Word == 0 .. WordSize - 1
Types == {"empty", "ext2", "extended", "other"}
Entry == [type: Types, start: Word, length: Word]

\* An entry of type INVALID_TYPE, whose other fields nothing looks at.
Null == [type |-> "invalid"]

\* Of every sector that can be read, the first entry it has as a boot record.
Disk == [mbr: [1 .. 4 -> Entry], size: Word, ebr: [Word -> Entry], logical: Seq(Entry)]

ASSUME DisksAssumption == \A d \in Disks : d \in Disk

PTypeOK ==
  /\ pc \in {"lookup", "walk", "found", "end", "exit"}
  /\ dsk \in Disk
  /\ cmd \in {"print", "one", "all"}
  /\ num \in 1 .. MaxNum
  /\ partition_entry \in Entry \cup {Null}
  /\ start \in Word /\ end \in Word
  /\ left \in 4 .. MaxNum
  /\ checked \in Seq(Entry)

-----------------------------------------------------------------------------

Plus(a, b) == (a + b) % WordSize

\* The start of an entry is relative to the sector the entry is in.
read_partition_entry(e, sector) == [e EXCEPT !.start = Plus(sector, @)]
read_mbr(n) == read_partition_entry(dsk.mbr[n], 0)

Extended == {n \in 1 .. 4 : dsk.mbr[n].type = "extended"}

\* The entry of a boot record, that of the one read_ebr is at, and the first
\* sector behind the partition of an entry.
EntryAt(s) == read_partition_entry(dsk.ebr[s], s)
Here == EntryAt(start)
Behind(e) == Plus(e.start, e.length)

PInit ==
  /\ pc = "lookup"
  /\ dsk \in Disks
  /\ cmd \in {"print", "one", "all"}
  /\ num \in IF cmd = "all" THEN {1} ELSE 1 .. MaxNum
  /\ partition_entry = [type |-> "empty", start |-> 0, length |-> 0]
  /\ start = 0 /\ end = 0 /\ left = 4
  /\ checked = <<>>

\* read_partition_info has set partition_entry.
Found(e) ==
  /\ partition_entry' = e
  /\ pc' = "found"

PPrimary ==
  /\ pc = "lookup" /\ num <= 4
  /\ Found(read_mbr(num))
  /\ UNCHANGED <<dsk, cmd, num, start, end, left, checked>>

PNoExtended ==
  /\ pc = "lookup" /\ num > 4
  /\ Extended = {}
  /\ Found(Null)
  /\ UNCHANGED <<dsk, cmd, num, start, end, left, checked>>

\* Faulty variant: logical partitions counted from 1, the walk still up to 4.
PExtended_Relative ==
  /\ pc = "lookup" /\ num > 4
  /\ \E n \in Extended :
       /\ \A m \in Extended : n <= m
       /\ start' = read_mbr(n).start
       /\ end' = Behind(read_mbr(n))
  /\ left' = num - 4
  /\ pc' = "walk"
  /\ UNCHANGED <<dsk, cmd, num, partition_entry, checked>>

\* The first extended partition is walked.
PExtended ==
  /\ pc = "lookup" /\ num > 4
  /\ \E n \in Extended :
       /\ \A m \in Extended : n <= m
       /\ start' = read_mbr(n).start
       /\ end' = Behind(read_mbr(n))
  /\ left' = num
  /\ pc' = "walk"
  /\ UNCHANGED <<dsk, cmd, num, partition_entry, checked>>

WalkPast ==
  /\ pc = "walk" /\ start >= end
  /\ Found(Null)
  /\ UNCHANGED <<dsk, cmd, num, start, end, left, checked>>

\* read_sectors fails on a sector the image does not have.
WalkExit ==
  /\ pc = "walk" /\ start < end
  /\ start >= dsk.size
  /\ pc' = "exit"
  /\ UNCHANGED <<dsk, cmd, num, partition_entry, start, end, left, checked>>

Reads == pc = "walk" /\ start < end /\ start < dsk.size

WalkOver ==
  /\ Reads
  /\ Behind(Here) > end
  /\ Found(Null)
  /\ UNCHANGED <<dsk, cmd, num, start, end, left, checked>>

\* Faulty variant: the recursive call is given the partition it came from.
WalkNested_Outer ==
  /\ Reads
  /\ Behind(Here) <= end
  /\ Here.type = "extended"
  /\ UNCHANGED <<pc, dsk, cmd, num, partition_entry, start, end, left, checked>>

\* An extended partition in the place of a logical one: recursive call.
WalkNested ==
  /\ Reads
  /\ Behind(Here) <= end
  /\ Here.type = "extended"
  /\ start' = Here.start
  /\ end' = Behind(Here)
  /\ UNCHANGED <<pc, dsk, cmd, num, partition_entry, left, checked>>

\* Faulty variant: start is not moved behind the partition.
WalkOn_NoStart ==
  /\ Reads
  /\ Behind(Here) <= end
  /\ Here.type # "extended"
  /\ left' = left - 1
  /\ start' = start
  /\ IF left' = 4 THEN Found(Here) ELSE UNCHANGED <<pc, partition_entry>>
  /\ UNCHANGED <<dsk, cmd, num, end, checked>>

WalkOn ==
  /\ Reads
  /\ Behind(Here) <= end
  /\ Here.type # "extended"
  /\ left' = left - 1
  /\ start' = Behind(Here)
  /\ IF left' = 4 THEN Found(Here) ELSE UNCHANGED <<pc, partition_entry>>
  /\ UNCHANGED <<dsk, cmd, num, end, checked>>

\* correct_partition goes on with the next number or is through.
Onward ==
  IF cmd = "all"
  THEN num < MaxNum /\ num' = num + 1 /\ pc' = "lookup"
  ELSE pc' = "end" /\ UNCHANGED num

PPrint ==
  /\ pc = "found" /\ cmd = "print"
  /\ pc' = "end"
  /\ UNCHANGED <<dsk, cmd, num, partition_entry, start, end, left, checked>>

\* correct_one_partition returns -1.
PNone ==
  /\ pc = "found" /\ cmd # "print"
  /\ partition_entry = Null
  /\ pc' = "end"
  /\ UNCHANGED <<dsk, cmd, num, partition_entry, start, end, left, checked>>

\* It returns 0.
POther ==
  /\ pc = "found" /\ cmd # "print"
  /\ partition_entry.type \in Types \ {"ext2"}
  /\ Onward
  /\ UNCHANGED <<dsk, cmd, partition_entry, start, end, left, checked>>

\* Faulty variant: the number is not counted on.
PCheck_Again ==
  /\ pc = "found" /\ cmd # "print"
  /\ partition_entry.type = "ext2"
  /\ checked' = Append(checked, partition_entry)
  /\ pc' = IF cmd = "all" /\ Len(checked) < 3 THEN "lookup" ELSE "end"
  /\ UNCHANGED <<dsk, cmd, num, partition_entry, start, end, left>>

\* The four passes.  Behind them correct_one_partition returns no value: what
\* the loop of -f 0 compares with -1 is any number.  A pass may also exit.
PCheck ==
  /\ pc = "found" /\ cmd # "print"
  /\ partition_entry.type = "ext2"
  /\ checked' = Append(checked, partition_entry)
  /\ \/ Onward
     \/ pc' \in {"end", "exit"} /\ UNCHANGED num
  /\ UNCHANGED <<dsk, cmd, partition_entry, start, end, left>>

PNext ==
  \/ PPrimary
  \/ PNoExtended
  \/ PExtended
  \/ WalkPast
  \/ WalkExit
  \/ WalkOver
  \/ WalkNested
  \/ WalkOn
  \/ PPrint
  \/ PNone
  \/ POther
  \/ PCheck

PSpec == PInit /\ [][PNext]_ptvars /\ WF_ptvars(PNext)

-----------------------------------------------------------------------------
(* Properties *)

\* The partition of a number: an entry of the MBR, or a logical partition.
PartitionOf(n) ==
  IF n <= 4 THEN dsk.mbr[n]
  ELSE IF n - 4 <= Len(dsk.logical) THEN dsk.logical[n - 4] ELSE Null

\* The extended partition that is walked, and the one that holds the logical
\* partitions: the same, or the one its first boot record has an entry for.
Outer == read_mbr(CHOOSE n \in Extended : \A m \in Extended : n <= m)
Inner == EntryAt(Outer.start)
HasInner ==
  /\ Inner.type = "extended"
  /\ Outer.start < Behind(Outer)
  /\ Behind(Inner) <= Behind(Outer)
Area == IF HasInner THEN Inner ELSE Outer

\* Where the boot record of the i-th logical partition is looked for.
RecordOf(i) == IF i = 1 THEN Area.start ELSE Behind(dsk.logical[i - 1])

\* The logical partitions fill their extended partition without a gap: the
\* record of each stands behind the partition before it, and what is behind the
\* last one is no record of the extended partition any more.
LogicalsFill ==
  IF Extended = {}
  THEN dsk.logical = <<>>
  ELSE LET last == RecordOf(Len(dsk.logical) + 1)
       IN  /\ \A i \in DOMAIN dsk.logical :
                /\ RecordOf(i) < Behind(Area)
                /\ EntryAt(RecordOf(i)) = dsk.logical[i]
                /\ dsk.logical[i].type # "extended"
                /\ Behind(dsk.logical[i]) <= Behind(Area)
           /\ last < Behind(Area) => Behind(EntryAt(last)) > Behind(Area)

\* However many records it has to pass, read_partition_info finds the partition
\* with the number asked for, or that there is none.  It holds on disks whose
\* logical partitions fill the extended one without a gap.
FoundRight == pc = "found" => partition_entry = PartitionOf(num)

\* The ext2 partitions with a number up to n.
Ext2UpTo(n) == {m \in 1 .. n : PartitionOf(m).type = "ext2"}

\* README, -f 0: the k-th partition repaired is the k-th ext2 partition in the
\* order of their numbers: none is repaired twice, none is passed over.
CheckedInOrder ==
  cmd = "all" =>
    \A k \in DOMAIN checked :
      \E n \in 1 .. MaxNum :
        /\ PartitionOf(n) = checked[k]
        /\ n \in Ext2UpTo(n)
        /\ Cardinality(Ext2UpTo(n)) = k

\* Every command ends; -f 0 too, which counts up until a number has no
\* partition.  MaxNum is above every number in use.
CommandEnds == <>(pc \in {"end", "exit"})

=============================================================================
