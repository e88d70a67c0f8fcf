------------------------- MODULE PartitionTableProofs -------------------------
(***************************************************************************)
(* Proofs about PartitionTable, for every set of disks, every word size    *)
(* and every bound on the numbers: the types of the variables; on disks    *)
(* whose logical partitions fill their extended partition, the search      *)
(* finds the partition with the number asked for; and -f 0 repairs the     *)
(* ext2 partitions in the order of their numbers.                          *)
(***************************************************************************)
EXTENDS PartitionTable, FiniteSetTheorems, TLAPS

-----------------------------------------------------------------------------
(* Types *)

\* Sums of sector numbers wrap.
LEMMA PlusWord == \A a, b \in Word : Plus(a, b) \in Word
BY NumAssumption DEF Word, Plus

\* Adding nothing changes no sector number.
LEMMA ModSmall == \A a \in Word : Plus(0, a) = a
BY NumAssumption DEF Word, Plus

\* An entry that is read is one, of the type on the disk, and placed behind what it is relative to.
LEMMA EntryRead ==
  ASSUME NEW e \in Entry, NEW s \in Word
  PROVE  /\ read_partition_entry(e, s) \in Entry
         /\ read_partition_entry(e, s).type = e.type
         /\ read_partition_entry(e, 0) = e
BY PlusWord, ModSmall DEF Entry, read_partition_entry

\* What the disk holds are entries.
LEMMA OnDisk ==
  ASSUME dsk \in Disk
  PROVE  /\ \A n \in 1 .. 4 : read_mbr(n) = dsk.mbr[n] /\ dsk.mbr[n] \in Entry
         /\ \A s \in Word : EntryAt(s) \in Entry
         /\ \A i \in DOMAIN dsk.logical : dsk.logical[i] \in Entry
         /\ Len(dsk.logical) \in Nat /\ DOMAIN dsk.logical = 1 .. Len(dsk.logical)
<1>1. 0 \in Word
  BY NumAssumption DEF Word
<1>2. \A n \in 1 .. 4 : dsk.mbr[n] \in Entry
  BY DEF Disk
<1>3. \A n \in 1 .. 4 : read_mbr(n) = dsk.mbr[n]
  BY <1>1, <1>2, EntryRead DEF read_mbr
<1>4. \A s \in Word : EntryAt(s) \in Entry
  BY EntryRead DEF Disk, EntryAt
<1>5. dsk.logical \in Seq(Entry)
  BY DEF Disk
<1>6. QED
  BY <1>2, <1>3, <1>4, <1>5

\* Where an entry starts and ends are sector numbers.
LEMMA BehindWord == \A e \in Entry : e.start \in Word /\ e.length \in Word /\ Behind(e) \in Word
BY PlusWord DEF Entry, Behind

\* What is read at the place of the walk is an entry.
LEMMA HereIn ==
  ASSUME PTypeOK
  PROVE  Here \in Entry
BY OnDisk DEF PTypeOK, Here

\* The types of the variables, and that read_ebr is not done while it walks.
PInv == PTypeOK /\ (pc = "walk" => left > 4 /\ num > 4)

\* The search starts in its invariant.
LEMMA PInvInit == PInit => PInv
BY NumAssumption, DisksAssumption DEF PInit, PInv, PTypeOK, Entry, Types, Word

\* Every step of the search keeps it.
LEMMA PInvStep == PInv /\ [PNext]_ptvars => PInv'
<1> SUFFICES ASSUME PInv, [PNext]_ptvars PROVE PInv'
  OBVIOUS
<1> USE DEF PInv, PTypeOK
<1>1. CASE PPrimary
  BY <1>1, OnDisk DEF PPrimary, Found
<1>2. CASE PNoExtended
  BY <1>2 DEF PNoExtended, Found
<1>3. CASE PExtended
  <2>1. PICK n \in Extended : start' = read_mbr(n).start /\ end' = Behind(read_mbr(n))
    BY <1>3 DEF PExtended
  <2>2. read_mbr(n) \in Entry
    BY <2>1, OnDisk DEF Extended
  <2>3. start' \in Word /\ end' \in Word
    BY <2>1, <2>2, BehindWord
  <2>4. QED
    BY <1>3, <2>3 DEF PExtended
<1>4. CASE WalkPast \/ WalkOver
  BY <1>4 DEF WalkPast, WalkOver, Found
<1>5. CASE WalkExit
  BY <1>5 DEF WalkExit
<1>6. CASE WalkNested
  BY <1>6, HereIn, BehindWord DEF WalkNested, Reads
<1>7. CASE WalkOn
  <2>1. /\ pc = "walk" /\ left' = left - 1 /\ start' = Behind(Here)
        /\ UNCHANGED <<dsk, cmd, num, end, checked>>
        /\ \/ left' = 4 /\ partition_entry' = Here /\ pc' = "found"
           \/ left' # 4 /\ UNCHANGED <<pc, partition_entry>>
    BY <1>7 DEF WalkOn, Reads, Found
  <2>2. Here \in Entry /\ Behind(Here) \in Word
    BY HereIn, BehindWord
  <2>3. QED
    BY <2>1, <2>2, NumAssumption
<1>8. CASE PPrint \/ PNone
  BY <1>8 DEF PPrint, PNone
<1>9. CASE POther
  BY <1>9, NumAssumption DEF POther, Onward
<1>10. CASE PCheck
  <2>1. partition_entry \in Entry
    BY <1>10 DEF PCheck, Null
  <2>2. checked' \in Seq(Entry)
    BY <1>10, <2>1 DEF PCheck
  <2>3. QED
    BY <1>10, <2>2, NumAssumption DEF PCheck, Onward
<1>11. CASE UNCHANGED ptvars
  BY <1>11 DEF ptvars
<1>12. QED
  BY <1>1, <1>2, <1>3, <1>4, <1>5, <1>6, <1>7, <1>8, <1>9, <1>10, <1>11 DEF PNext

\* The program keeps the types of its variables: the sectors and partition
\* numbers read_ebr counts with stay within their bounds, and only entries that
\* were read from the disk are checked.
THEOREM PartitionTypes == PSpec => []PTypeOK
<1>1. PInv => PTypeOK
  BY DEF PInv
<1>2. QED
  BY <1>1, PInvInit, PInvStep, PTL DEF PSpec
-----------------------------------------------------------------------------
(* What the search finds *)

FirstExtended == CHOOSE n \in Extended : \A m \in Extended : n <= m

\* The loop of read_partition_info stops at one entry.
LEMMA FirstIs ==
  ASSUME NEW n \in Extended, \A m \in Extended : n <= m
  PROVE  n = FirstExtended
<1>1. FirstExtended \in Extended /\ \A m \in Extended : FirstExtended <= m
  BY DEF FirstExtended
<1>2. Extended \subseteq Int
  BY DEF Extended
<1>3. QED
  BY <1>1, <1>2

\* What the logical partitions are in, is given by entries.
LEMMA AreaIn ==
  ASSUME dsk \in Disk, Extended # {}
  PROVE  Outer \in Entry /\ Inner \in Entry /\ Area \in Entry
<1>1. PICK n \in Extended : \A m \in Extended : n <= m
  <2>1. \A n \in Extended : n \in 1 .. 4
    BY DEF Extended
  <2>2. QED
    BY <2>1
<1>2. FirstExtended \in 1 .. 4
  BY <1>1, FirstIs DEF Extended
<1>3. Outer \in Entry
  BY <1>2, OnDisk DEF Outer, FirstExtended
<1>4. Inner \in Entry
  BY <1>3, OnDisk, BehindWord DEF Inner
<1>5. QED
  BY <1>3, <1>4 DEF Area

\* Where a walk is: at the record of the outer extended partition that holds the
\* inner one, or behind the first i logical partitions.
Inside(i) ==
  /\ left = num - i
  /\ start = RecordOf(i + 1)
  /\ end = Behind(Area)

AtOuter ==
  /\ HasInner
  /\ left = num
  /\ start = Outer.start
  /\ end = Behind(Outer)

FoundInv ==
  /\ LogicalsFill
  /\ pc = "walk" => Extended # {} /\ (AtOuter \/ \E i \in 0 .. Len(dsk.logical) : Inside(i))
  /\ FoundRight

\* What is at the record behind the first i logical partitions.
LEMMA RecordAt ==
  ASSUME PInv, LogicalsFill, Extended # {}, NEW i \in 0 .. Len(dsk.logical), Inside(i)
  PROVE  /\ i < Len(dsk.logical) => /\ start < end
                                    /\ Here = dsk.logical[i + 1]
                                    /\ Here.type # "extended"
                                    /\ Behind(Here) <= end
         /\ i = Len(dsk.logical) /\ start < end => Behind(Here) > end
<1>1. Len(dsk.logical) \in Nat /\ DOMAIN dsk.logical = 1 .. Len(dsk.logical)
  BY OnDisk DEF PInv, PTypeOK
<1>2. i < Len(dsk.logical) => i + 1 \in DOMAIN dsk.logical
  BY <1>1
<1>3. start = RecordOf(i + 1) /\ end = Behind(Area)
  BY DEF Inside
<1>4. QED
  BY <1>2, <1>3 DEF LogicalsFill, Here

\* The disk does not change: nothing that is read off it does.
LEMMA FoundKeep ==
  ASSUME FoundInv, dsk' = dsk
  PROVE  /\ LogicalsFill'
         /\ Extended' = Extended /\ Outer' = Outer /\ Area' = Area
         /\ HasInner' <=> HasInner
         /\ \A i : RecordOf(i)' = RecordOf(i)
         /\ \A n : PartitionOf(n)' = PartitionOf(n)
<1>1. Extended' = Extended /\ Outer' = Outer
  BY DEF Extended, Outer, read_mbr, read_partition_entry
<1>2. \A s : EntryAt(s)' = EntryAt(s)
  BY DEF EntryAt, read_partition_entry
<1>3. Inner' = Inner
  BY <1>1 DEF Inner, EntryAt, read_partition_entry
<1>4. (HasInner' <=> HasInner) /\ Area' = Area
  BY <1>1, <1>3 DEF HasInner, Area, Behind
<1>5. \A i : RecordOf(i)' = RecordOf(i)
  BY <1>4 DEF RecordOf, Behind
<1>6. LogicalsFill'
  BY <1>1, <1>2, <1>4, <1>5 DEF FoundInv, LogicalsFill, Behind
<1>7. \A n : PartitionOf(n)' = PartitionOf(n)
  BY DEF PartitionOf
<1>8. QED
  BY <1>1, <1>4, <1>5, <1>6, <1>7

\* The step into the extended partition finds the first record where FoundInv says.
LEMMA FoundStart ==
  ASSUME PInv, FoundInv, PExtended
  PROVE  FoundInv'
<1>1. PICK n \in Extended : /\ \A m \in Extended : n <= m
                            /\ start' = read_mbr(n).start
                            /\ end' = Behind(read_mbr(n))
  BY DEF PExtended
<1>2. start' = Outer.start /\ end' = Behind(Outer)
  BY <1>1, FirstIs DEF Outer, FirstExtended
<1>3. pc' = "walk" /\ left' = num /\ num' = num /\ dsk' = dsk
  BY DEF PExtended
<1>4. num \in Int /\ Len(dsk.logical) \in Nat
  BY OnDisk DEF PInv, PTypeOK
<1>5. Extended # {}
  BY <1>1
<1>6. /\ Outer' = Outer /\ (HasInner' <=> HasInner) /\ Area' = Area
      /\ RecordOf(1)' = RecordOf(1) /\ LogicalsFill' /\ Extended' # {}
  BY <1>3, <1>5, FoundKeep
<1>7. HasInner => AtOuter'
  BY <1>2, <1>3, <1>6 DEF AtOuter, Behind
<1>8. ASSUME ~HasInner PROVE Inside(0)'
  <2>1. Area = Outer /\ RecordOf(1) = Outer.start
    BY <1>8 DEF Area, RecordOf
  <2>2. left' = num' - 0 /\ start' = RecordOf(1)' /\ end' = Behind(Area)'
    BY <1>2, <1>3, <1>4, <1>6, <2>1 DEF Behind
  <2>3. QED
    BY <2>2 DEF Inside
<1>9. 0 \in 0 .. Len(dsk'.logical)
  BY <1>3, <1>4
<1>10. QED
  BY <1>3, <1>6, <1>7, <1>8, <1>9 DEF FoundInv, FoundRight

\* The walk ends without an entry: there is no partition with that number.
LEMMA FoundNone ==
  ASSUME PInv, FoundInv, WalkPast \/ WalkOver
  PROVE  FoundInv'
<1>1. /\ pc = "walk" /\ pc' = "found" /\ partition_entry' = Null /\ num' = num /\ dsk' = dsk
      /\ \/ start >= end
         \/ start < end /\ Behind(Here) > end
  BY DEF WalkPast, WalkOver, Found, Reads
<1>2. num \in Int /\ left > 4 /\ num > 4 /\ start \in Int /\ end \in Int /\ Len(dsk.logical) \in Nat
  BY <1>1, OnDisk DEF PInv, PTypeOK, Word
<1>3. Extended # {} /\ LogicalsFill
  BY <1>1 DEF FoundInv
<1>4. ~AtOuter
  <2>1. SUFFICES ASSUME AtOuter PROVE FALSE
    OBVIOUS
  <2>2. Here = Inner
    BY <2>1 DEF AtOuter, Here, Inner
  <2>3. Behind(Inner) \in Int /\ Behind(Outer) \in Int
    BY <1>1, <1>3, AreaIn, BehindWord DEF PInv, PTypeOK, Word
  <2>4. QED
    BY <1>1, <1>2, <2>1, <2>2, <2>3 DEF AtOuter, HasInner
<1>5. PICK i \in 0 .. Len(dsk.logical) : Inside(i)
  BY <1>1, <1>4 DEF FoundInv
<1>6. Behind(Here) \in Int
  BY HereIn, BehindWord DEF PInv, Word
<1>7. i = Len(dsk.logical)
  BY <1>1, <1>2, <1>3, <1>5, <1>6, RecordAt
<1>8. PartitionOf(num) = Null
  BY <1>2, <1>5, <1>7 DEF PartitionOf, Inside
<1>9. QED
  BY <1>1, <1>8, FoundKeep DEF FoundInv, FoundRight

\* Into the inner extended partition: at its first record.
LEMMA FoundNested ==
  ASSUME PInv, FoundInv, WalkNested
  PROVE  FoundInv'
<1>1. /\ pc = "walk" /\ pc' = pc /\ num' = num /\ dsk' = dsk /\ left' = left
      /\ start < end /\ Behind(Here) <= end /\ Here.type = "extended"
      /\ start' = Here.start /\ end' = Behind(Here)
  BY DEF WalkNested, Reads
<1>2. num \in Int /\ start \in Int /\ end \in Int /\ Len(dsk.logical) \in Nat
  BY OnDisk DEF PInv, PTypeOK, Word
<1>3. Extended # {} /\ LogicalsFill
  BY <1>1 DEF FoundInv
<1>4. Behind(Here) \in Int
  BY HereIn, BehindWord DEF PInv, Word
<1>5. ASSUME NEW i \in 0 .. Len(dsk.logical), Inside(i) PROVE FALSE
  BY <1>1, <1>2, <1>3, <1>4, <1>5, RecordAt
<1>6. AtOuter
  BY <1>1, <1>5 DEF FoundInv
<1>7. Here = Inner /\ Area = Inner
  BY <1>6 DEF AtOuter, Here, Inner, Area
<1>8. start' = RecordOf(1) /\ end' = Behind(Area) /\ left' = num
  BY <1>1, <1>6, <1>7 DEF RecordOf, AtOuter
<1>9. Behind(Area)' = Behind(Area) /\ RecordOf(1)' = RecordOf(1)
  BY <1>1, FoundKeep DEF Behind
<1>10. Inside(0)'
  BY <1>1, <1>2, <1>8, <1>9 DEF Inside
<1>11. 0 \in 0 .. Len(dsk'.logical)
  BY <1>1, <1>2
<1>12. QED
  BY <1>1, <1>3, <1>10, <1>11, FoundKeep DEF FoundInv, FoundRight

\* Over one logical partition.
LEMMA FoundOn ==
  ASSUME PInv, FoundInv, WalkOn
  PROVE  FoundInv'
<1>1. /\ pc = "walk" /\ num' = num /\ dsk' = dsk /\ left' = left - 1 /\ end' = end
      /\ start < end /\ Behind(Here) <= end /\ Here.type # "extended"
      /\ start' = Behind(Here)
      /\ \/ left' = 4 /\ partition_entry' = Here /\ pc' = "found"
         \/ left' # 4 /\ pc' = pc
  BY DEF WalkOn, Reads, Found
<1>2. /\ num \in Int /\ num > 4 /\ left \in Int /\ left > 4
      /\ start \in Int /\ end \in Int /\ Len(dsk.logical) \in Nat
  BY <1>1, OnDisk DEF PInv, PTypeOK, Word
<1>3. Extended # {} /\ LogicalsFill
  BY <1>1 DEF FoundInv
<1>4. Behind(Here) \in Int
  BY HereIn, BehindWord DEF PInv, Word
<1>5. ~AtOuter
  BY <1>1 DEF AtOuter, HasInner, Here, Inner
<1>6. PICK i \in 0 .. Len(dsk.logical) : Inside(i)
  BY <1>1, <1>5 DEF FoundInv
<1>7. i < Len(dsk.logical) /\ Here = dsk.logical[i + 1]
  BY <1>1, <1>2, <1>3, <1>4, <1>6, RecordAt
<1>8. left = num - i /\ end = Behind(Area)
  BY <1>6 DEF Inside
<1>9. RecordOf(i + 2) = Behind(Here)
  BY <1>2, <1>7 DEF RecordOf
<1>10. CASE left' = 4
  <2>1. PartitionOf(num) = Here
    BY <1>1, <1>2, <1>7, <1>8, <1>10 DEF PartitionOf
  <2>2. QED
    BY <1>1, <1>10, <2>1, FoundKeep DEF FoundInv, FoundRight
<1>11. CASE left' # 4
  <2>1. Behind(Area)' = Behind(Area) /\ RecordOf(i + 2)' = RecordOf(i + 2)
    BY <1>1, FoundKeep DEF Behind
  <2>2. (i + 1) + 1 = i + 2 /\ num - (i + 1) = (num - i) - 1
    BY <1>2
  <2>3. Inside(i + 1)'
    BY <1>1, <1>8, <1>9, <2>1, <2>2 DEF Inside
  <2>4. i + 1 \in 0 .. Len(dsk'.logical)
    BY <1>1, <1>2, <1>7
  <2>5. QED
    BY <1>1, <1>3, <1>11, <2>3, <2>4, FoundKeep DEF FoundInv, FoundRight
<1>12. QED
  BY <1>10, <1>11

\* Every step of the search keeps FoundInv.
LEMMA FoundStep == PInv /\ FoundInv /\ [PNext]_ptvars => FoundInv'
<1> SUFFICES ASSUME PInv, FoundInv, [PNext]_ptvars PROVE FoundInv'
  OBVIOUS
<1>1. CASE PPrimary
  <2>1. /\ pc' = "found" /\ partition_entry' = read_mbr(num) /\ num <= 4
        /\ num' = num /\ dsk' = dsk
    BY <1>1 DEF PPrimary, Found
  <2>2. read_mbr(num) = dsk.mbr[num]
    BY <2>1, OnDisk DEF PInv, PTypeOK
  <2>3. QED
    BY <2>1, <2>2, FoundKeep DEF FoundInv, FoundRight, PartitionOf
<1>2. CASE PNoExtended
  <2>1. /\ pc' = "found" /\ partition_entry' = Null /\ num > 4 /\ num' = num /\ dsk' = dsk
        /\ Extended = {}
    BY <1>2 DEF PNoExtended, Found
  <2>2. Len(dsk.logical) = 0
    BY <2>1 DEF FoundInv, LogicalsFill
  <2>3. PartitionOf(num) = Null
    BY <2>1, <2>2 DEF PartitionOf, PInv, PTypeOK
  <2>4. QED
    BY <2>1, <2>3, FoundKeep DEF FoundInv, FoundRight
<1>3. CASE PExtended
  BY <1>3, FoundStart
<1>4. CASE WalkPast \/ WalkOver
  BY <1>4, FoundNone
<1>5. CASE WalkExit \/ PPrint \/ PNone
  BY <1>5, FoundKeep DEF WalkExit, PPrint, PNone, FoundInv, FoundRight
<1>6. CASE WalkNested
  BY <1>6, FoundNested
<1>7. CASE WalkOn
  BY <1>7, FoundOn
<1>8. CASE POther \/ PCheck
  <2>1. dsk' = dsk /\ pc' \in {"lookup", "end", "exit"}
    BY <1>8 DEF POther, PCheck, Onward
  <2>2. QED
    BY <2>1, FoundKeep DEF FoundInv, FoundRight
<1>9. CASE UNCHANGED ptvars
  <2>1. dsk' = dsk /\ pc' = pc /\ num' = num /\ partition_entry' = partition_entry
        /\ left' = left /\ start' = start /\ end' = end
    BY <1>9 DEF ptvars
  <2>2. (AtOuter' <=> AtOuter) /\ \A i : Inside(i)' <=> Inside(i)
    BY <2>1, FoundKeep
    DEF AtOuter, Inside, HasInner, Inner, Outer, EntryAt, read_mbr, Extended, Behind,
        read_partition_entry
  <2>3. QED
    BY <2>1, <2>2, FoundKeep DEF FoundInv, FoundRight
<1>10. QED
  BY <1>1, <1>2, <1>3, <1>4, <1>5, <1>6, <1>7, <1>8, <1>9 DEF PNext

\* FoundInv holds before the search.
LEMMA FoundInit == PInit /\ LogicalsFill => FoundInv
BY DEF PInit, FoundInv, FoundRight

\* Where a search under way stands, at every time.
LEMMA FoundInvariant == PSpec /\ LogicalsFill => [](PInv /\ FoundInv)
BY PInvInit, PInvStep, FoundInit, FoundStep, PTL DEF PSpec

\* On a disk whose logical partitions fill their extended partition, or the
\* extended partition in its first boot record, read_partition_info finds the
\* partition with the number asked for, or that there is none, although it
\* follows no links: however many logical partitions there are.
THEOREM PartitionFoundRight == PSpec /\ LogicalsFill => []FoundRight
<1>1. FoundInv => FoundRight
  BY DEF FoundInv
<1>2. QED
  BY <1>1, FoundInvariant, PTL

-----------------------------------------------------------------------------
(* The order of the repairs *)

CheckInv ==
  cmd = "all" =>
    /\ CheckedInOrder
    /\ pc \in {"lookup", "walk", "found"} => Len(checked) = Cardinality(Ext2UpTo(num - 1))

\* One number more: the count goes up when the partition is an ext2 one.
LEMMA UpToNext ==
  ASSUME NEW n \in Nat
  PROVE  /\ IsFiniteSet(Ext2UpTo(n))
         /\ Cardinality(Ext2UpTo(n)) \in Nat
         /\ n >= 1 => Cardinality(Ext2UpTo(n)) =
                        Cardinality(Ext2UpTo(n - 1))
                        + (IF PartitionOf(n).type = "ext2" THEN 1 ELSE 0)
<1>1. \A k \in Nat : IsFiniteSet(Ext2UpTo(k))
  <2>1. TAKE k \in Nat
  <2>2. IsFiniteSet(1 .. k)
    BY FS_Interval
  <2>3. Ext2UpTo(k) \in SUBSET (1 .. k)
    BY DEF Ext2UpTo
  <2>4. QED
    BY <2>2, <2>3, FS_Subset
<1>2. \A k \in Nat : Cardinality(Ext2UpTo(k)) \in Nat
  BY <1>1, FS_CardinalityType
<1>3. CASE n >= 1 /\ PartitionOf(n).type = "ext2"
  <2>1. Ext2UpTo(n) = Ext2UpTo(n - 1) \cup {n} /\ n \notin Ext2UpTo(n - 1) /\ n - 1 \in Nat
    BY <1>3 DEF Ext2UpTo
  <2>2. QED
    BY <1>1, <1>2, <1>3, <2>1, FS_AddElement
<1>4. CASE n >= 1 /\ PartitionOf(n).type # "ext2"
  <2>1. Ext2UpTo(n) = Ext2UpTo(n - 1) /\ n - 1 \in Nat
    BY <1>4 DEF Ext2UpTo
  <2>2. QED
    BY <1>1, <1>2, <1>4, <2>1
<1>5. QED
  BY <1>1, <1>2, <1>3, <1>4

\* CheckInv holds before the first partition is repaired.
LEMMA CheckInit == PInit => CheckInv
<1> SUFFICES ASSUME PInit, cmd = "all" PROVE CheckInv
  BY DEF CheckInv
<1>1. checked = <<>> /\ num = 1
  BY DEF PInit
<1>2. Ext2UpTo(num - 1) = {}
  BY <1>1 DEF Ext2UpTo
<1>3. Cardinality(Ext2UpTo(num - 1)) = 0
  BY <1>2, FS_EmptySet
<1>4. QED
  BY <1>1, <1>3 DEF CheckInv, CheckedInOrder

\* Every step keeps CheckInv, the search having found what it should.
LEMMA CheckStep == PInv /\ FoundRight /\ CheckInv /\ [PNext]_ptvars => CheckInv'
<1> SUFFICES ASSUME PInv, FoundRight, CheckInv, [PNext]_ptvars, cmd' = "all" PROVE CheckInv'
  BY DEF CheckInv
<1>1. cmd = "all" /\ dsk' = dsk
  BY DEF PNext, ptvars, PPrimary, PNoExtended, PExtended, WalkPast, WalkExit, WalkOver, WalkNested,
         WalkOn, PPrint, PNone, POther, PCheck
<1>2. (\A n : PartitionOf(n)' = PartitionOf(n)) /\ (\A n : Ext2UpTo(n)' = Ext2UpTo(n))
  BY <1>1 DEF PartitionOf, Ext2UpTo
<1>3. ASSUME checked' = checked,
             pc' \in {"lookup", "walk", "found"} => pc \in {"lookup", "walk", "found"} /\ num' = num
      PROVE  CheckInv'
  BY <1>1, <1>2, <1>3 DEF CheckInv, CheckedInOrder
<1>4. num \in Nat /\ num >= 1 /\ num \in 1 .. MaxNum
  BY NumAssumption DEF PInv, PTypeOK
<1>5. CASE POther
  <2>1. /\ pc = "found" /\ checked' = checked /\ partition_entry.type # "ext2"
        /\ num' = num + 1 /\ pc' = "lookup"
    BY <1>1, <1>5 DEF POther, Onward
  <2>2. Cardinality(Ext2UpTo(num)) = Cardinality(Ext2UpTo(num - 1))
    BY <1>4, <2>1, UpToNext DEF FoundRight
  <2>3. num' - 1 = num
    BY <1>4, <2>1
  <2>4. QED
    BY <1>1, <1>2, <2>1, <2>2, <2>3 DEF CheckInv, CheckedInOrder
<1>6. CASE PCheck
  <2>1. /\ pc = "found" /\ checked' = Append(checked, partition_entry)
        /\ partition_entry = PartitionOf(num) /\ partition_entry.type = "ext2"
        /\ \/ num' = num + 1 /\ pc' = "lookup"
           \/ num' = num /\ pc' \in {"end", "exit"}
    BY <1>1, <1>6 DEF PCheck, Onward, FoundRight
  <2>2. checked \in Seq(Entry) /\ partition_entry \in Entry
    BY <2>1 DEF PInv, PTypeOK, Null
  <2>3. /\ Len(checked') = Len(checked) + 1
        /\ \A k \in 1 .. Len(checked) : checked'[k] = checked[k]
        /\ checked'[Len(checked) + 1] = partition_entry
        /\ DOMAIN checked' = 1 .. Len(checked) + 1
        /\ DOMAIN checked = 1 .. Len(checked)
        /\ Len(checked) \in Nat
    BY <2>1, <2>2
  <2>4. Len(checked) = Cardinality(Ext2UpTo(num - 1))
    BY <1>1, <2>1 DEF CheckInv
  <2>5. Cardinality(Ext2UpTo(num)) = Len(checked) + 1
    BY <1>4, <2>1, <2>4, UpToNext
  <2>6. num \in Ext2UpTo(num)
    BY <1>4, <2>1 DEF Ext2UpTo
  <2>7. ASSUME NEW k \in DOMAIN checked'
        PROVE  \E n \in 1 .. MaxNum : /\ PartitionOf(n) = checked'[k]
                                      /\ n \in Ext2UpTo(n)
                                      /\ Cardinality(Ext2UpTo(n)) = k
    <3>1. CASE k = Len(checked) + 1
      BY <1>4, <2>1, <2>3, <2>5, <2>6, <3>1
    <3>2. CASE k # Len(checked) + 1
      <4>1. k \in DOMAIN checked /\ checked'[k] = checked[k]
        BY <2>3, <2>7, <3>2
      <4>2. QED
        BY <1>1, <4>1 DEF CheckInv, CheckedInOrder
    <3>3. QED
      BY <3>1, <3>2
  <2>8. CheckedInOrder'
    BY <1>2, <2>7 DEF CheckedInOrder
  <2>9. pc' = "lookup" => Len(checked') = Cardinality(Ext2UpTo(num)) /\ num' - 1 = num
    BY <1>4, <2>1, <2>3, <2>5
  <2>10. pc' \notin {"walk", "found"}
    BY <2>1
  <2>11. QED
    BY <1>1, <1>2, <2>8, <2>9, <2>10 DEF CheckInv
<1>7. CASE UNCHANGED ptvars
  BY <1>3, <1>7 DEF ptvars
<1>8. CASE PPrimary \/ PNoExtended \/ PExtended \/ WalkPast \/ WalkOver
  BY <1>3, <1>8 DEF PPrimary, PNoExtended, PExtended, WalkPast, WalkOver, Reads, Found
<1>9. CASE WalkExit \/ WalkNested \/ WalkOn \/ PPrint \/ PNone
  BY <1>3, <1>9 DEF WalkExit, WalkNested, WalkOn, PPrint, PNone, Reads, Found
<1>10. QED
  BY <1>5, <1>6, <1>7, <1>8, <1>9 DEF PNext

\* README, -f 0: however many partitions there are, the k-th one repaired is the
\* k-th ext2 partition by number, on the disks whose logical partitions are found.
THEOREM PartitionsInOrder == PSpec /\ LogicalsFill => []CheckedInOrder
<1>1. FoundInv => FoundRight
  BY DEF FoundInv
<1>2. CheckInv => CheckedInOrder
  BY DEF CheckInv, CheckedInOrder
<1>3. QED
  BY <1>1, <1>2, CheckInit, CheckStep, FoundInvariant, PTL DEF PSpec

=============================================================================
