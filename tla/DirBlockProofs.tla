--------------------------- MODULE DirBlockProofs ---------------------------
(***************************************************************************)
(* Theorems about directory blocks, for blocks of any size and any number  *)
(* of them: that no write leaves the block or breaks the chain of rec_len, *)
(* that a lost object gets one name where there is room, and that the      *)
(* steps on bytes are steps on lists of entries (DirList).                 *)
(***************************************************************************)
EXTENDS DirBlock, SequenceTheorems, FiniteSetTheorems, WellFoundedInduction, TLAPS

\* Of natural numbers there is a first.
LEMMA FirstOf ==
  ASSUME NEW T, T \subseteq Nat, T # {}
  PROVE  \E x \in T : \A y \in T : x <= y
<1>1. PICK x \in T : \A y \in T : ~ (<<y, x>> \in OpToRel(<, Nat))
  BY NatLessThanWellFounded, WFMin
<1>2. \A y \in T : ~(y < x)
  BY <1>1 DEF OpToRel
<1>3. QED
  BY <1>2

\* A function on 1 .. n is a sequence of length n.
LEMMA FunctionIsSeq ==
  ASSUME NEW S, NEW n \in Nat, NEW f \in [1 .. n -> S]
  PROVE  f \in Seq(S) /\ Len(f) = n /\ DOMAIN f = 1 .. n
<1>1. f \in Seq(S)
  BY SeqDef, Zenon
<1>2. Len(f) \in Nat /\ 1 .. Len(f) = 1 .. n
  BY <1>1, LenProperties, Zenon
<1>3. Len(f) = n
  BY <1>2, SMT
<1>4. QED
  BY <1>1, <1>3, Zenon

-----------------------------------------------------------------------------
(* Numbers in bytes *)

\* What parse_bytes_to_decimal_u counts, for the sizes it is called with.
LEMMA ParseIs ==
  ASSUME NEW b, NEW at \in Nat
  PROVE  /\ b[at] \in Int => parse_bytes_to_decimal_u(b, at, 1) = b[at]
         /\ b[at] \in Int /\ b[at + 1] \in Int =>
              parse_bytes_to_decimal_u(b, at, 2) = b[at] + 256 * b[at + 1]
         /\ b[at] \in Int /\ b[at + 1] \in Int /\ b[at + 2] \in Int /\ b[at + 3] \in Int =>
              parse_bytes_to_decimal_u(b, at, 4) =
                b[at] + 256 * (b[at + 1] + 256 * (b[at + 2] + 256 * b[at + 3]))
<1> DEFINE Counts(r, size) ==
             r = [i \in 0 .. size |-> IF i = size THEN 0 ELSE r[i + 1] * 256 + b[at + i]]
           f1 == [i \in 0 .. 1 |-> IF i = 1 THEN 0 ELSE 0 * 256 + b[at + 0]]
           f2 == [i \in 0 .. 2 |-> IF i = 2 THEN 0 ELSE
                    IF i = 1 THEN 0 * 256 + b[at + 1] ELSE
                      (0 * 256 + b[at + 1]) * 256 + b[at + 0]]
           f4 == [i \in 0 .. 4 |-> IF i = 4 THEN 0 ELSE
                    IF i = 3 THEN 0 * 256 + b[at + 3] ELSE
                    IF i = 2 THEN (0 * 256 + b[at + 3]) * 256 + b[at + 2] ELSE
                    IF i = 1 THEN ((0 * 256 + b[at + 3]) * 256 + b[at + 2]) * 256 + b[at + 1] ELSE
                      (((0 * 256 + b[at + 3]) * 256 + b[at + 2]) * 256 + b[at + 1]) * 256 + b[at + 0]]
<1>1. Counts(f1, 1) /\ Counts(f2, 2) /\ Counts(f4, 4)
  BY SMT
<1>2. \A size \in {1, 2, 4} :
        \E r : Counts(r, size) /\ parse_bytes_to_decimal_u(b, at, size) = r[0]
  <2>1. ASSUME NEW size \in {1, 2, 4}
        PROVE  \E r : Counts(r, size) /\ parse_bytes_to_decimal_u(b, at, size) = r[0]
    <3>1. \E r : Counts(r, size)
      <4> HIDE DEF Counts, f1, f2, f4
      <4>1. QED
        BY <1>1, <2>1
    <3>2. Counts(CHOOSE r : Counts(r, size), size)
      BY <3>1, Zenon
    <3>3. parse_bytes_to_decimal_u(b, at, size) = (CHOOSE r : Counts(r, size))[0]
      BY Zenon DEF parse_bytes_to_decimal_u
    <3>4. QED
      BY <3>2, <3>3, Zenon
  <2>2. QED
    BY <2>1
<1>3. ASSUME NEW r, NEW size \in {1, 2, 4}, Counts(r, size), NEW i \in 0 .. size
      PROVE  r[i] = IF i = size THEN 0 ELSE r[i + 1] * 256 + b[at + i]
  BY <1>3, Zenon
<1> HIDE DEF Counts
<1>4. b[at] \in Int => parse_bytes_to_decimal_u(b, at, 1) = b[at]
  <2>1. PICK r : Counts(r, 1) /\ parse_bytes_to_decimal_u(b, at, 1) = r[0]
    BY <1>2
  <2>2. r[1] = 0 /\ r[0] = r[1] * 256 + b[at + 0]
    BY <1>3, <2>1, SMT
  <2>3. at + 0 = at
    BY SMT
  <2>4. QED
    BY <2>1, <2>2, <2>3, SMT
<1>5. b[at] \in Int /\ b[at + 1] \in Int =>
        parse_bytes_to_decimal_u(b, at, 2) = b[at] + 256 * b[at + 1]
  <2>1. PICK r : Counts(r, 2) /\ parse_bytes_to_decimal_u(b, at, 2) = r[0]
    BY <1>2
  <2>2. r[2] = 0 /\ r[1] = r[2] * 256 + b[at + 1] /\ r[0] = r[1] * 256 + b[at + 0]
    BY <1>3, <2>1, SMT
  <2>3. at + 0 = at
    BY SMT
  <2>4. QED
    BY <2>1, <2>2, <2>3, SMT
<1>6. b[at] \in Int /\ b[at + 1] \in Int /\ b[at + 2] \in Int /\ b[at + 3] \in Int =>
        parse_bytes_to_decimal_u(b, at, 4) =
          b[at] + 256 * (b[at + 1] + 256 * (b[at + 2] + 256 * b[at + 3]))
  <2>1. PICK r : Counts(r, 4) /\ parse_bytes_to_decimal_u(b, at, 4) = r[0]
    BY <1>2
  <2>2. /\ r[4] = 0 /\ r[3] = r[4] * 256 + b[at + 3] /\ r[2] = r[3] * 256 + b[at + 2]
        /\ r[1] = r[2] * 256 + b[at + 1] /\ r[0] = r[1] * 256 + b[at + 0]
    BY <1>3, <2>1, SMT
  <2>3. at + 0 = at
    BY SMT
  <2>4. QED
    BY <2>1, <2>2, <2>3, SMT
<1>7. QED
  BY <1>4, <1>5, <1>6

\* What a byte can be.
LEMMA ByteIs ==
  ASSUME NEW r
  PROVE  r \in Byte <=> r \in Int /\ 0 <= r /\ r <= 255
<1> DEFINE most == 255
<1>1. most \in Int
  BY SMT
<1>2. Byte = 0 .. most
  BY DEF Byte
<1> HIDE DEF most
<1>3. r \in 0 .. most <=> r \in Int /\ 0 <= r /\ r <= most
  BY <1>1, SMT
<1>4. r \in Byte <=> r \in Int /\ 0 <= r /\ r <= most
  BY <1>2, <1>3, Zenon
<1>5. QED
  BY <1>4, SMT DEF most

\* The bytes of a number that fits, and what they count.
LEMMA NumberIs ==
  ASSUME NEW n \in Nat
  PROVE  /\ NumberBytes(n, 4) \in Seq(Byte) /\ Len(NumberBytes(n, 4)) = 4
         /\ NumberBytes(n, 2) \in Seq(Byte) /\ Len(NumberBytes(n, 2)) = 2
         /\ n \div 256 < 256 =>
              n = NumberBytes(n, 2)[1] + 256 * NumberBytes(n, 2)[2]
         /\ n \div 256 ^ 3 < 256 =>
              n = NumberBytes(n, 4)[1] + 256 * (NumberBytes(n, 4)[2]
                    + 256 * (NumberBytes(n, 4)[3] + 256 * NumberBytes(n, 4)[4]))
<1>1. NumberBytes(n, 4) \in [1 .. 4 -> Byte] /\ NumberBytes(n, 2) \in [1 .. 2 -> Byte]
  <2>1. \A i \in 1 .. 4 : (n \div 256 ^ (i - 1)) % 256 \in Byte
    <3>1. ASSUME NEW i \in 1 .. 4
          PROVE  (n \div 256 ^ (i - 1)) % 256 \in Byte
      <4> DEFINE r == (n \div 256 ^ (i - 1)) % 256
      <4>1. r \in Int /\ 0 <= r /\ r <= 255
        BY SMT
      <4> HIDE DEF r
      <4>2. r \in Byte
        BY <4>1, ByteIs, Zenon
      <4>3. QED
        BY <4>2 DEF r
    <3>2. QED
      BY <3>1
  <2>2. \A i \in 1 .. 2 : i \in 1 .. 4
    BY SMT
  <2>3. QED
    BY <2>1, <2>2, ZenonT(60) DEF NumberBytes
<1>2. /\ NumberBytes(n, 4) \in Seq(Byte) /\ Len(NumberBytes(n, 4)) = 4
      /\ NumberBytes(n, 2) \in Seq(Byte) /\ Len(NumberBytes(n, 2)) = 2
  <2>1. 4 \in Nat /\ 2 \in Nat
    BY SMT
  <2>2. QED
    BY <1>1, <2>1, FunctionIsSeq, Zenon
<1>3. n \div 256 < 256 => n = NumberBytes(n, 2)[1] + 256 * NumberBytes(n, 2)[2]
  BY SMT DEF NumberBytes
<1>4. n \div 256 ^ 3 < 256 =>
        n = NumberBytes(n, 4)[1] + 256 * (NumberBytes(n, 4)[2]
              + 256 * (NumberBytes(n, 4)[3] + 256 * NumberBytes(n, 4)[4]))
  BY SMT DEF NumberBytes
<1>5. QED
  BY <1>2, <1>3, <1>4

\* The two bytes of a length.
LEMMA LengthIs ==
  ASSUME NEW n \in Nat, n \div 256 < 256
  PROVE  /\ NumberBytes(n, 2) \in Seq(Byte) /\ Len(NumberBytes(n, 2)) = 2
         /\ n = NumberBytes(n, 2)[1] + 256 * NumberBytes(n, 2)[2]
BY NumberIs

\* What is written into a block is in it, and the rest of it is as it was.
LEMMA PutIs ==
  ASSUME NEW b \in DirBytes, NEW at \in Nat, NEW bytes \in Seq(Byte), at + Len(bytes) <= BlockSize
  PROVE  /\ Put(b, at, bytes) \in DirBytes
         /\ \A p \in Position :
              Put(b, at, bytes)[p] =
                IF at <= p /\ p < at + Len(bytes) THEN bytes[p - at + 1] ELSE b[p]
<1>1. Len(bytes) \in Nat /\ \A i \in 1 .. Len(bytes) : bytes[i] \in Byte
  BY LenProperties, ElementOfSeq
<1>2. DOMAIN b \cup (at .. at + Len(bytes) - 1) = Position
  BY <1>1, BlockAssumption, SMT DEF DirBytes, Position
<1>3. Put(b, at, bytes) =
        [p \in Position |-> IF p \in at .. at + Len(bytes) - 1 THEN bytes[p - at + 1] ELSE b[p]]
  BY <1>2, Zenon DEF Put
<1>4. \A p \in Position : p \in at .. at + Len(bytes) - 1 <=> at <= p /\ p < at + Len(bytes)
  BY <1>1, BlockAssumption, SMT DEF Position
<1>5. \A p \in Position : p \in at .. at + Len(bytes) - 1 => p - at + 1 \in 1 .. Len(bytes)
  BY <1>1, BlockAssumption, SMT DEF Position
<1>6. \A p \in Position : b[p] \in Byte
  BY DEF DirBytes
<1>7. Put(b, at, bytes) \in DirBytes
  BY <1>1, <1>3, <1>5, <1>6, Zenon DEF DirBytes
<1>8. QED
  BY <1>3, <1>4, <1>7, Zenon

\* The whole block is written.
LEMMA WholeBlock ==
  ASSUME NEW b \in DirBytes
  PROVE  write_block(b) = b
BY DEF write_block, DirBytes

-----------------------------------------------------------------------------
(* Entries and the chain of their places *)

\* The number and the length of the entry at a place.
Ino(b, at) == b[at] + 256 * (b[at + 1] + 256 * (b[at + 2] + 256 * b[at + 3]))
Rec(b, at) == b[at + 4] + 256 * b[at + 5]

\* What read_dir_entry_in_block reads, where there is room for it.
LEMMA Fields ==
  ASSUME NEW b \in DirBytes, NEW at \in Nat, at + 8 <= BlockSize
  PROVE  /\ read_dir_entry_in_block(b, at) =
              [ino |-> Ino(b, at), rec_len |-> Rec(b, at), typ |-> b[at + 7],
               name |-> [i \in 1 .. b[at + 6] |-> b[at + 8 + i - 1]]]
         /\ Ino(b, at) \in Nat /\ Rec(b, at) \in Nat
         /\ b[at + 6] \in Byte /\ b[at + 7] \in Byte
<1>1. /\ at \in Position /\ at + 1 \in Position /\ at + 2 \in Position /\ at + 3 \in Position
      /\ at + 4 \in Position /\ at + 5 \in Position /\ at + 6 \in Position /\ at + 7 \in Position
  BY BlockAssumption, SMT DEF Position
<1>2. /\ b[at] \in Byte /\ b[at + 1] \in Byte /\ b[at + 2] \in Byte /\ b[at + 3] \in Byte
      /\ b[at + 4] \in Byte /\ b[at + 5] \in Byte /\ b[at + 6] \in Byte /\ b[at + 7] \in Byte
  BY <1>1, Zenon DEF DirBytes
<1>3. /\ b[at] \in Nat /\ b[at + 1] \in Nat /\ b[at + 2] \in Nat /\ b[at + 3] \in Nat
      /\ b[at + 4] \in Nat /\ b[at + 5] \in Nat /\ b[at + 6] \in Nat /\ b[at + 7] \in Nat
  <2>1. \A r \in Byte : r \in Nat
    BY ByteIs, SMT
  <2>2. QED
    BY <1>2, <2>1, Zenon
<1>4. /\ parse_bytes_to_decimal_u(b, at, 4) = Ino(b, at)
      /\ parse_bytes_to_decimal_u(b, at + 4, 2) = Rec(b, at)
      /\ parse_bytes_to_decimal_u(b, at + 6, 1) = b[at + 6]
      /\ parse_bytes_to_decimal_u(b, at + 7, 1) = b[at + 7]
  <2>1. at + 4 \in Nat /\ at + 6 \in Nat /\ at + 7 \in Nat /\ (at + 4) + 1 = at + 5
    BY SMT
  <2>2. parse_bytes_to_decimal_u(b, at, 4) =
          b[at] + 256 * (b[at + 1] + 256 * (b[at + 2] + 256 * b[at + 3]))
    BY <1>3, ParseIs, SMT
  <2>3. parse_bytes_to_decimal_u(b, at + 4, 2) = b[at + 4] + 256 * b[at + 5]
    BY <1>3, <2>1, ParseIs, SMT
  <2>4. parse_bytes_to_decimal_u(b, at + 6, 1) = b[at + 6]
    BY <1>3, <2>1, ParseIs, SMT
  <2>5. parse_bytes_to_decimal_u(b, at + 7, 1) = b[at + 7]
    BY <1>3, <2>1, ParseIs, SMT
  <2>6. QED
    BY <2>2, <2>3, <2>4, <2>5 DEF Ino, Rec
<1>5. Ino(b, at) \in Nat /\ Rec(b, at) \in Nat
  BY <1>3, SMT DEF Ino, Rec
<1>6. read_dir_entry_in_block(b, at) =
        [ino |-> Ino(b, at), rec_len |-> Rec(b, at), typ |-> b[at + 7],
         name |-> [i \in 1 .. b[at + 6] |-> b[at + 8 + i - 1]]]
  BY <1>4, Zenon DEF read_dir_entry_in_block, DIR_ENTRY_PREFIX_LEN
<1>7. QED
  BY <1>2, <1>5, <1>6, Zenon

\* Its fields, one by one.
LEMMA Numbers ==
  ASSUME NEW b \in DirBytes, NEW at \in Nat, at + 8 <= BlockSize
  PROVE  /\ read_dir_entry_in_block(b, at).ino = Ino(b, at) /\ Ino(b, at) \in Nat
         /\ read_dir_entry_in_block(b, at).rec_len = Rec(b, at) /\ Rec(b, at) \in Nat
         /\ read_dir_entry_in_block(b, at).typ = b[at + 7]
<1>1. QED
  BY Fields, SMT

\* The name of an entry that does not stick out.
LEMMA NameIs ==
  ASSUME NEW b \in DirBytes, NEW at \in Nat, Inside(b, at)
  PROVE  /\ read_dir_entry_in_block(b, at).name = [i \in 1 .. b[at + 6] |-> b[at + 8 + i - 1]]
         /\ read_dir_entry_in_block(b, at).name \in Seq(Byte)
         /\ Len(read_dir_entry_in_block(b, at).name) = b[at + 6]
         /\ b[at + 6] \in Nat /\ b[at + 6] <= 255
         /\ at + 8 <= BlockSize /\ at + 8 + b[at + 6] <= BlockSize
<1> DEFINE m == b[at + 6]
           f == [i \in 1 .. m |-> b[at + 8 + i - 1]]
<1>1. at + 8 <= BlockSize /\ at + 8 + m <= BlockSize
  BY Zenon DEF Inside, DIR_ENTRY_PREFIX_LEN
<1>2. read_dir_entry_in_block(b, at).name = f /\ m \in Byte
  <2>1. /\ read_dir_entry_in_block(b, at) =
              [ino |-> Ino(b, at), rec_len |-> Rec(b, at), typ |-> b[at + 7], name |-> f]
        /\ m \in Byte
    BY <1>1, Fields, Zenon
  <2> HIDE DEF f, m
  <2>2. QED
    BY <2>1, SMT
<1>3. m \in Nat /\ m <= 255
  <2>1. m \in Int /\ 0 <= m /\ m <= 255
    BY <1>2, ByteIs, Zenon
  <2> HIDE DEF m
  <2>2. QED
    BY <2>1, SMT
<1>4. \A i \in 1 .. m : at + 8 + i - 1 \in Position
  <2> HIDE DEF m
  <2>1. QED
    BY <1>1, <1>3, BlockAssumption, SMT DEF Position
<1>5. f \in [1 .. m -> Byte]
  BY <1>4, Zenon DEF DirBytes
<1> HIDE DEF f
<1>6. f \in Seq(Byte) /\ Len(f) = m
  BY <1>3, <1>5, FunctionIsSeq, Zenon
<1>7. QED
  BY <1>1, <1>2, <1>3, <1>6, Zenon DEF f

\* An entry in use by its bytes.
LEMMA InUseIs ==
  ASSUME NEW b \in DirBytes, NEW at \in 0 .. BlockSize
  PROVE  InUse(b, at) <=> /\ Inside(b, at) /\ Ino(b, at) # 0
                         /\ Rec(b, at) >= 1 /\ at + Rec(b, at) <= BlockSize
<1>1. CASE ~ Inside(b, at)
  BY <1>1 DEF InUse
<1>2. CASE Inside(b, at)
  <2>1. at \in Nat /\ at + 8 <= BlockSize
    <3>1. at \in Nat
      BY BlockAssumption, SMT
    <3>2. QED
      BY <1>2, <3>1, SMT DEF Inside, DIR_ENTRY_PREFIX_LEN
  <2>2. /\ read_dir_entry_in_block(b, at).ino = Ino(b, at)
        /\ read_dir_entry_in_block(b, at).rec_len = Rec(b, at)
        /\ Rec(b, at) \in Nat
    BY <2>1, Numbers, Zenon
  <2>3. InUse(b, at) <=> Ino(b, at) # 0 /\ Rec(b, at) \in 1 .. BlockSize - at
    BY <1>2, <2>2, Zenon DEF InUse
  <2>4. QED
    BY <1>2, <2>1, <2>2, <2>3, BlockAssumption, SMT
<1>3. QED
  BY <1>1, <1>2

\* s are the places along the chain from a place on.
ChainFrom(b, at, s) ==
  /\ s \in Seq(0 .. BlockSize) /\ Len(s) >= 1 /\ s[1] = at
  /\ \A i \in 1 .. Len(s) - 1 : InUse(b, s[i]) /\ s[i + 1] = s[i] + Rec(b, s[i])
  /\ ~ InUse(b, s[Len(s)])

\* There is a chain from everywhere.
LEMMA ChainExists ==
  ASSUME NEW b \in DirBytes, NEW at0 \in 0 .. BlockSize
  PROVE  \E s : ChainFrom(b, at0, s)
<1> DEFINE T == {n \in Nat : \E at \in 0 .. BlockSize : n = BlockSize - at /\ ~ \E s : ChainFrom(b, at, s)}
<1>1. SUFFICES ASSUME T # {} PROVE FALSE
  <2>1. BlockSize - at0 \in Nat
    BY BlockAssumption, SMT
  <2>2. QED
    BY <1>1, <2>1
<1>2. PICK n \in T : \A m \in T : n <= m
  <2>1. T \subseteq Nat
    OBVIOUS
  <2>2. QED
    BY <1>1, <2>1, FirstOf, Zenon
<1>3. PICK at \in 0 .. BlockSize : n = BlockSize - at /\ ~ \E s : ChainFrom(b, at, s)
  BY <1>2
<1>4. CASE ~ InUse(b, at)
  <2>1. ChainFrom(b, at, <<at>>)
    BY <1>4, SMT DEF ChainFrom
  <2>2. QED
    BY <1>3, <2>1
<1>5. CASE InUse(b, at)
  <2> DEFINE next == at + Rec(b, at)
  <2>1. Rec(b, at) \in Nat
    <3>1. at \in Nat /\ at + 8 <= BlockSize
      BY <1>5, BlockAssumption, SMT DEF InUse, Inside, DIR_ENTRY_PREFIX_LEN
    <3>2. QED
      BY <3>1, Numbers, Zenon
  <2>2. next \in 0 .. BlockSize /\ BlockSize - next \in Nat /\ BlockSize - next < n
    BY <1>3, <1>5, <2>1, InUseIs, BlockAssumption, SMT
  <2>3. PICK s : ChainFrom(b, next, s)
    <3>1. BlockSize - next \notin T
      BY <1>2, <2>2, SMT
    <3>2. QED
      BY <2>2, <3>1
  <2>4. ChainFrom(b, at, <<at>> \o s)
    <3> DEFINE t == <<at>> \o s
    <3>1. /\ s \in Seq(0 .. BlockSize) /\ Len(s) >= 1 /\ s[1] = next /\ Len(s) \in Nat
          /\ \A i \in 1 .. Len(s) - 1 : InUse(b, s[i]) /\ s[i + 1] = s[i] + Rec(b, s[i])
          /\ ~ InUse(b, s[Len(s)])
      BY <2>3, LenProperties DEF ChainFrom
    <3>2. /\ t \in Seq(0 .. BlockSize) /\ Len(t) = 1 + Len(s)
          /\ \A i \in 1 .. Len(t) : t[i] = IF i = 1 THEN at ELSE s[i - 1]
      BY <3>1, SMT
    <3> HIDE DEF t
    <3>3. ASSUME NEW i \in 1 .. Len(t) - 1
          PROVE  InUse(b, t[i]) /\ t[i + 1] = t[i] + Rec(b, t[i])
      <4>1. CASE i = 1
        <5>1. t[i] = at /\ t[i + 1] = s[1]
          BY <3>1, <3>2, <4>1, SMT
        <5>2. QED
          BY <1>5, <3>1, <5>1, Zenon
      <4>2. CASE i # 1
        <5>1. i - 1 \in 1 .. Len(s) - 1 /\ t[i] = s[i - 1] /\ t[i + 1] = s[(i - 1) + 1]
          BY <3>1, <3>2, <4>2, SMT
        <5>2. QED
          BY <3>1, <5>1, Zenon
      <4>3. QED
        BY <4>1, <4>2
    <3>4. t[Len(t)] = s[Len(s)] /\ t[1] = at /\ Len(t) >= 1
      BY <3>1, <3>2, SMT
    <3>5. ChainFrom(b, at, t)
      BY <3>1, <3>2, <3>3, <3>4, Zenon DEF ChainFrom
    <3>6. QED
      BY <3>5 DEF t
  <2>5. QED
    BY <1>3, <2>4
<1>6. QED
  BY <1>4, <1>5

\* And only one.
LEMMA ChainUnique ==
  ASSUME NEW b \in DirBytes, NEW at, NEW s, NEW t, ChainFrom(b, at, s), ChainFrom(b, at, t)
  PROVE  s = t
<1>1. /\ s \in Seq(0 .. BlockSize) /\ t \in Seq(0 .. BlockSize)
      /\ Len(s) \in Nat /\ Len(t) \in Nat /\ Len(s) >= 1 /\ Len(t) >= 1
  BY LenProperties DEF ChainFrom
<1> DEFINE T == {i \in Nat : i \in 1 .. Len(s) /\ i \in 1 .. Len(t) /\ s[i] # t[i]}
<1>2. T = {}
  <2>1. SUFFICES ASSUME T # {} PROVE FALSE
    OBVIOUS
  <2>2. PICK i \in T : \A j \in T : i <= j
    <3>1. T \subseteq Nat
      OBVIOUS
    <3>2. QED
      BY <2>1, <3>1, FirstOf, Zenon
  <2>3. i # 1
    BY <2>2 DEF ChainFrom
  <2>4. i - 1 \in 1 .. Len(s) - 1 /\ i - 1 \in 1 .. Len(t) - 1 /\ (i - 1) + 1 = i
    BY <1>1, <2>2, <2>3, SMT
  <2>5. s[i - 1] = t[i - 1]
    <3>1. i - 1 \notin T
      BY <2>2, <2>4, SMT
    <3>2. i - 1 \in Nat /\ i - 1 \in 1 .. Len(s) /\ i - 1 \in 1 .. Len(t)
      BY <1>1, <2>4, SMT
    <3>3. QED
      BY <3>1, <3>2
  <2>6. s[i] = s[i - 1] + Rec(b, s[i - 1]) /\ t[i] = t[i - 1] + Rec(b, t[i - 1])
    BY <2>4, Zenon DEF ChainFrom
  <2>7. s[i] = t[i]
    BY <2>5, <2>6, Zenon
  <2>8. QED
    BY <2>2, <2>7
<1>3. \A i \in 1 .. Len(s) : i \in 1 .. Len(t) => s[i] = t[i]
  <2>1. \A i \in 1 .. Len(s) : i \in Nat
    BY <1>1, SMT
  <2>2. QED
    BY <1>2, <2>1
<1>4. ~ (Len(s) < Len(t))
  <2>1. ASSUME Len(s) < Len(t) PROVE FALSE
    <3>1. Len(s) \in 1 .. Len(s) /\ Len(s) \in 1 .. Len(t) /\ Len(s) \in 1 .. Len(t) - 1
      BY <1>1, <2>1, SMT
    <3>2. QED
      BY <1>3, <3>1, Zenon DEF ChainFrom
  <2>2. QED
    BY <2>1
<1>5. ~ (Len(t) < Len(s))
  <2>1. ASSUME Len(t) < Len(s) PROVE FALSE
    <3>1. Len(t) \in 1 .. Len(t) /\ Len(t) \in 1 .. Len(s) /\ Len(t) \in 1 .. Len(s) - 1
      BY <1>1, <2>1, SMT
    <3>2. QED
      BY <1>3, <3>1, Zenon DEF ChainFrom
  <2>2. QED
    BY <2>1
<1>6. Len(s) = Len(t)
  BY <1>1, <1>4, <1>5, SMT
<1>7. QED
  BY <1>1, <1>3, <1>6, SeqEqual, Zenon

\* Places(b) is the chain from the start of the block.
LEMMA PlacesIs ==
  ASSUME NEW b \in DirBytes
  PROVE  ChainFrom(b, 0, Places(b))
<1> DEFINE Follows(f) ==
             f = [at \in 0 .. BlockSize |->
                    IF InUse(b, at)
                    THEN <<at>> \o f[at + read_dir_entry_in_block(b, at).rec_len]
                    ELSE <<at>>]
           f0 == [at \in 0 .. BlockSize |-> CHOOSE s : ChainFrom(b, at, s)]
<1>1. \A at \in 0 .. BlockSize : ChainFrom(b, at, f0[at])
  BY ChainExists, Zenon
<1>2. ASSUME NEW at \in 0 .. BlockSize, InUse(b, at)
      PROVE  /\ read_dir_entry_in_block(b, at).rec_len = Rec(b, at)
             /\ at + Rec(b, at) \in 0 .. BlockSize /\ at + Rec(b, at) > at
  <2>1. at \in Nat /\ at + 8 <= BlockSize
    BY <1>2, BlockAssumption, SMT DEF InUse, Inside, DIR_ENTRY_PREFIX_LEN
  <2>2. read_dir_entry_in_block(b, at).rec_len = Rec(b, at) /\ Rec(b, at) \in Nat
    BY <2>1, Numbers, Zenon
  <2>3. QED
    BY <1>2, <2>1, <2>2, InUseIs, BlockAssumption, SMT
<1>3. ASSUME NEW at \in 0 .. BlockSize, InUse(b, at), NEW s, ChainFrom(b, at + Rec(b, at), s)
      PROVE  ChainFrom(b, at, <<at>> \o s)
  <2> DEFINE t == <<at>> \o s
  <2>1. /\ s \in Seq(0 .. BlockSize) /\ Len(s) >= 1 /\ s[1] = at + Rec(b, at) /\ Len(s) \in Nat
        /\ \A i \in 1 .. Len(s) - 1 : InUse(b, s[i]) /\ s[i + 1] = s[i] + Rec(b, s[i])
        /\ ~ InUse(b, s[Len(s)])
    BY <1>3, LenProperties DEF ChainFrom
  <2>2. /\ t \in Seq(0 .. BlockSize) /\ Len(t) = 1 + Len(s)
        /\ \A i \in 1 .. Len(t) : t[i] = IF i = 1 THEN at ELSE s[i - 1]
    BY <2>1, SMT
  <2> HIDE DEF t
  <2>3. ASSUME NEW i \in 1 .. Len(t) - 1
        PROVE  InUse(b, t[i]) /\ t[i + 1] = t[i] + Rec(b, t[i])
    <3>1. CASE i = 1
      <4>1. t[i] = at /\ t[i + 1] = s[1]
        BY <2>1, <2>2, <3>1, SMT
      <4>2. QED
        BY <1>3, <2>1, <4>1, Zenon
    <3>2. CASE i # 1
      <4>1. i - 1 \in 1 .. Len(s) - 1 /\ t[i] = s[i - 1] /\ t[i + 1] = s[(i - 1) + 1]
        BY <2>1, <2>2, <3>2, SMT
      <4>2. QED
        BY <2>1, <4>1, Zenon
    <3>3. QED
      BY <3>1, <3>2
  <2>4. t[Len(t)] = s[Len(s)] /\ t[1] = at /\ Len(t) >= 1
    BY <2>1, <2>2, SMT
  <2>5. ChainFrom(b, at, t)
    BY <2>1, <2>2, <2>3, <2>4, Zenon DEF ChainFrom
  <2>6. QED
    BY <2>5 DEF t
<1>4. ASSUME NEW at \in 0 .. BlockSize, ~ InUse(b, at)
      PROVE  ChainFrom(b, at, <<at>>)
  BY <1>4, SMT DEF ChainFrom
<1>5. Follows(f0)
  <2>1. ASSUME NEW at \in 0 .. BlockSize
        PROVE  f0[at] = IF InUse(b, at)
                        THEN <<at>> \o f0[at + read_dir_entry_in_block(b, at).rec_len]
                        ELSE <<at>>
    <3>1. CASE InUse(b, at)
      <4>1. ChainFrom(b, at, <<at>> \o f0[at + Rec(b, at)])
        <5> HIDE DEF f0
        <5>1. QED
          BY <1>1, <1>2, <1>3, <3>1, Zenon
      <4>2. f0[at] = <<at>> \o f0[at + Rec(b, at)]
        <5> HIDE DEF f0
        <5>1. QED
          BY <1>1, <4>1, ChainUnique, Zenon
      <4>3. QED
        <5> HIDE DEF f0
        <5>1. QED
          BY <1>2, <3>1, <4>2, Zenon
    <3>2. CASE ~ InUse(b, at)
      <4> HIDE DEF f0
      <4>1. f0[at] = <<at>>
        BY <1>1, <1>4, <3>2, ChainUnique, Zenon
      <4>2. QED
        BY <3>2, <4>1, Zenon
    <3>3. QED
      BY <3>1, <3>2
  <2>2. f0 = [at \in 0 .. BlockSize |-> f0[at]]
    OBVIOUS
  <2> HIDE DEF f0
  <2>3. QED
    BY <2>1, <2>2, Zenon
<1>6. ASSUME NEW f, Follows(f)
      PROVE  ChainFrom(b, 0, f[0])
  <2>1. \A at \in 0 .. BlockSize :
          f[at] = IF InUse(b, at)
                  THEN <<at>> \o f[at + read_dir_entry_in_block(b, at).rec_len]
                  ELSE <<at>>
    BY <1>6, Zenon
  <2> HIDE DEF Follows, f0
  <2> DEFINE T == {n \in Nat : \E at \in 0 .. BlockSize : n = BlockSize - at /\ ~ ChainFrom(b, at, f[at])}
  <2>2. T = {}
    <3>1. SUFFICES ASSUME T # {} PROVE FALSE
      OBVIOUS
    <3>2. PICK n \in T : \A m \in T : n <= m
      <4>1. T \subseteq Nat
        OBVIOUS
      <4>2. QED
        BY <3>1, <4>1, FirstOf, Zenon
    <3>3. PICK at \in 0 .. BlockSize : n = BlockSize - at /\ ~ ChainFrom(b, at, f[at])
      BY <3>2
    <3>4. CASE ~ InUse(b, at)
      BY <1>4, <2>1, <3>3, <3>4, Zenon
    <3>5. CASE InUse(b, at)
      <4> DEFINE next == at + Rec(b, at)
      <4>1. next \in 0 .. BlockSize /\ next > at /\ f[at] = <<at>> \o f[next]
        BY <1>2, <2>1, <3>5, Zenon
      <4> HIDE DEF next
      <4>2. BlockSize - next \in Nat /\ BlockSize - next < n
        BY <3>3, <4>1, BlockAssumption, SMT
      <4>3. BlockSize - next \notin T
        BY <3>2, <4>2, SMT
      <4>4. ChainFrom(b, next, f[next])
        BY <4>1, <4>2, <4>3
      <4>5. QED
        BY <1>3, <3>3, <3>5, <4>1, <4>4, Zenon DEF next
    <3>6. QED
      BY <3>4, <3>5
  <2>3. 0 \in 0 .. BlockSize /\ BlockSize - 0 \in Nat
    BY BlockAssumption, SMT
  <2>4. QED
    BY <2>2, <2>3
<1>7. Places(b) = (CHOOSE f : Follows(f))[0]
  BY Zenon DEF Places
<1>8. Follows(CHOOSE f : Follows(f))
  <2> HIDE DEF Follows, f0
  <2>1. QED
    BY <1>5, Zenon
<1>9. QED
  <2> HIDE DEF Follows, f0
  <2>1. QED
    BY <1>6, <1>7, <1>8, Zenon

-----------------------------------------------------------------------------
(* The chain of a block *)

\* The name of the entry at a place.
NameOf(b, at) == [i \in 1 .. b[at + 6] |-> b[at + 8 + i - 1]]

\* What holds of the places of any block.
LEMMA PlacesOK ==
  ASSUME NEW b \in DirBytes
  PROVE  /\ Places(b) \in Seq(0 .. BlockSize)
         /\ Len(Places(b)) \in Nat /\ Len(Places(b)) >= 1 /\ Places(b)[1] = 0
         /\ \A i \in 1 .. Len(Places(b)) :
              Places(b)[i] \in Nat /\ Places(b)[i] <= BlockSize
         /\ \A i \in 1 .. Len(Places(b)) - 1 :
              /\ Inside(b, Places(b)[i]) /\ Ino(b, Places(b)[i]) # 0
              /\ Ino(b, Places(b)[i]) \in Nat
              /\ Rec(b, Places(b)[i]) \in Nat /\ Rec(b, Places(b)[i]) >= 1
              /\ Places(b)[i + 1] = Places(b)[i] + Rec(b, Places(b)[i])
              /\ Places(b)[i] + 8 <= BlockSize
         /\ ~ InUse(b, Places(b)[Len(Places(b))])
<1> DEFINE P == Places(b)
<1>1. ChainFrom(b, 0, P)
  BY PlacesIs, Zenon
<1> HIDE DEF P
<1>2. /\ P \in Seq(0 .. BlockSize) /\ Len(P) >= 1 /\ P[1] = 0 /\ Len(P) \in Nat
      /\ ~ InUse(b, P[Len(P)])
      /\ \A i \in 1 .. Len(P) - 1 : InUse(b, P[i]) /\ P[i + 1] = P[i] + Rec(b, P[i])
  BY <1>1, LenProperties, Zenon DEF ChainFrom
<1>3. \A i \in 1 .. Len(P) : P[i] \in 0 .. BlockSize
  BY <1>2, ElementOfSeq, Zenon
<1>4. \A i \in 1 .. Len(P) : P[i] \in Nat /\ P[i] <= BlockSize
  BY <1>3, BlockAssumption, SMT
<1>5. ASSUME NEW i \in 1 .. Len(P) - 1
      PROVE  /\ Inside(b, P[i]) /\ Ino(b, P[i]) # 0 /\ Ino(b, P[i]) \in Nat
             /\ Rec(b, P[i]) \in Nat /\ Rec(b, P[i]) >= 1
             /\ P[i + 1] = P[i] + Rec(b, P[i]) /\ P[i] + 8 <= BlockSize
  <2>1. i \in 1 .. Len(P)
    BY <1>2, SMT
  <2>2. P[i] \in 0 .. BlockSize /\ P[i] \in Nat /\ InUse(b, P[i]) /\ P[i + 1] = P[i] + Rec(b, P[i])
    BY <1>2, <1>3, <1>4, <2>1, Zenon
  <2>3. Inside(b, P[i]) /\ Ino(b, P[i]) # 0 /\ Rec(b, P[i]) >= 1
    BY <2>2, InUseIs, Zenon
  <2>4. P[i] + 8 <= BlockSize
    BY <2>3, Zenon DEF Inside, DIR_ENTRY_PREFIX_LEN
  <2>5. QED
    BY <2>2, <2>3, <2>4, Numbers, Zenon
<1>6. QED
  BY <1>2, <1>4, <1>5, Zenon DEF P

\* To know the places of a block it is enough to follow a chain.
LEMMA PlacesMade ==
  ASSUME NEW b \in DirBytes, NEW s \in Seq(0 .. BlockSize), Len(s) >= 1, s[1] = 0,
         \A i \in 1 .. Len(s) - 1 :
           /\ Inside(b, s[i]) /\ Ino(b, s[i]) # 0 /\ Rec(b, s[i]) >= 1
           /\ s[i + 1] = s[i] + Rec(b, s[i]),
         s[Len(s)] = BlockSize \/ Ino(b, s[Len(s)]) = 0
  PROVE  Places(b) = s
<1>1. Len(s) \in Nat /\ \A i \in 1 .. Len(s) : s[i] \in 0 .. BlockSize
  BY LenProperties, ElementOfSeq, Zenon
<1>2. ASSUME NEW i \in 1 .. Len(s) - 1
      PROVE  InUse(b, s[i])
  <2>1. i \in 1 .. Len(s) /\ i + 1 \in 1 .. Len(s)
    BY <1>1, SMT
  <2>2. s[i] \in 0 .. BlockSize /\ s[i + 1] <= BlockSize
    BY <1>1, <2>1, BlockAssumption, SMT
  <2>3. s[i] + Rec(b, s[i]) <= BlockSize
    BY <2>2, Zenon
  <2>4. QED
    BY <2>2, <2>3, InUseIs, Zenon
<1>3. ~ InUse(b, s[Len(s)])
  <2>1. s[Len(s)] \in 0 .. BlockSize
    BY <1>1, SMT
  <2>2. CASE s[Len(s)] = BlockSize
    <3>1. ~ Inside(b, BlockSize)
      BY BlockAssumption, SMT DEF Inside, DIR_ENTRY_PREFIX_LEN
    <3>2. QED
      BY <2>2, <3>1, Zenon DEF InUse
  <2>3. CASE Ino(b, s[Len(s)]) = 0
    BY <2>1, <2>3, InUseIs, Zenon
  <2>4. QED
    BY <2>2, <2>3
<1>4. ChainFrom(b, 0, s)
  BY <1>2, <1>3, Zenon DEF ChainFrom
<1>5. QED
  BY <1>4, PlacesIs, ChainUnique, Zenon

\* The entries of a block are those at its places.
LEMMA ListedIs ==
  ASSUME NEW b
  PROVE  Listed(b) = [i \in 1 .. Len(Places(b)) - 1 |-> read_dir_entry_in_block(b, Places(b)[i])]
<1> DEFINE E(places) == [i \in 1 .. Len(places) - 1 |-> read_dir_entry_in_block(b, places[i])]
<1>1. Listed(b) = Only({E(places) : places \in {Places(b)}})
  BY Zenon DEF Listed
<1> HIDE DEF E
<1>2. Listed(b) = E(Places(b))
  BY <1>1, Zenon DEF Only
<1>3. QED
  BY <1>2, Zenon DEF E

\* The entries of a block and their meaning.
LEMMA MeaningIs ==
  ASSUME NEW b \in DirBytes
  PROVE  /\ DOMAIN Listed(b) = 1 .. Len(Places(b)) - 1
         /\ \A i \in 1 .. Len(Places(b)) - 1 :
              /\ Listed(b)[i] = read_dir_entry_in_block(b, Places(b)[i])
              /\ Listed(b)[i].rec_len = Rec(b, Places(b)[i])
              /\ Listed(b)[i].ino = Ino(b, Places(b)[i])
              /\ Len(Listed(b)[i].name) = b[Places(b)[i] + 6]
         /\ Meaning(b) = [i \in 1 .. Len(Places(b)) - 1 |->
                            [ino |-> Ino(b, Places(b)[i]), typ |-> b[Places(b)[i] + 7],
                             name |-> NameOf(b, Places(b)[i])]]
<1> DEFINE P == Places(b)
           L == Len(Places(b)) - 1
<1>1. Listed(b) = [i \in 1 .. L |-> read_dir_entry_in_block(b, P[i])]
  BY ListedIs, Zenon
<1>2. ASSUME NEW i \in 1 .. L
      PROVE  /\ read_dir_entry_in_block(b, P[i]).ino = Ino(b, P[i])
             /\ read_dir_entry_in_block(b, P[i]).rec_len = Rec(b, P[i])
             /\ read_dir_entry_in_block(b, P[i]).typ = b[P[i] + 7]
             /\ read_dir_entry_in_block(b, P[i]).name = NameOf(b, P[i])
             /\ Len(read_dir_entry_in_block(b, P[i]).name) = b[P[i] + 6]
  <2>1. Inside(b, P[i]) /\ P[i] + 8 <= BlockSize /\ P[i] \in Nat
    <3>1. i \in 1 .. Len(P)
      BY PlacesOK, SMT
    <3>2. QED
      BY <3>1, PlacesOK, Zenon
  <2>2. QED
    BY <2>1, Numbers, NameIs, ZenonT(60) DEF NameOf
<1>3. \A i \in 1 .. L : Listed(b)[i] = read_dir_entry_in_block(b, P[i])
  BY <1>1, Zenon
<1>4. DOMAIN Listed(b) = 1 .. L
  BY <1>1, Zenon
<1>5. Meaning(b) = [i \in 1 .. L |-> [ino |-> Listed(b)[i].ino, typ |-> Listed(b)[i].typ,
                                      name |-> Listed(b)[i].name]]
  <2> DEFINE M(f) == [i \in DOMAIN f |-> [ino |-> f[i].ino, typ |-> f[i].typ, name |-> f[i].name]]
  <2>1. Meaning(b) = Only({M(f) : f \in {Listed(b)}})
    BY Zenon DEF Meaning
  <2> HIDE DEF M
  <2>2. Meaning(b) = M(Listed(b))
    BY <2>1, Zenon DEF Only
  <2>3. QED
    BY <2>2, <1>4, Zenon DEF M
<1>6. \A i \in 1 .. L : [ino |-> Listed(b)[i].ino, typ |-> Listed(b)[i].typ, name |-> Listed(b)[i].name]
                          = [ino |-> Ino(b, P[i]), typ |-> b[P[i] + 7], name |-> NameOf(b, P[i])]
  BY <1>2, <1>3, Zenon
<1>7. Meaning(b) = [i \in 1 .. L |-> [ino |-> Ino(b, P[i]), typ |-> b[P[i] + 7], name |-> NameOf(b, P[i])]]
  BY <1>5, <1>6, Zenon
<1>8. QED
  BY <1>2, <1>3, <1>4, <1>7, Zenon

\* A well-formed block by its bytes.
WellChained(b, P) ==
  /\ \A i \in 1 .. Len(P) - 1 : Rec(b, P[i]) % 4 = 0 /\ Rec(b, P[i]) >= 8 + b[P[i] + 6]
  /\ P[Len(P)] < BlockSize => Inside(b, P[Len(P)]) /\ Ino(b, P[Len(P)]) = 0

\* That is what WellFormed says.
LEMMA WellIs ==
  ASSUME NEW b \in DirBytes
  PROVE  WellFormed(b) <=> WellChained(b, Places(b))
<1> DEFINE P == Places(b)
           L == Len(Places(b)) - 1
<1>1. (Unused(b) => Inside(b, End(b)) /\ read_dir_entry_in_block(b, End(b)).ino = 0)
        <=> (P[Len(P)] < BlockSize => Inside(b, P[Len(P)]) /\ Ino(b, P[Len(P)]) = 0)
  <2>1. End(b) = P[Len(P)] /\ (Unused(b) <=> P[Len(P)] < BlockSize)
    BY Zenon DEF End, Unused
  <2>2. Inside(b, P[Len(P)]) => read_dir_entry_in_block(b, P[Len(P)]).ino = Ino(b, P[Len(P)])
    <3>1. SUFFICES ASSUME Inside(b, P[Len(P)])
                   PROVE  read_dir_entry_in_block(b, P[Len(P)]).ino = Ino(b, P[Len(P)])
      OBVIOUS
    <3>2. P[Len(P)] \in Nat
      <4>1. Len(P) \in 1 .. Len(P)
        BY PlacesOK, SMT
      <4>2. QED
        BY <4>1, PlacesOK, Zenon
    <3>3. P[Len(P)] + 8 <= BlockSize
      BY <3>1, <3>2, NameIs, Zenon
    <3>4. QED
      BY <3>2, <3>3, Numbers, Zenon
  <2>3. QED
    BY <2>1, <2>2, Zenon
<1>2. (\A i \in DOMAIN Listed(b) :
          /\ Listed(b)[i].rec_len % 4 = 0
          /\ Listed(b)[i].rec_len >= 8 + Len(Listed(b)[i].name))
        <=> (\A i \in 1 .. L : Rec(b, P[i]) % 4 = 0 /\ Rec(b, P[i]) >= 8 + b[P[i] + 6])
  <2>1. /\ DOMAIN Listed(b) = 1 .. L
        /\ \A i \in 1 .. L : /\ Listed(b)[i].rec_len = Rec(b, P[i])
                             /\ Len(Listed(b)[i].name) = b[P[i] + 6]
    BY MeaningIs, Zenon
  <2> HIDE DEF P, L
  <2>2. QED
    BY <2>1
<1>3. QED
  BY <1>1, <1>2, Zenon DEF WellFormed, WellChained, DIR_ENTRY_PREFIX_LEN

\* Places of a well-formed block: multiples of 4, one behind the other.
LEMMA Apart ==
  ASSUME NEW b \in DirBytes, WellFormed(b)
  PROVE  \A j \in 1 .. Len(Places(b)) :
           /\ Places(b)[j] % 4 = 0
           /\ \A i \in 1 .. Len(Places(b)) :
                i < j => Places(b)[i] + Rec(b, Places(b)[i]) <= Places(b)[j]
<1> DEFINE P == Places(b)
           Good(j) == /\ P[j] % 4 = 0
                      /\ \A i \in 1 .. Len(P) : i < j => P[i] + Rec(b, P[i]) <= P[j]
           T == {j \in Nat : j \in 1 .. Len(P) /\ ~ Good(j)}
<1>1. /\ Len(P) \in Nat /\ P[1] = 0
      /\ \A i \in 1 .. Len(P) : P[i] \in Nat
      /\ \A i \in 1 .. Len(P) - 1 : Rec(b, P[i]) \in Nat /\ P[i + 1] = P[i] + Rec(b, P[i])
  BY PlacesOK, Zenon
<1>2. \A i \in 1 .. Len(P) - 1 : Rec(b, P[i]) % 4 = 0
  BY WellIs, Zenon DEF WellChained
<1> HIDE DEF P
<1>3. T = {}
  <2>1. SUFFICES ASSUME T # {} PROVE FALSE
    OBVIOUS
  <2>2. PICK j \in T : \A m \in T : j <= m
    <3>1. T \subseteq Nat
      OBVIOUS
    <3>2. QED
      BY <2>1, <3>1, FirstOf, Zenon
  <2>3. CASE j = 1
    <3>1. P[j] % 4 = 0
      BY <1>1, <2>3, SMT
    <3>2. \A i \in 1 .. Len(P) : ~ (i < j)
      BY <1>1, <2>3, SMT
    <3>3. QED
      BY <2>2, <3>1, <3>2
  <2>4. CASE j # 1
    <3> DEFINE h == j - 1
    <3>1. h \in 1 .. Len(P) - 1 /\ h \in 1 .. Len(P) /\ h + 1 = j /\ h \in Nat /\ h < j
      BY <1>1, <2>2, <2>4, SMT
    <3> HIDE DEF h
    <3>2. Good(h)
      <4>1. h \notin T
        BY <2>2, <3>1, SMT
      <4>2. QED
        BY <3>1, <4>1
    <3>3. /\ P[j] = P[h] + Rec(b, P[h]) /\ P[h] \in Nat /\ Rec(b, P[h]) \in Nat
          /\ P[h] % 4 = 0 /\ Rec(b, P[h]) % 4 = 0
      BY <1>1, <1>2, <3>1, <3>2, Zenon
    <3>4. P[j] % 4 = 0
      <4>1. \A x, y \in Nat : x % 4 = 0 /\ y % 4 = 0 => (x + y) % 4 = 0
        BY SMT
      <4>2. QED
        BY <3>3, <4>1, Zenon
    <3>5. ASSUME NEW i \in 1 .. Len(P), i < j
          PROVE  P[i] + Rec(b, P[i]) <= P[j]
      <4>1. CASE i = h
        <5>1. P[j] \in Nat
          BY <3>3, SMT
        <5>2. QED
          BY <3>3, <4>1, <5>1, SMT
      <4>2. CASE i # h
        <5>1. i < h /\ i \in 1 .. Len(P) - 1
          BY <1>1, <3>1, <3>5, <4>2, SMT
        <5>2. P[i] + Rec(b, P[i]) <= P[h] /\ P[i] \in Nat /\ Rec(b, P[i]) \in Nat
          BY <1>1, <3>2, <5>1, Zenon
        <5>3. QED
          BY <3>3, <5>2, SMT
      <4>3. QED
        BY <4>1, <4>2
    <3>6. QED
      BY <2>2, <3>4, <3>5
  <2>5. QED
    BY <2>3, <2>4
<1>4. \A j \in 1 .. Len(P) : j \in Nat
  BY <1>1, SMT
<1>5. \A j \in 1 .. Len(P) : Good(j)
  BY <1>3, <1>4
<1>6. QED
  BY <1>5 DEF P

-----------------------------------------------------------------------------
(* Blocks that are written to *)

\* Another number in an entry.
LEMMA OtherNumber ==
  /\ \A x, y, z, n :
       [[ino |-> x, typ |-> y, name |-> z] EXCEPT !.ino = n] = [ino |-> n, typ |-> y, name |-> z]
  /\ \A S, f, e, n : f = [i \in S |-> f[i]] /\ e \in S =>
       [f EXCEPT ![e].ino = n] = [i \in S |-> IF i = e THEN [f[i] EXCEPT !.ino = n] ELSE f[i]]
<1>1. \A x, y, z, n :
        [[ino |-> x, typ |-> y, name |-> z] EXCEPT !.ino = n] = [ino |-> n, typ |-> y, name |-> z]
  BY SMT
<1>2. ASSUME NEW S, NEW f, NEW e, NEW n, f = [i \in S |-> f[i]], e \in S
      PROVE  [f EXCEPT ![e].ino = n] = [i \in S |-> IF i = e THEN [f[i] EXCEPT !.ino = n] ELSE f[i]]
  BY <1>2
<1>3. QED
  BY <1>1, <1>2

\* The fields behind the number are those bytes.
LEMMA SameFields ==
  ASSUME NEW b \in DirBytes, NEW c \in DirBytes, NEW at \in Nat, Inside(b, at),
         \A p \in Position : at + 4 <= p /\ p < at + 8 + b[at + 6] => c[p] = b[p]
  PROVE  /\ Inside(c, at) /\ Rec(c, at) = Rec(b, at)
         /\ c[at + 6] = b[at + 6] /\ c[at + 7] = b[at + 7] /\ NameOf(c, at) = NameOf(b, at)
<1> DEFINE m == b[at + 6]
<1>1. m \in Nat /\ at + 8 <= BlockSize /\ at + 8 + m <= BlockSize
  BY NameIs, Zenon
<1>2. \A p \in Position : at + 4 <= p /\ p < at + 8 + m => c[p] = b[p]
  BY Zenon
<1> HIDE DEF m
<1>3. \A x \in Nat : at + 4 <= x /\ x < at + 8 + m => c[x] = b[x]
  BY <1>1, <1>2, BlockAssumption, SMT DEF Position
<1>4. c[at + 4] = b[at + 4] /\ c[at + 5] = b[at + 5] /\ c[at + 6] = b[at + 6] /\ c[at + 7] = b[at + 7]
  BY <1>1, <1>3, SMT
<1>5. Inside(c, at)
  BY <1>1, <1>4, Zenon DEF m, Inside, DIR_ENTRY_PREFIX_LEN
<1>6. Rec(c, at) = Rec(b, at)
  BY <1>4, Zenon DEF Rec
<1>7. \A i \in 1 .. m : c[at + 8 + i - 1] = b[at + 8 + i - 1]
  BY <1>1, <1>3, SMT
<1>8. NameOf(c, at) = NameOf(b, at)
  <2>1. c[at + 6] = m
    BY <1>4, Zenon DEF m
  <2>2. NameOf(c, at) = [i \in 1 .. m |-> c[at + 8 + i - 1]]
    BY <2>1, Zenon DEF NameOf
  <2>3. NameOf(b, at) = [i \in 1 .. m |-> b[at + 8 + i - 1]]
    BY Zenon DEF NameOf, m
  <2>4. QED
    BY <1>7, <2>2, <2>3, Zenon
<1>9. QED
  BY <1>4, <1>5, <1>6, <1>8, Zenon

\* The number is those four bytes.
LEMMA SameNumber ==
  ASSUME NEW b \in DirBytes, NEW c \in DirBytes, NEW at \in Nat, at + 8 <= BlockSize,
         \A p \in Position : at <= p /\ p < at + 4 => c[p] = b[p]
  PROVE  Ino(c, at) = Ino(b, at)
<1>1. c[at] = b[at] /\ c[at + 1] = b[at + 1] /\ c[at + 2] = b[at + 2] /\ c[at + 3] = b[at + 3]
  BY BlockAssumption, SMT DEF Position
<1>2. QED
  BY <1>1, ZenonT(60) DEF Ino

\* A block that differs in numbers, and behind the end of the chain, has the
\* same places.
LEMMA SameChain ==
  ASSUME NEW b \in DirBytes, NEW c \in DirBytes, WellFormed(b),
         \A i \in 1 .. Len(Places(b)) - 1 :
           /\ Ino(c, Places(b)[i]) # 0
           /\ \A p \in Position :
                Places(b)[i] + 4 <= p /\ p < Places(b)[i] + 8 + b[Places(b)[i] + 6] => c[p] = b[p],
         End(b) < BlockSize => Inside(c, End(b)) /\ Ino(c, End(b)) = 0
  PROVE  /\ Places(c) = Places(b) /\ WellFormed(c)
         /\ Meaning(c) = [i \in 1 .. Len(Places(b)) - 1 |->
                            [Meaning(b)[i] EXCEPT !.ino = Ino(c, Places(b)[i])]]
<1> DEFINE P == Places(b)
<1>1. /\ P \in Seq(0 .. BlockSize) /\ Len(P) \in Nat /\ Len(P) >= 1 /\ P[1] = 0
      /\ \A i \in 1 .. Len(P) : P[i] \in Nat /\ P[i] <= BlockSize
      /\ \A i \in 1 .. Len(P) - 1 : /\ Inside(b, P[i]) /\ P[i + 1] = P[i] + Rec(b, P[i])
                                    /\ Rec(b, P[i]) >= 1
  BY PlacesOK, Zenon
<1>2. WellChained(b, P)
  BY WellIs, Zenon
<1>3. End(b) = P[Len(P)]
  BY Zenon DEF End
<1>4. \A i \in 1 .. Len(P) - 1 : i \in 1 .. Len(P)
  BY <1>1, SMT
<1>5. ASSUME NEW i \in 1 .. Len(P) - 1
      PROVE  /\ Inside(c, P[i]) /\ Rec(c, P[i]) = Rec(b, P[i]) /\ Ino(c, P[i]) # 0
             /\ c[P[i] + 6] = b[P[i] + 6] /\ c[P[i] + 7] = b[P[i] + 7]
             /\ NameOf(c, P[i]) = NameOf(b, P[i])
  BY <1>1, <1>4, SameFields, ZenonT(60)
<1>6. Places(c) = P
  <2>1. P[Len(P)] = BlockSize \/ Ino(c, P[Len(P)]) = 0
    <3>1. P[Len(P)] <= BlockSize /\ P[Len(P)] \in Nat
      <4>1. Len(P) \in 1 .. Len(P)
        BY <1>1, SMT
      <4>2. QED
        BY <1>1, <4>1, Zenon
    <3>2. P[Len(P)] = BlockSize \/ P[Len(P)] < BlockSize
      BY <3>1, BlockAssumption, SMT
    <3>3. QED
      BY <1>3, <3>2, Zenon
  <2> HIDE DEF P
  <2>2. QED
    BY <1>1, <1>5, <2>1, PlacesMade, ZenonT(60)
<1>7. WellChained(c, P)
  BY <1>2, <1>3, <1>5, Zenon DEF WellChained
<1>8. WellFormed(c)
  BY <1>6, <1>7, WellIs, Zenon
<1>9. Meaning(c) = [i \in 1 .. Len(P) - 1 |->
                      [ino |-> Ino(c, P[i]), typ |-> c[P[i] + 7], name |-> NameOf(c, P[i])]]
  BY <1>6, MeaningIs, Zenon
<1>10. \A i \in 1 .. Len(P) - 1 :
         Meaning(b)[i] = [ino |-> Ino(b, P[i]), typ |-> b[P[i] + 7], name |-> NameOf(b, P[i])]
  BY MeaningIs, ZenonT(60)
<1>11. ASSUME NEW i \in 1 .. Len(P) - 1
       PROVE  [ino |-> Ino(c, P[i]), typ |-> c[P[i] + 7], name |-> NameOf(c, P[i])]
                = [Meaning(b)[i] EXCEPT !.ino = Ino(c, P[i])]
  <2>1. c[P[i] + 7] = b[P[i] + 7] /\ NameOf(c, P[i]) = NameOf(b, P[i])
    BY <1>5, Zenon
  <2>2. Meaning(b)[i] = [ino |-> Ino(b, P[i]), typ |-> b[P[i] + 7], name |-> NameOf(b, P[i])]
    BY <1>10, Zenon
  <2>3. [[ino |-> Ino(b, P[i]), typ |-> b[P[i] + 7], name |-> NameOf(b, P[i])] EXCEPT !.ino = Ino(c, P[i])]
          = [ino |-> Ino(c, P[i]), typ |-> b[P[i] + 7], name |-> NameOf(b, P[i])]
    BY SMT
  <2>4. QED
    BY <2>1, <2>2, <2>3, Zenon
<1>12. QED
  BY <1>6, <1>8, <1>9, <1>11, Zenon

\* A number of an inode written into a block.
LEMMA NumberPut ==
  ASSUME NEW b \in DirBytes, NEW at \in Nat, at + 4 <= BlockSize, NEW n, InodeNumber(n)
  PROVE  /\ write_number_into_block(b, at, n, 4) \in DirBytes
         /\ Ino(write_number_into_block(b, at, n, 4), at) = n
         /\ \A p \in Position : p < at \/ at + 4 <= p =>
              write_number_into_block(b, at, n, 4)[p] = b[p]
<1> DEFINE w == NumberBytes(n, 4)
           c == write_number_into_block(b, at, n, 4)
<1>1. n \in Nat /\ n \div 256 ^ 3 < 256
  BY Zenon DEF InodeNumber
<1>2. /\ w \in Seq(Byte) /\ Len(w) = 4
      /\ n = w[1] + 256 * (w[2] + 256 * (w[3] + 256 * w[4]))
  BY <1>1, NumberIs, ZenonT(60)
<1>3. c = Put(b, at, w)
  BY Zenon DEF write_number_into_block
<1> HIDE DEF w, c
<1>4. c \in DirBytes /\ \A p \in Position : c[p] = IF at <= p /\ p < at + 4 THEN w[p - at + 1] ELSE b[p]
  <2>1. at + Len(w) <= BlockSize
    BY <1>2, SMT
  <2>2. c \in DirBytes /\ \A p \in Position : c[p] = IF at <= p /\ p < at + Len(w) THEN w[p - at + 1] ELSE b[p]
    BY <1>2, <1>3, <2>1, PutIs, Zenon
  <2>3. QED
    BY <1>2, <2>2, Zenon
<1>5. c[at] = w[1] /\ c[at + 1] = w[2] /\ c[at + 2] = w[3] /\ c[at + 3] = w[4]
  <2>1. /\ at \in Position /\ at + 1 \in Position /\ at + 2 \in Position /\ at + 3 \in Position
        /\ at - at + 1 = 1 /\ (at + 1) - at + 1 = 2 /\ (at + 2) - at + 1 = 3 /\ (at + 3) - at + 1 = 4
    BY BlockAssumption, SMT DEF Position
  <2>2. QED
    BY <1>4, <2>1, SMT
<1>6. Ino(c, at) = n
  BY <1>2, <1>5, ZenonT(60) DEF Ino
<1>7. \A p \in Position : p < at \/ at + 4 <= p => c[p] = b[p]
  BY <1>4, BlockAssumption, SMT DEF Position
<1>8. QED
  BY <1>4, <1>6, <1>7, Zenon DEF c

\* Another number in an entry in use changes nothing but that number.
LEMMA Renumber ==
  ASSUME NEW b \in DirBytes, WellFormed(b), NEW e \in 1 .. Len(Places(b)) - 1,
         NEW n, InodeNumber(n), NEW c, c = write_number_into_block(b, Places(b)[e], n, 4)
  PROVE  /\ c \in DirBytes /\ Places(c) = Places(b) /\ WellFormed(c)
         /\ Meaning(c) = [Meaning(b) EXCEPT ![e].ino = n]
         /\ \A i \in 1 .. Len(Places(b)) - 1 : Rec(c, Places(b)[i]) = Rec(b, Places(b)[i])
<1> DEFINE P == Places(b)
           L == Len(Places(b)) - 1
<1>1. /\ Len(P) \in Nat /\ Len(P) >= 1
      /\ \A i \in 1 .. Len(P) : P[i] \in Nat /\ P[i] <= BlockSize
      /\ \A i \in 1 .. L : /\ Inside(b, P[i]) /\ Ino(b, P[i]) # 0 /\ P[i + 1] = P[i] + Rec(b, P[i])
                           /\ Rec(b, P[i]) \in Nat /\ P[i] + 8 <= BlockSize
  BY PlacesOK, Zenon
<1>2. \A i \in 1 .. L : Rec(b, P[i]) >= 8 + b[P[i] + 6]
  BY WellIs, Zenon DEF WellChained
<1>3. e \in 1 .. L /\ e \in 1 .. Len(P) /\ \A i \in 1 .. L : i \in 1 .. Len(P)
  BY <1>1, SMT
<1>4. /\ c \in DirBytes /\ Ino(c, P[e]) = n
      /\ \A p \in Position : p < P[e] \/ P[e] + 4 <= p => c[p] = b[p]
  <2>1. P[e] \in Nat /\ P[e] + 4 <= BlockSize
    BY <1>1, <1>3, BlockAssumption, SMT
  <2>2. c = write_number_into_block(b, P[e], n, 4)
    BY Zenon
  <2> HIDE DEF P
  <2> DEFINE d == write_number_into_block(b, P[e], n, 4)
  <2>3. /\ d \in DirBytes /\ Ino(d, P[e]) = n
        /\ \A p \in Position : p < P[e] \/ P[e] + 4 <= p => d[p] = b[p]
    <3> DEFINE at == P[e]
    <3>1. at \in Nat /\ at + 4 <= BlockSize
      BY <2>1
    <3> HIDE DEF at
    <3>2. /\ write_number_into_block(b, at, n, 4) \in DirBytes
          /\ Ino(write_number_into_block(b, at, n, 4), at) = n
          /\ \A p \in Position : p < at \/ at + 4 <= p =>
               write_number_into_block(b, at, n, 4)[p] = b[p]
      BY <3>1, NumberPut, Zenon
    <3>3. QED
      BY <3>2 DEF at
  <2>4. c = d
    BY <2>2, Zenon
  <2> HIDE DEF d
  <2>5. QED
    BY <2>3, <2>4, Zenon
<1>5. n \in Nat /\ n # 0
  BY SMT DEF InodeNumber
<1>6. \A i \in 1 .. L : b[P[i] + 6] \in Nat
  BY <1>1, <1>3, NameIs, Zenon
<1>7. \A i, j \in 1 .. Len(P) : i < j => P[i] + Rec(b, P[i]) <= P[j]
  BY Apart, Zenon
<1> HIDE DEF P, L
<1>8. ASSUME NEW i \in 1 .. L, i # e
      PROVE  P[i] + 8 + b[P[i] + 6] <= P[e] \/ P[e] + 8 <= P[i]
  <2>1. P[i] \in Nat /\ P[e] \in Nat /\ Rec(b, P[i]) \in Nat /\ Rec(b, P[e]) \in Nat /\ b[P[i] + 6] \in Nat
    BY <1>1, <1>3, <1>6, Zenon
  <2>2. Rec(b, P[i]) >= 8 + b[P[i] + 6] /\ Rec(b, P[e]) >= 8
    <3>1. Rec(b, P[i]) >= 8 + b[P[i] + 6] /\ Rec(b, P[e]) >= 8 + b[P[e] + 6] /\ b[P[e] + 6] \in Nat
      BY <1>2, <1>3, <1>6, Zenon
    <3>2. QED
      BY <2>1, <3>1, SMT
  <2>3. i < e \/ e < i
    BY <1>3, <1>8, SMT DEF L
  <2>4. P[i] + Rec(b, P[i]) <= P[e] \/ P[e] + Rec(b, P[e]) <= P[i]
    BY <1>3, <1>7, <2>3, Zenon
  <2>5. \A x, y, u, v, m \in Nat :
          u >= 8 + m /\ v >= 8 /\ (x + u <= y \/ y + v <= x) => x + 8 + m <= y \/ y + 8 <= x
    BY SMT
  <2>6. QED
    BY <2>1, <2>2, <2>4, <2>5, Zenon
<1>9. ASSUME NEW i \in 1 .. L, NEW p \in Position, P[i] + 4 <= p, p < P[i] + 8 + b[P[i] + 6]
      PROVE  c[p] = b[p]
  <2>1. p \in Nat /\ P[i] \in Nat /\ P[e] \in Nat /\ b[P[i] + 6] \in Nat
    <3>1. p \in Nat
      BY BlockAssumption, SMT DEF Position
    <3>2. QED
      BY <1>1, <1>3, <1>6, <3>1, Zenon
  <2>2. p < P[e] \/ P[e] + 4 <= p
    <3>1. CASE i = e
      BY <1>9, <3>1, Zenon
    <3>2. CASE i # e
      <4>1. P[i] + 8 + b[P[i] + 6] <= P[e] \/ P[e] + 8 <= P[i]
        BY <1>8, <3>2, Zenon
      <4>2. \A x, y, m, q \in Nat :
              (x + 8 + m <= y \/ y + 8 <= x) /\ x + 4 <= q /\ q < x + 8 + m => q < y \/ y + 4 <= q
        BY SMT
      <4>3. QED
        BY <1>9, <2>1, <4>1, <4>2, Zenon
    <3>3. QED
      BY <3>1, <3>2
  <2>3. QED
    BY <1>4, <2>2, Zenon
<1>10. ASSUME NEW i \in 1 .. L
       PROVE  Ino(c, P[i]) = IF i = e THEN n ELSE Ino(b, P[i])
  <2>1. CASE i = e
    BY <1>4, <2>1, Zenon
  <2>2. CASE i # e
    <3>1. P[i] \in Nat /\ P[e] \in Nat /\ b[P[i] + 6] \in Nat /\ P[i] + 8 <= BlockSize
      BY <1>1, <1>3, <1>6, Zenon
    <3>2. \A p \in Position : P[i] <= p /\ p < P[i] + 4 => c[p] = b[p]
      <4>1. P[i] + 8 + b[P[i] + 6] <= P[e] \/ P[e] + 8 <= P[i]
        BY <1>8, <2>2, Zenon
      <4>2. \A x, y, m, q \in Nat :
              (x + 8 + m <= y \/ y + 8 <= x) /\ x <= q /\ q < x + 4 => q < y \/ y + 4 <= q
        BY SMT
      <4>3. \A p \in Position : p \in Nat
        BY BlockAssumption, SMT DEF Position
      <4>4. QED
        BY <1>4, <3>1, <4>1, <4>2, <4>3, ZenonT(60)
    <3>3. QED
      BY <1>4, <2>2, <3>1, <3>2, SameNumber, Zenon
  <2>3. QED
    BY <2>1, <2>2
<1>11. ASSUME End(b) < BlockSize
       PROVE  Inside(c, End(b)) /\ Ino(c, End(b)) = 0
  <2>1. Inside(b, End(b)) /\ Ino(b, End(b)) = 0 /\ End(b) = P[Len(P)]
    BY <1>11, WellIs, Zenon DEF WellChained, End, P
  <2>2. /\ End(b) \in Nat /\ P[e] \in Nat /\ P[e] + 8 <= End(b)
    <3>1. Len(P) \in 1 .. Len(P) /\ e < Len(P)
      BY <1>1, SMT DEF P
    <3>2. /\ P[Len(P)] \in Nat /\ P[e] \in Nat /\ Rec(b, P[e]) \in Nat /\ b[P[e] + 6] \in Nat
          /\ P[e] + Rec(b, P[e]) <= P[Len(P)] /\ Rec(b, P[e]) >= 8 + b[P[e] + 6]
      BY <1>1, <1>2, <1>3, <1>6, <1>7, <3>1, Zenon
    <3>3. QED
      BY <2>1, <3>2, SMTT(30)
  <2>3. \A p \in Position : End(b) <= p => c[p] = b[p]
    <3>1. \A p \in Position : End(b) <= p => P[e] + 4 <= p
      BY <2>2, BlockAssumption, SMT DEF Position
    <3>2. QED
      BY <1>4, <3>1, Zenon
  <2>4. Inside(c, End(b))
    <3>1. \A p \in Position : End(b) + 4 <= p => End(b) <= p
      BY <2>2, BlockAssumption, SMT DEF Position
    <3>2. QED
      BY <1>4, <2>1, <2>2, <2>3, <3>1, SameFields, ZenonT(60)
  <2>5. End(b) + 8 <= BlockSize
    BY <2>1, Zenon DEF Inside, DIR_ENTRY_PREFIX_LEN
  <2>6. QED
    BY <1>4, <2>1, <2>2, <2>3, <2>4, <2>5, SameNumber, Zenon
<1>12. /\ Places(c) = P /\ WellFormed(c)
       /\ Meaning(c) = [i \in 1 .. L |-> [Meaning(b)[i] EXCEPT !.ino = Ino(c, P[i])]]
  <2>1. \A i \in 1 .. L : Ino(c, P[i]) # 0
    BY <1>1, <1>5, <1>10, Zenon
  <2>2. \A i \in 1 .. Len(Places(b)) - 1 :
          /\ Ino(c, Places(b)[i]) # 0
          /\ \A p \in Position :
               Places(b)[i] + 4 <= p /\ p < Places(b)[i] + 8 + b[Places(b)[i] + 6] => c[p] = b[p]
    BY <1>9, <2>1, Zenon DEF P, L
  <2>3. End(b) < BlockSize => Inside(c, End(b)) /\ Ino(c, End(b)) = 0
    BY <1>11
  <2>4. /\ Places(c) = Places(b) /\ WellFormed(c)
        /\ Meaning(c) = [i \in 1 .. Len(Places(b)) - 1 |->
                           [Meaning(b)[i] EXCEPT !.ino = Ino(c, Places(b)[i])]]
    BY <1>4, <2>2, <2>3, SameChain, Zenon
  <2>5. QED
    BY <2>4, Zenon DEF P, L
<1>13. Meaning(c) = [Meaning(b) EXCEPT ![e].ino = n]
  <2>1. /\ DOMAIN Meaning(b) = 1 .. L
        /\ \A i \in 1 .. L : Meaning(b)[i] =
             [ino |-> Ino(b, P[i]), typ |-> b[P[i] + 7], name |-> NameOf(b, P[i])]
    BY MeaningIs, Zenon DEF P, L
  <2>2. ASSUME NEW i \in 1 .. L, i # e
        PROVE  [Meaning(b)[i] EXCEPT !.ino = Ino(c, P[i])] = Meaning(b)[i]
    <3>1. Ino(c, P[i]) = Ino(b, P[i])
      BY <1>10, <2>2, Zenon
    <3>2. Meaning(b)[i] = [ino |-> Ino(b, P[i]), typ |-> b[P[i] + 7], name |-> NameOf(b, P[i])]
      BY <2>1, Zenon
    <3>3. QED
      BY <3>1, <3>2, SMT
  <2>3. Ino(c, P[e]) = n
    BY <1>4, Zenon
  <2>4. Meaning(b) = [i \in 1 .. L |-> Meaning(b)[i]]
    BY MeaningIs, Zenon DEF P, L
  <2>5. Meaning(c) = [i \in 1 .. L |-> IF i = e THEN [Meaning(b)[i] EXCEPT !.ino = n] ELSE Meaning(b)[i]]
    BY <1>12, <2>2, <2>3, ZenonT(60)
  <2>6. QED
    BY <1>3, <2>4, <2>5, OtherNumber, Zenon
<1>14. \A i \in 1 .. L : Rec(c, P[i]) = Rec(b, P[i])
  <2>1. ASSUME NEW i \in 1 .. L
        PROVE  Rec(c, P[i]) = Rec(b, P[i])
    <3>1. P[i] \in Nat /\ Inside(b, P[i])
      BY <1>1, <1>3, Zenon
    <3>2. \A p \in Position : P[i] + 4 <= p /\ p < P[i] + 8 + b[P[i] + 6] => c[p] = b[p]
      BY <1>9, <2>1, Zenon
    <3>3. QED
      BY <1>4, <3>1, <3>2, SameFields, Zenon
  <2>2. QED
    BY <2>1
<1>15. QED
  BY <1>4, <1>12, <1>13, <1>14, Zenon DEF P, L

-----------------------------------------------------------------------------
(* A new entry *)

\* A length made a multiple of 4.
LEMMA PadIs ==
  ASSUME NEW n \in Nat
  PROVE  /\ pad_to_4_bytes(n) \in Nat /\ pad_to_4_bytes(n) % 4 = 0
         /\ n <= pad_to_4_bytes(n) /\ pad_to_4_bytes(n) < n + 4
BY SMT DEF pad_to_4_bytes

\* The bytes of an entry, and where its fields are among them.
EntryOf(x, y, m, t, nm) == x \o y \o <<m, t>> \o nm \o <<0>>

EntryIn(w, x, y, m, t, nm) ==
  /\ w \in Seq(Byte) /\ Len(w) = 9 + m
  /\ w[1] = x[1] /\ w[2] = x[2] /\ w[3] = x[3] /\ w[4] = x[4]
  /\ w[5] = y[1] /\ w[6] = y[2] /\ w[7] = m /\ w[8] = t
  /\ \A i \in 1 .. m : w[8 + i] = nm[i]

\* They are there.
LEMMA EntryBytes ==
  ASSUME NEW x \in Seq(Byte), Len(x) = 4, NEW y \in Seq(Byte), Len(y) = 2,
         NEW m \in Byte, NEW t \in Byte, NEW nm \in Seq(Byte), Len(nm) = m
  PROVE  EntryIn(EntryOf(x, y, m, t, nm), x, y, m, t, nm)
<1> DEFINE h == <<m, t>>
           z == <<0>>
           xy == x \o y
           xyh == xy \o h
           all == xyh \o nm
           w == all \o z
<1>1. m \in Nat /\ 0 \in Byte
  <2>1. m \in Int /\ 0 <= m
    BY ByteIs, Zenon
  <2>2. 0 \in Int /\ 0 <= 0 /\ 0 <= 255
    BY SMT
  <2>3. 0 \in Byte
    BY <2>2, ByteIs, Zenon
  <2>4. QED
    BY <2>1, <2>3, SMT
<1>2. h \in Seq(Byte) /\ Len(h) = 2 /\ h[1] = m /\ h[2] = t /\ z \in Seq(Byte) /\ Len(z) = 1
  BY <1>1, SMT
<1> HIDE DEF h, z
<1>3. /\ xy \in Seq(Byte) /\ Len(xy) = 6
      /\ \A i \in 1 .. 6 : xy[i] = IF i <= 4 THEN x[i] ELSE y[i - 4]
  <2>1. xy \in Seq(Byte) /\ Len(xy) = Len(x) + Len(y)
        /\ \A i \in 1 .. Len(x) + Len(y) : xy[i] = IF i <= Len(x) THEN x[i] ELSE y[i - Len(x)]
    BY ConcatProperties, Zenon
  <2> HIDE DEF xy
  <2>2. QED
    BY <2>1, SMT
<1> HIDE DEF xy
<1>4. /\ xyh \in Seq(Byte) /\ Len(xyh) = 8
      /\ \A i \in 1 .. 8 : xyh[i] = IF i <= 6 THEN xy[i] ELSE h[i - 6]
  <2>1. xyh \in Seq(Byte) /\ Len(xyh) = Len(xy) + Len(h)
        /\ \A i \in 1 .. Len(xy) + Len(h) : xyh[i] = IF i <= Len(xy) THEN xy[i] ELSE h[i - Len(xy)]
    BY <1>2, <1>3, ConcatProperties, Zenon
  <2> HIDE DEF xyh
  <2>2. QED
    BY <1>2, <1>3, <2>1, SMT
<1> HIDE DEF xyh
<1>5. /\ all \in Seq(Byte) /\ Len(all) = 8 + m
      /\ \A i \in 1 .. 8 + m : all[i] = IF i <= 8 THEN xyh[i] ELSE nm[i - 8]
  <2>1. all \in Seq(Byte) /\ Len(all) = Len(xyh) + Len(nm)
        /\ \A i \in 1 .. Len(xyh) + Len(nm) : all[i] = IF i <= Len(xyh) THEN xyh[i] ELSE nm[i - Len(xyh)]
    BY <1>4, ConcatProperties, Zenon
  <2> HIDE DEF all
  <2>2. QED
    BY <1>1, <1>4, <2>1, SMT
<1> HIDE DEF all
<1>6. /\ w \in Seq(Byte) /\ Len(w) = 9 + m
      /\ \A i \in 1 .. 8 + m : w[i] = all[i]
  <2>1. w \in Seq(Byte) /\ Len(w) = Len(all) + Len(z)
        /\ \A i \in 1 .. Len(all) + Len(z) : w[i] = IF i <= Len(all) THEN all[i] ELSE z[i - Len(all)]
    BY <1>2, <1>5, ConcatProperties, Zenon
  <2> HIDE DEF w
  <2>2. Len(all) = 8 + m /\ Len(z) = 1
    BY <1>2, <1>5
  <2>3. \A i \in 1 .. 8 + m : i \in 1 .. Len(all) + Len(z) /\ i <= Len(all)
    BY <1>1, <2>2, SMT
  <2>4. Len(w) = 9 + m
    BY <1>1, <2>1, <2>2, SMT
  <2>5. QED
    BY <2>1, <2>3, <2>4, Zenon
<1> HIDE DEF w
<1>7. \A i \in 1 .. 8 : w[i] = xyh[i]
  BY <1>1, <1>5, <1>6, SMT
<1>8. \A i \in 1 .. m : w[8 + i] = nm[i]
  <2>1. ASSUME NEW i \in 1 .. m
        PROVE  w[8 + i] = nm[i]
    <3>1. 8 + i \in 1 .. 8 + m /\ ~ (8 + i <= 8) /\ (8 + i) - 8 = i
      BY <1>1, SMT
    <3>2. w[8 + i] = all[8 + i] /\ all[8 + i] = nm[(8 + i) - 8]
      BY <1>5, <1>6, <3>1, Zenon
    <3>3. QED
      BY <3>1, <3>2, Zenon
  <2>2. QED
    BY <2>1
<1>9. /\ w[1] = xy[1] /\ w[2] = xy[2] /\ w[3] = xy[3] /\ w[4] = xy[4]
      /\ w[5] = xy[5] /\ w[6] = xy[6] /\ w[7] = h[1] /\ w[8] = h[2]
  BY <1>4, <1>7, SMT
<1>10. /\ xy[1] = x[1] /\ xy[2] = x[2] /\ xy[3] = x[3] /\ xy[4] = x[4] /\ xy[5] = y[1] /\ xy[6] = y[2]
  BY <1>3, SMT
<1>11. /\ w \in Seq(Byte) /\ Len(w) = 9 + m
       /\ w[1] = x[1] /\ w[2] = x[2] /\ w[3] = x[3] /\ w[4] = x[4]
       /\ w[5] = y[1] /\ w[6] = y[2] /\ w[7] = m /\ w[8] = t
       /\ \A i \in 1 .. m : w[8 + i] = nm[i]
  BY <1>2, <1>6, <1>8, <1>9, <1>10, Zenon
<1>12. w = EntryOf(x, y, m, t, nm)
  BY DEF w, all, xyh, xy, h, z, EntryOf
<1>13. EntryIn(w, x, y, m, t, nm)
  BY <1>11, Zenon DEF EntryIn
<1>14. QED
  BY <1>12, <1>13, Zenon

\* Those bytes where they are put.
LEMMA BytesPut ==
  ASSUME NEW b \in DirBytes, NEW at \in Nat, NEW m \in Nat, at + 9 + m <= BlockSize,
         NEW w \in Seq(Byte), Len(w) = 9 + m
  PROVE  \A c : c = Put(b, at, w) =>
           /\ c \in DirBytes /\ \A p \in Position : p < at => c[p] = b[p]
           /\ c[at] = w[1] /\ c[at + 1] = w[2] /\ c[at + 2] = w[3] /\ c[at + 3] = w[4]
           /\ c[at + 4] = w[5] /\ c[at + 5] = w[6] /\ c[at + 6] = w[7] /\ c[at + 7] = w[8]
           /\ \A i \in 1 .. m : c[at + 8 + i - 1] = w[8 + i]
<1> DEFINE c == Put(b, at, w)
<1>1. at + Len(w) <= BlockSize
  BY SMT
<1>2. c \in DirBytes /\ \A p \in Position : c[p] = IF at <= p /\ p < at + Len(w) THEN w[p - at + 1] ELSE b[p]
  BY <1>1, PutIs, Zenon
<1> HIDE DEF c
<1>3. c \in DirBytes /\ \A p \in Position : c[p] = IF at <= p /\ p < at + 9 + m THEN w[p - at + 1] ELSE b[p]
  <2>1. at + Len(w) = at + 9 + m
    BY SMT
  <2>2. QED
    BY <1>2, <2>1, Zenon
<1>4. /\ c[at] = w[1] /\ c[at + 1] = w[2] /\ c[at + 2] = w[3] /\ c[at + 3] = w[4]
      /\ c[at + 4] = w[5] /\ c[at + 5] = w[6] /\ c[at + 6] = w[7] /\ c[at + 7] = w[8]
  <2>1. \A q \in 0 .. 7 : at + q \in Position /\ at <= at + q /\ at + q < at + 9 + m /\ (at + q) - at + 1 = q + 1
    BY BlockAssumption, SMT DEF Position
  <2>2. \A q \in 0 .. 7 : c[at + q] = w[q + 1]
    BY <1>3, <2>1, Zenon
  <2>3. QED
    BY <2>2, SMT
<1>5. \A i \in 1 .. m : c[at + 8 + i - 1] = w[8 + i]
  <2>1. ASSUME NEW i \in 1 .. m
        PROVE  c[at + 8 + i - 1] = w[8 + i]
    <3>1. /\ at + 8 + i - 1 \in Position /\ at <= at + 8 + i - 1 /\ at + 8 + i - 1 < at + 9 + m
          /\ (at + 8 + i - 1) - at + 1 = 8 + i
      BY BlockAssumption, SMT DEF Position
    <3>2. QED
      BY <1>3, <3>1, Zenon
  <2>2. QED
    BY <2>1
<1>6. \A p \in Position : p < at => c[p] = b[p]
  <2>1. \A p \in Position : p < at => ~ (at <= p)
    BY BlockAssumption, SMT DEF Position
  <2>2. QED
    BY <1>3, <2>1, Zenon
<1>7. QED
  BY <1>3, <1>4, <1>5, <1>6 DEF c

\* What write_new_entry leaves.
LEMMA EntryPut ==
  ASSUME NEW b \in DirBytes, NEW at \in Nat, NEW e, InodeNumber(e.ino), e.typ \in Byte,
         e.name \in Seq(Byte), Len(e.name) \in Byte, at + 9 + Len(e.name) <= BlockSize
  PROVE  \A c : c = write_new_entry(e, b, at) =>
           /\ c \in DirBytes /\ \A p \in Position : p < at => c[p] = b[p]
           /\ Inside(c, at) /\ Ino(c, at) = e.ino /\ Rec(c, at) = BlockSize - at
           /\ c[at + 6] = Len(e.name) /\ c[at + 7] = e.typ /\ NameOf(c, at) = e.name
<1> DEFINE n == e.ino
           nm == e.name
           t == e.typ
           m == Len(e.name)
           x == NumberBytes(n, 4)
           l == BlockSize - at
           y == NumberBytes(l, 2)
           w == x \o y \o <<m, t>> \o nm \o <<0>>
           c == write_new_entry(e, b, at)
<1>1. n \in Nat /\ n \div 256 ^ 3 < 256
  BY Zenon DEF InodeNumber
<1>2. /\ m \in Nat /\ m \in Byte /\ t \in Byte /\ nm \in Seq(Byte) /\ Len(nm) = m
      /\ nm = [i \in 1 .. m |-> nm[i]] /\ at + 9 + m <= BlockSize
  BY LenProperties
<1>3. c = Put(b, at, w)
  BY Zenon DEF write_new_entry
<1> HIDE DEF n, nm, t, m, c
<1>4. l \in Nat /\ l \div 256 < 256
  BY <1>2, BlockAssumption, SMTT(30)
<1>5. /\ x \in Seq(Byte) /\ Len(x) = 4
      /\ n = x[1] + 256 * (x[2] + 256 * (x[3] + 256 * x[4]))
  BY <1>1, NumberIs, ZenonT(60)
<1> HIDE DEF l
<1>6. y \in Seq(Byte) /\ Len(y) = 2 /\ l = y[1] + 256 * y[2]
  BY <1>4, LengthIs, Zenon
<1> HIDE DEF x, y
<1>7. /\ w \in Seq(Byte) /\ Len(w) = 9 + m
      /\ w[1] = x[1] /\ w[2] = x[2] /\ w[3] = x[3] /\ w[4] = x[4]
      /\ w[5] = y[1] /\ w[6] = y[2] /\ w[7] = m /\ w[8] = t
      /\ \A i \in 1 .. m : w[8 + i] = nm[i]
  <2>1. /\ x \in Seq(Byte) /\ Len(x) = 4 /\ y \in Seq(Byte) /\ Len(y) = 2
        /\ m \in Byte /\ t \in Byte /\ nm \in Seq(Byte) /\ Len(nm) = m
    BY <1>2, <1>5, <1>6, Zenon
  <2>2. w = EntryOf(x, y, m, t, nm)
    BY DEF EntryOf
  <2> HIDE DEF w
  <2>3. EntryIn(w, x, y, m, t, nm)
    BY <2>1, <2>2, EntryBytes, Zenon
  <2>4. QED
    BY <2>3, Zenon DEF EntryIn
<1> HIDE DEF w
<1>8. /\ c \in DirBytes /\ \A p \in Position : p < at => c[p] = b[p]
      /\ c[at] = w[1] /\ c[at + 1] = w[2] /\ c[at + 2] = w[3] /\ c[at + 3] = w[4]
      /\ c[at + 4] = w[5] /\ c[at + 5] = w[6] /\ c[at + 6] = w[7] /\ c[at + 7] = w[8]
      /\ \A i \in 1 .. m : c[at + 8 + i - 1] = w[8 + i]
  <2>1. w \in Seq(Byte) /\ Len(w) = 9 + m /\ m \in Nat /\ at + 9 + m <= BlockSize
    BY <1>2, <1>7
  <2>2. \A d : d = Put(b, at, w) =>
          /\ d \in DirBytes /\ \A p \in Position : p < at => d[p] = b[p]
          /\ d[at] = w[1] /\ d[at + 1] = w[2] /\ d[at + 2] = w[3] /\ d[at + 3] = w[4]
          /\ d[at + 4] = w[5] /\ d[at + 5] = w[6] /\ d[at + 6] = w[7] /\ d[at + 7] = w[8]
          /\ \A i \in 1 .. m : d[at + 8 + i - 1] = w[8 + i]
    BY <2>1, BytesPut, ZenonT(60)
  <2>3. QED
    BY <1>3, <2>2, Zenon
<1>9. /\ c[at] = x[1] /\ c[at + 1] = x[2] /\ c[at + 2] = x[3] /\ c[at + 3] = x[4]
      /\ c[at + 4] = y[1] /\ c[at + 5] = y[2] /\ c[at + 6] = m /\ c[at + 7] = t
      /\ \A i \in 1 .. m : c[at + 8 + i - 1] = nm[i]
  BY <1>7, <1>8, Zenon
<1>10. Ino(c, at) = n
  BY <1>5, <1>9, ZenonT(60) DEF Ino
<1>11. Rec(c, at) = l
  BY <1>6, <1>9, Zenon DEF Rec
<1>12. NameOf(c, at) = nm
  <2>1. NameOf(c, at) = [i \in 1 .. m |-> c[at + 8 + i - 1]]
    BY <1>9, Zenon DEF NameOf
  <2>2. QED
    BY <1>2, <1>9, <2>1, Zenon
<1>13. Inside(c, at)
  <2>1. at + 8 <= BlockSize /\ at + 8 + m <= BlockSize
    BY <1>2, BlockAssumption, SMTT(30)
  <2>2. QED
    BY <1>9, <2>1, Zenon DEF Inside, DIR_ENTRY_PREFIX_LEN
<1>14. QED
  BY <1>8, <1>9, <1>10, <1>11, <1>12, <1>13 DEF n, nm, t, m, l, c

\* A length written into an entry.
LEMMA LengthPut ==
  ASSUME NEW b \in DirBytes, NEW at \in Nat, at + 6 <= BlockSize,
         NEW n \in Nat, n < 512
  PROVE  \A c : c = write_number_into_block(b, at + 4, n, 2) =>
           /\ c \in DirBytes /\ Rec(c, at) = n /\ c[at + 5] \in Nat /\ c[at + 5] <= 1
           /\ \A p \in Position : p < at + 4 \/ at + 6 <= p => c[p] = b[p]
<1> DEFINE w == NumberBytes(n, 2)
           a == at + 4
           c == write_number_into_block(b, a, n, 2)
<1>1. n \div 256 < 256
  BY SMT
<1>2. w \in Seq(Byte) /\ Len(w) = 2 /\ n = w[1] + 256 * w[2]
  BY <1>1, LengthIs, Zenon
<1>3. c = Put(b, a, w) /\ a \in Nat
  <2>1. a \in Nat
    BY SMT
  <2>2. QED
    BY <2>1, Zenon DEF write_number_into_block
<1> HIDE DEF w, c
<1>4. c \in DirBytes /\ \A p \in Position : c[p] = IF a <= p /\ p < a + 2 THEN w[p - a + 1] ELSE b[p]
  <2>1. a + Len(w) <= BlockSize
    BY <1>2, SMT
  <2>2. a \in Nat
    BY <1>3
  <2> HIDE DEF a
  <2>3. c \in DirBytes /\ \A p \in Position : c[p] = IF a <= p /\ p < a + Len(w) THEN w[p - a + 1] ELSE b[p]
    <3>1. /\ Put(b, a, w) \in DirBytes
          /\ \A p \in Position :
               Put(b, a, w)[p] = IF a <= p /\ p < a + Len(w) THEN w[p - a + 1] ELSE b[p]
      <4>1. w \in Seq(Byte) /\ a + Len(w) <= BlockSize /\ a \in Nat
        BY <1>2, <2>1, <2>2
      <4>2. QED
        BY <4>1, PutIs, ZenonT(60)
    <3>2. QED
      BY <1>3, <3>1, Zenon
  <2>4. QED
    BY <1>2, <2>3, Zenon
<1>5. c[at + 4] = w[1] /\ c[at + 5] = w[2]
  <2>1. /\ at + 4 \in Position /\ at + 5 \in Position
        /\ (at + 4) - a + 1 = 1 /\ (at + 5) - a + 1 = 2
        /\ a <= at + 4 /\ at + 4 < a + 2 /\ a <= at + 5 /\ at + 5 < a + 2
    BY BlockAssumption, SMT DEF Position
  <2> HIDE DEF a
  <2>2. QED
    BY <1>4, <2>1, SMT
<1>6. Rec(c, at) = n
  BY <1>2, <1>5, Zenon DEF Rec
<1>7. w[2] \in Nat /\ w[2] <= 1
  <2>1. w[1] \in Byte /\ w[2] \in Byte
    <3>1. 1 \in 1 .. Len(w) /\ 2 \in 1 .. Len(w)
      BY <1>2, SMT
    <3>2. QED
      BY <1>2, <3>1, ElementOfSeq, Zenon
  <2>2. w[1] \in Int /\ 0 <= w[1] /\ w[2] \in Int /\ 0 <= w[2]
    BY <2>1, ByteIs, ZenonT(60)
  <2>3. QED
    BY <1>2, <2>2, SMT
<1>8. \A p \in Position : p < at + 4 \/ at + 6 <= p => c[p] = b[p]
  BY <1>4, BlockAssumption, SMT DEF Position
<1>9. QED
  BY <1>4, <1>5, <1>6, <1>7, <1>8, Zenon DEF c

-----------------------------------------------------------------------------
(* The block a new entry is written into *)

\* The name of an entry stays with its bytes.
LEMMA SameName ==
  ASSUME NEW b \in DirBytes, NEW c \in DirBytes, NEW at \in Nat, Inside(b, at),
         \A p \in Position : at + 6 <= p /\ p < at + 8 + b[at + 6] => c[p] = b[p]
  PROVE  /\ Inside(c, at)
         /\ c[at + 6] = b[at + 6] /\ c[at + 7] = b[at + 7] /\ NameOf(c, at) = NameOf(b, at)
<1> DEFINE m == b[at + 6]
<1>1. m \in Nat /\ at + 8 <= BlockSize /\ at + 8 + m <= BlockSize
  BY NameIs, Zenon
<1>2. \A p \in Position : at + 6 <= p /\ p < at + 8 + m => c[p] = b[p]
  BY Zenon
<1> HIDE DEF m
<1>3. \A x \in Nat : at + 6 <= x /\ x < at + 8 + m => c[x] = b[x]
  BY <1>1, <1>2, BlockAssumption, SMT DEF Position
<1>4. c[at + 6] = b[at + 6] /\ c[at + 7] = b[at + 7]
  BY <1>1, <1>3, SMT
<1>5. Inside(c, at)
  BY <1>1, <1>4, Zenon DEF m, Inside, DIR_ENTRY_PREFIX_LEN
<1>6. \A i \in 1 .. m : c[at + 8 + i - 1] = b[at + 8 + i - 1]
  BY <1>1, <1>3, SMT
<1>7. NameOf(c, at) = NameOf(b, at)
  <2>1. c[at + 6] = m
    BY <1>4, Zenon DEF m
  <2>2. NameOf(c, at) = [i \in 1 .. m |-> c[at + 8 + i - 1]]
    BY <2>1, Zenon DEF NameOf
  <2>3. NameOf(b, at) = [i \in 1 .. m |-> b[at + 8 + i - 1]]
    BY Zenon DEF NameOf, m
  <2>4. QED
    BY <1>6, <2>2, <2>3, Zenon
<1>8. QED
  BY <1>4, <1>5, <1>7, Zenon

\* An entry in use ends where the chain goes on, or before it.
LEMMA EntriesEnd ==
  ASSUME NEW b \in DirBytes, WellFormed(b), NEW i \in 1 .. Len(Places(b)) - 1,
         NEW j \in 1 .. Len(Places(b)), i < j
  PROVE  /\ Places(b)[i] \in Nat /\ b[Places(b)[i] + 6] \in Nat
         /\ Places(b)[j] \in Nat /\ Places(b)[j] <= BlockSize
         /\ Places(b)[i] + 8 + b[Places(b)[i] + 6] <= Places(b)[j]
<1> DEFINE P == Places(b)
           m == b[P[i] + 6]
<1>1. i \in 1 .. Len(P)
  BY PlacesOK, SMT
<1>2. /\ P[i] \in Nat /\ P[j] \in Nat /\ P[j] <= BlockSize
      /\ Inside(b, P[i]) /\ Rec(b, P[i]) \in Nat
  BY <1>1, PlacesOK, Zenon
<1>3. m \in Nat
  BY <1>2, NameIs, Zenon
<1>4. Rec(b, P[i]) >= 8 + m
  BY WellIs, Zenon DEF WellChained
<1>5. P[i] + Rec(b, P[i]) <= P[j]
  BY <1>1, Apart, Zenon
<1>6. \A x, y, u, v \in Nat : u >= 8 + v /\ x + u <= y => x + 8 + v <= y
  BY SMT
<1>7. QED
  BY <1>2, <1>3, <1>4, <1>5, <1>6, Zenon

\* What is written behind the first bytes of an unused entry is not read.
LEMMA Untouched ==
  ASSUME NEW b \in DirBytes, NEW c \in DirBytes, WellFormed(b), Unused(b),
         \A p \in Position : p < End(b) + 4 => c[p] = b[p],
         Inside(c, End(b))
  PROVE  Places(c) = Places(b) /\ WellFormed(c) /\ Meaning(c) = Meaning(b)
<1> DEFINE P == Places(b)
           L == Len(Places(b)) - 1
<1>1. /\ Len(P) \in Nat /\ Len(P) >= 1 /\ End(b) = P[Len(P)]
      /\ \A i \in 1 .. L : Ino(b, P[i]) # 0 /\ P[i] + 8 <= BlockSize
  BY PlacesOK, Zenon DEF End
<1>2. End(b) \in Nat /\ End(b) + 8 <= BlockSize /\ Ino(b, End(b)) = 0
  <2>1. Len(P) \in 1 .. Len(P)
    BY <1>1, SMT
  <2>2. P[Len(P)] \in Nat
    BY <2>1, PlacesOK, Zenon
  <2>3. Inside(b, End(b)) /\ Ino(b, End(b)) = 0
    BY WellIs, Zenon DEF WellChained, Unused, End
  <2>4. QED
    BY <1>1, <2>2, <2>3, Zenon DEF Inside, DIR_ENTRY_PREFIX_LEN
<1>3. ASSUME NEW i \in 1 .. L
      PROVE  /\ P[i] \in Nat /\ b[P[i] + 6] \in Nat
             /\ P[i] + 8 + b[P[i] + 6] <= End(b)
  <2>1. Len(P) \in 1 .. Len(P) /\ i < Len(P)
    BY <1>1, SMT
  <2>2. QED
    BY <1>1, <2>1, EntriesEnd, Zenon
<1> HIDE DEF P, L
<1>4. ASSUME NEW i \in 1 .. L, NEW p \in Position, p < P[i] + 8 + b[P[i] + 6]
      PROVE  c[p] = b[p]
  <2>1. p \in Nat /\ P[i] \in Nat /\ b[P[i] + 6] \in Nat /\ P[i] + 8 + b[P[i] + 6] <= End(b)
    BY <1>3, BlockAssumption, SMT DEF Position
  <2>2. \A x, y, u, v \in Nat : u < x + 8 + v /\ x + 8 + v <= y => u < y + 4
    BY SMT
  <2>3. QED
    BY <1>2, <1>4, <2>1, <2>2, Zenon
<1>5. ASSUME NEW i \in 1 .. L
      PROVE  Ino(c, P[i]) = Ino(b, P[i])
  <2>1. P[i] \in Nat /\ P[i] + 8 <= BlockSize /\ b[P[i] + 6] \in Nat
    BY <1>1, <1>3, Zenon
  <2>2. \A p \in Position : P[i] <= p /\ p < P[i] + 4 => c[p] = b[p]
    <3>1. \A p \in Position : p < P[i] + 4 => p < P[i] + 8 + b[P[i] + 6]
      BY <2>1, BlockAssumption, SMTT(30) DEF Position
    <3>2. QED
      BY <1>4, <3>1, Zenon
  <2>3. QED
    BY <2>1, <2>2, SameNumber, Zenon
<1>6. Ino(c, End(b)) = 0
  <2>1. \A p \in Position : End(b) <= p /\ p < End(b) + 4 => c[p] = b[p]
    OBVIOUS
  <2>2. Ino(c, End(b)) = Ino(b, End(b))
    BY <1>2, <2>1, SameNumber, Zenon
  <2>3. QED
    BY <1>2, <2>2, Zenon
<1>7. /\ Places(c) = P /\ WellFormed(c)
      /\ Meaning(c) = [i \in 1 .. L |-> [Meaning(b)[i] EXCEPT !.ino = Ino(c, P[i])]]
  <2>1. \A i \in 1 .. Len(Places(b)) - 1 :
          /\ Ino(c, Places(b)[i]) # 0
          /\ \A p \in Position :
               Places(b)[i] + 4 <= p /\ p < Places(b)[i] + 8 + b[Places(b)[i] + 6] => c[p] = b[p]
    BY <1>1, <1>4, <1>5, Zenon DEF P, L
  <2>2. End(b) < BlockSize => Inside(c, End(b)) /\ Ino(c, End(b)) = 0
    BY <1>6
  <2>3. /\ Places(c) = Places(b) /\ WellFormed(c)
        /\ Meaning(c) = [i \in 1 .. Len(Places(b)) - 1 |->
                           [Meaning(b)[i] EXCEPT !.ino = Ino(c, Places(b)[i])]]
    BY <2>1, <2>2, SameChain, Zenon
  <2>4. QED
    BY <2>3, Zenon DEF P, L
<1>8. Meaning(c) = Meaning(b)
  <2>1. Meaning(b) = [i \in 1 .. L |-> [ino |-> Ino(b, P[i]), typ |-> b[P[i] + 7], name |-> NameOf(b, P[i])]]
    BY MeaningIs, Zenon DEF P, L
  <2>2. ASSUME NEW i \in 1 .. L
        PROVE  [Meaning(b)[i] EXCEPT !.ino = Ino(c, P[i])] = Meaning(b)[i]
    <3>1. Meaning(b)[i] = [ino |-> Ino(b, P[i]), typ |-> b[P[i] + 7], name |-> NameOf(b, P[i])]
      BY <2>1, Zenon
    <3>2. Ino(c, P[i]) = Ino(b, P[i])
      BY <1>5
    <3>3. QED
      BY <3>1, <3>2, SMT
  <2>3. Meaning(b) = [i \in 1 .. L |-> Meaning(b)[i]]
    BY <2>1, Zenon
  <2>4. QED
    BY <1>7, <2>2, <2>3, Zenon
<1>9. QED
  BY <1>7, <1>8, Zenon DEF P

\* Append by its elements.
LEMMA AppendIs ==
  ASSUME NEW n \in Nat, NEW f, f = [i \in 1 .. n |-> f[i]], NEW e
  PROVE  Append(f, e) = [i \in 1 .. n + 1 |-> IF i <= n THEN f[i] ELSE e]
<1> DEFINE S == {f[i] : i \in 1 .. n} \cup {e}
           g == Append(f, e)
<1>1. f \in [1 .. n -> S] /\ e \in S
  <2>1. \A i \in 1 .. n : f[i] \in S
    OBVIOUS
  <2> HIDE DEF S
  <2>2. [i \in 1 .. n |-> f[i]] \in [1 .. n -> S]
    BY <2>1
  <2>3. e \in S
    BY DEF S
  <2>4. QED
    BY <2>2, <2>3
<1> HIDE DEF S
<1>2. f \in Seq(S) /\ Len(f) = n
  BY <1>1, FunctionIsSeq, Zenon
<1>3. /\ g \in Seq(S) /\ Len(g) = Len(f) + 1
      /\ \A i \in 1 .. Len(f) : g[i] = f[i]
      /\ g[Len(f) + 1] = e
  BY <1>1, <1>2, AppendProperties
<1> HIDE DEF g
<1>4. g \in [1 .. n + 1 -> S]
  BY <1>2, <1>3, LenProperties, Zenon
<1>5. \A i \in 1 .. n + 1 : g[i] = IF i <= n THEN f[i] ELSE e
  <2>1. \A i \in 1 .. n + 1 : (i <= n => i \in 1 .. n) /\ (~ (i <= n) => i = n + 1)
    BY SMT
  <2>2. QED
    BY <1>2, <1>3, <2>1, Zenon
<1>6. g = [i \in 1 .. n + 1 |-> g[i]]
  BY <1>4
<1>7. QED
  BY <1>5, <1>6, Zenon DEF g

\* The last entry of a full block cut down to its own length, and a new one
\* behind it.
LEMMA Appended ==
  ASSUME NEW b \in DirBytes, NEW c \in DirBytes, WellFormed(b), ~ Unused(b),
         NEW at, at = Places(b)[Len(Places(b)) - 1],
         NEW r \in Nat, r % 4 = 0, r >= 8 + b[at + 6],
         Rec(c, at) = r, Inside(c, at + r), Ino(c, at + r) # 0, Rec(c, at + r) = BlockSize - (at + r),
         \A p \in Position : p < at + 4 \/ (at + 6 <= p /\ p < at + r) => c[p] = b[p]
  PROVE  /\ Len(Places(b)) >= 2 /\ at \in Nat
         /\ Len(Places(c)) = Len(Places(b)) + 1 /\ End(c) = BlockSize
         /\ Places(c)[Len(Places(b))] = at + r
         /\ WellFormed(c)
         /\ Meaning(c) = Append(Meaning(b), [ino |-> Ino(c, at + r), typ |-> c[at + r + 7],
                                             name |-> NameOf(c, at + r)])
<1> DEFINE P == Places(b)
           L == Len(Places(b)) - 1
           new == at + r
<1>1. /\ P \in Seq(0 .. BlockSize) /\ Len(P) \in Nat /\ Len(P) >= 1 /\ P[1] = 0 /\ End(b) = P[Len(P)]
      /\ \A i \in 1 .. Len(P) : P[i] \in Nat /\ P[i] <= BlockSize
      /\ \A i \in 1 .. L : /\ Inside(b, P[i]) /\ P[i + 1] = P[i] + Rec(b, P[i]) /\ Ino(b, P[i]) # 0
                           /\ Rec(b, P[i]) >= 1 /\ P[i] + 8 <= BlockSize
  BY PlacesOK, Zenon DEF End
<1>2. P[Len(P)] = BlockSize
  <2>1. Len(P) \in 1 .. Len(P)
    BY <1>1, SMT
  <2>2. P[Len(P)] \in Nat /\ P[Len(P)] <= BlockSize /\ ~ (P[Len(P)] < BlockSize)
    BY <1>1, <2>1, Zenon DEF Unused
  <2> HIDE DEF P
  <2>3. QED
    BY <2>2, BlockAssumption, SMT
<1>3. L \in Nat /\ L >= 1 /\ L \in 1 .. L /\ L \in 1 .. Len(P) /\ Len(P) = L + 1
  <2>1. Len(P) # 1
    BY <1>1, <1>2, BlockAssumption, SMT
  <2>2. \A n \in Nat : n >= 1 /\ n # 1 =>
          n - 1 \in Nat /\ n - 1 >= 1 /\ n - 1 \in 1 .. n - 1 /\ n - 1 \in 1 .. n /\ n = (n - 1) + 1
    BY SMT
  <2>3. QED
    BY <1>1, <2>1, <2>2, Zenon
<1>4. at = P[L] /\ at \in Nat /\ at % 4 = 0
  BY <1>1, <1>3, Apart, Zenon
<1>5. \A i \in 1 .. L : Rec(b, P[i]) % 4 = 0 /\ Rec(b, P[i]) >= 8 + b[P[i] + 6]
  BY WellIs, Zenon DEF WellChained
<1>6. ASSUME NEW i \in 1 .. L
      PROVE  P[i] \in Nat /\ b[P[i] + 6] \in Nat /\ i \in 1 .. Len(P)
             /\ (i # L => i \in 1 .. L - 1 /\ P[i] + 8 + b[P[i] + 6] <= at)
  <2>1. i \in 1 .. Len(P) /\ (i # L => i \in 1 .. L - 1 /\ i < L)
    <3> HIDE DEF P, L
    <3>1. QED
      BY <1>3, SMT
  <2>2. P[i] \in Nat /\ Inside(b, P[i])
    BY <1>1, <2>1, Zenon
  <2>3. b[P[i] + 6] \in Nat
    BY <2>2, NameIs, Zenon
  <2>4. i # L => P[i] + 8 + b[P[i] + 6] <= at
    BY <1>3, <1>4, <2>1, EntriesEnd, Zenon
  <2>5. QED
    BY <2>1, <2>2, <2>3, <2>4, Zenon
<1>7. new \in Nat /\ new + 8 <= BlockSize
  <2>1. new \in Nat
    BY <1>4, SMT
  <2>2. QED
    BY <2>1, Zenon DEF Inside, DIR_ENTRY_PREFIX_LEN
<1> HIDE DEF P, L
<1>8. ASSUME NEW i \in 1 .. L, i # L, NEW p \in Position, p < P[i] + 8 + b[P[i] + 6]
      PROVE  c[p] = b[p]
  <2>1. p \in Nat /\ P[i] \in Nat /\ b[P[i] + 6] \in Nat /\ P[i] + 8 + b[P[i] + 6] <= at
    BY <1>6, <1>8, BlockAssumption, SMT DEF Position
  <2>2. \A x, y, u, v \in Nat : u < x + 8 + v /\ x + 8 + v <= y => u < y + 4
    BY SMT
  <2>3. QED
    BY <1>4, <1>8, <2>1, <2>2, Zenon
<1>9. ASSUME NEW i \in 1 .. L
      PROVE  /\ Inside(c, P[i]) /\ Ino(c, P[i]) = Ino(b, P[i])
             /\ c[P[i] + 6] = b[P[i] + 6] /\ c[P[i] + 7] = b[P[i] + 7] /\ NameOf(c, P[i]) = NameOf(b, P[i])
             /\ Rec(c, P[i]) = IF i = L THEN r ELSE Rec(b, P[i])
  <2>1. P[i] \in Nat /\ b[P[i] + 6] \in Nat /\ Inside(b, P[i]) /\ P[i] + 8 <= BlockSize
    BY <1>1, <1>6, Zenon DEF L, P
  <2>2. CASE i = L
    <3>1. \A p \in Position : at + 6 <= p /\ p < at + 8 + b[at + 6] => c[p] = b[p]
      <4>1. b[at + 6] \in Nat
        BY <1>4, <2>1, <2>2, Zenon
      <4>2. \A p \in Position : p < at + 8 + b[at + 6] => p < at + r
        <5>1. \A q, x, u, v \in Nat : u >= 8 + v /\ q < x + 8 + v => q < x + u
          BY SMT
        <5>2. \A p \in Position : p \in Nat
          BY BlockAssumption, SMT DEF Position
        <5>3. QED
          BY <1>4, <4>1, <5>1, <5>2, Zenon
      <4>3. QED
        BY <4>2, Zenon
    <3>2. \A p \in Position : at <= p /\ p < at + 4 => c[p] = b[p]
      OBVIOUS
    <3>3. /\ Inside(c, at) /\ c[at + 6] = b[at + 6] /\ c[at + 7] = b[at + 7] /\ NameOf(c, at) = NameOf(b, at)
      <4>1. Inside(b, at)
        BY <1>4, <2>1, <2>2, Zenon
      <4>2. QED
        BY <1>4, <3>1, <4>1, SameName, ZenonT(60)
    <3>4. Ino(c, at) = Ino(b, at)
      <4>1. at + 8 <= BlockSize
        BY <1>4, <2>1, <2>2, Zenon
      <4>2. QED
        BY <1>4, <3>2, <4>1, SameNumber, Zenon
    <3>5. QED
      BY <1>4, <2>2, <3>3, <3>4, Zenon
  <2>3. CASE i # L
    <3>1. \A p \in Position : P[i] + 4 <= p /\ p < P[i] + 8 + b[P[i] + 6] => c[p] = b[p]
      BY <1>8, <2>3, Zenon
    <3>2. \A p \in Position : P[i] <= p /\ p < P[i] + 4 => c[p] = b[p]
      <4>1. \A p \in Position : p < P[i] + 4 => p < P[i] + 8 + b[P[i] + 6]
        BY <2>1, BlockAssumption, SMTT(30) DEF Position
      <4>2. QED
        BY <1>8, <2>3, <4>1, Zenon
    <3>3. /\ Inside(c, P[i]) /\ Rec(c, P[i]) = Rec(b, P[i])
          /\ c[P[i] + 6] = b[P[i] + 6] /\ c[P[i] + 7] = b[P[i] + 7] /\ NameOf(c, P[i]) = NameOf(b, P[i])
      BY <2>1, <3>1, SameFields, ZenonT(60)
    <3>4. Ino(c, P[i]) = Ino(b, P[i])
      BY <2>1, <3>2, SameNumber, Zenon
    <3>5. QED
      BY <2>3, <3>3, <3>4, Zenon
  <2>4. QED
    BY <2>2, <2>3
<1> DEFINE Q == [i \in 1 .. L + 2 |-> IF i <= L THEN P[i] ELSE IF i = L + 1 THEN new ELSE BlockSize]
<1>10. /\ Q \in Seq(0 .. BlockSize) /\ Len(Q) = L + 2
       /\ \A i \in 1 .. L : Q[i] = P[i]
       /\ Q[L + 1] = new /\ Q[L + 2] = BlockSize
  <2>1. \A i \in 1 .. L + 2 : (IF i <= L THEN P[i] ELSE IF i = L + 1 THEN new ELSE BlockSize) \in 0 .. BlockSize
    <3>1. \A i \in 1 .. L + 2 : i <= L => P[i] \in Nat /\ P[i] <= BlockSize
      <4>1. \A i \in 1 .. L + 2 : i <= L => i \in 1 .. L
        BY <1>3, SMT
      <4>2. \A i \in 1 .. L : P[i] \in Nat /\ P[i] <= BlockSize
        BY <1>1, <1>6, Zenon
      <4>3. QED
        BY <4>1, <4>2, Zenon
    <3> HIDE DEF new
    <3>2. QED
      BY <1>7, <3>1, BlockAssumption, SMT
  <2>2. Q \in [1 .. L + 2 -> 0 .. BlockSize]
    BY <2>1, Zenon
  <2>3. L + 2 \in Nat
    BY <1>3, SMT
  <2>4. Q \in Seq(0 .. BlockSize) /\ Len(Q) = L + 2
    <3> DEFINE n == L + 2
    <3>1. Q \in [1 .. n -> 0 .. BlockSize] /\ n \in Nat
      BY <2>2, <2>3
    <3> HIDE DEF Q, n
    <3>2. Q \in Seq(0 .. BlockSize) /\ Len(Q) = n
      BY <3>1, FunctionIsSeq, Zenon
    <3>3. QED
      BY <3>2 DEF n
  <2>5. /\ \A i \in 1 .. L : i \in 1 .. L + 2 /\ i <= L
        /\ L + 1 \in 1 .. L + 2 /\ ~ (L + 1 <= L) /\ L + 2 \in 1 .. L + 2 /\ ~ (L + 2 <= L) /\ L + 2 # L + 1
    BY <1>3, SMT
  <2>6. QED
    BY <2>4, <2>5, Zenon
<1> HIDE DEF Q, new
<1>11. ASSUME NEW i \in 1 .. L + 1
       PROVE  /\ Inside(c, Q[i]) /\ Ino(c, Q[i]) # 0 /\ Rec(c, Q[i]) >= 1
              /\ Q[i + 1] = Q[i] + Rec(c, Q[i])
              /\ Rec(c, Q[i]) % 4 = 0 /\ Rec(c, Q[i]) >= 8 + c[Q[i] + 6]
  <2>1. CASE i \in 1 .. L /\ i # L
    <3>1. i + 1 \in 1 .. L
      BY <1>3, <2>1, SMT
    <3>2. Q[i] = P[i] /\ Q[i + 1] = P[i + 1]
      BY <1>10, <2>1, <3>1, Zenon
    <3>3. QED
      <4>1. /\ Rec(b, P[i]) >= 1 /\ P[i + 1] = P[i] + Rec(b, P[i]) /\ Ino(b, P[i]) # 0
            /\ Rec(b, P[i]) % 4 = 0 /\ Rec(b, P[i]) >= 8 + b[P[i] + 6]
        BY <1>1, <1>5, <2>1
      <4>2. /\ Inside(c, P[i]) /\ Ino(c, P[i]) = Ino(b, P[i]) /\ c[P[i] + 6] = b[P[i] + 6]
            /\ Rec(c, P[i]) = Rec(b, P[i])
        BY <1>9, <2>1
      <4>3. QED
        BY <3>2, <4>1, <4>2, Zenon
  <2>2. CASE i = L
    <3>1. Q[i] = at /\ Q[i + 1] = new
      BY <1>3, <1>4, <1>10, <2>2, Zenon
    <3>2. Inside(c, at) /\ Ino(c, at) # 0 /\ c[at + 6] = b[at + 6]
      BY <1>1, <1>3, <1>4, <1>9, ZenonT(60) DEF L, P
    <3>3. r >= 1
      <4>1. b[at + 6] \in Nat
        BY <1>3, <1>4, <1>6, Zenon
      <4>2. QED
        BY <4>1, SMT
    <3>4. QED
      BY <3>1, <3>2, <3>3, Zenon DEF new
  <2>3. CASE i = L + 1
    <3>1. Q[i] = new /\ Q[i + 1] = BlockSize
      <4>1. (L + 1) + 1 = L + 2
        BY <1>3, SMT
      <4>2. QED
        BY <1>10, <2>3, <4>1, Zenon
    <3>2. Inside(c, new) /\ Ino(c, new) # 0 /\ Rec(c, new) = BlockSize - new
      BY Zenon DEF new
    <3>3. c[new + 6] \in Nat /\ new + 8 + c[new + 6] <= BlockSize
      BY <1>7, <3>2, NameIs, Zenon
    <3>4. new % 4 = 0
      <4>1. \A x, y \in Nat : x % 4 = 0 /\ y % 4 = 0 => (x + y) % 4 = 0
        BY SMT
      <4>2. QED
        BY <1>4, <4>1, Zenon DEF new
    <3>5. (BlockSize - new) % 4 = 0 /\ BlockSize - new >= 8 + c[new + 6] /\ BlockSize = new + (BlockSize - new)
          /\ BlockSize - new >= 1
      <4>1. \A x, y, m \in Nat : x % 4 = 0 /\ y % 4 = 0 /\ y + 8 + m <= x =>
              (x - y) % 4 = 0 /\ x - y >= 8 + m /\ x = y + (x - y) /\ x - y >= 1
        BY SMT
      <4>2. QED
        BY <1>7, <3>3, <3>4, <4>1, BlockAssumption, Zenon
    <3>6. QED
      BY <3>1, <3>2, <3>5, Zenon
  <2>4. (i \in 1 .. L /\ i # L) \/ i = L \/ i = L + 1
    BY <1>3, SMT
  <2>5. QED
    BY <2>1, <2>2, <2>3, <2>4
<1>12. Len(Q) - 1 = L + 1 /\ Len(Q) >= 1 /\ Q[1] = 0 /\ Q[Len(Q)] = BlockSize
  <2>1. Len(Q) - 1 = L + 1 /\ Len(Q) >= 1 /\ 1 \in 1 .. L
    BY <1>3, <1>10, SMT
  <2>2. QED
    BY <1>1, <1>10, <2>1, Zenon
<1>13. Places(c) = Q
  BY <1>10, <1>11, <1>12, PlacesMade, Zenon
<1>14. WellFormed(c)
  <2>1. ~ (Q[Len(Q)] < BlockSize)
    BY <1>12, BlockAssumption, SMT
  <2>2. WellChained(c, Q)
    BY <1>11, <1>12, <2>1, Zenon DEF WellChained
  <2>3. QED
    BY <1>13, <2>2, WellIs, Zenon
<1> DEFINE e == [ino |-> Ino(c, new), typ |-> c[new + 7], name |-> NameOf(c, new)]
<1>15. Meaning(c) = Append(Meaning(b), e)
  <2>1. Meaning(c) = [i \in 1 .. L + 1 |->
                        [ino |-> Ino(c, Q[i]), typ |-> c[Q[i] + 7], name |-> NameOf(c, Q[i])]]
    BY <1>12, <1>13, MeaningIs, Zenon
  <2>2. Meaning(b) = [i \in 1 .. L |-> [ino |-> Ino(b, P[i]), typ |-> b[P[i] + 7], name |-> NameOf(b, P[i])]]
    BY MeaningIs, Zenon DEF P, L
  <2>3. Meaning(b) = [i \in 1 .. L |-> Meaning(b)[i]]
    BY <2>2, Zenon
  <2>4. Append(Meaning(b), e) = [i \in 1 .. L + 1 |-> IF i <= L THEN Meaning(b)[i] ELSE e]
    <3> DEFINE f == Meaning(b)
    <3>1. L \in Nat /\ f = [i \in 1 .. L |-> f[i]]
      BY <1>3, <2>3
    <3> HIDE DEF e, f
    <3>2. Append(f, e) = [i \in 1 .. L + 1 |-> IF i <= L THEN f[i] ELSE e]
      BY <3>1, AppendIs
    <3>3. QED
      BY <3>2 DEF f
  <2>5. ASSUME NEW i \in 1 .. L + 1
        PROVE  [ino |-> Ino(c, Q[i]), typ |-> c[Q[i] + 7], name |-> NameOf(c, Q[i])]
                 = IF i <= L THEN Meaning(b)[i] ELSE e
    <3>1. CASE i <= L
      <4>1. i \in 1 .. L
        BY <1>3, <3>1, SMT
      <4>2. Meaning(b)[i] = [ino |-> Ino(b, P[i]), typ |-> b[P[i] + 7], name |-> NameOf(b, P[i])]
        BY <2>2, <4>1, Zenon
      <4>3. Q[i] = P[i]
        BY <1>10, <4>1
      <4>4. QED
        BY <1>9, <3>1, <4>1, <4>2, <4>3, Zenon
    <3>2. CASE ~ (i <= L)
      <4>1. i = L + 1
        BY <1>3, <3>2, SMT
      <4>2. QED
        BY <1>10, <3>2, <4>1, Zenon
    <3>3. QED
      BY <3>1, <3>2
  <2> HIDE DEF e
  <2>6. QED
    BY <2>1, <2>4, <2>5, Zenon
<1>16. End(c) = BlockSize /\ Len(Places(c)) = Len(Places(b)) + 1 /\ Places(c)[Len(Places(b))] = new
  <2>1. Len(Q) = Len(P) + 1 /\ Len(P) = L + 1
    BY <1>3, <1>10, SMT
  <2>2. QED
    BY <1>10, <1>12, <1>13, <2>1, Zenon DEF End, P
<1>17. Len(Places(b)) >= 2
  BY <1>3, SMT DEF P
<1>18. QED
  BY <1>4, <1>14, <1>15, <1>16, <1>17 DEF new

\* What P2Place makes of a block: its last entry, or what is taken for it, gets
\* the length r, and a new entry is put behind it.
Placed(b, last, r, e) == write_new_entry(e, write_number_into_block(b, last + 4, r, 2), last + r)

\* An entry that can be written.
EntryOK(e) ==
  /\ InodeNumber(e.ino) /\ e.typ \in Byte
  /\ e.name \in Seq(Byte) /\ Len(e.name) \in Nat /\ Len(e.name) \in Byte

\* A block that has no unused entry gets one entry more.
LEMMA PlacedBehind ==
  ASSUME NEW b \in DirBytes, WellFormed(b), ~ Unused(b), NEW e, EntryOK(e),
         NEW at, at = Places(b)[Len(Places(b)) - 1],
         NEW r, r = pad_to_4_bytes(8 + b[at + 6]),
         at + r + 9 + Len(e.name) <= BlockSize
  PROVE  /\ Placed(b, at, r, e) \in DirBytes /\ WellFormed(Placed(b, at, r, e))
         /\ End(Placed(b, at, r, e)) = BlockSize
         /\ Len(Places(Placed(b, at, r, e))) = Len(Places(b)) + 1
         /\ Places(Placed(b, at, r, e))[Len(Places(b))] = at + r
         /\ Placed(b, at, r, e)[at + r + 6] = Len(e.name)
         /\ Meaning(Placed(b, at, r, e)) =
              Append(Meaning(b), [ino |-> e.ino, typ |-> e.typ, name |-> e.name])
<1> DEFINE P == Places(b)
           L == Len(P) - 1
           m == b[at + 6]
           d == write_number_into_block(b, at + 4, r, 2)
           new == at + r
           c == Placed(b, at, r, e)
<1>1. L \in 1 .. Len(P) /\ L \in 1 .. Len(P) - 1
  <2>1. Len(P) \in 1 .. Len(P) /\ Len(P) \in Nat /\ Len(P) >= 1 /\ P[1] = 0
    BY PlacesOK, SMT
  <2>2. End(b) = P[Len(P)] /\ End(b) # 0
    <3>1. End(b) = P[Len(P)] /\ ~ (P[Len(P)] < BlockSize)
      BY Zenon DEF End, Unused
    <3>2. QED
      BY <3>1, BlockAssumption, SMT
  <2>3. Len(P) # 1
    BY <2>1, <2>2, Zenon
  <2>4. \A n \in Nat : n >= 1 /\ n # 1 => n - 1 \in 1 .. n /\ n - 1 \in 1 .. n - 1
    BY SMT
  <2>5. QED
    BY <2>1, <2>3, <2>4, Zenon
<1>2. at \in Nat /\ Inside(b, at)
  BY <1>1, PlacesOK, Zenon
<1>3. m \in Nat /\ m <= 255
  BY <1>2, NameIs, Zenon
<1>4. r \in Nat /\ r % 4 = 0 /\ r >= 8 + m /\ r < 512 /\ r >= 8
  <2> HIDE DEF m
  <2>1. 8 + m \in Nat /\ r = pad_to_4_bytes(8 + m)
    BY <1>3, SMT DEF m
  <2>2. r \in Nat /\ r % 4 = 0 /\ 8 + m <= r /\ r < (8 + m) + 4
    BY <2>1, PadIs, Zenon
  <2>3. QED
    BY <1>3, <2>2, SMT
<1>5. /\ InodeNumber(e.ino) /\ e.typ \in Byte /\ e.name \in Seq(Byte)
      /\ Len(e.name) \in Nat /\ Len(e.name) \in Byte
  BY Zenon DEF EntryOK
<1>6. /\ d \in DirBytes /\ Rec(d, at) = r
      /\ \A p \in Position : p < at + 4 \/ at + 6 <= p => d[p] = b[p]
  <2>1. at + 6 <= BlockSize
    <3>1. \A x, u, v \in Nat : u >= 8 /\ x + u + 9 + v <= BlockSize => x + 6 <= BlockSize
      BY BlockAssumption, SMT
    <3>2. QED
      BY <1>2, <1>4, <1>5, <3>1, Zenon
  <2>2. \A c0 : c0 = write_number_into_block(b, at + 4, r, 2) =>
           /\ c0 \in DirBytes /\ Rec(c0, at) = r /\ c0[at + 5] \in Nat /\ c0[at + 5] <= 1
           /\ \A p \in Position : p < at + 4 \/ at + 6 <= p => c0[p] = b[p]
    BY <1>2, <1>4, <2>1, LengthPut, ZenonT(60)
  <2>3. QED
    BY <2>2, Zenon
<1>7. /\ c \in DirBytes /\ \A p \in Position : p < new => c[p] = d[p]
      /\ Inside(c, new) /\ Ino(c, new) = e.ino /\ Rec(c, new) = BlockSize - new
      /\ c[new + 6] = Len(e.name) /\ c[new + 7] = e.typ /\ NameOf(c, new) = e.name
  <2>1. new \in Nat /\ new + 9 + Len(e.name) <= BlockSize
    BY <1>2, <1>4, <1>5, SMTT(30)
  <2> HIDE DEF d, new
  <2>2. \A c0 : c0 = write_new_entry(e, d, new) =>
          /\ c0 \in DirBytes /\ \A p \in Position : p < new => c0[p] = d[p]
          /\ Inside(c0, new) /\ Ino(c0, new) = e.ino /\ Rec(c0, new) = BlockSize - new
          /\ c0[new + 6] = Len(e.name) /\ c0[new + 7] = e.typ /\ NameOf(c0, new) = e.name
    BY <1>5, <1>6, <2>1, EntryPut, ZenonT(60)
  <2>3. c = write_new_entry(e, d, new)
    BY Zenon DEF Placed, d, new
  <2> HIDE DEF c
  <2>4. QED
    BY <2>2, <2>3, Zenon
<1> HIDE DEF c, d, m
<1>8. \A p \in Position : p < at + 4 \/ (at + 6 <= p /\ p < new) => c[p] = b[p]
  <2>1. \A p \in Position : p < at + 4 => p < new
    BY <1>2, <1>3, <1>4, BlockAssumption, SMTT(30) DEF Position
  <2>2. QED
    BY <1>6, <1>7, <2>1, Zenon
<1>9. Rec(c, at) = r
  <2>1. /\ at + 4 \in Position /\ at + 5 \in Position /\ at + 4 < new /\ at + 5 < new
    <3>1. at + 8 <= BlockSize
      BY <1>2, Zenon DEF Inside, DIR_ENTRY_PREFIX_LEN
    <3>2. QED
      <4>1. \A x, u \in Nat : x + 8 <= BlockSize /\ u >= 8 =>
              x + 4 \in Position /\ x + 5 \in Position /\ x + 4 < x + u /\ x + 5 < x + u
        BY BlockAssumption, SMT DEF Position
      <4>2. QED
        BY <1>2, <1>4, <3>1, <4>1, Zenon
  <2>2. c[at + 4] = d[at + 4] /\ c[at + 5] = d[at + 5]
    BY <1>7, <2>1, Zenon
  <2>3. QED
    BY <1>6, <2>2, Zenon DEF Rec
<1>10. Ino(c, new) # 0
  <2>1. e.ino # 0
    BY <1>5, SMT DEF InodeNumber
  <2>2. QED
    BY <1>7, <2>1, Zenon
<1>11. /\ Len(Places(c)) = Len(P) + 1 /\ End(c) = BlockSize /\ Places(c)[Len(P)] = new /\ WellFormed(c)
       /\ Meaning(c) = Append(Meaning(b), [ino |-> Ino(c, new), typ |-> c[new + 7], name |-> NameOf(c, new)])
  <2>1. r >= 8 + b[at + 6]
    BY <1>4 DEF m
  <2>2. QED
    BY <1>4, <1>7, <1>8, <1>9, <1>10, <2>1, Appended
<1>12. QED
  BY <1>7, <1>11 DEF c

\* In a block with an unused entry nothing changes that is read.
LEMMA PlacedInHole ==
  ASSUME NEW b \in DirBytes, WellFormed(b), Unused(b), NEW e, EntryOK(e),
         NEW r \in Nat, r >= 8, r < 512,
         (End(b) + 1) + r + 9 + Len(e.name) <= BlockSize
  PROVE  /\ Placed(b, End(b) + 1, r, e) \in DirBytes /\ WellFormed(Placed(b, End(b) + 1, r, e))
         /\ Places(Placed(b, End(b) + 1, r, e)) = Places(b)
         /\ Meaning(Placed(b, End(b) + 1, r, e)) = Meaning(b)
<1> DEFINE off == End(b)
           at == off + 1
           d == write_number_into_block(b, at + 4, r, 2)
           new == at + r
           c == Placed(b, at, r, e)
<1>1. off \in Nat /\ off + 8 <= BlockSize
  <2>1. off = Places(b)[Len(Places(b))] /\ off < BlockSize
    BY Zenon DEF End, Unused
  <2>2. Len(Places(b)) \in 1 .. Len(Places(b))
    BY PlacesOK, SMT
  <2>3. off \in Nat
    BY <2>1, <2>2, PlacesOK, Zenon
  <2>4. Inside(b, off)
    BY <2>1, WellIs, ZenonT(60) DEF WellChained
  <2>5. QED
    BY <2>3, <2>4, Zenon DEF Inside, DIR_ENTRY_PREFIX_LEN
<1>2. /\ InodeNumber(e.ino) /\ e.typ \in Byte /\ e.name \in Seq(Byte)
      /\ Len(e.name) \in Nat /\ Len(e.name) \in Byte
  BY Zenon DEF EntryOK
<1>3. at + r + 9 + Len(e.name) <= BlockSize
  OBVIOUS
<1> HIDE DEF off
<1>4. at \in Nat /\ at + 6 <= BlockSize
  BY <1>1, <1>2, <1>3, BlockAssumption, SMT
<1> HIDE DEF at
<1>5. /\ d \in DirBytes /\ d[at + 5] \in Nat /\ d[at + 5] <= 1
      /\ \A p \in Position : p < at + 4 \/ at + 6 <= p => d[p] = b[p]
  <2>1. \A c0 : c0 = write_number_into_block(b, at + 4, r, 2) =>
           /\ c0 \in DirBytes /\ Rec(c0, at) = r /\ c0[at + 5] \in Nat /\ c0[at + 5] <= 1
           /\ \A p \in Position : p < at + 4 \/ at + 6 <= p => c0[p] = b[p]
    BY <1>4, LengthPut
  <2>2. QED
    BY <2>1, Zenon
<1>6. c \in DirBytes /\ \A p \in Position : p < new => c[p] = d[p]
  <2>1. new \in Nat /\ new + 9 + Len(e.name) <= BlockSize
    <3>1. \A x, u, v \in Nat : x + u + 9 + v <= BlockSize => x + u \in Nat /\ (x + u) + 9 + v <= BlockSize
      BY BlockAssumption, SMT
    <3>2. QED
      BY <1>2, <1>3, <1>4, <3>1, Zenon
  <2> HIDE DEF d, new
  <2>2. \A c0 : c0 = write_new_entry(e, d, new) =>
          /\ c0 \in DirBytes /\ \A p \in Position : p < new => c0[p] = d[p]
          /\ Inside(c0, new) /\ Ino(c0, new) = e.ino /\ Rec(c0, new) = BlockSize - new
          /\ c0[new + 6] = Len(e.name) /\ c0[new + 7] = e.typ /\ NameOf(c0, new) = e.name
    BY <1>2, <1>5, <2>1, EntryPut, ZenonT(60)
  <2>3. c = write_new_entry(e, d, new)
    BY Zenon DEF Placed, d, new
  <2> HIDE DEF c
  <2>4. QED
    BY <2>2, <2>3, Zenon
<1> HIDE DEF c, d
<1>7. \A p \in Position : p < off + 4 => c[p] = b[p]
  <2>1. \A p \in Position : p < off + 4 => p < new /\ p < at + 4
    BY <1>1, BlockAssumption, SMT DEF Position, at
  <2>2. QED
    BY <1>5, <1>6, <2>1, Zenon
<1>8. Inside(c, off)
  <2>1. off + 6 \in Position /\ off + 6 < new /\ off + 6 = at + 5
    BY <1>1, BlockAssumption, SMT DEF Position, at
  <2>2. c[off + 6] \in Nat /\ c[off + 6] <= 1
    BY <1>5, <1>6, <2>1, Zenon
  <2>3. off + 9 <= BlockSize
    <3>1. \A x, u, v \in Nat : (x + 1) + u + 9 + v <= BlockSize => x + 9 <= BlockSize
      BY BlockAssumption, SMT
    <3>2. QED
      BY <1>1, <1>2, <1>3, <3>1, Zenon DEF at
  <2>4. off + 8 <= BlockSize /\ off + 8 + c[off + 6] <= BlockSize
    BY <1>1, <2>2, <2>3, BlockAssumption, SMT
  <2>5. QED
    BY <2>4, Zenon DEF Inside, DIR_ENTRY_PREFIX_LEN
<1>9. Places(c) = Places(b) /\ WellFormed(c) /\ Meaning(c) = Meaning(b)
  BY <1>6, <1>7, <1>8, Untouched, Zenon DEF off
<1>10. QED
  BY <1>6, <1>9, Zenon DEF c, at, off

\* The room behind the last name of a block.
LEMMA SlackIs ==
  ASSUME NEW b \in DirBytes, NEW last, last = Places(b)[Len(Places(b)) - 1], Len(Places(b)) >= 2
  PROVE  Slack(b) = Rec(b, last) - pad_to_4_bytes(8 + b[last + 6])
<1> DEFINE L == Len(Places(b)) - 1
           f == Listed(b)
<1>1. L \in Nat /\ L \in 1 .. L
  BY PlacesOK, SMT
<1>2. f[L].rec_len = Rec(b, last) /\ Len(f[L].name) = b[last + 6]
  BY <1>1, MeaningIs, Zenon
<1>3. Len(f) = L
  <2>1. f = [i \in 1 .. L |-> read_dir_entry_in_block(b, Places(b)[i])]
    BY ListedIs, Zenon
  <2> HIDE DEF L
  <2> DEFINE S == {f[i] : i \in 1 .. L}
  <2>2. f \in [1 .. L -> S]
    BY <2>1
  <2> HIDE DEF f, S
  <2>3. QED
    BY <1>1, <2>2, FunctionIsSeq, Zenon
<1>4. QED
  BY <1>2, <1>3, Zenon DEF Slack, DIR_ENTRY_PREFIX_LEN

-----------------------------------------------------------------------------
(* The name of a lost object *)

\* Division by powers of ten, of a number as large as an inode number can be.
LEMMA Tens ==
  ASSUME NEW n, InodeNumber(n)
  PROVE  /\ \E m \in 0 .. 9 : 10 ^ m <= n /\ n \div 10 ^ m < 10
         /\ \A m \in 0 .. 9 : n \div 10 ^ m \in Nat
         /\ \A m \in 0 .. 8 : (n \div 10 ^ m) % 10 = n \div 10 ^ m - 10 * (n \div 10 ^ (m + 1))
         /\ \A m \in 0 .. 9 : 10 ^ m <= n => n \div 10 ^ m >= 1
         /\ n \div 10 ^ 0 = n
<1>1. n \in Nat /\ n >= 1 /\ n < 5000000000
  BY SMT DEF InodeNumber
<1> DEFINE Some == \E m \in 0 .. 9 : 10 ^ m <= n /\ n \div 10 ^ m < 10
           Whole(m) == n \div 10 ^ m \in Nat
           Step(m) == (n \div 10 ^ m) % 10 = n \div 10 ^ m - 10 * (n \div 10 ^ (m + 1))
           Left(m) == 10 ^ m <= n => n \div 10 ^ m >= 1
<1>2. Some
  <2>1. CASE n < 10
    <3>1. 10 ^ 0 <= n /\ n \div 10 ^ 0 < 10 /\ 0 \in 0 .. 9
      BY <1>1, <2>1, SMT
    <3>2. QED
      BY <3>1
  <2>2. CASE 10 <= n /\ n < 100
    <3>1. 10 ^ 1 <= n /\ n \div 10 ^ 1 < 10 /\ 1 \in 0 .. 9
      BY <1>1, <2>2, SMT
    <3>2. QED
      BY <3>1
  <2>3. CASE 100 <= n /\ n < 1000
    <3>1. 10 ^ 2 <= n /\ n \div 10 ^ 2 < 10 /\ 2 \in 0 .. 9
      BY <1>1, <2>3, SMT
    <3>2. QED
      BY <3>1
  <2>4. CASE 1000 <= n /\ n < 10000
    <3>1. 10 ^ 3 <= n /\ n \div 10 ^ 3 < 10 /\ 3 \in 0 .. 9
      BY <1>1, <2>4, SMT
    <3>2. QED
      BY <3>1
  <2>5. CASE 10000 <= n /\ n < 100000
    <3>1. 10 ^ 4 <= n /\ n \div 10 ^ 4 < 10 /\ 4 \in 0 .. 9
      BY <1>1, <2>5, SMT
    <3>2. QED
      BY <3>1
  <2>6. CASE 100000 <= n /\ n < 1000000
    <3>1. 10 ^ 5 <= n /\ n \div 10 ^ 5 < 10 /\ 5 \in 0 .. 9
      BY <1>1, <2>6, SMT
    <3>2. QED
      BY <3>1
  <2>7. CASE 1000000 <= n /\ n < 10000000
    <3>1. 10 ^ 6 <= n /\ n \div 10 ^ 6 < 10 /\ 6 \in 0 .. 9
      BY <1>1, <2>7, SMT
    <3>2. QED
      BY <3>1
  <2>8. CASE 10000000 <= n /\ n < 100000000
    <3>1. 10 ^ 7 <= n /\ n \div 10 ^ 7 < 10 /\ 7 \in 0 .. 9
      BY <1>1, <2>8, SMT
    <3>2. QED
      BY <3>1
  <2>9. CASE 100000000 <= n /\ n < 1000000000
    <3>1. 10 ^ 8 <= n /\ n \div 10 ^ 8 < 10 /\ 8 \in 0 .. 9
      BY <1>1, <2>9, SMT
    <3>2. QED
      BY <3>1
  <2>10. CASE 1000000000 <= n
    <3>1. 10 ^ 9 <= n /\ n \div 10 ^ 9 < 10 /\ 9 \in 0 .. 9
      BY <1>1, <2>10, SMT
    <3>2. QED
      BY <3>1
  <2> HIDE DEF Some
  <2>11. QED
    BY <1>1, <2>1, <2>2, <2>3, <2>4, <2>5, <2>6, <2>7, <2>8, <2>9, <2>10, SMT
<1>3. \A m \in 0 .. 9 : Whole(m) /\ Left(m)
  <2>1. Whole(0) /\ Left(0)
    BY <1>1, SMT
  <2>2. Whole(1) /\ Left(1)
    BY <1>1, SMT
  <2>3. Whole(2) /\ Left(2)
    BY <1>1, SMT
  <2>4. Whole(3) /\ Left(3)
    BY <1>1, SMT
  <2>5. Whole(4) /\ Left(4)
    BY <1>1, SMT
  <2>6. Whole(5) /\ Left(5)
    BY <1>1, SMT
  <2>7. Whole(6) /\ Left(6)
    BY <1>1, SMT
  <2>8. Whole(7) /\ Left(7)
    BY <1>1, SMT
  <2>9. Whole(8) /\ Left(8)
    BY <1>1, SMT
  <2>10. Whole(9) /\ Left(9)
    BY <1>1, SMT
  <2> HIDE DEF Whole, Left
  <2>11. QED
    BY <2>1, <2>2, <2>3, <2>4, <2>5, <2>6, <2>7, <2>8, <2>9, <2>10, SMT
<1>4. \A m \in 0 .. 8 : Step(m)
  <2>1. Step(0)
    <3>1. (n \div 10 ^ 0) % 10 = n \div 10 ^ 0 - 10 * (n \div 10 ^ 1) /\ 0 + 1 = 1
      BY <1>1, SMT
    <3>2. QED
      BY <3>1
  <2>2. Step(1)
    <3>1. (n \div 10 ^ 1) % 10 = n \div 10 ^ 1 - 10 * (n \div 10 ^ 2) /\ 1 + 1 = 2
      BY <1>1, SMT
    <3>2. QED
      BY <3>1
  <2>3. Step(2)
    <3>1. (n \div 10 ^ 2) % 10 = n \div 10 ^ 2 - 10 * (n \div 10 ^ 3) /\ 2 + 1 = 3
      BY <1>1, SMT
    <3>2. QED
      BY <3>1
  <2>4. Step(3)
    <3>1. (n \div 10 ^ 3) % 10 = n \div 10 ^ 3 - 10 * (n \div 10 ^ 4) /\ 3 + 1 = 4
      BY <1>1, SMT
    <3>2. QED
      BY <3>1
  <2>5. Step(4)
    <3>1. (n \div 10 ^ 4) % 10 = n \div 10 ^ 4 - 10 * (n \div 10 ^ 5) /\ 4 + 1 = 5
      BY <1>1, SMT
    <3>2. QED
      BY <3>1
  <2>6. Step(5)
    <3>1. (n \div 10 ^ 5) % 10 = n \div 10 ^ 5 - 10 * (n \div 10 ^ 6) /\ 5 + 1 = 6
      BY <1>1, SMT
    <3>2. QED
      BY <3>1
  <2>7. Step(6)
    <3>1. (n \div 10 ^ 6) % 10 = n \div 10 ^ 6 - 10 * (n \div 10 ^ 7) /\ 6 + 1 = 7
      BY <1>1, SMT
    <3>2. QED
      BY <3>1
  <2>8. Step(7)
    <3>1. (n \div 10 ^ 7) % 10 = n \div 10 ^ 7 - 10 * (n \div 10 ^ 8) /\ 7 + 1 = 8
      BY <1>1, SMT
    <3>2. QED
      BY <3>1
  <2>9. Step(8)
    <3>1. (n \div 10 ^ 8) % 10 = n \div 10 ^ 8 - 10 * (n \div 10 ^ 9) /\ 8 + 1 = 9
      BY <1>1, SMT
    <3>2. QED
      BY <3>1
  <2> HIDE DEF Step
  <2>10. QED
    BY <2>1, <2>2, <2>3, <2>4, <2>5, <2>6, <2>7, <2>8, <2>9, SMT
<1>5. n \div 10 ^ 0 = n
  BY <1>1, SMT
<1>6. QED
  BY <1>2, <1>3, <1>4, <1>5, Zenon

\* What shows that a name is a number: the values of its beginnings.
LEMMA DecimalIs ==
  ASSUME NEW name, NEW n, NEW v, v = [i \in 0 .. Len(name) |-> v[i]],
         Len(name) \in Nat, Len(name) >= 1, name # <<>>, name[1] # 48,
         \A i \in DOMAIN name : name[i] \in 48 .. 57,
         v[0] = 0, v[Len(name)] = n,
         \A i \in 1 .. Len(name) : v[i] = 10 * v[i - 1] + (name[i] - 48)
  PROVE  AsLists!IsDecimal(name, n)
<1> DEFINE L == Len(name)
           Counts(f) == f = [i \in 0 .. L |->
                               IF i = 0 THEN 0 ELSE 10 * f[i - 1] + (name[i] - 48)]
<1>1. Counts(v)
  <2>1. ASSUME NEW i \in 0 .. L
        PROVE  v[i] = IF i = 0 THEN 0 ELSE 10 * v[i - 1] + (name[i] - 48)
    <3>1. i # 0 => i \in 1 .. L
      BY SMT
    <3>2. QED
      BY <3>1, Zenon
  <2>2. QED
    BY <2>1, Zenon
<1>2. ASSUME NEW f, Counts(f)
      PROVE  f[L] = n
  <2>1. \A i \in 0 .. L : f[i] = IF i = 0 THEN 0 ELSE 10 * f[i - 1] + (name[i] - 48)
    BY <1>2, Zenon
  <2> HIDE DEF Counts
  <2> DEFINE T == {i \in Nat : i \in 0 .. L /\ f[i] # v[i]}
  <2>2. T = {}
    <3>1. SUFFICES ASSUME T # {} PROVE FALSE
      OBVIOUS
    <3>2. PICK i \in T : \A j \in T : i <= j
      <4>1. T \subseteq Nat
        OBVIOUS
      <4>2. QED
        BY <3>1, <4>1, FirstOf, Zenon
    <3>3. i # 0
      <4>1. 0 \in 0 .. L
        BY SMT
      <4>2. QED
        BY <2>1, <3>2, <4>1
    <3>4. i \in 1 .. L /\ i \in 0 .. L /\ i - 1 \in 0 .. L /\ i - 1 \in Nat /\ ~ (i <= i - 1)
      BY <3>2, <3>3, SMT
    <3>5. f[i - 1] = v[i - 1]
      <4>1. i - 1 \notin T
        BY <3>2, <3>4, Zenon
      <4>2. QED
        BY <3>4, <4>1
    <3>6. f[i] = v[i]
      BY <2>1, <3>3, <3>4, <3>5, ZenonT(60)
    <3>7. QED
      BY <3>2, <3>6
  <2>3. L \in 0 .. L /\ L \in Nat
    BY SMT
  <2>4. QED
    BY <2>2, <2>3
<1>3. (CHOOSE f : Counts(f))[L] = n
  <2> HIDE DEF Counts
  <2>1. QED
    BY <1>1, <1>2, Zenon
<1>4. QED
  BY <1>3, Zenon DEF AsLists!IsDecimal

\* A lost object is named by the decimal digits of its number.
LEMMA DigitsIs ==
  ASSUME NEW n, InodeNumber(n)
  PROVE  /\ Digits(n) \in Seq(Byte) /\ Len(Digits(n)) \in 1 .. 10
         /\ AsLists!IsDecimal(Digits(n), n)
<1> DEFINE P(m) == m \in 0 .. 9 /\ 10 ^ m <= n /\ n \div 10 ^ m < 10
           most == CHOOSE m \in 0 .. 9 : 10 ^ m <= n /\ n \div 10 ^ m < 10
           q(m) == n \div 10 ^ m
           name == [i \in 1 .. most + 1 |-> 48 + (q(most + 1 - i) % 10)]
           v == [i \in 0 .. most + 1 |-> IF i = 0 THEN 0 ELSE q(most + 1 - i)]
<1>1. Digits(n) = name
  BY Zenon DEF Digits
<1>2. most \in 0 .. 9 /\ 10 ^ most <= n /\ q(most) < 10
  BY Tens, Zenon
<1>3. /\ \A m \in 0 .. 9 : q(m) \in Nat
      /\ \A m \in 0 .. 8 : q(m) % 10 = q(m) - 10 * q(m + 1)
      /\ q(0) = n /\ q(most) >= 1
  BY <1>2, Tens, Zenon
<1> HIDE DEF most, q
<1>4. ASSUME NEW i \in 1 .. most + 1
      PROVE  /\ most + 1 - i \in 0 .. 9
             /\ q(most + 1 - i) \in Nat
             /\ q(most + 1 - i) % 10 \in 0 .. 9
             /\ 48 + (q(most + 1 - i) % 10) \in 48 .. 57
             /\ 48 + (q(most + 1 - i) % 10) \in Byte
  <2>1. most + 1 - i \in 0 .. 9
    BY <1>2, SMT
  <2>2. q(most + 1 - i) \in Nat
    BY <1>3, <2>1, Zenon
  <2>3. \A x \in Nat : x % 10 \in 0 .. 9 /\ 48 + (x % 10) \in 48 .. 57
                       /\ 48 + (x % 10) \in Int /\ 0 <= 48 + (x % 10) /\ 48 + (x % 10) <= 255
    BY SMT
  <2>4. QED
    BY <2>1, <2>2, <2>3, ByteIs, Zenon
<1>5. name \in Seq(Byte) /\ Len(name) = most + 1 /\ DOMAIN name = 1 .. most + 1
  <2>1. name \in [1 .. most + 1 -> Byte]
    BY <1>4
  <2>2. most + 1 \in Nat
    BY <1>2, SMT
  <2> HIDE DEF name
  <2>3. QED
    BY <2>1, <2>2, FunctionIsSeq, Zenon
<1>6. most \in Nat /\ most + 1 \in 1 .. 10 /\ most + 1 \in Nat /\ most + 1 >= 1
  BY <1>2, SMT
<1>7. name[1] # 48
  <2>1. 1 \in 1 .. most + 1 /\ most + 1 - 1 = most
    BY <1>6, SMT
  <2>2. name[1] = 48 + (q(most) % 10)
    BY <2>1, Zenon
  <2>3. q(most) \in Nat
    BY <1>2, <1>3
  <2>4. \A x \in Nat : x >= 1 /\ x < 10 => 48 + (x % 10) # 48
    BY SMT
  <2>5. QED
    BY <1>2, <1>3, <2>2, <2>3, <2>4, Zenon
<1>8. \A i \in DOMAIN name : name[i] \in 48 .. 57
  BY <1>4, <1>5
<1>9. ASSUME NEW i \in 1 .. most + 1
      PROVE  v[i] = 10 * v[i - 1] + (name[i] - 48)
  <2>1. v[i] = q(most + 1 - i) /\ name[i] = 48 + (q(most + 1 - i) % 10)
    <3>1. i \in 0 .. most + 1 /\ i # 0
      BY <1>6, SMT
    <3>2. QED
      BY <3>1, Zenon
  <2>2. q(most + 1 - i) \in Nat
    BY <1>4, Zenon
  <2>3. CASE i = 1
    <3>1. v[i - 1] = 0
      <4>1. i - 1 = 0 /\ 0 \in 0 .. most + 1
        BY <1>6, <2>3, SMT
      <4>2. QED
        BY <4>1, Zenon
    <3>2. most + 1 - i = most
      BY <1>6, <2>3, SMT
    <3>3. \A x \in Nat : x < 10 => x = 10 * 0 + ((48 + (x % 10)) - 48)
      BY SMT
    <3>4. QED
      BY <1>2, <2>1, <2>2, <3>1, <3>2, <3>3, Zenon
  <2>4. CASE i # 1
    <3> DEFINE m == most + 1 - i
    <3>1. m \in 0 .. 8 /\ m + 1 \in 0 .. 9 /\ most + 1 - (i - 1) = m + 1
          /\ i - 1 \in 0 .. most + 1 /\ i - 1 # 0
      BY <1>2, <2>4, SMT
    <3> HIDE DEF m
    <3>2. v[i - 1] = q(m + 1)
      BY <3>1, Zenon
    <3>3. q(m) % 10 = q(m) - 10 * q(m + 1) /\ q(m + 1) \in Nat
      BY <1>3, <3>1, Zenon
    <3>4. \A x, y \in Nat : x % 10 = x - 10 * y => x = 10 * y + ((48 + (x % 10)) - 48)
      BY SMT
    <3>5. v[i] = q(m) /\ name[i] = 48 + (q(m) % 10) /\ q(m) \in Nat
      BY <2>1, <2>2, Zenon DEF m
    <3> HIDE DEF name, v
    <3>6. QED
      BY <3>2, <3>3, <3>4, <3>5, ZenonT(60)
  <2>5. QED
    BY <2>3, <2>4
<1>10. v[0] = 0 /\ v[most + 1] = n /\ v = [i \in 0 .. most + 1 |-> v[i]]
  <2>1. 0 \in 0 .. most + 1 /\ most + 1 \in 0 .. most + 1 /\ most + 1 # 0 /\ most + 1 - (most + 1) = 0
    BY <1>6, SMT
  <2>2. v[0] = 0 /\ v[most + 1] = q(0)
    BY <2>1, Zenon
  <2>3. v = [i \in 0 .. most + 1 |-> v[i]]
    OBVIOUS
  <2>4. QED
    BY <1>3, <2>2, <2>3, Zenon
<1> HIDE DEF name, v
<1>11. AsLists!IsDecimal(name, n)
  <2>1. name # <<>>
    <3>1. Len(name) # 0
      BY <1>5, <1>6, SMT
    <3>2. QED
      BY <3>1, SMT
  <2>2. QED
    BY <1>5, <1>6, <1>7, <1>8, <1>9, <1>10, <2>1, DecimalIs, ZenonT(60)
<1>12. QED
  BY <1>1, <1>5, <1>6, <1>11, Zenon

\* Its entry is one that can be written, and as long as its name makes it.
LEMMA NewEntryIs ==
  ASSUME NEW n \in Lost
  PROVE  /\ EntryOK(create_new_entry(n)) /\ InodeNumber(n)
         /\ create_new_entry(n).ino = n
         /\ create_new_entry(n).typ = IF n \in LostDir THEN DIR_TYPE ELSE REG_TYPE
         /\ AsLists!IsDecimal(create_new_entry(n).name, n)
         /\ create_new_entry(n).rec_len \in Nat
         /\ create_new_entry(n).rec_len >= 8 + Len(create_new_entry(n).name)
         /\ create_new_entry(n).rec_len % 4 = 0
         /\ create_new_entry(n).rec_len <= 20
<1> DEFINE e == create_new_entry(n)
<1>1. InodeNumber(n)
  BY BlockAssumption
<1>2. /\ e.ino = n /\ e.typ = (IF n \in LostDir THEN DIR_TYPE ELSE REG_TYPE) /\ e.name = Digits(n)
      /\ e.rec_len = pad_to_4_bytes(8 + Len(Digits(n)))
  BY SMT DEF create_new_entry, DIR_ENTRY_PREFIX_LEN
<1> HIDE DEF e
<1>3. /\ Digits(n) \in Seq(Byte) /\ Len(Digits(n)) \in 1 .. 10 /\ AsLists!IsDecimal(Digits(n), n)
  BY <1>1, DigitsIs, Zenon
<1>4. e.typ \in Byte
  <2>1. (IF n \in LostDir THEN DIR_TYPE ELSE REG_TYPE) \in Int
        /\ 0 <= (IF n \in LostDir THEN DIR_TYPE ELSE REG_TYPE)
        /\ (IF n \in LostDir THEN DIR_TYPE ELSE REG_TYPE) <= 255
    BY SMT DEF DIR_TYPE, REG_TYPE
  <2>2. QED
    BY <1>2, <2>1, ByteIs, Zenon
<1>5. Len(Digits(n)) \in Byte /\ Len(Digits(n)) \in Nat
  <2>1. \A x \in 1 .. 10 : x \in Int /\ 0 <= x /\ x <= 255 /\ x \in Nat
    BY SMT
  <2>2. QED
    BY <1>3, <2>1, ByteIs, Zenon
<1>6. EntryOK(e)
  BY <1>1, <1>2, <1>3, <1>4, <1>5, Zenon DEF EntryOK
<1>7. e.rec_len \in Nat /\ e.rec_len >= 8 + Len(Digits(n)) /\ e.rec_len % 4 = 0 /\ e.rec_len <= 20
  <2> DEFINE x == 8 + Len(Digits(n))
  <2>1. x \in Nat /\ x <= 18
    <3>1. \A u \in 1 .. 10 : 8 + u \in Nat /\ 8 + u <= 18
      BY SMT
    <3>2. QED
      BY <1>3, <3>1, Zenon
  <2> HIDE DEF x
  <2>2. pad_to_4_bytes(x) \in Nat /\ pad_to_4_bytes(x) % 4 = 0 /\ x <= pad_to_4_bytes(x)
        /\ pad_to_4_bytes(x) < x + 4
    BY <2>1, PadIs, Zenon
  <2>3. pad_to_4_bytes(x) <= 20
    BY <2>1, <2>2, SMT
  <2>4. QED
    BY <1>2, <2>2, <2>3, Zenon DEF x
<1>8. QED
  BY <1>1, <1>2, <1>3, <1>6, <1>7, Zenon DEF e

-----------------------------------------------------------------------------
(* A scan of a block *)

\* What a scan reads as long as it follows the chain.
LEMMA ReadHere ==
  ASSUME NEW b \in DirBytes, WellFormed(b), NEW i \in 1 .. Len(Places(b)),
         NEW at, at = Places(b)[i], at < BlockSize,
         NEW e, e = read_dir_entry_in_block(b, at)
  PROVE  /\ at \in Nat
         /\ e \in [ino : Nat, rec_len : Nat, typ : Byte, name : Seq(Byte)]
         /\ Len(e.name) = b[at + 6] /\ Len(e.name) <= 255 /\ Len(e.name) \in Nat
         /\ e.ino # 0 => /\ i \in 1 .. Len(Places(b)) - 1 /\ i + 1 \in 1 .. Len(Places(b))
                         /\ Places(b)[i + 1] = at + e.rec_len
                         /\ e.rec_len = Rec(b, at) /\ e.rec_len <= BlockSize
         /\ e.ino = 0 => Unused(b) /\ at = End(b)
<1> DEFINE P == Places(b)
           L == Len(P)
<1>1. /\ L \in Nat /\ L >= 1 /\ \A j \in 1 .. L : P[j] \in Nat /\ P[j] <= BlockSize
      /\ \A j \in 1 .. L - 1 :
           /\ Inside(b, P[j]) /\ Ino(b, P[j]) # 0 /\ Rec(b, P[j]) \in Nat
           /\ P[j + 1] = P[j] + Rec(b, P[j])
  BY PlacesOK, Zenon
<1>2. WellChained(b, P) /\ End(b) = P[L] /\ (Unused(b) <=> P[L] < BlockSize)
  BY WellIs, Zenon DEF End, Unused
<1>3. at \in Nat
  BY <1>1, Zenon
<1> HIDE DEF P, L
<1>4. i # L => i \in 1 .. L - 1 /\ i + 1 \in 1 .. L
  BY <1>1, SMT DEF P, L
<1>5. at = P[i]
  BY Zenon DEF P
<1>6. i = L => Unused(b) /\ at = End(b) /\ Inside(b, at) /\ Ino(b, at) = 0
  BY <1>2, <1>5, Zenon DEF WellChained, L
<1>7. Inside(b, at)
  BY <1>1, <1>4, <1>5, <1>6, Zenon
<1>8. at + 8 <= BlockSize
  BY <1>7, Zenon DEF Inside, DIR_ENTRY_PREFIX_LEN
<1>9. e.ino = Ino(b, at) /\ e.rec_len = Rec(b, at)
  BY <1>3, <1>8, Numbers, Zenon
<1>10. e.name \in Seq(Byte) /\ Len(e.name) = b[at + 6] /\ Len(e.name) <= 255 /\ Len(e.name) \in Nat
  BY <1>3, <1>7, NameIs, ZenonT(60)
<1>11. e \in [ino : Nat, rec_len : Nat, typ : Byte, name : Seq(Byte)]
  <2>1. /\ e = [ino |-> Ino(b, at), rec_len |-> Rec(b, at), typ |-> b[at + 7],
                name |-> [j \in 1 .. b[at + 6] |-> b[at + 8 + j - 1]]]
        /\ Ino(b, at) \in Nat /\ Rec(b, at) \in Nat /\ b[at + 7] \in Byte
    BY <1>3, <1>8, Fields, Zenon
  <2> DEFINE nm == [j \in 1 .. b[at + 6] |-> b[at + 8 + j - 1]]
  <2>2. e.name = nm
    BY <2>1, SMT
  <2> HIDE DEF nm
  <2>3. nm \in Seq(Byte)
    BY <1>10, <2>2, Zenon
  <2>4. e = [ino |-> Ino(b, at), rec_len |-> Rec(b, at), typ |-> b[at + 7], name |-> nm]
    BY <2>1, Zenon DEF nm
  <2> DEFINE S == Seq(Byte)
  <2>5. nm \in S
    BY <2>3
  <2>6. QED
    <3> HIDE DEF S
    <3>1. \A x, y \in Nat : \A z \in Byte : \A w \in S :
            [ino |-> x, rec_len |-> y, typ |-> z, name |-> w]
              \in [ino : Nat, rec_len : Nat, typ : Byte, name : S]
      OBVIOUS
    <3>2. e \in [ino : Nat, rec_len : Nat, typ : Byte, name : S]
      BY <2>1, <2>4, <2>5, <3>1, ZenonT(60)
    <3>3. QED
      BY <3>2 DEF S
<1>12. ASSUME e.ino # 0
       PROVE  /\ i \in 1 .. L - 1 /\ i + 1 \in 1 .. L /\ P[i + 1] = at + e.rec_len
              /\ e.rec_len = Rec(b, at) /\ e.rec_len <= BlockSize
  <2>1. i # L
    BY <1>6, <1>9, <1>12, Zenon
  <2>2. i \in 1 .. L - 1 /\ i + 1 \in 1 .. L
    BY <1>4, <2>1, Zenon
  <2>3. P[i + 1] = at + e.rec_len /\ P[i + 1] \in Nat /\ P[i + 1] <= BlockSize /\ e.rec_len \in Nat
    BY <1>1, <1>5, <1>9, <2>2, Zenon DEF L
  <2>4. \A x, u, v \in Nat : u = x + v /\ u <= BlockSize => v <= BlockSize
    BY BlockAssumption, SMT
  <2>5. e.rec_len <= BlockSize
    BY <1>3, <2>3, <2>4, Zenon
  <2>6. QED
    BY <1>9, <2>2, <2>3, <2>5, Zenon
<1>13. ASSUME e.ino = 0
       PROVE  Unused(b) /\ at = End(b)
  <2>1. i = L
    BY <1>1, <1>4, <1>5, <1>9, <1>13, Zenon DEF L
  <2>2. QED
    BY <1>6, <2>1
<1>14. QED
  BY <1>3, <1>10, <1>11, <1>12, <1>13, Zenon DEF P, L

\* A scan that has read a whole block has no unused entry behind it.
LEMMA ScanEnds ==
  ASSUME NEW b \in DirBytes, NEW i \in 1 .. Len(Places(b)),
         NEW at, at = Places(b)[i], ~ (at < BlockSize)
  PROVE  at = BlockSize /\ i = Len(Places(b)) /\ i > 1 /\ ~ Unused(b)
<1>1. /\ Len(Places(b)) \in Nat /\ Places(b)[1] = 0
      /\ at \in Nat /\ at <= BlockSize
  BY PlacesOK, Zenon
<1>2. at = BlockSize /\ BlockSize # 0
  BY <1>1, BlockAssumption, SMT
<1>3. i = Len(Places(b))
  <2>1. i \notin 1 .. Len(Places(b)) - 1
    <3>1. ASSUME i \in 1 .. Len(Places(b)) - 1 PROVE FALSE
      <4>1. at + 8 <= BlockSize
        BY <3>1, PlacesOK, Zenon
      <4>2. QED
        BY <1>2, <4>1, BlockAssumption, SMT
    <3>2. QED
      BY <3>1
  <2>2. QED
    BY <1>1, <2>1, SMT
<1>4. i # 1
  BY <1>1, <1>2, Zenon
<1>5. ~ Unused(b)
  BY <1>3, Zenon DEF Unused, End
<1>6. QED
  BY <1>1, <1>2, <1>3, <1>4, <1>5, SMT

\* The chain from place 0 to the end of a block has an entry.
LEMMA NotEmpty ==
  ASSUME NEW b \in DirBytes, ~ Unused(b)
  PROVE  /\ Len(Places(b)) - 1 \in 1 .. Len(Places(b)) - 1
         /\ Len(Places(b)) - 1 \in 1 .. Len(Places(b))
         /\ (Len(Places(b)) - 1) + 1 = Len(Places(b))
         /\ Len(Places(b)) \in Nat /\ Len(Places(b)) >= 2 /\ Places(b)[Len(Places(b))] = BlockSize
<1>1. Len(Places(b)) \in Nat /\ Len(Places(b)) \in 1 .. Len(Places(b))
  BY PlacesOK, SMT
<1>2. ~ (Places(b)[Len(Places(b))] < BlockSize)
  BY Zenon DEF Unused, End
<1>3. Places(b)[Len(Places(b))] = BlockSize /\ Len(Places(b)) > 1
  BY <1>1, <1>2, ScanEnds, Zenon
<1>4. QED
  BY <1>1, <1>3, SMT

-----------------------------------------------------------------------------
(* The blocks of all directories *)

\* One block of one directory is replaced.
LEMMA BlockReplaced ==
  ASSUME NEW old \in [Dirs -> Seq(DirBytes)], NEW d \in Dirs, NEW j \in DOMAIN old[d],
         NEW c \in DirBytes, NEW new, new = [old EXCEPT ![d][j] = c]
  PROVE  /\ new \in [Dirs -> Seq(DirBytes)]
         /\ \A x \in Dirs : DOMAIN new[x] = DOMAIN old[x] /\ Len(new[x]) = Len(old[x])
         /\ \A x \in Dirs : new[x] = <<>> <=> old[x] = <<>>
         /\ \A x \in Dirs : x # d => new[x] = old[x]
         /\ \A i \in DOMAIN old[d] : i # j => new[d][i] = old[d][i]
         /\ new[d][j] = c
<1> DEFINE s == [old[d] EXCEPT ![j] = c]
<1>1. old[d] \in Seq(DirBytes)
  OBVIOUS
<1>2. s \in Seq(DirBytes) /\ Len(s) = Len(old[d])
  <2>1. j \in 1 .. Len(old[d])
    BY <1>1, LenProperties
  <2>2. QED
    BY <1>1, <2>1, ExceptSeq
<1>3. s[j] = c /\ \A i \in DOMAIN old[d] : i # j => s[i] = old[d][i]
  BY SMT
<1>4. DOMAIN s = DOMAIN old[d]
  BY SMT
<1>5. new = [old EXCEPT ![d] = s]
  OBVIOUS
<1> HIDE DEF s
<1>6. new[d] = s /\ \A x \in Dirs : x # d => new[x] = old[x]
  BY <1>5
<1>7. new \in [Dirs -> Seq(DirBytes)]
  BY <1>2, <1>5
<1>8. s = <<>> <=> old[d] = <<>>
  BY <1>1, <1>2, EmptySeq
<1>9. QED
  BY <1>2, <1>3, <1>4, <1>6, <1>7, <1>8, Zenon

-----------------------------------------------------------------------------
(* The invariant: a scan is at a place of the chain of the block it reads,  *)
(* and has read the place before.                                          *)

BlocksThere == \A d \in Dirs : blocks[d] # <<>>

ShortName == Len(entry.name) \in Nat /\ Len(entry.name) <= 255

AllTodo == pc \in {"p1_open", "p1_scan"} => todo = Requests

SomeTodo == pc \in {"p2_open", "p2_scan", "p2_place", "p2_parent"} => todo # <<>>

BufIsBlock ==
  pc \in {"p1_scan", "p2_scan", "p2_place"} => k \in DOMAIN blocks[Self] /\ buf = blocks[Self][k]

\* len and entry are of the entry at place i of b.
LastRead(b, i) ==
  /\ len = Rec(b, Places(b)[i])
  /\ Len(entry.name) = b[Places(b)[i] + 6]

AtP1Scan ==
  pc = "p1_scan" => count + 1 \in 1 .. Len(Places(buf)) /\ offset = Places(buf)[count + 1]

AtP2Scan ==
  pc = "p2_scan" => \E i \in 1 .. Len(Places(buf)) :
                       offset = Places(buf)[i] /\ (i > 1 => LastRead(buf, i - 1))

AtP2Place ==
  pc = "p2_place" =>
    \/ Unused(buf) /\ offset = End(buf) /\ len = -1
    \/ ~ Unused(buf) /\ offset = BlockSize /\ LastRead(buf, Len(Places(buf)) - 1)

DInv ==
  /\ DTypeOK /\ ChainsOK /\ DotsFirst /\ BlocksThere /\ ShortName
  /\ AllTodo /\ SomeTodo /\ BufIsBlock
  /\ AtP1Scan /\ AtP2Scan /\ AtP2Place

\* The types without the control state.
VarsOK ==
  /\ blocks \in [Dirs -> Seq(DirBytes)]
  /\ todo \in Seq(Lost)
  /\ k \in Nat \ {0}
  /\ buf \in DirBytes
  /\ offset \in 0 .. BlockSize /\ len \in -1 .. BlockSize /\ count \in Nat
  /\ entry \in [ino : Nat, rec_len : Nat, typ : Byte, name : Seq(Byte)]

\* What a new entry may be.
LEMMA FreshEntryIs ==
  ASSUME NEW e \in Uninitialised
  PROVE  /\ e \in [ino : Nat, rec_len : Nat, typ : Byte, name : Seq(Byte)]
         /\ Len(e.name) \in Nat /\ Len(e.name) <= 255
<1>1. e \in [ino : Nat, rec_len : Nat, typ : Byte, name : Seq(Byte)] /\ Len(e.name) <= 255
  BY UninitialisedAssumption, Zenon
<1>2. e.name \in Seq(Byte)
  BY <1>1, SMT
<1>3. QED
  BY <1>1, <1>2, LenProperties

\* lost+found is one of the directories and not a lost one.
LEMMA SelfIs == Self \in Dirs /\ Self \notin LostDir /\ LostDir \subseteq Dirs
BY BlockAssumption DEF Dirs

\* As long as no block is written the chains stay.
LEMMA Kept ==
  ASSUME DInv, blocks' = blocks
  PROVE  ChainsOK' /\ DotsFirst' /\ BlocksThere'
BY Zenon DEF DInv, ChainsOK, DotsFirst, BlocksThere

\* The block the loop over lost+found is at.
LEMMA BlockIs ==
  ASSUME blocks \in [Dirs -> Seq(DirBytes)], ChainsOK, NEW j \in DOMAIN blocks[Self]
  PROVE  blocks[Self][j] \in DirBytes /\ WellFormed(blocks[Self][j])
<1>1. blocks[Self] \in Seq(DirBytes)
  BY SelfIs
<1>2. j \in 1 .. Len(blocks[Self])
  BY <1>1, LenProperties
<1>3. QED
  BY <1>1, <1>2, ElementOfSeq, SelfIs, Zenon DEF ChainsOK

\* The start of a block.
LEMMA StartIs ==
  ASSUME NEW b \in DirBytes
  PROVE  1 \in 1 .. Len(Places(b)) /\ Places(b)[1] = 0 /\ 0 \in 0 .. BlockSize
BY PlacesOK, BlockAssumption, SMT

LEMMA DInvP1OpenBlock ==
  ASSUME DInv, P1OpenBlock
  PROVE  DInv'
<1>1. /\ pc = "p1_open" /\ Open("p1_scan", "p2_next")
      /\ blocks' = blocks /\ todo' = todo /\ k' = k /\ len' = len /\ entry' = entry
  BY Zenon DEF P1OpenBlock
<1>2. ChainsOK' /\ DotsFirst' /\ BlocksThere'
  BY <1>1, Kept, Zenon
<1>3. VarsOK /\ ShortName /\ todo = Requests
  BY <1>1, Zenon DEF DInv, DTypeOK, VarsOK, AllTodo
<1>4. CASE k <= Len(blocks[Self])
  <2>1. pc' = "p1_scan" /\ buf' = blocks[Self][k] /\ offset' = 0 /\ count' = 0
    BY <1>1, <1>4, Zenon DEF Open
  <2>2. k \in DOMAIN blocks[Self]
    BY <1>3, <1>4, SelfIs, SMT DEF VarsOK
  <2>3. buf' \in DirBytes
    BY <1>3, <2>1, <2>2, BlockIs, Zenon DEF DInv, VarsOK
  <2>4. 0 + 1 \in 1 .. Len(Places(buf')) /\ 0 = Places(buf')[0 + 1] /\ 0 \in 0 .. BlockSize /\ 0 \in Nat
    <3>1. 0 + 1 = 1 /\ 0 \in Nat
      BY SMT
    <3>2. QED
      BY <2>3, <3>1, StartIs, Zenon
  <2>5. VarsOK'
    BY <1>1, <1>3, <2>1, <2>3, <2>4, Zenon DEF VarsOK
  <2>6. DTypeOK'
    BY <2>1, <2>5, Zenon DEF DTypeOK, VarsOK
  <2>7. ShortName' /\ AllTodo' /\ SomeTodo' /\ BufIsBlock' /\ AtP1Scan' /\ AtP2Scan' /\ AtP2Place'
    BY <1>1, <1>3, <2>1, <2>2, <2>4
       DEF ShortName, AllTodo, SomeTodo, BufIsBlock, AtP1Scan, AtP2Scan, AtP2Place
  <2>8. QED
    BY <1>2, <2>6, <2>7, Zenon DEF DInv
<1>5. CASE ~ (k <= Len(blocks[Self]))
  <2>1. pc' = "p2_next" /\ buf' = buf /\ offset' = offset /\ count' = count
    BY <1>1, <1>5, Zenon DEF Open
  <2>2. DTypeOK'
    BY <1>1, <1>3, <2>1, Zenon DEF VarsOK, DTypeOK
  <2>3. ShortName' /\ AllTodo' /\ SomeTodo' /\ BufIsBlock' /\ AtP1Scan' /\ AtP2Scan' /\ AtP2Place'
    BY <1>1, <1>3, <2>1
       DEF ShortName, AllTodo, SomeTodo, BufIsBlock, AtP1Scan, AtP2Scan, AtP2Place
  <2>4. QED
    BY <1>2, <2>2, <2>3, Zenon DEF DInv
<1>6. QED
  BY <1>4, <1>5

LEMMA DInvP2OpenBlock ==
  ASSUME DInv, P2OpenBlock
  PROVE  DInv'
<1>1. /\ pc = "p2_open" /\ Open("p2_scan", "p2_parent")
      /\ blocks' = blocks /\ todo' = todo /\ k' = k /\ len' = len /\ entry' = entry
  BY Zenon DEF P2OpenBlock
<1>2. ChainsOK' /\ DotsFirst' /\ BlocksThere'
  BY <1>1, Kept, Zenon
<1>3. VarsOK /\ ShortName /\ todo # <<>>
  BY <1>1, Zenon DEF DInv, DTypeOK, VarsOK, SomeTodo
<1>4. CASE k <= Len(blocks[Self])
  <2>1. pc' = "p2_scan" /\ buf' = blocks[Self][k] /\ offset' = 0 /\ count' = 0
    BY <1>1, <1>4, Zenon DEF Open
  <2>2. k \in DOMAIN blocks[Self]
    BY <1>3, <1>4, SelfIs, SMT DEF VarsOK
  <2>3. buf' \in DirBytes
    BY <1>3, <2>1, <2>2, BlockIs, Zenon DEF DInv, VarsOK
  <2>4. \E i \in 1 .. Len(Places(buf')) : 0 = Places(buf')[i] /\ (i > 1 => LastRead(buf, i - 1)')
    <3>1. 1 \in 1 .. Len(Places(buf')) /\ 0 = Places(buf')[1] /\ ~ (1 > 1)
      BY <2>3, StartIs, SMT
    <3>2. QED
      BY <3>1
  <2>5. 0 \in 0 .. BlockSize /\ 0 \in Nat
    BY BlockAssumption, SMT
  <2>6. DTypeOK'
    BY <1>1, <1>3, <2>1, <2>3, <2>5, Zenon DEF DTypeOK, VarsOK
  <2>7. AtP2Scan'
    BY <2>1, <2>4, Zenon DEF AtP2Scan
  <2>8. ShortName' /\ AllTodo' /\ SomeTodo' /\ BufIsBlock' /\ AtP1Scan' /\ AtP2Place'
    BY <1>1, <1>3, <2>1, <2>2
       DEF ShortName, AllTodo, SomeTodo, BufIsBlock, AtP1Scan, AtP2Place
  <2>9. QED
    BY <1>2, <2>6, <2>7, <2>8, Zenon DEF DInv
<1>5. CASE ~ (k <= Len(blocks[Self]))
  <2>1. pc' = "p2_parent" /\ buf' = buf /\ offset' = offset /\ count' = count
    BY <1>1, <1>5, Zenon DEF Open
  <2>2. DTypeOK'
    BY <1>1, <1>3, <2>1, Zenon DEF VarsOK, DTypeOK
  <2>3. ShortName' /\ AllTodo' /\ SomeTodo' /\ BufIsBlock' /\ AtP1Scan' /\ AtP2Scan' /\ AtP2Place'
    BY <1>1, <1>3, <2>1
       DEF ShortName, AllTodo, SomeTodo, BufIsBlock, AtP1Scan, AtP2Scan, AtP2Place
  <2>4. QED
    BY <1>2, <2>2, <2>3, Zenon DEF DInv
<1>6. QED
  BY <1>4, <1>5

LEMMA DInvP1NextBlock ==
  ASSUME DInv, P1NextBlock
  PROVE  DInv'
<1>1. /\ pc = "p1_scan" /\ pc' = "p1_open" /\ k' = k + 1
      /\ blocks' = blocks /\ todo' = todo /\ buf' = buf /\ offset' = offset /\ len' = len
      /\ entry' = entry /\ count' = count
  BY Zenon DEF P1NextBlock
<1>2. ChainsOK' /\ DotsFirst' /\ BlocksThere'
  BY <1>1, Kept, Zenon
<1>3. VarsOK /\ ShortName /\ todo = Requests
  BY <1>1, Zenon DEF DInv, DTypeOK, VarsOK, AllTodo
<1>4. k' \in Nat \ {0}
  BY <1>1, <1>3, SMT DEF VarsOK
<1>5. DTypeOK'
  BY <1>1, <1>3, <1>4, Zenon DEF VarsOK, DTypeOK
<1>6. ShortName' /\ AllTodo' /\ SomeTodo' /\ BufIsBlock' /\ AtP1Scan' /\ AtP2Scan' /\ AtP2Place'
  BY <1>1, <1>3
     DEF ShortName, AllTodo, SomeTodo, BufIsBlock, AtP1Scan, AtP2Scan, AtP2Place
<1>7. QED
  BY <1>2, <1>5, <1>6, Zenon DEF DInv

LEMMA DInvP2Call ==
  ASSUME DInv, P2Call
  PROVE  DInv'
<1>1. /\ pc = "p2_next" /\ todo # <<>> /\ pc' = "p2_open" /\ k' = 1
      /\ blocks' = blocks /\ todo' = todo /\ buf' = buf /\ offset' = offset /\ len' = len
      /\ entry' \in Uninitialised /\ count' = count
  BY Zenon DEF P2Call
<1>2. ChainsOK' /\ DotsFirst' /\ BlocksThere'
  BY <1>1, Kept, Zenon
<1>3. VarsOK
  BY <1>1, Zenon DEF DInv, DTypeOK, VarsOK
<1>4. /\ k' \in Nat \ {0}
      /\ entry' \in [ino : Nat, rec_len : Nat, typ : Byte, name : Seq(Byte)]
      /\ Len(entry'.name) \in Nat /\ Len(entry'.name) <= 255
  <2>1. k' \in Nat \ {0}
    BY <1>1, SMT
  <2>2. PICK e \in Uninitialised : e = entry'
    BY <1>1, Zenon
  <2>3. QED
    BY <2>1, <2>2, FreshEntryIs, Zenon
<1>5. DTypeOK'
  BY <1>1, <1>3, <1>4, Zenon DEF VarsOK, DTypeOK
<1>6. ShortName' /\ AllTodo' /\ SomeTodo' /\ BufIsBlock' /\ AtP1Scan' /\ AtP2Scan' /\ AtP2Place'
  BY <1>1, <1>3, <1>4
     DEF ShortName, AllTodo, SomeTodo, BufIsBlock, AtP1Scan, AtP2Scan, AtP2Place
<1>7. QED
  BY <1>2, <1>5, <1>6, Zenon DEF DInv

\* The block of lost+found that is in dir_block.
LEMMA BufIs ==
  ASSUME DInv, pc \in {"p1_scan", "p2_scan", "p2_place"}
  PROVE  /\ k \in DOMAIN blocks[Self] /\ buf = blocks[Self][k]
         /\ buf \in DirBytes /\ WellFormed(buf) /\ VarsOK /\ ShortName
<1>1. k \in DOMAIN blocks[Self] /\ buf = blocks[Self][k]
  BY Zenon DEF DInv, BufIsBlock
<1>2. VarsOK /\ ShortName /\ ChainsOK
  BY Zenon DEF DInv, DTypeOK, VarsOK
<1>3. QED
  BY <1>1, <1>2, BlockIs, Zenon DEF VarsOK

LEMMA DInvP2Read ==
  ASSUME DInv, P2Read
  PROVE  DInv'
<1>1. /\ pc = "p2_scan" /\ offset < BlockSize /\ Here.ino # 0
      /\ entry' = Here /\ len' = Here.rec_len /\ offset' = offset + Here.rec_len
      /\ pc' = pc /\ blocks' = blocks /\ todo' = todo /\ k' = k /\ buf' = buf /\ count' = count
  BY Zenon DEF P2Read, Reading
<1>2. ChainsOK' /\ DotsFirst' /\ BlocksThere'
  BY <1>1, Kept, Zenon
<1>3. /\ k \in DOMAIN blocks[Self] /\ buf = blocks[Self][k] /\ buf \in DirBytes
      /\ WellFormed(buf) /\ VarsOK /\ todo # <<>>
  BY <1>1, BufIs DEF DInv, SomeTodo
<1>4. PICK i \in 1 .. Len(Places(buf)) : offset = Places(buf)[i]
  BY <1>1, Zenon DEF DInv, AtP2Scan
<1>5. /\ Here \in [ino : Nat, rec_len : Nat, typ : Byte, name : Seq(Byte)]
      /\ Len(Here.name) = buf[offset + 6] /\ Len(Here.name) <= 255 /\ Len(Here.name) \in Nat
      /\ i \in 1 .. Len(Places(buf)) - 1 /\ i + 1 \in 1 .. Len(Places(buf))
      /\ Places(buf)[i + 1] = offset + Here.rec_len
      /\ Here.rec_len = Rec(buf, offset) /\ Here.rec_len <= BlockSize
  <2>1. Here = read_dir_entry_in_block(buf, offset)
    BY DEF Here
  <2>2. offset < BlockSize /\ buf \in DirBytes /\ WellFormed(buf) /\ Here.ino # 0
    BY <1>1, <1>3, Zenon
  <2>3. QED
    BY <1>4, <2>1, <2>2, ReadHere
<1>6. offset' \in 0 .. BlockSize /\ len' \in -1 .. BlockSize
  <2>1. Places(buf)[i + 1] \in Nat /\ Places(buf)[i + 1] <= BlockSize
    BY <1>3, <1>5, PlacesOK, Zenon
  <2>2. Here.rec_len \in Nat
    BY <1>5, SMT
  <2>3. \A x \in Nat : x <= BlockSize => x \in 0 .. BlockSize /\ x \in -1 .. BlockSize
    BY BlockAssumption, SMT
  <2>4. QED
    BY <1>1, <1>5, <2>1, <2>2, <2>3, Zenon
<1>7. DTypeOK'
  BY <1>1, <1>3, <1>5, <1>6, Zenon DEF VarsOK, DTypeOK
<1>8. ShortName'
  BY <1>1, <1>5, Zenon DEF ShortName
<1>9. AtP2Scan'
  <2>1. LastRead(buf, (i + 1) - 1)'
    <3>1. (i + 1) - 1 = i
      BY <1>5, SMT
    <3>2. QED
      BY <1>1, <1>4, <1>5, <3>1, Zenon DEF LastRead
  <2>2. offset' = Places(buf')[i + 1] /\ i + 1 \in 1 .. Len(Places(buf'))
    BY <1>1, <1>5, Zenon
  <2>3. QED
    BY <2>1, <2>2, Zenon DEF AtP2Scan
<1>10. AllTodo' /\ SomeTodo' /\ BufIsBlock' /\ AtP1Scan' /\ AtP2Place'
  <2> HIDE DEF Here
  <2>1. QED
    BY <1>1, <1>3 DEF AllTodo, SomeTodo, BufIsBlock, AtP1Scan, AtP2Place
<1>11. QED
  BY <1>2, <1>7, <1>8, <1>9, <1>10, Zenon DEF DInv

LEMMA DInvP2Unused ==
  ASSUME DInv, P2Unused
  PROVE  DInv'
<1>1. /\ pc = "p2_scan" /\ offset < BlockSize /\ Here.ino = 0
      /\ pc' = "p2_place" /\ entry' = [entry EXCEPT !.ino = 0] /\ len' = -1
      /\ offset' = offset /\ blocks' = blocks /\ todo' = todo /\ k' = k /\ buf' = buf /\ count' = count
  BY Zenon DEF P2Unused, Reading
<1>2. ChainsOK' /\ DotsFirst' /\ BlocksThere'
  BY <1>1, Kept, Zenon
<1>3. /\ k \in DOMAIN blocks[Self] /\ buf = blocks[Self][k] /\ buf \in DirBytes
      /\ WellFormed(buf) /\ VarsOK /\ ShortName /\ todo # <<>>
  BY <1>1, BufIs DEF DInv, SomeTodo
<1>4. PICK i \in 1 .. Len(Places(buf)) : offset = Places(buf)[i]
  BY <1>1, Zenon DEF DInv, AtP2Scan
<1>5. Unused(buf) /\ offset = End(buf)
  <2>1. Here = read_dir_entry_in_block(buf, offset)
    BY DEF Here
  <2>2. offset < BlockSize /\ buf \in DirBytes /\ WellFormed(buf) /\ Here.ino = 0
    BY <1>1, <1>3, Zenon
  <2>3. QED
    BY <1>4, <2>1, <2>2, ReadHere
<1>6. entry' \in [ino : Nat, rec_len : Nat, typ : Byte, name : Seq(Byte)] /\ entry'.name = entry.name
  <2> DEFINE S == Seq(Byte)
  <2>1. entry \in [ino : Nat, rec_len : Nat, typ : Byte, name : S]
    BY <1>3, Zenon DEF VarsOK
  <2> HIDE DEF S
  <2>2. entry' \in [ino : Nat, rec_len : Nat, typ : Byte, name : S] /\ entry'.name = entry.name
    BY <1>1, <2>1, SMT
  <2>3. QED
    BY <2>2, Zenon DEF S
<1>7. -1 \in -1 .. BlockSize
  BY BlockAssumption, SMT
<1>8. DTypeOK'
  BY <1>1, <1>3, <1>6, <1>7, Zenon DEF VarsOK, DTypeOK
<1>9. ShortName'
  BY <1>3, <1>6, Zenon DEF ShortName
<1>10. AllTodo' /\ SomeTodo' /\ BufIsBlock' /\ AtP1Scan' /\ AtP2Scan' /\ AtP2Place'
  BY <1>1, <1>3, <1>5 DEF AllTodo, SomeTodo, BufIsBlock, AtP1Scan, AtP2Scan, AtP2Place
<1>11. QED
  BY <1>2, <1>8, <1>9, <1>10, Zenon DEF DInv

LEMMA DInvP2Scanned ==
  ASSUME DInv, P2Scanned
  PROVE  DInv'
<1>1. /\ pc = "p2_scan" /\ ~ (offset < BlockSize) /\ pc' = "p2_place"
      /\ blocks' = blocks /\ todo' = todo /\ k' = k /\ buf' = buf /\ offset' = offset /\ len' = len
      /\ entry' = entry /\ count' = count
  BY Zenon DEF P2Scanned, Reading
<1>2. ChainsOK' /\ DotsFirst' /\ BlocksThere'
  BY <1>1, Kept, Zenon
<1>3. /\ k \in DOMAIN blocks[Self] /\ buf = blocks[Self][k] /\ buf \in DirBytes
      /\ WellFormed(buf) /\ VarsOK /\ ShortName /\ todo # <<>>
  BY <1>1, BufIs DEF DInv, SomeTodo
<1>4. PICK i \in 1 .. Len(Places(buf)) : offset = Places(buf)[i] /\ (i > 1 => LastRead(buf, i - 1))
  BY <1>1, Zenon DEF DInv, AtP2Scan
<1>5. offset = BlockSize /\ i = Len(Places(buf)) /\ i > 1 /\ ~ Unused(buf)
  BY <1>1, <1>3, <1>4, ScanEnds, Zenon
<1>6. LastRead(buf, Len(Places(buf)) - 1)
  BY <1>4, <1>5, Zenon
<1>7. DTypeOK'
  BY <1>1, <1>3, Zenon DEF VarsOK, DTypeOK
<1>8. AtP2Place'
  BY <1>1, <1>5, <1>6, Zenon DEF AtP2Place, LastRead
<1>9. ShortName' /\ AllTodo' /\ SomeTodo' /\ BufIsBlock' /\ AtP1Scan' /\ AtP2Scan'
  BY <1>1, <1>3 DEF ShortName, AllTodo, SomeTodo, BufIsBlock, AtP1Scan, AtP2Scan
<1>10. QED
  BY <1>2, <1>7, <1>8, <1>9, Zenon DEF DInv

\* What pass 1 does with an entry it reads.
LEMMA Corrected ==
  ASSUME DInv, P1Read
  PROVE  /\ count + 1 \in 1 .. Len(Places(buf)) - 1 /\ (count + 1) + 1 \in 1 .. Len(Places(buf))
         /\ offset' = Places(buf)[(count + 1) + 1]
         /\ len' \in Nat /\ len' <= BlockSize
         /\ entry' \in [ino : Nat, rec_len : Nat, typ : Byte, name : Seq(Byte)]
         /\ Len(entry'.name) \in Nat /\ Len(entry'.name) <= 255
         /\ buf' \in DirBytes /\ WellFormed(buf') /\ Places(buf') = Places(buf)
         /\ \/ ~ Wrong /\ buf' = buf /\ blocks' = blocks
            \/ /\ Wrong /\ blocks' = [blocks EXCEPT ![Self][k] = buf']
               /\ Meaning(buf') = [Meaning(buf) EXCEPT ![count + 1].ino = Expected]
<1>1. /\ pc = "p1_scan" /\ offset < BlockSize /\ Here.ino # 0
      /\ entry' = Here /\ len' = Here.rec_len /\ offset' = offset + Here.rec_len
      /\ \/ ~ Wrong /\ buf' = buf /\ blocks' = blocks
         \/ /\ Wrong /\ buf' = write_number_into_block(buf, offset, Expected, 4)
            /\ blocks' = [blocks EXCEPT ![Self][k] = write_block(buf')]
  BY Zenon DEF P1Read, Reading
<1>2. /\ buf \in DirBytes /\ WellFormed(buf) /\ VarsOK
      /\ count + 1 \in 1 .. Len(Places(buf)) /\ offset = Places(buf)[count + 1]
  BY <1>1, BufIs, Zenon DEF DInv, AtP1Scan
<1>3. /\ Here \in [ino : Nat, rec_len : Nat, typ : Byte, name : Seq(Byte)]
      /\ Len(Here.name) <= 255 /\ Len(Here.name) \in Nat
      /\ count + 1 \in 1 .. Len(Places(buf)) - 1 /\ (count + 1) + 1 \in 1 .. Len(Places(buf))
      /\ Places(buf)[(count + 1) + 1] = offset + Here.rec_len /\ Here.rec_len <= BlockSize
  <2>1. Here = read_dir_entry_in_block(buf, offset)
    BY DEF Here
  <2>2. offset < BlockSize /\ buf \in DirBytes /\ WellFormed(buf) /\ Here.ino # 0
    BY <1>1, <1>2, Zenon
  <2>3. count + 1 \in 1 .. Len(Places(buf)) /\ offset = Places(buf)[count + 1]
    BY <1>2
  <2>4. QED
    BY <2>1, <2>2, <2>3, ReadHere
<1>4. Here.rec_len \in Nat
  BY <1>3, SMT
<1>5. /\ buf' \in DirBytes /\ WellFormed(buf') /\ Places(buf') = Places(buf)
      /\ \/ ~ Wrong /\ buf' = buf /\ blocks' = blocks
         \/ /\ Wrong /\ blocks' = [blocks EXCEPT ![Self][k] = buf']
            /\ Meaning(buf') = [Meaning(buf) EXCEPT ![count + 1].ino = Expected]
  <2>1. CASE ~ Wrong
    BY <1>1, <1>2, <2>1, Zenon
  <2>2. CASE Wrong
    <3>1. buf' = write_number_into_block(buf, offset, Expected, 4)
          /\ blocks' = [blocks EXCEPT ![Self][k] = write_block(buf')]
      BY <1>1, <2>2, Zenon
    <3>2. InodeNumber(Expected)
      BY BlockAssumption, Zenon DEF Expected
    <3>3. /\ buf' \in DirBytes /\ Places(buf') = Places(buf) /\ WellFormed(buf')
          /\ Meaning(buf') = [Meaning(buf) EXCEPT ![count + 1].ino = Expected]
      <4>1. buf \in DirBytes /\ WellFormed(buf) /\ count + 1 \in 1 .. Len(Places(buf)) - 1
            /\ offset = Places(buf)[count + 1]
        BY <1>2, <1>3, Zenon
      <4> DEFINE e == count + 1
                 n == Expected
                 c == buf'
      <4>2. c = write_number_into_block(buf, Places(buf)[e], n, 4) /\ e \in 1 .. Len(Places(buf)) - 1
        BY <3>1, <4>1, Zenon
      <4>3. InodeNumber(n)
        BY <3>2
      <4> HIDE DEF e, n, c
      <4>4. /\ c \in DirBytes /\ Places(c) = Places(buf) /\ WellFormed(c)
            /\ Meaning(c) = [Meaning(buf) EXCEPT ![e].ino = n]
        BY <4>1, <4>2, <4>3, Renumber
      <4>5. QED
        BY <4>4, Zenon DEF c, e, n
    <3>4. write_block(buf') = buf'
      BY <3>3, WholeBlock, Zenon
    <3>5. blocks' = [blocks EXCEPT ![Self][k] = buf']
      BY <3>1, <3>4
    <3>6. QED
      BY <2>2, <3>3, <3>5, Zenon
  <2>3. QED
    BY <2>1, <2>2
<1>6. /\ entry' \in [ino : Nat, rec_len : Nat, typ : Byte, name : Seq(Byte)]
      /\ Len(entry'.name) <= 255 /\ Len(entry'.name) \in Nat /\ len' \in Nat /\ len' <= BlockSize
      /\ offset' = Places(buf)[(count + 1) + 1]
  BY <1>1, <1>3, <1>4, Zenon
<1>7. QED
  BY <1>3, <1>5, <1>6, Zenon

\* A block of lost+found is replaced by one whose chain is sound.
LEMMA SelfReplaced ==
  ASSUME blocks \in [Dirs -> Seq(DirBytes)], ChainsOK, DotsFirst, BlocksThere, NEW j \in DOMAIN blocks[Self],
         NEW c \in DirBytes, WellFormed(c), blocks' = [blocks EXCEPT ![Self][j] = c]
  PROVE  /\ (blocks \in [Dirs -> Seq(DirBytes)])' /\ ChainsOK' /\ DotsFirst' /\ BlocksThere'
         /\ j \in DOMAIN blocks'[Self] /\ blocks'[Self][j] = c
         /\ DOMAIN blocks'[Self] = DOMAIN blocks[Self]
         /\ \A i \in DOMAIN blocks[Self] : i # j => blocks'[Self][i] = blocks[Self][i]
<1>1. /\ blocks' \in [Dirs -> Seq(DirBytes)]
      /\ \A x \in Dirs : DOMAIN blocks'[x] = DOMAIN blocks[x]
      /\ \A x \in Dirs : blocks'[x] = <<>> <=> blocks[x] = <<>>
      /\ \A x \in Dirs : x # Self => blocks'[x] = blocks[x]
      /\ \A i \in DOMAIN blocks[Self] : i # j => blocks'[Self][i] = blocks[Self][i]
      /\ blocks'[Self][j] = c
  <2> DEFINE new == blocks'
  <2>1. new = [blocks EXCEPT ![Self][j] = c]
    OBVIOUS
  <2> HIDE DEF new
  <2>2. /\ new \in [Dirs -> Seq(DirBytes)]
        /\ \A x \in Dirs : DOMAIN new[x] = DOMAIN blocks[x] /\ Len(new[x]) = Len(blocks[x])
        /\ \A x \in Dirs : new[x] = <<>> <=> blocks[x] = <<>>
        /\ \A x \in Dirs : x # Self => new[x] = blocks[x]
        /\ \A i \in DOMAIN blocks[Self] : i # j => new[Self][i] = blocks[Self][i]
        /\ new[Self][j] = c
    BY <2>1, SelfIs, BlockReplaced
  <2>3. QED
    BY <2>2, Zenon DEF new
<1>2. ASSUME NEW d \in Dirs, NEW i \in DOMAIN blocks'[d]
      PROVE  WellFormed(blocks'[d][i])
  <2>1. i \in DOMAIN blocks[d] /\ WellFormed(blocks[d][i])
    BY <1>1, <1>2, Zenon DEF ChainsOK
  <2>2. CASE d = Self /\ i = j
    BY <1>1, <2>2
  <2>3. CASE ~ (d = Self /\ i = j)
    <3>1. blocks'[d][i] = blocks[d][i]
      BY <1>1, <2>1, <2>3, Zenon
    <3>2. QED
      BY <2>1, <3>1
  <2>4. QED
    BY <2>2, <2>3
<1>3. ChainsOK'
  BY <1>2, Zenon DEF ChainsOK
<1>4. \A d \in LostDir : blocks'[d] = blocks[d]
  BY <1>1, SelfIs, Zenon
<1>5. DotsFirst'
  BY <1>4, Zenon DEF DotsFirst
<1>6. BlocksThere'
  BY <1>1, Zenon DEF BlocksThere
<1>7. QED
  BY <1>1, <1>3, <1>5, <1>6, SelfIs, Zenon

LEMMA DInvP1Read ==
  ASSUME DInv, P1Read
  PROVE  DInv'
<1>1. pc = "p1_scan" /\ pc' = pc /\ todo' = todo /\ k' = k /\ count' = count + 1
  BY Zenon DEF P1Read
<1>2. /\ k \in DOMAIN blocks[Self] /\ buf = blocks[Self][k] /\ VarsOK /\ todo = Requests
      /\ blocks \in [Dirs -> Seq(DirBytes)] /\ ChainsOK /\ DotsFirst /\ BlocksThere
  BY <1>1, BufIs, Zenon DEF DInv, AllTodo, VarsOK
<1>3. /\ (count + 1) + 1 \in 1 .. Len(Places(buf)) /\ offset' = Places(buf)[(count + 1) + 1]
      /\ len' \in Nat /\ len' <= BlockSize
      /\ entry' \in [ino : Nat, rec_len : Nat, typ : Byte, name : Seq(Byte)]
      /\ Len(entry'.name) \in Nat /\ Len(entry'.name) <= 255
      /\ buf' \in DirBytes /\ WellFormed(buf') /\ Places(buf') = Places(buf)
      /\ \/ buf' = buf /\ blocks' = blocks
         \/ blocks' = [blocks EXCEPT ![Self][k] = buf']
  BY Corrected, Zenon
<1>4. /\ blocks' \in [Dirs -> Seq(DirBytes)] /\ ChainsOK' /\ DotsFirst' /\ BlocksThere'
      /\ k \in DOMAIN blocks'[Self] /\ blocks'[Self][k] = buf'
  <2>1. CASE buf' = buf /\ blocks' = blocks
    BY <1>2, <2>1, Kept, Zenon
  <2>2. CASE blocks' = [blocks EXCEPT ![Self][k] = buf']
    <3> DEFINE c == buf'
    <3>1. c \in DirBytes /\ WellFormed(c) /\ blocks' = [blocks EXCEPT ![Self][k] = c]
      BY <1>3, <2>2
    <3> HIDE DEF c
    <3>2. /\ (blocks \in [Dirs -> Seq(DirBytes)])' /\ ChainsOK' /\ DotsFirst' /\ BlocksThere'
          /\ k \in DOMAIN blocks'[Self] /\ blocks'[Self][k] = c
      BY <1>2, <3>1, SelfReplaced
    <3>3. QED
      BY <3>2, Zenon DEF c
  <2>3. QED
    BY <1>3, <2>1, <2>2
<1>5. offset' \in 0 .. BlockSize /\ len' \in -1 .. BlockSize /\ count' \in Nat
  <2>1. offset' \in Nat /\ offset' <= BlockSize /\ buf \in DirBytes
    BY <1>2, <1>3, PlacesOK, Zenon DEF VarsOK
  <2>2. \A x \in Nat : x <= BlockSize => x \in 0 .. BlockSize /\ x \in -1 .. BlockSize
    BY BlockAssumption, SMT
  <2>3. count \in Nat
    BY <1>2 DEF VarsOK
  <2>4. count' \in Nat
    BY <1>1, <2>3, SMT
  <2>5. QED
    BY <1>3, <2>1, <2>2, <2>4, Zenon
<1>6. DTypeOK'
  BY <1>1, <1>2, <1>3, <1>4, <1>5, Zenon DEF VarsOK, DTypeOK
<1>7. AtP1Scan'
  BY <1>1, <1>3, Zenon DEF AtP1Scan
<1>8. BufIsBlock'
  BY <1>1, <1>4, Zenon DEF BufIsBlock
<1>9. ShortName'
  BY <1>3, Zenon DEF ShortName
<1>10. AllTodo' /\ SomeTodo' /\ AtP2Scan' /\ AtP2Place'
  BY <1>1, <1>2 DEF AllTodo, SomeTodo, AtP2Scan, AtP2Place
<1>11. QED
  BY <1>4, <1>6, <1>7, <1>8, <1>9, <1>10, Zenon DEF DInv

\* The object that is being attached.
LEMMA HeadIs ==
  ASSUME todo \in Seq(Lost), todo # <<>>
  PROVE  Head(todo) \in Lost /\ Tail(todo) \in Seq(Lost) /\ Head(todo) = todo[1]
BY HeadTailProperties, SMT

\* The length the last entry is cut down to.
LEMMA RealLenIs ==
  ASSUME ShortName
  PROVE  RealLen \in Nat /\ RealLen >= 8 /\ RealLen < 512
         /\ RealLen = pad_to_4_bytes(8 + Len(entry.name))
<1> DEFINE m == Len(entry.name)
<1>1. m \in Nat /\ m <= 255
  BY Zenon DEF ShortName
<1>2. RealLen = pad_to_4_bytes(8 + m)
  BY Zenon DEF RealLen, DIR_ENTRY_PREFIX_LEN
<1> HIDE DEF m
<1>3. 8 + m \in Nat
  BY <1>1, SMT
<1>4. RealLen \in Nat /\ 8 + m <= RealLen /\ RealLen < (8 + m) + 4
  BY <1>2, <1>3, PadIs, Zenon
<1>5. RealLen >= 8 /\ RealLen < 512
  BY <1>1, <1>4, SMT
<1>6. QED
  BY <1>2, <1>4, <1>5, Zenon DEF m

\* Where add_to_lost_found takes the last entry to be.
LEMMA LastAtIs ==
  ASSUME DInv, pc = "p2_place"
  PROVE  /\ Unused(buf) => LastAt = End(buf) + 1 /\ LastAt \in 0 .. BlockSize
         /\ ~ Unused(buf) => /\ LastAt = Places(buf)[Len(Places(buf)) - 1]
                             /\ len = Rec(buf, LastAt) /\ LastAt \in 0 .. BlockSize
                             /\ LastAt \in Nat /\ BlockSize = LastAt + Rec(buf, LastAt)
                             /\ RealLen = pad_to_4_bytes(8 + buf[LastAt + 6])
<1>1. buf \in DirBytes /\ WellFormed(buf) /\ VarsOK /\ ShortName
  BY BufIs, Zenon
<1>2. \/ Unused(buf) /\ offset = End(buf) /\ len = -1
      \/ ~ Unused(buf) /\ offset = BlockSize /\ LastRead(buf, Len(Places(buf)) - 1)
  BY Zenon DEF DInv, AtP2Place
<1>3. CASE Unused(buf)
  <2>1. offset = End(buf) /\ len = -1 /\ End(buf) < BlockSize /\ offset \in 0 .. BlockSize
    BY <1>1, <1>2, <1>3, Zenon DEF Unused, VarsOK
  <2>2. LastAt = End(buf) + 1 /\ LastAt \in 0 .. BlockSize
    BY <2>1, BlockAssumption, SMT DEF LastAt
  <2>3. QED
    BY <1>3, <2>2
<1>4. CASE ~ Unused(buf)
  <2> DEFINE at == Places(buf)[Len(Places(buf)) - 1]
  <2>1. offset = BlockSize /\ len = Rec(buf, at) /\ Len(entry.name) = buf[at + 6]
    BY <1>2, <1>4, Zenon DEF LastRead
  <2>2. /\ at \in Nat /\ at <= BlockSize /\ Rec(buf, at) \in Nat /\ BlockSize = at + Rec(buf, at)
    <3>1. /\ Len(Places(buf)) - 1 \in 1 .. Len(Places(buf)) - 1
          /\ Len(Places(buf)) - 1 \in 1 .. Len(Places(buf))
          /\ (Len(Places(buf)) - 1) + 1 = Len(Places(buf))
          /\ Places(buf)[Len(Places(buf))] = BlockSize
      BY <1>1, <1>4, NotEmpty, Zenon
    <3>2. Places(buf)[(Len(Places(buf)) - 1) + 1] = at + Rec(buf, at) /\ Rec(buf, at) \in Nat
      BY <1>1, <3>1, PlacesOK, Zenon
    <3>3. at \in Nat /\ at <= BlockSize
      BY <1>1, <3>1, PlacesOK, Zenon
    <3>4. QED
      BY <3>1, <3>2, <3>3, Zenon
  <2> HIDE DEF at
  <2>3. LastAt = at
    <3>1. \A x, y \in Nat : BlockSize = x + y => BlockSize - y = x
      BY BlockAssumption, SMT
    <3>2. QED
      BY <2>1, <2>2, <3>1, Zenon DEF LastAt
  <2>4. at \in 0 .. BlockSize
    BY <2>2, BlockAssumption, SMT
  <2>5. RealLen = pad_to_4_bytes(8 + buf[LastAt + 6])
    BY <1>1, <2>1, <2>3, RealLenIs, Zenon
  <2>6. QED
    BY <1>4, <2>1, <2>2, <2>3, <2>4, <2>5, Zenon DEF at
<1>5. QED
  BY <1>3, <1>4

\* What pass 2 does with a block that has room.
LEMMA PlacedIs ==
  ASSUME DInv, P2Place
  PROVE  /\ buf' \in DirBytes /\ WellFormed(buf') /\ blocks' = [blocks EXCEPT ![Self][k] = buf']
         /\ offset' \in 0 .. BlockSize
         /\ \/ Unused(buf) /\ Unused(buf') /\ Meaning(buf') = Meaning(buf)
            \/ /\ ~ Unused(buf) /\ ~ Unused(buf')
               /\ Meaning(buf') = Append(Meaning(buf), [ino |-> NewEntry.ino, typ |-> NewEntry.typ,
                                                        name |-> NewEntry.name])
<1>1. /\ pc = "p2_place" /\ HasRoom(LastAt, RealLen, NewEntry.rec_len)
      /\ buf' = Placed(buf, LastAt, RealLen, NewEntry)
      /\ blocks' = [blocks EXCEPT ![Self][k] = write_block(buf')] /\ offset' = LastAt
  BY Zenon DEF P2Place, Placed
<1>2. buf \in DirBytes /\ WellFormed(buf) /\ VarsOK /\ ShortName /\ todo \in Seq(Lost) /\ todo # <<>>
  BY <1>1, BufIs DEF DInv, SomeTodo, VarsOK
<1>3. Head(todo) \in Lost
  BY <1>2, HeadIs, Zenon
<1>4. /\ EntryOK(NewEntry) /\ NewEntry.rec_len \in Nat
      /\ NewEntry.rec_len >= 8 + Len(NewEntry.name)
  BY <1>3, NewEntryIs, Zenon DEF NewEntry
<1>5. Len(NewEntry.name) \in Nat
  BY <1>4, Zenon DEF EntryOK
<1>6. RealLen \in Nat /\ RealLen >= 8 /\ RealLen < 512
  BY <1>2, RealLenIs, Zenon
<1>7. /\ Unused(buf) => LastAt = End(buf) + 1
      /\ ~ Unused(buf) => /\ LastAt = Places(buf)[Len(Places(buf)) - 1]
                          /\ RealLen = pad_to_4_bytes(8 + buf[LastAt + 6])
      /\ LastAt \in 0 .. BlockSize
  BY <1>1, LastAtIs, Zenon
<1>8. LastAt + RealLen + 9 + Len(NewEntry.name) <= BlockSize
  <2>1. \A x, u, v, w \in Nat : x + u + v < BlockSize /\ v >= 8 + w => x + u + 9 + w <= BlockSize
    BY BlockAssumption, SMT
  <2>2. LastAt + RealLen + NewEntry.rec_len < BlockSize
    BY <1>1, Zenon DEF HasRoom
  <2>3. LastAt \in Nat
    BY <1>7, BlockAssumption, SMT
  <2>4. QED
    BY <1>4, <1>5, <1>6, <2>1, <2>2, <2>3, Zenon
<1> DEFINE e == NewEntry
           r == RealLen
           at == LastAt
           c == buf'
           b == buf
<1>9. c = Placed(b, at, r, e) /\ EntryOK(e) /\ b \in DirBytes /\ WellFormed(b)
      /\ r \in Nat /\ r >= 8 /\ r < 512 /\ at + r + 9 + Len(e.name) <= BlockSize
  BY <1>1, <1>2, <1>4, <1>6, <1>8, Zenon
<1>10. /\ Unused(b) => at = End(b) + 1
       /\ ~ Unused(b) => at = Places(b)[Len(Places(b)) - 1] /\ r = pad_to_4_bytes(8 + b[at + 6])
  BY <1>7, Zenon
<1> HIDE DEF e, r, at, c, b
<1>11. CASE Unused(b)
  <2>1. at = End(b) + 1
    BY <1>10, <1>11
  <2>2. c = Placed(b, End(b) + 1, r, e) /\ (End(b) + 1) + r + 9 + Len(e.name) <= BlockSize
    BY <1>9, <2>1, Zenon
  <2>3. /\ c \in DirBytes /\ WellFormed(c) /\ Places(c) = Places(b) /\ Meaning(c) = Meaning(b)
    BY <1>9, <1>11, <2>2, PlacedInHole
  <2>4. Unused(c)
    BY <1>11, <2>3, Zenon DEF Unused, End
  <2>5. QED
    <3>1. buf' \in DirBytes /\ WellFormed(buf') /\ Unused(buf) /\ Unused(buf') /\ Meaning(buf') = Meaning(buf)
      BY <1>11, <2>3, <2>4, Zenon DEF b, c
    <3>2. write_block(buf') = buf'
      BY <3>1, WholeBlock, Zenon
    <3>3. blocks' = [blocks EXCEPT ![Self][k] = buf']
      BY <1>1, <3>2
    <3>4. QED
      BY <1>1, <1>7, <3>1, <3>3, Zenon
<1>12. CASE ~ Unused(b)
  <2>1. at = Places(b)[Len(Places(b)) - 1] /\ r = pad_to_4_bytes(8 + b[at + 6])
    BY <1>10, <1>12
  <2>2. /\ Placed(b, at, r, e) \in DirBytes /\ WellFormed(Placed(b, at, r, e))
        /\ End(Placed(b, at, r, e)) = BlockSize
        /\ Meaning(Placed(b, at, r, e)) =
              Append(Meaning(b), [ino |-> e.ino, typ |-> e.typ, name |-> e.name])
    BY <1>9, <1>12, <2>1, PlacedBehind, SMTT(30)
  <2>3. /\ c \in DirBytes /\ WellFormed(c) /\ End(c) = BlockSize
        /\ Meaning(c) = Append(Meaning(b), [ino |-> e.ino, typ |-> e.typ, name |-> e.name])
    BY <1>9, <2>2, Zenon
  <2>4. ~ Unused(c)
    BY <2>3, BlockAssumption, SMT DEF Unused
  <2>5. QED
    <3>1. /\ buf' \in DirBytes /\ WellFormed(buf') /\ ~ Unused(buf) /\ ~ Unused(buf')
          /\ Meaning(buf') = Append(Meaning(buf), [ino |-> NewEntry.ino, typ |-> NewEntry.typ,
                                                   name |-> NewEntry.name])
      BY <1>12, <2>3, <2>4, Zenon DEF b, c, e
    <3>2. write_block(buf') = buf'
      BY <3>1, WholeBlock, Zenon
    <3>3. blocks' = [blocks EXCEPT ![Self][k] = buf']
      BY <1>1, <3>2
    <3>4. QED
      BY <1>1, <1>7, <3>1, <3>3, Zenon
<1>13. QED
  BY <1>11, <1>12

LEMMA DInvP2Place ==
  ASSUME DInv, P2Place
  PROVE  DInv'
<1>1. /\ pc = "p2_place" /\ pc' = "p2_parent" /\ todo' = todo /\ k' = k /\ len' = len
      /\ entry' = entry /\ count' = count
  BY Zenon DEF P2Place
<1>2. /\ k \in DOMAIN blocks[Self] /\ VarsOK /\ ShortName /\ todo # <<>>
      /\ blocks \in [Dirs -> Seq(DirBytes)] /\ ChainsOK /\ DotsFirst /\ BlocksThere
  BY <1>1, BufIs DEF DInv, SomeTodo, VarsOK
<1>3. /\ buf' \in DirBytes /\ WellFormed(buf') /\ blocks' = [blocks EXCEPT ![Self][k] = buf']
      /\ offset' \in 0 .. BlockSize
  BY PlacedIs, Zenon
<1>4. blocks' \in [Dirs -> Seq(DirBytes)] /\ ChainsOK' /\ DotsFirst' /\ BlocksThere'
  <2> DEFINE c == buf'
  <2>1. c \in DirBytes /\ WellFormed(c) /\ blocks' = [blocks EXCEPT ![Self][k] = c]
    BY <1>3
  <2> HIDE DEF c
  <2>2. (blocks \in [Dirs -> Seq(DirBytes)])' /\ ChainsOK' /\ DotsFirst' /\ BlocksThere'
    BY <1>2, <2>1, SelfReplaced
  <2>3. QED
    BY <2>2, Zenon
<1>5. DTypeOK'
  BY <1>1, <1>2, <1>3, <1>4, Zenon DEF VarsOK, DTypeOK
<1>6. ShortName' /\ AllTodo' /\ SomeTodo' /\ BufIsBlock' /\ AtP1Scan' /\ AtP2Scan' /\ AtP2Place'
  BY <1>1, <1>2
     DEF ShortName, AllTodo, SomeTodo, BufIsBlock, AtP1Scan, AtP2Scan, AtP2Place
<1>7. QED
  BY <1>4, <1>5, <1>6, Zenon DEF DInv

LEMMA DInvP2Full ==
  ASSUME DInv, P2Full
  PROVE  DInv'
<1>1. /\ pc = "p2_place" /\ pc' = "p2_open" /\ k' = k + 1 /\ offset' = LastAt
      /\ blocks' = blocks /\ todo' = todo /\ buf' = buf /\ len' = len /\ entry' = entry /\ count' = count
  BY Zenon DEF P2Full
<1>2. ChainsOK' /\ DotsFirst' /\ BlocksThere'
  BY <1>1, Kept, Zenon
<1>3. VarsOK /\ ShortName /\ todo # <<>>
  BY <1>1, BufIs DEF DInv, SomeTodo
<1>4. k' \in Nat \ {0}
  BY <1>1, <1>3, SMT DEF VarsOK
<1>5. offset' \in 0 .. BlockSize
  BY <1>1, LastAtIs, Zenon
<1>6. DTypeOK'
  BY <1>1, <1>3, <1>4, <1>5, Zenon DEF VarsOK, DTypeOK
<1>7. ShortName' /\ AllTodo' /\ SomeTodo' /\ BufIsBlock' /\ AtP1Scan' /\ AtP2Scan' /\ AtP2Place'
  BY <1>1, <1>3
     DEF ShortName, AllTodo, SomeTodo, BufIsBlock, AtP1Scan, AtP2Scan, AtP2Place
<1>8. QED
  BY <1>2, <1>6, <1>7, Zenon DEF DInv

\* What pass 2 does with the ".." of a lost directory.
LEMMA ParentSet ==
  ASSUME DInv, P2SetParent, NEW n, n = Head(todo), n \in LostDir
  PROVE  /\ n \in Dirs /\ n # Self /\ 1 \in DOMAIN blocks[n] /\ blocks[n][1] \in DirBytes
         /\ 2 \in 1 .. Len(Places(blocks[n][1])) - 1
         /\ buf' \in DirBytes /\ WellFormed(buf') /\ Places(buf') = Places(blocks[n][1])
         /\ blocks' = [blocks EXCEPT ![n][1] = buf']
         /\ Meaning(buf') = [Meaning(blocks[n][1]) EXCEPT ![2].ino = Self]
<1>1. /\ buf' = write_number_into_block(blocks[n][1], FIRST_ENTRY_LEN, Self, 4)
      /\ blocks' = [blocks EXCEPT ![n][1] = write_block(buf')]
  <2>1. /\ buf' = write_number_into_block(blocks[Head(todo)][1], FIRST_ENTRY_LEN, Self, 4)
        /\ blocks' = [blocks EXCEPT ![Head(todo)][1] = write_block(buf')]
    <3>1. Head(todo) \in LostDir
      OBVIOUS
    <3>2. QED
      BY <3>1, Zenon DEF P2SetParent
  <2>2. QED
    BY <2>1
<1>2. n \in Dirs /\ n # Self
  BY SelfIs, Zenon
<1>3. /\ blocks \in [Dirs -> Seq(DirBytes)] /\ ChainsOK /\ blocks[n] # <<>>
      /\ Len(Places(blocks[n][1])) >= 3 /\ Places(blocks[n][1])[2] = FIRST_ENTRY_LEN
  BY <1>2, Zenon DEF DInv, DTypeOK, BlocksThere, DotsFirst
<1>4. 1 \in DOMAIN blocks[n] /\ blocks[n][1] \in DirBytes
  <2>1. blocks[n] \in Seq(DirBytes)
    BY <1>2, <1>3, Zenon
  <2>2. Len(blocks[n]) \in Nat /\ Len(blocks[n]) # 0 /\ DOMAIN blocks[n] = 1 .. Len(blocks[n])
    BY <1>3, <2>1, EmptySeq, LenProperties
  <2>3. 1 \in 1 .. Len(blocks[n])
    BY <2>2, SMT
  <2>4. QED
    BY <2>1, <2>2, <2>3, ElementOfSeq, Zenon
<1>5. WellFormed(blocks[n][1])
  BY <1>2, <1>3, <1>4, Zenon DEF ChainsOK
<1> DEFINE b == blocks[n][1]
           c == buf'
<1>6. b \in DirBytes /\ WellFormed(b) /\ c = write_number_into_block(b, FIRST_ENTRY_LEN, Self, 4)
      /\ Len(Places(b)) >= 3 /\ Places(b)[2] = FIRST_ENTRY_LEN
  BY <1>1, <1>3, <1>4, <1>5, Zenon
<1> HIDE DEF b, c
<1>7. 2 \in 1 .. Len(Places(b)) - 1
  <2>1. Len(Places(b)) \in Nat /\ Len(Places(b)) >= 3
    BY <1>6, PlacesOK, Zenon
  <2>2. QED
    BY <2>1, SMT
<1>8. /\ c \in DirBytes /\ Places(c) = Places(b) /\ WellFormed(c)
      /\ Meaning(c) = [Meaning(b) EXCEPT ![2].ino = Self]
  <2>1. c = write_number_into_block(b, Places(b)[2], Self, 4) /\ InodeNumber(Self)
    BY <1>6, BlockAssumption
  <2>2. QED
    BY <1>6, <1>7, <2>1, Renumber
<1>9. write_block(buf') = buf'
  BY <1>8, WholeBlock, Zenon DEF c
<1>10. blocks' = [blocks EXCEPT ![n][1] = buf']
  BY <1>1, <1>9
<1>11. QED
  BY <1>2, <1>4, <1>7, <1>8, <1>10, Zenon DEF b, c

LEMMA DInvP2SetParent ==
  ASSUME DInv, P2SetParent
  PROVE  DInv'
<1>1. /\ pc = "p2_parent" /\ pc' = "p2_next" /\ todo' = Tail(todo) /\ k' = k /\ offset' = offset
      /\ len' = len /\ entry' = entry /\ count' = count
      /\ Head(todo) \notin LostDir => buf' = buf /\ blocks' = blocks
  BY Zenon DEF P2SetParent
<1>2. /\ VarsOK /\ ShortName /\ todo # <<>>
      /\ blocks \in [Dirs -> Seq(DirBytes)] /\ ChainsOK /\ DotsFirst /\ BlocksThere
  BY <1>1 DEF DInv, DTypeOK, VarsOK, SomeTodo
<1>3. todo' \in Seq(Lost)
  BY <1>1, <1>2, HeadIs, Zenon DEF VarsOK
<1>4. buf' \in DirBytes /\ blocks' \in [Dirs -> Seq(DirBytes)] /\ ChainsOK' /\ DotsFirst' /\ BlocksThere'
  <2>1. CASE Head(todo) \notin LostDir
    BY <1>1, <1>2, <2>1, Kept, Zenon DEF VarsOK
  <2>2. CASE Head(todo) \in LostDir
    <3> DEFINE n == Head(todo)
               c == buf'
               new == blocks'
    <3>1. /\ n \in Dirs /\ 1 \in DOMAIN blocks[n]
          /\ c \in DirBytes /\ WellFormed(c) /\ Places(c) = Places(blocks[n][1])
          /\ new = [blocks EXCEPT ![n][1] = c]
      BY <2>2, ParentSet
    <3> HIDE DEF n, c, new
    <3>2. /\ new \in [Dirs -> Seq(DirBytes)]
          /\ \A x \in Dirs : DOMAIN new[x] = DOMAIN blocks[x] /\ Len(new[x]) = Len(blocks[x])
          /\ \A x \in Dirs : new[x] = <<>> <=> blocks[x] = <<>>
          /\ \A x \in Dirs : x # n => new[x] = blocks[x]
          /\ \A i \in DOMAIN blocks[n] : i # 1 => new[n][i] = blocks[n][i]
          /\ new[n][1] = c
      BY <1>2, <3>1, BlockReplaced
    <3>3. ASSUME NEW d \in Dirs, NEW i \in DOMAIN new[d]
          PROVE  WellFormed(new[d][i])
      <4>1. i \in DOMAIN blocks[d] /\ WellFormed(blocks[d][i])
        BY <1>2, <3>2, <3>3, Zenon DEF ChainsOK
      <4>2. CASE d = n /\ i = 1
        BY <3>1, <3>2, <4>2
      <4>3. CASE ~ (d = n /\ i = 1)
        <5>1. new[d][i] = blocks[d][i]
          BY <3>2, <4>1, <4>3, Zenon
        <5>2. QED
          BY <4>1, <5>1
      <4>4. QED
        BY <4>2, <4>3
    <3>4. \A d \in LostDir : Places(new[d][1]) = Places(blocks[d][1])
      BY <3>1, <3>2, SelfIs, Zenon
    <3>5. ChainsOK'
      BY <3>3, Zenon DEF ChainsOK, new
    <3>6. DotsFirst'
      BY <1>2, <3>4, Zenon DEF DotsFirst, new
    <3>7. BlocksThere'
      BY <1>2, <3>2, Zenon DEF BlocksThere, new
    <3>8. QED
      BY <3>1, <3>2, <3>5, <3>6, <3>7, Zenon DEF new, c
  <2>3. QED
    BY <2>1, <2>2
<1>5. DTypeOK'
  BY <1>1, <1>2, <1>3, <1>4, Zenon DEF VarsOK, DTypeOK
<1>6. ShortName' /\ AllTodo' /\ SomeTodo' /\ BufIsBlock' /\ AtP1Scan' /\ AtP2Scan' /\ AtP2Place'
  BY <1>1, <1>2
     DEF ShortName, AllTodo, SomeTodo, BufIsBlock, AtP1Scan, AtP2Scan, AtP2Place
<1>7. QED
  BY <1>4, <1>5, <1>6, Zenon DEF DInv

-----------------------------------------------------------------------------
(* The theorems *)

\* At first dir_block is the first block of lost+found.
LEMMA DInvInit ==
  ASSUME DInit, ChainsOK, DotsFirst
  PROVE  DInv
<1>1. /\ pc = "p1_open" /\ todo = Requests /\ k = 1 /\ buf = blocks[Self][1]
      /\ offset = 0 /\ len = 0 /\ count = 0 /\ entry \in Uninitialised
  BY Zenon DEF DInit
<1>2. blocks \in [Dirs -> Seq(DirBytes) \ {<<>>}]
  BY BlockAssumption DEF DInit
<1>3. blocks \in [Dirs -> Seq(DirBytes)] /\ BlocksThere
  BY <1>2 DEF BlocksThere
<1>4. 1 \in DOMAIN blocks[Self]
  <2>1. blocks[Self] \in Seq(DirBytes) /\ blocks[Self] # <<>>
    BY <1>3, SelfIs DEF BlocksThere
  <2>2. QED
    BY <2>1, EmptySeq, LenProperties
<1>5. buf \in DirBytes /\ WellFormed(buf)
  BY <1>1, <1>3, <1>4, BlockIs, Zenon
<1>6. /\ entry \in [ino : Nat, rec_len : Nat, typ : Byte, name : Seq(Byte)]
      /\ Len(entry.name) \in Nat /\ Len(entry.name) <= 255
  BY <1>1, FreshEntryIs, Zenon
<1>7. /\ 1 \in Nat \ {0} /\ 0 \in 0 .. BlockSize /\ 0 \in -1 .. BlockSize /\ 0 \in Nat
  BY BlockAssumption, SMT
<1>8. todo \in Seq(Lost)
  BY <1>1, BlockAssumption
<1>9. DTypeOK
  BY <1>1, <1>3, <1>5, <1>6, <1>7, <1>8, Zenon DEF DTypeOK
<1>10. ShortName
  BY <1>6, Zenon DEF ShortName
<1>11. AllTodo /\ SomeTodo /\ BufIsBlock /\ AtP1Scan /\ AtP2Scan /\ AtP2Place
  BY <1>1 DEF AllTodo, SomeTodo, BufIsBlock, AtP1Scan, AtP2Scan, AtP2Place
<1>12. QED
  BY <1>3, <1>9, <1>10, <1>11, Zenon DEF DInv

\* Every step keeps the invariant.
LEMMA DInvNext ==
  ASSUME DInv, [DNext]_dvars
  PROVE  DInv'
<1>1. CASE DNext
  BY <1>1, DInvP1OpenBlock, DInvP1Read, DInvP1NextBlock, DInvP2Call, DInvP2OpenBlock, DInvP2Read,
     DInvP2Unused, DInvP2Scanned, DInvP2Place, DInvP2Full, DInvP2SetParent, Zenon DEF DNext
<1>2. CASE UNCHANGED dvars
  BY <1>2, Zenon DEF dvars, DInv, DTypeOK, ChainsOK, DotsFirst, BlocksThere, ShortName, AllTodo, SomeTodo,
     BufIsBlock, AtP1Scan, AtP2Scan, AtP2Place, LastRead
<1>3. QED
  BY <1>1, <1>2

\* Where the scans of lost+found are, in every state.
THEOREM DirBlockInvariant == DSpec /\ ChainsOK /\ DotsFirst => []DInv
<1>1. DInit /\ ChainsOK /\ DotsFirst => DInv
  BY DInvInit
<1>2. DInv /\ [DNext]_dvars => DInv'
  BY DInvNext
<1>3. QED
  BY <1>1, <1>2, PTL DEF DSpec

\* No write goes past the end of dir_block, the 0 behind a name included.
THEOREM DirBlockType == DSpec /\ ChainsOK /\ DotsFirst => []DTypeOK
<1>1. DInv => DTypeOK
  BY DEF DInv
<1>2. QED
  BY <1>1, DirBlockInvariant, PTL

\* The rec_len of every block keep chaining its entries to the end of it.
THEOREM DirBlockChains == DSpec /\ ChainsOK /\ DotsFirst => []ChainsOK
<1>1. DInv => ChainsOK
  BY DEF DInv
<1>2. QED
  BY <1>1, DirBlockInvariant, PTL

-----------------------------------------------------------------------------
(* Which blocks name an object, and how much room those passed by have     *)

\* No entry of b names object n.
Nowhere(b, n) == \A p \in DOMAIN Meaning(b) : Meaning(b)[p].ino # n

\* The same by the entries as they are read.
LEMMA NowhereIs ==
  ASSUME NEW b \in DirBytes, NEW n
  PROVE  Nowhere(b, n) <=> ~ \E e \in {Listed(b)} : \E p \in DOMAIN e : e[p].ino = n
<1> DEFINE L == 1 .. Len(Places(b)) - 1
           f == Listed(b)
           m(i) == [ino |-> Ino(b, Places(b)[i]), typ |-> b[Places(b)[i] + 7],
                    name |-> NameOf(b, Places(b)[i])]
<1>1. DOMAIN f = L /\ \A i \in L : f[i].ino = Ino(b, Places(b)[i])
  BY MeaningIs, Zenon
<1>2. Meaning(b) = [i \in L |-> m(i)]
  BY MeaningIs, Zenon
<1>3. \A i \in L : m(i).ino = Ino(b, Places(b)[i])
  OBVIOUS
<1> HIDE DEF m, L, f
<1>4. DOMAIN Meaning(b) = L /\ \A i \in L : Meaning(b)[i].ino = f[i].ino
  BY <1>1, <1>2, <1>3, Zenon
<1>5. Nowhere(b, n) <=> \A p \in L : f[p].ino # n
  BY <1>4, Zenon DEF Nowhere
<1>6. QED
  BY <1>1, <1>5, Zenon DEF f

\* A corrected number is that of another object.
LEMMA NowhereNumber ==
  ASSUME NEW b, NEW c, NEW e, NEW n, NEW x, x # n, Nowhere(b, x),
         Meaning(c) = [Meaning(b) EXCEPT ![e].ino = n], \E I : Meaning(b) \in [I -> [ino : Nat, typ : Byte, name : Seq(Byte)]]
  PROVE  Nowhere(c, x)
<1> DEFINE f == Meaning(b)
           g == Meaning(c)
           S == Seq(Byte)
<1>1. PICK I : f \in [I -> [ino : Nat, typ : Byte, name : S]]
  OBVIOUS
<1>2. g = [f EXCEPT ![e].ino = n] /\ \A p \in DOMAIN f : f[p].ino # x
  BY Zenon DEF Nowhere
<1> HIDE DEF f, g, S
<1>3. DOMAIN g = DOMAIN f
  BY <1>2, Zenon
<1>4. ASSUME NEW p \in DOMAIN f
      PROVE  g[p].ino # x
  <2>1. CASE p = e
    <3>1. g[p] = [f[p] EXCEPT !.ino = n]
      BY <1>2, <2>1, Zenon
    <3>2. f[p] \in [ino : Nat, typ : Byte, name : S]
      BY <1>1
    <3>3. g[p].ino = n
      BY <3>1, <3>2
    <3>4. QED
      BY <3>3
  <2>2. CASE p # e
    <3>1. g[p] = f[p]
      BY <1>2, <2>2, Zenon
    <3>2. QED
      BY <1>2, <3>1, Zenon
  <2>3. QED
    BY <2>1, <2>2
<1>5. QED
  BY <1>3, <1>4, Zenon DEF Nowhere, g

\* The meaning of a block is a list of names.
LEMMA MeaningType ==
  ASSUME NEW b \in DirBytes
  PROVE  /\ Meaning(b) \in [1 .. Len(Places(b)) - 1 -> [ino : Nat, typ : Byte, name : Seq(Byte)]]
         /\ Meaning(b) \in Seq([ino : Nat, typ : Byte, name : Seq(Byte)])
         /\ Len(Meaning(b)) = Len(Places(b)) - 1 /\ Len(Places(b)) - 1 \in Nat
<1> DEFINE L == Len(Places(b)) - 1
           S == Seq(Byte)
           R == [ino : Nat, typ : Byte, name : S]
           m(i) == [ino |-> Ino(b, Places(b)[i]), typ |-> b[Places(b)[i] + 7],
                    name |-> NameOf(b, Places(b)[i])]
<1>1. Meaning(b) = [i \in 1 .. L |-> m(i)]
  BY MeaningIs, Zenon
<1>2. L \in Nat
  BY PlacesOK, SMT
<1>3. ASSUME NEW i \in 1 .. L
      PROVE  m(i) \in R
  <2> DEFINE at == Places(b)[i]
  <2>1. at \in Nat /\ Inside(b, at)
    <3>1. i \in 1 .. Len(Places(b))
      BY <1>2, SMT
    <3>2. QED
      BY <3>1, PlacesOK, Zenon
  <2> HIDE DEF at
  <2>2. at + 8 <= BlockSize
    BY <2>1, Zenon DEF Inside, DIR_ENTRY_PREFIX_LEN
  <2>3. Ino(b, at) \in Nat /\ b[at + 7] \in Byte
    BY <2>1, <2>2, Fields, Zenon
  <2>4. NameOf(b, at) \in S
    <3>1. NameOf(b, at) = read_dir_entry_in_block(b, at).name
      BY <2>1, NameIs, Zenon DEF NameOf
    <3>2. QED
      BY <2>1, <3>1, NameIs, Zenon
  <2>5. \A x \in Nat : \A y \in Byte : \A z \in S : [ino |-> x, typ |-> y, name |-> z] \in R
    <3> HIDE DEF S
    <3>1. QED
      OBVIOUS
  <2>6. QED
    <3> HIDE DEF R, S
    <3>1. [ino |-> Ino(b, at), typ |-> b[at + 7], name |-> NameOf(b, at)] \in R
      BY <2>3, <2>4, <2>5, Zenon
    <3>2. QED
      BY <3>1 DEF at
<1>4. Meaning(b) \in [1 .. L -> R]
  <2> HIDE DEF m, R
  <2>1. QED
    BY <1>1, <1>3
<1>5. Meaning(b) \in Seq(R) /\ Len(Meaning(b)) = L
  <2> HIDE DEF R
  <2>1. QED
    BY <1>2, <1>4, FunctionIsSeq, Zenon
<1>6. QED
  BY <1>2, <1>4, <1>5, Zenon

\* A name that is appended is that of its object and of no other one.
LEMMA NowhereAppend ==
  ASSUME NEW b \in DirBytes, NEW c, NEW e, Meaning(c) = Append(Meaning(b), e)
  PROVE  /\ ~ Nowhere(c, e.ino)
         /\ \A x : x # e.ino /\ Nowhere(b, x) => Nowhere(c, x)
<1> DEFINE f == Meaning(b)
           g == Meaning(c)
           L == Len(Places(b)) - 1
<1>1. L \in Nat /\ DOMAIN f = 1 .. L /\ f = [i \in 1 .. L |-> f[i]]
  BY MeaningType
<1>2. g = Append(f, e)
  OBVIOUS
<1> HIDE DEF f, g, L
<1>3. g = [i \in 1 .. L + 1 |-> IF i <= L THEN f[i] ELSE e]
  <2>1. Append(f, e) = [i \in 1 .. L + 1 |-> IF i <= L THEN f[i] ELSE e]
    BY <1>1, AppendIs
  <2>2. QED
    BY <1>2, <2>1
<1>4. DOMAIN g = 1 .. L + 1 /\ L + 1 \in 1 .. L + 1 /\ ~ (L + 1 <= L)
      /\ \A i \in 1 .. L + 1 : i <= L => i \in 1 .. L
  BY <1>1, <1>3, SMT
<1>5. g[L + 1] = e /\ \A i \in 1 .. L + 1 : (g[i] = f[i] /\ i \in DOMAIN f) \/ g[i] = e
  BY <1>1, <1>3, <1>4, Zenon
<1>6. ~ Nowhere(c, e.ino)
  BY <1>4, <1>5, Zenon DEF Nowhere, g
<1>7. ASSUME NEW x, x # e.ino, Nowhere(b, x)
      PROVE  Nowhere(c, x)
  <2>1. \A p \in DOMAIN f : f[p].ino # x
    BY <1>7, Zenon DEF Nowhere, f
  <2>2. \A p \in DOMAIN g : g[p].ino # x
    BY <1>4, <1>5, <1>7, <2>1, Zenon
  <2>3. QED
    BY <2>2, Zenon DEF Nowhere, g
<1>8. QED
  BY <1>6, <1>7

-----------------------------------------------------------------------------
(* The invariant for names: an object that waits is named nowhere, and the *)
(* blocks its scan has passed by have no room.                             *)

TodoOnce == \A i, j \in DOMAIN todo : todo[i] = todo[j] => i = j

\* The places in todo of the objects that still wait.
Waiting == IF pc = "p2_parent" THEN 2 .. Len(todo) ELSE DOMAIN todo

TodoUnnamed == \A i \in Waiting : \A j \in DOMAIN blocks[Self] : Nowhere(blocks[Self][j], todo[i])

NoHoles == \A i \in DOMAIN blocks[Self] : ~ Unused(blocks[Self][i])

NoRoom ==
  pc \in {"p2_open", "p2_scan", "p2_place"} /\ NoHoles =>
    \A j \in DOMAIN blocks[Self] : j < k => Slack(blocks[Self][j]) <= NewEntry.rec_len

NamedInv == TodoOnce /\ TodoUnnamed /\ NoRoom /\ AttachedIfRoom

\* Most steps leave all this alone.
LEMMA NamedKept ==
  ASSUME NamedInv, blocks' = blocks, todo' = todo, pc # "p2_parent", pc' # "p2_parent"
  PROVE  TodoOnce' /\ TodoUnnamed' /\ AttachedIfRoom' /\ NewEntry' = NewEntry /\ NoHoles' = NoHoles
<1>1. NewEntry' = NewEntry
  BY Zenon DEF NewEntry
<1>2. TodoOnce' /\ AttachedIfRoom' /\ NoHoles' = NoHoles
  BY Zenon DEF NamedInv, TodoOnce, AttachedIfRoom, NoHoles
<1>3. TodoUnnamed'
  BY Zenon DEF NamedInv, TodoUnnamed, Waiting
<1>4. QED
  BY <1>1, <1>2, <1>3

\* The same for a scan, which stays at its block.
LEMMA RoomKept ==
  ASSUME NamedInv, blocks' = blocks, todo' = todo, k' = k,
         pc \in {"p2_open", "p2_scan"}, pc' # "p2_parent"
  PROVE  NamedInv'
<1>1. TodoOnce' /\ TodoUnnamed' /\ AttachedIfRoom' /\ NewEntry' = NewEntry /\ NoHoles' = NoHoles
  BY NamedKept
<1>2. NoRoom'
  BY <1>1 DEF NoRoom, NamedInv
<1>3. QED
  BY <1>1, <1>2, Zenon DEF NamedInv

\* The numbers of blocks of lost+found.
LEMMA SelfBlocks ==
  ASSUME DTypeOK
  PROVE  /\ DOMAIN blocks[Self] = 1 .. Len(blocks[Self]) /\ Len(blocks[Self]) \in Nat
         /\ \A j \in DOMAIN blocks[Self] : blocks[Self][j] \in DirBytes
<1>1. blocks[Self] \in Seq(DirBytes)
  BY SelfIs DEF DTypeOK
<1>2. QED
  BY <1>1, LenProperties, ElementOfSeq

\* Pass 1 gives no entry the number of a lost object.
LEMMA NamedP1Read ==
  ASSUME DInv, NamedInv, P1Read
  PROVE  NamedInv'
<1>1. pc = "p1_scan" /\ pc' = "p1_scan" /\ todo' = todo
  BY Zenon DEF P1Read
<1>2. NoRoom' /\ AttachedIfRoom'
  BY <1>1 DEF NoRoom, AttachedIfRoom
<1>3. TodoOnce'
  BY <1>1, Zenon DEF TodoOnce, NamedInv
<1>4. TodoUnnamed'
  <2>1. \/ blocks' = blocks
        \/ /\ blocks' = [blocks EXCEPT ![Self][k] = buf'] /\ buf' \in DirBytes /\ WellFormed(buf')
           /\ Meaning(buf') = [Meaning(buf) EXCEPT ![count + 1].ino = Expected]
    BY Corrected, Zenon
  <2>2. CASE blocks' = blocks
    BY <1>1, <2>2, NamedKept, Zenon
  <2>3. CASE /\ blocks' = [blocks EXCEPT ![Self][k] = buf'] /\ buf' \in DirBytes /\ WellFormed(buf')
             /\ Meaning(buf') = [Meaning(buf) EXCEPT ![count + 1].ino = Expected]
    <3>1. k \in DOMAIN blocks[Self] /\ buf = blocks[Self][k] /\ buf \in DirBytes
          /\ blocks \in [Dirs -> Seq(DirBytes)] /\ ChainsOK /\ DotsFirst /\ BlocksThere
      BY <1>1, BufIs, Zenon DEF DInv, VarsOK
    <3> DEFINE c == buf'
    <3>2. c \in DirBytes /\ WellFormed(c) /\ blocks' = [blocks EXCEPT ![Self][k] = c]
          /\ Meaning(c) = [Meaning(buf) EXCEPT ![count + 1].ino = Expected]
      BY <2>3
    <3> HIDE DEF c
    <3>3. /\ DOMAIN blocks'[Self] = DOMAIN blocks[Self] /\ blocks'[Self][k] = c
          /\ \A i \in DOMAIN blocks[Self] : i # k => blocks'[Self][i] = blocks[Self][i]
      BY <3>1, <3>2, SelfReplaced
    <3>4. Expected \notin Lost
      BY BlockAssumption, Zenon DEF Expected
    <3>5. \A i \in DOMAIN todo : todo[i] \in Lost /\ i \in Waiting
      <4>1. todo \in Seq(Lost)
        BY Zenon DEF DInv, DTypeOK
      <4>2. \A i \in DOMAIN todo : todo[i] \in Lost
        BY <4>1, ElementOfSeq, LenProperties
      <4>3. QED
        BY <1>1, <4>2, Zenon DEF Waiting
    <3>6. ASSUME NEW i \in DOMAIN todo, NEW j \in DOMAIN blocks[Self]
          PROVE  Nowhere(blocks'[Self][j], todo[i])
      <4>1. Nowhere(blocks[Self][j], todo[i]) /\ todo[i] # Expected
        BY <3>4, <3>5, Zenon DEF NamedInv, TodoUnnamed
      <4>2. CASE j # k
        BY <3>3, <4>1, <4>2
      <4>3. CASE j = k
        <5>1. Nowhere(buf, todo[i])
          BY <3>1, <4>1, <4>3
        <5>2. \E I : Meaning(buf) \in [I -> [ino : Nat, typ : Byte, name : Seq(Byte)]]
          BY <3>1, MeaningType, Zenon
        <5>3. Nowhere(c, todo[i])
          BY <3>2, <4>1, <5>1, <5>2, NowhereNumber
        <5>4. QED
          BY <3>3, <4>3, <5>3
      <4>4. QED
        BY <4>2, <4>3
    <3>7. QED
      BY <1>1, <3>3, <3>6, Zenon DEF TodoUnnamed, Waiting
  <2>4. QED
    BY <2>1, <2>2, <2>3
<1>5. QED
  BY <1>2, <1>3, <1>4, Zenon DEF NamedInv

\* A scan that has come behind the last block has found room in none.
LEMMA NamedP2OpenBlock ==
  ASSUME DInv, NamedInv, P2OpenBlock
  PROVE  NamedInv'
<1>1. /\ pc = "p2_open" /\ Open("p2_scan", "p2_parent")
      /\ blocks' = blocks /\ todo' = todo /\ k' = k
  BY Zenon DEF P2OpenBlock
<1>2. CASE k <= Len(blocks[Self])
  <2>1. pc' = "p2_scan"
    BY <1>1, <1>2, Zenon DEF Open
  <2>2. QED
    BY <1>1, <2>1, RoomKept
<1>3. CASE ~ (k <= Len(blocks[Self]))
  <2>1. pc' = "p2_parent"
    BY <1>1, <1>3, Zenon DEF Open
  <2>2. NoRoom' /\ TodoOnce'
    BY <1>1, <2>1 DEF NoRoom, TodoOnce, NamedInv
  <2>3. todo \in Seq(Lost) /\ todo # <<>> /\ k \in Nat /\ DTypeOK
    BY <1>1 DEF DInv, SomeTodo, DTypeOK
  <2>4. DOMAIN todo = 1 .. Len(todo) /\ Len(todo) \in Nat /\ Len(todo) # 0 /\ Head(todo) = todo[1]
    BY <2>3, LenProperties, EmptySeq, HeadIs
  <2>5. \A i \in 2 .. Len(todo) : i \in DOMAIN todo
    BY <2>4, SMT
  <2>6. TodoUnnamed'
    <3>1. Waiting = DOMAIN todo /\ Waiting' = 2 .. Len(todo)
      BY <1>1, <2>1 DEF Waiting
    <3>2. QED
      BY <1>1, <2>5, <3>1, Zenon DEF TodoUnnamed, NamedInv
  <2>7. AttachedIfRoom'
    <3> DEFINE n == Head(todo)
               mine == {i \in DOMAIN blocks[Self] :
                          \E e \in {Listed(blocks[Self][i])} : \E p \in DOMAIN e : e[p].ino = n}
    <3>1. \A j \in DOMAIN blocks[Self] : Nowhere(blocks[Self][j], n)
      <4>1. 1 \in Waiting
        BY <1>1, <2>4, SMT DEF Waiting
      <4>2. QED
        BY <2>4, <4>1, Zenon DEF NamedInv, TodoUnnamed
    <3>2. \A j \in DOMAIN blocks[Self] : blocks[Self][j] \in DirBytes
      BY <2>3, SelfBlocks, Zenon
    <3>3. mine = {}
      BY <3>1, <3>2, NowhereIs, Zenon
    <3>4. \A j \in DOMAIN blocks[Self] : j < k
      BY <1>3, <2>3, SelfBlocks, SMT
    <3>5. ASSUME NoHoles
          PROVE  \A j \in DOMAIN blocks[Self] : Slack(blocks[Self][j]) <= create_new_entry(n).rec_len
      BY <1>1, <3>4, <3>5 DEF NamedInv, NoRoom, NewEntry
    <3>6. Head(todo') = n
      BY <1>1
    <3>7. NoHoles => /\ mine = {}
                     /\ \A j \in DOMAIN blocks[Self] : Slack(blocks[Self][j]) <= create_new_entry(n).rec_len
      BY <3>3, <3>5
    <3>8. QED
      BY <1>1, <3>6, <3>7, Zenon DEF AttachedIfRoom, NoHoles
  <2>8. QED
    BY <2>2, <2>6, <2>7, Zenon DEF NamedInv
<1>4. QED
  BY <1>2, <1>3

\* A block that is passed by has not more room than the entry takes.
LEMMA NamedP2Full ==
  ASSUME DInv, NamedInv, P2Full
  PROVE  NamedInv'
<1>1. /\ pc = "p2_place" /\ pc' = "p2_open" /\ k' = k + 1 /\ blocks' = blocks /\ todo' = todo
      /\ ~ HasRoom(LastAt, RealLen, NewEntry.rec_len)
  BY Zenon DEF P2Full
<1>2. TodoOnce' /\ TodoUnnamed' /\ AttachedIfRoom' /\ NewEntry' = NewEntry /\ NoHoles' = NoHoles
  BY <1>1, NamedKept
<1>3. /\ k \in DOMAIN blocks[Self] /\ buf = blocks[Self][k] /\ buf \in DirBytes
      /\ VarsOK /\ ShortName /\ DTypeOK /\ todo # <<>>
  BY <1>1, BufIs DEF DInv, SomeTodo
<1>4. ASSUME NoHoles
      PROVE  Slack(buf) <= NewEntry.rec_len
  <2>1. ~ Unused(buf)
    BY <1>3, <1>4, Zenon DEF NoHoles
  <2>2. /\ LastAt = Places(buf)[Len(Places(buf)) - 1] /\ LastAt \in Nat
        /\ BlockSize = LastAt + Rec(buf, LastAt)
        /\ RealLen = pad_to_4_bytes(8 + buf[LastAt + 6])
    BY <1>1, <2>1, LastAtIs, Zenon
  <2>3. Len(Places(buf)) >= 2
    BY <1>3, <2>1, NotEmpty, Zenon
  <2>4. Slack(buf) = Rec(buf, LastAt) - RealLen
    BY <1>3, <2>2, <2>3, SlackIs
  <2>5. NewEntry.rec_len \in Nat
    <3>1. Head(todo) \in Lost
      BY <1>3, HeadIs, Zenon DEF VarsOK
    <3>2. QED
      BY <3>1, NewEntryIs, Zenon DEF NewEntry
  <2>6. RealLen \in Nat
    BY <1>3, RealLenIs, Zenon
  <2>7. Rec(buf, LastAt) \in Nat
    <3>1. Len(Places(buf)) - 1 \in 1 .. Len(Places(buf)) - 1
      BY <1>3, <2>1, NotEmpty, Zenon
    <3>2. QED
      BY <1>3, <2>2, <3>1, PlacesOK, Zenon
  <2>8. ~ (LastAt + RealLen + NewEntry.rec_len < BlockSize)
    BY <1>1, Zenon DEF HasRoom
  <2>9. \A x, u, v, w \in Nat : BlockSize = x + u /\ ~ (x + v + w < BlockSize) => u - v <= w
    BY BlockAssumption, SMT
  <2>10. QED
    BY <2>2, <2>4, <2>5, <2>6, <2>7, <2>8, <2>9, ZenonT(60)
<1>5. NoRoom'
  <2>1. ASSUME NoHoles, NEW j \in DOMAIN blocks[Self], j < k + 1
        PROVE  Slack(blocks[Self][j]) <= NewEntry.rec_len
    <3>1. CASE j = k
      BY <1>3, <1>4, <2>1, <3>1
    <3>2. CASE j # k
      <4>1. j < k
        BY <1>3, <2>1, <3>2, SelfBlocks, SMT
      <4>2. QED
        BY <1>1, <2>1, <4>1 DEF NamedInv, NoRoom
    <3>3. QED
      BY <3>1, <3>2
  <2>2. QED
    BY <1>1, <1>2, <2>1, Zenon DEF NoRoom
<1>6. QED
  BY <1>2, <1>5, Zenon DEF NamedInv

\* An object gets its name in one block and in no other one.
LEMMA NamedP2Place ==
  ASSUME DInv, NamedInv, P2Place
  PROVE  NamedInv'
<1>1. pc = "p2_place" /\ pc' = "p2_parent" /\ todo' = todo
  BY Zenon DEF P2Place
<1>2. /\ k \in DOMAIN blocks[Self] /\ buf = blocks[Self][k] /\ buf \in DirBytes
      /\ blocks \in [Dirs -> Seq(DirBytes)] /\ ChainsOK /\ DotsFirst /\ BlocksThere
      /\ DTypeOK /\ todo # <<>> /\ todo \in Seq(Lost)
  BY <1>1, BufIs DEF DInv, SomeTodo, VarsOK
<1>3. NoRoom' /\ TodoOnce'
  BY <1>1 DEF NoRoom, TodoOnce, NamedInv
<1> DEFINE n == Head(todo)
           c == buf'
<1>4. /\ c \in DirBytes /\ WellFormed(c) /\ blocks' = [blocks EXCEPT ![Self][k] = c]
      /\ \/ Unused(buf) /\ Unused(c) /\ Meaning(c) = Meaning(buf)
         \/ /\ ~ Unused(buf) /\ ~ Unused(c)
            /\ \E e : e.ino = n /\ Meaning(c) = Append(Meaning(buf), e)
  <2>1. NewEntry.ino = n
    BY <1>2, HeadIs, NewEntryIs, Zenon DEF NewEntry
  <2> DEFINE e == [ino |-> NewEntry.ino, typ |-> NewEntry.typ, name |-> NewEntry.name]
  <2>2. e.ino = n
    BY <2>1
  <2> HIDE DEF n
  <2>3. QED
    BY <2>2, PlacedIs, Zenon
<1> HIDE DEF c
<1>5. /\ DOMAIN blocks'[Self] = DOMAIN blocks[Self] /\ blocks'[Self][k] = c
      /\ \A i \in DOMAIN blocks[Self] : i # k => blocks'[Self][i] = blocks[Self][i]
  BY <1>2, <1>4, SelfReplaced
<1>6. DOMAIN todo = 1 .. Len(todo) /\ Len(todo) \in Nat /\ Len(todo) # 0 /\ n = todo[1]
  BY <1>2, LenProperties, EmptySeq, HeadIs
<1>7. /\ \A i \in 2 .. Len(todo) : i \in DOMAIN todo /\ i # 1
      /\ 1 \in DOMAIN todo
  BY <1>6, SMT
<1>8. /\ \A j \in DOMAIN blocks[Self] : Nowhere(blocks[Self][j], n)
      /\ \A i \in 2 .. Len(todo) : \A j \in DOMAIN blocks[Self] : Nowhere(blocks[Self][j], todo[i])
      /\ \A i \in 2 .. Len(todo) : todo[i] # n
  <2>1. \A i \in DOMAIN todo : \A j \in DOMAIN blocks[Self] : Nowhere(blocks[Self][j], todo[i])
    BY <1>1 DEF NamedInv, TodoUnnamed, Waiting
  <2>2. QED
    BY <1>6, <1>7, <2>1, Zenon DEF NamedInv, TodoOnce
<1> HIDE DEF n
<1>9. \A x : x # n /\ Nowhere(buf, x) => Nowhere(c, x)
  <2>1. CASE Meaning(c) = Meaning(buf)
    BY <2>1, Zenon DEF Nowhere
  <2>2. CASE \E e : e.ino = n /\ Meaning(c) = Append(Meaning(buf), e)
    BY <1>2, <2>2, NowhereAppend, Zenon
  <2>3. QED
    BY <1>4, <2>1, <2>2, Zenon
<1>10. TodoUnnamed'
  <2>1. ASSUME NEW i \in 2 .. Len(todo), NEW j \in DOMAIN blocks[Self]
        PROVE  Nowhere(blocks'[Self][j], todo[i])
    <3>1. CASE j = k
      BY <1>2, <1>5, <1>8, <1>9, <3>1, Zenon
    <3>2. CASE j # k
      BY <1>5, <1>8, <3>2, Zenon
    <3>3. QED
      BY <3>1, <3>2
  <2>2. Waiting' = 2 .. Len(todo)
    BY <1>1 DEF Waiting
  <2>3. QED
    BY <1>1, <1>5, <2>1, <2>2, Zenon DEF TodoUnnamed
<1>11. AttachedIfRoom'
  <2>1. CASE Unused(c)
    <3>1. ~ (\A i \in DOMAIN blocks'[Self] : ~ Unused(blocks'[Self][i]))
      BY <1>2, <1>5, <2>1, Zenon
    <3>2. QED
      BY <3>1, Zenon DEF AttachedIfRoom
  <2>2. CASE ~ Unused(c)
    <3> DEFINE mine == {i \in DOMAIN blocks'[Self] :
                          \E e \in {Listed(blocks'[Self][i])} : \E p \in DOMAIN e : e[p].ino = n}
    <3>1. ~ Nowhere(c, n)
      <4>1. PICK e : e.ino = n /\ Meaning(c) = Append(Meaning(buf), e)
        BY <1>4, <2>2, Zenon
      <4>2. QED
        BY <1>2, <4>1, NowhereAppend, Zenon
    <3>2. ASSUME NEW j \in DOMAIN blocks'[Self]
          PROVE  j \in mine <=> j = k
      <4>1. CASE j = k
        <5>1. blocks'[Self][j] = c
          BY <1>5, <4>1
        <5>2. \E e \in {Listed(c)} : \E p \in DOMAIN e : e[p].ino = n
          BY <1>4, <3>1, NowhereIs, Zenon
        <5>3. QED
          BY <4>1, <5>1, <5>2, Zenon
      <4>2. CASE j # k
        <5>1. blocks'[Self][j] = blocks[Self][j] /\ j \in DOMAIN blocks[Self]
          BY <1>5, <4>2, Zenon
        <5>2. blocks[Self][j] \in DirBytes /\ Nowhere(blocks[Self][j], n)
          BY <1>2, <1>8, <5>1, SelfBlocks, Zenon
        <5>3. ~ \E e \in {Listed(blocks[Self][j])} : \E p \in DOMAIN e : e[p].ino = n
          BY <5>2, NowhereIs, Zenon
        <5>4. QED
          BY <4>2, <5>1, <5>3, Zenon
      <4>3. QED
        BY <4>1, <4>2
    <3>3. mine = {k}
      BY <1>2, <1>5, <3>2, Zenon
    <3>4. Cardinality(mine) = 1
      BY <3>3, FS_Singleton
    <3>5. Head(todo') = n
      BY <1>1 DEF n
    <3> HIDE DEF mine
    <3>6. Cardinality({i \in DOMAIN blocks'[Self] :
             \E e \in {Listed(blocks'[Self][i])} : \E p \in DOMAIN e : e[p].ino = Head(todo')}) = 1
      BY <3>4, <3>5 DEF mine
    <3>7. QED
      BY <3>6, Zenon DEF AttachedIfRoom
  <2>3. QED
    BY <2>1, <2>2
<1>12. QED
  BY <1>3, <1>10, <1>11, Zenon DEF NamedInv

\* The objects in todo stay different from each other.
LEMMA OnceNext ==
  ASSUME DInv, TodoOnce, [DNext]_dvars
  PROVE  TodoOnce'
<1>1. CASE P2SetParent
  <2>1. todo \in Seq(Lost) /\ todo # <<>> /\ todo' = Tail(todo)
    BY <1>1 DEF P2SetParent, DInv, SomeTodo, DTypeOK
  <2>2. /\ DOMAIN todo' = 1 .. Len(todo) - 1 /\ DOMAIN todo = 1 .. Len(todo) /\ Len(todo) \in Nat
        /\ \A i \in 1 .. Len(todo) - 1 : todo'[i] = todo[i + 1]
    BY <2>1, SMT
  <2>3. \A i \in 1 .. Len(todo) - 1 : i + 1 \in 1 .. Len(todo)
    BY <2>2, SMT
  <2>4. ASSUME NEW i \in 1 .. Len(todo) - 1, NEW j \in 1 .. Len(todo) - 1, todo'[i] = todo'[j]
        PROVE  i = j
    <3>1. i + 1 = j + 1
      BY <2>2, <2>3, <2>4, Zenon DEF TodoOnce
    <3>2. QED
      BY <2>2, <3>1, SMT
  <2>5. QED
    BY <2>2, <2>4, Zenon DEF TodoOnce
<1>2. CASE ~ P2SetParent
  <2>1. todo' = todo
    BY <1>2, Zenon DEF DNext, dvars, P1OpenBlock, P1Read, P1NextBlock, P2Call, P2OpenBlock, P2Read,
       P2Unused, P2Scanned, P2Place, P2Full
  <2>2. QED
    BY <2>1, Zenon DEF TodoOnce
<1>3. QED
  BY <1>1, <1>2

\* The next object is turned to.
LEMMA NamedP2SetParent ==
  ASSUME DInv, NamedInv, P2SetParent
  PROVE  NamedInv'
<1>1. /\ pc = "p2_parent" /\ pc' = "p2_next" /\ todo' = Tail(todo)
      /\ Head(todo) \notin LostDir => blocks' = blocks
  BY Zenon DEF P2SetParent
<1>2. todo \in Seq(Lost) /\ todo # <<>> /\ blocks \in [Dirs -> Seq(DirBytes)]
  BY <1>1 DEF DInv, SomeTodo, DTypeOK
<1>3. NoRoom' /\ AttachedIfRoom'
  BY <1>1 DEF NoRoom, AttachedIfRoom
<1>4. blocks'[Self] = blocks[Self]
  <2>1. CASE Head(todo) \notin LostDir
    BY <1>1, <2>1
  <2>2. CASE Head(todo) \in LostDir
    <3> DEFINE n == Head(todo)
               c == buf'
               new == blocks'
    <3>1. /\ n \in Dirs /\ n # Self /\ 1 \in DOMAIN blocks[n] /\ c \in DirBytes
          /\ new = [blocks EXCEPT ![n][1] = c]
      BY <2>2, ParentSet
    <3> HIDE DEF n, c, new
    <3>2. \A x \in Dirs : x # n => new[x] = blocks[x]
      BY <1>2, <3>1, BlockReplaced
    <3>3. QED
      BY <3>1, <3>2, SelfIs, Zenon DEF new
  <2>3. QED
    BY <2>1, <2>2
<1>5. /\ DOMAIN todo' = 1 .. Len(todo) - 1 /\ DOMAIN todo = 1 .. Len(todo) /\ Len(todo) \in Nat
      /\ \A i \in 1 .. Len(todo) - 1 : todo'[i] = todo[i + 1]
  BY <1>1, <1>2, SMT
<1>6. \A i \in 1 .. Len(todo) - 1 : i + 1 \in 2 .. Len(todo) /\ i + 1 \in 1 .. Len(todo)
  BY <1>5, SMT
<1>7. TodoUnnamed'
  <2>1. \A i \in 2 .. Len(todo) : \A j \in DOMAIN blocks[Self] : Nowhere(blocks[Self][j], todo[i])
    BY <1>1 DEF NamedInv, TodoUnnamed, Waiting
  <2>2. Waiting' = DOMAIN todo'
    BY <1>1 DEF Waiting
  <2>3. QED
    BY <1>4, <1>5, <1>6, <2>1, <2>2, Zenon DEF TodoUnnamed
<1>8. TodoOnce'
  BY OnceNext, Zenon DEF NamedInv, DNext
<1>9. QED
  BY <1>3, <1>7, <1>8, Zenon DEF NamedInv

\* Every step keeps the invariant.
LEMMA NamedNext ==
  ASSUME DInv, NamedInv, [DNext]_dvars
  PROVE  NamedInv'
<1>1. CASE P1OpenBlock
  <2>1. pc = "p1_open" /\ pc' \in {"p1_scan", "p2_next"} /\ blocks' = blocks /\ todo' = todo
    BY <1>1 DEF P1OpenBlock, Open
  <2>2. TodoOnce' /\ TodoUnnamed' /\ AttachedIfRoom'
    BY <2>1, NamedKept
  <2>3. NoRoom'
    BY <2>1 DEF NoRoom
  <2>4. QED
    BY <2>2, <2>3, Zenon DEF NamedInv
<1>2. CASE P1NextBlock
  <2>1. pc = "p1_scan" /\ pc' = "p1_open" /\ blocks' = blocks /\ todo' = todo
    BY <1>2, Zenon DEF P1NextBlock
  <2>2. TodoOnce' /\ TodoUnnamed' /\ AttachedIfRoom'
    BY <2>1, NamedKept
  <2>3. NoRoom'
    BY <2>1 DEF NoRoom
  <2>4. QED
    BY <2>2, <2>3, Zenon DEF NamedInv
<1>3. CASE P2Call
  <2>1. pc = "p2_next" /\ pc' = "p2_open" /\ k' = 1 /\ blocks' = blocks /\ todo' = todo
    BY <1>3, Zenon DEF P2Call
  <2>2. TodoOnce' /\ TodoUnnamed' /\ AttachedIfRoom'
    BY <2>1, NamedKept
  <2>3. \A j \in DOMAIN blocks[Self] : ~ (j < 1)
    <3>1. DOMAIN blocks[Self] = 1 .. Len(blocks[Self]) /\ Len(blocks[Self]) \in Nat
      BY SelfBlocks, Zenon DEF DInv
    <3>2. QED
      BY <3>1, SMT
  <2>4. NoRoom'
    BY <2>1, <2>3, Zenon DEF NoRoom
  <2>5. QED
    BY <2>2, <2>4, Zenon DEF NamedInv
<1>4. CASE P2Read
  <2>1. pc = "p2_scan" /\ pc' = pc /\ k' = k /\ blocks' = blocks /\ todo' = todo
    BY <1>4, Zenon DEF P2Read
  <2>2. QED
    BY <2>1, RoomKept
<1>5. CASE P2Unused
  <2>1. pc = "p2_scan" /\ pc' = "p2_place" /\ k' = k /\ blocks' = blocks /\ todo' = todo
    BY <1>5, Zenon DEF P2Unused
  <2>2. QED
    BY <2>1, RoomKept
<1>6. CASE P2Scanned
  <2>1. pc = "p2_scan" /\ pc' = "p2_place" /\ k' = k /\ blocks' = blocks /\ todo' = todo
    BY <1>6, Zenon DEF P2Scanned
  <2>2. QED
    BY <2>1, RoomKept
<1>7. CASE UNCHANGED dvars
  BY <1>7, ZenonT(60) DEF dvars, NamedInv, TodoOnce, TodoUnnamed, Waiting, NoRoom, NoHoles, NewEntry, AttachedIfRoom
<1>8. QED
  BY <1>1, <1>2, <1>3, <1>4, <1>5, <1>6, <1>7, NamedP1Read, NamedP2OpenBlock, NamedP2Place, NamedP2Full,
     NamedP2SetParent, Zenon DEF DNext

\* At first nobody has a name.
LEMMA NamedInit ==
  ASSUME DInit, Unnamed
  PROVE  NamedInv
<1>1. pc = "p1_open" /\ todo = Requests
  BY Zenon DEF DInit
<1>2. NoRoom /\ AttachedIfRoom
  BY <1>1 DEF NoRoom, AttachedIfRoom
<1>3. TodoOnce
  BY <1>1, BlockAssumption, Zenon DEF TodoOnce
<1>4. TodoUnnamed
  <2>1. \A i \in DOMAIN Requests : Requests[i] \in Lost
    BY DEF Lost
  <2>2. Waiting = DOMAIN Requests
    BY <1>1 DEF Waiting
  <2>3. QED
    BY <1>1, <2>1, <2>2, Zenon DEF TodoUnnamed, Nowhere, Unnamed
<1>5. QED
  BY <1>2, <1>3, <1>4, Zenon DEF NamedInv

\* An object gets its name in one block of lost+found, unless none has more
\* room than the entry takes.
THEOREM DirBlockAttached == DSpec /\ ChainsOK /\ DotsFirst /\ Unnamed => []AttachedIfRoom
<1>1. DInit /\ Unnamed => NamedInv
  BY NamedInit
<1>2. DInv /\ NamedInv /\ [DNext]_dvars => NamedInv'
  BY NamedNext
<1>3. NamedInv => AttachedIfRoom
  BY DEF NamedInv
<1>4. DSpec /\ ChainsOK /\ DotsFirst => []DInv
  BY DirBlockInvariant
<1>5. QED
  BY <1>1, <1>2, <1>3, <1>4, PTL DEF DSpec

-----------------------------------------------------------------------------
(* The blocks as lists of names *)

ListNow == [d \in Dirs |-> [i \in DOMAIN blocks[d] |-> Meaning(blocks[d][i])]]

WantedNow == {todo[i] : i \in IF pc = "p2_parent" THEN 2 .. Len(todo) ELSE DOMAIN todo}

\* A block that is replaced is another list of names.
LEMMA ListReplaced ==
  ASSUME NEW d \in Dirs, NEW j \in DOMAIN blocks[d], NEW c \in DirBytes,
         blocks \in [Dirs -> Seq(DirBytes)], blocks' = [blocks EXCEPT ![d][j] = c]
  PROVE  /\ ListNow' = [ListNow EXCEPT ![d][j] = Meaning(c)]
         /\ ListNow[d][j] = Meaning(blocks[d][j]) /\ ListNow'[d][j] = Meaning(c)
         /\ j \in DOMAIN ListNow[d]
<1> DEFINE new == blocks'
           lists(b) == [x \in Dirs |-> [i \in DOMAIN b[x] |-> Meaning(b[x][i])]]
           l == lists(blocks)
           m == lists(new)
<1>1. l = ListNow /\ m = ListNow'
  BY Zenon DEF ListNow
<1>2. /\ \A x \in Dirs : DOMAIN new[x] = DOMAIN blocks[x]
      /\ \A x \in Dirs : x # d => new[x] = blocks[x]
      /\ \A i \in DOMAIN blocks[d] : i # j => new[d][i] = blocks[d][i]
      /\ new[d][j] = c
  <2>1. new = [blocks EXCEPT ![d][j] = c]
    OBVIOUS
  <2> HIDE DEF new
  <2>2. QED
    BY <2>1, BlockReplaced
<1> HIDE DEF new
<1>3. \A x \in Dirs : /\ l[x] = [i \in DOMAIN blocks[x] |-> Meaning(blocks[x][i])]
                      /\ m[x] = [i \in DOMAIN new[x] |-> Meaning(new[x][i])]
  BY Zenon
<1>4. l = [x \in Dirs |-> l[x]] /\ m = [x \in Dirs |-> m[x]]
  BY Zenon
<1> HIDE DEF l, m, lists
<1>5. ASSUME NEW x \in Dirs, x # d
      PROVE  m[x] = l[x]
  <2>1. m[x] = [i \in DOMAIN new[x] |-> Meaning(new[x][i])] /\ new[x] = blocks[x]
    BY <1>2, <1>3, <1>5, Zenon
  <2>2. m[x] = [i \in DOMAIN blocks[x] |-> Meaning(blocks[x][i])]
    BY <2>1
  <2>3. QED
    BY <1>3, <2>2, Zenon
<1>6. m[d] = [l[d] EXCEPT ![j] = Meaning(c)]
  <2> DEFINE u == l[d]
             v == m[d]
             D == DOMAIN blocks[d]
  <2>1. u = [i \in D |-> Meaning(blocks[d][i])] /\ v = [i \in D |-> Meaning(new[d][i])]
    BY <1>2, <1>3, Zenon
  <2> HIDE DEF u, v, D
  <2>2. \A i \in D : v[i] = IF i = j THEN Meaning(c) ELSE u[i]
    BY <1>2, <2>1, Zenon DEF D
  <2>3. DOMAIN u = D /\ DOMAIN v = D /\ v = [i \in D |-> v[i]]
    BY <2>1, Zenon
  <2>4. v = [i \in D |-> IF i = j THEN Meaning(c) ELSE u[i]]
    BY <2>2, <2>3, Zenon
  <2>5. v = [u EXCEPT ![j] = Meaning(c)]
    BY <2>3, <2>4, Zenon
  <2>6. QED
    BY <2>5 DEF u, v
<1>7. m = [l EXCEPT ![d][j] = Meaning(c)]
  <2>1. \A x \in Dirs : m[x] = IF x = d THEN [l[d] EXCEPT ![j] = Meaning(c)] ELSE l[x]
    BY <1>5, <1>6, Zenon
  <2> DEFINE s == [l[d] EXCEPT ![j] = Meaning(c)]
  <2>2. \A x \in Dirs : m[x] = IF x = d THEN s ELSE l[x]
    BY <2>1
  <2> HIDE DEF s
  <2>3. m = [x \in Dirs |-> IF x = d THEN s ELSE l[x]]
    BY <1>4, <2>2, Zenon
  <2>4. m = [l EXCEPT ![d] = s]
    BY <1>4, <2>3, Zenon
  <2>5. QED
    BY <2>4 DEF s
<1>8. l[d][j] = Meaning(blocks[d][j]) /\ m[d][j] = Meaning(c) /\ j \in DOMAIN l[d]
  BY <1>2, <1>3, ZenonT(60)
<1>9. QED
  BY <1>1, <1>7, <1>8, Zenon

\* One that means the same is no other list.
LEMMA ListSame ==
  ASSUME NEW d \in Dirs, NEW j \in DOMAIN blocks[d], NEW c \in DirBytes,
         blocks \in [Dirs -> Seq(DirBytes)], blocks' = [blocks EXCEPT ![d][j] = c],
         Meaning(c) = Meaning(blocks[d][j])
  PROVE  ListNow' = ListNow
<1> DEFINE l == ListNow
           v == Meaning(c)
<1>1. ListNow' = [l EXCEPT ![d][j] = v] /\ l[d][j] = v /\ j \in DOMAIN l[d]
  BY ListReplaced
<1>2. DOMAIN l = Dirs /\ l = [x \in Dirs |-> l[x]]
  BY Zenon DEF ListNow
<1>3. l[d] = [i \in DOMAIN l[d] |-> l[d][i]]
  BY Zenon DEF ListNow
<1> HIDE DEF l, v
<1> DEFINE s == [l[d] EXCEPT ![j] = v]
<1>4. s = l[d]
  <2> DEFINE u == l[d]
  <2>1. u = [i \in DOMAIN u |-> u[i]] /\ u[j] = v
    BY <1>1, <1>3, Zenon
  <2> HIDE DEF u
  <2>2. [u EXCEPT ![j] = v] = u
    BY <2>1
  <2>3. QED
    BY <2>2 DEF u
<1>5. ListNow' = [l EXCEPT ![d] = s]
  BY <1>1
<1> HIDE DEF s
<1>6. [l EXCEPT ![d] = s] = l
  BY <1>2, <1>4
<1>7. QED
  BY <1>5, <1>6 DEF l

\* The number in an entry of a first block.
LEMMA NumberSet ==
  ASSUME NEW d \in Dirs, 1 \in DOMAIN blocks[d], NEW c \in DirBytes,
         blocks \in [Dirs -> Seq(DirBytes)], blocks' = [blocks EXCEPT ![d][1] = c]
  PROVE  \A p, n : Meaning(c) = [Meaning(blocks[d][1]) EXCEPT ![p].ino = n] =>
                     ListNow' = [ListNow EXCEPT ![d][1][p].ino = n]
<1> DEFINE l == ListNow
           m == ListNow'
           v == Meaning(c)
<1>1. m = [l EXCEPT ![d][1] = v] /\ l[d][1] = Meaning(blocks[d][1])
  BY ListReplaced
<1>2. ASSUME NEW p, NEW n, v = [Meaning(blocks[d][1]) EXCEPT ![p].ino = n]
      PROVE  m = [l EXCEPT ![d][1][p].ino = n]
  <2>1. v = [l[d][1] EXCEPT ![p].ino = n]
    BY <1>1, <1>2
  <2> HIDE DEF l, m, v
  <2>2. QED
    BY <1>1, <2>1
<1>3. QED
  BY <1>2

-----------------------------------------------------------------------------
(* The steps of DirList *)

\* Pass 1 writes only into the first block.
FirstInv == pc \in {"p1_open", "p1_scan"} => DotsOnlyFirst

\* What is in wanted after a step that is not the last for an object.
LEMMA WantedKept ==
  ASSUME todo' = todo, pc # "p2_parent", pc' # "p2_parent"
  PROVE  WantedNow' = WantedNow
BY Zenon DEF WantedNow

\* The object that is attached is wanted, and is so no more.
LEMMA WantedTaken ==
  ASSUME todo \in Seq(Lost), todo # <<>>, TodoOnce, todo' = todo, pc # "p2_parent", pc' = "p2_parent"
  PROVE  Head(todo) \in WantedNow /\ WantedNow' = WantedNow \ {Head(todo)}
<1>1. DOMAIN todo = 1 .. Len(todo) /\ Len(todo) \in Nat /\ Len(todo) # 0 /\ Head(todo) = todo[1]
  BY LenProperties, EmptySeq, HeadIs
<1>2. 1 \in DOMAIN todo /\ \A i : i \in 2 .. Len(todo) <=> i \in DOMAIN todo /\ i # 1
  BY <1>1, SMT
<1>3. WantedNow = {todo[i] : i \in DOMAIN todo} /\ WantedNow' = {todo[i] : i \in 2 .. Len(todo)}
  BY DEF WantedNow
<1>4. \A i \in DOMAIN todo : todo[i] = todo[1] => i = 1
  BY <1>2, Zenon DEF TodoOnce
<1>5. \A x : x \in WantedNow' <=> x \in WantedNow /\ x # todo[1]
  BY <1>2, <1>3, <1>4, Zenon
<1>6. QED
  BY <1>1, <1>2, <1>3, <1>5

\* Pass 1 corrects "." or "..", or nothing.
LEMMA ListP1Read ==
  ASSUME DInv, FirstInv, P1Read
  PROVE  FirstInv' /\ (AsLists!Correct \/ UNCHANGED <<ListNow, WantedNow>>)
<1>1. pc = "p1_scan" /\ pc' = pc /\ todo' = todo
  BY Zenon DEF P1Read
<1>2. /\ k \in DOMAIN blocks[Self] /\ buf = blocks[Self][k] /\ buf \in DirBytes
      /\ blocks \in [Dirs -> Seq(DirBytes)] /\ ChainsOK /\ DotsFirst /\ BlocksThere /\ count \in Nat
  BY <1>1, BufIs, Zenon DEF DInv, VarsOK
<1>3. /\ count + 1 \in 1 .. Len(Places(buf)) - 1 /\ buf' \in DirBytes /\ WellFormed(buf')
      /\ \/ ~ Wrong /\ buf' = buf /\ blocks' = blocks
         \/ /\ Wrong /\ blocks' = [blocks EXCEPT ![Self][k] = buf']
            /\ Meaning(buf') = [Meaning(buf) EXCEPT ![count + 1].ino = Expected]
  BY Corrected, Zenon
<1>4. WantedNow' = WantedNow
  BY <1>1, WantedKept, Zenon
<1>5. CASE blocks' = blocks
  <2>1. FirstInv'
    BY <1>1, <1>5, Zenon DEF FirstInv, DotsOnlyFirst
  <2>2. ListNow' = ListNow
    BY <1>5, Zenon DEF ListNow
  <2>3. QED
    BY <1>4, <2>1, <2>2, Zenon
<1>6. CASE /\ Wrong /\ blocks' = [blocks EXCEPT ![Self][k] = buf']
           /\ Meaning(buf') = [Meaning(buf) EXCEPT ![count + 1].ino = Expected]
  <2>1. Here.typ = DIR_TYPE /\ count < 2
    BY <1>6, Zenon DEF Wrong
  <2>2. Meaning(buf)[count + 1].typ = DIR_TYPE /\ count + 1 \in DOMAIN Meaning(buf)
    <3> DEFINE m(i) == [ino |-> Ino(buf, Places(buf)[i]), typ |-> buf[Places(buf)[i] + 7],
                        name |-> NameOf(buf, Places(buf)[i])]
    <3>1. Meaning(buf) = [i \in 1 .. Len(Places(buf)) - 1 |-> m(i)]
      BY <1>2, MeaningIs, Zenon
    <3>2. \A i : m(i).typ = buf[Places(buf)[i] + 7]
      OBVIOUS
    <3> HIDE DEF m
    <3>3. Meaning(buf)[count + 1].typ = buf[Places(buf)[count + 1] + 7] /\ count + 1 \in DOMAIN Meaning(buf)
      BY <1>3, <3>1, <3>2, Zenon
    <3>4. offset = Places(buf)[count + 1]
      BY <1>1, Zenon DEF DInv, AtP1Scan
    <3>5. offset \in Nat /\ offset + 8 <= BlockSize
      <4>1. count + 1 \in 1 .. Len(Places(buf))
        BY <1>1, Zenon DEF DInv, AtP1Scan
      <4>2. QED
        BY <1>2, <1>3, <3>4, <4>1, PlacesOK, Zenon
    <3>6. Here.typ = buf[offset + 7]
      BY <1>2, <3>5, Numbers, Zenon DEF Here
    <3>7. QED
      BY <2>1, <3>3, <3>4, <3>6
  <2>3. /\ count + 1 \in {1, 2}
        /\ \/ count + 1 = 1 /\ Expected = Self
           \/ count + 1 = 2 /\ Expected = Parent
    <3>1. (count = 0 /\ count + 1 = 1) \/ (count = 1 /\ count + 1 = 2 /\ count # 0)
      BY <1>2, <2>1, SMT
    <3>2. QED
      BY <3>1, Zenon DEF Expected
  <2>4. k = 1
    <3>1. DotsOnlyFirst
      BY <1>1, Zenon DEF FirstInv
    <3>2. QED
      BY <1>2, <2>2, <2>3, <3>1, Zenon DEF DotsOnlyFirst
  <2> DEFINE c == buf'
  <2>5. c \in DirBytes /\ WellFormed(c) /\ blocks' = [blocks EXCEPT ![Self][1] = c] /\ 1 \in DOMAIN blocks[Self]
    BY <1>2, <1>3, <1>6, <2>4
  <2>6. Meaning(c) = [Meaning(blocks[Self][1]) EXCEPT ![count + 1].ino = Expected]
    BY <1>2, <1>6, <2>4
  <2> HIDE DEF c
  <2>7. ListNow' = [ListNow EXCEPT ![Self][1][count + 1].ino = Expected]
    <3> DEFINE p == count + 1
               n == Expected
    <3>1. Meaning(c) = [Meaning(blocks[Self][1]) EXCEPT ![p].ino = n] /\ Self \in Dirs
      BY <2>6, SelfIs
    <3> HIDE DEF p, n
    <3>2. blocks \in [Dirs -> Seq(DirBytes)] /\ 1 \in DOMAIN blocks[Self]
          /\ blocks' = [blocks EXCEPT ![Self][1] = c] /\ c \in DirBytes
      BY <1>2, <2>5, Zenon
    <3>3. \A x, y : Meaning(c) = [Meaning(blocks[Self][1]) EXCEPT ![x].ino = y] =>
                      ListNow' = [ListNow EXCEPT ![Self][1][x].ino = y]
      BY <3>1, <3>2, NumberSet
    <3>4. ListNow' = [ListNow EXCEPT ![Self][1][p].ino = n]
      BY <3>1, <3>3, Zenon
    <3>5. QED
      BY <3>4 DEF p, n
  <2>8. \/ ListNow' = [ListNow EXCEPT ![Self][1][1].ino = Self]
        \/ ListNow' = [ListNow EXCEPT ![Self][1][2].ino = Parent]
    BY <2>3, <2>7
  <2>9. WantedNow = Lost
    <3>1. todo = Requests
      BY <1>1, Zenon DEF DInv, AllTodo
    <3>2. QED
      BY <1>1, <3>1 DEF WantedNow, Lost
  <2>10. AsLists!Correct
    BY <1>4, <2>8, <2>9, Zenon DEF AsLists!Correct, AsLists!Name, ListNow, WantedNow
  <2>11. FirstInv'
    <3>1. /\ DOMAIN blocks'[Self] = DOMAIN blocks[Self]
          /\ \A i \in DOMAIN blocks[Self] : i # 1 => blocks'[Self][i] = blocks[Self][i]
      BY <1>2, <2>5, SelfReplaced
    <3>2. DotsOnlyFirst
      BY <1>1, Zenon DEF FirstInv
    <3>3. \A i \in DOMAIN blocks'[Self] \ {1} : i \in DOMAIN blocks[Self] \ {1} /\ blocks'[Self][i] = blocks[Self][i]
      BY <3>1, Zenon
    <3>4. DotsOnlyFirst'
      BY <3>2, <3>3, ZenonT(60) DEF DotsOnlyFirst
    <3>5. QED
      BY <3>4, Zenon DEF FirstInv
  <2>12. QED
    BY <2>10, <2>11
<1>7. QED
  BY <1>3, <1>5, <1>6

\* The end of a list to which something is appended.
LEMMA AppendLast ==
  ASSUME NEW S, NEW s \in Seq(S), NEW e \in S
  PROVE  Append(s, e) # <<>> /\ Append(s, e)[Len(Append(s, e))] = e
<1>1. /\ Append(s, e) \in Seq(S) /\ Len(Append(s, e)) = Len(s) + 1 /\ Append(s, e)[Len(s) + 1] = e
      /\ Len(s) \in Nat
  BY AppendProperties, LenProperties
<1>2. Len(Append(s, e)) # 0
  BY <1>1, SMT
<1>3. QED
  BY <1>1, <1>2, EmptySeq

\* Pass 2 appends the name of an object to a block, or nothing is to be seen.
LEMMA ListP2Place ==
  ASSUME DInv, TodoOnce, P2Place
  PROVE  \E n \in Lost : AsLists!Attach(n)
<1>1. pc = "p2_place" /\ pc' = "p2_parent" /\ todo' = todo
  BY Zenon DEF P2Place
<1>2. /\ k \in DOMAIN blocks[Self] /\ buf = blocks[Self][k] /\ buf \in DirBytes
      /\ blocks \in [Dirs -> Seq(DirBytes)] /\ todo # <<>> /\ todo \in Seq(Lost)
  BY <1>1, BufIs DEF DInv, SomeTodo, VarsOK
<1>3. PICK n : n = Head(todo)
  OBVIOUS
<1> DEFINE c == buf'
           e == [ino |-> NewEntry.ino, typ |-> NewEntry.typ, name |-> NewEntry.name]
<1>4. /\ c \in DirBytes /\ blocks' = [blocks EXCEPT ![Self][k] = c]
      /\ Meaning(c) = Meaning(buf) \/ Meaning(c) = Append(Meaning(buf), e)
  BY PlacedIs, Zenon
<1>5. n \in Lost
  BY <1>2, <1>3, HeadIs, Zenon
<1>6. n \in WantedNow /\ WantedNow' = WantedNow \ {n}
  BY <1>1, <1>2, <1>3, WantedTaken
<1>7. /\ EntryOK(NewEntry) /\ NewEntry.ino = n
      /\ NewEntry.typ = IF n \in LostDir THEN DIR_TYPE ELSE REG_TYPE
      /\ AsLists!IsDecimal(NewEntry.name, n)
  BY <1>3, <1>5, NewEntryIs, Zenon DEF NewEntry
<1>8. /\ e.ino = n /\ e.typ = IF n \in LostDir THEN DIR_TYPE ELSE REG_TYPE
      /\ AsLists!IsDecimal(e.name, n)
  <2>1. e.ino = NewEntry.ino /\ e.typ = NewEntry.typ /\ e.name = NewEntry.name
    OBVIOUS
  <2> HIDE DEF e
  <2>2. QED
    BY <1>7, <2>1, Zenon
<1> HIDE DEF c, e
<1>9. CASE Meaning(c) = Meaning(buf)
  <2>1. Meaning(c) = Meaning(blocks[Self][k]) /\ Self \in Dirs
    BY <1>2, <1>9, SelfIs
  <2>2. ListNow' = ListNow
    BY <1>2, <1>4, <2>1, ListSame
  <2>3. AsLists!Attach(n)
    BY <1>6, <2>2, Zenon DEF AsLists!Attach, ListNow, WantedNow
  <2>4. QED
    BY <1>5, <2>3
<1>10. CASE Meaning(c) = Append(Meaning(buf), e)
  <2>1. /\ ListNow' = [ListNow EXCEPT ![Self][k] = Meaning(c)]
        /\ ListNow[Self][k] = Meaning(buf) /\ ListNow'[Self][k] = Meaning(c)
        /\ k \in DOMAIN ListNow[Self]
    BY <1>2, <1>4, SelfIs, ListReplaced
  <2>2. Meaning(c) # <<>> /\ Meaning(c)[Len(Meaning(c))] = e
    <3> DEFINE S == Seq(Byte)
               R == [ino : Nat, typ : Byte, name : S]
    <3>1. Meaning(buf) \in Seq(R)
      BY <1>2, MeaningType, Zenon
    <3>2. e \in R
      <4>1. NewEntry.ino \in Nat /\ NewEntry.typ \in Byte /\ NewEntry.name \in S
        BY <1>7, SMT DEF EntryOK, InodeNumber
      <4> HIDE DEF S
      <4>2. QED
        BY <4>1 DEF e
    <3> HIDE DEF R
    <3>3. QED
      BY <1>10, <3>1, <3>2, AppendLast, ZenonT(60)
  <2>3. ListNow' = [ListNow EXCEPT ![Self][k] = Append(@, e)]
    BY <1>10, <2>1
  <2>4. \E j \in DOMAIN ListNow[Self] :
          LET after == ListNow'[Self][j]
              new == after[Len(after)]
          IN  /\ after # <<>>
              /\ new.ino = n /\ AsLists!IsDecimal(new.name, n)
              /\ new.typ = IF n \in LostDir THEN DIR_TYPE ELSE REG_TYPE
              /\ ListNow' = [ListNow EXCEPT ![Self][j] = Append(@, new)]
    <3>1. ListNow'[Self][k] # <<>> /\ ListNow'[Self][k][Len(ListNow'[Self][k])] = e
      BY <2>1, <2>2, Zenon
    <3> DEFINE w == ListNow'[Self][k][Len(ListNow'[Self][k])]
    <3>2. w = e
      BY <3>1
    <3> HIDE DEF w
    <3>3. /\ w.ino = n /\ AsLists!IsDecimal(w.name, n)
          /\ w.typ = IF n \in LostDir THEN DIR_TYPE ELSE REG_TYPE
          /\ ListNow' = [ListNow EXCEPT ![Self][k] = Append(@, w)]
      BY <1>8, <2>3, <3>2
    <3>4. QED
      BY <2>1, <3>1, <3>3, Zenon DEF w
  <2>5. AsLists!Attach(n)
    BY <1>6, <2>4, Zenon DEF AsLists!Attach, AsLists!DIR_TYPE, AsLists!REG_TYPE, DIR_TYPE, REG_TYPE,
       ListNow, WantedNow
  <2>6. QED
    BY <1>5, <2>5
<1>11. QED
  BY <1>4, <1>9, <1>10

\* Where there is no room nothing is appended.
LEMMA ListP2OpenBlock ==
  ASSUME DInv, TodoOnce, P2OpenBlock
  PROVE  \/ \E n \in Lost : AsLists!Attach(n)
         \/ UNCHANGED <<ListNow, WantedNow>>
<1>1. pc = "p2_open" /\ Open("p2_scan", "p2_parent") /\ blocks' = blocks /\ todo' = todo
  BY Zenon DEF P2OpenBlock
<1>2. ListNow' = ListNow
  BY <1>1, Zenon DEF ListNow
<1>3. CASE pc' = "p2_scan"
  BY <1>1, <1>2, <1>3, WantedKept
<1>4. CASE pc' = "p2_parent"
  <2>1. todo # <<>> /\ todo \in Seq(Lost)
    BY <1>1 DEF DInv, SomeTodo, DTypeOK
  <2>2. PICK n : n = Head(todo)
    OBVIOUS
  <2>3. n \in Lost /\ n \in WantedNow /\ WantedNow' = WantedNow \ {n}
    BY <1>1, <1>4, <2>1, <2>2, WantedTaken, HeadIs
  <2>4. AsLists!Attach(n)
    BY <1>2, <2>3, Zenon DEF AsLists!Attach, ListNow, WantedNow
  <2>5. QED
    BY <2>3, <2>4
<1>5. QED
  BY <1>1, <1>3, <1>4, Zenon DEF Open

\* The ".." of a lost directory is set after its object was attached.
LEMMA ListP2SetParent ==
  ASSUME DInv, TodoOnce, P2SetParent
  PROVE  \/ \E n \in LostDir : AsLists!SetParent(n)
         \/ UNCHANGED <<ListNow, WantedNow>>
<1>1. /\ pc = "p2_parent" /\ pc' = "p2_next" /\ todo' = Tail(todo)
      /\ Head(todo) \notin LostDir => blocks' = blocks
  BY Zenon DEF P2SetParent
<1>2. todo \in Seq(Lost) /\ todo # <<>> /\ blocks \in [Dirs -> Seq(DirBytes)]
  BY <1>1 DEF DInv, SomeTodo, DTypeOK
<1>3. /\ DOMAIN todo' = 1 .. Len(todo) - 1 /\ DOMAIN todo = 1 .. Len(todo) /\ Len(todo) \in Nat
      /\ Len(todo) # 0 /\ Head(todo) = todo[1]
      /\ \A i \in 1 .. Len(todo) - 1 : todo'[i] = todo[i + 1]
  BY <1>1, <1>2, SMT
<1>4. /\ \A i \in 1 .. Len(todo) - 1 : i + 1 \in 2 .. Len(todo)
      /\ \A i \in 2 .. Len(todo) : i - 1 \in 1 .. Len(todo) - 1 /\ (i - 1) + 1 = i
      /\ \A i \in 2 .. Len(todo) : i \in 1 .. Len(todo) /\ i # 1
      /\ 1 \in 1 .. Len(todo)
  BY <1>3, SMT
<1>5. WantedNow = {todo[i] : i \in 2 .. Len(todo)} /\ WantedNow' = {todo'[i] : i \in 1 .. Len(todo) - 1}
  BY <1>1, <1>3 DEF WantedNow
<1>6. WantedNow' = WantedNow
  <2>1. \A x \in WantedNow' : x \in WantedNow
    <3>1. ASSUME NEW i \in 1 .. Len(todo) - 1
          PROVE  todo'[i] = todo[i + 1] /\ i + 1 \in 2 .. Len(todo)
      BY <1>3, <1>4, Zenon
    <3>2. QED
      BY <1>5, <3>1, Zenon
  <2>2. \A x \in WantedNow : x \in WantedNow'
    <3>1. ASSUME NEW i \in 2 .. Len(todo)
          PROVE  todo[i] = todo'[i - 1] /\ i - 1 \in 1 .. Len(todo) - 1
      BY <1>3, <1>4, Zenon
    <3>2. QED
      BY <1>5, <3>1, Zenon
  <2>3. QED
    BY <2>1, <2>2
<1>7. Head(todo) \notin WantedNow
  BY <1>3, <1>4, <1>5, ZenonT(60) DEF TodoOnce
<1>8. CASE Head(todo) \notin LostDir
  <2>1. ListNow' = ListNow
    BY <1>1, <1>8, Zenon DEF ListNow
  <2>2. QED
    BY <1>6, <2>1, Zenon
<1>9. CASE Head(todo) \in LostDir
  <2>1. PICK n : n = Head(todo)
    OBVIOUS
  <2> DEFINE c == buf'
  <2>2. /\ n \in Dirs /\ 1 \in DOMAIN blocks[n] /\ c \in DirBytes
        /\ blocks' = [blocks EXCEPT ![n][1] = c]
        /\ Meaning(c) = [Meaning(blocks[n][1]) EXCEPT ![2].ino = Self]
    BY <1>9, <2>1, ParentSet
  <2>3. n \notin WantedNow /\ n \in LostDir
    BY <1>7, <1>9, <2>1
  <2> HIDE DEF c
  <2>4. \A x, y : Meaning(c) = [Meaning(blocks[n][1]) EXCEPT ![x].ino = y] =>
                    ListNow' = [ListNow EXCEPT ![n][1][x].ino = y]
    BY <1>2, <2>2, NumberSet
  <2>5. ListNow' = [ListNow EXCEPT ![n][1][2].ino = Self]
    BY <2>2, <2>4, Zenon
  <2>6. AsLists!SetParent(n)
    BY <1>6, <2>3, <2>5, Zenon DEF AsLists!SetParent, AsLists!Name, ListNow, WantedNow
  <2>7. QED
    BY <2>3, <2>6
<1>10. QED
  BY <1>8, <1>9

\* Every step of the bytes is one of the lists, or not to be seen in them.
LEMMA ListStep ==
  ASSUME DInv, TodoOnce, FirstInv, [DNext]_dvars
  PROVE  FirstInv' /\ (AsLists!ListNext \/ UNCHANGED <<ListNow, WantedNow>>)
<1>1. CASE P1Read
  BY <1>1, ListP1Read, Zenon DEF AsLists!ListNext
<1>2. CASE P1OpenBlock \/ P1NextBlock
  <2>1. /\ pc \in {"p1_open", "p1_scan"} /\ pc' \in {"p1_open", "p1_scan", "p2_next"}
        /\ blocks' = blocks /\ todo' = todo
    BY <1>2 DEF P1OpenBlock, P1NextBlock, Open
  <2>2. WantedNow' = WantedNow
    BY <2>1, WantedKept
  <2>3. ListNow' = ListNow
    BY <2>1, Zenon DEF ListNow
  <2>4. FirstInv'
    BY <2>1, Zenon DEF FirstInv, DotsOnlyFirst
  <2>5. QED
    BY <2>2, <2>3, <2>4
<1>3. CASE P2Call \/ P2Read \/ P2Unused \/ P2Scanned \/ P2Full
  <2>1. /\ pc \in {"p2_next", "p2_scan", "p2_place"} /\ pc' \in {"p2_open", "p2_scan", "p2_place"}
        /\ blocks' = blocks /\ todo' = todo
    BY <1>3, Zenon DEF P2Call, P2Read, P2Unused, P2Scanned, P2Full
  <2>2. WantedNow' = WantedNow
    BY <2>1, WantedKept
  <2>3. ListNow' = ListNow
    BY <2>1, Zenon DEF ListNow
  <2>4. FirstInv'
    BY <2>1 DEF FirstInv
  <2>5. QED
    BY <2>2, <2>3, <2>4
<1>4. CASE P2OpenBlock \/ P2Place \/ P2SetParent
  <2>1. pc' \in {"p2_scan", "p2_parent", "p2_next"}
    BY <1>4 DEF P2OpenBlock, P2Place, P2SetParent, Open
  <2>2. FirstInv'
    BY <2>1 DEF FirstInv
  <2>3. \/ \E n \in Lost : AsLists!Attach(n)
        \/ \E n \in LostDir : AsLists!SetParent(n)
        \/ UNCHANGED <<ListNow, WantedNow>>
    <3>1. CASE P2OpenBlock
      BY <3>1, ListP2OpenBlock
    <3>2. CASE P2Place
      BY <3>2, ListP2Place
    <3>3. CASE P2SetParent
      BY <3>3, ListP2SetParent
    <3>4. QED
      BY <1>4, <3>1, <3>2, <3>3
  <2>4. AsLists!ListNext \/ UNCHANGED <<ListNow, WantedNow>>
    BY <2>3 DEF AsLists!ListNext
  <2>5. QED
    BY <2>2, <2>4
<1>5. CASE UNCHANGED dvars
  BY <1>5, Zenon DEF dvars, FirstInv, DotsOnlyFirst, ListNow, WantedNow
<1>6. QED
  BY <1>1, <1>2, <1>3, <1>4, <1>5, Zenon DEF DNext

\* The bytes implement the lists: no entry in use is lost or changed but for
\* the numbers in "." and "..", and an object gets its number as a name.
THEOREM DirBlockIsDirList == DSpec /\ ChainsOK /\ DotsFirst /\ DotsOnlyFirst => OnlyListSteps
<1>1. DInit => AsLists!ListInit /\ TodoOnce
  <2>1. ASSUME DInit
        PROVE  AsLists!ListInit /\ TodoOnce
    <3>1. pc = "p1_open" /\ todo = Requests
      BY <2>1, Zenon DEF DInit
    <3>2. WantedNow = Lost
      BY <3>1 DEF WantedNow, Lost
    <3>3. AsLists!ListInit
      BY <3>2, Zenon DEF AsLists!ListInit, WantedNow
    <3>4. TodoOnce
      BY <3>1, BlockAssumption, Zenon DEF TodoOnce
    <3>5. QED
      BY <3>3, <3>4
  <2>2. QED
    BY <2>1
<1>2. DotsOnlyFirst => FirstInv
  BY DEF FirstInv
<1>3. DInv /\ TodoOnce /\ [DNext]_dvars => TodoOnce'
  BY OnceNext
<1>4. DInv /\ TodoOnce /\ FirstInv /\ [DNext]_dvars =>
        FirstInv' /\ [AsLists!ListNext]_(AsLists!listvars)
  <2>1. ASSUME DInv, TodoOnce, FirstInv, [DNext]_dvars
        PROVE  FirstInv' /\ [AsLists!ListNext]_(AsLists!listvars)
    BY <2>1, ListStep, Zenon DEF AsLists!listvars, ListNow, WantedNow
  <2>2. QED
    BY <2>1
<1>5. DSpec /\ ChainsOK /\ DotsFirst => []DInv
  BY DirBlockInvariant
<1>6. QED
  BY <1>1, <1>2, <1>3, <1>4, <1>5, PTL DEF DSpec, OnlyListSteps, AsLists!ListSpec

=============================================================================
