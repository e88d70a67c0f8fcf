------------------------------ MODULE DirBlock ------------------------------
(***************************************************************************)
(* The bytes of directory blocks: how a scan follows the rec_len fields    *)
(* and reads an entry, where add_to_lost_found finds room for a new entry  *)
(* and how it is written, and how the number in an entry is replaced       *)
(* (read_dir_entry_in_block, pass1_corrector, add_to_lost_found,           *)
(* create_new_entry, write_new_entry, write_number_into_block).            *)
(*                                                                         *)
(* The scans are those of one directory, lost+found, first by pass 1 and   *)
(* then once for each lost object by pass 2.  buf is dir_block, an array   *)
(* on the stack: a write behind its end makes it longer here, and of what  *)
(* it holds write_block takes the first block_size bytes.                  *)
(***************************************************************************)
EXTENDS Integers, Sequences, FiniteSets

CONSTANTS
  BlockSize,    \* block_size
  Self,         \* the inode number of lost+found
  Parent,       \* that of the directory it is in
  Requests,     \* the lost objects, in the order pass 2 meets them
  LostDir,      \* those of them that are directories
  Images,       \* what the blocks of lost+found and of lost directories hold
  Uninitialised \* what the memory of a new dir_entry may hold

VARIABLES
  pc,
  blocks,   \* the blocks of each directory, on the disk
  todo,     \* lost objects not yet attached
  k,        \* i: the block the loop is at
  buf,      \* dir_block
  offset, len, entry,
  count     \* of pass 1: entries of the block read before this one

dvars == <<pc, blocks, todo, k, buf, offset, len, entry, count>>

Position == 0 .. BlockSize - 1
Byte == 0 .. 255
DirBytes == [Position -> Byte]

Lost == {Requests[i] : i \in DOMAIN Requests}
Dirs == {Self} \cup LostDir

\* An inode number is a __u32.
InodeNumber(n) == n \in Nat \ {0} /\ n \div 256 ^ 3 < 256

ASSUME BlockAssumption ==
  /\ BlockSize \in Nat /\ BlockSize % 4 = 0 /\ BlockSize >= 24 /\ BlockSize \div 256 < 256
  /\ InodeNumber(Self) /\ InodeNumber(Parent) /\ Parent \notin Lost
  /\ Requests \in Seq(Lost) /\ \A n \in Lost : InodeNumber(n)
  /\ \A i, j \in DOMAIN Requests : Requests[i] = Requests[j] => i = j
  /\ Self \notin Lost /\ LostDir \subseteq Lost
  /\ Images \subseteq [Dirs -> Seq(DirBytes) \ {<<>>}]

ASSUME UninitialisedAssumption ==
  /\ Uninitialised # {}
  /\ Uninitialised \subseteq [ino : Nat, rec_len : Nat, typ : Byte, name : Seq(Byte)]
  /\ \A e \in Uninitialised : Len(e.name) <= 255

-----------------------------------------------------------------------------
(* Numbers in bytes *)

parse_bytes_to_decimal_u(b, start, size) ==
  LET result[i \in 0 .. size] == IF i = size THEN 0 ELSE result[i + 1] * 256 + b[start + i]
  IN  result[0]

NumberBytes(num, size) == [i \in 1 .. size |-> (num \div 256 ^ (i - 1)) % 256]

\* The bytes of b from position at on replaced.
Put(b, at, bytes) ==
  LET there == at .. at + Len(bytes) - 1
  IN  [i \in DOMAIN b \cup there |-> IF i \in there THEN bytes[i - at + 1] ELSE b[i]]

write_number_into_block(b, at, num, size) == Put(b, at, NumberBytes(num, size))

pad_to_4_bytes(n) == IF n % 4 = 0 THEN n ELSE 4 * (n \div 4 + 1)

-----------------------------------------------------------------------------
(* Entries *)

DIR_ENTRY_PREFIX_LEN == 8
FIRST_ENTRY_LEN == 12
DIR_TYPE == 2
REG_TYPE == 1

\* The entry at a place of a block.
read_dir_entry_in_block(b, at) ==
  LET name_len == parse_bytes_to_decimal_u(b, at + 6, 1)
  IN  [ino |-> parse_bytes_to_decimal_u(b, at, 4),
       rec_len |-> parse_bytes_to_decimal_u(b, at + 4, 2),
       typ |-> parse_bytes_to_decimal_u(b, at + 7, 1),
       name |-> [i \in 1 .. name_len |-> b[at + DIR_ENTRY_PREFIX_LEN + i - 1]]]

\* Faulty variant: the digits in the order they are found.
Digits_Reversed(n) ==
  LET most == CHOOSE m \in 0 .. 9 : 10 ^ m <= n /\ n \div 10 ^ m < 10
  IN  [i \in 1 .. most + 1 |-> 48 + ((n \div 10 ^ (i - 1)) % 10)]

\* The decimal digits of n, by which a lost object is named.
Digits(n) ==
  LET most == CHOOSE m \in 0 .. 9 : 10 ^ m <= n /\ n \div 10 ^ m < 10
  IN  [i \in 1 .. most + 1 |-> 48 + ((n \div 10 ^ (most + 1 - i)) % 10)]

create_new_entry(n) ==
  LET name == Digits(n)
  IN  [ino |-> n, typ |-> IF n \in LostDir THEN DIR_TYPE ELSE REG_TYPE, name |-> name,
       rec_len |-> pad_to_4_bytes(DIR_ENTRY_PREFIX_LEN + Len(name))]

\* Faulty variant: rec_len as create_new_entry has left it.
write_new_entry_Short(e, b, at) ==
  Put(b, at, NumberBytes(e.ino, 4) \o NumberBytes(e.rec_len, 2)
               \o <<Len(e.name), e.typ>> \o e.name \o <<0>>)

\* The new entry takes the rest of the block; its name is copied with the 0
\* behind it.
write_new_entry(e, b, at) ==
  Put(b, at, NumberBytes(e.ino, 4) \o NumberBytes(BlockSize - at, 2)
               \o <<Len(e.name), e.typ>> \o e.name \o <<0>>)

write_block(b) == [i \in Position |-> b[i]]

\* Faulty variants: room that is just enough is used; the last entry is not
\* cut down to its own length.
HasRoom_Exact(at, real_len, new_len) == at + real_len + new_len <= BlockSize
HasRoom_Uncut(at, real_len, new_len) == at + entry.rec_len + new_len < BlockSize

HasRoom(at, real_len, new_len) == at + real_len + new_len < BlockSize

-----------------------------------------------------------------------------
(* Steps *)

DInit ==
  /\ blocks \in Images
  /\ pc = "p1_open"
  /\ todo = Requests
  /\ k = 1
  /\ buf = blocks[Self][1]
  /\ offset = 0 /\ len = 0 /\ count = 0
  /\ entry \in Uninitialised

\* The loop over the blocks of lost+found: the next one is read.
Open(scan, none) ==
  IF k <= Len(blocks[Self])
  THEN /\ pc' = scan
       /\ buf' = blocks[Self][k]
       /\ offset' = 0 /\ count' = 0
  ELSE pc' = none /\ UNCHANGED <<buf, offset, count>>

Reading == offset < BlockSize
Here == read_dir_entry_in_block(buf, offset)

P1OpenBlock ==
  /\ pc = "p1_open"
  /\ Open("p1_scan", "p2_next")
  /\ UNCHANGED <<blocks, todo, k, len, entry>>

Expected == IF count = 0 THEN Self ELSE Parent
Wrong == Here.typ = DIR_TYPE /\ count < 2 /\ Here.ino # Expected

\* The next entry, corrected if it is "." or ".." and wrong.
P1Read ==
  /\ pc = "p1_scan" /\ Reading
  /\ Here.ino # 0
  /\ IF Wrong
     THEN /\ buf' = write_number_into_block(buf, offset, Expected, 4)
          /\ blocks' = [blocks EXCEPT ![Self][k] = write_block(buf')]
     ELSE UNCHANGED <<buf, blocks>>
  /\ entry' = Here
  /\ len' = Here.rec_len
  /\ offset' = offset + Here.rec_len
  /\ count' = count + 1
  /\ UNCHANGED <<pc, todo, k>>

P1NextBlock ==
  /\ pc = "p1_scan"
  /\ ~(Reading /\ Here.ino # 0)
  /\ pc' = "p1_open"
  /\ k' = k + 1
  /\ UNCHANGED <<blocks, todo, buf, offset, len, entry, count>>

\* add_to_lost_found for the next lost object.  Its entry is a new one; buf,
\* offset and len are set before they are read, and stay here what they were.
P2Call ==
  /\ pc = "p2_next" /\ todo # <<>>
  /\ pc' = "p2_open"
  /\ k' = 1
  /\ entry' \in Uninitialised
  /\ UNCHANGED <<blocks, todo, buf, offset, len, count>>

P2OpenBlock ==
  /\ pc = "p2_open"
  /\ Open("p2_scan", "p2_parent")
  /\ UNCHANGED <<blocks, todo, k, len, entry>>

P2Read ==
  /\ pc = "p2_scan" /\ Reading
  /\ Here.ino # 0
  /\ entry' = Here
  /\ len' = Here.rec_len
  /\ offset' = offset + Here.rec_len
  /\ UNCHANGED <<pc, blocks, todo, k, buf, count>>

\* An unused entry ends the scan: of entry only the number is replaced.
P2Unused ==
  /\ pc = "p2_scan" /\ Reading
  /\ Here.ino = 0
  /\ pc' = "p2_place"
  /\ entry' = [entry EXCEPT !.ino = 0]
  /\ len' = -1
  /\ UNCHANGED <<blocks, todo, k, buf, offset, count>>

P2Scanned ==
  /\ pc = "p2_scan" /\ ~Reading
  /\ pc' = "p2_place"
  /\ UNCHANGED <<blocks, todo, k, buf, offset, len, entry, count>>

LastAt == offset - len
RealLen == pad_to_4_bytes(DIR_ENTRY_PREFIX_LEN + Len(entry.name))
NewEntry == create_new_entry(Head(todo))

\* The last entry is cut down to what it needs, the new one put behind it.
P2Place ==
  /\ pc = "p2_place"
  /\ HasRoom(LastAt, RealLen, NewEntry.rec_len)
  /\ buf' = write_new_entry(NewEntry,
                            write_number_into_block(buf, LastAt + 4, RealLen, 2),
                            LastAt + RealLen)
  /\ blocks' = [blocks EXCEPT ![Self][k] = write_block(buf')]
  /\ pc' = "p2_parent"
  /\ offset' = LastAt
  /\ UNCHANGED <<todo, k, len, entry, count>>

\* Faulty variant: the next block is not turned to.
P2Full_Again ==
  /\ pc = "p2_place"
  /\ ~HasRoom(LastAt, RealLen, NewEntry.rec_len)
  /\ pc' = "p2_open"
  /\ offset' = LastAt
  /\ UNCHANGED <<blocks, todo, k, buf, len, entry, count>>

P2Full ==
  /\ pc = "p2_place"
  /\ ~HasRoom(LastAt, RealLen, NewEntry.rec_len)
  /\ pc' = "p2_open"
  /\ k' = k + 1
  /\ offset' = LastAt
  /\ UNCHANGED <<blocks, todo, buf, len, entry, count>>

\* The ".." of the object, where it is in a directory.  Of a file these are
\* bytes of its contents, which are not modelled here.
P2SetParent ==
  /\ pc = "p2_parent"
  /\ LET n == Head(todo)
     IN  IF n \in LostDir
         THEN /\ buf' = write_number_into_block(blocks[n][1], FIRST_ENTRY_LEN, Self, 4)
              /\ blocks' = [blocks EXCEPT ![n][1] = write_block(buf')]
         ELSE UNCHANGED <<buf, blocks>>
  /\ todo' = Tail(todo)
  /\ pc' = "p2_next"
  /\ UNCHANGED <<k, offset, len, entry, count>>

DNext ==
  \/ P1OpenBlock
  \/ P1Read
  \/ P1NextBlock
  \/ P2Call
  \/ P2OpenBlock
  \/ P2Read
  \/ P2Unused
  \/ P2Scanned
  \/ P2Place
  \/ P2Full
  \/ P2SetParent

DSpec == DInit /\ [][DNext]_dvars /\ WF_dvars(DNext)

-----------------------------------------------------------------------------
(* What a block means by the format of ext2, but for what is behind an     *)
(* unused entry                                                            *)

\* An entry at this place does not stick out of the block.
Inside(b, at) ==
  /\ at + DIR_ENTRY_PREFIX_LEN <= BlockSize
  /\ at + DIR_ENTRY_PREFIX_LEN + b[at + 6] <= BlockSize

\* The place of an entry in use that leads to another one, or to the end.
InUse(b, at) ==
  /\ Inside(b, at)
  /\ LET e == read_dir_entry_in_block(b, at)
     IN  e.ino # 0 /\ e.rec_len \in 1 .. BlockSize - at

\* The places of the entries in use, along the chain of rec_len, and where the
\* chain ends: at an unused entry, one that sticks out, or the end of the block.
Places(b) ==
  LET from[at \in 0 .. BlockSize] ==
        IF InUse(b, at)
        THEN <<at>> \o from[at + read_dir_entry_in_block(b, at).rec_len]
        ELSE <<at>>
  IN  from[0]

\* The one element of a set.  Bound in the set of one, a list of places or of
\* entries is a value, where TLC evaluates one named by LET at each use.
Only(S) == CHOOSE x \in S : TRUE

Listed(b) ==
  Only({ [i \in 1 .. Len(places) - 1 |-> read_dir_entry_in_block(b, places[i])] :
           places \in {Places(b)} })

Meaning(b) ==
  Only({ [i \in DOMAIN entries |->
            [ino |-> entries[i].ino, typ |-> entries[i].typ, name |-> entries[i].name]] :
           entries \in {Listed(b)} })

\* Where the chain ends.
End(b) ==
  LET places == Places(b)
  IN  places[Len(places)]

Unused(b) == End(b) < BlockSize

\* The chain ends where it may, and rec_len of every entry in use is a multiple
\* of 4 and has room for the name.
WellFormed(b) ==
  /\ Unused(b) => Inside(b, End(b)) /\ read_dir_entry_in_block(b, End(b)).ino = 0
  /\ LET entries == Listed(b)
     IN  \A i \in DOMAIN entries :
           /\ entries[i].rec_len % 4 = 0
           /\ entries[i].rec_len >= DIR_ENTRY_PREFIX_LEN + Len(entries[i].name)

\* The bytes behind the name of the last entry.
Slack(b) ==
  LET entries == Listed(b)
      last == entries[Len(entries)]
  IN  last.rec_len - pad_to_4_bytes(DIR_ENTRY_PREFIX_LEN + Len(last.name))

-----------------------------------------------------------------------------
(* What directories are taken to be at first, each where it is needed      *)

\* The second entry of a lost directory is where its ".." is written.
DotsFirst ==
  \A d \in LostDir :
    LET places == Places(blocks[d][1])
    IN  Len(places) >= 3 /\ places[2] = FIRST_ENTRY_LEN

\* Only the first block of lost+found starts with directories.
DotsOnlyFirst ==
  \A i \in DOMAIN blocks[Self] \ {1} : \A p \in {1, 2} \cap DOMAIN Meaning(blocks[Self][i]) :
    Meaning(blocks[Self][i])[p].typ # DIR_TYPE

\* Lost objects have no name in lost+found.
Unnamed ==
  \A i \in DOMAIN blocks[Self] : \A p \in DOMAIN Meaning(blocks[Self][i]) :
    Meaning(blocks[Self][i])[p].ino \notin Lost

-----------------------------------------------------------------------------
(* Properties *)

\* Types.  buf has the length of a block: no write goes past its end, the 0
\* behind a name included.
DTypeOK ==
  /\ pc \in {"p1_open", "p1_scan", "p2_next", "p2_open", "p2_scan", "p2_place", "p2_parent"}
  /\ blocks \in [Dirs -> Seq(DirBytes)]
  /\ todo \in Seq(Lost)
  /\ k \in Nat \ {0}
  /\ buf \in DirBytes
  /\ offset \in 0 .. BlockSize /\ len \in -1 .. BlockSize /\ count \in Nat
  /\ entry \in [ino : Nat, rec_len : Nat, typ : Byte, name : Seq(Byte)]

\* The rec_len fields of every block still chain its entries from its start to
\* its end or to an unused entry, after every write.
ChainsOK == \A d \in Dirs : \A i \in DOMAIN blocks[d] : WellFormed(blocks[d][i])

\* Where no block of lost+found has an unused entry, an object gets its name in
\* one block, unless none of them had more room than the entry takes.
AttachedIfRoom ==
  LET n == Head(todo)
      mine == {i \in DOMAIN blocks[Self] :
                 \E e \in {Listed(blocks[Self][i])} : \E p \in DOMAIN e : e[p].ino = n}
  IN  pc = "p2_parent" /\ (\A i \in DOMAIN blocks[Self] : ~Unused(blocks[Self][i])) =>
        \/ Cardinality(mine) = 1
        \/ mine = {} /\ \A i \in DOMAIN blocks[Self] :
                          Slack(blocks[Self][i]) <= create_new_entry(n).rec_len

\* The steps, read as lists of entries, are those of DirList: nothing that was
\* there is lost or changed but the numbers in "." and "..", and a lost object
\* gets one name, its number, behind all names of the block.
AsLists == INSTANCE DirList WITH
  list <- [d \in Dirs |-> [i \in DOMAIN blocks[d] |-> Meaning(blocks[d][i])]],
  wanted <- {todo[i] : i \in IF pc = "p2_parent" THEN 2 .. Len(todo) ELSE DOMAIN todo}
OnlyListSteps == AsLists!ListSpec

\* Every lost object is dealt with.
DTerminates == <>(pc = "p2_next" /\ todo = <<>>)

=============================================================================
