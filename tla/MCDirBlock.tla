----------------------------- MODULE MCDirBlock -----------------------------
(***************************************************************************)
(* lost+found, number 11 in directory 2, in blocks of 64 bytes: one, two   *)
(* or three of them, filled to any degree with names of several lengths,   *)
(* with unused entries at the end of a block, in the middle and as all     *)
(* there is.  "." and ".." are right or name inode 70000.  Three objects   *)
(* with numbers of 1, 4 and 5 digits are to be attached, of which the last *)
(* is a file.  Only the first block may start with a directory.            *)
(***************************************************************************)
EXTENDS DirBlock, TLC

MCRequests == <<7, 1234, 70001>>
MCLostDir == {7, 1234}

\* No name, or the longest one.
MCUninitialised ==
  { [ino |-> 0, rec_len |-> 0, typ |-> 0, name |-> [i \in 1 .. n |-> 0]] : n \in {0, 255} }

\* An entry of a name of n letters.
File(n) == [ino |-> 300 + n, typ |-> REG_TYPE, name |-> [i \in 1 .. n |-> 96 + i]]
Dot(n) == [ino |-> n, typ |-> DIR_TYPE, name |-> <<46>>]
DotDot(n) == [ino |-> n, typ |-> DIR_TYPE, name |-> <<46, 46>>]
Hole == [ino |-> 0, typ |-> 0, name |-> <<>>]

\* The block of the given entries, the last of which takes the rest of it.
Layout(entries) ==
  LET size(i) == pad_to_4_bytes(DIR_ENTRY_PREFIX_LEN + Len(entries[i].name))
      at[i \in 1 .. Len(entries)] == IF i = 1 THEN 0 ELSE at[i - 1] + size(i - 1)
      rec_len(i) == IF i = Len(entries) THEN BlockSize - at[i] ELSE size(i)
      bytes(i) == NumberBytes(entries[i].ino, 4) \o NumberBytes(rec_len(i), 2)
                    \o <<Len(entries[i].name), entries[i].typ>> \o entries[i].name
      filled[i \in 0 .. Len(entries)] ==
        IF i = 0 THEN [p \in Position |-> 0] ELSE Put(filled[i - 1], at[i], bytes(i))
  IN  filled[Len(entries)]

Head2(self, parent) == <<Dot(self), DotDot(parent)>>

\* What is behind ".." in the first block, and what other blocks hold.
First == {<<>>, <<Hole>>, <<File(4), File(2)>>, <<File(1), Hole, File(3)>>}
           \cup {<<File(n)>> : n \in {1, 4, 5, 8, 9, 16, 17, 20, 24, 32}}
Other == {<<Hole>>, <<File(8)>>, <<File(12), Hole>>, <<File(20), File(16)>>, <<File(32), File(5)>>}

Later == {<<>>} \cup {<<b>> : b \in Other} \cup {<<b, c>> : b \in Other, c \in Other}

LostFound(self, parent, rest, more) ==
  <<Layout(Head2(self, parent) \o rest)>> \o [i \in DOMAIN more |-> Layout(more[i])]

Blocks ==
  { LostFound(11, 2, rest, more) : rest \in First, more \in Later }
    \cup { LostFound(self, parent, <<File(4)>>, <<>>) : self \in {11, 70000}, parent \in {2, 70000} }

Child(n) == <<Layout(Head2(n, 2) \o <<File(3)>>)>>

MCDirImages ==
  { [d \in Dirs |-> IF d = Self THEN b ELSE Child(d)] : b \in Blocks }

\* Directories of which the theorems hold.
MCDInit ==
  DInit /\ Assert(ChainsOK /\ DotsFirst /\ DotsOnlyFirst /\ Unnamed, "another kind of directory")
MCDSpec == MCDInit /\ [][DNext]_dvars /\ WF_dvars(DNext)

=============================================================================
