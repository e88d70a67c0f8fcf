----------------------------- MODULE TreeProofs -----------------------------
(***************************************************************************)
(* Lemmas about the directory tree and the walks over it.  TreeDirs is the *)
(* least set that has the root and the subdirectories of its members, and  *)
(* the tree has finitely many entries.  The walks of the passes are one    *)
(* walk, WalkedOver, of which each does its steps; that of passes 2 and 3  *)
(* is directory_traversor, at the end of this module.                      *)
(***************************************************************************)
EXTENDS DirTraversor, SequenceTheorems, FiniteSetTheorems, WellFoundedInduction, TLAPS

\* Of natural numbers there is a first.
LEMMA FirstOf ==
  ASSUME NEW T, T \subseteq Nat, T # {}
  PROVE  \E x \in T : \A y \in T : x <= y
<1>1. PICK x \in T : \A y \in T : ~ (<<y, x>> \in OpToRel(<, Nat))
  BY NatLessThanWellFounded, WFMin
<1>2. \A y \in T : ~(y < x)
  BY <1>1 DEF OpToRel
<1>3. QED
  BY <1>2

-----------------------------------------------------------------------------
(* The recursion *)

\* What is reached in one step more.
Further(S) == UNION {{d} \cup SubDirs(d) : d \in S}

\* g says what is reached in 0 to m steps.
Reaches(g, m) ==
  g = [k \in 0 .. m |-> IF k = 0 THEN {ROOT_INODE_NUM} ELSE Further(g[k - 1])]

\* There is a function that counts steps from the root up to any number.
LEMMA ReachesSome ==
  ASSUME NEW m \in Nat
  PROVE  \E g : Reaches(g, m)
<1> DEFINE T == {k \in Nat : ~ \E g : Reaches(g, k)}
<1>1. SUFFICES ASSUME T # {} PROVE FALSE
  OBVIOUS
<1>2. PICK k \in T : \A y \in T : k <= y
  BY <1>1, FirstOf
<1>3. CASE k = 0
  <2> DEFINE g == [i \in 0 .. 0 |-> {ROOT_INODE_NUM}]
  <2>1. g = [i \in 0 .. 0 |-> IF i = 0 THEN {ROOT_INODE_NUM} ELSE Further(g[i - 1])]
    OBVIOUS
  <2>2. Reaches(g, 0)
    BY <2>1 DEF Reaches
  <2>3. QED
    BY <1>2, <1>3, <2>2
<1>4. CASE k # 0
  <2>1. k - 1 \in Nat /\ k \in Nat /\ k - 1 \notin T
    BY <1>2, <1>4
  <2>2. PICK g : Reaches(g, k - 1)
    BY <2>1
  <2> DEFINE h == [i \in 0 .. k |-> IF i = k THEN Further(g[k - 1]) ELSE g[i]]
             w == [i \in 0 .. k |-> IF i = 0 THEN {ROOT_INODE_NUM} ELSE Further(h[i - 1])]
  <2>3. ASSUME NEW i \in 0 .. k PROVE h[i] = w[i]
    <3>1. CASE i = k
      <4>1. i # 0 /\ k - 1 \in 0 .. k /\ k - 1 # k
        BY <3>1, <1>4, <2>1
      <4>2. h[i - 1] = g[k - 1]
        BY <3>1, <4>1
      <4>3. QED
        BY <3>1, <4>1, <4>2
    <3>2. CASE i # k
      <4>1. i \in 0 .. k - 1 /\ h[i] = g[i]
        BY <3>2, <2>1
      <4>2. g[i] = IF i = 0 THEN {ROOT_INODE_NUM} ELSE Further(g[i - 1])
        BY <2>2, <4>1, Zenon DEF Reaches
      <4>3. i # 0 => i - 1 \in 0 .. k /\ i - 1 # k
        BY <4>1, <2>1
      <4>4. i # 0 => h[i - 1] = g[i - 1]
        BY <4>3
      <4> HIDE DEF h
      <4>5. QED
        BY <4>1, <4>2, <4>4
    <3>3. QED
      BY <3>1, <3>2
  <2>4. h = w
    <3>1. DOMAIN h = 0 .. k /\ DOMAIN w = 0 .. k /\ h = [i \in 0 .. k |-> h[i]] /\ w = [i \in 0 .. k |-> w[i]]
      OBVIOUS
    <3> HIDE DEF h, w
    <3>2. QED
      BY <2>3, <3>1
  <2>5. Reaches(h, k)
    BY <2>4 DEF Reaches
  <2>6. QED
    BY <1>2, <2>5
<1>5. QED
  BY <1>3, <1>4

\* What is reached in one step more.
LEMMA ReachedStep ==
  /\ ReachedIn[0] = {ROOT_INODE_NUM}
  /\ \A k \in 1 .. NInodes : ReachedIn[k] = Further(ReachedIn[k - 1])
<1>1. NInodes \in Nat
  BY SizesAssumption
<1>2. ReachedIn = CHOOSE g : Reaches(g, NInodes)
  BY DEF ReachedIn, Reaches, Further
<1>3. Reaches(ReachedIn, NInodes)
  BY <1>1, <1>2, ReachesSome
<1>4. \A g : Reaches(g, NInodes) =>
        \A k \in 0 .. NInodes : g[k] = IF k = 0 THEN {ROOT_INODE_NUM} ELSE Further(g[k - 1])
  BY Zenon DEF Reaches
<1>5. \A k \in 0 .. NInodes :
        ReachedIn[k] = IF k = 0 THEN {ROOT_INODE_NUM} ELSE Further(ReachedIn[k - 1])
  BY <1>3, <1>4, Zenon
<1>6. QED
  BY <1>1, <1>5

\* What holds of 0 and, if it holds of k - 1, of k, holds of all numbers to NInodes.
LEMMA UpTo ==
  ASSUME NEW P, P \subseteq 0 .. NInodes, 0 \in P,
         \A k \in 1 .. NInodes : k - 1 \in P => k \in P
  PROVE  P = 0 .. NInodes
<1>1. NInodes \in Nat
  BY SizesAssumption
<1> DEFINE T == (0 .. NInodes) \ P
<1>2. SUFFICES ASSUME T # {} PROVE FALSE
  OBVIOUS
<1>3. PICK k \in T : \A y \in T : k <= y
  <2>1. T \subseteq Nat
    BY <1>1
  <2>2. QED
    BY <1>2, <2>1, FirstOf
<1>4. k \in 1 .. NInodes /\ k - 1 \notin T /\ k - 1 \in 0 .. NInodes
  BY <1>1, <1>3
<1>5. QED
  BY <1>3, <1>4

-----------------------------------------------------------------------------
(* The directories of the tree *)

DirInodes == {n \in Inode : IsDir(n)}

\* A set that has the root and the subdirectories of its members.
Closed(S) == ROOT_INODE_NUM \in S /\ \A d \in S : SubDirs(d) \subseteq S

\* The entries of a block of a directory, as far as a scan sees them.
LEMMA EntryIn ==
  ASSUME DiskTypeOK, NEW d \in Inode, NEW e \in Entries(d)
  PROVE  /\ IsDir(d)
         /\ e[1] \in 1 .. Len(inodes[d].blks) /\ Len(inodes[d].blks) \in Nat
         /\ inodes[d].blks[e[1]] \in Block
         /\ e[2] \in Visible(data[inodes[d].blks[e[1]]])
         /\ e[2] \in 1 .. Len(data[inodes[d].blks[e[1]]])
         /\ Len(data[inodes[d].blks[e[1]]]) \in Nat
         /\ EntryAt(d, e) \in Entry
         /\ EntryAt(d, e).ino \in Inode
         /\ e = <<e[1], e[2]>>
<1>1. IsDir(d) /\ e \in UNION { {<<k, p>> : p \in Visible(data[inodes[d].blks[k]])} :
                              k \in DOMAIN inodes[d].blks }
  BY DEF Entries
<1>2a. PICK k \in DOMAIN inodes[d].blks :
        e \in {<<k, p>> : p \in Visible(data[inodes[d].blks[k]])}
  BY <1>1
<1>2. PICK p \in Visible(data[inodes[d].blks[k]]) : e = <<k, p>>
  BY <1>2a
<1>3. inodes[d].blks \in Seq(Block)
  BY <1>1 DEF DiskTypeOK, IsImage, IsDir
<1> DEFINE b == inodes[d].blks[k]
<1>4. k \in 1 .. Len(inodes[d].blks) /\ Len(inodes[d].blks) \in Nat /\ b \in Block
  BY <1>2, <1>3, LenProperties, ElementOfSeq
<1>5. data[b] \in Seq(Entry)
  BY <1>4 DEF DiskTypeOK, IsImage
<1>6. p \in Visible(data[b]) /\ e[1] = k /\ e[2] = p
  BY <1>2
<1>7. EntryAt(d, e) = data[b][p]
  BY <1>6 DEF EntryAt
<1> HIDE DEF b
<1>8. Len(data[b]) \in Nat /\ DOMAIN data[b] = 1 .. Len(data[b])
  BY <1>5, LenProperties
<1>9. p \in 1 .. Len(data[b]) /\ data[b][p].ino # 0
  BY <1>6, <1>8 DEF Visible
<1>10. data[b][p] \in Entry
  BY <1>5, <1>9, ElementOfSeq
<1>11. data[b][p].ino \in Inode
  BY <1>9, <1>10, SizesAssumption DEF Entry, Inode
<1>12. QED
  BY <1>1, <1>2, <1>4, <1>6, <1>7, <1>8, <1>9, <1>10, <1>11 DEF b

\* Subdirectories are directories.
LEMMA SubDirsIn ==
  ASSUME DiskTypeOK, NEW d \in Inode
  PROVE  SubDirs(d) \subseteq DirInodes
<1>1. \A e \in Names(d) : EntryAt(d, e).ino \in Inode
  BY EntryIn DEF Names
<1>2. QED
  BY <1>1 DEF SubDirs, DirInodes

\* A step more reaches all that was reached, and its subdirectories.
LEMMA ReachedGrows ==
  ASSUME NEW k \in 1 .. NInodes
  PROVE  /\ ReachedIn[k - 1] \subseteq ReachedIn[k]
         /\ \A d \in ReachedIn[k - 1] : SubDirs(d) \subseteq ReachedIn[k]
BY ReachedStep DEF Further

\* What is reached are directories.
LEMMA ReachedInDirs ==
  ASSUME DiskTypeOK, NEW k \in 0 .. NInodes
  PROVE  ReachedIn[k] \subseteq DirInodes
<1> DEFINE P == {i \in 0 .. NInodes : ReachedIn[i] \subseteq DirInodes}
<1>1. 0 \in P
  BY ReachedStep, SizesAssumption DEF DiskTypeOK, IsImage, DirInodes, IsDir, Inode, ROOT_INODE_NUM
<1>2. ASSUME NEW i \in 1 .. NInodes, i - 1 \in P PROVE i \in P
  <2>1. ReachedIn[i] = Further(ReachedIn[i - 1]) /\ ReachedIn[i - 1] \subseteq DirInodes
    BY <1>2, ReachedStep
  <2>2. \A d \in DirInodes : SubDirs(d) \subseteq DirInodes
    BY SubDirsIn DEF DirInodes
  <2>3. QED
    BY <2>1, <2>2, SizesAssumption DEF Further
<1>3. P = 0 .. NInodes
  <2> HIDE DEF P
  <2>1. P \subseteq 0 .. NInodes
    BY DEF P
  <2>2. QED
    BY <1>1, <1>2, <2>1, UpTo
<1>4. QED
  BY <1>3

\* A closed set has all of the tree.
LEMMA TreeLeast ==
  ASSUME NEW S, Closed(S)
  PROVE  TreeDirs \subseteq S
<1> DEFINE P == {i \in 0 .. NInodes : ReachedIn[i] \subseteq S}
<1>1. 0 \in P
  BY ReachedStep, SizesAssumption DEF Closed
<1>2. ASSUME NEW i \in 1 .. NInodes, i - 1 \in P PROVE i \in P
  <2>1. ReachedIn[i] = Further(ReachedIn[i - 1]) /\ ReachedIn[i - 1] \subseteq S
    BY <1>2, ReachedStep
  <2>2. Further(ReachedIn[i - 1]) \subseteq S
    BY <2>1, Zenon DEF Further, Closed
  <2>3. QED
    BY <2>1, <2>2, SizesAssumption
<1>3. P = 0 .. NInodes
  <2> HIDE DEF P
  <2>1. P \subseteq 0 .. NInodes
    BY DEF P
  <2>2. QED
    BY <1>1, <1>2, <2>1, UpTo
<1>4. QED
  BY <1>3, SizesAssumption DEF TreeDirs

\* Once a step reaches nothing new, nothing new is reached; and a step that
\* reaches something new is not taken more often than there are inodes.
LEMMA TreeClosed ==
  ASSUME DiskTypeOK
  PROVE  Closed(TreeDirs) /\ TreeDirs \subseteq DirInodes
<1>1. NInodes \in Nat
  BY SizesAssumption
<1> DEFINE R == ReachedIn
           N == NInodes
<1>2. \A k \in 0 .. N : R[k] \subseteq Inode
  BY ReachedInDirs DEF DirInodes
<1>3. IsFiniteSet(Inode) /\ Cardinality(Inode) = N
  BY <1>1, FS_Interval, SizesAssumption DEF Inode
<1>4. \A k \in 0 .. N : IsFiniteSet(R[k]) /\ Cardinality(R[k]) \in Nat /\ Cardinality(R[k]) <= N
  BY <1>2, <1>3, FS_Subset, FS_CardinalityType
<1>5. \A k \in 1 .. N : R[k - 1] \subseteq R[k] /\ \A d \in R[k - 1] : SubDirs(d) \subseteq R[k]
  BY ReachedGrows
<1>6. \A k \in 1 .. N : R[k] = Further(R[k - 1])
  BY ReachedStep
<1>7. ROOT_INODE_NUM \in R[0] /\ Cardinality(R[0]) = 1
  BY ReachedStep, FS_Singleton
<1>8. PICK k \in 1 .. N : R[k] = R[k - 1]
  <2>1. SUFFICES ASSUME \A k \in 1 .. N : R[k] # R[k - 1] PROVE FALSE
    OBVIOUS
  <2> DEFINE P == {k \in 0 .. N : Cardinality(R[k]) >= k + 1}
  <2>2. 0 \in P
    BY <1>1, <1>7
  <2>3. ASSUME NEW k \in 1 .. N, k - 1 \in P PROVE k \in P
    <3>1. Cardinality(R[k - 1]) # Cardinality(R[k]) /\ Cardinality(R[k - 1]) <= Cardinality(R[k])
      BY <1>4, <1>5, <2>1, FS_Subset
    <3>2. k - 1 \in 0 .. N /\ k \in 0 .. N
      BY <1>1
    <3>3. Cardinality(R[k - 1]) \in Nat /\ Cardinality(R[k]) \in Nat /\ Cardinality(R[k - 1]) >= k
      BY <1>4, <2>3, <3>2
    <3>4. QED
      BY <3>1, <3>2, <3>3
  <2>4. P = 0 .. N
    <3> HIDE DEF P
    <3>1. P \subseteq 0 .. N
      BY DEF P
    <3>2. QED
      BY <2>2, <2>3, <3>1, UpTo
  <2>5. N \in P
    BY <1>1, <2>4
  <2>6. QED
    BY <1>1, <1>4, <2>5
<1> HIDE DEF R
<1>9. \A i \in 0 .. N : i >= k => R[i] = R[k]
  <2> DEFINE P == {i \in 0 .. N : i >= k => R[i] = R[k]}
  <2>1. 0 \in P
    BY <1>1
  <2>2. ASSUME NEW i \in 1 .. N, i - 1 \in P PROVE i \in P
    <3>1. SUFFICES ASSUME i > k PROVE R[i] = R[k]
      BY <1>1
    <3>2. R[i - 1] = R[k]
      BY <1>1, <2>2, <3>1
    <3>3. R[i] = Further(R[i - 1]) /\ R[k] = Further(R[k - 1])
      BY <1>6
    <3>4. QED
      BY <1>8, <3>2, <3>3
  <2>3. P = 0 .. N
    <3> HIDE DEF P
    <3>1. P \subseteq 0 .. N
      BY DEF P
    <3>2. QED
      BY <2>1, <2>2, <3>1, UpTo
  <2>4. QED
    BY <2>3
<1>10. R[N] = R[k]
  BY <1>1, <1>9
<1>11. \A d \in R[N] : SubDirs(d) \subseteq R[N]
  BY <1>5, <1>8, <1>10
<1>12. ROOT_INODE_NUM \in R[N]
  <2> DEFINE P == {i \in 0 .. N : ROOT_INODE_NUM \in R[i]}
  <2>1. 0 \in P
    BY <1>1, <1>7
  <2>2. ASSUME NEW i \in 1 .. N, i - 1 \in P PROVE i \in P
    BY <1>1, <1>5, <2>2
  <2>3. P = 0 .. N
    <3> HIDE DEF P
    <3>1. P \subseteq 0 .. N
      BY DEF P
    <3>2. QED
      BY <2>1, <2>2, <3>1, UpTo
  <2>4. QED
    BY <1>1, <2>3
<1>13. R[N] \subseteq DirInodes
  BY <1>1, ReachedInDirs DEF R
<1>14. QED
  BY <1>11, <1>12, <1>13 DEF TreeDirs, Closed, R

-----------------------------------------------------------------------------
(* The entries of the tree *)

\* The image of a finite set is finite.
LEMMA ImageFinite ==
  ASSUME NEW S, IsFiniteSet(S), NEW f
  PROVE  IsFiniteSet({f[x] : x \in S})
<1> DEFINE T == {f[x] : x \in S}
           g == [x \in S |-> f[x]]
<1>1. g \in Surjection(S, T)
  BY DEF Surjection
<1>2. QED
  BY <1>1, FS_Surjection

\* The entries of directory d, as TreeEntries has them.
EntriesIn(d) == {<<d, e[1], e[2]>> : e \in Entries(d)}

\* A directory has finitely many entries.
LEMMA EntriesFinite ==
  ASSUME DiskTypeOK, NEW d \in Inode
  PROVE  IsFiniteSet(EntriesIn(d))
<1>1. CASE ~IsDir(d)
  <2>1. Entries(d) = {}
    BY <1>1 DEF Entries
  <2>2. EntriesIn(d) = {}
    BY <2>1 DEF EntriesIn
  <2>3. QED
    BY <2>2, FS_EmptySet
<1>2. CASE IsDir(d)
  <2> DEFINE blks == inodes[d].blks
             block(k) == data[blks[k]]
             In(k) == {<<d, k, p>> : p \in Visible(block(k))}
  <2>1. blks \in Seq(Block) /\ Len(blks) \in Nat /\ DOMAIN blks = 1 .. Len(blks)
    BY <1>2, LenProperties DEF DiskTypeOK, IsImage, IsDir
  <2>2. ASSUME NEW k \in DOMAIN blks PROVE IsFiniteSet(In(k))
    <3>1. block(k) \in Seq(Entry)
      <4>1. blks[k] \in Block
        BY <2>1, ElementOfSeq
      <4>2. QED
        BY <4>1 DEF DiskTypeOK, IsImage
    <3> HIDE DEF block
    <3>2. Visible(block(k)) \subseteq 1 .. Len(block(k)) /\ Len(block(k)) \in Nat
      BY <3>1, LenProperties DEF Visible
    <3>3. IsFiniteSet(1 .. Len(block(k)))
      BY <3>2, FS_Interval
    <3>4. IsFiniteSet(Visible(block(k)))
      BY <3>2, <3>3, FS_Subset
    <3> DEFINE f == [p \in Visible(block(k)) |-> <<d, k, p>>]
               T == Visible(block(k))
    <3>5. IsFiniteSet({f[p] : p \in T})
      <4> HIDE DEF f, T
      <4>1. IsFiniteSet(T)
        BY <3>4 DEF T
      <4>2. QED
        BY <4>1, ImageFinite
    <3>6. In(k) = {f[p] : p \in T}
      OBVIOUS
    <3>7. QED
      BY <3>5, <3>6
  <2> HIDE DEF In
  <2>3. IsFiniteSet({In(k) : k \in DOMAIN blks})
    <3>1. IsFiniteSet(DOMAIN blks)
      BY <2>1, FS_Interval
    <3> DEFINE D == DOMAIN blks
               f == [k \in D |-> In(k)]
    <3>2. IsFiniteSet({f[k] : k \in D})
      <4> HIDE DEF f
      <4>1. QED
        BY <3>1, ImageFinite
    <3>3. {f[k] : k \in D} = {In(k) : k \in D}
      OBVIOUS
    <3>4. QED
      BY <3>2, <3>3
  <2>4. IsFiniteSet(UNION {In(k) : k \in DOMAIN blks})
    BY <2>2, <2>3, FS_UNION
  <2>5. EntriesIn(d) = UNION {In(k) : k \in DOMAIN blks}
    <3>1. Entries(d) = UNION {{<<k, p>> : p \in Visible(block(k))} : k \in DOMAIN blks}
      BY <1>2 DEF Entries
    <3> HIDE DEF block, blks
    <3>2. ASSUME NEW x \in EntriesIn(d) PROVE x \in UNION {In(k) : k \in DOMAIN blks}
      <4>1. PICK e \in Entries(d) : x = <<d, e[1], e[2]>>
        BY DEF EntriesIn
      <4>2. PICK k \in DOMAIN blks : e \in {<<k, p>> : p \in Visible(block(k))}
        BY <3>1
      <4>3. PICK p \in Visible(block(k)) : e = <<k, p>>
        BY <4>2
      <4>4. x = <<d, k, p>>
        BY <4>1, <4>3
      <4>5. x \in In(k)
        BY <4>4 DEF In
      <4>6. QED
        BY <4>5
    <3>3. ASSUME NEW x \in UNION {In(k) : k \in DOMAIN blks} PROVE x \in EntriesIn(d)
      <4>1. PICK k \in DOMAIN blks : x \in In(k)
        OBVIOUS
      <4>2. PICK p \in Visible(block(k)) : x = <<d, k, p>>
        BY <4>1 DEF In
      <4>3. <<k, p>> \in Entries(d)
        BY <3>1, <4>2
      <4>4. <<k, p>>[1] = k /\ <<k, p>>[2] = p
        OBVIOUS
      <4>5. QED
        BY <4>2, <4>3, <4>4, Zenon DEF EntriesIn
    <3>4. QED
      BY <3>2, <3>3
  <2>6. QED
    BY <2>4, <2>5
<1>3. QED
  BY <1>1, <1>2

\* The entries of the directories in U.
Over(U) == UNION {EntriesIn(d) : d \in U}

\* The entries of the tree, in the words of walks.
LEMMA TreeOver == TreeEntries = Over(TreeDirs)
BY DEF TreeEntries, Over, EntriesIn

\* A set of directories has finitely many entries.
LEMMA OverFinite ==
  ASSUME DiskTypeOK, NEW U, U \subseteq Inode
  PROVE  IsFiniteSet(Over(U))
<1>1. IsFiniteSet(U)
  <2>1. IsFiniteSet(Inode)
    BY FS_Interval, SizesAssumption DEF Inode
  <2>2. QED
    BY <2>1, FS_Subset
<1> DEFINE f == [d \in U |-> EntriesIn(d)]
<1>2. IsFiniteSet({f[d] : d \in U})
  <2> HIDE DEF f
  <2>1. QED
    BY <1>1, ImageFinite
<1>3. {f[d] : d \in U} = {EntriesIn(d) : d \in U}
  OBVIOUS
<1>4. \A T \in {EntriesIn(d) : d \in U} : IsFiniteSet(T)
  BY EntriesFinite
<1>5. QED
  BY <1>2, <1>3, <1>4, FS_UNION DEF Over

\* The tree has finitely many entries.
LEMMA TreeFinite ==
  ASSUME DiskTypeOK
  PROVE  IsFiniteSet(TreeEntries)
<1>1. TreeDirs \subseteq Inode
  BY TreeClosed DEF DirInodes
<1>2. QED
  BY <1>1, TreeOver, OverFinite

\* The entries of a directory, block by block.
LEMMA EntriesInIs ==
  ASSUME NEW d, NEW x
  PROVE  x \in EntriesIn(d) <=>
           /\ IsDir(d) /\ x = <<d, x[2], x[3]>>
           /\ x[2] \in DOMAIN inodes[d].blks
           /\ x[3] \in Visible(data[inodes[d].blks[x[2]]])
<1>1. ASSUME x \in EntriesIn(d)
      PROVE  /\ IsDir(d) /\ x = <<d, x[2], x[3]>>
             /\ x[2] \in DOMAIN inodes[d].blks
             /\ x[3] \in Visible(data[inodes[d].blks[x[2]]])
  <2>1. PICK e \in Entries(d) : x = <<d, e[1], e[2]>>
    BY <1>1 DEF EntriesIn
  <2>2. IsDir(d) /\ e \in UNION { {<<k, p>> : p \in Visible(data[inodes[d].blks[k]])} :
                               k \in DOMAIN inodes[d].blks }
    BY <2>1 DEF Entries
  <2>3. PICK k \in DOMAIN inodes[d].blks :
          e \in {<<k, p>> : p \in Visible(data[inodes[d].blks[k]])}
    BY <2>2
  <2>4. PICK p \in Visible(data[inodes[d].blks[k]]) : e = <<k, p>>
    BY <2>3
  <2>5. x = <<d, k, p>>
    BY <2>1, <2>4
  <2>6. x[2] = k /\ x[3] = p
    BY <2>5
  <2>7. QED
    BY <2>2, <2>3, <2>4, <2>5, <2>6
<1>2. ASSUME IsDir(d), x = <<d, x[2], x[3]>>, x[2] \in DOMAIN inodes[d].blks,
             x[3] \in Visible(data[inodes[d].blks[x[2]]])
      PROVE  x \in EntriesIn(d)
  <2> DEFINE e == <<x[2], x[3]>>
  <2>1. e \in Entries(d)
    BY <1>2 DEF Entries
  <2>2. x = <<d, e[1], e[2]>>
    BY <1>2
  <2>3. QED
    BY <2>1, <2>2 DEF EntriesIn
<1>3. QED
  BY <1>1, <1>2

\* An entry says which directory it is of.
LEMMA EntryOwner ==
  ASSUME NEW d
  PROVE  \A x \in EntriesIn(d) : x[1] = d
<1>1. SUFFICES ASSUME NEW x \in EntriesIn(d) PROVE x[1] = d
  OBVIOUS
<1>2. x = <<d, x[2], x[3]>>
  BY EntriesInIs
<1>3. \A a, b : <<d, a, b>>[1] = d
  OBVIOUS
<1>4. QED
  BY <1>2, <1>3, Zenon

\* An entry is of a set of directories if it is of one of them.
LEMMA OverIs ==
  ASSUME NEW U, NEW x
  PROVE  x \in Over(U) <=> x[1] \in U /\ x \in EntriesIn(x[1])
BY EntryOwner DEF Over

\* The same of the tree.
LEMMA TreeEntriesIs ==
  ASSUME NEW x
  PROVE  x \in TreeEntries <=> x[1] \in TreeDirs /\ x \in EntriesIn(x[1])
BY TreeOver, OverIs

\* A subdirectory is one an entry names.
LEMMA SubDirsNamed ==
  ASSUME NEW d, NEW n
  PROVE  n \in SubDirs(d) <=>
           IsDir(n) /\ \E x \in EntriesIn(d) : NamesDir(x) /\ Named(x) = n
<1>1. ASSUME n \in SubDirs(d)
      PROVE  IsDir(n) /\ \E x \in EntriesIn(d) : NamesDir(x) /\ Named(x) = n
  <2>1. PICK e \in Names(d) : IsDir(n) /\ EntryAt(d, e).typ = "dir" /\ EntryAt(d, e).ino = n
    BY <1>1 DEF SubDirs
  <2> DEFINE x == <<d, e[1], e[2]>>
  <2>2. e \in Entries(d) /\ (e[1] > 1 \/ e[2] > 2)
    BY <2>1 DEF Names
  <2>3. x \in EntriesIn(d) /\ x[1] = d /\ x[2] = e[1] /\ x[3] = e[2]
    BY <2>2 DEF EntriesIn
  <2>4. EntryAt(x[1], <<x[2], x[3]>>) = EntryAt(d, e)
    BY <2>3 DEF EntryAt
  <2>5. NamesDir(x) /\ Named(x) = n
    BY <2>1, <2>2, <2>3, <2>4 DEF IsName, NamesDir, Named
  <2>6. QED
    BY <2>1, <2>3, <2>5
<1>2. ASSUME IsDir(n), NEW x \in EntriesIn(d), NamesDir(x), Named(x) = n
      PROVE  n \in SubDirs(d)
  <2>1. PICK e \in Entries(d) : x = <<d, e[1], e[2]>>
    BY <1>2 DEF EntriesIn
  <2>2. x[1] = d /\ x[2] = e[1] /\ x[3] = e[2]
    BY <2>1
  <2>3. EntryAt(x[1], <<x[2], x[3]>>) = EntryAt(d, e)
    BY <2>2 DEF EntryAt
  <2>4. e \in Names(d) /\ EntryAt(d, e).typ = "dir" /\ EntryAt(d, e).ino = n
    BY <1>2, <2>1, <2>2, <2>3 DEF IsName, NamesDir, Named, Names
  <2>5. QED
    BY <1>2, <2>4 DEF SubDirs
<1>3. QED
  BY <1>1, <1>2

-----------------------------------------------------------------------------
(* A walk over the tree.  directory_traversor and get_true_block_bitmap    *)
(* keep a call for every directory they are in.  WalkedOver says how the   *)
(* calls F, the directories E they have entered and the entries S they     *)
(* have been past hang together.                                           *)

WFrame == [dir: Inode, blk: Nat \ {0}, pos: Nat]

\* The block the call is at and whether the call has an entry to look at.
OnBlock(f) == f.blk \in DOMAIN inodes[f.dir].blks
BlockAt(f) == data[inodes[f.dir].blks[f.blk]]
AtEntry(f) ==
  OnBlock(f) /\ f.pos \in 1 .. Len(BlockAt(f)) /\ BlockAt(f)[f.pos].ino # 0

\* The entries a call for f.dir has been past.
Before(f, x) == x[2] < f.blk \/ (x[2] = f.blk /\ x[3] < f.pos)

\* Directories and all their subdirectories.
Whole(U) == U \subseteq DirInodes /\ \A d \in U : SubDirs(d) \subseteq U

\* What a name calls a directory is one, and no directory has two names.
Forest(U) ==
  /\ \A x \in Over(U) : NamesDir(x) => IsDir(Named(x))
  /\ \A x, y \in Over(U) :
       NamesDir(x) /\ NamesDir(y) /\ Named(x) = Named(y) => x = y

\* The walks over the directories U that started from those in R.
WalkedOver(U, R, S, E, F) ==
  /\ F \subseteq WFrame
  /\ E \subseteq U /\ R \subseteq E
  /\ S \subseteq Over(U) /\ \A x \in S : x[1] \in E
  /\ \A f \in F : f.dir \in E
  /\ \A f, g \in F : f.dir = g.dir => f = g
  /\ \A f \in F : OnBlock(f) => 1 .. f.pos - 1 \subseteq Visible(BlockAt(f))
  /\ \A f \in F : \A x \in EntriesIn(f.dir) : x \in S <=> Before(f, x)
  /\ \A d \in E : (\A f \in F : f.dir # d) => EntriesIn(d) \subseteq S
  /\ \A x \in S : NamesDir(x) => Named(x) \in E
  /\ \A d \in E \ R : \E x \in S : NamesDir(x) /\ Named(x) = d

\* The walk of the tree, from the root.
Walked(S, E, F) == WalkedOver(TreeDirs, {ROOT_INODE_NUM}, S, E, F)

\* A directory has no hole: all its blocks are read.
LEMMA HasBlockOK ==
  ASSUME DiskTypeOK, NEW d \in Inode, IsDir(d), NEW k \in Nat \ {0}
  PROVE  /\ HasBlock(d, k) <=> k \in DOMAIN inodes[d].blks
         /\ ~ HasBlock(d, k) <=> k > Len(inodes[d].blks)
<1>1. inodes[d].blks \in Seq(Block) /\ \A j \in DOMAIN inodes[d].blks : inodes[d].blks[j] # 0
  BY DEF DiskTypeOK, IsImage, IsDir
<1> DEFINE bs == inodes[d].blks
<1> HIDE DEF bs
<1>2. Len(bs) \in Nat /\ DOMAIN bs = 1 .. Len(bs)
  BY <1>1, LenProperties DEF bs
<1>3. QED
  BY <1>1, <1>2 DEF HasBlock, bs

\* The tree can be walked from the root.
LEMMA TreeWhole ==
  ASSUME DiskTypeOK
  PROVE  Whole(TreeDirs) /\ ROOT_INODE_NUM \in TreeDirs
BY TreeClosed DEF Whole, Closed

\* The directories of the tree are inodes.
LEMMA TreeInodes == ASSUME DiskTypeOK PROVE TreeDirs \subseteq Inode
BY TreeClosed DEF DirInodes

\* No entry of a directory is before the first of its first block.
LEMMA NoneBefore ==
  ASSUME DiskTypeOK, NEW d \in Inode, NEW p \in {0, 1}, NEW x \in EntriesIn(d)
  PROVE  ~ Before([dir |-> d, blk |-> 1, pos |-> p], x)
<1>1. IsDir(d) /\ x[2] \in DOMAIN inodes[d].blks /\ x[3] \in Visible(data[inodes[d].blks[x[2]]])
  BY EntriesInIs
<1>2. inodes[d].blks \in Seq(Block)
  BY <1>1 DEF DiskTypeOK, IsImage, IsDir
<1>3. x[2] \in Nat /\ x[2] >= 1 /\ inodes[d].blks[x[2]] \in Block
  BY <1>1, <1>2, LenProperties, ElementOfSeq
<1>4. data[inodes[d].blks[x[2]]] \in Seq(Entry)
  BY <1>3 DEF DiskTypeOK, IsImage
<1>5. x[3] \in Nat /\ x[3] >= 1
  BY <1>1, <1>4, LenProperties DEF Visible
<1>6. QED
  BY <1>3, <1>5 DEF Before

\* A walk that starts where nothing has been walked.
LEMMA OverStart ==
  ASSUME DiskTypeOK, NEW U, Whole(U), NEW R, NEW S, NEW E, WalkedOver(U, R, S, E, {}),
         NEW d \in U, d \notin E, NEW p \in {0, 1}
  PROVE  WalkedOver(U, R \cup {d}, S, E \cup {d}, {[dir |-> d, blk |-> 1, pos |-> p]})
<1> DEFINE f == [dir |-> d, blk |-> 1, pos |-> p]
<1>1. d \in Inode
  BY DEF Whole, DirInodes
<1>2. f \in WFrame /\ f.dir = d /\ f.blk = 1 /\ f.pos = p
  BY <1>1 DEF WFrame
<1>3. \A x \in EntriesIn(d) : ~ Before(f, x)
  BY <1>1, NoneBefore
<1>4. 1 .. f.pos - 1 = {}
  BY <1>2
<1>5. \A x \in EntriesIn(d) : x \notin S
  <2>1. \A x \in EntriesIn(d) : x[1] = d
    BY EntryOwner
  <2>2. QED
    BY <2>1 DEF WalkedOver
<1> SUFFICES WalkedOver(U, R \cup {d}, S, E \cup {d}, {f})
  OBVIOUS
<1> HIDE DEF f
<1>6. QED
  BY <1>2, <1>3, <1>4, <1>5 DEF WalkedOver

\* The walk of the tree before its first entry.
LEMMA WalkedStart ==
  ASSUME DiskTypeOK, NEW p \in {0, 1}
  PROVE  Walked({}, {ROOT_INODE_NUM}, {[dir |-> ROOT_INODE_NUM, blk |-> 1, pos |-> p]})
<1>1. WalkedOver(TreeDirs, {}, {}, {}, {})
  BY DEF WalkedOver
<1>2. WalkedOver(TreeDirs, {} \cup {ROOT_INODE_NUM}, {}, {} \cup {ROOT_INODE_NUM},
                 {[dir |-> ROOT_INODE_NUM, blk |-> 1, pos |-> p]})
  BY <1>1, TreeWhole, OverStart
<1>3. {} \cup {ROOT_INODE_NUM} = {ROOT_INODE_NUM}
  OBVIOUS
<1>4. QED
  BY <1>2, <1>3 DEF Walked

\* When no call is left, the directories entered have been walked, and their
\* subdirectories entered.
LEMMA OverDone ==
  ASSUME DiskTypeOK, NEW U, Whole(U), NEW R, NEW S, NEW E, WalkedOver(U, R, S, E, {})
  PROVE  S = Over(E) /\ Whole(E)
<1>1. \A d \in E : EntriesIn(d) \subseteq S
  BY DEF WalkedOver
<1>2. ASSUME NEW d \in E, NEW n \in SubDirs(d) PROVE n \in E
  <2>1. PICK x \in EntriesIn(d) : NamesDir(x) /\ Named(x) = n
    BY SubDirsNamed
  <2>2. QED
    BY <1>1, <2>1 DEF WalkedOver
<1>3. Whole(E)
  BY <1>2 DEF Whole, WalkedOver
<1>4. S \subseteq Over(E)
  BY OverIs DEF WalkedOver
<1>5. Over(E) \subseteq S
  BY <1>1, OverIs
<1>6. QED
  BY <1>3, <1>4, <1>5

\* When no call is left, the tree has been walked.
LEMMA WalkedDone ==
  ASSUME DiskTypeOK, NEW S, NEW E, Walked(S, E, {})
  PROVE  S = TreeEntries /\ E = TreeDirs
<1>1. S = Over(E) /\ Whole(E)
  BY TreeWhole, OverDone DEF Walked
<1>2. E \subseteq TreeDirs /\ ROOT_INODE_NUM \in E
  BY DEF Walked, WalkedOver
<1>3. Closed(E)
  BY <1>1, <1>2 DEF Whole, Closed
<1>4. E = TreeDirs
  BY <1>2, <1>3, TreeLeast
<1>5. QED
  BY <1>1, <1>4, TreeOver

\* The entry a call is at is one, and has not been passed.
LEMMA OverHere ==
  ASSUME DiskTypeOK, NEW U, Whole(U), NEW R, NEW S, NEW E, NEW F,
         WalkedOver(U, R, S, E, F), NEW f \in F, AtEntry(f),
         IsDir(f.dir)
  PROVE  LET x == <<f.dir, f.blk, f.pos>>
         IN  x \in EntriesIn(f.dir) /\ x \in Over(U) /\ x \notin S
<1> DEFINE x == <<f.dir, f.blk, f.pos>>
<1>1. f \in WFrame /\ f.dir \in E /\ f.dir \in U
  BY DEF WalkedOver
<1>2. f.blk \in Nat /\ f.pos \in Nat
  BY <1>1 DEF WFrame
<1>3. x[1] = f.dir /\ x[2] = f.blk /\ x[3] = f.pos
  OBVIOUS
<1>4. f.pos \in Visible(BlockAt(f))
  <2>1. 1 .. f.pos - 1 \subseteq Visible(BlockAt(f))
    BY DEF WalkedOver, AtEntry
  <2>2. DOMAIN BlockAt(f) = 1 .. Len(BlockAt(f))
    <3>1. inodes[f.dir].blks \in Seq(Block)
      BY <1>1 DEF DiskTypeOK, IsImage, IsDir, WFrame
    <3>2. inodes[f.dir].blks[f.blk] \in Block
      BY <3>1, LenProperties, ElementOfSeq DEF AtEntry, OnBlock
    <3>3. BlockAt(f) \in Seq(Entry)
      BY <3>2 DEF BlockAt, DiskTypeOK, IsImage
    <3>4. QED
      BY <3>3, LenProperties
  <2>3. f.pos \in DOMAIN BlockAt(f) /\ f.pos >= 1
    BY <2>2 DEF AtEntry
  <2>4. ASSUME NEW q \in 1 .. f.pos PROVE BlockAt(f)[q].ino # 0
    <3>1. CASE q = f.pos
      BY <3>1 DEF AtEntry
    <3>2. CASE q # f.pos
      <4>1. q \in 1 .. f.pos - 1 /\ q \in 1 .. q
        BY <3>2, <1>2
      <4>2. q \in Visible(BlockAt(f))
        BY <4>1, <2>1
      <4>3. QED
        BY <4>1, <4>2 DEF Visible
    <3>3. QED
      BY <3>1, <3>2
  <2>5. QED
    BY <2>3, <2>4 DEF Visible
<1>5. x \in EntriesIn(f.dir)
  BY <1>3, <1>4, EntriesInIs DEF AtEntry, OnBlock, BlockAt
<1>6. x \in Over(U)
  BY <1>1, <1>3, <1>5, OverIs
<1>7. x \notin S
  BY <1>2, <1>3, <1>5 DEF WalkedOver, Before
<1>8. QED
  BY <1>5, <1>6, <1>7

\* What one more entry does to what a call has been past.
LEMMA OverPast ==
  ASSUME DiskTypeOK, NEW U, Whole(U), NEW R, NEW S, NEW E, NEW F,
         WalkedOver(U, R, S, E, F), NEW f \in F, AtEntry(f),
         IsDir(f.dir)
  PROVE  LET x == <<f.dir, f.blk, f.pos>>
             g == [f EXCEPT !.pos = @ + 1]
         IN  /\ g \in WFrame /\ g.dir = f.dir
             /\ OnBlock(g) => 1 .. g.pos - 1 \subseteq Visible(BlockAt(g))
             /\ \A y \in EntriesIn(g.dir) : y \in S \cup {x} <=> Before(g, y)
<1> DEFINE x == <<f.dir, f.blk, f.pos>>
           g == [f EXCEPT !.pos = @ + 1]
<1>1. f \in WFrame /\ f.dir \in E
  BY DEF WalkedOver
<1>2. g \in WFrame /\ g.dir = f.dir /\ g.blk = f.blk /\ g.pos = f.pos + 1
  BY <1>1 DEF WFrame
<1>3. f.blk \in Nat /\ f.pos \in Nat
  BY <1>1 DEF WFrame
<1>4. x \in EntriesIn(f.dir)
  BY OverHere
<1>5. x[1] = f.dir /\ x[2] = f.blk /\ x[3] = f.pos
  OBVIOUS
<1> HIDE DEF g
<1>6. OnBlock(g) => 1 .. g.pos - 1 \subseteq Visible(BlockAt(g))
  <2>1. BlockAt(g) = BlockAt(f)
    BY <1>2 DEF BlockAt
  <2>2. f.pos \in Visible(BlockAt(f))
    BY <1>4, <1>5, EntriesInIs DEF BlockAt
  <2>3. 1 .. f.pos - 1 \subseteq Visible(BlockAt(f))
    BY DEF WalkedOver, AtEntry
  <2>4. g.pos - 1 = f.pos
    BY <1>2, <1>3
  <2>5. QED
    BY <1>3, <2>1, <2>2, <2>3, <2>4
<1>7. ASSUME NEW y \in EntriesIn(f.dir) PROVE y \in S \cup {x} <=> Before(g, y)
  <2>1. /\ y = <<f.dir, y[2], y[3]>>
        /\ y \in S <=> Before(f, y)
        /\ y[2] \in DOMAIN inodes[f.dir].blks
        /\ y[3] \in Visible(data[inodes[f.dir].blks[y[2]]])
    BY EntriesInIs DEF WalkedOver
  <2>2. y = x <=> y[2] = f.blk /\ y[3] = f.pos
    <3>1. \A k, p : <<f.dir, k, p>> = <<f.dir, f.blk, f.pos>> <=> k = f.blk /\ p = f.pos
      OBVIOUS
    <3>2. <<f.dir, y[2], y[3]>> = x <=> y[2] = f.blk /\ y[3] = f.pos
      BY <3>1
    <3> HIDE DEF x
    <3>3. QED
      BY <2>1, <3>2, Zenon
  <2>3. y[2] \in Nat /\ y[3] \in Nat
    <3>1. inodes[f.dir].blks \in Seq(Block)
      BY <1>1 DEF DiskTypeOK, IsImage, IsDir, WFrame
    <3>2. y[2] \in Nat /\ inodes[f.dir].blks[y[2]] \in Block
      BY <2>1, <3>1, LenProperties, ElementOfSeq
    <3>3. data[inodes[f.dir].blks[y[2]]] \in Seq(Entry)
      BY <3>2 DEF DiskTypeOK, IsImage
    <3>4. QED
      BY <2>1, <3>2, <3>3, LenProperties DEF Visible
  <2>4. Before(g, y) <=> Before(f, y) \/ (y[2] = f.blk /\ y[3] = f.pos)
    BY <1>2, <1>3, <2>3 DEF Before
  <2>5. y \in S <=> Before(f, y)
    BY <2>1
  <2> HIDE DEF x
  <2>6. QED
    BY <2>2, <2>4, <2>5
<1>8. QED
  BY <1>2, <1>6, <1>7 DEF g

\* An entry that leads nowhere.
LEMMA OverEntry ==
  ASSUME DiskTypeOK, NEW U, Whole(U), NEW R, NEW S, NEW E, NEW F,
         WalkedOver(U, R, S, E, F), NEW f \in F, AtEntry(f),
         IsDir(f.dir),
         ~ NamesDir(<<f.dir, f.blk, f.pos>>)
  PROVE  WalkedOver(U, R, S \cup {<<f.dir, f.blk, f.pos>>}, E,
                (F \ {f}) \cup {[f EXCEPT !.pos = @ + 1]})
<1> DEFINE x == <<f.dir, f.blk, f.pos>>
           g == [f EXCEPT !.pos = @ + 1]
<1>1. x \in EntriesIn(f.dir) /\ x \in Over(U) /\ x \notin S /\ x[1] = f.dir
  BY OverHere
<1>2. /\ g \in WFrame /\ g.dir = f.dir
      /\ OnBlock(g) => 1 .. g.pos - 1 \subseteq Visible(BlockAt(g))
      /\ \A y \in EntriesIn(g.dir) : y \in S \cup {x} <=> Before(g, y)
  BY OverPast
<1>3. \A d : d # f.dir => \A y \in EntriesIn(d) : y # x
  BY <1>1, EntriesInIs
<1> SUFFICES WalkedOver(U, R, S \cup {x}, E, (F \ {f}) \cup {g})
  OBVIOUS
<1>4. ~ NamesDir(x)
  OBVIOUS
<1> HIDE DEF x, g
<1>5. QED
  BY <1>1, <1>2, <1>3, <1>4 DEF WalkedOver

\* An entry that leads into a directory: one that has not been entered.
LEMMA OverInto ==
  ASSUME DiskTypeOK, NEW U, Whole(U), Forest(U), NEW R, NEW S, NEW E, NEW F,
         WalkedOver(U, R, S, E, F), NEW f \in F, AtEntry(f),
         IsDir(f.dir), NamesDir(<<f.dir, f.blk, f.pos>>),
         Named(<<f.dir, f.blk, f.pos>>) \notin R, NEW p \in {0, 1}
  PROVE  LET x == <<f.dir, f.blk, f.pos>>
             n == Named(x)
             c == [dir |-> n, blk |-> 1, pos |-> p]
         IN  /\ n \in DirInodes /\ n \notin E
             /\ WalkedOver(U, R, S \cup {x}, E \cup {n}, (F \ {f}) \cup {[f EXCEPT !.pos = @ + 1], c})
<1> DEFINE x == <<f.dir, f.blk, f.pos>>
           n == Named(x)
           c == [dir |-> n, blk |-> 1, pos |-> p]
           g == [f EXCEPT !.pos = @ + 1]
<1>1. x \in EntriesIn(f.dir) /\ x \in Over(U) /\ x \notin S /\ x[1] = f.dir
  BY OverHere
<1>2. /\ g \in WFrame /\ g.dir = f.dir
      /\ OnBlock(g) => 1 .. g.pos - 1 \subseteq Visible(BlockAt(g))
      /\ \A y \in EntriesIn(g.dir) : y \in S \cup {x} <=> Before(g, y)
  BY OverPast
<1>3. \A d : d # f.dir => \A y \in EntriesIn(d) : y # x
  BY <1>1, EntriesInIs
<1>4. NamesDir(x) /\ n \notin R
  OBVIOUS
<1> HIDE DEF x, n
<1>5. f.dir \in U /\ f.dir \in E
  BY DEF WalkedOver
<1>6. IsDir(n)
  BY <1>1, <1>4 DEF Forest, n
<1>7. n \in U /\ n \in Inode
  <2>1. n \in SubDirs(f.dir)
    BY <1>1, <1>4, <1>6, SubDirsNamed DEF n
  <2>2. QED
    BY <1>5, <2>1 DEF Whole, DirInodes
<1>8. n \notin E
  <2>1. SUFFICES ASSUME n \in E PROVE FALSE
    OBVIOUS
  <2>2. PICK y \in S : NamesDir(y) /\ Named(y) = n
    BY <1>4, <2>1 DEF WalkedOver
  <2>3. y \in Over(U)
    BY DEF WalkedOver
  <2>4. y = x
    BY <1>1, <1>4, <2>2, <2>3 DEF Forest, n
  <2>5. QED
    BY <1>1, <2>4
<1>9. /\ c \in WFrame /\ c.dir = n /\ 1 .. c.pos - 1 = {}
      /\ \A y \in EntriesIn(n) : ~ Before(c, y)
  <2>1. \A y \in EntriesIn(n) : ~ Before(c, y)
    BY <1>7, NoneBefore
  <2>2. c \in WFrame /\ c.dir = n /\ 1 .. c.pos - 1 = {}
    BY <1>7 DEF WFrame
  <2>3. QED
    BY <2>1, <2>2
<1> HIDE DEF g, c
<1>10. \A f1 \in F : f1.dir # n
  BY <1>8 DEF WalkedOver
<1>11. \A y \in EntriesIn(n) : y \notin S /\ y # x
  <2>1. \A y \in EntriesIn(n) : y[1] = n
    BY EntryOwner
  <2>2. QED
    BY <1>1, <1>5, <1>8, <2>1 DEF WalkedOver
<1>12. WalkedOver(U, R, S \cup {x}, E \cup {n}, (F \ {f}) \cup {g, c})
  <2> DEFINE S1 == S \cup {x}
             E1 == E \cup {n}
             F1 == (F \ {f}) \cup {g, c}
  <2>1. F1 \subseteq WFrame /\ E1 \subseteq U /\ R \subseteq E1
    BY <1>2, <1>7, <1>9 DEF WalkedOver
  <2>2. S1 \subseteq Over(U) /\ \A y \in S1 : y[1] \in E1
    BY <1>1, <1>5 DEF WalkedOver
  <2>3. \A h \in F1 : h.dir \in E1
    BY <1>2, <1>5, <1>9 DEF WalkedOver
  <2>4. \A h, k \in F1 : h.dir = k.dir => h = k
    BY <1>2, <1>9, <1>10 DEF WalkedOver
  <2>5. \A h \in F1 : OnBlock(h) => 1 .. h.pos - 1 \subseteq Visible(BlockAt(h))
    BY <1>2, <1>9 DEF WalkedOver
  <2>6. \A h \in F1 : \A y \in EntriesIn(h.dir) : y \in S1 <=> Before(h, y)
    <3>1. SUFFICES ASSUME NEW h \in F1, NEW y \in EntriesIn(h.dir)
                   PROVE  y \in S1 <=> Before(h, y)
      OBVIOUS
    <3>2. CASE h = g
      BY <1>2, <3>2
    <3>3. CASE h = c
      BY <1>9, <1>11, <3>3
    <3>4. CASE h \in F \ {f}
      <4>1. h.dir # f.dir
        BY <3>4 DEF WalkedOver
      <4>2. y # x
        BY <1>3, <4>1
      <4>3. QED
        BY <3>4, <4>2 DEF WalkedOver
    <3>5. QED
      BY <3>2, <3>3, <3>4
  <2>7. \A d \in E1 : (\A h \in F1 : h.dir # d) => EntriesIn(d) \subseteq S1
    <3>1. SUFFICES ASSUME NEW d \in E1, \A h \in F1 : h.dir # d
                   PROVE  EntriesIn(d) \subseteq S1
      OBVIOUS
    <3>2. d # n /\ d # f.dir
      BY <1>2, <1>9, <3>1
    <3>3. d \in E /\ \A h \in F : h.dir # d
      BY <3>1, <3>2
    <3>4. QED
      BY <3>3 DEF WalkedOver
  <2>8. \A y \in S1 : NamesDir(y) => Named(y) \in E1
    BY DEF WalkedOver, n
  <2>9. \A d \in E1 \ R : \E y \in S1 : NamesDir(y) /\ Named(y) = d
    BY <1>4 DEF WalkedOver, n
  <2> HIDE DEF S1, E1, F1
  <2>10. WalkedOver(U, R, S1, E1, F1)
    BY <2>1, <2>2, <2>3, <2>4, <2>5, <2>6, <2>7, <2>8, <2>9 DEF WalkedOver
  <2>11. QED
    BY <2>10 DEF S1, E1, F1
<1>13. QED
  BY <1>6, <1>7, <1>8, <1>12 DEF DirInodes, g, c, n, x

\* A call that has been past the same entries, after its step as before.
LEMMA OverStill ==
  ASSUME DiskTypeOK, NEW U, Whole(U), NEW R, NEW S, NEW E, NEW F,
         WalkedOver(U, R, S, E, F), NEW f \in F, NEW g \in WFrame,
         g.dir = f.dir, g.pos \in {0, 1},
         \A x \in EntriesIn(f.dir) : Before(f, x) <=> Before(g, x)
  PROVE  WalkedOver(U, R, S, E, (F \ {f}) \cup {g})
<1>1. 1 .. g.pos - 1 = {}
  OBVIOUS
<1>2. QED
  BY <1>1 DEF WalkedOver

\* The end of a block, of which the call has seen what can be seen.
LEMMA OverTurn ==
  ASSUME DiskTypeOK, NEW U, Whole(U), NEW R, NEW S, NEW E, NEW F,
         WalkedOver(U, R, S, E, F), NEW f \in F,
         OnBlock(f), f.pos >= 1, ~ AtEntry(f), NEW p \in {0, 1}
  PROVE  WalkedOver(U, R, S, E, (F \ {f}) \cup {[dir |-> f.dir, blk |-> f.blk + 1, pos |-> p]})
<1> DEFINE g == [dir |-> f.dir, blk |-> f.blk + 1, pos |-> p]
<1>1. f \in WFrame /\ f.dir \in Inode /\ f.blk \in Nat \ {0} /\ f.pos \in Nat
  BY DEF WalkedOver, WFrame
<1>2. g \in WFrame /\ g.dir = f.dir /\ g.pos \in {0, 1} /\ g.blk = f.blk + 1 /\ g.pos = p
  BY <1>1 DEF WFrame
<1> HIDE DEF g
<1>3. ASSUME NEW x \in EntriesIn(f.dir) PROVE Before(f, x) <=> Before(g, x)
  <2>1. /\ IsDir(f.dir)
        /\ x[2] \in DOMAIN inodes[f.dir].blks
        /\ x[3] \in Visible(data[inodes[f.dir].blks[x[2]]])
    BY EntriesInIs
  <2>2. inodes[f.dir].blks \in Seq(Block)
    BY <1>1, <2>1 DEF DiskTypeOK, IsImage, IsDir
  <2>3. x[2] \in Nat /\ inodes[f.dir].blks[x[2]] \in Block
    BY <2>1, <2>2, LenProperties, ElementOfSeq
  <2>4. data[inodes[f.dir].blks[x[2]]] \in Seq(Entry)
    BY <2>3 DEF DiskTypeOK, IsImage
  <2>5. /\ x[3] \in 1 .. Len(data[inodes[f.dir].blks[x[2]]])
        /\ Len(data[inodes[f.dir].blks[x[2]]]) \in Nat
        /\ \A q \in 1 .. x[3] : data[inodes[f.dir].blks[x[2]]][q].ino # 0
    BY <2>1, <2>4, LenProperties DEF Visible
  <2>6. x[2] = f.blk => x[3] < f.pos
    <3>1. SUFFICES ASSUME x[2] = f.blk, x[3] >= f.pos PROVE FALSE
      BY <1>1, <2>5
    <3>2. f.pos \in 1 .. x[3] /\ f.pos \in 1 .. Len(BlockAt(f))
      BY <1>1, <2>5, <3>1 DEF BlockAt
    <3>3. BlockAt(f)[f.pos].ino # 0
      BY <2>5, <3>1, <3>2 DEF BlockAt
    <3>4. QED
      BY <3>2, <3>3 DEF AtEntry
  <2>7. x[3] >= 1 /\ x[3] \in Nat
    BY <2>5
  <2>8. Before(f, x) <=> x[2] <= f.blk
    BY <1>1, <2>3, <2>6 DEF Before
  <2>9. Before(g, x) <=> x[2] <= f.blk
    BY <1>1, <1>2, <2>3, <2>7 DEF Before
  <2>10. QED
    BY <2>8, <2>9
<1>4. WalkedOver(U, R, S, E, (F \ {f}) \cup {g})
  BY <1>2, <1>3, OverStill
<1>5. QED
  BY <1>4 DEF g

\* A block opened: still before its first entry.
LEMMA OverOpen ==
  ASSUME DiskTypeOK, NEW U, Whole(U), NEW R, NEW S, NEW E, NEW F,
         WalkedOver(U, R, S, E, F), NEW f \in F, f.pos = 0
  PROVE  WalkedOver(U, R, S, E, (F \ {f}) \cup {[f EXCEPT !.pos = 1]})
<1> DEFINE g == [f EXCEPT !.pos = 1]
<1>1. f \in WFrame /\ f.dir \in Inode /\ f.blk \in Nat \ {0}
  BY DEF WalkedOver, WFrame
<1>2. g \in WFrame /\ g.dir = f.dir /\ g.pos = 1 /\ g.blk = f.blk
  BY <1>1 DEF WFrame
<1> HIDE DEF g
<1>3. ASSUME NEW x \in EntriesIn(f.dir) PROVE Before(f, x) <=> Before(g, x)
  <2>1. /\ IsDir(f.dir)
        /\ x[2] \in DOMAIN inodes[f.dir].blks
        /\ x[3] \in Visible(data[inodes[f.dir].blks[x[2]]])
    BY EntriesInIs
  <2>2. inodes[f.dir].blks \in Seq(Block)
    BY <1>1, <2>1 DEF DiskTypeOK, IsImage, IsDir
  <2>3. inodes[f.dir].blks[x[2]] \in Block
    BY <2>1, <2>2, LenProperties, ElementOfSeq
  <2>4. data[inodes[f.dir].blks[x[2]]] \in Seq(Entry)
    BY <2>3 DEF DiskTypeOK, IsImage
  <2>5. x[3] \in Nat \ {0}
    BY <2>1, <2>4, LenProperties DEF Visible
  <2>6. QED
    BY <1>2, <2>5 DEF Before
<1>4. WalkedOver(U, R, S, E, (F \ {f}) \cup {g})
  BY <1>2, <1>3, OverStill
<1>5. QED
  BY <1>4 DEF g

\* A call returns when it has been past all blocks of its directory.
LEMMA OverReturn ==
  ASSUME DiskTypeOK, NEW U, Whole(U), NEW R, NEW S, NEW E, NEW F,
         WalkedOver(U, R, S, E, F), NEW f \in F,
         IsDir(f.dir), f.blk > Len(inodes[f.dir].blks)
  PROVE  WalkedOver(U, R, S, E, F \ {f})
<1>1. f \in WFrame /\ f.dir \in Inode /\ f.blk \in Nat \ {0}
  BY DEF WalkedOver, WFrame
<1>2. inodes[f.dir].blks \in Seq(Block)
  BY <1>1 DEF DiskTypeOK, IsImage, IsDir
<1>3. EntriesIn(f.dir) \subseteq S
  <2>1. ASSUME NEW x \in EntriesIn(f.dir) PROVE x \in S
    <3>1. x[2] \in DOMAIN inodes[f.dir].blks
      BY EntriesInIs
    <3>2. x[2] < f.blk
      BY <1>1, <1>2, <3>1, LenProperties
    <3>3. QED
      BY <3>2 DEF WalkedOver, Before
  <2>2. QED
    BY <2>1
<1>4. QED
  BY <1>3 DEF WalkedOver

-----------------------------------------------------------------------------
(* The same for the walk of the tree *)

\* The tree is a forest, with the root at the top.
LEMMA ShapeForest ==
  ASSUME TreeShape
  PROVE  Forest(TreeDirs) /\ \A x \in TreeEntries : NamesDir(x) => Named(x) # ROOT_INODE_NUM
BY TreeOver DEF TreeShape, Forest

\* OverHere, of the walk of the tree.
LEMMA EntryHere ==
  ASSUME DiskTypeOK, NEW S, NEW E, NEW F, Walked(S, E, F), NEW f \in F, AtEntry(f),
         IsDir(f.dir)
  PROVE  LET x == <<f.dir, f.blk, f.pos>>
         IN  x \in EntriesIn(f.dir) /\ x \in TreeEntries /\ x \notin S
BY TreeWhole, TreeOver, OverHere DEF Walked

\* OverEntry, of the walk of the tree.
LEMMA WalkedEntry ==
  ASSUME DiskTypeOK, NEW S, NEW E, NEW F, Walked(S, E, F), NEW f \in F, AtEntry(f),
         IsDir(f.dir),
         ~ NamesDir(<<f.dir, f.blk, f.pos>>)
  PROVE  Walked(S \cup {<<f.dir, f.blk, f.pos>>}, E,
                (F \ {f}) \cup {[f EXCEPT !.pos = @ + 1]})
BY TreeWhole, OverEntry DEF Walked

\* OverInto, of the walk of the tree.
LEMMA WalkedInto ==
  ASSUME DiskTypeOK, TreeShape, NEW S, NEW E, NEW F, Walked(S, E, F), NEW f \in F, AtEntry(f),
         IsDir(f.dir), NamesDir(<<f.dir, f.blk, f.pos>>), NEW p \in {0, 1}
  PROVE  LET x == <<f.dir, f.blk, f.pos>>
             n == Named(x)
             c == [dir |-> n, blk |-> 1, pos |-> p]
         IN  /\ n \in DirInodes /\ n \notin E
             /\ Walked(S \cup {x}, E \cup {n}, (F \ {f}) \cup {[f EXCEPT !.pos = @ + 1], c})
<1>1. Named(<<f.dir, f.blk, f.pos>>) \notin {ROOT_INODE_NUM}
  BY EntryHere, ShapeForest
<1>2. QED
  BY <1>1, TreeWhole, ShapeForest, OverInto DEF Walked

\* OverTurn, of the walk of the tree.
LEMMA WalkedTurn ==
  ASSUME DiskTypeOK, NEW S, NEW E, NEW F, Walked(S, E, F), NEW f \in F,
         OnBlock(f), f.pos >= 1, ~ AtEntry(f), NEW p \in {0, 1}
  PROVE  Walked(S, E, (F \ {f}) \cup {[dir |-> f.dir, blk |-> f.blk + 1, pos |-> p]})
BY TreeWhole, OverTurn DEF Walked

\* OverOpen, of the walk of the tree.
LEMMA WalkedOpen ==
  ASSUME DiskTypeOK, NEW S, NEW E, NEW F, Walked(S, E, F), NEW f \in F, f.pos = 0
  PROVE  Walked(S, E, (F \ {f}) \cup {[f EXCEPT !.pos = 1]})
BY TreeWhole, OverOpen DEF Walked

\* OverReturn, of the walk of the tree.
LEMMA WalkedReturn ==
  ASSUME DiskTypeOK, NEW S, NEW E, NEW F, Walked(S, E, F), NEW f \in F,
         IsDir(f.dir), f.blk > Len(inodes[f.dir].blks)
  PROVE  Walked(S, E, F \ {f})
BY TreeWhole, OverReturn DEF Walked

-----------------------------------------------------------------------------
(* The stack of calls *)

FramesOf(st) == {st[i] : i \in 1 .. Len(st)}

\* Every call is for a directory of its own.
Stack(st) ==
  /\ st \in Seq(WFrame)
  /\ \A i, j \in 1 .. Len(st) : st[i].dir = st[j].dir => i = j

\* A stack of one call.
LEMMA StackStart ==
  ASSUME NEW c \in WFrame
  PROVE  Stack(<<c>>) /\ FramesOf(<<c>>) = {c}
<1>1. <<c>> \in Seq(WFrame) /\ Len(<<c>>) = 1 /\ <<c>>[1] = c
  OBVIOUS
<1>2. QED
  BY <1>1 DEF Stack, FramesOf

\* The call on top of a stack.
LEMMA StackTop ==
  ASSUME NEW st, Stack(st), st # <<>>
  PROVE  /\ Len(st) \in Nat \ {0} /\ Len(st) \in 1 .. Len(st)
         /\ st[Len(st)] \in FramesOf(st) /\ st[Len(st)] \in WFrame
<1>1. Len(st) \in Nat \ {0}
  BY EmptySeq DEF Stack
<1>2. QED
  BY <1>1, ElementOfSeq DEF Stack, FramesOf

\* The running call goes on.
LEMMA StackResume ==
  ASSUME NEW st, Stack(st), st # <<>>, NEW f \in WFrame, f.dir = st[Len(st)].dir
  PROVE  LET s == [st EXCEPT ![Len(st)] = f]
         IN  Stack(s) /\ Len(s) = Len(st) /\ s[Len(s)] = f /\ s # <<>>
             /\ FramesOf(s) = (FramesOf(st) \ {st[Len(st)]}) \cup {f}
<1> DEFINE s == [st EXCEPT ![Len(st)] = f]
           n == Len(st)
<1>1. n \in Nat \ {0} /\ n \in 1 .. n
  BY StackTop
<1>2. /\ s \in Seq(WFrame) /\ Len(s) = n
      /\ \A j \in 1 .. n : s[j] = IF j = n THEN f ELSE st[j]
  BY <1>1, ExceptSeq DEF Stack
<1> HIDE DEF s
<1>3. \A i, j \in 1 .. n : s[i].dir = s[j].dir => i = j
  BY <1>1, <1>2 DEF Stack
<1>4. \A i \in 1 .. n : st[i] = st[n] <=> i = n
  BY <1>1 DEF Stack
<1>5. FramesOf(s) = (FramesOf(st) \ {st[n]}) \cup {f}
  BY <1>1, <1>2, <1>4 DEF FramesOf
<1>6. s # <<>>
  BY <1>1, <1>2, EmptySeq
<1>7. QED
  BY <1>1, <1>2, <1>3, <1>5, <1>6 DEF s, Stack

\* A call for a directory that has none.
LEMMA StackCall ==
  ASSUME NEW st, Stack(st), NEW c \in WFrame, \A f \in FramesOf(st) : f.dir # c.dir
  PROVE  Stack(Append(st, c)) /\ FramesOf(Append(st, c)) = FramesOf(st) \cup {c}
<1> DEFINE s == Append(st, c)
           n == Len(st)
<1>1. n \in Nat
  BY LenProperties DEF Stack
<1>2. /\ s \in Seq(WFrame) /\ Len(s) = n + 1 /\ s[n + 1] = c
      /\ \A j \in 1 .. n : s[j] = st[j]
  BY AppendProperties DEF Stack
<1> HIDE DEF s
<1>3. \A j \in 1 .. n : s[j].dir # s[n + 1].dir
  BY <1>2 DEF FramesOf
<1>4. \A i, j \in 1 .. n : s[i].dir = s[j].dir => i = j
  BY <1>2 DEF Stack
<1>5. \A i \in 1 .. n + 1 : i = n + 1 \/ i \in 1 .. n
  BY <1>1
<1>6. \A i, j \in 1 .. n + 1 : s[i].dir = s[j].dir => i = j
  BY <1>3, <1>4, <1>5
<1>7. FramesOf(s) = FramesOf(st) \cup {c}
  <2>1. n + 1 \in 1 .. n + 1 /\ 1 .. n \subseteq 1 .. n + 1
    BY <1>1
  <2>2. QED
    BY <1>2, <1>5, <2>1 DEF FramesOf
<1>8. QED
  BY <1>2, <1>6, <1>7 DEF Stack, s

\* A stack without the call on top.
LEMMA StackReturn ==
  ASSUME NEW st, Stack(st), st # <<>>
  PROVE  LET s == SubSeq(st, 1, Len(st) - 1)
         IN  Stack(s) /\ FramesOf(s) = FramesOf(st) \ {st[Len(st)]}
<1> DEFINE s == SubSeq(st, 1, Len(st) - 1)
           n == Len(st)
<1>1. n \in Nat \ {0} /\ n \in 1 .. n
  BY StackTop
<1>2. \A i \in 1 .. n - 1 : st[i] \in WFrame
  BY <1>1, ElementOfSeq DEF Stack
<1>3. /\ s \in Seq(WFrame) /\ Len(s) = n - 1
      /\ \A i \in 1 .. n - 1 : s[i] = st[i]
  <2> DEFINE m == n - 1
  <2>1. m \in Nat /\ 1 \in Int /\ m \in Int /\ \A i \in 1 .. m : st[i] \in WFrame
    BY <1>1, <1>2
  <2> HIDE DEF m
  <2>2. /\ SubSeq(st, 1, m) \in Seq(WFrame)
        /\ Len(SubSeq(st, 1, m)) = IF 1 <= m THEN m - 1 + 1 ELSE 0
        /\ \A i \in 1 .. m - 1 + 1 : SubSeq(st, 1, m)[i] = st[1 + i - 1]
    BY <2>1, SubSeqProperties
  <2>3. Len(SubSeq(st, 1, m)) = m /\ \A i \in 1 .. m : SubSeq(st, 1, m)[i] = st[i]
    <3>1. m - 1 + 1 = m /\ \A i \in 1 .. m : 1 + i - 1 = i
      BY <2>1
    <3>2. QED
      BY <2>1, <2>2, <3>1
  <2>4. QED
    BY <2>2, <2>3 DEF m
<1> HIDE DEF s
<1>4. \A i, j \in 1 .. n - 1 : s[i].dir = s[j].dir => i = j
  BY <1>1, <1>3 DEF Stack
<1>5. \A i \in 1 .. n : (st[i] = st[n] <=> i = n) /\ (i = n \/ i \in 1 .. n - 1)
  BY <1>1 DEF Stack
<1>6. FramesOf(s) = FramesOf(st) \ {st[n]}
  <2>1. 1 .. n - 1 \subseteq 1 .. n /\ n \notin 1 .. n - 1
    BY <1>1
  <2>2. QED
    BY <1>3, <1>5, <2>1 DEF FramesOf
<1>7. QED
  BY <1>3, <1>4, <1>6 DEF Stack, s

-----------------------------------------------------------------------------
(* A step that writes neither an inode nor a directory block *)

\* A step that writes no directory leaves the tree what it is.
LEMMA TreeSame ==
  ASSUME UNCHANGED <<inodes, data>>
  PROVE  TreeDirs' = TreeDirs /\ TreeEntries' = TreeEntries
BY DEF TreeDirs, TreeEntries, ReachedIn, SubDirs, Names, Entries, EntryAt, IsDir, Visible

\* Such a step leaves a walk what it is.
LEMMA OverSame ==
  ASSUME UNCHANGED <<inodes, data>>, NEW U, NEW R, NEW S, NEW E, NEW F,
         WalkedOver(U, R, S, E, F)
  PROVE  WalkedOver(U, R, S, E, F)'
<1>1. \A d : EntriesIn(d)' = EntriesIn(d)
  BY DEF EntriesIn, Entries, IsDir, Visible
<1>2. Over(U)' = Over(U)
  BY <1>1 DEF Over
<1>3. \A x : (NamesDir(x)' <=> NamesDir(x)) /\ Named(x)' = Named(x)
  BY DEF IsName, NamesDir, Named, EntryAt
<1>4. \A f : (OnBlock(f)' <=> OnBlock(f)) /\ Visible(BlockAt(f))' = Visible(BlockAt(f))
  BY DEF OnBlock, BlockAt, Visible
<1>5. QED
  BY <1>1, <1>2, <1>3, <1>4 DEF WalkedOver

\* The same of the walk of the tree.
LEMMA WalkedSame ==
  ASSUME UNCHANGED <<inodes, data>>, NEW S, NEW E, NEW F, Walked(S, E, F)
  PROVE  Walked(S, E, F)'
<1>1. PICK U : U = TreeDirs
  OBVIOUS
<1>2. WalkedOver(U, {ROOT_INODE_NUM}, S, E, F)'
  BY <1>1, OverSame DEF Walked
<1>3. TreeDirs' = U
  BY <1>1, TreeSame
<1>4. QED
  BY <1>2, <1>3 DEF Walked, WalkedOver, Over

\* Such a step changes no name.
LEMMA NamingSame ==
  ASSUME UNCHANGED <<inodes, data>>, NEW S, NEW n
  PROVE  Naming(S, n)' = Naming(S, n)
BY DEF Naming, Named, EntryAt

\* Such a step leaves the tree a tree.
LEMMA ShapeSame ==
  ASSUME UNCHANGED <<inodes, data>>, TreeShape
  PROVE  TreeShape'
<1>1. TreeEntries' = TreeEntries
  BY TreeSame
<1>2. \A x : (NamesDir(x)' <=> NamesDir(x)) /\ Named(x)' = Named(x) /\ (IsDir(Named(x))' <=> IsDir(Named(x)))
  BY DEF IsName, NamesDir, Named, EntryAt, IsDir
<1>3. QED
  BY <1>1, <1>2 DEF TreeShape

\* Such a step changes no number of names.
LEMMA RefsSame ==
  ASSUME UNCHANGED <<inodes, data>>, NEW n
  PROVE  NumRefs(n)' = NumRefs(n)
<1>1. TreeEntries' = TreeEntries
  BY TreeSame
<1>2. \A x : Named(x)' = Named(x)
  BY DEF Named, EntryAt
<1>3. Naming(TreeEntries, n)' = Naming(TreeEntries, n)
  BY <1>1, <1>2 DEF Naming
<1>4. QED
  BY <1>3 DEF NumRefs

-----------------------------------------------------------------------------
(* A step that writes entries but leaves the names of the tree *)

\* TreeLeast after a step: it is about every partition.
LEMMA TreeLeastNext == (\A S : Closed(S) => TreeDirs \subseteq S)'
<1>1. \A S : Closed(S) => TreeDirs \subseteq S
  BY TreeLeast
<1>2. QED
  BY <1>1, PTL

\* TreeClosed after a step.
LEMMA TreeClosedNext == (DiskTypeOK => Closed(TreeDirs) /\ TreeDirs \subseteq DirInodes)'
<1>1. DiskTypeOK => Closed(TreeDirs) /\ TreeDirs \subseteq DirInodes
  BY TreeClosed
<1>2. QED
  BY <1>1, PTL

\* The tree is the same as long as its directories have the subdirectories.
LEMMA TreeLike ==
  ASSUME DiskTypeOK, DiskTypeOK', \A d \in TreeDirs : SubDirs(d)' = SubDirs(d)
  PROVE  TreeDirs' = TreeDirs
<1> DEFINE T == TreeDirs
<1>1. ROOT_INODE_NUM \in T /\ \A d \in T : SubDirs(d) \subseteq T
  BY TreeClosed DEF Closed
<1>2. \A S : ROOT_INODE_NUM \in S /\ (\A d \in S : SubDirs(d)' \subseteq S) => TreeDirs' \subseteq S
  BY TreeLeastNext DEF Closed
<1>3. ROOT_INODE_NUM \in TreeDirs' /\ \A d \in TreeDirs' : SubDirs(d)' \subseteq TreeDirs'
  BY TreeClosedNext DEF Closed
<1> HIDE DEF T
<1>4. TreeDirs' \subseteq T
  <2>1. \A d \in T : SubDirs(d)' \subseteq T
    BY <1>1 DEF T
  <2>2. QED
    BY <1>1, <1>2, <2>1
<1>5. T \subseteq TreeDirs'
  <2> DEFINE U == TreeDirs'
  <2>1. U \subseteq T
    BY <1>4
  <2>2. ROOT_INODE_NUM \in U /\ \A d \in U : SubDirs(d) \subseteq U
    BY <1>3, <2>1 DEF T
  <2>3. \A S : ROOT_INODE_NUM \in S /\ (\A d \in S : SubDirs(d) \subseteq S) => T \subseteq S
    BY TreeLeast DEF Closed, T
  <2> HIDE DEF U
  <2>4. T \subseteq U
    BY <2>2, <2>3
  <2>5. QED
    BY <2>4 DEF U
<1>6. QED
  BY <1>4, <1>5 DEF T

-----------------------------------------------------------------------------
(* Names counted *)

\* The number of names is one.
LEMMA NumRefsNat ==
  ASSUME DiskTypeOK, NEW n
  PROVE  NumRefs(n) \in Nat
<1>1. IsFiniteSet(Naming(TreeEntries, n))
  BY TreeFinite, FS_Subset DEF Naming
<1>2. QED
  BY <1>1, FS_CardinalityType DEF NumRefs

\* One entry more is one name more of what it names.
LEMMA NamingMore ==
  ASSUME DiskTypeOK, NEW S, S \subseteq TreeEntries, NEW x \in TreeEntries, x \notin S, NEW n
  PROVE  /\ Cardinality(Naming(S, n)) \in Nat
         /\ Cardinality(Naming(S \cup {x}, n)) =
              Cardinality(Naming(S, n)) + (IF Named(x) = n THEN 1 ELSE 0)
         /\ Cardinality(Naming(S \cup {x}, n)) <= NumRefs(n)
<1>1. IsFiniteSet(TreeEntries)
  BY TreeFinite
<1>2. /\ Naming(S, n) \subseteq TreeEntries
      /\ Naming(S \cup {x}, n) \subseteq Naming(TreeEntries, n)
      /\ Naming(TreeEntries, n) \subseteq TreeEntries
  BY DEF Naming
<1>3. IsFiniteSet(Naming(S, n)) /\ IsFiniteSet(Naming(TreeEntries, n))
  BY <1>1, <1>2, FS_Subset
<1>4. Cardinality(Naming(S, n)) \in Nat
  BY <1>3, FS_CardinalityType
<1>5. Cardinality(Naming(S \cup {x}, n)) <= NumRefs(n)
  BY <1>2, <1>3, FS_Subset DEF NumRefs
<1>6. CASE Named(x) = n
  <2>1. Naming(S \cup {x}, n) = Naming(S, n) \cup {x} /\ x \notin Naming(S, n)
    BY <1>6 DEF Naming
  <2>2. QED
    BY <1>3, <1>4, <1>5, <1>6, <2>1, FS_AddElement
<1>7. CASE Named(x) # n
  <2>1. Naming(S \cup {x}, n) = Naming(S, n)
    BY <1>7 DEF Naming
  <2>2. QED
    BY <1>4, <1>5, <1>7, <2>1
<1>8. QED
  BY <1>6, <1>7

-----------------------------------------------------------------------------
(* directory_traversor: a walk that starts from a directory is only ever   *)
(* in inodes that are no symbolic links, so it never takes the target of a *)
(* link for block numbers, and the counts stay in a char.                  *)


\* A call for what may be walked into.  Passes 2 and 3 change no inode, so the
\* set is the same all the time.
WalkFrame == {f \in Frame2 : inodes[f.dir].mode # "lnk"}

WalkOK ==
  /\ refs \in [Inode -> CharMin .. CharMax]
  /\ stack2 \in Seq(WalkFrame)

-----------------------------------------------------------------------------

\* A walk among inodes that are no links has the types it should.
LEMMA WalkTyped == WalkOK => TrTypeOK
<1> SUFFICES ASSUME WalkOK PROVE TrTypeOK
  OBVIOUS
<1>1. stack2 \in Seq(Frame2)
  <2>1. WalkFrame \subseteq Frame2
    BY DEF WalkFrame
  <2>2. QED
    BY <2>1, SeqMonotonic DEF WalkOK
<1>2. QED
  BY <1>1 DEF WalkOK, TrTypeOK

\* No entry counted, no call made.
LEMMA WalkEmpty == refs \in [Inode -> CharMin .. CharMax] /\ stack2 = <<>> => WalkOK
BY EmptySeq DEF WalkOK

\* Counts start in a char.
LEMMA NoRefsTyped == NoRefs \in [Inode -> CharMin .. CharMax]
BY CharAssumption DEF NoRefs, CharMin

\* A count stays in a char: it wraps.
LEMMA IncTyped ==
  ASSUME NEW c \in CharMin .. CharMax
  PROVE  Inc(c) \in CharMin .. CharMax
BY CharAssumption DEF Inc, CharMin

\* A call for what may be walked into.
LEMMA CallOK ==
  ASSUME NEW n \in Inode, inodes[n].mode # "lnk"
  PROVE  Call2(n) \in WalkFrame /\ <<Call2(n)>> \in Seq(WalkFrame)
<1>1. Call2(n) \in WalkFrame
  BY DEF Call2, WalkFrame, Frame2
<1>2. QED
  BY <1>1

\* The running call.
LEMMA TopOK ==
  ASSUME WalkOK, stack2 # <<>>
  PROVE  Len(stack2) \in Nat \ {0} /\ Top2 \in WalkFrame
<1>1. Len(stack2) \in Nat \ {0}
  BY EmptySeq DEF WalkOK
<1>2. QED
  BY <1>1, ElementOfSeq DEF WalkOK, Top2

\* A stack whose top moves on is a stack.
LEMMA ResumeOK ==
  ASSUME WalkOK, stack2 # <<>>, NEW f \in WalkFrame
  PROVE  Resume2(f) \in Seq(WalkFrame)
<1>1. Len(stack2) \in 1 .. Len(stack2)
  BY TopOK
<1>2. QED
  BY <1>1, ExceptSeq DEF WalkOK, Resume2

\* An entry that is counted names an inode, and no link if it is walked into.
LEMMA EntryOK ==
  ASSUME DiskTypeOK, NEW f \in WalkFrame, HasEntry2(f)
  PROVE  /\ Entry2(f).ino \in Inode
         /\ WalksInto(f) => inodes[Entry2(f).ino].mode # "lnk"
<1>1. f.dir \in Inode /\ f.blk \in Nat \ {0} /\ f.pos \in Nat \ {0}
  BY DEF WalkFrame, Frame2
<1>2. inodes[f.dir].blks \in Seq(Block)
  BY <1>1 DEF DiskTypeOK, IsImage, WalkFrame
<1>3. f.blk \in 1 .. Len(inodes[f.dir].blks)
  BY <1>1, <1>2, LenProperties DEF HasEntry2, InBlocks2, HasBlock
<1>4. inodes[f.dir].blks[f.blk] \in Block
  BY <1>2, <1>3, ElementOfSeq
<1> DEFINE b == inodes[f.dir].blks[f.blk]
<1>6. data[b] \in Seq(Entry) /\ \A p \in DOMAIN data[b] : NoLink(data[b][p], inodes)
  BY <1>4 DEF DiskTypeOK, IsImage
<1>7. f.pos \in 1 .. Len(data[b]) /\ f.pos \in DOMAIN data[b]
  <2>1. f.pos <= Len(data[b])
    BY DEF HasEntry2, Block2
  <2> HIDE DEF b
  <2>2. Len(data[b]) \in Nat /\ DOMAIN data[b] = 1 .. Len(data[b])
    BY <1>6, LenProperties
  <2>3. QED
    BY <1>1, <2>1, <2>2
<1>8. data[b][f.pos] \in Entry /\ NoLink(data[b][f.pos], inodes)
  BY <1>6, <1>7, ElementOfSeq
<1>9. Entry2(f) = data[b][f.pos] /\ Entry2(f).ino # 0
  BY DEF Entry2, Block2, HasEntry2
<1> HIDE DEF b
<1>10. Entry2(f).ino \in Inode
  BY <1>8, <1>9, SizesAssumption DEF Entry, Inode
<1>11. WalksInto(f) => inodes[Entry2(f).ino].mode # "lnk"
  BY <1>8, <1>9 DEF WalksInto, NoLink
<1>12. QED
  BY <1>10, <1>11

\* The steps of directory_traversor keep what WalkOK says.
LEMMA WalkStep ==
  ASSUME DiskTypeOK, WalkOK, TrNext
  PROVE  WalkOK'
<1>1. /\ Len(stack2) \in Nat \ {0} /\ stack2 # <<>>
      /\ Top2 \in WalkFrame /\ Top2 \in Frame2 /\ inodes[Top2.dir].mode # "lnk"
  BY TopOK DEF TrNext, TrCount, TrNextBlock, TrReturn, WalkFrame
<1>2. WalkFrame' = WalkFrame
  BY DEF TrNext, WalkFrame, disk
<1>3. CASE TrCount
  <2> DEFINE f == [Top2 EXCEPT !.pos = @ + 1]
             n == Entry2(Top2).ino
  <2>1. f \in WalkFrame
    BY <1>1 DEF WalkFrame, Frame2
  <2>2. n \in Inode /\ (WalksInto(Top2) => inodes[n].mode # "lnk")
    BY <1>1, <1>3, EntryOK DEF TrCount
  <2>3. Resume2(f) \in Seq(WalkFrame)
    BY <1>1, <2>1, ResumeOK
  <2>4. stack2' = IF WalksInto(Top2) THEN Append(Resume2(f), Call2(n)) ELSE Resume2(f)
    BY <1>3 DEF TrCount
  <2>5. refs' = [refs EXCEPT ![n] = Inc(refs[n])]
    BY <1>3 DEF TrCount
  <2> HIDE DEF f, n
  <2>6. stack2' \in Seq(WalkFrame)
    <3>1. CASE WalksInto(Top2)
      <4>1. Call2(n) \in WalkFrame
        BY <2>2, <3>1, CallOK
      <4>2. QED
        BY <2>3, <2>4, <3>1, <4>1, AppendProperties
    <3>2. CASE ~WalksInto(Top2)
      BY <2>3, <2>4, <3>2
    <3>3. QED
      BY <3>1, <3>2
  <2>7. refs' \in [Inode -> CharMin .. CharMax]
    <3>1. Inc(refs[n]) \in CharMin .. CharMax
      BY <2>2, IncTyped DEF WalkOK
    <3>2. QED
      BY <2>2, <2>5, <3>1 DEF WalkOK
  <2>8. QED
    BY <1>2, <2>6, <2>7 DEF WalkOK, CharMin
<1>4. CASE TrNextBlock
  <2> DEFINE f == [Call2(Top2.dir) EXCEPT !.blk = Top2.blk + 1]
  <2>1. f \in WalkFrame
    <3>1. Call2(Top2.dir) \in WalkFrame
      BY <1>1, CallOK DEF Frame2
    <3>2. QED
      BY <1>1, <3>1 DEF WalkFrame, Frame2
  <2>2. stack2' \in Seq(WalkFrame) /\ refs' = refs
    BY <1>1, <1>4, <2>1, ResumeOK DEF TrNextBlock
  <2>3. QED
    BY <1>2, <2>2 DEF WalkOK, CharMin
<1>5. CASE TrReturn
  <2>1. stack2' = SubSeq(stack2, 1, Len(stack2) - 1) /\ refs' = refs
    BY <1>5 DEF TrReturn
  <2>2. stack2' \in Seq(WalkFrame)
    BY <1>1, <2>1, SubSeqProperties DEF WalkOK
  <2>3. QED
    BY <1>2, <2>1, <2>2 DEF WalkOK, CharMin
<1>6. QED
  BY <1>3, <1>4, <1>5 DEF TrNext

-----------------------------------------------------------------------------
(* What has been counted: on a partition whose tree is one, every entry    *)
(* once, and in the end all of them.                                       *)

Counted(S) == \A n \in Inode : refs[n] = Cardinality(Naming(S, n))

CountOK ==
  \E S, E : Stack(stack2) /\ Walked(S, E, FramesOf(stack2)) /\ Counted(S)

\* The walk started.
LEMMA CountedStart ==
  ASSUME DiskTypeOK, UNCHANGED disk, refs' = NoRefs, stack2' = <<Call2(ROOT_INODE_NUM)>>
  PROVE  CountOK'
<1> DEFINE c == Call2(ROOT_INODE_NUM)
<1>1. c = [dir |-> ROOT_INODE_NUM, blk |-> 1, pos |-> 1] /\ c \in WFrame
  BY SizesAssumption DEF Call2, WFrame, Inode, ROOT_INODE_NUM
<1> HIDE DEF c
<1>2. Walked({}, {ROOT_INODE_NUM}, {c})
  BY <1>1, WalkedStart
<1>3. Stack(<<c>>) /\ FramesOf(<<c>>) = {c}
  BY <1>1, StackStart
<1>4. UNCHANGED <<inodes, data>>
  BY DEF disk
<1>5. Walked({}, {ROOT_INODE_NUM}, FramesOf(stack2))'
  <2>1. FramesOf(stack2') = {c}
    BY <1>3 DEF c
  <2>2. Walked({}, {ROOT_INODE_NUM}, FramesOf(stack2'))
    BY <1>2, <2>1
  <2>3. QED
    BY <1>4, <2>2, WalkedSame
<1>6. Counted({})'
  <2>1. \A n : Naming({}, n)' = {}
    BY DEF Naming
  <2>2. QED
    BY <2>1, FS_EmptySet DEF Counted, NoRefs
<1>7. Stack(stack2')
  BY <1>3 DEF c
<1>8. QED
  BY <1>5, <1>6, <1>7 DEF CountOK

\* The walk done.
LEMMA CountedDone ==
  ASSUME DiskTypeOK, CountOK, stack2 = <<>>
  PROVE  \A n \in Inode : refs[n] = NumRefs(n)
<1>1. PICK S, E : Walked(S, E, FramesOf(stack2)) /\ Counted(S)
  BY DEF CountOK
<1>2. FramesOf(stack2) = {}
  BY EmptySeq DEF FramesOf
<1>3. S = TreeEntries
  BY <1>1, <1>2, WalkedDone
<1>4. QED
  BY <1>1, <1>3 DEF Counted, NumRefs

\* The running call as the walk sees it.
LEMMA HereOK ==
  ASSUME DiskTypeOK, WalkOK, stack2 # <<>>, NEW U, Whole(U), NEW R, NEW S, NEW E,
         Stack(stack2), WalkedOver(U, R, S, E, FramesOf(stack2))
  PROVE  /\ Top2 \in FramesOf(stack2) /\ Top2 \in WFrame /\ Top2 \in WalkFrame
         /\ IsDir(Top2.dir) /\ Top2.dir \in Inode
         /\ InBlocks2(Top2) <=> OnBlock(Top2)
         /\ HasEntry2(Top2) <=> AtEntry(Top2)
         /\ LET x == <<Top2.dir, Top2.blk, Top2.pos>>
            IN  (NamesDir(x) <=> WalksInto(Top2)) /\ Named(x) = Entry2(Top2).ino
<1> DEFINE f == Top2
           x == <<f.dir, f.blk, f.pos>>
<1>1. f \in FramesOf(stack2) /\ f \in WFrame /\ f \in WalkFrame
  BY StackTop, TopOK DEF Top2
<1> HIDE DEF f
<1>2. f.dir \in DirInodes
  BY <1>1 DEF Whole, WalkedOver
<1>3. f.blk \in Nat \ {0} /\ f.pos \in Nat \ {0}
  BY <1>1 DEF WalkFrame, Frame2
<1>4. inodes[f.dir].blks \in Seq(Block)
  BY <1>2 DEF DiskTypeOK, IsImage, IsDir, DirInodes
<1>5. InBlocks2(f) <=> OnBlock(f)
  <2>1. f.dir \in Inode /\ IsDir(f.dir)
    BY <1>2 DEF DirInodes
  <2>2. QED
    BY <1>3, <2>1, HasBlockOK DEF InBlocks2, OnBlock
<1>6. HasEntry2(f) <=> AtEntry(f)
  <2>1. CASE ~ OnBlock(f)
    BY <1>5, <2>1 DEF HasEntry2, AtEntry
  <2>2. CASE OnBlock(f)
    <3>1. Block2(f) = BlockAt(f)
      BY DEF Block2, BlockAt
    <3>2. BlockAt(f) \in Seq(Entry)
      BY <1>4, <2>2, LenProperties, ElementOfSeq DEF OnBlock, BlockAt, DiskTypeOK, IsImage
    <3>3. Len(BlockAt(f)) \in Nat
      BY <3>2, LenProperties
    <3>4. QED
      BY <1>3, <1>5, <2>2, <3>1, <3>3 DEF HasEntry2, AtEntry
  <2>3. QED
    BY <2>1, <2>2
<1>7. x[1] = f.dir /\ x[2] = f.blk /\ x[3] = f.pos
  OBVIOUS
<1>8. EntryAt(x[1], <<x[2], x[3]>>) = Entry2(f)
  BY <1>7 DEF EntryAt, Entry2, Block2
<1>9. (NamesDir(x) <=> WalksInto(f)) /\ Named(x) = Entry2(f).ino
  BY <1>7, <1>8 DEF IsName, NamesDir, Named, WalksInto
<1>10. QED
  BY <1>1, <1>2, <1>5, <1>6, <1>9 DEF DirInodes, f

\* A step of directory_traversor passes one entry more, which it counts and may
\* walk into, or none.
Moved(U, S, E, S1, E1) ==
  \/ S1 = S /\ E1 = E /\ refs' = refs
  \/ \E x \in Over(U) \ S :
       /\ x[1] \in E /\ S1 = S \cup {x}
       /\ E1 = IF NamesDir(x) THEN E \cup {Named(x)} ELSE E
       /\ Named(x) \in Inode
       /\ refs' = [refs EXCEPT ![Named(x)] = Inc(refs[Named(x)])]

\* A step of directory_traversor is a step of the walk it is part of.
LEMMA OverStep ==
  ASSUME DiskTypeOK, WalkOK, NEW U, Whole(U), Forest(U), NEW R, NEW S, NEW E,
         Stack(stack2), WalkedOver(U, R, S, E, FramesOf(stack2)),
         \A x \in Over(U) \ S : NamesDir(x) => Named(x) \notin R, TrNext
  PROVE  \E S1, E1 : /\ Stack(stack2') /\ WalkedOver(U, R, S1, E1, FramesOf(stack2'))
                     /\ Moved(U, S, E, S1, E1)
<1>1. stack2 # <<>>
  BY DEF TrNext, TrCount, TrNextBlock, TrReturn
<1> DEFINE f == Top2
           F == FramesOf(stack2)
           x == <<f.dir, f.blk, f.pos>>
<1>2. /\ f \in F /\ f \in WFrame /\ f \in WalkFrame
      /\ IsDir(f.dir) /\ f.dir \in Inode
      /\ InBlocks2(f) <=> OnBlock(f)
      /\ HasEntry2(f) <=> AtEntry(f)
      /\ NamesDir(x) <=> WalksInto(f)
      /\ Named(x) = Entry2(f).ino
  BY <1>1, HereOK
<1>3. ASSUME NEW S1, NEW E1, Stack(stack2'), WalkedOver(U, R, S1, E1, FramesOf(stack2')),
             Moved(U, S, E, S1, E1)
      PROVE  \E S2, E2 : /\ Stack(stack2') /\ WalkedOver(U, R, S2, E2, FramesOf(stack2'))
                         /\ Moved(U, S, E, S2, E2)
  BY <1>3
<1>4. CASE TrCount
  <2> DEFINE n == Entry2(f).ino
             g == [f EXCEPT !.pos = @ + 1]
             next == Resume2(g)
             S1 == S \cup {x}
  <2>1. AtEntry(f) /\ refs' = [refs EXCEPT ![n] = Inc(refs[n])]
        /\ stack2' = IF WalksInto(f) THEN Append(next, Call2(n)) ELSE next
    BY <1>2, <1>4 DEF TrCount
  <2>2. x \in Over(U) \ S /\ x[1] = f.dir /\ f.dir \in E
    <3>1. x \in Over(U) /\ x \notin S
      BY <1>2, <2>1, OverHere
    <3>2. f.dir \in E
      BY <1>2 DEF WalkedOver
    <3>3. QED
      BY <3>1, <3>2
  <2>3. n \in Inode
    BY <1>2, <2>1, EntryOK
  <2>4. g \in WFrame /\ g.dir = f.dir
    BY <1>2 DEF WFrame
  <2>5. Stack(next) /\ FramesOf(next) = (F \ {f}) \cup {g}
    <3> HIDE DEF g
    <3>1. QED
      BY <1>1, <2>4, StackResume DEF Top2, Resume2
  <2>6. CASE ~ WalksInto(f)
    <3>1. WalkedOver(U, R, S1, E, (F \ {f}) \cup {g})
      BY <1>2, <2>1, <2>6, OverEntry
    <3>2. stack2' = next
      BY <2>1, <2>6
    <3>3. Moved(U, S, E, S1, E)
      <4> HIDE DEF f, x
      <4>1. QED
        BY <1>2, <2>1, <2>2, <2>3, <2>6 DEF Moved
    <3> HIDE DEF S1, g, next, F
    <3>4. QED
      BY <1>3, <2>5, <3>1, <3>2, <3>3
  <2>7. CASE WalksInto(f)
    <3> DEFINE c == Call2(n)
               E1 == E \cup {n}
    <3>1. n \in DirInodes /\ n \notin E /\ WalkedOver(U, R, S1, E1, (F \ {f}) \cup {g, c})
      <4> DEFINE m == Named(x)
      <4>1. NamesDir(x) /\ 1 \in {0, 1} /\ m = n /\ m \notin R
        BY <1>2, <2>2, <2>7
      <4>2. /\ m \in DirInodes /\ m \notin E
            /\ WalkedOver(U, R, S \cup {x}, E \cup {m},
                          (F \ {f}) \cup {g, [dir |-> m, blk |-> 1, pos |-> 1]})
        BY <1>2, <2>1, <4>1, OverInto
      <4> HIDE DEF m
      <4>3. QED
        BY <4>1, <4>2 DEF Call2
    <3>2. c \in WFrame /\ c.dir = n
      BY <2>3 DEF Call2, WFrame
    <3>3. \A h \in FramesOf(next) : h.dir # c.dir
      <4>1. \A h \in F : h.dir # n
        BY <3>1 DEF WalkedOver
      <4> HIDE DEF c, g, next, F
      <4>2. QED
        BY <1>2, <2>4, <2>5, <3>2, <4>1
    <3>4. Stack(Append(next, c)) /\ FramesOf(Append(next, c)) = FramesOf(next) \cup {c}
      <4> HIDE DEF c, next
      <4>1. QED
        BY <2>5, <3>2, <3>3, StackCall
    <3>5. FramesOf(Append(next, c)) = (F \ {f}) \cup {g, c}
      <4> HIDE DEF c, next, g, F
      <4>1. QED
        BY <2>5, <3>4
    <3>6. stack2' = Append(next, c)
      BY <2>1, <2>7
    <3>7. Moved(U, S, E, S1, E1)
      <4> HIDE DEF f, x
      <4>1. QED
        BY <1>2, <2>1, <2>2, <2>3, <2>7 DEF Moved
    <3> HIDE DEF S1, E1, g, next, F, c
    <3>8. QED
      BY <1>3, <3>1, <3>4, <3>5, <3>6, <3>7
  <2>8. QED
    BY <2>6, <2>7
<1>5. CASE TrNextBlock
  <2> DEFINE g == [Call2(f.dir) EXCEPT !.blk = f.blk + 1]
  <2>1. OnBlock(f) /\ ~AtEntry(f) /\ stack2' = Resume2(g) /\ refs' = refs
    BY <1>2, <1>5 DEF TrNextBlock
  <2>2. g = [dir |-> f.dir, blk |-> f.blk + 1, pos |-> 1]
    BY DEF Call2
  <2>3. g \in WFrame /\ g.dir = f.dir /\ f.pos >= 1
    BY <1>2, <2>2 DEF WFrame, WalkFrame, Frame2
  <2> HIDE DEF g
  <2>4. WalkedOver(U, R, S, E, (F \ {f}) \cup {g})
    BY <1>2, <2>1, <2>2, <2>3, OverTurn
  <2>5. Stack(stack2') /\ FramesOf(stack2') = (F \ {f}) \cup {g}
    BY <1>1, <2>1, <2>3, StackResume DEF Top2, Resume2
  <2>6. QED
    BY <1>3, <2>1, <2>4, <2>5 DEF Moved
<1>6. CASE TrReturn
  <2>1. stack2' = SubSeq(stack2, 1, Len(stack2) - 1) /\ refs' = refs /\ ~InBlocks2(f)
    BY <1>6 DEF TrReturn
  <2>2. f.blk > Len(inodes[f.dir].blks)
    <3>1. f.blk \in Nat \ {0}
      BY <1>2 DEF WFrame
    <3>2. QED
      BY <1>2, <2>1, <3>1, HasBlockOK DEF InBlocks2
  <2>3. WalkedOver(U, R, S, E, F \ {f})
    BY <1>2, <2>2, OverReturn
  <2>4. Stack(stack2') /\ FramesOf(stack2') = F \ {f}
    BY <1>1, <2>1, StackReturn DEF Top2
  <2>5. QED
    BY <1>3, <2>1, <2>3, <2>4 DEF Moved
<1>7. QED
  BY <1>4, <1>5, <1>6 DEF TrNext

\* Of the tree every entry is counted once.
LEMMA CountedStep ==
  ASSUME DiskTypeOK, WalkOK, TreeShape, NamesFit, CountOK, TrNext
  PROVE  CountOK'
<1>1. PICK S, E : Stack(stack2) /\ Walked(S, E, FramesOf(stack2)) /\ Counted(S)
  BY DEF CountOK
<1> DEFINE T == TreeDirs
           R == {ROOT_INODE_NUM}
<1>2. PICK S1, E1 : /\ Stack(stack2') /\ WalkedOver(T, R, S1, E1, FramesOf(stack2'))
                    /\ Moved(T, S, E, S1, E1)
  <2>1. Whole(T) /\ Forest(T) /\ WalkedOver(T, R, S, E, FramesOf(stack2))
    BY <1>1, TreeWhole, ShapeForest DEF Walked
  <2>2. \A x \in Over(T) \ S : NamesDir(x) => Named(x) \notin R
    BY ShapeForest, TreeOver
  <2> HIDE DEF T, R
  <2>3. QED
    BY <1>1, <2>1, <2>2, OverStep
<1>3. UNCHANGED <<inodes, data>>
  BY DEF TrNext, disk
<1>4. \A n \in Inode : refs'[n] = Cardinality(Naming(S1, n))
  <2>1. CASE S1 = S /\ refs' = refs
    BY <1>1, <2>1 DEF Counted
  <2>2. CASE ~(S1 = S /\ refs' = refs)
    <3>1. PICK x \in TreeEntries \ S :
                 /\ S1 = S \cup {x} /\ Named(x) \in Inode
                 /\ refs' = [refs EXCEPT ![Named(x)] = Inc(refs[Named(x)])]
      BY <1>2, <2>2, TreeOver DEF Moved
    <3>2. S \subseteq TreeEntries
      BY <1>1, TreeOver DEF Walked, WalkedOver
    <3>3. SUFFICES ASSUME NEW n \in Inode PROVE refs'[n] = Cardinality(Naming(S1, n))
      OBVIOUS
    <3>4. /\ Cardinality(Naming(S, n)) \in Nat
          /\ Cardinality(Naming(S1, n)) =
               Cardinality(Naming(S, n)) + (IF Named(x) = n THEN 1 ELSE 0)
          /\ Cardinality(Naming(S1, n)) <= NumRefs(n)
      BY <3>1, <3>2, NamingMore
    <3>5. refs[n] = Cardinality(Naming(S, n)) /\ NumRefs(n) <= CharMax /\ NumRefs(n) \in Nat
      BY <1>1, NumRefsNat DEF Counted, NamesFit
    <3>6. refs'[n] = IF n = Named(x) THEN Inc(refs[n]) ELSE refs[n]
      BY <3>1 DEF WalkOK
    <3>7. CASE n = Named(x)
      <4>1. refs[n] # CharMax
        BY <3>4, <3>5, <3>7, CharAssumption
      <4>2. QED
        BY <3>4, <3>5, <3>6, <3>7, <4>1 DEF Inc
    <3>8. CASE n # Named(x)
      BY <3>4, <3>5, <3>6, <3>8
    <3>9. QED
      BY <3>7, <3>8
  <2>3. QED
    BY <2>1, <2>2
<1>5. Walked(S1, E1, FramesOf(stack2))'
  <2>1. Walked(S1, E1, FramesOf(stack2'))
    BY <1>2 DEF Walked
  <2>2. QED
    BY <1>3, <2>1, WalkedSame
<1>6. Counted(S1)'
  BY <1>3, <1>4, NamingSame DEF Counted
<1>7. QED
  BY <1>2, <1>5, <1>6 DEF CountOK

=============================================================================
