------------------------------ MODULE DirList ------------------------------
(***************************************************************************)
(* What the repair does to directories, with no byte in sight.  A          *)
(* directory is a list of names per block, of which "." and ".." head the  *)
(* first.  Pass 1 may make these two name what they should, pass 2 adds    *)
(* the names of lost objects to lost+found, one for each object, and makes *)
(* the ".." of each name lost+found.  Nothing is ever taken away.          *)
(***************************************************************************)
EXTENDS Integers, Sequences

CONSTANTS
  Self,    \* the inode number of lost+found
  Parent,  \* that of the directory it is in
  Lost,    \* those of the objects without a name
  LostDir  \* those of them that are directories

VARIABLES
  list,    \* the entries of each block of each directory
  wanted   \* the objects that have still to be given a name

listvars == <<list, wanted>>

DIR_TYPE == 2
REG_TYPE == 1

\* The characters of name are the decimal digits of n.
IsDecimal(name, n) ==
  LET value[i \in 0 .. Len(name)] ==
        IF i = 0 THEN 0 ELSE 10 * value[i - 1] + (name[i] - 48)
  IN  /\ \A i \in DOMAIN name : name[i] \in 48 .. 57
      /\ name # <<>> /\ name[1] # 48
      /\ value[Len(name)] = n

ListInit == wanted \subseteq Lost

Name(d, p, n) == list' = [list EXCEPT ![d][1][p].ino = n]

Correct ==
  /\ wanted = Lost
  /\ UNCHANGED wanted
  /\ Name(Self, 1, Self) \/ Name(Self, 2, Parent)

\* Object n gets a name at the end of a block of lost+found, or none if there
\* is no room.
Attach(n) ==
  /\ n \in wanted
  /\ wanted' = wanted \ {n}
  /\ \/ \E k \in DOMAIN list[Self] :
          LET after == list'[Self][k]
              new == after[Len(after)]
          IN  /\ after # <<>>
              /\ new.ino = n /\ IsDecimal(new.name, n)
              /\ new.typ = IF n \in LostDir THEN DIR_TYPE ELSE REG_TYPE
              /\ list' = [list EXCEPT ![Self][k] = Append(@, new)]
     \/ UNCHANGED list

SetParent(n) ==
  /\ n \notin wanted
  /\ UNCHANGED wanted
  /\ Name(n, 2, Self)

ListNext ==
  \/ Correct
  \/ \E n \in Lost : Attach(n)
  \/ \E n \in LostDir : SetParent(n)

ListSpec == ListInit /\ [][ListNext]_listvars

=============================================================================
