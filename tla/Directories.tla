----------------------------- MODULE Directories -----------------------------
(***************************************************************************)
(* What the names of a volume promise: every tree is a hierarchy of        *)
(* directories, a name of a directory is a file, a directory or a          *)
(* subvolume, and one call changes the names it was asked to change and    *)
(* nothing else, all at once.  A file is there as long as it has a name.   *)
(* How names are filed, hashed, numbered and counted is Namespace's.       *)
(***************************************************************************)
EXTENDS Naturals, FiniteSets, Functions

CONSTANTS
  Tree,     \* subvolumes
  Ino,      \* inode numbers, Top among them
  Name,     \* what an entry may be called
  Mode,     \* permission bits
  Top       \* the top directory of every tree

VARIABLES
  entry,    \* per tree: <<directory, name>> to what it names
  kind,     \* per tree: the inodes there are, and what each is
  attr      \* per tree: each inode's attributes, its mode among them

vars == <<entry, kind, attr>>

\* What an entry names: an inode of its tree, or another tree.
Inode(i) == [root |-> FALSE, id |-> i]
Subvolume(t) == [root |-> TRUE, id |-> t]

Added(f, k, v) == [x \in DOMAIN f \cup {k} |-> IF x = k THEN v ELSE f[x]]
Without(f, keys) == Restrict(f, DOMAIN f \ keys)
NamesOf(e, i) == {k \in DOMAIN e : e[k] = Inode(i)}
IsEmpty(e, d) == \A k \in DOMAIN e : k[1] # d
IsDir(t, i) == i \in DOMAIN kind[t] /\ kind[t][i] = "dir"

\* The directories on the way up from d to the top: what any set with d in it
\* has that has with each inode the directories it is named in.
Above(e, d) ==
  {i \in Ino : \A S \in SUBSET Ino :
     d \in S /\ (\A k \in DOMAIN e : ~e[k].root /\ e[k].id \in S => k[1] \in S) => i \in S}

-----------------------------------------------------------------------------
\* Tree t comes to have the entries e, and of its inodes those that still
\* have a name, with what is new among them.
Becomes(t, e, kinds, attrs) ==
  LET there == {i \in DOMAIN kinds : i = Top \/ NamesOf(e, i) # {}}
  IN  /\ entry' = [entry EXCEPT ![t] = e]
      /\ kind' = [kind EXCEPT ![t] = Restrict(kinds, there)]
      /\ attr' = [attr EXCEPT ![t] = Restrict(attrs, there)]

Create(t, d, n, i, k) ==
  /\ IsDir(t, d) /\ <<d, n>> \notin DOMAIN entry[t] /\ i \notin DOMAIN kind[t]
  /\ \E m \in Mode :
       Becomes(t, Added(entry[t], <<d, n>>, Inode(i)), Added(kind[t], i, k),
               Added(attr[t], i, {<<"mode", m>>}))

Link(t, i, d, n) ==
  /\ IsDir(t, d) /\ <<d, n>> \notin DOMAIN entry[t]
  /\ i \in DOMAIN kind[t] /\ ~IsDir(t, i)
  /\ Becomes(t, Added(entry[t], <<d, n>>, Inode(i)), kind[t], attr[t])

Remove(t, d, n) ==
  /\ <<d, n>> \in DOMAIN entry[t] /\ ~entry[t][<<d, n>>].root
  /\ IsEmpty(entry[t], entry[t][<<d, n>>].id)
  /\ Becomes(t, Without(entry[t], {<<d, n>>}), kind[t], attr[t])

\* What is renamed takes the place of an empty directory when it is one, and
\* of a file when it is not; a directory never goes below itself.
Rename(t, d, n, d2, n2) ==
  LET e == entry[t]
      what == e[<<d, n>>]
  IN  /\ <<d, n>> \in DOMAIN e /\ ~what.root /\ IsDir(t, d2)
      /\ what.id \notin Above(e, d2) \/ ~IsDir(t, what.id)
      /\ <<d2, n2>> \in DOMAIN e =>
           LET over == e[<<d2, n2>>]
           IN  /\ ~over.root /\ over # what
               /\ IsDir(t, over.id) = IsDir(t, what.id)
               /\ IsEmpty(e, over.id)
      /\ Becomes(t, Added(Without(e, {<<d, n>>}), <<d2, n2>>, what), kind[t], attr[t])

Change(t, i, a) ==
  /\ i \in DOMAIN kind[t]
  /\ attr' = [attr EXCEPT ![t][i] = a]
  /\ UNCHANGED <<entry, kind>>

\* A tree is made under a name of tree p: empty, or as another one was.
NewTree(p, d, n, t, like) ==
  /\ IsDir(p, d) /\ <<d, n>> \notin DOMAIN entry[p]
  /\ entry' = [entry EXCEPT ![p] = Added(@, <<d, n>>, Subvolume(t)),
                            ![t] = IF like = 0 THEN [k \in {} |-> 0] ELSE entry[like]]
  /\ kind' = [kind EXCEPT ![t] = IF like = 0 THEN [i \in {Top} |-> "dir"] ELSE kind[like]]
  /\ \E m \in Mode :
       attr' = [attr EXCEPT ![t] = IF like = 0 THEN [i \in {Top} |-> {<<"mode", m>>}]
                                         ELSE attr[like]]

\* A tree loses its name; what it holds is no concern of anyone's then.
DropTree(p, d, n) ==
  /\ <<d, n>> \in DOMAIN entry[p] /\ entry[p][<<d, n>>].root
  /\ LET t == entry[p][<<d, n>>].id
     IN  /\ entry' = [entry EXCEPT ![p] = Without(@, {<<d, n>>}), ![t] = [k \in {} |-> 0]]
         /\ kind' = [kind EXCEPT ![t] = [k \in {} |-> ""]]
         /\ attr' = [attr EXCEPT ![t] = [k \in {} |-> {}]]

OnTree(t) ==
  \/ \E d \in DOMAIN kind[t], n \in Name :
       \/ \E i \in Ino, k \in {"file", "dir", "symlink"} : Create(t, d, n, i, k)
       \/ \E i \in DOMAIN kind[t] : Link(t, i, d, n)
       \/ Remove(t, d, n)
       \/ \E d2 \in DOMAIN kind[t], n2 \in Name : Rename(t, d, n, d2, n2)
  \/ \E i \in DOMAIN kind[t] : \E a \in {attr'[t][i]} : Change(t, i, a)

Next ==
  \E t \in Tree :
    \/ OnTree(t)
    \/ \E d \in DOMAIN kind[t], n \in Name :
         \/ \E u \in Tree, like \in Tree \cup {0} : NewTree(t, d, n, u, like)
         \/ DropTree(t, d, n)

Spec == [][Next]_vars

=============================================================================
