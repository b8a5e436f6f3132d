------------------------------- MODULE MCSend -------------------------------
(***************************************************************************)
(* Send on every pair of small trees: of two directories and a file in any *)
(* of their places; of a directory, a file with up to two names and a file *)
(* that has taken its number; of files in every shape of a few extents.    *)
(* One name is spelled as an orphan's is.                                  *)
(***************************************************************************)
EXTENDS Send

ZeroByte == <<0, 0>>
D1 == <<2, 1>>
D2 == <<3, 1>>
F == <<4, 1>>
G == <<4, 2>>
Slots(dirs) == ({TopId} \cup dirs) \X {"a", "b"}

Attributed(kind, items, size) ==
  [kind |-> kind, items |-> items, size |-> size, xattr |-> [x \in {} |-> 0], owner |-> 0,
   mode |-> 1, mtime |-> 1]
Dir == Attributed("dir", <<>>, 0)

\* Where a name comes in a directory's index.
Place == [n \in {"a", "b", "o2-1-0", "o2-1-1"} |->
            CASE n = "o2-1-1" -> 0 [] n = "o2-1-0" -> 1 [] n = "a" -> 2 [] n = "b" -> 3]

\* A snapshot from its names, <<directory, name, inode>>, and its files.
Snapshot(names, files) ==
  LET ids == {e[3] : e \in names}
  IN  [inode |-> [id \in ids \cup {TopId} |-> IF id \in DOMAIN files THEN files[id] ELSE Dir],
       list |-> [d \in (ids \ DOMAIN files) \cup {TopId} |->
                  LET here == {<<e[2], e[3]>> : e \in {x \in names : x[1] = d}}
                  IN  SetToSortSeq(here, LAMBDA x, y : Place[x[1]] < Place[y[1]])]]

\* The sets of names that make a tree: one inode to a name, one name to a
\* directory, and every directory below the top.
Tree(names, dirs) ==
  /\ \A e, f \in names : (e[1] = f[1] /\ e[2] = f[2]) \/ (e[3] = f[3] /\ e[3] \in dirs) => e = f
  /\ \A e \in names : e[1] = TopId \/
       \E f \in names : f[3] = e[1] /\ (f[1] = TopId \/ \E g \in names : g[3] = f[1] /\ g[1] = TopId)
Placed(dirs, one, two) ==
  LET upTo(k, n) == {{<<s[1], s[2], k>> : s \in ss} :
                       ss \in UNION {kSubset(m, Slots(dirs)) : m \in 0 .. n}}
  IN  FoldSet(LAMBDA k, sets :
                UNION {{a \cup b : b \in upTo(k, IF k \in two THEN 2 ELSE 1)} : a \in sets},
              {{}}, dirs \cup one \cup two)
Trees(dirs, one, two) == {t \in Placed(dirs, one, two) : Tree(t, dirs)}

Plain(id) == (F :> Attributed("file", <<>>, 0)) @@ (G :> Attributed("symlink", <<>>, 0))
Sending(parent, child, version, encoded) ==
  [parent |-> parent, child |-> child, full |-> parent = <<>>, version |-> version,
   encoded |-> encoded]
Moves(trees) ==
  {Sending(Snapshot(p, Plain(F)), Snapshot(c, Plain(F)), 1, FALSE) : p \in trees, c \in trees}

\* Extent items: of extents 1 and 2, the second compressed.
Item(kind, addr, start, len, off) ==
  [kind |-> kind, addr |-> addr, start |-> start, len |-> len, off |-> off, packed |-> addr = 2]
Disk(addr, start, len, off) == Item("disk", addr, start, len, off)
File(items, size) == Attributed("file", items, size)
Files ==
  {File(<<>>, 0), File(<<>>, 3), File(<<Item("inline", 9, 0, 1, 0)>>, 1),
   File(<<Item("inline", 9, 0, 1, 0)>>, 2),
   File(<<Disk(1, 0, 4, 0)>>, 4), File(<<Disk(1, 0, 4, 0)>>, 3), File(<<Disk(2, 0, 4, 0)>>, 3),
   File(<<Disk(1, 0, 2, 0), Item("hole", 0, 2, 2, 0), Disk(1, 4, 2, 2)>>, 6),
   File(<<Disk(1, 0, 2, 2), Disk(2, 2, 2, 0)>>, 4),
   File(<<Disk(1, 0, 2, 0), Disk(1, 2, 2, 0)>>, 3),
   File(<<Item("prealloc", 1, 0, 4, 0)>>, 2), File(<<Disk(2, 2, 2, 2)>>, 3)}
Attributes ==
  {[File(<<>>, 1) EXCEPT !.xattr = x, !.owner = o, !.mode = m, !.mtime = t] :
     x \in {<<>>, "x" :> 1, "x" :> 2, "y" :> 1} , o \in {0, 1}, m \in {1, 2}, t \in {1, 2}}
Capable ==
  {File(<<>>, 1), File(<<Disk(1, 0, 4, 0)>>, 3), [File(<<>>, 1) EXCEPT !.xattr = Capability :> 1],
   [File(<<>>, 2) EXCEPT !.xattr = Capability :> 1, !.owner = 1]}
Holding(fs) == Snapshot({<<TopId, <<"a", "b">>[k], <<F, G>>[k]>> : k \in DOMAIN fs},
                        [id \in {<<F, G>>[k] : k \in DOMAIN fs} |-> fs[IF id = F THEN 1 ELSE 2]])
Options == {<<1, FALSE>>, <<2, FALSE>>, <<2, TRUE>>}

Spelled(n) == {<<TopId, "o2-1-0", n>>, <<TopId, "a", D1>>, <<D1, "b", F>>}
Respelled == {<<TopId, "b", D1>>, <<D1, "a", F>>, <<TopId, "o2-1-0", D2>>, <<TopId, "o2-1-1", G>>}

MCStarts ==
  Moves({t \in Trees({D1, D2}, {F}, {}) : Cardinality(t) = 3}) \cup Moves(Trees({D1}, {}, {F})) \cup Moves(Trees({D1}, {F, G}, {}))
    \cup {Sending(Snapshot(p, Plain(F)), Snapshot(c, Plain(F)), 1, FALSE) :
            p, c \in {Spelled(D2), Respelled}}
    \cup {Sending(<<>>, Snapshot(c, Plain(F)), 1, FALSE) : c \in Trees({D1, D2}, {}, {F})}
    \cup {Sending(Holding(<<f>>), Holding(<<g>>), 1, FALSE) : f, g \in Files}
    \cup {Sending(Holding(<<f>>), Holding(<<g>>), 1, FALSE) : f, g \in Attributes}
    \cup {Sending(Holding(<<f>>), Holding(<<f, g>>), o[1], o[2]) : f, g \in Files, o \in Options}
    \cup {Sending(<<>>, Holding(<<f, g>>), o[1], o[2]) : f, g \in Files, o \in Options}

\* Files with a capability, sent in full and against a parent.
CapableStarts ==
  {Sending(<<>>, Holding(<<f>>), 1, FALSE) : f \in Capable}
    \cup {Sending(Holding(<<f>>), Holding(<<g>>), 1, FALSE) : f, g \in Capable}

=============================================================================
