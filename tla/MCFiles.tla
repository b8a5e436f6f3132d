------------------------------- MODULE MCFiles -------------------------------
(***************************************************************************)
(* Two small files on eight sectors of data, in volumes that between them  *)
(* have a partial last sector with preallocated space past it, a shared    *)
(* preallocated extent, a clone at a lower offset than its extent's, no    *)
(* NO_HOLES feature, inline data, nodatacow files and a compressed extent. *)
(***************************************************************************)
EXTENDS Files

InosDef == {1, 2}
SpaceDef == 1 .. 9

File(size, items) == [size |-> size, nbytes |-> CountedBytes(items), nocow |-> FALSE,
                      compress |-> FALSE, items |-> items]
NoCow(f) == [f EXCEPT !.nocow = TRUE]
Packing(f) == [f EXCEPT !.compress = TRUE]

\* A volume of two files; `data` says what the sectors written hold.
Volume(holes, a, b, lens, data) ==
  LET pair == <<a, b>>
      names(e) == {x \in {1, 2} \X (0 .. 5) : x[2] \in DOMAIN pair[x[1]].items
                                          /\ pair[x[1]].items[x[2]].at = e}
      ref(x) == <<x[1], RefOf(pair[x[1]].items, x[2])>> IN
  [noHoles |-> holes, files |-> pair,
   extents |-> [e \in DOMAIN lens |-> [len |-> lens[e],
     refs |-> [r \in {ref(x) : x \in names(e)} |-> Cardinality({x \in names(e) : ref(x) = r})]]],
   csums |-> IF a.nocow THEN <<>> ELSE data,
   disk |-> data @@ [s \in SpaceDef |-> <<99, 99>>]]

Plain(n) == [s \in 1 .. n |-> <<10 * s, 10 * s + 1>>]

LayoutsDef == {
  \* a partial last sector, space kept past the end, and a clone of the start
  Volume(TRUE, File(3, (0 :> Reg(1, 0, 1, FALSE)) @@ (1 :> Reg(2, 0, 1, FALSE)) @@ (2 :> Pre(3, 0, 2))),
         File(2, 0 :> Reg(1, 0, 1, FALSE)), (1 :> 1) @@ (2 :> 1) @@ (3 :> 2),
         (1 :> <<10, 11>>) @@ (2 :> <<20, 0>>)),
  \* preallocated space, and some of it shared
  Volume(TRUE, File(6, 0 :> Pre(1, 0, 3)), File(6, (0 :> Pre(4, 0, 2)) @@ (2 :> Pre(4, 0, 1))),
         (1 :> 3) @@ (4 :> 2), <<>>),
  \* a clone whose extent begins before the file does
  Volume(TRUE, File(6, 0 :> Reg(1, 0, 3, FALSE)), File(4, 0 :> Reg(1, 1, 2, FALSE)), 1 :> 3, Plain(3)),
  \* holes have items
  Volume(FALSE, File(6, (0 :> Reg(1, 0, 1, FALSE)) @@ (1 :> HoleItem(1)) @@ (2 :> Reg(2, 0, 1, FALSE))),
         File(0, <<>>), (1 :> 1) @@ (2 :> 1), Plain(2)),
  \* inline data, and an empty file that compresses
  Volume(TRUE, File(1, 0 :> InlineItem(<<7>>)), Packing(File(0, <<>>)), <<>>, <<>>),
  \* nodatacow
  Volume(TRUE, NoCow(File(6, (0 :> Reg(1, 0, 2, FALSE)) @@ (2 :> Pre(3, 0, 1)))),
         NoCow(File(2, 0 :> Reg(4, 0, 1, FALSE))), (1 :> 2) @@ (3 :> 1) @@ (4 :> 1),
         Plain(2) @@ (4 :> <<40, 41>>)),
  \* a compressed extent and a clone of its second half
  Volume(TRUE, Packing(File(6, (0 :> Reg(1, 0, 2, TRUE)) @@ (2 :> Reg(2, 0, 1, FALSE)))),
         File(2, 0 :> Reg(1, 1, 1, TRUE)), (1 :> 1) @@ (2 :> 1),
         (1 :> <<5, 5, 5, 5>>) @@ (2 :> <<20, 21>>))}

Bytes(n) == [i \in 1 .. n |-> 0]
Truncated(i, n) == [op |-> "truncate", ino |-> i, size |-> n]
Reserved(i, off, len, keep) == [op |-> "fallocate", ino |-> i, off |-> off, len |-> len, keep |-> keep]
Punched(i, off, len) == [op |-> "punch", ino |-> i, off |-> off, len |-> len]
Joined(op, src, from, dst, off, len) ==
  [op |-> op, src |-> src, from |-> from, ino |-> dst, off |-> off, len |-> len]

RequestsDef ==
  {Write(1, x[1], Bytes(x[2])) : x \in {<<0, 1>>, <<0, 2>>, <<1, 2>>, <<2, 4>>, <<5, 3>>, <<7, 1>>}}
  \cup {Write(2, x[1], Bytes(x[2])) : x \in {<<1, 1>>, <<3, 4>>, <<0, 8>>}}
  \cup {Truncated(1, 1), Truncated(1, 8), Truncated(2, 0), Truncated(2, 5)}
  \cup {Reserved(1, 1, 7, FALSE), Reserved(1, 6, 4, TRUE)}
  \cup {Punched(1, 2, 2), Punched(1, 1, 4)}
  \cup {Joined("clone", 1, 0, 2, 2, 4), Joined("clone", 2, 0, 1, 2, 0),
         Joined("dedupe", 1, 0, 2, 0, 2), [op |-> "defrag", ino |-> 1, target |-> 4]}

=============================================================================
