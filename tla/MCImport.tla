------------------------------ MODULE MCImport ------------------------------
(***************************************************************************)
(* Import by two processes, p with --replace and --verify, q without: two  *)
(* files of one name; a file under one name and a small tree that uses it; *)
(* a tree on a volume where other things have its names.                   *)
(***************************************************************************)
EXTENDS Import

MCPartial == "p" :> <<".p-1", ".p-2", ".p-3">> @@ "q" :> <<".q-1", ".q-2", ".q-3", ".q-4">>

Entry(op, path, len, of) == [op |-> op, path |-> path, len |-> len, of |-> of]
ToImport(p, q) == "p" :> p @@ "q" :> q
File(path, len) == Entry("file", path, len, <<>>)

Holding(kind, data) == [kind |-> kind, data |-> data, touched |-> FALSE]
Volume(dir, node) == [gen |-> 1, dir |-> dir, node |-> node]
Bare == Volume([p \in {} |-> 0], [o \in {} |-> 0])
WithFile == Volume(<<"f">> :> 1, 1 :> Holding("file", <<Theirs>>))
WithDir == Volume(<<"f">> :> 1 @@ <<"d">> :> 2,
                  1 :> Holding("dir", <<>>) @@ 2 :> Holding("file", <<Theirs>>))

Start(v, p, q, n) == [vol |-> v, jobs |-> ToImport(p, q), bound |-> n]
MCStarts ==
  {Start(Bare, <<File(<<"f">>, 3)>>, <<File(<<"f">>, 1)>>, 2),
   Start(WithFile, <<File(<<"f">>, 2)>>, <<File(<<"f">>, 1), File(<<"g">>, 1)>>, 1),
   Start(Bare, <<File(<<"f">>, 1)>>,
         <<Entry("dir", <<"d">>, 0, <<>>), File(<<"d", "f">>, 1),
           Entry("link", <<"f">>, 0, <<"d", "f">>)>>, 1),
   Start(WithFile, <<File(<<"f">>, 1)>>,
         <<Entry("link", <<"g">>, 0, <<"f">>), Entry("attributes", <<"f">>, 0, <<>>),
           Entry("symlink", <<"f">>, 0, <<>>)>>, 1),
   Start(WithDir, <<File(<<"f">>, 1)>>,
         <<Entry("dir", <<"f">>, 0, <<>>), File(<<"f", "f">>, 1),
           Entry("dir", <<"d">>, 0, <<>>), File(<<"d", "x">>, 1)>>, 1)}

=============================================================================
