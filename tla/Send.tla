-------------------------------- MODULE Send --------------------------------
(***************************************************************************)
(* A send stream: the commands that turn what a receiver holds into a      *)
(* snapshot, full or against a parent snapshot it has.  The sender walks   *)
(* two trees and writes; the receiver applies each command as it comes.    *)
(* A step of the sender is one turn of one of its loops, which puts a few  *)
(* commands in `out`; a step of the receiver applies the first of them.    *)
(*                                                                         *)
(* A file is bytes.  What an extent holds, and how the stream is framed    *)
(* and cut into chunks, is left out; a nested subvolume is in no stream.   *)
(***************************************************************************)
EXTENDS Integers, Sequences, FiniteSets, SequencesExt

CONSTANTS
  Sector,       \* the sector size
  Capability,   \* the attribute a change of owner or data takes away
  Zero, Now,    \* a byte of a hole; the receiver's own time
  LinkMode,     \* the mode of every symbolic link
  Starts        \* what is sent: a child, its parent or none, and the options

ASSUME SectorIsPositive == Sector \in Nat \ {0}

VARIABLES
  sent,         \* what is sent: parent, child, full, version, encoded
  phase,        \* which of its passes the sender is in
  todo,         \* what is left of that pass
  ns,           \* the receiver's names as the stream so far leaves them
  orphans,      \* inodes between their old name and their new one
  touched, created, \* inodes a change named; inodes made new
  clones,       \* runs of extents a file the receiver has holds
  out,          \* commands written and not applied yet
  recv,         \* the subvolume the receiver builds
  refused       \* the commands it could not apply

sender == <<phase, todo, ns, orphans, touched, created, clones>>
vars == <<sent, sender, out, recv, refused>>

\* An inode as both snapshots name it: its number and its generation.
TopId == <<0, 0>>

-----------------------------------------------------------------------------
(* Snapshots: `list` is each directory's entries in the order of its index.  *)

IsDir(s, id) == s.inode[id].kind = "dir"
IsFile(s, id) == s.inode[id].kind = "file"
Ids(s) == IF s = <<>> THEN {} ELSE DOMAIN s.inode

Listed(s, d) == [k \in DOMAIN s.list[d] |-> <<d, s.list[d][k][1], s.list[d][k][2]>>]

\* The names so far below the top, <<directory, name, inode>>; every name,
\* breadth-first; and how far below the top an inode is first met.
Level(s, n) ==
  LET level[k \in 1 .. n] ==
        IF k = 1 THEN Listed(s, TopId)
        ELSE FoldLeft(LAMBDA es, e : es \o IF IsDir(s, e[3]) THEN Listed(s, e[3]) ELSE <<>>,
                      <<>>, level[k - 1])
  IN  level[n]
Entries(s) == FlattenSeq([n \in 1 .. Cardinality(Ids(s)) |-> Level(s, n)])
Depth(s, id) ==
  IF id = TopId THEN 0
  ELSE CHOOSE n \in 1 .. Cardinality(Ids(s)) :
         /\ \E e \in ToSet(Level(s, n)) : e[3] = id
         /\ \A m \in 1 .. n - 1 : \A e \in ToSet(Level(s, m)) : e[3] # id

\* What byte `at` of a file reads, from its extent items.
Backing(items, size, at) ==
  LET there == {x \in ToSet(items) : x.start <= at /\ at < x.start + x.len}
      x == CHOOSE x \in there : TRUE
  IN  IF at >= size \/ there = {} \/ x.kind \in {"hole", "prealloc"} THEN Zero
      ELSE IF x.kind = "inline" THEN <<x.addr, at>> ELSE <<x.addr, x.off - x.start + at>>
Bytes(f, at) == [k \in at |-> Backing(f.items, f.size, k)]

-----------------------------------------------------------------------------
(* Names: a set of <<directory, name, inode>>.                               *)

RefsOf(names, id) == {e \in names : e[3] = id}

\* Where an inode is now; any of a file's names will do.
PathOf(names, id) ==
  LET path[i \in {TopId} \cup {e[3] : e \in names}] ==
        IF i = TopId THEN <<>>
        ELSE LET e == CHOOSE e \in RefsOf(names, i) : TRUE IN Append(path[e[1]], e[2])
  IN  path[id]
EntryPath(names, d, n) == Append(PathOf(names, d), n)

Spelling(id, n) == "o" \o ToString(id[1]) \o "-" \o ToString(id[2]) \o "-" \o ToString(n)

\* Mutant: a name the child is about to make in the top directory will do.
OrphanUnchecked(id) ==
  Spelling(id, CHOOSE n \in 0 .. 9 :
    /\ \A e \in ns : ~(e[1] = TopId /\ e[2] = Spelling(id, n))
    /\ \A m \in 0 .. n - 1 : \E e \in ns : e[1] = TopId /\ e[2] = Spelling(id, m))

\* The first orphan name that is free in the top directory and that the child
\* does not use there.
OrphanName(id) ==
  LET used == {e[2] : e \in {x \in ns \cup ToSet(Entries(sent.child)) : x[1] = TopId}}
  IN  Spelling(id, CHOOSE n \in 0 .. 9 : /\ Spelling(id, n) \notin used
                                         /\ \A m \in 0 .. n - 1 : Spelling(id, m) \in used)

-----------------------------------------------------------------------------
(* A file's data.                                                            *)

\* A run of a file's extent: what a clone may be taken from.
Run(x, fromParent, path, size) ==
  [addr |-> x.addr, off |-> x.off, start |-> x.start, len |-> x.len,
   old |-> fromParent, path |-> path, size |-> size]
RunsOf(f, fromParent, path) ==
  LET disk == SelectSeq(f.items, LAMBDA x : x.kind = "disk")
  IN  [k \in DOMAIN disk |-> Run(disk[k], fromParent, path, f.size)]

At(s, x) == s.start + x.off - s.off

\* Mutant: an end that is no sector's end may be anywhere in the source.
CanCloneUnaligned(s, x, len) ==
  /\ s.addr = x.addr /\ s.off <= x.off /\ x.off + len <= s.off + s.len
  /\ At(s, x) % Sector = 0
  /\ At(s, x) + len <= s.size

\* Whether len bytes of extent item x can be cloned from run s.
CanClone(s, x, len) ==
  /\ s.addr = x.addr /\ s.off <= x.off /\ x.off + len <= s.off + s.len
  /\ At(s, x) % Sector = 0
  /\ len % Sector = 0 \/ At(s, x) + len = s.size
  /\ At(s, x) + len <= s.size

\* The WRITEs of some of a file's bytes, taken for one.
Write(path, f, at) ==
  IF at = {} THEN <<>> ELSE <<[cmd |-> "WRITE", path |-> path, data |-> Bytes(f, at)]>>
Within(f, x) == x.start .. Min({x.start + x.len, f.size}) - 1

\* A compressed extent's bytes as they are on disk.
SendEncoded(path, x, len) ==
  <<[cmd |-> "ENCODED_WRITE", path |-> path, at |-> x.start, len |-> len,
     addr |-> x.addr, off |-> x.off]>>

SendsFallocate == sent.version = 2

\* One extent item of a new file, with what can be cloned by then.
SendExtent(path, f, sources, x) ==
  LET len == Cardinality(Within(f, x))
      from == SelectSeq(sources, LAMBDA s : CanClone(s, x, len))
  IN  IF x.kind = "inline" THEN Write(path, f, Within(f, x))
      ELSE IF x.kind = "prealloc"
      THEN IF SendsFallocate
           THEN <<[cmd |-> "FALLOCATE", path |-> path, at |-> x.start, len |-> x.len]>>
           ELSE <<>>
      ELSE IF x.kind = "hole" THEN <<>>
      ELSE IF len > 0 /\ x.start % Sector = 0 /\ from # <<>>
      THEN <<[cmd |-> "CLONE", path |-> path, at |-> x.start, len |-> len,
              old |-> from[1].old, source |-> from[1].path, from |-> At(from[1], x)]>>
      ELSE IF sent.encoded /\ x.packed /\ len > 0 THEN SendEncoded(path, x, len)
      ELSE Write(path, f, Within(f, x))

SendData(path, f) ==
  FoldLeft(LAMBDA done, x :
             [cmds |-> done.cmds \o SendExtent(path, f, done.clones, x),
              clones |-> done.clones \o RunsOf([f EXCEPT !.items = <<x>>], FALSE, path)],
           [cmds |-> <<>>, clones |-> clones], f.items)

SetXattrs(path, f, names) ==
  LET order == SetToSeq(names)
  IN  [k \in DOMAIN order |-> [cmd |-> "SET_XATTR", path |-> path, name |-> order[k],
                               value |-> f.xattr[order[k]]]]

\* The commands that make one inode at a path: the create, its data, its
\* attributes, its size.
SendCreate(path, f) ==
  LET data == IF f.kind = "file" THEN SendData(path, f).cmds ELSE <<>>
  IN  <<[cmd |-> "MAKE", kind |-> f.kind, path |-> path]>> \o data
        \o SetXattrs(path, f, DOMAIN f.xattr)
        \o IF f.kind = "file"
           THEN <<[cmd |-> "TRUNCATE", path |-> path, size |-> f.size]>> ELSE <<>>

\* Mutant: the parent's extents read as data past its end.
ChangedPastEnd(old, new) ==
  {at \in 0 .. new.size - 1 :
     Backing(old.items, new.size, at) # Backing(new.items, new.size, at)}

\* The bytes of the child's file that do not read the same from the parent's.
Changed(old, new) ==
  {at \in 0 .. new.size - 1 :
     Backing(old.items, old.size, at) # Backing(new.items, new.size, at)}

SendChangedData(path, old, new) ==
  IF Changed(old, new) = {} /\ old.size = new.size THEN <<>>
  ELSE Append(Write(path, new, Changed(old, new)),
              [cmd |-> "TRUNCATE", path |-> path, size |-> new.size])

-----------------------------------------------------------------------------
(* The sender.                                                               *)

Chown(path, f) == [cmd |-> "CHOWN", path |-> path, owner |-> f.owner]
Chmod(path, f) ==
  IF f.kind = "symlink" THEN <<>> ELSE <<[cmd |-> "CHMOD", path |-> path, mode |-> f.mode]>>

Kept(id) == id \in Ids(sent.child)

\* Whether an inode's names lead up to the top, and not to an inode without a
\* name or back to one passed.
HasPath(names, id) ==
  LET up[n \in 0 .. Cardinality(names)] ==
        IF n = 0 THEN id
        ELSE LET refs == RefsOf(names, up[n - 1])
             IN  IF up[n - 1] = TopId \/ refs = {} THEN up[n - 1]
                 ELSE (CHOOSE e \in refs : TRUE)[1]
  IN  up[Cardinality(names)] = TopId

\* The call ends with an error where a path it needs is not to be had, and where
\* an inode the child has is still an orphan after the child's last name.
GivesUp ==
  /\ todo # <<>> /\ out = <<>>
  /\ LET w == Head(todo)
     IN  CASE phase = "take" -> w \notin ToSet(Entries(sent.child)) /\ ~HasPath(ns, w[1])
           [] phase = "make" -> /\ w \notin ns
                                /\ \/ ~HasPath(ns, w[1])
                                   \/ RefsOf(ns, w[3]) # {} /\ ~HasPath(ns, w[3])
           [] phase = "remove" -> Kept(w[1])
           [] OTHER -> ~HasPath(ns, w)

\* A pass over what is left of it, when the receiver has had what came before.
Turn(p) == phase = p /\ todo # <<>> /\ out = <<>> /\ ~GivesUp /\ todo' = Tail(todo)
EndOf(p, next, work) ==
  /\ phase = p /\ todo = <<>> /\ out = <<>>
  /\ phase' = next /\ todo' = work
  /\ UNCHANGED <<sent, ns, orphans, touched, created, clones, out, recv, refused>>

\* 1. A name of the parent's that the child does not have is taken away.
MustMove(e) ==
  IsDir(sent.parent, e[3]) \/ (Kept(e[3]) /\ Cardinality(RefsOf(ns, e[3])) <= 1)

TakeAway ==
  /\ Turn("take")
  /\ LET e == Head(todo)
         path == EntryPath(ns, e[1], e[2])
         gone == ns \ {e}
         name == OrphanName(e[3])
     IN  IF e \in ToSet(Entries(sent.child))
         THEN UNCHANGED <<ns, orphans, touched, out>>
         ELSE IF MustMove(e)
         THEN /\ out' = <<[cmd |-> "RENAME", path |-> path, to |-> <<name>>]>>
              /\ ns' = gone \cup {<<TopId, name, e[3]>>}
              /\ orphans' = orphans \cup {<<e[3], name>>}
              /\ touched' = touched \cup {TopId, e[1], e[3]}
         ELSE /\ out' = <<[cmd |-> "UNLINK", path |-> path]>>
              /\ ns' = gone /\ touched' = touched \cup {e[1], e[3]}
              /\ UNCHANGED orphans
  /\ UNCHANGED <<sent, phase, created, clones, recv, refused>>

\* Mutant: an inode that has a name, be it an orphan's, is linked and not moved.
OrphanUnlessNamed(id) == {o \in orphans : o[1] = id /\ RefsOf(ns, id) = {}}

\* The orphan an inode is, if it is one.
OrphanOf(id) == {o \in orphans : o[1] = id}

\* 2. The child's names are made, top-down.
MakeNames ==
  /\ Turn("make")
  /\ LET e == Head(todo)
         path == EntryPath(ns, e[1], e[2])
         orphan == OrphanOf(e[3])
         f == sent.child.inode[e[3]]
     IN  IF e \in ns THEN UNCHANGED <<ns, orphans, touched, created, clones, out>>
         ELSE /\ touched' = touched \cup {e[1], e[3]}
              /\ orphans' = orphans \ orphan
              /\ ns' = (ns \ {<<TopId, o[2], o[1]>> : o \in orphan}) \cup {e}
              /\ IF orphan # {}
                 THEN /\ out' = <<[cmd |-> "RENAME", path |-> <<(CHOOSE o \in orphan : TRUE)[2]>>,
                                   to |-> path]>>
                      /\ UNCHANGED <<created, clones>>
                 ELSE IF RefsOf(ns, e[3]) # {}
                 THEN /\ out' = <<[cmd |-> "LINK", path |-> path, to |-> PathOf(ns, e[3])]>>
                      /\ UNCHANGED <<created, clones>>
                 ELSE /\ out' = SendCreate(path, f)
                      /\ created' = created \cup {e[3]}
                      /\ clones' = IF f.kind = "file" THEN SendData(path, f).clones ELSE clones
  /\ UNCHANGED <<sent, phase, recv, refused>>

\* 3. The directories the child does not have are removed.
RemoveDirs ==
  /\ Turn("remove")
  /\ LET o == Head(todo)
     IN  /\ out' = <<[cmd |-> "RMDIR", path |-> <<o[2]>>]>>
         /\ ns' = ns \ {<<TopId, o[2], o[1]>>}
  /\ UNCHANGED <<sent, phase, orphans, touched, created, clones, recv, refused>>

\* 4. What changed inside an inode both have; then the owner and the mode of
\* each that is new.
ChangeKept ==
  /\ Turn("change")
  /\ LET id == Head(todo)
         path == PathOf(ns, id)
         old == sent.parent.inode[id]
         new == sent.child.inode[id]
         data == IF new.kind = "file" THEN SendChangedData(path, old, new) ELSE <<>>
         fresh == {n \in DOMAIN new.xattr :
                     n \notin DOMAIN old.xattr \/ old.xattr[n] # new.xattr[n]}
         stale == SetToSeq(DOMAIN old.xattr \ DOMAIN new.xattr)
         chowned == old.owner # new.owner
     IN  /\ out' = data \o SetXattrs(path, new, fresh)
              \o [k \in DOMAIN stale |->
                    [cmd |-> "REMOVE_XATTR", path |-> path, name |-> stale[k]]]
              \o (IF chowned THEN <<Chown(path, new)>> ELSE <<>>)
              \o (IF chowned \/ old.mode # new.mode THEN Chmod(path, new) ELSE <<>>)
         /\ touched' = IF data # <<>> THEN touched \cup {id} ELSE touched
  /\ UNCHANGED <<sent, phase, ns, orphans, created, clones, recv, refused>>

OwnNew ==
  /\ Turn("own")
  /\ LET id == Head(todo)
         f == sent.child.inode[id]
     IN  out' = <<Chown(PathOf(ns, id), f)>> \o Chmod(PathOf(ns, id), f)
  /\ UNCHANGED <<sent, phase, ns, orphans, touched, created, clones, recv, refused>>

\* 5. The times, deepest first, of all that is new, that changed, or that the
\* stream moved.
SendTimes ==
  /\ Turn("times")
  /\ LET id == Head(todo)
     IN  out' = <<[cmd |-> "UTIMES", path |-> PathOf(ns, id),
                   mtime |-> sent.child.inode[id].mtime]>>
  /\ UNCHANGED <<sent, phase, ns, orphans, touched, created, clones, recv, refused>>

Timed ==
  {id \in Ids(sent.child) :
     id \in created \cup touched \/ id \notin Ids(sent.parent)
       \/ sent.parent.inode[id].mtime # sent.child.inode[id].mtime}

\* A full stream has no names to take away, and owns the top directory too.
NextPass ==
  \/ EndOf("take", "make", Entries(sent.child))
  \/ EndOf("make", "remove", SetToSeq(orphans))
  \/ EndOf("remove", "change",
           IF sent.full THEN <<>> ELSE SetToSeq((Ids(sent.child) \cap Ids(sent.parent)) \ created))
  \/ EndOf("change", "own", SetToSeq(IF sent.full THEN Ids(sent.child) ELSE created))
  \/ EndOf("own", "times", SetToSortSeq(Timed, LAMBDA x, y : Depth(sent.child, x) > Depth(sent.child, y)))
  \/ EndOf("times", "end", <<>>)

-----------------------------------------------------------------------------
(* The receiver, which is not this code's: a system call for each command.   *)
(* It holds entries <<directory, name>> of inodes, each with its bytes.      *)

Found(r, path) ==
  FoldLeft(LAMBDA at, n : IF at # {} /\ <<CHOOSE d \in at : TRUE, n>> \in DOMAIN r.entry
                          THEN {r.entry[<<CHOOSE d \in at : TRUE, n>>]} ELSE {},
           {TopId}, path)
The(r, path) == CHOOSE id \in Found(r, path) : TRUE

\* The directory a path's last name is in, when it is one.
DirOf(r, path) == {d \in Found(r, Front(path)) : IsDir(r, d)}
Slot(r, path) == <<CHOOSE d \in DirOf(r, path) : TRUE, Last(path)>>
Free(r, path) == DirOf(r, path) # {} /\ Found(r, path) = {}
Below(r, id) == {k \in DOMAIN r.entry : k[1] = id}

Moved(r, ids) == [r EXCEPT !.inode = [i \in DOMAIN @ |->
                    IF i \in ids THEN [@[i] EXCEPT !.mtime = Now] ELSE @[i]]]
Without(r, k) == Moved([r EXCEPT !.entry = Restrict(@, DOMAIN @ \ {k})], {k[1]})
WithEntry(r, k, id) == Moved([r EXCEPT !.entry = (k :> id) @@ @], {k[1]})

\* A change of a file's data or owner takes its capability away.
Stripped(f) ==
  IF f.kind = "dir" THEN f ELSE [f EXCEPT !.xattr = Restrict(@, DOMAIN @ \ {Capability})]
Put(r, path, data) ==
  LET id == The(r, path)
      f == r.inode[id]
      size == Max({Len(f.bytes)} \cup {at + 1 : at \in DOMAIN data})
      byte(k) == IF k - 1 \in DOMAIN data THEN data[k - 1]
                 ELSE IF k <= Len(f.bytes) THEN f.bytes[k] ELSE Zero
  IN  Moved([r EXCEPT !.inode[id] = Stripped([f EXCEPT !.bytes = [k \in 1 .. size |-> byte(k)]])],
            {id})
Cut(r, path, size) ==
  LET id == The(r, path)
      f == r.inode[id]
  IN  Moved([r EXCEPT !.inode[id] = Stripped([f EXCEPT !.bytes =
               [k \in 1 .. size |-> IF k <= Len(f.bytes) THEN f.bytes[k] ELSE Zero]])], {id})

\* A new inode of the receiver's, and what a change of owner does to a mode;
\* a symbolic link's is always the same.
Made(kind) == [kind |-> kind, bytes |-> <<>>, xattr |-> [x \in {} |-> 0], owner |-> 0,
               mode |-> IF kind = "symlink" THEN LinkMode ELSE 0, mtime |-> Now]
Owned(f, owner) == [Stripped(f) EXCEPT !.owner = owner,
                                       !.mode = IF f.kind = "symlink" THEN @ ELSE 0]

\* What the receiver holds of a snapshot it has received.
Held(s) ==
  IF s = <<>>
  THEN [entry |-> [k \in {} |-> TopId],
        inode |-> TopId :> Made("dir")]
  ELSE LET es == ToSet(Entries(s))
       IN  [entry |-> [k \in {<<e[1], e[2]>> : e \in es} |->
                         (CHOOSE e \in es : <<e[1], e[2]>> = k)[3]],
            inode |-> [id \in Ids(s) |->
              LET f == s.inode[id]
              IN  [kind |-> f.kind, bytes |-> [k \in 1 .. f.size |-> Bytes(f, {k - 1})[k - 1]], xattr |-> f.xattr,
                   owner |-> f.owner, mode |-> f.mode, mtime |-> f.mtime]]]

Source(c) == IF c.old THEN Held(sent.parent) ELSE recv
SourceBytes(c) == [k \in c.at .. c.at + c.len - 1 |->
  Source(c).inode[The(Source(c), c.source)].bytes[c.from + k - c.at + 1]]

\* Whether the receiver can apply a command, and what it then holds.  A
\* rename over a name that is there would lose what it names.
Applicable(c) ==
  LET there == Found(recv, c.path)
      isFile == there # {} /\ IsFile(recv, The(recv, c.path))
      isDir == there # {} /\ IsDir(recv, The(recv, c.path))
  IN  CASE c.cmd = "MAKE" -> Free(recv, c.path)
        [] c.cmd = "LINK" -> Free(recv, c.path) /\ Found(recv, c.to) # {}
                               /\ ~IsDir(recv, The(recv, c.to))
        [] c.cmd = "RENAME" -> there # {} /\ Free(recv, c.to) /\ ~IsPrefix(c.path, c.to)
        [] c.cmd = "UNLINK" -> there # {} /\ ~isDir
        [] c.cmd = "RMDIR" -> isDir /\ Below(recv, The(recv, c.path)) = {}
        [] c.cmd = "CLONE" ->
             /\ isFile /\ Found(Source(c), c.source) # {}
             /\ LET size == Len(Source(c).inode[The(Source(c), c.source)].bytes)
                IN  /\ c.at % Sector = 0 /\ c.from % Sector = 0 /\ c.from + c.len <= size
                    /\ c.len % Sector = 0 \/
                         (c.from + c.len = size /\ c.at + c.len >= Len(recv.inode[The(recv, c.path)].bytes))
        [] c.cmd \in {"WRITE", "ENCODED_WRITE", "FALLOCATE", "TRUNCATE"} -> isFile
        [] c.cmd = "REMOVE_XATTR" ->
             there # {} /\ c.name \in DOMAIN recv.inode[The(recv, c.path)].xattr
        [] OTHER -> there # {}

NewId == <<-Cardinality(DOMAIN recv.inode), 0>>
Result(c) ==
  LET id == The(recv, c.path)
  IN  CASE c.cmd = "MAKE" ->
             WithEntry([recv EXCEPT !.inode = (NewId :> Made(c.kind)) @@ @],
                       Slot(recv, c.path), NewId)
        [] c.cmd = "LINK" -> WithEntry(recv, Slot(recv, c.path), The(recv, c.to))
        [] c.cmd = "RENAME" ->
             WithEntry(Without(recv, Slot(recv, c.path)), Slot(recv, c.to), id)
        [] c.cmd \in {"UNLINK", "RMDIR"} -> Without(recv, Slot(recv, c.path))
        [] c.cmd = "WRITE" -> Put(recv, c.path, c.data)
        [] c.cmd = "ENCODED_WRITE" ->
             Put(recv, c.path, [k \in c.at .. c.at + c.len - 1 |-> <<c.addr, c.off + k - c.at>>])
        [] c.cmd = "CLONE" -> Put(recv, c.path, SourceBytes(c))
        [] c.cmd = "FALLOCATE" -> recv
        [] c.cmd = "TRUNCATE" -> Cut(recv, c.path, c.size)
        [] c.cmd = "SET_XATTR" ->
             [recv EXCEPT !.inode[id].xattr = (c.name :> c.value) @@ @]
        [] c.cmd = "REMOVE_XATTR" ->
             [recv EXCEPT !.inode[id].xattr = Restrict(@, DOMAIN @ \ {c.name})]
        [] c.cmd = "CHOWN" ->
             [recv EXCEPT !.inode[id] = Owned(@, c.owner)]
        [] c.cmd = "CHMOD" -> [recv EXCEPT !.inode[id].mode = c.mode]
        [] c.cmd = "UTIMES" -> [recv EXCEPT !.inode[id].mtime = c.mtime]

Apply ==
  /\ out # <<>> /\ out' = Tail(out)
  /\ IF Applicable(Head(out))
     THEN recv' = Result(Head(out)) /\ UNCHANGED refused
     ELSE refused' = Append(refused, Head(out)) /\ UNCHANGED recv
  /\ UNCHANGED <<sent, sender>>

-----------------------------------------------------------------------------
Init ==
  /\ sent \in Starts
  /\ phase = "take"
  /\ todo = IF sent.full THEN <<>> ELSE Entries(sent.parent)
  /\ ns = IF sent.full THEN {} ELSE ToSet(Entries(sent.parent))
  /\ orphans = {} /\ created = {}
  /\ touched = IF sent.full THEN {TopId} ELSE {}
  /\ clones =
       IF sent.full THEN <<>>
       ELSE LET files == SetToSeq({id \in Ids(sent.parent) : IsFile(sent.parent, id)})
            IN  FlattenSeq([k \in DOMAIN files |->
                  RunsOf(sent.parent.inode[files[k]], TRUE,
                         PathOf(ToSet(Entries(sent.parent)), files[k]))])
  /\ out = <<>> /\ recv = Held(sent.parent) /\ refused = <<>>

Next ==
  TakeAway \/ MakeNames \/ RemoveDirs \/ ChangeKept \/ OwnNew \/ SendTimes \/ NextPass \/ Apply

Spec == Init /\ [][Next]_vars

-----------------------------------------------------------------------------
\* The commands a stream of the version asked for may have.
Commands ==
  {"MAKE", "LINK", "RENAME", "UNLINK", "RMDIR", "WRITE", "CLONE", "TRUNCATE", "SET_XATTR",
   "REMOVE_XATTR", "CHOWN", "CHMOD", "UTIMES"}
    \cup IF sent.version = 2 THEN {"FALLOCATE", "ENCODED_WRITE"} ELSE {}

TypeOK ==
  /\ phase \in {"take", "make", "remove", "change", "own", "times", "end"}
  /\ \A e \in ns : {e[1], e[3]} \subseteq Ids(sent.child) \cup Ids(sent.parent)
  /\ touched \cup created \subseteq Ids(sent.child) \cup Ids(sent.parent)
  /\ \A c \in ToSet(out) : c.cmd \in Commands
  /\ \A k \in DOMAIN recv.entry : {k[1], recv.entry[k]} \subseteq DOMAIN recv.inode

\* Every command is one the receiver can apply when it comes: its paths are
\* there or free, a clone's source holds what is cloned, a directory that
\* goes is empty, and no rename lands on a name or inside itself.
NothingRefused == refused = <<>>

\* A stream of commands as they are laid down, which the receiver applies.
Applies == TypeOK /\ NothingRefused

Names(r) == {<<k[1], k[2], r.entry[k]>> : k \in DOMAIN r.entry}
Paths(names) == {<<EntryPath(names, e[1], e[2]), e[3]>> : e \in names} \cup {<<<<>>, TopId>>}

\* The receiver's names are those the sender goes by, whenever it goes on.
NamesFollowed ==
  out = <<>> => {p[1] : p \in Paths(ns)} = {p[1] : p \in Paths(Names(recv))}

Same(r, s) ==
  LET ps == Paths(Names(r))
      qs == Paths(Names(s))
  IN  /\ {p[1] : p \in ps} = {q[1] : q \in qs}
      /\ \A p, q \in ps, u, v \in qs :
           p[1] = u[1] /\ q[1] = v[1] =>
             (p[2] = q[2]) = (u[2] = v[2]) /\ r.inode[p[2]] = s.inode[u[2]]

\* When the stream ends the receiver holds the child: its names and hard
\* links, every byte, attribute, owner, mode and time.  So src/src/send.rs:5-6
\* says; with a file's capability it is not so.
Rebuilt == phase = "end" => Same(recv, Held(sent.child))

\* An inode both snapshots have is never without a name on the way: it is
\* moved, not removed and made again.
KeptStay ==
  ~sent.full => \A id \in Ids(sent.parent) \cap Ids(sent.child) :
                  id = TopId \/ \E k \in DOMAIN recv.entry : recv.entry[k] = id

\* The sender knows what the receiver has by which name, and so moves it.
NamesKept == NamesFollowed /\ KeptStay

\* The sender never gives up on two snapshots, each a tree: every inode it has
\* moved out of the way gets its name in the child, or is a directory the child
\* lacks, and no name it goes by is inside one that is gone or inside itself
\* (incremental.rs:374, "in both snapshots and was given no name in the child").
NeverGivesUp == ~GivesUp

=============================================================================
