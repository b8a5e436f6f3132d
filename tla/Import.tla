------------------------------- MODULE Import -------------------------------
(***************************************************************************)
(* `fs-btrfs import`: a file is written under a private name beside its    *)
(* destination, in bounded pieces, each a transaction of its own, read     *)
(* back if asked, and published by one rename; a tree is imported entry by *)
(* entry.  Several imports, each a process with a mount of its own, and    *)
(* other programs work on one volume; a transaction may be refused, fail   *)
(* after it was published, or lose its process or the power.               *)
(*                                                                         *)
(* The volume is its names and inodes as last committed: what one call     *)
(* does to the records is Namespace's and Files', how it reaches the       *)
(* device is Commit's.  The order an import calls its sink in is the       *)
(* shared driver's, which is not in the repository.  As in Commit, a call  *)
(* runs alone: nobody commits between its stale check and its superblock.  *)
(***************************************************************************)
EXTENDS Naturals, Sequences, FiniteSets, FiniteSetsExt, SequencesExt

CONSTANTS
  Importer,   \* the importing processes
  Partial,    \* each one's private names, by its counter; how many is a bound
  Replace,    \* those given --replace
  Verify,     \* those given --verify
  Usable,     \* the names a directory can hold, in trees import writes
  Gathered,   \* GATHER: how many pieces are held before they are written
  Starts      \* volumes to start from, each with what is imported, and the
              \* bound on faults, power cuts and changes by other programs

Name == STRING

ASSUME ImportAssumption ==
  /\ Gathered \in Nat \ {0}
  /\ Replace \subseteq Importer /\ Verify \subseteq Importer
  /\ \A i \in Importer : Partial[i] \in Seq(Name)
  /\ \A i, j \in Importer : i # j => Range(Partial[i]) \cap Range(Partial[j]) = {}

VARIABLES
  vol,     \* the volume as a mount finds it: generation, names and inodes
  was,     \* what it was before a commit that may yet be lost, or Settled
  imp,     \* each import
  faults,  \* the calls of each import whose commit failed late, and its kills
  around   \* what each imports, in order; how much trouble there is at most;
           \* how many changes others made and power cuts there were

vars == <<vol, was, imp, faults, around>>

NoMount == [gen |-> 0]
Settled == NoMount
NotStaged == [path |-> <<>>, name |-> <<>>, ino |-> 0]

\* A process at its first job, nothing staged and nothing open.
Fresh == [job |-> 1, phase |-> "next", rw |-> NoMount, staged |-> NotStaged,
          gathered |-> <<>>, at |-> 0, counter |-> 0, stuck |-> {}]

Trouble == around.others + around.cuts + MapThenSumSet(LAMBDA i : Len(faults[i]), Importer)
Ended(i) == imp[i].phase = "killed" \/ imp[i].job > Len(around.jobs[i])
JobOf(i) == around.jobs[i][imp[i].job]
Source(i, j) == [k \in 1 .. around.jobs[i][j].len |-> <<i, j, k>>]
Theirs == <<"another's", 0, 0>>
Byte == (Importer \cup {"another's"}) \X Nat \X Nat

Path == Seq(Name) \ {<<>>}
IsPartial(path, i) == Last(path) \in Range(Partial[i])
Public(path) == \A i \in Importer : ~IsPartial(path, i)

-----------------------------------------------------------------------------
(* A volume and what the library's calls make of it.                         *)

Exists(v, path) == path \in DOMAIN v.dir
KindAt(v, path) == v.node[v.dir[path]].kind
IsDir(v, path) == path = <<>> \/ (Exists(v, path) /\ KindAt(v, path) = "dir")

Job == [op : STRING, path : Path, len : Nat, of : Seq(Name)]

\* A volume is one tree of names, and of the inodes they name.
Node == [kind : {"file", "dir", "symlink"}, data : Seq(Byte), touched : BOOLEAN]
Sound(v) ==
  /\ v = [gen |-> v.gen, dir |-> v.dir, node |-> v.node]
  /\ v.gen \in Nat \ {0}
  /\ DOMAIN v.dir \subseteq Path /\ v.dir \in [DOMAIN v.dir -> Nat]
  /\ v.node \in [Range(v.dir) -> Node] /\ IsFiniteSet(Range(v.dir))
  /\ \A path \in DOMAIN v.dir : IsDir(v, Front(path))

\* Nothing imported, and nothing there before, is named as a staged file is.
ASSUME StartsAssumption ==
  \A s \in Starts :
    /\ Sound(s.vol) /\ s.bound \in Nat
    /\ \A path \in DOMAIN s.vol.dir :
         Public(path) /\ (KindAt(s.vol, path) = "file" =>
                            s.vol.node[s.vol.dir[path]].data = <<Theirs>>)
    /\ s.jobs \in [Importer -> Seq(Job)]
    /\ \A i \in Importer : \A j \in Range(s.jobs[i]) :
         Public(j.path) /\ (j.op = "link" => j.of \in Path /\ Public(j.of))

NextIno(v) == 1 + Max(DOMAIN v.node \cup {0})

\* parent_of: the directory is there, is one, and can hold the name.
Reached(v, path) == IsDir(v, Front(path)) /\ Last(path) \in Usable

Linked(v, path, o) ==
  [v EXCEPT !.dir = [p \in DOMAIN @ \cup {path} |-> IF p = path THEN o ELSE @[p]]]

Created(v, path, kind) ==
  LET o == NextIno(v)
  IN  [Linked(v, path, o) EXCEPT
        !.node = [x \in DOMAIN @ \cup {o} |->
                   IF x = o THEN [kind |-> kind, data |-> <<>>, touched |-> FALSE] ELSE @[x]]]

\* An inode goes with its last name.
Unlinked(v, path) ==
  LET left == [p \in DOMAIN v.dir \ {path} |-> v.dir[p]]
  IN  [v EXCEPT !.dir = left,
                !.node = [o \in {o \in DOMAIN @ : o \in Range(left)} |-> @[o]]]

\* What the new name replaces goes in the same transaction.
Renamed(v, from, to) == Unlinked(Linked(v, to, v.dir[from]), from)

\* Bytes written at the end of the file, at an offset it reaches.
Wrote(v, o, at, bytes) ==
  [v EXCEPT !.node[o].data =
     [k \in 1 .. at + Len(bytes) |-> IF k <= at THEN @[k] ELSE bytes[k - at]]]

-----------------------------------------------------------------------------
(* A call through import i's mount: one transaction, or an error.  A call    *)
(* that fails drops the mount; one whose commit failed after its superblock  *)
(* was written fails as well, though the volume now shows the change.        *)

\* Mutant: a mount another handle has committed past still writes.
NeverStale(i) == FALSE

\* refuse_stale: another handle has committed past this one's mount.
Stale(i) == imp[i].rw.gen < vol.gen

Mounted(i) == imp[i].rw # NoMount
Next1(v) == [v EXCEPT !.gen = vol.gen + 1]

Succeeds(i, me, new) ==
  /\ ~Stale(i)
  /\ vol' = Next1(new)
  /\ was' = Settled
  /\ imp' = [imp EXCEPT ![i] = [me EXCEPT !.rw = IF me.phase = "persisted" THEN NoMount
                                                 ELSE vol']]
  /\ UNCHANGED faults

FailsLate(i, me, new) ==
  /\ ~Stale(i)
  /\ Trouble < around.bound
  /\ vol' = Next1(new)
  /\ was' = vol
  /\ imp' = [imp EXCEPT ![i] = me]
  /\ faults' = [faults EXCEPT ![i] = Append(@, imp[i].phase)]

Fails(i, me) == imp' = [imp EXCEPT ![i] = me] /\ UNCHANGED <<vol, was, faults>>

Dropped(i) == [imp[i] EXCEPT !.rw = NoMount, !.gathered = <<>>, !.phase = "abort"]

\* The call makes the volume new and goes on as `me`, or does not and the
\* import is aborted.
Call(i, me, new) ==
  \/ Succeeds(i, me, new)
  \/ FailsLate(i, Dropped(i), new)
  \/ Fails(i, Dropped(i))

\* Import i at a call that needs the writable mount, kept from the last.
At(i, phase) == imp[i].phase = phase /\ ~Ended(i) /\ Mounted(i) /\ UNCHANGED around
OnJob(i, op) == At(i, "next") /\ JobOf(i).op = op
JobDone(i) == [imp[i] EXCEPT !.phase = "next", !.job = @ + 1]

MountRw(i) ==
  /\ imp[i].phase \in {"next", "write", "publish", "abort"} /\ ~Ended(i) /\ ~Mounted(i)
  /\ imp' = [imp EXCEPT ![i].rw = vol]
  /\ UNCHANGED <<vol, was, faults, around>>

-----------------------------------------------------------------------------
(* One file: staged, written, persisted, read back, published.               *)

\* What stage and publish refuse: a name that is taken, without --replace,
\* or taken by something else than a regular file.
Taken(i, path) ==
  LET v == imp[i].rw
  IN  Exists(v, path) /\ (i \notin Replace \/ KindAt(v, path) # "file")

Stage(i) ==
  LET v == imp[i].rw
      path == JobOf(i).path
      name == Append(Front(path), Partial[i][imp[i].counter + 1])
  IN  /\ OnJob(i, "file")
      /\ imp[i].counter < Len(Partial[i])
      /\ IF Taken(i, path) \/ ~Reached(v, path) THEN Fails(i, Dropped(i))
         ELSE LET counted == [imp[i] EXCEPT !.counter = @ + 1]
                  staged == [counted EXCEPT
                    !.phase = "write",
                    !.staged = [path |-> path, name |-> name, ino |-> NextIno(v)]]
                  failed == [counted EXCEPT !.rw = NoMount, !.phase = "abort"]
              IN  \/ ~Exists(v, name) /\ Succeeds(i, staged, Created(v, name, "file"))
                  \/ ~Exists(v, name) /\ FailsLate(i, failed, Created(v, name, "file"))
                  \/ Fails(i, failed)

\* What is gathered written in one call, by an import that then is `me`.
Flush(i, me) ==
  LET v == imp[i].rw
      o == imp[i].staged.ino
  IN  IF o \notin DOMAIN v.node THEN Fails(i, Dropped(i))
      ELSE Call(i, [me EXCEPT !.gathered = <<>>, !.at = @ + Len(me.gathered)],
                Wrote(v, o, me.at, me.gathered))

\* The next piece of the source, gathered, and written once there are enough.
WriteAt(i) ==
  LET held == imp[i].at + Len(imp[i].gathered)
      me == [imp[i] EXCEPT !.gathered = Append(@, Source(i, imp[i].job)[held + 1])]
  IN  /\ At(i, "write")
      /\ held < JobOf(i).len
      /\ IF Len(me.gathered) >= Gathered THEN Flush(i, me)
         ELSE Fails(i, me)

\* Mutant: what is still gathered at the end of the source is not written.
PersistUnflushed(i) ==
  /\ At(i, "write")
  /\ imp[i].at + Len(imp[i].gathered) = JobOf(i).len
  /\ Fails(i, [imp[i] EXCEPT !.phase = "persisted", !.rw = NoMount, !.gathered = <<>>])

\* The last of it is written, and the mount is let go.
Persist(i) ==
  /\ At(i, "write")
  /\ imp[i].at + Len(imp[i].gathered) = JobOf(i).len
  /\ IF imp[i].gathered = <<>> THEN Fails(i, [imp[i] EXCEPT !.phase = "persisted", !.rw = NoMount])
     ELSE Flush(i, [imp[i] EXCEPT !.phase = "persisted"])

\* With --verify the staged inode is read back through a mount of its own,
\* and must be the source's length and bytes.
ReadBack(i) ==
  LET o == imp[i].staged.ino
      same == o \in DOMAIN vol.node /\ vol.node[o].data = Source(i, imp[i].job)
      me == [imp[i] EXCEPT !.at = 0]
  IN  /\ imp[i].phase = "persisted"
      /\ Fails(i, [me EXCEPT !.phase = IF i \in Verify /\ ~same THEN "abort" ELSE "publish"])
      /\ UNCHANGED around

\* The name is looked for again: it may have appeared since.
Publish(i) ==
  LET v == imp[i].rw
      s == imp[i].staged
  IN  /\ At(i, "publish")
      /\ IF Taken(i, s.path) \/ ~Exists(v, s.name) \/ ~IsDir(v, Front(s.path))
         THEN Fails(i, Dropped(i))
         ELSE Call(i, [JobDone(i) EXCEPT !.staged = NotStaged], Renamed(v, s.name, s.path))

\* Mutant: a failed call left no mount, and none is opened to clean up.
AbortUnmounted(i) ==
  /\ imp[i].phase = "abort"
  /\ Fails(i, [JobDone(i) EXCEPT !.staged = NotStaged, !.gathered = <<>>, !.at = 0])
  /\ UNCHANGED around

\* The staged name is unlinked, and the error says so when it cannot be.  An
\* import that staged nothing has nothing to do.  The mount kept is used, if
\* there is one.
Abort(i) ==
  LET v == imp[i].rw
      name == imp[i].staged.name
      over == [JobDone(i) EXCEPT !.staged = NotStaged, !.gathered = <<>>,
                                 !.at = 0, !.rw = NoMount]
      told == [over EXCEPT !.stuck = @ \cup {name}]
  IN  /\ At(i, "abort")
      /\ IF imp[i].staged = NotStaged THEN Fails(i, over)
         ELSE IF ~Exists(v, name) THEN Fails(i, IF Stale(i) THEN told ELSE over)
         ELSE \/ /\ ~Stale(i)
                 /\ vol' = Next1(Unlinked(v, name)) /\ was' = Settled
                 /\ imp' = [imp EXCEPT ![i] = over] /\ UNCHANGED faults
              \/ FailsLate(i, told, Unlinked(v, name))
              \/ Fails(i, told)

-----------------------------------------------------------------------------
(* The other entries of a tree.                                              *)

\* A directory there is merged into; nothing is committed for it.
CreateDir(i) ==
  LET v == imp[i].rw
      path == JobOf(i).path
  IN  /\ OnJob(i, "dir")
      /\ IF ~Reached(v, path) \/ (Exists(v, path) /\ ~IsDir(v, path))
         THEN Fails(i, Dropped(i))
         ELSE IF Exists(v, path) THEN Fails(i, JobDone(i)) \/ (Stale(i) /\ Fails(i, Dropped(i)))
         ELSE Call(i, JobDone(i), Created(v, path, "dir"))

CreateSymbolicLink(i) ==
  LET v == imp[i].rw
      path == JobOf(i).path
  IN  /\ OnJob(i, "symlink")
      /\ IF ~Reached(v, path) \/ Exists(v, path) THEN Fails(i, Dropped(i))
         ELSE Call(i, JobDone(i), Created(v, path, "symlink"))

\* Another name for what the path imported before names now.
CreateHardLink(i) ==
  LET v == imp[i].rw
      path == JobOf(i).path
      of == JobOf(i).of
  IN  /\ OnJob(i, "link")
      /\ IF ~Exists(v, of) \/ IsDir(v, of) \/ ~Reached(v, path) \/ Exists(v, path)
         THEN Fails(i, Dropped(i))
         ELSE Call(i, JobDone(i), Linked(v, path, v.dir[of]))

\* Times and attributes land on what the path names, links not followed.
SetAttributes(i) ==
  LET v == imp[i].rw
      path == JobOf(i).path
  IN  /\ OnJob(i, "attributes")
      /\ IF ~Exists(v, path) THEN Fails(i, Dropped(i))
         ELSE Call(i, JobDone(i), [v EXCEPT !.node[v.dir[path]].touched = TRUE])

-----------------------------------------------------------------------------
(* What else happens.                                                        *)

\* A signal: the driver stops between two calls and aborts.
Cancel(i) ==
  /\ imp[i].phase \in {"write", "persisted", "publish"}
  /\ imp' = [imp EXCEPT ![i].phase = "abort"]
  /\ UNCHANGED <<vol, was, faults, around>>

Killed(i) == [Fresh EXCEPT !.phase = "killed", !.counter = imp[i].counter,
                           !.stuck = imp[i].stuck]

Kill(i) ==
  /\ ~Ended(i) /\ Trouble < around.bound
  /\ imp' = [imp EXCEPT ![i] = Killed(i)]
  /\ faults' = [faults EXCEPT ![i] = Append(@, "killed")]
  /\ UNCHANGED <<vol, was, around>>

\* A new process takes the import up from its start, perhaps under the
\* number, and so the private names, of the one killed.
Again(i) ==
  /\ imp[i].phase = "killed"
  /\ \E n \in {0, imp[i].counter} :
       imp' = [imp EXCEPT ![i] = [@ EXCEPT !.phase = "next", !.counter = n]]
  /\ UNCHANGED <<vol, was, faults, around>>

\* Another program puts a file at a name an import is for, or removes a name.
Change(new) ==
  /\ Trouble < around.bound
  /\ vol' = Next1(new) /\ was' = Settled
  /\ around' = [around EXCEPT !.others = @ + 1]
  /\ UNCHANGED <<imp, faults>>

OtherPuts(path) ==
  /\ IsDir(vol, Front(path)) /\ ~IsDir(vol, path)
  /\ LET v == IF Exists(vol, path) THEN Unlinked(vol, path) ELSE vol
         new == Created(v, path, "file")
     IN  Change(Wrote(new, new.dir[path], 0, <<Theirs>>))

OtherRemoves(path) ==
  /\ \A p \in DOMAIN vol.dir : Front(p) # path
  /\ Change(Unlinked(vol, path))

\* Power goes: every process with it, and a commit that was never settled
\* may go too.
PowerCut ==
  /\ Trouble < around.bound
  /\ vol' \in {vol} \cup ({was} \ {Settled})
  /\ was' = Settled
  /\ imp' = [i \in Importer |-> IF Ended(i) THEN imp[i] ELSE Killed(i)]
  /\ faults' = [i \in Importer |-> IF Ended(i) THEN faults[i] ELSE Append(faults[i], "killed")]
  /\ around' = [around EXCEPT !.cuts = @ + 1]

Init ==
  /\ \E s \in Starts : 
       /\ vol = s.vol
       /\ around = [jobs |-> s.jobs, bound |-> s.bound, others |-> 0, cuts |-> 0]
  /\ was = Settled
  /\ imp = [i \in Importer |-> Fresh]
  /\ faults = [i \in Importer |-> <<>>]

ImportFile(i) ==
  Stage(i) \/ WriteAt(i) \/ Persist(i) \/ ReadBack(i) \/ Publish(i) \/ Abort(i)
ImportEntry(i) ==
  CreateDir(i) \/ CreateSymbolicLink(i) \/ CreateHardLink(i) \/ SetAttributes(i)
Steps(i) == MountRw(i) \/ ImportFile(i) \/ ImportEntry(i)

Targets == UNION {{j.path : j \in Range(around.jobs[i])} : i \in Importer}

Next ==
  \/ \E i \in Importer : Steps(i) \/ Cancel(i) \/ Kill(i) \/ Again(i)
  \/ \E path \in Targets : OtherPuts(path)
  \/ \E path \in DOMAIN vol.dir : OtherRemoves(path)
  \/ PowerCut

Spec == Init /\ [][Next]_vars

-----------------------------------------------------------------------------
(* What must hold.                                                           *)

FilesOf(i) == {j \in DOMAIN around.jobs[i] : around.jobs[i][j].op = "file"}
Links == {j \in UNION {Range(around.jobs[i]) : i \in Importer} : j.op = "link"}
\* The paths that may show what is imported for `path`: itself, and by links.
Shows(path) ==
  {p \in Targets : \A T \in SUBSET Targets :
     path \in T /\ (\A j \in Links : j.of \in T => j.path \in T) => p \in T}

Phases == {"next", "write", "persisted", "publish", "abort", "killed"}

TypeOK ==
  /\ Sound(vol)
  /\ \A i \in Importer : /\ imp[i].phase \in Phases
                         /\ imp[i].job \in 1 .. Len(around.jobs[i]) + 1
                         /\ Len(imp[i].gathered) < Gathered
                         /\ imp[i].rw.gen <= vol.gen \/ around.cuts > 0
  /\ was = Settled \/ (Sound(was) /\ was.gen < vol.gen)

\* Whatever imports, other programs, faults and power cuts do, a file under a
\* name that is not private is another program's, or the whole of the source
\* some import has for that name, and never a part of it; and names and
\* inodes stay those of one tree.
Whole ==
  /\ TypeOK
  /\ \A path \in DOMAIN vol.dir :
       Public(path) /\ KindAt(vol, path) = "file" =>
         \/ vol.node[vol.dir[path]].data = <<Theirs>>
         \/ \E i \in Importer : \E j \in FilesOf(i) :
              /\ path \in Shows(around.jobs[i][j].path)
              /\ vol.node[vol.dir[path]].data = Source(i, j)

\* A volume w that import i may make of this one.
AskedOf(i, w) ==
  /\ \A path \in DOMAIN vol.dir : ~IsPartial(path, i) =>
       /\ path \in DOMAIN w.dir
       /\ \/ w.dir[path] = vol.dir[path]
          \/ /\ i \in Replace /\ KindAt(vol, path) = "file"
             /\ path = JobOf(i).path
             /\ w.node[w.dir[path]].data = Source(i, imp[i].job)
  /\ \A o \in DOMAIN vol.node \cap DOMAIN w.node :
       \/ w.node[o].data = vol.node[o].data
       \/ Exists(vol, imp[i].staged.name) /\ vol.dir[imp[i].staged.name] = o

\* A call of an import takes no name from another file but by publishing the
\* whole of its own under --replace, in one step; and changes the bytes of
\* no inode but the one it staged, however long ago it looked at the volume.
OnlyAsked ==
  [][\A i \in Importer : imp'[i] # imp[i] /\ around' = around => AskedOf(i, vol')]_vars

\* Short of a power cut, a private name in the volume is that of a file being
\* staged, or one its import said it could not remove; or its process was
\* killed, or told that making it failed when it had not.
StraysTold ==
  around.cuts = 0 =>
    \A i \in Importer : \A path \in DOMAIN vol.dir :
      IsPartial(path, i) =>
        \/ path = imp[i].staged.name
        \/ path \in imp[i].stuck
        \/ Range(faults[i]) \cap {"next", "killed"} # {}

=============================================================================
