------------------------------ MODULE WorkDir ------------------------------
(***************************************************************************)
(* What process_job does in its temporary directory before the publisher   *)
(* is started: the artifact archive is unpacked entry by entry             *)
(* (storage.rs), then the working directory that the job names is resolved *)
(* and created (domain.rs, worker.rs).  Any step may fail, which ends it.  *)
(*                                                                         *)
(* A path is its sequence of components.                                   *)
(***************************************************************************)
EXTENDS Naturals, Sequences, SequencesExt

CONSTANTS
  Paths,        \* the paths that archives and jobs name
  MaxEntries    \* bound: how many entries an archive has

ASSUME PathsAssumption ==
  \A path \in Paths : path \in Seq(STRING) /\ path # << >>
ASSUME MaxEntriesAssumption == MaxEntries \in Nat

Root == << >>   \* of a job whose working directory is the whole archive

VARIABLES
  archive,   \* its entries, in order
  subdir,    \* sub_directory of a monorepo job, or Root
  at,        \* how many entries were extracted
  dirs,      \* the directories below the temporary directory
  content,   \* for each file below it, the entry that wrote it
  answer     \* "none", "ok" when the publisher is next, or "err"

vars == <<archive, subdir, at, dirs, content, answer>>

\* Path::components: "." names nothing.
Clean(path) ==
  LET named == {i \in DOMAIN path : path[i] # "."}
  IN  [k \in 1 .. Cardinality(named) |-> path[SetToSortSeq(named, <)[k]]]

\* validate_safe_relative_path.
Safe(path) ==
  /\ Clean(path) # << >>
  /\ \A i \in DOMAIN path : path[i] \notin {"..", "/"}

Ancestors(path) == {SubSeq(path, 1, i) : i \in 1 .. Len(path) - 1}
Nodes == UNION {Ancestors(Clean(path)) \cup {Clean(path)} : path \in {p \in Paths : Safe(p)}}
Entries == [path : Paths, dir : BOOLEAN]
NoEntry == 0

\* Nothing is ever made but what safe paths name, or what is above it: no
\* entry, and no working directory, is outside the temporary directory.
TypeOK ==
  /\ archive \in Seq(Entries) /\ Len(archive) <= MaxEntries
  /\ subdir \in Paths \cup {Root}
  /\ at \in 0 .. Len(archive)
  /\ dirs \subseteq Nodes
  /\ content \in [Nodes -> 0 .. MaxEntries]
  /\ answer \in {"none", "ok", "err"}

Init ==
  /\ archive \in UNION {[1 .. n -> Entries] : n \in 0 .. MaxEntries}
  /\ subdir \in Paths \cup {Root}
  /\ at = 0
  /\ dirs = {}
  /\ content = [n \in Nodes |-> NoEntry]
  /\ answer = "none"

----------------------------------------------------------------------------

IsFile(node) == node \in DOMAIN content /\ content[node] # NoEntry

\* fs::create_dir_all succeeds unless a file is in the way.
CanBeDir(node) == \A n \in Ancestors(node) \cup {node} : ~IsFile(n)

CanBeFile(node) == node \notin dirs /\ \A n \in Ancestors(node) : ~IsFile(n)

Extracting == answer = "none" /\ at < Len(archive)
Entry == archive[at + 1]
Node == Clean(Entry.path)

MakeAncestors ==
  /\ \A n \in Ancestors(Node) : ~IsFile(n)
  /\ dirs' = dirs \cup Ancestors(Node)
  /\ UNCHANGED content

\* Mutant of Write: a file that is there is kept.
WriteOnce ==
  IF Entry.dir
  THEN /\ CanBeDir(Node)
       /\ dirs' = dirs \cup Ancestors(Node) \cup {Node}
       /\ UNCHANGED content
  ELSE /\ CanBeFile(Node)
       /\ dirs' = dirs \cup Ancestors(Node)
       /\ content' = [content EXCEPT ![Node] = IF @ = NoEntry THEN at + 1 ELSE @]

\* The entry is created, with the directories above it; a file that is there
\* is overwritten.
Write ==
  IF Entry.dir
  THEN /\ CanBeDir(Node)
       /\ dirs' = dirs \cup Ancestors(Node) \cup {Node}
       /\ UNCHANGED content
  ELSE /\ CanBeFile(Node)
       /\ dirs' = dirs \cup Ancestors(Node)
       /\ content' = [content EXCEPT ![Node] = at + 1]

\* Mutant of ExtractEntry: the path of the entry is not validated.
ExtractUnchecked ==
  /\ Extracting
  /\ Write
  /\ at' = at + 1
  /\ UNCHANGED <<archive, subdir, answer>>

\* unpack_bytes: one turn of its loop.
ExtractEntry ==
  /\ Extracting
  /\ Safe(Entry.path)
  /\ Write
  /\ at' = at + 1
  /\ UNCHANGED <<archive, subdir, answer>>

\* The archive cannot be downloaded, or is none.
DownloadFails ==
  /\ answer = "none" /\ at = 0
  /\ answer' = "err"
  /\ UNCHANGED <<archive, subdir, at, dirs, content>>

\* The path of the next entry is rejected.
RejectEntry ==
  /\ Extracting
  /\ ~Safe(Entry.path)
  /\ answer' = "err"
  /\ UNCHANGED <<archive, subdir, at, dirs, content>>

\* The next entry is broken, or in conflict with what is there, or the disk
\* fails: its directories, and a part of its file, may have been made.
ExtractFails ==
  /\ Extracting
  /\ Safe(Entry.path)
  /\ Write \/ MakeAncestors \/ UNCHANGED <<dirs, content>>
  /\ answer' = "err"
  /\ UNCHANGED <<archive, subdir, at>>

Unpacked == answer = "none" /\ at = Len(archive)

\* resolve_working_dir and create_dir_all: the directory need not come from
\* the archive.
EnterWorkingDir ==
  /\ Unpacked
  /\ \/ subdir = Root /\ UNCHANGED dirs
     \/ /\ subdir # Root /\ Safe(subdir)
        /\ CanBeDir(Clean(subdir))
        /\ dirs' = dirs \cup Ancestors(Clean(subdir)) \cup {Clean(subdir)}
  /\ answer' = "ok"
  /\ UNCHANGED <<archive, subdir, at, content>>

\* The directory is rejected, or cannot be made.
EnterFails ==
  /\ Unpacked /\ subdir # Root
  /\ answer' = "err"
  /\ UNCHANGED <<archive, subdir, at, dirs, content>>

Next ==
  \/ DownloadFails \/ ExtractEntry \/ RejectEntry \/ ExtractFails
  \/ EnterWorkingDir \/ EnterFails

Spec == Init /\ [][Next]_vars

----------------------------------------------------------------------------
(* Properties.                                                             *)

LastWriter(i) ==
  \A j \in DOMAIN archive :
    j > i /\ ~archive[j].dir => Clean(archive[j].path) # Clean(archive[i].path)

\* The publisher is started only on the whole archive: each entry was safe and
\* is there, and of entries with one path the last; no file is cut short, lost to a
\* later directory, or from anywhere else; and the working directory exists.
TreeIsArchive ==
  answer = "ok" =>
    /\ \A i \in DOMAIN archive :
         LET node == Clean(archive[i].path) IN
         /\ Safe(archive[i].path)
         /\ IF archive[i].dir THEN node \in dirs
            ELSE LastWriter(i) => content[node] = i
    /\ \A n \in Nodes : IsFile(n) =>
         ~archive[content[n]].dir /\ Clean(archive[content[n]].path) = n
    /\ subdir = Root \/ Clean(subdir) \in dirs

=============================================================================
