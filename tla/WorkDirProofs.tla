---------------------------- MODULE WorkDirProofs ---------------------------
(***************************************************************************)
(* Theorems about WorkDir, for any set of paths and archives of any        *)
(* length: nothing is made outside the temporary directory, and the        *)
(* publisher is started only on the whole archive.                         *)
(***************************************************************************)
EXTENDS WorkDir, FiniteSetTheorems, TLAPS

(***************************************************************************)
(* Paths.                                                                  *)
(***************************************************************************)

\* What is left of a path without its "." is a sequence.
LEMMA CleanIsSeq ==
  ASSUME NEW path \in Seq(STRING)
  PROVE  Len(Clean(path)) \in Nat
<1> DEFINE named == {i \in DOMAIN path : path[i] # "."}
<1>1. IsFiniteSet(1 .. Len(path)) /\ DOMAIN path = 1 .. Len(path)
  BY FS_Interval
<1>2. IsFiniteSet(named)
  BY <1>1, FS_Subset
<1>3. Cardinality(named) \in Nat
  BY <1>2, FS_CardinalityType
<1> QED
  BY <1>3 DEF Clean

\* The ancestors of a path are shorter, and are those of one another.
LEMMA AncestorsOfPath ==
  ASSUME NEW path, Len(path) \in Nat
  PROVE  /\ path \notin Ancestors(path)
         /\ \A a \in Ancestors(path) : Ancestors(a) \subseteq Ancestors(path)
         /\ \A a \in Ancestors(path) : Len(a) \in Nat
<1>1. \A i \in 1 .. Len(path) - 1 : Len(SubSeq(path, 1, i)) = i
  OBVIOUS
<1>2. ASSUME NEW i \in 1 .. Len(path) - 1, NEW j \in 1 .. i - 1
      PROVE  SubSeq(SubSeq(path, 1, i), 1, j) = SubSeq(path, 1, j)
  OBVIOUS
<1>3. path \notin Ancestors(path)
  BY <1>1 DEF Ancestors
<1>4. ASSUME NEW a \in Ancestors(path)
      PROVE  Ancestors(a) \subseteq Ancestors(path) /\ Len(a) \in Nat
  <2>1. PICK i \in 1 .. Len(path) - 1 : a = SubSeq(path, 1, i)
    BY DEF Ancestors
  <2>2. Len(a) = i
    BY <1>1, <2>1
  <2>3. ASSUME NEW j \in 1 .. i - 1 PROVE SubSeq(a, 1, j) \in Ancestors(path)
    <3>1. j \in 1 .. Len(path) - 1
      OBVIOUS
    <3> QED
      BY <1>2, <2>1, <3>1 DEF Ancestors
  <2> QED
    BY <2>2, <2>3 DEF Ancestors
<1> QED
  BY <1>3, <1>4

\* All that can be on disk is above a safe path or at its end.
LEMMA NodesClosed ==
  /\ \A path \in Paths : Safe(path) =>
       Clean(path) \in Nodes /\ Ancestors(Clean(path)) \subseteq Nodes
  /\ \A n \in Nodes :
       /\ Ancestors(n) \subseteq Nodes
       /\ n \notin Ancestors(n)
       /\ \A a \in Ancestors(n) : Ancestors(a) \subseteq Ancestors(n)
<1>1. \A path \in Paths : Len(Clean(path)) \in Nat
  BY CleanIsSeq, PathsAssumption
<1>2. ASSUME NEW path \in Paths, Safe(path)
      PROVE  Clean(path) \in Nodes /\ Ancestors(Clean(path)) \subseteq Nodes
  BY <1>2 DEF Nodes
<1>3. ASSUME NEW n \in Nodes
      PROVE  /\ Ancestors(n) \subseteq Nodes
             /\ n \notin Ancestors(n)
             /\ \A a \in Ancestors(n) : Ancestors(a) \subseteq Ancestors(n)
  <2>1. PICK path \in Paths : Safe(path) /\ n \in Ancestors(Clean(path)) \cup {Clean(path)}
    BY DEF Nodes
  <2>2. Len(n) \in Nat
    BY <1>1, <2>1, AncestorsOfPath
  <2>3. Ancestors(n) \subseteq Ancestors(Clean(path))
    BY <1>1, <2>1, AncestorsOfPath
  <2> QED
    BY <1>2, <2>1, <2>2, <2>3, AncestorsOfPath
<1> QED
  BY <1>2, <1>3

(***************************************************************************)
(* The inductive invariant: while nothing has failed, what is on disk is   *)
(* what the entries extracted so far left there.                           *)
(***************************************************************************)

\* Nothing is a file and a directory, and all that is above a file or a
\* directory is a directory.
WellFormed ==
  \A n \in Nodes : n \in dirs \/ IsFile(n) =>
    /\ ~(n \in dirs /\ IsFile(n))
    /\ Ancestors(n) \subseteq dirs

\* No entry up to the n-th wrote the file of the i-th again.
LastWriterUpTo(i, n) ==
  \A j \in 1 .. n :
    j > i /\ ~archive[j].dir => Clean(archive[j].path) # Clean(archive[i].path)

\* Each of the first n entries is where it belongs.
EntriesThere(n) ==
  \A i \in 1 .. n :
    LET node == Clean(archive[i].path) IN
    /\ Safe(archive[i].path)
    /\ IF archive[i].dir THEN node \in dirs
       ELSE LastWriterUpTo(i, n) => content[node] = i

\* Each file is that of one of the first n entries.
FilesFrom(n) ==
  \A node \in Nodes : IsFile(node) =>
    /\ content[node] \in 1 .. n
    /\ ~archive[content[node]].dir
    /\ Clean(archive[content[node]].path) = node

TreeInv ==
  /\ answer # "err" => EntriesThere(at) /\ FilesFrom(at)
  /\ answer = "ok" => at = Len(archive) /\ (subdir = Root \/ Clean(subdir) \in dirs)

DirInv == TypeOK /\ WellFormed /\ TreeInv

\* The next entry, and where it goes.
LEMMA NextEntry ==
  ASSUME TypeOK, Extracting, Safe(Entry.path)
  PROVE  /\ at \in Nat /\ at + 1 \in 1 .. Len(archive) /\ at + 1 <= MaxEntries
         /\ Entry \in Entries /\ Entry.dir \in BOOLEAN
         /\ Node \in Nodes /\ Ancestors(Node) \subseteq Nodes /\ Node \notin Ancestors(Node)
<1>1. at \in Nat /\ at + 1 \in 1 .. Len(archive) /\ at + 1 <= MaxEntries
  BY MaxEntriesAssumption DEF TypeOK, Extracting
<1>2. Entry \in Entries
  BY <1>1 DEF TypeOK, Entry
<1>3. Entry.path \in Paths /\ Entry.dir \in BOOLEAN
  BY <1>2 DEF Entries
<1> QED
  BY <1>1, <1>2, <1>3, NodesClosed DEF Node

\* Directories that are made, with all above them, where no file is.
LEMMA MadeDirs ==
  ASSUME TypeOK, WellFormed, UNCHANGED content,
         NEW node \in Nodes, NEW new \in SUBSET (Ancestors(node) \cup {node}),
         Ancestors(node) \subseteq new, dirs' = dirs \cup new,
         \A n \in new : ~IsFile(n)
  PROVE  dirs' \in SUBSET Nodes /\ WellFormed'
<1>1. dirs' \in SUBSET Nodes
  BY NodesClosed DEF TypeOK
<1>2. ASSUME NEW n \in Nodes, n \in dirs' \/ IsFile(n)'
      PROVE  ~(n \in dirs' /\ IsFile(n)') /\ Ancestors(n) \subseteq dirs'
  <2>1. IsFile(n)' <=> IsFile(n)
    BY DEF IsFile
  <2>2. CASE n \in dirs \/ IsFile(n)
    BY <2>1, <2>2 DEF WellFormed
  <2>3. CASE n \in new
    <3>1. Ancestors(n) \subseteq Ancestors(node)
      BY <2>3, NodesClosed
    <3> QED
      BY <2>1, <2>3, <3>1
  <2> QED
    BY <1>2, <2>1, <2>2, <2>3
<1> QED
  BY <1>1, <1>2 DEF WellFormed

\* A file that is written, with all above it, where no directory is.
LEMMA MadeFile ==
  ASSUME TypeOK, WellFormed, NEW node \in Nodes, CanBeFile(node),
         NEW i \in 1 .. MaxEntries,
         dirs' = dirs \cup Ancestors(node), content' = [content EXCEPT ![node] = i]
  PROVE  /\ dirs' \in SUBSET Nodes /\ content' \in [Nodes -> 0 .. MaxEntries]
         /\ WellFormed'
<1>1. dirs' \in SUBSET Nodes /\ content' \in [Nodes -> 0 .. MaxEntries]
  BY NodesClosed, MaxEntriesAssumption DEF TypeOK
<1>2. \A n \in Nodes : IsFile(n)' <=> n = node \/ IsFile(n)
  BY MaxEntriesAssumption DEF TypeOK, IsFile, NoEntry
<1>3. ASSUME NEW n \in Nodes, n \in dirs' \/ IsFile(n)'
      PROVE  ~(n \in dirs' /\ IsFile(n)') /\ Ancestors(n) \subseteq dirs'
  <2>1. CASE n = node
    <3>1. n \notin dirs' /\ Ancestors(n) \subseteq dirs'
      BY <2>1, NodesClosed DEF CanBeFile
    <3> QED
      BY <3>1
  <2>2. CASE n # node /\ (n \in dirs \/ IsFile(n))
    <3>1. ~(n \in dirs /\ IsFile(n)) /\ Ancestors(n) \subseteq dirs
      BY <2>2 DEF WellFormed
    <3>2. n \in Ancestors(node) => ~IsFile(n)
      BY DEF CanBeFile
    <3> QED
      BY <1>2, <2>2, <3>1, <3>2
  <2>3. CASE n # node /\ n \in Ancestors(node)
    <3>1. Ancestors(n) \subseteq Ancestors(node)
      BY <2>3, NodesClosed
    <3>2. ~IsFile(n)
      BY <2>3 DEF CanBeFile
    <3> QED
      BY <1>2, <2>3, <3>1, <3>2
  <2> QED
    BY <1>2, <1>3, <2>1, <2>2, <2>3
<1> QED
  BY <1>1, <1>3 DEF WellFormed

\* What Write leaves on disk is well formed.
LEMMA WriteWellFormed ==
  ASSUME TypeOK, WellFormed, Extracting, Safe(Entry.path), Write \/ MakeAncestors
  PROVE  /\ dirs' \in SUBSET Nodes /\ content' \in [Nodes -> 0 .. MaxEntries]
         /\ WellFormed'
<1>1. CASE MakeAncestors
  BY <1>1, NextEntry, MadeDirs DEF MakeAncestors, TypeOK
<1>2. CASE Write /\ Entry.dir
  <2>1. /\ dirs' = dirs \cup (Ancestors(Node) \cup {Node})
        /\ UNCHANGED content /\ CanBeDir(Node)
    BY <1>2 DEF Write
  <2> QED
    BY <2>1, NextEntry, MadeDirs DEF CanBeDir, TypeOK
<1>3. CASE Write /\ ~Entry.dir
  <2>1. at + 1 \in 1 .. MaxEntries
    BY NextEntry, MaxEntriesAssumption
  <2> QED
    BY <1>3, <2>1, NextEntry, MadeFile DEF Write
<1> QED
  BY <1>1, <1>2, <1>3

\* A directory that is extracted is there, and takes nothing away.
LEMMA DirExtracted ==
  ASSUME TypeOK, EntriesThere(at), FilesFrom(at), Extracting, Safe(Entry.path),
         Write, Entry.dir, archive' = archive, at' = at + 1
  PROVE  EntriesThere(at)' /\ FilesFrom(at)'
<1>1. at \in Nat /\ dirs \subseteq dirs' /\ Node \in dirs' /\ content' = content
  BY NextEntry DEF Write
<1>2. ASSUME NEW i \in 1 .. at + 1
      PROVE  LET node == Clean(archive[i].path) IN
             /\ Safe(archive[i].path)
             /\ IF archive[i].dir THEN node \in dirs'
                ELSE LastWriterUpTo(i, at + 1) => content'[node] = i
  <2>1. CASE i = at + 1
    BY <1>1, <2>1 DEF Node, Entry
  <2>2. CASE i \in 1 .. at
    <3>1. LastWriterUpTo(i, at + 1) => LastWriterUpTo(i, at)
      BY <1>1 DEF LastWriterUpTo
    <3> QED
      BY <1>1, <2>2, <3>1 DEF EntriesThere
  <2> QED
    BY <1>1, <2>1, <2>2
<1>3. EntriesThere(at)'
  BY <1>2 DEF EntriesThere, LastWriterUpTo
<1>4. FilesFrom(at)'
  BY <1>1 DEF FilesFrom, IsFile
<1> QED
  BY <1>3, <1>4

\* A file that is extracted is there, whatever had its path before.
LEMMA FileExtracted ==
  ASSUME TypeOK, EntriesThere(at), FilesFrom(at), Extracting, Safe(Entry.path),
         Write, ~Entry.dir, archive' = archive, at' = at + 1
  PROVE  EntriesThere(at)' /\ FilesFrom(at)'
<1>1. at \in Nat /\ Node \in Nodes
  BY NextEntry
<1>2. dirs \subseteq dirs' /\ content' = [content EXCEPT ![Node] = at + 1]
  BY DEF Write
<1>3. ASSUME NEW i \in 1 .. at + 1
      PROVE  LET node == Clean(archive[i].path) IN
             /\ Safe(archive[i].path)
             /\ IF archive[i].dir THEN node \in dirs'
                ELSE LastWriterUpTo(i, at + 1) => content'[node] = i
  <2>1. CASE i = at + 1
    BY <1>1, <1>2, <2>1 DEF Node, Entry, TypeOK
  <2>2. CASE i \in 1 .. at
    <3>1. LastWriterUpTo(i, at + 1) =>
            LastWriterUpTo(i, at) /\ Clean(archive[i].path) # Node
      BY <1>1, <2>2 DEF LastWriterUpTo, Node, Entry
    <3> QED
      BY <1>2, <2>2, <3>1 DEF EntriesThere, TypeOK
  <2> QED
    BY <1>1, <2>1, <2>2
<1>4. EntriesThere(at)'
  BY <1>3 DEF EntriesThere, LastWriterUpTo
<1>5. ASSUME NEW node \in Nodes, IsFile(node)'
      PROVE  /\ content'[node] \in 1 .. at + 1
             /\ ~archive[content'[node]].dir
             /\ Clean(archive[content'[node]].path) = node
  <2>1. CASE node = Node
    BY <1>1, <1>2, <2>1 DEF Node, Entry, TypeOK
  <2>2. CASE node # Node
    <3>1. content'[node] = content[node]
      BY <1>2, <2>2 DEF TypeOK
    <3> QED
      BY <1>1, <1>2, <1>5, <3>1 DEF FilesFrom, IsFile, TypeOK
  <2> QED
    BY <2>1, <2>2
<1>6. FilesFrom(at)'
  BY <1>5 DEF FilesFrom, IsFile
<1> QED
  BY <1>4, <1>6

(***************************************************************************)
(* The steps.                                                              *)
(***************************************************************************)

LEMMA DirInit == Init => DirInv
<1> SUFFICES ASSUME Init PROVE DirInv
  OBVIOUS
<1>1. PICK n \in 0 .. MaxEntries : archive \in [1 .. n -> Entries]
  BY MaxEntriesAssumption DEF Init
<1>2. archive \in Seq(Entries) /\ Len(archive) = n
  BY <1>1, MaxEntriesAssumption
<1>3. TypeOK
  BY <1>2, MaxEntriesAssumption DEF Init, TypeOK, NoEntry
<1>4. WellFormed
  BY DEF Init, WellFormed, IsFile
<1>5. TreeInv
  BY DEF Init, TreeInv, EntriesThere, FilesFrom, IsFile
<1> QED
  BY <1>3, <1>4, <1>5 DEF DirInv

LEMMA ExtractKeeps == ASSUME DirInv, ExtractEntry PROVE DirInv'
<1> USE DEF DirInv
<1>1. TypeOK' /\ WellFormed'
  <2>1. /\ dirs' \in SUBSET Nodes /\ content' \in [Nodes -> 0 .. MaxEntries]
        /\ WellFormed'
    BY WriteWellFormed DEF ExtractEntry
  <2> QED
    BY <2>1, NextEntry DEF ExtractEntry, TypeOK
<1>2. answer = "none" /\ answer' = "none" /\ at' = at + 1 /\ archive' = archive
  BY DEF ExtractEntry, Extracting
<1>3. EntriesThere(at)' /\ FilesFrom(at)'
  BY <1>2, DirExtracted, FileExtracted DEF ExtractEntry, TreeInv
<1>4. TreeInv'
  BY <1>2, <1>3 DEF TreeInv, EntriesThere, FilesFrom, LastWriterUpTo, IsFile
<1> QED
  BY <1>1, <1>4

LEMMA FailureKeeps ==
  ASSUME DirInv, DownloadFails \/ RejectEntry \/ ExtractFails \/ EnterFails
  PROVE  DirInv'
<1> USE DEF DirInv
<1>1. /\ UNCHANGED <<archive, subdir, at>> /\ answer' = "err"
  BY DEF DownloadFails, RejectEntry, ExtractFails, EnterFails
<1>2. /\ dirs' \in SUBSET Nodes /\ content' \in [Nodes -> 0 .. MaxEntries]
      /\ WellFormed'
  <2>1. CASE UNCHANGED <<dirs, content>>
    BY <2>1 DEF TypeOK, WellFormed, IsFile
  <2>2. CASE ExtractFails /\ (Write \/ MakeAncestors)
    BY <2>2, WriteWellFormed DEF ExtractFails
  <2> QED
    BY <2>1, <2>2 DEF DownloadFails, RejectEntry, ExtractFails, EnterFails
<1>3. TypeOK' /\ TreeInv'
  BY <1>1, <1>2 DEF TypeOK, TreeInv
<1> QED
  BY <1>2, <1>3

LEMMA EnterKeeps == ASSUME DirInv, EnterWorkingDir PROVE DirInv'
<1> USE DEF DirInv
<1>1. /\ UNCHANGED <<archive, subdir, at, content>> /\ answer = "none" /\ answer' = "ok"
      /\ at = Len(archive) /\ dirs \subseteq dirs'
  BY DEF EnterWorkingDir, Unpacked
<1>2. /\ dirs' \in SUBSET Nodes /\ WellFormed'
      /\ subdir = Root \/ Clean(subdir) \in dirs'
  <2>1. CASE subdir = Root
    BY <1>1, <2>1 DEF EnterWorkingDir, TypeOK, WellFormed, IsFile
  <2>2. CASE subdir # Root
    <3> DEFINE node == Clean(subdir)
    <3>1. /\ Safe(subdir) /\ CanBeDir(node)
          /\ dirs' = dirs \cup (Ancestors(node) \cup {node})
      BY <2>2 DEF EnterWorkingDir
    <3>2. node \in Nodes
      BY <2>2, <3>1, NodesClosed DEF TypeOK
    <3> QED
      BY <1>1, <3>1, <3>2, MadeDirs DEF CanBeDir
  <2> QED
    BY <2>1, <2>2
<1>3. TypeOK'
  BY <1>1, <1>2 DEF TypeOK
<1>4. EntriesThere(at)' /\ FilesFrom(at)'
  BY <1>1 DEF TreeInv, EntriesThere, FilesFrom, LastWriterUpTo, IsFile
<1> QED
  BY <1>1, <1>2, <1>3, <1>4 DEF TreeInv

\* What is on disk is well formed and, unless a step failed, what the entries
\* extracted so far left there.
THEOREM DirInductive == Spec => []DirInv
<1>1. DirInv /\ [Next]_vars => DirInv'
  <2> SUFFICES ASSUME DirInv, [Next]_vars PROVE DirInv'
    OBVIOUS
  <2>1. CASE UNCHANGED vars
    BY <2>1 DEF vars, DirInv, TypeOK, WellFormed, TreeInv, EntriesThere, FilesFrom,
      LastWriterUpTo, IsFile
  <2> QED
    BY <2>1, ExtractKeeps, FailureKeeps, EnterKeeps DEF Next
<1> QED
  BY <1>1, DirInit, PTL DEF Spec

\* Nothing is made outside the temporary directory, whatever paths the archive
\* and the job name (storage.rs, validate_safe_relative_path and unpack_bytes).
THEOREM WorkDirTypes == Spec => []TypeOK
<1>1. DirInv => TypeOK
  BY DEF DirInv
<1> QED
  BY <1>1, DirInductive, PTL

\* The publisher is started only on the whole archive, each path as its last
\* entry left it, and in a directory that exists.
THEOREM WholeArchive == Spec => []TreeIsArchive
<1>1. DirInv => TreeIsArchive
  <2> SUFFICES ASSUME DirInv, answer = "ok" PROVE TreeIsArchive
    BY DEF TreeIsArchive
  <2>1. DOMAIN archive = 1 .. at
    BY DEF DirInv, TreeInv, TypeOK
  <2>2. \A i \in DOMAIN archive : LastWriter(i) <=> LastWriterUpTo(i, at)
    BY <2>1 DEF LastWriter, LastWriterUpTo
  <2> QED
    BY <2>1, <2>2 DEF DirInv, TreeInv, EntriesThere, FilesFrom, TreeIsArchive
<1> QED
  BY <1>1, DirInductive, PTL

=============================================================================
