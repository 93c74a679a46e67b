------------------------------ MODULE Release ------------------------------
(***************************************************************************)
(* Several jobs for one release: the control plane queues the package of   *)
(* one version again, because the first job failed, was lost, or carried   *)
(* an older build.  PublisherWorker tells what each job gets done; here it *)
(* is composed with a registry that has a place for one package of the     *)
(* release.  Some registries take a version only once (npm, crates.io,     *)
(* PyPI); others replace it (`gh release upload --clobber`, a Conan        *)
(* remote).  Every job that publishes is one for the release.              *)
(***************************************************************************)
EXTENDS PublisherWorker

VARIABLES
  overwrites,  \* whether the registry replaces a version it has
  version,     \* the entry whose package the registry shows, or NoEntry
  open         \* history: for each entry, the jobs that were open when it was delivered

releaseVars == <<overwrites, version, open>>
allVars == <<vars, releaseVars>>

ReleaseTypeOK ==
  /\ TypeOK
  /\ overwrites \in BOOLEAN
  /\ version \in Entries \cup {NoEntry}
  /\ open \in [Entries -> SUBSET Entries]

ReleaseInit ==
  /\ Init
  /\ overwrites \in BOOLEAN
  /\ version = NoEntry
  /\ open = [e \in Entries |-> {}]

\* A job is open while a worker has it, or its tools may still be running.
Open(e) == Held(e) \/ package[e] = "started"

\* The registry takes the package of e for the release; one that has the
\* version and does not replace it answers the tool with an error.
TakeVersion(e) ==
  /\ version = NoEntry \/ overwrites
  /\ RegistryAccepts(e)
  /\ version' = e
  /\ UNCHANGED <<overwrites, open>>

\* Which jobs an entry overlaps with is settled when it is delivered.
NoteOpenJobs ==
  open' = [e \in Entries |-> IF lastDelivered < e /\ e <= lastDelivered'
                             THEN {d \in Entries : d # e /\ Open(d)}
                             ELSE open[e]]

ReleaseNext ==
  \/ \E e \in Entries : TakeVersion(e)
  \/ /\ \/ \E payload \in Publishable : Produce(payload)
        \/ \E e \in Entries : DocsHostAccepts(e)
        \/ StaleRead
        \/ \E w \in Workers : Start(w) \/ Work(w) \/ Fails(w)
     /\ NoteOpenJobs
     /\ UNCHANGED <<overwrites, version>>

ReleaseSpec == ReleaseInit /\ [][ReleaseNext]_allVars

----------------------------------------------------------------------------
(* Properties.                                                             *)

Succeeded(e) == \E i \in DOMAIN reports[e] : reports[e][i].event = "success"

\* What the control plane was told is out is what the registry shows, unless a
\* job that was queued later, or one that overlapped with it, replaced it (and
\* only where the registry replaces versions): a job that was settled before
\* never comes back to undo a success.
ShownOrReplaced ==
  \A e \in Entries : Succeeded(e) =>
    \/ version = e
    \/ overwrites /\ (version > e \/ version \in open[e])

\* A registry that takes a version once: of all the jobs for the release one
\* is told a success, at most, documents it, and is acknowledged.
OneJobSucceeds ==
  ~overwrites =>
    \A d, e \in Entries : d # e =>
      ~ ((Succeeded(d) \/ site[d] # "none") /\ (Succeeded(e) \/ site[e] # "none"))

\* The package is out and its job given up without a success: the worker was
\* killed, the tool or the documentation failed after the upload.
Stranded ==
  ~overwrites /\ version # NoEntry /\ Abandoned(version) /\ ~Succeeded(version)

\* Nothing that is queued afterwards repairs it: it stays so,
StrandedForGood == [][Stranded => Stranded']_allVars

\* and while it is so no job of the release is told a success, and no other
\* job gets to document it, although the version has its package.
NoRepair ==
  Stranded =>
    \A e \in Entries : ~Succeeded(e) /\ (e # version => site[e] = "none")

\* The inductive part: what the registry shows was taken, what was taken it
\* shows or replaced, and what is open was so when later entries came.
ReleaseInv ==
  /\ version # NoEntry => package[version] = "accepted"
  /\ \A e \in Entries : package[e] = "accepted" =>
       version = e \/ (overwrites /\ (version > e \/ version \in open[e]))
  /\ \A e \in Entries : Delivered(e) => \A d \in Entries : d < e /\ Open(d) => d \in open[e]
  /\ \A e \in Entries : site[e] # "none" => package[e] = "accepted"

=============================================================================
