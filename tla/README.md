# cdd-publisher in TLA+

`cdd-publisher` is a background worker: it takes publish jobs from a Redis stream, unpacks the
SDK archive a job names, signs it and hands it to the command line tool of one of thirteen package
registries, optionally publishes documentation, reports the outcome to the control plane and
acknowledges the job. These modules model that program at the level of its control flow: every
step between two awaits, every early return, and what is left when a step fails, when a process is
killed or when an answer is lost. TLC checks them on small instances; TLAPS proves the most
important results for every value of the constants.

## 1. Inventory

| Component | Source | State it keeps | Operations | Talks to |
|---|---|---|---|---|
| Event queue | `src/src/worker.rs` 25-176 | in Redis: the stream, the group, its last-delivered-id, its pending list | `create_group`, `read_one`, `ack` | worker |
| Worker | `src/src/worker.rs` 178-446, `src/src/main.rs` 96-160 | the message in hand, the result of `process_job`, a `TempDir` | `run_worker_with_queue`, `run_once`, `process_job`, `report_audit`, `acknowledge` | all others |
| Audit client | `src/src/audit.rs` | none | `report_status` (one POST) | control plane |
| Artifact storage | `src/src/storage.rs` | files below the temporary directory | `fetch_and_unpack`, `unpack_bytes` | HTTP storage |
| Registry publisher | `src/src/publish.rs` | `.npmrc` / `settings.xml`, child processes and their pipes, the machine's Conan cache | `publish_with_options`, thirteen `publish_*_with_exe` | registries' tools, signing |
| Signing | `src/src/signing.rs` | a temporary `GNUPGHOME`, `.asc` files, git settings | key import, signing a directory, git signing | `gpg`, `git` |
| Documentation publisher | `src/src/docs_publish.rs` | none; documents at a host | `publish_docs` for ten targets | documentation hosts |
| Domain values | `src/src/domain.rs` | none | parsing, validation, `token_for`, `redact_from`, `resolve_working_dir` | everything |
| Configuration, errors | `src/src/main.rs` 29-94, `src/src/error.rs` | the tokens of a process | `AppConfig::from_env_fn`, conversions | everything |

**Interaction.** A process is one sequential task: `run_worker_with_queue` awaits `run_once` in a
loop, and `run_once` awaits storage, publisher, documentation publisher and audit client in turn.
Concurrency is between processes: they share the Redis group (and, with `StreamConfig::default`,
even the consumer name), the registries, the documentation hosts and, on one machine, the caches of
the registries' tools. Child processes, HTTP requests and blocked Redis reads outlive a killed
worker. Within a process, a blocking thread and its child run concurrently, over pipes.

**What is hard.**

* *Delivery.* `read_one` reads with `>`, so an entry is delivered once in its life. A job that
  failed is not acknowledged and stays pending for ever; nothing claims it. That makes
  publication at-most-once, and makes "pending" the only trace of an interrupted job.
* *Crashes between steps* of a job, and Redis answers that are lost after the command took effect.
* *Partial success*: a tool that fails after the registry took the package, documentation that
  fails after the package is out, an acknowledgement that fails after everything succeeded.
* *Cleanup on every path*: the job's directory, the credential file, the `GNUPGHOME`; and their
  order with respect to the tools that need them.
* *Concurrent publications* of the documentation of one release, uploaded document by document.
* *No timeouts*: no HTTP call and no child process has one.
* *Several jobs for one version*: a registry that takes a version once refuses the second; one that
  replaces it may show an older build after a newer one.
* *Pipes*: a key is written to a tool before anything is read from it.
* *Shared caches*: Conan uploads whatever the machine's cache holds.
* *Tables written apart*: registry names, environment variables and tokens, in three modules.
* *Redaction* of two secrets, one after the other, that may overlap.

**What makes each part correct.** Queue and worker: no job twice, acknowledged only when done,
reported truthfully, nothing lost but by a fault, a failing or hanging job does not block the
others. Publisher and signing: nothing is sent before everything was prepared, secrets do not
outlive the call and cannot be read in what is reported, "ok" only of a package the registry has,
no deadlock with a tool. Documentation: "ok" only of a complete
upload, and what concurrent uploads can do to it. Storage: the tools see the archive, whole, or
are not started.

Configuration and names: each tool is given its own token, and an error names what was missing.

`PROJECT.json` lists the components, the hazards line by line with the properties that would catch
them, and for each definition the lines it stands for.

## 2. Modules

| Module | Models |
|---|---|
| `EventStream` | the stream and its group: `Enqueue`, `CreateGroup`, `Deliver`, `Acknowledge` |
| `PublisherWorker` (EXTENDS `EventStream`) | any number of worker processes, the faults, and the answers of the services |
| `PublishLedger` | abstract: what each queued job goes through, whoever executes it |
| `PublisherLedger` | the refinement mapping from `PublisherWorker` to `PublishLedger` |
| `ServiceCall` | abstract: what the worker relies on when it awaits a publisher |
| `RegistryPublisher` | one call of `publish_with_options`, signing included; implements `ServiceCall` |
| `DocsPublisher` | the documentation publications of one release; each implements `ServiceCall` |
| `WorkDir`, `MCWorkDir` | unpacking the archive and entering the working directory |
| `Release`, `MCRelease` (EXTENDS `PublisherWorker`) | several jobs for one version, at a registry that replaces versions or takes each once |
| `ConanCache` | Conan jobs that share the cache of a machine; each implements `ServiceCall` |
| `ToolPipes` | a blocking thread and the tool it runs, over three pipes |
| `Credentials` | registry names, environment variables, tokens, and what they lead to in a job |
| `Redaction` | the texts reported of commands that failed |
| `*Proofs` (eight modules) | theorems about the module they are named for; `PublisherProofs`, in four parts, has those of `PublisherWorker` (types, safety), `PublisherLedger` and `Release` |

### EventStream and PublisherWorker

An entry is its position in the stream. Its payload is one of six classes, which are all that
`run_once` and `process_job` tell apart before they call a service: `blank`, `garbled` (both
acknowledged at once), `foreign` (unknown registry), `tokenless` (registry without a token),
`package`, `documented` (with a `docs_job`).

`pc[w]` is the await at which worker `w` stands; `job[w]` is the local `raw_msg`. `workDirs`
is the set of temporary directories on disk. `package[e]` and `site[e]` say how far the outside
world got with a job: a registry may take the package of a publisher that was started
(`RegistryAccepts`) at any time, also after the worker gave up or died. `PublisherSucceeds`
requires the package to be taken; that assumption is `ServiceCall`, and it is what
`RegistryPublisher`, `DocsPublisher` and `ConanCache` discharge. "Taken" means that the registry's tools did all
that they do; for the registries whose tools send nothing (findings) that leaves the package where
it was. A `docs_job` for a target without a request returns at once and counts as none.
`attempts`, `reports` and `groupStart` are history.

Each action is the code from one await to the next: for instance `ReportAudit` sends the one POST
and then branches to the acknowledgement or to the `Ok(())` of a failed job, and `Return` is every
return of `process_job`, with the drop of its `TempDir`. Faults are `StartFails`, `ReadFails`,
`AckFails` (each with and without the command having taken effect in Redis) and `Crash`, which may
come at any step. A worker that is down may `Start` again. An `XREADGROUP` that waits at Redis when
its client goes away is counted in `staleReads`: Redis serves it with the next entry, which nobody
gets (`DeliverToNobody`), or drops it (`ReadExpires`).

### PublishLedger

A job is *absent*, then *queued* (or *missed*, when the group starts after it), *taken* (or, when
the answer of the read is lost, *abandoned*), and ends *closed* or *abandoned*; its release is
started once, its event sent once, and it is closed only when released and told a success, or
when it carries no job at all.

### RegistryPublisher

`call` holds the arguments: the registry, whether a `PgpSigningConfig` is given, and how many git
settings it leads to (three, or four with a fingerprint). `stage` is the next step of the
`publish_*_with_exe` function; `Commands(r)` is what its tools are asked to do, by effect:
`upload`, `pack`, `tag`, `inspect`, `edit`. Only `upload` leaves the machine: the model takes
`composer validate`, `go list -m`, `swift package dump-package`, `vcpkg x-add-version`,
`brew bump-formula-pr --write-only` and a local `git tag` for what they are. A tool that fails may
have done its work, and a tool whose parent was killed goes on. `Return` removes what the guards
of the code remove: `SecretFileCleanupGuard` exists only once `write_secret_file` has returned.

### DocsPublisher

Two or more calls of `publish_docs` for one release. The official site takes one POST per
document in the order of `collect_cdd_doc_assets`; GitHub Pages, Read the Docs and a custom URL
take one request; the other targets none. A request that failed, or whose sender was killed, may
still arrive, once, later: it is in `late` until then. `place` is what the targets show.

### WorkDir

An archive is a sequence of entries; a path is a sequence of components. Entries are validated and
written one by one; a later entry may overwrite an earlier file or be in conflict with what is
there. A failed step may leave the parents and a part of the file. `Clean` drops the components
`.` of a path, as `components()` does when paths are compared or joined. At the end the working directory
is resolved and created, whether or not it came with the archive.

### Release

`PublisherWorker` as it is, with one constraint and one observer: `TakeVersion` is
`RegistryAccepts` at a registry that has one place for the version of the release (`overwrites`
says whether the place can be taken again), and `open` records which jobs overlapped. It shows
what happens when a control plane queues a version again because its first job failed, was lost
or carried an older build.

### ConanCache

`publish_conan_with_exe` runs `conan export-pkg .` and `conan upload "*"`; the cache between them
belongs to the machine. A job exports, lists what the cache holds, and sends the latest package of
each recipe listed, whoever exported it; a tool whose worker was killed goes on. What
`ServiceCall` calls *taken* has a meaning of its own here: the remote shows the job's package *or
one of its recipe that was exported later* (`Shown`). With that reading each job implements
`ServiceCall` (`CallSpec`), although its package may be sent by another job's upload, and
`OkMeansCurrent` is the part of it about an `Ok`.

### ToolPipes

The caller writes its input with `write_all`, drops its end, and then reads both outputs until
they end and the tool has exited; a pipe holds `Capacity` blocks. The tool is arbitrary: it reads
and writes in any order, exits early or is killed, and may leave behind a daemon that keeps its
outputs open. `output()` is the case of an empty input.

### Credentials

The tables of `main.rs` and `domain.rs` as functions (`ReadFrom`, `FromStr`, `AsStr`,
`TokenEnvVar`, `FieldsFor`), and a process that uses them: it reads the environment once, takes
jobs, gives tokens to publisher and documentation, and says in error messages
which variable was missing. The operator changes variables and
restarts the worker at any time. A token is told by the variable and the value it comes from.

### Redaction

A text is a sequence of letters, and a message says of each letter of it what became of it: it is
kept, it was the first of an occurrence that was replaced (the stars stand there), or another one
of them (it is gone). So it can be told which letters of an output survived, and what stands side
by side in a message stood so in the text. `Replaced` is `str::replace`: of the places where a
secret stands, those that do not overlap with one replaced further to the left.

## 3. Runs

| Run | Bounds | States | What it shows |
|---|---|---|---|
| `workers` | 2 workers, 2 jobs, 2 faults | 187 thousand | safety of the queue and the workers, delivery and settlement under fairness, and that `PublisherWorker` implements `PublishLedger` |
| `registry_publisher` | 13 registries, up to 3 files | 19 thousand | cleanup, preparation, upload last, `ServiceCall` |
| `docs` | 2 publications, 3 documents | 231 thousand | completeness, order, and nothing more after a success |
| `work_dir` | 5 paths, 3 entries | 33 thousand | the tree is the archive, and nothing is outside it |
| `release` | 2 workers, 3 jobs of one version, 1 fault | 3.8 million | what a success is worth, and what queueing again can repair |
| `conan_cache` | 3 jobs, 2 recipes | 387 thousand | an upload of everything never goes back, and is a `ServiceCall` |
| `tool_pipes` | capacity 2, input and outputs up to 3 | 11 thousand | nothing lost, no deadlock unless input and output both exceed a pipe |
| `credentials` | 15 names, 13 variables, 2 changes | 161 thousand | the tables agree; tokens go where they belong |
| `redaction` | 2 letters and the blank, 3 long | 719 thousand | no secret remains, everything else does |
| `reports`, `registry_ok`, `tool_pipes_write` | as above | to a violation | the findings of section 6 |

*Properties of the workers.* `OneHolder`, `PublishAtMostOnce`, `AckedMeansDone`, `AuditTruthful`,
`AbandonedForGood` relate the group's pending list, the workers' hands, the outside world and the
events sent, over crashes and restarts. `EachFaultLosesOneJob` says that a job that disappears
without having failed cost a fault of its own; `WorkDirsRemoved` that a stray temporary directory
cost a crash.

*Not in the runs.* The inductive invariants (`IndInv`, `StageInv`, `ReleaseInv`, `CacheInv`) and the
type invariants of `RegistryPublisher`, `DocsPublisher`, `ToolPipes`, `Release` and `ConanCache` are
theorems (section 5). TLC agreed with them before they were proved; a run would only repeat the
proof on a small instance. The types of `PublisherWorker`, `WorkDir` and `Credentials` are checked,
for they say more than types: that the group never goes back behind its start, that nothing is made
outside the temporary directory, and that a publisher has exactly one token.

*Properties of the others.* `ShownOrReplaced` says what a reported success is worth later on;
`OneJobSucceeds`, `NoRepair` and `StrandedForGood` that at a registry which takes a version once
nothing can be told, or documented, of a package whose own job was given up. `NeverOlder` is an
action property over all interleavings of exports and uploads. `NothingMissing` says what is left
of a successful documentation when others write to the same place, `OkIsFinal` that it is not the
one that undoes theirs: a request that was given up may arrive late, but then its publication has
not succeeded, and a documentation that begins after a success is safe from it. `JamNeedsBoth` states the exact
condition of a deadlock on pipes, `EndedToolIsReaped` and `FittingInputReturns` that a call
returns. `BlamedVariableWasUnset`, `TokensGoHome` and `UsableTokenIsUsed` relate the tables to
each other through what a job gets and is told. `KeyGoesWhole` depends on the order of the two
replacements.

*Bounds.* Two workers and two jobs let one worker hold a job while the other crashes with its own,
and let the first job be missed and the second delivered; two faults let a crash meet a lost answer,
before or after it, or hit the same worker again after its restart. Three jobs at once are in
`release`, whose workers are the same. Entries do not interact but by their order, and workers only
through the group, so a third worker repeats what two do; the theorems of section 5 remove the
bounds for all the safety properties of the workers, the two that count included.
Three files reach the first, a middle and the last turn of the signing loop; three documents reach
`openapi.json`, `docs.json` and one of `docs/`; three entries let a file, a directory in its
place and a third path meet in any order. Three jobs for a version
let one be stranded, one be refused and one wait; three Conan jobs of two recipes let two collide
while a third lists; inputs and outputs of three against pipes of two exceed a pipe by one; two
changes set a variable and take it back, or set a token and its fallback; secrets of three letters
in outputs of up to seven can contain, overlap and touch each other. `MaxFaults`, `MaxJobs`,
`MaxFiles`, `MaxAssets`, `MaxEntries`, `MaxInput`, `MaxOutput`, `MaxChanges` and `MaxSecret` are the
only bounds.

*Deadlock* is checked for the workers: a worker can always do something, be it to poll an empty
stream. So it is for `release` and `credentials`, whose workers go on as well. The other models
describe calls that end, or, in `tool_pipes`, deadlocks that `JamNeedsBoth` characterises, so
their runs do not check it.

*Mutants.* Beside some definitions stand mutants of them ("Mutant of ..."): plausible slips, such
as reading with id `0`, retrying a failed publication, acknowledging a failed job or keeping the
`GNUPGHOME` on an error path. Each property is violated by one of them.

## 4. Fairness

`FairSpec` has weak fairness of `OwnStep(w)` for each worker: the steps it takes without waiting
for any service but Redis (read, acknowledge, skip, discard, reject, open the directory). The
runtime schedules a ready task, and Redis either answers or fails (a fault). Nothing is assumed of
storage, registries, documentation hosts or the control plane, because no call to them has a
timeout, and nothing of whoever restarts a dead process. The liveness properties therefore name
their premise: `QueuedIsDelivered` needs one worker that again and again is neither down nor
waiting for a service, and `TakenIsSettled` needs each worker to have its calls answered (a worker
that is down counts: its job is settled as abandoned).

`ToolPipes` has weak fairness of the caller, a blocking thread that goes on whenever it is not
asleep in a system call. Of the tool nothing is assumed: `EndedToolIsReaped` has as its premise
that it ends and that no daemon keeps its outputs, `FittingInputReturns` that the tool goes on
while it can and its daemons end.

## 5. Proofs

All are checked by TLAPS for any set of workers, any number of jobs, faults, files and archive
entries, texts of any length and any names of registries, from the named assumptions on the
constants (`IsFiniteSet(Workers)` and the like) and nothing else.

* `PublisherProofs!TypeCorrect`: types. `TypeOK` is inductive together with
  `HoldsWhatItHandles` (a worker has a job exactly while it handles one), since the directory and
  the histories are indexed by the job in hand.
* `PublisherProofs!Inductive`: the invariant `IndInv`. The safety properties are not
  inductive: that a publisher is not started twice depends on an entry in `received` or `fetching`
  being untouched, which depends on entries after the group's position being untouched, on a held
  entry being pending and on no two workers holding one. `IndInv` is the conjunction of the group's
  part, the holders' part, one `EntryInv` per entry and one `PlaceInv` per worker and entry. The
  proof has a lemma for the frame of each part and one for each kind of step: producing, reading,
  local steps on the held entry, letting go, and the outside world. `AtMostOnce`, `Exclusive`,
  `AckedDone`, `TruthfulAudit` and `AbandonedStays` follow from it.
  Two more theorems count. `DirsRemoved`: no step adds a stray directory without a fault.
  `FaultsBound`: a read that waits without a client is a loss that may yet come, so the inductive
  relation is *lost jobs + stale reads <= faults*, together with the fact that a worker which skips
  an entry has its failure on record.
* `PublisherProofs!Refinement`: every step of the workers is a step of `PublishLedger` or
  stutters. The phase of each entry is read off group and holders; a lemma per kind of step says
  which phase changes, and `IndInv` supplies the guards.
* `RegistryPublisherProofs`: `CallInductive` for the invariant of a call, `StageInv` with the types
  (what is on disk, imported, configured and sent at each stage), and from it `CallTypes`,
  `StagesHold`, `NoSecretsLeft`, `UploadLast`, `TagsAsAsked`, `ToolsReady` and the refinement
  `CallImplements`.
* `DocsPublisherProofs`: `DocsInductive` for an invariant that says of each publication how far it
  got, what it sent, which request of it may be late (`OneTurn`: only one can), and who disturbed
  it; from it types, `Nothing`, `Ordered`, the action property `Final`, and that each publication
  implements `ServiceCall` (`CallsImplement`).
* The last part of `PublisherProofs`: every step of `Release` is one of `PublisherWorker`, so
  `TypeOK` and `IndInv` carry over; `ReleaseInv` adds what the registry shows and which jobs
  overlap, and gives `SuccessIsShown`, `OnlyOneSucceeds`, `QueueingAgainIsNoRepair` and
  `StrandedStays`.
* `ConanCacheProofs`: `CacheInv` orders exports by rank; the remote is never newer than the cache,
  and an upload that has passed a recipe left it no older than its own export. `Current` and
  `NoStepBack` follow, and from the latter that what a job has shown stays shown (`ShownStays`),
  which `JobsImplement`, the refinement of `ServiceCall`, rests on. `CacheTypes` counts exports.
* `ToolPipesProofs`: `PipesInductive` relates the blocks written, in each pipe, and collected;
  `WholeOutput` and `NoJamWhenItFits` follow for any capacity and lengths.
* `WorkDirProofs`: `DirInductive` for an invariant that says, after each entry, that no path is a
  file and a directory, that everything lies in a directory (`WellFormed`), that each directory
  entry unpacked so far was safe and is there, and that each file is what the last entry for it left. A later
  entry may only replace a file by a file, or add; that is `CanBeFile` and `CanBeDir`, and two
  lemmas (`MadeDirs`, for directories made with all above them, and `MadeFile`, for a file written) carry
  it over each step, the failed ones included. `WorkDirTypes` (nothing is outside) and `WholeArchive`
  follow, for any archive, also one whose entries contradict each other.
* `RedactionProofs`: the message is a function of the text and the secrets, so the invariant says
  just that; the work is in what a replacement does. `Replaced` chooses a set by what it satisfies,
  and `ReplacedIsDetermined` shows that for a text of any length there is one and only one: by the
  least number for which there would be none (`LeastNumber`, `LeftToRightStep`,
  `ReplacedLeftToRight`), and the least in which two would differ. `RedactFromResult` then says that an occurrence which is left would have
  been replaced, that nothing else is touched, and that occurrences apart from each other go whole.
  `NoSecretIsReported` needs that the second replacement brings nothing back (`StandsBefore`: what
  stands in a message stood in any message that had kept as much), `KeyIsGone` that the first one
  sees the text as it was, `DiagnosticsAreReported` that both streams are in what is formatted.
* `CredentialsProofs`: `TablesAgree` and `OneRegistry` go through the thirteen registries (a
  registry looks first at the field that is read from the variable `token_env_var` names, then at
  GitHub's or at none; a name stands for one registry). The invariant says that what was given and
  what was blamed is what the tables make of the environment *at the start*, whatever the operator
  changed since. `OneTokenEach`, `BlameIsDeserved`, `TokenIsUsed` and `TokensReachHome` follow for
  any set of names, also ones the program does not know.

Only model-checked: the four liveness properties `QueuedIsDelivered`, `TakenIsSettled`,
`EndedToolIsReaped` and `FittingInputReturns`. They rest on fairness, hence on ENABLED, which is
outside the prover's reach. Every invariant, action property and refinement that a passing run
checks is a theorem.

## 6. Findings

1. *A failure that is not reported* (`reports`). `ARCHITECTURE.md:11` promises an audit event on
   completion or failure. A job for an unknown registry fails, and since the event needs a
   `Registry` value (`worker.rs:337`) none is sent. The entry stays pending.
2. *Ok without a signature or a publication* (`registry_ok`). `publish.rs:151` says `Ok(())` when
   signing and publishing succeed. Seven registries are not given the `pgp_config` (`publish.rs:286`)
   and succeed unsigned, which is the run's counterexample; for packagist, pkg.go.dev, Swift, vcpkg
   and Homebrew no command sends the package (`publish.rs:755`, 882, 1039), and the worker reports
   success and acknowledges all the same.
3. *A key that was not written* (`tool_pipes_write`). `signing.rs:242` promises an error if writing
   to `stdin` fails; the result of `write_all` is discarded, and gpg's exit status alone decides.

Also visible in the models or beside them, without a run of its own: a failed or interrupted job is never retried
(`AbandonedForGood` is a theorem); jobs queued before the first worker ever started are missed
(phase `missed`); publications of one release at once may leave a mix of their documents;
`write_secret_file` leaves its file if setting the permissions fails; a version that is out without
a reported success stays so however often it is queued again; a package that failed to upload
to Conan goes out with the next job's upload; a rotated token is not noticed before a restart;
what a successful Conan job finds at the remote may be the package of another job (`OkMeansCurrent` is
what holds); the audit event of a Swift job names `swiftpackageindex`,
as serde derives it, where `as_str` says `swift`.

## 7. Not modelled

* Redis itself beyond the commands sent: trimming, failover, a deleted group, and the length of the
  5 s for which a read blocks (that such a read may outlive its client is modelled).
* `run_worker_with_queue` with a `keep_running` that becomes false: `main` passes a constant.
* A payload field that is not bytes is one of the causes of `ReadFails`; it counts as a fault.
* A crash of the machine, or a failure to delete a file or a directory, which the code ignores.
* Inside a registry call: an unreadable directory of signable files, a panic of the blocking
  thread, a `gpg` that outlives a killed worker, the names of tags, and most arguments of
  the tools (Conan's `"*"` and `--clobber` are modelled for what they do).
* Documentation: publications of different releases; the targets are assumed to name the same
  place for the publications of one.
* Archives: symbolic and hard links in tar files, permissions, sizes.
* Redaction: secrets that contain a `*`; case and encodings. `KeyGoesWhole` is stated for
  occurrences of the key that do not overlap each other; `str::replace` splits the others.
* Credentials: the names serde derives for audit events; `MAVEN_USERNAME` is read (`main.rs:62`) but no code uses it; an empty variable counts
  as set, in the code and here; the letter case of names, which `from_str` ignores.
* Conan: an upload to several remotes, a cache that is cleaned.
* The memory of a `SecretToken` after its drop; `ExecutablePaths`, the two URLs of `AppConfig`,
  `ArchiveFormat`, `PgpKeyFingerprint` and the name types: data that decide at most whether a call
  fails, which may happen in the models anyway. `effective_repo_name`, `sign_detached_armor_sync`
  and the `ArtifactSigner` wrappers are called by no other code. The conversions of `error.rs`.
* Build, CI and container files.

## 8. Plan

Done, in this order: `EventStream` and `PublisherWorker`; `PublishLedger` and the refinement;
`ServiceCall`, `RegistryPublisher`, `DocsPublisher`; `WorkDir`; stale reads; `ToolPipes`; `Release`;
`ConanCache`; `Credentials`; `Redaction`; the proofs of all of them.

Next: a composition of `PublisherWorker` with the registries whose tools send nothing, so that the
finding on `Ok` without a publication reaches `AckedMeansDone`.
