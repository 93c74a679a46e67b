-------------------------- MODULE PublisherWorker --------------------------
(***************************************************************************)
(* The cdd-publisher worker (worker.rs, main.rs): processes that share one *)
(* consumer group, each reading one job at a time, publishing it through a *)
(* package manager CLI, optionally publishing its documentation, reporting *)
(* the outcome to the control plane and acknowledging the entry.           *)
(*                                                                         *)
(* An action is the code between two awaits of a worker, or the answer an  *)
(* external service gives.  Redis errors and crashes are faults, bounded   *)
(* by MaxFaults; everything that the worker turns into a failed job (a     *)
(* download, a CLI, a documentation host or the control plane answering    *)
(* with an error) may happen at any time, unboundedly.                     *)
(***************************************************************************)
EXTENDS EventStream, FiniteSets

CONSTANTS
  Workers,     \* the worker processes
  MaxFaults    \* bound: how many crashes and Redis errors a behaviour has

ASSUME WorkersAssumption == IsFiniteSet(Workers)
ASSUME MaxFaultsAssumption == MaxFaults \in Nat

VARIABLES
  pc,          \* where each worker is, see Places
  job,         \* the entry each worker holds in a local variable, or NoEntry
  outcome,     \* what process_job returned for each entry
  workDirs,    \* the entries whose temporary directory exists on disk
  package,     \* how far each entry's package got: see RegistryAccepts
  site,        \* how far the documentation of each entry got at its host
  attempts,    \* history: how many times an entry's publisher was started
  reports,     \* history: the audit POSTs sent for each entry, in order
  faults       \* how many faults there were

workerVars == <<pc, job, outcome, workDirs, package, site, attempts, reports, faults>>
vars == <<streamVars, workerVars>>

(***************************************************************************)
(* The places of a worker.  "down": the process does not run.  "idle": at  *)
(* the head of the loop of run_worker_with_queue.  "received": run_once    *)
(* got a message.  "fetching", "publishing", "documenting": process_job    *)
(* awaits the storage, the registry publisher, the documentation           *)
(* publisher.  "reporting": run_once is to send the audit event.           *)
(* "acking": it is to acknowledge.  "skipping": it is to return Ok without *)
(* acknowledging.                                                          *)
(***************************************************************************)
Places == {"down", "idle", "received", "fetching", "publishing",
           "documenting", "reporting", "acking", "skipping"}
Holding == Places \ {"down", "idle"}
External == {"fetching", "publishing", "documenting", "reporting"}
InProcessJob == {"fetching", "publishing", "documenting"}

Outcomes == {"none", "ok", "err"}
Progress == {"none", "started", "accepted"}
EventKinds == {"success", "failure"}
Report == [event : EventKinds, recorded : BOOLEAN]

TypeOK ==
  /\ StreamTypeOK
  /\ pc \in [Workers -> Places]
  /\ job \in [Workers -> Entries \cup {NoEntry}]
  /\ outcome \in [Entries -> Outcomes]
  /\ workDirs \subseteq Entries
  /\ package \in [Entries -> Progress]
  /\ site \in [Entries -> Progress]
  /\ attempts \in [Entries -> Nat]
  /\ reports \in [Entries -> Seq(Report)]
  /\ faults \in 0 .. MaxFaults

Init ==
  /\ StreamInit
  /\ pc = [w \in Workers |-> "down"]
  /\ job = [w \in Workers |-> NoEntry]
  /\ outcome = [e \in Entries |-> "none"]
  /\ workDirs = {}
  /\ package = [e \in Entries |-> "none"]
  /\ site = [e \in Entries |-> "none"]
  /\ attempts = [e \in Entries |-> 0]
  /\ reports = [e \in Entries |-> << >>]
  /\ faults = 0

Payload(w) == stream[job[w]]
Goto(w, place) == pc' = [pc EXCEPT ![w] = place]

\* The process ends, whatever it was doing, and its local variables with it.
Exit(w) ==
  /\ Goto(w, "down")
  /\ job' = [job EXCEPT ![w] = NoEntry]

Fault ==
  /\ faults < MaxFaults
  /\ faults' = faults + 1

----------------------------------------------------------------------------
(* The loop of run_worker_with_queue and the queue operations of run_once. *)

\* The control plane (or another producer) appends a job.
Produce(payload) ==
  /\ Enqueue(payload)
  /\ UNCHANGED workerVars

\* The process starts, connects and makes sure that the group exists.
Start(w) ==
  /\ pc[w] = "down"
  /\ CreateGroup
  /\ Goto(w, "idle")
  /\ UNCHANGED <<job, outcome, workDirs, package, site, attempts, reports, faults>>

\* Connecting or creating the group fails: the process exits.  The command
\* may have taken effect although its answer was lost.
StartFails(w) ==
  /\ pc[w] = "down"
  /\ CreateGroup \/ UNCHANGED streamVars
  /\ Fault
  /\ UNCHANGED <<pc, job, outcome, workDirs, package, site, attempts, reports>>

\* read_one returns an entry.
ReadMessage(w) ==
  /\ pc[w] = "idle"
  /\ \E e \in Entries :
       /\ Deliver(e)
       /\ job' = [job EXCEPT ![w] = e]
  /\ Goto(w, "received")
  /\ UNCHANGED <<staleReads, outcome, workDirs, package, site, attempts, reports, faults>>

\* read_one blocks for five seconds and returns None: run_once returns Ok.
ReadNothing(w) ==
  /\ pc[w] = "idle"
  /\ ~HasUndelivered
  /\ UNCHANGED vars

\* read_one returns an error, which ends the process: the connection broke,
\* the answer cannot be converted, or the client gave up before the five
\* seconds for which Redis blocks the read.  Redis may serve that read yet, at
\* once or later.
ReadFails(w) ==
  /\ pc[w] = "idle"
  /\ Fault
  /\ LeaveRead
  /\ Exit(w)
  /\ UNCHANGED <<outcome, workDirs, package, site, attempts, reports>>

\* acknowledge succeeds, and run_once with it.
Ack(w) ==
  /\ pc[w] = "acking"
  /\ Acknowledge(job[w])
  /\ Goto(w, "idle")
  /\ job' = [job EXCEPT ![w] = NoEntry]
  /\ UNCHANGED <<outcome, workDirs, package, site, attempts, reports, faults>>

\* acknowledge returns an error, which ends the process.  The entry may have
\* been acknowledged although the answer was lost.
AckFails(w) ==
  /\ pc[w] = "acking"
  /\ Fault
  /\ Acknowledge(job[w]) \/ UNCHANGED streamVars
  /\ Exit(w)
  /\ UNCHANGED <<outcome, workDirs, package, site, attempts, reports>>

\* Mutant of Skip: acknowledges the failed job.
SkipAndAck(w) ==
  /\ pc[w] = "skipping"
  /\ Acknowledge(job[w])
  /\ Goto(w, "idle")
  /\ job' = [job EXCEPT ![w] = NoEntry]
  /\ UNCHANGED <<outcome, workDirs, package, site, attempts, reports, faults>>

\* Mutant of Skip: handles the message again instead of going on.
SkipAndRetry(w) ==
  /\ pc[w] = "skipping"
  /\ Goto(w, "received")
  /\ UNCHANGED <<streamVars, job, outcome, workDirs, package, site, attempts, reports, faults>>

\* run_once logs the error of process_job and returns Ok: the entry stays
\* pending.
Skip(w) ==
  /\ pc[w] = "skipping"
  /\ Goto(w, "idle")
  /\ job' = [job EXCEPT ![w] = NoEntry]
  /\ UNCHANGED <<streamVars, outcome, workDirs, package, site, attempts, reports, faults>>

\* The process is killed.  Temporary directories stay on disk, and what was
\* sent to Redis, a registry, a documentation host or a child process stays
\* sent.
Crash(w) ==
  /\ pc[w] # "down"
  /\ Fault
  /\ IF pc[w] = "idle" THEN LeaveRead ELSE UNCHANGED streamVars
  /\ Exit(w)
  /\ UNCHANGED <<outcome, workDirs, package, site, attempts, reports>>

\* Redis serves a read whose client has gone, or gives it up.
StaleRead ==
  /\ (\E e \in Entries : DeliverToNobody(e)) \/ ReadExpires
  /\ UNCHANGED workerVars

----------------------------------------------------------------------------
(* What run_once does with a message, and the steps of process_job.        *)

\* Mutant of Return: the directory is kept when the job failed.
ReturnKeepingDir(w, result, place) ==
  /\ outcome' = [outcome EXCEPT ![job[w]] = result]
  /\ workDirs' = IF result = "ok" THEN workDirs \ {job[w]} ELSE workDirs
  /\ Goto(w, place)

\* process_job returns: its result is known and its TempDir is dropped.
Return(w, result, place) ==
  /\ outcome' = [outcome EXCEPT ![job[w]] = result]
  /\ workDirs' = workDirs \ {job[w]}
  /\ Goto(w, place)

\* Mutant of Discard: a message that is no job is left unacknowledged.
DiscardUnacked(w) ==
  /\ pc[w] = "received"
  /\ Payload(w) \in Void
  /\ Goto(w, "skipping")
  /\ UNCHANGED <<streamVars, job, outcome, workDirs, package, site, attempts, reports, faults>>

\* A message without a payload, or whose payload is no PublishJob.
Discard(w) ==
  /\ pc[w] = "received"
  /\ Payload(w) \in Void
  /\ Goto(w, "acking")
  /\ UNCHANGED <<streamVars, job, outcome, workDirs, package, site, attempts, reports, faults>>

\* parsed_registry fails, in process_job and again in run_once, which then
\* sends no audit event.
RejectRegistry(w) ==
  /\ pc[w] = "received"
  /\ Payload(w) = "foreign"
  /\ Return(w, "err", "skipping")
  /\ UNCHANGED <<streamVars, job, package, site, attempts, reports, faults>>

\* token_for fails.
RejectToken(w) ==
  /\ pc[w] = "received"
  /\ Payload(w) = "tokenless"
  /\ Return(w, "err", "reporting")
  /\ UNCHANGED <<streamVars, job, package, site, attempts, reports, faults>>

\* TempDir::new, then fetch_and_unpack is awaited; or TempDir::new fails.
OpenWorkDir(w) ==
  /\ pc[w] = "received"
  /\ Payload(w) \in Publishable
  /\ \/ /\ workDirs' = workDirs \cup {job[w]}
        /\ Goto(w, "fetching")
        /\ UNCHANGED outcome
     \/ Return(w, "err", "reporting")
  /\ UNCHANGED <<streamVars, job, package, site, attempts, reports, faults>>

\* fetch_and_unpack returned, and with resolve_working_dir and create_dir_all
\* it succeeded: the publisher is started.
StartPublisher(w) ==
  /\ pc[w] = "fetching"
  /\ attempts' = [attempts EXCEPT ![job[w]] = @ + 1]
  /\ package' = [package EXCEPT ![job[w]] = IF @ = "none" THEN "started" ELSE @]
  /\ Goto(w, "publishing")
  /\ UNCHANGED <<streamVars, job, outcome, workDirs, site, reports, faults>>

\* One of the three failed.
FetchFails(w) ==
  /\ pc[w] = "fetching"
  /\ Return(w, "err", "reporting")
  /\ UNCHANGED <<streamVars, job, package, site, attempts, reports, faults>>

\* The tools of a publisher that was started do all that they do, whatever the
\* worker does meanwhile and whatever the publisher will say: the registry has
\* the package then, if its tools send it at all (see RegistryPublisher).
RegistryAccepts(e) ==
  /\ package[e] = "started"
  /\ package' = [package EXCEPT ![e] = "accepted"]
  /\ UNCHANGED <<streamVars, pc, job, outcome, workDirs, site, attempts, reports, faults>>

\* Mutant of PublisherSucceeds: the documentation is started, not awaited.
DocsNotAwaited(w) ==
  /\ pc[w] = "publishing"
  /\ package[job[w]] = "accepted"
  /\ site' = IF Payload(w) = "documented" THEN [site EXCEPT ![job[w]] = "started"] ELSE site
  /\ Return(w, "ok", "reporting")
  /\ UNCHANGED <<streamVars, job, package, attempts, reports, faults>>

\* Mutant of PublisherSucceeds: the exit status of the tool is not looked at.
StatusIgnored(w) ==
  /\ pc[w] = "publishing"
  /\ Return(w, "ok", "reporting")
  /\ UNCHANGED <<streamVars, job, package, site, attempts, reports, faults>>

\* publish_with_options returns Ok: the job is done, or its documentation is
\* next.  The package is accepted then: ServiceCall, which RegistryPublisher
\* implements.
PublisherSucceeds(w) ==
  /\ pc[w] = "publishing"
  /\ package[job[w]] = "accepted"
  /\ IF Payload(w) = "documented"
     THEN /\ site' = [site EXCEPT ![job[w]] = IF @ = "none" THEN "started" ELSE @]
          /\ Goto(w, "documenting")
          /\ UNCHANGED <<outcome, workDirs>>
     ELSE Return(w, "ok", "reporting") /\ UNCHANGED site
  /\ UNCHANGED <<streamVars, job, package, attempts, reports, faults>>

\* Mutant of PublisherFails: the job is tried again.
PublisherFailsAndRetries(w) ==
  /\ pc[w] = "publishing"
  /\ Goto(w, "fetching")
  /\ UNCHANGED <<streamVars, job, outcome, workDirs, package, site, attempts, reports, faults>>

\* publish_with_options returns an error, before or after the registry took
\* the package.
PublisherFails(w) ==
  /\ pc[w] = "publishing"
  /\ Return(w, "err", "reporting")
  /\ UNCHANGED <<streamVars, job, package, site, attempts, reports, faults>>

\* The documentation host takes the documentation.
DocsHostAccepts(e) ==
  /\ site[e] = "started"
  /\ site' = [site EXCEPT ![e] = "accepted"]
  /\ UNCHANGED <<streamVars, pc, job, outcome, workDirs, package, attempts, reports, faults>>

\* publish_docs returns: ServiceCall again, which DocsPublisher implements for
\* the targets that a request is made to.
DocsReturn(w) ==
  /\ pc[w] = "documenting"
  /\ \/ site[job[w]] = "accepted" /\ Return(w, "ok", "reporting")
     \/ Return(w, "err", "reporting")
  /\ UNCHANGED <<streamVars, job, package, site, attempts, reports, faults>>

EventFor(w) == IF outcome[job[w]] = "ok" THEN "success" ELSE "failure"

\* report_audit: one POST; whether the control plane records it or not, and
\* whatever it answers, run_once goes on with the result of process_job.
ReportAudit(w) ==
  /\ pc[w] = "reporting"
  /\ \E recorded \in BOOLEAN :
       reports' = [reports EXCEPT ![job[w]] =
                     Append(@, [event |-> EventFor(w), recorded |-> recorded])]
  /\ Goto(w, IF outcome[job[w]] = "ok" THEN "acking" ELSE "skipping")
  /\ UNCHANGED <<streamVars, job, outcome, workDirs, package, site, attempts, faults>>

----------------------------------------------------------------------------

\* What a worker does of itself, once the services it calls have answered.
Work(w) ==
  \/ ReadMessage(w) \/ ReadNothing(w) \/ Ack(w) \/ Skip(w)
  \/ Discard(w) \/ RejectRegistry(w) \/ RejectToken(w) \/ OpenWorkDir(w)
  \/ StartPublisher(w) \/ FetchFails(w)
  \/ PublisherSucceeds(w) \/ PublisherFails(w)
  \/ DocsReturn(w) \/ ReportAudit(w)

Fails(w) == StartFails(w) \/ ReadFails(w) \/ AckFails(w) \/ Crash(w)

Services ==
  \/ \E payload \in Payloads : Produce(payload)
  \/ StaleRead
  \/ \E e \in Entries : RegistryAccepts(e) \/ DocsHostAccepts(e)

Next == Services \/ \E w \in Workers : Start(w) \/ Work(w) \/ Fails(w)

Spec == Init /\ [][Next]_vars

\* A worker goes on while it waits for no service but Redis, and Redis answers
\* (that it may instead fail is StartFails, ReadFails and AckFails).  Nothing
\* is assumed of the other services: no call to them has a timeout.  Nothing
\* is assumed of whoever restarts a worker.
OwnStep(w) ==
  \/ ReadMessage(w) \/ Ack(w) \/ Skip(w)
  \/ Discard(w) \/ RejectRegistry(w) \/ RejectToken(w) \/ OpenWorkDir(w)

FairSpec == Spec /\ \A w \in Workers : WF_vars(OwnStep(w))

----------------------------------------------------------------------------
(* Properties.                                                             *)

Held(e) == \E w \in Workers : job[w] = e
Delivered(e) == groupStart < e /\ e <= lastDelivered
Acked(e) == Delivered(e) /\ e \notin pending
Abandoned(e) == e \in pending /\ ~Held(e)
Complete(e) ==
  /\ package[e] = "accepted"
  /\ stream[e] = "documented" => site[e] = "accepted"

\* No two workers of the group hold the same entry, although they share the
\* group (and, with StreamConfig::default, even the consumer name).
OneHolder ==
  \A v, w \in Workers : v # w /\ job[v] = job[w] => job[v] = NoEntry

\* The publisher of an entry is started at most once, over all workers,
\* crashes and restarts: a failed or interrupted publication is never
\* repeated, so a registry never sees a job twice.
PublishAtMostOnce == \A e \in Entries : attempts[e] <= 1

\* An entry that carries a job is acknowledged only when its package was
\* accepted (as far as the tools of its registry take it), its documentation
\* is at the host, and exactly one audit event, saying so, was sent; a job
\* that failed is never acknowledged.
DoneIfAcked(e) ==
  Acked(e) /\ stream[e] \notin Void =>
    Complete(e) /\ Len(reports[e]) = 1 /\ reports[e][1].event = "success"
AckedMeansDone == \A e \in Entries : DoneIfAcked(e)

\* What the control plane is told of an entry: at most one event; "success"
\* only of a job whose package and documentation are out, "failure" only of
\* one that stays pending.
TruthfullyAudited(e) ==
  /\ Len(reports[e]) <= 1
  /\ \A i \in DOMAIN reports[e] :
       IF reports[e][i].event = "success" THEN Complete(e) ELSE e \in pending
AuditTruthful == \A e \in Entries : TruthfullyAudited(e)

\* An entry that was delivered, and that no worker holds any more without
\* having failed, was lost to a fault, and each fault loses one at most.
EachFaultLosesOneJob ==
  Cardinality({e \in Entries : Abandoned(e) /\ outcome[e] # "err"}) <= faults

\* A temporary directory outlives its job only after a crash: process_job
\* drops it on every path, before the audit event is sent.
WorkDirsRemoved ==
  Cardinality({e \in workDirs :
                 ~ \E w \in Workers : job[w] = e /\ pc[w] \in InProcessJob}) <= faults

\* An entry that was abandoned stays pending and unowned for ever: no later
\* read returns it, whichever worker reads.
AbandonedForGood == [][\A e \in Entries : Abandoned(e) => Abandoned(e)']_vars

\* The inductive invariant behind the properties above: what is known of an
\* entry before it is delivered, at each place of its holder, and ever after.
Untouched(e) ==
  /\ attempts[e] = 0 /\ outcome[e] = "none" /\ reports[e] = << >>
  /\ package[e] = "none" /\ site[e] = "none"

GroupInv ==
  /\ ~groupExists => lastDelivered = 0
  /\ \A e \in pending : Delivered(e)

HoldsWhatItHandles ==
  \A w \in Workers : job[w] = NoEntry <=> pc[w] \in {"down", "idle"}

HoldersInv == \A w \in Workers : job[w] # NoEntry => job[w] \in pending

EntryInv(e) ==
  /\ ~Delivered(e) => Untouched(e)
  /\ attempts[e] <= 1
  /\ attempts[e] = 0 => package[e] = "none"
  /\ attempts[e] = 1 => stream[e] \in Publishable
  /\ DoneIfAcked(e) /\ TruthfullyAudited(e)

PlaceInv(w, e) ==
  /\ pc[w] \in {"received", "fetching"} => Untouched(e)
  /\ pc[w] \in InProcessJob =>
       stream[e] \in Publishable /\ outcome[e] = "none" /\ reports[e] = << >>
  /\ pc[w] = "documenting" => package[e] = "accepted"
  /\ pc[w] = "reporting" => stream[e] \notin Void /\ reports[e] = << >>
  /\ pc[w] = "reporting" /\ outcome[e] = "ok" => Complete(e)
  /\ pc[w] = "acking" =>
       \/ stream[e] \in Void /\ reports[e] = << >>
       \/ Complete(e) /\ Len(reports[e]) = 1 /\ reports[e][1].event = "success"

IndInv ==
  /\ GroupInv /\ HoldsWhatItHandles /\ HoldersInv /\ OneHolder
  /\ \A e \in Entries : EntryInv(e)
  /\ \A w \in Workers, e \in Entries : job[w] = e => PlaceInv(w, e)

\* ARCHITECTURE.md: "On completion or failure, an event (AuditPayload) is
\* emitted back": once a worker is done with a job, an audit event was sent.
OutcomeReported ==
  \A e \in Entries : outcome[e] # "none" /\ ~Held(e) => reports[e] # << >>

\* As long as one worker keeps running and gets its answers, every entry
\* queued for the group is delivered, even if all others hang or are down.
QueuedIsDelivered ==
  (\E w \in Workers : []<>(pc[w] \notin External \cup {"down"}))
    => \A e \in Entries :
         (groupExists /\ groupStart < e /\ e <= Len(stream)) ~> (e <= lastDelivered)

\* A worker whose calls are answered is done with every entry it takes: the
\* entry ends up acknowledged or abandoned.
TakenIsSettled ==
  (\A w \in Workers : []<>(pc[w] \notin External))
    => \A e \in Entries : Delivered(e) ~> ~Held(e)

=============================================================================
