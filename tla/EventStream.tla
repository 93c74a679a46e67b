---------------------------- MODULE EventStream ----------------------------
(***************************************************************************)
(* The Redis stream of publish jobs and its one consumer group, as the     *)
(* three operations of the EventQueue trait (worker.rs) use them.  Redis   *)
(* itself is external: the stream is durable, it survives the workers, and *)
(* only the commands sent by worker.rs change the group.                   *)
(*                                                                         *)
(* An entry is named by its position in the stream.                        *)
(***************************************************************************)
EXTENDS Naturals, Sequences

CONSTANTS
  MaxJobs   \* bound: how many entries producers append in a behaviour

ASSUME MaxJobsAssumption == MaxJobs \in Nat

VARIABLES
  stream,         \* what each entry carries, in the order of XADD
  groupExists,    \* XGROUP CREATE has taken effect
  lastDelivered,  \* the group's last-delivered-id
  groupStart,     \* history: the last-delivered-id the group was created with
  pending,        \* the group's pending entries list: delivered, not acknowledged
  staleReads      \* reads that wait at Redis although their client has gone

groupVars == <<stream, groupExists, lastDelivered, groupStart, pending>>
streamVars == <<groupVars, staleReads>>

Entries == 1 .. MaxJobs
NoEntry == 0

(***************************************************************************)
(* What an entry can carry.  "blank": no payload field, or an empty one.   *)
(* "garbled": bytes that are not a valid PublishJob.  "foreign": a job for *)
(* a registry name that Registry::from_str does not know.  "tokenless": a  *)
(* job for a registry without a configured token.  "documented": a job     *)
(* whose docs_job names a target that a request is made to.  "package": a  *)
(* job without such a docs_job.                                            *)
(***************************************************************************)
Payloads == {"blank", "garbled", "foreign", "tokenless", "package", "documented"}
Void == {"blank", "garbled"}                \* run_once acknowledges them unprocessed
Publishable == {"package", "documented"}    \* they reach the publisher

StreamTypeOK ==
  /\ stream \in Seq(Payloads)
  /\ Len(stream) <= MaxJobs
  /\ groupExists \in BOOLEAN
  /\ lastDelivered \in 0 .. Len(stream)
  /\ groupStart \in 0 .. lastDelivered
  /\ pending \subseteq Entries
  /\ staleReads \in Nat

StreamInit ==
  /\ stream = << >>
  /\ groupExists = FALSE
  /\ lastDelivered = 0
  /\ groupStart = 0
  /\ pending = {}
  /\ staleReads = 0

----------------------------------------------------------------------------

\* XADD by a producer, whether or not the group exists yet.
Enqueue(payload) ==
  /\ Len(stream) < MaxJobs
  /\ stream' = Append(stream, payload)
  /\ UNCHANGED <<groupExists, lastDelivered, groupStart, pending, staleReads>>

\* Mutant of CreateGroup: moves the group of an earlier start to the end too.
CreateGroupAnew ==
  /\ groupExists' = TRUE
  /\ lastDelivered' = Len(stream)
  /\ groupStart' = IF groupExists THEN groupStart ELSE Len(stream)
  /\ UNCHANGED <<stream, pending, staleReads>>

\* Mutant of CreateGroup: sets a group that exists back to the beginning of the
\* stream, to have its entries delivered again.
CreateGroupOver ==
  /\ groupExists' = TRUE
  /\ lastDelivered' = IF groupExists THEN 0 ELSE Len(stream)
  /\ groupStart' = IF groupExists THEN groupStart ELSE Len(stream)
  /\ UNCHANGED <<stream, pending, staleReads>>

\* XGROUP CREATE <stream> <group> $ MKSTREAM: the group starts after the
\* entries the stream already holds.  On an existing group the command
\* answers BUSYGROUP and changes nothing.
CreateGroup ==
  /\ IF groupExists
     THEN UNCHANGED <<groupExists, lastDelivered, groupStart>>
     ELSE /\ groupExists' = TRUE
          /\ lastDelivered' = Len(stream)
          /\ groupStart' = Len(stream)
  /\ UNCHANGED <<stream, pending, staleReads>>

HasUndelivered == groupExists /\ lastDelivered < Len(stream)

\* Mutant of Deliver: reads with id 0, so pending entries are read again.
DeliverPendingToo(e) ==
  /\ e \in pending \/ (HasUndelivered /\ e = lastDelivered + 1)
  /\ lastDelivered' = IF e > lastDelivered THEN e ELSE lastDelivered
  /\ pending' = pending \cup {e}
  /\ UNCHANGED <<stream, groupExists, groupStart>>

\* XREADGROUP ... COUNT 1 STREAMS <stream> >: e is the first entry that was
\* never delivered to the group; it becomes pending.
Deliver(e) ==
  /\ HasUndelivered
  /\ e = lastDelivered + 1
  /\ lastDelivered' = e
  /\ pending' = pending \cup {e}
  /\ UNCHANGED <<stream, groupExists, groupStart>>

\* XACK <stream> <group> <id>.
Acknowledge(e) ==
  /\ pending' = pending \ {e}
  /\ UNCHANGED <<stream, groupExists, lastDelivered, groupStart, staleReads>>

\* The client of a read goes away: Redis notices at once, or the read waits on.
LeaveRead ==
  /\ staleReads' \in {staleReads, staleReads + 1}
  /\ UNCHANGED groupVars

\* Redis serves such a read: the entry is delivered, and nobody has it.
DeliverToNobody(e) ==
  /\ staleReads > 0
  /\ staleReads' = staleReads - 1
  /\ Deliver(e)

\* It notices that the client has gone, or five seconds are over.
ReadExpires ==
  /\ staleReads > 0
  /\ staleReads' = staleReads - 1
  /\ UNCHANGED groupVars

=============================================================================
