-------------------------- MODULE PublisherLedger --------------------------
(***************************************************************************)
(* PublisherWorker implements PublishLedger: the ledger is read off the    *)
(* stream, the group and the workers.                                      *)
(***************************************************************************)
EXTENDS PublisherWorker

\* An entry is missed when the group starts, or will start, after it.
Missed(e) == e <= (IF groupExists THEN groupStart ELSE Len(stream))

PhaseOf(e) ==
  CASE e > Len(stream) -> "absent"
    [] e <= Len(stream) /\ Missed(e) -> "missed"
    [] e <= Len(stream) /\ ~Missed(e) /\ e > lastDelivered -> "queued"
    [] Delivered(e) /\ e \notin pending -> "closed"
    [] Delivered(e) /\ e \in pending /\ Held(e) -> "taken"
    [] OTHER -> "abandoned"

PhaseMap == [e \in Entries |-> PhaseOf(e)]
OutAtRegistry == {e \in Entries : package[e] = "accepted"}
VoidEntries == {e \in Entries : e <= Len(stream) /\ stream[e] \in Void}
Told(e) == [i \in 1 .. Len(reports[e]) |-> reports[e][i].event]
ToldMap == [e \in Entries |-> Told(e)]

Ledger == INSTANCE PublishLedger WITH
  Jobs <- Entries, phase <- PhaseMap, releases <- attempts,
  released <- OutAtRegistry, void <- VoidEntries, told <- ToldMap

\* Whatever the workers, the registries and the faults do, every job goes
\* through the phases of the ledger, in their order.
LedgerSpec == Ledger!Spec

=============================================================================
