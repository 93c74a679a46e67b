--------------------------- MODULE PublisherProofs --------------------------
(***************************************************************************)
(* Theorems about the workers, for every set of workers and any number of  *)
(* jobs and faults, in four parts: the types of PublisherWorker; its       *)
(* inductive invariant and the safety that follows; that it implements     *)
(* PublishLedger; and what several jobs for one release, composed with a   *)
(* registry in Release, can do to each other.                              *)
(***************************************************************************)
EXTENDS PublisherLedger, Release, FiniteSetTheorems, TLAPS

-----------------------------------------------------------------------------
(***************************************************************************)
(* Part 1.  Types.                                                         *)
(***************************************************************************)

\* Each command keeps the types of the stream.
LEMMA StreamTypeNext ==
  ASSUME StreamTypeOK,
         \/ \E payload \in Payloads : Enqueue(payload)
         \/ CreateGroup
         \/ \E e \in Entries : Deliver(e) /\ UNCHANGED staleReads
         \/ \E e \in Entries : DeliverToNobody(e)
         \/ \E e \in Entries \cup {NoEntry} : Acknowledge(e)
         \/ LeaveRead
         \/ ReadExpires
         \/ UNCHANGED streamVars
  PROVE  StreamTypeOK'
<1> USE MaxJobsAssumption DEF StreamTypeOK, Entries
<1>1. ASSUME NEW payload \in Payloads, Enqueue(payload) PROVE StreamTypeOK'
  BY <1>1 DEF Enqueue
<1>2. CASE CreateGroup
  <2>1. CASE groupExists
    BY <1>2, <2>1 DEF CreateGroup
  <2>2. CASE ~groupExists
    BY <1>2, <2>2 DEF CreateGroup
  <2> QED
    BY <2>1, <2>2
<1>3. ASSUME NEW e \in Entries, Deliver(e), staleReads' \in Nat PROVE StreamTypeOK'
  BY <1>3 DEF Deliver, HasUndelivered
<1>4. ASSUME NEW e \in Entries, DeliverToNobody(e) PROVE StreamTypeOK'
  BY <1>3, <1>4 DEF DeliverToNobody
<1>5. CASE LeaveRead
  BY <1>5 DEF LeaveRead, groupVars
<1>6. CASE ReadExpires
  BY <1>6 DEF ReadExpires, groupVars
<1>7. ASSUME NEW e \in Entries \cup {NoEntry}, Acknowledge(e) PROVE StreamTypeOK'
  BY <1>7 DEF Acknowledge
<1>8. CASE UNCHANGED streamVars
  BY <1>8 DEF streamVars, groupVars
<1> QED
  BY <1>1, <1>2, <1>3, <1>4, <1>5, <1>6, <1>7, <1>8

\* The types of the variables of the workers.
WorkerTypeOK ==
  /\ pc \in [Workers -> Places]
  /\ job \in [Workers -> Entries \cup {NoEntry}]
  /\ outcome \in [Entries -> Outcomes]
  /\ workDirs \subseteq Entries
  /\ package \in [Entries -> Progress]
  /\ site \in [Entries -> Progress]
  /\ attempts \in [Entries -> Nat]
  /\ reports \in [Entries -> Seq(Report)]
  /\ faults \in 0 .. MaxFaults

\* The type invariant is that of the stream and that of the workers.
LEMMA TypeParts == TypeOK <=> StreamTypeOK /\ WorkerTypeOK
BY DEF TypeOK, WorkerTypeOK

\* That a worker holds an entry exactly while it handles a message makes the
\* entry of a temporary directory an entry.
LEMMA TypeInit == Init => TypeOK /\ HoldsWhatItHandles
<1> SUFFICES ASSUME Init PROVE TypeOK /\ HoldsWhatItHandles
  OBVIOUS
<1>1. StreamTypeOK
  <2>1. stream \in Seq(Payloads) /\ Len(stream) = 0 /\ staleReads \in Nat
    BY DEF Init, StreamInit
  <2>2. /\ lastDelivered = 0 /\ groupStart = 0
        /\ groupExists \in BOOLEAN /\ pending \subseteq Entries
    BY DEF Init, StreamInit
  <2> QED
    BY <2>1, <2>2, MaxJobsAssumption DEF StreamTypeOK
<1>2. << >> \in Seq(Report)
  OBVIOUS
<1>3. WorkerTypeOK
  BY <1>2, MaxFaultsAssumption DEF Init, WorkerTypeOK, NoEntry, Places, Outcomes, Progress
<1>4. HoldsWhatItHandles
  BY DEF Init, HoldsWhatItHandles
<1> QED
  BY <1>1, <1>3, <1>4, TypeParts

\* Every step keeps the types.
LEMMA TypeNext ==
  TypeOK /\ HoldsWhatItHandles /\ [Next]_vars => TypeOK' /\ HoldsWhatItHandles'
<1> DEFINE Goal == StreamTypeOK' /\ WorkerTypeOK' /\ HoldsWhatItHandles'
<1> SUFFICES ASSUME TypeOK, HoldsWhatItHandles, [Next]_vars PROVE Goal
  BY DEF TypeOK, WorkerTypeOK
<1>0. StreamTypeOK /\ WorkerTypeOK /\ HoldsWhatItHandles
  BY TypeParts
<1>j. \A w \in Workers : /\ job[w] \in Entries \cup {NoEntry}
                         /\ pc[w] \notin {"down", "idle"} => job[w] \in Entries
  BY <1>0 DEF WorkerTypeOK, HoldsWhatItHandles
<1> USE MaxFaultsAssumption
<1>1. ASSUME NEW payload \in Payloads, Produce(payload) PROVE Goal
  <2>1. StreamTypeOK'
    BY <1>0, <1>1, StreamTypeNext DEF Produce
  <2>2. WorkerTypeOK'
    BY <1>0, <1>1 DEF WorkerTypeOK, Places, Outcomes, Progress, NoEntry,
         Produce, workerVars
  <2>3. HoldsWhatItHandles'
    BY <1>0, <1>1 DEF WorkerTypeOK, HoldsWhatItHandles, Entries, NoEntry,
         Produce, workerVars
  <2> QED
    BY <2>1, <2>2, <2>3
<1>2. ASSUME NEW e \in Entries, RegistryAccepts(e) PROVE Goal
  <2>1. StreamTypeOK'
    BY <1>0, <1>2, StreamTypeNext DEF RegistryAccepts
  <2>2. WorkerTypeOK'
    BY <1>0, <1>2 DEF WorkerTypeOK, Places, Outcomes, Progress, NoEntry,
         RegistryAccepts
  <2>3. HoldsWhatItHandles'
    BY <1>0, <1>2 DEF WorkerTypeOK, HoldsWhatItHandles, Entries, NoEntry,
         RegistryAccepts
  <2> QED
    BY <2>1, <2>2, <2>3
<1>3. ASSUME NEW e \in Entries, DocsHostAccepts(e) PROVE Goal
  <2>1. StreamTypeOK'
    BY <1>0, <1>3, StreamTypeNext DEF DocsHostAccepts
  <2>2. WorkerTypeOK'
    BY <1>0, <1>3 DEF WorkerTypeOK, Places, Outcomes, Progress, NoEntry,
         DocsHostAccepts
  <2>3. HoldsWhatItHandles'
    BY <1>0, <1>3 DEF WorkerTypeOK, HoldsWhatItHandles, Entries, NoEntry,
         DocsHostAccepts
  <2> QED
    BY <2>1, <2>2, <2>3
<1>4. ASSUME NEW w \in Workers, Start(w) PROVE Goal
  <2>1. StreamTypeOK'
    BY <1>0, <1>4, StreamTypeNext DEF Start
  <2>2. WorkerTypeOK'
    BY <1>0, <1>4 DEF WorkerTypeOK, Places, Outcomes, Progress, NoEntry,
         Start, Goto
  <2>3. HoldsWhatItHandles'
    BY <1>0, <1>4 DEF WorkerTypeOK, HoldsWhatItHandles, Entries, NoEntry,
         Start, Goto
  <2> QED
    BY <2>1, <2>2, <2>3
<1>5. ASSUME NEW w \in Workers, StartFails(w) PROVE Goal
  <2>1. StreamTypeOK'
    BY <1>0, <1>5, StreamTypeNext DEF StartFails
  <2>2. WorkerTypeOK'
    BY <1>0, <1>5 DEF WorkerTypeOK, Places, Outcomes, Progress, NoEntry,
         StartFails, Fault
  <2>3. HoldsWhatItHandles'
    BY <1>0, <1>5 DEF WorkerTypeOK, HoldsWhatItHandles, Entries, NoEntry,
         StartFails, Fault
  <2> QED
    BY <2>1, <2>2, <2>3
<1>6. ASSUME NEW w \in Workers, ReadMessage(w) PROVE Goal
  <2>1. StreamTypeOK'
    BY <1>0, <1>6, StreamTypeNext DEF ReadMessage
  <2>2. WorkerTypeOK'
    BY <1>0, <1>6 DEF WorkerTypeOK, Places, Outcomes, Progress, NoEntry,
         ReadMessage, Goto
  <2>3. HoldsWhatItHandles'
    BY <1>0, <1>6 DEF WorkerTypeOK, HoldsWhatItHandles, Entries, NoEntry,
         ReadMessage, Goto
  <2> QED
    BY <2>1, <2>2, <2>3
<1>7. ASSUME NEW w \in Workers, ReadFails(w) PROVE Goal
  <2>1. StreamTypeOK'
    BY <1>0, <1>7, StreamTypeNext DEF ReadFails
  <2>2. WorkerTypeOK'
    BY <1>0, <1>7 DEF WorkerTypeOK, Places, Outcomes, Progress, NoEntry,
         ReadFails, Fault, Exit, Goto
  <2>3. HoldsWhatItHandles'
    BY <1>0, <1>7 DEF WorkerTypeOK, HoldsWhatItHandles, Entries, NoEntry,
         ReadFails, Fault, Exit, Goto
  <2> QED
    BY <2>1, <2>2, <2>3
<1>8. ASSUME NEW w \in Workers, Ack(w) PROVE Goal
  <2>1. StreamTypeOK'
    BY <1>0, <1>8, <1>j, StreamTypeNext DEF Ack
  <2>2. WorkerTypeOK'
    BY <1>0, <1>8 DEF WorkerTypeOK, Places, Outcomes, Progress, NoEntry,
         Ack, Goto
  <2>3. HoldsWhatItHandles'
    BY <1>0, <1>8 DEF WorkerTypeOK, HoldsWhatItHandles, Entries, NoEntry,
         Ack, Goto
  <2> QED
    BY <2>1, <2>2, <2>3
<1>9. ASSUME NEW w \in Workers, AckFails(w) PROVE Goal
  <2>1. StreamTypeOK'
    BY <1>0, <1>9, <1>j, StreamTypeNext DEF AckFails
  <2>2. WorkerTypeOK'
    BY <1>0, <1>9 DEF WorkerTypeOK, Places, Outcomes, Progress, NoEntry,
         AckFails, Fault, Exit, Goto
  <2>3. HoldsWhatItHandles'
    BY <1>0, <1>9 DEF WorkerTypeOK, HoldsWhatItHandles, Entries, NoEntry,
         AckFails, Fault, Exit, Goto
  <2> QED
    BY <2>1, <2>2, <2>3
<1>10. ASSUME NEW w \in Workers, Skip(w) PROVE Goal
  <2>1. StreamTypeOK'
    BY <1>0, <1>10, StreamTypeNext DEF Skip
  <2>2. WorkerTypeOK'
    BY <1>0, <1>10 DEF WorkerTypeOK, Places, Outcomes, Progress, NoEntry,
         Skip, Goto
  <2>3. HoldsWhatItHandles'
    BY <1>0, <1>10 DEF WorkerTypeOK, HoldsWhatItHandles, Entries, NoEntry,
         Skip, Goto
  <2> QED
    BY <2>1, <2>2, <2>3
<1>11. ASSUME NEW w \in Workers, Crash(w) PROVE Goal
  <2>1. StreamTypeOK'
    BY <1>0, <1>11, StreamTypeNext DEF Crash
  <2>2. WorkerTypeOK'
    BY <1>0, <1>11 DEF WorkerTypeOK, Places, Outcomes, Progress, NoEntry,
         Crash, Fault, Exit, Goto
  <2>3. HoldsWhatItHandles'
    BY <1>0, <1>11 DEF WorkerTypeOK, HoldsWhatItHandles, Entries, NoEntry,
         Crash, Fault, Exit, Goto
  <2> QED
    BY <2>1, <2>2, <2>3
<1>12. ASSUME NEW w \in Workers, Discard(w) PROVE Goal
  <2>1. StreamTypeOK'
    BY <1>0, <1>12, StreamTypeNext DEF Discard
  <2>2. WorkerTypeOK'
    BY <1>0, <1>12 DEF WorkerTypeOK, Places, Outcomes, Progress, NoEntry,
         Discard, Goto
  <2>3. HoldsWhatItHandles'
    BY <1>0, <1>12 DEF WorkerTypeOK, HoldsWhatItHandles, Entries, NoEntry,
         Discard, Goto
  <2> QED
    BY <2>1, <2>2, <2>3
<1>13. ASSUME NEW w \in Workers, RejectRegistry(w) PROVE Goal
  <2>1. StreamTypeOK'
    BY <1>0, <1>13, StreamTypeNext DEF RejectRegistry
  <2>2. WorkerTypeOK'
    BY <1>0, <1>13 DEF WorkerTypeOK, Places, Outcomes, Progress, NoEntry,
         RejectRegistry, Return, Goto
  <2>3. HoldsWhatItHandles'
    BY <1>0, <1>13 DEF WorkerTypeOK, HoldsWhatItHandles, Entries, NoEntry,
         RejectRegistry, Return, Goto
  <2> QED
    BY <2>1, <2>2, <2>3
<1>14. ASSUME NEW w \in Workers, RejectToken(w) PROVE Goal
  <2>1. StreamTypeOK'
    BY <1>0, <1>14, StreamTypeNext DEF RejectToken
  <2>2. WorkerTypeOK'
    BY <1>0, <1>14 DEF WorkerTypeOK, Places, Outcomes, Progress, NoEntry,
         RejectToken, Return, Goto
  <2>3. HoldsWhatItHandles'
    BY <1>0, <1>14 DEF WorkerTypeOK, HoldsWhatItHandles, Entries, NoEntry,
         RejectToken, Return, Goto
  <2> QED
    BY <2>1, <2>2, <2>3
<1>15. ASSUME NEW w \in Workers, OpenWorkDir(w) PROVE Goal
  <2>1. StreamTypeOK'
    BY <1>0, <1>15, StreamTypeNext DEF OpenWorkDir
  <2>2. WorkerTypeOK'
    BY <1>0, <1>15, <1>j DEF WorkerTypeOK, Places, Outcomes, Progress, NoEntry,
         OpenWorkDir, Return, Goto
  <2>3. HoldsWhatItHandles'
    BY <1>0, <1>15 DEF WorkerTypeOK, HoldsWhatItHandles, Entries, NoEntry,
         OpenWorkDir, Return, Goto
  <2> QED
    BY <2>1, <2>2, <2>3
<1>16. ASSUME NEW w \in Workers, StartPublisher(w) PROVE Goal
  <2>1. StreamTypeOK'
    BY <1>0, <1>16, StreamTypeNext DEF StartPublisher
  <2>2. WorkerTypeOK'
    <3>1. attempts' \in [Entries -> Nat]
      <4>1. /\ attempts \in [Entries -> Nat]
            /\ attempts' = [attempts EXCEPT ![job[w]] = @ + 1]
            /\ pc[w] = "fetching"
        BY <1>0, <1>16 DEF WorkerTypeOK, StartPublisher
      <4>2. job[w] \in Entries
        BY <4>1, <1>j
      <4>3. attempts[job[w]] \in Nat
        BY <4>1, <4>2
      <4>4. attempts[job[w]] + 1 \in Nat
        BY <4>3
      <4> QED
        BY <4>1, <4>2, <4>4
    <3>2. package' \in [Entries -> Progress]
      BY <1>0, <1>16, <1>j DEF WorkerTypeOK, Progress, StartPublisher
    <3> QED
      BY <1>0, <1>16, <3>1, <3>2 DEF WorkerTypeOK, Places, StartPublisher, Goto
  <2>3. HoldsWhatItHandles'
    BY <1>0, <1>16 DEF WorkerTypeOK, HoldsWhatItHandles, Entries, NoEntry,
         StartPublisher, Goto
  <2> QED
    BY <2>1, <2>2, <2>3
<1>17. ASSUME NEW w \in Workers, FetchFails(w) PROVE Goal
  <2>1. StreamTypeOK'
    BY <1>0, <1>17, StreamTypeNext DEF FetchFails
  <2>2. WorkerTypeOK'
    BY <1>0, <1>17 DEF WorkerTypeOK, Places, Outcomes, Progress, NoEntry,
         FetchFails, Return, Goto
  <2>3. HoldsWhatItHandles'
    BY <1>0, <1>17 DEF WorkerTypeOK, HoldsWhatItHandles, Entries, NoEntry,
         FetchFails, Return, Goto
  <2> QED
    BY <2>1, <2>2, <2>3
<1>18. ASSUME NEW w \in Workers, PublisherSucceeds(w) PROVE Goal
  <2>1. StreamTypeOK'
    BY <1>0, <1>18, StreamTypeNext DEF PublisherSucceeds
  <2>2. WorkerTypeOK'
    <3>1. CASE Payload(w) = "documented"
      BY <1>0, <1>18, <3>1 DEF WorkerTypeOK, Places, Progress, PublisherSucceeds, Goto
    <3>2. CASE Payload(w) # "documented"
      BY <1>0, <1>18, <3>2 DEF WorkerTypeOK, Places, Outcomes, PublisherSucceeds, Return, Goto
    <3> QED
      BY <3>1, <3>2
  <2>3. HoldsWhatItHandles'
    BY <1>0, <1>18 DEF WorkerTypeOK, HoldsWhatItHandles, Entries, NoEntry,
         PublisherSucceeds, Return, Goto
  <2> QED
    BY <2>1, <2>2, <2>3
<1>19. ASSUME NEW w \in Workers, PublisherFails(w) PROVE Goal
  <2>1. StreamTypeOK'
    BY <1>0, <1>19, StreamTypeNext DEF PublisherFails
  <2>2. WorkerTypeOK'
    BY <1>0, <1>19 DEF WorkerTypeOK, Places, Outcomes, Progress, NoEntry,
         PublisherFails, Return, Goto
  <2>3. HoldsWhatItHandles'
    BY <1>0, <1>19 DEF WorkerTypeOK, HoldsWhatItHandles, Entries, NoEntry,
         PublisherFails, Return, Goto
  <2> QED
    BY <2>1, <2>2, <2>3
<1>20. ASSUME NEW w \in Workers, DocsReturn(w) PROVE Goal
  <2>1. StreamTypeOK'
    BY <1>0, <1>20, StreamTypeNext DEF DocsReturn
  <2>2. WorkerTypeOK'
    BY <1>0, <1>20 DEF WorkerTypeOK, Places, Outcomes, Progress, NoEntry,
         DocsReturn, Return, Goto
  <2>3. HoldsWhatItHandles'
    BY <1>0, <1>20 DEF WorkerTypeOK, HoldsWhatItHandles, Entries, NoEntry,
         DocsReturn, Return, Goto
  <2> QED
    BY <2>1, <2>2, <2>3
<1>21. ASSUME NEW w \in Workers, ReportAudit(w) PROVE Goal
  <2>1. StreamTypeOK'
    BY <1>0, <1>21, StreamTypeNext DEF ReportAudit
  <2>2. PICK recorded \in BOOLEAN :
          reports' = [reports EXCEPT ![job[w]] =
                        Append(@, [event |-> EventFor(w), recorded |-> recorded])]
    BY <1>21 DEF ReportAudit
  <2>3. [event |-> EventFor(w), recorded |-> recorded] \in Report
    BY DEF Report, EventFor, EventKinds
  <2>4. reports' \in [Entries -> Seq(Report)]
    <3>1. \A e \in Entries :
            Append(reports[e], [event |-> EventFor(w), recorded |-> recorded]) \in Seq(Report)
      BY <1>0, <2>3 DEF WorkerTypeOK
    <3> QED
      BY <1>0, <2>2, <3>1 DEF WorkerTypeOK
  <2>5. WorkerTypeOK'
    BY <1>0, <1>21, <2>4 DEF WorkerTypeOK, Places, ReportAudit, Goto
  <2>6. HoldsWhatItHandles'
    BY <1>0, <1>21 DEF WorkerTypeOK, HoldsWhatItHandles, ReportAudit, Goto
  <2> QED
    BY <2>1, <2>5, <2>6
<1>22. CASE StaleRead
  <2>1. StreamTypeOK'
    BY <1>0, <1>22, StreamTypeNext DEF StaleRead
  <2> QED
    BY <1>0, <1>22, <2>1 DEF StaleRead, workerVars, WorkerTypeOK, HoldsWhatItHandles
<1>23. CASE UNCHANGED vars
  <2>1. StreamTypeOK'
    BY <1>0, <1>23, StreamTypeNext DEF vars
  <2> QED
    BY <1>0, <1>23, <2>1 DEF vars, workerVars, WorkerTypeOK, HoldsWhatItHandles
<1> QED
  BY <1>1, <1>2, <1>3, <1>4, <1>5, <1>6, <1>7, <1>8, <1>9, <1>10, <1>11, <1>12, <1>13, <1>14, <1>15, <1>16, <1>17, <1>18, <1>19, <1>20, <1>21, <1>22, <1>23
  DEF Next, Services, Work, Fails, ReadNothing

\* Every variable keeps its type: in particular the group's last delivered
\* entry never passes the end of the stream, whatever fails.
THEOREM TypeCorrect == Spec => []TypeOK
<1>1. Init => TypeOK /\ HoldsWhatItHandles
  BY TypeInit
<1>2. TypeOK /\ HoldsWhatItHandles /\ [Next]_vars => TypeOK' /\ HoldsWhatItHandles'
  BY TypeNext
<1> QED
  BY <1>1, <1>2, PTL DEF Spec

-----------------------------------------------------------------------------
(***************************************************************************)
(* Part 2.  The inductive invariant of PublisherWorker and what follows    *)
(* from it.                                                                *)
(***************************************************************************)

(***************************************************************************)
(* Frames.  Everything that EntryInv(e) says depends on the data of e, on  *)
(* what e carries and on whether e was delivered and is pending.           *)
(***************************************************************************)
EntryData(e) == <<attempts[e], outcome[e], reports[e], package[e], site[e]>>

\* A delivered entry is in the stream.
LEMMA DeliveredInStream ==
  ASSUME TypeOK, NEW e \in Entries, Delivered(e)
  PROVE  e \in 1 .. Len(stream)
BY MaxJobsAssumption DEF TypeOK, StreamTypeOK, Entries, Delivered

\* What is known of an entry survives a step that does not concern it.
LEMMA EntryFrame ==
  ASSUME NEW e \in Entries, EntryInv(e), UNCHANGED EntryData(e),
         Delivered(e)' <=> Delivered(e),
         Delivered(e) => UNCHANGED stream[e] /\ (e \in pending' <=> e \in pending)
  PROVE  EntryInv(e)'
<1>1. CASE Delivered(e)
  BY <1>1 DEF EntryInv, EntryData, Untouched, DoneIfAcked, TruthfullyAudited, Acked, Complete
<1>2. CASE ~Delivered(e)
  <2>1. Untouched(e)'
    BY <1>2 DEF EntryInv, EntryData, Untouched
  <2>2. TruthfullyAudited(e)'
    BY <2>1 DEF Untouched, TruthfullyAudited
  <2> QED
    BY <1>2, <2>1, <2>2 DEF EntryInv, Untouched, DoneIfAcked, Acked
<1> QED
  BY <1>1, <1>2

\* And so does what is known of it at the place of its holder.
LEMMA PlaceFrame ==
  ASSUME NEW w \in Workers, NEW e \in Entries, PlaceInv(w, e),
         UNCHANGED <<pc[w], stream[e], EntryData(e)>>
  PROVE  PlaceInv(w, e)'
BY DEF PlaceInv, EntryData, Untouched, Complete

\* The worker that holds e moves on and may change the data of e, nothing else.
LEMMA StepOnHeldEntry ==
  ASSUME TypeOK, IndInv, HoldsWhatItHandles',
         NEW w \in Workers, NEW e \in Entries, job[w] = e,
         UNCHANGED <<streamVars, job>>,
         \A v \in Workers : v # w => UNCHANGED pc[v],
         \A d \in Entries : d # e => UNCHANGED EntryData(d),
         EntryInv(e)', PlaceInv(w, e)'
  PROVE  IndInv'
<1>1. GroupInv' /\ HoldersInv' /\ OneHolder'
  BY DEF IndInv, GroupInv, HoldersInv, OneHolder, Delivered, streamVars, groupVars
<1>2. ASSUME NEW d \in Entries PROVE EntryInv(d)'
  <2>1. CASE d = e
    BY <2>1
  <2>2. CASE d # e
    BY <2>2, EntryFrame DEF IndInv, Delivered, streamVars, groupVars
  <2> QED
    BY <2>1, <2>2
<1>3. ASSUME NEW v \in Workers, NEW d \in Entries, job'[v] = d PROVE PlaceInv(v, d)'
  <2>1. CASE v = w
    BY <1>3, <2>1
  <2>2. CASE v # w
    <3>1. d # e
      BY <1>3, <2>2 DEF IndInv, OneHolder, Entries, NoEntry
    <3>2. PlaceInv(v, d)
      BY <1>3 DEF IndInv
    <3> QED
      BY <2>2, <3>1, <3>2, PlaceFrame DEF streamVars, groupVars
  <2> QED
    BY <2>1, <2>2
<1> QED
  BY <1>1, <1>2, <1>3 DEF IndInv

\* The invariant holds at the start.
LEMMA InvInit == Init => IndInv
<1> SUFFICES ASSUME Init PROVE IndInv
  OBVIOUS
<1>1. GroupInv /\ HoldsWhatItHandles /\ HoldersInv /\ OneHolder
  BY DEF Init, StreamInit, GroupInv, HoldsWhatItHandles, HoldersInv, OneHolder
<1>2. ASSUME NEW e \in Entries PROVE EntryInv(e)
  <2>1. ~Delivered(e) /\ ~Acked(e)
    BY DEF Init, StreamInit, Delivered, Acked, Entries
  <2>2. Untouched(e)
    BY DEF Init, Untouched
  <2>3. TruthfullyAudited(e)
    BY <2>2 DEF Untouched, TruthfullyAudited
  <2> QED
    BY <2>1, <2>2, <2>3 DEF EntryInv, DoneIfAcked, Untouched
<1>3. ASSUME NEW w \in Workers, NEW e \in Entries, job[w] = e PROVE PlaceInv(w, e)
  BY <1>3, MaxJobsAssumption DEF Init, NoEntry, Entries
<1> QED
  BY <1>1, <1>2, <1>3 DEF IndInv

(***************************************************************************)
(* The steps that a worker makes on the entry it holds.                    *)
(***************************************************************************)
LocalStep(w) ==
  \/ Discard(w) \/ RejectRegistry(w) \/ RejectToken(w) \/ OpenWorkDir(w)
  \/ StartPublisher(w) \/ FetchFails(w)
  \/ PublisherSucceeds(w) \/ PublisherFails(w)
  \/ DocsReturn(w) \/ ReportAudit(w)

\* A worker that makes one of them holds an entry, which is pending.
LEMMA LocalHolds ==
  ASSUME TypeOK, IndInv, NEW w \in Workers, LocalStep(w)
  PROVE  \E e \in Entries : job[w] = e /\ e \in pending /\ Delivered(e)
<1>1. pc[w] \notin {"down", "idle"}
  BY DEF LocalStep, Discard, RejectRegistry, RejectToken, OpenWorkDir, StartPublisher,
     FetchFails, PublisherSucceeds, PublisherFails, DocsReturn, ReportAudit
<1>2. job[w] \in Entries /\ job[w] \in pending
  BY <1>1 DEF TypeOK, IndInv, HoldsWhatItHandles, HoldersInv
<1> QED
  BY <1>2 DEF IndInv, GroupInv

\* The steps of process_job and run_once between read and acknowledge keep it.
LEMMA LocalStepInv ==
  ASSUME TypeOK, IndInv, HoldsWhatItHandles', NEW w \in Workers, LocalStep(w)
  PROVE  IndInv'
<1>1. PICK e \in Entries : job[w] = e /\ e \in pending /\ Delivered(e)
  BY LocalHolds
<1>2. EntryInv(e) /\ PlaceInv(w, e)
  BY <1>1 DEF IndInv
<1> DEFINE Goal == /\ UNCHANGED <<streamVars, job>>
                   /\ \A v \in Workers : v # w => UNCHANGED pc[v]
                   /\ \A d \in Entries : d # e => UNCHANGED EntryData(d)
                   /\ EntryInv(e)' /\ PlaceInv(w, e)'
<1> SUFFICES Goal
  BY <1>1, StepOnHeldEntry
<1>3. CASE Discard(w)
  <2>1. UNCHANGED <<streamVars, job>>
    BY <1>3 DEF Discard
  <2>2. /\ \A v \in Workers : v # w => UNCHANGED pc[v]
        /\ \A d \in Entries : d # e => UNCHANGED EntryData(d)
    BY <1>1, <1>3 DEF TypeOK, EntryData, Discard, Payload, Goto
  <2>3. EntryInv(e)'
    BY <1>1, <1>2, <1>3, <2>1
    DEF EntryInv, PlaceInv, Untouched, DoneIfAcked, TruthfullyAudited, Acked, Delivered, Complete,
        InProcessJob, streamVars, groupVars, TypeOK, Progress, Discard, Payload, Goto
  <2>4. PlaceInv(w, e)'
    BY <1>1, <1>2, <1>3, <2>1
    DEF PlaceInv, EntryInv, Untouched, Complete, InProcessJob, Void, Publishable,
        streamVars, groupVars, TypeOK, Discard, Payload, Goto
  <2> QED
    BY <2>1, <2>2, <2>3, <2>4
<1>4. CASE RejectRegistry(w)
  <2>1. UNCHANGED <<streamVars, job>>
    BY <1>4 DEF RejectRegistry
  <2>2. /\ \A v \in Workers : v # w => UNCHANGED pc[v]
        /\ \A d \in Entries : d # e => UNCHANGED EntryData(d)
    BY <1>1, <1>4 DEF TypeOK, EntryData, RejectRegistry, Payload, Return, Goto
  <2>3. EntryInv(e)'
    BY <1>1, <1>2, <1>4, <2>1
    DEF EntryInv, PlaceInv, Untouched, DoneIfAcked, TruthfullyAudited, Acked, Delivered, Complete,
        InProcessJob, streamVars, groupVars, TypeOK, Progress, RejectRegistry, Payload, Return, Goto
  <2>4. PlaceInv(w, e)'
    BY <1>1, <1>2, <1>4, <2>1
    DEF PlaceInv, EntryInv, Untouched, Complete, InProcessJob, Void, Publishable,
        streamVars, groupVars, TypeOK, RejectRegistry, Payload, Return, Goto
  <2> QED
    BY <2>1, <2>2, <2>3, <2>4
<1>5. CASE RejectToken(w)
  <2>1. UNCHANGED <<streamVars, job>>
    BY <1>5 DEF RejectToken
  <2>2. /\ \A v \in Workers : v # w => UNCHANGED pc[v]
        /\ \A d \in Entries : d # e => UNCHANGED EntryData(d)
    BY <1>1, <1>5 DEF TypeOK, EntryData, RejectToken, Payload, Return, Goto
  <2>3. EntryInv(e)'
    BY <1>1, <1>2, <1>5, <2>1
    DEF EntryInv, PlaceInv, Untouched, DoneIfAcked, TruthfullyAudited, Acked, Delivered, Complete,
        InProcessJob, streamVars, groupVars, TypeOK, Progress, RejectToken, Payload, Return, Goto
  <2>4. PlaceInv(w, e)'
    BY <1>1, <1>2, <1>5, <2>1
    DEF PlaceInv, EntryInv, Untouched, Complete, InProcessJob, Void, Publishable,
        streamVars, groupVars, TypeOK, RejectToken, Payload, Return, Goto
  <2> QED
    BY <2>1, <2>2, <2>3, <2>4
<1>6. CASE OpenWorkDir(w)
  <2>1. UNCHANGED <<streamVars, job>>
    BY <1>6 DEF OpenWorkDir
  <2>2. /\ \A v \in Workers : v # w => UNCHANGED pc[v]
        /\ \A d \in Entries : d # e => UNCHANGED EntryData(d)
    BY <1>1, <1>6 DEF TypeOK, EntryData, OpenWorkDir, Payload, Return, Goto
  <2>3. EntryInv(e)'
    BY <1>1, <1>2, <1>6, <2>1
    DEF EntryInv, PlaceInv, Untouched, DoneIfAcked, TruthfullyAudited, Acked, Delivered, Complete,
        InProcessJob, streamVars, groupVars, TypeOK, Progress, OpenWorkDir, Payload, Return, Goto
  <2>4. PlaceInv(w, e)'
    BY <1>1, <1>2, <1>6, <2>1
    DEF PlaceInv, EntryInv, Untouched, Complete, InProcessJob, Void, Publishable,
        streamVars, groupVars, TypeOK, OpenWorkDir, Payload, Return, Goto
  <2> QED
    BY <2>1, <2>2, <2>3, <2>4
<1>7. CASE StartPublisher(w)
  <2>1. UNCHANGED <<streamVars, job>>
    BY <1>7 DEF StartPublisher
  <2>2. /\ \A v \in Workers : v # w => UNCHANGED pc[v]
        /\ \A d \in Entries : d # e => UNCHANGED EntryData(d)
    BY <1>1, <1>7 DEF TypeOK, EntryData, StartPublisher, Goto
  <2>3. EntryInv(e)'
    BY <1>1, <1>2, <1>7, <2>1
    DEF EntryInv, PlaceInv, Untouched, DoneIfAcked, TruthfullyAudited, Acked, Delivered, Complete,
        InProcessJob, streamVars, groupVars, TypeOK, Progress, StartPublisher, Goto
  <2>4. PlaceInv(w, e)'
    BY <1>1, <1>2, <1>7, <2>1
    DEF PlaceInv, EntryInv, Untouched, Complete, InProcessJob, Void, Publishable,
        streamVars, groupVars, TypeOK, StartPublisher, Goto
  <2> QED
    BY <2>1, <2>2, <2>3, <2>4
<1>8. CASE FetchFails(w)
  <2>1. UNCHANGED <<streamVars, job>>
    BY <1>8 DEF FetchFails
  <2>2. /\ \A v \in Workers : v # w => UNCHANGED pc[v]
        /\ \A d \in Entries : d # e => UNCHANGED EntryData(d)
    BY <1>1, <1>8 DEF TypeOK, EntryData, FetchFails, Return, Goto
  <2>3. EntryInv(e)'
    BY <1>1, <1>2, <1>8, <2>1
    DEF EntryInv, PlaceInv, Untouched, DoneIfAcked, TruthfullyAudited, Acked, Delivered, Complete,
        InProcessJob, streamVars, groupVars, TypeOK, Progress, FetchFails, Return, Goto
  <2>4. PlaceInv(w, e)'
    BY <1>1, <1>2, <1>8, <2>1
    DEF PlaceInv, EntryInv, Untouched, Complete, InProcessJob, Void, Publishable,
        streamVars, groupVars, TypeOK, FetchFails, Return, Goto
  <2> QED
    BY <2>1, <2>2, <2>3, <2>4
<1>9. CASE PublisherSucceeds(w)
  <2>1. UNCHANGED <<streamVars, job>>
    BY <1>9 DEF PublisherSucceeds
  <2>2. /\ \A v \in Workers : v # w => UNCHANGED pc[v]
        /\ \A d \in Entries : d # e => UNCHANGED EntryData(d)
    BY <1>1, <1>9 DEF TypeOK, EntryData, PublisherSucceeds, Payload, Return, Goto
  <2>3. EntryInv(e)'
    BY <1>1, <1>2, <1>9, <2>1
    DEF EntryInv, PlaceInv, Untouched, DoneIfAcked, TruthfullyAudited, Acked, Delivered, Complete,
        InProcessJob, streamVars, groupVars, TypeOK, Progress, PublisherSucceeds, Payload, Return, Goto
  <2>4. PlaceInv(w, e)'
    BY <1>1, <1>2, <1>9, <2>1
    DEF PlaceInv, EntryInv, Untouched, Complete, InProcessJob, Void, Publishable,
        streamVars, groupVars, TypeOK, PublisherSucceeds, Payload, Return, Goto
  <2> QED
    BY <2>1, <2>2, <2>3, <2>4
<1>10. CASE PublisherFails(w)
  <2>1. UNCHANGED <<streamVars, job>>
    BY <1>10 DEF PublisherFails
  <2>2. /\ \A v \in Workers : v # w => UNCHANGED pc[v]
        /\ \A d \in Entries : d # e => UNCHANGED EntryData(d)
    BY <1>1, <1>10 DEF TypeOK, EntryData, PublisherFails, Return, Goto
  <2>3. EntryInv(e)'
    BY <1>1, <1>2, <1>10, <2>1
    DEF EntryInv, PlaceInv, Untouched, DoneIfAcked, TruthfullyAudited, Acked, Delivered, Complete,
        InProcessJob, streamVars, groupVars, TypeOK, Progress, PublisherFails, Return, Goto
  <2>4. PlaceInv(w, e)'
    BY <1>1, <1>2, <1>10, <2>1
    DEF PlaceInv, EntryInv, Untouched, Complete, InProcessJob, Void, Publishable,
        streamVars, groupVars, TypeOK, PublisherFails, Return, Goto
  <2> QED
    BY <2>1, <2>2, <2>3, <2>4
<1>11. CASE DocsReturn(w)
  <2>1. UNCHANGED <<streamVars, job>>
    BY <1>11 DEF DocsReturn
  <2>2. /\ \A v \in Workers : v # w => UNCHANGED pc[v]
        /\ \A d \in Entries : d # e => UNCHANGED EntryData(d)
    BY <1>1, <1>11 DEF TypeOK, EntryData, DocsReturn, Return, Goto
  <2>3. EntryInv(e)'
    BY <1>1, <1>2, <1>11, <2>1
    DEF EntryInv, PlaceInv, Untouched, DoneIfAcked, TruthfullyAudited, Acked, Delivered, Complete,
        InProcessJob, streamVars, groupVars, TypeOK, Progress, DocsReturn, Return, Goto
  <2>4. PlaceInv(w, e)'
    BY <1>1, <1>2, <1>11, <2>1
    DEF PlaceInv, EntryInv, Untouched, Complete, InProcessJob, Void, Publishable,
        streamVars, groupVars, TypeOK, DocsReturn, Return, Goto
  <2> QED
    BY <2>1, <2>2, <2>3, <2>4
<1>12. CASE ReportAudit(w)
  <2>1. UNCHANGED <<streamVars, job>>
    BY <1>12 DEF ReportAudit
  <2>2. PICK recorded \in BOOLEAN :
          reports' = [reports EXCEPT ![e] =
                        Append(@, [event |-> EventFor(w), recorded |-> recorded])]
    BY <1>1, <1>12 DEF ReportAudit
  <2>3. Len(reports'[e]) = 1 /\ reports'[e][1].event = EventFor(w)
    BY <1>1, <1>2, <1>12, <2>2 DEF PlaceInv, TypeOK, ReportAudit
  <2>4. /\ \A v \in Workers : v # w => UNCHANGED pc[v]
        /\ \A d \in Entries : d # e => UNCHANGED EntryData(d)
    BY <1>1, <1>12 DEF TypeOK, EntryData, ReportAudit, Goto
  <2>5. outcome[e] = "ok" <=> EventFor(w) = "success"
    BY <1>1 DEF EventFor
  <2>6. UNCHANGED <<attempts, outcome, package, site>>
    BY <1>12 DEF ReportAudit
  <2>7. TruthfullyAudited(e)'
    BY <1>1, <1>2, <1>12, <2>1, <2>3, <2>5, <2>6
    DEF TruthfullyAudited, PlaceInv, Complete, streamVars, groupVars, ReportAudit, TypeOK
  <2>8. EntryInv(e)'
    BY <1>1, <1>2, <2>1, <2>6, <2>7
    DEF EntryInv, DoneIfAcked, Acked, Delivered, streamVars, groupVars
  <2>9. PlaceInv(w, e)'
    BY <1>1, <1>2, <1>12, <2>1, <2>3, <2>5, <2>6
    DEF PlaceInv, Complete, streamVars, groupVars, TypeOK, ReportAudit, Goto, InProcessJob
  <2> QED
    BY <2>1, <2>4, <2>8, <2>9
<1> QED
  BY <1>3, <1>4, <1>5, <1>6, <1>7, <1>8, <1>9, <1>10, <1>11, <1>12 DEF LocalStep

(***************************************************************************)
(* The steps that start, read, acknowledge or end.                         *)
(***************************************************************************)

\* A worker lets go of the entry it holds; the data of no entry changes.  The
\* entry may be acknowledged, which only a worker that is acking does.
LEMMA LetGoInv ==
  ASSUME TypeOK, IndInv, HoldsWhatItHandles', NEW w \in Workers,
         job' = [job EXCEPT ![w] = NoEntry],
         \A v \in Workers : v # w => UNCHANGED pc[v],
         UNCHANGED <<attempts, outcome, reports, package, site>>,
         \/ UNCHANGED groupVars
         \/ pc[w] = "acking" /\ Acknowledge(job[w])
  PROVE  IndInv'
<1>1. UNCHANGED <<stream, groupExists, lastDelivered, groupStart>>
  BY DEF streamVars, groupVars, Acknowledge
<1>2. \A v \in Workers : v # w => UNCHANGED job[v]
  BY DEF TypeOK
<1>3. job'[w] = NoEntry
  BY DEF TypeOK
<1>4. GroupInv'
  BY <1>1 DEF IndInv, GroupInv, Delivered, streamVars, groupVars, Acknowledge
<1>5. HoldersInv'
  BY <1>2, <1>3 DEF IndInv, HoldersInv, OneHolder, streamVars, groupVars, Acknowledge
<1>6. OneHolder'
  BY <1>2, <1>3 DEF IndInv, OneHolder
<1>7. ASSUME NEW e \in Entries PROVE EntryInv(e)'
  <2>1. EntryInv(e) /\ (Delivered(e)' <=> Delivered(e)) /\ UNCHANGED EntryData(e)
    BY <1>1 DEF IndInv, Delivered, EntryData
  <2>2. CASE e \in pending' <=> e \in pending
    BY <1>1, <2>1, <2>2, EntryFrame
  <2>3. CASE ~(e \in pending' <=> e \in pending)
    <3>1. pc[w] = "acking" /\ job[w] = e /\ e \in pending
      BY <2>3 DEF streamVars, groupVars, Acknowledge
    <3>2. PlaceInv(w, e) /\ Delivered(e)
      BY <3>1 DEF IndInv, GroupInv
    <3>3. \/ stream[e] \in Void /\ reports[e] = << >>
          \/ Complete(e) /\ Len(reports[e]) = 1 /\ reports[e][1].event = "success"
      BY <3>1, <3>2 DEF PlaceInv
    <3>4. DoneIfAcked(e)'
      BY <1>1, <3>3 DEF DoneIfAcked, Complete
    <3>5. DOMAIN reports[e] = 1 .. Len(reports[e])
      BY DEF TypeOK
    <3>6. \A i \in DOMAIN reports[e] : Complete(e) /\ reports[e][i].event = "success"
      BY <3>3, <3>5
    <3>7. TruthfullyAudited(e)'
      BY <1>1, <2>1, <3>6 DEF EntryInv, TruthfullyAudited, Complete
    <3> QED
      BY <1>1, <2>1, <3>2, <3>4, <3>7 DEF EntryInv, EntryData
  <2> QED
    BY <2>2, <2>3
<1>8. ASSUME NEW v \in Workers, NEW e \in Entries, job'[v] = e PROVE PlaceInv(v, e)'
  <2>1. v # w /\ job[v] = e
    BY <1>2, <1>3, <1>8, MaxJobsAssumption DEF NoEntry, Entries
  <2>2. PlaceInv(v, e)
    BY <2>1 DEF IndInv
  <2> QED
    BY <1>1, <2>1, <2>2, PlaceFrame DEF EntryData
<1> QED
  BY <1>4, <1>5, <1>6, <1>7, <1>8 DEF IndInv

\* A worker that lets its entry go keeps it.
LEMMA LeaveInv ==
  ASSUME TypeOK, IndInv, HoldsWhatItHandles', NEW w \in Workers,
         Ack(w) \/ AckFails(w) \/ Skip(w) \/ Crash(w)
  PROVE  IndInv'
<1>1. job' = [job EXCEPT ![w] = NoEntry]
  BY DEF Ack, AckFails, Skip, Crash, Exit
<1>2. \A v \in Workers : v # w => UNCHANGED pc[v]
  BY DEF Ack, AckFails, Skip, Crash, Exit, Goto, TypeOK
<1>3. UNCHANGED <<attempts, outcome, reports, package, site>>
  BY DEF Ack, AckFails, Skip, Crash
<1>4. UNCHANGED groupVars \/ (pc[w] = "acking" /\ Acknowledge(job[w]))
  BY DEF Ack, AckFails, Skip, Crash, LeaveRead, streamVars
<1> QED
  BY <1>1, <1>2, <1>3, <1>4, LetGoInv

\* The group delivers an entry: to a worker that handles it from now on, or,
\* when the answer is lost, to nobody.
LEMMA DeliverInv ==
  ASSUME TypeOK, IndInv, HoldsWhatItHandles', NEW w, NEW e \in Entries,
         Deliver(e),
         \A v \in Workers : \/ UNCHANGED <<pc[v], job[v]>>
                            \/ v = w /\ job'[v] = e /\ pc'[v] = "received",
         UNCHANGED <<attempts, outcome, reports, package, site>>
  PROVE  IndInv'
<1>1. /\ e = lastDelivered + 1 /\ lastDelivered' = e /\ pending' = pending \cup {e}
      /\ UNCHANGED <<stream, groupExists, groupStart>> /\ groupExists
  BY DEF Deliver, HasUndelivered
<1>2. \A d \in Entries : Delivered(d)' <=> Delivered(d) \/ d = e
  BY <1>1, MaxJobsAssumption DEF Delivered, TypeOK, StreamTypeOK, Entries
<1>3. ~Delivered(e) /\ e \notin pending /\ Untouched(e)
  <2>1. ~Delivered(e)
    BY <1>1 DEF Delivered, TypeOK, StreamTypeOK
  <2> QED
    BY <2>1 DEF IndInv, GroupInv, EntryInv
<1>4. \A v \in Workers : job[v] # e
  BY <1>3, MaxJobsAssumption DEF IndInv, HoldersInv, Entries, NoEntry
<1>5. GroupInv'
  BY <1>1, <1>2 DEF IndInv, GroupInv, TypeOK, StreamTypeOK
<1>6. HoldersInv'
  BY <1>1 DEF IndInv, HoldersInv
<1>7. OneHolder'
  BY <1>4 DEF IndInv, OneHolder
<1>8. ASSUME NEW d \in Entries PROVE EntryInv(d)'
  <2>1. CASE d = e
    <3>1. Untouched(d)'
      BY <1>3, <2>1 DEF Untouched
    <3>2. TruthfullyAudited(d)' /\ ~Acked(d)'
      BY <1>1, <2>1, <3>1 DEF Untouched, TruthfullyAudited, Acked
    <3> QED
      BY <3>1, <3>2 DEF EntryInv, DoneIfAcked, Untouched
  <2>2. CASE d # e
    <3>1. EntryInv(d) /\ (Delivered(d)' <=> Delivered(d)) /\ UNCHANGED EntryData(d)
      BY <1>2, <2>2 DEF IndInv, EntryData
    <3> QED
      BY <1>1, <2>2, <3>1, EntryFrame
  <2> QED
    BY <2>1, <2>2
<1>9. ASSUME NEW v \in Workers, NEW d \in Entries, job'[v] = d PROVE PlaceInv(v, d)'
  <2>1. CASE job'[v] = e /\ pc'[v] = "received"
    <3>1. d = e
      BY <1>9, <2>1
    <3> QED
      BY <1>3, <2>1, <3>1 DEF PlaceInv, Untouched, InProcessJob
  <2>2. CASE UNCHANGED <<pc[v], job[v]>>
    <3>1. PlaceInv(v, d)
      BY <1>9, <2>2 DEF IndInv
    <3> QED
      BY <1>1, <2>2, <3>1, PlaceFrame DEF EntryData
  <2> QED
    BY <2>1, <2>2
<1> QED
  BY <1>5, <1>6, <1>7, <1>8, <1>9 DEF IndInv

\* A read keeps it, also one whose answer is lost.
LEMMA ReadInv ==
  ASSUME TypeOK, IndInv, HoldsWhatItHandles', NEW w \in Workers,
         ReadMessage(w) \/ ReadFails(w)
  PROVE  IndInv'
<1>1. CASE ReadMessage(w)
  <2>1. PICK e \in Entries : Deliver(e) /\ job' = [job EXCEPT ![w] = e]
    BY <1>1 DEF ReadMessage
  <2>2. /\ job'[w] = e /\ pc'[w] = "received"
        /\ \A v \in Workers : v # w => UNCHANGED <<pc[v], job[v]>>
        /\ UNCHANGED <<attempts, outcome, reports, package, site>>
    BY <1>1, <2>1 DEF ReadMessage, Goto, TypeOK
  <2> QED
    BY <2>1, <2>2, DeliverInv
<1>2. CASE ReadFails(w)
  <2>1. /\ job' = [job EXCEPT ![w] = NoEntry]
        /\ \A v \in Workers : v # w => UNCHANGED <<pc[v], job[v]>>
        /\ UNCHANGED <<attempts, outcome, reports, package, site>>
    BY <1>2 DEF ReadFails, Exit, Goto, TypeOK
  <2>2. UNCHANGED groupVars
    BY <1>2 DEF ReadFails, LeaveRead
  <2> QED
    BY <2>1, <2>2, LetGoInv
<1> QED
  BY <1>1, <1>2

\* The group is created: before that nothing was delivered, and nothing is
\* delivered by it.
LEMMA CreateInv ==
  ASSUME TypeOK, IndInv, HoldsWhatItHandles',
         CreateGroup \/ UNCHANGED groupVars,
         \A v \in Workers : \/ UNCHANGED <<pc[v], job[v]>>
                            \/ job'[v] = NoEntry,
         UNCHANGED <<attempts, outcome, reports, package, site>>
  PROVE  IndInv'
<1>1. UNCHANGED <<stream, pending>>
  BY DEF CreateGroup, streamVars, groupVars
<1>2. \A e \in Entries : Delivered(e)' <=> Delivered(e)
  BY DEF CreateGroup, streamVars, groupVars, Delivered, IndInv, GroupInv, TypeOK, StreamTypeOK, Entries
<1>3. GroupInv'
  <2>1. ~groupExists' => lastDelivered' = 0
    BY DEF CreateGroup, streamVars, groupVars, IndInv, GroupInv
  <2>2. pending \subseteq Entries
    BY DEF TypeOK, StreamTypeOK
  <2> QED
    BY <1>1, <1>2, <2>1, <2>2 DEF IndInv, GroupInv
<1>4. HoldersInv'
  BY <1>1 DEF IndInv, HoldersInv
<1>5. OneHolder'
  BY DEF IndInv, OneHolder
<1>6. ASSUME NEW e \in Entries PROVE EntryInv(e)'
  <2>1. EntryInv(e) /\ UNCHANGED EntryData(e)
    BY DEF IndInv, EntryData
  <2> QED
    BY <1>1, <1>2, <2>1, EntryFrame
<1>7. ASSUME NEW v \in Workers, NEW e \in Entries, job'[v] = e PROVE PlaceInv(v, e)'
  <2>1. UNCHANGED <<pc[v], job[v]>>
    BY <1>7, MaxJobsAssumption DEF Entries, NoEntry
  <2>2. PlaceInv(v, e)
    BY <1>7, <2>1 DEF IndInv
  <2> QED
    BY <1>1, <2>1, <2>2, PlaceFrame DEF EntryData
<1> QED
  BY <1>3, <1>4, <1>5, <1>6, <1>7 DEF IndInv

\* So does a read that Redis serves, or gives up, after its client has gone.
LEMMA StaleReadInv ==
  ASSUME TypeOK, IndInv, HoldsWhatItHandles', StaleRead
  PROVE  IndInv'
<1>1. UNCHANGED workerVars
  BY DEF StaleRead
<1>2. ASSUME NEW e \in Entries, DeliverToNobody(e) PROVE IndInv'
  BY <1>1, <1>2, DeliverInv DEF DeliverToNobody, workerVars
<1>3. CASE ReadExpires
  BY <1>1, <1>3, CreateInv DEF ReadExpires, workerVars
<1> QED
  BY <1>2, <1>3 DEF StaleRead

\* Appending an entry keeps it.
LEMMA ProduceInv ==
  ASSUME TypeOK, IndInv, HoldsWhatItHandles', NEW payload \in Payloads, Produce(payload)
  PROVE  IndInv'
<1>1. UNCHANGED <<groupExists, lastDelivered, groupStart, pending>>
  BY DEF Produce, Enqueue
<1>2. UNCHANGED workerVars
  BY DEF Produce
<1>3. \A e \in 1 .. Len(stream) : UNCHANGED stream[e]
  BY DEF Produce, Enqueue, TypeOK, StreamTypeOK
<1>4. \A e \in Entries : Delivered(e) => UNCHANGED stream[e]
  BY <1>3, DeliveredInStream
<1>5. GroupInv' /\ HoldersInv' /\ OneHolder'
  BY <1>1, <1>2 DEF IndInv, GroupInv, HoldersInv, OneHolder, Delivered, workerVars
<1>6. ASSUME NEW e \in Entries PROVE EntryInv(e)'
  <2>1. EntryInv(e) /\ (Delivered(e)' <=> Delivered(e)) /\ UNCHANGED EntryData(e)
    BY <1>1, <1>2 DEF IndInv, Delivered, EntryData, workerVars
  <2> QED
    BY <1>1, <1>4, <2>1, EntryFrame
<1>7. ASSUME NEW v \in Workers, NEW e \in Entries, job'[v] = e PROVE PlaceInv(v, e)'
  <2>1. job[v] = e /\ UNCHANGED <<pc[v], EntryData(e)>>
    BY <1>2, <1>7 DEF workerVars, EntryData
  <2>2. PlaceInv(v, e) /\ e \in pending
    BY <2>1, MaxJobsAssumption DEF IndInv, HoldersInv, Entries, NoEntry
  <2>3. UNCHANGED stream[e]
    BY <1>4, <2>2 DEF IndInv, GroupInv
  <2> QED
    BY <2>1, <2>2, <2>3, PlaceFrame
<1> QED
  BY <1>5, <1>6, <1>7 DEF IndInv

\* A registry or a documentation host takes what was started.
LEMMA AcceptInv ==
  ASSUME TypeOK, IndInv, HoldsWhatItHandles', NEW e \in Entries,
         RegistryAccepts(e) \/ DocsHostAccepts(e)
  PROVE  IndInv'
<1>1. UNCHANGED <<streamVars, pc, job, outcome, attempts, reports>>
  BY DEF RegistryAccepts, DocsHostAccepts
<1>2. \A d \in Entries :
        /\ Complete(d) => Complete(d)'
        /\ Untouched(d) => Untouched(d)'
        /\ package[d] = "none" => package'[d] = "none"
        /\ package[d] = "accepted" => package'[d] = "accepted"
  BY <1>1 DEF RegistryAccepts, DocsHostAccepts, Complete, Untouched, TypeOK, streamVars, groupVars
<1>3. GroupInv' /\ HoldersInv' /\ OneHolder'
  BY <1>1 DEF IndInv, GroupInv, HoldersInv, OneHolder, Delivered, streamVars, groupVars
<1>4. ASSUME NEW d \in Entries PROVE EntryInv(d)'
  <2>1. EntryInv(d)
    BY DEF IndInv
  <2>2. DoneIfAcked(d)' /\ TruthfullyAudited(d)'
    BY <1>1, <1>2, <2>1
    DEF EntryInv, DoneIfAcked, TruthfullyAudited, Acked, Delivered, streamVars, groupVars
  <2> QED
    BY <1>1, <1>2, <2>1, <2>2 DEF EntryInv, Delivered, streamVars, groupVars
<1>5. ASSUME NEW v \in Workers, NEW d \in Entries, job'[v] = d PROVE PlaceInv(v, d)'
  <2>1. PlaceInv(v, d)
    BY <1>1, <1>5 DEF IndInv
  <2> QED
    BY <1>1, <1>2, <2>1 DEF PlaceInv, streamVars, groupVars
<1> QED
  BY <1>3, <1>4, <1>5 DEF IndInv

\* Every step keeps the invariant.
LEMMA InvNext ==
  TypeOK /\ IndInv /\ HoldsWhatItHandles' /\ [Next]_vars => IndInv'
<1> SUFFICES ASSUME TypeOK, IndInv, HoldsWhatItHandles', [Next]_vars PROVE IndInv'
  OBVIOUS
<1>1. ASSUME NEW payload \in Payloads, Produce(payload) PROVE IndInv'
  BY <1>1, ProduceInv
<1>2. ASSUME NEW e \in Entries, RegistryAccepts(e) \/ DocsHostAccepts(e) PROVE IndInv'
  BY <1>2, AcceptInv
<1>3. ASSUME NEW w \in Workers, Start(w) \/ StartFails(w) PROVE IndInv'
  <2>1. /\ CreateGroup \/ UNCHANGED groupVars
        /\ UNCHANGED <<attempts, outcome, reports, package, site>>
    BY <1>3 DEF Start, StartFails, streamVars
  <2>2. \A v \in Workers : UNCHANGED <<pc[v], job[v]>> \/ job'[v] = NoEntry
    BY <1>3 DEF Start, StartFails, Goto, TypeOK, IndInv, HoldsWhatItHandles
  <2> QED
    BY <2>1, <2>2, CreateInv
<1>4. ASSUME NEW w \in Workers, ReadMessage(w) \/ ReadFails(w) PROVE IndInv'
  BY <1>4, ReadInv
<1>5. ASSUME NEW w \in Workers, Ack(w) \/ AckFails(w) \/ Skip(w) \/ Crash(w) PROVE IndInv'
  BY <1>5, LeaveInv
<1>6. ASSUME NEW w \in Workers, LocalStep(w) PROVE IndInv'
  BY <1>6, LocalStepInv
<1>7. CASE StaleRead
  BY <1>7, StaleReadInv
<1>8. CASE UNCHANGED vars
  <2>1. /\ CreateGroup \/ UNCHANGED groupVars
        /\ UNCHANGED <<attempts, outcome, reports, package, site>>
        /\ \A v \in Workers : UNCHANGED <<pc[v], job[v]>> \/ job'[v] = NoEntry
    BY <1>8 DEF vars, workerVars, streamVars
  <2> QED
    BY <2>1, CreateInv
<1> QED
  BY <1>1, <1>2, <1>3, <1>4, <1>5, <1>6, <1>7, <1>8
  DEF Next, Services, Work, Fails, LocalStep, ReadNothing

\* The inductive invariant holds in every reachable state, for any number of
\* workers, jobs and faults.
THEOREM Inductive == Spec => []IndInv
<1>1. Init => TypeOK /\ HoldsWhatItHandles /\ IndInv
  BY TypeInit, InvInit
<1>2. TypeOK /\ HoldsWhatItHandles /\ IndInv /\ [Next]_vars
        => TypeOK' /\ HoldsWhatItHandles' /\ IndInv'
  BY TypeNext, InvNext
<1> QED
  BY <1>1, <1>2, PTL DEF Spec

\* No job is published twice, whatever crashes and whatever restarts: no
\* entry's publisher is ever started a second time.
THEOREM AtMostOnce == Spec => []PublishAtMostOnce
<1>1. IndInv => PublishAtMostOnce
  BY DEF IndInv, EntryInv, PublishAtMostOnce
<1> QED
  BY <1>1, Inductive, PTL

\* The group gives no entry to two workers.
THEOREM Exclusive == Spec => []OneHolder
<1>1. IndInv => OneHolder
  BY DEF IndInv
<1> QED
  BY <1>1, Inductive, PTL

\* What was acknowledged was published, documented and reported as such.
THEOREM AckedDone == Spec => []AckedMeansDone
<1>1. IndInv => AckedMeansDone
  BY DEF IndInv, EntryInv, AckedMeansDone
<1> QED
  BY <1>1, Inductive, PTL

\* The control plane is told at most one event on an entry, and a true one.
THEOREM TruthfulAudit == Spec => []AuditTruthful
<1>1. IndInv => AuditTruthful
  BY DEF IndInv, EntryInv, AuditTruthful
<1> QED
  BY <1>1, Inductive, PTL

\* An entry that was given up stays so in any step.
LEMMA AbandonedStep ==
  ASSUME TypeOK, IndInv, [Next]_vars, NEW e \in Entries, Abandoned(e)
  PROVE  Abandoned(e)'
<1>0. CASE UNCHANGED vars
  BY <1>0 DEF vars, streamVars, groupVars, workerVars, Abandoned, Held
<1> SUFFICES ASSUME Next PROVE Abandoned(e)'
  BY <1>0
<1>1. e \in pending /\ \A w \in Workers : job[w] # e
  BY DEF Abandoned, Held
<1>2. Delivered(e)
  BY <1>1 DEF IndInv, GroupInv
<1>3. \A d \in Entries : Deliver(d) => d # e
  BY <1>2 DEF Deliver, Delivered, TypeOK, StreamTypeOK
<1>4. e # NoEntry
  BY MaxJobsAssumption DEF Entries, NoEntry
<1>5. ASSUME NEW w \in Workers, LocalStep(w) PROVE UNCHANGED <<streamVars, job>>
  BY <1>5 DEF LocalStep, Discard, RejectRegistry, RejectToken, OpenWorkDir, StartPublisher,
     FetchFails, PublisherSucceeds, PublisherFails, DocsReturn, ReportAudit
<1>6. ASSUME StaleRead PROVE UNCHANGED job /\ e \in pending'
  BY <1>1, <1>6
  DEF StaleRead, DeliverToNobody, Deliver, ReadExpires, groupVars, workerVars
<1>7. e \in pending'
  BY <1>1, <1>5, <1>6
  DEF Next, Services, Work, Fails, LocalStep, Produce, Enqueue, RegistryAccepts, DocsHostAccepts,
      Start, StartFails, CreateGroup, ReadMessage, ReadNothing, ReadFails, LeaveRead, Deliver,
      Ack, AckFails, Acknowledge, Skip, Crash, streamVars, groupVars, vars
<1>8. \A w \in Workers : job'[w] # e
  BY <1>1, <1>3, <1>4, <1>5, <1>6
  DEF Next, Services, Work, Fails, LocalStep, Produce, workerVars, RegistryAccepts, DocsHostAccepts,
      Start, StartFails, ReadMessage, ReadNothing, ReadFails,
      Ack, AckFails, Skip, Crash, Exit, TypeOK, vars
<1> QED
  BY <1>7, <1>8 DEF Abandoned, Held

\* No step of any worker takes up an entry that was given up, or acknowledges
\* it.
THEOREM AbandonedStays == Spec => AbandonedForGood
<1> DEFINE Stays == \A e \in Entries : Abandoned(e) => Abandoned(e)'
<1>1. TypeOK /\ IndInv /\ [Next]_vars => [Stays]_vars
  BY AbandonedStep
<1>2. Spec => [][Stays]_vars
  BY <1>1, TypeCorrect, Inductive, PTL DEF Spec
<1> QED
  BY <1>2 DEF AbandonedForGood

(***************************************************************************)
(* What faults cost.  A step either costs nothing or is a fault, and costs *)
(* one entry or one directory at most.                                     *)
(***************************************************************************)
LEMMA Counted ==
  ASSUME NEW S \in SUBSET Entries
  PROVE  IsFiniteSet(S) /\ Cardinality(S) \in Nat
<1>1. IsFiniteSet(Entries)
  BY FS_Interval, MaxJobsAssumption DEF Entries
<1> QED
  BY <1>1, FS_Subset, FS_CardinalityType

LEMMA NoMore ==
  ASSUME NEW S \in SUBSET Entries, NEW T \in SUBSET S
  PROVE  Cardinality(T) <= Cardinality(S) /\ Cardinality(T) \in Nat
BY Counted, FS_Subset

LEMMA OneMore ==
  ASSUME NEW S \in SUBSET Entries, NEW T \in SUBSET Entries, NEW e,
         T \subseteq S \cup {e}
  PROVE  Cardinality(T) <= Cardinality(S) + 1
<1>1. IsFiniteSet(S) /\ Cardinality(S) \in Nat /\ Cardinality(T) \in Nat
  BY Counted
<1>2. IsFiniteSet(S \cup {e}) /\ Cardinality(S \cup {e}) \in {Cardinality(S), Cardinality(S) + 1}
  BY <1>1, FS_AddElement
<1>3. Cardinality(T) <= Cardinality(S \cup {e})
  BY <1>2, FS_Subset
<1> QED
  BY <1>1, <1>2, <1>3

OrphanDirs ==
  {e \in workDirs : ~ \E w \in Workers : job[w] = e /\ pc[w] \in InProcessJob}

\* A step of one worker that neither makes a directory without being in
\* process_job, nor leaves process_job without removing its directory.
LEMMA DirsFrame ==
  ASSUME NEW w \in Workers,
         \A v \in Workers : v # w => pc'[v] = pc[v] /\ job'[v] = job[v],
         \A e \in workDirs' : e \in workDirs \/ (job'[w] = e /\ pc'[w] \in InProcessJob),
         pc[w] \in InProcessJob =>
           \/ job'[w] = job[w] /\ pc'[w] \in InProcessJob
           \/ job[w] \notin workDirs'
  PROVE  OrphanDirs' \subseteq OrphanDirs
<1> SUFFICES ASSUME NEW e \in OrphanDirs' PROVE e \in OrphanDirs
  OBVIOUS
<1>1. e \in workDirs' /\ \A v \in Workers : ~(job'[v] = e /\ pc'[v] \in InProcessJob)
  BY DEF OrphanDirs
<1>2. e \in workDirs
  BY <1>1
<1>3. ASSUME NEW v \in Workers, job[v] = e, pc[v] \in InProcessJob PROVE FALSE
  BY <1>1, <1>3
<1> QED
  BY <1>2, <1>3 DEF OrphanDirs

LEMMA DirsStep ==
  ASSUME TypeOK, TypeOK', [Next]_vars
  PROVE  \/ OrphanDirs' \subseteq OrphanDirs /\ faults' \in {faults, faults + 1}
         \/ /\ faults' = faults + 1
            /\ \E e : OrphanDirs' \subseteq OrphanDirs \cup {e}
<1> DEFINE Kept == OrphanDirs' \subseteq OrphanDirs /\ faults' \in {faults, faults + 1}
<1>1. ASSUME UNCHANGED <<pc, job, workDirs>>, faults' \in {faults, faults + 1} PROVE Kept
  BY <1>1 DEF OrphanDirs
<1>2. ASSUME NEW w \in Workers, Start(w) PROVE Kept
  BY <1>2, DirsFrame DEF Start, Goto, TypeOK, InProcessJob
<1>3. ASSUME NEW w \in Workers, StartFails(w) PROVE Kept
  BY <1>3, <1>1 DEF StartFails, Fault
<1>4. ASSUME NEW w \in Workers, ReadMessage(w) \/ ReadFails(w) PROVE Kept
  BY <1>4, DirsFrame DEF ReadMessage, ReadFails, Exit, Fault, Goto, TypeOK, InProcessJob
<1>5. ASSUME NEW w \in Workers, Ack(w) \/ AckFails(w) \/ Skip(w) PROVE Kept
  BY <1>5, DirsFrame DEF Ack, AckFails, Skip, Exit, Fault, Goto, TypeOK, InProcessJob
<1>6. ASSUME NEW w \in Workers, Crash(w)
      PROVE  faults' = faults + 1 /\ OrphanDirs' \subseteq OrphanDirs \cup {job[w]}
  BY <1>6 DEF Crash, Exit, Fault, Goto, TypeOK, OrphanDirs
<1>7. ASSUME NEW w \in Workers, LocalStep(w) PROVE Kept
  <2>0. UNCHANGED <<job, faults>>
    BY <1>7 DEF LocalStep, Discard, RejectRegistry, RejectToken, OpenWorkDir, StartPublisher,
       FetchFails, PublisherSucceeds, PublisherFails, DocsReturn, ReportAudit
  <2>1. \A v \in Workers : v # w => pc'[v] = pc[v]
    BY <1>7 DEF LocalStep, Discard, RejectRegistry, RejectToken, OpenWorkDir, StartPublisher,
       FetchFails, PublisherSucceeds, PublisherFails, DocsReturn, ReportAudit, Return, Goto, TypeOK
  <2>2. \A e \in workDirs' : e \in workDirs \/ (job'[w] = e /\ pc'[w] \in InProcessJob)
    BY <1>7, <2>0 DEF LocalStep, Discard, RejectRegistry, RejectToken, OpenWorkDir, StartPublisher,
       FetchFails, PublisherSucceeds, PublisherFails, DocsReturn, ReportAudit, Return, Goto, TypeOK,
       InProcessJob
  <2>3. pc[w] \in InProcessJob =>
           \/ job'[w] = job[w] /\ pc'[w] \in InProcessJob
           \/ job[w] \notin workDirs'
    BY <1>7, <2>0 DEF LocalStep, Discard, RejectRegistry, RejectToken, OpenWorkDir, StartPublisher,
       FetchFails, PublisherSucceeds, PublisherFails, DocsReturn, ReportAudit, Return, Goto, TypeOK,
       InProcessJob
  <2>4. \A v \in Workers : v # w => pc'[v] = pc[v] /\ job'[v] = job[v]
    BY <2>0, <2>1
  <2>5. OrphanDirs' \subseteq OrphanDirs
    BY <2>2, <2>3, <2>4, DirsFrame
  <2> QED
    BY <2>0, <2>5
<1>8. CASE StaleRead \/ UNCHANGED vars
  BY <1>8, <1>1 DEF StaleRead, workerVars, vars
<1>9. ASSUME NEW payload \in Payloads, Produce(payload) PROVE Kept
  BY <1>9, <1>1 DEF Produce, workerVars
<1>10. ASSUME NEW e \in Entries, RegistryAccepts(e) \/ DocsHostAccepts(e) PROVE Kept
  BY <1>10, <1>1 DEF RegistryAccepts, DocsHostAccepts
<1>11. ASSUME NEW w \in Workers, ReadNothing(w) PROVE Kept
  BY <1>11, <1>1 DEF ReadNothing, vars, workerVars
<1> QED
  BY <1>2, <1>3, <1>4, <1>5, <1>6, <1>7, <1>8, <1>9, <1>10, <1>11
  DEF Next, Services, Work, Fails, LocalStep

LEMMA Bounded ==
  ASSUME NEW k \in Nat, NEW n \in Nat, NEW m \in Nat, NEW l \in Nat,
         k <= n, m <= k \/ (m <= k + 1 /\ l = n + 1), l \in {n, n + 1}
  PROVE  m <= l
OBVIOUS

\* At most one temporary directory outlives its job for each fault.
THEOREM DirsRemoved == Spec => []WorkDirsRemoved
<1>1. WorkDirsRemoved <=> Cardinality(OrphanDirs) <= faults
  BY DEF WorkDirsRemoved, OrphanDirs
<1>2. Init => Cardinality(OrphanDirs) <= faults
  <2> SUFFICES ASSUME Init PROVE Cardinality(OrphanDirs) <= faults
    OBVIOUS
  <2>1. OrphanDirs = {} /\ faults = 0
    BY DEF Init, OrphanDirs
  <2> QED
    BY <2>1, FS_EmptySet
<1>3. TypeOK /\ TypeOK' /\ Cardinality(OrphanDirs) <= faults /\ [Next]_vars
        => (Cardinality(OrphanDirs) <= faults)'
  <2> SUFFICES ASSUME TypeOK, TypeOK', Cardinality(OrphanDirs) <= faults, [Next]_vars
               PROVE  Cardinality(OrphanDirs') <= faults'
    OBVIOUS
  <2>1. OrphanDirs \in SUBSET Entries /\ OrphanDirs' \in SUBSET Entries
    BY DEF TypeOK, OrphanDirs
  <2>2. faults \in Nat /\ faults' \in Nat
    BY MaxFaultsAssumption DEF TypeOK
  <2>3. /\ faults' \in {faults, faults + 1}
        /\ \/ Cardinality(OrphanDirs') <= Cardinality(OrphanDirs)
           \/ /\ Cardinality(OrphanDirs') <= Cardinality(OrphanDirs) + 1
              /\ faults' = faults + 1
    BY <2>1, DirsStep, NoMore, OneMore
  <2>4. Cardinality(OrphanDirs) \in Nat /\ Cardinality(OrphanDirs') \in Nat
    BY <2>1, Counted
  <2> QED
    BY <2>2, <2>3, <2>4, Bounded
<1> QED
  BY <1>1, <1>2, <1>3, TypeCorrect, PTL DEF Spec

(***************************************************************************)
(* Lost jobs.  A read that waits at Redis without a client is a job that   *)
(* may yet be lost to a fault of the past, so it counts as one.            *)
(***************************************************************************)
LostJobs == {e \in Entries : Abandoned(e) /\ outcome[e] # "err"}

\* What process_job returned is known once it has returned.
ResultKnown ==
  \A w \in Workers :
    /\ pc[w] = "reporting" => outcome[job[w]] # "none"
    /\ pc[w] = "skipping" => outcome[job[w]] = "err"

LEMMA ResultKnownInit == Init => ResultKnown
BY DEF Init, ResultKnown

LEMMA ResultKnownNext ==
  ASSUME TypeOK, IndInv, ResultKnown, [Next]_vars
  PROVE  ResultKnown'
<1> SUFFICES ASSUME NEW v \in Workers
             PROVE  /\ (pc[v] = "reporting" => outcome[job[v]] # "none")'
                    /\ (pc[v] = "skipping" => outcome[job[v]] = "err")'
  BY DEF ResultKnown
<1> DEFINE Known == /\ (pc[v] = "reporting" => outcome[job[v]] # "none")'
                    /\ (pc[v] = "skipping" => outcome[job[v]] = "err")'
<1>1. ASSUME UNCHANGED <<pc, job, outcome>> PROVE Known
  BY <1>1 DEF ResultKnown
<1>2. ASSUME NEW w \in Workers, Start(w) \/ ReadMessage(w) \/ ReadFails(w) \/ Crash(w)
                                \/ Ack(w) \/ AckFails(w) \/ Skip(w)
      PROVE  Known
  <2>1. UNCHANGED outcome
    BY <1>2 DEF Start, ReadMessage, ReadFails, Crash, Ack, AckFails, Skip
  <2>2. pc'[w] \in {"idle", "received", "down"} /\ (v # w => pc'[v] = pc[v] /\ job'[v] = job[v])
    BY <1>2 DEF Start, ReadMessage, ReadFails, Crash, Ack, AckFails, Skip, Exit, Goto, TypeOK
  <2> QED
    BY <2>1, <2>2 DEF ResultKnown
<1>3. ASSUME NEW w \in Workers, LocalStep(w) PROVE Known
  <2>0. UNCHANGED job
    BY <1>3 DEF LocalStep, Discard, RejectRegistry, RejectToken, OpenWorkDir, StartPublisher,
       FetchFails, PublisherSucceeds, PublisherFails, DocsReturn, ReportAudit
  <2>1. job[w] \in Entries
    BY <1>3, LocalHolds DEF IndInv
  <2>2. CASE v # w
    <3>1. pc[v] \in {"reporting", "skipping"} => job[v] # job[w]
      BY <2>1, <2>2 DEF IndInv, OneHolder, NoEntry, HoldsWhatItHandles, Entries, TypeOK
    <3>2. pc'[v] = pc[v]
      BY <1>3, <2>2 DEF LocalStep, Discard, RejectRegistry, RejectToken, OpenWorkDir, StartPublisher,
         FetchFails, PublisherSucceeds, PublisherFails, DocsReturn, ReportAudit, Return, Goto, TypeOK
    <3>3. outcome' = outcome \/ \E r \in Outcomes : outcome' = [outcome EXCEPT ![job[w]] = r]
      BY <1>3 DEF LocalStep, Discard, RejectRegistry, RejectToken, OpenWorkDir, StartPublisher,
         FetchFails, PublisherSucceeds, PublisherFails, DocsReturn, ReportAudit, Return, Outcomes
    <3>4. pc[v] \in {"reporting", "skipping"} => job[v] \in Entries
      BY DEF IndInv, HoldsWhatItHandles, TypeOK
    <3>5. pc[v] \in {"reporting", "skipping"} => outcome'[job[v]] = outcome[job[v]]
      BY <3>1, <3>3, <3>4 DEF TypeOK
    <3> QED
      BY <2>0, <3>2, <3>5 DEF ResultKnown
  <2>3. CASE v = w
    <3>1. CASE ReportAudit(w)
      BY <2>0, <2>1, <2>3, <3>1 DEF ReportAudit, Goto, ResultKnown, TypeOK, Outcomes
    <3>2. CASE ~ReportAudit(w)
      BY <1>3, <2>0, <2>1, <2>3, <3>2 DEF LocalStep, Discard, RejectRegistry, RejectToken, OpenWorkDir,
         StartPublisher, FetchFails, PublisherSucceeds, PublisherFails, DocsReturn, Return, Goto, TypeOK
    <3> QED
      BY <3>1, <3>2
  <2> QED
    BY <2>2, <2>3
<1>4. ASSUME NEW w \in Workers, StartFails(w) PROVE Known
  BY <1>1, <1>4 DEF StartFails
<1>5. CASE StaleRead \/ UNCHANGED vars
  BY <1>1, <1>5 DEF StaleRead, workerVars, vars
<1>6. ASSUME NEW payload \in Payloads, Produce(payload) PROVE Known
  BY <1>1, <1>6 DEF Produce, workerVars
<1>7. ASSUME NEW e \in Entries, RegistryAccepts(e) \/ DocsHostAccepts(e) PROVE Known
  BY <1>1, <1>7 DEF RegistryAccepts, DocsHostAccepts
<1>8. ASSUME NEW w \in Workers, ReadNothing(w) PROVE Known
  BY <1>1, <1>8 DEF ReadNothing, vars, workerVars
<1> QED
  BY <1>2, <1>3, <1>4, <1>5, <1>6, <1>7, <1>8 DEF Next, Services, Work, Fails, LocalStep

\* A step of one worker that lets go of its entry only when that is settled.
LEMMA LostFrame ==
  ASSUME NEW w \in Workers,
         \A v \in Workers : v # w => job'[v] = job[v],
         \/ job'[w] = job[w]
         \/ job[w] \notin Entries
         \/ job[w] \notin pending'
         \/ outcome'[job[w]] = "err",
         \A e \in pending' : e \in pending \/ job'[w] = e,
         \A e \in Entries : outcome'[e] = outcome[e] \/ job'[w] = e
  PROVE  LostJobs' \subseteq LostJobs
<1> SUFFICES ASSUME NEW e \in LostJobs' PROVE e \in LostJobs
  OBVIOUS
<1>1. e \in Entries /\ e \in pending' /\ outcome'[e] # "err" /\ \A v \in Workers : job'[v] # e
  BY DEF LostJobs, Abandoned, Held
<1>2. e \in pending /\ outcome[e] # "err"
  BY <1>1
<1>3. \A v \in Workers : job[v] # e
  BY <1>1
<1> QED
  BY <1>1, <1>2, <1>3 DEF LostJobs, Abandoned, Held

\* Arithmetic on the values before and after a step.
LEMMA OneLess ==
  ASSUME NEW a \in Nat, NEW b, a > 0, b = a - 1
  PROVE  a = b + 1
OBVIOUS

\* What a step costs: lost jobs and waiting reads against faults.
LEMMA LostStep ==
  ASSUME TypeOK, TypeOK', IndInv, ResultKnown, [Next]_vars
  PROVE  \/ /\ LostJobs' \subseteq LostJobs
            /\ \/ staleReads' = staleReads /\ faults' \in {faults, faults + 1}
               \/ staleReads' = staleReads + 1 /\ faults' = faults + 1
               \/ staleReads = staleReads' + 1 /\ faults' = faults
         \/ /\ \E e : LostJobs' \subseteq LostJobs \cup {e}
            /\ \/ staleReads' = staleReads /\ faults' = faults + 1
               \/ staleReads = staleReads' + 1 /\ faults' = faults
<1> DEFINE Kept == /\ LostJobs' \subseteq LostJobs
                   /\ staleReads' = staleReads /\ faults' \in {faults, faults + 1}
           Left == /\ LostJobs' \subseteq LostJobs
                   /\ \/ staleReads' = staleReads /\ faults' = faults + 1
                      \/ staleReads' = staleReads + 1 /\ faults' = faults + 1
           Lost == /\ \E e : LostJobs' \subseteq LostJobs \cup {e}
                   /\ staleReads' = staleReads /\ faults' = faults + 1
           Ended == /\ \E e : LostJobs' \subseteq LostJobs \cup {e}
                    /\ staleReads = staleReads' + 1 /\ faults' = faults
<1>1. ASSUME UNCHANGED <<job, outcome, pending, staleReads>>, faults' \in {faults, faults + 1}
      PROVE  Kept
  BY <1>1 DEF LostJobs, Abandoned, Held
<1>2. ASSUME NEW w \in Workers, Start(w) \/ StartFails(w) PROVE Kept
  BY <1>1, <1>2 DEF Start, StartFails, CreateGroup, Fault, streamVars, groupVars
<1>3. ASSUME NEW w \in Workers, ReadMessage(w) PROVE Kept
  <2>1. job[w] \notin Entries
    BY <1>3, MaxJobsAssumption DEF ReadMessage, IndInv, HoldsWhatItHandles, Entries, NoEntry
  <2> QED
    BY <1>3, <2>1, LostFrame DEF ReadMessage, Deliver, TypeOK
<1>4. ASSUME NEW w \in Workers, ReadFails(w) PROVE Left
  <2>1. job[w] \notin Entries
    BY <1>4, MaxJobsAssumption DEF ReadFails, IndInv, HoldsWhatItHandles, Entries, NoEntry
  <2>2. LostJobs' \subseteq LostJobs
    BY <1>4, <2>1, LostFrame DEF ReadFails, Exit, LeaveRead, groupVars, TypeOK
  <2> QED
    BY <1>4, <2>2 DEF ReadFails, LeaveRead, Fault
<1>5. ASSUME NEW w \in Workers, Ack(w) PROVE Kept
  <2>1. LostJobs' \subseteq LostJobs
    BY <1>5, LostFrame DEF Ack, Acknowledge, TypeOK
  <2> QED
    BY <1>5, <2>1 DEF Ack, Acknowledge
<1>6. ASSUME NEW w \in Workers, Skip(w) PROVE Kept
  <2>1. outcome[job[w]] = "err"
    BY <1>6 DEF Skip, ResultKnown
  <2>2. LostJobs' \subseteq LostJobs
    BY <1>6, <2>1, LostFrame DEF Skip, streamVars, groupVars, TypeOK
  <2> QED
    BY <1>6, <2>2 DEF Skip, streamVars
<1>7. ASSUME NEW w \in Workers, AckFails(w) PROVE Lost
  <2>1. LostJobs' \subseteq LostJobs \cup {job[w]}
    BY <1>7 DEF AckFails, Acknowledge, Exit, streamVars, groupVars, TypeOK, LostJobs, Abandoned, Held
  <2> QED
    BY <1>7, <2>1 DEF AckFails, Acknowledge, Fault, streamVars
<1>8. ASSUME NEW w \in Workers, Crash(w) PROVE Lost \/ Left
  <2>1. UNCHANGED <<outcome, pending>>
    BY <1>8 DEF Crash, LeaveRead, streamVars, groupVars
  <2>2. LostJobs' \subseteq LostJobs \cup {job[w]}
    BY <1>8, <2>1 DEF Crash, Exit, TypeOK, LostJobs, Abandoned, Held
  <2>3. CASE pc[w] = "idle"
    <3>1. job[w] \notin Entries
      BY <2>3, MaxJobsAssumption DEF IndInv, HoldsWhatItHandles, Entries, NoEntry
    <3>2. LostJobs' \subseteq LostJobs
      BY <2>2, <3>1 DEF LostJobs
    <3> QED
      BY <1>8, <2>3, <3>2 DEF Crash, LeaveRead, Fault
  <2>4. CASE pc[w] # "idle"
    BY <1>8, <2>2, <2>4 DEF Crash, Fault, streamVars
  <2> QED
    BY <2>3, <2>4
<1>9. ASSUME NEW w \in Workers, LocalStep(w) PROVE Kept
  <2>1. UNCHANGED <<job, pending, staleReads, faults>>
    BY <1>9 DEF LocalStep, Discard, RejectRegistry, RejectToken, OpenWorkDir, StartPublisher,
       FetchFails, PublisherSucceeds, PublisherFails, DocsReturn, ReportAudit, streamVars, groupVars
  <2>2. \A e \in Entries : outcome'[e] = outcome[e] \/ job'[w] = e
    BY <1>9, <2>1 DEF LocalStep, Discard, RejectRegistry, RejectToken, OpenWorkDir, StartPublisher,
       FetchFails, PublisherSucceeds, PublisherFails, DocsReturn, ReportAudit, Return, TypeOK
  <2>3. LostJobs' \subseteq LostJobs
    BY <2>1, <2>2, LostFrame
  <2> QED
    BY <2>1, <2>3
<1>10. ASSUME StaleRead
       PROVE  Ended
  <2>1. UNCHANGED workerVars
    BY <1>10 DEF StaleRead
  <2>2. ASSUME NEW e \in Entries, DeliverToNobody(e) PROVE Ended
    <3>1. pending' = pending \cup {e} /\ UNCHANGED <<job, outcome, faults>>
      BY <2>1, <2>2 DEF DeliverToNobody, Deliver, workerVars
    <3>2. LostJobs' \subseteq LostJobs \cup {e}
      BY <3>1 DEF LostJobs, Abandoned, Held
    <3>3. staleReads \in Nat /\ staleReads > 0 /\ staleReads' = staleReads - 1
      BY <2>2 DEF DeliverToNobody, TypeOK, StreamTypeOK
    <3>4. staleReads = staleReads' + 1
      BY <3>3, OneLess
    <3> QED
      BY <3>1, <3>2, <3>4
  <2>3. ASSUME ReadExpires PROVE Ended
    <3>1. UNCHANGED <<pending, job, outcome, faults>>
      BY <2>1, <2>3 DEF ReadExpires, groupVars, workerVars
    <3>2. LostJobs' \subseteq LostJobs \cup {NoEntry}
      BY <3>1 DEF LostJobs, Abandoned, Held
    <3>3. staleReads \in Nat /\ staleReads > 0 /\ staleReads' = staleReads - 1
      BY <2>3 DEF ReadExpires, TypeOK, StreamTypeOK
    <3>4. staleReads = staleReads' + 1
      BY <3>3, OneLess
    <3> QED
      BY <3>1, <3>2, <3>4
  <2> QED
    BY <1>10, <2>2, <2>3 DEF StaleRead
<1>11. ASSUME UNCHANGED vars PROVE Kept
  BY <1>1, <1>11 DEF vars, streamVars, groupVars, workerVars
<1>12. ASSUME NEW payload \in Payloads, Produce(payload) PROVE Kept
  BY <1>1, <1>12 DEF Produce, Enqueue, workerVars
<1>13. ASSUME NEW e \in Entries, RegistryAccepts(e) \/ DocsHostAccepts(e) PROVE Kept
  BY <1>1, <1>13 DEF RegistryAccepts, DocsHostAccepts, streamVars, groupVars
<1>14. ASSUME NEW w \in Workers, ReadNothing(w) PROVE Kept
  BY <1>11, <1>14 DEF ReadNothing
<1> HIDE DEF Kept, Left, Lost, Ended
<1>15. Kept \/ Left \/ Lost \/ Ended
  BY <1>2, <1>3, <1>4, <1>5, <1>6, <1>7, <1>8, <1>9, <1>10, <1>11, <1>12, <1>13, <1>14
  DEF Next, Services, Work, Fails, LocalStep
<1> QED
  BY <1>15 DEF Kept, Left, Lost, Ended

\* k lost and r waiting before, at n faults; m, s and l after.
LEMMA StillPaid ==
  ASSUME NEW k \in Nat, NEW r \in Nat, NEW n \in Nat, k + r <= n,
         NEW m \in Nat, NEW s \in Nat, NEW l \in Nat,
         \/ m <= k /\ ((s = r /\ l \in {n, n + 1}) \/ (s = r + 1 /\ l = n + 1) \/ (r = s + 1 /\ l = n))
         \/ m <= k + 1 /\ ((s = r /\ l = n + 1) \/ (r = s + 1 /\ l = n))
  PROVE  m + s <= l
OBVIOUS

Paid == Cardinality(LostJobs) + staleReads <= faults

\* A fault is paid for each lost job and each waiting read.
LEMMA PaidNext ==
  ASSUME TypeOK, TypeOK', IndInv, ResultKnown, Paid, [Next]_vars
  PROVE  Paid'
<1>1. LostJobs \in SUBSET Entries /\ LostJobs' \in SUBSET Entries
  BY DEF LostJobs
<1>2. /\ Cardinality(LostJobs) \in Nat /\ Cardinality(LostJobs') \in Nat
      /\ staleReads \in Nat /\ staleReads' \in Nat /\ faults \in Nat /\ faults' \in Nat
  BY <1>1, Counted, MaxFaultsAssumption DEF TypeOK, StreamTypeOK
<1> DEFINE k == Cardinality(LostJobs)
           m == Cardinality(LostJobs')
           r == staleReads
           s == staleReads'
           n == faults
           l == faults'
<1>3. \/ m <= k /\ ((s = r /\ l \in {n, n + 1}) \/ (s = r + 1 /\ l = n + 1) \/ (r = s + 1 /\ l = n))
      \/ m <= k + 1 /\ ((s = r /\ l = n + 1) \/ (r = s + 1 /\ l = n))
  BY <1>1, LostStep, NoMore, OneMore
<1>4. k + r <= n
  BY DEF Paid
<1>5. k \in Nat /\ m \in Nat /\ r \in Nat /\ s \in Nat /\ n \in Nat /\ l \in Nat
  BY <1>2
<1>6. m + s <= l
  <2> HIDE DEF k, m, r, s, n, l
  <2> QED
    BY <1>3, <1>4, <1>5, StillPaid
<1> QED
  BY <1>6 DEF Paid

\* A delivered job that disappears without having failed was lost to a fault
\* of its own: a crash, or a read or an acknowledgement that went wrong.
THEOREM FaultsBound == Spec => []EachFaultLosesOneJob
<1>1. Init => ResultKnown /\ Paid
  <2> SUFFICES ASSUME Init PROVE ResultKnown /\ Paid
    OBVIOUS
  <2>1. LostJobs = {} /\ staleReads = 0 /\ faults = 0
    BY DEF Init, StreamInit, LostJobs, Abandoned
  <2> QED
    BY <2>1, ResultKnownInit, FS_EmptySet DEF Paid
<1>2. TypeOK /\ TypeOK' /\ IndInv /\ ResultKnown /\ Paid /\ [Next]_vars
        => ResultKnown' /\ Paid'
  BY ResultKnownNext, PaidNext
<1>3. TypeOK /\ Paid => EachFaultLosesOneJob
  <2> SUFFICES ASSUME TypeOK, Paid PROVE Cardinality(LostJobs) <= faults
    BY DEF EachFaultLosesOneJob, LostJobs
  <2>1. LostJobs \in SUBSET Entries
    BY DEF LostJobs
  <2>2. Cardinality(LostJobs) \in Nat /\ staleReads \in Nat /\ faults \in Nat
    BY <2>1, Counted, MaxFaultsAssumption DEF TypeOK, StreamTypeOK
  <2> DEFINE k == Cardinality(LostJobs)
  <2>3. k \in Nat /\ k + staleReads <= faults
    BY <2>2 DEF Paid
  <2> HIDE DEF k
  <2>4. k <= faults
    BY <2>2, <2>3
  <2> QED
    BY <2>4 DEF k
<1> QED
  BY <1>1, <1>2, <1>3, TypeCorrect, Inductive, PTL DEF Spec

-----------------------------------------------------------------------------
(***************************************************************************)
(* Part 3.  PublisherWorker implements PublishLedger.                      *)
(***************************************************************************)

LedgerStep == [Ledger!Next]_(Ledger!ledgerVars)

\* The phase of an entry, case by case.
PhaseFacts(e) ==
  /\ PhaseOf(e) \in {"absent", "missed", "queued", "taken", "closed", "abandoned"}
  /\ PhaseOf(e) = "absent" <=> e > Len(stream)
  /\ PhaseOf(e) = "missed" <=> e <= Len(stream) /\ Missed(e)
  /\ PhaseOf(e) = "queued" <=> e <= Len(stream) /\ ~Missed(e) /\ e > lastDelivered
  /\ PhaseOf(e) = "closed" <=> Delivered(e) /\ e \notin pending
  /\ PhaseOf(e) = "taken" <=> Held(e)
  /\ PhaseOf(e) = "abandoned" <=> Abandoned(e)
  /\ Held(e) => e \in pending
  /\ e \in pending => Delivered(e)
  /\ Delivered(e) => e <= lastDelivered

\* The phases of the entries, case by case, from the invariants.
LEMMA PhaseCases == TypeOK /\ IndInv => \A e \in Entries : PhaseFacts(e)
<1> SUFFICES ASSUME TypeOK, IndInv, NEW e \in Entries PROVE PhaseFacts(e)
  OBVIOUS
<1>1. Len(stream) \in Nat /\ lastDelivered \in 0 .. Len(stream) /\ groupStart \in 0 .. lastDelivered
  BY DEF TypeOK, StreamTypeOK
<1>2. e \in Nat /\ e >= 1 /\ e # NoEntry
  BY MaxJobsAssumption DEF Entries, NoEntry
<1>3. Held(e) => e \in pending
  BY <1>2 DEF Held, IndInv, HoldersInv
<1>4. e \in pending => Delivered(e)
  BY DEF IndInv, GroupInv
<1>5. Delivered(e) => groupExists /\ e <= Len(stream)
  BY <1>1, <1>2 DEF Delivered, IndInv, GroupInv
<1>6. e <= Len(stream) /\ ~Missed(e) => groupExists /\ groupStart < e
  BY <1>1, <1>2 DEF Missed
<1>7. Delivered(e) => ~Missed(e) /\ e <= lastDelivered
  BY <1>1, <1>2, <1>5 DEF Delivered, Missed
<1>8. e <= Len(stream) /\ ~Missed(e) /\ ~(e > lastDelivered) => Delivered(e)
  BY <1>1, <1>2, <1>6 DEF Delivered
<1>9. CASE e > Len(stream)
  BY <1>1, <1>2, <1>3, <1>4, <1>5, <1>9 DEF PhaseFacts, PhaseOf, Abandoned
<1>10. CASE e <= Len(stream) /\ Missed(e)
  BY <1>1, <1>2, <1>3, <1>4, <1>7, <1>10 DEF PhaseFacts, PhaseOf, Abandoned
<1>11. CASE e <= Len(stream) /\ ~Missed(e) /\ e > lastDelivered
  BY <1>1, <1>2, <1>3, <1>4, <1>7, <1>11 DEF PhaseFacts, PhaseOf, Abandoned
<1>12. CASE Delivered(e)
  BY <1>1, <1>2, <1>3, <1>5, <1>7, <1>12 DEF PhaseFacts, PhaseOf, Abandoned
<1> QED
  BY <1>1, <1>2, <1>8, <1>9, <1>10, <1>11, <1>12

\* The same in the next state.
LEMMA PhaseCasesNext == TypeOK' /\ IndInv' => \A e \in Entries : PhaseFacts(e)'
<1>1. (TypeOK /\ IndInv => \A e \in Entries : PhaseFacts(e))'
  BY PhaseCases, PTL
<1> QED
  BY <1>1

\* A step that changes the phase of one entry, as seen by the ledger.
LEMMA PhaseChange ==
  ASSUME NEW e \in Entries, NEW p,
         \A d \in Entries : d # e => PhaseOf(d)' = PhaseOf(d), PhaseOf(e)' = p
  PROVE  PhaseMap' = [PhaseMap EXCEPT ![e] = p]
BY DEF PhaseMap

\* A step that changes no entry's phase leaves the phase map alone.
LEMMA PhaseStutter ==
  ASSUME \A d \in Entries : PhaseOf(d)' = PhaseOf(d)
  PROVE  PhaseMap' = PhaseMap
BY DEF PhaseMap

\* A worker step that leaves the stream, the group and what the workers hold.
LEMMA NoPhaseChange ==
  ASSUME UNCHANGED <<groupVars, job>>
  PROVE  UNCHANGED <<PhaseMap, VoidEntries>>
<1>1. \A d \in Entries : PhaseOf(d)' = PhaseOf(d)
  BY DEF groupVars, PhaseOf, Missed, Delivered, Held
<1> QED
  BY <1>1, PhaseStutter DEF groupVars, VoidEntries

\* What the ledger sees of the entries besides their phases.
LEMMA DataStutter ==
  ASSUME UNCHANGED <<attempts, reports, package>>
  PROVE  UNCHANGED <<attempts, OutAtRegistry, ToldMap>>
BY DEF OutAtRegistry, ToldMap, Told

(***************************************************************************)
(* Each step of a worker or a service is a step of the ledger, or none.    *)
(***************************************************************************)
KnownStep == TypeOK /\ IndInv /\ TypeOK' /\ IndInv'

\* Appending an entry offers a job, or makes it missed if no group exists.
LEMMA ProduceIsOffer ==
  ASSUME KnownStep, NEW payload \in Payloads, Produce(payload)
  PROVE  Ledger!Next
<1>0. \A d \in Entries : PhaseFacts(d) /\ PhaseFacts(d)'
  BY PhaseCases, PhaseCasesNext DEF KnownStep
<1>1. Len(stream) \in Nat /\ stream \in Seq(Payloads) /\ lastDelivered <= Len(stream) /\ lastDelivered \in Nat
  BY DEF KnownStep, TypeOK, StreamTypeOK
<1>2. PICK e \in Entries : e = Len(stream) + 1 /\ Len(stream)' = e
  <2>1. Len(stream) + 1 \in Entries /\ Len(stream)' = Len(stream) + 1
    BY <1>1, MaxJobsAssumption DEF Produce, Enqueue, Entries
  <2> QED
    BY <2>1
<1>3. /\ UNCHANGED <<groupExists, lastDelivered, groupStart, pending, job, attempts, reports, package>>
      /\ \A d \in 1 .. Len(stream) : stream'[d] = stream[d]
  BY <1>1 DEF Produce, Enqueue, workerVars
<1>4. PhaseOf(e) = "absent"
  BY <1>0, <1>1, <1>2 DEF PhaseFacts
<1>5. \A d \in Entries : d < e => PhaseOf(d) # "absent"
  BY <1>0, <1>1, <1>2 DEF PhaseFacts, Entries
<1>6. \A d \in Entries : d # e => PhaseOf(d)' = PhaseOf(d)
  <2> SUFFICES ASSUME NEW d \in Entries, d # e PROVE PhaseOf(d)' = PhaseOf(d)
    OBVIOUS
  <2>1. d \in Nat
    BY DEF Entries
  <2>2. d > Len(stream) <=> d > Len(stream)'
    BY <1>1, <1>2, <2>1
  <2>3. CASE d > Len(stream)
    BY <1>0, <2>2, <2>3 DEF PhaseFacts
  <2>4. CASE d <= Len(stream)
    <3>1. Missed(d)' <=> Missed(d)
      BY <1>1, <1>2, <1>3, <2>1, <2>4 DEF Missed
    <3> QED
      BY <1>1, <1>2, <1>3, <2>1, <2>2, <2>4, <3>1 DEF PhaseOf, Delivered, Held
  <2> QED
    BY <1>1, <2>1, <2>3, <2>4
<1>7. PhaseOf(e)' \in {"queued", "missed"}
  <2>1. PhaseOf(e)' # "absent"
    BY <1>0, <1>1, <1>2 DEF PhaseFacts
  <2>2. ~Delivered(e)'
    BY <1>1, <1>2, <1>3 DEF Delivered
  <2>3. e \notin pending' /\ ~Held(e)'
    BY <1>0, <1>2, <2>2 DEF PhaseFacts
  <2> QED
    BY <1>0, <1>2, <2>1, <2>2, <2>3 DEF PhaseFacts, Abandoned
<1>8. PICK p \in {"queued", "missed"} : PhaseMap' = [PhaseMap EXCEPT ![e] = p]
  BY <1>2, <1>6, <1>7, PhaseChange
<1>9. VoidEntries' \in {VoidEntries, VoidEntries \cup {e}}
  <2>1. \A d \in Entries : d # e => (d \in VoidEntries' <=> d \in VoidEntries)
    <3> SUFFICES ASSUME NEW d \in Entries, d # e PROVE d \in VoidEntries' <=> d \in VoidEntries
      OBVIOUS
    <3>1. d \in Nat /\ d >= 1
      BY MaxJobsAssumption DEF Entries
    <3>2. d <= Len(stream)' <=> d <= Len(stream)
      BY <1>1, <1>2, <3>1
    <3>3. d <= Len(stream) => stream'[d] = stream[d]
      BY <1>1, <1>3, <3>1
    <3> QED
      BY <3>2, <3>3 DEF VoidEntries
  <2>2. e \notin VoidEntries
    BY <1>1, <1>2 DEF VoidEntries
  <2>3. VoidEntries \subseteq Entries /\ VoidEntries' \subseteq Entries
    BY DEF VoidEntries
  <2>4. CASE e \in VoidEntries'
    <3>1. VoidEntries' = VoidEntries \cup {e}
      BY <1>2, <2>1, <2>2, <2>3, <2>4
    <3> QED
      BY <3>1
  <2>5. CASE e \notin VoidEntries'
    <3>1. VoidEntries' = VoidEntries
      BY <2>1, <2>2, <2>3, <2>5
    <3> QED
      BY <3>1
  <2> QED
    BY <2>4, <2>5
<1>10. UNCHANGED <<attempts, OutAtRegistry, ToldMap>>
  BY <1>3, DataStutter
<1>11. PhaseMap[e] = "absent" /\ \A d \in Entries : d < e => PhaseMap[d] # "absent"
  BY <1>2, <1>4, <1>5 DEF PhaseMap
<1>12. Ledger!Offer(e)
  BY <1>8, <1>9, <1>10, <1>11 DEF Ledger!Offer, Ledger!Becomes
<1> QED
  BY <1>2, <1>12 DEF Ledger!Next

\* Creating the group, or not, changes nothing for the ledger: what the stream
\* holds before is missed before and after.
LEMMA CreateIsNothing ==
  ASSUME KnownStep, CreateGroup \/ UNCHANGED groupVars,
         \A e \in Entries : Held(e)' <=> Held(e),
         UNCHANGED <<attempts, reports, package>>
  PROVE  UNCHANGED <<PhaseMap, attempts, OutAtRegistry, VoidEntries, ToldMap>>
<1>1. ASSUME NEW d \in Entries PROVE PhaseOf(d)' = PhaseOf(d)
  <2>1. CASE UNCHANGED <<groupExists, lastDelivered, groupStart, stream, pending>>
    BY <2>1 DEF PhaseOf, Missed, Delivered
  <2>2. CASE ~groupExists /\ CreateGroup
    <3>1. PhaseFacts(d) /\ PhaseFacts(d)'
      BY PhaseCases, PhaseCasesNext DEF KnownStep
    <3>2. /\ lastDelivered = 0 /\ groupStart = 0
          /\ groupExists' /\ lastDelivered' = Len(stream) /\ groupStart' = Len(stream)
          /\ UNCHANGED <<stream, pending>> /\ Len(stream) \in Nat /\ d \in Nat /\ d >= 1
      BY <2>2, MaxJobsAssumption
      DEF CreateGroup, KnownStep, IndInv, GroupInv, TypeOK, StreamTypeOK, Entries
    <3> QED
      BY <2>2, <3>1, <3>2 DEF PhaseFacts, Missed
  <2> QED
    BY <2>1, <2>2 DEF CreateGroup, groupVars
<1>2. UNCHANGED VoidEntries
  BY DEF VoidEntries, CreateGroup, groupVars
<1> QED
  BY <1>1, <1>2, PhaseStutter, DataStutter

\* The group delivers e: the ledger's job is taken, or lost.
LEMMA DeliverPhases ==
  ASSUME KnownStep, NEW e \in Entries, Deliver(e),
         \A d \in Entries : d # e => (Held(d)' <=> Held(d))
  PROVE  /\ Ledger!First(e) /\ UNCHANGED VoidEntries
         /\ PhaseMap' = [PhaseMap EXCEPT ![e] = IF Held(e)' THEN "taken" ELSE "abandoned"]
<1>0. \A d \in Entries : PhaseFacts(d) /\ PhaseFacts(d)'
  BY PhaseCases, PhaseCasesNext DEF KnownStep
<1>1. /\ groupExists /\ lastDelivered < Len(stream) /\ e = lastDelivered + 1
      /\ lastDelivered' = e /\ pending' = pending \cup {e}
      /\ UNCHANGED <<stream, groupExists, groupStart>>
  BY DEF Deliver, HasUndelivered
<1>2. Len(stream) \in Nat /\ lastDelivered \in Nat /\ groupStart \in Nat /\ groupStart <= lastDelivered
  BY DEF KnownStep, TypeOK, StreamTypeOK
<1>3. \A d \in Entries : d # e => PhaseOf(d)' = PhaseOf(d)
  <2> SUFFICES ASSUME NEW d \in Entries, d # e PROVE PhaseOf(d)' = PhaseOf(d)
    OBVIOUS
  <2>1. d \in Nat /\ (Missed(d)' <=> Missed(d))
    BY <1>1 DEF Missed, Entries
  <2>2. (d > lastDelivered') <=> (d > lastDelivered)
    BY <1>1, <1>2, <2>1
  <2>3. (Delivered(d)' <=> Delivered(d)) /\ (d \in pending' <=> d \in pending)
    BY <1>1, <1>2, <2>1 DEF Delivered
  <2> QED
    BY <1>1, <2>1, <2>2, <2>3 DEF PhaseOf
<1>4. PhaseOf(e)' = IF Held(e)' THEN "taken" ELSE "abandoned"
  BY <1>0, <1>1 DEF PhaseFacts, Abandoned
<1>5. PhaseOf(e) = "queued" /\ \A d \in Entries : d < e => PhaseOf(d) # "queued"
  BY <1>0, <1>1, <1>2 DEF PhaseFacts, Missed, Entries
<1>6. UNCHANGED VoidEntries
  BY <1>1 DEF VoidEntries
<1>7. PhaseMap' = [PhaseMap EXCEPT ![e] = IF Held(e)' THEN "taken" ELSE "abandoned"]
  BY <1>3, <1>4 DEF PhaseMap
<1> QED
  BY <1>5, <1>6, <1>7 DEF Ledger!First, PhaseMap

\* A read takes the first queued job; one that fails is nothing to the ledger.
LEMMA ReadIsTake ==
  ASSUME KnownStep, NEW w \in Workers, ReadMessage(w) \/ ReadFails(w)
  PROVE  LedgerStep
<1>1. /\ UNCHANGED <<attempts, OutAtRegistry, ToldMap>>
      /\ pc[w] = "idle" /\ job[w] = NoEntry
  BY DataStutter DEF ReadMessage, ReadFails, KnownStep, IndInv, HoldsWhatItHandles
<1>2. \A d \in Entries : d # NoEntry
  BY MaxJobsAssumption DEF Entries, NoEntry
<1>3. CASE ReadMessage(w)
  <2>1. PICK e \in Entries : Deliver(e) /\ job' = [job EXCEPT ![w] = e]
    BY <1>3 DEF ReadMessage
  <2>2. \A d \in Entries : Held(d)' <=> Held(d) \/ d = e
    BY <1>1, <1>2, <2>1 DEF Held, KnownStep, TypeOK
  <2>3. Ledger!Take(e)
    BY <1>1, <2>1, <2>2, DeliverPhases DEF Ledger!Take, Ledger!Becomes
  <2> QED
    BY <2>3 DEF LedgerStep, Ledger!Next
<1>4. CASE ReadFails(w)
  <2>1. \A d \in Entries : Held(d)' <=> Held(d)
    BY <1>1, <1>2, <1>4 DEF ReadFails, Exit, Held, KnownStep, TypeOK
  <2>2. UNCHANGED groupVars
    BY <1>4 DEF ReadFails, LeaveRead
  <2>3. UNCHANGED <<PhaseMap, attempts, OutAtRegistry, VoidEntries, ToldMap>>
    BY <1>4, <2>1, <2>2, CreateIsNothing DEF ReadFails
  <2> QED
    BY <2>3 DEF LedgerStep, Ledger!ledgerVars
<1> QED
  BY <1>3, <1>4

\* A read that Redis serves after its client has gone loses the first queued
\* job; one that it gives up is nothing to the ledger.
LEMMA StaleReadIsLose ==
  ASSUME KnownStep, StaleRead
  PROVE  LedgerStep
<1>1. UNCHANGED <<attempts, reports, package, job>>
  BY DEF StaleRead, workerVars
<1>2. UNCHANGED <<attempts, OutAtRegistry, ToldMap>>
  BY <1>1, DataStutter
<1>3. \A d \in Entries : Held(d)' <=> Held(d)
  BY <1>1 DEF Held
<1>4. ASSUME NEW e \in Entries, DeliverToNobody(e) PROVE LedgerStep
  <2>1. Deliver(e)
    BY <1>4 DEF DeliverToNobody
  <2>2. ~Held(e)
    <3>1. ~Delivered(e)
      BY <2>1 DEF Deliver, Delivered, KnownStep, TypeOK, StreamTypeOK
    <3> QED
      BY <3>1, PhaseCases DEF PhaseFacts, KnownStep
  <2>3. Ledger!Lose(e)
    BY <1>2, <1>3, <2>1, <2>2, DeliverPhases DEF Ledger!Lose, Ledger!Becomes
  <2> QED
    BY <2>3 DEF LedgerStep, Ledger!Next
<1>5. CASE ReadExpires
  <2>1. UNCHANGED groupVars
    BY <1>5 DEF ReadExpires
  <2>2. UNCHANGED <<PhaseMap, attempts, OutAtRegistry, VoidEntries, ToldMap>>
    BY <1>1, <1>3, <2>1, CreateIsNothing
  <2> QED
    BY <2>2 DEF LedgerStep, Ledger!ledgerVars
<1> QED
  BY <1>4, <1>5 DEF StaleRead

\* A worker lets go of the entry it holds, and possibly acknowledges it.
LEMMA LetGoPhases ==
  ASSUME KnownStep, NEW w \in Workers, NEW e \in Entries, job[w] = e,
         job' = [job EXCEPT ![w] = NoEntry],
         UNCHANGED groupVars \/ Acknowledge(e)
  PROVE  /\ PhaseMap[e] = "taken" /\ UNCHANGED VoidEntries
         /\ PhaseMap' = [PhaseMap EXCEPT ![e] = IF e \in pending' THEN "abandoned" ELSE "closed"]
<1>0. \A d \in Entries : PhaseFacts(d) /\ PhaseFacts(d)'
  BY PhaseCases, PhaseCasesNext DEF KnownStep
<1>1. UNCHANGED <<stream, groupExists, lastDelivered, groupStart>>
  BY DEF groupVars, Acknowledge
<1>2. \A d \in Entries : d # e => (d \in pending' <=> d \in pending)
  BY DEF groupVars, Acknowledge
<1>3. \A d \in Entries : d # NoEntry
  BY MaxJobsAssumption DEF Entries, NoEntry
<1>4. \A d \in Entries : Held(d)' <=> Held(d) /\ d # e
  BY <1>3 DEF Held, KnownStep, TypeOK, IndInv, OneHolder
<1>5. \A d \in Entries : d # e => PhaseOf(d)' = PhaseOf(d)
  BY <1>1, <1>2, <1>4 DEF PhaseOf, Missed, Delivered
<1>6. Held(e) /\ e \in pending /\ Delivered(e)
  BY <1>0 DEF Held, PhaseFacts
<1>7. PhaseOf(e)' = IF e \in pending' THEN "abandoned" ELSE "closed"
  <2>1. Delivered(e)' /\ ~Held(e)'
    BY <1>1, <1>4, <1>6 DEF Delivered
  <2> QED
    BY <1>0, <2>1 DEF PhaseFacts, Abandoned
<1>8. UNCHANGED VoidEntries
  BY <1>1 DEF VoidEntries
<1> QED
  BY <1>0, <1>5, <1>6, <1>7, <1>8 DEF PhaseMap, PhaseFacts

\* However a worker lets an entry go, the job is closed or abandoned.
LEMMA LeaveIsCloseOrAbandon ==
  ASSUME KnownStep, NEW w \in Workers, Ack(w) \/ AckFails(w) \/ Skip(w) \/ Crash(w)
  PROVE  LedgerStep
<1>1. job' = [job EXCEPT ![w] = NoEntry]
  BY DEF Ack, AckFails, Skip, Crash, Exit
<1>2. UNCHANGED <<attempts, reports, package, OutAtRegistry, ToldMap>>
  BY DataStutter DEF Ack, AckFails, Skip, Crash
<1>3. UNCHANGED groupVars \/ (pc[w] = "acking" /\ Acknowledge(job[w]))
  BY DEF Ack, AckFails, Skip, Crash, LeaveRead, streamVars
<1>4. CASE job[w] = NoEntry
  <2>1. UNCHANGED groupVars /\ job' = job
    BY <1>1, <1>3, <1>4 DEF KnownStep, TypeOK, IndInv, HoldsWhatItHandles
  <2>2. UNCHANGED <<PhaseMap, VoidEntries>>
    BY <2>1, NoPhaseChange
  <2> QED
    BY <1>2, <2>2 DEF LedgerStep, Ledger!ledgerVars
<1>5. ASSUME NEW e \in Entries, job[w] = e PROVE LedgerStep
  <2>1. /\ PhaseMap[e] = "taken" /\ UNCHANGED VoidEntries
        /\ PhaseMap' = [PhaseMap EXCEPT ![e] = IF e \in pending' THEN "abandoned" ELSE "closed"]
    BY <1>1, <1>3, <1>5, LetGoPhases
  <2>2. CASE e \in pending'
    <3>1. Ledger!Abandon(e)
      BY <1>2, <2>1, <2>2 DEF Ledger!Abandon, Ledger!Becomes
    <3> QED
      BY <3>1 DEF LedgerStep, Ledger!Next
  <2>3. CASE e \notin pending'
    <3>1. e \in pending /\ Delivered(e)
      BY <1>5, MaxJobsAssumption DEF KnownStep, IndInv, HoldersInv, GroupInv, Entries, NoEntry
    <3>2. pc[w] = "acking"
      BY <1>3, <2>3, <3>1 DEF groupVars
    <3>3. \/ stream[e] \in Void /\ reports[e] = << >>
          \/ Complete(e) /\ Len(reports[e]) = 1 /\ reports[e][1].event = "success"
      BY <1>5, <3>2 DEF KnownStep, IndInv, PlaceInv
    <3>4. stream[e] \in Void => e \in VoidEntries
      BY <3>1 DEF VoidEntries, Delivered, KnownStep, TypeOK, StreamTypeOK, Entries
    <3>5. Complete(e) => e \in OutAtRegistry
      BY DEF Complete, OutAtRegistry
    <3>6. Len(reports[e]) = 1 => ToldMap[e] = <<reports[e][1].event>>
      <4>1. SUFFICES ASSUME Len(reports[e]) = 1 PROVE ToldMap[e] = <<reports[e][1].event>>
        OBVIOUS
      <4>2. ToldMap[e] = [i \in 1 .. 1 |-> reports[e][i].event]
        BY <4>1 DEF ToldMap, Told
      <4> QED
        BY ONLY <4>2
    <3>7. e \in VoidEntries \/ (e \in OutAtRegistry /\ ToldMap[e] = <<"success">>)
      BY <3>3, <3>4, <3>5, <3>6
    <3>8. Ledger!Close(e)
      BY <1>2, <2>1, <2>3, <3>7 DEF Ledger!Close, Ledger!Becomes
    <3> QED
      BY <3>8 DEF LedgerStep, Ledger!Next
  <2> QED
    BY <2>2, <2>3
<1> QED
  BY <1>4, <1>5 DEF KnownStep, TypeOK

\* What a worker does with the entry it holds: the publisher starting and the
\* audit event are steps of the ledger, the rest is not seen by it.
LEMMA LocalIsReleaseOrTell ==
  ASSUME KnownStep, NEW w \in Workers, LocalStep(w)
  PROVE  LedgerStep
<1>1. PICK e \in Entries : job[w] = e /\ e \in pending /\ Delivered(e)
  BY LocalHolds DEF KnownStep
<1>2. PlaceInv(w, e)
  BY <1>1 DEF KnownStep, IndInv
<1>3. PhaseMap[e] = "taken"
  BY <1>1, PhaseCases DEF KnownStep, PhaseFacts, PhaseMap, Held
<1>4. UNCHANGED <<streamVars, job>>
  BY DEF LocalStep, Discard, RejectRegistry, RejectToken, OpenWorkDir, StartPublisher,
     FetchFails, PublisherSucceeds, PublisherFails, DocsReturn, ReportAudit
<1>5. UNCHANGED <<PhaseMap, VoidEntries>>
  BY <1>4, NoPhaseChange DEF streamVars
<1>6. stream[e] \notin Void => e \notin VoidEntries
  BY DEF VoidEntries
<1>7. CASE StartPublisher(w)
  <2>1. attempts[e] = 0 /\ package[e] = "none" /\ stream[e] \notin Void
    BY <1>1, <1>2, <1>7 DEF PlaceInv, Untouched, InProcessJob, Publishable, Void, StartPublisher
  <2>2. attempts' = [attempts EXCEPT ![e] = 1]
    BY <1>1, <1>7, <2>1 DEF StartPublisher, KnownStep, TypeOK
  <2>3. OutAtRegistry' = OutAtRegistry
    <3>1. \A d \in Entries : package'[d] = "accepted" <=> package[d] = "accepted"
      BY <1>1, <1>7, <2>1 DEF StartPublisher, KnownStep, TypeOK
    <3> QED
      BY <3>1 DEF OutAtRegistry
  <2>4. ToldMap' = ToldMap
    BY <1>7 DEF StartPublisher, ToldMap, Told
  <2>5. Ledger!StartRelease(e)
    BY <1>3, <1>5, <1>6, <2>1, <2>2, <2>3, <2>4 DEF Ledger!StartRelease
  <2> QED
    BY <2>5 DEF LedgerStep, Ledger!Next
<1>8. CASE ReportAudit(w)
  <2>1. PICK recorded \in BOOLEAN :
          reports' = [reports EXCEPT ![e] =
                        Append(@, [event |-> EventFor(w), recorded |-> recorded])]
    BY <1>1, <1>8 DEF ReportAudit
  <2>2. reports[e] = << >> /\ stream[e] \notin Void
    BY <1>1, <1>2, <1>8 DEF PlaceInv, ReportAudit
  <2>3. \A d \in Entries : d # e => Told(d)' = Told(d)
    BY <2>1 DEF Told, KnownStep, TypeOK
  <2>4. reports'[e] = <<[event |-> EventFor(w), recorded |-> recorded]>>
    BY <2>1, <2>2 DEF KnownStep, TypeOK
  <2>5. Told(e) = << >> /\ Told(e)' = <<EventFor(w)>>
    BY <2>2, <2>4 DEF Told
  <2>6. ToldMap' = [ToldMap EXCEPT ![e] = <<EventFor(w)>>] /\ ToldMap[e] = << >>
    BY <2>3, <2>5 DEF ToldMap
  <2>7. EventFor(w) \in {"success", "failure"}
    BY DEF EventFor
  <2>8. EventFor(w) = "success" => e \in OutAtRegistry
    BY <1>1, <1>2, <1>8 DEF EventFor, PlaceInv, Complete, OutAtRegistry, ReportAudit
  <2>9. UNCHANGED <<attempts, OutAtRegistry>>
    BY <1>8 DEF ReportAudit, OutAtRegistry
  <2>10. Ledger!Tell(e, EventFor(w))
    BY <1>3, <1>5, <1>6, <2>2, <2>6, <2>8, <2>9 DEF Ledger!Tell
  <2> QED
    BY <2>7, <2>10 DEF LedgerStep, Ledger!Next
<1>9. CASE UNCHANGED <<attempts, reports, package>>
  <2>1. UNCHANGED <<attempts, OutAtRegistry, ToldMap>>
    BY <1>9, DataStutter
  <2> QED
    BY <1>5, <2>1 DEF LedgerStep, Ledger!ledgerVars
<1> QED
  BY <1>7, <1>8, <1>9
  DEF LocalStep, Discard, RejectRegistry, RejectToken, OpenWorkDir,
      FetchFails, PublisherSucceeds, PublisherFails, DocsReturn

\* A package that comes out was released by whoever took the job, and is not
\* out already: the job is still taken, or was given up.
LEMMA AcceptIsRelease ==
  ASSUME KnownStep, NEW e \in Entries, RegistryAccepts(e)
  PROVE  LedgerStep
<1>1. UNCHANGED <<streamVars, job>> /\ UNCHANGED <<attempts, reports>>
  BY DEF RegistryAccepts
<1>2. UNCHANGED <<PhaseMap, VoidEntries, ToldMap>>
  BY <1>1, NoPhaseChange DEF ToldMap, Told, streamVars
<1>3. EntryInv(e) /\ package[e] = "started"
  BY DEF KnownStep, IndInv, RegistryAccepts
<1>4. attempts[e] = 1 /\ stream[e] \notin Void /\ Delivered(e)
  BY <1>3 DEF EntryInv, Untouched, KnownStep, TypeOK, Publishable, Void
<1>5. e \in pending
  BY <1>3, <1>4 DEF EntryInv, DoneIfAcked, Acked, Complete
<1>6. PhaseMap[e] \in {"taken", "abandoned"}
  BY <1>5, PhaseCases DEF PhaseFacts, Abandoned, KnownStep, PhaseMap
<1>7. OutAtRegistry' = OutAtRegistry \cup {e}
  BY DEF OutAtRegistry, RegistryAccepts, KnownStep, TypeOK
<1>8. Ledger!Release(e)
  BY <1>1, <1>2, <1>4, <1>6, <1>7 DEF Ledger!Release
<1> QED
  BY <1>8 DEF LedgerStep, Ledger!Next

\* The initial states are the ledger's.
LEMMA InitIsInit == Init => Ledger!Init
<1> SUFFICES ASSUME Init PROVE Ledger!Init
  OBVIOUS
<1>1. ASSUME NEW e \in Entries PROVE PhaseOf(e) = "absent" /\ Told(e) = << >>
  <2>1. Len(stream) = 0 /\ e > 0
    BY DEF Init, StreamInit, Entries
  <2>2. PhaseOf(e) = "absent"
    BY <2>1, TypeInit, InvInit, PhaseCases DEF PhaseFacts
  <2>3. reports[e] = << >>
    BY DEF Init
  <2>4. Told(e) = << >>
    BY <2>3 DEF Told
  <2> QED
    BY <2>2, <2>4
<1>2. OutAtRegistry = {} /\ VoidEntries = {}
  BY <1>1 DEF Init, StreamInit, OutAtRegistry, VoidEntries, Entries
<1>3. attempts = [e \in Entries |-> 0]
  BY DEF Init
<1> QED
  BY <1>1, <1>2, <1>3 DEF Ledger!Init, PhaseMap, ToldMap

\* Every step of the workers is one of the ledger, or none.
LEMMA StepIsStep == KnownStep /\ [Next]_vars => LedgerStep
<1> SUFFICES ASSUME KnownStep, [Next]_vars PROVE LedgerStep
  OBVIOUS
<1>1. ASSUME NEW payload \in Payloads, Produce(payload) PROVE LedgerStep
  BY <1>1, ProduceIsOffer DEF LedgerStep
<1>2. ASSUME NEW e \in Entries, RegistryAccepts(e) PROVE LedgerStep
  BY <1>2, AcceptIsRelease
<1>3. ASSUME NEW e \in Entries, DocsHostAccepts(e) PROVE LedgerStep
  <2>1. UNCHANGED <<streamVars, job>> /\ UNCHANGED <<attempts, reports, package>>
    BY <1>3 DEF DocsHostAccepts
  <2> QED
    BY <2>1, NoPhaseChange, DataStutter DEF LedgerStep, Ledger!ledgerVars, streamVars
<1>4. ASSUME NEW w \in Workers, Start(w) \/ StartFails(w) PROVE LedgerStep
  <2>1. /\ CreateGroup \/ UNCHANGED groupVars
        /\ UNCHANGED <<attempts, reports, package, job>>
    BY <1>4 DEF Start, StartFails, streamVars
  <2>2. \A e \in Entries : Held(e)' <=> Held(e)
    BY <2>1 DEF Held
  <2> QED
    BY <2>1, <2>2, CreateIsNothing DEF LedgerStep, Ledger!ledgerVars
<1>5. ASSUME NEW w \in Workers, ReadMessage(w) \/ ReadFails(w) PROVE LedgerStep
  BY <1>5, ReadIsTake
<1>6. ASSUME NEW w \in Workers, Ack(w) \/ AckFails(w) \/ Skip(w) \/ Crash(w) PROVE LedgerStep
  BY <1>6, LeaveIsCloseOrAbandon
<1>7. ASSUME NEW w \in Workers, LocalStep(w) PROVE LedgerStep
  BY <1>7, LocalIsReleaseOrTell
<1>8. CASE StaleRead
  BY <1>8, StaleReadIsLose
<1>9. CASE UNCHANGED vars
  <2>1. UNCHANGED <<streamVars, job>> /\ UNCHANGED <<attempts, reports, package>>
    BY <1>9 DEF vars, workerVars
  <2> QED
    BY <2>1, NoPhaseChange, DataStutter DEF LedgerStep, Ledger!ledgerVars, streamVars
<1> QED
  BY <1>1, <1>2, <1>3, <1>4, <1>5, <1>6, <1>7, <1>8, <1>9
  DEF Next, Services, Work, Fails, LocalStep, ReadNothing

\* The workers implement the ledger: jobs are taken in order and once, closed
\* only when published and reported so, and otherwise given up for good,
\* however many workers share the group, crash and restart.
THEOREM Refinement == Spec => LedgerSpec
<1>1. Init => Ledger!Init
  BY InitIsInit
<1>2. KnownStep /\ [Next]_vars => [Ledger!Next]_(Ledger!ledgerVars)
  BY StepIsStep DEF LedgerStep
<1>3. Spec => []TypeOK /\ []IndInv
  BY TypeCorrect, Inductive, PTL
<1> QED
  BY <1>1, <1>2, <1>3, PTL DEF Spec, LedgerSpec, Ledger!Spec, KnownStep

-----------------------------------------------------------------------------
(***************************************************************************)
(* Part 4.  Several jobs for one release.  The workers' invariant carries  *)
(* over, since a step of Release is a step of PublisherWorker; ReleaseInv  *)
(* adds what the registry shows.                                           *)
(***************************************************************************)

\* A step of the release is one of the workers and their surroundings.
LEMMA ReleaseStep == [ReleaseNext]_allVars => [Next]_vars
<1>1. ASSUME NEW e \in Entries, TakeVersion(e) PROVE Next
  BY <1>1 DEF TakeVersion, Next, Services
<1>2. CASE UNCHANGED allVars
  BY <1>2 DEF allVars
<1> QED
  BY <1>1, <1>2 DEF ReleaseNext, Next, Services, Publishable, Payloads

\* So the release keeps what the workers keep.
LEMMA ReleaseImplements == ReleaseSpec => Spec
<1>1. ReleaseInit => Init
  BY DEF ReleaseInit
<1> QED
  BY <1>1, ReleaseStep, PTL DEF ReleaseSpec, Spec

\* The workers' invariants, of every state of the release.
Known == TypeOK /\ IndInv

LEMMA WorkersKnown == ReleaseSpec => []Known
BY ReleaseImplements, TypeCorrect, Inductive, PTL DEF Known

\* The release's own variables keep their types, too.
THEOREM ReleaseTypes == ReleaseSpec => []ReleaseTypeOK
<1> DEFINE Own == /\ overwrites \in BOOLEAN
                  /\ version \in Entries \cup {NoEntry}
                  /\ open \in [Entries -> SUBSET Entries]
<1>1. ReleaseInit => Own
  BY DEF ReleaseInit
<1>2. Own /\ [ReleaseNext]_allVars => Own'
  <2> SUFFICES ASSUME Own, [ReleaseNext]_allVars PROVE Own'
    OBVIOUS
  <2>1. ASSUME NEW e \in Entries, TakeVersion(e) PROVE Own'
    BY <2>1 DEF TakeVersion
  <2>2. CASE NoteOpenJobs /\ UNCHANGED <<overwrites, version>>
    BY <2>2 DEF NoteOpenJobs
  <2>3. CASE UNCHANGED allVars
    BY <2>3 DEF allVars, releaseVars
  <2> QED
    BY <2>1, <2>2, <2>3 DEF ReleaseNext
<1>3. Known /\ Own => ReleaseTypeOK
  BY DEF Known, ReleaseTypeOK
<1> QED
  BY <1>1, <1>2, <1>3, WorkersKnown, PTL DEF ReleaseSpec

(***************************************************************************)
(* What a step does to the group, to what is held and to what is sent.     *)
(***************************************************************************)
\* The group's position moves when it delivers an entry or is created.
LEMMA GroupStep ==
  ASSUME Known, [Next]_vars
  PROVE  \/ /\ UNCHANGED <<lastDelivered, groupStart>>
            /\ \A d \in Entries : Held(d)' => Held(d)
         \/ /\ lastDelivered' = groupStart'
            /\ \A d \in Entries : Held(d)' => Held(d)
         \/ \E e \in Entries : /\ Deliver(e)
                               /\ \A d \in Entries : Held(d)' => Held(d) \/ d = e
<1> DEFINE Goal == \/ /\ UNCHANGED <<lastDelivered, groupStart>>
                      /\ \A d \in Entries : Held(d)' => Held(d)
                   \/ /\ lastDelivered' = groupStart'
                      /\ \A d \in Entries : Held(d)' => Held(d)
                   \/ \E e \in Entries : /\ Deliver(e)
                                         /\ \A d \in Entries : Held(d)' => Held(d) \/ d = e
<1> SUFFICES Goal
  OBVIOUS
<1>0. \A d \in Entries : d # NoEntry
  BY MaxJobsAssumption DEF Entries, NoEntry
<1>1. ASSUME UNCHANGED job,
             UNCHANGED <<lastDelivered, groupStart>> \/ lastDelivered' = groupStart'
      PROVE  Goal
  BY <1>1 DEF Held
<1>2. ASSUME NEW w \in Workers, LocalStep(w) PROVE UNCHANGED <<streamVars, job>>
  BY <1>2 DEF LocalStep, Discard, RejectRegistry, RejectToken, OpenWorkDir, StartPublisher,
     FetchFails, PublisherSucceeds, PublisherFails, DocsReturn, ReportAudit
<1>3. ASSUME NEW w \in Workers, LocalStep(w) PROVE Goal
  BY <1>1, <1>2, <1>3 DEF streamVars, groupVars
<1>4. ASSUME NEW payload \in Payloads, Produce(payload) PROVE Goal
  BY <1>1, <1>4 DEF Produce, Enqueue, workerVars
<1>5. ASSUME NEW e \in Entries, RegistryAccepts(e) \/ DocsHostAccepts(e) PROVE Goal
  BY <1>1, <1>5 DEF RegistryAccepts, DocsHostAccepts, streamVars, groupVars
<1>6. ASSUME NEW w \in Workers, Start(w) \/ StartFails(w) PROVE Goal
  BY <1>1, <1>6 DEF Start, StartFails, CreateGroup, streamVars, groupVars
<1>7. ASSUME NEW w \in Workers, ReadMessage(w) PROVE Goal
  <2>1. PICK e \in Entries : Deliver(e) /\ job' = [job EXCEPT ![w] = e]
    BY <1>7 DEF ReadMessage
  <2>2. \A d \in Entries : Held(d)' => Held(d) \/ d = e
    BY <2>1 DEF Held, Known, TypeOK
  <2> QED
    BY <2>1, <2>2
<1>8. ASSUME NEW w \in Workers, ReadFails(w) \/ Ack(w) \/ AckFails(w) \/ Skip(w) \/ Crash(w)
      PROVE  Goal
  <2>1. job' = [job EXCEPT ![w] = NoEntry]
    BY <1>8 DEF ReadFails, Ack, AckFails, Skip, Crash, Exit
  <2>2. \A d \in Entries : Held(d)' => Held(d)
    BY <1>0, <2>1 DEF Held, Known, TypeOK
  <2>3. UNCHANGED <<lastDelivered, groupStart>>
    BY <1>8 DEF ReadFails, Ack, AckFails, Skip, Crash, Acknowledge, LeaveRead, streamVars, groupVars
  <2> QED
    BY <2>2, <2>3
<1>9. CASE StaleRead
  <2>1. UNCHANGED job
    BY <1>9 DEF StaleRead, workerVars
  <2>2. ASSUME NEW e \in Entries, DeliverToNobody(e) PROVE Goal
    BY <2>1, <2>2 DEF DeliverToNobody, Held
  <2>3. ASSUME ReadExpires PROVE Goal
    BY <1>1, <2>1, <2>3 DEF ReadExpires, groupVars
  <2> QED
    BY <1>9, <2>2, <2>3 DEF StaleRead
<1>10. CASE UNCHANGED vars
  BY <1>1, <1>10 DEF vars, streamVars, groupVars, workerVars
<1> QED
  BY <1>3, <1>4, <1>5, <1>6, <1>7, <1>8, <1>9, <1>10
  DEF Next, Services, Work, Fails, LocalStep, ReadNothing

\* A step that is not the registry's leaves what the registry has, starts no
\* publisher but that of a job in hand, and documents nothing but a package
\* that is out.
Quiet ==
  \/ \E payload \in Publishable : Produce(payload)
  \/ \E e \in Entries : DocsHostAccepts(e)
  \/ StaleRead
  \/ \E w \in Workers : Start(w) \/ Work(w) \/ Fails(w)
  \/ UNCHANGED vars

LEMMA QuietStep ==
  ASSUME Known, Quiet, NEW e \in Entries
  PROVE  /\ package'[e] = "accepted" <=> package[e] = "accepted"
         /\ package'[e] = "started" => Open(e)
         /\ site'[e] # "none" => site[e] # "none" \/ package[e] = "accepted"
<1> DEFINE Goal == /\ package'[e] = "accepted" <=> package[e] = "accepted"
                   /\ package'[e] = "started" => Open(e)
                   /\ site'[e] # "none" => site[e] # "none" \/ package[e] = "accepted"
<1> SUFFICES Goal
  OBVIOUS
<1>1. ASSUME UNCHANGED <<package, site>> PROVE Goal
  BY <1>1 DEF Open
<1>2. ASSUME NEW w \in Workers, StartPublisher(w) PROVE Goal
  <2>1. UNCHANGED site
    BY <1>2 DEF StartPublisher
  <2>2. CASE job[w] = e
    <3>1. package'[e] = IF package[e] = "none" THEN "started" ELSE package[e]
      BY <1>2, <2>2 DEF StartPublisher, Known, TypeOK
    <3> QED
      BY <2>1, <2>2, <3>1 DEF Open, Held
  <2>3. CASE job[w] # e
    <3>1. UNCHANGED package[e]
      BY <1>2, <2>3 DEF StartPublisher, Known, TypeOK
    <3> QED
      BY <2>1, <3>1 DEF Open
  <2> QED
    BY <2>2, <2>3
<1>3. ASSUME NEW w \in Workers, PublisherSucceeds(w) PROVE Goal
  <2>1. UNCHANGED package /\ package[job[w]] = "accepted"
    BY <1>3 DEF PublisherSucceeds
  <2>2. job[w] # e => UNCHANGED site[e]
    BY <1>3 DEF PublisherSucceeds, Known, TypeOK
  <2> QED
    BY <2>1, <2>2 DEF Open
<1>4. ASSUME NEW d \in Entries, DocsHostAccepts(d) PROVE Goal
  BY <1>4 DEF DocsHostAccepts, Open, Known, TypeOK
<1>5. ASSUME NEW payload \in Publishable, Produce(payload) PROVE UNCHANGED <<package, site>>
  BY <1>5 DEF Produce, workerVars
<1>6. ASSUME StaleRead \/ UNCHANGED vars PROVE UNCHANGED <<package, site>>
  BY <1>6 DEF StaleRead, vars, workerVars
<1>7. ASSUME NEW w \in Workers, Start(w) \/ Work(w) \/ Fails(w),
             ~StartPublisher(w), ~PublisherSucceeds(w)
      PROVE  UNCHANGED <<package, site>>
  BY <1>7 DEF Work, Fails, Start, StartFails, ReadMessage, ReadNothing, ReadFails, Ack, AckFails,
     Skip, Crash, Discard, RejectRegistry, RejectToken, OpenWorkDir, FetchFails, PublisherFails,
     DocsReturn, ReportAudit, vars, workerVars
<1> QED
  BY <1>1, <1>2, <1>3, <1>4, <1>5, <1>6, <1>7 DEF Quiet

\* Every entry of the release that was delivered before another and was open
\* then is among those noted; nothing opens again.
LEMMA OpenJobsNoted ==
  ASSUME Known, ReleaseInv, open \in [Entries -> SUBSET Entries], Quiet,
         NoteOpenJobs \/ UNCHANGED <<vars, open>>,
         NEW e \in Entries, NEW d \in Entries, Delivered(e)', d < e, Open(d)'
  PROVE  d \in open'[e]
<1>0. [Next]_vars
  BY DEF Quiet, Next, Services, Publishable, Payloads
<1>1. /\ lastDelivered \in Nat /\ groupStart \in Nat /\ groupStart <= lastDelivered
      /\ e \in Nat /\ d \in Nat /\ \A x \in Entries : x \in Nat
  BY DEF Known, TypeOK, StreamTypeOK, Entries
<1>2. Delivered(e) \/ lastDelivered < e
  <2>1. CASE UNCHANGED <<lastDelivered, groupStart>>
    BY <2>1 DEF Delivered
  <2>2. lastDelivered' # groupStart'
    <3>1. TypeOK'
      BY <1>0, TypeNext DEF Known, IndInv
    <3>2. groupStart' \in Nat /\ groupStart' < e /\ e <= lastDelivered'
      BY <3>1 DEF Delivered, TypeOK, StreamTypeOK
    <3>3. ASSUME lastDelivered' = groupStart' PROVE FALSE
      <4>1. e <= groupStart'
        BY <3>2, <3>3
      <4> QED
        BY ONLY <1>1, <3>2, <4>1
    <3> QED
      BY <3>3
  <2>3. ASSUME NEW x \in Entries, Deliver(x) PROVE Delivered(e) \/ lastDelivered < e
    <3>1. groupStart < e
      BY <2>3 DEF Deliver, Delivered
    <3> QED
      BY <1>1, <3>1 DEF Delivered
  <2> QED
    BY <1>0, <2>1, <2>2, <2>3, GroupStep
<1>3. ASSUME Delivered(e), UNCHANGED open[e], Open(d) PROVE d \in open'[e]
  BY <1>3 DEF ReleaseInv
<1>4. CASE UNCHANGED <<vars, open>>
  <2>1. Open(d) /\ Delivered(e)
    BY <1>4 DEF Open, Held, Delivered, vars, streamVars, groupVars, workerVars
  <2> QED
    BY <1>3, <1>4, <2>1
<1>5. CASE NoteOpenJobs
  <2>1. Open(d) \/ Deliver(d)
    <3>1. Held(d)' => Held(d) \/ Deliver(d)
      BY <1>0, GroupStep
    <3>2. package'[d] = "started" => Open(d)
      BY QuietStep
    <3> QED
      BY <3>1, <3>2 DEF Open
  <2>2. CASE lastDelivered < e
    <3>1. e <= lastDelivered'
      BY DEF Delivered
    <3>2. open'[e] = {x \in Entries : x # e /\ Open(x)}
      BY <1>5, <2>2, <3>1 DEF NoteOpenJobs
    <3>3. ~Deliver(d)
      BY <1>1, <2>2, <3>1 DEF Deliver
    <3>4. d # e
      BY <1>1
    <3> QED
      BY <2>1, <3>2, <3>3, <3>4
  <2>3. CASE ~(lastDelivered < e)
    <3>1. UNCHANGED open[e]
      BY <1>5, <2>3 DEF NoteOpenJobs
    <3>2. ~Deliver(d)
      BY <1>1, <2>3 DEF Deliver
    <3> QED
      BY <1>2, <1>3, <2>1, <2>3, <3>1, <3>2
  <2> QED
    BY <2>2, <2>3
<1> QED
  BY <1>4, <1>5

\* The registry takes a package: it shows this one now.
LEMMA TakeVersionInv ==
  ASSUME Known, ReleaseInv, NEW e \in Entries, TakeVersion(e)
  PROVE  ReleaseInv'
<1>1. /\ package[e] = "started" /\ package' = [package EXCEPT ![e] = "accepted"]
      /\ version' = e
      /\ UNCHANGED <<streamVars, job, site, open, overwrites>>
      /\ version = NoEntry \/ overwrites
  BY DEF TakeVersion, RegistryAccepts
<1>2. /\ package'[e] = "accepted"
      /\ \A d \in Entries : d # e => UNCHANGED package[d]
  BY <1>1 DEF Known, TypeOK
<1>3. Open(e) /\ \A d \in Entries : Open(d)' => Open(d)
  BY <1>1, <1>2 DEF Open, Held
<1>4. \A d \in Entries : Delivered(d)' <=> Delivered(d)
  BY <1>1 DEF Delivered, streamVars, groupVars
<1>5. ASSUME NEW d \in Entries, package'[d] = "accepted"
      PROVE  version' = d \/ (overwrites' /\ (version' > d \/ version' \in open'[d]))
  <2>1. CASE d = e
    BY <1>1, <2>1
  <2>2. CASE d # e
    <3>1. package[d] = "accepted"
      BY <1>2, <1>5, <2>2
    <3>2. overwrites
      BY <1>1, <3>1, MaxJobsAssumption DEF ReleaseInv, Entries, NoEntry
    <3>3. Delivered(d)
      BY <3>1 DEF Known, IndInv, EntryInv, Untouched
    <3>4. e < d => e \in open[d]
      BY <1>3, <3>3 DEF ReleaseInv
    <3>5. e > d \/ e < d
      BY <2>2, MaxJobsAssumption DEF Entries
    <3> QED
      BY <1>1, <3>2, <3>4, <3>5
  <2> QED
    BY <2>1, <2>2
<1>6. ASSUME NEW d \in Entries, site'[d] # "none" PROVE package'[d] = "accepted"
  BY <1>1, <1>2, <1>6 DEF ReleaseInv
<1>7. ASSUME NEW d \in Entries, Delivered(d)', NEW x \in Entries, x < d, Open(x)'
      PROVE  x \in open'[d]
  BY <1>1, <1>3, <1>4, <1>7 DEF ReleaseInv
<1> QED
  BY <1>1, <1>2, <1>5, <1>6, <1>7 DEF ReleaseInv

\* Every other step keeps what the registry shows, and what was noted.
LEMMA QuietInv ==
  ASSUME Known, ReleaseInv, open \in [Entries -> SUBSET Entries], Quiet,
         NoteOpenJobs \/ UNCHANGED <<vars, open>>,
         UNCHANGED <<overwrites, version>>, version \in Entries \cup {NoEntry}
  PROVE  ReleaseInv'
<1>1. version' # NoEntry => package'[version'] = "accepted"
  BY QuietStep DEF ReleaseInv
<1>2. ASSUME NEW e \in Entries, package'[e] = "accepted"
      PROVE  version' = e \/ (overwrites' /\ (version' > e \/ version' \in open'[e]))
  <2>1. package[e] = "accepted"
    BY <1>2, QuietStep
  <2>2. Delivered(e)
    BY <2>1 DEF Known, IndInv, EntryInv, Untouched
  <2>3. UNCHANGED open[e]
    <3>1. ~(lastDelivered < e)
      BY <2>2 DEF Delivered, Known, TypeOK, StreamTypeOK, Entries
    <3> QED
      BY <3>1 DEF NoteOpenJobs
  <2> QED
    BY <2>1, <2>3 DEF ReleaseInv
<1>3. ASSUME NEW e \in Entries, Delivered(e)', NEW d \in Entries, d < e, Open(d)'
      PROVE  d \in open'[e]
  BY <1>3, OpenJobsNoted
<1>4. ASSUME NEW e \in Entries, site'[e] # "none" PROVE package'[e] = "accepted"
  BY <1>4, QuietStep DEF ReleaseInv
<1> QED
  BY <1>1, <1>2, <1>3, <1>4 DEF ReleaseInv

\* What the registry shows, in every reachable state.
THEOREM ReleaseInductive == ReleaseSpec => []ReleaseInv
<1>1. ReleaseInit => ReleaseInv
  <2> SUFFICES ASSUME ReleaseInit PROVE ReleaseInv
    OBVIOUS
  <2>1. \A e \in Entries : ~Delivered(e)
    BY DEF ReleaseInit, Init, StreamInit, Delivered, Entries
  <2> QED
    BY <2>1 DEF ReleaseInit, Init, ReleaseInv
<1>2. Known /\ ReleaseTypeOK /\ ReleaseInv /\ [ReleaseNext]_allVars => ReleaseInv'
  <2> SUFFICES ASSUME Known, ReleaseTypeOK, ReleaseInv, [ReleaseNext]_allVars PROVE ReleaseInv'
    OBVIOUS
  <2>0. open \in [Entries -> SUBSET Entries] /\ version \in Entries \cup {NoEntry}
    BY DEF ReleaseTypeOK
  <2>1. ASSUME NEW e \in Entries, TakeVersion(e) PROVE ReleaseInv'
    BY <2>1, TakeVersionInv
  <2>2. CASE Quiet /\ NoteOpenJobs /\ UNCHANGED <<overwrites, version>>
    BY <2>0, <2>2, QuietInv
  <2>3. CASE UNCHANGED allVars
    BY <2>0, <2>3, QuietInv DEF Quiet, allVars, releaseVars
  <2> QED
    BY <2>1, <2>2, <2>3 DEF ReleaseNext, Quiet
<1> QED
  BY <1>1, <1>2, WorkersKnown, ReleaseTypes, PTL DEF ReleaseSpec

\* A success told of a job is backed by its package.
LEMMA SuccessIsOut ==
  ASSUME Known, NEW e \in Entries, Succeeded(e)
  PROVE  package[e] = "accepted"
BY DEF Known, IndInv, EntryInv, TruthfullyAudited, Complete, Succeeded

\* What was reported as published is what the registry shows, unless a later
\* or an overlapping job replaced it.
THEOREM SuccessIsShown == ReleaseSpec => []ShownOrReplaced
<1>1. Known /\ ReleaseInv => ShownOrReplaced
  BY SuccessIsOut DEF ReleaseInv, ShownOrReplaced
<1> QED
  BY <1>1, WorkersKnown, ReleaseInductive, PTL

\* A registry that takes a version once lets one job of the release succeed.
THEOREM OnlyOneSucceeds == ReleaseSpec => []OneJobSucceeds
<1>1. Known /\ ReleaseInv => OneJobSucceeds
  BY SuccessIsOut DEF ReleaseInv, OneJobSucceeds
<1> QED
  BY <1>1, WorkersKnown, ReleaseInductive, PTL

\* Queueing the job again repairs nothing once the version is stranded.
THEOREM QueueingAgainIsNoRepair == ReleaseSpec => []NoRepair
<1>1. Known /\ ReleaseInv => NoRepair
  BY SuccessIsOut DEF ReleaseInv, NoRepair, Stranded
<1> QED
  BY <1>1, WorkersKnown, ReleaseInductive, PTL

\* A version that is stranded is so for ever.
THEOREM StrandedStays == ReleaseSpec => StrandedForGood
<1>1. Known /\ ReleaseTypeOK /\ [ReleaseNext]_allVars => [Stranded => Stranded']_allVars
  <2> SUFFICES ASSUME Known, ReleaseTypeOK, ReleaseNext, Stranded PROVE Stranded'
    OBVIOUS
  <2>1. UNCHANGED <<overwrites, version>>
    BY DEF ReleaseNext, TakeVersion, Stranded
  <2>2. version \in Entries /\ Abandoned(version)
    BY DEF ReleaseTypeOK, Stranded
  <2>3. [Next]_vars
    BY ReleaseStep
  <2>4. Abandoned(version)'
    BY <2>1, <2>2, <2>3, AbandonedStep DEF Known
  <2>5. reports'[version] = reports[version]
    <3>1. \A w \in Workers : job[w] # version
      BY <2>2 DEF Abandoned, Held
    <3>2. ASSUME NEW w \in Workers, ReportAudit(w) PROVE reports'[version] = reports[version]
      BY <2>2, <3>1, <3>2 DEF ReportAudit, Known, TypeOK
    <3>3. UNCHANGED reports \/ \E w \in Workers : ReportAudit(w)
      BY <2>3 DEF Next, Services, Work, Fails, Produce, RegistryAccepts, DocsHostAccepts, StaleRead,
         Start, StartFails, ReadMessage, ReadNothing, ReadFails, Ack, AckFails, Skip, Crash,
         Discard, RejectRegistry, RejectToken, OpenWorkDir, StartPublisher, FetchFails,
         PublisherSucceeds, PublisherFails, DocsReturn, vars, workerVars
    <3> QED
      BY <3>2, <3>3
  <2> QED
    BY <2>1, <2>4, <2>5 DEF Stranded, Succeeded
<1>2. ReleaseSpec => [][Stranded => Stranded']_allVars
  BY <1>1, WorkersKnown, ReleaseTypes, PTL DEF ReleaseSpec
<1> QED
  BY <1>2 DEF StrandedForGood

=============================================================================
