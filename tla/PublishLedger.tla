--------------------------- MODULE PublishLedger ---------------------------
(***************************************************************************)
(* What the publisher promises of each queued job, whoever executes it:    *)
(* jobs are taken in the order they were queued, each at most once; a      *)
(* package is released only by whoever took the job; a job is closed only  *)
(* when its package is out and no failure was told; the control plane is   *)
(* told one event at most, and "success" only of a released package; and *)
(* what is closed or given up stays so.                                    *)
(***************************************************************************)
EXTENDS Naturals, Sequences

CONSTANTS
  Jobs    \* a set of numbers, in queue order

VARIABLES
  phase,     \* "absent", "missed", "queued", "taken", "closed" or "abandoned"
  releases,  \* how many times the release of a job's package was started
  released,  \* the jobs whose package is out
  void,      \* the entries that carry no job at all
  told       \* the events sent to the control plane, in order

ledgerVars == <<phase, releases, released, void, told>>

Phases == {"absent", "missed", "queued", "taken", "closed", "abandoned"}

Init ==
  /\ phase = [e \in Jobs |-> "absent"]
  /\ releases = [e \in Jobs |-> 0]
  /\ released = {}
  /\ void = {}
  /\ told = [e \in Jobs |-> << >>]

Becomes(e, p) == phase' = [phase EXCEPT ![e] = p]

\* A job is queued; without a group to take it, it is missed for good.
Offer(e) ==
  /\ phase[e] = "absent"
  /\ \A d \in Jobs : d < e => phase[d] # "absent"
  /\ \E p \in {"queued", "missed"} : Becomes(e, p)
  /\ void' \in {void, void \cup {e}}
  /\ UNCHANGED <<releases, released, told>>

First(e) ==
  /\ phase[e] = "queued"
  /\ \A d \in Jobs : d < e => phase[d] # "queued"

Take(e) ==
  /\ First(e)
  /\ Becomes(e, "taken")
  /\ UNCHANGED <<releases, released, void, told>>

\* A job is taken by nobody: it is lost on the way.
Lose(e) ==
  /\ First(e)
  /\ Becomes(e, "abandoned")
  /\ UNCHANGED <<releases, released, void, told>>

StartRelease(e) ==
  /\ phase[e] = "taken" /\ e \notin void
  /\ releases[e] = 0
  /\ releases' = [releases EXCEPT ![e] = 1]
  /\ UNCHANGED <<phase, released, void, told>>

\* The package comes out, perhaps after the job was given up.
Release(e) ==
  /\ phase[e] \in {"taken", "abandoned"}
  /\ releases[e] = 1
  /\ released' = released \cup {e}
  /\ UNCHANGED <<phase, releases, void, told>>

Tell(e, event) ==
  /\ phase[e] = "taken" /\ e \notin void
  /\ told[e] = << >>
  /\ event = "success" => e \in released
  /\ told' = [told EXCEPT ![e] = <<event>>]
  /\ UNCHANGED <<phase, releases, released, void>>

Close(e) ==
  /\ phase[e] = "taken"
  /\ e \in void \/ (e \in released /\ told[e] = <<"success">>)
  /\ Becomes(e, "closed")
  /\ UNCHANGED <<releases, released, void, told>>

Abandon(e) ==
  /\ phase[e] = "taken"
  /\ Becomes(e, "abandoned")
  /\ UNCHANGED <<releases, released, void, told>>

Next ==
  \E e \in Jobs :
    \/ Offer(e) \/ Take(e) \/ Lose(e)
    \/ StartRelease(e) \/ Release(e)
    \/ \E event \in {"success", "failure"} : Tell(e, event)
    \/ Close(e) \/ Abandon(e)

Spec == Init /\ [][Next]_ledgerVars

=============================================================================
