----------------------------- MODULE ConanCache ----------------------------
(***************************************************************************)
(* Jobs for Conan share more than the remote: publish_conan_with_exe       *)
(* (publish.rs) runs `conan export-pkg .`, which puts the package into the *)
(* cache of the machine, and then `conan upload "*"`, which sends whatever *)
(* the cache holds.  Worker processes of one machine, and the children of  *)
(* workers that were killed, use that cache at the same time, and it       *)
(* outlives all of them.                                                   *)
(*                                                                         *)
(* The conan tool is external: an upload lists the recipes of the cache,   *)
(* then sends the latest package of one after another.                     *)
(***************************************************************************)
EXTENDS Naturals, FiniteSets

CONSTANTS
  Jobs,      \* the jobs for the registry "conan"
  Recipes,   \* the names and versions that their packages have
  Nobody     \* stands for no job

ASSUME NobodyAssumption == Nobody \notin Jobs
ASSUME JobsAssumption == IsFiniteSet(Jobs)

VARIABLES
  recipe,    \* the recipe of each job's package
  stage,     \* how far publish_conan_with_exe got for each job
  tool,      \* what the conan process of each job is doing
  toSend,    \* the recipes that each job's upload has yet to send
  cache,     \* for each recipe the job whose package the machine holds
  remote,    \* for each recipe the job whose package the remote shows
  exports,   \* history: how many exports took effect
  rank       \* history: which of them was the job's, 0 if none

vars == <<recipe, stage, tool, toSend, cache, remote, exports, rank>>

Stages == {"queued", "exporting", "uploading", "ok", "err", "killed"}
Tools == {"none", "exporting", "exported", "listing", "sending"}

TypeOK ==
  /\ recipe \in [Jobs -> Recipes]
  /\ stage \in [Jobs -> Stages]
  /\ tool \in [Jobs -> Tools]
  /\ toSend \in [Jobs -> SUBSET Recipes]
  /\ cache \in [Recipes -> Jobs \cup {Nobody}]
  /\ remote \in [Recipes -> Jobs \cup {Nobody}]
  /\ exports \in 0 .. Cardinality(Jobs)
  /\ rank \in [Jobs -> 0 .. exports]

Init ==
  /\ recipe \in [Jobs -> Recipes]
  /\ stage = [j \in Jobs |-> "queued"]
  /\ tool = [j \in Jobs |-> "none"]
  /\ toSend = [j \in Jobs |-> {}]
  /\ cache = [r \in Recipes |-> Nobody]
  /\ remote = [r \in Recipes |-> Nobody]
  /\ exports = 0
  /\ rank = [j \in Jobs |-> 0]

Goes(j, s, t) ==
  /\ stage' = [stage EXCEPT ![j] = s]
  /\ tool' = [tool EXCEPT ![j] = t]

----------------------------------------------------------------------------
(* publish_conan_with_exe.                                                 *)

Begin(j) ==
  /\ stage[j] = "queued"
  /\ Goes(j, "exporting", "exporting")
  /\ UNCHANGED <<recipe, toSend, cache, remote, exports, rank>>

\* The first command exits with 0, and the second is started.
ExportSucceeds(j) ==
  /\ stage[j] = "exporting" /\ tool[j] = "exported"
  /\ Goes(j, "uploading", "listing")
  /\ UNCHANGED <<recipe, toSend, cache, remote, exports, rank>>

\* Mutant of UploadSucceeds: the upload is started, not waited for.
UploadStarted(j) ==
  /\ stage[j] = "uploading"
  /\ stage' = [stage EXCEPT ![j] = "ok"]
  /\ UNCHANGED <<recipe, tool, toSend, cache, remote, exports, rank>>

\* The second command exits with 0 when everything it listed was sent.
UploadSucceeds(j) ==
  /\ stage[j] = "uploading" /\ tool[j] = "sending" /\ toSend[j] = {}
  /\ Goes(j, "ok", "none")
  /\ UNCHANGED <<recipe, toSend, cache, remote, exports, rank>>

\* A command fails, whatever it has done by then.
CommandFails(j) ==
  /\ stage[j] \in {"exporting", "uploading"}
  /\ Goes(j, "err", "none")
  /\ UNCHANGED <<recipe, toSend, cache, remote, exports, rank>>

\* The worker is killed; its conan process goes on.
Kill(j) ==
  /\ stage[j] \in {"exporting", "uploading"}
  /\ stage' = [stage EXCEPT ![j] = "killed"]
  /\ UNCHANGED <<recipe, tool, toSend, cache, remote, exports, rank>>

----------------------------------------------------------------------------
(* The conan processes.                                                    *)

Export(j) ==
  /\ tool[j] = "exporting"
  /\ tool' = [tool EXCEPT ![j] = "exported"]
  /\ cache' = [cache EXCEPT ![recipe[j]] = j]
  /\ exports' = exports + 1
  /\ rank' = [rank EXCEPT ![j] = exports']
  /\ UNCHANGED <<recipe, stage, toSend, remote>>

List(j) ==
  /\ tool[j] = "listing"
  /\ tool' = [tool EXCEPT ![j] = "sending"]
  /\ toSend' = [toSend EXCEPT ![j] = {r \in Recipes : cache[r] # Nobody}]
  /\ UNCHANGED <<recipe, stage, cache, remote, exports, rank>>

\* Mutant of Send: the upload names the job's own package.
SendOwn(j, r) ==
  /\ tool[j] = "sending" /\ r \in toSend[j]
  /\ toSend' = [toSend EXCEPT ![j] = @ \ {r}]
  /\ remote' = IF r = recipe[j] THEN [remote EXCEPT ![r] = j] ELSE remote
  /\ UNCHANGED <<recipe, stage, tool, cache, exports, rank>>

Send(j, r) ==
  /\ tool[j] = "sending" /\ r \in toSend[j]
  /\ toSend' = [toSend EXCEPT ![j] = @ \ {r}]
  /\ remote' = [remote EXCEPT ![r] = cache[r]]
  /\ UNCHANGED <<recipe, stage, tool, cache, exports, rank>>

Next ==
  \E j \in Jobs :
    \/ Begin(j) \/ ExportSucceeds(j) \/ UploadSucceeds(j) \/ CommandFails(j) \/ Kill(j)
    \/ Export(j) \/ List(j)
    \/ \E r \in Recipes : Send(j, r)

Spec == Init /\ [][Next]_vars

----------------------------------------------------------------------------
(* Properties.                                                             *)

Rank(k) == IF k = Nobody THEN 0 ELSE rank[k]

\* The remote shows the job's package, or one of its recipe exported later.
Shown(j) == rank[j] > 0 /\ Rank(remote[recipe[j]]) >= rank[j]

\* Ok(()) of a Conan job: the remote shows a package of its recipe that was
\* exported with this job or after it, however the exports and uploads of the
\* machine's workers interleave.
OkMeansCurrent == \A j \in Jobs : stage[j] = "ok" => Shown(j)

\* An upload that is slow, or that outlived its worker, never puts an older
\* package back in the place of a newer one.
NeverOlder == [][\A r \in Recipes : Rank(remote[r])' >= Rank(remote[r])]_vars

\* The inductive part: stages and processes go together, what the remote shows
\* is no newer than what is cached, and an upload that is done with a recipe
\* left it no older than its own export.
JobInv(j) ==
  /\ stage[j] = "queued" => tool[j] = "none" /\ rank[j] = 0
  /\ stage[j] = "uploading" => tool[j] \in {"listing", "sending"}
  /\ tool[j] = "exporting" => rank[j] = 0
  /\ tool[j] \in {"exported", "listing", "sending"} => rank[j] > 0
  /\ rank[j] <= Rank(cache[recipe[j]])
  /\ tool[j] = "sending" /\ recipe[j] \notin toSend[j] =>
       Rank(remote[recipe[j]]) >= rank[j]
  /\ stage[j] = "ok" => Shown(j)

RecipeInv(r) ==
  /\ Rank(remote[r]) <= Rank(cache[r])
  /\ remote[r] # Nobody => rank[remote[r]] > 0
  /\ cache[r] # Nobody => rank[cache[r]] > 0

CacheInv == (\A j \in Jobs : JobInv(j)) /\ \A r \in Recipes : RecipeInv(r)

\* Each job is the service call that PublisherWorker assumes, if a package is
\* taken when it or a later one of its recipe is shown: the call answers once,
\* "ok" only then, and what was taken is never taken back, also when another
\* job's upload, or one whose worker was killed, does the sending.
AnswerOf(j) == IF stage[j] \in {"ok", "err", "killed"} THEN stage[j] ELSE "none"
Call(j) == INSTANCE ServiceCall WITH taken <- Shown(j), answer <- AnswerOf(j)
CallSpec ==
  /\ \A j \in Jobs : Call(j)!Init
  /\ [][\A j \in Jobs : [Call(j)!Next]_(Call(j)!callVars)]_vars

=============================================================================
