--------------------------- MODULE DocsPublisher ---------------------------
(***************************************************************************)
(* The documentation publications of one release (docs_publish.rs): each   *)
(* job of the release may carry a DocsPublishJob, and two workers may run  *)
(* publish_docs for the same org, repo and version at once, towards the    *)
(* same places.  A publication is one request (a git push, a build hook, a *)
(* webhook), or, for the official site, one POST per document, awaited in  *)
(* turn.                                                                   *)
(*                                                                         *)
(* The hosts are external: a request whose answer was an error, or whose   *)
(* sender was killed, may still arrive, once and at any later time.        *)
(***************************************************************************)
EXTENDS Naturals

CONSTANTS
  Publications,   \* the calls of publish_docs
  Nobody,         \* the author of what was never published
  MaxAssets       \* bound: how many documents a publication has

ASSUME NobodyAssumption == Nobody \notin Publications
ASSUME MaxAssetsAssumption == MaxAssets \in Nat \ {0}

(***************************************************************************)
(* A document is named by its place in the order of collection: 1 is       *)
(* openapi.json, 2 is docs.json, and the files of docs/ follow in the      *)
(* order of their names.  The one request of the other targets is 1 too.   *)
(***************************************************************************)
Assets == 1 .. MaxAssets
OpenApi == 1

\* "linked": docs.rs, pkg.go.dev, javadoc.io, rubydoc.info, the Swift Package
\* Index and none, for which a URL is all that publish_docs makes.
Targets == {"official", "github_pages", "readthedocs", "custom_url", "linked"}

VARIABLES
  target,    \* the DocHostTarget of each publication
  able,      \* the token or URL that its target requires is there
  bundle,    \* the documents its working directory holds
  state,     \* "idle", "calling", "ok", "err" or "killed"
  left,      \* the requests it has still to make
  late,      \* the requests it gave up that may still arrive
  received,  \* history: the requests of it that have arrived
  place,     \* who wrote each document at each target last
  rivals     \* history: who else wrote at its target since it began

vars == <<target, able, bundle, state, left, late, received, place, rivals>>

TypeOK ==
  /\ target \in [Publications -> Targets]
  /\ able \in [Publications -> BOOLEAN]
  /\ bundle \in [Publications -> SUBSET Assets]
  /\ state \in [Publications -> {"idle", "calling", "ok", "err", "killed"}]
  /\ left \in [Publications -> SUBSET Assets]
  /\ late \in [Publications -> SUBSET Assets]
  /\ received \in [Publications -> SUBSET Assets]
  /\ place \in [Targets -> [Assets -> Publications \cup {Nobody}]]
  /\ rivals \in [Publications -> SUBSET Publications]

Init ==
  /\ target \in [Publications -> Targets]
  /\ able \in [Publications -> BOOLEAN]
  /\ bundle \in [Publications -> SUBSET Assets]
  /\ state = [p \in Publications |-> "idle"]
  /\ left = [p \in Publications |-> {}]
  /\ late = [p \in Publications |-> {}]
  /\ received = [p \in Publications |-> {}]
  /\ place = [t \in Targets |-> [a \in Assets |-> Nobody]]
  /\ rivals = [p \in Publications |-> {}]

----------------------------------------------------------------------------

\* collect_cdd_doc_assets: what there is, or a minimal openapi.json.
Collected(docs) == IF docs = {} THEN {OpenApi} ELSE docs

Requests(p) ==
  CASE target[p] = "official" -> Collected(bundle[p])
    [] target[p] = "linked" -> {}
    [] OTHER -> {1}

Requires(t) == t \in {"github_pages", "readthedocs", "custom_url"}

Become(p, s) == state' = [state EXCEPT ![p] = s]

\* publish_docs is called, and the target has what it needs.
Begin(p) ==
  /\ state[p] = "idle"
  /\ Requires(target[p]) => able[p]
  /\ left' = [left EXCEPT ![p] = Requests(p)]
  /\ Become(p, IF Requests(p) = {} THEN "ok" ELSE "calling")
  /\ UNCHANGED <<target, able, bundle, late, received, place, rivals>>

\* A token or the URL is missing, or a document cannot be read.
Refuse(p) ==
  /\ state[p] = "idle"
  /\ \/ Requires(target[p]) /\ ~able[p]
     \/ target[p] = "official"
  /\ Become(p, "err")
  /\ UNCHANGED <<target, able, bundle, left, late, received, place, rivals>>

\* Mutant of Turn: the requests are made in any order.
AnyTurn(p, a) == a \in left[p]

\* a is the request that is awaited.
Turn(p, a) == a \in left[p] /\ \A b \in left[p] : a <= b

\* Request a of p arrives: it overwrites what others put there.
Arrive(p, a) ==
  /\ received' = [received EXCEPT ![p] = @ \cup {a}]
  /\ place' = [place EXCEPT ![target[p]][a] = p]
  /\ rivals' = [q \in Publications |->
                  IF q # p /\ target[q] = target[p] /\ state[q] # "idle"
                  THEN rivals[q] \cup {p} ELSE rivals[q]]

\* Mutant of Answered: publish_docs returns after the first request.
AnsweredOnce(p) ==
  /\ state[p] = "calling"
  /\ \E a \in left[p] :
       /\ Turn(p, a)
       /\ Arrive(p, a)
       /\ left' = [left EXCEPT ![p] = @ \ {a}]
       /\ Become(p, "ok")
  /\ UNCHANGED <<target, able, bundle, late>>

\* Mutant of Answered: an error answer does not end the publication.
AnsweredAnyhow(p) ==
  /\ state[p] = "calling"
  /\ \E a \in left[p] :
       /\ Turn(p, a)
       /\ Arrive(p, a) \/ UNCHANGED <<received, place, rivals>>
       /\ left' = [left EXCEPT ![p] = @ \ {a}]
       /\ Become(p, IF left[p] = {a} THEN "ok" ELSE "calling")
  /\ UNCHANGED <<target, able, bundle, late>>

\* The awaited request succeeds: the next one is made, or publish_docs
\* returns the URL.
Answered(p) ==
  /\ state[p] = "calling"
  /\ \E a \in left[p] :
       /\ Turn(p, a)
       /\ Arrive(p, a)
       /\ left' = [left EXCEPT ![p] = @ \ {a}]
       /\ Become(p, IF left[p] = {a} THEN "ok" ELSE "calling")
  /\ UNCHANGED <<target, able, bundle, late>>

\* Mutant of Interrupted: the request is made again.
InterruptedRetried(p) ==
  /\ state[p] = "calling"
  /\ \E a \in left[p] : Turn(p, a) /\ late' = [late EXCEPT ![p] = @ \cup {a}]
  /\ UNCHANGED <<target, able, bundle, state, left, received, place, rivals>>

\* It fails, and publish_docs with it; or the process is killed.  What was
\* uploaded before stays, and the host may act on that request all the same.
Interrupted(p) ==
  /\ state[p] = "calling"
  /\ \E s \in {"err", "killed"} : Become(p, s)
  /\ \E a \in left[p] : Turn(p, a) /\ late' = [late EXCEPT ![p] = @ \cup {a}]
  /\ UNCHANGED <<target, able, bundle, left, received, place, rivals>>

LateArrival(p) ==
  /\ \E a \in late[p] : Arrive(p, a) /\ late' = [late EXCEPT ![p] = @ \ {a}]
  /\ UNCHANGED <<target, able, bundle, state, left>>

Next ==
  \E p \in Publications :
    Begin(p) \/ Refuse(p) \/ Answered(p) \/ Interrupted(p) \/ LateArrival(p)

Spec == Init /\ [][Next]_vars

----------------------------------------------------------------------------
(* Properties.                                                             *)

\* No document of a publication that succeeded is ever missing: what replaces
\* it is the same document of another publication of the release; with
\* publications at once the site may mix the documents of several.
NothingMissing ==
  \A p \in Publications : state[p] = "ok" =>
    \A a \in Requests(p) : place[target[p]][a] \in {p} \cup rivals[p]

\* A publication writes nothing more once it has reported success: the
\* documents of one that begins later stay, unless one that was then still
\* running, or had failed, writes over them.
OkIsFinal ==
  [][\A t \in Targets, a \in Assets :
       place'[t][a] # place[t][a] => state[place'[t][a]] # "ok"]_vars

\* Documents arrive in the order of collection, without a gap, also when a
\* publication fails half-way or its last request is late: openapi.json is
\* never missing from a site that shows later documents of a bundle with one.
ArrivedInOrder ==
  \A p \in Publications : \A a \in received[p], b \in Requests(p) :
    b < a => b \in received[p]

\* Each publication that makes a request is the service call that
\* PublisherWorker assumes: "ok" only when the host received all of it.
AnswerOf(p) == CASE state[p] \in {"idle", "calling"} -> "none" [] OTHER -> state[p]
Call(p) == INSTANCE ServiceCall WITH
  taken <- Requests(p) \subseteq received[p], answer <- AnswerOf(p)
CallSpec ==
  /\ \A p \in Publications : target[p] # "linked" => Call(p)!Init
  /\ [][\A p \in Publications :
          target[p] # "linked" => [Call(p)!Next]_(Call(p)!callVars)]_vars

=============================================================================
