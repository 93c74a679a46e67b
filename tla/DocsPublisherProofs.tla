------------------------ MODULE DocsPublisherProofs -------------------------
(***************************************************************************)
(* Proofs about DocsPublisher, for any number of publications and of       *)
(* documents.  The inductive invariant says of each publication which      *)
(* requests were made and which are left, in the order of collection, and  *)
(* of each document that arrived who wrote it last.                        *)
(***************************************************************************)
EXTENDS DocsPublisher, TLAPS

\* What is left comes after what was made, and what arrived has no gap.
InOrder(p) ==
  /\ left[p] \subseteq Requests(p) /\ received[p] \subseteq Requests(p)
  /\ \A a \in left[p], b \in Requests(p) : a < b => b \in left[p]
  /\ \A a \in received[p], b \in Requests(p) : b < a => b \in received[p]

\* How far a publication is in each state; the request that may arrive late is
\* the one that was awaited.
Progress(p) ==
  /\ state[p] = "idle" => left[p] = {} /\ received[p] = {}
  /\ state[p] = "calling" \/ late[p] # {} => received[p] = Requests(p) \ left[p]
  /\ state[p] = "calling" => left[p] # {}
  /\ late[p] # {} => state[p] \in {"err", "killed"}
  /\ \A a \in late[p] : Turn(p, a)
  /\ state[p] = "ok" => received[p] = Requests(p)

Shown(p) ==
  \A a \in received[p] : place[target[p]][a] \in {p} \cup rivals[p]

DocsInv ==
  /\ TypeOK
  /\ \A p \in Publications : InOrder(p) /\ Progress(p) /\ Shown(p)

LEMMA RequestsAreAssets ==
  ASSUME TypeOK, NEW p \in Publications
  PROVE  Requests(p) \subseteq Assets
<1>1. OpenApi \in Assets /\ 1 \in Assets
  BY MaxAssetsAssumption DEF OpenApi, Assets
<1>2. bundle[p] \subseteq Assets
  BY DEF TypeOK
<1> QED
  BY <1>1, <1>2 DEF Requests, Collected

LEMMA DocsInit == Init => DocsInv
<1> SUFFICES ASSUME Init PROVE DocsInv
  OBVIOUS
<1>1. TypeOK
  BY DEF Init, TypeOK
<1>2. ASSUME NEW p \in Publications PROVE InOrder(p) /\ Progress(p) /\ Shown(p)
  BY <1>2 DEF Init, InOrder, Progress, Shown
<1> QED
  BY <1>1, <1>2 DEF DocsInv

\* A publication of which nothing changes but what others do to its place.
LEMMA Bystander ==
  ASSUME DocsInv, NEW q \in Publications,
         target' = target, bundle' = bundle,
         state'[q] = state[q], left'[q] = left[q], late'[q] = late[q],
         received'[q] = received[q]
  PROVE  InOrder(q)' /\ Progress(q)'
<1>1. InOrder(q) /\ Progress(q)
  BY DEF DocsInv
<1>2. Requests(q)' = Requests(q)
  BY DEF Requests
<1>3. InOrder(q)'
  BY <1>1, <1>2 DEF InOrder
<1>4. Progress(q)'
  BY <1>1, <1>2 DEF Progress, Turn
<1> QED
  BY <1>3, <1>4

\* The state of one publication changes, and nothing arrives.
LEMMA QuietStep ==
  ASSUME DocsInv, NEW p \in Publications,
         UNCHANGED <<target, able, bundle, received, place, rivals>>,
         NEW s \in {"idle", "calling", "ok", "err", "killed"}, Become(p, s),
         \A q \in Publications \ {p} : left'[q] = left[q] /\ late'[q] = late[q],
         left' \in [Publications -> SUBSET Assets],
         late' \in [Publications -> SUBSET Assets],
         InOrder(p)', Progress(p)'
  PROVE  DocsInv'
<1> USE DEF DocsInv
<1>1. TypeOK'
  BY DEF TypeOK, Become
<1>2. ASSUME NEW q \in Publications \ {p} PROVE InOrder(q)' /\ Progress(q)'
  <2>1. state'[q] = state[q]
    BY DEF TypeOK, Become
  <2> QED
    BY <2>1, <1>2, Bystander
<1>3. ASSUME NEW q \in Publications PROVE Shown(q)'
  <2>1. Shown(q)
    OBVIOUS
  <2> QED
    BY <2>1 DEF Shown
<1> QED
  BY <1>1, <1>2, <1>3

LEMMA BeginInv ==
  ASSUME DocsInv, NEW p \in Publications, Begin(p)
  PROVE  DocsInv'
<1> DEFINE s == IF Requests(p) = {} THEN "ok" ELSE "calling"
<1>1. InOrder(p) /\ Progress(p) /\ TypeOK
  BY DEF DocsInv
<1>2. /\ left' = [left EXCEPT ![p] = Requests(p)]
      /\ Become(p, s) /\ late' = late /\ received' = received
      /\ UNCHANGED <<target, able, bundle, place, rivals>>
  BY DEF Begin
<1>3. left'[p] = Requests(p) /\ state'[p] = s /\ received'[p] = {} /\ late'[p] = {}
  BY <1>1, <1>2 DEF TypeOK, Become, Begin, Progress
<1>4. Requests(p)' = Requests(p)
  BY <1>2 DEF Requests
<1>5. InOrder(p)'
  BY <1>3, <1>4 DEF InOrder
<1>6. Progress(p)'
  BY <1>3, <1>4 DEF Progress
<1>7. Requests(p) \subseteq Assets
  BY <1>1, RequestsAreAssets
<1>8. /\ left' \in [Publications -> SUBSET Assets]
      /\ \A q \in Publications \ {p} : left'[q] = left[q] /\ late'[q] = late[q]
      /\ late' \in [Publications -> SUBSET Assets]
  BY <1>1, <1>2, <1>7 DEF TypeOK
<1>9. s \in {"idle", "calling", "ok", "err", "killed"}
  OBVIOUS
<1> HIDE DEF s
<1> QED
  BY <1>2, <1>5, <1>6, <1>8, <1>9, QuietStep

LEMMA RefuseInv ==
  ASSUME DocsInv, NEW p \in Publications, Refuse(p)
  PROVE  DocsInv'
<1>1. InOrder(p) /\ Progress(p) /\ TypeOK
  BY DEF DocsInv
<1>2. /\ UNCHANGED <<target, able, bundle, left, late, received, place, rivals>>
      /\ Become(p, "err") /\ state'[p] = "err" /\ state[p] = "idle"
  BY <1>1 DEF Refuse, Become, TypeOK
<1>3. Requests(p)' = Requests(p)
  BY <1>2 DEF Requests
<1>4. InOrder(p)'
  BY <1>1, <1>2, <1>3 DEF InOrder
<1>5. Progress(p)'
  BY <1>1, <1>2, <1>3 DEF Progress, Turn
<1>6. left' \in [Publications -> SUBSET Assets] /\ late' \in [Publications -> SUBSET Assets]
  BY <1>1, <1>2 DEF TypeOK
<1> QED
  BY <1>2, <1>4, <1>5, <1>6, QuietStep

LEMMA InterruptedInv ==
  ASSUME DocsInv, NEW p \in Publications, Interrupted(p)
  PROVE  DocsInv'
<1>1. InOrder(p) /\ Progress(p) /\ TypeOK
  BY DEF DocsInv
<1>2. PICK s \in {"err", "killed"} : Become(p, s)
  BY DEF Interrupted
<1>3. /\ UNCHANGED <<target, able, bundle, left, received, place, rivals>>
      /\ state'[p] = s /\ state[p] = "calling"
  BY <1>1, <1>2 DEF Interrupted, Become, TypeOK
<1>8. PICK a \in left[p] : Turn(p, a) /\ late' = [late EXCEPT ![p] = @ \cup {a}]
  BY DEF Interrupted
<1>9. late[p] = {} /\ late'[p] = {a} /\ left'[p] = left[p] /\ a \in Assets
  BY <1>1, <1>3, <1>8 DEF Progress, TypeOK
<1>4. Requests(p)' = Requests(p)
  BY <1>3 DEF Requests
<1>5. InOrder(p)'
  BY <1>1, <1>3, <1>4 DEF InOrder
<1>6. Progress(p)'
  BY <1>1, <1>3, <1>4, <1>8, <1>9 DEF Progress, Turn
<1>7. /\ left' \in [Publications -> SUBSET Assets]
      /\ late' \in [Publications -> SUBSET Assets]
      /\ \A q \in Publications \ {p} : left'[q] = left[q] /\ late'[q] = late[q]
  BY <1>1, <1>3, <1>8, <1>9 DEF TypeOK
<1> QED
  BY <1>2, <1>3, <1>5, <1>6, <1>7, QuietStep

\* A request arrives: what it overwrites belongs to publications that have
\* its author among their rivals from now on.
LEMMA ArriveShown ==
  ASSUME DocsInv, NEW p \in Publications, NEW a \in Assets, Arrive(p, a),
         state[p] # "idle", target' = target
  PROVE  /\ \A q \in Publications : Shown(q)'
         /\ received' \in [Publications -> SUBSET Assets]
         /\ place' \in [Targets -> [Assets -> Publications \cup {Nobody}]]
         /\ rivals' \in [Publications -> SUBSET Publications]
<1>1. TypeOK
  BY DEF DocsInv
<1>2. /\ received' = [received EXCEPT ![p] = @ \cup {a}]
      /\ place' = [place EXCEPT ![target[p]] = [@ EXCEPT ![a] = p]]
      /\ rivals' = [q \in Publications |->
                      IF q # p /\ target[q] = target[p] /\ state[q] # "idle"
                      THEN rivals[q] \cup {p} ELSE rivals[q]]
  BY DEF Arrive
<1>3. /\ received' \in [Publications -> SUBSET Assets]
      /\ place' \in [Targets -> [Assets -> Publications \cup {Nobody}]]
      /\ rivals' \in [Publications -> SUBSET Publications]
  BY <1>1, <1>2 DEF TypeOK
<1>4. ASSUME NEW q \in Publications, NEW b \in received'[q]
      PROVE  place'[target[q]][b] \in {q} \cup rivals'[q]
  <2>1. CASE q = p /\ b = a
    BY <2>1, <1>1, <1>2 DEF TypeOK
  <2>2. CASE ~(q = p /\ b = a)
    <3>1. b \in received[q] /\ b \in Assets
      BY <2>2, <1>1, <1>2, <1>4 DEF TypeOK
    <3>2. CASE target[q] = target[p] /\ b = a
      <4>1. q # p /\ state[q] # "idle"
        BY <2>2, <3>1, <3>2 DEF DocsInv, Progress
      <4>2. p \in rivals'[q] /\ place'[target[q]][b] = p
        BY <3>2, <4>1, <1>1, <1>2 DEF TypeOK
      <4> QED
        BY <4>2
    <3>3. CASE ~(target[q] = target[p] /\ b = a)
      <4>1. place'[target[q]][b] = place[target[q]][b]
        BY <3>1, <3>3, <1>1, <1>2 DEF TypeOK
      <4>2. Shown(q)
        BY DEF DocsInv
      <4>3. rivals[q] \subseteq rivals'[q]
        BY <1>1, <1>2 DEF TypeOK
      <4> QED
        BY <3>1, <4>1, <4>2, <4>3 DEF Shown
    <3> QED
      BY <3>2, <3>3
  <2> QED
    BY <2>1, <2>2
<1>5. \A q \in Publications : Shown(q)'
  BY <1>4 DEF Shown
<1> QED
  BY <1>3, <1>5

LEMMA Antisymmetric ==
  ASSUME NEW m \in Nat, NEW n \in Nat, m <= n, n < m
  PROVE  FALSE
  OBVIOUS

\* Only one request is awaited at a time.
LEMMA OneTurn ==
  ASSUME TypeOK, NEW p \in Publications, NEW a, Turn(p, a), NEW b, Turn(p, b)
  PROVE  a = b
<1>1. a \in Nat /\ b \in Nat
  BY MaxAssetsAssumption DEF Turn, TypeOK, Assets
<1>2. a <= b /\ b <= a
  BY DEF Turn
<1> QED
  BY <1>1, <1>2

\* The request that arrives is the next one: what arrived stays without gap.
LEMMA NextInOrder ==
  ASSUME DocsInv, NEW p \in Publications, NEW a \in left[p], Turn(p, a),
         received[p] = Requests(p) \ left[p],
         target' = target, bundle' = bundle,
         received'[p] = received[p] \cup {a},
         left'[p] = left[p] \/ left'[p] = left[p] \ {a}
  PROVE  InOrder(p)'
<1>1. InOrder(p) /\ TypeOK
  BY DEF DocsInv
<1>2. Requests(p)' = Requests(p)
  BY DEF Requests
<1>3. Requests(p) \subseteq Assets /\ Assets \subseteq Nat
  BY <1>1, RequestsAreAssets, MaxAssetsAssumption DEF Assets
<1>6. left'[p] \subseteq Requests(p) /\ received'[p] \subseteq Requests(p)
  BY <1>1 DEF InOrder
<1>4. ASSUME NEW x \in left'[p], NEW b \in Requests(p), x < b PROVE b \in left'[p]
  <2>1. x \in left[p] /\ b \in left[p]
    BY <1>1, <1>4 DEF InOrder
  <2>2. CASE left'[p] = left[p] \ {a}
    <3>1. a <= x
      BY <2>1 DEF Turn
    <3>2. b # a
      BY <3>1, <2>1, <1>6, <1>3, <1>4, Antisymmetric
    <3> QED
      BY <3>2, <2>1, <2>2
  <2> QED
    BY <2>1, <2>2
<1>5. ASSUME NEW x \in received'[p], NEW b \in Requests(p), b < x
      PROVE  b \in received'[p]
  <2>1. CASE x = a
    <3>1. b \in left[p] => a <= b
      BY DEF Turn
    <3>2. b \notin left[p]
      BY <3>1, <2>1, <1>1, <1>3, <1>5, Antisymmetric DEF InOrder
    <3> QED
      BY <3>2
  <2>2. CASE x \in received[p]
    BY <2>2, <1>1, <1>5 DEF InOrder
  <2> QED
    BY <2>1, <2>2
<1> QED
  BY <1>2, <1>4, <1>5, <1>6 DEF InOrder

LEMMA AnsweredInv ==
  ASSUME DocsInv, NEW p \in Publications, Answered(p)
  PROVE  DocsInv'
<1>1. InOrder(p) /\ Progress(p) /\ TypeOK
  BY DEF DocsInv
<1>2. PICK a \in left[p] :
        /\ Turn(p, a) /\ Arrive(p, a)
        /\ left' = [left EXCEPT ![p] = @ \ {a}]
        /\ Become(p, IF left[p] = {a} THEN "ok" ELSE "calling")
  BY DEF Answered
<1>3. /\ state[p] = "calling" /\ a \in Assets
      /\ UNCHANGED <<target, able, bundle, late>>
  BY <1>1 DEF Answered, TypeOK
<1>4. /\ received[p] = Requests(p) \ left[p] /\ late[p] = {}
      /\ a \in Requests(p) /\ left[p] \subseteq Requests(p)
  BY <1>1, <1>3 DEF Progress, InOrder
<1>5. /\ received'[p] = received[p] \cup {a}
      /\ left'[p] = left[p] \ {a}
      /\ state'[p] = IF left[p] = {a} THEN "ok" ELSE "calling"
      /\ \A q \in Publications \ {p} :
           /\ state'[q] = state[q] /\ left'[q] = left[q]
           /\ received'[q] = received[q]
      /\ left' \in [Publications -> SUBSET Assets]
      /\ state' \in [Publications -> {"idle", "calling", "ok", "err", "killed"}]
  BY <1>1, <1>2, <1>3 DEF TypeOK, Arrive, Become
<1>6. /\ \A q \in Publications : Shown(q)'
      /\ received' \in [Publications -> SUBSET Assets]
      /\ place' \in [Targets -> [Assets -> Publications \cup {Nobody}]]
      /\ rivals' \in [Publications -> SUBSET Publications]
  BY <1>2, <1>3, ArriveShown
<1>7. TypeOK'
  BY <1>1, <1>3, <1>5, <1>6 DEF TypeOK
<1>8. InOrder(p)'
  BY <1>2, <1>3, <1>4, <1>5, NextInOrder
<1>9. Progress(p)'
  <2>1. Requests(p)' = Requests(p)
    BY <1>3 DEF Requests
  <2>2. received'[p] = Requests(p) \ left'[p]
    BY <1>4, <1>5
  <2>3. late'[p] = {}
    BY <1>3, <1>4
  <2> QED
    BY <1>5, <2>1, <2>2, <2>3 DEF Progress
<1>10. ASSUME NEW q \in Publications \ {p} PROVE InOrder(q)' /\ Progress(q)'
  BY <1>3, <1>5, Bystander
<1> QED
  BY <1>6, <1>7, <1>8, <1>9, <1>10 DEF DocsInv

LEMMA LateInv ==
  ASSUME DocsInv, NEW p \in Publications, LateArrival(p)
  PROVE  DocsInv'
<1>1. InOrder(p) /\ Progress(p) /\ TypeOK
  BY DEF DocsInv
<1>2. PICK a \in late[p] : Arrive(p, a) /\ late' = [late EXCEPT ![p] = @ \ {a}]
  BY DEF LateArrival
<1>3. /\ a \in left[p] /\ a \in Assets /\ Turn(p, a)
      /\ UNCHANGED <<target, able, bundle, state, left>>
  BY <1>1, <1>2 DEF LateArrival, TypeOK, Progress, Turn
<1>4. received[p] = Requests(p) \ left[p] /\ state[p] \in {"err", "killed"}
  BY <1>1, <1>2 DEF Progress
<1>11. late[p] = {a}
  BY <1>1, <1>2, <1>3, OneTurn DEF Progress
<1>5. /\ received'[p] = received[p] \cup {a} /\ late'[p] = {}
      /\ \A q \in Publications \ {p} :
           late'[q] = late[q] /\ received'[q] = received[q]
      /\ late' \in [Publications -> SUBSET Assets]
  BY <1>1, <1>2, <1>3, <1>11 DEF TypeOK, Arrive
<1>6. /\ \A q \in Publications : Shown(q)'
      /\ received' \in [Publications -> SUBSET Assets]
      /\ place' \in [Targets -> [Assets -> Publications \cup {Nobody}]]
      /\ rivals' \in [Publications -> SUBSET Publications]
  BY <1>2, <1>3, <1>4, ArriveShown
<1>7. TypeOK'
  BY <1>1, <1>3, <1>5, <1>6 DEF TypeOK
<1>8. InOrder(p)'
  BY <1>2, <1>3, <1>4, <1>5, NextInOrder
<1>9. Progress(p)'
  BY <1>3, <1>4, <1>5 DEF Progress
<1>10. ASSUME NEW q \in Publications \ {p} PROVE InOrder(q)' /\ Progress(q)'
  BY <1>3, <1>5, Bystander
<1> QED
  BY <1>6, <1>7, <1>8, <1>9, <1>10 DEF DocsInv

LEMMA DocsStep == DocsInv /\ [Next]_vars => DocsInv'
<1> SUFFICES ASSUME DocsInv, [Next]_vars PROVE DocsInv'
  OBVIOUS
<1>1. CASE UNCHANGED vars
  <2>1. TypeOK'
    BY <1>1 DEF DocsInv, TypeOK, vars
  <2>2. ASSUME NEW q \in Publications PROVE InOrder(q)' /\ Progress(q)' /\ Shown(q)'
    <3>1. Shown(q)
      BY DEF DocsInv
    <3>2. Shown(q)'
      BY <1>1, <3>1 DEF Shown, vars
    <3> QED
      BY <1>1, <3>2, Bystander DEF vars
  <2> QED
    BY <2>1, <2>2 DEF DocsInv
<1>2. CASE Next
  BY <1>2, BeginInv, RefuseInv, AnsweredInv, InterruptedInv, LateInv DEF Next
<1> QED
  BY <1>1, <1>2

\* DocsInv holds in every reachable state.
THEOREM DocsInductive == Spec => []DocsInv
<1> QED
  BY DocsStep, DocsInit, PTL DEF Spec

\* Every variable of the publications has its type (docs_publish.rs,
\* publish_docs and the functions it calls).
THEOREM DocsTypes == Spec => []TypeOK
<1>1. DocsInv => TypeOK
  BY DEF DocsInv
<1> QED
  BY <1>1, DocsInductive, PTL

\* No document of a publication that succeeded is missing from its target,
\* whatever others write there.
THEOREM Nothing == Spec => []NothingMissing
<1>1. DocsInv => NothingMissing
  BY DEF DocsInv, NothingMissing, Progress, Shown
<1> QED
  BY <1>1, DocsInductive, PTL

\* A publication writes nothing more once publish_docs has returned a URL:
\* the documents of one that begins later are safe from it.
THEOREM Final == Spec => OkIsFinal
<1> DEFINE Kept == \A t \in Targets, a \in Assets :
                     place'[t][a] # place[t][a] => state[place'[t][a]] # "ok"
<1>1. ASSUME DocsInv, [Next]_vars, NEW t \in Targets, NEW a \in Assets,
             place'[t][a] # place[t][a]
      PROVE  state[place'[t][a]] # "ok"
  <2>1. PICK p \in Publications : Answered(p) \/ LateArrival(p)
    BY <1>1 DEF Next, vars, Begin, Refuse, Interrupted
  <2>2. state[p] # "ok"
    BY <1>1, <2>1 DEF Answered, LateArrival, DocsInv, Progress
  <2>3. PICK b : Arrive(p, b)
    BY <2>1 DEF Answered, LateArrival
  <2>4. place'[t][a] = p
    BY <1>1, <2>3 DEF Arrive, DocsInv, TypeOK
  <2> QED
    BY <2>2, <2>4
<1>2. DocsInv /\ [Next]_vars => Kept
  BY <1>1
<1> QED
  BY <1>2, DocsInductive, PTL DEF Spec, OkIsFinal

\* Documents arrive in the order in which collect_cdd_doc_assets lists them.
THEOREM Ordered == Spec => []ArrivedInOrder
<1>1. DocsInv => ArrivedInOrder
  BY DEF DocsInv, ArrivedInOrder, InOrder
<1> QED
  BY <1>1, DocsInductive, PTL

\* How the state of a publication that makes requests may change.
Moves(p) ==
  /\ state[p] \in {"idle", "calling"}
  /\ state'[p] \in {"calling", "ok", "err", "killed"}

LEMMA StatesInOrder ==
  ASSUME TypeOK, [Next]_vars, NEW p \in Publications
  PROVE  /\ target' = target /\ bundle' = bundle
         /\ received[p] \subseteq received'[p]
         /\ state'[p] = state[p] \/ Moves(p)
<1>1. CASE UNCHANGED vars
  BY <1>1 DEF vars
<1>2. ASSUME NEW q \in Publications,
             Begin(q) \/ Refuse(q) \/ Answered(q) \/ Interrupted(q) \/ LateArrival(q)
      PROVE  /\ target' = target /\ bundle' = bundle
             /\ received[p] \subseteq received'[p]
             /\ state'[p] = state[p] \/ Moves(p)
  <2>1. CASE Begin(q)
    BY <2>1 DEF Begin, Become, Moves, TypeOK
  <2>2. CASE Refuse(q)
    BY <2>2 DEF Refuse, Become, Moves, TypeOK
  <2>3. CASE Answered(q)
    BY <2>3 DEF Answered, Arrive, Become, Moves, TypeOK
  <2>4. CASE Interrupted(q)
    BY <2>4 DEF Interrupted, Become, Moves, TypeOK
  <2>5. CASE LateArrival(q)
    BY <2>5 DEF LateArrival, Arrive, TypeOK
  <2> QED
    BY <1>2, <2>1, <2>2, <2>3, <2>4, <2>5
<1> QED
  BY <1>1, <1>2 DEF Next

\* Each publication that makes a request is the service call that
\* PublisherWorker relies on: "ok" only when the host has received all of it.
THEOREM CallsImplement == Spec => CallSpec
<1> DEFINE CallInit == \A p \in Publications : target[p] # "linked" => Call(p)!Init
           CallStep == \A p \in Publications :
                         target[p] # "linked" => [Call(p)!Next]_(Call(p)!callVars)
<1>1. Init => CallInit
  <2> SUFFICES ASSUME Init, NEW p \in Publications, target[p] # "linked"
               PROVE  Call(p)!Init
    OBVIOUS
  <2>1. Requests(p) # {} /\ received[p] = {} /\ state[p] = "idle"
    BY DEF Init, Requests, Collected
  <2> QED
    BY <2>1 DEF Call!Init, AnswerOf
<1>2. DocsInv /\ [Next]_vars => CallStep
  <2> SUFFICES ASSUME DocsInv, [Next]_vars,
                      NEW p \in Publications, target[p] # "linked"
               PROVE  [Call(p)!Next]_(Call(p)!callVars)
    OBVIOUS
  <2>1. DocsInv' /\ TypeOK /\ Progress(p)
    BY DocsStep DEF DocsInv
  <2>2. /\ target' = target /\ bundle' = bundle
        /\ received[p] \subseteq received'[p]
        /\ state'[p] = state[p] \/ Moves(p)
    BY <2>1, StatesInOrder
  <2>3. Requests(p)' = Requests(p)
    BY <2>2 DEF Requests
  <2> DEFINE Taken == Requests(p) \subseteq received[p]
             Before == AnswerOf(p)
             After == AnswerOf(p)'
  <2>4. Taken => Taken'
    BY <2>2, <2>3
  <2>5. /\ state[p] \in {"idle", "calling"} => Before = "none"
        /\ state[p] \notin {"idle", "calling"} => Before = state[p]
        /\ state'[p] \in {"idle", "calling"} => After = "none"
        /\ state'[p] \notin {"idle", "calling"} => After = state'[p]
    BY DEF AnswerOf
  <2>6. /\ state[p] = "ok" => Taken
        /\ state'[p] = "ok" => Taken'
    BY <2>1 DEF DocsInv, Progress
  <2>7. state[p] \in {"idle", "calling", "ok", "err", "killed"}
    BY <2>1 DEF TypeOK
  <2>8. Taken \in BOOLEAN /\ Taken' \in BOOLEAN
    OBVIOUS
  <2> HIDE DEF Taken, Before, After
  <2>9. CASE state'[p] = state[p]
    <3>1. After = Before
      BY <2>5, <2>9
    <3>2. Before = "ok" => Taken
      BY <2>5, <2>6, <2>7
    <3>3. (After = Before /\ Taken' = Taken)
          \/ (Before # "ok" /\ Taken' = TRUE /\ After = Before)
      BY <3>1, <3>2, <2>4, <2>8
    <3> QED
      BY <3>3 DEF Call!Next, Call!Take, Call!callVars, Taken, Before, After
  <2>10. CASE Moves(p)
    <3>1. CASE state'[p] = "ok"
      <4>1. Before = "none" /\ After = "ok" /\ Taken' = TRUE
        BY <3>1, <2>10, <2>5, <2>6, <2>8 DEF Moves
      <4> QED
        BY <4>1 DEF Call!Next, Call!Succeed, Taken, Before, After
    <3>2. CASE state'[p] \in {"err", "killed"}
      <4>1. /\ Before = "none" /\ After \in {"err", "killed"}
            /\ Taken' \in {Taken, TRUE}
        BY <3>2, <2>10, <2>4, <2>5, <2>8 DEF Moves
      <4> QED
        BY <4>1 DEF Call!Next, Call!Fail, Taken, Before, After
    <3>3. CASE state'[p] = "calling"
      <4>1. After = Before /\ Before # "ok" /\ (Taken' = Taken \/ Taken' = TRUE)
        BY <3>3, <2>10, <2>4, <2>5, <2>8 DEF Moves
      <4> QED
        BY <4>1 DEF Call!Next, Call!Take, Call!callVars, Taken, Before, After
    <3> QED
      BY <2>10, <3>1, <3>2, <3>3 DEF Moves
  <2> QED
    BY <2>2, <2>9, <2>10
<1> QED
  BY <1>1, <1>2, DocsInductive, PTL DEF Spec, CallSpec

=============================================================================
