-------------------------- MODULE ConanCacheProofs --------------------------
(***************************************************************************)
(* For any number of jobs and recipes: the remote never goes back to an    *)
(* older package, a job that succeeded finds its own there or a newer, and *)
(* each job is the call that PublisherWorker relies on.                    *)
(***************************************************************************)
EXTENDS ConanCache, FiniteSetTheorems, TLAPS

\* The types, but for how many exports there can be.
Types ==
  /\ recipe \in [Jobs -> Recipes]
  /\ stage \in [Jobs -> Stages]
  /\ tool \in [Jobs -> Tools]
  /\ toSend \in [Jobs -> SUBSET Recipes]
  /\ cache \in [Recipes -> Jobs \cup {Nobody}]
  /\ remote \in [Recipes -> Jobs \cup {Nobody}]
  /\ exports \in Nat
  /\ rank \in [Jobs -> 0 .. exports]

\* A rank is a number, no larger than that of the last export.
LEMMA RankNat ==
  ASSUME Types, NEW k \in Jobs \cup {Nobody}
  PROVE  Rank(k) \in Nat /\ Rank(k) <= exports
BY NobodyAssumption DEF Types, Rank

\* The initial states.
LEMMA CacheInit == Init => Types /\ CacheInv
<1> SUFFICES ASSUME Init PROVE Types /\ CacheInv
  OBVIOUS
<1>1. Types
  BY DEF Init, Types, Stages, Tools
<1>2. \A r \in Recipes : cache[r] = Nobody /\ remote[r] = Nobody
  BY DEF Init
<1>3. \A j \in Jobs : recipe[j] \in Recipes /\ stage[j] = "queued" /\ tool[j] = "none" /\ rank[j] = 0
  BY DEF Init
<1>4. Rank(Nobody) = 0
  BY DEF Rank
<1> QED
  BY <1>1, <1>2, <1>3, <1>4 DEF CacheInv, JobInv, Shown, RecipeInv

\* A step that exports and sends nothing leaves the ranks.
LEMMA RanksStay ==
  ASSUME UNCHANGED <<cache, remote, rank>>
  PROVE  \A r \in Recipes : /\ Rank(cache[r])' = Rank(cache[r])
                            /\ Rank(remote[r])' = Rank(remote[r])
BY DEF Rank

\* An export gives its job the highest rank, and changes no other rank.
LEMMA ExportRanks ==
  ASSUME Types, CacheInv, NEW j \in Jobs, Export(j)
  PROVE  /\ rank[j] = 0 /\ rank'[j] = exports + 1
         /\ \A k \in Jobs : k # j => rank'[k] = rank[k]
         /\ \A r \in Recipes : remote'[r] = remote[r] /\ Rank(remote[r])' = Rank(remote[r])
         /\ \A r \in Recipes : IF r = recipe[j] THEN Rank(cache[r])' = exports + 1
                               ELSE Rank(cache[r])' = Rank(cache[r])
<1>1. rank[j] = 0 /\ rank' = [rank EXCEPT ![j] = exports + 1] /\ UNCHANGED <<remote, recipe>>
      /\ cache' = [cache EXCEPT ![recipe[j]] = j]
  BY DEF Export, CacheInv, JobInv
<1>2. rank'[j] = exports + 1 /\ \A k \in Jobs : k # j => rank'[k] = rank[k]
  BY <1>1 DEF Types
<1>3. \A r \in Recipes : remote[r] # j /\ cache[r] # j
  BY <1>1, NobodyAssumption DEF CacheInv, RecipeInv
<1>4. ASSUME NEW r \in Recipes PROVE Rank(remote[r])' = Rank(remote[r])
  BY <1>1, <1>2, <1>3 DEF Rank, Types
<1>5. ASSUME NEW r \in Recipes, r # recipe[j] PROVE Rank(cache[r])' = Rank(cache[r])
  BY <1>1, <1>2, <1>3, <1>5 DEF Rank, Types
<1>6. Rank(cache[recipe[j]])' = exports + 1
  BY <1>1, <1>2, NobodyAssumption DEF Rank, Types
<1> QED
  BY <1>1, <1>2, <1>4, <1>5, <1>6

\* Sending a recipe shows what is cached of it, and nothing else changes.
LEMMA SendRanks ==
  ASSUME Types, NEW j \in Jobs, NEW r \in Recipes, Send(j, r)
  PROVE  /\ remote'[r] = cache[r] /\ Rank(remote[r])' = Rank(cache[r])
         /\ \A q \in Recipes : q # r => remote'[q] = remote[q] /\ Rank(remote[q])' = Rank(remote[q])
         /\ \A q \in Recipes : Rank(cache[q])' = Rank(cache[q])
BY DEF Send, Rank, Types

\* The types are kept.
LEMMA TypesNext == Types /\ [Next]_vars => Types'
<1> SUFFICES ASSUME Types, [Next]_vars PROVE Types'
  OBVIOUS
<1>1. ASSUME NEW j \in Jobs,
             Begin(j) \/ ExportSucceeds(j) \/ UploadSucceeds(j) \/ CommandFails(j) \/ Kill(j)
      PROVE  Types'
  BY <1>1 DEF Begin, ExportSucceeds, UploadSucceeds, CommandFails, Kill, Goes, Types, Stages, Tools
<1>2. ASSUME NEW j \in Jobs, Export(j) PROVE Types'
  <2>1. rank' \in [Jobs -> 0 .. exports'] /\ exports' \in Nat
    <3>1. exports' = exports + 1 /\ rank' = [rank EXCEPT ![j] = exports + 1]
      BY <1>2 DEF Export
    <3> QED
      BY <3>1 DEF Types
  <2> QED
    BY <1>2, <2>1 DEF Export, Types, Tools
<1>3. ASSUME NEW j \in Jobs, List(j) PROVE Types'
  BY <1>3 DEF List, Types, Tools
<1>4. ASSUME NEW j \in Jobs, NEW r \in Recipes, Send(j, r) PROVE Types'
  BY <1>4 DEF Send, Types
<1>5. CASE UNCHANGED vars
  BY <1>5 DEF vars, Types
<1> QED
  BY <1>1, <1>2, <1>3, <1>4, <1>5 DEF Next

\* A step of publish_conan_with_exe itself only moves on.
LEMMA CallInv ==
  ASSUME Types, CacheInv, NEW j \in Jobs,
         Begin(j) \/ ExportSucceeds(j) \/ UploadSucceeds(j) \/ CommandFails(j) \/ Kill(j)
  PROVE  CacheInv'
<1>1. UNCHANGED <<recipe, cache, remote, rank, toSend>>
  BY DEF Begin, ExportSucceeds, UploadSucceeds, CommandFails, Kill
<1>2. ASSUME NEW r \in Recipes PROVE RecipeInv(r)'
  BY <1>1 DEF CacheInv, RecipeInv, Rank
<1>3. ASSUME NEW k \in Jobs PROVE JobInv(k)'
  <2>1. Rank(cache[recipe[k]])' = Rank(cache[recipe[k]]) /\ Rank(remote[recipe[k]])' = Rank(remote[recipe[k]])
    BY <1>1 DEF Rank
  <2>2. JobInv(k)
    BY DEF CacheInv
  <2>3. CASE k # j
    <3>1. UNCHANGED <<stage[k], tool[k]>>
      BY <2>3 DEF Begin, ExportSucceeds, UploadSucceeds, CommandFails, Kill, Goes, Types
    <3> QED
      BY <1>1, <2>1, <2>2, <3>1 DEF JobInv, Shown
  <2>4. CASE k = j
    BY <1>1, <2>1, <2>2, <2>4
    DEF JobInv, Shown, Begin, ExportSucceeds, UploadSucceeds, CommandFails, Kill, Goes, Types
  <2> QED
    BY <2>3, <2>4
<1> QED
  BY <1>2, <1>3 DEF CacheInv

\* An export outranks everything before it.
LEMMA ExportInv ==
  ASSUME Types, CacheInv, NEW j \in Jobs, Export(j)
  PROVE  CacheInv'
<1>1. /\ tool[j] = "exporting" /\ tool' = [tool EXCEPT ![j] = "exported"]
      /\ UNCHANGED <<recipe, stage, toSend>>
      /\ cache' = [cache EXCEPT ![recipe[j]] = j]
  BY DEF Export
<1>2. exports \in Nat /\ \A k \in Jobs : recipe[k] \in Recipes /\ rank[k] \in Nat /\ rank[k] <= exports
  BY DEF Types
<1>3. \A r \in Recipes : /\ Rank(cache[r]) \in Nat /\ Rank(cache[r]) <= exports
                         /\ Rank(remote[r]) \in Nat /\ Rank(remote[r]) <= exports
  BY RankNat DEF Types
<1>4. ASSUME NEW r \in Recipes PROVE RecipeInv(r)'
  <2>1. RecipeInv(r)
    BY DEF CacheInv
  <2>2. Rank(remote[r])' = Rank(remote[r]) /\ remote'[r] = remote[r]
    BY ExportRanks
  <2>3. Rank(remote[r]) <= Rank(cache[r])'
    <3>1. CASE r = recipe[j]
      <4>1. Rank(cache[r])' = exports + 1
        BY <3>1, ExportRanks
      <4>2. Rank(remote[r]) <= exports + 1
        BY <1>2, <1>3
      <4> QED
        BY <4>1, <4>2
    <3>2. CASE r # recipe[j]
      BY <2>1, <3>2, ExportRanks DEF RecipeInv
    <3> QED
      BY <3>1, <3>2
  <2>4. \A k \in Jobs : rank[k] > 0 => rank'[k] > 0
    <3>1. exports + 1 > 0
      BY <1>2
    <3> QED
      BY <3>1, ExportRanks
  <2>5. rank'[j] > 0
    <3>1. exports + 1 > 0
      BY <1>2
    <3> QED
      BY <3>1, ExportRanks
  <2>6. cache'[r] = cache[r] \/ cache'[r] = j
    BY <1>1 DEF Types
  <2>7. /\ cache'[r] # Nobody => rank'[cache'[r]] > 0
        /\ remote'[r] # Nobody => rank'[remote'[r]] > 0
    BY <2>1, <2>2, <2>4, <2>5, <2>6 DEF RecipeInv, Types
  <2> QED
    BY <2>2, <2>3, <2>7 DEF RecipeInv
<1>5. ASSUME NEW k \in Jobs PROVE JobInv(k)'
  <2>1. JobInv(k) /\ recipe[k] \in Recipes
    BY <1>2 DEF CacheInv
  <2>2. Rank(remote[recipe[k]])' = Rank(remote[recipe[k]])
    BY <1>1, <2>1, ExportRanks
  <2>3. CASE k = j
    <3>1. rank'[k] = exports + 1 /\ Rank(cache[recipe[k]])' = exports + 1
      BY <1>1, <2>1, <2>3, ExportRanks
    <3>2. exports + 1 > 0 /\ exports + 1 <= exports + 1
      BY <1>2
    <3>3. tool'[k] = "exported" /\ stage[k] # "queued" /\ stage[k] # "uploading" /\ stage[k] # "ok"
      BY <1>1, <2>1, <2>3 DEF JobInv, Shown, Types
    <3> QED
      BY <1>1, <3>1, <3>2, <3>3 DEF JobInv, Shown
  <2>4. CASE k # j
    <3>1. rank'[k] = rank[k] /\ tool'[k] = tool[k]
      BY <1>1, <2>4, ExportRanks DEF Types
    <3>2. rank[k] <= Rank(cache[recipe[k]])'
      <4>1. CASE recipe[k] = recipe[j]
        <5>1. Rank(cache[recipe[k]])' = exports + 1
          BY <1>1, <2>1, <4>1, ExportRanks
        <5>2. rank[k] <= exports + 1
          BY <1>2
        <5> QED
          BY <5>1, <5>2
      <4>2. CASE recipe[k] # recipe[j]
        <5>1. Rank(cache[recipe[k]])' = Rank(cache[recipe[k]])
          BY <1>1, <2>1, <4>2, ExportRanks
        <5> QED
          BY <2>1, <5>1 DEF JobInv
      <4> QED
        BY <4>1, <4>2
    <3> QED
      BY <1>1, <2>1, <2>2, <3>1, <3>2 DEF JobInv, Shown
  <2> QED
    BY <2>3, <2>4
<1> QED
  BY <1>4, <1>5 DEF CacheInv

\* What is listed has been exported.
LEMMA ListInv ==
  ASSUME Types, CacheInv, NEW j \in Jobs, List(j)
  PROVE  CacheInv'
<1>1. /\ UNCHANGED <<recipe, stage, cache, remote, rank>>
      /\ tool[j] = "listing" /\ tool' = [tool EXCEPT ![j] = "sending"]
      /\ toSend' = [toSend EXCEPT ![j] = {r \in Recipes : cache[r] # Nobody}]
  BY DEF List
<1>2. ASSUME NEW r \in Recipes PROVE RecipeInv(r)'
  BY <1>1 DEF CacheInv, RecipeInv, Rank
<1>3. ASSUME NEW k \in Jobs PROVE JobInv(k)'
  <2>1. Rank(cache[recipe[k]])' = Rank(cache[recipe[k]]) /\ Rank(remote[recipe[k]])' = Rank(remote[recipe[k]])
    BY <1>1 DEF Rank
  <2>2. JobInv(k)
    BY DEF CacheInv
  <2>3. CASE k # j
    <3>1. UNCHANGED <<toSend[k], tool[k]>>
      BY <1>1, <2>3 DEF Types
    <3> QED
      BY <1>1, <2>1, <2>2, <3>1 DEF JobInv, Shown
  <2>4. CASE k = j
    <3>1. rank[k] > 0 /\ rank[k] <= Rank(cache[recipe[k]])
      BY <1>1, <2>2, <2>4 DEF JobInv
    <3>2. cache[recipe[k]] # Nobody
      <4>1. Rank(Nobody) = 0 /\ rank[k] \in Nat
        BY DEF Rank, Types
      <4> QED
        BY <3>1, <4>1
    <3>3. recipe[k] \in toSend'[k]
      BY <1>1, <2>4, <3>2 DEF Types
    <3>4. tool'[k] = "sending"
      BY <1>1, <2>4 DEF Types
    <3> QED
      BY <1>1, <2>1, <2>2, <2>4, <3>1, <3>3, <3>4 DEF JobInv, Shown
  <2> QED
    BY <2>3, <2>4
<1> QED
  BY <1>2, <1>3 DEF CacheInv

\* Sending raises the rank of what the remote shows, to that of the cache.
LEMMA SendInv ==
  ASSUME Types, CacheInv, NEW j \in Jobs, NEW r \in Recipes, Send(j, r)
  PROVE  CacheInv'
<1>1. /\ tool[j] = "sending" /\ UNCHANGED <<recipe, stage, tool, cache, rank>>
      /\ toSend' = [toSend EXCEPT ![j] = @ \ {r}]
  BY DEF Send
<1>2. \A q \in Recipes : Rank(cache[q]) \in Nat /\ Rank(remote[q]) \in Nat
  BY RankNat DEF Types
<1>3. ASSUME NEW q \in Recipes PROVE Rank(remote[q])' >= Rank(remote[q])
  <2>1. CASE q = r
    <3>1. Rank(remote[q]) <= Rank(cache[q]) /\ Rank(remote[q])' = Rank(cache[q])
      BY <2>1, SendRanks DEF CacheInv, RecipeInv
    <3> QED
      BY <1>2, <3>1
  <2>2. CASE q # r
    <3>1. Rank(remote[q])' = Rank(remote[q])
      BY <2>2, SendRanks
    <3> QED
      BY <1>2, <3>1
  <2> QED
    BY <2>1, <2>2
<1>4. ASSUME NEW q \in Recipes PROVE RecipeInv(q)'
  <2>1. RecipeInv(q) /\ RecipeInv(r) /\ Rank(cache[q])' = Rank(cache[q])
    BY SendRanks DEF CacheInv
  <2>2. CASE q = r
    <3>1. remote'[q] = cache[q] /\ Rank(remote[q])' = Rank(cache[q])
      BY <2>2, SendRanks
    <3> QED
      BY <1>1, <1>2, <2>1, <2>2, <3>1 DEF RecipeInv
  <2>3. CASE q # r
    <3>1. remote'[q] = remote[q] /\ Rank(remote[q])' = Rank(remote[q])
      BY <2>3, SendRanks
    <3> QED
      BY <1>1, <2>1, <3>1 DEF RecipeInv
  <2> QED
    BY <2>2, <2>3
<1>5. ASSUME NEW k \in Jobs PROVE JobInv(k)'
  <2>1. JobInv(k) /\ recipe[k] \in Recipes /\ rank[k] \in Nat
    BY DEF CacheInv, Types
  <2>2. Rank(cache[recipe[k]])' = Rank(cache[recipe[k]])
    BY <1>1, <2>1, SendRanks
  <2>3. Rank(remote[recipe[k]]) >= rank[k] => Rank(remote[recipe[k]])' >= rank[k]
    <3>1. CASE recipe[k] = r
      <4>1. Rank(remote[recipe[k]])' = Rank(cache[recipe[k]])
        BY <1>1, <3>1, SendRanks
      <4>2. Rank(cache[recipe[k]]) >= rank[k]
        BY <1>2, <2>1 DEF JobInv
      <4> QED
        BY <4>1, <4>2
    <3>2. CASE recipe[k] # r
      <4>1. Rank(remote[recipe[k]])' = Rank(remote[recipe[k]])
        BY <1>1, <2>1, <3>2, SendRanks
      <4> QED
        BY <4>1
    <3> QED
      BY <3>1, <3>2
  <2>4. tool[k] = "sending" /\ recipe[k] \notin toSend'[k] => Rank(remote[recipe[k]])' >= rank[k]
    <3>1. CASE recipe[k] \notin toSend[k]
      BY <2>1, <2>3, <3>1 DEF JobInv
    <3>2. CASE recipe[k] \in toSend[k] /\ recipe[k] \notin toSend'[k]
      <4>1. recipe[k] = r
        BY <1>1, <3>2 DEF Types
      <4>2. Rank(remote[recipe[k]])' = Rank(cache[recipe[k]])
        BY <1>1, <4>1, SendRanks
      <4>3. Rank(cache[recipe[k]]) >= rank[k]
        BY <1>2, <2>1 DEF JobInv
      <4> QED
        BY <4>2, <4>3
    <3> QED
      BY <3>1, <3>2
  <2> QED
    BY <1>1, <2>1, <2>2, <2>3, <2>4 DEF JobInv, Shown
<1> QED
  BY <1>4, <1>5 DEF CacheInv

\* The invariant of the cache and its uploads.
THEOREM CacheInductive == Spec => []CacheInv
<1>1. Types /\ CacheInv /\ [Next]_vars => CacheInv'
  <2> SUFFICES ASSUME Types, CacheInv, [Next]_vars PROVE CacheInv'
    OBVIOUS
  <2>1. CASE UNCHANGED vars
    BY <2>1 DEF vars, CacheInv, JobInv, Shown, RecipeInv, Rank
  <2> QED
    BY <2>1, CallInv, ExportInv, ListInv, SendInv DEF Next
<1> QED
  BY <1>1, CacheInit, TypesNext, PTL DEF Spec

\* A job that succeeded finds its package, or a newer one of its recipe, at
\* the remote.
THEOREM Current == Spec => []OkMeansCurrent
<1>1. CacheInv => OkMeansCurrent
  BY DEF CacheInv, JobInv, Shown, OkMeansCurrent
<1> QED
  BY <1>1, CacheInductive, PTL

\* No step puts an older package in the place of a newer one.
LEMMA RemoteNewer ==
  ASSUME Types, CacheInv, [Next]_vars, NEW r \in Recipes
  PROVE  Rank(remote[r])' >= Rank(remote[r])
<1>1. Rank(remote[r]) \in Nat /\ Rank(cache[r]) \in Nat
  BY RankNat DEF Types
<1>2. CASE UNCHANGED <<cache, remote, rank>>
  <2>1. Rank(remote[r])' = Rank(remote[r])
    BY <1>2, RanksStay
  <2> QED
    BY <1>1, <2>1
<1>3. ASSUME NEW j \in Jobs, Export(j) PROVE Rank(remote[r])' >= Rank(remote[r])
  <2>1. Rank(remote[r])' = Rank(remote[r])
    BY <1>3, ExportRanks
  <2> QED
    BY <1>1, <2>1
<1>4. ASSUME NEW j \in Jobs, NEW q \in Recipes, Send(j, q)
      PROVE  Rank(remote[r])' >= Rank(remote[r])
  <2>1. CASE q = r
    <3>1. Rank(remote[r])' = Rank(cache[r])
      BY <1>4, <2>1, SendRanks
    <3>2. Rank(cache[r]) >= Rank(remote[r])
      BY <1>1 DEF CacheInv, RecipeInv
    <3> QED
      BY <3>1, <3>2
  <2>2. CASE q # r
    <3>1. Rank(remote[r])' = Rank(remote[r])
      BY <1>4, <2>2, SendRanks
    <3> QED
      BY <1>1, <3>1
  <2> QED
    BY <2>1, <2>2
<1>5. \/ UNCHANGED <<cache, remote, rank>>
      \/ \E j \in Jobs : Export(j) \/ \E q \in Recipes : Send(j, q)
  BY DEF Next, Begin, ExportSucceeds, UploadSucceeds, CommandFails, Kill, List, vars
<1> QED
  BY <1>2, <1>3, <1>4, <1>5

LEMMA TypesHold == Spec => []Types
BY CacheInit, TypesNext, PTL DEF Spec

\* However uploads overlap or outlive their workers, the remote never goes
\* back to a package that was exported before the one it shows.
THEOREM NoStepBack == Spec => NeverOlder
<1> DEFINE Newer == \A r \in Recipes : Rank(remote[r])' >= Rank(remote[r])
<1>1. Types /\ CacheInv /\ [Next]_vars => [Newer]_vars
  BY RemoteNewer
<1>2. Spec => [][Newer]_vars
  BY <1>1, TypesHold, CacheInductive, PTL DEF Spec
<1> QED
  BY <1>2 DEF NeverOlder

\* There are as many exports as jobs that have a rank, and a job exports once.
THEOREM CacheTypes == Spec => []TypeOK
<1> DEFINE ranked == {j \in Jobs : rank[j] > 0}
           Counted == exports = Cardinality(ranked)
<1>1. Init => Counted
  <2>1. Init => ranked = {}
    BY DEF Init
  <2> QED
    BY <2>1, FS_EmptySet DEF Init
<1>2. Types /\ CacheInv /\ Counted /\ [Next]_vars => Counted'
  <2> SUFFICES ASSUME Types, CacheInv, Counted, [Next]_vars PROVE Counted'
    OBVIOUS
  <2>1. CASE UNCHANGED <<exports, rank>>
    BY <2>1
  <2>2. ASSUME NEW j \in Jobs, Export(j) PROVE Counted'
    <3>1. exports' = exports + 1 /\ rank[j] = 0 /\ rank'[j] = exports + 1
          /\ \A k \in Jobs : k # j => rank'[k] = rank[k]
      BY <2>2, ExportRanks DEF Export
    <3>2. exports \in Nat /\ j \notin ranked
      BY <3>1 DEF Types
    <3>3. ranked' = ranked \cup {j}
      BY <3>1, <3>2
    <3>4. IsFiniteSet(ranked)
      BY JobsAssumption, FS_Subset
    <3> HIDE DEF ranked
    <3> QED
      BY <3>1, <3>2, <3>3, <3>4, FS_AddElement
  <2>3. UNCHANGED <<exports, rank>> \/ \E j \in Jobs : Export(j)
    BY DEF Next, Begin, ExportSucceeds, UploadSucceeds, CommandFails, Kill, List, Send, vars
  <2> QED
    BY <2>1, <2>2, <2>3
<1>3. Types /\ Counted => TypeOK
  <2> SUFFICES ASSUME Types, Counted PROVE TypeOK
    OBVIOUS
  <2>1. Cardinality(ranked) <= Cardinality(Jobs) /\ Cardinality(Jobs) \in Nat
    BY JobsAssumption, FS_Subset, FS_CardinalityType
  <2> QED
    BY <2>1 DEF Types, TypeOK
<1> HIDE DEF Counted
<1> QED
  BY <1>1, <1>2, <1>3, TypesHold, CacheInductive, PTL DEF Spec

(***************************************************************************)
(* Each job implements ServiceCall.                                        *)
(***************************************************************************)

\* What a job has shown stays shown: its rank is final, and the remote only
\* gets newer.
LEMMA ShownStays ==
  ASSUME Types, CacheInv, [Next]_vars, NEW j \in Jobs, Shown(j)
  PROVE  Shown(j)'
<1>1. recipe' = recipe
  BY DEF Next, Begin, ExportSucceeds, UploadSucceeds, CommandFails, Kill, Export, List, Send, vars
<1>2. rank'[j] = rank[j]
  <2>1. ASSUME NEW k \in Jobs, Export(k) PROVE rank'[j] = rank[j]
    <3>1. rank[k] = 0 /\ (j # k => rank'[j] = rank[j])
      BY <2>1, ExportRanks
    <3> QED
      BY <3>1 DEF Shown
  <2>2. rank' = rank \/ \E k \in Jobs : Export(k)
    BY DEF Next, Begin, ExportSucceeds, UploadSucceeds, CommandFails, Kill, List, Send, vars
  <2> QED
    BY <2>1, <2>2
<1>3. recipe[j] \in Recipes /\ remote[recipe[j]] \in Jobs \cup {Nobody} /\ rank[j] \in Nat
  BY DEF Types
<1>4. Rank(remote[recipe[j]]) \in Nat /\ Rank(remote[recipe[j]])' \in Nat
  <2>1. Types' /\ recipe'[j] \in Recipes /\ remote'[recipe[j]] \in Jobs \cup {Nobody}
    BY <1>1, <1>3, TypesNext DEF Types
  <2>2. Rank(remote[recipe[j]])' \in Nat
    BY <2>1, <1>1, NobodyAssumption DEF Types, Rank
  <2> QED
    BY <1>3, <2>2, RankNat
<1>5. Rank(remote[recipe[j]])' >= Rank(remote[recipe[j]])
  <2>1. \A r \in Recipes : Rank(remote[r])' >= Rank(remote[r])
    BY RemoteNewer
  <2> QED
    BY <1>1, <1>3, <2>1 DEF Rank
<1> QED
  BY <1>1, <1>2, <1>3, <1>4, <1>5 DEF Shown

\* The answer of a job's call is given once.
LEMMA AnswersOnce ==
  ASSUME Types, [Next]_vars, NEW j \in Jobs
  PROVE  \/ AnswerOf(j)' = AnswerOf(j)
         \/ AnswerOf(j) = "none" /\ AnswerOf(j)' \in {"ok", "err", "killed"}
<1>1. ASSUME NEW k \in Jobs,
             Begin(k) \/ ExportSucceeds(k) \/ UploadSucceeds(k) \/ CommandFails(k) \/ Kill(k)
      PROVE  \/ stage'[j] = stage[j]
             \/ /\ stage[j] \in {"queued", "exporting", "uploading"}
                /\ stage'[j] \in Stages
  BY <1>1 DEF Begin, ExportSucceeds, UploadSucceeds, CommandFails, Kill, Goes, Types, Stages
<1>2. stage' = stage \/ \E k \in Jobs :
        Begin(k) \/ ExportSucceeds(k) \/ UploadSucceeds(k) \/ CommandFails(k) \/ Kill(k)
  BY DEF Next, Export, List, Send, vars
<1>3. \/ stage'[j] = stage[j]
      \/ stage[j] \in {"queued", "exporting", "uploading"} /\ stage'[j] \in Stages
  BY <1>1, <1>2
<1> QED
  BY <1>3 DEF AnswerOf, Stages

\* Each job is the service call that PublisherWorker relies on: "ok" only when
\* the remote shows its package or a later one (publish_conan_with_exe).
THEOREM JobsImplement == Spec => CallSpec
<1> DEFINE CallInit == \A j \in Jobs : Call(j)!Init
           CallStep == \A j \in Jobs : [Call(j)!Next]_(Call(j)!callVars)
<1>1. Init => CallInit
  <2> SUFFICES ASSUME Init, NEW j \in Jobs PROVE Call(j)!Init
    OBVIOUS
  <2>1. stage[j] = "queued" /\ rank[j] = 0
    BY DEF Init
  <2> QED
    BY <2>1 DEF Call!Init, AnswerOf, Shown
<1>2. Types /\ CacheInv /\ CacheInv' /\ [Next]_vars => CallStep
  <2> SUFFICES ASSUME Types, CacheInv, CacheInv', [Next]_vars, NEW j \in Jobs
               PROVE  [Call(j)!Next]_(Call(j)!callVars)
    OBVIOUS
  <2> DEFINE Taken == Shown(j)
             Before == AnswerOf(j)
             After == AnswerOf(j)'
  <2>1. Taken => Taken'
    BY ShownStays
  <2>2. /\ Before = "ok" => Taken
        /\ After = "ok" => Taken'
    BY DEF CacheInv, JobInv, AnswerOf
  <2>3. After = Before \/ (Before = "none" /\ After \in {"ok", "err", "killed"})
    BY AnswersOnce
  <2>4. Taken \in BOOLEAN /\ Taken' \in BOOLEAN
    BY DEF Shown
  <2> HIDE DEF Taken, Before, After
  <2>5. CASE After = Before
    <3>1. Taken' = Taken \/ (Before # "ok" /\ Taken' = TRUE)
      BY <2>1, <2>2, <2>4
    <3> QED
      BY <2>5, <3>1 DEF Call!Next, Call!Take, Call!callVars, Taken, Before, After
  <2>6. CASE Before = "none" /\ After = "ok"
    <3>1. Taken' = TRUE
      BY <2>2, <2>4, <2>6
    <3> QED
      BY <2>6, <3>1 DEF Call!Next, Call!Succeed, Taken, Before, After
  <2>7. CASE Before = "none" /\ After \in {"err", "killed"}
    <3>1. Taken' \in {Taken, TRUE}
      BY <2>1, <2>4
    <3> QED
      BY <2>7, <3>1 DEF Call!Next, Call!Fail, Taken, Before, After
  <2> QED
    BY <2>3, <2>5, <2>6, <2>7
<1> QED
  BY <1>1, <1>2, TypesHold, CacheInductive, PTL DEF Spec, CallSpec

=============================================================================
