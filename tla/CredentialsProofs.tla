-------------------------- MODULE CredentialsProofs -------------------------
(***************************************************************************)
(* Theorems about Credentials, for any names that jobs may write and any   *)
(* number of changes of the environment: the tables agree, so that a token *)
(* reaches whom it is meant for and a message names what was missing.      *)
(***************************************************************************)
EXTENDS Credentials, Sequences, TLAPS

(***************************************************************************)
(* The tables.                                                             *)
(***************************************************************************)

\* What the tables of domain.rs and main.rs agree on, registry by registry:
\* a registry looks at its own field, the one read from the variable of
\* token_env_var, and then at GitHub's or at no other.
Agrees(r) ==
  LET fields == FieldsFor[r] IN
  /\ Len(fields) \in 1 .. 2 /\ DOMAIN fields = 1 .. Len(fields)
  /\ fields[1] \in Fields /\ ReadFrom[fields[1]] = TokenEnvVar[r]
  /\ Len(fields) = 2 => fields[2] = "github" /\ r \in GitHubHosted
  /\ r \in GitHubHosted => fields[Len(fields)] = "github"

LEMMA TablesAgree == \A r \in Registries : Agrees(r)
<1> SUFFICES ASSUME NEW r \in Registries PROVE Agrees(r)
  OBVIOUS
<1> USE DEF Agrees, FieldsFor, ReadFrom, Fields, TokenEnvVar, GitHubHosted
<1>1. CASE r = "Npm"
  BY <1>1
<1>2. CASE r = "PyPi"
  BY <1>2
<1>3. CASE r = "Cargo"
  BY <1>3
<1>4. CASE r = "Maven"
  BY <1>4
<1>5. CASE r = "NuGet"
  BY <1>5
<1>6. CASE r = "RubyGems"
  BY <1>6
<1>7. CASE r = "Packagist"
  BY <1>7
<1>8. CASE r = "PkgGoDev"
  BY <1>8
<1>9. CASE r = "SwiftPackageIndex"
  BY <1>9
<1>10. CASE r = "Vcpkg"
  BY <1>10
<1>11. CASE r = "Conan"
  BY <1>11
<1>12. CASE r = "Homebrew"
  BY <1>12
<1>13. CASE r = "GithubReleases"
  BY <1>13
<1> QED
  BY <1>1, <1>2, <1>3, <1>4, <1>5, <1>6, <1>7, <1>8, <1>9, <1>10, <1>11,
     <1>12, <1>13 DEF Registries, AsStr

LEMMA TableTypes ==
  /\ \A f \in Fields : ReadFrom[f] \in Variables
  /\ "github" \in Fields /\ ReadFrom["github"] = "GITHUB_TOKEN"
  /\ "readthedocs" \in Fields /\ ReadFrom["readthedocs"] = "READTHEDOCS_TOKEN"
  /\ DocsFields \in [{"none", "github_pages", "readthedocs"} -> SUBSET Fields]
  /\ DOMAIN DocsFields = {"none", "github_pages", "readthedocs"}
<1>1. \A f \in Fields : ReadFrom[f] \in Variables
  BY DEF Fields, Variables, Range
<1>2. /\ "github" \in Fields /\ ReadFrom["github"] = "GITHUB_TOKEN"
      /\ "readthedocs" \in Fields /\ ReadFrom["readthedocs"] = "READTHEDOCS_TOKEN"
  BY DEF Fields, ReadFrom
<1>3. /\ DocsFields \in [{"none", "github_pages", "readthedocs"} -> SUBSET Fields]
      /\ DOMAIN DocsFields = {"none", "github_pages", "readthedocs"}
  BY <1>2 DEF DocsFields
<1> QED
  BY <1>1, <1>2, <1>3

\* What a name stands for, told the other way round: from the name.
StandsFor(name) ==
  CASE name = "npm" -> "Npm" [] name = "pypi" -> "PyPi"
    [] name \in {"cargo", "crates"} -> "Cargo"
    [] name = "maven" -> "Maven" [] name = "nuget" -> "NuGet"
    [] name \in {"rubygems", "gems"} -> "RubyGems"
    [] name \in {"packagist", "composer"} -> "Packagist"
    [] name \in {"pkggodev", "go"} -> "PkgGoDev"
    [] name \in {"swift", "spm"} -> "SwiftPackageIndex"
    [] name = "vcpkg" -> "Vcpkg" [] name = "conan" -> "Conan"
    [] name \in {"homebrew", "brew"} -> "Homebrew"
    [] name \in {"github_releases", "github"} -> "GithubReleases"
    [] OTHER -> "none"

\* A name stands for one registry or for none.
LEMMA OneRegistry ==
  ASSUME NEW name, NEW r \in FromStr(name)
  PROVE  r \in Registries /\ r = StandsFor(name)
<1>1. r \in Registries
  BY DEF FromStr
<1> USE DEF FromStr, AsStr, StandsFor
<1>2. CASE r = "Npm"
  BY <1>2
<1>3. CASE r = "PyPi"
  BY <1>3
<1>4. CASE r = "Cargo"
  BY <1>4
<1>5. CASE r = "Maven"
  BY <1>5
<1>6. CASE r = "NuGet"
  BY <1>6
<1>7. CASE r = "RubyGems"
  BY <1>7
<1>8. CASE r = "Packagist"
  BY <1>8
<1>9. CASE r = "PkgGoDev"
  BY <1>9
<1>10. CASE r = "SwiftPackageIndex"
  BY <1>10
<1>11. CASE r = "Vcpkg"
  BY <1>11
<1>12. CASE r = "Conan"
  BY <1>12
<1>13. CASE r = "Homebrew"
  BY <1>13
<1>14. CASE r = "GithubReleases"
  BY <1>14
<1> QED
  BY <1>1, <1>2, <1>3, <1>4, <1>5, <1>6, <1>7, <1>8, <1>9, <1>10, <1>11,
     <1>12, <1>13, <1>14 DEF Registries

LEMMA RegistryOfJob ==
  ASSUME NEW r \in FromStr(job.registry)
  PROVE  r \in Registries /\ Registry = r
BY OneRegistry DEF Registry

(***************************************************************************)
(* Tokens.                                                                 *)
(***************************************************************************)

Unreadable == {"unset", "garbled"}

\* A field is empty if its variable could not be read, and otherwise has the
\* one token that the variable held when the process started.
LEMMA TokenOfField ==
  ASSUME NEW e \in [Variables -> Values], NEW f \in Fields
  PROVE  LET held == FromEnv(e)[f] IN
         /\ held \in SUBSET Token
         /\ held = {} <=> e[ReadFrom[f]] \in Unreadable
         /\ held # {} =>
              \E t \in Token : /\ held = {t} /\ t.from = ReadFrom[f]
                               /\ t.value = e[t.from]
<1> DEFINE token == [from |-> ReadFrom[f], value |-> e[ReadFrom[f]]]
<1>1. e[ReadFrom[f]] \in Values /\ ReadFrom[f] \in Variables
  BY TableTypes
<1>2. FromEnv(e)[f] = IF e[ReadFrom[f]] \in Unreadable THEN {} ELSE {token}
  BY DEF FromEnv, Unreadable
<1>3. e[ReadFrom[f]] \notin Unreadable =>
        token \in Token /\ token.from = ReadFrom[f] /\ token.value = e[token.from]
  BY <1>1 DEF Unreadable, Values, Token
<1> HIDE DEF token
<1> QED
  BY <1>2, <1>3

LEMMA FromEnvType ==
  ASSUME NEW e \in [Variables -> Values]
  PROVE  FromEnv(e) \in [Fields -> SUBSET Token]
<1>1. \A f \in Fields : FromEnv(e)[f] \in SUBSET Token
  BY TokenOfField
<1>2. FromEnv(e) = [f \in Fields |-> FromEnv(e)[f]]
  BY DEF FromEnv
<1> QED
  BY <1>1, <1>2

\* token_for looks at the registry's own field, and then at GitHub's.
LEMMA TokenForIs ==
  ASSUME NEW r \in Registries
  PROVE  LET own == tokens[FieldsFor[r][1]] IN
         TokenFor(r) = IF own = {} /\ Len(FieldsFor[r]) = 2 THEN tokens["github"] ELSE own
<1> DEFINE fields == FieldsFor[r]
           reached == {i \in DOMAIN fields : \A k \in 1 .. i - 1 : tokens[fields[k]] = {}}
<1>1. Agrees(r)
  BY TablesAgree
<1>2. /\ Len(fields) = 1 => DOMAIN fields = {1}
      /\ Len(fields) = 2 => DOMAIN fields = {1, 2} /\ fields[2] = "github"
      /\ Len(fields) \in {1, 2}
  BY <1>1 DEF Agrees
<1>3. TokenFor(r) = UNION {tokens[fields[i]] : i \in reached}
  BY DEF TokenFor
<1> HIDE DEF fields
<1>4. CASE Len(fields) = 2 /\ tokens[fields[1]] = {}
  <2>1. reached = {1, 2}
    BY <1>2, <1>4
  <2> QED
    BY <1>2, <1>3, <1>4, <2>1 DEF fields
<1>5. CASE ~(Len(fields) = 2 /\ tokens[fields[1]] = {})
  <2>1. reached = {1}
    BY <1>2, <1>5
  <2>2. TokenFor(r) = tokens[fields[1]]
    BY <1>3, <2>1
  <2> QED
    BY <1>5, <2>2 DEF fields
<1> QED
  BY <1>4, <1>5

(***************************************************************************)
(* The invariant: what was given and what was blamed is what the tables    *)
(* say of the environment in which the process started, whatever the       *)
(* environment has become.                                                 *)
(***************************************************************************)

CredInv ==
  /\ TypeOK
  /\ tokens = FromEnv(started)
  /\ given.publisher # {} =>
       \E r \in FromStr(job.registry) : given.publisher = TokenFor(r)
  /\ given.docs \in {{}, UNION {tokens[f] : f \in DocsFields[job.docs]}}
  /\ blamed # {} =>
       \/ /\ given.publisher # {}
          /\ blamed = {ReadFrom[f] : f \in {f \in DocsFields[job.docs] : tokens[f] = {}}}
       \/ /\ given.publisher = {}
          /\ \E r \in FromStr(job.registry) : TokenFor(r) = {} /\ blamed = {TokenEnvVar[r]}

\* What token_for finds when the process has its tokens from the environment.
LEMMA TokenFound ==
  ASSUME CredInv, NEW r \in Registries
  PROVE  /\ TokenFor(r) # {} =>
              \E t \in Token :
                /\ TokenFor(r) = {t}
                /\ t.value = started[t.from]
                /\ \/ t.from = TokenEnvVar[r]
                   \/ /\ t.from = "GITHUB_TOKEN" /\ r \in GitHubHosted
                      /\ started[TokenEnvVar[r]] \in Unreadable
         /\ TokenFor(r) = {} =>
              /\ started[TokenEnvVar[r]] \in Unreadable
              /\ r \in GitHubHosted => started["GITHUB_TOKEN"] \in Unreadable
         /\ TokenEnvVar[r] \in Variables
<1> DEFINE own == FieldsFor[r][1]
<1>1. /\ own \in Fields /\ ReadFrom[own] = TokenEnvVar[r]
      /\ Len(FieldsFor[r]) \in 1 .. 2
      /\ Len(FieldsFor[r]) = 2 => r \in GitHubHosted
      /\ r \in GitHubHosted /\ Len(FieldsFor[r]) = 1 => own = "github"
  BY TablesAgree DEF Agrees
<1> HIDE DEF own
<1>2. started \in [Variables -> Values] /\ tokens = FromEnv(started)
  BY DEF CredInv, TypeOK
<1>3. /\ tokens[own] = {} <=> started[TokenEnvVar[r]] \in Unreadable
      /\ tokens[own] # {} =>
           \E t \in Token : /\ tokens[own] = {t} /\ t.from = TokenEnvVar[r]
                            /\ t.value = started[t.from]
  BY <1>1, <1>2, TokenOfField
<1>4. /\ tokens["github"] = {} <=> started["GITHUB_TOKEN"] \in Unreadable
      /\ tokens["github"] # {} =>
           \E t \in Token : /\ tokens["github"] = {t} /\ t.from = "GITHUB_TOKEN"
                            /\ t.value = started[t.from]
  <2>1. "github" \in Fields /\ ReadFrom["github"] = "GITHUB_TOKEN"
    BY TableTypes
  <2> QED
    BY <1>2, <2>1, TokenOfField
<1>5. TokenEnvVar[r] \in Variables
  BY <1>1, TableTypes
<1>6. TokenFor(r) =
        IF tokens[own] = {} /\ Len(FieldsFor[r]) = 2 THEN tokens["github"] ELSE tokens[own]
  BY TokenForIs DEF own
<1>7. CASE tokens[own] = {} /\ Len(FieldsFor[r]) = 2
  BY <1>1, <1>3, <1>4, <1>5, <1>6, <1>7
<1>8. CASE tokens[own] # {}
  BY <1>3, <1>5, <1>6, <1>8
<1>9. CASE tokens[own] = {} /\ Len(FieldsFor[r]) = 1
  BY <1>1, <1>3, <1>4, <1>5, <1>6, <1>9
<1> QED
  BY <1>1, <1>7, <1>8, <1>9

\* What publish_docs requires and finds.
LEMMA DocsFound ==
  ASSUME CredInv, NEW d \in DOMAIN DocsFields
  PROVE  /\ UNION {tokens[f] : f \in DocsFields[d]} \in SUBSET Token
         /\ {ReadFrom[f] : f \in {f \in DocsFields[d] : tokens[f] = {}}} \in SUBSET Variables
<1>1. DocsFields[d] \in SUBSET Fields /\ tokens \in [Fields -> SUBSET Token]
  BY TableTypes DEF CredInv, TypeOK
<1> QED
  BY <1>1, TableTypes

LEMMA CredInit == Init => CredInv
<1> SUFFICES ASSUME Init PROVE CredInv
  OBVIOUS
<1>1. env \in [Variables -> Values] /\ started = env
  BY DEF Init, Values
<1>2. tokens = FromEnv(started) /\ tokens \in [Fields -> SUBSET Token]
  BY <1>1, FromEnvType DEF Init
<1>3. changes \in 0 .. MaxChanges
  BY MaxChangesAssumption DEF Init
<1> QED
  BY <1>1, <1>2, <1>3 DEF Init, CredInv, TypeOK, NoJob, NothingGiven, Stages

\* A step that leaves the tokens alone leaves alone what is found.
LEMMA SameTokens ==
  ASSUME tokens' = tokens
  PROVE  \A r : TokenFor(r)' = TokenFor(r)
BY DEF TokenFor

LEMMA CredNext == CredInv /\ [Next]_vars => CredInv'
<1> SUFFICES ASSUME CredInv, [Next]_vars PROVE CredInv'
  OBVIOUS
<1> USE DEF CredInv, TypeOK
<1>1. ASSUME NEW v \in Variables, NEW x \in Values, Change(v, x)
      PROVE  CredInv'
  <2>1. changes' \in 0 .. MaxChanges
    BY <1>1, MaxChangesAssumption DEF Change
  <2>2. env' \in [Variables -> Values]
    BY <1>1 DEF Change
  <2>3. UNCHANGED <<started, tokens, job, stage, given, blamed>>
    BY <1>1 DEF Change
  <2> QED
    BY <2>1, <2>2, <2>3, SameTokens
<1>2. CASE Restart
  <2>1. tokens' = FromEnv(started') /\ tokens' \in [Fields -> SUBSET Token]
    BY <1>2, FromEnvType DEF Restart
  <2> QED
    BY <1>2, <2>1 DEF Restart, NoJob, NothingGiven, Stages
<1>3. ASSUME NEW n \in Names, NEW d \in DOMAIN DocsFields, Take(n, d)
      PROVE  CredInv'
  <2>1. /\ job' = [registry |-> n, docs |-> d]
        /\ UNCHANGED <<env, changes, started, tokens>>
        /\ job' \in [registry : Names, docs : DOMAIN DocsFields]
    BY <1>3 DEF Take, Over, Reaches
  <2>2. \A r \in FromStr(n) : r \in Registries /\ TokenFor(r)' = TokenFor(r)
    BY <2>1, OneRegistry, SameTokens
  <2>3. CASE FromStr(n) = {} /\ given' = NothingGiven /\ Over("failed", {})
    BY <2>1, <2>3 DEF Over, Reaches, NothingGiven, Stages
  <2>4. ASSUME NEW r \in FromStr(n), TokenFor(r) = {}, given' = NothingGiven,
               Over("failed", {TokenEnvVar[r]})
        PROVE  CredInv'
    <3>1. TokenEnvVar[r] \in Variables
      BY <2>2, TokenFound
    <3> QED
      BY <2>1, <2>2, <2>4, <3>1 DEF Over, Reaches, NothingGiven, Stages
  <2>5. ASSUME NEW r \in FromStr(n), TokenFor(r) # {}, Reaches("publishing"), blamed' = {},
               given' = [NothingGiven EXCEPT !.publisher = TokenFor(r)]
        PROVE  CredInv'
    <3>1. \E t \in Token : TokenFor(r) = {t}
      BY <2>2, <2>5, TokenFound
    <3> QED
      BY <2>1, <2>2, <2>5, <3>1 DEF Reaches, NothingGiven, Stages
  <2> QED
    BY <1>3, <2>3, <2>4, <2>5 DEF Take
<1>4. CASE Fail
  BY <1>4, SameTokens DEF Fail, Over, Reaches, Stages
<1>5. CASE Published
  <2> DEFINE missing == {f \in DocsFields[job.docs] : tokens[f] = {}}
             found == UNION {tokens[f] : f \in DocsFields[job.docs]}
  <2>1. /\ given.publisher # {}
        /\ job' = job /\ UNCHANGED <<env, changes, started, tokens>>
    BY <1>5 DEF Published, Over, Reaches
  <2>2. job.docs \in DOMAIN DocsFields
    BY TableTypes DEF NoJob
  <2>3. found \in SUBSET Token /\ {ReadFrom[f] : f \in missing} \in SUBSET Variables
    BY <2>2, DocsFound
  <2>4. CASE Over("failed", {ReadFrom[f] : f \in missing}) /\ UNCHANGED given
    BY <2>1, <2>3, <2>4, SameTokens DEF Over, Reaches, Stages
  <2>5. CASE given' = [given EXCEPT !.docs = found] /\ Reaches("documenting") /\ UNCHANGED blamed
    <3>1. given' = [publisher |-> given.publisher, docs |-> found]
      BY <2>5
    <3> QED
      BY <2>1, <2>3, <2>5, <3>1, SameTokens DEF Reaches, Stages
  <2> QED
    BY <1>5, <2>4, <2>5 DEF Published
<1>6. CASE Documented
  BY <1>6, SameTokens DEF Documented, Over, Reaches, Stages
<1>7. CASE UNCHANGED vars
  BY <1>7, SameTokens DEF vars
<1> QED
  BY <1>1, <1>2, <1>3, <1>4, <1>5, <1>6, <1>7 DEF Next

THEOREM Inductive == Spec => []CredInv
BY CredInit, CredNext, PTL DEF Spec

(***************************************************************************)
(* The properties.                                                         *)
(***************************************************************************)

\* Every variable has its type, and a publisher that runs was given exactly one
\* token (worker.rs, process_job; domain.rs, token_for).
THEOREM OneTokenEach == Spec => []TypeOK
<1>1. CredInv => TypeOK
  BY DEF CredInv
<1> QED
  BY <1>1, Inductive, PTL

\* The two ways of blame: no token for the registry, or none for the hosts of
\* documentation, once the publisher had its own.
LEMMA Blame ==
  ASSUME CredInv, NEW v \in blamed
  PROVE  /\ started[v] \in Unreadable
         /\ \/ given.publisher # {} /\ job.docs \in {"github_pages", "readthedocs"}
            \/ \E r \in FromStr(job.registry) :
                 /\ started[TokenEnvVar[r]] \in Unreadable
                 /\ r \in GitHubHosted => started["GITHUB_TOKEN"] \in Unreadable
<1>1. CASE /\ given.publisher # {}
           /\ blamed = {ReadFrom[f] : f \in {f \in DocsFields[job.docs] : tokens[f] = {}}}
  <2>1. PICK f \in DocsFields[job.docs] : v = ReadFrom[f] /\ tokens[f] = {}
    BY <1>1
  <2>2. job.docs \in {"none", "github_pages", "readthedocs"}
    BY TableTypes DEF CredInv, TypeOK, NoJob
  <2>3. job.docs # "none" /\ f \in Fields
    BY <2>1, <2>2, TableTypes DEF DocsFields
  <2>4. started[v] \in Unreadable
    BY <2>1, <2>3, TokenOfField DEF CredInv, TypeOK
  <2> QED
    BY <1>1, <2>2, <2>3, <2>4
<1>2. ASSUME NEW r \in FromStr(job.registry), TokenFor(r) = {}, blamed = {TokenEnvVar[r]}
      PROVE  /\ started[v] \in Unreadable
             /\ started[TokenEnvVar[r]] \in Unreadable
             /\ r \in GitHubHosted => started["GITHUB_TOKEN"] \in Unreadable
  BY <1>2, OneRegistry, TokenFound
<1> QED
  BY <1>1, <1>2 DEF CredInv

\* A message about a missing token names a variable that could not be read when
\* the process started (domain.rs, token_for and token_env_var; main.rs).
THEOREM BlameIsDeserved == Spec => []BlamedVariableWasUnset
<1>1. CredInv => BlamedVariableWasUnset
  BY Blame DEF BlamedVariableWasUnset, Unreadable
<1> QED
  BY <1>1, Inductive, PTL

\* No job is turned away for a token that the process has (domain.rs, token_for).
THEOREM TokenIsUsed == Spec => []UsableTokenIsUsed
<1>1. CredInv => UsableTokenIsUsed
  BY Blame, RegistryOfJob DEF UsableTokenIsUsed, Unreadable
<1> QED
  BY <1>1, Inductive, PTL

\* A credential reaches only whom it is meant for, as it was when the process
\* started (domain.rs, token_for; docs_publish.rs, publish_docs).
THEOREM TokensReachHome == Spec => []TokensGoHome
<1>1. CredInv => TokensGoHome
  <2> SUFFICES ASSUME CredInv PROVE TokensGoHome
    OBVIOUS
  <2>1. ASSUME NEW t \in given.publisher
        PROVE  /\ t.value = started[t.from]
               /\ \/ t.from = TokenEnvVar[Registry]
                  \/ /\ t.from = "GITHUB_TOKEN" /\ Registry \in GitHubHosted
                     /\ started[TokenEnvVar[Registry]] \in Unreadable
    <3>1. PICK r \in FromStr(job.registry) : given.publisher = TokenFor(r)
      BY DEF CredInv
    <3> QED
      BY <3>1, TokenFound, RegistryOfJob
  <2>2. ASSUME NEW t \in given.docs
        PROVE  /\ t.value = started[t.from]
               /\ \/ t.from = "GITHUB_TOKEN" /\ job.docs = "github_pages"
                  \/ t.from = "READTHEDOCS_TOKEN" /\ job.docs = "readthedocs"
    <3>1. PICK f \in DocsFields[job.docs] : t \in tokens[f]
      BY DEF CredInv
    <3>2. job.docs \in {"none", "github_pages", "readthedocs"}
      BY TableTypes DEF CredInv, TypeOK, NoJob
    <3>3. /\ f \in Fields
          /\ \/ f = "github" /\ job.docs = "github_pages"
             \/ f = "readthedocs" /\ job.docs = "readthedocs"
      BY <3>1, <3>2, TableTypes DEF DocsFields
    <3>4. t.from = ReadFrom[f] /\ t.value = started[t.from]
      BY <3>1, <3>3, TokenOfField DEF CredInv, TypeOK
    <3> QED
      BY <3>3, <3>4, TableTypes
  <2> QED
    BY <2>1, <2>2 DEF TokensGoHome, Unreadable
<1> QED
  BY <1>1, Inductive, PTL

=============================================================================
