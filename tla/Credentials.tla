----------------------------- MODULE Credentials ----------------------------
(***************************************************************************)
(* The names and credentials of a worker process: AppConfig::from_env_fn   *)
(* reads the environment once, when the process starts (main.rs); each job *)
(* names its registry in its own way, Registry::from_str and               *)
(* RegistryTokens::token_for make a registry and a token of the name       *)
(* (domain.rs), and what they find reaches the tools or, in a message, the *)
(* operator.  Three tables written apart must agree: which variable a      *)
(* token is read from, which token a registry is given, and which variable *)
(* the message about a missing token names.                                *)
(*                                                                         *)
(* The operator is external: at any time he changes a variable, or         *)
(* restarts the worker.                                                    *)
(***************************************************************************)
EXTENDS Naturals, Functions

CONSTANTS
  Names,       \* what jobs write in their field "registry"
  MaxChanges   \* bound: how often the operator changes a variable

ASSUME MaxChangesAssumption == MaxChanges \in Nat

VARIABLES
  env,         \* the environment that the next process will see
  changes,     \* how often it was changed
  started,     \* history: the environment when the process started
  tokens,      \* its RegistryTokens
  job,         \* the job in hand: the name of its registry, its docs host
  stage,       \* how far process_job got with it
  given,       \* the tokens given to its publisher and its documentation
  blamed       \* the variables that its error message names

vars == <<env, changes, started, tokens, job, stage, given, blamed>>

----------------------------------------------------------------------------
(* The tables.                                                             *)

\* The variable that each field of RegistryTokens is read from.
ReadFrom ==
  [npm |-> "NPM_TOKEN", pypi |-> "TWINE_PASSWORD",
   cargo |-> "CARGO_REGISTRY_TOKEN", maven_username |-> "MAVEN_USERNAME",
   maven_password |-> "MAVEN_PASSWORD", nuget |-> "NUGET_API_KEY",
   rubygems |-> "GEM_HOST_API_KEY", packagist |-> "PACKAGIST_TOKEN",
   github |-> "GITHUB_TOKEN", conan |-> "CONAN_PASSWORD",
   vcpkg_repo_url |-> "VCPKG_REPO_URL",
   homebrew_tap_repo |-> "HOMEBREW_TAP_REPO",
   readthedocs |-> "READTHEDOCS_TOKEN"]

Fields == DOMAIN ReadFrom
Variables == Range(ReadFrom)

\* Registry and Registry::as_str.
AsStr ==
  [Npm |-> "npm", PyPi |-> "pypi", Cargo |-> "cargo", Maven |-> "maven",
   NuGet |-> "nuget", RubyGems |-> "rubygems", Packagist |-> "packagist",
   PkgGoDev |-> "pkggodev", SwiftPackageIndex |-> "swift",
   Vcpkg |-> "vcpkg", Conan |-> "conan", Homebrew |-> "homebrew",
   GithubReleases |-> "github_releases"]

Registries == DOMAIN AsStr

\* The registries that a name stands for, by Registry::from_str: one or none.
FromStr(name) ==
  {r \in Registries : name \in {AsStr[r]} \cup
     CASE r = "Cargo" -> {"crates"}
       [] r = "RubyGems" -> {"gems"}
       [] r = "Packagist" -> {"composer"}
       [] r = "PkgGoDev" -> {"go"}
       [] r = "SwiftPackageIndex" -> {"spm"}
       [] r = "Homebrew" -> {"brew"}
       [] r = "GithubReleases" -> {"github"}
       [] OTHER -> {}}

\* Registry::token_env_var, which the message about a missing token names.
TokenEnvVar ==
  [Npm |-> "NPM_TOKEN", PyPi |-> "TWINE_PASSWORD",
   Cargo |-> "CARGO_REGISTRY_TOKEN", Maven |-> "MAVEN_PASSWORD",
   NuGet |-> "NUGET_API_KEY", RubyGems |-> "GEM_HOST_API_KEY",
   Packagist |-> "PACKAGIST_TOKEN", PkgGoDev |-> "GITHUB_TOKEN",
   SwiftPackageIndex |-> "GITHUB_TOKEN", Vcpkg |-> "VCPKG_REPO_URL",
   Conan |-> "CONAN_PASSWORD", Homebrew |-> "HOMEBREW_TAP_REPO",
   GithubReleases |-> "GITHUB_TOKEN"]

\* The fields that RegistryTokens::token_for looks at, in their order.
FieldsFor ==
  [Npm |-> <<"npm">>, PyPi |-> <<"pypi">>, Cargo |-> <<"cargo">>,
   Maven |-> <<"maven_password">>, NuGet |-> <<"nuget">>,
   RubyGems |-> <<"rubygems">>, Packagist |-> <<"packagist">>,
   PkgGoDev |-> <<"github">>, SwiftPackageIndex |-> <<"github">>,
   Vcpkg |-> <<"vcpkg_repo_url", "github">>, Conan |-> <<"conan">>,
   Homebrew |-> <<"homebrew_tap_repo", "github">>,
   GithubReleases |-> <<"github">>]

----------------------------------------------------------------------------
(* Tokens.                                                                 *)

\* "garbled" is a value that is not Unicode, for which std::env::var fails.  The
\* empty string is a value like any other: it is neither unset nor refused.
Values == {"unset", "garbled", "old", "new"}

\* A token is told by the variable and the value that it comes from.
Token == [from : Variables, value : {"old", "new"}]

\* AppConfig::from_process_env: a field is None, or has one token.
FromEnv(e) ==
  [f \in Fields |-> IF e[ReadFrom[f]] \in {"unset", "garbled"} THEN {}
                    ELSE {[from |-> ReadFrom[f], value |-> e[ReadFrom[f]]]}]

\* Mutant of TokenFor: Maven's user is required as well.
TokenForUser(r) ==
  LET found == {f \in Range(FieldsFor[r]) : tokens[f] # {}}
  IN  IF r = "Maven" /\ tokens["maven_username"] = {} THEN {}
      ELSE UNION {tokens[f] : f \in found \cap {FieldsFor[r][1]}}

\* Mutant of TokenFor: no fallback to GitHub's token.
TokenForOwn(r) == tokens[FieldsFor[r][1]]

\* Mutant of TokenFor: Homebrew falls back to vcpkg's variable.
TokenForPort(r) ==
  IF r = "Homebrew" /\ tokens["homebrew_tap_repo"] = {}
  THEN tokens["vcpkg_repo_url"]
  ELSE tokens[FieldsFor[r][1]]

\* RegistryTokens::token_for: the first of the fields that is there.
TokenFor(r) ==
  UNION {tokens[FieldsFor[r][i]] :
           i \in {i \in DOMAIN FieldsFor[r] :
                    \A k \in 1 .. i - 1 : tokens[FieldsFor[r][k]] = {}}}

\* The field that publish_docs requires for a documentation host: "none" also
\* stands for the hosts that need no token.
DocsFields ==
  [none |-> {}, github_pages |-> {"github"}, readthedocs |-> {"readthedocs"}]

NoJob == [registry |-> "none", docs |-> "none"]

Stages == {"idle", "publishing", "documenting", "failed", "done"}

\* Every variable has its type, and a publisher that runs was given exactly
\* one token (worker.rs, process_job; domain.rs, token_for).
TypeOK ==
  /\ env \in [Variables -> Values] /\ started \in [Variables -> Values]
  /\ changes \in 0 .. MaxChanges
  /\ tokens \in [Fields -> SUBSET Token]
  /\ job \in [registry : Names, docs : DOMAIN DocsFields] \cup {NoJob}
  /\ stage \in Stages
  /\ given \in [publisher : SUBSET Token, docs : SUBSET Token]
  /\ stage = "publishing" => \E t \in Token : given.publisher = {t}
  /\ blamed \subseteq Variables

NothingGiven == [publisher |-> {}, docs |-> {}]

Init ==
  /\ env = [v \in Variables |-> "unset"] /\ started = env
  /\ changes = 0
  /\ tokens = FromEnv(env)
  /\ job = NoJob /\ stage = "idle"
  /\ given = NothingGiven /\ blamed = {}

----------------------------------------------------------------------------
(* The operator.                                                           *)

Change(v, x) ==
  /\ changes < MaxChanges
  /\ env' = [env EXCEPT ![v] = x]
  /\ changes' = changes + 1
  /\ UNCHANGED <<started, tokens, job, stage, given, blamed>>

\* The process ends, wherever it is, and another one starts.
Restart ==
  /\ started' = env
  /\ tokens' = FromEnv(env)
  /\ job' = NoJob /\ stage' = "idle"
  /\ given' = NothingGiven /\ blamed' = {}
  /\ UNCHANGED <<env, changes>>

----------------------------------------------------------------------------
(* process_job.                                                            *)

Reaches(s) ==
  /\ stage' = s
  /\ UNCHANGED <<env, changes, started, tokens>>

Registry == CHOOSE r \in Registries : r \in FromStr(job.registry)

\* process_job is over, with an error message that names these variables.
Over(s, variables) ==
  /\ Reaches(s)
  /\ blamed' = variables

\* Mutant of Take: the token is looked up when it is used.
TakeUnchecked(n, d) ==
  /\ stage \in {"idle", "failed", "done"}
  /\ job' = [registry |-> n, docs |-> d]
  /\ FromStr(n) # {}
  /\ Reaches("publishing")
  /\ given' = NothingGiven /\ blamed' = {}

\* process_job, up to the call of publish_with_options: the name and the token
\* are looked up first.
Take(n, d) ==
  /\ stage \in {"idle", "failed", "done"}
  /\ job' = [registry |-> n, docs |-> d]
  /\ \/ /\ FromStr(n) = {}
        /\ given' = NothingGiven
        /\ Over("failed", {})
     \/ \E r \in FromStr(n) :
          /\ TokenFor(r) = {}
          /\ given' = NothingGiven
          /\ Over("failed", {TokenEnvVar[r]})
     \/ \E r \in FromStr(n) :
          /\ TokenFor(r) # {}
          /\ given' = [NothingGiven EXCEPT !.publisher = TokenFor(r)]
          /\ Reaches("publishing")
          /\ blamed' = {}

\* Storage, working directory or tools fail, for another reason than a token
\* that is missing.
Fail ==
  /\ stage \in {"publishing", "documenting"}
  /\ Over("failed", {})
  /\ UNCHANGED <<job, given>>

\* The package is out, and publish_docs looks for its own token.
Published ==
  /\ stage = "publishing"
  /\ UNCHANGED job
  /\ LET missing == {f \in DocsFields[job.docs] : tokens[f] = {}}
     IN  \/ /\ missing # {}
            /\ Over("failed", {ReadFrom[f] : f \in missing})
            /\ UNCHANGED given
         \/ /\ missing = {}
            /\ given' = [given EXCEPT !.docs =
                           UNION {tokens[f] : f \in DocsFields[job.docs]}]
            /\ Reaches("documenting")
            /\ UNCHANGED blamed

Documented ==
  /\ stage = "documenting"
  /\ Over("done", {})
  /\ UNCHANGED <<job, given>>

Next ==
  \/ \E v \in Variables, x \in Values : Change(v, x)
  \/ Restart
  \/ \E n \in Names, d \in DOMAIN DocsFields : Take(n, d)
  \/ Fail
  \/ Published
  \/ Documented

Spec == Init /\ [][Next]_vars

----------------------------------------------------------------------------
(* Properties.                                                             *)

GitHubHosted ==
  {"PkgGoDev", "SwiftPackageIndex", "GithubReleases", "Vcpkg", "Homebrew"}

\* A message about a missing token is one that the operator can act on: the
\* variable it names could not be read when the process started, so setting
\* it and restarting the worker helps, whatever else is set.  token_for,
\* token_env_var and from_env_fn are three tables that must agree on this.
BlamedVariableWasUnset ==
  \A v \in blamed : started[v] \in {"unset", "garbled"}

\* A credential reaches only whom it is meant for, and only as it was when the
\* process started: a registry's tool is given the value of its own variable,
\* or GitHub's token when the registry is hosted there and its own variable is
\* not set.  A token that was changed while the worker ran is not noticed.
TokensGoHome ==
  /\ \A t \in given.publisher :
       LET own == TokenEnvVar[Registry]
       IN  /\ t.value = started[t.from]
           /\ \/ t.from = own
              \/ /\ t.from = "GITHUB_TOKEN" /\ Registry \in GitHubHosted
                 /\ started[own] \in {"unset", "garbled"}
  /\ \A t \in given.docs :
       /\ t.value = started[t.from]
       /\ \/ t.from = "GITHUB_TOKEN" /\ job.docs = "github_pages"
          \/ t.from = "READTHEDOCS_TOKEN" /\ job.docs = "readthedocs"

\* No job is turned away for a token that the process has: a job whose name
\* stands for a registry fails with a message about a token only if neither
\* the registry's variable nor, where GitHub's token would do, that one was
\* set, or else the package is out and the documentation's token is missing.
UsableTokenIsUsed ==
  \A v \in blamed :
    \/ given.publisher # {} /\ job.docs \in {"github_pages", "readthedocs"}
    \/ /\ Registry \in GitHubHosted
          => started["GITHUB_TOKEN"] \in {"unset", "garbled"}
       /\ started[TokenEnvVar[Registry]] \in {"unset", "garbled"}

=============================================================================
