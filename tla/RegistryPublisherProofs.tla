---------------------- MODULE RegistryPublisherProofs ----------------------
(***************************************************************************)
(* Proofs about RegistryPublisher: the invariants of a publishing call, for *)
(* every set of registries and every number of files.                      *)
(***************************************************************************)
EXTENDS RegistryPublisher, TLAPS

Inv == TypeOK /\ StageInv

\* Every registry has one or two commands; the last one of a registry that
\* uploads is the upload.
LEMMA CommandFacts ==
  ASSUME NEW r \in KnownRegistries
  PROVE  /\ Commands(r) \in Seq({"upload", "pack", "tag", "inspect", "edit"})
         /\ Len(Commands(r)) \in 1 .. 2
         /\ \A i \in 1 .. Len(Commands(r)) :
              /\ Commands(r)[i] = "upload" => i = Len(Commands(r))
              /\ Commands(r)[i] = "tag" => r \in SignsTags
         /\ r \in UploadingRegistries => Commands(r)[Len(Commands(r))] = "upload"
<1>1. CASE r \in SignsTags
  <2>1. Commands(r) = <<"tag", "inspect">>
    BY <1>1 DEF Commands, SignsTags
  <2>2. r \notin UploadingRegistries
    BY <2>1 DEF UploadingRegistries
  <2> QED BY <1>1, <2>1, <2>2
<1>2. CASE r = "conan"
  BY <1>2 DEF Commands, SignsTags, UploadingRegistries
<1>3. CASE r = "packagist"
  BY <1>3 DEF Commands, SignsTags, UploadingRegistries
<1>4. CASE r \in {"vcpkg", "homebrew"}
  BY <1>4 DEF Commands, SignsTags, UploadingRegistries
<1>5. CASE r \notin SignsTags \cup {"conan", "packagist", "vcpkg", "homebrew"}
  BY <1>5 DEF Commands, SignsTags, UploadingRegistries
<1> QED BY <1>1, <1>2, <1>3, <1>4, <1>5

\* A call starts in a state of the invariant.
LEMMA StartInv == Init => Inv
<1> SUFFICES ASSUME Init PROVE Inv OBVIOUS
<1> USE RegistriesAssumption, MaxFilesAssumption
<1>1. call.registry \in KnownRegistries /\ call.pairs \in 3 .. 4 /\ call.pgp \in BOOLEAN
  BY DEF Init
<1>2. Len(Commands(call.registry)) \in 1 .. 2
  BY <1>1, CommandFacts
<1>3. stage \in {"secret", "home", "run"}
  BY DEF Init, AfterSecret
<1>4. TypeOK
  <2>1. files \in Nat
    BY DEF Init
  <2>2. asc \in [Files -> {"none", "old", "gpg", "placeholder"}]
    BY DEF Init
  <2>3. call \in [registry : Registries, pgp : BOOLEAN, pairs : 3 .. 4] /\ files \in 0 .. MaxFiles
    BY DEF Init
  <2>4. 0 \in 0 .. files /\ 0 \in 0 .. call.pairs /\ 0 \in 0 .. Len(Commands(call.registry))
    BY <1>1, <1>2, <2>1
  <2> QED BY <1>3, <2>2, <2>3, <2>4 DEF Init, TypeOK, Stages
<1>5. StageInv
  <2>1. stage = "secret" <=> call.registry \in WritesSecret
    BY DEF Init, AfterSecret
  <2>2. stage = "home" => Keyed /\ (call.registry \in SignsFiles => files > 0)
    BY DEF Init, AfterSecret, Keyed
  <2>3. stage = "run" => ~Keyed \/ (call.registry \in SignsFiles /\ files = 0)
    BY MaxFilesAssumption DEF Init, AfterSecret, Keyed
  <2>4. stage = "run" => call.registry \notin SignsTags \/ ~Keyed
    BY <2>3 DEF SignsTags, SignsFiles
  <2>5. 0 < Len(Commands(call.registry)) /\ \A f \in 1 .. 0 : asc[f] # "none"
    BY <1>2
  <2>6. /\ answer = "none" /\ secretFile = "absent" /\ home = "absent" /\ ~imported
        /\ signed = 0 /\ configured = 0 /\ ran = 0 /\ tag = "none" /\ ~sent
    BY DEF Init
  <2> QED BY <1>3, <2>1, <2>2, <2>3, <2>4, <2>5, <2>6
      DEF StageInv, BeforeRun, SecretInv, KeyInv, RunInv, Waiting, LeavesNoSecrets, SentLast,
          TagSignedAsAsked
<1> QED BY <1>4, <1>5 DEF Inv

\* What the type invariant says of the arguments, for the steps below.
LEMMA Arguments ==
  ASSUME TypeOK
  PROVE  /\ call.registry \in KnownRegistries
         /\ call.pgp \in BOOLEAN
         /\ call.pairs \in 3 .. 4
         /\ files \in Nat /\ MaxFiles \in Nat /\ files <= MaxFiles
         /\ Len(Commands(call.registry)) \in 1 .. 2
<1>1. call.registry \in KnownRegistries /\ call.pgp \in BOOLEAN /\ call.pairs \in 3 .. 4
  BY RegistriesAssumption DEF TypeOK
<1> QED BY <1>1, CommandFacts, MaxFilesAssumption DEF TypeOK

\* Every step preserves the invariant.
LEMMA StepInv == Inv /\ [Next]_vars => Inv'
<1> SUFFICES ASSUME Inv, [Next]_vars PROVE Inv'
  OBVIOUS
<1>0. TypeOK /\ StageInv
  BY DEF Inv
<1> DEFINE r == call.registry
<1>args. /\ r \in KnownRegistries /\ call.pgp \in BOOLEAN /\ call.pairs \in 3 .. 4
         /\ files \in Nat /\ MaxFiles \in Nat /\ files <= MaxFiles
         /\ Len(Commands(r)) \in 1 .. 2
  BY <1>0, Arguments
<1>sets. /\ r \in SignsTags => r \in UsesKey /\ r \notin SignsFiles
         /\ r \in SignsFiles => r \in UsesKey
         /\ r \in WritesSecret => r \notin SignsFiles /\ r \notin SignsTags
         /\ r \in UsesKey => r \in SignsFiles \/ r \in SignsTags \/ r = "maven"
         /\ "maven" \in UsesKey /\ "maven" \notin SignsTags /\ "maven" \notin SignsFiles
  BY DEF SignsTags, SignsFiles, WritesSecret, UsesKey
<1>cmd. stage = "run" => /\ Command = "upload" => ran + 1 = Len(Commands(r))
                         /\ Command = "tag" => r \in SignsTags
  BY <1>0, <1>args, CommandFacts DEF StageInv, RunInv, TypeOK, Command
<1> USE DEF At
<1>1. CASE WriteSecret
  <2>1. TypeOK'
    BY <1>1, <1>0, <1>args DEF WriteSecret, TypeOK, Stages, Files, StageInv, KeyInv, RunInv
  <2>2. StageInv'
    BY <1>1, <1>0, <1>args DEF WriteSecret, TypeOK, StageInv, BeforeRun, SecretInv, KeyInv,
       RunInv, Waiting, Keyed, LeavesNoSecrets,
       SentLast, TagSignedAsAsked
  <2> QED BY <2>1, <2>2 DEF Inv
<1>2. CASE WriteSecretFails
  <2>1. TypeOK'
    BY <1>2, <1>0, <1>args DEF WriteSecretFails, TypeOK, Stages, Files, StageInv, KeyInv, RunInv
  <2>2. StageInv'
    BY <1>2, <1>0, <1>args DEF WriteSecretFails, TypeOK, StageInv, BeforeRun, SecretInv, KeyInv,
       RunInv, Waiting, Keyed, LeavesNoSecrets,
       SentLast, TagSignedAsAsked
  <2> QED BY <2>1, <2>2 DEF Inv
<1>3. CASE RestrictSecret
  <2>1. TypeOK'
    BY <1>3, <1>0, <1>args DEF RestrictSecret, AfterSecret, TypeOK, Stages, Files, StageInv, KeyInv, RunInv
  <2>2. /\ stage = "restrict" /\ r \in WritesSecret /\ secretFile' = "private"
        /\ stage' = IF Keyed THEN "home" ELSE "run"
        /\ home = "absent" /\ signed = 0 /\ configured = 0
        /\ answer = "none" /\ ran = 0 /\ ~sent /\ tag = "none"
    BY <1>3, <1>0, <1>args, <1>sets
       DEF RestrictSecret, AfterSecret, StageInv, KeyInv, BeforeRun, SecretInv, Waiting, Keyed
  <2>3. UNCHANGED <<call, files, answer, home, imported, asc, signed, configured, ran, tag, sent>>
    BY <1>3 DEF RestrictSecret
  <2>4. Keyed \in BOOLEAN /\ \A f \in 1 .. 0 : asc[f] # "none"
    BY DEF Keyed
  <2>5. StageInv'
    BY <2>2, <2>3, <2>4, <1>args, <1>sets DEF StageInv, BeforeRun, SecretInv, KeyInv, RunInv,
       Waiting, Keyed, LeavesNoSecrets, SentLast, TagSignedAsAsked
  <2> QED BY <2>1, <2>5 DEF Inv
<1>4. CASE RestrictSecretFails
  <2>1. TypeOK'
    BY <1>4, <1>0, <1>args DEF RestrictSecretFails, Return, TypeOK, Stages, Files, StageInv, KeyInv, RunInv
  <2>2. StageInv'
    BY <1>4, <1>0, <1>args DEF RestrictSecretFails, Return, TypeOK, StageInv, BeforeRun, SecretInv, KeyInv,
       RunInv, Waiting, Keyed, LeavesNoSecrets,
       SentLast, TagSignedAsAsked
  <2> QED BY <2>1, <2>2 DEF Inv
<1>5. CASE OpenHome
  <2>1. TypeOK'
    BY <1>5, <1>0, <1>args DEF OpenHome, TypeOK, Stages, Files, StageInv, KeyInv, RunInv
  <2>2. StageInv'
    BY <1>5, <1>0, <1>args DEF OpenHome, TypeOK, StageInv, BeforeRun, SecretInv, KeyInv,
       RunInv, Waiting, Keyed, LeavesNoSecrets,
       SentLast, TagSignedAsAsked
  <2> QED BY <2>1, <2>2 DEF Inv
<1>6. CASE ImportKey
  <2>1. TypeOK'
    BY <1>6, <1>0, <1>args DEF ImportKey, TypeOK, Stages, Files, StageInv, KeyInv, RunInv
  <2>2. StageInv'
    BY <1>6, <1>0, <1>args, <1>sets DEF ImportKey, TypeOK, StageInv, BeforeRun, SecretInv, KeyInv,
       RunInv, Waiting, Keyed, LeavesNoSecrets,
       SentLast, TagSignedAsAsked
  <2> QED BY <2>1, <2>2 DEF Inv
<1>7. CASE KeyFails
  <2>1. TypeOK'
    BY <1>7, <1>0, <1>args DEF KeyFails, Return, TypeOK, Stages, Files, StageInv, KeyInv, RunInv
  <2>2. StageInv'
    BY <1>7, <1>0, <1>args DEF KeyFails, Return, TypeOK, StageInv, BeforeRun, SecretInv, KeyInv,
       RunInv, Waiting, Keyed, LeavesNoSecrets,
       SentLast, TagSignedAsAsked
  <2> QED BY <2>1, <2>2 DEF Inv
<1>8. CASE SignFile
  <2>1. TypeOK'
    BY <1>8, <1>0, <1>args DEF SignFile, TypeOK, Stages, Files, StageInv, KeyInv, RunInv
  <2>2. \A f \in 1 .. signed' : asc'[f] # "none"
    BY <1>8, <1>0, <1>args DEF SignFile, TypeOK, StageInv, KeyInv, Files
  <2>3. /\ stage = "sign" /\ Keyed /\ r \in SignsFiles /\ files > 0 /\ signed' = signed + 1
        /\ \/ stage' = "run" /\ home' = "absent" /\ signed' = files
           \/ stage' = "sign" /\ home' = "keyed" /\ signed' < files
        /\ answer = "none" /\ ran = 0 /\ ~sent /\ tag = "none" /\ secretFile = "absent"
    BY <1>8, <1>0, <1>args, <1>sets
       DEF SignFile, TypeOK, StageInv, KeyInv, BeforeRun, SecretInv, Waiting
  <2>4. UNCHANGED <<call, files, answer, secretFile, imported, configured, ran, tag, sent>>
    BY <1>8 DEF SignFile
  <2>5. CASE stage' = "run"
    <3>1. KeyInv' /\ RunInv'
      BY <2>2, <2>3, <2>4, <2>5, <1>args, <1>sets DEF KeyInv, RunInv, Keyed
    <3>2. BeforeRun' /\ SecretInv' /\ LeavesNoSecrets' /\ SentLast' /\ TagSignedAsAsked'
      BY <2>3, <2>4, <2>5, <1>sets
         DEF BeforeRun, SecretInv, Waiting, LeavesNoSecrets, SentLast, TagSignedAsAsked
    <3> QED BY <3>1, <3>2, <2>3, <2>4, <2>5, <2>1 DEF StageInv, Inv
  <2>6. CASE stage' = "sign"
    <3>1. KeyInv' /\ RunInv'
      BY <2>2, <2>3, <2>4, <2>6, <1>args, <1>sets DEF KeyInv, RunInv, Keyed
    <3>2. BeforeRun' /\ SecretInv' /\ LeavesNoSecrets' /\ SentLast' /\ TagSignedAsAsked'
      BY <2>3, <2>4, <2>6, <1>sets
         DEF BeforeRun, SecretInv, Waiting, LeavesNoSecrets, SentLast, TagSignedAsAsked
    <3> QED BY <3>1, <3>2, <2>3, <2>4, <2>6, <2>1 DEF StageInv, Inv
  <2> QED BY <2>3, <2>5, <2>6
<1>9. CASE SignFileFails
  <2>1. TypeOK'
    BY <1>9, <1>0, <1>args DEF SignFileFails, Return, TypeOK, Stages, Files, StageInv, KeyInv, RunInv
  <2>2. StageInv'
    BY <1>9, <1>0, <1>args DEF SignFileFails, Return, TypeOK, StageInv, BeforeRun, SecretInv, KeyInv,
       RunInv, Waiting, Keyed, LeavesNoSecrets,
       SentLast, TagSignedAsAsked
  <2> QED BY <2>1, <2>2 DEF Inv
<1>10. CASE ConfigureGit
  <2>1. TypeOK'
    BY <1>10, <1>0, <1>args DEF ConfigureGit, TypeOK, Stages, Files, StageInv, KeyInv, RunInv
  <2>2. StageInv'
    <3>1. /\ stage = "config" /\ answer = "none" /\ configured' = configured + 1
          /\ UNCHANGED <<call, files, answer, secretFile, home, imported, asc, signed, ran, tag, sent>>
          /\ stage' = IF configured' = call.pairs THEN "run" ELSE "config"
      BY <1>10 DEF ConfigureGit, At
    <3>2. /\ BeforeRun /\ SecretInv /\ KeyInv /\ configured \in Nat
      BY <1>0 DEF StageInv, TypeOK
    <3>3. BeforeRun' /\ SecretInv' /\ LeavesNoSecrets' /\ SentLast' /\ TagSignedAsAsked'
      BY <3>1, <3>2 DEF BeforeRun, SecretInv, Waiting, LeavesNoSecrets, SentLast, TagSignedAsAsked
    <3>4. KeyInv'
      BY <3>1, <3>2, <1>args, <1>sets DEF KeyInv, Keyed
    <3>5. RunInv'
      <4>1. r \in SignsTags /\ home = "keyed" /\ imported
        BY <3>1, <3>2 DEF KeyInv
      <4>2. ran = 0 /\ 0 < Len(Commands(r))
        <5>1. ran = 0
          BY <3>1, <3>2 DEF BeforeRun, Waiting
        <5>2. 0 < Len(Commands(r))
          BY <1>args
        <5> QED BY <5>1, <5>2
      <4>3. stage' = "run" => configured' = call.pairs
        BY <3>1
      <4>4. Keyed /\ r \notin SignsFiles
        BY <3>1, <3>2, <4>1, <1>sets DEF KeyInv
      <4> QED BY <3>1, <4>1, <4>2, <4>3, <4>4 DEF RunInv, Keyed
    <3> QED BY <3>1, <3>3, <3>4, <3>5 DEF StageInv
  <2> QED BY <2>1, <2>2 DEF Inv
<1>11. CASE ConfigureGitFails
  <2>1. TypeOK'
    BY <1>11, <1>0, <1>args DEF ConfigureGitFails, Return, TypeOK, Stages, Files, StageInv, KeyInv, RunInv
  <2>2. StageInv'
    BY <1>11, <1>0, <1>args DEF ConfigureGitFails, Return, TypeOK, StageInv, BeforeRun, SecretInv, KeyInv,
       RunInv, Waiting, Keyed, LeavesNoSecrets,
       SentLast, TagSignedAsAsked
  <2> QED BY <2>1, <2>2 DEF Inv
<1>12. CASE RunCommand
  <2>1. TypeOK'
    BY <1>12, <1>0, <1>args DEF RunCommand, Return, Effect, TagKind, Command, TypeOK, Stages, Files, StageInv, KeyInv, RunInv
  <2>2. (Effect \/ UNCHANGED <<tag, sent, finished>>) /\ stage = "run"
    BY <1>12 DEF RunCommand
  <2>3. /\ sent' => sent \/ ran + 1 = Len(Commands(r))
        /\ tag' # "none" /\ tag' # tag => (tag' = "signed" <=> call.pgp)
    BY <2>2, <1>0, <1>args, <1>sets, <1>cmd DEF Effect, TagKind, TypeOK, StageInv, RunInv, TagSignedAsAsked, Keyed
  <2>4. StageInv'
    BY <1>12, <1>0, <1>args, <1>sets, <2>3 DEF RunCommand, Return, TypeOK, StageInv, BeforeRun, SecretInv, KeyInv,
       RunInv, Waiting, Keyed, LeavesNoSecrets,
       SentLast, TagSignedAsAsked
  <2> QED BY <2>1, <2>4 DEF Inv
<1>13. CASE CommandFails
  <2>1. TypeOK'
    BY <1>13, <1>0, <1>args DEF CommandFails, Return, Effect, TagKind, Command, TypeOK, Stages, Files, StageInv, KeyInv, RunInv
  <2>2. (Effect \/ UNCHANGED <<tag, sent, finished>>) /\ stage = "run"
    BY <1>13 DEF CommandFails
  <2>3. /\ sent' => sent \/ ran + 1 = Len(Commands(r))
        /\ tag' # "none" /\ tag' # tag => (tag' = "signed" <=> call.pgp)
    BY <2>2, <1>0, <1>args, <1>sets, <1>cmd DEF Effect, TagKind, TypeOK, StageInv, RunInv, TagSignedAsAsked, Keyed
  <2>4. StageInv'
    BY <1>13, <1>0, <1>args, <1>sets, <2>3 DEF CommandFails, Return, TypeOK, StageInv, BeforeRun, SecretInv, KeyInv,
       RunInv, Waiting, Keyed, LeavesNoSecrets,
       SentLast, TagSignedAsAsked
  <2> QED BY <2>1, <2>4 DEF Inv
<1>14. CASE Kill
  <2>1. TypeOK'
    BY <1>14, <1>0, <1>args DEF Kill, TypeOK, Stages, Files, StageInv, KeyInv, RunInv
  <2>2. StageInv'
    BY <1>14, <1>0, <1>args DEF Kill, TypeOK, StageInv, BeforeRun, SecretInv, KeyInv,
       RunInv, Waiting, Keyed, LeavesNoSecrets,
       SentLast, TagSignedAsAsked
  <2> QED BY <2>1, <2>2 DEF Inv
<1>15. CASE OrphanGoesOn
  <2>1. TypeOK'
    BY <1>15, <1>0, <1>args DEF OrphanGoesOn, Effect, TagKind, Command, TypeOK, Stages, Files, StageInv, KeyInv, RunInv
  <2>2. (Effect \/ UNCHANGED <<tag, sent, finished>>) /\ stage = "run"
    BY <1>15 DEF OrphanGoesOn
  <2>3. /\ sent' => sent \/ ran + 1 = Len(Commands(r))
        /\ tag' # "none" /\ tag' # tag => (tag' = "signed" <=> call.pgp)
    BY <2>2, <1>0, <1>args, <1>sets, <1>cmd DEF Effect, TagKind, TypeOK, StageInv, RunInv, TagSignedAsAsked, Keyed
  <2>4. StageInv'
    BY <1>15, <1>0, <1>args, <1>sets, <2>3 DEF OrphanGoesOn, TypeOK, StageInv, BeforeRun, SecretInv, KeyInv,
       RunInv, Waiting, Keyed, LeavesNoSecrets,
       SentLast, TagSignedAsAsked
  <2> QED BY <2>1, <2>4 DEF Inv
<1>16. CASE UNCHANGED vars
  BY <1>16, <1>0 DEF vars, Inv, TypeOK, StageInv, BeforeRun, SecretInv, KeyInv,
       RunInv, Waiting, Keyed, LeavesNoSecrets, SentLast,
     TagSignedAsAsked, Files
<1> QED BY <1>1, <1>2, <1>3, <1>4, <1>5, <1>6, <1>7, <1>8, <1>9, <1>10, <1>11, <1>12, <1>13, <1>14, <1>15, <1>16 DEF Next

\* The invariant holds throughout.
THEOREM CallInductive == Spec => []Inv
BY StartInv, StepInv, PTL DEF Spec

\* A call keeps its variables in their types.
THEOREM CallTypes == Spec => []TypeOK
BY CallInductive, PTL DEF Inv

\* At each stage of a call the files on disk, the home, the imported key, the
\* git settings and what was sent are those of that stage.
THEOREM StagesHold == Spec => []StageInv
BY CallInductive, PTL DEF Inv

\* A call that returned has removed its GNUPGHOME, and its credential file
\* unless write_secret_file failed, before anything was run.
THEOREM NoSecretsLeft == Spec => []LeavesNoSecrets
<1>1. Inv => LeavesNoSecrets
  BY DEF Inv, StageInv
<1> QED BY <1>1, CallInductive, PTL

\* The registry has received nothing from a call in which signing or a command
\* before the upload failed.
THEOREM UploadLast == Spec => []SentLast
<1>1. Inv => SentLast
  BY DEF Inv, StageInv
<1> QED BY <1>1, CallInductive, PTL

\* git tag signs exactly when a config was given.
THEOREM TagsAsAsked == Spec => []TagSignedAsAsked
<1>1. Inv => TagSignedAsAsked
  BY DEF Inv, StageInv
<1> QED BY <1>1, CallInductive, PTL

\* A registry's tools run only with the credentials, the signatures or the
\* signing set-up that they need in place.
THEOREM ToolsReady == Spec => []ReadyToRun
<1>1. Inv => ReadyToRun
  <2> SUFFICES ASSUME Inv, stage = "run" PROVE ReadyToRun
    BY DEF ReadyToRun
  <2>1. TypeOK /\ KeyInv /\ RunInv /\ SecretInv
    BY DEF Inv, StageInv
  <2>2. SignsTags \cap SignsFiles = {} /\ SignsFiles \cup SignsTags \subseteq UsesKey
    BY DEF SignsTags, SignsFiles, UsesKey
  <2> QED BY <2>1, <2>2 DEF ReadyToRun, KeyInv, RunInv, SecretInv, Keyed
<1> QED BY <1>1, CallInductive, PTL

\* A call is the service call that PublisherWorker relies on: "ok" only when
\* the tools did all they do, and the registry of those that upload received
\* the package.
THEOREM CallImplements == Spec => ServiceSpec
<1>1. Init => Service!Init
  BY DEF Init, Service!Init, Completed
<1>2. Inv /\ [Next]_vars => [Service!Next]_(Service!callVars)
  <2> SUFFICES ASSUME Inv, [Next]_vars, <<Completed, answer>>' # <<Completed, answer>>
               PROVE Service!Next
    BY DEF Service!callVars
  <2>0. /\ TypeOK /\ call.registry \in KnownRegistries
        /\ stage = "done" <=> answer \in {"ok", "err"}
    BY Arguments DEF Inv, StageInv
  <2> DEFINE Same == UNCHANGED Completed
             Grows == Completed' \in {Completed, TRUE}
  <2>1. Effect /\ UNCHANGED call => Grows
    BY <2>0 DEF Effect, Completed, TypeOK
  <2>2. UNCHANGED <<call, sent, finished>> => Same
    BY DEF Completed
  <2>3. Service!Fail \/ Service!Take \/ Service!Succeed
    <3> USE DEF Service!Take, Service!Fail, Service!Succeed
    <3>1. CASE WriteSecretFails
      BY <3>1, <2>2 DEF WriteSecretFails, At
    <3>2. CASE RestrictSecretFails
      BY <3>2, <2>2 DEF RestrictSecretFails, At, Return
    <3>3. CASE KeyFails
      BY <3>3, <2>2 DEF KeyFails, At, Return
    <3>4. CASE SignFileFails
      BY <3>4, <2>2 DEF SignFileFails, At, Return
    <3>5. CASE ConfigureGitFails
      BY <3>5, <2>2 DEF ConfigureGitFails, At, Return
    <3>6. CASE RunCommand
      <4>1. answer' = "ok" => Completed'
        <5>1. /\ answer' = "ok" => ran + 1 = Len(Commands(call.registry))
              /\ Effect /\ UNCHANGED call
          BY <3>6 DEF RunCommand, At
        <5>2. answer' = "ok" /\ call.registry \in UploadingRegistries => Command = "upload"
          BY <5>1, <2>0, CommandFacts DEF Command
        <5> QED BY <5>1, <5>2 DEF Effect, Completed
      <4>2. answer = "none" /\ (answer' = answer \/ answer' = "ok")
        BY <3>6 DEF RunCommand, Return, At
      <4>3. Grows
        BY <3>6, <2>1 DEF RunCommand
      <4> QED BY <4>1, <4>2, <4>3
    <3>7. CASE CommandFails
      <4>1. Grows
        BY <3>7, <2>1, <2>2 DEF CommandFails
      <4> QED BY <3>7, <4>1 DEF CommandFails, At, Return
    <3>8. CASE Kill
      BY <3>8, <2>2 DEF Kill
    <3>9. CASE OrphanGoesOn
      <4>1. Grows
        BY <3>9, <2>1 DEF OrphanGoesOn
      <4> QED BY <3>9, <4>1 DEF OrphanGoesOn
    <3>10. CASE WriteSecret \/ RestrictSecret \/ OpenHome \/ ImportKey \/ SignFile
                \/ ConfigureGit \/ UNCHANGED vars
      BY <3>10, <2>2 DEF WriteSecret, RestrictSecret, OpenHome, ImportKey, SignFile, ConfigureGit, vars
    <3> QED BY <3>1, <3>2, <3>3, <3>4, <3>5, <3>6, <3>7, <3>8, <3>9, <3>10 DEF Next
  <2> QED BY <2>3 DEF Service!Next
<1> QED BY <1>1, <1>2, CallInductive, PTL DEF Spec, ServiceSpec, Service!Spec

=============================================================================
