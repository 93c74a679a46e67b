------------------------- MODULE RegistryPublisher -------------------------
(***************************************************************************)
(* One call of publish_with_options on CliRegistryPublisher (publish.rs),  *)
(* with the signing it does (signing.rs): a credential file, an ephemeral  *)
(* GNUPGHOME, detached signatures or git signing, and the commands of the  *)
(* registry's tools, in the order of the source and stopping at the first  *)
(* that fails.  A step is a file operation or a child process that ends.   *)
(*                                                                         *)
(* The tools are external: each may succeed or fail, a failed one may have *)
(* done its work nevertheless, and one whose parent was killed goes on.    *)
(***************************************************************************)
EXTENDS Naturals, Sequences

CONSTANTS
  Registries,   \* the registries calls are made for
  MaxFiles      \* bound: how many files a directory holds that can be signed

KnownRegistries ==
  {"npm", "pypi", "cargo", "maven", "nuget", "rubygems", "packagist", "pkggodev",
   "swift", "conan", "vcpkg", "homebrew", "github_releases"}

ASSUME RegistriesAssumption == Registries \subseteq KnownRegistries
ASSUME MaxFilesAssumption == MaxFiles \in Nat

\* What each publish_*_with_exe does with a PgpSigningConfig, and which write
\* a credential file.
SignsFiles == {"pypi", "homebrew", "github_releases"}
SignsTags == {"pkggodev", "swift"}
UsesKey == SignsFiles \cup SignsTags \cup {"maven"}
WritesSecret == {"npm", "maven"}

\* Mutant of Commands: conan uploads before it packs.
CommandsSwapped(r) ==
  CASE r \in SignsTags -> <<"tag", "inspect">>
    [] r = "conan" -> <<"upload", "pack">>
    [] r = "packagist" -> <<"inspect">>
    [] r \in {"vcpkg", "homebrew"} -> <<"edit">>
    [] OTHER -> <<"upload">>

(***************************************************************************)
(* The commands a registry's tools are given, by what they do.  "upload":  *)
(* npm publish, twine upload, cargo publish, mvn deploy or gradle publish, *)
(* dotnet nuget push, gem push, conan upload, gh release upload.  "pack":  *)
(* conan export-pkg.  "tag": git tag -f.  "inspect": go list -m, swift     *)
(* package dump-package, composer validate.  "edit": vcpkg x-add-version,  *)
(* brew bump-formula-pr --write-only.  Only "upload" leaves the machine.   *)
(***************************************************************************)
Commands(r) ==
  CASE r \in SignsTags -> <<"tag", "inspect">>
    [] r = "conan" -> <<"pack", "upload">>
    [] r = "packagist" -> <<"inspect">>
    [] r \in {"vcpkg", "homebrew"} -> <<"edit">>
    [] OTHER -> <<"upload">>

UploadingRegistries == {r \in KnownRegistries : \E i \in DOMAIN Commands(r) : Commands(r)[i] = "upload"}

VARIABLES
  call,        \* the arguments: registry, pgp (a config is given), pairs (git settings)
  files,       \* how many files of the directory have a signable extension
  stage,       \* the step that is next
  answer,      \* "none" while running, "ok", "err", or "killed"
  secretFile,  \* .npmrc or settings.xml: "absent", "open" or "private" (0600)
  home,        \* the temporary GNUPGHOME: "absent", "empty" or "keyed"
  imported,    \* history: the key of the config was imported
  asc,         \* the .asc file of each file: "none", "old", "gpg" or "placeholder"
  signed,      \* how many files were signed
  configured,  \* how many git settings were made
  ran,         \* how many commands succeeded
  tag,         \* the git tag: "none", "plain" or "signed"
  sent,        \* the registry has received the package
  finished     \* history: the last command did what it does

vars == <<call, files, stage, answer, secretFile, home, imported, asc, signed,
          configured, ran, tag, sent, finished>>

Stages == {"secret", "restrict", "home", "import", "sign", "config", "run", "done"}
Files == 1 .. MaxFiles

TypeOK ==
  /\ call \in [registry : Registries, pgp : BOOLEAN, pairs : 3 .. 4]
  /\ files \in 0 .. MaxFiles
  /\ stage \in Stages
  /\ answer \in {"none", "ok", "err", "killed"}
  /\ secretFile \in {"absent", "open", "private"}
  /\ home \in {"absent", "empty", "keyed"}
  /\ imported \in BOOLEAN
  /\ asc \in [Files -> {"none", "old", "gpg", "placeholder"}]
  /\ signed \in 0 .. files
  /\ configured \in 0 .. call.pairs
  /\ ran \in 0 .. Len(Commands(call.registry))
  /\ tag \in {"none", "plain", "signed"}
  /\ sent \in BOOLEAN
  /\ finished \in BOOLEAN

\* Mutant of AfterSecret: the tagging registries forget the config.
AfterSecretNoTags(c, n) ==
  IF c.pgp /\ c.registry \in UsesKey \ SignsTags /\ (c.registry \in SignsFiles => n > 0)
  THEN "home" ELSE "run"

\* Without a config, without files to sign, or for a registry that takes no
\* config, the commands follow.
AfterSecret(c, n) ==
  IF c.pgp /\ c.registry \in UsesKey /\ (c.registry \in SignsFiles => n > 0)
  THEN "home" ELSE "run"

Init ==
  /\ call \in [registry : Registries, pgp : BOOLEAN, pairs : 3 .. 4]
  /\ files \in 0 .. MaxFiles
  /\ stage = IF call.registry \in WritesSecret THEN "secret" ELSE AfterSecret(call, files)
  /\ answer = "none"
  /\ secretFile = "absent" /\ home = "absent" /\ imported = FALSE
  /\ asc \in [Files -> {"none", "old"}]
  /\ signed = 0 /\ configured = 0 /\ ran = 0
  /\ tag = "none" /\ sent = FALSE /\ finished = FALSE

----------------------------------------------------------------------------

At(s) == stage = s /\ answer = "none"

\* Mutant of Return: the home outlives a failed call.
ReturnKeepingHome(result) ==
  /\ answer' = result
  /\ stage' = "done"
  /\ home' = IF result = "ok" THEN "absent" ELSE home
  /\ secretFile' = IF secretFile = "private" THEN "absent" ELSE secretFile

\* The call returns: TempGpgHome is dropped, and SecretFileCleanupGuard, which
\* exists once the file was written and made private.
Return(result) ==
  /\ answer' = result
  /\ stage' = "done"
  /\ home' = "absent"
  /\ secretFile' = IF secretFile = "private" THEN "absent" ELSE secretFile

\* write_secret_file: fs::write.
WriteSecret ==
  /\ At("secret")
  /\ secretFile' = "open"
  /\ stage' = "restrict"
  /\ UNCHANGED <<call, files, answer, home, imported, asc, signed, configured, ran, tag, sent, finished>>

\* fs::write fails, perhaps after it created the file.
WriteSecretFails ==
  /\ At("secret")
  /\ secretFile' \in {"absent", "open"}
  /\ answer' = "err" /\ stage' = "done"
  /\ UNCHANGED <<call, files, home, imported, asc, signed, configured, ran, tag, sent, finished>>

\* write_secret_file: fs::set_permissions, and the guard is returned.
RestrictSecret ==
  /\ At("restrict")
  /\ secretFile' = "private"
  /\ stage' = AfterSecret(call, files)
  /\ UNCHANGED <<call, files, answer, home, imported, asc, signed, configured, ran, tag, sent, finished>>

\* fs::set_permissions fails: no guard was made, the file stays.
RestrictSecretFails ==
  /\ At("restrict")
  /\ Return("err")
  /\ UNCHANGED <<call, files, imported, asc, signed, configured, ran, tag, sent, finished>>

\* TempGpgHome::new.
OpenHome ==
  /\ At("home")
  /\ home' = "empty"
  /\ stage' = "import"
  /\ UNCHANGED <<call, files, answer, secretFile, imported, asc, signed, configured, ran, tag, sent, finished>>

\* import_private_key_sync.
ImportKey ==
  /\ At("import")
  /\ home' = "keyed"
  /\ imported' = TRUE
  /\ stage' = CASE call.registry \in SignsFiles -> "sign"
                [] call.registry \in SignsTags -> "config"
                [] OTHER -> "run"
  /\ UNCHANGED <<call, files, answer, secretFile, asc, signed, configured, ran, tag, sent, finished>>

\* Either of the two fails.
KeyFails ==
  /\ At("home") \/ At("import")
  /\ Return("err")
  /\ UNCHANGED <<call, files, imported, asc, signed, configured, ran, tag, sent, finished>>

\* Mutant of SignFile: stops before the last file.
SignAllButLast ==
  /\ At("sign")
  /\ signed' = signed + 1
  /\ asc' = [asc EXCEPT ![signed'] = IF signed' = files THEN @ ELSE "gpg"]
  /\ IF signed' = files THEN stage' = "run" /\ home' = "absent" ELSE UNCHANGED <<stage, home>>
  /\ UNCHANGED <<call, files, answer, secretFile, imported, configured, ran, tag, sent, finished>>

\* sign_file_with_gpg_home_sync on the next file, in name order.  If gpg exits
\* with 0 but wrote nothing, an .asc that was there counts, and a placeholder
\* is written otherwise.  After the last file sign_directory_artifacts_sync
\* returns and drops its home.
SignFile ==
  /\ At("sign")
  /\ signed' = signed + 1
  /\ \E a \in {"gpg", IF asc[signed'] = "none" THEN "placeholder" ELSE asc[signed']} :
       asc' = [asc EXCEPT ![signed'] = a]
  /\ IF signed' = files THEN stage' = "run" /\ home' = "absent" ELSE UNCHANGED <<stage, home>>
  /\ UNCHANGED <<call, files, answer, secretFile, imported, configured, ran, tag, sent, finished>>

\* gpg fails, perhaps after it wrote the .asc, or the placeholder cannot be
\* written.  The signatures made so far stay in the directory.
SignFileFails ==
  /\ At("sign")
  /\ \E a \in {"gpg", asc[signed + 1]} : asc' = [asc EXCEPT ![signed + 1] = a]
  /\ Return("err")
  /\ UNCHANGED <<call, files, imported, signed, configured, ran, tag, sent, finished>>

\* configure_git_signing_sync: the next git config; after the last the home is
\* handed to the caller, who keeps it until the end.
ConfigureGit ==
  /\ At("config")
  /\ configured' = configured + 1
  /\ stage' = IF configured' = call.pairs THEN "run" ELSE "config"
  /\ UNCHANGED <<call, files, answer, secretFile, home, imported, asc, signed, ran, tag, sent, finished>>

ConfigureGitFails ==
  /\ At("config")
  /\ Return("err")
  /\ UNCHANGED <<call, files, imported, asc, signed, configured, ran, tag, sent, finished>>

Command == Commands(call.registry)[ran + 1]

\* git tag is given -s when there is a home.
TagKind == IF home = "absent" THEN "plain" ELSE "signed"

\* What a command does.
Effect ==
  /\ sent' = (sent \/ Command = "upload")
  /\ finished' = (finished \/ ran + 1 = Len(Commands(call.registry)))
  /\ tag' = IF Command = "tag" THEN TagKind ELSE tag

\* Mutant of RunCommand: the call returns after the first command.
RunOnlyFirst ==
  /\ At("run")
  /\ Effect
  /\ ran' = ran + 1
  /\ Return("ok")
  /\ UNCHANGED <<call, files, imported, asc, signed, configured>>

\* The next command exits with 0; after the last, the call returns.
RunCommand ==
  /\ At("run")
  /\ Effect
  /\ ran' = ran + 1
  /\ IF ran' = Len(Commands(call.registry))
     THEN Return("ok") ELSE UNCHANGED <<stage, answer, secretFile, home>>
  /\ UNCHANGED <<call, files, imported, asc, signed, configured>>

\* The next command cannot be spawned or does not exit with 0.
CommandFails ==
  /\ At("run")
  /\ Effect \/ UNCHANGED <<tag, sent, finished>>
  /\ Return("err")
  /\ UNCHANGED <<call, files, imported, asc, signed, configured, ran>>

\* The process is killed.
Kill ==
  /\ answer = "none"
  /\ answer' = "killed"
  /\ UNCHANGED <<call, files, stage, secretFile, home, imported, asc, signed,
                 configured, ran, tag, sent, finished>>

\* The registry's tool that was running then goes on without it.
OrphanGoesOn ==
  /\ answer = "killed" /\ stage = "run"
  /\ Effect
  /\ UNCHANGED <<call, files, stage, answer, secretFile, home, imported, asc,
                 signed, configured, ran>>

Next ==
  \/ WriteSecret \/ WriteSecretFails \/ RestrictSecret \/ RestrictSecretFails
  \/ OpenHome \/ ImportKey \/ KeyFails
  \/ SignFile \/ SignFileFails \/ ConfigureGit \/ ConfigureGitFails
  \/ RunCommand \/ CommandFails \/ Kill \/ OrphanGoesOn

Spec == Init /\ [][Next]_vars

----------------------------------------------------------------------------
(* Properties.                                                             *)

\* A call that returns leaves no GNUPGHOME behind, whichever step failed, and
\* a credential file only when write_secret_file itself failed: then no key
\* was imported and no tool was started.
LeavesNoSecrets ==
  answer \in {"ok", "err"} =>
    /\ home = "absent"
    /\ secretFile # "absent" =>
         answer = "err" /\ ~imported /\ ran = 0 /\ ~sent

\* The tools run only in the situation that their registry needs: with the
\* credential file in place, and private; with every artifact accompanied by
\* an .asc, and the home that made them already gone; or with the home they
\* sign with holding the key and git configured in full.
ReadyToRun ==
  LET r == call.registry IN
  stage = "run" =>
    /\ secretFile = IF r \in WritesSecret THEN "private" ELSE "absent"
    /\ call.pgp /\ r \in SignsFiles =>
         home = "absent" /\ \A f \in 1 .. files : asc[f] # "none"
    /\ call.pgp /\ r \in UsesKey \ SignsFiles => home = "keyed"
    /\ call.pgp /\ r \in SignsTags => configured = call.pairs

\* A failure before the last command leaves the registry untouched: nothing
\* was sent unless signing and every command before the upload succeeded.
SentLast ==
  sent =>
    /\ ran + 1 >= Len(Commands(call.registry))
    /\ call.pgp /\ call.registry \in SignsFiles => signed = files
    /\ call.pgp /\ call.registry = "maven" => imported

\* A tag is signed exactly when a config was given, in every outcome.
TagSignedAsAsked ==
  tag # "none" => (tag = "signed" <=> call.pgp)

\* The call is the service call that PublisherWorker assumes: "ok" only when
\* all commands did what they do, and, for the registries whose tools upload,
\* the registry has received the package.
Completed == finished /\ (call.registry \in UploadingRegistries => sent)
Service == INSTANCE ServiceCall WITH taken <- Completed
ServiceSpec == Service!Spec

\* The inductive invariant behind the four above: what is known at each stage,
\* for a call that was killed there too.
Keyed == call.pgp /\ call.registry \in UsesKey
Waiting == {"secret", "restrict", "home", "import", "sign", "config"}

BeforeRun ==
  stage \in Waiting => ran = 0 /\ ~sent /\ tag = "none"

SecretInv ==
  /\ stage \in {"secret", "restrict"} =>
       call.registry \in WritesSecret /\ home = "absent" /\ ~imported
  /\ stage = "secret" => secretFile = "absent"
  /\ stage = "restrict" => secretFile = "open"
  /\ stage \in {"home", "import", "sign", "config", "run"} =>
       secretFile = IF call.registry \in WritesSecret THEN "private" ELSE "absent"

KeyInv ==
  /\ stage \in {"secret", "restrict", "home", "import"} => signed = 0 /\ configured = 0
  /\ stage \in {"home", "import", "sign", "config"} =>
       Keyed /\ (call.registry \in SignsFiles => files > 0)
  /\ stage = "home" => home = "absent"
  /\ stage = "import" => home = "empty"
  /\ stage = "sign" =>
       call.registry \in SignsFiles /\ home = "keyed" /\ signed < files
  /\ stage = "config" =>
       call.registry \in SignsTags /\ home = "keyed" /\ imported /\ configured < call.pairs
  /\ \A f \in 1 .. signed : asc[f] # "none"

RunInv ==
  stage = "run" =>
    /\ ran < Len(Commands(call.registry))
    /\ IF Keyed /\ call.registry \notin SignsFiles
       THEN home = "keyed" /\ imported ELSE home = "absent"
    /\ Keyed /\ call.registry \in SignsFiles => signed = files
    /\ Keyed /\ call.registry \in SignsTags => configured = call.pairs

StageInv ==
  /\ stage = "done" <=> answer \in {"ok", "err"}
  /\ BeforeRun /\ SecretInv /\ KeyInv /\ RunInv
  /\ LeavesNoSecrets /\ SentLast /\ TagSignedAsAsked

\* publish.rs on publish_with_options: "Ok(()) when signing and publishing
\* succeed": the registry has received the package, and a config that was given
\* was used, unless there was nothing to sign.
OkMeansSignedAndPublished ==
  answer = "ok" => sent /\ (call.pgp /\ files > 0 => imported)

=============================================================================
