----------------------------- MODULE Migration -----------------------------
(***************************************************************************)
(* runMigration of the engine (packages/engine/src/pipeline.ts) on one     *)
(* repository: the edits of package.json, the deployment runtime and the   *)
(* sources in a candidate copy, its verification (verifier.ts), and the    *)
(* transaction that puts the changed files into the repository while       *)
(* somebody edits it.                                                      *)
(*                                                                         *)
(* A file is a source, package.json, the lockfile, the Dockerfile or       *)
(* another file.  Of package.json and lockfile the model keeps what the    *)
(* code tests: a version is its number, a dependency specification is its  *)
(* kind.  Planning and verification work on copies and do not read the     *)
(* repository, so an edit made meanwhile is one made before the apply.     *)
(***************************************************************************)
EXTENDS Naturals, Sequences, FiniteSets, SequencesExt

CONSTANTS
    Repositories,   \* package.json, lockfile and Dockerfile of the repository
    Locks,          \* what npm may leave as a lockfile
    Signatures,     \* type errors, told apart by signature()
    Source, Target, \* majors of manifest.package
    Floor,          \* manifest.peerFloors
    MinNode,        \* runtime.node.minimumMajor
    ProfileNode,    \* major of the trusted runtime profile
    None, NonRegistry, Edited, Scribbled,
    MaxErrors, MaxEdits     \* bounds: type errors of one run; foreign edits

VARIABLES
    opts,           \* RunMigrationOptions
    pc,
    repo,           \* the repository
    expected,       \* the copy of it that was planned on
    work,           \* the candidate tree
    compiler,       \* version of typescript in work/node_modules
    baseline,       \* type errors before the migration
    ok,             \* verification.ok
    todo,           \* changed files not yet staged, committed or rolled back
    staged,         \* staging files in the repository
    committed,      \* files whose candidateInstalled is set
    window,         \* file checked and about to be renamed over
    rollbackFailed, \* rollbackErrors is not empty
    seen,           \* history: trees on which a check passed
    trusted,        \* history: the compiler was the locked one when it ran
    compiled,       \* history: errors of the compiler's last verdict
    late,           \* history: files edited while their window was open
    edits

verification == <<compiler, baseline, ok, seen, trusted, compiled>>
transaction == <<todo, staged, committed, window, rollbackFailed>>
vars == <<opts, pc, repo, expected, work, verification, transaction, late, edits>>

-----------------------------------------------------------------------------
Files == {"src", "pkg", "lock", "docker", "other"}
Specs == {"range", "tag", "alias", "tarball", "path", "git"}
Versions == {None, NonRegistry} \cup Nat
Package == [target : Versions, floor : Versions, engines : Versions, npmrc : BOOLEAN, spec : Specs,
            typescript : Specs \cup {None}, override : {"none", "registry", "elsewhere", "typescript"},
            manager : {"npm", "yarn"}]
Lock == [deps : {"registry", "elsewhere"}, typescript : {None} \cup Nat, tarball : {"typescript", "other"}]
Options == [write : BOOLEAN, skip : BOOLEAN, install : BOOLEAN, scripts : BOOLEAN]
Errors == UNION {[1 .. n -> Signatures] : n \in 0 .. MaxErrors}

\* What is in a file that nobody edited during the migration.
Contents ==
    Package \cup Lock \cup {None, Scribbled, "old", "new", "static", "pinned", "foreign"}

ASSUME MigrationAssumption ==
    /\ Repositories \subseteq [pkg : Package, lock : Lock \cup {None}, docker : {"static", "pinned", "foreign"}]
    /\ Locks \subseteq Lock \cup {None}
    /\ Source \in Nat /\ Target \in Nat /\ Source < Target
    /\ Floor \in Nat /\ MinNode \in Nat /\ ProfileNode \in Nat /\ MinNode <= ProfileNode
    /\ None \notin Nat /\ NonRegistry \notin Nat
    /\ MaxErrors \in Nat
    /\ Edited \notin Contents

-----------------------------------------------------------------------------
(* dependencyState, satisfiesFloor and ensureNodeFloor: whether            *)
(* updateManifestDependencies accepts package.json, and what it writes.    *)
MeetsFloor(version) == version \notin {None, NonRegistry} /\ version >= Floor
CanUpdate(pkg) ==
    /\ pkg.target \in {Source, Target}
    /\ pkg.floor # NonRegistry
    /\ pkg.engines \in {None} \cup 0 .. ProfileNode
NodeFloor(version) == IF version = None \/ version < MinNode THEN MinNode ELSE version
Updated(pkg) ==
    [pkg EXCEPT !.target = Target,
                !.floor = IF MeetsFloor(pkg.floor) THEN pkg.floor ELSE Floor,
                !.engines = NodeFloor(pkg.engines)]

(* migrateDockerfile pins the audited static recipe, or finds it pinned;   *)
(* attestDockerfile and attestPackageEngine check the result.              *)
CanPin(docker) == docker \in {"static", "pinned"}
DockerfileAttested(docker) == docker = "pinned"
EngineAttested(pkg) == pkg.engines \in MinNode .. ProfileNode
RuntimeAttested(tree) == DockerfileAttested(tree.docker) /\ EngineAttested(tree.pkg)

(* isOfficialRegistryDependencySpec and isUntrustedTypeScriptSpec.         *)
OfficialSpec(spec) == spec \in {"range", "tag", "alias"}
UntrustedTypeScriptSpec(spec) == spec \notin {"range", "tag"}

(* overrideTreeTrustFailure and overrideTreeTargetsTypeScript.             *)
OverrideTrusted(override) == override \in {"none", "registry"}
TargetsTypeScript(override) == override = "typescript"

(* packageLockTrustFailure and typescriptLockfileTrustFailure.             *)
LockTrusted(lock, requireEntry) ==
    IF lock = None THEN ~requireEntry
    ELSE /\ lock.deps = "registry"
         /\ IF lock.typescript = None THEN ~requireEntry ELSE lock.tarball = "typescript"

(* typescriptConfigurationTrustFailure *)
CompilerDeclared(tree, requireEntry) ==
    /\ ~TargetsTypeScript(tree.pkg.override)
    /\ tree.pkg.typescript # None /\ ~UntrustedTypeScriptSpec(tree.pkg.typescript)
    /\ tree.pkg.manager = "npm"
    /\ LockTrusted(tree.lock, requireEntry)

(* dependencyTrustFailure *)
DependenciesTrusted(tree) ==
    /\ ~tree.pkg.npmrc
    /\ CompilerDeclared(tree, FALSE)
    /\ OfficialSpec(tree.pkg.spec)
    /\ OverrideTrusted(tree.pkg.override)

(* installedTypeScriptTrustFailure *)
CompilerTrusted(tree, version) ==
    /\ CompilerDeclared(tree, TRUE)
    /\ version = tree.lock.typescript

-----------------------------------------------------------------------------
(* A command run by the local or the Docker runner: it exited by itself,   *)
(* or could not be started or was killed by its timeout.                   *)
Results == [exited : BOOLEAN, code : {0, 1, 2, 3}]

(* What is read from the output of the compiler: parseTscErrors, and       *)
(* whether no global, configuration or unclassified diagnostic is in it.   *)
Outputs == [errors : Errors, complete : BOOLEAN]

(* The conditions of runTsc under which its result counts.                 *)
Counts(raw, out) ==
    /\ raw.exited /\ out.complete
    /\ raw.code \in {0, 1, 2}
    /\ raw.code = 0 <=> out.errors = <<>>

\* Plausible bug: an old error excuses any number of errors like it.
IntroducedOnce(after, before) == {after[i] : i \in DOMAIN after} \ {before[i] : i \in DOMAIN before}

(* introducedErrors: an error of the baseline excuses one error like it.   *)
Introduced(after, before) ==
    LET Count(s, e) == Cardinality({i \in DOMAIN s : s[i] = e})
        excused(i) == Cardinality({j \in 1 .. i : after[j] = after[i]}) <= Count(before, after[i])
    IN  {after[i] : i \in {j \in DOMAIN after : ~excused(j)}}

-----------------------------------------------------------------------------
(* A report without apply is planned on the repository itself instead of a *)
(* copy; as it writes nothing, the edits it might see are left out.        *)
Init ==
    /\ opts \in {o \in Options : o.skip => ~o.scripts}
    /\ \E r \in Repositories :
          repo = [src |-> "old", pkg |-> r.pkg, lock |-> r.lock, docker |-> r.docker, other |-> "old"]
    /\ pc = "baseline"
    /\ expected = repo /\ work = repo
    /\ compiler = None /\ baseline = None /\ ok = FALSE
    /\ seen = {} /\ trusted = TRUE /\ compiled = <<>>
    /\ todo = <<>> /\ staged = {} /\ committed = {} /\ window = None /\ rollbackFailed = FALSE
    /\ late = {} /\ edits = 0

Goto(step) == pc' = step
planning == <<opts, repo, expected, transaction, late, edits>>

(* The finally block of runMigration: the candidate is thrown away.        *)
Refuse == Goto("failed") /\ UNCHANGED <<planning, work, verification>>

(* runTsc on a copy of the original, in which it may install as well.      *)
Baseline ==
    /\ pc = "baseline"
    /\ \/ /\ ~opts.skip
          /\ IF opts.install THEN DependenciesTrusted(expected) ELSE CompilerDeclared(expected, TRUE)
          /\ baseline' \in Errors
       \/ baseline' = None
    /\ Goto("transform")
    /\ UNCHANGED <<planning, work, compiler, ok, seen, trusted, compiled>>

(* The selected sources after the transforms of the manifest, which may    *)
(* have left them as they were.                                            *)
Transformed == {"old", "new"}

(* The runtime plan, the source transforms and the package update: all are *)
(* planned before the first of them is written.                            *)
Transform ==
    /\ pc = "transform"
    /\ \/ /\ CanPin(work.docker) /\ CanUpdate(work.pkg)
          /\ \E src \in Transformed :
                work' = [work EXCEPT !.docker = "pinned", !.pkg = Updated(work.pkg), !.src = src]
          /\ Goto(IF opts.skip THEN "report" ELSE "install")
          /\ UNCHANGED <<planning, verification>>
       \/ Refuse

-----------------------------------------------------------------------------
(* failedVerification: the result is incomplete and the report says so.    *)
Incomplete == Goto("report") /\ ok' = FALSE

(* npm resolves what the registry offers, which may bring dependencies     *)
(* from elsewhere; with lifecycle scripts off it writes nothing but the    *)
(* lockfile and node_modules.                                              *)
NpmInstall ==
    \E lock \in Locks, version \in {None, 1, 2} :
        work' = [work EXCEPT !.lock = lock] /\ compiler' = version

(* installDeps: the trust check runs again after npm rewrote the lockfile, *)
(* and the compiler has to be the locked one.                              *)
Install ==
    /\ pc = "install"
    /\ \/ /\ CompilerDeclared(work, FALSE)
          /\ \/ /\ opts.install /\ DependenciesTrusted(work)
                /\ NpmInstall
                /\ DependenciesTrusted(work')
             \/ /\ ~opts.install
                /\ compiler' \in {None, 1, 2} /\ UNCHANGED work
          /\ CompilerTrusted(work', compiler')
          /\ Goto("config")
          /\ UNCHANGED ok
       \/ /\ Incomplete
          /\ \E lock \in Locks : work' = IF opts.install THEN [work EXCEPT !.lock = lock] ELSE work
          /\ UNCHANGED compiler
    /\ UNCHANGED <<planning, baseline, seen, trusted, compiled>>

(* A tool of the repository may leave a change in the candidate.           *)
MayScribble == work' \in {work} \cup {[work EXCEPT ![f] = Scribbled] : f \in {"src", "other"}}

(* inspectTypeScriptConfig: the configuration selects and checks every     *)
(* required file, and nothing was written.                                 *)
InspectConfig ==
    /\ pc = "config"
    /\ MayScribble
    /\ \/ work' = work /\ Goto("compile") /\ UNCHANGED ok
       \/ Incomplete
    /\ UNCHANGED <<planning, compiler, baseline, seen, trusted, compiled>>

(* The compiler of runTsc and the comparison of verify.                    *)
Compile ==
    /\ pc = "compile"
    /\ MayScribble
    /\ \E raw \in Results, out \in Outputs :
          IF Counts(raw, out) /\ work' = work /\ baseline # None
          THEN /\ ok' = (Introduced(out.errors, baseline) = {})
               /\ compiled' = out.errors
               /\ seen' = seen \cup {work}
               /\ Goto(IF opts.scripts THEN "script" ELSE "report")
          ELSE Incomplete /\ UNCHANGED <<seen, compiled>>
    /\ trusted' = CompilerTrusted(work, compiler)
    /\ UNCHANGED <<planning, compiler, baseline>>

(* runPackageScript, once for each of the requested scripts.               *)
Script ==
    /\ pc = "script"
    /\ MayScribble
    /\ \E raw \in Results :
          IF raw.exited /\ raw.code = 0 /\ work' = work
          THEN seen' = seen \cup {work} /\ UNCHANGED ok
          ELSE ok' = FALSE /\ UNCHANGED seen
    /\ \E step \in {"script", "report"} : Goto(step)
    /\ UNCHANGED <<planning, compiler, baseline, trusted, compiled>>

(* The rest of runMigration: the runtime attestation, the lockfile rule    *)
(* PKG3, and the list of changed files, sorted by path.  The code keeps of *)
(* the differing files those the migration may touch, which are the files  *)
(* of the model but for "other"; it may leave out a source that only a tool*)
(* has rewritten.                                                          *)
Differs(f) == work[f] # expected[f]
Changed(f) == IF Differs(f) THEN <<f>> ELSE <<>>
ChangedFiles == Changed("docker") \o Changed("lock") \o Changed("pkg") \o Changed("src")
Report ==
    /\ pc = "report"
    /\ ok' = (/\ ok /\ RuntimeAttested(work)
              /\ (work.lock # None /\ Differs("pkg") => opts.install))
    /\ todo' = ChangedFiles
    /\ Goto(IF opts.write THEN "apply" ELSE "done")
    /\ compiler' = None /\ baseline' = None /\ compiled' = <<>>
    /\ UNCHANGED <<opts, repo, expected, work, staged, committed, window, rollbackFailed, late, edits,
                   seen, trusted>>

-----------------------------------------------------------------------------
still == <<opts, expected, work, verification, late, edits>>

(* An error in the transaction starts the rollback, in reverse order.      *)
Abort ==
    /\ Goto("rollback")
    /\ todo' = Reverse(ChangedFiles)
    /\ window' = None
    /\ UNCHANGED <<repo, staged, committed, rollbackFailed, still>>

(* repositoryTreeDigest, assertExpectedFileState, assertCandidateFileState *)
HasTree(tree) == repo = tree
AsExpected(f) == repo[f] = expected[f]
AsCandidate(f) == repo[f] = work[f]

(* applyCandidateFiles: the whole repository is as it was planned on.      *)
ApplyCheck ==
    /\ pc = "apply"
    /\ \/ HasTree(expected) /\ Goto("stage") /\ UNCHANGED <<repo, transaction, still>>
       \/ Abort

(* assertExpectedFileState for one file, and its copy beside it.           *)
Stage ==
    /\ pc = "stage" /\ todo # <<>>
    /\ LET f == Head(todo)
       IN  \/ /\ AsExpected(f)
              /\ staged' = IF work[f] = None THEN staged ELSE staged \cup {f}
              /\ todo' = Tail(todo)
              /\ UNCHANGED <<pc, repo, committed, window, rollbackFailed, still>>
           \/ Abort

(* All files are checked again when the last one is staged.                *)
Recheck ==
    /\ pc = "stage" /\ todo = <<>>
    /\ \/ /\ \A f \in Range(ChangedFiles) : AsExpected(f)
          /\ Goto("commit")
          /\ todo' = ChangedFiles
          /\ UNCHANGED <<repo, staged, committed, window, rollbackFailed, still>>
       \/ Abort

\* Plausible bug: a file is renamed over without a check of its own.
CheckOneOmitted ==
    /\ pc = "commit" /\ todo # <<>> /\ window = None
    /\ window' = Head(todo)
    /\ UNCHANGED <<pc, repo, todo, staged, committed, rollbackFailed, still>>

(* The check of one destination just before its rename: what is written to *)
(* it between the two is lost, which the code accepts.                     *)
CheckOne ==
    /\ pc = "commit" /\ todo # <<>> /\ window = None
    /\ \/ /\ AsExpected(Head(todo))
          /\ window' = Head(todo)
          /\ UNCHANGED <<pc, repo, todo, staged, committed, rollbackFailed, still>>
       \/ Abort

(* renameSync of the staged file, or unlinkSync.                           *)
Rename ==
    /\ pc = "commit" /\ window # None
    /\ \/ /\ repo' = [repo EXCEPT ![window] = work[window]]
          /\ staged' = staged \ {window}
          /\ committed' = committed \cup {window}
          /\ todo' = Tail(todo) /\ window' = None
          /\ UNCHANGED <<pc, rollbackFailed, still>>
       \/ Abort

\* Plausible bug: only the renamed files are looked at.
ConfirmFiles ==
    /\ pc = "commit" /\ todo = <<>>
    /\ \A f \in Range(ChangedFiles) : AsCandidate(f)
    /\ Goto("done")
    /\ UNCHANGED <<repo, transaction, still>>

(* Every file is the candidate's, and the whole tree is the intended one.  *)
Intended == [f \in Files |-> IF f \in Range(ChangedFiles) THEN work[f] ELSE expected[f]]
Confirm ==
    /\ pc = "commit" /\ todo = <<>>
    /\ \/ HasTree(Intended) /\ Goto("done") /\ UNCHANGED <<repo, transaction, still>>
       \/ Abort

(* One file of the catch block: assertCandidateFileState.                  *)
RollbackCheck ==
    /\ pc = "rollback" /\ todo # <<>> /\ window = None
    /\ Head(todo) \in committed
    /\ IF AsCandidate(Head(todo))
       THEN window' = Head(todo) /\ UNCHANGED <<todo, committed, rollbackFailed>>
       ELSE rollbackFailed' = TRUE /\ committed' = committed \ {Head(todo)} /\ UNCHANGED <<todo, window>>
    /\ UNCHANGED <<pc, repo, staged, still>>

(* restoreExpectedFile, which may fail.                                    *)
Restore ==
    /\ pc = "rollback" /\ window # None
    /\ \/ repo' = [repo EXCEPT ![window] = expected[window]] /\ UNCHANGED rollbackFailed
       \/ rollbackFailed' = TRUE /\ UNCHANGED repo
    /\ committed' = committed \ {window} /\ window' = None
    /\ UNCHANGED <<pc, todo, staged, still>>

\* Plausible bug: the staging file of a file that was not committed stays.
DropStageOfCommitted ==
    /\ pc = "rollback" /\ todo # <<>> /\ window = None
    /\ Head(todo) \notin committed
    /\ todo' = Tail(todo)
    /\ UNCHANGED <<pc, repo, staged, committed, window, rollbackFailed, still>>

(* The staging file goes when the file itself is restored, or was never    *)
(* committed.                                                              *)
DropStage ==
    /\ pc = "rollback" /\ todo # <<>> /\ window = None
    /\ Head(todo) \notin committed
    /\ \/ staged' = staged \ {Head(todo)} /\ UNCHANGED rollbackFailed
       \/ Head(todo) \in staged /\ rollbackFailed' = TRUE /\ UNCHANGED staged
    /\ todo' = Tail(todo)
    /\ UNCHANGED <<pc, repo, committed, window, still>>

RolledBack == pc = "rollback" /\ todo = <<>> /\ Goto("failed") /\ UNCHANGED <<repo, transaction, still>>

(* Somebody edits a file of the repository.                                *)
Edit ==
    /\ pc \in {"apply", "stage", "commit", "rollback"}
    /\ edits < MaxEdits
    /\ edits' = edits + 1
    /\ \E f \in Files :
          /\ repo' = [repo EXCEPT ![f] = Edited]
          /\ late' = IF f = window THEN late \cup {f} ELSE late
    /\ UNCHANGED <<opts, pc, expected, work, verification, transaction>>

Next ==
    \/ Baseline \/ Transform \/ Install \/ InspectConfig \/ Compile \/ Script \/ Report
    \/ ApplyCheck \/ Stage \/ Recheck \/ CheckOne \/ Rename \/ Confirm
    \/ RollbackCheck \/ Restore \/ DropStage \/ RolledBack
    \/ Edit

Spec == Init /\ [][Next]_vars

-----------------------------------------------------------------------------
(* A migration that is verified: the compiler that ran is the one locked   *)
(* from the registry, after npm had rewritten the lockfile, no signature   *)
(* has more errors than before the migration, every check passed on the    *)
(* very candidate, and that candidate declares the trusted runtime.        *)
VerdictIsSound ==
    [][pc = "report" /\ ok' =>
          /\ trusted /\ CompilerTrusted(work, compiler)
          /\ seen = {work} /\ RuntimeAttested(work)
          /\ \A e \in Signatures :
                Cardinality({i \in DOMAIN compiled : compiled[i] = e})
                   <= Cardinality({i \in DOMAIN baseline : baseline[i] = e})]_vars

(* A transaction that reports success leaves the planned tree with the     *)
(* candidate's files, whoever edited what meanwhile, and a verified        *)
(* migration leaves the very tree that was verified.  Migrating it again   *)
(* is accepted and changes neither package.json nor the runtime.           *)
AppliedIsVerified ==
    [][pc = "commit" /\ pc' = "done" =>
          /\ repo' = Intended
          /\ ok => seen = {repo'}
          /\ CanUpdate(repo'.pkg) /\ Updated(repo'.pkg) = repo'.pkg /\ CanPin(repo'.docker)]_vars

(* The transaction never overwrites an edit of somebody else, neither when *)
(* it commits nor when it rolls back, unless the edit arrived between the  *)
(* check of that file and its rename.                                      *)
EditsSurvive ==
    [][\A f \in Files : repo[f] = Edited /\ repo'[f] # Edited => f \in late]_vars

(* A transaction that fails and reports no rollback error leaves no        *)
(* staging file and nothing of the candidate: every file is as it was, or  *)
(* as somebody else edited it.                                             *)
FailureRestores ==
    pc = "failed" /\ ~rollbackFailed =>
        /\ staged = {}
        /\ \A f \in Files : repo[f] \in {expected[f], Edited}
=============================================================================
