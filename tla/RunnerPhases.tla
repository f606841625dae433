---------------------------- MODULE RunnerPhases ----------------------------
(***************************************************************************)
(* From a checkout to the evidence of a credential-free job: the source    *)
(* bundle (packages/app/src/runner-source-bundle.ts) and the four phases   *)
(* prepare, install, migrate and verify (packages/runner/src/phases.ts,    *)
(* dependency-state.ts, inputs.ts, evidence.ts), each a process of its own *)
(* over the directories of the job.                                        *)
(*                                                                         *)
(* A phase is told nothing but the plan and the digests that earlier       *)
(* phases printed.  The driver of the phases may call them in any order    *)
(* and again, with whatever digests were printed; a phase may fail in      *)
(* every step, which runs its catch block, or be killed, which does not;   *)
(* and up to MaxTouches times something else changes the checkout while it *)
(* is read, or a tree, a state file or the bundle between two phases.      *)
(*                                                                         *)
(* A digest, or the id of a Git object, is the value it is computed from.  *)
(* A tree is its source (package.json with it), its lockfile and its       *)
(* node_modules.  The plan is made once; a later bundle of the same job    *)
(* has the same bytes or is refused (RunnerJobs).                          *)
(***************************************************************************)
EXTENDS Naturals, FiniteSets

CONSTANTS
    Migrations,     \* what runMigration may make of the plan's source
    Locks,          \* contents of the lockfile
    Modules,        \* contents of node_modules
    OldLock,        \* the lockfile of the approved base
    None,
    Expiry,         \* plan.job.expiresAt
    MaxTime,        \* bound: clock values
    MaxTouches      \* bound: changes by something else

VARIABLES
    now,
    checkout,       \* the Git checkout: its HEAD, index and working tree
    archive,        \* the file with the source bundle, or None
    plan,           \* sourceArchiveDigest of the plan, or None without a plan
    deps,           \* the dependency directory
    inst,           \* the installation directory
    output,         \* the tree in the migration output directory, or None
    result,         \* the file in the result directory, or None
    run,            \* the phase under way
    known,          \* digests printed by the phases that passed
    before,         \* history: the directories when the phase began
    killed,         \* history: whether a phase was killed half way
    ended,          \* history: how the last phase ended
    touches

input == <<checkout, archive, plan>>
dirs == <<deps, inst, output, result>>
vars == <<now, input, dirs, run, known, before, killed, ended, touches>>

-----------------------------------------------------------------------------
Sources == {"source"} \cup Migrations
Tree == [src : Sources, lock : Locks, mods : Modules \cup {None}]

\* regularTreeDigest leaves node_modules out.
Regular(tree) == [tree EXCEPT !.mods = None]

Base == [src |-> "source", lock |-> OldLock, mods |-> None]

PreparedState == [original : Tree, baseline : Tree, candidate : Tree]
InstallState == [prepared : PreparedState, baseline : Tree, candidate : Tree]
DependencyState ==
    [prepared : PreparedState, installed : InstallState, original : Tree, baseline : Tree, candidate : Tree]
Artifacts == UNION {[paths -> (Sources \cup Locks) \X (Sources \cup Locks)] : paths \in SUBSET {"src", "lock"}}
Evidence == [state : DependencyState, output : [artifact : Artifacts, tree : Tree]]
Foreign == [foreign |-> TRUE]      \* a file that is not what its name says

NoDeps == [original |-> None, baseline |-> None, candidate |-> None, manifest |-> FALSE,
           prepared |-> None, state |-> None]
NoInst == [baseline |-> None, candidate |-> None, prepared |-> None, state |-> None]

NoRun == [step |-> "idle", index |-> None, replay |-> None, locks |-> None,
          prepared |-> None, installed |-> None]

ASSUME RunnerPhasesAssumption ==
    /\ OldLock \in Locks /\ "source" \notin Migrations
    /\ None \notin Locks \cup Modules \cup Sources
    /\ None \notin Tree \cup PreparedState \cup InstallState \cup DependencyState \cup Evidence
    /\ None # Foreign
    /\ Expiry \in Nat /\ MaxTime \in Nat /\ MaxTouches \in Nat

Init ==
    /\ now = 0
    /\ checkout = [head |-> Base, index |-> Base, work |-> Base] /\ archive = None /\ plan = None
    /\ deps = NoDeps /\ inst = NoInst /\ output = None /\ result = None
    /\ run = NoRun
    /\ known = {}
    /\ before = <<NoDeps, NoInst, None, None>>
    /\ killed = FALSE /\ ended = "none"
    /\ touches = 0

-----------------------------------------------------------------------------
(* loadPlan, and timestampWithinPlan when a state is created.              *)
PlanIsCurrent == plan # None /\ now < Expiry

(* parseSourceBundle: every byte has its place, and the entries are the    *)
(* tree whose id is in the header.                                         *)
IsBundle(file) == file # None /\ file # Foreign

(* loadRunnerInputs *)
InputsHold == PlanIsCurrent /\ IsBundle(archive) /\ archive = plan

(* validatePreparedState, validateInstallState, validateState.             *)
IsPrepared(file) == file \in PreparedState
IsInstalled(file) == file \in InstallState
IsDependencies(file) == file \in DependencyState

(* assertPreparedTreePristine, preparedRootDigest.                         *)
Pristine(tree) == tree # None /\ tree.mods = None

(* writeCanonicalState, writeRunnerEvidence: O_EXCL.                       *)
Unwritten(file) == file = None

(* runMigration with writeChanges: the result depends on the engine that   *)
(* runs, so two runs may differ.                                           *)
Migrated(tree) == {[tree EXCEPT !.src = m] : m \in Migrations}

\* Plausible bug: node_modules left by an earlier attempt are overlooked.
SealedRegular(file, names, trees, digest) ==
    /\ IsPrepared(file) /\ file = digest
    /\ \A n \in names : trees[n] # None /\ Regular(trees[n]) = file[n]

(* readAndVerifyPreparedDependencyState and ...InstallState: the file is   *)
(* the one with the printed digest, and the trees are pristine and as      *)
(* sealed.                                                                 *)
Sealed(file, names, trees, digest) ==
    /\ IsPrepared(file) /\ file = digest
    /\ \A n \in names : Pristine(trees[n]) /\ trees[n] = file[n]

(* readAndVerifyInstallOutputState *)
InstallSealed(digest, prepared) ==
    /\ IsInstalled(inst.state) /\ inst.state = digest
    /\ inst.state.prepared = prepared
    /\ \A n \in {"baseline", "candidate"} : inst[n] = inst.state[n]

(* readAndVerifyDependencyState: trees as sealed, the retained prepared    *)
(* state bound by it, and the sources as prepared, whatever the lockfile.  *)
DependenciesSealed(digest) ==
    LET state == deps.state
    IN  /\ IsDependencies(state) /\ state = digest
        /\ IsPrepared(deps.prepared) /\ deps.prepared = state.prepared
        /\ \A n \in {"original", "baseline", "candidate"} : deps[n] = state[n]
        /\ deps.original = deps.prepared.original
        /\ \A n \in {"baseline", "candidate"} : deps[n].src = deps.prepared[n].src

-----------------------------------------------------------------------------
(* assertInstallProjection: nothing but package.json, which is as          *)
(* prepared, the lockfile and, when installed, node_modules.               *)
InstallProjected(name, prepared, installed) ==
    /\ inst[name].src = prepared[name].src
    /\ installed <=> inst[name].mods # None

(* capturePreparedLockfiles *)
Lockfiles == [baseline |-> deps.baseline.lock, candidate |-> deps.candidate.lock]

(* synchronizeCandidateLockfile *)
WithLockOfCandidate(tree) == [tree EXCEPT !.lock = deps.candidate.lock]

(* copyGitFreeTree: nothing of .git or node_modules.                       *)
GitFreeCopy(tree) == [tree EXCEPT !.mods = None]

(* inspectVerifiedArtifact: the paths that differ, from what to what.      *)
Artifact(original, proposed) ==
    [path \in {p \in {"src", "lock"} : original[p] # proposed[p]} |-> <<original[path], proposed[path]>>]

(* deriveSealedCandidateIdentity: the artifact and the whole proposed tree.*)
Identity(original, proposed) ==
    [artifact |-> Artifact(original, proposed), tree |-> Regular(proposed)]

BeginWith(fields) ==
    /\ run.step = "idle"
    /\ run' = fields
    /\ before' = <<deps, inst, output, result>>
    /\ UNCHANGED <<now, input, dirs, known, killed, ended, touches>>

Begin(step, prepared, installed) ==
    /\ PlanIsCurrent
    /\ BeginWith([NoRun EXCEPT !.step = step, !.prepared = prepared, !.installed = installed])

Step(step) == run' = [run EXCEPT !.step = step] /\ UNCHANGED ended

Pass(kind, digest) ==
    /\ known' = known \cup {[kind |-> kind, digest |-> digest]}
    /\ run' = NoRun /\ ended' = "passed"

still == <<now, input, before, killed, touches>>

-----------------------------------------------------------------------------
(* createSourceBundle.  validateCleanCheckout asks git for the status of   *)
(* index and working tree, and then for HEAD.                              *)
Bundle ==
    /\ plan = None
    /\ checkout.work = checkout.index /\ checkout.index = checkout.head
    /\ BeginWith([NoRun EXCEPT !.step = "head"])

CheckHead ==
    /\ run.step = "head"
    /\ checkout.head = Base
    /\ Step("index")
    /\ UNCHANGED <<dirs, known, still>>

(* readTrackedEntries: the index, and then file after file, which has to   *)
(* be the blob of the index.                                               *)
ListIndex ==
    /\ run.step = "index"
    /\ run' = [run EXCEPT !.step = "read_source", !.index = checkout.index]
    /\ UNCHANGED <<dirs, known, ended, still>>

ReadTracked(path, next) ==
    /\ checkout.work[path] = run.index[path]
    /\ Step(next)
    /\ UNCHANGED <<dirs, known, still>>

ReadSource == run.step = "read_source" /\ ReadTracked("src", "read_lock")
ReadLock == run.step = "read_lock" /\ ReadTracked("lock", "encode")

\* Plausible bug: what was read is not compared with the approved tree.
EncodeUnchecked ==
    /\ run.step = "encode"
    /\ archive' = run.index /\ plan' = archive'
    /\ run' = NoRun /\ ended' = "passed"
    /\ UNCHANGED <<now, checkout, dirs, known, before, killed, touches>>

(* gitTreeOid and encodeEntries.  The plan is made from the digest of the  *)
(* bundle, which then becomes the input of the job (RunnerJobs, SourceStore).*)
Encode ==
    /\ run.step = "encode"
    /\ run.index = Base
    /\ archive' = run.index /\ plan' = archive'
    /\ run' = NoRun /\ ended' = "passed"
    /\ UNCHANGED <<now, checkout, dirs, known, before, killed, touches>>

-----------------------------------------------------------------------------

(* runPreparePhase wants both directories empty.                           *)
Prepare ==
    /\ InputsHold
    /\ deps = NoDeps /\ inst = NoInst
    /\ Begin("extract", None, None)

(* extractSourceBundle into one new root after the other.                  *)
Extract ==
    /\ run.step = "extract"
    /\ LET n == CHOOSE m \in {"original", "baseline", "candidate"} :
                    /\ deps[m] = None
                    /\ m = "baseline" => deps.original # None
                    /\ m = "candidate" => deps.baseline # None
       IN  /\ deps' = [deps EXCEPT ![n] = plan]
           /\ Step(IF n = "candidate" THEN "convert" ELSE "extract")
    /\ UNCHANGED <<inst, output, result, known, still>>

Convert ==
    /\ run.step = "convert"
    /\ \E tree \in Migrated(deps.candidate) : deps' = [deps EXCEPT !.candidate = tree]
    /\ Step("project")
    /\ UNCHANGED <<inst, output, result, known, still>>

(* persistDependencyManifest and createInstallProjection.                  *)
Project ==
    /\ run.step = "project"
    /\ deps' = [deps EXCEPT !.manifest = TRUE]
    /\ inst' = [inst EXCEPT !.baseline = deps.baseline, !.candidate = deps.candidate]
    /\ Step("seal_deps")
    /\ UNCHANGED <<output, result, known, still>>

(* createPreparedDependencyState and the two copies of it.                 *)
SealDeps ==
    /\ run.step = "seal_deps"
    /\ PlanIsCurrent /\ Unwritten(deps.prepared)
    /\ \A n \in {"original", "baseline", "candidate"} : Pristine(deps[n])
    /\ deps' = [deps EXCEPT !.prepared =
                   [original |-> deps.original, baseline |-> deps.baseline, candidate |-> deps.candidate]]
    /\ Step("seal_inst")
    /\ UNCHANGED <<inst, output, result, known, still>>

SealInst ==
    /\ run.step = "seal_inst"
    /\ Unwritten(inst.prepared)
    /\ inst' = [inst EXCEPT !.prepared = deps.prepared]
    /\ Pass("prepared", deps.prepared)
    /\ UNCHANGED <<deps, output, result, still>>

-----------------------------------------------------------------------------
(* runInstallPhase, which sees the installation directory only.            *)
Install(digest) ==
    /\ Sealed(inst.prepared, {"baseline", "candidate"}, inst, digest)
    /\ \A n \in {"baseline", "candidate"} : InstallProjected(n, digest, FALSE)
    /\ Begin("install_baseline", digest, None)

(* installDeps: npm writes node_modules and perhaps the lockfile.          *)
NpmInstall(name, next) ==
    /\ \E lock \in Locks, mods \in Modules :
          inst' = [inst EXCEPT ![name].lock = lock, ![name].mods = mods]
    /\ Step(next)
    /\ UNCHANGED <<deps, output, result, known, still>>

InstallBaseline == run.step = "install_baseline" /\ NpmInstall("baseline", "install_candidate")
InstallCandidate == run.step = "install_candidate" /\ NpmInstall("candidate", "seal_install")

(* assertInstallProjection, createInstallOutputState and its file.         *)
SealInstall ==
    LET state == [prepared |-> run.prepared, baseline |-> inst.baseline, candidate |-> inst.candidate]
    IN  /\ run.step = "seal_install"
        /\ PlanIsCurrent
        /\ \A n \in {"baseline", "candidate"} : InstallProjected(n, run.prepared, TRUE)
        /\ Unwritten(inst.state)
        /\ inst' = [inst EXCEPT !.state = state]
        /\ Pass("installed", state)
        /\ UNCHANGED <<deps, output, result, still>>

-----------------------------------------------------------------------------
(* runMigratePhase with the digests of prepare and install.                *)
Migrate(digest, installDigest) ==
    /\ Sealed(deps.prepared, {"original", "baseline", "candidate"}, deps, digest)
    /\ InstallSealed(installDigest, digest)
    /\ InputsHold
    /\ deps.manifest
    /\ output = None
    /\ BeginWith([NoRun EXCEPT !.step = "import", !.prepared = digest, !.installed = installDigest,
                               !.locks = Lockfiles])

(* materializeInstalledDependencies: lockfile and node_modules of both     *)
(* roots, if package.json is that of the sources.                          *)
Import ==
    /\ run.step = "import"
    /\ \A n \in {"baseline", "candidate"} :
          InstallProjected(n, run.prepared, TRUE) /\ inst[n].src = deps[n].src
    /\ deps' = [deps EXCEPT !.baseline = [inst.baseline EXCEPT !.src = deps.baseline.src],
                            !.candidate = [inst.candidate EXCEPT !.src = deps.candidate.src]]
    /\ Step("seal")
    /\ UNCHANGED <<inst, output, result, known, still>>

(* createDependencyState and its file.                                     *)
Seal ==
    /\ run.step = "seal"
    /\ PlanIsCurrent
    /\ Unwritten(deps.state)
    /\ deps' = [deps EXCEPT !.state =
                   [prepared |-> run.prepared, installed |-> run.installed,
                    original |-> deps.original, baseline |-> deps.baseline, candidate |-> deps.candidate]]
    /\ Step("extract_output")
    /\ UNCHANGED <<inst, output, result, known, still>>

(* extractSourceBundleIntoDirectory *)
ExtractOutput ==
    /\ run.step = "extract_output"
    /\ output' = plan
    /\ Step("convert_output")
    /\ UNCHANGED <<deps, inst, result, known, still>>

(* The source is migrated once more and takes the lockfile of the          *)
(* candidate; the two trees have to be the same.                           *)
ConvertOutput ==
    /\ run.step = "convert_output"
    /\ \E tree \in Migrated(output) :
          LET out == WithLockOfCandidate(tree)
          IN  /\ out = Regular(deps.candidate)
              /\ output' = out
    /\ Pass("dependency", deps.state)
    /\ UNCHANGED <<deps, inst, result, still>>

-----------------------------------------------------------------------------
(* runVerifyPhase with the digest of migrate.                              *)
Verify(digest) ==
    /\ result = None
    /\ DependenciesSealed(digest)
    /\ deps.manifest
    /\ output # None /\ output = Regular(deps.candidate)
    /\ Begin("replay", None, None)

(* A copy of the original is migrated a third time.                        *)
Replay ==
    /\ run.step = "replay"
    /\ \E tree \in Migrated(GitFreeCopy(deps.original)) :
          LET replay == WithLockOfCandidate(tree)
          IN  /\ replay = Regular(deps.candidate) /\ replay = output
              /\ run' = [run EXCEPT !.step = "check_baseline", !.replay = replay]
    /\ UNCHANGED <<dirs, known, ended, still>>

(* runTsc on the baseline.                                                 *)
CheckBaseline ==
    /\ run.step = "check_baseline"
    /\ Step("check_replay")
    /\ UNCHANGED <<dirs, known, still>>

\* Plausible bug: the replay is not compared again after the checks.
CheckReplayTrusting ==
    /\ run.step = "check_replay"
    /\ \E src \in Sources : run' = [run EXCEPT !.step = "write_evidence", !.replay.src = src]
    /\ result' \in {result, Foreign}
    /\ UNCHANGED <<deps, inst, output, known, ended, still>>

(* verify with tests and lint, which are code of the repository: it may    *)
(* change the replay, and put a file of its own into the result directory. *)
(* After the checks passed the replay has to be the proposed tree still.   *)
CheckReplay ==
    /\ run.step = "check_replay"
    /\ \E src \in Sources :
          /\ output = [run.replay EXCEPT !.src = src]
          /\ run' = [run EXCEPT !.step = "write_evidence", !.replay.src = src]
    /\ result' \in {result, Foreign}
    /\ UNCHANGED <<deps, inst, output, known, ended, still>>

(* createRunnerEvidence and writeRunnerEvidence, which creates the file.   *)
WriteEvidence ==
    /\ run.step = "write_evidence"
    /\ Unwritten(result)
    /\ result' = [state |-> deps.state, output |-> Identity(deps.original, output)]
    /\ Pass("evidence", result')
    /\ UNCHANGED <<deps, inst, output, still>>

-----------------------------------------------------------------------------
\* Plausible bug: the lockfiles are left as npm changed them.
UndoMigrateKeepsLocks ==
    /\ output' = None
    /\ deps' = [deps EXCEPT !.state = None, !.baseline.mods = None, !.candidate.mods = None]
    /\ UNCHANGED <<inst, result>>

(* The catch block of runMigratePhase, with the lockfiles captured before. *)
UndoMigrate ==
    /\ output' = None
    /\ deps' = [deps EXCEPT !.state = None,
                            !.baseline.mods = None, !.baseline.lock = run.locks.baseline,
                            !.candidate.mods = None, !.candidate.lock = run.locks.candidate]
    /\ UNCHANGED <<inst, result>>

(* The catch block of runPreparePhase.                                     *)
UndoPrepare ==
    /\ deps' = NoDeps
    /\ inst' = [inst EXCEPT !.baseline = None, !.candidate = None, !.prepared = None]
    /\ UNCHANGED <<output, result>>

(* The catch block of runInstallPhase.                                     *)
UndoInstall ==
    /\ inst' = [inst EXCEPT !.state = None, !.baseline.mods = None, !.candidate.mods = None]
    /\ UNCHANGED <<deps, output, result>>

PrepareSteps == {"extract", "convert", "project", "seal_deps", "seal_inst"}
InstallSteps == {"install_baseline", "install_candidate", "seal_install"}
MigrateSteps == {"import", "seal", "extract_output", "convert_output"}
BundleSteps == {"head", "index", "read_source", "read_lock", "encode"}
VerifySteps == {"replay", "check_baseline", "check_replay", "write_evidence"}

(* Any call of a phase may throw.  The finally block of runVerifyPhase     *)
(* removes the replay.                                                     *)
Fail ==
    /\ \/ run.step \in PrepareSteps /\ UndoPrepare
       \/ run.step \in InstallSteps /\ UndoInstall
       \/ run.step \in MigrateSteps /\ UndoMigrate
       \/ run.step \in VerifySteps \cup BundleSteps /\ UNCHANGED dirs
    /\ run' = NoRun /\ ended' = "failed"
    /\ UNCHANGED <<known, still>>

(* The container is killed by its timeout: no catch block runs, and a file *)
(* that was being written may be incomplete.                               *)
Kill ==
    /\ run.step # "idle"
    /\ \/ UNCHANGED dirs
       \/ /\ run.step \in {"seal_deps", "seal"}
          /\ deps' = [deps EXCEPT ![IF run.step = "seal" THEN "state" ELSE "prepared"] = Foreign]
          /\ UNCHANGED <<inst, output, result>>
       \/ /\ run.step \in {"seal_inst", "seal_install"}
          /\ inst' = [inst EXCEPT ![IF run.step = "seal_inst" THEN "prepared" ELSE "state"] = Foreign]
          /\ UNCHANGED <<deps, output, result>>
       \/ run.step = "write_evidence" /\ result' = Foreign /\ UNCHANGED <<deps, inst, output>>
    /\ run' = NoRun /\ ended' = "killed"
    /\ killed' = (killed \/ <<deps', inst', output', result'>> # before)
    /\ UNCHANGED <<now, input, known, before, touches>>

(* Something else changes one file of the checkout, or checks out another  *)
(* commit, while the bundle is made.                                       *)
TouchCheckout ==
    /\ run.step \in BundleSteps
    /\ touches < MaxTouches /\ touches' = touches + 1
    /\ \E src \in Sources, lock \in Locks :
          LET other == [src |-> src, lock |-> lock, mods |-> None]
          IN  /\ other # checkout.work
              /\ \/ checkout' = [head |-> other, index |-> other, work |-> other]
                 \/ /\ src = checkout.work.src \/ lock = checkout.work.lock
                    /\ checkout' = [checkout EXCEPT !.work = other]
    /\ UNCHANGED <<now, archive, plan, dirs, run, known, before, killed, ended>>

(* Something else changes a tree, the bundle or a state file between two   *)
(* phases.                                                                 *)
Touch ==
    /\ run.step = "idle"
    /\ touches < MaxTouches /\ touches' = touches + 1
    /\ \E src \in Sources, lock \in Locks :
          LET Changed(tree) ==
                  /\ tree \notin {None, Foreign}
                  /\ Regular(tree) # [src |-> src, lock |-> lock, mods |-> None]
              To(tree) == [tree EXCEPT !.src = src, !.lock = lock]
          IN  \/ /\ \E n \in {"original", "baseline", "candidate"} :
                       Changed(deps[n]) /\ deps' = [deps EXCEPT ![n] = To(deps[n])]
                 /\ UNCHANGED <<archive, inst, output>>
              \/ /\ \E n \in {"baseline", "candidate"} :
                       Changed(inst[n]) /\ inst' = [inst EXCEPT ![n] = To(inst[n])]
                 /\ UNCHANGED <<archive, deps, output>>
              \/ /\ Changed(output) /\ output' = To(output)
                 /\ UNCHANGED <<archive, deps, inst>>
              \/ /\ archive # None /\ archive' \in {Foreign, To(Base)} \ {archive}
                 /\ UNCHANGED <<deps, inst, output>>
              \/ /\ \E n \in {"prepared", "state"} :
                       deps[n] # None /\ deps' = [deps EXCEPT ![n] = Foreign]
                 /\ UNCHANGED <<archive, inst, output>>
              \/ /\ \E n \in {"prepared", "state"} :
                       inst[n] # None /\ inst' = [inst EXCEPT ![n] = Foreign]
                 /\ UNCHANGED <<archive, deps, output>>
    /\ UNCHANGED <<now, checkout, plan, result, run, known, before, killed, ended>>

Tick ==
    /\ now < MaxTime /\ now' = now + 1
    /\ UNCHANGED <<input, dirs, run, known, before, killed, ended, touches>>

Printed(kind) == {k.digest : k \in {x \in known : x.kind = kind}}

Next ==
    \/ Bundle \/ CheckHead \/ ListIndex \/ ReadSource \/ ReadLock \/ Encode
    \/ Prepare \/ Extract \/ Convert \/ Project \/ SealDeps \/ SealInst
    \/ \E d \in Printed("prepared") :
          Install(d) \/ \E i \in Printed("installed") : Migrate(d, i)
    \/ InstallBaseline \/ InstallCandidate \/ SealInstall
    \/ Import \/ Seal \/ ExtractOutput \/ ConvertOutput
    \/ \E d \in Printed("dependency") : Verify(d)
    \/ Replay \/ CheckBaseline \/ CheckReplay \/ WriteEvidence
    \/ Fail \/ Kill \/ TouchCheckout \/ Touch \/ Tick

Spec == Init /\ [][Next]_vars

-----------------------------------------------------------------------------
(* Evidence stands for one unbroken chain: its dependency state was        *)
(* printed by migrate, over an install printed by install, over a          *)
(* preparation printed by prepare; the source it rests on is the tree of   *)
(* the approved base, whatever happened to the checkout while the bundle   *)
(* was made;                                                               *)
(* the candidate and its modules are those npm installed for the prepared  *)
(* candidate; and the tree it names is the migrated source with the        *)
(* lockfile npm left.  No order of calls, change between phases or kill    *)
(* may produce evidence of anything else.                                  *)
EvidenceIsOneChain ==
    \A e \in Printed("evidence") :
        LET state == e.state
        IN  /\ state \in Printed("dependency")
            /\ state.installed \in Printed("installed")
            /\ state.prepared \in Printed("prepared") /\ state.installed.prepared = state.prepared
            /\ state.original = Base
            /\ state.prepared.baseline.src = "source" /\ state.prepared.candidate.src \in Migrations
            /\ \A n \in {"baseline", "candidate"} :
                  state[n] = [state.installed[n] EXCEPT !.src = state.prepared[n].src]
            /\ e.output = Identity(Base, Regular(state.candidate))

(* When the evidence is printed, the output directory, which the host then *)
(* seals, holds the very tree that the evidence names, and it is the tree  *)
(* that the checks left behind.                                            *)
EvidenceNamesOutput ==
    [][Printed("evidence")' # Printed("evidence")
          => /\ [kind |-> "evidence", digest |-> result'] \in known'
             /\ result'.output.tree = output' /\ result'.output.tree = run.replay]_vars

(* A preparation or migration that failed, not one that was killed, leaves *)
(* the directories as it found them, so that it can be run again with the  *)
(* same digests: after prepare they are empty, after migrate the lockfiles *)
(* that npm changed are back.  (Install keeps a changed lockfile.)         *)
FailureRestores ==
    [][run.step \in PrepareSteps \cup MigrateSteps /\ run'.step = "idle" /\ ended' = "failed"
          => <<deps', inst', output', result'>> = before]_vars

(* A phase that was killed after it had begun to write is never completed  *)
(* by running phases again over what it left: without new, empty           *)
(* directories there is no evidence.                                       *)
KilledIsFinal == killed => Printed("evidence") = {}
=============================================================================
