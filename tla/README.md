# TLA+ models of API Migrator

API Migrator previews the migration of one GitHub repository to a new SDK
version and, after a ceremony between an operator and the repository's owner,
publishes the migration as a pull request. What makes it hard to get right is
not the rewriting of code but the authority to publish: an owner signs one
envelope for one exact artifact, that envelope may be used once, and it may be
used only while the clock, the registry of the owner's keys, the base branch and
the remote branch are what they were when it was signed. Around that authority stand
the programs that make a migration trustworthy: the engine, the credential-free
phases, the evidence of the hosted runner and the gateway it runs behind. These
modules model those parts, check them with TLC and prove the core with TLAPS.

## The system and its parts

| Part | State | Operations | What makes it correct |
|---|---|---|---|
| Replay store (`packages/db/src/client.ts`) | SQLite file with an identity row and the consumption rows; an anchor file outside it; per process an open handle | `getDb`, `closeDb`, `initializeOwnerAuthorizationStore`, `persistOwnerAuthorizationConsumption` | an authorization is accepted once, whatever file, process or power is lost |
| Console ceremony (`packages/console`) | process-wide run lock, two maps of spent tokens, signed tokens held by the browser | POST actions `preview`, `prepare_owner_challenge`, `prepare_publish`, `publish` | tokens are one-shot and nested in time; the lock is released |
| Owner challenge and signer (`owner-challenge*.ts`, `owner-signer.ts`) | challenge and envelope files, the owner's key registry | making a challenge, signing it, replacing the registry | an envelope is good for one challenge, under a key in force |
| Publication (`packages/app/src/github.ts`, `publication.ts`, `owner-publication-policy.ts`) | disposable clone, observed remote state; on GitHub base, branch and pull request | publish mode of `migrateRepo` | only the writes the owner signed, for the tree the owner saw, and an honest run row |
| Credential broker and owner grant (`auth.ts`, `owner-authorization.ts`) | grant status, installation token, registry file | `verifyOwnerAuthorizationEnvelope`, `resolveAuthorizedWriteAuth`, `markGrantConsumed`, revocation | at most one write token for an authorization, none for a lapsed one |
| Campaign runner (`campaign/runner.ts`, `queue.ts`) | `migration_runs` rows | `runCampaign`, `persistFailedRun` | every started run ends with a final row that says what it did, unless process or database fails |
| Runner jobs (`runner-job-*.ts`, `db/src/runner-job-store-sqlite.ts`) | one row per campaign and run, a wall-clock high-water mark; a directory of source bundles | sessions with `prepare`, `recordReviewedOutput`, `acquireEvidence`, hand-off | all processes agree on a job; a job that was seen expired stays expired |
| Source bundle and runner phases (`runner-source-bundle.ts`, `packages/runner`) | checkout, bundle, plan, dependency trees, sealed state files, output, evidence | make a bundle; prepare, install, migrate, verify | evidence stands for one unbroken chain of phases |
| Engine (`packages/engine`) | candidate tree, repository under a file transaction | plan, edit, verify, apply, roll back | the verdict is about the tree that is applied; foreign edits survive |
| Evidence client and attestation (`runner-evidence-*.ts`, `publication-runner.ts`, `runner-key-registry.ts`) | a deadline, a key selected twice, a retained identity | `acquireInitial`, `reacquire` | what is accepted is of one run, signed by a key in force, in time |
| Runner host (`run-credential-free-preview.sh`, `observe-runner.mjs`, `lib.mjs`) | a systemd unit, its events, result and sealed output, a live snapshot | run, clean up, observe, request a signature | an observation does not mix two invocations |
| Gateway smoke test (`run-hosted-smoke.mjs`, `cleanup-hosted-smoke.mjs`, ...) | units, packet filter, runtime and workspace directories, reports | controller, cleanup, aggregation | nothing runs outside the filter, nothing of others is removed, reports are true |
| Lifecycle preflight (`lifecycle-preflight.mjs`, `observe-gateway-lifecycle.mjs`) | documents, programs, event, result and report files | preflight and observer | both speak of the same documents and checks; neither waits for ever |

They interact as follows. The console's route calls `runCampaign` for a preview,
the challenge and envelope checks for the two middle actions and `runCampaign` in
publish mode for the last; between them the challenge travels as a file to the
owner, who signs it offline, and the envelope comes back as text. `runCampaign`
writes a row and calls `migrateRepo`, which runs the engine, then the broker, which
calls the replay store through `consumeOwnerAuthorization` and GitHub. Runner jobs
are prepared beside this: they bind a source bundle to a plan, the phases run on
the bundle behind the gateway, the observer of the host requests a signature over
what happened, and the evidence client acquires the attestation for the job's row.

Hard behaviours, where they bite, are listed under `hazards` in `PROJECT.json`:
crashes between two durable steps, lost replies of GitHub, remote state, keys and
documents that are stale when they are used, two clock samples in one decision,
tokens that outlive the process that remembers them, processes that are killed
between two phases, and locks and waits that must end.

## Modules

| Module | Models | Role |
|---|---|---|
| `OwnerLedger` | what the replay store promises | abstract specification |
| `ReplayStore` | `db/src/client.ts` | detailed specification, implements `OwnerLedger` |
| `ConsoleCeremony` | `console/lib/approval.ts`, `run-lock.ts`, the run route, `owner-challenge*.ts`, `owner-signer.ts`, the envelope checks of `owner-authorization.ts` | detailed specification; composes console, owner, registry and ledger |
| `PublicationContract` | what a publication promises its owner | abstract specification |
| `Publication` | `github.ts`, `auth.ts`, the grant of `owner-authorization.ts`, the rows of `campaign/runner.ts` | detailed specification, implements `PublicationContract`; composes broker, grant, ledger, GitHub and run row |
| `RunnerJobs` | `db/src/runner-job-store-sqlite.ts`, `app/src/runner-job-*.ts` | detailed specification |
| `SourceStore` | `db/src/runner-job-source-store.ts` | detailed specification |
| `RunnerPhases` | `app/src/runner-source-bundle.ts`, `packages/runner` | detailed specification |
| `Migration` | `engine/src/pipeline.ts`, `verifier.ts`, `dependencies.ts`, `runtime.ts` | detailed specification |
| `RunnerEvidence` | `app/src/runner-evidence-*.ts`, `runner-key-registry.ts`, `publication-runner.ts`, `observe-runner.mjs`, `lib.mjs`, the wrapper scripts | detailed specification; composes unit, observer, signer, registry and client |
| `HostedSmoke` | `run-hosted-smoke.mjs`, `cleanup-hosted-smoke.mjs`, `hosted-lifecycle-smoke.mjs`, `aggregate-hosted-smoke.mjs`, `gateway/` | detailed specification |
| `LifecyclePreflight` | `lifecycle-preflight.mjs`, `observe-gateway-lifecycle.mjs`, `lifecycle-drill.mjs`, `runtime-manifest.mjs` | detailed specification |
| `OwnerAuthorizationProofs` | | TLAPS proofs about `ReplayStore` and `ConsoleCeremony` |
| `GatewayProofs` | | TLAPS proofs about `HostedSmoke` and `LifecyclePreflight` |
| `PublicationProofs`, `RunnerJobsProofs`, `SourceStoreProofs`, `RunnerPhasesProofs`, `MigrationProofs`, `RunnerEvidenceProofs` | | TLAPS proofs about the module they are named after |
| `MC*` | | values of the constants for TLC |

In every module an operator named after a plausible bug (`...Early`, `...Omitted`,
`Prune`'s sibling `PruneEarly`) stands just before the definition it would corrupt. It
is not part of the specification: put in place of that definition it makes the
property it is listed with in `PROJECT.json` fail.

### ReplayStore

Processes (`Procs`) open the database path, initialize the store and consume
requests. A *file* is an inode: the path can name another file later (`Unlink`,
`RestoreCopy`, `RestoreOriginal`), while a process keeps the one it opened, and
`assertStableOpenFileIdentity` compares the two. `live` is the content SQLite
shows, `stable` what survives a power loss; `Sync` makes them equal. `anchor` is
the external file with its four stages: absent, created empty, written, durable.
A request is the tuple of unique columns of the consumption table; two requests
*clash* when one of the unique columns is equal. The lock of `BEGIN IMMEDIATE` is
`lock`. Initialization is four steps under that lock (check, create the anchor
with `O_EXCL`, write it, sync its directory), the commit, and the final sync and
check; consumption is begin, commit, sync and the final check of clock and
identity. A process may die in every step, and the clock moves both ways.

The environment keeps what `packages/db/OWNER_AUTHORIZATION_STORE.md` asks of the
operator: inodes are not reused, bytes are not rewritten in place, and the anchor
is not deleted. Without the last, no property of one-shot use could hold.

### ConsoleCeremony

Handlers are concurrent requests of one server process. A token is a record with
the fields its signature covers; only issued tokens verify, so the adversary is
left out and the handlers choose among issued tokens. A handler that awaits is
two actions (`ChallengeStart`, `ChallengeFinish`, ...), and the receipts are checked
again in the second. The rerun that follows an await is one step with its checks.
`usedPreviews` and `usedApprovals` are the two maps, pruned as `assertOneShotUnused`
prunes them. `PublishStart` samples the clock twice: the second sample, which prunes
and spends, may be one tick later. `Restart` clears lock and maps but neither the
tokens nor the ledger.

The owner is another actor. `ChallengeOf` has the lifetimes of
`createOwnerAuthorizationChallenge` (the earliest of thirty minutes, the receipt's end
and the end of the pilot's authorization), `Sign` the whole of
`signOwnerAuthorizationChallengeFile`: it checks the challenge at its own clock, the
registry's correspondence, then asks the runtime verifier, and writes a new file or
none. The owner may sign any issued challenge, twice, under the same authorization,
and may replace the registry (`RewriteRegistry`: another key, another window, revoked
authorizations) at any moment. `Verified` is `verifyOwnerAuthorizationEnvelope`; a
challenge is identified by its digest, which leaves out the nonce of the receipt
around it. `PublishConsume` and `PublishFinish` are the consumption and the mint of
`Publication` in two steps.

In this commit the capability gate (`runner-capability.ts`) refuses every action but
`preview`. The constant `GateOpen` opens it, so that the handlers behind it are
checked; with `FALSE` only previews are possible. A signer that dies while it writes
may leave a partial envelope file, which no verifier accepts; this is left out.

### Publication

A run is one execution of `migrateRepo` in publish mode. A request stands for the
owner's envelope with the preflight it binds. Each call to GitHub is a step:
reproduction of the preview, the first inspection (base, branch, pull request),
verification of the envelope against what was seen, the broker (live base,
durable consumption, mark, live base and grant before minting, minting, both
again after it), the second inspection, the comparison with the first, the push
with an empty lease, and the pull request. Every call may fail; the reply to a
push, to minting and to a pull request may be lost after it took effect; a run
may crash anywhere; others move the base, create or delete the branch, open or
close a pull request; the owner revokes; the clock runs. `migrateRepo` is modelled
with a runner attestation supplied by its caller: `runCampaign` supplies none in
this commit, so its publish mode stops while it builds the owner bindings.

The worker's bookkeeping follows. `Record` is the rest of its try block
(`upsertRepo`, `updateRun`), `Persist` the catch block (`persistFailedRun`). Every
database call, `createRun` in `Start` included, may throw before or after its commit.
A throw in `Record` reaches `Persist` as a plain error, which knows of no head and no
pull request, so the row is failed although the run published; a throw in `Start`
or `Persist` rejects the worker, and the row stays as it was in a living process.

`done`, `lapsed` and `unbooked` are history variables: what a run wrote, which runs
had their authorization end before the last check of their token, and which runs
had a database call throw.

### RunnerJobs

Sessions (`Sessions`) are processes over one SQLite file. A row (`live.jobs[key]`) is
the job of one campaign and run: the prepared intent, then the review, then the
identity of the evidence. `live` is what SQLite shows and `stable` what survives a
power loss, as in `ReplayStore`. Each store call is a step: `observeTime` refuses a
clock below the high-water mark, commits and syncs; `insert` and `compareAndSwap`
commit in one step, and the sync and the read outside the transaction are the next
one. `checkRunnerJobCurrent` is an observation and a second clock sample
(`CheckObserve`, `FirstCheck`, `Return`). `acquireEvidence` awaits the evidence
client between its read and its write (`Answered`, `Unanswered`). Every operation may
fail in every step (`Fail`), with the write committed or not: the comment "a
committed transaction is an uncertain success after a later failure" is what the
properties test. `floor`, `returned` and `late` are history variables.

### SourceStore

Processes put and read source bundles in one directory. `at[d]` is the name of a
directory (pending, a job, none), `durableAt[d]` its name when the store's directory
was last synced; a rename moves a directory from its pending name to its job. A put
is eleven steps at most: the first check, the look at the entry, then either a check
and a sync, or mkdir, write, sync of the file, check, rename, sync, readback and,
if the rename was refused, removal of the stage. Whatever throws is `Fail`, with the
`finally` block in it; `Die` leaves the stage behind; `PowerLoss` gives every
directory its present or its last synced name and tears files that were not synced.
The inventory is read in one step, except that in `Settle` another put's stage may
vanish under it: then the code's ENOENT handler takes the call on to publish, which
the refused rename and the readback make harmless. The model lets that happen
whenever another put has a stage, which is more than the code does. The limit on
bytes has the form of the limit on names and is left to it.

### RunnerPhases

A job's directories are shared by processes that know only the plan and the digests
they are given: `Bundle` ... `Encode` make the bundle of a checkout in the order of the
code (head, index, head again, files, with the checkout changing in between), the
plan binds its digest, and the four phases `Prepare`, `Install`, `Migrate` and `Verify`
are sequences of steps in `run.step`. Each may fail in every step, which runs its catch
block (`UndoPrepare`, `UndoInstall`, `UndoMigrate`), or be killed, which does not. The
driver may call phases in any order, again, and with any digest that was printed. A
digest is the value it is computed from. What npm and the migration make of a tree
is chosen from small sets, so two executions may differ. `before`, `killed` and `ended`
are history variables: a failed phase is compared with the directories it found.

### Migration

One `runMigration`: the edits of package.json, Dockerfile and sources in a candidate copy
(`Transform`), `Install`, compiler and scripts with the trust checks around them, and
`applyCandidateFiles` as the transaction it is: check of the whole repository, staging
files, a check just before each rename, the rename, the final check, and the rollback
with its own check before each file. Somebody else may edit a file between any two
steps. Diagnostics are sequences of signatures because `introducedErrors` counts them.
Versions are numbers; a dependency specification is its kind. What a transform does to a
source file is one change.

### RunnerEvidence

The unit of a job runs, is cleaned up and may be started again (`StartUnit`, `UnitExits`,
`UnitFails`, `StopUnit`); the observer reads events, result and snapshot one after the
other; the signer and the evidence service are not in the repository and are modelled
from what the client demands of an envelope. The snapshot's collector is disabled in
the repository, so `Capture` takes it in stages. An acquisition (`Acquire`, `SelectKey`,
`Fetch`, `SelectKeyAgain`, `Verify`) carries the deadline's two clocks: `Alive` compares
the monotonic clock and `Expire` is the timer, which may fire before or after an answer.
Both readings of the registry may see any of its contents between their beginning and
their end. The first acquisition may only begin once a signature has been requested.
The observer's requests are in fact marked ineligible for signing and the live
observation is disabled in this commit; the model assumes an eligible one.

### HostedSmoke

A workflow runs one job per scenario, each on a machine of its own or on a used one.
`pc` is the step of the controller, `cleanup` that of the cleanup program. A systemd unit
has the states queued, starting, active, stopping, gone, with the timeouts the
controller gives it; the plan's end, the DNS answer's end and the wall clock are
apart, because the unit's limit is computed from one and enforced on the other. `conns`
and `delta` are what log and counters show; records of a connection may appear late. The
controller fails in every step (`Fail`, then `EmergencyCanary`, `EmergencyGateway`) or is
killed. An inspection of the machine is one step, and its jobs run one after the other.

### LifecyclePreflight

Two root processes share only files. Each read of a document, each look at the machine,
each native check and each creation and writing of a file is a step; a file is created
empty and written later. Others replace documents, programs and rendered files, make
tables and processes come and go, and set the clock. A version stands for a document's
digest. The wait of each process is bounded by the code (`ObserverPolls`,
`PreflightPolls`).

## Runs

| Run | Question | Distinct states |
|---|---|---|
| `replay_store` | is an authorization accepted once and durably, through crashes and file replacement? | 35 thousand |
| `console_ceremony` | are tokens one-shot, is an authorization written under once, by an envelope for the exchanged challenge and a key in force, and is the lock free again and again? | 1.8 million |
| `console_replay` | does an acquired replay still fail? (violated) | |
| `publication` | do two concurrent runs stay within what the owner signed, record what they did, and end? | 1.5 million |
| `publication_audit` | is every mutation of GitHub recorded? (violated) | |
| `runner_jobs` | are all processes given the same, durable, unexpired job, and is the room kept? | 4.6 million |
| `source_store` | is a put durable, a read whole, and the limit kept by concurrent puts? | 224 thousand |
| `runner_phases` | does evidence stand for one chain of phases over one checkout, and does a failed or killed phase do no harm? | 1.8 million |
| `migration` | is the verdict about the locked compiler and the applied tree, and do foreign edits survive? | 1.6 million |
| `hosted_smoke` | does nothing outlive its window or its packet filter, and are reports and aggregates true? | 4.4 million |
| `lifecycle_preflight` | do both processes speak of the same documents and checks, and does each end? | 1.0 million |
| `runner_evidence` | is what is accepted of one run, under a key in force, in time, and does every acquisition end? | 3.8 million |

Bounds, all constants named in the modules.

* `replay_store`: two processes, two files, two requests that agree in one unique column
  and differ in the others, each of which both processes may submit: enough for a file to
  be replaced while both are at work.
* `console_ceremony`: two handlers; one preview with two challenges, two envelopes and two
  approvals, so that a receipt is presented twice, an envelope is offered to the wrong
  challenge and an authorization is signed twice; two keys, one rewriting of the registry,
  one restart, and three clock values with tokens of two ticks, so that everything expires.
* `publication`: two runs over one authorization in its five forms (blocked, unchanged,
  create, reuse, update), one change by others, one expiry. What the holder of another
  authorization could do to the repository, others do here: one change of theirs is a
  branch with or without its pull request. The runs are interchangeable, so of two that
  exchange their requests one behaviour is explored, and a run whose preview was not ready
  only reads the base, so it is explored alone (`InOrder`). An authorization that has ended
  does not end a second time (`EndsOnce`). Every database call of either run may throw.
* `runner_jobs`: two sessions, two keys with room for one row, two ids, two intents and two
  trusted keys with different ends: two sessions can lose each race to each other. Plans end
  at 2 and 3, keys at 1 and 3, a review of time 0 or 1 at 2 or 3, with a clock that stops
  at 2: each of the three is the first to end for some job.
* `source_store`: three jobs with room for two and three directories, so that two puts race
  for the last place, and two bundles, so that they conflict.
* `runner_phases`: two results of a migration, two lockfiles, two contents of node_modules,
  one expiry, two changes by something else.
* `migration`: a sound repository and those that differ from it in one respect, two type
  errors, one edit by somebody else at any step.
* `hosted_smoke`: matrices that have between them one scenario of each kind, three jobs so
  that one can be repeated, one used machine, one setting of the clock in each direction.
  The times are small numbers in the order the code's constants have.
* `lifecycle_preflight`: one start of each unit, two changes by others: one replaces a
  document or a file, a second puts it back.
* `runner_evidence`: two invocations of the unit, two operator's actions, two keys of which
  one is prolonged or revoked, two outputs, and a budget of two ticks.

Fairness is no more than the code's own time limits.

* `ConsoleCeremony!FairSpec`: some handler at work gets further (`gitExec`'s timeout, the
  verifier's timeouts, the HTTP client's and the route's `maxDuration`).
* `Publication!FairSpec`: some run at work gets further: calls to GitHub return or fail and
  `gitExec` kills git after five minutes. A crash is allowed at any time; `RunsEnd` says
  nothing of a crashed run, nor of one whose worker rejects because the database throws.
* `LifecyclePreflight`: a process that runs takes its next step, and time passes.
* `RunnerEvidence`: only time passes and a due timer fires; neither registry nor service
  has to answer.

None assumes that anything succeeds. Weak fairness is stated on the disjunction of all
handlers or runs, and the property says that the system comes to rest again and
again, which one handler that starves cannot bring about. Deadlock checking is off where
the system may rest: bounded clocks and counters end every behaviour there.

The type invariants of `ReplayStore`, `Publication` and `RunnerJobs` and some weaker
invariants (`AcceptedIsDurable`, `AnchorIsPermanent`, `OneWriteTokenPerAuthorization`,
`LapsedNeverWrites`, `BranchNeverMoved`, `DurableOnlyGrows`) are proved and therefore no
longer among the properties of a run.

## Findings

* `console_replay`. `run-lock.ts` says that "an acquired replay still fails". The
  approval's expiry is checked with one clock sample and the map of spent
  approvals is pruned with a later one, so a second request verified one tick
  before the expiry and consumed at the expiry finds the map empty and is
  admitted. The owner ledger still refuses the authorization.
* `publication_audit`. `campaign/runner.ts` says a failure is persisted "including
  exact branch state when publication had already mutated GitHub". A push that
  GitHub accepted and git reports as failed raises a plain error; the row keeps
  no branch and no head. A database call that throws after the pull request was opened
  (`upsertRepo` and `updateRun` are in the same `try` as `migrateRepo`) ends the same way.

## Proofs

Every safety property of every passing run is a theorem for all values of the constants;
`PROJECT.json` lists them. Where two components are two halves of one mechanism their proofs
share a module, so the definitions of `ReplayStore` and of `LifecyclePreflight` carry names
of their own (`StoreSpec`, `LifecycleSpec`).

Of `ReplayStore`, `OwnerAuthorizationProofs` proves, for every number of processes, files
and requests:
type correctness, `AtMostOnce`, `AcceptedIsDurable`, `ActivatedStoreIsAnchored`,
`AnchorIsPermanent`, and that `ReplayStore` implements `OwnerLedger`. None of these
is inductive alone. The invariant (`StoreInv`) adds that a lock holder is in a locked step and
alone, that the anchor's stage follows the step of the process that made it, that
a file with an identity is the anchored one, that a process past its commit has
its row in the live content of the anchored file and past its sync in the stable
one, and that live content extends stable content. Uniqueness then follows from
one fact: all accepted rows are in one file, whose rows never clash. The only
assumption is the shape of a request.

Of `ConsoleCeremony` it proves the four safety properties of `console_ceremony`, for every
number of handlers, tokens, keys and restarts. The first layer (`TokensAreNested`) says that
tokens refer to issued tokens, that none outlives what it was made from, and that a
handler past the ledger has an envelope signed for its own challenge. On it rest three
independent invariants. While a preview receipt lives, the process that made an approval
from it remembers it (`PreviewsRemembered`); pruning cannot drop it, because the entry's
end is the receipt's own. The same holds of an approval that was admitted in time
(`ApprovalsRemembered`); after its expiry it does not, which is the finding above. A
handler past the ledger is alone with its authorization and no write was made under it
(`Once`). `WritesHaveAuthority` is an action property: a write comes from a handler past
the ledger, at a time when registry and envelope were just checked, and the window of the
envelope is within that of challenge and receipt by the first layer. The assumptions are
the types of the constants.

`RunnerJobsProofs` proves all safety properties of `RunnerJobs` for every number of
sessions, keys, intents and times. The invariant says that the durable store *grows
into* the live one (records only gain a review or an identity, the mark only rises),
that a draft extends the row it was read from, that a record on its way out is part
of the live store after the readback and of the durable store after the last
observation, and that the mark at the begin of an operation is not above its last
sample. Agreement follows because all returned records are extended by one durable
record. A power loss may take the live store back, never below the durable one, and
no session survives it. `WithinCapacity` needs in addition that keys are finite.

`PublicationProofs` proves all safety properties of `Publication`, the refinement of
`PublicationContract` among them, for every number of runs, requests, bases and outside
changes. A run *holds* its authorization between its
durable consumption and its mark, and from then on by its consumed grant. The
invariant says that a holder's request is in the ledger, that no two runs hold the
same authorization, that tokens and writes belong to holders, that a lapsed run is
not current while it can still be checked and never armed, that the state seen by
the last inspection equals the reviewed one the envelope was verified against, and
that outcome and row call a pull request opened only with the approved head. `Consume` is the only step that makes a
holder; the ledger's uniqueness, proved for `ReplayStore`, is its guard. A second
invariant (`Recorded`) proves `RowTellsWhatWasDone` from the first: whoever reads a commit
of a run on GitHub, the run has pushed (`Pushed`), so outcome and row are true of what was
done (`Truthful`); and the head is in the outcome until a database call throws, from where
on the row has it, is still queued, or becomes a failed one (`Kept`). The assumptions are the shapes of requests and that outsiders are not runs.

`SourceStoreProofs` proves the three properties of `source_store` for every number of
processes, jobs, bundles, directories and power losses. What has the name of a job keeps
that name, its bytes and its sync in every step (`Survive`); a stage belongs to one process
and has the pending name, so nothing writes or removes a published directory. For
`WithinLimit` published directories are counted together with the stages that passed the
second check (`Promised`): only that check adds to them, and it looks at a set that includes
them all. Assumed are that jobs and directories are finite and the markers apart.

`RunnerPhasesProofs` proves `EvidenceIsOneChain` and `EvidenceNamesOutput` for any
migrations, lockfiles, modules and changes by something else. Between two phases nothing is
known of the directories, so the invariant speaks of what was printed (`Prints`) and of what
the phase under way has checked or made (`Stage`): a phase finds in the directories what its
digest says, the digest was printed, and what was printed is in order.

Given that, a second invariant (`Progress`) proves `KilledIsFinal` and `FailureRestores`. What
a phase prints its digest after, it leaves behind, and the same phase refuses to begin where
it finds it (`Shut`), so no digest is printed twice. The phase under way has changed nothing
but what its catch block takes back, and `before` still holds what it found (`Working`). A
phase that is killed leaves the same obstacle without a digest, which is then missing for
ever, and with it the digests of the later phases (`Stuck`, a disjunction over the phase that
was killed). Assumed are the markers apart: that nothing is no lockfile, module, source, tree
or sealed state, and is not what somebody else would write.

`MigrationProofs` proves all four properties of `migration` for any repository, options,
lockfiles, type errors and number of edits. A favourable verdict is about the present
candidate, because each tool that changes it also spoils the verdict. In the transaction a
file that is not committed is as it was or somebody else's, what is staged or committed is
still ahead of a rollback, and a file whose window is open is as it was checked or was edited
late. Two lemmas are about operators: `updateManifestDependencies` is idempotent
(`UpdatedTwice`), and when `introducedErrors` finds nothing no signature is more frequent
than before (`NothingIntroduced`, by the last occurrence of the signature). Assumed are the
types of the constants and that somebody else's edit is told apart from what was there.

`RunnerEvidenceProofs` proves the three safety properties of `runner_evidence` for any
invocations, keys, registries and outputs. `AcceptedIsOneRun` follows a pair of invocation
and output from the unit's events through observer, request, service and envelope: what an
invocation sealed is never sealed again, and an observation exists only of an invocation that
was cleaned up. `KeyWasCurrent` holds because versions of the registry are only added and the
second reading begins after the envelope came, so that the version in which it found the key
lies in between. Assumed are the types of the constants.

`GatewayProofs` proves the five properties of `hosted_smoke` for any matrices, times, jobs
and settings of the clock. The invariant has five parts. What somebody else left stops
controller and cleanup before their first change (`ForeignFound`), which gives
`ForeignSurvives`. Whatever lives, even a unit still in systemd's queue, is behind the
packet filter, which the cleanup removes only when it has seen everything gone
(`BehindFilter`), which gives `Contained`. For `GatewayWithinWindow` each state of the unit
leaves enough of the plan and of the DNS answer for all the timeouts that systemd still
grants it, on the monotonic clock and on the wall clock of the admission (`Times`).
`ReportsAreTrue` needs what log and counters must show between the probe and the judgement
(`Observed`), since the judgement looks only at them, and `AggregateIsSound` that an
uploaded report is true of its scenario and that an aggregate, once made, stays a set of
uploaded reports that is one matrix (`Uploaded`). Assumed of the matrices is what
`hosted-lifecycle-smoke.mjs:12-28` fixes: sequences of distinct known scenarios.

Of `LifecyclePreflight` it proves `ObserverFirst`, `EvidenceAgrees` and
`ChecksWereOfRendered` for any plan window within the clock's bound, any waits, and any
number of changes by others. Files belong to the process that created them with `O_EXCL`
(`ObserverOwns`, `PreflightOwns`), so what the other one read in them is what they say;
each goes on only with documents that fit together and that the other repeats
(`ObserverBound`). A check is remembered with the text and program it was of: whatever
replaced a text later never becomes it again, so the comparison at the end speaks of the
text that was checked (`ChecksStand`), and both checks were made by then (`ChecksMade`).

The inductive invariants were checked with TLC on instances of the runs before they were
proved. Liveness under fairness (`LockIsReleased`, `RunsEnd`, `BothEnd`, `AcquisitionEnds`) is
out of the prover's reach and model-checked only: they are about ENABLED and about
counting steps. The two violated properties are shown by TLC's counterexamples.

## Not modelled

Signature schemes, canonical JSON, parsers and formatters are abstracted to whether a
document is the expected one. The AST transforms of the engine are a case analysis over
syntax. The hand-off of a job's source, the worker pool of a campaign and the capability
that a verified attestation becomes are small parts of modelled components that are left
out. The projections for the browser and the run form are pure or hold the browser's
state, which the server does not trust. The drill handoff, image fixtures, the validation
of the gateway's contract and the disposable cloud trial are validation of documents or
network and cloud I/O. `PROJECT.json` lists each part with its reason.

## Plan

Done: all modules of the table above, with the proofs of their safety properties. Next, in
this order:

1. the hand-off of a source (`runner-job-handoff.ts`) as a composition of `RunnerJobs` and
   `SourceStore`;
2. the worker pool of `campaign/runner.ts`, its fail-fast end and the console's lock;
3. the ledger of `ConsoleCeremony` and of `Publication` as an instance of `OwnerLedger`, so
   that the theorems about the store carry over to them as a refinement;
4. the capability of `publication-runner.ts` and the projection of a run row.
