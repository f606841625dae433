--------------------------- MODULE RunnerEvidence ---------------------------
(***************************************************************************)
(* How evidence of a runner job reaches the application: the job's unit    *)
(* and its files, the observer that turns them into a signing request      *)
(* (ops/publication-runner/deployment/observe-runner.mjs, lib.mjs), the    *)
(* signer and the evidence service, which are not part of the repository,  *)
(* and the client that acquires and verifies the attestation               *)
(* (packages/app/src/runner-evidence-*.ts, runner-key-registry.ts,         *)
(* publication-runner.ts), once first and then again with the identity it  *)
(* retained.                                                               *)
(*                                                                         *)
(* The operator may replace the key registry, remove the files of a run    *)
(* and start the unit again, have the signer sign again, and set the       *)
(* clock, MaxChanges times in all.                                         *)
(***************************************************************************)
EXTENDS Naturals, Sequences

CONSTANTS
    Keys,           \* signing keys
    Registries,     \* contents of runner-keys.json, sets of entries
    FirstRegistry,  \* the one at the beginning
    Outputs,        \* reviewed outputs: preflight, artifact and candidate tree
    PreviewTimes,   \* previewCompletedAt of the contexts
    Plan,           \* the runner plan: its life, and that of the DNS resolution it pins
    MinLife, MaxLife,       \* of a plan
    ResolutionAge, ResolutionLife,  \* of a resolution, at most
    PreviewWindow,  \* ten minutes after the preview
    Budget,         \* the ten seconds of one acquisition
    None,
    MaxTime,        \* bound: clock values
    MaxRuns,        \* bound: invocations of the unit
    MaxChanges      \* bound: what the operator does

VARIABLES
    now, changes,
    unit,           \* systemd: the job's unit
    files,          \* raw events, runner result and sealed output
    snapshot,       \* facts of systemd and the host, taken in three stages
    observer,       \* the observer's process and what it has read
    request,        \* Reserved once the observation is written, then the signing request
    served,         \* what the evidence service has for the job
    registry,       \* all contents that runner-keys.json has had
    call,           \* the acquisition under way
    retained,       \* the identity the caller keeps
    held,           \* the evidence of the last acquisition that succeeded
    sealed, cleaned \* history: output sealed by, and cleanup of, an invocation

host == <<unit, files, snapshot, sealed, cleaned>>
watch == <<observer, request>>
client == <<call, retained, held>>
vars == <<now, changes, host, watch, served, registry, client>>

Runs == 1 .. MaxRuns
Times == 0 .. MaxTime
NoFiles == [events |-> None, result |-> None, output |-> None]
Failed == [failed |-> TRUE]     \* events that are not those of a success
NoSnapshot == [execution |-> None, stop |-> None, teardown |-> None]
NoObserver == [at |-> "idle", events |-> None, result |-> None]
NoCall == [at |-> "idle", context |-> None, retained |-> None, end |-> 0, left |-> 0, timer |-> 0,
           last |-> 0, version |-> 0, key |-> None, envelope |-> None, fetched |-> 0]
PlanStart == Plan.created
PlanEnd == Plan.expires
Reserved == [reserved |-> TRUE]
Contexts == [output : Outputs, previewAt : PreviewTimes]
Entries == UNION Registries

(* assertPlanLifetime *)
LifeIsBounded(p) == p.created + MinLife <= p.expires /\ p.expires <= p.created + MaxLife

(* validateDestination: the addresses were resolved lately, and stay       *)
(* resolved as long as the plan lives.                                     *)
ResolutionHolds(p) ==
    /\ p.resolvedAt <= p.created /\ p.created <= p.resolvedAt + ResolutionAge
    /\ p.expires <= p.resolvedUntil
    /\ p.resolvedAt < p.resolvedUntil /\ p.resolvedUntil <= p.resolvedAt + ResolutionLife

(* validatePublicationRunnerPlan *)
Plans == {p \in [created : Times, expires : Times, resolvedAt : Times, resolvedUntil : Times] :
              LifeIsBounded(p) /\ ResolutionHolds(p)}

ASSUME RunnerEvidenceAssumption ==
    /\ Plan \in Plans
    /\ Entries \subseteq [key : Keys, ours : BOOLEAN, from : Times, until : Times, revoked : BOOLEAN]
    /\ FirstRegistry \in Registries
    /\ PreviewTimes \subseteq Times
    /\ PreviewWindow \in Nat /\ Budget \in Nat \ {0}
    /\ MaxTime \in Nat /\ MaxRuns \in Nat /\ MaxChanges \in Nat

Init ==
    /\ now = PlanStart /\ changes = 0
    /\ unit = [state |-> "inactive", run |-> 0, started |-> 0]
    /\ files = NoFiles /\ snapshot = NoSnapshot
    /\ observer = NoObserver /\ request = None
    /\ served = None
    /\ registry = <<FirstRegistry>>
    /\ call = NoCall /\ retained = None /\ held = None
    /\ sealed = [i \in Runs |-> None] /\ cleaned = {}

-----------------------------------------------------------------------------
(* The unit: oneshot, RemainAfterExit, Restart=no.  The wrapper wants the  *)
(* plan to be alive and its files to be new.                               *)
InPlan(t) == PlanStart <= t /\ t < PlanEnd

StartUnit ==
    /\ unit.state \in {"inactive", "dead", "failed"} /\ unit.run < MaxRuns
    /\ now < PlanEnd /\ files = NoFiles
    /\ unit' = [state |-> "activating", run |-> unit.run + 1, started |-> now]
    /\ UNCHANGED <<now, changes, files, snapshot, sealed, cleaned, watch, served, registry, client>>

(* The wrapper seals an output, and leaves the events of a success and the *)
(* runner's result; or it fails, before or after it created the events.    *)
UnitExits(output) ==
    /\ unit.state = "activating"
    /\ unit' = [unit EXCEPT !.state = "exited"]
    /\ files' = [events |-> [run |-> unit.run, output |-> output, started |-> unit.started, finished |-> now],
                 result |-> output, output |-> output]
    /\ sealed' = [sealed EXCEPT ![unit.run] = output]
    /\ UNCHANGED <<now, changes, snapshot, cleaned, watch, served, registry, client>>

UnitFails ==
    /\ unit.state = "activating"
    /\ unit' = [unit EXCEPT !.state = "failed"]
    /\ files' \in {NoFiles, [NoFiles EXCEPT !.events = Failed]}
    /\ UNCHANGED <<now, changes, snapshot, sealed, cleaned, watch, served, registry, client>>

(* Stopping the unit runs cleanup-runner.sh, which may refuse.             *)
StopUnit(ok) ==
    /\ unit.state = "exited"
    /\ unit' = [unit EXCEPT !.state = IF ok THEN "dead" ELSE "failed"]
    /\ cleaned' = IF ok THEN cleaned \cup {unit.run} ELSE cleaned
    /\ UNCHANGED <<now, changes, files, snapshot, sealed, watch, served, registry, client>>

(* The operator removes the files of a run so that the unit may start      *)
(* again.  An output may also be changed after it was sealed.              *)
Disturb ==
    /\ changes < MaxChanges /\ changes' = changes + 1
    /\ request = None
    /\ files # NoFiles
    /\ files' \in {NoFiles} \cup {[files EXCEPT !.output = o] : o \in Outputs \ {files.output}}
    /\ UNCHANGED <<now, unit, snapshot, sealed, cleaned, watch, served, registry, client>>

(* The three stages of the snapshot that the observer is given.            *)
Capture ==
    /\ request = None
    /\ LET fact == [run |-> unit.run, at |-> now]
       IN  \/ /\ unit.state = "exited" /\ snapshot.execution = None
              /\ snapshot' = [snapshot EXCEPT !.execution = fact]
           \/ /\ unit.state = "dead" /\ snapshot.execution # None /\ snapshot.stop = None
              /\ snapshot' = [snapshot EXCEPT !.stop = fact]
           \/ /\ unit.state = "dead" /\ snapshot.stop # None /\ snapshot.teardown = None
              /\ snapshot' = [snapshot EXCEPT !.teardown = fact]
    /\ UNCHANGED <<now, changes, unit, files, sealed, cleaned, watch, served, registry, client>>

-----------------------------------------------------------------------------
(* observe-runner: the events and the result are read one after the other, *)
(* the output's tree is digested when the observation is built.            *)
ReadEvents ==
    /\ observer.at = "idle" /\ request = None
    /\ files.events \notin {None, Failed}
    /\ observer' = [at |-> "result", events |-> files.events, result |-> None]
    /\ UNCHANGED <<now, changes, host, request, served, registry, client>>

ReadResult ==
    /\ observer.at = "result" /\ files.result # None
    /\ observer' = [observer EXCEPT !.at = "build", !.result = files.result]
    /\ UNCHANGED <<now, changes, host, request, served, registry, client>>

(* parseWrapperEvents *)
EventsAgree(events) ==
    /\ InPlan(events.started) /\ InPlan(events.finished)
    /\ events.started <= events.finished

\* Plausible bug: the stop is not tied to the invocation.
SnapshotOfAnyStop(run, finished) ==
    /\ snapshot.execution # None /\ snapshot.stop # None /\ snapshot.teardown # None
    /\ snapshot.execution.run = run
    /\ finished <= snapshot.execution.at
    /\ snapshot.execution.at <= snapshot.stop.at
    /\ snapshot.stop.at <= snapshot.teardown.at
    /\ snapshot.teardown.at < PlanEnd

(* validateLiveSnapshot: execution and stop are of the invocation that     *)
(* wrote the events, and nothing was seen before what it follows.          *)
SnapshotAgrees(run, finished) ==
    /\ snapshot.execution # None /\ snapshot.stop # None /\ snapshot.teardown # None
    /\ snapshot.execution.run = run /\ snapshot.stop.run = run
    /\ finished <= snapshot.execution.at
    /\ snapshot.execution.at <= snapshot.stop.at
    /\ snapshot.stop.at <= snapshot.teardown.at
    /\ snapshot.teardown.at < PlanEnd

(* computeNormalizedTreeDigest against output_ownership_revoked.           *)
OutputIsSealed(events) == files.output = events.output

(* computeRunnerOutputIdentity against the runner's result.                *)
OutputIsReported(result) == files.output = result

(* parseRunnerResult; the events name the result's digest and artifact.    *)
ResultIsSealed(result, events) == result = events.output

(* buildObservation, and the first of the two files, which must be new.    *)
BuildObservation ==
    LET events == observer.events
    IN  /\ observer.at = "build" /\ request = None
        /\ EventsAgree(events)
        /\ OutputIsSealed(events) /\ OutputIsReported(observer.result)
        /\ ResultIsSealed(observer.result, events)
        /\ SnapshotAgrees(events.run, events.finished)
        /\ observer' = [observer EXCEPT !.at = "request"]
        /\ request' = Reserved
        /\ UNCHANGED <<now, changes, host, served, registry, client>>

(* buildUnsignedSigningRequest and the second file.  (Nothing looks at the *)
(* snapshot after that, and the model forgets it.)                         *)
WriteRequest ==
    /\ observer.at = "request"
    /\ request' = [run |-> observer.events.run, output |-> observer.events.output,
                   started |-> observer.events.started, finished |-> observer.events.finished,
                   torn |-> snapshot.teardown.at]
    /\ observer' = NoObserver
    /\ snapshot' = NoSnapshot
    /\ UNCHANGED <<now, changes, unit, files, sealed, cleaned, served, registry, client>>

(* The observer refuses, fails or is killed.                               *)
ObserverEnds ==
    /\ observer.at # "idle"
    /\ observer' = NoObserver
    /\ UNCHANGED <<now, changes, host, request, served, registry, client>>

(* The signer, with one of its keys, and the service.                      *)
Sign(key) ==
    /\ request \notin {None, Reserved}
    /\ served # None => changes < MaxChanges
    /\ changes' = IF served = None THEN changes ELSE changes + 1
    /\ served' = [observation |-> request, key |-> key]
    /\ served' # served
    /\ UNCHANGED <<now, host, watch, registry, client>>

-----------------------------------------------------------------------------
(* createRunnerEvidenceDeadline: neither clock may have gone back or       *)
(* reached its end.  Every check arms the timer again.                     *)
Lesser(a, b) == IF a < b THEN a ELSE b

\* Plausible bug: only the wall clock is looked at.
AliveByWallClock(c) == c.last <= now /\ now < c.end
Alive(c) == c.last <= now /\ now < c.end /\ c.left > 0

Checked(c) == [c EXCEPT !.last = now, !.timer = Lesser(c.end - now, c.left)]

Capped(c, end) == [c EXCEPT !.end = Lesser(c.end, end)]

(* validateRunnerEvidenceContext *)
ContextHolds(context) ==
    /\ InPlan(context.previewAt) /\ context.previewAt <= now
    /\ InPlan(now) /\ now < context.previewAt + PreviewWindow

ContextEnd(context) == Lesser(context.previewAt + PreviewWindow, PlanEnd)

(* acquireInitial, or reacquire with the identity that was retained.       *)
(* (Bound: none begins before there is a request, when the service could   *)
(* only have a foreign envelope.)                                          *)
Acquire(context) ==
    LET start == [NoCall EXCEPT !.at = "read", !.context = context, !.retained = retained,
                                !.end = Lesser(now + Budget, ContextEnd(context)), !.left = Budget,
                                !.last = now]
        c == IF retained = None THEN start ELSE Capped(start, retained.expires)
    IN  /\ call.at = "idle" /\ request \notin {None, Reserved}
        /\ ContextHolds(context)
        /\ retained # None => retained.context = context
        /\ Alive(c)
        /\ call' = Checked(c)
        /\ UNCHANGED <<now, changes, host, watch, served, registry, retained, held>>

(* selectRunnerKey: no key twice, at most one active key in a scope.  All  *)
(* entries of other pilots and repositories stand for one scope.           *)
Active(entry) == ~entry.revoked /\ entry.from <= now /\ now < entry.until

Selected(entries) ==
    {e \in entries :
        /\ Active(e) /\ e.ours
        /\ \A d, f \in entries : d # f => d.key # f.key
        /\ \A d, f \in {x \in entries : Active(x)} : d.ours = f.ours => d = f}

(* readRunnerKeyRegistry: the path and the file are looked at before ...   *)
ReadRegistry(from, to) ==
    /\ call.at = from /\ Alive(call)
    /\ call' = Checked([call EXCEPT !.at = to, !.version = Len(registry)])
    /\ UNCHANGED <<now, changes, host, watch, served, registry, retained, held>>

(* ... and after the reading, and must be the same.                        *)
Unreplaced == call.version = Len(registry)

SelectKey ==
    /\ call.at = "select" /\ Alive(call) /\ Unreplaced
    /\ \E e \in Selected(registry[call.version]) :
          call' = Checked(Capped([call EXCEPT !.at = "fetch", !.key = e], e.until))
    /\ UNCHANGED <<now, changes, host, watch, served, registry, retained, held>>

(* fetchRunnerEvidenceEnvelope: what the service has, or another envelope. *)
Foreign == [observation |-> None, key |-> None]

(* readEnvelope: a bounded, whole and canonical response.                  *)
Responses == ({served} \ {None}) \cup {Foreign}

Fetch ==
    /\ call.at = "fetch" /\ Alive(call)
    /\ \E e \in Responses :
          call' = Checked([call EXCEPT !.at = "read_again", !.envelope = e, !.fetched = Len(registry)])
    /\ UNCHANGED <<now, changes, host, watch, served, registry, retained, held>>

\* Plausible bug: the second reading need not find the same entry.
SelectAnyAgain ==
    /\ call.at = "select_again" /\ Alive(call) /\ Unreplaced
    /\ call' = Checked([call EXCEPT !.at = "verify"])
    /\ UNCHANGED <<now, changes, host, watch, served, registry, retained, held>>

(* The second reading must find the entry of the first.                    *)
SelectKeyAgain ==
    /\ call.at = "select_again" /\ Alive(call) /\ Unreplaced
    /\ \E e \in Selected(registry[call.version]) :
          /\ e = call.key
          /\ call' = Checked([call EXCEPT !.at = "verify"])
    /\ UNCHANGED <<now, changes, host, watch, served, registry, retained, held>>

(* The bindings of the payload: the foreign observation stands for one of  *)
(* another plan or job, with a failed check or an incomplete teardown.     *)
OfThisJob(o) == o # None

(* validateAttestationPayload *)
PayloadHolds(o, context) ==
    /\ OfThisJob(o)
    /\ o.output = context.output
    /\ PlanStart <= o.started /\ o.started <= o.finished /\ o.finished <= o.torn
    /\ o.torn < PlanEnd

(* verifyPublicationRunnerAttestation                                      *)
Attested(envelope, context, entry) ==
    LET o == envelope.observation
    IN  /\ envelope.key = entry.key
        /\ PayloadHolds(o, context)
        /\ ~entry.revoked /\ entry.from <= o.torn /\ o.torn < entry.until
        /\ o.torn <= now /\ entry.from <= now /\ now < entry.until

Identity(c) ==
    [context |-> c.context, envelope |-> c.envelope, entry |-> c.key,
     expires |-> Lesser(ContextEnd(c.context), c.key.until)]

(* The attestation is verified; an identity that was retained must come    *)
(* out again.                                                              *)
Verify ==
    /\ call.at = "verify" /\ Alive(call)
    /\ ContextHolds(call.context)
    /\ Attested(call.envelope, call.context, call.key)
    /\ call.retained \in {None, Identity(call)}
    /\ retained' = Identity(call)
    /\ held' = [run |-> call.envelope.observation.run, output |-> call.envelope.observation.output,
                entry |-> call.key, fetched |-> call.fetched, left |-> call.left, at |-> now]
    /\ call' = NoCall
    /\ UNCHANGED <<now, changes, host, watch, served, registry>>

(* Any step may fail, and any failure ends the call.                       *)
Refuse ==
    /\ call.at # "idle"
    /\ call' = NoCall
    /\ UNCHANGED <<now, changes, host, watch, served, registry, retained, held>>

\* Plausible bug: a step that does not answer is waited for.
NeverExpires == FALSE

(* The timer aborts the call whatever it is waiting for.                   *)
Expired == call.at # "idle" /\ call.timer = 0

Expire ==
    /\ Expired
    /\ call' = NoCall
    /\ UNCHANGED <<now, changes, host, watch, served, registry, retained, held>>

-----------------------------------------------------------------------------
(* The operator replaces the registry, or sets the clock back or forward.  *)
ReplaceRegistry ==
    /\ changes < MaxChanges /\ changes' = changes + 1
    /\ \E r \in Registries \ {registry[Len(registry)]} : registry' = Append(registry, r)
    /\ UNCHANGED <<now, host, watch, served, client>>

SetClock ==
    /\ changes < MaxChanges /\ changes' = changes + 1
    /\ \E t \in Times \ {now} : now' = t
    /\ UNCHANGED <<host, watch, served, registry, client>>

(* Time passes; the wall clock of the model stops at its bound.            *)
Tick ==
    /\ now < MaxTime \/ call.left > 0
    /\ now' = Lesser(now + 1, MaxTime)
    /\ call' = [call EXCEPT !.left = IF @ = 0 THEN 0 ELSE @ - 1, !.timer = IF @ = 0 THEN 0 ELSE @ - 1]
    /\ UNCHANGED <<changes, host, watch, served, registry, retained, held>>

AcquisitionStep ==
    \/ ReadRegistry("read", "select") \/ SelectKey
    \/ Fetch
    \/ ReadRegistry("read_again", "select_again") \/ SelectKeyAgain
    \/ Verify

Next ==
    \/ StartUnit \/ UnitFails \/ Disturb \/ Capture
    \/ \E o \in Outputs : UnitExits(o)
    \/ \E ok \in BOOLEAN : StopUnit(ok)
    \/ ReadEvents \/ ReadResult \/ BuildObservation \/ WriteRequest \/ ObserverEnds
    \/ \E k \in Keys : Sign(k)
    \/ \E c \in Contexts : Acquire(c)
    \/ AcquisitionStep \/ Refuse \/ Expire
    \/ ReplaceRegistry \/ SetClock \/ Tick

(* Time passes and timers fire; nobody is bound to answer.                 *)
Spec == Init /\ [][Next]_vars /\ WF_vars(Tick) /\ WF_vars(Expire)

-----------------------------------------------------------------------------
(* Evidence that the client accepted is of one run of the job: the         *)
(* invocation it names sealed the reviewed output, and it is that          *)
(* invocation which was stopped and cleaned up, although the unit may have *)
(* run again, and its files been removed or changed, between any two looks *)
(* of the observer.                                                        *)
AcceptedIsOneRun ==
    held # None =>
        /\ held.output = retained.context.output
        /\ sealed[held.run] = held.output
        /\ held.run \in cleaned

(* The signer's key was in force after the envelope had come: the registry *)
(* held its entry, not revoked, at a moment between the answer of the      *)
(* service and that of the client.  A key that is revoked, replaced or     *)
(* changed while the envelope is under way is not accepted.                *)
KeyWasCurrent ==
    held # None =>
        \E v \in held.fetched .. Len(registry) :
            held.entry \in registry[v] /\ ~held.entry.revoked

(* What the client accepts, it accepts before its ten seconds are over and *)
(* within the life of preview, plan and key, whichever way the clock was   *)
(* set meanwhile.                                                          *)
AnswerIsTimely ==
    held # None =>
        /\ held.left > 0
        /\ InPlan(held.at) /\ held.at < retained.expires

(* Every acquisition ends, though the registry's disk and the service may  *)
(* never answer.                                                           *)
AcquisitionEnds == []<>(call.at = "idle")
=============================================================================
