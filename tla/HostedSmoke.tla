---------------------------- MODULE HostedSmoke ----------------------------
(***************************************************************************)
(* The GitHub-hosted smoke test of the network gateway                     *)
(* (ops/publication-runner/deployment/run-hosted-smoke.mjs,                *)
(* cleanup-hosted-smoke.mjs, hosted-lifecycle-smoke.mjs,                   *)
(* aggregate-hosted-smoke.mjs and gateway/): on one virtual machine per    *)
(* scenario a controller installs the packet filter, starts the gateway    *)
(* as a systemd unit with a bounded life, probes it, tears everything down *)
(* and writes a report; a second program removes what a controller that    *)
(* failed or was killed left behind; at the end the reports are aggregated.*)
(*                                                                         *)
(* The controller may fail in every step, which runs its catch block, or   *)
(* be killed, which does not and leaves its probe process running.  The    *)
(* machines share nothing, so the jobs are modelled one after the other,   *)
(* in the order of the matrix.  An inspection of the machine is one step.  *)
(* A child process other than a probe dies with its parent.                *)
(***************************************************************************)
EXTENDS Integers, Sequences, FiniteSets

CONSTANTS
    Matrices,       \* parts of HOSTED_SMOKE_SCENARIO_MATRIX, each a workflow's
    None,
    PlanMax,        \* PLAN_MAX_MS
    PlanMin,        \* PLAN_MIN_MS
    Ttls,           \* what is left of the DNS answer when the plan is created
    Command,        \* GATEWAY_START_COMMAND_TIMEOUT_MS
    Job,            \* GATEWAY_START_JOB_TIMEOUT_MS
    Activation,     \* time from the end of ExecStartPre to activation
    Stop,           \* TimeoutStopSec
    Jumps,          \* by how much the wall clock may be set, once
    MaxTime,        \* bound: monotonic clock values
    MaxJobs,        \* bound: jobs of a workflow, with repeated ones
    MaxReuse        \* bound: jobs that get the machine of the one before

VARIABLES
    job,            \* the job of the workflow that runs
    foreign,        \* what somebody else left on the machine
    now, skew,      \* monotonic clock; wall clock minus monotonic clock
    gateway,        \* the gateway unit
    canary,         \* the unit of a fault scenario
    probe,          \* whether a process of the runner UID lives
    table, runtime, workspace,
    plan,           \* the rendered contract's times, wall clock
    window,         \* gatewayStartWindow of the unit, or None
    conns,          \* what is logged of the readiness and the scenario's connections
    delta,          \* what the counters and the log show since the scenario began
    own,            \* history: what became of the scenario's own connection
    pc,             \* step of the controller
    cleanup,        \* step of the cleanup, and whether it saw the table
    uploads,        \* reports uploaded
    passed,         \* scenarios whose last job passed
    aggregate       \* the reports of the accepted aggregate, or None

clocks == <<now, skew>>
units == <<gateway, canary, probe>>
files == <<runtime, workspace>>
evidence == <<conns, delta, own>>
jobs == <<job, foreign, uploads, passed, aggregate>>
vars == <<jobs, clocks, units, table, files, plan, window, evidence, pc, cleanup>>

-----------------------------------------------------------------------------
Reserve == Activation + Stop   \* GATEWAY_ACTIVATION_AND_SHUTDOWN_RESERVE_MS

Matrix == job.matrix
Scenarios == {Matrix[i] : i \in DOMAIN Matrix}
Forwarding == {"success", "direct_bypass"}
Rejecting == {"wrong_sni", "absent_sni", "plaintext"}
Blocked == {"non_443", "non_npm"}
Faults == {"timeout", "sigkill"}
Deferred == {"offline_network", "gateway_stop", "uid_idle", "policy_removal",
             "cgroup_namespace_cleanup", "workspace_cleanup"}

ASSUME HostedSmokeAssumption ==
    /\ \A m \in Matrices :
          /\ m \in Seq(Forwarding \cup Rejecting \cup Blocked \cup Faults \cup Deferred)
          /\ \A i, j \in DOMAIN m : m[i] = m[j] => i = j
    /\ None \notin {"npm", "runner", "gateway"}
    /\ {PlanMax, PlanMin, Command, Job, Activation, Stop, MaxTime, MaxJobs, MaxReuse} \subseteq Nat
    /\ Ttls \subseteq Nat /\ Jumps \subseteq Int

Wall == now + skew

Absent == [st |-> "absent", since |-> 0]
GatewayStates == {"queued", "prestart", "admitted", "mainstart", "active", "stopping"}
Running == {"mainstart", "active", "stopping"}     \* the Envoy process exists

NoConns == <<"none", "none", "none">>
NoDelta == [redirect |-> FALSE, loopback |-> FALSE, upstream |-> FALSE, access |-> FALSE, reject |-> None]
Dirty == {"table", "unit", "runtime", "process"}
NoCleanup == [step |-> "waiting", table |-> FALSE]

(* A fresh machine, on which somebody may have left something.             *)
Machine(left) ==
    /\ foreign' = left
    /\ now' = 0 /\ skew' = 0
    /\ gateway' = Absent
    /\ canary' = IF left = "unit" THEN "active" ELSE "absent"
    /\ probe' = (left = "process")
    /\ table' = (left = "table")
    /\ runtime' = IF left = "runtime" THEN "bare" ELSE "none"
    /\ workspace' = "none"
    /\ plan' = None /\ window' = None
    /\ conns' = NoConns /\ delta' = NoDelta /\ own' = None
    /\ pc' = "collision"
    /\ cleanup' = NoCleanup

Init ==
    /\ \E m \in Matrices : job = [matrix |-> m, number |-> 1, index |-> 1, attempt |-> 1, boot |-> 1]
    /\ foreign = "none"
    /\ now = 0 /\ skew = 0
    /\ gateway = Absent /\ canary = "absent" /\ probe = FALSE
    /\ table = FALSE /\ runtime = "none" /\ workspace = "none"
    /\ plan = None /\ window = None
    /\ conns = NoConns /\ delta = NoDelta /\ own = None
    /\ pc = "collision"
    /\ cleanup = NoCleanup
    /\ uploads = {} /\ passed = {} /\ aggregate = None

scenario == Matrix[job.index]

-----------------------------------------------------------------------------
(* inspectHostedSmokeAbsence, and assertNoResourceCollision.               *)
UnitsGone == gateway.st = "absent" /\ canary = "absent"
UidsIdle == ~probe /\ gateway.st \in {"absent", "queued"} /\ canary # "active"
CompleteAbsence == UnitsGone /\ UidsIdle /\ ~table /\ runtime = "none" /\ workspace = "none"

Go(from, to) == pc = from /\ pc' = to

Collision ==
    /\ Go("collision", "runtime")
    /\ CompleteAbsence
    /\ UNCHANGED <<jobs, clocks, units, table, files, plan, window, evidence, cleanup>>

(* createRootRuntime: the directory first, its ownership marker last.      *)
MakeRuntime ==
    /\ Go("runtime", "marker")
    /\ runtime' = "bare"
    /\ UNCHANGED <<jobs, clocks, units, table, workspace, plan, window, evidence, cleanup>>

MakeMarker ==
    /\ Go("marker", "resolve")
    /\ workspace' = "open" /\ runtime' = "marked"
    /\ UNCHANGED <<jobs, clocks, units, table, plan, window, evidence, cleanup>>

(* resolveHostedNpmOrigin asks until an answer lives long enough.          *)
Resolve ==
    /\ Go("resolve", "render")
    /\ \E ttl \in Ttls : plan' = [created |-> Wall, expires |-> Wall + ttl]
    /\ UNCHANGED <<jobs, clocks, units, table, files, window, evidence, cleanup>>

(* hostedNpmPlanWindow *)
PlanExpiry == IF Wall + PlanMax < plan.expires THEN Wall + PlanMax ELSE plan.expires

(* renderHostedGateway writes the contract and the two configurations and  *)
(* seals the workspace.                                                    *)
Render ==
    /\ Go("render", "policy")
    /\ Wall >= plan.created
    /\ PlanExpiry - Wall >= PlanMin
    /\ plan' = [created |-> Wall, expires |-> PlanExpiry]
    /\ workspace' = "sealed"
    /\ UNCHANGED <<jobs, clocks, units, table, runtime, window, evidence, cleanup>>

(* gatewayStartWindow: the longest life that fits, in whole units.         *)
Lifetime == plan.expires - Wall - Command - Job - Reserve - 1
StartWindow == Wall >= plan.created /\ Wall < plan.expires /\ Lifetime >= 1

InstallPolicy ==
    /\ Go("policy", "window")
    /\ StartWindow
    /\ table' = TRUE
    /\ UNCHANGED <<jobs, clocks, units, files, plan, window, evidence, cleanup>>

(* startGateway reads both clocks and computes the arguments of the unit.  *)
Window ==
    /\ Go("window", "submit")
    /\ StartWindow
    /\ window' = [admitted |-> now, observed |-> Wall, expires |-> plan.expires,
                  life |-> Lifetime, skew |-> None]
    /\ UNCHANGED <<jobs, clocks, units, table, files, plan, evidence, cleanup>>

(* assertCurrent, before and after the command.                            *)
Current(reserved) ==
    /\ window.observed <= Wall /\ Wall < window.expires
    /\ now - window.admitted < window.expires - window.observed
    /\ now - window.admitted < Command
    /\ window.life + Job + Reserve + reserved < window.expires - Wall

Submit ==
    /\ Go("submit", "submitted")
    /\ Current(Command)
    /\ gateway' = [st |-> "queued", since |-> now]
    /\ UNCHANGED <<jobs, clocks, canary, probe, table, files, plan, window, evidence, cleanup>>

Submitted ==
    /\ Go("submitted", "await_active")
    /\ Current(0)
    /\ UNCHANGED <<jobs, clocks, units, table, files, plan, window, evidence, cleanup>>

(* The exact gateway process, and waitForListener.                         *)
AwaitActive ==
    /\ Go("await_active", "ready_v4")
    /\ gateway.st = "active"
    /\ Wall < window.expires
    /\ UNCHANGED <<jobs, clocks, units, table, files, plan, window, evidence, cleanup>>

-----------------------------------------------------------------------------
(* The unit, as gatewaySystemdArguments describes it to systemd: the job   *)
(* may wait in the queue for any time; ExecStartPre lasts at most Job.     *)
Unit(from, to) ==
    /\ gateway.st = from
    /\ gateway' = [st |-> to, since |-> now]
    /\ UNCHANGED <<jobs, clocks, canary, probe, table, files, plan, evidence, pc, cleanup>>

PreStart == Unit("queued", "prestart") /\ UNCHANGED window

\* Plausible bug: only the life of the gateway is reserved.
GuardWithoutReserve ==
    /\ Wall >= window.observed /\ Wall + window.life < window.expires
    /\ now >= window.admitted
    /\ now < window.admitted + Command + Job
    /\ now + window.life < window.admitted + window.expires - window.observed

(* gatewayNativeAdmissionGuard, run by the unit itself.                    *)
Guard ==
    LET reserve == window.life + Job + Reserve
    IN  /\ Wall >= window.observed /\ Wall + reserve < window.expires
        /\ now >= window.admitted
        /\ now < window.admitted + Command + Job
        /\ now + reserve < window.admitted + window.expires - window.observed

Admit ==
    /\ gateway.st = "prestart"
    /\ gateway' = IF Guard THEN [gateway EXCEPT !.st = "admitted"] ELSE Absent
    /\ window' = [window EXCEPT !.skew = skew]
    /\ UNCHANGED <<jobs, clocks, canary, probe, table, files, plan, evidence, pc, cleanup>>

MainStart == Unit("admitted", "mainstart") /\ UNCHANGED window

(* Without its configuration Envoy does not start.                         *)
Activate == workspace = "sealed" /\ Unit("mainstart", "active") /\ UNCHANGED window

(* Exit, crash, timeout, RuntimeMaxSec; --collect unloads what has ended.  *)
End == \E st \in {"mainstart", "active"} : Unit(st, "stopping") /\ UNCHANGED window

Ended ==
    /\ gateway.st \in {"prestart", "admitted", "stopping"}
    /\ gateway' = Absent
    /\ UNCHANGED <<jobs, clocks, canary, probe, table, files, plan, window, evidence, pc, cleanup>>

(* Time passes while the plan or the gateway can notice, and no further    *)
(* than systemd lets a state of the unit last.                             *)
Limit == CASE gateway.st \in {"prestart", "admitted"} -> Job
           [] gateway.st = "mainstart" -> Activation
           [] gateway.st = "active" -> window.life
           [] gateway.st = "stopping" -> Stop
           [] OTHER -> MaxTime

Timed == gateway.st # "absent" \/ pc \in {"render", "policy", "window", "submit"}

Tick ==
    /\ Timed
    /\ now < MaxTime
    /\ now - gateway.since < Limit
    /\ now' = now + 1
    /\ UNCHANGED <<jobs, skew, units, table, files, plan, window, evidence, pc, cleanup>>

SetClock ==
    /\ Timed
    /\ skew = 0
    /\ skew' \in Jumps
    /\ UNCHANGED <<jobs, now, units, table, files, plan, window, evidence, pc, cleanup>>

-----------------------------------------------------------------------------
(* Envoy writes two records of a connection, a while after it was made.    *)
Log(i) ==
    /\ conns[i] \in {"made", "connected"}
    /\ conns' = [conns EXCEPT ![i] = IF conns[i] = "made" THEN "connected" ELSE "ended"]
    /\ delta' = [delta EXCEPT !.loopback = TRUE, !.upstream = TRUE, !.access = TRUE]
    /\ UNCHANGED <<jobs, clocks, units, table, files, plan, window, own, pc, cleanup>>

ProbeSteps == {"ready_v4", "ready_v6", "act", "offline"}

(* runProbe: a child process under the runner UID, killed when it is late. *)
StartProbe ==
    /\ pc \in ProbeSteps
    /\ pc = "act" => scenario \in Forwarding \cup Rejecting \cup Blocked
    /\ ~probe /\ probe' = TRUE
    /\ UNCHANGED <<jobs, clocks, gateway, canary, table, files, plan, window, evidence, pc, cleanup>>

EndProbe(from, to) ==
    /\ Go(from, to)
    /\ probe /\ probe' = FALSE
    /\ plan.created <= Wall /\ Wall < plan.expires
    /\ UNCHANGED <<jobs, clocks, gateway, canary, table, files, plan, window, cleanup>>

Ready(from, to, i) ==
    /\ EndProbe(from, to)
    /\ gateway.st = "active"
    /\ conns' = [conns EXCEPT ![i] = "made"]
    /\ UNCHANGED <<delta, own>>

\* Plausible bug: the ends of the readiness connections are not awaited.
ReadyLogConnected ==
    /\ Go("ready_log", "before")
    /\ conns[1] \in {"connected", "ended"} /\ conns[2] \in {"connected", "ended"}
    /\ UNCHANGED <<jobs, clocks, units, table, files, plan, window, evidence, cleanup>>

(* Both readiness connections are in the log, with their ends.             *)
ReadyLog ==
    /\ Go("ready_log", "before")
    /\ conns[1] = "ended" /\ conns[2] = "ended"
    /\ UNCHANGED <<jobs, clocks, units, table, files, plan, window, evidence, cleanup>>

(* The counters and the log before the scenario.                           *)
Before ==
    /\ Go("before", "act")
    /\ delta' = NoDelta
    /\ UNCHANGED <<jobs, clocks, units, table, files, plan, window, conns, own, cleanup>>

(* buildGatewayProbeSpecification: who connects whereto, and the expected  *)
(* outcome.  The probe "success" of the matrix is called correct_sni there.*)
Specification(name) ==
    LET To(dst, port, sni, expected) ==
            [uid |-> IF name = "non_npm" THEN "gateway" ELSE "runner",
             dst |-> dst, port |-> port, sni |-> sni, expected |-> expected]
    IN  CASE name = "success" -> To("listener", "listener", "npm", "ping")
          [] name = "direct_bypass" -> To("origin", "443", "npm", "ping")
          [] name = "wrong_sni" -> To("listener", "listener", "wrong", "denied")
          [] name = "absent_sni" -> To("listener", "listener", None, "denied")
          [] name = "plaintext" -> To("listener", "listener", None, "plaintext")
          [] name = "non_443" -> To("origin", "80", None, "blocked")
          [] name = "non_npm" -> To("other", "443", None, "blocked")

(* How far a connection got (to the gateway only, through it, past it),    *)
(* whether it was answered, and whose rule rejected it.                    *)
Outcomes(spec) ==
    {o \in [route : {"none", "gateway", "upstream", "direct"}, answered : BOOLEAN,
            rejected : {None, "runner", "gateway"}] :
        /\ o.answered => o.route \in {"upstream", "direct"}
        /\ o.rejected # None => o.route = "none"
        /\ o.route = "direct" => spec.dst # "listener"}

(* buildNftablesPolicy and buildEnvoyConfig: what the rendered filter and  *)
(* the gateway make of it.  Connections of the runner to port 443 are      *)
(* redirected, all else is rejected but for the gateway's to the origin;   *)
(* the gateway opens an upstream for the one server name.                  *)
Rendered(spec) ==
    LET toGateway == spec.uid = "runner" /\ (spec.dst = "listener" \/ spec.port = "443")
        toOrigin == spec.uid = "gateway" /\ spec.dst = "origin" /\ spec.port = "443"
        route == IF toGateway THEN IF spec.sni = "npm" THEN "upstream" ELSE "gateway"
                 ELSE IF toOrigin THEN "direct" ELSE "none"
    IN  [route |-> route, answered |-> route \in {"upstream", "direct"},
         rejected |-> IF route = "none" THEN spec.uid ELSE None]

(* expectHttpsPing, expectConnectionDenied, expectPlaintextRejection.      *)
Passes(spec, o) ==
    CASE spec.expected = "ping" -> o.answered
      [] spec.expected \in {"denied", "plaintext"} -> o.route # "none" /\ ~o.answered
      [] spec.expected = "blocked" -> o.route = "none"

(* The scenario's probe passes; the filter or the gateway may have done    *)
(* anything.                                                               *)
Probed ==
    LET spec == Specification(scenario)
    IN  /\ EndProbe("act", "after")
        /\ \E o \in Outcomes(spec) :
              /\ Passes(spec, o)
              /\ o.route \in {"gateway", "upstream"} => gateway.st = "active"
              /\ own' = o
              /\ conns' = IF o.route = "upstream" THEN [conns EXCEPT ![3] = "made"] ELSE conns
              /\ delta' =
                    [delta EXCEPT !.redirect = spec.dst # "listener" /\ o.route \in {"gateway", "upstream"},
                                  !.loopback = @ \/ o.route \in {"gateway", "upstream"},
                                  !.upstream = @ \/ o.route = "upstream",
                                  !.reject = o.rejected]

(* runFaultScenario: a unit that is killed, or runs into its RuntimeMaxSec.*)
StartCanary ==
    /\ Go("act", "fault")
    /\ scenario \in Faults
    /\ canary' = "active"
    /\ UNCHANGED <<jobs, clocks, gateway, probe, table, files, plan, window, evidence, cleanup>>

Fault ==
    /\ pc = "fault"
    /\ canary = "active" /\ canary' = "failed"
    /\ UNCHANGED <<jobs, clocks, gateway, probe, table, files, plan, window, evidence, pc, cleanup>>

FaultSeen ==
    /\ Go("fault", "after")
    /\ canary = "failed" /\ table
    /\ UNCHANGED <<jobs, clocks, units, table, files, plan, window, evidence, cleanup>>

Defer ==
    /\ Go("act", "after")
    /\ scenario \in Deferred
    /\ UNCHANGED <<jobs, clocks, units, table, files, plan, window, evidence, cleanup>>

(* validateScenarioProof *)
Fits(name, d) ==
    /\ name \in Forwarding => d.loopback /\ d.upstream /\ d.access
    /\ name = "direct_bypass" => d.redirect /\ d.reject # "gateway"
    /\ name \in Rejecting => ~d.upstream
    /\ name \in {"wrong_sni", "absent_sni"} => d.loopback /\ ~d.access
    /\ name = "non_443" => d.reject = "runner"
    /\ name = "non_npm" => d.reject = "gateway"

(* captureScenarioAfter waits for a record of the log where one is due.    *)
After ==
    /\ Go("after", "stop_canary")
    /\ Fits(scenario, delta)
    /\ conns' = NoConns /\ delta' = NoDelta
    /\ UNCHANGED <<jobs, clocks, units, table, files, plan, window, own, cleanup>>

-----------------------------------------------------------------------------
(* stopExactUnit of the canary waits until the unit is unloaded.           *)
StopCanary ==
    /\ Go("stop_canary", "stop_gateway")
    /\ canary' = "absent"
    /\ UNCHANGED <<jobs, clocks, gateway, probe, table, files, plan, window, evidence, cleanup>>

(* systemctl stop: a queued job is cancelled, a process gets Stop to end.  *)
Stopping ==
    IF gateway.st \in {"mainstart", "active"} THEN [st |-> "stopping", since |-> now]
    ELSE IF gateway.st = "stopping" THEN gateway ELSE Absent

(* stopGatewayAndCheckOffline.                                             *)
StopGateway ==
    /\ Go("stop_gateway", "await_gone")
    /\ gateway' = Stopping
    /\ UNCHANGED <<jobs, clocks, canary, probe, table, files, plan, window, evidence, cleanup>>

AwaitGone ==
    /\ Go("await_gone", "offline")
    /\ gateway.st = "absent"
    /\ UNCHANGED <<jobs, clocks, units, table, files, plan, window, evidence, cleanup>>

Offline == EndProbe("offline", "idle") /\ UNCHANGED evidence

Idle ==
    /\ Go("idle", "remove_runtime")
    /\ UidsIdle /\ UnitsGone /\ table
    /\ UNCHANGED <<jobs, clocks, units, table, files, plan, window, evidence, cleanup>>

(* removeExactRuntime: workspace, marker, directory.                       *)
RemoveSealed ==
    /\ Go("remove_runtime", "remove_marker")
    /\ runtime = "marked" /\ workspace = "sealed"
    /\ workspace' = "none"
    /\ UNCHANGED <<jobs, clocks, units, table, runtime, plan, window, evidence, cleanup>>

RemoveMarker ==
    /\ Go("remove_marker", "delete_table")
    /\ runtime' = "none"
    /\ UNCHANGED <<jobs, clocks, units, table, workspace, plan, window, evidence, cleanup>>

DeleteTable ==
    /\ Go("delete_table", "report")
    /\ table /\ table' = FALSE
    /\ UNCHANGED <<jobs, clocks, units, files, plan, window, evidence, cleanup>>

(* The final boundary check, the report and its self-check.  "own" is      *)
(* history and no part of the report.                                      *)
Report ==
    /\ Go("report", "passed")
    /\ CompleteAbsence
    /\ uploads' = uploads \cup
          {[scenario |-> scenario, attempt |-> job.attempt, boot |-> job.boot,
            own |-> own]}
    /\ UNCHANGED <<job, foreign, passed, aggregate, clocks, units, table, files, plan, window, evidence, cleanup>>

-----------------------------------------------------------------------------
Flagless == {"collision", "runtime", "marker", "report"}   \* neither flag of the controller is set
Over == {"passed", "failed"}
Emergency == {"emergency_canary", "emergency_gateway"}

(* Any step may throw; a probe that is late is killed.  The catch block    *)
(* stops the two units if the controller made anything.                    *)
Fail ==
    /\ pc \notin Over \cup Emergency
    /\ pc' = IF pc \in Flagless THEN "failed" ELSE "emergency_canary"
    /\ probe' = (probe /\ foreign = "process")
    /\ conns' = NoConns /\ delta' = NoDelta /\ own' = None
    /\ UNCHANGED <<jobs, clocks, gateway, canary, table, files, plan, window, cleanup>>

\* emergencyCleanup goes on when a unit cannot be stopped.
EmergencyCanary ==
    /\ Go("emergency_canary", "emergency_gateway")
    /\ canary' \in {canary, "absent"}
    /\ UNCHANGED <<jobs, clocks, gateway, probe, table, files, plan, window, evidence, cleanup>>

EmergencyGateway ==
    /\ Go("emergency_gateway", "failed")
    /\ gateway' \in {gateway, Stopping}
    /\ UNCHANGED <<jobs, clocks, canary, probe, table, files, plan, window, evidence, cleanup>>

(* The controller is killed: its units and its probe live on.              *)
Kill ==
    /\ pc \notin Over
    /\ pc' = "failed"
    /\ conns' = NoConns /\ delta' = NoDelta /\ own' = None
    /\ UNCHANGED <<jobs, clocks, units, table, files, plan, window, cleanup>>

ProbeEnds ==
    /\ pc \in Over /\ probe /\ foreign # "process"
    /\ probe' = FALSE
    /\ UNCHANGED <<jobs, clocks, gateway, canary, table, files, plan, window, evidence, pc, cleanup>>

-----------------------------------------------------------------------------
CleanupOver == {"removed", "refused"}
CleanupGo(from, to) == cleanup.step = from /\ cleanup' = [cleanup EXCEPT !.step = to]

\* Plausible bug: a machine without the ownership marker is cleaned up too.
OwnedByTable ==
    ~table => UnitsGone /\ UidsIdle

(* assertOwnedPreMutationState *)
Owned ==
    /\ ~table => UnitsGone /\ UidsIdle
    /\ runtime = "marked"

(* cleanupHostedSmoke, always run after the controller has ended.          *)
CleanupBegin ==
    /\ pc \in Over
    /\ cleanup.step = "waiting"
    /\ cleanup' = IF CompleteAbsence THEN [step |-> "removed", table |-> FALSE]
                  ELSE [step |-> IF ~Owned THEN "refused"
                                 ELSE IF table THEN "settle_canary" ELSE "settled", table |-> table]
    /\ UNCHANGED <<jobs, clocks, units, table, files, plan, window, evidence, pc>>

(* settleExactUnit: stop, poll, kill, poll, collect.                       *)
SettleCanary ==
    /\ CleanupGo("settle_canary", "settle_gateway")
    /\ canary' = "absent"
    /\ UNCHANGED <<jobs, clocks, gateway, probe, table, files, plan, window, evidence, pc>>

SettleGateway ==
    /\ CleanupGo("settle_gateway", "settling")
    /\ gateway' = Stopping
    /\ UNCHANGED <<jobs, clocks, canary, probe, table, files, plan, window, evidence, pc>>

Settling ==
    /\ CleanupGo("settling", "settled")
    /\ gateway.st = "absent"
    /\ UNCHANGED <<jobs, clocks, units, table, files, plan, window, evidence, pc>>

\* Plausible bug: a process that is no unit's is overlooked.
QuiescentUnits == UnitsGone /\ (cleanup.table <=> table)

(* Units, cgroups and identities before anything is removed, and the       *)
(* table as it was at first.                                               *)
Quiescent == UnitsGone /\ UidsIdle /\ (cleanup.table <=> table)

Settled ==
    /\ CleanupGo("settled", "remove_workspace")
    /\ Quiescent
    /\ UNCHANGED <<jobs, clocks, units, table, files, plan, window, evidence, pc>>

RemoveWorkspace ==
    /\ CleanupGo("remove_workspace", "remove_runtime")
    /\ workspace' = "none"
    /\ UNCHANGED <<jobs, clocks, units, table, runtime, plan, window, evidence, pc>>

RemoveRuntime ==
    /\ CleanupGo("remove_runtime", "recheck")
    /\ runtime' = "none"
    /\ UNCHANGED <<jobs, clocks, units, table, workspace, plan, window, evidence, pc>>

Recheck ==
    /\ CleanupGo("recheck", "remove_table")
    /\ Quiescent /\ runtime = "none" /\ workspace = "none"
    /\ UNCHANGED <<jobs, clocks, units, table, files, plan, window, evidence, pc>>

(* The table goes last, and the machine is inspected once more.            *)
RemoveTable ==
    /\ CleanupGo("remove_table", "removed_table")
    /\ table' = FALSE
    /\ UNCHANGED <<jobs, clocks, units, files, plan, window, evidence, pc>>

CleanupReport ==
    /\ CleanupGo("removed_table", "removed")
    /\ CompleteAbsence
    /\ UNCHANGED <<jobs, clocks, units, table, files, plan, window, evidence, pc>>

(* A check refuses, a command fails, or the cleanup is killed.             *)
Refuse ==
    /\ pc \in Over
    /\ cleanup.step \notin {"waiting"} \cup CleanupOver
    /\ cleanup' = [cleanup EXCEPT !.step = "refused"]
    /\ UNCHANGED <<jobs, clocks, units, table, files, plan, window, evidence, pc>>

-----------------------------------------------------------------------------
(* The job ends: it passed if the scenario, the cleanup and the audit did. *)
(* The next one is the next of the matrix or, when the workflow is run     *)
(* again, the first of those to be repeated; the machine may be no new one.*)
JobPassed == pc = "passed" /\ cleanup.step = "removed" /\ CompleteAbsence

NextJob ==
    /\ cleanup.step \in CleanupOver
    /\ job.number < MaxJobs
    /\ passed' = IF JobPassed THEN passed \cup {scenario} ELSE passed \ {scenario}
    /\ \E index \in DOMAIN Matrix, boot \in {job.boot, job.boot + 1} :
          /\ \/ index = job.index + 1 /\ job.attempt = 1
             \/ index > job.index /\ job.attempt > 1
             \/ job.index = Len(Matrix)
          /\ job.number - boot < MaxReuse
          /\ job' = [job EXCEPT !.number = @ + 1, !.index = index, !.boot = boot,
                                !.attempt = IF index > job.index THEN @ ELSE @ + 1]
    /\ \E left \in {"none"} \cup Dirty : Machine(left)
    /\ UNCHANGED <<uploads, aggregate>>

\* Plausible bug: reports of several attempts are put together.
OneMatrixOfRun(reports) ==
    /\ {r.scenario : r \in reports} = Scenarios
    /\ Cardinality(reports) = Len(Matrix)
    /\ Cardinality({r.boot : r \in reports}) = Len(Matrix)

(* buildHostedSmokeAggregateReport and its validation.                     *)
OneMatrix(reports) ==
    /\ {r.scenario : r \in reports} = Scenarios
    /\ Cardinality(reports) = Len(Matrix)
    /\ Cardinality({r.attempt : r \in reports}) = 1
    /\ Cardinality({r.boot : r \in reports}) = Len(Matrix)

(* The last job of the workflow, once every scenario has passed.           *)
Aggregate ==
    /\ aggregate = None
    /\ cleanup.step \in CleanupOver
    /\ job.index = Len(Matrix)
    /\ Scenarios \subseteq (IF JobPassed THEN passed \cup {scenario} ELSE passed \ {scenario})
    /\ \E reports \in SUBSET uploads :
          OneMatrix(reports) /\ aggregate' = reports
    /\ UNCHANGED <<job, foreign, uploads, passed, clocks, units, table, files, plan, window, evidence, pc, cleanup>>

Next ==
    \/ Collision \/ MakeRuntime \/ MakeMarker \/ Resolve \/ Render \/ InstallPolicy
    \/ Window \/ Submit \/ Submitted \/ AwaitActive
    \/ PreStart \/ Admit \/ MainStart \/ Activate \/ End \/ Ended
    \/ Tick \/ SetClock
    \/ \E i \in 1 .. 3 : Log(i)
    \/ StartProbe \/ Ready("ready_v4", "ready_v6", 1) \/ Ready("ready_v6", "ready_log", 2)
    \/ ReadyLog \/ Before \/ Probed \/ StartCanary \/ Fault \/ FaultSeen \/ Defer \/ After
    \/ StopCanary \/ StopGateway \/ AwaitGone \/ Offline \/ Idle
    \/ RemoveSealed \/ RemoveMarker \/ DeleteTable \/ Report
    \/ Fail \/ EmergencyCanary \/ EmergencyGateway \/ Kill \/ ProbeEnds
    \/ CleanupBegin \/ SettleCanary \/ SettleGateway \/ Settling \/ Settled
    \/ RemoveWorkspace \/ RemoveRuntime \/ Recheck \/ RemoveTable \/ CleanupReport \/ Refuse
    \/ NextJob \/ Aggregate

Spec == Init /\ [][Next]_vars

-----------------------------------------------------------------------------
(* Whatever the controller, the unit and the cleanup do and wherever they  *)
(* are killed: no process that could reach the network lives without the   *)
(* packet filter.                                                          *)
Contained ==
    foreign = "none" => ((gateway.st \in Running \/ probe \/ canary = "active") => table)

(* A gateway that waited in systemd's queue, started slowly, used its whole*)
(* life and was slow to stop is still gone before the DNS answer and the   *)
(* plan it was rendered from expire, by the monotonic clock, and by the    *)
(* wall clock unless that was set after the unit was admitted.             *)
GatewayWithinWindow ==
    gateway.st \in Running =>
        /\ now < window.admitted + window.expires - window.observed
        /\ skew = window.skew => Wall < window.expires

(* Neither the controller, its catch block nor the cleanup removes what    *)
(* they did not make.                                                      *)
ForeignSurvives ==
    /\ foreign = "table" => table
    /\ foreign = "unit" => canary = "active"
    /\ foreign = "runtime" => runtime = "bare"
    /\ foreign = "process" => probe

(* Nothing but the scenario's own connection moves the counters and the    *)
(* log while it is observed, so that a gateway which did as rendered is    *)
(* not failed for a late record of an earlier connection; and no report    *)
(* says that a connection went the right way which did not.                *)
ReportsAreTrue ==
    /\ pc = "after" /\ own # None =>
          /\ delta.access => own.route = "upstream"
          /\ own = Rendered(Specification(scenario)) /\ conns[3] \in {"none", "ended"} => Fits(scenario, delta)
    /\ \A r \in uploads :
          r.own # None => r.own.route = Rendered(Specification(r.scenario)).route

(* The aggregate has one report for each scenario, all of one attempt, of  *)
(* different machines.                                                     *)
AggregateIsSound ==
    aggregate # None =>
        /\ aggregate \subseteq uploads
        /\ \A s \in Scenarios : \E r \in aggregate : r.scenario = s
        /\ \A r, q \in aggregate :
              r.attempt = q.attempt /\ (r # q => r.boot # q.boot /\ r.scenario # q.scenario)
=============================================================================
