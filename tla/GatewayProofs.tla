---------------------------- MODULE GatewayProofs ----------------------------
(***************************************************************************)
(* The network gateway: proofs that its smoke test keeps whatever runs on  *)
(* the machine behind the packet filter, ends a gateway before its plan    *)
(* does, leaves alone what it did not make and reports what was observed;  *)
(* and that the two processes of the lifecycle preflight agree on what     *)
(* they report, although they share nothing but files.                     *)
(***************************************************************************)
EXTENDS HostedSmoke, LifecyclePreflight, FiniteSetTheorems, TLAPS

-----------------------------------------------------------------------------
(* The hosted smoke test.                                                  *)

(* Steps of the controller: before anything runs on the machine, while the *)
(* packet filter is installed, once everything has been stopped, before    *)
(* the scenario's own connection, and after its evidence was taken.        *)
Early == {"collision", "runtime", "marker", "resolve", "render", "policy", "window", "submit"}
Installed == {"window", "submit", "submitted", "await_active", "ready_v4", "ready_v6", "ready_log",
              "before", "act", "fault", "after", "stop_canary", "stop_gateway", "await_gone",
              "offline", "idle", "remove_runtime", "remove_marker", "delete_table"}
Swept == {"remove_runtime", "remove_marker", "delete_table", "report", "passed"}
Unconnected == Early \cup {"submitted", "await_active", "ready_v4", "ready_v6", "ready_log", "before",
                           "act", "fault"}
Judged == {"stop_canary", "stop_gateway", "await_gone", "offline"} \cup {"idle"} \cup (Swept \ {"passed"})
Quieted == {"remove_workspace", "remove_runtime", "recheck", "remove_table", "removed_table",
            "removed"}
Probing == Forwarding \cup Rejecting \cup Blocked

(* What somebody else left stops the controller at its first step and the  *)
(* cleanup before it changes anything.                                     *)
ForeignFound ==
    /\ foreign \in {"none"} \cup Dirty
    /\ foreign # "none" =>
          /\ pc \in {"collision", "failed"} /\ cleanup.step \in {"waiting", "refused"}
          /\ gateway.st = "absent" /\ runtime \in {"none", "bare"}
          /\ ForeignSurvives

(* Whatever lives, even an unloaded unit or one in the queue, is behind    *)
(* the packet filter.                                                      *)
Live == gateway.st # "absent" \/ probe \/ canary # "absent"
BehindFilter ==
    /\ cleanup.step # "waiting" => pc \in Over
    /\ foreign = "none" =>
          /\ Live => table
          /\ pc \in Early => ~Live
          /\ pc \in Installed => table
          /\ pc \in Swept => ~Live
          /\ cleanup.step \in Quieted => ~Live

(* The end of the plan, on the monotonic clock and on the wall clock of    *)
(* the admission.                                                          *)
Ends == {window.admitted + window.expires - window.observed, window.expires - window.skew}
WithinLimits ==
    /\ gateway.st \in {"prestart", "admitted"} => now <= gateway.since + Job
    /\ gateway.st = "mainstart" => now <= gateway.since + Activation
    /\ gateway.st = "active" => now <= gateway.since + window.life
    /\ gateway.st = "stopping" => now <= gateway.since + Stop
LeavesTime ==
    gateway.st \in {"admitted"} \cup Running => \A end \in Ends :
        /\ gateway.st = "admitted" => gateway.since + window.life + Job + Activation + Stop < end
        /\ gateway.st = "mainstart" => gateway.since + window.life + Activation + Stop < end
        /\ gateway.st = "active" => gateway.since + window.life + Stop < end
        /\ gateway.st = "stopping" => gateway.since + Stop < end
Times ==
    /\ now \in Nat /\ skew \in Int /\ gateway.since \in Nat /\ gateway.since <= now
    /\ DOMAIN gateway = {"st", "since"} /\ gateway.st \in {"absent"} \cup GatewayStates
    /\ pc \in {"render", "policy", "window"} => plan.created \in Int /\ plan.expires \in Int
    /\ pc = "submit" \/ gateway.st # "absent" =>
          /\ DOMAIN window = {"admitted", "observed", "expires", "life", "skew"}
          /\ window.admitted \in Nat /\ window.life \in Nat
          /\ window.observed \in Int /\ window.expires \in Int
    /\ gateway.st \in {"admitted"} \cup Running => window.skew \in Int
    /\ WithinLimits /\ LeavesTime

(* What the counters and the log have of the scenario's own connection,    *)
(* the only one that is still to be recorded.                              *)
OwnSeen ==
    LET spec == Specification(scenario)
        toGateway == own.route \in {"gateway", "upstream"}
        upstream == own.route = "upstream"
    IN  /\ scenario \in Probing /\ own \in Outcomes(spec) /\ Passes(spec, own)
        /\ delta.redirect <=> spec.dst # "listener" /\ toGateway
        /\ delta.loopback <=> toGateway
        /\ delta.upstream <=> upstream
        /\ delta.reject = own.rejected
        /\ delta.access <=> conns[3] \in {"connected", "ended"}
        /\ conns[3] # "none" <=> upstream
Observed ==
    /\ DOMAIN conns = 1 .. 3 /\ \A i \in 1 .. 3 : conns[i] \in {"none", "made", "connected", "ended"}
    /\ DOMAIN delta = {"redirect", "loopback", "upstream", "access", "reject"}
    /\ pc \in Unconnected => own = None /\ conns[3] = "none"
    /\ pc \in {"ready_log", "before"} => ~probe
    /\ pc \in {"before", "act", "fault", "after"} => conns[1] = "ended" /\ conns[2] = "ended"
    /\ pc \in {"act", "fault"} => delta = NoDelta
    /\ pc = "act" /\ probe => scenario \in Probing
    /\ pc = "after" /\ own # None => OwnSeen
    /\ pc \in Judged /\ own # None => own.route = Rendered(Specification(scenario)).route

(* Reports are true of their scenario, and the aggregate is one matrix.    *)
Uploaded ==
    /\ IsFiniteSet(uploads)
    /\ \A r \in uploads : r.own # None => r.own.route = Rendered(Specification(r.scenario)).route
    /\ DOMAIN job = {"matrix", "number", "index", "attempt", "boot"} /\ job.matrix \in Matrices
    /\ aggregate # None => aggregate \subseteq uploads /\ OneMatrix(aggregate)

HostedSmokeInv ==
    ForeignFound /\ BehindFilter /\ Times /\ Observed /\ Uploaded

(* The controller prepares the machine and starts the gateway.             *)
Preparing ==
    \/ Collision \/ MakeRuntime \/ MakeMarker \/ Resolve \/ Render \/ InstallPolicy \/ Window
    \/ Submit \/ Submitted \/ AwaitActive

(* systemd and the unit.                                                   *)
UnitSteps ==
    \/ PreStart \/ Admit \/ MainStart \/ Activate \/ End \/ Ended

(* Time passes, or is set.                                                 *)
ClockSteps ==
    \/ Tick \/ SetClock

(* The controller probes the gateway.                                      *)
Probes ==
    \/ StartProbe \/ Ready("ready_v4", "ready_v6", 1) \/ Ready("ready_v6", "ready_log", 2)
    \/ ReadyLog \/ Before \/ Probed \/ StartCanary \/ Fault \/ FaultSeen \/ Defer \/ After

(* It tears everything down and reports.                                   *)
TearDown ==
    \/ StopCanary \/ StopGateway \/ AwaitGone \/ Offline \/ Idle \/ RemoveSealed \/ RemoveMarker
    \/ DeleteTable \/ Report

(* It fails or is killed.                                                  *)
Breaks ==
    \/ Fail \/ EmergencyCanary \/ EmergencyGateway \/ Kill \/ ProbeEnds

(* The cleanup.                                                            *)
Cleaning ==
    \/ CleanupBegin \/ SettleCanary \/ SettleGateway \/ Settling \/ Settled \/ RemoveWorkspace
    \/ RemoveRuntime \/ Recheck \/ RemoveTable \/ CleanupReport \/ Refuse

(* Every step is one of these.                                            *)
LEMMA NextIsOneOf ==
    ASSUME Next
    PROVE  Preparing \/ UnitSteps \/ ClockSteps \/ Probes \/ TearDown \/ Breaks \/ Cleaning
           \/ (\E i \in 1 .. 3 : Log(i)) \/ NextJob \/ Aggregate
BY DEF Next, Preparing, UnitSteps, ClockSteps, Probes, TearDown, Breaks, Cleaning

(* What somebody else left stays as it was found.                          *)
LEMMA ForeignFoundStep ==
    ASSUME HostedSmokeInv, Next \/ UNCHANGED vars
    PROVE  ForeignFound'
<1> USE DEF jobs, clocks, units, files, evidence, vars, Go, HostedSmokeInv
<1> USE DEF ForeignFound, ForeignSurvives, Dirty, CompleteAbsence, UnitsGone, UidsIdle, Owned,
      Absent, Over, ProbeSteps, CleanupGo, Flagless, Emergency, Stopping, EndProbe, Unit
<1>1. CASE Preparing
  <2>1. CASE Collision BY <2>1 DEF Collision
  <2>2. CASE MakeRuntime BY <2>2 DEF MakeRuntime
  <2>3. CASE MakeMarker BY <2>3 DEF MakeMarker
  <2>4. CASE Resolve BY <2>4 DEF Resolve
  <2>5. CASE Render BY <2>5 DEF Render
  <2>6. CASE InstallPolicy BY <2>6 DEF InstallPolicy
  <2>7. CASE Window BY <2>7 DEF Window
  <2>8. CASE Submit BY <2>8 DEF Submit
  <2>9. CASE Submitted BY <2>9 DEF Submitted
  <2>10. CASE AwaitActive BY <2>10 DEF AwaitActive
  <2> QED BY <1>1, <2>1, <2>2, <2>3, <2>4, <2>5, <2>6, <2>7, <2>8, <2>9, <2>10 DEF Preparing
<1>2. CASE UnitSteps
  <2>1. CASE PreStart BY <2>1 DEF PreStart
  <2>2. CASE Admit BY <2>2 DEF Admit
  <2>3. CASE MainStart BY <2>3 DEF MainStart
  <2>4. CASE Activate BY <2>4 DEF Activate
  <2>5. CASE End BY <2>5 DEF End
  <2>6. CASE Ended BY <2>6 DEF Ended
  <2> QED BY <1>2, <2>1, <2>2, <2>3, <2>4, <2>5, <2>6 DEF UnitSteps
<1>3. CASE ClockSteps
  <2>1. CASE Tick BY <2>1 DEF Tick
  <2>2. CASE SetClock BY <2>2 DEF SetClock
  <2> QED BY <1>3, <2>1, <2>2 DEF ClockSteps
<1>4. CASE Probes
  <2>1. CASE StartProbe BY <2>1 DEF StartProbe
  <2>2. CASE Ready("ready_v4", "ready_v6", 1) BY <2>2 DEF Ready
  <2>3. CASE Ready("ready_v6", "ready_log", 2) BY <2>3 DEF Ready
  <2>4. CASE ReadyLog BY <2>4 DEF ReadyLog
  <2>5. CASE Before BY <2>5 DEF Before
  <2>6. CASE Probed BY <2>6 DEF Probed
  <2>7. CASE StartCanary BY <2>7 DEF StartCanary
  <2>8. CASE Fault BY <2>8 DEF Fault
  <2>9. CASE FaultSeen BY <2>9 DEF FaultSeen
  <2>10. CASE Defer BY <2>10 DEF Defer
  <2>11. CASE After BY <2>11 DEF After
  <2> QED BY <1>4, <2>1, <2>2, <2>3, <2>4, <2>5, <2>6, <2>7, <2>8, <2>9, <2>10, <2>11 DEF Probes
<1>5. CASE TearDown
  <2>1. CASE StopCanary BY <2>1 DEF StopCanary
  <2>2. CASE StopGateway BY <2>2 DEF StopGateway
  <2>3. CASE AwaitGone BY <2>3 DEF AwaitGone
  <2>4. CASE Offline BY <2>4 DEF Offline
  <2>5. CASE Idle BY <2>5 DEF Idle
  <2>6. CASE RemoveSealed BY <2>6 DEF RemoveSealed
  <2>7. CASE RemoveMarker BY <2>7 DEF RemoveMarker
  <2>8. CASE DeleteTable BY <2>8 DEF DeleteTable
  <2>9. CASE Report BY <2>9 DEF Report
  <2> QED BY <1>5, <2>1, <2>2, <2>3, <2>4, <2>5, <2>6, <2>7, <2>8, <2>9 DEF TearDown
<1>6. CASE Breaks
  <2>1. CASE Fail BY <2>1 DEF Fail
  <2>2. CASE EmergencyCanary BY <2>2 DEF EmergencyCanary
  <2>3. CASE EmergencyGateway BY <2>3 DEF EmergencyGateway
  <2>4. CASE Kill BY <2>4 DEF Kill
  <2>5. CASE ProbeEnds BY <2>5 DEF ProbeEnds
  <2> QED BY <1>6, <2>1, <2>2, <2>3, <2>4, <2>5 DEF Breaks
<1>7. CASE Cleaning
  <2>1. CASE CleanupBegin BY <2>1 DEF CleanupBegin
  <2>2. CASE SettleCanary BY <2>2 DEF SettleCanary
  <2>3. CASE SettleGateway BY <2>3 DEF SettleGateway
  <2>4. CASE Settling BY <2>4 DEF Settling
  <2>5. CASE Settled BY <2>5 DEF Settled
  <2>6. CASE RemoveWorkspace BY <2>6 DEF RemoveWorkspace
  <2>7. CASE RemoveRuntime BY <2>7 DEF RemoveRuntime
  <2>8. CASE Recheck BY <2>8 DEF Recheck
  <2>9. CASE RemoveTable BY <2>9 DEF RemoveTable
  <2>10. CASE CleanupReport BY <2>10 DEF CleanupReport
  <2>11. CASE Refuse BY <2>11 DEF Refuse
  <2> QED BY <1>7, <2>1, <2>2, <2>3, <2>4, <2>5, <2>6, <2>7, <2>8, <2>9, <2>10,
      <2>11 DEF Cleaning
<1>8. CASE NextJob
  <2>1. PICK left \in {"none"} \cup Dirty : Machine(left) BY <1>8 DEF NextJob
  <2> QED BY <2>1 DEF Machine, NoCleanup
<1>9. CASE \E i \in 1 .. 3 : Log(i) BY <1>9 DEF Log
<1>10. CASE Aggregate BY <1>10 DEF Aggregate
<1>11. CASE UNCHANGED vars BY <1>11
<1> HIDE DEF HostedSmokeInv, vars
<1> QED BY NextIsOneOf, <1>1, <1>2, <1>3, <1>4, <1>5, <1>6, <1>7, <1>8, <1>9, <1>10, <1>11

(* Nothing lives without the packet filter.                                *)
LEMMA BehindFilterStep ==
    ASSUME HostedSmokeInv, Next \/ UNCHANGED vars
    PROVE  BehindFilter'
<1> USE DEF jobs, clocks, units, files, evidence, vars, Go, HostedSmokeInv
<1> USE DEF BehindFilter, Live, CompleteAbsence, UnitsGone, UidsIdle, Quiescent, Owned, Absent,
      Early, Installed, Swept, Quieted, Over, CleanupOver, Flagless, ProbeSteps, CleanupGo,
      Emergency, Stopping, EndProbe, Unit
<1>1. CASE Preparing
  <2>1. CASE Collision BY <2>1 DEF Collision
  <2>2. CASE MakeRuntime BY <2>2 DEF MakeRuntime
  <2>3. CASE MakeMarker BY <2>3 DEF MakeMarker
  <2>4. CASE Resolve BY <2>4 DEF Resolve
  <2>5. CASE Render BY <2>5 DEF Render
  <2>6. CASE InstallPolicy BY <2>6 DEF InstallPolicy
  <2>7. CASE Window BY <2>7 DEF Window
  <2>8. CASE Submit BY <2>8 DEF Submit
  <2>9. CASE Submitted BY <2>9 DEF Submitted
  <2>10. CASE AwaitActive BY <2>10 DEF AwaitActive
  <2> QED BY <1>1, <2>1, <2>2, <2>3, <2>4, <2>5, <2>6, <2>7, <2>8, <2>9, <2>10 DEF Preparing
<1>2. CASE UnitSteps
  <2>1. CASE PreStart BY <2>1 DEF PreStart
  <2>2. CASE Admit BY <2>2 DEF Admit
  <2>3. CASE MainStart BY <2>3 DEF MainStart
  <2>4. CASE Activate BY <2>4 DEF Activate
  <2>5. CASE End BY <2>5 DEF End
  <2>6. CASE Ended BY <2>6 DEF Ended
  <2> QED BY <1>2, <2>1, <2>2, <2>3, <2>4, <2>5, <2>6 DEF UnitSteps
<1>3. CASE ClockSteps
  <2>1. CASE Tick BY <2>1 DEF Tick
  <2>2. CASE SetClock BY <2>2 DEF SetClock
  <2> QED BY <1>3, <2>1, <2>2 DEF ClockSteps
<1>4. CASE Probes
  <2>1. CASE StartProbe BY <2>1 DEF StartProbe
  <2>2. CASE Ready("ready_v4", "ready_v6", 1) BY <2>2 DEF Ready
  <2>3. CASE Ready("ready_v6", "ready_log", 2) BY <2>3 DEF Ready
  <2>4. CASE ReadyLog BY <2>4 DEF ReadyLog
  <2>5. CASE Before BY <2>5 DEF Before
  <2>6. CASE Probed BY <2>6 DEF Probed
  <2>7. CASE StartCanary BY <2>7 DEF StartCanary
  <2>8. CASE Fault BY <2>8 DEF Fault
  <2>9. CASE FaultSeen BY <2>9 DEF FaultSeen
  <2>10. CASE Defer BY <2>10 DEF Defer
  <2>11. CASE After BY <2>11 DEF After
  <2> QED BY <1>4, <2>1, <2>2, <2>3, <2>4, <2>5, <2>6, <2>7, <2>8, <2>9, <2>10, <2>11 DEF Probes
<1>5. CASE TearDown
  <2>1. CASE StopCanary BY <2>1 DEF StopCanary
  <2>2. CASE StopGateway BY <2>2 DEF StopGateway
  <2>3. CASE AwaitGone BY <2>3 DEF AwaitGone
  <2>4. CASE Offline BY <2>4 DEF Offline
  <2>5. CASE Idle BY <2>5 DEF Idle
  <2>6. CASE RemoveSealed BY <2>6 DEF RemoveSealed
  <2>7. CASE RemoveMarker BY <2>7 DEF RemoveMarker
  <2>8. CASE DeleteTable BY <2>8 DEF DeleteTable
  <2>9. CASE Report BY <2>9 DEF Report
  <2> QED BY <1>5, <2>1, <2>2, <2>3, <2>4, <2>5, <2>6, <2>7, <2>8, <2>9 DEF TearDown
<1>6. CASE Breaks
  <2>1. CASE Fail BY <2>1 DEF Fail
  <2>2. CASE EmergencyCanary BY <2>2 DEF EmergencyCanary
  <2>3. CASE EmergencyGateway BY <2>3 DEF EmergencyGateway
  <2>4. CASE Kill BY <2>4 DEF Kill
  <2>5. CASE ProbeEnds BY <2>5 DEF ProbeEnds
  <2> QED BY <1>6, <2>1, <2>2, <2>3, <2>4, <2>5 DEF Breaks
<1>7. CASE Cleaning
  <2>1. CASE CleanupBegin BY <2>1 DEF CleanupBegin
  <2>2. CASE SettleCanary BY <2>2 DEF SettleCanary
  <2>3. CASE SettleGateway BY <2>3 DEF SettleGateway
  <2>4. CASE Settling BY <2>4 DEF Settling
  <2>5. CASE Settled BY <2>5 DEF Settled
  <2>6. CASE RemoveWorkspace BY <2>6 DEF RemoveWorkspace
  <2>7. CASE RemoveRuntime BY <2>7 DEF RemoveRuntime
  <2>8. CASE Recheck BY <2>8 DEF Recheck
  <2>9. CASE RemoveTable BY <2>9 DEF RemoveTable
  <2>10. CASE CleanupReport BY <2>10 DEF CleanupReport
  <2>11. CASE Refuse BY <2>11 DEF Refuse
  <2> QED BY <1>7, <2>1, <2>2, <2>3, <2>4, <2>5, <2>6, <2>7, <2>8, <2>9, <2>10,
      <2>11 DEF Cleaning
<1>8. CASE NextJob
  <2>1. PICK left \in {"none"} \cup Dirty : Machine(left) BY <1>8 DEF NextJob
  <2> QED BY <2>1 DEF Machine, NoCleanup
<1>9. CASE \E i \in 1 .. 3 : Log(i) BY <1>9 DEF Log
<1>10. CASE Aggregate BY <1>10 DEF Aggregate
<1>11. CASE UNCHANGED vars BY <1>11
<1> HIDE DEF HostedSmokeInv, vars
<1> QED BY NextIsOneOf, <1>1, <1>2, <1>3, <1>4, <1>5, <1>6, <1>7, <1>8, <1>9, <1>10, <1>11

(* The durations are numbers.                                              *)
LEMMA Durations ==
    /\ PlanMax \in Nat /\ PlanMin \in Nat /\ Command \in Nat /\ Job \in Nat
    /\ Activation \in Nat /\ Stop \in Nat /\ Ttls \subseteq Nat /\ Jumps \subseteq Int
BY HostedSmokeAssumption

(* A step that leaves the clocks, the unit and its window alone.           *)
LEMMA TimesFrame ==
    ASSUME Times, UNCHANGED <<now, skew, gateway, window>>,
           pc' = "submit" => pc = "submit",
           pc' \in {"render", "policy", "window"} => plan'.created \in Int /\ plan'.expires \in Int
    PROVE  Times'
<1>1. WithinLimits' BY DEF Times, WithinLimits
<1>2. LeavesTime' BY DEF Times, LeavesTime, Ends
<1> QED BY <1>1, <1>2 DEF Times

(* The unit is unloaded, or told to stop.                                  *)
LEMMA TimesStopped ==
    ASSUME Times, UNCHANGED <<now, skew, window>>, gateway' \in {Absent, Stopping},
           pc' \in {"render", "policy", "window", "submit"} => pc' = pc /\ UNCHANGED plan
    PROVE  Times'
<1> USE DEF Times, Absent, Stopping, GatewayStates, Running
<1>1. /\ DOMAIN gateway' = {"st", "since"} /\ gateway'.since \in Nat /\ gateway'.since <= now
      /\ gateway'.st \in {"absent", "stopping"}
      /\ gateway'.st = "stopping" =>
            \/ gateway' = gateway /\ gateway.st = "stopping"
            \/ gateway'.since = now /\ gateway.st \in {"mainstart", "active"}
    OBVIOUS
<1>2. WithinLimits'
  <2>1. gateway'.since = now => now <= gateway'.since + Stop BY Durations
  <2> QED BY <1>1, <2>1 DEF WithinLimits
<1>3. LeavesTime'
  <2> SUFFICES ASSUME gateway'.st = "stopping", NEW end \in Ends
               PROVE  gateway'.since + Stop < end
      BY <1>1 DEF LeavesTime, Ends
  <2>1. end \in Int BY <1>1 DEF Ends
  <2>2. CASE gateway' = gateway /\ gateway.st = "stopping" BY <2>2 DEF LeavesTime
  <2>3. CASE gateway'.since = now /\ gateway.st = "mainstart"
    <3>1. gateway.since + window.life + Activation + Stop < end /\ now <= gateway.since + Activation
        BY <2>3 DEF LeavesTime, WithinLimits
    <3>2. now \in Nat /\ gateway.since \in Nat /\ window.life \in Nat BY <2>3
    <3> QED BY Durations, <2>3, <2>1, <3>1, <3>2
  <2>4. CASE gateway'.since = now /\ gateway.st = "active"
    <3>1. gateway.since + window.life + Stop < end /\ now <= gateway.since + window.life
        BY <2>4 DEF LeavesTime, WithinLimits
    <3>2. now \in Nat /\ gateway.since \in Nat /\ window.life \in Nat BY <2>4
    <3> QED BY Durations, <2>4, <2>1, <3>1, <3>2
  <2> QED BY <1>1, <2>2, <2>3, <2>4
<1> QED BY <1>1, <1>2, <1>3

(* The times that the controller, systemd and the unit go by.              *)
LEMMA TimesStep ==
    ASSUME HostedSmokeInv, Next \/ UNCHANGED vars
    PROVE  Times'
<1> USE DEF jobs, clocks, units, files, evidence, vars, Go, HostedSmokeInv
<1>0. Times OBVIOUS
<1>1. CASE Preparing
  <2>1. CASE Collision \/ MakeRuntime \/ MakeMarker \/ Submitted \/ AwaitActive
      BY <1>0, <2>1, TimesFrame DEF Collision, MakeRuntime, MakeMarker, Submitted, AwaitActive
  <2>2. CASE Resolve
    <3>1. PICK ttl \in Ttls : plan' = [created |-> Wall, expires |-> Wall + ttl] BY <2>2 DEF Resolve
    <3>2. plan'.created \in Int /\ plan'.expires \in Int
        BY Durations, <1>0, <3>1 DEF Times, Wall
    <3> QED BY <1>0, <2>2, <3>2, TimesFrame DEF Resolve
  <2>3. CASE Render
    <3>1. Wall \in Int /\ PlanExpiry \in Int
        BY Durations, <1>0, <2>3 DEF Render, Times, Wall, PlanExpiry
    <3>2. plan'.created \in Int /\ plan'.expires \in Int BY <2>3, <3>1 DEF Render
    <3> QED BY <1>0, <2>3, <3>2, TimesFrame DEF Render
  <2>4. CASE InstallPolicy
      BY <1>0, <2>4, TimesFrame DEF InstallPolicy, Times
  <2>5. CASE Window
    <3>1. gateway.st = "absent"
        BY <2>5 DEF Window, ForeignFound, BehindFilter, Early, Live
    <3>2. /\ window' = [admitted |-> now, observed |-> Wall, expires |-> plan.expires,
                        life |-> Lifetime, skew |-> None]
          /\ UNCHANGED <<now, skew, gateway>> /\ pc' = "submit" /\ pc = "window" /\ Lifetime >= 1
        BY <2>5 DEF Window, StartWindow
    <3>3. Wall \in Int /\ plan.expires \in Int /\ Lifetime \in Nat
        BY Durations, <1>0, <3>2 DEF Times, Wall, Lifetime, Reserve
    <3> QED BY <1>0, <3>1, <3>2, <3>3 DEF Times, WithinLimits, LeavesTime, Running
  <2>6. CASE Submit
    <3>1. /\ gateway' = [st |-> "queued", since |-> now] /\ UNCHANGED <<now, skew, window>>
          /\ pc = "submit" /\ pc' = "submitted"
        BY <2>6 DEF Submit
    <3> QED BY <1>0, <3>1 DEF Times, WithinLimits, LeavesTime, Running, GatewayStates
  <2> QED BY <1>1, <2>1, <2>2, <2>3, <2>4, <2>5, <2>6 DEF Preparing
<1>2. CASE UnitSteps
  <2>1. CASE Ended
    <3>1. UNCHANGED <<now, skew, window, pc, plan>> /\ gateway' = Absent BY <2>1 DEF Ended
    <3> QED BY <1>0, <3>1, TimesStopped
  <2>2. CASE Admit
    <3>1. CASE Guard
      <4>1. /\ gateway.st = "prestart" /\ gateway' = [gateway EXCEPT !.st = "admitted"]
            /\ window' = [window EXCEPT !.skew = skew] /\ UNCHANGED <<now, skew, pc, plan>>
          BY <2>2, <3>1 DEF Admit
      <4>2. /\ gateway'.st = "admitted" /\ gateway'.since = gateway.since /\ DOMAIN gateway' = DOMAIN gateway
            /\ window'.admitted = window.admitted /\ window'.observed = window.observed
            /\ window'.expires = window.expires /\ window'.life = window.life
            /\ window'.skew = skew /\ DOMAIN window' = DOMAIN window
          BY <1>0, <4>1 DEF Times
      <4>0. /\ now \in Nat /\ skew \in Int /\ gateway.since \in Nat /\ gateway.since <= now
            /\ window.admitted \in Nat /\ window.life \in Nat
            /\ window.observed \in Int /\ window.expires \in Int
          BY <1>0, <4>1 DEF Times
      <4>3. WithinLimits' BY <1>0, <4>1, <4>2 DEF Times, WithinLimits
      <4>4. LeavesTime'
        <5>1. /\ now + skew + (window.life + Job + Activation + Stop) < window.expires
              /\ now + (window.life + Job + Activation + Stop) < window.admitted + window.expires - window.observed
            BY Durations, <3>1, <4>0 DEF Guard, Wall, Reserve
        <5>2. \A end \in Ends' : gateway.since + window.life + Job + Activation + Stop < end
            BY Durations, <4>0, <4>2, <5>1 DEF Ends
        <5> QED BY <4>2, <5>2 DEF LeavesTime
      <4> QED BY <1>0, <4>1, <4>2, <4>3, <4>4 DEF Times, GatewayStates, Running
    <3>2. CASE ~Guard
      <4>1. /\ gateway' = Absent /\ window' = [window EXCEPT !.skew = skew] /\ UNCHANGED <<now, skew, pc, plan>>
            /\ gateway.st = "prestart"
          BY <2>2, <3>2 DEF Admit
      <4> QED BY <1>0, <4>1 DEF Times, Absent, WithinLimits, LeavesTime, Running
    <3> QED BY <3>1, <3>2
  <2>3. ASSUME NEW from, NEW to, Unit(from, to), UNCHANGED window,
               <<from, to>> \in {<<"queued", "prestart">>, <<"admitted", "mainstart">>, <<"mainstart", "active">>,
                                 <<"mainstart", "stopping">>, <<"active", "stopping">>}
        PROVE  Times'
    <3>1. /\ gateway.st = from /\ gateway' = [st |-> to, since |-> now]
          /\ UNCHANGED <<now, skew, window, pc, plan>>
        BY <2>3 DEF Unit
    <3>2. /\ now \in Nat /\ gateway'.st = to /\ gateway'.since = now
          /\ window'.life \in Nat /\ now' = now
        BY <1>0, <2>3, <3>1 DEF Times
    <3>4. WithinLimits' BY Durations, <3>2 DEF WithinLimits
    <3>3. LeavesTime'
      <4> SUFFICES ASSUME gateway'.st \in Running, NEW end \in Ends
                   PROVE  /\ to = "mainstart" => now + window.life + Activation + Stop < end
                          /\ to = "active" => now + window.life + Stop < end
                          /\ to = "stopping" => now + Stop < end
          BY <2>3, <3>1 DEF LeavesTime, Ends, Running
      <4>0. now \in Nat /\ gateway.since \in Nat /\ window.life \in Nat BY <1>0, <2>3, <3>1 DEF Times
      <4>1. end \in Int BY <1>0, <3>1 DEF Ends, Times, Running
      <4>2. CASE from = "admitted" /\ to = "mainstart"
        <5>1. gateway.since + window.life + Job + Activation + Stop < end /\ now <= gateway.since + Job
            BY <1>0, <3>1, <4>2 DEF LeavesTime, WithinLimits, Times, Running
        <5> QED BY Durations, <4>2, <4>0, <4>1, <5>1
      <4>3. CASE from = "mainstart" /\ to \in {"active", "stopping"}
        <5>1. gateway.since + window.life + Activation + Stop < end /\ now <= gateway.since + Activation
            BY <1>0, <3>1, <4>3 DEF LeavesTime, WithinLimits, Times, Running
        <5> QED BY Durations, <4>3, <4>0, <4>1, <5>1
      <4>4. CASE from = "active" /\ to = "stopping"
        <5>1. gateway.since + window.life + Stop < end /\ now <= gateway.since + window.life
            BY <1>0, <3>1, <4>4 DEF LeavesTime, WithinLimits, Times, Running
        <5> QED BY Durations, <4>4, <4>0, <4>1, <5>1
      <4>5. \/ from = "queued" /\ to = "prestart"
            \/ from = "admitted" /\ to = "mainstart"
            \/ from = "mainstart" /\ to \in {"active", "stopping"}
            \/ from = "active" /\ to = "stopping"
          BY <2>3
      <4> QED BY <4>2, <4>3, <4>4, <4>5
    <3> QED BY <1>0, <2>3, <3>1, <3>2, <3>3, <3>4 DEF Times, Running, GatewayStates
  <2> QED BY <1>2, <2>1, <2>2, <2>3 DEF UnitSteps, PreStart, MainStart, Activate, End
<1>3. CASE ClockSteps
  <2>1. CASE Tick
    <3>1. /\ now' = now + 1 /\ now - gateway.since < Limit
          /\ UNCHANGED <<skew, gateway, window, pc, plan>>
        BY <2>1 DEF Tick
    <3>2. WithinLimits'
      <4>1. /\ gateway.st \in {"prestart", "admitted"} => Limit = Job
            /\ gateway.st = "mainstart" => Limit = Activation
            /\ gateway.st = "active" => Limit = window.life
            /\ gateway.st = "stopping" => Limit = Stop
          BY DEF Limit
      <4>2. now \in Nat /\ gateway.since \in Nat /\ (gateway.st = "active" => window.life \in Nat)
          BY <1>0 DEF Times
      <4> QED BY Durations, <3>1, <4>1, <4>2 DEF WithinLimits
    <3>3. LeavesTime' BY <1>0, <3>1 DEF Times, LeavesTime, Ends
    <3> QED BY <1>0, <3>1, <3>2, <3>3 DEF Times
  <2>2. CASE SetClock
    <3>1. skew' \in Int /\ UNCHANGED <<now, gateway, window, pc, plan>>
        BY Durations, <2>2 DEF SetClock
    <3>2. WithinLimits' BY <1>0, <3>1 DEF Times, WithinLimits
    <3>3. LeavesTime' BY <1>0, <3>1 DEF Times, LeavesTime, Ends
    <3> QED BY <1>0, <3>1, <3>2, <3>3 DEF Times
  <2> QED BY <1>3, <2>1, <2>2 DEF ClockSteps
<1>4. CASE Probes
  <2>1. /\ UNCHANGED <<now, skew, gateway, window>>
        /\ pc' \notin {"render", "policy", "window", "submit"}
    <3>1. CASE StartProbe BY <3>1 DEF StartProbe, ProbeSteps
    <3>2. CASE Ready("ready_v4", "ready_v6", 1) \/ Ready("ready_v6", "ready_log", 2)
        BY <3>2 DEF Ready, EndProbe
    <3>3. CASE Probed BY <3>3 DEF Probed, EndProbe
    <3>4. CASE ReadyLog \/ Before \/ StartCanary \/ FaultSeen \/ Defer \/ After
        BY <3>4 DEF ReadyLog, Before, StartCanary, FaultSeen, Defer, After
    <3>5. CASE Fault BY <3>5 DEF Fault
    <3> QED BY <1>4, <3>1, <3>2, <3>3, <3>4, <3>5 DEF Probes
  <2> QED BY <1>0, <2>1, TimesFrame
<1>5. CASE TearDown
  <2>1. CASE StopGateway
    <3>1. UNCHANGED <<now, skew, window>> /\ gateway' = Stopping /\ pc' = "await_gone"
        BY <2>1 DEF StopGateway
    <3> QED BY <1>0, <3>1, TimesStopped
  <2> QED BY <1>0, <1>5, <2>1, TimesFrame DEF TearDown, StopCanary, AwaitGone, Offline, EndProbe, Idle,
         RemoveSealed, RemoveMarker, DeleteTable, Report
<1>6. CASE Breaks
  <2>1. CASE EmergencyGateway
    <3>1. UNCHANGED <<now, skew, window>> /\ gateway' \in {gateway, Stopping} /\ pc' = "failed"
        BY <2>1 DEF EmergencyGateway
    <3> QED BY <1>0, <3>1, TimesStopped, TimesFrame
  <2> QED BY <1>0, <1>6, <2>1, TimesFrame DEF Breaks, Fail, EmergencyCanary, Kill, ProbeEnds, Times
<1>7. CASE Cleaning
  <2>1. CASE SettleGateway
    <3>1. UNCHANGED <<now, skew, window, pc, plan>> /\ gateway' = Stopping BY <2>1 DEF SettleGateway
    <3> QED BY <1>0, <3>1, TimesStopped
  <2>2. ASSUME UNCHANGED <<now, skew, gateway, window, pc, plan>> PROVE Times'
      BY <1>0, <2>2, TimesFrame DEF Times
  <2> QED BY <1>7, <2>1, <2>2 DEF Cleaning, CleanupBegin, SettleCanary, Settling, Settled, RemoveWorkspace,
         RemoveRuntime, Recheck, RemoveTable, CleanupReport, Refuse
<1>8. CASE NextJob
  <2>1. PICK left \in {"none"} \cup Dirty : Machine(left) BY <1>8 DEF NextJob
  <2> QED BY <2>1 DEF Machine, Times, WithinLimits, LeavesTime, Running, Absent
<1>9. CASE (\E i \in 1 .. 3 : Log(i)) \/ Aggregate \/ UNCHANGED vars
  <2>1. UNCHANGED <<now, skew, gateway, window, pc, plan>> BY <1>9 DEF Log, Aggregate
  <2> QED BY <1>0, <2>1, TimesFrame DEF Times
<1> HIDE DEF HostedSmokeInv, vars
<1> QED BY NextIsOneOf, <1>1, <1>2, <1>3, <1>4, <1>5, <1>6, <1>7, <1>8, <1>9

(* What the rendered policy makes of each scenario's own connection.       *)
LEMMA RenderedRoutes ==
    ASSUME NEW name \in Probing
    PROVE  /\ Rendered(Specification(name)).route =
                 IF name \in Forwarding THEN "upstream" ELSE IF name \in Rejecting THEN "gateway" ELSE "none"
           /\ Rendered(Specification(name)).rejected =
                 IF name = "non_443" THEN "runner" ELSE IF name = "non_npm" THEN "gateway" ELSE None
           /\ Specification(name).dst = "listener" <=> name \in {"success"} \cup Rejecting
           /\ Specification(name).expected =
                 IF name \in Forwarding THEN "ping" ELSE IF name \in Blocked THEN "blocked"
                 ELSE IF name = "plaintext" THEN "plaintext" ELSE "denied"
<1>1. None # "npm" BY HostedSmokeAssumption
<1> QED BY <1>1 DEF Probing, Forwarding, Rejecting, Blocked, Rendered, Specification

(* A connection whose probe passed and whose evidence fits its scenario    *)
(* went the way the rendered policy sends it.                              *)
LEMMA FittingIsRendered ==
    ASSUME OwnSeen, Fits(scenario, delta)
    PROVE  own.route = Rendered(Specification(scenario)).route
<1> DEFINE spec == Specification(scenario)
<1>1. /\ scenario \in Probing /\ own \in Outcomes(spec) /\ Passes(spec, own)
      /\ delta.upstream <=> own.route = "upstream"
      /\ delta.access => own.route = "upstream"
    BY DEF OwnSeen
<1>2. /\ own.answered \in BOOLEAN
      /\ own.answered => own.route \in {"upstream", "direct"}
      /\ own.route \in {"none", "gateway", "upstream", "direct"}
      /\ own.route = "direct" => spec.dst # "listener"
    BY <1>1 DEF Outcomes
<1> HIDE DEF spec
<1>3. CASE scenario \in Forwarding
  <2>1. own.route = "upstream" BY <1>1, <1>3 DEF Fits
  <2> QED BY <1>1, <1>3, <2>1, RenderedRoutes
<1>4. CASE scenario \in Rejecting
  <2>1. own.route # "none"
      BY <1>1, <1>4, RenderedRoutes DEF spec, Passes, Rejecting, Forwarding, Blocked
  <2>2. own.route # "direct" BY <1>1, <1>2, <1>4, RenderedRoutes DEF spec
  <2>3. own.route # "upstream" BY <1>1, <1>4 DEF Fits
  <2> QED BY <1>1, <1>2, <1>4, <2>1, <2>2, <2>3, RenderedRoutes DEF Rejecting, Forwarding
<1>5. CASE scenario \in Blocked
  <2>1. own.route = "none"
      BY <1>1, <1>5, RenderedRoutes DEF spec, Passes, Forwarding, Blocked
  <2> QED BY <1>1, <1>5, <2>1, RenderedRoutes DEF Blocked, Rejecting, Forwarding
<1> QED BY <1>1, <1>3, <1>4, <1>5 DEF Probing

(* A step that leaves the evidence alone.                                  *)
LEMMA ObservedFrame ==
    ASSUME Observed, UNCHANGED <<job, conns, delta, own>>,
           pc' \in Unconnected => pc \in Unconnected,
           pc' \in {"ready_log", "before", "act", "fault", "after"} => pc' = pc /\ (probe' => probe),
           pc' \in Judged => pc \in Judged
    PROVE  Observed'
<1>1. scenario' = scenario BY DEF scenario, Matrix
<1>2. (pc' = "after" /\ own' # None => OwnSeen') BY <1>1 DEF Observed, OwnSeen
<1> QED BY <1>1, <1>2 DEF Observed

(* The controller breaks, or another machine is taken.                     *)
LEMMA ObservedCleared ==
    ASSUME conns' = NoConns, delta' = NoDelta, own' = None,
           pc' \in {"collision", "failed", "emergency_canary"}
    PROVE  Observed'
BY DEF Observed, NoConns, NoDelta, Judged, Swept, Unconnected, Early

(* What the counters and the log have of the scenario's own connection.    *)
LEMMA ObservedStep ==
    ASSUME HostedSmokeInv, Next \/ UNCHANGED vars
    PROVE  Observed'
<1> USE DEF jobs, clocks, units, files, evidence, vars, Go, HostedSmokeInv
<1>0. Observed OBVIOUS
<1>1. CASE Preparing
    BY <1>0, <1>1, ObservedFrame DEF Preparing, Collision, MakeRuntime, MakeMarker, Resolve, Render,
       InstallPolicy, Window, Submit, Submitted, AwaitActive, Unconnected, Early, Judged, Swept
<1>2. CASE UnitSteps \/ ClockSteps \/ Cleaning \/ Aggregate \/ UNCHANGED vars
  <2>1. UNCHANGED <<job, conns, delta, own, pc, probe>>
      BY <1>2 DEF UnitSteps, PreStart, Admit, MainStart, Activate, End, Unit, Ended, ClockSteps, Tick,
         SetClock, Cleaning, CleanupBegin, SettleCanary, SettleGateway, Settling, Settled,
         RemoveWorkspace, RemoveRuntime, Recheck, RemoveTable, CleanupReport, Refuse, Aggregate
  <2> QED BY <1>0, <2>1, ObservedFrame
<1>3. CASE TearDown
    BY <1>0, <1>3, ObservedFrame DEF TearDown, StopCanary, StopGateway, AwaitGone, Offline, EndProbe, Idle,
       RemoveSealed, RemoveMarker, DeleteTable, Report, Unconnected, Early, Judged, Swept
<1>4. CASE Breaks
  <2>1. CASE Fail \/ Kill BY <2>1, ObservedCleared DEF Fail, Kill
  <2>2. CASE EmergencyCanary \/ EmergencyGateway \/ ProbeEnds
      BY <1>0, <2>2, ObservedFrame DEF EmergencyCanary, EmergencyGateway, ProbeEnds, Over, Unconnected,
         Early, Judged, Swept
  <2> QED BY <1>4, <2>1, <2>2 DEF Breaks
<1>5. CASE NextJob
  <2>1. PICK left \in {"none"} \cup Dirty : Machine(left) BY <1>5 DEF NextJob
  <2> QED BY <2>1, ObservedCleared DEF Machine
<1>6. ASSUME NEW i \in 1 .. 3, Log(i) PROVE Observed'
  <2>1. /\ conns[i] \in {"made", "connected"} /\ conns'[i] \in {"connected", "ended"}
        /\ DOMAIN conns' = DOMAIN conns /\ \A j \in 1 .. 3 : j # i => conns'[j] = conns[j]
      BY <1>0, <1>6 DEF Log, Observed
  <2>2. /\ DOMAIN delta' = DOMAIN delta /\ delta'.redirect = delta.redirect /\ delta'.reject = delta.reject
        /\ delta'.loopback /\ delta'.upstream /\ delta'.access
      BY <1>0, <1>6 DEF Log, Observed
  <2>3. UNCHANGED <<own, pc, probe, job>> BY <1>6 DEF Log
  <2>4. scenario' = scenario BY <2>3 DEF scenario, Matrix
  <2>5. pc \in Unconnected => i # 3 BY <1>0, <2>1 DEF Observed
  <2>6. pc \in {"before", "act", "fault", "after"} => i = 3 BY <1>0, <2>1 DEF Observed
  <2>7. pc \notin {"before", "act", "fault"} BY <2>5, <2>6 DEF Unconnected
  <2>8. ASSUME pc = "after", own # None PROVE OwnSeen'
    <3>1. OwnSeen /\ i = 3 BY <1>0, <2>6, <2>8 DEF Observed
    <3> QED BY <2>1, <2>2, <2>3, <2>4, <3>1 DEF OwnSeen
  <2>9. pc' = "after" /\ own' # None => OwnSeen' BY <2>3, <2>8
  <2> QED BY <1>0, <2>1, <2>2, <2>3, <2>4, <2>5, <2>6, <2>7, <2>9 DEF Observed
<1>7. CASE Probes
  <2>1. CASE StartProbe
    <3>1. /\ UNCHANGED <<job, conns, delta, own, pc>> /\ pc \in ProbeSteps
          /\ pc = "act" => scenario \in Probing
        BY <2>1 DEF StartProbe, Probing
    <3>2. scenario' = scenario BY <3>1 DEF scenario, Matrix
    <3> QED BY <1>0, <3>1, <3>2 DEF Observed, ProbeSteps
  <2>2. CASE Ready("ready_v4", "ready_v6", 1)
    <3>1. /\ pc = "ready_v4" /\ pc' = "ready_v6" /\ conns' = [conns EXCEPT ![1] = "made"]
          /\ UNCHANGED <<delta, own>>
        BY <2>2 DEF Ready, EndProbe
    <3>2. own = None /\ conns[3] = "none" BY <1>0, <3>1 DEF Observed, Unconnected
    <3> QED BY <1>0, <3>1, <3>2 DEF Observed, Judged, Swept
  <2>3. CASE Ready("ready_v6", "ready_log", 2)
    <3>1. /\ pc = "ready_v6" /\ pc' = "ready_log" /\ conns' = [conns EXCEPT ![2] = "made"]
          /\ UNCHANGED <<delta, own>> /\ ~probe'
        BY <2>3 DEF Ready, EndProbe
    <3>2. own = None /\ conns[3] = "none" BY <1>0, <3>1 DEF Observed, Unconnected
    <3> QED BY <1>0, <3>1, <3>2 DEF Observed, Judged, Swept
  <2>4. CASE ReadyLog
    <3>1. /\ pc = "ready_log" /\ pc' = "before" /\ conns[1] = "ended" /\ conns[2] = "ended"
          /\ UNCHANGED <<conns, delta, own, probe>>
        BY <2>4 DEF ReadyLog
    <3>2. own = None /\ conns[3] = "none" BY <1>0, <3>1 DEF Observed, Unconnected
    <3> QED BY <1>0, <3>1, <3>2 DEF Observed, Judged, Swept
  <2>5. CASE Before
    <3>1. /\ pc = "before" /\ pc' = "act" /\ delta' = NoDelta /\ UNCHANGED <<conns, own, probe>>
        BY <2>5 DEF Before
    <3>2. own = None /\ conns[3] = "none" BY <1>0, <3>1 DEF Observed, Unconnected
    <3> QED BY <1>0, <3>1, <3>2 DEF Observed, Judged, Swept, NoDelta
  <2>6. CASE Probed
    <3> DEFINE spec == Specification(scenario)
    <3>1. PICK o \in Outcomes(spec) :
            /\ Passes(spec, o) /\ own' = o
            /\ conns' = IF o.route = "upstream" THEN [conns EXCEPT ![3] = "made"] ELSE conns
            /\ delta' = [delta EXCEPT !.redirect = spec.dst # "listener" /\ o.route \in {"gateway", "upstream"},
                                      !.loopback = @ \/ o.route \in {"gateway", "upstream"},
                                      !.upstream = @ \/ o.route = "upstream",
                                      !.reject = o.rejected]
        BY <2>6 DEF Probed
    <3>2. pc = "act" /\ probe /\ pc' = "after" /\ UNCHANGED job BY <2>6 DEF Probed, EndProbe
    <3>3. /\ scenario \in Probing /\ delta = NoDelta /\ conns[3] = "none"
          /\ conns[1] = "ended" /\ conns[2] = "ended"
        BY <1>0, <3>2 DEF Observed, Unconnected
    <3>4. scenario' = scenario BY <3>2 DEF scenario, Matrix
    <3> HIDE DEF spec
    <3>5. /\ DOMAIN delta' = {"redirect", "loopback", "upstream", "access", "reject"} /\ ~delta'.access
          /\ delta'.redirect <=> spec.dst # "listener" /\ o.route \in {"gateway", "upstream"}
          /\ delta'.loopback <=> o.route \in {"gateway", "upstream"}
          /\ delta'.upstream <=> o.route = "upstream"
          /\ delta'.reject = o.rejected
        BY <3>1, <3>3 DEF NoDelta
    <3>6. /\ DOMAIN conns' = 1 .. 3 /\ conns'[1] = "ended" /\ conns'[2] = "ended"
          /\ conns'[3] = IF o.route = "upstream" THEN "made" ELSE "none"
        BY <1>0, <3>1, <3>3 DEF Observed
    <3>7. OwnSeen' BY <3>1, <3>3, <3>4, <3>5, <3>6 DEF OwnSeen, spec
    <3> QED BY <3>2, <3>5, <3>6, <3>7 DEF Observed, Unconnected, Early, Judged, Swept
  <2>7. CASE StartCanary \/ Fault
    <3>1. /\ pc \in {"act", "fault"} /\ pc' = "fault" /\ UNCHANGED <<job, conns, delta, own, probe>>
        BY <2>7 DEF StartCanary, Fault
    <3> QED BY <1>0, <3>1 DEF Observed, Unconnected, Judged, Swept
  <2>8. CASE FaultSeen \/ Defer
    <3>1. /\ pc \in {"act", "fault"} /\ pc' = "after" /\ UNCHANGED <<conns, delta, own>>
        BY <2>8 DEF FaultSeen, Defer
    <3>2. own = None BY <1>0, <3>1 DEF Observed, Unconnected
    <3> QED BY <1>0, <3>1, <3>2 DEF Observed, Unconnected, Early, Judged, Swept
  <2>9. CASE After
    <3>1. /\ pc = "after" /\ pc' = "stop_canary" /\ Fits(scenario, delta)
          /\ conns' = NoConns /\ delta' = NoDelta /\ UNCHANGED <<own, job>>
        BY <2>9 DEF After
    <3>2. scenario' = scenario BY <3>1 DEF scenario, Matrix
    <3>3. own # None => own.route = Rendered(Specification(scenario)).route
        BY <1>0, <3>1, FittingIsRendered DEF Observed
    <3> QED BY <3>1, <3>2, <3>3
         DEF Observed, NoConns, NoDelta, Unconnected, Early, Judged
  <2> QED BY <1>7, <2>1, <2>2, <2>3, <2>4, <2>5, <2>6, <2>7, <2>8, <2>9 DEF Probes
<1> HIDE DEF HostedSmokeInv, vars
<1> QED BY NextIsOneOf, <1>1, <1>2, <1>3, <1>4, <1>5, <1>6, <1>7

(* A finite set has as many images as elements only under an injection.    *)
LEMMA ImagesDiffer ==
    ASSUME NEW S, IsFiniteSet(S), NEW f, NEW T, T = {f[x] : x \in S}, DOMAIN f = S,
           f = [x \in S |-> f[x]], Cardinality(T) = Cardinality(S)
    PROVE  \A x, y \in S : f[x] = f[y] => x = y
<1>1. f \in Surjection(S, T) BY DEF Surjection
<1>2. f \in Injection(S, T) BY <1>1, FS_Surjection
<1> QED BY <1>2 DEF Injection, IsInjective

(* A sequence is a function on the numbers up to its length.               *)
LEMMA SequenceDomain ==
    ASSUME NEW S, NEW m \in Seq(S)
    PROVE  Len(m) \in Nat /\ DOMAIN m = 1 .. Len(m)
OBVIOUS

(* The reports that an aggregate was made of differ where they have to.    *)
LEMMA OneMatrixIsSound ==
    ASSUME job.matrix \in Matrices, NEW reports, IsFiniteSet(reports), OneMatrix(reports)
    PROVE  /\ \A s \in Scenarios : \E r \in reports : r.scenario = s
           /\ \A r, q \in reports :
                 r.attempt = q.attempt /\ (r # q => r.boot # q.boot /\ r.scenario # q.scenario)
<1> DEFINE scen == [r \in reports |-> r.scenario]
           boot == [r \in reports |-> r.boot]
           att == [r \in reports |-> r.attempt]
<1>1. \A s \in Scenarios : \E r \in reports : r.scenario = s BY DEF OneMatrix
<1>2. ASSUME NEW r \in reports, NEW q \in reports PROVE r.attempt = q.attempt
  <2>1. att \in Surjection(reports, {x.attempt : x \in reports}) BY DEF Surjection
  <2>2. IsFiniteSet({x.attempt : x \in reports}) BY <2>1, FS_Surjection
  <2>3. PICK a : {x.attempt : x \in reports} = {a} BY <2>2, FS_Singleton DEF OneMatrix
  <2> QED BY <2>3
<1>3. ASSUME NEW r \in reports, NEW q \in reports, r.boot = q.boot PROVE r = q
  <2>1. {boot[x] : x \in reports} = {x.boot : x \in reports} OBVIOUS
  <2>2. boot[r] = boot[q] BY <1>3
  <2> HIDE DEF boot
  <2>3. DOMAIN boot = reports /\ boot = [x \in reports |-> boot[x]] BY DEF boot
  <2>4. Cardinality({boot[x] : x \in reports}) = Cardinality(reports) BY <2>1 DEF OneMatrix
  <2> QED BY <2>2, <2>3, <2>4, ImagesDiffer
<1>4. Cardinality(Scenarios) = Len(Matrix)
  <2> DEFINE kinds == Forwarding \cup Rejecting \cup Blocked \cup Faults \cup Deferred
             n == Len(Matrix)
             at == [i \in DOMAIN Matrix |-> Matrix[i]]
  <2>1. Matrix \in Seq(kinds)
      BY HostedSmokeAssumption DEF Matrix
  <2>2. \A i, j \in DOMAIN Matrix : Matrix[i] = Matrix[j] => i = j
      BY HostedSmokeAssumption DEF Matrix
  <2> HIDE DEF kinds
  <2>3. n \in Nat /\ DOMAIN Matrix = 1 .. n BY <2>1, SequenceDomain
  <2> HIDE DEF n
  <2>4. IsFiniteSet(1 .. n) /\ Cardinality(1 .. n) = IF 1 > n THEN 0 ELSE n - 1 + 1
      BY <2>3, FS_Interval
  <2>5. Cardinality(1 .. n) = n BY <2>3, <2>4
  <2>6. at \in Surjection(DOMAIN Matrix, Scenarios) BY DEF Surjection, Scenarios
  <2>7. at \in Injection(DOMAIN Matrix, Scenarios)
      BY <2>2, <2>6 DEF Injection, IsInjective, Surjection
  <2> QED BY <2>3, <2>4, <2>5, <2>6, <2>7, FS_Surjection DEF n
<1>5. ASSUME NEW r \in reports, NEW q \in reports, r.scenario = q.scenario PROVE r = q
  <2>1. {scen[x] : x \in reports} = {x.scenario : x \in reports} OBVIOUS
  <2>2. scen[r] = scen[q] BY <1>5
  <2> HIDE DEF scen
  <2>3. DOMAIN scen = reports /\ scen = [x \in reports |-> scen[x]] BY DEF scen
  <2>4. Cardinality({scen[x] : x \in reports}) = Cardinality(reports) BY <1>4, <2>1 DEF OneMatrix
  <2> QED BY <2>2, <2>3, <2>4, ImagesDiffer
<1> QED BY <1>1, <1>2, <1>3, <1>5

(* Uploads only grow, and an aggregate is made of them once.               *)
LEMMA UploadedStep ==
    ASSUME HostedSmokeInv, Next \/ UNCHANGED vars
    PROVE  Uploaded'
<1> USE DEF jobs, clocks, units, files, evidence, vars, Go, HostedSmokeInv
<1>0. Uploaded OBVIOUS
<1>1. ASSUME job'.matrix = job.matrix, DOMAIN job' = DOMAIN job, UNCHANGED aggregate,
             IsFiniteSet(uploads'), uploads \subseteq uploads',
             \A r \in uploads' \ uploads :
                r.own # None => r.own.route = Rendered(Specification(r.scenario)).route
      PROVE  Uploaded'
  <2>1. OneMatrix(aggregate) => OneMatrix(aggregate)'
      BY <1>1 DEF OneMatrix, Scenarios, Matrix
  <2> QED BY <1>0, <1>1, <2>1 DEF Uploaded
<1>2. ASSUME UNCHANGED <<job, uploads, aggregate>> PROVE Uploaded'
  <2> QED BY <1>0, <1>1, <1>2 DEF Uploaded
<1>3. CASE Report
  <2>1. pc = "report" /\ UNCHANGED <<job, aggregate>> BY <1>3 DEF Report
  <2> DEFINE new == [scenario |-> scenario, attempt |-> job.attempt, boot |-> job.boot, own |-> own]
  <2>2. uploads' = uploads \cup {new} BY <1>3 DEF Report
  <2>3. new.own # None => new.own.route = Rendered(Specification(new.scenario)).route
      BY <2>1 DEF Observed, Judged, Swept
  <2> HIDE DEF new
  <2>4. IsFiniteSet(uploads') BY <1>0, <2>2, FS_AddElement DEF Uploaded
  <2> QED BY <1>1, <2>1, <2>2, <2>3, <2>4
<1>4. CASE NextJob
  <2>1. UNCHANGED <<uploads, aggregate>> BY <1>4 DEF NextJob
  <2>2. job'.matrix = job.matrix /\ DOMAIN job' = DOMAIN job BY <1>0, <1>4 DEF NextJob, Uploaded
  <2> QED BY <1>0, <1>1, <2>1, <2>2 DEF Uploaded
<1>5. CASE Aggregate
  <2>1. UNCHANGED <<job, uploads>> BY <1>5 DEF Aggregate
  <2>2. PICK reports \in SUBSET uploads : OneMatrix(reports) /\ aggregate' = reports
      BY <1>5 DEF Aggregate
  <2>3. OneMatrix(aggregate)' BY <2>1, <2>2 DEF OneMatrix, Scenarios, Matrix
  <2> QED BY <1>0, <2>1, <2>2, <2>3 DEF Uploaded
<1>6. CASE Preparing \/ UnitSteps \/ ClockSteps
    BY <1>2, <1>6 DEF Preparing, Collision, MakeRuntime, MakeMarker, Resolve, Render, InstallPolicy, Window,
       Submit, Submitted, AwaitActive, UnitSteps, PreStart, Admit, MainStart, Activate, End, Unit, Ended,
       ClockSteps, Tick, SetClock
<1>7. CASE Probes
    BY <1>2, <1>7 DEF Probes, EndProbe, Ready, StartProbe, ReadyLog, Before, Probed, StartCanary, Fault,
       FaultSeen, Defer, After
<1>8. CASE TearDown
    BY <1>2, <1>3, <1>8 DEF TearDown, StopCanary, StopGateway, AwaitGone, Offline, EndProbe, Idle,
       RemoveSealed, RemoveMarker, DeleteTable
<1>9. CASE Breaks \/ Cleaning
    BY <1>2, <1>9 DEF Breaks, Fail, EmergencyCanary, EmergencyGateway, Kill, ProbeEnds, Cleaning,
       CleanupBegin, SettleCanary, SettleGateway, Settling, Settled, RemoveWorkspace, RemoveRuntime,
       Recheck, RemoveTable, CleanupReport, Refuse
<1>10. CASE (\E i \in 1 .. 3 : Log(i)) \/ UNCHANGED vars BY <1>2, <1>10 DEF Log
<1> HIDE DEF HostedSmokeInv, vars
<1> QED BY NextIsOneOf, <1>4, <1>5, <1>6, <1>7, <1>8, <1>9, <1>10

(* The invariant holds of a fresh machine.                                 *)
LEMMA HostedSmokeStarts == Init => HostedSmokeInv
<1> SUFFICES ASSUME Init PROVE HostedSmokeInv
    OBVIOUS
<1> USE DEF Init, Absent, NoConns, NoDelta, NoCleanup
<1>1. ForeignFound BY DEF ForeignFound, ForeignSurvives, Dirty
<1>2. BehindFilter BY DEF BehindFilter, Live, Installed, Swept, Quieted
<1>3. Times BY DEF Times, WithinLimits, LeavesTime, Running
<1>4. Observed BY DEF Observed, Judged, Swept
<1>5. Uploaded BY FS_EmptySet DEF Uploaded
<1> QED BY <1>1, <1>2, <1>3, <1>4, <1>5 DEF HostedSmokeInv

(* What holds throughout a workflow of hosted-lifecycle-smoke.mjs: its     *)
(* inductive invariant.                                                    *)
THEOREM HostedSmokeInvariant == Spec => []HostedSmokeInv
<1>1. Init => HostedSmokeInv BY HostedSmokeStarts
<1>2. HostedSmokeInv /\ [Next]_vars => HostedSmokeInv'
    BY ForeignFoundStep, BehindFilterStep, TimesStep, ObservedStep, UploadedStep DEF HostedSmokeInv
<1> QED BY <1>1, <1>2, PTL DEF Spec

(* No process that could reach the network lives without the packet        *)
(* filter: the controller installs the table first and deletes it last,    *)
(* and the cleanup keeps it as long as a unit or a process may be left.    *)
THEOREM AlwaysContained == Spec => []Contained
<1>1. HostedSmokeInv => Contained
    BY DEF HostedSmokeInv, BehindFilter, Live, Contained, Running
<1> QED BY <1>1, HostedSmokeInvariant, PTL

(* A running gateway ends before the plan it was rendered from, because    *)
(* the life it is given at admission leaves room for the slowest queueing, *)
(* start and stop that systemd's time limits allow.                        *)
THEOREM GatewayAlwaysWithinWindow == Spec => []GatewayWithinWindow
<1>1. HostedSmokeInv => GatewayWithinWindow
  <2> SUFFICES ASSUME HostedSmokeInv, gateway.st \in Running
               PROVE  /\ now < window.admitted + window.expires - window.observed
                      /\ skew = window.skew => now + skew < window.expires
      BY DEF GatewayWithinWindow, Wall
  <2>1. Times BY DEF HostedSmokeInv
  <2>2. \A end \in Ends : end \in Int => now < end
    <3> SUFFICES ASSUME NEW end \in Ends, end \in Int PROVE now < end
        OBVIOUS
    <3>1. now \in Nat /\ gateway.since \in Nat /\ window.life \in Nat BY <2>1 DEF Times, Running
    <3>2. CASE gateway.st = "mainstart"
      <4>1. now <= gateway.since + Activation /\ gateway.since + window.life + Activation + Stop < end
          BY <2>1, <3>2 DEF Times, WithinLimits, LeavesTime, Running
      <4> QED BY <3>1, <4>1, Durations
    <3>3. CASE gateway.st = "active"
      <4>1. now <= gateway.since + window.life /\ gateway.since + window.life + Stop < end
          BY <2>1, <3>3 DEF Times, WithinLimits, LeavesTime, Running
      <4> QED BY <3>1, <4>1, Durations
    <3>4. CASE gateway.st = "stopping"
      <4>1. now <= gateway.since + Stop /\ gateway.since + Stop < end
          BY <2>1, <3>4 DEF Times, WithinLimits, LeavesTime, Running
      <4> QED BY <3>1, <4>1, Durations
    <3> QED BY <3>2, <3>3, <3>4 DEF Running
  <2>3. /\ now \in Nat /\ skew \in Int /\ window.admitted \in Nat /\ window.observed \in Int
        /\ window.expires \in Int /\ window.skew \in Int
      BY <2>1 DEF Times, Running
  <2>4. /\ now < window.admitted + window.expires - window.observed
        /\ now < window.expires - window.skew
      BY <2>2, <2>3 DEF Ends
  <2> QED BY <2>3, <2>4
<1> QED BY <1>1, HostedSmokeInvariant, PTL

(* Nobody removes what he did not make: the controller stops at the first  *)
(* collision, and the cleanup refuses before it has changed anything.      *)
THEOREM ForeignAlwaysSurvives == Spec => []ForeignSurvives
<1>1. HostedSmokeInv => ForeignSurvives
    BY DEF HostedSmokeInv, ForeignFound, ForeignSurvives
<1> QED BY <1>1, HostedSmokeInvariant, PTL

(* A right connection is not failed for another's records, because the     *)
(* controller waits for the records of the readiness probes before its own *)
(* connection; and no report says that a connection went the right way     *)
(* which did not.                                                          *)
THEOREM ReportsAreAlwaysTrue == Spec => []ReportsAreTrue
<1>1. ASSUME HostedSmokeInv, pc = "after", own # None
      PROVE  /\ delta.access => own.route = "upstream"
             /\ own = Rendered(Specification(scenario)) /\ conns[3] \in {"none", "ended"}
                   => Fits(scenario, delta)
  <2>1. OwnSeen BY <1>1 DEF HostedSmokeInv, Observed
  <2>2. /\ scenario \in Probing
        /\ delta.access => own.route = "upstream"
        /\ delta.redirect <=> Specification(scenario).dst # "listener" /\ own.route \in {"gateway", "upstream"}
        /\ delta.loopback <=> own.route \in {"gateway", "upstream"}
        /\ delta.upstream <=> own.route = "upstream"
        /\ delta.reject = own.rejected
        /\ conns[3] = "ended" => delta.access
        /\ conns[3] # "none" <=> own.route = "upstream"
      BY <2>1 DEF OwnSeen
  <2>3. ASSUME own = Rendered(Specification(scenario)), conns[3] \in {"none", "ended"}
        PROVE  Fits(scenario, delta)
    <3>1. /\ own.route = IF scenario \in Forwarding THEN "upstream"
                         ELSE IF scenario \in Rejecting THEN "gateway" ELSE "none"
          /\ own.rejected = IF scenario = "non_443" THEN "runner" ELSE IF scenario = "non_npm" THEN "gateway" ELSE None
          /\ Specification(scenario).dst = "listener" <=> scenario \in {"success"} \cup Rejecting
        BY <2>2, <2>3, RenderedRoutes
    <3>2. None # "gateway" BY HostedSmokeAssumption
    <3> QED BY <2>2, <2>3, <3>1, <3>2 DEF Fits, Forwarding, Rejecting
  <2> QED BY <2>2, <2>3
<1>2. HostedSmokeInv => ReportsAreTrue
    BY <1>1 DEF HostedSmokeInv, Uploaded, ReportsAreTrue
<1> QED BY <1>2, HostedSmokeInvariant, PTL

(* The aggregate job passes only with one report for each scenario of its  *)
(* matrix, all of one attempt and of different machines.                   *)
THEOREM AggregateIsAlwaysSound == Spec => []AggregateIsSound
<1>1. HostedSmokeInv => AggregateIsSound
  <2> SUFFICES ASSUME HostedSmokeInv, aggregate # None
               PROVE  /\ aggregate \subseteq uploads
                      /\ \A s \in Scenarios : \E r \in aggregate : r.scenario = s
                      /\ \A r, q \in aggregate :
                            r.attempt = q.attempt /\ (r # q => r.boot # q.boot /\ r.scenario # q.scenario)
      BY DEF AggregateIsSound
  <2>1. /\ aggregate \subseteq uploads /\ IsFiniteSet(uploads) /\ OneMatrix(aggregate)
        /\ job.matrix \in Matrices
      BY DEF HostedSmokeInv, Uploaded
  <2>2. IsFiniteSet(aggregate) BY <2>1, FS_Subset
  <2> QED BY <2>1, <2>2, OneMatrixIsSound
<1> QED BY <1>1, HostedSmokeInvariant, PTL

-----------------------------------------------------------------------------
(* The lifecycle preflight and its observer.                               *)

(* Steps of the two processes: the observer once it has announced itself,  *)
(* while its second event is still to be written, and after; the preflight *)
(* once it has made the directory, and once both files are in it.          *)
Announced == {"render", "wait", "validate", "before", "envoy", "nft", "after", "look", "tables2",
              "uids2", "finish"}
Closing == {"create report", "report", "done"}
Answered == {"validate", "before", "envoy", "nft", "after", "look", "tables2", "uids2", "finish",
             "create report", "report", "done"}
PinnedSince == {"before", "envoy", "nft", "after", "look", "tables2", "uids2", "finish",
                "create report", "report", "done"}
ComparedSince == {"look", "tables2", "uids2", "finish", "create report", "report", "done"}
Made == {"config envoy", "config nft", "verify envoy", "run envoy", "ran envoy", "verify nft",
         "run nft", "ran nft", "create result", "result", "done"}
Written == {"verify envoy", "run envoy", "ran envoy", "verify nft", "run nft", "ran nft",
            "create result", "result", "done"}

(* Records keep their fields, a process past its reads has read them all.  *)
LifecycleShape ==
    /\ DOMAIN obs = {"pc", "in", "until", "last", "start", "ordered", "got"}
    /\ DOMAIN pre = {"pc", "in", "until", "last", "start", "ev"}
    /\ DOMAIN events = {"st", "in", "at"}
    /\ DOMAIN root = {"made", "in", "planned", "text"} /\ root.text \in [Configs -> 0 .. 4]
    /\ doc \in [Docs -> 1 .. 3] /\ obs.in \in [Docs -> 0 .. 3] /\ pre.in \in [Docs -> 0 .. 3]
    /\ clock \in Nat /\ obs.start \in Nat /\ events.at \in Nat
    /\ pre.last \in Nat /\ pre.ev.at \in Nat
    /\ obs.pc \notin {"idle", "failed", "read"} => AllRead(obs.in)
    /\ pre.pc \notin {"idle", "failed", "read"} => AllRead(pre.in)

(* The event file and the report are those of the observer that wrote them.*)
ObserverOwns ==
    /\ obs.pc = "announce" => events.st = "empty"
    /\ obs.pc \in Announced => events = [st |-> "one", in |-> obs.in, at |-> obs.start]
    /\ obs.pc \in Closing => events = [st |-> "two", in |-> obs.in, at |-> obs.start]
    /\ report.st = "whole" => obs.pc = "done" /\ report.in = obs.in

(* The observer rendered its own documents, and goes on only with a whole  *)
(* result that repeats them.                                               *)
ObserverBound ==
    /\ obs.pc \in {"wait"} \cup Answered =>
          PlanBound(obs.in) /\ ManifestBound(obs.in) /\ ContractBound(obs.in)
    /\ obs.pc \in Answered =>
          obs.got = result /\ result.st = "whole" /\ SameInputs(result.in, obs.in)

(* The directory and the result are those of the preflight that made them. *)
PreflightOwns ==
    /\ pre.pc \in {"mkdir"} \cup Made => PlanBound(pre.in)
    /\ pre.pc \in Made => root.made /\ root.in = pre.in
    /\ result.st = "whole" => pre.pc = "done" /\ result.in = pre.in
    /\ pre.pc = "config nft" => root.text["envoy"] # NoConfig
    /\ pre.pc \in Written => \A c \in Configs : root.text[c] # NoConfig

(* A text that was checked is still there, or was overwritten for good; a  *)
(* program that was not the pinned one is so no more.                      *)
ChecksStand ==
    /\ ~root.made => ran = {}
    /\ \A u \in ran :
          /\ u.tool \in Configs /\ u.by \in {"obs", "pre"}
          /\ u.text # NoConfig /\ root.text[u.tool] \in {u.text, Foreign}
          /\ u.by = "pre" /\ ~u.pinned => u.tool \notin intact
          /\ obs.pc \in PinnedSince /\ u.by = "pre" => u.pinned
          /\ obs.pc \in ComparedSince => u.text = obs.in["contract"]
RanBy(by, c) == \E u \in ran : u.by = by /\ u.tool = c
ChecksMade ==
    /\ pre.pc \in Written \ {"verify envoy", "run envoy"} => RanBy("pre", "envoy")
    /\ pre.pc \in {"ran nft", "create result", "result", "done"} => RanBy("pre", "nft")
    /\ obs.pc \in PinnedSince \ {"before", "envoy"} => RanBy("obs", "envoy")
    /\ obs.pc \in PinnedSince \ {"before", "envoy", "nft"} => RanBy("obs", "nft")

(* The preflight goes on with the event that is in the file.               *)
EventSeen ==
    /\ pre.pc \in {"render", "mkdir"} =>
          events.st \in {"one", "two"} /\ pre.ev.in = events.in /\ pre.ev.at = events.at
    /\ pre.pc = "mkdir" =>
          /\ SameInputs(pre.ev.in, pre.in) /\ InPlan(pre.ev.at)
          /\ pre.ev.at <= pre.last /\ pre.last - pre.ev.at <= MaxEventAge

LifecycleInv ==
    /\ LifecycleShape /\ ObserverOwns /\ ObserverBound /\ PreflightOwns
    /\ ChecksStand /\ ChecksMade /\ EventSeen /\ ObserverFirst

USE LifecycleAssumption
USE DEF Announced, Closing, Answered, PinnedSince, ComparedSince, Made, Written

(* Reading the next document fills in one version.                         *)
LEMMA WithNextTyped ==
    ASSUME doc \in [Docs -> 1 .. 3], NEW in \in [Docs -> 0 .. 3]
    PROVE  WithNext(in) \in [Docs -> 0 .. 3]
<1>1. \A d \in Docs : in[d] \in 0 .. 3 /\ doc[d] \in 0 .. 3
    OBVIOUS
<1> QED BY <1>1 DEF WithNext

(* Behind a whole result both files were written.                          *)
LEMMA BothWritten ==
    ASSUME LifecycleInv, NEW c \in Configs, result.st = "whole" \/ pre.pc \in Written
    PROVE  root.made /\ root.text[c] # NoConfig
<1>1. root.made BY DEF LifecycleInv, PreflightOwns
<1>2. root.text[c] # NoConfig BY DEF LifecycleInv, PreflightOwns
<1> QED BY <1>1, <1>2

(* The contract that a process has read has a version.                     *)
LEMMA ContractRead ==
    ASSUME NEW in \in [Docs -> 0 .. 3], AllRead(in)
    PROVE  in["contract"] \in 1 .. 3
<1>1. "contract" \in Docs BY DEF Docs
<1>2. in["contract"] # 0 BY <1>1 DEF AllRead
<1>3. in["contract"] \in 0 .. 3 BY <1>1
<1> QED BY <1>2, <1>3

(* A native check is recorded, with what it ran and read.                  *)
NewCheck(by, c) ==
    /\ ran \subseteq ran' /\ \E u \in ran' : u.by = by /\ u.tool = c
    /\ \A u \in ran' : \/ u \in ran
                       \/ /\ u.by = by /\ u.tool = c /\ u.text = root.text[c]
                          /\ u.pinned <=> c \in intact
LEMMA Recorded ==
    ASSUME NEW by, NEW c, Check(by, c)
    PROVE  NewCheck(by, c)
<1> DEFINE new == [by |-> by, tool |-> c, pinned |-> c \in intact, text |-> root.text[c]]
<1>1. ran' = ran \cup {new} BY DEF Check
<1>2. /\ new.by = by /\ new.tool = c /\ new.text = root.text[c]
      /\ new.pinned <=> c \in intact
    OBVIOUS
<1> HIDE DEF new
<1> QED BY <1>1, <1>2 DEF NewCheck

(* What the steps of others, of the clock and of systemd have in common.   *)
LEMMA OthersKeep ==
    ASSUME LifecycleInv, intact' \subseteq intact, doc' \in [Docs -> 1 .. 3], clock' \in Nat,
           UNCHANGED <<obs, pre>>, UNCHANGED <<jobFiles, ran>>
    PROVE  LifecycleInv'
<1>1. UNCHANGED <<events, root, result, report, obs, pre, ran>>
    BY DEF jobFiles
<1>2. LifecycleShape' BY <1>1 DEF LifecycleInv, LifecycleShape
<1>3. ObserverOwns' BY <1>1 DEF LifecycleInv, ObserverOwns
<1>4. ObserverBound' BY <1>1 DEF LifecycleInv, ObserverBound
<1>5. PreflightOwns' BY <1>1 DEF LifecycleInv, PreflightOwns
<1>6. ChecksStand' BY <1>1 DEF LifecycleInv, ChecksStand
<1>7. ChecksMade' BY DEF LifecycleInv, ChecksMade, RanBy
<1>8. EventSeen' BY <1>1 DEF LifecycleInv, EventSeen
<1>9. ObserverFirst' BY <1>1 DEF LifecycleInv, ObserverFirst
<1> QED BY <1>2, <1>3, <1>4, <1>5, <1>6, <1>7, <1>8, <1>9 DEF LifecycleInv

(* A rendered file is overwritten, and no version renders to what it holds. *)
LEMMA OverwriteConfigInv ==
    ASSUME LifecycleInv, NEW c \in Configs, OverwriteConfig(c)
    PROVE  LifecycleInv'
<1>1. /\ UNCHANGED <<doc, intact, clock, events, result, report, obs, pre, ran>>
      /\ root.text[c] \in 1 .. 3
      /\ root' = [root EXCEPT !.text[c] = Foreign]
    BY DEF OverwriteConfig
<1>2. /\ root'.made = root.made /\ root'.in = root.in /\ root'.planned = root.planned
      /\ DOMAIN root' = DOMAIN root
      /\ root'.text = [root.text EXCEPT ![c] = Foreign]
    BY <1>1
<1>3. /\ \A k \in Configs : root'.text[k] = IF k = c THEN Foreign ELSE root.text[k]
    BY <1>2 DEF LifecycleInv, LifecycleShape
<1>4. \A k \in Configs : root.text[k] # NoConfig => root'.text[k] # NoConfig
    BY <1>3 DEF Foreign, NoConfig
<1>5. \A k \in Configs : root'.text[k] = root.text[k] \/ root'.text[k] = Foreign
    BY <1>3
<1>6. LifecycleShape' BY <1>1 DEF LifecycleInv, LifecycleShape, Foreign
<1>7. ObserverOwns' BY <1>1 DEF LifecycleInv, ObserverOwns
<1>8. ObserverBound' BY <1>1 DEF LifecycleInv, ObserverBound
<1>9. PreflightOwns' BY <1>1, <1>2, <1>4 DEF LifecycleInv, PreflightOwns, Configs
<1>10. ChecksStand' BY <1>1, <1>2, <1>5 DEF LifecycleInv, ChecksStand
<1>11. ChecksMade' BY <1>1 DEF LifecycleInv, ChecksMade, RanBy
<1>12. EventSeen' BY <1>1 DEF LifecycleInv, EventSeen
<1>13. ObserverFirst' BY <1>1 DEF LifecycleInv, ObserverFirst
<1> QED BY <1>6, <1>7, <1>8, <1>9, <1>10, <1>11, <1>12, <1>13 DEF LifecycleInv

(* A unit is started, having read nothing.                                 *)
LEMMA StartObserverInv ==
    ASSUME LifecycleInv, StartObserver
    PROVE  LifecycleInv'
<1>1. /\ UNCHANGED <<doc, intact, clock, events, root, result, report, pre, ran>>
      /\ obs.pc # "done"
    BY DEF StartObserver, others, jobFiles
<1>2. /\ obs'.pc = "read" /\ DOMAIN obs' = DOMAIN obs
      /\ obs'.in = NoDocs
      /\ obs'.start = 0
    BY DEF StartObserver, IdleObs, LifecycleInv, LifecycleShape
<1>3. LifecycleShape' BY <1>1, <1>2 DEF LifecycleInv, LifecycleShape, NoDocs
<1>4. ObserverOwns' BY <1>1, <1>2 DEF LifecycleInv, ObserverOwns
<1>5. ObserverBound' BY <1>2 DEF ObserverBound
<1>6. PreflightOwns' BY <1>1 DEF LifecycleInv, PreflightOwns
<1>7. ChecksStand' BY <1>1, <1>2 DEF LifecycleInv, ChecksStand
<1>8. ChecksMade' BY <1>1, <1>2 DEF LifecycleInv, ChecksMade, RanBy
<1>9. EventSeen' BY <1>1 DEF LifecycleInv, EventSeen
<1>10. ObserverFirst' BY <1>1 DEF LifecycleInv, ObserverFirst
<1> QED BY <1>3, <1>4, <1>5, <1>6, <1>7, <1>8, <1>9, <1>10 DEF LifecycleInv

(* A process dies, its files stay.                                         *)
LEMMA KillObserverInv ==
    ASSUME LifecycleInv, KillObserver
    PROVE  LifecycleInv'
<1>1. /\ UNCHANGED <<doc, intact, clock, events, root, result, report, pre, ran>>
      /\ obs.pc # "done"
    BY DEF KillObserver, others, jobFiles, Halted
<1>2. /\ obs'.pc = "failed" /\ DOMAIN obs' = DOMAIN obs
      /\ obs'.in = NoDocs
      /\ obs'.start = 0
    BY DEF KillObserver, IdleObs, LifecycleInv, LifecycleShape
<1>3. LifecycleShape' BY <1>1, <1>2 DEF LifecycleInv, LifecycleShape, NoDocs
<1>4. ObserverOwns' BY <1>1, <1>2 DEF LifecycleInv, ObserverOwns
<1>5. ObserverBound' BY <1>2 DEF ObserverBound
<1>6. PreflightOwns' BY <1>1 DEF LifecycleInv, PreflightOwns
<1>7. ChecksStand' BY <1>1, <1>2 DEF LifecycleInv, ChecksStand
<1>8. ChecksMade' BY <1>1, <1>2 DEF LifecycleInv, ChecksMade, RanBy
<1>9. EventSeen' BY <1>1 DEF LifecycleInv, EventSeen
<1>10. ObserverFirst' BY <1>1 DEF LifecycleInv, ObserverFirst
<1> QED BY <1>3, <1>4, <1>5, <1>6, <1>7, <1>8, <1>9, <1>10 DEF LifecycleInv

(* So is the preflight.                                                    *)
LEMMA StartPreflightInv ==
    ASSUME LifecycleInv, StartPreflight
    PROVE  LifecycleInv'
<1>1. /\ UNCHANGED <<doc, intact, clock, events, root, result, report, obs, ran>>
      /\ pre.pc # "done"
    BY DEF StartPreflight, others, jobFiles
<1>2. /\ pre'.pc = "read" /\ DOMAIN pre' = DOMAIN pre
      /\ pre'.in = NoDocs
      /\ pre'.last = 0 /\ pre'.ev = NoEvent
    BY DEF StartPreflight, IdlePre, LifecycleInv, LifecycleShape
<1>3. LifecycleShape' BY <1>1, <1>2 DEF LifecycleInv, LifecycleShape, NoDocs, NoEvent
<1>4. ObserverOwns' BY <1>1 DEF LifecycleInv, ObserverOwns
<1>5. ObserverBound' BY <1>1 DEF LifecycleInv, ObserverBound
<1>6. PreflightOwns' BY <1>1, <1>2 DEF LifecycleInv, PreflightOwns
<1>7. ChecksStand' BY <1>1 DEF LifecycleInv, ChecksStand
<1>8. ChecksMade' BY <1>1, <1>2 DEF LifecycleInv, ChecksMade, RanBy
<1>9. EventSeen' BY <1>2 DEF EventSeen
<1>10. ObserverFirst' BY <1>1 DEF LifecycleInv, ObserverFirst
<1> QED BY <1>3, <1>4, <1>5, <1>6, <1>7, <1>8, <1>9, <1>10 DEF LifecycleInv

(* So does the preflight.                                                  *)
LEMMA KillPreflightInv ==
    ASSUME LifecycleInv, KillPreflight
    PROVE  LifecycleInv'
<1>1. /\ UNCHANGED <<doc, intact, clock, events, root, result, report, obs, ran>>
      /\ pre.pc # "done"
    BY DEF KillPreflight, others, jobFiles, Halted
<1>2. /\ pre'.pc = "failed" /\ DOMAIN pre' = DOMAIN pre
      /\ pre'.in = NoDocs
      /\ pre'.last = 0 /\ pre'.ev = NoEvent
    BY DEF KillPreflight, IdlePre, LifecycleInv, LifecycleShape
<1>3. LifecycleShape' BY <1>1, <1>2 DEF LifecycleInv, LifecycleShape, NoDocs, NoEvent
<1>4. ObserverOwns' BY <1>1 DEF LifecycleInv, ObserverOwns
<1>5. ObserverBound' BY <1>1 DEF LifecycleInv, ObserverBound
<1>6. PreflightOwns' BY <1>1, <1>2 DEF LifecycleInv, PreflightOwns
<1>7. ChecksStand' BY <1>1 DEF LifecycleInv, ChecksStand
<1>8. ChecksMade' BY <1>1, <1>2 DEF LifecycleInv, ChecksMade, RanBy
<1>9. EventSeen' BY <1>2 DEF EventSeen
<1>10. ObserverFirst' BY <1>1 DEF LifecycleInv, ObserverFirst
<1> QED BY <1>3, <1>4, <1>5, <1>6, <1>7, <1>8, <1>9, <1>10 DEF LifecycleInv

(* The observer reads its next document.                                   *)
LEMMA ObsReadInv ==
    ASSUME LifecycleInv, ObsRead
    PROVE  LifecycleInv'
<1>1. /\ obs.pc = "read"
      /\ UNCHANGED <<doc, intact, clock, events, root, result, report, pre, ran>>
    BY DEF ObsRead, others, Rest, jobFiles
<1>2. /\ obs'.pc = (IF AllRead(WithNext(obs.in)) THEN "exists" ELSE "read") /\ obs'.in = WithNext(obs.in)
      /\ obs'.start = obs.start /\ obs'.got = obs.got /\ DOMAIN obs' = DOMAIN obs
    BY DEF ObsRead
<1>3. WithNext(obs.in) \in [Docs -> 0 .. 3]
    BY WithNextTyped DEF LifecycleInv, LifecycleShape
<1>4. LifecycleShape' BY <1>1, <1>2, <1>3 DEF LifecycleInv, LifecycleShape
<1>5. ObserverOwns' BY <1>1, <1>2 DEF LifecycleInv, ObserverOwns
<1>6. ObserverBound' BY <1>2 DEF ObserverBound
<1>7. PreflightOwns' BY <1>1 DEF LifecycleInv, PreflightOwns
<1>8. ChecksStand' BY <1>1, <1>2 DEF LifecycleInv, ChecksStand
<1>9. ChecksMade' BY <1>1, <1>2 DEF LifecycleInv, ChecksMade, RanBy
<1>10. EventSeen' BY <1>1 DEF LifecycleInv, EventSeen
<1>11. ObserverFirst' BY <1>1 DEF LifecycleInv, ObserverFirst
<1> QED BY <1>4, <1>5, <1>6, <1>7, <1>8, <1>9, <1>10, <1>11 DEF LifecycleInv

(* It finds nothing of the job, and keeps the time.                        *)
LEMMA ObsExistsInv ==
    ASSUME LifecycleInv, ObsExists
    PROVE  LifecycleInv'
<1>1. /\ obs.pc = "exists"
      /\ UNCHANGED <<doc, intact, clock, events, root, result, report, pre, ran>>
    BY DEF ObsExists, others, Rest, jobFiles
<1>2. /\ obs'.pc = "tables1" /\ obs'.in = obs.in
      /\ obs'.start = clock /\ obs'.got = obs.got /\ DOMAIN obs' = DOMAIN obs
    BY DEF ObsExists
<1>3. LifecycleShape' BY <1>1, <1>2 DEF LifecycleInv, LifecycleShape
<1>4. ObserverOwns' BY <1>1, <1>2 DEF LifecycleInv, ObserverOwns
<1>5. ObserverBound' BY <1>2 DEF ObserverBound
<1>6. PreflightOwns' BY <1>1 DEF LifecycleInv, PreflightOwns
<1>7. ChecksStand' BY <1>1, <1>2 DEF LifecycleInv, ChecksStand
<1>8. ChecksMade' BY <1>1, <1>2 DEF LifecycleInv, ChecksMade, RanBy
<1>9. EventSeen' BY <1>1 DEF LifecycleInv, EventSeen
<1>10. ObserverFirst' BY <1>1 DEF LifecycleInv, ObserverFirst
<1> QED BY <1>3, <1>4, <1>5, <1>6, <1>7, <1>8, <1>9, <1>10 DEF LifecycleInv

(* It looks at the tables.                                                 *)
LEMMA ObsTablesInv ==
    ASSUME LifecycleInv, ObsTables
    PROVE  LifecycleInv'
<1>1. /\ UNCHANGED <<doc, intact, clock, events, root, result, report, pre, ran>>
    BY DEF ObsTables, others, Rest, jobFiles
<1>2. /\ (obs.pc = "tables1" /\ obs'.pc = "uids1") \/ (obs.pc = "tables2" /\ obs'.pc = "uids2")
      /\ obs'.in = obs.in /\ obs'.start = obs.start /\ obs'.got = obs.got
      /\ DOMAIN obs' = DOMAIN obs
    BY DEF ObsTables, Obs, LifecycleInv, LifecycleShape
<1>3. LifecycleShape' BY <1>1, <1>2 DEF LifecycleInv, LifecycleShape
<1>4. ObserverOwns' BY <1>1, <1>2 DEF LifecycleInv, ObserverOwns
<1>5. ObserverBound' BY <1>1, <1>2 DEF LifecycleInv, ObserverBound
<1>6. PreflightOwns' BY <1>1 DEF LifecycleInv, PreflightOwns
<1>7. ChecksStand' BY <1>1, <1>2 DEF LifecycleInv, ChecksStand
<1>8. ChecksMade' BY <1>1, <1>2 DEF LifecycleInv, ChecksMade, RanBy
<1>9. EventSeen' BY <1>1 DEF LifecycleInv, EventSeen
<1>10. ObserverFirst' BY <1>1 DEF LifecycleInv, ObserverFirst
<1> QED BY <1>3, <1>4, <1>5, <1>6, <1>7, <1>8, <1>9, <1>10 DEF LifecycleInv

(* It looks at the processes.                                              *)
LEMMA ObsUidsInv ==
    ASSUME LifecycleInv, ObsUids
    PROVE  LifecycleInv'
<1>1. /\ UNCHANGED <<doc, intact, clock, events, root, result, report, pre, ran>>
    BY DEF ObsUids, others, Rest, jobFiles
<1>2. /\ (obs.pc = "uids1" /\ obs'.pc = "create") \/ (obs.pc = "uids2" /\ obs'.pc = "finish")
      /\ obs'.in = obs.in /\ obs'.start = obs.start /\ obs'.got = obs.got
      /\ DOMAIN obs' = DOMAIN obs
    BY DEF ObsUids, Obs, LifecycleInv, LifecycleShape
<1>3. LifecycleShape' BY <1>1, <1>2 DEF LifecycleInv, LifecycleShape
<1>4. ObserverOwns' BY <1>1, <1>2 DEF LifecycleInv, ObserverOwns
<1>5. ObserverBound' BY <1>1, <1>2 DEF LifecycleInv, ObserverBound
<1>6. PreflightOwns' BY <1>1 DEF LifecycleInv, PreflightOwns
<1>7. ChecksStand' BY <1>1, <1>2 DEF LifecycleInv, ChecksStand
<1>8. ChecksMade' BY <1>1, <1>2 DEF LifecycleInv, ChecksMade, RanBy
<1>9. EventSeen' BY <1>1 DEF LifecycleInv, EventSeen
<1>10. ObserverFirst' BY <1>1 DEF LifecycleInv, ObserverFirst
<1> QED BY <1>3, <1>4, <1>5, <1>6, <1>7, <1>8, <1>9, <1>10 DEF LifecycleInv

(* It creates the event file, which was not there.                         *)
LEMMA ObsCreateEventsInv ==
    ASSUME LifecycleInv, ObsCreateEvents
    PROVE  LifecycleInv'
<1>1. /\ obs.pc = "create"
      /\ UNCHANGED <<doc, intact, clock, root, result, report, pre, ran>>
    BY DEF ObsCreateEvents, Obs, others, Rest
<1>2. /\ obs'.pc = "announce" /\ obs'.in = obs.in
      /\ obs'.start = obs.start /\ obs'.got = obs.got /\ DOMAIN obs' = DOMAIN obs
    BY DEF ObsCreateEvents, Obs
<1>3. /\ events.st = "absent" /\ events' = [NoEvent EXCEPT !.st = "empty"]
      /\ events'.st = "empty" /\ events'.at = 0 /\ DOMAIN events' = DOMAIN events
    BY DEF ObsCreateEvents, Exists, NoEvent, LifecycleInv, LifecycleShape
<1>4. LifecycleShape' BY <1>1, <1>2, <1>3 DEF LifecycleInv, LifecycleShape
<1>5. ObserverOwns' BY <1>1, <1>2, <1>3 DEF LifecycleInv, ObserverOwns
<1>6. ObserverBound' BY <1>2 DEF ObserverBound
<1>7. PreflightOwns' BY <1>1 DEF LifecycleInv, PreflightOwns
<1>8. ChecksStand' BY <1>1, <1>2 DEF LifecycleInv, ChecksStand
<1>9. ChecksMade' BY <1>1, <1>2 DEF LifecycleInv, ChecksMade, RanBy
<1>10. EventSeen' BY <1>1, <1>3 DEF LifecycleInv, EventSeen
<1>11. ObserverFirst' BY <1>1, <1>3 DEF LifecycleInv, ObserverFirst
<1> QED BY <1>4, <1>5, <1>6, <1>7, <1>8, <1>9, <1>10, <1>11 DEF LifecycleInv

(* It announces itself in the file it created.                             *)
LEMMA ObsAnnounceInv ==
    ASSUME LifecycleInv, ObsAnnounce
    PROVE  LifecycleInv'
<1>1. /\ obs.pc = "announce"
      /\ UNCHANGED <<doc, intact, clock, root, result, report, pre, ran>>
    BY DEF ObsAnnounce, Obs, others, Rest
<1>2. /\ obs'.pc = "render" /\ obs'.in = obs.in
      /\ obs'.start = obs.start /\ obs'.got = obs.got /\ DOMAIN obs' = DOMAIN obs
    BY DEF ObsAnnounce, Obs
<1>3. /\ events' = [st |-> "one", in |-> obs.in, at |-> obs.start]
      /\ events.st = "empty"
    BY <1>1 DEF ObsAnnounce, LifecycleInv, ObserverOwns
<1>4. LifecycleShape' BY <1>1, <1>2, <1>3 DEF LifecycleInv, LifecycleShape
<1>5. ObserverOwns' BY <1>1, <1>2, <1>3 DEF LifecycleInv, ObserverOwns
<1>6. ObserverBound' BY <1>2 DEF ObserverBound
<1>7. PreflightOwns' BY <1>1 DEF LifecycleInv, PreflightOwns
<1>8. ChecksStand' BY <1>1, <1>2 DEF LifecycleInv, ChecksStand
<1>9. ChecksMade' BY <1>1, <1>2 DEF LifecycleInv, ChecksMade, RanBy
<1>10. EventSeen' BY <1>1, <1>3 DEF LifecycleInv, EventSeen
<1>11. ObserverFirst' BY <1>1, <1>3 DEF LifecycleInv, ObserverFirst
<1> QED BY <1>4, <1>5, <1>6, <1>7, <1>8, <1>9, <1>10, <1>11 DEF LifecycleInv

(* It renders its documents, which therefore belong together.              *)
LEMMA ObsRenderInv ==
    ASSUME LifecycleInv, ObsRender
    PROVE  LifecycleInv'
<1>1. /\ obs.pc = "render"
      /\ UNCHANGED <<doc, intact, clock, events, root, result, report, pre, ran>>
    BY DEF ObsRender, others, Rest, jobFiles
<1>2. /\ obs'.pc = "wait" /\ obs'.in = obs.in
      /\ obs'.start = obs.start /\ obs'.got = obs.got /\ DOMAIN obs' = DOMAIN obs
    BY DEF ObsRender
<1>3. PlanBound(obs.in) /\ ManifestBound(obs.in) /\ ContractBound(obs.in)
    BY DEF ObsRender, ObsRenderOk, Renders
<1>4. LifecycleShape' BY <1>1, <1>2 DEF LifecycleInv, LifecycleShape
<1>5. ObserverOwns' BY <1>1, <1>2 DEF LifecycleInv, ObserverOwns
<1>6. ObserverBound' BY <1>2, <1>3 DEF ObserverBound
<1>7. PreflightOwns' BY <1>1 DEF LifecycleInv, PreflightOwns
<1>8. ChecksStand' BY <1>1, <1>2 DEF LifecycleInv, ChecksStand
<1>9. ChecksMade' BY <1>1, <1>2 DEF LifecycleInv, ChecksMade, RanBy
<1>10. EventSeen' BY <1>1 DEF LifecycleInv, EventSeen
<1>11. ObserverFirst' BY <1>1 DEF LifecycleInv, ObserverFirst
<1> QED BY <1>4, <1>5, <1>6, <1>7, <1>8, <1>9, <1>10, <1>11 DEF LifecycleInv

(* It takes a whole result that repeats its documents.                     *)
LEMMA ObsWaitInv ==
    ASSUME LifecycleInv, ObsWait
    PROVE  LifecycleInv'
<1>1. /\ obs.pc = "wait"
      /\ UNCHANGED <<doc, intact, clock, events, root, result, report, pre, ran>>
    BY DEF ObsWait, others, Rest, jobFiles
<1>2. /\ obs'.pc = "validate" /\ obs'.in = obs.in
      /\ obs'.start = obs.start /\ obs'.got = result /\ DOMAIN obs' = DOMAIN obs
    BY DEF ObsWait
<1>3. result.st = "whole" /\ SameInputs(result.in, obs.in)
    BY DEF ObsWait, ResultAnswers
<1>4. LifecycleShape' BY <1>1, <1>2 DEF LifecycleInv, LifecycleShape
<1>5. ObserverOwns' BY <1>1, <1>2 DEF LifecycleInv, ObserverOwns
<1>6. ObserverBound' BY <1>1, <1>2, <1>3 DEF LifecycleInv, ObserverBound
<1>7. PreflightOwns' BY <1>1 DEF LifecycleInv, PreflightOwns
<1>8. ChecksStand' BY <1>1, <1>2 DEF LifecycleInv, ChecksStand
<1>9. ChecksMade' BY <1>1, <1>2 DEF LifecycleInv, ChecksMade, RanBy
<1>10. EventSeen' BY <1>1 DEF LifecycleInv, EventSeen
<1>11. ObserverFirst' BY <1>1 DEF LifecycleInv, ObserverFirst
<1> QED BY <1>4, <1>5, <1>6, <1>7, <1>8, <1>9, <1>10, <1>11 DEF LifecycleInv

(* Both programs are still the pinned ones, and hence were all along.      *)
LEMMA ObsValidateInv ==
    ASSUME LifecycleInv, ObsValidate
    PROVE  LifecycleInv'
<1>1. /\ obs.pc = "validate"
      /\ UNCHANGED <<doc, intact, clock, events, root, result, report, pre, ran>>
    BY DEF ObsValidate, others, Rest, jobFiles
<1>2. /\ obs'.pc = "before" /\ obs'.in = obs.in
      /\ obs'.start = obs.start /\ obs'.got = obs.got /\ DOMAIN obs' = DOMAIN obs
    BY DEF ObsValidate
<1>3. /\ Configs \subseteq intact
    BY DEF ObsValidate
<1>4. LifecycleShape' BY <1>1, <1>2 DEF LifecycleInv, LifecycleShape
<1>5. ObserverOwns' BY <1>1, <1>2 DEF LifecycleInv, ObserverOwns
<1>6. ObserverBound' BY <1>1, <1>2 DEF LifecycleInv, ObserverBound
<1>7. PreflightOwns' BY <1>1 DEF LifecycleInv, PreflightOwns
<1>8. ChecksStand' BY <1>1, <1>2, <1>3 DEF LifecycleInv, ChecksStand
<1>9. ChecksMade' BY <1>1, <1>2 DEF LifecycleInv, ChecksMade, RanBy
<1>10. EventSeen' BY <1>1 DEF LifecycleInv, EventSeen
<1>11. ObserverFirst' BY <1>1 DEF LifecycleInv, ObserverFirst
<1> QED BY <1>4, <1>5, <1>6, <1>7, <1>8, <1>9, <1>10, <1>11 DEF LifecycleInv

(* The files hold what it rendered.                                        *)
LEMMA ObsVerifyBeforeInv ==
    ASSUME LifecycleInv, ObsVerifyBefore
    PROVE  LifecycleInv'
<1>1. /\ obs.pc = "before"
      /\ UNCHANGED <<doc, intact, clock, events, root, result, report, pre, ran>>
    BY DEF ObsVerifyBefore, Obs, others, Rest, jobFiles
<1>2. /\ obs'.pc = "envoy" /\ obs'.in = obs.in
      /\ obs'.start = obs.start /\ obs'.got = obs.got /\ DOMAIN obs' = DOMAIN obs
    BY DEF ObsVerifyBefore, Obs
<1>3. LifecycleShape' BY <1>1, <1>2 DEF LifecycleInv, LifecycleShape
<1>4. ObserverOwns' BY <1>1, <1>2 DEF LifecycleInv, ObserverOwns
<1>5. ObserverBound' BY <1>1, <1>2 DEF LifecycleInv, ObserverBound
<1>6. PreflightOwns' BY <1>1 DEF LifecycleInv, PreflightOwns
<1>7. ChecksStand' BY <1>1, <1>2 DEF LifecycleInv, ChecksStand
<1>8. ChecksMade' BY <1>1, <1>2 DEF LifecycleInv, ChecksMade, RanBy
<1>9. EventSeen' BY <1>1 DEF LifecycleInv, EventSeen
<1>10. ObserverFirst' BY <1>1 DEF LifecycleInv, ObserverFirst
<1> QED BY <1>3, <1>4, <1>5, <1>6, <1>7, <1>8, <1>9, <1>10 DEF LifecycleInv

(* They still do after the checks, and hence did when they were checked.   *)
LEMMA ObsVerifyAfterInv ==
    ASSUME LifecycleInv, ObsVerifyAfter
    PROVE  LifecycleInv'
<1>1. /\ obs.pc = "after"
      /\ UNCHANGED <<doc, intact, clock, events, root, result, report, pre, ran>>
    BY DEF ObsVerifyAfter, Obs, others, Rest, jobFiles
<1>2. /\ obs'.pc = "look" /\ obs'.in = obs.in
      /\ obs'.start = obs.start /\ obs'.got = obs.got /\ DOMAIN obs' = DOMAIN obs
    BY DEF ObsVerifyAfter, Obs
<1>3. \A c \in Configs : root.text[c] = obs.in["contract"] /\ root.text[c] # Foreign
    BY DEF ObsVerifyAfter, ArtifactsAfter, Docs, Foreign, LifecycleInv, LifecycleShape
<1>4. LifecycleShape' BY <1>1, <1>2 DEF LifecycleInv, LifecycleShape
<1>5. ObserverOwns' BY <1>1, <1>2 DEF LifecycleInv, ObserverOwns
<1>6. ObserverBound' BY <1>1, <1>2 DEF LifecycleInv, ObserverBound
<1>7. PreflightOwns' BY <1>1 DEF LifecycleInv, PreflightOwns
<1>8. ChecksStand' BY <1>1, <1>2, <1>3 DEF LifecycleInv, ChecksStand
<1>9. ChecksMade' BY <1>1 DEF LifecycleInv, ChecksMade, RanBy
<1>10. EventSeen' BY <1>1 DEF LifecycleInv, EventSeen
<1>11. ObserverFirst' BY <1>1 DEF LifecycleInv, ObserverFirst
<1> QED BY <1>4, <1>5, <1>6, <1>7, <1>8, <1>9, <1>10, <1>11 DEF LifecycleInv

(* A native program checks a configuration for the observer.               *)
LEMMA ObsCheckInv ==
    ASSUME LifecycleInv, ObsCheck
    PROVE  LifecycleInv'
<1>1. /\ UNCHANGED <<doc, intact, clock, events, root, result, report, pre>>
    BY DEF ObsCheck, others, Rest, jobFiles
<1>2. PICK c \in Configs :
        /\ \/ c = "envoy" /\ obs.pc = "envoy" /\ obs'.pc = "nft"
           \/ c = "nft" /\ obs.pc = "nft" /\ obs'.pc = "after"
        /\ Check("obs", c)
    BY DEF ObsCheck, Obs, Configs, LifecycleInv, LifecycleShape
<1>3. \/ c = "envoy" /\ obs.pc = "envoy" /\ obs'.pc = "nft"
      \/ c = "nft" /\ obs.pc = "nft" /\ obs'.pc = "after"
    BY <1>2
<1>4. /\ obs'.in = obs.in /\ obs'.start = obs.start /\ obs'.got = obs.got
      /\ DOMAIN obs' = DOMAIN obs
    BY DEF ObsCheck, Obs, LifecycleInv, LifecycleShape
<1>5. NewCheck("obs", c)
    BY <1>2, Recorded
<1>6. /\ root.made /\ root.text[c] # NoConfig
    BY <1>3, BothWritten DEF LifecycleInv, ObserverBound
<1>7. LifecycleShape' BY <1>1, <1>3, <1>4 DEF LifecycleInv, LifecycleShape
<1>8. ObserverOwns' BY <1>1, <1>3, <1>4 DEF LifecycleInv, ObserverOwns
<1>9. ObserverBound' BY <1>1, <1>3, <1>4 DEF LifecycleInv, ObserverBound
<1>10. PreflightOwns' BY <1>1 DEF LifecycleInv, PreflightOwns
<1>11. ChecksStand' BY <1>1, <1>3, <1>5, <1>6 DEF LifecycleInv, ChecksStand, NewCheck
<1>12. ChecksMade' BY <1>1, <1>3, <1>5 DEF LifecycleInv, ChecksMade, RanBy, NewCheck
<1>13. EventSeen' BY <1>1 DEF LifecycleInv, EventSeen
<1>14. ObserverFirst' BY <1>1 DEF LifecycleInv, ObserverFirst
<1> QED BY <1>7, <1>8, <1>9, <1>10, <1>11, <1>12, <1>13, <1>14 DEF LifecycleInv

(* It looks at the clock and again at the machine.                         *)
LEMMA ObsLookInv ==
    ASSUME LifecycleInv, ObsLook
    PROVE  LifecycleInv'
<1>1. /\ obs.pc = "look"
      /\ UNCHANGED <<doc, intact, clock, events, root, result, report, pre, ran>>
    BY DEF ObsLook, others, Rest, jobFiles
<1>2. /\ obs'.pc = "tables2" /\ obs'.in = obs.in
      /\ obs'.start = obs.start /\ obs'.got = obs.got /\ DOMAIN obs' = DOMAIN obs
    BY DEF ObsLook
<1>3. LifecycleShape' BY <1>1, <1>2 DEF LifecycleInv, LifecycleShape
<1>4. ObserverOwns' BY <1>1, <1>2 DEF LifecycleInv, ObserverOwns
<1>5. ObserverBound' BY <1>1, <1>2 DEF LifecycleInv, ObserverBound
<1>6. PreflightOwns' BY <1>1 DEF LifecycleInv, PreflightOwns
<1>7. ChecksStand' BY <1>1, <1>2 DEF LifecycleInv, ChecksStand
<1>8. ChecksMade' BY <1>1 DEF LifecycleInv, ChecksMade, RanBy
<1>9. EventSeen' BY <1>1 DEF LifecycleInv, EventSeen
<1>10. ObserverFirst' BY <1>1 DEF LifecycleInv, ObserverFirst
<1> QED BY <1>3, <1>4, <1>5, <1>6, <1>7, <1>8, <1>9, <1>10 DEF LifecycleInv

(* It appends to the file that it announced itself in.                     *)
LEMMA ObsFinishInv ==
    ASSUME LifecycleInv, ObsFinish
    PROVE  LifecycleInv'
<1>1. /\ obs.pc = "finish"
      /\ UNCHANGED <<doc, intact, clock, root, result, report, pre, ran>>
    BY DEF ObsFinish, others, Rest
<1>2. /\ obs'.pc = "create report" /\ obs'.in = obs.in
      /\ obs'.start = obs.start /\ obs'.got = obs.got /\ DOMAIN obs' = DOMAIN obs
    BY DEF ObsFinish
<1>3. /\ events = [st |-> "one", in |-> obs.in, at |-> obs.start]
      /\ events' = [st |-> "two", in |-> obs.in, at |-> obs.start]
    BY DEF ObsFinish, LifecycleInv, ObserverOwns
<1>4. LifecycleShape' BY <1>1, <1>2, <1>3 DEF LifecycleInv, LifecycleShape
<1>5. ObserverOwns' BY <1>1, <1>2, <1>3 DEF LifecycleInv, ObserverOwns
<1>6. ObserverBound' BY <1>1, <1>2 DEF LifecycleInv, ObserverBound
<1>7. PreflightOwns' BY <1>1 DEF LifecycleInv, PreflightOwns
<1>8. ChecksStand' BY <1>1, <1>2 DEF LifecycleInv, ChecksStand
<1>9. ChecksMade' BY <1>1 DEF LifecycleInv, ChecksMade, RanBy
<1>10. EventSeen' BY <1>1, <1>3 DEF LifecycleInv, EventSeen
<1>11. ObserverFirst' BY <1>1, <1>3 DEF LifecycleInv, ObserverFirst
<1> QED BY <1>4, <1>5, <1>6, <1>7, <1>8, <1>9, <1>10, <1>11 DEF LifecycleInv

(* It creates the report.                                                  *)
LEMMA ObsCreateReportInv ==
    ASSUME LifecycleInv, ObsCreateReport
    PROVE  LifecycleInv'
<1>1. /\ obs.pc = "create report"
      /\ UNCHANGED <<doc, intact, clock, events, root, result, pre, ran>>
    BY DEF ObsCreateReport, Obs, others, Rest
<1>2. /\ obs'.pc = "report" /\ obs'.in = obs.in
      /\ obs'.start = obs.start /\ obs'.got = obs.got /\ DOMAIN obs' = DOMAIN obs
    BY DEF ObsCreateReport, Obs, LifecycleInv, LifecycleShape
<1>3. report'.st = "empty"
    BY DEF ObsCreateReport, NoReport
<1>4. LifecycleShape' BY <1>1, <1>2 DEF LifecycleInv, LifecycleShape
<1>5. ObserverOwns' BY <1>1, <1>2, <1>3 DEF LifecycleInv, ObserverOwns
<1>6. ObserverBound' BY <1>1, <1>2 DEF LifecycleInv, ObserverBound
<1>7. PreflightOwns' BY <1>1 DEF LifecycleInv, PreflightOwns
<1>8. ChecksStand' BY <1>1, <1>2 DEF LifecycleInv, ChecksStand
<1>9. ChecksMade' BY <1>1 DEF LifecycleInv, ChecksMade, RanBy
<1>10. EventSeen' BY <1>1 DEF LifecycleInv, EventSeen
<1>11. ObserverFirst' BY <1>1 DEF LifecycleInv, ObserverFirst
<1> QED BY <1>4, <1>5, <1>6, <1>7, <1>8, <1>9, <1>10, <1>11 DEF LifecycleInv

(* It writes the report on its documents.                                  *)
LEMMA ObsReportInv ==
    ASSUME LifecycleInv, ObsReport
    PROVE  LifecycleInv'
<1>1. /\ obs.pc = "report"
      /\ UNCHANGED <<doc, intact, clock, events, root, result, pre, ran>>
    BY DEF ObsReport, Obs, others, Rest
<1>2. /\ obs'.pc = "done" /\ obs'.in = obs.in
      /\ obs'.start = obs.start /\ obs'.got = obs.got /\ DOMAIN obs' = DOMAIN obs
    BY DEF ObsReport, Obs
<1>3. report' = [st |-> "whole", in |-> obs.in]
    BY DEF ObsReport
<1>4. LifecycleShape' BY <1>1, <1>2 DEF LifecycleInv, LifecycleShape
<1>5. ObserverOwns' BY <1>1, <1>2, <1>3 DEF LifecycleInv, ObserverOwns
<1>6. ObserverBound' BY <1>1, <1>2 DEF LifecycleInv, ObserverBound
<1>7. PreflightOwns' BY <1>1 DEF LifecycleInv, PreflightOwns
<1>8. ChecksStand' BY <1>1, <1>2 DEF LifecycleInv, ChecksStand
<1>9. ChecksMade' BY <1>1 DEF LifecycleInv, ChecksMade, RanBy
<1>10. EventSeen' BY <1>1 DEF LifecycleInv, EventSeen
<1>11. ObserverFirst' BY <1>1 DEF LifecycleInv, ObserverFirst
<1> QED BY <1>4, <1>5, <1>6, <1>7, <1>8, <1>9, <1>10, <1>11 DEF LifecycleInv

(* The preflight reads its next document.                                  *)
LEMMA PreReadInv ==
    ASSUME LifecycleInv, PreRead
    PROVE  LifecycleInv'
<1>1. /\ pre.pc = "read"
      /\ UNCHANGED <<doc, intact, clock, events, root, result, report, obs, ran>>
    BY DEF PreRead, others, Rest, jobFiles
<1>2. /\ pre'.pc = (IF AllRead(WithNext(pre.in)) THEN "exists" ELSE "read") /\ pre'.in = WithNext(pre.in)
      /\ pre'.ev = pre.ev /\ pre'.last = pre.last /\ DOMAIN pre' = DOMAIN pre
    BY DEF PreRead
<1>3. WithNext(pre.in) \in [Docs -> 0 .. 3]
    BY WithNextTyped DEF LifecycleInv, LifecycleShape
<1>4. LifecycleShape' BY <1>1, <1>2, <1>3 DEF LifecycleInv, LifecycleShape
<1>5. ObserverOwns' BY <1>1 DEF LifecycleInv, ObserverOwns
<1>6. ObserverBound' BY <1>1 DEF LifecycleInv, ObserverBound
<1>7. PreflightOwns' BY <1>1, <1>2 DEF LifecycleInv, PreflightOwns
<1>8. ChecksStand' BY <1>1 DEF LifecycleInv, ChecksStand
<1>9. ChecksMade' BY <1>1, <1>2 DEF LifecycleInv, ChecksMade, RanBy
<1>10. EventSeen' BY <1>2 DEF EventSeen
<1>11. ObserverFirst' BY <1>1 DEF LifecycleInv, ObserverFirst
<1> QED BY <1>4, <1>5, <1>6, <1>7, <1>8, <1>9, <1>10, <1>11 DEF LifecycleInv

(* It finds the directory and the result unused.                           *)
LEMMA PreExistsInv ==
    ASSUME LifecycleInv, PreExists
    PROVE  LifecycleInv'
<1>1. /\ pre.pc = "exists"
      /\ UNCHANGED <<doc, intact, clock, events, root, result, report, obs, ran>>
    BY DEF PreExists, others, Rest, jobFiles
<1>2. /\ pre'.pc = "wait" /\ pre'.in = pre.in
      /\ pre'.ev = pre.ev /\ pre'.last = pre.last /\ DOMAIN pre' = DOMAIN pre
    BY DEF PreExists
<1>3. LifecycleShape' BY <1>1, <1>2 DEF LifecycleInv, LifecycleShape
<1>4. ObserverOwns' BY <1>1 DEF LifecycleInv, ObserverOwns
<1>5. ObserverBound' BY <1>1 DEF LifecycleInv, ObserverBound
<1>6. PreflightOwns' BY <1>1, <1>2 DEF LifecycleInv, PreflightOwns
<1>7. ChecksStand' BY <1>1 DEF LifecycleInv, ChecksStand
<1>8. ChecksMade' BY <1>1, <1>2 DEF LifecycleInv, ChecksMade, RanBy
<1>9. EventSeen' BY <1>2 DEF EventSeen
<1>10. ObserverFirst' BY <1>1 DEF LifecycleInv, ObserverFirst
<1> QED BY <1>3, <1>4, <1>5, <1>6, <1>7, <1>8, <1>9, <1>10 DEF LifecycleInv

(* It takes the event that is in the file.                                 *)
LEMMA PreWaitInv ==
    ASSUME LifecycleInv, PreWait
    PROVE  LifecycleInv'
<1>1. /\ pre.pc = "wait"
      /\ UNCHANGED <<doc, intact, clock, events, root, result, report, obs, ran>>
    BY DEF PreWait, others, Rest, jobFiles
<1>2. /\ pre'.pc = "render" /\ pre'.in = pre.in
      /\ pre'.ev = events /\ pre'.last = pre.last /\ DOMAIN pre' = DOMAIN pre
    BY DEF PreWait
<1>3. events.st \in {"one", "two"}
    BY DEF PreWait
<1>4. LifecycleShape' BY <1>1, <1>2 DEF LifecycleInv, LifecycleShape
<1>5. ObserverOwns' BY <1>1 DEF LifecycleInv, ObserverOwns
<1>6. ObserverBound' BY <1>1 DEF LifecycleInv, ObserverBound
<1>7. PreflightOwns' BY <1>1, <1>2 DEF LifecycleInv, PreflightOwns
<1>8. ChecksStand' BY <1>1 DEF LifecycleInv, ChecksStand
<1>9. ChecksMade' BY <1>1, <1>2 DEF LifecycleInv, ChecksMade, RanBy
<1>10. EventSeen' BY <1>1, <1>2, <1>3 DEF EventSeen
<1>11. ObserverFirst' BY <1>1 DEF LifecycleInv, ObserverFirst
<1> QED BY <1>4, <1>5, <1>6, <1>7, <1>8, <1>9, <1>10, <1>11 DEF LifecycleInv

(* It renders its documents, to which the event answers.                   *)
LEMMA PreRenderInv ==
    ASSUME LifecycleInv, PreRender
    PROVE  LifecycleInv'
<1>1. /\ pre.pc = "render"
      /\ UNCHANGED <<doc, intact, clock, events, root, result, report, obs, ran>>
    BY DEF PreRender, others, Rest, jobFiles
<1>2. /\ pre'.pc = "mkdir" /\ pre'.in = pre.in
      /\ pre'.ev = pre.ev /\ pre'.last = clock /\ DOMAIN pre' = DOMAIN pre
    BY DEF PreRender
<1>3. /\ PlanBound(pre.in) /\ SameInputs(pre.ev.in, pre.in)
      /\ InPlan(pre.ev.at) /\ pre.ev.at <= clock /\ clock - pre.ev.at <= MaxEventAge
    BY DEF PreRender, Renders, EventAnswers
<1>4. LifecycleShape' BY <1>1, <1>2 DEF LifecycleInv, LifecycleShape
<1>5. ObserverOwns' BY <1>1 DEF LifecycleInv, ObserverOwns
<1>6. ObserverBound' BY <1>1 DEF LifecycleInv, ObserverBound
<1>7. PreflightOwns' BY <1>1, <1>2, <1>3 DEF LifecycleInv, PreflightOwns
<1>8. ChecksStand' BY <1>1 DEF LifecycleInv, ChecksStand
<1>9. ChecksMade' BY <1>1, <1>2 DEF LifecycleInv, ChecksMade, RanBy
<1>10. EventSeen' BY <1>1, <1>2, <1>3 DEF LifecycleInv, EventSeen
<1>11. ObserverFirst' BY <1>1 DEF LifecycleInv, ObserverFirst
<1> QED BY <1>4, <1>5, <1>6, <1>7, <1>8, <1>9, <1>10, <1>11 DEF LifecycleInv

(* It makes the directory, which no earlier preflight made.                *)
LEMMA PreMkdirInv ==
    ASSUME LifecycleInv, PreMkdir
    PROVE  LifecycleInv'
<1>1. /\ pre.pc = "mkdir"
      /\ UNCHANGED <<doc, intact, clock, events, result, report, obs, ran>>
    BY DEF PreMkdir, others, Rest
<1>2. /\ pre'.pc = "config envoy" /\ pre'.in = pre.in
      /\ pre'.ev = pre.ev /\ pre'.last = clock /\ DOMAIN pre' = DOMAIN pre
    BY DEF PreMkdir
<1>3. /\ ~root.made /\ ~Exists(result)
      /\ root'.made = TRUE /\ root'.in = pre.in /\ root'.planned = pre.last
      /\ DOMAIN root' = DOMAIN root /\ root'.text \in [Configs -> 0 .. 4]
    BY DEF PreMkdir, PreMkdirOk, Unused, NoRoot, NoConfig, LifecycleInv, LifecycleShape
<1>4. LifecycleShape' BY <1>1, <1>2, <1>3 DEF LifecycleInv, LifecycleShape
<1>5. ObserverOwns' BY <1>1 DEF LifecycleInv, ObserverOwns
<1>6. ObserverBound' BY <1>1 DEF LifecycleInv, ObserverBound
<1>7. PreflightOwns' BY <1>1, <1>2, <1>3 DEF LifecycleInv, PreflightOwns
<1>8. ChecksStand' BY <1>1, <1>3 DEF LifecycleInv, ChecksStand
<1>9. ChecksMade' BY <1>1, <1>2 DEF LifecycleInv, ChecksMade, RanBy
<1>10. EventSeen' BY <1>2 DEF EventSeen
<1>11. ObserverFirst'
  <2>1. /\ events.st \in {"one", "two"} /\ pre.ev.in = events.in /\ pre.ev.at = events.at
        /\ SameInputs(events.in, pre.in) /\ InPlan(events.at)
        /\ events.at <= pre.last /\ pre.last - events.at <= MaxEventAge
      BY <1>1 DEF LifecycleInv, EventSeen
  <2>2. pre.last \in Nat /\ events.at \in Nat BY DEF LifecycleInv, LifecycleShape
  <2>3. pre.last <= events.at + MaxEventAge BY <2>1, <2>2
  <2>4. \A d \in Docs \ {"job"} : events.in[d] = pre.in[d]
      BY <2>1 DEF SameInputs, BindingNames, Docs
  <2> QED BY <1>1, <1>3, <2>1, <2>3, <2>4 DEF ObserverFirst
<1> QED BY <1>4, <1>5, <1>6, <1>7, <1>8, <1>9, <1>10, <1>11 DEF LifecycleInv

(* It writes a configuration, which was not there.                         *)
LEMMA PreWriteConfigsInv ==
    ASSUME LifecycleInv, PreWriteConfigs
    PROVE  LifecycleInv'
<1>1. /\ UNCHANGED <<doc, intact, clock, events, result, report, obs, ran>>
    BY DEF PreWriteConfigs, Rest, others
<1>2. PICK c \in Configs :
        /\ \/ c = "envoy" /\ pre.pc = "config envoy" /\ pre'.pc = "config nft"
           \/ c = "nft" /\ pre.pc = "config nft" /\ pre'.pc = "verify envoy"
        /\ root.text[c] = NoConfig /\ root' = [root EXCEPT !.text[c] = pre.in["contract"]]
    BY DEF PreWriteConfigs, Pre, WriteRendered, Configs, LifecycleInv, LifecycleShape
<1>3. /\ pre'.in = pre.in /\ pre'.ev = pre.ev /\ pre'.last = pre.last
      /\ DOMAIN pre' = DOMAIN pre
    BY DEF PreWriteConfigs, Pre, LifecycleInv, LifecycleShape
<1>4. /\ root'.made = root.made /\ root'.in = root.in /\ root'.planned = root.planned
      /\ DOMAIN root' = DOMAIN root
      /\ root'.text = [root.text EXCEPT ![c] = pre.in["contract"]]
    BY <1>2 DEF LifecycleInv, LifecycleShape
<1>5. /\ pre.in["contract"] \in 1 .. 3
    BY <1>2, ContractRead DEF LifecycleInv, LifecycleShape
<1>6. /\ \A k \in Configs : root'.text[k] = IF k = c THEN pre.in["contract"] ELSE root.text[k]
    BY <1>4 DEF LifecycleInv, LifecycleShape
<1>7. /\ root'.text[c] # NoConfig
      /\ \A k \in Configs : root.text[k] # NoConfig => root'.text[k] # NoConfig
    BY <1>5, <1>6 DEF NoConfig
<1>8. LifecycleShape'
  <2>1. root'.text \in [Configs -> 0 .. 4] BY <1>4, <1>5 DEF LifecycleInv, LifecycleShape
  <2> QED BY <1>1, <1>2, <1>3, <2>1 DEF LifecycleInv, LifecycleShape
<1>9. ObserverOwns' BY <1>1 DEF LifecycleInv, ObserverOwns
<1>10. ObserverBound' BY <1>1 DEF LifecycleInv, ObserverBound
<1>11. PreflightOwns'
  <2>1. pre.pc \in Made /\ PlanBound(pre.in) /\ root.made /\ root.in = pre.in /\ result.st # "whole"
    BY <1>2 DEF LifecycleInv, PreflightOwns
  <2>2. pre'.pc = "config nft" => root'.text["envoy"] # NoConfig
    BY <1>2, <1>7
  <2>3. pre'.pc \in Written => \A k \in Configs : root'.text[k] # NoConfig
    <3>1. pre'.pc \in Written => pre.pc = "config nft" /\ c = "nft" BY <1>2
    <3>2. pre.pc = "config nft" => root.text["envoy"] # NoConfig
      BY DEF LifecycleInv, PreflightOwns
    <3> QED BY <1>7, <3>1, <3>2 DEF Configs
  <2> QED BY <1>1, <1>3, <1>4, <2>1, <2>2, <2>3 DEF PreflightOwns, PlanBound
<1>12. ChecksStand'
  <2>0. root.text[c] = 0 BY <1>2 DEF NoConfig
  <2>1. ASSUME NEW u \in ran PROVE u.tool \in Configs /\ u.tool # c
    <3>1. u.tool \in Configs /\ u.text # NoConfig /\ root.text[u.tool] \in {u.text, Foreign}
      BY DEF LifecycleInv, ChecksStand
    <3> QED BY <2>0, <3>1 DEF NoConfig, Foreign
  <2>2. \A u \in ran : root'.text[u.tool] = root.text[u.tool] BY <2>1, <1>6
  <2> QED BY <1>1, <1>4, <2>2 DEF LifecycleInv, ChecksStand
<1>13. ChecksMade' BY <1>1, <1>2 DEF LifecycleInv, ChecksMade, RanBy
<1>14. EventSeen' BY <1>2 DEF EventSeen
<1>15. ObserverFirst' BY <1>1, <1>3, <1>4, <1>5, <1>6, <1>7 DEF LifecycleInv, ObserverFirst
<1> QED BY <1>8, <1>9, <1>10, <1>11, <1>12, <1>13, <1>14, <1>15 DEF LifecycleInv

(* It finds a program to be the pinned one.                                *)
LEMMA PreVerifyInv ==
    ASSUME LifecycleInv, NEW c \in Configs, PreVerify(c)
    PROVE  LifecycleInv'
<1>1. /\ UNCHANGED <<doc, intact, clock, events, root, result, report, obs, ran>>
      /\ pre.pc = (IF c = "envoy" THEN "verify envoy" ELSE "verify nft")
    BY DEF PreVerify, Rest, others, jobFiles
<1>2. /\ pre'.pc = (IF c = "envoy" THEN "run envoy" ELSE "run nft")
      /\ pre'.in = pre.in /\ pre'.ev = pre.ev /\ pre'.last = clock
      /\ DOMAIN pre' = DOMAIN pre
    BY DEF PreVerify, LifecycleInv, LifecycleShape
<1>3. LifecycleShape' BY <1>1, <1>2 DEF LifecycleInv, LifecycleShape
<1>4. ObserverOwns' BY <1>1 DEF LifecycleInv, ObserverOwns
<1>5. ObserverBound' BY <1>1 DEF LifecycleInv, ObserverBound
<1>6. PreflightOwns' BY <1>1, <1>2 DEF LifecycleInv, PreflightOwns
<1>7. ChecksStand' BY <1>1 DEF LifecycleInv, ChecksStand
<1>8. ChecksMade' BY <1>1, <1>2 DEF LifecycleInv, ChecksMade, RanBy
<1>9. EventSeen' BY <1>2 DEF EventSeen
<1>10. ObserverFirst' BY <1>1 DEF LifecycleInv, ObserverFirst
<1> QED BY <1>3, <1>4, <1>5, <1>6, <1>7, <1>8, <1>9, <1>10 DEF LifecycleInv

(* The program checks the configuration of its name.                       *)
LEMMA PreRunInv ==
    ASSUME LifecycleInv, NEW c \in Configs, PreRun(c)
    PROVE  LifecycleInv'
<1>1. Check("pre", c)
    BY DEF PreRun
<1>2. /\ UNCHANGED <<doc, intact, clock, events, root, result, report, obs>>
      /\ \/ c = "envoy" /\ pre.pc = "run envoy" /\ pre'.pc = "ran envoy"
         \/ c = "nft" /\ pre.pc = "run nft" /\ pre'.pc = "ran nft"
    BY DEF PreRun, Pre, Rest, others, jobFiles, LifecycleInv, LifecycleShape
<1>3. /\ pre'.in = pre.in /\ pre'.ev = pre.ev /\ pre'.last = pre.last
      /\ DOMAIN pre' = DOMAIN pre
    BY DEF PreRun, Pre, LifecycleInv, LifecycleShape
<1>4. NewCheck("pre", c)
    BY <1>1, Recorded
<1>5. /\ root.made /\ root.text[c] # NoConfig /\ result.st # "whole"
    BY <1>2 DEF LifecycleInv, PreflightOwns
<1>6. /\ obs.pc \notin Answered
    BY <1>5 DEF LifecycleInv, ObserverBound
<1>7. LifecycleShape' BY <1>2, <1>3 DEF LifecycleInv, LifecycleShape
<1>8. ObserverOwns' BY <1>2 DEF LifecycleInv, ObserverOwns
<1>9. ObserverBound' BY <1>2 DEF LifecycleInv, ObserverBound
<1>10. PreflightOwns' BY <1>2, <1>3 DEF LifecycleInv, PreflightOwns
<1>11. ChecksStand' BY <1>2, <1>4, <1>5, <1>6 DEF LifecycleInv, ChecksStand, NewCheck
<1>12. ChecksMade' BY <1>2, <1>4, <1>6 DEF LifecycleInv, ChecksMade, RanBy, NewCheck
<1>13. EventSeen' BY <1>2 DEF EventSeen
<1>14. ObserverFirst' BY <1>2 DEF LifecycleInv, ObserverFirst
<1> QED BY <1>7, <1>8, <1>9, <1>10, <1>11, <1>12, <1>13, <1>14 DEF LifecycleInv

(* The program has ended, in time.                                         *)
LEMMA PreRanInv ==
    ASSUME LifecycleInv, PreRan
    PROVE  LifecycleInv'
<1>1. /\ UNCHANGED <<doc, intact, clock, events, root, result, report, obs, ran>>
    BY DEF PreRan, Rest, others, jobFiles
<1>2. /\ (pre.pc = "ran envoy" /\ pre'.pc = "verify nft") \/ (pre.pc = "ran nft" /\ pre'.pc = "create result")
      /\ pre'.in = pre.in /\ pre'.ev = pre.ev /\ pre'.last = clock
      /\ DOMAIN pre' = DOMAIN pre
    BY DEF PreRan, LifecycleInv, LifecycleShape
<1>3. LifecycleShape' BY <1>1, <1>2 DEF LifecycleInv, LifecycleShape
<1>4. ObserverOwns' BY <1>1 DEF LifecycleInv, ObserverOwns
<1>5. ObserverBound' BY <1>1 DEF LifecycleInv, ObserverBound
<1>6. PreflightOwns' BY <1>1, <1>2 DEF LifecycleInv, PreflightOwns
<1>7. ChecksStand' BY <1>1 DEF LifecycleInv, ChecksStand
<1>8. ChecksMade' BY <1>1, <1>2 DEF LifecycleInv, ChecksMade, RanBy
<1>9. EventSeen' BY <1>2 DEF EventSeen
<1>10. ObserverFirst' BY <1>1 DEF LifecycleInv, ObserverFirst
<1> QED BY <1>3, <1>4, <1>5, <1>6, <1>7, <1>8, <1>9, <1>10 DEF LifecycleInv

(* It creates the result.                                                  *)
LEMMA PreCreateResultInv ==
    ASSUME LifecycleInv, PreCreateResult
    PROVE  LifecycleInv'
<1>1. /\ pre.pc = "create result"
      /\ UNCHANGED <<doc, intact, clock, events, root, report, obs, ran>>
    BY DEF PreCreateResult, others, Rest
<1>2. /\ pre'.pc = "result" /\ pre'.in = pre.in
      /\ pre'.ev = pre.ev /\ pre'.last = clock /\ DOMAIN pre' = DOMAIN pre
    BY DEF PreCreateResult, LifecycleInv, LifecycleShape
<1>3. /\ result'.st = "empty" /\ result.st = "absent"
    BY DEF PreCreateResult, NoResult, Exists
<1>4. LifecycleShape' BY <1>1, <1>2 DEF LifecycleInv, LifecycleShape
<1>5. ObserverOwns' BY <1>1 DEF LifecycleInv, ObserverOwns
<1>6. ObserverBound' BY <1>1, <1>3 DEF LifecycleInv, ObserverBound
<1>7. PreflightOwns' BY <1>1, <1>2, <1>3 DEF LifecycleInv, PreflightOwns
<1>8. ChecksStand' BY <1>1 DEF LifecycleInv, ChecksStand
<1>9. ChecksMade' BY <1>1 DEF LifecycleInv, ChecksMade, RanBy
<1>10. EventSeen' BY <1>2 DEF EventSeen
<1>11. ObserverFirst' BY <1>1 DEF LifecycleInv, ObserverFirst
<1> QED BY <1>4, <1>5, <1>6, <1>7, <1>8, <1>9, <1>10, <1>11 DEF LifecycleInv

(* It writes the result on its documents.                                  *)
LEMMA PreResultInv ==
    ASSUME LifecycleInv, PreResult
    PROVE  LifecycleInv'
<1>1. /\ pre.pc = "result"
      /\ UNCHANGED <<doc, intact, clock, events, root, report, obs, ran>>
    BY DEF PreResult, Pre, others, Rest
<1>2. /\ pre'.pc = "done" /\ pre'.in = pre.in
      /\ pre'.ev = pre.ev /\ pre'.last = pre.last /\ DOMAIN pre' = DOMAIN pre
    BY DEF PreResult, Pre
<1>3. /\ result'.st = "whole" /\ result'.in = pre.in
    BY DEF PreResult
<1>4. result.st # "whole"
    BY <1>1 DEF LifecycleInv, PreflightOwns
<1>5. LifecycleShape' BY <1>1, <1>2 DEF LifecycleInv, LifecycleShape
<1>6. ObserverOwns' BY <1>1 DEF LifecycleInv, ObserverOwns
<1>7. ObserverBound' BY <1>1, <1>4 DEF LifecycleInv, ObserverBound
<1>8. PreflightOwns' BY <1>1, <1>2, <1>3 DEF LifecycleInv, PreflightOwns
<1>9. ChecksStand' BY <1>1 DEF LifecycleInv, ChecksStand
<1>10. ChecksMade' BY <1>1 DEF LifecycleInv, ChecksMade, RanBy
<1>11. EventSeen' BY <1>2 DEF EventSeen
<1>12. ObserverFirst' BY <1>1 DEF LifecycleInv, ObserverFirst
<1> QED BY <1>5, <1>6, <1>7, <1>8, <1>9, <1>10, <1>11, <1>12 DEF LifecycleInv

(* A refusal ends the process as a kill does.                              *)
LEMMA RefusalIsDeath ==
    /\ ObserverRefuses => KillObserver
    /\ PreflightRefuses => KillPreflight
<1>1. ObserverRefuses => KillObserver BY DEF ObserverRefuses
<1>2. PreflightRefuses => KillPreflight BY DEF PreflightRefuses
<1> QED BY <1>1, <1>2

(* A step of another program, of systemd or of the clock.                  *)
LEMMA OthersInv ==
    ASSUME LifecycleInv, Others \/ ClockTicks \/ UNCHANGED lifecycleVars
    PROVE  LifecycleInv'
<1> USE DEF lifecycleVars, others, jobFiles
<1> HIDE DEF jobFiles
<1>0. doc \in [Docs -> 1 .. 3] /\ clock \in Nat BY DEF LifecycleInv, LifecycleShape
<1>1. CASE UNCHANGED lifecycleVars BY <1>0, <1>1, OthersKeep
<1>2. CASE ClockTicks BY <1>0, <1>2, OthersKeep DEF ClockTicks
<1>3. CASE ClockIsSet BY <1>0, <1>3, OthersKeep DEF ClockIsSet
<1>4. ASSUME NEW w \in {"table", "uid"}, ComeOrGo(w) PROVE LifecycleInv'
    BY <1>0, <1>4, OthersKeep DEF ComeOrGo
<1>5. ASSUME NEW c \in Configs, OverwriteConfig(c) PROVE LifecycleInv'
    BY <1>5, OverwriteConfigInv
<1>6. ASSUME NEW f \in Programs, ReplaceProgram(f) PROVE LifecycleInv'
    BY <1>0, <1>6, OthersKeep DEF ReplaceProgram
<1>7. ASSUME NEW d \in Docs, ReplaceDocument(d) PROVE LifecycleInv'
  <2>1. PICK v \in Versions(d) : doc' = [doc EXCEPT ![d] = v] BY <1>7 DEF ReplaceDocument
  <2>2. v \in 1 .. 3 BY DEF Versions
  <2>3. doc' \in [Docs -> 1 .. 3] BY <1>0, <2>1, <2>2
  <2> QED BY <1>0, <1>7, <2>3, OthersKeep DEF ReplaceDocument
<1> QED BY <1>1, <1>2, <1>3, <1>4, <1>5, <1>6, <1>7 DEF Others

(* Every step keeps the invariant.                                         *)
LEMMA LifecycleStep ==
    ASSUME LifecycleInv, LifecycleNext \/ UNCHANGED lifecycleVars
    PROVE  LifecycleInv'
<1>1. CASE StartObserver BY <1>1, StartObserverInv
<1>2. CASE StartPreflight BY <1>2, StartPreflightInv
<1>3. CASE KillObserver \/ ObserverRefuses BY <1>3, KillObserverInv, RefusalIsDeath
<1>4. CASE KillPreflight \/ PreflightRefuses BY <1>4, KillPreflightInv, RefusalIsDeath
<1>5. CASE ObserverSteps
    BY <1>5, ObsReadInv, ObsExistsInv, ObsTablesInv, ObsUidsInv, ObsCreateEventsInv,
       ObsAnnounceInv, ObsRenderInv, ObsWaitInv, ObsValidateInv, ObsVerifyBeforeInv,
       ObsVerifyAfterInv, ObsCheckInv, ObsLookInv, ObsFinishInv, ObsCreateReportInv, ObsReportInv
       DEF ObserverSteps
<1>6. CASE PreflightSteps
    BY <1>6, PreReadInv, PreExistsInv, PreWaitInv, PreRenderInv, PreMkdirInv, PreWriteConfigsInv,
       PreVerifyInv, PreRunInv, PreRanInv, PreCreateResultInv, PreResultInv DEF PreflightSteps
<1>7. CASE Others \/ ClockTicks \/ UNCHANGED lifecycleVars BY <1>7, OthersInv
<1> QED BY <1>1, <1>2, <1>3, <1>4, <1>5, <1>6, <1>7 DEF LifecycleNext, Observer, Preflight

(* The invariant holds before a unit is started.                           *)
LEMMA LifecycleStarts == LifecycleInit => LifecycleInv
<1> SUFFICES ASSUME LifecycleInit PROVE LifecycleInv
    OBVIOUS
<1> USE DEF LifecycleInit, IdleObs, IdlePre, NoEvent, NoRoot, NoResult, NoReport, NoDocs, NoConfig
<1>1. LifecycleShape BY DEF LifecycleShape
<1>2. ObserverOwns /\ ObserverBound BY DEF ObserverOwns, ObserverBound
<1>3. PreflightOwns BY DEF PreflightOwns
<1>4. ChecksStand /\ ChecksMade BY DEF ChecksStand, ChecksMade
<1>5. EventSeen /\ ObserverFirst BY DEF EventSeen, ObserverFirst
<1> QED BY <1>1, <1>2, <1>3, <1>4, <1>5 DEF LifecycleInv

(* What holds throughout a job of the preflight unit and the observer      *)
(* unit: their inductive invariant.                                        *)
THEOREM LifecycleInvariant == LifecycleSpec => []LifecycleInv
<1>1. LifecycleInit => LifecycleInv BY LifecycleStarts
<1>2. LifecycleInv /\ [LifecycleNext]_lifecycleVars => LifecycleInv' BY LifecycleStep
<1> QED BY <1>1, <1>2, PTL DEF LifecycleSpec

(* Nothing is created for a preflight unless an observer of the same       *)
(* documents had announced itself, shortly before and within the plan.     *)
THEOREM ObserverIsFirst == LifecycleSpec => []ObserverFirst
<1>1. LifecycleInv => ObserverFirst BY DEF LifecycleInv
<1> QED BY <1>1, LifecycleInvariant, PTL

(* A report, the result, the readiness event and the directory name the    *)
(* same documents, and these belong together.                              *)
THEOREM ReportedEvidenceAgrees == LifecycleSpec => []EvidenceAgrees
<1>1. ASSUME LifecycleInv, report.st = "whole"
      PROVE  /\ report.in = obs.in /\ events.in = obs.in /\ root.in = pre.in /\ result.in = pre.in
             /\ SameInputs(result.in, obs.in) /\ PlanBound(pre.in)
             /\ PlanBound(obs.in) /\ ManifestBound(obs.in) /\ ContractBound(obs.in)
  <2>0. obs.pc = "done" /\ report.in = obs.in BY <1>1 DEF LifecycleInv, ObserverOwns
  <2>1. events.in = obs.in BY <1>1, <2>0 DEF LifecycleInv, ObserverOwns
  <2>2. /\ result.st = "whole" /\ SameInputs(result.in, obs.in)
        /\ PlanBound(obs.in) /\ ManifestBound(obs.in) /\ ContractBound(obs.in)
      BY <1>1, <2>0 DEF LifecycleInv, ObserverBound
  <2>3. pre.pc = "done" /\ result.in = pre.in BY <1>1, <2>2 DEF LifecycleInv, PreflightOwns
  <2>4. root.in = pre.in /\ PlanBound(pre.in) BY <1>1, <2>3 DEF LifecycleInv, PreflightOwns
  <2> QED BY <2>0, <2>1, <2>2, <2>3, <2>4
<1>2. LifecycleInv => EvidenceAgrees
  <2> SUFFICES ASSUME LifecycleInv, report.st = "whole"
               PROVE  /\ \A d \in Docs \ {"job"}, in \in {events.in, result.in, root.in} :
                            report.in[d] = in[d]
                      /\ PlanBound(root.in) /\ PlanBound(report.in)
                      /\ ManifestBound(report.in) /\ ContractBound(report.in)
      BY DEF EvidenceAgrees
  <2>1. \A d \in Docs \ {"job"} : result.in[d] = obs.in[d]
      BY <1>1 DEF SameInputs, BindingNames, Docs
  <2> QED BY <1>1, <2>1
<1> QED BY <1>2, LifecycleInvariant, PTL

(* Behind a report, each process had each program check the text rendered  *)
(* from the reported contract, and the preflight ran the pinned programs.  *)
THEOREM ReportedChecksWereOfRendered == LifecycleSpec => []ChecksWereOfRendered
<1>1. LifecycleInv => ChecksWereOfRendered
  <2> SUFFICES ASSUME LifecycleInv, report.st = "whole"
               PROVE  /\ \A u \in ran : u.text = report.in["contract"] /\ (u.by = "pre" => u.pinned)
                      /\ \A c \in Configs, b \in {"obs", "pre"} : RanBy(b, c)
      BY DEF ChecksWereOfRendered, RanBy
  <2>1. obs.pc = "done" /\ report.in = obs.in BY DEF LifecycleInv, ObserverOwns
  <2>2. pre.pc = "done" BY <2>1 DEF LifecycleInv, ObserverBound, PreflightOwns
  <2>3. \A u \in ran : u.text = report.in["contract"] /\ (u.by = "pre" => u.pinned)
      BY <2>1 DEF LifecycleInv, ChecksStand
  <2>4. RanBy("obs", "envoy") /\ RanBy("obs", "nft") BY <2>1 DEF LifecycleInv, ChecksMade
  <2>5. RanBy("pre", "envoy") /\ RanBy("pre", "nft") BY <2>2 DEF LifecycleInv, ChecksMade
  <2> QED BY <2>3, <2>4, <2>5 DEF Configs
<1> QED BY <1>1, LifecycleInvariant, PTL

=============================================================================
