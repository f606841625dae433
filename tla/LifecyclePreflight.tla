------------------------- MODULE LifecyclePreflight -------------------------
(***************************************************************************)
(* The gateway lifecycle preflight                                         *)
(* (ops/publication-runner/deployment/lifecycle-preflight.mjs,             *)
(* observe-gateway-lifecycle.mjs and the documents they bind): systemd     *)
(* starts two root processes that share only the files of a job.  The      *)
(* observer looks at the machine and announces itself in an event file;    *)
(* the preflight waits for the event, writes the rendered gateway files,   *)
(* has Envoy and nft check them and writes a result; the observer waits    *)
(* for the result, repeats both checks, looks again, appends its second    *)
(* event and writes a report.                                              *)
(*                                                                         *)
(* Neither process has a handler that undoes anything, so an error, a      *)
(* refusal and a kill leave the same files behind.  Every read of a shared *)
(* file, every look at the machine and every command is a step, and a file *)
(* is created empty before its text is written.  A version stands for the  *)
(* digest of a document: a job and a contract pin the plan, a profile pins *)
(* the manifest of their version, and their third version pins the first,  *)
(* as a document that differs elsewhere does.  All plans have the same     *)
(* lifetime.                                                               *)
(***************************************************************************)
EXTENDS Integers, Sequences

CONSTANTS
    PlanStart, PlanEnd,  \* createdAt and expiresAt of the plan
    MinRemaining,        \* MIN_PREFLIGHT_REMAINING_MS
    MaxEventAge,         \* MAX_OBSERVER_EVENT_AGE_MS
    ObserverWait,        \* OBSERVER_WAIT_TIMEOUT_MS
    ResultWait,          \* MAX_WAIT_MS of the observer, or the job's runtimeMaxMs
    MaxClock,            \* bound: clock values
    MaxChanges,          \* bound: what others change on the machine
    MaxStarts            \* bound: how often a unit is started

VARIABLES
    doc,        \* the version of each document on disk
    intact,     \* the programs whose bytes are the pinned ones
    world,      \* what others run: the job's table, a dedicated identity
    clock,      \* the wall clock
    changes,    \* changes made so far
    starts,     \* starts of each unit
    events, root, result, report,  \* the files of the job
    obs, pre,   \* the processes
    ran         \* history: the native checks, and what they ran and read

jobFiles == <<events, root, result, report>>
others == <<doc, intact, world, changes>>
lifecycleVars == <<others, clock, starts, jobFiles, obs, pre, ran>>

ASSUME LifecycleAssumption ==
    /\ {PlanStart, PlanEnd, MinRemaining, MaxEventAge, ObserverWait, ResultWait,
        MaxClock, MaxChanges, MaxStarts} \subseteq Nat
    /\ PlanStart < PlanEnd /\ PlanEnd <= MaxClock

-----------------------------------------------------------------------------
Docs == {"job", "profile", "plan", "contract", "manifest"}
ReadOrder == <<"job", "profile", "plan", "contract", "manifest">>
Programs == {"runtime", "envoy", "nft"}  \* runtime: Node and the closure of the manifest
Configs == {"envoy", "nft"}              \* a configuration is checked by its program
NoConfig == 0
Foreign == 4                             \* bytes that no version renders to

Versions(d) == IF d \in {"plan", "manifest"} THEN 1..2 ELSE 1..3
Pinned(v) == IF v = 3 THEN 1 ELSE v

NoDocs == [d \in Docs |-> 0]
NoEvent == [st |-> "absent", in |-> NoDocs, at |-> 0]
NoRoot == [made |-> FALSE, in |-> NoDocs, planned |-> 0, text |-> [c \in Configs |-> NoConfig]]
NoResult == [st |-> "absent", in |-> NoDocs, ev |-> NoEvent, start |-> 0, finish |-> 0]
NoReport == [st |-> "absent", in |-> NoDocs]
IdleObs == [pc |-> "idle", in |-> NoDocs, until |-> 0, last |-> 0, start |-> 0,
            ordered |-> TRUE, got |-> NoResult]
IdlePre == [pc |-> "idle", in |-> NoDocs, until |-> 0, last |-> 0, start |-> 0, ev |-> NoEvent]

Halted == {"idle", "failed", "done"}
Exists(f) == f.st # "absent"
InPlan(t) == PlanStart <= t /\ t < PlanEnd
LifetimeLeft == InPlan(clock) /\ PlanEnd - clock >= MinRemaining
Earliest(a, b) == IF a < b THEN a ELSE b

(* Mutant: a profile replaced between the two processes' reads passes. *)
NamesWithoutProfile == {"plan", "manifest", "contract"}

(* What the readiness event and the result repeat of the inputs. *)
BindingNames == {"plan", "profile", "manifest", "contract"}
SameInputs(a, b) == \A d \in BindingNames : a[d] = b[d]

(* The two parsers and the cross-binding of the drill contract. *)
PlanBound(in) == in["plan"] = Pinned(in["job"])
ManifestBound(in) == in["manifest"] = Pinned(in["profile"])
ContractBound(in) == Pinned(in["contract"]) = in["plan"]

(* Opening a document and keeping its text, in the processes' order. *)
NextDoc(in) == LET i == CHOOSE i \in 1..5 : /\ in[ReadOrder[i]] = 0
                                            /\ \A j \in 1..(i - 1) : in[ReadOrder[j]] # 0
               IN ReadOrder[i]
AllRead(in) == \A d \in Docs : in[d] # 0
WithNext(in) == [in EXCEPT ![NextDoc(in)] = doc[NextDoc(in)]]

(* The running program is checked once the profile is known, the closure   *)
(* once the manifest is.                                                   *)
IdentityHolds(in) == NextDoc(in) = "profile" => "runtime" \in intact
ClosureHolds(in) == NextDoc(in) = "manifest" => ManifestBound(WithNext(in)) /\ "runtime" \in intact

-----------------------------------------------------------------------------
LifecycleInit ==
    /\ doc = [d \in Docs |-> 1] /\ intact = Programs /\ world = [table |-> FALSE, uid |-> FALSE]
    /\ clock = PlanStart /\ changes = 0 /\ starts = [obs |-> 0, pre |-> 0]
    /\ events = NoEvent /\ root = NoRoot /\ result = NoResult /\ report = NoReport
    /\ obs = IdleObs /\ pre = IdlePre /\ ran = {}

(* systemd starts a unit, which never restarts by itself; an operator may. *)
StartObserver ==
    /\ obs.pc \in {"idle", "failed"} /\ starts.obs < MaxStarts
    /\ obs' = [IdleObs EXCEPT !.pc = "read"] /\ starts' = [starts EXCEPT !.obs = @ + 1]
    /\ UNCHANGED <<others, clock, jobFiles, pre, ran>>

StartPreflight ==
    /\ pre.pc \in {"idle", "failed"} /\ starts.pre < MaxStarts
    /\ pre' = [IdlePre EXCEPT !.pc = "read"] /\ starts' = [starts EXCEPT !.pre = @ + 1]
    /\ UNCHANGED <<others, clock, jobFiles, obs, ran>>

(* A process dies in any step, its files stay. *)
KillObserver ==
    /\ obs.pc \notin Halted /\ obs' = [IdleObs EXCEPT !.pc = "failed"]
    /\ UNCHANGED <<others, clock, starts, jobFiles, pre, ran>>

KillPreflight ==
    /\ pre.pc \notin Halted /\ pre' = [IdlePre EXCEPT !.pc = "failed"]
    /\ UNCHANGED <<others, clock, starts, jobFiles, obs, ran>>

Rest == <<others, clock, starts>>
Obs(from, to) == obs.pc = from /\ obs' = [obs EXCEPT !.pc = to]
Pre(from, to) == pre.pc = from /\ pre' = [pre EXCEPT !.pc = to]

-----------------------------------------------------------------------------
(* The observer. *)

ObsReadOk == IdentityHolds(obs.in) /\ ClosureHolds(obs.in)
             /\ (NextDoc(obs.in) = "plan" => PlanBound(WithNext(obs.in)))
ObsRead ==
    /\ obs.pc = "read" /\ ObsReadOk
    /\ obs' = [obs EXCEPT !.in = WithNext(@), !.pc = IF AllRead(WithNext(obs.in)) THEN "exists" ELSE "read"]
    /\ UNCHANGED <<Rest, jobFiles, pre, ran>>

Untouched == ~Exists(result) /\ ~Exists(events) /\ ~Exists(report) /\ ~root.made
ObsExists ==
    /\ obs.pc = "exists" /\ Untouched /\ InPlan(clock)
    /\ obs' = [obs EXCEPT !.pc = "tables1", !.start = clock]
    /\ UNCHANGED <<Rest, jobFiles, pre, ran>>

NoTable == "nft" \in intact /\ ~world.table
NoIdentity == ~world.uid

(* A look at the machine: the tables, then the processes. *)
ObsTables ==
    /\ NoTable
    /\ \/ Obs("tables1", "uids1")
       \/ Obs("tables2", "uids2")
    /\ UNCHANGED <<Rest, jobFiles, pre, ran>>
ObsUids ==
    /\ NoIdentity
    /\ \/ Obs("uids1", "create")
       \/ Obs("uids2", "finish")
    /\ UNCHANGED <<Rest, jobFiles, pre, ran>>

ObsCreateEvents ==
    /\ ~Exists(events) /\ Obs("create", "announce")
    /\ events' = [NoEvent EXCEPT !.st = "empty"]
    /\ UNCHANGED <<Rest, root, result, report, pre, ran>>

ObsAnnounce ==
    /\ Obs("announce", "render")
    /\ events' = [st |-> "one", in |-> obs.in, at |-> obs.start]
    /\ UNCHANGED <<Rest, root, result, report, pre, ran>>

(* Mutant: an event of any age announces the observer. *)
EventOfAnyAge(ev, in) ==
    /\ ev.st = "one" /\ SameInputs(ev.in, in) /\ InPlan(ev.at) /\ ev.at <= clock

(* parseObserverReadinessEvent, at the time of the reading process. *)
EventAnswers(ev, in) ==
    /\ ev.st = "one" /\ SameInputs(ev.in, in)
    /\ InPlan(ev.at) /\ ev.at <= clock /\ clock - ev.at <= MaxEventAge

(* renderLifecyclePreflightPlan, which both processes run. *)
Renders(in, ev) ==
    /\ PlanBound(in) /\ LifetimeLeft /\ ManifestBound(in) /\ ContractBound(in) /\ EventAnswers(ev, in)

ObsRenderOk == Renders(obs.in, [st |-> "one", in |-> obs.in, at |-> obs.start])
ObsRender ==
    /\ obs.pc = "render" /\ ObsRenderOk
    /\ obs' = [obs EXCEPT !.pc = "wait", !.until = clock + Earliest(ResultWait, PlanEnd - clock - 1)]
    /\ UNCHANGED <<Rest, jobFiles, pre, ran>>

(* validateLifecyclePreflightResult against the observer's own plan. *)
ResultAnswers(r) ==
    /\ r.st = "whole" /\ SameInputs(r.in, obs.in)
    /\ r.ev.at = obs.start /\ SameInputs(r.ev.in, obs.in)
    /\ obs.start <= r.start /\ PlanStart <= r.start /\ r.start <= r.finish /\ r.finish < PlanEnd

ObsWait ==
    /\ obs.pc = "wait" /\ clock <= obs.until /\ Exists(result) /\ ResultAnswers(result)
    /\ obs' = [obs EXCEPT !.pc = "validate", !.got = result, !.until = 0]
    /\ UNCHANGED <<Rest, jobFiles, pre, ran>>

(* The time and the programs' digests, before anything runs. *)
ObsValidate ==
    /\ InPlan(clock) /\ Configs \subseteq intact
    /\ obs.pc = "validate"
    /\ obs' = [obs EXCEPT !.pc = "before", !.last = clock, !.ordered = obs.got.finish <= clock /\ obs.start <= clock]
    /\ UNCHANGED <<Rest, jobFiles, pre, ran>>

(* verifyArtifactBinding of both configurations against the rendered text. *)
ArtifactsBefore == \A c \in Configs : root.text[c] = obs.in["contract"]
NotAgain == TRUE  \* Mutant: the files are not read again after the checks.
ArtifactsAfter == \A c \in Configs : root.text[c] = obs.in["contract"]

ObsVerifyBefore == ArtifactsBefore /\ Obs("before", "envoy") /\ UNCHANGED <<Rest, jobFiles, pre, ran>>
ObsVerifyAfter == ArtifactsAfter /\ Obs("after", "look") /\ UNCHANGED <<Rest, jobFiles, pre, ran>>

(* A native program checks the configuration of its name. *)
Check(by, c) == ran' = ran \cup {[by |-> by, tool |-> c, pinned |-> c \in intact, text |-> root.text[c]]}
ObsCheck ==
    /\ \/ Check("obs", "envoy") /\ Obs("envoy", "nft")
       \/ Check("obs", "nft") /\ Obs("nft", "after")
    /\ UNCHANGED <<Rest, jobFiles, pre>>

ObsLook ==
    /\ InPlan(clock) /\ obs.pc = "look"
    /\ obs' = [obs EXCEPT !.pc = "tables2", !.last = clock, !.ordered = @ /\ obs.last <= clock /\ obs.start <= clock]
    /\ UNCHANGED <<Rest, jobFiles, pre, ran>>

(* appendExclusiveLifecycleEvent: the stream still holds the first event. *)
Unappended == events = [st |-> "one", in |-> obs.in, at |-> obs.start]
ObsFinish ==
    /\ InPlan(clock) /\ Unappended /\ obs.pc = "finish"
    /\ events' = [events EXCEPT !.st = "two"]
    /\ obs' = [obs EXCEPT !.pc = "create report", !.ordered = @ /\ obs.last <= clock /\ obs.start < clock]
    /\ UNCHANGED <<Rest, root, result, report, pre, ran>>

(* buildLifecycleObserverReport refuses times out of order. *)
ObsCreateReport ==
    /\ obs.ordered /\ ResultAnswers(obs.got) /\ ~Exists(report) /\ Obs("create report", "report")
    /\ report' = [NoReport EXCEPT !.st = "empty"]
    /\ UNCHANGED <<Rest, events, root, result, pre, ran>>

ObsReport ==
    /\ Obs("report", "done")
    /\ report' = [st |-> "whole", in |-> obs.in]
    /\ UNCHANGED <<Rest, events, root, result, pre, ran>>

-----------------------------------------------------------------------------
(* The preflight. *)

PreReadOk == IdentityHolds(pre.in) /\ ClosureHolds(pre.in)
PreRead ==
    /\ pre.pc = "read" /\ PreReadOk
    /\ pre' = [pre EXCEPT !.in = WithNext(@), !.pc = IF AllRead(WithNext(pre.in)) THEN "exists" ELSE "read"]
    /\ UNCHANGED <<Rest, jobFiles, obs, ran>>

Unused == ~root.made /\ ~Exists(result)
PreExistsOk == Configs \subseteq intact /\ Unused /\ PlanBound(pre.in) /\ LifetimeLeft
PreExists ==
    /\ pre.pc = "exists" /\ PreExistsOk
    /\ pre' = [pre EXCEPT !.pc = "wait", !.until = clock + Earliest(ObserverWait, PlanEnd - clock - 1)]
    /\ UNCHANGED <<Rest, jobFiles, obs, ran>>

(* An empty event file is not a missing one: its reader refuses it. *)
PreWait ==
    /\ pre.pc = "wait" /\ clock <= pre.until /\ events.st \in {"one", "two"}
    /\ pre' = [pre EXCEPT !.pc = "render", !.ev = events, !.until = 0]
    /\ UNCHANGED <<Rest, jobFiles, obs, ran>>

PreRender ==
    /\ pre.pc = "render" /\ Renders(pre.in, pre.ev)
    /\ pre' = [pre EXCEPT !.pc = "mkdir", !.last = clock]
    /\ UNCHANGED <<Rest, jobFiles, obs, ran>>

PreMkdirOk == Unused /\ InPlan(clock) /\ pre.last <= clock
PreMkdir ==
    /\ pre.pc = "mkdir" /\ PreMkdirOk
    /\ pre' = [pre EXCEPT !.pc = "config envoy", !.last = clock, !.start = clock]
    /\ root' = [NoRoot EXCEPT !.made = TRUE, !.in = pre.in, !.planned = pre.last]
    /\ UNCHANGED <<Rest, events, result, report, obs, ran>>

WriteRendered(c) == root.text[c] = NoConfig /\ root' = [root EXCEPT !.text[c] = pre.in["contract"]]
PreWriteConfigs ==
    /\ \/ WriteRendered("envoy") /\ Pre("config envoy", "config nft")
       \/ WriteRendered("nft") /\ Pre("config nft", "verify envoy")
    /\ UNCHANGED <<Rest, events, result, report, obs, ran>>

(* One command: the clock and the program's digest, the program, the clock. *)
PreVerify(c) ==
    /\ InPlan(clock) /\ pre.last <= clock /\ c \in intact
    /\ \/ c = "envoy" /\ pre.pc = "verify envoy" /\ pre' = [pre EXCEPT !.pc = "run envoy", !.last = clock]
       \/ c = "nft" /\ pre.pc = "verify nft" /\ pre' = [pre EXCEPT !.pc = "run nft", !.last = clock]
    /\ UNCHANGED <<Rest, jobFiles, obs, ran>>
PreRun(c) ==
    /\ Check("pre", c)
    /\ \/ c = "envoy" /\ Pre("run envoy", "ran envoy")
       \/ c = "nft" /\ Pre("run nft", "ran nft")
    /\ UNCHANGED <<Rest, jobFiles, obs>>
PreRan ==
    /\ InPlan(clock) /\ pre.last <= clock
    /\ \/ pre.pc = "ran envoy" /\ pre' = [pre EXCEPT !.pc = "verify nft", !.last = clock]
       \/ pre.pc = "ran nft" /\ pre' = [pre EXCEPT !.pc = "create result", !.last = clock]
    /\ UNCHANGED <<Rest, jobFiles, obs, ran>>

PreCreateResult ==
    /\ InPlan(clock) /\ pre.last <= clock /\ ~Exists(result)
    /\ pre.pc = "create result" /\ pre' = [pre EXCEPT !.pc = "result", !.last = clock]
    /\ result' = [NoResult EXCEPT !.st = "empty"]
    /\ UNCHANGED <<Rest, events, root, report, obs, ran>>

PreResult ==
    /\ Pre("result", "done")
    /\ result' = [st |-> "whole", in |-> pre.in, ev |-> pre.ev, start |-> pre.start, finish |-> pre.last]
    /\ UNCHANGED <<Rest, events, root, report, obs, ran>>

-----------------------------------------------------------------------------
(* A refusal: the check of the current step fails, or a wait has run out.  *)

ObserverSteps == ObsRead \/ ObsExists \/ ObsTables \/ ObsUids \/ ObsCreateEvents \/ ObsAnnounce
    \/ ObsRender \/ ObsWait \/ ObsValidate \/ ObsVerifyBefore \/ ObsVerifyAfter \/ ObsCheck
    \/ ObsLook \/ ObsFinish \/ ObsCreateReport \/ ObsReport
PreflightSteps == PreRead \/ PreExists \/ PreWait \/ PreRender \/ PreMkdir \/ PreWriteConfigs
    \/ (\E c \in Configs : PreVerify(c) \/ PreRun(c)) \/ PreRan \/ PreCreateResult \/ PreResult

(* Mutant: the observer's wait has no deadline. *)
PollsForEver == obs.pc = "wait" /\ ~Exists(result)
ObserverPolls == obs.pc = "wait" /\ clock <= obs.until /\ ~Exists(result)
PreflightPolls == pre.pc = "wait" /\ clock <= pre.until /\ ~Exists(events)

ObserverRefuses == ~ObserverPolls /\ ~ENABLED ObserverSteps /\ KillObserver
PreflightRefuses == ~PreflightPolls /\ ~ENABLED PreflightSteps /\ KillPreflight

-----------------------------------------------------------------------------
(* What others do: a document or a program is replaced, a rendered file is *)
(* overwritten, a table or a process comes and goes, the clock is set.     *)
(* Changes that no process can notice any more are left out.               *)

SomeRun == obs.pc \notin Halted \/ pre.pc \notin Halted
WillRead(d) == \/ obs.in[d] = 0 /\ obs.pc # "failed"
               \/ pre.in[d] = 0 /\ pre.pc # "failed"
Change == SomeRun /\ changes < MaxChanges /\ changes' = changes + 1

ReplaceDocument(d) ==
    /\ Change /\ WillRead(d) /\ \E v \in Versions(d) \ {doc[d]} : doc' = [doc EXCEPT ![d] = v]
    /\ UNCHANGED <<intact, world, clock, starts, jobFiles, obs, pre, ran>>
ReplaceProgram(f) ==
    /\ Change /\ f \in intact /\ intact' = intact \ {f}
    /\ UNCHANGED <<doc, world, clock, starts, jobFiles, obs, pre, ran>>
OverwriteConfig(c) ==
    /\ Change /\ root.text[c] \in 1..3 /\ root' = [root EXCEPT !.text[c] = Foreign]
    /\ UNCHANGED <<doc, intact, world, clock, starts, events, result, report, obs, pre, ran>>
ComeOrGo(w) ==
    /\ Change /\ obs.pc \notin Halted /\ world' = [world EXCEPT ![w] = ~@]
    /\ UNCHANGED <<doc, intact, clock, starts, jobFiles, obs, pre, ran>>
ClockIsSet ==
    /\ Change /\ \E t \in 0..MaxClock : t # clock /\ clock' = t
    /\ UNCHANGED <<doc, intact, world, starts, jobFiles, obs, pre, ran>>

ClockTicks == clock < MaxClock /\ clock' = clock + 1 /\ UNCHANGED <<others, starts, jobFiles, obs, pre, ran>>

Others == \/ \E d \in Docs : ReplaceDocument(d)
          \/ \E f \in Programs : ReplaceProgram(f)
          \/ \E c \in Configs : OverwriteConfig(c)
          \/ \E w \in {"table", "uid"} : ComeOrGo(w)
          \/ ClockIsSet

Observer == ObserverSteps \/ ObserverRefuses
Preflight == PreflightSteps \/ PreflightRefuses

LifecycleNext ==
    \/ StartObserver \/ StartPreflight \/ KillObserver \/ KillPreflight
    \/ Observer \/ Preflight \/ Others \/ ClockTicks

(* A running process goes on, and time passes. *)
LifecycleSpec ==
    /\ LifecycleInit /\ [][LifecycleNext]_lifecycleVars
    /\ WF_lifecycleVars(Observer) /\ WF_lifecycleVars(Preflight) /\ WF_lifecycleVars(ClockTicks)

-----------------------------------------------------------------------------
(* A report speaks of one set of documents that belong together: the       *)
(* observer's, the preflight's and the readiness event's, although each    *)
(* process opened them one after the other while they could be replaced.   *)
EvidenceAgrees ==
    report.st = "whole" =>
        /\ \A d \in Docs \ {"job"}, in \in {events.in, result.in, root.in} : report.in[d] = in[d]
        /\ PlanBound(root.in)
        /\ PlanBound(report.in) /\ ManifestBound(report.in) /\ ContractBound(report.in)

(* Behind a report, each process had each native program check the text    *)
(* rendered from the reported contract, though the files could be          *)
(* overwritten at any time, and the preflight ran the pinned programs.     *)
(* (A program replaced after the observer's own digest check is not        *)
(* noticed, nor is a change that is undone.)                               *)
ChecksWereOfRendered ==
    report.st = "whole" =>
        /\ \A u \in ran : u.text = report.in["contract"] /\ (u.by = "pre" => u.pinned)
        /\ \A c \in Configs, b \in {"obs", "pre"} : \E u \in ran : u.by = b /\ u.tool = c

(* Nothing is created for a preflight unless an observer of the same       *)
(* documents had announced itself, not too long before and within the      *)
(* plan; that observer may have died since.                                *)
ObserverFirst ==
    root.made =>
        /\ events.st \in {"one", "two"} /\ \A d \in Docs \ {"job"} : events.in[d] = root.in[d]
        /\ InPlan(events.at) /\ events.at <= root.planned /\ root.planned <= events.at + MaxEventAge

(* Neither process waits for the other for ever, whichever of them dies:   *)
(* again and again no process is running.                                  *)
BothEnd == []<>(~SomeRun)
=============================================================================
