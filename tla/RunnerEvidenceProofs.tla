------------------------ MODULE RunnerEvidenceProofs ------------------------
(***************************************************************************)
(* Proofs about RunnerEvidence for any number of invocations, keys,        *)
(* registries, outputs and changes by the operator.                        *)
(*                                                                         *)
(* The argument for AcceptedIsOneRun follows a pair of invocation and      *)
(* output from the unit's events through observer, request, service and    *)
(* envelope: what an invocation sealed is never sealed again (Sealed), and *)
(* an observation exists only of an invocation that was cleaned up (Good). *)
(* The argument for KeyWasCurrent is that versions of the registry are     *)
(* only added: the second reading began after the envelope had come, so    *)
(* that the version in which it found the key lies in between.             *)
(***************************************************************************)
EXTENDS RunnerEvidence, TLAPS

States == {"inactive", "activating", "exited", "dead", "failed"}
CallFields == {"at", "context", "retained", "end", "left", "timer", "last", "version", "key",
               "envelope", "fetched"}
Fetched == {"read_again", "select_again", "verify"}

(* The pair e of an invocation and its output is what the unit sealed.     *)
Sealed(e) ==
    /\ e.run \in Runs /\ e.run <= unit.run
    /\ unit.state = "activating" => e.run # unit.run
    /\ sealed[e.run] = e.output

Good(e) == Sealed(e) /\ e.run \in cleaned

UnitOk ==
    /\ DOMAIN unit = {"state", "run", "started"}
    /\ unit.state \in States /\ unit.run \in 0 .. MaxRuns
    /\ DOMAIN sealed = Runs
    /\ unit.state # "inactive" => unit.run \in Runs
    /\ unit.state = "dead" => unit.run \in cleaned

FilesOk ==
    /\ DOMAIN files = {"events", "result", "output"}
    /\ files.events \notin {None, Failed} => Sealed(files.events)

SnapshotOk ==
    /\ DOMAIN snapshot = {"execution", "stop", "teardown"}
    /\ snapshot.stop # None => snapshot.stop.run \in cleaned

ObserverOk ==
    /\ DOMAIN observer = {"at", "events", "result"}
    /\ observer.at \in {"idle", "result", "build", "request"}
    /\ observer.at # "idle" => Sealed(observer.events)
    /\ observer.at = "request" => observer.events.run \in cleaned

RequestOk == request \notin {None, Reserved} => Good(request)
ServedOk == served # None => Good(served.observation)

EnvelopeOk ==
    call.at \in Fetched /\ call.envelope.observation # None => Good(call.envelope.observation)

HeldOk == held # None => Good(held) /\ held.output = retained.context.output

(* One chain of custody.                                                   *)
Custody ==
    /\ UnitOk /\ FilesOk /\ SnapshotOk /\ ObserverOk
    /\ RequestOk /\ ServedOk /\ EnvelopeOk /\ HeldOk
    /\ DOMAIN call = CallFields

(* The versions of the registry that an acquisition has seen.              *)
KeySeen ==
    /\ registry \in Seq(Registries) /\ Len(registry) # 0
    /\ call.at \in Fetched => call.fetched \in 1 .. Len(registry)
    /\ call.at = "select_again" => call.version \in call.fetched .. Len(registry)
    /\ call.at = "verify" => \E v \in call.fetched .. Len(registry) : call.key \in registry[v]
    /\ held # None => held.fetched \in 1 .. Len(registry)
    /\ KeyWasCurrent

USE DEF States, CallFields, Fetched

-----------------------------------------------------------------------------
(* What a step keeps of every pair: sealed outputs and cleaned-up          *)
(* invocations stay what they are.                                         *)
Grow == (\A e : Sealed(e) => Sealed(e)') /\ cleaned \subseteq cleaned'

LEMMA UnitStays ==
    ASSUME UnitOk, UNCHANGED <<unit, sealed, cleaned>>
    PROVE  UnitOk' /\ Grow
<1>1. unit' = unit /\ sealed' = sealed /\ cleaned' = cleaned OBVIOUS
<1>2. UnitOk' BY <1>1 DEF UnitOk
<1>3. \A e : Sealed(e) => Sealed(e)' BY <1>1 DEF Sealed
<1>4. QED BY <1>1, <1>2, <1>3 DEF Grow

LEMMA CustodyParts ==
    ASSUME Custody, Grow
    PROVE  /\ UNCHANGED files => FilesOk'
           /\ UNCHANGED snapshot => SnapshotOk'
           /\ UNCHANGED observer => ObserverOk'
           /\ UNCHANGED request => RequestOk'
           /\ UNCHANGED served => ServedOk'
           /\ UNCHANGED call => EnvelopeOk'
           /\ UNCHANGED <<retained, held>> => HeldOk'
<1>1. \A e : Good(e) => Good(e)' BY DEF Grow, Good
<1>2. UNCHANGED files => FilesOk' BY DEF Custody, FilesOk, Grow
<1>3. UNCHANGED snapshot => SnapshotOk' BY DEF Custody, SnapshotOk, Grow
<1>4. UNCHANGED observer => ObserverOk' BY DEF Custody, ObserverOk, Grow
<1>5. UNCHANGED request => RequestOk' BY <1>1 DEF Custody, RequestOk
<1>6. UNCHANGED served => ServedOk' BY <1>1 DEF Custody, ServedOk
<1>7. UNCHANGED call => EnvelopeOk' BY <1>1 DEF Custody, EnvelopeOk
<1>8. UNCHANGED <<retained, held>> => HeldOk' BY <1>1 DEF Custody, HeldOk
<1>9. QED BY <1>2, <1>3, <1>4, <1>5, <1>6, <1>7, <1>8

-----------------------------------------------------------------------------
(* The unit and its files.                                                 *)
LEMMA StartUnitKeeps ==
    ASSUME Custody, StartUnit
    PROVE  Custody'
<1>1. /\ unit.state \in {"inactive", "dead", "failed"} /\ unit.run < MaxRuns
      /\ unit' = [state |-> "activating", run |-> unit.run + 1, started |-> now]
      /\ UNCHANGED files /\ UNCHANGED snapshot /\ UNCHANGED observer /\ UNCHANGED request
      /\ UNCHANGED served /\ UNCHANGED call /\ UNCHANGED <<retained, held>>
      /\ sealed' = sealed /\ cleaned' = cleaned
      BY DEF StartUnit, watch, client
<1>2. UnitOk' BY <1>1, RunnerEvidenceAssumption DEF Custody, UnitOk, Runs
<1>3. Grow
      <2>1. ASSUME NEW e, Sealed(e) PROVE Sealed(e)'
            <3>1. unit.run \in 0 .. MaxRuns /\ e.run \in 1 .. MaxRuns /\ e.run <= unit.run
                  BY <2>1 DEF Custody, UnitOk, Sealed, Runs
            <3>2. e.run < unit'.run BY <1>1, <3>1, RunnerEvidenceAssumption
            <3>3. QED BY <1>1, <2>1, <3>1, <3>2, RunnerEvidenceAssumption DEF Sealed
      <2>2. QED BY <1>1, <2>1 DEF Grow
<1>4. QED BY <1>1, <1>2, <1>3, CustodyParts DEF Custody

(* The one step that seals: the invocation had not sealed anything.        *)
LEMMA UnitExitsKeeps ==
    ASSUME Custody, NEW o \in Outputs, UnitExits(o)
    PROVE  Custody'
<1>1. /\ unit.state = "activating" /\ unit' = [unit EXCEPT !.state = "exited"]
      /\ files' = [events |-> [run |-> unit.run, output |-> o,
                               started |-> unit.started, finished |-> now],
                   result |-> o, output |-> o]
      /\ sealed' = [sealed EXCEPT ![unit.run] = o] /\ cleaned' = cleaned
      /\ UNCHANGED snapshot /\ UNCHANGED observer /\ UNCHANGED request
      /\ UNCHANGED served /\ UNCHANGED call /\ UNCHANGED <<retained, held>>
      BY DEF UnitExits, watch, client
<1>2. UnitOk /\ unit.run \in Runs BY <1>1 DEF Custody, UnitOk
<1>3. unit'.state = "exited" /\ unit'.run = unit.run BY <1>1, <1>2 DEF UnitOk
<1>4. UnitOk' BY <1>1, <1>2 DEF UnitOk
<1>5. Grow
      <2>1. ASSUME NEW e, Sealed(e) PROVE Sealed(e)'
            <3>1. e.run \in Runs /\ e.run # unit.run BY <1>1, <2>1 DEF Sealed
            <3>2. sealed'[e.run] = sealed[e.run] BY <1>1, <1>2, <3>1 DEF UnitOk
            <3>3. QED BY <1>3, <2>1, <3>2 DEF Sealed
      <2>2. QED BY <1>1, <2>1 DEF Grow
<1>6. FilesOk'
      <2>1. files'.events.run = unit.run /\ files'.events.output = o BY <1>1
      <2>2. sealed'[unit.run] = o BY <1>1, <1>2 DEF UnitOk
      <2>3. unit.run <= unit.run BY <1>2, RunnerEvidenceAssumption DEF Runs
      <2>4. Sealed(files.events)' BY <1>2, <1>3, <2>1, <2>2, <2>3 DEF Sealed
      <2>5. DOMAIN files' = {"events", "result", "output"} BY <1>1
      <2>6. QED BY <2>4, <2>5 DEF FilesOk
<1>7. QED BY <1>1, <1>4, <1>5, <1>6, CustodyParts DEF Custody

LEMMA UnitFailsKeeps ==
    ASSUME Custody, UnitFails
    PROVE  Custody'
<1>1. /\ unit.state = "activating" /\ unit' = [unit EXCEPT !.state = "failed"]
      /\ files' \in {NoFiles, [NoFiles EXCEPT !.events = Failed]}
      /\ sealed' = sealed /\ cleaned' = cleaned
      /\ UNCHANGED snapshot /\ UNCHANGED observer /\ UNCHANGED request
      /\ UNCHANGED served /\ UNCHANGED call /\ UNCHANGED <<retained, held>>
      BY DEF UnitFails, watch, client
<1>2. UnitOk BY DEF Custody
<1>3. unit'.state = "failed" /\ unit'.run = unit.run BY <1>1, <1>2 DEF UnitOk
<1>4. UnitOk' BY <1>1, <1>2 DEF UnitOk
<1>5. Grow BY <1>1, <1>3 DEF Grow, Sealed
<1>6. FilesOk' BY <1>1 DEF NoFiles, FilesOk
<1>7. QED BY <1>1, <1>4, <1>5, <1>6, CustodyParts DEF Custody

LEMMA StopUnitKeeps ==
    ASSUME Custody, NEW ok \in BOOLEAN, StopUnit(ok)
    PROVE  Custody'
<1>1. /\ unit.state = "exited"
      /\ unit' = [unit EXCEPT !.state = IF ok THEN "dead" ELSE "failed"]
      /\ cleaned' = IF ok THEN cleaned \cup {unit.run} ELSE cleaned
      /\ UNCHANGED files /\ sealed' = sealed
      /\ UNCHANGED snapshot /\ UNCHANGED observer /\ UNCHANGED request
      /\ UNCHANGED served /\ UNCHANGED call /\ UNCHANGED <<retained, held>>
      BY DEF StopUnit, watch, client
<1>2. UnitOk BY DEF Custody
<1>3. unit'.state \in {"dead", "failed"} /\ unit'.run = unit.run BY <1>1, <1>2 DEF UnitOk
<1>4. UnitOk' BY <1>1, <1>2 DEF UnitOk
<1>5. Grow BY <1>1, <1>3 DEF Grow, Sealed
<1>6. QED BY <1>1, <1>4, <1>5, CustodyParts DEF Custody

(* The removal or the change of files leaves no events but those there.    *)
LEMMA DisturbKeeps ==
    ASSUME Custody, Disturb
    PROVE  Custody'
<1>1. /\ files' \in {NoFiles} \cup {[files EXCEPT !.output = o] : o \in Outputs \ {files.output}}
      /\ UNCHANGED <<unit, sealed, cleaned>>
      /\ UNCHANGED snapshot /\ UNCHANGED observer /\ UNCHANGED request
      /\ UNCHANGED served /\ UNCHANGED call /\ UNCHANGED <<retained, held>>
      BY DEF Disturb, watch, client
<1>2. UnitOk' /\ Grow BY <1>1, UnitStays DEF Custody
<1>3. FilesOk'
      <2>1. CASE files' = NoFiles BY <2>1 DEF NoFiles, FilesOk
      <2>2. ASSUME NEW o \in Outputs, files' = [files EXCEPT !.output = o] PROVE FilesOk'
            <3>1. DOMAIN files' = {"events", "result", "output"} /\ files'.events = files.events
                  BY <2>2 DEF Custody, FilesOk
            <3>2. QED BY <1>2, <3>1 DEF Custody, FilesOk, Grow
      <2>3. QED BY <1>1, <2>1, <2>2
<1>4. QED BY <1>1, <1>2, <1>3, CustodyParts DEF Custody

(* A stop is seen only of a unit whose cleanup has ended.                  *)
LEMMA CaptureKeeps ==
    ASSUME Custody, Capture
    PROVE  Custody'
<1>1. /\ UNCHANGED <<unit, sealed, cleaned>>
      /\ UNCHANGED files /\ UNCHANGED observer /\ UNCHANGED request
      /\ UNCHANGED served /\ UNCHANGED call /\ UNCHANGED <<retained, held>>
      BY DEF Capture, watch, client
<1> DEFINE fact == [run |-> unit.run, at |-> now]
<1>2. \/ snapshot' = [snapshot EXCEPT !.execution = fact]
      \/ unit.state = "dead" /\ snapshot' = [snapshot EXCEPT !.stop = fact]
      \/ snapshot' = [snapshot EXCEPT !.teardown = fact]
      BY DEF Capture
<1>3. UnitOk' /\ Grow BY <1>1, UnitStays DEF Custody
<1>4. SnapshotOk /\ UnitOk BY DEF Custody
<1>5. SnapshotOk'
      <2>1. CASE unit.state = "dead" /\ snapshot' = [snapshot EXCEPT !.stop = fact]
            <3>1. DOMAIN snapshot' = DOMAIN snapshot /\ snapshot'.stop.run = unit.run
                  BY <1>4, <2>1 DEF SnapshotOk
            <3>2. QED BY <1>1, <1>4, <2>1, <3>1 DEF SnapshotOk, UnitOk
      <2>2. CASE snapshot' = [snapshot EXCEPT !.execution = fact]
            BY <1>1, <1>4, <2>2 DEF SnapshotOk
      <2>3. CASE snapshot' = [snapshot EXCEPT !.teardown = fact]
            BY <1>1, <1>4, <2>3 DEF SnapshotOk
      <2>4. QED BY <1>2, <2>1, <2>2, <2>3
<1>6. QED BY <1>1, <1>3, <1>5, CustodyParts DEF Custody

-----------------------------------------------------------------------------
(* The observer.                                                           *)
LEMMA ReadEventsKeeps ==
    ASSUME Custody, ReadEvents
    PROVE  Custody'
<1>1. /\ files.events \notin {None, Failed}
      /\ observer' = [at |-> "result", events |-> files.events, result |-> None]
      /\ UNCHANGED <<unit, sealed, cleaned>>
      /\ UNCHANGED files /\ UNCHANGED snapshot /\ UNCHANGED request
      /\ UNCHANGED served /\ UNCHANGED call /\ UNCHANGED <<retained, held>>
      BY DEF ReadEvents, host, client
<1>2. UnitOk' /\ Grow BY <1>1, UnitStays DEF Custody
<1>3. Sealed(files.events)' BY <1>1, <1>2 DEF Custody, FilesOk, Grow
<1>4. ObserverOk' BY <1>1, <1>3 DEF ObserverOk
<1>5. QED BY <1>1, <1>2, <1>4, CustodyParts DEF Custody

LEMMA ReadResultKeeps ==
    ASSUME Custody, ReadResult
    PROVE  Custody'
<1>1. /\ observer.at = "result"
      /\ observer' = [observer EXCEPT !.at = "build", !.result = files.result]
      /\ UNCHANGED <<unit, sealed, cleaned>>
      /\ UNCHANGED files /\ UNCHANGED snapshot /\ UNCHANGED request
      /\ UNCHANGED served /\ UNCHANGED call /\ UNCHANGED <<retained, held>>
      BY DEF ReadResult, host, client
<1>2. UnitOk' /\ Grow BY <1>1, UnitStays DEF Custody
<1>3. ObserverOk BY DEF Custody
<1>4. DOMAIN observer' = DOMAIN observer /\ observer'.at = "build" /\ observer'.events = observer.events
      BY <1>1, <1>3 DEF ObserverOk
<1>5. ObserverOk' BY <1>1, <1>2, <1>3, <1>4 DEF ObserverOk, Grow
<1>6. QED BY <1>1, <1>2, <1>5, CustodyParts DEF Custody

(* The snapshot ties the stop to the invocation of the events.             *)
LEMMA BuildObservationKeeps ==
    ASSUME Custody, BuildObservation
    PROVE  Custody'
<1>1. /\ observer.at = "build"
      /\ SnapshotAgrees(observer.events.run, observer.events.finished)
      /\ observer' = [observer EXCEPT !.at = "request"] /\ request' = Reserved
      /\ UNCHANGED <<unit, sealed, cleaned>>
      /\ UNCHANGED files /\ UNCHANGED snapshot
      /\ UNCHANGED served /\ UNCHANGED call /\ UNCHANGED <<retained, held>>
      BY DEF BuildObservation, host, client
<1>2. UnitOk' /\ Grow BY <1>1, UnitStays DEF Custody
<1>3. ObserverOk /\ SnapshotOk BY DEF Custody
<1>4. DOMAIN observer' = DOMAIN observer /\ observer'.at = "request" /\ observer'.events = observer.events
      BY <1>1, <1>3 DEF ObserverOk
<1>5. observer.events.run \in cleaned BY <1>1, <1>3 DEF SnapshotAgrees, SnapshotOk
<1>6. ObserverOk' BY <1>1, <1>2, <1>3, <1>4, <1>5 DEF ObserverOk, Grow
<1>7. RequestOk' BY <1>1 DEF RequestOk
<1>8. QED BY <1>1, <1>2, <1>6, <1>7, CustodyParts DEF Custody

LEMMA WriteRequestKeeps ==
    ASSUME Custody, WriteRequest
    PROVE  Custody'
<1>1. /\ observer.at = "request" /\ observer' = NoObserver /\ snapshot' = NoSnapshot
      /\ request' = [run |-> observer.events.run, output |-> observer.events.output,
                     started |-> observer.events.started, finished |-> observer.events.finished,
                     torn |-> snapshot.teardown.at]
      /\ UNCHANGED <<unit, sealed, cleaned>>
      /\ UNCHANGED files
      /\ UNCHANGED served /\ UNCHANGED call /\ UNCHANGED <<retained, held>>
      BY DEF WriteRequest, client
<1>2. UnitOk' /\ Grow BY <1>1, UnitStays DEF Custody
<1>3. Good(observer.events) BY <1>1 DEF Custody, ObserverOk, Good
<1>4. request'.run = observer.events.run /\ request'.output = observer.events.output BY <1>1
<1>5. RequestOk' BY <1>1, <1>3, <1>4 DEF RequestOk, Good, Sealed
<1>6. ObserverOk' BY <1>1 DEF ObserverOk, NoObserver
<1>7. SnapshotOk' BY <1>1 DEF SnapshotOk, NoSnapshot
<1>8. QED BY <1>1, <1>2, <1>5, <1>6, <1>7, CustodyParts DEF Custody

LEMMA ObserverEndsKeeps ==
    ASSUME Custody, ObserverEnds
    PROVE  Custody'
<1>1. /\ observer' = NoObserver
      /\ UNCHANGED <<unit, sealed, cleaned>>
      /\ UNCHANGED files /\ UNCHANGED snapshot /\ UNCHANGED request
      /\ UNCHANGED served /\ UNCHANGED call /\ UNCHANGED <<retained, held>>
      BY DEF ObserverEnds, host, client
<1>2. UnitOk' /\ Grow BY <1>1, UnitStays DEF Custody
<1>3. ObserverOk' BY <1>1 DEF ObserverOk, NoObserver
<1>4. QED BY <1>1, <1>2, <1>3, CustodyParts DEF Custody

LEMMA SignKeeps ==
    ASSUME Custody, NEW k \in Keys, Sign(k)
    PROVE  Custody'
<1>1. /\ request \notin {None, Reserved} /\ served' = [observation |-> request, key |-> k]
      /\ UNCHANGED <<unit, sealed, cleaned>>
      /\ UNCHANGED files /\ UNCHANGED snapshot /\ UNCHANGED observer /\ UNCHANGED request
      /\ UNCHANGED call /\ UNCHANGED <<retained, held>>
      BY DEF Sign, host, watch, client
<1>2. UnitOk' /\ Grow BY <1>1, UnitStays DEF Custody
<1>3. Good(request) BY <1>1 DEF Custody, RequestOk
<1>4. served'.observation = request BY <1>1
<1>5. ServedOk' BY <1>2, <1>3, <1>4 DEF ServedOk, Good, Grow
<1>6. QED BY <1>1, <1>2, <1>5, CustodyParts DEF Custody

-----------------------------------------------------------------------------
(* The client.  Only the deadline and the named fields of a call change.   *)
LEMMA CheckedCall ==
    ASSUME NEW c, DOMAIN c = CallFields
    PROVE  /\ DOMAIN Checked(c) = CallFields
           /\ \A f \in CallFields \ {"last", "timer"} : Checked(c)[f] = c[f]
BY DEF Checked

LEMMA CappedCall ==
    ASSUME NEW c, DOMAIN c = CallFields, NEW end
    PROVE  /\ DOMAIN Capped(c, end) = CallFields
           /\ \A f \in CallFields \ {"end"} : Capped(c, end)[f] = c[f]
BY DEF Capped

(* What each step of an acquisition makes of the call.                     *)
LEMMA ReadRegistryDoes ==
    ASSUME DOMAIN call = CallFields, NEW from, NEW to, ReadRegistry(from, to)
    PROVE  /\ DOMAIN call' = CallFields /\ call.at = from /\ call'.at = to
           /\ call'.version = Len(registry) /\ call'.envelope = call.envelope
           /\ call'.fetched = call.fetched /\ call'.key = call.key
<1> DEFINE c == [call EXCEPT !.at = to, !.version = Len(registry)]
<1>1. call.at = from /\ call' = Checked(c) BY DEF ReadRegistry
<1>2. /\ DOMAIN c = CallFields /\ c.at = to /\ c.version = Len(registry)
      /\ c.envelope = call.envelope /\ c.fetched = call.fetched /\ c.key = call.key
      OBVIOUS
<1> HIDE DEF c
<1>3. QED BY <1>1, <1>2, CheckedCall

LEMMA SelectKeyDoes ==
    ASSUME DOMAIN call = CallFields, SelectKey
    PROVE  DOMAIN call' = CallFields /\ call'.at = "fetch"
<1>1. PICK e : call' = Checked(Capped([call EXCEPT !.at = "fetch", !.key = e], e.until))
      BY DEF SelectKey
<1> DEFINE c == [call EXCEPT !.at = "fetch", !.key = e]
<1>2. DOMAIN c = CallFields /\ c.at = "fetch" OBVIOUS
<1> HIDE DEF c
<1>3. DOMAIN Capped(c, e.until) = CallFields /\ Capped(c, e.until).at = "fetch"
      BY <1>2, CappedCall
<1>4. call' = Checked(Capped(c, e.until)) BY <1>1 DEF c
<1>5. QED BY <1>3, <1>4, CheckedCall

LEMMA FetchDoes ==
    ASSUME DOMAIN call = CallFields, Fetch
    PROVE  /\ DOMAIN call' = CallFields /\ call'.at = "read_again"
           /\ call'.envelope \in Responses /\ call'.fetched = Len(registry)
<1>1. PICK e \in Responses :
         call' = Checked([call EXCEPT !.at = "read_again", !.envelope = e, !.fetched = Len(registry)])
      BY DEF Fetch
<1> DEFINE c == [call EXCEPT !.at = "read_again", !.envelope = e, !.fetched = Len(registry)]
<1>2. /\ DOMAIN c = CallFields /\ c.at = "read_again"
      /\ c.envelope = e /\ c.fetched = Len(registry)
      OBVIOUS
<1>3. call' = Checked(c) BY <1>1
<1> HIDE DEF c
<1>4. QED BY <1>2, <1>3, CheckedCall

LEMMA SelectKeyAgainDoes ==
    ASSUME DOMAIN call = CallFields, SelectKeyAgain
    PROVE  /\ DOMAIN call' = CallFields /\ call.at = "select_again" /\ call'.at = "verify"
           /\ call'.envelope = call.envelope /\ call'.fetched = call.fetched
           /\ call'.key = call.key /\ call.key \in registry[call.version]
<1> DEFINE c == [call EXCEPT !.at = "verify"]
<1>1. /\ call.at = "select_again" /\ call' = Checked(c)
      /\ call.key \in Selected(registry[call.version])
      BY DEF SelectKeyAgain
<1>2. /\ DOMAIN c = CallFields /\ c.at = "verify" /\ c.envelope = call.envelope
      /\ c.fetched = call.fetched /\ c.key = call.key
      OBVIOUS
<1> HIDE DEF c
<1>3. call.key \in registry[call.version] BY <1>1 DEF Selected
<1>4. QED BY <1>1, <1>2, <1>3, CheckedCall

LEMMA AcquireDoes ==
    ASSUME NEW context, Acquire(context)
    PROVE  DOMAIN call' = CallFields /\ call'.at = "read"
<1> DEFINE start == [NoCall EXCEPT !.at = "read", !.context = context, !.retained = retained,
                                   !.end = Lesser(now + Budget, ContextEnd(context)),
                                   !.left = Budget, !.last = now]
<1>1. call' = Checked(start) \/ call' = Checked(Capped(start, retained.expires))
      BY DEF Acquire
<1>2. DOMAIN start = CallFields /\ start.at = "read" BY DEF NoCall
<1> HIDE DEF start
<1>3. /\ DOMAIN Capped(start, retained.expires) = CallFields
      /\ Capped(start, retained.expires).at = "read"
      BY <1>2, CappedCall
<1>4. QED BY <1>1, <1>2, <1>3, CheckedCall

LEMMA NoCallIsIdle == DOMAIN NoCall = CallFields /\ NoCall.at = "idle"
BY DEF NoCall

(* A step of the client leaves the host, the observer and the service.     *)
LEMMA ClientKeeps ==
    ASSUME Custody, UNCHANGED host, UNCHANGED watch, UNCHANGED served,
           DOMAIN call' = CallFields, Grow => EnvelopeOk', Grow => HeldOk'
    PROVE  Custody'
<1>1. /\ UNCHANGED <<unit, sealed, cleaned>>
      /\ UNCHANGED files /\ UNCHANGED snapshot /\ UNCHANGED observer /\ UNCHANGED request
      BY DEF host, watch
<1>2. UnitOk' /\ Grow BY <1>1, UnitStays DEF Custody
<1>3. QED BY <1>1, <1>2, CustodyParts DEF Custody

LEMMA AcquisitionKeeps ==
    ASSUME Custody, AcquisitionStep \/ Refuse \/ Expire \/ \E c \in Contexts : Acquire(c)
    PROVE  Custody'
<1>1. DOMAIN call = CallFields /\ EnvelopeOk /\ ServedOk /\ HeldOk BY DEF Custody
<1>2. ASSUME NEW c \in Contexts, Acquire(c) PROVE Custody'
      <2>1. DOMAIN call' = CallFields /\ call'.at = "read" BY <1>2, AcquireDoes
      <2>2. EnvelopeOk' BY <2>1 DEF EnvelopeOk
      <2>3. /\ UNCHANGED host /\ UNCHANGED watch /\ UNCHANGED served
            /\ UNCHANGED <<retained, held>>
            BY <1>2 DEF Acquire
      <2>4. Grow => HeldOk' BY <2>3, CustodyParts
      <2>5. QED BY <2>1, <2>2, <2>3, <2>4, ClientKeeps
<1>3. ASSUME NEW from, NEW to, ReadRegistry(from, to),
             <<from, to>> \in {<<"read", "select">>, <<"read_again", "select_again">>}
      PROVE  Custody'
      <2>1. /\ DOMAIN call' = CallFields /\ call.at = from /\ call'.at = to
            /\ call'.envelope = call.envelope
            BY <1>1, <1>3, ReadRegistryDoes
      <2>2. Grow => EnvelopeOk' BY <1>1, <1>3, <2>1 DEF EnvelopeOk, Grow, Good
      <2>3. /\ UNCHANGED host /\ UNCHANGED watch /\ UNCHANGED served
            /\ UNCHANGED <<retained, held>>
            BY <1>3 DEF ReadRegistry
      <2>4. Grow => HeldOk' BY <2>3, CustodyParts
      <2>5. QED BY <2>1, <2>2, <2>3, <2>4, ClientKeeps
<1>4. CASE SelectKey
      <2>1. DOMAIN call' = CallFields /\ call'.at = "fetch" BY <1>1, <1>4, SelectKeyDoes
      <2>2. EnvelopeOk' BY <2>1 DEF EnvelopeOk
      <2>3. /\ UNCHANGED host /\ UNCHANGED watch /\ UNCHANGED served
            /\ UNCHANGED <<retained, held>>
            BY <1>4 DEF SelectKey
      <2>4. Grow => HeldOk' BY <2>3, CustodyParts
      <2>5. QED BY <2>1, <2>2, <2>3, <2>4, ClientKeeps
<1>5. CASE Fetch
      <2>1. DOMAIN call' = CallFields /\ call'.envelope \in Responses BY <1>1, <1>5, FetchDoes
      <2>2. call'.envelope.observation # None => served # None /\ call'.envelope = served
            BY <2>1 DEF Responses, Foreign
      <2>3. Grow => EnvelopeOk' BY <1>1, <2>2 DEF EnvelopeOk, ServedOk, Grow, Good
      <2>4. /\ UNCHANGED host /\ UNCHANGED watch /\ UNCHANGED served
            /\ UNCHANGED <<retained, held>>
            BY <1>5 DEF Fetch
      <2>5. Grow => HeldOk' BY <2>4, CustodyParts
      <2>6. QED BY <2>1, <2>3, <2>4, <2>5, ClientKeeps
<1>6. CASE SelectKeyAgain
      <2>1. /\ DOMAIN call' = CallFields /\ call.at = "select_again" /\ call'.at = "verify"
            /\ call'.envelope = call.envelope
            BY <1>1, <1>6, SelectKeyAgainDoes
      <2>2. Grow => EnvelopeOk' BY <1>1, <2>1 DEF EnvelopeOk, Grow, Good
      <2>3. /\ UNCHANGED host /\ UNCHANGED watch /\ UNCHANGED served
            /\ UNCHANGED <<retained, held>>
            BY <1>6 DEF SelectKeyAgain
      <2>4. Grow => HeldOk' BY <2>3, CustodyParts
      <2>5. QED BY <2>1, <2>2, <2>3, <2>4, ClientKeeps
<1>7. CASE Verify
      <2>1. /\ call.at = "verify" /\ call' = NoCall
            /\ UNCHANGED host /\ UNCHANGED watch /\ UNCHANGED served
            /\ Attested(call.envelope, call.context, call.key)
            /\ retained' = Identity(call)
            /\ held'.run = call.envelope.observation.run
            /\ held'.output = call.envelope.observation.output
            BY <1>7 DEF Verify
      <2>2. /\ call.envelope.observation # None
            /\ call.envelope.observation.output = call.context.output
            BY <2>1 DEF Attested, PayloadHolds, OfThisJob
      <2>3. Good(call.envelope.observation) BY <1>1, <2>1, <2>2 DEF EnvelopeOk
      <2>4. retained'.context = call.context BY <2>1 DEF Identity
      <2>5. Grow => HeldOk' BY <2>1, <2>2, <2>3, <2>4 DEF HeldOk, Good, Sealed, Grow
      <2>6. EnvelopeOk' BY <2>1, NoCallIsIdle DEF EnvelopeOk
      <2>7. QED BY <2>1, <2>5, <2>6, NoCallIsIdle, ClientKeeps
<1>8. CASE Refuse \/ Expire
      <2>1. /\ call' = NoCall /\ UNCHANGED host /\ UNCHANGED watch /\ UNCHANGED served
            /\ UNCHANGED <<retained, held>>
            BY <1>8 DEF Refuse, Expire
      <2>2. EnvelopeOk' BY <2>1, NoCallIsIdle DEF EnvelopeOk
      <2>3. Grow => HeldOk' BY <2>1, CustodyParts
      <2>4. QED BY <2>1, <2>2, <2>3, NoCallIsIdle, ClientKeeps
<1>9. QED BY <1>2, <1>3, <1>4, <1>5, <1>6, <1>7, <1>8 DEF AcquisitionStep

(* Registry and clock change, and time passes.                             *)
LEMMA WorldKeeps ==
    ASSUME Custody, ReplaceRegistry \/ SetClock \/ Tick
    PROVE  Custody'
<1>1. UNCHANGED host /\ UNCHANGED watch /\ UNCHANGED served /\ UNCHANGED <<retained, held>>
      BY DEF ReplaceRegistry, SetClock, Tick, client
<1>2. DOMAIN call = CallFields /\ EnvelopeOk BY DEF Custody
<1>3. DOMAIN call' = CallFields /\ call'.at = call.at /\ call'.envelope = call.envelope
      <2>1. CASE ReplaceRegistry \/ SetClock BY <1>2, <2>1 DEF ReplaceRegistry, SetClock, client
      <2>2. CASE Tick BY <1>2, <2>2 DEF Tick
      <2>3. QED BY <2>1, <2>2
<1>4. Grow => EnvelopeOk' BY <1>2, <1>3 DEF EnvelopeOk, Grow, Good
<1>5. Grow => HeldOk' BY <1>1, CustodyParts
<1>6. QED BY <1>1, <1>3, <1>4, <1>5, ClientKeeps

LEMMA CustodyInit ==
    ASSUME Init
    PROVE  Custody
<1>1. UnitOk
      <2>1. 0 \in 0 .. MaxRuns BY RunnerEvidenceAssumption
      <2>2. QED BY <2>1 DEF Init, UnitOk
<1>2. FilesOk /\ SnapshotOk /\ ObserverOk
      BY DEF Init, FilesOk, SnapshotOk, ObserverOk, NoFiles, NoSnapshot, NoObserver
<1>3. RequestOk /\ ServedOk /\ HeldOk BY DEF Init, RequestOk, ServedOk, HeldOk
<1>4. EnvelopeOk /\ DOMAIN call = CallFields BY NoCallIsIdle DEF Init, EnvelopeOk
<1>5. QED BY <1>1, <1>2, <1>3, <1>4 DEF Custody

LEMMA CustodyNext ==
    ASSUME Custody, [Next]_vars
    PROVE  Custody'
<1>1. CASE UNCHANGED vars
      BY <1>1 DEF vars, host, watch, client, Custody, UnitOk, FilesOk, SnapshotOk, ObserverOk,
                  RequestOk, ServedOk, EnvelopeOk, HeldOk, Good, Sealed
<1>2. CASE StartUnit \/ UnitFails \/ Disturb \/ Capture
      BY <1>2, StartUnitKeeps, UnitFailsKeeps, DisturbKeeps, CaptureKeeps
<1>3. ASSUME NEW o \in Outputs, UnitExits(o) PROVE Custody' BY <1>3, UnitExitsKeeps
<1>4. ASSUME NEW ok \in BOOLEAN, StopUnit(ok) PROVE Custody' BY <1>4, StopUnitKeeps
<1>5. CASE ReadEvents \/ ReadResult \/ BuildObservation \/ WriteRequest \/ ObserverEnds
      BY <1>5, ReadEventsKeeps, ReadResultKeeps, BuildObservationKeeps, WriteRequestKeeps,
         ObserverEndsKeeps
<1>6. ASSUME NEW k \in Keys, Sign(k) PROVE Custody' BY <1>6, SignKeeps
<1>7. CASE AcquisitionStep \/ Refuse \/ Expire \/ \E c \in Contexts : Acquire(c)
      BY <1>7, AcquisitionKeeps
<1>8. CASE ReplaceRegistry \/ SetClock \/ Tick BY <1>8, WorldKeeps
<1>9. QED BY <1>1, <1>2, <1>3, <1>4, <1>5, <1>6, <1>7, <1>8 DEF Next

(* Every step leaves a sealed output and a finished cleanup as they are;   *)
(* an invocation that was accepted is the one that sealed and was cleaned  *)
(* up (observe-runner, the signer, and the client's verification).         *)
THEOREM OneRun == Spec => []AcceptedIsOneRun
<1>1. Init => Custody BY CustodyInit
<1>2. Custody /\ [Next]_vars => Custody' BY CustodyNext
<1>3. Custody => AcceptedIsOneRun BY DEF Custody, HeldOk, Good, Sealed, AcceptedIsOneRun
<1>4. QED BY <1>1, <1>2, <1>3, PTL DEF Spec

-----------------------------------------------------------------------------
(* Only a verification changes what the client holds.                      *)
LEMMA OnlyVerifyHolds ==
    ASSUME [Next]_vars
    PROVE  Verify \/ UNCHANGED <<retained, held>>
<1>1. CASE UNCHANGED vars BY <1>1 DEF vars, client
<1>2. CASE StartUnit \/ UnitFails \/ Disturb \/ Capture
      BY <1>2 DEF StartUnit, UnitFails, Disturb, Capture, client
<1>3. ASSUME NEW o \in Outputs, UnitExits(o) PROVE UNCHANGED <<retained, held>>
      BY <1>3 DEF UnitExits, client
<1>4. ASSUME NEW ok \in BOOLEAN, StopUnit(ok) PROVE UNCHANGED <<retained, held>>
      BY <1>4 DEF StopUnit, client
<1>5. CASE ReadEvents \/ ReadResult \/ BuildObservation \/ WriteRequest \/ ObserverEnds
      BY <1>5 DEF ReadEvents, ReadResult, BuildObservation, WriteRequest, ObserverEnds, client
<1>6. ASSUME NEW k \in Keys, Sign(k) PROVE UNCHANGED <<retained, held>>
      BY <1>6 DEF Sign, client
<1>7. ASSUME NEW c \in Contexts, Acquire(c) PROVE UNCHANGED <<retained, held>>
      BY <1>7 DEF Acquire
<1>8. CASE AcquisitionStep \/ Refuse \/ Expire
      BY <1>8 DEF AcquisitionStep, ReadRegistry, SelectKey, Fetch, SelectKeyAgain, Refuse, Expire
<1>9. CASE ReplaceRegistry \/ SetClock \/ Tick
      BY <1>9 DEF ReplaceRegistry, SetClock, Tick, client
<1>10. QED BY <1>1, <1>2, <1>3, <1>4, <1>5, <1>6, <1>7, <1>8, <1>9 DEF Next

(* The deadline and the windows are looked at in the verification itself   *)
(* (createRunnerEvidenceDeadline, validateRunnerEvidenceContext).          *)
THEOREM InTime == Spec => []AnswerIsTimely
<1>1. Init => AnswerIsTimely BY DEF Init, AnswerIsTimely
<1>2. ASSUME AnswerIsTimely, [Next]_vars PROVE AnswerIsTimely'
      <2>1. CASE Verify
            <3>1. /\ Alive(call) /\ ContextHolds(call.context)
                  /\ Attested(call.envelope, call.context, call.key)
                  /\ retained' = Identity(call)
                  /\ held'.left = call.left /\ held'.at = now
                  BY <2>1 DEF Verify
            <3>2. held'.left > 0 /\ InPlan(held'.at) BY <3>1 DEF Alive, ContextHolds
            <3>3. now < ContextEnd(call.context)
                  BY <3>1 DEF ContextHolds, ContextEnd, InPlan, Lesser
            <3>4. now < call.key.until BY <3>1 DEF Attested
            <3>5. now < retained'.expires BY <3>1, <3>3, <3>4 DEF Identity, Lesser
            <3>6. QED BY <3>1, <3>2, <3>5 DEF AnswerIsTimely, InPlan
      <2>2. CASE UNCHANGED <<retained, held>> BY <1>2, <2>2 DEF AnswerIsTimely, InPlan
      <2>3. QED BY <1>2, <2>1, <2>2, OnlyVerifyHolds
<1>3. QED BY <1>1, <1>2, PTL DEF Spec

-----------------------------------------------------------------------------
(* A step that neither replaces the registry nor verifies an attestation   *)
(* keeps what the client holds in force.                                   *)
LEMMA KeyStays ==
    ASSUME KeySeen, UNCHANGED registry, UNCHANGED <<retained, held>>,
           call'.at \in Fetched => call'.fetched \in 1 .. Len(registry),
           call'.at = "select_again" => call'.version \in call'.fetched .. Len(registry),
           call'.at = "verify" =>
              \E v \in call'.fetched .. Len(registry) : call'.key \in registry[v]
    PROVE  KeySeen'
<1>1. registry' = registry /\ held' = held OBVIOUS
<1>2. KeyWasCurrent' BY <1>1 DEF KeySeen, KeyWasCurrent
<1>3. QED BY <1>1, <1>2 DEF KeySeen

LEMMA KeySeenByAcquisition ==
    ASSUME KeySeen, DOMAIN call = CallFields,
           AcquisitionStep \/ Refuse \/ Expire \/ \E c \in Contexts : Acquire(c)
    PROVE  KeySeen'
<1>1. Len(registry) \in Nat /\ Len(registry) # 0 BY DEF KeySeen
<1>2. ASSUME NEW c \in Contexts, Acquire(c) PROVE KeySeen'
      <2>1. call'.at = "read" BY <1>2, AcquireDoes
      <2>2. UNCHANGED registry /\ UNCHANGED <<retained, held>> BY <1>2 DEF Acquire
      <2>3. QED BY <2>1, <2>2, KeyStays
<1>3. CASE ReadRegistry("read", "select") \/ SelectKey \/ Refuse \/ Expire
      <2>1. call'.at \in {"select", "fetch", "idle"}
            BY <1>3, ReadRegistryDoes, SelectKeyDoes, NoCallIsIdle DEF Refuse, Expire
      <2>2. UNCHANGED registry /\ UNCHANGED <<retained, held>>
            BY <1>3 DEF ReadRegistry, SelectKey, Refuse, Expire
      <2>3. QED BY <2>1, <2>2, KeyStays
<1>4. CASE Fetch
      <2>1. call'.at = "read_again" /\ call'.fetched = Len(registry) BY <1>4, FetchDoes
      <2>2. UNCHANGED registry /\ UNCHANGED <<retained, held>> BY <1>4 DEF Fetch
      <2>3. QED BY <1>1, <2>1, <2>2, KeyStays
<1>5. CASE ReadRegistry("read_again", "select_again")
      <2>1. /\ call.at = "read_again" /\ call'.at = "select_again"
            /\ call'.version = Len(registry) /\ call'.fetched = call.fetched
            BY <1>5, ReadRegistryDoes
      <2>2. UNCHANGED registry /\ UNCHANGED <<retained, held>> BY <1>5 DEF ReadRegistry
      <2>3. call.fetched \in 1 .. Len(registry) BY <2>1 DEF KeySeen
      <2>4. Len(registry) \in call.fetched .. Len(registry) BY <1>1, <2>3
      <2>5. QED BY <2>1, <2>2, <2>3, <2>4, KeyStays
<1>6. CASE SelectKeyAgain
      <2>1. /\ call.at = "select_again" /\ call'.at = "verify" /\ call'.fetched = call.fetched
            /\ call'.key = call.key /\ call.key \in registry[call.version]
            BY <1>6, SelectKeyAgainDoes
      <2>2. UNCHANGED registry /\ UNCHANGED <<retained, held>> BY <1>6 DEF SelectKeyAgain
      <2>3. call.fetched \in 1 .. Len(registry) /\ call.version \in call.fetched .. Len(registry)
            BY <2>1 DEF KeySeen
      <2>4. QED BY <2>1, <2>2, <2>3, KeyStays
<1>7. CASE Verify
      <2>1. /\ call.at = "verify" /\ call' = NoCall /\ registry' = registry
            /\ Attested(call.envelope, call.context, call.key)
            /\ held'.entry = call.key /\ held'.fetched = call.fetched
            BY <1>7 DEF Verify
      <2>2. ~call.key.revoked BY <2>1 DEF Attested
      <2>3. \E v \in call.fetched .. Len(registry) : call.key \in registry[v]
            BY <2>1 DEF KeySeen
      <2>4. KeyWasCurrent' BY <2>1, <2>2, <2>3 DEF KeyWasCurrent
      <2>5. held'.fetched \in 1 .. Len(registry') BY <2>1 DEF KeySeen
      <2>6. QED BY <2>1, <2>4, <2>5, NoCallIsIdle DEF KeySeen
<1>8. QED BY <1>2, <1>3, <1>4, <1>5, <1>6, <1>7 DEF AcquisitionStep

(* A new registry is another version: the ones before it stay.             *)
LEMMA KeySeenByReplacement ==
    ASSUME KeySeen, ReplaceRegistry
    PROVE  KeySeen'
<1>1. PICK r \in Registries : registry' = Append(registry, r) BY DEF ReplaceRegistry
<1>2. call' = call /\ held' = held BY DEF ReplaceRegistry, client
<1>3. registry \in Seq(Registries) BY DEF KeySeen
<1>4. /\ registry' \in Seq(Registries) /\ Len(registry') = Len(registry) + 1
      /\ \A v \in 1 .. Len(registry) : registry'[v] = registry[v]
      BY <1>1, <1>3
<1>5. Len(registry) \in Nat BY <1>3
<1>6. /\ call.at \in Fetched => call'.fetched \in 1 .. Len(registry')
      /\ held # None => held'.fetched \in 1 .. Len(registry')
      BY <1>2, <1>4, <1>5 DEF KeySeen
<1>7. call'.at = "select_again" => call'.version \in call'.fetched .. Len(registry')
      BY <1>2, <1>4, <1>5 DEF KeySeen
<1>8. ASSUME NEW first \in 1 .. Len(registry), NEW e, NEW v \in first .. Len(registry),
             e \in registry[v]
      PROVE  v \in first .. Len(registry') /\ e \in registry'[v]
      BY <1>4, <1>5, <1>8
<1>9. call'.at = "verify" => \E v \in call'.fetched .. Len(registry') : call'.key \in registry'[v]
      BY <1>2, <1>8 DEF KeySeen
<1>10. KeyWasCurrent' BY <1>2, <1>8 DEF KeySeen, KeyWasCurrent
<1>11. QED BY <1>2, <1>4, <1>5, <1>6, <1>7, <1>9, <1>10 DEF KeySeen

LEMMA KeySeenNext ==
    ASSUME KeySeen, DOMAIN call = CallFields, [Next]_vars
    PROVE  KeySeen'
<1>1. CASE AcquisitionStep \/ Refuse \/ Expire \/ \E c \in Contexts : Acquire(c)
      BY <1>1, KeySeenByAcquisition
<1>2. CASE ReplaceRegistry BY <1>2, KeySeenByReplacement
<1>3. CASE Tick
      <2>1. UNCHANGED registry /\ UNCHANGED <<retained, held>> BY <1>3 DEF Tick
      <2>2. /\ call'.at = call.at /\ call'.fetched = call.fetched
            /\ call'.version = call.version /\ call'.key = call.key
            BY <1>3 DEF Tick
      <2>3. QED BY <2>1, <2>2, KeyStays DEF KeySeen
<1>4. ASSUME UNCHANGED registry, UNCHANGED <<retained, held>>, call' = call PROVE KeySeen'
      BY <1>4, KeyStays DEF KeySeen
<1>5. CASE UNCHANGED vars \/ SetClock BY <1>4, <1>5 DEF vars, client, SetClock
<1>6. CASE StartUnit \/ UnitFails \/ Disturb \/ Capture
      BY <1>4, <1>6 DEF StartUnit, UnitFails, Disturb, Capture, client
<1>7. ASSUME NEW o \in Outputs, UnitExits(o) PROVE KeySeen'
      BY <1>4, <1>7 DEF UnitExits, client
<1>8. ASSUME NEW ok \in BOOLEAN, StopUnit(ok) PROVE KeySeen'
      BY <1>4, <1>8 DEF StopUnit, client
<1>9. CASE ReadEvents \/ ReadResult \/ BuildObservation \/ WriteRequest \/ ObserverEnds
      BY <1>4, <1>9 DEF ReadEvents, ReadResult, BuildObservation, WriteRequest, ObserverEnds, client
<1>10. ASSUME NEW k \in Keys, Sign(k) PROVE KeySeen' BY <1>4, <1>10 DEF Sign, client
<1>11. QED BY <1>1, <1>2, <1>3, <1>5, <1>6, <1>7, <1>8, <1>9, <1>10 DEF Next

(* A key that is revoked, replaced or changed while the envelope is under  *)
(* way is not accepted (selectRunnerKey before and after the request).     *)
THEOREM CurrentKey == Spec => []KeyWasCurrent
<1>1. Init => Custody /\ KeySeen
      <2>1. ASSUME Init PROVE KeySeen
            <3>1. registry = <<FirstRegistry>> /\ call.at = "idle" /\ held = None
                  BY <2>1, NoCallIsIdle DEF Init
            <3>2. registry \in Seq(Registries) /\ Len(registry) # 0
                  BY <3>1, RunnerEvidenceAssumption
            <3>3. QED BY <3>1, <3>2 DEF KeySeen, KeyWasCurrent
      <2>2. QED BY <2>1, CustodyInit
<1>2. Custody /\ KeySeen /\ [Next]_vars => (Custody /\ KeySeen)'
      BY CustodyNext, KeySeenNext DEF Custody
<1>3. KeySeen => KeyWasCurrent BY DEF KeySeen
<1>4. QED BY <1>1, <1>2, <1>3, PTL DEF Spec
=============================================================================
