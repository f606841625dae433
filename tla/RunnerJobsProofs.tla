-------------------------- MODULE RunnerJobsProofs --------------------------
(***************************************************************************)
(* Proofs about RunnerJobs for any number of sessions, keys, intents and   *)
(* times.                                                                  *)
(*                                                                         *)
(* The argument: the durable store grows into the live one, and neither    *)
(* ever takes back a record.  A record that an operation is about to       *)
(* return is part of the live store after its readback and part of the     *)
(* durable store after its last observation of the time, so all returned   *)
(* records are parts of one durable record and agree.                      *)
(***************************************************************************)
EXTENDS RunnerJobs, FiniteSetTheorems, TLAPS

USE DEF Times, Ids, Steps, Observing

(* Store b has every record of a, possibly grown, and no earlier mark.     *)
GrowsTo(a, b) ==
    /\ a.high <= b.high
    /\ \A k \in Keys : a.jobs[k] # None =>
          b.jobs[k] # None /\ Extends(a.jobs[k], b.jobs[k])

(* The record to write extends the record that was read.                   *)
Drafting == {"await", "append", "observe_first", "sample_first", "write", "readback"}
Settled == {"observe_last", "sample_last"}

Draft(s) ==
    pc[s] \in Drafting =>
        /\ mine[s] # None
        /\ task[s].op # "prepare" => base[s] # None /\ Extends(base[s], mine[s])

Awaiting(s) ==
    pc[s] \in {"await", "append"} => task[s].op = "acquire" /\ base[s].review # None

InLive(s) ==
    pc[s] \in Settled =>
        /\ mine[s] # None /\ live.jobs[task[s].key] # None
        /\ Extends(mine[s], live.jobs[task[s].key])

InStable(s) ==
    pc[s] = "sample_last" =>
        /\ stable.jobs[task[s].key] # None
        /\ Extends(mine[s], stable.jobs[task[s].key])
        /\ floor[s] <= at[s]

Begun(s) == pc[s] # "idle" => floor[s] <= live.high

Local(s) == Draft(s) /\ Awaiting(s) /\ InLive(s) /\ InStable(s) /\ Begun(s)

IInv ==
    /\ TypeOK
    /\ GrowsTo(stable, live)
    /\ ReturnedIsDurable
    /\ OverStaysOver
    /\ \A s \in Sessions : Local(s)

-----------------------------------------------------------------------------
(* Extends is an order on records.                                         *)
LEMMA ExtendsReflexive ==
    ASSUME NEW j PROVE Extends(j, j)
BY DEF Extends, SamePrepared

(* A record that extends an extension extends the record.                  *)
LEMMA ExtendsTransitive ==
    ASSUME NEW i, NEW j, NEW k, Extends(i, j), Extends(j, k)
    PROVE  Extends(i, k)
BY DEF Extends, SamePrepared

(* A store grows to itself.                                                *)
LEMMA GrowsReflexive ==
    ASSUME NEW a \in Store PROVE GrowsTo(a, a)
BY ExtendsReflexive, RunnerJobsAssumption DEF GrowsTo, Store

(* Growing stores compose.                                                 *)
LEMMA GrowsTransitive ==
    ASSUME NEW a \in Store, NEW b \in Store, NEW c \in Store, GrowsTo(a, b), GrowsTo(b, c)
    PROVE  GrowsTo(a, c)
BY ExtendsTransitive, RunnerJobsAssumption DEF GrowsTo, Store

(* The transaction of observeTime moves the mark forward and nothing else. *)
LEMMA CommitTimeGrows ==
    ASSUME now \in Times, live \in Store, CommitTime
    PROVE  live' \in Store /\ GrowsTo(live, live') /\ live'.high = now /\ live'.jobs = live.jobs
<1>1. live' \in Store /\ live'.high = now /\ live'.jobs = live.jobs /\ live.high <= now
      BY RunnerJobsAssumption DEF CommitTime, Store
<1>2. QED BY <1>1, ExtendsReflexive DEF GrowsTo

(* observeTime makes the live store durable with a later mark.             *)
LEMMA ObserveTimeGrows ==
    ASSUME now \in Times, live \in Store, stable \in Store, GrowsTo(stable, live), ObserveTime
    PROVE  /\ live' \in Store /\ stable' = live' /\ live'.high = now /\ live'.jobs = live.jobs
           /\ GrowsTo(live, live') /\ GrowsTo(stable, stable') /\ GrowsTo(stable', live')
<1>1. CommitTime /\ stable' = live' BY DEF ObserveTime, Sync
<1>2. live' \in Store /\ GrowsTo(live, live') /\ live'.high = now /\ live'.jobs = live.jobs
      BY <1>1, CommitTimeGrows
<1>3. GrowsTo(stable, live') BY <1>2, GrowsTransitive
<1>4. QED BY <1>1, <1>2, <1>3, GrowsReflexive

(* Putting a record that extends the row, or into an empty row, grows the  *)
(* store.                                                                  *)
LEMMA PutGrows ==
    ASSUME live \in Store, NEW s \in Sessions, task[s].key \in Keys, mine[s] \in Job,
           Put(s),
           Row(s) # None => Extends(Row(s), mine[s])
    PROVE  live' \in Store /\ GrowsTo(live, live')
<1> DEFINE k == task[s].key
<1>1. /\ live'.high = live.high /\ live' \in Store
      /\ live'.jobs = [live.jobs EXCEPT ![k] = mine[s]]
      BY DEF Put, Store
<1>2. mine[s] # None BY RunnerJobsAssumption
<1>3. ASSUME NEW c \in Keys, live.jobs[c] # None
      PROVE  live'.jobs[c] # None /\ Extends(live.jobs[c], live'.jobs[c])
      BY <1>1, <1>2, <1>3, ExtendsReflexive DEF Row, Store
<1>4. live.high <= live'.high BY <1>1, RunnerJobsAssumption DEF Store
<1>5. QED BY <1>1, <1>3, <1>4 DEF GrowsTo

(* An operation in progress has a well-formed input.                       *)
LEMMA TaskOfActive ==
    ASSUME TypeOK, NEW s \in Sessions, pc[s] # "idle"
    PROVE  /\ task[s] \in Task /\ task[s].key \in Keys
           /\ task[s].op \in {"prepare", "review", "acquire"}
           /\ task[s].op = "prepare" => task[s].arg \in Intents
           /\ task[s].op = "review" => task[s].arg \in Review
           /\ Row(s) \in Job \cup {None}
<1>1. task[s] \in Task BY DEF TypeOK
<1>2. task[s].key \in Keys /\ task[s].op \in {"prepare", "review", "acquire"}
      BY <1>1 DEF Task
<1>3. task[s].op = "prepare" => task[s].arg \in Intents BY <1>1 DEF Task
<1>4. task[s].op = "review" => task[s].arg \in Review BY <1>1 DEF Task
<1>5. Row(s) \in Job \cup {None} BY <1>2 DEF Row, TypeOK, Store
<1>6. QED BY <1>1, <1>2, <1>3, <1>4, <1>5

-----------------------------------------------------------------------------
(* A step of session s: nothing of another session changes.                *)
OnlyOf(s) ==
    \A t \in Sessions \ {s} :
        /\ pc'[t] = pc[t] /\ task'[t] = task[t] /\ at'[t] = at[t] /\ base'[t] = base[t]
        /\ mine'[t] = mine[t] /\ floor'[t] = floor[t]

(* What holds of a session is kept by growing stores.                      *)
LEMMA Frame ==
    ASSUME TypeOK, TypeOK', NEW t \in Sessions, Local(t),
           GrowsTo(live, live'), GrowsTo(stable, stable'),
           pc'[t] = pc[t], task'[t] = task[t], at'[t] = at[t], base'[t] = base[t],
           mine'[t] = mine[t], floor'[t] = floor[t]
    PROVE  Local(t)'
<1>1. Draft(t)' BY DEF Local, Draft
<1>2. Awaiting(t)' BY DEF Local, Awaiting
<1>3. pc[t] # "idle" => task[t].key \in Keys BY TaskOfActive
<1>4. InLive(t)'
      BY <1>3, ExtendsTransitive DEF Local, InLive, GrowsTo, Settled
<1>5. InStable(t)'
      BY <1>3, ExtendsTransitive DEF Local, InStable, GrowsTo
<1>6. Begun(t)'
      <2>1. live.high \in Nat /\ live'.high \in Nat /\ floor[t] \in Nat
            BY RunnerJobsAssumption DEF TypeOK, Store
      <2>2. QED BY <2>1 DEF Local, Begun, GrowsTo
<1>7. QED BY <1>1, <1>2, <1>4, <1>5, <1>6 DEF Local

(* Returned records stay durable while the durable store grows.            *)
LEMMA StaysDurable ==
    ASSUME TypeOK, ReturnedIsDurable, GrowsTo(stable, stable'), returned' = returned
    PROVE  ReturnedIsDurable'
<1>1. SUFFICES ASSUME NEW x \in returned
               PROVE  stable'.jobs[x.key] # None /\ Extends(x.job, stable'.jobs[x.key])
      BY DEF ReturnedIsDurable
<1>2. x.key \in Keys BY DEF TypeOK
<1>3. QED BY <1>2, ExtendsTransitive DEF ReturnedIsDurable, GrowsTo

(* The shape of every step of a session that returns nothing.              *)
LEMMA SessionStep ==
    ASSUME IInv, TypeOK', NEW s \in Sessions, OnlyOf(s), Local(s)',
           GrowsTo(live, live'), GrowsTo(stable, stable'), GrowsTo(stable', live'),
           returned' = returned, late' = late
    PROVE  IInv'
<1>1. ReturnedIsDurable' BY StaysDurable DEF IInv
<1>2. OverStaysOver' BY DEF IInv, OverStaysOver
<1>3. ASSUME NEW t \in Sessions PROVE Local(t)'
      <2>1. CASE t = s BY <2>1
      <2>2. CASE t # s
            <3>1. /\ pc'[t] = pc[t] /\ task'[t] = task[t] /\ at'[t] = at[t]
                  /\ base'[t] = base[t] /\ mine'[t] = mine[t] /\ floor'[t] = floor[t]
                  BY <2>2 DEF OnlyOf
            <3>2. QED BY <3>1, Frame DEF IInv
      <2>3. QED BY <2>1, <2>2
<1>4. QED BY <1>1, <1>2, <1>3 DEF IInv

(* Steps that leave both stores alone.                                     *)
LEMMA UnchangedGrows ==
    ASSUME IInv, UNCHANGED storeVars
    PROVE  GrowsTo(live, live') /\ GrowsTo(stable, stable') /\ GrowsTo(stable', live')
BY GrowsReflexive DEF IInv, TypeOK, storeVars

(* ObserveTimeGrows in a state of the invariant.                           *)
LEMMA ObservedGrows ==
    ASSUME IInv, ObserveTime
    PROVE  /\ live' \in Store /\ stable' = live' /\ live'.high = now /\ live'.jobs = live.jobs
           /\ GrowsTo(live, live') /\ GrowsTo(stable, stable') /\ GrowsTo(stable', live')
BY ObserveTimeGrows DEF IInv, TypeOK

-----------------------------------------------------------------------------
(* The actions.  Each keeps the types, touches one session and leaves what *)
(* holds of that session true.                                             *)

(* Ending an operation leaves nothing to show about it.                    *)
LEMMA EndLocal ==
    ASSUME TypeOK, NEW s \in Sessions, End(s)
    PROVE  OnlyOf(s) /\ Local(s)'
<1>1. OnlyOf(s) BY DEF End, OnlyOf, TypeOK
<1>2. pc'[s] = "idle" BY DEF End, TypeOK
<1>3. QED BY <1>1, <1>2 DEF Local, Draft, Awaiting, InLive, InStable, Begun, Drafting, Settled

(* Ending an operation keeps the types.                                    *)
LEMMA EndTypes ==
    ASSUME TypeOK, NEW s \in Sessions, End(s),
           now' \in Times, live' \in Store, stable' \in Store, issued' \in 0 .. MaxIds,
           returned' \subseteq [key : Keys, job : Job], late' \subseteq Job
    PROVE  TypeOK'
<1>1. /\ pc' \in [Sessions -> Steps] /\ task' \in [Sessions -> Task \cup {None}]
      /\ base' \in [Sessions -> Job \cup {None}] /\ mine' \in [Sessions -> Job \cup {None}]
      /\ won' \in [Sessions -> BOOLEAN]
      BY DEF TypeOK, End
<1>2. at' \in [Sessions -> 0 .. MaxTime] /\ floor' \in [Sessions -> 0 .. MaxTime]
      BY RunnerJobsAssumption DEF TypeOK, End
<1>3. \A t \in Sessions : pc'[t] = "idle" <=> task'[t] = None
      BY DEF TypeOK, End
<1>4. QED BY <1>1, <1>2, <1>3 DEF TypeOK

(* RunnerJobService.open *)
LEMMA OpenKeeps ==
    ASSUME IInv, NEW s \in Sessions, Open(s)
    PROVE  IInv'
<1>1. /\ live' \in Store /\ stable' = live' /\ live'.jobs = live.jobs
      /\ GrowsTo(live, live') /\ GrowsTo(stable, stable') /\ GrowsTo(stable', live')
      BY ObservedGrows DEF Open
<1>2. TypeOK' BY <1>1 DEF IInv, TypeOK, Open, sessionVars
<1>3. OnlyOf(s) BY DEF Open, OnlyOf, sessionVars
<1>4. Local(s)'
      BY Frame, <1>1, <1>2 DEF IInv, Open, sessionVars
<1>5. QED BY <1>1, <1>2, <1>3, <1>4, SessionStep DEF Open

(* prepare, recordReviewedOutput and acquireEvidence are called.           *)
LEMMA BeginKeeps ==
    ASSUME IInv, NEW s \in Sessions, NEW t \in Task, Begin(s, t)
    PROVE  IInv'
<1>0. t # None BY RunnerJobsAssumption
<1>1. GrowsTo(live, live') /\ GrowsTo(stable, stable') /\ GrowsTo(stable', live')
      BY UnchangedGrows DEF Begin
<1>2. TypeOK'
      <2>1. live.high \in 0 .. MaxTime BY DEF IInv, TypeOK, Store
      <2>2. floor' \in [Sessions -> 0 .. MaxTime] BY <2>1 DEF IInv, TypeOK, Begin
      <2>3. pc' \in [Sessions -> Steps] /\ task' \in [Sessions -> Task \cup {None}]
            BY DEF IInv, TypeOK, Begin, Goto
      <2>4. \A u \in Sessions : pc'[u] = "idle" <=> task'[u] = None
            BY <1>0 DEF IInv, TypeOK, Begin, Goto
      <2>5. QED BY <2>2, <2>3, <2>4 DEF IInv, TypeOK, Begin, storeVars
<1>3. OnlyOf(s) BY DEF Begin, OnlyOf, Goto, IInv, TypeOK
<1>4. pc'[s] = "begin" /\ floor'[s] = live.high /\ live' = live
      BY DEF IInv, TypeOK, Begin, Goto, storeVars
<1>5. live.high <= live.high BY RunnerJobsAssumption DEF IInv, TypeOK, Store
<1>6. Local(s)'
      BY <1>4, <1>5 DEF Local, Draft, Awaiting, InLive, InStable, Begun, Drafting, Settled
<1>7. QED BY <1>1, <1>2, <1>3, <1>6, SessionStep DEF Begin

(* A call starts with a well-formed input.                                 *)
LEMMA CallKeeps ==
    ASSUME IInv, NEW s \in Sessions, Call(s)
    PROVE  IInv'
<1>1. PICK k \in Keys :
        \/ \E i \in Intents : Prepare(s, k, i)
        \/ \E id \in 1 .. issued :
              \/ \E r \in Review : RecordReview(s, k, id, r)
              \/ Acquire(s, k, id)
      BY DEF Call
<1>2. CASE \E i \in Intents : Prepare(s, k, i)
      <2>1. PICK i \in Intents : Prepare(s, k, i) BY <1>2
      <2>2. [op |-> "prepare", key |-> k, id |-> None, arg |-> i] \in Task BY DEF Task
      <2>3. QED BY <2>1, <2>2, BeginKeeps DEF Prepare
<1>3. ASSUME NEW id \in 1 .. issued,
             (\E r \in Review : RecordReview(s, k, id, r)) \/ Acquire(s, k, id)
      PROVE  IInv'
      <2>1. id \in Ids BY RunnerJobsAssumption DEF IInv, TypeOK
      <2>2. CASE \E r \in Review : RecordReview(s, k, id, r)
            <3>1. PICK r \in Review : RecordReview(s, k, id, r) BY <2>2
            <3>2. [op |-> "review", key |-> k, id |-> id, arg |-> r] \in Task BY <2>1 DEF Task
            <3>3. QED BY <3>1, <3>2, BeginKeeps DEF RecordReview
      <2>3. CASE Acquire(s, k, id)
            <3>1. [op |-> "acquire", key |-> k, id |-> id, arg |-> None] \in Task
                  BY <2>1 DEF Task
            <3>2. QED BY <2>3, <3>1, BeginKeeps DEF Acquire
      <2>4. QED BY <1>3, <2>2, <2>3
<1>4. QED BY <1>1, <1>2, <1>3

(* A step that observes the time, keeps a sample and goes on.              *)
LEMMA ObserveTypes ==
    ASSUME IInv, NEW s \in Sessions, NEW to \in Steps \ {"idle"}, pc[s] # "idle",
           ObserveTime, at' = [at EXCEPT ![s] = now], Goto(s, to),
           UNCHANGED <<now, issued, task, base, mine, won, floor, returned, late>>
    PROVE  /\ TypeOK' /\ OnlyOf(s)
           /\ pc'[s] = to /\ at'[s] = now /\ task'[s] = task[s]
           /\ mine'[s] = mine[s] /\ base'[s] = base[s] /\ floor'[s] = floor[s]
<1>1. live' \in Store /\ stable' = live' BY ObservedGrows
<1>2. at' \in [Sessions -> 0 .. MaxTime] BY RunnerJobsAssumption DEF IInv, TypeOK
<1>3. pc' \in [Sessions -> Steps] BY DEF IInv, TypeOK, Goto
<1>4. \A t \in Sessions : pc'[t] = "idle" <=> task'[t] = None BY DEF IInv, TypeOK, Goto
<1>5. TypeOK' BY <1>1, <1>2, <1>3, <1>4 DEF IInv, TypeOK
<1>6. OnlyOf(s) BY DEF OnlyOf, Goto, IInv, TypeOK
<1>7. pc'[s] = to /\ at'[s] = now BY DEF IInv, TypeOK, Goto
<1>8. QED BY <1>5, <1>6, <1>7

(* The mark at the begin of an operation is not above the clock once the   *)
(* clock has been accepted as the new mark.                                *)
LEMMA FloorBelow ==
    ASSUME IInv, NEW s \in Sessions, pc[s] # "idle", CommitTime
    PROVE  floor[s] <= now /\ live'.high = now
<1>1. live.high \in Nat /\ floor[s] \in Nat /\ now \in Nat
      BY RunnerJobsAssumption DEF IInv, TypeOK, Store
<1>2. floor[s] <= live.high BY DEF IInv, Local, Begun
<1>3. live.high <= now BY DEF CommitTime
<1>4. live'.high = now BY CommitTimeGrows DEF IInv, TypeOK
<1>5. QED BY <1>1, <1>2, <1>3, <1>4

(* startedAt *)
LEMMA StartedKeeps ==
    ASSUME IInv, NEW s \in Sessions, Started(s)
    PROVE  IInv'
<1>1. /\ TypeOK' /\ OnlyOf(s) /\ pc'[s] = "read" /\ floor'[s] = floor[s]
      BY ObserveTypes DEF Started
<1>2. GrowsTo(live, live') /\ GrowsTo(stable, stable') /\ GrowsTo(stable', live')
      BY ObservedGrows DEF Started
<1>3. floor[s] <= now /\ live'.high = now BY FloorBelow DEF Started, ObserveTime
<1>4. Local(s)'
      BY <1>1, <1>3 DEF Local, Draft, Awaiting, InLive, InStable, Begun, Drafting, Settled
<1>5. QED BY <1>1, <1>2, <1>4, SessionStep DEF Started

(* checkRunnerJobCurrent before the write.                                 *)
LEMMA ObserveFirstKeeps ==
    ASSUME IInv, NEW s \in Sessions, CheckObserve(s, "observe_first", "sample_first")
    PROVE  IInv'
<1>1. /\ TypeOK' /\ OnlyOf(s) /\ pc'[s] = "sample_first" /\ task'[s] = task[s]
      /\ mine'[s] = mine[s] /\ base'[s] = base[s] /\ floor'[s] = floor[s]
      BY ObserveTypes DEF CheckObserve
<1>2. GrowsTo(live, live') /\ GrowsTo(stable, stable') /\ GrowsTo(stable', live')
      BY ObservedGrows DEF CheckObserve
<1>3. floor[s] <= now /\ live'.high = now BY FloorBelow DEF CheckObserve, ObserveTime
<1>4. Draft(s)' BY <1>1 DEF IInv, Local, Draft, Drafting, CheckObserve
<1>5. Local(s)'
      BY <1>1, <1>3, <1>4 DEF Local, Awaiting, InLive, InStable, Begun, Settled
<1>6. QED BY <1>1, <1>2, <1>5, SessionStep DEF CheckObserve

(* checkRunnerJobCurrent before the answer: what SQLite shows is durable.  *)
LEMMA ObserveLastKeeps ==
    ASSUME IInv, NEW s \in Sessions, CheckObserve(s, "observe_last", "sample_last")
    PROVE  IInv'
<1>1. /\ TypeOK' /\ OnlyOf(s) /\ pc'[s] = "sample_last" /\ task'[s] = task[s]
      /\ mine'[s] = mine[s] /\ floor'[s] = floor[s] /\ at'[s] = now
      BY ObserveTypes DEF CheckObserve
<1>2. /\ GrowsTo(live, live') /\ GrowsTo(stable, stable') /\ GrowsTo(stable', live')
      /\ stable' = live' /\ live'.jobs = live.jobs
      BY ObservedGrows DEF CheckObserve
<1>3. floor[s] <= now /\ live'.high = now BY FloorBelow DEF CheckObserve, ObserveTime
<1>4. InLive(s)' /\ InStable(s)'
      BY <1>1, <1>2, <1>3 DEF IInv, Local, InLive, InStable, Settled, CheckObserve
<1>5. Local(s)'
      BY <1>1, <1>3, <1>4 DEF Local, Draft, Awaiting, Begun, Drafting
<1>6. QED BY <1>1, <1>2, <1>5, SessionStep DEF CheckObserve

(* A step that takes the record read and the record to write.              *)
LEMMA TakeTypes ==
    ASSUME IInv, NEW s \in Sessions, pc[s] # "idle", NEW step \in Steps \ {"idle"},
           NEW previous \in Job \cup {None}, NEW next \in Job,
           Take(s, previous, next, step), issued' \in 0 .. MaxIds
    PROVE  /\ TypeOK' /\ OnlyOf(s) /\ pc'[s] = step
           /\ base'[s] = previous /\ mine'[s] = next /\ task'[s] = task[s]
           /\ live' = live /\ Begun(s)'
           /\ GrowsTo(live, live') /\ GrowsTo(stable, stable') /\ GrowsTo(stable', live')
<1>1. /\ base' = [base EXCEPT ![s] = previous] /\ mine' = [mine EXCEPT ![s] = next]
      /\ pc' = [pc EXCEPT ![s] = step]
      /\ UNCHANGED <<now, live, stable, task, at, won, floor, returned, late>>
      BY DEF Take, Goto, storeVars
<1>2. base' \in [Sessions -> Job \cup {None}] /\ mine' \in [Sessions -> Job \cup {None}]
      BY <1>1 DEF IInv, TypeOK
<1>3. pc' \in [Sessions -> Steps] BY <1>1 DEF IInv, TypeOK
<1>4. \A t \in Sessions : pc'[t] = "idle" <=> task'[t] = None BY <1>1 DEF IInv, TypeOK
<1>5. TypeOK' BY <1>1, <1>2, <1>3, <1>4 DEF IInv, TypeOK
<1>6. OnlyOf(s) BY <1>1 DEF OnlyOf, IInv, TypeOK
<1>7. pc'[s] = step /\ base'[s] = previous /\ mine'[s] = next /\ task'[s] = task[s]
      BY <1>1 DEF IInv, TypeOK
<1>8. Begun(s)' BY <1>1 DEF IInv, Local, Begun
<1>9. GrowsTo(live, live') /\ GrowsTo(stable, stable') /\ GrowsTo(stable', live')
      BY <1>1, UnchangedGrows DEF storeVars
<1>10. QED BY <1>1, <1>5, <1>6, <1>7, <1>8, <1>9

(* An existing row is the answer.                                          *)
LEMMA TakeRow ==
    ASSUME IInv, NEW s \in Sessions, pc[s] # "idle", Row(s) # None,
           Take(s, None, Row(s), "observe_last"), UNCHANGED issued
    PROVE  IInv'
<1>1. Row(s) \in Job BY TaskOfActive DEF IInv
<1>2. issued' \in 0 .. MaxIds BY DEF IInv, TypeOK
<1>3. /\ TypeOK' /\ OnlyOf(s) /\ pc'[s] = "observe_last" /\ mine'[s] = Row(s)
      /\ task'[s] = task[s] /\ live' = live /\ Begun(s)'
      /\ GrowsTo(live, live') /\ GrowsTo(stable, stable') /\ GrowsTo(stable', live')
      BY <1>1, <1>2, TakeTypes
<1>4. InLive(s)' BY <1>3, ExtendsReflexive DEF InLive, Row
<1>5. Local(s)' BY <1>3, <1>4 DEF Local, Draft, Awaiting, InStable, Drafting
<1>6. QED BY <1>3, <1>5, SessionStep DEF Take

(* prepare finds its job or drafts one.                                    *)
LEMMA PrepareReadKeeps ==
    ASSUME IInv, NEW s \in Sessions, PrepareRead(s)
    PROVE  IInv'
<1> DEFINE intent == task[s].arg
           draft == [id |-> issued + 1, intent |-> intent, createdAt |-> now,
                     review |-> None, identity |-> None]
<1>1. CASE Row(s) # None /\ Take(s, None, Row(s), "observe_last") /\ UNCHANGED issued
      BY <1>1, TakeRow DEF PrepareRead
<1>2. CASE /\ issued < MaxIds /\ issued' = issued + 1
           /\ Take(s, None, draft, "observe_first")
      <2>1. pc[s] # "idle" /\ task[s].op = "prepare" BY DEF PrepareRead
      <2>2. intent \in Intents BY <2>1, TaskOfActive DEF IInv
      <2>3. issued + 1 \in Ids BY <1>2, RunnerJobsAssumption DEF IInv, TypeOK
      <2>4. draft \in Job BY <2>2, <2>3 DEF Job, IInv, TypeOK
      <2>5. issued' \in 0 .. MaxIds BY <1>2, <2>3, RunnerJobsAssumption
      <2>6. /\ TypeOK' /\ OnlyOf(s) /\ pc'[s] = "observe_first" /\ mine'[s] = draft
            /\ task'[s] = task[s] /\ Begun(s)'
            /\ GrowsTo(live, live') /\ GrowsTo(stable, stable') /\ GrowsTo(stable', live')
            BY <1>2, <2>1, <2>4, <2>5, TakeTypes
      <2>7. mine'[s] # None BY <2>4, <2>6, RunnerJobsAssumption
      <2>8. Local(s)'
            BY <2>1, <2>6, <2>7 DEF Local, Draft, Awaiting, InLive, InStable, Settled
      <2>9. QED BY <1>2, <2>6, <2>8, SessionStep DEF Take
<1>3. QED BY <1>1, <1>2 DEF PrepareRead

(* The draft of a review extends the row that was read.                    *)
LEMMA ReviewReadKeeps ==
    ASSUME IInv, NEW s \in Sessions, ReviewRead(s)
    PROVE  IInv'
<1> DEFINE row == Row(s)
           draft == [row EXCEPT !.review = task[s].arg]
<1>1. /\ pc[s] # "idle" /\ task[s].op = "review" /\ row # None /\ UNCHANGED issued
      BY DEF ReviewRead
<1>2. row \in Job /\ task[s].arg \in Review BY <1>1, TaskOfActive DEF IInv
<1>3. CASE Take(s, None, row, "observe_last")
      BY <1>1, <1>3, TakeRow
<1>4. CASE row.review = None /\ Take(s, row, draft, "observe_first")
      <2>1. draft \in Job BY <1>2 DEF Job
      <2>2. issued' \in 0 .. MaxIds BY <1>1 DEF IInv, TypeOK
      <2>3. /\ TypeOK' /\ OnlyOf(s) /\ pc'[s] = "observe_first" /\ mine'[s] = draft
            /\ base'[s] = row /\ task'[s] = task[s] /\ Begun(s)'
            /\ GrowsTo(live, live') /\ GrowsTo(stable, stable') /\ GrowsTo(stable', live')
            BY <1>1, <1>2, <1>4, <2>1, <2>2, TakeTypes
      <2>4. Extends(row, draft) BY <1>2, <1>4 DEF Extends, SamePrepared, Job
      <2>5. mine'[s] # None BY <2>1, <2>3, RunnerJobsAssumption
      <2>6. Local(s)'
            BY <1>1, <2>3, <2>4, <2>5 DEF Local, Draft, Awaiting, InLive, InStable, Settled
      <2>7. QED BY <1>4, <2>3, <2>6, SessionStep DEF Take
<1>5. QED BY <1>3, <1>4 DEF ReviewRead

(* The record read before the await has its review.                        *)
LEMMA AcquireReadKeeps ==
    ASSUME IInv, NEW s \in Sessions, AcquireRead(s)
    PROVE  IInv'
<1> DEFINE row == Row(s)
<1>1. /\ pc[s] # "idle" /\ task[s].op = "acquire" /\ row # None /\ row.review # None
      /\ Take(s, row, row, "await") /\ UNCHANGED issued
      BY DEF AcquireRead
<1>2. row \in Job BY <1>1, TaskOfActive DEF IInv
<1>3. issued' \in 0 .. MaxIds BY <1>1 DEF IInv, TypeOK
<1>4. /\ TypeOK' /\ OnlyOf(s) /\ pc'[s] = "await" /\ mine'[s] = row
      /\ base'[s] = row /\ task'[s] = task[s] /\ Begun(s)'
      /\ GrowsTo(live, live') /\ GrowsTo(stable, stable') /\ GrowsTo(stable', live')
      BY <1>1, <1>2, <1>3, TakeTypes
<1>5. Local(s)'
      BY <1>1, <1>4, ExtendsReflexive DEF Local, Draft, Awaiting, InLive, InStable, Settled
<1>6. QED BY <1>1, <1>4, <1>5, SessionStep DEF Take

(* The identity the client answers with is well formed.                    *)
LEMMA IdentityTypes ==
    ASSUME NEW job \in Job, job.review # None, NEW e \in Evidence
    PROVE  IdentityFor(job, e) \in Identity
<1>1. job.review \in Review /\ job.intent \in Intents BY DEF Job
<1>2. job.review.completedAt \in Nat /\ job.intent.expiresAt \in Nat /\ e.validUntil \in Nat
      BY <1>1, RunnerJobsAssumption DEF Review
<1>3. job.review.completedAt + ReviewTtl \in Nat BY <1>2, RunnerJobsAssumption
<1>4. \A a, b \in Nat : Min2(a, b) \in Nat BY DEF Min2
<1>5. IdentityFor(job, e).expiresAt \in Nat BY <1>2, <1>3, <1>4 DEF IdentityFor
<1>6. QED BY <1>5 DEF IdentityFor, Identity

(* The evidence client's answer extends the record that was read.          *)
LEMMA AnsweredKeeps ==
    ASSUME IInv, NEW s \in Sessions, Answered(s)
    PROVE  IInv'
<1>1. PICK e \in Evidence :
        /\ base[s].identity \in {None, IdentityFor(base[s], e)}
        /\ mine' = [mine EXCEPT ![s].identity = IdentityFor(base[s], e)]
      BY DEF Answered
<1> DEFINE identity == IdentityFor(base[s], e)
<1>2. /\ pc[s] = "await" /\ pc' = [pc EXCEPT ![s] = "append"] /\ ObserveTime
      /\ UNCHANGED <<now, issued, task, at, base, won, floor, returned, late>>
      BY DEF Answered, Goto
<1>3. /\ mine[s] \in Job /\ base[s] \in Job /\ base[s].review # None
      /\ task[s].op = "acquire" /\ Extends(base[s], mine[s])
      BY <1>2 DEF IInv, TypeOK, Local, Draft, Awaiting, Drafting
<1>4. identity \in Identity BY <1>3, IdentityTypes
<1>5. mine'[s] = [mine[s] EXCEPT !.identity = identity] BY <1>1 DEF IInv, TypeOK
<1>6. mine'[s] \in Job BY <1>3, <1>4, <1>5 DEF Job
<1>7. mine' \in [Sessions -> Job \cup {None}] BY <1>1, <1>5, <1>6 DEF IInv, TypeOK
<1>8. /\ live' \in Store /\ stable' = live'
      /\ GrowsTo(live, live') /\ GrowsTo(stable, stable') /\ GrowsTo(stable', live')
      BY <1>2, ObservedGrows
<1>9. pc' \in [Sessions -> Steps] /\ \A t \in Sessions : pc'[t] = "idle" <=> task'[t] = None
      BY <1>2 DEF IInv, TypeOK
<1>10. TypeOK' BY <1>2, <1>7, <1>8, <1>9 DEF IInv, TypeOK
<1>11. OnlyOf(s) BY <1>1, <1>2 DEF OnlyOf, IInv, TypeOK
<1>12. pc'[s] = "append" BY <1>2 DEF IInv, TypeOK
<1>13. Extends(base[s], mine'[s])
       <2>1. /\ mine'[s].id = mine[s].id /\ mine'[s].intent = mine[s].intent
             /\ mine'[s].createdAt = mine[s].createdAt /\ mine'[s].review = mine[s].review
             /\ mine'[s].identity = identity
             BY <1>3, <1>5 DEF Job
       <2>2. QED BY <1>1, <1>3, <2>1 DEF Extends, SamePrepared
<1>14. mine'[s] # None BY <1>6, RunnerJobsAssumption
<1>15. floor[s] <= now /\ live'.high = now BY <1>2, FloorBelow DEF ObserveTime
<1>16. Local(s)'
       <2>1. base[s] # None BY <1>3, RunnerJobsAssumption
       <2>2. Draft(s)' /\ Awaiting(s)' BY <1>2, <1>3, <1>13, <1>14, <2>1 DEF Draft, Awaiting
       <2>3. Begun(s)' BY <1>2, <1>15 DEF Begun
       <2>4. QED BY <1>12, <2>2, <2>3 DEF Local, InLive, InStable, Settled
<1>17. QED BY <1>2, <1>8, <1>10, <1>11, <1>16, SessionStep

(* The evidence client's failure ends the operation.                       *)
LEMMA UnansweredKeeps ==
    ASSUME IInv, NEW s \in Sessions, Unanswered(s)
    PROVE  IInv'
<1>1. /\ live' \in Store /\ stable' = live'
      /\ GrowsTo(live, live') /\ GrowsTo(stable, stable') /\ GrowsTo(stable', live')
      BY ObservedGrows DEF Unanswered
<1>2. TypeOK' BY <1>1, EndTypes DEF IInv, TypeOK, Unanswered
<1>3. OnlyOf(s) /\ Local(s)' BY EndLocal DEF IInv, Unanswered
<1>4. QED BY <1>1, <1>2, <1>3, SessionStep DEF Unanswered

(* What Keep leaves: the record in a row of the live store.                *)
LEMMA KeepTypes ==
    ASSUME IInv, NEW s \in Sessions, pc[s] # "idle", NEW job \in Job, Keep(s, job),
           job = Row(s), live' = live, stable' \in Store,
           UNCHANGED <<now, issued, task, at, floor, returned, late>>
    PROVE  TypeOK' /\ OnlyOf(s) /\ Local(s)'
<1>1. /\ base' = [base EXCEPT ![s] = None] /\ mine' = [mine EXCEPT ![s] = job]
      /\ won' = [won EXCEPT ![s] = FALSE] /\ pc' = [pc EXCEPT ![s] = "observe_last"]
      BY DEF Keep, Goto
<1>2. /\ base' \in [Sessions -> Job \cup {None}] /\ mine' \in [Sessions -> Job \cup {None}]
      /\ won' \in [Sessions -> BOOLEAN]
      BY <1>1 DEF IInv, TypeOK
<1>3. pc' \in [Sessions -> Steps] /\ \A t \in Sessions : pc'[t] = "idle" <=> task'[t] = None
      BY <1>1 DEF IInv, TypeOK
<1>4. TypeOK' BY <1>2, <1>3 DEF IInv, TypeOK
<1>5. OnlyOf(s) BY <1>1 DEF OnlyOf, IInv, TypeOK
<1>6. pc'[s] = "observe_last" /\ mine'[s] = job BY <1>1 DEF IInv, TypeOK
<1>7. Begun(s)' BY DEF IInv, Local, Begun
<1>8. job # None BY RunnerJobsAssumption
<1>9. InLive(s)' BY <1>6, <1>8, ExtendsReflexive DEF InLive, Row
<1>10. Local(s)' BY <1>6, <1>7, <1>9 DEF Local, Draft, Awaiting, InStable, Drafting
<1>11. QED BY <1>4, <1>5, <1>10

(* A step that only moves on with its draft.                               *)
LEMMA GoOn ==
    ASSUME IInv, NEW s \in Sessions, pc[s] \in Drafting, Goto(s, "write"),
           UNCHANGED <<now, storeVars, issued, task, at, base, mine, won, floor, returned, late>>
    PROVE  IInv'
<1>1. pc' = [pc EXCEPT ![s] = "write"] /\ pc[s] # "idle" BY DEF Goto, Drafting
<1>2. pc' \in [Sessions -> Steps] /\ \A t \in Sessions : pc'[t] = "idle" <=> task'[t] = None
      BY <1>1 DEF IInv, TypeOK
<1>3. TypeOK' BY <1>2 DEF IInv, TypeOK, storeVars
<1>4. OnlyOf(s) BY <1>1 DEF OnlyOf, IInv, TypeOK
<1>5. pc'[s] = "write" BY <1>1 DEF IInv, TypeOK
<1>6. Draft(s)' BY <1>5 DEF IInv, Local, Draft
<1>7. Begun(s)' BY <1>1 DEF IInv, Local, Begun, storeVars
<1>8. Local(s)' BY <1>5, <1>6, <1>7 DEF Local, Awaiting, InLive, InStable, Settled
<1>9. GrowsTo(live, live') /\ GrowsTo(stable, stable') /\ GrowsTo(stable', live')
      BY UnchangedGrows
<1>10. QED BY <1>3, <1>4, <1>8, <1>9, SessionStep

(* A retained identity is the row's; a first one is written.               *)
LEMMA AppendKeeps ==
    ASSUME IInv, NEW s \in Sessions, Append(s)
    PROVE  IInv'
<1>1. /\ pc[s] = "append"
      /\ UNCHANGED <<now, storeVars, issued, task, at, floor, returned, late>>
      BY DEF Append
<1>2. GrowsTo(live, live') /\ GrowsTo(stable, stable') /\ GrowsTo(stable', live')
      BY <1>1, UnchangedGrows
<1>3. CASE Row(s) = mine[s] /\ Keep(s, mine[s])
      <2>1. mine[s] \in Job BY <1>1 DEF IInv, TypeOK, Local, Draft, Drafting
      <2>2. stable' \in Store /\ live' = live BY <1>1 DEF IInv, TypeOK, storeVars
      <2>3. TypeOK' /\ OnlyOf(s) /\ Local(s)' BY <1>1, <1>3, <2>1, <2>2, KeepTypes
      <2>4. QED BY <1>1, <1>2, <2>3, SessionStep
<1>4. CASE Goto(s, "write") /\ UNCHANGED <<base, mine, won>>
      <2>1. pc[s] \in Drafting BY <1>1 DEF Drafting
      <2>2. QED BY <1>1, <1>4, <2>1, GoOn
<1>5. QED BY <1>3, <1>4 DEF Append

(* The second sample of the check before the write.                        *)
LEMMA FirstCheckKeeps ==
    ASSUME IInv, NEW s \in Sessions, FirstCheck(s)
    PROVE  IInv'
BY GoOn DEF FirstCheck, Drafting

(* The end of a write: the draft is still the draft.                       *)
LEMMA WroteKeeps ==
    ASSUME IInv, NEW s \in Sessions, pc[s] = "write", NEW committed \in BOOLEAN,
           Wrote(s, committed), live' \in Store, GrowsTo(live, live')
    PROVE  IInv'
<1>1. /\ won' = [won EXCEPT ![s] = committed] /\ pc' = [pc EXCEPT ![s] = "readback"]
      /\ UNCHANGED <<now, stable, issued, task, at, base, mine, floor, returned, late>>
      BY DEF Wrote, Goto
<1>2. won' \in [Sessions -> BOOLEAN] BY <1>1 DEF IInv, TypeOK
<1>3. pc' \in [Sessions -> Steps] /\ \A t \in Sessions : pc'[t] = "idle" <=> task'[t] = None
      BY <1>1 DEF IInv, TypeOK
<1>4. TypeOK' BY <1>1, <1>2, <1>3 DEF IInv, TypeOK
<1>5. OnlyOf(s) BY <1>1 DEF OnlyOf, IInv, TypeOK
<1>6. pc'[s] = "readback" BY <1>1 DEF IInv, TypeOK
<1>7. Draft(s)' BY <1>1, <1>6 DEF IInv, Local, Draft, Drafting
<1>8. Begun(s)'
      <2>1. live.high \in Nat /\ live'.high \in Nat /\ floor[s] \in Nat
            BY RunnerJobsAssumption DEF IInv, TypeOK, Store
      <2>2. floor[s] <= live.high /\ live.high <= live'.high
            BY DEF IInv, Local, Begun, GrowsTo
      <2>3. QED BY <1>1, <2>1, <2>2 DEF Begun
<1>9. Local(s)' BY <1>6, <1>7, <1>8 DEF Local, Awaiting, InLive, InStable, Settled
<1>10. GrowsTo(stable, stable') BY <1>1, GrowsReflexive DEF IInv, TypeOK
<1>11. GrowsTo(stable', live') BY <1>1, GrowsTransitive DEF IInv, TypeOK
<1>12. QED BY <1>1, <1>4, <1>5, <1>9, <1>10, <1>11, SessionStep

(* An insert fills an empty row or leaves the store alone.                 *)
LEMMA InsertKeeps ==
    ASSUME IInv, NEW s \in Sessions, Insert(s)
    PROVE  IInv'
<1>1. pc[s] = "write" BY DEF Insert
<1>2. CASE Wrote(s, FALSE) /\ UNCHANGED live
      <2>1. live' \in Store /\ GrowsTo(live, live') BY <1>2, GrowsReflexive DEF IInv, TypeOK
      <2>2. QED BY <1>1, <1>2, <2>1, WroteKeeps
<1>3. CASE Row(s) = None /\ Put(s) /\ Wrote(s, TRUE)
      <2>1. task[s].key \in Keys BY <1>1, TaskOfActive DEF IInv
      <2>2. mine[s] \in Job BY <1>1 DEF IInv, TypeOK, Local, Draft, Drafting
      <2>3. live \in Store BY DEF IInv, TypeOK
      <2>4. live' \in Store /\ GrowsTo(live, live') BY <1>3, <2>1, <2>2, <2>3, PutGrows
      <2>5. QED BY <1>1, <1>3, <2>4, WroteKeeps
<1>4. QED BY <1>2, <1>3 DEF Insert

(* The row is still the record the draft extends.                          *)
LEMMA CompareAndSwapKeeps ==
    ASSUME IInv, NEW s \in Sessions, CompareAndSwap(s)
    PROVE  IInv'
<1>1. pc[s] = "write" /\ task[s].op # "prepare" BY DEF CompareAndSwap
<1>2. CASE Wrote(s, FALSE) /\ UNCHANGED live
      <2>1. live' \in Store /\ GrowsTo(live, live') BY <1>2, GrowsReflexive DEF IInv, TypeOK
      <2>2. QED BY <1>1, <1>2, <2>1, WroteKeeps
<1>3. CASE Row(s) = base[s] /\ Put(s) /\ Wrote(s, TRUE)
      <2>1. task[s].key \in Keys BY <1>1, TaskOfActive DEF IInv
      <2>2. mine[s] \in Job /\ Extends(base[s], mine[s])
            BY <1>1 DEF IInv, TypeOK, Local, Draft, Drafting
      <2>3. live \in Store BY DEF IInv, TypeOK
      <2>4. live' \in Store /\ GrowsTo(live, live') BY <1>3, <2>1, <2>2, <2>3, PutGrows
      <2>5. QED BY <1>1, <1>3, <2>4, WroteKeeps
<1>4. QED BY <1>2, <1>3 DEF CompareAndSwap

(* After the sync the live store is the durable one.                       *)
LEMMA ReadbackKeeps ==
    ASSUME IInv, NEW s \in Sessions, Readback(s)
    PROVE  IInv'
<1>1. /\ pc[s] = "readback" /\ live' = live /\ stable' = live /\ Row(s) # None
      /\ UNCHANGED <<now, issued, returned, late>>
      BY DEF Readback, Sync
<1>2. /\ live' \in Store /\ stable' \in Store
      /\ GrowsTo(live, live') /\ GrowsTo(stable, stable') /\ GrowsTo(stable', live')
      BY <1>1, GrowsReflexive DEF IInv, TypeOK
<1>3. CASE Keep(s, Row(s)) /\ UNCHANGED <<task, at, floor>>
      <2>1. Row(s) \in Job BY <1>1, TaskOfActive DEF IInv
      <2>2. TypeOK' /\ OnlyOf(s) /\ Local(s)' BY <1>1, <1>2, <1>3, <2>1, KeepTypes
      <2>3. QED BY <1>1, <1>2, <2>2, SessionStep
<1>4. CASE End(s)
      <2>1. TypeOK' BY <1>1, <1>2, <1>4, EndTypes DEF IInv, TypeOK
      <2>2. OnlyOf(s) /\ Local(s)' BY <1>4, EndLocal DEF IInv
      <2>3. QED BY <1>1, <1>2, <2>1, <2>2, SessionStep
<1>5. QED BY <1>3, <1>4 DEF Readback

(* A record that is current now was not over at an earlier time.           *)
LEMMA CurrentNotOver ==
    ASSUME NEW job \in Job, NEW f \in Nat, NEW t \in Nat, f <= t, Current(job, t)
    PROVE  ~Over(job, f)
<1>1. job.intent.expiresAt \in Nat /\ t < job.intent.expiresAt
      BY RunnerJobsAssumption DEF Job, Current
<1>2. job.review # None =>
        job.review.completedAt + ReviewTtl \in Nat /\ t < job.review.completedAt + ReviewTtl
      BY RunnerJobsAssumption DEF Job, Review, Current
<1>3. job.identity # None => job.identity.expiresAt \in Nat /\ t < job.identity.expiresAt
      BY DEF Job, Identity, Current
<1>4. QED BY <1>1, <1>2, <1>3 DEF Over

(* The record returned is part of the durable store and is not late.       *)
LEMMA ReturnKeeps ==
    ASSUME IInv, NEW s \in Sessions, Return(s)
    PROVE  IInv'
<1> DEFINE x == [key |-> task[s].key, job |-> mine[s]]
<1>1. /\ pc[s] = "sample_last" /\ at[s] <= now /\ Current(mine[s], now)
      /\ returned' = returned \cup {x}
      /\ late' = IF Over(mine[s], floor[s]) THEN late \cup {mine[s]} ELSE late
      /\ End(s) /\ UNCHANGED <<now, live, stable, issued>>
      BY DEF Return, Answer, CheckSample, storeVars
<1>2. mine[s] \in Job /\ task[s].key \in Keys
      BY <1>1, TaskOfActive DEF IInv, TypeOK, Local, InLive, Settled
<1>3. /\ stable.jobs[task[s].key] # None /\ Extends(mine[s], stable.jobs[task[s].key])
      /\ floor[s] <= at[s]
      BY <1>1 DEF IInv, Local, InStable
<1>4. floor[s] \in Nat /\ now \in Nat /\ at[s] \in Nat
      BY RunnerJobsAssumption DEF IInv, TypeOK
<1>5. floor[s] <= now BY <1>1, <1>3, <1>4
<1>6. ~Over(mine[s], floor[s]) BY <1>1, <1>2, <1>4, <1>5, CurrentNotOver
<1>7. OverStaysOver' BY <1>1, <1>6 DEF IInv, OverStaysOver
<1>8. ReturnedIsDurable' BY <1>1, <1>3 DEF IInv, ReturnedIsDurable
<1>9. TypeOK'
      <2>1. returned' \subseteq [key : Keys, job : Job] BY <1>1, <1>2 DEF IInv, TypeOK
      <2>2. late' \subseteq Job BY <1>1, <1>6 DEF IInv, TypeOK
      <2>3. QED BY <1>1, <2>1, <2>2, EndTypes DEF IInv, TypeOK
<1>10. OnlyOf(s) /\ Local(s)' BY <1>1, EndLocal DEF IInv
<1>11. GrowsTo(live, live') /\ GrowsTo(stable, stable') /\ GrowsTo(stable', live')
       BY <1>1, UnchangedGrows DEF storeVars
<1>12. ASSUME NEW t \in Sessions, t # s PROVE Local(t)'
       <2>1. /\ pc'[t] = pc[t] /\ task'[t] = task[t] /\ at'[t] = at[t]
             /\ base'[t] = base[t] /\ mine'[t] = mine[t] /\ floor'[t] = floor[t]
             BY <1>10, <1>12 DEF OnlyOf
       <2>2. QED BY <1>9, <1>11, <2>1, Frame DEF IInv
<1>13. QED BY <1>7, <1>8, <1>9, <1>10, <1>11, <1>12 DEF IInv

(* A failure may leave the committed time unsynced.                        *)
LEMMA FailKeeps ==
    ASSUME IInv, NEW s \in Sessions, Fail(s)
    PROVE  IInv'
<1>1. End(s) /\ UNCHANGED <<now, stable, issued, returned, late>> BY DEF Fail
<1>2. live' \in Store /\ GrowsTo(live, live')
      <2>1. CASE UNCHANGED live BY <2>1, GrowsReflexive DEF IInv, TypeOK
      <2>2. CASE CommitTime BY <2>2, CommitTimeGrows DEF IInv, TypeOK
      <2>3. QED BY <2>1, <2>2 DEF Fail
<1>3. GrowsTo(stable, stable') BY <1>1, GrowsReflexive DEF IInv, TypeOK
<1>4. GrowsTo(stable', live') BY <1>1, <1>2, GrowsTransitive DEF IInv, TypeOK
<1>5. TypeOK' BY <1>1, <1>2, EndTypes DEF IInv, TypeOK
<1>6. OnlyOf(s) /\ Local(s)' BY <1>1, EndLocal DEF IInv
<1>7. QED BY <1>1, <1>2, <1>3, <1>4, <1>5, <1>6, SessionStep

(* Nothing depends on the clock alone.                                     *)
LEMMA ClockKeeps ==
    ASSUME IInv, ClockMoves
    PROVE  IInv'
<1>1. /\ now' \in Times
      /\ UNCHANGED <<live, stable, issued, pc, task, at, base, mine, won, floor, returned, late>>
      BY DEF ClockMoves, storeVars, sessionVars
<1>2. TypeOK' BY <1>1 DEF IInv, TypeOK
<1>3. GrowsTo(live, live') /\ GrowsTo(stable, stable') /\ GrowsTo(stable', live')
      BY <1>1, UnchangedGrows DEF storeVars
<1>4. ReturnedIsDurable' /\ OverStaysOver'
      BY <1>1, <1>3, StaysDurable DEF IInv, OverStaysOver
<1>5. \A t \in Sessions : Local(t)' BY <1>1, <1>2, <1>3, Frame DEF IInv
<1>6. QED BY <1>2, <1>3, <1>4, <1>5 DEF IInv

(* The live store may go back to the durable one, and never below it.      *)
LEMMA PowerLossKeeps ==
    ASSUME IInv, PowerLoss
    PROVE  IInv' /\ GrowsTo(stable, stable')
<1>1. live' \in {live, stable} /\ stable' = live' /\ UNCHANGED <<now, issued, returned, late>>
      BY DEF PowerLoss
<1>2. live' \in Store /\ GrowsTo(stable, stable') /\ GrowsTo(stable', live')
      BY <1>1, GrowsReflexive DEF IInv, TypeOK
<1>3. TypeOK'
      <2>1. /\ pc' \in [Sessions -> Steps] /\ task' \in [Sessions -> Task \cup {None}]
            /\ base' \in [Sessions -> Job \cup {None}] /\ mine' \in [Sessions -> Job \cup {None}]
            /\ won' \in [Sessions -> BOOLEAN]
            /\ \A s \in Sessions : pc'[s] = "idle" <=> task'[s] = None
            BY DEF PowerLoss
      <2>2. at' \in [Sessions -> 0 .. MaxTime] /\ floor' \in [Sessions -> 0 .. MaxTime]
            BY RunnerJobsAssumption DEF PowerLoss
      <2>3. QED BY <1>1, <1>2, <2>1, <2>2 DEF IInv, TypeOK
<1>4. ReturnedIsDurable' /\ OverStaysOver'
      BY <1>1, <1>2, StaysDurable DEF IInv, OverStaysOver
<1>5. ASSUME NEW s \in Sessions PROVE Local(s)'
      <2>1. pc'[s] = "idle" BY DEF PowerLoss
      <2>2. QED BY <2>1 DEF Local, Draft, Awaiting, InLive, InStable, Begun, Drafting, Settled
<1>6. QED BY <1>2, <1>3, <1>4, <1>5 DEF IInv

-----------------------------------------------------------------------------
(* The initialized store.                                                  *)
LEMMA InitIInv ==
    ASSUME Init PROVE IInv
<1>1. Empty \in Store BY RunnerJobsAssumption DEF Empty, Store
<1>2. TypeOK
      <2>1. /\ pc \in [Sessions -> Steps] /\ task \in [Sessions -> Task \cup {None}]
            /\ base \in [Sessions -> Job \cup {None}] /\ mine \in [Sessions -> Job \cup {None}]
            /\ won \in [Sessions -> BOOLEAN]
            /\ \A s \in Sessions : pc[s] = "idle" <=> task[s] = None
            BY DEF Init
      <2>2. /\ at \in [Sessions -> 0 .. MaxTime] /\ floor \in [Sessions -> 0 .. MaxTime]
            /\ issued \in 0 .. MaxIds
            BY RunnerJobsAssumption DEF Init
      <2>3. QED BY <1>1, <2>1, <2>2 DEF Init, TypeOK
<1>3. GrowsTo(stable, live) BY <1>1, GrowsReflexive DEF Init
<1>4. ReturnedIsDurable /\ OverStaysOver BY DEF Init, ReturnedIsDurable, OverStaysOver
<1>5. \A s \in Sessions : Local(s)
      BY DEF Init, Local, Draft, Awaiting, InLive, InStable, Begun, Drafting, Settled
<1>6. QED BY <1>2, <1>3, <1>4, <1>5 DEF IInv

(* Every step of an operation.                                             *)
LEMMA ContinueKeeps ==
    ASSUME IInv, NEW s \in Sessions, Continue(s)
    PROVE  IInv'
BY StartedKeeps, PrepareReadKeeps, ReviewReadKeeps, AcquireReadKeeps, AnsweredKeeps,
   UnansweredKeeps, AppendKeeps, ObserveFirstKeeps, FirstCheckKeeps, InsertKeeps,
   CompareAndSwapKeeps, ReadbackKeeps, ObserveLastKeeps, ReturnKeeps, FailKeeps
   DEF Continue

(* Every step.                                                             *)
LEMMA NextKeeps ==
    ASSUME IInv, [Next]_vars
    PROVE  IInv'
<1>1. CASE UNCHANGED vars
      <2>1. UNCHANGED <<now, live, stable, issued, pc, task, at, base, mine, won, floor,
                        returned, late>>
            BY <1>1 DEF vars
      <2>2. TypeOK' BY <2>1 DEF IInv, TypeOK
      <2>3. GrowsTo(live, live') /\ GrowsTo(stable, stable') /\ GrowsTo(stable', live')
            BY <2>1, UnchangedGrows DEF storeVars
      <2>4. ReturnedIsDurable' /\ OverStaysOver'
            BY <2>1, <2>3, StaysDurable DEF IInv, OverStaysOver
      <2>5. \A t \in Sessions : Local(t)' BY <2>1, <2>2, <2>3, Frame DEF IInv
      <2>6. QED BY <2>2, <2>3, <2>4, <2>5 DEF IInv
<1>2. CASE Next
      BY <1>2, ClockKeeps, PowerLossKeeps, OpenKeeps, CallKeeps, ContinueKeeps DEF Next
<1>3. QED BY <1>1, <1>2

(* The inductive invariant.                                                *)
THEOREM Invariance == Spec => []IInv
<1>1. Init => IInv BY InitIInv
<1>2. IInv /\ [Next]_vars => IInv' BY NextKeeps
<1>3. QED BY <1>1, <1>2, PTL DEF Spec

(* Every variable keeps its type, and exactly the idle sessions have no    *)
(* input: an operation that ends in whatever way leaves nothing behind.    *)
THEOREM TypeCorrect == Spec => []TypeOK
<1>1. IInv => TypeOK BY DEF IInv
<1>2. QED BY <1>1, Invariance, PTL

(* A record that a session was given is in the durable store for good,     *)
(* with the review and the identity it carried.                            *)
THEOREM Durability == Spec => []ReturnedIsDurable
<1>1. IInv => ReturnedIsDurable BY DEF IInv
<1>2. QED BY <1>1, Invariance, PTL

(* Any number of sessions that race over a key, fail after a commit or     *)
(* lose the power are given one and the same job.                          *)
THEOREM Agreement == Spec => []ReturnedAgree
<1>1. ReturnedIsDurable => ReturnedAgree
      BY DEF ReturnedIsDurable, ReturnedAgree, Extends, SamePrepared
<1>2. QED BY <1>1, Durability, PTL

(* No operation returns a record that was over at a time the store had     *)
(* accepted before it began, whatever the clock did since.                 *)
THEOREM EndsStay == Spec => []OverStaysOver
<1>1. IInv => OverStaysOver BY DEF IInv
<1>2. QED BY <1>1, Invariance, PTL

-----------------------------------------------------------------------------
(* Steps of an operation never shrink the durable store.                   *)
LEMMA ContinueGrows ==
    ASSUME IInv, NEW s \in Sessions, Continue(s)
    PROVE  GrowsTo(stable, stable')
<1>1. GrowsTo(stable, stable) BY GrowsReflexive DEF IInv, TypeOK
<1>2. CASE ObserveTime BY <1>2, ObservedGrows
<1>3. CASE UNCHANGED stable BY <1>1, <1>3
<1>4. CASE Readback(s)
      <2>1. stable' = live BY <1>4 DEF Readback, Sync
      <2>2. QED BY <2>1 DEF IInv
<1>5. CASE Started(s) \/ Answered(s) \/ Unanswered(s)
      BY <1>2, <1>5 DEF Started, Answered, Unanswered
<1>6. CASE \/ CheckObserve(s, "observe_first", "sample_first")
           \/ CheckObserve(s, "observe_last", "sample_last")
      BY <1>2, <1>6 DEF CheckObserve
<1>7. CASE PrepareRead(s) \/ ReviewRead(s) \/ AcquireRead(s) \/ Append(s) \/ FirstCheck(s)
      BY <1>3, <1>7 DEF PrepareRead, ReviewRead, AcquireRead, Take, Append, FirstCheck, storeVars
<1>8. CASE Insert(s) \/ CompareAndSwap(s) \/ Return(s) \/ Fail(s)
      BY <1>3, <1>8 DEF Insert, CompareAndSwap, Wrote, Return, Fail, storeVars
<1>9. QED BY <1>4, <1>5, <1>6, <1>7, <1>8 DEF Continue

(* No step, a power loss included, takes back a durable record, a part of  *)
(* one, or the durable high-water mark.                                    *)
THEOREM Growth == Spec => DurableOnlyGrows
<1>1. ASSUME IInv, [Next]_vars
      PROVE  [GrowsTo(stable, stable')]_stable
      <2>1. CASE UNCHANGED stable BY <2>1
      <2>2. CASE PowerLoss BY <1>1, <2>2, PowerLossKeeps
      <2>3. CASE ClockMoves BY <2>3, <2>1 DEF ClockMoves, storeVars
      <2>4. ASSUME NEW s \in Sessions, Open(s) \/ Call(s) \/ Continue(s)
            PROVE  [GrowsTo(stable, stable')]_stable
            <3>1. CASE Open(s) BY <1>1, <3>1, ObservedGrows DEF Open
            <3>2. CASE Call(s)
                  BY <3>2, <2>1 DEF Call, Prepare, RecordReview, Acquire, Begin, storeVars
            <3>3. CASE Continue(s) BY <1>1, <3>3, ContinueGrows
            <3>4. QED BY <2>4, <3>1, <3>2, <3>3
      <2>5. QED BY <1>1, <2>1, <2>2, <2>3, <2>4 DEF Next, vars
<1>2. IInv /\ [Next]_vars =>
        [/\ stable.high <= stable'.high
         /\ \A k \in Keys : stable.jobs[k] # None =>
               stable'.jobs[k] # None /\ Extends(stable.jobs[k], stable'.jobs[k])]_stable
      BY <1>1 DEF GrowsTo
<1>3. QED BY <1>2, Invariance, PTL DEF Spec, DurableOnlyGrows

-----------------------------------------------------------------------------
(* The rows in use are finitely many.                                      *)
LEMMA OccupiedFinite ==
    ASSUME NEW store
    PROVE  IsFiniteSet(Occupied(store)) /\ Cardinality(Occupied(store)) \in Nat
<1>1. Occupied(store) \in SUBSET Keys BY DEF Occupied
<1>2. IsFiniteSet(Occupied(store)) BY <1>1, FS_Subset, RunnerJobsAssumption
<1>3. QED BY <1>2, FS_CardinalityType

(* The durable store has no more rows than the live one.                   *)
LEMMA StableFits ==
    ASSUME IInv, WithinCapacity
    PROVE  Cardinality(Occupied(stable)) <= MaxJobs
<1>1. Occupied(stable) \in SUBSET Occupied(live) BY DEF IInv, GrowsTo, Occupied
<1>2. Cardinality(Occupied(stable)) <= Cardinality(Occupied(live))
      BY <1>1, OccupiedFinite, FS_Subset
<1>3. QED BY <1>2, OccupiedFinite, RunnerJobsAssumption DEF WithinCapacity

(* A write changes the number of rows only if it counted them.             *)
LEMMA WriteFits ==
    ASSUME IInv, WithinCapacity, NEW s \in Sessions, Insert(s) \/ CompareAndSwap(s)
    PROVE  WithinCapacity'
<1> DEFINE k == task[s].key
<1>0. pc[s] = "write" BY DEF Insert, CompareAndSwap
<1>1. k \in Keys BY <1>0, TaskOfActive DEF IInv
<1>2. CASE UNCHANGED live BY <1>2 DEF WithinCapacity, Occupied
<1>3. ASSUME Put(s)
      PROVE  Occupied(live)' \in SUBSET (Occupied(live) \cup {k})
      BY <1>1, <1>3 DEF Put, Occupied, IInv, TypeOK, Store
<1>4. CASE Put(s) /\ Row(s) # None
      <2>1. Occupied(live)' \in SUBSET Occupied(live) BY <1>1, <1>3, <1>4 DEF Row, Occupied
      <2>2. Cardinality(Occupied(live)') <= Cardinality(Occupied(live))
            BY <2>1, OccupiedFinite, FS_Subset
      <2>3. Cardinality(Occupied(live)') \in Nat BY <2>1, OccupiedFinite, FS_Subset, FS_CardinalityType
      <2>4. QED BY <2>2, <2>3, OccupiedFinite, RunnerJobsAssumption DEF WithinCapacity
<1>5. CASE Put(s) /\ Cardinality(Occupied(live)) < MaxJobs
      <2>1. /\ IsFiniteSet(Occupied(live) \cup {k})
            /\ Cardinality(Occupied(live) \cup {k}) <= Cardinality(Occupied(live)) + 1
            BY OccupiedFinite, FS_AddElement
      <2>2. /\ Cardinality(Occupied(live)') <= Cardinality(Occupied(live) \cup {k})
            /\ Cardinality(Occupied(live)') \in Nat
            BY <1>3, <1>5, <2>1, FS_Subset, FS_CardinalityType
      <2>3. Cardinality(Occupied(live) \cup {k}) \in Nat BY <2>1, FS_CardinalityType
      <2>4. QED BY <1>5, <2>1, <2>2, <2>3, OccupiedFinite, RunnerJobsAssumption DEF WithinCapacity
<1>6. QED BY <1>2, <1>4, <1>5 DEF Insert, CompareAndSwap

(* Sessions that insert at the same time never hold more rows than the     *)
(* limit: the count is taken in the transaction of the insert.             *)
THEOREM Capacity == Spec => []WithinCapacity
<1>1. Init => WithinCapacity
      <2>1. SUFFICES ASSUME Init PROVE WithinCapacity OBVIOUS
      <2>2. Occupied(live) = {} BY <2>1 DEF Init, Empty, Occupied
      <2>3. Cardinality(Occupied(live)) = 0 BY <2>2, FS_EmptySet
      <2>4. QED BY <2>3, RunnerJobsAssumption DEF WithinCapacity
<1>2. IInv /\ WithinCapacity /\ [Next]_vars => WithinCapacity'
      <2>1. SUFFICES ASSUME IInv, WithinCapacity, [Next]_vars PROVE WithinCapacity'
            OBVIOUS
      <2>2. CASE live'.jobs = live.jobs BY <2>1, <2>2 DEF WithinCapacity, Occupied
      <2>3. CASE CommitTime
            <3>1. live'.jobs = live.jobs BY <2>1, <2>3, CommitTimeGrows DEF IInv, TypeOK
            <3>2. QED BY <2>2, <3>1
      <2>4. CASE UNCHANGED live BY <2>2, <2>4
      <2>5. CASE PowerLoss
            <3>1. CASE live' = stable BY <2>1, <3>1, StableFits DEF WithinCapacity, Occupied
            <3>2. QED BY <2>4, <2>5, <3>1 DEF PowerLoss
      <2>6. CASE ClockMoves BY <2>4, <2>6 DEF ClockMoves, storeVars
      <2>7. ASSUME NEW s \in Sessions, Open(s) \/ Call(s) \/ Continue(s)
            PROVE  WithinCapacity'
            <3>1. CASE Open(s) BY <2>3, <3>1 DEF Open, ObserveTime
            <3>2. CASE Call(s)
                  BY <2>4, <3>2 DEF Call, Prepare, RecordReview, Acquire, Begin, storeVars
            <3>3. CASE Insert(s) \/ CompareAndSwap(s) BY <2>1, <3>3, WriteFits
            <3>4. CASE \/ Started(s) \/ Answered(s) \/ Unanswered(s)
                       \/ CheckObserve(s, "observe_first", "sample_first")
                       \/ CheckObserve(s, "observe_last", "sample_last")
                  BY <2>3, <3>4 DEF Started, Answered, Unanswered, CheckObserve, ObserveTime
            <3>5. CASE \/ PrepareRead(s) \/ ReviewRead(s) \/ AcquireRead(s) \/ Append(s)
                       \/ FirstCheck(s)
                  BY <2>4, <3>5
                     DEF PrepareRead, ReviewRead, AcquireRead, Take, Append, FirstCheck, storeVars
            <3>6. CASE Readback(s) \/ Return(s) \/ Fail(s)
                  BY <2>3, <2>4, <3>6 DEF Readback, Return, Fail, storeVars
            <3>7. QED BY <2>7, <3>1, <3>2, <3>3, <3>4, <3>5, <3>6 DEF Continue
      <2>8. QED BY <2>1, <2>4, <2>5, <2>6, <2>7 DEF Next, vars
<1>3. QED BY <1>1, <1>2, Invariance, PTL DEF Spec
=============================================================================
