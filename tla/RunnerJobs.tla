----------------------------- MODULE RunnerJobs -----------------------------
(***************************************************************************)
(* Runner jobs: the SQLite job store                                       *)
(* (packages/db/src/runner-job-store-sqlite.ts) and the session protocol   *)
(* on top of it (packages/app/src/runner-job-record.ts, -producer.ts,      *)
(* -service-core.ts, -evidence.ts).                                        *)
(*                                                                         *)
(* Sessions run in processes of their own over one database.  A job is     *)
(* prepared under a key (campaign and run), then gets the reviewed output, *)
(* then the identity of the runner's evidence.  Each store call is one     *)
(* step, except that a write commits in one step and is synced and read    *)
(* back in the next.  The clock moves both ways; the store keeps its       *)
(* high-water mark.  A check that refuses and a call that fails both end   *)
(* the operation with an error: that is the action Fail, possible in every *)
(* step, so the other actions only say how an operation goes on.           *)
(***************************************************************************)
EXTENDS Naturals, FiniteSets

CONSTANTS
    Sessions,       \* open sessions, each in a process of its own
    Keys,           \* (campaignId, runId)
    Intents,        \* what a caller may ask to prepare: source, plan and expiry
    Outputs,        \* reviewed outputs
    Evidence,       \* attestations the evidence client may return, with their trust's end
    None,
    ReviewTtl,      \* REVIEW_TTL_MS
    MaxJobs,        \* rows the store accepts (100 in the code)
    MaxTime,        \* bound: latest time
    MaxIds          \* bound: job ids issued

VARIABLES
    now,            \* clock.wallNow()
    live,           \* the store as SQLite shows it
    stable,         \* the store as it survives a power loss
    issued,         \* job ids issued so far
    pc,             \* per session: where its operation is
    task,           \* per session: the operation's input
    at,             \* per session: a clock sample kept for a later comparison
    base,           \* per session: the record read (previous, snapshot)
    mine,           \* per session: the record to write or to return
    won,            \* per session: inserted or committed
    floor,          \* history: per session, the high-water mark when it began
    returned,       \* history: records returned, with their key
    late            \* history: records returned by operations that began after their end

storeVars == <<live, stable>>
sessionVars == <<pc, task, at, base, mine, won, floor>>
vars == <<now, live, stable, issued, pc, task, at, base, mine, won, floor, returned, late>>

-----------------------------------------------------------------------------
Times == 1 .. MaxTime
Ids == 1 .. MaxIds
Review == [out : Outputs, completedAt : Times]
Identity == [evidence : Evidence, expiresAt : Nat]
Job == [id : Ids, intent : Intents, createdAt : Times, review : Review \cup {None},
        identity : Identity \cup {None}]
Store == [high : 0 .. MaxTime, jobs : [Keys -> Job \cup {None}]]
Task ==
    [op : {"prepare"}, key : Keys, id : {None}, arg : Intents]
    \cup [op : {"review"}, key : Keys, id : Ids, arg : Review]
    \cup [op : {"acquire"}, key : Keys, id : Ids, arg : {None}]

(* The steps in which observeTime is the next store call.                  *)
Observing == {"begin", "observe_first", "observe_last", "await"}
Steps == Observing \cup {"idle", "read", "sample_first", "append", "write", "readback", "sample_last"}

ASSUME RunnerJobsAssumption ==
    /\ IsFiniteSet(Keys)
    /\ MaxTime \in Nat /\ MaxIds \in Nat /\ MaxJobs \in Nat /\ ReviewTtl \in Nat
    /\ \A i \in Intents : i.expiresAt \in Nat
    /\ \A e \in Evidence : e.validUntil \in Nat
    /\ None \notin Job /\ None \notin Review /\ None \notin Identity /\ None \notin Task

TypeOK ==
    /\ now \in Times
    /\ live \in Store /\ stable \in Store
    /\ issued \in 0 .. MaxIds
    /\ pc \in [Sessions -> Steps]
    /\ task \in [Sessions -> Task \cup {None}]
    /\ at \in [Sessions -> 0 .. MaxTime]
    /\ base \in [Sessions -> Job \cup {None}]
    /\ mine \in [Sessions -> Job \cup {None}]
    /\ won \in [Sessions -> BOOLEAN]
    /\ floor \in [Sessions -> 0 .. MaxTime]
    /\ returned \subseteq [key : Keys, job : Job]
    /\ late \subseteq Job
    /\ \A s \in Sessions : pc[s] = "idle" <=> task[s] = None

Empty == [high |-> 0, jobs |-> [k \in Keys |-> None]]

(* initializeJobStore has run.                                             *)
Init ==
    /\ now \in Times
    /\ live = Empty /\ stable = Empty
    /\ issued = 0
    /\ pc = [s \in Sessions |-> "idle"]
    /\ task = [s \in Sessions |-> None]
    /\ at = [s \in Sessions |-> 0]
    /\ base = [s \in Sessions |-> None]
    /\ mine = [s \in Sessions |-> None]
    /\ won = [s \in Sessions |-> FALSE]
    /\ floor = [s \in Sessions |-> 0]
    /\ returned = {}
    /\ late = {}

-----------------------------------------------------------------------------
(* assertJobCurrent *)
Current(job, t) ==
    /\ job.createdAt <= t /\ t < job.intent.expiresAt
    /\ job.review # None =>
          job.review.completedAt <= t /\ t < job.review.completedAt + ReviewTtl
    /\ job.identity # None => t < job.identity.expiresAt

(* Time t is past the end of the job.                                      *)
Over(job, t) ==
    \/ job.intent.expiresAt <= t
    \/ job.review # None /\ job.review.completedAt + ReviewTtl <= t
    \/ job.identity # None /\ job.identity.expiresAt <= t

(* samePrepared *)
SamePrepared(a, b) == a.id = b.id /\ a.intent = b.intent /\ a.createdAt = b.createdAt

Min2(a, b) == IF a < b THEN a ELSE b

(* The evidence client's answer for a reviewed job: its identity ends with *)
(* the review, the plan and the trusted key, whichever is first.           *)
IdentityFor(job, e) ==
    [evidence |-> e,
     expiresAt |-> Min2(Min2(job.review.completedAt + ReviewTtl, job.intent.expiresAt), e.validUntil)]

Row(s) == live.jobs[task[s].key]
Occupied(store) == {k \in Keys : store.jobs[k] # None}

Goto(s, step) == pc' = [pc EXCEPT ![s] = step]

(* The operation is over.                                                  *)
End(s) ==
    /\ pc' = [pc EXCEPT ![s] = "idle"]
    /\ task' = [task EXCEPT ![s] = None]
    /\ at' = [at EXCEPT ![s] = 0]
    /\ base' = [base EXCEPT ![s] = None]
    /\ mine' = [mine EXCEPT ![s] = None]
    /\ won' = [won EXCEPT ![s] = FALSE]
    /\ floor' = [floor EXCEPT ![s] = 0]

\* Plausible bug: neither the file nor its directory is synced.
SyncOmitted == UNCHANGED stable

(* custody.sync: file and directory; a rollback journal that is still      *)
(* listed in the directory would undo the last commit.                     *)
Sync == stable' = live'

(* The transaction of observeTime.                                         *)
CommitTime == live.high <= now /\ live' = [live EXCEPT !.high = now]

(* observeTime: commit and sync; a failure between the two is Fail's.      *)
ObserveTime == CommitTime /\ Sync

-----------------------------------------------------------------------------
(* RunnerJobService.open observes the time.                                *)
Open(s) ==
    /\ pc[s] = "idle"
    /\ ObserveTime
    /\ UNCHANGED <<now, issued, sessionVars, returned, late>>

Begin(s, t) ==
    /\ pc[s] = "idle"
    /\ task' = [task EXCEPT ![s] = t]
    /\ floor' = [floor EXCEPT ![s] = live.high]
    /\ Goto(s, "begin")
    /\ UNCHANGED <<now, storeVars, issued, at, base, mine, won, returned, late>>

(* prepareRunnerJobWithSource, recordRunnerJobReview and                   *)
(* acquireRunnerJobEvidence are called; a caller has the id of a job from  *)
(* an earlier answer.                                                      *)
Prepare(s, k, i) == Begin(s, [op |-> "prepare", key |-> k, id |-> None, arg |-> i])
RecordReview(s, k, id, r) == Begin(s, [op |-> "review", key |-> k, id |-> id, arg |-> r])
Acquire(s, k, id) == Begin(s, [op |-> "acquire", key |-> k, id |-> id, arg |-> None])

(* Each of them first observes the time, startedAt.                        *)
Started(s) ==
    /\ pc[s] = "begin"
    /\ ObserveTime
    /\ at' = [at EXCEPT ![s] = now]
    /\ Goto(s, "read")
    /\ UNCHANGED <<now, issued, task, base, mine, won, floor, returned, late>>

(* Only the record is needed from here to the end of the operation.        *)
Keep(s, job) ==
    /\ base' = [base EXCEPT ![s] = None]
    /\ mine' = [mine EXCEPT ![s] = job]
    /\ won' = [won EXCEPT ![s] = FALSE]
    /\ Goto(s, "observe_last")

Take(s, previous, next, step) ==
    /\ base' = [base EXCEPT ![s] = previous]
    /\ mine' = [mine EXCEPT ![s] = next]
    /\ Goto(s, step)
    /\ UNCHANGED <<now, storeVars, task, at, won, floor, returned, late>>

(* An existing job of the same intent is the answer; otherwise a candidate *)
(* with a fresh random id is made.                                         *)
PrepareRead(s) ==
    LET row == Row(s)
        intent == task[s].arg
    IN  /\ pc[s] = "read" /\ task[s].op = "prepare"
        /\ \/ /\ row # None /\ row.intent = intent
              /\ Take(s, None, row, "observe_last")
              /\ UNCHANGED issued
           \/ /\ row = None /\ now < intent.expiresAt /\ issued < MaxIds
              /\ issued' = issued + 1
              /\ Take(s, None, [id |-> issued + 1, intent |-> intent, createdAt |-> now,
                                review |-> None, identity |-> None], "observe_first")

(* A job with the same review is the answer; one without gets it.          *)
ReviewRead(s) ==
    LET row == Row(s)
        review == task[s].arg
    IN  /\ pc[s] = "read" /\ task[s].op = "review"
        /\ row # None /\ row.id = task[s].id /\ Current(row, at[s])
        /\ row.createdAt <= review.completedAt /\ review.completedAt <= at[s]
        /\ at[s] < review.completedAt + ReviewTtl
        /\ \/ row.review = review /\ Take(s, None, row, "observe_last")
           \/ row.review = None /\ Take(s, row, [row EXCEPT !.review = review], "observe_first")
        /\ UNCHANGED issued

(* inspectRunnerJob, before the await.                                     *)
AcquireRead(s) ==
    LET row == Row(s)
    IN  /\ pc[s] = "read" /\ task[s].op = "acquire"
        /\ row # None /\ row.id = task[s].id /\ Current(row, at[s]) /\ row.review # None
        /\ Take(s, row, row, "await")
        /\ UNCHANGED issued

(* The client answers before the identity ends: with the identity it       *)
(* retained, if there is one, or with a first one.  The time is observed.  *)
Answered(s) ==
    /\ pc[s] = "await"
    /\ \E e \in Evidence :
          LET identity == IdentityFor(base[s], e)
          IN  /\ now < identity.expiresAt
              /\ base[s].identity \in {None, identity}
              /\ mine' = [mine EXCEPT ![s].identity = identity]
    /\ ObserveTime
    /\ Goto(s, "append")
    /\ UNCHANGED <<now, issued, task, at, base, won, floor, returned, late>>

(* The client reports a failure; the time is observed first.               *)
Unanswered(s) ==
    /\ pc[s] = "await"
    /\ ObserveTime
    /\ End(s)
    /\ UNCHANGED <<now, issued, returned, late>>

(* appendJobIdentity with a fresh sample.  A retained identity is compared *)
(* with the store, a first one is written.                                 *)
Append(s) ==
    /\ pc[s] = "append"
    /\ Current(mine[s], now)
    /\ \/ base[s].identity # None /\ Row(s) = mine[s] /\ Keep(s, mine[s])
       \/ base[s].identity = None /\ Goto(s, "write") /\ UNCHANGED <<base, mine, won>>
    /\ UNCHANGED <<now, storeVars, issued, task, at, floor, returned, late>>

-----------------------------------------------------------------------------
(* checkRunnerJobCurrent: observe the time durably ...                     *)
CheckObserve(s, from, to) ==
    /\ pc[s] = from
    /\ ObserveTime
    /\ at' = [at EXCEPT ![s] = now]
    /\ Goto(s, to)
    /\ UNCHANGED <<now, issued, task, base, mine, won, floor, returned, late>>

(* ... then check the record against a second sample, not before the first.*)
CheckSample(s, job) == at[s] <= now /\ Current(job, now)

FirstCheck(s) ==
    /\ pc[s] = "sample_first"
    /\ CheckSample(s, mine[s])
    /\ Goto(s, "write")
    /\ UNCHANGED <<now, storeVars, issued, task, at, base, mine, won, floor, returned, late>>

Put(s) == live' = [live EXCEPT !.jobs[task[s].key] = mine[s]]

Wrote(s, committed) ==
    /\ won' = [won EXCEPT ![s] = committed]
    /\ Goto(s, "readback")
    /\ UNCHANGED <<now, stable, issued, task, at, base, mine, floor, returned, late>>

\* Plausible bug: a full store takes one more row.
InsertUnbounded(s) ==
    /\ pc[s] = "write" /\ task[s].op = "prepare"
    /\ \/ Row(s) # None /\ Wrote(s, FALSE) /\ UNCHANGED live
       \/ Row(s) = None /\ Put(s) /\ Wrote(s, TRUE)

(* insert: the transaction.                                                *)
Insert(s) ==
    /\ pc[s] = "write" /\ task[s].op = "prepare"
    /\ \/ Row(s) # None /\ Wrote(s, FALSE) /\ UNCHANGED live
       \/ /\ Row(s) = None /\ Cardinality(Occupied(live)) < MaxJobs
          /\ Put(s)
          /\ Wrote(s, TRUE)

\* Plausible bug: the update does not compare the previous row.
CompareAndSwapBlind(s) ==
    /\ pc[s] = "write" /\ task[s].op # "prepare"
    /\ Row(s) # None
    /\ Put(s)
    /\ Wrote(s, TRUE)

(* compareAndSwap: the transaction.                                        *)
CompareAndSwap(s) ==
    /\ pc[s] = "write" /\ task[s].op # "prepare"
    /\ Row(s) # None
    /\ \/ Row(s) = base[s] /\ Put(s) /\ Wrote(s, TRUE)
       \/ Row(s) # base[s] /\ Wrote(s, FALSE) /\ UNCHANGED live

(* What the operation accepts as the outcome of its write: a row of the    *)
(* same intent; the review it asked for, possibly with evidence that       *)
(* another session added since; exactly the evidence it acquired.          *)
Accepts(s, row) ==
    CASE task[s].op = "prepare" -> won[s] \/ row.intent = task[s].arg
      [] task[s].op = "review" ->
            IF won[s]
            THEN \/ row = mine[s]
                 \/ row.identity # None /\ SamePrepared(mine[s], row) /\ row.review = task[s].arg
            ELSE SamePrepared(base[s], row) /\ row.review = task[s].arg
      [] OTHER -> row = mine[s]

(* Sync, then read outside the transaction.                                *)
Readback(s) ==
    /\ pc[s] = "readback"
    /\ UNCHANGED live /\ Sync
    /\ Row(s) # None
    /\ \/ /\ Accepts(s, Row(s))
          /\ Keep(s, Row(s))
          /\ UNCHANGED <<task, at, floor>>
       \/ ~Accepts(s, Row(s)) /\ End(s)
    /\ UNCHANGED <<now, issued, returned, late>>

(* The history of answers.                                                 *)
Answer(s) ==
    /\ returned' = returned \cup {[key |-> task[s].key, job |-> mine[s]]}
    /\ late' = IF Over(mine[s], floor[s]) THEN late \cup {mine[s]} ELSE late

\* Plausible bug: the record is not checked again before it is returned.
ReturnUnchecked(s) ==
    /\ pc[s] = "sample_last"
    /\ Answer(s)
    /\ End(s)
    /\ UNCHANGED <<now, storeVars, issued>>

(* The last check holds and the record is returned.                        *)
Return(s) ==
    /\ pc[s] = "sample_last"
    /\ CheckSample(s, mine[s])
    /\ Answer(s)
    /\ End(s)
    /\ UNCHANGED <<now, storeVars, issued>>

(* The operation throws, or its process dies.  "A committed transaction is *)
(* an uncertain success after a later failure": a failure in readback      *)
(* leaves the row committed and unsynced, and observeTime may leave the    *)
(* time so.                                                                *)
Fail(s) ==
    /\ pc[s] # "idle"
    /\ \/ UNCHANGED live
       \/ pc[s] \in Observing /\ CommitTime
    /\ End(s)
    /\ UNCHANGED <<now, stable, issued, returned, late>>

-----------------------------------------------------------------------------
ClockMoves ==
    /\ now' \in Times
    /\ UNCHANGED <<storeVars, issued, sessionVars, returned, late>>

(* All processes die; the last commit is undone if its journal comes back. *)
PowerLoss ==
    /\ live' \in {live, stable}
    /\ stable' = live'
    /\ pc' = [s \in Sessions |-> "idle"]
    /\ task' = [s \in Sessions |-> None]
    /\ at' = [s \in Sessions |-> 0]
    /\ base' = [s \in Sessions |-> None]
    /\ mine' = [s \in Sessions |-> None]
    /\ won' = [s \in Sessions |-> FALSE]
    /\ floor' = [s \in Sessions |-> 0]
    /\ UNCHANGED <<now, issued, returned, late>>

Call(s) ==
    \E k \in Keys :
        \/ \E i \in Intents : Prepare(s, k, i)
        \/ \E id \in 1 .. issued :
              \/ \E r \in Review : RecordReview(s, k, id, r)
              \/ Acquire(s, k, id)

Continue(s) ==
    \/ Started(s) \/ PrepareRead(s) \/ ReviewRead(s) \/ AcquireRead(s)
    \/ Answered(s) \/ Unanswered(s) \/ Append(s)
    \/ CheckObserve(s, "observe_first", "sample_first") \/ FirstCheck(s)
    \/ Insert(s) \/ CompareAndSwap(s) \/ Readback(s)
    \/ CheckObserve(s, "observe_last", "sample_last") \/ Return(s)
    \/ Fail(s)

Next ==
    \/ ClockMoves \/ PowerLoss
    \/ \E s \in Sessions : Open(s) \/ Call(s) \/ Continue(s)

Spec == Init /\ [][Next]_vars

-----------------------------------------------------------------------------
(* new is old, possibly with a review or an identity that old lacks.       *)
Extends(old, new) ==
    /\ SamePrepared(old, new)
    /\ old.review \in {None, new.review}
    /\ old.identity \in {None, new.identity}

(* All sessions that were ever given the job of a key were given the same  *)
(* job: one id and plan, one review, one identity, whatever raced, failed  *)
(* after its commit or was lost with the power.                            *)
ReturnedAgree ==
    \A x, y \in returned : x.key = y.key =>
        /\ SamePrepared(x.job, y.job)
        /\ x.job.review = y.job.review \/ None \in {x.job.review, y.job.review}
        /\ x.job.identity = y.job.identity \/ None \in {x.job.identity, y.job.identity}

(* A returned record survives a power loss, with everything it carries.    *)
ReturnedIsDurable ==
    \A x \in returned :
        /\ stable.jobs[x.key] # None
        /\ Extends(x.job, stable.jobs[x.key])

(* Once the store has seen a time at which a record is over, no operation  *)
(* that begins later returns it, even after the clock was set back.        *)
OverStaysOver == late = {}

(* Durable records only grow and the durable high-water mark never goes    *)
(* back, power loss included.                                              *)
DurableOnlyGrows ==
    [][/\ stable.high <= stable'.high
       /\ \A k \in Keys : stable.jobs[k] # None =>
             stable'.jobs[k] # None /\ Extends(stable.jobs[k], stable'.jobs[k])]_stable

(* Two sessions that insert at the same time do not overfill the store.    *)
WithinCapacity == Cardinality(Occupied(live)) <= MaxJobs
=============================================================================
