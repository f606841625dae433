---------------------------- MODULE SourceStore ----------------------------
(***************************************************************************)
(* The store of source bundles (packages/db/src/runner-job-source-store.ts)*)
(* behind the hand-off of runner jobs.                                     *)
(*                                                                         *)
(* A bundle is written into a directory with a pending name, which is then *)
(* renamed to the name of its job.  Processes put and read at the same     *)
(* time; each may die in every step.  A power loss leaves a directory      *)
(* under its present or its last synced name, and of a file that was not   *)
(* synced possibly only a part.  Whatever makes a call throw (a conflict,  *)
(* a full or unsafe store, an I/O error) is one action, Fail.  All bundles *)
(* have the same size, so that the limit on the names stands for the one   *)
(* on the bytes too.                                                       *)
(***************************************************************************)
EXTENDS Naturals, FiniteSets

CONSTANTS
    Procs,
    Jobs,
    Contents,       \* source bundles
    Torn,           \* part of a bundle
    Pending,        \* a name .pending-<uuid>
    None,
    MaxEntries,     \* MAX_ENTRIES (100 in the code)
    Dirs            \* directories, of which there are only so many at a time

VARIABLES
    at,             \* per directory: its name, or None if it does not exist
    durableAt,      \* per directory: its name when the store was last synced
    file,           \* per directory: its source.bundle, or None
    synced,         \* per directory: whether its file survives a power loss
    pc,             \* per process: where its call is
    job,            \* per process: the job of its call
    data,           \* per process: the bundle of its put
    stage,          \* per process: its unpublished directory, or None
    observed,       \* per process: the number of names its first check found
    answer,         \* per process: what its last call, a read, returned
    accepted        \* history: puts that returned

storeVars == <<at, durableAt, file, synced>>
callVars == <<job, data, stage, observed>>
history == <<answer, accepted>>
vars == <<storeVars, pc, callVars, history>>

-----------------------------------------------------------------------------
ASSUME SourceStoreAssumption ==
    /\ IsFiniteSet(Jobs) /\ IsFiniteSet(Dirs)
    /\ MaxEntries \in Nat
    /\ Torn \notin Contents /\ None \notin Contents /\ Torn # None
    /\ Pending \notin Jobs /\ None \notin Jobs /\ Pending # None
    /\ None \notin Dirs

(* The directory of the store exists and is empty.                         *)
Init ==
    /\ at = [d \in Dirs |-> None] /\ durableAt = [d \in Dirs |-> None]
    /\ file = [d \in Dirs |-> None]
    /\ synced = [d \in Dirs |-> FALSE]
    /\ pc = [p \in Procs |-> "idle"]
    /\ job = [p \in Procs |-> None]
    /\ data = [p \in Procs |-> None]
    /\ stage = [p \in Procs |-> None]
    /\ observed = [p \in Procs |-> 0]
    /\ answer = [p \in Procs |-> None]
    /\ accepted = {}

-----------------------------------------------------------------------------
Existing == {d \in Dirs : at[d] # None}
Published == {d \in Dirs : at[d] \in Jobs}

(* readEntry: the bundles under the job's name (at most one, or ENOENT).   *)
Entry(j) == {file[d] : d \in {e \in Dirs : at[e] = j}}

(* check and inventory: not too many names, and a file under each job's.   *)
Count == Cardinality(Existing)
Check == Count <= MaxEntries /\ \A d \in Published : file[d] # None

Goto(p, step) == pc' = [pc EXCEPT ![p] = step]

(* The call of p is over.                                                  *)
End(p) ==
    /\ Goto(p, "idle")
    /\ job' = [job EXCEPT ![p] = None]
    /\ data' = [data EXCEPT ![p] = None]
    /\ stage' = [stage EXCEPT ![p] = None]
    /\ observed' = [observed EXCEPT ![p] = 0]

Accept(p) ==
    /\ accepted' = accepted \cup {[job |-> job[p], data |-> data[p]]}
    /\ End(p)
    /\ UNCHANGED answer

(* fsyncSync(fd): every name in the store is durable.                      *)
SyncNames == durableAt' = at'

-----------------------------------------------------------------------------
(* put: check comes before anything else.                                  *)
Put(p, j, c) ==
    /\ pc[p] = "idle"
    /\ Check
    /\ job' = [job EXCEPT ![p] = j]
    /\ data' = [data EXCEPT ![p] = c]
    /\ observed' = [observed EXCEPT ![p] = Count]
    /\ answer' = [answer EXCEPT ![p] = None]
    /\ Goto(p, "look")
    /\ UNCHANGED <<storeVars, stage, accepted>>

(* An entry with the same bytes is the answer; without one there has to be *)
(* room by the first check.                                                *)
Look(p) ==
    /\ pc[p] = "look"
    /\ \/ Entry(job[p]) = {data[p]} /\ Goto(p, "settle")
       \/ Entry(job[p]) = {} /\ observed[p] < MaxEntries /\ Goto(p, "mkdir")
    /\ UNCHANGED <<storeVars, callVars, history>>

(* Check again and sync the names.  A pending directory of another put may *)
(* vanish between readdir and lstat of this check: its ENOENT is taken for *)
(* a missing entry, and the call goes on to publish.                       *)
Settle(p) ==
    /\ pc[p] = "settle"
    /\ \/ /\ Check
          /\ UNCHANGED <<at, file, synced>> /\ SyncNames
          /\ Accept(p)
       \/ /\ \E q \in Procs \ {p} : stage[q] # None
          /\ observed[p] < MaxEntries
          /\ Goto(p, "mkdir")
          /\ UNCHANGED <<storeVars, callVars, history>>

(* mkdirSync of a fresh pending name.                                      *)
MakeStage(p) ==
    /\ pc[p] = "mkdir"
    /\ \E d \in Dirs :
          /\ at[d] = None /\ durableAt[d] = None
          /\ at' = [at EXCEPT ![d] = Pending]
          /\ stage' = [stage EXCEPT ![p] = d]
          /\ file' = [file EXCEPT ![d] = None]
          /\ synced' = [synced EXCEPT ![d] = FALSE]
    /\ Goto(p, "write")
    /\ UNCHANGED <<durableAt, job, data, observed, history>>

(* writeFileSync to a new file.                                            *)
Write(p) ==
    /\ pc[p] = "write"
    /\ file' = [file EXCEPT ![stage[p]] = data[p]]
    /\ Goto(p, "sync")
    /\ UNCHANGED <<at, durableAt, synced, callVars, history>>

\* Plausible bug: the file and its directory are not synced.
SyncStageOmitted(p) ==
    /\ pc[p] = "sync"
    /\ Goto(p, "recheck")
    /\ UNCHANGED <<storeVars, callVars, history>>

(* fsyncSync of the file and of the stage.                                 *)
SyncStage(p) ==
    /\ pc[p] = "sync"
    /\ synced' = [synced EXCEPT ![stage[p]] = TRUE]
    /\ Goto(p, "recheck")
    /\ UNCHANGED <<at, durableAt, file, callVars, history>>

\* Plausible bug: the room is not checked again with the stage in place.
RecheckOmitted(p) ==
    /\ pc[p] = "recheck"
    /\ Goto(p, "rename")
    /\ UNCHANGED <<storeVars, callVars, history>>

(* check with the own stage in place.                                      *)
Recheck(p) ==
    /\ pc[p] = "recheck"
    /\ Check
    /\ Goto(p, "rename")
    /\ UNCHANGED <<storeVars, callVars, history>>

(* renameSync.  An entry of the job is never empty, so the rename is       *)
(* refused (ENOTEMPTY, EEXIST) if there is one, and the call goes on.      *)
Rename(p) ==
    /\ pc[p] = "rename"
    /\ \/ /\ Entry(job[p]) = {}
          /\ at' = [at EXCEPT ![stage[p]] = job[p]]
          /\ stage' = [stage EXCEPT ![p] = None]
       \/ Entry(job[p]) # {} /\ UNCHANGED <<at, stage>>
    /\ Goto(p, "sync_name")
    /\ UNCHANGED <<durableAt, file, synced, job, data, observed, history>>

\* Plausible bug: the store's directory is not synced after the rename.
SyncEntryOmitted(p) ==
    /\ pc[p] = "sync_name"
    /\ Goto(p, "readback")
    /\ UNCHANGED <<storeVars, callVars, history>>

(* fsyncSync(fd) after the rename.                                         *)
SyncEntry(p) ==
    /\ pc[p] = "sync_name"
    /\ UNCHANGED <<at, file, synced>> /\ SyncNames
    /\ Goto(p, "readback")
    /\ UNCHANGED <<callVars, history>>

(* The entry, whoever published it, has the bytes of this call.            *)
PutReadback(p) ==
    /\ pc[p] = "readback"
    /\ Entry(job[p]) = {data[p]}
    /\ Check
    /\ \/ stage[p] = None /\ Accept(p)
       \/ stage[p] # None /\ Goto(p, "discard") /\ UNCHANGED <<callVars, history>>
    /\ UNCHANGED storeVars

(* The finally block removes the file and the directory of a stage that    *)
(* was not published.                                                      *)
RemoveStage(p) ==
    /\ at' = [at EXCEPT ![stage[p]] = None]
    /\ file' = [file EXCEPT ![stage[p]] = None]
    /\ UNCHANGED synced

(* The finally block after a lost race for the name.                       *)
Discard(p) ==
    /\ pc[p] = "discard"
    /\ RemoveStage(p) /\ SyncNames
    /\ Accept(p)

(* read: check before the entry is read.                                   *)
Read(p, j) ==
    /\ pc[p] = "idle"
    /\ Check
    /\ job' = [job EXCEPT ![p] = j]
    /\ answer' = [answer EXCEPT ![p] = None]
    /\ Goto(p, "read")
    /\ UNCHANGED <<storeVars, data, stage, observed, accepted>>

(* The entry is read, and check comes after it.                            *)
ReadEntry(p) ==
    /\ pc[p] = "read"
    /\ \E c \in Entry(job[p]) : answer' = [answer EXCEPT ![p] = c]
    /\ Check
    /\ End(p)
    /\ UNCHANGED <<storeVars, accepted>>

(* The call throws.  The finally block removes the stage; what is already  *)
(* published stays, although the caller is told of a failure.              *)
Fail(p) ==
    /\ pc[p] # "idle"
    /\ \/ stage[p] # None /\ RemoveStage(p) /\ SyncNames
       \/ stage[p] = None /\ UNCHANGED storeVars
    /\ End(p)
    /\ UNCHANGED history

(* The process dies, or its clean-up fails or is not reached (privateDir-  *)
(* ectory of the new stage): the stage stays, or is removed unsynced.      *)
Die(p) ==
    /\ pc[p] # "idle"
    /\ \/ UNCHANGED <<at, file, synced>>
       \/ stage[p] # None /\ RemoveStage(p)
    /\ End(p)
    /\ UNCHANGED <<durableAt, history>>

(* Every process is gone.  A directory has its present or its last synced  *)
(* name, and a file that was not synced may be torn.                       *)
PowerLoss ==
    /\ \E lost \in SUBSET {d \in Dirs : at[d] # durableAt[d]} :
          at' = [d \in Dirs |-> IF d \in lost THEN durableAt[d] ELSE at[d]]
    /\ SyncNames
    /\ \E torn \in SUBSET {d \in Dirs : ~synced[d] /\ file[d] # None} :
          file' = [d \in Dirs |-> IF d \in torn THEN Torn ELSE file[d]]
    /\ synced' = [d \in Dirs |-> TRUE]
    /\ pc' = [p \in Procs |-> "idle"]
    /\ job' = [p \in Procs |-> None]
    /\ data' = [p \in Procs |-> None]
    /\ stage' = [p \in Procs |-> None]
    /\ observed' = [p \in Procs |-> 0]
    /\ UNCHANGED history

Next ==
    \/ \E p \in Procs, j \in Jobs : Read(p, j) \/ \E c \in Contents : Put(p, j, c)
    \/ \E p \in Procs :
          \/ Look(p) \/ Settle(p) \/ MakeStage(p) \/ Write(p) \/ SyncStage(p) \/ Recheck(p)
          \/ Rename(p) \/ SyncEntry(p) \/ PutReadback(p) \/ Discard(p)
          \/ ReadEntry(p) \/ Fail(p) \/ Die(p)
    \/ PowerLoss

Spec == Init /\ [][Next]_vars

-----------------------------------------------------------------------------
(* A put that returned is published with its bytes in a form that every    *)
(* later power loss keeps, whether it renamed its own stage, lost the race *)
(* to a put of the same bytes, or found the entry of a put that is still   *)
(* under way or has died (put, fsyncSync before every return).             *)
PutIsDurable ==
    \A a \in accepted : \E d \in Dirs :
        at[d] = a.job /\ durableAt[d] = a.job /\ file[d] = a.data /\ synced[d]

(* What a read returns is a whole bundle, and that of every put of the job *)
(* that has returned: a reader never sees a stage half written or an entry *)
(* damaged by a power loss (readEntry, and the rename after the sync).     *)
ReadsAreWhole ==
    [][\A p \in Procs :
          pc[p] = "read" /\ answer'[p] # None
             => /\ answer'[p] \in Contents
                /\ \A a \in accepted : a.job = job[p] => a.data = answer'[p]]_vars

(* Concurrent puts do not publish more than MAX_ENTRIES bundles, although  *)
(* each looks at the number of names before and not while it renames.      *)
WithinLimit == Cardinality(Published) <= MaxEntries

=============================================================================
