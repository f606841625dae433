---------------------------- MODULE ReplayStore ----------------------------
(***************************************************************************)
(* The owner-authorization replay store of packages/db: the one-use        *)
(* initialization ceremony (external anchor, then SQLite identity row) and *)
(* the consumption of an authorization, run by several processes that can  *)
(* die between any two steps, on a machine that can lose power, while the  *)
(* file at the database path may be unlinked, replaced by a copy or put    *)
(* back.                                                                   *)
(*                                                                         *)
(* A file is named by its inode, and inodes are not reused.  SQLite in     *)
(* DELETE journal mode with synchronous=FULL syncs the main file and then  *)
(* removes the journal; until the directory is synced a power loss may     *)
(* bring the journal back and with it the content before the last commit:  *)
(* live[f] is what a reader sees and stable[f] what such a rollback leaves.*)
(* A rejected call that changes nothing is a stuttering step.              *)
(***************************************************************************)
EXTENDS Naturals

CONSTANTS
    Procs,      \* processes that open the database
    Files,      \* inodes that can appear at the database path
    NoFile,     \* the path names no file / no identity row
    NoProc,     \* nobody holds the write lock
    Requests,   \* consumption inputs
    NoRequest,
    Times       \* values the clock can show

(* A consumption input carries the four columns with a UNIQUE constraint   *)
(* and its expiry; the audited columns are not looked at by the store.     *)
RequestShape ==
    \A r \in Requests :
        DOMAIN r = {"authorizationId", "envelopeId", "envelopeDigest", "nonceDigest", "expiresAt"}

ASSUME ConstantsAssumption ==
    /\ NoFile \notin Files
    /\ NoProc \notin Procs
    /\ NoRequest \notin Requests
    /\ Times \subseteq Nat
    /\ \A r \in Requests : r.expiresAt \in Nat

ASSUME RequestAssumption == RequestShape

VARIABLES
    clock,        \* unixepoch('subsec') as SQLite reports it; an administrator may set it back
    path,       \* the inode at the database path, or NoFile
    used,       \* inodes that have existed
    live,       \* per inode: identity row and consumption rows a reader sees
    stable,     \* per inode: what a power loss may fall back to
    lock,       \* per inode: the process inside BEGIN IMMEDIATE
    anchor,     \* the external anchor file
    stage,         \* per process: where it is
    file,       \* per process: the inode its connection opened
    req,        \* per process: the input being consumed
    late,       \* per process: expiredAfterInsert as computed inside the transaction
    grants      \* history: successful returns per input

procVars == <<stage, file, req, late>>
diskVars == <<path, used, live, stable, lock, anchor>>
storeVars == <<clock, path, used, live, stable, lock, anchor, stage, file, req, late, grants>>

-----------------------------------------------------------------------------
Content == [identity : Files \cup {NoFile}, rows : SUBSET Requests]
Fresh == [identity |-> NoFile, rows |-> {}]

\* "empty": created, content not yet written; "written": content synced;
\* "durable": the directory entry is synced too.
AnchorStates == {"absent", "empty", "written", "durable"}
NoAnchor == [state |-> "absent", file |-> NoFile]

InitSteps == {"init_checked", "anchor_created", "anchor_written", "anchor_durable"}
LockedSteps == InitSteps \cup {"checked"}
Claiming == {"committed", "synced"}
Consuming == {"checked"} \cup Claiming
Steps == {"closed", "idle", "init_committed"} \cup LockedSteps \cup Claiming

TypeOK ==
    /\ clock \in Times
    /\ path \in Files \cup {NoFile}
    /\ used \subseteq Files
    /\ live \in [Files -> Content]
    /\ stable \in [Files -> Content]
    /\ lock \in [Files -> Procs \cup {NoProc}]
    /\ anchor \in [state : AnchorStates, file : Files \cup {NoFile}]
    /\ anchor.state = "absent" <=> anchor.file = NoFile
    /\ stage \in [Procs -> Steps]
    /\ file \in [Procs -> Files \cup {NoFile}]
    /\ req \in [Procs -> Requests \cup {NoRequest}]
    /\ late \in [Procs -> BOOLEAN]
    /\ grants \in [Requests -> Nat]
    /\ \A p \in Procs :
          /\ stage[p] = "closed" <=> file[p] = NoFile
          /\ stage[p] \in Consuming <=> req[p] # NoRequest

StoreInit ==
    /\ clock \in Times
    /\ path = NoFile
    /\ used = {}
    /\ live = [f \in Files |-> Fresh]
    /\ stable = [f \in Files |-> Fresh]
    /\ lock = [f \in Files |-> NoProc]
    /\ anchor = NoAnchor
    /\ stage = [p \in Procs |-> "closed"]
    /\ file = [p \in Procs |-> NoFile]
    /\ req = [p \in Procs |-> NoRequest]
    /\ late = [p \in Procs |-> FALSE]
    /\ grants = [r \in Requests |-> 0]

-----------------------------------------------------------------------------
(* The UNIQUE constraints of owner_authorization_consumptions.             *)
Clash(q, r) ==
    \/ q.authorizationId = r.authorizationId
    \/ q.envelopeId = r.envelopeId
    \/ q.envelopeDigest = r.envelopeDigest
    \/ q.nonceDigest = r.nonceDigest

\* Plausible bug: only the primary key is unique.
UniqueByAuthorization(rows, r) == \A q \in rows : q.authorizationId # r.authorizationId

UniqueIn(rows, r) == \A q \in rows : ~Clash(q, r)

(* assertStableOpenFileIdentity: the path still names the opened inode.    *)
StableOpenFileIdentity(p) == path = file[p]

(* readDurableReplayAnchor succeeds and names inode f.                     *)
AnchorNames(f) == anchor.state \in {"written", "durable"} /\ anchor.file = f

(* assertExactStoreIdentity: identity row, file and anchor agree.          *)
ExactStoreIdentity(p) == live[file[p]].identity = file[p] /\ AnchorNames(file[p])

(* assertInitializedOwnerAuthorizationStore.                               *)
InitializedStore(p) == StableOpenFileIdentity(p) /\ ExactStoreIdentity(p)

Goto(p, step) == stage' = [stage EXCEPT ![p] = step]

(* A SQLite COMMIT on inode f: the new content is what readers see, the    *)
(* old content is what a rolled-back journal would restore.                *)
Commit(f, content) ==
    /\ live' = [live EXCEPT ![f] = content]
    /\ stable' = [stable EXCEPT ![f] = live[f]]
    /\ lock' = [lock EXCEPT ![f] = NoProc]

(* fsync of the main file and of its directory.                            *)
Sync(f) == stable' = [stable EXCEPT ![f] = live[f]]

-----------------------------------------------------------------------------
(* getDb: open the file at the path, creating and migrating it if absent.  *)
Open(p) ==
    /\ stage[p] = "closed"
    /\ \/ /\ path # NoFile
          /\ file' = [file EXCEPT ![p] = path]
          /\ UNCHANGED <<path, used>>
       \/ /\ path = NoFile
          /\ \E f \in Files \ used :
                /\ path' = f
                /\ used' = used \cup {f}
                /\ file' = [file EXCEPT ![p] = f]
    /\ Goto(p, "idle")
    /\ UNCHANGED <<clock, live, stable, lock, anchor, req, late, grants>>

(* closeDb *)
Close(p) ==
    /\ stage[p] = "idle"
    /\ Goto(p, "closed")
    /\ file' = [file EXCEPT ![p] = NoFile]
    /\ UNCHANGED <<clock, diskVars, req, late, grants>>

(* initializeOwnerAuthorizationStore: BEGIN IMMEDIATE, then either the     *)
(* identity row exists and must match, or the ceremony starts.             *)
InitBegin(p) ==
    /\ stage[p] = "idle"
    /\ lock[file[p]] = NoProc
    /\ StableOpenFileIdentity(p)
    /\ \/ /\ live[file[p]].identity # NoFile
          /\ ExactStoreIdentity(p)
          /\ Goto(p, "init_committed")
          /\ UNCHANGED lock
       \/ /\ live[file[p]].identity = NoFile
          /\ lock' = [lock EXCEPT ![file[p]] = p]
          /\ Goto(p, "init_checked")
    /\ UNCHANGED <<clock, path, used, live, stable, anchor, file, req, late, grants>>

(* createDurableReplayAnchor: O_CREAT|O_EXCL, never adopting an existing   *)
(* anchor; a refusal rolls the transaction back.                           *)
CreateAnchor(p) ==
    /\ stage[p] = "init_checked"
    /\ \/ /\ anchor.state = "absent"
          /\ anchor' = [state |-> "empty", file |-> file[p]]
          /\ Goto(p, "anchor_created")
          /\ UNCHANGED lock
       \/ /\ anchor.state # "absent"
          /\ lock' = [lock EXCEPT ![file[p]] = NoProc]
          /\ Goto(p, "idle")
          /\ UNCHANGED anchor
    /\ UNCHANGED <<clock, path, used, live, stable, file, req, late, grants>>

WriteAnchor(p) ==
    /\ stage[p] = "anchor_created"
    /\ anchor' = [anchor EXCEPT !.state = "written"]
    /\ Goto(p, "anchor_written")
    /\ UNCHANGED <<clock, path, used, live, stable, lock, file, req, late, grants>>

SyncAnchorDirectory(p) ==
    /\ stage[p] = "anchor_written"
    /\ anchor' = [anchor EXCEPT !.state = "durable"]
    /\ Goto(p, "anchor_durable")
    /\ UNCHANGED <<clock, path, used, live, stable, lock, file, req, late, grants>>

\* Plausible bug: the identity row commits before the anchor's directory entry
\* is synced.
InitCommitEarly(p) ==
    /\ stage[p] \in {"anchor_written", "anchor_durable"}
    /\ Commit(file[p], [live[file[p]] EXCEPT !.identity = file[p]])
    /\ Goto(p, "init_committed")
    /\ UNCHANGED <<clock, path, used, anchor, file, req, late, grants>>

(* The identity row is inserted and the transaction commits.               *)
InitCommit(p) ==
    /\ stage[p] = "anchor_durable"
    /\ Commit(file[p], [live[file[p]] EXCEPT !.identity = file[p]])
    /\ Goto(p, "init_committed")
    /\ UNCHANGED <<clock, path, used, anchor, file, req, late, grants>>

(* syncDurableDatabaseFile; the function returns or throws, and in either  *)
(* case the process is back at its caller.                                 *)
InitFinish(p) ==
    /\ stage[p] = "init_committed"
    /\ IF StableOpenFileIdentity(p) THEN Sync(file[p]) ELSE UNCHANGED stable
    /\ Goto(p, "idle")
    /\ UNCHANGED <<clock, path, used, live, lock, anchor, file, req, late, grants>>

-----------------------------------------------------------------------------
(* persistOwnerAuthorizationConsumption: BEGIN IMMEDIATE and the checks    *)
(* made before the INSERT.                                                 *)
ConsumeBegin(p, r) ==
    /\ stage[p] = "idle"
    /\ lock[file[p]] = NoProc
    /\ InitializedStore(p)
    /\ clock < r.expiresAt
    /\ lock' = [lock EXCEPT ![file[p]] = p]
    /\ req' = [req EXCEPT ![p] = r]
    /\ Goto(p, "checked")
    /\ UNCHANGED <<clock, path, used, live, stable, anchor, file, late, grants>>

(* INSERT and COMMIT, or a UNIQUE violation that rolls back.               *)
ConsumeCommit(p) ==
    LET f == file[p]
        r == req[p]
    IN  /\ stage[p] = "checked"
        /\ \/ /\ UniqueIn(live[f].rows, r)
              /\ Commit(f, [live[f] EXCEPT !.rows = @ \cup {r}])
              /\ late' = [late EXCEPT ![p] = r.expiresAt <= clock]
              /\ Goto(p, "committed")
              /\ UNCHANGED req
           \/ /\ ~UniqueIn(live[f].rows, r)
              /\ lock' = [lock EXCEPT ![f] = NoProc]
              /\ req' = [req EXCEPT ![p] = NoRequest]
              /\ Goto(p, "idle")
              /\ UNCHANGED <<live, stable, late>>
        /\ UNCHANGED <<clock, path, used, anchor, file, grants>>

(* syncDurableDatabaseFile after the commit; a moved path throws.          *)
ConsumeSync(p) ==
    /\ stage[p] = "committed"
    /\ \/ /\ StableOpenFileIdentity(p)
          /\ Sync(file[p])
          /\ Goto(p, "synced")
          /\ UNCHANGED <<req, late>>
       \/ /\ ~StableOpenFileIdentity(p)
          /\ Goto(p, "idle")
          /\ req' = [req EXCEPT ![p] = NoRequest]
          /\ late' = [late EXCEPT ![p] = FALSE]
          /\ UNCHANGED stable
    /\ UNCHANGED <<clock, path, used, live, lock, anchor, file, grants>>

\* Plausible bug: the clock is not sampled again after the sync.
ConsumeAcceptedLate(p) ==
    /\ InitializedStore(p)
    /\ req[p] \in live[file[p]].rows

(* The checks repeated after the sync, the exact readback and the last     *)
(* clock sample: the call succeeds only if all of them hold.               *)
ConsumeAccepted(p) ==
    /\ InitializedStore(p)
    /\ req[p] \in live[file[p]].rows
    /\ ~late[p]
    /\ clock < req[p].expiresAt

ConsumeFinish(p) ==
    /\ stage[p] = "synced"
    /\ IF ConsumeAccepted(p)
       THEN grants' = [grants EXCEPT ![req[p]] = @ + 1]
       ELSE UNCHANGED grants
    /\ Goto(p, "idle")
    /\ req' = [req EXCEPT ![p] = NoRequest]
    /\ late' = [late EXCEPT ![p] = FALSE]
    /\ UNCHANGED <<clock, diskVars, file>>

-----------------------------------------------------------------------------
(* The environment.                                                        *)
ClockMoves ==
    /\ clock' \in Times \ {clock}
    /\ UNCHANGED <<diskVars, procVars, grants>>

(* A process dies; the kernel drops its locks and an open transaction is   *)
(* rolled back by the next reader.                                         *)
ProcessCrash(p) ==
    /\ stage[p] # "closed"
    /\ stage' = [stage EXCEPT ![p] = "closed"]
    /\ file' = [file EXCEPT ![p] = NoFile]
    /\ req' = [req EXCEPT ![p] = NoRequest]
    /\ late' = [late EXCEPT ![p] = FALSE]
    /\ lock' = [f \in Files |-> IF lock[f] = p THEN NoProc ELSE lock[f]]
    /\ UNCHANGED <<clock, path, used, live, stable, anchor, grants>>

(* The machine loses power: every process dies, each file keeps its live   *)
(* content or falls back, and an anchor whose directory entry was not yet  *)
(* synced may be gone.                                                     *)
PowerLoss ==
    /\ \E kept \in SUBSET Files :
          /\ live' = [f \in Files |-> IF f \in kept THEN live[f] ELSE stable[f]]
          /\ stable' = live'
    /\ anchor' \in {anchor} \cup (IF anchor.state = "durable" THEN {} ELSE {NoAnchor})
    /\ stage' = [p \in Procs |-> "closed"]
    /\ file' = [p \in Procs |-> NoFile]
    /\ req' = [p \in Procs |-> NoRequest]
    /\ late' = [p \in Procs |-> FALSE]
    /\ lock' = [f \in Files |-> NoProc]
    /\ UNCHANGED <<clock, path, used, grants>>

(* The database file is unlinked, or renamed away.                         *)
Unlink ==
    /\ path # NoFile
    /\ path' = NoFile
    /\ UNCHANGED <<clock, used, live, stable, lock, anchor, procVars, grants>>

(* A copy of some database, as new or as old as one likes, is put at the   *)
(* path under an inode of its own.                                         *)
RestoreCopy ==
    /\ path = NoFile
    /\ \E f \in Files \ used, g \in used :
          \E rows \in SUBSET live[g].rows, id \in {NoFile, live[g].identity} :
             /\ live' = [live EXCEPT ![f] = [identity |-> id, rows |-> rows]]
             /\ stable' = [stable EXCEPT ![f] = [identity |-> id, rows |-> rows]]
             /\ used' = used \cup {f}
             /\ path' = f
    /\ UNCHANGED <<clock, lock, anchor, procVars, grants>>

(* A file moved away is moved back.                                        *)
RestoreOriginal ==
    /\ path = NoFile
    /\ path' \in used
    /\ UNCHANGED <<clock, used, live, stable, lock, anchor, procVars, grants>>

-----------------------------------------------------------------------------
Operation(p) ==
    \/ Open(p) \/ Close(p)
    \/ InitBegin(p) \/ CreateAnchor(p) \/ WriteAnchor(p) \/ SyncAnchorDirectory(p)
    \/ InitCommit(p) \/ InitFinish(p)
    \/ \E r \in Requests : ConsumeBegin(p, r)
    \/ ConsumeCommit(p) \/ ConsumeSync(p) \/ ConsumeFinish(p)

Environment ==
    \/ ClockMoves
    \/ \E p \in Procs : ProcessCrash(p)
    \/ PowerLoss
    \/ Unlink \/ RestoreCopy \/ RestoreOriginal

StoreNext == Environment \/ \E p \in Procs : Operation(p)

StoreSpec == StoreInit /\ [][StoreNext]_storeVars

-----------------------------------------------------------------------------
(* No authorization, envelope, envelope digest or nonce is accepted twice, *)
(* whatever processes, crashes, power losses and file replacements do      *)
(* (consumeOwnerAuthorization returns for at most one of two inputs that   *)
(* share a unique column, and at most once for one input).                 *)
AtMostOnce ==
    \A q, r \in Requests :
        Clash(q, r) => grants[q] + (IF q = r THEN 0 ELSE grants[r]) <= 1

(* An accepted consumption is recorded where a power loss cannot undo it,  *)
(* in the one store the durable anchor names.                              *)
AcceptedIsDurable ==
    \A r \in Requests : grants[r] > 0 =>
        /\ anchor.state = "durable"
        /\ r \in live[anchor.file].rows
        /\ r \in stable[anchor.file].rows

(* At most one file is ever an activated store, and its activation can     *)
(* never outrun the durability of the anchor: an identity row that names   *)
(* its own file implies a durable anchor that names the same file.         *)
ActivatedStoreIsAnchored ==
    \A f \in Files :
        (live[f].identity = f \/ stable[f].identity = f) =>
            anchor = [state |-> "durable", file |-> f]

(* An anchor, once durable, is never adopted, replaced or removed, so a    *)
(* replaced database can never be activated as if it were a first use.     *)
AnchorIsPermanent == [][anchor.state = "durable" => UNCHANGED anchor]_anchor

(* The store implements the abstract one-shot ledger.                      *)
Ledger == INSTANCE OwnerLedger WITH now <- clock
ImplementsLedger == Ledger!Spec
=============================================================================
