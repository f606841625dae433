------------------------- MODULE SourceStoreProofs -------------------------
(***************************************************************************)
(* Proofs about SourceStore for any number of processes, jobs, bundles,    *)
(* directories and power losses.                                           *)
(*                                                                         *)
(* The argument: what has the name of a job keeps it, its bytes and its    *)
(* sync, in every step (Survive).  A stage belongs to one process and has  *)
(* the pending name, so nothing removes or writes a published directory.   *)
(* For the limit, the published directories are counted together with the  *)
(* stages that have passed the second check: only that check adds to them, *)
(* and it looks at a set that includes them all.                           *)
(***************************************************************************)
EXTENDS SourceStore, FiniteSetTheorems, TLAPS

Steps == {"idle", "look", "settle", "mkdir", "write", "sync", "recheck", "rename", "sync_name",
          "readback", "discard", "read"}
PutSteps == Steps \ {"idle", "read"}
WithoutStage == {"idle", "look", "settle", "mkdir", "read"}
WithStage == {"write", "sync", "recheck", "rename", "discard"}

USE DEF Steps, PutSteps, WithoutStage, WithStage

NamesTyped ==
    /\ at \in [Dirs -> Jobs \cup {Pending, None}]
    /\ durableAt \in [Dirs -> Jobs \cup {Pending, None}]

FilesTyped ==
    /\ file \in [Dirs -> Contents \cup {Torn, None}]
    /\ synced \in [Dirs -> BOOLEAN]

CallsTyped ==
    /\ pc \in [Procs -> Steps]
    /\ job \in [Procs -> Jobs \cup {None}]
    /\ data \in [Procs -> Contents \cup {None}]
    /\ stage \in [Procs -> Dirs \cup {None}]
    /\ answer \in [Procs -> Contents \cup {Torn, None}]

(* A published directory is whole and alone under its name, and a name     *)
(* that is durable is still in place.                                      *)
Kept ==
    /\ \A d \in Dirs : durableAt[d] \in Jobs => at[d] = durableAt[d]
    /\ \A d \in Dirs : at[d] \in Jobs => synced[d] /\ file[d] \in Contents
    /\ \A d, e \in Dirs : at[d] \in Jobs /\ at[d] = at[e] => d = e

Apart == \A p, q \in Procs : p # q /\ stage[p] # None => stage[p] # stage[q]

(* The arguments of a call, by its step.                                   *)
Arguments(p) ==
    /\ pc[p] # "idle" => job[p] \in Jobs
    /\ pc[p] \in PutSteps => data[p] \in Contents
    /\ pc[p] = "read" => answer[p] = None

(* The stage of a call, by its step.                                       *)
Staged(p) ==
    /\ pc[p] \in WithoutStage => stage[p] = None
    /\ pc[p] \in WithStage => stage[p] # None
    /\ stage[p] # None => at[stage[p]] = Pending
    /\ pc[p] \in {"sync", "recheck", "rename"} => file[stage[p]] = data[p]
    /\ pc[p] \in {"recheck", "rename"} => synced[stage[p]]

(* What a call has seen of the entry of its job.                           *)
Seen(p) ==
    /\ pc[p] = "settle" => \E d \in Dirs : at[d] = job[p] /\ file[d] = data[p]
    /\ pc[p] = "sync_name" => \E d \in Dirs : at[d] = job[p]
    /\ pc[p] = "readback" => \E d \in Dirs : at[d] = job[p] /\ durableAt[d] = job[p]
    /\ pc[p] = "discard" =>
          \E d \in Dirs : at[d] = job[p] /\ durableAt[d] = job[p] /\ file[d] = data[p]

(* The places taken or about to be taken.                                  *)
Promised == Published \cup {stage[p] : p \in {q \in Procs : pc[q] = "rename"}}

IInv ==
    /\ NamesTyped /\ FilesTyped /\ CallsTyped
    /\ accepted \subseteq [job : Jobs, data : Contents]
    /\ Kept /\ Apart
    /\ \A p \in Procs : Arguments(p) /\ Staged(p) /\ Seen(p)
    /\ PutIsDurable
    /\ Cardinality(Promised) <= MaxEntries

-----------------------------------------------------------------------------
(* A published directory is what it was.                                   *)
Survive ==
    \A d \in Dirs : at[d] \in Jobs =>
        /\ at'[d] = at[d] /\ file'[d] = file[d] /\ synced'[d] = synced[d]
        /\ durableAt[d] = at[d] => durableAt'[d] = at[d]

(* The step leaves every call but that of p as it was.                     *)
Alone(p) ==
    \A q \in Procs \ {p} :
        /\ pc'[q] = pc[q] /\ job'[q] = job[q] /\ data'[q] = data[q]
        /\ stage'[q] = stage[q] /\ answer'[q] = answer[q]
        /\ stage[q] # None =>
              /\ at'[stage[q]] = at[stage[q]] /\ file'[stage[q]] = file[stage[q]]
              /\ synced'[stage[q]] = synced[stage[q]]

(* What the other calls know stays true (every file operation of a call is *)
(* on its own stage).                                                      *)
LEMMA OthersKnow ==
    ASSUME IInv, NEW p \in Procs, Survive, Alone(p)
    PROVE  \A q \in Procs \ {p} : (Arguments(q) /\ Staged(q) /\ Seen(q))'
<1> TAKE q \in Procs \ {p}
<1>1. /\ pc'[q] = pc[q] /\ job'[q] = job[q] /\ data'[q] = data[q]
      /\ stage'[q] = stage[q] /\ answer'[q] = answer[q]
      BY DEF Alone
<1>2. Arguments(q) /\ Staged(q) /\ Seen(q) BY DEF IInv
<1>3. Arguments(q)' BY <1>1, <1>2 DEF Arguments
<1>4. Staged(q)' BY <1>1, <1>2 DEF Staged, Alone
<1>5. Seen(q)'
      <2>1. pc[q] \in {"settle", "sync_name", "readback", "discard"} => job[q] \in Jobs
            BY <1>2 DEF Arguments
      <2>2. QED BY <1>1, <1>2, <2>1 DEF Seen, Survive
<1>6. QED BY <1>3, <1>4, <1>5

(* Accepted puts stay durable (nothing removes a published directory).     *)
LEMMA AcceptedSurvive ==
    ASSUME IInv, Survive
    PROVE  /\ \A a \in accepted : \E d \in Dirs :
                 at'[d] = a.job /\ durableAt'[d] = a.job /\ file'[d] = a.data /\ synced'[d]
           /\ accepted' = accepted => PutIsDurable'
<1>1. ASSUME NEW a \in accepted
      PROVE  \E d \in Dirs : /\ at'[d] = a.job /\ durableAt'[d] = a.job
                             /\ file'[d] = a.data /\ synced'[d]
      <2>1. PICK d \in Dirs : at[d] = a.job /\ durableAt[d] = a.job /\ file[d] = a.data /\ synced[d]
            BY DEF IInv, PutIsDurable
      <2>2. a.job \in Jobs BY DEF IInv
      <2>3. QED BY <2>1, <2>2 DEF Survive
<1>2. QED BY <1>1 DEF PutIsDurable

(* The places taken are finitely many.                                     *)
LEMMA PromisedAreDirs ==
    ASSUME IInv
    PROVE  Promised \subseteq Dirs /\ IsFiniteSet(Promised)
<1>1. Promised \subseteq Dirs
      <2>1. ASSUME NEW p \in Procs, pc[p] = "rename" PROVE stage[p] \in Dirs
            BY <2>1 DEF IInv, CallsTyped, Staged
      <2>2. QED BY <2>1 DEF Promised, Published
<1>2. QED BY <1>1, FS_Subset, SourceStoreAssumption

(* No step but the second check takes a place.                             *)
LEMMA RoomStays ==
    ASSUME IInv, Promised' \subseteq Promised
    PROVE  Cardinality(Promised') <= MaxEntries
<1>1. /\ IsFiniteSet(Promised) /\ IsFiniteSet(Promised')
      /\ Cardinality(Promised') <= Cardinality(Promised)
      BY PromisedAreDirs, FS_Subset
<1>2. Cardinality(Promised) \in Nat /\ Cardinality(Promised') \in Nat
      BY <1>1, FS_CardinalityType
<1>3. QED BY <1>1, <1>2, SourceStoreAssumption DEF IInv

(* A step of one call.                                                     *)
LEMMA OneCall ==
    ASSUME IInv, NEW p \in Procs, Survive, Alone(p), NamesTyped', FilesTyped', CallsTyped',
           accepted' \subseteq [job : Jobs, data : Contents], Kept', Apart',
           Arguments(p)', Staged(p)', Seen(p)', PutIsDurable',
           Cardinality(Promised') <= MaxEntries
    PROVE  IInv'
BY OthersKnow DEF IInv

(* A step of one call that touches neither the store nor its stage and     *)
(* does not begin a rename.                                                *)
LEMMA QuietCall ==
    ASSUME IInv, NEW p \in Procs, UNCHANGED storeVars, UNCHANGED <<stage, accepted>>, CallsTyped',
           \A q \in Procs \ {p} : /\ pc'[q] = pc[q] /\ job'[q] = job[q]
                                  /\ data'[q] = data[q] /\ answer'[q] = answer[q],
           pc'[p] # "rename", Arguments(p)', Staged(p)', Seen(p)'
    PROVE  IInv'
<1>1. UNCHANGED <<at, durableAt, file, synced, stage, accepted>> BY DEF storeVars
<1>2. Survive BY <1>1 DEF Survive
<1>3. Alone(p) BY <1>1 DEF Alone
<1>4. NamesTyped' /\ FilesTyped' /\ Kept' /\ Apart' /\ accepted' \subseteq [job : Jobs, data : Contents]
      BY <1>1 DEF IInv, NamesTyped, FilesTyped, Kept, Apart
<1>5. PutIsDurable' BY <1>1, <1>2, AcceptedSurvive
<1>6. Promised' \subseteq Promised BY <1>1 DEF Promised, Published
<1>7. QED BY <1>2, <1>3, <1>4, <1>5, <1>6, RoomStays, OneCall

-----------------------------------------------------------------------------
LEMMA PutKeeps ==
    ASSUME IInv, NEW p \in Procs, NEW j \in Jobs, NEW c \in Contents, Put(p, j, c)
    PROVE  IInv'
<1>1. /\ pc[p] = "idle" /\ pc' = [pc EXCEPT ![p] = "look"]
      /\ job' = [job EXCEPT ![p] = j] /\ data' = [data EXCEPT ![p] = c]
      /\ answer' = [answer EXCEPT ![p] = None]
      /\ UNCHANGED storeVars /\ UNCHANGED <<stage, accepted>>
      BY DEF Put, Goto
<1>2. CallsTyped /\ stage[p] = None BY <1>1 DEF IInv, Staged
<1>3. CallsTyped' BY <1>1, <1>2 DEF CallsTyped
<1>4. \A q \in Procs \ {p} : /\ pc'[q] = pc[q] /\ job'[q] = job[q]
                             /\ data'[q] = data[q] /\ answer'[q] = answer[q]
      BY <1>1, <1>2 DEF CallsTyped
<1>5. pc'[p] = "look" /\ job'[p] = j /\ data'[p] = c /\ stage'[p] = None
      BY <1>1, <1>2 DEF CallsTyped
<1>6. Arguments(p)' /\ Staged(p)' /\ Seen(p)' BY <1>5 DEF Arguments, Staged, Seen
<1>7. QED BY <1>1, <1>3, <1>4, <1>5, <1>6, QuietCall

LEMMA ReadKeeps ==
    ASSUME IInv, NEW p \in Procs, NEW j \in Jobs, Read(p, j)
    PROVE  IInv'
<1>1. /\ pc[p] = "idle" /\ pc' = [pc EXCEPT ![p] = "read"]
      /\ job' = [job EXCEPT ![p] = j]
      /\ answer' = [answer EXCEPT ![p] = None]
      /\ UNCHANGED storeVars /\ UNCHANGED <<data, stage, accepted>>
      BY DEF Read, Goto
<1>2. CallsTyped /\ stage[p] = None BY <1>1 DEF IInv, Staged
<1>3. CallsTyped' BY <1>1, <1>2 DEF CallsTyped
<1>4. \A q \in Procs \ {p} : /\ pc'[q] = pc[q] /\ job'[q] = job[q]
                             /\ data'[q] = data[q] /\ answer'[q] = answer[q]
      BY <1>1, <1>2 DEF CallsTyped
<1>5. pc'[p] = "read" /\ job'[p] = j /\ answer'[p] = None /\ stage'[p] = None
      BY <1>1, <1>2 DEF CallsTyped
<1>6. Arguments(p)' /\ Staged(p)' /\ Seen(p)' BY <1>5 DEF Arguments, Staged, Seen
<1>7. QED BY <1>1, <1>3, <1>4, <1>5, <1>6, QuietCall

(* A step that only moves on: what it needs to know is the premise.        *)
LEMMA MoveKeeps ==
    ASSUME IInv, NEW p \in Procs, NEW step \in Steps \ {"rename"}, Goto(p, step),
           UNCHANGED storeVars, UNCHANGED callVars, UNCHANGED history, pc[p] \in PutSteps,
           step \in PutSteps,
           step \in WithoutStage => stage[p] = None,
           step \in WithStage => stage[p] # None,
           step \notin {"sync", "recheck", "sync_name", "readback"},
           step = "settle" => \E d \in Dirs : at[d] = job[p] /\ file[d] = data[p],
           step = "discard" =>
              \E d \in Dirs : at[d] = job[p] /\ durableAt[d] = job[p] /\ file[d] = data[p]
    PROVE  IInv'
<1>1. /\ pc' = [pc EXCEPT ![p] = step] /\ job' = job /\ data' = data /\ stage' = stage
      /\ answer' = answer /\ accepted' = accepted
      /\ at' = at /\ durableAt' = durableAt /\ file' = file /\ synced' = synced
      BY DEF Goto, storeVars, callVars, history
<1>2. CallsTyped /\ Arguments(p) /\ Staged(p) BY DEF IInv
<1>3. CallsTyped' BY <1>1, <1>2 DEF CallsTyped
<1>4. pc'[p] = step /\ \A q \in Procs \ {p} : pc'[q] = pc[q] BY <1>1, <1>2 DEF CallsTyped
<1>5. Arguments(p)' BY <1>1, <1>2, <1>4 DEF Arguments
<1>6. Staged(p)' BY <1>1, <1>2, <1>4 DEF Staged
<1>7. Seen(p)' BY <1>1, <1>4 DEF Seen
<1>8. QED BY <1>1, <1>3, <1>4, <1>5, <1>6, <1>7, QuietCall DEF storeVars

(* The one directory with the name of the job has the bytes.               *)
LEMMA EntryIs ==
    ASSUME NEW j \in Jobs, NEW c, Entry(j) = {c}
    PROVE  \E d \in Dirs : at[d] = j /\ file[d] = c
<1>1. c \in Entry(j) OBVIOUS
<1>2. QED BY <1>1 DEF Entry

LEMMA LookKeeps ==
    ASSUME IInv, NEW p \in Procs, Look(p)
    PROVE  IInv'
<1>1. /\ pc[p] = "look" /\ UNCHANGED storeVars /\ UNCHANGED callVars /\ UNCHANGED history
      /\ job[p] \in Jobs /\ stage[p] = None
      BY DEF Look, IInv, Arguments, Staged
<1>2. CASE Entry(job[p]) = {data[p]} /\ Goto(p, "settle")
      <2>1. \E d \in Dirs : at[d] = job[p] /\ file[d] = data[p] BY <1>1, <1>2, EntryIs
      <2>2. QED BY <1>1, <1>2, <2>1, MoveKeeps
<1>3. CASE Goto(p, "mkdir") BY <1>1, <1>3, MoveKeeps
<1>4. QED BY <1>2, <1>3 DEF Look

-----------------------------------------------------------------------------
(* Only the step and nothing else of the calls changes.                    *)
LEMMA StepOnly ==
    ASSUME CallsTyped, NEW p \in Procs, NEW step \in Steps, Goto(p, step),
           UNCHANGED <<job, data, stage, answer>>
    PROVE  /\ CallsTyped' /\ pc'[p] = step
           /\ \A q \in Procs \ {p} : pc'[q] = pc[q]
BY DEF CallsTyped, Goto

LEMMA MakeStageKeeps ==
    ASSUME IInv, NEW p \in Procs, MakeStage(p)
    PROVE  IInv'
<1>1. PICK d \in Dirs : /\ at[d] = None /\ durableAt[d] = None
                        /\ at' = [at EXCEPT ![d] = Pending]
                        /\ stage' = [stage EXCEPT ![p] = d]
                        /\ file' = [file EXCEPT ![d] = None]
                        /\ synced' = [synced EXCEPT ![d] = FALSE]
      BY DEF MakeStage
<1>2. /\ pc[p] = "mkdir" /\ pc' = [pc EXCEPT ![p] = "write"]
      /\ durableAt' = durableAt /\ job' = job /\ data' = data
      /\ answer' = answer /\ accepted' = accepted
      BY DEF MakeStage, Goto, history
<1>3. /\ NamesTyped /\ FilesTyped /\ CallsTyped /\ Kept /\ Apart
      /\ Arguments(p) /\ stage[p] = None
      /\ \A q \in Procs : stage[q] # None => at[stage[q]] = Pending
      BY <1>2 DEF IInv, Staged
<1>4. /\ at'[d] = Pending /\ stage'[p] = d /\ pc'[p] = "write" /\ d # None
      /\ \A e \in Dirs \ {d} : at'[e] = at[e] /\ file'[e] = file[e] /\ synced'[e] = synced[e]
      /\ \A q \in Procs \ {p} : pc'[q] = pc[q] /\ stage'[q] = stage[q]
      BY <1>1, <1>2, <1>3, SourceStoreAssumption DEF NamesTyped, FilesTyped, CallsTyped
<1>5. NamesTyped' /\ FilesTyped' /\ CallsTyped'
      BY <1>1, <1>2, <1>3 DEF NamesTyped, FilesTyped, CallsTyped
<1>6. Survive BY <1>1, <1>2, <1>4, SourceStoreAssumption DEF Survive
<1>7. \A q \in Procs \ {p} : stage[q] # None => stage[q] \in Dirs \ {d}
      BY <1>1, <1>3, SourceStoreAssumption DEF CallsTyped
<1>8. Alone(p) BY <1>2, <1>4, <1>7 DEF Alone
<1>9. Kept'
      <2>1. \A e \in Dirs : at'[e] \in Jobs => e # d BY <1>4, SourceStoreAssumption
      <2>2. \A e \in Dirs : durableAt'[e] \in Jobs => e # d
            BY <1>1, <1>2, SourceStoreAssumption
      <2>3. QED BY <1>2, <1>3, <1>4, <2>1, <2>2 DEF Kept
<1>10. Apart' BY <1>3, <1>4, <1>7 DEF Apart
<1>11. Arguments(p)' /\ Staged(p)' /\ Seen(p)'
      BY <1>2, <1>3, <1>4 DEF Arguments, Staged, Seen
<1>12. Promised' \subseteq Promised
      <2>1. \A e \in Dirs : at'[e] \in Jobs => at[e] \in Jobs BY <1>4, SourceStoreAssumption
      <2>2. QED BY <1>4, <2>1 DEF Promised, Published
<1>13. accepted' \subseteq [job : Jobs, data : Contents] BY <1>2 DEF IInv
<1>14. QED BY <1>2, <1>5, <1>6, <1>8, <1>9, <1>10, <1>11, <1>12, <1>13, AcceptedSurvive,
              RoomStays, OneCall

LEMMA WriteKeeps ==
    ASSUME IInv, NEW p \in Procs, Write(p)
    PROVE  IInv'
<1>1. /\ pc[p] = "write" /\ Goto(p, "sync") /\ file' = [file EXCEPT ![stage[p]] = data[p]]
      /\ UNCHANGED <<at, durableAt, synced, job, data, stage, answer, accepted>>
      BY DEF Write, callVars, history
<1>2. /\ NamesTyped /\ FilesTyped /\ CallsTyped /\ Kept /\ Apart /\ Arguments(p) /\ Staged(p)
      BY DEF IInv
<1>3. /\ stage[p] # None /\ stage[p] \in Dirs /\ at[stage[p]] = Pending /\ data[p] \in Contents
      BY <1>1, <1>2 DEF Staged, Arguments, CallsTyped
<1>4. /\ file'[stage[p]] = data[p]
      /\ \A e \in Dirs \ {stage[p]} : file'[e] = file[e]
      BY <1>1, <1>2, <1>3 DEF FilesTyped
<1>5. CallsTyped' /\ pc'[p] = "sync" /\ \A q \in Procs \ {p} : pc'[q] = pc[q]
      BY <1>1, <1>2, StepOnly
<1>6. NamesTyped' /\ FilesTyped' BY <1>1, <1>2, <1>3 DEF NamesTyped, FilesTyped
<1>7. \A e \in Dirs : at[e] \in Jobs => file'[e] = file[e] BY <1>3, <1>4, SourceStoreAssumption
<1>8. Survive BY <1>1, <1>7 DEF Survive
<1>9. \A q \in Procs \ {p} : stage[q] # None => stage[q] \in Dirs \ {stage[p]}
      BY <1>2 DEF Apart, CallsTyped
<1>10. Alone(p) BY <1>1, <1>4, <1>5, <1>9 DEF Alone
<1>11. Kept' /\ Apart' BY <1>1, <1>2, <1>7 DEF Kept, Apart
<1>12. Arguments(p)' BY <1>1, <1>2, <1>5 DEF Arguments
<1>13. Staged(p)' BY <1>1, <1>3, <1>4, <1>5 DEF Staged
<1>14. Seen(p)' BY <1>5 DEF Seen
<1>15. Promised' \subseteq Promised BY <1>1, <1>5 DEF Promised, Published
<1>16. accepted' \subseteq [job : Jobs, data : Contents] BY <1>1 DEF IInv
<1>17. QED BY <1>1, <1>5, <1>6, <1>8, <1>10, <1>11, <1>12, <1>13, <1>14, <1>15, <1>16,
              AcceptedSurvive, RoomStays, OneCall

LEMMA SyncStageKeeps ==
    ASSUME IInv, NEW p \in Procs, SyncStage(p)
    PROVE  IInv'
<1>1. /\ pc[p] = "sync" /\ Goto(p, "recheck") /\ synced' = [synced EXCEPT ![stage[p]] = TRUE]
      /\ UNCHANGED <<at, durableAt, file, job, data, stage, answer, accepted>>
      BY DEF SyncStage, callVars, history
<1>2. /\ NamesTyped /\ FilesTyped /\ CallsTyped /\ Kept /\ Apart /\ Arguments(p) /\ Staged(p)
      BY DEF IInv
<1>3. /\ stage[p] \in Dirs \ {None} /\ at[stage[p]] = Pending /\ file[stage[p]] = data[p]
      BY <1>1, <1>2 DEF Staged, CallsTyped
<1>4. /\ synced'[stage[p]]
      /\ \A e \in Dirs \ {stage[p]} : synced'[e] = synced[e]
      BY <1>1, <1>2, <1>3 DEF FilesTyped
<1>5. CallsTyped' /\ pc'[p] = "recheck" /\ \A q \in Procs \ {p} : pc'[q] = pc[q]
      BY <1>1, <1>2, StepOnly
<1>6. NamesTyped' /\ FilesTyped' BY <1>1, <1>2, <1>3 DEF NamesTyped, FilesTyped
<1>7. \A e \in Dirs : at[e] \in Jobs => synced'[e] = synced[e] BY <1>3, <1>4, SourceStoreAssumption
<1>8. Survive BY <1>1, <1>7 DEF Survive
<1>9. \A q \in Procs \ {p} : stage[q] # None => stage[q] \in Dirs \ {stage[p]}
      BY <1>2 DEF Apart, CallsTyped
<1>10. Alone(p) BY <1>1, <1>4, <1>5, <1>9 DEF Alone
<1>11. Kept' /\ Apart' BY <1>1, <1>2, <1>7 DEF Kept, Apart
<1>12. Arguments(p)' BY <1>1, <1>2, <1>5 DEF Arguments
<1>13. Staged(p)' BY <1>1, <1>3, <1>4, <1>5 DEF Staged
<1>14. Seen(p)' BY <1>5 DEF Seen
<1>15. Promised' \subseteq Promised BY <1>1, <1>5 DEF Promised, Published
<1>16. accepted' \subseteq [job : Jobs, data : Contents] BY <1>1 DEF IInv
<1>17. QED BY <1>1, <1>5, <1>6, <1>8, <1>10, <1>11, <1>12, <1>13, <1>14, <1>15, <1>16,
              AcceptedSurvive, RoomStays, OneCall

(* The second check counts every name, its own stage's among them.         *)
LEMMA RecheckKeeps ==
    ASSUME IInv, NEW p \in Procs, Recheck(p)
    PROVE  IInv'
<1>1. /\ pc[p] = "recheck" /\ Goto(p, "rename") /\ Check
      /\ UNCHANGED <<at, durableAt, file, synced, job, data, stage, answer, accepted>>
      BY DEF Recheck, storeVars, callVars, history
<1>2. /\ NamesTyped /\ FilesTyped /\ CallsTyped /\ Kept /\ Apart /\ Arguments(p) /\ Staged(p)
      /\ PutIsDurable
      BY DEF IInv
<1>3. CallsTyped' /\ pc'[p] = "rename" /\ \A q \in Procs \ {p} : pc'[q] = pc[q]
      BY <1>1, <1>2, StepOnly
<1>4. NamesTyped' /\ FilesTyped' /\ Kept' /\ Apart'
      BY <1>1, <1>2 DEF NamesTyped, FilesTyped, Kept, Apart
<1>5. Survive /\ Alone(p) BY <1>1, <1>3 DEF Survive, Alone
<1>6. Arguments(p)' /\ Staged(p)' /\ Seen(p)'
      BY <1>1, <1>2, <1>3 DEF Arguments, Staged, Seen
<1>7. Promised' \subseteq Existing
      <2>1. \A q \in Procs : pc'[q] = "rename" => stage[q] \in Existing
            <3>1. TAKE q \in Procs
            <3>2. Staged(q) /\ stage[q] \in Dirs \cup {None} BY <1>2 DEF IInv, CallsTyped
            <3>3. QED BY <1>1, <1>3, <3>2, SourceStoreAssumption DEF Staged, Existing
      <2>2. Published' \subseteq Existing BY <1>1, SourceStoreAssumption DEF Published, Existing
      <2>3. QED BY <1>1, <2>1, <2>2 DEF Promised
<1>8. Cardinality(Promised') <= MaxEntries
      <2>1. IsFiniteSet(Existing) /\ IsFiniteSet(Promised')
            BY <1>7, FS_Subset, SourceStoreAssumption DEF Existing
      <2>2. Cardinality(Promised') <= Cardinality(Existing) BY <1>7, <2>1, FS_Subset
      <2>3. Cardinality(Existing) \in Nat /\ Cardinality(Promised') \in Nat
            BY <2>1, FS_CardinalityType
      <2>4. Cardinality(Existing) <= MaxEntries BY <1>1 DEF Check, Count
      <2>5. QED BY <2>2, <2>3, <2>4, SourceStoreAssumption
<1>9. accepted' \subseteq [job : Jobs, data : Contents] BY <1>1 DEF IInv
<1>10. QED BY <1>1, <1>3, <1>4, <1>5, <1>6, <1>8, <1>9, AcceptedSurvive, OneCall

-----------------------------------------------------------------------------
(* The rename moves a place from the stages to the published directories.  *)
LEMMA RenameKeeps ==
    ASSUME IInv, NEW p \in Procs, Rename(p), Entry(job[p]) = {},
           at' = [at EXCEPT ![stage[p]] = job[p]], stage' = [stage EXCEPT ![p] = None]
    PROVE  IInv'
<1>1. /\ pc[p] = "rename" /\ pc' = [pc EXCEPT ![p] = "sync_name"]
      /\ UNCHANGED <<durableAt, file, synced, job, data, answer, accepted>>
      BY DEF Rename, Goto, history
<1>2. /\ NamesTyped /\ FilesTyped /\ CallsTyped /\ Kept /\ Apart /\ Arguments(p) /\ Staged(p)
      BY DEF IInv
<1> DEFINE d == stage[p]
<1>3. /\ d \in Dirs /\ d # None /\ at[d] = Pending /\ synced[d]
      /\ file[d] = data[p] /\ data[p] \in Contents /\ job[p] \in Jobs
      BY <1>1, <1>2 DEF Staged, Arguments, CallsTyped
<1>4. /\ at'[d] = job[p] /\ \A e \in Dirs \ {d} : at'[e] = at[e]
      /\ stage'[p] = None /\ pc'[p] = "sync_name"
      /\ \A q \in Procs \ {p} : stage'[q] = stage[q] /\ pc'[q] = pc[q]
      BY <1>1, <1>2, <1>3 DEF NamesTyped, CallsTyped
<1>5. \A e \in Dirs : at[e] # job[p] BY DEF Entry
<1>6. NamesTyped' /\ FilesTyped' /\ CallsTyped'
      BY <1>1, <1>2, <1>3 DEF NamesTyped, FilesTyped, CallsTyped
<1>7. \A q \in Procs \ {p} : stage[q] # None => stage[q] \in Dirs \ {d}
      BY <1>2 DEF Apart, CallsTyped
<1> HIDE DEF d
<1>8. Survive BY <1>1, <1>3, <1>4, SourceStoreAssumption DEF Survive
<1>9. Alone(p) BY <1>1, <1>4, <1>7 DEF Alone
<1>10. Kept'
      <2>1. \A e \in Dirs : durableAt[e] \in Jobs => e # d
            BY <1>2, <1>3, SourceStoreAssumption DEF Kept
      <2>2. \A e \in Dirs : durableAt'[e] \in Jobs => at'[e] = durableAt'[e]
            BY <1>1, <1>2, <1>4, <2>1 DEF Kept
      <2>3. \A e \in Dirs : at'[e] \in Jobs => synced'[e] /\ file'[e] \in Contents
            BY <1>1, <1>2, <1>3, <1>4 DEF Kept
      <2>4. \A e, f \in Dirs : at'[e] \in Jobs /\ at'[e] = at'[f] => e = f
            BY <1>2, <1>4, <1>5 DEF Kept
      <2>5. QED BY <2>2, <2>3, <2>4 DEF Kept
<1>11. Apart' BY <1>2, <1>4 DEF Apart
<1>12. Arguments(p)' /\ Staged(p)' BY <1>1, <1>3, <1>4 DEF Arguments, Staged
<1>13. Seen(p)' BY <1>1, <1>3, <1>4 DEF Seen
<1>14. Promised' \subseteq Promised
      <2>1. d \in Promised BY <1>1 DEF Promised, d
      <2>2. Published' \subseteq Published \cup {d} BY <1>4 DEF Published
      <2>3. \A q \in Procs : pc'[q] = "rename" => pc[q] = "rename" /\ stage'[q] = stage[q]
            BY <1>4
      <2>4. QED BY <2>1, <2>2, <2>3 DEF Promised
<1>15. accepted' \subseteq [job : Jobs, data : Contents] BY <1>1 DEF IInv
<1>16. QED BY <1>1, <1>6, <1>8, <1>9, <1>10, <1>11, <1>12, <1>13, <1>14, <1>15,
              AcceptedSurvive, RoomStays, OneCall

(* A refused rename: somebody has published the job.                       *)
LEMMA RefusedKeeps ==
    ASSUME IInv, NEW p \in Procs, Rename(p), Entry(job[p]) # {}, UNCHANGED <<at, stage>>
    PROVE  IInv'
<1>1. /\ pc[p] = "rename" /\ Goto(p, "sync_name")
      /\ UNCHANGED <<durableAt, file, synced, job, data, stage, answer, accepted>>
      BY DEF Rename, history
<1>2. CallsTyped /\ Arguments(p) /\ Staged(p) BY DEF IInv
<1>3. CallsTyped' /\ pc'[p] = "sync_name" /\ \A q \in Procs \ {p} : pc'[q] = pc[q]
      BY <1>1, <1>2, StepOnly
<1>4. \E d \in Dirs : at[d] = job[p] BY DEF Entry
<1>5. Arguments(p)' /\ Staged(p)' /\ Seen(p)'
      BY <1>1, <1>2, <1>3, <1>4 DEF Arguments, Staged, Seen
<1>6. UNCHANGED storeVars BY <1>1 DEF storeVars
<1>7. QED BY <1>1, <1>3, <1>5, <1>6, QuietCall

(* Names become durable: nothing that was durable or published is lost.    *)
LEMMA SyncEntryKeeps ==
    ASSUME IInv, NEW p \in Procs, SyncEntry(p)
    PROVE  IInv'
<1>1. /\ pc[p] = "sync_name" /\ Goto(p, "readback") /\ durableAt' = at'
      /\ UNCHANGED <<at, file, synced, job, data, stage, answer, accepted>>
      BY DEF SyncEntry, SyncNames, callVars, history
<1>2. /\ NamesTyped /\ FilesTyped /\ CallsTyped /\ Kept /\ Apart
      /\ Arguments(p) /\ Staged(p) /\ Seen(p)
      BY DEF IInv
<1>3. CallsTyped' /\ pc'[p] = "readback" /\ \A q \in Procs \ {p} : pc'[q] = pc[q]
      BY <1>1, <1>2, StepOnly
<1>4. NamesTyped' /\ FilesTyped' /\ Kept' /\ Apart'
      BY <1>1, <1>2 DEF NamesTyped, FilesTyped, Kept, Apart
<1>5. Survive /\ Alone(p) BY <1>1, <1>3 DEF Survive, Alone
<1>6. Arguments(p)' /\ Staged(p)' /\ Seen(p)'
      BY <1>1, <1>2, <1>3 DEF Arguments, Staged, Seen
<1>7. Promised' \subseteq Promised BY <1>1, <1>3 DEF Promised, Published
<1>8. accepted' \subseteq [job : Jobs, data : Contents] BY <1>1 DEF IInv
<1>9. QED BY <1>1, <1>3, <1>4, <1>5, <1>6, <1>7, <1>8, AcceptedSurvive, RoomStays, OneCall

-----------------------------------------------------------------------------
(* The end of a call, whatever it leaves of its stage.                     *)
LEMMA EndKeeps ==
    ASSUME IInv, NEW p \in Procs, End(p), pc[p] # "idle",
           Survive, NamesTyped', FilesTyped', Kept', Published' \subseteq Published,
           \A q \in Procs \ {p} : stage[q] # None =>
              /\ at'[stage[q]] = at[stage[q]] /\ file'[stage[q]] = file[stage[q]]
              /\ synced'[stage[q]] = synced[stage[q]],
           answer' \in [Procs -> Contents \cup {Torn, None}],
           \A q \in Procs \ {p} : answer'[q] = answer[q],
           accepted' \subseteq [job : Jobs, data : Contents], PutIsDurable'
    PROVE  IInv'
<1>1. /\ pc' = [pc EXCEPT ![p] = "idle"] /\ job' = [job EXCEPT ![p] = None]
      /\ data' = [data EXCEPT ![p] = None] /\ stage' = [stage EXCEPT ![p] = None]
      BY DEF End, Goto
<1>2. CallsTyped /\ Apart BY DEF IInv
<1>3. CallsTyped' BY <1>1, <1>2 DEF CallsTyped
<1>4. /\ pc'[p] = "idle" /\ stage'[p] = None
      /\ \A q \in Procs \ {p} : /\ pc'[q] = pc[q] /\ job'[q] = job[q]
                                /\ data'[q] = data[q] /\ stage'[q] = stage[q]
      BY <1>1, <1>2 DEF CallsTyped
<1>5. Alone(p) BY <1>4 DEF Alone
<1>6. Apart' BY <1>2, <1>4 DEF Apart
<1>7. Arguments(p)' /\ Staged(p)' /\ Seen(p)' BY <1>4 DEF Arguments, Staged, Seen
<1>8. Promised' \subseteq Promised BY <1>4 DEF Promised
<1>9. QED BY <1>3, <1>5, <1>6, <1>7, <1>8, RoomStays, OneCall

(* What a sync or nothing at all does to the store.                        *)
LEMMA StoreStays ==
    ASSUME IInv, UNCHANGED <<at, file, synced>>, durableAt' = at' \/ durableAt' = durableAt
    PROVE  Survive /\ NamesTyped' /\ FilesTyped' /\ Kept' /\ Published' \subseteq Published
<1>1. NamesTyped /\ FilesTyped /\ Kept BY DEF IInv
<1>2. Survive BY DEF Survive
<1>3. NamesTyped' /\ FilesTyped' BY <1>1 DEF NamesTyped, FilesTyped
<1>4. Kept' BY <1>1 DEF Kept
<1>5. Published' \subseteq Published BY DEF Published
<1>6. QED BY <1>2, <1>3, <1>4, <1>5

(* What the removal of a stage does to it.                                 *)
LEMMA RemovalSpares ==
    ASSUME IInv, NEW p \in Procs, stage[p] # None, RemoveStage(p),
           durableAt' = at' \/ durableAt' = durableAt
    PROVE  /\ Survive /\ NamesTyped' /\ FilesTyped' /\ Kept' /\ Published' \subseteq Published
           /\ \A q \in Procs \ {p} : stage[q] # None =>
                 /\ at'[stage[q]] = at[stage[q]] /\ file'[stage[q]] = file[stage[q]]
                 /\ synced'[stage[q]] = synced[stage[q]]
<1>1. NamesTyped /\ FilesTyped /\ CallsTyped /\ Kept /\ Apart /\ Staged(p) BY DEF IInv
<1> DEFINE d == stage[p]
<1>2. d \in Dirs /\ at[d] = Pending BY <1>1 DEF Staged, CallsTyped
<1>3. /\ at' = [at EXCEPT ![d] = None] /\ file' = [file EXCEPT ![d] = None] /\ synced' = synced
      BY DEF RemoveStage
<1>4. \A q \in Procs \ {p} : stage[q] # None => stage[q] \in Dirs \ {d}
      BY <1>1 DEF Apart, CallsTyped
<1> HIDE DEF d
<1>5. /\ at'[d] = None
      /\ \A e \in Dirs \ {d} : at'[e] = at[e] /\ file'[e] = file[e]
      BY <1>1, <1>2, <1>3 DEF NamesTyped, FilesTyped
<1>6. NamesTyped' /\ FilesTyped' BY <1>1, <1>2, <1>3 DEF NamesTyped, FilesTyped
<1>7. Survive BY <1>2, <1>3, <1>5, SourceStoreAssumption DEF Survive
<1>8. Kept'
      <2>1. \A e \in Dirs : at'[e] \in Jobs => e # d BY <1>5, SourceStoreAssumption
      <2>2. \A e \in Dirs : durableAt[e] \in Jobs => e # d
            BY <1>1, <1>2, SourceStoreAssumption DEF Kept
      <2>3. \A e \in Dirs : durableAt'[e] \in Jobs => at'[e] = durableAt'[e]
            BY <1>1, <1>5, <2>1, <2>2 DEF Kept
      <2>4. \A e \in Dirs : at'[e] \in Jobs => synced'[e] /\ file'[e] \in Contents
            BY <1>1, <1>3, <1>5, <2>1 DEF Kept
      <2>5. \A e, f \in Dirs : at'[e] \in Jobs /\ at'[e] = at'[f] => e = f
            BY <1>1, <1>5, <2>1 DEF Kept
      <2>6. QED BY <2>3, <2>4, <2>5 DEF Kept
<1>9. Published' \subseteq Published BY <1>5, SourceStoreAssumption DEF Published
<1>10. QED BY <1>3, <1>4, <1>5, <1>6, <1>7, <1>8, <1>9

(* The call returns: its bundle is durable under the name of its job.      *)
LEMMA AcceptKeeps ==
    ASSUME IInv, NEW p \in Procs, Accept(p), pc[p] \in PutSteps,
           Survive, NamesTyped', FilesTyped', Kept', Published' \subseteq Published,
           \A q \in Procs \ {p} : stage[q] # None =>
              /\ at'[stage[q]] = at[stage[q]] /\ file'[stage[q]] = file[stage[q]]
              /\ synced'[stage[q]] = synced[stage[q]],
           \E d \in Dirs : /\ at[d] = job[p] /\ at'[d] = job[p] /\ durableAt'[d] = job[p]
                           /\ file'[d] = data[p]
    PROVE  IInv'
<1>1. /\ accepted' = accepted \cup {[job |-> job[p], data |-> data[p]]}
      /\ End(p) /\ answer' = answer
      BY DEF Accept
<1>2. job[p] \in Jobs /\ data[p] \in Contents BY DEF IInv, Arguments
<1>3. accepted' \subseteq [job : Jobs, data : Contents] BY <1>1, <1>2 DEF IInv
<1>4. PICK d \in Dirs : at'[d] = job[p] /\ durableAt'[d] = job[p] /\ file'[d] = data[p]
      OBVIOUS
<1>5. synced'[d] BY <1>2, <1>4 DEF Kept
<1>6. PutIsDurable'
      <2>1. ASSUME NEW a \in accepted'
            PROVE  \E e \in Dirs : /\ at'[e] = a.job /\ durableAt'[e] = a.job
                                   /\ file'[e] = a.data /\ synced'[e]
            <3>1. CASE a \in accepted BY <3>1, AcceptedSurvive
            <3>2. CASE a = [job |-> job[p], data |-> data[p]] BY <1>4, <1>5, <3>2
            <3>3. QED BY <1>1, <2>1, <3>1, <3>2
      <2>2. QED BY <2>1 DEF PutIsDurable
<1>7. answer' \in [Procs -> Contents \cup {Torn, None}] BY <1>1 DEF IInv, CallsTyped
<1>8. QED BY <1>1, <1>3, <1>6, <1>7, EndKeeps

LEMMA SettleKeeps ==
    ASSUME IInv, NEW p \in Procs, Settle(p)
    PROVE  IInv'
<1>1. pc[p] = "settle" /\ stage[p] = None BY DEF Settle, IInv, Staged
<1>2. CASE UNCHANGED <<at, file, synced>> /\ SyncNames /\ Accept(p)
      <2>1. \E d \in Dirs : at[d] = job[p] /\ file[d] = data[p] BY <1>1 DEF IInv, Seen
      <2>2. \E d \in Dirs : /\ at[d] = job[p] /\ at'[d] = job[p] /\ durableAt'[d] = job[p]
                            /\ file'[d] = data[p]
            BY <1>2, <2>1 DEF SyncNames
      <2>3. QED BY <1>1, <1>2, <2>2, StoreStays, AcceptKeeps DEF SyncNames
<1>3. CASE Goto(p, "mkdir") /\ UNCHANGED <<storeVars, callVars, history>>
      BY <1>1, <1>3, MoveKeeps
<1>4. QED BY <1>2, <1>3 DEF Settle

(* The entry read back is the one whose name was synced, since a job has   *)
(* one entry.                                                              *)
LEMMA PutReadbackKeeps ==
    ASSUME IInv, NEW p \in Procs, PutReadback(p)
    PROVE  IInv'
<1>1. /\ pc[p] = "readback" /\ Entry(job[p]) = {data[p]}
      /\ at' = at /\ durableAt' = durableAt /\ file' = file /\ synced' = synced
      BY DEF PutReadback, storeVars
<1>2. job[p] \in Jobs /\ data[p] \in Contents BY <1>1 DEF IInv, Arguments
<1>3. PICK d \in Dirs : at[d] = job[p] /\ durableAt[d] = job[p] BY <1>1 DEF IInv, Seen
<1>4. PICK e \in Dirs : at[e] = job[p] /\ file[e] = data[p] BY <1>1, <1>2, EntryIs
<1>5. d = e BY <1>2, <1>3, <1>4 DEF IInv, Kept
<1>6. CASE stage[p] = None /\ Accept(p)
      BY <1>1, <1>3, <1>4, <1>5, <1>6, StoreStays, AcceptKeeps
<1>7. CASE stage[p] # None /\ Goto(p, "discard") /\ UNCHANGED <<callVars, history>>
      BY <1>1, <1>3, <1>4, <1>5, <1>7, MoveKeeps DEF storeVars
<1>8. QED BY <1>6, <1>7 DEF PutReadback

LEMMA DiscardKeeps ==
    ASSUME IInv, NEW p \in Procs, Discard(p)
    PROVE  IInv'
<1>1. pc[p] = "discard" /\ RemoveStage(p) /\ durableAt' = at' /\ Accept(p)
      BY DEF Discard, SyncNames
<1>2. stage[p] # None /\ job[p] \in Jobs BY <1>1 DEF IInv, Staged, Arguments
<1>3. PICK d \in Dirs : at[d] = job[p] /\ file[d] = data[p] BY <1>1 DEF IInv, Seen
<1>4. at'[d] = job[p] /\ file'[d] = data[p]
      BY <1>1, <1>2, <1>3, RemovalSpares DEF Survive
<1>5. QED BY <1>1, <1>2, <1>3, <1>4, RemovalSpares, AcceptKeeps

LEMMA ReadEntryKeeps ==
    ASSUME IInv, NEW p \in Procs, ReadEntry(p)
    PROVE  IInv'
<1>1. /\ pc[p] = "read" /\ End(p) /\ accepted' = accepted
      /\ at' = at /\ durableAt' = durableAt /\ file' = file /\ synced' = synced
      BY DEF ReadEntry, storeVars
<1>2. PICK c \in Entry(job[p]) : answer' = [answer EXCEPT ![p] = c] BY DEF ReadEntry
<1>3. FilesTyped /\ CallsTyped BY DEF IInv
<1>4. c \in Contents \cup {Torn, None} BY <1>3 DEF Entry, FilesTyped
<1>5. /\ answer' \in [Procs -> Contents \cup {Torn, None}]
      /\ \A q \in Procs \ {p} : answer'[q] = answer[q]
      BY <1>2, <1>3, <1>4 DEF CallsTyped
<1>6. accepted' \subseteq [job : Jobs, data : Contents] BY <1>1 DEF IInv
<1>7. QED BY <1>1, <1>5, <1>6, StoreStays, AcceptedSurvive, EndKeeps

(* A call that throws or dies ends with or without the removal of its      *)
(* stage, and never touches what is published.                             *)
LEMMA LeaveKeeps ==
    ASSUME IInv, NEW p \in Procs, pc[p] # "idle", End(p), answer' = answer, accepted' = accepted,
           durableAt' = at' \/ durableAt' = durableAt,
           \/ at' = at /\ file' = file /\ synced' = synced
           \/ stage[p] # None /\ RemoveStage(p)
    PROVE  IInv'
<1>1. accepted' \subseteq [job : Jobs, data : Contents] BY DEF IInv
<1>2. answer' \in [Procs -> Contents \cup {Torn, None}] BY DEF IInv, CallsTyped
<1>3. CASE at' = at /\ file' = file /\ synced' = synced
      BY <1>1, <1>2, <1>3, StoreStays, AcceptedSurvive, EndKeeps
<1>4. CASE stage[p] # None /\ RemoveStage(p)
      BY <1>1, <1>2, <1>4, RemovalSpares, AcceptedSurvive, EndKeeps
<1>5. QED BY <1>3, <1>4

LEMMA FailKeeps ==
    ASSUME IInv, NEW p \in Procs, Fail(p)
    PROVE  IInv'
<1>1. pc[p] # "idle" /\ End(p) /\ answer' = answer /\ accepted' = accepted BY DEF Fail, history
<1>2. CASE stage[p] # None /\ RemoveStage(p) /\ SyncNames
      BY <1>1, <1>2, LeaveKeeps DEF SyncNames
<1>3. CASE stage[p] = None /\ UNCHANGED storeVars
      <2>1. at' = at /\ file' = file /\ synced' = synced /\ durableAt' = durableAt
            BY <1>3 DEF storeVars
      <2>2. QED BY <1>1, <2>1, LeaveKeeps
<1>4. QED BY <1>2, <1>3 DEF Fail

LEMMA DieKeeps ==
    ASSUME IInv, NEW p \in Procs, Die(p)
    PROVE  IInv'
<1>1. /\ pc[p] # "idle" /\ End(p) /\ answer' = answer /\ accepted' = accepted
      /\ durableAt' = durableAt
      BY DEF Die, history
<1>2. CASE UNCHANGED <<at, file, synced>> BY <1>1, <1>2, LeaveKeeps
<1>3. CASE stage[p] # None /\ RemoveStage(p) BY <1>1, <1>3, LeaveKeeps
<1>4. QED BY <1>2, <1>3 DEF Die

(* A published directory has its bytes on the disk and either name of it   *)
(* is the present one.                                                     *)
LEMMA PowerLossKeeps ==
    ASSUME IInv, PowerLoss
    PROVE  IInv'
<1>1. PICK lost \in SUBSET {d \in Dirs : at[d] # durableAt[d]} :
         at' = [d \in Dirs |-> IF d \in lost THEN durableAt[d] ELSE at[d]]
      BY DEF PowerLoss
<1>2. PICK torn \in SUBSET {d \in Dirs : ~synced[d] /\ file[d] # None} :
         file' = [d \in Dirs |-> IF d \in torn THEN Torn ELSE file[d]]
      BY DEF PowerLoss
<1>3. /\ durableAt' = at' /\ synced' = [d \in Dirs |-> TRUE]
      /\ pc' = [p \in Procs |-> "idle"] /\ job' = [p \in Procs |-> None]
      /\ data' = [p \in Procs |-> None] /\ stage' = [p \in Procs |-> None]
      /\ answer' = answer /\ accepted' = accepted
      BY DEF PowerLoss, SyncNames, history
<1>4. NamesTyped /\ FilesTyped /\ CallsTyped /\ Kept BY DEF IInv
<1>5. NamesTyped' /\ FilesTyped' /\ CallsTyped'
      <2>1. NamesTyped' BY <1>1, <1>3, <1>4 DEF NamesTyped
      <2>2. FilesTyped' BY <1>2, <1>3, <1>4 DEF FilesTyped
      <2>3. CallsTyped' BY <1>3, <1>4 DEF CallsTyped
      <2>4. QED BY <2>1, <2>2, <2>3
<1>6. \A d \in Dirs : at'[d] \in Jobs => at'[d] = at[d] BY <1>1, <1>4 DEF Kept
<1>7. \A d \in Dirs : at[d] \in Jobs => file'[d] = file[d] /\ synced[d] /\ synced'[d]
      BY <1>2, <1>3, <1>4 DEF Kept
<1>8. Kept' BY <1>3, <1>4, <1>6, <1>7 DEF Kept
<1>9. Apart' BY <1>3 DEF Apart
<1>10. \A p \in Procs : (Arguments(p) /\ Staged(p) /\ Seen(p))'
      BY <1>3 DEF Arguments, Staged, Seen
<1>11. PutIsDurable'
      <2>1. ASSUME NEW a \in accepted
            PROVE  \E d \in Dirs : /\ at'[d] = a.job /\ durableAt'[d] = a.job
                                   /\ file'[d] = a.data /\ synced'[d]
            <3>1. PICK d \in Dirs : /\ at[d] = a.job /\ durableAt[d] = a.job
                                    /\ file[d] = a.data /\ synced[d]
                  BY DEF IInv, PutIsDurable
            <3>2. a.job \in Jobs BY DEF IInv
            <3>3. at'[d] = a.job BY <1>1, <3>1
            <3>4. QED BY <1>3, <1>7, <3>1, <3>2, <3>3
      <2>2. QED BY <1>3, <2>1 DEF PutIsDurable
<1>12. Promised' \subseteq Promised BY <1>3, <1>6 DEF Promised, Published
<1>13. accepted' \subseteq [job : Jobs, data : Contents] BY <1>3 DEF IInv
<1>14. QED BY <1>5, <1>8, <1>9, <1>10, <1>11, <1>12, <1>13, RoomStays DEF IInv

-----------------------------------------------------------------------------
LEMMA InitHolds ==
    ASSUME Init
    PROVE  IInv
<1>1. NamesTyped /\ FilesTyped /\ CallsTyped BY DEF Init, NamesTyped, FilesTyped, CallsTyped
<1>2. Kept /\ Apart BY SourceStoreAssumption DEF Init, Kept, Apart
<1>3. \A p \in Procs : Arguments(p) /\ Staged(p) /\ Seen(p)
      BY DEF Init, Arguments, Staged, Seen
<1>4. accepted \subseteq [job : Jobs, data : Contents] /\ PutIsDurable
      BY DEF Init, PutIsDurable
<1>5. Promised = {} BY SourceStoreAssumption DEF Init, Promised, Published
<1>6. Cardinality(Promised) <= MaxEntries BY <1>5, FS_EmptySet, SourceStoreAssumption
<1>7. QED BY <1>1, <1>2, <1>3, <1>4, <1>6 DEF IInv

LEMMA NextKeeps ==
    ASSUME IInv, [Next]_vars
    PROVE  IInv'
<1>1. CASE UNCHANGED vars
      BY <1>1 DEF vars, storeVars, callVars, history, IInv, NamesTyped, FilesTyped, CallsTyped,
                  Kept, Apart, Arguments, Staged, Seen, PutIsDurable, Promised, Published
<1>2. ASSUME NEW p \in Procs, NEW j \in Jobs, Read(p, j) \/ \E c \in Contents : Put(p, j, c)
      PROVE  IInv'
      BY <1>2, ReadKeeps, PutKeeps
<1>3. ASSUME NEW p \in Procs,
             \/ Look(p) \/ Settle(p) \/ MakeStage(p) \/ Write(p) \/ SyncStage(p) \/ Recheck(p)
             \/ Rename(p) \/ SyncEntry(p) \/ PutReadback(p) \/ Discard(p)
             \/ ReadEntry(p) \/ Fail(p) \/ Die(p)
      PROVE  IInv'
      <2>1. CASE Look(p) BY <2>1, LookKeeps
      <2>2. CASE Settle(p) BY <2>2, SettleKeeps
      <2>3. CASE MakeStage(p) BY <2>3, MakeStageKeeps
      <2>4. CASE Write(p) BY <2>4, WriteKeeps
      <2>5. CASE SyncStage(p) BY <2>5, SyncStageKeeps
      <2>6. CASE Recheck(p) BY <2>6, RecheckKeeps
      <2>7. CASE Rename(p)
            <3>1. CASE /\ Entry(job[p]) = {} /\ at' = [at EXCEPT ![stage[p]] = job[p]]
                       /\ stage' = [stage EXCEPT ![p] = None]
                  BY <2>7, <3>1, RenameKeeps
            <3>2. CASE Entry(job[p]) # {} /\ UNCHANGED <<at, stage>>
                  BY <2>7, <3>2, RefusedKeeps
            <3>3. QED BY <2>7, <3>1, <3>2 DEF Rename
      <2>8. CASE SyncEntry(p) BY <2>8, SyncEntryKeeps
      <2>9. CASE PutReadback(p) BY <2>9, PutReadbackKeeps
      <2>10. CASE Discard(p) BY <2>10, DiscardKeeps
      <2>11. CASE ReadEntry(p) BY <2>11, ReadEntryKeeps
      <2>12. CASE Fail(p) BY <2>12, FailKeeps
      <2>13. CASE Die(p) BY <2>13, DieKeeps
      <2>14. QED BY <1>3, <2>1, <2>2, <2>3, <2>4, <2>5, <2>6, <2>7, <2>8, <2>9, <2>10, <2>11,
                    <2>12, <2>13
<1>4. CASE PowerLoss BY <1>4, PowerLossKeeps
<1>5. QED BY <1>1, <1>2, <1>3, <1>4 DEF Next

LEMMA Invariance == Spec => []IInv
<1>1. Init => IInv BY InitHolds
<1>2. IInv /\ [Next]_vars => IInv' BY NextKeeps
<1>3. QED BY <1>1, <1>2, PTL DEF Spec

(* A put that returned survives every interleaving, crash and power loss   *)
(* (put and its fsyncSync before each return).                             *)
THEOREM Durability == Spec => []PutIsDurable
<1>1. IInv => PutIsDurable BY DEF IInv
<1>2. QED BY <1>1, Invariance, PTL

(* No more than MAX_ENTRIES bundles are ever published, however many puts  *)
(* race (the check between fsyncSync and renameSync).                      *)
THEOREM Limit == Spec => []WithinLimit
<1>1. ASSUME IInv PROVE WithinLimit
      <2>1. Published \subseteq Promised BY DEF Promised
      <2>2. /\ IsFiniteSet(Promised) /\ IsFiniteSet(Published)
            /\ Cardinality(Published) <= Cardinality(Promised)
            BY <1>1, <2>1, PromisedAreDirs, FS_Subset
      <2>3. Cardinality(Published) \in Nat /\ Cardinality(Promised) \in Nat
            BY <2>2, FS_CardinalityType
      <2>4. QED BY <1>1, <2>2, <2>3, SourceStoreAssumption DEF IInv, WithinLimit
<1>2. QED BY <1>1, Invariance, PTL

(* Only the read itself gives a reader its answer.                         *)
LEMMA OnlyReadAnswers ==
    ASSUME IInv, Next, NEW p \in Procs, pc[p] = "read", answer'[p] # None
    PROVE  ReadEntry(p)
<1>1. answer[p] = None /\ CallsTyped BY DEF IInv, Arguments
<1>2. answer' # answer BY <1>1
<1>3. ASSUME NEW q \in Procs, NEW j \in Jobs, Read(q, j) \/ \E c \in Contents : Put(q, j, c)
      PROVE  FALSE
      <2>1. pc[q] = "idle" /\ answer' = [answer EXCEPT ![q] = None] BY <1>3 DEF Read, Put
      <2>2. q # p BY <2>1
      <2>3. QED BY <1>1, <2>1, <2>2 DEF CallsTyped
<1>4. ASSUME NEW q \in Procs,
             \/ Look(q) \/ Settle(q) \/ MakeStage(q) \/ Write(q) \/ SyncStage(q) \/ Recheck(q)
             \/ Rename(q) \/ SyncEntry(q) \/ PutReadback(q) \/ Discard(q)
             \/ ReadEntry(q) \/ Fail(q) \/ Die(q)
      PROVE  ReadEntry(p)
      <2>1. CASE ReadEntry(q)
            <3>1. PICK c \in Entry(job[q]) : answer' = [answer EXCEPT ![q] = c]
                  BY <2>1 DEF ReadEntry
            <3>2. q = p BY <1>1, <3>1 DEF CallsTyped
            <3>3. QED BY <2>1, <3>2
      <2>2. CASE Look(q) \/ Settle(q) \/ PutReadback(q) \/ Discard(q)
            BY <1>2, <2>2 DEF Look, Settle, PutReadback, Discard, Accept, history
      <2>3. CASE MakeStage(q) \/ Write(q) \/ SyncStage(q) \/ Recheck(q)
            BY <1>2, <2>3 DEF MakeStage, Write, SyncStage, Recheck, history
      <2>4. CASE Rename(q) \/ SyncEntry(q) \/ Fail(q) \/ Die(q)
            BY <1>2, <2>4 DEF Rename, SyncEntry, Fail, Die, history
      <2>5. QED BY <1>4, <2>1, <2>2, <2>3, <2>4
<1>5. CASE PowerLoss BY <1>2, <1>5 DEF PowerLoss, history
<1>6. QED BY <1>3, <1>4, <1>5 DEF Next

(* A read returns a whole bundle, the one of every put of the job that has *)
(* returned (readEntry).                                                   *)
THEOREM WholeReads == Spec => ReadsAreWhole
<1> DEFINE Whole == \A p \in Procs :
                 pc[p] = "read" /\ answer'[p] # None
                    => /\ answer'[p] \in Contents
                       /\ \A a \in accepted : a.job = job[p] => a.data = answer'[p]
<1>1. ASSUME IInv, [Next]_vars PROVE [Whole]_vars
      <2>1. CASE UNCHANGED vars BY <2>1
      <2>2. ASSUME Next, NEW p \in Procs, pc[p] = "read", answer'[p] # None
            PROVE  /\ answer'[p] \in Contents
                   /\ \A a \in accepted : a.job = job[p] => a.data = answer'[p]
            <3>1. ReadEntry(p) BY <1>1, <2>2, OnlyReadAnswers
            <3>2. PICK c \in Entry(job[p]) : answer' = [answer EXCEPT ![p] = c]
                  BY <3>1 DEF ReadEntry
            <3>3. answer'[p] = c BY <1>1, <3>2 DEF IInv, CallsTyped
            <3>4. PICK d \in Dirs : at[d] = job[p] /\ file[d] = c BY DEF Entry
            <3>5. job[p] \in Jobs BY <1>1, <2>2 DEF IInv, Arguments
            <3>6. c \in Contents BY <1>1, <3>4, <3>5 DEF IInv, Kept
            <3>7. ASSUME NEW a \in accepted, a.job = job[p] PROVE a.data = c
                  <4>1. PICK e \in Dirs : at[e] = a.job /\ file[e] = a.data
                        BY <1>1 DEF IInv, PutIsDurable
                  <4>2. d = e BY <1>1, <3>4, <3>5, <3>7, <4>1 DEF IInv, Kept
                  <4>3. QED BY <3>4, <4>1, <4>2
            <3>8. QED BY <3>3, <3>6, <3>7
      <2>3. QED BY <1>1, <2>1, <2>2
<1>2. QED BY <1>1, Invariance, PTL DEF Spec, ReadsAreWhole
=============================================================================
