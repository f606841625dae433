------------------------- MODULE PublicationProofs -------------------------
(***************************************************************************)
(* Proofs about Publication for any number of runs, requests, bases and    *)
(* changes by others.                                                      *)
(*                                                                         *)
(* The argument: a run between its durable consumption and its mark, or    *)
(* with a consumed grant, holds its authorization, and no two runs hold    *)
(* the same one, because each holder's request is in the ledger and the    *)
(* ledger refuses a second request of an authorization.  Tokens and writes *)
(* belong to holders.  What a holder writes is what its owner signed       *)
(* because the remote state of the last inspection equals the reviewed one,*)
(* which the envelope was verified against.                                *)
(*                                                                         *)
(* What the database says of a run has an invariant of its own, Recorded:  *)
(* a run's outcome and row agree with what the run wrote, except after a   *)
(* database call that threw or a write whose reply was lost.               *)
(***************************************************************************)
EXTENDS Publication, TLAPS

USE DEF Unarmed, Armed, Ending, Active, Over, Steps

(* Steps before the grant can be consumed, and steps that need it.         *)
Fresh == {"idle", "reproduce", "review_base", "review_ref", "review_pulls", "verify",
          "broker_base", "consume", "mark"}
Marked == {"mint_base", "mint_grant", "mint", "minted_base", "minted_grant"} \cup Armed
Verified == {"broker_base", "consume", "mark"} \cup Marked

Holder(r) == pc[r] = "mark" \/ grant[r] = "consumed"

Held(r) == Holder(r) => request[r] \in ledger

Exclusive == \A r, s \in Runs : Holder(r) /\ Holder(s) /\ Same(request[r], request[s]) => r = s

Granted(r) ==
    /\ pc[r] \in Marked => grant[r] = "consumed"
    /\ pc[r] \in Fresh => grant[r] # "consumed" /\ token[r] = "none"
    /\ token[r] # "none" => grant[r] = "consumed"
    /\ done[r] # {} => grant[r] = "consumed"

(* A lapsed authorization is not current while it can still be checked.    *)
Stopped(r) ==
    r \in lapsed =>
        /\ done[r] = {}
        /\ pc[r] \notin Armed /\ pc[r] # "idle"
        /\ pc[r] \in Unarmed => ~Current(request[r])

(* The remote state the envelope was verified against.                     *)
Vetted(r) ==
    /\ pc[r] \in (Unarmed \cup Armed) \ {"reproduce"} => request[r].result = "ready"
    /\ pc[r] \in Verified =>
          RemoteAction(reviewed[r]) = request[r].action /\ reviewed[r].pull = request[r].pull

(* What the last inspection saw.                                           *)
Seen(r) ==
    /\ found[r].head = None => found[r].pull = 0
    /\ pc[r] \in {"review_pulls", "final_pulls"} => found[r].head # None
    /\ pc[r] \in {"confirm", "push", "pull"} =>
          found[r].head = None \/ MatchesArtifact(found[r].head, request[r])
    /\ pc[r] \in {"push", "pull"} => found[r] = reviewed[r]
    /\ pc[r] = "push" => found[r].head = None

(* What was written before the try block is left.                          *)
Written(r) ==
    /\ pc[r] \in {"idle"} \cup Unarmed \cup (Armed \ {"pull"}) => done[r] = {}
    /\ pc[r] = "pull" => done[r] = IF found[r].head = None THEN {"create_branch"} ELSE {}

Approved(r, report) ==
    report.status = "pr_opened" =>
        /\ report.head.tree = request[r].base /\ report.head.parent = request[r].base
        /\ report.pull # 0
        /\ request[r] \in ledger

Reported(r) ==
    /\ Approved(r, outcome[r]) /\ Approved(r, row[r])
    /\ pc[r] = "idle" => outcome[r].status # "pr_opened" /\ row[r].status # "pr_opened"

Local(r) ==
    Held(r) /\ Granted(r) /\ Stopped(r) /\ Vetted(r) /\ Seen(r) /\ Written(r) /\ Reported(r)

IInv == TypeOK /\ Exclusive /\ \A r \in Runs : Local(r)

-----------------------------------------------------------------------------
(* A step of run r: nothing of another run changes.                        *)
OnlyOf(r) ==
    \A t \in Runs \ {r} :
        /\ pc'[t] = pc[t] /\ request'[t] = request[t] /\ found'[t] = found[t]
        /\ reviewed'[t] = reviewed[t] /\ grant'[t] = grant[t] /\ token'[t] = token[t]
        /\ outcome'[t] = outcome[t] /\ row'[t] = row[t] /\ done'[t] = done[t]
        /\ t \in lapsed' <=> t \in lapsed

(* What holds of a run is kept by the steps of the others.                 *)
LEMMA Frame ==
    ASSUME NEW t \in Runs, Local(t), ledger \subseteq ledger', UNCHANGED <<now, revoked>>,
           pc'[t] = pc[t], request'[t] = request[t], found'[t] = found[t],
           reviewed'[t] = reviewed[t], grant'[t] = grant[t], token'[t] = token[t],
           outcome'[t] = outcome[t], row'[t] = row[t], done'[t] = done[t],
           t \in lapsed' <=> t \in lapsed
    PROVE  Local(t)' /\ (Holder(t)' <=> Holder(t))
<1>1. Held(t)' BY DEF Local, Held, Holder
<1>2. Granted(t)' BY DEF Local, Granted
<1>3. Stopped(t)' BY DEF Local, Stopped, Current
<1>4. Vetted(t)' BY DEF Local, Vetted
<1>5. Seen(t)' BY DEF Local, Seen
<1>6. Written(t)' BY DEF Local, Written
<1>7. Reported(t)' BY DEF Local, Reported, Approved
<1>8. QED BY <1>1, <1>2, <1>3, <1>4, <1>5, <1>6, <1>7 DEF Local, Holder

(* The shape of every step of a run but its consumption.                   *)
LEMMA RunStep ==
    ASSUME IInv, TypeOK', NEW r \in Runs, OnlyOf(r), Local(r)', ledger \subseteq ledger',
           UNCHANGED <<now, revoked>>,
           Holder(r)' => Holder(r) /\ request'[r] = request[r]
    PROVE  IInv'
<1>1. ASSUME NEW t \in Runs, t # r
      PROVE  Local(t)' /\ (Holder(t)' <=> Holder(t)) /\ request'[t] = request[t]
      <2>1. /\ pc'[t] = pc[t] /\ request'[t] = request[t] /\ found'[t] = found[t]
            /\ reviewed'[t] = reviewed[t] /\ grant'[t] = grant[t] /\ token'[t] = token[t]
            /\ outcome'[t] = outcome[t] /\ row'[t] = row[t] /\ done'[t] = done[t]
            /\ t \in lapsed' <=> t \in lapsed
            BY <1>1 DEF OnlyOf
      <2>2. QED BY <2>1, Frame DEF IInv
<1>2. ASSUME NEW t \in Runs, Holder(t)' PROVE Holder(t) /\ request'[t] = request[t]
      BY <1>1, <1>2
<1>3. Exclusive' BY <1>2 DEF IInv, Exclusive, Same
<1>4. \A t \in Runs : Local(t)' BY <1>1
<1>5. QED BY <1>3, <1>4 DEF IInv

-----------------------------------------------------------------------------
(* The commit a run makes, and the head it expects, are commits.           *)
LEMMA HeadTypes ==
    ASSUME TypeOK, NEW r \in Runs, pc[r] # "idle"
    PROVE  /\ request[r] \in Requests /\ request[r].base \in Bases
           /\ OwnCommit(r) \in Commit /\ OwnCommit(r) # None
           /\ ExpectedHead(r) \in Commit /\ ExpectedHead(r) # None
<1>1. request[r] \in Requests BY DEF TypeOK
<1>2. request[r].base \in Bases BY <1>1, PublicationAssumption
<1>3. OwnCommit(r) \in Commit BY <1>2 DEF OwnCommit, Commit
<1>4. found[r].head \in Commit \cup {None} BY DEF TypeOK, Remote
<1>5. ExpectedHead(r) \in Commit BY <1>3, <1>4 DEF ExpectedHead
<1>6. QED BY <1>1, <1>2, <1>3, <1>5, PublicationAssumption

(* Leaving the try block keeps the types of the outcome and of the step.   *)
LEMMA LeaveTypes ==
    ASSUME TypeOK, NEW r \in Runs, pc[r] # "idle",
           NEW status \in {"failed", "blocked", "no_changes", "pr_opened"},
           NEW head \in Commit \cup {None}, NEW pull \in 0 .. MaxPulls,
           Leave(r, status, head, pull), UNCHANGED request
    PROVE  /\ outcome' \in [Runs -> Row] /\ pc' \in [Runs -> Steps]
           /\ \A t \in Runs : pc'[t] = "idle" <=> request'[t] = None
           /\ pc'[r] = "cleanup" /\ outcome'[r] = RowOf(status, head, pull)
           /\ \A t \in Runs \ {r} : pc'[t] = pc[t] /\ outcome'[t] = outcome[t]
<1>1. RowOf(status, head, pull) \in Row BY DEF RowOf, Row
<1>2. /\ outcome' = [outcome EXCEPT ![r] = RowOf(status, head, pull)]
      /\ pc' = [pc EXCEPT ![r] = "cleanup"]
      BY DEF Leave, Goto
<1>3. outcome' \in [Runs -> Row] /\ outcome'[r] = RowOf(status, head, pull)
      BY <1>1, <1>2 DEF TypeOK
<1>4. pc' \in [Runs -> Steps] /\ pc'[r] = "cleanup" BY <1>2 DEF TypeOK
<1>5. \A t \in Runs : pc'[t] = "idle" <=> request'[t] = None BY <1>2 DEF TypeOK
<1>6. \A t \in Runs \ {r} : pc'[t] = pc[t] /\ outcome'[t] = outcome[t] BY <1>2 DEF TypeOK
<1>7. QED BY <1>3, <1>4, <1>5, <1>6

(* A plain failure: the run leaves with no report.                         *)
LEMMA FailTypes ==
    ASSUME TypeOK, NEW r \in Runs, pc[r] # "idle", Fail(r), UNCHANGED request
    PROVE  /\ outcome' \in [Runs -> Row] /\ pc' \in [Runs -> Steps]
           /\ \A t \in Runs : pc'[t] = "idle" <=> request'[t] = None
           /\ pc'[r] = "cleanup" /\ outcome'[r].status = "failed"
           /\ \A t \in Runs \ {r} : pc'[t] = pc[t] /\ outcome'[t] = outcome[t]
<1>1. 0 \in 0 .. MaxPulls BY PublicationAssumption
<1>2. Leave(r, "failed", None, 0) BY DEF Fail
<1>3. /\ outcome' \in [Runs -> Row] /\ pc' \in [Runs -> Steps]
      /\ \A t \in Runs : pc'[t] = "idle" <=> request'[t] = None
      /\ pc'[r] = "cleanup" /\ outcome'[r] = RowOf("failed", None, 0)
      /\ \A t \in Runs \ {r} : pc'[t] = pc[t] /\ outcome'[t] = outcome[t]
      <2>1. "failed" \in {"failed", "blocked", "no_changes", "pr_opened"} OBVIOUS
      <2>2. None \in Commit \cup {None} OBVIOUS
      <2>3. QED BY <1>1, <1>2, <2>1, <2>2, LeaveTypes
<1>4. outcome'[r].status = "failed" BY <1>3 DEF RowOf
<1>5. QED BY <1>3, <1>4

(* A run that fails keeps what it holds.                                   *)
LEMMA FailLocal ==
    ASSUME IInv, NEW r \in Runs, pc[r] \in Unarmed \cup Armed, pc'[r] = "cleanup",
           outcome'[r].status # "pr_opened", request'[r] = request[r], row'[r] = row[r],
           found'[r].head = None => found'[r].pull = 0,
           grant'[r] = grant[r],
           token'[r] = token[r] \/ grant[r] = "consumed",
           \/ done'[r] = done[r]
           \/ done'[r] = {"create_branch"} /\ grant[r] = "consumed" /\ r \notin lapsed,
           ledger \subseteq ledger', UNCHANGED lapsed
    PROVE  Local(r)' /\ (Holder(r)' => Holder(r))
<1>1. Local(r) BY DEF IInv
<1>2. Holder(r)' => Holder(r) BY DEF Holder
<1>3. Held(r)' BY <1>1, <1>2 DEF Local, Held
<1>4. Granted(r)' BY <1>1 DEF Local, Granted, Marked, Fresh
<1>5. Stopped(r)' BY <1>1 DEF Local, Stopped
<1>6. Vetted(r)' BY DEF Vetted, Verified, Marked
<1>7. Seen(r)' BY DEF Seen
<1>8. Written(r)' BY DEF Written
<1>9. Reported(r)' BY <1>1 DEF Local, Reported, Approved
<1>10. QED BY <1>2, <1>3, <1>4, <1>5, <1>6, <1>7, <1>8, <1>9 DEF Local

(* A run that leaves with nothing but a status.                            *)
LEMMA QuietKeeps ==
    ASSUME IInv, NEW r \in Runs, pc[r] \in Unarmed \cup Armed,
           NEW status \in {"failed", "blocked", "no_changes"}, Leave(r, status, None, 0),
           UNCHANGED <<worldVars, ledger, localVars>>
    PROVE  IInv'
<1>1. UNCHANGED <<now, revoked, base, refs, pulls, opened, outside, ledger, request, found,
                  reviewed, grant, token, row, done, lapsed, unbooked>>
      BY DEF worldVars, localVars
<1>2. /\ pc[r] # "idle" /\ status \in {"failed", "blocked", "no_changes", "pr_opened"}
      /\ None \in Commit \cup {None} /\ 0 \in 0 .. MaxPulls
      BY PublicationAssumption
<1>3. /\ outcome' \in [Runs -> Row] /\ pc' \in [Runs -> Steps]
      /\ \A t \in Runs : pc'[t] = "idle" <=> request'[t] = None
      /\ pc'[r] = "cleanup" /\ outcome'[r] = RowOf(status, None, 0)
      /\ \A t \in Runs \ {r} : pc'[t] = pc[t] /\ outcome'[t] = outcome[t]
      BY <1>1, <1>2, LeaveTypes DEF IInv
<1>4. TypeOK' BY <1>1, <1>3 DEF IInv, TypeOK
<1>5. OnlyOf(r) BY <1>1, <1>3 DEF OnlyOf
<1>6. found[r].head = None => found[r].pull = 0 BY DEF IInv, Local, Seen
<1>7. outcome'[r].status # "pr_opened" BY <1>3 DEF RowOf
<1>8. Local(r)' /\ (Holder(r)' => Holder(r)) BY <1>1, <1>3, <1>6, <1>7, FailLocal
<1>9. QED BY <1>1, <1>4, <1>5, <1>8, RunStep

(* A call that fails and changes nothing.                                  *)
LEMMA FailKeeps ==
    ASSUME IInv, NEW r \in Runs, pc[r] \in Unarmed \cup Armed, Fail(r),
           UNCHANGED <<worldVars, ledger, localVars>>
    PROVE  IInv'
BY QuietKeeps DEF Fail

(* A check that holds: only the step changes.                              *)
LEMMA GotoTypes ==
    ASSUME IInv, NEW r \in Runs, pc[r] # "idle", NEW step \in Steps \ {"idle"}, Goto(r, step),
           UNCHANGED <<worldVars, ledger, outcome, localVars>>
    PROVE  /\ TypeOK' /\ OnlyOf(r) /\ pc'[r] = step
           /\ UNCHANGED <<now, revoked, ledger, request, found, reviewed, grant, token, outcome,
                          row, done, lapsed, unbooked>>
<1>1. UNCHANGED <<now, revoked, base, refs, pulls, opened, outside, ledger, request, found,
                  reviewed, grant, token, outcome, row, done, lapsed, unbooked>>
      BY DEF worldVars, localVars
<1>2. pc' = [pc EXCEPT ![r] = step] BY DEF Goto
<1>3. TypeOK' BY <1>1, <1>2 DEF IInv, TypeOK
<1>4. OnlyOf(r) BY <1>1, <1>2 DEF OnlyOf, IInv, TypeOK
<1>5. pc'[r] = step BY <1>2 DEF IInv, TypeOK
<1>6. QED BY <1>1, <1>3, <1>4, <1>5

(* A check that holds between two steps of the same phase.                 *)
LEMMA AdvanceKeeps ==
    ASSUME IInv, NEW r \in Runs, NEW step, Goto(r, step),
           UNCHANGED <<worldVars, ledger, outcome, localVars>>,
           \/ pc[r] = "reproduce" /\ step = "review_base" /\ request[r].result = "ready"
           \/ pc[r] = "review_base" /\ step = "review_ref"
           \/ pc[r] = "broker_base" /\ step = "consume"
           \/ pc[r] = "mint_base" /\ step = "mint_grant"
           \/ pc[r] = "mint_grant" /\ step = "mint"
           \/ pc[r] = "minted_base" /\ step = "minted_grant"
           \/ pc[r] = "minted_grant" /\ step = "final_base" /\ Current(request[r])
           \/ pc[r] = "final_base" /\ step = "final_ref"
           \/ /\ pc[r] = "confirm" /\ found[r] = reviewed[r]
              /\ step = IF found[r].head = None THEN "push" ELSE "pull"
           \/ pc[r] \in Active /\ step = "crashed"
    PROVE  IInv'
<1>1. pc[r] \in Active /\ step \in Steps \ {"idle"} OBVIOUS
<1>2. /\ TypeOK' /\ OnlyOf(r) /\ pc'[r] = step
      /\ UNCHANGED <<now, revoked, ledger, request, found, reviewed, grant, token, outcome,
                     row, done, lapsed, unbooked>>
      BY <1>1, GotoTypes
<1>3. Local(r) BY DEF IInv
<1>4. Holder(r)' => Holder(r) BY <1>2 DEF Holder
<1>5. Held(r)' BY <1>2, <1>3, <1>4 DEF Local, Held
<1>6. Granted(r)' BY <1>2, <1>3 DEF Local, Granted, Marked, Fresh
<1>7. Stopped(r)' BY <1>2, <1>3 DEF Local, Stopped, Current
<1>8. Vetted(r)' BY <1>2, <1>3 DEF Local, Vetted, Verified, Marked
<1>9. Seen(r)' BY <1>2, <1>3 DEF Local, Seen
<1>10. Written(r)' BY <1>2, <1>3 DEF Local, Written
<1>11. Reported(r)' BY <1>2, <1>3 DEF Local, Reported, Approved
<1>12. Local(r)' BY <1>5, <1>6, <1>7, <1>8, <1>9, <1>10, <1>11 DEF Local
<1>13. QED BY <1>2, <1>4, <1>12, RunStep

-----------------------------------------------------------------------------
(* One lemma for each action.                                              *)

(* A new run holds nothing and has written nothing.                        *)
LEMMA StartKeeps ==
    ASSUME IInv, NEW r \in Runs, NEW q \in Requests, Start(r, q)
    PROVE  IInv'
<1>1. PICK step \in {"reproduce", "rejected"} : pc' = [pc EXCEPT ![r] = step]
      BY DEF Start, Goto
<1>2. /\ pc[r] = "idle" /\ request' = [request EXCEPT ![r] = q]
      /\ row' = [row EXCEPT ![r] = RowOf("queued", None, 0)]
      /\ lapsed' = IF Current(q) THEN lapsed ELSE lapsed \cup {r}
      /\ unbooked' \in {unbooked, unbooked \cup {r}}
      /\ UNCHANGED <<now, revoked, base, refs, pulls, opened, outside, ledger, found, reviewed,
                     grant, token, outcome, done>>
      BY DEF Start, worldVars
<1>3. TypeOK'
      <2>1. RowOf("queued", None, 0) \in Row BY PublicationAssumption DEF RowOf, Row
      <2>2. row' \in [Runs -> Row] BY <1>2, <2>1 DEF IInv, TypeOK
      <2>3. pc' \in [Runs -> Steps] /\ request' \in [Runs -> Requests \cup {None}]
            BY <1>1, <1>2 DEF IInv, TypeOK
      <2>4. \A t \in Runs : pc'[t] = "idle" <=> request'[t] = None
            BY <1>1, <1>2, PublicationAssumption DEF IInv, TypeOK
      <2>5. lapsed' \subseteq Runs /\ unbooked' \subseteq Runs BY <1>2 DEF IInv, TypeOK
      <2>6. QED BY <1>2, <2>2, <2>3, <2>4, <2>5 DEF IInv, TypeOK
<1>4. OnlyOf(r) BY <1>1, <1>2 DEF OnlyOf, IInv, TypeOK
<1>5. /\ pc'[r] = step /\ request'[r] = q /\ row'[r].status = "queued"
      /\ r \in lapsed' => ~Current(q)
      BY <1>1, <1>2 DEF IInv, TypeOK, RowOf, Local, Stopped
<1>6. /\ grant[r] # "consumed" /\ token[r] = "none" /\ done[r] = {}
      /\ outcome[r].status # "pr_opened"
      BY <1>2 DEF IInv, Local, Granted, Fresh, Written, Reported
<1>7. ~Holder(r)' BY <1>2, <1>5, <1>6 DEF Holder
<1>8. Held(r)' /\ Granted(r)' BY <1>2, <1>5, <1>6, <1>7 DEF Held, Granted, Marked
<1>9. Stopped(r)' BY <1>2, <1>5, <1>6 DEF Stopped, Current
<1>10. Vetted(r)' BY <1>5 DEF Vetted, Verified, Marked
<1>11. Seen(r)' BY <1>2, <1>5 DEF IInv, Local, Seen
<1>12. Written(r)' BY <1>2, <1>5, <1>6 DEF Written
<1>13. Reported(r)' BY <1>2, <1>5, <1>6 DEF Reported, Approved
<1>14. Local(r)' BY <1>8, <1>9, <1>10, <1>11, <1>12, <1>13 DEF Local
<1>15. QED BY <1>2, <1>3, <1>4, <1>7, <1>14, RunStep

(* The preview is reproduced, or the run leaves.                           *)
LEMMA ReproduceKeeps ==
    ASSUME IInv, NEW r \in Runs, Reproduce(r)
    PROVE  IInv'
<1>1. pc[r] = "reproduce" /\ UNCHANGED <<worldVars, ledger, localVars>> BY DEF Reproduce
<1>2. CASE Fail(r) BY <1>1, <1>2, FailKeeps
<1>3. CASE Leave(r, "no_changes", None, 0) BY <1>1, <1>3, QuietKeeps
<1>4. CASE Leave(r, "blocked", None, 0) BY <1>1, <1>4, QuietKeeps
<1>5. CASE request[r].result = "ready" /\ Goto(r, "review_base") /\ UNCHANGED outcome
      BY <1>1, <1>5, AdvanceKeeps
<1>6. QED BY <1>2, <1>3, <1>4, <1>5 DEF Reproduce

(* The base branch as an inspection finds it.                              *)
LEMMA InspectBaseKeeps ==
    ASSUME IInv, NEW r \in Runs, InspectBase(r, Review) \/ InspectBase(r, Final)
    PROVE  IInv'
<1>1. /\ pc[r] \in {"review_base", "final_base"} /\ UNCHANGED <<worldVars, ledger, localVars>>
      BY DEF InspectBase, Review, Final
<1>2. CASE Fail(r) BY <1>1, <1>2, FailKeeps
<1>3. CASE /\ UNCHANGED outcome
           /\ \/ pc[r] = "review_base" /\ Goto(r, "review_ref")
              \/ pc[r] = "final_base" /\ Goto(r, "final_ref")
      BY <1>1, <1>3, AdvanceKeeps
<1>4. QED BY <1>2, <1>3 DEF InspectBase, Check, Review, Final

(* The branch as an inspection finds it.                                   *)
LEMMA InspectRefKeeps ==
    ASSUME IInv, NEW r \in Runs, InspectRef(r, Review) \/ InspectRef(r, Final)
    PROVE  IInv'
<1> DEFINE head == refs[request[r].base]
<1>1. /\ found' = [found EXCEPT ![r] = [head |-> head, pull |-> 0]]
      /\ \/ pc[r] = "review_ref" /\ Goto(r, IF head = None THEN "verify" ELSE "review_pulls")
         \/ pc[r] = "final_ref" /\ Goto(r, IF head = None THEN "confirm" ELSE "final_pulls")
      /\ UNCHANGED <<now, revoked, base, refs, pulls, opened, outside, ledger, request, reviewed,
                     grant, token, outcome, row, done, lapsed, unbooked>>
      BY DEF InspectRef, Review, Final, worldVars
<1>2. request[r].base \in Bases BY <1>1, HeadTypes DEF IInv
<1>3. [head |-> head, pull |-> 0] \in Remote
      BY <1>2, PublicationAssumption DEF IInv, TypeOK, Remote
<1>4. found' \in [Runs -> Remote] /\ found'[r] = [head |-> head, pull |-> 0]
      BY <1>1, <1>3 DEF IInv, TypeOK
<1>5. /\ pc' \in [Runs -> Steps]
      /\ \A t \in Runs : pc'[t] = "idle" <=> request'[t] = None
      /\ \/ pc[r] = "review_ref" /\ pc'[r] = IF head = None THEN "verify" ELSE "review_pulls"
         \/ pc[r] = "final_ref" /\ pc'[r] = IF head = None THEN "confirm" ELSE "final_pulls"
      BY <1>1 DEF IInv, TypeOK, Goto
<1>6. TypeOK' BY <1>1, <1>4, <1>5 DEF IInv, TypeOK
<1>7. OnlyOf(r) BY <1>1 DEF OnlyOf, Goto, IInv, TypeOK
<1>8. Local(r) BY DEF IInv
<1>9. Holder(r)' => Holder(r) BY <1>1, <1>5 DEF Holder
<1>10. Held(r)' /\ Granted(r)'
       BY <1>1, <1>5, <1>8, <1>9 DEF Local, Held, Granted, Marked, Fresh
<1>11. Stopped(r)' BY <1>1, <1>5, <1>8 DEF Local, Stopped, Current
<1>12. Vetted(r)' BY <1>1, <1>5, <1>8 DEF Local, Vetted, Verified, Marked
<1>13. Seen(r)' BY <1>4, <1>5 DEF Seen
<1>14. Written(r)' BY <1>1, <1>5, <1>8 DEF Local, Written
<1>15. Reported(r)' BY <1>1, <1>5, <1>8 DEF Local, Reported, Approved
<1>16. Local(r)' BY <1>10, <1>11, <1>12, <1>13, <1>14, <1>15 DEF Local
<1>17. QED BY <1>1, <1>6, <1>7, <1>9, <1>16, RunStep

(* Its commit is compared with the artifact before the state is used.      *)
LEMMA InspectPullsKeeps ==
    ASSUME IInv, NEW r \in Runs, InspectPulls(r, Review) \/ InspectPulls(r, Final)
    PROVE  IInv'
<1> DEFINE q == request[r]
<1>1. /\ pc[r] \in {"review_pulls", "final_pulls"}
      /\ found' = [found EXCEPT ![r].pull = pulls[q.base]]
      /\ UNCHANGED <<now, revoked, base, refs, pulls, opened, outside, ledger, request, reviewed,
                     grant, token, row, done, lapsed, unbooked>>
      BY DEF InspectPulls, Review, Final, worldVars
<1>2. Local(r) /\ pc[r] # "idle" BY <1>1 DEF IInv
<1>3. q.base \in Bases BY <1>2, HeadTypes DEF IInv
<1>4. found[r] \in Remote /\ pulls[q.base] \in 0 .. MaxPulls BY <1>3 DEF IInv, TypeOK
<1>5. found'[r] = [found[r] EXCEPT !.pull = pulls[q.base]] BY <1>1 DEF IInv, TypeOK
<1>6. found'[r] \in Remote /\ found'[r].head = found[r].head BY <1>4, <1>5 DEF Remote
<1>7. found' \in [Runs -> Remote] BY <1>1, <1>5, <1>6 DEF IInv, TypeOK
<1>8. found[r].head # None BY <1>1, <1>2 DEF Local, Seen
<1>9. CASE Fail(r)
      <2>1. /\ outcome' \in [Runs -> Row] /\ pc' \in [Runs -> Steps]
            /\ \A t \in Runs : pc'[t] = "idle" <=> request'[t] = None
            /\ pc'[r] = "cleanup" /\ outcome'[r].status = "failed"
            /\ \A t \in Runs \ {r} : pc'[t] = pc[t] /\ outcome'[t] = outcome[t]
            BY <1>1, <1>2, <1>9, FailTypes DEF IInv
      <2>2. TypeOK' BY <1>1, <1>7, <2>1 DEF IInv, TypeOK
      <2>3. OnlyOf(r) BY <1>1, <2>1 DEF OnlyOf, IInv, TypeOK
      <2>4. Local(r)' /\ (Holder(r)' => Holder(r))
            BY <1>1, <1>6, <1>8, <2>1, FailLocal
      <2>5. QED BY <1>1, <2>2, <2>3, <2>4, RunStep
<1>10. CASE /\ MatchesArtifact(found[r].head, q) /\ UNCHANGED outcome
            /\ \/ pc[r] = "review_pulls" /\ Goto(r, "verify")
               \/ pc[r] = "final_pulls" /\ Goto(r, "confirm")
      <2>1. /\ pc' \in [Runs -> Steps]
            /\ \A t \in Runs : pc'[t] = "idle" <=> request'[t] = None
            /\ \/ pc[r] = "review_pulls" /\ pc'[r] = "verify"
               \/ pc[r] = "final_pulls" /\ pc'[r] = "confirm"
            BY <1>1, <1>10 DEF IInv, TypeOK, Goto
      <2>2. TypeOK' BY <1>1, <1>7, <1>10, <2>1 DEF IInv, TypeOK
      <2>3. OnlyOf(r) BY <1>1, <1>10 DEF OnlyOf, Goto, IInv, TypeOK
      <2>4. Holder(r)' => Holder(r) BY <1>1, <2>1 DEF Holder
      <2>5. Held(r)' /\ Granted(r)'
            BY <1>1, <1>2, <2>1, <2>4 DEF Local, Held, Granted, Marked, Fresh
      <2>6. Stopped(r)' BY <1>1, <1>2, <2>1 DEF Local, Stopped, Current
      <2>7. Vetted(r)' BY <1>1, <1>2, <2>1 DEF Local, Vetted, Verified, Marked
      <2>8. Seen(r)' BY <1>1, <1>6, <1>8, <1>10, <2>1 DEF Seen
      <2>9. Written(r)' BY <1>1, <1>2, <2>1 DEF Local, Written
      <2>10. Reported(r)' BY <1>1, <1>2, <1>10, <2>1 DEF Local, Reported, Approved
      <2>11. Local(r)' BY <2>5, <2>6, <2>7, <2>8, <2>9, <2>10 DEF Local
      <2>12. QED BY <1>1, <2>2, <2>3, <2>4, <2>11, RunStep
<1>11. QED BY <1>9, <1>10 DEF InspectPulls, Check, Review, Final

(* The envelope is verified for the remote state that was found.           *)
LEMMA VerifyKeeps ==
    ASSUME IInv, NEW r \in Runs, Verify(r)
    PROVE  IInv'
<1> DEFINE q == request[r]
<1>1. /\ pc[r] = "verify" /\ reviewed' = [reviewed EXCEPT ![r] = found[r]]
      /\ UNCHANGED <<now, revoked, base, refs, pulls, opened, outside, ledger, request, found,
                     token, row, done, lapsed, unbooked>>
      BY DEF Verify, worldVars
<1>2. Local(r) /\ pc[r] # "idle" BY <1>1 DEF IInv
<1>3. reviewed' \in [Runs -> Remote] /\ reviewed'[r] = found[r] BY <1>1 DEF IInv, TypeOK
<1>4. CASE Fail(r) /\ UNCHANGED grant
      <2>1. /\ outcome' \in [Runs -> Row] /\ pc' \in [Runs -> Steps]
            /\ \A t \in Runs : pc'[t] = "idle" <=> request'[t] = None
            /\ pc'[r] = "cleanup" /\ outcome'[r].status = "failed"
            /\ \A t \in Runs \ {r} : pc'[t] = pc[t] /\ outcome'[t] = outcome[t]
            BY <1>1, <1>2, <1>4, FailTypes DEF IInv
      <2>2. TypeOK' BY <1>1, <1>3, <1>4, <2>1 DEF IInv, TypeOK
      <2>3. OnlyOf(r) BY <1>1, <1>4, <2>1 DEF OnlyOf, IInv, TypeOK
      <2>4. found[r].head = None => found[r].pull = 0 BY <1>2 DEF Local, Seen
      <2>5. Local(r)' /\ (Holder(r)' => Holder(r)) BY <1>1, <1>4, <2>1, <2>4, FailLocal
      <2>6. QED BY <1>1, <2>2, <2>3, <2>5, RunStep
<1>5. CASE /\ RemoteAction(found[r]) = q.action /\ found[r].pull = q.pull
           /\ grant' = [grant EXCEPT ![r] = "verified"] /\ Goto(r, "broker_base")
           /\ UNCHANGED outcome
      <2>1. /\ pc' \in [Runs -> Steps] /\ pc'[r] = "broker_base"
            /\ \A t \in Runs : pc'[t] = "idle" <=> request'[t] = None
            BY <1>1, <1>5 DEF IInv, TypeOK, Goto
      <2>2. grant' \in [Runs -> {"none", "verified", "consumed"}] /\ grant'[r] = "verified"
            BY <1>5 DEF IInv, TypeOK
      <2>3. TypeOK' BY <1>1, <1>3, <1>5, <2>1, <2>2 DEF IInv, TypeOK
      <2>4. OnlyOf(r) BY <1>1, <1>5 DEF OnlyOf, Goto, IInv, TypeOK
      <2>5. ~Holder(r)' BY <2>1, <2>2 DEF Holder
      <2>6. Held(r)' /\ Granted(r)'
            BY <1>1, <1>2, <2>1, <2>2, <2>5 DEF Local, Held, Granted, Marked, Fresh, Written
      <2>7. Stopped(r)' BY <1>1, <1>2, <2>1 DEF Local, Stopped, Current
      <2>8. Vetted(r)' BY <1>1, <1>2, <1>3, <1>5, <2>1 DEF Local, Vetted
      <2>9. Seen(r)' BY <1>1, <1>2, <2>1 DEF Local, Seen
      <2>10. Written(r)' BY <1>1, <1>2, <2>1 DEF Local, Written
      <2>11. Reported(r)' BY <1>1, <1>2, <1>5, <2>1 DEF Local, Reported, Approved
      <2>12. Local(r)' BY <2>6, <2>7, <2>8, <2>9, <2>10, <2>11 DEF Local
      <2>13. QED BY <1>1, <2>3, <2>4, <2>5, <2>12, RunStep
<1>6. QED BY <1>4, <1>5 DEF Verify

(* The broker's checks of the live base.                                   *)
LEMMA LiveBaseKeeps ==
    ASSUME IInv, NEW r \in Runs,
           \/ LiveBase(r, "broker_base", "consume") \/ LiveBase(r, "mint_base", "mint_grant")
           \/ LiveBase(r, "minted_base", "minted_grant")
    PROVE  IInv'
<1>1. /\ pc[r] \in {"broker_base", "mint_base", "minted_base"}
      /\ UNCHANGED <<worldVars, ledger, localVars>>
      BY DEF LiveBase
<1>2. CASE Fail(r) BY <1>1, <1>2, FailKeeps
<1>3. CASE /\ UNCHANGED outcome
           /\ \/ pc[r] = "broker_base" /\ Goto(r, "consume")
              \/ pc[r] = "mint_base" /\ Goto(r, "mint_grant")
              \/ pc[r] = "minted_base" /\ Goto(r, "minted_grant")
      BY <1>1, <1>3, AdvanceKeeps
<1>4. QED BY <1>2, <1>3 DEF LiveBase, Check

(* The broker's checks of the consumed grant.                              *)
LEMMA GrantCheckKeeps ==
    ASSUME IInv, NEW r \in Runs,
           \/ ConsumedGrantStillCurrent(r, "mint_grant", "mint")
           \/ ConsumedGrantStillCurrent(r, "minted_grant", "final_base")
    PROVE  IInv'
<1>1. /\ pc[r] \in {"mint_grant", "minted_grant"} /\ UNCHANGED <<worldVars, ledger, localVars>>
      BY DEF ConsumedGrantStillCurrent
<1>2. CASE Fail(r) BY <1>1, <1>2, FailKeeps
<1>3. CASE /\ UNCHANGED outcome /\ Current(request[r])
           /\ \/ pc[r] = "mint_grant" /\ Goto(r, "mint")
              \/ pc[r] = "minted_grant" /\ Goto(r, "final_base")
      BY <1>1, <1>3, AdvanceKeeps
<1>4. QED BY <1>2, <1>3 DEF ConsumedGrantStillCurrent, Check

(* The last inspection is compared with the reviewed one.                  *)
LEMMA ConfirmKeeps ==
    ASSUME IInv, NEW r \in Runs, Confirm(r)
    PROVE  IInv'
<1>1. pc[r] = "confirm" /\ UNCHANGED <<worldVars, ledger, localVars>> BY DEF Confirm
<1>2. CASE Fail(r) BY <1>1, <1>2, FailKeeps
<1>3. CASE /\ UNCHANGED outcome /\ found[r] = reviewed[r]
           /\ Goto(r, IF found[r].head = None THEN "push" ELSE "pull")
      BY <1>1, <1>3, AdvanceKeeps
<1>4. QED BY <1>2, <1>3 DEF Confirm, Check

(* A call fails in any step that makes one.                                *)
LEMMA CallFailsKeeps ==
    ASSUME IInv, NEW r \in Runs, CallFails(r)
    PROVE  IInv'
BY FailKeeps DEF CallFails

(* A process may die anywhere.                                             *)
LEMMA CrashKeeps ==
    ASSUME IInv, NEW r \in Runs, Crash(r)
    PROVE  IInv'
BY AdvanceKeeps DEF Crash

(* The only step that makes a holder: the ledger had no request of the     *)
(* same authorization, and every holder's request is in the ledger.        *)
LEMMA ConsumeKeeps ==
    ASSUME IInv, NEW r \in Runs, Consume(r)
    PROVE  IInv'
<1> DEFINE q == request[r]
<1>1. /\ pc[r] = "consume"
      /\ UNCHANGED <<now, revoked, base, refs, pulls, opened, outside, request, found, reviewed,
                     grant, token, row, done, lapsed, unbooked>>
      BY DEF Consume, worldVars, localVars
<1>2. Local(r) /\ pc[r] # "idle" BY <1>1 DEF IInv
<1>3. q \in Requests BY <1>2, HeadTypes DEF IInv
<1>4. CASE Fail(r) /\ UNCHANGED ledger
      BY <1>1, <1>4, FailKeeps DEF worldVars, localVars
<1>5. CASE ledger' = ledger \cup {q} /\ Fail(r)
      <2>1. /\ outcome' \in [Runs -> Row] /\ pc' \in [Runs -> Steps]
            /\ \A t \in Runs : pc'[t] = "idle" <=> request'[t] = None
            /\ pc'[r] = "cleanup" /\ outcome'[r].status = "failed"
            /\ \A t \in Runs \ {r} : pc'[t] = pc[t] /\ outcome'[t] = outcome[t]
            BY <1>1, <1>2, <1>5, FailTypes DEF IInv
      <2>2. TypeOK' BY <1>1, <1>3, <1>5, <2>1 DEF IInv, TypeOK
      <2>3. OnlyOf(r) BY <1>1, <2>1 DEF OnlyOf
      <2>4. found[r].head = None => found[r].pull = 0 BY <1>2 DEF Local, Seen
      <2>5. Local(r)' /\ (Holder(r)' => Holder(r)) BY <1>1, <1>5, <2>1, <2>4, FailLocal
      <2>6. QED BY <1>1, <1>5, <2>2, <2>3, <2>5, RunStep
<1>6. CASE /\ \A c \in ledger : ~Same(c, q)
           /\ ledger' = ledger \cup {q} /\ Goto(r, "mark") /\ UNCHANGED outcome
      <2>1. /\ pc' \in [Runs -> Steps] /\ pc'[r] = "mark"
            /\ \A t \in Runs : pc'[t] = "idle" <=> request'[t] = None
            /\ \A t \in Runs \ {r} : pc'[t] = pc[t]
            BY <1>1, <1>6 DEF IInv, TypeOK, Goto
      <2>2. TypeOK' BY <1>1, <1>3, <1>6, <2>1 DEF IInv, TypeOK
      <2>3. ASSUME NEW t \in Runs, t # r
            PROVE  Local(t)' /\ (Holder(t)' <=> Holder(t))
            <3>1. pc'[t] = pc[t] BY <2>1, <2>3
            <3>2. Local(t) BY DEF IInv
            <3>3. QED BY <1>1, <1>6, <3>1, <3>2, Frame
      <2>4. Held(r)' /\ Granted(r)'
            BY <1>1, <1>2, <1>6, <2>1 DEF Local, Held, Granted, Marked, Fresh
      <2>5. Stopped(r)' BY <1>1, <1>2, <2>1 DEF Local, Stopped, Current
      <2>6. Vetted(r)' BY <1>1, <1>2, <2>1 DEF Local, Vetted, Verified
      <2>7. Seen(r)' BY <1>1, <1>2, <2>1 DEF Local, Seen
      <2>8. Written(r)' BY <1>1, <1>2, <2>1 DEF Local, Written
      <2>9. Reported(r)' BY <1>1, <1>2, <1>6, <2>1 DEF Local, Reported, Approved
      <2>10. Local(r)' BY <2>4, <2>5, <2>6, <2>7, <2>8, <2>9 DEF Local
      <2>11. ASSUME NEW t \in Runs, t # r, Holder(t)'
             PROVE  ~Same(request[t], q) /\ ~Same(q, request[t])
             <3>1. request[t] \in ledger BY <2>3, <2>11 DEF IInv, Local, Held
             <3>2. QED BY <1>6, <3>1 DEF Same
      <2>12. Exclusive'
             <3>1. SUFFICES ASSUME NEW t \in Runs, NEW u \in Runs, Holder(t)', Holder(u)',
                                   Same(request[t], request[u])
                            PROVE  t = u
                   BY <1>1 DEF Exclusive
             <3>2. CASE t = r \/ u = r BY <2>11, <3>1, <3>2
             <3>3. CASE t # r /\ u # r BY <2>3, <3>1, <3>3 DEF IInv, Exclusive
             <3>4. QED BY <3>2, <3>3
      <2>13. QED BY <2>2, <2>3, <2>10, <2>12 DEF IInv
<1>7. QED BY <1>4, <1>5, <1>6 DEF Consume

(* The holder stays the holder, by its grant instead of its step.          *)
LEMMA MarkKeeps ==
    ASSUME IInv, NEW r \in Runs, Mark(r)
    PROVE  IInv'
<1>1. /\ pc[r] = "mark"
      /\ UNCHANGED <<now, revoked, base, refs, pulls, opened, outside, ledger, request, found,
                     reviewed, token, row, done, lapsed, unbooked>>
      BY DEF Mark, worldVars
<1>2. Local(r) /\ pc[r] # "idle" /\ Holder(r) BY <1>1 DEF IInv, Holder
<1>3. CASE ~Current(request[r])
      <2>1. grant' = grant BY <1>3 DEF Mark, IInv, TypeOK
      <2>2. Fail(r) BY <1>3 DEF Mark, Check
      <2>3. QED BY <1>1, <2>1, <2>2, FailKeeps DEF worldVars, localVars
<1>4. CASE Current(request[r])
      <2>1. Goto(r, "mint_base") /\ UNCHANGED outcome BY <1>4 DEF Mark, Check
      <2>2. /\ grant' = [grant EXCEPT ![r] = "consumed"] /\ grant'[r] = "consumed"
            /\ grant' \in [Runs -> {"none", "verified", "consumed"}]
            BY <1>4 DEF Mark, IInv, TypeOK
      <2>3. /\ pc' \in [Runs -> Steps] /\ pc'[r] = "mint_base"
            /\ \A t \in Runs : pc'[t] = "idle" <=> request'[t] = None
            BY <1>1, <2>1 DEF IInv, TypeOK, Goto
      <2>4. TypeOK' BY <1>1, <2>1, <2>2, <2>3 DEF IInv, TypeOK
      <2>5. OnlyOf(r) BY <1>1, <2>1, <2>2 DEF OnlyOf, Goto, IInv, TypeOK
      <2>6. Held(r)' /\ Granted(r)' BY <1>1, <1>2, <2>2, <2>3 DEF Local, Held, Granted, Fresh
      <2>7. Stopped(r)' BY <1>1, <1>2, <2>3 DEF Local, Stopped, Current
      <2>8. Vetted(r)' BY <1>1, <1>2, <2>3 DEF Local, Vetted, Verified
      <2>9. Seen(r)' BY <1>1, <1>2, <2>3 DEF Local, Seen
      <2>10. Written(r)' BY <1>1, <1>2, <2>3 DEF Local, Written
      <2>11. Reported(r)' BY <1>1, <1>2, <2>1, <2>3 DEF Local, Reported, Approved
      <2>12. Local(r)' BY <2>6, <2>7, <2>8, <2>9, <2>10, <2>11 DEF Local
      <2>13. QED BY <1>1, <1>2, <2>4, <2>5, <2>12, RunStep
<1>5. QED BY <1>3, <1>4

(* A token is minted for a consumed grant only.                            *)
LEMMA MintKeeps ==
    ASSUME IInv, NEW r \in Runs, Mint(r)
    PROVE  IInv'
<1>1. /\ pc[r] = "mint"
      /\ UNCHANGED <<now, revoked, base, refs, pulls, opened, outside, ledger, request, found,
                     reviewed, grant, row, done, lapsed, unbooked>>
      BY DEF Mint, worldVars
<1>2. Local(r) /\ pc[r] # "idle" BY <1>1 DEF IInv
<1>3. grant[r] = "consumed" BY <1>1, <1>2 DEF Local, Granted, Marked
<1>4. CASE token' = [token EXCEPT ![r] = "live"] /\ Goto(r, "minted_base") /\ UNCHANGED outcome
      <2>1. token' \in [Runs -> {"none", "live", "lost", "revoked"}]
            BY <1>4 DEF IInv, TypeOK
      <2>2. /\ pc' \in [Runs -> Steps] /\ pc'[r] = "minted_base"
            /\ \A t \in Runs : pc'[t] = "idle" <=> request'[t] = None
            BY <1>1, <1>4 DEF IInv, TypeOK, Goto
      <2>3. TypeOK' BY <1>1, <1>4, <2>1, <2>2 DEF IInv, TypeOK
      <2>4. OnlyOf(r) BY <1>1, <1>4 DEF OnlyOf, Goto, IInv, TypeOK
      <2>5. Holder(r) BY <1>3 DEF Holder
      <2>6. Held(r)' /\ Granted(r)'
            BY <1>1, <1>2, <1>3, <2>2, <2>5 DEF Local, Held, Granted, Fresh
      <2>7. Stopped(r)' BY <1>1, <1>2, <2>2 DEF Local, Stopped, Current
      <2>8. Vetted(r)' BY <1>1, <1>2, <2>2 DEF Local, Vetted, Verified, Marked
      <2>9. Seen(r)' BY <1>1, <1>2, <2>2 DEF Local, Seen
      <2>10. Written(r)' BY <1>1, <1>2, <2>2 DEF Local, Written
      <2>11. Reported(r)' BY <1>1, <1>2, <1>4, <2>2 DEF Local, Reported, Approved
      <2>12. Local(r)' BY <2>6, <2>7, <2>8, <2>9, <2>10, <2>11 DEF Local
      <2>13. QED BY <1>1, <2>3, <2>4, <2>5, <2>12, RunStep
<1>5. CASE token' = [token EXCEPT ![r] = "lost"] /\ Fail(r)
      <2>1. token' \in [Runs -> {"none", "live", "lost", "revoked"}]
            BY <1>5 DEF IInv, TypeOK
      <2>2. /\ outcome' \in [Runs -> Row] /\ pc' \in [Runs -> Steps]
            /\ \A t \in Runs : pc'[t] = "idle" <=> request'[t] = None
            /\ pc'[r] = "cleanup" /\ outcome'[r].status = "failed"
            /\ \A t \in Runs \ {r} : pc'[t] = pc[t] /\ outcome'[t] = outcome[t]
            BY <1>1, <1>2, <1>5, FailTypes DEF IInv
      <2>3. TypeOK' BY <1>1, <2>1, <2>2 DEF IInv, TypeOK
      <2>4. OnlyOf(r) BY <1>1, <1>5, <2>2 DEF OnlyOf, IInv, TypeOK
      <2>5. found[r].head = None => found[r].pull = 0 BY <1>2 DEF Local, Seen
      <2>6. Local(r)' /\ (Holder(r)' => Holder(r)) BY <1>1, <1>3, <2>2, <2>5, FailLocal
      <2>7. QED BY <1>1, <2>3, <2>4, <2>6, RunStep
<1>6. QED BY <1>4, <1>5 DEF Mint

(* The branch is the first write, and an armed run has not lapsed.         *)
LEMMA PushKeeps ==
    ASSUME IInv, NEW r \in Runs, Push(r)
    PROVE  IInv'
<1>1. /\ pc[r] = "push"
      /\ UNCHANGED <<now, revoked, base, pulls, opened, outside, ledger, request, found, reviewed,
                     grant, token, row, lapsed, unbooked>>
      BY DEF Push
<1>2. Local(r) /\ pc[r] # "idle" BY <1>1 DEF IInv
<1>3. /\ grant[r] = "consumed" /\ done[r] = {} /\ r \notin lapsed /\ found[r].head = None
      /\ found[r].pull = 0
      BY <1>1, <1>2 DEF Local, Granted, Marked, Written, Stopped, Seen
<1>4. CASE Fail(r) /\ UNCHANGED <<refs, done>>
      BY <1>1, <1>4, FailKeeps DEF worldVars, localVars
<1>5. ASSUME refs' = [refs EXCEPT ![request[r].base] = OwnCommit(r)],
             done' = [done EXCEPT ![r] = @ \cup {"create_branch"}]
      PROVE  /\ refs' \in [Bases -> Commit \cup {None}] /\ done' \in [Runs -> SUBSET Acts]
             /\ done'[r] = {"create_branch"} /\ \A t \in Runs \ {r} : done'[t] = done[t]
      <2>1. OwnCommit(r) \in Commit /\ request[r].base \in Bases BY <1>2, HeadTypes DEF IInv
      <2>2. refs' \in [Bases -> Commit \cup {None}] BY <1>5, <2>1 DEF IInv, TypeOK
      <2>3. done'[r] = {"create_branch"} BY <1>3, <1>5 DEF IInv, TypeOK
      <2>4. {"create_branch"} \in SUBSET Acts BY DEF Acts
      <2>5. done' \in [Runs -> SUBSET Acts] BY <1>5, <2>3, <2>4 DEF IInv, TypeOK
      <2>6. QED BY <1>5, <2>2, <2>3, <2>5 DEF IInv, TypeOK
<1>6. CASE /\ refs' = [refs EXCEPT ![request[r].base] = OwnCommit(r)]
           /\ done' = [done EXCEPT ![r] = @ \cup {"create_branch"}]
           /\ Fail(r)
      <2>1. /\ outcome' \in [Runs -> Row] /\ pc' \in [Runs -> Steps]
            /\ \A t \in Runs : pc'[t] = "idle" <=> request'[t] = None
            /\ pc'[r] = "cleanup" /\ outcome'[r].status = "failed"
            /\ \A t \in Runs \ {r} : pc'[t] = pc[t] /\ outcome'[t] = outcome[t]
            BY <1>1, <1>2, <1>6, FailTypes DEF IInv
      <2>2. TypeOK' BY <1>1, <1>5, <1>6, <2>1 DEF IInv, TypeOK
      <2>3. OnlyOf(r) BY <1>1, <1>5, <1>6, <2>1 DEF OnlyOf
      <2>4. Local(r)' /\ (Holder(r)' => Holder(r))
            BY <1>1, <1>3, <1>5, <1>6, <2>1, FailLocal
      <2>5. QED BY <1>1, <2>2, <2>3, <2>4, RunStep
<1>7. CASE /\ refs' = [refs EXCEPT ![request[r].base] = OwnCommit(r)]
           /\ done' = [done EXCEPT ![r] = @ \cup {"create_branch"}]
           /\ Goto(r, "pull") /\ UNCHANGED outcome
      <2>1. /\ pc' \in [Runs -> Steps] /\ pc'[r] = "pull"
            /\ \A t \in Runs : pc'[t] = "idle" <=> request'[t] = None
            /\ \A t \in Runs \ {r} : pc'[t] = pc[t]
            BY <1>1, <1>7 DEF IInv, TypeOK, Goto
      <2>2. done'[r] = {"create_branch"} BY <1>5, <1>7
      <2>3. TypeOK' BY <1>1, <1>5, <1>7, <2>1 DEF IInv, TypeOK
      <2>4. OnlyOf(r) BY <1>1, <1>5, <1>7, <2>1 DEF OnlyOf
      <2>5. Holder(r) BY <1>3 DEF Holder
      <2>6. Held(r)' /\ Granted(r)'
            BY <1>1, <1>2, <1>3, <2>1, <2>5 DEF Local, Held, Granted, Fresh
      <2>7. Stopped(r)' BY <1>1, <1>3 DEF Stopped
      <2>8. Vetted(r)' BY <1>1, <1>2, <2>1 DEF Local, Vetted, Verified, Marked
      <2>9. Seen(r)' BY <1>1, <1>2, <2>1 DEF Local, Seen
      <2>10. Written(r)' BY <1>1, <1>3, <2>1, <2>2 DEF Written
      <2>11. Reported(r)' BY <1>1, <1>2, <1>7, <2>1 DEF Local, Reported, Approved
      <2>12. Local(r)' BY <2>6, <2>7, <2>8, <2>9, <2>10, <2>11 DEF Local
      <2>13. QED BY <1>1, <2>3, <2>4, <2>5, <2>12, RunStep
<1>8. QED BY <1>4, <1>6, <1>7 DEF Push

(* However the reconciliation ends, the head is part of the outcome, and   *)
(* it is the head the owner approved.                                      *)
LEMMA PullLeaves ==
    ASSUME IInv, NEW r \in Runs, pc[r] = "pull", NEW status \in {"failed", "pr_opened"},
           NEW pull \in 0 .. MaxPulls, status = "pr_opened" => pull # 0,
           Leave(r, status, ExpectedHead(r), pull),
           done' \in [Runs -> SUBSET Acts], \A t \in Runs \ {r} : done'[t] = done[t],
           pulls' \in [Bases -> 0 .. MaxPulls], opened' \in 0 .. MaxPulls,
           UNCHANGED <<now, revoked, base, refs, outside, ledger, request, found, reviewed, grant,
                       token, row, lapsed, unbooked>>
    PROVE  IInv'
<1>1. Local(r) /\ pc[r] # "idle" BY DEF IInv
<1>2. ExpectedHead(r) \in Commit /\ ExpectedHead(r) # None BY <1>1, HeadTypes DEF IInv
<1>3. grant[r] = "consumed" /\ r \notin lapsed
      BY <1>1 DEF Local, Granted, Marked, Stopped
<1>4. Holder(r) /\ request[r] \in ledger BY <1>1, <1>3 DEF Local, Held, Holder
<1>5. status \in {"failed", "blocked", "no_changes", "pr_opened"} OBVIOUS
<1>6. ExpectedHead(r) \in Commit \cup {None} BY <1>2
<1>7. /\ outcome' \in [Runs -> Row] /\ pc' \in [Runs -> Steps]
      /\ \A t \in Runs : pc'[t] = "idle" <=> request'[t] = None
      /\ pc'[r] = "cleanup" /\ outcome'[r] = RowOf(status, ExpectedHead(r), pull)
      /\ \A t \in Runs \ {r} : pc'[t] = pc[t] /\ outcome'[t] = outcome[t]
      BY <1>1, <1>5, <1>6, LeaveTypes DEF IInv
<1>8. TypeOK' BY <1>7 DEF IInv, TypeOK
<1>9. OnlyOf(r) BY <1>7 DEF OnlyOf
<1>10. ExpectedHead(r).tree = request[r].base /\ ExpectedHead(r).parent = request[r].base
       BY <1>1 DEF Local, Seen, ExpectedHead, OwnCommit, MatchesArtifact
<1>11. /\ outcome'[r].status = status /\ outcome'[r].head = ExpectedHead(r)
       /\ outcome'[r].pull = pull
       BY <1>7 DEF RowOf
<1>12. Held(r)' BY <1>4 DEF Held
<1>13. Granted(r)' BY <1>3, <1>7 DEF Granted, Fresh
<1>14. Stopped(r)' BY <1>3 DEF Stopped
<1>15. Vetted(r)' BY <1>7 DEF Vetted, Verified, Marked
<1>16. Seen(r)' BY <1>1, <1>7 DEF Local, Seen
<1>17. Written(r)' BY <1>7 DEF Written
<1>18. Reported(r)' BY <1>1, <1>4, <1>7, <1>10, <1>11 DEF Local, Reported, Approved
<1>19. Local(r)' BY <1>12, <1>13, <1>14, <1>15, <1>16, <1>17, <1>18 DEF Local
<1>20. QED BY <1>4, <1>8, <1>9, <1>19, RunStep

(* The reconciliation of an existing pull request.                         *)
LEMMA UpdatePullKeeps ==
    ASSUME IInv, NEW r \in Runs, UpdatePull(r)
    PROVE  IInv'
<1>1. /\ pc[r] = "pull" /\ found[r].pull # 0
      /\ UNCHANGED <<now, revoked, base, refs, pulls, opened, outside, ledger, request, found,
                     reviewed, grant, token, row, lapsed, unbooked>>
      BY DEF UpdatePull, worldVars
<1>2. done' \in [Runs -> SUBSET Acts] /\ \A t \in Runs \ {r} : done'[t] = done[t]
      BY DEF UpdatePull, Acts, IInv, TypeOK
<1>3. found[r].pull \in 0 .. MaxPulls /\ 0 \in 0 .. MaxPulls
      BY PublicationAssumption DEF IInv, TypeOK, Remote
<1>4. pulls' \in [Bases -> 0 .. MaxPulls] /\ opened' \in 0 .. MaxPulls
      BY <1>1 DEF IInv, TypeOK
<1>5. CASE Leave(r, "pr_opened", ExpectedHead(r), found[r].pull)
      BY <1>1, <1>2, <1>3, <1>4, <1>5, PullLeaves
<1>6. CASE Leave(r, "failed", ExpectedHead(r), 0)
      BY <1>1, <1>2, <1>3, <1>4, <1>6, PullLeaves
<1>7. QED BY <1>5, <1>6 DEF UpdatePull

(* The reconciliation that opens a pull request.                           *)
LEMMA CreatePullKeeps ==
    ASSUME IInv, NEW r \in Runs, CreatePull(r)
    PROVE  IInv'
<1> DEFINE n == opened + 1
<1>1. /\ pc[r] = "pull"
      /\ UNCHANGED <<now, revoked, base, refs, outside, ledger, request, found, reviewed, grant,
                     token, row, lapsed, unbooked>>
      BY DEF CreatePull
<1>2. done' \in [Runs -> SUBSET Acts] /\ \A t \in Runs \ {r} : done'[t] = done[t]
      BY DEF CreatePull, Acts, IInv, TypeOK
<1>3. 0 \in 0 .. MaxPulls BY PublicationAssumption
<1>4. CASE Leave(r, "failed", ExpectedHead(r), 0) /\ UNCHANGED <<pulls, opened, done>>
      <2>1. pulls' \in [Bases -> 0 .. MaxPulls] /\ opened' \in 0 .. MaxPulls
            BY <1>4 DEF IInv, TypeOK
      <2>2. QED BY <1>1, <1>2, <1>3, <1>4, <2>1, PullLeaves
<1>5. CASE /\ opened < MaxPulls /\ pulls' = [pulls EXCEPT ![request[r].base] = n]
           /\ opened' = n
           /\ \/ Leave(r, "pr_opened", ExpectedHead(r), n)
              \/ Leave(r, "failed", ExpectedHead(r), n)
              \/ Leave(r, "failed", ExpectedHead(r), 0)
      <2>1. n \in 0 .. MaxPulls /\ n # 0 BY <1>5, PublicationAssumption DEF IInv, TypeOK
      <2>2. pulls' \in [Bases -> 0 .. MaxPulls] /\ opened' \in 0 .. MaxPulls
            BY <1>5, <2>1 DEF IInv, TypeOK
      <2>3. CASE Leave(r, "pr_opened", ExpectedHead(r), n)
            BY <1>1, <1>2, <2>1, <2>2, <2>3, PullLeaves
      <2>4. CASE Leave(r, "failed", ExpectedHead(r), n)
            BY <1>1, <1>2, <2>1, <2>2, <2>4, PullLeaves
      <2>5. CASE Leave(r, "failed", ExpectedHead(r), 0)
            BY <1>1, <1>2, <1>3, <2>2, <2>5, PullLeaves
      <2>6. QED BY <1>5, <2>3, <2>4, <2>5
<1>6. QED BY <1>4, <1>5 DEF CreatePull

(* Revoking the token changes nothing that holders rely on.                *)
LEMMA CleanupKeeps ==
    ASSUME IInv, NEW r \in Runs, Cleanup(r)
    PROVE  IInv'
<1> DEFINE step == IF outcome[r].status = "failed" THEN "persist" ELSE "record"
<1>1. /\ pc[r] = "cleanup" /\ pc' = [pc EXCEPT ![r] = step]
      /\ UNCHANGED <<now, revoked, base, refs, pulls, opened, outside, ledger, request, found,
                     reviewed, grant, outcome, row, done, lapsed, unbooked>>
      BY DEF Cleanup, Goto, worldVars
<1>2. Local(r) BY DEF IInv
<1>3. /\ token' \in [Runs -> {"none", "live", "lost", "revoked"}]
      /\ token'[r] # "none" => token[r] # "none"
      /\ \A t \in Runs \ {r} : token'[t] = token[t]
      <2>1. CASE UNCHANGED token BY <2>1 DEF IInv, TypeOK
      <2>2. CASE token' = [token EXCEPT ![r] = IF @ = "live" THEN "revoked" ELSE @]
            BY <2>2 DEF IInv, TypeOK
      <2>3. QED BY <2>1, <2>2 DEF Cleanup
<1>4. pc'[r] \in {"record", "persist"} /\ pc' \in [Runs -> Steps] BY <1>1 DEF IInv, TypeOK
<1>5. TypeOK' BY <1>1, <1>3, <1>4 DEF IInv, TypeOK
<1>6. OnlyOf(r) BY <1>1, <1>3 DEF OnlyOf, IInv, TypeOK
<1>7. Holder(r)' => Holder(r) BY <1>1, <1>4 DEF Holder
<1>8. Held(r)' /\ Granted(r)'
      BY <1>1, <1>2, <1>3, <1>4, <1>7 DEF Local, Held, Granted, Marked, Fresh
<1>9. Stopped(r)' BY <1>1, <1>2, <1>4 DEF Local, Stopped
<1>10. Vetted(r)' BY <1>4 DEF Vetted, Verified, Marked
<1>11. Seen(r)' BY <1>1, <1>2, <1>4 DEF Local, Seen
<1>12. Written(r)' BY <1>1, <1>2, <1>4 DEF Local, Written
<1>13. Reported(r)' BY <1>1, <1>2, <1>4 DEF Local, Reported, Approved
<1>14. Local(r)' BY <1>8, <1>9, <1>10, <1>11, <1>12, <1>13 DEF Local
<1>15. QED BY <1>1, <1>5, <1>6, <1>7, <1>14, RunStep

(* The run and its row, whether or not the call that stores the row throws.*)
LEMMA BookKeeps ==
    ASSUME IInv, NEW r \in Runs, pc[r] \in {"record", "persist"},
           NEW step \in {"persist", "ended", "rejected"}, pc' = [pc EXCEPT ![r] = step],
           NEW new \in Row, Approved(r, new),
           row' \in {row, [row EXCEPT ![r] = new]},
           NEW left \in Row, left = outcome[r] \/ left.status = "failed",
           outcome' = [outcome EXCEPT ![r] = left],
           unbooked' \in {unbooked, unbooked \cup {r}},
           UNCHANGED <<now, revoked, base, refs, pulls, opened, outside, ledger, request, found,
                       reviewed, grant, token, done, lapsed>>
    PROVE  IInv'
<1>1. Local(r) BY DEF IInv
<1>2. /\ row' \in [Runs -> Row] /\ row'[r] \in {row[r], new}
      /\ \A t \in Runs \ {r} : row'[t] = row[t]
      BY DEF IInv, TypeOK
<1>3. /\ outcome' \in [Runs -> Row] /\ outcome'[r] = left
      /\ \A t \in Runs \ {r} : outcome'[t] = outcome[t]
      BY DEF IInv, TypeOK
<1>4. pc'[r] = step /\ pc' \in [Runs -> Steps] BY DEF IInv, TypeOK
<1>5. unbooked' \subseteq Runs BY DEF IInv, TypeOK
<1>6. TypeOK' BY <1>2, <1>3, <1>4, <1>5 DEF IInv, TypeOK
<1>7. OnlyOf(r) BY <1>2, <1>3 DEF OnlyOf, IInv, TypeOK
<1>8. Holder(r)' => Holder(r) BY <1>4 DEF Holder
<1>9. Held(r)' /\ Granted(r)' BY <1>1, <1>4, <1>8 DEF Local, Held, Granted, Marked, Fresh
<1>10. Stopped(r)' BY <1>1, <1>4 DEF Local, Stopped
<1>11. Vetted(r)' BY <1>4 DEF Vetted, Verified, Marked
<1>12. Seen(r)' BY <1>1, <1>4 DEF Local, Seen
<1>13. Written(r)' BY <1>4 DEF Written
<1>14. Reported(r)' BY <1>1, <1>2, <1>3, <1>4 DEF Local, Reported, Approved
<1>15. Local(r)' BY <1>9, <1>10, <1>11, <1>12, <1>13, <1>14 DEF Local
<1>16. QED BY <1>6, <1>7, <1>8, <1>15, RunStep

(* The row becomes the outcome, or the error of the call the outcome.      *)
LEMMA RecordKeeps ==
    ASSUME IInv, NEW r \in Runs, Record(r)
    PROVE  IInv'
<1> DEFINE error == RowOf("failed", None, 0)
<1>1. /\ pc[r] = "record"
      /\ UNCHANGED <<now, revoked, base, refs, pulls, opened, outside, ledger, request, found,
                     reviewed, grant, token, done, lapsed>>
      BY DEF Record, worldVars
<1>2. outcome[r] \in Row /\ Approved(r, outcome[r]) BY DEF IInv, TypeOK, Local, Reported
<1>3. error \in Row /\ error.status = "failed" BY PublicationAssumption DEF RowOf, Row
<1>4. CASE Stored(r, outcome[r], "ended") /\ UNCHANGED outcome
      <2>1. /\ pc' = [pc EXCEPT ![r] = "ended"] /\ row' = [row EXCEPT ![r] = outcome[r]]
            /\ UNCHANGED unbooked
            BY <1>4 DEF Stored, Goto
      <2>2. outcome' = [outcome EXCEPT ![r] = outcome[r]] BY <1>4 DEF IInv, TypeOK
      <2>3. QED BY <1>1, <1>2, <2>1, <2>2, BookKeeps
<1>5. CASE Thrown(r, outcome[r], "persist") /\ outcome' = [outcome EXCEPT ![r] = error]
      <2>1. /\ pc' = [pc EXCEPT ![r] = "persist"] /\ unbooked' = unbooked \cup {r}
            /\ row' \in {row, [row EXCEPT ![r] = outcome[r]]}
            BY <1>5 DEF Thrown, Goto
      <2>2. QED BY <1>1, <1>2, <1>3, <1>5, <2>1, BookKeeps
<1>6. QED BY <1>4, <1>5 DEF Record

(* What is written of a failure never claims a pull request of its own.    *)
LEMMA PersistKeeps ==
    ASSUME IInv, NEW r \in Runs, Persist(r)
    PROVE  IInv'
<1>1. /\ pc[r] = "persist"
      /\ UNCHANGED <<now, revoked, base, refs, pulls, opened, outside, ledger, request, found,
                     reviewed, grant, token, outcome, done, lapsed>>
      BY DEF Persist, worldVars
<1>2. /\ outcome[r] \in Row /\ Approved(r, outcome[r]) /\ row[r] \in Row
      /\ outcome' = [outcome EXCEPT ![r] = outcome[r]]
      BY <1>1 DEF IInv, TypeOK, Local, Reported
<1>3. Patch(r) \in Row /\ Approved(r, Patch(r))
      <2>1. CASE outcome[r].head = None
            <3>1. Patch(r) = [row[r] EXCEPT !.status = "failed"] BY <2>1 DEF Patch
            <3>2. Patch(r) \in Row /\ Patch(r).status = "failed" BY <1>2, <3>1 DEF Row
            <3>3. QED BY <3>2 DEF Approved
      <2>2. CASE outcome[r].head # None BY <1>2, <2>2 DEF Patch
      <2>3. QED BY <2>1, <2>2
<1>4. CASE Stored(r, Patch(r), "ended")
      <2>1. /\ pc' = [pc EXCEPT ![r] = "ended"] /\ row' = [row EXCEPT ![r] = Patch(r)]
            /\ UNCHANGED unbooked
            BY <1>4 DEF Stored, Goto
      <2>2. QED BY <1>1, <1>2, <1>3, <2>1, BookKeeps
<1>5. CASE Thrown(r, Patch(r), "rejected")
      <2>1. /\ pc' = [pc EXCEPT ![r] = "rejected"] /\ unbooked' = unbooked \cup {r}
            /\ row' \in {row, [row EXCEPT ![r] = Patch(r)]}
            BY <1>5 DEF Thrown, Goto
      <2>2. QED BY <1>1, <1>2, <1>3, <2>1, BookKeeps
<1>6. QED BY <1>4, <1>5 DEF Persist

(* Steps of others change no run; only whether an authorization is still   *)
(* current has to be looked at.                                            *)
LEMMA OthersStep ==
    ASSUME IInv, TypeOK', UNCHANGED <<ledger, pc, request, found, reviewed, grant, token, outcome,
                                      row, done>>,
           \A r \in Runs : Stopped(r)'
    PROVE  IInv'
<1>1. ASSUME NEW r \in Runs PROVE Local(r)'
      <2>1. Local(r) BY DEF IInv
      <2>2. Held(r)' BY <2>1 DEF Local, Held, Holder
      <2>3. Granted(r)' BY <2>1 DEF Local, Granted
      <2>4. Vetted(r)' BY <2>1 DEF Local, Vetted
      <2>5. Seen(r)' BY <2>1 DEF Local, Seen
      <2>6. Written(r)' BY <2>1 DEF Local, Written
      <2>7. Reported(r)' BY <2>1 DEF Local, Reported, Approved
      <2>8. QED BY <2>2, <2>3, <2>4, <2>5, <2>6, <2>7 DEF Local
<1>2. Exclusive' BY DEF IInv, Exclusive, Holder
<1>3. QED BY <1>1, <1>2 DEF IInv

(* Time only ends authorizations, and those that it ends are marked.       *)
LEMMA TickKeeps ==
    ASSUME IInv, Tick
    PROVE  IInv'
<1>1. /\ now < MaxTime /\ now' = now + 1
      /\ lapsed' = lapsed \cup {r \in Runs : pc[r] \in Unarmed /\ request[r].expiresAt <= now + 1}
      /\ UNCHANGED <<revoked, base, refs, pulls, opened, outside, ledger, pc, request, found,
                     reviewed, grant, token, outcome, row, done, unbooked>>
      BY DEF Tick, Lapse, githubVars, runVars
<1>2. now \in Nat /\ now' \in 0 .. MaxTime BY <1>1, PublicationAssumption DEF IInv, TypeOK
<1>3. lapsed' \subseteq Runs BY <1>1 DEF IInv, TypeOK
<1>4. TypeOK' BY <1>1, <1>2, <1>3 DEF IInv, TypeOK
<1>5. ASSUME NEW r \in Runs PROVE Stopped(r)'
      <2>1. Local(r) BY DEF IInv
      <2>2. CASE r \notin lapsed' BY <2>2 DEF Stopped
      <2>3. CASE pc[r] \in Unarmed /\ request[r].expiresAt <= now + 1
            <3>1. request[r].expiresAt \in Nat
                  BY <2>3, HeadTypes, PublicationAssumption DEF IInv
            <3>2. ~Current(request[r])' BY <1>1, <1>2, <2>3, <3>1 DEF Current
            <3>3. done[r] = {} BY <2>1, <2>3 DEF Local, Written
            <3>4. QED BY <1>1, <2>3, <3>2, <3>3 DEF Stopped
      <2>4. CASE r \in lapsed
            <3>1. ASSUME pc[r] \in Unarmed PROVE ~Current(request[r])'
                  <4>1. ~Current(request[r]) BY <2>1, <2>4, <3>1 DEF Local, Stopped
                  <4>2. request[r].expiresAt \in Nat
                        BY <3>1, HeadTypes, PublicationAssumption DEF IInv
                  <4>3. QED BY <1>1, <1>2, <4>1, <4>2 DEF Current
            <3>2. QED BY <1>1, <2>1, <2>4, <3>1 DEF Local, Stopped
      <2>5. QED BY <1>1, <2>2, <2>3, <2>4
<1>6. QED BY <1>1, <1>4, <1>5, OthersStep

(* So does a revocation.                                                   *)
LEMMA RevokeKeeps ==
    ASSUME IInv, NEW a \in Authorizations, Revoke(a)
    PROVE  IInv'
<1>1. /\ revoked' = revoked \cup {a}
      /\ lapsed' = lapsed \cup {r \in Runs : pc[r] \in Unarmed /\ request[r].authorization = a}
      /\ UNCHANGED <<now, base, refs, pulls, opened, outside, ledger, pc, request, found,
                     reviewed, grant, token, outcome, row, done, unbooked>>
      BY DEF Revoke, Lapse, githubVars, runVars
<1>2. lapsed' \subseteq Runs /\ revoked' \subseteq Authorizations BY <1>1 DEF IInv, TypeOK
<1>3. TypeOK' BY <1>1, <1>2 DEF IInv, TypeOK
<1>4. ASSUME NEW r \in Runs PROVE Stopped(r)'
      <2>1. Local(r) BY DEF IInv
      <2>2. CASE r \notin lapsed' BY <2>2 DEF Stopped
      <2>3. CASE pc[r] \in Unarmed /\ request[r].authorization = a
            <3>1. ~Current(request[r])' BY <1>1, <2>3 DEF Current
            <3>2. done[r] = {} BY <2>1, <2>3 DEF Local, Written
            <3>3. QED BY <1>1, <2>3, <3>1, <3>2 DEF Stopped
      <2>4. CASE r \in lapsed BY <1>1, <2>1, <2>4 DEF Local, Stopped, Current
      <2>5. QED BY <1>1, <2>2, <2>3, <2>4
<1>5. QED BY <1>1, <1>3, <1>4, OthersStep

(* Other users of the repository.                                          *)
LEMMA OutsideKeeps ==
    ASSUME IInv, OutsideChange, base' \in Bases, refs' \in [Bases -> Commit \cup {None}],
           pulls' \in [Bases -> 0 .. MaxPulls], opened' \in 0 .. MaxPulls
    PROVE  IInv'
<1>1. /\ outside' = outside + 1 /\ outside < MaxOutside
      /\ UNCHANGED <<now, revoked, ledger, pc, request, found, reviewed, grant, token, outcome,
                     row, done, lapsed, unbooked>>
      BY DEF OutsideChange, runVars
<1>2. outside' \in 0 .. MaxOutside BY <1>1, PublicationAssumption DEF IInv, TypeOK
<1>3. TypeOK' BY <1>1, <1>2 DEF IInv, TypeOK
<1>4. \A r \in Runs : Stopped(r)' BY <1>1 DEF IInv, Local, Stopped, Current
<1>5. QED BY <1>1, <1>3, <1>4, OthersStep

(* Every step that no run takes.                                           *)
LEMMA OthersKeep ==
    ASSUME IInv, Others
    PROVE  IInv'
<1>1. /\ base \in Bases /\ refs \in [Bases -> Commit \cup {None}]
      /\ pulls \in [Bases -> 0 .. MaxPulls] /\ opened \in 0 .. MaxPulls
      BY DEF IInv, TypeOK
<1>2. CASE MoveBase BY <1>1, <1>2, OutsideKeeps DEF MoveBase
<1>3. ASSUME NEW b \in Bases, CreateBranch(b) PROVE IInv'
      <2>1. OutsideChange /\ base' = base BY <1>3 DEF CreateBranch
      <2>2. refs' \in [Bases -> Commit \cup {None}]
            BY <1>1, <1>3, PublicationAssumption DEF CreateBranch, Commit
      <2>3. pulls' \in [Bases -> 0 .. MaxPulls] /\ opened' \in 0 .. MaxPulls
            <3>1. CASE UNCHANGED <<pulls, opened>> BY <1>1, <3>1
            <3>2. CASE /\ opened < MaxPulls
                       /\ pulls' = [pulls EXCEPT ![b] = opened + 1]
                       /\ opened' = opened + 1
                  <4>1. opened + 1 \in 0 .. MaxPulls BY <1>1, <3>2, PublicationAssumption
                  <4>2. QED BY <1>1, <3>2, <4>1
            <3>3. QED BY <1>3, <3>1, <3>2 DEF CreateBranch
      <2>4. QED BY <1>1, <2>1, <2>2, <2>3, OutsideKeeps
<1>4. ASSUME NEW b \in Bases, DeleteBranch(b) \/ ClosePull(b) PROVE IInv'
      <2>1. /\ refs' \in [Bases -> Commit \cup {None}] /\ pulls' \in [Bases -> 0 .. MaxPulls]
            BY <1>1, <1>4, PublicationAssumption DEF DeleteBranch, ClosePull
      <2>2. QED BY <1>1, <1>4, <2>1, OutsideKeeps DEF DeleteBranch, ClosePull
<1>5. ASSUME NEW b \in Bases, OpenPull(b) PROVE IInv'
      <2>1. opened + 1 \in 0 .. MaxPulls BY <1>1, <1>5, PublicationAssumption DEF OpenPull
      <2>2. pulls' \in [Bases -> 0 .. MaxPulls] /\ opened' \in 0 .. MaxPulls
            BY <1>1, <1>5, <2>1 DEF OpenPull
      <2>3. QED BY <1>1, <1>5, <2>2, OutsideKeeps DEF OpenPull
<1>6. QED BY <1>2, <1>3, <1>4, <1>5, TickKeeps, RevokeKeeps DEF Others

-----------------------------------------------------------------------------
(* Initially no run holds anything.                                        *)
LEMMA InitIInv ==
    ASSUME Init PROVE IInv
<1>1. 0 \in 0 .. MaxPulls /\ 0 \in 0 .. MaxTime /\ 0 \in 0 .. MaxOutside
      BY PublicationAssumption
<1>2. Unseen \in Remote BY <1>1 DEF Unseen, Remote
<1>3. RowOf("none", None, 0) \in Row BY <1>1 DEF RowOf, Row
<1>4. TypeOK
      <2>1. found \in [Runs -> Remote] /\ reviewed \in [Runs -> Remote] BY <1>2 DEF Init
      <2>2. outcome \in [Runs -> Row] /\ row \in [Runs -> Row] BY <1>3 DEF Init
      <2>3. /\ refs \in [Bases -> Commit \cup {None}] /\ pulls \in [Bases -> 0 .. MaxPulls]
            /\ pc \in [Runs -> Steps] /\ request \in [Runs -> Requests \cup {None}]
            /\ grant \in [Runs -> {"none", "verified", "consumed"}]
            /\ token \in [Runs -> {"none", "live", "lost", "revoked"}]
            /\ done \in [Runs -> SUBSET Acts]
            BY <1>1 DEF Init
      <2>4. \A r \in Runs : pc[r] = "idle" <=> request[r] = None BY DEF Init
      <2>5. QED BY <1>1, <2>1, <2>2, <2>3, <2>4 DEF Init, TypeOK
<1>5. ASSUME NEW r \in Runs PROVE Local(r) /\ ~Holder(r)
      <2>1. /\ pc[r] = "idle" /\ grant[r] = "none" /\ token[r] = "none" /\ done[r] = {}
            /\ r \notin lapsed /\ found[r].pull = 0
            /\ outcome[r].status = "none" /\ row[r].status = "none"
            BY DEF Init, Unseen, RowOf
      <2>2. ~Holder(r) BY <2>1 DEF Holder
      <2>3. Held(r) /\ Granted(r) /\ Stopped(r) BY <2>1, <2>2 DEF Held, Granted, Stopped, Marked
      <2>4. Vetted(r) /\ Seen(r) BY <2>1 DEF Vetted, Seen, Verified, Marked
      <2>5. Written(r) /\ Reported(r) BY <2>1 DEF Written, Reported, Approved
      <2>6. QED BY <2>2, <2>3, <2>4, <2>5 DEF Local
<1>6. QED BY <1>4, <1>5 DEF IInv, Exclusive

(* Every step.                                                             *)
LEMMA NextKeeps ==
    ASSUME IInv, [Next]_vars
    PROVE  IInv'
<1>1. CASE UNCHANGED vars
      <2>1. UNCHANGED <<now, revoked, base, refs, pulls, opened, outside, ledger, pc, request,
                        found, reviewed, grant, token, outcome, row, done, lapsed, unbooked>>
            BY <1>1 DEF vars
      <2>2. TypeOK' BY <2>1 DEF IInv, TypeOK
      <2>3. \A r \in Runs : Stopped(r)' BY <2>1 DEF IInv, Local, Stopped, Current
      <2>4. QED BY <2>1, <2>2, <2>3, OthersStep
<1>2. ASSUME NEW r \in Runs, Inspect(r, Review) \/ Inspect(r, Final) PROVE IInv'
      BY <1>2, InspectBaseKeeps, InspectRefKeeps, InspectPullsKeeps DEF Inspect
<1>3. ASSUME NEW r \in Runs, Broker(r) PROVE IInv'
      BY <1>3, LiveBaseKeeps, ConsumeKeeps, MarkKeeps, GrantCheckKeeps, MintKeeps DEF Broker
<1>4. ASSUME NEW r \in Runs, Continue(r) PROVE IInv'
      BY <1>2, <1>3, <1>4, ReproduceKeeps, VerifyKeeps, ConfirmKeeps, PushKeeps, UpdatePullKeeps,
         CreatePullKeeps, CallFailsKeeps, CleanupKeeps, RecordKeeps, PersistKeeps
         DEF Continue
<1>5. CASE Next BY <1>4, <1>5, OthersKeep, StartKeeps, CrashKeeps DEF Next
<1>6. QED BY <1>1, <1>5

(* The inductive invariant.                                                *)
THEOREM Invariance == Spec => []IInv
<1>1. Init => IInv BY InitIInv
<1>2. IInv /\ [Next]_vars => IInv' BY NextKeeps
<1>3. QED BY <1>1, <1>2, PTL DEF Spec

(* Every variable of every run and of the repository keeps its type.       *)
THEOREM TypeCorrect == Spec => []TypeOK
<1>1. IInv => TypeOK BY DEF IInv
<1>2. QED BY <1>1, Invariance, PTL

(* However many runs present one owner authorization, at once or one after *)
(* the other, at most one of them is ever given a write token.             *)
THEOREM OneToken == Spec => []OneWriteTokenPerAuthorization
<1>1. IInv => OneWriteTokenPerAuthorization
      BY DEF IInv, Exclusive, Holder, Local, Granted, OneWriteTokenPerAuthorization
<1>2. QED BY <1>1, Invariance, PTL

(* A run whose authorization expired or was revoked before the last check  *)
(* of its credential writes nothing.                                       *)
THEOREM LapsedIsHarmless == Spec => []LapsedNeverWrites
<1>1. IInv => LapsedNeverWrites BY DEF IInv, TypeOK, Local, Stopped, LapsedNeverWrites
<1>2. QED BY <1>1, Invariance, PTL

(* A run that reports a pull request reports the approved tree and parent  *)
(* and has spent its authorization.                                        *)
THEOREM Approval == Spec => []PublishedIsApproved
<1>1. IInv => PublishedIsApproved
      BY DEF IInv, Local, Reported, Approved, PublishedIsApproved
<1>2. QED BY <1>1, Invariance, PTL

-----------------------------------------------------------------------------
(* Of all steps of a run only the push changes a branch, only the          *)
(* consumption the ledger and only push and pull request what was done.    *)
LEMMA QuietSteps ==
    ASSUME NEW r \in Runs,
           \/ Continue(r) /\ ~Consume(r) /\ ~Push(r) /\ ~UpdatePull(r) /\ ~CreatePull(r)
           \/ Crash(r)
    PROVE  UNCHANGED <<ledger, request, done, refs>>
<1>1. CASE Crash(r) BY <1>1 DEF Crash, worldVars, localVars
<1>2. CASE Reproduce(r) BY <1>2 DEF Reproduce, worldVars, localVars
<1>3. CASE Inspect(r, Review) \/ Inspect(r, Final)
      BY <1>3 DEF Inspect, InspectBase, InspectRef, InspectPulls, worldVars, localVars
<1>4. CASE Verify(r) BY <1>4 DEF Verify, worldVars
<1>5. CASE Broker(r) /\ ~Consume(r)
      BY <1>5 DEF Broker, LiveBase, Mark, ConsumedGrantStillCurrent, Mint, worldVars, localVars
<1>6. CASE Confirm(r) \/ CallFails(r) BY <1>6 DEF Confirm, CallFails, worldVars, localVars
<1>7. CASE Cleanup(r) \/ Record(r) \/ Persist(r)
      BY <1>7 DEF Cleanup, Record, Persist, worldVars
<1>8. QED BY <1>1, <1>2, <1>3, <1>4, <1>5, <1>6, <1>7 DEF Continue

(* No step of this program moves a branch that exists.                     *)
THEOREM BranchesStay == Spec => BranchNeverMoved
<1> DEFINE Kept == \A b \in Bases :
                 refs'[b] # refs[b] /\ refs'[b] # None /\ refs'[b].by \in Runs => refs[b] = None
<1>1. ASSUME IInv, [Next]_vars PROVE [Kept]_refs
      <2>1. CASE UNCHANGED refs BY <2>1
      <2>2. CASE Others
            <3>1. ASSUME NEW b \in Bases, CreateBranch(b) PROVE Kept
                  <4>1. PICK tree \in {b, None} :
                           refs' = [refs EXCEPT ![b] = [tree |-> tree, parent |-> b, by |-> Outsider]]
                        BY <3>1 DEF CreateBranch
                  <4>2. refs'[b].by = Outsider /\ \A c \in Bases \ {b} : refs'[c] = refs[c]
                        BY <1>1, <4>1 DEF IInv, TypeOK
                  <4>3. QED BY <4>2, PublicationAssumption
            <3>2. ASSUME NEW b \in Bases, DeleteBranch(b) PROVE Kept
                  BY <1>1, <3>2 DEF DeleteBranch, IInv, TypeOK
            <3>3. CASE Tick \/ MoveBase BY <2>1, <3>3 DEF Tick, MoveBase, githubVars
            <3>4. ASSUME NEW a \in Authorizations, Revoke(a) PROVE [Kept]_refs
                  BY <2>1, <3>4 DEF Revoke, githubVars
            <3>5. ASSUME NEW b \in Bases, OpenPull(b) \/ ClosePull(b) PROVE [Kept]_refs
                  BY <2>1, <3>5 DEF OpenPull, ClosePull
            <3>6. QED BY <2>2, <3>1, <3>2, <3>3, <3>4, <3>5 DEF Others
      <2>3. ASSUME NEW r \in Runs, NEW q \in Requests, Start(r, q) PROVE [Kept]_refs
            BY <2>1, <2>3 DEF Start, worldVars
      <2>4. ASSUME NEW r \in Runs, Continue(r) \/ Crash(r) PROVE [Kept]_refs
            <3>1. CASE Push(r)
                  <4>1. CASE UNCHANGED refs BY <2>1, <4>1
                  <4>2. CASE /\ refs[request[r].base] = None
                             /\ refs' = [refs EXCEPT ![request[r].base] = OwnCommit(r)]
                        BY <1>1, <4>2 DEF IInv, TypeOK
                  <4>3. QED BY <3>1, <4>1, <4>2 DEF Push
            <3>2. CASE Consume(r) \/ UpdatePull(r) \/ CreatePull(r)
                  BY <2>1, <3>2 DEF Consume, UpdatePull, CreatePull, worldVars
            <3>3. QED BY <2>1, <2>4, <3>1, <3>2, QuietSteps
      <2>5. QED BY <1>1, <2>1, <2>2, <2>3, <2>4 DEF Next, vars
<1>2. IInv /\ [Next]_vars => [Kept]_refs BY <1>1
<1>3. QED BY <1>2, Invariance, PTL DEF Spec, BranchNeverMoved

-----------------------------------------------------------------------------
(* The second invariant: what is recorded of a run is what it did.  It     *)
(* needs the first one, which says how much a run has written so far.      *)

(* Whoever reads a commit of run r on GitHub, run r has pushed.            *)
Pushed(r) ==
    /\ \A b \in Bases : refs[b] # None /\ refs[b].by = r => "create_branch" \in done[r]
    /\ found[r].head # None /\ found[r].head.by = r => "create_branch" \in done[r]

Truthful(r, report) ==
    /\ report.head # None /\ report.head.by = r => "create_branch" \in done[r]
    /\ report.pull # 0 => done[r] \ {"create_branch"} # {}

ReachedPull(r) == done[r] \ {"create_branch"} # {}

(* The outcome carries the head until a call of the database throws, and   *)
(* from then on either the row does or it reports no success.              *)
Kept(r) ==
    /\ pc[r] \in Unarmed \cup Armed \cup {"cleanup", "record"} => row[r].status = "queued"
    /\ pc[r] \in {"cleanup", "record"} /\ ReachedPull(r) => outcome[r].head # None
    /\ pc[r] = "persist" /\ ReachedPull(r) =>
          /\ outcome[r].head # None \/ r \in unbooked
          /\ row[r].head # None \/ row[r].status = "queued"
    /\ pc[r] \in Over /\ ReachedPull(r) =>
          \/ row[r].head # None
          \/ r \in unbooked /\ row[r].status \in {"failed", "queued"}

Told(r) == Pushed(r) /\ Truthful(r, outcome[r]) /\ Truthful(r, row[r]) /\ Kept(r)

Recorded == \A r \in Runs : Told(r)

(* A step of run r leaves the record of every other run alone.             *)
AloneOf(r) ==
    \A t \in Runs \ {r} :
        /\ pc'[t] = pc[t] /\ found'[t] = found[t] /\ outcome'[t] = outcome[t]
        /\ row'[t] = row[t] /\ done'[t] = done[t]
        /\ t \in unbooked' <=> t \in unbooked

(* Branches change to a commit of this author, or disappear.               *)
RefsBy(author) ==
    \A b \in Bases : refs'[b] = refs[b] \/ refs'[b] = None \/ refs'[b].by = author

LEMMA ToldFrame ==
    ASSUME NEW t \in Runs, Told(t), pc'[t] = pc[t], found'[t] = found[t],
           outcome'[t] = outcome[t], row'[t] = row[t], done'[t] = done[t],
           t \in unbooked' <=> t \in unbooked, NEW author, t # author, RefsBy(author)
    PROVE  Told(t)'
<1>1. Pushed(t)' BY DEF Told, Pushed, RefsBy
<1>2. Truthful(t, outcome[t])' /\ Truthful(t, row[t])' BY DEF Told, Truthful
<1>3. Kept(t)' BY DEF Told, Kept, ReachedPull
<1>4. QED BY <1>1, <1>2, <1>3 DEF Told

LEMMA ToldStep ==
    ASSUME Recorded, NEW r \in Runs, AloneOf(r), RefsBy(r), Told(r)'
    PROVE  Recorded'
<1>1. ASSUME NEW t \in Runs, t # r PROVE Told(t)'
      <2>1. /\ pc'[t] = pc[t] /\ found'[t] = found[t] /\ outcome'[t] = outcome[t]
            /\ row'[t] = row[t] /\ done'[t] = done[t]
            /\ t \in unbooked' <=> t \in unbooked
            BY <1>1 DEF AloneOf
      <2>2. Told(t) BY DEF Recorded
      <2>3. QED BY <1>1, <2>1, <2>2, ToldFrame
<1>2. QED BY <1>1 DEF Recorded

(* The run leaves the try block with nothing to record but a status.       *)
LeftQuietly(r) == pc'[r] = "cleanup" /\ outcome'[r].head = None /\ outcome'[r].pull = 0

LEMMA LeaveEffect ==
    ASSUME TypeOK, NEW r \in Runs, NEW status, NEW head, NEW pull, Leave(r, status, head, pull)
    PROVE  /\ pc'[r] = "cleanup" /\ outcome'[r].head = head /\ outcome'[r].pull = pull
           /\ \A t \in Runs \ {r} : pc'[t] = pc[t] /\ outcome'[t] = outcome[t]
BY DEF Leave, Goto, RowOf, TypeOK

LEMMA GotoEffect ==
    ASSUME TypeOK, NEW r \in Runs, NEW step, Goto(r, step)
    PROVE  pc'[r] = step /\ \A t \in Runs \ {r} : pc'[t] = pc[t]
BY DEF Goto, TypeOK

LEMMA FailEffect ==
    ASSUME TypeOK, NEW r \in Runs, Fail(r)
    PROVE  LeftQuietly(r) /\ \A t \in Runs \ {r} : pc'[t] = pc[t] /\ outcome'[t] = outcome[t]
BY LeaveEffect DEF Fail, LeftQuietly

LEMMA CheckEffect ==
    ASSUME TypeOK, NEW r \in Runs, NEW holds, NEW step, Check(r, holds, step)
    PROVE  /\ (UNCHANGED outcome /\ pc'[r] = step) \/ LeftQuietly(r)
           /\ \A t \in Runs \ {r} : pc'[t] = pc[t] /\ outcome'[t] = outcome[t]
BY FailEffect, GotoEffect DEF Check

-----------------------------------------------------------------------------
(* Steps that write nothing to GitHub and nothing to the database.         *)
Quiet(r) ==
    /\ pc[r] \in Unarmed \cup Armed
    /\ UNCHANGED <<refs, row, done, unbooked>>
    /\ found'[r].head \in {found[r].head, refs[request[r].base]}
    /\ (UNCHANGED outcome /\ pc'[r] \in Unarmed \cup Armed) \/ LeftQuietly(r)
    /\ \A t \in Runs \ {r} :
          pc'[t] = pc[t] /\ outcome'[t] = outcome[t] /\ found'[t] = found[t]

LEMMA QuietTold ==
    ASSUME IInv, Recorded, NEW r \in Runs, Quiet(r)
    PROVE  Recorded'
<1>1. Told(r) /\ Local(r) BY DEF IInv, Recorded
<1>2. pc[r] # "idle" BY DEF Quiet
<1>3. request[r].base \in Bases BY <1>2, HeadTypes DEF IInv
<1>4. Pushed(r)' BY <1>1, <1>3 DEF Quiet, Told, Pushed
<1>5. ~ReachedPull(r) /\ ~ReachedPull(r)'
      <2>1. done[r] \ {"create_branch"} = {} BY <1>1 DEF Local, Written, Quiet
      <2>2. QED BY <2>1 DEF ReachedPull, Quiet
<1>6. Truthful(r, row[r])' BY <1>1 DEF Quiet, Told, Truthful
<1>7. Truthful(r, outcome[r])' BY <1>1 DEF Quiet, LeftQuietly, Told, Truthful
<1>8. Kept(r)' BY <1>1, <1>5 DEF Quiet, LeftQuietly, Told, Kept
<1>9. Told(r)' BY <1>4, <1>6, <1>7, <1>8 DEF Told
<1>10. AloneOf(r) /\ RefsBy(r) BY DEF Quiet, AloneOf, RefsBy
<1>11. QED BY <1>9, <1>10, ToldStep

(* All steps but push, pull request and the caller's are of that kind.     *)
LEMMA QuietActions ==
    ASSUME TypeOK, NEW r \in Runs,
           \/ Reproduce(r) \/ Inspect(r, Review) \/ Inspect(r, Final) \/ Verify(r) \/ Broker(r)
           \/ Confirm(r) \/ CallFails(r)
    PROVE  Quiet(r)
<1>1. CASE Reproduce(r)
      <2>1. /\ pc[r] = "reproduce"
            /\ UNCHANGED <<refs, row, done, unbooked, found>>
            BY <1>1 DEF Reproduce, worldVars, localVars
      <2>2. \/ Fail(r) \/ Leave(r, "no_changes", None, 0) \/ Leave(r, "blocked", None, 0)
            \/ Goto(r, "review_base") /\ UNCHANGED outcome
            BY <1>1 DEF Reproduce
      <2>3. QED BY <2>1, <2>2, FailEffect, LeaveEffect, GotoEffect DEF Quiet, LeftQuietly
<1>2. ASSUME NEW at \in {Review, Final}, InspectBase(r, at) PROVE Quiet(r)
      <2>1. /\ pc[r] = at.base /\ Check(r, base = request[r].base, at.ref)
            /\ UNCHANGED <<refs, row, done, unbooked, found>>
            BY <1>2 DEF InspectBase, worldVars, localVars
      <2>2. at.base \in Unarmed \cup Armed /\ at.ref \in Unarmed \cup Armed
            BY DEF Review, Final
      <2>3. QED BY <2>1, <2>2, CheckEffect DEF Quiet
<1>3. ASSUME NEW at \in {Review, Final}, InspectRef(r, at) PROVE Quiet(r)
      <2> DEFINE head == refs[request[r].base]
      <2>1. /\ pc[r] = at.ref /\ Goto(r, IF head = None THEN at.next ELSE at.pulls)
            /\ found' = [found EXCEPT ![r] = [head |-> head, pull |-> 0]]
            /\ UNCHANGED <<refs, row, done, unbooked, outcome>>
            BY <1>3 DEF InspectRef, worldVars
      <2>2. /\ at.ref \in Unarmed \cup Armed /\ at.next \in Unarmed \cup Armed
            /\ at.pulls \in Unarmed \cup Armed
            BY DEF Review, Final
      <2>3. found'[r].head = head /\ \A t \in Runs \ {r} : found'[t] = found[t]
            BY <2>1 DEF TypeOK
      <2>4. QED BY <2>1, <2>2, <2>3, GotoEffect DEF Quiet
<1>4. ASSUME NEW at \in {Review, Final}, InspectPulls(r, at) PROVE Quiet(r)
      <2>1. /\ pc[r] = at.pulls /\ Check(r, MatchesArtifact(found[r].head, request[r]), at.next)
            /\ found' = [found EXCEPT ![r].pull = pulls[request[r].base]]
            /\ UNCHANGED <<refs, row, done, unbooked>>
            BY <1>4 DEF InspectPulls, worldVars
      <2>2. at.pulls \in Unarmed \cup Armed /\ at.next \in Unarmed \cup Armed
            BY DEF Review, Final
      <2>3. found'[r].head = found[r].head /\ \A t \in Runs \ {r} : found'[t] = found[t]
            BY <2>1 DEF TypeOK, Remote
      <2>4. QED BY <2>1, <2>2, <2>3, CheckEffect DEF Quiet
<1>5. CASE Verify(r)
      <2>1. pc[r] = "verify" /\ UNCHANGED <<refs, row, done, unbooked, found>>
            BY <1>5 DEF Verify, worldVars
      <2>2. Fail(r) \/ (Goto(r, "broker_base") /\ UNCHANGED outcome) BY <1>5 DEF Verify
      <2>3. QED BY <2>1, <2>2, FailEffect, GotoEffect DEF Quiet
<1>6. ASSUME NEW at \in Unarmed, NEW step \in Unarmed \cup Armed,
             LiveBase(r, at, step) \/ ConsumedGrantStillCurrent(r, at, step)
      PROVE  Quiet(r)
      <2>1. pc[r] = at /\ UNCHANGED <<refs, row, done, unbooked, found>>
            BY <1>6 DEF LiveBase, ConsumedGrantStillCurrent, worldVars, localVars
      <2>2. \/ Check(r, base = request[r].base, step)
            \/ Check(r, grant[r] = "consumed" /\ Current(request[r]), step)
            BY <1>6 DEF LiveBase, ConsumedGrantStillCurrent
      <2>3. QED BY <2>1, <2>2, CheckEffect DEF Quiet
<1>7. CASE Consume(r)
      <2>1. pc[r] = "consume" /\ UNCHANGED <<refs, row, done, unbooked, found>>
            BY <1>7 DEF Consume, worldVars, localVars
      <2>2. Fail(r) \/ (Goto(r, "mark") /\ UNCHANGED outcome) BY <1>7 DEF Consume
      <2>3. QED BY <2>1, <2>2, FailEffect, GotoEffect DEF Quiet
<1>8. CASE Mark(r)
      <2>1. /\ pc[r] = "mark" /\ Check(r, Current(request[r]), "mint_base")
            /\ UNCHANGED <<refs, row, done, unbooked, found>>
            BY <1>8 DEF Mark, worldVars
      <2>2. QED BY <2>1, CheckEffect DEF Quiet
<1>9. CASE Mint(r)
      <2>1. pc[r] = "mint" /\ UNCHANGED <<refs, row, done, unbooked, found>>
            BY <1>9 DEF Mint, worldVars
      <2>2. Fail(r) \/ (Goto(r, "minted_base") /\ UNCHANGED outcome) BY <1>9 DEF Mint
      <2>3. QED BY <2>1, <2>2, FailEffect, GotoEffect DEF Quiet
<1>10. CASE Confirm(r)
      <2>1. /\ pc[r] = "confirm" /\ UNCHANGED <<refs, row, done, unbooked, found>>
            /\ Check(r, found[r] = reviewed[r], IF found[r].head = None THEN "push" ELSE "pull")
            BY <1>10 DEF Confirm, worldVars, localVars
      <2>2. QED BY <2>1, CheckEffect DEF Quiet
<1>11. CASE CallFails(r)
      <2>1. /\ pc[r] \in Unarmed \cup Armed /\ Fail(r)
            /\ UNCHANGED <<refs, row, done, unbooked, found>>
            BY <1>11 DEF CallFails, worldVars, localVars
      <2>2. QED BY <2>1, FailEffect DEF Quiet
<1>12. CASE Broker(r) BY <1>6, <1>7, <1>8, <1>9, <1>12 DEF Broker
<1>13. QED BY <1>1, <1>2, <1>3, <1>4, <1>5, <1>10, <1>11, <1>12 DEF Inspect

-----------------------------------------------------------------------------
(* The other steps.                                                        *)

(* A new row names nothing.                                                *)
LEMMA StartTold ==
    ASSUME IInv, Recorded, NEW r \in Runs, NEW q \in Requests, Start(r, q)
    PROVE  Recorded'
<1>1. PICK step \in {"reproduce", "rejected"} : Goto(r, step) BY DEF Start
<1>2. /\ pc[r] = "idle" /\ row' = [row EXCEPT ![r] = RowOf("queued", None, 0)]
      /\ unbooked' \in {unbooked, unbooked \cup {r}}
      /\ UNCHANGED <<refs, found, outcome, done>>
      BY DEF Start, worldVars
<1>3. Told(r) /\ done[r] = {} BY <1>2 DEF Recorded, IInv, Local, Written
<1>4. /\ row'[r].status = "queued" /\ row'[r].head = None /\ row'[r].pull = 0
      /\ \A t \in Runs \ {r} : row'[t] = row[t]
      BY <1>2 DEF IInv, TypeOK, RowOf
<1>5. pc'[r] = step /\ \A t \in Runs \ {r} : pc'[t] = pc[t] BY <1>1, GotoEffect DEF IInv
<1>6. Pushed(r)' BY <1>2, <1>3 DEF Told, Pushed
<1>7. Truthful(r, outcome[r])' /\ Truthful(r, row[r])'
      BY <1>2, <1>3, <1>4 DEF Told, Truthful
<1>8. Kept(r)' BY <1>2, <1>3, <1>4, <1>5 DEF Kept, ReachedPull
<1>9. Told(r)' BY <1>6, <1>7, <1>8 DEF Told
<1>10. AloneOf(r) /\ RefsBy(r) BY <1>2, <1>4, <1>5 DEF AloneOf, RefsBy
<1>11. QED BY <1>9, <1>10, ToldStep

(* The push is recorded as done even if its reply is lost; the row knows   *)
(* nothing of it yet.                                                      *)
LEMMA PushTold ==
    ASSUME IInv, Recorded, NEW r \in Runs, Push(r)
    PROVE  Recorded'
<1> DEFINE b == request[r].base
<1>1. pc[r] = "push" /\ UNCHANGED <<found, row, unbooked>> BY DEF Push
<1>2. Told(r) /\ done[r] = {} BY <1>1 DEF Recorded, IInv, Local, Written
<1>3. \/ UNCHANGED <<refs, done>>
      \/ /\ refs' = [refs EXCEPT ![b] = OwnCommit(r)]
         /\ done' = [done EXCEPT ![r] = @ \cup {"create_branch"}]
      BY DEF Push
<1>4. /\ done'[r] \in {{}, {"create_branch"}}
      /\ \A t \in Runs \ {r} : done'[t] = done[t]
      BY <1>2, <1>3 DEF IInv, TypeOK
<1>5. \A c \in Bases :
         refs'[c] = refs[c] \/ (refs'[c].by = r /\ "create_branch" \in done'[r])
      BY <1>3 DEF IInv, TypeOK, OwnCommit
<1>6. /\ (UNCHANGED outcome /\ pc'[r] = "pull") \/ LeftQuietly(r)
      /\ \A t \in Runs \ {r} : pc'[t] = pc[t] /\ outcome'[t] = outcome[t]
      BY FailEffect, GotoEffect DEF Push, IInv
<1>7. Pushed(r)' BY <1>1, <1>2, <1>5 DEF Told, Pushed
<1>8. Truthful(r, outcome[r])' /\ Truthful(r, row[r])'
      BY <1>1, <1>2, <1>6 DEF Told, Truthful, LeftQuietly
<1>9. ~ReachedPull(r)' BY <1>4 DEF ReachedPull
<1>10. Kept(r)' BY <1>1, <1>2, <1>6, <1>9 DEF Told, Kept, LeftQuietly
<1>11. Told(r)' BY <1>7, <1>8, <1>10 DEF Told
<1>12. AloneOf(r) /\ RefsBy(r) BY <1>1, <1>4, <1>5, <1>6 DEF AloneOf, RefsBy
<1>13. QED BY <1>11, <1>12, ToldStep

(* However the reconciliation ends, the head is part of the outcome.       *)
LEMMA PullTold ==
    ASSUME IInv, Recorded, NEW r \in Runs, pc[r] = "pull", NEW status, NEW pull,
           Leave(r, status, ExpectedHead(r), pull),
           NEW acts, done' = [done EXCEPT ![r] = @ \cup acts],
           pull # 0 => acts \ {"create_branch"} # {},
           UNCHANGED <<refs, found, row, unbooked>>
    PROVE  Recorded'
<1>1. Told(r) /\ Local(r) /\ pc[r] # "idle" BY DEF Recorded, IInv
<1>2. ExpectedHead(r) # None BY <1>1, HeadTypes DEF IInv
<1>3. done'[r] = done[r] \cup acts /\ \A t \in Runs \ {r} : done'[t] = done[t]
      BY DEF IInv, TypeOK
<1>4. /\ pc'[r] = "cleanup" /\ outcome'[r].head = ExpectedHead(r) /\ outcome'[r].pull = pull
      /\ \A t \in Runs \ {r} : pc'[t] = pc[t] /\ outcome'[t] = outcome[t]
      BY LeaveEffect DEF IInv
<1>5. ExpectedHead(r).by = r => "create_branch" \in done[r]
      <2>1. CASE found[r].head = None BY <1>1, <2>1 DEF Local, Written
      <2>2. CASE found[r].head # None BY <1>1, <2>2 DEF Told, Pushed, ExpectedHead
      <2>3. QED BY <2>1, <2>2
<1>6. Pushed(r)' BY <1>1, <1>3 DEF Told, Pushed
<1>7. Truthful(r, outcome[r])' BY <1>3, <1>4, <1>5 DEF Truthful
<1>8. Truthful(r, row[r])' BY <1>1, <1>3 DEF Told, Truthful
<1>9. Kept(r)' BY <1>1, <1>2, <1>4 DEF Told, Kept
<1>10. Told(r)' BY <1>6, <1>7, <1>8, <1>9 DEF Told
<1>11. AloneOf(r) /\ RefsBy(r) BY <1>3, <1>4 DEF AloneOf, RefsBy
<1>12. QED BY <1>10, <1>11, ToldStep

LEMMA UpdatePullTold ==
    ASSUME IInv, Recorded, NEW r \in Runs, UpdatePull(r)
    PROVE  Recorded'
<1> DEFINE acts == {"update_pull_request"}
<1>1. pc[r] = "pull" /\ UNCHANGED <<refs, found, row, unbooked>>
      BY DEF UpdatePull, worldVars
<1>2. CASE UNCHANGED done /\ Leave(r, "failed", ExpectedHead(r), 0)
      <2>1. done' = [done EXCEPT ![r] = @ \cup {}] BY <1>2 DEF IInv, TypeOK
      <2>2. QED BY <1>1, <1>2, <2>1, PullTold
<1>3. CASE /\ done' = [done EXCEPT ![r] = @ \cup acts]
           /\ \/ Leave(r, "pr_opened", ExpectedHead(r), found[r].pull)
              \/ Leave(r, "failed", ExpectedHead(r), 0)
      <2>1. acts \ {"create_branch"} # {} OBVIOUS
      <2>2. QED BY <1>1, <1>3, <2>1, PullTold
<1>4. QED BY <1>2, <1>3 DEF UpdatePull

LEMMA CreatePullTold ==
    ASSUME IInv, Recorded, NEW r \in Runs, CreatePull(r)
    PROVE  Recorded'
<1> DEFINE acts == {"create_pull_request"}
<1>1. pc[r] = "pull" /\ UNCHANGED <<refs, found, row, unbooked>> BY DEF CreatePull
<1>2. CASE UNCHANGED done /\ Leave(r, "failed", ExpectedHead(r), 0)
      <2>1. done' = [done EXCEPT ![r] = @ \cup {}] BY <1>2 DEF IInv, TypeOK
      <2>2. QED BY <1>1, <1>2, <2>1, PullTold
<1>3. CASE /\ done' = [done EXCEPT ![r] = @ \cup acts]
           /\ \/ Leave(r, "pr_opened", ExpectedHead(r), opened + 1)
              \/ Leave(r, "failed", ExpectedHead(r), opened + 1)
              \/ Leave(r, "failed", ExpectedHead(r), 0)
      <2>1. acts \ {"create_branch"} # {} OBVIOUS
      <2>2. QED BY <1>1, <1>3, <2>1, PullTold
<1>4. QED BY <1>2, <1>3 DEF CreatePull

(* A failure goes to the catch block, a result to the end of the try block.*)
LEMMA CleanupTold ==
    ASSUME IInv, Recorded, NEW r \in Runs, Cleanup(r)
    PROVE  Recorded'
<1>1. pc[r] = "cleanup" /\ UNCHANGED <<refs, found, outcome, row, done, unbooked>>
      BY DEF Cleanup, worldVars
<1>2. PICK step \in {"record", "persist"} : Goto(r, step) BY DEF Cleanup
<1>3. pc'[r] = step /\ \A t \in Runs \ {r} : pc'[t] = pc[t] BY <1>2, GotoEffect DEF IInv
<1>4. Told(r) BY DEF Recorded
<1>5. Pushed(r)' BY <1>1, <1>4 DEF Told, Pushed
<1>6. Truthful(r, outcome[r])' /\ Truthful(r, row[r])' BY <1>1, <1>4 DEF Told, Truthful
<1>7. Kept(r)' BY <1>1, <1>3, <1>4 DEF Told, Kept, ReachedPull
<1>8. Told(r)' BY <1>5, <1>6, <1>7 DEF Told
<1>9. AloneOf(r) /\ RefsBy(r) BY <1>1, <1>3 DEF AloneOf, RefsBy
<1>10. QED BY <1>8, <1>9, ToldStep

(* If the database throws after the row was stored the row has the head,   *)
(* and if it throws before the row is still queued.                        *)
LEMMA RecordTold ==
    ASSUME IInv, Recorded, NEW r \in Runs, Record(r)
    PROVE  Recorded'
<1>1. pc[r] = "record" /\ UNCHANGED <<refs, found, done>> BY DEF Record, worldVars
<1>2. Told(r) BY DEF Recorded
<1>3. Pushed(r)' BY <1>1, <1>2 DEF Told, Pushed
<1>4. CASE Stored(r, outcome[r], "ended") /\ UNCHANGED outcome
      <2>1. pc'[r] = "ended" /\ \A t \in Runs \ {r} : pc'[t] = pc[t]
            BY <1>4, GotoEffect DEF Stored, IInv
      <2>2. row'[r] = outcome[r] /\ \A t \in Runs \ {r} : row'[t] = row[t]
            BY <1>4 DEF Stored, IInv, TypeOK
      <2>3. UNCHANGED unbooked BY <1>4 DEF Stored
      <2>4. Truthful(r, outcome[r])' /\ Truthful(r, row[r])'
            BY <1>1, <1>2, <1>4, <2>2 DEF Told, Truthful
      <2>5. Kept(r)' BY <1>1, <1>2, <2>1, <2>2 DEF Told, Kept, ReachedPull
      <2>6. Told(r)' BY <1>3, <2>4, <2>5 DEF Told
      <2>7. AloneOf(r) /\ RefsBy(r) BY <1>1, <1>4, <2>1, <2>2, <2>3 DEF AloneOf, RefsBy
      <2>8. QED BY <2>6, <2>7, ToldStep
<1>5. CASE /\ Thrown(r, outcome[r], "persist")
           /\ outcome' = [outcome EXCEPT ![r] = RowOf("failed", None, 0)]
      <2>1. pc'[r] = "persist" /\ \A t \in Runs \ {r} : pc'[t] = pc[t]
            BY <1>5, GotoEffect DEF Thrown, IInv
      <2>2. row'[r] \in {row[r], outcome[r]} /\ \A t \in Runs \ {r} : row'[t] = row[t]
            BY <1>5 DEF Thrown, IInv, TypeOK
      <2>3. unbooked' = unbooked \cup {r} BY <1>5 DEF Thrown
      <2>4. /\ outcome'[r].head = None /\ outcome'[r].pull = 0
            /\ \A t \in Runs \ {r} : outcome'[t] = outcome[t]
            BY <1>5 DEF RowOf, IInv, TypeOK
      <2>5. Truthful(r, outcome[r])' /\ Truthful(r, row[r])'
            BY <1>1, <1>2, <2>2, <2>4 DEF Told, Truthful
      <2>6. Kept(r)' BY <1>1, <1>2, <2>1, <2>2, <2>3 DEF Told, Kept, ReachedPull
      <2>7. Told(r)' BY <1>3, <2>5, <2>6 DEF Told
      <2>8. AloneOf(r) /\ RefsBy(r) BY <1>1, <2>1, <2>2, <2>3, <2>4 DEF AloneOf, RefsBy
      <2>9. QED BY <2>7, <2>8, ToldStep
<1>6. QED BY <1>4, <1>5 DEF Record

(* The patch has the head of the audit or leaves that of the row.          *)
LEMMA PersistTold ==
    ASSUME IInv, Recorded, NEW r \in Runs, Persist(r)
    PROVE  Recorded'
<1>1. pc[r] = "persist" /\ UNCHANGED <<refs, found, outcome, done>>
      BY DEF Persist, worldVars
<1>2. Told(r) /\ row[r] \in Row BY DEF Recorded, IInv, TypeOK
<1>3. \/ outcome[r].head # None /\ Patch(r) = outcome[r]
      \/ /\ outcome[r].head = None /\ Patch(r).status = "failed"
         /\ Patch(r).head = row[r].head /\ Patch(r).pull = row[r].pull
      BY <1>2 DEF Patch, Row
<1>4. /\ \/ pc'[r] = "ended" /\ row'[r] = Patch(r)
         \/ pc'[r] = "rejected" /\ row'[r] \in {row[r], Patch(r)} /\ r \in unbooked'
      /\ unbooked' \in {unbooked, unbooked \cup {r}}
      /\ \A t \in Runs \ {r} : pc'[t] = pc[t] /\ row'[t] = row[t]
      <2>1. CASE Stored(r, Patch(r), "ended")
            BY <2>1, GotoEffect DEF Stored, IInv, TypeOK
      <2>2. CASE Thrown(r, Patch(r), "rejected")
            BY <2>2, GotoEffect DEF Thrown, IInv, TypeOK
      <2>3. QED BY <2>1, <2>2 DEF Persist
<1>5. Pushed(r)' BY <1>1, <1>2 DEF Told, Pushed
<1>6. Truthful(r, outcome[r])' /\ Truthful(r, row[r])'
      BY <1>1, <1>2, <1>3, <1>4 DEF Told, Truthful
<1>7. Kept(r)' BY <1>1, <1>2, <1>3, <1>4 DEF Told, Kept, ReachedPull
<1>8. Told(r)' BY <1>5, <1>6, <1>7 DEF Told
<1>9. AloneOf(r) /\ RefsBy(r) BY <1>1, <1>4 DEF AloneOf, RefsBy
<1>10. QED BY <1>8, <1>9, ToldStep

LEMMA CrashTold ==
    ASSUME IInv, Recorded, NEW r \in Runs, Crash(r)
    PROVE  Recorded'
<1>1. UNCHANGED <<refs, found, outcome, row, done, unbooked>>
      BY DEF Crash, worldVars, localVars
<1>2. pc'[r] = "crashed" /\ \A t \in Runs \ {r} : pc'[t] = pc[t]
      BY GotoEffect DEF Crash, IInv
<1>3. Told(r) BY DEF Recorded
<1>4. Pushed(r)' /\ Truthful(r, outcome[r])' /\ Truthful(r, row[r])'
      BY <1>1, <1>3 DEF Told, Pushed, Truthful
<1>5. Kept(r)' BY <1>2 DEF Kept
<1>6. Told(r)' BY <1>4, <1>5 DEF Told
<1>7. AloneOf(r) /\ RefsBy(r) BY <1>1, <1>2 DEF AloneOf, RefsBy
<1>8. QED BY <1>6, <1>7, ToldStep

(* What others do is never a commit of a run.                              *)
LEMMA OthersTold ==
    ASSUME IInv, Recorded, Others \/ UNCHANGED vars
    PROVE  Recorded'
<1>1. UNCHANGED <<pc, found, outcome, row, done, unbooked>>
      BY DEF Others, Tick, Revoke, MoveBase, CreateBranch, DeleteBranch, OpenPull, ClosePull,
             OutsideChange, runVars, vars
<1>2. RefsBy(Outsider)
      <2>1. CASE UNCHANGED refs BY <2>1 DEF RefsBy
      <2>2. ASSUME NEW b \in Bases, CreateBranch(b) PROVE RefsBy(Outsider)
            BY <2>2 DEF CreateBranch, RefsBy, IInv, TypeOK
      <2>3. ASSUME NEW b \in Bases, DeleteBranch(b) PROVE RefsBy(Outsider)
            BY <2>3 DEF DeleteBranch, RefsBy, IInv, TypeOK
      <2>4. QED BY <2>1, <2>2, <2>3
                DEF Others, Tick, Revoke, MoveBase, OpenPull, ClosePull, githubVars, vars
<1>3. ASSUME NEW t \in Runs PROVE Told(t)'
      <2>1. Told(t) /\ t # Outsider BY PublicationAssumption DEF Recorded
      <2>2. QED BY <1>1, <1>2, <2>1, ToldFrame
<1>4. QED BY <1>3 DEF Recorded

LEMMA NextTold ==
    ASSUME IInv, Recorded, [Next]_vars
    PROVE  Recorded'
<1>1. ASSUME NEW r \in Runs,
             \/ Reproduce(r) \/ Inspect(r, Review) \/ Inspect(r, Final) \/ Verify(r)
             \/ Broker(r) \/ Confirm(r) \/ CallFails(r)
      PROVE  Recorded'
      <2>1. Quiet(r) BY <1>1, QuietActions DEF IInv
      <2>2. QED BY <2>1, QuietTold
<1>2. ASSUME NEW r \in Runs, Continue(r) PROVE Recorded'
      BY <1>1, <1>2, PushTold, UpdatePullTold, CreatePullTold, CleanupTold, RecordTold,
         PersistTold
         DEF Continue
<1>3. QED BY <1>2, OthersTold, StartTold, CrashTold DEF Next

(* The row of a run names a branch head of the run only if it pushed, and  *)
(* a pull request only if it wrote to one; and a run that touched a pull   *)
(* request ends with the branch head in its row, or its database threw and *)
(* the row reports no success.                                             *)
THEOREM Recording == Spec => []RowTellsWhatWasDone
<1>1. Init => Recorded
      <2>1. SUFFICES ASSUME Init, NEW r \in Runs PROVE Told(r) BY DEF Recorded
      <2>2. /\ refs = [b \in Bases |-> None] /\ found[r].head = None /\ pc[r] = "idle"
            /\ outcome[r].head = None /\ outcome[r].pull = 0
            /\ row[r].head = None /\ row[r].pull = 0
            BY <2>1 DEF Init, Unseen, RowOf
      <2>3. QED BY <2>2 DEF Told, Pushed, Truthful, Kept
<1>2. IInv /\ Recorded /\ [Next]_vars => Recorded' BY NextTold
<1>3. Recorded => RowTellsWhatWasDone
      BY DEF Recorded, Told, Truthful, Kept, ReachedPull, RowTellsWhatWasDone
<1>4. QED BY <1>1, <1>2, <1>3, Invariance, PTL DEF Spec

-----------------------------------------------------------------------------
(* The contract's view of the writes.                                      *)
Performed == [q \in Requests |-> UNION {done[r] : r \in {s \in Runs : request[s] = q}}]

(* Nothing is performed by a run that starts with nothing done.            *)
LEMMA PerformedSame ==
    ASSUME \A t \in Runs : done'[t] = done[t] /\ (request'[t] = request[t] \/ done[t] = {})
    PROVE  Performed' = Performed
<1>1. ASSUME NEW q \in Requests
      PROVE  UNION {done'[r] : r \in {s \in Runs : request'[s] = q}}
                = UNION {done[r] : r \in {s \in Runs : request[s] = q}}
      OBVIOUS
<1>2. QED BY <1>1 DEF Performed

(* A holder performs alone.                                                *)
LEMMA HolderAlone ==
    ASSUME IInv, NEW r \in Runs, Holder(r), NEW t \in Runs, request[t] = request[r], t # r
    PROVE  done[t] = {}
<1>1. ~Holder(t) BY DEF IInv, Exclusive, Same
<1>2. QED BY <1>1 DEF Holder, IInv, Local, Granted

(* What a holder's request performed is what the holder did.               *)
LEMMA PerformedByHolder ==
    ASSUME IInv, NEW r \in Runs, Holder(r), request[r] \in Requests
    PROVE  Performed[request[r]] = done[r]
<1>1. UNION {done[t] : t \in {s \in Runs : request[s] = request[r]}} = done[r]
      BY HolderAlone
<1>2. QED BY <1>1 DEF Performed

(* A write of a holder adds to its request alone.                          *)
LEMMA PerformedAdds ==
    ASSUME IInv, NEW r \in Runs, Holder(r), request[r] \in Requests, NEW act, UNCHANGED request,
           done' = [done EXCEPT ![r] = @ \cup {act}]
    PROVE  Performed' = [Performed EXCEPT ![request[r]] = @ \cup {act}]
<1> DEFINE q == request[r]
<1>1. done'[r] = done[r] \cup {act} /\ \A t \in Runs \ {r} : done'[t] = done[t]
      BY DEF IInv, TypeOK
<1>2. UNION {done'[t] : t \in {s \in Runs : request[s] = q}} = done[r] \cup {act}
      BY <1>1, HolderAlone
<1>3. ASSUME NEW p \in Requests, p # q
      PROVE  UNION {done'[t] : t \in {s \in Runs : request[s] = p}}
                = UNION {done[t] : t \in {s \in Runs : request[s] = p}}
      BY <1>1, <1>3
<1>4. Performed[q] = done[r] BY PerformedByHolder
<1>5. Performed'[q] = Performed[q] \cup {act} BY <1>2, <1>4 DEF Performed
<1>6. \A p \in Requests : p # q => Performed'[p] = Performed[p] BY <1>3 DEF Performed
<1>7. QED BY <1>5, <1>6 DEF Performed

(* A write of a holder is a step of the contract.                          *)
LEMMA WritePerforms ==
    ASSUME IInv, NEW r \in Runs, Holder(r), request[r] \in Requests, NEW act, UNCHANGED request,
           done' = [done EXCEPT ![r] = @ \cup {act}], UNCHANGED ledger,
           act \in Allowed(request[r]) \ done[r],
           act = "create_branch" => done[r] = {},
           act = "create_pull_request" /\ "create_branch" \in Allowed(request[r]) =>
               "create_branch" \in done[r]
    PROVE  Contract!Next
<1> DEFINE q == request[r]
<1>1. q \in ledger BY DEF IInv, Local, Held
<1>2. Performed[q] = done[r] BY PerformedByHolder
<1>3. Performed' = [Performed EXCEPT ![q] = @ \cup {act}] BY PerformedAdds
<1>4. Contract!Perform(q, act) BY <1>1, <1>2, <1>3 DEF Contract!Perform, Performed
<1>5. \E a \in Allowed(q) : Contract!Perform(q, a) BY <1>4, Zenon
<1>6. QED BY <1>5 DEF Contract!Next, Contract!Perform, Contract!Spend

(* The push is made only if the owner signed for an absent branch.         *)
LEMMA PushPerforms ==
    ASSUME IInv, NEW r \in Runs, Push(r)
    PROVE  Contract!Next \/ UNCHANGED <<ledger, request, done>>
<1>1. pc[r] = "push" /\ UNCHANGED <<ledger, request>> BY DEF Push
<1>2. Local(r) BY DEF IInv
<1>3. Holder(r) /\ done[r] = {} BY <1>1, <1>2 DEF Local, Granted, Marked, Holder, Written
<1>4. request[r] \in Requests BY <1>1, HeadTypes DEF IInv
<1>5. request[r].action = "create" /\ request[r].result = "ready"
      BY <1>1, <1>2 DEF Local, Seen, Vetted, Verified, Marked, RemoteAction
<1>6. "create_branch" \in Allowed(request[r]) BY <1>5 DEF Allowed
<1>7. CASE UNCHANGED done BY <1>1, <1>7
<1>8. CASE done' = [done EXCEPT ![r] = @ \cup {"create_branch"}]
      BY <1>1, <1>3, <1>4, <1>6, <1>8, WritePerforms
<1>9. QED BY <1>7, <1>8 DEF Push

(* A pull request is updated only if the owner signed for that one.        *)
LEMMA UpdatePerforms ==
    ASSUME IInv, NEW r \in Runs, UpdatePull(r)
    PROVE  Contract!Next \/ UNCHANGED <<ledger, request, done>>
<1>1. pc[r] = "pull" /\ found[r].pull # 0 /\ UNCHANGED <<ledger, request>> BY DEF UpdatePull
<1>2. Local(r) BY DEF IInv
<1>3. found[r].head # None BY <1>1, <1>2 DEF Local, Seen
<1>4. Holder(r) /\ done[r] = {} BY <1>1, <1>2, <1>3 DEF Local, Granted, Marked, Holder, Written
<1>5. request[r] \in Requests BY <1>1, HeadTypes DEF IInv
<1>6. request[r].action = "update" /\ request[r].result = "ready"
      BY <1>1, <1>2, <1>3 DEF Local, Seen, Vetted, Verified, Marked, RemoteAction
<1>7. "update_pull_request" \in Allowed(request[r]) BY <1>6 DEF Allowed
<1>8. CASE UNCHANGED done BY <1>1, <1>8
<1>9. CASE done' = [done EXCEPT ![r] = @ \cup {"update_pull_request"}]
      BY <1>1, <1>4, <1>5, <1>7, <1>9, WritePerforms
<1>10. QED BY <1>8, <1>9 DEF UpdatePull

(* One is opened only if the owner signed for that, after the branch.      *)
LEMMA CreatePerforms ==
    ASSUME IInv, NEW r \in Runs, CreatePull(r)
    PROVE  Contract!Next \/ UNCHANGED <<ledger, request, done>>
<1>1. pc[r] = "pull" /\ found[r].pull = 0 /\ UNCHANGED <<ledger, request>> BY DEF CreatePull
<1>2. Local(r) BY DEF IInv
<1>3. Holder(r) BY <1>1, <1>2 DEF Local, Granted, Marked, Holder
<1>4. request[r] \in Requests BY <1>1, HeadTypes DEF IInv
<1>5. /\ request[r].action = (IF found[r].head = None THEN "create" ELSE "reuse")
      /\ request[r].result = "ready"
      BY <1>1, <1>2 DEF Local, Seen, Vetted, Verified, Marked, RemoteAction
<1>6. done[r] = IF found[r].head = None THEN {"create_branch"} ELSE {}
      BY <1>1, <1>2 DEF Local, Written
<1>7. /\ "create_pull_request" \in Allowed(request[r]) \ done[r]
      /\ "create_branch" \in Allowed(request[r]) => "create_branch" \in done[r]
      BY <1>5, <1>6 DEF Allowed
<1>8. CASE UNCHANGED done BY <1>1, <1>8
<1>9. CASE done' = [done EXCEPT ![r] = @ \cup {"create_pull_request"}]
      BY <1>1, <1>3, <1>4, <1>7, <1>9, WritePerforms
<1>10. QED BY <1>8, <1>9 DEF CreatePull

(* The publish path implements the contract: an authorization is spent     *)
(* once, and what is written for it is what the owner signed, once and in  *)
(* order, whatever the runs, the owner and other users do in between.      *)
THEOREM Refinement == Spec => ImplementsContract
<1>1. Init => Contract!Init
      <2>1. SUFFICES ASSUME Init PROVE Contract!Init OBVIOUS
      <2>2. \A q \in Requests : UNION {done[r] : r \in {s \in Runs : request[s] = q}} = {}
            BY <2>1 DEF Init
      <2>3. QED BY <2>1, <2>2 DEF Init, Contract!Init
<1>2. ASSUME IInv, [Next]_vars PROVE [Contract!Next]_(Contract!vars)
      <2>1. CASE UNCHANGED <<ledger, request, done>>
            <3>1. Performed' = Performed BY <2>1, PerformedSame
            <3>2. QED BY <2>1, <3>1 DEF Contract!vars, Performed
      <2>2. ASSUME NEW r \in Runs, NEW q \in Requests, Start(r, q)
            PROVE  [Contract!Next]_(Contract!vars)
            <3>1. /\ pc[r] = "idle" /\ request' = [request EXCEPT ![r] = q]
                  /\ UNCHANGED <<ledger, done>>
                  BY <2>2 DEF Start
            <3>2. done[r] = {} BY <1>2, <3>1 DEF IInv, Local, Written
            <3>3. Performed' = Performed
                  BY <1>2, <3>1, <3>2, PerformedSame DEF IInv, TypeOK
            <3>4. QED BY <3>1, <3>3 DEF Contract!vars, Performed
      <2>3. ASSUME NEW r \in Runs, Continue(r) \/ Crash(r)
            PROVE  [Contract!Next]_(Contract!vars)
            <3>1. CASE Push(r) BY <1>2, <2>1, <3>1, PushPerforms
            <3>2. CASE UpdatePull(r) BY <1>2, <2>1, <3>2, UpdatePerforms
            <3>3. CASE CreatePull(r) BY <1>2, <2>1, <3>3, CreatePerforms
            <3>4. CASE Consume(r)
                  <4>1. UNCHANGED <<request, done>> BY <3>4 DEF Consume, localVars
                  <4>2. CASE UNCHANGED ledger BY <2>1, <4>1, <4>2
                  <4>3. CASE /\ \A c \in ledger : ~Same(c, request[r])
                             /\ ledger' = ledger \cup {request[r]}
                        <5>1. Performed' = Performed BY <4>1, PerformedSame
                        <5>2. pc[r] # "idle" BY <3>4 DEF Consume
                        <5>3. request[r] \in Requests BY <1>2, <5>2, HeadTypes DEF IInv
                        <5>4. Contract!Spend(request[r])
                              BY <4>3, <5>1 DEF Contract!Spend, Performed
                        <5>5. QED BY <5>3, <5>4 DEF Contract!Next
                  <4>4. QED BY <3>4, <4>2, <4>3 DEF Consume
            <3>5. QED BY <2>1, <2>3, <3>1, <3>2, <3>3, <3>4, QuietSteps
      <2>4. CASE Others
            BY <2>1, <2>4 DEF Others, Tick, Revoke, MoveBase, CreateBranch, DeleteBranch, OpenPull,
                              ClosePull, OutsideChange, runVars
      <2>5. QED BY <1>2, <2>1, <2>2, <2>3, <2>4 DEF Next, vars
<1>3. IInv /\ [Next]_vars => [Contract!Next]_(Contract!vars) BY <1>2
<1>4. QED BY <1>1, <1>3, Invariance, PTL DEF Spec, ImplementsContract, Contract!Spec
=============================================================================
