---------------------------- MODULE Publication ----------------------------
(***************************************************************************)
(* The publish path of migrateRepo (packages/app/src/github.ts) with the   *)
(* write-credential broker (auth.ts), the owner grant                      *)
(* (owner-authorization.ts) and the run row its caller writes              *)
(* (campaign/runner.ts), run concurrently against one GitHub repository    *)
(* that others change at the same time.                                    *)
(*                                                                         *)
(* A request stands for the owner's signed envelope together with the      *)
(* preflight it binds: the base commit, the verification result, the       *)
(* remote action and the pull request number.  The candidate tree and the  *)
(* content-addressed branch follow from the base, so both are named by it. *)
(* Every call to GitHub is a step of its own: what it observed may be out  *)
(* of date when the next step uses it.  A call may fail, and the reply to  *)
(* a write may be lost after the write took effect.  The caller's own      *)
(* database calls may throw as well, before or after they took effect.     *)
(***************************************************************************)
EXTENDS Naturals

CONSTANTS
    Runs,           \* executions of migrateRepo in publish mode
    Requests,       \* owner-signed requests
    Bases,          \* commits the base branch can point at
    None,
    Outsider,       \* author of commits this program did not make
    MaxTime,        \* bound: the clock stops here
    MaxPulls,       \* bound: pull requests opened
    MaxOutside      \* bound: changes made by others

VARIABLES
    now,            \* Date.now()
    revoked,        \* authorizations the owner-only registry lists as revoked
    base,           \* GitHub: head of the base branch
    refs,           \* GitHub: per base, head of the content-addressed branch
    pulls,          \* GitHub: per branch, number of its open pull request, or 0
    opened,         \* GitHub: pull requests opened so far
    outside,        \* changes made by others so far
    ledger,         \* requests consumed in the replay store (OwnerLedger.tla)
    pc,             \* per run: where it is
    request,        \* per run: what it was asked to publish
    found,          \* per run: branch head and pull request seen by an inspection
    reviewed,       \* per run: reviewedRemote
    grant,          \* per run: status of the owner grant
    token,          \* per run: the write token
    outcome,        \* per run: what migrateRepo returns or throws, or a later plain error
    row,            \* per run: the migration_runs row
    done,           \* history: per run, its writes to the repository
    lapsed,         \* history: runs whose authorization ended before they were armed
    unbooked        \* history: runs one of whose database calls threw

githubVars == <<base, refs, pulls, opened, outside>>
runVars == <<pc, request, found, reviewed, grant, token, outcome, row, done,
            unbooked>>
vars == <<now, revoked, base, refs, pulls, opened, outside, ledger, pc, request, found,
          reviewed, grant, token, outcome, row, done, lapsed, unbooked>>

-----------------------------------------------------------------------------
Results == {"ready", "blocked", "unchanged"}
Actions == {"create", "reuse", "update"}
Acts == {"create_branch", "create_pull_request", "update_pull_request"}
Authorizations == {q.authorization : q \in Requests}

Commit == [tree : Bases \cup {None}, parent : Bases, by : Runs \cup {Outsider}]
Remote == [head : Commit \cup {None}, pull : 0 .. MaxPulls]
Unseen == [head |-> None, pull |-> 0]
Row == [status : {"none", "queued", "failed", "blocked", "no_changes", "pr_opened"},
        head : Commit \cup {None}, pull : 0 .. MaxPulls]
RowOf(status, head, pull) == [status |-> status, head |-> head, pull |-> pull]

ASSUME PublicationAssumption ==
    /\ Outsider \notin Runs
    /\ None \notin Bases /\ None \notin Requests /\ None \notin Commit
    /\ MaxTime \in Nat /\ MaxPulls \in Nat /\ MaxOutside \in Nat
    /\ \A q \in Requests :
          /\ q.base \in Bases /\ q.result \in Results /\ q.action \in Actions
          /\ q.pull \in 0 .. MaxPulls /\ q.expiresAt \in Nat

(* An inspection of the remote state: three calls, and where it leads.     *)
Review == [base |-> "review_base", ref |-> "review_ref", pulls |-> "review_pulls",
           next |-> "verify"]
Final == [base |-> "final_base", ref |-> "final_ref", pulls |-> "final_pulls",
          next |-> "confirm"]

Unarmed == {"reproduce", "review_base", "review_ref", "review_pulls", "verify", "broker_base",
            "consume", "mark", "mint_base", "mint_grant", "mint", "minted_base", "minted_grant"}
Armed == {"final_base", "final_ref", "final_pulls", "confirm", "push", "pull"}
Ending == {"cleanup", "record", "persist"}
Active == Unarmed \cup Armed \cup Ending
Over == {"ended", "rejected"}
Steps == Active \cup Over \cup {"idle", "crashed"}

TypeOK ==
    /\ now \in 0 .. MaxTime
    /\ revoked \subseteq Authorizations
    /\ base \in Bases
    /\ refs \in [Bases -> Commit \cup {None}]
    /\ pulls \in [Bases -> 0 .. MaxPulls]
    /\ opened \in 0 .. MaxPulls
    /\ outside \in 0 .. MaxOutside
    /\ ledger \subseteq Requests
    /\ pc \in [Runs -> Steps]
    /\ request \in [Runs -> Requests \cup {None}]
    /\ found \in [Runs -> Remote]
    /\ reviewed \in [Runs -> Remote]
    /\ grant \in [Runs -> {"none", "verified", "consumed"}]
    /\ token \in [Runs -> {"none", "live", "lost", "revoked"}]
    /\ outcome \in [Runs -> Row]
    /\ row \in [Runs -> Row]
    /\ done \in [Runs -> SUBSET Acts]
    /\ lapsed \subseteq Runs
    /\ unbooked \subseteq Runs
    /\ \A r \in Runs : pc[r] = "idle" <=> request[r] = None

Init ==
    /\ now = 0
    /\ revoked = {}
    /\ base \in Bases
    /\ refs = [b \in Bases |-> None]
    /\ pulls = [b \in Bases |-> 0]
    /\ opened = 0
    /\ outside = 0
    /\ ledger = {}
    /\ pc = [r \in Runs |-> "idle"]
    /\ request = [r \in Runs |-> None]
    /\ found = [r \in Runs |-> Unseen]
    /\ reviewed = [r \in Runs |-> Unseen]
    /\ grant = [r \in Runs |-> "none"]
    /\ token = [r \in Runs |-> "none"]
    /\ outcome = [r \in Runs |-> RowOf("none", None, 0)]
    /\ row = [r \in Runs |-> RowOf("none", None, 0)]
    /\ done = [r \in Runs |-> {}]
    /\ lapsed = {}
    /\ unbooked = {}

-----------------------------------------------------------------------------
Same(q, s) == q.authorization = s.authorization

(* ownerAuthorizedRemoteAction: what each remote state lets the owner sign.*)
Allowed(q) ==
    IF q.result # "ready" THEN {}
    ELSE CASE q.action = "create" -> {"create_branch", "create_pull_request"}
           [] q.action = "reuse"  -> {"create_pull_request"}
           [] OTHER               -> {"update_pull_request"}

RemoteAction(remote) ==
    IF remote.head = None THEN "create" ELSE IF remote.pull = 0 THEN "reuse" ELSE "update"

(* assertPayloadTimes and the registry check: neither expired nor revoked. *)
Current(q) == now < q.expiresAt /\ q.authorization \notin revoked

\* Plausible bug: the tree of an existing branch is not compared.
MatchesArtifactParentOnly(commit, q) == commit.parent = q.base

(* assertRemoteBranchMatchesArtifact                                       *)
MatchesArtifact(commit, q) == commit.tree = q.base /\ commit.parent = q.base

(* The local migration commit of run r.                                    *)
OwnCommit(r) == [tree |-> request[r].base, parent |-> request[r].base, by |-> r]

(* expectedHeadSha *)
ExpectedHead(r) == IF found[r].head = None THEN OwnCommit(r) ELSE found[r].head

Goto(r, step) == pc' = [pc EXCEPT ![r] = step]

(* Leave the try block with this outcome; the finally block comes next.    *)
Leave(r, status, head, pull) ==
    /\ outcome' = [outcome EXCEPT ![r] = RowOf(status, head, pull)]
    /\ Goto(r, "cleanup")

(* A plain Error: buildFailedRunPatch records a status and nothing else.   *)
Fail(r) == Leave(r, "failed", None, 0)

\* Go on if the check holds, otherwise throw.
Check(r, holds, step) ==
    \/ holds /\ Goto(r, step) /\ UNCHANGED outcome
    \/ ~holds /\ Fail(r)

localVars == <<request, found, reviewed, grant, token, row, done, lapsed, unbooked>>
worldVars == <<now, revoked, base, refs, pulls, opened, outside>>

-----------------------------------------------------------------------------
(* runCampaign's worker: createRun, then migrateRepo.  If createRun throws *)
(* after its insert the worker rejects and leaves a queued row.            *)
Start(r, q) ==
    /\ pc[r] = "idle"
    /\ request' = [request EXCEPT ![r] = q]
    /\ row' = [row EXCEPT ![r] = RowOf("queued", None, 0)]
    /\ lapsed' = IF Current(q) THEN lapsed ELSE lapsed \cup {r}
    /\ \/ Goto(r, "reproduce") /\ UNCHANGED unbooked
       \/ Goto(r, "rejected") /\ unbooked' = unbooked \cup {r}
    /\ UNCHANGED <<worldVars, ledger, found, reviewed, grant, token, outcome, done>>

(* Clone, migrate and verify again, and compare the preflight ids.         *)
Reproduce(r) ==
    LET q == request[r]
    IN  /\ pc[r] = "reproduce"
        /\ \E result \in Results :
              \/ /\ base # q.base \/ result # q.result
                 /\ Fail(r)
              \/ /\ base = q.base /\ result = q.result
                 /\ \/ result = "unchanged" /\ Leave(r, "no_changes", None, 0)
                    \/ result = "blocked" /\ Leave(r, "blocked", None, 0)
                    \/ result = "ready" /\ Goto(r, "review_base") /\ UNCHANGED outcome
        /\ UNCHANGED <<worldVars, ledger, localVars>>

(* inspectRemotePublicationState: the base branch ...                      *)
InspectBase(r, at) ==
    /\ pc[r] = at.base
    /\ Check(r, base = request[r].base, at.ref)
    /\ UNCHANGED <<worldVars, ledger, localVars>>

(* ... the migration branch; 404 means that it has to be pushed ...        *)
InspectRef(r, at) ==
    LET head == refs[request[r].base]
    IN  /\ pc[r] = at.ref
        /\ found' = [found EXCEPT ![r] = [head |-> head, pull |-> 0]]
        /\ Goto(r, IF head = None THEN at.next ELSE at.pulls)
        /\ UNCHANGED <<worldVars, ledger, request, reviewed, grant, token, outcome, row, done,
                       lapsed, unbooked>>

(* ... its commit, which never changes, and its open pull request.         *)
InspectPulls(r, at) ==
    LET q == request[r]
    IN  /\ pc[r] = at.pulls
        /\ Check(r, MatchesArtifact(found[r].head, q), at.next)
        /\ found' = [found EXCEPT ![r].pull = pulls[q.base]]
        /\ UNCHANGED <<worldVars, ledger, request, reviewed, grant, token, row, done, lapsed,
                       unbooked>>

(* verifyOwnerAuthorizationEnvelope against the bindings of the reviewed   *)
(* remote state, then the local commit.                                    *)
Verify(r) ==
    LET q == request[r]
    IN  /\ pc[r] = "verify"
        /\ reviewed' = [reviewed EXCEPT ![r] = found[r]]
        /\ \/ /\ RemoteAction(found[r]) = q.action /\ found[r].pull = q.pull
              /\ Current(q)
              /\ grant' = [grant EXCEPT ![r] = "verified"]
              /\ Goto(r, "broker_base")
              /\ UNCHANGED outcome
           \/ /\ RemoteAction(found[r]) # q.action \/ found[r].pull # q.pull \/ ~Current(q)
              /\ Fail(r)
              /\ UNCHANGED grant
        /\ UNCHANGED <<worldVars, ledger, request, found, token, row, done, lapsed, unbooked>>

-----------------------------------------------------------------------------
(* resolveAuthorizedWriteAuth: assertLiveReadIdentityAndBase, called before*)
(* the consumption, before minting and after minting.                      *)
LiveBase(r, at, step) ==
    /\ pc[r] = at
    /\ Check(r, base = request[r].base, step)
    /\ UNCHANGED <<worldVars, ledger, localVars>>

(* assertCurrentOwnerGrant, ownerAuthorizationConsumption and              *)
(* consumeOwnerAuthorization: refused, accepted, or committed to the store *)
(* and then refused by its later checks.                                   *)
Consume(r) ==
    LET q == request[r]
    IN  /\ pc[r] = "consume"
        /\ \/ Fail(r) /\ UNCHANGED ledger
           \/ /\ Current(q)
              /\ \A s \in ledger : ~Same(s, q)
              /\ ledger' = ledger \cup {q}
              /\ \/ Goto(r, "mark") /\ UNCHANGED outcome
                 \/ Fail(r)
        /\ UNCHANGED <<worldVars, localVars>>

(* markGrantConsumed: the clock and the registry are read once more.       *)
Mark(r) ==
    /\ pc[r] = "mark"
    /\ Check(r, Current(request[r]), "mint_base")
    /\ grant' = [grant EXCEPT ![r] = IF Current(request[r]) THEN "consumed" ELSE @]
    /\ UNCHANGED <<worldVars, ledger, request, found, reviewed, token, row, done, lapsed, unbooked>>

(* assertCurrentConsumedOwnerGrant, in beforeMint and in afterMint.        *)
ConsumedGrantStillCurrent(r, at, step) ==
    /\ pc[r] = at
    /\ Check(r, grant[r] = "consumed" /\ Current(request[r]), step)
    /\ UNCHANGED <<worldVars, ledger, localVars>>

(* GitHub issues an installation token; if the reply is lost nobody knows  *)
(* the token.                                                              *)
Mint(r) ==
    /\ pc[r] = "mint"
    /\ \/ /\ token' = [token EXCEPT ![r] = "live"]
          /\ Goto(r, "minted_base")
          /\ UNCHANGED outcome
       \/ /\ token' = [token EXCEPT ![r] = "lost"]
          /\ Fail(r)
    /\ UNCHANGED <<worldVars, ledger, request, found, reviewed, grant, row, done, lapsed, unbooked>>

-----------------------------------------------------------------------------
\* Plausible bug: the second inspection is not compared with the first.
ConfirmNothing(r) ==
    /\ pc[r] = "confirm"
    /\ Goto(r, IF found[r].head = None THEN "push" ELSE "pull")
    /\ UNCHANGED <<worldVars, ledger, outcome, localVars>>

(* assertRemotePublicationStateUnchanged                                   *)
Confirm(r) ==
    /\ pc[r] = "confirm"
    /\ Check(r, found[r] = reviewed[r], IF found[r].head = None THEN "push" ELSE "pull")
    /\ UNCHANGED <<worldVars, ledger, localVars>>

\* Plausible bug: a refused push is waited for.
PushWaits(r) ==
    /\ pc[r] = "push"
    /\ refs[request[r].base] = None
    /\ refs' = [refs EXCEPT ![request[r].base] = OwnCommit(r)]
    /\ done' = [done EXCEPT ![r] = @ \cup {"create_branch"}]
    /\ Goto(r, "pull")
    /\ UNCHANGED <<now, revoked, base, pulls, opened, outside, ledger, request, found, reviewed,
                   grant, token, outcome, row, lapsed, unbooked>>

(* git push --force-with-lease=<branch>: with an empty expectation creates *)
(* the branch only while it is absent.  git may report failure, or time    *)
(* out, after GitHub has accepted the push.                                *)
Push(r) ==
    /\ pc[r] = "push"
    /\ \/ Fail(r) /\ UNCHANGED <<refs, done>>
       \/ /\ refs[request[r].base] = None
          /\ refs' = [refs EXCEPT ![request[r].base] = OwnCommit(r)]
          /\ done' = [done EXCEPT ![r] = @ \cup {"create_branch"}]
          /\ \/ Goto(r, "pull") /\ UNCHANGED outcome
             \/ Fail(r)
    /\ UNCHANGED <<now, revoked, base, pulls, opened, outside, ledger, request, found, reviewed,
                   grant, token, row, lapsed, unbooked>>

(* The head and base of the pull request in GitHub's reply are the expected*)
(* ones.                                                                   *)
ReplyMatches(r) == refs[request[r].base] = ExpectedHead(r) /\ base = request[r].base

(* reconcilePrWithAudit with an existing pull request.  If it was closed   *)
(* in the meantime GitHub still knows it; any failure keeps the audit.     *)
UpdatePull(r) ==
    LET b == request[r].base
    IN  /\ pc[r] = "pull"
        /\ found[r].pull # 0
        /\ \/ /\ done' = [done EXCEPT ![r] = @ \cup {"update_pull_request"}]
              /\ \/ /\ ReplyMatches(r) \/ pulls[b] # found[r].pull
                    /\ Leave(r, "pr_opened", ExpectedHead(r), found[r].pull)
                 \/ Leave(r, "failed", ExpectedHead(r), 0)
           \/ Leave(r, "failed", ExpectedHead(r), 0) /\ UNCHANGED done
        /\ UNCHANGED <<worldVars, ledger, request, found, reviewed, grant, token, row, lapsed,
                       unbooked>>

(* reconcilePrWithAudit without one.  A pull request that GitHub reports   *)
(* with another head, base or address stays open and is part of the audit; *)
(* if the reply is lost the audit has the branch only.                     *)
CreatePull(r) ==
    LET b == request[r].base
        n == opened + 1
        head == ExpectedHead(r)
    IN  /\ pc[r] = "pull"
        /\ found[r].pull = 0
        /\ \/ /\ refs[b] # None /\ pulls[b] = 0 /\ opened < MaxPulls
              /\ pulls' = [pulls EXCEPT ![b] = n]
              /\ opened' = n
              /\ done' = [done EXCEPT ![r] = @ \cup {"create_pull_request"}]
              /\ \/ ReplyMatches(r) /\ Leave(r, "pr_opened", head, n)
                 \/ Leave(r, "failed", head, n)
                 \/ Leave(r, "failed", head, 0)
           \/ Leave(r, "failed", head, 0) /\ UNCHANGED <<pulls, opened, done>>
        /\ UNCHANGED <<now, revoked, base, refs, outside, ledger, request, found, reviewed, grant,
                       token, row, lapsed, unbooked>>

(* A call to GitHub or to git fails without an effect.                     *)
CallFails(r) ==
    /\ pc[r] \in (Unarmed \cup Armed) \ {"mark", "confirm", "push", "pull"}
    /\ Fail(r)
    /\ UNCHANGED <<worldVars, ledger, localVars>>

(* The finally block: the token is revoked, if GitHub answers.  A thrown   *)
(* error goes on to the catch block of the caller.                         *)
Cleanup(r) ==
    /\ pc[r] = "cleanup"
    /\ \/ token' = [token EXCEPT ![r] = IF @ = "live" THEN "revoked" ELSE @]
       \/ UNCHANGED token
    /\ Goto(r, IF outcome[r].status = "failed" THEN "persist" ELSE "record")
    /\ UNCHANGED <<worldVars, ledger, request, found, reviewed, grant, outcome, row, done, lapsed,
                   unbooked>>

(* Store this row and go on; or the call throws, before or after its       *)
(* update was committed.                                                   *)
Stored(r, new, step) ==
    /\ row' = [row EXCEPT ![r] = new]
    /\ Goto(r, step)
    /\ UNCHANGED unbooked

Thrown(r, new, step) ==
    /\ \/ row' = [row EXCEPT ![r] = new]
       \/ UNCHANGED row
    /\ Goto(r, step)
    /\ unbooked' = unbooked \cup {r}

(* The rest of the try block, upsertRepo and updateRun: what they throw is *)
(* caught like a failed migration, but is a plain error without audit.     *)
Record(r) ==
    /\ pc[r] = "record"
    /\ \/ Stored(r, outcome[r], "ended") /\ UNCHANGED outcome
       \/ /\ Thrown(r, outcome[r], "persist")
          /\ outcome' = [outcome EXCEPT ![r] = RowOf("failed", None, 0)]
    /\ UNCHANGED <<worldVars, ledger, request, found, reviewed, grant, token, done, lapsed>>

\* Plausible bug: the audit of a failed publication is dropped.
PatchStatusOnly(r) == [row[r] EXCEPT !.status = "failed"]

(* buildFailedRunPatch: a PublicationAttemptError carries a complete row;  *)
(* of any other error the status is written and other columns stay.        *)
Patch(r) == IF outcome[r].head = None THEN [row[r] EXCEPT !.status = "failed"] ELSE outcome[r]

(* persistFailedRun, in the catch block: if it throws the worker rejects.  *)
Persist(r) ==
    /\ pc[r] = "persist"
    /\ Stored(r, Patch(r), "ended") \/ Thrown(r, Patch(r), "rejected")
    /\ UNCHANGED <<worldVars, ledger, request, found, reviewed, grant, token, outcome, done,
                   lapsed>>

(* The process dies; the row stays queued and the token alive.             *)
Crash(r) ==
    /\ pc[r] \in Active
    /\ Goto(r, "crashed")
    /\ UNCHANGED <<worldVars, ledger, outcome, localVars>>

-----------------------------------------------------------------------------
(* The history of authorizations that end before the run holds a checked   *)
(* write token.                                                            *)
Lapse(ended(_)) ==
    lapsed' = lapsed \cup {r \in Runs : pc[r] \in Unarmed /\ ended(request[r])}

Tick ==
    /\ now < MaxTime
    /\ now' = now + 1
    /\ Lapse(LAMBDA q : q.expiresAt <= now + 1)
    /\ UNCHANGED <<revoked, githubVars, ledger, runVars>>

(* The owner revokes an authorization, or the key that signed it.          *)
Revoke(a) ==
    /\ a \notin revoked
    /\ revoked' = revoked \cup {a}
    /\ Lapse(LAMBDA q : q.authorization = a)
    /\ UNCHANGED <<now, githubVars, ledger, runVars>>

(* Other users of the repository.                                          *)
OutsideChange ==
    /\ outside < MaxOutside
    /\ outside' = outside + 1
    /\ UNCHANGED <<now, revoked, ledger, runVars, lapsed>>

MoveBase ==
    /\ OutsideChange
    /\ base' \in Bases \ {base}
    /\ UNCHANGED <<refs, pulls, opened>>

\* The branch appears, with the right content or with another one, alone or
\* with its pull request: a campaign elsewhere can leave either.
CreateBranch(b) ==
    /\ OutsideChange
    /\ \E tree \in {b, None} :
          refs' = [refs EXCEPT ![b] = [tree |-> tree, parent |-> b, by |-> Outsider]]
    /\ \/ UNCHANGED <<pulls, opened>>
       \/ /\ pulls[b] = 0 /\ opened < MaxPulls
          /\ pulls' = [pulls EXCEPT ![b] = opened + 1]
          /\ opened' = opened + 1
    /\ UNCHANGED base

\* Deleting a branch closes its pull request.
DeleteBranch(b) ==
    /\ OutsideChange
    /\ refs[b] # None
    /\ refs' = [refs EXCEPT ![b] = None]
    /\ pulls' = [pulls EXCEPT ![b] = 0]
    /\ UNCHANGED <<base, opened>>

OpenPull(b) ==
    /\ OutsideChange
    /\ refs[b] # None /\ pulls[b] = 0 /\ opened < MaxPulls
    /\ pulls' = [pulls EXCEPT ![b] = opened + 1]
    /\ opened' = opened + 1
    /\ UNCHANGED <<base, refs>>

ClosePull(b) ==
    /\ OutsideChange
    /\ pulls[b] # 0
    /\ pulls' = [pulls EXCEPT ![b] = 0]
    /\ UNCHANGED <<base, refs, opened>>

-----------------------------------------------------------------------------
Inspect(r, at) == InspectBase(r, at) \/ InspectRef(r, at) \/ InspectPulls(r, at)

Broker(r) ==
    \/ LiveBase(r, "broker_base", "consume")
    \/ Consume(r)
    \/ Mark(r)
    \/ LiveBase(r, "mint_base", "mint_grant")
    \/ ConsumedGrantStillCurrent(r, "mint_grant", "mint")
    \/ Mint(r)
    \/ LiveBase(r, "minted_base", "minted_grant")
    \/ ConsumedGrantStillCurrent(r, "minted_grant", "final_base")

Continue(r) ==
    \/ Reproduce(r) \/ Inspect(r, Review) \/ Verify(r) \/ Broker(r)
    \/ Inspect(r, Final) \/ Confirm(r) \/ Push(r) \/ UpdatePull(r) \/ CreatePull(r)
    \/ CallFails(r) \/ Cleanup(r) \/ Record(r) \/ Persist(r)

Others ==
    \/ Tick
    \/ \E a \in Authorizations : Revoke(a)
    \/ MoveBase
    \/ \E b \in Bases : CreateBranch(b) \/ DeleteBranch(b) \/ OpenPull(b) \/ ClosePull(b)

Next ==
    \/ Others
    \/ \E r \in Runs : (\E q \in Requests : Start(r, q)) \/ Continue(r) \/ Crash(r)

Spec == Init /\ [][Next]_vars

(* Calls to GitHub return, and gitExec kills git after five minutes: some  *)
(* run under way always gets further.                                      *)
FairSpec == Spec /\ WF_vars(\E r \in Runs : Continue(r))

-----------------------------------------------------------------------------
(* "The sole write-credential broker": of all runs, concurrent or later,   *)
(* whose requests carry one owner authorization at most one is ever given  *)
(* a write token.                                                          *)
OneWriteTokenPerAuthorization ==
    \A r, s \in Runs :
        /\ token[r] # "none" /\ token[s] # "none"
        /\ Same(request[r], request[s])
        => r = s

(* Expiry or revocation that comes before the last check of the minted     *)
(* credential stops every write ("Durable consumption prevents replay but  *)
(* never disables expiry or revocation").                                  *)
LapsedNeverWrites == \A r \in lapsed : done[r] = {}

(* A run that reports an opened pull request reports a head with exactly   *)
(* the tree and the parent its owner approved, whoever made that commit,   *)
(* and its authorization is in the replay store.                           *)
PublishedIsApproved ==
    \A r \in Runs : row[r].status = "pr_opened" =>
        /\ row[r].head.tree = request[r].base /\ row[r].head.parent = request[r].base
        /\ row[r].pull # 0
        /\ request[r] \in ledger

(* A row names a branch head of this run or a pull request only if this    *)
(* run made the branch, or wrote to the pull requests.  And a run that got *)
(* as far as the pull request leaves the branch head in its row, however   *)
(* the reconciliation ended (PublicationAttemptAudit): it is missing only  *)
(* if a database call threw as well, and then the row is failed or queued, *)
(* never one that reports success.                                         *)
RowTellsWhatWasDone ==
    \A r \in Runs :
        /\ row[r].head # None /\ row[r].head.by = r => "create_branch" \in done[r]
        /\ row[r].pull # 0 => done[r] \ {"create_branch"} # {}
        /\ pc[r] \in Over /\ done[r] \ {"create_branch"} # {} =>
              \/ row[r].head # None
              \/ r \in unbooked /\ row[r].status \in {"failed", "queued"}

(* "Create an immutable branch only while the remote ref is still absent": *)
(* this program never moves an existing branch.                            *)
BranchNeverMoved ==
    [][\A b \in Bases :
          refs'[b] # refs[b] /\ refs'[b] # None /\ refs'[b].by \in Runs => refs[b] = None]_refs

(* Each owner authorization is spent at most once and only the writes it   *)
(* allows are made, each at most once and in order.                        *)
Contract == INSTANCE PublicationContract WITH
    spent <- ledger,
    performed <- [q \in Requests |-> UNION {done[r] : r \in {s \in Runs : request[s] = q}}]
ImplementsContract == Contract!Spec

(* A started run ends with a final row, unless its process dies or its     *)
(* worker rejects because the database throws: again and again every other *)
(* run is over and its row is neither missing nor queued.                  *)
RunsEnd ==
    []<>(\A r \in Runs :
            \/ pc[r] \in {"idle", "crashed", "rejected"}
            \/ pc[r] = "ended" /\ row[r].status \notin {"none", "queued"})

(* campaign/runner.ts: a handled failure is persisted "including exact     *)
(* branch state when publication had already mutated GitHub".              *)
MutationIsRecorded ==
    \A r \in Runs : pc[r] = "ended" /\ done[r] # {} => row[r].head # None
=============================================================================
