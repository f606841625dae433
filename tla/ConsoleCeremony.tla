-------------------------- MODULE ConsoleCeremony --------------------------
(***************************************************************************)
(* The publication ceremony of the console and the repository owner: the   *)
(* POST handler of app/api/campaigns/[id]/runs, the one-shot tokens of     *)
(* lib/approval.ts, the process run lock of lib/run-lock.ts, the owner     *)
(* challenge (owner-challenge.ts, owner-challenge-preparation.ts), the     *)
(* owner's offline signer (owner-signer.ts), the owner's key registry and  *)
(* the verification of an envelope (owner-authorization.ts).               *)
(*                                                                         *)
(*   preview -> preview receipt -> owner challenge -> owner envelope       *)
(*           -> operator approval -> publication                           *)
(*                                                                         *)
(* The challenge leaves the server as a file, the envelope comes back as   *)
(* text: the owner signs whenever it likes, and the registry changes at    *)
(* any moment.                                                             *)
(*                                                                         *)
(* Tokens are HMAC-signed, so a client can present any token the server    *)
(* issued, at any time and as often as it likes, and no other.  Which      *)
(* tokens were used is kept in two maps of the server process; a restart   *)
(* empties them while the tokens stay valid.  The handlers are JavaScript: *)
(* what happens between two awaits is one step, but Date.now() may return  *)
(* different values within it.                                             *)
(*                                                                         *)
(* A refused request changes at most which dead entries a map still holds, *)
(* which every later access drops anyway; it is a stuttering step here.    *)
(***************************************************************************)
EXTENDS Naturals, FiniteSets

CONSTANTS
    Handlers,             \* concurrent invocations of POST
    Authorizations,       \* authorization ids an owner may sign under
    Entries,              \* entries the registry may hold for the owner and the repository
    FirstEntry,
    AuthorizationEnd,     \* per incarnation: API_MIGRATOR_PRE_RUN_AUTHORIZATION_EXPIRES_AT
    TokenTtl,             \* TOKEN_TTL_MS, OWNER_AUTHORIZATION_CHALLENGE_MAX_AGE_MS: ten minutes
    OwnerTtl,             \* OWNER_AUTHORIZATION_MAX_TTL_MS: thirty minutes
    Ttls,                 \* lifetimes an owner may ask for
    MaxTime,              \* bound: the clock stops here
    MaxPreviews,          \* bounds: tokens issued of each kind
    MaxChallenges,
    MaxApprovals,
    MaxEnvelopes,
    MaxChanges,           \* bound: rewritings of the registry
    MaxRestarts,          \* bound: restarts of the server process
    None,
    GateOpen              \* FALSE in this commit: isRunnerCapabilityActionBlocked refuses
                          \* every post-preview action; TRUE exposes the handlers behind it

ASSUME CeremonyAssumption ==
    /\ TokenTtl \in Nat \ {0} /\ OwnerTtl \in Nat \ {0}
    /\ Ttls \subseteq 1 .. OwnerTtl
    /\ \A n \in Entries : n.from \in Nat /\ n.until \in Nat /\ n.from < n.until
    /\ FirstEntry \in Entries
    /\ AuthorizationEnd \in [0 .. MaxRestarts -> Nat \ {0}]
    /\ MaxTime \in Nat /\ MaxRestarts \in Nat
    /\ MaxPreviews \in Nat /\ MaxChallenges \in Nat /\ MaxApprovals \in Nat
    /\ MaxEnvelopes \in Nat /\ MaxChanges \in Nat
    /\ GateOpen \in BOOLEAN

VARIABLES
    now,            \* Date.now()
    incarnation,    \* which server process this is
    active,         \* run-lock.ts: operations under the lock
    previews,       \* preview receipts issued
    challenges,     \* owner-challenge receipts issued
    approvals,      \* operator approval tokens issued
    envelopes,      \* envelope files the owner wrote
    registry,       \* the owner's key registry: [entry, revokedAuthorizations]
    changes,        \* how often the registry was rewritten
    usedPreviews,   \* consumedPreviewReceipts
    usedApprovals,  \* consumedOperatorApprovals
    pc,             \* per handler: where it is
    arg,            \* per handler: the token it works on
    envelope,       \* per handler: the envelope it was sent
    ledger,         \* envelopes in the durable replay store (ReplayStore.tla)
    executions,     \* history: publications admitted under the lock
    writes          \* history: write tokens minted

tokenVars == <<previews, challenges, approvals>>
ownerVars == <<envelopes, registry, changes>>
usedVars == <<usedPreviews, usedApprovals>>
handlerVars == <<pc, arg, envelope>>
vars == <<now, incarnation, active, previews, challenges, approvals, envelopes, registry,
          changes, usedPreviews, usedApprovals, pc, arg, envelope, ledger, executions, writes>>

-----------------------------------------------------------------------------
Init ==
    /\ now = 0
    /\ incarnation = 0
    /\ active = 0
    /\ previews = {} /\ challenges = {} /\ approvals = {} /\ envelopes = {}
    /\ registry = [entry |-> FirstEntry, revokedAuthorizations |-> {}]
    /\ changes = 0
    /\ usedPreviews = {} /\ usedApprovals = {}
    /\ pc = [h \in Handlers |-> "idle"]
    /\ arg = [h \in Handlers |-> None]
    /\ envelope = [h \in Handlers |-> None]
    /\ ledger = {}
    /\ executions = {}
    /\ writes = {}

-----------------------------------------------------------------------------
\* Plausible bug: an entry is dropped one tick before its expiry.
PruneEarly(used, t) == {u \in used : u.until > t + 1}

(* assertOneShotUnused first drops every entry whose expiry has passed ... *)
Prune(used, t) == {u \in used : u.until > t}

(* ... and then refuses a token that is still in the map.                  *)
Unused(used, token, t) == \A u \in Prune(used, t) : u.token # token

(* verifyPreviewReceipt at time t.                                         *)
PreviewUsable(p, t) == p.expiresAt > t /\ Unused(usedPreviews, p, t)

(* verifyOwnerChallengeReceipt at time t: the challenge and the preview it *)
(* was made from, which has to be a version 1 receipt.                     *)
ChallengeUsable(c, t) ==
    /\ c.expiresAt > t
    /\ PreviewUsable(c.preview, t)
    /\ c.preview.version = 1
    /\ c.expiresAt <= c.preview.expiresAt

(* What prepareCampaignOwnerChallenge insists on at time t, beside the     *)
(* rerun reproducing the preview: the receipt lives, the authorization of  *)
(* the pilot too, and the preview is not too old.                          *)
Preparable(p, t) ==
    /\ p.expiresAt > t
    /\ p.expiresAt - t <= TokenTtl
    /\ t - p.completedAt <= TokenTtl
    /\ AuthorizationEnd[incarnation] > t
    /\ AuthorizationEnd[incarnation] > p.completedAt

Earliest(times) == CHOOSE t \in times : \A u \in times : t <= u

(* The challenge made at time t.  Its digest covers everything but the     *)
(* nonce of the receipt around it, for which the id stands.                *)
ChallengeOf(id, p, t) ==
    LET end == AuthorizationEnd[incarnation]
    IN  [id |-> id, preview |-> p, createdAt |-> t, authorizationExpiresAt |-> end,
         expiresAt |-> Earliest({t + OwnerTtl, p.expiresAt, end})]

ChallengeDigest(c) == [c EXCEPT !.id = 0]

(* parseOwnerAuthorizationChallenge at the signing clock.                  *)
ChallengeSignable(c, t) ==
    /\ c.createdAt <= t
    /\ t < c.expiresAt
    /\ c.expiresAt - c.createdAt <= OwnerTtl
    /\ c.createdAt - c.preview.completedAt <= TokenTtl
    /\ c.expiresAt <= c.authorizationExpiresAt

(* assertPayloadTimes: the window of the envelope and of the authorization.*)
InTime(e, t) ==
    /\ e.issuedAt <= t
    /\ t < e.expiresAt
    /\ e.expiresAt <= e.challenge.authorizationExpiresAt

(* readAndSelectRegistryKey on the registry as it is now: one entry for    *)
(* the signer and the repository, neither it nor the authorization revoked.*)
Registered(e, t) ==
    LET n == registry.entry
    IN  /\ e.authorization \notin registry.revokedAuthorizations
        /\ n.key = e.key
        /\ ~n.revoked
        /\ n.from <= e.issuedAt /\ n.from <= t
        /\ e.expiresAt <= n.until /\ t < n.until

\* Plausible bug: any envelope for the same runtime bindings will do.
VerifiedForPreview(e, c, t) ==
    /\ e.challenge.preview = c.preview
    /\ e.challenge.authorizationExpiresAt = AuthorizationEnd[incarnation]
    /\ InTime(e, t)
    /\ Registered(e, t)

(* verifyOwnerAuthorizationEnvelope against challenge c at time t: the     *)
(* envelope was signed for this very challenge, and its bindings are those *)
(* of the rerun under the policy of this server process.                   *)
Verified(e, c, t) ==
    /\ ChallengeDigest(e.challenge) = ChallengeDigest(c)
    /\ e.challenge.preview = c.preview
    /\ e.challenge.authorizationExpiresAt = AuthorizationEnd[incarnation]
    /\ InTime(e, t)
    /\ Registered(e, t)

(* A token carries a fresh random nonce; an id stands for it.              *)
NextId(issued) == Cardinality(issued) + 1

Set(h, step, a, e) ==
    /\ pc' = [pc EXCEPT ![h] = step]
    /\ arg' = [arg EXCEPT ![h] = a]
    /\ envelope' = [envelope EXCEPT ![h] = e]

Reset(h) == Set(h, "idle", None, None)

(* consumeOneShot *)
Spend(used, token, until, t) == Prune(used, t) \cup {[token |-> token, until |-> until]}

\* Plausible bug: the challenge is spent, not the preview receipt under it.
SpendChallenge(c, t) == Spend(usedPreviews, c, c.expiresAt, t)

(* prepareOperatorApproval keeps the spent preview receipt in the map for  *)
(* the receipt's own lifetime, "even when an owner authorization makes the *)
(* bound challenge expire sooner".                                         *)
SpendPreview(c, t) == Spend(usedPreviews, c.preview, c.preview.expiresAt, t)

ApprovalExpiry(c, t) == IF c.expiresAt < t + TokenTtl THEN c.expiresAt ELSE t + TokenTtl

(* withRunLock: a busy lock refuses, otherwise the counter goes up ...     *)
Acquire(h) == pc[h] = "idle" /\ active < 1 /\ active' = active + 1

(* ... and the finally block brings it down on every way out.              *)
Release == active' = active - 1

(* isRunnerCapabilityActionBlocked answers false.                          *)
CapabilityGate == GateOpen

-----------------------------------------------------------------------------
(* action "preview": runCampaign under the lock.                           *)
PreviewStart(h) ==
    /\ Acquire(h)
    /\ Set(h, "previewing", None, None)
    /\ UNCHANGED <<now, incarnation, tokenVars, ownerVars, usedVars, ledger, executions, writes>>

\* Plausible bug: a run without a ready preview leaves the lock taken.
PreviewRanKeepsLock(h) ==
    /\ pc[h] = "previewing"
    /\ Reset(h)
    /\ UNCHANGED <<now, incarnation, active, tokenVars, ownerVars, usedVars, ledger, executions, writes>>

(* The run ends; the handler goes on outside the lock, with a ready        *)
(* preview completed at this time, or without one.                         *)
PreviewRan(h) ==
    /\ pc[h] = "previewing"
    /\ Release
    /\ \/ /\ Cardinality(previews) + Cardinality({g \in Handlers : pc[g] = "previewed"})
                < MaxPreviews
          /\ Set(h, "previewed", now, None)
       \/ Reset(h)
    /\ UNCHANGED <<now, incarnation, tokenVars, ownerVars, usedVars, ledger, executions, writes>>

(* createPreviewReceipt: a receipt of version 1 lives from its creation,   *)
(* one of version 2, for a captured local execution, from the completion.  *)
IssuePreview(h) ==
    /\ pc[h] = "previewed"
    /\ \E v \in {1, 2} :
          LET expiry == (IF v = 1 THEN now ELSE arg[h]) + TokenTtl
          IN  previews' = previews \cup
                  {p \in {[id |-> NextId(previews), version |-> v, completedAt |-> arg[h],
                           expiresAt |-> expiry]} : expiry > now}
    /\ Reset(h)
    /\ UNCHANGED <<now, incarnation, active, challenges, approvals, ownerVars, usedVars,
                   ledger, executions, writes>>

-----------------------------------------------------------------------------
(* action "prepare_owner_challenge": the receipt is checked, then the      *)
(* repository is rerun across an await.                                    *)
ChallengeStart(h, p) ==
    /\ CapabilityGate
    /\ Acquire(h)
    /\ usedPreviews' = Prune(usedPreviews, now)
    /\ PreviewUsable(p, now)
    /\ Set(h, "challenging", p, None)
    /\ UNCHANGED <<now, incarnation, tokenVars, ownerVars, usedApprovals, ledger, executions, writes>>

(* The rerun prepares the challenge, the receipt is checked again and a    *)
(* challenge receipt made; or the action fails.                            *)
ChallengeFinish(h) ==
    LET p == arg[h]
        c == ChallengeOf(NextId(challenges), p, now)
    IN  /\ pc[h] = "challenging"
        /\ Release
        /\ Reset(h)
        /\ usedPreviews' = Prune(usedPreviews, now)
        /\ \/ UNCHANGED challenges
           \/ /\ Cardinality(challenges) < MaxChallenges
              /\ Preparable(p, now)
              /\ PreviewUsable(p, now)
              /\ p.version = 1
              /\ c.expiresAt > now /\ c.expiresAt <= p.expiresAt
              /\ challenges' = challenges \cup {c}
        /\ UNCHANGED <<now, incarnation, previews, approvals, ownerVars, usedApprovals, ledger,
                       executions, writes>>

-----------------------------------------------------------------------------
(* assertRegistryKeyCorrespondence: the authorization is not revoked, and  *)
(* the one entry of the signer has its key, not revoked.                   *)
Correspond(key, a) ==
    /\ a \notin registry.revokedAuthorizations
    /\ registry.entry.key = key
    /\ ~registry.entry.revoked

(* writeNewOwnerOnlyExternalFile: a new file, or none.                     *)
WriteEnvelope(e) == envelopes' = envelopes \cup {e}

(* signOwnerAuthorizationChallengeFile: the owner reviewed this challenge  *)
(* and signs it under one of its authorization ids.  The envelope never    *)
(* outlives the challenge, and the runtime verifier is asked before the    *)
(* file is written.                                                        *)
Sign(c) ==
    \E a \in Authorizations, n \in Entries, ttl \in Ttls :
        LET e == [id |-> NextId(envelopes), challenge |-> c, authorization |-> a,
                  key |-> n.key, issuedAt |-> now,
                  expiresAt |-> Earliest({now + ttl, c.expiresAt, c.authorizationExpiresAt})]
        IN  /\ Cardinality(envelopes) < MaxEnvelopes
            /\ ChallengeSignable(c, now)
            /\ now < e.expiresAt
            /\ Correspond(n.key, a)
            /\ InTime(e, now)
            /\ Registered(e, now)
            /\ WriteEnvelope(e)
            /\ UNCHANGED <<now, incarnation, active, registry, changes, tokenVars, usedVars,
                           handlerVars, ledger, executions, writes>>

(* The owner replaces the registry file: another key, another window, a    *)
(* revoked key, other revoked authorizations.                              *)
RewriteRegistry ==
    /\ changes < MaxChanges
    /\ changes' = changes + 1
    /\ \E n \in Entries, gone \in SUBSET Authorizations :
          registry' = [entry |-> n, revokedAuthorizations |-> gone]
    /\ registry' # registry
    /\ UNCHANGED <<now, incarnation, active, envelopes, tokenVars, usedVars, handlerVars, ledger,
                   executions, writes>>

-----------------------------------------------------------------------------
(* action "prepare_publish": both receipts are checked, then the envelope  *)
(* is verified across an await.                                            *)
PrepareStart(h, c, e) ==
    /\ CapabilityGate
    /\ Acquire(h)
    /\ ChallengeUsable(c, now)
    /\ usedPreviews' = Prune(usedPreviews, now)
    /\ Set(h, "preparing", c, e)
    /\ UNCHANGED <<now, incarnation, tokenVars, ownerVars, usedApprovals, ledger, executions, writes>>

(* The rerun and the envelope are in order; the receipts are checked once  *)
(* more and the preview receipt is spent, at one clock value               *)
(* (prepareOperatorApproval).  Or the action fails.                        *)
PrepareFinish(h) ==
    LET c == arg[h]
    IN  /\ pc[h] = "preparing"
        /\ Release
        /\ Reset(h)
        /\ \/ UNCHANGED approvals /\ usedPreviews' = Prune(usedPreviews, now)
           \/ /\ Cardinality(approvals) < MaxApprovals
              /\ Preparable(c.preview, now)
              /\ Verified(envelope[h], c, now)
              /\ ChallengeUsable(c, now)
              /\ approvals' = approvals \cup
                    {[id |-> NextId(approvals), challenge |-> c, envelope |-> envelope[h],
                      expiresAt |-> ApprovalExpiry(c, now), incarnation |-> incarnation]}
              /\ usedPreviews' = SpendPreview(c, now)
        /\ UNCHANGED <<now, incarnation, previews, challenges, ownerVars, usedApprovals, ledger,
                       executions, writes>>

-----------------------------------------------------------------------------
(* The history of admitted publications.                                   *)
Admit(a, t) ==
    executions' = executions \cup
        {[approval |-> a, incarnation |-> incarnation, timely |-> t < a.expiresAt,
          nth |-> Cardinality({x \in executions : x.approval = a})]}

(* action "publish": verifyOperatorApprovalToken at one clock value, then  *)
(* withOperatorApprovalRunLock and, as the first action under the lock,    *)
(* consumeOperatorApprovalToken at a clock value t that may be later.      *)
PublishStart(h, a) ==
    /\ CapabilityGate
    /\ a.expiresAt > now
    /\ Acquire(h)
    /\ \E t \in {now, now + 1} :
          /\ t <= MaxTime
          /\ now' = t
          /\ Unused(usedApprovals, a, t)
          /\ usedApprovals' = Spend(usedApprovals, a, a.expiresAt, t)
          /\ Admit(a, t)
    /\ Set(h, "publishing", a, a.envelope)
    /\ UNCHANGED <<incarnation, tokenVars, ownerVars, usedPreviews, ledger, writes>>

\* Plausible bug: the durable ledger knows envelopes, not authorizations.
ConsumableEnvelope(e) == e \notin ledger

(* The durable ledger accepts an authorization id, and an envelope, once.  *)
Consumable(e) == \A f \in ledger : f.authorization # e.authorization

(* The run verifies the envelope against the challenge the approval names  *)
(* and spends it in the durable ledger (Publication.tla, ReplayStore.tla); *)
(* or it fails before or at that point.                                    *)
PublishConsume(h) ==
    /\ pc[h] = "publishing"
    /\ \/ /\ Verified(envelope[h], arg[h].challenge, now)
          /\ Consumable(envelope[h])
          /\ ledger' = ledger \cup {envelope[h]}
          /\ pc' = [pc EXCEPT ![h] = "consumed"]
          /\ UNCHANGED <<active, arg, envelope>>
       \/ /\ Release
          /\ Reset(h)
          /\ UNCHANGED ledger
    /\ UNCHANGED <<now, incarnation, tokenVars, ownerVars, usedVars, executions, writes>>

(* The write token is minted while the consumed envelope is current, or    *)
(* the run fails after the consumption; the handler answers and the lock   *)
(* is free.                                                                *)
PublishFinish(h) ==
    /\ pc[h] = "consumed"
    /\ \/ /\ InTime(envelope[h], now)
          /\ Registered(envelope[h], now)
          /\ writes' = writes \cup {[approval |-> arg[h], nth |-> Cardinality(writes)]}
       \/ UNCHANGED writes
    /\ Release
    /\ Reset(h)
    /\ UNCHANGED <<now, incarnation, tokenVars, ownerVars, usedVars, ledger, executions>>

-----------------------------------------------------------------------------
Tick ==
    /\ now < MaxTime
    /\ now' = now + 1
    /\ UNCHANGED <<incarnation, active, tokenVars, ownerVars, usedVars, handlerVars, ledger,
                   executions, writes>>

(* The server process dies and starts again: lock and maps are new, the    *)
(* signed tokens and the durable ledger are not.                           *)
Restart ==
    /\ incarnation < MaxRestarts
    /\ incarnation' = incarnation + 1
    /\ active' = 0
    /\ usedPreviews' = {} /\ usedApprovals' = {}
    /\ pc' = [h \in Handlers |-> "idle"]
    /\ arg' = [h \in Handlers |-> None]
    /\ envelope' = [h \in Handlers |-> None]
    /\ UNCHANGED <<now, tokenVars, ownerVars, ledger, executions, writes>>

Finish(h) ==
    \/ PreviewRan(h) \/ IssuePreview(h) \/ ChallengeFinish(h)
    \/ PrepareFinish(h) \/ PublishConsume(h) \/ PublishFinish(h)

Start(h) ==
    \/ PreviewStart(h)
    \/ \E p \in previews : ChallengeStart(h, p)
    \/ \E c \in challenges, e \in envelopes : PrepareStart(h, c, e)
    \/ \E a \in approvals : PublishStart(h, a)

Owner == RewriteRegistry \/ \E c \in challenges : Sign(c)

Next == Tick \/ Restart \/ Owner \/ \E h \in Handlers : Start(h) \/ Finish(h)

Spec == Init /\ [][Next]_vars

(* Every operation ends, so some handler at work always gets further: git  *)
(* and verification commands have time limits and the route itself has     *)
(* maxDuration.                                                            *)
FairSpec == Spec /\ WF_vars(\E h \in Handlers : Finish(h))

-----------------------------------------------------------------------------
(* A server process exchanges a preview receipt for at most one operator   *)
(* approval, whatever number of challenges and envelopes were made for it. *)
OneApprovalPerPreview ==
    \A a, b \in approvals :
        a.challenge.preview = b.challenge.preview /\ a.incarnation = b.incarnation => a = b

(* A server process admits an operator approval at most once before the    *)
(* approval's expiry.                                                      *)
OneTimelyExecution ==
    \A x, y \in executions :
        /\ x.approval = y.approval /\ x.incarnation = y.incarnation
        /\ x.timely /\ y.timely
        => x = y

(* An authorization of the owner leads to at most one write token, over    *)
(* all restarts, all envelopes signed under it, all approvals made from    *)
(* them and all replays of those approvals.                                *)
OneWritePerAuthorization ==
    \A x, y \in writes :
        x.approval.envelope.authorization = y.approval.envelope.authorization => x = y

(* owner-authorization.ts, "does not bind the exact issued owner           *)
(* challenge": a write token rests on an envelope the owner signed for the *)
(* very challenge the operator exchanged, and is minted before the preview *)
(* receipt under it expires, while the signing key is registered and the   *)
(* authorization not revoked.                                              *)
AuthorizedWrite(w) ==
    LET e == w.approval.envelope
        c == w.approval.challenge
    IN  /\ ChallengeDigest(e.challenge) = ChallengeDigest(c)
        /\ now < c.preview.expiresAt
        /\ registry.entry.key = e.key /\ ~registry.entry.revoked
        /\ e.authorization \notin registry.revokedAuthorizations

AuthorizedWrites == [][\A w \in writes' \ writes : AuthorizedWrite(w)]_vars

(* Whoever holds the run lock gives it back: the lock is free again and    *)
(* again.                                                                  *)
LockIsReleased == []<>(active = 0)

(* run-lock.ts: "an acquired replay still fails": no approval is admitted  *)
(* twice by one server process.                                            *)
AcquiredReplayFails ==
    \A x, y \in executions :
        x.approval = y.approval /\ x.incarnation = y.incarnation => x = y
=============================================================================
