----------------------- MODULE OwnerAuthorizationProofs -----------------------
(***************************************************************************)
(* Proofs about the two components an owner authorization goes through,    *)
(* for every value of their constants:                                     *)
(*                                                                         *)
(* - ConsoleCeremony, for every number of handlers, every bound and every  *)
(*   registry: one approval per preview, one timely execution per          *)
(*   approval, one write per authorization, and authorized writes;         *)
(* - ReplayStore, for any number of processes, files, inputs and clock     *)
(*   values: the store accepts every authorization at most once.           *)
(*                                                                         *)
(* The argument for the ceremony has three layers, each inductive given    *)
(* the one before: what the tokens and the handlers at work refer to       *)
(* (Tokens, HandlingOf); that a spent token stays in its map while it      *)
(* lives (...Remembered); that a handler past the ledger is alone with its *)
(* authorization (Once).  The store has one inductive invariant, StoreInv. *)
(***************************************************************************)
EXTENDS ConsoleCeremony, ReplayStore, TLAPS

-----------------------------------------------------------------------------
(* Clock and process numbers only grow; every handler is somewhere.        *)
Shape ==
    /\ now \in Nat /\ incarnation \in 0 .. MaxRestarts
    /\ DOMAIN pc = Handlers /\ DOMAIN arg = Handlers /\ DOMAIN envelope = Handlers

(* A token refers to tokens that were issued, and none outlives the one it *)
(* was made from.                                                          *)
Tokens ==
    /\ \A p \in previews : p.expiresAt \in Nat
    /\ \A c \in challenges :
          /\ c.preview \in previews
          /\ c.expiresAt \in Nat /\ c.authorizationExpiresAt \in Nat
          /\ c.expiresAt <= c.preview.expiresAt
    /\ \A e \in envelopes :
          e.challenge \in challenges /\ e.expiresAt \in Nat /\ e.expiresAt <= e.challenge.expiresAt
    /\ \A a \in approvals :
          /\ a.challenge \in challenges /\ a.envelope \in envelopes
          /\ a.expiresAt \in Nat /\ a.incarnation \in 0 .. incarnation

(* What a handler works on was issued, and a handler past the ledger has   *)
(* an envelope signed for its own challenge.                               *)
HandlingOf(h) ==
    /\ pc[h] = "previewed" => arg[h] \in Nat
    /\ pc[h] = "challenging" => arg[h] \in previews
    /\ pc[h] = "preparing" => arg[h] \in challenges /\ envelope[h] \in envelopes
    /\ pc[h] \in {"publishing", "consumed"} => arg[h] \in approvals /\ envelope[h] = arg[h].envelope
    /\ pc[h] = "consumed" =>
          /\ ChallengeDigest(envelope[h].challenge) = ChallengeDigest(arg[h].challenge)
          /\ envelope[h].challenge.preview = arg[h].challenge.preview

Issued == Shape /\ Tokens /\ \A h \in Handlers : HandlingOf(h)

(* While the preview receipt under an approval lives, the process that     *)
(* made the approval remembers the receipt.                                *)
PreviewsRemembered ==
    \A a \in approvals :
        a.incarnation = incarnation /\ a.challenge.preview.expiresAt > now
            => \E u \in usedPreviews :
                  u.token = a.challenge.preview /\ u.until = a.challenge.preview.expiresAt

(* The same of an approval that was admitted in time.                      *)
ApprovalsRemembered ==
    \A x \in executions :
        /\ x.approval \in approvals /\ x.incarnation \in 0 .. incarnation
        /\ x.incarnation = incarnation /\ x.timely /\ x.approval.expiresAt > now
              => \E u \in usedApprovals : u.token = x.approval /\ u.until = x.approval.expiresAt

(* The ledger has the envelope of every handler past it, no write was made *)
(* for it yet, and no other handler past the ledger has its authorization. *)
HolderIsAlone(h) ==
    pc[h] = "consumed" =>
        /\ envelope[h] \in ledger
        /\ \A w \in writes : w.approval.envelope.authorization # envelope[h].authorization
        /\ \A g \in Handlers \ {h} :
              pc[g] = "consumed" => envelope[g].authorization # envelope[h].authorization

WritesAreInLedger ==
    \A w \in writes : \E e \in ledger : e.authorization = w.approval.envelope.authorization

Once ==
    /\ \A h \in Handlers : HolderIsAlone(h)
    /\ WritesAreInLedger
    /\ OneWritePerAuthorization

-----------------------------------------------------------------------------
(* The earliest of three times is one of them and none is earlier.         *)
LEMMA EarliestOfThree ==
    ASSUME NEW a \in Nat, NEW b \in Nat, NEW c \in Nat
    PROVE  /\ Earliest({a, b, c}) \in Nat
           /\ Earliest({a, b, c}) <= a /\ Earliest({a, b, c}) <= b /\ Earliest({a, b, c}) <= c
<1> DEFINE times == {a, b, c}
           Least(t) == \A u \in times : t <= u
<1>1. \E t \in times : Least(t)
  <2>1. CASE a <= b /\ a <= c BY <2>1
  <2>2. CASE b <= a /\ b <= c BY <2>2
  <2>3. CASE c <= a /\ c <= b BY <2>3
  <2> QED BY <2>1, <2>2, <2>3
<1>2. Earliest(times) \in times /\ Least(Earliest(times))
  <2>1. Earliest(times) = CHOOSE t \in times : Least(t) BY DEF Earliest
  <2> HIDE DEF times, Least
  <2> QED BY <1>1, <2>1
<1> QED BY <1>2

(* Init and every step keep what was issued.                               *)
LEMMA IssuedInit == Init => Issued
BY CeremonyAssumption DEF Init, Issued, Shape, Tokens, HandlingOf

(* The owner signs envelopes and rewrites the registry, and nothing else.   *)
LEMMA OwnerFrame ==
    ASSUME Owner
    PROVE  UNCHANGED <<now, incarnation, tokenVars, usedVars, handlerVars, ledger, executions, writes>>
<1> DEFINE Frame == UNCHANGED <<now, incarnation, tokenVars, usedVars, handlerVars, ledger,
                                executions, writes>>
<1>1. ASSUME RewriteRegistry PROVE Frame
  BY <1>1 DEF RewriteRegistry
<1>2. ASSUME NEW c \in challenges, Sign(c) PROVE Frame
  <2>1. PICK a \in Authorizations, n \in Entries, ttl \in Ttls : Frame
    BY <1>2 DEF Sign
  <2> QED BY <2>1
<1> QED BY <1>1, <1>2 DEF Owner

(* The owner's steps touch neither the clock nor a handler.                *)
LEMMA IssuedOwner ==
    ASSUME Issued, Owner
    PROVE  Issued'
<1> USE DEF Issued
<1>1. CASE RewriteRegistry
  BY <1>1 DEF RewriteRegistry, Shape, Tokens, HandlingOf, tokenVars, usedVars, handlerVars
<1>2. ASSUME NEW c \in challenges, Sign(c) PROVE Issued'
  <2> DEFINE Window(ttl) == {now + ttl, c.expiresAt, c.authorizationExpiresAt}
             Envelope(a, n, ttl) ==
                [id |-> NextId(envelopes), challenge |-> c, authorization |-> a,
                 key |-> n.key, issuedAt |-> now, expiresAt |-> Earliest(Window(ttl))]
  <2>1. PICK a \in Authorizations, n \in Entries, ttl \in Ttls :
          envelopes' = envelopes \cup {Envelope(a, n, ttl)} /\ InTime(Envelope(a, n, ttl), now)
    BY <1>2 DEF Sign, WriteEnvelope
  <2>2. UNCHANGED <<now, incarnation, tokenVars, handlerVars>>
    BY <1>2 DEF Sign
  <2>3. Earliest(Window(ttl)) \in Nat /\ Earliest(Window(ttl)) <= c.expiresAt
    <3>1. now + ttl \in Nat /\ c.expiresAt \in Nat /\ c.authorizationExpiresAt \in Nat
      BY CeremonyAssumption DEF Shape, Tokens
    <3> QED BY <3>1, EarliestOfThree
  <2>4. Tokens'
    BY <2>1, <2>2, <2>3 DEF Tokens, tokenVars
  <2>5. Shape' /\ \A h \in Handlers : HandlingOf(h)'
    BY <2>1, <2>2 DEF Shape, HandlingOf, tokenVars, handlerVars
  <2> QED BY <2>4, <2>5
<1> QED BY <1>1, <1>2 DEF Owner

(* A request that is taken up works on a token that was issued.            *)
LEMMA IssuedStart ==
    ASSUME Issued, NEW h \in Handlers, Start(h)
    PROVE  Issued'
<1> USE DEF Issued, Set, Acquire, tokenVars, ownerVars, usedVars
<1>1. CASE PreviewStart(h)
  BY <1>1 DEF PreviewStart, Shape, Tokens, HandlingOf
<1>2. ASSUME NEW p \in previews, ChallengeStart(h, p) PROVE Issued'
  BY <1>2 DEF ChallengeStart, Shape, Tokens, HandlingOf
<1>3. ASSUME NEW c \in challenges, NEW e \in envelopes, PrepareStart(h, c, e) PROVE Issued'
  BY <1>3 DEF PrepareStart, Shape, Tokens, HandlingOf
<1>4. ASSUME NEW a \in approvals, PublishStart(h, a) PROVE Issued'
  <2>1. now' \in Nat /\ UNCHANGED <<incarnation, tokenVars, ownerVars>>
    BY <1>4 DEF PublishStart, Shape
  <2>2. Shape' /\ Tokens'
    BY <1>4, <2>1 DEF PublishStart, Shape, Tokens
  <2>3. ASSUME NEW g \in Handlers PROVE HandlingOf(g)'
    BY <1>4, <2>1 DEF PublishStart, Shape, HandlingOf
  <2> QED BY <2>2, <2>3
<1> QED BY <1>1, <1>2, <1>3, <1>4 DEF Start

(* A handler that goes on issues tokens within the bounds of those they    *)
(* are made from.                                                          *)
LEMMA IssuedFinish ==
    ASSUME Issued, NEW h \in Handlers, Finish(h)
    PROVE  Issued'
<1> USE DEF Issued, Set, Reset, Release, tokenVars, ownerVars, usedVars
<1>1. CASE PreviewRan(h)
  BY <1>1 DEF PreviewRan, Shape, Tokens, HandlingOf
<1>2. CASE IssuePreview(h)
  <2>1. arg[h] \in Nat
    BY <1>2 DEF IssuePreview, HandlingOf
  <2>2. PICK v \in {1, 2} : previews' \subseteq previews \cup
            {[id |-> NextId(previews), version |-> v, completedAt |-> arg[h],
              expiresAt |-> (IF v = 1 THEN now ELSE arg[h]) + TokenTtl]}
    BY <1>2 DEF IssuePreview
  <2>3. previews \subseteq previews' /\ \A p \in previews' : p.expiresAt \in Nat
    <3>1. previews \subseteq previews'
      BY <1>2 DEF IssuePreview
    <3>2. (IF v = 1 THEN now ELSE arg[h]) + TokenTtl \in Nat
      <4>1. now \in Nat BY DEF Shape
      <4>2. TokenTtl \in Nat BY CeremonyAssumption
      <4> QED BY <2>1, <4>1, <4>2
    <3> QED BY <2>2, <3>1, <3>2 DEF Tokens
  <2>4. UNCHANGED <<now, incarnation, challenges, approvals, ownerVars>>
    BY <1>2 DEF IssuePreview
  <2>5. Tokens' BY <2>3, <2>4 DEF Tokens
  <2>6. Shape' /\ \A g \in Handlers : HandlingOf(g)'
    BY <1>2, <2>3, <2>4 DEF IssuePreview, Shape, HandlingOf
  <2> QED BY <2>5, <2>6
<1>3. CASE ChallengeFinish(h)
  <2> DEFINE p == arg[h]
             c == ChallengeOf(NextId(challenges), p, now)
  <2>1. UNCHANGED <<now, incarnation, previews, approvals, ownerVars>>
    BY <1>3 DEF ChallengeFinish
  <2>2. \/ challenges' = challenges
        \/ challenges' = challenges \cup {c} /\ c.expiresAt <= p.expiresAt
    BY <1>3 DEF ChallengeFinish
  <2>3. p \in previews
    BY <1>3 DEF ChallengeFinish, HandlingOf
  <2>4. c.preview = p /\ c.expiresAt \in Nat /\ c.authorizationExpiresAt \in Nat
    <3>1. /\ now + OwnerTtl \in Nat /\ p.expiresAt \in Nat
          /\ AuthorizationEnd[incarnation] \in Nat
      BY <2>3, CeremonyAssumption DEF Shape, Tokens
    <3> QED BY <3>1, EarliestOfThree DEF ChallengeOf
  <2> HIDE DEF c
  <2>5. Tokens' BY <2>1, <2>2, <2>3, <2>4 DEF Tokens
  <2>6. Shape' /\ \A g \in Handlers : HandlingOf(g)'
    BY <1>3, <2>1, <2>2 DEF ChallengeFinish, Shape, HandlingOf
  <2> QED BY <2>5, <2>6
<1>4. CASE PrepareFinish(h)
  <2> DEFINE c == arg[h]
             a == [id |-> NextId(approvals), challenge |-> c, envelope |-> envelope[h],
                   expiresAt |-> ApprovalExpiry(c, now), incarnation |-> incarnation]
  <2>1. UNCHANGED <<now, incarnation, previews, challenges, ownerVars>>
    BY <1>4 DEF PrepareFinish
  <2>2. approvals' = approvals \/ approvals' = approvals \cup {a}
    BY <1>4 DEF PrepareFinish
  <2>3. c \in challenges /\ envelope[h] \in envelopes
    BY <1>4 DEF PrepareFinish, HandlingOf
  <2>4. ApprovalExpiry(c, now) \in Nat
    BY <2>3, CeremonyAssumption DEF ApprovalExpiry, Shape, Tokens
  <2>5. Tokens' BY <2>1, <2>2, <2>3, <2>4 DEF Shape, Tokens
  <2>6. Shape' /\ \A g \in Handlers : HandlingOf(g)'
    BY <1>4, <2>1, <2>2 DEF PrepareFinish, Shape, HandlingOf
  <2> QED BY <2>5, <2>6
<1>5. CASE PublishConsume(h)
  <2>1. UNCHANGED <<now, incarnation, tokenVars, ownerVars>>
    BY <1>5 DEF PublishConsume
  <2>2. Shape' /\ Tokens' BY <1>5, <2>1 DEF PublishConsume, Shape, Tokens
  <2>3. ASSUME NEW g \in Handlers PROVE HandlingOf(g)'
    BY <1>5, <2>1 DEF PublishConsume, Verified, Shape, HandlingOf
  <2> QED BY <2>2, <2>3
<1>6. CASE PublishFinish(h)
  BY <1>6 DEF PublishFinish, Shape, Tokens, HandlingOf
<1> QED BY <1>1, <1>2, <1>3, <1>4, <1>5, <1>6 DEF Finish

LEMMA IssuedStep == Issued /\ [Next]_vars => Issued'
<1> SUFFICES ASSUME Issued, [Next]_vars PROVE Issued'
  OBVIOUS
<1>1. CASE Tick
  BY <1>1 DEF Tick, Issued, Shape, Tokens, HandlingOf, tokenVars, ownerVars, handlerVars
<1>2. CASE Restart
  <2>1. UNCHANGED <<now, tokenVars, ownerVars>> /\ incarnation' = incarnation + 1
    BY <1>2 DEF Restart
  <2>2. Shape' BY <1>2, <2>1, CeremonyAssumption DEF Restart, Issued, Shape
  <2>3. Tokens' BY <2>1 DEF Issued, Shape, Tokens, tokenVars, ownerVars
  <2>4. \A h \in Handlers : HandlingOf(h)'
    BY <1>2 DEF Restart, HandlingOf
  <2> QED BY <2>2, <2>3, <2>4 DEF Issued
<1>3. CASE UNCHANGED vars
  BY <1>3 DEF vars, Issued, Shape, Tokens, HandlingOf
<1> QED BY <1>1, <1>2, <1>3, IssuedOwner, IssuedStart, IssuedFinish DEF Next

-----------------------------------------------------------------------------
(* A step other than the exchange of a challenge for an approval forgets   *)
(* no preview receipt that lives, except by a restart.                     *)
LEMMA PreviewsOnlyPruned ==
    ASSUME Issued, [Next]_vars, \A h \in Handlers : ~PrepareFinish(h), ~Restart
    PROVE  /\ approvals' = approvals /\ incarnation' = incarnation /\ now' >= now
           /\ usedPreviews' = usedPreviews \/ usedPreviews' = Prune(usedPreviews, now)
<1>1. now \in Nat BY DEF Issued, Shape
<1>2. CASE UNCHANGED vars BY <1>1, <1>2 DEF vars
<1>3. CASE Tick BY <1>1, <1>3 DEF Tick, tokenVars, usedVars
<1>4. CASE Owner
  <2>1. UNCHANGED <<now, incarnation, tokenVars, usedVars>>
    BY <1>4, OwnerFrame
  <2> QED BY <1>1, <2>1 DEF tokenVars, usedVars
<1>5. ASSUME NEW h \in Handlers, Start(h)
      PROVE  /\ approvals' = approvals /\ incarnation' = incarnation /\ now' >= now
             /\ usedPreviews' = usedPreviews \/ usedPreviews' = Prune(usedPreviews, now)
  BY <1>1, <1>5 DEF Start, PreviewStart, ChallengeStart, PrepareStart, PublishStart, tokenVars,
                    usedVars
<1>6. ASSUME NEW h \in Handlers, Finish(h)
      PROVE  /\ approvals' = approvals /\ incarnation' = incarnation /\ now' >= now
             /\ usedPreviews' = usedPreviews \/ usedPreviews' = Prune(usedPreviews, now)
  BY <1>1, <1>6 DEF Finish, PreviewRan, IssuePreview, ChallengeFinish, PublishConsume,
                    PublishFinish, tokenVars, usedVars
<1> QED BY <1>2, <1>3, <1>4, <1>5, <1>6 DEF Next

LEMMA PreviewsInit == Init => PreviewsRemembered /\ OneApprovalPerPreview
BY DEF Init, PreviewsRemembered, OneApprovalPerPreview

(* prepareOperatorApproval refuses a receipt that is remembered, and then  *)
(* remembers it for as long as it lives.                                   *)
LEMMA PreviewsStep ==
    ASSUME Issued, PreviewsRemembered, OneApprovalPerPreview, [Next]_vars
    PROVE  PreviewsRemembered' /\ OneApprovalPerPreview'
<1>0. /\ now \in Nat /\ incarnation \in Nat
      /\ \A a \in approvals :
            a.challenge.preview.expiresAt \in Nat /\ a.incarnation \in 0 .. incarnation
  BY DEF Issued, Shape, Tokens
<1>1. ASSUME NEW h \in Handlers, PrepareFinish(h)
      PROVE  PreviewsRemembered' /\ OneApprovalPerPreview'
  <2> DEFINE c == arg[h]
             b == [id |-> NextId(approvals), challenge |-> c, envelope |-> envelope[h],
                   expiresAt |-> ApprovalExpiry(c, now), incarnation |-> incarnation]
  <2>1. now' = now /\ incarnation' = incarnation
    BY <1>1 DEF PrepareFinish
  <2>2. CASE approvals' = approvals /\ usedPreviews' = Prune(usedPreviews, now)
    BY <1>0, <2>1, <2>2 DEF PreviewsRemembered, OneApprovalPerPreview, Prune
  <2>3. CASE /\ ChallengeUsable(c, now)
             /\ approvals' = approvals \cup {b}
             /\ usedPreviews' = SpendPreview(c, now)
    <3>1. c \in challenges /\ c.preview.expiresAt \in Nat /\ c.preview.expiresAt > now
      BY <1>1, <2>3 DEF PrepareFinish, Issued, HandlingOf, Tokens, ChallengeUsable, PreviewUsable
    <3>2. \A u \in usedPreviews : u.until = c.preview.expiresAt => u.token # c.preview
      BY <2>3, <3>1 DEF ChallengeUsable, PreviewUsable, Unused, Prune
    <3>3. \A a \in approvals : a.incarnation = incarnation => a.challenge.preview # c.preview
      BY <3>1, <3>2 DEF PreviewsRemembered
    <3>4. OneApprovalPerPreview'
      BY <2>3, <3>3 DEF OneApprovalPerPreview
    <3>5. \A u \in usedPreviews : u.until > now => u \in usedPreviews'
      BY <2>3 DEF SpendPreview, Spend, Prune
    <3>6. [token |-> c.preview, until |-> c.preview.expiresAt] \in usedPreviews'
      BY <2>3 DEF SpendPreview, Spend
    <3>7. PreviewsRemembered'
      BY <1>0, <2>1, <2>3, <3>5, <3>6 DEF PreviewsRemembered
    <3> QED BY <3>4, <3>7
  <2> QED BY <1>1, <2>2, <2>3 DEF PrepareFinish
<1>2. CASE Restart
  <2>1. approvals' = approvals /\ incarnation' = incarnation + 1
    BY <1>2 DEF Restart, tokenVars
  <2> QED BY <1>0, <2>1 DEF PreviewsRemembered, OneApprovalPerPreview
<1>3. CASE ~Restart /\ \A h \in Handlers : ~PrepareFinish(h)
  <2>1. /\ approvals' = approvals /\ incarnation' = incarnation /\ now' >= now
        /\ usedPreviews' = usedPreviews \/ usedPreviews' = Prune(usedPreviews, now)
    BY <1>3, PreviewsOnlyPruned
  <2>2. now' \in Nat BY IssuedStep DEF Issued, Shape
  <2>3. \A u \in usedPreviews : u.until > now => u \in usedPreviews'
    BY <2>1 DEF Prune
  <2> QED BY <1>0, <2>1, <2>2, <2>3 DEF PreviewsRemembered, OneApprovalPerPreview
<1> QED BY <1>1, <1>2, <1>3

-----------------------------------------------------------------------------
(* A step other than an admission or a restart leaves the history of       *)
(* admissions and the map of spent approvals alone.                        *)
LEMMA AdmissionsOnlyByPublish ==
    ASSUME Issued, [Next]_vars, \A h \in Handlers, a \in approvals : ~PublishStart(h, a), ~Restart
    PROVE  /\ approvals \subseteq approvals' /\ incarnation' = incarnation /\ now' >= now
           /\ UNCHANGED <<executions, usedApprovals>>
<1> DEFINE Goal == /\ approvals \subseteq approvals' /\ incarnation' = incarnation /\ now' >= now
                   /\ UNCHANGED <<executions, usedApprovals>>
<1>1. now \in Nat BY DEF Issued, Shape
<1>2. CASE UNCHANGED vars BY <1>1, <1>2 DEF vars
<1>3. CASE Tick BY <1>1, <1>3 DEF Tick, tokenVars, usedVars
<1>4. CASE Owner
  <2>1. UNCHANGED <<now, incarnation, tokenVars, usedVars, executions>>
    BY <1>4, OwnerFrame
  <2> QED BY <1>1, <2>1 DEF tokenVars, usedVars
<1>5. ASSUME NEW h \in Handlers, Start(h) PROVE Goal
  BY <1>1, <1>5 DEF Start, PreviewStart, ChallengeStart, PrepareStart, tokenVars, usedVars
<1>6. ASSUME NEW h \in Handlers, Finish(h) PROVE Goal
  <2>1. approvals \subseteq approvals'
    BY <1>6 DEF Finish, PreviewRan, IssuePreview, ChallengeFinish, PrepareFinish, PublishConsume,
                PublishFinish, tokenVars
  <2>2. UNCHANGED <<now, incarnation, executions, usedApprovals>>
    BY <1>6 DEF Finish, PreviewRan, IssuePreview, ChallengeFinish, PrepareFinish, PublishConsume,
                PublishFinish, usedVars
  <2> QED BY <1>1, <2>1, <2>2
<1> QED BY <1>2, <1>3, <1>4, <1>5, <1>6 DEF Next

LEMMA AdmissionsInit == Init => ApprovalsRemembered /\ OneTimelyExecution
BY DEF Init, ApprovalsRemembered, OneTimelyExecution

(* consumeOperatorApprovalToken, at a clock value at which the approval    *)
(* lives, refuses one that was admitted before.                            *)
LEMMA AdmissionsStep ==
    ASSUME Issued, ApprovalsRemembered, OneTimelyExecution, [Next]_vars
    PROVE  ApprovalsRemembered' /\ OneTimelyExecution'
<1>0. /\ now \in Nat /\ now' \in Nat /\ incarnation \in Nat
      /\ \A a \in approvals : a.expiresAt \in Nat
  BY IssuedStep DEF Issued, Shape, Tokens
<1>1. ASSUME NEW h \in Handlers, NEW a \in approvals, PublishStart(h, a)
      PROVE  ApprovalsRemembered' /\ OneTimelyExecution'
  <2>1. PICK t \in {now, now + 1} :
          /\ now' = t /\ Unused(usedApprovals, a, t)
          /\ usedApprovals' = Spend(usedApprovals, a, a.expiresAt, t) /\ Admit(a, t)
    BY <1>1 DEF PublishStart
  <2> DEFINE x == [approval |-> a, incarnation |-> incarnation, timely |-> t < a.expiresAt,
                   nth |-> Cardinality({y \in executions : y.approval = a})]
  <2>2. executions' = executions \cup {x} BY <2>1 DEF Admit
  <2>3. approvals' = approvals /\ incarnation' = incarnation BY <1>1 DEF PublishStart, tokenVars
  <2>4. \A u \in usedApprovals : u.until > t => u \in usedApprovals' /\ u.token # a
    BY <2>1 DEF Spend, Unused, Prune
  <2>5. [token |-> a, until |-> a.expiresAt] \in usedApprovals'
    BY <2>1 DEF Spend
  <2>6. t >= now /\ t \in Nat BY <1>0, <2>1
  <2>7. ApprovalsRemembered'
    <3> SUFFICES ASSUME NEW y \in executions'
                 PROVE  /\ y.approval \in approvals /\ y.incarnation \in 0 .. incarnation
                        /\ y.incarnation = incarnation /\ y.timely /\ y.approval.expiresAt > t
                              => \E u \in usedApprovals' :
                                    u.token = y.approval /\ u.until = y.approval.expiresAt
      BY <2>1, <2>3 DEF ApprovalsRemembered
    <3>1. CASE y = x BY <1>0, <2>5, <3>1
    <3>2. CASE y \in executions BY <1>0, <2>4, <2>6, <3>2 DEF ApprovalsRemembered
    <3> QED BY <2>2, <3>1, <3>2
  <2>8. \A y \in executions :
            y.approval = a /\ y.incarnation = incarnation /\ y.timely => ~(t < a.expiresAt)
    BY <1>0, <2>4, <2>6 DEF ApprovalsRemembered
  <2>9. OneTimelyExecution'
    <3>1. ASSUME NEW y \in executions, y.approval = x.approval, y.incarnation = x.incarnation,
                 y.timely, x.timely
          PROVE  FALSE
      BY <2>8, <3>1
    <3> HIDE DEF x
    <3> QED BY <2>2, <3>1 DEF OneTimelyExecution
  <2> QED BY <2>7, <2>9
<1>2. CASE Restart
  <2>1. approvals' = approvals /\ incarnation' = incarnation + 1 /\ executions' = executions
    BY <1>2 DEF Restart, tokenVars
  <2> QED BY <1>0, <2>1 DEF ApprovalsRemembered, OneTimelyExecution
<1>3. CASE ~Restart /\ \A h \in Handlers, a \in approvals : ~PublishStart(h, a)
  <2>1. /\ approvals \subseteq approvals' /\ incarnation' = incarnation /\ now' >= now
        /\ UNCHANGED <<executions, usedApprovals>>
    BY <1>3, AdmissionsOnlyByPublish
  <2> QED BY <1>0, <2>1 DEF ApprovalsRemembered, OneTimelyExecution
<1> QED BY <1>1, <1>2, <1>3

-----------------------------------------------------------------------------
LEMMA OnceInit == Init => Once
BY DEF Init, Once, HolderIsAlone, WritesAreInLedger, OneWritePerAuthorization

(* The ledger accepts an authorization once, so a handler that passes it   *)
(* is alone; its write, if there is one, ends it.                          *)
LEMMA OnceStep ==
    ASSUME Issued, Once, [Next]_vars
    PROVE  Once'
<1> USE DEF Once
<1>0. DOMAIN pc = Handlers /\ DOMAIN arg = Handlers /\ DOMAIN envelope = Handlers
  BY DEF Issued, Shape
<1>1. ASSUME NEW h \in Handlers, PublishConsume(h) PROVE Once'
  <2>1. writes' = writes BY <1>1 DEF PublishConsume
  <2>2. CASE /\ Consumable(envelope[h]) /\ ledger' = ledger \cup {envelope[h]}
             /\ pc' = [pc EXCEPT ![h] = "consumed"] /\ envelope' = envelope
    <3>1. \A f \in ledger : f.authorization # envelope[h].authorization
      BY <2>2 DEF Consumable
    <3>2. ASSUME NEW g \in Handlers PROVE HolderIsAlone(g)'
      <4>1. CASE g = h
        BY <1>0, <2>1, <2>2, <3>1, <4>1 DEF HolderIsAlone, WritesAreInLedger
      <4>2. CASE g # h
        BY <1>0, <2>1, <2>2, <3>1, <4>2 DEF HolderIsAlone
      <4> QED BY <4>1, <4>2
    <3> QED BY <2>1, <2>2, <3>2 DEF WritesAreInLedger, OneWritePerAuthorization
  <2>3. CASE Reset(h) /\ ledger' = ledger
    BY <1>0, <2>1, <2>3 DEF Reset, Set, HolderIsAlone, WritesAreInLedger, OneWritePerAuthorization
  <2> QED BY <1>1, <2>2, <2>3 DEF PublishConsume
<1>2. ASSUME NEW h \in Handlers, PublishFinish(h) PROVE Once'
  <2>1. pc[h] = "consumed" /\ Reset(h) /\ ledger' = ledger
    BY <1>2 DEF PublishFinish
  <2>2. arg[h].envelope = envelope[h]
    BY <2>1 DEF Issued, HandlingOf
  <2>3. CASE writes' = writes
    BY <1>0, <2>1, <2>3 DEF Reset, Set, HolderIsAlone, WritesAreInLedger, OneWritePerAuthorization
  <2>4. CASE writes' = writes \cup {[approval |-> arg[h], nth |-> Cardinality(writes)]}
    <3>1. HolderIsAlone(h) OBVIOUS
    <3>2. ASSUME NEW g \in Handlers PROVE HolderIsAlone(g)'
      BY <1>0, <2>1, <2>2, <2>4, <3>1 DEF Reset, Set, HolderIsAlone
    <3>3. WritesAreInLedger'
      BY <2>1, <2>2, <2>4, <3>1 DEF HolderIsAlone, WritesAreInLedger
    <3>4. OneWritePerAuthorization'
      BY <2>1, <2>2, <2>4, <3>1 DEF HolderIsAlone, OneWritePerAuthorization
    <3> QED BY <3>2, <3>3, <3>4
  <2> QED BY <1>2, <2>3, <2>4 DEF PublishFinish
<1>3. ASSUME UNCHANGED <<ledger, writes>>,
             \A h \in Handlers : pc'[h] = "consumed" => pc[h] = "consumed" /\ envelope'[h] = envelope[h]
      PROVE  Once'
  BY <1>3 DEF HolderIsAlone, WritesAreInLedger, OneWritePerAuthorization
<1>4. CASE Tick \/ Owner \/ UNCHANGED vars
  <2>1. UNCHANGED <<ledger, writes, handlerVars>>
    BY <1>4, OwnerFrame DEF Tick, vars, handlerVars
  <2> QED BY <1>3, <2>1 DEF handlerVars
<1>5. CASE Restart
  BY <1>3, <1>5 DEF Restart
<1>6. ASSUME NEW h \in Handlers, Start(h) PROVE Once'
  <2>1. UNCHANGED <<ledger, writes>>
    BY <1>6 DEF Start, PreviewStart, ChallengeStart, PrepareStart, PublishStart
  <2>2. \E step \in {"previewing", "challenging", "preparing", "publishing"} : \E a, e : Set(h, step, a, e)
    BY <1>6 DEF Start, PreviewStart, ChallengeStart, PrepareStart, PublishStart
  <2> QED BY <1>0, <1>3, <2>1, <2>2 DEF Set
<1>7. ASSUME NEW h \in Handlers, PreviewRan(h) \/ IssuePreview(h) \/ ChallengeFinish(h) \/ PrepareFinish(h)
      PROVE  Once'
  <2>1. UNCHANGED <<ledger, writes>>
    BY <1>7 DEF PreviewRan, IssuePreview, ChallengeFinish, PrepareFinish
  <2>2. \E step \in {"previewed", "idle"} : \E a, e : Set(h, step, a, e)
    BY <1>7 DEF PreviewRan, IssuePreview, ChallengeFinish, PrepareFinish, Reset
  <2> QED BY <1>0, <1>3, <2>1, <2>2 DEF Set
<1> QED BY <1>1, <1>2, <1>4, <1>5, <1>6, <1>7 DEF Next, Finish

-----------------------------------------------------------------------------
(* A write token is minted by a handler past the ledger, whose envelope    *)
(* was signed for its challenge: the envelope's window is within that of   *)
(* the preview receipt.                                                    *)
LEMMA WritesAreAuthorized ==
    ASSUME Issued, [Next]_vars
    PROVE  \A w \in writes' \ writes : AuthorizedWrite(w)
<1>1. ASSUME NEW h \in Handlers, PublishFinish(h)
      PROVE  \A w \in writes' \ writes : AuthorizedWrite(w)
  <2> DEFINE a == arg[h]
             e == a.envelope
  <2>1. SUFFICES ASSUME InTime(e, now), Registered(e, now), NEW w, w.approval = a
                 PROVE  AuthorizedWrite(w)
    BY <1>1 DEF PublishFinish, Issued, HandlingOf
  <2>2. /\ a \in approvals
        /\ ChallengeDigest(e.challenge) = ChallengeDigest(a.challenge)
        /\ e.challenge.preview = a.challenge.preview
    BY <1>1 DEF PublishFinish, Issued, HandlingOf
  <2>3. now < a.challenge.preview.expiresAt
    <3>1. /\ e.expiresAt \in Nat /\ e.expiresAt <= e.challenge.expiresAt
          /\ e.challenge.expiresAt \in Nat
          /\ e.challenge.expiresAt <= e.challenge.preview.expiresAt
          /\ e.challenge.preview.expiresAt \in Nat
      BY <2>2 DEF Issued, Tokens
    <3> QED BY <2>1, <2>2, <3>1 DEF InTime, Issued, Shape
  <2> QED BY <2>1, <2>2, <2>3 DEF AuthorizedWrite, Registered
<1>2. CASE \A h \in Handlers : ~PublishFinish(h)
  <2>1. writes' = writes
    <3>1. CASE Tick \/ Restart \/ Owner \/ UNCHANGED vars
      BY <3>1, OwnerFrame DEF Tick, Restart, vars
    <3>2. ASSUME NEW h \in Handlers, Start(h) \/ Finish(h) PROVE writes' = writes
      BY <1>2, <3>2 DEF Start, PreviewStart, ChallengeStart, PrepareStart, PublishStart, Finish,
                        PreviewRan, IssuePreview, ChallengeFinish, PrepareFinish, PublishConsume
    <3> QED BY <3>1, <3>2 DEF Next
  <2> QED BY <2>1
<1> QED BY <1>1, <1>2

-----------------------------------------------------------------------------
(* Every token and every handler at work refers to tokens that were        *)
(* issued, and none outlives what it was made from.                        *)
THEOREM TokensAreNested == Spec => []Issued
<1>1. Init => Issued BY IssuedInit
<1>2. Issued /\ [Next]_vars => Issued' BY IssuedStep
<1> QED BY <1>1, <1>2, PTL DEF Spec

(* prepareOperatorApproval: a server process makes at most one approval    *)
(* from a preview receipt.                                                 *)
THEOREM OneApproval == Spec => []OneApprovalPerPreview
<1> DEFINE Inv == PreviewsRemembered /\ OneApprovalPerPreview
<1>1. Init => Inv BY PreviewsInit
<1>2. Issued /\ Inv /\ [Next]_vars => Inv' BY PreviewsStep
<1>3. Inv => OneApprovalPerPreview OBVIOUS
<1> HIDE DEF Inv
<1> QED BY <1>1, <1>2, <1>3, TokensAreNested, PTL DEF Spec

(* consumeOperatorApprovalToken: a server process admits an approval at    *)
(* most once before its expiry.                                            *)
THEOREM OneExecution == Spec => []OneTimelyExecution
<1> DEFINE Inv == ApprovalsRemembered /\ OneTimelyExecution
<1>1. Init => Inv BY AdmissionsInit
<1>2. Issued /\ Inv /\ [Next]_vars => Inv' BY AdmissionsStep
<1>3. Inv => OneTimelyExecution OBVIOUS
<1> HIDE DEF Inv
<1> QED BY <1>1, <1>2, <1>3, TokensAreNested, PTL DEF Spec

(* The durable ledger: over all restarts, envelopes, approvals and         *)
(* replays an authorization leads to at most one write token.              *)
THEOREM OneWrite == Spec => []OneWritePerAuthorization
<1>1. Init => Once BY OnceInit
<1>2. Issued /\ Once /\ [Next]_vars => Once' BY OnceStep
<1>3. Once => OneWritePerAuthorization BY DEF Once
<1> QED BY <1>1, <1>2, <1>3, TokensAreNested, PTL DEF Spec

(* verifyOwnerAuthorizationEnvelope: a write rests on an envelope signed   *)
(* for the exchanged challenge, by a key in force, and comes before the    *)
(* preview receipt expires.                                                *)
THEOREM WritesHaveAuthority == Spec => AuthorizedWrites
<1>1. Issued /\ [Next]_vars => [\A w \in writes' \ writes : AuthorizedWrite(w)]_vars
  BY WritesAreAuthorized
<1> QED BY <1>1, TokensAreNested, PTL DEF Spec, AuthorizedWrites

-----------------------------------------------------------------------------
(***************************************************************************)
(* The replay store.                                                       *)
(***************************************************************************)

(* Inodes that anything refers to have existed, so a restored copy can     *)
(* never take the place of a file in use.                                  *)
ReferencesUsed ==
    LET Known == used \cup {NoFile}
    IN  /\ path \in Known
        /\ anchor.file \in Known
        /\ \A p \in Procs : file[p] \in Known
        /\ \A f \in Files : live[f].identity \in Known /\ stable[f].identity \in Known

(* A process inside a transaction holds the lock of the file it opened.    *)
LockHeld == \A p \in Procs : stage[p] \in LockedSteps => lock[file[p]] = p

(* A process in the ceremony owns the anchor it created.                   *)
CeremonyOwnsAnchor ==
    \A p \in Procs :
        /\ stage[p] = "anchor_created" => anchor = [state |-> "empty", file |-> file[p]]
        /\ stage[p] = "anchor_written" => anchor = [state |-> "written", file |-> file[p]]
        /\ stage[p] = "anchor_durable" => anchor = [state |-> "durable", file |-> file[p]]

RowsUnique(rows) == \A q, r \in rows : Clash(q, r) => q = r
LedgerUnique == \A f \in Files : RowsUnique(live[f].rows) /\ RowsUnique(stable[f].rows)

(* A process consuming an input does so in the anchored store; once its    *)
(* row is committed nobody else can claim that row, and nobody has been    *)
(* granted it.                                                             *)
ConsumesAnchored ==
    \A p \in Procs : stage[p] \in Consuming => anchor = [state |-> "durable", file |-> file[p]]
ClaimRecorded ==
    \A p \in Procs :
        /\ stage[p] \in Claiming => req[p] \in live[file[p]].rows /\ grants[req[p]] = 0
        /\ stage[p] = "synced" => req[p] \in stable[file[p]].rows
ClaimExclusive ==
    \A p, q \in Procs : stage[p] \in Claiming /\ stage[q] \in Claiming /\ req[p] = req[q] => p = q

GrantedOnce == \A r \in Requests : grants[r] \in {0, 1}

StoreInv ==
    /\ TypeOK
    /\ ReferencesUsed
    /\ LockHeld
    /\ CeremonyOwnsAnchor
    /\ ActivatedStoreIsAnchored
    /\ LedgerUnique
    /\ ConsumesAnchored
    /\ ClaimRecorded
    /\ ClaimExclusive
    /\ AcceptedIsDurable
    /\ GrantedOnce

-----------------------------------------------------------------------------
USE ConstantsAssumption
USE DEF Content, AnchorStates, InitSteps, LockedSteps, Claiming, Consuming, Steps

(* The initial state satisfies the inductive invariant: nothing has been   *)
(* opened, anchored, consumed or granted yet.                              *)
LEMMA StoreInvInit == StoreInit => StoreInv
BY DEF StoreInit, StoreInv, TypeOK, Fresh, NoAnchor, ReferencesUsed, LockHeld, CeremonyOwnsAnchor,
       ActivatedStoreIsAnchored, RowsUnique, LedgerUnique, ConsumesAnchored, ClaimRecorded,
       ClaimExclusive, AcceptedIsDurable, GrantedOnce

(* Opening a connection, or creating the file on an inode never used.      *)
LEMMA OpenStoreInv == ASSUME StoreInv, NEW p \in Procs, Open(p) PROVE StoreInv'
<1>1. /\ stage[p] = "closed"
      /\ stage' = [stage EXCEPT ![p] = "idle"]
      /\ UNCHANGED <<clock, live, stable, lock, anchor, req, late, grants>>
    BY DEF Open, Goto
<1>2. PICK f \in Files :
          /\ path' = f /\ file' = [file EXCEPT ![p] = f]
          /\ f \in used' /\ used \subseteq used' /\ used' \subseteq Files
    BY DEF Open, StoreInv, TypeOK, ReferencesUsed
<1>3. TypeOK' BY <1>1, <1>2 DEF StoreInv, TypeOK
<1>4. ReferencesUsed' BY <1>1, <1>2 DEF StoreInv, TypeOK, ReferencesUsed
<1>5. LockHeld' BY <1>1, <1>2 DEF StoreInv, TypeOK, LockHeld
<1>6. CeremonyOwnsAnchor' BY <1>1, <1>2 DEF StoreInv, TypeOK, CeremonyOwnsAnchor
<1>7. ActivatedStoreIsAnchored' BY <1>1, <1>2 DEF StoreInv, TypeOK, ActivatedStoreIsAnchored
<1>8. LedgerUnique' BY <1>1, <1>2 DEF StoreInv, TypeOK, LedgerUnique
<1>9. ConsumesAnchored' BY <1>1, <1>2 DEF StoreInv, TypeOK, ConsumesAnchored
<1>10. ClaimRecorded' BY <1>1, <1>2 DEF StoreInv, TypeOK, ClaimRecorded
<1>11. ClaimExclusive' BY <1>1, <1>2 DEF StoreInv, TypeOK, ClaimExclusive
<1>12. AcceptedIsDurable' BY <1>1, <1>2 DEF StoreInv, TypeOK, AcceptedIsDurable
<1>13. GrantedOnce' BY <1>1, <1>2 DEF StoreInv, TypeOK, GrantedOnce
<1> QED BY <1>3, <1>4, <1>5, <1>6, <1>7, <1>8, <1>9, <1>10, <1>11, <1>12, <1>13 DEF StoreInv

(* Closing a connection leaves store and anchor alone.                     *)
LEMMA CloseStoreInv == ASSUME StoreInv, NEW p \in Procs, Close(p) PROVE StoreInv'
<1>1. /\ stage[p] = "idle"
      /\ stage' = [stage EXCEPT ![p] = "closed"]
      /\ file' = [file EXCEPT ![p] = NoFile]
      /\ UNCHANGED <<clock, path, used, live, stable, lock, anchor, req, late, grants>>
    BY DEF Close, Goto, diskVars
<1>2. TypeOK' BY <1>1 DEF StoreInv, TypeOK
<1>3. ReferencesUsed' BY <1>1 DEF StoreInv, TypeOK, ReferencesUsed
<1>4. LockHeld' BY <1>1 DEF StoreInv, TypeOK, LockHeld
<1>5. CeremonyOwnsAnchor' BY <1>1 DEF StoreInv, TypeOK, CeremonyOwnsAnchor
<1>6. ActivatedStoreIsAnchored' BY <1>1 DEF StoreInv, TypeOK, ActivatedStoreIsAnchored
<1>7. LedgerUnique' BY <1>1 DEF StoreInv, TypeOK, LedgerUnique
<1>8. ConsumesAnchored' BY <1>1 DEF StoreInv, TypeOK, ConsumesAnchored
<1>9. ClaimRecorded' BY <1>1 DEF StoreInv, TypeOK, ClaimRecorded
<1>10. ClaimExclusive' BY <1>1 DEF StoreInv, TypeOK, ClaimExclusive
<1>11. AcceptedIsDurable' BY <1>1 DEF StoreInv, TypeOK, AcceptedIsDurable
<1>12. GrantedOnce' BY <1>1 DEF StoreInv, TypeOK, GrantedOnce
<1> QED BY <1>2, <1>3, <1>4, <1>5, <1>6, <1>7, <1>8, <1>9, <1>10, <1>11, <1>12 DEF StoreInv

(* The ceremony starts by taking the lock of a file without identity row.  *)
LEMMA InitBeginStoreInv == ASSUME StoreInv, NEW p \in Procs, InitBegin(p) PROVE StoreInv'
<1> USE DEF InitBegin, Goto, StableOpenFileIdentity, ExactStoreIdentity, AnchorNames
<1>1. TypeOK' BY SMTT(30) DEF StoreInv, TypeOK
<1>2. ReferencesUsed' BY SMTT(30) DEF StoreInv, TypeOK, ReferencesUsed
<1>3. LockHeld' BY SMTT(30) DEF StoreInv, TypeOK, LockHeld
<1>4. CeremonyOwnsAnchor' BY SMTT(30) DEF StoreInv, TypeOK, CeremonyOwnsAnchor, LockHeld
<1>5. ActivatedStoreIsAnchored' BY SMTT(30) DEF StoreInv, TypeOK, ActivatedStoreIsAnchored
<1>6. LedgerUnique' BY SMTT(30) DEF StoreInv, TypeOK, LedgerUnique, RowsUnique
<1>7. ConsumesAnchored' BY SMTT(30) DEF StoreInv, TypeOK, ConsumesAnchored
<1>8. ClaimRecorded' BY SMTT(30) DEF StoreInv, TypeOK, ClaimRecorded
<1>9. ClaimExclusive' BY SMTT(30) DEF StoreInv, TypeOK, ClaimExclusive, ClaimRecorded
<1>10. AcceptedIsDurable' BY SMTT(30) DEF StoreInv, TypeOK, AcceptedIsDurable
<1>11. GrantedOnce' BY SMTT(30) DEF StoreInv, TypeOK, GrantedOnce, AcceptedIsDurable
<1> QED BY <1>1, <1>2, <1>3, <1>4, <1>5, <1>6, <1>7, <1>8, <1>9, <1>10, <1>11 DEF StoreInv

(* O_EXCL: an anchor is only created where there was none, hence before    *)
(* any store was activated, consumed from or granted from.                 *)
LEMMA CreateAnchorStoreInv == ASSUME StoreInv, NEW p \in Procs, CreateAnchor(p) PROVE StoreInv'
<1> USE DEF CreateAnchor, Goto
<1>1. TypeOK' BY SMTT(30) DEF StoreInv, TypeOK
<1>2. ReferencesUsed' BY SMTT(30) DEF StoreInv, TypeOK, ReferencesUsed
<1>3. LockHeld' BY SMTT(30) DEF StoreInv, TypeOK, LockHeld
<1>4. CeremonyOwnsAnchor' BY SMTT(30) DEF StoreInv, TypeOK, CeremonyOwnsAnchor, LockHeld
<1>5. ActivatedStoreIsAnchored' BY SMTT(30) DEF StoreInv, TypeOK, ActivatedStoreIsAnchored
<1>6. LedgerUnique' BY SMTT(30) DEF StoreInv, TypeOK, LedgerUnique, RowsUnique
<1>7. ConsumesAnchored' BY SMTT(30) DEF StoreInv, TypeOK, ConsumesAnchored
<1>8. ClaimRecorded' BY SMTT(30) DEF StoreInv, TypeOK, ClaimRecorded
<1>9. ClaimExclusive' BY SMTT(30) DEF StoreInv, TypeOK, ClaimExclusive, ClaimRecorded
<1>10. AcceptedIsDurable' BY SMTT(30) DEF StoreInv, TypeOK, AcceptedIsDurable
<1>11. GrantedOnce' BY SMTT(30) DEF StoreInv, TypeOK, GrantedOnce, AcceptedIsDurable
<1> QED BY <1>1, <1>2, <1>3, <1>4, <1>5, <1>6, <1>7, <1>8, <1>9, <1>10, <1>11 DEF StoreInv

(* The anchor's owner completes it; it is the only process in the ceremony.*)
LEMMA WriteAnchorStoreInv == ASSUME StoreInv, NEW p \in Procs, WriteAnchor(p) PROVE StoreInv'
<1>1. /\ stage[p] = "anchor_created"
      /\ stage' = [stage EXCEPT ![p] = "anchor_written"]
      /\ UNCHANGED <<clock, path, used, live, stable, lock, file, req, late, grants>>
    BY DEF WriteAnchor, Goto
<1>2. /\ anchor' = [state |-> "written", file |-> file[p]]
      /\ anchor = [state |-> "empty", file |-> file[p]]
      /\ file[p] \in Files
    BY DEF WriteAnchor, StoreInv, TypeOK, CeremonyOwnsAnchor
<1>3. TypeOK' BY <1>1, <1>2 DEF StoreInv, TypeOK
<1>4. ReferencesUsed' BY <1>1, <1>2 DEF StoreInv, TypeOK, ReferencesUsed
<1>5. LockHeld' BY <1>1, <1>2 DEF StoreInv, TypeOK, LockHeld
<1>6. CeremonyOwnsAnchor'
  <2>1. ASSUME NEW q \in Procs, stage[q] \in {"anchor_created", "anchor_written", "anchor_durable"}
        PROVE  q = p
    <3>1. anchor.file = file[q] BY <2>1 DEF StoreInv, CeremonyOwnsAnchor
    <3>2. lock[file[q]] = q /\ lock[file[p]] = p BY <1>1, <2>1 DEF StoreInv, LockHeld
    <3> QED BY <1>2, <3>1, <3>2
  <2> QED BY <1>1, <1>2, <2>1 DEF StoreInv, TypeOK, CeremonyOwnsAnchor
<1>7. ActivatedStoreIsAnchored' BY <1>1, <1>2 DEF StoreInv, TypeOK, ActivatedStoreIsAnchored
<1>8. LedgerUnique' BY <1>1, <1>2 DEF StoreInv, TypeOK, LedgerUnique
<1>9. ConsumesAnchored' BY <1>1, <1>2 DEF StoreInv, TypeOK, ConsumesAnchored
<1>10. ClaimRecorded' BY <1>1, <1>2 DEF StoreInv, TypeOK, ClaimRecorded
<1>11. ClaimExclusive' BY <1>1, <1>2 DEF StoreInv, TypeOK, ClaimExclusive
<1>12. AcceptedIsDurable' BY <1>1, <1>2 DEF StoreInv, TypeOK, AcceptedIsDurable
<1>13. GrantedOnce' BY <1>1, <1>2 DEF StoreInv, TypeOK, GrantedOnce
<1> QED BY <1>3, <1>4, <1>5, <1>6, <1>7, <1>8, <1>9, <1>10, <1>11, <1>12, <1>13 DEF StoreInv

(* The anchor becomes permanent.                                           *)
LEMMA SyncAnchorDirectoryStoreInv == ASSUME StoreInv, NEW p \in Procs, SyncAnchorDirectory(p) PROVE StoreInv'
<1>1. /\ stage[p] = "anchor_written"
      /\ stage' = [stage EXCEPT ![p] = "anchor_durable"]
      /\ UNCHANGED <<clock, path, used, live, stable, lock, file, req, late, grants>>
    BY DEF SyncAnchorDirectory, Goto
<1>2. /\ anchor' = [state |-> "durable", file |-> file[p]]
      /\ anchor = [state |-> "written", file |-> file[p]]
      /\ file[p] \in Files
    BY DEF SyncAnchorDirectory, StoreInv, TypeOK, CeremonyOwnsAnchor
<1>3. TypeOK' BY <1>1, <1>2 DEF StoreInv, TypeOK
<1>4. ReferencesUsed' BY <1>1, <1>2 DEF StoreInv, TypeOK, ReferencesUsed
<1>5. LockHeld' BY <1>1, <1>2 DEF StoreInv, TypeOK, LockHeld
<1>6. CeremonyOwnsAnchor'
  <2>1. ASSUME NEW q \in Procs, stage[q] \in {"anchor_created", "anchor_written", "anchor_durable"}
        PROVE  q = p
    <3>1. anchor.file = file[q] BY <2>1 DEF StoreInv, CeremonyOwnsAnchor
    <3>2. lock[file[q]] = q /\ lock[file[p]] = p BY <1>1, <2>1 DEF StoreInv, LockHeld
    <3> QED BY <1>2, <3>1, <3>2
  <2> QED BY <1>1, <1>2, <2>1 DEF StoreInv, TypeOK, CeremonyOwnsAnchor
<1>7. ActivatedStoreIsAnchored' BY <1>1, <1>2 DEF StoreInv, TypeOK, ActivatedStoreIsAnchored
<1>8. LedgerUnique' BY <1>1, <1>2 DEF StoreInv, TypeOK, LedgerUnique
<1>9. ConsumesAnchored' BY <1>1, <1>2 DEF StoreInv, TypeOK, ConsumesAnchored
<1>10. ClaimRecorded' BY <1>1, <1>2 DEF StoreInv, TypeOK, ClaimRecorded
<1>11. ClaimExclusive' BY <1>1, <1>2 DEF StoreInv, TypeOK, ClaimExclusive
<1>12. AcceptedIsDurable' BY <1>1, <1>2 DEF StoreInv, TypeOK, AcceptedIsDurable
<1>13. GrantedOnce' BY <1>1, <1>2 DEF StoreInv, TypeOK, GrantedOnce
<1> QED BY <1>3, <1>4, <1>5, <1>6, <1>7, <1>8, <1>9, <1>10, <1>11, <1>12, <1>13 DEF StoreInv

(* The identity row commits under an anchor that is already durable.       *)
LEMMA InitCommitStoreInv == ASSUME StoreInv, NEW p \in Procs, InitCommit(p) PROVE StoreInv'
<1> DEFINE f == file[p]
<1>1. /\ stage[p] = "anchor_durable"
      /\ stage' = [stage EXCEPT ![p] = "init_committed"]
      /\ live' = [live EXCEPT ![f] = [live[f] EXCEPT !.identity = f]]
      /\ stable' = [stable EXCEPT ![f] = live[f]]
      /\ lock' = [lock EXCEPT ![f] = NoProc]
      /\ UNCHANGED <<clock, path, used, anchor, file, req, late, grants>>
    BY DEF InitCommit, Commit, Goto
<1>2. /\ f \in Files /\ lock[f] = p /\ live[f] \in Content
      /\ anchor = [state |-> "durable", file |-> f]
    BY <1>1 DEF StoreInv, TypeOK, LockHeld, CeremonyOwnsAnchor
<1> HIDE DEF f
<1>3. /\ live' \in [Files -> Content] /\ live'[f].identity = f
      /\ \A g \in Files : live'[g].rows = live[g].rows /\ (g # f => live'[g] = live[g])
    BY <1>1, <1>2 DEF StoreInv, TypeOK
<1>4. /\ stable' \in [Files -> Content]
      /\ \A g \in Files : stable'[g] = IF g = f THEN live[f] ELSE stable[g]
    BY <1>1, <1>2 DEF StoreInv, TypeOK
<1>5. TypeOK' BY <1>1, <1>2, <1>3, <1>4 DEF StoreInv, TypeOK
<1>6. ReferencesUsed' BY <1>1, <1>2, <1>3, <1>4 DEF StoreInv, TypeOK, ReferencesUsed
<1>7. LockHeld' BY <1>1, <1>2 DEF StoreInv, TypeOK, LockHeld, f
<1>8. CeremonyOwnsAnchor' BY <1>1, <1>2, <1>3, <1>4 DEF StoreInv, TypeOK, CeremonyOwnsAnchor
<1>9. ActivatedStoreIsAnchored' BY <1>1, <1>2, <1>3, <1>4 DEF StoreInv, TypeOK, ActivatedStoreIsAnchored
<1>10. LedgerUnique' BY <1>1, <1>2, <1>3, <1>4 DEF StoreInv, TypeOK, LedgerUnique
<1>11. ConsumesAnchored' BY <1>1, <1>2, <1>3, <1>4 DEF StoreInv, TypeOK, ConsumesAnchored
<1>12. ClaimRecorded' BY <1>1, <1>2, <1>3, <1>4 DEF StoreInv, TypeOK, ClaimRecorded
<1>13. ClaimExclusive' BY <1>1, <1>2, <1>3, <1>4 DEF StoreInv, TypeOK, ClaimExclusive
<1>14. AcceptedIsDurable' BY <1>1, <1>2, <1>3, <1>4 DEF StoreInv, TypeOK, AcceptedIsDurable
<1>15. GrantedOnce' BY <1>1, <1>2, <1>3, <1>4 DEF StoreInv, TypeOK, GrantedOnce
<1> QED BY <1>5, <1>6, <1>7, <1>8, <1>9, <1>10, <1>11, <1>12, <1>13, <1>14, <1>15 DEF StoreInv

(* Syncing a file only makes the fallback content newer.                   *)
LEMMA InitFinishStoreInv == ASSUME StoreInv, NEW p \in Procs, InitFinish(p) PROVE StoreInv'
<1>1. /\ stage[p] = "init_committed"
      /\ stage' = [stage EXCEPT ![p] = "idle"]
      /\ UNCHANGED <<clock, path, used, live, lock, anchor, file, req, late, grants>>
    BY DEF InitFinish, Goto
<1>2. stable' \in [Files -> Content] /\ \A f \in Files : stable'[f] \in {stable[f], live[f]}
    BY DEF InitFinish, Sync, StoreInv, TypeOK
<1>3. TypeOK' BY <1>1, <1>2 DEF StoreInv, TypeOK
<1>4. ReferencesUsed' BY <1>1, <1>2 DEF StoreInv, TypeOK, ReferencesUsed
<1>5. LockHeld' BY <1>1, <1>2 DEF StoreInv, TypeOK, LockHeld
<1>6. CeremonyOwnsAnchor' BY <1>1, <1>2 DEF StoreInv, TypeOK, CeremonyOwnsAnchor
<1>7. ActivatedStoreIsAnchored' BY <1>1, <1>2 DEF StoreInv, TypeOK, ActivatedStoreIsAnchored
<1>8. LedgerUnique' BY <1>1, <1>2 DEF StoreInv, TypeOK, LedgerUnique
<1>9. ConsumesAnchored' BY <1>1, <1>2 DEF StoreInv, TypeOK, ConsumesAnchored
<1>10. ClaimRecorded' BY <1>1, <1>2 DEF StoreInv, TypeOK, ClaimRecorded
<1>11. ClaimExclusive' BY <1>1, <1>2 DEF StoreInv, TypeOK, ClaimExclusive
<1>12. AcceptedIsDurable' BY <1>1, <1>2 DEF StoreInv, TypeOK, AcceptedIsDurable
<1>13. GrantedOnce' BY <1>1, <1>2 DEF StoreInv, TypeOK, GrantedOnce
<1> QED BY <1>3, <1>4, <1>5, <1>6, <1>7, <1>8, <1>9, <1>10, <1>11, <1>12, <1>13 DEF StoreInv

(* A consumption starts only in a store whose identity row names its own   *)
(* file, which by ActivatedStoreIsAnchored is the anchored one.            *)
LEMMA ConsumeBeginStoreInv ==
    ASSUME StoreInv, NEW p \in Procs, NEW r \in Requests, ConsumeBegin(p, r) PROVE StoreInv'
<1>1. /\ stage[p] = "idle" /\ lock[file[p]] = NoProc
      /\ lock' = [lock EXCEPT ![file[p]] = p]
      /\ req' = [req EXCEPT ![p] = r]
      /\ stage' = [stage EXCEPT ![p] = "checked"]
      /\ UNCHANGED <<clock, path, used, live, stable, anchor, file, late, grants>>
    BY DEF ConsumeBegin, Goto
<1>2. file[p] \in Files /\ anchor = [state |-> "durable", file |-> file[p]]
    BY <1>1 DEF ConsumeBegin, InitializedStore, ExactStoreIdentity, StoreInv, TypeOK,
                ActivatedStoreIsAnchored
<1>3. TypeOK' BY <1>1, <1>2 DEF StoreInv, TypeOK
<1>4. ReferencesUsed' BY <1>1, <1>2 DEF StoreInv, TypeOK, ReferencesUsed
<1>5. LockHeld' BY <1>1, <1>2 DEF StoreInv, TypeOK, LockHeld
<1>6. CeremonyOwnsAnchor' BY <1>1, <1>2 DEF StoreInv, TypeOK, CeremonyOwnsAnchor
<1>7. ActivatedStoreIsAnchored' BY <1>1, <1>2 DEF StoreInv, TypeOK, ActivatedStoreIsAnchored
<1>8. LedgerUnique' BY <1>1, <1>2 DEF StoreInv, TypeOK, LedgerUnique
<1>9. ConsumesAnchored' BY <1>1, <1>2 DEF StoreInv, TypeOK, ConsumesAnchored
<1>10. ClaimRecorded' BY <1>1, <1>2 DEF StoreInv, TypeOK, ClaimRecorded
<1>11. ClaimExclusive' BY <1>1, <1>2 DEF StoreInv, TypeOK, ClaimExclusive
<1>12. AcceptedIsDurable' BY <1>1, <1>2 DEF StoreInv, TypeOK, AcceptedIsDurable
<1>13. GrantedOnce' BY <1>1, <1>2 DEF StoreInv, TypeOK, GrantedOnce
<1> QED BY <1>3, <1>4, <1>5, <1>6, <1>7, <1>8, <1>9, <1>10, <1>11, <1>12, <1>13 DEF StoreInv

(* The row is inserted only where no unique column clashes, so the input   *)
(* was neither granted before nor is claimed by another process; a clash   *)
(* rolls back.                                                             *)
LEMMA ConsumeCommitStoreInv == ASSUME StoreInv, NEW p \in Procs, ConsumeCommit(p) PROVE StoreInv'
<1> DEFINE f == file[p]
           r == req[p]
<1>0. f \in Files /\ r \in Requests /\ lock[f] = p
    BY DEF StoreInv, TypeOK, LockHeld, ConsumeCommit
<1>1. CASE UniqueIn(live[f].rows, r)
    <2>1. /\ live' = [live EXCEPT ![f] = [live[f] EXCEPT !.rows = @ \cup {r}]]
          /\ stable' = [stable EXCEPT ![f] = live[f]]
          /\ lock' = [lock EXCEPT ![f] = NoProc]
          /\ late' = [late EXCEPT ![p] = r.expiresAt <= clock]
          /\ stage' = [stage EXCEPT ![p] = "committed"]
          /\ UNCHANGED <<clock, path, used, anchor, file, req, grants>>
          /\ stage[p] = "checked"
        BY <1>1 DEF ConsumeCommit, Commit, Goto
    <2>2. r \notin live[f].rows
        BY <1>1 DEF UniqueIn, Clash
    <2>3. live[f].rows \cup {r} \in SUBSET Requests /\ (r.expiresAt <= clock) \in BOOLEAN
        BY <1>0 DEF StoreInv, TypeOK
    <2> HIDE DEF f, r
    <2>4. TypeOK' BY <1>0, <2>1, <2>3 DEF StoreInv, TypeOK, f, r
    <2>5. ReferencesUsed' BY <1>0, <2>1 DEF StoreInv, TypeOK, ReferencesUsed
    <2>6. LockHeld' BY <1>0, <2>1 DEF StoreInv, TypeOK, LockHeld, f
    <2>7. CeremonyOwnsAnchor' BY <2>1 DEF StoreInv, TypeOK, CeremonyOwnsAnchor
    <2>8. ActivatedStoreIsAnchored' BY <1>0, <2>1 DEF StoreInv, TypeOK, ActivatedStoreIsAnchored
    <2>9. LedgerUnique'
        <3>1. RowsUnique(live[f].rows \cup {r})
            BY <1>0, <1>1 DEF StoreInv, LedgerUnique, RowsUnique, UniqueIn, Clash
        <3>2. QED BY <1>0, <2>1, <3>1 DEF StoreInv, TypeOK, LedgerUnique
    <2>10. ConsumesAnchored' BY <2>1 DEF StoreInv, TypeOK, ConsumesAnchored
    <2>11. anchor = [state |-> "durable", file |-> f] /\ grants[r] = 0
        BY <1>0, <2>1, <2>2 DEF StoreInv, TypeOK, ConsumesAnchored, AcceptedIsDurable, GrantedOnce, f
    <2>12. ClaimRecorded'
        BY <1>0, <2>1, <2>11 DEF StoreInv, TypeOK, ClaimRecorded, f, r
    <2>13. ClaimExclusive'
        <3>1. ASSUME NEW q \in Procs, stage[q] \in Claiming PROVE req[q] # r
            BY <1>0, <2>2, <2>11, <3>1 DEF StoreInv, TypeOK, ClaimRecorded, ConsumesAnchored
        <3> QED BY <2>1, <3>1 DEF StoreInv, TypeOK, ClaimExclusive, r
    <2>14. AcceptedIsDurable' BY <1>0, <2>1 DEF StoreInv, TypeOK, AcceptedIsDurable
    <2>15. GrantedOnce' BY <2>1 DEF StoreInv, TypeOK, GrantedOnce
    <2> QED BY <2>4, <2>5, <2>6, <2>7, <2>8, <2>9, <2>10, <2>12, <2>13, <2>14, <2>15 DEF StoreInv
<1>2. CASE ~UniqueIn(live[f].rows, r)
    <2>1. /\ lock' = [lock EXCEPT ![f] = NoProc]
          /\ req' = [req EXCEPT ![p] = NoRequest]
          /\ stage' = [stage EXCEPT ![p] = "idle"]
          /\ UNCHANGED <<clock, path, used, live, stable, anchor, file, late, grants>>
          /\ stage[p] = "checked"
        BY <1>2 DEF ConsumeCommit, Goto, UniqueIn
    <2> QED BY <1>0, <2>1 DEF StoreInv, TypeOK, ReferencesUsed, LockHeld, CeremonyOwnsAnchor,
       ActivatedStoreIsAnchored, RowsUnique, LedgerUnique, ConsumesAnchored, ClaimRecorded,
       ClaimExclusive, AcceptedIsDurable, GrantedOnce
<1> QED BY <1>1, <1>2

(* The sync makes the claimed row durable; if the path moved the process   *)
(* gives its claim up.                                                     *)
LEMMA ConsumeSyncStoreInv == ASSUME StoreInv, NEW p \in Procs, ConsumeSync(p) PROVE StoreInv'
<1>1. CASE StableOpenFileIdentity(p)
    <2>1. /\ stage[p] = "committed"
          /\ stable' = [stable EXCEPT ![file[p]] = live[file[p]]]
          /\ stage' = [stage EXCEPT ![p] = "synced"]
          /\ UNCHANGED <<clock, path, used, live, lock, anchor, file, req, late, grants>>
        BY <1>1 DEF ConsumeSync, Sync, Goto
    <2>2. TypeOK' /\ ReferencesUsed' /\ LockHeld' /\ CeremonyOwnsAnchor'
        BY <2>1 DEF StoreInv, TypeOK, ReferencesUsed, LockHeld, CeremonyOwnsAnchor
    <2>3. ActivatedStoreIsAnchored' /\ LedgerUnique' /\ ConsumesAnchored'
        BY <2>1 DEF StoreInv, TypeOK, ActivatedStoreIsAnchored, LedgerUnique, ConsumesAnchored
    <2>4. ClaimRecorded' /\ ClaimExclusive'
        BY <2>1 DEF StoreInv, TypeOK, ClaimRecorded, ClaimExclusive
    <2>5. AcceptedIsDurable' /\ GrantedOnce'
        BY <2>1 DEF StoreInv, TypeOK, AcceptedIsDurable, GrantedOnce
    <2> QED BY <2>2, <2>3, <2>4, <2>5 DEF StoreInv
<1>2. CASE ~StableOpenFileIdentity(p)
    <2>1. /\ stage[p] = "committed"
          /\ req' = [req EXCEPT ![p] = NoRequest]
          /\ late' = [late EXCEPT ![p] = FALSE]
          /\ stage' = [stage EXCEPT ![p] = "idle"]
          /\ UNCHANGED <<clock, path, used, live, stable, lock, anchor, file, grants>>
        BY <1>2 DEF ConsumeSync, Goto
    <2> QED BY <2>1 DEF StoreInv, TypeOK, ReferencesUsed, LockHeld, CeremonyOwnsAnchor,
       ActivatedStoreIsAnchored, RowsUnique, LedgerUnique, ConsumesAnchored, ClaimRecorded,
       ClaimExclusive, AcceptedIsDurable, GrantedOnce
<1> QED BY <1>1, <1>2

(* The one step that grants: the claim was exclusive, its row is durable    *)
(* and the input had not been granted.                                     *)
LEMMA ConsumeFinishStoreInv == ASSUME StoreInv, NEW p \in Procs, ConsumeFinish(p) PROVE StoreInv'
<1> USE DEF ConsumeFinish, Goto, ConsumeAccepted, InitializedStore, StableOpenFileIdentity,
            ExactStoreIdentity, AnchorNames, diskVars
<1>1. TypeOK' BY SMTT(30) DEF StoreInv, TypeOK
<1>2. ReferencesUsed' BY SMTT(30) DEF StoreInv, TypeOK, ReferencesUsed
<1>3. LockHeld' BY SMTT(30) DEF StoreInv, TypeOK, LockHeld
<1>4. CeremonyOwnsAnchor' BY SMTT(30) DEF StoreInv, TypeOK, CeremonyOwnsAnchor, LockHeld
<1>5. ActivatedStoreIsAnchored' BY SMTT(30) DEF StoreInv, TypeOK, ActivatedStoreIsAnchored
<1>6. LedgerUnique' BY SMTT(30) DEF StoreInv, TypeOK, LedgerUnique, RowsUnique
<1>7. ConsumesAnchored' BY SMTT(30) DEF StoreInv, TypeOK, ConsumesAnchored
<1>8. ClaimRecorded' BY SMTT(30) DEF StoreInv, TypeOK, ClaimRecorded, ClaimExclusive
<1>9. ClaimExclusive' BY SMTT(30) DEF StoreInv, TypeOK, ClaimExclusive, ClaimRecorded
<1>10. AcceptedIsDurable' BY SMTT(30) DEF StoreInv, TypeOK, AcceptedIsDurable, ClaimRecorded, ConsumesAnchored
<1>11. GrantedOnce' BY SMTT(30) DEF StoreInv, TypeOK, GrantedOnce, AcceptedIsDurable, ClaimRecorded
<1> QED BY <1>1, <1>2, <1>3, <1>4, <1>5, <1>6, <1>7, <1>8, <1>9, <1>10, <1>11 DEF StoreInv

(* Setting the clock, in either direction, disturbs nothing.               *)
LEMMA ClockMovesStoreInv == ASSUME StoreInv, ClockMoves PROVE StoreInv'
<1>1. /\ clock' \in Times
      /\ UNCHANGED <<path, used, live, stable, lock, anchor, stage, file, req, late, grants>>
    BY DEF ClockMoves, diskVars, procVars
<1>2. TypeOK' BY <1>1 DEF StoreInv, TypeOK
<1>3. ReferencesUsed' BY <1>1 DEF StoreInv, TypeOK, ReferencesUsed
<1>4. LockHeld' BY <1>1 DEF StoreInv, TypeOK, LockHeld
<1>5. CeremonyOwnsAnchor' BY <1>1 DEF StoreInv, TypeOK, CeremonyOwnsAnchor
<1>6. ActivatedStoreIsAnchored' BY <1>1 DEF StoreInv, TypeOK, ActivatedStoreIsAnchored
<1>7. LedgerUnique' BY <1>1 DEF StoreInv, TypeOK, LedgerUnique
<1>8. ConsumesAnchored' BY <1>1 DEF StoreInv, TypeOK, ConsumesAnchored
<1>9. ClaimRecorded' BY <1>1 DEF StoreInv, TypeOK, ClaimRecorded
<1>10. ClaimExclusive' BY <1>1 DEF StoreInv, TypeOK, ClaimExclusive
<1>11. AcceptedIsDurable' BY <1>1 DEF StoreInv, TypeOK, AcceptedIsDurable
<1>12. GrantedOnce' BY <1>1 DEF StoreInv, TypeOK, GrantedOnce
<1> QED BY <1>2, <1>3, <1>4, <1>5, <1>6, <1>7, <1>8, <1>9, <1>10, <1>11, <1>12 DEF StoreInv

(* A dead process gives up its lock and its claim.                         *)
LEMMA ProcessCrashStoreInv == ASSUME StoreInv, NEW p \in Procs, ProcessCrash(p) PROVE StoreInv'
<1>1. /\ stage' = [stage EXCEPT ![p] = "closed"]
      /\ file' = [file EXCEPT ![p] = NoFile]
      /\ req' = [req EXCEPT ![p] = NoRequest]
      /\ late' = [late EXCEPT ![p] = FALSE]
      /\ lock' = [f \in Files |-> IF lock[f] = p THEN NoProc ELSE lock[f]]
      /\ UNCHANGED <<clock, path, used, live, stable, anchor, grants>>
    BY DEF ProcessCrash
<1>2. TypeOK' BY <1>1 DEF StoreInv, TypeOK
<1>3. ReferencesUsed' BY <1>1 DEF StoreInv, TypeOK, ReferencesUsed
<1>4. LockHeld' BY <1>1 DEF StoreInv, TypeOK, LockHeld
<1>5. CeremonyOwnsAnchor' BY <1>1 DEF StoreInv, TypeOK, CeremonyOwnsAnchor
<1>6. ActivatedStoreIsAnchored' BY <1>1 DEF StoreInv, TypeOK, ActivatedStoreIsAnchored
<1>7. LedgerUnique' BY <1>1 DEF StoreInv, TypeOK, LedgerUnique
<1>8. ConsumesAnchored' BY <1>1 DEF StoreInv, TypeOK, ConsumesAnchored
<1>9. ClaimRecorded' BY <1>1 DEF StoreInv, TypeOK, ClaimRecorded
<1>10. ClaimExclusive' BY <1>1 DEF StoreInv, TypeOK, ClaimExclusive
<1>11. AcceptedIsDurable' BY <1>1 DEF StoreInv, TypeOK, AcceptedIsDurable
<1>12. GrantedOnce' BY <1>1 DEF StoreInv, TypeOK, GrantedOnce
<1> QED BY <1>2, <1>3, <1>4, <1>5, <1>6, <1>7, <1>8, <1>9, <1>10, <1>11, <1>12 DEF StoreInv

(* Nobody survives a power loss with a claim, and what was granted is in    *)
(* the fallback content too.                                               *)
LEMMA PowerLossStoreInv == ASSUME StoreInv, PowerLoss PROVE StoreInv'
<1> USE DEF PowerLoss, NoAnchor
<1>1. TypeOK' BY SMTT(30) DEF StoreInv, TypeOK
<1>2. ReferencesUsed' BY SMTT(30) DEF StoreInv, TypeOK, ReferencesUsed
<1>3. LockHeld' BY SMTT(30) DEF StoreInv, TypeOK, LockHeld
<1>4. CeremonyOwnsAnchor' BY SMTT(30) DEF StoreInv, TypeOK, CeremonyOwnsAnchor, LockHeld
<1>5. ActivatedStoreIsAnchored' BY SMTT(30) DEF StoreInv, TypeOK, ActivatedStoreIsAnchored
<1>6. LedgerUnique' BY SMTT(30) DEF StoreInv, TypeOK, LedgerUnique, RowsUnique
<1>7. ConsumesAnchored' BY SMTT(30) DEF StoreInv, TypeOK, ConsumesAnchored
<1>8. ClaimRecorded' BY SMTT(30) DEF StoreInv, TypeOK, ClaimRecorded
<1>9. ClaimExclusive' BY SMTT(30) DEF StoreInv, TypeOK, ClaimExclusive, ClaimRecorded
<1>10. AcceptedIsDurable' BY SMTT(30) DEF StoreInv, TypeOK, AcceptedIsDurable
<1>11. GrantedOnce' BY SMTT(30) DEF StoreInv, TypeOK, GrantedOnce, AcceptedIsDurable
<1> QED BY <1>1, <1>2, <1>3, <1>4, <1>5, <1>6, <1>7, <1>8, <1>9, <1>10, <1>11 DEF StoreInv

(* Unlinking the path touches no inode.                                    *)
LEMMA UnlinkStoreInv == ASSUME StoreInv, Unlink PROVE StoreInv'
<1>1. /\ path' = NoFile
      /\ UNCHANGED <<clock, used, live, stable, lock, anchor, stage, file, req, late, grants>>
    BY DEF Unlink, procVars
<1>2. TypeOK' BY <1>1 DEF StoreInv, TypeOK
<1>3. ReferencesUsed' BY <1>1 DEF StoreInv, TypeOK, ReferencesUsed
<1>4. LockHeld' BY <1>1 DEF StoreInv, TypeOK, LockHeld
<1>5. CeremonyOwnsAnchor' BY <1>1 DEF StoreInv, TypeOK, CeremonyOwnsAnchor
<1>6. ActivatedStoreIsAnchored' BY <1>1 DEF StoreInv, TypeOK, ActivatedStoreIsAnchored
<1>7. LedgerUnique' BY <1>1 DEF StoreInv, TypeOK, LedgerUnique
<1>8. ConsumesAnchored' BY <1>1 DEF StoreInv, TypeOK, ConsumesAnchored
<1>9. ClaimRecorded' BY <1>1 DEF StoreInv, TypeOK, ClaimRecorded
<1>10. ClaimExclusive' BY <1>1 DEF StoreInv, TypeOK, ClaimExclusive
<1>11. AcceptedIsDurable' BY <1>1 DEF StoreInv, TypeOK, AcceptedIsDurable
<1>12. GrantedOnce' BY <1>1 DEF StoreInv, TypeOK, GrantedOnce
<1> QED BY <1>2, <1>3, <1>4, <1>5, <1>6, <1>7, <1>8, <1>9, <1>10, <1>11, <1>12 DEF StoreInv

(* A copy gets an inode of its own, which no identity row can name.        *)
LEMMA RestoreCopyStoreInv == ASSUME StoreInv, RestoreCopy PROVE StoreInv'
<1>1. UNCHANGED <<clock, lock, anchor, stage, file, req, late, grants>>
    BY DEF RestoreCopy, procVars
<1>2. PICK f \in Files \ used, g \in used :
        \E rows \in SUBSET live[g].rows, id \in {NoFile, live[g].identity} :
          /\ live' = [live EXCEPT ![f] = [identity |-> id, rows |-> rows]]
          /\ stable' = [stable EXCEPT ![f] = [identity |-> id, rows |-> rows]]
          /\ used' = used \cup {f} /\ path' = f
    BY DEF RestoreCopy
<1>3. PICK rows \in SUBSET live[g].rows, id \in {NoFile, live[g].identity} :
          /\ live' = [live EXCEPT ![f] = [identity |-> id, rows |-> rows]]
          /\ stable' = [stable EXCEPT ![f] = [identity |-> id, rows |-> rows]]
          /\ used' = used \cup {f} /\ path' = f
    BY <1>2
<1>4. g \in Files /\ [identity |-> id, rows |-> rows] \in Content /\ id # f /\ id \in used \cup {NoFile}
    BY <1>2 DEF StoreInv, TypeOK, ReferencesUsed
<1>5. anchor.file # f /\ \A p \in Procs : file[p] # f
    BY <1>2 DEF StoreInv, ReferencesUsed
<1>6. TypeOK' BY <1>1, <1>3, <1>4, <1>5 DEF StoreInv, TypeOK
<1>7. ReferencesUsed' BY <1>1, <1>3, <1>4, <1>5 DEF StoreInv, TypeOK, ReferencesUsed
<1>8. LockHeld' BY <1>1, <1>3, <1>4, <1>5 DEF StoreInv, TypeOK, LockHeld
<1>9. CeremonyOwnsAnchor' BY <1>1, <1>3, <1>4, <1>5 DEF StoreInv, TypeOK, CeremonyOwnsAnchor
<1>10. ActivatedStoreIsAnchored' BY <1>1, <1>3, <1>4, <1>5 DEF StoreInv, TypeOK, ActivatedStoreIsAnchored
<1>11. LedgerUnique' BY <1>1, <1>3, <1>4, <1>5 DEF StoreInv, TypeOK, LedgerUnique, RowsUnique
<1>12. ConsumesAnchored' BY <1>1, <1>3, <1>4, <1>5 DEF StoreInv, TypeOK, ConsumesAnchored
<1>13. ClaimRecorded' BY <1>1, <1>3, <1>4, <1>5 DEF StoreInv, TypeOK, ClaimRecorded
<1>14. ClaimExclusive' BY <1>1, <1>3, <1>4, <1>5 DEF StoreInv, TypeOK, ClaimExclusive
<1>15. AcceptedIsDurable' BY <1>1, <1>3, <1>4, <1>5 DEF StoreInv, TypeOK, AcceptedIsDurable
<1>16. GrantedOnce' BY <1>1, <1>3, <1>4, <1>5 DEF StoreInv, TypeOK, GrantedOnce
<1> QED BY <1>6, <1>7, <1>8, <1>9, <1>10, <1>11, <1>12, <1>13, <1>14, <1>15, <1>16 DEF StoreInv

(* Moving a file back touches no inode.                                    *)
LEMMA RestoreOriginalStoreInv == ASSUME StoreInv, RestoreOriginal PROVE StoreInv'
<1>1. /\ path' \in used
      /\ UNCHANGED <<clock, used, live, stable, lock, anchor, stage, file, req, late, grants>>
    BY DEF RestoreOriginal, procVars
<1>2. TypeOK' BY <1>1 DEF StoreInv, TypeOK
<1>3. ReferencesUsed' BY <1>1 DEF StoreInv, TypeOK, ReferencesUsed
<1>4. LockHeld' BY <1>1 DEF StoreInv, TypeOK, LockHeld
<1>5. CeremonyOwnsAnchor' BY <1>1 DEF StoreInv, TypeOK, CeremonyOwnsAnchor
<1>6. ActivatedStoreIsAnchored' BY <1>1 DEF StoreInv, TypeOK, ActivatedStoreIsAnchored
<1>7. LedgerUnique' BY <1>1 DEF StoreInv, TypeOK, LedgerUnique
<1>8. ConsumesAnchored' BY <1>1 DEF StoreInv, TypeOK, ConsumesAnchored
<1>9. ClaimRecorded' BY <1>1 DEF StoreInv, TypeOK, ClaimRecorded
<1>10. ClaimExclusive' BY <1>1 DEF StoreInv, TypeOK, ClaimExclusive
<1>11. AcceptedIsDurable' BY <1>1 DEF StoreInv, TypeOK, AcceptedIsDurable
<1>12. GrantedOnce' BY <1>1 DEF StoreInv, TypeOK, GrantedOnce
<1> QED BY <1>2, <1>3, <1>4, <1>5, <1>6, <1>7, <1>8, <1>9, <1>10, <1>11, <1>12 DEF StoreInv

-----------------------------------------------------------------------------
(* Every step of the store preserves the inductive invariant.              *)
LEMMA StoreInvStep == StoreInv /\ [StoreNext]_storeVars => StoreInv'
<1> SUFFICES ASSUME StoreInv, [StoreNext]_storeVars PROVE StoreInv'
    OBVIOUS
<1>1. CASE Environment
    BY <1>1, ClockMovesStoreInv, ProcessCrashStoreInv, PowerLossStoreInv, UnlinkStoreInv, RestoreCopyStoreInv,
       RestoreOriginalStoreInv DEF Environment
<1>2. ASSUME NEW p \in Procs, Operation(p) PROVE StoreInv'
    BY <1>2, OpenStoreInv, CloseStoreInv, InitBeginStoreInv, CreateAnchorStoreInv, WriteAnchorStoreInv,
       SyncAnchorDirectoryStoreInv, InitCommitStoreInv, InitFinishStoreInv, ConsumeBeginStoreInv,
       ConsumeCommitStoreInv, ConsumeSyncStoreInv, ConsumeFinishStoreInv DEF Operation
<1>3. CASE UNCHANGED storeVars
    BY <1>3 DEF storeVars, StoreInv, TypeOK, ReferencesUsed, LockHeld, CeremonyOwnsAnchor,
       ActivatedStoreIsAnchored, RowsUnique, LedgerUnique, ConsumesAnchored, ClaimRecorded,
       ClaimExclusive, AcceptedIsDurable, GrantedOnce
<1> QED BY <1>1, <1>2, <1>3 DEF StoreNext

(* The inductive invariant holds in every reachable state.                 *)
THEOREM StoreInvariance == StoreSpec => []StoreInv
BY StoreInvInit, StoreInvStep, PTL DEF StoreSpec

(* Type correctness of the store and of its callers' progress.             *)
THEOREM StoreTypeCorrect == StoreSpec => []TypeOK
<1>1. StoreInv => TypeOK BY DEF StoreInv
<1> QED BY <1>1, StoreInvariance, PTL

(* No authorization, envelope, digest or nonce is ever accepted twice:     *)
(* consumeOwnerAuthorization returns at most once for inputs that share a  *)
(* unique column, across processes, crashes, power losses and replacements *)
(* of the database file.                                                   *)
THEOREM OneShot == StoreSpec => []AtMostOnce
<1>1. StoreInv => AtMostOnce
    <2> SUFFICES ASSUME StoreInv, NEW q \in Requests, NEW r \in Requests, Clash(q, r)
                 PROVE  grants[q] + (IF q = r THEN 0 ELSE grants[r]) <= 1
        BY DEF AtMostOnce
    <2>1. grants[q] \in {0, 1} /\ grants[r] \in {0, 1}
        BY DEF StoreInv, GrantedOnce
    <2>2. ASSUME grants[q] = 1, grants[r] = 1 PROVE q = r
        BY <2>2 DEF StoreInv, TypeOK, AcceptedIsDurable, LedgerUnique, RowsUnique
    <2> QED BY <2>1, <2>2
<1> QED BY <1>1, StoreInvariance, PTL

(* What was accepted is in the anchored store in a form no power loss can  *)
(* take back.                                                              *)
THEOREM Durable == StoreSpec => []AcceptedIsDurable
<1>1. StoreInv => AcceptedIsDurable BY DEF StoreInv
<1> QED BY <1>1, StoreInvariance, PTL

(* An activated store implies a durable anchor naming it, so no second     *)
(* store can be activated.                                                 *)
THEOREM Anchored == StoreSpec => []ActivatedStoreIsAnchored
<1>1. StoreInv => ActivatedStoreIsAnchored BY DEF StoreInv
<1> QED BY <1>1, StoreInvariance, PTL

(* A durable anchor is never changed again: CreateAnchor needs an absent    *)
(* one and the two later ceremony steps own an anchor that is not durable. *)
THEOREM PermanentAnchor == StoreSpec => AnchorIsPermanent
<1>1. StoreInv /\ [StoreNext]_storeVars => [anchor.state = "durable" => UNCHANGED anchor]_anchor
    <2> SUFFICES ASSUME StoreInv, [StoreNext]_storeVars, anchor.state = "durable" PROVE UNCHANGED anchor
        OBVIOUS
    <2>1. CASE PowerLoss
        BY <2>1 DEF PowerLoss
    <2>2. ASSUME NEW p \in Procs, CreateAnchor(p) \/ WriteAnchor(p) \/ SyncAnchorDirectory(p)
          PROVE  UNCHANGED anchor
        BY <2>2 DEF StoreInv, CeremonyOwnsAnchor, CreateAnchor, WriteAnchor, SyncAnchorDirectory
    <2>3. CASE UNCHANGED storeVars BY <2>3 DEF storeVars
    <2> QED
        BY <2>1, <2>2, <2>3 DEF StoreNext, Environment, Operation, ClockMoves, ProcessCrash, Unlink,
           RestoreCopy, RestoreOriginal, Open, Close, InitBegin, InitCommit, InitFinish,
           ConsumeBegin, ConsumeCommit, ConsumeSync, ConsumeFinish, diskVars
<1> QED BY <1>1, StoreInvariance, PTL DEF StoreSpec, AnchorIsPermanent

(* A step that grants is a Grant of the abstract ledger.                   *)
LEMMA FinishGrants ==
    ASSUME StoreInv, NEW p \in Procs, ConsumeFinish(p), ConsumeAccepted(p)
    PROVE  Ledger!Grant(req[p])
<1>1. stage[p] = "synced" /\ req[p] \in Requests /\ file[p] \in Files
    BY DEF ConsumeFinish, StoreInv, TypeOK
<1>2. /\ clock < req[p].expiresAt
      /\ req[p] \in live[file[p]].rows
      /\ grants' = [grants EXCEPT ![req[p]] = @ + 1]
      /\ clock' = clock
    BY DEF ConsumeFinish, ConsumeAccepted
<1>3. grants[req[p]] = 0
    BY <1>1 DEF StoreInv, ClaimRecorded
<1>4. grants' = [grants EXCEPT ![req[p]] = 1]
    BY <1>1, <1>2, <1>3 DEF StoreInv, TypeOK
<1>5. ASSUME NEW q \in Requests, Clash(q, req[p]) PROVE grants[q] = 0
    <2>1. grants[q] \in {0, 1} BY DEF StoreInv, GrantedOnce
    <2>2. CASE grants[q] = 1
        <3>1. q \in live[file[p]].rows
            BY <1>1, <2>2 DEF StoreInv, AcceptedIsDurable, ConsumesAnchored
        <3>2. q = req[p]
            BY <1>1, <1>2, <1>5, <3>1 DEF StoreInv, LedgerUnique, RowsUnique
        <3> QED BY <1>3, <3>2
    <2> QED BY <2>1, <2>2
<1> QED BY <1>2, <1>4, <1>5 DEF Ledger!Grant

(* The replay store implements the abstract one-shot ledger: every step is *)
(* a grant of an unexpired, unclashing input, a clock move, or nothing.    *)
THEOREM Refinement == StoreSpec => ImplementsLedger
<1>1. StoreInit => Ledger!Init
    BY DEF StoreInit, Ledger!Init
<1>2. StoreInv /\ [StoreNext]_storeVars => [Ledger!Next]_(Ledger!vars)
    <2> SUFFICES ASSUME StoreInv, [StoreNext]_storeVars PROVE Ledger!Next \/ UNCHANGED <<clock, grants>>
        BY DEF Ledger!vars
    <2>1. CASE ClockMoves
        BY <2>1 DEF ClockMoves, Ledger!Next, Ledger!ClockMoves
    <2>2. ASSUME NEW p \in Procs, ConsumeFinish(p) PROVE Ledger!Next \/ UNCHANGED <<clock, grants>>
        <3>1. CASE ConsumeAccepted(p)
            <4>1. req[p] \in Requests BY <2>2 DEF ConsumeFinish, StoreInv, TypeOK
            <4> QED BY <2>2, <3>1, <4>1, FinishGrants DEF Ledger!Next
        <3>2. CASE ~ConsumeAccepted(p)
            BY <2>2, <3>2 DEF ConsumeFinish
        <3> QED BY <3>1, <3>2
    <2>3. CASE UNCHANGED storeVars BY <2>3 DEF storeVars
    <2> QED
        BY <2>1, <2>2, <2>3 DEF StoreNext, Environment, Operation, ProcessCrash, PowerLoss, Unlink,
           RestoreCopy, RestoreOriginal, Open, Close, InitBegin, CreateAnchor, WriteAnchor,
           SyncAnchorDirectory, InitCommit, InitFinish, ConsumeBegin, ConsumeCommit, ConsumeSync
<1> QED BY <1>1, <1>2, StoreInvariance, PTL DEF StoreSpec, ImplementsLedger, Ledger!Spec
=============================================================================
