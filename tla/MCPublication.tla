--------------------------- MODULE MCPublication ---------------------------
EXTENDS Publication, TLC

CONSTANTS b1, b2, r1, r2

Request(result, action, pull) ==
    [authorization |-> "a1", base |-> b1, result |-> result, action |-> action, pull |-> pull,
     expiresAt |-> 1]

(* One authorization in every form a reproduced preview can take; what     *)
(* holders of other authorizations do, others do to the repository.        *)
Forms ==
    << Request("blocked", "create", 0), Request("unchanged", "create", 0),
       Request("ready", "create", 0), Request("ready", "reuse", 0), Request("ready", "update", 1) >>

MCRequests == {Forms[i] : i \in DOMAIN Forms}

(* The runs are interchangeable: of two that exchange their requests one   *)
(* behaviour is explored.  A run whose preview was not ready only reads the*)
(* base branch, so it is explored alone.                                   *)
InOrder ==
    \/ request[r1] = None \/ request[r2] = None
    \/ \E i, j \in DOMAIN Forms :
          /\ i <= j /\ Forms[i].result = "ready"
          /\ request[r1] = Forms[i] /\ request[r2] = Forms[j]

(* An authorization that has expired can be revoked as well, or the other  *)
(* way round; the second end changes nothing and is not followed.          *)
EndsOnce == now = 0 \/ revoked = {}
=============================================================================
