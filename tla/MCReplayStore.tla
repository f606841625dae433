--------------------------- MODULE MCReplayStore ---------------------------
EXTENDS ReplayStore

Input(a, e, d, n, x) ==
    [authorizationId |-> a, envelopeId |-> e, envelopeDigest |-> d,
     nonceDigest |-> n, expiresAt |-> x]

(* Two envelopes around one nonce: different rows that must not both be    *)
(* accepted.  Each can also be submitted again by the other process.       *)
MCRequests == { Input("a1", "e1", "d1", "n1", 1), Input("a2", "e2", "d2", "n1", 1) }

(* Before and at the expiry of both requests.                              *)
MCTimes == 0..1
=============================================================================
