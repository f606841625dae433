---------------------------- MODULE OwnerLedger ----------------------------
(***************************************************************************)
(* What the owner-authorization replay store promises its caller: an       *)
(* authorization, an envelope, an envelope digest and a nonce are each     *)
(* accepted at most once, ever, and only before the authorization expires. *)
(* Nothing is ever released.                                               *)
(*                                                                         *)
(* ReplayStore.tla is shown to implement this specification.               *)
(***************************************************************************)
EXTENDS Naturals

CONSTANTS
    Requests,      \* consumption inputs (OwnerAuthorizationConsumptionInput)
    Clash(_, _)    \* two inputs share a column that must be unique

VARIABLES
    now,           \* the store's clock
    grants         \* how often consumeOwnerAuthorization returned, per input

vars == <<now, grants>>

Init ==
    /\ now \in Nat
    /\ grants = [r \in Requests |-> 0]

\* consumeOwnerAuthorization returns a stored row to its caller.
Grant(r) ==
    /\ now < r.expiresAt
    /\ \A q \in Requests : Clash(q, r) => grants[q] = 0
    /\ grants' = [grants EXCEPT ![r] = 1]
    /\ UNCHANGED now

ClockMoves ==
    /\ now' \in Nat
    /\ UNCHANGED grants

Next == ClockMoves \/ \E r \in Requests : Grant(r)

Spec == Init /\ [][Next]_vars
=============================================================================
