------------------------- MODULE MCConsoleCeremony -------------------------
EXTENDS ConsoleCeremony, TLC

CONSTANTS k1, k2

(* The key in use and its successor.                                       *)
MCFirstEntry == [key |-> k1, from |-> 0, until |-> 9, revoked |-> FALSE]
MCEntries ==
    {MCFirstEntry, [key |-> k2, from |-> 1, until |-> 2, revoked |-> FALSE]}

(* The server restarts under the same authorization of the pilot.          *)
MCAuthorizationEnd == (0 :> 2) @@ (1 :> 2)

(* Handlers are interchangeable, and so are authorization ids.             *)
Symmetry == Permutations(Handlers) \cup Permutations(Authorizations)
=============================================================================
