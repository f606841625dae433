------------------------ MODULE PublicationContract ------------------------
(***************************************************************************)
(* What a repository owner may rely on after signing an authorization:     *)
(* at most one of the requests that carry it is ever spent, nothing is     *)
(* written to the repository for a request that was not spent, and each    *)
(* spent request performs each action it allows at most once, the pull     *)
(* request only after the branch it is made from.                          *)
(*                                                                         *)
(* Publication.tla is shown to implement this specification.               *)
(***************************************************************************)
CONSTANTS
    Requests,        \* owner-signed publication requests
    Allowed(_),      \* the writes a request allows
    Same(_, _)       \* two requests carry the same owner authorization

VARIABLES
    spent,           \* requests consumed in the replay store
    performed        \* per request: the writes done to the repository

vars == <<spent, performed>>

Init ==
    /\ spent = {}
    /\ performed = [q \in Requests |-> {}]

Spend(q) ==
    /\ \A s \in spent : ~Same(s, q)
    /\ spent' = spent \cup {q}
    /\ UNCHANGED performed

Perform(q, act) ==
    /\ q \in spent
    /\ act \in Allowed(q) \ performed[q]
    /\ act = "create_branch" => performed[q] = {}
    /\ act = "create_pull_request" /\ "create_branch" \in Allowed(q) =>
          "create_branch" \in performed[q]
    /\ performed' = [performed EXCEPT ![q] = @ \cup {act}]
    /\ UNCHANGED spent

Next == \E q \in Requests : Spend(q) \/ \E act \in Allowed(q) : Perform(q, act)

Spec == Init /\ [][Next]_vars
=============================================================================
