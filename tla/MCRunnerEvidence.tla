-------------------------- MODULE MCRunnerEvidence --------------------------
(* Two keys: the first alone, for longer, or revoked beside the second.    *)
EXTENDS RunnerEvidence

CONSTANTS k1, k2, o1, o2

Entry(key, until, revoked) == [key |-> key, ours |-> TRUE, from |-> 0, until |-> until, revoked |-> revoked]

MCKeys == {k1, k2}
MCOutputs == {o1, o2}
MCPlan == [created |-> 1, expires |-> 4, resolvedAt |-> 0, resolvedUntil |-> 4]
MCPreviewTimes == {1}
MCFirstRegistry == {Entry(k1, 3, FALSE)}
MCRegistries == {{Entry(k1, 3, FALSE)},
                 {Entry(k1, 4, FALSE)},
                 {Entry(k1, 3, TRUE), Entry(k2, 4, FALSE)}}
=============================================================================
