---------------------------- MODULE MCRunnerJobs ----------------------------
(* Values of the constants of RunnerJobs for TLC.                          *)
EXTENDS RunnerJobs, TLC

CONSTANTS s1, s2, k1, k2, o1

(* Plan, review and key each end first for some job: a review of time 0 or *)
(* 1 ends at 2 or 3.                                                       *)
MCIntents == {[plan |-> "a", expiresAt |-> 3], [plan |-> "b", expiresAt |-> 2]}
MCEvidence == {[key |-> "x", validUntil |-> 1], [key |-> "y", validUntil |-> 3]}

Symmetry == Permutations({s1, s2}) \cup Permutations({k1, k2})
=============================================================================
