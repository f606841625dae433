--------------------------- MODULE MCRunnerPhases ---------------------------
(* Two possible results of a migration, two lockfiles, two contents of     *)
(* node_modules and two changes by something else.                         *)
EXTENDS RunnerPhases, TLC

CONSTANTS m1, m2, l1, l2, n1, n2

MCMigrations == {m1, m2}
MCLocks == {l1, l2}
MCModules == {n1, n2}
=============================================================================
