--------------------------- MODULE MCSourceStore ---------------------------
(* Values of the constants of SourceStore for TLC.                         *)
EXTENDS SourceStore, TLC

CONSTANTS p1, p2, j1, j2, j3, c1, c2, d1, d2, d3

Symmetry ==
    Permutations({p1, p2}) \cup Permutations({j1, j2, j3}) \cup Permutations({c1, c2})
        \cup Permutations({d1, d2, d3})
=============================================================================
