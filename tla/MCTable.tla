------------------------------ MODULE MCTable ------------------------------
(* TLC instance of Table. *)
EXTENDS Table, TLC

CONSTANTS i1, i2, x1, x2, c1, c2

Symmetry == Permutations({i1, i2}) \cup Permutations({x1, x2}) \cup Permutations({c1, c2})
=============================================================================
