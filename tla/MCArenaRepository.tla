------------------------- MODULE MCArenaRepository -------------------------
(* TLC instances of ArenaRepository. *)
EXTENDS ArenaRepository, TLC

CONSTANTS m1, m2, m3, idle, rn, rf, e1, e2, s1, s2, h1, v1, fm, fsm

Symmetry == Permutations({m1, m2, m3}) \cup Permutations({e1, e2}) \cup Permutations({rn, rf})
              \cup Permutations({s1, s2})
=============================================================================
