---------------------------- MODULE MCFieldMonitor ----------------------------
(* TLC instances of FieldMonitor. *)
EXTENDS FieldMonitor, TLC

Symmetry == Permutations(Match \ {Idle})
=============================================================================
