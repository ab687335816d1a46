------------------------------ MODULE MCPresence ------------------------------
(* TLC instance of Presence. *)
EXTENDS Presence

CONSTANTS rn, rf, s1, s2, h1
=============================================================================
