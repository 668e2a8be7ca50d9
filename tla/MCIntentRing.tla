---------------------------- MODULE MCIntentRing ----------------------------
(* Small instances of IntentRing. *)
EXTENDS IntentRing, TLC

CONSTANTS p1, p2, p3

Symmetry == Permutations(Procs)

=============================================================================
