------------------------------- MODULE MCMvcc -------------------------------
(* Mvcc on small instances; readers and keys are interchangeable. *)
EXTENDS Mvcc, TLC

Symmetry == Permutations(Readers) \cup Permutations(Keys)

=============================================================================
