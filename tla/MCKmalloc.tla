----------------------------- MODULE MCKmalloc ------------------------------
(* Instances of Kmalloc for TLC. *)
EXTENDS Kmalloc, TLC

OwnerSymmetry == Permutations(Owners)
=============================================================================
