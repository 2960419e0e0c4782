------------------------------ MODULE MCAtapi ------------------------------
(* Instances of Atapi for TLC. *)
EXTENDS Atapi
=============================================================================
