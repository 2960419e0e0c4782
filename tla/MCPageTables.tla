---------------------------- MODULE MCPageTables ----------------------------
(* Instances of PageTables for TLC. *)
EXTENDS PageTables
=============================================================================
