------------------------------ MODULE MCPackages ------------------------------
(* Packages with the core and one other package. *)
EXTENDS Packages
=============================================================================
