------------------------------ MODULE MCLoader ------------------------------
(* Instances of Loader for TLC. *)
EXTENDS Loader, TLC

ClientSymmetry == Permutations(Clients)
=============================================================================
