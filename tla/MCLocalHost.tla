---------------------------- MODULE MCLocalHost ------------------------------
(***************************************************************************)
(* A small instance of LocalHost.  The requests that wait are              *)
(* interchangeable, and no property tells them apart.                      *)
(***************************************************************************)
EXTENDS LocalHost, TLC

Symmetry == Permutations(Requests)

=============================================================================
