---------------------------- MODULE MCProcessPool ----------------------------
(***************************************************************************)
(* Values for TLC.  Calls are interchangeable.                             *)
(***************************************************************************)
EXTENDS ProcessPool, TLC

Symmetry == Permutations(Call)
=============================================================================
