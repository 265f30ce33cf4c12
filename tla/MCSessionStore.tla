-------------------------- MODULE MCSessionStore --------------------------
(***************************************************************************)
(* Instances of SessionStore for TLC.  Ids are model values: the store     *)
(* never compares two of them, so any permutation is a symmetry.           *)
(***************************************************************************)
EXTENDS SessionStore, TLC

IdSymmetry == Permutations(Ids)
===========================================================================
