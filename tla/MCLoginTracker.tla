-------------------------- MODULE MCLoginTracker --------------------------
(***************************************************************************)
(* Instances of LoginTracker for TLC; requests in flight are              *)
(* interchangeable.                                                        *)
(***************************************************************************)
EXTENDS LoginTracker, TLC

HandlerSymmetry == Permutations(Handlers)
===========================================================================
