--------------------------- MODULE MCInviteLogin ---------------------------
(***************************************************************************)
(* Instances of InviteLogin for TLC; devices, clients and requests in      *)
(* flight are interchangeable.                                             *)
(***************************************************************************)
EXTENDS InviteLogin, TLC

InviteSymmetry == Permutations(Ids) \cup Permutations(Clients) \cup Permutations(Handlers)
=============================================================================
