---------------------------- MODULE MCHelperService ----------------------------
(***************************************************************************)
(* Instance of HelperService: users are interchangeable.                     *)
(***************************************************************************)
EXTENDS HelperService, TLC

UserSymmetry == Permutations(Users)
=============================================================================
