---------------------------- MODULE MCMatchStore ----------------------------
(***************************************************************************)
(* Instance of MatchStore for TLC.                                         *)
(***************************************************************************)
EXTENDS MatchStore, TLC

IdSymmetry == Permutations(Ids)
=============================================================================
