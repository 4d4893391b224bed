---------------------------- MODULE MCFlagParser ----------------------------
(* FlagParser for TLC; the names of flags are alike. *)
EXTENDS FlagParser, TLC

NameSymmetry == Permutations(Names)
=============================================================================
