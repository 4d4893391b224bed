----------------------------- MODULE MCCBuffer -----------------------------
(* CBuffer for TLC.  Byte values are only ever compared with each other,   *)
(* so they are interchangeable.                                            *)
EXTENDS CBuffer, TLC

ByteSymmetry == Permutations(Byte)
=============================================================================
