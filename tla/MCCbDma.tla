------------------------------ MODULE MCCbDma ------------------------------
(* CbDma on a memory of four bytes, which a run can lap.                   *)
EXTENDS CbDma
=============================================================================
