------------------------- MODULE MCTransferFinding -------------------------
(* A small instance of TransferFinding: all originals have the same title,  *)
(* and share one copy.                                                      *)
EXTENDS TransferFinding

CONSTANT c1

OneCopy == [f \in Findings |-> c1]
=============================================================================
