------------------------- MODULE MCRiskConfirmation -------------------------
(* A small instance of RiskConfirmation: people are told apart only by     *)
(* whether the mail goes to them.                                           *)
EXTENDS RiskConfirmation, TLC

MCSymmetry == UNION {Permutations(Recipients), Permutations(Findings),
                     Permutations(Decisions), Permutations(Sends)}
=============================================================================
