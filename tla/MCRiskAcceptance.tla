-------------------------- MODULE MCRiskAcceptance --------------------------
(* Small instances of RiskAcceptance.  The configurations name the users    *)
(* after the role they have.                                                *)
EXTENDS RiskAcceptance, TLC

\* Contacts of the product are told apart by nothing but their names.
ContactSymmetry == Permutations(Contacts)
=============================================================================
