------------------------------ MODULE MCClaims ------------------------------
(* The instance on which the statements of EscrowClaims are tried. *)
EXTENDS EscrowClaims

MCSteadyTerms == {[price |-> 3, period |-> 2]}

=============================================================================
