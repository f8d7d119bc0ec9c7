------------------------------- MODULE MCDrift -------------------------------
(* A small instance of EscrowDrift. *)
EXTENDS EscrowDrift

MCTerms == {[price |-> 3, period |-> 2]}

=============================================================================
