------------------------------ MODULE MCOverlap ------------------------------
(* A small instance of ResubscribeRace.  Attempts are interchangeable. *)
EXTENDS ResubscribeRace, TLC

MCSteadyTerms == {[price |-> 3, period |-> 2]}
MCSymmetry == Permutations(Attempts)

=============================================================================
