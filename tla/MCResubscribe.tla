---------------------------- MODULE MCResubscribe ----------------------------
(* Small instances of Resubscribe.  Attempts are interchangeable. *)
EXTENDS Resubscribe, TLC

MCSteadyTerms == {[price |-> 3, period |-> 2]}
MCSymmetry == Permutations(Attempts)

=============================================================================
