---------------------------- MODULE MCChangeRate ----------------------------
(* A small instance of ChangeRate: both plans may have the same terms, and *)
(* sessions are interchangeable.                                           *)
EXTENDS ChangeRate, TLC

MCSteadyTerms == {[price |-> 2, period |-> 2]}
MCSymmetry == Permutations(SessionIds)

=============================================================================
