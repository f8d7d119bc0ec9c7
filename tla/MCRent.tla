------------------------------- MODULE MCRent -------------------------------
(* Distinct deposits, so that no two accounts can stand in for each other. *)
EXTENDS RentLedger

MCSteadyTerms == {[price |-> 3, period |-> 2]}

MCRent == [plan |-> 6, subscription |-> 5, vault |-> 3, graced |-> 2,
           paused |-> 1, session |-> 4]

\* The subscriber can just pay for all its accounts; the keeper for one grace
\* satellite, the merchant for the plan and one grace satellite.
MCLamports == [subscriber |-> 12, merchant |-> 8, keeper |-> 2]

=============================================================================
