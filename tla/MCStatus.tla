------------------------------ MODULE MCStatus ------------------------------
(***************************************************************************)
(* Small instances of StatusReader.  A day of two seconds and a threshold  *)
(* of one day put the runway gate inside the reachable deposits.  The      *)
(* utilization gate needs a ratio between 80% and 81%: 17 of 21 is the     *)
(* smallest.                                                               *)
(***************************************************************************)
EXTENDS StatusReader

MCSteadyTerms == {[price |-> 3, period |-> 2]}
MCFineTerms == {[price |-> 21, period |-> 7]}

=============================================================================
