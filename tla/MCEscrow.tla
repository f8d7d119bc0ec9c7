------------------------------- MODULE MCEscrow -------------------------------
(***************************************************************************)
(* Small instances of Escrow.  Three base units every two seconds makes    *)
(* every second step of the unlock formula round down; the other terms are *)
(* the ones create_plan (zero price, zero period) and subscribe (rate      *)
(* below one unit a second) turn away.                                     *)
(***************************************************************************)
EXTENDS Escrow

MCTerms == {[price |-> 3, period |-> 2], [price |-> 2, period |-> 3],
            [price |-> 0, period |-> 1], [price |-> 1, period |-> 0]}

=============================================================================
