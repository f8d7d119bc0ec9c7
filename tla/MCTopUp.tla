------------------------------ MODULE MCTopUp ------------------------------
(* A small instance of TopUpEndpoint.  Requests are interchangeable. *)
EXTENDS TopUpEndpoint, TLC

MCFastTerms == {[price |-> 2, period |-> 1]}

\* A facilitator that signs, one without a signing key and with another bearer
\* key, and two settings that are refused at start-up.
Setting(key, loopback, keypair) ==
  [apiKey |-> key, loopback |-> loopback, allowPublicBind |-> FALSE,
   keypair |-> keypair, maxTopUpAmount |-> 1]
MCEnvironments ==
  {Setting("old", TRUE, TRUE), Setting("new", TRUE, FALSE),
   Setting("none", TRUE, TRUE), Setting("old", FALSE, TRUE)}

MCSymmetry == Permutations(Requests)

=============================================================================
