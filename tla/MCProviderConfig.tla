-------------------------- MODULE MCProviderConfig --------------------------
(***************************************************************************)
(* An instance of ProviderConfig for TLC: one provider at first.           *)
(***************************************************************************)
EXTENDS ProviderConfig

CONSTANTS n1, c1

One == <<[name |-> n1, enable |-> TRUE, conf |-> c1, tune |-> 0, models |-> Manual]>>
OneProvider == {One}
=============================================================================
