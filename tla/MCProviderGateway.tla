------------------------- MODULE MCProviderGateway --------------------------
(***************************************************************************)
(* Identifiers for model checking ProviderGateway.                         *)
(***************************************************************************)
EXTENDS ProviderGateway

Ids == <<"op1", "op2", "op3">>
=============================================================================
