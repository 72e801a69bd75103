------------------------ MODULE MCIdempotentCreation ------------------------
(***************************************************************************)
(* Bodies for model checking IdempotentCreation: one in two spellings,     *)
(* another one, and one that is not supported.                             *)
(***************************************************************************)
EXTENDS IdempotentCreation

MCBodies ==
  {[provider |-> "cobalt", operation |-> "resource_deprovision", spelling |-> 1],
   [provider |-> "cobalt", operation |-> "resource_deprovision", spelling |-> 2],
   [provider |-> "meridian", operation |-> "access_grant", spelling |-> 1],
   [provider |-> "meridian", operation |-> "resource_deprovision", spelling |-> 1]}
=============================================================================
