-------------------------- MODULE WorkflowCatalog --------------------------
(***************************************************************************)
(* The workflow definitions of application/services/workflow_catalog.py.   *)
(* Every step provisions a resource and declares its deprovisioning as     *)
(* the compensation; payloads and versions are left out.                   *)
(***************************************************************************)
LOCAL step(provider, depends_on) ==
  [provider |-> provider,
   operation_type |-> "resource_provision",
   depends_on |-> depends_on,
   compensate_operation |-> "resource_deprovision"]

customer_onboarding_v1 ==
  [create_customer |-> step("northstar", {}),
   create_subscription |-> step("meridian", {"create_customer"}),
   register_callback |-> step("cobalt", {"create_subscription"})]

\* Fan-out after the customer, then a join.
parallel_provisioning_v1 ==
  [create_customer |-> step("northstar", {}),
   provision_billing |-> step("meridian", {"create_customer"}),
   register_notify |-> step("cobalt", {"create_customer"}),
   finalize_join |-> step("northstar", {"provision_billing", "register_notify"})]

depends_on(definition) == [key \in DOMAIN definition |-> definition[key].depends_on]
=============================================================================
