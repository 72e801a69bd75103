---------------------- MODULE MCWorkflowOrchestrator ----------------------
(***************************************************************************)
(* WorkflowOrchestrator for TLC, on the definitions of the catalog and,    *)
(* where those are too large, on a chain of two steps.                     *)
(***************************************************************************)
EXTENDS WorkflowOrchestrator, WorkflowCatalog, TLC

OnboardingSteps == DOMAIN customer_onboarding_v1
OnboardingDependsOn == depends_on(customer_onboarding_v1)

ParallelSteps == DOMAIN parallel_provisioning_v1
ParallelDependsOn == depends_on(parallel_provisioning_v1)

Chain == [s \in {"first", "second"} |-> IF s = "first" THEN {} ELSE {"first"}]

Interchangeable == Permutations(Tasks)
=============================================================================
