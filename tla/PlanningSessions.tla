--------------------------- MODULE PlanningSessions ---------------------------
(***************************************************************************)
(* Candidate planning under names of its own, so that it can be spoken of  *)
(* beside the worker and the Agent's executions: CandidatePlanning with    *)
(* its settings, its sessions and its unset field renamed.                 *)
(***************************************************************************)
CONSTANTS Prints, Heads, Calls, Unset, PlanningSettings

VARIABLES scope, core, head, planned, workflows, calls, begins, plans, faults,
          edits, overwritten, unattended

CP == INSTANCE CandidatePlanning
        WITH None <- Unset, Settings <- PlanningSettings, setting <- scope,
             sessions <- planned

ASSUME PlanningHolds == CP!SettingsAssumption

PlanningSpec == CP!Spec

\* What CandidatePlanning says of conversion: no second workflow is made for a
\* session, which names the one it has.
WorkflowIsNamed == CP!WorkflowIsNamed

\* What it says of the request: it is for the plan reviewed and approved.
ConversionSound == CP!ConversionSound

\* What it says of successors: sessions form a chain.
LineageIsChain == CP!LineageIsChain
=============================================================================
