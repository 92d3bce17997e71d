-------------------------- MODULE MCWorkflowStages --------------------------
(* An instance of WorkflowStages: two resumes of one workflow with every   *)
(* failure, and of two workflows in one repository.                        *)
EXTENDS WorkflowStages, TLC

\* A manual workflow or a candidate alone: everything may happen to it.
AloneSettings ==
    {[inUse |-> {w}, filed |-> {"verification", "commit"},
      faults |-> 1, crashes |-> 1, outside |-> 2] :
        w \in Workflows}

\* Two manual workflows planned on one HEAD of one repository.
SharedSetting ==
    [inUse |-> Manual, filed |-> {}, faults |-> 0, crashes |-> 0, outside |-> 1]

MCSettings == AloneSettings \cup {SharedSetting}

\* Calls are interchangeable, and so are manual workflows.
StagesSymmetry == Permutations(Calls) \cup Permutations(Manual)
=============================================================================
