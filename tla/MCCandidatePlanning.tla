------------------------ MODULE MCCandidatePlanning ------------------------
(* Small instances of PlanningSessions.                                    *)
EXTENDS PlanningSessions, Naturals, TLC

Setting(effect, sessionBound, beginBound, planBound, faultBound, editBound) ==
    [effect |-> effect, sessions |-> sessionBound, begins |-> beginBound,
     plans |-> planBound, faults |-> faultBound, edits |-> editBound]

\* One session through to its request, with what overlaps, fails and changes on
\* the way; a session and its successor; a lineage of three.
MCSettings ==
    {Setting("repository_change", 1, 9, 0, 1, 2),
     Setting("operational_action", 1, 9, 3, 1, 1),
     Setting("repository_change", 2, 8, 0, 0, 1),
     Setting("operational_action", 2, 8, 2, 1, 1),
     Setting("repository_change", 3, 5, 0, 1, 2)}

PlanningSymmetry ==
    Permutations(Calls) \cup Permutations(Prints) \cup Permutations(Heads)
=============================================================================
