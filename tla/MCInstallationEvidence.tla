------------------------ MODULE MCInstallationEvidence ------------------------
(* Instances of the two halves of the installation chain, one half to a    *)
(* behaviour: two calls and two keys on two successive append-only stores, *)
(* or on any one of the one-shot boundaries.                               *)
EXTENDS InstallationEvidence, TLC

CONSTANTS r1, r2

Grants ==
    [root |-> "review", chain |-> {"grant", "admission"}, refs |-> {r1},
     quota |-> 2, end |-> 3]

Bindings ==
    [root |-> "admission", chain |-> {"plan", "stub"}, refs |-> {r1, r2},
     quota |-> 1, end |-> 3]

Queues ==
    [root |-> "stub", chain |-> {"queue", "intake"}, refs |-> {r1},
     quota |-> 1, end |-> 3]

Lives ==
    [root |-> "queue", chain |-> {"intake", "live"}, refs |-> {r1},
     quota |-> 1, end |-> 3]

MCParts == {Grants, Bindings, Queues, Lives}

MCRefFrom == r1 :> 0 @@ r2 :> 1
MCRefUntil == r1 :> 3 @@ r2 :> 4

MCStudied == DOMAIN Protocol

\* The dequeue's operator may make one reservation, the others two.
MCQuota == [s \in MCStudied |-> IF s = "dequeue" THEN 1 ELSE 2]

\* Calls are interchangeable.
CallSymmetry == Permutations(Calls)
=============================================================================
