--------------------------- MODULE AtomicRestore ---------------------------
(* What a transactional restore promises: the volume holds one complete     *)
(* generation of the managed files, and a restore replaces it in one step.  *)
(* A restore whose commit record could not be made durable promises nothing.*)
CONSTANTS
    Inventory,   \* every assignment of contents to the managed paths
    Manifests,   \* those of the verified backups
    Undecided    \* no generation

VARIABLE generation

Init == generation \in Inventory

Restore(manifest) == generation # Undecided /\ generation' = manifest

CommitFails == generation' = Undecided

Next == (\E manifest \in Manifests : Restore(manifest)) \/ CommitFails

Spec == Init /\ [][Next]_generation
=============================================================================
