---------------------- MODULE MCRestoreTransaction ----------------------
(* Small instances of RestoreTransaction for TLC: a database in the volume's *)
(* root, a file in config and one in secrets.                                *)
EXTENDS RestoreTransaction

MCParent == <<Root, "config", "secrets">>

\* Backups of fresh contents; only the database may be absent from one.
MCManifests == {m \in [1..3 -> {"new", Absent}] : m[2] # Absent /\ m[3] # Absent}
===========================================================================
