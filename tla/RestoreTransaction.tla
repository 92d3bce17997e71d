------------------------- MODULE RestoreTransaction -------------------------
(***************************************************************************)
(* The transactional v3 restore of a Core data volume: one command recovers *)
(* an interrupted transaction (recover_v3_restore), then runs its own       *)
(* (execute_v3_restore).  The process may be killed between any two calls   *)
(* that change the volume and any of these calls may raise; the volume      *)
(* keeps what the calls before have done (each is fsynced before the next). *)
(***************************************************************************)
EXTENDS Naturals

CONSTANTS
    N,           \* the managed paths are 1..N, in journal order
    Contents,    \* bytes and metadata of a managed file
    Absent,      \* no file at this path
    Undecided,   \* no generation
    Dirs,        \* the managed parent directories
    Root,        \* the parent of a path that lies in the volume's root
    Parent,      \* managed path -> its parent
    Manifests,   \* the inventories of the verified backups
    MaxCrashes,  \* bound: the process is killed
    MaxFaults    \* bound: calls that raise

Paths == 1..N
Inventory == [Paths -> Contents \cup {Absent}]

ASSUME VolumeAssumption ==
    /\ N \in Nat \ {0}
    /\ Absent \notin Contents
    /\ Undecided \notin Inventory
    /\ Root \notin Dirs
    /\ Parent \in [Paths -> Dirs \cup {Root}]
    /\ Manifests \subseteq Inventory
    \* every backup has a file for each managed directory
    /\ \A m \in Manifests, d \in Dirs : \E p \in Paths : Parent[p] = d /\ m[p] # Absent

ASSUME FailureAssumption == MaxCrashes \in Nat /\ MaxFaults \in Nat

VARIABLES
    target,     \* volume: managed path -> content
    dirs,       \* volume: managed directory -> "absent", "private" or "other"
    namespace,  \* volume: .atlas-restore exists
    txn,        \* volume: .atlas-restore/<transaction_id> exists
    stage,      \* volume: staged artifacts
    rollback,   \* volume: quarantined artifacts
    tmp,        \* volume: .journal.json.tmp exists
    journal,    \* volume: journal.json
    pc,         \* where the restore command is
    i,          \* the operation its loop is at
    recovering, \* it still recovers an earlier transaction
    wanted,     \* the manifest of the backup it restores
    mem,        \* the journal it holds in memory
    outcome,    \* what the last transaction was reported as
    last,       \* history: the last transaction that was prepared
    crashes, faults,
    torn        \* history: a call failed behind the rename of the committed journal

tree == <<namespace, txn, stage, rollback>>
volume == <<target, dirs, tree, tmp, journal>>
process == <<pc, i, recovering, wanted, mem>>
failures == <<crashes, faults, torn>>
vars == <<volume, process, outcome, last, failures>>

----------------------------------------------------------------------------
(* Values.                                                                 *)

Phases == {"prepared", "old_generation_quarantined", "new_generation_installed",
           "target_verified", "committed"}

\* _PHASE_ORDER; a journal of phase "none" was not written yet.
NextPhase(phase) ==
    CASE phase = "none"                       -> "prepared"
      [] phase = "prepared"                   -> "old_generation_quarantined"
      [] phase = "old_generation_quarantined" -> "new_generation_installed"
      [] phase = "new_generation_installed"   -> "target_verified"
      [] phase = "target_verified"            -> "committed"

\* What execute_v3_restore does once the journal of a phase is durable.
AfterPhase(phase) ==
    CASE phase = "prepared"                   -> "quarantining"
      [] phase = "old_generation_quarantined" -> "installing"
      [] phase = "new_generation_installed"   -> "verifying"
      [] phase = "target_verified"            -> "opening"
      [] phase = "committed"                  -> "cleaning"

\* A journal binds the manifest to the state that a rollback restores.
Journal(phase, manifest, original, directories) ==
    [phase |-> phase, manifest |-> manifest, original |-> original,
     dirs |-> directories]

Nothing == [p \in Paths |-> Absent]
NoJournal == Journal("none", Nothing, Nothing, [d \in Dirs |-> "absent"])

JournalExists == journal.phase # "none"

\* Nothing is in the namespace.
NamespaceEmpty == ~txn /\ ~tmp /\ ~JournalExists

\* assert_restore_state_clean: Core starts only on a clean volume.
Clean == ~namespace \/ NamespaceEmpty

\* verify_v3_target: exactly the manifest's files, in private directories.
Verified(manifest) ==
    /\ target = manifest
    /\ \A d \in Dirs : dirs[d] = "private"

\* _ensure_target_parents.
WithPrivateParent(p) == [d \in Dirs |-> IF d = Parent[p] THEN "private" ELSE dirs[d]]

\* A directory that holds a managed file exists.
DirsPossible(files, directories) ==
    \A p \in Paths : files[p] # Absent /\ Parent[p] # Root
                        => directories[Parent[p]] # "absent"

Init ==
    /\ target \in Inventory
    /\ dirs \in [Dirs -> {"absent", "private", "other"}]
    /\ DirsPossible(target, dirs)
    /\ namespace = FALSE
    /\ txn = FALSE
    /\ stage = Nothing
    /\ rollback = Nothing
    /\ tmp = FALSE
    /\ journal = NoJournal
    /\ pc = "idle"
    /\ i = 0
    /\ recovering = FALSE
    /\ wanted = Nothing
    /\ mem = NoJournal
    /\ outcome = "none"
    /\ last = Journal("none", target, target, dirs)
    /\ crashes = 0
    /\ faults = 0
    /\ torn = FALSE

----------------------------------------------------------------------------
(* The loops over the journal's operations.                                *)

\* The next operation, or what follows the loop.
Forward(then) ==
    /\ i' = IF i = N THEN 0 ELSE i + 1
    /\ pc' = IF i = N THEN then ELSE pc

Backward(then) ==
    /\ i' = i - 1
    /\ pc' = IF i = 1 THEN then ELSE pc

Goto(label) == pc' = label /\ UNCHANGED <<i, recovering, wanted, mem>>

\* The command ends.
End == pc' = "idle" /\ i' = 0 /\ recovering' = FALSE
       /\ wanted' = Nothing /\ mem' = NoJournal

----------------------------------------------------------------------------
(* recover_v3_restore.                                                     *)

\* restore_backup, with a backup that verify_backup accepted.
Start(manifest) ==
    /\ pc = "idle"
    /\ pc' = "recovering"
    /\ recovering' = TRUE
    /\ wanted' = manifest
    /\ outcome' = "none"
    /\ UNCHANGED <<volume, i, mem, last, failures>>

\* "no_transaction".
NothingToRecover ==
    /\ pc = "recovering"
    /\ NamespaceEmpty
    /\ Goto("preparing")
    /\ UNCHANGED <<volume, outcome, last, failures>>

\* Evidence without a journal, or a journal without its transaction directory.
RecoveryRefused ==
    /\ pc = "recovering"
    /\ IF JournalExists
       THEN ~txn /\ journal.phase # "committed"
       ELSE ~NamespaceEmpty
    /\ End
    /\ outcome' = "recovery_required"
    /\ UNCHANGED <<volume, last, failures>>

\* A committed transaction is finalized, never rolled back.
RecoverCommitted ==
    /\ pc = "recovering"
    /\ journal.phase = "committed"
    /\ mem' = journal
    /\ pc' = "cleaning"
    /\ UNCHANGED <<volume, i, recovering, wanted, outcome, last, failures>>

\* Mutant: the evidence of an interrupted transaction is only removed.
RecoverByRemoving ==
    /\ pc = "recovering"
    /\ JournalExists
    /\ txn
    /\ journal.phase # "committed"
    /\ mem' = journal
    /\ pc' = "removing"
    /\ UNCHANGED <<volume, i, recovering, wanted, outcome, last, failures>>

RecoverUncommitted ==
    /\ pc = "recovering"
    /\ JournalExists
    /\ txn
    /\ journal.phase # "committed"
    /\ mem' = journal
    /\ i' = N
    /\ pc' = "rolling_back"
    /\ UNCHANGED <<volume, recovering, wanted, outcome, last, failures>>

Recover == NothingToRecover \/ RecoveryRefused \/ RecoverCommitted
           \/ RecoverUncommitted

----------------------------------------------------------------------------
(* execute_v3_restore: preparation.                                        *)

\* The namespace holds unjournaled evidence.
NamespaceOccupied ==
    /\ pc = "preparing"
    /\ ~NamespaceEmpty
    /\ End
    /\ outcome' = "recovery_required"
    /\ UNCHANGED <<volume, last, failures>>

CreateNamespace ==
    /\ pc = "preparing"
    /\ NamespaceEmpty
    /\ namespace' = TRUE
    /\ pc' = "creating"
    /\ recovering' = FALSE
    /\ mem' = NoJournal
    /\ outcome' = "none"
    /\ UNCHANGED <<target, dirs, txn, stage, rollback, tmp, journal, i, wanted,
                   last, failures>>

CreateTransaction ==
    /\ pc = "creating"
    /\ txn' = TRUE
    /\ i' = 1
    /\ pc' = "staging"
    /\ UNCHANGED <<target, dirs, namespace, stage, rollback, tmp, journal,
                   recovering, wanted, mem, outcome, last, failures>>

StageArtifact ==
    /\ pc = "staging"
    /\ stage' = [stage EXCEPT ![i] = wanted[i]]
    /\ Forward("capturing")
    /\ UNCHANGED <<target, dirs, namespace, txn, rollback, tmp, journal,
                   recovering, wanted, mem, outcome, last, failures>>

\* The state that a rollback restores is captured into the journal.
CaptureOriginal ==
    /\ pc = "capturing"
    /\ mem' = Journal("none", wanted, target, dirs)
    /\ last' = mem'
    /\ pc' = "opening"
    /\ UNCHANGED <<volume, i, recovering, wanted, outcome, failures>>

----------------------------------------------------------------------------
(* _transition and _write_journal.                                         *)

OpenTemporary ==
    /\ pc = "opening"
    /\ ~tmp
    /\ tmp' = TRUE
    /\ Goto("writing")
    /\ UNCHANGED <<target, dirs, tree, journal, outcome, last, failures>>

ReplaceJournal ==
    /\ pc = "writing"
    /\ journal' = [mem EXCEPT !.phase = NextPhase(mem.phase)]
    /\ tmp' = FALSE
    /\ Goto("syncing")
    /\ UNCHANGED <<target, dirs, tree, outcome, last, failures>>

\* Only now does the process know the new phase.
SyncJournal ==
    /\ pc = "syncing"
    /\ mem' = journal
    /\ i' = 1
    /\ pc' = AfterPhase(journal.phase)
    /\ UNCHANGED <<volume, recovering, wanted, outcome, last, failures>>

----------------------------------------------------------------------------
(* execute_v3_restore: the transaction.                                    *)

\* Move an original file out of the way.
QuarantineArtifact ==
    /\ pc = "quarantining"
    /\ target[i] = mem.original[i]
    /\ rollback' = [rollback EXCEPT ![i] = target[i]]
    /\ target' = [target EXCEPT ![i] = Absent]
    /\ Forward("opening")
    /\ UNCHANGED <<dirs, namespace, txn, stage, tmp, journal, recovering, wanted,
                   mem, outcome, last, failures>>

\* _ensure_target_parents, before the file goes in.
InstallParent ==
    /\ pc = "installing"
    /\ mem.manifest[i] # Absent
    /\ dirs # WithPrivateParent(i)
    /\ dirs' = WithPrivateParent(i)
    /\ UNCHANGED <<target, tree, tmp, journal, process, outcome, last, failures>>

InstallArtifact ==
    /\ pc = "installing"
    /\ mem.manifest[i] # Absent
    /\ target[i] = Absent
    /\ dirs = WithPrivateParent(i)
    /\ target' = [target EXCEPT ![i] = stage[i]]
    /\ stage' = [stage EXCEPT ![i] = Absent]
    /\ Forward("opening")
    /\ UNCHANGED <<dirs, namespace, txn, rollback, tmp, journal, recovering,
                   wanted, mem, outcome, last, failures>>

SkipArtifact ==
    /\ pc = "installing"
    /\ mem.manifest[i] = Absent
    /\ Forward("opening")
    /\ UNCHANGED <<volume, recovering, wanted, mem, outcome, last, failures>>

\* A verification that fails is one of TransactionFails.
VerifyTarget ==
    /\ pc = "verifying"
    /\ Verified(mem.manifest)
    /\ Goto("opening")
    /\ UNCHANGED <<volume, outcome, last, failures>>

\* _cleanup_committed.
CleanupCommitted ==
    /\ pc = "cleaning"
    /\ Verified(mem.manifest)
    /\ Goto("removing")
    /\ UNCHANGED <<volume, outcome, last, failures>>

CleanupRefused ==
    /\ pc = "cleaning"
    /\ ~Verified(mem.manifest)
    /\ End
    /\ outcome' = "recovery_required"
    /\ UNCHANGED <<volume, last, failures>>

Execute ==
    \/ NamespaceOccupied \/ CreateNamespace \/ CreateTransaction
    \/ StageArtifact \/ CaptureOriginal
    \/ OpenTemporary \/ ReplaceJournal \/ SyncJournal
    \/ QuarantineArtifact \/ InstallParent \/ InstallArtifact \/ SkipArtifact
    \/ VerifyTarget \/ CleanupCommitted \/ CleanupRefused

----------------------------------------------------------------------------
(* _rollback, from the last operation to the first.                        *)

\* The new file gives way to the quarantined one.
RollbackUnlink ==
    /\ pc = "rolling_back"
    /\ mem.original[i] # Absent
    /\ rollback[i] # Absent
    /\ target[i] # Absent
    /\ target' = [target EXCEPT ![i] = Absent]
    /\ UNCHANGED <<dirs, tree, tmp, journal, process, outcome, last, failures>>

RollbackParent ==
    /\ pc = "rolling_back"
    /\ mem.original[i] # Absent
    /\ rollback[i] # Absent
    /\ target[i] = Absent
    /\ dirs # WithPrivateParent(i)
    /\ dirs' = WithPrivateParent(i)
    /\ UNCHANGED <<target, tree, tmp, journal, process, outcome, last, failures>>

RollbackReplace ==
    /\ pc = "rolling_back"
    /\ mem.original[i] # Absent
    /\ rollback[i] # Absent
    /\ target[i] = Absent
    /\ dirs = WithPrivateParent(i)
    /\ target' = [target EXCEPT ![i] = rollback[i]]
    /\ rollback' = [rollback EXCEPT ![i] = Absent]
    /\ Backward("directories")
    /\ UNCHANGED <<dirs, namespace, txn, stage, tmp, journal, recovering, wanted,
                   mem, outcome, last, failures>>

\* Mutant: a file that is not quarantined cannot be rolled back.
RollbackNeedsQuarantine ==
    /\ pc = "rolling_back"
    /\ mem.original[i] # Absent
    /\ rollback[i] = Absent
    /\ End
    /\ outcome' = "recovery_required"
    /\ UNCHANGED <<volume, last, failures>>

\* The original was not quarantined, or is back already: it must be exact.
RollbackKeep ==
    /\ pc = "rolling_back"
    /\ mem.original[i] # Absent
    /\ rollback[i] = Absent
    /\ target[i] = mem.original[i]
    /\ Backward("directories")
    /\ UNCHANGED <<volume, recovering, wanted, mem, outcome, last, failures>>

\* There was no file: a new one is removed.
RollbackRemove ==
    /\ pc = "rolling_back"
    /\ mem.original[i] = Absent
    /\ target' = [target EXCEPT ![i] = Absent]
    /\ Backward("directories")
    /\ UNCHANGED <<dirs, tree, tmp, journal, recovering, wanted, mem, outcome,
                   last, failures>>

\* _restore_directory_absence; a directory it removes is empty.
RestoreDirectory(d) ==
    /\ pc = "directories"
    /\ dirs[d] # mem.dirs[d]
    /\ mem.dirs[d] = "absent" => \A p \in Paths : Parent[p] = d => target[p] = Absent
    /\ dirs' = [dirs EXCEPT ![d] = mem.dirs[d]]
    /\ UNCHANGED <<target, tree, tmp, journal, process, outcome, last, failures>>

\* Mutant: only the directories that the restore created are taken back.
CheckWithoutModes ==
    /\ pc = "directories"
    /\ \A d \in Dirs : mem.dirs[d] = "absent" => dirs[d] = "absent"
    /\ target = mem.original
    /\ Goto("removing")
    /\ UNCHANGED <<volume, outcome, last, failures>>

\* The directories are as they were and so is, at last, every file.
CheckRestored ==
    /\ pc = "directories"
    /\ dirs = mem.dirs
    /\ target = mem.original
    /\ Goto("removing")
    /\ UNCHANGED <<volume, outcome, last, failures>>

Rollback ==
    \/ RollbackUnlink \/ RollbackParent \/ RollbackReplace
    \/ RollbackKeep \/ RollbackRemove
    \/ \E d \in Dirs : RestoreDirectory(d)
    \/ CheckRestored

----------------------------------------------------------------------------
(* _remove_transaction_evidence.                                           *)

\* _remove_tree meets the files in any order.
RemoveArtifact(p) ==
    /\ pc = "removing"
    /\ \/ /\ stage[p] # Absent
          /\ stage' = [stage EXCEPT ![p] = Absent]
          /\ UNCHANGED rollback
       \/ /\ rollback[p] # Absent
          /\ rollback' = [rollback EXCEPT ![p] = Absent]
          /\ UNCHANGED stage
    /\ UNCHANGED <<target, dirs, namespace, txn, tmp, journal, process, outcome,
                   last, failures>>

RemoveTransaction ==
    /\ pc = "removing"
    /\ stage = Nothing
    /\ rollback = Nothing
    /\ txn' = FALSE
    /\ Goto("unlinking")
    /\ UNCHANGED <<target, dirs, namespace, stage, rollback, tmp, journal,
                   outcome, last, failures>>

UnlinkJournal ==
    /\ pc = "unlinking"
    /\ journal' = NoJournal
    /\ Goto("leaving")
    /\ UNCHANGED <<target, dirs, tree, tmp, outcome, last, failures>>

\* The namespace is removed if it is empty.  A recovery is followed by the
\* command's own restore; a restore ends the command.
LeaveNamespace ==
    /\ pc = "leaving"
    /\ namespace' = ~NamespaceEmpty
    /\ outcome' = IF mem.phase = "committed" THEN "committed" ELSE "rolled_back"
    /\ IF recovering THEN Goto("preparing") ELSE End
    /\ UNCHANGED <<target, dirs, txn, stage, rollback, tmp, journal, last, failures>>

RemoveEvidence ==
    \/ \E p \in Paths : RemoveArtifact(p)
    \/ RemoveTransaction \/ UnlinkJournal \/ LeaveNamespace

----------------------------------------------------------------------------
(* Failures.                                                               *)

Unjournaled ==
    \/ pc \in {"creating", "staging", "capturing"}
    \/ pc \in {"opening", "writing"} /\ mem.phase = "none"

InTransaction ==
    \/ pc \in {"quarantining", "installing", "verifying"}
    \/ pc \in {"opening", "writing", "syncing"} /\ mem.phase # "none"

Raise ==
    /\ faults < MaxFaults
    /\ faults' = faults + 1
    /\ torn' = (torn \/ (InTransaction /\ journal.phase = "committed"))
    /\ UNCHANGED <<crashes, last>>

\* _cleanup_unjournaled_transaction.
PreparationFails ==
    /\ Unjournaled
    /\ Raise
    /\ txn' = FALSE
    /\ stage' = Nothing
    /\ tmp' = FALSE
    /\ namespace' = FALSE
    /\ End
    /\ outcome' = "none"
    /\ UNCHANGED <<target, dirs, rollback, journal>>

\* Mutant: a handled failure removes the evidence first.
TransactionFailsRemoving ==
    /\ InTransaction
    /\ Raise
    /\ tmp' = FALSE
    /\ Goto("removing")
    /\ UNCHANGED <<target, dirs, tree, journal, outcome>>

\* A handled failure rolls back what the journal in memory says; _write_journal
\* removes its temporary file.
TransactionFails ==
    /\ InTransaction
    /\ Raise
    /\ tmp' = FALSE
    /\ i' = N
    /\ pc' = "rolling_back"
    /\ UNCHANGED <<target, dirs, tree, journal, recovering, wanted, mem, outcome>>

\* Everywhere else the exception ends the command and the evidence is retained.
EvidenceRetained ==
    /\ pc # "idle"
    /\ ~Unjournaled
    /\ ~InTransaction
    /\ Raise
    /\ End
    /\ outcome' = "recovery_required"
    /\ UNCHANGED volume

\* The process or its container is killed.
Crash ==
    /\ pc # "idle"
    /\ crashes < MaxCrashes
    /\ crashes' = crashes + 1
    /\ End
    /\ outcome' = "none"
    /\ UNCHANGED <<volume, last, faults, torn>>

----------------------------------------------------------------------------
Step == Recover \/ Execute \/ Rollback \/ RemoveEvidence

Next ==
    \/ \E manifest \in Manifests : Start(manifest)
    \/ Step
    \/ PreparationFails \/ TransactionFails \/ EvidenceRetained
    \/ Crash

Spec == Init /\ [][Next]_vars

\* A command that runs goes on, and the operator runs it again, as the startup
\* interlock's message tells them to.
Fairness == WF_vars(Step) /\ WF_vars(\E manifest \in Manifests : Start(manifest))

FairSpec == Spec /\ Fairness

----------------------------------------------------------------------------
(* Properties.                                                             *)

Labels == {"idle", "recovering", "preparing", "creating", "staging",
           "capturing", "opening", "writing", "syncing", "quarantining",
           "installing", "verifying", "cleaning", "rolling_back",
           "directories", "removing", "unlinking", "leaving"}
DirStates == [Dirs -> {"absent", "private", "other"}]
JournalType == [phase : Phases \cup {"none"}, manifest : Inventory,
                original : Inventory, dirs : DirStates]

\* Every variable keeps its type, and the loops stay within the operations.
TypeOK ==
    /\ target \in Inventory
    /\ dirs \in DirStates
    /\ namespace \in BOOLEAN
    /\ txn \in BOOLEAN
    /\ stage \in Inventory
    /\ rollback \in Inventory
    /\ tmp \in BOOLEAN
    /\ journal \in JournalType
    /\ pc \in Labels
    /\ i \in 0..N
    /\ recovering \in BOOLEAN
    /\ wanted \in Inventory
    /\ mem \in JournalType
    /\ outcome \in {"none", "rolled_back", "committed", "recovery_required"}
    /\ last \in JournalType
    /\ crashes \in 0..MaxCrashes
    /\ faults \in 0..MaxFaults
    /\ torn \in BOOLEAN

\* Whenever Core's startup interlock would let Core start, the managed files are
\* one complete generation: the backup's, or exactly what was there before.
CleanMeansCoherent ==
    Clean => target \in {last.original, last.manifest}

\* As long as the durable journal does not say committed, every original file is
\* in place or in quarantine: the old generation can be put back.
NothingLost ==
    JournalExists /\ journal.phase # "committed" =>
        \A p \in Paths : journal.original[p] \in {Absent, target[p], rollback[p]}

\* Whenever Core may start, the volume is coherent, and at no moment, kills and
\* failing calls included, is an old file on neither side.
VolumeSound ==
    /\ TypeOK
    /\ CleanMeansCoherent
    /\ NothingLost

\* A transaction reported as rolled back has left every managed file and every
\* managed directory as it found them.
RollbackExact ==
    outcome = "rolled_back" => target = last.original /\ dirs = last.dirs

\* A journal that says committed describes the volume: the new generation is
\* complete and stays, whatever is still to be removed.  The exception is a
\* transaction whose directory fsync failed behind the rename of its committed
\* journal: _rollback then follows the phase held in memory.
CommitIsDurable ==
    journal.phase = "committed" /\ ~torn => target = journal.manifest

\* What the two outcomes promise of the volume.
OutcomeExact ==
    /\ RollbackExact
    /\ CommitIsDurable

\* The generation that the volume stands for: what recovery would leave.
Generation ==
    IF torn THEN Undecided
    ELSE IF ~JournalExists THEN target
    ELSE IF journal.phase = "committed" THEN journal.manifest
    ELSE journal.original

Atomic == INSTANCE AtomicRestore WITH generation <- Generation

\* Whatever kills and failing calls come in between, a restore is one atomic
\* step, taken when the committed journal replaces the earlier one: the volume
\* stands for the old generation before it and for a backup's generation after
\* it.  Only a failure behind that very rename leaves it undecided.
RestoreIsAtomic == Atomic!Spec

\* Once nothing is killed or fails any more, running the restore again resolves
\* an interrupted transaction whose evidence is intact.
InterruptedResolves ==
    /\ pc = "idle"
    /\ JournalExists
    /\ txn
    /\ ~tmp
    /\ ~torn
    /\ crashes = MaxCrashes
    /\ faults = MaxFaults
    ~> Clean
=============================================================================
