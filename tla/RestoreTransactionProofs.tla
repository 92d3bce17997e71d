---------------------- MODULE RestoreTransactionProofs ----------------------
(***************************************************************************)
(* Proofs about RestoreTransaction, for every number of managed files and  *)
(* directories, every set of backups and every number of kills and failing *)
(* calls: whenever Core may start the volume is one complete generation,   *)
(* no original file is ever lost, the reported outcomes are exact, and a   *)
(* restore is one atomic step.                                             *)
(***************************************************************************)
EXTENDS RestoreTransaction, TLAPS

----------------------------------------------------------------------------
(* The invariant.                                                          *)

Loops == {"staging", "quarantining", "installing", "rolling_back"}

\* A loop is at one of its operations.
TypeInv == TypeOK /\ (pc \in Loops => i \in 1..N)

\* The journal is about the last transaction that was prepared.
About(j) ==
    /\ j.manifest = last.manifest
    /\ j.original = last.original
    /\ j.dirs = last.dirs

\* What a kill leaves behind.  A durable journal is about the last transaction and
\* what is in quarantine is an original file; without one the volume is a complete
\* generation and nothing is in quarantine; evidence is in the namespace.
JournalSound ==
    /\ JournalExists =>
          /\ About(journal)
          /\ last.manifest \in Manifests
          /\ \A p \in Paths : rollback[p] \in {Absent, last.original[p]}
    /\ ~JournalExists => rollback = Nothing /\ target \in {last.original, last.manifest}
    /\ ~namespace => NamespaceEmpty
    /\ NothingLost
    /\ CommitIsDurable

\* The places where the journal in memory is that of the transaction.
Holding == {"opening", "writing", "syncing", "quarantining", "installing", "verifying",
            "cleaning", "rolling_back", "directories", "removing", "unlinking", "leaving"}

\* The volume is as it was before the transaction.
Restored == target = mem.original /\ dirs = mem.dirs

\* What the command knows where it is.
MemorySound ==
    /\ pc # "idle" => wanted \in Manifests
    /\ pc \in Holding => About(mem)
    /\ pc \in {"creating", "staging", "capturing", "opening", "writing"} => namespace
    /\ pc \in {"creating", "staging", "capturing", "leaving"} => ~JournalExists
    /\ pc \in {"opening", "writing"} =>
          /\ mem.phase = journal.phase
          /\ mem.phase # "committed"
          /\ last.manifest \in Manifests
          /\ mem.phase = "none" => Restored
          /\ mem.phase \in {"new_generation_installed", "target_verified"}
                => target = mem.manifest
    /\ pc = "syncing" =>
          /\ JournalExists
          /\ mem.phase # "committed"
          /\ journal.phase = "target_verified" => target = mem.manifest
    /\ pc \in {"quarantining", "installing", "verifying"} => mem.phase = journal.phase
    /\ pc = "quarantining" => mem.phase = "prepared"
    /\ pc = "installing" => mem.phase = "old_generation_quarantined"
    /\ pc = "verifying" => mem.phase = "new_generation_installed"
    /\ pc = "cleaning" => mem.phase = "committed" /\ journal.phase = "committed"
    /\ pc \in {"rolling_back", "directories"} =>
          /\ JournalExists
          /\ mem.phase # "committed"
          /\ journal.phase = "committed" => torn
    /\ pc \in {"removing", "unlinking"} =>
          /\ JournalExists
          /\ IF mem.phase = "committed"
             THEN journal.phase = "committed" /\ target = mem.manifest
             ELSE Restored /\ (journal.phase = "committed" => torn)
    /\ pc = "unlinking" => rollback = Nothing
    /\ pc = "leaving" => mem.phase = "committed" \/ Restored

\* An outcome is reported at the end of a transaction, and a rollback is exact.
OutcomeSound ==
    /\ outcome # "none" => pc \in {"idle", "preparing"}
    /\ RollbackExact

RestoreInv == TypeInv /\ JournalSound /\ MemorySound /\ OutcomeSound

----------------------------------------------------------------------------
(* Types.                                                                  *)

\* The operations are numbered from one.
LEMMA Numbers ==
    N \in Nat \ {0} /\ 0 \in 0..N /\ 1 \in 1..N /\ N \in 1..N /\ 1..N \subseteq 0..N
  BY VolumeAssumption

\* The phases follow each other, and each has its place in the command.
LEMMA PhaseOrder ==
    /\ NextPhase("none") = "prepared"
    /\ NextPhase("prepared") = "old_generation_quarantined"
    /\ NextPhase("old_generation_quarantined") = "new_generation_installed"
    /\ NextPhase("new_generation_installed") = "target_verified"
    /\ NextPhase("target_verified") = "committed"
    /\ AfterPhase("prepared") = "quarantining"
    /\ AfterPhase("old_generation_quarantined") = "installing"
    /\ AfterPhase("new_generation_installed") = "verifying"
    /\ AfterPhase("target_verified") = "opening"
    /\ AfterPhase("committed") = "cleaning"
  BY DEF NextPhase, AfterPhase

\* Empty inventories and journals are typed.
LEMMA EmptyTypes == Nothing \in Inventory /\ NoJournal \in JournalType
<1>1. Nothing \in Inventory
  BY DEF Nothing, Inventory
<1>2. [d \in Dirs |-> "absent"] \in DirStates
  BY DEF DirStates
<1> QED
  BY <1>1, <1>2 DEF NoJournal, Journal, JournalType

\* Changing one path keeps an inventory typed.
LEMMA PathType ==
    ASSUME NEW f \in Inventory, NEW p \in Paths, NEW c \in Contents \cup {Absent}
    PROVE  [f EXCEPT ![p] = c] \in Inventory
  BY DEF Inventory

\* A private parent is a directory state.
LEMMA ParentType ==
    ASSUME dirs \in DirStates, NEW p \in Paths
    PROVE  WithPrivateParent(p) \in DirStates
  BY DEF DirStates, WithPrivateParent

\* A loop goes on within its operations, or ends.
LEMMA LoopType ==
    ASSUME i \in 1..N, pc \in Labels, NEW then \in Labels \ Loops
    PROVE  /\ Forward(then) => i' \in 0..N /\ pc' \in {pc, then} /\ (pc' \in Loops => i' \in 1..N)
           /\ Backward(then) => i' \in 0..N /\ pc' \in {pc, then} /\ (pc' \in Loops => i' \in 1..N)
  BY VolumeAssumption DEF Forward, Backward

\* The command starts with everything typed.
LEMMA InitType == Init => TypeInv
<1> SUFFICES ASSUME Init PROVE TypeInv
  OBVIOUS
<1>1. last \in JournalType
  BY DEF Init, Journal, JournalType, DirStates
<1>2. crashes \in 0..MaxCrashes /\ faults \in 0..MaxFaults /\ i \in 0..N
  BY FailureAssumption, Numbers DEF Init
<1> QED
  BY <1>1, <1>2, EmptyTypes
     DEF Init, TypeInv, TypeOK, Loops, Labels, DirStates

\* Starting and recovering keep the types.
LEMMA RecoverType ==
    ASSUME TypeInv, Recover \/ \E manifest \in Manifests : Start(manifest)
    PROVE  TypeInv'
<1> USE DEF TypeInv, TypeOK, volume, tree, failures, process
<1>1. ASSUME NEW manifest \in Manifests, Start(manifest) PROVE TypeInv'
  <2>1. manifest \in Inventory
    BY VolumeAssumption
  <2> QED
    BY <1>1, <2>1 DEF Start, Labels, Loops
<1>2. CASE NothingToRecover
  BY <1>2 DEF NothingToRecover, Goto, Labels, Loops
<1>3. CASE RecoveryRefused
  BY <1>3, EmptyTypes, Numbers DEF RecoveryRefused, End, Labels, Loops
<1>4. CASE RecoverCommitted
  BY <1>4 DEF RecoverCommitted, Labels, Loops
<1>5. CASE RecoverUncommitted
  BY <1>5, Numbers DEF RecoverUncommitted, Labels, Loops
<1> QED
  BY <1>1, <1>2, <1>3, <1>4, <1>5 DEF Recover

\* Preparing and journaling keep the types.
LEMMA PrepareType ==
    ASSUME TypeInv, MemorySound,
           \/ NamespaceOccupied \/ CreateNamespace \/ CreateTransaction \/ StageArtifact
           \/ CaptureOriginal \/ OpenTemporary \/ ReplaceJournal
    PROVE  TypeInv'
<1> USE DEF TypeInv, TypeOK, volume, tree, failures, process
<1>1. CASE NamespaceOccupied
  BY <1>1, EmptyTypes, Numbers DEF NamespaceOccupied, End, Labels, Loops
<1>2. CASE CreateNamespace
  BY <1>2, EmptyTypes DEF CreateNamespace, Labels, Loops
<1>3. CASE CreateTransaction
  BY <1>3, Numbers DEF CreateTransaction, Labels, Loops
<1>4. CASE StageArtifact
  <2>1. i \in 1..N /\ Forward("capturing") /\ pc = "staging"
    BY <1>4 DEF StageArtifact, Loops
  <2>2. i' \in 0..N /\ pc' \in Labels /\ (pc' \in Loops => i' \in 1..N)
    BY <2>1, LoopType DEF Labels, Loops
  <2>3. i \in Paths /\ wanted[i] \in Contents \cup {Absent}
    BY <2>1 DEF Paths, Inventory
  <2>4. stage' \in Inventory
    BY <1>4, <2>3, PathType DEF StageArtifact
  <2> QED
    BY <1>4, <2>2, <2>4 DEF StageArtifact
<1>5. CASE CaptureOriginal
  <2>1. mem' \in JournalType /\ last' = mem'
    BY <1>5 DEF CaptureOriginal, Journal, JournalType
  <2> QED
    BY <1>5, <2>1 DEF CaptureOriginal, Labels, Loops
<1>6. CASE OpenTemporary
  BY <1>6 DEF OpenTemporary, Goto, Labels, Loops
<1>7. CASE ReplaceJournal
  <2>1. pc = "writing" /\ mem.phase \in (Phases \cup {"none"}) \ {"committed"}
    BY <1>7 DEF ReplaceJournal, JournalType, MemorySound
  <2>2. NextPhase(mem.phase) \in Phases
    BY <2>1, PhaseOrder DEF Phases
  <2>3. journal' \in JournalType
    BY <1>7, <2>2 DEF ReplaceJournal, JournalType
  <2> QED
    BY <1>7, <2>3 DEF ReplaceJournal, Goto, Labels, Loops
<1> QED
  BY <1>1, <1>2, <1>3, <1>4, <1>5, <1>6, <1>7

\* The transaction's own steps keep the types.
LEMMA ExecuteType ==
    ASSUME TypeInv, MemorySound,
           \/ SyncJournal \/ QuarantineArtifact \/ InstallParent \/ InstallArtifact
           \/ SkipArtifact \/ VerifyTarget \/ CleanupCommitted \/ CleanupRefused
    PROVE  TypeInv'
<1> USE DEF TypeInv, TypeOK, volume, tree, failures, process
<1>a. Absent \in Contents \cup {Absent}
  OBVIOUS
<1>i. pc \in {"quarantining", "installing"} =>
         /\ i \in Paths /\ i \in 1..N
         /\ target[i] \in Contents \cup {Absent} /\ stage[i] \in Contents \cup {Absent}
  BY DEF Loops, Paths, Inventory
<1>1. CASE SyncJournal
  <2>1. pc = "syncing" /\ journal.phase \in Phases
    BY <1>1 DEF SyncJournal, JournalType, MemorySound, JournalExists
  <2>2. AfterPhase(journal.phase) \in Labels
    BY <2>1, PhaseOrder DEF Phases, Labels
  <2> QED
    BY <1>1, <2>2, Numbers DEF SyncJournal
<1>2. CASE QuarantineArtifact
  <2>1. pc = "quarantining" /\ Forward("opening")
    BY <1>2 DEF QuarantineArtifact
  <2>2. i' \in 0..N /\ pc' \in Labels /\ (pc' \in Loops => i' \in 1..N)
    BY <1>i, <2>1, LoopType DEF Labels, Loops
  <2>3. target' \in Inventory /\ rollback' \in Inventory
    BY <1>2, <1>a, <1>i, <2>1, PathType DEF QuarantineArtifact
  <2> QED
    BY <1>2, <2>2, <2>3 DEF QuarantineArtifact
<1>3. CASE InstallParent
  BY <1>3, <1>i, ParentType DEF InstallParent
<1>4. CASE InstallArtifact
  <2>1. pc = "installing" /\ Forward("opening")
    BY <1>4 DEF InstallArtifact
  <2>2. i' \in 0..N /\ pc' \in Labels /\ (pc' \in Loops => i' \in 1..N)
    BY <1>i, <2>1, LoopType DEF Labels, Loops
  <2>3. target' \in Inventory /\ stage' \in Inventory
    BY <1>4, <1>a, <1>i, <2>1, PathType DEF InstallArtifact
  <2> QED
    BY <1>4, <2>2, <2>3 DEF InstallArtifact
<1>5. CASE SkipArtifact
  <2>1. pc = "installing" /\ Forward("opening")
    BY <1>5 DEF SkipArtifact
  <2>2. i' \in 0..N /\ pc' \in Labels /\ (pc' \in Loops => i' \in 1..N)
    BY <1>i, <2>1, LoopType DEF Labels, Loops
  <2> QED
    BY <1>5, <2>2 DEF SkipArtifact
<1>6. CASE VerifyTarget \/ CleanupCommitted
  BY <1>6 DEF VerifyTarget, CleanupCommitted, Goto, Labels, Loops
<1>7. CASE CleanupRefused
  BY <1>7, EmptyTypes, Numbers DEF CleanupRefused, End, Labels, Loops
<1> QED
  BY <1>1, <1>2, <1>3, <1>4, <1>5, <1>6, <1>7

\* Rolling back keeps the types.
LEMMA RollbackType ==
    ASSUME TypeInv, Rollback
    PROVE  TypeInv'
<1> USE DEF TypeInv, TypeOK, volume, tree, failures, process
<1>a. Absent \in Contents \cup {Absent}
  OBVIOUS
<1>i. pc = "rolling_back" =>
         /\ i \in Paths /\ i \in 1..N
         /\ target[i] \in Contents \cup {Absent} /\ rollback[i] \in Contents \cup {Absent}
  BY DEF Loops, Paths, Inventory
<1>b. pc = "rolling_back" /\ Backward("directories") =>
         i' \in 0..N /\ pc' \in Labels /\ (pc' \in Loops => i' \in 1..N)
  BY <1>i, LoopType DEF Labels, Loops
<1>1. CASE RollbackUnlink
  <2>1. target' \in Inventory
    BY <1>1, <1>a, <1>i, PathType DEF RollbackUnlink
  <2> QED
    BY <1>1, <2>1 DEF RollbackUnlink
<1>2. CASE RollbackParent
  BY <1>2, <1>i, ParentType DEF RollbackParent
<1>3. CASE RollbackReplace
  <2>1. target' \in Inventory /\ rollback' \in Inventory
    BY <1>3, <1>a, <1>i, PathType DEF RollbackReplace
  <2>2. i' \in 0..N /\ pc' \in Labels /\ (pc' \in Loops => i' \in 1..N)
    BY <1>3, <1>b DEF RollbackReplace
  <2> QED
    BY <1>3, <2>1, <2>2 DEF RollbackReplace
<1>4. CASE RollbackKeep
  <2>1. i' \in 0..N /\ pc' \in Labels /\ (pc' \in Loops => i' \in 1..N)
    BY <1>4, <1>b DEF RollbackKeep
  <2> QED
    BY <1>4, <2>1 DEF RollbackKeep
<1>5. CASE RollbackRemove
  <2>1. target' \in Inventory
    BY <1>5, <1>a, <1>i, PathType DEF RollbackRemove
  <2>2. i' \in 0..N /\ pc' \in Labels /\ (pc' \in Loops => i' \in 1..N)
    BY <1>5, <1>b DEF RollbackRemove
  <2> QED
    BY <1>5, <2>1, <2>2 DEF RollbackRemove
<1>6. ASSUME NEW d \in Dirs, RestoreDirectory(d) PROVE TypeInv'
  <2>1. dirs' \in DirStates
    BY <1>6 DEF RestoreDirectory, DirStates, JournalType
  <2> QED
    BY <1>6, <2>1 DEF RestoreDirectory
<1>7. CASE CheckRestored
  BY <1>7 DEF CheckRestored, Goto, Labels, Loops
<1> QED
  BY <1>1, <1>2, <1>3, <1>4, <1>5, <1>6, <1>7 DEF Rollback

\* Removing the evidence, failures and kills keep the types.
LEMMA EndType ==
    ASSUME TypeInv,
           RemoveEvidence \/ PreparationFails \/ TransactionFails \/ EvidenceRetained \/ Crash
    PROVE  TypeInv'
<1> USE DEF TypeInv, TypeOK, volume, tree, failures, process
<1>f. /\ Raise => faults' \in 0..MaxFaults /\ crashes' = crashes /\ last' = last
                  /\ torn' \in BOOLEAN
      /\ Crash => crashes' \in 0..MaxCrashes
  <2>1. ASSUME Raise PROVE faults' \in 0..MaxFaults
    BY <2>1, FailureAssumption DEF Raise
  <2>2. ASSUME Raise PROVE crashes' = crashes /\ last' = last
    BY <2>2 DEF Raise
  <2>3. ASSUME Raise PROVE torn' \in BOOLEAN
    BY <2>3, Zenon DEF Raise
  <2>4. ASSUME Crash PROVE crashes' \in 0..MaxCrashes
    BY <2>4, FailureAssumption DEF Crash
  <2> QED
    BY <2>1, <2>2, <2>3, <2>4
<1>1. ASSUME NEW p \in Paths, RemoveArtifact(p) PROVE TypeInv'
  <2>1. stage' \in Inventory /\ rollback' \in Inventory
    BY <1>1, PathType DEF RemoveArtifact
  <2> QED
    BY <1>1, <2>1 DEF RemoveArtifact
<1>2. CASE RemoveTransaction
  BY <1>2 DEF RemoveTransaction, Goto, Labels, Loops
<1>3. CASE UnlinkJournal
  BY <1>3, EmptyTypes DEF UnlinkJournal, Goto, Labels, Loops
<1>4. CASE LeaveNamespace
  BY <1>4, EmptyTypes, Numbers DEF LeaveNamespace, Goto, End, Labels, Loops
<1>5. CASE PreparationFails
  BY <1>5, <1>f, EmptyTypes, Numbers DEF PreparationFails, End, Labels, Loops
<1>6. CASE TransactionFails
  BY <1>6, <1>f, Numbers DEF TransactionFails, Labels, Loops
<1>7. CASE EvidenceRetained
  BY <1>7, <1>f, EmptyTypes, Numbers DEF EvidenceRetained, End, Labels, Loops
<1>8. CASE Crash
  BY <1>8, <1>f, EmptyTypes, Numbers DEF Crash, End, Labels, Loops
<1> QED
  BY <1>1, <1>2, <1>3, <1>4, <1>5, <1>6, <1>7, <1>8 DEF RemoveEvidence

\* Every step keeps the types.
LEMMA NextType ==
    ASSUME TypeInv, MemorySound, [Next]_vars
    PROVE  TypeInv'
<1>1. CASE UNCHANGED vars
  BY <1>1 DEF vars, volume, tree, failures, process, TypeInv, TypeOK
<1> QED
  BY <1>1, RecoverType, PrepareType, ExecuteType, RollbackType, EndType
     DEF Next, Step, Execute

----------------------------------------------------------------------------
(* The volume and its journal.                                             *)

\* A step that moves no file and writes no journal leaves the volume sound, as long
\* as it puts no evidence outside the namespace.
LEMMA QuietJournal ==
    ASSUME JournalSound, UNCHANGED <<target, rollback, journal, last>>, torn => torn',
           namespace' \/ NamespaceEmpty'
    PROVE  JournalSound'
  BY DEF JournalSound, JournalExists, About, NothingLost, CommitIsDurable

\* The steps that move no file and write no journal.
LEMMA QuietSteps ==
    ASSUME TypeInv, JournalSound, MemorySound,
           \/ \E manifest \in Manifests : Start(manifest)
           \/ Recover
           \/ NamespaceOccupied \/ CreateNamespace \/ CreateTransaction \/ StageArtifact
           \/ OpenTemporary \/ SyncJournal \/ InstallParent \/ SkipArtifact
           \/ VerifyTarget \/ CleanupCommitted \/ CleanupRefused
           \/ RollbackParent \/ RollbackKeep \/ CheckRestored
           \/ \E d \in Dirs : RestoreDirectory(d)
           \/ RemoveTransaction \/ LeaveNamespace
           \/ PreparationFails \/ TransactionFails \/ EvidenceRetained \/ Crash
    PROVE  JournalSound'
<1> USE DEF volume, tree, failures, NamespaceEmpty, JournalExists
<1>e. namespace \/ NamespaceEmpty
  BY DEF JournalSound
<1>1. ASSUME UNCHANGED <<target, rollback, namespace, txn, tmp, journal, last>>,
             torn => torn'
      PROVE  JournalSound'
  BY <1>1, <1>e, QuietJournal
<1>2. ASSUME NEW manifest \in Manifests, Start(manifest) PROVE JournalSound'
  BY <1>1, <1>2 DEF Start
<1>3. CASE Recover
  BY <1>1, <1>3 DEF Recover, NothingToRecover, RecoveryRefused, RecoverCommitted,
     RecoverUncommitted
<1>4. CASE NamespaceOccupied \/ StageArtifact \/ SyncJournal \/ InstallParent
           \/ SkipArtifact \/ VerifyTarget \/ CleanupCommitted \/ CleanupRefused
  BY <1>1, <1>4 DEF NamespaceOccupied, StageArtifact, SyncJournal, InstallParent,
     SkipArtifact, VerifyTarget, CleanupCommitted, CleanupRefused
<1>5. CASE RollbackParent \/ RollbackKeep \/ CheckRestored
  BY <1>1, <1>5 DEF RollbackParent, RollbackKeep, CheckRestored
<1>6. ASSUME NEW d \in Dirs, RestoreDirectory(d) PROVE JournalSound'
  BY <1>1, <1>6 DEF RestoreDirectory
<1>7. CASE CreateNamespace
  BY <1>7, QuietJournal DEF CreateNamespace
<1>8. CASE CreateTransaction \/ OpenTemporary
  <2>1. namespace /\ UNCHANGED <<target, rollback, journal, last, torn>>
    <3>1. CASE CreateTransaction
      BY <3>1 DEF CreateTransaction, MemorySound
    <3>2. CASE OpenTemporary
      BY <3>2 DEF OpenTemporary, MemorySound
    <3> QED
      BY <1>8, <3>1, <3>2
  <2>2. namespace'
    BY <1>8, <2>1 DEF CreateTransaction, OpenTemporary
  <2> QED
    BY <2>1, <2>2, QuietJournal
<1>9. CASE RemoveTransaction
  BY <1>9, <1>e, QuietJournal DEF RemoveTransaction
<1>10. CASE LeaveNamespace
  BY <1>10, QuietJournal DEF LeaveNamespace
<1>11. CASE PreparationFails
  <2>1. ~JournalExists
    BY <1>11 DEF PreparationFails, Unjournaled, MemorySound
  <2>2. torn => torn'
    BY <1>11 DEF PreparationFails, Raise
  <2> QED
    BY <1>11, <2>1, <2>2, QuietJournal DEF PreparationFails, Raise
<1>12. CASE TransactionFails
  <2>2. torn => torn'
    BY <1>12 DEF TransactionFails, Raise
  <2> QED
    BY <1>12, <1>e, <2>2, QuietJournal DEF TransactionFails, Raise
<1>13. CASE EvidenceRetained
  <2>2. torn => torn'
    BY <1>13 DEF EvidenceRetained, Raise
  <2> QED
    BY <1>1, <1>13, <2>2 DEF EvidenceRetained, Raise
<1>14. CASE Crash
  BY <1>1, <1>14 DEF Crash
<1> QED
  BY <1>2, <1>3, <1>4, <1>5, <1>6, <1>7, <1>8, <1>9, <1>10, <1>11, <1>12, <1>13, <1>14

\* The steps that move files while a journal is there: whatever they touch, an original
\* file stays in place or in quarantine.
LEMMA MoveSteps ==
    ASSUME TypeInv, JournalSound, MemorySound,
           \/ QuarantineArtifact \/ InstallArtifact
           \/ RollbackUnlink \/ RollbackReplace \/ RollbackRemove
    PROVE  JournalSound'
<1> USE DEF JournalExists
<1>1. /\ UNCHANGED <<namespace, txn, tmp, journal, last, torn>>
      /\ pc \in {"quarantining", "installing", "rolling_back"}
  BY DEF QuarantineArtifact, InstallArtifact, RollbackUnlink, RollbackReplace,
     RollbackRemove, tree, failures
<1>2. i \in Paths /\ target \in [Paths -> Contents \cup {Absent}]
      /\ rollback \in [Paths -> Contents \cup {Absent}]
  BY <1>1 DEF TypeInv, TypeOK, Loops, Paths, Inventory
<1>3. /\ JournalExists /\ About(mem) /\ About(journal)
      /\ journal.phase = "committed" => torn
      /\ last.manifest \in Manifests
      /\ \A p \in Paths : rollback[p] \in {Absent, last.original[p]}
      /\ ~namespace => NamespaceEmpty
      /\ journal.phase # "committed" =>
            \A p \in Paths : last.original[p] \in {Absent, target[p], rollback[p]}
  BY <1>1 DEF MemorySound, Holding, JournalSound, NothingLost, About
<1>4. ASSUME NEW p \in Paths
      PROVE  /\ rollback'[p] \in {Absent, last.original[p]}
             /\ journal.phase # "committed" =>
                   last.original[p] \in {Absent, target'[p], rollback'[p]}
  <2>1. CASE QuarantineArtifact
    <3>1. target[i] = last.original[i]
      BY <1>3, <2>1 DEF QuarantineArtifact, About
    <3> QED
      BY <1>2, <1>3, <2>1, <3>1 DEF QuarantineArtifact
  <2>2. CASE InstallArtifact
    <3>1. target[i] = Absent /\ rollback' = rollback
          /\ target' = [target EXCEPT ![i] = stage[i]]
      BY <2>2 DEF InstallArtifact
    <3> QED
      BY <1>2, <1>3, <3>1
  <2>3. CASE RollbackUnlink
    <3>1. rollback[i] # Absent /\ rollback' = rollback
          /\ target' = [target EXCEPT ![i] = Absent]
      BY <2>3 DEF RollbackUnlink, tree
    <3> QED
      BY <1>2, <1>3, <3>1
  <2>4. CASE RollbackReplace
    BY <1>2, <1>3, <2>4 DEF RollbackReplace
  <2>5. CASE RollbackRemove
    <3>1. last.original[i] = Absent /\ rollback' = rollback
          /\ target' = [target EXCEPT ![i] = Absent]
      BY <1>3, <2>5 DEF RollbackRemove, tree, About
    <3> QED
      BY <1>2, <1>3, <3>1
  <2> QED
    BY <2>1, <2>2, <2>3, <2>4, <2>5
<1> QED
  BY <1>1, <1>3, <1>4 DEF JournalSound, About, NothingLost, CommitIsDurable, NamespaceEmpty

\* Capturing the original state starts a new transaction.
LEMMA CaptureStep ==
    ASSUME TypeInv, JournalSound, MemorySound, CaptureOriginal
    PROVE  JournalSound'
<1>1. ~JournalExists /\ ~JournalExists' /\ last'.original = target
  BY DEF CaptureOriginal, MemorySound, JournalExists, volume, Journal
<1>2. UNCHANGED <<target, rollback, namespace, txn, tmp, journal>>
  BY DEF CaptureOriginal, volume, tree
<1> QED
  BY <1>1, <1>2 DEF JournalSound, NothingLost, CommitIsDurable, JournalExists, NamespaceEmpty

\* The rename of the journal: a journal that is new binds what the volume holds, and one
\* that says committed follows a verification of the new generation.
LEMMA ReplaceStep ==
    ASSUME TypeInv, JournalSound, MemorySound, ReplaceJournal
    PROVE  JournalSound'
<1>1. pc = "writing" /\ journal' = [mem EXCEPT !.phase = NextPhase(mem.phase)]
      /\ UNCHANGED <<target, rollback, namespace, txn, last, torn>>
  BY DEF ReplaceJournal, tree, failures
<1>2. About(mem) /\ namespace /\ last.manifest \in Manifests /\ mem.phase = journal.phase
      /\ mem.phase # "committed"
  BY <1>1 DEF MemorySound, Holding
<1>3. mem \in JournalType /\ mem.phase \in (Phases \cup {"none"}) \ {"committed"}
  BY <1>2 DEF TypeInv, TypeOK, JournalType
<1>4. /\ journal'.phase = NextPhase(mem.phase)
      /\ journal'.manifest = last.manifest /\ journal'.original = last.original
      /\ journal'.dirs = last.dirs
  BY <1>1, <1>2, <1>3 DEF JournalType, About
<1>5. /\ NextPhase(mem.phase) # "none"
      /\ NextPhase(mem.phase) = "committed" => mem.phase = "target_verified"
  BY <1>3, PhaseOrder DEF Phases
<1>6. \A p \in Paths : rollback[p] \in {Absent, last.original[p]}
  <2>1. CASE mem.phase = "none"
    BY <1>2, <2>1 DEF JournalSound, JournalExists, Nothing
  <2>2. CASE mem.phase # "none"
    BY <1>2, <2>2 DEF JournalSound, JournalExists
  <2> QED
    BY <2>1, <2>2
<1>7. \A p \in Paths : last.original[p] \in {Absent, target[p], rollback[p]}
  <2>1. CASE mem.phase = "none"
    <3>1. target = last.original
      BY <1>1, <1>2, <2>1 DEF MemorySound, Restored, About
    <3> QED
      BY <3>1
  <2>2. CASE mem.phase # "none"
    BY <1>2, <2>2 DEF JournalSound, JournalExists, NothingLost, About
  <2> QED
    BY <2>1, <2>2
<1>8. journal'.phase = "committed" => target = last.manifest
  BY <1>1, <1>2, <1>4, <1>5 DEF MemorySound, About
<1>9. JournalExists'
  BY <1>4, <1>5 DEF JournalExists
<1> QED
  BY <1>1, <1>2, <1>4, <1>6, <1>7, <1>8, <1>9 DEF JournalSound, About, NothingLost,
     CommitIsDurable

\* Evidence is removed from a volume that is resolved.
LEMMA RemoveSteps ==
    ASSUME TypeInv, JournalSound, MemorySound,
           UnlinkJournal \/ \E p \in Paths : RemoveArtifact(p)
    PROVE  JournalSound'
<1>1. ASSUME NEW p \in Paths, RemoveArtifact(p) PROVE JournalSound'
  <2>1. /\ pc = "removing" /\ UNCHANGED <<target, namespace, txn, tmp, journal, last, torn>>
        /\ rollback' \in {rollback, [rollback EXCEPT ![p] = Absent]}
    BY <1>1 DEF RemoveArtifact, failures
  <2>2. JournalExists /\ About(mem) /\ (journal.phase # "committed" => target = mem.original)
    BY <2>1 DEF MemorySound, Holding, Restored
  <2>3. \A q \in Paths : rollback'[q] \in {Absent, last.original[q]}
    BY <2>1, <2>2 DEF JournalSound, TypeInv, TypeOK, Inventory
  <2>4. journal.phase # "committed" =>
           \A q \in Paths : last.original[q] \in {Absent, target[q], rollback'[q]}
    BY <2>2 DEF About
  <2> QED
    BY <2>1, <2>2, <2>3, <2>4 DEF JournalSound, About, NothingLost, CommitIsDurable,
       JournalExists, NamespaceEmpty
<1>2. CASE UnlinkJournal
  <2>1. /\ pc = "unlinking" /\ journal' = NoJournal
        /\ UNCHANGED <<target, rollback, namespace, txn, tmp, last, torn>>
    BY <1>2 DEF UnlinkJournal, tree, failures
  <2>2. ~JournalExists' /\ journal'.phase = "none"
    BY <2>1 DEF JournalExists, NoJournal, Journal
  <2>3. rollback = Nothing /\ target \in {last.original, last.manifest}
    BY <2>1 DEF MemorySound, Holding, Restored, About
  <2>4. ~namespace => NamespaceEmpty'
    BY <2>1, <2>2 DEF JournalSound, NamespaceEmpty
  <2> QED
    BY <2>1, <2>2, <2>3, <2>4 DEF JournalSound, NothingLost, CommitIsDurable
<1> QED
  BY <1>1, <1>2

\* Every step leaves the volume sound.
LEMMA NextJournal ==
    ASSUME TypeInv, JournalSound, MemorySound, [Next]_vars
    PROVE  JournalSound'
<1>1. CASE UNCHANGED vars
  BY <1>1, QuietJournal DEF vars, volume, tree, failures, JournalSound, NamespaceEmpty,
     JournalExists
<1> QED
  BY <1>1, QuietSteps, MoveSteps, CaptureStep, ReplaceStep, RemoveSteps
     DEF Next, Step, Execute, Rollback, RemoveEvidence

----------------------------------------------------------------------------
(* What the command knows.                                                 *)

\* A command that has ended knows nothing.
LEMMA EndedMemory == ASSUME pc' = "idle" PROVE MemorySound'
  BY DEF MemorySound, Holding

\* Starting and recovering.
LEMMA RecoverMemory ==
    ASSUME TypeInv, JournalSound, MemorySound,
           Recover \/ \E manifest \in Manifests : Start(manifest)
    PROVE  MemorySound'
<1> USE DEF JournalExists
<1>1. ASSUME NEW manifest \in Manifests, Start(manifest) PROVE MemorySound'
  BY <1>1 DEF Start, MemorySound, Holding
<1>2. CASE NothingToRecover
  BY <1>2 DEF NothingToRecover, Goto, MemorySound, Holding
<1>3. CASE RecoveryRefused
  BY <1>3, EndedMemory DEF RecoveryRefused, End
<1>4. CASE RecoverCommitted
  BY <1>4 DEF RecoverCommitted, MemorySound, Holding, JournalSound, About, volume
<1>5. CASE RecoverUncommitted
  BY <1>5 DEF RecoverUncommitted, MemorySound, Holding, JournalSound, About, volume
<1> QED
  BY <1>1, <1>2, <1>3, <1>4, <1>5 DEF Recover

\* Preparing and journaling.
LEMMA PrepareMemory ==
    ASSUME TypeInv, JournalSound, MemorySound,
           \/ NamespaceOccupied \/ CreateNamespace \/ CreateTransaction \/ StageArtifact
           \/ CaptureOriginal \/ OpenTemporary \/ ReplaceJournal \/ SyncJournal
    PROVE  MemorySound'
<1> USE DEF JournalExists
<1>1. CASE NamespaceOccupied
  BY <1>1, EndedMemory DEF NamespaceOccupied, End
<1>2. CASE CreateNamespace
  BY <1>2 DEF CreateNamespace, MemorySound, Holding, NamespaceEmpty
<1>3. CASE CreateTransaction
  BY <1>3 DEF CreateTransaction, MemorySound, Holding
<1>4. CASE StageArtifact
  BY <1>4 DEF StageArtifact, MemorySound, Holding, Forward
<1>5. CASE CaptureOriginal
  <2>1. /\ pc = "capturing" /\ pc' = "opening" /\ last' = mem'
        /\ mem' = Journal("none", wanted, target, dirs)
        /\ UNCHANGED <<target, dirs, namespace, journal, wanted>>
    BY <1>5 DEF CaptureOriginal, volume, tree
  <2>2. /\ mem'.phase = "none" /\ mem'.manifest = wanted /\ mem'.original = target
        /\ mem'.dirs = dirs
    BY <2>1 DEF Journal
  <2> QED
    BY <2>1, <2>2 DEF MemorySound, Holding, About, Restored
<1>6. CASE OpenTemporary
  BY <1>6 DEF OpenTemporary, Goto, MemorySound, Holding, tree, About, Restored
<1>7. CASE ReplaceJournal
  <2>1. /\ pc = "writing" /\ pc' = "syncing"
        /\ journal' = [mem EXCEPT !.phase = NextPhase(mem.phase)]
        /\ UNCHANGED <<target, mem, wanted, last>>
    BY <1>7 DEF ReplaceJournal, Goto
  <2>2. mem \in JournalType /\ mem.phase \in (Phases \cup {"none"}) \ {"committed"}
    BY <2>1 DEF TypeInv, TypeOK, JournalType, MemorySound
  <2>3. journal'.phase = NextPhase(mem.phase) /\ journal'.manifest = mem.manifest
    BY <2>1, <2>2 DEF JournalType
  <2>4. /\ NextPhase(mem.phase) # "none"
        /\ NextPhase(mem.phase) = "target_verified"
              => mem.phase = "new_generation_installed"
    BY <2>2, PhaseOrder DEF Phases
  <2> QED
    BY <2>1, <2>2, <2>3, <2>4 DEF MemorySound, Holding, About
<1>8. CASE SyncJournal
  <2>1. /\ pc = "syncing" /\ pc' = AfterPhase(journal.phase) /\ mem' = journal
        /\ UNCHANGED <<target, dirs, namespace, journal, wanted, last, rollback>>
    BY <1>8 DEF SyncJournal, volume, tree
  <2>2. journal.phase \in Phases /\ JournalExists
    BY <2>1 DEF MemorySound, TypeInv, TypeOK, JournalType
  <2>3. /\ pc' \in {"quarantining", "installing", "verifying", "opening", "cleaning"}
        /\ pc' = "quarantining" => journal.phase = "prepared"
        /\ pc' = "installing" => journal.phase = "old_generation_quarantined"
        /\ pc' = "verifying" => journal.phase = "new_generation_installed"
        /\ pc' = "opening" => journal.phase = "target_verified"
        /\ pc' = "cleaning" => journal.phase = "committed"
    BY <2>1, <2>2, PhaseOrder DEF Phases
  <2>4. About(mem)' /\ last.manifest \in Manifests /\ namespace
    BY <2>1, <2>2 DEF JournalSound, About, NamespaceEmpty
  <2>5. journal.phase = "target_verified" => target = mem'.manifest
    BY <2>1, <2>2 DEF MemorySound, Holding, JournalSound, About
  <2> QED
    BY <2>1, <2>2, <2>3, <2>4, <2>5 DEF MemorySound, Holding
<1> QED
  BY <1>1, <1>2, <1>3, <1>4, <1>5, <1>6, <1>7, <1>8

\* The transaction's own steps.
LEMMA ExecuteMemory ==
    ASSUME TypeInv, JournalSound, MemorySound,
           \/ QuarantineArtifact \/ InstallParent \/ InstallArtifact
           \/ SkipArtifact \/ VerifyTarget \/ CleanupCommitted \/ CleanupRefused
    PROVE  MemorySound'
<1> USE DEF JournalExists, volume, tree, process
<1>j. journal.phase # "none" => namespace /\ last.manifest \in Manifests
  BY DEF JournalSound, NamespaceEmpty
<1>1. CASE QuarantineArtifact
  BY <1>1, <1>j DEF QuarantineArtifact, Forward, MemorySound, Holding, About
<1>2. CASE InstallParent
  BY <1>2 DEF InstallParent, MemorySound, Holding, About
<1>3. CASE InstallArtifact
  BY <1>3, <1>j DEF InstallArtifact, Forward, MemorySound, Holding, About
<1>4. CASE SkipArtifact
  BY <1>4, <1>j DEF SkipArtifact, Forward, MemorySound, Holding, About
<1>5. CASE VerifyTarget
  BY <1>5, <1>j DEF VerifyTarget, Verified, Goto, MemorySound, Holding, About
<1>6. CASE CleanupCommitted
  BY <1>6 DEF CleanupCommitted, Verified, Goto, MemorySound, Holding, About
<1>7. CASE CleanupRefused
  BY <1>7, EndedMemory DEF CleanupRefused, End
<1> QED
  BY <1>1, <1>2, <1>3, <1>4, <1>5, <1>6, <1>7

\* Rolling back.
LEMMA RollbackMemory ==
    ASSUME TypeInv, JournalSound, MemorySound, Rollback
    PROVE  MemorySound'
<1> USE DEF JournalExists, volume, tree, process, failures
<1>1. CASE RollbackUnlink \/ RollbackParent
  BY <1>1 DEF RollbackUnlink, RollbackParent, MemorySound, Holding, About
<1>2. CASE RollbackReplace \/ RollbackKeep \/ RollbackRemove
  <2>1. /\ pc = "rolling_back" /\ pc' \in {"rolling_back", "directories"}
        /\ UNCHANGED <<namespace, journal, mem, wanted, last, torn>>
    BY <1>2 DEF RollbackReplace, RollbackKeep, RollbackRemove, Backward
  <2> QED
    BY <2>1 DEF MemorySound, Holding, About
<1>3. ASSUME NEW d \in Dirs, RestoreDirectory(d) PROVE MemorySound'
  BY <1>3 DEF RestoreDirectory, MemorySound, Holding, About
<1>4. CASE CheckRestored
  BY <1>4 DEF CheckRestored, Goto, MemorySound, Holding, About, Restored
<1> QED
  BY <1>1, <1>2, <1>3, <1>4 DEF Rollback

\* Removing the evidence, failures and kills.
LEMMA EndMemory ==
    ASSUME TypeInv, JournalSound, MemorySound,
           RemoveEvidence \/ PreparationFails \/ TransactionFails \/ EvidenceRetained \/ Crash
    PROVE  MemorySound'
<1> USE DEF JournalExists, volume, tree, process, failures
<1>1. ASSUME NEW p \in Paths, RemoveArtifact(p) PROVE MemorySound'
  BY <1>1 DEF RemoveArtifact, MemorySound, Holding, About, Restored
<1>2. CASE RemoveTransaction
  BY <1>2 DEF RemoveTransaction, Goto, MemorySound, Holding, About, Restored
<1>3. CASE UnlinkJournal
  BY <1>3 DEF UnlinkJournal, Goto, MemorySound, Holding, About, Restored, NoJournal, Journal
<1>4. CASE LeaveNamespace
  BY <1>4, EndedMemory DEF LeaveNamespace, Goto, End, MemorySound, Holding
<1>5. CASE PreparationFails \/ EvidenceRetained \/ Crash
  BY <1>5, EndedMemory DEF PreparationFails, EvidenceRetained, Crash, End
<1>6. CASE TransactionFails
  <2>1. /\ pc' = "rolling_back" /\ InTransaction
        /\ UNCHANGED <<namespace, journal, mem, wanted, last>>
    BY <1>6 DEF TransactionFails, Raise
  <2>2. journal.phase = "committed" => torn'
    BY <1>6, <2>1 DEF TransactionFails, Raise
  <2>3. JournalExists /\ About(mem) /\ wanted \in Manifests /\ mem.phase # "committed"
    BY <2>1 DEF InTransaction, MemorySound, Holding
  <2> QED
    BY <2>1, <2>2, <2>3 DEF MemorySound, Holding, About
<1> QED
  BY <1>1, <1>2, <1>3, <1>4, <1>5, <1>6 DEF RemoveEvidence

\* Every step leaves the command knowing where it is.
LEMMA NextMemory ==
    ASSUME TypeInv, JournalSound, MemorySound, [Next]_vars
    PROVE  MemorySound'
<1>1. CASE UNCHANGED vars
  BY <1>1 DEF vars, volume, tree, process, failures, MemorySound, About, Restored,
     JournalExists
<1> QED
  BY <1>1, RecoverMemory, PrepareMemory, ExecuteMemory, RollbackMemory, EndMemory
     DEF Next, Step, Execute

----------------------------------------------------------------------------
(* What is reported.                                                       *)

\* A step that reports nothing, or that recovery is required, breaks no promise.
LEMMA NothingReported ==
    ASSUME outcome' = "none" \/ (outcome' = "recovery_required" /\ pc' = "idle")
    PROVE  OutcomeSound'
  BY DEF OutcomeSound, RollbackExact

\* While a transaction runs nothing is reported about it.
LEMMA StillSilent ==
    ASSUME OutcomeSound, pc \notin {"idle", "preparing"}, outcome' = outcome
    PROVE  OutcomeSound'
  BY DEF OutcomeSound, RollbackExact

\* Every step leaves the reported outcome exact.
LEMMA NextOutcome ==
    ASSUME MemorySound, OutcomeSound, [Next]_vars
    PROVE  OutcomeSound'
<1>1. CASE UNCHANGED vars
  BY <1>1 DEF vars, volume, process, OutcomeSound, RollbackExact
<1>2. ASSUME NEW manifest \in Manifests, Start(manifest) PROVE OutcomeSound'
  BY <1>2, NothingReported DEF Start
<1>3. CASE Recover
  <2>1. CASE RecoveryRefused
    BY <2>1, NothingReported DEF RecoveryRefused, End
  <2>2. CASE NothingToRecover \/ RecoverCommitted \/ RecoverUncommitted
    BY <2>2, StillSilent DEF NothingToRecover, RecoverCommitted, RecoverUncommitted
  <2> QED
    BY <1>3, <2>1, <2>2 DEF Recover
<1>4. CASE Execute
  <2>1. CASE NamespaceOccupied \/ CreateNamespace \/ CleanupRefused
    BY <2>1, NothingReported DEF NamespaceOccupied, CreateNamespace, CleanupRefused, End
  <2>2. CASE CreateTransaction \/ StageArtifact \/ CaptureOriginal \/ OpenTemporary
             \/ ReplaceJournal \/ SyncJournal
    BY <2>2, StillSilent DEF CreateTransaction, StageArtifact, CaptureOriginal,
       OpenTemporary, ReplaceJournal, SyncJournal
  <2>3. CASE QuarantineArtifact \/ InstallParent \/ InstallArtifact \/ SkipArtifact
             \/ VerifyTarget \/ CleanupCommitted
    BY <2>3, StillSilent DEF QuarantineArtifact, InstallParent, InstallArtifact,
       SkipArtifact, VerifyTarget, CleanupCommitted
  <2> QED
    BY <1>4, <2>1, <2>2, <2>3 DEF Execute
<1>5. CASE Rollback
  BY <1>5, StillSilent DEF Rollback, RollbackUnlink, RollbackParent, RollbackReplace,
     RollbackKeep, RollbackRemove, RestoreDirectory, CheckRestored
<1>6. CASE RemoveEvidence
  <2>1. CASE LeaveNamespace
    <3>1. /\ pc = "leaving" /\ pc' \in {"idle", "preparing"}
          /\ UNCHANGED <<target, dirs, last>>
          /\ outcome' = "rolled_back" => mem.phase # "committed"
      BY <2>1 DEF LeaveNamespace, Goto, End
    <3>2. mem.phase # "committed" => target = last.original /\ dirs = last.dirs
      BY <3>1 DEF MemorySound, Holding, About, Restored
    <3> QED
      BY <3>1, <3>2 DEF OutcomeSound, RollbackExact
  <2>2. ASSUME NEW p \in Paths, RemoveArtifact(p) PROVE OutcomeSound'
    BY <2>2, StillSilent DEF RemoveArtifact
  <2>3. CASE RemoveTransaction \/ UnlinkJournal
    BY <2>3, StillSilent DEF RemoveTransaction, UnlinkJournal
  <2> QED
    BY <1>6, <2>1, <2>2, <2>3 DEF RemoveEvidence
<1>7. CASE PreparationFails \/ EvidenceRetained \/ Crash
  BY <1>7, NothingReported DEF PreparationFails, EvidenceRetained, Crash, End
<1>8. CASE TransactionFails
  BY <1>8, StillSilent DEF TransactionFails, InTransaction
<1> QED
  BY <1>1, <1>2, <1>3, <1>4, <1>5, <1>6, <1>7, <1>8 DEF Next, Step

----------------------------------------------------------------------------
(* The invariant holds, and what it says of the volume.                    *)

\* The command starts on a volume that is one generation.
LEMMA InitInv == Init => RestoreInv
<1> SUFFICES ASSUME Init PROVE RestoreInv
  OBVIOUS
<1>1. TypeInv
  BY InitType
<1>2. /\ ~JournalExists /\ journal.phase = "none" /\ last.original = target
      /\ rollback = Nothing /\ NamespaceEmpty /\ pc = "idle" /\ outcome = "none"
  BY DEF Init, JournalExists, NoJournal, Journal, NamespaceEmpty
<1>3. JournalSound
  BY <1>2 DEF JournalSound, NothingLost, CommitIsDurable
<1>4. MemorySound
  BY <1>2 DEF MemorySound, Holding
<1>5. OutcomeSound
  BY <1>2 DEF OutcomeSound, RollbackExact
<1> QED
  BY <1>1, <1>3, <1>4, <1>5 DEF RestoreInv

\* Every step keeps the invariant.
LEMMA NextInv == RestoreInv /\ [Next]_vars => RestoreInv'
  BY NextType, NextJournal, NextMemory, NextOutcome DEF RestoreInv

\* The invariant of the restore: journal, memory and volume agree.
LEMMA SpecInv == Spec => []RestoreInv
<1>1. Init => RestoreInv
  BY InitInv
<1>2. RestoreInv /\ [Next]_vars => RestoreInv'
  BY NextInv
<1> QED
  BY <1>1, <1>2, PTL DEF Spec

\* recover_v3_restore, execute_v3_restore: whenever assert_restore_state_clean lets
\* Core start, the managed files are one complete generation, and as long as the
\* journal does not say committed every original file is in place or in quarantine,
\* wherever the command is killed or one of its calls raises.
THEOREM VolumeSafety == Spec => []VolumeSound
<1>1. RestoreInv => VolumeSound
  <2> SUFFICES ASSUME RestoreInv PROVE VolumeSound
    OBVIOUS
  <2>1. Clean => ~JournalExists
    BY DEF RestoreInv, JournalSound, Clean, NamespaceEmpty
  <2> QED
    BY <2>1 DEF RestoreInv, TypeInv, JournalSound, VolumeSound, CleanMeansCoherent
<1> QED
  BY <1>1, SpecInv, PTL

\* _transition, _rollback, _cleanup_committed: a transaction reported as rolled back has
\* left every file and directory as it found them, and a journal that says committed
\* describes the volume unless the fsync behind its own rename failed.
THEOREM OutcomeSafety == Spec => []OutcomeExact
<1>1. RestoreInv => OutcomeExact
  BY DEF RestoreInv, OutcomeSound, JournalSound, OutcomeExact
<1> QED
  BY <1>1, SpecInv, PTL

----------------------------------------------------------------------------
(* A restore is one atomic step.                                           *)

\* What the volume stands for does not move with a step that leaves the journal and, if
\* there is none, the files.
LEMMA SameGeneration ==
    ASSUME UNCHANGED <<journal, torn>>, JournalExists \/ target' = target
    PROVE  Generation' = Generation
  BY DEF Generation, JournalExists

\* A call that fails leaves the generation alone or undecided.
LEMMA FaultyGeneration ==
    ASSUME UNCHANGED <<journal, target>>, torn => torn', torn \in BOOLEAN, torn' \in BOOLEAN
    PROVE  Generation' = Generation \/ Generation' = Undecided
<1>1. CASE torn'
  BY <1>1 DEF Generation
<1>2. CASE ~torn'
  <2>1. torn' = torn
    BY <1>2, Zenon
  <2> QED
    BY <2>1, SameGeneration
<1> QED
  BY <1>1, <1>2

\* The steps that move no journal and tear nothing: files move only behind a journal.
LEMMA SteadySteps ==
    ASSUME TypeInv, JournalSound, MemorySound,
           \/ \E manifest \in Manifests : Start(manifest)
           \/ Recover \/ Rollback \/ LeaveNamespace \/ RemoveTransaction
           \/ \E p \in Paths : RemoveArtifact(p)
           \/ NamespaceOccupied \/ CreateNamespace \/ CreateTransaction \/ StageArtifact
           \/ CaptureOriginal \/ OpenTemporary \/ SyncJournal
           \/ QuarantineArtifact \/ InstallParent \/ InstallArtifact \/ SkipArtifact
           \/ VerifyTarget \/ CleanupCommitted \/ CleanupRefused
           \/ Crash
    PROVE  Generation' = Generation
<1> USE DEF volume, tree, process, failures
<1>1. ASSUME UNCHANGED <<journal, torn, target>> PROVE Generation' = Generation
  BY <1>1, SameGeneration
<1>2. ASSUME UNCHANGED <<journal, torn>>,
             pc \in {"quarantining", "installing", "rolling_back"}
      PROVE  Generation' = Generation
  <2>1. JournalExists
    BY <1>2 DEF MemorySound, JournalExists
  <2> QED
    BY <1>2, <2>1, SameGeneration
<1>3. ASSUME NEW manifest \in Manifests, Start(manifest) PROVE Generation' = Generation
  BY <1>1, <1>3 DEF Start
<1>4. CASE Recover
  BY <1>1, <1>4 DEF Recover, NothingToRecover, RecoveryRefused, RecoverCommitted,
     RecoverUncommitted
<1>5. CASE Rollback
  <2>1. CASE RollbackUnlink \/ RollbackReplace \/ RollbackRemove
    BY <1>2, <2>1 DEF RollbackUnlink, RollbackReplace, RollbackRemove
  <2>2. CASE RollbackParent \/ RollbackKeep \/ CheckRestored
    BY <1>1, <2>2 DEF RollbackParent, RollbackKeep, CheckRestored
  <2>3. ASSUME NEW d \in Dirs, RestoreDirectory(d) PROVE Generation' = Generation
    BY <1>1, <2>3 DEF RestoreDirectory
  <2> QED
    BY <1>5, <2>1, <2>2, <2>3 DEF Rollback
<1>6. ASSUME NEW p \in Paths, RemoveArtifact(p) PROVE Generation' = Generation
  BY <1>1, <1>6 DEF RemoveArtifact
<1>7. CASE LeaveNamespace \/ RemoveTransaction \/ NamespaceOccupied \/ CreateNamespace
           \/ CreateTransaction \/ StageArtifact \/ CaptureOriginal \/ Crash
  BY <1>1, <1>7 DEF LeaveNamespace, RemoveTransaction, NamespaceOccupied, CreateNamespace,
     CreateTransaction, StageArtifact, CaptureOriginal, Crash
<1>8. CASE OpenTemporary \/ SyncJournal \/ InstallParent \/ SkipArtifact \/ VerifyTarget
           \/ CleanupCommitted \/ CleanupRefused
  BY <1>1, <1>8 DEF OpenTemporary, SyncJournal, InstallParent, SkipArtifact, VerifyTarget,
     CleanupCommitted, CleanupRefused
<1>9. CASE QuarantineArtifact \/ InstallArtifact
  BY <1>2, <1>9 DEF QuarantineArtifact, InstallArtifact
<1> QED
  BY <1>3, <1>4, <1>5, <1>6, <1>7, <1>8, <1>9

\* The rename of the committed journal is the restore; every other rename leaves what
\* the volume stands for.
LEMMA RenameIsRestore ==
    ASSUME TypeInv, JournalSound, MemorySound, ReplaceJournal
    PROVE  Generation' = Generation
           \/ \E manifest \in Manifests : Atomic!Restore(manifest)
<1>1. pc = "writing" /\ journal' = [mem EXCEPT !.phase = NextPhase(mem.phase)]
      /\ UNCHANGED <<target, last, torn>>
  BY DEF ReplaceJournal, tree, failures
<1>2. About(mem) /\ last.manifest \in Manifests /\ mem.phase = journal.phase
      /\ mem.phase # "committed" /\ (mem.phase = "none" => target = mem.original)
  BY <1>1 DEF MemorySound, Holding, Restored
<1>3. mem \in JournalType /\ mem.phase \in (Phases \cup {"none"}) \ {"committed"}
  BY <1>2 DEF TypeInv, TypeOK, JournalType
<1>4. /\ journal'.phase = NextPhase(mem.phase)
      /\ journal'.manifest = last.manifest /\ journal'.original = last.original
  BY <1>1, <1>2, <1>3 DEF JournalType, About
<1>5. /\ NextPhase(mem.phase) # "none"
      /\ NextPhase(mem.phase) = "committed" => mem.phase = "target_verified"
  BY <1>3, PhaseOrder DEF Phases
<1>6. CASE torn
  BY <1>1, <1>6 DEF Generation
<1>7. CASE ~torn
  <2>1. Generation = last.original
    <3>1. CASE mem.phase = "none"
      BY <1>2, <1>7, <3>1 DEF Generation, JournalExists, About
    <3>2. CASE mem.phase # "none"
      BY <1>2, <1>7, <3>2 DEF Generation, JournalExists, JournalSound, About
    <3> QED
      BY <3>1, <3>2
  <2>2. CASE NextPhase(mem.phase) # "committed"
    BY <1>1, <1>4, <1>5, <1>7, <2>1, <2>2 DEF Generation, JournalExists
  <2>3. CASE NextPhase(mem.phase) = "committed"
    <3>1. Generation' = last.manifest
      BY <1>1, <1>4, <1>7, <2>3 DEF Generation, JournalExists
    <3>2. last.original \in Inventory
      BY DEF TypeInv, TypeOK, JournalType
    <3>3. Generation # Undecided
      BY <2>1, <3>2, VolumeAssumption
    <3> QED
      BY <1>2, <3>1, <3>3 DEF Atomic!Restore
  <2> QED
    BY <2>2, <2>3
<1> QED
  BY <1>6, <1>7

\* When the journal goes, the volume is what it stood for.
LEMMA UnlinkKeeps ==
    ASSUME TypeInv, JournalSound, MemorySound, UnlinkJournal
    PROVE  Generation' = Generation
<1>1. pc = "unlinking" /\ journal' = NoJournal /\ UNCHANGED <<target, torn>>
  BY DEF UnlinkJournal, failures
<1>2. ~JournalExists'
  BY <1>1 DEF JournalExists, NoJournal, Journal
<1>3. About(mem) /\ JournalExists /\ About(journal)
  BY <1>1 DEF MemorySound, Holding, JournalSound
<1>4. ~torn => target = IF journal.phase = "committed" THEN journal.manifest
                        ELSE journal.original
  BY <1>1, <1>3 DEF MemorySound, About, Restored
<1> QED
  BY <1>1, <1>2, <1>3, <1>4 DEF Generation

\* Every step of the command restores atomically, leaves the generation, or fails
\* behind the rename of its committed journal.
LEMMA NextAtomic ==
    ASSUME RestoreInv, RestoreInv', [Next]_vars
    PROVE  [Atomic!Next]_Generation
<1>1. TypeInv /\ JournalSound /\ MemorySound /\ torn \in BOOLEAN /\ torn' \in BOOLEAN
  BY DEF RestoreInv, TypeInv, TypeOK
<1>2. ASSUME Generation' = Generation PROVE [Atomic!Next]_Generation
  BY <1>2
<1>3. ASSUME Generation' = Undecided PROVE [Atomic!Next]_Generation
  BY <1>3 DEF Atomic!Next, Atomic!CommitFails
<1>4. CASE UNCHANGED vars
  <2>1. UNCHANGED <<journal, torn, target>>
    BY <1>4 DEF vars, volume, failures
  <2> QED
    BY <1>2, <2>1, SameGeneration
<1>5. CASE ReplaceJournal
  BY <1>1, <1>2, <1>5, RenameIsRestore DEF Atomic!Next
<1>6. CASE UnlinkJournal
  BY <1>1, <1>2, <1>6, UnlinkKeeps
<1>7. CASE PreparationFails \/ TransactionFails \/ EvidenceRetained
  <2>1. UNCHANGED <<journal, target>>
    BY <1>7 DEF PreparationFails, TransactionFails, EvidenceRetained, volume
  <2>2. torn => torn'
    BY <1>7 DEF PreparationFails, TransactionFails, EvidenceRetained, Raise
  <2> QED
    BY <1>1, <1>2, <1>3, <2>1, <2>2, FaultyGeneration
<1>8. CASE \/ \E manifest \in Manifests : Start(manifest)
           \/ Recover \/ Rollback \/ LeaveNamespace \/ RemoveTransaction
           \/ \E p \in Paths : RemoveArtifact(p)
           \/ NamespaceOccupied \/ CreateNamespace \/ CreateTransaction \/ StageArtifact
           \/ CaptureOriginal \/ OpenTemporary \/ SyncJournal
           \/ QuarantineArtifact \/ InstallParent \/ InstallArtifact \/ SkipArtifact
           \/ VerifyTarget \/ CleanupCommitted \/ CleanupRefused
           \/ Crash
  <2>1. Generation' = Generation
    BY <1>1, <1>8, SteadySteps
  <2> QED
    BY <1>2, <2>1
<1> QED
  BY <1>4, <1>5, <1>6, <1>7, <1>8 DEF Next, Step, Execute, RemoveEvidence

\* The transactional restore implements the atomic one: whatever kills and failing calls
\* come in between, the volume stands for the old generation until the committed journal
\* replaces the earlier one, and for a verified backup's from that rename on.
THEOREM RestoreRefined == Spec => RestoreIsAtomic
<1>1. Init => Atomic!Init
  <2> SUFFICES ASSUME Init PROVE Generation \in Inventory
    BY DEF Atomic!Init
  <2>1. Generation = target
    BY DEF Init, Generation, JournalExists, NoJournal, Journal
  <2> QED
    BY <2>1 DEF Init
<1>2. RestoreInv /\ RestoreInv' /\ [Next]_vars => [Atomic!Next]_Generation
  BY NextAtomic
<1> QED
  BY <1>1, <1>2, SpecInv, PTL DEF Spec, RestoreIsAtomic, Atomic!Spec

=============================================================================
