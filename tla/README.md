# A TLA+ verification of Atlas OS

Atlas OS is a control plane for local infrastructure. Atlas **Core** owns the
durable state and the only path to a provider mutation; the Atlas **Agent** runs
approval-gated workflows; the **execution worker** runs repository changes in
isolation; **Mission Control** is the operator's browser surface; a set of scripts
backs up and restores Core's data volume. What makes the system hard is not any
one algorithm: it is that each of these parts must perform an effect at most once
while requests are repeated, answers are lost, processes are killed and calls fail
half-way.

The project models every part that owns such an effect, checks the models with TLC on
small instances, and proves with TLAPS, for every value of the constants, every invariant
and every action property that a run checks and that two of the parts implement the
abstract specification of what they promise. Liveness is model-checked.

| Module | What it is | Instances for TLC |
| --- | --- | --- |
| `OperationalDispatch` | Core's dispatch of an approved reboot: ledger, dispatch coroutine, verification, restart, Proxmox handler and verifier | `MCOperationalDispatch` |
| `OperationalLifecycle` | what the dispatch promises a client | (refined by `OperationalDispatch`) |
| `OperationalExecution` | the Agent's resumes of an operational workflow, on top of `OperationalLifecycle` | `MCOperationalExecution` |
| `RestoreTransaction` | the journalled restore of the data volume and its recovery | `MCRestoreTransaction` |
| `AtomicRestore` | what a restore promises: one generation, replaced in one step | (refined by `RestoreTransaction`) |
| `ExecutionWorker` | the worker's ledger, POST handler and startup | `MCCandidateExecution` |
| `CandidateExecution` | the Agent's implementation stage composed with the worker: submission, reconciliation, patch applier, patch journal | `MCCandidateExecution` |
| `WorkflowStages` | implementation, verification and commit of a workflow, approvals and the aggregate snapshot | `MCWorkflowStages` |
| `CandidatePlanning` | planning sessions, their workflow shells and exact requests | `MCCandidatePlanning` |
| `PlanningSessions` | `CandidatePlanning` under names of its own | `MCCandidatePlanning` |
| `ProviderIntents` | the Provider Intent store, its mutations, import, migration and activation | `MCProviderIntents` |
| `IntentStore` | `ProviderIntents` under names of its own | `MCProviderIntents` |
| `EvidenceChain` | the append-only stores of the installation chain, v0.35 to v0.41 | `MCInstallationEvidence` |
| `OneShotBoundary` | the reserve-then-record boundaries, v0.42 on | `MCInstallationEvidence` |
| `LiveDelivery` | one handoff POSTed from Core to the Agent: reservation, POST, receipts, admission | `MCLiveDelivery` |
| `InstallationEvidence` | `EvidenceChain` and `OneShotBoundary` in one specification, a behaviour of one of them | `MCInstallationEvidence` |
| `DiscoveryCache` | the cache of dynamic Discovery evidence: publication, pruning, refresh, readers, shutdown | `MCDiscoveryCache` |

Theorems are in modules whose names end in `Proofs`. Two of these are about two components
each, and for them one of the two is instantiated with its variables renamed
(`PlanningSessions`, `IntentStore`), as is `EvidenceChain` in `InstallationEvidence`. The run
checks the renamed specification and evaluates its assumption, so that model checking and
proof are about the same formulas.

| Module | Theorem | Property |
| --- | --- | --- |
| `OperationalDispatchProofs` | `TypeCorrect`, `DispatchSafe`, `TerminalIsFinal` | `AtMostOneReboot`, `NeverReopened` |
| | `LedgerSafety`, `AnswersSafety`, `LifecycleRefined` | `LedgerSound`, `AnswersAreTrue`, `ImplementsLifecycle` |
| `OperationalExecutionProofs` | `AgentSafety` | `FollowsCore` |
| `RestoreTransactionProofs` | `VolumeSafety`, `OutcomeSafety`, `RestoreRefined` | `VolumeSound`, `OutcomeExact`, `RestoreIsAtomic` |
| `CandidateProofs` | `WorkerSafety`, `WorkerAloneSafety`, `ResultsFinal` | `AtMostOneRun`, `LedgerInv`, `TerminalImmutable` |
| | `SubmissionSafety`, `OutcomeSafety`, `PatchSafety` | `SubmittedAtMostOnce`, `OutcomeIsTrue`, `PatchNotLost` |
| | `NameSafety`, `ConversionSafety`, `LineageSafety` | `WorkflowIsNamed`, `ConversionSound`, `LineageIsChain` |
| `WorkflowStagesProofs` | `EffectSafety`, `CommitSafety`, `RecoverySafety` | `EffectSound`, `CommitIsTrue`, `RecoverySound` |
| `InstallationEvidenceProofs` | `ChainSafety`, `AnswersSafety` | `ChainSound`, `AnswersSound` |
| | `BoundarySafety`, `DequeueSafety` | `BoundarySound`, `RetryNeverDequeues` |
| | `OrphansStay`, `GuardHolds` | `OrphanStaysOrphan`, `RecordedWhileValid` |
| `LiveDeliveryProofs` | `SentSafety`, `DeliverySafety`, `OutcomesFinal` | `SentAtMostOnce`, `DeliverySound`, `OutcomeFinal` |
| `DiscoveryAndIntentsProofs` | `CacheSafety`, `NewestStaysSafe`, `AnswersSafe` | `CacheSound`, `NewestStays`, `AnswersSound` |
| | `IntentStoreSafety`, `IntentRequestsSafety` | `StoreSound`, `RequestsHonoured` |

How they fit together. A candidate is planned (`CandidatePlanning`), which ends in
an exact request behind an implementation approval. A repository request goes through
`CandidateExecution`, which extends `ExecutionWorker`, and ends at the verification
approval, where a candidate starts in `WorkflowStages`. An operational request goes
through `OperationalExecution`, which extends `OperationalLifecycle`;
`OperationalDispatch` is proved to implement that specification, so that what is
proved of the Agent holds over rows and answers that the detailed Core may show.
`ProviderIntents` and the two modules of the installation chain are parts of Core on their
own, `LiveDelivery` has both Core's side and the Agent's; `DiscoveryCache` is a cache
directory that several Core processes may share; `RestoreTransaction` runs while Core is
down.

## Inventory

For each part: its state, its operations, how it interacts, what is hard, what
makes it correct. `PROJECT.json` lists the sources and, at their lines, the hazards.

1. **Core operational dispatch** (`services/atlas-core/app/operational_dispatch`,
   `providers/proxmox_operational.py`). State: SQLite tables of rows, transitions
   and audit events; in memory, a coroutine per POST and a task per verification.
   Operations: claim, revalidate, cross the barrier, call the handler, store the
   result, verify, reconcile at startup. The Agent POSTs to it and may repeat a
   POST; it calls Proxmox. Hard: coroutines interleave at awaits, the POST to the
   provider is ambiguous, a restart comes anywhere. Correct: one reboot per request,
   a durable barrier before it, no result reopened, every answer durable, every
   started verification concluded.
2. **Transactional restore and startup interlock**
   (`scripts/atlas_data_restore_transaction.py`, `core/restore_interlock.py`). State:
   the managed files, a staging area, a quarantine and a journal on the volume.
   Operations: recover, stage, quarantine, install, verify, commit, roll back, clean
   up. Core refuses to start while evidence of a transaction is there. Hard: a kill
   between any two renames, also inside recovery. Correct: Core only starts on one
   complete generation; nothing is lost before the commit; a rollback is exact; a
   commit is final.
3. **Execution worker and the Agent's use of it** (`atlas-execution-worker`,
   `atlas-agent/app/execution`, `persistence/patch_journal.py`). State: the worker's
   ledger (claimed, executing, result), the Agent's single patch journal and the
   repository. Hard: a lost answer after the one-way `executing` marker; the Agent
   killed between applying a patch and recording it; two resumes of one workflow at
   once; one journal for all workflows. Correct: a request runs at most once, is
   submitted at most once, and an interrupted patch is found again.
4. **Agent operational execution** (`workflow/operational_execution.py`,
   `core_client/client.py`). The client of part 1. State: the workflow's execution
   reference. Hard: the session is read before an await and written after it; an
   expired approval stops reconciliation. Correct: the reference never claims more
   than Core's ledger says and eventually agrees with it.
5. **Agent workflow engine, approvals and snapshot persistence**
   (`workflow/engine.py`, `persistence/snapshot.py`). State: one aggregate of sessions
   and approvals, in memory and in a file. Hard: two resumes of one workflow, a write
   that fails after the file was replaced, recovery of claimed stages at restart, others
   at work in the repository. Correct: no stage runs without its own approval, none
   twice, and the file always loads.
6. **Candidate planning** (`candidate_planning/`, its routes). State: planning sessions
   with links to predecessor, successor and workflow, in the same aggregate. Hard: every
   operation awaits Core between its read and its write. Correct: one workflow per
   session, an exact request for the reviewed plan, one chain of sessions.
7. **Provider intents** (`provider_intents/`). Versioned records per guest incarnation,
   an active table, operations by request id, a policy file, an older schema. Hard: the
   live guest is verified before the write; policy edits race the import and the start.
   Correct: every write leaves a store that validates, replays answer what the first
   request answered, no expectation passes to another incarnation.
8. **Installation evidence chain.** About thirty packages of two shapes: an idempotent
   create over a quota-bounded append-only table; and one-shot boundaries that reserve
   in one transaction and record in the next. Hard: concurrent creates between the
   look-up of a key and the append, expiry in between, a crash between the two
   transactions. Correct: one record per fenced parent, none outlives an ancestor, a
   reservation left behind is never completed. No production composition enables these
   boundaries.
9. **Live delivery** (Core `live_delivery_send_boundary`,
   `end_to_end_inert_delivery_receipt`; Agent `real_agent_intake_boundary`,
   `agent_live_intake_admission`). State: Core's attempts and receipts, the Agent's keys
   and admissions. Hard: the POST or its answer is lost or late, a repeat arrives while
   the first send waits, Core dies after the Agent admitted. Correct: a delivery is POSTed
   at most once and admitted at most once, and what one side records of it is true of
   the other. Also not enabled in production.
10. **Dynamic Discovery cache** (`discovery/dynamic_cache.py`, `dynamic_refresh.py`). State:
   directories of generations, `current.json`, a lock file; in each process one task per
   source. Operations: publish, prune, read, refresh, join, close. Hard: any file operation
   may fail, a power loss keeps some and drops others, processes that fetched in one order
   publish in another, shutdown and cancelled callers meet a task half-way. Correct: the
   pointer names a complete generation whatever survives, newer evidence is never replaced
   by older, an answer is true of the cache.
11. **Not modelled**: see the end.

## The runs

| Run | Module | Distinct states | What it shows |
| --- | --- | --- | --- |
| `dispatch_safety` | `MCOperationalDispatch` | 0.62M | one reboot per request, a sound ledger, true answers; Core implements `OperationalLifecycle` |
| `dispatch_liveness` | `MCOperationalDispatch` | 0.18M | no row stays dispatching; a captured operation gets its verification result |
| `agent_operational_safety` | `MCOperationalExecution` | 0.35M | the Agent never shows more than Core has decided |
| `agent_operational_liveness` | `MCOperationalExecution` | 14k | an operator who keeps resuming learns how Core's lifecycle ended |
| `restore` | `MCRestoreTransaction` | 1.7M | Core only starts on one generation; the journal protocol implements an atomic replacement; an intact interruption resolves |
| `candidate` | `MCCandidateExecution` | 1.5M | a command starts at most once, behind a marker that survives; a request is submitted at most once; only patches of completed commands enter the checkout, and one recorded as applied is in it |
| `stages` | `MCWorkflowStages` | 1.4M | each side effect starts at most once, approved and claimed; the snapshot always loads |
| `planning` | `MCCandidatePlanning` | 1.7M | one workflow per session, requests for the reviewed plan, one chain of sessions |
| `intents` | `MCProviderIntents` | 0.35M | every write leaves a valid store; answers are stored; no expectation passes to another incarnation |
| `evidence` | `MCInstallationEvidence` | 0.75M | lineage, fences, quotas and answers of each pair of stages of the chain; seventeen boundaries: no reservation twice, none completed later, no retry dequeues |
| `delivery` | `MCLiveDelivery` | 0.20M | a delivery is POSTed at most once; the records of Core and the Agent agree and are final |
| `discovery` | `MCDiscoveryCache` | 0.85M | the pointer names a complete generation through kills and power losses, newer evidence stays, answers are true |

Several modules are run over a set of *settings*: `Init` picks one and it never
changes. That gives each question the bounds it needs without their product. All runs
check for deadlock except `planning`, whose bound on begun operations is used up in the
end.

A property is often a named conjunction (`LedgerSound`, `VolumeSound`, ...). The
conjuncts are definitions of their own with a comment each, and the sections below name
them.

## Operational dispatch

**State.** `ledger`, `log` and `audit` are the three tables. `callers[c]` is the
coroutine of the POST on connection `c`: its `pc` is the place between two ledger
transactions or at an await, `res` and `to` the result and the state it is about to
store. `tasks` are the verification tasks, named by what scheduled them. `loop` is the
coroutine that holds the event loop: others run only while it is at an await. `core`,
`gate` and `reconciled` describe the process: down, booting or up, and with which
configuration. `posts`, `replies` and `returned` are history. `inflight`, `reboots`,
`ptask`, `guest` and `replaced` are the provider's side and external.

**Actions.** One per ledger transaction and per continuation after an await. A POST:
`Deliver`, `ClaimNew`/`ClaimAgain`/`ClaimConflict`, `Refuse`, `AwaitResolver`, then
`Resolved...`, `MarkRevalidated`, `MarkDispatching` (the barrier) or `LoseBarrier`,
`AwaitHandler`, `HandlerRefuses` or `SendReboot`, `RebootAccepted` or `RebootUnknown`,
`AuditResult`, `PersistDispatchResult` or `ResultImmutable`, `Answer`, which schedules
the verification. A task: `BeginVerification`, `AuditBegin`, the polling loop (`Poll`,
`Observe...`, `Query...`, `DeadlinePasses`), `PersistVerificationResult`,
`AuditVerification`. `Crash`, `ReconcileStartup` and `ScheduleStartupRecovery` are the
process's life. `DispatchAborts` and `TaskAborts` are database errors.

**Abstraction.** A digest is a value, a result is its status and whether it has a UPID,
an audit trail is a set. A provider read is one step with the continuation that uses its
answer; it may wrongly find a replacement, as the code reports one for several errors. A
POST reaches the provider at any time after it was sent, or never. A connection delivers
its next POST when its verification task is idle: a bound on tasks. That a request is
expired is a flag that `Expire` sets.

**Properties.** `TypeOK`, `AtMostOneReboot`, the action property `NeverReopened`,
`LedgerSound` (`RowsDecode`, `BarrierPrecedesReboot`, `TransitionsValid`,
`SingleVerifier`, `AuditNeverAhead`), `AnswersAreTrue` (`AnswersAreDurable`,
`FailureMeansNoReboot`, `VerifiedMeansTaskOk`) and the refinement `ImplementsLifecycle`;
live: `DispatchDecided`, `VerificationConcludes`.

**Bounds.** One request, two connections, two deliveries. `dispatch_safety` has two
digests (so that a conflict happens), one crash and one database error, which is enough
for two coroutines in every pair of places, with a restart anywhere; its two connections
are symmetric. A third delivery adds another duplicate, which the theorems cover.

**Refinement.** `OperationalLifecycle` has the row's state, the stored result's status
and the answers given. `OperationalDispatch` maps the ledger and the answers to it: an
unavailable target is answered as a failure, a conflict by an HTTP error.

**Fairness.** Weak, per coroutine (`Proceed`, `Verify`): the event loop runs what can
run, and every awaited provider call has a timeout. On `ReconcileStartup` and
`ScheduleStartupRecovery`: the service manager restarts Core. On `Expire`: time passes.
None on deliveries, on the provider or on errors. Liveness is checked without database
errors: after one, the code leaves the row to the next restart, which nothing promises.

**Proofs.** `OperationalDispatchProofs`, for any sets and bounds that satisfy
`ActorsAssumption` and `BoundsAssumption`:

- `TypeCorrect`: `Spec => [](TypeOK /\ RowsDecode)`. `RowsDecode` is not inductive: a row
  gets its result from a coroutine's local state. `TypeInv` therefore also says that a
  busy connection or task works on a request and, where it is about to store something,
  carries a result worth storing.
- `DispatchSafe`: `Spec => [](AtMostOneReboot /\ BarrierPrecedesReboot /\
  TransitionsValid)`. That a POST was sent at most once cannot be read off the ledger,
  which does not count POSTs. `BarrierInv` adds who may still send: a row before the
  barrier was never crossed nor sent (`UncrossedBefore`); a connection between the
  barrier and the POST has sent nothing (`HoldersUnsent`) and is the only one
  (`HolderUnique`); a row is crossed at most once (`CrossedOnce`) and sent at most once
  and only if crossed (`SentOnce`). Every step is then one of three: `MarkDispatching`
  creates the one holder, `SendReboot` spends it, and every other step is *Quiet*: it
  moves rows along allowed transitions, none of which enters `dispatching`.
- `TerminalIsFinal`: `Spec => NeverReopened`.
- `LedgerSafety`: `Spec => []LedgerSound`. `FactsInv` adds to the two invariants above
  which rows have a dispatch result (`DecidedRows`), that what a connection carries to the
  ledger fits where it is (`CarriedResults`), and that POSTs in flight and reboots are
  among those sent (`ProviderCounts`). `SingleVerifier` needs to know what a running task
  owns: the row it verifies, or the verdict it has just written (`TasksOwn`); that a
  recovery task bears its request's name (`TaskNames`) and begins before any connection
  works (`RecoveryFirst`); and that nothing runs before startup is over (`NothingRuns`).
  `AuditNeverAhead` is inductive together with these.
- `AnswersSafety`: `Spec => []AnswersAreTrue`. A task that knows of success has seen the
  provider's task end well (`SuccessSeen`). That a failure means no reboot holds of a
  request that was POSTed once only, so `FirstOnly` says where that one connection is:
  before its POST, or with a result that comes from before it.
- `LifecycleRefined`: `Spec => ImplementsLifecycle`, every step to a step of the lifecycle
  or to a stutter. The one thing that `DispatchInv` does not give is what a connection is
  about to answer: the stored result, or an unknown outcome while its row is being
  dispatched. It holds of a connection that answers because this one has the event loop
  since it read the row (`AnswersRun`, `Told`).

## The Agent's operational execution

**State.** `session` and `ref` are the workflow's state and its
`operational_execution_reference`, `policy` is whether its intent is enabled, `calls`
are the resume coroutines and `posts` the POST each has under way, which outlives a call
that gave up. `state`, `result` and `answers` are Core's, from `OperationalLifecycle`.

**Actions.** `ResumeBlocked`, `ResumeDispatch` and `ResumeReconcile` are the part of
`resume` up to its one await; `DispatchAnswered`, `DispatchFails`, `StatusAnswered` and
`StatusFails` the part after it, which writes the whole session that was read before.
`CoreAccepts` ... `CoreRejects` are what Core does with the POST in the meantime, in the
steps its lifecycle allows; `PostLost`, `AgentRestarts`, `CoreRestarts` and `Expire` are
the faults. The field-by-field comparison of approval and request is taken to have
succeeded.

**Properties.** `FollowsCore` (`TypeOK`, `NeverAheadOfCore`, `DispatchStatusTold`);
live: `OutcomeLearned`.

**Bounds.** One request and two coroutines: a stale write-back needs two. The number of
resumes, restarts and lost messages is unbounded. The liveness run has one coroutine,
which resumes for ever, and no expiry (`Expiry = FALSE`), see *Disagreements*.

**Proofs.** `OperationalExecutionProofs`: `AgentSafety` is `Spec => []FollowsCore` for any
requests and any number of coroutines, from `CallsAssumption`. Every write-back is stale,
so the invariant is about what a coroutine carries over its await: the dispatch status it
read before and the answer it was given are Core's and stay so (`CallsTrue`), because what
Core has decided or told stays (`Keeps`, one lemma per step of the lifecycle, for which a
row has a result exactly from its decision on, `RowsDecided`), and an answer reaches the
coroutine whose request it is about (`PostsBelong`).

**Fairness.** The operator keeps resuming (weak); a call ends by its timeout and Core
works on what it has accepted (weak); a call that is retried for ever is answered in time
at last (strong, on what Core does with a POST that is waited for, and on the answer).

## Restore transaction

**State.** `target` and `dirs` are the managed files and their two parent directories;
`namespace`, `txn`, `stage`, `rollback`, `tmp` and `journal` are what
`.atlas-restore` holds. `pc`, `i`, `mem`, `wanted` and `recovering` are the command:
`scripts/atlas-data-restore` first recovers an earlier transaction, then runs its own.
`mem` is the journal that the process holds, which differs from the one on disk between
the rename and the return of `_write_journal`. `last` and `torn` are history: the last
transaction, and whether the directory fsync failed behind the rename of its committed
journal.

**Actions.** One per call that changes the volume, in the code's order: `StageArtifact`,
`CaptureOriginal`, the journal protocol (`OpenTemporary`, `ReplaceJournal`,
`SyncJournal`), `QuarantineArtifact`, `InstallParent`, `InstallArtifact`, `VerifyTarget`,
`CleanupCommitted`, the rollback (`RollbackUnlink`, `RollbackParent`,
`RollbackReplace`, `RollbackKeep`, `RollbackRemove`, `RestoreDirectory`,
`CheckRestored`) and the removal of the evidence. A call that raises is
`PreparationFails`, `TransactionFails` or `EvidenceRetained`, by the handler that catches
it; a kill is `Crash`, at any step.

**Abstraction.** A file's content stands for its bytes, mode and owner; a directory is
absent, private or other. Every call is fsynced before the next, so a power loss is a
kill before a call that was not synced. A verification that fails for a reason outside
the model (SQLite integrity, application validation) is a failing call; the checks that
can fail inside it are guards. The volume belongs to the command: the wrapper refuses to
run while a container is attached. The transaction's own subdirectories are part of
`txn`, and a partly copied file counts as not staged: before the first journal both are
evidence that recovery refuses unread.

**Properties.** `VolumeSound` (`TypeOK`, `CleanMeansCoherent`, `NothingLost`),
`OutcomeExact` (`RollbackExact`, `CommitIsDurable`), the refinement `RestoreIsAtomic`;
live: `InterruptedResolves`.

**Bounds.** Three managed paths: a database in the root that a backup may lack, a file in
`config` and one in `secrets`; every initial volume over two contents and absence. Two
kills, so that a recovery is interrupted as well, and one failing call anywhere. The
number of commands is unbounded.

**Refinement.** `AtomicRestore` has one variable, the generation. It is mapped to what
recovery would leave: the files themselves without a journal, the journal's manifest if
it says committed, the journal's original state otherwise. The rename of the committed
journal is then the one step that changes it. A failure behind that rename (`torn`) maps
to an undecided generation, the one thing the abstract specification allows besides.

**Fairness.** Weak on the command's steps and on starting it: the operator runs it again,
as the interlock's message says. `InterruptedResolves` asks only for evidence that the
disagreements below do not concern (journal and directory there, no temporary file).

**Proofs.** `RestoreTransactionProofs`, from `VolumeAssumption` and `FailureAssumption`, for
any managed files and directories, backups, kills and failing calls:
`VolumeSafety` (`Spec => []VolumeSound`), `OutcomeSafety` (`Spec => []OutcomeExact`) and
`RestoreRefined` (`Spec => RestoreIsAtomic`). A kill throws away what the process knows, so
the invariant is in two parts. `JournalSound` is what a kill leaves: a durable journal is
about the last transaction and only original files are in quarantine; without a journal
the quarantine is empty and the files are one generation; and the namespace is there as
long as there is evidence. `MemorySound` says, for each place of the command, what it
knows besides: the journal in memory is that of the transaction, its phase is the durable
one's except between rename and return, and the target is the manifest before the rename
to `committed` and the original state before a rolled-back journal is unlinked.
`OutcomeSound` is that an outcome is only reported at the end. The refinement follows step
by step: `SteadySteps` move files only behind a journal, `RenameIsRestore` is the one step
that changes the generation, `UnlinkKeeps` that the journal is given up where the files
have become what it stands for. `InterruptedResolves` is model-checked only.

## Execution worker and candidate execution

**`ExecutionWorker`.** `rows` is the ledger; `handler`, `handled` and `outcome` are the
POST being handled: the handler has no await between claim and answer, so there is one.
`ClaimNew`, `ClaimAgain`, `ClaimConflict`, `AnswerStored`, `RefuseBeforeClaim`,
`MarkExecuting`, `RunCommand`, `StartedThenRaised`, `PersistResult`, `PersistDisabled`
are the handler, `WorkerCrash` and `WorkerStart` the process with its reconciliation.
The workspace and the sandboxed command are one step. Checked with two request ids, two
digests and any number of POSTs, crashes and lost messages, in the same run as the Agent
(its setting without a workflow). Properties: `AtMostOneRun`,
`TerminalImmutable`, `LedgerInv` (`WorkerTypeOK`, `RunIsRecorded`, `RowsDecode`,
`SuccessWasRun`).

**`CandidateExecution`** extends it with the Agent: `sessions` (the stored snapshot),
`journal` (the one patch journal), `tree` (whose patches are in the checkout), `diskOk`
and `threads`, the resumes. A resume is the code's sequence: read the journal, validate,
claim, record the request, submit and wait, or look up; store a failure, or write the
journal, inspect, check, apply, check the scope, checkpoint, clear the journal, prepare
the next approval. The checks of the applied patch (`CheckScope`: its scope, then
`git diff --check`) look at the whole checkout, so they may fail whatever this workflow
did; the patch is then reversed, or stays if git cannot reverse it. A checkpoint may fail,
and so may the removal of the journal. `HandleError` and `BlockClaimed` are the handlers around it,
`AgentRestart` recovers the snapshot, `DiskFault` makes the state directory refuse
writes. One mutation of the sessions is atomic (a lock, and the file before memory) and
so is one git command. Two threads; one workflow with every kind of fault, or two on the
shared checkout with restarts of the Agent. Properties: `SubmittedAtMostOnce`,
`OutcomeIsTrue` (`TypeOK`, `SubmittedIsRecorded`, `AppliedWasCompleted`,
`FailureIsTrue`) and `PatchNotLost` (`WriteAhead`, `DurablyApplied`). `WriteAhead` is about a
workflow that has the journal to itself. `DurablyApplied`, that a patch recorded as applied is
in the checkout, is about any number of them, with one exception: a recovery, or a second
application, asks git whether the patch is in already, and may ask while the thread that
applied it has not finished its checks; it then records a patch that this thread still
reverses. That is what the code does, with one workflow too; the history variable
`unchecked` holds the workflows to which it happened (`TakesForApplied`).

**Proofs.** `CandidateProofs`, for any workflows, digests, threads and settings that
satisfy `NoneAssumption`, `SettingsAssumption`, `DigestAssumption` and `OutcomeAssumption`
(the placeholder `None` is no outcome). `WorkerInv` makes the `executing` marker a barrier:
the handler's place tells the state of its row (`HandlerInv`) and a row that is not yet
executing was never started (`RowInv`); a terminal answer stays what its row says
(`ReplyInv`). It holds of the worker whatever its clients send (`WorkerAloneSafety`), and
the Agent's steps only post and take answers (`Environment`). `AgentInv` adds the Agent: a
session that waits has done nothing (`SessionInv`); each place of a resume implies what was
submitted and what the row says (`ThreadInv`); of the resumes of one workflow one may still
submit (`OneSubmitter`), which is what two concurrent resumes could break; and, while one
workflow is alone with the journal, its intent is in it until its checkpoint is stored
(`PatchInv`). `CheckoutInv` is about the shared checkout and needs nobody to be alone: of
the resumes of one workflow one at most is checking the patch, because git applies it only
where it is not in; the patch is there while that one checks, since no other resume
reverses it; and what is recorded as applied, or is about to be, is in the checkout with no
such check pending, unless it is `unchecked` (`CheckedInv`).

## Workflow stages

**State.** `mem` and `disk` are sessions and approvals in memory and in the snapshot
file; `call` the resumes; `tree` and `head` the repository, each path marked with who
changed it last; `runs` and `commits` history.

**Actions.** `Run`, `Decide`, `RequestApproval`; `Resume` and the steps of a resume
(`CheckApproval`, `Validate`, `Claim`, `Publish`, `Inspect`, `Execute`, `Collect`,
`Verify`, `Report`, `Review`, `Pause`, `CheckEvidence`, `CommitCheck`, `Commit`, `CheckResult`, `Complete`,
and `Refuse` and `Release`, which block). `Persist` and `PersistFails` are the two ways a
write ends, the second also with the file already replaced; `Publish`, `Report` and `Review` are
such writes outside any handler of the stage. `Inspect` may not even open the repository
(`CannotOpen`). `Restart` loads, recovers and
stores the file; `OutsideChange` is somebody else at work in the repository. What the
planner, the checks and the review look at is a choice of their verdict. A candidate
starts at its verification approval, where `CandidateExecution` ends.

**Properties.** `EffectSound` (`EffectAtMostOnce`, `EffectApproved`), `CommitIsTrue`
(`CompletedWasCommitted`, `CommitWithinPlan`), `RecoverySound` (`TypeOK`,
`NotReplayable`, `SnapshotLoads`, `ClaimHasOneOwner`). `ClaimHasOneOwner` says that a claim
never has two owners, and none only after a fault: a write of the state file that failed, or
a repository that could not be opened. The latter is the code's: `GitInspector` is made
after the claim and outside the `try` that would release it (`engine.py:473`), and the
session stays `executing` until the Agent is restarted.

**Bounds.** Two calls, two paths of which one is planned (so that a change out of scope
happens). One workflow, manual or candidate, with one failing write or unopened repository, one restart and two
outside changes; or two manual ones on one HEAD.

**Proofs.** `WorkflowStagesProofs`, for any workflows, calls, paths and settings, from
`StagesAssumption`, `SettingsAssumption` and `EvidenceAssumption`: `EffectSafety`,
`CommitSafety`, `RecoverySafety`. A restart loads the file and not the memory, and a write
that failed may have left either in it, so `StoreInv` says that both load and that the file
never lacks a claim or an approval that memory has (`Advance`). `RunsInv` is that a side
effect that was started is behind its claim. `CallInv` says what a call may rely on at each
step: an owner's claim is in memory, its approval is given, and up to the step of the
effect the effect was never started; `OwnersInv`, that a claim has one owner.

## Candidate planning

**State.** `core` and `head` are the candidate's fingerprint at Core and the repository's
HEAD; `sessions` and `workflows` the aggregate; `calls` the coroutines with what they
read before their await. An id is the tuple of what the code digests for it.
`overwritten` and `unattended` are history and name the cases a property excepts: sessions
written back over a newer version, and shells whose decision no handler is left to follow
up.

**Actions.** Every operation is two: up to its await (`CreateAsks`, `SuccessorAsks`,
`PlanAsks`, `ConvertAsks`, `TranslateAsks`, `ApproveShell`) and after it (`...Ends`).
The steps between awaits are atomic. A shell is decided by two routes. The one of the shell
(`ApproveShell`, `RejectShell`; a rejection stores the decision and nothing else) translates
after an approval, and blocks a workflow that it cannot translate. The one of all approvals
(`DecideShell`) stores the decision whatever has become of the workflow, and translates
nothing: the workflow waits for `POST /implementation`, and the route of the shell only
answers from then on that it was decided. `ApprovedIsSettled` is therefore about shells
approved by their own route. `Drift` changes candidate or HEAD, `WriteFails` and
`Restart` are the faults. Core's answer is any fingerprint the candidate had during the
await; any refusal of Core stands for "not the session's fingerprint". The text of a
plan and its checks are left out. An exact approval is always fresh, since approval and
request are saved in one aggregate: the code's branch that supersedes one is unreachable.

**Properties.** `WorkflowIsNamed` (with `TypeOK`), `LineageIsChain`, `ConversionSound`
(`RequestIsThePlan`, `ApprovedIsSettled`).

**Bounds.** Two calls, two fingerprints, two HEADs. Five settings: a repository candidate
and an operational one with one session through to its request (nine operations, a fault,
changes of candidate and HEAD); the same with a successor (eight operations); a lineage
of three (five operations).

**Proofs.** `CandidateProofs`, for any fingerprints, HEADs, calls and settings, from
`SettingsAssumption` (the bounds are numbers, and the value of an unset field is no id, plan
or fingerprint): `NameSafety`, `ConversionSafety`, `LineageSafety`. Every call writes back
something it read before its await, so the invariant is about what is still so by then.
Sessions and workflows are only added and a session never changes its predecessor
(`Grown`), so the session a call carries, however old, still points at sessions and
workflows that exist, and its successor still names it (`SessionLinked`, of the stored
session and of the one read alike). A plan is there exactly when it is ready, and a workflow
is of the plan its session still has (`SessionTyped`), which is what makes a request one for
the reviewed plan. A decision about a shell changes nothing but that shell (`DecisionStep`),
so it disturbs the invariant only where a shell is approved and no call is left to settle it. The lineage needs the lock: the one call that creates a successor finds
the predecessor's link as it read it (`Locked`). Planning and the creation of a successor
are what breaks these facts, by writing an older version back; `Named`, `Followed` and
`Locked` each carry the exception that `overwritten` records, and no other.

## Provider intents

**State.** `db` is the store (schema, records, active rows, operations), `policy` the
policy file, `loaded` what an import has read, `live` the incarnation of each guest,
`call` the requests being served, `told` and `asked` history.

**Actions.** `Verify`, `Observe` and `Write` are a mutation: the live guest, the active
record, the transaction. Within one Core process only `Verify` awaits; the split of the
other two covers a second process on the store. `List` and `Resolve` are a collection
pass; `put` and `supersede` the store's own operations; `UpdatePolicy`, `LoadImport`,
`import_legacy_policy`, `Migrate`, `Start` and `Stop` the way to activation; `Replace` is
the provider's. Timestamps are left out: a clock that is set back only makes a write fail.

**Properties.** `StoreSound` (`TypeOK`, `StoreValidates`, `SupersededIsFinal`,
`ActivatedIsImported`), `RequestsHonoured` (`AnswerIsStored`, `ConfiguredWasAsked`).

**Bounds.** One guest, two incarnations, two expectations. Three settings: two mutations
together while the guest is replaced; put and supersede with three shared request ids
beside one mutation; two policy edits, import, migration and a restart.

**Proofs.** `DiscoveryAndIntentsProofs`, for any guests, incarnations, policies, request ids,
calls and settings, from `IntentsAssumption` (the absent and the unknown incarnation are no
fingerprints, a policy is about known guests, ids of different kinds differ):
`IntentStoreSafety`, `IntentRequestsSafety`. That a store validates is not inductive. What a
write relies on is `Sound(db)`: one row per version, finite histories, audit events only
for rows there are (`EvidenceSound`), active rows exactly for active records
(`ActiveSound`), one operation per id, each with the record it made (`OperationsSound`).
`HistoryValid` counts, so that a
write keeps it is an argument about cardinalities: a new version adds one row and one event
to one history (`Appends`, `Accounted`). That a superseded series ends is
`OnlyActiveContinues`. An import is only found complete for entries whose ids are on record
with their values: no other request id is equal to one of those (`NotSource`, `SourcesKept`).
An answer stays stored because operations and requests are for ever (`Grew`), and an
expectation is its incarnation's because whatever is stored for one was asked for it
(`StoredWasAsked`), also when the guest was replaced between the check and the write.

## Installation chain

**`EvidenceChain`** is `create` of v0.35 to v0.41. What differs between the packages is a
record per stage: its parent stage, whether the subject is looked up, what the fence
contains and what append compares. `Begin` resolves the key, `Validate` takes the
server's second, reads the parent and builds the record with the smallest of the
validity windows, `Append` is the write transaction, `Fail` and `Crash` end a call, `Tick`
is the clock. A fingerprint comparison is a comparison of the fields it digests.
Properties: `ChainSound` (`TypeOK`, `LineageSound`, `OneChildPerParent`, `QuotaHolds`),
`AnswersSound` (`AnswerIsTheRecord`, `DuplicateReturnsOriginal`). Two calls, two keys, over
four pairs of successive stages (grant and admission, plan and stub, queue and intake,
intake and live), with a quota of one or two: a record whose parent was made in the same
behaviour and a full store both happen. The validity of 30 seconds is two ticks. A third
stage adds a grandparent, which the windows of the second already stand for.

**`OneShotBoundary`** is `create` of the seventeen boundaries from v0.42 on, tabulated in
`Protocol`: `Begin`, `Read`, `Reserve` (first transaction), `Effect` (the queue adapter,
v0.45 only), `Record` (second transaction). The status the evidence reader gives for a
parent is taken to be one per parent. Properties: `BoundarySound` (`TypeOK`,
`RecordFulfilsReservation`, `QuotaHolds`, `SuccessIsDurable`), `RetryNeverDequeues`, and
the action properties `OrphanStaysOrphan` and `RecordedWhileValid`. Two calls, two keys,
two parents.

Both are checked in one run: `InstallationEvidence` composes them, and a behaviour is of
the chain or of one boundary.

**Proofs.** `InstallationEvidenceProofs`. Of the boundaries, for every boundary of the table and any calls, keys,
predecessors, quota and expiry, from `BoundaryAssumption` (a quota for each boundary studied,
finitely many calls): `BoundarySafety`, `DequeueSafety`, `OrphansStay`, `GuardHolds`. That a
record fulfils its reservation needs `PastReservation`: a call behind the first transaction
is about something reserved, no later than it began. How often the adapter may be asked is
a matter of counting: `AskedOnce` adds to the requests made those calls that began before
the reservation and may still ask, and the sum never grows.

Of the append-only stores, for any part of the chain, references, quota, calls and keys, from
`PartsAssumption` (a part does not begin inside its own chain, and with v0.41 begins at least
two stages before it, because that stage reads two records back): `ChainSafety` and
`AnswersSafety`. The invariant is about one row and its parent, and about a call between its
check and its write: what either carries was recorded within the parent's window
(`Within`, from `Validated`: each stage looks at a window that ends with its parent's), for a
parent that is there (`Requested`). `LineageSound` follows from that for any number of
generations (`ClimbSound`). One child per parent and one row per key are the fences of
`Append`. That an id is left for every call is by counting (`FreshMint`), as is the quota
(`SumOfQuotas`). The duplicate of a recorded request is never a conflict because a row of the
same parent records the same request (`SameParent`, `SameSubject`), and a conflict that was
answered stays one: the row that caused it keeps the request out for good (`NewRowInv`).

## Live delivery

Core has two ways to deliver a handoff and the Agent two intakes that match them;
`setting.path` says which a behaviour is about. `coordinator` is v0.31's `send_once` with
the v0.27 intake, `composition` is v0.33's `compose_once` with the v0.32 intake. They share
the order (reserve for good, POST, record what came back) and differ in what a repeat is
told, where the quota is counted and which receipts are written.

A behaviour is about one path: the models do not mix them, and what is checked and proved
says nothing of a composition that used both on one attempt. Such a composition would
transmit twice: `compose_once` reserves in a table of its own and looks at no attempt or
receipt of v0.31, so after a `send_once` that sent it finds nothing that stops it. Neither path is wired into a production composition of Core.

**State.** `reservations`, `receipts` and `verified` are Core's three tables (attempts,
v0.31 receipts, v0.33 receipts), `agentKeys` and `admissions` the Agent's two. `calls` are
the threads in Core, with the place between two transactions; `requests` the POSTs on the
way or answered; `posted` counts the calls of `transmit_once`.

**Actions.** `Create` (the look-up before the reservation), `Reserve`, `Stored` (the second
look: answer, close a repeated attempt as ambiguous, or go on), `TransmitOnce`, `Receive`
or `Uncertain`, `AppendOutcome`, `CloseAfterFailure`; for v0.33 `RecordAdmitted` and
`AppendReceipt`. `Fail` is an error of a store or of an injected dependency.
The Agent handles a POST in one step: `Admit`, `ReplayAdmission`, `ReserveKeyOnly` (v0.32
keeps the key when its quota is full) or `RejectIntake`. `LoseRequest`, `DeliverTwice`,
`CoreCrash` and `Expire` are the faults. A subject stands for enablement, preparation and
intake request, whose ids and fingerprints are functions of each other; the v0.33 receipt
writer is a Protocol, and writes one receipt per attempt.

**Properties.** `SentAtMostOnce`; `DeliverySound` (`TypeOK`, `AdmittedOnce`,
`OutcomeIsTrue`); the action property `OutcomeFinal`. `OutcomeIsTrue` says of a rejection
that nothing was admitted only where the network does not repeat POSTs: with a repeat the
Agent may reject one copy, for a store error, and admit the other.

**Bounds.** Two calls, two deliveries, two keys: a repeat, another key for the same
delivery and another delivery under the same key all happen, concurrently too. A quota of
one on one side and two on the other makes either one run out. Crashes, losses and repeats
are not bounded.

**Proofs.** `LiveDeliveryProofs`, for any calls, subjects, keys and settings, from
`NoItemAssumption` and `DeliverySettingsAssumption`: `SentSafety`, `DeliverySafety`,
`OutcomesFinal`. `SenderInv` is the heart of the first: a call that may still POST holds the
reservation, nothing was POSTed for it, and no other call may. What Core records is about
the Agent, which it does not see: `Never` says that a spent POST can no longer be admitted,
which is true of a rejected one where the network repeats nothing, and `Truthful`,
`StoreInv`, `AgentInv` and `RequestInv` carry that and its counterpart, an admission, from
the POST on its way through the call into the stores.

## Discovery cache

**State.** `files` is what each generation's directory looks like (absent, partial,
complete), `current` the generation that `current.json` names; `disk` and `pointers` are
what either may be after a power loss, that is, every value since the last fsync of its
directory. `proc` is the life of a Core process, `task` its refresh tasks, `inflight` the
one that callers join, `call` what a caller waits for or was answered. The lock is not a
variable: a task between `stage` and `prune` holds it exclusively, a request between its
two reads holds it shared.

**Actions.** `Start` (`initialize` and the startup's refresh), `Refresh` (start or join),
`Fetched`; the publication in the code's order, `Decide`, `Stage`, `Rename`, `FlushGens`,
`Point`, `FlushPointer`, `Prune`, each of which may fail; `ReadBack` (`_fallback`, which
builds the answer from what the cache then holds); `Started`, `Abandon`, `Close`,
`Cancelled`, `Closed`; `ReadPointer` and `ReadGeneration` for requests, which read in
threads of their own. `Crash` kills one process, `PowerLoss` all of them and takes back
any choice of what was not flushed.

**Abstraction.** A generation is its time and its digest, which is how the code orders and
names it; one of a given identity has one content. Times are inputs and not a clock: two
processes stamp and evaluate with clocks that may be set. The three files of a generation
are written and flushed before its rename, so it is complete or, while it is removed,
partial. Incomplete directories and temporary pointers are read by nothing and are left
out. Between fetch and answer the code has no await, so no other coroutine of the process
runs (`LoopFree`).

**Properties.** `CacheSound` (`TypeOK`, `CurrentIsComplete`, `SingleFlight`) and the action
properties `NewestStays` and `AnswersSound`. Success that is reported without degraded
maintenance is durable; of a no-op that is only claimed for the process's own view, see
*Disagreements*.

**Bounds.** Three generations, of which two have one time (so that the digest decides) and
one is later; times 1 to 3 and an expiry of one, so that evidence is future, valid and
expired. Two processes; or one with a client that reads and refreshes; or one with two
clients and two generations, so that one joins what the other started. Crashes, power
losses and failures are not bounded.

**Proofs.** `DiscoveryAndIntentsProofs`, for any generations, processes, clients, expiry and
clocks, from `GensAssumption`: `CacheSafety`, `NewestStaysSafe`, `AnswersSafe`. The invariant
follows a publication: up to the replacement of the pointer the generation is later than
the current one, and when the pointer is about to name it its directory is complete now and
after every power loss (`BeforePoint`); while it prunes, the pointer is settled and the
generation that goes is neither the one it names nor the one before (`Pruning`); before it
answers, what a success is about was valid and nothing older has replaced it
(`BeforeAnswer`). `LockInv` makes a publication exclusive and `FlightInv` the joined task the
only one of its process.

## Disagreements

Where the repository says more than its code does, the property that a run checks is the
precise form that holds, and names its exception. TLC gave a counterexample to each of
the stronger statements below.

- **Dispatch.** A duplicate POST whose target check fails persists FAILED over a dispatch
  in the handler (`operational_dispatch/service.py:101`): the reboot then happens and its
  result is refused, against "any post-barrier failure is ambiguous" (`:140`). It may also
  answer "temporarily unavailable" after another one crossed the barrier, against "The
  durable claim remains pre-dispatch" (`:103`). The verifier keeps its last observation
  over failed reads (`proxmox_operational.py:173`), so a guest seen running before the
  shutdown verifies one that is down, against
  `docs/architecture/proxmox-qemu-operational-restart.md:67-68`.
- **Restore** (`scripts/atlas_data_restore_transaction.py`). A failing directory fsync after
  the rename to `committed` rolls back under a committed journal (`:842`). A recovery killed
  between removing the directory and unlinking the journal cannot be retried (`:791`,
  `:881`), against `test_interrupted_rollback_recovery_can_be_retried`. A kill while the
  journal's temporary file exists leaves it for ever (`:832`). After a kill while staging
  the command that `restore_interlock.py:10` recommends never resolves the evidence (`:508`).
- **Candidate execution** (`workflow/engine.py`). The "durable write-ahead journal" is one
  file, and a second workflow's intent replaces an interrupted first one's
  (`patch_journal.py:22`). A recovery that raises blocks the session; the reconciliation
  that follows never reads the journal again (`:1072`), against
  `docs/architecture/codex-execution-sandbox-hardening.md:148-149`. A patch checkpointed as
  applied by a recovery may be reversed by the thread that applied it, when its scope check or
  `git diff --check` fails afterwards (`patches.py:79,89`; the recovery's look at the checkout
  is `engine.py:1020`): the workflow then says `worker_patch_applied` of a checkout without
  the patch. Two checks of one blocked workflow
  may both consume its result (`:667`), against `:143-144` of the same document.
- **Agent operational execution** (`workflow/operational_execution.py`). An expired approval
  is refused before the stored reference is reconciled (`:145`), so an outcome reached near
  its expiry is never read, against "recovered conservatively" (`atlas-agent/README.md:42`).
  A request answered "temporarily unavailable" is never POSTed again, although it "may be
  retried safely" (Core `service.py:103`). A late failure of one resume writes
  `executing` over another's `completed` (`:276`), against "Completed stages do not replay".
- **Workflow stages.** A repository that cannot be opened after the claim leaves the claim
  with nobody, where every failure a line later blocks the workflow (`engine.py:473`). Content that changes between the evidence check and the commit is
  committed (`engine.py:1951`), against "Repository drift before commit blocks the workflow"
  (`DECISIONS.md:82-83`). When a candidate's commit result is refused, the resume raises
  TypeError and the declared answer `commit_result_mismatch` is never given
  (`engine.py:2124`). A write whose directory sync fails leaves the new aggregate in the file
  and the old one in memory (`snapshot.py:456`), against "durable rollback semantics" (`:360`).
- **Candidate planning.** `generate_plan` (`candidate_planning/service.py:667`) and the
  creation of a successor (`:246`) write back the session they read before their await. A
  session can so lose its workflow, and for an operational candidate two plans, two
  workflows and two exact requests come to exist for one session, against "Create or return"
  (`routes/candidate_planning.py`). A successor link can be lost the same way. A repository
  shell that was rejected can still be translated through the direct route, against "Approve
  ... before translation" (`routes/workflow.py:1961`). A restart between the stored shell
  approval and its translation leaves the workflow waiting, and the route of the shell only
  answers that it was already decided; so does an approval through
  `POST /approval/{id}/decision`, which is followed by no translation at all
  (`routes/approval.py:155`).
- **Provider intents.** A mutation verified against one incarnation and written after the
  guest was replaced and bound again supersedes the record of the incarnation that is there
  (`provider_intents/store.py:697`); the rebinding that would repair it is refused (`:701`).
- **Installation chain.** The stub's subject contains what the call itself mints
  (`worker_admission_stub/contract.py:810`), so a second key records a second stub of one
  plan, and a concurrent exact duplicate is answered conflict (`store.py:207`), against
  `docs/architecture/worker-admission-stub-v1.md:412,602`. `reserve_attempt` of the dequeue
  returns normally for its own reservation without a record
  (`one_shot_controlled_dequeue/store.py:219`), so two sends of one request in the same
  second both call the adapter, against "at most one" in
  `docs/architecture/one-shot-controlled-dequeue-boundary-v1.md:13-15`.

- **Live delivery.** After a loss of the process an attempt without a receipt should become
  `ambiguous`, and `expired` is for deliveries never reserved
  (`docs/architecture/live-delivery-send-boundary-v1.md:290-296`). Nothing closes it at the
  start of Core; `get` and `list` call `send_lifecycle` without `send_started` or
  `process_lost` and show it as reserved and then as expired, until somebody repeats the
  send. And a repeat closes an attempt whose first send is still waiting
  (`transport.py:122`): the Agent's admission is then never recorded in Core.

- **Discovery cache.** `DynamicDiscoveryActivation.start` takes its time before the fetch
  (`services/discovery_dynamic_activation.py:39`), the adapter stamps the evidence after it
  (`discovery/dynamic_sources.py:395`), and `evaluate_freshness` refuses evidence from the
  future (`dynamic_evaluation.py:261`): a healthy startup refresh therefore ends degraded
  and publishes nothing unless the clock is set back in between, against
  `.env.example:21-22` (the tests use one fixed time for both). A transient read error in
  `publish` counts as a malformed cache; when the cache can then be read after all, the
  answer fails `RefreshSourceResult.validate_shape`, and the ValidationError ends the start
  of Core, against "optional cache failure must not fail Core"
  (`discovery_dynamic_activation.py:28`). A refresh that finds its generation current
  reports a no-op even when the flush of that pointer had failed before, so a success may
  be lost with the power. A pruning that is interrupted leaves a partial directory that
  nothing removes, and the same generation is refused if it comes again.

None of them breaks `AtMostOneReboot`, `AtMostOneRun`, `SubmittedAtMostOnce`,
`EffectAtMostOnce` or `CleanMeansCoherent`: in each the system loses a result or a link,
or locks itself, and repeats no reboot, command or commit. (The two calls of the dequeue's
adapter are the exception; its boundary is not enabled in any production composition.)

## What is out of reach of the proofs

- Liveness, fairness and ENABLED stay with TLC: `DispatchDecided`, `VerificationConcludes`,
  `OutcomeLearned`, `InterruptedResolves`.
- What a recursive operator computes. `EvidenceChain` climbs a lineage with a recursive
  function instead; that the function exists, and what it contains at each step, is proved
  from the least step at which it would fail, which exists because the strict subsets of a
  set are well-founded (`LeastNumber`, `ClimbExists`). `SumOfQuotas` argues likewise from a
  smallest set of stages. The proved modules declare no recursive operator.

Every property that is proved here is also checked by TLC on the instance of its run.
The assumptions of the theorems are the ASSUMEs of the modules: that placeholders are not
values, that bounds are numbers and settings are of their type, and, for the restore, that
every verified backup has a file for each managed directory, as
`scripts/atlas_data_backup_models.py:211` demands of its inventory.

## Not modelled

- **Discovery catalog, proposals and release evidence**: pure functions over shipped or
  fetched documents. Of the dynamic cache: the fetch, the bounds and parsing of documents,
  the health registry and the merging of evidence for display.
- **Provider intelligence and observation**: read-side projections in memory.
- **Provider connections and audit history**: an update rewrites two files in turn and rolls
  back when a later step fails; the next candidate for a module. The audit history is an
  append-only log that no modelled part reads.
- **Operator authentication and sessions**: access control, not one of these properties.
- **Operational sandbox**: a launcher for acceptance tests that configures modelled parts.
- **Restore wrapper, copy helpers, taking and verifying a backup, v1/v2 restore**:
  fail-fast sequences of docker commands and one-shot file I/O. The model assumes the
  exclusive volume that the wrapper checks for.
- **Installation stages before v0.35** other than live delivery, and the get and list
  operations of the chain and of live delivery; and of every package of it the contract: canonical
  encoding, field validation and fingerprints, which are most of its lines. They compute a
  value from their inputs and change no state; in the models a fingerprint is the value.
- **Mission Control**: a user interface without authoritative state.
- Codecs, schema versions, HTTP error wording and the text of plans in every modelled part.

## Plan

1. A module for provider connections: the update that rewrites two files and rolls back.
2. The stages of the installation chain before v0.35, in the shape of `EvidenceChain`.
3. Abstract specifications, like the two there are, of the worker (a request runs at most
   once and has one result) and of the live delivery (a handoff is admitted at most once).
