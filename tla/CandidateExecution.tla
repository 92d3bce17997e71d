------------------------- MODULE CandidateExecution -------------------------
(***************************************************************************)
(* A candidate repository change carried out through the execution worker: *)
(* the Agent's workflow resume from the implementation approval to the     *)
(* verification approval, its worker client, the patch applier, the patch  *)
(* journal and the recovery of the snapshot when the Agent starts.         *)
(*                                                                         *)
(* A resume runs in a thread of its own and nothing serialises two of      *)
(* them.  A change of the sessions is one atomic step (mutate_aggregate    *)
(* under a lock: the snapshot file is replaced first, memory second) and   *)
(* so is one git command.  All workflows share one checkout and one        *)
(* journal file.                                                           *)
(***************************************************************************)
EXTENDS ExecutionWorker

CONSTANTS
    Threads,    \* resumes that may run at the same time
    Digest      \* the digest of a request: it is rebuilt from the same plan

ASSUME DigestAssumption == Digest \in Digests

\* A workflow has one implementation request, whose identifier is the
\* execution request ID.
Workflows == Requests

VARIABLES
    sessions,   \* durable: workflow -> session, in memory and in the snapshot
    journal,    \* durable: the workflow the journal file names, or None
    tree,       \* the checkout: workflows whose patch is in the working tree
    diskOk,     \* the state directory accepts writes
    threads,    \* the resume of each thread
    submits,    \* history: workflow -> requests submitted to the worker
    unchecked   \* history: workflows whose patch a resume took for applied
                \* while the one that applied it had not finished its checks

history == <<submits, unchecked>>
agentVars == <<sessions, journal, tree, diskOk, threads, history>>
vars == <<workerVars, agentVars>>

----------------------------------------------------------------------------
(* Values.                                                                 *)

SessionState == {"awaiting_implementation_approval", "executing", "blocked",
                 "patch_applied_pending_verification",
                 "awaiting_verification_approval"}

ExecutionStatus == {"succeeded", "failed", "unknown"}

\* Having no result is not one of the results.
ASSUME OutcomeAssumption == None \notin ExecutionStatus

Session == [state : SessionState,
            recorded : BOOLEAN,      \* worker_execution_request is stored
            result : ExecutionStatus \cup {None},
            applied : BOOLEAN]       \* worker_patch_applied

NewSession == [state |-> "awaiting_implementation_approval",
               recorded |-> FALSE, result |-> None, applied |-> FALSE]

\* seen: the state the session was read in; base: the working tree when the
\* applier captured its baseline; recovery: the thread works from the journal.
Idle == [pc |-> "idle", wf |-> None, seen |-> None, answer |-> None,
         base |-> {}, recovery |-> FALSE]

ThreadStep == {"idle", "read_journal", "validate", "block", "claim", "record",
               "submit", "wait", "lookup", "answered", "write_journal",
               "inspect", "precheck", "check", "apply", "scope", "checkpoint",
               "clear", "prepare", "error", "block_claimed"}

\* can_reconcile_worker: an uncertain attempt whose request was recorded.
CanReconcile(s) ==
    /\ s.state = "blocked"
    /\ s.recorded
    /\ ~s.applied
    /\ s.result \in {None, "unknown"}

\* Mutant: every terminal envelope carries a patch to apply.
DecodeAnyTerminal(reply) ==
    IF reply.state \in TERMINAL_STATES THEN "succeeded" ELSE "unknown"

\* _decode_response: only a terminal envelope with the request's own digest
\* is an outcome; everything else is unknown.
Decode(reply) ==
    IF reply.digest # Digest THEN "unknown"
    ELSE CASE reply.state = "completed" -> "succeeded"
           [] reply.state = "failed_terminal" -> "failed"
           [] OTHER -> "unknown"

Busy(w) == \E t \in Threads : threads[t].wf = w

Goto(t, pc) == threads' = [threads EXCEPT ![t].pc = pc]

Finish(t) == threads' = [threads EXCEPT ![t] = Idle]

\* transition_session through mutate_workflow: a compare and swap on the state,
\* written to disk before it takes effect.
CanSwap(w, from) == diskOk /\ sessions[w].state = from

Swap(w, new) == sessions' = [sessions EXCEPT ![w] = new]

To(w, state) == [sessions[w] EXCEPT !.state = state]

----------------------------------------------------------------------------
(* resume: which stage a call continues with.                              *)

Resume(t, w) ==
    /\ w \in setting.inUse
    /\ threads[t].pc = "idle"
    /\ LET s == sessions[w]
           pc == CASE CanReconcile(s) -> "validate"
                   [] s.state = "executing" -> "read_journal"
                   [] s.state = "awaiting_implementation_approval" -> "validate"
                   [] s.state = "patch_applied_pending_verification" -> "prepare"
                   [] OTHER -> "idle"
       IN  /\ pc # "idle"
           /\ threads' = [threads EXCEPT ![t] =
                            [Idle EXCEPT !.pc = pc, !.wf = w, !.seen = s.state]]
    /\ UNCHANGED <<workerVars, sessions, journal, tree, diskOk, history>>

ReadJournal(t) ==
    /\ threads[t].pc = "read_journal"
    /\ IF journal = threads[t].wf
       THEN threads' = [threads EXCEPT ![t].pc = "inspect",
                                       ![t].recovery = TRUE]
       ELSE Finish(t)
    /\ UNCHANGED <<workerVars, sessions, journal, tree, diskOk, history>>

\* Approval, plan, candidate and repository are validated; the repository
\* check is the last and requires a clean working tree.
Validate(t) ==
    /\ threads[t].pc = "validate"
    /\ \/ Finish(t)                           \* retryable: pending, Core away
       \/ Goto(t, "block")                    \* not granted, stale, dirty tree
       \/ tree = {} /\ Goto(t, "claim")
    /\ UNCHANGED <<workerVars, sessions, journal, tree, diskOk, history>>

\* _block_candidate_session
Block(t) ==
    /\ threads[t].pc = "block"
    /\ IF CanSwap(threads[t].wf, threads[t].seen)
       THEN Swap(threads[t].wf, To(threads[t].wf, "blocked"))
       ELSE UNCHANGED sessions
    /\ Finish(t)
    /\ UNCHANGED <<workerVars, journal, tree, diskOk, history>>

\* Only the state is compared: the swap is lost only if it has changed.
Claim(t) ==
    /\ threads[t].pc = "claim"
    /\ LET w == threads[t].wf
       IN  IF CanSwap(w, threads[t].seen)
           THEN /\ Swap(w, To(w, "executing"))
                /\ Goto(t, IF threads[t].seen = "blocked" THEN "lookup"
                           ELSE "record")
           ELSE Finish(t) /\ UNCHANGED sessions
    /\ UNCHANGED <<workerVars, journal, tree, diskOk, history>>

----------------------------------------------------------------------------
(* The worker request: recorded, submitted, looked up.                     *)

\* The exact request is stored before anything is submitted.
Record(t) ==
    /\ threads[t].pc = "record"
    /\ LET w == threads[t].wf
       IN  IF CanSwap(w, "executing")
           THEN /\ Swap(w, [sessions[w] EXCEPT !.recorded = TRUE])
                /\ Goto(t, "submit")
           ELSE Goto(t, "block_claimed") /\ UNCHANGED sessions
    /\ UNCHANGED <<workerVars, journal, tree, diskOk, history>>

Submit(t) ==
    /\ threads[t].pc = "submit"
    /\ inbox' = inbox \cup {[id |-> threads[t].wf, digest |-> Digest]}
    /\ submits' = [submits EXCEPT ![threads[t].wf] = @ + 1]
    /\ Goto(t, "wait")
    /\ UNCHANGED <<rows, enabled, handler, handled, outcome, replies, runs, setting,
                   sessions, journal, tree, diskOk, unchecked>>

Answered(t, status) ==
    threads' = [threads EXCEPT ![t].pc = "answered", ![t].answer = status]

ReceiveReply(t) ==
    /\ threads[t].pc = "wait"
    /\ replies[threads[t].wf] # None
    /\ Answered(t, Decode(replies[threads[t].wf]))
    /\ replies' = [replies EXCEPT ![threads[t].wf] = None]
    /\ UNCHANGED <<rows, enabled, handler, handled, outcome, inbox, runs, setting,
                   sessions, journal, tree, diskOk, history>>

\* One GET of the original request; a missing row is an error answer.
LookupAnswered(t) ==
    /\ threads[t].pc = "lookup"
    /\ handler = "idle"
    /\ Answered(t, Decode(Envelope(rows[threads[t].wf])))
    /\ UNCHANGED <<workerVars, sessions, journal, tree, diskOk, history>>

\* The client's deadline passes, or the connection is refused or broken.
TransportError(t) ==
    /\ "network" \in setting.faults
    /\ threads[t].pc \in {"wait", "lookup"}
    /\ Answered(t, "unknown")
    /\ UNCHANGED <<workerVars, sessions, journal, tree, diskOk, history>>

\* Anything but a success ends the resume with a blocked session.
StoreFailure(t) ==
    /\ threads[t].pc = "answered"
    /\ threads[t].answer # "succeeded"
    /\ LET w == threads[t].wf
       IN  IF CanSwap(w, "executing")
           THEN Swap(w, [To(w, "blocked") EXCEPT !.result = threads[t].answer])
           ELSE UNCHANGED sessions
    /\ Finish(t)
    /\ UNCHANGED <<workerVars, journal, tree, diskOk, history>>

TakeSuccess(t) ==
    /\ threads[t].pc = "answered"
    /\ threads[t].answer = "succeeded"
    /\ Goto(t, "write_journal")
    /\ UNCHANGED <<workerVars, sessions, journal, tree, diskOk, history>>

----------------------------------------------------------------------------
(* The journal and the patch.                                              *)

\* Mutant: a journal that cannot be written does not stop the application.
WriteJournalBestEffort(t) ==
    /\ threads[t].pc = "write_journal"
    /\ journal' = IF diskOk THEN threads[t].wf ELSE journal
    /\ Goto(t, "precheck")
    /\ UNCHANGED <<workerVars, sessions, tree, diskOk, history>>

\* The single journal file is replaced, whichever workflow it named.
WriteJournal(t) ==
    /\ threads[t].pc = "write_journal"
    /\ IF diskOk
       THEN journal' = threads[t].wf /\ Goto(t, "precheck")
       ELSE UNCHANGED journal /\ Goto(t, "error")
    /\ UNCHANGED <<workerVars, sessions, tree, diskOk, history>>

\* A resume has applied the patch and not finished its checks of it.
BeingChecked(w) == \E t \in Threads : threads[t].pc = "scope" /\ threads[t].wf = w

\* A patch that can be reversed is in the tree, and taken for applied.
TakesForApplied(w) ==
    /\ w \in tree
    /\ unchecked' = IF BeingChecked(w) THEN unchecked \cup {w} ELSE unchecked
    /\ UNCHANGED submits

\* Recovery asks git first whether the patch is in already.
Inspect(t) ==
    /\ threads[t].pc = "inspect"
    /\ \/ TakesForApplied(threads[t].wf) /\ Goto(t, "checkpoint")
       \/ threads[t].wf \notin tree /\ Goto(t, "precheck") /\ UNCHANGED history
       \/ Goto(t, "error") /\ UNCHANGED history    \* branch or HEAD drift
    /\ UNCHANGED <<workerVars, sessions, journal, tree, diskOk>>

\* WorkerPatchApplier.apply: scope and HEAD checks, baseline, reverse check.
PreCheck(t) ==
    /\ threads[t].pc = "precheck"
    /\ \/ TakesForApplied(threads[t].wf) /\ Goto(t, "checkpoint")
       \/ /\ threads[t].wf \notin tree
          /\ threads' = [threads EXCEPT ![t].pc = "check", ![t].base = tree]
          /\ UNCHANGED history
       \/ Goto(t, "error") /\ UNCHANGED history    \* stale or out of scope
    /\ UNCHANGED <<workerVars, sessions, journal, tree, diskOk>>

\* git apply --check
CheckPatch(t) ==
    /\ threads[t].pc = "check"
    /\ \/ threads[t].wf \notin tree /\ Goto(t, "apply")
       \/ Goto(t, "error")
    /\ UNCHANGED <<workerVars, sessions, journal, tree, diskOk, history>>

\* git apply: refuses a patch that is in the tree by now.
ApplyPatch(t) ==
    /\ threads[t].pc = "apply"
    /\ IF threads[t].wf \in tree
       THEN Goto(t, "error") /\ UNCHANGED tree
       ELSE /\ tree' = tree \cup {threads[t].wf}
            /\ Goto(t, "scope")
    /\ UNCHANGED <<workerVars, sessions, journal, diskOk, history>>

\* No other workflow's patch came or went since the baseline.
ScopeOk(t) == tree \ threads[t].base = {threads[t].wf} /\ threads[t].base \subseteq tree

\* git status must show exactly this patch since the baseline and git diff
\* --check must accept the checkout.  Whatever else is in it may fail either
\* check, and then the patch is reversed, or left in if git cannot do that.
CheckScope(t) ==
    /\ threads[t].pc = "scope"
    /\ \/ ScopeOk(t) /\ Goto(t, "checkpoint") /\ UNCHANGED tree
       \/ Goto(t, "error") /\ tree' \in {tree, tree \ {threads[t].wf}}
    /\ UNCHANGED <<workerVars, sessions, journal, diskOk, history>>

\* A branch that moved meanwhile, or a session that cannot be written, leaves
\* the patch where it is.
Checkpoint(t) ==
    /\ threads[t].pc = "checkpoint"
    /\ LET w == threads[t].wf
       IN  \/ /\ CanSwap(w, "executing")
              /\ Swap(w, [To(w, "patch_applied_pending_verification")
                            EXCEPT !.result = "succeeded", !.applied = TRUE])
              /\ Goto(t, "clear")
           \/ Goto(t, "error") /\ UNCHANGED sessions
    /\ UNCHANGED <<workerVars, journal, tree, diskOk, history>>

\* A journal that cannot be removed is an error of the attempt.
ClearJournal(t) ==
    /\ threads[t].pc = "clear"
    /\ \/ /\ journal' = None
          /\ threads' = [threads EXCEPT ![t].pc = "prepare",
                            ![t].seen = "patch_applied_pending_verification"]
       \/ ~diskOk /\ Goto(t, "error") /\ UNCHANGED journal
    /\ UNCHANGED <<workerVars, sessions, tree, diskOk, history>>

\* The verification plan is built from fresh evidence and stored with its
\* approval request; a retryable failure changes nothing, the others block.
Prepare(t) ==
    /\ threads[t].pc = "prepare"
    /\ LET w == threads[t].wf
       IN  \/ UNCHANGED sessions
           \/ /\ CanSwap(w, threads[t].seen)
              /\ \E state \in {"awaiting_verification_approval", "blocked"} :
                   Swap(w, To(w, state))
    /\ Finish(t)
    /\ UNCHANGED <<workerVars, journal, tree, diskOk, history>>

\* An error of the first attempt is left to the journal if the journal names
\* this workflow; an error of the recovery always blocks.
HandleError(t) ==
    /\ threads[t].pc = "error"
    /\ IF journal = threads[t].wf /\ ~threads[t].recovery
       THEN Finish(t)
       ELSE Goto(t, "block_claimed")
    /\ UNCHANGED <<workerVars, sessions, journal, tree, diskOk, history>>

\* _block_claimed_session
BlockClaimed(t) ==
    /\ threads[t].pc = "block_claimed"
    /\ IF CanSwap(threads[t].wf, "executing")
       THEN Swap(threads[t].wf, To(threads[t].wf, "blocked"))
       ELSE UNCHANGED sessions
    /\ Finish(t)
    /\ UNCHANGED <<workerVars, journal, tree, diskOk, history>>

----------------------------------------------------------------------------
(* Faults.                                                                 *)

\* Mutant: an interrupted execution goes back to its approval.
RecoveredToApproval(w) ==
    IF sessions[w].state = "executing" /\ journal # w
    THEN To(w, "awaiting_implementation_approval")
    ELSE sessions[w]

\* _recover_claimed_sessions: an interrupted execution is blocked unless the
\* journal names it.
Recovered(w) ==
    IF sessions[w].state = "executing" /\ journal # w THEN To(w, "blocked")
    ELSE sessions[w]

AgentRestart ==
    /\ "agent" \in setting.faults
    /\ diskOk
    /\ threads' = [t \in Threads |-> Idle]
    /\ sessions' = [w \in Workflows |-> Recovered(w)]
    /\ UNCHANGED <<workerVars, journal, tree, diskOk, history>>

DiskFault ==
    /\ "disk" \in setting.faults
    /\ diskOk' = ~diskOk
    /\ UNCHANGED <<workerVars, sessions, journal, tree, threads, history>>

----------------------------------------------------------------------------

Init ==
    /\ WorkerInit
    /\ sessions = [w \in Workflows |-> NewSession]
    /\ journal = None
    /\ tree = {}
    /\ diskOk = TRUE
    /\ threads = [t \in Threads |-> Idle]
    /\ submits = [w \in Workflows |-> 0]
    /\ unchecked = {}

ThreadStepOf(t) ==
    \/ ReadJournal(t) \/ Validate(t) \/ Block(t) \/ Claim(t) \/ Record(t)
    \/ Submit(t) \/ ReceiveReply(t) \/ LookupAnswered(t) \/ TransportError(t)
    \/ StoreFailure(t) \/ TakeSuccess(t) \/ WriteJournal(t) \/ Inspect(t)
    \/ PreCheck(t) \/ CheckPatch(t) \/ ApplyPatch(t) \/ CheckScope(t)
    \/ Checkpoint(t) \/ ClearJournal(t) \/ Prepare(t) \/ HandleError(t)
    \/ BlockClaimed(t)

Next ==
    \/ \E t \in Threads, w \in Workflows : Resume(t, w)
    \/ \E t \in Threads : ThreadStepOf(t)
    \/ WorkerNext /\ UNCHANGED agentVars
    \/ ClientPosts /\ UNCHANGED agentVars
    \/ AgentRestart
    \/ DiskFault

Spec == Init /\ [][Next]_vars

----------------------------------------------------------------------------
(* Properties.                                                             *)

TypeOK ==
    /\ WorkerTypeOK
    /\ sessions \in [Workflows -> Session]
    /\ journal \in Workflows \cup {None}
    /\ tree \subseteq Workflows
    /\ diskOk \in BOOLEAN
    /\ threads \in [Threads -> [pc : ThreadStep, wf : Workflows \cup {None},
                                seen : SessionState \cup {None},
                                answer : ExecutionStatus \cup {None},
                                base : SUBSET Workflows, recovery : BOOLEAN]]
    /\ submits \in [Workflows -> Nat]
    /\ unchecked \subseteq Workflows

\* A missing response never permits resubmission: whatever the interleaving of
\* resumes, restarts and lost answers, the Agent submits a workflow's request
\* at most once.
SubmittedAtMostOnce == \A w \in Workflows : submits[w] <= 1

\* Nothing is submitted that the snapshot does not identify, so an attempt
\* whose answer is lost can always be looked up.
SubmittedIsRecorded ==
    \A w \in Workflows : submits[w] > 0 => sessions[w].recorded

\* The patch that enters the checkout, and the checkpoint that says so, come
\* from a command that completed in the worker's ledger.
AppliedWasCompleted ==
    \A w \in Workflows :
       w \in tree \/ sessions[w].applied => rows[w].state = "completed"

\* A workflow whose stored result is a definite failure did not complete in
\* the worker, so that giving up on it loses no work.
FailureIsTrue ==
    \A w \in Workflows :
       sessions[w].result = "failed" => rows[w].state = "failed_terminal"

\* What the Agent's session says of the worker's run and of the repository.
OutcomeIsTrue ==
    /\ TypeOK
    /\ SubmittedIsRecorded
    /\ AppliedWasCompleted
    /\ FailureIsTrue

\* No other workflow has ever been claimed.
Alone(w) == \A v \in Workflows \ {w} : sessions[v] = NewSession

\* The patch journal is a write-ahead journal as long as one workflow uses it:
\* a patch that is in the checkout and not in a checkpoint is the one the
\* journal names, so that recovery finds it.  (A second workflow replaces the
\* intent of the first one.)
WriteAhead ==
    \A w \in Workflows :
       w \in tree /\ ~sessions[w].applied /\ Alone(w) => journal = w

\* A session that says its patch is applied is about a patch that is in the
\* checkout, whichever resumes of it and of others are in the applier together,
\* fail a check and reverse what they applied, or are cut off by a restart.  The
\* exception is a recovery that found the patch while the resume that applied
\* it could still reverse it.
DurablyApplied ==
    \A w \in Workflows \ unchecked : sessions[w].applied => w \in tree

\* A patch in the checkout is recorded or found again, and one that is recorded
\* is in the checkout.
PatchNotLost == WriteAhead /\ DurablyApplied
=============================================================================
