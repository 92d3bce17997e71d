------------------------ MODULE OperationalDispatch ------------------------
(***************************************************************************)
(* Core's operational dispatch: the durable ledger, the dispatch coroutine *)
(* of each authenticated POST, the read-only verification tasks, startup   *)
(* recovery, and the Proxmox handler and verifier they await.              *)
(*                                                                         *)
(* Core is one asyncio process.  A coroutine keeps the event loop from one *)
(* await to the next, so other coroutines run only while `loop' is NoOne;  *)
(* a crash may come between any two ledger transactions.  Every ledger     *)
(* method is one transaction (a lock around BEGIN IMMEDIATE ... COMMIT)    *)
(* and is one step here.                                                   *)
(***************************************************************************)
EXTENDS Naturals, Sequences

CONSTANTS
    Requests,       \* request IDs
    Digests,        \* request digests a POST may carry
    Callers,        \* connections: one POST at a time and the task it spawns
    NoOne,          \* nobody holds the event loop
    MaxDeliveries,  \* bound: POSTs that reach Core
    MaxCrashes,     \* bound: Core crashes or shutdowns
    MaxFaults       \* bound: ledger transactions that raise a database error

ASSUME ActorsAssumption ==
    /\ Callers \cap Requests = {}
    /\ NoOne \notin Callers \cup Requests

ASSUME BoundsAssumption ==
    /\ MaxDeliveries \in Nat
    /\ MaxCrashes \in Nat
    /\ MaxFaults \in Nat

\* A verification task is named by what scheduled it: the POST of a caller, or
\* startup recovery for a request.
Tasks == Callers \cup Requests

VARIABLES
    ledger,      \* durable: request ID -> operational_dispatch row
    log,         \* durable: request ID -> operational_dispatch_transitions
    audit,       \* durable: request ID -> audit statuses recorded
    core,        \* "down", "booting" or "up"
    gate,        \* the process's intent gate and handler registry
    reconciled,  \* rows that this boot's reconcile_startup classified
    loop,        \* the coroutine that runs, or NoOne at an await
    callers,     \* the dispatch coroutine of each connection
    tasks,       \* the verification tasks
    replies,     \* history: request ID -> answers given to clients
    posts,       \* history: request ID -> reboot POSTs sent
    inflight,    \* reboot POSTs on their way to the provider
    reboots,     \* reboots the provider accepted
    ptask,       \* provider: the reboot task behind the UPID
    guest,       \* provider: the guest's power state
    returned,    \* history: the guest came back after the reboot
    replaced,    \* provider: the target's identity has changed
    expired,     \* the request's expires_at has passed
    deliveries, crashes, faults

durable == <<ledger, log, audit>>
process == <<core, gate, reconciled>>
provider == <<inflight, reboots, ptask, guest, returned, replaced>>
bounds == <<deliveries, crashes, faults>>
vars == <<durable, process, loop, callers, tasks, replies, posts, provider,
          expired, bounds>>

----------------------------------------------------------------------------
(* Values.                                                                 *)

LedgerState == {"absent", "claimed", "revalidated", "dispatching", "succeeded",
                "failed", "outcome_unknown", "verifying", "verified",
                "verification_failed", "target_replaced"}

PreDispatch == {"claimed", "revalidated"}

FINAL_STATES == {"verified", "verification_failed", "target_replaced"}

ALLOWED_LEDGER_TRANSITIONS ==
    {<<"absent", "claimed">>, <<"claimed", "revalidated">>,
     <<"revalidated", "dispatching">>}
      \cup (PreDispatch \cup {"dispatching"})
             \X {"succeeded", "failed", "outcome_unknown", "target_replaced"}
      \cup {"succeeded", "outcome_unknown"} \X {"verifying"}
      \cup {"verifying"} \X (FINAL_STATES \cup {"outcome_unknown"})

DispatchStatus == {"succeeded", "failed", "outcome_unknown"}
VerificationStatus == {"succeeded", "verification_failed", "outcome_unknown",
                       "target_replaced"}
AuditStatus == {"request_accepted", "request_conflict", "execution_disabled",
                "no_handler", "target_blocked", "barrier_crossed",
                "dispatch_result",
                "provider_operation_captured", "outcome_unknown",
                "recovery_reconciled", "verification_started",
                "verification_resumed", "verification_succeeded",
                "verification_failed", "verification_target_replaced"}

\* A dispatch result: its status and whether it carries a provider UPID.
Result(status, upid) == [status |-> status, upid |-> upid]
NoResult == Result("none", FALSE)

AbsentRow == [state |-> "absent", digest |-> "none", dispatch |-> NoResult,
              verification |-> "none"]

IdleCaller == [pc |-> "idle", req |-> NoOne, digest |-> "none",
               res |-> NoResult, to |-> "none"]

IdleTask == [pc |-> "idle", req |-> NoOne, recovery |-> FALSE,
             seen |-> "none", ok |-> FALSE, verdict |-> "none"]

\* main.py registers the handler and the verifier together, so "no_handler"
\* means neither; "disabled" closes the intent gate only.
Gates == {"open", "disabled", "no_handler"}

HasResult(r) == ledger[r].dispatch # NoResult

----------------------------------------------------------------------------
(* Ledger transactions.                                                    *)

\* Replace a row and record its transition, in one transaction.
Write(r, row) ==
    /\ <<ledger[r].state, row.state>> \in ALLOWED_LEDGER_TRANSITIONS
    /\ ledger' = [ledger EXCEPT ![r] = row]
    /\ log' = [log EXCEPT ![r] = Append(@, <<ledger[r].state, row.state>>)]

Move(r, state) == Write(r, [ledger[r] EXCEPT !.state = state])

Record(r, statuses) == audit' = [audit EXCEPT ![r] = @ \cup statuses]

\* persist_dispatch_result accepts only the first result of an undecided row.
\* Results carry timestamps, so no later result equals the stored one.
MayPersistResult(r) ==
    /\ ~HasResult(r)
    /\ ledger[r].state \in PreDispatch \cup {"dispatching"}

\* begin_verification: who becomes the owner of the row's verification.
OwnsVerification(r, resumeInterrupted) ==
    /\ ledger[r].verification = "none"
    /\ \/ ledger[r].state \in {"succeeded", "outcome_unknown"}
       \/ ledger[r].state = "verifying" /\ resumeInterrupted

Eligible(r) ==
    /\ ledger[r].verification = "none"
    /\ ledger[r].dispatch.upid
    /\ ledger[r].dispatch.status \in {"succeeded", "outcome_unknown"}
    /\ ledger[r].state \in {"succeeded", "outcome_unknown", "verifying"}

VerificationState(verdict) ==
    IF verdict = "succeeded" THEN "verified" ELSE verdict

\* Mutant: the audit status is the verification status as it is.
VerificationAuditUnmapped(verdict) == verdict

VerificationAudit(verdict) ==
    CASE verdict = "succeeded"       -> "verification_succeeded"
      [] verdict = "target_replaced" -> "verification_target_replaced"
      [] OTHER                       -> verdict

----------------------------------------------------------------------------
(* The read model that GET .../lifecycle projects from the ledger.         *)

BarrierCrossings(r) == {i \in 1..Len(log[r]) : log[r][i][2] = "dispatching"}

Terminal(r) ==
    \/ ledger[r].verification # "none"
    \/ ledger[r].state \in FINAL_STATES \cup {"failed"}

TransitionSequenceValid(r) ==
    /\ \A i \in 1..Len(log[r]) :
          /\ log[r][i] \in ALLOWED_LEDGER_TRANSITIONS
          /\ log[r][i][1] = IF i = 1 THEN "absent" ELSE log[r][i-1][2]
    /\ ledger[r].state =
          IF log[r] = << >> THEN "absent" ELSE log[r][Len(log[r])][2]

----------------------------------------------------------------------------
Init ==
    /\ ledger = [r \in Requests |-> AbsentRow]
    /\ log = [r \in Requests |-> << >>]
    /\ audit = [r \in Requests |-> {}]
    /\ core = "down"
    /\ gate = "open"
    /\ reconciled = {}
    /\ loop = NoOne
    /\ callers = [c \in Callers |-> IdleCaller]
    /\ tasks = [t \in Tasks |-> IdleTask]
    /\ replies = [r \in Requests |-> {}]
    /\ posts = [r \in Requests |-> 0]
    /\ inflight = [r \in Requests |-> 0]
    /\ reboots = [r \in Requests |-> 0]
    /\ ptask = [r \in Requests |-> "none"]
    /\ guest = [r \in Requests |-> "running"]
    /\ returned = [r \in Requests |-> FALSE]
    /\ replaced = [r \in Requests |-> FALSE]
    /\ expired = [r \in Requests |-> FALSE]
    /\ deliveries = 0
    /\ crashes = 0
    /\ faults = 0

----------------------------------------------------------------------------
(* The dispatch coroutine of connection c.                                 *)

At(c, pc) == core = "up" /\ callers[c].pc = pc

\* c runs on from where it is: it holds the loop.
Running(c, pc) == At(c, pc) /\ loop = c

\* What c awaited has happened, and nobody else runs.
Resumed(c, pc) == At(c, pc) /\ loop = NoOne

Goto(c, pc) == callers' = [callers EXCEPT ![c].pc = pc]

GotoWith(c, pc, res, to) ==
    callers' = [callers EXCEPT ![c].pc = pc, ![c].res = res, ![c].to = to]

\* POST /dispatch, authenticated and decoded.  Recovery tasks were created
\* before the server began to accept requests, so their first steps are done.
Deliver(c, r, d) ==
    /\ Resumed(c, "idle")
    /\ tasks[c].pc = "idle"
    /\ \A q \in Requests : tasks[q].pc # "scheduled"
    /\ deliveries < MaxDeliveries
    /\ deliveries' = deliveries + 1
    /\ callers' = [callers EXCEPT ![c] = [IdleCaller EXCEPT !.pc = "accepted",
                                                            !.req = r,
                                                            !.digest = d]]
    /\ Record(r, {"request_accepted"})
    /\ loop' = c
    /\ UNCHANGED <<ledger, log, process, tasks, replies, posts, provider,
                   expired, crashes, faults>>

ClaimNew(c) ==
    LET r == callers[c].req IN
    /\ Running(c, "accepted")
    /\ ledger[r].state = "absent"
    /\ Write(r, [AbsentRow EXCEPT !.state = "claimed",
                                  !.digest = callers[c].digest])
    /\ Goto(c, "claimed")
    /\ UNCHANGED <<audit, process, loop, tasks, replies, posts, provider,
                   expired, bounds>>

\* The claim finds the same request: its result if it has one, else go on.
ClaimAgain(c) ==
    LET r == callers[c].req IN
    /\ Running(c, "accepted")
    /\ ledger[r].state # "absent"
    /\ ledger[r].digest = callers[c].digest
    /\ IF HasResult(r)
       THEN GotoWith(c, "answering", ledger[r].dispatch, "none")
       ELSE Goto(c, "claimed")
    /\ UNCHANGED <<durable, process, loop, tasks, replies, posts, provider,
                   expired, bounds>>

ClaimConflict(c) ==
    LET r == callers[c].req IN
    /\ Running(c, "accepted")
    /\ ledger[r].state # "absent"
    /\ ledger[r].digest # callers[c].digest
    /\ Record(r, {"request_conflict"})
    /\ callers' = [callers EXCEPT ![c] = IdleCaller]
    /\ loop' = NoOne
    /\ replies' = [replies EXCEPT ![r] = @ \cup {"conflict"}]
    /\ UNCHANGED <<ledger, log, process, tasks, posts, provider, expired, bounds>>

\* Expired, intent disabled or no handler: _terminal_failure.
Refuse(c) ==
    LET r == callers[c].req IN
    /\ Running(c, "claimed")
    /\ expired[r] \/ gate # "open"
    /\ Record(r, IF expired[r] THEN {}
                 ELSE IF gate = "disabled" THEN {"execution_disabled"}
                 ELSE {"no_handler"})
    /\ GotoWith(c, "persisting", Result("failed", FALSE), "failed")
    /\ UNCHANGED <<ledger, log, process, loop, tasks, replies, posts, provider,
                   expired, bounds>>

AwaitResolver(c) ==
    /\ Running(c, "claimed")
    /\ ~expired[callers[c].req]
    /\ gate = "open"
    /\ Goto(c, "resolving")
    /\ loop' = NoOne
    /\ UNCHANGED <<durable, process, tasks, replies, posts, provider, expired,
                   bounds>>

\* The resolver finds no such target, or one whose identity does not match:
\* _target_replaced.
ResolvedReplaced(c) ==
    /\ Resumed(c, "resolving")
    /\ Record(callers[c].req, {"target_blocked"})
    /\ GotoWith(c, "persisting", Result("failed", FALSE), "target_replaced")
    /\ loop' = c
    /\ UNCHANGED <<ledger, log, process, tasks, replies, posts, provider,
                   expired, bounds>>

\* The provider is unavailable: FAILED is answered and nothing is persisted.
ResolvedUnavailable(c) ==
    /\ Resumed(c, "resolving")
    /\ Record(callers[c].req, {"target_blocked"})
    /\ GotoWith(c, "answering", Result("failed", FALSE), "unavailable")
    /\ loop' = c
    /\ UNCHANGED <<ledger, log, process, tasks, replies, posts, provider,
                   expired, bounds>>

ResolvedMatch(c) ==
    /\ Resumed(c, "resolving")
    /\ ~replaced[callers[c].req]
    /\ Goto(c, "matched")
    /\ loop' = c
    /\ UNCHANGED <<durable, process, tasks, replies, posts, provider, expired,
                   bounds>>

\* mark_revalidated leaves a row that is no longer claimed as it is.
MarkRevalidated(c) ==
    LET r == callers[c].req IN
    /\ Running(c, "matched")
    /\ IF ledger[r].state = "claimed"
       THEN Move(r, "revalidated")
       ELSE UNCHANGED <<ledger, log>>
    /\ Goto(c, "revalidated")
    /\ UNCHANGED <<audit, process, loop, tasks, replies, posts, provider,
                   expired, bounds>>

\* Mutant: the handler is called before the barrier is persisted.
MarkDispatchingLater(c) ==
    /\ Running(c, "revalidated")
    /\ ledger[callers[c].req].state = "revalidated"
    /\ Goto(c, "crossed")
    /\ UNCHANGED <<durable, process, loop, tasks, replies, posts, provider,
                   expired, bounds>>

\* mark_dispatching: cross the at-most-once barrier.
MarkDispatching(c) ==
    LET r == callers[c].req IN
    /\ Running(c, "revalidated")
    /\ ledger[r].state = "revalidated"
    /\ Move(r, "dispatching")
    /\ Goto(c, "crossed")
    /\ UNCHANGED <<audit, process, loop, tasks, replies, posts, provider,
                   expired, bounds>>

\* mark_dispatching lost: another caller crossed, or the row is decided.
LoseBarrier(c) ==
    LET r == callers[c].req IN
    /\ Running(c, "revalidated")
    /\ ledger[r].state # "revalidated"
    /\ IF HasResult(r)
       THEN GotoWith(c, "answering", ledger[r].dispatch, "none")
       ELSE GotoWith(c, "answering", Result("outcome_unknown", FALSE), "none")
    /\ UNCHANGED <<durable, process, loop, tasks, replies, posts, provider,
                   expired, bounds>>

\* Audit the crossing and await the handler.
AwaitHandler(c) ==
    /\ Running(c, "crossed")
    /\ Record(callers[c].req, {"barrier_crossed"})
    /\ Goto(c, "checking")
    /\ loop' = NoOne
    /\ UNCHANGED <<ledger, log, process, tasks, replies, posts, provider,
                   expired, bounds>>

\* The handler's live pre-state is unavailable, unsupported or replaced.
HandlerRefuses(c) ==
    /\ Resumed(c, "checking")
    /\ GotoWith(c, "returned", Result("failed", FALSE), "none")
    /\ loop' = c
    /\ UNCHANGED <<durable, process, tasks, replies, posts, provider, expired,
                   bounds>>

\* The live pre-state matches: POST status/reboot.
SendReboot(c) ==
    LET r == callers[c].req IN
    /\ Resumed(c, "checking")
    /\ guest[r] = "running"
    /\ ~replaced[r]
    /\ posts' = [posts EXCEPT ![r] = @ + 1]
    /\ inflight' = [inflight EXCEPT ![r] = @ + 1]
    /\ Goto(c, "posting")
    /\ UNCHANGED <<durable, process, loop, tasks, replies, reboots, ptask,
                   guest, returned, replaced, expired, bounds>>

\* The provider's answer with a valid UPID arrives.
RebootAccepted(c) ==
    /\ Resumed(c, "posting")
    /\ reboots[callers[c].req] > 0
    /\ GotoWith(c, "returned", Result("succeeded", TRUE), "none")
    /\ loop' = c
    /\ UNCHANGED <<durable, process, tasks, replies, posts, provider, expired,
                   bounds>>

\* Mutant: a POST that fails has not rebooted the guest.
RebootUnknownAsFailed(c) ==
    /\ Resumed(c, "posting")
    /\ GotoWith(c, "returned", Result("failed", FALSE), "none")
    /\ loop' = c
    /\ UNCHANGED <<durable, process, tasks, replies, posts, provider, expired,
                   bounds>>

\* Timeout, connection error or unusable answer: the reboot may have happened.
RebootUnknown(c) ==
    /\ Resumed(c, "posting")
    /\ GotoWith(c, "returned", Result("outcome_unknown", FALSE), "none")
    /\ loop' = c
    /\ UNCHANGED <<durable, process, tasks, replies, posts, provider, expired,
                   bounds>>

\* Audit what the handler returned; the result itself is persisted next.
AuditResult(c) ==
    LET res == callers[c].res IN
    /\ Running(c, "returned")
    /\ Record(callers[c].req,
              {"dispatch_result"}
                \cup (IF res.upid THEN {"provider_operation_captured"} ELSE {})
                \cup ({res.status} \cap {"outcome_unknown"}))
    /\ GotoWith(c, "persisting", res, res.status)
    /\ UNCHANGED <<ledger, log, process, loop, tasks, replies, posts, provider,
                   expired, bounds>>

PersistDispatchResult(c) ==
    LET r == callers[c].req IN
    /\ Running(c, "persisting")
    /\ MayPersistResult(r)
    /\ Write(r, [ledger[r] EXCEPT !.state = callers[c].to,
                                  !.dispatch = callers[c].res])
    /\ GotoWith(c, "answering", callers[c].res, "none")
    /\ UNCHANGED <<audit, process, loop, tasks, replies, posts, provider,
                   expired, bounds>>

\* "dispatch result is immutable": the coroutine fails and answers 500.
ResultImmutable(c) ==
    LET r == callers[c].req IN
    /\ Running(c, "persisting")
    /\ ~MayPersistResult(r)
    /\ callers' = [callers EXCEPT ![c] = IdleCaller]
    /\ loop' = NoOne
    /\ replies' = [replies EXCEPT ![r] = @ \cup {"error"}]
    /\ UNCHANGED <<durable, process, tasks, posts, provider, expired, bounds>>

\* lifecycle.dispatch: schedule verification if the row is eligible, answer.
Answer(c) ==
    LET r == callers[c].req IN
    /\ Running(c, "answering")
    /\ tasks' = IF Eligible(r)
                THEN [tasks EXCEPT ![c] = [IdleTask EXCEPT !.pc = "scheduled",
                                                           !.req = r]]
                ELSE tasks
    /\ replies' = [replies EXCEPT ![r] = @ \cup
                      {IF callers[c].to = "unavailable" THEN "unavailable"
                       ELSE callers[c].res.status}]
    /\ callers' = [callers EXCEPT ![c] = IdleCaller]
    /\ loop' = NoOne
    /\ UNCHANGED <<durable, process, posts, provider, expired, bounds>>

\* A ledger or audit transaction raises a database error: nothing is written,
\* the exception ends the coroutine and the client is answered 500.
DispatchAborts(c) ==
    LET r == callers[c].req IN
    /\ core = "up"
    /\ loop = c
    /\ callers[c].pc # "idle"
    /\ faults < MaxFaults
    /\ faults' = faults + 1
    /\ callers' = [callers EXCEPT ![c] = IdleCaller]
    /\ loop' = NoOne
    /\ replies' = [replies EXCEPT ![r] = @ \cup {"error"}]
    /\ UNCHANGED <<durable, process, tasks, posts, provider, expired,
                   deliveries, crashes>>

\* Every step of the coroutine but its start and a database error.
Proceed(c) ==
    \/ ClaimNew(c) \/ ClaimAgain(c) \/ ClaimConflict(c)
    \/ Refuse(c) \/ AwaitResolver(c)
    \/ ResolvedReplaced(c) \/ ResolvedUnavailable(c) \/ ResolvedMatch(c)
    \/ MarkRevalidated(c) \/ MarkDispatching(c) \/ LoseBarrier(c)
    \/ AwaitHandler(c) \/ HandlerRefuses(c)
    \/ SendReboot(c) \/ RebootAccepted(c) \/ RebootUnknown(c)
    \/ AuditResult(c) \/ PersistDispatchResult(c) \/ ResultImmutable(c)
    \/ Answer(c)

Dispatch(c) ==
    \/ \E r \in Requests, d \in Digests : Deliver(c, r, d)
    \/ Proceed(c)
    \/ DispatchAborts(c)

----------------------------------------------------------------------------
(* The verification task t.                                                *)

TaskRunning(t, pc) == core = "up" /\ tasks[t].pc = pc /\ loop = t

TaskResumed(t, pc) == core = "up" /\ tasks[t].pc = pc /\ loop = NoOne

TaskGoto(t, pc) == tasks' = [tasks EXCEPT ![t].pc = pc]

\* The verifier returns `verdict' and the task goes on to persist it.
Conclude(t, verdict) ==
    /\ tasks' = [tasks EXCEPT ![t].pc = "concluding", ![t].verdict = verdict]
    /\ loop' = t

\* Mutant: a task trusts that its request is still the one that was eligible.
BeginVerificationUnchecked(t) ==
    LET r == tasks[t].req IN
    /\ TaskResumed(t, "scheduled")
    /\ ledger[r].state \in {"succeeded", "outcome_unknown"}
    /\ Move(r, "verifying")
    /\ TaskGoto(t, "begun")
    /\ loop' = t
    /\ UNCHANGED <<audit, process, callers, replies, posts, provider, expired,
                   bounds>>

\* reconcile(): the row is eligible, a verifier is registered, and
\* begin_verification makes this task its owner.
BeginVerification(t) ==
    LET r == tasks[t].req IN
    /\ TaskResumed(t, "scheduled")
    /\ Eligible(r)
    /\ gate # "no_handler"
    /\ OwnsVerification(r, tasks[t].recovery)
    /\ IF ledger[r].state = "verifying"
       THEN UNCHANGED <<ledger, log>>
       ELSE Move(r, "verifying")
    /\ TaskGoto(t, "begun")
    /\ loop' = t
    /\ UNCHANGED <<audit, process, callers, replies, posts, provider, expired,
                   bounds>>

\* reconcile() returns early: not eligible, no verifier, or not the owner.
SkipVerification(t) ==
    LET r == tasks[t].req IN
    /\ TaskResumed(t, "scheduled")
    /\ ~(/\ Eligible(r)
         /\ gate # "no_handler"
         /\ OwnsVerification(r, tasks[t].recovery))
    /\ tasks' = [tasks EXCEPT ![t] = IdleTask]
    /\ UNCHANGED <<durable, process, loop, callers, replies, posts, provider,
                   expired, bounds>>

AuditBegin(t) ==
    /\ TaskRunning(t, "begun")
    /\ Record(tasks[t].req, IF tasks[t].recovery
                            THEN {"verification_resumed", "recovery_reconciled"}
                            ELSE {"verification_started"})
    /\ TaskGoto(t, "starting")
    /\ UNCHANGED <<ledger, log, process, loop, callers, replies, posts, provider,
                   expired, bounds>>

\* No client can be built, or the deadline precedes the dispatch.
VerifierRaises(t) ==
    /\ TaskRunning(t, "starting")
    /\ Conclude(t, "outcome_unknown")
    /\ UNCHANGED <<durable, process, callers, replies, posts, provider,
                   expired, bounds>>

\* The head of the polling loop, entered or reached again after the sleep.
LoopHead(t) == TaskRunning(t, "starting") \/ TaskResumed(t, "polling")

\* One more poll while the deadline lies ahead: await the target.
Poll(t) ==
    /\ LoopHead(t)
    /\ ~expired[tasks[t].req]
    /\ TaskGoto(t, "observing")
    /\ loop' = NoOne
    /\ UNCHANGED <<durable, process, callers, replies, posts, provider,
                   expired, bounds>>

DeadlinePasses(t) ==
    /\ LoopHead(t)
    /\ expired[tasks[t].req]
    /\ Conclude(t, IF tasks[t].ok THEN "verification_failed"
                                  ELSE "outcome_unknown")
    /\ UNCHANGED <<durable, process, callers, replies, posts, provider,
                   expired, bounds>>

\* The target is gone or its fingerprint differs.
ObserveReplaced(t) ==
    /\ TaskResumed(t, "observing")
    /\ Conclude(t, "target_replaced")
    /\ UNCHANGED <<durable, process, callers, replies, posts, provider,
                   expired, bounds>>

\* last_target keeps the latest observation; a failed read leaves it alone.
ObserveTarget(t) ==
    LET r == tasks[t].req IN
    /\ TaskResumed(t, "observing")
    /\ \E seen \in {tasks[t].seen}
                     \cup (IF replaced[r] THEN {} ELSE {guest[r]}) :
          tasks' = [tasks EXCEPT ![t].pc = "querying", ![t].seen = seen]
    /\ UNCHANGED <<durable, process, loop, callers, replies, posts, provider,
                   expired, bounds>>

\* The task ended badly.
QueryFailed(t) ==
    /\ TaskResumed(t, "querying")
    /\ ptask[tasks[t].req] = "failed"
    /\ Conclude(t, "verification_failed")
    /\ UNCHANGED <<durable, process, callers, replies, posts, provider,
                   expired, bounds>>

\* The task ended well, now or at an earlier poll, and last_target was running.
QuerySucceeded(t) ==
    /\ TaskResumed(t, "querying")
    /\ tasks[t].ok \/ ptask[tasks[t].req] = "ok"
    /\ tasks[t].seen = "running"
    /\ Conclude(t, "succeeded")
    /\ UNCHANGED <<durable, process, callers, replies, posts, provider,
                   expired, bounds>>

\* Still running, unreadable, or the guest is not seen running: sleep.
QueryAgain(t) ==
    /\ TaskResumed(t, "querying")
    /\ \E ok \in {tasks[t].ok, tasks[t].ok \/ ptask[tasks[t].req] = "ok"} :
          /\ ~(ok /\ tasks[t].seen = "running")
          /\ tasks' = [tasks EXCEPT ![t].pc = "polling", ![t].ok = ok]
    /\ UNCHANGED <<durable, process, loop, callers, replies, posts, provider,
                   expired, bounds>>

PersistVerificationResult(t) ==
    LET r == tasks[t].req IN
    /\ TaskRunning(t, "concluding")
    /\ ledger[r].verification = "none"
    /\ ledger[r].state = "verifying"
    /\ Write(r, [ledger[r] EXCEPT !.state = VerificationState(tasks[t].verdict),
                                  !.verification = tasks[t].verdict])
    /\ TaskGoto(t, "concluded")
    /\ UNCHANGED <<audit, process, loop, callers, replies, posts, provider,
                   expired, bounds>>

AuditVerification(t) ==
    /\ TaskRunning(t, "concluded")
    /\ Record(tasks[t].req, {VerificationAudit(tasks[t].verdict)})
    /\ tasks' = [tasks EXCEPT ![t] = IdleTask]
    /\ loop' = NoOne
    /\ UNCHANGED <<ledger, log, process, callers, replies, posts, provider,
                   expired, bounds>>

\* A transaction of the task raises; _task_done swallows the exception.
TaskAborts(t) ==
    /\ \/ TaskResumed(t, "scheduled")
       \/ \E pc \in {"begun", "concluding", "concluded"} : TaskRunning(t, pc)
    /\ faults < MaxFaults
    /\ faults' = faults + 1
    /\ tasks' = [tasks EXCEPT ![t] = IdleTask]
    /\ loop' = NoOne
    /\ UNCHANGED <<durable, process, callers, replies, posts, provider,
                   expired, deliveries, crashes>>

Verify(t) ==
    \/ BeginVerification(t) \/ SkipVerification(t) \/ AuditBegin(t)
    \/ VerifierRaises(t) \/ Poll(t) \/ DeadlinePasses(t)
    \/ ObserveReplaced(t) \/ ObserveTarget(t)
    \/ QueryFailed(t) \/ QuerySucceeded(t) \/ QueryAgain(t)
    \/ PersistVerificationResult(t) \/ AuditVerification(t)
    \/ TaskAborts(t)

----------------------------------------------------------------------------
(* The process.                                                            *)

\* A crash, or a shutdown that cancels every coroutine.
Crash ==
    /\ core # "down"
    /\ crashes < MaxCrashes
    /\ crashes' = crashes + 1
    /\ core' = "down"
    /\ reconciled' = {}
    /\ loop' = NoOne
    /\ callers' = [c \in Callers |-> IdleCaller]
    /\ tasks' = [t \in Tasks |-> IdleTask]
    /\ UNCHANGED <<durable, gate, replies, posts, provider, expired,
                   deliveries, faults>>

\* Mutant: a restart makes an interrupted dispatch retryable.
RetryAfterRestart(row) == [row EXCEPT !.state = "claimed"]

\* Mutant: a restart leaves an interrupted dispatch as it is.
DispatchingAfterRestart(row) == row

UnknownAfterRestart(row) ==
    [row EXCEPT !.state = "outcome_unknown",
                !.dispatch = Result("outcome_unknown", FALSE)]

\* reconcile_startup: every dispatching row becomes outcome_unknown.
ReconcileStartup ==
    LET rows == {r \in Requests : ledger[r].state = "dispatching"} IN
    /\ core = "down"
    /\ core' = "booting"
    /\ gate' \in Gates
    /\ reconciled' = rows
    /\ ledger' = [r \in Requests |-> IF r \in rows
                                     THEN UnknownAfterRestart(ledger[r])
                                     ELSE ledger[r]]
    /\ log' = [r \in Requests |->
                  IF r \in rows
                  THEN Append(log[r], <<"dispatching", "outcome_unknown">>)
                  ELSE log[r]]
    /\ UNCHANGED <<audit, loop, callers, tasks, replies, posts, provider,
                   expired, bounds>>

\* Mutant: startup does not resume verifications.
NoStartupRecovery ==
    /\ core = "booting"
    /\ core' = "up"
    /\ reconciled' = {}
    /\ UNCHANGED <<durable, gate, loop, callers, tasks, replies, posts,
                   provider, expired, bounds>>

\* Its audit events, then schedule_startup_recovery for the candidates.
ScheduleStartupRecovery ==
    /\ core = "booting"
    /\ core' = "up"
    /\ reconciled' = {}
    /\ audit' = [r \in Requests |->
                    IF r \in reconciled
                    THEN audit[r] \cup {"outcome_unknown", "recovery_reconciled"}
                    ELSE audit[r]]
    /\ tasks' = [t \in Tasks |->
                    IF t \in Requests /\ Eligible(t)
                    THEN [IdleTask EXCEPT !.pc = "scheduled", !.req = t,
                                          !.recovery = TRUE]
                    ELSE tasks[t]]
    /\ UNCHANGED <<ledger, log, gate, loop, callers, replies, posts, provider,
                   expired, bounds>>

----------------------------------------------------------------------------
(* The provider and the clock.                                             *)

\* The provider accepts a reboot that is on its way, even after a crash.
ProviderReboots(r) ==
    /\ inflight[r] > 0
    /\ inflight' = [inflight EXCEPT ![r] = @ - 1]
    /\ reboots' = [reboots EXCEPT ![r] = @ + 1]
    /\ ptask' = [ptask EXCEPT ![r] = "running"]
    /\ returned' = [returned EXCEPT ![r] = FALSE]
    /\ UNCHANGED <<durable, process, loop, callers, tasks, replies, posts,
                   guest, replaced, expired, bounds>>

\* The POST never reaches the provider.
PostLost(r) ==
    /\ inflight[r] > 0
    /\ inflight' = [inflight EXCEPT ![r] = @ - 1]
    /\ UNCHANGED <<durable, process, loop, callers, tasks, replies, posts,
                   reboots, ptask, guest, returned, replaced, expired, bounds>>

GuestStops(r) ==
    /\ ptask[r] = "running"
    /\ guest[r] = "running"
    /\ guest' = [guest EXCEPT ![r] = "down"]
    /\ UNCHANGED <<durable, process, loop, callers, tasks, replies, posts,
                   inflight, reboots, ptask, returned, replaced, expired,
                   bounds>>

GuestReturns(r) ==
    /\ guest[r] = "down"
    /\ guest' = [guest EXCEPT ![r] = "running"]
    /\ returned' = [returned EXCEPT ![r] = TRUE]
    /\ UNCHANGED <<durable, process, loop, callers, tasks, replies, posts,
                   inflight, reboots, ptask, replaced, expired, bounds>>

\* The reboot task ends well only once the guest has gone down.
TaskEnds(r) ==
    /\ ptask[r] = "running"
    /\ \E end \in {"failed"} \cup
                  (IF guest[r] = "down" \/ returned[r] THEN {"ok"} ELSE {}) :
          ptask' = [ptask EXCEPT ![r] = end]
    /\ UNCHANGED <<durable, process, loop, callers, tasks, replies, posts,
                   inflight, reboots, guest, returned, replaced, expired,
                   bounds>>

TargetReplaced(r) ==
    /\ ~replaced[r]
    /\ replaced' = [replaced EXCEPT ![r] = TRUE]
    /\ UNCHANGED <<durable, process, loop, callers, tasks, replies, posts,
                   inflight, reboots, ptask, guest, returned, expired, bounds>>

Expire(r) ==
    /\ ~expired[r]
    /\ expired' = [expired EXCEPT ![r] = TRUE]
    /\ UNCHANGED <<durable, process, loop, callers, tasks, replies, posts,
                   provider, bounds>>

Environment(r) ==
    \/ ProviderReboots(r) \/ PostLost(r) \/ GuestStops(r) \/ GuestReturns(r)
    \/ TaskEnds(r) \/ TargetReplaced(r) \/ Expire(r)

\* Nothing left to do: no POST is to come and every coroutine has ended.
Quiescent ==
    /\ core = "up"
    /\ loop = NoOne
    /\ deliveries = MaxDeliveries
    /\ \A c \in Callers : callers[c].pc = "idle"
    /\ \A t \in Tasks : tasks[t].pc = "idle"
    /\ UNCHANGED vars

Next ==
    \/ \E c \in Callers : Dispatch(c)
    \/ \E t \in Tasks : Verify(t)
    \/ Crash \/ ReconcileStartup \/ ScheduleStartupRecovery
    \/ \E r \in Requests : Environment(r)
    \/ Quiescent

Spec == Init /\ [][Next]_vars

\* The event loop runs every coroutine that can go on, awaited provider calls
\* return or time out, the service manager restarts Core, and time passes.
Fairness ==
    /\ \A c \in Callers : WF_vars(Proceed(c))
    /\ \A t \in Tasks : WF_vars(Verify(t))
    /\ WF_vars(ReconcileStartup)
    /\ WF_vars(ScheduleStartupRecovery)
    /\ \A r \in Requests : WF_vars(Expire(r))

FairSpec == Spec /\ Fairness

----------------------------------------------------------------------------
(* Properties.                                                             *)

CallerPc == {"idle", "accepted", "claimed", "resolving", "matched",
             "revalidated", "crossed", "checking", "posting", "returned",
             "persisting", "answering"}
TaskPc == {"idle", "scheduled", "begun", "starting", "polling", "observing",
           "querying", "concluding", "concluded"}
ResultType == [status : DispatchStatus \cup {"none"}, upid : BOOLEAN]
RowType == [state : LedgerState, digest : Digests \cup {"none"},
            dispatch : ResultType,
            verification : VerificationStatus \cup {"none"}]
CallerType == [pc : CallerPc, req : Requests \cup {NoOne},
               digest : Digests \cup {"none"}, res : ResultType,
               to : LedgerState \cup {"none", "unavailable"}]
TaskType == [pc : TaskPc, req : Requests \cup {NoOne}, recovery : BOOLEAN,
             seen : {"none", "running", "down"}, ok : BOOLEAN,
             verdict : VerificationStatus \cup {"none"}]

\* Every variable keeps its type: in particular, only statuses that Core's
\* enumerations name are ever stored in the ledger or in the audit events.
TypeOK ==
    /\ ledger \in [Requests -> RowType]
    /\ log \in [Requests -> Seq(LedgerState \X LedgerState)]
    /\ audit \in [Requests -> SUBSET AuditStatus]
    /\ core \in {"down", "booting", "up"}
    /\ gate \in Gates
    /\ reconciled \subseteq Requests
    /\ loop \in Tasks \cup {NoOne}
    /\ callers \in [Callers -> CallerType]
    /\ tasks \in [Tasks -> TaskType]
    /\ replies \in [Requests -> SUBSET (DispatchStatus \cup
                        {"unavailable", "conflict", "error"})]
    /\ posts \in [Requests -> Nat]
    /\ inflight \in [Requests -> Nat]
    /\ reboots \in [Requests -> Nat]
    /\ ptask \in [Requests -> {"none", "running", "ok", "failed"}]
    /\ guest \in [Requests -> {"running", "down"}]
    /\ returned \in [Requests -> BOOLEAN]
    /\ replaced \in [Requests -> BOOLEAN]
    /\ expired \in [Requests -> BOOLEAN]
    /\ deliveries \in Nat
    /\ crashes \in Nat
    /\ faults \in Nat

\* No row that Core wrote is one its own decoder (_entry) rejects as corrupt: a
\* decided row has its dispatch result, and so has one whose verification runs; a
\* verified one has its verification result, and no other row has one.
RowsDecode ==
    \A r \in Requests :
        LET row == ledger[r] IN
        /\ row.state \in {"succeeded", "failed", "outcome_unknown",
                          "target_replaced", "verifying"} => HasResult(r)
        /\ row.state \in {"verified", "verification_failed"}
              => row.verification # "none"
        /\ row.verification # "none"
              => row.state \in FINAL_STATES \cup {"outcome_unknown"}

\* At most one reboot POST is ever sent for a request, whatever duplicates,
\* crashes, restarts and database errors come in between: Core never replays a
\* crossed or ambiguous mutation boundary.
AtMostOneReboot == \A r \in Requests : posts[r] <= 1

\* A POST is sent only after the dispatch barrier was durably crossed, which
\* happens exactly once; a row that still counts as retryable was never sent.
BarrierPrecedesReboot ==
    \A r \in Requests : posts[r] > 0 =>
        /\ \E i \in BarrierCrossings(r) : BarrierCrossings(r) = {i}
        /\ ledger[r].state \notin {"absent"} \cup PreDispatch

\* The stored transitions always form one allowed chain that ends in the row's
\* state, so the read model never reports its own history as invalid.
TransitionsValid == \A r \in Requests : TransitionSequenceValid(r)

\* At most one verification task owns a request: recovery takes over a
\* verification that a crash interrupted, never one that is running.
SingleVerifier ==
    \A t, u \in Tasks :
        /\ tasks[t].pc \notin {"idle", "scheduled"}
        /\ tasks[u].pc \notin {"idle", "scheduled"}
        /\ tasks[t].req = tasks[u].req
        => t = u

\* An audit event is never ahead of the fact it reports: the crossing is in the
\* transitions, a captured provider operation exists, a verification outcome is
\* the stored one.
AuditNeverAhead ==
    \A r \in Requests :
        /\ "barrier_crossed" \in audit[r] => BarrierCrossings(r) # {}
        /\ "provider_operation_captured" \in audit[r] => reboots[r] > 0
        /\ "verification_succeeded" \in audit[r] => ledger[r].state = "verified"
        /\ "verification_failed" \in audit[r]
              => ledger[r].state = "verification_failed"

\* The ledger as a reader finds it at any moment, a restart's reconciliation
\* included: its rows decode, their transitions form one allowed chain with the
\* barrier before the reboot, the audit trail is behind them, and one task at
\* most works on a verification.
LedgerSound ==
    /\ RowsDecode
    /\ BarrierPrecedesReboot
    /\ TransitionsValid
    /\ SingleVerifier
    /\ AuditNeverAhead

\* What a client was told is durable: success is the stored result, and an
\* unknown outcome is answered only for a request that crossed the barrier.
AnswersAreDurable ==
    \A r \in Requests :
        /\ "succeeded" \in replies[r] => ledger[r].dispatch.status = "succeeded"
        /\ "outcome_unknown" \in replies[r] => BarrierCrossings(r) # {}

\* service.py: "any post-barrier failure is ambiguous".  A reboot that the
\* provider accepted is never recorded as a failed dispatch, whatever is lost,
\* crashes or expires, as long as nobody POSTs a second time.  (A duplicate whose
\* own target check fails may store FAILED over a dispatch in the handler.)
FailureMeansNoReboot ==
    deliveries <= 1 =>
        \A r \in Requests :
            ledger[r].dispatch.status = "failed" => reboots[r] = 0

\* A verified request was rebooted once and its provider task ended well.
VerifiedMeansTaskOk ==
    \A r \in Requests :
        ledger[r].state = "verified" => reboots[r] = 1 /\ ptask[r] = "ok"

\* What a client is told, and what the row says of the guest, is the case.
AnswersAreTrue ==
    /\ AnswersAreDurable
    /\ FailureMeansNoReboot
    /\ VerifiedMeansTaskOk

\* Once the read model calls a request terminal, its row never changes again:
\* verified and failed results are never reopened.
NeverReopened ==
    [][\A r \in Requests : Terminal(r) => ledger'[r] = ledger[r]]_vars

\* Without database errors no row stays in dispatching: the handler's outcome is
\* stored, or a restart classifies the row as unknown.
DispatchDecided ==
    \A r \in Requests : ledger[r].state = "dispatching"
                            ~> ledger[r].state # "dispatching"

\* Without database errors a captured provider operation gets a verification
\* result by its deadline, also when Core crashes in between, unless the restart
\* came up without the verifier.
VerificationConcludes ==
    \A r \in Requests :
        ledger[r].dispatch.upid
          ~> ledger[r].verification # "none" \/ gate = "no_handler"

----------------------------------------------------------------------------
(* What a client can see.                                                  *)

\* An unavailable target is answered as a failure, a conflict by an HTTP error.
ClientSees(a) ==
    IF a = "unavailable" THEN "failed" ELSE IF a = "conflict" THEN "error" ELSE a

\* The ledger's rows and the answers, as the Agent may know them.
Lifecycle == INSTANCE OperationalLifecycle WITH
    state <- [r \in Requests |-> ledger[r].state],
    result <- [r \in Requests |-> ledger[r].dispatch.status],
    answers <- [r \in Requests |-> {ClientSees(a) : a \in replies[r]}]

\* Core's dispatch, verification, crash and recovery, with all their awaits and
\* transactions, show a client nothing but the forward-only lifecycle with one
\* result per request and the answers it allows.
ImplementsLifecycle == Lifecycle!LifecycleSpec

=============================================================================
