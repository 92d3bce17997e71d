-------------------------- MODULE ExecutionWorker --------------------------
(***************************************************************************)
(* The isolated execution worker: its durable SQLite ledger, the POST      *)
(* handler that claims a request, marks it executing, runs the approved    *)
(* command in a disposable workspace and stores the result, and the        *)
(* reconciliation of the ledger when the worker starts.                    *)
(*                                                                         *)
(* The handler has no await between claiming a request and answering it,   *)
(* so one POST is handled at a time; a crash may come between any two of   *)
(* its ledger transactions.  A POST may be lost, or delivered again by     *)
(* whoever holds the request.                                              *)
(***************************************************************************)
EXTENDS Naturals

CONSTANTS
    Requests,   \* execution request IDs
    Digests,    \* request digests a POST may carry
    None,       \* no digest, no reply, no request being handled
    Settings    \* what a behaviour may meet: kinds of fault, other clients of the
                \* worker, workflows in use

ASSUME NoneAssumption == None \notin Requests \cup Digests

ASSUME SettingsAssumption ==
    Settings \subseteq [faults : SUBSET {"worker", "network", "agent", "disk", "client"},
                        inUse : SUBSET Requests]

VARIABLES
    rows,       \* durable: request ID -> row of the executions table
    enabled,    \* execution_enabled, as this process was started
    handler,    \* "down", "idle", or the step the POST handler is at
    handled,    \* the POST being handled, or None
    outcome,    \* what the runner returned to the handler
    inbox,      \* POSTs on their way to the worker
    replies,    \* request ID -> the latest answer sent, or None
    runs,       \* history: request ID -> times the command was started
    setting     \* the setting of this behaviour: it never changes

workerVars == <<rows, enabled, handler, handled, outcome, inbox, replies, runs,
                setting>>

----------------------------------------------------------------------------
(* Values.                                                                 *)

DurableState == {"claimed", "executing", "completed", "failed_terminal",
                 "unknown_outcome"}

TERMINAL_STATES == {"completed", "failed_terminal", "unknown_outcome"}

AbsentRow == [state |-> "absent", digest |-> None, started |-> FALSE]

Post == [id : Requests, digest : Digests]

HandlerStep == {"down", "idle", "claim", "mark", "run", "persist"}

\* An envelope carries the row's state and digest; "error" stands for every
\* answer with a status of 300 or more.
Envelope(row) == [state |-> row.state, digest |-> row.digest]

ErrorReply == [state |-> "error", digest |-> None]

Reply == [state : DurableState \cup {"error"}, digest : Digests \cup {None}]

\* The ledger state persist_result gives a result of the runner, which reports
\* a success or one of its failure codes and never a worker crash.
ResultState(result) ==
    IF result = "succeeded" THEN "completed" ELSE "failed_terminal"

\* validate_worker_ledger_row: a row that breaks this makes every read of the
\* ledger, startup reconciliation included, raise DurableLedgerCorruptionError.
RowDecodes(row) ==
    /\ row.state = "claimed" => ~row.started
    /\ row.state \in {"executing", "unknown_outcome"} => row.started

----------------------------------------------------------------------------
(* Steps of the POST handler.                                              *)

\* The handler answers the client and is free for the next POST.
Answer(reply) ==
    /\ replies' = [replies EXCEPT ![handled.id] = reply]
    /\ handler' = "idle"
    /\ handled' = None
    /\ outcome' = None

\* A POST reaches the worker; it may be delivered again later.
Deliver ==
    /\ handler = "idle"
    /\ \E post \in inbox :
         /\ handled' = post
         /\ \/ inbox' = inbox \ {post}
            \/ "network" \in setting.faults /\ UNCHANGED inbox
    /\ handler' = "claim"
    /\ UNCHANGED <<rows, enabled, outcome, replies, runs>>

\* Framing, contract or sandbox checks fail before anything is recorded.
RefuseBeforeClaim ==
    /\ "worker" \in setting.faults
    /\ handler = "claim"
    /\ Answer(ErrorReply)
    /\ UNCHANGED <<rows, enabled, inbox, runs>>

\* A request ID that was claimed with another digest is refused.
ClaimConflict ==
    /\ handler = "claim"
    /\ rows[handled.id].state # "absent"
    /\ rows[handled.id].digest # handled.digest
    /\ Answer(ErrorReply)
    /\ UNCHANGED <<rows, enabled, inbox, runs>>

ClaimNew ==
    /\ handler = "claim"
    /\ rows[handled.id].state = "absent"
    /\ rows' = [rows EXCEPT ![handled.id] = [state |-> "claimed",
                                             digest |-> handled.digest,
                                             started |-> FALSE]]
    /\ handler' = "mark"
    /\ UNCHANGED <<enabled, handled, outcome, inbox, replies, runs>>

\* Mutant: a request without a success may be started again.
MayStartFailed(row) == row.state \in {"claimed", "failed_terminal"}

\* Only a row that is still claimed goes on to the start barrier.
MayStart(row) == row.state = "claimed"

ClaimAgain ==
    /\ handler = "claim"
    /\ rows[handled.id].digest = handled.digest
    /\ MayStart(rows[handled.id])
    /\ handler' = "mark"
    /\ UNCHANGED <<rows, enabled, handled, outcome, inbox, replies, runs>>

\* Any other row is answered as it stands; nothing is started.
AnswerStored ==
    /\ handler = "claim"
    /\ rows[handled.id].digest = handled.digest
    /\ ~MayStart(rows[handled.id])
    /\ Answer(Envelope(rows[handled.id]))
    /\ UNCHANGED <<rows, enabled, inbox, runs>>

\* Mutant: the marker is left to persist_result.
MarkAfterRun ==
    /\ handler = "mark"
    /\ enabled
    /\ UNCHANGED rows
    /\ handler' = "run"
    /\ UNCHANGED <<enabled, handled, outcome, inbox, replies, runs>>

\* The one-way barrier, committed before the runner starts.
MarkExecuting ==
    /\ handler = "mark"
    /\ enabled
    /\ rows' = [rows EXCEPT ![handled.id].state = "executing",
                            ![handled.id].started = TRUE]
    /\ handler' = "run"
    /\ UNCHANGED <<enabled, handled, outcome, inbox, replies, runs>>

\* A worker whose execution is disabled stores a failure without starting.
PersistDisabled ==
    /\ handler = "mark"
    /\ ~enabled
    /\ LET row == [rows[handled.id] EXCEPT !.state = "failed_terminal"]
       IN  /\ rows' = [rows EXCEPT ![handled.id] = row]
           /\ Answer(Envelope(row))
    /\ UNCHANGED <<enabled, inbox, runs>>

\* runner.execute: the workspace is prepared, the command runs once, the
\* bounded patch is collected, the workspace is removed.
RunCommand ==
    /\ handler = "run"
    /\ runs' = [runs EXCEPT ![handled.id] = @ + 1]
    /\ outcome' \in {"succeeded", "failed"}
    /\ handler' = "persist"
    /\ UNCHANGED <<rows, enabled, handled, inbox, replies>>

\* An exception after the marker answers an error and leaves the row executing.
StartedThenRaised ==
    /\ "worker" \in setting.faults
    /\ handler \in {"run", "persist"}
    /\ Answer(ErrorReply)
    /\ UNCHANGED <<rows, enabled, inbox, runs>>

PersistResult ==
    /\ handler = "persist"
    /\ LET row == [rows[handled.id] EXCEPT !.state = ResultState(outcome)]
       IN  /\ rows' = [rows EXCEPT ![handled.id] = row]
           /\ Answer(Envelope(row))
    /\ UNCHANGED <<enabled, inbox, runs>>

----------------------------------------------------------------------------
(* The worker process and its network.                                     *)

WorkerCrash ==
    /\ "worker" \in setting.faults
    /\ handler # "down"
    /\ handler' = "down"
    /\ handled' = None
    /\ outcome' = None
    /\ UNCHANGED <<rows, enabled, inbox, replies, runs>>

\* Mutant: interrupted work goes back to claimed so that it can be retried.
ReconciledToClaimed(row) ==
    IF row.state = "executing"
    THEN [row EXCEPT !.state = "claimed", !.started = FALSE]
    ELSE row

\* reconcile_startup: work that was executing has an unknown outcome.
Reconciled(row) ==
    IF row.state = "executing" THEN [row EXCEPT !.state = "unknown_outcome"]
    ELSE row

WorkerStart ==
    /\ handler = "down"
    /\ rows' = [q \in Requests |-> Reconciled(rows[q])]
    /\ enabled' \in BOOLEAN
    /\ handler' = "idle"
    /\ UNCHANGED <<handled, outcome, inbox, replies, runs>>

LosePost ==
    /\ "network" \in setting.faults
    /\ \E post \in inbox : inbox' = inbox \ {post}
    /\ UNCHANGED <<rows, enabled, handler, handled, outcome, replies, runs>>

WorkerNext ==
    /\ \/ Deliver \/ RefuseBeforeClaim \/ ClaimConflict \/ ClaimNew \/ ClaimAgain
       \/ AnswerStored \/ MarkExecuting \/ PersistDisabled \/ RunCommand
       \/ StartedThenRaised \/ PersistResult
       \/ WorkerCrash \/ WorkerStart \/ LosePost
    /\ UNCHANGED setting

----------------------------------------------------------------------------
(* The worker by itself, with clients that may POST anything at any time.  *)

WorkerInit ==
    /\ rows = [q \in Requests |-> AbsentRow]
    /\ enabled \in BOOLEAN
    /\ handler = "idle"
    /\ handled = None
    /\ outcome = None
    /\ inbox = {}
    /\ replies = [q \in Requests |-> None]
    /\ runs = [q \in Requests |-> 0]
    /\ setting \in Settings

ClientPosts ==
    /\ "client" \in setting.faults
    /\ \E post \in Post : inbox' = inbox \cup {post}
    /\ UNCHANGED <<rows, enabled, handler, handled, outcome, replies, runs,
                   setting>>

WorkerSpec == WorkerInit /\ [][WorkerNext \/ ClientPosts]_workerVars

----------------------------------------------------------------------------
(* Properties of the worker.                                               *)

WorkerTypeOK ==
    /\ rows \in [Requests -> [state : DurableState \cup {"absent"},
                              digest : Digests \cup {None},
                              started : BOOLEAN]]
    /\ enabled \in BOOLEAN
    /\ handler \in HandlerStep
    /\ handled \in Post \cup {None}
    /\ outcome \in {None, "succeeded", "failed"}
    /\ inbox \subseteq Post
    /\ replies \in [Requests -> Reply \cup {None}]
    /\ runs \in [Requests -> Nat]
    /\ setting \in Settings

\* The committed executing marker is a one-way barrier: whatever is POSTed,
\* delivered twice or interrupted, the command of a request ID starts at most
\* once over the life of the ledger.
AtMostOneRun == \A q \in Requests : runs[q] <= 1

\* A command that was started has left the start marker in the ledger, so a
\* later reader never takes it for one that did not start.
RunIsRecorded == \A q \in Requests : runs[q] > 0 => rows[q].started

\* Every row the handler and the reconciliation write can be read back; one
\* that cannot makes the whole ledger unreadable.
RowsDecode == \A q \in Requests : RowDecodes(rows[q])

\* A terminal result, the digest it belongs to and the start marker never
\* change, across restarts and duplicate POSTs.
TerminalImmutable ==
    [][\A q \in Requests :
         /\ rows[q].state \in TERMINAL_STATES => rows'[q] = rows[q]
         /\ rows[q].digest # None => rows'[q].digest = rows[q].digest]_workerVars

\* A success is answered only for a command that ran, and for the digest the
\* client that claimed it sent.
SuccessWasRun ==
    \A q \in Requests :
       /\ replies[q] # None
       /\ replies[q].state = "completed"
       => /\ runs[q] = 1
          /\ rows[q].state = "completed"
          /\ replies[q].digest = rows[q].digest

\* What the worker's rows say of its runs, in every state a restart may find.
LedgerInv ==
    /\ WorkerTypeOK
    /\ RunIsRecorded
    /\ RowsDecode
    /\ SuccessWasRun
=============================================================================
